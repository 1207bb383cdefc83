----------------------------- MODULE CacheProofs ----------------------------
(***************************************************************************)
(* Proofs about the session cache, for any number of callers, models,      *)
(* devices, files and changes to them: what a session that is handed out   *)
(* was built from.                                                         *)
(***************************************************************************)
EXTENDS SessionCache, TLAPS

(* The register of a model holds manifests of that model. *)
PublishedInv == \A id \in ModelId : published[id] # None => published[id].id = id

(* What SessionOfItsKey says of the device d of a session, for a request. *)
Suits(d, preference) ==
    IF preference = "auto" THEN d = "cpu" <=> Accelerators = {}
                           ELSE d = preference

(* A session, alive, of the model and the device of key, with a digest. *)
Provides(s, key, sha256) ==
    /\ s \in Session
    /\ loaded[s] # None
    /\ loaded[s].manifest.id = key.id
    /\ loaded[s].manifest.sha256 = sha256
    /\ Suits(loaded[s].device, key.device)

EntriesInv ==
    \A k \in CacheKey :
        cache[k] # None => Provides(cache[k].session, k, cache[k].sha256)

Holding(c) == pc[c] \in {"insert", "got", "generate"}

(* The weights, and the tokenizer if it has a digest, have been verified:  *)
(* the files still are what they were unless they changed since.           *)
WeightsVerified(c) ==
    manifest[c].weights \notin raced[c] =>
        Sha256(file[manifest[c].weights]) = manifest[c].sha256

TokenizerVerified(c, content) ==
    (manifest[c].tokenizer_sha256 # None /\ manifest[c].tokenizer \notin raced[c])
        => Sha256(content) = manifest[c].tokenizer_sha256

CallInv(c) ==
    /\ pc[c] # "idle" =>
           /\ manifest[c] # None /\ manifest[c].id = request[c].id
           /\ manifest[c] \in seen[c]
           /\ published[request[c].id] \in seen[c]
    /\ Holding(c) => Provides(session[c], request[c], manifest[c].sha256)
    /\ pc[c] \in {"verify_tokenizer", "select", "load_tokenizer",
                  "load_weights"} => WeightsVerified(c)
    /\ pc[c] = "verify_tokenizer" =>
           manifest[c].tokenizer # None /\ manifest[c].tokenizer_sha256 # None
    /\ pc[c] \in {"select", "load_tokenizer"} /\ manifest[c].tokenizer # None =>
           TokenizerVerified(c, file[manifest[c].tokenizer])
    /\ pc[c] \in {"load_tokenizer", "load_weights"} =>
           /\ manifest[c].tokenizer # None
           /\ Select(request[c].device, Accelerators) # "unavailable"
    /\ pc[c] = "load_weights" =>
           tokenizer[c] # None /\ TokenizerVerified(c, tokenizer[c])

CacheInv ==
    /\ TypeOK
    /\ epoch <= changes
    /\ PublishedInv
    /\ EntriesInv
    /\ LoadedAsVerified
    /\ \A c \in Caller : CallInv(c)
-----------------------------------------------------------------------------
LEMMA NoneApart ==
    /\ \A m \in Manifest : m # None
    /\ \A s \in Session : s # None
    /\ \A c \in Caller : c # None
    /\ \A x \in Content : x # None /\ x # Absent
BY CacheAssumption

LEMMA LoadedNotNone == \A l \in Loaded : l # None
BY LoadedAssumption

LEMMA KeyTypes == \A r \in CacheKey : Key(r) = r /\ Key(r) \in CacheKey
BY DEF CacheKey, Key

LEMMA SelectSuits ==
    ASSUME NEW d \in Device, Select(d, Accelerators) # "unavailable"
    PROVE  /\ Select(d, Accelerators) \in {"cpu", "cuda", "metal"}
           /\ Suits(Select(d, Accelerators), d)
<1>1. d \in Preference /\ Accelerators \subseteq {"cuda", "metal"}
  BY CacheAssumption
<1>2. CASE d = "auto"
  BY <1>1, <1>2 DEF Select, Suits
<1>3. CASE d # "auto"
  BY <1>1, <1>3 DEF Select, Suits, Preference
<1> QED BY <1>2, <1>3

LEMMA ThreadTypes ==
    ASSUME NEW setting \in Nat \cup {None}
    PROVE  DecodeThreads(setting, None, Cores) \in Nat \cup {None}
BY CacheAssumption DEF DecodeThreads

LEMMA InitCache == Init => CacheInv
<1> SUFFICES ASSUME Init PROVE CacheInv
  OBVIOUS
<1>1. (CHOOSE k \in CacheKey : TRUE) \in CacheKey
  <2>1. PICK id \in ModelId, d \in Device : TRUE
    BY CacheAssumption
  <2>2. [id |-> id, device |-> d] \in CacheKey
    BY DEF CacheKey
  <2> QED BY <2>2
<1>2. published \in [ModelId -> Manifest \cup {None}]
  BY DEF Init, Registered
<1>3. TypeOK
  BY <1>1, <1>2, CacheAssumption DEF Init, TypeOK, PC
<1>4. LoadedAsVerified /\ EntriesInv /\ PublishedInv
  BY DEF Init, LoadedAsVerified, EntriesInv, PublishedInv
<1>5. \A c \in Caller : CallInv(c)
  BY DEF Init, CallInv, Holding
<1>6. epoch <= changes
  BY DEF Init
<1> QED BY <1>3, <1>4, <1>5, <1>6 DEF CacheInv
-----------------------------------------------------------------------------
(* What a step leaves alone.                                               *)

LEMMA EntriesKept ==
    ASSUME CacheInv, UNCHANGED cache,
           \A k \in CacheKey : cache[k] # None =>
               loaded'[cache[k].session] = loaded[cache[k].session]
    PROVE  EntriesInv'
BY DEF CacheInv, EntriesInv, Provides, Suits

LEMMA OthersKept ==
    ASSUME CacheInv, NEW c \in Caller, UNCHANGED <<published, file>>,
           pc'[c] = pc[c], request'[c] = request[c], manifest'[c] = manifest[c],
           tokenizer'[c] = tokenizer[c], session'[c] = session[c],
           seen'[c] = seen[c], raced'[c] = raced[c],
           Holding(c) => loaded'[session[c]] = loaded[session[c]]
    PROVE  CallInv(c)'
<1>1. CallInv(c)
  BY DEF CacheInv
<1>2. Holding(c)' = Holding(c)
  BY DEF Holding
<1> QED BY <1>1, <1>2 DEF CallInv, Provides, Suits, WeightsVerified, TokenizerVerified

(* A step of one caller that loads nothing and drops nothing. *)
LEMMA CallerKeeps ==
    ASSUME CacheInv, NEW c \in Caller, UNCHANGED <<env, cache, loaded>>,
           \A d \in Caller \ {c} :
               /\ pc'[d] = pc[d] /\ request'[d] = request[d]
               /\ manifest'[d] = manifest[d] /\ tokenizer'[d] = tokenizer[d]
               /\ session'[d] = session[d] /\ seen'[d] = seen[d]
               /\ raced'[d] = raced[d],
           TypeOK', CallInv(c)'
    PROVE  CacheInv'
<1>1. UNCHANGED <<published, file, cache, loaded, epoch, changes>>
  BY DEF env
<1>2. PublishedInv' /\ (epoch <= changes)' /\ LoadedAsVerified'
  BY <1>1 DEF CacheInv, PublishedInv, LoadedAsVerified
<1>3. EntriesInv'
  BY <1>1, EntriesKept
<1>4. ASSUME NEW d \in Caller, d # c PROVE CallInv(d)'
  BY <1>1, <1>4, OthersKept
<1> QED BY <1>2, <1>3, <1>4 DEF CacheInv

LEMMA FailKeeps ==
    ASSUME CacheInv, NEW c \in Caller, Fail(c), UNCHANGED env
    PROVE  CacheInv'
<1>1. TypeOK
  BY DEF CacheInv
<1>2. TypeOK'
  BY <1>1 DEF Fail, EndCall, GoTo, TypeOK, env, PC
<1>3. CallInv(c)'
  BY <1>1 DEF Fail, EndCall, GoTo, TypeOK, CallInv, Holding
<1>4. \A d \in Caller \ {c} :
               /\ pc'[d] = pc[d] /\ request'[d] = request[d]
               /\ manifest'[d] = manifest[d] /\ tokenizer'[d] = tokenizer[d]
               /\ session'[d] = session[d] /\ seen'[d] = seen[d]
               /\ raced'[d] = raced[d]
  BY <1>1 DEF Fail, EndCall, GoTo, TypeOK
<1> QED BY <1>2, <1>3, <1>4, CallerKeeps DEF Fail
-----------------------------------------------------------------------------
(* The steps of a call.                                                    *)

LEMMA GetKeeps ==
    ASSUME CacheInv, NEW c \in Caller, NEW id \in ModelId, NEW device \in Device,
           Get(c, id, device)
    PROVE  CacheInv'
<1>1. TypeOK /\ PublishedInv
  BY DEF CacheInv
<1>2. [id |-> id, device |-> device] \in CacheKey /\ published[id] \in Manifest
  BY <1>1 DEF CacheKey, Get, TypeOK
<1>3. TypeOK'
  BY <1>1, <1>2 DEF Get, GoTo, TypeOK, env, PC, Resolving
<1>4. CallInv(c)'
  <2>1. /\ request'[c].id = id /\ manifest'[c] = published[id]
        /\ seen'[c] = {published[id]} /\ pc'[c] = "lookup" /\ published' = published
    BY <1>1, <1>2 DEF Get, GoTo, TypeOK, env
  <2> QED BY <1>1, <2>1 DEF Get, CallInv, Holding, PublishedInv
<1> QED BY <1>1, <1>3, <1>4, CallerKeeps DEF Get, GoTo, TypeOK

LEMMA LookupKeeps ==
    ASSUME CacheInv, NEW c \in Caller, Lookup(c)
    PROVE  CacheInv'
<1>1. TypeOK /\ CallInv(c) /\ EntriesInv
  BY DEF CacheInv
<1>2. CASE Hit(c)
  <2> DEFINE entry == cache[Key(request[c])]
  <2>1. /\ request[c] \in CacheKey /\ Key(request[c]) = request[c]
        /\ entry # None /\ entry.sha256 = manifest[c].sha256
    BY <1>1, <1>2, KeyTypes DEF Hit, TypeOK
  <2>2. Provides(entry.session, request[c], manifest[c].sha256)
    BY <1>1, <2>1 DEF EntriesInv
  <2> HIDE DEF entry
  <2>3. /\ session' = [session EXCEPT ![c] = entry.session] /\ GoTo(c, "got")
        /\ entry.session \in Session
    BY <1>2, <2>2 DEF Lookup, Provides, entry
  <2>4. TypeOK'
    BY <1>1, <2>3 DEF Lookup, GoTo, TypeOK, env, PC
  <2>5. /\ pc'[c] = "got" /\ session'[c] = entry.session
        /\ UNCHANGED <<published, loaded, request, manifest, seen>>
    BY <1>1, <2>3 DEF Lookup, GoTo, TypeOK, env
  <2>6. CallInv(c)'
    BY <1>1, <2>2, <2>5 DEF Lookup, CallInv, Holding, Provides, Suits
  <2> QED BY <1>1, <2>3, <2>4, <2>6, CallerKeeps DEF Lookup, GoTo, TypeOK
<1>3. CASE ~Hit(c)
  <2>1. TypeOK'
    BY <1>1, <1>3 DEF Lookup, GoTo, TypeOK, env, PC, Resolving
  <2>2. CallInv(c)'
    BY <1>1, <1>3 DEF Lookup, GoTo, TypeOK, CallInv, Holding, env
  <2> QED BY <1>1, <1>3, <2>1, <2>2, CallerKeeps DEF Lookup, GoTo, TypeOK
<1> QED BY <1>2, <1>3

LEMMA VerifyGetKeeps ==
    ASSUME CacheInv, NEW c \in Caller, VerifyGet(c)
    PROVE  CacheInv'
<1>1. TypeOK /\ CallInv(c) /\ PublishedInv
  BY DEF CacheInv
<1>2. request[c] \in CacheKey /\ request[c].id \in ModelId
  BY <1>1 DEF TypeOK, CacheKey
<1>3. published[request[c].id] \in Manifest /\ published[request[c].id] \in seen[c]
  BY <1>1, <1>2, NoneApart DEF VerifyGet, TypeOK, CallInv
<1>4. TypeOK'
  BY <1>1, <1>3 DEF VerifyGet, GoTo, TypeOK, env, PC, Resolving
<1>5. CallInv(c)'
  <2>1. /\ pc'[c] = "verify_weights" /\ manifest'[c] = published[request[c].id]
        /\ UNCHANGED <<published, request, seen>>
    BY <1>1 DEF VerifyGet, GoTo, TypeOK, env
  <2>2. published[request[c].id] # None
    BY <1>3, NoneApart
  <2> QED BY <1>1, <1>2, <1>3, <2>1, <2>2 DEF CallInv, Holding, PublishedInv
<1> QED BY <1>1, <1>4, <1>5, CallerKeeps DEF VerifyGet, GoTo, TypeOK

LEMMA VerifyWeightsKeeps ==
    ASSUME CacheInv, NEW c \in Caller, VerifyWeights(c)
    PROVE  CacheInv'
<1>1. TypeOK /\ CallInv(c)
  BY DEF CacheInv
<1>2. CASE WeightsVerify(c)
  <2>1. /\ pc'[c] \in {"select", "verify_tokenizer"}
        /\ pc' = [pc EXCEPT ![c] = pc'[c]]
    BY <1>1, <1>2 DEF VerifyWeights, GoTo, TypeOK
  <2>2. TypeOK'
    BY <1>1, <1>2 DEF VerifyWeights, GoTo, TypeOK, env, PC, Resolving
  <2>3. CallInv(c)'
    <3>1. UNCHANGED <<published, file, request, manifest, raced, seen>>
      BY <1>2 DEF VerifyWeights, env
    <3>2. Sha256(file[manifest[c].weights]) = manifest[c].sha256
      BY <1>2 DEF WeightsVerify
    <3>3. /\ pc'[c] = "verify_tokenizer" => /\ manifest[c].tokenizer # None
                                            /\ manifest[c].tokenizer_sha256 # None
          /\ pc'[c] = "select" => \/ manifest[c].tokenizer = None
                                  \/ manifest[c].tokenizer_sha256 = None
      BY <1>1, <1>2 DEF VerifyWeights, GoTo, TypeOK
    <3> QED BY <1>1, <2>1, <3>1, <3>2, <3>3
        DEF VerifyWeights, CallInv, Holding, WeightsVerified, TokenizerVerified
  <2> QED BY <1>1, <1>2, <2>2, <2>3, CallerKeeps DEF VerifyWeights, GoTo, TypeOK
<1>3. CASE ~WeightsVerify(c)
  BY <1>3, FailKeeps DEF VerifyWeights
<1> QED BY <1>2, <1>3

LEMMA VerifyTokenizerKeeps ==
    ASSUME CacheInv, NEW c \in Caller, VerifyTokenizer(c)
    PROVE  CacheInv'
<1>1. TypeOK /\ CallInv(c)
  BY DEF CacheInv
<1>2. CASE TokenizerVerifies(c)
  <2>1. TypeOK'
    BY <1>1, <1>2 DEF VerifyTokenizer, GoTo, TypeOK, env, PC, Resolving
  <2>2. CallInv(c)'
    <3>1. /\ UNCHANGED <<published, file, request, manifest, raced, seen>>
          /\ pc[c] = "verify_tokenizer" /\ pc'[c] = "select"
      BY <1>1, <1>2 DEF VerifyTokenizer, GoTo, TypeOK, env
    <3>2. Sha256(file[manifest[c].tokenizer]) = manifest[c].tokenizer_sha256
      BY <1>2 DEF TokenizerVerifies
    <3> QED BY <1>1, <3>1, <3>2
        DEF CallInv, Holding, WeightsVerified, TokenizerVerified
  <2> QED BY <1>1, <1>2, <2>1, <2>2, CallerKeeps DEF VerifyTokenizer, GoTo, TypeOK
<1>3. CASE ~TokenizerVerifies(c)
  BY <1>3, FailKeeps DEF VerifyTokenizer
<1> QED BY <1>2, <1>3

LEMMA SelectKeeps ==
    ASSUME CacheInv, NEW c \in Caller, SelectDevice(c)
    PROVE  CacheInv'
<1>1. TypeOK /\ CallInv(c)
  BY DEF CacheInv
<1> DEFINE ok == /\ Select(request[c].device, Accelerators) # "unavailable"
                 /\ manifest[c].tokenizer # None
<1>2. CASE ok
  <2>1. /\ GoTo(c, "load_tokenizer") /\ UNCHANGED env /\ pc[c] = "select"
        /\ UNCHANGED <<cache, loaded, mutex, request, manifest, tokenizer,
                      session, seen, raced, began>>
    BY <1>2 DEF SelectDevice
  <2>2. TypeOK'
    BY <1>1, <2>1 DEF GoTo, TypeOK, env, PC, Resolving
  <2>3. CallInv(c)'
    <3>1. pc'[c] = "load_tokenizer" /\ UNCHANGED <<published, file>>
      BY <1>1, <2>1 DEF GoTo, TypeOK, env
    <3> QED BY <1>1, <1>2, <2>1, <3>1
        DEF CallInv, Holding, WeightsVerified, TokenizerVerified
  <2> QED BY <1>1, <2>1, <2>2, <2>3, CallerKeeps DEF GoTo, TypeOK
<1>3. CASE ~ok
  BY <1>3, FailKeeps DEF SelectDevice
<1> QED BY <1>2, <1>3

LEMMA LoadTokenizerKeeps ==
    ASSUME CacheInv, NEW c \in Caller, LoadTokenizer(c)
    PROVE  CacheInv'
<1> DEFINE content == file[manifest[c].tokenizer]
<1>1. TypeOK /\ CallInv(c)
  BY DEF CacheInv
<1>2. CASE /\ content # Absent
           /\ tokenizer' = [tokenizer EXCEPT ![c] = content]
           /\ GoTo(c, "load_weights")
           /\ UNCHANGED <<cache, loaded, mutex, request, manifest, session,
                          seen, raced, began>>
  <2>1. content \in Content
    <3>1. manifest[c] \in Manifest /\ manifest[c].tokenizer # None
      BY <1>1 DEF TypeOK, CallInv, LoadTokenizer
    <3>2. manifest[c].tokenizer \in Path
      BY <3>1 DEF Manifest
    <3> QED BY <1>1, <1>2, <3>2 DEF TypeOK
  <2>2. /\ GoTo(c, "load_weights") /\ UNCHANGED env /\ pc[c] = "load_tokenizer"
        /\ tokenizer' = [tokenizer EXCEPT ![c] = content]
        /\ UNCHANGED <<cache, loaded, mutex, request, manifest, session,
                      seen, raced, began>>
    BY <1>2 DEF LoadTokenizer
  <2>3. TypeOK'
    BY <1>1, <2>1, <2>2 DEF GoTo, TypeOK, env, PC, Resolving
  <2>4. CallInv(c)'
    <3>1. /\ pc'[c] = "load_weights" /\ UNCHANGED <<published, file>>
          /\ tokenizer'[c] = content /\ content # None
      BY <1>1, <2>1, <2>2, NoneApart DEF GoTo, TypeOK, env
    <3> QED BY <1>1, <2>2, <3>1
        DEF CallInv, Holding, WeightsVerified, TokenizerVerified
  <2> QED BY <1>1, <2>2, <2>3, <2>4, CallerKeeps DEF GoTo, TypeOK
<1>3. CASE Fail(c)
  BY <1>3, FailKeeps DEF LoadTokenizer
<1> QED BY <1>2, <1>3 DEF LoadTokenizer

LEMMA LoadWeightsKeeps ==
    ASSUME CacheInv, NEW c \in Caller, NEW s \in Session, LoadWeights(c, s)
    PROVE  CacheInv'
<1> DEFINE content == file[manifest[c].weights]
           device == Select(request[c].device, Accelerators)
           new == [manifest |-> manifest[c], device |-> device,
                   weights |-> content, tokenizer |-> tokenizer[c],
                   raced |-> raced[c], epoch |-> epoch]
<1>1. /\ TypeOK /\ CallInv(c) /\ EntriesInv /\ LoadedAsVerified /\ PublishedInv
      /\ epoch <= changes /\ pc[c] = "load_weights" /\ loaded[s] = None
      /\ UNCHANGED <<published, file, epoch, changes>>
      /\ threads' \in Nat \cup {None}
  BY ThreadTypes DEF CacheInv, LoadWeights, TypeOK
<1>2. /\ manifest[c] \in Manifest /\ manifest[c].id = request[c].id
      /\ manifest[c].weights \in Path /\ content \in Content \cup {Absent}
      /\ request[c] \in CacheKey /\ request[c].device \in Device
  <2>1. manifest[c] \in Manifest /\ manifest[c].id = request[c].id
        /\ request[c] \in CacheKey
    BY <1>1 DEF TypeOK, CallInv
  <2>2. manifest[c].weights \in Path /\ request[c].device \in Device
    BY <2>1 DEF Manifest, CacheKey
  <2> QED BY <1>1, <2>1, <2>2 DEF TypeOK
<1>3. CASE Fail(c)
  <2>1. Fail(c)
    BY <1>3
  <2>2. TypeOK'
    BY <1>1, <2>1 DEF Fail, EndCall, GoTo, TypeOK, PC
  <2>3. CallInv(c)'
    BY <1>1, <2>1 DEF Fail, EndCall, GoTo, TypeOK, CallInv, Holding
  <2>4. ASSUME NEW d \in Caller, d # c PROVE CallInv(d)'
    BY <1>1, <2>1, <2>4, OthersKept DEF Fail, EndCall, GoTo, TypeOK
  <2>5. PublishedInv' /\ (epoch <= changes)' /\ LoadedAsVerified' /\ EntriesInv'
    BY <1>1, <2>1, EntriesKept DEF Fail, PublishedInv, LoadedAsVerified
  <2> QED BY <2>2, <2>3, <2>4, <2>5 DEF CacheInv
<1>4. CASE /\ Adapter(manifest[c].details) # "unsupported"
           /\ content # Absent
           /\ loaded' = [loaded EXCEPT ![s] = new]
           /\ session' = [session EXCEPT ![c] = s]
           /\ tokenizer' = [tokenizer EXCEPT ![c] = None]
           /\ GoTo(c, "insert")
           /\ UNCHANGED <<cache, mutex, request, manifest, seen, raced, began>>
  <2>1. /\ loaded' = [loaded EXCEPT ![s] = new]
        /\ session' = [session EXCEPT ![c] = s]
        /\ tokenizer' = [tokenizer EXCEPT ![c] = None]
        /\ GoTo(c, "insert")
        /\ UNCHANGED <<cache, mutex, request, manifest, seen, raced, began>>
    BY <1>4
  <2>2. /\ content \in Content /\ tokenizer[c] \in Content
        /\ device \in {"cpu", "cuda", "metal"}
        /\ Suits(device, request[c].device)
    BY <1>1, <1>2, <1>4, SelectSuits DEF TypeOK, CallInv
  <2>3. new \in Loaded /\ new # None
    <3>1. raced[c] \subseteq Path /\ epoch \in Nat
      BY <1>1, CacheAssumption DEF TypeOK
    <3>2. new \in Loaded
      BY <1>2, <2>2, <3>1 DEF Loaded
    <3> QED BY <3>2, LoadedNotNone
  <2> HIDE DEF content, device
  <2>4. /\ new.manifest = manifest[c] /\ new.device = device
        /\ new.weights = content /\ new.tokenizer = tokenizer[c]
        /\ new.raced = raced[c]
    OBVIOUS
  <2> HIDE DEF new
  <2>5. /\ loaded'[s] = new /\ pc'[c] = "insert" /\ session'[c] = s
        /\ \A t \in Session \ {s} : loaded'[t] = loaded[t]
    BY <1>1, <2>1 DEF TypeOK, GoTo
  <2>6. TypeOK'
    BY <1>1, <2>1, <2>3 DEF GoTo, TypeOK, PC, Resolving
  <2>7. CallInv(c)'
    BY <1>1, <2>1, <2>2, <2>3, <2>4, <2>5
    DEF CallInv, Holding, Provides, Suits
  <2>8. ASSUME NEW d \in Caller, d # c PROVE CallInv(d)'
    <3>1. Holding(d) => session[d] # s /\ session[d] \in Session
      BY <1>1 DEF CacheInv, CallInv, Provides
    <3> QED BY <1>1, <2>1, <2>5, <2>8, <3>1, OthersKept DEF GoTo, TypeOK
  <2>9. EntriesInv'
    <3>1. \A k \in CacheKey : cache[k] # None =>
              cache[k].session # s /\ cache[k].session \in Session
      BY <1>1 DEF EntriesInv, Provides
    <3> QED BY <2>1, <2>5, <3>1, EntriesKept
  <2>10. LoadedAsVerified'
    <3>1. /\ new.manifest.weights \notin new.raced =>
                 Sha256(new.weights) = new.manifest.sha256
          /\ (/\ new.manifest.tokenizer_sha256 # None
              /\ new.manifest.tokenizer \notin new.raced) =>
                 Sha256(new.tokenizer) = new.manifest.tokenizer_sha256
      BY <1>1, <2>4 DEF CallInv, WeightsVerified, TokenizerVerified, content
    <3> QED BY <1>1, <2>5, <3>1 DEF LoadedAsVerified
  <2> QED BY <1>1, <2>6, <2>7, <2>8, <2>9, <2>10 DEF CacheInv, PublishedInv
<1> QED BY <1>3, <1>4 DEF LoadWeights

(* Sessions that are referred to afterwards survive a drop of references. *)
LEMMA DropSpares ==
    ASSUME CacheInv, NEW entries, NEW held, loaded' = Dropped(entries, held)
    PROVE  /\ \A k \in CacheKey :
                 entries[k] # None /\ entries[k].session \in Session =>
                     loaded'[entries[k].session] = loaded[entries[k].session]
           /\ \A c \in Caller :
                 held[c] \in Session => loaded'[held[c]] = loaded[held[c]]
           /\ loaded' \in [Session -> Loaded \cup {None}]
           /\ LoadedAsVerified'
<1>1. \A s \in Session : loaded'[s] = IF Referenced(s, entries, held)
                                       THEN loaded[s] ELSE None
  BY DEF Dropped
<1>2. loaded' \in [Session -> Loaded \cup {None}]
  BY DEF Dropped, CacheInv, TypeOK
<1>3. LoadedAsVerified'
  BY <1>1 DEF CacheInv, LoadedAsVerified
<1> QED BY <1>1, <1>2, <1>3 DEF Referenced

LEMMA InsertKeeps ==
    ASSUME CacheInv, NEW c \in Caller, Insert(c)
    PROVE  CacheInv'
<1> DEFINE key == request[c]
<1>1. /\ TypeOK /\ CallInv(c) /\ EntriesInv /\ PublishedInv /\ epoch <= changes
      /\ Holding(c) /\ pc[c] = "insert" /\ UNCHANGED <<published, file>>
      /\ UNCHANGED <<env, mutex, request, manifest, tokenizer, session,
                    seen, raced, began>>
  BY DEF CacheInv, Insert, Holding, env
<1>2. /\ key \in CacheKey /\ Key(key) = key /\ session[c] \in Session
      /\ manifest[c].sha256 \in Digest
      /\ Provides(session[c], key, manifest[c].sha256)
  <2>1. manifest[c] \in Manifest /\ key \in CacheKey
    BY <1>1 DEF TypeOK, CallInv
  <2>2. manifest[c].sha256 \in Digest
    BY <2>1 DEF Manifest
  <2> QED BY <1>1, <2>1, <2>2, KeyTypes DEF CallInv, Provides
<1> DEFINE new == NewEntry(c)
<1>3. new \in Entry /\ new.session = session[c] /\ new.sha256 = manifest[c].sha256
  BY <1>2 DEF NewEntry, Entry
<1>4. cache' = [cache EXCEPT ![key] = new] /\ loaded' = Dropped(cache', session)
      /\ GoTo(c, "got")
  BY <1>2 DEF Insert
<1> HIDE DEF new, key
<1>5. /\ cache'[key] = new /\ cache' \in [CacheKey -> Entry \cup {None}]
      /\ \A k \in CacheKey \ {key} : cache'[k] = cache[k]
  BY <1>1, <1>2, <1>3, <1>4 DEF TypeOK
<1>6. /\ \A k \in CacheKey :
             cache'[k] # None /\ cache'[k].session \in Session =>
                 loaded'[cache'[k].session] = loaded[cache'[k].session]
      /\ \A d \in Caller :
             session[d] \in Session => loaded'[session[d]] = loaded[session[d]]
      /\ loaded' \in [Session -> Loaded \cup {None}]
      /\ LoadedAsVerified'
  <2> DEFINE entries == cache'
  <2>1. loaded' = Dropped(entries, session)
    BY <1>4
  <2> HIDE DEF entries
  <2>2. /\ \A k \in CacheKey :
               entries[k] # None /\ entries[k].session \in Session =>
                   loaded'[entries[k].session] = loaded[entries[k].session]
        /\ \A d \in Caller :
               session[d] \in Session => loaded'[session[d]] = loaded[session[d]]
        /\ loaded' \in [Session -> Loaded \cup {None}]
        /\ LoadedAsVerified'
    BY <2>1, DropSpares
  <2> QED BY <2>2 DEF entries
<1>7. TypeOK'
  BY <1>1, <1>4, <1>5, <1>6 DEF GoTo, TypeOK, env, PC
<1>8. EntriesInv'
  <2>1. ASSUME NEW k \in CacheKey, cache'[k] # None
        PROVE  Provides(cache'[k].session, k, cache'[k].sha256)
    BY <1>1, <1>2, <1>3, <1>5, <2>1 DEF EntriesInv
  <2> QED BY <1>6, <2>1 DEF EntriesInv, Provides, Suits
<1>9. CallInv(c)'
  <2>1. pc'[c] = "got" /\ loaded'[session[c]] = loaded[session[c]]
    BY <1>1, <1>2, <1>4, <1>6 DEF GoTo, TypeOK
  <2> QED BY <1>1, <2>1 DEF CallInv, Holding, Provides, Suits
<1>10. ASSUME NEW d \in Caller, d # c PROVE CallInv(d)'
  <2>1. Holding(d) => session[d] \in Session
    BY DEF CacheInv, CallInv, Provides
  <2> QED BY <1>1, <1>4, <1>6, <1>10, <2>1, OthersKept DEF GoTo, TypeOK
<1> QED BY <1>1, <1>6, <1>7, <1>8, <1>9, <1>10 DEF CacheInv, PublishedInv, env

LEMMA LockKeeps ==
    ASSUME CacheInv, NEW c \in Caller, Lock(c)
    PROVE  CacheInv'
<1>1. TypeOK /\ CallInv(c)
  BY DEF CacheInv
<1>2. TypeOK'
  BY <1>1 DEF Lock, GoTo, TypeOK, env, PC, CallInv, Holding, Provides
<1>3. CallInv(c)'
  BY <1>1 DEF Lock, GoTo, TypeOK, env, CallInv, Holding, Provides, Suits
<1> QED BY <1>1, <1>2, <1>3, CallerKeeps DEF Lock, GoTo, TypeOK

LEMMA FinishKeeps ==
    ASSUME CacheInv, NEW c \in Caller, Finish(c)
    PROVE  CacheInv'
<1>1. /\ TypeOK /\ CallInv(c) /\ EntriesInv /\ PublishedInv /\ epoch <= changes
      /\ EndCall(c) /\ UNCHANGED <<published, file, cache, epoch, changes>>
      /\ UNCHANGED <<env, request, began>> /\ loaded' = Dropped(cache, session')
      /\ mutex' = [mutex EXCEPT ![session[c]] = None]
  BY DEF CacheInv, Finish, env
<1>2. /\ \A k \in CacheKey :
             cache[k] # None /\ cache[k].session \in Session =>
                 loaded'[cache[k].session] = loaded[cache[k].session]
      /\ \A d \in Caller :
             session'[d] \in Session => loaded'[session'[d]] = loaded[session'[d]]
      /\ loaded' \in [Session -> Loaded \cup {None}]
      /\ LoadedAsVerified'
  BY <1>1, DropSpares
<1>3. TypeOK'
  BY <1>1, <1>2 DEF EndCall, GoTo, TypeOK, env, PC
<1>4. EntriesInv'
  <2>1. \A k \in CacheKey : cache[k] # None => cache[k].session \in Session
    BY <1>1 DEF EntriesInv, Provides
  <2> QED BY <1>1, <1>2, <2>1, EntriesKept
<1>5. CallInv(c)'
  BY <1>1 DEF EndCall, GoTo, TypeOK, CallInv, Holding
<1>6. ASSUME NEW d \in Caller, d # c PROVE CallInv(d)'
  <2>1. Holding(d) => session[d] \in Session
    BY DEF CacheInv, CallInv, Provides
  <2>2. /\ pc'[d] = pc[d] /\ manifest'[d] = manifest[d]
        /\ tokenizer'[d] = tokenizer[d] /\ session'[d] = session[d]
        /\ seen'[d] = seen[d] /\ raced'[d] = raced[d]
    BY <1>1, <1>6 DEF EndCall, GoTo, TypeOK
  <2> QED BY <1>1, <1>2, <2>1, <2>2, OthersKept
<1> QED BY <1>1, <1>2, <1>3, <1>4, <1>5, <1>6 DEF CacheInv, PublishedInv
-----------------------------------------------------------------------------
(* The environment.                                                        *)

LEMMA Spending == ASSUME TypeOK, Spend PROVE changes' \in 0..MaxChange
                                             /\ changes' = changes + 1
BY CacheAssumption DEF TypeOK, Spend

LEMMA ClearKeeps == ASSUME CacheInv, Clear PROVE CacheInv'
<1>1. /\ TypeOK /\ PublishedInv /\ epoch <= changes
      /\ cache' = [k \in CacheKey |-> None] /\ loaded' = Dropped(cache', session)
      /\ epoch' = epoch + 1
      /\ UNCHANGED <<threads, published, file, mutex, pc, request, manifest,
                    tokenizer, session, seen, raced, began>>
  BY DEF CacheInv, Clear
<1>2. changes' \in 0..MaxChange /\ changes' = changes + 1
  BY <1>1, Spending DEF Clear
<1>3. epoch' \in 0..MaxChange /\ epoch' <= changes'
  BY <1>1, <1>2, CacheAssumption DEF TypeOK
<1>4. /\ \A d \in Caller :
             session[d] \in Session => loaded'[session[d]] = loaded[session[d]]
      /\ loaded' \in [Session -> Loaded \cup {None}]
      /\ LoadedAsVerified'
  BY <1>1, DropSpares
<1>5. TypeOK'
  BY <1>1, <1>2, <1>3, <1>4 DEF TypeOK
<1>6. EntriesInv'
  BY <1>1 DEF EntriesInv
<1>7. ASSUME NEW d \in Caller PROVE CallInv(d)'
  <2>1. Holding(d) => session[d] \in Session
    BY DEF CacheInv, CallInv, Provides
  <2> QED BY <1>1, <1>4, <2>1, OthersKept
<1> QED BY <1>1, <1>3, <1>4, <1>5, <1>6, <1>7 DEF CacheInv, PublishedInv

LEMMA ChangeFileKeeps ==
    ASSUME CacheInv, NEW path \in Path, ChangeFile(path)
    PROVE  CacheInv'
<1>1. /\ TypeOK /\ PublishedInv /\ EntriesInv /\ LoadedAsVerified
      /\ epoch <= changes /\ UNCHANGED <<published, cache, loaded, epoch>>
      /\ raced' = [c \in Caller |-> IF pc[c] \in Resolving \ {"insert"}
                                    THEN raced[c] \cup {path} ELSE raced[c]]
      /\ UNCHANGED <<threads, mutex, pc, request, manifest, tokenizer, session,
                    seen, began>>
  BY DEF CacheInv, ChangeFile
<1>2. changes' \in 0..MaxChange /\ changes' = changes + 1
  BY <1>1, Spending DEF ChangeFile
<1>3. PICK content \in Content \cup {Absent} : file' = [file EXCEPT ![path] = content]
  BY DEF ChangeFile
<1>4. TypeOK'
  BY <1>1, <1>2, <1>3 DEF TypeOK
<1>5. epoch' <= changes'
  BY <1>1, <1>2, CacheAssumption DEF TypeOK
<1>6. ASSUME NEW c \in Caller PROVE CallInv(c)'
  <2>1. CallInv(c)
    BY DEF CacheInv
  <2>2. \A q \in Path \ {path} : file'[q] = file[q]
    BY <1>1, <1>3 DEF TypeOK
  <2>3. pc[c] # "idle" => manifest[c] \in Manifest
    BY <1>1, <2>1 DEF TypeOK, CallInv
  <2>4. Holding(c)' = Holding(c)
    BY <1>1 DEF Holding
  <2>5. CASE pc[c] \in Resolving \ {"insert"}
    <3>1. raced'[c] = raced[c] \cup {path} /\ pc[c] # "idle" /\ ~Holding(c)
      BY <1>1, <2>5 DEF Resolving, Holding
    <3>2. /\ manifest[c].weights \in Path
          /\ manifest[c].tokenizer # None => manifest[c].tokenizer \in Path
      BY <2>3, <3>1 DEF Manifest
    <3>3. WeightsVerified(c) => WeightsVerified(c)'
      BY <1>1, <2>2, <3>1, <3>2 DEF WeightsVerified
    <3>4. manifest[c].tokenizer # None
              /\ TokenizerVerified(c, file[manifest[c].tokenizer])
              => TokenizerVerified(c, file[manifest[c].tokenizer])'
      BY <1>1, <2>2, <3>1, <3>2 DEF TokenizerVerified
    <3>5. TokenizerVerified(c, tokenizer[c]) => TokenizerVerified(c, tokenizer[c])'
      BY <1>1, <3>1 DEF TokenizerVerified
    <3> QED BY <1>1, <2>1, <2>4, <3>1, <3>3, <3>4, <3>5 DEF CallInv
  <2>6. CASE pc[c] \notin Resolving \ {"insert"}
    BY <1>1, <2>1, <2>4, <2>6 DEF Resolving, CallInv, Holding, Provides, Suits
  <2> QED BY <2>5, <2>6
<1>7. EntriesInv'
  BY <1>1, EntriesKept
<1> QED BY <1>1, <1>4, <1>5, <1>6, <1>7
    DEF CacheInv, PublishedInv, LoadedAsVerified

(* The register's manifests are the cache's. *)
LEMMA StoredManifests ==
    /\ Store!Manifest = Manifest /\ Store!Digest = Digest
    /\ \A m, path, digest :
           Store!WithTokenizer(m, path, digest) = WithTokenizer(m, path, digest)
BY DEF Store!Manifest, Manifest, Store!Digest, Digest, Store!Sha256, Sha256,
       Store!WithTokenizer, WithTokenizer

LEMMA PublishKeeps ==
    ASSUME CacheInv, NEW id \in ModelId, Publish(id)
    PROVE  CacheInv'
<1>1. /\ TypeOK /\ PublishedInv /\ EntriesInv /\ LoadedAsVerified
      /\ epoch <= changes
      /\ UNCHANGED <<threads, file, cache, loaded, mutex, pc, request, manifest,
                    tokenizer, session, raced, epoch, began>>
      /\ seen' = [c \in Caller |->
                   IF pc[c] # "idle" /\ request[c].id = id
                   THEN seen[c] \cup {published'[id]} ELSE seen[c]]
  BY DEF CacheInv, Publish
<1>2. changes' \in 0..MaxChange /\ changes' = changes + 1
  BY <1>1, Spending DEF Publish
<1>3. PICK m \in Manifest : m.id = id /\ published' = [published EXCEPT ![id] = m]
  <2>1. CASE Store!Import(id)
    <3>1. PICK m \in Manifest : /\ [i \in ModelId |-> i][m.id] = id
                               /\ published' = [published EXCEPT ![id] = m]
      BY <2>1, StoredManifests DEF Store!Import
    <3>2. m.id \in ModelId
      BY <3>1 DEF Manifest
    <3> QED BY <3>1, <3>2
  <2>2. CASE Store!Attach(id)
    <3>1. PICK path \in Path, digest \in Digest :
              /\ published[id] # None
              /\ published' = [published EXCEPT
                                  ![id] = WithTokenizer(published[id], path, digest)]
      BY <2>2, StoredManifests DEF Store!Attach
    <3>2. published[id] \in Manifest /\ published[id].id = id
      BY <1>1, <3>1 DEF TypeOK, PublishedInv
    <3> DEFINE m == WithTokenizer(published[id], path, digest)
    <3>3. m \in Manifest /\ m.id = id
      BY <3>1, <3>2 DEF Manifest, WithTokenizer
    <3> QED BY <3>1, <3>3
  <2> QED BY <2>1, <2>2 DEF Publish
<1>4. /\ published'[id] = m /\ published' \in [ModelId -> Manifest \cup {None}]
      /\ \A i \in ModelId \ {id} : published'[i] = published[i]
  BY <1>1, <1>3 DEF TypeOK
<1>5. seen' \in [Caller -> SUBSET Manifest]
  BY <1>1, <1>3, <1>4 DEF TypeOK
<1>6. TypeOK'
  BY <1>1, <1>2, <1>4, <1>5 DEF TypeOK
<1>7. epoch' <= changes'
  BY <1>1, <1>2, CacheAssumption DEF TypeOK
<1>8. PublishedInv'
  BY <1>1, <1>3, <1>4 DEF PublishedInv
<1>9. ASSUME NEW c \in Caller PROVE CallInv(c)'
  <2>1. CallInv(c) /\ request[c].id \in ModelId
    BY <1>1 DEF CacheInv, TypeOK, CacheKey
  <2>2. seen'[c] = IF pc[c] # "idle" /\ request[c].id = id
                   THEN seen[c] \cup {published'[id]} ELSE seen[c]
    BY <1>1
  <2>3. pc[c] # "idle" => /\ manifest[c] \in seen'[c]
                          /\ published'[request[c].id] \in seen'[c]
    BY <1>4, <2>1, <2>2 DEF CallInv
  <2> QED BY <1>1, <2>1, <2>3
      DEF CallInv, Holding, Provides, Suits, WeightsVerified, TokenizerVerified
<1>10. EntriesInv'
  BY <1>1, EntriesKept
<1> QED BY <1>1, <1>6, <1>7, <1>8, <1>9, <1>10 DEF CacheInv, LoadedAsVerified
-----------------------------------------------------------------------------
LEMMA CacheKept == CacheInv /\ [Next]_vars => CacheInv'
<1> SUFFICES ASSUME CacheInv, [Next]_vars PROVE CacheInv'
  OBVIOUS
<1>1. ASSUME NEW c \in Caller, Resolve(c) PROVE CacheInv'
  BY <1>1, LookupKeeps, VerifyGetKeeps, VerifyWeightsKeeps, VerifyTokenizerKeeps,
     SelectKeeps, LoadTokenizerKeeps, LoadWeightsKeeps, InsertKeeps
  DEF Resolve
<1>2. ASSUME NEW c \in Caller, NEW id \in ModelId, GetMissing(c, id)
      PROVE  CacheInv'
  BY <1>2, FailKeeps DEF GetMissing
<1>3. CASE UNCHANGED vars
  <2>1. /\ UNCHANGED <<published, file, cache, loaded, pc, request, manifest,
                      tokenizer, session, seen, raced, epoch, changes>>
        /\ UNCHANGED <<mutex, threads, began>>
    BY <1>3 DEF vars
  <2>2. \A c \in Caller : CallInv(c)'
    BY <2>1, OthersKept
  <2>3. EntriesInv'
    BY <2>1, EntriesKept
  <2> QED BY <2>1, <2>2, <2>3
      DEF CacheInv, TypeOK, PublishedInv, LoadedAsVerified
<1> QED
  BY <1>1, <1>2, <1>3, GetKeeps, LockKeeps, FinishKeeps, PublishKeeps,
     ChangeFileKeeps, ClearKeeps
  DEF Next

LEMMA CacheHolds == Spec => []CacheInv
BY InitCache, CacheKept, PTL DEF Spec

(* Every variable of the cache and of the calls keeps its type. *)
THEOREM CacheTypeCorrect == Spec => []TypeOK
<1>1. CacheInv => TypeOK
  BY DEF CacheInv
<1> QED BY <1>1, CacheHolds, PTL

(* get_or_load returns sessions only whose weights have a digest that was  *)
(* registered for the model during the call, hits and loads alike.         *)
THEOREM PublishedWeightsServed == Spec => []ServesPublishedWeights
<1>1. CacheInv => ServesPublishedWeights
  BY DEF CacheInv, CallInv, Holding, Provides, Serving, Served,
         ServesPublishedWeights
<1> QED BY <1>1, CacheHolds, PTL

(* A caller gets a session of its model, on its device (cache_key and      *)
(* RuntimeDevice::select).                                                 *)
THEOREM SessionsSuitTheirKeys == Spec => []SessionOfItsKey
<1>1. CacheInv => SessionOfItsKey
  BY DEF CacheInv, CallInv, Holding, Provides, Suits, Serving, Served,
         SessionOfItsKey
<1> QED BY <1>1, CacheHolds, PTL

(* What was verified is what is loaded, but for files that change between  *)
(* registry.verify and ModelSession::load.                                 *)
THEOREM SessionsLoadedAsVerified == Spec => []LoadedAsVerified
<1>1. CacheInv => LoadedAsVerified
  BY DEF CacheInv
<1> QED BY <1>1, CacheHolds, PTL
=============================================================================
