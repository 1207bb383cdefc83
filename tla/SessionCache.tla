---------------------------- MODULE SessionCache ----------------------------
(***************************************************************************)
(* The process-wide cache of loaded models (models crate, session.rs) and  *)
(* the requests that use it.  A call of get_or_load reads the manifest,    *)
(* looks the cache up under the cache's mutex, and on a miss verifies and  *)
(* loads with no lock held, then inserts.  The caller then locks the       *)
(* session it got and generates.                                           *)
(*                                                                         *)
(* The registry is the atomic register of ManifestStore; files of weights  *)
(* and tokenizers may change at any time.                                  *)
(***************************************************************************)
EXTENDS Manifest, Loading, FiniteSets

CONSTANTS
    Caller,     \* request threads (blocking pool of the server, Python)
    WeightsPath,\* the paths an import accepts
    Session,    \* loaded models, by the identity of the Arc
    Device,     \* the device preferences in use
    Accelerators,   \* of "cuda" and "metal", those that work here
    Cores,      \* physical cores of the machine
    ThreadSetting,  \* CANDLE_NUM_THREADS as the user set it, or None
    Absent,     \* "no such file"
    MaxChange   \* bound on changes by the environment: manifests, files, clears

VARIABLES
    published,  \* published[id]: the manifest the registry holds, or None
    file,       \* file[path]: content of a weights or tokenizer file
    cache,      \* cache[key]: the entry [sha256, session], or None
    loaded,     \* loaded[s]: what a live session was built from, or None
    mutex,      \* mutex[s]: the caller that holds the session's lock, or None
    pc,         \* where each caller is
    request,    \* request[c]: the model and device it asks for
    manifest,   \* manifest[c]: the local variable of get_or_load, or None
    tokenizer,  \* tokenizer[c]: content of the tokenizer it loaded, or None
    session,    \* session[c]: the Arc it holds, or None
    threads,    \* CANDLE_NUM_THREADS once the process decided it, or None
    changes,    \* number of environment changes so far
    \* History, read by properties only:
    seen,       \* seen[c]: manifests of its model published during the call
    raced,      \* raced[c]: paths changed since its verification began
    epoch,      \* number of clears so far
    began       \* began[c]: the epoch in which its call began

env == <<published, file, epoch, changes, threads>>
vars == <<published, file, cache, loaded, mutex, pc, request, manifest,
          tokenizer, session, threads, changes, seen, raced, epoch, began>>

ASSUME CacheAssumption ==
    /\ ModelId # {}
    /\ WeightsPath \subseteq Path
    /\ Device \subseteq Preference /\ Device # {}
    /\ Accelerators \subseteq {"cuda", "metal"}
    /\ Cores \in Nat
    /\ ThreadSetting \in Nat \cup {None}
    /\ MaxChange \in Nat
    /\ None \notin Manifest \cup Session \cup Caller \cup Content
    /\ Absent \notin Content

Store == INSTANCE ManifestStore
            WITH Stem <- ModelId, FileStem <- [id \in ModelId |-> id]
-----------------------------------------------------------------------------
CacheKey == [id : ModelId, device : Device]
Entry == [sha256 : Digest, session : Session]

(* What a session consists of: the weights and the tokenizer as read from  *)
(* the files at load time; the rest names its origin.                      *)
Loaded == [manifest : Manifest, device : {"cpu", "cuda", "metal"}, weights : Content,
           tokenizer : Content, raced : SUBSET Path, epoch : Nat]

ASSUME LoadedAssumption == None \notin Entry \cup Loaded

Resolving == {"lookup", "verify", "verify_weights", "verify_tokenizer",
              "select", "load_tokenizer", "load_weights", "insert"}
PC == {"idle", "got", "generate"} \cup Resolving

(* A key without the device. *)
KeyOfId(r) == [id |-> r.id, device |-> CHOOSE d \in Device : TRUE]

(* format!("{id}@{device:?}") *)
Key(r) == [id |-> r.id, device |-> r.device]

(* A lookup that forgets the digest comparison. *)
HitByKey(c) == cache[Key(request[c])] # None

(* A hit needs an entry whose digest is the one of the manifest just read. *)
Hit(c) ==
    /\ cache[Key(request[c])] # None
    /\ cache[Key(request[c])].sha256 = manifest[c].sha256

(* An entry labelled with the file's path instead of its digest. *)
NewEntryByPath(c) ==
    [sha256 |-> manifest[c].weights, session |-> session[c]]

(* What an entry is labelled with: the digest of the verified manifest.    *)
NewEntry(c) == [sha256 |-> manifest[c].sha256, session |-> session[c]]

(* Arcs: a session lives while the cache or a caller refers to it. *)
Referenced(s, entries, held) ==
    \/ \E k \in CacheKey : entries[k] # None /\ entries[k].session = s
    \/ \E c \in Caller : held[c] = s

Dropped(entries, held) ==
    [s \in Session |-> IF Referenced(s, entries, held) THEN loaded[s]
                                                       ELSE None]

GoTo(c, label) == pc' = [pc EXCEPT ![c] = label]

(* The locals of a call go out of scope when it returns. *)
EndCall(c) ==
    /\ GoTo(c, "idle")
    /\ manifest' = [manifest EXCEPT ![c] = None]
    /\ tokenizer' = [tokenizer EXCEPT ![c] = None]
    /\ session' = [session EXCEPT ![c] = None]
    /\ seen' = [seen EXCEPT ![c] = {}]
    /\ raced' = [raced EXCEPT ![c] = {}]

(* `?`: get_or_load returns an error before it has a session. *)
Fail(c) ==
    /\ EndCall(c)
    /\ UNCHANGED <<cache, loaded, mutex, request, began>>

(* What an earlier process may have left in the registry. *)
Registered ==
    {m \in Manifest : /\ m.weights \in WeightsPath
                      /\ m.tokenizer = None <=> m.tokenizer_sha256 = None}
-----------------------------------------------------------------------------
Init ==
    /\ published \in [ModelId -> Registered \cup {None}]
    /\ \A id \in ModelId : published[id] # None => published[id].id = id
    /\ file \in [Path -> Content]
    /\ cache = [k \in CacheKey |-> None]
    /\ loaded = [s \in Session |-> None]
    /\ mutex = [s \in Session |-> None]
    /\ pc = [c \in Caller |-> "idle"]
    /\ request = [c \in Caller |-> CHOOSE k \in CacheKey : TRUE]
    /\ manifest = [c \in Caller |-> None]
    /\ tokenizer = [c \in Caller |-> None]
    /\ session = [c \in Caller |-> None]
    /\ threads = ThreadSetting
    /\ changes = 0
    /\ seen = [c \in Caller |-> {}]
    /\ raced = [c \in Caller |-> {}]
    /\ epoch = 0
    /\ began = [c \in Caller |-> 0]

(* registry.get(id)?; an unregistered model ends the call here. *)
GetMissing(c, id) ==
    /\ pc[c] = "idle"
    /\ published[id] = None
    /\ Fail(c)
    /\ UNCHANGED env

Get(c, id, device) ==
    /\ pc[c] = "idle"
    /\ published[id] # None
    /\ request' = [request EXCEPT ![c] = [id |-> id, device |-> device]]
    /\ manifest' = [manifest EXCEPT ![c] = published[id]]
    /\ seen' = [seen EXCEPT ![c] = {published[id]}]
    /\ began' = [began EXCEPT ![c] = epoch]
    /\ GoTo(c, "lookup")
    /\ UNCHANGED <<env, cache, loaded, mutex, tokenizer, session, raced>>

(* Under the cache's mutex: clone the Arc of a hit. *)
Lookup(c) ==
    /\ pc[c] = "lookup"
    /\ IF Hit(c)
       THEN /\ session' = [session EXCEPT ![c] = cache[Key(request[c])].session]
            /\ GoTo(c, "got")
       ELSE /\ GoTo(c, "verify")
            /\ UNCHANGED session
    /\ UNCHANGED <<env, cache, loaded, mutex, request, manifest, tokenizer,
                   seen, raced, began>>

(* registry.verify(id) reads the manifest again. *)
VerifyGet(c) ==
    /\ pc[c] = "verify"
    /\ manifest' = [manifest EXCEPT ![c] = published[request[c].id]]
    /\ raced' = [raced EXCEPT ![c] = {}]
    /\ GoTo(c, "verify_weights")
    /\ UNCHANGED <<env, cache, loaded, mutex, request, tokenizer, session,
                   seen, began>>

(* A verification that hashes nothing. *)
WeightsPresent(c) == file[manifest[c].weights] # Absent

WeightsVerify(c) ==
    /\ file[manifest[c].weights] # Absent
    /\ Sha256(file[manifest[c].weights]) = manifest[c].sha256

TokenizerVerifies(c) ==
    /\ file[manifest[c].tokenizer] # Absent
    /\ Sha256(file[manifest[c].tokenizer]) = manifest[c].tokenizer_sha256

VerifyWeights(c) ==
    /\ pc[c] = "verify_weights"
    /\ IF WeightsVerify(c)
       THEN /\ GoTo(c, IF \/ manifest[c].tokenizer = None
                          \/ manifest[c].tokenizer_sha256 = None
                       THEN "select" ELSE "verify_tokenizer")
            /\ UNCHANGED <<cache, loaded, mutex, request, manifest, tokenizer,
                           session, seen, raced, began>>
       ELSE Fail(c)
    /\ UNCHANGED env

VerifyTokenizer(c) ==
    /\ pc[c] = "verify_tokenizer"
    /\ IF TokenizerVerifies(c)
       THEN /\ GoTo(c, "select")
            /\ UNCHANGED <<cache, loaded, mutex, request, manifest, tokenizer,
                           session, seen, raced, began>>
       ELSE Fail(c)
    /\ UNCHANGED env

(* RuntimeDevice::select and the checks at the head of ModelSession::load. *)
(* Of the details of a manifest only the architecture matters here.        *)
SelectDevice(c) ==
    /\ pc[c] = "select"
    /\ IF /\ Select(request[c].device, Accelerators) # "unavailable"
          /\ manifest[c].tokenizer # None
       THEN /\ GoTo(c, "load_tokenizer")
            /\ UNCHANGED <<cache, loaded, mutex, request, manifest, tokenizer,
                           session, seen, raced, began>>
       ELSE Fail(c)
    /\ UNCHANGED env

(* LocalTokenizer::from_file, then load_gguf_decoder: each opens its file  *)
(* again, by the path in the verified manifest, and may find that it       *)
(* cannot be opened or parsed.                                             *)
LoadTokenizer(c) ==
    /\ pc[c] = "load_tokenizer"
    /\ LET content == file[manifest[c].tokenizer] IN
       \/ Fail(c)
       \/ /\ content # Absent
          /\ tokenizer' = [tokenizer EXCEPT ![c] = content]
          /\ GoTo(c, "load_weights")
          /\ UNCHANGED <<cache, loaded, mutex, request, manifest, session,
                         seen, raced, began>>
    /\ UNCHANGED env

LoadWeights(c, s) ==
    /\ pc[c] = "load_weights"
    /\ loaded[s] = None
    /\ threads' = DecodeThreads(threads, None, Cores)
    /\ LET content == file[manifest[c].weights] IN
       \/ Fail(c)
       \/ /\ Adapter(manifest[c].details) # "unsupported"
          /\ content # Absent
          /\ loaded' = [loaded EXCEPT ![s] =
                  [manifest |-> manifest[c],
                   device |-> Select(request[c].device, Accelerators),
                   weights |-> content, tokenizer |-> tokenizer[c],
                   raced |-> raced[c], epoch |-> epoch]]
          /\ session' = [session EXCEPT ![c] = s]
          /\ tokenizer' = [tokenizer EXCEPT ![c] = None]
          /\ GoTo(c, "insert")
          /\ UNCHANGED <<cache, mutex, request, manifest, seen, raced, began>>
    /\ UNCHANGED <<published, file, epoch, changes>>

(* Under the cache's mutex: replace whatever entry the key has by now. *)
Insert(c) ==
    /\ pc[c] = "insert"
    /\ cache' = [cache EXCEPT ![Key(request[c])] = NewEntry(c)]
    /\ loaded' = Dropped(cache', session)
    /\ GoTo(c, "got")
    /\ UNCHANGED <<env, mutex, request, manifest, tokenizer, session,
                   seen, raced, began>>
-----------------------------------------------------------------------------
(* The caller waits for the session's mutex and generates under it. *)
Lock(c) ==
    /\ pc[c] = "got"
    /\ mutex[session[c]] = None
    /\ mutex' = [mutex EXCEPT ![session[c]] = c]
    /\ GoTo(c, "generate")
    /\ UNCHANGED <<env, cache, loaded, request, manifest, tokenizer, session,
                   seen, raced, began>>

(* The end of the generation, by return, error or panic: the guard's drop  *)
(* releases the mutex (a poisoned one is entered all the same), then the   *)
(* Arc is dropped.                                                         *)
Finish(c) ==
    /\ pc[c] = "generate"
    /\ mutex' = [mutex EXCEPT ![session[c]] = None]
    /\ EndCall(c)
    /\ loaded' = Dropped(cache, session')
    /\ UNCHANGED <<env, cache, request, began>>
-----------------------------------------------------------------------------
(* The environment. *)

Spend ==
    /\ changes < MaxChange
    /\ changes' = changes + 1

Publish(id) ==
    /\ Spend
    /\ Store!Import(id) \/ Store!Attach(id)
    /\ seen' = [c \in Caller |->
                   IF pc[c] # "idle" /\ request[c].id = id
                   THEN seen[c] \cup {published'[id]} ELSE seen[c]]
    /\ UNCHANGED <<threads, file, cache, loaded, mutex, pc, request, manifest, tokenizer,
                   session, raced, epoch, began>>

ChangeFile(path) ==
    /\ Spend
    /\ \E content \in (Content \cup {Absent}) \ {file[path]} :
           file' = [file EXCEPT ![path] = content]
    /\ raced' = [c \in Caller |-> IF pc[c] \in Resolving \ {"insert"}
                                  THEN raced[c] \cup {path} ELSE raced[c]]
    /\ UNCHANGED <<threads, published, cache, loaded, mutex, pc, request, manifest,
                   tokenizer, session, seen, epoch, began>>

(* SessionCache::clear, called by unload_models. *)
Clear ==
    /\ Spend
    /\ cache' = [k \in CacheKey |-> None]
    /\ loaded' = Dropped(cache', session)
    /\ epoch' = epoch + 1
    /\ UNCHANGED <<threads, published, file, mutex, pc, request, manifest, tokenizer,
                   session, seen, raced, began>>

Resolve(c) ==
    \/ Lookup(c) \/ VerifyGet(c) \/ VerifyWeights(c) \/ VerifyTokenizer(c)
    \/ SelectDevice(c) \/ LoadTokenizer(c) \/ Insert(c)
    \/ \E s \in Session : LoadWeights(c, s)

Next ==
    \/ \E c \in Caller :
        \/ \E id \in ModelId, device \in Device : Get(c, id, device)
        \/ \E id \in ModelId : GetMissing(c, id)
        \/ Resolve(c) \/ Lock(c) \/ Finish(c)
    \/ \E id \in ModelId : Publish(id)
    \/ \E path \in Path : ChangeFile(path)
    \/ Clear

Spec == Init /\ [][Next]_vars

-----------------------------------------------------------------------------
TypeOK ==
    /\ published \in [ModelId -> Manifest \cup {None}]
    /\ file \in [Path -> Content \cup {Absent}]
    /\ cache \in [CacheKey -> Entry \cup {None}]
    /\ loaded \in [Session -> Loaded \cup {None}]
    /\ mutex \in [Session -> Caller \cup {None}]
    /\ pc \in [Caller -> PC]
    /\ request \in [Caller -> CacheKey]
    /\ manifest \in [Caller -> Manifest \cup {None}]
    /\ tokenizer \in [Caller -> Content \cup {None}]
    /\ session \in [Caller -> Session \cup {None}]
    /\ threads \in Nat \cup {None}
    /\ changes \in 0..MaxChange
    /\ seen \in [Caller -> SUBSET Manifest]
    /\ raced \in [Caller -> SUBSET Path]
    /\ epoch \in 0..MaxChange
    /\ began \in [Caller -> 0..MaxChange]

Serving(c) == pc[c] \in {"got", "generate"}
Served(c) == loaded[session[c]]

(* get_or_load never hands out weights of an outdated manifest: whatever   *)
(* changes while the call runs, the session it returns was built from a    *)
(* manifest whose weights digest was published during the call.            *)
ServesPublishedWeights ==
    \A c \in Caller :
        Serving(c) =>
            \E m \in seen[c] : m.sha256 = Served(c).manifest.sha256

(* A caller is given a session of the model it asked for, on the device it *)
(* asked for; only "auto" may mean another one, and then the CPU is taken  *)
(* for want of an accelerator only.                                        *)
SessionOfItsKey ==
    \A c \in Caller :
        Serving(c) =>
            /\ Served(c).manifest.id = request[c].id
            /\ IF request[c].device = "auto"
               THEN Served(c).device = "cpu" <=> Accelerators = {}
               ELSE Served(c).device = request[c].device

(* A live session holds what its manifest's digests say, unless the very   *)
(* file was changed between the verification and the end of the load of    *)
(* the session (verify and load open the files separately).                *)
LoadedAsVerified ==
    \A s \in Session :
        loaded[s] # None =>
            LET l == loaded[s] IN
            /\ l.manifest.weights \notin l.raced =>
                   Sha256(l.weights) = l.manifest.sha256
            /\ (/\ l.manifest.tokenizer_sha256 # None
                /\ l.manifest.tokenizer \notin l.raced) =>
                   Sha256(l.tokenizer) = l.manifest.tokenizer_sha256

(* The documentation of SessionCache: requests to one model serialize.     *)
SameModelSerializes ==
    \A c, d \in Caller :
        (pc[c] = "generate" /\ pc[d] = "generate" /\ request[c] = request[d]) => c = d

(* The README: a changed file invalidates the cache automatically.  So a   *)
(* call is served with a tokenizer that was registered during the call.    *)
ServesRegisteredTokenizer ==
    \A c \in Caller :
        Serving(c) =>
            \E m \in seen[c] :
                m.tokenizer_sha256 = Served(c).manifest.tokenizer_sha256

(* The documentation of clear: the next call is forced to reload.  So a    *)
(* call that begins after a clear gets a session loaded after it.          *)
ClearForcesReload ==
    \A c \in Caller : Serving(c) => Served(c).epoch >= began[c]
=============================================================================
