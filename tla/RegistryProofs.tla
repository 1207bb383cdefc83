--------------------------- MODULE RegistryProofs ---------------------------
(***************************************************************************)
(* Proofs about the registry and its command line, for any number of       *)
(* processes, models and files, in three parts:                            *)
(*  - types, which hold with any number of concurrent writers;             *)
(*  - under the discipline Exclusive, one write command per model at a     *)
(*    time: the files are always whole, readers never fail, and the        *)
(*    registry implements the atomic registers of ManifestStore;           *)
(*  - with pulls: every step of a pull is a call of the registry, or       *)
(*    changes nothing that the registry keeps, so all of that holds with   *)
(*    pulls too; and a pull's report tells what it left.                   *)
(***************************************************************************)
EXTENDS CommandLine, TLAPS

(* What a process's locals are at each point of its call. *)
LocalOK(p) ==
    /\ pc[p] \in Writing => draft[p] \in Draft
    /\ pc[p] = "hash_tokenizer" =>
           draft[p].sha256 \in Digest /\ draft[p].tokenizer \in Path
    /\ pc[p] \in {"open", "write", "rename", "renamed"} => draft[p] \in Manifest
    /\ pc[p] \in Verifying => draft[p] \in Manifest
    /\ pc[p] = "write" => handle[p] \in Inode

TypeInv == TypeOK /\ \A p \in Proc : LocalOK(p)

(* A manifest with another tokenizer is still typed like one. *)
LEMMA TokenizerTypes ==
    ASSUME NEW m \in Draft, NEW path \in Path, NEW d \in Digest \cup {None}
    PROVE  /\ WithTokenizer(m, path, d) \in Draft
           /\ WithTokenizer(m, path, d).id = m.id
           /\ WithTokenizer(m, path, d).tokenizer = path
           /\ WithTokenizer(m, path, d).sha256 = m.sha256
           /\ m.sha256 \in Digest => WithTokenizer(m, path, d) \in Manifest
BY DEF WithTokenizer, Draft, Manifest

LEMMA DigestTypes ==
    ASSUME NEW m \in Draft, NEW d \in Digest
    PROVE  /\ WithDigest(m, d) \in Manifest
           /\ WithDigest(m, d).id = m.id
BY DEF WithDigest, Draft, Manifest

LEMMA ManifestIsDraft == Manifest \subseteq Draft
BY DEF Manifest, Draft

(* The digest of a file that is there. *)
LEMMA DigestOfFile ==
    ASSUME TypeOK, NEW path \in Path, IsFile(path)
    PROVE  Sha256(file[path]) \in Digest
BY DEF TypeOK, FileContent, IsFile, Digest

(* A call that returns, or crashes, keeps the types. *)
LEMMA ReturnTypes ==
    ASSUME TypeInv, NEW p \in Proc, NEW o \in Outcome, Return(p, o),
           UNCHANGED <<file, name, temp>>, inode' \in [Inode -> InodeContent]
    PROVE  TypeInv'
<1>1. TypeOK'
  BY DEF TypeInv, TypeOK, Return, PC
<1>2. ASSUME NEW q \in Proc PROVE LocalOK(q)'
  BY <1>2 DEF TypeInv, TypeOK, LocalOK, Return, Writing, Verifying
<1> QED BY <1>1, <1>2 DEF TypeInv

(* So does a step to the next point of a call. *)
LEMMA GoToTypes ==
    ASSUME TypeInv, NEW p \in Proc, NEW label \in PC, NEW m \in Draft,
           GoTo(p, label, m), UNCHANGED <<file, inode, name, temp, handle, todo>>,
           label = "hash_tokenizer" => m.sha256 \in Digest /\ m.tokenizer \in Path,
           label = "open" \/ label \in Verifying => m \in Manifest,
           label \notin {"write", "rename", "renamed"}
    PROVE  TypeInv'
<1>1. TypeOK'
  BY DEF TypeInv, TypeOK, GoTo, Outcome
<1>2. ASSUME NEW q \in Proc PROVE LocalOK(q)'
  BY <1>2 DEF TypeInv, TypeOK, LocalOK, GoTo
<1> QED BY <1>1, <1>2 DEF TypeInv

LEMMA InitTypes == Init => TypeInv
BY DEF Init, TypeInv, TypeOK, LocalOK, FileContent, InodeContent, PC, Writing,
       Verifying, Outcome

LEMMA StoredGettable ==
    ASSUME TypeInv, NEW id \in ModelId, Gettable(id)
    PROVE  /\ id \in ValidId
           /\ ManifestStem(id) \in Stem
           /\ Stored(ManifestStem(id)) \in Manifest
           /\ name[ManifestStem(id)] # None
BY StemAssumption, ValueAssumption
   DEF Gettable, ValidateModelId, ManifestStem, Parses, Stored, TypeInv, TypeOK

(* No step breaks the types, whatever the other processes do. *)
LEMMA StepTypes == TypeInv /\ [Next]_vars => TypeInv'
<1> SUFFICES ASSUME TypeInv, [Next]_vars PROVE TypeInv'
  OBVIOUS
<1> USE DEF PC, Writing, Verifying
<1>0. TypeOK /\ inode \in [Inode -> InodeContent] /\ \A q \in Proc : LocalOK(q)
  BY DEF TypeInv, TypeOK
<1>1. ASSUME NEW p \in Proc, NEW id \in ModelId, NEW path \in Path,
             NEW d \in Details, ImportStart(p, id, path, d)
      PROVE  TypeInv'
  <2>1. Imported(id, path, d) \in Draft
    BY <1>1 DEF Imported, Draft
  <2>2. CASE GoTo(p, "hash_weights", Imported(id, path, d))
             /\ UNCHANGED <<handle, todo>>
    BY <1>1, <2>1, <2>2, GoToTypes DEF ImportStart
  <2>3. CASE \E o \in Outcome : Return(p, o)
    BY <1>0, <1>1, <2>3, ReturnTypes DEF ImportStart
  <2> QED BY <1>1, <2>2, <2>3 DEF ImportStart, Outcome
<1>2. ASSUME NEW p \in Proc, ImportHash(p) PROVE TypeInv'
  <2>1. draft[p] \in Draft /\ draft[p].weights \in Path
    BY <1>0, <1>2 DEF ImportHash, LocalOK, Draft
  <2>2. CASE IsFile(draft[p].weights)
    <3> DEFINE m == WithDigest(draft[p], Sha256(file[draft[p].weights]))
    <3>1. m \in Manifest
      BY <1>0, <2>1, <2>2, DigestOfFile, DigestTypes
    <3>2. m \in Draft
      BY <3>1, ManifestIsDraft
    <3>3. GoTo(p, "open", m) /\ UNCHANGED <<file, inode, name, temp, handle, todo>>
      BY <1>2, <2>2 DEF ImportHash
    <3> HIDE DEF m
    <3> QED BY <3>1, <3>2, <3>3, GoToTypes
  <2>3. CASE Return(p, "Io")
    BY <1>0, <1>2, <2>3, ReturnTypes DEF ImportHash, Outcome
  <2> QED BY <1>2, <2>2, <2>3 DEF ImportHash
<1>3. ASSUME NEW p \in Proc, NEW id \in ModelId, NEW path \in Path,
             AttachStart(p, id, path)
      PROVE  TypeInv'
  <2>1. CASE Gettable(id)
             /\ GoTo(p, "hash_tokenizer",
                     WithTokenizer(Stored(ManifestStem(id)), path, None))
             /\ UNCHANGED <<handle, todo>>
    <3> DEFINE old == Stored(ManifestStem(id))
               m == WithTokenizer(old, path, None)
    <3>1. old \in Draft /\ old.sha256 \in Digest
      BY <2>1, StoredGettable, ManifestIsDraft DEF Manifest
    <3>2. m \in Draft /\ m.sha256 \in Digest /\ m.tokenizer \in Path
      BY <3>1, TokenizerTypes
    <3>3. GoTo(p, "hash_tokenizer", m)
          /\ UNCHANGED <<file, inode, name, temp, handle, todo>>
      BY <1>3, <2>1 DEF AttachStart
    <3> HIDE DEF m
    <3> QED BY <3>2, <3>3, GoToTypes
  <2>2. CASE \E o \in Outcome : Return(p, o)
    BY <1>0, <1>3, <2>2, ReturnTypes DEF AttachStart
  <2> QED BY <1>3, <2>1, <2>2 DEF AttachStart, Outcome, GetError
<1>4. ASSUME NEW p \in Proc, AttachHash(p) PROVE TypeInv'
  <2> DEFINE t == draft[p].tokenizer
             m == WithTokenizer(draft[p], t, Sha256(file[t]))
  <2>1. draft[p] \in Draft /\ t \in Path /\ draft[p].sha256 \in Digest
    BY <1>0, <1>4 DEF AttachHash, LocalOK
  <2>2. CASE IsFile(t) /\ GoTo(p, "open", m) /\ UNCHANGED <<handle, todo>>
    <3>1. m \in Manifest
      BY <1>0, <2>1, <2>2, DigestOfFile, TokenizerTypes
    <3>2. m \in Draft
      BY <3>1, ManifestIsDraft
    <3>3. UNCHANGED <<file, inode, name, temp>>
      BY <1>4 DEF AttachHash
    <3> HIDE DEF m
    <3> QED BY <2>2, <3>1, <3>2, <3>3, GoToTypes
  <2>3. CASE Return(p, "Io")
    BY <1>0, <1>4, <2>3, ReturnTypes DEF AttachHash, Outcome
  <2> QED BY <1>4, <2>2, <2>3 DEF AttachHash
<1>5. ASSUME NEW p \in Proc, NEW i \in Inode, OpenTemp(p, i) PROVE TypeInv'
  <2>1. TypeOK'
    BY <1>0, <1>5 DEF OpenTemp, TypeOK, InodeContent
  <2>2. ASSUME NEW q \in Proc PROVE LocalOK(q)'
    BY <1>0, <1>5 DEF OpenTemp, TypeOK, LocalOK
  <2> QED BY <2>1, <2>2 DEF TypeInv
<1>6. ASSUME NEW p \in Proc, WriteTemp(p) PROVE TypeInv'
  <2>1. draft[p] \in Manifest /\ handle[p] \in Inode
    BY <1>0, <1>6 DEF WriteTemp, LocalOK
  <2>2. Overlay(inode[handle[p]], draft[p]) \subseteq InodeContent
    BY <2>1 DEF Overlay, InodeContent
  <2>3. TypeOK'
    BY <1>0, <1>6, <2>2 DEF WriteTemp, TypeOK
  <2>4. ASSUME NEW q \in Proc PROVE LocalOK(q)'
    BY <1>0, <1>6 DEF WriteTemp, TypeOK, LocalOK
  <2> QED BY <2>3, <2>4 DEF TypeInv
<1>7. ASSUME NEW p \in Proc, WriteFails(p) PROVE TypeInv'
  <2>1. inode' \in [Inode -> InodeContent]
    BY <1>0, <1>7 DEF WriteFails, InodeContent
  <2> QED BY <1>7, <2>1, ReturnTypes DEF WriteFails, Outcome
<1>8. ASSUME NEW p \in Proc, RenameTemp(p) PROVE TypeInv'
  <2>1. draft[p].id \in ModelId
    BY <1>0, <1>8 DEF RenameTemp, LocalOK, Draft
  <2>2. ManifestStem(draft[p].id) \in Stem
    BY <2>1, StemAssumption DEF ManifestStem
  <2>3. TypeOK'
    BY <1>0, <1>8, <2>2 DEF RenameTemp, TypeOK, Return, Outcome
  <2>4. ASSUME NEW q \in Proc PROVE LocalOK(q)'
    BY <1>0, <1>8 DEF RenameTemp, TypeOK, LocalOK, Return
  <2> QED BY <2>3, <2>4 DEF TypeInv
<1>19. ASSUME NEW p \in Proc, WriteReturns(p) PROVE TypeInv'
  BY <1>0, <1>19, ReturnTypes DEF WriteReturns, Outcome
<1>9. ASSUME NEW p \in Proc, NEW id \in ModelId, Get(p, id) PROVE TypeInv'
  BY <1>0, <1>9, ReturnTypes DEF Get, Outcome, GetError
<1>10. ASSUME NEW p \in Proc, NEW id \in ModelId, VerifyStart(p, id)
       PROVE  TypeInv'
  <2>1. CASE Gettable(id)
             /\ GoTo(p, "verify_weights", Stored(ManifestStem(id)))
             /\ UNCHANGED <<handle, todo>>
    BY <1>10, <2>1, StoredGettable, ManifestIsDraft, GoToTypes DEF VerifyStart
  <2>2. CASE \E o \in Outcome : Return(p, o)
    BY <1>0, <1>10, <2>2, ReturnTypes DEF VerifyStart
  <2> QED BY <1>10, <2>1, <2>2 DEF VerifyStart, GetError, Outcome
<1>11. ASSUME NEW p \in Proc, VerifyWeights(p) PROVE TypeInv'
  <2>1. draft[p] \in Manifest
    BY <1>0, <1>11 DEF VerifyWeights, LocalOK
  <2>2. CASE GoTo(p, "verify_tokenizer", draft[p]) /\ UNCHANGED <<handle, todo>>
    BY <1>11, <2>1, <2>2, ManifestIsDraft, GoToTypes DEF VerifyWeights
  <2>3. CASE \E o \in Outcome : Return(p, o)
    BY <1>0, <1>11, <2>3, ReturnTypes DEF VerifyWeights
  <2> QED BY <1>11, <2>2, <2>3 DEF VerifyWeights, Gone, Outcome
<1>12. ASSUME NEW p \in Proc, VerifyTokenizer(p) PROVE TypeInv'
  BY <1>0, <1>12, ReturnTypes DEF VerifyTokenizer, Gone, Outcome
<1>13. ASSUME NEW p \in Proc, ListStart(p) PROVE TypeInv'
  <2>1. TypeOK'
    BY <1>0, <1>13 DEF ListStart, TypeOK, Entries, Outcome
  <2>2. ASSUME NEW q \in Proc PROVE LocalOK(q)'
    BY <1>0, <1>13 DEF ListStart, TypeOK, LocalOK
  <2> QED BY <2>1, <2>2 DEF TypeInv
<1>14. ASSUME NEW p \in Proc, NEW e \in Entry, ListRead(p, e) PROVE TypeInv'
  <2>1. CASE \E o \in Outcome : Return(p, o)
    BY <1>0, <1>14, <2>1, ReturnTypes DEF ListRead
  <2>2. CASE /\ todo' = [todo EXCEPT ![p] = @ \ {e}]
             /\ UNCHANGED <<pc, draft, handle, result>>
    <3>1. TypeOK'
      BY <1>0, <1>14, <2>2 DEF ListRead, TypeOK
    <3>2. ASSUME NEW q \in Proc PROVE LocalOK(q)'
      BY <1>0, <2>2 DEF LocalOK
    <3> QED BY <3>1, <3>2 DEF TypeInv
  <2> QED BY <1>14, <2>1, <2>2 DEF ListRead, Outcome
<1>15. ASSUME NEW p \in Proc, ListEnd(p) PROVE TypeInv'
  BY <1>0, <1>15, ReturnTypes DEF ListEnd, Outcome
<1>16. ASSUME NEW p \in Proc, Crash(p) PROVE TypeInv'
  BY <1>0, <1>16, ReturnTypes DEF Crash, Outcome
<1>17. ASSUME NEW path \in MutablePath, ChangeFile(path) PROVE TypeInv'
  <2>1. TypeOK'
    BY <1>0, <1>17 DEF ChangeFile, TypeOK, FileContent
  <2>2. ASSUME NEW q \in Proc PROVE LocalOK(q)'
    BY <1>0, <1>17 DEF ChangeFile, LocalOK
  <2> QED BY <2>1, <2>2 DEF TypeInv
<1>18. CASE UNCHANGED vars
  <2>1. TypeOK'
    BY <1>0, <1>18 DEF vars, TypeOK
  <2>2. ASSUME NEW q \in Proc PROVE LocalOK(q)'
    BY <1>0, <1>18 DEF vars, LocalOK
  <2> QED BY <2>1, <2>2 DEF TypeInv
<1> QED
  BY <1>1, <1>2, <1>3, <1>4, <1>5, <1>6, <1>7, <1>8, <1>9, <1>10, <1>11,
     <1>12, <1>13, <1>14, <1>15, <1>16, <1>17, <1>18, <1>19
  DEF Next, Operation

(* Every variable keeps its type in every behaviour: writers may interleave  *)
(* and crash at will, no field of a manifest is ever mistaken for another    *)
(* (import_local, attach_tokenizer, write_manifest_atomically).              *)
THEOREM TypeCorrect == Spec => []TypeOK
<1>1. TypeInv => TypeOK
  BY DEF TypeInv
<1> QED BY <1>1, InitTypes, StepTypes, PTL DEF Spec
-----------------------------------------------------------------------------
WeightsPaths == GgufPath \cup SafetensorsPath

(* The file name that the write command of p is about. *)
StemOf(p) == ManifestStem(draft[p].id)

(* No inode has two names. *)
Distinct ==
    /\ \A s, t \in Stem : name[s] # None /\ name[s] = name[t] => s = t
    /\ \A s, t \in Stem : temp[s] # None /\ temp[s] = temp[t] => s = t
    /\ \A s, t \in Stem : name[s] # None => name[s] # temp[t]

(* Two write commands are about two models. *)
OneWriter ==
    \A p, q \in Proc :
        p # q /\ pc[p] \in Writing /\ pc[q] \in Writing =>
            draft[p].id # draft[q].id

(* A manifest that an import publishes, and one that an attachment         *)
(* publishes over `old`.                                                   *)
Fresh(m) ==
    /\ m.weights \in WeightsPaths
    /\ m.tokenizer = None
    /\ m.tokenizer_sha256 = None

Attached(m, old) ==
    \E path \in Path, digest \in Digest : m = WithTokenizer(old, path, digest)

(* What the local manifest of a write command has to do with the published *)
(* one, at each point: nobody else changes that one meanwhile.             *)
DraftFacts(label, m) ==
    LET s == ManifestStem(m.id) IN
    /\ label \in Writing => m.id \in ValidId
    /\ label = "hash_weights" => Fresh(m)
    /\ label = "hash_tokenizer" =>
           name[s] # None /\ m = WithTokenizer(Stored(s), m.tokenizer, None)
    /\ label \in {"open", "write", "rename"} =>
           Fresh(m) \/ (name[s] # None /\ Attached(m, Stored(s)))
    /\ label = "renamed" => name[s] # None /\ Stored(s) = m

(* The temporary belongs to the one writer. *)
HandleFacts(p) ==
    /\ pc[p] = "write" =>
           handle[p] = temp[StemOf(p)] /\ inode[handle[p]] = Blank
    /\ pc[p] # "write" => handle[p] = None
    /\ pc[p] = "rename" =>
           temp[StemOf(p)] # None /\ inode[temp[StemOf(p)]] = draft[p]

(* A listing has only names of manifests to read. *)
ListFacts(p) ==
    /\ \A e \in todo[p] : e.extension = "toml" /\ name[e.stem] # None
    /\ result[p] # "TomlDecode"

LocalInv(p) == DraftFacts(pc[p], draft[p]) /\ HandleFacts(p) /\ ListFacts(p)

IInv ==
    /\ TypeInv
    /\ PublishedWhole
    /\ Distinct
    /\ OneWriter
    /\ \A p \in Proc : LocalInv(p)
-----------------------------------------------------------------------------
LEMMA StoredTypes ==
    ASSUME TypeInv, PublishedWhole, NEW s \in Stem, name[s] # None
    PROVE  /\ Stored(s) \in Manifest
           /\ Stored(s) \in Draft
           /\ Stored(s) = inode[name[s]]
           /\ Stored(s).id \in ValidId
           /\ ManifestStem(Stored(s).id) = s
BY ManifestIsDraft DEF PublishedWhole, ManifestStem, Stored

(* Where a writer's model lives, and that no other writer's lives there. *)
LEMMA WriterStems ==
    ASSUME IInv, NEW p \in Proc, pc[p] \in Writing
    PROVE  /\ draft[p] \in Draft
           /\ draft[p].id \in ValidId
           /\ StemOf(p) \in Stem
           /\ \A q \in Proc \ {p} : pc[q] \in Writing => StemOf(q) # StemOf(p)
<1>1. \A q \in Proc : pc[q] \in Writing =>
          draft[q] \in Draft /\ draft[q].id \in ValidId
  BY DEF IInv, TypeInv, LocalOK, LocalInv, DraftFacts
<1> QED BY <1>1, StemAssumption DEF IInv, OneWriter, StemOf, ManifestStem

(* A lookup that fails under the invariant does not fail on bad text. *)
LEMMA GetErrors ==
    ASSUME TypeInv, PublishedWhole, NEW id \in ModelId, ~Gettable(id)
    PROVE  GetError(id) \in {"InvalidModelId", "ModelNotFound"}
<1>1. ManifestStem(id) \in Stem
  BY StemAssumption DEF ManifestStem
<1> QED BY <1>1, StoredTypes DEF GetError, Gettable, Parses, Stored

(* A call that returns: the files it wrote to are nobody's manifest and no *)
(* other writer's temporary.                                               *)
LEMMA ReturnKeeps ==
    ASSUME IInv, TypeInv', NEW p \in Proc, NEW o \in Outcome,
           o # "TomlDecode", Return(p, o), UNCHANGED <<name, temp>>,
           \A s \in Stem : name[s] # None => inode'[name[s]] = inode[name[s]],
           \A q \in Proc \ {p} : pc[q] \in {"write", "rename"} =>
               inode'[temp[StemOf(q)]] = inode[temp[StemOf(q)]]
    PROVE  IInv'
<1>1. \A s \in Stem : Stored(s)' = Stored(s)
  BY DEF Stored
<1>2. PublishedWhole'
  BY <1>1 DEF PublishedWhole, IInv
<1>3. Distinct'
  BY DEF IInv, Distinct
<1>4. OneWriter'
  BY DEF IInv, OneWriter, Return, Writing, TypeInv, TypeOK
<1>5. ASSUME NEW q \in Proc PROVE LocalInv(q)'
  <2>1. CASE q = p
    BY <2>1 DEF LocalInv, DraftFacts, HandleFacts, ListFacts, Return, IInv,
                TypeInv, TypeOK, Writing
  <2>2. CASE q # p
    <3>1. /\ pc'[q] = pc[q] /\ draft'[q] = draft[q] /\ handle'[q] = handle[q]
          /\ todo'[q] = todo[q] /\ result'[q] = result[q]
      BY <2>2 DEF Return, IInv, TypeInv, TypeOK
    <3>2. pc[q] \in Writing => draft[q] \in Draft /\ StemOf(q) \in Stem
      BY WriterStems
    <3>3. DraftFacts(pc[q], draft[q])'
      BY <1>1, <3>1, <3>2 DEF IInv, LocalInv, DraftFacts, StemOf, Writing
    <3>4. HandleFacts(q)'
      BY <2>2, <3>1, <3>2 DEF IInv, LocalInv, HandleFacts, StemOf, Writing
    <3>5. ListFacts(q)'
      BY <3>1 DEF IInv, LocalInv, ListFacts
    <3> QED BY <3>3, <3>4, <3>5 DEF LocalInv
  <2> QED BY <2>1, <2>2
<1> QED BY <1>2, <1>3, <1>4, <1>5 DEF IInv

(* A step to the next point of a call, which touches no file. *)
LEMMA GoToKeeps ==
    ASSUME IInv, TypeInv', NEW p \in Proc, NEW label \in PC, NEW m \in Draft,
           GoTo(p, label, m), UNCHANGED <<inode, name, temp, handle, todo>>,
           pc[p] # "write", label \notin {"write", "rename"},
           DraftFacts(label, m),
           label \in Writing =>
               \A q \in Proc \ {p} : pc[q] \in Writing => draft[q].id # m.id
    PROVE  IInv'
<1>1. \A s \in Stem : Stored(s)' = Stored(s)
  BY DEF Stored
<1>2. PublishedWhole'
  BY <1>1 DEF PublishedWhole, IInv
<1>3. Distinct'
  BY DEF IInv, Distinct
<1>4. OneWriter'
  BY DEF IInv, OneWriter, GoTo, Writing, TypeInv, TypeOK
<1>5. ASSUME NEW q \in Proc PROVE LocalInv(q)'
  <2>1. CASE q = p
    <3>1. pc'[p] = label /\ draft'[p] = m /\ result'[p] = "none"
      BY DEF GoTo, IInv, TypeInv, TypeOK
    <3>2. ManifestStem(m.id) \in Stem
      BY StemAssumption DEF ManifestStem, Draft
    <3>3. DraftFacts(pc[p], draft[p])'
      BY <1>1, <3>1, <3>2 DEF DraftFacts
    <3>4. HandleFacts(p)'
      BY <3>1 DEF IInv, LocalInv, HandleFacts
    <3>5. ListFacts(p)'
      BY <3>1 DEF IInv, LocalInv, ListFacts
    <3> QED BY <2>1, <3>3, <3>4, <3>5 DEF LocalInv
  <2>2. CASE q # p
    <3>1. /\ pc'[q] = pc[q] /\ draft'[q] = draft[q] /\ handle'[q] = handle[q]
          /\ todo'[q] = todo[q] /\ result'[q] = result[q]
      BY <2>2 DEF GoTo, IInv, TypeInv, TypeOK
    <3>2. pc[q] \in Writing => draft[q] \in Draft /\ StemOf(q) \in Stem
      BY WriterStems
    <3>3. DraftFacts(pc[q], draft[q])'
      BY <1>1, <3>1, <3>2 DEF IInv, LocalInv, DraftFacts, StemOf, Writing
    <3>4. HandleFacts(q)'
      BY <3>1 DEF IInv, LocalInv, HandleFacts, StemOf
    <3>5. ListFacts(q)'
      BY <3>1 DEF IInv, LocalInv, ListFacts
    <3> QED BY <3>3, <3>4, <3>5 DEF LocalInv
  <2> QED BY <2>1, <2>2
<1> QED BY <1>2, <1>3, <1>4, <1>5 DEF IInv

(* The steps that touch the files, by the one writer of a model. *)
LEMMA OpenKeeps ==
    ASSUME IInv, TypeInv', NEW p \in Proc, NEW i \in Inode, OpenTemp(p, i)
    PROVE  IInv'
<1> DEFINE s == StemOf(p)
<1>1. pc[p] \in Writing /\ pc[p] = "open"
  BY DEF OpenTemp, Writing
<1>2. /\ draft[p].id \in ValidId /\ s \in Stem
      /\ \A q \in Proc \ {p} : pc[q] \in Writing => StemOf(q) # s
  BY <1>1, WriterStems
<1>3. /\ temp' = [temp EXCEPT ![s] = i]
      /\ inode' = [inode EXCEPT ![i] = Blank]
      /\ IF temp[s] = None THEN Free(i) ELSE i = temp[s]
      /\ handle' = [handle EXCEPT ![p] = i]
      /\ pc' = [pc EXCEPT ![p] = "write"]
      /\ UNCHANGED <<name, draft, todo, result>>
  BY DEF OpenTemp, StemOf
<1> HIDE DEF s
<1>4. /\ \A t \in Stem : name[t] # i
      /\ \A t \in Stem : t # s => temp[t] # i
  BY <1>2, <1>3 DEF IInv, Distinct, Free
<1>5. \A t \in Stem : Stored(t)' = Stored(t)
  BY <1>3, <1>4 DEF Stored, IInv, TypeInv, TypeOK
<1>6. PublishedWhole'
  BY <1>3, <1>5 DEF PublishedWhole, IInv
<1>7. Distinct'
  BY <1>2, <1>3, <1>4 DEF IInv, Distinct, TypeInv, TypeOK
<1>8. OneWriter'
  BY <1>1, <1>3 DEF IInv, OneWriter, Writing, TypeInv, TypeOK
<1>9. ASSUME NEW q \in Proc PROVE LocalInv(q)'
  <2>1. CASE q = p
    <3>1. DraftFacts(pc[p], draft[p])'
      BY <1>1, <1>2, <1>3, <1>5
      DEF IInv, LocalInv, DraftFacts, StemOf, s, Writing, TypeInv, TypeOK
    <3>2. HandleFacts(p)'
      BY <1>2, <1>3 DEF HandleFacts, StemOf, s, IInv, TypeInv, TypeOK
    <3>3. ListFacts(p)'
      BY <1>3 DEF IInv, LocalInv, ListFacts
    <3> QED BY <2>1, <3>1, <3>2, <3>3 DEF LocalInv
  <2>2. CASE q # p
    <3>1. /\ pc'[q] = pc[q] /\ draft'[q] = draft[q] /\ handle'[q] = handle[q]
          /\ todo'[q] = todo[q] /\ result'[q] = result[q]
      BY <1>3, <2>2 DEF IInv, TypeInv, TypeOK
    <3>2. pc[q] \in Writing => StemOf(q) \in Stem /\ StemOf(q) # s
      BY <1>2, <2>2, WriterStems
    <3>3. DraftFacts(pc[q], draft[q])'
      BY <1>3, <1>5, <3>1, <3>2 DEF IInv, LocalInv, DraftFacts, StemOf, Writing
    <3>4. HandleFacts(q)'
      <4>1. HandleFacts(q)
        BY DEF IInv, LocalInv
      <4>2. pc[q] \in {"write", "rename"} =>
                /\ temp'[StemOf(q)] = temp[StemOf(q)]
                /\ inode'[temp[StemOf(q)]] = inode[temp[StemOf(q)]]
        <5>1. ASSUME pc[q] \in {"write", "rename"}
              PROVE  temp[StemOf(q)] \in Inode
          BY <5>1, <3>2, <4>1 DEF HandleFacts, IInv, TypeInv, TypeOK, LocalOK,
             Writing
        <5> QED BY <1>2, <1>3, <1>4, <3>2, <5>1 DEF IInv, TypeInv, TypeOK, Writing
      <4> QED BY <3>1, <4>1, <4>2 DEF HandleFacts, StemOf
    <3>5. ListFacts(q)'
      BY <1>3, <3>1 DEF IInv, LocalInv, ListFacts
    <3> QED BY <3>3, <3>4, <3>5 DEF LocalInv
  <2> QED BY <2>1, <2>2
<1> QED BY <1>6, <1>7, <1>8, <1>9 DEF IInv

LEMMA WriteKeeps ==
    ASSUME IInv, TypeInv', NEW p \in Proc, WriteTemp(p)
    PROVE  IInv'
<1> DEFINE s == StemOf(p)
<1>1. pc[p] \in Writing /\ pc[p] = "write"
  BY DEF WriteTemp, Writing
<1>2. /\ draft[p].id \in ValidId /\ s \in Stem
      /\ \A q \in Proc \ {p} : pc[q] \in Writing => StemOf(q) # s
  BY <1>1, WriterStems
<1>3. handle[p] = temp[s] /\ inode[handle[p]] = Blank /\ temp[s] \in Inode
  BY <1>1 DEF IInv, LocalInv, HandleFacts, TypeInv, LocalOK, s
<1>4. /\ inode' = [inode EXCEPT ![temp[s]] = draft[p]]
      /\ handle' = [handle EXCEPT ![p] = None]
      /\ pc' = [pc EXCEPT ![p] = "rename"]
      /\ UNCHANGED <<name, temp, draft, todo, result>>
  BY <1>3 DEF WriteTemp, Overlay
<1> HIDE DEF s
<1>5. /\ temp[s] # None
      /\ \A t \in Stem : name[t] # temp[s]
      /\ \A t \in Stem : t # s => temp[t] # temp[s]
  BY <1>2, <1>3, ValueAssumption DEF IInv, Distinct
<1>6. \A t \in Stem : Stored(t)' = Stored(t)
  BY <1>4, <1>5 DEF Stored, IInv, TypeInv, TypeOK
<1>7. PublishedWhole'
  BY <1>4, <1>6 DEF PublishedWhole, IInv
<1>8. Distinct'
  BY <1>4 DEF IInv, Distinct
<1>9. OneWriter'
  BY <1>1, <1>4 DEF IInv, OneWriter, Writing, TypeInv, TypeOK
<1>10. ASSUME NEW q \in Proc PROVE LocalInv(q)'
  <2>1. CASE q = p
    <3>1. DraftFacts(pc[p], draft[p])'
      BY <1>1, <1>2, <1>4, <1>6
      DEF IInv, LocalInv, DraftFacts, StemOf, s, Writing, TypeInv, TypeOK
    <3>2. HandleFacts(p)'
      BY <1>2, <1>3, <1>4, <1>5 DEF HandleFacts, StemOf, s, IInv, TypeInv, TypeOK
    <3>3. ListFacts(p)'
      BY <1>4 DEF IInv, LocalInv, ListFacts
    <3> QED BY <2>1, <3>1, <3>2, <3>3 DEF LocalInv
  <2>2. CASE q # p
    <3>1. /\ pc'[q] = pc[q] /\ draft'[q] = draft[q] /\ handle'[q] = handle[q]
          /\ todo'[q] = todo[q] /\ result'[q] = result[q]
      BY <1>4, <2>2 DEF IInv, TypeInv, TypeOK
    <3>2. pc[q] \in Writing => StemOf(q) \in Stem /\ StemOf(q) # s
      BY <1>2, <2>2, WriterStems
    <3>3. DraftFacts(pc[q], draft[q])'
      BY <1>4, <1>6, <3>1, <3>2 DEF IInv, LocalInv, DraftFacts, StemOf, Writing
    <3>4. HandleFacts(q)'
      <4>1. HandleFacts(q)
        BY DEF IInv, LocalInv
      <4>2. ASSUME pc[q] \in {"write", "rename"}
            PROVE  inode'[temp[StemOf(q)]] = inode[temp[StemOf(q)]]
        <5>1. temp[StemOf(q)] \in Inode
          BY <4>2, <3>2, <4>1 DEF HandleFacts, IInv, TypeInv, TypeOK, LocalOK,
             Writing
        <5> QED BY <1>4, <1>5, <3>2, <4>2, <5>1 DEF IInv, TypeInv, TypeOK, Writing
      <4> QED BY <1>4, <3>1, <4>1, <4>2 DEF HandleFacts, StemOf
    <3>5. ListFacts(q)'
      BY <1>4, <3>1 DEF IInv, LocalInv, ListFacts
    <3> QED BY <3>3, <3>4, <3>5 DEF LocalInv
  <2> QED BY <2>1, <2>2
<1> QED BY <1>7, <1>8, <1>9, <1>10 DEF IInv

(* Writing fails before, during or after the write of a part. *)
LEMMA WriteFailsKeeps ==
    ASSUME IInv, TypeInv', NEW p \in Proc, WriteFails(p)
    PROVE  IInv'
<1>1. pc[p] \in Writing /\ Return(p, "Io") /\ UNCHANGED <<name, temp>>
  BY DEF WriteFails, Writing
<1>2. CASE UNCHANGED inode
  BY <1>1, <1>2, ReturnKeeps DEF Outcome
<1>3. CASE pc[p] = "write" /\ inode' = [inode EXCEPT ![handle[p]] = Garbled]
  <2> DEFINE s == StemOf(p)
  <2>1. /\ s \in Stem
        /\ \A q \in Proc \ {p} : pc[q] \in Writing => StemOf(q) # s
    BY <1>1, WriterStems
  <2>2. handle[p] = temp[s] /\ temp[s] \in Inode /\ temp[s] # None
    BY <1>3, ValueAssumption
    DEF IInv, LocalInv, HandleFacts, TypeInv, LocalOK
  <2> HIDE DEF s
  <2>3. /\ \A t \in Stem : name[t] # temp[s]
        /\ \A t \in Stem : t # s => temp[t] # temp[s]
    BY <2>1, <2>2 DEF IInv, Distinct
  <2>4. \A t \in Stem : name[t] # None => inode'[name[t]] = inode[name[t]]
    BY <1>3, <2>2, <2>3 DEF IInv, TypeInv, TypeOK
  <2>5. ASSUME NEW q \in Proc \ {p}, pc[q] \in {"write", "rename"}
        PROVE  inode'[temp[StemOf(q)]] = inode[temp[StemOf(q)]]
    <3>1. StemOf(q) \in Stem /\ StemOf(q) # s
      BY <2>1, <2>5, WriterStems DEF Writing
    <3>2. temp[StemOf(q)] \in Inode
      BY <2>5, <3>1 DEF IInv, LocalInv, HandleFacts, TypeInv, TypeOK, LocalOK
    <3> QED BY <1>3, <2>2, <2>3, <3>1, <3>2 DEF IInv, TypeInv, TypeOK
  <2> QED BY <1>1, <2>4, <2>5, ReturnKeeps DEF Outcome
<1> QED BY <1>2, <1>3 DEF WriteFails

(* What a rename does: the one writer's own manifest is published. *)
LEMMA RenameEffect ==
    ASSUME IInv, NEW p \in Proc, RenameTemp(p), NEW s \in Stem, s = StemOf(p)
    PROVE  /\ pc[p] = "rename" /\ draft[p] \in Manifest
           /\ draft[p].id \in ValidId
           /\ \A q \in Proc \ {p} : pc[q] \in Writing => StemOf(q) # s
           /\ temp[s] \in Inode /\ temp[s] # None /\ inode[temp[s]] = draft[p]
           /\ pc' = [pc EXCEPT ![p] = "renamed"]
           /\ UNCHANGED <<draft, handle, todo, result>>
           /\ name' = [name EXCEPT ![s] = temp[s]]
           /\ temp' = [temp EXCEPT ![s] = None]
           /\ UNCHANGED <<file, inode>>
           /\ Stored(s)' = draft[p]
           /\ \A t \in Stem : t # s => Stored(t)' = Stored(t)
<1>1. pc[p] \in Writing /\ pc[p] = "rename"
  BY DEF RenameTemp, Writing
<1>2. /\ draft[p].id \in ValidId
      /\ \A q \in Proc \ {p} : pc[q] \in Writing => StemOf(q) # s
  BY <1>1, WriterStems
<1>3. /\ draft[p] \in Manifest
      /\ temp[s] \in Inode /\ temp[s] # None /\ inode[temp[s]] = draft[p]
  BY <1>1, <1>2 DEF IInv, LocalInv, HandleFacts, TypeInv, TypeOK, LocalOK
<1>4. /\ pc' = [pc EXCEPT ![p] = "renamed"]
      /\ UNCHANGED <<draft, handle, todo, result>>
      /\ name' = [name EXCEPT ![s] = temp[s]]
      /\ temp' = [temp EXCEPT ![s] = None]
      /\ UNCHANGED <<file, inode>>
  BY <1>3 DEF RenameTemp, StemOf
<1>5. name'[s] = temp[s] /\ \A t \in Stem : t # s => name'[t] = name[t]
  BY <1>4 DEF IInv, TypeInv, TypeOK
<1>6. Stored(s)' = draft[p] /\ \A t \in Stem : t # s => Stored(t)' = Stored(t)
  BY <1>3, <1>4, <1>5 DEF Stored
<1> QED BY <1>1, <1>2, <1>3, <1>4, <1>6

LEMMA RenameKeeps ==
    ASSUME IInv, TypeInv', NEW p \in Proc, RenameTemp(p)
    PROVE  IInv'
<1>0. PICK s \in Stem : s = StemOf(p)
  BY WriterStems DEF RenameTemp, Writing
<1>1. /\ pc[p] = "rename" /\ draft[p] \in Manifest
      /\ draft[p].id \in ValidId
      /\ \A q \in Proc \ {p} : pc[q] \in Writing => StemOf(q) # s
      /\ temp[s] \in Inode /\ temp[s] # None /\ inode[temp[s]] = draft[p]
      /\ pc' = [pc EXCEPT ![p] = "renamed"]
      /\ UNCHANGED <<draft, handle, todo, result>>
      /\ name' = [name EXCEPT ![s] = temp[s]]
      /\ temp' = [temp EXCEPT ![s] = None]
      /\ UNCHANGED <<file, inode>>
      /\ Stored(s)' = draft[p]
      /\ \A t \in Stem : t # s => Stored(t)' = Stored(t)
  BY <1>0, RenameEffect
<1>2. ManifestStem(draft[p].id) = s
  BY <1>0 DEF StemOf
<1>3. /\ name'[s] = temp[s] /\ temp'[s] = None
      /\ \A t \in Stem : t # s => name'[t] = name[t] /\ temp'[t] = temp[t]
  BY <1>1 DEF IInv, TypeInv, TypeOK
<1>4. PublishedWhole'
  BY <1>1, <1>2, <1>3 DEF PublishedWhole, IInv, ManifestStem
<1>5. Distinct'
  BY <1>1, <1>3 DEF IInv, Distinct
<1>6. OneWriter'
  BY <1>1 DEF IInv, OneWriter, Writing, TypeInv, TypeOK
<1>7. ASSUME NEW q \in Proc PROVE LocalInv(q)'
  <2> DEFINE listed == \A e \in todo[q] : e.stem \in Stem
  <2>0. listed
    BY DEF IInv, TypeInv, TypeOK, Entry
  <2> HIDE DEF listed
  <2>1. CASE q = p
    <3>1. pc'[p] = "renamed" /\ UNCHANGED <<draft, handle, todo, result>>
      BY <1>1 DEF IInv, TypeInv, TypeOK
    <3>2. DraftFacts(pc[p], draft[p])'
      BY <1>1, <1>2, <1>3, <3>1 DEF DraftFacts, Writing
    <3>3. HandleFacts(p)'
      BY <1>1, <3>1 DEF HandleFacts, IInv, LocalInv
    <3>4. ListFacts(p)'
      BY <1>1, <1>3, <2>0, <2>1, <3>1 DEF ListFacts, IInv, LocalInv, listed
    <3> QED BY <2>1, <3>2, <3>3, <3>4 DEF LocalInv
  <2>2. CASE q # p
    <3>1. /\ pc'[q] = pc[q] /\ draft'[q] = draft[q] /\ handle'[q] = handle[q]
          /\ todo'[q] = todo[q] /\ result'[q] = result[q]
      BY <1>1, <2>2 DEF IInv, TypeInv, TypeOK
    <3>2. pc[q] \in Writing => StemOf(q) \in Stem /\ StemOf(q) # s
      BY <1>1, <2>2, WriterStems
    <3>3. DraftFacts(pc[q], draft[q])'
      BY <1>1, <1>3, <3>1, <3>2
      DEF IInv, LocalInv, DraftFacts, StemOf, Writing
    <3>4. HandleFacts(q)'
      BY <1>1, <1>3, <3>1, <3>2
      DEF IInv, LocalInv, HandleFacts, StemOf, Writing
    <3>5. ListFacts(q)'
      BY <1>1, <1>3, <2>0, <3>1 DEF IInv, LocalInv, ListFacts, listed
    <3> QED BY <3>3, <3>4, <3>5 DEF LocalInv
  <2> QED BY <2>1, <2>2
<1> QED BY <1>4, <1>5, <1>6, <1>7 DEF IInv

(* The steps of a listing. *)
LEMMA ListStartKeeps ==
    ASSUME IInv, TypeInv', NEW p \in Proc, ListStart(p)
    PROVE  IInv'
<1>1. \A s \in Stem : Stored(s)' = Stored(s)
  BY DEF ListStart, Stored
<1>2. PublishedWhole' /\ Distinct'
  BY <1>1 DEF ListStart, PublishedWhole, Distinct, IInv
<1>3. OneWriter'
  BY DEF ListStart, OneWriter, Writing, IInv, TypeInv, TypeOK
<1>4. ASSUME NEW q \in Proc PROVE LocalInv(q)'
  <2>1. pc[q] \in Writing => StemOf(q) \in Stem
    BY WriterStems
  <2>2. DraftFacts(pc[q], draft[q])'
    BY <1>1, <2>1 DEF ListStart, DraftFacts, LocalInv, StemOf, Writing, IInv,
                      TypeInv, TypeOK
  <2>3. HandleFacts(q)'
    BY DEF ListStart, HandleFacts, LocalInv, StemOf, IInv, TypeInv, TypeOK
  <2>4. ListFacts(q)'
    BY DEF ListStart, ListFacts, Entries, HasTomlExtension, LocalInv, IInv,
           TypeInv, TypeOK
  <2> QED BY <2>2, <2>3, <2>4 DEF LocalInv
<1> QED BY <1>2, <1>3, <1>4 DEF IInv

LEMMA ListReadKeeps ==
    ASSUME IInv, TypeInv', NEW p \in Proc, NEW e \in Entry, ListRead(p, e)
    PROVE  IInv'
<1>1. /\ e.extension = "toml" /\ e.stem \in Stem /\ name[e.stem] # None
  BY DEF ListRead, IInv, LocalInv, ListFacts, Entry
<1>2. EntryContent(e) \in Manifest
  BY <1>1, StoredTypes DEF EntryContent, IInv
<1>3. /\ todo' = [todo EXCEPT ![p] = @ \ {e}]
      /\ UNCHANGED <<pc, draft, handle, result, file, inode, name, temp>>
  BY <1>2, ValueAssumption DEF ListRead, Parses
<1>4. \A s \in Stem : Stored(s)' = Stored(s)
  BY <1>3 DEF Stored
<1>5. PublishedWhole' /\ Distinct' /\ OneWriter'
  BY <1>3, <1>4 DEF PublishedWhole, Distinct, OneWriter, IInv
<1>6. ASSUME NEW q \in Proc PROVE LocalInv(q)'
  <2>1. pc[q] \in Writing => StemOf(q) \in Stem
    BY WriterStems
  <2>2. DraftFacts(pc[q], draft[q])'
    BY <1>3, <1>4, <2>1 DEF DraftFacts, LocalInv, StemOf, Writing, IInv
  <2>3. HandleFacts(q)'
    BY <1>3 DEF HandleFacts, LocalInv, StemOf, IInv
  <2>4. todo'[q] \subseteq todo[q]
    BY <1>3 DEF IInv, TypeInv, TypeOK
  <2>5. ListFacts(q)'
    BY <1>3, <2>4 DEF ListFacts, LocalInv, IInv
  <2> QED BY <2>2, <2>3, <2>5 DEF LocalInv
<1> QED BY <1>5, <1>6 DEF IInv

(* Steps that change neither the manifests directory nor any call. *)
LEMMA IdleKeeps ==
    ASSUME IInv, TypeInv',
           UNCHANGED <<inode, name, temp, pc, draft, handle, todo>>,
           \A q \in Proc : result'[q] \in {result[q], "HuggingFaceHub"}
    PROVE  IInv'
<1>1. \A s \in Stem : Stored(s)' = Stored(s)
  BY DEF Stored
<1>2. PublishedWhole' /\ Distinct' /\ OneWriter'
  BY <1>1 DEF PublishedWhole, Distinct, OneWriter, IInv
<1>3. ASSUME NEW q \in Proc PROVE LocalInv(q)'
  <2>1. pc[q] \in Writing => StemOf(q) \in Stem
    BY WriterStems
  <2>2. DraftFacts(pc[q], draft[q])'
    BY <1>1, <2>1 DEF DraftFacts, LocalInv, StemOf, Writing, IInv
  <2>3. HandleFacts(q)' /\ ListFacts(q)'
    BY DEF HandleFacts, ListFacts, LocalInv, StemOf, IInv
  <2> QED BY <2>2, <2>3 DEF LocalInv
<1> QED BY <1>2, <1>3 DEF IInv

LEMMA InitKeeps == Init => IInv
<1> SUFFICES ASSUME Init PROVE IInv
  OBVIOUS
<1>1. TypeInv
  BY InitTypes
<1>2. PublishedWhole /\ Distinct /\ OneWriter
  BY DEF Init, PublishedWhole, Distinct, OneWriter, Writing
<1>3. ASSUME NEW p \in Proc PROVE LocalInv(p)
  BY DEF Init, LocalInv, DraftFacts, HandleFacts, ListFacts, Writing
<1> QED BY <1>1, <1>2, <1>3 DEF IInv
-----------------------------------------------------------------------------
(* A call that ends in an error or a result and touches no file. *)
LEMMA QuietReturnKeeps ==
    ASSUME IInv, TypeInv', NEW p \in Proc,
           NEW o \in Outcome \ {"TomlDecode"}, Return(p, o),
           UNCHANGED <<inode, name, temp>>
    PROVE  IInv'
BY ReturnKeeps

LEMMA StepKeeps == Exclusive /\ IInv /\ [Next]_vars => IInv'
<1> SUFFICES ASSUME Exclusive, IInv, [Next]_vars PROVE IInv'
  OBVIOUS
<1>0. TypeInv /\ TypeInv' /\ PublishedWhole
  BY StepTypes DEF IInv
<1> USE DEF PC, Writing, Verifying
<1>1. ASSUME NEW p \in Proc, NEW id \in ModelId, NEW path \in Path,
             NEW d \in Details, ImportStart(p, id, path, d)
      PROVE  IInv'
  <2> DEFINE m == Imported(id, path, d)
  <2>1. m \in Draft /\ m.id = id /\ m.weights = path
        /\ m.tokenizer = None /\ m.tokenizer_sha256 = None
    BY DEF Imported, Draft
  <2>2. CASE \E o \in Outcome \ {"TomlDecode"} : Return(p, o)
    BY <1>0, <1>1, <2>2, QuietReturnKeeps DEF ImportStart
  <2>3. CASE /\ ValidateModelId(id) /\ SupportedFormat(path)
             /\ GoTo(p, "hash_weights", m) /\ UNCHANGED <<handle, todo>>
    <3>1. DraftFacts("hash_weights", m)
      BY <2>1, <2>3 DEF DraftFacts, Fresh, ValidateModelId, SupportedFormat,
                        WeightsPaths
    <3>2. \A q \in Proc \ {p} : pc[q] \in Writing => draft[q].id # m.id
      BY <1>1, <2>1 DEF ImportStart, MayWrite
    <3>3. UNCHANGED <<inode, name, temp>> /\ pc[p] # "write"
      BY <1>1 DEF ImportStart
    <3> HIDE DEF m
    <3> QED BY <1>0, <2>1, <2>3, <3>1, <3>2, <3>3, GoToKeeps
  <2> QED BY <1>1, <2>2, <2>3 DEF ImportStart, Outcome
<1>2. ASSUME NEW p \in Proc, ImportHash(p) PROVE IInv'
  <2> DEFINE m == WithDigest(draft[p], Sha256(file[draft[p].weights]))
  <2>1. /\ draft[p] \in Draft /\ draft[p].id \in ValidId
        /\ draft[p].weights \in Path /\ Fresh(draft[p])
        /\ \A q \in Proc \ {p} : pc[q] \in Writing => draft[q].id # draft[p].id
    BY <1>2, WriterStems
    DEF ImportHash, Draft, IInv, LocalInv, DraftFacts, OneWriter
  <2>2. CASE Return(p, "Io")
    BY <1>0, <1>2, <2>2, QuietReturnKeeps DEF ImportHash, Outcome
  <2>3. CASE /\ IsFile(draft[p].weights)
             /\ GoTo(p, "open", m) /\ UNCHANGED <<handle, todo>>
    <3>1. m \in Manifest /\ m \in Draft /\ m.id = draft[p].id
      BY <1>0, <2>1, <2>3, DigestOfFile, DigestTypes, ManifestIsDraft DEF TypeInv
    <3>2. Fresh(m)
      BY <2>1 DEF Fresh, WithDigest, Draft
    <3>3. DraftFacts("open", m)
      BY <2>1, <3>1, <3>2 DEF DraftFacts
    <3>4. UNCHANGED <<inode, name, temp>> /\ pc[p] # "write"
      BY <1>2 DEF ImportHash
    <3> HIDE DEF m
    <3> QED BY <1>0, <2>1, <2>3, <3>1, <3>3, <3>4, GoToKeeps
  <2> QED BY <1>2, <2>2, <2>3 DEF ImportHash
<1>3. ASSUME NEW p \in Proc, NEW id \in ModelId, NEW path \in Path,
             AttachStart(p, id, path)
      PROVE  IInv'
  <2> DEFINE old == Stored(ManifestStem(id))
             m == WithTokenizer(old, path, None)
  <2>1. CASE \E o \in Outcome \ {"TomlDecode"} : Return(p, o)
    BY <1>0, <1>3, <2>1, QuietReturnKeeps DEF AttachStart
  <2>2. CASE /\ Gettable(id)
             /\ GoTo(p, "hash_tokenizer", m) /\ UNCHANGED <<handle, todo>>
    <3>1. /\ id \in ValidId /\ ManifestStem(id) \in Stem
          /\ name[ManifestStem(id)] # None
      BY <1>0, <2>2, StoredGettable
    <3>2. /\ old \in Draft /\ old.id \in ValidId
          /\ ManifestStem(old.id) = ManifestStem(id)
      BY <1>0, <3>1, StoredTypes
    <3>3. old.id = id
      BY <3>1, <3>2, StemAssumption DEF ManifestStem
    <3>4. m \in Draft /\ m.id = id /\ m.tokenizer = path
      BY <3>2, <3>3, TokenizerTypes
    <3>5. DraftFacts("hash_tokenizer", m)
      BY <3>1, <3>4 DEF DraftFacts
    <3>6. \A q \in Proc \ {p} : pc[q] \in Writing => draft[q].id # m.id
      BY <1>3, <3>4 DEF AttachStart, MayWrite
    <3>7. UNCHANGED <<inode, name, temp>> /\ pc[p] # "write"
      BY <1>3 DEF AttachStart
    <3> HIDE DEF m
    <3> QED BY <1>0, <2>2, <3>4, <3>5, <3>6, <3>7, GoToKeeps
  <2> QED BY <1>0, <1>3, <2>1, <2>2, GetErrors DEF AttachStart, Outcome
<1>4. ASSUME NEW p \in Proc, AttachHash(p) PROVE IInv'
  <2> DEFINE t == draft[p].tokenizer
             m == WithTokenizer(draft[p], t, Sha256(file[t]))
             s == ManifestStem(draft[p].id)
  <2>1. /\ draft[p] \in Draft /\ draft[p].id \in ValidId
        /\ t \in Path /\ draft[p].sha256 \in Digest
        /\ s \in Stem /\ name[s] # None
        /\ draft[p] = WithTokenizer(Stored(s), t, None)
        /\ \A q \in Proc \ {p} : pc[q] \in Writing => draft[q].id # draft[p].id
    BY <1>4, WriterStems
    DEF AttachHash, IInv, TypeInv, LocalOK, LocalInv, DraftFacts, OneWriter,
        StemOf
  <2>2. CASE Return(p, "Io")
    BY <1>0, <1>4, <2>2, QuietReturnKeeps DEF AttachHash, Outcome
  <2>3. CASE /\ IsFile(t)
             /\ GoTo(p, "open", m) /\ UNCHANGED <<handle, todo>>
    <3>1. Sha256(file[t]) \in Digest
      BY <1>0, <2>1, <2>3, DigestOfFile DEF TypeInv
    <3>2. m \in Draft /\ m.id = draft[p].id
      BY <2>1, <3>1, TokenizerTypes
    <3>3. Stored(s) \in Draft
      BY <1>0, <2>1, StoredTypes
    <3>4. m = WithTokenizer(Stored(s), t, Sha256(file[t]))
      BY <2>1, <3>3 DEF WithTokenizer, Draft
    <3>5. Attached(m, Stored(s))
      BY <2>1, <3>1, <3>4 DEF Attached
    <3>6. DraftFacts("open", m)
      BY <2>1, <3>2, <3>5 DEF DraftFacts
    <3>7. UNCHANGED <<inode, name, temp>> /\ pc[p] # "write"
      BY <1>4 DEF AttachHash
    <3> HIDE DEF m
    <3> QED BY <1>0, <2>1, <2>3, <3>2, <3>6, <3>7, GoToKeeps
  <2> QED BY <1>4, <2>2, <2>3 DEF AttachHash
<1>5. ASSUME NEW p \in Proc, NEW i \in Inode, OpenTemp(p, i) PROVE IInv'
  BY <1>0, <1>5, OpenKeeps
<1>6. ASSUME NEW p \in Proc, WriteTemp(p) PROVE IInv'
  BY <1>0, <1>6, WriteKeeps
<1>7. ASSUME NEW p \in Proc, WriteFails(p) PROVE IInv'
  BY <1>0, <1>7, WriteFailsKeeps
<1>8. ASSUME NEW p \in Proc, RenameTemp(p) PROVE IInv'
  BY <1>0, <1>8, RenameKeeps
<1>19. ASSUME NEW p \in Proc, WriteReturns(p) PROVE IInv'
  BY <1>0, <1>19, QuietReturnKeeps DEF WriteReturns, Outcome
<1>9. ASSUME NEW p \in Proc, NEW id \in ModelId, Get(p, id) PROVE IInv'
  BY <1>0, <1>9, GetErrors, QuietReturnKeeps DEF Get, Outcome
<1>10. ASSUME NEW p \in Proc, NEW id \in ModelId, VerifyStart(p, id)
       PROVE  IInv'
  <2> DEFINE m == Stored(ManifestStem(id))
  <2>1. CASE \E o \in Outcome \ {"TomlDecode"} : Return(p, o)
    BY <1>0, <1>10, <2>1, QuietReturnKeeps DEF VerifyStart
  <2>2. CASE /\ Gettable(id)
             /\ GoTo(p, "verify_weights", m) /\ UNCHANGED <<handle, todo>>
    <3>1. m \in Draft
      BY <1>0, <2>2, StoredGettable, ManifestIsDraft
    <3>2. DraftFacts("verify_weights", m)
      BY DEF DraftFacts
    <3>3. UNCHANGED <<inode, name, temp>> /\ pc[p] # "write"
      BY <1>10 DEF VerifyStart
    <3> HIDE DEF m
    <3> QED BY <1>0, <2>2, <3>1, <3>2, <3>3, GoToKeeps
  <2> QED BY <1>0, <1>10, <2>1, <2>2, GetErrors DEF VerifyStart, Outcome
<1>11. ASSUME NEW p \in Proc, VerifyWeights(p) PROVE IInv'
  <2>1. draft[p] \in Draft
    BY <1>0, <1>11, ManifestIsDraft DEF VerifyWeights, TypeInv, LocalOK
  <2>2. CASE \E o \in Outcome \ {"TomlDecode"} : Return(p, o)
    BY <1>0, <1>11, <2>2, QuietReturnKeeps DEF VerifyWeights
  <2>3. CASE GoTo(p, "verify_tokenizer", draft[p]) /\ UNCHANGED <<handle, todo>>
    <3>1. DraftFacts("verify_tokenizer", draft[p])
      BY DEF DraftFacts
    <3>2. UNCHANGED <<inode, name, temp>> /\ pc[p] # "write"
      BY <1>11 DEF VerifyWeights
    <3> QED BY <1>0, <2>1, <2>3, <3>1, <3>2, GoToKeeps
  <2> QED BY <1>11, <2>2, <2>3 DEF VerifyWeights, Gone, Outcome
<1>12. ASSUME NEW p \in Proc, VerifyTokenizer(p) PROVE IInv'
  BY <1>0, <1>12, QuietReturnKeeps DEF VerifyTokenizer, Gone, Outcome
<1>13. ASSUME NEW p \in Proc, ListStart(p) PROVE IInv'
  BY <1>0, <1>13, ListStartKeeps
<1>14. ASSUME NEW p \in Proc, NEW e \in Entry, ListRead(p, e) PROVE IInv'
  BY <1>0, <1>14, ListReadKeeps
<1>15. ASSUME NEW p \in Proc, ListEnd(p) PROVE IInv'
  BY <1>0, <1>15, QuietReturnKeeps DEF ListEnd, Outcome
<1>16. ASSUME NEW p \in Proc, Crash(p) PROVE IInv'
  BY <1>0, <1>16, QuietReturnKeeps DEF Crash, Outcome
<1>17. ASSUME NEW path \in MutablePath, ChangeFile(path) PROVE IInv'
  BY <1>0, <1>17, IdleKeeps DEF ChangeFile
<1>18. CASE UNCHANGED vars
  BY <1>0, <1>18, IdleKeeps DEF vars
<1> QED
  BY <1>1, <1>2, <1>3, <1>4, <1>5, <1>6, <1>7, <1>8, <1>9, <1>10, <1>11,
     <1>12, <1>13, <1>14, <1>15, <1>16, <1>17, <1>18, <1>19
  DEF Next, Operation

LEMMA Invariance == ASSUME Exclusive PROVE Spec => []IInv
<1>1. IInv /\ [Next]_vars => IInv'
  BY StepKeeps
<1> QED BY <1>1, InitKeeps, PTL DEF Spec

(* With one writer per model, whatever crashes and fails in between, every *)
(* "<id>.toml" is at every moment one whole manifest of its own id         *)
(* (write_manifest_atomically, validate_model_id).                         *)
THEOREM AlwaysPublishedWhole == Exclusive => (Spec => []PublishedWhole)
<1> SUFFICES ASSUME Exclusive PROVE Spec => []PublishedWhole
  OBVIOUS
<1>1. IInv => PublishedWhole
  BY DEF IInv
<1> QED BY <1>1, Invariance, PTL

(* No get, list, verify or attach ever meets text that does not parse (the *)
(* extension filter of list, the rename of write_manifest_atomically).     *)
THEOREM NeverTomlDecode == Exclusive => (Spec => []ReadersNeverFail)
<1> SUFFICES ASSUME Exclusive PROVE Spec => []ReadersNeverFail
  OBVIOUS
<1>1. IInv => ReadersNeverFail
  BY DEF IInv, LocalInv, ListFacts, ReadersNeverFail
<1> QED BY <1>1, Invariance, PTL
-----------------------------------------------------------------------------
(* The writer's temporary has no other name, and is no manifest. *)
LEMMA TemporaryApart ==
    ASSUME IInv, NEW p \in Proc, pc[p] = "write"
    PROVE  /\ handle[p] \in Inode
           /\ \A s \in Stem : name[s] # handle[p]
<1>1. StemOf(p) \in Stem
  BY WriterStems DEF Writing
<1>2. handle[p] = temp[StemOf(p)] /\ handle[p] \in Inode
  BY DEF IInv, LocalInv, HandleFacts, TypeInv, LocalOK
<1> QED BY <1>1, <1>2, ValueAssumption DEF IInv, Distinct

(* Only a rename changes a published manifest. *)
LEMMA OnlyRenamePublishes ==
    ASSUME IInv, [Next]_vars, \A p \in Proc : ~RenameTemp(p)
    PROVE  \A s \in Stem : Stored(s)' = Stored(s)
<1>1. CASE UNCHANGED <<inode, name>>
  BY <1>1 DEF Stored
<1>2. ASSUME NEW p \in Proc, NEW i \in Inode, OpenTemp(p, i)
      PROVE  \A s \in Stem : Stored(s)' = Stored(s)
  <2>1. StemOf(p) \in Stem
    BY <1>2, WriterStems DEF OpenTemp, Writing
  <2>2. \A s \in Stem : name[s] # i
    BY <1>2, <2>1 DEF OpenTemp, StemOf, Free, IInv, Distinct
  <2> QED BY <1>2, <2>2 DEF OpenTemp, Stored, IInv, TypeInv, TypeOK
<1>3. ASSUME NEW p \in Proc, pc[p] = "write", UNCHANGED name,
             NEW c, inode' = [inode EXCEPT ![handle[p]] = c]
      PROVE  \A s \in Stem : Stored(s)' = Stored(s)
  BY <1>3, TemporaryApart DEF Stored, IInv, TypeInv, TypeOK
<1>4. ASSUME NEW p \in Proc, WriteTemp(p)
      PROVE  \A s \in Stem : Stored(s)' = Stored(s)
  BY <1>3, <1>4 DEF WriteTemp
<1>5. ASSUME NEW p \in Proc, WriteFails(p)
      PROVE  \A s \in Stem : Stored(s)' = Stored(s)
  BY <1>1, <1>3, <1>5 DEF WriteFails
<1> QED
  BY <1>1, <1>2, <1>4, <1>5
  DEF Next, Operation, vars, ImportStart, ImportHash, AttachStart, AttachHash,
      WriteReturns, Get, VerifyStart, VerifyWeights, VerifyTokenizer, ListStart,
      ListRead, ListEnd, Crash, ChangeFile

(* A step in which a process comes to rest is no rename that succeeds. *)
LEMMA RestIsNoRename ==
    ASSUME IInv, [Next]_vars, NEW p \in Proc, pc[p] # "idle", pc'[p] = "idle"
    PROVE  \A s \in Stem : Stored(s)' = Stored(s)
<1>1. ASSUME NEW q \in Proc, RenameTemp(q) PROVE FALSE
  <2>1. PICK r \in Stem : r = StemOf(q)
    BY <1>1, WriterStems DEF RenameTemp, Writing
  <2>2. pc' = [pc EXCEPT ![q] = "renamed"]
    BY <1>1, <2>1, RenameEffect
  <2> QED BY <2>2 DEF IInv, TypeInv, TypeOK
<1> QED BY <1>1, OnlyRenamePublishes

(* Who returns Ok from a write command has published. *)
LEMMA OkMeansPublished ==
    ASSUME IInv, [Next]_vars, NEW p \in Proc, pc[p] \in Writing,
           pc'[p] = "idle", result'[p] = "ok"
    PROVE  pc[p] = "renamed"
<1> USE DEF IInv, TypeInv, TypeOK
<1>1. pc'[p] # pc[p] /\ pc[p] # "idle"
  BY DEF Writing
<1>2. ASSUME NEW q \in Proc, NEW label, NEW m, GoTo(q, label, m),
             label # "idle"
      PROVE  FALSE
  BY <1>1, <1>2 DEF GoTo
<1>3. ASSUME NEW q \in Proc, NEW o, Return(q, o)
      PROVE  q = p /\ o = "ok"
  BY <1>1, <1>3 DEF Return
<1>4. ASSUME NEW q \in Proc, WriteReturns(q) PROVE pc[p] = "renamed"
  BY <1>3, <1>4 DEF WriteReturns
<1>5. ASSUME NEW q \in Proc, WriteTemp(q) \/ ListStart(q) PROVE FALSE
  BY <1>1, <1>5 DEF WriteTemp, ListStart
<1>6. ASSUME NEW q \in Proc, NEW i \in Inode, OpenTemp(q, i) PROVE FALSE
  BY <1>1, <1>6 DEF OpenTemp
<1>7. ASSUME NEW q \in Proc, RenameTemp(q) PROVE FALSE
  <2>1. CASE Return(q, "Io")
    BY <1>3, <2>1
  <2>2. CASE pc' = [pc EXCEPT ![q] = "renamed"]
    BY <1>1, <2>2
  <2> QED BY <1>7, <2>1, <2>2 DEF RenameTemp
<1>8. ASSUME NEW q \in Proc, Operation(q) PROVE pc[p] = "renamed"
  <2>1. ASSUME NEW id \in ModelId, NEW path \in Path, NEW d \in Details,
               ImportStart(q, id, path, d)
        PROVE  FALSE
    BY <1>1, <1>2, <1>3, <2>1 DEF ImportStart
  <2>2. ASSUME NEW id \in ModelId, NEW path \in Path, AttachStart(q, id, path)
        PROVE  FALSE
    BY <1>1, <1>2, <1>3, <2>2 DEF AttachStart
  <2>3. ASSUME ImportHash(q) \/ AttachHash(q) PROVE FALSE
    BY <1>2, <1>3, <2>3 DEF ImportHash, AttachHash
  <2>4. ASSUME NEW id \in ModelId, Get(q, id) \/ VerifyStart(q, id) PROVE FALSE
    BY <1>1, <1>2, <1>3, <2>4 DEF Get, VerifyStart
  <2>5. ASSUME VerifyWeights(q) \/ VerifyTokenizer(q) PROVE FALSE
    <3>1. q = p
      BY <1>2, <1>3, <2>5 DEF VerifyWeights, VerifyTokenizer
    <3> QED BY <2>5, <3>1 DEF VerifyWeights, VerifyTokenizer, Writing
  <2>6. ASSUME WriteFails(q) PROVE FALSE
    BY <1>3, <2>6 DEF WriteFails
  <2>7. ASSUME ListEnd(q) PROVE FALSE
    BY <1>3, <2>7 DEF ListEnd, Writing
  <2>8. ASSUME NEW e \in Entry, ListRead(q, e) PROVE FALSE
    BY <1>1, <1>3, <2>8 DEF ListRead
  <2> QED BY <1>4, <1>5, <1>6, <1>7, <1>8, <2>1, <2>2, <2>3, <2>4, <2>5, <2>6,
             <2>7, <2>8
          DEF Operation
<1>9. ASSUME NEW q \in Proc, Crash(q) PROVE FALSE
  BY <1>3, <1>9 DEF Crash
<1> QED BY <1>1, <1>8, <1>9 DEF Next, vars, ChangeFile

(* What a step of the registry does to the published manifests. *)
LEMMA StepPublishes == ASSUME IInv, [Next]_vars PROVE PublishStep
<1>1. ASSUME NEW s \in Stem, Stored(s)' # Stored(s)
      PROVE  \E p \in Proc : /\ pc[p] = "rename"
                             /\ pc'[p] = "renamed"
                             /\ Stored(s)' = draft[p]
  <2>1. PICK p \in Proc : RenameTemp(p)
    BY <1>1, OnlyRenamePublishes
  <2>2. PICK r \in Stem : r = StemOf(p)
    BY <2>1, WriterStems DEF RenameTemp, Writing
  <2>3. /\ pc[p] = "rename" /\ pc' = [pc EXCEPT ![p] = "renamed"]
        /\ Stored(r)' = draft[p]
        /\ \A t \in Stem : t # r => Stored(t)' = Stored(t)
    BY <2>1, <2>2, RenameEffect
  <2>4. pc'[p] = "renamed"
    BY <2>3 DEF IInv, TypeInv, TypeOK
  <2> QED BY <1>1, <2>3, <2>4
<1>2. ASSUME NEW p \in Proc, NEW s \in Stem,
             pc[p] \in Writing, s = ManifestStem(draft[p].id),
             pc'[p] = "idle", result'[p] = "ok"
      PROVE  Stored(s)' = draft[p]
  <2>1. pc[p] = "renamed"
    BY <1>2, OkMeansPublished
  <2>2. Stored(s) = draft[p]
    BY <1>2, <2>1 DEF IInv, LocalInv, DraftFacts
  <2> QED BY <1>2, <2>1, <2>2, RestIsNoRename
<1> QED BY <1>1, <1>2 DEF PublishStep

(* A manifest changes only in a writer's rename, to that writer's          *)
(* manifest, and that is what stands there when the writer returns Ok      *)
(* (import_local, attach_tokenizer).                                       *)
THEOREM WritersPublishTheirOwn == Exclusive => (Spec => PublishesItsOwnManifest)
<1> SUFFICES ASSUME Exclusive PROVE Spec => PublishesItsOwnManifest
  OBVIOUS
<1>1. IInv /\ [Next]_vars => [PublishStep]_vars
  BY StepPublishes
<1> QED BY <1>1, Invariance, PTL DEF Spec, PublishesItsOwnManifest

(* Every step of the registry is a step of the atomic registers. *)
LEMMA StepOfRegister ==
    ASSUME IInv, [Next]_vars
    PROVE  [Store!Next]_[s \in Stem |-> Stored(s)]
<1> DEFINE published == [s \in Stem |-> Stored(s)]
<1>1. CASE \A p \in Proc : ~RenameTemp(p)
  BY <1>1, OnlyRenamePublishes
<1>2. ASSUME NEW p \in Proc, RenameTemp(p) PROVE Store!Next
  <2>1. PICK r \in Stem : r = StemOf(p)
    BY <1>2, WriterStems DEF RenameTemp, Writing
  <2>2. /\ pc[p] = "rename" /\ draft[p] \in Manifest
        /\ Stored(r)' = draft[p]
        /\ \A t \in Stem : t # r => Stored(t)' = Stored(t)
    BY <1>2, <2>1, RenameEffect
  <2>3. FileStem[draft[p].id] = r
    BY <2>1 DEF StemOf, ManifestStem
  <2>4. published' = [published EXCEPT ![r] = draft[p]]
    BY <2>2
  <2>5. Fresh(draft[p]) \/ (name[r] # None /\ Attached(draft[p], Stored(r)))
    BY <2>1, <2>2 DEF IInv, LocalInv, DraftFacts, StemOf
  <2>6. CASE Fresh(draft[p])
    <3>1. Store!Import(r)
      BY <2>2, <2>3, <2>4, <2>6 DEF Store!Import, Store!Manifest, Manifest,
         Store!Digest, Digest, Store!Sha256, Sha256, Fresh, WeightsPaths
    <3> QED BY <3>1 DEF Store!Next
  <2>7. CASE name[r] # None /\ Attached(draft[p], Stored(r))
    <3>1. published[r] # None
      BY <2>7, StoredTypes, ValueAssumption DEF IInv
    <3>2. PICK path \in Path, digest \in Digest :
              draft[p] = WithTokenizer(Stored(r), path, digest)
      BY <2>7 DEF Attached
    <3>3. published' = [published EXCEPT
                           ![r] = WithTokenizer(published[r], path, digest)]
      BY <2>4, <3>2
    <3>4. Store!Attach(r)
      BY <3>1, <3>2, <3>3 DEF Store!Attach, Store!WithTokenizer,
         WithTokenizer, Store!Digest, Digest, Store!Sha256, Sha256
    <3> QED BY <3>4 DEF Store!Next
  <2> QED BY <2>5, <2>6, <2>7
<1> QED BY <1>1, <1>2

(* The registry implements the atomic registers: every import is one write *)
(* and every attachment one read-modify-write of the manifest.             *)
THEOREM Refinement == Exclusive => (Spec => AtomicRegister)
<1> SUFFICES ASSUME Exclusive PROVE Spec => AtomicRegister
  OBVIOUS
<1> DEFINE published == [s \in Stem |-> Stored(s)]
<1>1. Init => Store!Init
  BY DEF Init, Store!Init, Stored
<1>2. IInv /\ [Next]_vars => [Store!Next]_published
  BY StepOfRegister
<1> QED BY <1>1, <1>2, Invariance, PTL DEF Spec, AtomicRegister, Store!Spec
-----------------------------------------------------------------------------
CommandTypes ==
    /\ command \in [Proc -> Pull \cup {None}]
    /\ \A p \in Proc :
           command[p] # None /\ command[p].step \in {"attach", "attaching"} =>
               command[p].tokenizer # None

(* A step of a pull that is no step of the registry: a download, or the    *)
(* report of one that failed, before the import or after it.               *)
Quiet ==
    /\ UNCHANGED <<inode, name, temp, pc, draft, handle, todo>>
    /\ \/ UNCHANGED result /\ \E path \in Path : Download(path)
       \/ /\ UNCHANGED file
          /\ \E p \in Proc : result' = [result EXCEPT ![p] = "HuggingFaceHub"]
-----------------------------------------------------------------------------
LEMMA CommandInitTypes == CommandInit => CommandTypes
BY DEF CommandInit, CommandTypes

(* The pull's own variable. *)
LEMMA CommandStepTypes ==
    ASSUME CommandTypes, [CommandNext]_commandVars
    PROVE  CommandTypes'
<1> USE DEF CommandTypes
<1>1. ASSUME NEW p \in Proc, NEW args \in PullArgs, PullStart(p, args)
      PROVE  CommandTypes'
  <2>1. [step |-> "import", id |-> args.id, weights |-> args.weights,
         details |-> args.details, tokenizer |-> args.tokenizer] \in Pull
    BY PullAssumption DEF Pull
  <2>2. CASE UNCHANGED command
    BY <2>2
  <2> QED BY <1>1, <2>1, <2>2 DEF PullStart
<1>2. ASSUME NEW p \in Proc, PullImport(p) PROVE CommandTypes'
  BY <1>2 DEF PullImport, At, Enter, Pull
<1>3. ASSUME NEW p \in Proc, PullTokenizer(p) PROVE CommandTypes'
  <2>1. CASE Enter(p, "attach")
    BY <1>3, <2>1 DEF PullTokenizer, At, Enter, Pull
  <2>2. CASE End(p)
    BY <2>2 DEF End
  <2> QED BY <1>3, <2>1, <2>2 DEF PullTokenizer
<1>4. ASSUME NEW p \in Proc, PullAttach(p) PROVE CommandTypes'
  BY <1>4 DEF PullAttach, At, Enter, Pull
<1>5. ASSUME NEW p \in Proc, PullFails(p) \/ PullEnds(p) \/ Killed(p)
      PROVE  CommandTypes'
  BY <1>5 DEF PullFails, PullEnds, Killed, End
<1>6. CASE UNCHANGED command
  BY <1>6
<1> QED
  BY <1>1, <1>2, <1>3, <1>4, <1>5, <1>6 DEF CommandNext, Call, commandVars

(* A pull touches the registry through the registry's calls only. *)
LEMMA CommandStep ==
    ASSUME CommandTypes, [CommandNext]_commandVars
    PROVE  [Next]_vars \/ Quiet
<1>1. ASSUME NEW p \in Proc, NEW args \in PullArgs, PullStart(p, args)
      PROVE  Quiet
  <2>1. args.weights \in Path
    BY PullAssumption
  <2> QED BY <1>1, <2>1 DEF PullStart, Quiet
<1>2. ASSUME NEW p \in Proc, PullImport(p) PROVE Next
  <2>1. command[p] \in Pull
    BY <1>2 DEF PullImport, At, CommandTypes
  <2>2. /\ command[p].id \in ModelId /\ command[p].weights \in Path
        /\ command[p].details \in Details
    BY <2>1 DEF Pull
  <2> QED BY <1>2, <2>2 DEF PullImport, Next, Operation
<1>3. ASSUME NEW p \in Proc, PullTokenizer(p) PROVE Quiet
  <2>1. command[p] \in Pull /\ command[p].tokenizer # None
    BY <1>3 DEF PullTokenizer, At, CommandTypes
  <2>2. command[p].tokenizer \in Path
    BY <2>1 DEF Pull
  <2> QED BY <1>3, <2>2 DEF PullTokenizer, Quiet
<1>4. ASSUME NEW p \in Proc, PullAttach(p) PROVE Next
  <2>1. command[p] \in Pull /\ command[p].tokenizer # None
    BY <1>4 DEF PullAttach, At, CommandTypes
  <2>2. command[p].id \in ModelId /\ command[p].tokenizer \in Path
    BY <2>1 DEF Pull
  <2> QED BY <1>4, <2>2 DEF PullAttach, Next, Operation
<1>5. ASSUME NEW p \in Proc, PullFails(p) \/ PullEnds(p) PROVE UNCHANGED vars
  BY <1>5 DEF PullFails, PullEnds
<1>6. ASSUME NEW p \in Proc, Call(p) \/ Killed(p) PROVE Next
  BY <1>6 DEF Call, Killed, Next
<1>7. ASSUME NEW path \in MutablePath, ChangeFile(path) PROVE Next
  BY <1>7 DEF Next
<1> QED
  BY <1>1, <1>2, <1>3, <1>4, <1>5, <1>6, <1>7 DEF CommandNext, commandVars

LEMMA QuietTypes == TypeInv /\ Quiet => TypeInv'
<1> SUFFICES ASSUME TypeInv, Quiet PROVE TypeInv'
  OBVIOUS
<1>1. file' \in [Path -> FileContent]
  BY DEF Quiet, Download, TypeInv, TypeOK, FileContent
<1>2. result' \in [Proc -> Outcome]
  BY DEF Quiet, TypeInv, TypeOK, Outcome
<1>3. TypeOK'
  BY <1>1, <1>2 DEF TypeInv, TypeOK, Quiet
<1>4. \A p \in Proc : LocalOK(p)'
  BY DEF LocalOK, TypeInv, Quiet
<1> QED BY <1>3, <1>4 DEF TypeInv

LEMMA QuietKeeps == IInv /\ Quiet => IInv'
<1> SUFFICES ASSUME IInv, Quiet PROVE IInv'
  OBVIOUS
<1>1. TypeInv'
  BY QuietTypes DEF IInv
<1>2. \A q \in Proc : result'[q] \in {result[q], "HuggingFaceHub"}
  BY DEF Quiet, IInv, TypeInv, TypeOK
<1> QED BY <1>1, <1>2, IdleKeeps DEF Quiet

(* Every variable of the registry keeps its type while any number of       *)
(* processes pull, import, attach, verify and list, concurrent writers of  *)
(* one model included (registry.rs under main.rs).                         *)
THEOREM CommandTypeCorrect == CommandSpec => []TypeOK
<1>1. CommandInit => CommandTypes /\ TypeInv
  BY CommandInitTypes, InitTypes DEF CommandInit
<1>2. CommandTypes /\ TypeInv /\ [CommandNext]_commandVars
      => (CommandTypes /\ TypeInv)'
  BY CommandStep, CommandStepTypes, StepTypes, QuietTypes
<1>3. TypeInv => TypeOK
  BY DEF TypeInv
<1> QED BY <1>1, <1>2, <1>3, PTL DEF CommandSpec

LEMMA CommandInvariance ==
    ASSUME Exclusive PROVE CommandSpec => [](CommandTypes /\ IInv)
<1>1. CommandInit => CommandTypes /\ IInv
  BY CommandInitTypes, InitKeeps DEF CommandInit
<1>2. CommandTypes /\ IInv /\ [CommandNext]_commandVars
      => (CommandTypes /\ IInv)'
  BY CommandStep, CommandStepTypes, StepKeeps, QuietKeeps
<1> QED BY <1>1, <1>2, PTL DEF CommandSpec

(* With pulls among the calls and one write command per model at a time,   *)
(* what stands under a model's name is always one whole manifest of it     *)
(* (write_manifest_atomically, validate_model_id).                         *)
THEOREM PulledManifestsAreWhole == Exclusive => (CommandSpec => []PublishedWhole)
<1> SUFFICES ASSUME Exclusive PROVE CommandSpec => []PublishedWhole
  OBVIOUS
<1>1. IInv => PublishedWhole
  BY DEF IInv
<1> QED BY <1>1, CommandInvariance, PTL

(* No get, list, verify or attach fails on text that does not parse, those *)
(* inside a pull included (the extension filter of list).                  *)
THEOREM ReadersNeverFailWithPulls ==
    Exclusive => (CommandSpec => []ReadersNeverFail)
<1> SUFFICES ASSUME Exclusive PROVE CommandSpec => []ReadersNeverFail
  OBVIOUS
<1>1. IInv => ReadersNeverFail
  BY DEF IInv, LocalInv, ListFacts, ReadersNeverFail
<1> QED BY <1>1, CommandInvariance, PTL

(* Quiet steps change no manifest and end no call. *)
LEMMA QuietPublishesNothing ==
    ASSUME Quiet
    PROVE  PublishStep /\ \A s \in Stem : Stored(s)' = Stored(s)
<1>1. \A s \in Stem : Stored(s)' = Stored(s)
  BY DEF Stored, Quiet
<1>2. \A p \in Proc : pc'[p] = pc[p]
  BY DEF Quiet
<1> QED BY <1>1, <1>2 DEF PublishStep, Writing

(* A manifest changes only in a writer's rename, to the manifest that this *)
(* writer built, which stands when it returns Ok, whether the writer is a  *)
(* pull or a call of its own (write_manifest_atomically).                  *)
THEOREM PullsPublishTheirOwn ==
    Exclusive => (CommandSpec => PublishesItsOwnManifest)
<1> SUFFICES ASSUME Exclusive PROVE CommandSpec => PublishesItsOwnManifest
  OBVIOUS
<1>1. CommandTypes /\ IInv /\ [CommandNext]_commandVars => [PublishStep]_vars
  BY CommandStep, StepPublishes, QuietPublishesNothing
<1> QED BY <1>1, CommandInvariance, PTL DEF CommandSpec, PublishesItsOwnManifest

(* The registry with its command line implements the atomic registers: a   *)
(* pull is an import's write and then at most one read-modify-write.       *)
THEOREM CommandRefinement == Exclusive => (CommandSpec => AtomicRegister)
<1> SUFFICES ASSUME Exclusive PROVE CommandSpec => AtomicRegister
  OBVIOUS
<1> DEFINE published == [s \in Stem |-> Stored(s)]
<1>1. CommandInit => Store!Init
  BY DEF CommandInit, Init, Store!Init, Stored
<1>2. CommandTypes /\ IInv /\ [CommandNext]_commandVars
      => [Store!Next]_published
  BY CommandStep, StepOfRegister, QuietPublishesNothing
<1> QED BY <1>1, <1>2, CommandInvariance, PTL
        DEF CommandSpec, AtomicRegister, Store!Spec
-----------------------------------------------------------------------------
(* What a manifest has to do with the pull that left it. *)
LeftBy(pull, manifest, tokenizer) ==
    AsPulled(pull, manifest) /\ manifest.tokenizer = tokenizer

AskedBy(pull, draftOf, tokenizer) ==
    /\ draftOf.id = pull.id
    /\ draftOf.weights = pull.weights
    /\ draftOf.details = pull.details
    /\ draftOf.tokenizer = tokenizer

(* Nobody writes or pulls the model of a pull but that pull. *)
PullAlone ==
    \A p, q \in Proc :
        p # q /\ command[p] # None =>
            /\ command[q] # None => command[q].id # command[p].id
            /\ pc[q] \in Writing => draft[q].id # command[p].id

(* What the local manifest, the last result and the registered manifest    *)
(* have to do with the pull, given what a process is doing.                *)
ImportFacts(pull, label, local, outcome, manifest) ==
    /\ label \in {"idle", "hash_weights", "open", "write", "rename", "renamed"}
    /\ label # "idle" => AskedBy(pull, local, None)
    /\ label = "renamed" \/ (label = "idle" /\ outcome = "ok") =>
           LeftBy(pull, manifest, None)

AttachFacts(pull, label, local, outcome, manifest) ==
    /\ label \in {"idle", "hash_tokenizer", "open", "write", "rename", "renamed"}
    /\ label # "idle" => AskedBy(pull, local, pull.tokenizer)
    /\ LeftBy(pull, manifest,
              IF label = "renamed" \/ (label = "idle" /\ outcome = "ok")
              THEN pull.tokenizer ELSE None)

FactsOf(pull, label, local, outcome, manifest) ==
    /\ pull.step \in {"import", "attach"} => label = "idle"
    /\ pull.step = "importing" =>
           ImportFacts(pull, label, local, outcome, manifest)
    /\ pull.step = "attach" => LeftBy(pull, manifest, None)
    /\ pull.step = "attaching" =>
           AttachFacts(pull, label, local, outcome, manifest)

PullFacts(p) ==
    command[p] # None =>
        FactsOf(command[p], pc[p], draft[p], result[p],
                Stored(ManifestStem(command[p].id)))

PullInv == PullAlone /\ \A p \in Proc : PullFacts(p)
-----------------------------------------------------------------------------
(* A call leaves the locals of the other processes alone. *)
LEMMA CallFrame ==
    ASSUME TypeOK, NEW q \in Proc, Operation(q), NEW p \in Proc, p # q
    PROVE  pc'[p] = pc[p] /\ draft'[p] = draft[p] /\ result'[p] = result[p]
<1> USE DEF TypeOK
<1>1. ASSUME NEW label, NEW m, GoTo(q, label, m)
      PROVE  pc'[p] = pc[p] /\ draft'[p] = draft[p] /\ result'[p] = result[p]
  BY <1>1 DEF GoTo
<1>2. ASSUME NEW o, Return(q, o)
      PROVE  pc'[p] = pc[p] /\ draft'[p] = draft[p] /\ result'[p] = result[p]
  BY <1>2 DEF Return
<1>3. ASSUME NEW id \in ModelId, NEW path \in Path, NEW d \in Details,
             ImportStart(q, id, path, d)
      PROVE  pc'[p] = pc[p] /\ draft'[p] = draft[p] /\ result'[p] = result[p]
  BY <1>1, <1>2, <1>3 DEF ImportStart
<1>4. ASSUME NEW id \in ModelId, NEW path \in Path, AttachStart(q, id, path)
      PROVE  pc'[p] = pc[p] /\ draft'[p] = draft[p] /\ result'[p] = result[p]
  BY <1>1, <1>2, <1>4 DEF AttachStart
<1>5. ASSUME ImportHash(q) \/ AttachHash(q)
      PROVE  pc'[p] = pc[p] /\ draft'[p] = draft[p] /\ result'[p] = result[p]
  BY <1>1, <1>2, <1>5 DEF ImportHash, AttachHash
<1>6. ASSUME NEW i \in Inode, OpenTemp(q, i)
      PROVE  pc'[p] = pc[p] /\ draft'[p] = draft[p] /\ result'[p] = result[p]
  BY <1>6 DEF OpenTemp
<1>7. ASSUME WriteTemp(q) \/ ListStart(q)
      PROVE  pc'[p] = pc[p] /\ draft'[p] = draft[p] /\ result'[p] = result[p]
  BY <1>7 DEF WriteTemp, ListStart
<1>8. ASSUME WriteFails(q) \/ WriteReturns(q) \/ ListEnd(q)
      PROVE  pc'[p] = pc[p] /\ draft'[p] = draft[p] /\ result'[p] = result[p]
  BY <1>2, <1>8 DEF WriteFails, WriteReturns, ListEnd
<1>12. ASSUME RenameTemp(q)
       PROVE  pc'[p] = pc[p] /\ draft'[p] = draft[p] /\ result'[p] = result[p]
  <2>1. CASE Return(q, "Io")
    BY <1>2, <2>1
  <2>2. CASE /\ pc' = [pc EXCEPT ![q] = "renamed"]
             /\ draft' = draft /\ result' = result
    BY <2>2
  <2> QED BY <1>12, <2>1, <2>2 DEF RenameTemp
<1>9. ASSUME NEW id \in ModelId, Get(q, id) \/ VerifyStart(q, id)
      PROVE  pc'[p] = pc[p] /\ draft'[p] = draft[p] /\ result'[p] = result[p]
  BY <1>1, <1>2, <1>9 DEF Get, VerifyStart
<1>10. ASSUME VerifyWeights(q) \/ VerifyTokenizer(q)
       PROVE  pc'[p] = pc[p] /\ draft'[p] = draft[p] /\ result'[p] = result[p]
  BY <1>1, <1>2, <1>10 DEF VerifyWeights, VerifyTokenizer
<1>11. ASSUME NEW e \in Entry, ListRead(q, e)
       PROVE  pc'[p] = pc[p] /\ draft'[p] = draft[p] /\ result'[p] = result[p]
  BY <1>2, <1>11 DEF ListRead
<1> QED
  BY <1>3, <1>4, <1>5, <1>6, <1>7, <1>8, <1>9, <1>10, <1>11, <1>12
  DEF Operation

(* The steps of a write command, after its start. *)
Fails(p) ==
    /\ pc[p] # "renamed" /\ pc'[p] = "idle"
    /\ result'[p] # "ok"
    /\ \A s \in Stem : Stored(s)' = Stored(s)

Hashes(p) ==
    /\ pc'[p] = "open"
    /\ \A s \in Stem : Stored(s)' = Stored(s)
    /\ \/ /\ pc[p] = "hash_weights"
          /\ \E d \in Digest : draft'[p] = WithDigest(draft[p], d)
       \/ /\ pc[p] = "hash_tokenizer"
          /\ \E d \in Digest :
                 draft'[p] = WithTokenizer(draft[p], draft[p].tokenizer, d)

Writes(p) ==
    /\ \/ pc[p] = "open" /\ pc'[p] = "write"
       \/ pc[p] = "write" /\ pc'[p] = "rename"
    /\ draft'[p] = draft[p]
    /\ \A s \in Stem : Stored(s)' = Stored(s)

Renames(p) ==
    /\ pc[p] = "rename" /\ pc'[p] = "renamed"
    /\ draft'[p] = draft[p]
    /\ RenameTemp(p)

Returns(p) ==
    /\ pc[p] = "renamed" /\ pc'[p] = "idle"
    /\ result'[p] = "ok"
    /\ \A s \in Stem : Stored(s)' = Stored(s)

LEMMA CallMoves ==
    ASSUME IInv, NEW p \in Proc, Operation(p), pc[p] \in Writing
    PROVE  Fails(p) \/ Hashes(p) \/ Writes(p) \/ Renames(p) \/ Returns(p)
<1> USE DEF IInv, TypeInv, TypeOK
<1>0. ASSUME NEW q \in Proc, RenameTemp(q)
      PROVE  /\ pc[q] = "rename" /\ pc'[q] = "renamed"
             /\ draft'[q] = draft[q]
  <2>1. PICK r \in Stem : r = StemOf(q)
    BY <1>0, WriterStems DEF RenameTemp, Writing
  <2>2. /\ pc[q] = "rename" /\ draft' = draft
        /\ pc' = [pc EXCEPT ![q] = "renamed"]
    BY <1>0, <2>1, RenameEffect
  <2> QED BY <2>2
<1>1. CASE RenameTemp(p)
  BY <1>0, <1>1 DEF Renames
<1>2. CASE ~RenameTemp(p)
  <2>1. \A q \in Proc : ~RenameTemp(q)
    <3>1. ASSUME NEW q \in Proc, q # p, RenameTemp(q) PROVE FALSE
      <4>1. pc[q] = "rename" /\ pc'[q] = "renamed"
        BY <1>0, <3>1
      <4> QED BY <3>1, <4>1, CallFrame
    <3> QED BY <1>2, <3>1
  <2>2. \A s \in Stem : Stored(s)' = Stored(s)
    BY <2>1, OnlyRenamePublishes DEF Next
  <2>3. ASSUME NEW o, Return(p, o), o # "ok", pc[p] # "renamed" PROVE Fails(p)
    BY <2>2, <2>3 DEF Fails, Return
  <2>4. ASSUME ImportHash(p) \/ AttachHash(p) PROVE Fails(p) \/ Hashes(p)
    <3>1. CASE Return(p, "Io")
      BY <2>3, <2>4, <3>1 DEF ImportHash, AttachHash
    <3>2. CASE ImportHash(p) /\ IsFile(draft[p].weights)
      <4>1. Sha256(file[draft[p].weights]) \in Digest
        <5>1. draft[p] \in Draft
          BY <3>2 DEF ImportHash, LocalOK, Writing
        <5> QED BY <3>2, <5>1, DigestOfFile DEF Draft
      <4> QED BY <2>2, <3>2, <4>1 DEF ImportHash, GoTo, Hashes
    <3>3. CASE AttachHash(p) /\ IsFile(draft[p].tokenizer)
      <4>1. Sha256(file[draft[p].tokenizer]) \in Digest
        BY <3>3, DigestOfFile DEF AttachHash, LocalOK
      <4> QED BY <2>2, <3>3, <4>1 DEF AttachHash, GoTo, Hashes
    <3> QED BY <2>4, <3>1, <3>2, <3>3 DEF ImportHash, AttachHash
  <2>5. ASSUME NEW i \in Inode, OpenTemp(p, i) PROVE Writes(p)
    BY <2>2, <2>5 DEF OpenTemp, Writes
  <2>6. ASSUME WriteTemp(p) PROVE Writes(p)
    BY <2>2, <2>6 DEF WriteTemp, Writes
  <2>7. ASSUME WriteFails(p) PROVE Fails(p)
    BY <2>3, <2>7 DEF WriteFails
  <2>8. ASSUME WriteReturns(p) PROVE Returns(p)
    BY <2>2, <2>8 DEF WriteReturns, Return, Returns
  <2> QED
    BY <1>2, <2>4, <2>5, <2>6, <2>7, <2>8
    DEF Operation, Writing, ImportStart, AttachStart, Get, VerifyStart,
        VerifyWeights, VerifyTokenizer, ListStart, ListEnd, ListRead
<1> QED BY <1>1, <1>2

(* A process that is not writing starts to only from "idle". *)
LEMMA OnlyIdleStarts ==
    ASSUME TypeOK, NEW p \in Proc, Operation(p), pc[p] \notin Writing,
           pc'[p] \in Writing
    PROVE  pc[p] = "idle"
<1> USE DEF TypeOK, Writing
<1>1. ASSUME NEW o, Return(p, o) PROVE FALSE
  BY <1>1 DEF Return
<1>2. ASSUME VerifyWeights(p) \/ VerifyTokenizer(p) PROVE FALSE
  BY <1>1, <1>2 DEF VerifyWeights, VerifyTokenizer, GoTo
<1>3. ASSUME NEW e \in Entry, ListRead(p, e) PROVE FALSE
  BY <1>1, <1>3 DEF ListRead
<1>4. ASSUME ListEnd(p) PROVE FALSE
  BY <1>1, <1>4 DEF ListEnd
<1> QED
  BY <1>2, <1>3, <1>4
  DEF Operation, ImportStart, AttachStart, ImportHash, AttachHash, OpenTemp,
      WriteTemp, WriteFails, RenameTemp, WriteReturns, Get, VerifyStart,
      ListStart
-----------------------------------------------------------------------------
LEMMA LeftIsValid ==
    ASSUME IInv, NEW pull \in Pull, NEW tokenizer,
           LeftBy(pull, Stored(ManifestStem(pull.id)), tokenizer)
    PROVE  pull.id \in ValidId
<1>1. ManifestStem(pull.id) \in Stem
  BY StemAssumption DEF ManifestStem, Pull
<1>2. Stored(ManifestStem(pull.id)) # None
  BY ValueAssumption DEF LeftBy, AsPulled
<1>3. name[ManifestStem(pull.id)] # None
  BY <1>2 DEF Stored
<1> QED BY <1>1, <1>3 DEF LeftBy, AsPulled, IInv, PublishedWhole

(* Nobody but the pull itself changes the manifest it has left, or has     *)
(* found at its start when its id is an accepted one.                      *)
LEMMA OthersLeaveIt ==
    ASSUME IInv, PullAlone, [Next]_vars, NEW p \in Proc, ~RenameTemp(p),
           NEW pull \in Pull, command[p] # None, command[p] = pull,
           pull.id \in ValidId, NEW s \in Stem, s = ManifestStem(pull.id)
    PROVE  Stored(s)' = Stored(s)
<1>1. CASE \A q \in Proc : ~RenameTemp(q)
  BY <1>1, OnlyRenamePublishes
<1>2. ASSUME NEW q \in Proc, RenameTemp(q) PROVE Stored(s)' = Stored(s)
  <2>1. PICK r \in Stem : r = StemOf(q)
    BY <1>2, WriterStems DEF RenameTemp, Writing
  <2>2. /\ pc[q] \in Writing /\ draft[q].id \in ValidId
        /\ \A t \in Stem : t # r => Stored(t)' = Stored(t)
    BY <1>2, <2>1, RenameEffect DEF Writing
  <2>3. draft[q].id # pull.id
    BY <1>2, <2>2 DEF PullAlone
  <2>4. r # s
    BY <2>1, <2>2, <2>3, StemAssumption DEF StemOf, ManifestStem
  <2> QED BY <2>2, <2>4
<1> QED BY <1>1, <1>2

(* What is true of a pull stays true while neither the pull nor its        *)
(* process moves.                                                          *)
LEMMA FactsStay ==
    ASSUME CommandTypes, IInv, PullInv, [Next]_vars \/ Quiet,
           NEW p \in Proc, command'[p] = command[p], pc'[p] = pc[p],
           draft'[p] = draft[p], result'[p] = result[p]
    PROVE  PullFacts(p)'
<1>1. CASE command[p] = None
  BY <1>1 DEF PullFacts
<1>2. CASE command[p] # None
  <2>1. PICK pull \in Pull : pull = command[p]
    BY <1>2 DEF CommandTypes
  <2>2. PICK s \in Stem : s = ManifestStem(pull.id)
    BY StemAssumption DEF ManifestStem, Pull
  <2>3. FactsOf(pull, pc[p], draft[p], result[p], Stored(s))
    BY <1>2, <2>1, <2>2 DEF PullInv, PullFacts
  <2>4. ~RenameTemp(p)
    <3>1. ASSUME RenameTemp(p) PROVE pc[p] = "rename" /\ pc'[p] # "rename"
      BY <3>1 DEF RenameTemp, Return, IInv, TypeInv, TypeOK
    <3> QED BY <3>1
  <2>5. CASE pull.id \in ValidId
    <3>1. Stored(s)' = Stored(s)
      BY <1>2, <2>1, <2>2, <2>4, <2>5, OthersLeaveIt, QuietPublishesNothing
      DEF PullInv
    <3>2. FactsOf(pull, pc'[p], draft'[p], result'[p], Stored(s)')
      BY <2>3, <3>1
    <3> QED BY <2>1, <2>2, <3>2 DEF PullFacts
  <2>6. CASE pull.id \notin ValidId
    <3>1. \A t : ~LeftBy(pull, Stored(s), t)
      BY <2>2, <2>6, LeftIsValid
    <3>2. FactsOf(pull, pc'[p], draft'[p], result'[p], Stored(s)')
      BY <2>3, <3>1 DEF FactsOf, ImportFacts, AttachFacts
    <3> QED BY <2>1, <2>2, <3>2 DEF PullFacts
  <2> QED BY <2>5, <2>6
<1> QED BY <1>1, <1>2

(* A step inside a pull's call. *)
LEMMA FactsMove ==
    ASSUME CommandTypes, IInv, IInv', PullInv, NEW p \in Proc, Operation(p),
           command[p] # None, pc[p] # "idle", command'[p] = command[p]
    PROVE  PullFacts(p)'
<1>1. PICK pull \in Pull : pull = command[p]
  BY DEF CommandTypes
<1>2. PICK s \in Stem : s = ManifestStem(pull.id)
  BY StemAssumption DEF ManifestStem, Pull
<1>3. FactsOf(pull, pc[p], draft[p], result[p], Stored(s))
  BY <1>1, <1>2 DEF PullInv, PullFacts
<1>4. /\ pull.step \in {"importing", "attaching"}
      /\ pc[p] \in Writing
  BY <1>3 DEF FactsOf, ImportFacts, AttachFacts, Writing, Pull
<1>5. draft[p] \in Draft /\ draft[p].id = pull.id
  BY <1>3, <1>4, WriterStems DEF FactsOf, ImportFacts, AttachFacts, AskedBy
<1> SUFFICES FactsOf(pull, pc'[p], draft'[p], result'[p], Stored(s)')
  BY <1>1, <1>2 DEF PullFacts
<1> USE DEF FactsOf, ImportFacts, AttachFacts
<1>6. CASE Fails(p)
  BY <1>3, <1>4, <1>6 DEF Fails
<1>7. CASE Hashes(p)
  <2>1. /\ Stored(s)' = Stored(s)
        /\ pc[p] # "renamed" /\ pc'[p] = "open"
    BY <1>7 DEF Hashes
  <2>2. ASSUME pull.step = "importing"
        PROVE  AskedBy(pull, draft'[p], None)
    <3>1. PICK d \in Digest : draft'[p] = WithDigest(draft[p], d)
      BY <1>3, <1>7, <2>2 DEF Hashes
    <3> QED BY <1>3, <1>4, <1>5, <2>2, <3>1 DEF AskedBy, WithDigest, Draft,
               Writing
  <2>3. ASSUME pull.step = "attaching"
        PROVE  AskedBy(pull, draft'[p], pull.tokenizer)
    <3>1. PICK d \in Digest :
              draft'[p] = WithTokenizer(draft[p], draft[p].tokenizer, d)
      BY <1>3, <1>7, <2>3 DEF Hashes
    <3> QED BY <1>3, <1>4, <1>5, <2>3, <3>1 DEF AskedBy, WithTokenizer, Draft,
               Writing
  <2> QED BY <1>3, <1>4, <2>1, <2>2, <2>3 DEF Writing
<1>8. CASE Writes(p)
  BY <1>3, <1>4, <1>8 DEF Writes
<1>9. CASE Renames(p)
  <2>1. s = StemOf(p)
    BY <1>2, <1>5 DEF StemOf
  <2>2. draft[p] \in Manifest /\ Stored(s)' = draft[p]
    BY <1>9, <2>1, RenameEffect DEF Renames
  <2>3. pc'[p] = "renamed" /\ draft'[p] = draft[p]
    BY <1>9 DEF Renames
  <2>4. \A t : AskedBy(pull, draft[p], t) => LeftBy(pull, Stored(s)', t)
    BY <2>2 DEF AskedBy, LeftBy, AsPulled
  <2>5. pc[p] # "idle"
    OBVIOUS
  <2> QED BY <1>3, <1>4, <2>3, <2>4, <2>5
<1>10. CASE Returns(p)
  BY <1>3, <1>4, <1>10 DEF Returns
<1> QED BY <1>4, <1>6, <1>7, <1>8, <1>9, <1>10, CallMoves
-----------------------------------------------------------------------------
(* Nobody joins a pull on its model: no new pull, and no new writer.       *)
LEMMA StillAlone ==
    ASSUME PullAlone,
           \A p \in Proc : command'[p] # None =>
               command[p] # None /\ command'[p].id = command[p].id,
           \A q \in Proc : pc'[q] \in Writing =>
               \/ pc[q] \in Writing /\ draft'[q].id = draft[q].id
               \/ \A r \in Proc \ {q} :
                      command[r] # None => command[r].id # draft'[q].id
    PROVE  PullAlone'
BY DEF PullAlone, Writing

(* One process moves in a call of its own or of its pull. *)
LEMMA AloneInCall ==
    ASSUME Exclusive, CommandTypes, IInv, PullAlone,
           NEW p \in Proc, Operation(p),
           pc[p] = "idle" /\ pc'[p] \in Writing =>
               \A r \in Proc \ {p} :
                   command[r] # None => command[r].id # draft'[p].id,
           \A q \in Proc : command'[q] # None =>
               command[q] # None /\ command'[q].id = command[q].id
    PROVE  PullAlone'
<1>1. \A q \in Proc \ {p} : pc'[q] = pc[q] /\ draft'[q] = draft[q]
  BY CallFrame DEF IInv, TypeInv
<1>2. ASSUME pc[p] \in Writing, pc'[p] \in Writing
      PROVE  draft'[p].id = draft[p].id
  <2>1. draft[p] \in Draft
    BY <1>2, WriterStems
  <2>2. CASE Hashes(p)
    BY <2>1, <2>2, DigestTypes, TokenizerTypes DEF Hashes, WithDigest,
       WithTokenizer, Draft
  <2>3. ~Fails(p) /\ ~Returns(p)
    BY <1>2 DEF Fails, Returns, Writing
  <2> QED BY <1>2, <2>2, <2>3, CallMoves DEF Writes, Renames
<1>3. pc[p] \in Writing \/ pc'[p] \notin Writing \/ pc[p] = "idle"
  BY OnlyIdleStarts DEF IInv, TypeInv
<1> QED BY <1>1, <1>2, <1>3, StillAlone

LEMMA PullStartKeeps ==
    ASSUME Exclusive, CommandTypes, IInv, PullInv, Quiet,
           NEW p \in Proc, NEW args \in PullArgs, PullStart(p, args)
    PROVE  PullInv'
<1>1. /\ pc' = pc /\ draft' = draft
      /\ command[p] = None /\ pc[p] = "idle"
      /\ \A q \in Proc \ {p} :
             command'[q] = command[q] /\ result'[q] = result[q]
      /\ \/ command'[p] = None
         \/ command'[p].id = args.id /\ command'[p].step = "import"
  BY DEF PullStart, CommandTypes, IInv, TypeInv, TypeOK
<1>2. \A q \in Proc \ {p} :
          /\ pc[q] \in Writing => draft[q].id # args.id
          /\ command[q] # None => command[q].id # args.id
  BY DEF PullStart, MayWrite, NotPulled
<1>3. PullAlone'
  BY <1>1, <1>2 DEF PullAlone, PullInv, Writing
<1>4. PullFacts(p)'
  BY <1>1 DEF PullFacts, FactsOf
<1>5. \A q \in Proc \ {p} : PullFacts(q)'
  BY <1>1, FactsStay
<1> QED BY <1>3, <1>4, <1>5 DEF PullInv

LEMMA PullImportKeeps ==
    ASSUME Exclusive, CommandTypes, IInv, PullInv, Next,
           NEW p \in Proc, PullImport(p)
    PROVE  PullInv'
<1>1. PICK pull \in Pull : pull = command[p]
  BY DEF PullImport, At, CommandTypes
<1>2. /\ ImportStart(p, pull.id, pull.weights, pull.details)
      /\ command[p] # None /\ pc[p] = "idle"
      /\ \A q \in Proc \ {p} : command'[q] = command[q]
      /\ command'[p] = [pull EXCEPT !.step = "importing"]
  BY <1>1 DEF PullImport, At, Enter, CommandTypes
<1>3. Operation(p)
  BY <1>1, <1>2 DEF Operation, Pull
<1>4. \/ pc'[p] = "idle" /\ result'[p] # "ok"
      \/ /\ pc'[p] = "hash_weights"
         /\ draft'[p] = Imported(pull.id, pull.weights, pull.details)
  BY <1>2 DEF ImportStart, Return, GoTo, IInv, TypeInv, TypeOK
<1>5. PullAlone'
  <2>1. pc'[p] \in Writing => draft'[p].id = pull.id
    BY <1>4 DEF Writing, Imported
  <2>2. \A r \in Proc \ {p} : command[r] # None => command[r].id # pull.id
    BY <1>1, <1>2 DEF PullInv, PullAlone
  <2>3. \A q \in Proc : command'[q] # None =>
            command[q] # None /\ command'[q].id = command[q].id
    BY <1>1, <1>2 DEF Pull
  <2> QED BY <1>3, <2>1, <2>2, <2>3, AloneInCall DEF PullInv
<1>6. PullFacts(p)'
  <2>1. command'[p].step = "importing" /\ command'[p].id = pull.id
        /\ command'[p].weights = pull.weights
        /\ command'[p].details = pull.details
    BY <1>2 DEF Pull
  <2> QED BY <1>4, <2>1 DEF PullFacts, FactsOf, ImportFacts, AskedBy, Imported
<1>7. \A q \in Proc \ {p} : PullFacts(q)'
  BY <1>2, <1>3, CallFrame, FactsStay DEF IInv, TypeInv
<1> QED BY <1>5, <1>6, <1>7 DEF PullInv

LEMMA PullTokenizerKeeps ==
    ASSUME CommandTypes, IInv, PullInv, Quiet, NEW p \in Proc, PullTokenizer(p)
    PROVE  PullInv'
<1>1. PICK pull \in Pull : pull = command[p]
  BY DEF PullTokenizer, At, CommandTypes
<1>2. /\ command[p] # None /\ pull.step = "importing"
      /\ pc[p] = "idle" /\ result[p] = "ok"
      /\ \A q \in Proc \ {p} :
             command'[q] = command[q] /\ result'[q] = result[q]
      /\ pc' = pc /\ draft' = draft
      /\ \A s \in Stem : Stored(s)' = Stored(s)
      /\ \/ command'[p] = None
         \/ command'[p] = [pull EXCEPT !.step = "attach"]
  BY <1>1, QuietPublishesNothing
  DEF PullTokenizer, At, Enter, End, CommandTypes, IInv, TypeInv, TypeOK
<1>3. PullAlone'
  BY <1>1, <1>2, StillAlone DEF PullInv, Pull
<1>4. PullFacts(p)'
  <2>1. PICK s \in Stem : s = ManifestStem(pull.id)
    BY StemAssumption DEF ManifestStem, Pull
  <2>2. LeftBy(pull, Stored(s), None)
    BY <1>1, <1>2, <2>1 DEF PullInv, PullFacts, FactsOf, ImportFacts
  <2>3. CASE command'[p] = [pull EXCEPT !.step = "attach"]
    <3>1. /\ command'[p].step = "attach" /\ command'[p].id = pull.id
          /\ command'[p].weights = pull.weights
          /\ command'[p].details = pull.details
      BY <2>3 DEF Pull
    <3>2. LeftBy(command'[p], Stored(s)', None)
      BY <1>2, <2>2, <3>1 DEF LeftBy, AsPulled
    <3> QED BY <1>2, <2>1, <3>1, <3>2 DEF PullFacts, FactsOf
  <2> QED BY <1>2, <2>3 DEF PullFacts
<1>5. \A q \in Proc \ {p} : PullFacts(q)'
  BY <1>2, FactsStay
<1> QED BY <1>3, <1>4, <1>5 DEF PullInv

LEMMA PullAttachKeeps ==
    ASSUME Exclusive, CommandTypes, IInv, PullInv, Next,
           NEW p \in Proc, PullAttach(p)
    PROVE  PullInv'
<1>1. PICK pull \in Pull : pull = command[p]
  BY DEF PullAttach, At, CommandTypes
<1>2. /\ AttachStart(p, pull.id, pull.tokenizer)
      /\ command[p] # None /\ pc[p] = "idle" /\ pull.step = "attach"
      /\ \A q \in Proc \ {p} : command'[q] = command[q]
      /\ command'[p] = [pull EXCEPT !.step = "attaching"]
  BY <1>1 DEF PullAttach, At, Enter, CommandTypes
<1>3. Operation(p)
  <2>1. pull.tokenizer \in Path /\ pull.id \in ModelId
    BY <1>1, <1>2 DEF CommandTypes, Pull
  <2> QED BY <1>2, <2>1 DEF Operation
<1>4. PICK s \in Stem : s = ManifestStem(pull.id)
  BY StemAssumption DEF ManifestStem, Pull
<1>5. LeftBy(pull, Stored(s), None) /\ Stored(s)' = Stored(s)
  BY <1>1, <1>2, <1>4 DEF PullInv, PullFacts, FactsOf, AttachStart, Stored
<1>6. \/ pc'[p] = "idle" /\ result'[p] # "ok"
      \/ /\ pc'[p] = "hash_tokenizer"
         /\ draft'[p] = WithTokenizer(Stored(s), pull.tokenizer, None)
  BY <1>2, <1>4
  DEF AttachStart, Return, GoTo, GetError, IInv, TypeInv, TypeOK
<1>7. ASSUME pc'[p] # "idle" PROVE AskedBy(pull, draft'[p], pull.tokenizer)
  BY <1>5, <1>6, <1>7 DEF LeftBy, AsPulled, AskedBy, WithTokenizer, Manifest
<1>8. PullAlone'
  <2>1. pc'[p] \in Writing => draft'[p].id = pull.id
    BY <1>7 DEF Writing, AskedBy
  <2>2. \A r \in Proc \ {p} : command[r] # None => command[r].id # pull.id
    BY <1>1, <1>2 DEF PullInv, PullAlone
  <2>3. \A q \in Proc : command'[q] # None =>
            command[q] # None /\ command'[q].id = command[q].id
    BY <1>1, <1>2 DEF Pull
  <2> QED BY <1>3, <2>1, <2>2, <2>3, AloneInCall DEF PullInv
<1>9. PullFacts(p)'
  <2>1. /\ command'[p].step = "attaching" /\ command'[p].id = pull.id
        /\ command'[p].weights = pull.weights
        /\ command'[p].details = pull.details
        /\ command'[p].tokenizer = pull.tokenizer
    BY <1>2 DEF Pull
  <2>2. LeftBy(command'[p], Stored(s)', None)
    BY <1>5, <2>1 DEF LeftBy, AsPulled
  <2>3. pc'[p] # "idle" =>
            AskedBy(command'[p], draft'[p], command'[p].tokenizer)
    BY <1>7, <2>1 DEF AskedBy
  <2> QED BY <1>4, <1>6, <2>1, <2>2, <2>3 DEF PullFacts, FactsOf, AttachFacts
<1>10. \A q \in Proc \ {p} : PullFacts(q)'
  BY <1>2, <1>3, CallFrame, FactsStay DEF IInv, TypeInv
<1> QED BY <1>8, <1>9, <1>10 DEF PullInv

LEMMA PullEndKeeps ==
    ASSUME CommandTypes, IInv, PullInv, NEW p \in Proc,
           PullFails(p) \/ PullEnds(p)
    PROVE  PullInv'
<1>1. UNCHANGED vars /\ End(p)
  BY DEF PullFails, PullEnds
<1>2. /\ command'[p] = None
      /\ \A q \in Proc \ {p} : command'[q] = command[q]
  BY <1>1 DEF End, CommandTypes
<1>3. pc' = pc /\ draft' = draft /\ result' = result
  BY <1>1 DEF vars
<1>4. PullAlone'
  BY <1>2, <1>3, StillAlone DEF PullInv
<1>5. PullFacts(p)'
  BY <1>2 DEF PullFacts
<1>6. \A q \in Proc \ {p} : PullFacts(q)'
  BY <1>1, <1>2, <1>3, FactsStay
<1> QED BY <1>4, <1>5, <1>6 DEF PullInv

(* A process that is killed, in a pull or not. *)
LEMMA KilledKeeps ==
    ASSUME CommandTypes, IInv, PullInv, NEW p \in Proc, Killed(p)
    PROVE  PullInv'
<1>1. Crash(p) /\ command' = [command EXCEPT ![p] = None]
  BY DEF Killed, End
<1>2. /\ pc' = [pc EXCEPT ![p] = "idle"]
      /\ draft' = [draft EXCEPT ![p] = None]
      /\ result' = [result EXCEPT ![p] = "none"]
  BY <1>1 DEF Crash, Return
<1>3. /\ command'[p] = None /\ pc'[p] = "idle"
      /\ \A q \in Proc \ {p} :
             /\ command'[q] = command[q] /\ pc'[q] = pc[q]
             /\ draft'[q] = draft[q] /\ result'[q] = result[q]
  BY <1>1, <1>2 DEF CommandTypes, IInv, TypeInv, TypeOK
<1>4. PullAlone'
  BY <1>3 DEF PullAlone, PullInv, Writing
<1>5. PullFacts(p)'
  BY <1>3 DEF PullFacts
<1>6. \A q \in Proc \ {p} : PullFacts(q)'
  BY <1>1, <1>3, FactsStay DEF Next
<1> QED BY <1>4, <1>5, <1>6 DEF PullInv

LEMMA CallKeeps ==
    ASSUME Exclusive, CommandTypes, IInv, IInv', PullInv, Next,
           NEW p \in Proc, Call(p)
    PROVE  PullInv'
<1>1. Operation(p) /\ command' = command
  BY DEF Call
<1>2. PullAlone'
  <2>1. pc[p] = "idle" /\ pc'[p] \in Writing =>
            \A r \in Proc \ {p} :
                command[r] # None => command[r].id # draft'[p].id
    BY DEF Call, NotPulled
  <2> QED BY <1>1, <2>1, AloneInCall DEF PullInv
<1>3. PullFacts(p)'
  <2>1. CASE command[p] = None
    BY <1>1, <2>1 DEF PullFacts
  <2>2. CASE command[p] # None
    BY <1>1, <2>2, FactsMove DEF Call
  <2> QED BY <2>1, <2>2
<1>4. \A q \in Proc \ {p} : PullFacts(q)'
  BY <1>1, CallFrame, FactsStay DEF IInv, TypeInv
<1> QED BY <1>2, <1>3, <1>4 DEF PullInv

LEMMA StillKeeps ==
    ASSUME CommandTypes, IInv, PullInv, [Next]_vars,
           UNCHANGED <<pc, draft, result, command>>
    PROVE  PullInv'
<1>1. PullAlone'
  BY StillAlone DEF PullInv
<1>2. \A q \in Proc : PullFacts(q)'
  BY FactsStay
<1> QED BY <1>1, <1>2 DEF PullInv

LEMMA PullStepKeeps ==
    ASSUME Exclusive, CommandTypes, IInv, IInv', PullInv,
           [CommandNext]_commandVars
    PROVE  PullInv'
<1>1. ASSUME NEW p \in Proc, NEW args \in PullArgs, PullStart(p, args)
      PROVE  PullInv'
  <2>1. args.weights \in Path
    BY PullAssumption
  <2>2. Quiet
    BY <1>1, <2>1 DEF PullStart, Quiet
  <2> QED BY <1>1, <2>2, PullStartKeeps
<1>2. ASSUME NEW p \in Proc, PullImport(p) PROVE PullInv'
  <2>1. command[p] \in Pull
    BY <1>2 DEF PullImport, At, CommandTypes
  <2>2. Next
    BY <1>2, <2>1 DEF PullImport, Next, Operation, Pull
  <2> QED BY <1>2, <2>2, PullImportKeeps
<1>3. ASSUME NEW p \in Proc, PullTokenizer(p) PROVE PullInv'
  <2>1. command[p] \in Pull /\ command[p].tokenizer # None
    BY <1>3 DEF PullTokenizer, At, CommandTypes
  <2>2. command[p].tokenizer \in Path
    BY <2>1 DEF Pull
  <2>3. Quiet
    BY <1>3, <2>2 DEF PullTokenizer, Quiet
  <2> QED BY <1>3, <2>3, PullTokenizerKeeps
<1>4. ASSUME NEW p \in Proc, PullAttach(p) PROVE PullInv'
  <2>1. command[p] \in Pull /\ command[p].tokenizer # None
    BY <1>4 DEF PullAttach, At, CommandTypes
  <2>2. command[p].id \in ModelId /\ command[p].tokenizer \in Path
    BY <2>1 DEF Pull
  <2>3. Next
    BY <1>4, <2>2 DEF PullAttach, Next, Operation
  <2> QED BY <1>4, <2>3, PullAttachKeeps
<1>5. ASSUME NEW p \in Proc, PullFails(p) \/ PullEnds(p) \/ Killed(p)
      PROVE  PullInv'
  BY <1>5, PullEndKeeps, KilledKeeps
<1>6. ASSUME NEW p \in Proc, Call(p) PROVE PullInv'
  <2>1. Next
    BY <1>6 DEF Call, Next
  <2> QED BY <1>6, <2>1, CallKeeps
<1>7. ASSUME NEW path \in MutablePath, ChangeFile(path), UNCHANGED command
      PROVE  PullInv'
  <2>1. Next
    BY <1>7 DEF Next
  <2> QED BY <1>7, <2>1, StillKeeps DEF ChangeFile
<1>8. CASE UNCHANGED commandVars
  BY <1>8, StillKeeps DEF commandVars, vars
<1> QED
  BY <1>1, <1>2, <1>3, <1>4, <1>5, <1>6, <1>7, <1>8 DEF CommandNext

(* What a pull has left so far, wherever it is. *)
LEMMA LeftSoFar ==
    ASSUME CommandTypes, PullInv, NEW p \in Proc, command[p] # None,
           ImportDone(p), NEW s, s = ManifestStem(command[p].id)
    PROVE  LeftBy(command[p], Stored(s),
                  IF AttachDone(p) THEN command[p].tokenizer ELSE None)
<1> DEFINE pull == command[p]
<1>1. FactsOf(pull, pc[p], draft[p], result[p], Stored(s))
  BY DEF PullInv, PullFacts
<1>2. CASE pull.step = "importing"
  BY <1>1, <1>2 DEF ImportDone, AttachDone, Renamed, FactsOf, ImportFacts
<1>3. CASE pull.step = "attach"
  BY <1>1, <1>3 DEF AttachDone, FactsOf
<1>4. CASE pull.step = "attaching"
  BY <1>1, <1>4 DEF AttachDone, Renamed, FactsOf, AttachFacts
<1> QED BY <1>2, <1>3, <1>4 DEF ImportDone

(* A pull's last step: it leaves the manifests alone, and it reports       *)
(* success only when both calls have returned Ok.                          *)
LEMMA LastStep ==
    ASSUME CommandTypes, IInv, [CommandNext]_commandVars, NEW p \in Proc,
           command[p] # None, command'[p] = None
    PROVE  /\ \A s \in Stem : Stored(s)' = Stored(s)
           /\ result'[p] = "ok" => PullEnds(p)
<1>1. command'[p] \notin Pull /\ command[p] \in Pull
  BY NoPullAssumption DEF CommandTypes
<1>2. ASSUME NEW q \in Proc, NEW step \in {"importing", "attach", "attaching"},
             command[q] # None, Enter(q, step)
      PROVE  FALSE
  <2>1. command[q] \in Pull
    BY <1>2 DEF CommandTypes
  <2>2. command'[q] \in Pull
    BY <1>2, <2>1 DEF Enter, CommandTypes, Pull
  <2> QED BY <1>1, <1>2, <2>2 DEF Enter, CommandTypes
<1>3. ASSUME NEW q \in Proc, NEW args \in PullArgs, PullStart(q, args)
      PROVE  FALSE
  BY <1>3 DEF PullStart, CommandTypes
<1>4. ASSUME NEW q \in Proc, PullImport(q) \/ PullAttach(q) PROVE FALSE
  BY <1>2, <1>4 DEF PullImport, PullAttach, At
<1>5. ASSUME NEW q \in Proc, End(q) PROVE q = p
  BY <1>5 DEF End, CommandTypes
<1>6. ASSUME NEW q \in Proc, PullTokenizer(q)
      PROVE  /\ UNCHANGED <<inode, name>>
             /\ q = p /\ result'[p] = "HuggingFaceHub"
  <2>1. End(q) /\ result' = [result EXCEPT ![q] = "HuggingFaceHub"]
    BY <1>2, <1>6 DEF PullTokenizer, At
  <2> QED BY <1>5, <1>6, <2>1 DEF PullTokenizer, IInv, TypeInv, TypeOK
<1>7. ASSUME NEW q \in Proc, PullFails(q)
      PROVE  /\ UNCHANGED <<inode, name>>
             /\ q = p /\ result'[p] # "ok"
  BY <1>5, <1>7 DEF PullFails, vars
<1>8. ASSUME NEW q \in Proc, PullEnds(q)
      PROVE  UNCHANGED <<inode, name>> /\ q = p
  BY <1>5, <1>8 DEF PullEnds, vars
<1>9. ASSUME NEW q \in Proc, Killed(q)
      PROVE  /\ UNCHANGED <<inode, name>>
             /\ q = p /\ result'[p] = "none"
  BY <1>5, <1>9 DEF Killed, Crash, Return, IInv, TypeInv, TypeOK
<1>10. command' # command
  OBVIOUS
<1>11. \E q \in Proc : PullTokenizer(q) \/ PullFails(q) \/ PullEnds(q) \/ Killed(q)
  BY <1>3, <1>4, <1>10 DEF CommandNext, Call, commandVars
<1>12. UNCHANGED <<inode, name>>
  BY <1>6, <1>7, <1>8, <1>9, <1>11
<1>13. result'[p] = "ok" => PullEnds(p)
  BY <1>6, <1>7, <1>8, <1>9, <1>11
<1> QED BY <1>12, <1>13 DEF Stored

LEMMA StepReports ==
    ASSUME CommandTypes, IInv, PullInv, [CommandNext]_commandVars
    PROVE  PullReport
<1> SUFFICES ASSUME NEW p \in Proc, command[p] # None, command'[p] = None
             PROVE  /\ ImportDone(p) =>
                           \A s \in {ManifestStem(command[p].id)} :
                               /\ AsPulled(command[p], Stored(s)')
                               /\ Stored(s)'.tokenizer =
                                      IF AttachDone(p) THEN command[p].tokenizer
                                                       ELSE None
                    /\ result'[p] = "ok" =>
                           /\ ImportDone(p)
                           /\ command[p].tokenizer # None => AttachDone(p)
  BY DEF PullReport
<1>1. PICK s \in Stem : s = ManifestStem(command[p].id)
  BY StemAssumption DEF ManifestStem, CommandTypes, Pull
<1>2. Stored(s)' = Stored(s)
  BY LastStep
<1>3. ASSUME ImportDone(p)
      PROVE  LeftBy(command[p], Stored(s)',
                    IF AttachDone(p) THEN command[p].tokenizer ELSE None)
  BY <1>1, <1>2, <1>3, LeftSoFar
<1>4. ASSUME result'[p] = "ok"
      PROVE  /\ ImportDone(p)
             /\ command[p].tokenizer # None => AttachDone(p)
  <2>1. PullEnds(p)
    BY <1>4, LastStep
  <2> QED BY <2>1 DEF PullEnds, At, ImportDone, AttachDone, Renamed
<1> QED BY <1>1, <1>3, <1>4 DEF LeftBy

(* With one write command per model at a time, and however a pull ends, by *)
(* success, an error at any of its steps or a kill at any point: once its  *)
(* import is renamed into place, the model is what the pull was asked for, *)
(* with the tokenizer asked for when its attachment is renamed too and     *)
(* without one otherwise; a pull that reports success has done both        *)
(* (main.rs, ModelCommand::Pull, over registry.rs).                        *)
THEOREM PullsReportWhatTheyLeft ==
    Exclusive => (CommandSpec => PullReportsWhatItLeft)
<1> SUFFICES ASSUME Exclusive PROVE CommandSpec => PullReportsWhatItLeft
  OBVIOUS
<1>1. CommandInit => PullInv
  BY DEF CommandInit, PullInv, PullAlone, PullFacts
<1>2. CommandTypes /\ IInv /\ (CommandTypes /\ IInv)' /\ PullInv
      /\ [CommandNext]_commandVars => PullInv'
  BY PullStepKeeps
<1>3. CommandTypes /\ IInv /\ PullInv /\ [CommandNext]_commandVars
      => [PullReport]_commandVars
  BY StepReports
<1> QED BY <1>1, <1>2, <1>3, CommandInvariance, PTL
        DEF CommandSpec, PullReportsWhatItLeft
=============================================================================
