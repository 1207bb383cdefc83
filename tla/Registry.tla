------------------------------ MODULE Registry ------------------------------
(***************************************************************************)
(* The model registry (core crate, registry.rs) over a file system.        *)
(*                                                                         *)
(* The directory <root>/manifests holds, for each model id, the manifest   *)
(* "<id>.toml" and, while it is being written, "<id>.toml.tmp".  Both are  *)
(* directory entries that name inodes; a rename moves an entry, a process  *)
(* that has a file open writes to the inode whatever names it by then.     *)
(* Processes are the command line, Python programs and servers that share  *)
(* one root; nothing in the code locks the directory.                      *)
(***************************************************************************)
EXTENDS Manifest, FiniteSets

CONSTANTS
    Proc,           \* processes that call the registry
    ValidId,        \* the ids validate_model_id accepts
    Stem,           \* file names without extension
    FileStem,       \* FileStem[id]: the file name an id resolves to
    GgufPath,       \* paths whose extension is .gguf
    SafetensorsPath,\* paths whose extension is .safetensors
    MutablePath,    \* paths whose file is replaced or removed meanwhile
    Inode,          \* files of the manifests directory
    Absent,         \* "no such file"
    Blank,          \* content of an empty file
    Garbled,        \* content that is not the text of one whole manifest
    Exclusive       \* TRUE: one write command per model at a time

VARIABLES
    file,       \* file[path]: content of a weights or tokenizer file
    inode,      \* inode[i]: content of a file of the manifests directory
    name,       \* name[s]: the inode of "<s>.toml", or None
    temp,       \* temp[s]: the inode of "<s>.toml.tmp", or None
    pc,         \* where each process is in its call
    draft,      \* the manifest local variable of the call, or None
    handle,     \* the inode a process has open for writing, or None
    todo,       \* the directory entries that a listing has still to read
    result      \* outcome of the last call, "none" during a call

vars == <<file, inode, name, temp, pc, draft, handle, todo, result>>
-----------------------------------------------------------------------------
(* Ids that validation accepts name distinct files; others need not        *)
(* ("./m" and "m").  This is a case-sensitive file system.                 *)
ASSUME StemAssumption ==
    /\ ValidId \subseteq ModelId
    /\ FileStem \in [ModelId -> Stem]
    /\ \A a, b \in ValidId : FileStem[a] = FileStem[b] => a = b

ASSUME PathAssumption ==
    /\ GgufPath \subseteq Path
    /\ SafetensorsPath \subseteq Path
    /\ MutablePath \subseteq Path

ASSUME ValueAssumption ==
    /\ None \notin Manifest \cup Draft \cup Inode \cup Path \cup Digest
    /\ Absent \notin Content
    /\ Blank \notin Manifest
    /\ Garbled \notin Manifest
    /\ Blank # Garbled

ASSUME ExclusiveAssumption == Exclusive \in BOOLEAN

Writing ==
    {"hash_weights", "hash_tokenizer", "open", "write", "rename", "renamed"}
Verifying == {"verify_weights", "verify_tokenizer"}
PC == {"idle", "list"} \cup Writing \cup Verifying

Outcome ==
    {"none", "ok", "InvalidModelId", "ModelFileNotFound", "UnsupportedFormat",
     "ModelNotFound", "IntegrityMismatch", "TomlDecode", "Io",
     "HuggingFaceHub"}

(* Entries of the manifests directory. *)
Entry == [stem : Stem, extension : {"toml", "tmp"}]
-----------------------------------------------------------------------------
ValidateModelId(id) == id \in ValidId

SupportedFormat(path) == path \in GgufPath \cup SafetensorsPath

ManifestStem(id) == FileStem[id]

IsFile(path) == file[path] # Absent

(* The content of "<s>.toml", and whether serde accepts it. *)
Stored(s) == IF name[s] = None THEN None ELSE inode[name[s]]
Parses(content) == content \in Manifest

(* A listing without the extension filter. *)
AnyEntry(entry) == TRUE

HasTomlExtension(entry) == entry.extension = "toml"

Free(i) ==
    /\ \A s \in Stem : name[s] # i /\ temp[s] # i
    /\ \A p \in Proc : handle[p] # i

(* What is in a file after a whole manifest was written over `old`: two    *)
(* writers of one inode can leave the tail of the longer text.             *)
Overlay(old, new) == IF old \in {Blank, new} THEN {new} ELSE {new, Garbled}

(* The outcome of ModelRegistry::get when it is not a manifest. *)
GetError(id) ==
    IF ~ValidateModelId(id) THEN "InvalidModelId"
    ELSE IF Stored(ManifestStem(id)) = None THEN "ModelNotFound"
    ELSE "TomlDecode"

Gettable(id) == ValidateModelId(id) /\ Parses(Stored(ManifestStem(id)))

(* The operator's discipline: nobody else is in a write command for id. *)
MayWrite(p, id) ==
    Exclusive =>
        \A q \in Proc \ {p} :
            pc[q] \in Writing => draft[q].id # id

Return(p, outcome) ==
    /\ pc' = [pc EXCEPT ![p] = "idle"]
    /\ draft' = [draft EXCEPT ![p] = None]
    /\ handle' = [handle EXCEPT ![p] = None]
    /\ todo' = [todo EXCEPT ![p] = {}]
    /\ result' = [result EXCEPT ![p] = outcome]

GoTo(p, label, manifest) ==
    /\ pc' = [pc EXCEPT ![p] = label]
    /\ draft' = [draft EXCEPT ![p] = manifest]
    /\ result' = [result EXCEPT ![p] = "none"]

-----------------------------------------------------------------------------
Init ==
    /\ file \in [Path -> Content]
    /\ inode = [i \in Inode |-> Blank]
    /\ name = [s \in Stem |-> None]
    /\ temp = [s \in Stem |-> None]
    /\ pc = [p \in Proc |-> "idle"]
    /\ draft = [p \in Proc |-> None]
    /\ handle = [p \in Proc |-> None]
    /\ todo = [p \in Proc |-> {}]
    /\ result = [p \in Proc |-> "none"]

(* import_local up to the hashing: three checks, each an early return. *)
ImportStart(p, id, weights, details) ==
    /\ pc[p] = "idle"
    /\ MayWrite(p, id)
    /\ IF ~ValidateModelId(id) THEN Return(p, "InvalidModelId")
       ELSE IF ~IsFile(weights) THEN Return(p, "ModelFileNotFound")
       ELSE IF ~SupportedFormat(weights) THEN Return(p, "UnsupportedFormat")
       ELSE /\ GoTo(p, "hash_weights", Imported(id, weights, details))
            /\ UNCHANGED <<handle, todo>>
    /\ UNCHANGED <<file, inode, name, temp>>

(* An import that carries the tokenizer of the registered model over. *)
ImportHashKeepsTokenizer(p) ==
    /\ pc[p] = "hash_weights"
    /\ LET old == Stored(ManifestStem(draft[p].id))
           new == WithDigest(draft[p], Sha256(file[draft[p].weights]))
       IN IF IsFile(draft[p].weights)
          THEN /\ GoTo(p, "open",
                       IF old = None THEN new
                       ELSE WithTokenizer(new, old.tokenizer,
                                          old.tokenizer_sha256))
               /\ UNCHANGED <<handle, todo>>
          ELSE Return(p, "Io")
    /\ UNCHANGED <<file, inode, name, temp>>

(* canonicalize and sha256_file fail when the file is gone by now. *)
ImportHash(p) ==
    /\ pc[p] = "hash_weights"
    /\ IF IsFile(draft[p].weights)
       THEN /\ GoTo(p, "open",
                    WithDigest(draft[p], Sha256(file[draft[p].weights])))
            /\ UNCHANGED <<handle, todo>>
       ELSE Return(p, "Io")
    /\ UNCHANGED <<file, inode, name, temp>>

(* attach_tokenizer reads the manifest it will rewrite, with no lock. *)
AttachStart(p, id, tokenizer) ==
    /\ pc[p] = "idle"
    /\ MayWrite(p, id)
    /\ IF ~IsFile(tokenizer) THEN Return(p, "ModelFileNotFound")
       ELSE IF ~Gettable(id) THEN Return(p, GetError(id))
       ELSE /\ GoTo(p, "hash_tokenizer",
                    WithTokenizer(Stored(ManifestStem(id)), tokenizer, None))
            /\ UNCHANGED <<handle, todo>>
    /\ UNCHANGED <<file, inode, name, temp>>

(* The tokenizer's digest stored as the weights' digest. *)
AttachHashWrongField(p) ==
    /\ pc[p] = "hash_tokenizer"
    /\ LET tokenizer == draft[p].tokenizer IN
       IF IsFile(tokenizer)
       THEN /\ GoTo(p, "open", WithDigest(draft[p], Sha256(file[tokenizer])))
            /\ UNCHANGED <<handle, todo>>
       ELSE Return(p, "Io")
    /\ UNCHANGED <<file, inode, name, temp>>

AttachHash(p) ==
    /\ pc[p] = "hash_tokenizer"
    /\ LET tokenizer == draft[p].tokenizer IN
       IF IsFile(tokenizer)
       THEN /\ GoTo(p, "open", WithTokenizer(draft[p], tokenizer,
                                             Sha256(file[tokenizer])))
            /\ UNCHANGED <<handle, todo>>
       ELSE Return(p, "Io")
    /\ UNCHANGED <<file, inode, name, temp>>
-----------------------------------------------------------------------------
(* Writing "<id>.toml" in place, without a temporary. *)
OpenInPlace(p, i) ==
    /\ pc[p] = "open"
    /\ LET s == ManifestStem(draft[p].id) IN
       /\ IF name[s] = None THEN Free(i) ELSE i = name[s]
       /\ name' = [name EXCEPT ![s] = i]
    /\ inode' = [inode EXCEPT ![i] = Blank]
    /\ handle' = [handle EXCEPT ![p] = i]
    /\ pc' = [pc EXCEPT ![p] = "write"]
    /\ UNCHANGED <<file, temp, draft, todo, result>>

(* write_manifest_atomically: File::create of the temporary (created, or   *)
(* truncated when a crash or another writer left one), write, rename.      *)
OpenTemp(p, i) ==
    /\ pc[p] = "open"
    /\ LET s == ManifestStem(draft[p].id) IN
       /\ IF temp[s] = None THEN Free(i) ELSE i = temp[s]
       /\ temp' = [temp EXCEPT ![s] = i]
    /\ inode' = [inode EXCEPT ![i] = Blank]
    /\ handle' = [handle EXCEPT ![p] = i]
    /\ pc' = [pc EXCEPT ![p] = "write"]
    /\ UNCHANGED <<file, name, draft, todo, result>>

WriteTemp(p) ==
    /\ pc[p] = "write"
    /\ \E text \in Overlay(inode[handle[p]], draft[p]) :
           inode' = [inode EXCEPT ![handle[p]] = text]
    /\ handle' = [handle EXCEPT ![p] = None]
    /\ pc' = [pc EXCEPT ![p] = "rename"]
    /\ UNCHANGED <<file, name, temp, draft, todo, result>>

(* The error of a write ignored: the part is renamed into place. *)
WriteErrorIgnored(p) ==
    /\ pc[p] = "write"
    /\ inode' = [inode EXCEPT ![handle[p]] = Garbled]
    /\ handle' = [handle EXCEPT ![p] = None]
    /\ pc' = [pc EXCEPT ![p] = "rename"]
    /\ UNCHANGED <<file, name, temp, draft, todo, result>>

(* Disk full and the like, in any of the three calls; a failed write may   *)
(* have stored a part.  `?` returns before the rename and the temporary    *)
(* stays.                                                                  *)
WriteFails(p) ==
    /\ pc[p] \in {"open", "write", "rename"}
    /\ \/ UNCHANGED inode
       \/ /\ pc[p] = "write"
          /\ inode' = [inode EXCEPT ![handle[p]] = Garbled]
    /\ Return(p, "Io")
    /\ UNCHANGED <<file, name, temp>>

(* The rename goes by name: it publishes whatever inode the temporary's    *)
(* entry names now, and fails when another writer moved it already.        *)
RenameTemp(p) ==
    /\ pc[p] = "rename"
    /\ LET s == ManifestStem(draft[p].id) IN
       IF temp[s] = None
       THEN /\ Return(p, "Io")
            /\ UNCHANGED <<name, temp>>
       ELSE /\ pc' = [pc EXCEPT ![p] = "renamed"]
            /\ name' = [name EXCEPT ![s] = temp[s]]
            /\ temp' = [temp EXCEPT ![s] = None]
            /\ UNCHANGED <<draft, handle, todo, result>>
    /\ UNCHANGED <<file, inode>>

(* The manifest is published and its writer returns Ok to its caller.      *)
WriteReturns(p) ==
    /\ pc[p] = "renamed"
    /\ Return(p, "ok")
    /\ UNCHANGED <<file, inode, name, temp>>
-----------------------------------------------------------------------------
(* get: entries "<id>.toml" are never removed, so the existence test and   *)
(* the read are one step.                                                  *)
Get(p, id) ==
    /\ pc[p] = "idle"
    /\ Return(p, IF Gettable(id) THEN "ok" ELSE GetError(id))
    /\ UNCHANGED <<file, inode, name, temp>>

VerifyStart(p, id) ==
    /\ pc[p] = "idle"
    /\ IF Gettable(id)
       THEN /\ GoTo(p, "verify_weights", Stored(ManifestStem(id)))
            /\ UNCHANGED <<handle, todo>>
       ELSE Return(p, GetError(id))
    /\ UNCHANGED <<file, inode, name, temp>>

(* A file that is not there: is_file says so, or the hashing that follows. *)
Gone == {"ModelFileNotFound", "Io"}

VerifyWeights(p) ==
    /\ pc[p] = "verify_weights"
    /\ LET m == draft[p] IN
       IF ~IsFile(m.weights) THEN \E error \in Gone : Return(p, error)
       ELSE IF Sha256(file[m.weights]) # m.sha256
            THEN Return(p, "IntegrityMismatch")
       ELSE IF m.tokenizer = None \/ m.tokenizer_sha256 = None
            THEN Return(p, "ok")
       ELSE /\ GoTo(p, "verify_tokenizer", m)
            /\ UNCHANGED <<handle, todo>>
    /\ UNCHANGED <<file, inode, name, temp>>

VerifyTokenizer(p) ==
    /\ pc[p] = "verify_tokenizer"
    /\ LET m == draft[p] IN
       IF ~IsFile(m.tokenizer) THEN \E error \in Gone : Return(p, error)
       ELSE Return(p, IF Sha256(file[m.tokenizer]) = m.tokenizer_sha256
                      THEN "ok" ELSE "IntegrityMismatch")
    /\ UNCHANGED <<file, inode, name, temp>>
-----------------------------------------------------------------------------
(* list: read_dir yields every entry, temporaries included; those whose    *)
(* extension is not "toml" are skipped; one unreadable manifest fails all. *)
Entries ==
    {e \in Entry : IF e.extension = "toml" THEN name[e.stem] # None
                                           ELSE temp[e.stem] # None}

EntryContent(e) ==
    IF e.extension = "toml" THEN Stored(e.stem)
    ELSE IF temp[e.stem] = None THEN None ELSE inode[temp[e.stem]]

ListStart(p) ==
    /\ pc[p] = "idle"
    /\ pc' = [pc EXCEPT ![p] = "list"]
    /\ todo' = [todo EXCEPT ![p] = {e \in Entries : HasTomlExtension(e)}]
    /\ result' = [result EXCEPT ![p] = "none"]
    /\ UNCHANGED <<file, inode, name, temp, draft, handle>>

ListRead(p, e) ==
    /\ pc[p] = "list"
    /\ e \in todo[p]
    /\ IF EntryContent(e) = None THEN Return(p, "Io")
       ELSE IF ~Parses(EntryContent(e)) THEN Return(p, "TomlDecode")
       ELSE /\ todo' = [todo EXCEPT ![p] = @ \ {e}]
            /\ UNCHANGED <<pc, draft, handle, result>>
    /\ UNCHANGED <<file, inode, name, temp>>

ListEnd(p) ==
    /\ pc[p] = "list"
    /\ todo[p] = {}
    /\ Return(p, "ok")
    /\ UNCHANGED <<file, inode, name, temp>>
-----------------------------------------------------------------------------
(* A process is killed, in the middle of a call or not; the files stay. *)
Crash(p) ==
    /\ Return(p, "none")
    /\ UNCHANGED <<file, inode, name, temp>>

(* Somebody replaces or removes a weights or tokenizer file. *)
ChangeFile(path) ==
    /\ \E c \in Content \cup {Absent} : file' = [file EXCEPT ![path] = c]
    /\ UNCHANGED <<inode, name, temp, pc, draft, handle, todo, result>>

Operation(p) ==
    \/ \E id \in ModelId, path \in Path, d \in Details :
           ImportStart(p, id, path, d)
    \/ \E id \in ModelId, path \in Path : AttachStart(p, id, path)
    \/ ImportHash(p) \/ AttachHash(p)
    \/ \E i \in Inode : OpenTemp(p, i)
    \/ WriteTemp(p) \/ WriteFails(p) \/ RenameTemp(p) \/ WriteReturns(p)
    \/ \E id \in ModelId : Get(p, id) \/ VerifyStart(p, id)
    \/ VerifyWeights(p) \/ VerifyTokenizer(p)
    \/ ListStart(p) \/ ListEnd(p)
    \/ \E e \in Entry : ListRead(p, e)

Next ==
    \/ \E p \in Proc : Operation(p) \/ Crash(p)
    \/ \E path \in MutablePath : ChangeFile(path)

Spec == Init /\ [][Next]_vars
-----------------------------------------------------------------------------
(* Types. *)
FileContent == Content \cup {Absent}
InodeContent == Manifest \cup {Blank, Garbled}

(* Every variable keeps its type; in particular a call never holds a       *)
(* digest in a path field, nor the other way round.                        *)
TypeOK ==
    /\ file \in [Path -> FileContent]
    /\ inode \in [Inode -> InodeContent]
    /\ name \in [Stem -> Inode \cup {None}]
    /\ temp \in [Stem -> Inode \cup {None}]
    /\ pc \in [Proc -> PC]
    /\ draft \in [Proc -> Draft \cup {None}]
    /\ handle \in [Proc -> Inode \cup {None}]
    /\ todo \in [Proc -> SUBSET Entry]
    /\ result \in [Proc -> Outcome]

(* What "<s>.toml" names is, at every moment and after every crash or      *)
(* failed write, the text of one whole manifest, of an accepted id, under  *)
(* that id's own file name (write_manifest_atomically, validate_model_id). *)
PublishedWhole ==
    \A s \in Stem :
        name[s] # None =>
            /\ Stored(s) \in Manifest
            /\ Stored(s).id \in ValidId
            /\ FileStem[Stored(s).id] = s

(* get, list, verify and attach never meet text that does not parse, even  *)
(* with temporaries of dead or failed writers in the directory (the        *)
(* extension filter of list).                                              *)
ReadersNeverFail == \A p \in Proc : result[p] # "TomlDecode"

(* A model's manifest changes only in a writer's rename, to the manifest   *)
(* which that writer built; and a writer that returns Ok leaves its own    *)
(* manifest published (import_local returns it to the caller).             *)
PublishStep ==
    /\ \A s \in Stem :
           Stored(s)' # Stored(s) =>
               \E p \in Proc : /\ pc[p] = "rename"
                               /\ pc'[p] = "renamed"
                               /\ Stored(s)' = draft[p]
    /\ \A p \in Proc, s \in Stem :
           /\ pc[p] \in Writing /\ s = ManifestStem(draft[p].id)
           /\ pc'[p] = "idle" /\ result'[p] = "ok"
           => Stored(s)' = draft[p]

PublishesItsOwnManifest == [][PublishStep]_vars

(* The README of the registry: a manifest is recorded atomically.  A step  *)
(* that changes a manifest changes it to what the stepping writer built.   *)
ManifestRecordedAtomically ==
    [][\A s \in Stem :
           Stored(s)' # Stored(s) =>
               \E p \in Proc : pc[p] = "rename" /\ Stored(s)' = draft[p]]_vars

(* The registry implements the atomic registers: import is one write,      *)
(* attach_tokenizer one read-modify-write that touches the tokenizer only. *)
Store == INSTANCE ManifestStore
            WITH published <- [s \in Stem |-> Stored(s)],
                 WeightsPath <- GgufPath \cup SafetensorsPath
AtomicRegister == Store!Spec
=============================================================================
