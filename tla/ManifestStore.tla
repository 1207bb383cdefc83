--------------------------- MODULE ManifestStore ----------------------------
(***************************************************************************)
(* What the registry promises its readers: one register per model id that  *)
(* changes in one step, to the manifest of an import or to the present     *)
(* manifest with another tokenizer.  No reader ever sees anything between. *)
(***************************************************************************)
EXTENDS Manifest

VARIABLE published      \* the manifest of each model file name, or None

CONSTANTS
    Stem,               \* the file names "<id>", without ".toml"
    FileStem,           \* FileStem[id]: the file name of a model id
    WeightsPath         \* the paths with a supported extension

Init == published = [s \in Stem |-> None]

(* An import replaces the register by a manifest without a tokenizer. *)
Import(s) ==
    \E m \in Manifest :
        /\ FileStem[m.id] = s
        /\ m.weights \in WeightsPath
        /\ m.tokenizer = None
        /\ m.tokenizer_sha256 = None
        /\ published' = [published EXCEPT ![s] = m]

(* An attachment changes the tokenizer of the registered manifest, only. *)
Attach(s) ==
    \E path \in Path, digest \in Digest :
        /\ published[s] # None
        /\ published' = [published EXCEPT
                            ![s] = WithTokenizer(@, path, digest)]

Next == \E s \in Stem : Import(s) \/ Attach(s)

Spec == Init /\ [][Next]_published
=============================================================================
