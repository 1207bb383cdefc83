------------------------------ MODULE Manifest ------------------------------
(***************************************************************************)
(* The model manifest, `ModelManifest` of the core crate, and what the     *)
(* registry computes from files.  The fields that the operator passes      *)
(* through unchanged (kind, architecture, context_length, chat_template)   *)
(* are one opaque field, `details`.                                        *)
(***************************************************************************)
CONSTANTS
    ModelId,    \* the model identifiers a caller may pass
    Path,       \* the weight and tokenizer files, by canonical path
    Content,    \* what such a file may contain
    Details,    \* the pass-through fields of a manifest
    None        \* Rust's Option::None

(* A digest is a function of the content and tells contents apart. *)
Sha256(c) == <<"sha256", c>>
Digest == {Sha256(c) : c \in Content}

Manifest ==
    [id : ModelId, weights : Path, sha256 : Digest, details : Details,
     tokenizer : Path \cup {None}, tokenizer_sha256 : Digest \cup {None}]

(* The manifest an import starts from: the digest is not computed yet and  *)
(* there is no tokenizer, whatever an earlier manifest of this id had.     *)
Imported(id, weights, details) ==
    [id |-> id, weights |-> weights, sha256 |-> None, details |-> details,
     tokenizer |-> None, tokenizer_sha256 |-> None]

(* The digest stored in the field of the tokenizer's path. *)
WithDigestAsPath(m, digest) == [m EXCEPT !.tokenizer = digest]

WithDigest(m, digest) == [m EXCEPT !.sha256 = digest]

(* What attach_tokenizer changes in a manifest: the tokenizer's path and,  *)
(* once it is computed, the tokenizer's digest.                            *)
WithTokenizer(m, path, digest) ==
    [m EXCEPT !.tokenizer = path, !.tokenizer_sha256 = digest]

(* A manifest being built: some digest may still be missing.               *)
Draft ==
    [id : ModelId, weights : Path, sha256 : Digest \cup {None},
     details : Details, tokenizer : Path \cup {None},
     tokenizer_sha256 : Digest \cup {None}]
=============================================================================
