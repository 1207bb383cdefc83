----------------------------- MODULE MCPyStream -----------------------------
(***************************************************************************)
(* An instance of the streaming calls for TLC, over the vocabulary of      *)
(* ByteText.  The token that ends a call is one that has a text.           *)
(***************************************************************************)
EXTENDS PyStream, ByteText

CONSTANTS a, stop

Vocabulary == {<<a>>, <<lead>>, <<trail>>, <<stop>>, bad}
Characters == {a, stop, wide, broken}
Stops == {<<stop>>}

(* The vocabulary is one of those that the proofs are about. *)
ASSUME TokenizerAssumption ==
    KeepsWholeText(UNION {[1..n -> Vocabulary] : n \in 0..4})
=============================================================================
