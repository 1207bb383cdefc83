--------------------------- MODULE MCSessionCache ---------------------------
(***************************************************************************)
(* Small instances of the session cache for TLC.                           *)
(***************************************************************************)
EXTENDS SessionCache, TLC

Symmetric == Permutations(Caller) \cup Permutations(Session)
                                  \cup Permutations(Content)
=============================================================================
