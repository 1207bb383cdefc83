----------------------------- MODULE MCRegistry -----------------------------
(***************************************************************************)
(* Small instances of the registry for TLC.                                *)
(***************************************************************************)
EXTENDS CommandLine, TLC

CONSTANTS m1, bad, s1, w, t, d1

(* One model: "bad" is another spelling of m1's file name. *)
OneStem == [id \in {m1, bad} |-> s1]

(* With and without a tokenizer, and with an id that is refused. *)
Args == {[id |-> m1, weights |-> w, details |-> d1, tokenizer |-> None],
         [id |-> m1, weights |-> w, details |-> d1, tokenizer |-> t],
         [id |-> bad, weights |-> w, details |-> d1, tokenizer |-> t]}

Symmetric == Permutations(Proc) \cup Permutations(Inode) \cup Permutations(Content)
=============================================================================
