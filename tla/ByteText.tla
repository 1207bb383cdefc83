------------------------------ MODULE ByteText ------------------------------
(***************************************************************************)
(* A tokenizer for the instances that TLC checks: a byte-level one, whose  *)
(* tokens are sequences of units.  A unit is a character of one byte, or   *)
(* the lead or the trail byte of the character `wide`.                     *)
(***************************************************************************)
EXTENDS Naturals, Sequences

LOCAL Ext == INSTANCE SequencesExt

CONSTANTS wide, broken, lead, trail, eos, bad

(* Lossy UTF-8 decoding: a lead byte shows as U+FFFD until its trail byte  *)
(* arrives, a trail byte without a lead byte stays one.                    *)
Unit(acc, u) ==
    IF u = trail
    THEN IF acc.open THEN [text |-> Ext!Front(acc.text) \o <<wide>>, open |-> FALSE]
         ELSE [text |-> Append(acc.text, broken), open |-> FALSE]
    ELSE IF u = lead
    THEN [text |-> Append(acc.text, broken), open |-> TRUE]
    ELSE [text |-> Append(acc.text, u), open |-> FALSE]

(* Special tokens are skipped. *)
Units(acc, token) == IF token = eos THEN acc ELSE Ext!FoldLeft(Unit, acc, token)

(* The text of a token sequence; `bad`, one of whose tokens is bad. *)
Decoded(tokens) ==
    IF \E i \in 1..Len(tokens) : tokens[i] = bad THEN bad
    ELSE Ext!FoldLeft(Units, [text |-> <<>>, open |-> FALSE], tokens).text
=============================================================================
