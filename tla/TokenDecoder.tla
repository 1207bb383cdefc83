---------------------------- MODULE TokenDecoder ----------------------------
(***************************************************************************)
(* What the trait TokenDecoder promises to the generation loop (core       *)
(* crate, generation.rs): the logits it returns last are computed from a   *)
(* context, which is the whole prompt after a prefill and grows by exactly *)
(* the decoded token after a decode.  A context is never a mixture of two  *)
(* requests.  Tokens are known by request and position.                    *)
(***************************************************************************)
EXTENDS Naturals, Sequences

CONSTANT Request

VARIABLE context    \* <<>> while no logits can be had

Token(r, p) == [request |-> r, position |-> p]
Tokens(r, n) == [i \in 1..n |-> Token(r, i - 1)]

Init == context = <<>>

(* A new request gives the old one up, or a pass fails. *)
Drop == context' = <<>>

(* Evaluates the prompt. *)
Prefill ==
    /\ context = <<>>
    /\ context' # <<>>
    /\ \E r \in Request : context' = Tokens(r, Len(context'))

(* Evaluates one sampled token. *)
Decode ==
    /\ context # <<>>
    /\ context' = Append(context, Token(context[1].request, Len(context)))

Next == Drop \/ Prefill \/ Decode

Spec == Init /\ [][Next]_context
=============================================================================
