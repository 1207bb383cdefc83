---------------------------- MODULE MCChatRequest ----------------------------
(***************************************************************************)
(* Instances of the generation for TLC, over the vocabulary of ByteText.   *)
(***************************************************************************)
EXTENDS ChatRequest, ByteText

CONSTANTS a, b

VocabInOrder == <<<<a>>, <<b>>, <<a, b>>, <<b, lead>>, <<lead>>, <<trail>>,
                  eos, bad>>
Vocabulary == {VocabInOrder[i] : i \in 1..Len(VocabInOrder)}
Characters == {a, b, wide, broken}

(* The vocabulary is one of those that the proofs are about. *)
ASSUME TokenizerAssumption ==
    KeepsWholeText(UNION {[1..n -> Vocabulary] : n \in 0..4})

(* No stop strings, or two of different length and an empty one. *)
Stops == {<<a, b>>, <<b, wide, a>>, <<>>}
Choices == {{}, Stops}
StopsOnly == {Stops}

(* A peak at i with one behind it, or a tie; two in a tie at the next      *)
(* place; the rest far below.                                              *)
Peaked(i) ==
    LET size == Len(VocabInOrder)
        after(n) == ((i + n - 1) % size) + 1 IN
    [j \in 1..size |->
        CASE j = i -> IF i % 4 = 0 THEN 0 ELSE 2
          [] j = after(1) -> IF i % 2 = 0 THEN -1 ELSE 2
          [] j = after(2) -> -1
          [] OTHER -> -9]
Logits == {Peaked(i) : i \in 1..Len(VocabInOrder)} \cup {<<NotFinite, 1, 0>>}

Samplings == {[temperature |-> "zero", top_k |-> 3],
              [temperature |-> "warm", top_k |-> 2],
              [temperature |-> "tiny", top_k |-> 3],
              [temperature |-> "warm", top_k |-> 0]}

(* All conversations of up to three messages; a system text may be empty. *)
Said(i) == [role : {"system", "user", "assistant", "tool"}, content : {i}]
           \cup {[role |-> "system", content |-> Empty]}
Talks == {<<>>} \cup {<<m>> : m \in Said(1)}
         \cup {<<m, n>> : m \in Said(1), n \in Said(2)}
         \cup {<<m, n, o>> : m \in Said(1), n \in Said(2), o \in Said(3)}
Texts == {1, 2, 3, Empty}
Names == {"none", "mistral", "chatml"}
Architectures == {"qwen3", "llama3", "llama", "bert"}
=============================================================================
