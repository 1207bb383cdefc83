------------------------------- MODULE Sampler -------------------------------
(***************************************************************************)
(* LogitsSampler::sample of the core crate (generation.rs): from the       *)
(* logits of one position to the tokens it may return.  Tokens are their   *)
(* indices.  A logit is an integer or NotFinite; the weight exp(-d) of a   *)
(* candidate d below the peak is 2^(ExpRange - 1 - d), and 0 where the     *)
(* exponential underflows, from ExpRange on.                               *)
(***************************************************************************)
EXTENDS Integers, Sequences, FiniteSets

LOCAL Ext == INSTANCE SequencesExt

CONSTANTS
    NotFinite,  \* NaN or an infinity among the logits
    ExpRange    \* the distance from the peak at which exp underflows

ASSUME SamplerAssumption ==
    /\ NotFinite \notin Int
    /\ ExpRange \in Nat \ {0}

(* "zero" is greedy; logits divided by "tiny" overflow unless they are 0.  *)
Temperatures == {"zero", "warm", "tiny", "negative"}

(* What GenerationConfig::validate accepts.  top_k 0 stands for Some(0),   *)
(* and a top_k past the vocabulary for None.                               *)
ValidSampling(sampling) ==
    sampling.temperature # "negative" /\ sampling.top_k > 0

ValidLogits(logits) ==
    logits # <<>> /\ \A i \in 1..Len(logits) : logits[i] # NotFinite

(* max_by returns the last of several maxima. *)
Argmax(logits) ==
    CHOOSE i \in 1..Len(logits) : \A j \in 1..Len(logits) :
        logits[j] < logits[i] \/ (logits[j] = logits[i] /\ j <= i)

AtMost(s, n) == SubSeq(s, 1, IF n < Len(s) THEN n ELSE Len(s))

(* A stable sort, the largest logit first. *)
Precedes(logits, i, j) ==
    logits[i] > logits[j] \/ (logits[i] = logits[j] /\ i < j)

Sorted(logits, indices) ==
    [rank \in 1..Cardinality(indices) |->
        CHOOSE i \in indices :
            Cardinality({j \in indices : Precedes(logits, j, i)}) = rank - 1]

(* Truncated in the order of the vocabulary, sorted only then. *)
CandidatesUnsorted(logits, top_k) ==
    Sorted(logits, {i \in 1..Len(logits) : i <= top_k})

Candidates(logits, top_k) ==
    AtMost(Sorted(logits, 1..Len(logits)), top_k)

(* Dividing by a tiny temperature turns the peak into an infinity, whose   *)
(* own weight is exp(inf - inf): not a number, and nor is the total.       *)
WeightsOverflow(logits, candidates, temperature) ==
    temperature = "tiny" /\ logits[candidates[1]] # 0

Weight(logits, candidates, temperature, i) ==
    LET d == logits[candidates[1]] - logits[candidates[i]] IN
    IF d = 0 THEN 2^(ExpRange - 1)
    ELSE IF temperature = "tiny" \/ d >= ExpRange THEN 0
    ELSE 2^(ExpRange - 1 - d)

(* What the first n candidates weigh together. *)
Upto(weights, n) == Ext!FoldLeft(+, 0, SubSeq(weights, 1, n))

(* The candidate at which the threshold is used up.  Rounding may leave a  *)
(* rest of it after the last one, which is then returned.                  *)
Picked(weights, threshold) ==
    LET hits == {n \in 1..Len(weights) : threshold <= Upto(weights, n)} IN
    IF hits = {} THEN Len(weights)
    ELSE CHOOSE n \in hits : \A m \in hits : n <= m

(* The indices that `sample` may return; none where it returns an error.   *)
(* A threshold past the total stands for the rest that rounding leaves.    *)
Sampled(logits, sampling) ==
    IF ~ValidLogits(logits) THEN {}
    ELSE IF sampling.temperature = "zero" THEN {Argmax(logits)}
    ELSE LET candidates == Candidates(logits, sampling.top_k)
             weights == [i \in 1..Len(candidates) |->
                 Weight(logits, candidates, sampling.temperature, i)]
             total == Upto(weights, Len(weights)) IN
         IF WeightsOverflow(logits, candidates, sampling.temperature) THEN {}
         ELSE {candidates[Picked(weights, t)] : t \in 0..(total + 1)}
=============================================================================
