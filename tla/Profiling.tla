----------------------------- MODULE Profiling ------------------------------
(***************************************************************************)
(* The process-wide phase counters (models crate, profiling.rs): relaxed   *)
(* atomics that generating threads add to and that a Python thread reads   *)
(* one by one, with or without a reset.  An addition and a swap are atomic *)
(* on one counter; several of them take effect in any order.  The counters *)
(* of times are left out: they are used like those of calls.               *)
(***************************************************************************)
EXTENDS Naturals

CONSTANT CounterRange       \* 2^64 in the code

VARIABLES
    enabled,    \* RASE_PROFILE, read once per process
    counter,    \* the counters
    due,        \* what the thread in a forward pass has yet to count
    unread,     \* the counters that the snapshot in progress has yet to read
    reset,      \* whether it resets what it reads
    owed        \* history: what was done and is in no resetting snapshot

profile == <<enabled, counter, due, unread, reset, owed>>

ASSUME ProfilingAssumption == CounterRange \in Nat \ {0}
-----------------------------------------------------------------------------
Phase == {"prefill_calls", "prefill_tokens", "decode_steps"}

Nothing == [c \in {} |-> 0]

ProfilingInit ==
    /\ enabled \in BOOLEAN
    /\ counter = [c \in Phase |-> 0]
    /\ due = Nothing
    /\ unread = {}
    /\ reset = FALSE
    /\ owed = [c \in Phase |-> 0]

(* What a forward pass of l tokens counts. *)
Counts(l) == IF l = 1 THEN [decode_steps |-> 1]
             ELSE [prefill_calls |-> 1, prefill_tokens |-> l]

(* A forward pass reports itself; nothing is counted when disabled. *)
Report(l) ==
    /\ due' = IF enabled THEN Counts(l) ELSE Nothing
    /\ owed' = [c \in Phase |-> IF c \in DOMAIN due'
                                THEN (owed[c] + due'[c]) % CounterRange
                                ELSE owed[c]]
    /\ UNCHANGED <<enabled, counter, unread, reset>>

(* count: one fetch_add. *)
Count ==
    /\ \E c \in DOMAIN due :
        /\ counter' = [counter EXCEPT ![c] = (@ + due[c]) % CounterRange]
        /\ due' = [d \in DOMAIN due \ {c} |-> due[d]]
    /\ UNCHANGED <<enabled, unread, reset, owed>>

(* profile_snapshot(reset) of a Python thread. *)
SnapshotStart ==
    /\ unread = {}
    /\ unread' = Phase
    /\ reset' \in BOOLEAN
    /\ UNCHANGED <<enabled, counter, due, owed>>

Reported(c) == (owed[c] + CounterRange - counter[c]) % CounterRange

(* Reads all counters first and sets them to zero afterwards. *)
ReadThenReset ==
    /\ \E c \in unread :
        /\ unread' = unread \ {c}
        /\ owed' = IF reset THEN [owed EXCEPT ![c] = Reported(c)] ELSE owed
        /\ counter' = IF reset /\ unread' = {} THEN [d \in Phase |-> 0]
                      ELSE counter
    /\ UNCHANGED <<enabled, due, reset>>

(* Reads a counter: a load, or a swap with zero. *)
ReadCounter ==
    /\ \E c \in unread :
        /\ unread' = unread \ {c}
        /\ owed' = IF reset THEN [owed EXCEPT ![c] = Reported(c)] ELSE owed
        /\ counter' = IF reset THEN [counter EXCEPT ![c] = 0] ELSE counter
    /\ UNCHANGED <<enabled, due, reset>>
-----------------------------------------------------------------------------
(* When no snapshot is under way and no pass is about to count, the        *)
(* counters hold exactly the passes of Qwen3 models that no resetting      *)
(* snapshot has reported, and none of Llama's, which leave no trace there: *)
(* whatever additions ran between its reads, no pass is lost and none is   *)
(* reported twice (snapshot's swap, count and the counts of forward).      *)
EveryPassIsReported == unread = {} /\ due = Nothing => counter = owed
=============================================================================
