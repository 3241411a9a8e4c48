---------------------------- MODULE AtLeastOnce ----------------------------
(***************************************************************************)
(* What a consumer group promises its stream: "acks only after the handler *)
(* succeeds - at-least-once delivery" (README.md:9).  No consumers, no     *)
(* ownership, no clocks: an entry is delivered, handled any number of      *)
(* times, and acknowledged once it has been handled.  Losing entries is    *)
(* the one step that breaks the promise, so it is an action of its own.    *)
(***************************************************************************)
CONSTANT Entries

VARIABLES
    delivered,   \* entries the group has handed to some consumer
    pending,     \* delivered and not acknowledged
    handled,     \* entries the handler has succeeded on
    lost         \* dropped from the pending list without acknowledgement

vars == <<delivered, pending, handled, lost>>

Init ==
    /\ delivered = {}
    /\ pending = {}
    /\ handled = {}
    /\ lost = {}

Deliver ==
    \E S \in SUBSET (Entries \ delivered) :
        /\ delivered' = delivered \cup S
        /\ pending' = pending \cup S
        /\ UNCHANGED <<handled, lost>>

Handle ==
    \E e \in delivered :
        /\ handled' = handled \cup {e}
        /\ UNCHANGED <<delivered, pending, lost>>

Ack ==
    \E e \in handled :
        /\ pending' = pending \ {e}
        /\ UNCHANGED <<delivered, handled, lost>>

Lose ==
    \E S \in SUBSET pending :
        /\ pending' = pending \ S
        /\ lost' = lost \cup S
        /\ UNCHANGED <<delivered, handled>>

Next == Deliver \/ Handle \/ Ack \/ Lose

Spec == Init /\ [][Next]_vars
=============================================================================
