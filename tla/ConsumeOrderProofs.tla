------------------------- MODULE ConsumeOrderProofs -------------------------
(***************************************************************************)
(* What a consumer may do with an entry it has: poison is never             *)
(* acknowledged, nothing is handled twice without a reason, and one consumer *)
(* handles in stream order.  All three rest on what one step of a consumer   *)
(* can do to its main loop and to the owners of entries (Footprint).         *)
(***************************************************************************)
EXTENDS ConsumeProofs

(* process() has published inFlight and not yet returned. *)
Busy == {"handle", "backoff", "ack", "ackwait"}
Acking == {"ack", "ackwait"}

(* Between two pages: no batch. *)
Between == {"exited", "self", "read", "returned"}

(* The seven things a step of c can do to its main loop. *)
Stays(c) == UNCHANGED <<pc[c], batch[c], inFlight[c], handled>>

Stops(c) ==
    /\ pc'[c] \notin Busy
    /\ batch'[c] = {}
    /\ inFlight'[c] = NoEntry
    /\ handled' = handled
    /\ Unacked(c) \subseteq disturbed'

Waits(c) ==
    /\ pc[c] \in Busy /\ pc'[c] \in Busy
    /\ pc[c] \in Acking <=> pc'[c] \in Acking
    /\ UNCHANGED <<batch[c], inFlight[c], handled>>

Polls(c) ==
    /\ pc[c] \notin Busy /\ pc'[c] \notin Busy
    /\ \A e \in batch'[c] :
          e \in batch[c] \/ owner[e] = NameOf[c] \/ (e \notin Delivered /\ owner'[e] = NameOf[c])
    /\ pc'[c] \in Between => batch'[c] \in {{}, IF pc[c] \in Between THEN batch[c] ELSE {}}
    /\ UNCHANGED <<inFlight[c], handled>>

Begins(c) ==
    /\ pc[c] \notin Busy /\ pc'[c] = "handle"
    /\ \E m \in batch[c] \ Malformed :
          batch'[c] = batch[c] \ {m} /\ inFlight'[c] = m
    /\ handled' = handled

Handles(c) ==
    /\ pc[c] = "handle" /\ pc'[c] = "ack"
    /\ inFlight[c] \notin Poisonous
    /\ handled' = handled \cup {inFlight[c]}
    /\ UNCHANGED <<batch[c], inFlight[c]>>

Acks(c) ==
    /\ pc[c] \in Busy /\ pc'[c] \notin Busy
    /\ owner'[inFlight[c]] = NoName
    /\ inFlight'[c] = NoEntry
    /\ pc'[c] \in Between => batch[c] = {}
    /\ UNCHANGED <<batch[c], handled>>

MainEffect(c) ==
    Stays(c) \/ Stops(c) \/ Waits(c) \/ Polls(c) \/ Begins(c) \/ Handles(c) \/ Acks(c)

(* What it can do to the rest: no other main loop changes, and a delivered    *)
(* entry gets a new owner only by being disturbed.                          *)
OthersKept(c) ==
    \A d \in Consumers \ {c} :
        UNCHANGED <<pc[d], batch[d], inFlight[d]>>

OwnersKept ==
    /\ disturbed \subseteq disturbed'
    /\ \A e \in Delivered \ disturbed' : owner'[e] \in {owner[e], NoName}

Footprint(c) == MainEffect(c) /\ OthersKept(c) /\ OwnersKept

(* XCLAIM of pending entries disturbs every entry whose owner it changes. *)
LEMMA XClaimOwners ==
  ASSUME TypeOK, NEW c \in Consumers, NEW ids, XClaim(c, ids)
  PROVE  OwnersKept
  BY DEF TypeOK, XClaim, OwnersKept, Delivered

(* XREADGROUP gives an owner to undelivered entries only. *)
LEMMA DeliverOwners ==
  ASSUME TypeOK, NEW c \in Consumers, Deliver(c), disturbed' = disturbed
  PROVE  /\ OwnersKept
         /\ \A e \in Fetched : e \notin Delivered /\ owner'[e] = NameOf[c]
  BY ConstantsAssumption
  DEF TypeOK, Deliver, Fetched, LastFetched, OwnersKept, Delivered, Entries

(* XACK gives no entry a new owner. *)
LEMMA XAckOwners ==
  ASSUME TypeOK, NEW x, XAck(x), disturbed \subseteq disturbed'
  PROVE  OwnersKept
  BY DEF TypeOK, XAck, OwnersKept, Delivered

(* Run returning is a stop. *)
LEMMA ReturnStops ==
  ASSUME TypeOK, NEW c \in Consumers, Return(c)
  PROVE  Stops(c) /\ OthersKept(c) /\ disturbed \subseteq disturbed'
  BY DEF TypeOK, Return, DropMain, Stops, OthersKept, Busy

(* Every step of a consumer has one of the seven effects. *)
LEMMA StepFootprint ==
  ASSUME IInv, NEW c \in Consumers, MainLoop(c) \/ Background(c) \/ Process(c)
  PROVE  Footprint(c)
  <1> USE DEF IInv, Footprint, MainEffect
  <1>1. CASE SelfPending(c)
    <2>1. Polls(c)
      BY <1>1, FirstNSubset
      DEF SelfPending, Owned, ghostVars, TypeOK, Polls, Busy, Between
    <2> QED
      BY <1>1, <2>1
      DEF SelfPending, redisVars, ghostVars, TypeOK, OthersKept, OwnersKept
  <1>2. CASE SelfClaim(c)
    <2>1. Polls(c)
      BY <1>2 DEF SelfClaim, TypeOK, Polls, Busy, Between
    <2>2. OwnersKept
      BY <1>2, XClaimOwners DEF SelfClaim
    <2> QED
      BY <1>2, <2>1, <2>2 DEF SelfClaim, TypeOK, OthersKept
  <1>3. CASE Read(c)
    <2>1. /\ OwnersKept
          /\ \A e \in Fetched : e \notin Delivered /\ owner'[e] = NameOf[c]
      BY <1>3, DeliverOwners DEF Read, ghostVars
    <2>2. Polls(c)
      BY <1>3, <2>1 DEF Read, ghostVars, TypeOK, Polls, Busy, Between
    <2> QED
      BY <1>3, <2>1, <2>2 DEF Read, TypeOK, OthersKept
  <1>4. CASE ReadEmpty(c)
    BY <1>4 DEF ReadEmpty, redisVars, ghostVars, TypeOK, Polls, Busy, Between,
                OthersKept, OwnersKept
  <1>5. CASE ReadReplyLost(c)
    <2>1. OwnersKept
      BY <1>5, DeliverOwners DEF ReadReplyLost
    <2> QED
      BY <1>5, <2>1 DEF ReadReplyLost, mainVars, Stays, OthersKept
  <1>6. CASE RedisError(c)
    BY <1>6, ReturnStops DEF RedisError, redisVars, OwnersKept
  <1>7. CASE BeginProcess(c)
    <2>1. PICK m \in batch[c] :
             /\ pc[c] = "process"
             /\ \/ Return(c)
                \/ /\ m \notin Malformed
                   /\ inFlight' = [inFlight EXCEPT ![c] = m]
                   /\ batch' = [batch EXCEPT ![c] = @ \ {m}]
                   /\ pc' = [pc EXCEPT ![c] = "handle"]
                   /\ UNCHANGED ghostVars
             /\ UNCHANGED redisVars
      BY <1>7, FirstNSubset DEF BeginProcess, OnFatal, Publish
    <2>2. CASE Return(c)
      BY <2>1, <2>2, ReturnStops DEF redisVars, OwnersKept
    <2>3. CASE ~Return(c)
      BY <2>1, <2>3
      DEF redisVars, ghostVars, TypeOK, Begins, Busy, OthersKept, OwnersKept
    <2> QED
      BY <2>2, <2>3
  <1>8. CASE HandleOk(c)
    BY <1>8 DEF HandleOk, redisVars, TypeOK, Handles, OthersKept, OwnersKept
  <1>9. CASE HandleTransient(c)
    <2>1. CASE Return(c)
      BY <1>9, <2>1, ReturnStops DEF HandleTransient, redisVars, OwnersKept
    <2>2. CASE ~Return(c)
      BY <1>9, <2>2
      DEF HandleTransient, redisVars, ghostVars, TypeOK, Waits, Busy, Acking,
          OthersKept, OwnersKept
    <2> QED
      BY <2>1, <2>2
  <1>10. CASE HandleFatal(c)
    BY <1>10, ReturnStops DEF HandleFatal, OnFatal, redisVars, OwnersKept
  <1>11. CASE BackoffElapsed(c)
    BY <1>11 DEF BackoffElapsed, Goto, redisVars, ghostVars, TypeOK, Waits,
                 Busy, Acking, OthersKept, OwnersKept
  <1>12. CASE AckOk(c)
    <2>1. OwnersKept
      BY <1>12, XAckOwners DEF AckOk, ghostVars
    <2>2. Acks(c)
      BY <1>12
      DEF AckOk, Finish, XAck, ghostVars, TypeOK, Working, Acks, Busy, Between
    <2> QED
      BY <1>12, <2>1, <2>2 DEF AckOk, Finish, TypeOK, OthersKept
  <1>13. CASE AckError(c)
    <2>1. disturbed \subseteq disturbed'
      BY <1>13, ReturnStops DEF AckError, ghostVars
    <2>2. OwnersKept
      BY <1>13, <2>1, XAckOwners DEF AckError, OwnersKept
    <2>3. CASE Return(c)
      BY <2>2, <2>3, ReturnStops
    <2>4. CASE ~Return(c)
      BY <1>13, <2>2, <2>4
      DEF AckError, ghostVars, TypeOK, Waits, Busy, Acking, OthersKept
    <2> QED
      BY <2>3, <2>4
  <1>14. CASE AckRetry(c)
    BY <1>14 DEF AckRetry, Goto, redisVars, ghostVars, TypeOK, Waits, Busy,
                 Acking, OthersKept, OwnersKept
  <1>15. CASE WaitAborted(c)
    BY <1>15, ReturnStops DEF WaitAborted, redisVars, OwnersKept
  <1>16. CASE HeartbeatLoad(c)
    BY <1>16 DEF HeartbeatLoad, redisVars, mainVars, ghostVars, Stays,
                 OthersKept, OwnersKept
  <1>17. CASE HeartbeatClaim(c)
    <2>1. OwnersKept
      BY <1>17, XClaimOwners DEF HeartbeatClaim
    <2> QED
      BY <1>17, <2>1 DEF HeartbeatClaim, mainVars, Stays, OthersKept
  <1>18. CASE HeartbeatFail(c)
    BY <1>18 DEF HeartbeatFail, redisVars, mainVars, ghostVars, Stays,
                 OthersKept, OwnersKept
  <1>19. CASE PeerPending(c)
    BY <1>19 DEF PeerPending, redisVars, mainVars, ghostVars, Stays,
                 OthersKept, OwnersKept
  <1>20. CASE PeerClaim(c)
    <2>1. OwnersKept
      BY <1>20, XClaimOwners DEF PeerClaim
    <2> QED
      BY <1>20, <2>1 DEF PeerClaim, mainVars, Stays, OthersKept
  <1>21. CASE PeerFail(c)
    BY <1>21 DEF PeerFail, redisVars, mainVars, ghostVars, Stays, OthersKept,
                 OwnersKept
  <1>22. CASE GCInfo(c)
    BY <1>22 DEF GCInfo, redisVars, mainVars, ghostVars, Stays, OthersKept,
                 OwnersKept
  <1>23. CASE GCDelete(c)
    BY <1>23 DEF GCDelete, mainVars, TypeOK, Delivered, Stays, OthersKept,
                 OwnersKept
  <1>24. CASE GCFail(c)
    BY <1>24 DEF GCFail, redisVars, mainVars, ghostVars, Stays, OthersKept,
                 OwnersKept
  <1>25. CASE EnsureGroup(c)
    BY <1>25 DEF EnsureGroup, ghostVars, TypeOK, Polls, Busy, Between, OthersKept,
                 OwnersKept
  <1>26. CASE ProcessExit(c)
    BY <1>26 DEF ProcessExit, Exit, redisVars, ghostVars, TypeOK, Polls, Busy, Between,
                 OthersKept, OwnersKept
  <1>27. CASE Crash(c)
    BY <1>27 DEF Crash, Exit, DropMain, redisVars, TypeOK, Stops, Busy,
                 OthersKept, OwnersKept
  <1>28. CASE Cancel(c)
    BY <1>28 DEF Cancel, redisVars, ghostVars, Stays, OthersKept, OwnersKept
  <1> QED
    BY <1>1, <1>2, <1>3, <1>4, <1>5, <1>6, <1>7, <1>8, <1>9, <1>10, <1>11,
       <1>12, <1>13, <1>14, <1>15, <1>16, <1>17, <1>18, <1>19, <1>20,
       <1>21, <1>22, <1>23, <1>24, <1>25, <1>26, <1>27, <1>28
       DEF MainLoop, Background, Process

(* A step is one of a consumer, or leaves all of them and the owners alone. *)
LEMMA AnyFootprint ==
  ASSUME IInv, [Next]_vars
  PROVE  \/ \E c \in Consumers : Footprint(c)
         \/ UNCHANGED <<pc, batch, inFlight, handled, disturbed, owner>>
  <1>1. CASE XAdd
    BY <1>1 DEF XAdd, mainVars, ghostVars
  <1>2. CASE \E e \in Entries : EntryIdles(e)
    BY <1>2 DEF EntryIdles, mainVars, ghostVars
  <1>3. CASE \E n \in Names : MemberIdles(n)
    BY <1>3 DEF MemberIdles, mainVars, ghostVars
  <1>4. CASE \E c \in Consumers : MainLoop(c) \/ Background(c) \/ Process(c)
    BY <1>4, StepFootprint
  <1>5. CASE UNCHANGED vars
    BY <1>5 DEF vars, redisVars, mainVars, ghostVars
  <1> QED
    BY <1>1, <1>2, <1>3, <1>4, <1>5 DEF Next

-----------------------------------------------------------------------------
(* Poison.                                                                  *)

(* Nothing poisonous or malformed is ever counted as handled: Parse stands    *)
(* before inFlight, and no handler succeeds on poison.                      *)
Clean ==
    /\ handled \cap (Poisonous \cup Malformed) = {}
    /\ \A c \in Consumers : pc[c] \in Busy => inFlight[c] \notin Malformed

(* Every step keeps Clean: only a successful Handle adds to handled. *)
LEMMA CleanStep ==
  ASSUME IInv, Clean, [Next]_vars
  PROVE  Clean'
  <1>1. ASSUME NEW c \in Consumers, MainEffect(c), OthersKept(c)
        PROVE  Clean'
    <2>1. handled' \cap (Poisonous \cup Malformed) = {}
      BY <1>1 DEF Clean, MainEffect, Stays, Stops, Waits, Polls, Begins, Handles,
                  Acks, Busy
    <2>2. pc'[c] \in Busy => inFlight'[c] \notin Malformed
      BY <1>1 DEF Clean, MainEffect, Stays, Stops, Waits, Polls, Begins, Handles,
                  Acks, Busy
    <2> QED
      BY <1>1, <2>1, <2>2 DEF Clean, OthersKept
  <1> QED
    BY <1>1, AnyFootprint DEF Clean, Footprint

(* FailLoud: whatever crashes, is claimed away or retried, an entry that is     *)
(* poison or malformed is never acknowledged.  It stays pending until its    *)
(* member is deleted from the group.                                        *)
THEOREM PoisonNeverAcked == Spec => []PoisonStays
  <1>1. Init => IInv /\ Clean
    BY InitIInv DEF Init, Clean, Busy
  <1>2. IInv /\ Clean /\ [Next]_vars => IInv' /\ Clean'
    BY IInvStep, CleanStep
  <1>3. IInv /\ Clean => PoisonStays
    BY DEF IInv, Accounting, NoLoss, Clean, PoisonStays
  <1> QED
    BY <1>1, <1>2, <1>3, PTL DEF Spec

-----------------------------------------------------------------------------
(* Duplicates.                                                              *)

(* Host names are unique, as among the pods of one deployment; two bindings   *)
(* of one process on one stream would share theirs.                         *)
DistinctNames == \A c, d \in Consumers : NameOf[c] = NameOf[d] => c = d

Holds(c, e) == e \in batch[c] \/ inFlight[c] = e

(* process() works on one entry at a time, which it has taken off the batch. *)
OneAtATime ==
    \A c \in Consumers :
        /\ inFlight[c] # NoEntry <=> pc[c] \in Busy
        /\ inFlight[c] \notin batch[c]
        /\ pc[c] \in Between => batch[c] = {}

(* An entry that never changed owner is held by one consumer at most, and no  *)
(* one but that consumer's name owns it.                                    *)
HeldByOwner ==
    \A e \in Entries \ disturbed : \A c \in Consumers :
        Holds(c, e) => /\ owner[e] \in {NameOf[c], NoName}
                       /\ \A d \in Consumers : Holds(d, e) => d = c

(* Once such an entry is handled, it is out of every batch, and nobody finds  *)
(* it in its PEL but the consumer that is about to acknowledge it.          *)
DoneOnce ==
    \A e \in handled \ disturbed : \A c \in Consumers :
        /\ e \notin batch[c]
        /\ inFlight[c] = e => pc[c] \in Acking
        /\ owner[e] = NameOf[c] => inFlight[c] = e

Single == OneAtATime /\ HeldByOwner /\ DoneOnce

(* Every step keeps one entry at a time in process(). *)
LEMMA OneAtATimeStep ==
  ASSUME IInv, OneAtATime, [Next]_vars
  PROVE  OneAtATime'
  <1>1. ASSUME NEW c \in Consumers, MainEffect(c), OthersKept(c)
        PROVE  OneAtATime'
    <2>1. /\ inFlight'[c] # NoEntry <=> pc'[c] \in Busy
          /\ inFlight'[c] \notin batch'[c]
          /\ pc'[c] \in Between => batch'[c] = {}
      <3>1. NoEntry \notin Entries /\ batch[c] \subseteq Entries /\ batch'[c] \subseteq Entries
        BY IInvStep, ConstantsAssumption DEF IInv, TypeOK, Entries, NoEntry
      <3> QED
        BY <1>1, <3>1
        DEF OneAtATime, MainEffect, Stays, Stops, Waits, Polls, Begins, Handles,
            Acks, Busy, Between
    <2> QED
      BY <1>1, <2>1 DEF OneAtATime, OthersKept
  <1> QED
    BY <1>1, AnyFootprint DEF OneAtATime, Footprint

(* Every step keeps undisturbed entries with their one holder: to get hold of  *)
(* an entry a consumer must own it already or be the first to read it.     *)
LEMMA HeldByOwnerStep ==
  ASSUME DistinctNames, IInv, Single, [Next]_vars
  PROVE  HeldByOwner'
  <1>0. CASE UNCHANGED <<pc, batch, inFlight, handled, disturbed, owner>>
    BY <1>0 DEF Single, HeldByOwner, Holds
  <1>1. ASSUME NEW c \in Consumers, Footprint(c)
        PROVE  HeldByOwner'
    <2> SUFFICES ASSUME NEW e \in Entries \ disturbed', NEW d \in Consumers,
                        Holds(d, e)'
                 PROVE  /\ owner'[e] \in {NameOf[d], NoName}
                        /\ \A f \in Consumers : Holds(f, e)' => f = d
      BY DEF HeldByOwner
    <2>1. e \in Entries \ disturbed
      BY <1>1 DEF Footprint, OwnersKept
    (* c has e now: it had it before, or owned it, or has just read it. *)
    <2>2. \A f \in Consumers :
             Holds(f, e)' => \/ Holds(f, e)
                             \/ f = c /\ owner[e] = NameOf[c]
                             \/ f = c /\ e \notin Delivered /\ owner'[e] = NameOf[c]
      <3>1. Holds(c, e)' => \/ Holds(c, e)
                            \/ owner[e] = NameOf[c]
                            \/ e \notin Delivered /\ owner'[e] = NameOf[c]
        BY <1>1, ConstantsAssumption
        DEF Footprint, MainEffect, Stays, Stops, Waits, Polls, Begins, Handles,
            Acks, Holds, Entries, NoEntry
      <3> QED
        BY <1>1, <3>1 DEF Footprint, OthersKept, Holds
    <2>3. \A f \in Consumers : Holds(f, e) => e \in Delivered
      BY ConstantsAssumption DEF IInv, HeldDelivered, Holds, Entries, NoEntry
    <2>4. \A f \in Consumers : NameOf[f] # NoName
      BY ConstantsAssumption
    <2>5. \A f \in Consumers : Holds(f, e)' => f = d
      BY <2>1, <2>2, <2>3, <2>4 DEF Single, HeldByOwner, DistinctNames
    <2>6. CASE e \in Delivered
      BY <1>1, <2>1, <2>2, <2>5, <2>6 DEF Single, HeldByOwner, Footprint, OwnersKept
    <2>7. CASE e \notin Delivered
      <3>1. owner[e] = NoName
        BY <2>1, <2>7 DEF IInv, Accounting, Pending
      <3> QED
        BY <2>2, <2>3, <2>4, <2>5, <2>7, <3>1
    <2> QED
      BY <2>6, <2>7
  <1> QED
    BY <1>0, <1>1, AnyFootprint

(* Every step keeps a handled, undisturbed entry from being handed out again. *)
LEMMA DoneOnceStep ==
  ASSUME DistinctNames, IInv, Single, [Next]_vars
  PROVE  DoneOnce'
  <1>0. CASE UNCHANGED <<pc, batch, inFlight, handled, disturbed, owner>>
    BY <1>0 DEF Single, DoneOnce
  <1>1. ASSUME NEW c \in Consumers, Footprint(c)
        PROVE  DoneOnce'
    <2> SUFFICES ASSUME NEW e \in handled' \ disturbed', NEW d \in Consumers
                 PROVE  /\ e \notin batch'[d]
                        /\ inFlight'[d] = e => pc'[d] \in Acking
                        /\ owner'[e] = NameOf[d] => inFlight'[d] = e
      BY DEF DoneOnce
    <2>1. e \in Entries \ disturbed /\ e # NoEntry
      BY <1>1, IInvStep, ConstantsAssumption
      DEF IInv, TypeOK, Footprint, OwnersKept, Entries, NoEntry
    <2>2. e \in Delivered
      BY ConstantsAssumption, <1>1
      DEF IInv, HeldDelivered, Accounting, Working, Entries, NoEntry, Footprint,
          MainEffect, Stays, Stops, Waits, Polls, Begins, Handles, Acks, Busy
    <2>3. owner'[e] \in {owner[e], NoName} /\ NameOf[d] # NoName
      BY <1>1, <2>2, ConstantsAssumption DEF Footprint, OwnersKept
    <2>4. CASE e \notin handled
      (* c has just handled it. *)
      <3>1. /\ Handles(c) /\ inFlight[c] = e /\ Holds(c, e)
            /\ UNCHANGED <<batch[c], inFlight[c]>>
        BY <1>1, <2>4
        DEF Footprint, MainEffect, Stays, Stops, Waits, Polls, Begins, Handles,
            Acks, Holds
      <3>2. CASE d = c
        BY <3>1, <3>2 DEF Single, OneAtATime, Handles, Acking
      <3>3. CASE d # c
        <4>1. ~Holds(d, e) /\ owner[e] \in {NameOf[c], NoName}
          BY <2>1, <3>1, <3>3 DEF Single, HeldByOwner
        <4> QED
          BY <1>1, <2>3, <3>3, <4>1
          DEF Footprint, OthersKept, Holds, DistinctNames
      <3> QED
        BY <3>2, <3>3
    <2>5. CASE e \in handled
      <3>1. /\ e \notin batch[d]
            /\ inFlight[d] = e => pc[d] \in Acking
            /\ owner[e] = NameOf[d] => inFlight[d] = e
        BY <2>1, <2>5 DEF Single, DoneOnce
      <3>2. CASE d # c
        BY <1>1, <2>3, <3>1, <3>2 DEF Footprint, OthersKept
      <3>3. CASE d = c
        <4>1. inFlight[c] = e <=> pc[c] \in Acking /\ inFlight[c] = e
          BY <3>1, <3>3
        <4>2. CASE Stays(c) \/ Waits(c)
          BY <2>3, <3>1, <3>3, <4>2 DEF Stays, Waits
        <4>3. CASE Stops(c)
          BY <2>1, <2>3, <3>1, <3>3, <4>3 DEF Stops, Unacked, Acking
        <4>4. CASE Polls(c)
          <5>1. inFlight[c] # e
            BY <2>1, <4>4 DEF Polls, Single, OneAtATime
          <5> QED
            BY <2>2, <2>3, <3>1, <3>3, <4>4, <5>1 DEF Polls
        <4>5. CASE Begins(c)
          <5>1. inFlight[c] # e
            BY <2>1, <4>5 DEF Begins, Single, OneAtATime
          <5> QED
            BY <2>3, <3>1, <3>3, <4>5, <5>1 DEF Begins
        <4>6. CASE Handles(c)
          BY <2>3, <3>1, <3>3, <4>6 DEF Handles, Acking
        <4>7. CASE Acks(c)
          BY <2>1, <2>3, <3>1, <3>3, <4>7 DEF Acks
        <4> QED
          BY <1>1, <4>2, <4>3, <4>4, <4>5, <4>6, <4>7 DEF Footprint, MainEffect
      <3> QED
        BY <3>2, <3>3
    <2> QED
      BY <2>4, <2>5
  <1> QED
    BY <1>0, <1>1, AnyFootprint

(* The initial states have nothing to duplicate. *)
LEMMA InitSingle == Init => Single
  BY ConstantsAssumption
  DEF Init, Single, OneAtATime, HeldByOwner, DoneOnce, Holds, Busy, Between,
      Entries, NoEntry

(* Where names are distinct, an entry is handled a second time only if it was    *)
(* claimed by another consumer in between, or if its consumer stopped between *)
(* Handle and XACK: no other interleaving of the main loops, heartbeats,     *)
(* reclaims and deletions hands it out again.                               *)
THEOREM DuplicatesExcused ==
  ASSUME DistinctNames
  PROVE  Spec => NoUnexcusedDuplicate
  <1>1. Init => IInv /\ Single
    BY InitIInv, InitSingle
  <1>2. IInv /\ Single /\ [Next]_vars => IInv' /\ Single'
    BY IInvStep, OneAtATimeStep, HeldByOwnerStep, DoneOnceStep DEF Single
  <1>3. IInv /\ Single => \A e \in Entries : HandlesAgain(e) => e \in disturbed
    BY DEF Single, DoneOnce, HandlesAgain, Acking
  <1> QED
    BY <1>1, <1>2, <1>3, PTL DEF Spec, NoUnexcusedDuplicate

(* What selfReclaim's comment takes for granted holds where names are distinct:  *)
(* an entry it lists as its own, and that never changed owner, is not being  *)
(* worked on by a live peer.                                                *)
THEOREM NoLivePeer ==
  ASSUME DistinctNames
  PROVE  Spec => OwnPageUnshared
  <1>1. Init => IInv /\ Single
    BY InitIInv, InitSingle
  <1>2. IInv /\ Single /\ [Next]_vars => IInv' /\ Single'
    BY IInvStep, OneAtATimeStep, HeldByOwnerStep, DoneOnceStep DEF Single
  <1> DEFINE Unshared ==
        \A c, d \in Consumers :
            c # d /\ pc[c] = "self" /\ pc'[c] = "claim" =>
                \A e \in batch'[c] \ disturbed : inFlight[d] # e
  <1>3. ASSUME IInv, Single, [Next]_vars
        PROVE  Unshared
    <2> SUFFICES ASSUME NEW c \in Consumers, NEW d \in Consumers, c # d,
                        pc[c] = "self", pc'[c] = "claim",
                        NEW e \in batch'[c], e \notin disturbed, inFlight[d] = e
                 PROVE  FALSE
      OBVIOUS
    <2>1. MainEffect(c) /\ OthersKept(c)
      BY <1>3, AnyFootprint DEF Footprint, OthersKept
    <2>2. batch[c] = {}
      BY <1>3 DEF Single, OneAtATime, Between
    <2>3. owner[e] = NameOf[c] \/ e \notin Delivered
      BY <2>1, <2>2
      DEF MainEffect, Stays, Stops, Waits, Polls, Begins, Handles, Acks, Busy
    <2>4. e \in Entries /\ e \in Delivered
      BY <1>3, IInvStep, ConstantsAssumption
      DEF IInv, TypeOK, HeldDelivered, Entries, NoEntry
    <2>5. owner[e] \in {NameOf[d], NoName}
      BY <1>3, <2>4 DEF Single, HeldByOwner, Holds
    <2> QED
      BY <2>3, <2>4, <2>5, ConstantsAssumption DEF DistinctNames
  <1> QED
    BY <1>1, <1>2, <1>3, PTL DEF Spec, OwnPageUnshared

-----------------------------------------------------------------------------
(* Order.                                                                   *)

(* The stream has a single consumer. *)
OneConsumer == \A c, d \in Consumers : c = d

(* Then no other name owns an entry, and there is nobody to delete. *)
Alone ==
    /\ orphaned = {}
    /\ \A c \in Consumers :
        /\ gcTodo[c] \subseteq Names \ {NameOf[c]}
        /\ \A e \in Entries : owner[e] \in {NameOf[c], NoName}

(* Delivered in a reply that arrived, and not handled so far. *)
Todo == Delivered \ (handled \cup missed)

(* A page is cut off the front of what there is to do, is worked off from its  *)
(* own front, and new entries are read only when there is nothing left.     *)
PageInFront(c) ==
    pc[c] \in {"claim", "process"} \cup Busy =>
        /\ \A i \in Todo : \A m \in batch[c] : i < m => Holds(c, i)
        /\ next[c] = "read" => \A i \in Todo : Holds(c, i)

WorkInFront(c) ==
    pc[c] \in Busy =>
        /\ \A m \in batch[c] : inFlight[c] < m
        /\ \A i \in Todo : inFlight[c] <= i

Ordered ==
    /\ InOrder
    /\ \A c \in Consumers :
        /\ pc[c] = "read" => Todo = {}
        /\ PageInFront(c)
        /\ WorkInFront(c)

(* Sets of entries are finite. *)
LEMMA EntriesFinite ==
  ASSUME NEW S \in SUBSET Entries
  PROVE  IsFiniteSet(S) /\ S \subseteq Nat
  <1>1. IsFiniteSet(Entries) /\ Entries \subseteq Nat
    BY FS_Interval, ConstantsAssumption DEF Entries
  <1> QED
    BY <1>1, FS_Subset

(* A page is downward closed in the set it is taken from. *)
LEMMA FirstNClosed ==
  ASSUME NEW S \in SUBSET Entries, NEW n \in Nat,
         NEW e \in FirstN(S, n), NEW i \in S, i < e
  PROVE  i \in FirstN(S, n)
  <1> DEFINE Below(x) == {k \in S : k < x}
  <1>1. IsFiniteSet(S)
    BY EntriesFinite
  <1>2. IsFiniteSet(Below(i)) /\ IsFiniteSet(Below(e)) /\ Below(i) \subseteq Below(e)
    <2>1. S \subseteq Nat /\ e \in S
      BY EntriesFinite DEF FirstN
    <2>2. Below(i) \subseteq Below(e) /\ Below(e) \subseteq S
      <3>1. \A k \in S : k < i => k < e
        BY <2>1
      <3> QED
        BY <3>1
    <2>3. IsFiniteSet(Below(e))
      BY <1>1, <2>2, FS_Subset
    <2> QED
      BY <2>2, <2>3, FS_Subset
  <1>3. Cardinality(Below(i)) <= Cardinality(Below(e))
    BY <1>2, FS_Subset
  <1>4. Cardinality(Below(e)) < n
    BY DEF FirstN
  <1>5. Cardinality(Below(i)) \in Nat /\ Cardinality(Below(e)) \in Nat
    BY <1>2, FS_CardinalityType
  <1>6. Cardinality(Below(i)) < n
    BY <1>3, <1>4, <1>5
  <1> QED
    BY <1>6 DEF FirstN

(* A page that is not full is all there is. *)
LEMMA FirstNShort ==
  ASSUME NEW S \in SUBSET Entries, NEW n \in Nat,
         Cardinality(FirstN(S, n)) < n
  PROVE  FirstN(S, n) = S
  <1> SUFFICES ASSUME S \ FirstN(S, n) # {} PROVE FALSE
    BY FirstNSubset
  <1> DEFINE R == S \ FirstN(S, n)
  <1> DEFINE Below(x) == {k \in S : k < x}
  <1>1. R \subseteq Nat /\ S \subseteq Nat
    BY EntriesFinite
  <1>2. PICK x \in R : \A y \in R : ~(<<y, x>> \in OpToRel(<, Nat))
    BY <1>1, WFMin, NatLessThanWellFounded
  <1>3. \A y \in Nat : y < x => <<y, x>> \in OpToRel(<, Nat)
    BY <1>1, Zenon DEF OpToRel
  <1>4. Below(x) \in SUBSET FirstN(S, n)
    <2>1. \A y \in R : ~(y < x)
      BY <1>1, <1>2, <1>3, Zenon
    <2> QED
      BY <2>1
  <1>5. IsFiniteSet(FirstN(S, n))
    BY FirstNSubset, EntriesFinite
  <1>6. /\ Cardinality(Below(x)) <= Cardinality(FirstN(S, n))
        /\ Cardinality(Below(x)) \in Nat
        /\ Cardinality(FirstN(S, n)) \in Nat
    BY <1>4, <1>5, FS_Subset, FS_CardinalityType
  <1>7. Cardinality(Below(x)) < n
    BY <1>6
  <1> QED
    BY <1>2, <1>7 DEF FirstN

(* process() takes the smallest entry of the batch. *)
LEMMA FirstNOne ==
  ASSUME NEW S \in SUBSET Entries, NEW m \in FirstN(S, 1)
  PROVE  \A k \in S : m <= k
  <1> DEFINE Below == {k \in S : k < m}
  <1>1. IsFiniteSet(Below)
    BY EntriesFinite
  <1>2. Cardinality(Below) = 0
    <2>1. Cardinality(Below) < 1
      BY DEF FirstN
    <2>2. Cardinality(Below) \in Nat
      BY <1>1, FS_CardinalityType
    <2> QED
      BY <2>1, <2>2
  <1>3. Below = {}
    BY <1>1, <1>2, FS_EmptySet
  <1>4. m \in S /\ S \subseteq Nat
    BY EntriesFinite DEF FirstN
  <1> QED
    BY <1>3, <1>4

(* Each step of the only consumer leaves it alone. *)
LEMMA AloneStep ==
  ASSUME OneConsumer, IInv, Alone, [Next]_vars
  PROVE  Alone'
  <1> USE DEF Alone
  <1>1. CASE UNCHANGED <<owner, gcTodo, orphaned>>
    BY <1>1
  <1>2. ASSUME NEW c \in Consumers, NEW ids, XClaim(c, ids),
               UNCHANGED <<gcTodo, orphaned>>
        PROVE  Alone'
    BY <1>2 DEF XClaim, OneConsumer
  <1>3. ASSUME NEW c \in Consumers, Deliver(c), UNCHANGED <<gcTodo, orphaned>>
        PROVE  Alone'
    BY <1>3 DEF Deliver, OneConsumer
  <1>4. ASSUME NEW x, XAck(x), UNCHANGED <<gcTodo, orphaned>>
        PROVE  Alone'
    BY <1>4 DEF XAck, IInv, TypeOK
  <1>5. ASSUME NEW c \in Consumers, GCInfo(c)
        PROVE  Alone'
    BY <1>5 DEF GCInfo, GCCandidates, redisVars, ghostVars, IInv, TypeOK
  <1>6. ASSUME NEW c \in Consumers, GCDelete(c)
        PROVE  Alone'
    BY <1>6, ConstantsAssumption DEF GCDelete, Owned, IInv, TypeOK
  <1>7. ASSUME NEW c \in Consumers, GCFail(c)
        PROVE  Alone'
    BY <1>7 DEF GCFail, redisVars, ghostVars, IInv, TypeOK
  <1>8. ASSUME NEW c \in Consumers, Return(c), UNCHANGED owner
        PROVE  Alone'
    BY <1>1, <1>8 DEF Return, backVars
  <1>9. ASSUME NEW c \in Consumers, MainLoop(c)
        PROVE  Alone'
    <2>1. CASE SelfPending(c) \/ ReadEmpty(c) \/ HandleOk(c) \/ BackoffElapsed(c)
               \/ AckRetry(c)
      BY <1>1, <2>1 DEF SelfPending, ReadEmpty, HandleOk, BackoffElapsed, AckRetry,
                        Goto, redisVars, backVars, ghostVars
    <2>2. CASE SelfClaim(c)
      BY <1>2, <2>2 DEF SelfClaim, backVars
    <2>3. CASE Read(c) \/ ReadReplyLost(c)
      BY <1>3, <2>3 DEF Read, ReadReplyLost, backVars, ghostVars
    <2>4. CASE RedisError(c) \/ HandleFatal(c) \/ WaitAborted(c)
      BY <1>8, <2>4 DEF RedisError, HandleFatal, OnFatal, WaitAborted, redisVars
    <2>5. CASE BeginProcess(c)
      BY <1>1, <1>8, <2>5
      DEF BeginProcess, OnFatal, redisVars, backVars, ghostVars
    <2>6. CASE HandleTransient(c)
      BY <1>1, <1>8, <2>6
      DEF HandleTransient, redisVars, backVars, ghostVars
    <2>7. CASE AckOk(c)
      BY <1>4, <2>7 DEF AckOk, backVars, ghostVars
    <2>8. CASE AckError(c)
      <3>1. UNCHANGED <<gcTodo, orphaned>>
        BY <2>8 DEF AckError, Return, backVars, ghostVars
      <3> QED
        BY <1>1, <1>4, <2>8, <3>1 DEF AckError
    <2> QED
      BY <1>9, <2>1, <2>2, <2>3, <2>4, <2>5, <2>6, <2>7, <2>8 DEF MainLoop
  <1>10. ASSUME NEW c \in Consumers, Background(c)
         PROVE  Alone'
    <2>1. CASE HeartbeatLoad(c) \/ HeartbeatFail(c) \/ PeerPending(c) \/ PeerFail(c)
      BY <1>1, <2>1 DEF HeartbeatLoad, HeartbeatFail, PeerPending, PeerFail,
                        redisVars, ghostVars
    <2>2. CASE HeartbeatClaim(c) \/ PeerClaim(c)
      BY <1>2, <2>2 DEF HeartbeatClaim, PeerClaim
    <2> QED
      BY <1>5, <1>6, <1>7, <1>10, <2>1, <2>2 DEF Background
  <1>11. ASSUME NEW c \in Consumers, Process(c)
         PROVE  Alone'
    BY <1>11 DEF Process, EnsureGroup, ProcessExit, Crash, Cancel, Exit, redisVars,
                 backVars, ghostVars, IInv, TypeOK
  <1>12. CASE XAdd \/ (\E e \in Entries : EntryIdles(e))
              \/ (\E n \in Names : MemberIdles(n)) \/ UNCHANGED vars
    BY <1>1, <1>12 DEF XAdd, EntryIdles, MemberIdles, vars, redisVars, backVars,
                       ghostVars
  <1> QED
    BY <1>9, <1>10, <1>11, <1>12 DEF Next

(* What a step does to the order, but for the five that make it. *)
Keeps(c) ==
    /\ UNCHANGED <<batch[c], next[c], inFlight[c]>>
    /\ pc'[c] = pc[c] \/ (pc[c] \in Busy /\ pc'[c] \in Busy)

Leaves(c) == pc'[c] \in {"exited", "returned", "self"}

(* An entry is added to what is to be done by XREADGROUP alone. *)
LEMMA TodoShrinks ==
  ASSUME UNCHANGED <<base, last>>, handled \subseteq handled', missed \subseteq missed'
  PROVE  Todo' \subseteq Todo
  BY DEF Todo, Delivered

(* The lost reply of an XREADGROUP adds nothing. *)
LEMMA LostReplyAddsNothing ==
  ASSUME TypeOK, NEW c \in Consumers, Deliver(c), handled' = handled,
         missed' = missed \cup Fetched
  PROVE  Todo' \subseteq Todo
  BY ConstantsAssumption
  DEF TypeOK, Deliver, Todo, Delivered, Fetched, LastFetched, Entries

(* Each step of a consumer but five keeps its page, or leaves the loop, and    *)
(* none but XREADGROUP adds to what is to be done.                          *)
LEMMA StepOrder ==
  ASSUME IInv, NEW c \in Consumers, MainLoop(c) \/ Background(c) \/ Process(c)
  PROVE  \/ SelfPending(c) \/ SelfClaim(c) \/ Read(c) \/ AckOk(c)
         \/ /\ BeginProcess(c) \/ Keeps(c) \/ Leaves(c)
            /\ Todo' \subseteq Todo
  <1> USE DEF IInv, TypeOK
  <1>1. CASE ReadEmpty(c)
    BY <1>1, TodoShrinks DEF ReadEmpty, Leaves, redisVars, ghostVars
  <1>2. CASE ReadReplyLost(c)
    BY <1>2, LostReplyAddsNothing DEF ReadReplyLost, Keeps, mainVars
  <1>3. CASE RedisError(c) \/ HandleFatal(c) \/ WaitAborted(c)
    BY <1>3, TodoShrinks
    DEF RedisError, HandleFatal, OnFatal, WaitAborted, Return, Leaves, redisVars
  <1>4. CASE BeginProcess(c)
    BY <1>4, TodoShrinks DEF BeginProcess, OnFatal, Return, redisVars, ghostVars
  <1>5. CASE HandleOk(c)
    BY <1>5, TodoShrinks DEF HandleOk, Keeps, Busy, redisVars
  <1>6. CASE HandleTransient(c)
    BY <1>6, TodoShrinks
    DEF HandleTransient, Return, Keeps, Leaves, Busy, redisVars, ghostVars
  <1>7. CASE BackoffElapsed(c) \/ AckRetry(c)
    BY <1>7, TodoShrinks
    DEF BackoffElapsed, AckRetry, Goto, Keeps, Busy, redisVars, ghostVars
  <1>8. CASE AckError(c)
    BY <1>8, TodoShrinks
    DEF AckError, Return, Keeps, Leaves, Busy, ghostVars
  <1>9. CASE HeartbeatLoad(c) \/ HeartbeatFail(c) \/ PeerPending(c) \/ PeerFail(c)
             \/ GCInfo(c) \/ GCFail(c)
    BY <1>9, TodoShrinks
    DEF HeartbeatLoad, HeartbeatFail, PeerPending, PeerFail, GCInfo, GCFail, Keeps,
        redisVars, mainVars, ghostVars
  <1>10. CASE HeartbeatClaim(c) \/ PeerClaim(c)
    BY <1>10, TodoShrinks DEF HeartbeatClaim, PeerClaim, Keeps, mainVars
  <1>11. CASE GCDelete(c)
    BY <1>11, TodoShrinks DEF GCDelete, Keeps, mainVars
  <1>12. CASE EnsureGroup(c)
    <2>1. Todo' \subseteq Todo
      BY <1>12, TodoShrinks, ConstantsAssumption
      DEF EnsureGroup, ghostVars, Todo, Delivered, Entries
    <2> QED
      BY <1>12, <2>1 DEF EnsureGroup, Leaves
  <1>13. CASE ProcessExit(c) \/ Crash(c)
    BY <1>13, TodoShrinks DEF ProcessExit, Crash, Exit, Leaves, redisVars, ghostVars
  <1>14. CASE Cancel(c)
    BY <1>14, TodoShrinks DEF Cancel, Keeps, redisVars, ghostVars
  <1> QED
    BY <1>1, <1>2, <1>3, <1>4, <1>5, <1>6, <1>7, <1>8, <1>9, <1>10, <1>11, <1>12,
       <1>13, <1>14 DEF MainLoop, Background, Process

(* What is to be done is in the only consumer's PEL. *)
LEMMA TodoOwned ==
  ASSUME IInv, Alone, NEW c \in Consumers
  PROVE  Todo \subseteq Owned(NameOf[c]) /\ Todo \subseteq Pending /\ Todo \subseteq Entries
  BY DEF IInv, Accounting, NoLoss, Alone, Todo, Owned, Pending, Delivered

(* No step handles an entry while an earlier one is to be done. *)
LEMMA InOrderStep ==
  ASSUME IInv, Ordered, NEW c \in Consumers,
         MainLoop(c) \/ Background(c) \/ Process(c)
  PROVE  InOrder'
  <1>1. \A j \in handled, i \in Todo : ~(i < j)
    BY DEF Ordered, InOrder, Todo
  <1>2. /\ \A j \in handled : j \in Int /\ j <= last
        /\ \A i \in Todo : i \in Int
        /\ last \in Int
    BY ConstantsAssumption
    DEF IInv, TypeOK, Accounting, Todo, Delivered, Entries
  <1>3. CASE Read(c)
    <2>1. handled' = handled
      BY <1>3 DEF Read, ghostVars
    <2>2. \A i \in Todo' : i \in Todo \/ (i \in Int /\ last < i)
      BY <1>3, ConstantsAssumption
      DEF Read, Deliver, LastFetched, ghostVars, Todo, Delivered, IInv, TypeOK, Entries
    <2>3. \A j \in handled', i \in Todo' : ~(i < j)
      BY <1>1, <1>2, <2>1, <2>2
    <2> QED
      BY <2>3 DEF InOrder, Todo
  <1>4. CASE ~Read(c)
    <2>1. Todo' \subseteq Todo
      BY <1>4, StepOrder, TodoShrinks
      DEF SelfPending, SelfClaim, AckOk, redisVars, ghostVars
    <2>2. \A j \in handled' :
             j \in handled \/ (j = inFlight[c] /\ pc[c] \in Busy)
      BY StepFootprint
      DEF Footprint, MainEffect, Stays, Stops, Waits, Polls, Begins, Handles, Acks, Busy
    <2>3. pc[c] \in Busy => inFlight[c] \in Int /\ \A i \in Todo : inFlight[c] <= i
      BY ConstantsAssumption
      DEF Ordered, WorkInFront, Busy, IInv, Working, Entries
    <2>4. \A j \in handled', i \in Todo' : ~(i < j)
      BY <1>1, <1>2, <2>1, <2>2, <2>3
    <2> QED
      BY <2>4 DEF InOrder, Todo
  <1> QED
    BY <1>3, <1>4

(* Each step of the only consumer keeps the order of its page. *)
LEMMA PageStep ==
  ASSUME IInv, Single, Alone, Ordered, NEW c \in Consumers,
         MainLoop(c) \/ Background(c) \/ Process(c)
  PROVE  (pc[c] = "read" => Todo = {})' /\ PageInFront(c)' /\ WorkInFront(c)'
  <1>a. /\ pc[c] = "read" => Todo = {}
        /\ PageInFront(c) /\ WorkInFront(c)
    BY DEF Ordered
  <1>b. /\ Todo \subseteq Entries
        /\ NoEntry \notin Entries
        /\ Entries \subseteq Int
        /\ batch[c] \subseteq Entries
    BY TodoOwned, ConstantsAssumption DEF Entries, NoEntry, IInv, TypeOK
  <1>1. CASE Keeps(c) /\ Todo' \subseteq Todo
    BY <1>a, <1>b, <1>1 DEF Keeps, PageInFront, WorkInFront, Holds, Busy
  <1>2. CASE Leaves(c)
    BY <1>2 DEF Leaves, PageInFront, WorkInFront, Busy
  <1>3. CASE SelfPending(c)
    <2> DEFINE own == Owned(NameOf[c])
               xps == FirstN(own, Count)
    <2>1. /\ Todo' = Todo
          /\ batch'[c] = xps
          /\ next'[c] = IF Cardinality(xps) < Count THEN "read" ELSE "self"
          /\ pc'[c] = IF xps = {} THEN "read" ELSE "claim"
      BY <1>3 DEF SelfPending, AfterPage, redisVars, ghostVars, Todo, Delivered, IInv, TypeOK
    <2>2. Count \in Nat /\ Count > 0 /\ own \in SUBSET Entries /\ Todo \subseteq own
      BY TodoOwned, ConstantsAssumption DEF Owned
    <2>3. Cardinality(xps) < Count => Todo \subseteq xps
      BY <2>2, FirstNShort
    <2>4. \A i \in Todo, m \in xps : i < m => i \in xps
      BY <2>2, FirstNClosed
    <2>5. xps = {} => Todo = {}
      BY <2>2, <2>3, FS_EmptySet
    <2> QED
      BY <2>1, <2>3, <2>4, <2>5 DEF PageInFront, WorkInFront, Holds, Busy
  <1>4. CASE SelfClaim(c)
    <2> DEFINE msgs == batch[c] \cap Pending
    <2>1. /\ Todo' = Todo
          /\ batch'[c] = msgs
          /\ UNCHANGED <<next[c], inFlight[c]>>
          /\ pc[c] = "claim"
          /\ pc'[c] = IF msgs = {} THEN next[c] ELSE "process"
          /\ next[c] \in {"self", "read"}
      BY <1>4 DEF SelfClaim, Todo, Delivered, IInv, TypeOK
    <2>2. inFlight[c] = NoEntry
      BY <2>1 DEF Single, OneAtATime, Busy
    <2>3. \A i \in Todo : i \in Pending /\ i # NoEntry
      BY <1>b, TodoOwned
    <2>4. \A i \in Todo, m \in msgs : i < m => i \in msgs
      BY <1>a, <2>1, <2>2, <2>3 DEF PageInFront, Holds
    <2>5. next[c] = "read" => Todo \subseteq msgs
      BY <1>a, <2>1, <2>2, <2>3 DEF PageInFront, Holds
    <2> QED
      BY <2>1, <2>4, <2>5 DEF PageInFront, WorkInFront, Holds, Busy
  <1>5. CASE Read(c)
    <2>1. /\ batch'[c] = Fetched
          /\ next'[c] = "self"
          /\ pc'[c] = "process"
          /\ Todo = {}
      BY <1>a, <1>5 DEF Read, IInv, TypeOK
    <2>2. Todo' \subseteq Fetched
      BY <1>5, <2>1, ConstantsAssumption
      DEF Read, Deliver, Fetched, LastFetched, ghostVars, Todo, Delivered, IInv,
          TypeOK, Entries
    <2> QED
      BY <2>1, <2>2 DEF PageInFront, WorkInFront, Holds, Busy
  <1>6. CASE BeginProcess(c) /\ Todo' \subseteq Todo
    <2>1. CASE Return(c)
      BY <1>2, <2>1 DEF Return, Leaves, IInv, TypeOK
    <2>2. CASE ~Return(c)
      <3>1. PICK m \in FirstN(batch[c], 1) :
               /\ pc[c] = "process"
               /\ inFlight' = [inFlight EXCEPT ![c] = m]
               /\ batch' = [batch EXCEPT ![c] = @ \ {m}]
               /\ pc' = [pc EXCEPT ![c] = "handle"]
               /\ next' = next
        BY <1>6, <2>2 DEF BeginProcess, OnFatal, Publish
      <3>2. /\ pc'[c] = "handle"
            /\ inFlight'[c] = m
            /\ batch'[c] = batch[c] \ {m}
        BY <3>1 DEF IInv, TypeOK
      <3>3. inFlight[c] = NoEntry
        BY <3>1 DEF Single, OneAtATime, Busy
      <3>4. m \in batch[c] /\ \A k \in batch[c] : m <= k
        BY <1>b, FirstNOne, FirstNSubset
      <3>5. /\ \A i \in Todo : \A k \in batch[c] : i < k => i \in batch[c]
            /\ next[c] = "read" => Todo \subseteq batch[c]
        BY <1>a, <1>b, <3>1, <3>3 DEF PageInFront, Holds
      <3>6. PageInFront(c)'
        BY <1>6, <3>1, <3>2, <3>5 DEF PageInFront, Holds
      <3>7. m \in Int /\ (\A i \in Todo : i \in Int) /\ \A k \in batch[c] : k \in Int
        BY <1>b, <3>4
      <3>8. \A i \in Todo : m <= i
        BY <3>4, <3>5, <3>7
      <3>9. \A k \in batch[c] \ {m} : m < k
        BY <3>4, <3>7
      <3>10. WorkInFront(c)'
        BY <1>6, <3>2, <3>8, <3>9 DEF WorkInFront
      <3> QED
        BY <3>2, <3>6, <3>10
    <2> QED
      BY <2>1, <2>2
  <1>7. CASE AckOk(c)
    <2>1. /\ Todo' = Todo
          /\ pc[c] \in Busy
          /\ inFlight'[c] = NoEntry
          /\ UNCHANGED <<batch[c], next[c]>>
          /\ pc'[c] = IF batch[c] # {} THEN "process" ELSE next[c]
          /\ next[c] \in {"self", "read"}
      BY <1>7 DEF AckOk, Finish, Busy, ghostVars, Todo, Delivered, IInv, TypeOK
    <2>2. inFlight[c] \notin Todo
      BY <1>7 DEF AckOk, IInv, AckedHandled, Todo
    <2>3. /\ \A i \in Todo : \A m \in batch[c] : i < m => i \in batch[c]
          /\ next[c] = "read" => Todo \subseteq batch[c]
      BY <1>a, <2>1, <2>2 DEF PageInFront, Holds
    <2> QED
      BY <2>1, <2>3 DEF PageInFront, WorkInFront, Holds, Busy
  <1> QED
    BY <1>1, <1>2, <1>3, <1>4, <1>5, <1>6, <1>7, StepOrder

(* "Processing is strictly serial": a single consumer handles the entries for     *)
(* the first time in stream order, whatever pages, retries, restarts and      *)
(* reclaims do, but for the entries of a reply it never got.                *)
THEOREM SerialInOrder ==
  ASSUME OneConsumer
  PROVE  Spec => []InOrder
  <1> DEFINE Inv == IInv /\ Single /\ Alone /\ Ordered
  <1>1. Init => Inv
    <2> SUFFICES ASSUME Init PROVE Alone /\ Ordered
      BY InitIInv, InitSingle
    <2>1. Todo = {}
      BY ConstantsAssumption DEF Init, Todo, Delivered, Entries, NoGroup
    <2> QED
      BY <2>1 DEF Init, Alone, Ordered, InOrder, PageInFront, WorkInFront, Busy
  <1>2. Inv /\ [Next]_vars => Inv'
    <2> SUFFICES ASSUME Inv, [Next]_vars PROVE Inv'
      OBVIOUS
    <2>0. DistinctNames
      BY DEF OneConsumer, DistinctNames
    <2>1. IInv' /\ Single' /\ Alone'
      BY <2>0, IInvStep, OneAtATimeStep, HeldByOwnerStep, DoneOnceStep, AloneStep
      DEF Single
    <2>2. CASE \E c \in Consumers : MainLoop(c) \/ Background(c) \/ Process(c)
      BY <2>1, <2>2, InOrderStep, PageStep DEF Ordered, OneConsumer
    <2>3. CASE UNCHANGED <<base, last, handled, missed, pc, batch, next, inFlight>>
      BY <2>1, <2>3
      DEF Ordered, InOrder, PageInFront, WorkInFront, Todo, Delivered, Holds
    <2>4. CASE XAdd \/ (\E e \in Entries : EntryIdles(e))
               \/ (\E n \in Names : MemberIdles(n)) \/ UNCHANGED vars
      BY <2>3, <2>4
      DEF XAdd, EntryIdles, MemberIdles, vars, redisVars, mainVars, ghostVars
    <2> QED
      BY <2>2, <2>4 DEF Next
  <1>3. Inv => InOrder
    BY DEF Ordered
  <1> QED
    BY <1>1, <1>2, <1>3, PTL DEF Spec

-----------------------------------------------------------------------------
(* The own PEL comes first.                                                 *)

(* On a last page is all there is in the PEL of the only consumer. *)
LastPageIsAll(c) ==
    pc[c] \notin Between /\ next[c] = "read" =>
        Owned(NameOf[c]) \subseteq batch[c] \cup {inFlight[c]}

(* Of the steps that take an entry into the PEL, none does on a last page;     *)
(* XCLAIM finds there what is the only consumer's already.                  *)
LEMMA LastPageStep ==
  ASSUME IInv, Single, Alone, NEW c \in Consumers, LastPageIsAll(c),
         MainLoop(c) \/ Background(c) \/ Process(c)
  PROVE  /\ LastPageIsAll(c)'
         /\ pc[c] # "read" /\ pc'[c] = "read" => Owned(NameOf[c])' = {}
  <1> USE DEF IInv, TypeOK
  <1> DEFINE Mine == Owned(NameOf[c])
  <1>1. ASSUME Mine' \subseteq Mine, Keeps(c) \/ Leaves(c)
        PROVE  /\ LastPageIsAll(c)'
               /\ ~(pc[c] # "read" /\ pc'[c] = "read")
    <2>1. CASE Keeps(c)
      BY <1>1, <2>1 DEF Keeps, LastPageIsAll, Between, Busy
    <2>2. CASE Leaves(c)
      BY <2>2 DEF Leaves, LastPageIsAll, Between
    <2> QED
      BY <1>1, <2>1, <2>2
  <1>2. ASSUME NEW ids, XClaim(c, ids), ids \subseteq Pending
        PROVE  Mine' = Mine
    <2>1. \A e \in ids : e \in Entries /\ owner[e] = NameOf[c]
      BY <1>2 DEF Pending, Alone
    <2> QED
      BY <1>2, <2>1 DEF XClaim, Owned
  <1>3. ASSUME NEW x \in Entries, XAck(x)
        PROVE  Mine' = Mine \ {x}
    BY <1>3, ConstantsAssumption DEF XAck, Owned
  <1>4. ASSUME UNCHANGED owner PROVE Mine' = Mine
    BY <1>4 DEF Owned
  <1>5. CASE SelfPending(c)
    <2> DEFINE xps == FirstN(Mine, Count)
    <2>1. /\ UNCHANGED owner /\ batch'[c] = xps
          /\ next'[c] = "read" => Cardinality(xps) < Count
          /\ pc'[c] = "read" => xps = {}
      BY <1>5 DEF SelfPending, AfterPage, redisVars
    <2>2. Mine \in SUBSET Entries /\ Count \in Nat /\ Count > 0
      BY ConstantsAssumption DEF Owned
    <2>3. Cardinality(xps) < Count => xps = Mine
      BY <2>2, FirstNShort
    <2>4. xps = {} => Mine = {}
      <3>1. Cardinality({}) = 0
        BY FS_EmptySet
      <3> QED
        BY <2>2, <2>3, <3>1
    <2> QED
      BY <1>4, <2>1, <2>3, <2>4 DEF LastPageIsAll
  <1>6. CASE SelfClaim(c)
    <2>1. /\ XClaim(c, batch[c] \cap Pending) /\ batch'[c] = batch[c] \cap Pending
          /\ UNCHANGED <<next, inFlight>> /\ pc[c] = "claim"
          /\ pc'[c] = IF batch[c] \cap Pending = {} THEN next[c] ELSE "process"
      BY <1>6 DEF SelfClaim
    <2>2. Mine' = Mine /\ Mine \subseteq Pending
      BY <1>2, <2>1, ConstantsAssumption DEF Owned, Pending
    <2>3. inFlight[c] = NoEntry
      BY <2>1 DEF Single, OneAtATime, Busy
    <2>4. NoEntry \notin Mine
      BY ConstantsAssumption DEF Owned, Entries, NoEntry
    <2>5. next[c] = "read" => Mine \subseteq batch[c] \cap Pending
      BY <2>1, <2>2, <2>3, <2>4 DEF LastPageIsAll, Between
    <2> QED
      BY <2>1, <2>2, <2>5 DEF LastPageIsAll
  <1>7. CASE Read(c)
    BY <1>7 DEF Read, LastPageIsAll
  <1>8. CASE ReadReplyLost(c)
    BY <1>8 DEF ReadReplyLost, mainVars, LastPageIsAll, Between
  <1>9. CASE BeginProcess(c)
    <2>1. PICK m \in batch[c] : IF m \in Malformed THEN OnFatal(c)
              ELSE /\ Publish(c, m) /\ batch' = [batch EXCEPT ![c] = @ \ {m}]
                   /\ pc' = [pc EXCEPT ![c] = "handle"] /\ UNCHANGED next
      BY <1>9, FirstNSubset DEF BeginProcess
    <2>2. UNCHANGED owner /\ pc[c] = "process"
      BY <1>9 DEF BeginProcess, redisVars
    <2>3. CASE m \in Malformed
      BY <1>1, <1>4, <2>1, <2>2, <2>3 DEF OnFatal, Return, Leaves
    <2>4. CASE m \notin Malformed
      <3>1. /\ batch'[c] = batch[c] \ {m} /\ inFlight'[c] = m
            /\ pc'[c] = "handle" /\ next' = next
        BY <2>1, <2>4 DEF Publish
      <3>2. inFlight[c] = NoEntry
        BY <2>2 DEF Single, OneAtATime, Busy
      <3>3. NoEntry \notin Mine
        BY ConstantsAssumption DEF Owned, Entries, NoEntry
      <3> QED
        BY <1>4, <2>2, <3>1, <3>2, <3>3 DEF LastPageIsAll, Between
    <2> QED
      BY <2>3, <2>4
  <1>10. CASE AckOk(c)
    <2>1. /\ XAck(inFlight[c]) /\ pc[c] = "ack" /\ inFlight[c] \in Entries
          /\ UNCHANGED <<batch, next>> /\ inFlight'[c] = NoEntry
          /\ pc'[c] = IF batch[c] # {} THEN "process" ELSE next[c]
      BY <1>10 DEF AckOk, Finish, Working, Busy
    <2>2. Mine' = Mine \ {inFlight[c]}
      BY <1>3, <2>1
    <2> QED
      BY <2>1, <2>2 DEF LastPageIsAll, Between
  <1>11. CASE AckError(c)
    <2>1. /\ pc[c] = "ack" /\ inFlight[c] \in Entries
          /\ XAck(inFlight[c]) \/ UNCHANGED owner
          /\ Keeps(c) \/ Leaves(c)
      BY <1>11 DEF AckError, Return, Keeps, Leaves, Working, Busy
    <2> QED
      BY <1>1, <1>3, <1>4, <2>1
  <1>12. CASE HeartbeatClaim(c) \/ PeerClaim(c)
    <2>1. Keeps(c) /\ \E ids : XClaim(c, ids) /\ ids \subseteq Pending
      BY <1>12 DEF HeartbeatClaim, PeerClaim, Keeps, mainVars
    <2> QED
      BY <1>1, <1>2, <2>1
  <1>13. CASE GCDelete(c)
    <2>1. Keeps(c)
      BY <1>13 DEF GCDelete, Keeps, mainVars
    <2>2. PICK n \in gcTodo[c] :
            owner' = [e \in Entries |-> IF owner[e] = n THEN NoName ELSE owner[e]]
      BY <1>13 DEF GCDelete
    <2>3. Mine' \subseteq Mine
      BY <2>2, ConstantsAssumption DEF Owned
    <2> QED
      BY <1>1, <2>1, <2>3
  <1>14. CASE \/ ReadEmpty(c) \/ RedisError(c) \/ HandleOk(c) \/ HandleTransient(c)
              \/ HandleFatal(c) \/ WaitAborted(c) \/ BackoffElapsed(c) \/ AckRetry(c)
    <2>1. UNCHANGED owner
      BY <1>14 DEF ReadEmpty, RedisError, HandleOk, HandleTransient, HandleFatal,
         WaitAborted, BackoffElapsed, AckRetry, Goto, redisVars
    <2>2. Keeps(c) \/ Leaves(c)
      BY <1>14 DEF ReadEmpty, RedisError, HandleOk, HandleTransient, HandleFatal, OnFatal,
         Return, WaitAborted, BackoffElapsed, AckRetry, Goto, Keeps, Leaves, Busy
    <2> QED
      BY <1>1, <1>4, <2>1, <2>2
  <1>15. CASE \/ HeartbeatLoad(c) \/ HeartbeatFail(c) \/ PeerPending(c) \/ PeerFail(c)
              \/ GCInfo(c) \/ GCFail(c) \/ Process(c)
    <2>1. UNCHANGED owner
      BY <1>15 DEF HeartbeatLoad, HeartbeatFail, PeerPending, PeerFail, GCInfo, GCFail,
         Process, EnsureGroup, ProcessExit, Crash, Cancel, redisVars
    <2>2. Keeps(c) \/ Leaves(c)
      BY <1>15 DEF HeartbeatLoad, HeartbeatFail, PeerPending, PeerFail, GCInfo, GCFail,
         Process, EnsureGroup, ProcessExit, Crash, Cancel, Exit, Keeps, Leaves, mainVars
    <2> QED
      BY <1>1, <1>4, <2>1, <2>2
  <1> QED
    BY <1>5, <1>6, <1>7, <1>8, <1>9, <1>10, <1>11, <1>12, <1>13, <1>14, <1>15
    DEF MainLoop, Background

(* "Drain own PEL first": whatever page size, crashes and lost replies, a single  *)
(* consumer turns to new entries only when its own PEL is empty.            *)
THEOREM OldBeforeNew ==
  ASSUME OneConsumer
  PROVE  Spec => PELFirst
  <1> DEFINE Drains == \A c \in Consumers : LastPageIsAll(c)
             Inv == IInv /\ Single /\ Alone /\ Drains
             Goal == \A c \in Consumers :
                        pc[c] # "read" /\ pc'[c] = "read" => Owned(NameOf[c])' = {}
  <1>1. Init => Inv
    <2> SUFFICES ASSUME Init PROVE Alone /\ Drains
      BY InitIInv, InitSingle
    <2> QED
      BY DEF Init, Alone, LastPageIsAll, Between
  <1>2. Inv /\ [Next]_vars => Inv' /\ Goal
    <2> SUFFICES ASSUME Inv, [Next]_vars PROVE Inv' /\ Goal
      OBVIOUS
    <2>0. DistinctNames
      BY DEF OneConsumer, DistinctNames
    <2>1. IInv' /\ Single' /\ Alone'
      BY <2>0, IInvStep, OneAtATimeStep, HeldByOwnerStep, DoneOnceStep, AloneStep
      DEF Single
    <2>2. CASE \E c \in Consumers : MainLoop(c) \/ Background(c) \/ Process(c)
      BY <2>1, <2>2, LastPageStep DEF OneConsumer
    <2>3. CASE UNCHANGED <<owner, pc, batch, next, inFlight>>
      BY <2>1, <2>3 DEF LastPageIsAll, Owned
    <2>4. CASE XAdd \/ (\E e \in Entries : EntryIdles(e))
               \/ (\E n \in Names : MemberIdles(n)) \/ UNCHANGED vars
      BY <2>3, <2>4
      DEF XAdd, EntryIdles, MemberIdles, vars, redisVars, mainVars
    <2> QED
      BY <2>2, <2>4 DEF Next
  <1> QED
    BY <1>1, <1>2, PTL DEF Spec, PELFirst

-----------------------------------------------------------------------------
(* The group's garbage collection is all that can lose an entry.            *)

(* No member has been idle for consumerGCTimeout. *)
NobodyIdle ==
    /\ orphaned = {}
    /\ idles = 0
    /\ \A n \in Names : member[n] # "idle"
    /\ \A c \in Consumers : gcTodo[c] = {}

(* Every delivered entry was handled or is in somebody's PEL. *)
HandledOrPending == Delivered \subseteq handled \cup Pending

(* XCLAIM and XREADGROUP make a member active; gcConsumers finds nobody.     *)
LEMMA NobodyIdleStep ==
  ASSUME MaxIdles = 0, IInv, NobodyIdle, [Next]_vars
  PROVE  NobodyIdle'
  <1> USE DEF IInv, NobodyIdle
  <1>1. ASSUME NEW c \in Consumers, MainLoop(c) PROVE NobodyIdle'
    <2>1. CASE SelfClaim(c) \/ Read(c) \/ ReadEmpty(c) \/ ReadReplyLost(c)
      <3>1. UNCHANGED <<orphaned, idles, gcTodo>>
        BY <2>1 DEF SelfClaim, Read, ReadEmpty, ReadReplyLost, backVars, ghostVars, budgetVars
      <3>2. \/ member' = member
            \/ member' = [member EXCEPT ![NameOf[c]] = "active"]
        BY <2>1, Zenon DEF SelfClaim, Read, ReadEmpty, ReadReplyLost, XClaim, Deliver
      <3>3. \A n \in Names : member'[n] # "idle"
        BY <3>2 DEF TypeOK
      <3> QED
        BY <3>1, <3>3
    <2>2. CASE SelfPending(c) \/ RedisError(c) \/ BeginProcess(c)
               \/ HandleOk(c) \/ HandleTransient(c) \/ HandleFatal(c)
               \/ BackoffElapsed(c) \/ AckOk(c) \/ AckError(c) \/ AckRetry(c)
               \/ WaitAborted(c)
      <3>1. UNCHANGED <<orphaned, idles, gcTodo, member>>
        BY <2>2 DEF SelfPending, RedisError, BeginProcess, HandleOk,
             HandleTransient, HandleFatal, BackoffElapsed, AckOk, AckError, AckRetry,
             WaitAborted, OnFatal, Return, Goto, redisVars, backVars, ghostVars,
             budgetVars
      <3> QED
        BY <3>1
    <2> QED
      BY <1>1, <2>1, <2>2 DEF MainLoop
  <1>2. ASSUME NEW c \in Consumers, Background(c) PROVE NobodyIdle'
    <2>1. CASE HeartbeatClaim(c) \/ PeerClaim(c)
      <3>1. UNCHANGED <<orphaned, idles, gcTodo>>
        BY <2>1 DEF HeartbeatClaim, PeerClaim, budgetVars
      <3>2. \/ member' = member
            \/ member' = [member EXCEPT ![NameOf[c]] = "active"]
        <4>1. CASE HeartbeatClaim(c)
          BY <4>1, Zenon DEF HeartbeatClaim, XClaim
        <4>2. CASE PeerClaim(c)
          BY <4>2, Zenon DEF PeerClaim, XClaim
        <4> QED
          BY <2>1, <4>1, <4>2
      <3>3. \A n \in Names : member'[n] # "idle"
        BY <3>2 DEF TypeOK
      <3> QED
        BY <3>1, <3>3
    <2>2. CASE HeartbeatLoad(c) \/ HeartbeatFail(c) \/ PeerPending(c) \/ PeerFail(c)
      BY <2>2 DEF HeartbeatLoad, HeartbeatFail, PeerPending, PeerFail,
           redisVars, ghostVars, budgetVars
    <2>3. CASE GCInfo(c)
      <3>1. GCCandidates(c) = {}
        BY DEF GCCandidates
      <3>2. gcTodo' = [gcTodo EXCEPT ![c] = {}]
        BY <2>3, <3>1 DEF GCInfo
      <3>3. UNCHANGED <<orphaned, idles, member>>
        BY <2>3 DEF GCInfo, redisVars, ghostVars, budgetVars
      <3>4. \A d \in Consumers : gcTodo'[d] = {}
        BY <3>2 DEF TypeOK
      <3> QED
        BY <3>3, <3>4
    <2>4. CASE GCDelete(c) \/ GCFail(c)
      BY <2>4 DEF GCDelete, GCFail
    <2> QED
      BY <1>2, <2>1, <2>2, <2>3, <2>4 DEF Background
  <1>3. ASSUME NEW c \in Consumers, Process(c) PROVE NobodyIdle'
    BY <1>3 DEF Process, EnsureGroup, ProcessExit, Crash, Cancel, Exit, DropMain,
         redisVars, mainVars, backVars, ghostVars, budgetVars, TypeOK
  <1>4. CASE XAdd \/ (\E e \in Entries : EntryIdles(e)) \/ UNCHANGED vars
    BY <1>4 DEF XAdd, EntryIdles, vars, redisVars, mainVars, backVars, ghostVars, budgetVars
  <1>5. CASE \E n \in Names : MemberIdles(n)
    BY <1>5 DEF MemberIdles
  <1> QED
    BY <1>1, <1>2, <1>3, <1>4, <1>5 DEF Next

(* While no member is idle for consumerGCTimeout, every delivered entry is      *)
(* handled or pending, whatever crashes, claims and lost replies do: gcConsumers *)
(* is the only way to lose one, and consume_gc_race shows that it is one.    *)
THEOREM LostByGCOnly ==
  ASSUME MaxIdles = 0
  PROVE  Spec => []HandledOrPending
  <1>1. Init => IInv /\ NobodyIdle
    BY InitIInv DEF Init, NobodyIdle
  <1>2. IInv /\ NobodyIdle /\ [Next]_vars => (IInv /\ NobodyIdle)'
    BY IInvStep, NobodyIdleStep
  <1>3. IInv /\ NobodyIdle => HandledOrPending
    BY DEF IInv, Accounting, NoLoss, NobodyIdle, HandledOrPending
  <1> QED
    BY <1>1, <1>2, <1>3, PTL DEF Spec

=============================================================================
