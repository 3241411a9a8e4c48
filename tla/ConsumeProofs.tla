--------------------------- MODULE ConsumeProofs ---------------------------
EXTENDS Consume, FiniteSetTheorems, WellFoundedInduction, TLAPS

(* A page holds entries of the set it is taken from. *)
LEMMA FirstNSubset == ASSUME NEW S, NEW n PROVE FirstN(S, n) \subseteq S
  BY DEF FirstN

(* The cursor of peerReclaim is an entry: a non-empty set of entries has a    *)
(* largest one.                                                             *)
LEMMA MaxIsMember ==
  ASSUME NEW S, S \subseteq Entries, S # {}
  PROVE  Max(S) \in S
  <1> DEFINE T == {MaxEntries - e : e \in S}
  <1>a. MaxEntries \in Nat /\ S \subseteq 1..MaxEntries
    BY ConstantsAssumption DEF Entries
  <1>b. \A e \in S : MaxEntries - e \in Nat
    BY <1>a
  <1>1. T \subseteq Nat /\ T # {}
    BY <1>b
  <1>2. PICK x \in T : \A y \in T : ~(<<y, x>> \in OpToRel(<, Nat))
    BY <1>1, WFMin, NatLessThanWellFounded
  <1>c. \A y \in Nat : y < x => <<y, x>> \in OpToRel(<, Nat)
    BY <1>1, Zenon DEF OpToRel
  <1>3. \A y \in T : x <= y
    <2>1. \A y \in T : ~(y < x)
      BY <1>1, <1>2, <1>c, Zenon
    <2> HIDE DEF T
    <2> QED
      BY <1>1, <2>1
  <1>4. PICK m \in S : x = MaxEntries - m
    OBVIOUS
  <1>5. \A y \in S : m >= y
    BY <1>3, <1>4, ConstantsAssumption DEF Entries
  <1> QED
    BY <1>5 DEF Max

-----------------------------------------------------------------------------
(* TypeOK is not inductive: Handle and XACK work on inFlight, which must be   *)
(* an entry from the moment process() has published it.                     *)
Working ==
    \A c \in Consumers :
        pc[c] \in {"handle", "backoff", "ack", "ackwait"} => inFlight[c] \in Entries

(* XACK keeps the PEL well typed. *)
LEMMA XAckType ==
  ASSUME TypeOK, NEW e \in Entries, XAck(e)
  PROVE  /\ owner' \in [Entries -> Names \cup {NoName}]
         /\ stale' \subseteq Pending'
  BY DEF TypeOK, XAck, Pending

(* XCLAIM of pending entries keeps the group's state well typed. *)
LEMMA XClaimType ==
  ASSUME TypeOK, NEW c \in Consumers, NEW ids, ids \subseteq Pending,
         XClaim(c, ids)
  PROVE  /\ owner' \in [Entries -> Names \cup {NoName}]
         /\ stale' \subseteq Pending'
         /\ member' \in [Names -> {"absent", "active", "idle"}]
         /\ disturbed' \subseteq Entries
  BY ConstantsAssumption DEF TypeOK, XClaim, Pending

(* XREADGROUP delivers entries of the stream. *)
LEMMA DeliverType ==
  ASSUME TypeOK, NEW c \in Consumers, Deliver(c)
  PROVE  /\ last' \in 0..len
         /\ last <= last'
         /\ owner' \in [Entries -> Names \cup {NoName}]
         /\ stale' \subseteq Pending'
         /\ member' \in [Names -> {"absent", "active", "idle"}]
         /\ Fetched \subseteq Entries
         /\ UNCHANGED <<len, base>>
  BY ConstantsAssumption
     DEF TypeOK, Deliver, LastFetched, Fetched, Pending, Entries

(* Run returning, with an error, keeps the consumer's state well typed. *)
LEMMA ReturnType ==
  ASSUME TypeOK, Working, NEW c \in Consumers, Return(c)
  PROVE  /\ pc' \in [Consumers -> PCs]
         /\ ctx' \in [Consumers -> {"live", "done"}]
         /\ batch' \in [Consumers -> SUBSET Entries]
         /\ next' \in [Consumers -> {"self", "read"}]
         /\ inFlight' \in [Consumers -> Entries \cup {NoEntry}]
         /\ disturbed' \subseteq Entries
         /\ UNCHANGED <<hb, peerIds, peerStart, gcTodo, handled, missed, orphaned>>
         /\ Working'
  BY DEF TypeOK, Working, Return, DropMain, Unacked, PCs, backVars

(* A page of peerReclaim holds entries, and so does its cursor. *)
LEMMA PeerPageType ==
  ASSUME TypeOK, NEW c \in Consumers
  PROVE  /\ StalePage(c) \subseteq Entries
         /\ NextStart(c) \in Entries \cup {NoEntry}
  <1>1. StalePage(c) \subseteq Entries
    BY FirstNSubset DEF StalePage, TypeOK, Pending
  <1>2. CASE StalePage(c) = {}
    <2>1. Cardinality(StalePage(c)) < Count
      BY <1>2, FS_EmptySet, ConstantsAssumption
    <2> QED
      BY <1>1, <2>1 DEF NextStart
  <1>3. CASE StalePage(c) # {}
    BY <1>1, <1>3, MaxIsMember DEF NextStart
  <1> QED
    BY <1>2, <1>3

(* Each step of a consumer keeps the types. *)
LEMMA ConsumerStepType ==
  ASSUME TypeOK, Working, NEW c \in Consumers,
         MainLoop(c) \/ Background(c) \/ Process(c)
  PROVE  TypeOK' /\ Working'
  <1>1. CASE SelfPending(c)
    BY <1>1, FirstNSubset
    DEF SelfPending, AfterPage, Owned, redisVars, backVars, ghostVars, budgetVars,
        TypeOK, Working, Pending, PCs
  <1>2. CASE SelfClaim(c)
    BY <1>2, XClaimType
    DEF SelfClaim, backVars, budgetVars, TypeOK, Working, Pending, PCs
  <1>3. CASE Read(c)
    BY <1>3, DeliverType
    DEF Read, backVars, ghostVars, budgetVars, TypeOK, Working, Pending, PCs
  <1>4. CASE ReadEmpty(c)
    BY <1>4
    DEF ReadEmpty, redisVars, backVars, ghostVars, budgetVars, TypeOK,
        Working, Pending, PCs
  <1>5. CASE ReadReplyLost(c)
    BY <1>5, DeliverType, ConstantsAssumption
    DEF ReadReplyLost, mainVars, backVars, TypeOK, Working, Pending, PCs
  <1>6. CASE RedisError(c)
    BY <1>6, ReturnType, ConstantsAssumption
    DEF RedisError, redisVars, backVars, TypeOK, Working, Pending, PCs
  <1>7. CASE BeginProcess(c)
    BY <1>7, ReturnType, FirstNSubset
    DEF BeginProcess, Publish, OnFatal, redisVars, backVars, ghostVars, budgetVars, TypeOK,
        Working, Pending, PCs
  <1>8. CASE HandleOk(c)
    BY <1>8
    DEF HandleOk, redisVars, backVars, budgetVars, TypeOK, Working, Pending,
        PCs
  <1>9. CASE HandleTransient(c)
    BY <1>9, ReturnType
    DEF HandleTransient, redisVars, backVars, ghostVars, budgetVars, TypeOK,
        Working, Pending, PCs
  <1>10. CASE HandleFatal(c)
    BY <1>10, ReturnType
    DEF HandleFatal, OnFatal, redisVars, backVars, budgetVars, TypeOK, Working,
        Pending, PCs
  <1>11. CASE BackoffElapsed(c)
    BY <1>11
    DEF BackoffElapsed, Goto, redisVars, backVars, ghostVars, budgetVars,
        TypeOK, Working, Pending, PCs
  <1>12. CASE AckOk(c)
    BY <1>12, XAckType
    DEF AckOk, Finish, backVars, ghostVars, budgetVars, TypeOK, Working,
        Pending, PCs
  <1>13. CASE AckError(c)
    BY <1>13, XAckType, ReturnType
    DEF AckError, backVars, ghostVars, budgetVars, TypeOK, Working, Pending,
        PCs
  <1>14. CASE AckRetry(c)
    BY <1>14
    DEF AckRetry, Goto, redisVars, backVars, ghostVars, budgetVars, TypeOK,
        Working, Pending, PCs
  <1>15. CASE WaitAborted(c)
    BY <1>15, ReturnType
    DEF WaitAborted, redisVars, backVars, budgetVars, TypeOK, Working,
        Pending, PCs
  <1>16. CASE HeartbeatLoad(c)
    BY <1>16
    DEF HeartbeatLoad, redisVars, mainVars, ghostVars, budgetVars, TypeOK,
        Working, Pending, PCs
  <1>17. CASE HeartbeatClaim(c)
    BY <1>17, XClaimType
    DEF HeartbeatClaim, mainVars, budgetVars, TypeOK, Working, Pending, PCs
  <1>18. CASE HeartbeatFail(c)
    BY <1>18
    DEF HeartbeatFail, redisVars, mainVars, ghostVars, budgetVars, TypeOK,
        Working, Pending, PCs
  <1>19. CASE PeerPending(c)
    BY <1>19, PeerPageType
    DEF PeerPending, PeerTargets, redisVars, mainVars, ghostVars, budgetVars, TypeOK,
        Working, Pending, PCs
  <1>20. CASE PeerClaim(c)
    BY <1>20, XClaimType
    DEF PeerClaim, mainVars, budgetVars, TypeOK, Working, Pending, PCs
  <1>21. CASE PeerFail(c)
    BY <1>21, ConstantsAssumption
    DEF PeerFail, redisVars, mainVars, ghostVars, TypeOK, Working, Pending,
        PCs
  <1>22. CASE GCInfo(c)
    BY <1>22
    DEF GCInfo, GCCandidates, redisVars, mainVars, ghostVars, budgetVars,
        TypeOK, Working, Pending, PCs
  <1>23. CASE GCDelete(c)
    BY <1>23
    DEF GCDelete, Owned, mainVars, budgetVars, TypeOK, Working, Pending, PCs
  <1>24. CASE GCFail(c)
    BY <1>24
    DEF GCFail, redisVars, mainVars, ghostVars, budgetVars, TypeOK, Working,
        Pending, PCs
  <1>25. CASE EnsureGroup(c)
    BY <1>25
    DEF EnsureGroup, backVars, ghostVars, budgetVars, TypeOK, Working,
        Pending, PCs
  <1>26. CASE ProcessExit(c)
    BY <1>26
    DEF ProcessExit, Exit, redisVars, ghostVars, budgetVars, TypeOK, Working,
        Pending, PCs
  <1>27. CASE Crash(c)
    BY <1>27, ConstantsAssumption
    DEF Crash, Exit, DropMain, Unacked, redisVars, TypeOK, Working, Pending, PCs
  <1>28. CASE Cancel(c)
    BY <1>28, ConstantsAssumption
    DEF Cancel, redisVars, backVars, ghostVars, TypeOK, Working, Pending,
        PCs
  <1> QED
    BY <1>1, <1>2, <1>3, <1>4, <1>5, <1>6, <1>7, <1>8, <1>9, <1>10, <1>11,
       <1>12, <1>13, <1>14, <1>15, <1>16, <1>17, <1>18, <1>19, <1>20,
       <1>21, <1>22, <1>23, <1>24, <1>25, <1>26, <1>27, <1>28
       DEF MainLoop, Background, Process

(* Every step keeps the types. *)
LEMMA TypeStep ==
  ASSUME TypeOK, Working, [Next]_vars
  PROVE  TypeOK' /\ Working'
  <1>1. CASE XAdd
    BY <1>1, ConstantsAssumption
    DEF XAdd, TypeOK, Working, Pending, mainVars, backVars, ghostVars, budgetVars
  <1>2. CASE \E e \in Entries : EntryIdles(e)
    BY <1>2
    DEF EntryIdles, TypeOK, Working, Pending, mainVars, backVars, ghostVars,
        budgetVars
  <1>3. CASE \E n \in Names : MemberIdles(n)
    BY <1>3, ConstantsAssumption
    DEF MemberIdles, TypeOK, Working, Pending, mainVars, backVars, ghostVars
  <1>4. CASE \E c \in Consumers : MainLoop(c) \/ Background(c) \/ Process(c)
    BY <1>4, ConsumerStepType
  <1>5. CASE UNCHANGED vars
    BY <1>5 DEF vars, redisVars, mainVars, backVars, ghostVars, budgetVars,
                TypeOK, Working, Pending
  <1> QED
    BY <1>1, <1>2, <1>3, <1>4, <1>5 DEF Next

(* The type invariant TypeOK holds in every reachable state. *)
THEOREM TypeCorrect == Spec => []TypeOK
  <1>1. Init => TypeOK /\ Working
    BY ConstantsAssumption
    DEF Init, TypeOK, Working, Pending, PCs, Entries, NoGroup, NoEntry
  <1>2. TypeOK /\ Working /\ [Next]_vars => TypeOK' /\ Working'
    BY TypeStep
  <1> QED
    BY <1>1, <1>2, PTL DEF Spec

-----------------------------------------------------------------------------
(* Safety: the inductive invariant behind NoLoss and the refinement.        *)

(* No consumer runs before ensureGroup has created the group. *)
Started ==
    /\ base = NoGroup => last = 0
    /\ \A c \in Consumers : pc[c] # "exited" => base # NoGroup

(* Consumers hold only what the group has delivered. *)
HeldDelivered ==
    \A c \in Consumers :
        batch[c] \subseteq Delivered /\ inFlight[c] \in Delivered \cup {NoEntry}

(* XACK is only ever sent for an entry the handler has succeeded on. *)
AckedHandled ==
    \A c \in Consumers : pc[c] \in {"ack", "ackwait"} => inFlight[c] \in handled

(* The books balance: nothing but delivered entries is pending, handled or    *)
(* orphaned, and every delivered entry is one of these.                     *)
Accounting ==
    /\ Pending \cup handled \cup orphaned \subseteq Delivered
    /\ NoLoss

IInv ==
    /\ TypeOK /\ Working
    /\ Started
    /\ HeldDelivered
    /\ AckedHandled
    /\ Accounting

(* XCLAIM of pending entries changes owners, never what is pending. *)
LEMMA XClaimPending ==
  ASSUME TypeOK, NEW c \in Consumers, NEW ids, ids \subseteq Pending,
         XClaim(c, ids)
  PROVE  Pending' = Pending
  BY ConstantsAssumption DEF TypeOK, XClaim, Pending

(* XREADGROUP is a Deliver step of the promise. *)
LEMMA DeliverPromise ==
  ASSUME TypeOK, NEW c \in Consumers, Deliver(c), UNCHANGED <<handled, orphaned>>
  PROVE  Promise!Deliver
  <1>1. /\ Fetched \in SUBSET (Entries \ Delivered)
        /\ Delivered' = Delivered \cup Fetched
        /\ Pending' = Pending \cup Fetched
    BY ConstantsAssumption
       DEF TypeOK, Deliver, Fetched, LastFetched, Delivered, Pending, Entries
  <1> QED
    BY <1>1 DEF Promise!Deliver

(* XACK of a handled entry is an Ack step of the promise. *)
LEMMA AckPromise ==
  ASSUME TypeOK, NEW e \in Entries, e \in handled, XAck(e),
         UNCHANGED <<base, last, handled, orphaned>>
  PROVE  Promise!Ack
  <1>1. Pending' = Pending \ {e}
    BY DEF TypeOK, XAck, Pending
  <1>2. Delivered' = Delivered
    BY DEF Delivered
  <1> QED
    BY <1>1, <1>2 DEF Promise!Ack

(* Each step of a consumer is a step of the promise, or changes nothing of it. *)
LEMMA ConsumerStepPromise ==
  ASSUME IInv, NEW c \in Consumers, MainLoop(c) \/ Background(c) \/ Process(c)
  PROVE  [Promise!Next]_(Promise!vars)
  <1> USE DEF IInv
  <1>1. CASE SelfPending(c)
    BY <1>1
    DEF SelfPending, redisVars, backVars, ghostVars, budgetVars, Delivered,
        Pending, Promise!vars
  <1>2. CASE SelfClaim(c)
    BY <1>2, XClaimPending
    DEF SelfClaim, backVars, budgetVars, TypeOK, Delivered, Pending,
        Promise!vars
  <1>3. CASE Read(c)
    <2>1. Promise!Deliver
      BY <1>3, DeliverPromise DEF Read, ghostVars
    <2> QED
      BY <2>1 DEF Promise!Next
  <1>4. CASE ReadEmpty(c)
    BY <1>4
    DEF ReadEmpty, redisVars, backVars, ghostVars, budgetVars, Delivered,
        Pending, Promise!vars
  <1>5. CASE ReadReplyLost(c)
    <2>1. Promise!Deliver
      BY <1>5, DeliverPromise DEF ReadReplyLost
    <2> QED
      BY <2>1 DEF Promise!Next
  <1>6. CASE RedisError(c)
    BY <1>6
    DEF RedisError, Return, DropMain, redisVars, backVars, Delivered, Pending,
        Promise!vars
  <1>7. CASE BeginProcess(c)
    BY <1>7
    DEF BeginProcess, Publish, OnFatal, Return, DropMain, redisVars, backVars, ghostVars, budgetVars,
        Delivered, Pending, Promise!vars
  <1>8. CASE HandleOk(c)
    <2>1. inFlight[c] \in Delivered
      BY <1>8, ConstantsAssumption
      DEF HandleOk, Working, HeldDelivered, Entries, NoEntry
    <2>2. UNCHANGED <<Delivered, Pending>>
      BY <1>8 DEF HandleOk, redisVars, Delivered, Pending
    <2>3. Promise!Handle
      BY <1>8, <2>1, <2>2 DEF HandleOk, Promise!Handle
    <2> QED
      BY <2>3 DEF Promise!Next
  <1>9. CASE HandleTransient(c)
    BY <1>9
    DEF HandleTransient, Return, DropMain, redisVars, backVars, ghostVars, budgetVars,
        Delivered, Pending, Promise!vars
  <1>10. CASE HandleFatal(c)
    BY <1>10
    DEF HandleFatal, OnFatal, Return, DropMain, redisVars, backVars, budgetVars, Delivered,
        Pending, Promise!vars
  <1>11. CASE BackoffElapsed(c)
    BY <1>11
    DEF BackoffElapsed, Goto, redisVars, backVars, ghostVars, budgetVars,
        Delivered, Pending, Promise!vars
  <1>12. CASE AckOk(c)
    <2>1. inFlight[c] \in Entries /\ inFlight[c] \in handled
      BY <1>12 DEF AckOk, Working, AckedHandled
    <2>2. Promise!Ack
      BY <1>12, <2>1, AckPromise DEF AckOk, ghostVars
    <2> QED
      BY <2>2 DEF Promise!Next
  <1>13. CASE AckError(c)
    <2>1. inFlight[c] \in Entries /\ inFlight[c] \in handled
      BY <1>13 DEF AckError, Working, AckedHandled
    <2>2. UNCHANGED <<base, last, handled, orphaned>>
      BY <1>13 DEF AckError, Return, DropMain, ghostVars
    <2>3. CASE XAck(inFlight[c])
      <3>1. Promise!Ack
        BY <2>1, <2>2, <2>3, AckPromise
      <3> QED
        BY <3>1 DEF Promise!Next
    <2>4. CASE UNCHANGED <<owner, stale>>
      BY <2>2, <2>4 DEF Delivered, Pending, Promise!vars
    <2> QED
      BY <1>13, <2>3, <2>4 DEF AckError
  <1>14. CASE AckRetry(c)
    BY <1>14
    DEF AckRetry, Goto, redisVars, backVars, ghostVars, budgetVars, Delivered,
        Pending, Promise!vars
  <1>15. CASE WaitAborted(c)
    BY <1>15
    DEF WaitAborted, Return, DropMain, redisVars, backVars, budgetVars, Delivered,
        Pending, Promise!vars
  <1>16. CASE HeartbeatLoad(c)
    BY <1>16
    DEF HeartbeatLoad, redisVars, mainVars, ghostVars, budgetVars, Delivered,
        Pending, Promise!vars
  <1>17. CASE HeartbeatClaim(c)
    BY <1>17, XClaimPending
    DEF HeartbeatClaim, mainVars, budgetVars, TypeOK, Delivered, Pending,
        Promise!vars
  <1>18. CASE HeartbeatFail(c)
    BY <1>18
    DEF HeartbeatFail, redisVars, mainVars, ghostVars, budgetVars, Delivered,
        Pending, Promise!vars
  <1>19. CASE PeerPending(c)
    BY <1>19
    DEF PeerPending, PeerTargets, redisVars, mainVars, ghostVars, budgetVars, Delivered,
        Pending, Promise!vars
  <1>20. CASE PeerClaim(c)
    BY <1>20, XClaimPending
    DEF PeerClaim, mainVars, budgetVars, TypeOK, Delivered, Pending,
        Promise!vars
  <1>21. CASE PeerFail(c)
    BY <1>21
    DEF PeerFail, redisVars, mainVars, ghostVars, Delivered, Pending,
        Promise!vars
  <1>22. CASE GCInfo(c)
    BY <1>22
    DEF GCInfo, redisVars, mainVars, ghostVars, budgetVars, Delivered,
        Pending, Promise!vars
  <1>23. CASE GCDelete(c)
    <2>1. PICK n \in gcTodo[c] :
             /\ owner' = [e \in Entries |-> IF owner[e] = n THEN NoName ELSE owner[e]]
             /\ orphaned' = orphaned \cup Owned(n)
             /\ UNCHANGED <<base, last, handled>>
      BY <1>23 DEF GCDelete
    <2>2. n # NoName
      BY <2>1, ConstantsAssumption DEF TypeOK
    <2>3. /\ Owned(n) \in SUBSET Pending
          /\ Pending' = Pending \ Owned(n)
      BY <2>1, <2>2 DEF TypeOK, Owned, Pending
    <2>4. Delivered' = Delivered
      BY <2>1 DEF Delivered
    <2>5. Promise!Lose
      BY <2>1, <2>3, <2>4 DEF Promise!Lose
    <2> QED
      BY <2>5 DEF Promise!Next
  <1>24. CASE GCFail(c)
    BY <1>24
    DEF GCFail, redisVars, mainVars, ghostVars, budgetVars, Delivered,
        Pending, Promise!vars
  <1>25. CASE EnsureGroup(c)
    BY <1>25, ConstantsAssumption
    DEF EnsureGroup, backVars, ghostVars, budgetVars, Started, Accounting,
        TypeOK, Entries, NoGroup, Delivered, Pending, Promise!vars
  <1>26. CASE ProcessExit(c)
    BY <1>26
    DEF ProcessExit, Exit, redisVars, ghostVars, budgetVars, Delivered, Pending,
        Promise!vars
  <1>27. CASE Crash(c)
    BY <1>27
    DEF Crash, Exit, DropMain, redisVars, Delivered, Pending, Promise!vars
  <1>28. CASE Cancel(c)
    BY <1>28
    DEF Cancel, redisVars, backVars, ghostVars, Delivered, Pending,
        Promise!vars
  <1> QED
    BY <1>1, <1>2, <1>3, <1>4, <1>5, <1>6, <1>7, <1>8, <1>9, <1>10, <1>11,
       <1>12, <1>13, <1>14, <1>15, <1>16, <1>17, <1>18, <1>19, <1>20,
       <1>21, <1>22, <1>23, <1>24, <1>25, <1>26, <1>27, <1>28
       DEF MainLoop, Background, Process

(* Each step of a consumer keeps the conjuncts about its own state. *)
LEMMA ConsumerStepLocal ==
  ASSUME IInv, NEW c \in Consumers, MainLoop(c) \/ Background(c) \/ Process(c)
  PROVE  Started' /\ HeldDelivered' /\ AckedHandled'
  <1> USE DEF IInv
  <1>1. CASE SelfPending(c)
    <2>1. FirstN(Owned(NameOf[c]), Count) \subseteq Delivered
      BY FirstNSubset, ConstantsAssumption DEF Owned, Pending, Accounting
    <2> QED
      BY <1>1, <2>1
      DEF SelfPending, redisVars, backVars, ghostVars, budgetVars, TypeOK,
          Started, HeldDelivered, AckedHandled, Delivered
  <1>2. CASE SelfClaim(c)
    BY <1>2
    DEF SelfClaim, backVars, budgetVars, TypeOK, Working, Started,
        HeldDelivered, AckedHandled, Accounting, Delivered, NoEntry, XClaim
  <1>3. CASE Read(c)
    BY <1>3, DeliverType, ConstantsAssumption
    DEF Read, backVars, ghostVars, budgetVars, TypeOK, Working, Started,
        HeldDelivered, AckedHandled, Accounting, Delivered, NoEntry, Fetched,
        Deliver, Entries, LastFetched
  <1>4. CASE ReadEmpty(c)
    BY <1>4
    DEF ReadEmpty, redisVars, backVars, ghostVars, budgetVars, TypeOK,
        Working, Started, HeldDelivered, AckedHandled, Accounting, Delivered,
        NoEntry
  <1>5. CASE ReadReplyLost(c)
    BY <1>5, DeliverType, ConstantsAssumption
    DEF ReadReplyLost, mainVars, backVars, TypeOK, Working, Started,
        HeldDelivered, AckedHandled, Accounting, Delivered, NoEntry, Fetched,
        Deliver, Entries, LastFetched
  <1>6. CASE RedisError(c)
    BY <1>6
    DEF RedisError, Return, DropMain, redisVars, backVars, TypeOK, Working, Started,
        HeldDelivered, AckedHandled, Accounting, Delivered, NoEntry
  <1>7. CASE BeginProcess(c)
    BY <1>7, FirstNSubset
    DEF BeginProcess, Publish, OnFatal, Return, DropMain, redisVars, backVars, ghostVars, budgetVars,
        TypeOK, Working, Started, HeldDelivered, AckedHandled, Accounting,
        Delivered, NoEntry
  <1>8. CASE HandleOk(c)
    BY <1>8
    DEF HandleOk, redisVars, backVars, budgetVars, TypeOK, Working, Started,
        HeldDelivered, AckedHandled, Accounting, Delivered, NoEntry
  <1>9. CASE HandleTransient(c)
    BY <1>9
    DEF HandleTransient, Return, DropMain, redisVars, backVars, ghostVars, budgetVars,
        TypeOK, Working, Started, HeldDelivered, AckedHandled, Accounting,
        Delivered, NoEntry
  <1>10. CASE HandleFatal(c)
    BY <1>10
    DEF HandleFatal, OnFatal, Return, DropMain, redisVars, backVars, budgetVars, TypeOK, Working,
        Started, HeldDelivered, AckedHandled, Accounting, Delivered, NoEntry
  <1>11. CASE BackoffElapsed(c)
    BY <1>11
    DEF BackoffElapsed, Goto, redisVars, backVars, ghostVars, budgetVars,
        TypeOK, Working, Started, HeldDelivered, AckedHandled, Accounting,
        Delivered, NoEntry
  <1>12. CASE AckOk(c)
    BY <1>12
    DEF AckOk, backVars, ghostVars, budgetVars, TypeOK, Working, Started,
        HeldDelivered, AckedHandled, Accounting, Delivered, NoEntry, Finish
  <1>13. CASE AckError(c)
    BY <1>13
    DEF AckError, Return, DropMain, backVars, ghostVars, budgetVars, TypeOK, Working,
        Started, HeldDelivered, AckedHandled, Accounting, Delivered, NoEntry
  <1>14. CASE AckRetry(c)
    BY <1>14
    DEF AckRetry, Goto, redisVars, backVars, ghostVars, budgetVars, TypeOK,
        Working, Started, HeldDelivered, AckedHandled, Accounting, Delivered,
        NoEntry
  <1>15. CASE WaitAborted(c)
    BY <1>15
    DEF WaitAborted, Return, DropMain, redisVars, backVars, budgetVars, TypeOK, Working,
        Started, HeldDelivered, AckedHandled, Accounting, Delivered, NoEntry
  <1>16. CASE HeartbeatLoad(c)
    BY <1>16
    DEF HeartbeatLoad, redisVars, mainVars, ghostVars, budgetVars, TypeOK,
        Working, Started, HeldDelivered, AckedHandled, Accounting, Delivered,
        NoEntry
  <1>17. CASE HeartbeatClaim(c)
    BY <1>17
    DEF HeartbeatClaim, mainVars, budgetVars, TypeOK, Working, Started,
        HeldDelivered, AckedHandled, Accounting, Delivered, NoEntry, XClaim
  <1>18. CASE HeartbeatFail(c)
    BY <1>18
    DEF HeartbeatFail, redisVars, mainVars, ghostVars, budgetVars, TypeOK,
        Working, Started, HeldDelivered, AckedHandled, Accounting, Delivered,
        NoEntry
  <1>19. CASE PeerPending(c)
    BY <1>19
    DEF PeerPending, PeerTargets, redisVars, mainVars, ghostVars, budgetVars, TypeOK,
        Working, Started, HeldDelivered, AckedHandled, Accounting, Delivered,
        NoEntry
  <1>20. CASE PeerClaim(c)
    BY <1>20
    DEF PeerClaim, mainVars, budgetVars, TypeOK, Working, Started,
        HeldDelivered, AckedHandled, Accounting, Delivered, NoEntry, XClaim
  <1>21. CASE PeerFail(c)
    BY <1>21
    DEF PeerFail, redisVars, mainVars, ghostVars, TypeOK, Working, Started,
        HeldDelivered, AckedHandled, Accounting, Delivered, NoEntry
  <1>22. CASE GCInfo(c)
    BY <1>22
    DEF GCInfo, redisVars, mainVars, ghostVars, budgetVars, TypeOK, Working,
        Started, HeldDelivered, AckedHandled, Accounting, Delivered, NoEntry
  <1>23. CASE GCDelete(c)
    BY <1>23
    DEF GCDelete, mainVars, budgetVars, TypeOK, Working, Started,
        HeldDelivered, AckedHandled, Accounting, Delivered, NoEntry
  <1>24. CASE GCFail(c)
    BY <1>24
    DEF GCFail, redisVars, mainVars, ghostVars, budgetVars, TypeOK, Working,
        Started, HeldDelivered, AckedHandled, Accounting, Delivered, NoEntry
  <1>25. CASE EnsureGroup(c)
    BY <1>25, ConstantsAssumption
    DEF EnsureGroup, backVars, ghostVars, budgetVars, TypeOK, Working,
        Started, HeldDelivered, AckedHandled, Accounting, Delivered, NoEntry,
        Entries, NoGroup
  <1>26. CASE ProcessExit(c)
    BY <1>26
    DEF ProcessExit, Exit, redisVars, ghostVars, budgetVars, TypeOK, Working,
        Started, HeldDelivered, AckedHandled, Accounting, Delivered, NoEntry
  <1>27. CASE Crash(c)
    BY <1>27
    DEF Crash, Exit, DropMain, redisVars, TypeOK, Working, Started, HeldDelivered,
        AckedHandled, Accounting, Delivered, NoEntry
  <1>28. CASE Cancel(c)
    BY <1>28
    DEF Cancel, redisVars, backVars, ghostVars, TypeOK, Working, Started,
        HeldDelivered, AckedHandled, Accounting, Delivered, NoEntry
  <1> QED
    BY <1>1, <1>2, <1>3, <1>4, <1>5, <1>6, <1>7, <1>8, <1>9, <1>10, <1>11,
       <1>12, <1>13, <1>14, <1>15, <1>16, <1>17, <1>18, <1>19, <1>20,
       <1>21, <1>22, <1>23, <1>24, <1>25, <1>26, <1>27, <1>28
       DEF MainLoop, Background, Process

(* The promise keeps its books balanced, whatever its step. *)
LEMMA PromiseAccounting ==
  ASSUME Accounting, [Promise!Next]_(Promise!vars)
  PROVE  Accounting'
  <1>1. CASE Promise!Deliver
    BY <1>1 DEF Promise!Deliver, Accounting, NoLoss
  <1>2. CASE Promise!Handle
    BY <1>2 DEF Promise!Handle, Accounting, NoLoss
  <1>3. CASE Promise!Ack
    BY <1>3 DEF Promise!Ack, Accounting, NoLoss
  <1>4. CASE Promise!Lose
    BY <1>4 DEF Promise!Lose, Accounting, NoLoss
  <1>5. CASE UNCHANGED Promise!vars
    BY <1>5 DEF Promise!vars, Accounting, NoLoss
  <1> QED
    BY <1>1, <1>2, <1>3, <1>4, <1>5 DEF Promise!Next

(* IInv holds initially, and the initial states are those of the promise. *)
LEMMA InitIInv == Init => IInv /\ Promise!Init
  <1> SUFFICES ASSUME Init PROVE IInv /\ Promise!Init
    OBVIOUS
  <1>1. Delivered = {} /\ Pending = {} /\ handled = {} /\ orphaned = {}
    BY ConstantsAssumption
    DEF Init, Delivered, Pending, Entries, NoGroup
  <1>2. TypeOK /\ Working
    BY ConstantsAssumption
    DEF Init, TypeOK, Working, Pending, PCs, Entries, NoGroup, NoEntry
  <1>3. Started /\ HeldDelivered /\ AckedHandled
    BY DEF Init, Started, HeldDelivered, AckedHandled
  <1>4. Accounting /\ Promise!Init
    BY <1>1 DEF Accounting, NoLoss, Promise!Init
  <1> QED
    BY <1>2, <1>3, <1>4 DEF IInv

(* Every step keeps IInv and is allowed by the promise. *)
LEMMA IInvStep ==
  ASSUME IInv, [Next]_vars
  PROVE  IInv' /\ [Promise!Next]_(Promise!vars)
  <1>1. TypeOK' /\ Working'
    BY TypeStep DEF IInv
  <1>2. /\ Started' /\ HeldDelivered' /\ AckedHandled'
        /\ [Promise!Next]_(Promise!vars)
    <2> USE DEF IInv
    <2>1. CASE XAdd
      BY <2>1 DEF XAdd, mainVars, backVars, ghostVars, Started, HeldDelivered,
                  AckedHandled, Delivered, Pending, Promise!vars
    <2>2. CASE \E e \in Entries : EntryIdles(e)
      BY <2>2 DEF EntryIdles, mainVars, backVars, ghostVars, Started,
                  HeldDelivered, AckedHandled, Delivered, Pending, Promise!vars
    <2>3. CASE \E n \in Names : MemberIdles(n)
      BY <2>3 DEF MemberIdles, mainVars, backVars, ghostVars, Started,
                  HeldDelivered, AckedHandled, Delivered, Pending, Promise!vars
    <2>4. CASE \E c \in Consumers : MainLoop(c) \/ Background(c) \/ Process(c)
      BY <2>4, ConsumerStepPromise, ConsumerStepLocal
    <2>5. CASE UNCHANGED vars
      BY <2>5 DEF vars, redisVars, mainVars, backVars, ghostVars, budgetVars,
                  Started, HeldDelivered, AckedHandled, Delivered, Pending,
                  Promise!vars
    <2> QED
      BY <2>1, <2>2, <2>3, <2>4, <2>5 DEF Next
  <1>3. Accounting'
    BY <1>2, PromiseAccounting DEF IInv
  <1> QED
    BY <1>1, <1>2, <1>3 DEF IInv

(* At-least-once delivery: every entry the group has delivered was handled,   *)
(* is still pending, or was in the PEL of a member XGROUP DELCONSUMER         *)
(* removed, for any number of consumers, entries, crashes and lost replies.  *)
THEOREM NothingLost == Spec => []NoLoss
  <1>1. Init => IInv
    BY InitIInv
  <1>2. IInv /\ [Next]_vars => IInv'
    BY IInvStep
  <1>3. IInv => NoLoss
    BY DEF IInv, Accounting
  <1> QED
    BY <1>1, <1>2, <1>3, PTL DEF Spec

(* The consumers implement the abstract promise of AtLeastOnce. *)
THEOREM KeepsPromise == Spec => ImplementsPromise
  <1>1. Init => IInv /\ Promise!Init
    BY InitIInv
  <1>2. IInv /\ [Next]_vars => IInv' /\ [Promise!Next]_(Promise!vars)
    BY IInvStep
  <1> QED
    BY <1>1, <1>2, PTL DEF Spec, ImplementsPromise, Promise!Spec
=============================================================================
