------------------------------ MODULE Consume ------------------------------
(***************************************************************************)
(* internal/consume: the consumers of ONE Redis stream in ONE consumer      *)
(* group.  Each consumer is a process running the main loop of Run and      *)
(* three background goroutines (reclaimLoop, consumerGCLoop,                *)
(* heartbeatLoop).  They share nothing but the group state held by Redis:   *)
(* every step below is one Redis command, or one local step between two.    *)
(*                                                                          *)
(* Entries are numbered 1, 2, ... in stream order.  Time is abstracted to   *)
(* two facts about Redis' clocks: a pending entry has been idle for         *)
(* reclaimMinIdle ("stale"), and a group member has been idle for           *)
(* consumerGCTimeout.  Both may become true at any moment, and a delivery   *)
(* or a claim makes them false again.                                       *)
(***************************************************************************)
EXTENDS Integers, FiniteSets, FiniteSetsExt

CONSTANTS
    Consumers,    \* the Consumer values bound to this stream
    Names,        \* consumer names, as Redis knows them
    NameOf,       \* Consumer.name: the host name of the pod
    NoName,       \* owner of an entry that is not pending
    MaxEntries,   \* bound: entries WALker writes
    Count,        \* Consumer.count: page size of XREADGROUP and XPENDING
    Poisonous,    \* entries whose handler never succeeds
    Malformed,    \* entries event.Parse rejects
    MaxFaults,    \* bound: crashes, cancellations, Redis errors, lost replies
    MaxIdles      \* bound: times a member's idle clock reaches consumerGCTimeout

Entries == 1..MaxEntries
NoEntry == 0
NoGroup == -1

ASSUME ConstantsAssumption ==
    /\ MaxEntries \in Nat
    /\ Count \in Nat \ {0}
    /\ NameOf \in [Consumers -> Names]
    /\ NoName \notin Names
    /\ Poisonous \subseteq Entries
    /\ Malformed \subseteq Entries
    /\ MaxFaults \in Nat
    /\ MaxIdles \in Nat

VARIABLES
    (* Redis: the stream, the group, its pending-entries list (PEL). *)
    len,          \* entries written so far: 1..len
    base,         \* last entry when the group was created, NoGroup before
    last,         \* last-delivered-id of the group
    owner,        \* owner[e]: consumer name in the PEL, NoName if not pending
    stale,        \* pending entries idle for at least reclaimMinIdle
    member,       \* member[n]: "absent", "active" or "idle" (>= GC timeout)
    (* Consumer: the main loop. *)
    pc,           \* where Run is
    ctx,          \* "live" until cancelled (signal, or a sibling's fatal error)
    batch,        \* messages (ids, at "claim") fetched and not yet processed
    next,         \* where the loop goes once the batch is done
    inFlight,     \* Consumer.inFlight, the entry process() works on
    (* Consumer: the background goroutines' local state. *)
    hb,           \* heartbeatLoop: the id it loaded and has not claimed yet
    peerIds,      \* peerReclaim: toClaimIDs between XPENDING and XCLAIM
    peerStart,    \* peerReclaim: cursor, NoEntry at the start of a scan
    gcTodo,       \* gcConsumers: names picked from XINFO, not yet deleted
    (* History, read by no action. *)
    handled,      \* entries some handler call has succeeded on
    disturbed,    \* entries that changed owner, or were handled and not acked
                  \* when their consumer stopped
    missed,       \* entries delivered in a reply that never arrived
    orphaned,     \* entries dropped from the PEL by XGROUP DELCONSUMER
    (* Used-up bounds. *)
    faults, idles

redisVars == <<len, base, last, owner, stale, member>>
mainVars  == <<pc, ctx, batch, next, inFlight>>
backVars  == <<hb, peerIds, peerStart, gcTodo>>
ghostVars == <<handled, disturbed, missed, orphaned>>
budgetVars == <<faults, idles>>
vars == <<redisVars, mainVars, backVars, ghostVars, budgetVars>>

Delivered == {e \in Entries : base < e /\ e <= last}
Pending == {e \in Entries : owner[e] # NoName}
Owned(n) == {e \in Entries : owner[e] = n}

PCs == {"exited", "self", "claim", "read", "process", "handle", "backoff",
        "ack", "ackwait", "returned"}

Init ==
    /\ len = 0
    /\ base = NoGroup
    /\ last = 0
    /\ owner = [e \in Entries |-> NoName]
    /\ stale = {}
    /\ member = [n \in Names |-> "absent"]
    /\ pc = [c \in Consumers |-> "exited"]
    /\ ctx = [c \in Consumers |-> "live"]
    /\ batch = [c \in Consumers |-> {}]
    /\ next = [c \in Consumers |-> "self"]
    /\ inFlight = [c \in Consumers |-> NoEntry]
    /\ hb = [c \in Consumers |-> NoEntry]
    /\ peerIds = [c \in Consumers |-> {}]
    /\ peerStart = [c \in Consumers |-> NoEntry]
    /\ gcTodo = [c \in Consumers |-> {}]
    /\ handled = {}
    /\ disturbed = {}
    /\ missed = {}
    /\ orphaned = {}
    /\ faults = 0
    /\ idles = 0

-----------------------------------------------------------------------------
(* Redis commands, as the code uses them.                                   *)

(* XADD by WALker, or by an upstream EmitAfter. *)
XAdd ==
    /\ len < MaxEntries
    /\ len' = len + 1
    /\ UNCHANGED <<base, last, owner, stale, member, mainVars, backVars,
                   ghostVars, budgetVars>>

(* The n smallest members of S: a page of XPENDING with COUNT n. *)
FirstN(S, n) == {e \in S : Cardinality({k \in S : k < e}) < n}

(* XACK removes an entry from the PEL whoever owns it, and is a no-op for an *)
(* entry that is not there.                                                 *)
XAck(e) ==
    /\ owner' = [owner EXCEPT ![e] = NoName]
    /\ stale' = stale \ {e}

(* XCLAIM [JUSTID] to c.name of the pending entries ids: a new owner and a   *)
(* fresh idle clock for each, and the claimant is an active member.         *)
XClaim(c, ids) ==
    /\ owner' = [e \in Entries |-> IF e \in ids THEN NameOf[c] ELSE owner[e]]
    /\ stale' = stale \ ids
    /\ member' = IF ids = {} THEN member
                             ELSE [member EXCEPT ![NameOf[c]] = "active"]
    /\ disturbed' = disturbed \cup {e \in ids : owner[e] # NameOf[c]}

(* XREADGROUP > COUNT n: the next undelivered entries move into c's PEL.     *)
LastFetched == IF len < last + Count THEN len ELSE last + Count
Fetched == {e \in Entries : last < e /\ e <= LastFetched}

Deliver(c) ==
    /\ last' = LastFetched
    /\ owner' = [e \in Entries |-> IF e \in Fetched THEN NameOf[c] ELSE owner[e]]
    /\ member' = [member EXCEPT ![NameOf[c]] = "active"]
    /\ UNCHANGED <<len, base, stale>>

(* Time passes: a pending entry's idle time reaches reclaimMinIdle. *)
EntryIdles(e) ==
    /\ e \in Pending \ stale
    /\ stale' = stale \cup {e}
    /\ UNCHANGED <<len, base, last, owner, member, mainVars, backVars,
                   ghostVars, budgetVars>>

(* Time passes: a member's idle time reaches consumerGCTimeout, also if it    *)
(* polls, where that does not reset its clock (consume.go:381).             *)
MemberIdles(n) ==
    /\ idles < MaxIdles
    /\ member[n] = "active"
    /\ member' = [member EXCEPT ![n] = "idle"]
    /\ idles' = idles + 1
    /\ UNCHANGED <<len, base, last, owner, stale, mainVars, backVars,
                   ghostVars, faults>>

-----------------------------------------------------------------------------
(* The main loop of Run.                                                    *)

(* An entry handled but not acknowledged, if c stops where it is. *)
Unacked(c) == IF pc[c] \in {"ack", "ackwait"} THEN {inFlight[c]} ELSE {}

(* The main loop's local state is gone. *)
DropMain(c) ==
    /\ batch' = [batch EXCEPT ![c] = {}]
    /\ next' = [next EXCEPT ![c] = "self"]
    /\ inFlight' = [inFlight EXCEPT ![c] = NoEntry]
    /\ disturbed' = disturbed \cup Unacked(c)

(* Run returns an error: the errgroup cancels the context the background     *)
(* goroutines watch; the deferred Store(nil) clears inFlight.               *)
Return(c) ==
    /\ pc' = [pc EXCEPT ![c] = "returned"]
    /\ ctx' = [ctx EXCEPT ![c] = "done"]
    /\ DropMain(c)
    /\ UNCHANGED <<backVars, handled, missed, orphaned>>

(* FailLoud.OnFatal: a poison or malformed entry stays where it is, and the   *)
(* error ends Run.                                                          *)
OnFatal(c) == Return(c)

(* The process starts and ensureGroup runs XGROUP CREATE $ MKSTREAM: a new   *)
(* group starts after the entries already written; BUSYGROUP is success.    *)
EnsureGroup(c) ==
    /\ pc[c] = "exited"
    /\ IF base = NoGroup THEN base' = len /\ last' = len
                         ELSE UNCHANGED <<base, last>>
    /\ pc' = [pc EXCEPT ![c] = "self"]
    /\ UNCHANGED <<len, owner, stale, member, ctx, batch, next, inFlight,
                   backVars, ghostVars, budgetVars>>

(* selfReclaim's last line: a full page means another round after this one. *)
AfterFullPage(xps) == IF Cardinality(xps) <= Count THEN "read" ELSE "self"  \* mutant
AfterPage(xps) == IF Cardinality(xps) < Count THEN "read" ELSE "self"

(* selfReclaim, XPENDING restricted to c.name: a page of own entries. *)
SelfPending(c) ==
    LET xps == FirstN(Owned(NameOf[c]), Count) IN
    /\ pc[c] = "self"
    /\ ctx[c] = "live"
    /\ batch' = [batch EXCEPT ![c] = xps]
    /\ next' = [next EXCEPT ![c] = AfterPage(xps)]
    /\ pc' = [pc EXCEPT ![c] = IF xps = {} THEN "read" ELSE "claim"]
    /\ UNCHANGED <<redisVars, ctx, inFlight, backVars, ghostVars, budgetVars>>

(* selfReclaim, XCLAIM MinIdle=0 of the listed ids: whatever is still        *)
(* pending, whoever owns it by now.                                         *)
SelfClaim(c) ==
    LET msgs == batch[c] \cap Pending IN
    /\ pc[c] = "claim"
    /\ ctx[c] = "live"
    /\ XClaim(c, msgs)
    /\ batch' = [batch EXCEPT ![c] = msgs]
    /\ pc' = [pc EXCEPT ![c] = IF msgs = {} THEN next[c] ELSE "process"]
    /\ UNCHANGED <<len, base, last, ctx, next, inFlight, backVars, handled,
                   missed, orphaned, budgetVars>>

(* XREADGROUP returns new entries. *)
Read(c) ==
    /\ pc[c] = "read"
    /\ ctx[c] = "live"
    /\ last < len
    /\ Deliver(c)
    /\ batch' = [batch EXCEPT ![c] = Fetched]
    /\ next' = [next EXCEPT ![c] = "self"]
    /\ pc' = [pc EXCEPT ![c] = "process"]
    /\ UNCHANGED <<ctx, inFlight, backVars, ghostVars, budgetVars>>

(* XREADGROUP blocks until its timeout (redis.Nil) and the loop starts over.  *)
(* It may create the member or reset its idle clock: Redis versions differ.   *)
ReadEmpty(c) ==
    /\ pc[c] = "read"
    /\ ctx[c] = "live"
    /\ last = len
    /\ member' = [member EXCEPT ![NameOf[c]] = "active"] \/ UNCHANGED member
    /\ pc' = [pc EXCEPT ![c] = "self"]
    /\ UNCHANGED <<len, base, last, owner, stale, ctx, batch, next, inFlight,
                   backVars, ghostVars, budgetVars>>

(* Redis executes XREADGROUP, the connection breaks before the reply, and    *)
(* the client library sends the command again.                              *)
ReadReplyLost(c) ==
    /\ pc[c] = "read"
    /\ ctx[c] = "live"
    /\ last < len
    /\ faults < MaxFaults
    /\ faults' = faults + 1
    /\ Deliver(c)
    /\ missed' = missed \cup Fetched
    /\ UNCHANGED <<mainVars, backVars, handled, disturbed, orphaned, idles>>

(* A Redis call of the main loop fails, or finds ctx cancelled: Run returns. *)
RedisError(c) ==
    /\ pc[c] \in {"self", "claim", "read"}
    /\ \/ ctx[c] = "done" /\ UNCHANGED faults
       \/ faults < MaxFaults /\ faults' = faults + 1
    /\ Return(c)
    /\ UNCHANGED <<redisVars, idles>>

(* process() returns nil and the loop goes on to the next message, or page. *)
Finish(c) ==
    /\ inFlight' = [inFlight EXCEPT ![c] = NoEntry]
    /\ pc' = [pc EXCEPT ![c] = IF batch[c] # {} THEN "process" ELSE next[c]]

(* Run moves on without touching anything but its program counter. *)
Goto(c, from, to) ==
    /\ pc[c] = from
    /\ pc' = [pc EXCEPT ![c] = to]
    /\ UNCHANGED <<redisVars, ctx, batch, next, inFlight, backVars, ghostVars,
                   budgetVars>>

(* c.inFlight.Store(&id). *)
PublishNothing(c, m) == UNCHANGED inFlight                      \* mutant
Publish(c, m) == inFlight' = [inFlight EXCEPT ![c] = m]

(* process() takes the next message of the batch.  event.Parse failing is    *)
(* fatal (OnFatal) before inFlight is published; ctx is not looked at.      *)
BeginProcess(c) ==
    \E m \in FirstN(batch[c], 1) :
        /\ pc[c] = "process"
        /\ IF m \in Malformed
             THEN OnFatal(c)
             ELSE /\ Publish(c, m)
                  /\ batch' = [batch EXCEPT ![c] = @ \ {m}]
                  /\ pc' = [pc EXCEPT ![c] = "handle"]
                  /\ UNCHANGED <<ctx, next, backVars, ghostVars>>
        /\ UNCHANGED <<redisVars, budgetVars>>

(* Handler.Handle returns nil.  A handler may succeed although ctx is done.  *)
HandleOk(c) ==
    /\ pc[c] = "handle"
    /\ inFlight[c] \notin Poisonous
    /\ handled' = handled \cup {inFlight[c]}
    /\ pc' = [pc EXCEPT ![c] = "ack"]
    /\ UNCHANGED <<redisVars, ctx, batch, next, inFlight, backVars, disturbed,
                   missed, orphaned, budgetVars>>

HandleTransientAcks(c) == Goto(c, "handle", "ack")              \* mutant

(* Handle returns an error that is not poison: back off unless cancelled. *)
HandleTransient(c) ==
    /\ pc[c] = "handle"
    /\ IF ctx[c] = "done"
         THEN Return(c)
         ELSE /\ pc' = [pc EXCEPT ![c] = "backoff"]
              /\ UNCHANGED <<ctx, batch, next, inFlight, backVars, ghostVars>>
    /\ UNCHANGED <<redisVars, budgetVars>>

(* Handle returns poison, or panics: StreamErrorPolicy.OnFatal ends Run. *)
HandleFatal(c) ==
    /\ pc[c] = "handle"
    /\ inFlight[c] \in Poisonous
    /\ OnFatal(c)
    /\ UNCHANGED <<redisVars, budgetVars>>

(* The timer of a retry fires; with ctx done as well, select may pick it.    *)
BackoffElapsedAcks(c) == Goto(c, "backoff", "ack")              \* mutant
BackoffElapsedNext(c) == Goto(c, "backoff", "process")          \* mutant
BackoffElapsed(c) == Goto(c, "backoff", "handle")

AckRetryHandles(c) == Goto(c, "ackwait", "handle")              \* mutant
AckRetry(c) == Goto(c, "ackwait", "ack")

(* A cancelled context ends the wait between two attempts. *)
WaitAborted(c) ==
    /\ pc[c] \in {"backoff", "ackwait"}
    /\ ctx[c] = "done"
    /\ Return(c)
    /\ UNCHANGED <<redisVars, budgetVars>>

(* XACK succeeds and process() returns nil. *)
AckOk(c) ==
    /\ pc[c] = "ack"
    /\ ctx[c] = "live"
    /\ XAck(inFlight[c])
    /\ Finish(c)
    /\ UNCHANGED <<len, base, last, member, ctx, batch, next, backVars,
                   ghostVars, budgetVars>>

(* ackFn returns an error; Redis may nevertheless have executed the XACK.    *)
AckError(c) ==
    /\ pc[c] = "ack"
    /\ XAck(inFlight[c]) \/ UNCHANGED <<owner, stale>>
    /\ IF ctx[c] = "done"
         THEN Return(c)
         ELSE /\ pc' = [pc EXCEPT ![c] = "ackwait"]
              /\ UNCHANGED <<ctx, batch, next, inFlight, backVars, ghostVars>>
    /\ UNCHANGED <<len, base, last, member, budgetVars>>

-----------------------------------------------------------------------------
(* The background goroutines.  A tick is taken only while ctx is live; what  *)
(* a tick has begun may still reach Redis until the process has exited.     *)

Ticking(c) == pc[c] \notin {"exited", "returned"} /\ ctx[c] = "live"

(* heartbeatLoop: inFlight.Load(), *)
HeartbeatLoad(c) ==
    /\ Ticking(c)
    /\ hb[c] = NoEntry
    /\ inFlight[c] # NoEntry
    /\ hb' = [hb EXCEPT ![c] = inFlight[c]]
    /\ UNCHANGED <<redisVars, mainVars, peerIds, peerStart, gcTodo, ghostVars,
                   budgetVars>>

(* then claimFn: XCLAIM JUSTID MinIdle=0, whoever owns the entry by now.     *)
HeartbeatClaim(c) ==
    /\ hb[c] # NoEntry
    /\ XClaim(c, {hb[c]} \cap Pending)
    /\ hb' = [hb EXCEPT ![c] = NoEntry]
    /\ UNCHANGED <<len, base, last, mainVars, peerIds, peerStart, gcTodo,
                   handled, missed, orphaned, budgetVars>>

(* A failing heartbeat is logged and forgotten. *)
HeartbeatFail(c) ==
    /\ hb[c] # NoEntry
    /\ hb' = [hb EXCEPT ![c] = NoEntry]
    /\ UNCHANGED <<redisVars, mainVars, peerIds, peerStart, gcTodo, ghostVars,
                   budgetVars>>

(* peerReclaim, XPENDING IDLE reclaimMinIdle from the cursor on: the entries *)
(* of other consumers on the page are to be claimed.  A full page moves the  *)
(* cursor past its last entry, a short one ends the scan.                    *)
StalePage(c) == FirstN({e \in stale : e > peerStart[c]}, Count)

NextStart(c) ==
    IF Cardinality(StalePage(c)) < Count THEN NoEntry
    ELSE Max(StalePage(c))

PeerTargetsOwn(c) == {e \in StalePage(c) : owner[e] = NameOf[c]}  \* mutant
PeerTargets(c) == {e \in StalePage(c) : owner[e] # NameOf[c]}

PeerPending(c) ==
    /\ Ticking(c)
    /\ peerIds[c] = {}
    /\ peerIds' = [peerIds EXCEPT ![c] = PeerTargets(c)]
    /\ peerStart' = [peerStart EXCEPT ![c] = NextStart(c)]
    /\ UNCHANGED <<redisVars, mainVars, hb, gcTodo, ghostVars, budgetVars>>

(* peerReclaim, XCLAIM MinIdle=reclaimMinIdle: only what is stale by now.   *)
PeerClaim(c) ==
    /\ peerIds[c] # {}
    /\ XClaim(c, peerIds[c] \cap stale)
    /\ peerIds' = [peerIds EXCEPT ![c] = {}]
    /\ UNCHANGED <<len, base, last, mainVars, hb, peerStart, gcTodo, handled,
                   missed, orphaned, budgetVars>>

(* peerReclaim fails: reclaimLoop logs it and starts afresh on a later tick. *)
PeerFail(c) ==
    /\ peerIds[c] # {} \/ peerStart[c] # NoEntry
    /\ \/ ctx[c] = "done" /\ UNCHANGED faults
       \/ faults < MaxFaults /\ faults' = faults + 1
    /\ peerIds' = [peerIds EXCEPT ![c] = {}]
    /\ peerStart' = [peerStart EXCEPT ![c] = NoEntry]
    /\ UNCHANGED <<redisVars, mainVars, hb, gcTodo, ghostVars, idles>>

(* gcConsumers, XINFO CONSUMERS: the other members that are idle for at      *)
(* least consumerGCTimeout and own nothing.                                 *)
GCCandidates(c) ==
    {n \in Names \ {NameOf[c]} : member[n] = "idle" /\ Owned(n) = {}}

GCInfo(c) ==
    /\ Ticking(c)
    /\ gcTodo[c] = {}
    /\ gcTodo' = [gcTodo EXCEPT ![c] = GCCandidates(c)]
    /\ UNCHANGED <<redisVars, mainVars, hb, peerIds, peerStart, ghostVars,
                   budgetVars>>

(* gcConsumers, XGROUP DELCONSUMER: Redis also drops the member's PEL. *)
GCDelete(c) ==
    \E n \in gcTodo[c] :
        /\ owner' = [e \in Entries |-> IF owner[e] = n THEN NoName ELSE owner[e]]
        /\ stale' = stale \ Owned(n)
        /\ member' = [member EXCEPT ![n] = "absent"]
        /\ orphaned' = orphaned \cup Owned(n)
        /\ gcTodo' = [gcTodo EXCEPT ![c] = @ \ {n}]
        /\ UNCHANGED <<len, base, last, mainVars, hb, peerIds, peerStart,
                       handled, disturbed, missed, budgetVars>>

(* A failing XGROUP DELCONSUMER is logged; the scan goes on. *)
GCFail(c) ==
    \E n \in gcTodo[c] :
        /\ gcTodo' = [gcTodo EXCEPT ![c] = @ \ {n}]
        /\ UNCHANGED <<redisVars, mainVars, hb, peerIds, peerStart, ghostVars,
                       budgetVars>>

-----------------------------------------------------------------------------
(* The process around Run (cmd/dasher/main.go).                             *)

(* The process is gone, and its goroutines with it. *)
Exit(c) ==
    /\ pc' = [pc EXCEPT ![c] = "exited"]
    /\ ctx' = [ctx EXCEPT ![c] = "live"]
    /\ hb' = [hb EXCEPT ![c] = NoEntry]
    /\ peerIds' = [peerIds EXCEPT ![c] = {}]
    /\ peerStart' = [peerStart EXCEPT ![c] = NoEntry]
    /\ gcTodo' = [gcTodo EXCEPT ![c] = {}]

(* g.Wait() returns once Run has, and main exits. *)
ProcessExit(c) ==
    /\ pc[c] = "returned"
    /\ Exit(c)
    /\ UNCHANGED <<redisVars, batch, next, inFlight, ghostVars, budgetVars>>

(* The process is killed wherever it is. *)
Crash(c) ==
    /\ pc[c] # "exited"
    /\ faults < MaxFaults
    /\ faults' = faults + 1
    /\ Exit(c)
    /\ DropMain(c)
    /\ UNCHANGED <<redisVars, handled, missed, orphaned, idles>>

(* SIGINT, SIGTERM, or another stream's consumer of this process failed. *)
Cancel(c) ==
    /\ Ticking(c)
    /\ faults < MaxFaults
    /\ faults' = faults + 1
    /\ ctx' = [ctx EXCEPT ![c] = "done"]
    /\ UNCHANGED <<redisVars, pc, batch, next, inFlight, backVars, ghostVars,
                   idles>>

-----------------------------------------------------------------------------
MainLoop(c) ==
    \/ SelfPending(c) \/ SelfClaim(c)
    \/ Read(c) \/ ReadEmpty(c) \/ ReadReplyLost(c) \/ RedisError(c)
    \/ BeginProcess(c)
    \/ HandleOk(c) \/ HandleTransient(c) \/ HandleFatal(c)
    \/ BackoffElapsed(c) \/ AckOk(c) \/ AckError(c) \/ AckRetry(c)
    \/ WaitAborted(c)

Background(c) ==
    \/ HeartbeatLoad(c) \/ HeartbeatClaim(c) \/ HeartbeatFail(c)
    \/ PeerPending(c) \/ PeerClaim(c) \/ PeerFail(c)
    \/ GCInfo(c) \/ GCDelete(c) \/ GCFail(c)

Process(c) == EnsureGroup(c) \/ ProcessExit(c) \/ Crash(c) \/ Cancel(c)

Next ==
    \/ XAdd
    \/ \E e \in Entries : EntryIdles(e)
    \/ \E n \in Names : MemberIdles(n)
    \/ \E c \in Consumers : MainLoop(c) \/ Background(c) \/ Process(c)

Spec == Init /\ [][Next]_vars

(* A live consumer between two messages: it is about to look at its PEL. *)
Polling(n) ==
    \E c \in Consumers :
        NameOf[c] = n /\ Ticking(c) /\ pc[c] \in {"self", "claim", "read"}

(* What the Go scheduler, Redis and the supervisor guarantee.  Run never      *)
(* stops by itself, its timers fire, and a handler or an XACK that is tried  *)
(* again and again succeeds at last; reclaimLoop keeps ticking; an untouched *)
(* pending entry grows old, but not for ever under a polling owner, since a  *)
(* round of the main loop (block, 2s) is shorter than reclaimMinIdle (30s).  *)
(* Only the consumers in Stable are restarted.                              *)
Fairness(Stable) ==
    /\ \A e \in Entries : WF_vars(EntryIdles(e))
    /\ <>[][\A e \in Entries : e \in stale' \ stale => ~Polling(owner[e])]_vars
    /\ \A c \in Consumers :
        /\ WF_vars(MainLoop(c))
        /\ SF_vars(HandleOk(c))
        /\ SF_vars(AckOk(c))
        /\ WF_vars(ProcessExit(c))
        /\ WF_vars(PeerPending(c))
        /\ WF_vars(PeerClaim(c))
    /\ \A c \in Stable : WF_vars(EnsureGroup(c))

-----------------------------------------------------------------------------
(* Properties.                                                              *)

(* Every variable has its type; the pending entries were delivered by the    *)
(* group, only pending ones grow stale.                                     *)
TypeOK ==
    /\ len \in 0..MaxEntries
    /\ base \in -1..len
    /\ last \in 0..len
    /\ base <= last
    /\ owner \in [Entries -> Names \cup {NoName}]
    /\ stale \subseteq Pending
    /\ member \in [Names -> {"absent", "active", "idle"}]
    /\ pc \in [Consumers -> PCs]
    /\ ctx \in [Consumers -> {"live", "done"}]
    /\ batch \in [Consumers -> SUBSET Entries]
    /\ next \in [Consumers -> {"self", "read"}]
    /\ inFlight \in [Consumers -> Entries \cup {NoEntry}]
    /\ hb \in [Consumers -> Entries \cup {NoEntry}]
    /\ peerIds \in [Consumers -> SUBSET Entries]
    /\ peerStart \in [Consumers -> Entries \cup {NoEntry}]
    /\ gcTodo \in [Consumers -> SUBSET Names]
    /\ handled \subseteq Entries
    /\ disturbed \subseteq Entries
    /\ missed \subseteq Entries
    /\ orphaned \subseteq Entries
    /\ faults \in 0..MaxFaults
    /\ idles \in 0..MaxIdles

(* "at-least-once delivery" (README.md:9): an entry the group delivered was    *)
(* handled successfully or is still pending, so some consumer will get it    *)
(* again; the only other way out of the PEL is XGROUP DELCONSUMER.          *)
NoLoss == Delivered \subseteq handled \cup Pending \cup orphaned

(* A poison or malformed entry is never acknowledged: unless its owner is     *)
(* deleted it stays pending for an operator to look at.                     *)
PoisonStays ==
    (Delivered \cap (Poisonous \cup Malformed)) \subseteq Pending \cup orphaned

(* "Processing is strictly serial" (consume.go:169): with one consumer, the   *)
(* entries are first handled in stream order, except those of a lost reply.  *)
InOrder ==
    \A j \in handled : \A i \in Delivered : i < j => i \in handled \cup missed

(* "Drain own PEL first" (consume.go:193): with one consumer, XREADGROUP is      *)
(* reached only once nothing is left in its own PEL, however many pages a     *)
(* crash or lost replies left there: old entries never wait for new ones.     *)
PELFirst ==
    [][\A c \in Consumers :
          pc[c] # "read" /\ pc'[c] = "read" => Owned(NameOf[c])' = {}]_vars

(* An entry is handled a second time only if it changed owner in between, or  *)
(* if its consumer stopped between Handle and XACK.                         *)
HandlesAgain(e) ==
    \E c \in Consumers :
        /\ pc[c] = "handle" /\ pc'[c] = "ack"
        /\ inFlight[c] = e /\ e \in handled

NoUnexcusedDuplicate ==
    [][\A e \in Entries : HandlesAgain(e) => e \in disturbed]_vars

(* With one stable consumer (Fairness) and no poison, every delivered entry   *)
(* is acknowledged in the end, whichever consumer it was first given to.     *)
EventuallyAcked == \A e \in Entries : e \in Delivered ~> e \notin Pending

(* The group implements the abstract promise: entries leave the pending list  *)
(* by XACK after a successful Handle, or with the member that owned them.    *)
Promise == INSTANCE AtLeastOnce
    WITH delivered <- Delivered, pending <- Pending, lost <- orphaned
ImplementsPromise == Promise!Spec

(* What gcConsumers' comment says of its guard (consume.go:372): it "ensures   *)
(* we never delete a consumer that still has unprocessed work", so no entry  *)
(* is unhandled, out of the PEL, and in no running consumer's memory.       *)
Held == UNION {batch[c] \cup {inFlight[c]} : c \in Consumers}
NothingAbandoned == Delivered \subseteq handled \cup Pending \cup Held

(* What selfReclaim's comment says of its Consumer filter (consume.go:241):     *)
(* "there are no live peers to protect against".  An entry selfReclaim lists *)
(* as its own, and that never changed owner, is not being worked on by       *)
(* another consumer.                                                        *)
OwnPageUnshared ==
    [][\A c, d \in Consumers :
          c # d /\ pc[c] = "self" /\ pc'[c] = "claim" =>
              \A e \in batch'[c] \ disturbed : inFlight[d] # e]_vars

=============================================================================
