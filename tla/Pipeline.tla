------------------------------ MODULE Pipeline ------------------------------
(***************************************************************************)
(* One Dasher process and its chain of bindings: binding s consumes stream  *)
(* s and, but for the last, emits to stream s + 1 (cmd/dasher/main.go,      *)
(* internal/middleware, internal/lookup/runner.go, internal/produce).  The  *)
(* handler of a binding is Enrich -> handler -> EmitAfter.                   *)
(*                                                                          *)
(* The consumer loop is Consume's with pages of one entry, no peers and no  *)
(* background goroutines: those use the Redis client only, which main never *)
(* closes before the process ends.  The waits between two attempts are left *)
(* out: a transient error leads back to the start of the chain.             *)
(***************************************************************************)
EXTENDS Envelope, Sequences, FiniteSets, FiniteSetsExt

CONSTANTS
    N,            \* number of bindings
    Rules,        \* Rules[s]: EnrichRules of binding s, [bind, into] each
    Inputs,       \* entries WALker may write, but for their lsn
    MaxEntries,   \* bound: entries WALker writes
    MaxFaults     \* bound: crashes, signals, lost replies, Redis errors,
                  \* lookup misses, rejections by the handler's service

Stages == 1..N
NoEntry == 0
NoGroup == -1

ASSUME PipelineAssumption ==
    /\ N \in Nat \ {0}
    /\ Rules \in [Stages -> Seq([bind : SUBSET Columns, into : Columns])]
    /\ Inputs \subseteq Entries
    /\ MaxEntries \in Nat
    /\ MaxFaults \in Nat

VARIABLES
    (* Redis, per stream: the entries, and the group of this instance. *)
    stream, base, last, pel,
    (* main: where it is, how many consumers it has started, their context. *)
    proc, booted, ctx,
    (* Consumers: where Run is, the entry and its enrichment in the chain. *)
    pc, cur, enr,
    (* History, read by no action. *)
    effects,      \* effects[s]: lsns whose side effect at binding s happened
    excused,      \* <<s, lsn>>: binding s may have to repeat its emit of lsn
    faults        \* used up of MaxFaults

redisVars == <<stream, base, last, pel>>
mainVars == <<proc, booted, ctx>>
runVars == <<pc, cur, enr>>
vars == <<redisVars, mainVars, runVars, effects, excused, faults>>

Init ==
    /\ stream = [s \in Stages |-> <<>>]
    /\ base = [s \in Stages |-> NoGroup]
    /\ last = [s \in Stages |-> 0]
    /\ pel = [s \in Stages |-> {}]
    /\ proc = "down"
    /\ booted = 0
    /\ ctx = "live"
    /\ pc = [s \in Stages |-> "off"]
    /\ cur = [s \in Stages |-> NoEntry]
    /\ enr = [s \in Stages |-> {}]
    /\ effects = [s \in Stages |-> {}]
    /\ excused = {}
    /\ faults = 0

Fault == faults < MaxFaults /\ faults' = faults + 1

(* XADD by WALker. *)
Walker ==
    /\ Len(stream[1]) < MaxEntries
    /\ \E e \in Inputs :
        stream' = [stream EXCEPT ![1] = Append(@, [e EXCEPT !.lsn = Len(stream[1]) + 1])]
    /\ UNCHANGED <<base, last, pel, mainVars, runVars, effects, excused, faults>>

-----------------------------------------------------------------------------
(* main: start, cancellation, shutdown.                                     *)

(* The supervisor starts the process. *)
Boot ==
    /\ proc = "down"
    /\ proc' = "starting"
    /\ UNCHANGED <<redisVars, booted, ctx, runVars, effects, excused, faults>>

(* g.Go for the next binding, whatever became of the earlier ones.  After    *)
(* the last, main is in g.Wait.                                             *)
GoConsumer ==
    /\ proc = "starting"
    /\ booted' = booted + 1
    /\ pc' = [pc EXCEPT ![booted + 1] = "ensure"]
    /\ proc' = IF booted + 1 = N THEN "waiting" ELSE "starting"
    /\ UNCHANGED <<redisVars, ctx, cur, enr, effects, excused, faults>>

(* Run returns an error and the errgroup cancels the siblings' context. *)
Return(s) ==
    /\ pc' = [pc EXCEPT ![s] = "returned"]
    /\ cur' = [cur EXCEPT ![s] = NoEntry]
    /\ enr' = [enr EXCEPT ![s] = {}]
    /\ ctx' = "done"
    /\ UNCHANGED <<proc, booted>>

(* SIGINT or SIGTERM. *)
Signal ==
    /\ proc # "down"
    /\ ctx = "live"
    /\ Fault
    /\ ctx' = "done"
    /\ UNCHANGED <<redisVars, proc, booted, runVars, effects, excused>>

(* g.Wait returns when all consumers have; producer.Close. *)
AllReturned == \A s \in Stages : pc[s] = "returned"

CloseProducer ==
    /\ proc = "waiting"
    /\ AllReturned
    /\ proc' = "closed"
    /\ UNCHANGED <<redisVars, booted, ctx, runVars, effects, excused, faults>>

(* The bindings in S that stop between their emit and its XACK. *)
Unacked(S) == {<<s, stream[s][cur[s]].lsn>> : s \in {s \in S : s < N /\ pc[s] = "ack"}}

(* The process is gone. *)
Gone ==
    /\ proc' = "down"
    /\ booted' = 0
    /\ ctx' = "live"
    /\ pc' = [s \in Stages |-> "off"]
    /\ cur' = [s \in Stages |-> NoEntry]
    /\ enr' = [s \in Stages |-> {}]
    /\ excused' = excused \cup Unacked(Stages)

(* svc.Close, which waits for the queries in progress, and os.Exit(1). *)
Exit ==
    /\ proc = "closed"
    /\ \A s \in Stages : pc[s] # "enrich"
    /\ Gone
    /\ UNCHANGED <<redisVars, effects, faults>>

Crash ==
    /\ proc # "down"
    /\ Fault
    /\ Gone
    /\ UNCHANGED <<redisVars, effects>>

-----------------------------------------------------------------------------
(* Run: the group and the next entry.                                       *)

(* XGROUP CREATE $ MKSTREAM: a new group starts after what is there already. *)
EnsureGroupAgain(s) ==                                           \* mutant
    /\ pc[s] = "ensure"
    /\ ctx = "live"
    /\ base' = [base EXCEPT ![s] = IF @ = NoGroup THEN Len(stream[s]) ELSE @]
    /\ last' = [last EXCEPT ![s] = Len(stream[s])]
    /\ pc' = [pc EXCEPT ![s] = "read"]
    /\ UNCHANGED <<stream, pel, mainVars, cur, enr, effects, excused, faults>>

EnsureGroup(s) ==
    /\ pc[s] = "ensure"
    /\ ctx = "live"
    /\ IF base[s] = NoGroup
         THEN /\ base' = [base EXCEPT ![s] = Len(stream[s])]
              /\ last' = [last EXCEPT ![s] = Len(stream[s])]
         ELSE UNCHANGED <<base, last>>
    /\ pc' = [pc EXCEPT ![s] = "read"]
    /\ UNCHANGED <<stream, pel, mainVars, cur, enr, effects, excused, faults>>

(* XREADGROUP puts a new entry into the PEL; one claimed there already is. *)
DeliverUnrecorded(s, m) ==                                       \* mutant
    /\ last' = [last EXCEPT ![s] = IF m > @ THEN m ELSE @]
    /\ UNCHANGED pel

Deliver(s, m) ==
    /\ last' = [last EXCEPT ![s] = IF m > @ THEN m ELSE @]
    /\ pel' = [pel EXCEPT ![s] = @ \cup {m}]

(* selfReclaim hands out the entries of the PEL before XREADGROUP new ones;  *)
(* an entry that does not parse ends Run and stays pending.                 *)
Fetch(s) ==
    LET m == IF pel[s] # {} THEN Min(pel[s]) ELSE last[s] + 1 IN
    /\ pc[s] = "read"
    /\ ctx = "live"
    /\ m <= Len(stream[s])
    /\ Deliver(s, m)
    /\ IF Parses(stream[s][m])
         THEN /\ pc' = [pc EXCEPT ![s] = "enrich"]
              /\ cur' = [cur EXCEPT ![s] = m]
              /\ UNCHANGED <<mainVars, enr>>
         ELSE Return(s)
    /\ UNCHANGED <<stream, base, effects, excused, faults>>

(* XREADGROUP blocks until its timeout (redis.Nil) and the loop starts over. *)
FetchNothing(s) ==
    /\ pc[s] = "read"
    /\ ctx = "live"
    /\ pel[s] = {}
    /\ last[s] = Len(stream[s])
    /\ UNCHANGED vars

(* A Redis call of the loop fails, or finds the context cancelled. *)
RedisError(s) ==
    /\ pc[s] \in {"ensure", "read"}
    /\ \/ ctx = "done" /\ UNCHANGED faults
       \/ Fault
    /\ Return(s)
    /\ UNCHANGED <<redisVars, effects, excused>>

-----------------------------------------------------------------------------
(* process: the handler chain, from the start on each attempt.              *)

Event(s) == Parse(stream[s][cur[s]])
Lsn(s) == stream[s][cur[s]].lsn

(* A transient error: the retry begins with the event as parsed, unless the  *)
(* context is cancelled.                                                    *)
Transient(s) ==
    IF ctx = "done"
      THEN Return(s)
      ELSE /\ pc' = [pc EXCEPT ![s] = "enrich"]
           /\ enr' = [enr EXCEPT ![s] = {}]
           /\ UNCHANGED <<mainVars, cur>>

(* The chain goes on with a nil error. *)
Proceed(s, to) ==
    /\ pc' = [pc EXCEPT ![s] = to]
    /\ UNCHANGED <<mainVars, cur>>

(* ResolveBind finds a column in data or in old. *)
Bound(evt, rule) == rule.bind \subseteq evt.data \cup evt.old

(* Runner.Run: the first rule that does not yield one row decides.  rows[k]  *)
(* is what the k-th Lookup.Resolve answers.                                 *)
Answers == {"error", "none", "one", "many"}

RuleVerdict(evt, rule, answer) ==
    CASE ~Bound(evt, rule) -> "poison"
      [] answer = "error" -> "transient"
      [] answer = "one" -> "ok"
      [] OTHER -> "poison"

Run(s, rows) ==
    LET verdict == [k \in DOMAIN rows |-> RuleVerdict(Event(s), Rules[s][k], rows[k])]
        failing == {k \in DOMAIN rows : verdict[k] # "ok"}
    IN IF failing = {} THEN "ok" ELSE verdict[Min(failing)]

Verdicts(s) == {Run(s, rows) : rows \in [DOMAIN Rules[s] -> Answers]}

(* Without rules there is no Enrich and the event keeps what it came with;   *)
(* with rules evt.Enrichment is replaced.                                   *)
Enrichment(s) ==
    IF Rules[s] = <<>> THEN Event(s).enrichment
    ELSE {Rules[s][k].into : k \in DOMAIN Rules[s]}

AfterEnrichEmit(s) == IF s < N THEN "emit" ELSE "handle"         \* mutant
AfterEnrich(s) == "handle"

EnrichOk(s) ==
    /\ pc[s] = "enrich"
    /\ "ok" \in Verdicts(s)
    /\ enr' = [enr EXCEPT ![s] = Enrichment(s)]
    /\ Proceed(s, AfterEnrich(s))
    /\ UNCHANGED <<redisVars, effects, excused, faults>>

EnrichTransient(s) ==
    /\ pc[s] = "enrich"
    /\ "transient" \in Verdicts(s)
    /\ Transient(s)
    /\ UNCHANGED <<redisVars, effects, excused, faults>>

(* ErrPoison, wrapped as Poison: for good if a column is missing, else for as *)
(* long as the database has not exactly one row.                            *)
EnrichPoison(s) ==
    /\ pc[s] = "enrich"
    /\ "poison" \in Verdicts(s)
    /\ \/ /\ \E k \in DOMAIN Rules[s] : ~Bound(Event(s), Rules[s][k])
          /\ UNCHANGED faults
       \/ Fault
    /\ Return(s)
    /\ UNCHANGED <<redisVars, effects, excused>>

(* The binding's own handler succeeds. *)
HandleOk(s) ==
    /\ pc[s] = "handle"
    /\ effects' = [effects EXCEPT ![s] = @ \cup {Lsn(s)}]
    /\ Proceed(s, IF s < N THEN "emit" ELSE "ack")
    /\ UNCHANGED <<redisVars, enr, excused, faults>>

(* It fails: a network error or a 5xx, with or without its effect. *)
HandleTransient(s) ==
    /\ pc[s] = "handle"
    /\ effects' = [effects EXCEPT ![s] = @ \cup {Lsn(s)}] \/ UNCHANGED effects
    /\ Transient(s)
    /\ UNCHANGED <<redisVars, excused, faults>>

(* It is rejected (4xx), or panics, with or without its effect. *)
HandlePoison(s) ==
    /\ pc[s] = "handle"
    /\ Fault
    /\ effects' = [effects EXCEPT ![s] = @ \cup {Lsn(s)}] \/ UNCHANGED effects
    /\ Return(s)
    /\ UNCHANGED <<redisVars, excused>>

(* EmitAfter: XADD of the event with its enrichment. *)
XAdd(s) ==
    /\ stream' = [stream EXCEPT ![s + 1] =
           Append(@, Envelope([Event(s) EXCEPT !.enrichment = enr[s]]))]
    /\ UNCHANGED <<base, last, pel>>

EmitOk(s) ==
    /\ pc[s] = "emit"
    /\ ctx = "live"
    /\ proc # "closed"
    /\ XAdd(s)
    /\ Proceed(s, "ack")
    /\ UNCHANGED <<enr, effects, excused, faults>>

EmitIgnoresError(s) ==                                           \* mutant
    /\ pc[s] = "emit"
    /\ Proceed(s, "ack")
    /\ UNCHANGED <<redisVars, enr, effects, excused, faults>>

(* XADD was not executed, or the producer is closed. *)
EmitError(s) ==
    /\ pc[s] = "emit"
    /\ Transient(s)
    /\ UNCHANGED <<redisVars, effects, excused, faults>>

(* XADD was executed and its reply lost: the client library sends it again,  *)
(* or gives up and Emit returns the error.                                  *)
EmitReplyLost(s) ==
    /\ pc[s] = "emit"
    /\ proc # "closed"
    /\ Fault
    /\ XAdd(s)
    /\ excused' = excused \cup {<<s, Lsn(s)>>}
    /\ Transient(s) \/ UNCHANGED <<mainVars, runVars>>
    /\ UNCHANGED effects

(* XACK succeeds and process() returns nil. *)
AckOk(s) ==
    /\ pc[s] = "ack"
    /\ ctx = "live"
    /\ pel' = [pel EXCEPT ![s] = @ \ {cur[s]}]
    /\ pc' = [pc EXCEPT ![s] = "read"]
    /\ cur' = [cur EXCEPT ![s] = NoEntry]
    /\ enr' = [enr EXCEPT ![s] = {}]
    /\ UNCHANGED <<stream, base, last, mainVars, effects, excused, faults>>

AckErrorRetriesAll(s) ==                                         \* mutant
    /\ pc[s] = "ack"
    /\ Transient(s)
    /\ UNCHANGED <<redisVars, effects, excused, faults>>

AckErrorForever(s) ==                                            \* mutant
    /\ pc[s] = "ack"
    /\ pel' = [pel EXCEPT ![s] = @ \ {cur[s]}]
    /\ UNCHANGED <<stream, base, last, mainVars, runVars, effects, excused, faults>>

(* XACK fails, executed or not: it alone is retried until cancelled. *)
AckError(s) ==
    /\ pc[s] = "ack"
    /\ pel' = [pel EXCEPT ![s] = @ \ {cur[s]}] \/ UNCHANGED pel
    /\ IF ctx = "done" THEN Return(s) /\ excused' = excused \cup Unacked({s})
                       ELSE UNCHANGED <<mainVars, runVars, excused>>
    /\ UNCHANGED <<stream, base, last, effects, faults>>

-----------------------------------------------------------------------------
Consumer(s) ==
    \/ EnsureGroup(s) \/ Fetch(s) \/ FetchNothing(s) \/ RedisError(s)
    \/ EnrichOk(s) \/ EnrichTransient(s) \/ EnrichPoison(s)
    \/ HandleOk(s) \/ HandleTransient(s) \/ HandlePoison(s)
    \/ EmitOk(s) \/ EmitError(s) \/ EmitReplyLost(s)
    \/ AckOk(s) \/ AckError(s)

Next ==
    \/ Walker
    \/ Boot \/ GoConsumer \/ Signal \/ CloseProducer \/ Exit \/ Crash
    \/ \E s \in Stages : Consumer(s)

(* Goroutines run and the supervisor restarts the process; a lookup, a        *)
(* handler, an emit and an XACK tried again and again succeed at last.      *)
Fairness ==
    /\ WF_vars(Boot \/ GoConsumer \/ CloseProducer \/ Exit)
    /\ \A s \in Stages :
        /\ WF_vars(Consumer(s))
        /\ SF_vars(EnrichOk(s))
        /\ SF_vars(HandleOk(s))
        /\ SF_vars(EmitOk(s))
        /\ SF_vars(AckOk(s))

Spec == Init /\ [][Next]_vars /\ Fairness

-----------------------------------------------------------------------------
(* Properties.                                                              *)

Lsns(s, from, to) == {stream[s][i].lsn : i \in from..to}
Written(s) == Lsns(s, 1, Len(stream[s]))
Acked(s) == {i \in (base[s] + 1)..last[s] : base[s] # NoGroup /\ i \notin pel[s]}

(* Every variable has its type; pending entries were delivered. *)
TypeOK ==
    /\ \A s \in Stages :
        /\ \A i \in DOMAIN stream[s] :
              stream[s][i].lsn \in 1..MaxEntries /\ stream[s][i].data \in Texts
        /\ base[s] \in -1..last[s]
        /\ last[s] \in 0..Len(stream[s])
        /\ pel[s] \subseteq 1..last[s]
        /\ cur[s] \in pel[s] \cup {NoEntry} \/ pc[s] = "ack"
        /\ enr[s] \subseteq Columns
        /\ effects[s] \subseteq 1..MaxEntries
    /\ pc \in [Stages -> {"off", "ensure", "read", "enrich", "handle", "emit",
                          "ack", "returned"}]
    /\ proc \in {"down", "starting", "waiting", "closed"}
    /\ booted \in 0..N
    /\ ctx \in {"live", "done"}
    /\ excused \subseteq Stages \X (1..MaxEntries)
    /\ faults \in 0..MaxFaults

(* "The stream is XACKed only after both succeed" (README.md:182): an entry     *)
(* that left the pending list has had its side effect, and a copy with the   *)
(* same lsn was emitted, through every retry, crash and cancellation.       *)
AckedIsThrough ==
    \A s \in Stages : \A i \in Acked(s) :
        /\ stream[s][i].lsn \in effects[s]
        /\ s < N => stream[s][i].lsn \in Written(s + 1)

(* "only on success is the event emitted downstream" (README.md:181): nothing is *)
(* on a downstream stream whose side effect upstream never happened.        *)
EmittedIsHandled ==
    \A s \in 1..(N - 1) : Written(s + 1) \subseteq effects[s]

(* An event is on a stream twice only if a binding upstream lost the reply of   *)
(* its XADD, or stopped between its own emit and its XACK.                  *)
Excused(s, lsn) == \E t \in 1..(s - 1) : <<t, lsn>> \in excused
CopiesExcused ==
    \A s \in 2..N : \A i, j \in DOMAIN stream[s] :
        i # j /\ stream[s][i].lsn = stream[s][j].lsn => Excused(s, stream[s][i].lsn)

(* What Emit writes, Parse reads: the next stage never stops at an entry of    *)
(* its upstream, and gets the rows, the lsn for dedup and the upstream's     *)
(* enrichment; only the fraction of the second is gone.                     *)
EmittedIsWhole ==
    \A s \in 2..N : \A e \in {stream[s][i] : i \in DOMAIN stream[s]} :
        LET origin == Parse(stream[1][e.lsn]) IN
        /\ Parses(e)
        /\ Parse(e).data = origin.data /\ Parse(e).old = origin.old
        /\ origin.at - Parse(e).at \in {0, 1}
        /\ \A k \in DOMAIN Rules[s - 1] : Rules[s - 1][k].into \in Parse(e).enrichment

(* A cancelled context brings the whole process down: each consumer gets out     *)
(* of its loop, its chain or its retries, and main out of Wait.              *)
ShutsDown == (ctx = "done") ~> (proc = "down")

(* End to end: with WALker's entries good, each one delivered to the first      *)
(* binding has its effect at the last one, unless a copy was emitted before  *)
(* the next binding's group existed: '$' skips that one for good.           *)
Good(e) == Parses(e) /\ \A s \in Stages :
    \A k \in DOMAIN Rules[s] : Bound(Parse(e), Rules[s][k])
Skipped == UNION {Lsns(s, 1, base[s]) : s \in 2..N}
ReachesEnd ==
    [](\A i \in DOMAIN stream[1] : Good(stream[1][i])) =>
        \A i \in 1..MaxEntries :
            (base[1] # NoGroup /\ base[1] < i /\ i <= last[1])
                ~> (i \in effects[N] \cup Skipped)

=============================================================================
