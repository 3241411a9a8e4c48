--------------------------- MODULE PipelineProofs ---------------------------
(***************************************************************************)
(* Proofs about Pipeline, for any number of bindings, any enrichment rules,  *)
(* any entries of WALker and any number of crashes, cancellations and lost   *)
(* replies.                                                                 *)
(***************************************************************************)
EXTENDS Pipeline, SequenceTheorems, FiniteSetTheorems, WellFoundedInduction, TLAPS

(* What Emit makes of an event is an entry that Parse reads back, but for the  *)
(* fraction of the second.                                                  *)
LEMMA EnvelopeParses ==
  ASSUME NEW e \in Entries, Parses(e), NEW m \in SUBSET Columns
  PROVE  LET x == Envelope([Parse(e) EXCEPT !.enrichment = m]) IN
         /\ x \in Entries
         /\ x.lsn = e.lsn
         /\ Parses(x)
         /\ Parse(x).data = Parse(e).data
         /\ Parse(x).old = Parse(e).old
         /\ Parse(x).at = Seconds(e.at)
         /\ Parse(x).enrichment = m
  <1> DEFINE evt == [Parse(e) EXCEPT !.enrichment = m]
             x == Envelope(evt)
  <1>1. /\ evt.lsn = e.lsn /\ evt.at = e.at /\ evt.data = e.data.map
        /\ evt.old = e.old.map /\ evt.enrichment = m
    BY DEF Parse
  <1> HIDE DEF evt
  <1>2. \A t \in Texts : t.map \in SUBSET Columns
    BY DEF Texts, Absent, Blank, Garbage, Json
  <1>3. e.data \in Texts /\ e.old \in Texts /\ e.lsn \in Nat /\ e.at \in Nat
    BY DEF Entries, Parses, NoTime
  <1>4. Seconds(e.at) \in Nat
    BY <1>3 DEF Seconds
  <1>5. \A t \in SUBSET Columns :
          /\ OmitEmpty(t) \in Texts /\ OmitEmpty(t).map = t
          /\ OmitEmpty(t).kind \in Optional
          /\ Json(t) \in Texts /\ Json(t).map = t /\ Json(t).kind = "json"
    BY DEF OmitEmpty, Absent, Json, Optional, Texts
  <1>6. /\ x.head = TRUE /\ x.lsn = e.lsn /\ x.at = Seconds(e.at)
        /\ x.data = Json(e.data.map) /\ x.old = OmitEmpty(e.old.map)
        /\ x.enrichment = OmitEmpty(m) /\ x.source = Instance
        /\ x = [head |-> TRUE, lsn |-> e.lsn, at |-> Seconds(e.at),
                data |-> Json(e.data.map), old |-> OmitEmpty(e.old.map),
                enrichment |-> OmitEmpty(m), source |-> Instance]
    BY <1>1 DEF Envelope, Entry
  <1>7. x \in Entries
    BY <1>2, <1>3, <1>4, <1>5, <1>6 DEF Entries
  <1>8. Parses(x)
    BY <1>2, <1>3, <1>4, <1>5, <1>6 DEF Parses, NoTime
  <1>9. /\ Parse(x).data = Parse(e).data /\ Parse(x).old = Parse(e).old
        /\ Parse(x).at = Seconds(e.at) /\ Parse(x).enrichment = m
    BY <1>2, <1>3, <1>5, <1>6 DEF Parse
  <1> QED
    BY <1>6, <1>7, <1>8, <1>9 DEF evt

(* Emitting again loses nothing more of the time. *)
LEMMA SecondsFacts ==
  ASSUME NEW at \in Nat
  PROVE  /\ Seconds(at) \in Nat
         /\ Seconds(Seconds(at)) = Seconds(at)
         /\ at - Seconds(at) \in {0, 1}
  BY DEF Seconds

(* A non-empty set of naturals has a least element, and Min is it. *)
LEMMA MinIsMember ==
  ASSUME NEW S \in SUBSET Nat, S # {}
  PROVE  Min(S) \in S
  <1>1. PICK x \in S : \A y \in S : ~(<<y, x>> \in OpToRel(<, Nat))
    BY WFMin, NatLessThanWellFounded
  <1>2. \A y \in Nat : y < x => <<y, x>> \in OpToRel(<, Nat)
    BY Zenon DEF OpToRel
  <1>3. \A y \in S : x <= y
    <2>1. \A y \in S : ~(y < x)
      BY <1>1, <1>2, Zenon
    <2> QED
      BY <2>1
  <1> QED
    BY <1>3 DEF Min

-----------------------------------------------------------------------------
(* The inductive invariant.                                                 *)

PCs == {"off", "ensure", "read", "enrich", "handle", "emit", "ack", "returned"}
InChain == {"enrich", "handle", "emit", "ack"}

(* The variables are functions on the bindings. *)
Shape ==
    /\ stream \in [Stages -> Seq(Entries)]
    /\ base \in [Stages -> Int]
    /\ last \in [Stages -> Nat]
    /\ pel \in [Stages -> SUBSET Nat]
    /\ pc \in [Stages -> PCs]
    /\ cur \in [Stages -> Nat]
    /\ enr \in [Stages -> SUBSET Columns]
    /\ effects \in [Stages -> SUBSET Nat]

(* main is in one place, and closes the producer when all have returned. *)
Booting ==
    /\ proc \in {"down", "starting", "waiting", "closed"}
    /\ booted \in 0..N
    /\ proc = "down" => booted = 0
    /\ proc = "starting" => booted < N
    /\ \A s \in Stages : s > booted => pc[s] = "off"
    /\ proc = "closed" => AllReturned
    /\ ctx \in {"live", "done"}
    /\ faults \in 0..MaxFaults

(* WALker's lsns number its entries, and no stream has others. *)
Numbered ==
    /\ Len(stream[1]) <= MaxEntries
    /\ \A i \in 1..Len(stream[1]) : stream[1][i].lsn = i
    /\ \A s \in Stages : \A i \in 1..Len(stream[s]) :
          stream[s][i].lsn \in 1..Len(stream[1])

GroupOK(s) ==
    /\ base[s] \in -1..last[s]
    /\ last[s] \in 0..Len(stream[s])
    /\ pel[s] \subseteq 1..last[s]
    /\ effects[s] \subseteq 1..MaxEntries

(* The chain works on a pending entry that parsed, with the enrichment of this *)
(* attempt; it emits after the side effect and acknowledges after the emit.  *)
ChainOK(s) ==
    /\ pc[s] \in InChain => cur[s] \in 1..last[s] /\ Parses(stream[s][cur[s]])
    /\ pc[s] \in InChain \ {"ack"} => cur[s] \in pel[s]
    /\ pc[s] \notin InChain => cur[s] = NoEntry
    /\ pc[s] \in {"handle", "emit", "ack"} => enr[s] = Enrichment(s)
    /\ pc[s] \in {"emit", "ack"} => Lsn(s) \in effects[s]
    /\ pc[s] = "emit" => s < N
    /\ pc[s] = "ack" /\ s < N => Lsn(s) \in Written(s + 1)

ThroughOK(s) ==
    \A i \in Acked(s) :
        /\ stream[s][i].lsn \in effects[s]
        /\ s < N => stream[s][i].lsn \in Written(s + 1)

StageOK(s) == GroupOK(s) /\ ChainOK(s) /\ ThroughOK(s)

(* What is on a downstream stream came through the handler before it, with the *)
(* rows of WALker's entry and the time cut to a second once.                *)
SourceOK(s) ==
    \A i \in 1..Len(stream[s]) :
        LET e == stream[s][i]
            origin == stream[1][e.lsn]
        IN /\ e.lsn \in effects[s - 1]
           /\ Parses(e)
           /\ origin.at \in Nat
           /\ Parse(e).data = Parse(origin).data
           /\ Parse(e).old = Parse(origin).old
           /\ e.at = Seconds(origin.at)
           /\ \A k \in DOMAIN Rules[s - 1] : Rules[s - 1][k].into \in Parse(e).enrichment

PInv ==
    /\ Shape
    /\ Booting
    /\ Numbered
    /\ excused \subseteq Stages \X (1..MaxEntries)
    /\ \A s \in Stages : StageOK(s)
    /\ \A s \in 2..N : SourceOK(s)


-----------------------------------------------------------------------------
(* What the steps have in common.                                           *)

(* Redis only appends to a stream here. *)
Grows ==
    \A t \in Stages :
        /\ Len(stream[t]) <= Len(stream'[t])
        /\ \A i \in 1..Len(stream[t]) : stream'[t][i] = stream[t][i]

(* A step leaves a binding and its group alone. *)
Kept(t) ==
    /\ base'[t] = base[t]
    /\ last'[t] = last[t]
    /\ pel'[t] = pel[t]
    /\ pc'[t] = pc[t]
    /\ cur'[t] = cur[t]
    /\ enr'[t] = enr[t]
    /\ effects'[t] = effects[t]

(* The entries of a stream and what main's assumption says of a rule. *)
LEMMA StreamFacts ==
  ASSUME Shape, NEW s \in Stages
  PROVE  /\ stream[s] \in Seq(Entries)
         /\ Len(stream[s]) \in Nat
         /\ DOMAIN stream[s] = 1..Len(stream[s])
         /\ \A i \in 1..Len(stream[s]) : stream[s][i] \in Entries
         /\ \A i \in 1..Len(stream[s]) : stream[s][i].lsn \in Nat
  <1>1. stream[s] \in Seq(Entries)
    BY DEF Shape
  <1>2. \A i \in 1..Len(stream[s]) : stream[s][i] \in Entries
    BY <1>1, ElementOfSeq
  <1>3. \A i \in 1..Len(stream[s]) : stream[s][i].lsn \in Nat
    BY <1>2 DEF Entries
  <1> QED
    BY <1>1, <1>2, <1>3, LenProperties

(* What has been written stays written. *)
LEMMA WrittenGrows ==
  ASSUME Shape, Shape', Grows, NEW t \in Stages
  PROVE  Written(t) \subseteq Written(t)'
  <1>1. Len(stream[t]) \in Nat /\ Len(stream'[t]) \in Nat
    BY StreamFacts DEF Shape
  <1>2. \A i \in 1..Len(stream[t]) : i \in 1..Len(stream'[t]) /\ stream'[t][i] = stream[t][i]
    BY <1>1 DEF Grows
  <1> QED
    BY <1>2 DEF Written, Lsns

(* An entry that is through stays through, and only entries that are get       *)
(* acknowledged.                                                            *)
LEMMA ThroughStep ==
  ASSUME PInv, Shape', Grows, NEW s \in Stages,
         last[s] <= Len(stream[s]),
         effects[s] \subseteq effects'[s],
         \A i \in Acked(s)' :
            \/ i \in Acked(s)
            \/ /\ i \in 1..last[s]
               /\ stream[s][i].lsn \in effects[s]
               /\ s < N => stream[s][i].lsn \in Written(s + 1)
  PROVE  ThroughOK(s)'
  <1> SUFFICES ASSUME NEW i \in Acked(s)'
               PROVE  /\ stream'[s][i].lsn \in effects'[s]
                      /\ s < N => stream'[s][i].lsn \in Written(s + 1)'
    BY DEF ThroughOK
  <1>1. /\ Shape /\ GroupOK(s) /\ ThroughOK(s) /\ N \in Nat
    BY PipelineAssumption DEF PInv, StageOK
  <1>2. /\ i \in 1..last[s]
        /\ stream[s][i].lsn \in effects[s]
        /\ s < N => stream[s][i].lsn \in Written(s + 1)
    <2>1. CASE i \in Acked(s)
      <3>1. i \in 1..last[s]
        BY <1>1, <2>1 DEF Acked, GroupOK, NoGroup, Shape
      <3> QED
        BY <1>1, <2>1, <3>1 DEF ThroughOK
    <2> QED
      BY <2>1
  <1>3. stream'[s][i] = stream[s][i]
    <2>1. i \in 1..Len(stream[s])
      BY <1>1, <1>2, StreamFacts DEF Shape
    <2> QED
      BY <2>1 DEF Grows
  <1>4. s < N => s + 1 \in Stages
    BY <1>1 DEF Stages
  <1>5. s < N => Written(s + 1) \subseteq Written(s + 1)'
    BY <1>1, <1>4, WrittenGrows
  <1> QED
    BY <1>2, <1>3, <1>5

(* A binding that a step leaves alone stays as it is. *)
LEMMA KeptStep ==
  ASSUME PInv, Shape', Grows, NEW t \in Stages, Kept(t)
  PROVE  StageOK(t)'
  <1>1. /\ Shape /\ GroupOK(t) /\ ChainOK(t) /\ ThroughOK(t) /\ N \in Nat
    BY PipelineAssumption DEF PInv, StageOK
  <1>2. Len(stream[t]) \in Nat /\ Len(stream'[t]) \in Nat /\ Len(stream[t]) <= Len(stream'[t])
    BY <1>1, StreamFacts DEF Shape, Grows
  <1>3. GroupOK(t)'
    BY <1>1, <1>2 DEF GroupOK, Kept, Shape
  <1>4. ChainOK(t)'
    <2>1. ASSUME pc[t] \in InChain
          PROVE  /\ stream'[t][cur'[t]] = stream[t][cur[t]]
                 /\ Lsn(t)' = Lsn(t) /\ Enrichment(t)' = Enrichment(t)
      <3>1. cur[t] \in 1..Len(stream[t])
        BY <1>1, <1>2, <2>1 DEF ChainOK, GroupOK, Shape
      <3>2. stream'[t][cur'[t]] = stream[t][cur[t]]
        BY <3>1 DEF Grows, Kept
      <3> QED
        BY <3>2 DEF Lsn, Enrichment, Event
    <2>2. t < N => Written(t + 1) \subseteq Written(t + 1)'
      <3>1. t < N => t + 1 \in Stages
        BY <1>1 DEF Stages
      <3> QED
        BY <1>1, <3>1, WrittenGrows
    <2> QED
      BY <1>1, <2>1, <2>2 DEF ChainOK, Kept, InChain
  <1>5. ThroughOK(t)'
    <2>1. Acked(t)' = Acked(t)
      BY DEF Acked, Kept
    <2>2. last[t] <= Len(stream[t]) /\ effects[t] \subseteq effects'[t]
      BY <1>1, <1>2 DEF Kept, GroupOK
    <2>3. \A i \in Acked(t)' : i \in Acked(t)
      BY <2>1
    <2> QED
      BY <2>2, <2>3, ThroughStep
  <1> QED
    BY <1>3, <1>4, <1>5 DEF StageOK

(* What came through a handler stays so. *)
LEMMA SourceStep ==
  ASSUME PInv, Shape', Grows, NEW s \in 2..N, stream'[s] = stream[s],
         effects[s - 1] \subseteq effects'[s - 1]
  PROVE  SourceOK(s)'
  <1>1. Shape /\ SourceOK(s) /\ Numbered /\ s \in Stages /\ 1 \in Stages
    BY PipelineAssumption DEF PInv, Stages
  <1>2. \A i \in 1..Len(stream[s]) : stream'[1][stream[s][i].lsn] = stream[1][stream[s][i].lsn]
    BY <1>1 DEF Numbered, Grows
  <1> QED
    BY <1>1, <1>2 DEF SourceOK

-----------------------------------------------------------------------------
(* The steps of a consumer.                                                 *)

(* A step of binding s is the other bindings' stuttering step, and main       *)
(* learns of it through the context alone.                                  *)
Frame(s) ==
    /\ base' \in [Stages -> Int]
    /\ last' \in [Stages -> Nat]
    /\ pel' \in [Stages -> SUBSET Nat]
    /\ pc' \in [Stages -> PCs]
    /\ cur' \in [Stages -> Nat]
    /\ enr' \in [Stages -> SUBSET Columns]
    /\ effects' \in [Stages -> SUBSET Nat]
    /\ \A t \in Stages \ {s} : Kept(t)
    /\ effects[s] \subseteq effects'[s]
    /\ UNCHANGED <<proc, booted>>
    /\ ctx' \in {"live", "done"}
    /\ faults' \in 0..MaxFaults

(* Returning from Run and beginning the chain anew are such steps, unless      *)
(* the rest of the action is not.                                           *)
LEMMA ReturnFrame ==
  ASSUME Shape, Booting, NEW s \in Stages, Return(s) \/ Transient(s)
  PROVE  /\ pc' \in [Stages -> PCs] /\ cur' \in [Stages -> Nat]
         /\ enr' \in [Stages -> SUBSET Columns]
         /\ \A t \in Stages \ {s} : pc'[t] = pc[t] /\ cur'[t] = cur[t] /\ enr'[t] = enr[t]
         /\ UNCHANGED <<proc, booted>>
         /\ ctx' \in {"live", "done"}
         /\ \/ pc'[s] = "returned" /\ cur'[s] = NoEntry
            \/ pc'[s] = "enrich" /\ cur'[s] = cur[s]
         /\ Return(s) => pc'[s] = "returned" /\ cur'[s] = NoEntry
  <1>1. CASE Return(s)
    BY <1>1 DEF Shape, Booting, Return, PCs, NoEntry
  <1>2. CASE Transient(s) /\ ~Return(s)
    <2>1. /\ pc' = [pc EXCEPT ![s] = "enrich"]
          /\ enr' = [enr EXCEPT ![s] = {}]
          /\ UNCHANGED <<mainVars, cur>>
      BY <1>2 DEF Transient
    <2> QED
      BY <1>2, <2>1 DEF Shape, Booting, PCs, mainVars
  <1> QED
    BY <1>1, <1>2

(* WALker's columns are columns, and the rules' Into names are, too. *)
LEMMA EnrichmentType ==
  ASSUME PInv, NEW s \in Stages, pc[s] \in InChain
  PROVE  /\ cur[s] \in 1..Len(stream[s])
         /\ stream[s][cur[s]] \in Entries
         /\ Parses(stream[s][cur[s]])
         /\ Lsn(s) \in 1..MaxEntries
         /\ Enrichment(s) \in SUBSET Columns
  <1>1. /\ Shape /\ GroupOK(s) /\ ChainOK(s) /\ Numbered /\ 1 \in Stages
    BY PipelineAssumption DEF PInv, StageOK, Stages
  <1>2. Len(stream[s]) \in Nat /\ Len(stream[1]) \in Nat /\ last[s] \in Nat
    BY <1>1, StreamFacts DEF Shape
  <1>3. cur[s] \in 1..Len(stream[s]) /\ Parses(stream[s][cur[s]])
    BY <1>1, <1>2 DEF ChainOK, GroupOK
  <1>4. stream[s][cur[s]] \in Entries
    BY <1>1, <1>3, StreamFacts
  <1>5. Lsn(s) \in 1..MaxEntries
    BY <1>1, <1>2, <1>3, PipelineAssumption DEF Numbered, Lsn
  <1>6. Event(s).enrichment \in SUBSET Columns
    <2>1. \A t \in Texts : t.map \in SUBSET Columns
      BY DEF Texts, Absent, Blank, Garbage, Json
    <2> QED
      BY <1>4, <2>1 DEF Event, Parse, Entries
  <1>7. \A k \in DOMAIN Rules[s] : Rules[s][k].into \in Columns
    <2>1. Rules[s] \in Seq([bind : SUBSET Columns, into : Columns])
      BY PipelineAssumption
    <2>2. \A k \in DOMAIN Rules[s] : Rules[s][k] \in [bind : SUBSET Columns, into : Columns]
      BY <2>1, ElementOfSeq, LenProperties
    <2> QED
      BY <2>2
  <1> QED
    BY <1>3, <1>4, <1>5, <1>6, <1>7 DEF Enrichment

(* Min(pel) is a pending entry. *)
LEMMA NextPending ==
  ASSUME PInv, NEW s \in Stages, pel[s] # {}
  PROVE  Min(pel[s]) \in pel[s] /\ Min(pel[s]) \in 1..last[s]
  <1>1. GroupOK(s) /\ Shape
    BY DEF PInv, StageOK
  <1>2. pel[s] \in SUBSET Nat
    BY <1>1 DEF Shape
  <1>3. Min(pel[s]) \in pel[s]
    BY <1>2, MinIsMember
  <1> QED
    BY <1>1, <1>3 DEF GroupOK

(* Every step of a consumer has that frame. *)
LEMMA ConsumerFrame ==
  ASSUME PInv, NEW s \in Stages, Consumer(s)
  PROVE  Frame(s)
  <1> USE PipelineAssumption
  <1>0. Shape /\ Booting
    BY DEF PInv
  <1>1. CASE EnsureGroup(s)
    <2>1. Len(stream[s]) \in Nat
      BY <1>0, StreamFacts
    <2> QED
      BY <1>0, <1>1, <2>1 DEF Shape, Booting, EnsureGroup, Frame, Kept, PCs, mainVars
  <1>2. CASE Fetch(s)
    <2> DEFINE m == IF pel[s] # {} THEN Min(pel[s]) ELSE last[s] + 1
    <2>1. m \in Nat
      BY <1>0, NextPending DEF Shape
    <2>2. Deliver(s, m) /\ UNCHANGED <<effects, faults>>
      BY <1>2 DEF Fetch
    <2>3. \/ /\ pc' = [pc EXCEPT ![s] = "enrich"]
             /\ cur' = [cur EXCEPT ![s] = m]
             /\ UNCHANGED <<mainVars, enr>>
          \/ Return(s)
      BY <1>2 DEF Fetch
    <2>a. UNCHANGED base
      BY <1>2 DEF Fetch
    <2> HIDE DEF m
    <2>4. last' \in [Stages -> Nat] /\ \A t \in Stages \ {s} : last'[t] = last[t]
      BY <1>0, <2>1, <2>2 DEF Deliver, Shape
    <2>5. pel' \in [Stages -> SUBSET Nat] /\ \A t \in Stages \ {s} : pel'[t] = pel[t]
      BY <1>0, <2>1, <2>2 DEF Deliver, Shape
    <2>6. CASE Return(s)
      BY <1>0, <2>6, <2>2, <2>a, <2>4, <2>5, ReturnFrame DEF Shape, Booting, Frame, Kept
    <2>7. CASE /\ pc' = [pc EXCEPT ![s] = "enrich"]
               /\ cur' = [cur EXCEPT ![s] = m]
               /\ UNCHANGED <<mainVars, enr>>
      BY <1>0, <2>7, <2>1, <2>2, <2>a, <2>4, <2>5 DEF Shape, Booting, Frame, Kept, PCs, mainVars
    <2> QED
      BY <2>3, <2>6, <2>7
  <1>3. CASE FetchNothing(s)
    BY <1>0, <1>3 DEF Shape, Booting, FetchNothing, Frame, Kept, vars, redisVars, mainVars, runVars
  <1>4. CASE RedisError(s)
    <2>1. Return(s) /\ UNCHANGED <<redisVars, effects>> /\ faults' \in 0..MaxFaults
      BY <1>0, <1>4 DEF RedisError, Fault, Booting
    <2> QED
      BY <1>0, <2>1, ReturnFrame DEF Shape, Booting, Frame, Kept, redisVars
  <1>5. CASE EnrichOk(s)
    <2>1. Enrichment(s) \in SUBSET Columns
      BY <1>5, EnrichmentType DEF EnrichOk, InChain
    <2> QED
      BY <1>0, <1>5, <2>1 DEF Shape, Booting, EnrichOk, Proceed, AfterEnrich, Frame, Kept,
         PCs, mainVars, redisVars
  <1>6. CASE EnrichTransient(s)
    BY <1>0, <1>6, ReturnFrame DEF EnrichTransient, Shape, Booting, Frame, Kept, redisVars
  <1>7. CASE EnrichPoison(s)
    <2>1. Return(s) /\ UNCHANGED <<redisVars, effects>> /\ faults' \in 0..MaxFaults
      BY <1>0, <1>7 DEF EnrichPoison, Fault, Booting
    <2> QED
      BY <1>0, <2>1, ReturnFrame DEF Shape, Booting, Frame, Kept, redisVars
  <1>8. CASE HandleOk(s)
    <2>1. Lsn(s) \in Nat
      BY <1>8, EnrichmentType DEF HandleOk, InChain
    <2> QED
      BY <1>0, <1>8, <2>1 DEF Shape, Booting, HandleOk, Proceed, Frame, Kept, PCs, mainVars, redisVars
  <1>9. CASE HandleTransient(s)
    <2>1. Lsn(s) \in Nat
      BY <1>9, EnrichmentType DEF HandleTransient, InChain
    <2>2. /\ effects' \in [Stages -> SUBSET Nat]
          /\ \A t \in Stages \ {s} : effects'[t] = effects[t]
          /\ effects[s] \subseteq effects'[s]
      BY <1>0, <1>9, <2>1 DEF HandleTransient, Shape
    <2> QED
      BY <1>0, <1>9, <2>2, ReturnFrame DEF HandleTransient, Shape, Booting, Frame, Kept, redisVars
  <1>10. CASE HandlePoison(s)
    <2>1. Return(s) /\ UNCHANGED redisVars /\ faults' \in 0..MaxFaults
      BY <1>0, <1>10 DEF HandlePoison, Fault, Booting
    <2>2. Lsn(s) \in Nat
      BY <1>10, EnrichmentType DEF HandlePoison, InChain
    <2>3. /\ effects' \in [Stages -> SUBSET Nat]
          /\ \A t \in Stages \ {s} : effects'[t] = effects[t]
          /\ effects[s] \subseteq effects'[s]
      BY <1>0, <1>10, <2>2 DEF HandlePoison, Shape
    <2> QED
      BY <1>0, <2>1, <2>3, ReturnFrame DEF Shape, Booting, Frame, Kept, redisVars
  <1>11. CASE EmitOk(s)
    BY <1>0, <1>11 DEF Shape, Booting, EmitOk, XAdd, Proceed, Frame, Kept, PCs, mainVars
  <1>12. CASE EmitError(s)
    BY <1>0, <1>12, ReturnFrame DEF EmitError, Shape, Booting, Frame, Kept, redisVars
  <1>13. CASE EmitReplyLost(s)
    <2>1. UNCHANGED <<base, last, pel, effects>> /\ faults' \in 0..MaxFaults
      BY <1>0, <1>13 DEF EmitReplyLost, XAdd, Fault, Booting
    <2>2. CASE Transient(s)
      BY <1>0, <2>1, <2>2, ReturnFrame DEF Shape, Booting, Frame, Kept
    <2>3. CASE UNCHANGED <<mainVars, runVars>>
      BY <1>0, <2>1, <2>3 DEF Shape, Booting, Frame, Kept, mainVars, runVars
    <2> QED
      BY <1>13, <2>2, <2>3 DEF EmitReplyLost
  <1>14. CASE AckOk(s)
    BY <1>0, <1>14 DEF Shape, Booting, AckOk, Frame, Kept, PCs, mainVars, NoEntry
  <1>15. CASE AckError(s)
    <2>1. /\ pel' \in [Stages -> SUBSET Nat]
          /\ \A t \in Stages \ {s} : pel'[t] = pel[t]
          /\ UNCHANGED <<base, last, effects, faults>>
      BY <1>0, <1>15 DEF AckError, Shape
    <2>2. CASE Return(s)
      BY <1>0, <2>1, <2>2, ReturnFrame DEF Shape, Booting, Frame, Kept
    <2>3. CASE UNCHANGED <<mainVars, runVars>>
      BY <1>0, <2>1, <2>3 DEF Shape, Booting, Frame, Kept, mainVars, runVars
    <2> QED
      BY <1>15, <2>2, <2>3 DEF AckError
  <1> QED
    BY <1>1, <1>2, <1>3, <1>4, <1>5, <1>6, <1>7, <1>8, <1>9, <1>10, <1>11, <1>12, <1>13,
       <1>14, <1>15 DEF Consumer

(* An emit appends an entry that parses, with the lsn, the rows and the        *)
(* enrichment of the event at hand.                                         *)
LEMMA XAddFacts ==
  ASSUME PInv, NEW s \in Stages, pc[s] = "emit", XAdd(s)
  PROVE  \E x \in Entries :
            /\ s + 1 \in 2..N
            /\ stream' = [stream EXCEPT ![s + 1] = Append(stream[s + 1], x)]
            /\ x.lsn = Lsn(s)
            /\ Parses(x)
            /\ Parse(x).data = Event(s).data
            /\ Parse(x).old = Event(s).old
            /\ x.at = Seconds(Event(s).at)
            /\ Parse(x).enrichment = Enrichment(s)
  <1> DEFINE x == Envelope([Event(s) EXCEPT !.enrichment = enr[s]])
  <1>1. /\ stream[s][cur[s]] \in Entries
        /\ Parses(stream[s][cur[s]])
        /\ Enrichment(s) \in SUBSET Columns
    BY EnrichmentType DEF InChain
  <1>2. ChainOK(s)
    BY DEF PInv, StageOK
  <1>3. s + 1 \in 2..N /\ enr[s] = Enrichment(s)
    BY <1>2, PipelineAssumption DEF ChainOK, Stages
  <1>4. /\ x \in Entries
        /\ x.lsn = stream[s][cur[s]].lsn
        /\ Parses(x)
        /\ Parse(x).data = Event(s).data
        /\ Parse(x).old = Event(s).old
        /\ Parse(x).at = Seconds(stream[s][cur[s]].at)
        /\ Parse(x).enrichment = Enrichment(s)
    BY <1>1, <1>3, EnvelopeParses DEF Event
  <1>5. Event(s).at = stream[s][cur[s]].at /\ Parse(x).at = x.at
    BY DEF Event, Parse
  <1>6. stream' = [stream EXCEPT ![s + 1] = Append(stream[s + 1], x)]
    BY DEF XAdd
  <1> HIDE DEF x
  <1> QED
    BY <1>3, <1>4, <1>5, <1>6 DEF Lsn

(* Appending to one stream: the streams keep their type and what they hold. *)
LEMMA AppendGrows ==
  ASSUME Shape, NEW t \in Stages, NEW x \in Entries,
         stream' = [stream EXCEPT ![t] = Append(stream[t], x)]
  PROVE  /\ stream' \in [Stages -> Seq(Entries)]
         /\ Len(stream'[t]) = Len(stream[t]) + 1
         /\ stream'[t][Len(stream[t]) + 1] = x
         /\ \A u \in Stages \ {t} : stream'[u] = stream[u]
         /\ Grows
  <1>1. stream[t] \in Seq(Entries) /\ Len(stream[t]) \in Nat
    BY StreamFacts
  <1>2. /\ Append(stream[t], x) \in Seq(Entries)
        /\ Len(Append(stream[t], x)) = Len(stream[t]) + 1
        /\ \A i \in 1..Len(stream[t]) : Append(stream[t], x)[i] = stream[t][i]
        /\ Append(stream[t], x)[Len(stream[t]) + 1] = x
    BY <1>1, AppendProperties
  <1>3. stream'[t] = Append(stream[t], x) /\ \A u \in Stages \ {t} : stream'[u] = stream[u]
    BY DEF Shape
  <1>4. stream' \in [Stages -> Seq(Entries)]
    BY <1>2 DEF Shape
  <1>5. Grows
    <2>1. \A u \in Stages : Len(stream[u]) \in Nat
      BY StreamFacts
    <2>2. SUFFICES ASSUME NEW u \in Stages
                   PROVE  /\ Len(stream[u]) <= Len(stream'[u])
                          /\ \A i \in 1..Len(stream[u]) : stream'[u][i] = stream[u][i]
      BY DEF Grows
    <2> QED
      BY <1>1, <1>2, <1>3, <2>1
  <1> QED
    BY <1>1, <1>2, <1>3, <1>4, <1>5

(* A consumer writes to no stream, or emits. *)
LEMMA WritesOnlyByEmit ==
  ASSUME NEW s \in Stages, Consumer(s)
  PROVE  UNCHANGED stream \/ (pc[s] = "emit" /\ XAdd(s))
  BY DEF Consumer, EnsureGroup, Fetch, FetchNothing, RedisError, EnrichOk, EnrichTransient,
     EnrichPoison, HandleOk, HandleTransient, HandlePoison, EmitOk, EmitError, EmitReplyLost,
     AckOk, AckError, redisVars, vars

(* What an emit writes has its source. *)
LEMMA EmitSource ==
  ASSUME PInv, Shape', NEW s \in Stages, pc[s] = "emit", XAdd(s), effects[s] \subseteq effects'[s]
  PROVE  SourceOK(s + 1)'
  <1>1. PICK x \in Entries :
            /\ s + 1 \in 2..N
            /\ stream' = [stream EXCEPT ![s + 1] = Append(stream[s + 1], x)]
            /\ x.lsn = Lsn(s)
            /\ Parses(x)
            /\ Parse(x).data = Event(s).data
            /\ Parse(x).old = Event(s).old
            /\ x.at = Seconds(Event(s).at)
            /\ Parse(x).enrichment = Enrichment(s)
    BY XAddFacts
  <1>2. /\ Shape /\ ChainOK(s) /\ Numbered /\ SourceOK(s + 1) /\ (s # 1 => SourceOK(s))
        /\ 1 \in Stages /\ s + 1 \in Stages /\ s + 1 # 1 /\ (s + 1) - 1 = s
    BY <1>1, PipelineAssumption DEF PInv, StageOK, Stages
  <1>3. /\ cur[s] \in 1..Len(stream[s])
        /\ stream[s][cur[s]] \in Entries
        /\ Parses(stream[s][cur[s]])
    BY EnrichmentType DEF InChain
  <1> DEFINE e == stream[s][cur[s]]
             n == Len(stream[s + 1])
             origin == stream[1][e.lsn]
  <1>4. /\ Len(stream'[s + 1]) = n + 1 /\ stream'[s + 1][n + 1] = x
        /\ stream'[1] = stream[1] /\ n \in Nat
        /\ \A i \in 1..n : stream'[s + 1][i] = stream[s + 1][i]
    <2>1. stream'[1] = stream[1] /\ Grows
      BY <1>1, <1>2, AppendGrows
    <2> QED
      BY <1>1, <1>2, <2>1, AppendGrows, StreamFacts DEF Grows
  <1>5. /\ origin.at \in Nat
        /\ Parse(e).data = Parse(origin).data
        /\ Parse(e).old = Parse(origin).old
        /\ Seconds(e.at) = Seconds(origin.at)
    <2>1. CASE s = 1
      <3>1. origin = e
        BY <1>2, <1>3, <2>1 DEF Numbered
      <3>2. e.at \in Nat
        BY <1>3 DEF Parses, Entries
      <3> QED
        BY <3>1, <3>2
    <2>2. CASE s # 1
      <3>1. /\ origin.at \in Nat
            /\ Parse(e).data = Parse(origin).data
            /\ Parse(e).old = Parse(origin).old
            /\ e.at = Seconds(origin.at)
        BY <1>2, <1>3, <2>2 DEF SourceOK
      <3>2. Seconds(e.at) = Seconds(origin.at)
        BY <3>1, SecondsFacts
      <3> QED
        BY <3>1, <3>2
    <2> QED
      BY <2>1, <2>2
  <1>6. \A k \in DOMAIN Rules[s] : Rules[s][k].into \in Enrichment(s)
    BY DEF Enrichment
  <1>7. x.lsn = e.lsn /\ Event(s) = Parse(e) /\ Parse(e).at = e.at /\ e.lsn \in effects[s]
    BY <1>1, <1>2 DEF Lsn, Event, Parse, ChainOK
  <1> HIDE DEF e, n, origin
  <1> SUFFICES ASSUME NEW i \in 1..(n + 1)
               PROVE  LET y == stream'[s + 1][i]
                          o == stream'[1][y.lsn]
                      IN /\ y.lsn \in effects'[s]
                         /\ Parses(y)
                         /\ o.at \in Nat
                         /\ Parse(y).data = Parse(o).data
                         /\ Parse(y).old = Parse(o).old
                         /\ y.at = Seconds(o.at)
                         /\ \A k \in DOMAIN Rules[s] : Rules[s][k].into \in Parse(y).enrichment
    BY <1>2, <1>4 DEF SourceOK
  <1>8. CASE i = n + 1
    <2>1. stream'[s + 1][i] = x /\ stream'[1][x.lsn] = origin
      BY <1>4, <1>7, <1>8 DEF origin
    <2> QED
      BY <1>1, <1>5, <1>6, <1>7, <2>1
  <1>9. CASE i \in 1..n
    <2>1. stream'[s + 1][i] = stream[s + 1][i] /\ i \in 1..Len(stream[s + 1])
      BY <1>4, <1>9 DEF n
    <2> QED
      BY <1>2, <1>4, <2>1 DEF SourceOK
  <1> QED
    BY <1>4, <1>8, <1>9

(* After a consumer's step the streams hold what they did, every lsn is one of *)
(* WALker's and every emitted entry has its source.                         *)
LEMMA ConsumerStreams ==
  ASSUME PInv, NEW s \in Stages, Consumer(s)
  PROVE  /\ Shape' /\ Grows /\ Numbered'
         /\ \A t \in 2..N : SourceOK(t)'
  <1>1. Frame(s) /\ Shape /\ Numbered /\ 1 \in Stages
    BY ConsumerFrame, PipelineAssumption DEF PInv, Stages
  <1>2. \A t \in Stages : effects[t] \subseteq effects'[t]
    BY <1>1 DEF Frame, Kept
  <1>a. \A t \in Stages : Len(stream[t]) \in Nat
    BY <1>1, StreamFacts
  <1>b. \A t \in 2..N : t \in Stages /\ t - 1 \in Stages
    BY PipelineAssumption DEF Stages
  <1>3. CASE UNCHANGED stream
    <2>1. Shape' /\ Grows /\ Numbered'
      BY <1>1, <1>3, <1>a DEF Shape, Frame, Grows, Numbered
    <2>2. ASSUME NEW t \in 2..N PROVE SourceOK(t)'
      BY <1>2, <1>3, <1>b, <2>1, SourceStep
    <2> QED
      BY <2>1, <2>2
  <1>4. CASE pc[s] = "emit" /\ XAdd(s)
    <2>1. PICK x \in Entries :
              /\ s + 1 \in 2..N
              /\ stream' = [stream EXCEPT ![s + 1] = Append(stream[s + 1], x)]
              /\ x.lsn = Lsn(s)
      BY <1>4, XAddFacts
    <2>2. /\ stream' \in [Stages -> Seq(Entries)]
          /\ Len(stream'[s + 1]) = Len(stream[s + 1]) + 1
          /\ stream'[s + 1][Len(stream[s + 1]) + 1] = x
          /\ \A u \in Stages \ {s + 1} : stream'[u] = stream[u]
          /\ Grows
      BY <1>1, <1>b, <2>1, AppendGrows
    <2>3. Shape'
      BY <1>1, <2>2 DEF Shape, Frame
    <2>4. Lsn(s) \in 1..Len(stream[1])
      BY <1>1, <1>4, EnrichmentType DEF InChain, Numbered, Lsn
    <2>5. stream'[1] = stream[1]
      BY <1>1, <2>1, <2>2
    <2>6. Numbered'
      <3>1. ASSUME NEW t \in Stages, NEW i \in 1..Len(stream'[t])
            PROVE  stream'[t][i].lsn \in 1..Len(stream[1])
        <4>1. CASE t = s + 1 /\ i = Len(stream[s + 1]) + 1
          BY <2>1, <2>2, <2>4, <4>1
        <4>2. CASE i \in 1..Len(stream[t])
          BY <1>1, <2>2, <4>2 DEF Grows, Numbered
        <4>3. \/ t = s + 1 /\ i = Len(stream[s + 1]) + 1
              \/ i \in 1..Len(stream[t])
          BY <1>a, <2>2
        <4> QED
          BY <4>1, <4>2, <4>3
      <3> QED
        BY <1>1, <2>5, <3>1 DEF Numbered
    <2>7. ASSUME NEW t \in 2..N PROVE SourceOK(t)'
      <3>1. CASE t = s + 1
        BY <1>2, <1>4, <2>3, <3>1, EmitSource
      <3>2. CASE t # s + 1
        BY <1>2, <1>b, <2>2, <2>3, <3>2, SourceStep
      <3> QED
        BY <3>1, <3>2
    <2> QED
      BY <2>2, <2>3, <2>6, <2>7
  <1> QED
    BY <1>3, <1>4, WritesOnlyByEmit

(* The entry in the chain does not change under it. *)
LEMMA EntryKept ==
  ASSUME PInv, Grows, NEW s \in Stages, pc[s] \in InChain, cur'[s] = cur[s]
  PROVE  /\ stream'[s][cur'[s]] = stream[s][cur[s]]
         /\ Lsn(s)' = Lsn(s)
         /\ Enrichment(s)' = Enrichment(s)
  <1>1. cur[s] \in 1..Len(stream[s])
    BY EnrichmentType
  <1>2. stream'[s][cur'[s]] = stream[s][cur[s]]
    BY <1>1 DEF Grows
  <1> QED
    BY <1>2 DEF Lsn, Enrichment, Event

(* A step that leaves the group alone keeps what is said of it. *)
LEMMA GroupKept ==
  ASSUME PInv, Shape', Grows, NEW s \in Stages,
         base'[s] = base[s], last'[s] = last[s], pel'[s] = pel[s],
         effects[s] \subseteq effects'[s], effects'[s] \subseteq 1..MaxEntries
  PROVE  GroupOK(s)' /\ ThroughOK(s)'
  <1>1. Shape /\ GroupOK(s)
    BY DEF PInv, StageOK
  <1>2. Len(stream[s]) \in Nat /\ Len(stream'[s]) \in Nat /\ Len(stream[s]) <= Len(stream'[s])
    BY <1>1, StreamFacts DEF Shape, Grows
  <1>3. GroupOK(s)'
    BY <1>1, <1>2 DEF GroupOK, Shape
  <1>4. \A i \in Acked(s)' : i \in Acked(s)
    BY DEF Acked
  <1>5. last[s] <= Len(stream[s])
    BY <1>1, <1>2 DEF GroupOK
  <1> QED
    BY <1>3, <1>4, <1>5, ThroughStep

(* Run has returned, or the chain begins anew with the entry still pending. *)
LEMMA ChainBack ==
  ASSUME PInv, Grows, NEW s \in Stages,
         \/ pc'[s] = "returned" /\ cur'[s] = NoEntry
         \/ /\ pc'[s] = "enrich" /\ cur'[s] = cur[s]
            /\ pc[s] \in InChain \ {"ack"}
            /\ last'[s] = last[s] /\ pel'[s] = pel[s]
  PROVE  ChainOK(s)'
  <1>1. CASE pc'[s] = "returned" /\ cur'[s] = NoEntry
    BY <1>1 DEF ChainOK, InChain
  <1>2. CASE /\ pc'[s] = "enrich" /\ cur'[s] = cur[s]
             /\ pc[s] \in InChain \ {"ack"}
             /\ last'[s] = last[s] /\ pel'[s] = pel[s]
    <2>1. ChainOK(s) /\ stream'[s][cur'[s]] = stream[s][cur[s]]
      BY <1>2, EntryKept DEF PInv, StageOK
    <2> QED
      BY <1>2, <2>1 DEF ChainOK, InChain
  <1> QED
    BY <1>1, <1>2

(* After its own step a binding's group and chain are in order. *)
LEMMA ConsumerStage ==
  ASSUME PInv, NEW s \in Stages, Consumer(s)
  PROVE  StageOK(s)'
  <1>1. /\ Shape' /\ Grows /\ Frame(s) /\ Shape /\ Booting
        /\ GroupOK(s) /\ ChainOK(s) /\ ThroughOK(s)
    BY ConsumerStreams, ConsumerFrame DEF PInv, StageOK
  <1>2. /\ Len(stream[s]) \in Nat /\ Len(stream'[s]) \in Nat /\ Len(stream[s]) <= Len(stream'[s])
        /\ last[s] \in Nat /\ last[s] <= Len(stream[s]) /\ base[s] \in Int /\ base[s] <= last[s]
        /\ last'[s] \in Nat /\ base'[s] \in Int /\ effects[s] \subseteq effects'[s]
        /\ pc[s] \in PCs
    BY <1>1, StreamFacts DEF Shape, Grows, GroupOK, Frame
  <1>3. effects[s] \subseteq 1..MaxEntries
    BY <1>1 DEF GroupOK
  <1>4. CASE EnsureGroup(s)
    <2>1. /\ pc[s] = "ensure" /\ pc'[s] = "read" /\ UNCHANGED <<stream, pel, cur, effects>>
          /\ \/ base[s] = NoGroup /\ base'[s] = Len(stream[s]) /\ last'[s] = Len(stream[s])
             \/ UNCHANGED <<base, last>>
      BY <1>1, <1>4 DEF EnsureGroup, Shape
    <2>2. ChainOK(s)'
      BY <1>1, <2>1 DEF ChainOK, InChain
    <2>3. CASE UNCHANGED <<base, last>>
      BY <1>1, <1>3, <2>1, <2>2, <2>3, GroupKept DEF StageOK
    <2>4. CASE base[s] = NoGroup /\ base'[s] = Len(stream[s]) /\ last'[s] = Len(stream[s])
      <3>1. GroupOK(s)'
        BY <1>1, <1>2, <2>1, <2>4 DEF GroupOK
      <3>2. \A i \in Acked(s)' : i \in Acked(s)
        BY <1>2, <2>4 DEF Acked
      <3>3. ThroughOK(s)'
        BY <1>1, <1>2, <3>2, ThroughStep
      <3> QED
        BY <2>2, <3>1, <3>3 DEF StageOK
    <2> QED
      BY <2>1, <2>3, <2>4
  <1>5. CASE Fetch(s)
    <2> DEFINE m == IF pel[s] # {} THEN Min(pel[s]) ELSE last[s] + 1
    <2>1. /\ m \in 1..Len(stream[s])
          /\ (m \in pel[s] /\ m <= last[s]) \/ m = last[s] + 1
      <3>1. m <= Len(stream[s])
        BY <1>5 DEF Fetch
      <3> QED
        BY <1>2, <3>1, NextPending
    <2>2. /\ Deliver(s, m) /\ UNCHANGED <<stream, base, effects>>
          /\ \/ /\ Parses(stream[s][m])
                /\ pc' = [pc EXCEPT ![s] = "enrich"]
                /\ cur' = [cur EXCEPT ![s] = m]
             \/ Return(s)
      BY <1>5 DEF Fetch
    <2> HIDE DEF m
    <2>3. /\ last'[s] = IF m > last[s] THEN m ELSE last[s]
          /\ pel'[s] = pel[s] \cup {m}
      BY <1>1, <2>2 DEF Deliver, Shape
    <2>4. GroupOK(s)'
      BY <1>1, <1>2, <2>1, <2>2, <2>3 DEF GroupOK
    <2>5. ThroughOK(s)'
      <3>1. \A i \in Acked(s)' : i \in Acked(s)
        BY <1>2, <2>1, <2>2, <2>3 DEF Acked
      <3> QED
        BY <1>1, <1>2, <3>1, ThroughStep
    <2>6. ChainOK(s)'
      <3>1. CASE Return(s)
        BY <1>1, <3>1, ChainBack, ReturnFrame
      <3>2. CASE /\ Parses(stream[s][m])
                 /\ pc' = [pc EXCEPT ![s] = "enrich"]
                 /\ cur' = [cur EXCEPT ![s] = m]
        <4>1. pc'[s] = "enrich" /\ cur'[s] = m /\ stream'[s][m] = stream[s][m]
          BY <1>1, <2>2, <3>2 DEF Shape
        <4>2. m \in 1..last'[s] /\ m \in pel'[s]
          BY <1>2, <2>1, <2>3
        <4> QED
          BY <3>2, <4>1, <4>2 DEF ChainOK, InChain
      <3> QED
        BY <2>2, <3>1, <3>2
    <2> QED
      BY <2>4, <2>5, <2>6 DEF StageOK
  <1>6. CASE FetchNothing(s)
    <2>1. Kept(s)
      BY <1>6 DEF FetchNothing, vars, redisVars, runVars, Kept
    <2> QED
      BY <1>1, <2>1, KeptStep
  <1>7. CASE RedisError(s) \/ EnrichPoison(s) \/ HandlePoison(s)
    <2>1. /\ Return(s) /\ UNCHANGED redisVars
          /\ \/ UNCHANGED effects
             \/ pc[s] = "handle" /\ effects' = [effects EXCEPT ![s] = @ \cup {Lsn(s)}]
      BY <1>7 DEF RedisError, EnrichPoison, HandlePoison
    <2>2. ChainOK(s)'
      BY <1>1, <2>1, ChainBack, ReturnFrame DEF redisVars
    <2>3. effects[s] \subseteq effects'[s] /\ effects'[s] \subseteq 1..MaxEntries
      BY <1>1, <1>3, <2>1, EnrichmentType DEF Shape, InChain
    <2>4. GroupOK(s)' /\ ThroughOK(s)'
      BY <1>1, <1>3, <2>1, <2>3, GroupKept DEF redisVars
    <2> QED
      BY <2>2, <2>4 DEF StageOK
  <1>8. CASE EnrichTransient(s) \/ EmitError(s) \/ HandleTransient(s)
    <2>1. /\ Transient(s) /\ UNCHANGED redisVars /\ pc[s] \in InChain \ {"ack"}
          /\ UNCHANGED effects \/ effects' = [effects EXCEPT ![s] = @ \cup {Lsn(s)}]
      BY <1>8 DEF EnrichTransient, EmitError, HandleTransient, InChain
    <2>2. ChainOK(s)'
      BY <1>1, <2>1, ChainBack, ReturnFrame DEF redisVars
    <2>3. effects'[s] \subseteq 1..MaxEntries
      BY <1>1, <1>3, <2>1, EnrichmentType DEF Shape
    <2>4. GroupOK(s)' /\ ThroughOK(s)'
      BY <1>1, <1>2, <2>1, <2>3, GroupKept DEF redisVars
    <2> QED
      BY <2>2, <2>4 DEF StageOK
  <1>9. CASE EnrichOk(s)
    <2>1. /\ UNCHANGED redisVars /\ UNCHANGED <<cur, effects>> /\ pc[s] = "enrich"
          /\ pc'[s] = "handle" /\ enr'[s] = Enrichment(s)
      BY <1>1, <1>9 DEF EnrichOk, Proceed, AfterEnrich, Shape
    <2>2. stream'[s][cur'[s]] = stream[s][cur[s]] /\ Enrichment(s)' = Enrichment(s)
      BY <1>1, <2>1, EntryKept DEF InChain
    <2>3. ChainOK(s)'
      BY <1>1, <2>1, <2>2 DEF ChainOK, InChain, redisVars
    <2>4. GroupOK(s)' /\ ThroughOK(s)'
      BY <1>1, <1>3, <2>1, GroupKept DEF redisVars
    <2> QED
      BY <2>3, <2>4 DEF StageOK
  <1>10. CASE HandleOk(s)
    <2>1. /\ UNCHANGED redisVars /\ UNCHANGED <<cur, enr>> /\ pc[s] = "handle"
          /\ pc'[s] = IF s < N THEN "emit" ELSE "ack"
          /\ effects'[s] = effects[s] \cup {Lsn(s)}
      BY <1>1, <1>10 DEF HandleOk, Proceed, Shape
    <2>2. /\ stream'[s][cur'[s]] = stream[s][cur[s]] /\ Enrichment(s)' = Enrichment(s)
          /\ Lsn(s)' = Lsn(s) /\ Lsn(s) \in 1..MaxEntries
      BY <1>1, <2>1, EntryKept, EnrichmentType DEF InChain
    <2>3. ChainOK(s)'
      BY <1>1, <2>1, <2>2 DEF ChainOK, InChain, redisVars
    <2>4. GroupOK(s)' /\ ThroughOK(s)'
      BY <1>1, <1>2, <1>3, <2>1, <2>2, GroupKept DEF redisVars
    <2> QED
      BY <2>3, <2>4 DEF StageOK
  <1>11. CASE EmitOk(s)
    <2>1. /\ UNCHANGED <<base, last, pel, cur, enr, effects>> /\ pc[s] = "emit"
          /\ pc'[s] = "ack" /\ XAdd(s)
      BY <1>1, <1>11 DEF EmitOk, XAdd, Proceed, Shape
    <2>2. /\ stream'[s][cur'[s]] = stream[s][cur[s]] /\ Enrichment(s)' = Enrichment(s)
          /\ Lsn(s)' = Lsn(s)
      BY <1>1, <2>1, EntryKept DEF InChain
    <2>3. Lsn(s) \in Written(s + 1)'
      <3>1. PICK x \in Entries :
              /\ s + 1 \in 2..N
              /\ stream' = [stream EXCEPT ![s + 1] = Append(stream[s + 1], x)]
              /\ x.lsn = Lsn(s)
        BY <2>1, XAddFacts
      <3>2. s + 1 \in Stages
        BY <3>1, PipelineAssumption DEF Stages
      <3>3. /\ Len(stream'[s + 1]) = Len(stream[s + 1]) + 1
            /\ stream'[s + 1][Len(stream[s + 1]) + 1] = x
            /\ Len(stream[s + 1]) \in Nat
        BY <1>1, <3>1, <3>2, AppendGrows, StreamFacts
      <3>4. Len(stream[s + 1]) + 1 \in 1..Len(stream'[s + 1])
        BY <3>3
      <3> QED
        BY <3>1, <3>3, <3>4 DEF Written, Lsns
    <2>4. ChainOK(s)'
      BY <1>1, <2>1, <2>2, <2>3 DEF ChainOK, InChain
    <2>5. GroupOK(s)' /\ ThroughOK(s)'
      BY <1>1, <1>3, <2>1, GroupKept
    <2> QED
      BY <2>4, <2>5 DEF StageOK
  <1>12. CASE EmitReplyLost(s)
    <2>1. /\ UNCHANGED <<base, last, pel, effects>> /\ pc[s] = "emit"
          /\ Transient(s) \/ UNCHANGED <<mainVars, runVars>>
      BY <1>12 DEF EmitReplyLost, XAdd
    <2>2. CASE Transient(s)
      <3>1. ChainOK(s)'
        BY <1>1, <2>1, <2>2, ChainBack, ReturnFrame DEF InChain
      <3>2. GroupOK(s)' /\ ThroughOK(s)'
        BY <1>1, <1>3, <2>1, GroupKept
      <3> QED
        BY <3>1, <3>2 DEF StageOK
    <2>3. CASE UNCHANGED <<mainVars, runVars>>
      <3>1. Kept(s)
        BY <2>1, <2>3 DEF Kept, runVars
      <3> QED
        BY <1>1, <3>1, KeptStep
    <2> QED
      BY <2>1, <2>2, <2>3
  <1>13. CASE AckOk(s) \/ AckError(s)
    <2>1. /\ UNCHANGED <<stream, base, last, effects>> /\ pc[s] = "ack"
          /\ pel'[s] = pel[s] \ {cur[s]} \/ pel'[s] = pel[s]
          /\ \/ pc'[s] \in {"read", "returned"} /\ cur'[s] = NoEntry
             \/ UNCHANGED runVars
      BY <1>1, <1>13 DEF AckOk, AckError, Return, Shape
    <2>2. GroupOK(s)'
      BY <1>1, <1>2, <2>1 DEF GroupOK
    <2>3. ThroughOK(s)'
      <3>1. \A i \in Acked(s)' : i \in Acked(s) \/ i = cur[s]
        BY <2>1 DEF Acked
      <3>2. /\ cur[s] \in 1..last[s] /\ stream[s][cur[s]].lsn \in effects[s]
            /\ s < N => stream[s][cur[s]].lsn \in Written(s + 1)
        BY <1>1, <2>1 DEF ChainOK, InChain, Lsn
      <3> QED
        BY <1>1, <1>2, <3>1, <3>2, ThroughStep
    <2>4. ChainOK(s)'
      <3>1. CASE pc'[s] \in {"read", "returned"} /\ cur'[s] = NoEntry
        BY <3>1 DEF ChainOK, InChain
      <3>2. CASE UNCHANGED runVars
        BY <1>1, <2>1, <3>2 DEF ChainOK, InChain, runVars, Lsn, Enrichment, Event, Written, Lsns
      <3> QED
        BY <2>1, <3>1, <3>2
    <2> QED
      BY <2>2, <2>3, <2>4 DEF StageOK
  <1> QED
    BY <1>4, <1>5, <1>6, <1>7, <1>8, <1>9, <1>10, <1>11, <1>12, <1>13 DEF Consumer

(* Each lsn that a step excuses is one of WALker's. *)
LEMMA ConsumerExcuses ==
  ASSUME PInv, NEW s \in Stages, Consumer(s)
  PROVE  /\ excused' \subseteq Stages \X (1..MaxEntries)
         /\ excused \subseteq excused'
  <1>1. \/ excused' = excused
        \/ pc[s] \in InChain /\ excused' \in {excused \cup {<<s, Lsn(s)>>}, excused \cup Unacked({s})}
    BY DEF Consumer, EnsureGroup, Fetch, FetchNothing, RedisError, EnrichOk, EnrichTransient,
       EnrichPoison, HandleOk, HandleTransient, HandlePoison, EmitOk, EmitError, EmitReplyLost,
       AckOk, AckError, vars, InChain
  <1>2. excused \subseteq Stages \X (1..MaxEntries)
    BY DEF PInv
  <1>3. pc[s] \in InChain => Lsn(s) \in 1..MaxEntries
    BY EnrichmentType
  <1>4. Unacked({s}) \subseteq {<<s, Lsn(s)>>}
    BY DEF Unacked, Lsn
  <1> QED
    BY <1>1, <1>2, <1>3, <1>4

(* A consumer's step preserves the invariant. *)
LEMMA ConsumerStep ==
  ASSUME PInv, NEW s \in Stages, Consumer(s)
  PROVE  PInv'
  <1>1. /\ Shape' /\ Grows /\ Numbered' /\ Frame(s) /\ Booting /\ Shape
        /\ \A t \in 2..N : SourceOK(t)'
    BY ConsumerStreams, ConsumerFrame DEF PInv
  <1>2. ASSUME NEW t \in Stages PROVE StageOK(t)'
    <2>1. CASE t = s
      BY <2>1, ConsumerStage
    <2>2. CASE t # s
      BY <1>1, <2>2, KeptStep DEF Frame
    <2> QED
      BY <2>1, <2>2
  <1>3. Booting'
    <2>1. pc[s] \notin {"off", "returned"}
      BY DEF Consumer, EnsureGroup, Fetch, FetchNothing, RedisError, EnrichOk, EnrichTransient,
         EnrichPoison, HandleOk, HandleTransient, HandlePoison, EmitOk, EmitError, EmitReplyLost,
         AckOk, AckError
    <2>2. proc # "closed" /\ ~(s > booted)
      BY <1>1, <2>1 DEF Booting, AllReturned
    <2>3. \A t \in Stages \ {s} : pc'[t] = pc[t]
      BY <1>1 DEF Frame, Kept
    <2>4. \A t \in Stages : t > booted => pc'[t] = "off"
      BY <1>1, <2>2, <2>3 DEF Booting
    <2> QED
      BY <1>1, <2>2, <2>4 DEF Booting, Frame
  <1> QED
    BY <1>1, <1>2, <1>3, ConsumerExcuses DEF PInv

-----------------------------------------------------------------------------
(* The other steps.                                                         *)

(* Nothing is written, nothing started: the invariant holds. *)
LEMMA InitPInv == Init => PInv
  <1> SUFFICES ASSUME Init PROVE PInv
    OBVIOUS
  <1> USE PipelineAssumption
  <1>1. Shape
    <2>1. <<>> \in Seq(Entries)
      OBVIOUS
    <2> QED
      BY <2>1 DEF Init, Shape, NoGroup, NoEntry, PCs
  <1>2. 1 \in Stages /\ \A s \in Stages : stream[s] = <<>> /\ Len(stream[s]) = 0
    BY EmptySeq DEF Init, Stages
  <1>3. Booting
    BY DEF Init, Booting
  <1>4. Numbered
    BY <1>2 DEF Numbered
  <1>5. ASSUME NEW s \in Stages PROVE StageOK(s)
    <2>1. GroupOK(s)
      BY <1>2 DEF Init, GroupOK, NoGroup
    <2>2. ChainOK(s)
      BY DEF Init, ChainOK, InChain
    <2>3. ThroughOK(s)
      BY DEF Init, ThroughOK, Acked
    <2> QED
      BY <2>1, <2>2, <2>3 DEF StageOK
  <1>6. ASSUME NEW s \in 2..N PROVE SourceOK(s)
    BY <1>2 DEF SourceOK, Stages
  <1>7. excused \subseteq Stages \X (1..MaxEntries)
    BY DEF Init
  <1> QED
    BY <1>1, <1>3, <1>4, <1>5, <1>6, <1>7 DEF PInv

(* An entry of WALker is an entry whatever its lsn. *)
LEMMA WalkerEntry ==
  ASSUME NEW e \in Inputs, NEW n \in Nat
  PROVE  [e EXCEPT !.lsn = n] \in Entries /\ [e EXCEPT !.lsn = n].lsn = n
  <1> DEFINE x == [e EXCEPT !.lsn = n]
  <1>1. e \in Entries
    BY PipelineAssumption
  <1>2. /\ e.head \in BOOLEAN /\ e.at \in Nat \cup {NoTime} /\ e.data \in Texts
        /\ e.old \in Texts /\ e.enrichment \in Texts /\ e.source \in {NoSource, Instance}
    BY <1>1 DEF Entries
  <1>3. x = [head |-> e.head, lsn |-> n, at |-> e.at, data |-> e.data,
             old |-> e.old, enrichment |-> e.enrichment, source |-> e.source]
    BY <1>1 DEF Entries
  <1> HIDE DEF x
  <1>4. x \in Entries /\ x.lsn = n
    BY <1>2, <1>3 DEF Entries
  <1> QED
    BY <1>4 DEF x

(* WALker appends an entry with the next lsn. *)
LEMMA WalkerStep ==
  ASSUME PInv, Walker
  PROVE  PInv' /\ Shape' /\ Grows
  <1> USE PipelineAssumption
  <1>1. Shape /\ Booting /\ Numbered /\ 1 \in Stages /\ Len(stream[1]) \in Nat
    BY StreamFacts DEF PInv, Stages
  <1>2. PICK e \in Inputs :
          stream' = [stream EXCEPT ![1] = Append(@, [e EXCEPT !.lsn = Len(stream[1]) + 1])]
    BY DEF Walker
  <1> DEFINE x == [e EXCEPT !.lsn = Len(stream[1]) + 1]
  <1>4. x \in Entries /\ x.lsn = Len(stream[1]) + 1
    <2>1. Len(stream[1]) + 1 \in Nat
      BY <1>1
    <2> QED
      BY <1>2, <2>1, WalkerEntry
  <1>5. stream' = [stream EXCEPT ![1] = Append(stream[1], x)]
    BY <1>2
  <1> HIDE DEF x
  <1>6. /\ stream' \in [Stages -> Seq(Entries)]
        /\ Len(stream'[1]) = Len(stream[1]) + 1
        /\ stream'[1][Len(stream[1]) + 1] = x
        /\ \A u \in Stages \ {1} : stream'[u] = stream[u]
        /\ Grows
    BY <1>1, <1>4, <1>5, AppendGrows
  <1>7. UNCHANGED <<base, last, pel, mainVars, runVars, effects, excused, faults>>
    BY DEF Walker
  <1>8. Shape' /\ Booting'
    BY <1>1, <1>6, <1>7 DEF Shape, Booting, AllReturned, mainVars, runVars
  <1>9. Numbered'
    <2>1. Len(stream'[1]) <= MaxEntries
      BY <1>1, <1>6 DEF Walker
    <2>2. \A i \in 1..Len(stream'[1]) : stream'[1][i].lsn = i
      BY <1>1, <1>4, <1>6 DEF Numbered, Grows
    <2>3. ASSUME NEW s \in Stages, NEW i \in 1..Len(stream'[s])
          PROVE  stream'[s][i].lsn \in 1..Len(stream'[1])
      <3>1. CASE s = 1
        BY <2>2, <2>3, <3>1
      <3>2. CASE s # 1
        <4>1. stream[s][i].lsn \in 1..Len(stream[1])
          BY <1>1, <1>6, <2>3, <3>2 DEF Numbered
        <4> QED
          BY <1>1, <1>6, <3>2, <4>1
      <3> QED
        BY <3>1, <3>2
    <2> QED
      BY <2>1, <2>2, <2>3 DEF Numbered
  <1>10. ASSUME NEW s \in Stages PROVE StageOK(s)'
    <2>1. Kept(s)
      BY <1>7 DEF Kept, runVars
    <2> QED
      BY <1>6, <1>8, <2>1, KeptStep
  <1>11. ASSUME NEW s \in 2..N PROVE SourceOK(s)'
    <2>1. s \in Stages \ {1} /\ effects' = effects
      BY <1>7 DEF Stages
    <2> QED
      BY <1>6, <1>8, <2>1, SourceStep
  <1> QED
    BY <1>6, <1>7, <1>8, <1>9, <1>10, <1>11 DEF PInv

(* main's own steps: they touch no stream and no group, and leave a binding     *)
(* alone, start it or end it.                                               *)
LEMMA MainStep ==
  ASSUME PInv, UNCHANGED <<redisVars, effects>>, Booting', excused' \subseteq Stages \X (1..MaxEntries),
         pc' \in [Stages -> PCs], cur' \in [Stages -> Nat], enr' \in [Stages -> SUBSET Columns],
         \A s \in Stages :
            \/ pc'[s] = pc[s] /\ cur'[s] = cur[s] /\ enr'[s] = enr[s]
            \/ pc'[s] \in {"off", "ensure"} /\ cur'[s] = NoEntry
  PROVE  PInv'
  <1>1. Shape /\ Numbered
    BY DEF PInv
  <1>2. Shape' /\ Numbered'
    BY <1>1 DEF Shape, Numbered, redisVars
  <1>3. Grows
    BY <1>1, StreamFacts DEF Grows, redisVars
  <1>4. ASSUME NEW s \in Stages PROVE StageOK(s)'
    <2>1. CASE pc'[s] = pc[s] /\ cur'[s] = cur[s] /\ enr'[s] = enr[s]
      <3>1. Kept(s)
        BY <2>1 DEF Kept, redisVars
      <3> QED
        BY <1>2, <1>3, <3>1, KeptStep
    <2>2. CASE pc'[s] \in {"off", "ensure"} /\ cur'[s] = NoEntry
      <3>1. ChainOK(s)'
        BY <2>2 DEF ChainOK, InChain
      <3>2. effects[s] \subseteq 1..MaxEntries
        BY DEF PInv, StageOK, GroupOK
      <3>3. GroupOK(s)' /\ ThroughOK(s)'
        BY <1>2, <1>3, <3>2, GroupKept DEF redisVars
      <3> QED
        BY <3>1, <3>3 DEF StageOK
    <2> QED
      BY <2>1, <2>2
  <1>5. ASSUME NEW s \in 2..N PROVE SourceOK(s)'
    BY <1>2, <1>3, SourceStep DEF redisVars
  <1> QED
    BY <1>2, <1>4, <1>5 DEF PInv

(* The end of the process excuses the lsns between an emit and its XACK. *)
LEMMA GoneStep ==
  ASSUME PInv, Gone, UNCHANGED <<redisVars, effects>>, faults' \in 0..MaxFaults
  PROVE  PInv'
  <1>1. excused' \subseteq Stages \X (1..MaxEntries)
    <2>1. \A s \in Stages : pc[s] = "ack" => stream[s][cur[s]].lsn \in 1..MaxEntries
      BY EnrichmentType DEF InChain, Lsn
    <2> QED
      BY <2>1 DEF Gone, Unacked, PInv
  <1>2. Booting'
    BY PipelineAssumption DEF Gone, Booting
  <1>3. /\ pc' \in [Stages -> PCs] /\ cur' \in [Stages -> Nat]
        /\ enr' \in [Stages -> SUBSET Columns]
        /\ \A s \in Stages : pc'[s] = "off" /\ cur'[s] = NoEntry
    BY DEF Gone, PCs, NoEntry
  <1> QED
    BY <1>1, <1>2, <1>3, MainStep

(* Every step preserves the invariant. *)
LEMMA PInvStep ==
  ASSUME PInv, [Next]_vars
  PROVE  PInv'
  <1> USE PipelineAssumption
  <1>0. Shape /\ Booting /\ excused \subseteq Stages \X (1..MaxEntries)
    BY DEF PInv
  <1>1. CASE Walker
    BY <1>1, WalkerStep
  <1>2. CASE Boot
    <2>1. Booting'
      BY <1>0, <1>2 DEF Boot, Booting, AllReturned, runVars
    <2> QED
      BY <1>0, <1>2, <2>1, MainStep DEF Boot, runVars, Shape
  <1>3. CASE GoConsumer
    <2>1. booted + 1 \in Stages /\ pc[booted + 1] = "off"
      BY <1>0, <1>3 DEF GoConsumer, Booting, Stages
    <2>2. /\ pc' \in [Stages -> PCs] /\ pc'[booted + 1] = "ensure"
          /\ \A s \in Stages \ {booted + 1} : pc'[s] = pc[s]
          /\ UNCHANGED <<cur, enr, redisVars, effects, excused, faults, ctx>>
      BY <1>0, <1>3, <2>1 DEF GoConsumer, Shape, PCs
    <2>3. cur[booted + 1] = NoEntry
      BY <2>1 DEF PInv, StageOK, ChainOK, InChain
    <2>4. Booting'
      <3>1. \A s \in Stages : s > booted' => pc'[s] = "off"
        BY <1>0, <1>3, <2>1, <2>2 DEF GoConsumer, Booting, Stages
      <3> QED
        BY <1>0, <1>3, <2>1, <2>2, <3>1 DEF GoConsumer, Booting, Stages
    <2> QED
      BY <1>0, <2>2, <2>3, <2>4, MainStep DEF Shape
  <1>4. CASE Signal
    <2>1. Booting'
      BY <1>0, <1>4 DEF Signal, Fault, Booting, AllReturned, runVars
    <2> QED
      BY <1>0, <1>4, <2>1, MainStep DEF Signal, runVars, Shape
  <1>5. CASE CloseProducer
    <2>1. Booting'
      BY <1>0, <1>5 DEF CloseProducer, Booting, AllReturned, runVars
    <2> QED
      BY <1>0, <1>5, <2>1, MainStep DEF CloseProducer, runVars, Shape
  <1>6. CASE Exit
    BY <1>0, <1>6, GoneStep DEF Exit, Booting
  <1>7. CASE Crash
    <2>1. faults' \in 0..MaxFaults
      BY <1>0, <1>7 DEF Crash, Fault, Booting
    <2> QED
      BY <1>7, <2>1, GoneStep DEF Crash
  <1>8. ASSUME NEW s \in Stages, Consumer(s) PROVE PInv'
    BY <1>8, ConsumerStep
  <1>9. CASE UNCHANGED vars
    <2>1. Booting'
      BY <1>0, <1>9 DEF vars, Booting, AllReturned, mainVars, runVars
    <2> QED
      BY <1>0, <1>9, <2>1, MainStep DEF vars, runVars, Shape
  <1> QED
    BY <1>1, <1>2, <1>3, <1>4, <1>5, <1>6, <1>7, <1>8, <1>9 DEF Next

(* The invariant holds throughout. *)
LEMMA PipelineInvariant == Spec => []PInv
  <1>1. PInv /\ [Next]_vars => PInv'
    BY PInvStep
  <1> QED
    BY InitPInv, <1>1, PTL DEF Spec

-----------------------------------------------------------------------------
(* The theorems.                                                            *)

(* TypeOK: the streams, the groups and the consumers keep their types, and a   *)
(* pending entry has been delivered.                                        *)
THEOREM TypeCorrect == Spec => []TypeOK
  <1>1. PInv => TypeOK
    <2> SUFFICES ASSUME PInv PROVE TypeOK
      OBVIOUS
    <2>1. Shape /\ Booting /\ Numbered /\ 1 \in Stages /\ excused \subseteq Stages \X (1..MaxEntries)
      BY PipelineAssumption DEF PInv, Stages
    <2>2. Len(stream[1]) \in Nat /\ Len(stream[1]) <= MaxEntries
      BY <2>1, StreamFacts DEF Numbered
    <2>3. ASSUME NEW s \in Stages
          PROVE  /\ \A i \in DOMAIN stream[s] :
                      stream[s][i].lsn \in 1..MaxEntries /\ stream[s][i].data \in Texts
                 /\ base[s] \in -1..last[s]
                 /\ last[s] \in 0..Len(stream[s])
                 /\ pel[s] \subseteq 1..last[s]
                 /\ cur[s] \in pel[s] \cup {NoEntry} \/ pc[s] = "ack"
                 /\ enr[s] \subseteq Columns
                 /\ effects[s] \subseteq 1..MaxEntries
      <3>1. GroupOK(s) /\ ChainOK(s)
        BY DEF PInv, StageOK
      <3>2. ASSUME NEW i \in DOMAIN stream[s]
            PROVE  stream[s][i].lsn \in 1..MaxEntries /\ stream[s][i].data \in Texts
        <4>1. stream[s][i] \in Entries /\ stream[s][i].lsn \in 1..Len(stream[1])
          BY <2>1, StreamFacts DEF Numbered
        <4> QED
          BY <2>2, <4>1, PipelineAssumption DEF Entries
      <3>3. cur[s] \in pel[s] \cup {NoEntry} \/ pc[s] = "ack"
        BY <2>1, <3>1 DEF ChainOK, Shape, InChain
      <3> QED
        BY <2>1, <3>1, <3>2, <3>3 DEF GroupOK, Shape
    <2>4. /\ pc \in [Stages -> {"off", "ensure", "read", "enrich", "handle", "emit",
                                "ack", "returned"}]
          /\ proc \in {"down", "starting", "waiting", "closed"}
          /\ booted \in 0..N /\ ctx \in {"live", "done"} /\ faults \in 0..MaxFaults
      BY <2>1 DEF Shape, Booting, PCs
    <2> QED
      BY <2>1, <2>3, <2>4, Zenon DEF TypeOK
  <1> QED
    BY <1>1, PipelineInvariant, PTL

(* AckedIsThrough: process() acknowledges an entry only when its side effect    *)
(* has happened and its copy is on the next stream.                         *)
THEOREM AckedThrough == Spec => []AckedIsThrough
  <1>1. PInv => AckedIsThrough
    BY DEF PInv, StageOK, ThroughOK, AckedIsThrough
  <1> QED
    BY <1>1, PipelineInvariant, PTL

(* EmittedIsHandled: EmitAfter never writes an event whose side effect has not *)
(* happened.                                                                *)
THEOREM HandledBeforeEmit == Spec => []EmittedIsHandled
  <1>1. PInv => EmittedIsHandled
    <2> SUFFICES ASSUME PInv, NEW s \in 1..(N - 1) PROVE Written(s + 1) \subseteq effects[s]
      BY DEF EmittedIsHandled
    <2>1. s + 1 \in 2..N /\ (s + 1) - 1 = s
      BY PipelineAssumption
    <2>2. SourceOK(s + 1)
      BY <2>1 DEF PInv
    <2> QED
      BY <2>1, <2>2 DEF SourceOK, Written, Lsns
  <1> QED
    BY <1>1, PipelineInvariant, PTL

(* EmittedIsWhole: through any number of bindings, retries and restarts, Parse *)
(* reads what Emit wrote, with WALker's rows and the upstream's enrichment.  *)
THEOREM EmitsWhole == Spec => []EmittedIsWhole
  <1>1. PInv => EmittedIsWhole
    <2> SUFFICES ASSUME PInv, NEW s \in 2..N, NEW i \in DOMAIN stream[s]
                 PROVE  LET e == stream[s][i]
                            origin == Parse(stream[1][e.lsn])
                        IN /\ Parses(e)
                           /\ Parse(e).data = origin.data /\ Parse(e).old = origin.old
                           /\ origin.at - Parse(e).at \in {0, 1}
                           /\ \A k \in DOMAIN Rules[s - 1] :
                                 Rules[s - 1][k].into \in Parse(e).enrichment
      BY DEF EmittedIsWhole
    <2>1. s \in Stages /\ Shape /\ SourceOK(s)
      BY PipelineAssumption DEF PInv, Stages
    <2>2. i \in 1..Len(stream[s])
      BY <2>1, StreamFacts
    <2> DEFINE e == stream[s][i]
               o == stream[1][e.lsn]
    <2>3. /\ Parses(e) /\ o.at \in Nat /\ e.at = Seconds(o.at)
          /\ Parse(e).data = Parse(o).data /\ Parse(e).old = Parse(o).old
          /\ \A k \in DOMAIN Rules[s - 1] : Rules[s - 1][k].into \in Parse(e).enrichment
      BY <2>1, <2>2 DEF SourceOK
    <2>4. Parse(o).at = o.at /\ Parse(e).at = e.at
      BY DEF Parse
    <2>5. Parse(o).at - Parse(e).at \in {0, 1}
      BY <2>3, <2>4, SecondsFacts
    <2> QED
      BY <2>3, <2>5
  <1> QED
    BY <1>1, PipelineInvariant, PTL

-----------------------------------------------------------------------------
(* Copies.  An emit may repeat an lsn that is on the next stream already, so    *)
(* the invariant says which entries still to be handled have that: those      *)
(* whose lsn a binding up to theirs is excused for, and the one between its   *)
(* emit and its XACK.                                                       *)

(* The entries the consumer will hand to its chain, now or after a restart. *)
Waiting(s) == {m \in 1..Len(stream[s]) : m \in pel[s] \/ m > last[s]}

Emitted(s, m) == pc[s] = "ack" /\ cur[s] = m

WaitingFresh(s) ==
    \A m \in Waiting(s) :
        ~Emitted(s, m) /\ stream[s][m].lsn \in Written(s + 1) =>
            Excused(s + 1, stream[s][m].lsn)

Copies ==
    /\ CopiesExcused
    /\ \A s \in 2..N : Written(s) \subseteq Written(s - 1)
    /\ \A s \in 1..(N - 1) : WaitingFresh(s)

(* Appending x to a stream adds its lsn to the written ones. *)
LEMMA AppendWrites ==
  ASSUME Shape, NEW t \in Stages, NEW x \in Entries,
         stream' = [stream EXCEPT ![t] = Append(stream[t], x)]
  PROVE  /\ \A l : l \in Written(t)' <=> l \in Written(t) \/ l = x.lsn
         /\ \A u \in Stages \ {t} : Written(u)' = Written(u)
  <1>1. /\ Len(stream'[t]) = Len(stream[t]) + 1
        /\ stream'[t][Len(stream[t]) + 1] = x
        /\ \A u \in Stages \ {t} : stream'[u] = stream[u]
        /\ Len(stream[t]) \in Nat
        /\ \A i \in 1..Len(stream[t]) : stream'[t][i] = stream[t][i]
    BY AppendGrows, StreamFacts DEF Grows
  <1>2. \A i : i \in 1..Len(stream'[t]) <=> i \in 1..Len(stream[t]) \/ i = Len(stream[t]) + 1
    BY <1>1
  <1>3. \A l : l \in Written(t)' <=> l \in Written(t) \/ l = x.lsn
    BY <1>1, <1>2 DEF Written, Lsns
  <1>4. \A u \in Stages \ {t} : Written(u)' = Written(u)
    BY <1>1 DEF Written, Lsns
  <1> QED
    BY <1>3, <1>4

(* No two entries of WALker share an lsn; elsewhere CopiesExcused tells. *)
LEMMA SameLsn ==
  ASSUME PInv, Copies, NEW s \in Stages,
         NEW i \in 1..Len(stream[s]), NEW j \in 1..Len(stream[s]), i # j,
         stream[s][i].lsn = stream[s][j].lsn
  PROVE  Excused(s, stream[s][i].lsn)
  <1>1. Shape /\ Numbered
    BY DEF PInv
  <1>2. s # 1
    BY <1>1 DEF Numbered
  <1>3. s \in 2..N /\ i \in DOMAIN stream[s] /\ j \in DOMAIN stream[s]
    BY <1>1, <1>2, StreamFacts, PipelineAssumption DEF Stages
  <1> QED
    BY <1>3 DEF Copies, CopiesExcused

(* What is excused on a stream is excused on the next, and in the next state. *)
LEMMA ExcusedOn ==
  ASSUME NEW s \in Stages, NEW l, excused \subseteq excused'
  PROVE  /\ <<s, l>> \in excused => Excused(s + 1, l)
         /\ <<s, l>> \in excused' => Excused(s + 1, l)'
         /\ Excused(s, l) => Excused(s + 1, l) /\ Excused(s, l)' /\ Excused(s + 1, l)'
         /\ Excused(s + 1, l) => Excused(s + 1, l)'
  <1>1. s \in Nat /\ s \in 1..((s + 1) - 1)
    BY PipelineAssumption DEF Stages
  <1>2. \A t \in 1..(s - 1) : t \in 1..((s + 1) - 1)
    BY <1>1
  <1> QED
    BY <1>1, <1>2 DEF Excused

(* A step that writes nothing, adds nothing to do and excuses what was emitted *)
(* and will be done again.                                                  *)
LEMMA QuietCopies ==
  ASSUME Copies, UNCHANGED stream, excused \subseteq excused',
         \A s \in 1..(N - 1) :
            \A m \in Waiting(s)' :
                /\ m \in Waiting(s)
                /\ Emitted(s, m) => Emitted(s, m)' \/ <<s, stream[s][m].lsn>> \in excused'
  PROVE  Copies'
  <1>1. CopiesExcused'
    <2>1. \A s \in 2..N : \A l : Excused(s, l) => Excused(s, l)'
      BY DEF Excused
    <2> QED
      BY <2>1 DEF Copies, CopiesExcused
  <1>2. \A s : Written(s)' = Written(s)
    BY DEF Written, Lsns
  <1>3. \A s \in 2..N : Written(s)' \subseteq Written(s - 1)'
    BY <1>2 DEF Copies
  <1>4. ASSUME NEW s \in 1..(N - 1) PROVE WaitingFresh(s)'
    <2>1. s \in Stages
      BY PipelineAssumption DEF Stages
    <2> SUFFICES ASSUME NEW m \in Waiting(s)', ~Emitted(s, m)',
                        stream[s][m].lsn \in Written(s + 1)
                 PROVE  Excused(s + 1, stream[s][m].lsn)'
      BY <1>2 DEF WaitingFresh
    <2>2. m \in Waiting(s) /\ WaitingFresh(s)
      BY DEF Copies
    <2> QED
      BY <2>1, <2>2, ExcusedOn DEF WaitingFresh
  <1> QED
    BY <1>1, <1>3, <1>4 DEF Copies

(* An emit: the copy is the first with its lsn, or excused; and the consumer is *)
(* about to acknowledge the entry, or the lost reply excuses the next copy.  *)
LEMMA EmitCopies ==
  ASSUME PInv, Copies, NEW s \in Stages, pc[s] = "emit", XAdd(s), excused \subseteq excused',
         Frame(s),
         (pc'[s] = "ack" /\ cur'[s] = cur[s]) \/ <<s, Lsn(s)>> \in excused'
  PROVE  Copies'
  <1>1. PICK x \in Entries :
            /\ s + 1 \in 2..N
            /\ stream' = [stream EXCEPT ![s + 1] = Append(stream[s + 1], x)]
            /\ x.lsn = Lsn(s)
    BY XAddFacts
  <1> DEFINE L == Lsn(s)
             n == Len(stream[s + 1])
  <1>2. /\ Shape /\ Numbered /\ s + 1 \in Stages /\ s \in 1..(N - 1)
        /\ (s + 1) - 1 = s /\ s # s + 1
    BY <1>1, PipelineAssumption DEF PInv, Stages
  <1>3. /\ cur[s] \in 1..Len(stream[s]) /\ stream[s][cur[s]].lsn = L
        /\ cur[s] \in Waiting(s) /\ L \in Written(s)
    <2>1. cur[s] \in 1..Len(stream[s])
      BY EnrichmentType DEF InChain
    <2>2. cur[s] \in pel[s]
      BY DEF PInv, StageOK, ChainOK, InChain
    <2> QED
      BY <2>1, <2>2 DEF Waiting, Written, Lsns, Lsn
  <1>4. L \in Written(s + 1) => Excused(s + 1, L)
    <2>1. WaitingFresh(s) /\ ~Emitted(s, cur[s])
      BY <1>2 DEF Copies, Emitted
    <2> QED
      BY <1>3, <2>1 DEF WaitingFresh
  <1>5. /\ \A l : l \in Written(s + 1)' <=> l \in Written(s + 1) \/ l = L
        /\ \A u \in Stages \ {s + 1} : Written(u)' = Written(u)
    BY <1>1, <1>2, AppendWrites
  <1>6. /\ Len(stream'[s + 1]) = n + 1
        /\ stream'[s + 1][n + 1] = x
        /\ \A u \in Stages \ {s + 1} : stream'[u] = stream[u]
        /\ n \in Nat
        /\ \A i \in 1..n : stream'[s + 1][i] = stream[s + 1][i]
    BY <1>1, <1>2, AppendGrows, StreamFacts DEF Grows
  <1>7. stream' \in [Stages -> Seq(Entries)]
    BY <1>1, <1>2, AppendGrows
  <1>8. x.lsn = L
    BY <1>1
  <1>9. UNCHANGED <<base, last, pel>>
    BY DEF XAdd
  <1> HIDE DEF L, n
  <1>13. \A u \in Stages : \A l :
            /\ Excused(u, l) => Excused(u, l)' /\ Excused(u + 1, l)'
            /\ Excused(u + 1, l) => Excused(u + 1, l)'
    BY ExcusedOn
  <1>10. CopiesExcused'
    <2> SUFFICES ASSUME NEW t \in 2..N, NEW i \in DOMAIN stream'[t], NEW j \in DOMAIN stream'[t],
                        i # j, stream'[t][i].lsn = stream'[t][j].lsn
                 PROVE  Excused(t, stream[t][i].lsn)'
      BY DEF CopiesExcused
    <2>1. t \in Stages
      BY PipelineAssumption DEF Stages
    <2>2. CASE t # s + 1
      BY <1>6, <1>13, <2>1, <2>2 DEF Copies, CopiesExcused
    <2>3. CASE t = s + 1
      <3>1. /\ DOMAIN stream'[t] = 1..(n + 1) /\ DOMAIN stream[t] = 1..n
        <4>1. stream'[t] \in Seq(Entries)
          BY <1>7, <2>1
        <4> QED
          BY <1>2, <1>6, <2>1, <2>3, <4>1, StreamFacts, LenProperties DEF n
      <3>2. CASE i \in 1..n /\ j \in 1..n
        BY <1>2, <1>6, <1>13, <2>3, <3>1, <3>2, SameLsn DEF n
      <3>3. CASE i = n + 1 /\ j \in 1..n
        <4>1. L \in Written(s + 1)
          BY <1>6, <1>8, <2>3, <3>3 DEF Written, Lsns, n
        <4> QED
          BY <1>2, <1>4, <1>6, <1>8, <1>13, <2>3, <3>3, <4>1
      <3>4. CASE j = n + 1 /\ i \in 1..n
        <4>1. L \in Written(s + 1)
          BY <1>6, <1>8, <2>3, <3>4 DEF Written, Lsns, n
        <4> QED
          BY <1>2, <1>4, <1>6, <1>8, <1>13, <2>3, <3>4, <4>1
      <3> QED
        BY <1>6, <3>1, <3>2, <3>3, <3>4
    <2> QED
      BY <2>2, <2>3
  <1>11. ASSUME NEW t \in 2..N PROVE Written(t)' \subseteq Written(t - 1)'
    <2>1. t \in Stages /\ t - 1 \in Stages /\ Written(t) \subseteq Written(t - 1)
      BY PipelineAssumption DEF Stages, Copies
    <2>2. CASE t = s + 1
      BY <1>2, <1>3, <1>5, <2>1, <2>2
    <2>3. CASE t # s + 1
      BY <1>5, <2>1, <2>3
    <2> QED
      BY <2>2, <2>3
  <1>12. ASSUME NEW t \in 1..(N - 1) PROVE WaitingFresh(t)'
    <2>1. t \in Stages /\ t + 1 \in Stages /\ t + 1 \in 2..N /\ WaitingFresh(t)
          /\ (t + 1) - 1 = t
      BY PipelineAssumption DEF Stages, Copies
    <2> SUFFICES ASSUME NEW m \in Waiting(t)', ~Emitted(t, m)',
                        stream'[t][m].lsn \in Written(t + 1)'
                 PROVE  Excused(t + 1, stream[t][m].lsn)'
      BY DEF WaitingFresh
    <2>2. CASE t = s
      <3>1. /\ m \in Waiting(s) /\ m \in 1..Len(stream[s]) /\ stream'[t][m] = stream[s][m]
        BY <1>2, <1>6, <1>9, <2>2 DEF Waiting
      <3>2. CASE stream[s][m].lsn = L
        <4>1. CASE m = cur[s]
          <5>1. <<s, L>> \in excused'
            BY <2>2, <4>1 DEF L, Emitted
          <5> QED
            BY <2>2, <3>1, <3>2, <5>1, ExcusedOn
        <4>2. CASE m # cur[s]
          BY <1>3, <1>13, <2>2, <3>1, <3>2, <4>2, SameLsn
        <4> QED
          BY <4>1, <4>2
      <3>3. CASE stream[s][m].lsn # L
        <4>1. ~Emitted(s, m)
          BY DEF Emitted
        <4> QED
          BY <1>5, <1>13, <2>1, <2>2, <3>1, <3>3, <4>1 DEF WaitingFresh
      <3> QED
        BY <3>2, <3>3
    <2>3. CASE t # s
      <3>1. Written(t + 1)' = Written(t + 1)
        BY <1>2, <1>5, <2>1, <2>3
      <3>2. \A k : Emitted(t, k)' <=> Emitted(t, k)
        BY <2>1, <2>3 DEF Emitted, Frame, Kept
      <3>3. CASE m \in 1..Len(stream[t])
        <4>1. m \in Waiting(t)
          BY <1>9, <3>3 DEF Waiting
        <4>2. stream'[t][m] = stream[t][m]
          BY <1>6, <2>1, <3>3 DEF n
        <4> QED
          BY <1>13, <2>1, <3>1, <3>2, <4>1, <4>2 DEF WaitingFresh
      <3>4. CASE m \notin 1..Len(stream[t])
        <4>1. t = s + 1 /\ m = n + 1
          BY <1>6, <2>1, <3>4 DEF Waiting, n
        <4>2. L \in Written(t + 1)
          BY <1>6, <1>8, <3>1, <4>1
        <4>3. L \in Written(s + 1)
          BY <2>1, <4>1, <4>2 DEF Copies
        <4> QED
          BY <1>4, <1>6, <1>8, <1>13, <2>1, <4>1, <4>3
      <3> QED
        BY <3>3, <3>4
    <2> QED
      BY <2>2, <2>3
  <1> QED
    BY <1>10, <1>11, <1>12 DEF Copies

(* Each step keeps Copies. *)
LEMMA CopiesStep ==
  ASSUME PInv, Copies, [Next]_vars
  PROVE  Copies'
  <1> USE PipelineAssumption
  <1>0. Shape /\ Numbered
    BY DEF PInv
  <1>1. CASE Walker
    <2>1. 1 \in Stages /\ Len(stream[1]) \in Nat
      BY <1>0, StreamFacts DEF Stages
    <2>2. PICK e \in Inputs :
            stream' = [stream EXCEPT ![1] = Append(@, [e EXCEPT !.lsn = Len(stream[1]) + 1])]
      BY <1>1 DEF Walker
    <2> DEFINE x == [e EXCEPT !.lsn = Len(stream[1]) + 1]
    <2>3. stream' = [stream EXCEPT ![1] = Append(stream[1], x)]
      BY <2>2
    <2>4. x \in Entries /\ x.lsn = Len(stream[1]) + 1
      <3>1. Len(stream[1]) + 1 \in Nat
        BY <2>1
      <3> QED
        BY <2>2, <3>1, WalkerEntry
    <2> HIDE DEF x
    <2>6. /\ Len(stream'[1]) = Len(stream[1]) + 1
          /\ stream'[1][Len(stream[1]) + 1] = x
          /\ \A u \in Stages \ {1} : stream'[u] = stream[u]
          /\ \A i \in 1..Len(stream[1]) : stream'[1][i] = stream[1][i]
      BY <1>0, <2>1, <2>3, <2>4, AppendGrows DEF Grows
    <2>7. /\ \A l : l \in Written(1)' <=> l \in Written(1) \/ l = x.lsn
          /\ \A u \in Stages \ {1} : Written(u)' = Written(u)
      BY <1>0, <2>1, <2>3, <2>4, AppendWrites
    <2>8. UNCHANGED <<last, pel, pc, cur, excused>>
      BY <1>1 DEF Walker, runVars
    <2>9. CopiesExcused'
      <3>1. \A s \in 2..N : stream'[s] = stream[s]
        BY <2>6 DEF Stages
      <3> QED
        BY <2>8, <3>1 DEF Copies, CopiesExcused, Excused
    <2>10. ASSUME NEW s \in 2..N PROVE Written(s)' \subseteq Written(s - 1)'
      <3>1. s \in Stages \ {1} /\ s - 1 \in Stages /\ Written(s) \subseteq Written(s - 1)
        BY DEF Stages, Copies
      <3> QED
        BY <2>7, <3>1
    <2>11. ASSUME NEW s \in 1..(N - 1) PROVE WaitingFresh(s)'
      <3>1. s \in Stages /\ s + 1 \in Stages \ {1} /\ WaitingFresh(s)
        BY DEF Stages, Copies
      <3>2. Written(s + 1)' = Written(s + 1)
        BY <2>7, <3>1
      <3> SUFFICES ASSUME NEW m \in Waiting(s)', ~Emitted(s, m)',
                          stream'[s][m].lsn \in Written(s + 1)
                   PROVE  Excused(s + 1, stream'[s][m].lsn)
        BY <2>8, <3>2 DEF WaitingFresh, Excused
      <3>3. CASE m \in 1..Len(stream[s])
        <4>1. m \in Waiting(s) /\ ~Emitted(s, m) /\ stream'[s][m] = stream[s][m]
          BY <2>6, <2>8, <3>1, <3>3 DEF Waiting, Emitted
        <4> QED
          BY <3>1, <4>1 DEF WaitingFresh
      <3>4. CASE m \notin 1..Len(stream[s])
        <4>1. s = 1 /\ m = Len(stream[1]) + 1
          BY <2>1, <2>6, <3>1, <3>4 DEF Waiting
        <4>2. Len(stream[1]) + 1 \in Written(s + 1)
          BY <2>4, <2>6, <4>1
        <4>3. \A l \in Written(s + 1) : l \in 1..Len(stream[1])
          BY <1>0, <3>1 DEF Written, Lsns, Numbered
        <4> QED
          BY <2>1, <4>2, <4>3
      <3> QED
        BY <3>3, <3>4
    <2> QED
      BY <2>9, <2>10, <2>11 DEF Copies
  <1>2. CASE Boot \/ GoConsumer \/ Signal \/ CloseProducer \/ UNCHANGED vars
    <2>1. /\ UNCHANGED <<stream, last, pel, cur, excused>>
      BY <1>2 DEF Boot, GoConsumer, Signal, CloseProducer, vars, redisVars, runVars
    <2>2. \A s \in Stages : pc[s] = "ack" => pc'[s] = "ack"
      <3>1. CASE GoConsumer
        <4>1. pc[booted + 1] = "off" /\ booted + 1 \in Stages
          BY <3>1 DEF GoConsumer, PInv, Booting, Stages
        <4> QED
          BY <1>0, <3>1, <4>1 DEF GoConsumer, Shape
      <3> QED
        BY <1>2, <3>1 DEF Boot, Signal, CloseProducer, vars, runVars
    <2> QED
      BY <2>1, <2>2, QuietCopies DEF Waiting, Emitted, Stages
  <1>3. CASE Exit \/ Crash
    <2>1. UNCHANGED <<stream, last, pel>> /\ excused' = excused \cup Unacked(Stages)
      BY <1>3 DEF Exit, Crash, Gone, redisVars
    <2>2. \A s \in 1..(N - 1) : \A m :
              Emitted(s, m) => <<s, stream[s][m].lsn>> \in Unacked(Stages)
      BY DEF Emitted, Unacked, Stages
    <2> QED
      BY <2>1, <2>2, QuietCopies DEF Waiting
  <1>4. ASSUME NEW s \in Stages, Consumer(s) PROVE Copies'
    <2>0. /\ Frame(s) /\ excused \subseteq excused' /\ Booting
          /\ GroupOK(s) /\ ChainOK(s) /\ Len(stream[s]) \in Nat /\ last[s] \in Nat
      BY <1>0, <1>4, ConsumerFrame, ConsumerExcuses, StreamFacts DEF PInv, StageOK, Shape
    <2>1. \A t \in Stages \ {s} : Kept(t)
      BY <2>0 DEF Frame
    <2>2. ASSUME UNCHANGED stream,
                 s < N => \A m \in Waiting(s)' :
                    /\ m \in Waiting(s)
                    /\ Emitted(s, m) => Emitted(s, m)' \/ <<s, stream[s][m].lsn>> \in excused'
          PROVE  Copies'
      <3>1. ASSUME NEW t \in Stages \ {s}, NEW m \in Waiting(t)'
            PROVE  m \in Waiting(t) /\ (Emitted(t, m) => Emitted(t, m)')
        BY <2>1, <2>2, <3>1 DEF Kept, Waiting, Emitted
      <3>2. ASSUME NEW t \in 1..(N - 1), NEW m \in Waiting(t)'
            PROVE  /\ m \in Waiting(t)
                   /\ Emitted(t, m) => Emitted(t, m)' \/ <<t, stream[t][m].lsn>> \in excused'
        <4>1. CASE t = s
          BY <2>2, <4>1
        <4>2. CASE t # s
          BY <3>1, <4>2 DEF Stages
        <4> QED
          BY <4>1, <4>2
      <3> QED
        BY <2>0, <2>2, <3>2, QuietCopies
    <2>3. CASE EnsureGroup(s)
      <3>1. /\ UNCHANGED <<stream, pel>> /\ pc[s] = "ensure"
            /\ last'[s] = Len(stream[s]) \/ last'[s] = last[s]
        BY <1>0, <2>3 DEF EnsureGroup, Shape
      <3>2. last[s] <= Len(stream[s])
        BY <2>0 DEF GroupOK
      <3>3. \A m \in Waiting(s)' : m \in Waiting(s) /\ ~Emitted(s, m)
        BY <2>0, <3>1, <3>2 DEF Waiting, Emitted
      <3> QED
        BY <2>2, <3>1, <3>3
    <2>4. CASE Fetch(s)
      <3> DEFINE k == IF pel[s] # {} THEN Min(pel[s]) ELSE last[s] + 1
      <3>1. k \in pel[s] \/ k = last[s] + 1
        BY NextPending
      <3>2. Deliver(s, k) /\ UNCHANGED stream /\ pc[s] = "read"
        BY <2>4 DEF Fetch
      <3> HIDE DEF k
      <3>3. /\ last'[s] = IF k > last[s] THEN k ELSE last[s]
            /\ pel'[s] = pel[s] \cup {k}
        BY <1>0, <3>2 DEF Deliver, Shape
      <3>4. \A m \in Waiting(s)' : m \in Waiting(s) /\ ~Emitted(s, m)
        <4>1. pel[s] \subseteq 1..last[s]
          BY <2>0 DEF GroupOK
        <4> QED
          BY <2>0, <3>1, <3>2, <3>3, <4>1 DEF Waiting, Emitted
      <3> QED
        BY <2>2, <3>2, <3>4
    <2>5. CASE FetchNothing(s)
      BY <2>2, <2>5 DEF FetchNothing, vars, redisVars, runVars, Waiting, Emitted
    <2>6. CASE \/ RedisError(s) \/ EnrichOk(s) \/ EnrichTransient(s) \/ EnrichPoison(s)
               \/ HandleOk(s) \/ HandleTransient(s) \/ HandlePoison(s) \/ EmitError(s)
      <3>1. UNCHANGED <<stream, last, pel>> /\ pc[s] # "ack"
        BY <2>6 DEF RedisError, EnrichOk, EnrichTransient, EnrichPoison, HandleOk,
           HandleTransient, HandlePoison, EmitError, redisVars
      <3> QED
        BY <2>2, <3>1 DEF Waiting, Emitted
    <2>7. CASE EmitOk(s)
      <3>1. pc[s] = "emit" /\ XAdd(s) /\ pc'[s] = "ack" /\ cur'[s] = cur[s]
        BY <1>0, <2>7 DEF EmitOk, Proceed, Shape
      <3> QED
        BY <2>0, <3>1, EmitCopies
    <2>8. CASE EmitReplyLost(s)
      <3>1. pc[s] = "emit" /\ XAdd(s) /\ <<s, Lsn(s)>> \in excused'
        BY <2>8 DEF EmitReplyLost
      <3> QED
        BY <2>0, <3>1, EmitCopies
    <2>9. CASE AckOk(s)
      <3>1. /\ pc[s] = "ack" /\ UNCHANGED <<stream, last>> /\ pel'[s] = pel[s] \ {cur[s]}
        BY <1>0, <2>9 DEF AckOk, Shape
      <3>2. cur[s] \in 1..last[s]
        BY <2>0, <3>1 DEF ChainOK, InChain
      <3>3. \A m \in Waiting(s)' : m \in Waiting(s) /\ m # cur[s]
        BY <2>0, <3>1, <3>2 DEF Waiting
      <3> QED
        BY <2>2, <3>1, <3>3 DEF Emitted
    <2>10. CASE AckError(s)
      <3>1. /\ pc[s] = "ack" /\ UNCHANGED <<stream, last>>
            /\ pel'[s] = pel[s] \ {cur[s]} \/ pel'[s] = pel[s]
            /\ s < N => <<s, Lsn(s)>> \in excused' \/ UNCHANGED runVars
        BY <1>0, <2>10 DEF AckError, Shape, Unacked, Lsn
      <3>2. \A m \in Waiting(s)' : m \in Waiting(s)
        BY <3>1 DEF Waiting
      <3>3. s < N => \A m : Emitted(s, m) => Emitted(s, m)' \/ <<s, stream[s][m].lsn>> \in excused'
        BY <3>1 DEF Emitted, runVars, Lsn
      <3> QED
        BY <2>2, <3>1, <3>2, <3>3
    <2> QED
      BY <1>4, <2>3, <2>4, <2>5, <2>6, <2>7, <2>8, <2>9, <2>10 DEF Consumer
  <1> QED
    BY <1>1, <1>2, <1>3, <1>4 DEF Next

(* CopiesExcused: however the process is cancelled, crashes and restarts, an   *)
(* event is on a downstream stream twice only if a binding upstream of that   *)
(* stream lost the reply to its XADD or ended between its emit and its XACK.  *)
THEOREM NoSpuriousCopies == Spec => []CopiesExcused
  <1>1. Init => Copies
    <2> SUFFICES ASSUME Init PROVE Copies
      OBVIOUS
    <2>1. \A s \in Stages : stream[s] = <<>> /\ Len(stream[s]) = 0
      BY EmptySeq DEF Init
    <2>2. CopiesExcused
      BY <2>1, PipelineAssumption DEF CopiesExcused, Stages
    <2>3. \A s \in 2..N : Written(s) \subseteq Written(s - 1)
      BY <2>1, PipelineAssumption DEF Written, Lsns, Stages
    <2>4. \A s \in 1..(N - 1) : WaitingFresh(s)
      BY <2>1, PipelineAssumption DEF WaitingFresh, Waiting, Stages
    <2> QED
      BY <2>2, <2>3, <2>4 DEF Copies
  <1>2. PInv /\ Copies /\ [Next]_vars => Copies'
    BY CopiesStep
  <1>3. Copies => CopiesExcused
    BY DEF Copies
  <1> QED
    BY <1>1, <1>2, <1>3, PipelineInvariant, PTL DEF Spec
=============================================================================
