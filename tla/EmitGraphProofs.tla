-------------------------- MODULE EmitGraphProofs --------------------------
(***************************************************************************)
(* Proofs about EmitGraph, for any names, scopes and lists of bindings: what *)
(* detectEmitCycles rejects is a cycle, and what it accepts has none when    *)
(* every key has one emit.                                                  *)
(***************************************************************************)
EXTENDS EmitGraph, SequenceTheorems, TLAPS

-----------------------------------------------------------------------------
(* The inductive invariant.                                                 *)

Walking == {"roots", "dfs"}

Shape ==
    /\ streams \in Seq(Bindings)
    /\ stack \in Seq(Keys)
    /\ pc \in {"bindings", "edges", "roots", "dfs", "done"}
    /\ i \in 1..(Len(streams) + 1)
    /\ emitEdge \in [Keys -> Names \cup {Unset}]
    /\ state \in [Keys -> {"unvisited", "visiting", "visited"}]
    /\ pc \in {"bindings", "edges", "roots"} => stack = <<>>
    /\ pc = "dfs" => /\ i <= Len(streams)
                     /\ stack # <<>>
    /\ pc # "done" => result = "none"

(* The bindings that passed the first loop have a stream name. *)
Named ==
    \A j \in 1..Len(streams) :
        pc \in {"edges"} \cup Walking \/ result = "ok" \/ (pc = "bindings" /\ j < i)
            => streams[j].stream \in Names

(* emitEdge holds edges of the bindings, and one for each key that emits. *)
EdgesOK ==
    /\ \A k \in Keys : emitEdge[k] # Unset => <<k, emitEdge[k]>> \in Edges
    /\ \A j \in 1..Len(streams) :
        /\ pc \in Walking \/ result = "ok" \/ (pc = "edges" /\ j < i)
        /\ streams[j].emit # Unset
        => emitEdge[ConsumeKey(streams[j])] # Unset

(* The path dfs is on: all its keys are "visiting", and only they. *)
PathOK ==
    /\ pc # "done" =>
        \A k \in Keys : state[k] = "visiting" <=> \E p \in 1..Len(stack) : stack[p] = k
    /\ \A p, q \in 1..Len(stack) : stack[p] = stack[q] => p = q
    /\ \A p \in 1..(Len(stack) - 1) : emitEdge[stack[p]] = stack[p + 1]
    /\ pc = "dfs" => stack[1] = ConsumeKey(streams[i])

(* Visited keys lead to visited keys, and no set of them is closed. *)
VisitedOK ==
    /\ pc \in {"bindings", "edges"} => \A k \in Keys : state[k] = "unvisited"
    /\ \A k \in Keys :
        state[k] = "visited" /\ emitEdge[k] # Unset => state[emitEdge[k]] = "visited"
    /\ \A S \in SUBSET Keys :
        S # {} /\ (\A k \in S : state[k] = "visited") => \E k \in S : emitEdge[k] \notin S

(* The roots the loop has passed are visited. *)
RootsOK ==
    \A j \in 1..Len(streams) :
        (pc \in Walking /\ j < i) \/ result = "ok"
            => state[ConsumeKey(streams[j])] = "visited"

EInv == Shape /\ Named /\ EdgesOK /\ PathOK /\ VisitedOK /\ RootsOK /\ NoFalseAlarm

-----------------------------------------------------------------------------
(* Facts about keys and sequences.                                          *)

(* The keys of a binding with a stream name. *)
LEMMA KeyFacts ==
  /\ Names \subseteq Keys
  /\ Unset \notin Keys
  /\ \A b \in Bindings : /\ b.emit \in Names \cup {Unset}
                         /\ b.stream \in Names \cup {Unset}
                         /\ EmitKey(b) = b.emit
                         /\ b.stream \in Names => ConsumeKey(b) \in Keys
  BY NamesAssumption DEF Keys, Bindings, EmitKey, ConsumeKey, ResolveKey

(* An edge is a binding that emits. *)
LEMMA EdgeFacts ==
  ASSUME Shape, NEW n, NEW m
  PROVE  <<n, m>> \in Edges <=>
            \E j \in 1..Len(streams) : /\ streams[j].emit # Unset
                                       /\ ConsumeKey(streams[j]) = n
                                       /\ streams[j].emit = m
  <1>1. DOMAIN streams = 1..Len(streams) /\ \A j \in 1..Len(streams) : streams[j] \in Bindings
    BY DEF Shape
  <1>2. \A j \in 1..Len(streams) : EmitKey(streams[j]) = streams[j].emit
    BY <1>1, KeyFacts
  <1>3. ToSet(streams) = {streams[j] : j \in 1..Len(streams)}
    BY <1>1, Zenon DEF ToSet
  <1>4. ASSUME NEW b \in ToSet(streams), b.emit # Unset, <<n, m>> = <<ConsumeKey(b), EmitKey(b)>>
        PROVE  \E j \in 1..Len(streams) : /\ streams[j].emit # Unset
                                          /\ ConsumeKey(streams[j]) = n
                                          /\ streams[j].emit = m
    <2>1. PICK j \in 1..Len(streams) : b = streams[j]
      BY <1>3
    <2>2. ConsumeKey(streams[j]) = n /\ EmitKey(streams[j]) = m
      BY <1>4, <2>1
    <2> QED
      BY <1>2, <1>4, <2>1, <2>2
  <1>5. ASSUME NEW j \in 1..Len(streams), streams[j].emit # Unset,
               ConsumeKey(streams[j]) = n, streams[j].emit = m
        PROVE  <<n, m>> \in Edges
    <2>1. streams[j] \in {b \in ToSet(streams) : b.emit # Unset}
      BY <1>3, <1>5
    <2>2. <<n, m>> = <<ConsumeKey(streams[j]), EmitKey(streams[j])>>
      BY <1>2, <1>5
    <2> QED
      BY <2>1, <2>2, Zenon DEF Edges
  <1> QED
    BY <1>4, <1>5, Zenon DEF Edges

(* Front drops the last element. *)
LEMMA FrontFacts ==
  ASSUME NEW S, NEW s \in Seq(S), s # <<>>
  PROVE  /\ Len(s) \in Nat \ {0}
         /\ Front(s) \in Seq(S)
         /\ Len(Front(s)) = Len(s) - 1
         /\ \A p \in 1..(Len(s) - 1) : Front(s)[p] = s[p]
  <1>1. Len(s) \in Nat \ {0}
    BY EmptySeq, LenProperties
  <1>2. /\ Front(s) \in Seq(S) /\ Len(Front(s)) = Len(s) - 1
        /\ \A p \in 1..(Len(s) - 1) : Front(s)[p] = s[p]
    <2> DEFINE m == Len(s) - 1
    <2>1. 1 \in Int /\ m \in Int /\ \A p \in 1..m : s[p] \in S
      BY <1>1
    <2>2. /\ SubSeq(s, 1, m) \in Seq(S)
          /\ Len(SubSeq(s, 1, m)) = IF 1 <= m THEN m - 1 + 1 ELSE 0
          /\ \A p \in 1..(m - 1 + 1) : SubSeq(s, 1, m)[p] = s[1 + p - 1]
      <3> HIDE DEF m
      <3> QED
        BY <2>1, SubSeqProperties
    <2>3. Front(s) = SubSeq(s, 1, m)
      BY Zenon DEF Front
    <2>4. /\ Len(Front(s)) = Len(s) - 1 /\ Front(s) \in Seq(S)
      <3>1. m \in Nat /\ m = Len(s) - 1
        BY <1>1
      <3> HIDE DEF m
      <3> DEFINE f == SubSeq(s, 1, m)
      <3>2. f \in Seq(S) /\ Len(f) = m /\ Front(s) = f
        <4>1. f \in Seq(S) /\ Len(f) = (IF 1 <= m THEN m - 1 + 1 ELSE 0) /\ Front(s) = f
          BY <2>2, <2>3, Zenon
        <4> HIDE DEF f
        <4> QED
          BY <3>1, <4>1
      <3> HIDE DEF f
      <3> QED
        BY <3>1, <3>2
    <2>5. ASSUME NEW p \in 1..(Len(s) - 1) PROVE Front(s)[p] = s[p]
      <3>1. p \in 1..(m - 1 + 1) /\ 1 + p - 1 = p
        BY <1>1
      <3> HIDE DEF m
      <3> QED
        BY <2>2, <2>3, <3>1, Zenon
    <2> QED
      BY <2>4, <2>5
  <1> QED
    BY <1>1, <1>2

-----------------------------------------------------------------------------
(* The invariant holds initially and every step keeps it.                   *)

LEMMA InitInvariant ==
  ASSUME Init
  PROVE  EInv
  <1>1. streams \in Seq(Bindings)
    <2>1. PICK m \in 0..MaxBindings : streams \in [1..m -> Bindings]
      BY DEF Init, BoundedSeq, SeqOf
    <2>2. m \in Nat
      BY <2>1, NamesAssumption
    <2> QED
      BY <2>1, <2>2
  <1>2. Len(streams) \in Nat /\ Len(stack) = 0
    BY <1>1 DEF Init
  <1>3. Shape
    BY <1>1, <1>2 DEF Init, Shape
  <1>4. Named /\ RootsOK /\ NoFalseAlarm
    BY <1>2 DEF Init, Named, RootsOK, NoFalseAlarm, Walking
  <1>5. EdgesOK
    BY DEF Init, EdgesOK, Walking
  <1>6. PathOK
    BY <1>2 DEF Init, PathOK
  <1>7. VisitedOK
    BY DEF Init, VisitedOK
  <1> QED
    BY <1>3, <1>4, <1>5, <1>6, <1>7 DEF EInv

(* validateInstance returns. *)
LEMMA FinishStep ==
  ASSUME EInv, NEW r, Finish(r), pc # "done",
         r = "ErrEmitCycle" => Cyclic,
         r = "ok" => pc = "roots" /\ i > Len(streams)
  PROVE  EInv'
  <1>1. /\ UNCHANGED <<streams, i, emitEdge, state, stack>>
        /\ pc' = "done" /\ result' = r /\ result = "none"
    BY DEF Finish, EInv, Shape
  <1>2. Shape'
    BY <1>1 DEF EInv, Shape
  <1>3. Named'
    BY <1>1 DEF EInv, Named, Walking
  <1>4. EdgesOK'
    BY <1>1 DEF EInv, EdgesOK, Walking, Edges
  <1>5. PathOK' /\ VisitedOK'
    BY <1>1 DEF EInv, PathOK, VisitedOK
  <1>6. RootsOK'
    BY <1>1 DEF EInv, RootsOK, Walking, Shape
  <1>7. NoFalseAlarm'
    BY <1>1 DEF NoFalseAlarm, Cyclic, Edges
  <1> QED
    BY <1>2, <1>3, <1>4, <1>5, <1>6, <1>7 DEF EInv

(* The first loop goes on to the next binding. *)
LEMMA CheckedStep ==
  ASSUME EInv, pc = "bindings", i <= Len(streams),
         BindingError(streams[i]) = "none", Continue
  PROVE  EInv'
  <1>1. /\ UNCHANGED <<streams, pc, emitEdge, state, stack, result>> /\ i' = i + 1
        /\ i \in 1..Len(streams) /\ streams[i] \in Bindings /\ Len(streams) \in Nat
        /\ result = "none"
    BY DEF Continue, EInv, Shape
  <1>2. streams[i].stream \in Names
    <2>1. streams[i].stream # Unset
      BY DEF BindingError
    <2> QED
      BY <1>1, <2>1, KeyFacts
  <1>3. Shape'
    BY <1>1 DEF EInv, Shape
  <1>4. Named'
    <2> SUFFICES ASSUME NEW j \in 1..Len(streams), j < i + 1
                 PROVE  streams[j].stream \in Names
      BY <1>1 DEF Named, Walking
    <2>1. j = i \/ j < i
      BY <1>1
    <2> QED
      BY <1>2, <2>1 DEF EInv, Named
  <1>5. EdgesOK'
    BY <1>1 DEF EInv, EdgesOK, Walking, Edges
  <1>6. PathOK' /\ VisitedOK'
    BY <1>1 DEF EInv, PathOK, VisitedOK
  <1>7. RootsOK' /\ NoFalseAlarm'
    BY <1>1 DEF RootsOK, NoFalseAlarm, Walking
  <1> QED
    BY <1>3, <1>4, <1>5, <1>6, <1>7 DEF EInv

(* The first loop is over. *)
LEMMA BindingsCheckedStep ==
  ASSUME EInv, BindingsChecked
  PROVE  EInv'
  <1>1. /\ UNCHANGED <<streams, emitEdge, state, stack, result>> /\ i' = 1
        /\ pc = "bindings" /\ pc' = "edges" /\ i > Len(streams)
        /\ Len(streams) \in Nat /\ i \in Nat /\ result = "none"
    BY DEF BindingsChecked, LoopEnds, EInv, Shape
  <1>2. Shape'
    BY <1>1 DEF EInv, Shape
  <1>3. Named'
    <2>1. \A j \in 1..Len(streams) : j < i
      BY <1>1
    <2> QED
      BY <1>1, <2>1 DEF EInv, Named
  <1>4. EdgesOK'
    <2>1. \A j \in 1..Len(streams) : ~(j < 1)
      BY <1>1
    <2> QED
      BY <1>1, <2>1 DEF EInv, EdgesOK, Walking, Edges
  <1>5. PathOK' /\ VisitedOK'
    BY <1>1 DEF EInv, PathOK, VisitedOK
  <1>6. RootsOK' /\ NoFalseAlarm'
    BY <1>1 DEF RootsOK, NoFalseAlarm, Walking
  <1> QED
    BY <1>2, <1>3, <1>4, <1>5, <1>6 DEF EInv

(* The second loop is over. *)
LEMMA EdgesAddedStep ==
  ASSUME EInv, EdgesAdded
  PROVE  EInv'
  <1>1. /\ UNCHANGED <<streams, emitEdge, state, stack, result>> /\ i' = 1
        /\ pc = "edges" /\ pc' = "roots" /\ i > Len(streams)
        /\ Len(streams) \in Nat /\ i \in Nat /\ result = "none" /\ stack = <<>>
    BY DEF EdgesAdded, LoopEnds, EInv, Shape
  <1>2. Shape'
    BY <1>1 DEF EInv, Shape
  <1>3. Named'
    BY <1>1 DEF EInv, Named, Walking
  <1>4. EdgesOK'
    <2>1. \A j \in 1..Len(streams) : j < i
      BY <1>1
    <2> QED
      BY <1>1, <2>1 DEF EInv, EdgesOK, Edges
  <1>5. PathOK' /\ VisitedOK'
    BY <1>1 DEF EInv, PathOK, VisitedOK
  <1>6. RootsOK' /\ NoFalseAlarm'
    <2>1. \A j \in 1..Len(streams) : ~(j < 1)
      BY <1>1
    <2> QED
      BY <1>1, <2>1 DEF RootsOK, NoFalseAlarm, Walking
  <1> QED
    BY <1>2, <1>3, <1>4, <1>5, <1>6 DEF EInv

(* detectEmitCycles adds the edge of a binding. *)
LEMMA AddEdgeStep ==
  ASSUME EInv, AddEdge
  PROVE  EInv'
  <1> DEFINE b == streams[i]
  <1>1. /\ UNCHANGED <<streams, pc, state, stack, result>> /\ i' = i + 1 /\ pc = "edges"
        /\ i \in 1..Len(streams) /\ b \in Bindings /\ Len(streams) \in Nat
        /\ result = "none" /\ stack = <<>> /\ b.stream \in Names
    BY DEF AddEdge, EInv, Shape, Named
  <1>2. emitEdge' = IF b.emit = Unset THEN emitEdge
                    ELSE [emitEdge EXCEPT ![ConsumeKey(b)] = b.emit]
    BY <1>1, KeyFacts DEF AddEdge
  <1>3. ConsumeKey(b) \in Keys /\ b.emit \in Names \cup {Unset}
    BY <1>1, KeyFacts
  <1>4. emitEdge \in [Keys -> Names \cup {Unset}] /\ emitEdge' \in [Keys -> Names \cup {Unset}]
    BY <1>2, <1>3 DEF EInv, Shape
  <1>5. Shape'
    BY <1>1, <1>4 DEF EInv, Shape
  <1>6. Named'
    BY <1>1 DEF EInv, Named
  <1>7. EdgesOK'
    <2>1. ASSUME NEW k \in Keys, emitEdge'[k] # Unset PROVE <<k, emitEdge'[k]>> \in Edges'
      <3>1. Edges' = Edges
        BY <1>1 DEF Edges
      <3>2. CASE emitEdge'[k] = emitEdge[k]
        BY <2>1, <3>1, <3>2 DEF EInv, EdgesOK
      <3>3. CASE emitEdge'[k] # emitEdge[k]
        <4>1. b.emit # Unset /\ k = ConsumeKey(b) /\ emitEdge'[k] = b.emit
          BY <1>2, <1>3, <1>4, <3>3
        <4>2. Shape
          BY DEF EInv
        <4>3. <<k, b.emit>> \in Edges
          BY <1>1, <4>1, <4>2, EdgeFacts
        <4> QED
          BY <3>1, <4>1, <4>3
      <3> QED
        BY <3>2, <3>3
    <2>2. ASSUME NEW j \in 1..Len(streams), j < i + 1, streams[j].emit # Unset
          PROVE  emitEdge'[ConsumeKey(streams[j])] # Unset
      <3>1. j = i \/ j < i
        BY <1>1, <2>2
      <3>2. CASE j = i
        BY <1>2, <1>3, <1>4, <2>2, <3>2
      <3>3. CASE j < i
        <4>1. emitEdge[ConsumeKey(streams[j])] # Unset
          BY <1>1, <2>2, <3>3 DEF EInv, EdgesOK
        <4> DEFINE c == ConsumeKey(streams[j])
        <4>2. c \in Keys
          <5>1. streams[j] \in Bindings /\ streams[j].stream \in Names
            BY <1>1 DEF EInv, Shape, Named
          <5> QED
            BY <5>1, KeyFacts
        <4> HIDE DEF c
        <4>3. emitEdge[c] # Unset
          BY <4>1 DEF c
        <4>4. emitEdge'[c] # Unset
          BY <1>2, <1>3, <1>4, <4>2, <4>3
        <4> QED
          BY <4>4 DEF c
      <3> QED
        BY <3>1, <3>2, <3>3
    <2> QED
      BY <1>1, <2>1, <2>2 DEF EdgesOK, Walking
  <1>8. PathOK'
    BY <1>1 DEF EInv, PathOK
  <1>9. VisitedOK'
    <2>1. \A k \in Keys : state'[k] # "visited"
      BY <1>1 DEF EInv, VisitedOK
    <2>2. ASSUME NEW S \in SUBSET Keys, S # {} PROVE ~\A k \in S : state'[k] = "visited"
      BY <2>1, <2>2
    <2> QED
      BY <1>1, <2>1, <2>2 DEF EInv, VisitedOK
  <1>10. RootsOK' /\ NoFalseAlarm'
    BY <1>1 DEF RootsOK, NoFalseAlarm, Walking
  <1> QED
    BY <1>5, <1>6, <1>7, <1>8, <1>9, <1>10 DEF EInv

(* The third loop skips a key that was visited from another root. *)
LEMMA RootSkippedStep ==
  ASSUME EInv, pc = "roots", i <= Len(streams),
         state[ConsumeKey(streams[i])] # "unvisited", Continue
  PROVE  EInv'
  <1>1. /\ UNCHANGED <<streams, pc, emitEdge, state, stack, result>> /\ i' = i + 1
        /\ i \in 1..Len(streams) /\ streams[i] \in Bindings /\ Len(streams) \in Nat
        /\ result = "none" /\ stack = <<>> /\ streams[i].stream \in Names
    BY DEF Continue, EInv, Shape, Named, Walking
  <1>2. state[ConsumeKey(streams[i])] = "visited"
    <2>1. ConsumeKey(streams[i]) \in Keys
      BY <1>1, KeyFacts
    <2>2. state[ConsumeKey(streams[i])] # "visiting"
      BY <1>1, <2>1 DEF EInv, PathOK
    <2> QED
      BY <2>1, <2>2 DEF EInv, Shape
  <1>3. Shape' /\ Named'
    BY <1>1 DEF EInv, Shape, Named, Walking
  <1>4. EdgesOK'
    BY <1>1 DEF EInv, EdgesOK, Walking, Edges
  <1>5. PathOK' /\ VisitedOK'
    BY <1>1 DEF EInv, PathOK, VisitedOK
  <1>6. RootsOK'
    <2> SUFFICES ASSUME NEW j \in 1..Len(streams), j < i + 1
                 PROVE  state[ConsumeKey(streams[j])] = "visited"
      BY <1>1 DEF RootsOK
    <2>1. j = i \/ j < i
      BY <1>1
    <2> QED
      BY <1>2, <2>1 DEF EInv, RootsOK, Walking
  <1>7. NoFalseAlarm'
    BY <1>1 DEF NoFalseAlarm
  <1> QED
    BY <1>3, <1>4, <1>5, <1>6, <1>7 DEF EInv

(* dfs is called on an unvisited key: on a root, or on the successor of the     *)
(* key whose call is the innermost one.                                     *)
LEMMA CallStep ==
  ASSUME EInv, NEW n \in Keys, Call(n), state[n] = "unvisited",
         i <= Len(streams),
         \/ pc = "roots" /\ n = ConsumeKey(streams[i])
         \/ pc = "dfs" /\ n = emitEdge[Last(stack)]
  PROVE  EInv'
  <1>1. /\ UNCHANGED <<streams, i, emitEdge, result>> /\ pc' = "dfs" /\ result = "none"
        /\ state' = [state EXCEPT ![n] = "visiting"] /\ stack' = Append(stack, n)
        /\ stack \in Seq(Keys) /\ Len(stack) \in Nat
        /\ state \in [Keys -> {"unvisited", "visiting", "visited"}]
    BY DEF Call, EInv, Shape
  <1>2. /\ stack' \in Seq(Keys) /\ Len(stack') = Len(stack) + 1
        /\ \A p \in 1..Len(stack) : stack'[p] = stack[p]
        /\ stack'[Len(stack) + 1] = n
        /\ stack' # <<>>
    BY <1>1
  <1>3. /\ state' \in [Keys -> {"unvisited", "visiting", "visited"}]
        /\ \A k \in Keys : state'[k] = IF k = n THEN "visiting" ELSE state[k]
    BY <1>1
  <1>4. Shape'
    BY <1>1, <1>2, <1>3 DEF EInv, Shape
  <1>5. Named'
    BY <1>1 DEF EInv, Named, Walking
  <1>6. EdgesOK'
    BY <1>1 DEF EInv, EdgesOK, Walking, Edges
  <1>7. PathOK'
    <2>0. pc # "done"
      OBVIOUS
    <2>1. \A p \in 1..Len(stack) : stack[p] # n
      BY <2>0 DEF EInv, PathOK
    <2>2. ASSUME NEW k \in Keys
          PROVE  state'[k] = "visiting" <=> \E p \in 1..Len(stack') : stack'[p] = k
      <3>1. (\E p \in 1..Len(stack') : stack'[p] = k)
              <=> k = n \/ \E p \in 1..Len(stack) : stack[p] = k
        <4>1. \A p \in 1..(Len(stack) + 1) : p \in 1..Len(stack) \/ p = Len(stack) + 1
          BY <1>1
        <4>2. Len(stack) + 1 \in 1..(Len(stack) + 1)
              /\ \A p \in 1..Len(stack) : p \in 1..(Len(stack) + 1)
          BY <1>1
        <4> QED
          BY <1>2, <4>1, <4>2
      <3> QED
        BY <1>3, <2>0, <3>1 DEF EInv, PathOK
    <2>3. ASSUME NEW p \in 1..Len(stack'), NEW q \in 1..Len(stack'), stack'[p] = stack'[q]
          PROVE  p = q
      <3>1. /\ p \in 1..Len(stack) \/ p = Len(stack) + 1
            /\ q \in 1..Len(stack) \/ q = Len(stack) + 1
        BY <1>1, <1>2
      <3> QED
        BY <1>2, <2>1, <2>3, <3>1 DEF EInv, PathOK
    <2>4. ASSUME NEW p \in 1..(Len(stack') - 1)
          PROVE  emitEdge'[stack'[p]] = stack'[p + 1]
      <3>1. p \in 1..Len(stack)
        BY <1>1, <1>2
      <3>2. CASE p = Len(stack)
        <4>1. pc = "dfs" /\ n = emitEdge[stack[p]]
          BY <1>1, <3>1, <3>2 DEF EInv, Shape, Last
        <4> QED
          BY <1>1, <1>2, <3>1, <3>2, <4>1
      <3>3. CASE p # Len(stack)
        <4>1. p \in 1..(Len(stack) - 1) /\ p + 1 \in 1..Len(stack)
          BY <1>1, <3>1, <3>3
        <4>2. emitEdge[stack[p]] = stack[p + 1]
          BY <4>1 DEF EInv, PathOK
        <4> QED
          BY <1>1, <1>2, <3>1, <4>1, <4>2
      <3> QED
        BY <3>2, <3>3
    <2>5. stack'[1] = ConsumeKey(streams[i])
      <3>1. CASE pc = "roots"
        <4>1. stack = <<>> /\ Len(stack) = 0
          BY <3>1 DEF EInv, Shape
        <4> QED
          BY <1>2, <3>1, <4>1
      <3>2. CASE pc = "dfs"
        <4>1. 1 \in 1..Len(stack)
          BY <1>1, <3>2, EmptySeq DEF EInv, Shape
        <4> QED
          BY <1>2, <3>2, <4>1 DEF EInv, PathOK
      <3> QED
        BY <3>1, <3>2
    <2> QED
      BY <1>1, <2>2, <2>3, <2>4, <2>5 DEF PathOK
  <1>8. \A k \in Keys : state'[k] = "visited" <=> state[k] = "visited"
    BY <1>3
  <1>9. VisitedOK'
    <2>1. ASSUME NEW k \in Keys, state'[k] = "visited", emitEdge[k] # Unset
          PROVE  state'[emitEdge[k]] = "visited"
      <3>1. emitEdge[k] \in Keys
        BY <2>1, KeyFacts DEF EInv, Shape
      <3> QED
        BY <1>8, <2>1, <3>1 DEF EInv, VisitedOK
    <2>2. ASSUME NEW S \in SUBSET Keys, S # {}, \A k \in S : state'[k] = "visited"
          PROVE  \E k \in S : emitEdge[k] \notin S
      <3>1. \A k \in S : state[k] = "visited"
        BY <1>8, <2>2
      <3> QED
        BY <2>2, <3>1 DEF EInv, VisitedOK
    <2> QED
      BY <1>1, <2>1, <2>2 DEF VisitedOK
  <1>10. RootsOK'
    <2> SUFFICES ASSUME NEW j \in 1..Len(streams), j < i
                 PROVE  state'[ConsumeKey(streams[j])] = "visited"
      BY <1>1 DEF RootsOK
    <2>1. state[ConsumeKey(streams[j])] = "visited"
      BY DEF EInv, RootsOK, Walking
    <2>2. ConsumeKey(streams[j]) \in Keys
      <3>1. streams[j] \in Bindings /\ streams[j].stream \in Names
        BY DEF EInv, Shape, Named, Walking
      <3> QED
        BY <3>1, KeyFacts
    <2> QED
      BY <1>8, <2>1, <2>2
  <1>11. NoFalseAlarm'
    BY <1>1 DEF NoFalseAlarm
  <1> QED
    BY <1>4, <1>5, <1>6, <1>7, <1>9, <1>10, <1>11 DEF EInv

(* dfs returns from a key whose successor, if any, is visited. *)
LEMMA ReturnStep ==
  ASSUME EInv, pc = "dfs", NEW n, n = Last(stack), Return(n),
         emitEdge[n] # Unset => state[emitEdge[n]] = "visited"
  PROVE  EInv'
  <1>0. /\ stack \in Seq(Keys) /\ stack # <<>> /\ i \in 1..Len(streams)
        /\ state \in [Keys -> {"unvisited", "visiting", "visited"}]
        /\ Len(streams) \in Nat /\ result = "none"
    BY DEF EInv, Shape
  <1>1. /\ UNCHANGED <<streams, emitEdge, result>>
        /\ state' = [state EXCEPT ![n] = "visited"] /\ stack' = Front(stack)
        /\ Len(stack) = 1 => pc' = "roots" /\ i' = i + 1
        /\ Len(stack) # 1 => UNCHANGED <<pc, i>>
    BY DEF Return
  <1>2. /\ Len(stack) \in Nat \ {0}
        /\ stack' \in Seq(Keys) /\ Len(stack') = Len(stack) - 1
        /\ \A p \in 1..(Len(stack) - 1) : stack'[p] = stack[p]
    BY <1>0, <1>1, FrontFacts
  <1>3. n \in Keys /\ n = stack[Len(stack)] /\ Len(stack) \in 1..Len(stack)
    BY <1>0, <1>2 DEF Last
  <1>4. state[n] = "visiting"
    BY <1>3 DEF EInv, PathOK
  <1>5. /\ state' \in [Keys -> {"unvisited", "visiting", "visited"}]
        /\ \A k \in Keys : state'[k] = IF k = n THEN "visited" ELSE state[k]
    BY <1>0, <1>1, <1>3
  <1>6. Len(stack) = 1 => stack' = <<>>
    BY <1>2, EmptySeq
  <1>7. Len(stack) # 1 => stack' # <<>>
    BY <1>2, EmptySeq
  <1>8. Shape'
    <2>1. CASE Len(stack) = 1
      BY <1>0, <1>1, <1>2, <1>5, <1>6, <2>1 DEF EInv, Shape
    <2>2. CASE Len(stack) # 1
      BY <1>0, <1>1, <1>2, <1>5, <1>7, <2>2 DEF EInv, Shape
    <2> QED
      BY <2>1, <2>2
  <1>p. pc' \in Walking /\ pc' # "done" /\ pc' \notin {"bindings", "edges"}
    BY <1>1 DEF Walking
  <1>9. Named'
    BY <1>0, <1>1, <1>p DEF EInv, Named, Walking
  <1>10. EdgesOK'
    BY <1>0, <1>1, <1>p DEF EInv, EdgesOK, Walking, Edges
  <1>11. PathOK'
    <2>1. \A p \in 1..Len(stack') : p \in 1..Len(stack) /\ p # Len(stack)
      BY <1>2
    <2>2. ASSUME NEW k \in Keys
          PROVE  state'[k] = "visiting" <=> \E p \in 1..Len(stack') : stack'[p] = k
      <3>1. CASE k = n
        <4>1. \A p \in 1..Len(stack') : stack'[p] # n
          BY <1>2, <1>3, <2>1 DEF EInv, PathOK
        <4> QED
          BY <1>5, <3>1, <4>1
      <3>2. CASE k # n
        <4>1. (\E p \in 1..Len(stack') : stack'[p] = k) <=> \E p \in 1..Len(stack) : stack[p] = k
          <5>1. \A p \in 1..Len(stack) : p = Len(stack) \/ p \in 1..Len(stack')
            BY <1>2
          <5> QED
            BY <1>2, <1>3, <2>1, <3>2, <5>1
        <4> QED
          BY <1>5, <3>2, <4>1 DEF EInv, PathOK
      <3> QED
        BY <3>1, <3>2
    <2>3. \A p, q \in 1..Len(stack') : stack'[p] = stack'[q] => p = q
      BY <1>2, <2>1 DEF EInv, PathOK
    <2>4. ASSUME NEW p \in 1..(Len(stack') - 1)
          PROVE  emitEdge'[stack'[p]] = stack'[p + 1]
      <3>1. /\ p \in 1..(Len(stack) - 1) /\ p + 1 \in 1..(Len(stack) - 1)
        BY <1>2
      <3>2. emitEdge[stack[p]] = stack[p + 1]
        BY <3>1 DEF EInv, PathOK
      <3> QED
        BY <1>1, <1>2, <3>1, <3>2
    <2>5. pc' = "dfs" => stack'[1] = ConsumeKey(streams'[i'])
      <3> SUFFICES ASSUME pc' = "dfs" PROVE stack'[1] = ConsumeKey(streams'[i'])
        OBVIOUS
      <3>1. Len(stack) # 1 /\ i' = i /\ streams' = streams
        BY <1>1
      <3>2. 1 \in 1..(Len(stack) - 1)
        BY <1>2, <3>1
      <3> QED
        BY <1>2, <3>1, <3>2 DEF EInv, PathOK
    <2> QED
      BY <2>2, <2>3, <2>4, <2>5 DEF PathOK
  <1>12. VisitedOK'
    <2>1. ASSUME NEW k \in Keys, state'[k] = "visited", emitEdge[k] # Unset
          PROVE  state'[emitEdge[k]] = "visited"
      <3>1. emitEdge[k] \in Keys
        BY <2>1, KeyFacts DEF EInv, Shape
      <3>2. state[emitEdge[k]] = "visited"
        BY <1>5, <2>1 DEF EInv, VisitedOK
      <3> QED
        BY <1>5, <3>1, <3>2
    <2>2. ASSUME NEW S \in SUBSET Keys, S # {}, \A k \in S : state'[k] = "visited",
                 \A k \in S : emitEdge[k] \in S
          PROVE  FALSE
      <3>1. \A k \in S : k # n => state[k] = "visited"
        BY <1>5, <2>2
      <3>2. \A k \in S : emitEdge[k] # Unset /\ emitEdge[k] # n
        <4> SUFFICES ASSUME NEW k \in S PROVE emitEdge[k] # Unset /\ emitEdge[k] # n
          OBVIOUS
        <4>1. emitEdge[k] # Unset
          BY <2>2, KeyFacts
        <4>2. state[emitEdge[k]] = "visited"
          BY <3>1, <4>1 DEF EInv, VisitedOK
        <4> QED
          BY <1>4, <4>1, <4>2
      <3> DEFINE T == S \ {n}
      <3>3. T \in SUBSET Keys /\ T # {}
        BY <2>2, <3>2
      <3>4. \A k \in T : state[k] = "visited" /\ emitEdge[k] \in T
        BY <2>2, <3>1, <3>2
      <3> HIDE DEF T
      <3> QED
        BY <3>3, <3>4 DEF EInv, VisitedOK
    <2> QED
      BY <1>1, <1>p, <2>1, <2>2 DEF VisitedOK
  <1>13. RootsOK'
    <2> SUFFICES ASSUME NEW j \in 1..Len(streams), j < i'
                 PROVE  state'[ConsumeKey(streams[j])] = "visited"
      BY <1>0, <1>1 DEF RootsOK
    <2>1. ConsumeKey(streams[j]) \in Keys
      <3>1. streams[j] \in Bindings /\ streams[j].stream \in Names
        BY DEF EInv, Shape, Named, Walking
      <3> QED
        BY <3>1, KeyFacts
    <2>2. CASE j < i
      <3>1. state[ConsumeKey(streams[j])] = "visited"
        BY <2>2 DEF EInv, RootsOK, Walking
      <3> QED
        BY <1>5, <2>1, <3>1
    <2>3. CASE ~(j < i)
      <3>1. Len(stack) = 1 /\ j = i
        BY <1>0, <1>1, <2>3
      <3>2. n = ConsumeKey(streams[j])
        BY <1>3, <3>1 DEF EInv, PathOK
      <3> QED
        BY <1>3, <1>5, <3>2
    <2> QED
      BY <2>2, <2>3
  <1>14. NoFalseAlarm'
    BY <1>0, <1>1 DEF NoFalseAlarm
  <1> QED
    BY <1>8, <1>9, <1>10, <1>11, <1>12, <1>13, <1>14 DEF EInv

(* The successor of the innermost key is on the path: the keys from there on    *)
(* are never left.                                                          *)
LEMMA BackEdge ==
  ASSUME EInv, pc = "dfs", NEW next, next = emitEdge[Last(stack)],
         next # Unset, state[next] = "visiting"
  PROVE  Cyclic
  <1>0. /\ stack \in Seq(Keys) /\ stack # <<>> /\ Len(stack) \in Nat \ {0}
        /\ emitEdge \in [Keys -> Names \cup {Unset}]
    BY EmptySeq DEF EInv, Shape
  <1>1. Len(stack) \in 1..Len(stack) /\ Last(stack) = stack[Len(stack)] /\ Last(stack) \in Keys
    BY <1>0 DEF Last
  <1>2. next \in Keys
    BY <1>0, <1>1, KeyFacts
  <1>3. PICK t \in 1..Len(stack) : stack[t] = next
    BY <1>2 DEF EInv, PathOK
  <1> DEFINE S == {stack[p] : p \in t..Len(stack)}
  <1>4. S \in SUBSET Keys /\ S # {}
    BY <1>0, <1>3
  <1>5. ASSUME NEW p \in t..Len(stack)
        PROVE  \E m \in S : <<stack[p], m>> \in Edges
    <2>0. stack[p] \in Keys
      BY <1>0, <1>3
    <2>1. emitEdge[stack[p]] \in S
      <3>1. CASE p = Len(stack)
        BY <1>0, <1>1, <1>3, <3>1
      <3>2. CASE p # Len(stack)
        <4>1. p \in 1..(Len(stack) - 1) /\ p + 1 \in t..Len(stack)
          BY <1>0, <1>3, <3>2
        <4>2. emitEdge[stack[p]] = stack[p + 1]
          BY <4>1 DEF EInv, PathOK
        <4> QED
          BY <4>1, <4>2
      <3> QED
        BY <3>1, <3>2
    <2>2. emitEdge[stack[p]] # Unset
      BY <1>4, <2>1, KeyFacts
    <2>3. <<stack[p], emitEdge[stack[p]]>> \in Edges
      BY <2>0, <2>2 DEF EInv, EdgesOK
    <2> QED
      BY <2>1, <2>3
  <1>6. \A n \in S : \E m \in S : <<n, m>> \in Edges
    BY <1>5
  <1> HIDE DEF S
  <1> QED
    BY <1>4, <1>6 DEF Cyclic

LEMMA StepInvariant ==
  ASSUME EInv, [Next]_vars
  PROVE  EInv'
  <1>0. pc # "done" => result = "none"
    BY DEF EInv, Shape
  <1>1. CASE NoStreams
    BY <1>1, FinishStep DEF NoStreams
  <1>2. CASE CheckBinding
    <2>1. CASE BindingError(streams[i]) = "none"
      BY <1>2, <2>1, CheckedStep DEF CheckBinding
    <2>2. CASE BindingError(streams[i]) # "none"
      <3> DEFINE r == BindingError(streams[i])
      <3>1. r \notin {"ErrEmitCycle", "ok"}
        BY DEF BindingError
      <3>2. Finish(r) /\ pc # "done"
        BY <1>2, <2>2 DEF CheckBinding
      <3> HIDE DEF r
      <3> QED
        BY <3>1, <3>2, FinishStep
    <2> QED
      BY <2>1, <2>2
  <1>3. CASE BindingsChecked
    BY <1>3, BindingsCheckedStep
  <1>4. CASE AddEdge
    BY <1>4, AddEdgeStep
  <1>5. CASE EdgesAdded
    BY <1>5, EdgesAddedStep
  <1>6. CASE Root
    <2>1. pc = "roots" /\ i \in 1..Len(streams) /\ i <= Len(streams)
      BY <1>6 DEF Root, EInv, Shape
    <2>2. ConsumeKey(streams[i]) \in Keys
      <3>1. streams[i] \in Bindings /\ streams[i].stream \in Names
        BY <2>1 DEF EInv, Shape, Named, Walking
      <3> QED
        BY <3>1, KeyFacts
    <2>3. CASE state[ConsumeKey(streams[i])] = "unvisited"
      <3> DEFINE n == ConsumeKey(streams[i])
      <3>1. Call(n) /\ n \in Keys /\ state[n] = "unvisited"
        BY <1>6, <2>2, <2>3 DEF Root
      <3>2. n = ConsumeKey(streams[i])
        OBVIOUS
      <3> HIDE DEF n
      <3> QED
        BY <2>1, <3>1, <3>2, CallStep
    <2>4. CASE state[ConsumeKey(streams[i])] # "unvisited"
      BY <1>6, <2>1, <2>4, RootSkippedStep DEF Root
    <2> QED
      BY <2>3, <2>4
  <1>7. CASE Dfs
    <2> DEFINE n == Last(stack)
               next == emitEdge[n]
    <2>1. pc = "dfs" /\ i <= Len(streams)
      BY <1>7 DEF Dfs, EInv, Shape
    <2>2. CASE next # Unset /\ state[next] = "unvisited" /\ Call(next)
      <3>1. next \in Keys
        <4>1. stack \in Seq(Keys) /\ stack # <<>> /\ Len(stack) \in Nat \ {0}
          BY <2>1, EmptySeq DEF EInv, Shape
        <4>2. n \in Keys
          BY <4>1 DEF Last
        <4> QED
          BY <2>2, <4>2, KeyFacts DEF EInv, Shape
      <3>2. next = emitEdge[Last(stack)]
        OBVIOUS
      <3> HIDE DEF n, next
      <3> QED
        BY <2>1, <2>2, <3>1, <3>2, CallStep
    <2>3. CASE next # Unset /\ state[next] = "visiting" /\ Finish("ErrEmitCycle")
      <3>1. Cyclic
        BY <2>1, <2>3, BackEdge
      <3> QED
        BY <2>1, <2>3, <3>1, FinishStep
    <2>4. CASE (next # Unset => state[next] = "visited") /\ Return(n)
      <3>1. n = Last(stack) /\ (emitEdge[n] # Unset => state[emitEdge[n]] = "visited")
        BY <2>4
      <3> HIDE DEF n
      <3> QED
        BY <2>1, <2>4, <3>1, ReturnStep
    <2> QED
      BY <1>7, <2>2, <2>3, <2>4 DEF Dfs
  <1>8. CASE Accept
    BY <1>8, FinishStep DEF Accept
  <1>9. CASE UNCHANGED vars
    <2>1. UNCHANGED <<streams, pc, i, emitEdge, state, stack, result>>
      BY <1>9 DEF vars
    <2>2. Shape' /\ Named' /\ PathOK'
      BY <2>1 DEF EInv, Shape, Named, PathOK
    <2>3. EdgesOK' /\ NoFalseAlarm'
      BY <2>1 DEF EInv, EdgesOK, NoFalseAlarm, Cyclic, Edges
    <2>4. VisitedOK' /\ RootsOK'
      BY <2>1 DEF EInv, VisitedOK, RootsOK
    <2> QED
      BY <2>2, <2>3, <2>4 DEF EInv
  <1> QED
    BY <1>1, <1>2, <1>3, <1>4, <1>5, <1>6, <1>7, <1>8, <1>9 DEF Next

LEMMA Invariant == Spec => []EInv
  BY InitInvariant, StepInvariant, PTL DEF Spec

-----------------------------------------------------------------------------
(* What it implies.                                                         *)

(* TypeOK: validateInstance and detectEmitCycles keep their variables' types. *)
THEOREM TypeCorrect == Spec => []TypeOK
  <1>1. EInv => TypeOK
    <2> SUFFICES ASSUME EInv PROVE TypeOK
      OBVIOUS
    <2>1. stack \in Seq(Keys) /\ DOMAIN stack = 1..Len(stack)
      BY DEF EInv, Shape
    <2>2. \A k \in ToSet(stack) : k \in Keys
      BY <2>1 DEF ToSet
    <2> QED
      BY <2>2 DEF EInv, Shape, TypeOK
  <1> QED
    BY <1>1, Invariant, PTL

(* StackIsPath: the recursion of dfs is a path of the "visiting" keys, none twice. *)
THEOREM PathOfVisiting == Spec => []StackIsPath
  <1>1. EInv => StackIsPath
    <2> SUFFICES ASSUME EInv PROVE StackIsPath
      OBVIOUS
    <2>1. stack \in Seq(Keys) /\ DOMAIN stack = 1..Len(stack)
      BY DEF EInv, Shape
    <2>2. \A k : k \in ToSet(stack) <=> \E p \in 1..Len(stack) : stack[p] = k
      BY <2>1 DEF ToSet
    <2>3. IsInjective(stack)
      BY <2>1 DEF IsInjective, EInv, PathOK
    <2> QED
      BY <2>2, <2>3 DEF EInv, Shape, PathOK, StackIsPath
  <1> QED
    BY <1>1, Invariant, PTL

(* NoFalseAlarm: ErrEmitCycle is returned only for a cycle of the bindings. *)
THEOREM AlarmsAreCycles == Spec => []NoFalseAlarm
  <1>1. EInv => NoFalseAlarm
    BY DEF EInv
  <1> QED
    BY <1>1, Invariant, PTL

(* CyclesFound: a list of bindings with one emit per key that is accepted has   *)
(* no cycle.                                                                *)
THEOREM AcceptedHasNoCycle == Spec => []CyclesFound
  <1>1. EInv => CyclesFound
    <2> SUFFICES ASSUME EInv, result = "ok", OneEmitPerKey,
                        NEW S \in SUBSET Keys, S # {},
                        \A n \in S : \E m \in S : <<n, m>> \in Edges
                 PROVE  FALSE
      BY DEF CyclesFound, Cyclic
    <2>0. Shape /\ DOMAIN streams = 1..Len(streams)
      BY DEF EInv, Shape
    <2>1. ASSUME NEW n \in S PROVE state[n] = "visited" /\ emitEdge[n] \in S
      <3>1. PICK m \in S : <<n, m>> \in Edges
        OBVIOUS
      <3>2. PICK j \in 1..Len(streams) : /\ streams[j].emit # Unset
                                         /\ ConsumeKey(streams[j]) = n /\ streams[j].emit = m
        BY <2>0, <3>1, EdgeFacts
      <3>3. state[n] = "visited" /\ emitEdge[n] # Unset
        BY <3>2 DEF EInv, RootsOK, EdgesOK
      <3>4. <<n, emitEdge[n]>> \in Edges
        BY <3>3 DEF EInv, EdgesOK
      <3>5. PICK h \in 1..Len(streams) : /\ streams[h].emit # Unset
                                         /\ ConsumeKey(streams[h]) = n
                                         /\ streams[h].emit = emitEdge[n]
        BY <2>0, <3>4, EdgeFacts
      <3>6. streams[j] \in ToSet(streams) /\ streams[h] \in ToSet(streams)
        BY <2>0 DEF ToSet
      <3>7. emitEdge[n] = m
        BY <3>2, <3>5, <3>6 DEF OneEmitPerKey
      <3> QED
        BY <3>1, <3>3, <3>7
    <2> QED
      BY <2>1 DEF EInv, VisitedOK
  <1> QED
    BY <1>1, Invariant, PTL
=============================================================================
