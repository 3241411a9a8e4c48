----------------------------- MODULE EmitGraph -----------------------------
(***************************************************************************)
(* internal/config: how validateInstance judges the stream bindings of an  *)
(* instance.  Each binding is checked by itself, then detectEmitCycles     *)
(* walks the emit graph depth first.  The input is any list of bindings;   *)
(* the steps are the loop iterations and the calls and returns of dfs.     *)
(*                                                                          *)
(* Strings are model values.  A logical stream name is also the Redis key   *)
(* of its "shared" scope; Prefixed[n] is the key "<instance>.n", which may  *)
(* itself be written as a name, in an emit for instance.                   *)
(***************************************************************************)
EXTENDS Integers, Sequences, SequencesExt

CONSTANTS
    Names,         \* stream names that occur in the file
    Prefixed,      \* instanceID + "." + name
    Unset,         \* the empty string
    Scopes,        \* values of scope in the file
    MaxBindings    \* bound: bindings of the instance

Keys == Names \cup {Prefixed[n] : n \in Names}

ASSUME NamesAssumption ==
    /\ Unset \notin Keys
    /\ \A n \in Names : Prefixed[n] # n
    /\ \A m, n \in Names : Prefixed[m] = Prefixed[n] => m = n
    /\ MaxBindings \in Nat

Bindings == [stream : Names \cup {Unset}, scope : Scopes,
             handler : BOOLEAN, emit : Names \cup {Unset}]

VARIABLES
    streams,    \* InstanceConfig.Streams
    pc,         \* "bindings", "edges", "roots", "dfs" or "done"
    i,          \* index of the loop pc is in
    emitEdge,   \* emitEdge[k]: where the binding on key k emits, or Unset
    state,      \* state[k]: "unvisited", "visiting" or "visited"
    stack,      \* the keys dfs is called on, outermost first
    result      \* the error of validateInstance, "ok", or "none" so far

vars == <<streams, pc, i, emitEdge, state, stack, result>>

ResolveKey(name, scope) == IF scope = "shared" THEN name ELSE Prefixed[name]

ScopeOrDefault(s) == IF s = Unset THEN "instance" ELSE s

ConsumeKey(b) == ResolveKey(b.stream, ScopeOrDefault(b.scope))
EmitKey(b) == ResolveKey(b.emit, "shared")

Init ==
    /\ streams \in BoundedSeq(Bindings, MaxBindings)
    /\ pc = "bindings"
    /\ i = 1
    /\ emitEdge = [k \in Keys |-> Unset]
    /\ state = [k \in Keys |-> "unvisited"]
    /\ stack = <<>>
    /\ result = "none"

Finish(r) ==
    /\ pc' = "done"
    /\ result' = r
    /\ UNCHANGED <<streams, i, emitEdge, state, stack>>

(* The i-th iteration of a loop over streams leads nowhere. *)
Continue ==
    /\ i' = i + 1
    /\ UNCHANGED <<streams, pc, emitEdge, state, stack, result>>

(* A loop over streams is over; another one begins. *)
LoopEnds(from, to) ==
    /\ pc = from
    /\ i > Len(streams)
    /\ pc' = to
    /\ i' = 1
    /\ UNCHANGED <<streams, emitEdge, state, stack, result>>

(* What is wrong with a binding by itself, the first check that fails first. *)
BindingError(b) ==
    CASE b.stream = Unset -> "ErrMissingStreamName"
      [] ScopeOrDefault(b.scope) \notin {"instance", "shared"} -> "ErrBadStreamScope"
      [] ~b.handler /\ b.emit = Unset -> "ErrEmptyBinding"
      [] b.emit # Unset /\ ConsumeKey(b) = EmitKey(b) -> "ErrSelfEmit"
      [] OTHER -> "none"

NoStreams ==
    /\ pc = "bindings"
    /\ streams = <<>>
    /\ Finish("ErrNoStreams")

CheckBinding ==
    /\ pc = "bindings"
    /\ i <= Len(streams)
    /\ IF BindingError(streams[i]) = "none" THEN Continue
       ELSE Finish(BindingError(streams[i]))

BindingsChecked == streams # <<>> /\ LoopEnds("bindings", "edges")

(* Mutant: the graph is built on stream names, not on resolved keys. *)
AddEdgeByName ==
    /\ pc = "edges"
    /\ i <= Len(streams)
    /\ i' = i + 1
    /\ emitEdge' = IF streams[i].emit = Unset THEN emitEdge
                   ELSE [emitEdge EXCEPT ![streams[i].stream] = EmitKey(streams[i])]
    /\ UNCHANGED <<streams, pc, state, stack, result>>

(* detectEmitCycles: emitEdge[consumeKey] = emitKey, one map entry per key. *)
AddEdge ==
    /\ pc = "edges"
    /\ i <= Len(streams)
    /\ i' = i + 1
    /\ emitEdge' = IF streams[i].emit = Unset THEN emitEdge
                   ELSE [emitEdge EXCEPT ![ConsumeKey(streams[i])] = EmitKey(streams[i])]
    /\ UNCHANGED <<streams, pc, state, stack, result>>

EdgesAdded == LoopEnds("edges", "roots")

(* Mutant: dfs does not mark the key it is working on. *)
CallUnmarked(n) ==
    /\ pc' = "dfs"
    /\ stack' = Append(stack, n)
    /\ UNCHANGED <<streams, i, emitEdge, state, result>>

(* dfs(n) for an unvisited n: it becomes "visiting" and its edge is followed. *)
Call(n) ==
    /\ pc' = "dfs"
    /\ state' = [state EXCEPT ![n] = "visiting"]
    /\ stack' = Append(stack, n)
    /\ UNCHANGED <<streams, i, emitEdge, result>>

Root ==
    /\ pc = "roots"
    /\ i <= Len(streams)
    /\ IF state[ConsumeKey(streams[i])] = "unvisited"
         THEN Call(ConsumeKey(streams[i]))
         ELSE Continue

(* Mutants: a finished key stays "visiting"; every return advances the loop   *)
(* over streams; a call never returns to its caller.                        *)
ReturnUnmarked(n) ==
    /\ stack' = Front(stack)
    /\ IF Len(stack) = 1 THEN pc' = "roots" /\ i' = i + 1 ELSE UNCHANGED <<pc, i>>
    /\ UNCHANGED <<streams, emitEdge, state, result>>
ReturnAdvances(n) ==
    /\ state' = [state EXCEPT ![n] = "visited"]
    /\ stack' = Front(stack)
    /\ i' = i + 1
    /\ pc' = IF Len(stack) = 1 THEN "roots" ELSE pc
    /\ UNCHANGED <<streams, emitEdge, result>>
ReturnStays(n) ==
    /\ state' = [state EXCEPT ![n] = "visited"]
    /\ UNCHANGED <<streams, pc, i, emitEdge, stack, result>>

(* dfs(n) is done with n: "visited"; the outermost call returns to the loop. *)
Return(n) ==
    /\ state' = [state EXCEPT ![n] = "visited"]
    /\ stack' = Front(stack)
    /\ IF Len(stack) = 1 THEN pc' = "roots" /\ i' = i + 1 ELSE UNCHANGED <<pc, i>>
    /\ UNCHANGED <<streams, emitEdge, result>>

(* The innermost dfs(n) looks at n's edge, or sees its callee returned. *)
Dfs ==
    LET n == Last(stack)
        next == emitEdge[n]
    IN /\ pc = "dfs"
       /\ \/ next # Unset /\ state[next] = "unvisited" /\ Call(next)
          \/ next # Unset /\ state[next] = "visiting" /\ Finish("ErrEmitCycle")
          \/ (next # Unset => state[next] = "visited") /\ Return(n)

Accept ==
    /\ pc = "roots"
    /\ i > Len(streams)
    /\ Finish("ok")

Next ==
    \/ NoStreams \/ CheckBinding \/ BindingsChecked
    \/ AddEdge \/ EdgesAdded
    \/ Root \/ Dfs \/ Accept

(* A sequential program: it runs on until it returns. *)
Spec == Init /\ [][Next]_vars /\ WF_vars(Next)

-----------------------------------------------------------------------------
(* The emit graph the bindings describe: an event read by one binding may    *)
(* come back to it iff some non-empty set of keys is never left.             *)
Edges == {<<ConsumeKey(b), EmitKey(b)>> : b \in {s \in ToSet(streams) : s.emit # Unset}}
Cyclic == \E S \in SUBSET Keys :
              S # {} /\ \A n \in S : \E m \in S : <<n, m>> \in Edges

OneEmitPerKey ==
    \A a, b \in ToSet(streams) :
        a.emit # Unset /\ b.emit # Unset /\ ConsumeKey(a) = ConsumeKey(b)
            => a.emit = b.emit

(* Every variable has its type. *)
TypeOK ==
    /\ pc \in {"bindings", "edges", "roots", "dfs", "done"}
    /\ i \in 1..(Len(streams) + 1)
    /\ emitEdge \in [Keys -> Names \cup {Unset}]
    /\ state \in [Keys -> {"unvisited", "visiting", "visited"}]
    /\ \A k \in ToSet(stack) : k \in Keys

(* "A -> B where B is terminal is valid" (config.go:356): ErrEmitCycle is     *)
(* returned only for a genuine cycle of the bindings.                       *)
NoFalseAlarm == result = "ErrEmitCycle" => Cyclic

(* "A -> B -> ... -> A is a genuine cycle and returns ErrEmitCycle"           *)
(* (config.go:357), when no two bindings of a key emit to different keys.    *)
CyclesFound == result = "ok" /\ OneEmitPerKey => ~Cyclic

(* The same for every accepted list of bindings. *)
AcceptedIsAcyclic == result = "ok" => ~Cyclic

(* The recursion of dfs is a path of the graph of "visiting" keys, none twice. *)
StackIsPath ==
    /\ pc = "dfs" => stack # <<>>
    /\ \A k \in Keys : pc # "done" => (state[k] = "visiting" <=> k \in ToSet(stack))
    /\ IsInjective(stack)
    /\ \A j \in 1..(Len(stack) - 1) : emitEdge[stack[j]] = stack[j + 1]

(* Validation always comes to a verdict. *)
Terminates == <>(pc = "done")
=============================================================================
