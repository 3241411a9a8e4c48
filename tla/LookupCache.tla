---------------------------- MODULE LookupCache ----------------------------
(***************************************************************************)
(* internal/lookup: cachedLookup.Resolve over a Cache (LRU, TTL, jitter)    *)
(* and an sqlLookup with its query timeout.  One Lookup is shared by all    *)
(* bindings of the process (main.go), so several stream consumers call     *)
(* Resolve at the same time; only Get and Set hold the cache's mutex, the   *)
(* query between them does not.                                            *)
(*                                                                          *)
(* The database holds a version of the answer to each bind, a new one after *)
(* every write; <<b, n>> is the n-th version of b's answer.  A version is a *)
(* single row or not (no row, several rows).  Text is a sequence of pieces; *)
(* a bind has for each column the text of its value, "%T:%v".               *)
(***************************************************************************)
EXTENDS Integers, Sequences, SequencesExt, FiniteSets

CONSTANTS
    Callers,        \* goroutines that call Resolve
    Columns,        \* the sorted column names, as the text "|name="
    Binds,          \* what Resolve is called with: a value for each column
    MaxEntries,     \* Cache.maxEntries
    TTL, Jitter,    \* ttl, and the largest jitter (15% of it), in ticks
    QueryTimeout,   \* sqlLookup.timeout
    MaxTime,        \* bound: ticks of the clock
    MaxWrites       \* bound: writes to the answers

ASSUME CacheAssumption ==
    /\ MaxEntries \in Nat \ {0}
    /\ TTL \in Nat \ {0}
    /\ Jitter \in 0..(TTL - 1)
    /\ QueryTimeout \in Nat \ {0}
    /\ MaxTime \in Nat
    /\ MaxWrites \in Nat

(* Mutant: key = ... where the code has key += ..., so the last column is left. *)
MakeCacheKeyLast(b) == <<Last(Columns)>> \o Last(b)

(* Names and values one after the other; nothing in a value is escaped. *)
MakeCacheKey(b) ==
    FlattenSeq([i \in 1..Len(Columns) |-> <<Columns[i]>> \o b[i]])

Keys == {MakeCacheKey(b) : b \in Binds}
Versions == Binds \X (0..MaxWrites)
Answers(k) == {v \in Versions : MakeCacheKey(v[1]) = k}
Times == 0..MaxTime
Expiries == 0..(MaxTime + TTL + Jitter)
Never == -1

VARIABLES
    now,          \* time.Now()
    current,      \* current[b]: the version of b's answer in the database
    single,       \* versions that are exactly one row
    replaced,     \* history: when a version was overwritten, or Never
    items,        \* Cache.items: a function on the cached keys
    lru,          \* Cache.lru: cached keys, most recently used first
    call          \* call[c]: where c's call of Resolve is, and its locals

dbVars == <<current, single, replaced>>
cacheVars == <<items, lru>>
vars == <<now, dbVars, cacheVars, call>>

Idle == [at |-> "idle"]

Calls ==
    {Idle}
    \cup [at : {"query"}, bind : Binds, started : Times]
    \cup [at : {"reply"}, bind : Binds, started : Times, answer : Versions]
    \cup [at : {"set"}, bind : Binds, answer : Versions, exp : Expiries]

Init ==
    /\ now = 0
    /\ current = [b \in Binds |-> <<b, 0>>]
    /\ single = Binds \X {0}
    /\ replaced = [v \in Versions |-> Never]
    /\ items = [k \in {} |-> Never]
    /\ lru = <<>>
    /\ call = [c \in Callers |-> Idle]

-----------------------------------------------------------------------------
(* Time passes. *)
Tick ==
    /\ now < MaxTime
    /\ now' = now + 1
    /\ UNCHANGED <<dbVars, cacheVars, call>>

(* Another application commits a change of b's answer, to one row or not. *)
Write(b) ==
    LET v == <<b, current[b][2] + 1>> IN
    /\ v \in Versions
    /\ Cardinality({w \in Versions : replaced[w] # Never}) < MaxWrites
    /\ current' = [current EXCEPT ![b] = v]
    /\ single' \in {single, single \cup {v}}
    /\ replaced' = [replaced EXCEPT ![current[b]] = now]
    /\ UNCHANGED <<now, cacheVars, call>>

-----------------------------------------------------------------------------
(* Cache.Get. *)
Without(k) == RemoveFirst(lru, k)
Fresh(k) == now <= items[k].expiresAt

(* A fresh entry: Resolve returns it. *)
GetHit(c, b) ==
    LET k == MakeCacheKey(b) IN
    /\ call[c] = Idle
    /\ k \in DOMAIN items
    /\ Fresh(k)
    /\ lru' = <<k>> \o Without(k)
    /\ UNCHANGED <<now, dbVars, items, call>>

(* Mutant: the expired element stays in the list. *)
GetMissKeepsElement(c, b) ==
    LET k == MakeCacheKey(b) IN
    /\ call[c] = Idle
    /\ k \in DOMAIN items => ~Fresh(k)
    /\ items' = [j \in DOMAIN items \ {k} |-> items[j]]
    /\ call' = [call EXCEPT ![c] = [at |-> "query", bind |-> b, started |-> now]]
    /\ UNCHANGED <<now, dbVars, lru>>

(* No entry, or an expired one, which is removed: Resolve starts the query. *)
GetMiss(c, b) ==
    LET k == MakeCacheKey(b) IN
    /\ call[c] = Idle
    /\ k \in DOMAIN items => ~Fresh(k)
    /\ items' = [j \in DOMAIN items \ {k} |-> items[j]]
    /\ lru' = Without(k)
    /\ call' = [call EXCEPT ![c] = [at |-> "query", bind |-> b, started |-> now]]
    /\ UNCHANGED <<now, dbVars>>

-----------------------------------------------------------------------------
(* sqlLookup.Resolve: the database evaluates the query, *)
Read(c) ==
    /\ call[c].at = "query"
    /\ call' = [call EXCEPT ![c] = [at |-> "reply", bind |-> @.bind,
                                    started |-> @.started,
                                    answer |-> current[@.bind]]]
    /\ UNCHANGED <<now, dbVars, cacheVars>>

(* it fails, or the deadline passes: nothing is cached, *)
QueryError(c) ==
    /\ call[c].at \in {"query", "reply"}
    /\ call' = [call EXCEPT ![c] = Idle]
    /\ UNCHANGED <<now, dbVars, cacheVars>>

(* Mutant: the query has no timeout. *)
InTimeAlways(c) == call[c].at = "reply"

(* or the rows arrive in time; without exactly one they are returned as is.  *)
InTime(c) == now <= call[c].started + QueryTimeout

ReplyUncached(c) ==
    /\ call[c].at = "reply"
    /\ InTime(c)
    /\ call[c].answer \notin single
    /\ call' = [call EXCEPT ![c] = Idle]
    /\ UNCHANGED <<now, dbVars, cacheVars>>

(* Mutant: any answer is cached. *)
ReplyAny(c) ==
    /\ call[c].at = "reply"
    /\ InTime(c)
    /\ call' = [call EXCEPT ![c] = [at |-> "set", bind |-> @.bind,
                                    answer |-> @.answer, exp |-> now + TTL]]
    /\ UNCHANGED <<now, dbVars, cacheVars>>

(* Mutant: the jitter is not centred, rand.Float64()*2 without the -1. *)
ReplyOffCentre(c) ==
    /\ call[c].at = "reply"
    /\ InTime(c)
    /\ call[c].answer \in single
    /\ \E j \in 0..(2 * Jitter) :
        call' = [call EXCEPT ![c] = [at |-> "set", bind |-> @.bind,
                                     answer |-> @.answer, exp |-> now + TTL + j]]
    /\ UNCHANGED <<now, dbVars, cacheVars>>

(* One row: Cache.Set draws the expiry before it waits for the mutex.  What   *)
(* runs between the last row and that reading of the clock never blocks.     *)
ReplySingle(c) ==
    /\ call[c].at = "reply"
    /\ InTime(c)
    /\ call[c].answer \in single
    /\ \E j \in -Jitter..Jitter :
        call' = [call EXCEPT ![c] = [at |-> "set", bind |-> @.bind,
                                     answer |-> @.answer, exp |-> now + TTL + j]]
    /\ UNCHANGED <<now, dbVars, cacheVars>>

(* Cache.Set under the mutex: an entry there already is overwritten; a new    *)
(* one at the limit first evicts the least recently used.                   *)
Evicted(k) ==
    IF k \notin DOMAIN items /\ Len(lru) >= MaxEntries THEN {Last(lru)} ELSE {}
Remaining(k) == IF Evicted(k) # {} THEN Front(lru) ELSE Without(k)

Set(c) ==
    LET k == MakeCacheKey(call[c].bind)
        kept == DOMAIN items \ Evicted(k)
    IN /\ call[c].at = "set"
       /\ items' = [j \in kept \cup {k} |->
                       IF j = k THEN [value |-> call[c].answer,
                                      expiresAt |-> call[c].exp]
                                ELSE items[j]]
       /\ lru' = <<k>> \o Remaining(k)
       /\ call' = [call EXCEPT ![c] = Idle]
       /\ UNCHANGED <<now, dbVars>>

Next ==
    \/ Tick
    \/ \E b \in Binds : Write(b)
    \/ \E c \in Callers :
        \/ \E b \in Binds : GetHit(c, b) \/ GetMiss(c, b)
        \/ Read(c) \/ QueryError(c)
        \/ ReplyUncached(c) \/ ReplySingle(c) \/ Set(c)

Spec == Init /\ [][Next]_vars

-----------------------------------------------------------------------------
(* Every variable has its type; under a key the cache holds an answer to a bind *)
(* with that key, and an expiry is at most one jittered TTL after the end.   *)
TypeOK ==
    /\ now \in Times
    /\ current \in [Binds -> Versions]
    /\ single \subseteq Versions
    /\ replaced \in [Versions -> Times \cup {Never}]
    /\ DOMAIN items \subseteq Keys
    /\ \A k \in DOMAIN items :
        items[k] \in [value : Answers(k), expiresAt : Expiries]
    /\ call \in [Callers -> Calls]

(* Map and list of the cache agree and stay within maxEntries, however the    *)
(* calls of Get and Set of several goroutines interleave.                   *)
CacheConsistent ==
    /\ ToSet(lru) = DOMAIN items
    /\ Len(lru) = Cardinality(DOMAIN items)
    /\ Len(lru) <= MaxEntries

(* "Multi-row and zero-row results are returned as-is without caching"         *)
(* (cached.go:31): what the cache serves is always one row, so a row that is *)
(* missing now is found as soon as it is there.                             *)
OnlySingleRows == \A k \in DOMAIN items : items[k].value \in single

(* A value the cache serves was overwritten in the database at most one query  *)
(* timeout and one jittered TTL ago, however long Set waited for the mutex    *)
(* and whichever of two racing queries set the entry last.                  *)
BoundedStaleness ==
    \A k \in DOMAIN items :
        LET since == replaced[items[k].value] IN
        Fresh(k) /\ since # Never => now <= since + QueryTimeout + TTL + Jitter

(* No value of the bind contains the text of a column, "|name=". *)
Unmistakable(b) == \A i \in DOMAIN Columns : ToSet(b[i]) \cap ToSet(Columns) = {}

(* "Resolve runs the lookup for the given bind parameters" (lookup.go:19): what *)
(* the cache serves for a bind is an answer to that bind, whatever other      *)
(* binds look like, unless its own values contain the separators that         *)
(* MakeCacheKey does not escape.                                             *)
ServesOwnBind ==
    \A b \in {x \in Binds : Unmistakable(x)} :
        LET k == MakeCacheKey(b) IN
        k \in DOMAIN items /\ Fresh(k) => items[k].value[1] = b
=============================================================================
