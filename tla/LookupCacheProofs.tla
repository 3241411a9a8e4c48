------------------------- MODULE LookupCacheProofs -------------------------
(***************************************************************************)
(* Proofs about LookupCache, for any callers, columns and binds, any size of *)
(* the cache, any TTL, jitter and query timeout.                            *)
(***************************************************************************)
EXTENDS LookupCache, SequenceTheorems, FiniteSetTheorems, TLAPS

-----------------------------------------------------------------------------
(* Lists without duplicates.                                                *)

Elements(s) == {s[p] : p \in 1..Len(s)}
Distinct(s) == \A p, q \in 1..Len(s) : s[p] = s[q] => p = q

(* A non-empty set of naturals has a least element, and Min is it. *)
LEMMA MinIsMember ==
  ASSUME NEW S \in SUBSET Nat, S # {}
  PROVE  Min(S) \in S
  <1>1. PICK x \in S : \A y \in S : ~(<<y, x>> \in OpToRel(<, Nat))
    BY WFMin, NatLessThanWellFounded
  <1>2. \A y \in Nat : y < x => <<y, x>> \in OpToRel(<, Nat)
    BY Zenon DEF OpToRel
  <1>3. \A y \in S : x <= y
    <2>1. \A y \in S : ~(y < x)
      BY <1>1, <1>2, Zenon
    <2> QED
      BY <2>1
  <1> QED
    BY <1>3 DEF Min

(* list.Remove takes one element out and keeps the order of the others. *)
LEMMA RemoveFacts ==
  ASSUME NEW S, NEW s \in Seq(S), Distinct(s), NEW k
  PROVE  LET r == RemoveFirst(s, k) IN
         /\ r \in Seq(S)
         /\ Distinct(r)
         /\ Elements(r) = Elements(s) \ {k}
         /\ Len(r) <= Len(s)
         /\ k \in Elements(s) => Len(r) = Len(s) - 1
  <1> DEFINE r == RemoveFirst(s, k)
  <1>0. Len(s) \in Nat
    BY LenProperties
  <1>1. CASE k \notin Elements(s)
    <2>1. r = s
      BY <1>1 DEF RemoveFirst, Elements
    <2> HIDE DEF r
    <2>2. Elements(s) = Elements(s) \ {k}
      BY <1>1
    <2> QED
      BY <1>0, <1>1, <2>1, <2>2 DEF r
  <1>2. CASE k \in Elements(s)
    <2> DEFINE I == {i \in 1..Len(s) : s[i] = k}
               p == Min(I)
               a == SubSeq(s, 1, p - 1)
               b == SubSeq(s, p + 1, Len(s))
    <2>1. I # {} /\ I \in SUBSET Nat
      BY <1>2 DEF Elements
    <2>2. p \in 1..Len(s) /\ s[p] = k
      <3>1. p \in I
        BY <2>1, MinIsMember
      <3> QED
        BY <3>1
    <2>3. r = a \o b
      <3>1. \E i \in 1..Len(s) : s[i] = k
        BY <1>2 DEF Elements
      <3>2. SelectInSeq(s, LAMBDA v : v = k) = p
        BY <2>1, Zenon DEF SelectInSeq
      <3>3. r = RemoveAt(s, SelectInSeq(s, LAMBDA v : v = k))
        BY <3>1, Zenon DEF RemoveFirst
      <3>4. r = RemoveAt(s, p)
        BY <3>2, <3>3, Zenon
      <3> QED
        BY <3>4, Zenon DEF RemoveAt
    <2> HIDE DEF I, p, r
    <2>4. /\ a \in Seq(S) /\ Len(a) = p - 1 /\ \A i \in 1..(p - 1) : a[i] = s[i]
      BY <1>0, <2>2, SubSeqProperties
    <2>5. /\ b \in Seq(S) /\ Len(b) = Len(s) - p /\ \A i \in 1..(Len(s) - p) : b[i] = s[p + i]
      BY <1>0, <2>2, SubSeqProperties
    <2> HIDE DEF a, b
    <2>6. /\ r \in Seq(S) /\ Len(r) = Len(s) - 1
          /\ \A i \in 1..(Len(s) - 1) : r[i] = IF i < p THEN s[i] ELSE s[i + 1]
      <3>1. /\ r \in Seq(S) /\ Len(r) = Len(a) + Len(b)
            /\ \A i \in 1..(Len(a) + Len(b)) : r[i] = IF i <= Len(a) THEN a[i] ELSE b[i - Len(a)]
        BY <2>3, <2>4, <2>5, ConcatProperties
      <3>2. Len(a) = p - 1 /\ Len(b) = Len(s) - p /\ Len(a) + Len(b) = Len(s) - 1
        BY <1>0, <2>2, <2>4, <2>5
      <3>3. ASSUME NEW i \in 1..(Len(s) - 1)
            PROVE  r[i] = IF i < p THEN s[i] ELSE s[i + 1]
        <4>1. r[i] = IF i <= p - 1 THEN a[i] ELSE b[i - (p - 1)]
          BY <3>1, <3>2
        <4>2. CASE i < p
          <5>1. i \in 1..(p - 1) /\ i <= p - 1
            BY <2>2, <4>2
          <5> QED
            BY <2>4, <4>1, <4>2, <5>1
        <4>3. CASE ~(i < p)
          <5>1. /\ i - (p - 1) \in 1..(Len(s) - p) /\ ~(i <= p - 1)
                /\ p + (i - (p - 1)) = i + 1
            BY <1>0, <2>2, <4>3
          <5> QED
            BY <2>5, <4>1, <4>3, <5>1
        <4> QED
          BY <4>2, <4>3
      <3> QED
        BY <3>1, <3>2, <3>3
    <2>7. Distinct(r)
      <3> SUFFICES ASSUME NEW i \in 1..(Len(s) - 1), NEW j \in 1..(Len(s) - 1), r[i] = r[j]
                   PROVE  i = j
        BY <2>6 DEF Distinct
      <3> DEFINE ii == IF i < p THEN i ELSE i + 1
                 jj == IF j < p THEN j ELSE j + 1
      <3>1. r[i] = s[ii] /\ r[j] = s[jj] /\ ii \in 1..Len(s) /\ jj \in 1..Len(s)
        BY <1>0, <2>2, <2>6
      <3>2. ii = jj
        BY <3>1 DEF Distinct
      <3> QED
        BY <1>0, <2>2, <3>2
    <2>8. Elements(r) = Elements(s) \ {k}
      <3>1. ASSUME NEW i \in 1..(Len(s) - 1) PROVE r[i] \in Elements(s) \ {k}
        <4> DEFINE ii == IF i < p THEN i ELSE i + 1
        <4>1. r[i] = s[ii] /\ ii \in 1..Len(s) /\ ii # p
          BY <1>0, <2>2, <2>6
        <4>2. s[ii] # k
          BY <2>2, <4>1 DEF Distinct
        <4> QED
          BY <4>1, <4>2 DEF Elements
      <3>2. ASSUME NEW i \in 1..Len(s), s[i] # k PROVE s[i] \in Elements(r)
        <4> DEFINE ii == IF i < p THEN i ELSE i - 1
        <4>1. i # p
          BY <2>2, <3>2
        <4>2. ii \in 1..(Len(s) - 1) /\ r[ii] = s[i]
          BY <1>0, <2>2, <2>6, <4>1
        <4> QED
          BY <2>6, <4>2 DEF Elements
      <3> QED
        BY <2>6, <3>1, <3>2 DEF Elements
    <2> QED
      BY <1>0, <2>6, <2>7, <2>8 DEF r
  <1> QED
    BY <1>1, <1>2

(* list.Remove(list.Back()). *)
LEMMA FrontFacts ==
  ASSUME NEW S, NEW s \in Seq(S), Distinct(s), Len(s) > 0
  PROVE  LET r == Front(s) IN
         /\ r \in Seq(S)
         /\ Distinct(r)
         /\ Elements(r) = Elements(s) \ {Last(s)}
         /\ Len(r) = Len(s) - 1
  <1> DEFINE r == Front(s)
  <1>0. Len(s) \in Nat
    BY LenProperties
  <1>1. /\ r \in Seq(S) /\ Len(r) = Len(s) - 1 /\ \A i \in 1..(Len(s) - 1) : r[i] = s[i]
    BY <1>0, SubSeqProperties DEF Front
  <1> HIDE DEF r
  <1>2. Distinct(r)
    BY <1>0, <1>1 DEF Distinct
  <1>3. Elements(r) = Elements(s) \ {Last(s)}
    <2>1. \A i \in 1..Len(s) : s[i] = Last(s) <=> i = Len(s)
      BY <1>0 DEF Distinct, Last
    <2>2. \A i \in 1..Len(s) : i # Len(s) <=> i \in 1..(Len(s) - 1)
      BY <1>0
    <2>3. \A i \in 1..(Len(s) - 1) : i \in 1..Len(s) /\ i # Len(s)
      BY <1>0
    <2> QED
      BY <1>1, <2>1, <2>2, <2>3 DEF Elements
  <1> QED
    BY <1>1, <1>2, <1>3 DEF r

(* list.PushFront of a new key. *)
LEMMA PushFacts ==
  ASSUME NEW S, NEW s \in Seq(S), Distinct(s), NEW k \in S, k \notin Elements(s)
  PROVE  LET r == <<k>> \o s IN
         /\ r \in Seq(S)
         /\ Distinct(r)
         /\ Elements(r) = Elements(s) \cup {k}
         /\ Len(r) = Len(s) + 1
  <1> DEFINE r == <<k>> \o s
  <1>0. Len(s) \in Nat
    BY LenProperties
  <1>1. <<k>> \in Seq(S) /\ Len(<<k>>) = 1 /\ <<k>>[1] = k
    OBVIOUS
  <1>2. /\ r \in Seq(S) /\ Len(r) = Len(s) + 1
        /\ \A i \in 1..(Len(s) + 1) : r[i] = IF i = 1 THEN k ELSE s[i - 1]
    BY <1>0, <1>1, ConcatProperties
  <1> HIDE DEF r
  <1>3. Distinct(r)
    <2> SUFFICES ASSUME NEW i \in 1..(Len(s) + 1), NEW j \in 1..(Len(s) + 1), r[i] = r[j]
                 PROVE  i = j
      BY <1>2 DEF Distinct
    <2>1. \A m \in 1..(Len(s) + 1) : m # 1 => m - 1 \in 1..Len(s) /\ r[m] = s[m - 1]
      BY <1>0, <1>2
    <2>2. \A m \in 1..(Len(s) + 1) : m # 1 => r[m] # k
      BY <2>1 DEF Elements
    <2>3. r[1] = k
      BY <1>0, <1>2
    <2>4. i # 1 /\ j # 1 => i - 1 = j - 1
      BY <2>1 DEF Distinct
    <2> QED
      BY <1>0, <2>2, <2>3, <2>4
  <1>4. Elements(r) = Elements(s) \cup {k}
    <2>1. \A m \in 1..(Len(s) + 1) : m # 1 => m - 1 \in 1..Len(s) /\ r[m] = s[m - 1]
      BY <1>0, <1>2
    <2>2. r[1] = k /\ 1 \in 1..(Len(s) + 1)
      BY <1>0, <1>2
    <2>3. ASSUME NEW i \in 1..Len(s) PROVE s[i] \in Elements(r)
      <3>1. i + 1 \in 1..(Len(s) + 1) /\ r[i + 1] = s[i]
        BY <1>0, <1>2
      <3> QED
        BY <1>2, <3>1 DEF Elements
    <2>4. ASSUME NEW m \in 1..(Len(s) + 1) PROVE r[m] \in Elements(s) \cup {k}
      BY <2>1, <2>2 DEF Elements
    <2>5. k \in Elements(r)
      BY <1>2, <2>2 DEF Elements
    <2> QED
      BY <1>2, <2>3, <2>4, <2>5 DEF Elements
  <1> QED
    BY <1>2, <1>3, <1>4 DEF r

(* A list without duplicates is as long as it has elements. *)
LEMMA DistinctLength ==
  ASSUME NEW S, NEW s \in Seq(S), Distinct(s)
  PROVE  Len(s) = Cardinality(Elements(s))
  <1>0. Len(s) \in Nat /\ s \in [1..Len(s) -> S] /\ DOMAIN s = 1..Len(s)
    BY LenProperties
  <1>1. s \in Bijection(1..Len(s), Elements(s))
    BY <1>0 DEF Bijection, Injection, Surjection, IsInjective, Distinct, Elements
  <1>2. ExistsBijection(1..Len(s), Elements(s))
    BY <1>1 DEF ExistsBijection
  <1>3. IsFiniteSet(1..Len(s)) /\ Cardinality(1..Len(s)) = Len(s)
    BY <1>0, FS_Interval
  <1> QED
    BY <1>2, <1>3, FS_Bijection

-----------------------------------------------------------------------------
(* The inductive invariant.                                                 *)

AnswersTo(b) == {b} \X (0..MaxWrites)

(* The list has each cached key once. *)
ListOK ==
    /\ lru \in Seq(Keys)
    /\ Distinct(lru)
    /\ Elements(lru) = DOMAIN items
    /\ Len(lru) <= MaxEntries

(* The current version of an answer, and the ones to come, are not replaced;  *)
(* the others were, in the past.                                            *)
HistoryOK ==
    /\ \A b \in Binds :
        /\ current[b] \in AnswersTo(b)
        /\ \A n \in current[b][2]..MaxWrites : replaced[<<b, n>>] = Never
    /\ \A v \in Versions : replaced[v] <= now

(* A row that may be served until exp. *)
Servable(v, exp) ==
    /\ v \in single
    /\ exp <= now + TTL + Jitter
    /\ replaced[v] # Never => exp <= replaced[v] + QueryTimeout + TTL + Jitter

ItemsOK ==
    \A k \in DOMAIN items :
        items[k].value \in Answers(k) /\ Servable(items[k].value, items[k].expiresAt)

(* An answer was current when, or after, its query began. *)
CallOK(c) ==
    /\ call[c].at \in {"query", "reply"} => call[c].started <= now
    /\ call[c].at = "reply" =>
          /\ call[c].answer \in AnswersTo(call[c].bind)
          /\ replaced[call[c].answer] # Never => call[c].started <= replaced[call[c].answer]
    /\ call[c].at = "set" =>
          call[c].answer \in AnswersTo(call[c].bind) /\ Servable(call[c].answer, call[c].exp)

CInv ==
    /\ TypeOK
    /\ ListOK
    /\ HistoryOK
    /\ ItemsOK
    /\ \A c \in Callers : CallOK(c)

-----------------------------------------------------------------------------
(* The steps.                                                               *)

(* The fields of a call, and the numbers in them. *)
LEMMA CallFacts ==
  ASSUME TypeOK, NEW c \in Callers
  PROVE  /\ now \in Nat
         /\ call[c].at \in {"idle", "query", "reply", "set"}
         /\ call[c].at # "idle" => call[c].bind \in Binds
         /\ call[c].at \in {"query", "reply"} => call[c].started \in Nat
         /\ call[c].at \in {"query", "reply"} => call[c].started \in Times
         /\ call[c].at \in {"reply", "set"} => call[c].answer \in Versions
         /\ call[c].at = "set" => call[c].exp \in Expiries /\ call[c].exp \in Nat
  <1>1. Times \subseteq Nat /\ Expiries \subseteq Nat
    BY CacheAssumption DEF Times, Expiries
  <1>2. call[c] \in Calls /\ now \in Times
    BY DEF TypeOK
  <1>3. /\ call[c].at \in {"idle", "query", "reply", "set"}
        /\ call[c].at # "idle" => call[c].bind \in Binds
        /\ call[c].at \in {"query", "reply"} => call[c].started \in Times
        /\ call[c].at \in {"reply", "set"} => call[c].answer \in Versions
        /\ call[c].at = "set" => call[c].exp \in Expiries
    BY <1>2 DEF Calls, Idle
  <1> QED
    BY <1>1, <1>2, <1>3

(* What a step does to the clock and to the database: time goes on, and a     *)
(* version is replaced once, now.                                           *)
Later ==
    /\ now \in Nat /\ now' \in Nat /\ now <= now'
    /\ single \subseteq single'
    /\ \A v \in Versions :
        /\ replaced[v] \in Int /\ replaced'[v] \in Int
        /\ replaced'[v] = replaced[v] \/ (replaced[v] = Never /\ replaced'[v] = now)

(* A version of b's answer, taken apart. *)
LEMMA AnswerFacts ==
  ASSUME NEW b \in Binds, NEW v \in AnswersTo(b)
  PROVE  /\ v \in Versions /\ v[2] \in 0..MaxWrites /\ v = <<b, v[2]>>
         /\ v \in Answers(MakeCacheKey(b))
  <1>1. v \in Versions /\ v[1] = b /\ v[2] \in 0..MaxWrites /\ v = <<b, v[2]>>
    BY DEF AnswersTo, Versions
  <1> QED
    BY <1>1 DEF Answers

(* Every step is one of those, and keeps the history. *)
LEMMA DatabaseStep ==
  ASSUME CInv, [Next]_vars
  PROVE  /\ Later
         /\ HistoryOK'
         /\ now' \in Times
         /\ current' \in [Binds -> Versions]
         /\ single' \subseteq Versions
         /\ replaced' \in [Versions -> Times \cup {Never}]
  <1> USE CacheAssumption
  <1>0. TypeOK /\ HistoryOK
    BY DEF CInv
  <1>1. now \in Nat /\ \A v \in Versions : replaced[v] \in Int
    BY <1>0 DEF TypeOK, Times, Never
  <1>2. CASE UNCHANGED <<now, dbVars>>
    BY <1>0, <1>1, <1>2 DEF TypeOK, HistoryOK, Later, dbVars
  <1>3. CASE Tick
    <2>1. now' = now + 1 /\ now' \in Times /\ UNCHANGED dbVars
      BY <1>0, <1>1, <1>3 DEF Tick, TypeOK, Times
    <2>2. HistoryOK'
      BY <1>0, <1>1, <2>1 DEF HistoryOK, dbVars
    <2> QED
      BY <1>0, <1>1, <2>1, <2>2 DEF TypeOK, Later, dbVars
  <1>4. ASSUME NEW k \in Binds, Write(k)
        PROVE  /\ Later
               /\ HistoryOK'
               /\ now' \in Times
               /\ current' \in [Binds -> Versions]
               /\ single' \subseteq Versions
               /\ replaced' \in [Versions -> Times \cup {Never}]
    <2> DEFINE old == current[k]
               n == old[2]
               v == <<k, n + 1>>
    <2>1. /\ v \in Versions
          /\ current' = [current EXCEPT ![k] = v]
          /\ single' \in {single, single \cup {v}}
          /\ replaced' = [replaced EXCEPT ![old] = now]
          /\ now' = now
      BY <1>4 DEF Write
    <2>2. old \in Versions /\ n \in 0..MaxWrites /\ old = <<k, n>>
      BY <1>0, AnswerFacts DEF HistoryOK
    <2>3. n + 1 \in 0..MaxWrites
      BY <2>1 DEF Versions
    <2>4. replaced[old] = Never
      <3>1. n \in current[k][2]..MaxWrites
        BY <2>2
      <3>2. replaced[<<k, n>>] = Never
        BY <1>0, <3>1 DEF HistoryOK
      <3> HIDE DEF old, n
      <3> QED
        BY <2>2, <3>2
    <2> HIDE DEF old, n
    <2>5. /\ replaced'[old] = now
          /\ \A w \in Versions \ {old} : replaced'[w] = replaced[w]
          /\ replaced' \in [Versions -> Times \cup {Never}]
      BY <1>0, <2>1, <2>2 DEF TypeOK
    <2>6. /\ current'[k] = v
          /\ \A j \in Binds \ {k} : current'[j] = current[j]
          /\ current' \in [Binds -> Versions]
      BY <1>0, <2>1 DEF TypeOK
    <2>7. Later
      BY <1>1, <2>1, <2>2, <2>4, <2>5 DEF Later
    <2>8. HistoryOK'
      <3>1. \A w \in Versions : replaced'[w] <= now'
        BY <1>0, <1>1, <2>1, <2>5 DEF HistoryOK
      <3>2. ASSUME NEW j \in Binds
            PROVE  /\ current'[j] \in AnswersTo(j)
                   /\ \A m \in current'[j][2]..MaxWrites : replaced'[<<j, m>>] = Never
        <4>1. CASE j = k
          <5>1. current'[j] \in AnswersTo(j) /\ current'[j][2] = n + 1
            BY <2>3, <2>6, <4>1 DEF AnswersTo
          <5>2. ASSUME NEW m \in (n + 1)..MaxWrites PROVE replaced'[<<k, m>>] = Never
            <6>1. m \in n..MaxWrites /\ m # n /\ <<k, m>> \in Versions
              BY <2>2 DEF Versions
            <6>2. <<k, m>> # old
              BY <2>2, <6>1
            <6>3. replaced[<<k, m>>] = Never
              BY <1>0, <6>1 DEF HistoryOK, n, old
            <6> QED
              BY <2>5, <6>1, <6>2, <6>3
          <5> QED
            BY <4>1, <5>1, <5>2
        <4>2. CASE j # k
          <5>1. current[j] \in AnswersTo(j) /\ current'[j] = current[j]
            BY <1>0, <2>6, <4>2 DEF HistoryOK
          <5>2. ASSUME NEW m \in current[j][2]..MaxWrites PROVE replaced'[<<j, m>>] = Never
            <6>1. <<j, m>> \in Versions
              BY <5>1, AnswerFacts DEF Versions
            <6>2. <<j, m>> # old
              BY <2>2, <4>2
            <6>3. replaced[<<j, m>>] = Never
              BY <1>0 DEF HistoryOK
            <6> QED
              BY <2>5, <6>1, <6>2, <6>3
          <5> QED
            BY <5>1, <5>2
        <4> QED
          BY <4>1, <4>2
      <3> QED
        BY <3>1, <3>2 DEF HistoryOK
    <2>9. now' \in Times /\ single' \subseteq Versions
      BY <1>0, <2>1 DEF TypeOK
    <2> QED
      BY <2>5, <2>6, <2>7, <2>8, <2>9
  <1>5. ASSUME NEW c \in Callers, NEW b \in Binds, GetHit(c, b) \/ GetMiss(c, b)
        PROVE  UNCHANGED <<now, dbVars>>
    BY <1>5 DEF GetHit, GetMiss
  <1>6. ASSUME NEW c \in Callers,
               Read(c) \/ QueryError(c) \/ ReplyUncached(c) \/ ReplySingle(c) \/ Set(c)
        PROVE  UNCHANGED <<now, dbVars>>
    BY <1>6 DEF Read, QueryError, ReplyUncached, ReplySingle, Set
  <1>7. CASE UNCHANGED vars
    BY <1>2, <1>7 DEF vars
  <1> QED
    BY <1>2, <1>3, <1>4, <1>5, <1>6, <1>7 DEF Next

(* A row stays servable: if it is replaced later, that is later than the       *)
(* moment its expiry was drawn.                                             *)
LEMMA ServableStep ==
  ASSUME Later, NEW v \in Versions, NEW exp \in Nat, Servable(v, exp)
  PROVE  Servable(v, exp)'
  <1>1. /\ TTL \in Nat /\ Jitter \in Nat /\ QueryTimeout \in Nat
        /\ now \in Nat /\ now' \in Nat /\ now <= now'
        /\ replaced[v] \in Int /\ replaced'[v] \in Int
    BY CacheAssumption DEF Later
  <1>2. v \in single' /\ exp <= now + TTL + Jitter
    BY DEF Servable, Later
  <1>3. exp <= now' + TTL + Jitter
    BY <1>1, <1>2
  <1>4. replaced'[v] = replaced[v] \/ replaced'[v] = now
    BY DEF Later
  <1>5. replaced'[v] # Never => exp <= replaced'[v] + QueryTimeout + TTL + Jitter
    <2>1. CASE replaced'[v] = replaced[v]
      BY <2>1 DEF Servable
    <2>2. CASE replaced'[v] = now
      BY <1>1, <1>2, <2>2
    <2> QED
      BY <1>4, <2>1, <2>2
  <1> QED
    BY <1>2, <1>3, <1>5 DEF Servable

(* A call that does not move stays in order. *)
LEMMA CallKept ==
  ASSUME CInv, Later, NEW c \in Callers, call'[c] = call[c]
  PROVE  CallOK(c)'
  <1>1. TypeOK /\ CallOK(c)
    BY DEF CInv
  <1>2. call[c].at \in {"query", "reply"} => call[c].started <= now'
    BY <1>1, CallFacts DEF CallOK, Later
  <1>3. call[c].at = "reply" /\ replaced'[call[c].answer] # Never
          => call[c].started <= replaced'[call[c].answer]
    BY <1>1, CallFacts DEF CallOK, Later
  <1>4. call[c].at = "set" => Servable(call[c].answer, call[c].exp)'
    <2> SUFFICES ASSUME call[c].at = "set" PROVE Servable(call[c].answer, call[c].exp)'
      OBVIOUS
    <2>1. PICK v \in Versions, e \in Nat : v = call[c].answer /\ e = call[c].exp
      BY <1>1, CallFacts
    <2>2. Servable(v, e) /\ call'[c].answer = v /\ call'[c].exp = e
      BY <1>1, <2>1 DEF CallOK
    <2>3. Servable(v, e)'
      BY <2>2, ServableStep
    <2> QED
      BY <2>2, <2>3 DEF Servable
  <1> QED
    BY <1>1, <1>2, <1>3, <1>4 DEF CallOK

(* A step of a caller: the others' calls stay in order. *)
LEMMA CallersStep ==
  ASSUME CInv, Later, NEW c \in Callers, NEW x \in Calls,
         call' = [call EXCEPT ![c] = x], CallOK(c)'
  PROVE  call' \in [Callers -> Calls] /\ \A d \in Callers : CallOK(d)'
  <1>1. call \in [Callers -> Calls]
    BY DEF CInv, TypeOK
  <1>2. \A d \in Callers : d # c => call'[d] = call[d]
    BY <1>1
  <1> QED
    BY <1>1, <1>2, CallKept

(* What is cached, and not removed or overwritten, stays as it is. *)
LEMMA ItemKept ==
  ASSUME CInv, Later, NEW k \in DOMAIN items, k \in DOMAIN items', items'[k] = items[k]
  PROVE  /\ items'[k].value \in Answers(k)
         /\ Servable(items[k].value, items[k].expiresAt)'
         /\ items'[k] \in [value : Answers(k), expiresAt : Expiries]
  <1>1. /\ items[k].value \in Answers(k) /\ Servable(items[k].value, items[k].expiresAt)
        /\ k \in Keys /\ items[k] \in [value : Answers(k), expiresAt : Expiries]
    BY DEF CInv, ItemsOK, TypeOK
  <1>2. PICK v \in Versions, e \in Nat : v = items[k].value /\ e = items[k].expiresAt
    <2>1. items[k].value \in Versions
      BY <1>1 DEF Answers
    <2>2. items[k].expiresAt \in Nat
      BY <1>1, CacheAssumption DEF Expiries
    <2> QED
      BY <2>1, <2>2
  <1>3. Servable(v, e) /\ items'[k].value = v /\ items'[k].expiresAt = e
    BY <1>1, <1>2
  <1>4. Servable(v, e)'
    BY <1>3, ServableStep
  <1> QED
    BY <1>1, <1>3, <1>4 DEF Servable

(* The same for all of the cache, if nothing in it is overwritten. *)
LEMMA ItemsKept ==
  ASSUME CInv, Later, DOMAIN items' \subseteq DOMAIN items,
         \A k \in DOMAIN items' : items'[k] = items[k]
  PROVE  /\ ItemsOK'
         /\ DOMAIN items' \subseteq Keys
         /\ \A k \in DOMAIN items' :
               items'[k] \in [value : Answers(k), expiresAt : Expiries]
  <1>1. DOMAIN items \subseteq Keys
    BY DEF CInv, TypeOK
  <1> QED
    BY <1>1, ItemKept DEF ItemsOK

(* Initially the cache is empty. *)
LEMMA InitCInv == Init => CInv
  <1> SUFFICES ASSUME Init PROVE CInv
    OBVIOUS
  <1> USE CacheAssumption
  <1>1. now = 0 /\ lru = <<>> /\ DOMAIN items = {} /\ \A c \in Callers : call[c] = Idle
    BY DEF Init
  <1>2. \A b \in Binds : <<b, 0>> \in Versions /\ <<b, 0>> \in AnswersTo(b)
    BY DEF Versions, AnswersTo
  <1>3. TypeOK
    <2>1. now \in Times
      BY <1>1 DEF Times
    <2>2. current \in [Binds -> Versions] /\ single \subseteq Versions
      BY <1>2 DEF Init, Versions
    <2>3. replaced \in [Versions -> Times \cup {Never}]
      BY DEF Init
    <2>4. call \in [Callers -> Calls]
      BY DEF Init, Calls
    <2> QED
      BY <1>1, <2>1, <2>2, <2>3, <2>4 DEF TypeOK
  <1>4. ListOK
    <2>1. lru \in Seq(Keys) /\ Len(lru) = 0
      BY <1>1, EmptySeq
    <2> QED
      BY <1>1, <2>1 DEF ListOK, Distinct, Elements
  <1>5. HistoryOK
    <2>1. \A b \in Binds : current[b] = <<b, 0>>
      BY DEF Init
    <2>2. \A v \in Versions : replaced[v] = Never
      BY DEF Init
    <2>3. \A b \in Binds, n \in 0..MaxWrites : <<b, n>> \in Versions
      BY DEF Versions
    <2>4. \A b \in Binds : current[b] \in AnswersTo(b) /\ current[b][2] = 0
      BY <1>2, <2>1
    <2>5. \A v \in Versions : replaced[v] <= now
      BY <1>1, <2>2 DEF Never
    <2> QED
      BY <2>2, <2>3, <2>4, <2>5 DEF HistoryOK
  <1>6. ItemsOK /\ \A c \in Callers : CallOK(c)
    BY <1>1 DEF ItemsOK, CallOK, Idle
  <1> QED
    BY <1>3, <1>4, <1>5, <1>6 DEF CInv

(* Every step preserves the invariant. *)
LEMMA CInvStep ==
  ASSUME CInv, [Next]_vars
  PROVE  CInv'
  <1> USE CacheAssumption
  <1>0. /\ TypeOK /\ ListOK /\ HistoryOK /\ ItemsOK
        /\ Len(lru) \in Nat
    BY LenProperties DEF CInv, ListOK
  <1>1. /\ Later
        /\ HistoryOK'
        /\ now' \in Times
        /\ current' \in [Binds -> Versions]
        /\ single' \subseteq Versions
        /\ replaced' \in [Versions -> Times \cup {Never}]
    BY DatabaseStep
  <1>2. ASSUME ListOK', ItemsOK', DOMAIN items' \subseteq Keys,
               \A k \in DOMAIN items' :
                  items'[k] \in [value : Answers(k), expiresAt : Expiries],
               call' \in [Callers -> Calls], \A d \in Callers : CallOK(d)'
        PROVE  CInv'
    BY <1>1, <1>2 DEF CInv, TypeOK
  <1>3. ASSUME UNCHANGED cacheVars
        PROVE  /\ ListOK' /\ ItemsOK' /\ DOMAIN items' \subseteq Keys
               /\ \A k \in DOMAIN items' :
                     items'[k] \in [value : Answers(k), expiresAt : Expiries]
    <2>1. ListOK'
      BY <1>0, <1>3 DEF ListOK, cacheVars
    <2> QED
      BY <1>1, <1>3, <2>1, ItemsKept DEF cacheVars
  <1>4. ASSUME UNCHANGED call
        PROVE  call' \in [Callers -> Calls] /\ \A d \in Callers : CallOK(d)'
    BY <1>0, <1>1, <1>4, CallKept DEF TypeOK
  <1>5. CASE Tick
    BY <1>2, <1>3, <1>4, <1>5 DEF Tick
  <1>6. ASSUME NEW b \in Binds, Write(b) PROVE CInv'
    BY <1>2, <1>3, <1>4, <1>6 DEF Write
  <1>7. CASE UNCHANGED vars
    BY <1>2, <1>3, <1>4, <1>7 DEF vars
  <1>8. ASSUME NEW c \in Callers, NEW b \in Binds, GetHit(c, b) PROVE CInv'
    <2> DEFINE k == MakeCacheKey(b)
    <2>0. k \in Keys
      BY DEF Keys
    <2>1. /\ k \in DOMAIN items /\ lru' = <<k>> \o RemoveFirst(lru, k) /\ UNCHANGED <<items, call>>
      BY <1>8 DEF GetHit, Without
    <2> HIDE DEF k
    <2> DEFINE r == RemoveFirst(lru, k)
    <2>2. /\ r \in Seq(Keys) /\ Distinct(r) /\ Elements(r) = Elements(lru) \ {k}
          /\ Len(r) = Len(lru) - 1
      BY <1>0, <2>1, RemoveFacts DEF ListOK
    <2> HIDE DEF r
    <2> DEFINE q == <<k>> \o r
    <2>3. /\ q \in Seq(Keys) /\ Distinct(q) /\ Elements(q) = Elements(r) \cup {k}
          /\ Len(q) = Len(r) + 1
      BY <2>0, <2>2, PushFacts
    <2>4. lru' = q
      BY <2>1 DEF r
    <2> HIDE DEF q
    <2>5. ListOK'
      <3>1. Elements(q) = DOMAIN items /\ Len(q) = Len(lru)
        <4>1. Elements(lru) = DOMAIN items
          BY <1>0 DEF ListOK
        <4>2. (Elements(lru) \ {k}) \cup {k} = Elements(lru)
          BY <2>1, <4>1
        <4>3. Elements(q) = DOMAIN items
          BY <2>2, <2>3, <4>1, <4>2
        <4>4. \A n \in Nat : (n - 1) + 1 = n
          OBVIOUS
        <4>5. Len(q) = Len(lru)
          BY <1>0, <2>2, <2>3, <4>4, Zenon
        <4> QED
          BY <4>3, <4>5
      <3> QED
        BY <1>0, <2>1, <2>3, <2>4, <3>1 DEF ListOK
    <2> QED
      BY <1>1, <1>2, <1>4, <2>1, <2>5, ItemsKept
  <1>9. ASSUME NEW c \in Callers, NEW b \in Binds, GetMiss(c, b) PROVE CInv'
    <2> DEFINE k == MakeCacheKey(b)
               x == [at |-> "query", bind |-> b, started |-> now]
    <2>1. /\ items' = [j \in DOMAIN items \ {k} |-> items[j]]
          /\ lru' = RemoveFirst(lru, k)
          /\ call' = [call EXCEPT ![c] = x]
          /\ now' = now
      BY <1>9 DEF GetMiss, Without
    <2> HIDE DEF k
    <2>2. /\ lru' \in Seq(Keys) /\ Distinct(lru)' /\ Elements(lru)' = Elements(lru) \ {k}
          /\ Len(lru') <= Len(lru) /\ Len(lru') \in Nat
      <3> DEFINE r == RemoveFirst(lru, k)
      <3>1. /\ r \in Seq(Keys) /\ Distinct(r) /\ Elements(r) = Elements(lru) \ {k}
            /\ Len(r) <= Len(lru)
        BY <1>0, RemoveFacts DEF ListOK
      <3> HIDE DEF r
      <3>2. lru' = r /\ Len(r) \in Nat
        BY <2>1, <3>1, LenProperties DEF r
      <3> QED
        BY <3>1, <3>2 DEF Distinct, Elements
    <2>3. DOMAIN items' = DOMAIN items \ {k} /\ \A j \in DOMAIN items' : items'[j] = items[j]
      BY <2>1
    <2>4. ListOK'
      BY <1>0, <2>2, <2>3 DEF ListOK
    <2>5. x \in Calls
      BY <1>0 DEF Calls, TypeOK
    <2>6. CallOK(c)'
      <3>1. call'[c] = x
        BY <1>0, <2>1 DEF TypeOK
      <3> QED
        BY <1>0, <2>1, <3>1, CallFacts DEF CallOK
    <2> HIDE DEF x
    <2>7. call' \in [Callers -> Calls] /\ \A d \in Callers : CallOK(d)'
      BY <1>1, <2>1, <2>5, <2>6, CallersStep
    <2> QED
      BY <1>1, <1>2, <2>3, <2>4, <2>7, ItemsKept
  <1>10. ASSUME NEW c \in Callers, Read(c) PROVE CInv'
    <2> DEFINE b == call[c].bind
               x == [at |-> "reply", bind |-> b, started |-> call[c].started, answer |-> current[b]]
    <2>1. /\ call[c].at = "query" /\ call' = [call EXCEPT ![c] = x]
          /\ UNCHANGED <<now, dbVars, cacheVars>>
      BY <1>10 DEF Read
    <2>2. b \in Binds /\ call[c].started \in Times /\ call[c].started <= now
      BY <1>0, <2>1, CallFacts DEF CInv, CallOK
    <2>3. current[b] \in AnswersTo(b) /\ current[b] \in Versions /\ replaced[current[b]] = Never
      <3>1. current[b] \in AnswersTo(b)
        BY <1>0, <2>2 DEF HistoryOK
      <3>2. /\ current[b] \in Versions /\ current[b][2] \in 0..MaxWrites
            /\ current[b] = <<b, current[b][2]>>
        BY <2>2, <3>1, AnswerFacts
      <3>3. current[b][2] \in current[b][2]..MaxWrites
        BY <3>2
      <3>4. replaced[<<b, current[b][2]>>] = Never
        BY <1>0, <2>2, <3>3 DEF HistoryOK
      <3> QED
        BY <3>1, <3>2, <3>4
    <2>4. x \in Calls
      BY <2>2, <2>3 DEF Calls
    <2>5. CallOK(c)'
      <3>1. call'[c] = x
        BY <1>0, <2>1 DEF TypeOK
      <3> QED
        BY <2>1, <2>2, <2>3, <3>1 DEF CallOK, dbVars
    <2> HIDE DEF x
    <2>6. call' \in [Callers -> Calls] /\ \A d \in Callers : CallOK(d)'
      BY <1>1, <2>1, <2>4, <2>5, CallersStep
    <2> QED
      BY <1>2, <1>3, <2>1, <2>6
  <1>11. ASSUME NEW c \in Callers, QueryError(c) \/ ReplyUncached(c) PROVE CInv'
    <2>1. call' = [call EXCEPT ![c] = Idle] /\ UNCHANGED cacheVars
      BY <1>11 DEF QueryError, ReplyUncached
    <2>2. call'[c] = Idle
      BY <1>0, <2>1 DEF TypeOK
    <2>3. CallOK(c)' /\ Idle \in Calls
      BY <2>2 DEF CallOK, Idle, Calls
    <2>4. call' \in [Callers -> Calls] /\ \A d \in Callers : CallOK(d)'
      BY <1>1, <2>1, <2>3, CallersStep
    <2> QED
      BY <1>2, <1>3, <2>1, <2>4
  <1>12. ASSUME NEW c \in Callers, ReplySingle(c) PROVE CInv'
    <2>1. PICK j \in -Jitter..Jitter :
            call' = [call EXCEPT ![c] = [at |-> "set", bind |-> call[c].bind,
                                         answer |-> call[c].answer, exp |-> now + TTL + j]]
      BY <1>12 DEF ReplySingle
    <2> DEFINE v == call[c].answer
               e == now + TTL + j
               x == [at |-> "set", bind |-> call[c].bind, answer |-> v, exp |-> e]
    <2>2. /\ call[c].at = "reply" /\ v \in single
          /\ now <= call[c].started + QueryTimeout
          /\ UNCHANGED <<now, dbVars, cacheVars>>
      BY <1>12 DEF ReplySingle, InTime
    <2>3. /\ call[c].bind \in Binds /\ call[c].started \in Nat /\ v \in Versions
          /\ v \in AnswersTo(call[c].bind)
          /\ replaced[v] # Never => call[c].started <= replaced[v]
          /\ now \in Nat /\ now <= MaxTime
      BY <1>0, <2>2, CallFacts DEF CInv, CallOK, TypeOK, Times
    <2>4. e \in Expiries /\ e <= now + TTL + Jitter
      BY <2>3 DEF Expiries
    <2>5. x \in Calls
      BY <2>3, <2>4 DEF Calls
    <2>6. replaced[v] # Never => e <= replaced[v] + QueryTimeout + TTL + Jitter
      <3>1. replaced[v] \in Int
        BY <1>1, <2>3 DEF Later
      <3>2. j \in Int /\ j <= Jitter /\ TTL \in Nat /\ QueryTimeout \in Nat /\ Jitter \in Nat
        OBVIOUS
      <3> QED
        BY <2>2, <2>3, <3>1, <3>2
    <2>7. CallOK(c)'
      <3>1. call'[c] = x
        BY <1>0, <2>1 DEF TypeOK
      <3>2. call'[c].at = "set" /\ call'[c].answer = v /\ call'[c].exp = e
            /\ call'[c].bind = call[c].bind
        BY <3>1
      <3> QED
        BY <2>2, <2>3, <2>4, <2>6, <3>2 DEF CallOK, Servable, dbVars
    <2> HIDE DEF x
    <2>8. call' \in [Callers -> Calls] /\ \A d \in Callers : CallOK(d)'
      <3>1. call' = [call EXCEPT ![c] = x]
        BY <2>1 DEF x
      <3> QED
        BY <1>1, <2>5, <2>7, <3>1, CallersStep
    <2> QED
      BY <1>2, <1>3, <2>2, <2>8
  <1>13. ASSUME NEW c \in Callers, Set(c) PROVE CInv'
    <2> DEFINE b == call[c].bind
               k == MakeCacheKey(b)
               new == [value |-> call[c].answer, expiresAt |-> call[c].exp]
               kept == DOMAIN items \ Evicted(k)
    <2>1. /\ call[c].at = "set"
          /\ items' = [j \in kept \cup {k} |-> IF j = k THEN new ELSE items[j]]
          /\ lru' = <<k>> \o Remaining(k)
          /\ call' = [call EXCEPT ![c] = Idle]
          /\ UNCHANGED <<now, dbVars>>
      BY <1>13 DEF Set
    <2>2. /\ k \in Keys /\ call[c].exp \in Expiries
          /\ call[c].answer \in Answers(k) /\ Servable(call[c].answer, call[c].exp)
      <3>1. /\ b \in Binds /\ call[c].exp \in Expiries
            /\ call[c].answer \in AnswersTo(b) /\ Servable(call[c].answer, call[c].exp)
        BY <1>0, <2>1, CallFacts DEF CInv, CallOK
      <3> HIDE DEF b
      <3> QED
        BY <3>1, AnswerFacts DEF Keys
    <2> HIDE DEF k, kept
    <2>3. DOMAIN items' = kept \cup {k} /\ items'[k] = new
          /\ \A j \in kept \ {k} : items'[j] = items[j]
      BY <2>1
    <2>4. /\ Remaining(k) \in Seq(Keys) /\ Distinct(Remaining(k))
          /\ Elements(Remaining(k)) = kept \ {k}
          /\ Len(Remaining(k)) < MaxEntries
      <3>1. CASE Evicted(k) # {}
        <4>1. /\ k \notin DOMAIN items /\ Len(lru) >= MaxEntries
              /\ Evicted(k) = {Last(lru)} /\ Remaining(k) = Front(lru)
          BY <3>1 DEF Evicted, Remaining
        <4>2. /\ Front(lru) \in Seq(Keys) /\ Distinct(Front(lru))
              /\ Elements(Front(lru)) = Elements(lru) \ {Last(lru)}
              /\ Len(Front(lru)) = Len(lru) - 1
          BY <1>0, <4>1, FrontFacts DEF ListOK
        <4> QED
          BY <1>0, <4>1, <4>2 DEF ListOK, kept
      <3>2. CASE Evicted(k) = {}
        <4>1. Remaining(k) = RemoveFirst(lru, k) /\ kept = DOMAIN items
          BY <3>2 DEF Remaining, Without, kept
        <4> DEFINE r == RemoveFirst(lru, k)
        <4>2. /\ r \in Seq(Keys) /\ Distinct(r) /\ Elements(r) = Elements(lru) \ {k}
              /\ Len(r) <= Len(lru) /\ (k \in Elements(lru) => Len(r) = Len(lru) - 1)
          BY <1>0, RemoveFacts DEF ListOK
        <4>3. k \in DOMAIN items \/ Len(lru) < MaxEntries
          BY <1>0, <3>2 DEF Evicted
        <4>4. Len(r) \in Nat
          BY <4>2, LenProperties
        <4> HIDE DEF r
        <4>5. Len(r) < MaxEntries
          BY <1>0, <4>2, <4>3, <4>4 DEF ListOK
        <4> QED
          BY <1>0, <4>1, <4>2, <4>5 DEF ListOK, r
      <3> QED
        BY <3>1, <3>2
    <2>5. ListOK'
      <3> DEFINE r == Remaining(k)
                 q == <<k>> \o r
      <3>1. Len(r) \in Nat
        BY <2>4, LenProperties
      <3>2. r \in Seq(Keys) /\ Distinct(r) /\ Elements(r) = kept \ {k} /\ Len(r) < MaxEntries
        BY <2>4
      <3> HIDE DEF r
      <3>3. /\ q \in Seq(Keys) /\ Distinct(q) /\ Elements(q) = Elements(r) \cup {k}
            /\ Len(q) = Len(r) + 1
        BY <2>2, <3>2, PushFacts
      <3>4. lru' = q
        BY <2>1 DEF r
      <3> HIDE DEF q
      <3>5. Elements(q) = kept \cup {k} /\ Len(q) <= MaxEntries
        BY <3>1, <3>2, <3>3
      <3> QED
        BY <2>3, <3>3, <3>4, <3>5 DEF ListOK
    <2>6. ASSUME NEW j \in DOMAIN items'
          PROVE  /\ items'[j].value \in Answers(j)
                 /\ Servable(items[j].value, items[j].expiresAt)'
                 /\ items'[j] \in [value : Answers(j), expiresAt : Expiries]
      <3>1. CASE j = k
        <4>1. items'[j].value = call[c].answer /\ items'[j].expiresAt = call[c].exp
          BY <2>3, <3>1
        <4>2. Servable(items[j].value, items[j].expiresAt)'
          BY <2>1, <2>2, <4>1 DEF Servable, dbVars
        <4> QED
          BY <2>2, <2>3, <3>1, <4>1, <4>2
      <3>2. CASE j # k
        <4>1. j \in DOMAIN items /\ items'[j] = items[j]
          BY <2>3, <3>2 DEF kept
        <4> QED
          BY <1>1, <4>1, ItemKept
      <3> QED
        BY <3>1, <3>2
    <2>7. ItemsOK' /\ DOMAIN items' \subseteq Keys
      <3>1. DOMAIN items \subseteq Keys
        BY <1>0 DEF TypeOK
      <3> QED
        BY <2>2, <2>3, <2>6, <3>1 DEF ItemsOK, kept
    <2>8. call' \in [Callers -> Calls] /\ \A d \in Callers : CallOK(d)'
      <3>1. call'[c] = Idle
        BY <1>0, <2>1 DEF TypeOK
      <3>2. CallOK(c)' /\ Idle \in Calls
        BY <3>1 DEF CallOK, Idle, Calls
      <3> QED
        BY <1>1, <2>1, <3>2, CallersStep
    <2> QED
      BY <1>2, <2>5, <2>6, <2>7, <2>8
  <1> QED
    BY <1>5, <1>6, <1>7, <1>8, <1>9, <1>10, <1>11, <1>12, <1>13 DEF Next

(* The invariant holds throughout. *)
LEMMA CacheInvariant == Spec => []CInv
  <1>1. CInv /\ [Next]_vars => CInv'
    BY CInvStep
  <1> QED
    BY InitCInv, <1>1, PTL DEF Spec

-----------------------------------------------------------------------------
(* The theorems.                                                            *)

(* TypeOK: under a key the cache holds an answer to a bind with that key. *)
THEOREM TypeCorrect == Spec => []TypeOK
  <1>1. CInv => TypeOK
    BY DEF CInv
  <1> QED
    BY <1>1, CacheInvariant, PTL

(* CacheConsistent: the map and the list of Cache hold the same keys, each once, *)
(* and never more than maxEntries, however Get and Set interleave.           *)
THEOREM MapAndListAgree == Spec => []CacheConsistent
  <1>1. CInv => CacheConsistent
    <2> SUFFICES ASSUME CInv PROVE CacheConsistent
      OBVIOUS
    <2>1. ListOK
      BY DEF CInv
    <2>2. ToSet(lru) = Elements(lru)
      BY <2>1, LenProperties DEF ToSet, Elements, ListOK
    <2>3. Len(lru) = Cardinality(Elements(lru))
      BY <2>1, DistinctLength DEF ListOK
    <2> QED
      BY <2>1, <2>2, <2>3 DEF CacheConsistent, ListOK
  <1> QED
    BY <1>1, CacheInvariant, PTL

(* OnlySingleRows: cachedLookup.Resolve caches results of exactly one row. *)
THEOREM CachesSingleRows == Spec => []OnlySingleRows
  <1>1. CInv => OnlySingleRows
    BY DEF CInv, ItemsOK, Servable, OnlySingleRows
  <1> QED
    BY <1>1, CacheInvariant, PTL

(* BoundedStaleness: an entry that Get serves was overwritten at most one query *)
(* timeout and one jittered TTL ago.                                        *)
THEOREM StalenessBounded == Spec => []BoundedStaleness
  <1>1. CInv => BoundedStaleness
    <2> SUFFICES ASSUME CInv, NEW k \in DOMAIN items, Fresh(k),
                        replaced[items[k].value] # Never
                 PROVE  now <= replaced[items[k].value] + QueryTimeout + TTL + Jitter
      BY DEF BoundedStaleness
    <2>1. k \in Keys /\ TypeOK /\ items[k].value \in Answers(k)
          /\ items[k].expiresAt <= replaced[items[k].value] + QueryTimeout + TTL + Jitter
      BY DEF CInv, TypeOK, ItemsOK, Servable
    <2>2. /\ items[k].value \in Versions /\ items[k].expiresAt \in Nat /\ now \in Nat
      BY <2>1, CacheAssumption DEF Answers, TypeOK, Expiries, Times
    <2>3. replaced[items[k].value] \in Int
      BY <2>1, <2>2, CacheAssumption DEF TypeOK, Times, Never
    <2> QED
      BY <2>1, <2>2, <2>3, CacheAssumption DEF Fresh
  <1> QED
    BY <1>1, CacheInvariant, PTL

(* The key of a bind without separators in its values is that of no other bind. *)
NoCollision ==
    \A a, b \in Binds : Unmistakable(b) /\ MakeCacheKey(a) = MakeCacheKey(b) => a = b

(* ServesOwnBind: as long as MakeCacheKey (cache.go:47) tells such binds from all *)
(* others in use, Resolve is served answers to its own bind, whatever the      *)
(* interleaving, eviction and expiry.                                        *)
THEOREM OwnAnswers == NoCollision => (Spec => []ServesOwnBind)
  <1> SUFFICES ASSUME NoCollision PROVE Spec => []ServesOwnBind
    OBVIOUS
  <1>1. CInv => ServesOwnBind
    <2> SUFFICES ASSUME CInv, NEW b \in Binds, Unmistakable(b),
                        MakeCacheKey(b) \in DOMAIN items
                 PROVE  items[MakeCacheKey(b)].value[1] = b
      BY DEF ServesOwnBind
    <2> DEFINE v == items[MakeCacheKey(b)].value
    <2>1. v \in Answers(MakeCacheKey(b))
      BY DEF CInv, ItemsOK
    <2>2. v[1] \in Binds /\ MakeCacheKey(v[1]) = MakeCacheKey(b)
      BY <2>1 DEF Answers, Versions
    <2> QED
      BY <2>2 DEF NoCollision
  <1> QED
    BY <1>1, CacheInvariant, PTL
=============================================================================
