--------------------------- MODULE GatewayProofs ---------------------------
(* Proofs about Gateway, for every set of callers and every choice of the    *)
(* timeouts, the buffer and the lifetimes that GatewayAssumption admits.     *)
EXTENDS Gateway, TLAPS

(* The token was granted for longer than a login and a request. *)
LongLived(tok) == tok.life > LoginTimeout + RequestTimeout

(* Where a call is (r its record, t the time): the reply with a long-lived    *)
(* token leaves room for the rest of the login and a whole request; a request *)
(* with a cached or a long-lived token leaves a whole request timeout before *)
(* the token expires.                                                       *)
OutlivesUse(r, t) ==
    /\ r.at = "reply" /\ LongLived(r.tok) =>
           r.tok.exp > r.since + LoginTimeout + RequestTimeout
    /\ r.at = "post" /\ (r.fresh => LongLived(r.tok)) =>
           r.tok.exp > r.since + RequestTimeout
    /\ r.at = "login" => r.since <= t

TokenOutlivesUse == \A c \in Callers : OutlivesUse(call[c], now)

IInv == TypeOK /\ LoginNeeded /\ TokenOutlivesUse

(* Times, tokens and the callers' records are what arithmetic needs. *)
LEMMA CallFacts ==
    ASSUME TypeOK, NEW c \in Callers
    PROVE  /\ now \in Nat /\ cached.exp \in Int
           /\ call[c] \in Calls
           /\ call[c].at \in {"idle", "wait", "login", "reply", "post"}
           /\ call[c].at \in {"login", "reply", "post"} => call[c].since \in Times
           /\ call[c].at \in {"reply", "post"} => call[c].tok \in Tokens
           /\ call[c].at = "post" => call[c].fresh \in BOOLEAN
           /\ Times \subseteq Nat
           /\ \A k \in Tokens : k.exp \in Nat /\ k.life \in Nat
<1>1. Times \subseteq Nat /\ \A k \in Tokens : k.exp \in Nat /\ k.life \in Nat
  BY GatewayAssumption DEF Times, Tokens, Granted
<1>2. call[c] \in Calls
  BY DEF TypeOK
<1>3. now \in Nat /\ cached.exp \in Int
  BY <1>1 DEF TypeOK, NoToken
<1>4. /\ call[c].at \in {"idle", "wait", "login", "reply", "post"}
      /\ call[c].at \in {"login", "reply", "post"} => call[c].since \in Times
      /\ call[c].at \in {"reply", "post"} => call[c].tok \in Tokens
      /\ call[c].at = "post" => call[c].fresh \in BOOLEAN
  BY <1>2 DEF Calls, Idle, Waiting
<1> QED
  BY <1>1, <1>2, <1>3, <1>4

(* The initial state, in which nobody calls, satisfies the invariant. *)
LEMMA InitIInv == Init => IInv
  BY GatewayAssumption
  DEF Init, IInv, TypeOK, LoginNeeded, TokenOutlivesUse, OutlivesUse, Calls, Idle, Times

(* Every step of a caller and every tick preserves the types. *)
LEMMA TypeStep ==
    ASSUME TypeOK, [Next]_vars
    PROVE  TypeOK'
<1> USE GatewayAssumption
<1>1. CASE UNCHANGED vars
  BY <1>1 DEF TypeOK, vars
<1>2. CASE Tick
  BY <1>2 DEF TypeOK, Tick, Times
<1>3. ASSUME NEW c \in Callers, Forward(c) PROVE TypeOK'
  BY <1>3 DEF TypeOK, Forward, Step, Calls
<1>4. ASSUME NEW c \in Callers, GetCached(c) PROVE TypeOK'
  <2>1. cached \in Tokens
    BY <1>4 DEF GetCached, Usable, TypeOK
  <2>2. Post(cached, FALSE) \in Calls
    BY <2>1 DEF Post, Calls, TypeOK
  <2> QED
    BY <1>4, <2>2 DEF TypeOK, GetCached, Step
<1>5. ASSUME NEW c \in Callers, BeginLogin(c) PROVE TypeOK'
  <2>1. [at |-> "login", since |-> now] \in Calls
    BY DEF Calls, TypeOK
  <2> QED
    BY <1>5, <2>1 DEF TypeOK, BeginLogin, Step
<1>6. ASSUME NEW c \in Callers, Issue(c) PROVE TypeOK'
  <2>1. PICK l \in Lifetimes :
            Step(c, "login", [at |-> "reply", since |-> call[c].since,
                              tok |-> Granted(now, l)])
    BY <1>6 DEF Issue
  <2>2. call[c].since \in Times
    BY <2>1, CallFacts DEF Step
  <2>3. Granted(now, l) \in Tokens
    BY DEF Tokens, TypeOK
  <2>4. [at |-> "reply", since |-> call[c].since, tok |-> Granted(now, l)] \in Calls
    BY <2>2, <2>3 DEF Calls
  <2> QED
    BY <1>6, <2>1, <2>4 DEF TypeOK, Issue, Step
<1>7. ASSUME NEW c \in Callers, LoginOk(c) PROVE TypeOK'
  <2>1. call[c].tok \in Tokens
    BY <1>7, CallFacts DEF LoginOk
  <2>2. Post(call[c].tok, TRUE) \in Calls
    BY <2>1 DEF Post, Calls, TypeOK
  <2> QED
    BY <1>7, <2>1, <2>2 DEF TypeOK, LoginOk, Step
<1>8. ASSUME NEW c \in Callers, LoginFail(c) PROVE TypeOK'
  BY <1>8 DEF TypeOK, LoginFail, Calls
<1>9. ASSUME NEW c \in Callers, Accepted(c) \/ Transient(c) PROVE TypeOK'
  BY <1>9 DEF TypeOK, Accepted, Transient, Step, Calls
<1>10. ASSUME NEW c \in Callers, Poisoned(c) PROVE TypeOK'
  BY <1>10 DEF TypeOK, Poisoned, Calls
<1> QED
  BY <1>1, <1>2, <1>3, <1>4, <1>5, <1>6, <1>7, <1>8, <1>9, <1>10 DEF Next

(* The mutex keeps a second login out while one is under way, and no token    *)
(* becomes usable by the mere passing of time.                              *)
LEMMA LoginNeededStep ==
    ASSUME TypeOK, LoginNeeded, [Next]_vars
    PROVE  LoginNeeded'
<1> USE GatewayAssumption
<1> SUFFICES ASSUME NEW d \in Callers, call'[d].at \in {"login", "reply"}
             PROVE  mu' = d /\ ~Usable'
  BY DEF LoginNeeded
<1>a. call[d].at \in {"login", "reply"} => mu = d /\ ~Usable
  BY DEF LoginNeeded
<1>b. now \in Nat /\ cached.exp \in Int
  BY CallFacts
<1>c. call \in [Callers -> Calls]
  BY DEF TypeOK
<1>1. CASE UNCHANGED vars
  BY <1>1, <1>a DEF vars, Usable
<1>2. CASE Tick
  BY <1>2, <1>a, <1>b DEF Tick, Usable
<1>3. ASSUME NEW c \in Callers, Forward(c) PROVE mu' = d /\ ~Usable'
  BY <1>3, <1>a, <1>c DEF Forward, Step, Waiting, Usable
<1>4. ASSUME NEW c \in Callers, GetCached(c) PROVE mu' = d /\ ~Usable'
  BY <1>4, <1>a, <1>c DEF GetCached, Step, Post, Usable
<1>5. ASSUME NEW c \in Callers, BeginLogin(c) PROVE mu' = d /\ ~Usable'
  BY <1>5, <1>a, <1>c DEF BeginLogin, Step, Usable
<1>6. ASSUME NEW c \in Callers, Issue(c) PROVE mu' = d /\ ~Usable'
  BY <1>6, <1>a, <1>c DEF Issue, Step, Usable
<1>7. ASSUME NEW c \in Callers, LoginOk(c) PROVE mu' = d /\ ~Usable'
  <2>1. mu = c
    BY <1>7 DEF LoginNeeded, LoginOk
  <2>2. d # c /\ call'[d] = call[d]
    BY <1>7, <1>c DEF LoginOk, Step, Post
  <2> QED
    BY <1>a, <2>1, <2>2
<1>8. ASSUME NEW c \in Callers, LoginFail(c) PROVE mu' = d /\ ~Usable'
  <2>1. mu = c
    BY <1>8 DEF LoginNeeded, LoginFail
  <2>2. d # c /\ call'[d] = call[d]
    BY <1>8, <1>c DEF LoginFail, Idle
  <2> QED
    BY <1>a, <2>1, <2>2
<1>9. ASSUME NEW c \in Callers, Accepted(c) \/ Transient(c) PROVE mu' = d /\ ~Usable'
  BY <1>9, <1>a, <1>c DEF Accepted, Transient, Step, Idle, Usable
<1>10. ASSUME NEW c \in Callers, Poisoned(c) PROVE mu' = d /\ ~Usable'
  BY <1>10 DEF Poisoned, Idle
<1> QED
  BY <1>1, <1>2, <1>3, <1>4, <1>5, <1>6, <1>7, <1>8, <1>9, <1>10 DEF Next

(* Each way to a token leaves it enough lifetime for what is done with it:     *)
(* its own lifetime for a long-lived new one, the buffer for a cached one.   *)
LEMMA TokenStep ==
    ASSUME TypeOK, TokenOutlivesUse, [Next]_vars
    PROVE  TokenOutlivesUse'
<1> USE GatewayAssumption
<1> SUFFICES ASSUME NEW d \in Callers PROVE OutlivesUse(call'[d], now')
  BY DEF TokenOutlivesUse
<1>a. OutlivesUse(call[d], now)
  BY DEF TokenOutlivesUse
<1>b. \A c \in Callers : OutlivesUse(call[c], now)
  BY DEF TokenOutlivesUse
<1>c. call \in [Callers -> Calls]
  BY DEF TypeOK
<1>f. /\ now \in Nat /\ cached.exp \in Int /\ Times \subseteq Nat
      /\ \A k \in Tokens : k.exp \in Nat /\ k.life \in Nat
  BY CallFacts
<1>s. ASSUME NEW c \in Callers, NEW r, call' = [call EXCEPT ![c] = r],
             OutlivesUse(r, now), now' = now
      PROVE  OutlivesUse(call'[d], now')
  <2>1. CASE d = c
    BY <2>1, <1>c, <1>s
  <2>2. CASE d # c
    BY <2>2, <1>c, <1>s, <1>a
  <2> QED
    BY <2>1, <2>2
<1>1. CASE UNCHANGED vars
  BY <1>1, <1>a DEF vars
<1>2. CASE Tick
  <2>1. call[d].at = "login" => call[d].since \in Nat
    BY CallFacts
  <2> QED
    BY <1>2, <1>a, <1>f, <2>1 DEF Tick, OutlivesUse
<1>3. ASSUME NEW c \in Callers, Forward(c) PROVE OutlivesUse(call'[d], now')
  BY <1>3, <1>s DEF Forward, Step, Waiting, OutlivesUse
<1>4. ASSUME NEW c \in Callers, GetCached(c) PROVE OutlivesUse(call'[d], now')
  <2>1. cached.exp > now + RequestTimeout
    BY <1>4, <1>f DEF GetCached, Usable
  <2>2. OutlivesUse(Post(cached, FALSE), now)
    BY <2>1 DEF Post, OutlivesUse
  <2> QED
    BY <1>4, <1>s, <2>2 DEF GetCached, Step
<1>5. ASSUME NEW c \in Callers, BeginLogin(c) PROVE OutlivesUse(call'[d], now')
  <2>1. OutlivesUse([at |-> "login", since |-> now], now)
    BY <1>f DEF OutlivesUse
  <2> QED
    BY <1>5, <1>s, <2>1 DEF BeginLogin, Step
<1>6. ASSUME NEW c \in Callers, Issue(c) PROVE OutlivesUse(call'[d], now')
  <2>1. PICK l \in Lifetimes :
            Step(c, "login", [at |-> "reply", since |-> call[c].since,
                              tok |-> Granted(now, l)])
    BY <1>6 DEF Issue
  <2>2. call[c].since \in Nat /\ call[c].since <= now
    BY <2>1, <1>b, <1>f, CallFacts DEF Step, OutlivesUse
  <2>3. /\ Granted(now, l).exp = now + l /\ Granted(now, l).life = l
        /\ l \in Nat
    BY DEF Granted
  <2>4. LongLived(Granted(now, l)) =>
            Granted(now, l).exp > call[c].since + LoginTimeout + RequestTimeout
    BY <2>2, <2>3, <1>f DEF LongLived
  <2>5. OutlivesUse([at |-> "reply", since |-> call[c].since,
                     tok |-> Granted(now, l)], now)
    BY <2>4 DEF OutlivesUse
  <2> QED
    BY <1>6, <1>s, <2>1, <2>5 DEF Issue, Step
<1>7. ASSUME NEW c \in Callers, LoginOk(c) PROVE OutlivesUse(call'[d], now')
  <2>1. /\ call[c].since \in Nat /\ call[c].tok.exp \in Nat
        /\ now <= call[c].since + LoginTimeout
        /\ LongLived(call[c].tok) =>
               call[c].tok.exp > call[c].since + LoginTimeout + RequestTimeout
    BY <1>7, <1>b, <1>f, CallFacts DEF LoginOk, LoginInTime, OutlivesUse
  <2>2. LongLived(call[c].tok) => call[c].tok.exp > now + RequestTimeout
    BY <2>1, <1>f
  <2>3. OutlivesUse(Post(call[c].tok, TRUE), now)
    BY <2>2 DEF Post, OutlivesUse
  <2> QED
    BY <1>7, <1>s, <2>3 DEF LoginOk, Step
<1>8. ASSUME NEW c \in Callers, LoginFail(c) PROVE OutlivesUse(call'[d], now')
  BY <1>8, <1>s DEF LoginFail, Idle, OutlivesUse
<1>9. ASSUME NEW c \in Callers, Accepted(c) \/ Transient(c)
      PROVE  OutlivesUse(call'[d], now')
  BY <1>9, <1>s DEF Accepted, Transient, Step, Idle, OutlivesUse
<1>10. ASSUME NEW c \in Callers, Poisoned(c) PROVE OutlivesUse(call'[d], now')
  BY <1>10 DEF Poisoned, Idle, OutlivesUse
<1> QED
  BY <1>1, <1>2, <1>3, <1>4, <1>5, <1>6, <1>7, <1>8, <1>9, <1>10 DEF Next

(* IInv is an invariant of the client. *)
LEMMA Invariance == Spec => []IInv
<1>1. IInv /\ [Next]_vars => IInv'
  BY TypeStep, LoginNeededStep, TokenStep DEF IInv
<1> QED
  BY InitIInv, <1>1, PTL DEF Spec

(* The client's variables keep their types, for all constants. *)
THEOREM TypeCorrect == Spec => []TypeOK
<1>1. IInv => TypeOK
  BY DEF IInv
<1> QED
  BY Invariance, <1>1, PTL

(* getToken coalesces logins (gateway.go:48), for any number of callers: a     *)
(* login is under way only in the holder of the mutex and only without a     *)
(* usable token.                                                            *)
THEOREM LoginsCoalesce == Spec => []LoginNeeded
<1>1. IInv => LoginNeeded
  BY DEF IInv
<1> QED
  BY Invariance, <1>1, PTL

(* A request of Do arrives with an expired token only straight from its own      *)
(* login, and only if that token was granted for no longer than a login and   *)
(* a request may take: for any number of callers, any lifetimes and any       *)
(* timeouts with Buffer >= RequestTimeout.                                   *)
THEOREM ExpiredOnlyIfShortLived == Spec => []TokenValidOnArrival
<1>1. IInv => TokenValidOnArrival
  <2> SUFFICES ASSUME IInv, NEW c \in Callers, OnTheWay(c), Expired(c)
               PROVE  /\ call[c].fresh
                      /\ call[c].tok.life <= LoginTimeout + RequestTimeout
    BY DEF TokenValidOnArrival
  <2>1. /\ now \in Nat /\ call[c].since \in Nat
        /\ call[c].tok.exp \in Nat /\ call[c].tok.life \in Nat
        /\ call[c].fresh \in BOOLEAN
    BY CallFacts DEF IInv, OnTheWay
  <2>2. ~(call[c].tok.exp > call[c].since + RequestTimeout)
    BY <2>1, GatewayAssumption DEF OnTheWay, Expired
  <2>3. ~(call[c].fresh => LongLived(call[c].tok))
    BY <2>2 DEF IInv, TokenOutlivesUse, OutlivesUse, OnTheWay
  <2> QED
    BY <2>1, <2>3, GatewayAssumption DEF LongLived
<1> QED
  BY Invariance, <1>1, PTL
=============================================================================
