------------------------------ MODULE Gateway ------------------------------
(***************************************************************************)
(* internal/services/gateway.go under handlers.Forward(ServiceGateway): one *)
(* GatewayClient per process, called by the handler of every stream.  The   *)
(* token and its expiry are read and written under the mutex, which is held *)
(* across the login request; the event is posted without it.               *)
(*                                                                          *)
(* Client and gateway read one clock, in ticks.                             *)
(***************************************************************************)
EXTENDS Integers

CONSTANTS
    Callers,          \* goroutines: one consumer per stream
    NoCaller,         \* the mutex is free
    Buffer,           \* getToken: a token is renewed this long before expiry
    LoginTimeout,     \* authenticate: the deadline of authCtx
    RequestTimeout,   \* GatewayClient.hc.Timeout
    Lifetimes,        \* what the gateway may grant a token
    MaxTime           \* bound: ticks of the clock

(* 60s, 10s and 30s in the code.  A token may be granted for any time:       *)
(* jwtExpiry takes whatever exp claim it finds.                              *)
ASSUME GatewayAssumption ==
    /\ NoCaller \notin Callers
    /\ LoginTimeout \in Nat \ {0}
    /\ RequestTimeout \in Nat \ {0}
    /\ Buffer \in Nat
    /\ Buffer >= RequestTimeout
    /\ Lifetimes \subseteq Nat
    /\ MaxTime \in Nat

VARIABLES
    now,     \* time.Now()
    mu,      \* GatewayClient.mu: its holder, or NoCaller
    cached,  \* GatewayClient.tok and its expiry; NoToken before the first login
    call     \* call[c]: where c's call of Forward is, and its locals

vars == <<now, mu, cached, call>>

Times == 0..MaxTime

(* A token is known by its expiry and by how long it was granted for. *)
Granted(t, l) == [exp |-> t + l, life |-> l]
Tokens == {Granted(t, l) : t \in Times, l \in Lifetimes}
NoToken == [exp |-> -1, life |-> 0]

Idle == [at |-> "idle"]
Waiting == [at |-> "wait"]
Calls ==
    {Idle, Waiting}
    \cup [at : {"login"}, since : Times]
    \cup [at : {"reply"}, since : Times, tok : Tokens]
    \cup [at : {"post"}, since : Times, tok : Tokens, fresh : BOOLEAN]

Init ==
    /\ now = 0
    /\ mu = NoCaller
    /\ cached = NoToken
    /\ call = [c \in Callers |-> Idle]

Step(c, from, to) ==
    /\ call[c].at = from
    /\ call' = [call EXCEPT ![c] = to]

Tick ==
    /\ now < MaxTime
    /\ now' = now + 1
    /\ UNCHANGED <<mu, cached, call>>

-----------------------------------------------------------------------------
(* Forward: Do calls getToken, which waits for the mutex; it does not watch   *)
(* the context while it waits.                                              *)
Forward(c) ==
    /\ Step(c, "idle", Waiting)
    /\ UNCHANGED <<now, mu, cached>>

(* The request; fresh: its token comes from this very call's login. *)
Post(tok, fresh) == [at |-> "post", since |-> now, tok |-> tok, fresh |-> fresh]

(* The cached token may still be used. *)
UsableUnbuffered == cached # NoToken /\ now < cached.exp          \* mutant
Usable == cached # NoToken /\ now + Buffer < cached.exp

(* Inside the lock: a token that is not about to expire is returned at once, *)
GetCached(c) ==
    /\ mu = NoCaller
    /\ Usable
    /\ Step(c, "wait", Post(cached, FALSE))
    /\ UNCHANGED <<now, mu, cached>>

(* Mutant: the token is checked before the mutex is taken, not under it. *)
BeginLoginUnlocked(c) ==
    /\ ~Usable
    /\ Step(c, "wait", [at |-> "login", since |-> now])
    /\ mu' = c
    /\ UNCHANGED <<now, cached>>

(* otherwise authenticate posts the credentials, and the mutex stays locked. *)
BeginLogin(c) ==
    /\ mu = NoCaller
    /\ ~Usable
    /\ Step(c, "wait", [at |-> "login", since |-> now])
    /\ mu' = c
    /\ UNCHANGED <<now, cached>>

(* Mutant: a token without an exp claim is taken to expire at time 0. *)
IssueNoExp(c) ==
    /\ Step(c, "login", [at |-> "reply", since |-> call[c].since,
                         tok |-> [exp |-> 0, life |-> LoginTimeout]])
    /\ UNCHANGED <<now, mu, cached>>

(* The gateway issues a token; its exp claim, which jwtExpiry insists on, runs *)
(* from now.                                                                *)
Issue(c) ==
    /\ \E l \in Lifetimes :
          Step(c, "login", [at |-> "reply", since |-> call[c].since,
                            tok |-> Granted(now, l)])
    /\ UNCHANGED <<now, mu, cached>>

(* authCtx has not expired. *)
LoginInTime(c) == now <= call[c].since + LoginTimeout

(* The login reply arrives in time: token and expiry are cached, the mutex is *)
(* released and the new token used, whatever its lifetime.                  *)
LoginOk(c) ==
    /\ call[c].at = "reply"
    /\ LoginInTime(c)
    /\ cached' = call[c].tok
    /\ Step(c, "reply", Post(call[c].tok, TRUE))
    /\ mu' = NoCaller
    /\ UNCHANGED now

(* Mutant: the login is retried without releasing the mutex. *)
LoginFailRetries(c) ==
    /\ call[c].at \in {"login", "reply"}
    /\ call' = [call EXCEPT ![c] = [at |-> "login", since |-> now]]
    /\ UNCHANGED <<now, mu, cached>>

(* The login fails: network, status, an unusable body or exp, deadline, or    *)
(* cancelled context.  The old token stays; Forward's error is transient.   *)
LoginFail(c) ==
    /\ call[c].at \in {"login", "reply"}
    /\ call' = [call EXCEPT ![c] = Idle]
    /\ mu' = NoCaller
    /\ UNCHANGED <<now, cached>>

-----------------------------------------------------------------------------
(* The event is posted with the token, without the mutex.  The request may    *)
(* reach the gateway until the client gives up.                             *)
OnTheWay(c) == call[c].at = "post" /\ now <= call[c].since + RequestTimeout
Expired(c) == now >= call[c].tok.exp

(* 2xx: Forward returns nil.  Also what the code makes of 1xx and 3xx. *)
Accepted(c) ==
    /\ OnTheWay(c)
    /\ ~Expired(c)
    /\ Step(c, "post", Idle)
    /\ UNCHANGED <<now, mu, cached>>

(* 5xx, a network error or the timeout: transient, process() tries again. *)
Transient(c) ==
    /\ Step(c, "post", Idle)
    /\ UNCHANGED <<now, mu, cached>>

(* 4xx, 401 for an expired token among them: poison, which ends the process;  *)
(* its successor starts without a token.                                    *)
Poisoned(c) ==
    /\ OnTheWay(c)
    /\ mu' = NoCaller
    /\ cached' = NoToken
    /\ call' = [d \in Callers |-> Idle]
    /\ UNCHANGED now

Next ==
    \/ Tick
    \/ \E c \in Callers :
        \/ Forward(c) \/ GetCached(c) \/ BeginLogin(c)
        \/ Issue(c) \/ LoginOk(c) \/ LoginFail(c)
        \/ Accepted(c) \/ Transient(c) \/ Poisoned(c)

(* sync.Mutex hands the lock over to a caller that has waited long enough     *)
(* (starvation mode); login and request end, by their timeouts at the latest. *)
Fairness ==
    \A c \in Callers :
        /\ SF_vars(GetCached(c) \/ BeginLogin(c))
        /\ WF_vars(LoginFail(c))
        /\ WF_vars(Transient(c))

Spec == Init /\ [][Next]_vars /\ Fairness

-----------------------------------------------------------------------------
(* Every variable has its type. *)
TypeOK ==
    /\ now \in Times
    /\ mu \in Callers \cup {NoCaller}
    /\ cached \in Tokens \cup {NoToken}
    /\ call \in [Callers -> Calls]

(* "the first caller does the api_login; the rest re-check after acquiring the *)
(* lock" (gateway.go:49): one login at a time, by the holder of the mutex,   *)
(* and only as long as there is no cached token to use.                     *)
LoginNeeded ==
    \A c \in Callers : call[c].at \in {"login", "reply"} => mu = c /\ ~Usable

(* "refreshes it automatically when it nears expiry" (README.md:40): however   *)
(* long the callers queue for the mutex, the login and the request take, a   *)
(* cached token never reaches the gateway expired.  A token of the call's own *)
(* login, which gateway.go:64 returns unchecked, does so only if it was      *)
(* granted for no longer than a login and a request may take (40s; the 30s   *)
(* tokens of gateway_test.go among them).  The 401 is poison and ends the    *)
(* process.                                                                 *)
TokenValidOnArrival ==
    \A c \in Callers :
        OnTheWay(c) /\ Expired(c) =>
            call[c].fresh /\ call[c].tok.life <= LoginTimeout + RequestTimeout

(* Every handler call returns: a slow or failing login delays the other        *)
(* streams' calls, queued without a timeout of their own, but not for ever.  *)
EveryCallReturns == \A c \in Callers : call[c].at = "wait" ~> call[c].at = "idle"
=============================================================================
