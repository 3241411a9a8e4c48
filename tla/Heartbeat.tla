------------------------------ MODULE Heartbeat ------------------------------
(***************************************************************************)
(* internal/consume with a clock: a consumer ("Mine") works through one     *)
(* page of entries while its heartbeatLoop claims the one in flight, and    *)
(* the reclaimLoop of a peer takes over what has been idle for              *)
(* reclaimMinIdle.  The durations are those that config.Load and            *)
(* consume.New accept.                                                      *)
(*                                                                          *)
(* A tick of a time.Ticker is acted on, and its Redis command executed,     *)
(* within Delay, which is shorter than the period of the heartbeat and of   *)
(* the reclaim ticker; a command that takes longer counts as failed.        *)
(*                                                                          *)
(* Idle times and MinIdle go over the wire in whole milliseconds: when Redis *)
(* compares the two it may be off by a Grain, either way.                   *)
(***************************************************************************)
EXTENDS Integers, FiniteSets, FiniteSetsExt

CONSTANTS
    MaxEntries,   \* entries of the page: 1..MaxEntries, in stream order
    Settings,     \* values of the DASHER_* variables to try, in ticks
    Defaults,     \* the durations of unset variables
    Delays,       \* values of Delay to try
    Grains,       \* values of Grain to try
    MaxFails      \* bound: failing heartbeats and scans

ASSUME HeartbeatAssumption ==
    /\ MaxEntries \in Nat \ {0}
    /\ Settings \subseteq [minIdle : Int, reclaim : Int, gcEvery : Int, gc : Int,
                            beat : Int]
    /\ Defaults \in [minIdle : Nat \ {0}, reclaim : Nat \ {0},
                      gcEvery : Nat \ {0}, gc : Nat \ {0}]
    /\ Delays \subseteq Nat
    /\ Grains \subseteq Nat
    /\ MaxFails \in Nat

Entries == 1..MaxEntries
Unset == -99
Quiet == -1      \* a background loop waiting for its ticker
Fired == 0       \* the ticker fired, nothing done about it yet

VARIABLES
    cfg,          \* the durations in use (cfg.d), the delay and the grain
    owner,        \* owner[e]: "mine", "peer", or "done" when acknowledged
    idle,         \* idle[e]: time since Redis last delivered or claimed e
    life,         \* the consumer's process: "up", "killed" or "panicked"
    todo,         \* rest of the page in the consumer's memory
    inFlight,     \* Consumer.inFlight, 0 for nil
    beatIn,       \* time until the heartbeat ticker fires
    beat,         \* heartbeatLoop: Quiet, Fired, or the id it loaded
    beatAge,      \* time since that tick
    scanIn,       \* the same for the peer's reclaimLoop
    scan,         \* Quiet, Fired, or 1 when toClaimIDs is in scanIds
    scanIds, scanAge,
    (* History, read by no action. *)
    startIdle,    \* idle time of the in-flight entry when its turn came
    fails,        \* heartbeats that failed since
    misses        \* scans that failed

mineVars == <<life, todo, inFlight, startIdle>>
beatVars == <<beatIn, beat, beatAge>>
scanVars == <<scanIn, scan, scanIds, scanAge>>
vars == <<cfg, owner, idle, mineVars, beatVars, scanVars, fails, misses>>

-----------------------------------------------------------------------------
(* config.Load, and the default of consume.New.                             *)

Duration(v, def) == IF v = Unset THEN def ELSE v

LoadedBeat(env) ==
    LET half == Duration(env.minIdle, Defaults.minIdle) \div 2
        b == Duration(env.beat, half)
    IN IF b <= 0 THEN half ELSE b

Loaded(env) ==
    [minIdle |-> Duration(env.minIdle, Defaults.minIdle),
     reclaim |-> Duration(env.reclaim, Defaults.reclaim),
     gcEvery |-> Duration(env.gcEvery, Defaults.gcEvery),
     gc |-> Duration(env.gc, Defaults.gc),
     beat |-> LoadedBeat(env)]

(* parseDurationEnv; a value that is no duration is refused like a negative. *)
NonPositiveSigned(v) == v # Unset /\ v < 0                       \* mutant
NonPositive(v) == v # Unset /\ v <= 0

BeatTooLargeLoose(env) == LoadedBeat(env) > Loaded(env).minIdle  \* mutant
BeatTooLarge(env) == LoadedBeat(env) > Loaded(env).minIdle \div 2

Rejected(env) ==
    \/ \E v \in {env.minIdle, env.reclaim, env.gcEvery, env.gc, env.beat} :
          NonPositive(v)
    \/ Loaded(env).gc <= Loaded(env).minIdle
    \/ BeatTooLarge(env)

(* The accepted durations; a ticker with period 0 panics at once, so that no *)
(* Delay can be shorter than it.                                            *)
Configs ==
    {[d |-> Loaded(env), delay |-> dl, grain |-> g] :
        env \in {e \in Settings : ~Rejected(e)}, dl \in Delays, g \in Grains}

(* heartbeatLoop, reclaimLoop and consumerGCLoop each make a ticker. *)
NoTicker(c) == 0 \in {c.d.beat, c.d.reclaim, c.d.gcEvery}

(* When a ticker with period p may fire next. *)
Phases(p) == IF p = 0 THEN {0} ELSE 1..p

(* The page has just been read (or claimed by selfReclaim); the tickers are  *)
(* anywhere in their period.                                                *)
Init ==
    /\ cfg \in {c \in Configs :
                  \/ NoTicker(c)
                  \/ c.delay < Min({c.d.beat, c.d.reclaim})}
    /\ owner = [e \in Entries |-> "mine"]
    /\ idle = [e \in Entries |-> 0]
    /\ life = "up"
    /\ todo = Entries
    /\ inFlight = 0
    /\ beatIn \in Phases(cfg.d.beat)
    /\ scanIn \in Phases(cfg.d.reclaim)
    /\ beat = Quiet /\ beatAge = 0
    /\ scan = Quiet /\ scanIds = {} /\ scanAge = 0
    /\ startIdle = 0
    /\ fails = 0
    /\ misses = 0

-----------------------------------------------------------------------------
(* XCLAIM of ids by w: a new owner and a fresh idle clock. *)
XClaim(w, ids) ==
    /\ owner' = [e \in Entries |-> IF e \in ids THEN w ELSE owner[e]]
    /\ idle' = [e \in Entries |-> IF e \in ids THEN 0 ELSE idle[e]]

Pending == {e \in Entries : owner[e] # "done"}

(* A ticker with period p that fires in n: its next state, one tick later.   *)
Advance(n, p) == IF n = 1 THEN p ELSE n - 1
Age(loop, age) == IF loop = Quiet THEN 0 ELSE age + 1

(* Time passes, but not beyond what a begun heartbeat or scan may take.  The *)
(* idle time of what the peer owns matters to nobody here.                  *)
Tick ==
    /\ ~NoTicker(cfg)
    /\ beat # Quiet => beatAge < cfg.delay
    /\ scan # Quiet => scanAge < cfg.delay
    /\ idle' = [e \in Entries |-> IF owner[e] = "mine" THEN idle[e] + 1 ELSE 0]
    /\ scanIn' = Advance(scanIn, cfg.d.reclaim)
    /\ IF scanIn = 1 THEN scan' = Fired /\ scanAge' = 0
                     ELSE scan' = scan /\ scanAge' = Age(scan, scanAge)
    /\ beatIn' = IF life = "up" THEN Advance(beatIn, cfg.d.beat) ELSE beatIn
    /\ IF life = "up" /\ beatIn = 1
         THEN beat' = Fired /\ beatAge' = 0
         ELSE beat' = beat /\ beatAge' = Age(beat, beatAge)
    /\ UNCHANGED <<cfg, owner, mineVars, scanIds, fails, misses>>

(* time.NewTicker(0) panics in a goroutine of its own: the process dies. *)
Panic ==
    /\ life = "up"
    /\ NoTicker(cfg)
    /\ life' = "panicked"
    /\ todo' = {}
    /\ UNCHANGED <<cfg, owner, idle, inFlight, startIdle, beatVars, scanVars,
                   fails, misses>>

-----------------------------------------------------------------------------
(* The consumer's main loop and heartbeatLoop.                              *)

(* process() publishes the next message of the page. *)
Begin ==
    /\ life = "up" /\ ~NoTicker(cfg)
    /\ inFlight = 0 /\ todo # {}
    /\ inFlight' = Min(todo)
    /\ todo' = todo \ {Min(todo)}
    /\ startIdle' = IF owner[Min(todo)] = "mine" THEN idle[Min(todo)]
                                                 ELSE cfg.d.minIdle
    /\ fails' = 0
    /\ UNCHANGED <<cfg, owner, idle, life, beatVars, scanVars, misses>>

(* Handle has succeeded and XACK removed the entry, whoever owns it. *)
Finish ==
    /\ inFlight # 0
    /\ owner' = [owner EXCEPT ![inFlight] = "done"]
    /\ idle' = [idle EXCEPT ![inFlight] = 0]
    /\ inFlight' = 0
    /\ UNCHANGED <<cfg, life, todo, startIdle, beatVars, scanVars, fails, misses>>

(* The process is killed, and its heartbeat with it. *)
Crash ==
    /\ life = "up"
    /\ life' = "killed"
    /\ todo' = {}
    /\ inFlight' = 0
    /\ beat' = Quiet
    /\ beatAge' = 0
    /\ UNCHANGED <<cfg, owner, idle, startIdle, beatIn, scanVars, fails, misses>>

(* heartbeatLoop: inFlight.Load; nothing to do if the consumer is idle. *)
BeatLoad ==
    /\ beat = Fired
    /\ beat' = IF inFlight = 0 THEN Quiet ELSE inFlight
    /\ UNCHANGED <<cfg, owner, idle, mineVars, beatIn, beatAge, scanVars, fails,
                   misses>>

BeatClaimMinIdle ==                                              \* mutant
    /\ beat > Fired
    /\ XClaim("mine", {e \in Pending : e = beat /\ idle[e] >= cfg.d.minIdle})
    /\ beat' = Quiet
    /\ UNCHANGED <<cfg, mineVars, beatIn, beatAge, scanVars, fails, misses>>

(* claimFn: XCLAIM JUSTID MinIdle=0, whoever owns the entry by now. *)
BeatClaim ==
    /\ beat > Fired
    /\ XClaim("mine", {beat} \cap Pending)
    /\ beat' = Quiet
    /\ UNCHANGED <<cfg, mineVars, beatIn, beatAge, scanVars, fails, misses>>

(* It fails, or is late; the next tick is a period away. *)
BeatFail ==
    /\ beat # Quiet
    /\ fails + misses < MaxFails
    /\ fails' = fails + 1
    /\ beat' = Quiet
    /\ UNCHANGED <<cfg, owner, idle, mineVars, beatIn, beatAge, scanVars, misses>>

-----------------------------------------------------------------------------
(* The peer: peerReclaim on its ticker, and its own main loop.              *)

(* What Redis may take for idle long enough: all that is so by a Grain, and     *)
(* nothing that is not so by more than a Grain.                              *)
LongIdle == {e \in Pending : idle[e] >= cfg.d.minIdle + cfg.grain}
MaybeIdle == {e \in Pending : idle[e] + cfg.grain >= cfg.d.minIdle}
Stale == {S \in SUBSET MaybeIdle : LongIdle \subseteq S}

ScanPending ==
    /\ scan = Fired
    /\ \E S \in Stale : scanIds' = {e \in S : owner[e] # "peer"}
    /\ scan' = IF scanIds' = {} THEN Quiet ELSE 1
    /\ UNCHANGED <<cfg, owner, idle, mineVars, beatVars, scanIn, scanAge, fails,
                   misses>>

(* XCLAIM MinIdle=reclaimMinIdle looks at the idle time again. *)
ScanClaim ==
    /\ scan > Fired
    /\ \E S \in Stale : XClaim("peer", scanIds \cap S)
    /\ scan' = Quiet /\ scanIds' = {}
    /\ UNCHANGED <<cfg, mineVars, beatVars, scanIn, scanAge, fails, misses>>

(* peerReclaim's error is logged; the loop goes on with its next tick. *)
ScanFailStops ==                                                 \* mutant
    /\ scan # Quiet
    /\ scan' = Quiet /\ scanIds' = {} /\ scanIn' = 99
    /\ UNCHANGED <<cfg, owner, idle, mineVars, beatVars, scanAge, fails, misses>>

ScanFail ==
    /\ scan # Quiet
    /\ fails + misses < MaxFails
    /\ misses' = misses + 1
    /\ scan' = Quiet /\ scanIds' = {}
    /\ UNCHANGED <<cfg, owner, idle, mineVars, beatVars, scanIn, scanAge, fails>>

(* The peer's selfReclaim finds what was claimed, handles and acknowledges it. *)
PeerFinish ==
    \E e \in Entries :
        /\ owner[e] = "peer"
        /\ owner' = [owner EXCEPT ![e] = "done"]
        /\ idle' = [idle EXCEPT ![e] = 0]
        /\ UNCHANGED <<cfg, mineVars, beatVars, scanVars, fails, misses>>

Next ==
    \/ Tick \/ Panic
    \/ Begin \/ Finish \/ Crash
    \/ BeatLoad \/ BeatClaim \/ BeatFail
    \/ ScanPending \/ ScanClaim \/ ScanFail \/ PeerFinish

Spec == Init /\ [][Next]_vars

-----------------------------------------------------------------------------
(* Properties.                                                              *)

(* A pending entry of the consumer, dead or alive, is not left alone for        *)
(* longer than reclaimMinIdle, one period of the peer's ticker for each scan *)
(* that failed and one more, the delay of a command and a grain.            *)
TakenOverInTime ==
    \A e \in Entries : owner[e] = "mine" /\ cfg.d.reclaim > 0 =>
        idle[e] <= cfg.d.minIdle + (misses + 1) * cfg.d.reclaim + cfg.delay
                     + cfg.grain

(* The peer owns the entry in flight only if the idle time with which its turn  *)
(* came, one heartbeat period and one for each that failed, the delay and a  *)
(* grain add up to reclaimMinIdle.  For the rest of a page there is no       *)
(* heartbeat: its turn may come late, or after the theft.                   *)
StolenOnlyIfLate ==
    inFlight # 0 /\ owner[inFlight] = "peer" =>
        startIdle + (fails + 1) * cfg.d.beat + cfg.delay + cfg.grain
          >= cfg.d.minIdle

(* "Setting this too high risks cross-pod theft; the config layer enforces      *)
(* HeartbeatInterval <= ReclaimMinIdle/2" (consume.go:114): with accepted    *)
(* durations, and commands faster by a grain than half of reclaimMinIdle,    *)
(* the first entry of a page is safe while no heartbeat fails.              *)
HeartbeatProtects ==
    inFlight = Min(Entries) /\ startIdle = 0 /\ fails = 0
      /\ 2 * (cfg.delay + cfg.grain) < cfg.d.minIdle => owner[inFlight] # "peer"

(* Load's checks keep the periods of all three tickers positive, so that       *)
(* NewTicker does not panic; the exception is a reclaimMinIdle of one        *)
(* nanosecond, half of which is 0.                                          *)
PanicsOnlyAtOne == life = "panicked" => cfg.d.minIdle = 1

=============================================================================
