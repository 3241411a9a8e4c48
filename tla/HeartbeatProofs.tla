-------------------------- MODULE HeartbeatProofs --------------------------
(***************************************************************************)
(* Proofs about Heartbeat, for pages of any length, any settings of the      *)
(* environment, any delay of a command, any grain of Redis's clock and any   *)
(* number of failing heartbeats and scans.                                  *)
(***************************************************************************)
EXTENDS Heartbeat, WellFoundedInduction, TLAPS

(* The durations in use, and what Load and consume.New guarantee of them. *)
B == cfg.d.beat
R == cfg.d.reclaim
MinIdle == cfg.d.minIdle
G == cfg.grain

CfgOK ==
    /\ B \in Nat /\ R \in Nat \ {0} /\ MinIdle \in Nat \ {0} /\ cfg.delay \in Nat
    /\ G \in Nat
    /\ 2 * B <= MinIdle
    /\ NoTicker(cfg) => MinIdle = 1
    /\ ~NoTicker(cfg) => cfg.delay < B /\ cfg.delay < R

Shape ==
    /\ owner \in [Entries -> {"mine", "peer", "done"}]
    /\ idle \in [Entries -> Nat]
    /\ life \in {"up", "killed", "panicked"}
    /\ todo \subseteq Entries
    /\ inFlight \in Entries \cup {0}
    /\ beat \in Entries \cup {Quiet, Fired} /\ beatAge \in Nat
    /\ scan \in {Quiet, Fired, 1} /\ scanIds \subseteq Entries /\ scanAge \in Nat
    /\ startIdle \in Nat /\ fails \in Nat /\ misses \in Nat
    /\ inFlight # 0 => life = "up"

(* Without tickers no time passes before the panic. *)
Still ==
    /\ life = "panicked" => NoTicker(cfg)
    /\ NoTicker(cfg) => inFlight = 0 /\ \A e \in Entries : idle[e] = 0

(* The tickers: a command begun at a tick is as old as the time since. *)
Ticking ==
    ~NoTicker(cfg) =>
        /\ beatIn \in 1..B /\ scanIn \in 1..R
        /\ life # "up" => beat = Quiet
        /\ beat # Quiet => beatAge = B - beatIn /\ beatAge <= cfg.delay
        /\ scan # Quiet => scanAge = R - scanIn /\ scanAge <= cfg.delay

(* The entry in flight: a period for each failed heartbeat, one if the present  *)
(* one is for it and not yet done, and the time since the last tick.  A beat  *)
(* that loaded the id of the previous message does nothing for this one, but *)
(* this one began after that tick.                                          *)
BeatDue == IF beat = Fired \/ beat = inFlight THEN B ELSE 0

Beaten ==
    inFlight # 0 /\ owner[inFlight] = "mine" =>
        idle[inFlight] <= startIdle + fails * B + BeatDue + (B - beatIn)

(* Any pending entry of the consumer: the same for the peer's scans, one of     *)
(* which does nothing for an entry it did not find stale.                   *)
ScanDue(e) == IF scan = Fired \/ (scan = 1 /\ e \in scanIds) THEN R ELSE 0

Scanned ==
    ~NoTicker(cfg) =>
        \A e \in Entries : owner[e] = "mine" =>
            idle[e] <= MinIdle + G + misses * R + ScanDue(e) + (R - scanIn)

HInv == CfgOK /\ Shape /\ Still /\ Ticking /\ Beaten /\ Scanned /\ StolenOnlyIfLate

-----------------------------------------------------------------------------
(* Arithmetic.                                                              *)

(* One more period. *)
LEMMA OneMore ==
  ASSUME NEW a \in Nat, NEW b \in Nat
  PROVE  a * b \in Nat /\ (a + 1) * b = a * b + b
  OBVIOUS

(* A non-empty set of naturals has a least element, and Min is it. *)
LEMMA MinIsMember ==
  ASSUME NEW S \in SUBSET Nat, S # {}
  PROVE  Min(S) \in S /\ \A y \in S : Min(S) <= y
  <1>1. PICK x \in S : \A y \in S : ~(<<y, x>> \in OpToRel(<, Nat))
    BY WFMin, NatLessThanWellFounded
  <1>2. \A y \in Nat : y < x => <<y, x>> \in OpToRel(<, Nat)
    BY Zenon DEF OpToRel
  <1>3. \A y \in S : x <= y
    <2>1. \A y \in S : ~(y < x)
      BY <1>1, <1>2, Zenon
    <2> QED
      BY <2>1
  <1> QED
    BY <1>3 DEF Min

(* Load's checks: every period is positive, but for a heartbeat of 0 if       *)
(* reclaimMinIdle is 1; a heartbeat is at most half of reclaimMinIdle.       *)
LEMMA LoadedDurations ==
  ASSUME NEW env \in Settings, ~Rejected(env)
  PROVE  LET d == Loaded(env) IN
         /\ d.beat \in Nat /\ d.reclaim \in Nat \ {0} /\ d.minIdle \in Nat \ {0}
         /\ d.gcEvery \in Nat \ {0}
         /\ 2 * d.beat <= d.minIdle
         /\ d.beat = 0 => d.minIdle = 1
  <1> DEFINE d == Loaded(env)
             half == d.minIdle \div 2
  <1>1. /\ env.minIdle \in Int /\ env.reclaim \in Int /\ env.gc \in Int /\ env.beat \in Int
        /\ env.gcEvery \in Int
        /\ Defaults.minIdle \in Nat \ {0} /\ Defaults.reclaim \in Nat \ {0}
        /\ Defaults.gcEvery \in Nat \ {0}
    BY HeartbeatAssumption
  <1>2. /\ ~NonPositive(env.minIdle) /\ ~NonPositive(env.reclaim) /\ ~NonPositive(env.beat)
        /\ ~NonPositive(env.gcEvery) /\ ~BeatTooLarge(env)
    BY DEF Rejected
  <1>3. /\ d.minIdle = Duration(env.minIdle, Defaults.minIdle)
        /\ d.reclaim = Duration(env.reclaim, Defaults.reclaim)
        /\ d.gcEvery = Duration(env.gcEvery, Defaults.gcEvery)
        /\ d.beat = LoadedBeat(env)
    BY DEF Loaded
  <1>4. d.minIdle \in Nat \ {0} /\ d.reclaim \in Nat \ {0} /\ d.gcEvery \in Nat \ {0}
    BY <1>1, <1>2, <1>3 DEF Duration, NonPositive
  <1>5. d.beat = IF Duration(env.beat, half) <= 0 THEN half ELSE Duration(env.beat, half)
    BY <1>3 DEF LoadedBeat
  <1>6. half \in Nat /\ 2 * half <= d.minIdle /\ (half = 0 => d.minIdle = 1)
    BY <1>4
  <1>7. ~(d.beat > half)
    BY <1>2, <1>3 DEF BeatTooLarge
  <1> HIDE DEF d, half
  <1>8. d.beat \in Nat /\ (d.beat = 0 => half = 0)
    BY <1>1, <1>2, <1>5, <1>6 DEF Duration, NonPositive, Unset
  <1> QED
    BY <1>4, <1>6, <1>7, <1>8 DEF d

(* The initial states. *)
LEMMA InitHInv == Init => HInv
  <1> SUFFICES ASSUME Init PROVE HInv
    OBVIOUS
  <1>1. cfg \in Configs /\ (NoTicker(cfg) \/ cfg.delay < Min({B, R}))
    BY DEF Init, B, R
  <1>2. PICK env \in Settings, dl \in Delays, g \in Grains :
            cfg = [d |-> Loaded(env), delay |-> dl, grain |-> g] /\ ~Rejected(env)
    BY <1>1 DEF Configs
  <1>3. /\ B \in Nat /\ R \in Nat \ {0} /\ MinIdle \in Nat \ {0}
        /\ 2 * B <= MinIdle /\ (B = 0 => MinIdle = 1) /\ cfg.d.gcEvery \in Nat \ {0}
    BY <1>2, LoadedDurations DEF B, R, MinIdle
  <1>4. cfg.delay \in Nat /\ G \in Nat
    BY <1>2, HeartbeatAssumption DEF G
  <1>5. NoTicker(cfg) <=> B = 0
    BY <1>3 DEF NoTicker, B, R
  <1>6. ~NoTicker(cfg) => cfg.delay < B /\ cfg.delay < R
    <2>1. {B, R} \in SUBSET Nat /\ {B, R} # {}
      BY <1>3
    <2>2. Min({B, R}) \in {B, R} /\ Min({B, R}) <= B /\ Min({B, R}) <= R
      BY <2>1, MinIsMember
    <2> QED
      BY <1>1, <1>3, <1>4, <2>2
  <1>7. CfgOK
    BY <1>3, <1>4, <1>5, <1>6 DEF CfgOK
  <1>8. Shape
    BY DEF Init, Shape, Quiet, Fired
  <1>9. Still
    BY DEF Init, Still
  <1>10. ~NoTicker(cfg) => beatIn \in 1..B /\ scanIn \in 1..R
    BY <1>3, <1>5 DEF Init, Phases, B, R
  <1>11. Ticking
    BY <1>10 DEF Init, Ticking
  <1>12. Beaten /\ StolenOnlyIfLate
    BY DEF Init, Beaten, StolenOnlyIfLate
  <1>13. Scanned
    <2> SUFFICES ASSUME ~NoTicker(cfg), NEW e \in Entries
                 PROVE  idle[e] <= MinIdle + G + misses * R + ScanDue(e) + (R - scanIn)
      BY DEF Scanned
    <2>1. idle[e] = 0 /\ misses = 0 /\ ScanDue(e) = 0
      BY DEF Init, ScanDue, Quiet, Fired
    <2> QED
      BY <1>3, <1>4, <1>10, <2>1
  <1> QED
    BY <1>7, <1>8, <1>9, <1>11, <1>12, <1>13 DEF HInv

-----------------------------------------------------------------------------
(* The steps.                                                               *)

(* The numbers a step reckons with. *)
LEMMA Numbers ==
  ASSUME HInv
  PROVE  /\ B \in Nat /\ R \in Nat /\ MinIdle \in Nat /\ cfg.delay \in Nat /\ G \in Nat
         /\ startIdle \in Nat /\ fails \in Nat /\ misses \in Nat
         /\ fails * B \in Nat /\ misses * R \in Nat
         /\ (fails + 1) * B = fails * B + B
         /\ (misses + 1) * R = misses * R + R
         /\ BeatDue \in {0, B}
         /\ \A e \in Entries : ScanDue(e) \in {0, R} /\ idle[e] \in Nat
         /\ ~NoTicker(cfg) => /\ beatIn \in 1..B /\ scanIn \in 1..R
                              /\ cfg.delay < B /\ cfg.delay < R
         /\ Entries \subseteq Nat /\ 0 \notin Entries
  <1>1. /\ B \in Nat /\ R \in Nat /\ MinIdle \in Nat /\ cfg.delay \in Nat /\ G \in Nat
        /\ startIdle \in Nat /\ fails \in Nat /\ misses \in Nat
        /\ \A e \in Entries : idle[e] \in Nat
        /\ ~NoTicker(cfg) => /\ beatIn \in 1..B /\ scanIn \in 1..R
                             /\ cfg.delay < B /\ cfg.delay < R
    BY DEF HInv, CfgOK, Shape, Ticking
  <1>2. /\ fails * B \in Nat /\ misses * R \in Nat
        /\ (fails + 1) * B = fails * B + B
        /\ (misses + 1) * R = misses * R + R
    BY <1>1, OneMore
  <1>3. BeatDue \in {0, B} /\ \A e \in Entries : ScanDue(e) \in {0, R}
    BY DEF BeatDue, ScanDue
  <1> QED
    BY <1>1, <1>2, <1>3 DEF Entries

(* The durations stay what they are. *)
LEMMA CfgKept ==
  ASSUME HInv, [Next]_vars
  PROVE  cfg' = cfg /\ CfgOK'
  <1>1. cfg' = cfg
    BY DEF Next, vars, Tick, Panic, Begin, Finish, Crash, BeatLoad, BeatClaim, BeatFail,
       ScanPending, ScanClaim, ScanFail, PeerFinish
  <1> QED
    BY <1>1 DEF HInv, CfgOK, B, R, MinIdle, G, NoTicker

(* The variables keep their types; without tickers no time passes. *)
LEMMA ShapeStep ==
  ASSUME HInv, [Next]_vars
  PROVE  Shape' /\ Still'
  <1>0. Shape /\ Still /\ cfg' = cfg /\ Entries \subseteq Nat /\ 0 \notin Entries
    BY CfgKept, Numbers DEF HInv
  <1>1. CASE Tick
    <2>1. /\ ~NoTicker(cfg)
          /\ idle' = [e \in Entries |-> IF owner[e] = "mine" THEN idle[e] + 1 ELSE 0]
          /\ scan' \in {scan, Fired} /\ scanAge' \in {0, scanAge + 1, scanAge}
          /\ beat' \in {beat, Fired} /\ beatAge' \in {0, beatAge + 1, beatAge}
          /\ UNCHANGED <<cfg, owner, life, todo, inFlight, startIdle, scanIds, fails, misses>>
      BY <1>1 DEF Tick, Age, mineVars
    <2>2. idle' \in [Entries -> Nat]
      BY <1>0, <2>1 DEF Shape
    <2>3. beatAge' \in Nat /\ scanAge' \in Nat
      BY <1>0, <2>1 DEF Shape
    <2> QED
      BY <1>0, <2>1, <2>2, <2>3 DEF Shape, Still, Fired
  <1>2. CASE Panic
    BY <1>0, <1>2 DEF Panic, Shape, Still, beatVars, scanVars
  <1>3. CASE Begin
    <2>1. todo \in SUBSET Nat /\ todo # {}
      BY <1>0, <1>3 DEF Begin, Shape
    <2>2. Min(todo) \in todo /\ Min(todo) \in Entries
      BY <1>0, <2>1, MinIsMember DEF Shape
    <2>3. startIdle' \in Nat
      <3>1. cfg.d.minIdle \in Nat
        BY DEF HInv, CfgOK, MinIdle
      <3> QED
        BY <1>0, <1>3, <2>2, <3>1 DEF Begin, Shape
    <2> QED
      BY <1>0, <1>3, <2>2, <2>3 DEF Begin, Shape, Still, beatVars, scanVars
  <1>4. CASE Finish
    BY <1>0, <1>4 DEF Finish, Shape, Still, beatVars, scanVars
  <1>5. CASE Crash
    BY <1>0, <1>5 DEF Crash, Shape, Still, scanVars
  <1>6. CASE BeatLoad
    BY <1>0, <1>6 DEF BeatLoad, Shape, Still, mineVars, scanVars
  <1>7. CASE BeatClaim
    BY <1>0, <1>7 DEF BeatClaim, XClaim, Shape, Still, mineVars, scanVars
  <1>8. CASE BeatFail
    BY <1>0, <1>8 DEF BeatFail, Shape, Still, mineVars, scanVars
  <1>9. CASE ScanPending
    BY <1>0, <1>9 DEF ScanPending, Stale, MaybeIdle, Pending, Shape, Still, mineVars, beatVars
  <1>10. CASE ScanClaim
    BY <1>0, <1>10 DEF ScanClaim, XClaim, Shape, Still, mineVars, beatVars
  <1>11. CASE ScanFail
    BY <1>0, <1>11 DEF ScanFail, Shape, Still, mineVars, beatVars
  <1>12. CASE PeerFinish
    BY <1>0, <1>12 DEF PeerFinish, Shape, Still, mineVars, beatVars, scanVars
  <1>13. CASE UNCHANGED vars
    BY <1>0, <1>13 DEF vars, Shape, Still, mineVars, beatVars, scanVars
  <1> QED
    BY <1>1, <1>2, <1>3, <1>4, <1>5, <1>6, <1>7, <1>8, <1>9, <1>10, <1>11, <1>12, <1>13 DEF Next

(* A tick, with its numbers: a command under way when a ticker fires is not     *)
(* one of that ticker's, for the delay is shorter than the period.          *)
LEMMA TickFacts ==
  ASSUME HInv, Tick
  PROVE  /\ ~NoTicker(cfg)
         /\ \/ /\ beatIn = 1 /\ beatIn' = B /\ beat = Quiet /\ beat' = Fired /\ beatAge' = 0
               /\ life = "up"
            \/ /\ beatIn > 1 /\ beatIn' = beatIn - 1 /\ beat' = beat /\ life = "up"
               /\ beatAge' = IF beat = Quiet THEN 0 ELSE beatAge + 1
            \/ /\ life # "up" /\ beatIn' = beatIn /\ beat' = beat
               /\ beatAge' = IF beat = Quiet THEN 0 ELSE beatAge + 1
         /\ \/ /\ scanIn = 1 /\ scanIn' = R /\ scan = Quiet /\ scan' = Fired /\ scanAge' = 0
            \/ /\ scanIn > 1 /\ scanIn' = scanIn - 1 /\ scan' = scan
               /\ scanAge' = IF scan = Quiet THEN 0 ELSE scanAge + 1
         /\ beat # Quiet => beatAge < cfg.delay
         /\ scan # Quiet => scanAge < cfg.delay
  <1>1. ~NoTicker(cfg) /\ (beat # Quiet => beatAge < cfg.delay) /\ (scan # Quiet => scanAge < cfg.delay)
    BY DEF Tick
  <1>2. /\ beatIn \in 1..B /\ scanIn \in 1..R /\ B \in Nat /\ R \in Nat
        /\ cfg.delay < B /\ cfg.delay < R /\ cfg.delay \in Nat
    BY <1>1, Numbers
  <1>3. /\ beat # Quiet => beatAge = B - beatIn
        /\ scan # Quiet => scanAge = R - scanIn
    BY <1>1 DEF HInv, Ticking
  <1>4. beatIn = 1 => beat = Quiet
    BY <1>1, <1>2, <1>3
  <1>5. scanIn = 1 => scan = Quiet
    BY <1>1, <1>2, <1>3
  <1> QED
    BY <1>1, <1>2, <1>4, <1>5 DEF Tick, Advance, Age, B, R

(* The tickers go on. *)
LEMMA TickingStep ==
  ASSUME HInv, [Next]_vars
  PROVE  Ticking'
  <1> SUFFICES ASSUME ~NoTicker(cfg)'
               PROVE  /\ beatIn' \in 1..B' /\ scanIn' \in 1..R'
                      /\ life' # "up" => beat' = Quiet
                      /\ beat' # Quiet => beatAge' = B' - beatIn' /\ beatAge' <= cfg'.delay
                      /\ scan' # Quiet => scanAge' = R' - scanIn' /\ scanAge' <= cfg'.delay
    BY DEF Ticking
  <1>0. /\ cfg' = cfg /\ B' = B /\ R' = R /\ ~NoTicker(cfg)
    BY CfgKept DEF B, R, NoTicker
  <1>1. /\ beatIn \in 1..B /\ scanIn \in 1..R /\ B \in Nat /\ R \in Nat /\ cfg.delay \in Nat
        /\ life # "up" => beat = Quiet
        /\ beat # Quiet => beatAge = B - beatIn /\ beatAge <= cfg.delay
        /\ scan # Quiet => scanAge = R - scanIn /\ scanAge <= cfg.delay
    BY <1>0, Numbers DEF HInv, Ticking
  <1>2. CASE Tick
    <2>1. life' = life
      BY <1>2 DEF Tick, mineVars
    <2>2. /\ beatIn' \in 1..B
          /\ life' # "up" => beat' = Quiet
          /\ beat' # Quiet => beatAge' = B - beatIn' /\ beatAge' <= cfg.delay
      BY <1>1, <1>2, <2>1, TickFacts
    <2>3. /\ scanIn' \in 1..R
          /\ scan' # Quiet => scanAge' = R - scanIn' /\ scanAge' <= cfg.delay
      BY <1>1, <1>2, TickFacts
    <2> QED
      BY <1>0, <2>2, <2>3
  <1>3. CASE Panic
    BY <1>0, <1>3 DEF Panic
  <1>4. CASE Begin \/ Finish \/ PeerFinish \/ UNCHANGED vars
    <2>1. UNCHANGED <<life, beatVars, scanVars>>
      BY <1>4 DEF Begin, Finish, PeerFinish, vars, mineVars
    <2> QED
      BY <1>0, <1>1, <2>1 DEF beatVars, scanVars
  <1>5. CASE Crash
    BY <1>0, <1>1, <1>5 DEF Crash, scanVars
  <1>6. CASE BeatLoad \/ BeatClaim \/ BeatFail
    <2>1. /\ UNCHANGED <<life, beatIn, beatAge, scanVars>> /\ beat # Quiet
      BY <1>6 DEF BeatLoad, BeatClaim, BeatFail, mineVars, Quiet, Fired
    <2> QED
      BY <1>0, <1>1, <2>1 DEF scanVars
  <1>7. CASE ScanPending \/ ScanClaim \/ ScanFail
    <2>1. /\ UNCHANGED <<life, scanIn, scanAge, beatVars>> /\ scan # Quiet
      BY <1>7 DEF ScanPending, ScanClaim, ScanFail, mineVars, Quiet, Fired
    <2> QED
      BY <1>0, <1>1, <2>1 DEF beatVars
  <1> QED
    BY <1>2, <1>3, <1>4, <1>5, <1>6, <1>7 DEF Next

(* The idle time of the entry in flight stays within its bound. *)
LEMMA BeatenStep ==
  ASSUME HInv, [Next]_vars
  PROVE  Beaten'
  <1> SUFFICES ASSUME inFlight' # 0, owner'[inFlight'] = "mine"
               PROVE  idle'[inFlight'] <= startIdle' + fails' * B' + BeatDue' + (B' - beatIn')
    BY DEF Beaten
  <1>0. /\ cfg' = cfg /\ B' = B /\ Shape /\ Shape' /\ Beaten /\ Still'
        /\ NoTicker(cfg)' = NoTicker(cfg)
    BY CfgKept, ShapeStep DEF B, HInv, NoTicker
  <1>n. ~NoTicker(cfg)
    BY <1>0 DEF Still
  <1>1. /\ beatIn \in 1..B /\ B \in Nat /\ startIdle \in Nat /\ fails \in Nat
        /\ fails * B \in Nat /\ (fails + 1) * B = fails * B + B
        /\ \A e \in Entries : idle[e] \in Nat
        /\ 0 \notin Entries /\ Entries \subseteq Nat
    BY <1>n, Numbers
  <1>2. CASE Tick
    <2>1. /\ UNCHANGED <<inFlight, owner, startIdle, fails, life>>
          /\ idle'[inFlight] = idle[inFlight] + 1
      BY <1>0, <1>2 DEF Tick, mineVars, Shape
    <2>2. idle[inFlight] <= startIdle + fails * B + BeatDue + (B - beatIn)
      BY <1>0, <2>1 DEF Beaten
    <2>3. life = "up" /\ inFlight \in Entries /\ idle[inFlight] \in Nat
      BY <1>0, <2>1 DEF Shape
    <2>4. \/ /\ beatIn = 1 /\ beatIn' = B /\ beat = Quiet /\ beat' = Fired
          \/ /\ beatIn > 1 /\ beatIn' = beatIn - 1 /\ beat' = beat
      BY <1>2, <2>3, TickFacts
    <2>5. CASE beatIn = 1 /\ beatIn' = B /\ beat = Quiet /\ beat' = Fired
      <3>1. BeatDue = 0 /\ BeatDue' = B
        BY <1>0, <1>1, <2>3, <2>5 DEF BeatDue, Quiet, Fired
      <3> QED
        BY <1>0, <1>1, <2>1, <2>2, <2>3, <2>5, <3>1
    <2>6. CASE beatIn > 1 /\ beatIn' = beatIn - 1 /\ beat' = beat
      <3>1. BeatDue' = BeatDue /\ BeatDue \in {0, B}
        BY <1>0, <2>1, <2>6 DEF BeatDue
      <3> QED
        BY <1>0, <1>1, <2>1, <2>2, <2>3, <2>6, <3>1
    <2> QED
      BY <2>4, <2>5, <2>6
  <1>3. CASE Panic
    BY <1>n, <1>3 DEF Panic
  <1>4. CASE Begin
    <2>1. /\ inFlight' = Min(todo) /\ UNCHANGED <<owner, idle, beatIn>> /\ fails' = 0
          /\ owner[Min(todo)] = "mine" => startIdle' = idle[Min(todo)]
      BY <1>4 DEF Begin, beatVars
    <2>2. BeatDue' \in {0, B}
      BY <1>0 DEF BeatDue
    <2>3. idle'[inFlight'] = startIdle' /\ startIdle' \in Nat
      BY <1>0, <2>1 DEF Shape
    <2>4. fails' * B' = 0
      BY <1>0, <1>1, <2>1
    <2>5. B' - beatIn' \in Nat
      BY <1>0, <1>1, <2>1
    <2>6. BeatDue' \in Nat
      BY <1>1, <2>2
    <2> QED
      BY <2>3, <2>4, <2>5, <2>6
  <1>5. CASE Finish \/ Crash
    BY <1>5 DEF Finish, Crash
  <1>6. CASE BeatLoad
    <2>1. /\ UNCHANGED <<inFlight, owner, idle, startIdle, fails, beatIn>>
          /\ beat = Fired /\ beat' = inFlight
      BY <1>6 DEF BeatLoad, mineVars
    <2>2. BeatDue = B /\ BeatDue' = B
      BY <1>0, <2>1 DEF BeatDue
    <2> QED
      BY <1>0, <2>1, <2>2 DEF Beaten
  <1>7. CASE BeatClaim
    <2>1. /\ UNCHANGED <<inFlight, startIdle, fails, beatIn>>
          /\ beat > Fired /\ beat' = Quiet /\ XClaim("mine", {beat} \cap Pending)
      BY <1>7 DEF BeatClaim, mineVars
    <2>2. inFlight \in Entries
      BY <1>0, <2>1 DEF Shape
    <2>3. BeatDue' = 0
      BY <1>1, <2>1, <2>2 DEF BeatDue, Quiet, Fired
    <2>4. CASE beat = inFlight
      <3>1. idle'[inFlight] = 0
        <4>1. owner[inFlight] # "done"
          BY <2>1, <2>2 DEF XClaim, Pending
        <4> QED
          BY <2>1, <2>2, <2>4, <4>1 DEF XClaim, Pending
      <3> QED
        BY <1>0, <1>1, <2>1, <2>3, <3>1
    <2>5. CASE beat # inFlight
      <3>1. idle'[inFlight] = idle[inFlight] /\ owner'[inFlight] = owner[inFlight]
        BY <2>1, <2>2, <2>5 DEF XClaim
      <3>2. BeatDue = 0
        BY <2>1, <2>5 DEF BeatDue, Fired
      <3> QED
        BY <1>0, <2>1, <2>3, <3>1, <3>2 DEF Beaten
    <2> QED
      BY <2>4, <2>5
  <1>8. CASE BeatFail
    <2>1. /\ UNCHANGED <<inFlight, owner, idle, startIdle, beatIn>>
          /\ fails' = fails + 1 /\ beat' = Quiet
      BY <1>8 DEF BeatFail, mineVars
    <2>2. inFlight \in Entries
      BY <1>0, <2>1 DEF Shape
    <2>3. BeatDue' = 0 /\ BeatDue \in {0, B}
      BY <1>1, <2>1, <2>2 DEF BeatDue, Quiet, Fired
    <2>4. idle[inFlight] <= startIdle + fails * B + BeatDue + (B - beatIn)
      BY <1>0, <2>1 DEF Beaten
    <2>5. idle[inFlight] \in Nat /\ fails' * B = fails * B + B
      BY <1>1, <2>1, <2>2
    <2> QED
      BY <1>0, <1>1, <2>1, <2>3, <2>4, <2>5
  <1>9. CASE ScanPending \/ ScanFail \/ UNCHANGED vars
    <2>1. UNCHANGED <<inFlight, owner, idle, startIdle, fails, beatIn, beat>>
      BY <1>9 DEF ScanPending, ScanFail, vars, mineVars, beatVars
    <2>2. BeatDue' = BeatDue
      BY <1>0, <2>1 DEF BeatDue
    <2> QED
      BY <1>0, <2>1, <2>2 DEF Beaten
  <1>10. CASE ScanClaim \/ PeerFinish
    <2>1. UNCHANGED <<inFlight, startIdle, fails, beatIn, beat>>
      BY <1>10 DEF ScanClaim, PeerFinish, mineVars, beatVars
    <2>2. inFlight \in Entries
      BY <1>0, <2>1 DEF Shape
    <2>3. owner[inFlight] = "mine" /\ idle'[inFlight] = idle[inFlight]
      <3>1. CASE ScanClaim
        BY <2>1, <2>2, <3>1 DEF ScanClaim, XClaim
      <3>2. CASE PeerFinish
        BY <1>0, <2>1, <2>2, <3>2 DEF PeerFinish, Shape
      <3> QED
        BY <1>10, <3>1, <3>2
    <2>4. BeatDue' = BeatDue
      BY <1>0, <2>1 DEF BeatDue
    <2> QED
      BY <1>0, <2>1, <2>3, <2>4 DEF Beaten
  <1> QED
    BY <1>2, <1>3, <1>4, <1>5, <1>6, <1>7, <1>8, <1>9, <1>10 DEF Next

(* So does that of every entry of the consumer. *)
LEMMA ScannedStep ==
  ASSUME HInv, [Next]_vars
  PROVE  Scanned'
  <1> SUFFICES ASSUME ~NoTicker(cfg)', NEW e \in Entries, owner'[e] = "mine"
               PROVE  idle'[e] <= MinIdle' + G' + misses' * R' + ScanDue(e)' + (R' - scanIn')
    BY DEF Scanned
  <1>0. /\ cfg' = cfg /\ R' = R /\ MinIdle' = MinIdle /\ G' = G /\ ~NoTicker(cfg)
        /\ Shape /\ Shape' /\ Scanned
    BY CfgKept, ShapeStep DEF R, MinIdle, G, HInv, NoTicker
  <1>1. /\ scanIn \in 1..R /\ R \in Nat /\ MinIdle \in Nat /\ G \in Nat /\ misses \in Nat
        /\ misses * R \in Nat /\ (misses + 1) * R = misses * R + R
        /\ idle[e] \in Nat /\ ScanDue(e) \in {0, R}
    BY <1>0, Numbers
  <1>2. owner[e] = "mine" => idle[e] <= MinIdle + G + misses * R + ScanDue(e) + (R - scanIn)
    BY <1>0 DEF Scanned
  <1>3. CASE Tick
    <2>1. /\ UNCHANGED <<owner, misses, scanIds>> /\ idle'[e] = idle[e] + 1
      BY <1>3 DEF Tick
    <2>2. CASE scanIn = 1 /\ scanIn' = R /\ scan = Quiet /\ scan' = Fired
      <3>1. ScanDue(e) = 0 /\ ScanDue(e)' = R
        BY <1>0, <2>2 DEF ScanDue, Quiet, Fired
      <3> QED
        BY <1>0, <1>1, <1>2, <2>1, <2>2, <3>1
    <2>3. CASE scanIn > 1 /\ scanIn' = scanIn - 1 /\ scan' = scan
      <3>1. ScanDue(e)' = ScanDue(e)
        BY <1>0, <2>1, <2>3 DEF ScanDue
      <3> QED
        BY <1>0, <1>1, <1>2, <2>1, <2>3, <3>1
    <2> QED
      BY <1>3, <2>2, <2>3, TickFacts
  <1>4. CASE Panic \/ Begin \/ BeatLoad \/ BeatFail \/ Crash \/ UNCHANGED vars
    <2>1. UNCHANGED <<owner, idle, misses, scanIds, scan, scanIn>>
      BY <1>4 DEF Panic, Begin, BeatLoad, BeatFail, Crash, vars, scanVars
    <2>2. ScanDue(e)' = ScanDue(e)
      BY <1>0, <2>1 DEF ScanDue
    <2> QED
      BY <1>0, <1>2, <2>1, <2>2
  <1>5. CASE Finish \/ BeatClaim \/ PeerFinish
    <2>1. UNCHANGED <<misses, scanIds, scan, scanIn>>
      BY <1>5 DEF Finish, BeatClaim, PeerFinish, scanVars
    <2>2. \/ owner[e] = "mine" /\ idle'[e] = idle[e]
          \/ idle'[e] = 0
      BY <1>0, <1>5 DEF Finish, BeatClaim, PeerFinish, XClaim, Shape
    <2>3. ScanDue(e)' = ScanDue(e)
      BY <1>0, <2>1 DEF ScanDue
    <2> QED
      BY <1>0, <1>1, <1>2, <2>1, <2>2, <2>3
  <1>6. CASE ScanPending
    <2>0. PICK S \in Stale : scanIds' = {f \in S : owner[f] # "peer"}
      BY <1>6 DEF ScanPending
    <2>1. /\ UNCHANGED <<owner, idle, misses, scanIn>> /\ scan = Fired
          /\ scan' = IF scanIds' = {} THEN Quiet ELSE 1
      BY <1>6 DEF ScanPending
    <2>2. CASE e \in scanIds'
      <3>1. ScanDue(e)' = R /\ ScanDue(e) = R
        BY <1>0, <2>1, <2>2 DEF ScanDue
      <3> QED
        BY <1>0, <1>2, <2>1, <3>1
    <2>3. CASE e \notin scanIds'
      <3>1. ScanDue(e)' = 0
        BY <2>1, <2>3 DEF ScanDue, Quiet, Fired
      <3>2. idle[e] < MinIdle + G
        <4>1. e \notin LongIdle /\ owner[e] = "mine"
          BY <2>0, <2>1, <2>3 DEF Stale
        <4> QED
          BY <1>1, <4>1 DEF LongIdle, Pending, MinIdle, G
      <3> QED
        BY <1>0, <1>1, <2>1, <3>1, <3>2
    <2> QED
      BY <2>2, <2>3
  <1>7. CASE ScanClaim
    <2>0. PICK S \in Stale : XClaim("peer", scanIds \cap S)
      BY <1>7 DEF ScanClaim
    <2>1. /\ scan > Fired
          /\ scan' = Quiet /\ scanIds' = {} /\ UNCHANGED <<misses, scanIn>>
      BY <1>7 DEF ScanClaim
    <2>2. e \notin scanIds \cap S /\ owner[e] = "mine" /\ idle'[e] = idle[e]
      BY <2>0 DEF XClaim
    <2>3. ScanDue(e)' = 0
      BY <2>1 DEF ScanDue, Quiet, Fired
    <2>4. CASE e \in scanIds
      <3>1. idle[e] < MinIdle + G
        <4>1. e \notin LongIdle
          BY <2>0, <2>2, <2>4 DEF Stale
        <4> QED
          BY <1>1, <2>2, <4>1 DEF LongIdle, Pending, MinIdle, G
      <3> QED
        BY <1>0, <1>1, <2>1, <2>2, <2>3, <3>1
    <2>5. CASE e \notin scanIds
      <3>1. ScanDue(e) = 0
        BY <2>1, <2>5 DEF ScanDue, Fired
      <3> QED
        BY <1>0, <1>2, <2>1, <2>2, <2>3, <3>1
    <2> QED
      BY <2>4, <2>5
  <1>8. CASE ScanFail
    <2>1. /\ UNCHANGED <<owner, idle, scanIn>> /\ misses' = misses + 1
          /\ scan' = Quiet /\ scanIds' = {}
      BY <1>8 DEF ScanFail
    <2>2. ScanDue(e)' = 0
      BY <2>1 DEF ScanDue, Quiet, Fired
    <2>3. misses' * R = misses * R + R
      BY <1>1, <2>1
    <2> QED
      BY <1>0, <1>1, <1>2, <2>1, <2>2, <2>3
  <1> QED
    BY <1>3, <1>4, <1>5, <1>6, <1>7, <1>8 DEF Next

(* The peer takes the entry in flight only if it was idle for reclaimMinIdle,  *)
(* which by Beaten takes that long.                                         *)
LEMMA StolenStep ==
  ASSUME HInv, [Next]_vars
  PROVE  StolenOnlyIfLate'
  <1> SUFFICES ASSUME inFlight' # 0, owner'[inFlight'] = "peer"
               PROVE  startIdle' + (fails' + 1) * B' + cfg'.delay + G' >= MinIdle'
    BY DEF StolenOnlyIfLate, B, MinIdle, G
  <1>0. /\ cfg' = cfg /\ B' = B /\ MinIdle' = MinIdle /\ G' = G /\ Shape /\ Shape' /\ Beaten
        /\ Still' /\ NoTicker(cfg)' = NoTicker(cfg) /\ StolenOnlyIfLate
    BY CfgKept, ShapeStep DEF B, MinIdle, G, HInv, NoTicker
  <1>n. ~NoTicker(cfg)
    BY <1>0 DEF Still
  <1>1. /\ beatIn \in 1..B /\ B \in Nat /\ startIdle \in Nat /\ fails \in Nat
        /\ fails * B \in Nat /\ (fails + 1) * B = fails * B + B
        /\ MinIdle \in Nat /\ cfg.delay \in Nat /\ G \in Nat
        /\ \A e \in Entries : idle[e] \in Nat
        /\ 0 \notin Entries /\ Entries \subseteq Nat
    BY <1>n, Numbers
  <1>2. ASSUME UNCHANGED <<inFlight, startIdle>>, fails' \in {fails, fails + 1},
               owner[inFlight] = "peer"
        PROVE  startIdle' + (fails' + 1) * B' + cfg'.delay + G' >= MinIdle'
    <2>1. startIdle + (fails + 1) * B + cfg.delay + G >= MinIdle
      BY <1>0, <1>2 DEF StolenOnlyIfLate, B, MinIdle, G
    <2>2. fails + 1 \in Nat /\ (fails + 1 + 1) * B = (fails + 1) * B + B
      BY <1>1, OneMore
    <2>3. (fails' + 1) * B = (fails + 1) * B \/ (fails' + 1) * B = (fails + 1) * B + B
      BY <1>2, <2>2
    <2> QED
      BY <1>0, <1>1, <1>2, <2>1, <2>3
  <1>3. CASE Tick \/ BeatLoad \/ BeatFail \/ ScanPending \/ ScanFail \/ UNCHANGED vars
    <2>1. UNCHANGED <<inFlight, startIdle, owner>> /\ fails' \in {fails, fails + 1}
      BY <1>3 DEF Tick, BeatLoad, BeatFail, ScanPending, ScanFail, vars, mineVars
    <2> QED
      BY <1>2, <2>1
  <1>4. CASE Panic
    BY <1>n, <1>4 DEF Panic
  <1>5. CASE Begin
    <2>1. inFlight' = Min(todo) /\ owner' = owner /\ fails' = 0 /\ startIdle' = MinIdle
      BY <1>5 DEF Begin, MinIdle
    <2>2. (fails' + 1) * B = B
      BY <1>1, <2>1
    <2> QED
      BY <1>0, <1>1, <2>1, <2>2
  <1>6. CASE Finish \/ Crash
    BY <1>6 DEF Finish, Crash
  <1>7. CASE BeatClaim \/ PeerFinish
    <2>1. UNCHANGED <<inFlight, startIdle, fails>>
      BY <1>7 DEF BeatClaim, PeerFinish, mineVars
    <2>2. inFlight \in Entries
      BY <1>0, <2>1 DEF Shape
    <2>3. owner[inFlight] = "peer"
      BY <1>0, <1>7, <2>1, <2>2 DEF BeatClaim, PeerFinish, XClaim, Shape
    <2> QED
      BY <1>2, <2>1, <2>3
  <1>8. CASE ScanClaim
    <2>0. PICK S \in Stale : XClaim("peer", scanIds \cap S)
      BY <1>8 DEF ScanClaim
    <2>1. UNCHANGED <<inFlight, startIdle, fails>>
      BY <1>8 DEF ScanClaim, mineVars
    <2>2. inFlight \in Entries
      BY <1>0, <2>1 DEF Shape
    <2>3. CASE owner[inFlight] = "peer"
      BY <1>2, <2>1, <2>3
    <2>4. CASE owner[inFlight] # "peer"
      <3>1. inFlight \in MaybeIdle
        BY <2>0, <2>1, <2>2, <2>4 DEF XClaim, Stale
      <3>2. idle[inFlight] + G >= MinIdle /\ owner[inFlight] = "mine"
        BY <1>0, <2>2, <2>4, <3>1 DEF MaybeIdle, Pending, Shape, MinIdle, G
      <3>3. idle[inFlight] <= startIdle + fails * B + BeatDue + (B - beatIn)
        BY <1>0, <2>1, <3>2 DEF Beaten
      <3>4. BeatDue = 0 \/ (BeatDue = B /\ B - beatIn <= cfg.delay)
        <4>1. beat # Quiet => beatAge = B - beatIn /\ beatAge <= cfg.delay
          BY <1>n DEF HInv, Ticking
        <4>2. BeatDue # 0 => beat # Quiet /\ BeatDue = B
          BY <1>1, <2>2 DEF BeatDue, Quiet, Fired
        <4> QED
          BY <4>1, <4>2
      <3>5. idle[inFlight] \in Nat
        BY <1>1, <2>2
      <3> QED
        BY <1>0, <1>1, <2>1, <3>2, <3>3, <3>4, <3>5
    <2> QED
      BY <2>3, <2>4
  <1> QED
    BY <1>3, <1>4, <1>5, <1>6, <1>7, <1>8 DEF Next

(* The invariant holds throughout. *)
LEMMA HeartbeatInvariant == Spec => []HInv
  <1>1. HInv /\ [Next]_vars => HInv'
    BY CfgKept, ShapeStep, TickingStep, BeatenStep, ScannedStep, StolenStep DEF HInv
  <1> QED
    BY InitHInv, <1>1, PTL DEF Spec

-----------------------------------------------------------------------------
(* The theorems.                                                            *)

(* TakenOverInTime: peerReclaim takes over what a dead consumer leaves, within  *)
(* reclaimMinIdle, a period for each failed scan and one more, a delay and a  *)
(* grain.                                                                   *)
THEOREM TakenOver == Spec => []TakenOverInTime
  <1>1. HInv => TakenOverInTime
    <2> SUFFICES ASSUME HInv, NEW e \in Entries, owner[e] = "mine"
                 PROVE  idle[e] <= MinIdle + (misses + 1) * R + cfg.delay + G
      BY DEF TakenOverInTime, MinIdle, R, G
    <2>1. /\ R \in Nat /\ MinIdle \in Nat /\ cfg.delay \in Nat /\ misses * R \in Nat
          /\ G \in Nat
          /\ (misses + 1) * R = misses * R + R /\ idle[e] \in Nat
      BY Numbers
    <2>2. CASE NoTicker(cfg)
      <3>1. idle[e] = 0
        BY <2>2 DEF HInv, Still
      <3> QED
        BY <2>1, <3>1
    <2>3. CASE ~NoTicker(cfg)
      <3>1. /\ scanIn \in 1..R
            /\ idle[e] <= MinIdle + G + misses * R + ScanDue(e) + (R - scanIn)
        BY <2>3, Numbers DEF HInv, Scanned
      <3>2. ScanDue(e) = 0 \/ (ScanDue(e) = R /\ R - scanIn <= cfg.delay)
        <4>1. scan # Quiet => scanAge = R - scanIn /\ scanAge <= cfg.delay
          BY <2>3 DEF HInv, Ticking
        <4>2. ScanDue(e) # 0 => scan # Quiet /\ ScanDue(e) = R
          BY DEF ScanDue, Quiet, Fired
        <4> QED
          BY <4>1, <4>2
      <3> QED
        BY <2>1, <3>1, <3>2
    <2> QED
      BY <2>2, <2>3
  <1> QED
    BY <1>1, HeartbeatInvariant, PTL

(* StolenOnlyIfLate: peerReclaim takes the entry in flight only if its turn     *)
(* came late, heartbeats failed or reclaimMinIdle is shorter than a period,   *)
(* a delay and a grain.                                                     *)
THEOREM StolenLate == Spec => []StolenOnlyIfLate
  <1>1. HInv => StolenOnlyIfLate
    BY DEF HInv
  <1> QED
    BY <1>1, HeartbeatInvariant, PTL

(* HeartbeatProtects: with Load's heartbeat of at most half of reclaimMinIdle,  *)
(* commands faster by a grain than the other half and no failure, the first   *)
(* entry of a page is never taken.                                          *)
THEOREM Protected == Spec => []HeartbeatProtects
  <1>1. HInv => HeartbeatProtects
    <2> SUFFICES ASSUME HInv, inFlight = Min(Entries), startIdle = 0, fails = 0,
                        2 * (cfg.delay + G) < MinIdle, owner[inFlight] = "peer"
                 PROVE  FALSE
      BY DEF HeartbeatProtects, MinIdle, G
    <2>1. /\ B \in Nat /\ MinIdle \in Nat \ {0} /\ cfg.delay \in Nat /\ 2 * B <= MinIdle
          /\ G \in Nat
      BY DEF HInv, CfgOK
    <2>2. inFlight # 0
      <3>1. inFlight = 0 => FALSE
        <4> SUFFICES ASSUME inFlight = 0 PROVE FALSE
          OBVIOUS
        <4>1. Entries \in SUBSET Nat /\ 0 \notin Entries /\ Entries # {}
          <5>1. MaxEntries \in Nat /\ MaxEntries # 0
            BY HeartbeatAssumption
          <5>2. 1 \in Entries
            BY <5>1 DEF Entries
          <5> QED
            BY <5>2, Numbers
        <4>2. Min(Entries) \in Entries
          BY <4>1, MinIsMember
        <4> QED
          BY <4>1, <4>2
      <3> QED
        BY <3>1
    <2>3. startIdle + (fails + 1) * B + cfg.delay + G >= MinIdle
      BY <2>2 DEF HInv, StolenOnlyIfLate, B, MinIdle, G
    <2>4. (fails + 1) * B = B
      BY <2>1
    <2> QED
      BY <2>1, <2>3, <2>4
  <1> QED
    BY <1>1, HeartbeatInvariant, PTL

(* PanicsOnlyAtOne: whatever the environment says, Load leaves none of the three *)
(* tickers (heartbeat, reclaim, consumer GC) without a period, but for a       *)
(* reclaimMinIdle of one nanosecond.                                        *)
THEOREM PanicsAtOne == Spec => []PanicsOnlyAtOne
  <1>1. HInv => PanicsOnlyAtOne
    BY DEF HInv, Still, CfgOK, PanicsOnlyAtOne, MinIdle
  <1> QED
    BY <1>1, HeartbeatInvariant, PTL
=============================================================================
