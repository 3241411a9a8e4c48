--------------------------- MODULE StartupProofs ---------------------------
(***************************************************************************)
(* Proofs about Startup, for any catalogue, any bindings and any number of   *)
(* them: what the checks of Load leave for later, and what is true of the    *)
(* consumers that run.                                                      *)
(***************************************************************************)
EXTENDS Startup, SequenceTheorems, WellFoundedInduction, TLAPS

-----------------------------------------------------------------------------
(* The inductive invariant: how far main has come, and what has been checked *)
(* on the way.                                                              *)

Starting == {"catalog", "handlers", "serving"}
Loaded == {"init"} \cup Starting
Validated == {"settings"} \cup Loaded
Serviced == {"bindings"} \cup Validated
Catalogued == {"services"} \cup Serviced

Count == Len(cfg.streams)

(* Every variable has its type, and the loops their bounds. *)
Shape ==
    /\ cfg \in Files
    /\ pc \in {"file", "lookups", "exited"} \cup Catalogued
    /\ i \in Nat \ {0}
    /\ i <= Count + 1
    /\ pc \in {"bindings", "handlers"} => i <= Count
    /\ pc \in {"file", "lookups", "services", "settings", "init", "catalog"} => i = 1
    /\ pc = "serving" => i = Count + 1
    /\ svc \subseteq {"internal", "gateway", "db"}
    /\ todo \subseteq Defined
    /\ catalog \subseteq Defined
    /\ running \subseteq 1..Count
    /\ sent \subseteq running \X {"internal", "gateway", None}

LookupsOK ==
    \A n \in Defined : cfg.lookups[n].type = "sql" /\ cfg.lookups[n].ttl # "bad"

ServicesOK ==
    /\ cfg.internal # "empty"
    /\ cfg.gateway # "empty"
    /\ cfg.gateway = "set" => cfg.credentials = "set"
    /\ AnyEnrich => cfg.dsn \in {"bad", "set"}

BindingOK(b) ==
    /\ b.handler # None \/ b.emit
    /\ \A r \in DOMAIN b.enrich : b.enrich[r].lookup \in Defined /\ b.enrich[r].ident

HandlerOK(b) == b.handler \in DOMAIN Registry \cup {None}

(* What Load has checked. *)
LoadedOK ==
    /\ pc \in {"lookups"} \cup Catalogued => cfg.streams # <<>>
    /\ pc \in Catalogued => LookupsOK
    /\ pc \in Serviced => ServicesOK
    /\ pc = "bindings" => \A j \in 1..Count : j < i => BindingOK(cfg.streams[j])
    /\ pc \in Validated => \A j \in 1..Count : BindingOK(cfg.streams[j])

(* services.New has made the clients the file names. *)
ClientsOK ==
    /\ "internal" \in svc <=> cfg.internal # "unnamed"
    /\ "gateway" \in svc <=> cfg.gateway # "unnamed"
    /\ "db" \in svc <=> cfg.dsn = "set"

(* What has been built. *)
BuiltOK ==
    /\ pc \notin Starting \cup {"exited"} => catalog = {}
    /\ pc \in Starting => cfg.dsn # "bad" /\ ClientsOK
    /\ pc \in Starting => Defined = todo \cup catalog
    /\ pc \in Starting => \A n \in catalog : cfg.lookups[n].sql /\ "db" \in svc
    /\ pc \in {"handlers", "serving"} => todo = {}
    /\ pc \in {"handlers", "serving"} => \A j \in 1..Count : j < i => HandlerOK(cfg.streams[j])

(* Consumers run from the loop over the bindings on. *)
RunningOK ==
    /\ pc \in {"handlers", "serving"} => \A k \in running : k < i
    /\ pc \notin {"handlers", "serving", "exited"} => running = {}

(* The process has ended with an error, and only then has it one. *)
EndedOK ==
    /\ pc = "exited" <=> result # "none"
    /\ result \notin Elsewhere \cup {"none"} => ~Sound

SInv == /\ Shape /\ LoadedOK /\ BuiltOK /\ RunningOK /\ EndedOK
        /\ GapsAfterLoad /\ KilledByHandlerOnly /\ ForwardedOrUnnamed

-----------------------------------------------------------------------------
(* Facts about the file and the checks.                                     *)

(* A non-empty set of naturals has a least element, and Min is it. *)
LEMMA MinIsMember ==
  ASSUME NEW S \in SUBSET Nat, S # {}
  PROVE  Min(S) \in S
  <1>1. PICK x \in S : \A y \in S : ~(<<y, x>> \in OpToRel(<, Nat))
    BY WFMin, NatLessThanWellFounded
  <1>2. \A y \in Nat : y < x => <<y, x>> \in OpToRel(<, Nat)
    BY Zenon DEF OpToRel
  <1>3. \A y \in S : x <= y
    <2>1. \A y \in S : ~(y < x)
      BY <1>1, <1>2, Zenon
    <2> QED
      BY <2>1
  <1> QED
    BY <1>3 DEF Min

(* What the instance's block looks like. *)
LEMMA FileFacts ==
  ASSUME cfg \in Files
  PROVE  /\ cfg.streams \in Seq(Bindings)
         /\ Count \in Nat /\ Count <= MaxBindings
         /\ DOMAIN cfg.streams = 1..Count
         /\ cfg.streams # <<>> => Count # 0
         /\ Defined \subseteq LookupNames
         /\ \A n \in Defined : cfg.lookups[n].sql \in BOOLEAN
         /\ cfg.internal \in {"unnamed", "empty", "set"}
         /\ cfg.gateway \in {"unnamed", "empty", "set"}
         /\ cfg.credentials \in {"unnamed", "empty", "set"}
         /\ cfg.dsn \in {"unnamed", "empty", "bad", "set"}
  <1>1. /\ cfg.streams \in BoundedSeq(Bindings, MaxBindings)
        /\ cfg.lookups \in UNION {[D -> Specs] : D \in SUBSET LookupNames}
        /\ cfg.internal \in {"unnamed", "empty", "set"}
        /\ cfg.gateway \in {"unnamed", "empty", "set"}
        /\ cfg.credentials \in {"unnamed", "empty", "set"}
        /\ cfg.dsn \in {"unnamed", "empty", "bad", "set"}
    BY DEF Files
  <1>2. PICK m \in 0..MaxBindings : cfg.streams \in [1..m -> Bindings]
    BY <1>1 DEF BoundedSeq, SeqOf
  <1>3. m \in Nat /\ m <= MaxBindings
    BY <1>2, StartupAssumption
  <1>4. /\ cfg.streams \in Seq(Bindings) /\ Len(cfg.streams) = m
        /\ DOMAIN cfg.streams = 1..m
    BY <1>2, <1>3
  <1>5. cfg.streams # <<>> => m # 0
    BY <1>4, EmptySeq
  <1>6. PICK D \in SUBSET LookupNames : cfg.lookups \in [D -> Specs]
    BY <1>1
  <1>7. Defined = D /\ \A n \in D : cfg.lookups[n] \in Specs
    BY <1>6 DEF Defined
  <1>8. \A n \in D : cfg.lookups[n].sql \in BOOLEAN
    BY <1>7, StartupAssumption
  <1> QED
    BY <1>1, <1>3, <1>4, <1>5, <1>6, <1>7, <1>8 DEF Count

(* A binding and its rules. *)
LEMMA BindingFacts ==
  ASSUME NEW b \in Bindings
  PROVE  /\ b.emit \in BOOLEAN
         /\ DOMAIN b.enrich \in SUBSET Nat
         /\ \A r \in DOMAIN b.enrich : b.enrich[r].ident \in BOOLEAN
         /\ b.enrich = <<>> <=> DOMAIN b.enrich = {}
  <1>1. b.emit \in BOOLEAN /\ b.enrich \in Seq([lookup : LookupNames, ident : BOOLEAN])
    BY StartupAssumption
  <1>2. PICK e : e = b.enrich
    OBVIOUS
  <1>3. /\ e \in Seq([lookup : LookupNames, ident : BOOLEAN])
        /\ DOMAIN e = 1..Len(e) /\ Len(e) \in Nat
    BY <1>1, <1>2
  <1>4. e = <<>> <=> DOMAIN e = {}
    <2>1. Len(e) = 0 <=> 1..Len(e) = {}
      <3>1. Len(e) # 0 => 1 \in 1..Len(e)
        BY <1>3
      <3>2. Len(e) = 0 => \A r \in 1..Len(e) : FALSE
        BY <1>3
      <3> QED
        BY <3>1, <3>2
    <2> QED
      BY <1>3, <2>1, EmptySeq
  <1>5. \A r \in DOMAIN e : e[r].ident \in BOOLEAN
    <2> DEFINE Rules == [lookup : LookupNames, ident : BOOLEAN]
    <2>1. \A x \in Rules : x.ident \in BOOLEAN
      OBVIOUS
    <2>2. e \in Seq(Rules)
      BY <1>3
    <2> HIDE DEF Rules
    <2>3. \A r \in DOMAIN e : e[r] \in Rules
      BY <2>2
    <2> QED
      BY <2>1, <2>3
  <1> QED
    BY <1>1, <1>2, <1>3, <1>4, <1>5

(* The loop over a binding's rules finds an error iff there is a bad one. *)
LEMMA BindingErrorFacts ==
  ASSUME NEW b \in Bindings
  PROVE  /\ BindingError(b) = "none" <=> BindingOK(b)
         /\ BindingError(b) \in {"none", "ErrEmptyBinding", "ErrUnknownLookup", "ErrBadBindKey"}
  <1> DEFINE bad == {r \in DOMAIN b.enrich : RuleError(b.enrich[r]) # "none"}
  <1>1. \A r \in DOMAIN b.enrich :
            /\ RuleError(b.enrich[r]) \in {"none", "ErrUnknownLookup", "ErrBadBindKey"}
            /\ RuleError(b.enrich[r]) = "none"
                 <=> b.enrich[r].lookup \in Defined /\ b.enrich[r].ident
    BY BindingFacts DEF RuleError
  <1>2. bad = {} <=> \A r \in DOMAIN b.enrich : b.enrich[r].lookup \in Defined /\ b.enrich[r].ident
    BY <1>1
  <1>3. bad # {} => RuleError(b.enrich[Min(bad)]) \in {"ErrUnknownLookup", "ErrBadBindKey"}
    <2> SUFFICES ASSUME bad # {}
                 PROVE  RuleError(b.enrich[Min(bad)]) \in {"ErrUnknownLookup", "ErrBadBindKey"}
      OBVIOUS
    <2>1. bad \in SUBSET Nat
      BY BindingFacts
    <2>2. Min(bad) \in bad
      <3> HIDE DEF bad
      <3> QED
        BY <2>1, MinIsMember
    <2>3. PICK r : r = Min(bad)
      OBVIOUS
    <2>4. r \in DOMAIN b.enrich /\ RuleError(b.enrich[r]) # "none"
      BY <2>2, <2>3
    <2> QED
      BY <1>1, <2>3, <2>4, Zenon
  <1>4. BindingError(b) = CASE b.handler = None /\ ~b.emit -> "ErrEmptyBinding"
                            [] bad # {} -> RuleError(b.enrich[Min(bad)])
                            [] OTHER -> "none"
    BY Zenon DEF BindingError
  <1> HIDE DEF bad
  <1>5. BindingOK(b) <=> ~(b.handler = None /\ ~b.emit) /\ bad = {}
    BY <1>2, BindingFacts DEF BindingOK
  <1>6. CASE b.handler = None /\ ~b.emit
    <2>1. BindingError(b) \in {"ErrEmptyBinding"} \cup {"ErrUnknownLookup", "ErrBadBindKey"}
      BY <1>3, <1>4, <1>6
    <2> QED
      BY <1>5, <1>6, <2>1
  <1>7. CASE ~(b.handler = None /\ ~b.emit)
    BY <1>3, <1>4, <1>5, <1>7
  <1> QED
    BY <1>6, <1>7

(* The file and the environment are read once. *)
LEMMA CfgKept ==
  ASSUME [Next]_vars
  PROVE  cfg' = cfg
  BY DEF Next, vars, LoadFile, ValidateLookups, ValidateServices, ValidateBinding,
         LoadSettings, NewServices, BuildLookup, CatalogBuilt, GoConsumer, Forward,
         Fail, Goto

-----------------------------------------------------------------------------
(* The steps.                                                               *)

LEMMA InitInvariant ==
  ASSUME Init
  PROVE  SInv
  <1>1. Count \in Nat
    BY FileFacts DEF Init
  <1>2. Shape
    BY <1>1 DEF Init, Shape
  <1>3. LoadedOK /\ BuiltOK /\ RunningOK
    BY DEF Init, LoadedOK, BuiltOK, RunningOK, Catalogued, Serviced, Validated, Loaded, Starting
  <1>4. EndedOK /\ GapsAfterLoad /\ KilledByHandlerOnly /\ ForwardedOrUnnamed
    BY DEF Init, EndedOK, GapsAfterLoad, KilledByHandlerOnly, ForwardedOrUnnamed
  <1> QED
    BY <1>2, <1>3, <1>4 DEF SInv

(* A reason to fail after Load, with its error. *)
Gap(err) ==
    \/ err = "parse db dsn" /\ cfg.dsn = "bad"
    \/ err = "create db pool" /\ cfg.dsn = "set"
    \/ err = "sql text is required" /\ \E n \in Defined : ~cfg.lookups[n].sql
    \/ /\ err = "db pool is required"
       /\ ~AnyEnrich /\ Defined # {} /\ cfg.dsn # "set"
    \/ /\ err = "unknown handler"
       /\ \E k \in DOMAIN cfg.streams :
             cfg.streams[k].handler \notin DOMAIN Registry \cup {None}

(* The process ends with an error. *)
LEMMA FailStep ==
  ASSUME SInv, NEW err, Fail(err), pc # "exited", err # "none",
         err \notin Elsewhere => ~Sound,
         err \in LoadErrors \/ Gap(err),
         running # {} => err = "unknown handler"
  PROVE  SInv'
  <1>1. /\ pc' = "exited" /\ result' = err
        /\ UNCHANGED <<cfg, i, svc, todo, catalog, running, sent>>
    BY DEF Fail
  <1>2. Shape'
    BY <1>1 DEF SInv, Shape, Count, Defined
  <1>3. LoadedOK' /\ BuiltOK' /\ RunningOK'
    BY <1>1 DEF LoadedOK, BuiltOK, RunningOK, Catalogued, Serviced, Validated, Loaded, Starting
  <1>4. EndedOK'
    <2>1. Sound' <=> Sound
      BY <1>1 DEF Sound, Defined
    <2> QED
      BY <1>1, <2>1 DEF EndedOK
  <1>5. GapsAfterLoad'
    <2>1. Gap(err) => Gap(err)'
      BY <1>1 DEF Gap, Defined, AnyEnrich
    <2> QED
      BY <1>1, <2>1 DEF GapsAfterLoad, Gap
  <1>6. KilledByHandlerOnly'
    BY <1>1 DEF KilledByHandlerOnly
  <1>7. ForwardedOrUnnamed'
    BY <1>1 DEF SInv, ForwardedOrUnnamed
  <1> QED
    BY <1>2, <1>3, <1>4, <1>5, <1>6, <1>7 DEF SInv

(* main goes on. *)
LEMMA OngoingStep ==
  ASSUME SInv, cfg' = cfg, pc # "exited", pc' # "exited", UNCHANGED <<result, sent>>
  PROVE  EndedOK' /\ GapsAfterLoad' /\ KilledByHandlerOnly' /\ ForwardedOrUnnamed'
  <1>1. result' = "none"
    BY DEF SInv, EndedOK
  <1>2. EndedOK' /\ GapsAfterLoad' /\ KilledByHandlerOnly'
    BY <1>1 DEF EndedOK, GapsAfterLoad, KilledByHandlerOnly
  <1>3. ForwardedOrUnnamed'
    BY DEF SInv, ForwardedOrUnnamed
  <1> QED
    BY <1>2, <1>3

LEMMA LoadFileStep ==
  ASSUME SInv, LoadFile
  PROVE  SInv'
  <1>0. pc = "file" /\ running = {} /\ catalog = {}
    BY DEF LoadFile, SInv, RunningOK, BuiltOK, Starting
  <1>1. ASSUME NEW err \in {"ErrMissingInstanceID", "read config", "parse config",
                            "ErrInstanceNotFound"}, Fail(err)
        PROVE  SInv'
    <2>1. err \in Elsewhere /\ err \in LoadErrors /\ err # "none"
      BY DEF Elsewhere, LoadErrors
    <2> QED
      BY <1>0, <1>1, <2>1, FailStep
  <1>2. CASE cfg.streams = <<>> /\ Fail("ErrNoStreams")
    BY <1>0, <1>2, FailStep DEF Sound, LoadErrors
  <1>3. CASE cfg.streams # <<>> /\ Goto("lookups")
    <2>1. /\ UNCHANGED <<cfg, i, svc, todo, catalog, running, sent, result>> /\ pc' = "lookups"
      BY <1>3 DEF Goto
    <2>2. Shape'
      BY <1>0, <2>1 DEF SInv, Shape, Count, Defined
    <2>3. LoadedOK' /\ BuiltOK' /\ RunningOK'
      BY <1>0, <1>3, <2>1 DEF LoadedOK, BuiltOK, RunningOK, Catalogued, Serviced, Validated,
                              Loaded, Starting
    <2> QED
      BY <1>0, <2>1, <2>2, <2>3, OngoingStep DEF SInv
  <1> QED
    BY <1>1, <1>2, <1>3 DEF LoadFile

LEMMA ValidateLookupsStep ==
  ASSUME SInv, ValidateLookups
  PROVE  SInv'
  <1> DEFINE errors == UNION {SpecErrors(cfg.lookups[n]) : n \in Defined}
  <1>0. pc = "lookups" /\ running = {} /\ catalog = {} /\ cfg.streams # <<>>
    BY DEF ValidateLookups, SInv, RunningOK, LoadedOK, BuiltOK, Starting
  <1>1. ASSUME NEW err \in errors, Fail(err)
        PROVE  SInv'
    <2>1. PICK n \in Defined : err \in SpecErrors(cfg.lookups[n])
      BY <1>1
    <2>2. /\ err \in {"ErrUnknownLookupType", "ErrBadLookupTTL"}
          /\ ~(cfg.lookups[n].type = "sql" /\ cfg.lookups[n].ttl # "bad")
      BY <2>1 DEF SpecErrors, AllowedLookupTypes
    <2>3. ~Sound
      BY <2>2 DEF Sound
    <2>4. err \in LoadErrors /\ err # "none"
      BY <2>2 DEF LoadErrors
    <2> HIDE DEF errors
    <2> QED
      BY <1>0, <1>1, <2>3, <2>4, FailStep
  <1>2. CASE errors = {} /\ Goto("services")
    <2>1. /\ UNCHANGED <<cfg, i, svc, todo, catalog, running, sent, result>> /\ pc' = "services"
      BY <1>2 DEF Goto
    <2>2. Shape'
      BY <1>0, <2>1 DEF SInv, Shape, Count, Defined, Catalogued
    <2>3. LookupsOK
      <3>1. ASSUME NEW n \in Defined
            PROVE  cfg.lookups[n].type = "sql" /\ cfg.lookups[n].ttl # "bad"
        <4>1. SpecErrors(cfg.lookups[n]) = {}
          BY <1>2
        <4> QED
          BY <4>1 DEF SpecErrors, AllowedLookupTypes
      <3> QED
        BY <3>1 DEF LookupsOK
    <2>4. LoadedOK' /\ BuiltOK' /\ RunningOK'
      BY <1>0, <2>1, <2>3 DEF LoadedOK, BuiltOK, RunningOK, Catalogued, Serviced, Validated,
                              Loaded, Starting, LookupsOK, Defined
    <2> QED
      BY <1>0, <2>1, <2>2, <2>4, OngoingStep DEF SInv
  <1> QED
    BY <1>1, <1>2 DEF ValidateLookups

LEMMA ValidateServicesStep ==
  ASSUME SInv, ValidateServices
  PROVE  SInv'
  <1>0. /\ pc = "services" /\ running = {} /\ cfg \in Files /\ i \in Nat \ {0}
        /\ cfg.streams # <<>> /\ LookupsOK /\ catalog = {}
    BY DEF ValidateServices, SInv, RunningOK, LoadedOK, Shape, Catalogued, BuiltOK, Starting
  <1>1. /\ cfg.internal \in {"unnamed", "empty", "set"}
        /\ cfg.gateway \in {"unnamed", "empty", "set"}
        /\ cfg.credentials \in {"unnamed", "empty", "set"}
        /\ cfg.dsn \in {"unnamed", "empty", "bad", "set"}
    BY <1>0, FileFacts
  <1>e. ServicesError \in {"none", "ErrMissingURLEnv", "ErrMissingGatewayURLEnv",
                           "ErrMissingGatewayCredentials", "ErrMissingDBConfig"}
    BY DEF ServicesError
  <1>2. CASE ServicesError # "none"
    <2> DEFINE err == ServicesError
    <2>1. Fail(err)
      BY <1>2 DEF ValidateServices
    <2>2. ~Sound
      <3>1. CASE cfg.internal = "empty" \/ cfg.gateway = "empty"
                 \/ (cfg.gateway = "set" /\ cfg.credentials # "set")
        BY <3>1 DEF Sound
      <3>2. CASE MissingDB
        <4>1. PICK k \in DOMAIN cfg.streams : cfg.streams[k].enrich # <<>>
          BY <3>2 DEF MissingDB, AnyEnrich
        <4>2. PICK b \in Bindings : b = cfg.streams[k]
          BY <1>0, <4>1, FileFacts
        <4>3. PICK r \in DOMAIN b.enrich : TRUE
          BY <4>1, <4>2, BindingFacts
        <4>4. cfg.dsn # "set"
          BY <3>2 DEF MissingDB
        <4>5. Sound => b.enrich[r].lookup \in Defined
          BY <4>1, <4>2, <4>3 DEF Sound
        <4>6. Sound => Defined = {}
          BY <4>4 DEF Sound
        <4> QED
          BY <4>5, <4>6
      <3> QED
        BY <1>2, <3>1, <3>2 DEF ServicesError, MissingCredentials
    <2>3. err \in LoadErrors /\ err # "none"
      BY <1>2, <1>e DEF LoadErrors
    <2> HIDE DEF err
    <2> QED
      BY <1>0, <2>1, <2>2, <2>3, FailStep
  <1>3. CASE ServicesError = "none"
    <2>1. UNCHANGED <<cfg, i, svc, todo, catalog, running, sent, result>> /\ pc' = "bindings"
      BY <1>3 DEF ValidateServices, Goto
    <2>2. i = 1
      BY <1>0 DEF SInv, Shape
    <2>3. Count # 0 /\ Count \in Nat
      BY <1>0, FileFacts
    <2>4. Shape'
      BY <2>1, <2>2, <2>3 DEF SInv, Shape, Count, Defined, Catalogued, Serviced
    <2>5. ServicesOK
      BY <1>1, <1>3 DEF ServicesError, ServicesOK, MissingCredentials, MissingDB
    <2>6. LoadedOK'
      <3>1. \A j \in 1..Count : ~(j < i)
        BY <2>2, <2>3
      <3>2. LookupsOK' /\ ServicesOK' /\ Count' = Count
        BY <1>0, <2>1, <2>5 DEF LookupsOK, ServicesOK, Defined, AnyEnrich, Count
      <3> QED
        BY <1>0, <2>1, <3>1, <3>2 DEF LoadedOK, Validated, Loaded, Starting
    <2>7. BuiltOK' /\ RunningOK'
      BY <1>0, <2>1 DEF BuiltOK, RunningOK, Starting
    <2> QED
      BY <1>0, <2>1, <2>4, <2>6, <2>7, OngoingStep DEF SInv
  <1> QED
    BY <1>2, <1>3

LEMMA ValidateBindingStep ==
  ASSUME SInv, ValidateBinding
  PROVE  SInv'
  <1> DEFINE b == cfg.streams[i]
             err == BindingError(b)
  <1>0. /\ pc = "bindings" /\ running = {} /\ cfg \in Files /\ cfg.streams # <<>>
        /\ LookupsOK /\ ServicesOK /\ catalog = {}
        /\ i \in 1..Count /\ Count \in Nat
    <2>1. /\ pc = "bindings" /\ running = {} /\ cfg \in Files /\ cfg.streams # <<>>
          /\ LookupsOK /\ ServicesOK /\ catalog = {} /\ i \in Nat \ {0} /\ i <= Count
      BY DEF ValidateBinding, SInv, RunningOK, LoadedOK, Shape, Catalogued, Serviced,
             BuiltOK, Starting
    <2>2. Count \in Nat
      BY <2>1, FileFacts
    <2> QED
      BY <2>1, <2>2
  <1>1. DOMAIN cfg.streams = 1..Count /\ b \in Bindings
    BY <1>0, FileFacts
  <1>2. /\ err = "none" <=> BindingOK(b)
        /\ err \in {"none", "ErrEmptyBinding", "ErrUnknownLookup", "ErrBadBindKey"}
    BY <1>1, BindingErrorFacts
  <1>3. CASE err # "none" /\ Fail(err)
    <2>1. ~Sound
      <3>1. ~BindingOK(b)
        BY <1>2, <1>3
      <3> HIDE DEF b
      <3>2. ASSUME Sound PROVE BindingOK(b)
        <4>1. /\ b.handler \in DOMAIN Registry \/ (b.handler = None /\ b.emit)
              /\ \A r \in DOMAIN b.enrich : b.enrich[r].lookup \in Defined /\ b.enrich[r].ident
          BY <1>0, <1>1, <3>2 DEF Sound, b
        <4>2. None \notin DOMAIN Registry
          BY DEF Registry, None
        <4> QED
          BY <4>1, <4>2 DEF BindingOK
      <3> QED
        BY <3>1, <3>2
    <2>2. err \in LoadErrors /\ err # "none"
      <3> HIDE DEF err
      <3> QED
        BY <1>2, <1>3 DEF LoadErrors
    <2> HIDE DEF err
    <2> QED
      BY <1>0, <1>3, <2>1, <2>2, FailStep
  <1>4. CASE Fail("stream name, scope or self-emit")
    BY <1>0, <1>4, FailStep DEF Elsewhere, LoadErrors
  <1>5. CASE /\ err = "none"
             /\ i' = IF i < Len(cfg.streams) THEN i + 1 ELSE 1
             /\ pc' = IF i < Len(cfg.streams) THEN "bindings" ELSE "settings"
             /\ UNCHANGED <<cfg, svc, todo, catalog, running, sent, result>>
    <2>1. /\ UNCHANGED <<cfg, svc, todo, catalog, running, sent, result>>
          /\ Count' = Count /\ Defined' = Defined
          /\ \/ i < Count /\ i' = i + 1 /\ pc' = "bindings"
             \/ i = Count /\ i' = 1 /\ pc' = "settings"
      BY <1>0, <1>5 DEF Count, Defined
    <2>2. Shape'
      BY <1>0, <2>1 DEF SInv, Shape, Catalogued, Serviced, Validated
    <2>3. \A j \in 1..Count : j <= i => BindingOK(cfg.streams[j])
      <3> SUFFICES ASSUME NEW j \in 1..Count, j <= i PROVE BindingOK(cfg.streams[j])
        OBVIOUS
      <3>1. CASE j = i
        BY <1>2, <1>5, <3>1
      <3>2. CASE j # i
        <4>1. j < i
          BY <1>0, <3>2
        <4> QED
          BY <1>0, <4>1 DEF SInv, LoadedOK
      <3> QED
        BY <3>1, <3>2
    <2>4. \A j \in 1..Count : BindingOK(cfg.streams[j])' <=> BindingOK(cfg.streams[j])
      BY <2>1 DEF BindingOK
    <2>5. LookupsOK' /\ ServicesOK' /\ cfg'.streams # <<>>
      BY <1>0, <2>1 DEF LookupsOK, ServicesOK, AnyEnrich
    <2>6. LoadedOK'
      <3>1. CASE i < Count /\ i' = i + 1 /\ pc' = "bindings"
        <4>1. \A j \in 1..Count : j < i + 1 => j <= i
          BY <1>0
        <4> QED
          BY <2>1, <2>3, <2>4, <2>5, <3>1, <4>1 DEF LoadedOK, Validated, Loaded, Starting
      <3>2. CASE i = Count /\ i' = 1 /\ pc' = "settings"
        <4>1. \A j \in 1..Count : j <= i
          BY <1>0, <3>2
        <4> QED
          BY <2>1, <2>3, <2>4, <2>5, <3>2, <4>1 DEF LoadedOK
      <3> QED
        BY <2>1, <3>1, <3>2
    <2>7. BuiltOK' /\ RunningOK'
      BY <1>0, <2>1 DEF BuiltOK, RunningOK, Starting
    <2> QED
      BY <1>0, <2>1, <2>2, <2>6, <2>7, OngoingStep DEF SInv
  <1> QED
    BY <1>3, <1>4, <1>5 DEF ValidateBinding

(* What Load has checked stays checked. *)
LEMMA LoadedStep ==
  ASSUME SInv, cfg' = cfg, pc \in Validated, pc' \in Validated
  PROVE  LoadedOK'
  <1>1. /\ LookupsOK /\ ServicesOK /\ cfg.streams # <<>>
        /\ \A j \in 1..Count : BindingOK(cfg.streams[j])
    BY DEF SInv, LoadedOK, Catalogued, Serviced
  <1>2. Count' = Count /\ Defined' = Defined
    BY DEF Count, Defined
  <1>3. LookupsOK' /\ ServicesOK' /\ cfg'.streams # <<>>
    BY <1>1, <1>2 DEF LookupsOK, ServicesOK, AnyEnrich
  <1>4. \A j \in 1..Count : BindingOK(cfg.streams[j])'
    BY <1>1, <1>2 DEF BindingOK
  <1>5. pc' # "bindings"
    BY DEF Validated, Loaded, Starting
  <1> QED
    BY <1>2, <1>3, <1>4, <1>5 DEF LoadedOK

LEMMA LoadSettingsStep ==
  ASSUME SInv, LoadSettings
  PROVE  SInv'
  <1>0. pc = "settings" /\ running = {} /\ catalog = {}
    BY DEF LoadSettings, SInv, RunningOK, BuiltOK, Starting
  <1>1. CASE Goto("init")
    <2>1. UNCHANGED <<cfg, i, svc, todo, catalog, running, sent, result>> /\ pc' = "init"
      BY <1>1 DEF Goto
    <2>2. Shape'
      BY <1>0, <2>1 DEF SInv, Shape, Count, Defined, Catalogued, Serviced, Validated, Loaded
    <2>3. LoadedOK'
      BY <1>0, <2>1, LoadedStep DEF Validated, Loaded
    <2>4. BuiltOK' /\ RunningOK'
      BY <1>0, <2>1 DEF BuiltOK, RunningOK, Starting
    <2> QED
      BY <1>0, <2>1, <2>2, <2>3, <2>4, OngoingStep DEF SInv
  <1>2. ASSUME NEW err \in {"ErrEmitCycle", "ErrBadEscalateAfter", "a duration"}, Fail(err)
        PROVE  SInv'
    <2>1. err \in Elsewhere /\ err \in LoadErrors /\ err # "none"
      BY DEF Elsewhere, LoadErrors
    <2> QED
      BY <1>0, <1>2, <2>1, FailStep
  <1> QED
    BY <1>1, <1>2 DEF LoadSettings

LEMMA NewServicesStep ==
  ASSUME SInv, NewServices
  PROVE  SInv'
  <1>0. pc = "init" /\ running = {} /\ cfg \in Files
    BY DEF NewServices, SInv, RunningOK, Shape
  <1>1. CASE cfg.dsn = "bad" /\ Fail("parse db dsn")
    <2>1. ~Sound /\ Gap("parse db dsn")
      BY <1>1 DEF Sound, Gap
    <2> QED
      BY <1>0, <1>1, <2>1, FailStep
  <1>p. CASE cfg.dsn = "set" /\ Fail("create db pool")
    <2>1. "create db pool" \in Elsewhere /\ Gap("create db pool")
      BY <1>p DEF Elsewhere, Gap
    <2> QED
      BY <1>0, <1>p, <2>1, FailStep
  <1>2. CASE /\ cfg.dsn # "bad"
             /\ svc' = (IF cfg.internal = "unnamed" THEN {} ELSE {"internal"})
                       \cup (IF cfg.gateway = "unnamed" THEN {} ELSE {"gateway"})
                       \cup (IF cfg.dsn = "set" THEN {"db"} ELSE {})
             /\ todo' = Defined
             /\ pc' = "catalog"
             /\ UNCHANGED <<cfg, i, catalog, running, sent, result>>
    <2>1. /\ UNCHANGED <<cfg, i, catalog, running, sent, result>>
          /\ pc' = "catalog" /\ todo' = Defined
          /\ svc' = (IF cfg.internal = "unnamed" THEN {} ELSE {"internal"})
                      \cup (IF cfg.gateway = "unnamed" THEN {} ELSE {"gateway"})
                      \cup (IF cfg.dsn = "set" THEN {"db"} ELSE {})
      BY <1>2
    <2>2. svc' \subseteq {"internal", "gateway", "db"} /\ ClientsOK'
      BY <2>1 DEF ClientsOK
    <2>3. Shape'
      BY <1>0, <2>1, <2>2 DEF SInv, Shape, Count, Defined, Catalogued, Serviced, Validated,
                              Loaded, Starting
    <2>4. LoadedOK'
      BY <1>0, <2>1, LoadedStep DEF Validated, Loaded, Starting
    <2>5. catalog = {}
      BY <1>0 DEF SInv, BuiltOK, Starting
    <2>6. BuiltOK' /\ RunningOK'
      BY <1>0, <1>2, <2>1, <2>2, <2>5 DEF BuiltOK, RunningOK, Defined, Starting
    <2> QED
      BY <1>0, <2>1, <2>3, <2>4, <2>6, OngoingStep DEF SInv
  <1> QED
    BY <1>1, <1>p, <1>2 DEF NewServices

LEMMA BuildLookupStep ==
  ASSUME SInv, BuildLookup
  PROVE  SInv'
  <1>0. /\ pc = "catalog" /\ running = {} /\ cfg \in Files /\ todo \subseteq Defined
        /\ cfg.dsn # "bad" /\ ClientsOK /\ ServicesOK /\ LookupsOK
    BY DEF BuildLookup, SInv, RunningOK, Shape, BuiltOK, LoadedOK, Starting, Catalogued,
           Serviced, Validated, Loaded
  <1>1. PICK n \in todo :
            IF LookupError(cfg.lookups[n]) # "none" THEN Fail(LookupError(cfg.lookups[n]))
            ELSE /\ todo' = todo \ {n}
                 /\ catalog' = catalog \cup {n}
                 /\ UNCHANGED <<cfg, pc, i, svc, running, sent, result>>
    BY DEF BuildLookup
  <1>t. n \in Defined /\ cfg.lookups[n].sql \in BOOLEAN
    BY <1>0, FileFacts
  <1>e. LookupError(cfg.lookups[n]) = FactoryError(cfg.lookups[n])
    BY <1>0, <1>t DEF LookupError, LookupsOK, LookupRegistry
  <1>2. CASE FactoryError(cfg.lookups[n]) # "none"
    <2> DEFINE err == FactoryError(cfg.lookups[n])
    <2>1. /\ err \in {"db pool is required", "sql text is required"}
          /\ err = "db pool is required" => cfg.dsn # "set"
          /\ err = "sql text is required" => ~cfg.lookups[n].sql
      BY <1>0, <1>2, <1>t DEF FactoryError, ClientsOK
    <2>2. Fail(err)
      BY <1>1, <1>2, <1>e
    <2> HIDE DEF err
    <2>3. ~Sound
      BY <1>t, <2>1 DEF Sound
    <2>4. Gap(err)
      BY <1>0, <1>t, <2>1 DEF Gap, ServicesOK
    <2> QED
      BY <1>0, <2>1, <2>2, <2>3, <2>4, FailStep
  <1>3. CASE FactoryError(cfg.lookups[n]) = "none"
    <2>1. /\ todo' = todo \ {n} /\ catalog' = catalog \cup {n}
          /\ UNCHANGED <<cfg, pc, i, svc, running, sent, result>>
          /\ Defined' = Defined /\ Count' = Count
      BY <1>1, <1>3, <1>e DEF Defined, Count
    <2>2. cfg.lookups[n].sql /\ "db" \in svc
      BY <1>3, <1>t DEF FactoryError
    <2>3. Shape'
      BY <1>t, <2>1 DEF SInv, Shape
    <2>4. LoadedOK'
      BY <1>0, <2>1, LoadedStep DEF Validated, Loaded, Starting
    <2>5. BuiltOK'
      BY <1>0, <1>t, <2>1, <2>2 DEF SInv, BuiltOK, Starting, ClientsOK
    <2>6. RunningOK'
      BY <1>0, <2>1 DEF RunningOK
    <2> QED
      BY <1>0, <2>1, <2>3, <2>4, <2>5, <2>6, OngoingStep DEF SInv
  <1> QED
    BY <1>2, <1>3

LEMMA CatalogBuiltStep ==
  ASSUME SInv, CatalogBuilt
  PROVE  SInv'
  <1>0. /\ pc = "catalog" /\ running = {} /\ todo = {} /\ cfg \in Files /\ i = 1
        /\ cfg.streams # <<>>
    BY DEF CatalogBuilt, SInv, RunningOK, Shape, LoadedOK, Catalogued, Serviced, Validated,
           Loaded, Starting
  <1>1. /\ UNCHANGED <<cfg, i, svc, todo, catalog, running, sent, result>>
        /\ pc' = "handlers" /\ Count' = Count /\ Defined' = Defined
    BY DEF CatalogBuilt, Goto, Count, Defined
  <1>2. Count \in Nat \ {0}
    BY <1>0, FileFacts
  <1>3. Shape'
    BY <1>0, <1>1, <1>2 DEF SInv, Shape, Catalogued, Serviced, Validated, Loaded, Starting
  <1>4. LoadedOK'
    BY <1>0, <1>1, LoadedStep DEF Validated, Loaded, Starting
  <1>5. BuiltOK'
    <2>1. \A j \in 1..Count : ~(j < 1)
      BY <1>2
    <2> QED
      BY <1>0, <1>1, <2>1 DEF SInv, BuiltOK, Starting, ClientsOK
  <1>6. RunningOK'
    BY <1>0, <1>1 DEF RunningOK
  <1> QED
    BY <1>0, <1>1, <1>3, <1>4, <1>5, <1>6, OngoingStep DEF SInv

LEMMA GoConsumerStep ==
  ASSUME SInv, GoConsumer
  PROVE  SInv'
  <1>0. /\ pc = "handlers" /\ todo = {} /\ cfg \in Files /\ catalog = Defined
        /\ i \in Nat \ {0} /\ i <= Count
        /\ \A j \in 1..Count : BindingOK(cfg.streams[j])
    BY DEF GoConsumer, SInv, Shape, BuiltOK, LoadedOK, Starting, Validated, Loaded
  <1>1. Count \in Nat /\ DOMAIN cfg.streams = 1..Count
    BY <1>0, FileFacts
  <1>2. i \in 1..Count
    BY <1>0, <1>1
  <1>3. BindingOK(cfg.streams[i])
    BY <1>0, <1>2
  <1>4. PICK b : b = cfg.streams[i]
    OBVIOUS
  <1>5. /\ HandlerError(b) \in {"none", "unknown handler"}
        /\ HandlerError(b) = "none" <=> HandlerOK(b)
    <2>1. \A k \in DOMAIN b.enrich : b.enrich[k].lookup \in catalog
      BY <1>0, <1>3, <1>4 DEF BindingOK
    <2> QED
      BY <2>1 DEF HandlerError, HandlerOK
  <1>6. CASE HandlerError(b) # "none"
    <2>1. Fail("unknown handler")
      BY <1>4, <1>5, <1>6 DEF GoConsumer
    <2>2. b.handler \notin DOMAIN Registry \cup {None}
      BY <1>5, <1>6 DEF HandlerOK
    <2>3. ~Sound
      BY <1>1, <1>2, <1>4, <2>2 DEF Sound
    <2>4. Gap("unknown handler")
      BY <1>1, <1>2, <1>4, <2>2 DEF Gap
    <2> QED
      BY <1>0, <2>1, <2>3, <2>4, FailStep
  <1>7. CASE HandlerError(b) = "none"
    <2>1. /\ running' = running \cup {i} /\ i' = i + 1
          /\ pc' = IF i = Count THEN "serving" ELSE "handlers"
          /\ UNCHANGED <<cfg, svc, todo, catalog, sent, result>>
          /\ Count' = Count /\ Defined' = Defined
      BY <1>4, <1>7 DEF GoConsumer, Count, Defined
    <2>2. HandlerOK(b)
      BY <1>5, <1>7
    <2>3. Shape'
      <3>1. sent \subseteq running' \X {"internal", "gateway", None}
        BY <2>1 DEF SInv, Shape
      <3>2. pc' \in {"handlers", "serving"}
        BY <2>1
      <3> QED
        BY <1>0, <1>1, <1>2, <2>1, <3>1, <3>2 DEF SInv, Shape, Catalogued, Serviced,
                                                  Validated, Loaded, Starting
    <2>4. LoadedOK'
      BY <1>0, <2>1, LoadedStep DEF Validated, Loaded, Starting
    <2>5. BuiltOK'
      <3>1. ASSUME NEW j \in 1..Count, j < i + 1 PROVE HandlerOK(cfg.streams[j])
        <4>1. CASE j = i
          BY <1>4, <2>2, <4>1
        <4>2. CASE j # i
          <5>1. j < i
            BY <1>0, <3>1, <4>2
          <5> QED
            BY <1>0, <5>1 DEF SInv, BuiltOK
        <4> QED
          BY <4>1, <4>2
      <3>2. pc' \in {"handlers", "serving"}
        BY <2>1
      <3>3. /\ cfg.dsn # "bad" /\ ClientsOK /\ \A n \in catalog : cfg.lookups[n].sql /\ "db" \in svc
        BY <1>0 DEF SInv, BuiltOK, Starting
      <3>4. ClientsOK'
        BY <2>1, <3>3 DEF ClientsOK
      <3> QED
        BY <1>0, <2>1, <3>1, <3>2, <3>3, <3>4 DEF BuiltOK, Starting, HandlerOK
    <2>6. RunningOK'
      <3>1. ASSUME NEW k \in running \cup {i} PROVE k < i + 1
        <4>1. CASE k = i
          BY <1>0, <4>1
        <4>2. CASE k \in running
          <5>1. k < i /\ k \in 1..Count
            BY <1>0, <4>2 DEF SInv, Shape, RunningOK
          <5> QED
            BY <1>0, <5>1
        <4> QED
          BY <4>1, <4>2
      <3> QED
        BY <2>1, <3>1 DEF RunningOK
    <2> QED
      BY <1>0, <2>1, <2>3, <2>4, <2>5, <2>6, OngoingStep DEF SInv
  <1> QED
    BY <1>6, <1>7

LEMMA ForwardStep ==
  ASSUME SInv, NEW k \in running, Forward(k)
  PROVE  SInv'
  <1> DEFINE h == cfg.streams[k].handler
             service == Registry[h]
             client == SelectClient(service)
  <1>0. /\ pc \in {"handlers", "serving"} /\ h # None
        /\ cfg \in Files /\ k \in 1..Count /\ k < i
        /\ ClientsOK /\ ServicesOK /\ result = "none"
    BY DEF Forward, SInv, Shape, RunningOK, BuiltOK, LoadedOK, EndedOK, Starting, Serviced,
           Validated, Loaded
  <1>1. /\ UNCHANGED <<cfg, pc, i, svc, todo, catalog, running, result>>
        /\ sent' = sent \cup {<<k, client>>} /\ Count' = Count /\ Defined' = Defined
    BY DEF Forward, Count, Defined
  <1>2. h \in DOMAIN Registry
    <2>1. HandlerOK(cfg.streams[k])
      BY <1>0 DEF SInv, BuiltOK
    <2> QED
      BY <1>0, <2>1 DEF HandlerOK
  <1>3. service \in {"internal", "gateway"}
    BY <1>2 DEF Registry
  <1>4. client \in {"internal", "gateway", None} /\ (client # None => client = service)
        /\ (client = None <=> service \notin svc)
    <2> HIDE DEF service
    <2> QED
      BY <1>3 DEF SelectClient, None
  <1>5. /\ cfg.internal \in {"unnamed", "empty", "set"}
        /\ cfg.gateway \in {"unnamed", "empty", "set"}
    BY <1>0, FileFacts
  <1>6. IF client = None
          THEN (IF service = "gateway" THEN cfg.gateway ELSE cfg.internal) = "unnamed"
          ELSE /\ client = service
               /\ service = "internal" => cfg.internal = "set"
               /\ service = "gateway" => cfg.gateway = "set" /\ cfg.credentials = "set"
    <2> HIDE DEF service, client
    <2> QED
      BY <1>0, <1>3, <1>4, <1>5 DEF ClientsOK, ServicesOK
  <1>7. Shape'
    <2> HIDE DEF client
    <2>1. sent' \subseteq running \X {"internal", "gateway", None}
      BY <1>1, <1>4 DEF SInv, Shape
    <2> QED
      BY <1>1, <2>1 DEF SInv, Shape
  <1>8. LoadedOK'
    BY <1>0, <1>1, LoadedStep DEF Validated, Loaded, Starting
  <1>9. BuiltOK' /\ RunningOK'
    <2>1. ClientsOK'
      BY <1>0, <1>1 DEF ClientsOK
    <2> QED
      BY <1>0, <1>1, <2>1 DEF SInv, BuiltOK, RunningOK, HandlerOK, Starting
  <1>10. EndedOK' /\ GapsAfterLoad' /\ KilledByHandlerOnly'
    BY <1>0, <1>1 DEF EndedOK, GapsAfterLoad, KilledByHandlerOnly
  <1>11. ForwardedOrUnnamed'
    <2> DEFINE Fine(p) ==
                 LET sv == Registry[cfg.streams[p[1]].handler] IN
                 IF p[2] = None
                   THEN (IF sv = "gateway" THEN cfg.gateway ELSE cfg.internal) = "unnamed"
                   ELSE /\ p[2] = sv
                        /\ sv = "internal" => cfg.internal = "set"
                        /\ sv = "gateway" => cfg.gateway = "set" /\ cfg.credentials = "set"
    <2>1. \A p \in sent : Fine(p)
      BY Zenon DEF SInv, ForwardedOrUnnamed
    <2>2. PICK c : c = client
      OBVIOUS
    <2>3. PICK q : q = <<k, c>>
      OBVIOUS
    <2>4. q[1] = k /\ q[2] = c
      BY <2>3
    <2>5. Fine(q)
      BY <1>6, <2>2, <2>4
    <2>6. sent' = sent \cup {q}
      BY <1>1, <2>2, <2>3
    <2>7. \A p \in sent' : Fine(p)
      <3> HIDE DEF Fine
      <3> QED
        BY <2>1, <2>5, <2>6
    <2>8. cfg' = cfg
      BY <1>1
    <2> QED
      BY <2>7, <2>8 DEF ForwardedOrUnnamed
  <1> QED
    BY <1>7, <1>8, <1>9, <1>10, <1>11 DEF SInv

LEMMA StutterStep ==
  ASSUME SInv, UNCHANGED vars
  PROVE  SInv'
  <1>1. UNCHANGED <<cfg, pc, i, svc, todo, catalog, running, sent, result>>
    BY DEF vars
  <1>2. Shape'
    BY <1>1 DEF SInv, Shape, Count, Defined
  <1>3. LoadedOK'
    BY <1>1 DEF SInv, LoadedOK, LookupsOK, ServicesOK, BindingOK, AnyEnrich, Count, Defined
  <1>4. BuiltOK' /\ RunningOK'
    BY <1>1 DEF SInv, BuiltOK, RunningOK, ClientsOK, HandlerOK, Count, Defined
  <1>5. EndedOK' /\ KilledByHandlerOnly'
    BY <1>1 DEF SInv, EndedOK, KilledByHandlerOnly, Sound, Defined
  <1>6. GapsAfterLoad'
    BY <1>1 DEF SInv, GapsAfterLoad, AnyEnrich, Defined
  <1>7. ForwardedOrUnnamed'
    BY <1>1 DEF SInv, ForwardedOrUnnamed
  <1> QED
    BY <1>2, <1>3, <1>4, <1>5, <1>6, <1>7 DEF SInv

LEMMA StepInvariant ==
  ASSUME SInv, [Next]_vars
  PROVE  SInv'
  <1>1. CASE LoadFile
    BY <1>1, LoadFileStep
  <1>2. CASE ValidateLookups
    BY <1>2, ValidateLookupsStep
  <1>3. CASE ValidateServices
    BY <1>3, ValidateServicesStep
  <1>4. CASE ValidateBinding
    BY <1>4, ValidateBindingStep
  <1>5. CASE LoadSettings
    BY <1>5, LoadSettingsStep
  <1>6. CASE NewServices
    BY <1>6, NewServicesStep
  <1>7. CASE BuildLookup
    BY <1>7, BuildLookupStep
  <1>8. CASE CatalogBuilt
    BY <1>8, CatalogBuiltStep
  <1>9. CASE GoConsumer
    BY <1>9, GoConsumerStep
  <1>10. CASE \E k \in running : Forward(k)
    BY <1>10, ForwardStep
  <1>11. CASE UNCHANGED vars
    BY <1>11, StutterStep
  <1> QED
    BY <1>1, <1>2, <1>3, <1>4, <1>5, <1>6, <1>7, <1>8, <1>9, <1>10, <1>11 DEF Next

LEMMA Invariant == Spec => []SInv
  BY InitInvariant, StepInvariant, PTL DEF Spec

-----------------------------------------------------------------------------
(* What it implies.                                                         *)

(* TypeOK: the variables of main keep their types, and a consumer is started   *)
(* for bindings of the file only.                                           *)
THEOREM TypeCorrect == Spec => []TypeOK
  <1>1. SInv => TypeOK
    <2> SUFFICES ASSUME SInv PROVE TypeOK
      OBVIOUS
    <2>1. cfg \in Files
      BY DEF SInv, Shape
    <2>2. /\ Count \in Nat /\ Count <= MaxBindings /\ DOMAIN cfg.streams = 1..Count
          /\ Defined \subseteq LookupNames
      BY <2>1, FileFacts
    <2>3. i \in 1..(MaxBindings + 1)
      BY <2>2, StartupAssumption DEF SInv, Shape
    <2> QED
      BY <2>1, <2>2, <2>3 DEF SInv, Shape, TypeOK, Catalogued, Serviced, Validated, Loaded,
                              Starting
  <1> QED
    BY <1>1, Invariant, PTL

(* ServesExactlySound: main serves sound instances only, and of the checks of    *)
(* Load, services.New, the factory and buildHandler none fails for a sound one. *)
THEOREM ServesSound == Spec => []ServesExactlySound
  <1>1. SInv => ServesExactlySound
    <2> SUFFICES ASSUME SInv, pc = "serving" PROVE Sound
      BY DEF SInv, EndedOK, ServesExactlySound
    <2>1. /\ cfg \in Files /\ i = Count + 1 /\ todo = {} /\ catalog = Defined
          /\ cfg.streams # <<>> /\ LookupsOK /\ ServicesOK /\ ClientsOK /\ cfg.dsn # "bad"
          /\ \A n \in catalog : cfg.lookups[n].sql /\ "db" \in svc
          /\ \A j \in 1..Count : BindingOK(cfg.streams[j])
          /\ \A j \in 1..Count : j < i => HandlerOK(cfg.streams[j])
      BY DEF SInv, Shape, LoadedOK, BuiltOK, Starting, Catalogued, Serviced, Validated, Loaded
    <2>2. Count \in Nat /\ DOMAIN cfg.streams = 1..Count
      BY <2>1, FileFacts
    <2>3. \A n \in Defined : LET s == cfg.lookups[n] IN s.type = "sql" /\ s.ttl # "bad" /\ s.sql
      BY <2>1 DEF LookupsOK
    <2>4. Defined # {} => cfg.dsn = "set"
      BY <2>1 DEF ClientsOK
    <2>5. ASSUME NEW k \in DOMAIN cfg.streams
          PROVE  LET b == cfg.streams[k] IN
                 /\ b.handler \in DOMAIN Registry \/ (b.handler = None /\ b.emit)
                 /\ \A r \in DOMAIN b.enrich : b.enrich[r].lookup \in Defined /\ b.enrich[r].ident
      <3>1. k \in 1..Count /\ k < i
        BY <2>1, <2>2
      <3>2. BindingOK(cfg.streams[k]) /\ HandlerOK(cfg.streams[k])
        BY <2>1, <3>1
      <3> QED
        BY <3>2 DEF BindingOK, HandlerOK
    <2>6. /\ cfg.internal # "empty" /\ cfg.gateway # "empty"
          /\ cfg.gateway = "set" => cfg.credentials = "set"
      BY <2>1 DEF ServicesOK
    <2> QED
      BY <2>1, <2>3, <2>4, <2>5, <2>6, Zenon DEF Sound
  <1> QED
    BY <1>1, Invariant, PTL

(* GapsAfterLoad: of all the errors services.New, buildLookupCatalog and          *)
(* buildHandler can return, what Load accepts meets five, each for one reason. *)
THEOREM Gaps == Spec => []GapsAfterLoad
  <1>1. SInv => GapsAfterLoad
    BY DEF SInv
  <1> QED
    BY <1>1, Invariant, PTL

(* KilledByHandlerOnly: os.Exit ends running consumers only because a later      *)
(* binding names a handler that is not registered.                          *)
THEOREM Killed == Spec => []KilledByHandlerOnly
  <1>1. SInv => KilledByHandlerOnly
    BY DEF SInv
  <1> QED
    BY <1>1, Invariant, PTL

(* ForwardedOrUnnamed: an event reaches the configured service of its handler,  *)
(* or is dropped because the file does not name that service.               *)
THEOREM Forwarded == Spec => []ForwardedOrUnnamed
  <1>1. SInv => ForwardedOrUnnamed
    BY DEF SInv
  <1> QED
    BY <1>1, Invariant, PTL
=============================================================================
