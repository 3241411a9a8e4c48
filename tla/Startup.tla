------------------------------- MODULE Startup -------------------------------
(***************************************************************************)
(* From main's first line to g.Wait: config.Load with validateInstance,     *)
(* services.New, buildLookupCatalog with the sql factory, and buildHandler  *)
(* and g.Go for one binding after the other; then what a started consumer's *)
(* Forward does with an event.  Any error ends the process (os.Exit(1)).    *)
(*                                                                          *)
(* The file and the environment are one value, cfg.  An environment         *)
(* variable the file names is "unnamed", "empty", "set" or, for a DSN,      *)
(* "bad".  Stream names, scopes and the emit graph are EmitGraph's, the     *)
(* durations Heartbeat's: here their checks may fail or pass.               *)
(***************************************************************************)
EXTENDS Integers, Sequences, SequencesExt

CONSTANTS
    LookupNames,   \* names of lookups, in the catalogue or in a rule
    Specs,         \* catalogue entries to try: [type, ttl, sql]
    Bindings,      \* stream bindings to try: [handler, emit, enrich]
    MaxBindings    \* bound: bindings of the instance

None == ""           \* the empty string of a field that is not there

ASSUME StartupAssumption ==
    /\ Specs \subseteq [type : STRING, ttl : STRING, sql : BOOLEAN]
    /\ Bindings \subseteq [handler : STRING, emit : BOOLEAN,
                           enrich : Seq([lookup : LookupNames, ident : BOOLEAN])]
    /\ MaxBindings \in Nat

(* registry.Default: the service each handler forwards to. *)
Registry == [h \in {"order-sync@v1", "order-sync@v2", "product-sync",
                    "billing-sync", "gateway-sync"} |->
                IF h = "gateway-sync" THEN "gateway" ELSE "internal"]

(* config.allowedLookupTypes, and the factories in lookup.DefaultRegistry. *)
AllowedLookupTypes == {"sql"}
LookupRegistry == {"sql"}

Files ==
    [lookups : UNION {[D -> Specs] : D \in SUBSET LookupNames},
     internal : {"unnamed", "empty", "set"},
     gateway : {"unnamed", "empty", "set"},
     credentials : {"unnamed", "empty", "set"},
     dsn : {"unnamed", "empty", "bad", "set"},
     streams : BoundedSeq(Bindings, MaxBindings)]

VARIABLES
    cfg,       \* the instance's block and the environment
    pc,        \* where main is
    i,         \* index of the loop over streams
    svc,       \* services.Services: which of its fields are not nil
    todo,      \* buildLookupCatalog: names not yet visited
    catalog,   \* names of the lookups built
    running,   \* bindings whose consumer was started
    sent,      \* <<binding, service>>: events forwarded, or dropped (None)
    result     \* the error the process ended with, or "none"

vars == <<cfg, pc, i, svc, todo, catalog, running, sent, result>>

Defined == DOMAIN cfg.lookups

Init ==
    /\ cfg \in Files
    /\ pc = "file"
    /\ i = 1
    /\ svc = {}
    /\ todo = {}
    /\ catalog = {}
    /\ running = {}
    /\ sent = {}
    /\ result = "none"

Fail(err) ==
    /\ pc' = "exited"
    /\ result' = err
    /\ UNCHANGED <<cfg, i, svc, todo, catalog, running, sent>>

Goto(next) ==
    /\ pc' = next
    /\ UNCHANGED <<cfg, i, svc, todo, catalog, running, sent, result>>

-----------------------------------------------------------------------------
(* config.Load.                                                             *)

LoadFile ==
    /\ pc = "file"
    /\ \/ \E err \in {"ErrMissingInstanceID", "read config", "parse config",
                      "ErrInstanceNotFound"} : Fail(err)
       \/ cfg.streams = <<>> /\ Fail("ErrNoStreams")
       \/ cfg.streams # <<>> /\ Goto("lookups")

(* The catalogue is a Go map: which bad entry is met first is not defined.   *)
SpecErrors(spec) ==
    CASE spec.type \notin AllowedLookupTypes -> {"ErrUnknownLookupType"}
      [] spec.ttl = "bad" -> {"ErrBadLookupTTL"}
      [] OTHER -> {}

ValidateLookups ==
    LET errors == UNION {SpecErrors(cfg.lookups[n]) : n \in Defined} IN
    /\ pc = "lookups"
    /\ \/ \E err \in errors : Fail(err)
       \/ errors = {} /\ Goto("services")

AnyEnrich == \E k \in DOMAIN cfg.streams : cfg.streams[k].enrich # <<>>

MissingCredentialsUnchecked == FALSE                             \* mutant
MissingCredentials == cfg.credentials # "set"

MissingDBNever == FALSE                                          \* mutant
MissingDB == AnyEnrich /\ cfg.dsn \in {"unnamed", "empty"}

ServicesError ==
    CASE cfg.internal = "empty" -> "ErrMissingURLEnv"
      [] cfg.gateway = "empty" -> "ErrMissingGatewayURLEnv"
      [] cfg.gateway = "set" /\ MissingCredentials -> "ErrMissingGatewayCredentials"
      [] MissingDB -> "ErrMissingDBConfig"
      [] OTHER -> "none"

ValidateServices ==
    /\ pc = "services"
    /\ IF ServicesError = "none" THEN Goto("bindings") ELSE Fail(ServicesError)

(* The first bad rule of a binding, and what is wrong with it. *)
RuleErrorBindOnly(rule) == IF rule.ident THEN "none" ELSE "ErrBadBindKey"   \* mutant
RuleError(rule) ==
    CASE rule.lookup \notin Defined -> "ErrUnknownLookup"
      [] ~rule.ident -> "ErrBadBindKey"
      [] OTHER -> "none"

BindingError(b) ==
    LET bad == {r \in DOMAIN b.enrich : RuleError(b.enrich[r]) # "none"} IN
    CASE b.handler = None /\ ~b.emit -> "ErrEmptyBinding"
      [] bad # {} -> RuleError(b.enrich[Min(bad)])
      [] OTHER -> "none"

ValidateBinding ==
    LET err == BindingError(cfg.streams[i]) IN
    /\ pc = "bindings"
    /\ \/ err # "none" /\ Fail(err)
       \/ Fail("stream name, scope or self-emit")
       \/ /\ err = "none"
          /\ i' = IF i < Len(cfg.streams) THEN i + 1 ELSE 1
          /\ pc' = IF i < Len(cfg.streams) THEN "bindings" ELSE "settings"
          /\ UNCHANGED <<cfg, svc, todo, catalog, running, sent, result>>

(* detectEmitCycles, then DASHER_ESCALATE_AFTER and the durations. *)
LoadSettings ==
    /\ pc = "settings"
    /\ \/ Goto("init")
       \/ \E err \in {"ErrEmitCycle", "ErrBadEscalateAfter", "a duration"} : Fail(err)

-----------------------------------------------------------------------------
(* services.New and buildLookupCatalog.                                     *)

(* A DSN may not parse; pgxpool may refuse the one that does. *)
NewServices ==
    /\ pc = "init"
    /\ \/ cfg.dsn = "bad" /\ Fail("parse db dsn")
       \/ cfg.dsn = "set" /\ Fail("create db pool")
       \/ /\ cfg.dsn # "bad"
          /\ svc' = (IF cfg.internal = "unnamed" THEN {} ELSE {"internal"})
                    \cup (IF cfg.gateway = "unnamed" THEN {} ELSE {"gateway"})
                    \cup (IF cfg.dsn = "set" THEN {"db"} ELSE {})
          /\ todo' = Defined
          /\ pc' = "catalog"
          /\ UNCHANGED <<cfg, i, catalog, running, sent, result>>

FactoryErrorNoPool(spec) == IF spec.sql THEN "none" ELSE "sql text is required"  \* mutant
FactoryError(spec) ==
    CASE "db" \notin svc -> "db pool is required"
      [] ~spec.sql -> "sql text is required"
      [] OTHER -> "none"

(* Type and ttl are looked at again, then the type's factory is called. *)
LookupError(spec) ==
    CASE spec.type \notin LookupRegistry -> "unknown type"
      [] spec.ttl = "bad" -> "invalid ttl"
      [] OTHER -> FactoryError(spec)

BuildLookup ==
    /\ pc = "catalog"
    /\ \E n \in todo :
        IF LookupError(cfg.lookups[n]) # "none" THEN Fail(LookupError(cfg.lookups[n]))
        ELSE /\ todo' = todo \ {n}
             /\ catalog' = catalog \cup {n}
             /\ UNCHANGED <<cfg, pc, i, svc, running, sent, result>>

CatalogBuilt == pc = "catalog" /\ todo = {} /\ Goto("handlers")

-----------------------------------------------------------------------------
(* buildHandler and g.Go, and the handler at work.                          *)

HandlerError(b) ==
    CASE b.handler \notin DOMAIN Registry \cup {None} -> "unknown handler"
      [] \E k \in DOMAIN b.enrich : b.enrich[k].lookup \notin catalog -> "unknown lookup"
      [] OTHER -> "none"

GoConsumerOffByOne ==                                            \* mutant
    /\ pc = "handlers"
    /\ running' = running \cup {i + 1}
    /\ i' = i + 1
    /\ pc' = IF i = Len(cfg.streams) THEN "serving" ELSE "handlers"
    /\ UNCHANGED <<cfg, svc, todo, catalog, sent, result>>

GoConsumer ==
    LET err == HandlerError(cfg.streams[i]) IN
    /\ pc = "handlers"
    /\ IF err # "none" THEN Fail(err)
       ELSE /\ running' = running \cup {i}
            /\ i' = i + 1
            /\ pc' = IF i = Len(cfg.streams) THEN "serving" ELSE "handlers"
            /\ UNCHANGED <<cfg, svc, todo, catalog, sent, result>>

(* selectClient: nil when the service is not configured, and Forward returns *)
(* nil without a request.                                                   *)
SelectClient(service) == IF service \in svc THEN service ELSE None

(* A started consumer has an event, perhaps before main starts the others. *)
Forward(k) ==
    /\ pc \in {"handlers", "serving"}
    /\ cfg.streams[k].handler # None
    /\ sent' = sent \cup {<<k, SelectClient(Registry[cfg.streams[k].handler])>>}
    /\ UNCHANGED <<cfg, pc, i, svc, todo, catalog, running, result>>

Next ==
    \/ LoadFile \/ ValidateLookups \/ ValidateServices \/ ValidateBinding \/ LoadSettings
    \/ NewServices \/ BuildLookup \/ CatalogBuilt \/ GoConsumer
    \/ \E k \in running : Forward(k)

Spec == Init /\ [][Next]_vars

-----------------------------------------------------------------------------
(* Properties.                                                              *)

(* Every variable has its type; main starts bindings of the file only. *)
TypeOK ==
    /\ cfg \in Files
    /\ pc \in {"file", "lookups", "services", "bindings", "settings", "init",
               "catalog", "handlers", "serving", "exited"}
    /\ i \in 1..(MaxBindings + 1)
    /\ svc \subseteq {"internal", "gateway", "db"}
    /\ todo \cup catalog \subseteq LookupNames
    /\ running \subseteq DOMAIN cfg.streams
    /\ sent \subseteq running \X {"internal", "gateway", None}

(* The reference: an instance that can do all it is configured to do. *)
Sound ==
    /\ cfg.streams # <<>>
    /\ \A n \in Defined :
        LET s == cfg.lookups[n] IN s.type = "sql" /\ s.ttl # "bad" /\ s.sql
    /\ Defined # {} => cfg.dsn = "set"
    /\ cfg.dsn # "bad"
    /\ cfg.internal # "empty"
    /\ cfg.gateway # "empty"
    /\ cfg.gateway = "set" => cfg.credentials = "set"
    /\ \A k \in DOMAIN cfg.streams :
        LET b == cfg.streams[k] IN
        /\ b.handler \in DOMAIN Registry \/ (b.handler = None /\ b.emit)
        /\ \A r \in DOMAIN b.enrich : b.enrich[r].lookup \in Defined /\ b.enrich[r].ident

(* Errors that do not depend on what is sound here. *)
Elsewhere == {"ErrMissingInstanceID", "read config", "parse config",
              "ErrInstanceNotFound", "stream name, scope or self-emit",
              "ErrEmitCycle", "ErrBadEscalateAfter", "a duration",
              "create db pool"}

(* All that Load returns. *)
LoadErrors == {"ErrMissingInstanceID", "read config", "parse config",
               "ErrInstanceNotFound", "ErrNoStreams", "ErrUnknownLookupType",
               "ErrBadLookupTTL", "ErrMissingURLEnv", "ErrMissingGatewayURLEnv",
               "ErrMissingGatewayCredentials", "ErrMissingDBConfig",
               "ErrEmptyBinding", "ErrUnknownLookup", "ErrBadBindKey",
               "stream name, scope or self-emit", "ErrEmitCycle",
               "ErrBadEscalateAfter", "a duration"}

(* The checks of Load, services.New, the factory and buildHandler together     *)
(* let through the instances that are sound and no other, whatever the order *)
(* in which the catalogue is visited.                                       *)
ServesExactlySound ==
    /\ pc = "serving" => Sound
    /\ result \notin Elsewhere \cup {"none"} => ~Sound

(* What Load accepts fails later for five reasons only: a DSN that does not     *)
(* parse, a pool that pgxpool refuses, a lookup without sql text, lookups    *)
(* that nobody uses without a database, and a handler that is not            *)
(* registered.  The second checks of type, ttl and lookup name never fail,   *)
(* and a rule whose database is missing never gets past Load.               *)
GapsAfterLoad ==
    result \notin LoadErrors \cup {"none"} =>
        \/ result = "parse db dsn" /\ cfg.dsn = "bad"
        \/ result = "create db pool" /\ cfg.dsn = "set"
        \/ result = "sql text is required" /\ \E n \in Defined : ~cfg.lookups[n].sql
        \/ /\ result = "db pool is required"
           /\ ~AnyEnrich /\ Defined # {} /\ cfg.dsn # "set"
        \/ /\ result = "unknown handler"
           /\ \E k \in DOMAIN cfg.streams :
                 cfg.streams[k].handler \notin DOMAIN Registry \cup {None}

(* os.Exit in the loop over the bindings kills consumers that already handle   *)
(* events: only an unregistered handler of a later binding can do that.      *)
KilledByHandlerOnly ==
    pc = "exited" /\ running # {} => result = "unknown handler"

(* An event is forwarded to the service its handler names, whose URL and         *)
(* credentials are there; it is dropped in silence (handlers.go:48, no-op)   *)
(* only if the file does not name that service's URL at all.                *)
ForwardedOrUnnamed ==
    \A p \in sent :
        LET service == Registry[cfg.streams[p[1]].handler] IN
        IF p[2] = None
          THEN (IF service = "gateway" THEN cfg.gateway ELSE cfg.internal) = "unnamed"
          ELSE /\ p[2] = service
               /\ service = "internal" => cfg.internal = "set"
               /\ service = "gateway" => cfg.gateway = "set" /\ cfg.credentials = "set"
=============================================================================
