------------------------------ MODULE MCStartup ------------------------------
(* Instances of Startup for TLC: two lookups, every kind of bad entry, and   *)
(* bindings that are good, empty, misspelt or refer to what is not there.    *)
EXTENDS Startup

Spec1(type, ttl, sql) == [type |-> type, ttl |-> ttl, sql |-> sql]
MCSpecs == {Spec1("sql", "5m", TRUE), Spec1("sql", "bad", TRUE),
            Spec1("sql", "", FALSE), Spec1("http", "", TRUE)}

Rule(lookup, ident) == [lookup |-> lookup, ident |-> ident]
Binding(handler, emit, enrich) == [handler |-> handler, emit |-> emit, enrich |-> enrich]
MCBindings ==
    {Binding("order-sync@v1", FALSE, <<>>),
     Binding("gateway-sync", FALSE, <<Rule("u", TRUE)>>),
     Binding("", TRUE, <<Rule("u", TRUE), Rule("v", TRUE)>>),
     Binding("order-sync", TRUE, <<>>),
     Binding("", FALSE, <<Rule("v", TRUE)>>),
     Binding("", TRUE, <<Rule("u", FALSE)>>)}
=============================================================================
