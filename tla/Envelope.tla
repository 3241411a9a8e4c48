------------------------------ MODULE Envelope ------------------------------
(***************************************************************************)
(* internal/event and internal/produce: the fields of a stream entry, the   *)
(* Event that Parse makes of them, and the fields that Emit writes.         *)
(*                                                                          *)
(* A JSON object is the set of its columns with a value (nil and {} have    *)
(* the same columns, and no code tells them apart).  Times are counted in   *)
(* half seconds, since RFC 3339 as Emit formats it has no fraction.  op,    *)
(* table, schema and lsn are required alike: "head" says all are there.     *)
(***************************************************************************)
EXTENDS Integers

CONSTANTS
    Columns,     \* columns of rows, and the Into names of enrichments
    Instance     \* this process's instanceID

NoTime == -1     \* a streamed_at that is missing or not RFC 3339
NoSource == ""   \* WALker's entries have no source

(* The text of a field that should hold a JSON object. *)
Absent == [kind |-> "absent", map |-> {}]
Blank == [kind |-> "blank", map |-> {}]
Garbage == [kind |-> "garbage", map |-> {}]
Json(m) == [kind |-> "json", map |-> m]
Texts == {Absent, Blank, Garbage} \cup {Json(m) : m \in SUBSET Columns}

Entry(head, lsn, at, data, old, enrichment, source) ==
    [head |-> head, lsn |-> lsn, at |-> at, data |-> data, old |-> old,
     enrichment |-> enrichment, source |-> source]

(* The entries of a stream. *)
Entries ==
    [head : BOOLEAN, lsn : Nat, at : Nat \cup {NoTime}, data : Texts, old : Texts,
     enrichment : Texts, source : {NoSource, Instance}]

(* event.Parse: a missing required field, a time or an object that cannot be *)
(* read makes the entry malformed; old and enrichment may be absent or "".  *)
Optional == {Absent.kind, Blank.kind, "json"}

Parses(e) ==
    /\ e.head
    /\ e.at # NoTime
    /\ e.data.kind = "json"
    /\ e.old.kind \in Optional
    /\ e.enrichment.kind \in Optional

Parse(e) ==
    [lsn |-> e.lsn, at |-> e.at, data |-> e.data.map, old |-> e.old.map,
     enrichment |-> e.enrichment.map, source |-> e.source]

(* produce.Emit: data is always written, old and enrichment if not empty, the *)
(* source is this instance.                                                 *)
Seconds(at) == 2 * (at \div 2)
OmitEmpty(m) == IF m = {} THEN Absent ELSE Json(m)

EnvelopeForgetsOld(evt) ==                                       \* mutant
    Entry(TRUE, evt.lsn, Seconds(evt.at), Json(evt.data), Absent,
          OmitEmpty(evt.enrichment), Instance)

Envelope(evt) ==
    Entry(TRUE, evt.lsn, Seconds(evt.at), Json(evt.data),
          OmitEmpty(evt.old), OmitEmpty(evt.enrichment), Instance)

=============================================================================
