----------------------------- MODULE MCPipeline -----------------------------
(* An instance of Pipeline for TLC: two bindings, the first with two lookups. *)
EXTENDS Pipeline

MCColumns == {"id", "name", "user", "role"}
MCRules == << <<[bind |-> {"id"}, into |-> "user"],
                [bind |-> {"name"}, into |-> "role"]>>, <<>> >>

(* A row whose name is in old only; an inserted row, without old; one without  *)
(* columns; one cut short.                                                  *)
Update == Entry(TRUE, 0, 3, Json({"id"}), Json({"name"}), Blank, NoSource)
Insert == Entry(TRUE, 0, 3, Json({"id", "name"}), Absent, Blank, NoSource)
Bare == Entry(TRUE, 0, 2, Json({}), Absent, Absent, NoSource)
Cut == Entry(TRUE, 0, 2, Garbage, Absent, Absent, NoSource)
MCInputs == {Update, Insert, Bare, Cut}
=============================================================================
