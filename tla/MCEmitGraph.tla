---------------------------- MODULE MCEmitGraph ----------------------------
(* Instances of EmitGraph for TLC: two names and the key of one of them.     *)
EXTENDS EmitGraph, TLC

CONSTANTS a, b, ia, ib, iia, empty

(* "i.a" is a name somebody may emit to; "i.b" and "i.i.a" are only keys. *)
MCPrefixed == a :> ia @@ b :> ib @@ ia :> iia
=============================================================================
