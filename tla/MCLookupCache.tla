--------------------------- MODULE MCLookupCache ---------------------------
(* Instances of LookupCache for TLC.                                        *)
EXTENDS LookupCache, TLC

CONSTANTS c1, c2

(* Two columns a and b, of strings. *)
TwoColumns == <<"|a=", "|b=">>
Text(pieces) == <<"string:">> \o pieces

(* a = "x|b=string:y", b = "z", and a = "x", b = "y|b=string:z": one key. *)
BarInA == <<Text(<<"x", "|b=", "string:", "y">>), Text(<<"z">>)>>
BarInB == <<Text(<<"x">>), Text(<<"y", "|b=", "string:", "z">>)>>

(* a = "x", b = "z". *)
Plain == <<Text(<<"x">>), Text(<<"z">>)>>

ThreeBinds == {BarInA, BarInB, Plain}

(* Callers may be swapped. *)
Symmetry == Permutations(Callers)
=============================================================================
