----------------------------- MODULE MCGateway -----------------------------
(* Instances of Gateway for TLC; a tick is ten seconds.                     *)
EXTENDS Gateway

CONSTANTS g1, g2

Pair == {g1, g2}

(* The 30s of the tests, the longest token that a login and a request can     *)
(* outlive and the next one, all within the buffer; one beyond the buffer.   *)
ShortAndLong ==
    {RequestTimeout, LoginTimeout + RequestTimeout,
     LoginTimeout + RequestTimeout + 1, Buffer + 2}
=============================================================================
