---------------------------- MODULE MCHeartbeat ----------------------------
(* Instances of Heartbeat for TLC; a tick is the shortest duration there is. *)
EXTENDS Heartbeat

MCDefaults == [minIdle |-> 6, reclaim |-> 2, gcEvery |-> 4, gc |-> 9]

(* Each variable unset, at the edges of what Load accepts, and beyond.       *)
MCSettings ==
    [minIdle : {Unset, 0, 1, 4, 5}, reclaim : {Unset, 0, 1, 3},
     gcEvery : {Unset, 0, 1}, gc : {Unset, 5}, beat : {Unset, 0, 1, 3}]
=============================================================================
