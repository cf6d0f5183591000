---------------------------- MODULE MCProcessPool ----------------------------
(* A third child where the children take turns, so that one can die and two
   still have to share. *)
EXTENDS ProcessPool
MCSizes == [processpool |-> 3, pool_cgi |-> 2, springsnail |-> 2]
MCConns == [processpool |-> 3, pool_cgi |-> 2, springsnail |-> 2]
=============================================================================
