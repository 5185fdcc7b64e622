---------------------------- MODULE ConsumerLink ----------------------------
(***************************************************************************)
(* A worker's connection as the rest of the pipeline has to know it: what  *)
(* Worker.tla assumes of the reconnect loop.  A delivery is worked on to   *)
(* its end, whatever becomes of the connection, and an open connection is  *)
(* closed only between two deliveries.  (The death of the process is an    *)
(* action of Worker.tla and not of this module.)                           *)
(***************************************************************************)
VARIABLES
    conn,    \* closed, open, or stale: gone without the worker knowing
    busy     \* a delivery is being worked on

vars == <<conn, busy>>

Init ==
    /\ conn = "closed"
    /\ busy = FALSE

Open ==
    /\ conn = "closed"
    /\ ~busy
    /\ conn' = "open"
    /\ UNCHANGED busy

Drop ==
    /\ conn = "open"
    /\ conn' = "stale"
    /\ UNCHANGED busy

Deliver ==
    /\ conn = "open"
    /\ ~busy
    /\ busy' = TRUE
    /\ UNCHANGED conn

Return ==
    /\ busy
    /\ busy' = FALSE
    /\ \/ UNCHANGED conn
       \/ conn = "stale" /\ conn' = "closed"

Close ==
    /\ conn # "closed"
    /\ ~busy
    /\ conn' = "closed"
    /\ UNCHANGED busy

Next == Open \/ Drop \/ Deliver \/ Return \/ Close

Spec == Init /\ [][Next]_vars
=============================================================================
