---------------------------- MODULE Dependencies ----------------------------
(***************************************************************************)
(* The three servers both services need, as far as starting up can see     *)
(* them: which of them answer, and what has been created in them.          *)
(***************************************************************************)
Servers == {"postgres", "s3", "broker"}

VARIABLES
    up,        \* the servers that answer
    bucket,    \* the bucket exists
    schema     \* the tables exist

serverVars == <<up, bucket, schema>>

ServersTypeOK ==
    /\ up \subseteq Servers
    /\ bucket \in BOOLEAN
    /\ schema \in BOOLEAN

ServersInit ==
    /\ up \in SUBSET Servers
    /\ bucket = FALSE
    /\ schema = FALSE

(* Postgres keeps its tables in a volume; LocalStack comes back empty. *)
GoDown(s) ==
    /\ s \in up
    /\ up' = up \ {s}
    /\ bucket' = (bucket /\ s # "s3")
    /\ UNCHANGED schema

ComeUp(s) ==
    /\ s \in Servers \ up
    /\ up' = up \cup {s}
    /\ UNCHANGED <<bucket, schema>>
=============================================================================
