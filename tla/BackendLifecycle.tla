-------------------------- MODULE BackendLifecycle --------------------------
(***************************************************************************)
(* The backend process of server.ts: one dependency after the other, then  *)
(* the listener, and a shutdown that lets the requests in flight finish    *)
(* before it takes their services away.  The handlers are in HttpApi.tla.  *)
(***************************************************************************)
EXTENDS Integers, Dependencies

CONSTANTS
    ConnectAttempts,    \* attempts of DatabaseService.connect
    BucketAttempts,     \* attempts of S3Service.ensureBucket
    QueueAttempts,      \* the first attempt of QueueService.connect and its retries
    Calls               \* the requests there can be at once

ASSUME AttemptsAssumption ==
    /\ ConnectAttempts \in Nat \ {0}
    /\ BucketAttempts \in Nat \ {0}
    /\ QueueAttempts \in Nat \ {0}

VARIABLES
    stage,      \* the await main() or shutdown() stands at
    attempt,    \* of the retry loop of that stage
    shaken,     \* a server has gone away since the process was started
    call,       \* call[c]: the await of its handler, or how it was answered
    gone,       \* the calls under way whose client has left
    probed,     \* probed[c]: the probes of a /health/ready that came back well
    bodies,     \* the calls an S3 body is open for
    faulted     \* history: the calls something has gone wrong for that was
                \* no server's going away and no closing of a service

processVars == <<stage, attempt, shaken>>
callVars == <<call, gone, probed, bodies, faulted>>
backendVars == <<processVars, callVars>>

ShuttingDown == {"draining", "closing queue", "closing database"}

Stages == {"database", "schema", "bucket", "queue", "listening", "exited"}
              \cup ShuttingDown

Awaits == {"receiving", "putting", "inserting", "publishing", "marking", "finding",
           "listing", "locating", "fetching", "streaming", "probing"}

(* answered: with a status below 500, or to nobody; failed: 5xx, or cut,   *)
(* which the proxy makes a 5xx of.                                         *)
Answers == {"answered", "failed"}

InFlight(c) == call[c] \in Awaits

(* The connection is open, and keeps server.close waiting. *)
Connected(c) == InFlight(c) /\ c \notin gone

BackendTypeOK ==
    /\ stage \in Stages
    /\ attempt \in Nat \ {0}
    /\ shaken \in BOOLEAN
    /\ call \in [Calls -> Awaits \cup Answers]
    /\ gone \subseteq Calls
    /\ probed \in [Calls -> SUBSET Servers]
    /\ bodies \subseteq Calls
    /\ faulted \subseteq Calls

BackendInit ==
    /\ stage = "database"
    /\ attempt = 1
    /\ shaken = FALSE
    /\ call = [c \in Calls |-> "answered"]
    /\ gone = {}
    /\ probed = [c \in Calls |-> {}]
    /\ bodies = {}
    /\ faulted = {}

EnterStage(s) ==
    /\ stage' = s
    /\ attempt' = 1
    /\ UNCHANGED <<shaken, callVars>>

(* process.exit: the sockets go with the process, and cut off whoever still *)
(* waits for an answer.                                                    *)
End ==
    /\ stage' = "exited"
    /\ attempt' = 1
    /\ UNCHANGED shaken
    /\ call' = [c \in Calls |-> IF Connected(c) THEN "failed"
                               ELSE IF InFlight(c) THEN "answered" ELSE call[c]]
    /\ gone' = {}
    /\ probed' = [c \in Calls |-> {}]
    /\ bodies' = {}

(* main().catch, and the last line of shutdown(). *)
Exit == End /\ UNCHANGED faulted

(* The process is brought down under its requests. *)
Abort == End /\ faulted' = faulted \cup {c \in Calls : Connected(c)}

Retry(limit) ==
    IF attempt = limit
    THEN Exit
    ELSE attempt' = attempt + 1 /\ UNCHANGED <<stage, shaken, callVars>>
-----------------------------------------------------------------------------
ConnectDatabase ==
    /\ stage = "database"
    /\ IF "postgres" \in up THEN EnterStage("schema") ELSE Retry(ConnectAttempts)
    /\ UNCHANGED serverVars

(* Mutant: the listener is opened and the schema left for later. *)
ApplySchemaLater ==
    /\ stage = "schema"
    /\ EnterStage("bucket")
    /\ UNCHANGED serverVars

ApplySchema ==
    /\ stage = "schema"
    /\ IF "postgres" \in up THEN schema' = TRUE /\ EnterStage("bucket")
                            ELSE Exit /\ UNCHANGED schema
    /\ UNCHANGED <<up, bucket>>

(* Mutant: a missing bucket is taken for a store that is still starting.   *)
AwaitBucket ==
    /\ stage = "bucket"
    /\ IF "s3" \in up /\ bucket THEN EnterStage("queue") ELSE Retry(BucketAttempts)
    /\ UNCHANGED serverVars

(* A missing bucket is created; a store that does not answer is waited for.*)
EnsureBucket ==
    /\ stage = "bucket"
    /\ IF "s3" \in up THEN bucket' = TRUE /\ EnterStage("queue")
                      ELSE Retry(BucketAttempts) /\ UNCHANGED bucket
    /\ UNCHANGED <<up, schema>>

(* The store goes away between HeadBucket and CreateBucket, which is not   *)
(* retried.                                                                *)
CreateBucketFails ==
    /\ stage = "bucket"
    /\ ~bucket
    /\ GoDown("s3")
    /\ Exit

(* Mutant: listen first, connect in the background. *)
ListenFirst ==
    /\ stage = "queue"
    /\ EnterStage("listening")
    /\ UNCHANGED serverVars

ConnectQueue ==
    /\ stage = "queue"
    /\ IF "broker" \in up THEN EnterStage("listening") ELSE Retry(QueueAttempts)
    /\ UNCHANGED serverVars

Boot ==
    \/ ConnectDatabase \/ ApplySchema \/ EnsureBucket \/ CreateBucketFails
    \/ ConnectQueue
-----------------------------------------------------------------------------
(* SIGTERM or SIGINT; a second one finds shuttingDown set and does nothing.*)
ShutDown ==
    /\ stage = "listening"
    /\ EnterStage("draining")
    /\ UNCHANGED serverVars

(* Mutant: the services are closed without waiting for server.close. *)
CloseServerAtOnce ==
    /\ stage = "draining"
    /\ EnterStage("closing queue")
    /\ UNCHANGED serverVars

(* server.close calls back once the last connection is closed: it waits for *)
(* an answer, but not for the handler of a client that has left.           *)
CloseServer ==
    /\ stage = "draining"
    /\ \A c \in Calls : ~Connected(c)
    /\ EnterStage("closing queue")
    /\ UNCHANGED serverVars

(* QueueService.close swallows what goes wrong. *)
CloseQueue ==
    /\ stage = "closing queue"
    /\ EnterStage("closing database")
    /\ UNCHANGED serverVars

(* pool.end, s3.destroy and exit(0), or exit(1) when the former raises. *)
CloseDatabase ==
    /\ stage = "closing database"
    /\ Exit
    /\ UNCHANGED serverVars

(* Mutant: the timer spares a process that still has requests. *)
KillWhenIdle ==
    /\ stage \in ShuttingDown
    /\ \A c \in Calls : ~InFlight(c)
    /\ Exit
    /\ UNCHANGED serverVars

(* SHUTDOWN_GRACE_MS are over, wherever the shutdown stands. *)
Kill ==
    /\ stage \in ShuttingDown
    /\ Abort
    /\ UNCHANGED serverVars

(* uncaughtException and unhandledRejection.  (While main() starts up,     *)
(* what goes wrong rejects one of its awaits.)                             *)
CrashBackend ==
    /\ stage = "listening"
    /\ Abort
    /\ UNCHANGED serverVars

(* restart: unless-stopped, or an operator: a new process. *)
StartBackend ==
    /\ stage = "exited"
    /\ stage' = "database"
    /\ attempt' = 1
    /\ shaken' = FALSE
    /\ call' = [c \in Calls |-> "answered"]
    /\ faulted' = {}
    /\ UNCHANGED <<gone, probed, bodies, serverVars>>

(* A server goes away under the process: whatever it comes back as, the     *)
(* connections to it may be broken from now on.                            *)
Outage(s) ==
    /\ GoDown(s)
    /\ shaken' = TRUE
    /\ UNCHANGED <<stage, attempt, callVars>>
-----------------------------------------------------------------------------
BackendStep ==
    \/ Boot
    \/ ShutDown \/ CloseServer \/ CloseQueue \/ CloseDatabase \/ Kill
    \/ CrashBackend \/ StartBackend
=============================================================================
