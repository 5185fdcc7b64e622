------------------------------ MODULE Services ------------------------------
(***************************************************************************)
(* The two services over the life of a deployment: their starts, restarts  *)
(* and stops, while the servers they need come and go.                     *)
(***************************************************************************)
EXTENDS HttpApi, WorkerLifecycle

vars == <<serverVars, backendVars, workerVars>>

Init ==
    /\ ServersInit
    /\ BackendInit
    /\ WorkerInit

ServerStep ==
    \E s \in Servers : Outage(s) \/ (ComeUp(s) /\ UNCHANGED backendVars)

(* depends_on: the first start of the worker waits for the healthcheck of  *)
(* the backend, which answers once it listens.                             *)
StartWorker == stage = "listening" /\ FirstStart

Next ==
    \/ ServerStep /\ UNCHANGED workerVars
    \/ BackendStep /\ UNCHANGED workerVars
    \/ (\E c \in Calls : CallStep(c)) /\ UNCHANGED workerVars
    \/ (StartWorker \/ WorkerStep) /\ UNCHANGED backendVars

Spec == Init /\ [][Next]_vars

(* Compose starts and restarts what exits by itself; Node and Python go    *)
(* on; the grace timer goes off; an attempt to connect comes to some end,  *)
(* a callback returns, a lost connection is noticed.  The loop of pika     *)
(* turns over between two callbacks and runs what is scheduled on it:      *)
(* strong fairness for StopConsuming.  Nothing is assumed of requests, of  *)
(* operators or of the servers.                                            *)
Fairness ==
    /\ WF_vars((Boot \/ StartBackend) /\ UNCHANGED workerVars)
    /\ WF_vars((CloseQueue \/ CloseDatabase \/ Kill) /\ UNCHANGED workerVars)
    /\ WF_vars(StartWorker /\ UNCHANGED backendVars)
    /\ WF_vars(at = "gave up" /\ Restart /\ UNCHANGED backendVars)
    /\ WF_vars(Waiting /\ UNCHANGED backendVars)
    /\ WF_vars((TestStopping \/ WakeUp) /\ UNCHANGED backendVars)
    /\ WF_vars(Opening /\ UNCHANGED backendVars)
    /\ WF_vars(Declaring /\ UNCHANGED backendVars)
    /\ WF_vars(CallbackReturns /\ UNCHANGED backendVars)
    /\ WF_vars(LossRaises /\ UNCHANGED backendVars)
    /\ SF_vars(StopConsuming /\ UNCHANGED backendVars)

FairSpec == Spec /\ Fairness
-----------------------------------------------------------------------------
(* Every variable keeps its type; in particular the backoff of the worker  *)
(* stays within its bounds (worker.py:102).                                *)
ServicesTypeOK ==
    /\ ServersTypeOK
    /\ BackendTypeOK
    /\ WorkerTypeOK

(* A worker that has left main() writes through tables that exist: "the    *)
(* backend applies the database schema this worker writes through"         *)
(* (docker-compose.yml:147).  The gate holds for the first start only.     *)
RunsOnSchema == at \in Running => schema

(* "The reverse order would fail live requests" (server.ts:69): as long as *)
(* a client waits for its answer, the handler has its queue and its        *)
(* database.  The handler of a client that has left may lose them.         *)
LiveRequestsKeepServices ==
    (\E c \in Calls : Connected(c)) => stage \in {"listening", "draining"}

(* What main() and shutdown() do in which order (server.ts:27-36, 68-74)   *)
(* costs nobody an answer: a client that waited and got a 5xx, or was cut  *)
(* off, had a server go away under the process, or a fault of its own (a   *)
(* nack, a full pool, a body that does not parse, the crash or the killing *)
(* of the process), be it the first upload after the start, the last one   *)
(* before the exit, or /health/ready.                                      *)
OrderFailsNobody == \A c \in Calls : call[c] = "failed" => shaken \/ c \in faulted

(* "A client that disconnects mid-download cannot leave the S3 socket      *)
(* open" (inferenceController.ts:161-163), whether it leaves before the    *)
(* object is opened or after: an open body is one that is being streamed.  *)
NoBodyLeft == \A c \in bodies : call[c] = "streaming"

(* A shutdown ends, whatever the requests in flight do (server.ts:59-65).  *)
ShutdownEnds == stage = "draining" ~> stage = "exited"

(* A signal that finds the connection open, or the loop between two        *)
(* connections, ends the process, even if the connection is then lost with *)
(* the callback scheduled on it (worker.py:98, 176-183).                   *)
StopIsHeard ==
    stopping /\ (scheduled \/ connection = "lost" \/ at \in {"testing", "sleeping"})
        ~> at = "stopped"

(* run() promises to "consume until told to stop" (worker.py:76).          *)
StopsWhenTold == stopping ~> at = "stopped"

(* When the servers answer from some time on, the backend finds its way to *)
(* the listener, out of whatever the failed attempts and restarts before   *)
(* that left it in (server.ts:33-41); and if it was started in that time,  *)
(* the bucket LocalStack has lost is there again (s3Service.ts:71-74).     *)
BackendComesUp ==
    /\ <>[](up = Servers) => (stage = "exited" ~> stage = "listening")
    /\ (stage = "exited" /\ [](up = Servers)) ~> bucket

(* So does a worker to run(), provided the bucket is not lost: no running   *)
(* backend makes it again (worker.py:344-360, docker-compose.yml).          *)
WorkerComesUp ==
    <>[](up = Servers /\ bucket) => (at = "gave up" ~> at \in Running)

(* What the rest of the pipeline sees of the loop: the current job is      *)
(* finished before an open connection is closed (worker.py:168).           *)
Link == INSTANCE ConsumerLink WITH
    conn <- IF connection = "lost" THEN "stale"
            ELSE IF connection = "open" THEN "open" ELSE "closed",
    busy <- at = "callback"

(* The worker implements ConsumerLink. *)
KeepsLink == Link!Spec
=============================================================================
