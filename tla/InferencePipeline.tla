------------------------- MODULE InferencePipeline -------------------------
(***************************************************************************)
(* The whole asynchronous pipeline: upload handlers of one backend process *)
(* and the worker replicas, which share nothing but Postgres, the bucket   *)
(* and the queue.  What the environment may do to them is a parameter.     *)
(***************************************************************************)
EXTENDS UploadHandler, Worker

(* backendCrash, crash: a process dies.  link: the backend's connection to *)
(* the broker goes, or its channel alone.  drop: a worker's connection     *)
(* goes.  nack: the broker refuses a publish.  db, s3: a call to Postgres, *)
(* or to S3, raises.  engine: the engine raises what nobody foresaw.       *)
(* wipe: LocalStack restarts empty.  reset: the database is emptied.       *)
(* down: `docker compose down` and up.                                     *)
FaultKinds == {"backendCrash", "crash", "link", "drop", "nack", "db", "s3",
               "engine", "wipe", "reset", "down"}

CONSTANT Faults    \* the kinds that can happen

ASSUME FaultsAssumption == Faults \subseteq FaultKinds

vars == <<storeVars, storageVars, queueVars, handlerVars, workerVars>>

Init ==
    /\ StoreInit
    /\ StorageInit
    /\ QueueInit
    /\ HandlerInit
    /\ WorkerInit
-----------------------------------------------------------------------------
(* One handler of the backend takes a step. *)
HandlerStep(r) ==
    \/ PutImage(r) \/ CreateRequest(r)
    \/ SendToQueue(r) \/ SendToFullBuffer(r)
    \/ Reply202(r) \/ MarkUnqueued(r)

HandlerFault(r) ==
    \/ "s3" \in Faults /\ PutImageFails(r)
    \/ "db" \in Faults /\ (CreateRequestFails(r) \/ MarkUnqueuedFails(r))
    \/ "link" \in Faults /\ NoChannel(r)

(* What reaches the backend's channel from the network. *)
ChannelStep ==
    \/ Drain
    \/ \E r \in Requests : Confirm(r) \/ Arrive(r)

ChannelFault ==
    \/ \E r \in Requests : SocketLost(r)
    \/ "link" \in Faults /\ (LinkLoss \/ ChannelDies)
    \/ "nack" \in Faults /\ \E r \in Requests : Nack(r)
    \/ "backendCrash" \in Faults /\ BackendCrash

(* A worker's connection: opened, noticed dead, or bringing a message. *)
ConsumeStep(w) == Open(w) \/ NoticeLoss(w) \/ \E m \in Messages : Deliver(w, m)

(* One call of a callback, whatever comes of it. *)
CallStep(w) ==
    \/ Ack(w) \/ Requeue(w) \/ Reject(w)
    \/ \E r \in Requests :
           \/ MarkProcessing(w, r) \/ Download(w, r) \/ Classify(w, r)
           \/ SaveSuccess(w, r) \/ MarkFailed(w, r)

CallFault(w) ==
    \/ "db" \in Faults /\ \E r \in Requests :
           MarkProcessingFails(w, r) \/ SaveSuccessFails(w, r) \/ MarkFailedFails(w, r)
    \/ "s3" \in Faults /\ StorageUnreachable(w)
    \/ "engine" \in Faults /\ EngineRaises(w)

(* A worker loses its connection, or dies. *)
Disruption(w) ==
    \/ "drop" \in Faults /\ DropConnection(w)
    \/ "crash" \in Faults /\ Crash(w)
-----------------------------------------------------------------------------
(* The bucket goes with its objects, until the backend starts again.       *)
WipeObjects ==
    /\ objects' = {}
    /\ bucket' = FALSE
    /\ UNCHANGED <<storeVars, queueVars, handlerVars, workerVars>>

(* ON DELETE CASCADE: the results go with the requests. *)
ResetDatabase ==
    /\ status' = [r \in Requests |-> "none"]
    /\ errorMessage' = [r \in Requests |-> "null"]
    /\ result' = [r \in Requests |-> FALSE]
    /\ UNCHANGED <<storageVars, queueVars, handlerVars, workerVars>>

(* Only Postgres has a named volume: every process goes, and with them the *)
(* queue and the bucket, while the rows stay.                              *)
ComposeDown ==
    /\ objects' = {}
    /\ bucket' = TRUE
    /\ msg' = [m \in Messages |-> IF msg[m] \in {"sent", "ready", "unacked"}
                                  THEN "lost" ELSE msg[m]]
    /\ phase' = [r \in Requests |-> IF phase[r] \in Active THEN "gone" ELSE phase[r]]
    /\ unconfirmed' = {}
    /\ awaiting' = [r \in Requests |-> {}]
    /\ conn' = [w \in Workers |-> "closed"]
    /\ job' = [w \in Workers |-> None]
    /\ wasRedelivered' = [w \in Workers |-> FALSE]
    /\ pc' = [w \in Workers |-> "idle"]
    /\ error' = [w \in Workers |-> "none"]
    /\ UNCHANGED <<storeVars, redelivered>>

Disaster ==
    \/ "wipe" \in Faults /\ WipeObjects
    \/ "reset" \in Faults /\ ResetDatabase
    \/ "down" \in Faults /\ ComposeDown
-----------------------------------------------------------------------------
BackendNext ==
    \/ ChannelStep \/ ChannelFault
    \/ \E r \in Requests : Upload(r) \/ HandlerStep(r) \/ HandlerFault(r)

WorkerStep(w) == ConsumeStep(w) \/ CallStep(w) \/ CallFault(w)

Next ==
    \/ BackendNext /\ UNCHANGED workerVars
    \/ (\E w \in Workers : WorkerStep(w) \/ Disruption(w)) /\ UNCHANGED handlerVars
    \/ Disaster

Spec == Init /\ [][Next]_vars

(* Node and Python get to every step they can take; the broker delivers,   *)
(* confirms and drains; heartbeats (60 s) expose a dead connection.  A     *)
(* step that fails is a step: no call to a dependency is assumed to work.  *)
Fairness ==
    /\ \A r \in Requests :
          /\ WF_vars((HandlerStep(r) \/ HandlerFault(r)) /\ UNCHANGED workerVars)
          /\ WF_vars(Arrive(r) /\ UNCHANGED workerVars)
          /\ WF_vars(Confirm(r) /\ UNCHANGED workerVars)
    /\ WF_vars(Drain /\ UNCHANGED workerVars)
    /\ \A w \in Workers :
          /\ WF_vars(ConsumeStep(w) /\ UNCHANGED handlerVars)
          /\ WF_vars((CallStep(w) \/ CallFault(w)) /\ UNCHANGED handlerVars)

FairSpec == Spec /\ Fairness
=============================================================================
