------------------------- MODULE PipelineProperties -------------------------
(***************************************************************************)
(* What the pipeline is supposed to guarantee.  A property that cannot     *)
(* survive some kind of fault says so, and is checked without that kind.   *)
(***************************************************************************)
EXTENDS InferencePipeline

(* Every variable keeps its type, in whatever order handlers, workers and  *)
(* faults interleave; in particular errorMessage only ever holds one of    *)
(* the sentences user_message and create write for a person to read.       *)
TypeOK ==
    /\ StoreTypeOK
    /\ StorageTypeOK
    /\ QueueTypeOK
    /\ HandlerTypeOK
    /\ WorkerTypeOK

(* A row marked 'completed' has its prediction, whatever two workers, a    *)
(* late markFailed of the backend or a redelivery did to it: the two       *)
(* writes of save_success are one transaction (database.py:90).            *)
CompletedHasPrediction ==
    \A r \in Requests : status[r] = "completed" => result[r]

Holds(w, m) == conn[w] = "open" /\ job[w] = m

(* A message the broker is waiting for is held by one worker whose         *)
(* connection is open: no path through _on_message forgets to settle its   *)
(* delivery (it would stay unacked and, with prefetch 1, starve the        *)
(* worker), and the broker never has it out twice.                         *)
UnackedIsHeldOnce ==
    \A m \in Messages : msg[m] = "unacked" =>
        \E w \in Workers : Holds(w, m) /\ \A v \in Workers : Holds(v, m) => v = w

(* A worker puts a message back of its own accord at most once: later      *)
(* returns to the queue are all the broker's, for a lost connection        *)
(* (worker.py:247-259).                                                    *)
RetriedAtMostOnce ==
    [][\A m \in Messages :
          /\ msg[m] = "unacked" /\ msg'[m] = "ready"
          /\ \A w \in Workers : Holds(w, m) => conn'[w] = "open"
          => ~redelivered[m]]_vars

(* A message in flight or beyond names a row and an image that are there:  *)
(* the order of the three writes of create (inferenceController.ts:40-52). *)
(* Without "wipe", "reset" and "down".                                     *)
JobBeforeMessage ==
    \A r \in Requests : msg[r] # "absent" => RowExists(r) /\ r \in objects

(* "makes the 202 truthful" (queueService.ts:85-93): when 202 is answered  *)
(* the broker has the message, also when several uploads share the channel *)
(* and some of them wait for 'drain'.  Without "down".                     *)
AcceptedIsQueued ==
    \A r \in Requests : phase[r] = "accepted" => msg[r] \in Queued

(* A job that left the queue by an ack has a stored prediction: the ack    *)
(* comes after the commit (worker.py:222-231).  Without "reset".           *)
AckedHasPrediction ==
    \A r \in Requests : msg[r] = "acked" => result[r]

(* Two callbacks never run on the same job ("exactly one worker",          *)
(* README.md:113).  Without "drop".                                        *)
OneWorkerPerJob ==
    \A v, w \in Workers : job[v] = job[w] /\ job[v] # None => v = w

(* Once its message is settled and no callback is left running on it, a    *)
(* job has a terminal status: "The browser gets a terminal answer either   *)
(* way - it never polls forever" (README.md:146-147).  Without "db",       *)
(* "drop" and "reset".                                                     *)
SettledIsTerminal ==
    \A r \in Requests :
        msg[r] \in Settled /\ (\A w \in Workers : job[w] # r) => status[r] \in Terminal

(* 'completed' and 'failed' "will never change again"                      *)
(* (frontend/src/types/inference.ts:52), on which the poll hook stops: a   *)
(* terminal status stays as long as its row does.                          *)
(* Without "crash", "drop", "nack", "link" and "db".                       *)
TerminalIsFinal ==
    [][\A r \in Requests :
          status[r] \in Terminal /\ RowExists(r)' => status'[r] = status[r]]_vars

(* "no prediction is attached to a failure" (tests/e2e.py:217), as the API *)
(* would answer a poll.  Without "crash", "drop", "nack", "db" and "link". *)
NoPredictionOnFailure ==
    \A r \in Requests : JobDto(r).status = "failed" => ~JobDto(r).prediction

(* What a poll answers agrees with itself: a prediction is attached to the *)
(* completed jobs and no others, and error_message is "Populated only when *)
(* status = 'failed'" (schema.sql:31), and always then.  Without "crash",  *)
(* "drop", "nack", "db" and "link".                                        *)
PollIsCoherent ==
    \A r \in Requests :
        /\ JobDto(r).prediction <=> JobDto(r).status = "completed"
        /\ JobDto(r).errorMessage # "null" <=> JobDto(r).status = "failed"

(* Nobody forgets a job that is still 'pending': its handler is under way  *)
(* or waits on a dead channel, its message is, or the process died with    *)
(* the handler (inferenceController.ts:85-90: "what keeps the client from  *)
(* polling `pending` forever").  Nothing repairs the rows of a process     *)
(* that died.  Without "nack", "down" and "db".                            *)
PendingIsOwned ==
    \A r \in Requests : status[r] = "pending" =>
        \/ phase[r] \in Active \cup {"gone"}
        \/ msg[r] \in {"sent", "ready", "unacked"}

(* Nor one that is 'processing': its message is still the broker's to      *)
(* deliver, so a worker will come back to it, whichever workers died       *)
(* ("A worker crash loses nothing", worker.py:14).                          *)
(* Without "down", "db" and "drop".                                        *)
ProcessingIsOwned ==
    \A r \in Requests : status[r] = "processing" => msg[r] \in {"ready", "unacked"}

(* A job without a terminal status is somebody's business. *)
UnfinishedIsOwned == PendingIsOwned /\ ProcessingIsOwned

(* No wake-up is lost in waitForConfirms (queueService.ts:115): what an    *)
(* upload still waits for is unconfirmed on the channel, and the broker    *)
(* has or will have every unconfirmed message, so that its confirm can     *)
(* still come - whichever uploads, drains, refusals and losses of the      *)
(* connection came in between.                                             *)
ConfirmsAreDue ==
    /\ \A r \in Requests : awaiting[r] \subseteq unconfirmed
    /\ \A r \in unconfirmed : msg[r] \in Queued \cup {"sent"}

(* What the pages rely on when they poll: a row is inserted once, never    *)
(* goes back to 'pending' nor goes away, never loses its prediction, and   *)
(* an error comes only with the status 'failed' (the statements of         *)
(* databaseService.ts and database.py, by whomever, in any order).         *)
(* Without "reset".                                                        *)
KeepsRows == StoreInit /\ [][\E r \in Requests : RowWritten(r, Sentences)]_storeVars

-----------------------------------------------------------------------------
(* Workers stop losing their connections and their lives. *)
WorkersSettleDown == \A w \in Workers : <>[][~Disruption(w)]_vars

(* Every accepted job leaves the queue, acked or dead-lettered, however    *)
(* often S3, Postgres or the engine fail: neither a retry loop nor a       *)
(* worker that forgot its delivery keeps it (tests/e2e.py, worker.py).     *)
AcceptedLeavesQueue ==
    WorkersSettleDown =>
        \A r \in Requests : phase[r] = "accepted" ~> msg[r] \in Settled

(* Every upload that was answered 202 or 503 ends up with a terminal       *)
(* status that stays: also the one whose 503 was wrong because only the    *)
(* confirm was lost.  Without "db", "drop", "reset" and "down".            *)
AnsweredForGood ==
    WorkersSettleDown =>
        \A r \in Requests :
            phase[r] \in {"accepted", "unavailable"} ~> [](status[r] \in Terminal)

(* Every upload is answered: no handler waits on the channel for ever, on  *)
(* its own account or on that of another upload's message.  The exception  *)
(* is the one that awaited 'drain' when the connection went (hung).        *)
UploadIsAnswered ==
    \A r \in Requests :
        phase[r] \in Active \ {"hung"} ~> phase[r] \in Ended \cup {"hung"}
-----------------------------------------------------------------------------
(* The contract as the pipeline keeps it: a message counts as outstanding  *)
(* from the moment the broker has it.  Without "nack", "reset" and "down". *)
ContractPlace(r) ==
    IF msg[r] \in {"ready", "unacked"} THEN "outstanding"
    ELSE IF msg[r] = "acked" THEN "done"
    ELSE IF msg[r] = "dead" THEN "dead"
    ELSE "absent"

Contract == INSTANCE JobContract WITH
    place <- [r \in Requests |-> ContractPlace(r)],
    accepted <- [r \in Requests |-> phase[r] = "accepted"],
    predicted <- result

(* The pipeline implements JobContract. *)
KeepsContract == Contract!Spec
=============================================================================
