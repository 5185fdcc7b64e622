------------------------------- MODULE Worker -------------------------------
(***************************************************************************)
(* The replicas of inference/worker.py: each holds at most one message     *)
(* (prefetch 1) and runs _on_message on it, one call to a dependency per   *)
(* step.  pika runs the callback on the connection's own loop, so a        *)
(* connection the broker has given up on is noticed only by a write that   *)
(* fails or after the callback.                                            *)
(***************************************************************************)
EXTENDS JobStore, ObjectStore, JobQueue

CONSTANT Workers

VARIABLES
    conn,            \* conn[w]: closed, open, or stale - the broker has closed it
                     \* and put the message back, and w does not know yet
    job,             \* job[w]: the message w's callback runs on, or None
    wasRedelivered,  \* wasRedelivered[w]: method.redelivered of that delivery
    pc,              \* pc[w]: the next call of the callback
    error            \* error[w]: the exception being handled, or "none"

workerVars == <<conn, job, wasRedelivered, pc, error>>

(* Exception classes as the except clauses of _on_message tell them apart. *)
Permanent == {"InvalidImage", "ObjectNotFound", "RequestNotFound"}
Transient == {"StorageError", "DatabaseError"}
Exceptions == Permanent \cup Transient \cup {"Unexpected"}

(* Mutant: the text of the exception itself is shown. *)
RawUserMessage == [e \in Exceptions |-> e]

UserMessage == [
    InvalidImage    |-> "undecodable",
    ObjectNotFound  |-> "object gone",
    RequestNotFound |-> "row gone",
    StorageError    |-> "store unreachable",
    DatabaseError   |-> "database unreachable",
    Unexpected      |-> "unexpected"]

(* The calls inside the try block, in order, and those of its handlers. *)
Trying == {"marking", "downloading", "classifying", "saving", "acking"}
Calls == Trying \cup {"requeueing", "failing", "rejecting"}

WorkerTypeOK ==
    /\ conn \in [Workers -> {"closed", "open", "stale"}]
    /\ job \in [Workers -> Messages \cup {None}]
    /\ wasRedelivered \in [Workers -> BOOLEAN]
    /\ pc \in [Workers -> {"idle"} \cup Calls]
    /\ error \in [Workers -> Exceptions \cup {"none"}]

WorkerInit ==
    /\ conn = [w \in Workers |-> "closed"]
    /\ job = [w \in Workers |-> None]
    /\ wasRedelivered = [w \in Workers |-> FALSE]
    /\ pc = [w \in Workers |-> "idle"]
    /\ error = [w \in Workers |-> "none"]

(* w runs a callback on a real job. *)
WorksOn(w, r) == job[w] = r /\ r \in Requests

Proceed(w, call) ==
    /\ pc' = [pc EXCEPT ![w] = call]
    /\ UNCHANGED <<conn, job, wasRedelivered, error>>

(* Mutant: a transient failure is requeued without asking the flag. *)
RaiseWithoutLimit(w, e) ==
    /\ error' = [error EXCEPT ![w] = e]
    /\ pc' = [pc EXCEPT ![w] = IF e \in Transient THEN "requeueing" ELSE "failing"]
    /\ UNCHANGED <<conn, job, wasRedelivered>>

(* An exception of class e leaves the try block: the transient ones buy    *)
(* one requeue, counted by the broker's flag, every other goes to _fail.   *)
Raise(w, e) ==
    /\ error' = [error EXCEPT ![w] = e]
    /\ pc' = [pc EXCEPT ![w] = IF e \in Transient /\ ~wasRedelivered[w]
                               THEN "requeueing" ELSE "failing"]
    /\ UNCHANGED <<conn, job, wasRedelivered>>

(* The callback is over, and c is what is left of the connection. *)
Finish(w, c) ==
    /\ conn' = [conn EXCEPT ![w] = c]
    /\ job' = [job EXCEPT ![w] = None]
    /\ wasRedelivered' = [wasRedelivered EXCEPT ![w] = FALSE]
    /\ pc' = [pc EXCEPT ![w] = "idle"]
    /\ error' = [error EXCEPT ![w] = "none"]
-----------------------------------------------------------------------------
(* _open and _consume of the reconnect loop. *)
Open(w) ==
    /\ conn[w] = "closed"
    /\ conn' = [conn EXCEPT ![w] = "open"]
    /\ UNCHANGED <<storeVars, storageVars, queueVars, job, wasRedelivered, pc, error>>

(* start_consuming raises: run() closes what is left and loops. *)
NoticeLoss(w) ==
    /\ conn[w] = "stale"
    /\ pc[w] = "idle"
    /\ conn' = [conn EXCEPT ![w] = "closed"]
    /\ UNCHANGED <<storeVars, storageVars, queueVars, job, wasRedelivered, pc, error>>

(* A delivery starts _on_message.  parse_job refuses junk before the try.  *)
Deliver(w, m) ==
    /\ conn[w] = "open"
    /\ pc[w] = "idle"
    /\ HandOut(m)
    /\ job' = [job EXCEPT ![w] = m]
    /\ wasRedelivered' = [wasRedelivered EXCEPT ![w] = redelivered[m]]
    /\ pc' = [pc EXCEPT ![w] = IF m \in Junk THEN "rejecting" ELSE "marking"]
    /\ UNCHANGED <<storeVars, storageVars, conn, error>>
-----------------------------------------------------------------------------
MarkProcessing(w, r) ==
    /\ pc[w] = "marking" /\ WorksOn(w, r)
    /\ IF RowExists(r)
       THEN UpdateProcessing(r) /\ Proceed(w, "downloading")
       ELSE UNCHANGED storeVars /\ Raise(w, "RequestNotFound")
    /\ UNCHANGED <<storageVars, queueVars>>

Download(w, r) ==
    /\ pc[w] = "downloading" /\ WorksOn(w, r)
    /\ IF r \in objects THEN Proceed(w, "classifying") ELSE Raise(w, "ObjectNotFound")
    /\ UNCHANGED <<storeVars, storageVars, queueVars>>

(* Mutant: the delivery is acknowledged before the result is saved. *)
ClassifyThenAck(w, r) ==
    /\ pc[w] = "classifying" /\ WorksOn(w, r)
    /\ IF Decodes(r) THEN Proceed(w, "acking") ELSE Raise(w, "InvalidImage")
    /\ UNCHANGED <<storeVars, storageVars, queueVars>>

Classify(w, r) ==
    /\ pc[w] = "classifying" /\ WorksOn(w, r)
    /\ IF Decodes(r) THEN Proceed(w, "saving") ELSE Raise(w, "InvalidImage")
    /\ UNCHANGED <<storeVars, storageVars, queueVars>>

(* A row that is gone by now fails the foreign key: a DatabaseError. *)
SaveSuccess(w, r) ==
    /\ pc[w] = "saving" /\ WorksOn(w, r)
    /\ IF RowExists(r)
       THEN UpsertResult(r) /\ Proceed(w, "acking")
       ELSE UNCHANGED storeVars /\ Raise(w, "DatabaseError")
    /\ UNCHANGED <<storageVars, queueVars>>

(* basic_ack on a connection the broker has closed is written into a dead  *)
(* socket unnoticed, or raises - inside the try block.                     *)
Ack(w) ==
    /\ pc[w] = "acking"
    /\ \/ conn[w] = "open" /\ Settle(job[w], "acked") /\ Finish(w, "open")
       \/ conn[w] = "stale" /\ UNCHANGED queueVars
          /\ (Finish(w, "stale") \/ Raise(w, "Unexpected"))
    /\ UNCHANGED <<storeVars, storageVars>>

(* basic_nack outside the try block: what it raises leaves the callback    *)
(* and ends the connection in run().                                       *)
NackUnheard(w) ==
    /\ conn[w] = "stale"
    /\ Finish(w, "stale") \/ Finish(w, "closed")
    /\ UNCHANGED queueVars

(* Mutant: the return after the requeue is missing. *)
RequeueFallsThrough(w) ==
    /\ pc[w] = "requeueing"
    /\ \/ conn[w] = "open" /\ PutBack(job[w]) /\ Proceed(w, "failing")
       \/ NackUnheard(w)
    /\ UNCHANGED <<storeVars, storageVars>>

(* Mutant: a job put back for its retry is shown as waiting again. *)
RequeueAsPending(w) ==
    /\ pc[w] = "requeueing"
    /\ \/ conn[w] = "open" /\ PutBack(job[w]) /\ Finish(w, "open") /\ InsertPending(job[w])
       \/ NackUnheard(w) /\ UNCHANGED storeVars
    /\ UNCHANGED storageVars

Requeue(w) ==
    /\ pc[w] = "requeueing"
    /\ \/ conn[w] = "open" /\ PutBack(job[w]) /\ Finish(w, "open")
       \/ NackUnheard(w)
    /\ UNCHANGED <<storeVars, storageVars>>

(* Mutant: the message is dead-lettered and the row left as it is. *)
MarkFailedSkipped(w, r) ==
    /\ pc[w] = "failing" /\ WorksOn(w, r)
    /\ Proceed(w, "rejecting")
    /\ UNCHANGED <<storeVars, storageVars, queueVars>>

(* Mutant: a recorded failure is requeued instead of dead-lettered. *)
MarkFailedThenRequeue(w, r) ==
    /\ pc[w] = "failing" /\ WorksOn(w, r)
    /\ UpdateFailed(r, UserMessage[error[w]])
    /\ Proceed(w, "requeueing")
    /\ UNCHANGED <<storageVars, queueVars>>

(* _fail, first half. *)
MarkFailed(w, r) ==
    /\ pc[w] = "failing" /\ WorksOn(w, r)
    /\ UpdateFailed(r, UserMessage[error[w]])
    /\ Proceed(w, "rejecting")
    /\ UNCHANGED <<storageVars, queueVars>>

(* Mutant: the callback returns and the delivery is never settled. *)
RejectForgotten(w) ==
    /\ pc[w] = "rejecting"
    /\ \/ conn[w] = "open" /\ Finish(w, "open") /\ UNCHANGED queueVars
       \/ NackUnheard(w)
    /\ UNCHANGED <<storeVars, storageVars>>

(* _fail, second half, and the clause for malformed jobs. *)
Reject(w) ==
    /\ pc[w] = "rejecting"
    /\ \/ conn[w] = "open" /\ Settle(job[w], "dead") /\ Finish(w, "open")
       \/ NackUnheard(w)
    /\ UNCHANGED <<storeVars, storageVars>>
-----------------------------------------------------------------------------
(* Postgres fails the statement, or only the answer to its COMMIT is lost. *)
MarkProcessingFails(w, r) ==
    /\ pc[w] = "marking" /\ WorksOn(w, r)
    /\ UpdateProcessing(r) \/ UNCHANGED storeVars
    /\ Raise(w, "DatabaseError")
    /\ UNCHANGED <<storageVars, queueVars>>

SaveSuccessFails(w, r) ==
    /\ pc[w] = "saving" /\ WorksOn(w, r)
    /\ UpsertResult(r) \/ UNCHANGED storeVars
    /\ Raise(w, "DatabaseError")
    /\ UNCHANGED <<storageVars, queueVars>>

(* _fail logs the DatabaseError and dead-letters the message all the same. *)
MarkFailedFails(w, r) ==
    /\ pc[w] = "failing" /\ WorksOn(w, r)
    /\ UpdateFailed(r, UserMessage[error[w]]) \/ UNCHANGED storeVars
    /\ Proceed(w, "rejecting")
    /\ UNCHANGED <<storageVars, queueVars>>

StorageUnreachable(w) ==
    /\ pc[w] = "downloading"
    /\ Raise(w, "StorageError")
    /\ UNCHANGED <<storeVars, storageVars, queueVars>>

(* Anything the engine does not turn into InvalidImage. *)
EngineRaises(w) ==
    /\ pc[w] = "classifying"
    /\ Raise(w, "Unexpected")
    /\ UNCHANGED <<storeVars, storageVars, queueVars>>
-----------------------------------------------------------------------------
(* The broker takes back what w holds on an open connection, if anything.  *)
TakeBack(w) ==
    IF conn[w] = "open" /\ job[w] # None THEN PutBack(job[w]) ELSE UNCHANGED queueVars

(* The broker gives up on the connection; the callback runs on. *)
DropConnection(w) ==
    /\ conn[w] = "open"
    /\ TakeBack(w)
    /\ conn' = [conn EXCEPT ![w] = "stale"]
    /\ UNCHANGED <<storeVars, storageVars, job, wasRedelivered, pc, error>>

(* The process dies, at any point of a callback, and is started again. *)
Crash(w) ==
    /\ conn[w] # "closed"
    /\ TakeBack(w)
    /\ Finish(w, "closed")
    /\ UNCHANGED <<storeVars, storageVars>>
=============================================================================
