------------------------------ MODULE JobStore ------------------------------
(***************************************************************************)
(* Postgres as the two services use it: one row of inference_requests per  *)
(* upload and at most one row of inference_results joined to it.  Every    *)
(* operator is one statement, or one transaction, of databaseService.ts or *)
(* database.py, and commits atomically.                                    *)
(***************************************************************************)
EXTENDS JobIds

VARIABLES
    status,        \* the status column; "none" while there is no row
    errorMessage,  \* the error_message column, which sentence it holds
    result         \* whether inference_results holds a prediction

storeVars == <<status, errorMessage, result>>

(* The CHECK constraint on the status column. *)
Statuses == {"pending", "processing", "completed", "failed"}

(* isTerminal of frontend/src/types/inference.ts. *)
Terminal == {"completed", "failed"}

(* The user-facing sentences: user_message writes one per class of error,  *)
(* the controller one of its own.                                          *)
WorkerSentences == {"undecodable", "object gone", "row gone",
                    "store unreachable", "database unreachable", "unexpected"}
Sentences == WorkerSentences \cup {"not queued"}

StoreTypeOK ==
    /\ status \in [Requests -> Statuses \cup {"none"}]
    /\ errorMessage \in [Requests -> Sentences \cup {"null"}]
    /\ result \in [Requests -> BOOLEAN]

StoreInit ==
    /\ status = [r \in Requests |-> "none"]
    /\ errorMessage = [r \in Requests |-> "null"]
    /\ result = [r \in Requests |-> FALSE]

RowExists(r) == status[r] # "none"

(* INSERT of DatabaseService.createRequest. *)
InsertPending(r) ==
    /\ status' = [status EXCEPT ![r] = "pending"]
    /\ UNCHANGED <<errorMessage, result>>

(* UPDATE of mark_processing: whatever the status was, and nothing else.   *)
(* The caller tells the missing row apart (rowcount 0).                    *)
UpdateProcessing(r) ==
    /\ RowExists(r)
    /\ status' = [status EXCEPT ![r] = "processing"]
    /\ UNCHANGED <<errorMessage, result>>

(* Mutant: the status is updated and the upsert is not. *)
CompleteWithoutResult(r) ==
    /\ RowExists(r)
    /\ status' = [status EXCEPT ![r] = "completed"]
    /\ errorMessage' = [errorMessage EXCEPT ![r] = "null"]
    /\ UNCHANGED result

(* The transaction of save_success.  Without a row the foreign key of      *)
(* inference_results refuses the upsert.                                   *)
UpsertResult(r) ==
    /\ RowExists(r)
    /\ result' = [result EXCEPT ![r] = TRUE]
    /\ status' = [status EXCEPT ![r] = "completed"]
    /\ errorMessage' = [errorMessage EXCEPT ![r] = "null"]

(* The UPDATE both mark_failed and markFailed run.  It matches no row when *)
(* there is none, and says nothing about it.                               *)
UpdateFailed(r, sentence) ==
    IF RowExists(r)
    THEN /\ status' = [status EXCEPT ![r] = "failed"]
         /\ errorMessage' = [errorMessage EXCEPT ![r] = sentence]
         /\ UNCHANGED result
    ELSE UNCHANGED storeVars

(* All that the backend and the workers do to the row of r, with the       *)
(* sentences in told: the statements of both services, in any order.       *)
RowWritten(r, told) ==
    \/ ~RowExists(r) /\ InsertPending(r)
    \/ UpdateProcessing(r)
    \/ UpsertResult(r)
    \/ RowExists(r) /\ \E sentence \in told : UpdateFailed(r, sentence)

(* toJobDto: what a poll of the request sees.  The prediction is attached  *)
(* whenever the join finds one, whatever the status says.                  *)
JobDto(r) == [status |-> status[r], prediction |-> result[r],
              errorMessage |-> errorMessage[r]]
=============================================================================
