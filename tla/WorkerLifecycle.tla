-------------------------- MODULE WorkerLifecycle --------------------------
(***************************************************************************)
(* One worker process: main() waits for its stores, then run() opens a     *)
(* connection, consumes, backs off and tries again, while the signal       *)
(* handler may interrupt it between any two bytecodes.                     *)
(***************************************************************************)
EXTENDS Integers, FiniteSetsExt, Dependencies

CONSTANTS
    ReadyAttempts,   \* attempts of wait_for
    InitialDelay,    \* INITIAL_RECONNECT_DELAY, in seconds
    MaxDelay         \* MAX_RECONNECT_DELAY

ASSUME DelaysAssumption ==
    /\ ReadyAttempts \in Nat \ {0}
    /\ InitialDelay \in Nat \ {0}
    /\ MaxDelay \in Nat
    /\ InitialDelay <= MaxDelay

(* A connection is lost once pika knows it (is_open is false).             *)
VARIABLES
    at,            \* where main() or run() stands
    tries,         \* attempts of the wait_for under way
    connection,    \* self._connection: none, open, or lost
    stopping,      \* self._stopping
    scheduled,     \* _stop_consuming waits on the loop of the connection
    delay          \* what the next failure sleeps

loopVars == <<at, connection, stopping, scheduled, delay>>
workerVars == <<loopVars, tries>>

(* created: not started yet; gave up: wait_for raised. *)
Booting == {"created", "postgres", "s3", "gave up"}

(* testing: at the head of the while loop; opening: in the constructor of  *)
(* BlockingConnection, before anything is assigned; declaring: the rest of *)
(* _open and the start of _consume; consuming: in start_consuming.         *)
Running == {"testing", "opening", "declaring", "consuming", "callback", "sleeping"}

Places == Booting \cup Running \cup {"stopped"}

WorkerTypeOK ==
    /\ at \in Places
    /\ tries \in 1..ReadyAttempts
    /\ connection \in {"none", "open", "lost"}
    /\ stopping \in BOOLEAN
    /\ scheduled \in BOOLEAN
    /\ delay \in InitialDelay..MaxDelay

WorkerInit ==
    /\ at = "created"
    /\ tries = 1
    /\ connection = "none"
    /\ stopping = FALSE
    /\ scheduled = FALSE
    /\ delay = InitialDelay
-----------------------------------------------------------------------------
(* main(): the checkpoint is loaded, then the stores are waited for. *)
EnterMain ==
    /\ at' = "postgres"
    /\ tries' = 1
    /\ stopping' = FALSE
    /\ delay' = InitialDelay
    /\ UNCHANGED <<connection, scheduled>>

FirstStart == at = "created" /\ EnterMain /\ UNCHANGED serverVars

(* wait_for: ready or not, and after the last attempt RuntimeError. *)
WaitFor(ready, next) ==
    /\ at' = IF ready THEN next ELSE IF tries = ReadyAttempts THEN "gave up" ELSE at
    /\ tries' = IF ready \/ tries = ReadyAttempts THEN 1 ELSE tries + 1
    /\ UNCHANGED <<serverVars, connection, stopping, scheduled, delay>>

WaitForPostgres == at = "postgres" /\ WaitFor("postgres" \in up, "s3")

(* storage.ping asks for the bucket, which only the backend creates. *)
WaitForBucket == at = "s3" /\ WaitFor("s3" \in up /\ bucket, "testing")

(* Mutant: only what was stopped on purpose is started again. *)
RestartStopped == at = "stopped" /\ EnterMain /\ UNCHANGED serverVars

(* restart: unless-stopped after a failed start, an operator after a stop. *)
Restart == at \in {"gave up", "stopped"} /\ EnterMain /\ UNCHANGED serverVars
-----------------------------------------------------------------------------
(* _close_quietly: nothing scheduled on the connection outlives it. *)
CloseQuietly ==
    /\ connection' = "none"
    /\ scheduled' = FALSE

(* The except clause of run(), whatever broke the connection: the sleep    *)
(* comes before the close of the finally clause.                           *)
BrokerError ==
    IF stopping
    THEN at' = "stopped" /\ CloseQuietly
    ELSE at' = "sleeping" /\ UNCHANGED <<connection, scheduled>>

(* Mutant: the loop is entered again without a look at the flag. *)
TestNothing ==
    /\ at = "testing"
    /\ at' = "opening"
    /\ UNCHANGED <<serverVars, tries, connection, stopping, scheduled, delay>>

TestStopping ==
    /\ at = "testing"
    /\ at' = IF stopping THEN "stopped" ELSE "opening"
    /\ UNCHANGED <<serverVars, tries, connection, stopping, scheduled, delay>>

Connect ==
    /\ at = "opening"
    /\ "broker" \in up
    /\ at' = "declaring"
    /\ connection' = "open"
    /\ UNCHANGED <<serverVars, tries, stopping, scheduled, delay>>

ConnectFails ==
    /\ at = "opening"
    /\ BrokerError
    /\ UNCHANGED <<serverVars, tries, stopping, delay>>

(* The topology is declared: the backoff starts over. *)
StartConsuming ==
    /\ at = "declaring"
    /\ connection = "open"
    /\ at' = "consuming"
    /\ delay' = InitialDelay
    /\ UNCHANGED <<serverVars, tries, connection, stopping, scheduled>>

(* The broker refuses a declaration (PRECONDITION_FAILED). *)
DeclareFails ==
    /\ at = "declaring"
    /\ BrokerError
    /\ UNCHANGED <<serverVars, tries, stopping, delay>>

(* pika finds the connection gone when it next reads or writes. *)
LossRaises ==
    /\ at \in {"consuming", "callback"}
    /\ connection = "lost"
    /\ BrokerError
    /\ UNCHANGED <<serverVars, tries, stopping, delay>>

(* Mutant: the doubling is not bounded. *)
WakeUnbounded ==
    /\ at = "sleeping"
    /\ at' = "testing"
    /\ delay' = delay * 2
    /\ CloseQuietly
    /\ UNCHANGED <<serverVars, tries, stopping>>

WakeUp ==
    /\ at = "sleeping"
    /\ at' = "testing"
    /\ delay' = Min({delay * 2, MaxDelay})
    /\ CloseQuietly
    /\ UNCHANGED <<serverVars, tries, stopping>>

(* Messages come in while the consumer is registered, one at a time. *)
Deliver ==
    /\ at = "consuming"
    /\ connection = "open"
    /\ at' = "callback"
    /\ UNCHANGED <<serverVars, tries, connection, stopping, scheduled, delay>>

(* _on_message returns to start_consuming, whatever it met. *)
CallbackReturns ==
    /\ at = "callback"
    /\ at' = "consuming"
    /\ UNCHANGED <<serverVars, tries, connection, stopping, scheduled, delay>>

(* _stop_consuming runs on the loop of the connection: start_consuming     *)
(* returns, run() closes the connection and goes round again.              *)
StopConsuming ==
    /\ at = "consuming"
    /\ scheduled
    /\ connection = "open"
    /\ at' = "testing"
    /\ CloseQuietly
    /\ UNCHANGED <<serverVars, tries, stopping, delay>>

ConnectionLost ==
    /\ connection = "open"
    /\ connection' = "lost"
    /\ UNCHANGED <<serverVars, tries, at, stopping, scheduled, delay>>

(* Mutant: the handler closes the connection itself. *)
CloseOnSignal ==
    /\ at \in Running
    /\ stopping' = TRUE
    /\ IF connection = "open"
       THEN at' = "testing" /\ CloseQuietly
       ELSE UNCHANGED <<at, connection, scheduled>>
    /\ UNCHANGED <<serverVars, tries, delay>>

(* _handle_signal, between any two bytecodes of run().  (Before run() has  *)
(* installed it SIGTERM does nothing: the process is PID 1.)               *)
HandleSignal ==
    /\ at \in Running
    /\ stopping' = TRUE
    /\ scheduled' = (scheduled \/ connection = "open")
    /\ UNCHANGED <<serverVars, tries, at, connection, delay>>
-----------------------------------------------------------------------------
Opening == Connect \/ ConnectFails
Declaring == StartConsuming \/ DeclareFails
Consuming == Deliver \/ CallbackReturns \/ LossRaises
Waiting == WaitForPostgres \/ WaitForBucket

WorkerStep ==
    \/ Waiting \/ Restart
    \/ TestStopping \/ WakeUp \/ StopConsuming
    \/ Opening \/ Declaring \/ Consuming
    \/ ConnectionLost \/ HandleSignal
=============================================================================
