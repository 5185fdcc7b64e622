------------------------------ MODULE JobQueue ------------------------------
(***************************************************************************)
(* RabbitMQ as the two services declare and use it: one durable queue of   *)
(* persistent messages, manual acknowledgement, and a dead-letter queue.   *)
(* The broker itself is not part of the repository; what is modelled is    *)
(* what the options passed to it ask for.  FIFO order is left out.         *)
(***************************************************************************)
EXTENDS JobIds

CONSTANTS
    Junk,    \* messages in the queue that parse_job refuses
    None     \* no message

Messages == Requests \cup Junk

ASSUME MessagesAssumption ==
    /\ Requests \cap Junk = {}
    /\ None \notin Messages

VARIABLES
    msg,           \* where each message is
    redelivered    \* the flag the broker would deliver it with

queueVars == <<msg, redelivered>>

(* absent: never published; sent: in the publisher's socket;               *)
(* ready: queued; unacked: delivered, not settled; acked; dead: in the     *)
(* dead-letter queue; lost: never reached the queue, or lost with it.      *)
Places == {"absent", "sent", "ready", "unacked", "acked", "dead", "lost"}

(* What a confirm or a 202 promises: the broker has taken the message. *)
Queued == {"ready", "unacked", "acked", "dead"}

Settled == {"acked", "dead"}

QueueTypeOK ==
    /\ msg \in [Messages -> Places]
    /\ redelivered \in [Messages -> BOOLEAN]

QueueInit ==
    /\ msg = [m \in Messages |-> IF m \in Junk THEN "ready" ELSE "absent"]
    /\ redelivered = [m \in Messages |-> FALSE]

(* sendToQueue: "written to a socket", no more. *)
WriteToSocket(m) ==
    /\ msg' = [msg EXCEPT ![m] = "sent"]
    /\ UNCHANGED redelivered

(* The broker hands a ready message to one consumer. *)
HandOut(m) ==
    /\ msg[m] = "ready"
    /\ msg' = [msg EXCEPT ![m] = "unacked"]
    /\ UNCHANGED redelivered

(* basic_ack, or basic_nack without requeue: x-dead-letter-exchange routes *)
(* the rejected message to the dead-letter queue.                          *)
Settle(m, place) ==
    /\ msg' = [msg EXCEPT ![m] = place]
    /\ UNCHANGED redelivered

(* basic_nack with requeue, and the loss of the connection a message was   *)
(* delivered on: ready again, and flagged.                                 *)
PutBack(m) ==
    /\ msg' = [msg EXCEPT ![m] = "ready"]
    /\ redelivered' = [redelivered EXCEPT ![m] = TRUE]
=============================================================================
