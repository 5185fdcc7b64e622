------------------------- MODULE PipelineInvariant -------------------------
(***************************************************************************)
(* The inductive invariant behind the safety properties, in parts: what    *)
(* each process and the broker know of one another between two steps.      *)
(* Some parts survive only without certain kinds of fault.                 *)
(***************************************************************************)
EXTENDS PipelineProperties

Without(kinds) == kinds \cap Faults = {}

(* A message is written by its handler alone, after everything before it. *)
BeforePublish == {"idle", "put", "insert", "publish", "rejected"}

UnpublishedInv ==
    \A r \in Requests : phase[r] \in BeforePublish => msg[r] = "absent" /\ r \notin unconfirmed

(* Whoever waits no longer for r's own confirm knows that r is queued. *)
ConfirmInv ==
    Without({"nack", "down"}) =>
        \A r \in Requests :
            \/ msg[r] \in Queued
            \/ /\ phase[r] # "accepted"
               /\ phase[r] = "confirm" => r \in awaiting[r]
               /\ phase[r] = "drain" => r \in unconfirmed

RowInv ==
    Without({"reset"}) =>
        \A r \in Requests : phase[r] = "publish" \/ msg[r] # "absent" => RowExists(r)

ObjectInv ==
    Without({"wipe", "down"}) =>
        \A r \in Requests :
            phase[r] \in {"insert", "publish"} \/ msg[r] # "absent" => r \in objects

(* A worker's variables agree with one another... *)
CallbackInv ==
    \A w \in Workers :
        /\ job[w] = None <=> pc[w] = "idle"
        /\ conn[w] = "closed" => pc[w] = "idle"
        /\ pc[w] \in Calls \ {"rejecting"} => job[w] \in Requests
        /\ pc[w] = "failing" => error[w] \in Exceptions
        /\ pc[w] = "requeueing" => ~wasRedelivered[w]

(* ... and, while the connection is open, with what the broker has. *)
HolderInv ==
    \A w \in Workers : conn[w] = "open" /\ job[w] # None =>
        /\ msg[job[w]] = "unacked"
        /\ wasRedelivered[w] = redelivered[job[w]]
        /\ \A v \in Workers : conn[v] = "open" /\ job[v] = job[w] => v = w

(* Whatever became of its connection, a callback runs on a message the     *)
(* broker has delivered.                                                   *)
TakenInv == \A w \in Workers : job[w] # None => msg[job[w]] \in Queued

HeldInv == \A m \in Messages : msg[m] = "unacked" => \E w \in Workers : Holds(w, m)

(* The ack follows the commit. *)
SavedInv ==
    Without({"reset"}) =>
        /\ \A w \in Workers : pc[w] = "acking" => result[job[w]]
        /\ AckedHasPrediction

(* Only a dropped connection can leave a worker with a stale one. *)
FreshInv == Without({"drop"}) => \A w \in Workers : conn[w] # "stale"

(* The terminal status precedes the settlement, where there is a row. *)
Answered(r) == status[r] \in Terminal \cup {"none"}

AnsweredInv ==
    Without({"db", "drop"}) =>
        /\ \A w \in Workers : \A r \in Requests :
              job[w] = r /\ pc[w] \in {"acking", "rejecting"} => Answered(r)
        /\ \A r \in Requests : msg[r] \in Settled => Answered(r)

(* A handler that has not come to its INSERT has no row, and one that has  *)
(* answered 503 has failed it.                                             *)
BeforeInsert == {"idle", "put", "insert", "rejected"}

UnwrittenInv ==
    /\ \A r \in Requests : phase[r] \in BeforeInsert => ~RowExists(r)
    /\ Without({"db"}) =>
          \A r \in Requests :
              /\ phase[r] = "error" => ~RowExists(r)
              /\ phase[r] = "unavailable" => status[r] # "pending"

(* What a worker has written to a row shows that it has the message, and   *)
(* its first call is what ends 'pending'.                                  *)
TouchedInv ==
    /\ Without({"down"}) =>
          \A r \in Requests : status[r] \in {"processing", "completed"} => msg[r] \in Queued
    /\ Without({"db"}) =>
          \A r \in Requests : status[r] = "pending" =>
              /\ msg[r] \notin Settled
              /\ \A w \in Workers : job[w] = r => pc[w] = "marking"

(* With no redelivery and no confirm lost, the last step on a job but its  *)
(* settlement gives it its status...                                       *)
CalmKinds == {"crash", "drop", "nack", "link", "db"}

Settling(w, r) == job[w] = r /\ pc[w] \in {"acking", "rejecting"}

FinalInv ==
    Without(CalmKinds) =>
        \A r \in Requests :
            /\ phase[r] \notin {"unqueued", "unavailable", "hung"}
            /\ status[r] \in Terminal =>
                  \/ msg[r] \in Settled \cup {"lost"}
                  \/ \E w \in Workers : Settling(w, r)

(* ... and the poll the columns that go with it. *)
CoherentInv == Without(CalmKinds) => PollIsCoherent

(* Inductive together with IInv. *)
StatusInv == UnwrittenInv /\ TouchedInv /\ FinalInv /\ CoherentInv

IInv ==
    /\ TypeOK
    /\ UnpublishedInv
    /\ ConfirmInv
    /\ ConfirmsAreDue
    /\ RowInv
    /\ ObjectInv
    /\ CallbackInv
    /\ HolderInv
    /\ TakenInv
    /\ HeldInv
    /\ CompletedHasPrediction
    /\ SavedInv
    /\ FreshInv
    /\ AnsweredInv
=============================================================================
