----------------------------- MODULE JobContract -----------------------------
(***************************************************************************)
(* What the pipeline promises about one upload, with no process, no        *)
(* connection and no retry in sight: the 202 is given only for a job the   *)
(* system holds, a job is finished only once it has a prediction, and one  *)
(* that is finished or buried is never taken up again.                     *)
(***************************************************************************)
CONSTANT Requests

VARIABLES
    place,      \* absent, outstanding, done, or dead
    accepted,   \* the client has its 202
    predicted   \* a prediction is stored

vars == <<place, accepted, predicted>>

Init ==
    /\ place = [r \in Requests |-> "absent"]
    /\ accepted = [r \in Requests |-> FALSE]
    /\ predicted = [r \in Requests |-> FALSE]

Take(r) ==
    /\ place[r] = "absent"
    /\ place' = [place EXCEPT ![r] = "outstanding"]
    /\ UNCHANGED <<accepted, predicted>>

Accept(r) ==
    /\ place[r] # "absent"
    /\ ~accepted[r]
    /\ accepted' = [accepted EXCEPT ![r] = TRUE]
    /\ UNCHANGED <<place, predicted>>

(* At least once: an attempt that was given up on may still predict. *)
Predict(r) ==
    /\ place[r] # "absent"
    /\ predicted' = [predicted EXCEPT ![r] = TRUE]
    /\ UNCHANGED <<place, accepted>>

Complete(r) ==
    /\ place[r] = "outstanding"
    /\ predicted[r]
    /\ place' = [place EXCEPT ![r] = "done"]
    /\ UNCHANGED <<accepted, predicted>>

Bury(r) ==
    /\ place[r] = "outstanding"
    /\ place' = [place EXCEPT ![r] = "dead"]
    /\ UNCHANGED <<accepted, predicted>>

Next == \E r \in Requests :
    Take(r) \/ Accept(r) \/ Predict(r) \/ Complete(r) \/ Bury(r)

Spec == Init /\ [][Next]_vars
=============================================================================
