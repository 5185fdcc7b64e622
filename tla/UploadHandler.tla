---------------------------- MODULE UploadHandler ----------------------------
(***************************************************************************)
(* The backend process: InferenceController.create running once per upload,*)
(* any number of them interleaved at their awaits, over the one confirm    *)
(* channel QueueService keeps.  A step runs from one await to the next.    *)
(***************************************************************************)
EXTENDS JobStore, ObjectStore, JobQueue

VARIABLES
    phase,        \* phase[r]: the await the handler of upload r stands at
    unconfirmed,  \* published on the channel, no confirm from the broker yet
    awaiting      \* awaiting[r]: what r's waitForConfirms is still waiting for

handlerVars == <<phase, unconfirmed, awaiting>>

(* Awaits, in the order of the code; "hung" is an await that never settles. *)
Active == {"put", "insert", "publish", "drain", "confirm", "unqueued", "hung"}

(* How a handler ends: 202, 503, 500, 400 or 415, or with its process. *)
Ended == {"accepted", "unavailable", "error", "rejected", "gone"}

Phases == {"idle"} \cup Active \cup Ended

HandlerTypeOK ==
    /\ phase \in [Requests -> Phases]
    /\ unconfirmed \subseteq Requests
    /\ awaiting \in [Requests -> SUBSET Requests]

HandlerInit ==
    /\ phase = [r \in Requests |-> "idle"]
    /\ unconfirmed = {}
    /\ awaiting = [r \in Requests |-> {}]

Goto(r, p) == phase' = [phase EXCEPT ![r] = p]
-----------------------------------------------------------------------------
(* POST /api/inference arrives; an unreadable file, or none, ends it here. *)
Upload(r) ==
    /\ phase[r] = "idle"
    /\ Goto(r, IF DetectImageType(r) THEN "put" ELSE "rejected")
    /\ UNCHANGED <<storeVars, storageVars, queueVars, unconfirmed, awaiting>>

(* Mutant: the job is published without its row. *)
PutImageThenPublish(r) ==
    /\ phase[r] = "put"
    /\ PutObject(r)
    /\ Goto(r, "publish")
    /\ UNCHANGED <<storeVars, queueVars, unconfirmed, awaiting>>

(* A bucket that is gone fails the upload: only a start creates it. *)
PutImage(r) ==
    /\ phase[r] = "put"
    /\ IF bucket
       THEN PutObject(r) /\ Goto(r, "insert")
       ELSE UNCHANGED storageVars /\ Goto(r, "error")
    /\ UNCHANGED <<storeVars, queueVars, unconfirmed, awaiting>>

(* The upload to S3 raises, with or without the object having been stored. *)
PutImageFails(r) ==
    /\ phase[r] = "put"
    /\ PutObject(r) \/ UNCHANGED storageVars
    /\ Goto(r, "error")
    /\ UNCHANGED <<storeVars, queueVars, unconfirmed, awaiting>>

CreateRequest(r) ==
    /\ phase[r] = "insert"
    /\ InsertPending(r)
    /\ Goto(r, "publish")
    /\ UNCHANGED <<storageVars, queueVars, unconfirmed, awaiting>>

(* The INSERT raises.  When only its answer was lost the row is there. *)
CreateRequestFails(r) ==
    /\ phase[r] = "insert"
    /\ InsertPending(r) \/ UNCHANGED storeVars
    /\ Goto(r, "error")
    /\ UNCHANGED <<storageVars, queueVars, unconfirmed, awaiting>>
-----------------------------------------------------------------------------
(* sendToQueue took the message and the write buffer has room: publishJob  *)
(* goes straight on to waitForConfirms, which waits for EVERY message of   *)
(* the channel that is unconfirmed at that moment.                         *)
SendToQueue(r) ==
    /\ phase[r] = "publish"
    /\ WriteToSocket(r)
    /\ unconfirmed' = unconfirmed \cup {r}
    /\ awaiting' = [awaiting EXCEPT ![r] = unconfirmed']
    /\ Goto(r, "confirm")
    /\ UNCHANGED <<storeVars, storageVars>>

(* sendToQueue took the message but returned false: publishJob awaits the  *)
(* channel's 'drain' event first.                                          *)
SendToFullBuffer(r) ==
    /\ phase[r] = "publish"
    /\ WriteToSocket(r)
    /\ unconfirmed' = unconfirmed \cup {r}
    /\ Goto(r, "drain")
    /\ UNCHANGED <<storeVars, storageVars, awaiting>>

(* Mutant: the message is sent again once the buffer has drained. *)
DrainThenResend ==
    /\ \E r \in Requests : phase[r] = "drain"
    /\ phase' = [r \in Requests |-> IF phase[r] = "drain" THEN "publish" ELSE phase[r]]
    /\ UNCHANGED <<storeVars, storageVars, queueVars, unconfirmed, awaiting>>

(* The 'drain' event reaches every handler that listens for it. *)
Drain ==
    /\ \E r \in Requests : phase[r] = "drain"
    /\ phase' = [r \in Requests |-> IF phase[r] = "drain" THEN "confirm" ELSE phase[r]]
    /\ awaiting' = [r \in Requests |-> IF phase[r] = "drain" THEN unconfirmed
                                                             ELSE awaiting[r]]
    /\ UNCHANGED <<storeVars, storageVars, queueVars, unconfirmed>>

(* The broker confirms r, which it has taken into the queue. *)
Confirm(r) ==
    /\ r \in unconfirmed
    /\ msg[r] \in Queued
    /\ unconfirmed' = unconfirmed \ {r}
    /\ awaiting' = [q \in Requests |-> awaiting[q] \ {r}]
    /\ UNCHANGED <<storeVars, storageVars, queueVars, phase>>

(* The broker refuses r.  Promise.all rejects in every waitForConfirms     *)
(* that was waiting for it, and in no other.                               *)
Nack(r) ==
    /\ r \in unconfirmed
    /\ msg[r] = "sent"
    /\ msg' = [msg EXCEPT ![r] = "lost"]
    /\ unconfirmed' = unconfirmed \ {r}
    /\ phase' = [q \in Requests |->
                    IF phase[q] = "confirm" /\ r \in awaiting[q] THEN "unqueued" ELSE phase[q]]
    /\ awaiting' = [q \in Requests |-> IF r \in awaiting[q] THEN {} ELSE awaiting[q]]
    /\ UNCHANGED <<storeVars, storageVars, redelivered>>

(* The channel goes: every confirm still waited for is rejected ('channel  *)
(* closed'), and who awaits 'drain' goes on to next.                       *)
ChannelGone(next) ==
    /\ unconfirmed # {} \/ \E r \in Requests : phase[r] = "drain"
    /\ phase' = [r \in Requests |->
                    IF phase[r] = "drain" THEN next
                    ELSE IF phase[r] = "confirm" /\ awaiting[r] # {} THEN "unqueued"
                    ELSE phase[r]]
    /\ unconfirmed' = {}
    /\ awaiting' = [r \in Requests |-> {}]
    /\ UNCHANGED <<storeVars, storageVars, queueVars>>

(* The broker closes the channel of a healthy connection, an 'error' that  *)
(* once(channel, 'drain') rejects with.                                    *)
ChannelDies == ChannelGone("unqueued")

(* Mutant: the confirms still waited for are not rejected. *)
LinkLossUnheard ==
    /\ unconfirmed # {} \/ \E r \in Requests : phase[r] = "drain"
    /\ phase' = [r \in Requests |-> IF phase[r] = "drain" THEN "hung" ELSE phase[r]]
    /\ unconfirmed' = {}
    /\ UNCHANGED <<storeVars, storageVars, queueVars, awaiting>>

(* The channel goes with the connection, and nothing ever emits the 'drain'*)
(* or the 'error' that once(channel, 'drain') listens for.                 *)
LinkLoss == ChannelGone("hung")

(* requireChannel cannot open a channel, or the channel is closed by the   *)
(* time sendToQueue writes to it.                                          *)
NoChannel(r) ==
    /\ phase[r] = "publish"
    /\ Goto(r, "unqueued")
    /\ UNCHANGED <<storeVars, storageVars, queueVars, unconfirmed, awaiting>>

(* Mutant: 202 without waitForConfirms. *)
ReplyUnconfirmed(r) ==
    /\ phase[r] = "confirm"
    /\ Goto(r, "accepted")
    /\ UNCHANGED <<storeVars, storageVars, queueVars, unconfirmed, awaiting>>

Reply202(r) ==
    /\ phase[r] = "confirm"
    /\ awaiting[r] = {}
    /\ Goto(r, "accepted")
    /\ UNCHANGED <<storeVars, storageVars, queueVars, unconfirmed, awaiting>>

(* Mutant: 503 and no more. *)
ReplyUnavailable(r) ==
    /\ phase[r] = "unqueued"
    /\ Goto(r, "unavailable")
    /\ UNCHANGED <<storeVars, storageVars, queueVars, unconfirmed, awaiting>>

(* The catch block of create: fail the row, answer 503. *)
MarkUnqueued(r) ==
    /\ phase[r] = "unqueued"
    /\ UpdateFailed(r, "not queued")
    /\ Goto(r, "unavailable")
    /\ UNCHANGED <<storageVars, queueVars, unconfirmed, awaiting>>

(* markFailed raises inside the catch block: 500, the row updated or not. *)
MarkUnqueuedFails(r) ==
    /\ phase[r] = "unqueued"
    /\ UpdateFailed(r, "not queued") \/ UNCHANGED storeVars
    /\ Goto(r, "error")
    /\ UNCHANGED <<storageVars, queueVars, unconfirmed, awaiting>>
-----------------------------------------------------------------------------
(* The process dies between two awaits, takes every handler with it and is *)
(* started again, which is of no consequence when there is nothing to lose *)
(* and the bucket is there.                                                *)
BackendCrash ==
    /\ ~bucket \/ \E r \in Requests : phase[r] \in Active
    /\ EnsureBucket
    /\ phase' = [r \in Requests |-> IF phase[r] \in Active THEN "gone" ELSE phase[r]]
    /\ unconfirmed' = {}
    /\ awaiting' = [r \in Requests |-> {}]
    /\ UNCHANGED <<storeVars, queueVars>>

(* What was written to the socket reaches the broker, whether or not the   *)
(* publisher is still there to hear of it.                                 *)
Arrive(r) ==
    /\ msg[r] = "sent"
    /\ msg' = [msg EXCEPT ![r] = "ready"]
    /\ UNCHANGED <<storeVars, storageVars, redelivered, handlerVars>>

(* Or it goes down with the connection it was written to. *)
SocketLost(r) ==
    /\ msg[r] = "sent"
    /\ r \notin unconfirmed
    /\ msg' = [msg EXCEPT ![r] = "lost"]
    /\ UNCHANGED <<storeVars, storageVars, redelivered, handlerVars>>
=============================================================================
