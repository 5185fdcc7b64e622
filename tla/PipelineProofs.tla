--------------------------- MODULE PipelineProofs ---------------------------
(***************************************************************************)
(* Proofs that the invariant of PipelineInvariant is inductive, and of the *)
(* safety properties that follow from it, for every number of uploads,     *)
(* workers and junk messages and every set of faults.                      *)
(***************************************************************************)
EXTENDS PipelineInvariant, TLAPS

USE DEF Messages, Places, Queued, Settled, Statuses, Terminal

(* TypeOK holds in every initial state. *)
LEMMA InitTypeOK == Init => TypeOK
  BY DEF Init, StoreInit, StorageInit, QueueInit, HandlerInit, WorkerInit, TypeOK,
     StoreTypeOK, StorageTypeOK, QueueTypeOK, HandlerTypeOK, WorkerTypeOK, Phases,
     Sentences, WorkerSentences

(* Every sentence a worker writes is one of WorkerSentences. *)
LEMMA UserMessageType == \A e \in Exceptions : UserMessage[e] \in WorkerSentences
<1> SUFFICES ASSUME NEW e \in Exceptions PROVE UserMessage[e] \in WorkerSentences
  OBVIOUS
<1>1. e \in {"InvalidImage", "ObjectNotFound", "RequestNotFound",
             "StorageError", "DatabaseError", "Unexpected"}
  BY DEF Exceptions, Permanent, Transient
<1>2. /\ UserMessage["InvalidImage"] = "undecodable"
      /\ UserMessage["ObjectNotFound"] = "object gone"
      /\ UserMessage["RequestNotFound"] = "row gone"
      /\ UserMessage["StorageError"] = "store unreachable"
      /\ UserMessage["DatabaseError"] = "database unreachable"
      /\ UserMessage["Unexpected"] = "unexpected"
  BY DEF UserMessage
<1> QED BY <1>1, <1>2 DEF WorkerSentences

(* A failing UPDATE or UPSERT leaves the types of the store alone. *)
LEMMA StoreTypes ==
  ASSUME StoreTypeOK, NEW r \in Requests
  PROVE  /\ InsertPending(r) => StoreTypeOK'
         /\ UpdateProcessing(r) => StoreTypeOK'
         /\ UpsertResult(r) => StoreTypeOK'
         /\ \A s \in Sentences : UpdateFailed(r, s) => StoreTypeOK'
         /\ UNCHANGED storeVars => StoreTypeOK'
  BY DEF StoreTypeOK, InsertPending, UpdateProcessing, UpsertResult, UpdateFailed,
     RowExists, storeVars, storageVars

(* A step of the backend keeps the types. *)
LEMMA BackendTypes ==
  ASSUME TypeOK, BackendNext, UNCHANGED workerVars
  PROVE  TypeOK'
<1> USE DEF TypeOK, StorageTypeOK, QueueTypeOK, HandlerTypeOK, Phases, Active, Ended,
            storeVars, storageVars, queueVars, handlerVars, Goto
<1>0. WorkerTypeOK' BY DEF WorkerTypeOK, workerVars
<1>1. CASE ChannelStep
  <2>1. CASE Drain BY <1>0, <2>1, StoreTypes DEF Drain, StoreTypeOK
  <2>2. ASSUME NEW r \in Requests, Confirm(r) PROVE TypeOK'
    BY <1>0, <2>2, StoreTypes DEF Confirm, StoreTypeOK
  <2>3. ASSUME NEW r \in Requests, Arrive(r) PROVE TypeOK'
    BY <1>0, <2>3, StoreTypes DEF Arrive, StoreTypeOK
  <2> QED BY <1>1, <2>1, <2>2, <2>3 DEF ChannelStep
<1>2. CASE ChannelFault
  <2>1. ASSUME NEW r \in Requests, SocketLost(r) PROVE TypeOK'
    BY <1>0, <2>1 DEF SocketLost, StoreTypeOK
  <2>2. CASE LinkLoss \/ ChannelDies BY <1>0, <2>2 DEF LinkLoss, ChannelDies, ChannelGone,
     StoreTypeOK
  <2>3. ASSUME NEW r \in Requests, Nack(r) PROVE TypeOK'
    BY <1>0, <2>3 DEF Nack, StoreTypeOK
  <2>4. CASE BackendCrash BY <1>0, <2>4 DEF BackendCrash, EnsureBucket, StoreTypeOK
  <2> QED BY <1>2, <2>1, <2>2, <2>3, <2>4 DEF ChannelFault
<1>3. ASSUME NEW r \in Requests, Upload(r) \/ HandlerStep(r) \/ HandlerFault(r)
      PROVE  TypeOK'
  <2>1. "not queued" \in Sentences BY DEF Sentences
  <2>2. CASE Upload(r) BY <1>0, <2>2, StoreTypes DEF Upload, DetectImageType
  <2>3. CASE PutImage(r) \/ PutImageFails(r)
    BY <1>0, <2>3, StoreTypes DEF PutImage, PutImageFails, PutObject
  <2>4. CASE CreateRequest(r) \/ CreateRequestFails(r)
    BY <1>0, <2>4, StoreTypes DEF CreateRequest, CreateRequestFails
  <2>5. CASE SendToQueue(r) \/ SendToFullBuffer(r)
    BY <1>0, <2>5, StoreTypes DEF SendToQueue, SendToFullBuffer, WriteToSocket
  <2>6. CASE Reply202(r) \/ NoChannel(r)
    BY <1>0, <2>6, StoreTypes DEF Reply202, NoChannel
  <2>7. CASE MarkUnqueued(r) \/ MarkUnqueuedFails(r)
    BY <1>0, <2>1, <2>7, StoreTypes DEF MarkUnqueued, MarkUnqueuedFails
  <2> QED BY <1>3, <2>2, <2>3, <2>4, <2>5, <2>6, <2>7 DEF HandlerStep, HandlerFault
<1> QED BY <1>1, <1>2, <1>3 DEF BackendNext

(* The helpers of a worker keep the types of its variables. *)
LEMMA WorkerTypes ==
  ASSUME WorkerTypeOK, NEW w \in Workers
  PROVE  /\ \A c \in Calls : Proceed(w, c) => WorkerTypeOK'
         /\ \A e \in Exceptions : Raise(w, e) => WorkerTypeOK'
         /\ \A c \in {"closed", "open", "stale"} : Finish(w, c) => WorkerTypeOK'
<1> USE DEF WorkerTypeOK
<1>1. ASSUME NEW c \in Calls, Proceed(w, c) PROVE WorkerTypeOK'
  BY <1>1 DEF Proceed
<1>2. ASSUME NEW e \in Exceptions, Raise(w, e) PROVE WorkerTypeOK'
  BY <1>2 DEF Raise, Calls
<1>3. ASSUME NEW c \in {"closed", "open", "stale"}, Finish(w, c) PROVE WorkerTypeOK'
  BY <1>3 DEF Finish
<1> QED BY <1>1, <1>2, <1>3 DEF Proceed, Raise, Finish

(* A message moved by a worker stays in one of its places. *)
LEMMA QueueTypes ==
  ASSUME QueueTypeOK, NEW m
  PROVE  /\ HandOut(m) => QueueTypeOK'
         /\ \A p \in Places : Settle(m, p) => QueueTypeOK'
         /\ PutBack(m) => QueueTypeOK'
         /\ UNCHANGED queueVars => QueueTypeOK'
<1> USE DEF QueueTypeOK
<1>1. HandOut(m) => QueueTypeOK' BY DEF HandOut
<1>2. ASSUME NEW p \in Places, Settle(m, p) PROVE QueueTypeOK' BY <1>2 DEF Settle
<1>3. PutBack(m) => QueueTypeOK' BY DEF PutBack
<1>4. UNCHANGED queueVars => QueueTypeOK' BY DEF queueVars
<1> QED BY <1>1, <1>2, <1>3, <1>4 DEF Settle

(* A step of a worker keeps the types; _fail finds a sentence to write     *)
(* because an exception is always being handled there.                     *)
LEMMA WorkerStepTypes ==
  ASSUME TypeOK, CallbackInv, NEW w \in Workers, WorkerStep(w) \/ Disruption(w),
         UNCHANGED handlerVars
  PROVE  TypeOK'
<1> USE DEF TypeOK
<1>0. HandlerTypeOK' BY DEF HandlerTypeOK, handlerVars
<1>a. /\ "marking" \in Calls /\ "downloading" \in Calls /\ "classifying" \in Calls
      /\ "saving" \in Calls /\ "acking" \in Calls /\ "rejecting" \in Calls
  BY DEF Calls, Trying
<1>b. Permanent \cup Transient \cup {"Unexpected"} \subseteq Exceptions
  BY DEF Exceptions
<1>1. CASE ConsumeStep(w)
  <2>1. CASE Open(w) \/ NoticeLoss(w)
    BY <1>0, <2>1, StoreTypes, QueueTypes DEF Open, NoticeLoss, WorkerTypeOK, StorageTypeOK,
       StoreTypeOK, storeVars, storageVars
  <2>2. ASSUME NEW m \in Messages, Deliver(w, m) PROVE TypeOK'
    BY <1>0, <1>a, <2>2, QueueTypes DEF Deliver, WorkerTypeOK, StorageTypeOK, StoreTypeOK,
       storeVars, storageVars, QueueTypeOK, HandOut
  <2> QED BY <1>1, <2>1, <2>2 DEF ConsumeStep
<1>2. CASE Ack(w)
  BY <1>0, <1>b, <1>2, QueueTypes, WorkerTypes DEF Ack, StorageTypeOK, StoreTypeOK, storeVars, storageVars
<1>3. CASE Requeue(w) \/ Reject(w)
  BY <1>0, <1>3, QueueTypes, WorkerTypes DEF Requeue, Reject, NackUnheard, StorageTypeOK,
     StoreTypeOK, storeVars, storageVars
<1>4. ASSUME NEW r \in Requests, MarkProcessing(w, r) \/ MarkProcessingFails(w, r)
      PROVE  TypeOK'
  BY <1>0, <1>a, <1>b, <1>4, StoreTypes, QueueTypes, WorkerTypes
     DEF MarkProcessing, MarkProcessingFails, StorageTypeOK, storageVars, Permanent, Transient
<1>5. ASSUME NEW r \in Requests, Download(w, r) \/ Classify(w, r) PROVE TypeOK'
  BY <1>0, <1>a, <1>b, <1>5, QueueTypes, WorkerTypes
     DEF Download, Classify, StorageTypeOK, StoreTypeOK, storeVars, storageVars, Permanent
<1>6. ASSUME NEW r \in Requests, SaveSuccess(w, r) \/ SaveSuccessFails(w, r)
      PROVE  TypeOK'
  BY <1>0, <1>a, <1>b, <1>6, StoreTypes, QueueTypes, WorkerTypes
     DEF SaveSuccess, SaveSuccessFails, StorageTypeOK, storageVars, Transient
<1>7. ASSUME NEW r \in Requests, MarkFailed(w, r) \/ MarkFailedFails(w, r)
      PROVE  TypeOK'
  <2>1. UserMessage[error[w]] \in Sentences
    BY <1>7, UserMessageType DEF MarkFailed, MarkFailedFails, CallbackInv, Sentences
  <2>2. StoreTypeOK'
    BY <1>7, <2>1 DEF MarkFailed, MarkFailedFails, UpdateFailed, RowExists, StoreTypeOK, storeVars, storageVars
  <2>3. QueueTypeOK' /\ StorageTypeOK'
    BY <1>7, QueueTypes DEF MarkFailed, MarkFailedFails, StorageTypeOK, storageVars
  <2>4. WorkerTypeOK' BY <1>a, <1>7, WorkerTypes DEF MarkFailed, MarkFailedFails
  <2> QED BY <1>0, <2>2, <2>3, <2>4
<1>8. CASE StorageUnreachable(w) \/ EngineRaises(w)
  BY <1>0, <1>b, <1>8, QueueTypes, WorkerTypes
     DEF StorageUnreachable, EngineRaises, StorageTypeOK, StoreTypeOK, storeVars, storageVars, Transient
<1>9. CASE Disruption(w)
  BY <1>0, <1>9, QueueTypes, WorkerTypes DEF Disruption, DropConnection, Crash, TakeBack,
     StorageTypeOK, StoreTypeOK, storeVars, storageVars, WorkerTypeOK
<1> QED BY <1>1, <1>2, <1>3, <1>4, <1>5, <1>6, <1>7, <1>8, <1>9
        DEF WorkerStep, CallStep, CallFault

(* A disaster keeps the types. *)
LEMMA DisasterTypes == ASSUME TypeOK, Disaster PROVE TypeOK'
<1> USE DEF TypeOK, StorageTypeOK, QueueTypeOK, StoreTypeOK, HandlerTypeOK, WorkerTypeOK
<1>1. CASE WipeObjects
  BY <1>1 DEF WipeObjects, storeVars, storageVars, queueVars, handlerVars, workerVars
<1>2. CASE ResetDatabase
  BY <1>2 DEF ResetDatabase, storageVars, queueVars, handlerVars, workerVars
<1>3. CASE ComposeDown
  BY <1>3 DEF ComposeDown, storeVars, storageVars, Phases, Ended
<1> QED BY <1>1, <1>2, <1>3 DEF Disaster
-----------------------------------------------------------------------------
(* What a step of the backend does to the messages, the rows and the       *)
(* objects: it writes a message once, after its row and its image.         *)
BackendEffect ==
    /\ \A m \in Messages :
          \/ msg'[m] = msg[m]
          \/ m \in Requests /\ phase[m] = "publish" /\ msg[m] = "absent" /\ msg'[m] = "sent"
          \/ m \in Requests /\ msg[m] = "sent" /\ msg'[m] \in {"ready", "lost"}
    /\ redelivered' = redelivered
    /\ objects \subseteq objects'
    /\ result' = result
    /\ \A r \in Requests :
          \/ status'[r] = status[r]
          \/ phase[r] = "insert" /\ status'[r] = "pending"
          \/ RowExists(r) /\ phase[r] = "unqueued" /\ status'[r] = "failed"

LEMMA BackendMoves == ASSUME TypeOK, UnpublishedInv, BackendNext PROVE BackendEffect
<1> USE DEF TypeOK, QueueTypeOK, StoreTypeOK, storeVars, storageVars, queueVars
<1>1. CASE ChannelStep
  BY <1>1 DEF BackendEffect, ChannelStep, Drain, Confirm, Arrive
<1>2. CASE ChannelFault
  <2>1. CASE LinkLoss \/ ChannelDies \/ BackendCrash BY <2>1
    DEF BackendEffect, LinkLoss, ChannelDies, ChannelGone, BackendCrash, EnsureBucket
  <2>2. CASE \E r \in Requests : SocketLost(r) BY <2>2 DEF BackendEffect, SocketLost
  <2>3. CASE \E r \in Requests : Nack(r) BY <2>3 DEF BackendEffect, Nack
  <2> QED BY <1>2, <2>1, <2>2, <2>3 DEF ChannelFault
<1>3. ASSUME NEW r \in Requests, Upload(r) \/ Reply202(r) \/ NoChannel(r)
                                  \/ PutImage(r) \/ PutImageFails(r)
      PROVE  /\ UNCHANGED <<storeVars, queueVars>>
             /\ objects \subseteq objects'
  BY <1>3 DEF Upload, Reply202, NoChannel, PutImage, PutImageFails, PutObject
<1>4. ASSUME NEW r \in Requests, CreateRequest(r) \/ CreateRequestFails(r)
      PROVE  /\ UNCHANGED <<objects, queueVars, result>>
             /\ phase[r] = "insert"
             /\ status' = status \/ status' = [status EXCEPT ![r] = "pending"]
  BY <1>4 DEF CreateRequest, CreateRequestFails, InsertPending
<1>5. ASSUME NEW r \in Requests, SendToQueue(r) \/ SendToFullBuffer(r)
      PROVE  /\ UNCHANGED <<objects, storeVars, redelivered>>
             /\ phase[r] = "publish" /\ msg[r] = "absent"
             /\ msg' = [msg EXCEPT ![r] = "sent"]
  BY <1>5 DEF SendToQueue, SendToFullBuffer, WriteToSocket, UnpublishedInv, BeforePublish
<1>6. ASSUME NEW r \in Requests, MarkUnqueued(r) \/ MarkUnqueuedFails(r)
      PROVE  /\ UNCHANGED <<objects, queueVars, result>>
             /\ phase[r] = "unqueued"
             /\ \/ status' = status
                \/ RowExists(r) /\ status' = [status EXCEPT ![r] = "failed"]
  BY <1>6 DEF MarkUnqueued, MarkUnqueuedFails, UpdateFailed
<1>7. ASSUME NEW r \in Requests, Upload(r) \/ HandlerStep(r) \/ HandlerFault(r)
      PROVE  BackendEffect
  BY <1>3, <1>4, <1>5, <1>6, <1>7 DEF HandlerStep, HandlerFault, BackendEffect
<1> QED BY <1>1, <1>2, <1>7 DEF BackendNext

(* What a step of worker w does to them: it takes a ready message, or      *)
(* returns or settles the one it holds, and never makes or drops a row.    *)
WorkerEffect(w) ==
    /\ \A m \in Messages :
          \/ msg'[m] = msg[m]
          \/ msg[m] = "ready" /\ msg'[m] = "unacked" /\ Holds(w, m)'
          \/ Holds(w, m) /\ msg[m] = "unacked" /\ msg'[m] \in {"ready", "acked", "dead"}
    /\ objects' = objects
    /\ \A r \in Requests : RowExists(r)' <=> RowExists(r)
    /\ \A r \in Requests : result[r] => result'[r]

LEMMA WorkerMoves ==
  ASSUME TypeOK, CallbackInv, HolderInv, NEW w \in Workers, WorkerStep(w) \/ Disruption(w)
  PROVE  WorkerEffect(w)
<1> USE DEF TypeOK, QueueTypeOK, WorkerTypeOK, StoreTypeOK, storeVars, storageVars, queueVars, Holds,
           WorkerEffect
<1>1. CASE ConsumeStep(w)
  BY <1>1 DEF ConsumeStep, Open, NoticeLoss, Deliver, HandOut, RowExists
<1>2. CASE Ack(w) \/ Requeue(w) \/ Reject(w)
  <2>1. job[w] # None BY <1>2 DEF Ack, Requeue, Reject, CallbackInv
  <2> QED BY <1>2, <2>1 DEF Ack, Requeue, Reject, NackUnheard, Settle, PutBack, RowExists,
          HolderInv
<1>3. ASSUME NEW r \in Requests,
             \/ MarkProcessing(w, r) \/ MarkProcessingFails(w, r)
             \/ SaveSuccess(w, r) \/ SaveSuccessFails(w, r)
             \/ MarkFailed(w, r) \/ MarkFailedFails(w, r)
      PROVE  /\ UNCHANGED <<objects, queueVars>>
             /\ \A q \in Requests : RowExists(q)' <=> RowExists(q)
             /\ \A q \in Requests : result[q] => result'[q]
  BY <1>3 DEF MarkProcessing, MarkProcessingFails, SaveSuccess, SaveSuccessFails, MarkFailed,
     MarkFailedFails, UpdateProcessing, UpsertResult, UpdateFailed, RowExists
<1>4. ASSUME NEW r \in Requests, Download(w, r) \/ Classify(w, r)
      PROVE  UNCHANGED <<objects, queueVars, storeVars>>
  BY <1>4 DEF Download, Classify
<1>5. CASE StorageUnreachable(w) \/ EngineRaises(w)
  BY <1>5 DEF StorageUnreachable, EngineRaises, RowExists
<1>6. CASE Disruption(w)
  BY <1>6 DEF Disruption, DropConnection, Crash, TakeBack, PutBack, RowExists, HolderInv
<1> QED BY <1>1, <1>2, <1>3, <1>4, <1>5, <1>6 DEF WorkerStep, CallStep, CallFault, RowExists
-----------------------------------------------------------------------------
(* Only a worker's step moves a worker, and only the backend's a handler.  *)
(* UnpublishedInv: a handler reaches "publish" with nothing sent, and      *)
(* leaves it for good as it sends.                                         *)
LEMMA UnpublishedStep == ASSUME IInv, [Next]_vars PROVE UnpublishedInv'
<1> USE DEF IInv, TypeOK, QueueTypeOK, HandlerTypeOK, UnpublishedInv, BeforePublish
<1>1. CASE BackendNext /\ UNCHANGED workerVars
  <2>1. CASE ChannelStep
    BY <2>1 DEF ChannelStep, Drain, Confirm, Arrive, queueVars, handlerVars
  <2>2. CASE ChannelFault
    BY <2>2 DEF ChannelFault, SocketLost, LinkLoss, ChannelDies, ChannelGone,
       Nack, BackendCrash, Active, queueVars,
       handlerVars
  <2>3. ASSUME NEW r \in Requests, Upload(r) \/ HandlerStep(r) \/ HandlerFault(r)
        PROVE  UnpublishedInv'
    BY <2>3 DEF Upload, HandlerStep, HandlerFault, PutImage, PutImageFails, CreateRequest,
       CreateRequestFails, SendToQueue, SendToFullBuffer, WriteToSocket, Reply202,
       NoChannel, MarkUnqueued, MarkUnqueuedFails, Goto, queueVars
  <2> QED BY <1>1, <2>1, <2>2, <2>3 DEF BackendNext
<1>2. ASSUME NEW w \in Workers, WorkerStep(w) \/ Disruption(w), UNCHANGED handlerVars
      PROVE  UnpublishedInv'
  BY <1>2, WorkerMoves DEF handlerVars, WorkerEffect
<1>3. CASE Disaster
  BY <1>3 DEF Disaster, WipeObjects, ResetDatabase, ComposeDown, Active, queueVars,
     handlerVars
<1>4. CASE UNCHANGED vars BY <1>4 DEF vars, queueVars, handlerVars
<1> QED BY <1>1, <1>2, <1>3, <1>4 DEF Next

(* ConfirmInv: Confirm is the only step that stops r from waiting for its  *)
(* own confirm, and r is queued by then.                                   *)
LEMMA ConfirmStep == ASSUME IInv, [Next]_vars PROVE ConfirmInv'
<1> SUFFICES ASSUME Without({"nack", "down"})
             PROVE  \A r \in Requests :
                        \/ msg'[r] \in Queued
                        \/ /\ phase'[r] # "accepted"
                           /\ phase'[r] = "confirm" => r \in awaiting'[r]
                           /\ phase'[r] = "drain" => r \in unconfirmed'
  BY DEF ConfirmInv, Without
<1>a. "nack" \notin Faults /\ "down" \notin Faults BY DEF Without
<1>b. \A r \in Requests :
        \/ msg[r] \in Queued
        \/ /\ phase[r] # "accepted"
           /\ phase[r] = "confirm" => r \in awaiting[r]
           /\ phase[r] = "drain" => r \in unconfirmed
  BY DEF IInv, ConfirmInv
<1> USE <1>b DEF TypeOK, QueueTypeOK, HandlerTypeOK
<1>t. TypeOK BY DEF IInv
<1>1. CASE BackendNext /\ UNCHANGED workerVars
  <2>1. CASE Drain BY <1>t, <2>1 DEF Drain, queueVars
  <2>2. ASSUME NEW q \in Requests, Confirm(q) \/ Arrive(q) \/ SocketLost(q),
               NEW r \in Requests
        PROVE  \/ msg'[r] \in Queued
               \/ /\ phase'[r] # "accepted"
                  /\ phase'[r] = "confirm" => r \in awaiting'[r]
                  /\ phase'[r] = "drain" => r \in unconfirmed'
    BY <1>t, <2>2 DEF Confirm, Arrive, SocketLost, queueVars, handlerVars
  <2>3. CASE LinkLoss \/ ChannelDies \/ BackendCrash
    BY <1>t, <2>3 DEF LinkLoss, ChannelDies, ChannelGone, BackendCrash, Active, queueVars
  <2>4. ASSUME NEW q \in Requests, SendToQueue(q) \/ SendToFullBuffer(q)
        PROVE  /\ q \in unconfirmed' /\ unconfirmed \subseteq unconfirmed'
               /\ \/ phase'[q] = "drain"
                  \/ phase'[q] = "confirm" /\ q \in awaiting'[q]
               /\ \A r \in Requests \ {q} : phase'[r] = phase[r] /\ awaiting'[r] = awaiting[r]
                                         /\ msg'[r] = msg[r]
    BY <1>t, <2>4 DEF SendToQueue, SendToFullBuffer, WriteToSocket, Goto
  <2>5. ASSUME NEW q \in Requests,
               \/ Upload(q) \/ PutImage(q) \/ CreateRequest(q) \/ Reply202(q)
               \/ MarkUnqueued(q) \/ HandlerFault(q)
        PROVE  /\ UNCHANGED <<queueVars, unconfirmed, awaiting>>
               /\ \A r \in Requests \ {q} : phase'[r] = phase[r]
               /\ phase'[q] \notin {"confirm", "drain"}
               /\ phase'[q] = "accepted" => phase[q] = "confirm" /\ awaiting[q] = {}
    BY <1>t, <2>5 DEF Upload, HandlerFault, PutImage, PutImageFails,
       CreateRequest, CreateRequestFails, Reply202, NoChannel, MarkUnqueued,
       MarkUnqueuedFails, Goto
  <2>6. ASSUME NEW q \in Requests, Upload(q) \/ HandlerStep(q) \/ HandlerFault(q),
               NEW r \in Requests
        PROVE  \/ msg'[r] \in Queued
               \/ /\ phase'[r] # "accepted"
                  /\ phase'[r] = "confirm" => r \in awaiting'[r]
                  /\ phase'[r] = "drain" => r \in unconfirmed'
    <3>1. CASE SendToQueue(q) \/ SendToFullBuffer(q)
      <4>1. CASE r = q BY <2>4, <3>1, <4>1
      <4>2. CASE r # q BY <2>4, <3>1, <4>2
      <4> QED BY <4>1, <4>2
    <3>2. CASE ~(SendToQueue(q) \/ SendToFullBuffer(q))
      <4>1. msg' = msg /\ UNCHANGED <<unconfirmed, awaiting>>
        BY <2>5, <2>6, <3>2 DEF HandlerStep, queueVars
      <4>2. CASE r = q BY <2>5, <2>6, <3>2, <4>1, <4>2 DEF HandlerStep
      <4>3. CASE r # q BY <2>5, <2>6, <3>2, <4>1, <4>3 DEF HandlerStep
      <4> QED BY <4>2, <4>3
    <3> QED BY <3>1, <3>2
  <2> QED BY <1>1, <1>a, <2>1, <2>2, <2>3, <2>6 DEF BackendNext, ChannelStep, ChannelFault
<1>2. ASSUME NEW w \in Workers, WorkerStep(w) \/ Disruption(w), UNCHANGED handlerVars,
             NEW r \in Requests
      PROVE  \/ msg'[r] \in Queued
             \/ /\ phase'[r] # "accepted"
                /\ phase'[r] = "confirm" => r \in awaiting'[r]
                /\ phase'[r] = "drain" => r \in unconfirmed'
  BY <1>2, WorkerMoves DEF IInv, handlerVars, WorkerEffect
<1>3. CASE Disaster
  BY <1>3, <1>a DEF Disaster, WipeObjects, ResetDatabase, queueVars, handlerVars
<1>4. CASE UNCHANGED vars BY <1>4 DEF vars, queueVars, handlerVars
<1> QED BY <1>1, <1>2, <1>3, <1>4 DEF Next

(* ConfirmsAreDue: the channel forgets a message and its waiters together, *)
(* by the broker's answer or with the connection.                          *)
LEMMA DueStep == ASSUME IInv, [Next]_vars PROVE ConfirmsAreDue'
<1> USE DEF IInv, TypeOK, QueueTypeOK, HandlerTypeOK, ConfirmsAreDue
<1>1. CASE BackendNext /\ UNCHANGED workerVars
  <2>1. CASE ChannelStep
    BY <2>1 DEF ChannelStep, Drain, Confirm, Arrive, queueVars, handlerVars
  <2>2. CASE ChannelFault
    BY <2>2 DEF ChannelFault, SocketLost, LinkLoss, ChannelDies, ChannelGone,
       Nack, BackendCrash, queueVars, handlerVars
  <2>3. ASSUME NEW q \in Requests, SendToQueue(q) \/ SendToFullBuffer(q)
        PROVE  ConfirmsAreDue'
    BY <2>3 DEF SendToQueue, SendToFullBuffer, WriteToSocket
  <2>4. ASSUME NEW q \in Requests,
               \/ Upload(q) \/ PutImage(q) \/ CreateRequest(q) \/ Reply202(q)
               \/ MarkUnqueued(q) \/ HandlerFault(q)
        PROVE  ConfirmsAreDue'
    BY <2>4 DEF Upload, HandlerFault, PutImage, PutImageFails, CreateRequest,
       CreateRequestFails, Reply202, NoChannel, MarkUnqueued, MarkUnqueuedFails, queueVars
  <2> QED BY <1>1, <2>1, <2>2, <2>3, <2>4 DEF BackendNext, HandlerStep
<1>2. ASSUME NEW w \in Workers, WorkerStep(w) \/ Disruption(w), UNCHANGED handlerVars
      PROVE  ConfirmsAreDue'
  BY <1>2, WorkerMoves DEF handlerVars, WorkerEffect
<1>3. CASE Disaster
  BY <1>3 DEF Disaster, WipeObjects, ResetDatabase, ComposeDown, queueVars, handlerVars
<1>4. CASE UNCHANGED vars BY <1>4 DEF vars, queueVars, handlerVars
<1> QED BY <1>1, <1>2, <1>3, <1>4 DEF Next
-----------------------------------------------------------------------------
(* RowInv: create inserts the row before it publishes, and only a reset    *)
(* removes one.                                                            *)
LEMMA RowStep == ASSUME IInv, [Next]_vars PROVE RowInv'
<1> SUFFICES ASSUME Without({"reset"}), NEW r \in Requests,
                    phase'[r] = "publish" \/ msg'[r] # "absent"
             PROVE  status'[r] # "none"
  BY DEF RowInv, Without, RowExists
<1> USE DEF IInv, TypeOK, QueueTypeOK, HandlerTypeOK, StoreTypeOK, RowExists
<1>a. phase[r] = "publish" \/ msg[r] # "absent" => status[r] # "none" BY DEF RowInv
<1>1. CASE BackendNext /\ UNCHANGED workerVars
  <2>1. BackendEffect BY <1>1, BackendMoves
  <2>2. status'[r] = "none" => status[r] = "none" BY <2>1 DEF BackendEffect
  <2>3. CASE msg[r] # "absent" BY <1>a, <2>2, <2>3
  <2>4. CASE msg[r] = "absent"
    <3>1. CASE phase[r] = "publish" BY <1>a, <2>2, <3>1
    <3>2. CASE phase[r] # "publish"
      <4>1. phase'[r] = "publish" BY <2>1, <2>4, <3>2 DEF BackendEffect
      <4>2. CASE ChannelStep
        BY <3>2, <4>1, <4>2 DEF ChannelStep, Drain, Confirm, Arrive, handlerVars
      <4>3. CASE ChannelFault
        BY <3>2, <4>1, <4>3 DEF ChannelFault, SocketLost, LinkLoss, ChannelDies, ChannelGone,
           Nack, BackendCrash,
           handlerVars
      <4>4. ASSUME NEW q \in Requests, Upload(q) \/ HandlerStep(q) \/ HandlerFault(q)
            PROVE  status'[r] # "none"
        BY <3>2, <4>1, <4>4 DEF Upload, HandlerStep, HandlerFault, PutImage, PutImageFails,
           CreateRequest, CreateRequestFails, InsertPending, SendToQueue, SendToFullBuffer,
           Reply202, NoChannel, MarkUnqueued, MarkUnqueuedFails, Goto
      <4> QED BY <1>1, <4>2, <4>3, <4>4 DEF BackendNext
    <3> QED BY <3>1, <3>2
  <2> QED BY <2>3, <2>4
<1>2. ASSUME NEW w \in Workers, WorkerStep(w) \/ Disruption(w), UNCHANGED handlerVars
      PROVE  status'[r] # "none"
  <2>1. WorkerEffect(w) BY <1>2, WorkerMoves
  <2> QED BY <1>a, <1>2, <2>1 DEF WorkerEffect, handlerVars
<1>3. CASE Disaster
  BY <1>3, <1>a DEF Disaster, WipeObjects, ResetDatabase, ComposeDown, Without, Active,
     storeVars, storageVars, queueVars, handlerVars
<1>4. CASE UNCHANGED vars BY <1>4, <1>a DEF vars, storeVars, storageVars, queueVars, handlerVars
<1> QED BY <1>1, <1>2, <1>3, <1>4 DEF Next

(* ObjectInv: create stores the image before the row, and only LocalStack  *)
(* loses it.                                                               *)
LEMMA ObjectStep == ASSUME IInv, [Next]_vars PROVE ObjectInv'
<1> SUFFICES ASSUME Without({"wipe", "down"}), NEW r \in Requests,
                    phase'[r] \in {"insert", "publish"} \/ msg'[r] # "absent"
             PROVE  r \in objects'
  BY DEF ObjectInv, Without
<1> USE DEF IInv, TypeOK, QueueTypeOK, HandlerTypeOK, StorageTypeOK
<1>a. phase[r] \in {"insert", "publish"} \/ msg[r] # "absent" => r \in objects
  BY DEF ObjectInv
<1>1. CASE BackendNext /\ UNCHANGED workerVars
  <2>1. BackendEffect BY <1>1, BackendMoves
  <2>2. r \in objects => r \in objects' BY <2>1 DEF BackendEffect
  <2>3. CASE r \in objects BY <2>2, <2>3
  <2>4. CASE r \notin objects
    <3>0. phase[r] \notin {"insert", "publish"} /\ msg[r] = "absent" BY <1>a, <2>4
    <3>1. phase'[r] \in {"insert", "publish"} BY <2>1, <3>0 DEF BackendEffect
    <3>2. CASE ChannelStep
      BY <3>0, <3>1, <3>2 DEF ChannelStep, Drain, Confirm, Arrive, handlerVars
    <3>3. CASE ChannelFault
      BY <3>0, <3>1, <3>3 DEF ChannelFault, SocketLost, LinkLoss, ChannelDies, ChannelGone,
         Nack, BackendCrash,
         handlerVars
    <3>4. ASSUME NEW q \in Requests, Upload(q) \/ HandlerStep(q) \/ HandlerFault(q)
          PROVE  r \in objects'
      BY <3>0, <3>1, <3>4 DEF Upload, HandlerStep, HandlerFault, PutImage, PutImageFails,
         PutObject, CreateRequest, CreateRequestFails, SendToQueue, SendToFullBuffer,
         Reply202, NoChannel, MarkUnqueued, MarkUnqueuedFails, Goto
    <3> QED BY <1>1, <3>2, <3>3, <3>4 DEF BackendNext
  <2> QED BY <2>3, <2>4
<1>2. ASSUME NEW w \in Workers, WorkerStep(w) \/ Disruption(w), UNCHANGED handlerVars
      PROVE  r \in objects'
  <2>1. WorkerEffect(w) BY <1>2, WorkerMoves
  <2> QED BY <1>a, <1>2, <2>1 DEF WorkerEffect, handlerVars
<1>3. CASE Disaster
  BY <1>3, <1>a DEF Disaster, ResetDatabase, Without, storageVars, queueVars, handlerVars
<1>4. CASE UNCHANGED vars BY <1>4, <1>a DEF vars, storageVars, queueVars, handlerVars
<1> QED BY <1>1, <1>2, <1>3, <1>4 DEF Next

(* CallbackInv: one worker's step at a time, each by its own helper.       *)
LEMMA CallbackStep == ASSUME IInv, [Next]_vars PROVE CallbackInv'
<1> USE DEF IInv, TypeOK, WorkerTypeOK
<1>1. CASE UNCHANGED workerVars BY <1>1 DEF CallbackInv, workerVars
<1>2. ASSUME NEW w \in Workers, WorkerStep(w) \/ Disruption(w) PROVE CallbackInv'
  <2> USE DEF CallbackInv
  <2>0. /\ Calls = Trying \cup {"requeueing", "failing", "rejecting"}
        /\ Trying = {"marking", "downloading", "classifying", "saving", "acking"}
        /\ Exceptions = Permanent \cup Transient \cup {"Unexpected"}
    BY DEF Calls, Trying, Exceptions
  <2>1. CASE ConsumeStep(w)
    BY <2>0, <2>1, MessagesAssumption DEF ConsumeStep, Open, NoticeLoss, Deliver
  <2>2. CASE Ack(w) BY <2>0, <2>2 DEF Ack, Finish, Raise
  <2>3. CASE Requeue(w) \/ Reject(w)
    BY <2>0, <2>3 DEF Requeue, Reject, NackUnheard, Finish
  <2>4. ASSUME NEW r \in Requests, MarkProcessing(w, r) \/ MarkProcessingFails(w, r)
        PROVE  CallbackInv'
    BY <2>0, <2>4, MessagesAssumption
       DEF MarkProcessing, MarkProcessingFails, Proceed, Raise, WorksOn, Permanent, Transient
  <2>5. ASSUME NEW r \in Requests, Download(w, r) \/ Classify(w, r) PROVE CallbackInv'
    BY <2>0, <2>5, MessagesAssumption
       DEF Download, Classify, Proceed, Raise, WorksOn, Permanent, Transient
  <2>6. ASSUME NEW r \in Requests, SaveSuccess(w, r) \/ SaveSuccessFails(w, r)
        PROVE  CallbackInv'
    BY <2>0, <2>6, MessagesAssumption
       DEF SaveSuccess, SaveSuccessFails, Proceed, Raise, WorksOn, Transient
  <2>7. ASSUME NEW r \in Requests, MarkFailed(w, r) \/ MarkFailedFails(w, r)
        PROVE  CallbackInv'
    BY <2>0, <2>7, MessagesAssumption DEF MarkFailed, MarkFailedFails, Proceed, WorksOn
  <2>8. CASE StorageUnreachable(w) \/ EngineRaises(w)
    BY <2>0, <2>8 DEF StorageUnreachable, EngineRaises, Raise, Transient
  <2>9. CASE Disruption(w) BY <2>0, <2>9 DEF Disruption, DropConnection, Crash, Finish
  <2> QED BY <1>2, <2>1, <2>2, <2>3, <2>4, <2>5, <2>6, <2>7, <2>8, <2>9
          DEF WorkerStep, CallStep, CallFault
<1>3. CASE ComposeDown
  BY <1>3 DEF ComposeDown, CallbackInv, Calls, Trying
<1> QED BY <1>1, <1>2, <1>3
        DEF Next, Disaster, WipeObjects, ResetDatabase, vars
-----------------------------------------------------------------------------
(* A step of w is a step of no other worker. *)
LEMMA OthersRest ==
  ASSUME TypeOK, NEW w \in Workers, WorkerStep(w) \/ Disruption(w), NEW v \in Workers, v # w
  PROVE  /\ conn'[v] = conn[v] /\ job'[v] = job[v] /\ pc'[v] = pc[v]
         /\ wasRedelivered'[v] = wasRedelivered[v]
<1> USE DEF TypeOK, WorkerTypeOK, Proceed, Raise, Finish
<1>1. CASE ConsumeStep(w) BY <1>1 DEF ConsumeStep, Open, NoticeLoss, Deliver
<1>2. CASE CallStep(w)
  BY <1>2 DEF CallStep, Ack, Requeue, Reject, NackUnheard, MarkProcessing, Download, Classify,
     SaveSuccess, MarkFailed
<1>3. CASE CallFault(w)
  BY <1>3 DEF CallFault, MarkProcessingFails, SaveSuccessFails, MarkFailedFails,
     StorageUnreachable, EngineRaises
<1>4. CASE Disruption(w) BY <1>4 DEF Disruption, DropConnection, Crash
<1> QED BY <1>1, <1>2, <1>3, <1>4 DEF WorkerStep

(* The calls to Postgres, S3 and the engine leave the connection, the job  *)
(* and the broker alone.                                                   *)
LEMMA CallsLeaveQueue ==
  ASSUME TypeOK, NEW w \in Workers, WorkerStep(w),
         ~ConsumeStep(w), ~Ack(w), ~Requeue(w), ~Reject(w)
  PROVE  UNCHANGED <<msg, redelivered, conn, job, wasRedelivered>>
<1> USE DEF Proceed, Raise, queueVars
<1>1. CASE CallStep(w)
  BY <1>1 DEF CallStep, MarkProcessing, Download, Classify, SaveSuccess, MarkFailed
<1>2. CASE CallFault(w)
  BY <1>2 DEF CallFault, MarkProcessingFails, SaveSuccessFails, MarkFailedFails,
     StorageUnreachable, EngineRaises
<1> QED BY <1>1, <1>2 DEF WorkerStep

(* What becomes of the delivery w holds on an open connection: it stays    *)
(* held, or the broker has it settled or back.                             *)
LEMMA OwnDelivery ==
  ASSUME TypeOK, CallbackInv, HolderInv, NEW w \in Workers, WorkerStep(w) \/ Disruption(w)
  PROVE  \/ UNCHANGED <<msg, redelivered, conn, job, wasRedelivered>>
         \/ /\ UNCHANGED queueVars
            /\ conn'[w] # "open" \/ job'[w] = None
            /\ conn[w] # "open" \/ job[w] = None
         \/ \E m \in Messages :
               /\ conn[w] = "open" /\ job[w] = None /\ msg[m] = "ready"
               /\ conn'[w] = "open" /\ job'[w] = m
               /\ msg' = [msg EXCEPT ![m] = "unacked"]
               /\ redelivered' = redelivered
               /\ wasRedelivered'[w] = redelivered[m]
         \/ \E m \in Messages :
               /\ Holds(w, m) /\ msg[m] = "unacked"
               /\ conn'[w] # "open" \/ job'[w] = None
               /\ \E p \in {"ready", "acked", "dead"} : msg' = [msg EXCEPT ![m] = p]
               /\ \A n \in Messages \ {m} : redelivered'[n] = redelivered[n]
<1> USE DEF TypeOK, QueueTypeOK, WorkerTypeOK, Holds
<1>1. CASE Open(w) \/ NoticeLoss(w)
  BY <1>1 DEF Open, NoticeLoss, CallbackInv
<1>2. ASSUME NEW m \in Messages, Deliver(w, m)
      PROVE  /\ conn[w] = "open" /\ job[w] = None /\ msg[m] = "ready"
             /\ conn'[w] = "open" /\ job'[w] = m
             /\ msg' = [msg EXCEPT ![m] = "unacked"]
             /\ redelivered' = redelivered
             /\ wasRedelivered'[w] = redelivered[m]
  BY <1>2 DEF Deliver, HandOut, CallbackInv
<1>3. CASE Ack(w) \/ Requeue(w) \/ Reject(w)
  <2>1. job[w] # None /\ job[w] \in Messages
    BY <1>3 DEF Ack, Requeue, Reject, CallbackInv
  <2>2. CASE conn[w] = "open"
    BY <1>3, <2>1, <2>2 DEF Ack, Requeue, Reject, NackUnheard, Settle, PutBack, Finish, HolderInv
  <2>3. CASE conn[w] # "open"
    BY <1>3, <2>1, <2>3 DEF Ack, Requeue, Reject, NackUnheard, Finish, Raise, queueVars
  <2> QED BY <2>2, <2>3
<1>4. CASE Disruption(w)
  <2>1. CASE Holds(w, job[w]) /\ job[w] # None
    <3>1. PutBack(job[w]) BY <1>4, <2>1 DEF Disruption, DropConnection, Crash, TakeBack
    <3>2. conn'[w] # "open" \/ job'[w] = None
      BY <1>4 DEF Disruption, DropConnection, Crash, Finish
    <3>3. job[w] \in Messages /\ msg[job[w]] = "unacked" BY <2>1 DEF HolderInv
    <3>4. /\ msg' = [msg EXCEPT ![job[w]] = "ready"]
          /\ \A n \in Messages \ {job[w]} : redelivered'[n] = redelivered[n]
      BY <3>1 DEF PutBack
    <3> QED BY <2>1, <3>2, <3>3, <3>4
  <2>2. CASE conn[w] # "open" \/ job[w] = None
    BY <1>4, <2>2 DEF Disruption, DropConnection, Crash, TakeBack, Finish, queueVars
  <2> QED BY <2>1, <2>2
<1>5. CASE ConsumeStep(w) BY <1>1, <1>2, <1>5 DEF ConsumeStep
<1> QED BY <1>3, <1>4, <1>5, CallsLeaveQueue

(* HolderInv: a delivery makes its receiver the only holder. *)
LEMMA HolderStep == ASSUME IInv, [Next]_vars PROVE HolderInv'
<1> USE DEF IInv, TypeOK, QueueTypeOK, WorkerTypeOK
<1>1. CASE BackendNext /\ UNCHANGED workerVars
  <2>1. BackendEffect BY <1>1, BackendMoves
  <2> QED BY <1>1, <2>1 DEF BackendEffect, HolderInv, workerVars
<1>2. ASSUME NEW w \in Workers, WorkerStep(w) \/ Disruption(w) PROVE HolderInv'
  <2>1. \A v \in Workers \ {w} :
          /\ conn'[v] = conn[v] /\ job'[v] = job[v] /\ wasRedelivered'[v] = wasRedelivered[v]
    BY <1>2, OthersRest
  <2> QED BY <1>2, <2>1, OwnDelivery, MessagesAssumption DEF HolderInv, Holds, queueVars
<1>3. CASE Disaster
  BY <1>3 DEF Disaster, WipeObjects, ResetDatabase, ComposeDown, HolderInv, queueVars,
     workerVars
<1>4. CASE UNCHANGED vars BY <1>4 DEF vars, queueVars, workerVars, HolderInv
<1> QED BY <1>1, <1>2, <1>3, <1>4 DEF Next

(* TakenInv: what the broker has accepted it never gives up again, short   *)
(* of losing the queue - and every worker with it.                         *)
LEMMA TakenStep == ASSUME IInv, [Next]_vars PROVE TakenInv'
<1> USE DEF IInv, TypeOK, QueueTypeOK, WorkerTypeOK, TakenInv
<1>1. CASE BackendNext /\ UNCHANGED workerVars
  BY <1>1, BackendMoves DEF BackendEffect, workerVars
<1>2. ASSUME NEW w \in Workers, WorkerStep(w) \/ Disruption(w), NEW v \in Workers,
             job'[v] # None
      PROVE  msg'[job'[v]] \in Queued
  <2>1. \A m \in Messages : msg[m] \in Queued => msg'[m] \in Queued
    BY <1>2, WorkerMoves DEF WorkerEffect
  <2>2. CASE v # w BY <1>2, <2>1, <2>2, OthersRest
  <2>3. CASE v = w
    <3>1. CASE job'[w] = job[w] BY <1>2, <2>1, <2>3, <3>1
    <3>2. CASE \E m \in Messages : job'[w] = m /\ msg' = [msg EXCEPT ![m] = "unacked"]
      BY <2>3, <3>2
    <3>3. job'[w] = job[w] \/ job'[w] = None \/ \E m \in Messages : Deliver(w, m)
      <4>1. CASE ConsumeStep(w) BY <4>1 DEF ConsumeStep, Open, NoticeLoss
      <4>2. CASE Ack(w) \/ Requeue(w) \/ Reject(w)
        BY <4>2 DEF Ack, Requeue, Reject, NackUnheard, Finish, Raise
      <4>3. CASE Disruption(w) BY <4>3 DEF Disruption, DropConnection, Crash, Finish
      <4> QED BY <1>2, <4>1, <4>2, <4>3, CallsLeaveQueue
    <3> QED BY <1>2, <2>3, <3>1, <3>2, <3>3 DEF Deliver, HandOut
  <2> QED BY <2>2, <2>3
<1>3. CASE Disaster
  BY <1>3 DEF Disaster, WipeObjects, ResetDatabase, ComposeDown, queueVars, workerVars
<1>4. CASE UNCHANGED vars BY <1>4 DEF vars, queueVars, workerVars
<1> QED BY <1>1, <1>2, <1>3, <1>4 DEF Next

(* HeldInv: who lets go of a delivery has settled it or had it taken back. *)
LEMMA HeldStep == ASSUME IInv, [Next]_vars PROVE HeldInv'
<1> SUFFICES ASSUME NEW m \in Messages, msg'[m] = "unacked"
             PROVE  \E w \in Workers : conn'[w] = "open" /\ job'[w] = m
  BY DEF HeldInv, Holds
<1> USE DEF IInv, TypeOK, QueueTypeOK, WorkerTypeOK
<1>1. CASE BackendNext /\ UNCHANGED workerVars
  <2>1. msg[m] = "unacked" BY <1>1, BackendMoves DEF BackendEffect
  <2> QED BY <1>1, <2>1 DEF HeldInv, Holds, workerVars
<1>2. ASSUME NEW w \in Workers, WorkerStep(w) \/ Disruption(w)
      PROVE  \E v \in Workers : conn'[v] = "open" /\ job'[v] = m
  <2>1. \A v \in Workers \ {w} : conn'[v] = conn[v] /\ job'[v] = job[v]
    BY <1>2, OthersRest
  <2>2. CASE msg[m] = "unacked"
    <3>1. PICK v \in Workers : Holds(v, m) BY <2>2 DEF HeldInv
    <3>2. CASE v # w BY <2>1, <3>1, <3>2 DEF Holds
    <3>3. CASE v = w
      BY <1>2, <3>1, <3>3, OwnDelivery, MessagesAssumption DEF Holds, queueVars
    <3> QED BY <3>2, <3>3
  <2>3. CASE msg[m] # "unacked"
    BY <1>2, <2>3, OwnDelivery DEF Holds, queueVars
  <2> QED BY <2>2, <2>3
<1>3. CASE Disaster
  BY <1>3 DEF Disaster, WipeObjects, ResetDatabase, ComposeDown, HeldInv, Holds, queueVars,
     workerVars
<1>4. CASE UNCHANGED vars BY <1>4 DEF vars, queueVars, workerVars, HeldInv, Holds
<1> QED BY <1>1, <1>2, <1>3, <1>4 DEF Next
-----------------------------------------------------------------------------
(* What a step of w writes to a row: 'processing' when it takes the job    *)
(* up, and a terminal status at its end.                                   *)
LEMMA StatusMoves ==
  ASSUME TypeOK, NEW w \in Workers, WorkerStep(w) \/ Disruption(w), NEW r \in Requests
  PROVE  \/ status'[r] = status[r]
         \/ job[w] = r /\ pc[w] = "marking" /\ status'[r] = "processing"
         \/ job[w] = r /\ pc[w] = "saving" /\ status'[r] = "completed" /\ result'[r]
         \/ job[w] = r /\ pc[w] = "failing" /\ status'[r] = "failed"
<1> USE DEF TypeOK, StoreTypeOK, storeVars, storageVars, WorksOn
<1>1. CASE ConsumeStep(w) BY <1>1 DEF ConsumeStep, Open, NoticeLoss, Deliver
<1>2. CASE CallStep(w)
  BY <1>2 DEF CallStep, Ack, Requeue, Reject, MarkProcessing, Download, Classify, SaveSuccess,
     MarkFailed, UpdateProcessing, UpsertResult, UpdateFailed
<1>3. CASE CallFault(w)
  BY <1>3 DEF CallFault, MarkProcessingFails, SaveSuccessFails, MarkFailedFails,
     StorageUnreachable, EngineRaises, UpdateProcessing, UpsertResult, UpdateFailed
<1>4. CASE Disruption(w) BY <1>4 DEF Disruption, DropConnection, Crash
<1> QED BY <1>1, <1>2, <1>3, <1>4 DEF WorkerStep

(* How w comes to its two last calls. *)
LEMMA LastCalls ==
  ASSUME TypeOK, NEW w \in Workers, WorkerStep(w) \/ Disruption(w)
  PROVE  /\ pc'[w] = "acking" =>
               /\ job'[w] = job[w]
               /\ \/ pc[w] = "acking"
                  \/ /\ pc[w] = "saving" /\ job[w] \in Requests
                     /\ status'[job[w]] = "completed" /\ result'[job[w]]
         /\ pc'[w] = "rejecting" =>
               \/ job'[w] \in Junk
               \/ pc[w] = "rejecting" /\ job'[w] = job[w]
               \/ /\ pc[w] = "failing" /\ job'[w] = job[w] /\ job[w] \in Requests
                  /\ "db" \in Faults \/ ~RowExists(job[w]) \/ status'[job[w]] = "failed"
<1> USE DEF TypeOK, StoreTypeOK, WorkerTypeOK, WorksOn, Proceed, Raise, Finish, storeVars, storageVars
<1>1. CASE ConsumeStep(w) BY <1>1 DEF ConsumeStep, Open, NoticeLoss, Deliver
<1>2. CASE CallStep(w)
  BY <1>2 DEF CallStep, Ack, Requeue, Reject, NackUnheard, MarkProcessing, Download, Classify,
     SaveSuccess, MarkFailed, UpsertResult, UpdateFailed
<1>3. CASE CallFault(w)
  BY <1>3 DEF CallFault, MarkProcessingFails, SaveSuccessFails, MarkFailedFails,
     StorageUnreachable, EngineRaises, UpsertResult, UpdateFailed
<1>4. CASE Disruption(w) BY <1>4 DEF Disruption, DropConnection, Crash
<1> QED BY <1>1, <1>2, <1>3, <1>4 DEF WorkerStep

(* Only the last calls settle a message. *)
LEMMA WhoSettles ==
  ASSUME TypeOK, NEW w \in Workers, WorkerStep(w) \/ Disruption(w), NEW m \in Messages
  PROVE  /\ msg'[m] = "acked" => msg[m] = "acked" \/ (pc[w] = "acking" /\ job[w] = m)
         /\ msg'[m] = "dead" => msg[m] = "dead" \/ (pc[w] = "rejecting" /\ job[w] = m)
<1> USE DEF TypeOK, QueueTypeOK, WorkerTypeOK, queueVars
<1>1. CASE ConsumeStep(w) BY <1>1 DEF ConsumeStep, Open, NoticeLoss, Deliver, HandOut
<1>2. CASE Ack(w) \/ Requeue(w) \/ Reject(w)
  BY <1>2 DEF Ack, Requeue, Reject, NackUnheard, Settle, PutBack
<1>3. CASE Disruption(w) BY <1>3 DEF Disruption, DropConnection, Crash, TakeBack, PutBack
<1> QED BY <1>1, <1>2, <1>3, CallsLeaveQueue

(* The two writes of save_success land together. *)
LEMMA CompletedStep == ASSUME IInv, [Next]_vars PROVE CompletedHasPrediction'
<1> USE DEF CompletedHasPrediction
<1>t. TypeOK /\ UnpublishedInv /\ CallbackInv /\ HolderInv /\ CompletedHasPrediction
  BY DEF IInv
<1>1. CASE BackendNext BY <1>t, <1>1, BackendMoves DEF BackendEffect
<1>2. ASSUME NEW w \in Workers, WorkerStep(w) \/ Disruption(w), NEW r \in Requests,
             status'[r] = "completed"
      PROVE  result'[r]
  <2>1. result[r] => result'[r] BY <1>t, <1>2, WorkerMoves DEF WorkerEffect
  <2> QED BY <1>t, <1>2, <2>1, StatusMoves
<1>3. CASE Disaster
  BY <1>t, <1>3 DEF Disaster, WipeObjects, ResetDatabase, ComposeDown, storeVars, storageVars
<1>4. CASE UNCHANGED vars BY <1>t, <1>4 DEF vars, storeVars, storageVars
<1> QED BY <1>1, <1>2, <1>3, <1>4 DEF Next

(* SavedInv: "acking" is reached through the commit. *)
LEMMA SavedStep == ASSUME IInv, [Next]_vars PROVE SavedInv'
<1> SUFFICES ASSUME Without({"reset"})
             PROVE  /\ \A v \in Workers : pc'[v] = "acking" => result'[job'[v]]
                    /\ \A r \in Requests : msg'[r] = "acked" => result'[r]
  BY DEF SavedInv, AckedHasPrediction, Without
<1>t. TypeOK /\ UnpublishedInv /\ CallbackInv /\ HolderInv BY DEF IInv
<1>s. /\ \A v \in Workers : pc[v] = "acking" => result[job[v]]
      /\ \A r \in Requests : msg[r] = "acked" => result[r]
  BY DEF IInv, SavedInv, AckedHasPrediction
<1>1. CASE BackendNext /\ UNCHANGED workerVars
  BY <1>t, <1>s, <1>1, BackendMoves DEF BackendEffect, workerVars
<1>2. ASSUME NEW w \in Workers, WorkerStep(w) \/ Disruption(w)
      PROVE  /\ \A v \in Workers : pc'[v] = "acking" => result'[job'[v]]
             /\ \A r \in Requests : msg'[r] = "acked" => result'[r]
  <2>1. \A r \in Requests : result[r] => result'[r]
    BY <1>t, <1>2, WorkerMoves DEF WorkerEffect
  <2>2. ASSUME NEW v \in Workers, pc'[v] = "acking" PROVE result'[job'[v]]
    <3>1. pc[v] = "acking" => job[v] \in Requests BY <1>t DEF CallbackInv, Calls, Trying
    <3>2. CASE v = w BY <1>t, <1>s, <1>2, <2>1, <2>2, <3>1, <3>2, LastCalls
    <3>3. CASE v # w BY <1>t, <1>s, <1>2, <2>1, <2>2, <3>1, <3>3, OthersRest
    <3> QED BY <3>2, <3>3
  <2>3. ASSUME NEW r \in Requests, msg'[r] = "acked" PROVE result'[r]
    BY <1>t, <1>s, <1>2, <2>1, <2>3, WhoSettles
  <2> QED BY <2>2, <2>3
<1>3. CASE Disaster
  BY <1>t, <1>s, <1>3 DEF Disaster, WipeObjects, ResetDatabase, ComposeDown, Without, TypeOK,
     QueueTypeOK, WorkerTypeOK, storeVars, storageVars, queueVars, workerVars
<1>4. CASE UNCHANGED vars BY <1>s, <1>4 DEF vars, storeVars, storageVars, queueVars, workerVars
<1> QED BY <1>1, <1>2, <1>3, <1>4 DEF Next

(* FreshInv: DropConnection alone makes a connection stale. *)
LEMMA FreshStep == ASSUME IInv, [Next]_vars PROVE FreshInv'
<1> SUFFICES ASSUME Without({"drop"}), NEW v \in Workers PROVE conn'[v] # "stale"
  BY DEF FreshInv, Without
<1>t. TypeOK /\ conn[v] # "stale" BY DEF IInv, FreshInv
<1> USE DEF TypeOK, WorkerTypeOK
<1>1. CASE UNCHANGED workerVars BY <1>t, <1>1 DEF workerVars
<1>2. ASSUME NEW w \in Workers, WorkerStep(w) \/ Disruption(w) PROVE conn'[v] # "stale"
  <2>1. CASE v # w BY <1>t, <1>2, <2>1, OthersRest
  <2>2. CASE v = w
    <3>1. CASE ConsumeStep(w)
      BY <1>t, <2>2, <3>1 DEF ConsumeStep, Open, NoticeLoss, Deliver
    <3>2. CASE Ack(w) \/ Requeue(w) \/ Reject(w)
      BY <1>t, <2>2, <3>2 DEF Ack, Requeue, Reject, NackUnheard, Finish, Raise
    <3>3. CASE Disruption(w)
      BY <1>t, <2>2, <3>3 DEF Disruption, Crash, Finish, Without
    <3> QED BY <1>t, <1>2, <2>2, <3>1, <3>2, <3>3, CallsLeaveQueue
  <2> QED BY <2>1, <2>2
<1>3. CASE ComposeDown BY <1>3 DEF ComposeDown
<1> QED BY <1>1, <1>2, <1>3 DEF Next, Disaster, WipeObjects, ResetDatabase, vars
-----------------------------------------------------------------------------
(* Without stale connections the job of a callback is held: its message is *)
(* unacked, and no other callback runs on it.                              *)
LEMMA HeldAlone ==
  ASSUME IInv, Without({"drop"}), NEW v \in Workers, NEW r \in Requests, job[v] = r
  PROVE  msg[r] = "unacked" /\ \A u \in Workers : job[u] = r => u = v
<1>1. \A u \in Workers : job[u] = r => conn[u] = "open"
  BY MessagesAssumption DEF TypeOK, WorkerTypeOK, CallbackInv, IInv, FreshInv, Without
<1>2. r # None BY MessagesAssumption
<1> QED BY <1>1, <1>2 DEF IInv, HolderInv

(* AnsweredInv: without stale connections the holder of a job is the only  *)
(* worker that writes its row, and it settles the message last.            *)
LEMMA AnsweredStep == ASSUME IInv, [Next]_vars PROVE AnsweredInv'
<1> SUFFICES ASSUME Without({"db", "drop"})
             PROVE  /\ \A v \in Workers : \A r \in Requests :
                         job'[v] = r /\ pc'[v] \in {"acking", "rejecting"} => Answered(r)'
                    /\ \A r \in Requests : msg'[r] \in Settled => Answered(r)'
  BY DEF AnsweredInv, Without
<1> USE DEF Answered
<1>t. TypeOK /\ UnpublishedInv /\ CallbackInv /\ HolderInv BY DEF IInv
<1>f. "db" \notin Faults /\ "drop" \notin Faults BY DEF Without
<1>s. /\ \A v \in Workers : \A r \in Requests :
           job[v] = r /\ pc[v] \in {"acking", "rejecting"} => Answered(r)
      /\ \A r \in Requests : msg[r] \in Settled => Answered(r)
  BY DEF IInv, AnsweredInv
<1>h. ASSUME NEW v \in Workers, NEW r \in Requests, job[v] = r
      PROVE  msg[r] = "unacked" /\ \A u \in Workers : job[u] = r => u = v
  BY <1>h, HeldAlone, <1>f DEF Without
<1>1. CASE BackendNext /\ UNCHANGED workerVars
  <2>1. BackendEffect BY <1>t, <1>1, BackendMoves
  <2>2. ASSUME NEW r \in Requests, Answered(r), msg[r] # "absent"
        PROVE  Answered(r)'
    BY <1>t, <2>1, <2>2 DEF BackendEffect, UnpublishedInv, BeforePublish
  <2>3. \A r \in Requests : msg'[r] \in Settled => msg[r] \in Settled
    BY <2>1 DEF BackendEffect
  <2>4. UNCHANGED <<job, pc>> BY <1>1 DEF workerVars
  <2> QED BY <1>s, <1>h, <2>2, <2>3, <2>4
<1>2. ASSUME NEW w \in Workers, WorkerStep(w) \/ Disruption(w)
      PROVE  /\ \A v \in Workers : \A r \in Requests :
                  job'[v] = r /\ pc'[v] \in {"acking", "rejecting"} => Answered(r)'
             /\ \A r \in Requests : msg'[r] \in Settled => Answered(r)'
  <2>0. \A r \in Requests : status'[r] = "none" <=> status[r] = "none"
    BY <1>t, <1>2, WorkerMoves DEF WorkerEffect, RowExists
  <2>1. ASSUME NEW r \in Requests, Answered(r), ~(job[w] = r /\ pc[w] = "marking")
        PROVE  Answered(r)'
    BY <1>t, <1>2, <2>1, StatusMoves
  <2>2. ASSUME NEW v \in Workers, NEW r \in Requests, job'[v] = r,
               pc'[v] \in {"acking", "rejecting"}
        PROVE  Answered(r)'
    <3>1. CASE v # w
      <4>1. job[v] = r /\ pc[v] \in {"acking", "rejecting"} BY <1>t, <1>2, <2>2, <3>1, OthersRest
      <4>2. job[w] # r BY <1>h, <3>1, <4>1
      <4> QED BY <1>s, <2>1, <4>1, <4>2
    <3>2. CASE v = w /\ pc[w] \in {"acking", "rejecting"}
      <4>1. job[w] = r
        BY <1>t, <1>2, <2>2, <3>2, LastCalls, MessagesAssumption
      <4> QED BY <1>s, <2>1, <3>2, <4>1
    <3>3. CASE v = w /\ pc[w] \notin {"acking", "rejecting"}
      BY <1>t, <1>2, <1>f, <2>0, <2>2, <3>3, LastCalls, MessagesAssumption DEF RowExists
    <3> QED BY <3>1, <3>2, <3>3
  <2>3. ASSUME NEW r \in Requests, msg'[r] \in Settled PROVE Answered(r)'
    <3>1. CASE msg[r] \in Settled
      <4>1. job[w] # r BY <1>h, <3>1
      <4> QED BY <1>s, <2>1, <3>1, <4>1
    <3>2. CASE msg[r] \notin Settled
      <4>1. job[w] = r /\ pc[w] \in {"acking", "rejecting"}
        BY <1>t, <1>2, <2>3, <3>2, WhoSettles
      <4> QED BY <1>s, <2>1, <4>1
    <3> QED BY <3>1, <3>2
  <2> QED BY <2>2, <2>3
<1>3. CASE Disaster
  BY <1>s, <1>t, <1>f, <1>3 DEF Disaster, WipeObjects, ResetDatabase, ComposeDown, TypeOK,
     QueueTypeOK, WorkerTypeOK, storeVars, storageVars, queueVars, workerVars
<1>4. CASE UNCHANGED vars BY <1>s, <1>4 DEF vars, storeVars, storageVars, queueVars, workerVars
<1> QED BY <1>1, <1>2, <1>3, <1>4 DEF Next
-----------------------------------------------------------------------------
(* The invariant holds initially: nothing is published and no one works. *)
LEMMA InitInv == Init => IInv
<1> SUFFICES ASSUME Init PROVE IInv OBVIOUS
<1>1. TypeOK BY InitTypeOK
<1>2. UnpublishedInv /\ ConfirmInv /\ ConfirmsAreDue /\ RowInv /\ ObjectInv
  BY MessagesAssumption
     DEF Init, QueueInit, HandlerInit, UnpublishedInv, ConfirmInv, ConfirmsAreDue, RowInv,
         ObjectInv
<1>3. CallbackInv /\ HolderInv /\ TakenInv /\ FreshInv
  BY DEF Init, WorkerInit, TakenInv, CallbackInv, HolderInv, FreshInv, Calls, Trying
<1>4. HeldInv /\ CompletedHasPrediction
  BY DEF Init, QueueInit, StoreInit, HeldInv, CompletedHasPrediction
<1>5. SavedInv /\ AnsweredInv
  BY MessagesAssumption
     DEF Init, QueueInit, WorkerInit, SavedInv, AckedHasPrediction, AnsweredInv
<1> QED BY <1>1, <1>2, <1>3, <1>4, <1>5 DEF IInv

(* Every step keeps the types. *)
LEMMA TypeStep == ASSUME IInv, [Next]_vars PROVE TypeOK'
<1>t. TypeOK /\ CallbackInv BY DEF IInv
<1>1. CASE UNCHANGED vars
  BY <1>t, <1>1 DEF vars, TypeOK, StoreTypeOK, StorageTypeOK, QueueTypeOK, HandlerTypeOK,
     WorkerTypeOK, storeVars, storageVars, queueVars, handlerVars, workerVars
<1> QED BY <1>t, <1>1, BackendTypes, WorkerStepTypes, DisasterTypes DEF Next

(* Every step keeps the invariant. *)
LEMMA StepInv == IInv /\ [Next]_vars => IInv'
<1> SUFFICES ASSUME IInv, [Next]_vars PROVE IInv' OBVIOUS
<1> QED BY TypeStep, UnpublishedStep, ConfirmStep, DueStep, RowStep, ObjectStep, CallbackStep,
        HolderStep, TakenStep, HeldStep, CompletedStep, SavedStep, FreshStep, AnsweredStep DEF IInv

(* IInv is an invariant of the pipeline, for any set of faults. *)
THEOREM Invariance == Spec => []IInv
<1> QED BY InitInv, StepInv, PTL DEF Spec

(* Type correctness (the TypeOK of every component). *)
THEOREM TypeCorrectness == Spec => []TypeOK
<1>1. IInv => TypeOK BY DEF IInv
<1> QED BY Invariance, <1>1, PTL

(* No interleaving of workers, redeliveries and late failures of the       *)
(* backend leaves a row 'completed' without its prediction.                *)
THEOREM CompletedAlwaysHasPrediction == Spec => []CompletedHasPrediction
<1>1. IInv => CompletedHasPrediction BY DEF IInv
<1> QED BY Invariance, <1>1, PTL

(* No path through the callback forgets a delivery, and the broker has no  *)
(* message out on two open connections.                                    *)
THEOREM UnackedAlwaysHeldOnce == Spec => []UnackedIsHeldOnce
<1>1. IInv => UnackedIsHeldOnce
  <2> SUFFICES ASSUME IInv, NEW m \in Messages, msg[m] = "unacked"
               PROVE  \E w \in Workers : Holds(w, m) /\ \A v \in Workers : Holds(v, m) => v = w
    BY DEF UnackedIsHeldOnce
  <2>1. PICK w \in Workers : Holds(w, m) BY DEF IInv, HeldInv
  <2>2. m # None BY MessagesAssumption
  <2> QED BY <2>1, <2>2 DEF IInv, HolderInv, Holds
<1> QED BY Invariance, <1>1, PTL

(* Without the faults that lose data already stored, a message in flight   *)
(* names a row and an image that are there.                                *)
THEOREM JobAlwaysBeforeMessage ==
  ASSUME Without({"wipe", "reset", "down"}) PROVE Spec => []JobBeforeMessage
<1>1. IInv => JobBeforeMessage BY DEF IInv, RowInv, ObjectInv, JobBeforeMessage, Without
<1> QED BY Invariance, <1>1, PTL

(* As long as the broker refuses no publish, a 202 is truthful. *)
THEOREM AcceptedAlwaysQueued ==
  ASSUME Without({"nack", "down"}) PROVE Spec => []AcceptedIsQueued
<1>1. IInv => AcceptedIsQueued BY DEF IInv, ConfirmInv, AcceptedIsQueued, Without
<1> QED BY Invariance, <1>1, PTL

(* Whatever an upload still waits for will be confirmed, refused or given  *)
(* up with the connection: none waits for a confirm that cannot come.      *)
THEOREM ConfirmsAlwaysDue == Spec => []ConfirmsAreDue
<1>1. IInv => ConfirmsAreDue BY DEF IInv
<1> QED BY Invariance, <1>1, PTL

(* A job is acknowledged only with its prediction stored. *)
THEOREM AckedAlwaysHasPrediction ==
  ASSUME Without({"reset"}) PROVE Spec => []AckedHasPrediction
<1>1. IInv => AckedHasPrediction BY DEF IInv, SavedInv
<1> QED BY Invariance, <1>1, PTL

(* With connections that fail only together with their worker, two workers *)
(* never run on the same job.                                              *)
THEOREM AlwaysOneWorkerPerJob ==
  ASSUME Without({"drop"}) PROVE Spec => []OneWorkerPerJob
<1>1. IInv => OneWorkerPerJob
  <2> SUFFICES ASSUME IInv, NEW v \in Workers, NEW w \in Workers, job[v] = job[w], job[v] # None
               PROVE  v = w
    BY DEF OneWorkerPerJob
  <2>1. conn[v] = "open" /\ conn[w] = "open"
    BY DEF IInv, FreshInv, CallbackInv, TypeOK, WorkerTypeOK, Without
  <2> QED BY <2>1 DEF IInv, HolderInv
<1> QED BY Invariance, <1>1, PTL

(* With them, and with a database that answers, a settled job has its      *)
(* terminal status.                                                        *)
THEOREM SettledAlwaysTerminal ==
  ASSUME Without({"db", "drop", "reset"}) PROVE Spec => []SettledIsTerminal
<1>1. IInv => SettledIsTerminal
  BY DEF IInv, AnsweredInv, Answered, RowInv, RowExists, SettledIsTerminal, Without
<1> QED BY Invariance, <1>1, PTL

(* A worker requeues a message of its own accord only when the broker has  *)
(* never flagged it: once per message, for any number of workers.          *)
THEOREM RetriedOnlyOnce == Spec => RetriedAtMostOnce
<1> DEFINE Retry ==
      \A m \in Messages :
          /\ msg[m] = "unacked" /\ msg'[m] = "ready"
          /\ \A w \in Workers : Holds(w, m) => conn'[w] = "open"
          => ~redelivered[m]
<1>1. IInv /\ [Next]_vars => [Retry]_vars
  <2> SUFFICES ASSUME IInv, Next, NEW m \in Messages,
                      msg[m] = "unacked", msg'[m] = "ready",
                      \A w \in Workers : Holds(w, m) => conn'[w] = "open"
               PROVE  ~redelivered[m]
    OBVIOUS
  <2> USE DEF IInv, TypeOK, QueueTypeOK, WorkerTypeOK
  <2>1. CASE BackendNext BY <2>1, BackendMoves DEF BackendEffect
  <2>2. ASSUME NEW w \in Workers, WorkerStep(w) \/ Disruption(w) PROVE ~redelivered[m]
    <3>1. Holds(w, m) BY <2>2, WorkerMoves DEF WorkerEffect
    <3>2. CASE Requeue(w)
      BY <3>1, <3>2, MessagesAssumption DEF Requeue, Holds, CallbackInv, HolderInv
    <3>3. CASE Ack(w) \/ Reject(w)
      BY <3>1, <3>3 DEF Ack, Reject, NackUnheard, Settle, Holds, queueVars
    <3>4. CASE Disruption(w)
      BY <3>1, <3>4 DEF Disruption, DropConnection, Crash, Finish, Holds
    <3>5. CASE ConsumeStep(w)
      BY <3>5 DEF ConsumeStep, Open, NoticeLoss, Deliver, HandOut, queueVars
    <3> QED BY <2>2, <3>2, <3>3, <3>4, <3>5, CallsLeaveQueue
  <2>3. CASE Disaster
    BY <2>3 DEF Disaster, WipeObjects, ResetDatabase, ComposeDown, queueVars
  <2> QED BY <2>1, <2>2, <2>3 DEF Next
<1> QED BY <1>1, Invariance, PTL DEF Spec, RetriedAtMostOnce
=============================================================================
