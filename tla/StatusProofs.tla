---------------------------- MODULE StatusProofs ----------------------------
(***************************************************************************)
(* What becomes of the status of a job, proved from the invariant of       *)
(* PipelineProofs: nobody forgets a pending row, and without CalmKinds (no *)
(* crash of a worker, no connection dropped under one, no nack, no backend *)
(* connection lost, no call to Postgres failing) a status that is terminal *)
(* stays, together with what a poll answers.                               *)
(***************************************************************************)
EXTENDS PipelineProofs

USE DEF Messages, Places, Queued, Settled, Statuses, Terminal

(* What a worker step writes to a row, to its last column. *)
LEMMA RowMoves ==
  ASSUME TypeOK, CallbackInv, NEW w \in Workers, WorkerStep(w) \/ Disruption(w),
         NEW r \in Requests
  PROVE  \/ /\ status'[r] = status[r] /\ result'[r] = result[r]
            /\ errorMessage'[r] = errorMessage[r]
         \/ /\ job[w] = r /\ pc[w] = "marking" /\ status'[r] = "processing"
            /\ result'[r] = result[r] /\ errorMessage'[r] = errorMessage[r]
         \/ /\ job[w] = r /\ pc[w] = "saving" /\ status'[r] = "completed"
            /\ result'[r] /\ errorMessage'[r] = "null"
         \/ /\ job[w] = r /\ pc[w] = "failing" /\ status'[r] = "failed"
            /\ result'[r] = result[r] /\ errorMessage'[r] # "null"
<1> USE DEF TypeOK, StoreTypeOK, storeVars, storageVars, WorksOn
<1>1. CASE ConsumeStep(w) BY <1>1 DEF ConsumeStep, Open, NoticeLoss, Deliver
<1>2. ASSUME NEW q \in Requests, MarkFailed(w, q) \/ MarkFailedFails(w, q)
      PROVE  /\ job[w] = q /\ pc[w] = "failing"
             /\ \/ UNCHANGED storeVars
                \/ /\ status' = [status EXCEPT ![q] = "failed"]
                   /\ errorMessage' = [errorMessage EXCEPT ![q] = UserMessage[error[w]]]
                   /\ result' = result
             /\ UserMessage[error[w]] # "null"
  <2>1. error[w] \in Exceptions BY <1>2 DEF MarkFailed, MarkFailedFails, CallbackInv
  <2>2. UserMessage[error[w]] # "null" BY <2>1, UserMessageType DEF WorkerSentences
  <2> QED BY <1>2, <2>2 DEF MarkFailed, MarkFailedFails, UpdateFailed
<1>3. CASE Ack(w) \/ Requeue(w) \/ Reject(w) \/ StorageUnreachable(w) \/ EngineRaises(w)
  BY <1>3 DEF Ack, Requeue, Reject, StorageUnreachable, EngineRaises
<1>4. ASSUME NEW q \in Requests,
             \/ MarkProcessing(w, q) \/ Download(w, q) \/ Classify(w, q) \/ SaveSuccess(w, q)
             \/ MarkProcessingFails(w, q) \/ SaveSuccessFails(w, q)
      PROVE  /\ job[w] = q
             /\ \/ UNCHANGED storeVars
                \/ pc[w] = "marking" /\ UpdateProcessing(q)
                \/ pc[w] = "saving" /\ UpsertResult(q)
  BY <1>4 DEF MarkProcessing, Download, Classify, SaveSuccess, MarkProcessingFails,
     SaveSuccessFails
<1>5. CASE Disruption(w) BY <1>5 DEF Disruption, DropConnection, Crash
<1>6. ASSUME NEW q \in Requests, UpdateProcessing(q)
      PROVE  /\ status' = [status EXCEPT ![q] = "processing"]
             /\ result' = result /\ errorMessage' = errorMessage
  BY <1>6 DEF UpdateProcessing
<1>7. ASSUME NEW q \in Requests, UpsertResult(q)
      PROVE  /\ status' = [status EXCEPT ![q] = "completed"]
             /\ result' = [result EXCEPT ![q] = TRUE]
             /\ errorMessage' = [errorMessage EXCEPT ![q] = "null"]
  BY <1>7 DEF UpsertResult
<1> QED BY <1>1, <1>2, <1>3, <1>4, <1>5, <1>6, <1>7 DEF WorkerStep, CallStep, CallFault

(* Without CalmKinds a worker that is not at its last call works on a job  *)
(* that is not over.                                                       *)
LEMMA WorkedOnIsOpen ==
  ASSUME IInv, FinalInv, Without(CalmKinds), NEW w \in Workers, NEW r \in Requests,
         job[w] = r, pc[w] \notin {"acking", "rejecting"}
  PROVE  status[r] \notin Terminal
<1>1. Without({"drop"}) BY DEF Without, CalmKinds
<1>2. msg[r] = "unacked" /\ \A u \in Workers : job[u] = r => u = w BY <1>1, HeldAlone
<1> QED BY <1>2 DEF FinalInv, Settling
-----------------------------------------------------------------------------
(* What a step of the backend does to a handler and its row. *)
LEMMA HandlerMoves ==
  ASSUME TypeOK, BackendNext, NEW r \in Requests
  PROVE  /\ phase'[r] \in BeforeInsert =>
               phase[r] \in BeforeInsert /\ status'[r] = status[r]
         /\ phase'[r] = "error" =>
               \/ phase[r] \in BeforeInsert \cup {"error"} /\ status'[r] = status[r]
               \/ "db" \in Faults
         /\ phase'[r] = "unavailable" =>
               \/ phase[r] = "unavailable" /\ status'[r] = status[r]
               \/ status'[r] \in {"none", "failed"}
         /\ phase'[r] \in {"unqueued", "unavailable", "hung"} =>
               \/ phase[r] \in {"unqueued", "unavailable", "hung"}
               \/ ~Without({"link", "nack"})
         /\ \/ errorMessage'[r] = errorMessage[r]
            \/ phase[r] = "unqueued"
<1> USE DEF TypeOK, StoreTypeOK, HandlerTypeOK, storeVars, storageVars, queueVars, handlerVars,
            Goto, Without, BeforeInsert
<1>1. CASE ChannelStep BY <1>1 DEF ChannelStep, Drain, Confirm, Arrive
<1>2. CASE ChannelFault
  BY <1>2 DEF ChannelFault, SocketLost, LinkLoss, ChannelDies, ChannelGone,
     Nack, BackendCrash, Active
<1>3. ASSUME NEW q \in Requests, Upload(q) \/ HandlerStep(q) \/ HandlerFault(q), q # r
      PROVE  phase'[r] = phase[r] /\ status'[r] = status[r] /\ errorMessage'[r] = errorMessage[r]
  BY <1>3 DEF Upload, HandlerStep, HandlerFault, PutImage, CreateRequest, SendToQueue,
     SendToFullBuffer, Reply202, MarkUnqueued, PutImageFails, CreateRequestFails,
     MarkUnqueuedFails, NoChannel, InsertPending, UpdateFailed
<1>4. CASE Upload(r) \/ Reply202(r) \/ PutImage(r) \/ PutImageFails(r)
  BY <1>4 DEF Upload, Reply202, PutImage, PutImageFails
<1>5. CASE CreateRequest(r) BY <1>5 DEF CreateRequest, InsertPending
<1>6. CASE SendToQueue(r) \/ SendToFullBuffer(r) BY <1>6 DEF SendToQueue, SendToFullBuffer
<1>7. CASE MarkUnqueued(r) BY <1>7 DEF MarkUnqueued, UpdateFailed, RowExists
<1>8. CASE "link" \in Faults /\ NoChannel(r) BY <1>8 DEF NoChannel
<1>9. CASE "db" \in Faults /\ (CreateRequestFails(r) \/ MarkUnqueuedFails(r))
  BY <1>9 DEF CreateRequestFails, MarkUnqueuedFails, InsertPending, UpdateFailed
<1>10. CASE Upload(r) \/ HandlerStep(r) \/ HandlerFault(r)
  BY <1>10, <1>4, <1>5, <1>6, <1>7, <1>8, <1>9 DEF HandlerStep, HandlerFault
<1> QED BY <1>1, <1>2, <1>3, <1>10 DEF BackendNext

(* A callback that comes to, or stays at, a job that is 'pending' stands    *)
(* before its first call, as long as Postgres answers.                     *)
LEMMA FirstCall ==
  ASSUME TypeOK, Without({"db"}), NEW w \in Workers, WorkerStep(w) \/ Disruption(w),
         NEW r \in Requests, job'[w] = r, status'[r] = "pending",
         job[w] = r => pc[w] = "marking"
  PROVE  pc'[w] = "marking"
<1> USE DEF TypeOK, StoreTypeOK, WorkerTypeOK, WorksOn, Proceed, Raise, Finish, storeVars
<1>1. CASE ConsumeStep(w)
  BY <1>1, MessagesAssumption DEF ConsumeStep, Open, NoticeLoss, Deliver
<1>2. CASE CallStep(w)
  BY <1>2, MessagesAssumption DEF CallStep, Ack, Requeue, Reject, NackUnheard, MarkProcessing,
     Download, Classify, SaveSuccess, MarkFailed, UpdateProcessing, RowExists
<1>3. CASE CallFault(w)
  BY <1>3 DEF CallFault, StorageUnreachable, EngineRaises, Without
<1>4. CASE Disruption(w)
  BY <1>4, MessagesAssumption DEF Disruption, DropConnection, Crash
<1> QED BY <1>1, <1>2, <1>3, <1>4 DEF WorkerStep

(* UnwrittenInv: the INSERT comes with the phase "publish". *)
LEMMA UnwrittenStep == ASSUME IInv, UnwrittenInv, [Next]_vars PROVE UnwrittenInv'
<1> SUFFICES ASSUME NEW r \in Requests
             PROVE  /\ phase'[r] \in BeforeInsert => status'[r] = "none"
                    /\ Without({"db"}) =>
                          /\ phase'[r] = "error" => status'[r] = "none"
                          /\ phase'[r] = "unavailable" => status'[r] # "pending"
  BY DEF UnwrittenInv, Without, RowExists
<1>t. /\ TypeOK /\ UnpublishedInv /\ CallbackInv /\ HolderInv
      /\ phase[r] \in BeforeInsert => status[r] = "none"
      /\ Without({"db"}) =>
            /\ phase[r] = "error" => status[r] = "none"
            /\ phase[r] = "unavailable" => status[r] # "pending"
  BY DEF IInv, UnwrittenInv, RowExists
<1>1. CASE BackendNext BY <1>t, <1>1, HandlerMoves DEF Without
<1>2. ASSUME NEW w \in Workers, WorkerStep(w) \/ Disruption(w), UNCHANGED handlerVars
      PROVE  /\ UNCHANGED phase
             /\ status'[r] = "none" <=> status[r] = "none"
             /\ status'[r] = "pending" => status[r] = "pending"
  <2>1. status'[r] = "none" <=> status[r] = "none"
    BY <1>t, <1>2, WorkerMoves DEF WorkerEffect, RowExists
  <2>2. status'[r] = "pending" => status[r] = "pending" BY <1>t, <1>2, StatusMoves
  <2> QED BY <1>2, <2>1, <2>2 DEF handlerVars
<1>3. CASE Disaster
  BY <1>t, <1>3 DEF Disaster, WipeObjects, ResetDatabase, ComposeDown, storeVars, handlerVars,
     TypeOK, HandlerTypeOK, Active, BeforeInsert
<1>4. CASE UNCHANGED vars BY <1>t, <1>4 DEF vars, storeVars, handlerVars
<1> QED BY <1>t, <1>1, <1>2, <1>3, <1>4 DEF Next

(* TouchedInv: a worker writes to the row of a message it has been given,  *)
(* and before anything else it takes the job up.                           *)
LEMMA TouchedStep == ASSUME IInv, TouchedInv, [Next]_vars PROVE TouchedInv'
<1> SUFFICES ASSUME NEW r \in Requests
             PROVE  /\ Without({"down"}) =>
                          (status'[r] \in {"processing", "completed"} => msg'[r] \in Queued)
                    /\ Without({"db"}) =>
                          (status'[r] = "pending" =>
                             /\ msg'[r] \notin Settled
                             /\ \A v \in Workers : job'[v] = r => pc'[v] = "marking")
  BY DEF TouchedInv, Without
<1>t. TypeOK /\ UnpublishedInv /\ CallbackInv /\ HolderInv /\ TakenInv BY DEF IInv
<1>s. /\ Without({"down"}) =>
            (status[r] \in {"processing", "completed"} => msg[r] \in Queued)
      /\ Without({"db"}) =>
            (status[r] = "pending" =>
               /\ msg[r] \notin Settled
               /\ \A v \in Workers : job[v] = r => pc[v] = "marking")
  BY DEF TouchedInv
<1>j. \A v \in Workers : job[v] = r => msg[r] \in Queued
  BY <1>t, MessagesAssumption DEF TakenInv
<1>1. CASE BackendNext /\ UNCHANGED workerVars
  <2>1. BackendEffect BY <1>t, <1>1, BackendMoves
  <2>2. msg[r] \in Queued => msg'[r] = msg[r] BY <2>1 DEF BackendEffect
  <2>3. msg'[r] \in Settled => msg[r] \in Settled BY <2>1 DEF BackendEffect
  <2>4. phase[r] = "insert" => msg[r] \notin Queued
    BY <1>t DEF UnpublishedInv, BeforePublish
  <2> QED BY <1>s, <1>j, <1>1, <2>1, <2>2, <2>3, <2>4 DEF BackendEffect, workerVars
<1>2. ASSUME NEW w \in Workers, WorkerStep(w) \/ Disruption(w)
      PROVE  /\ Without({"down"}) =>
                   (status'[r] \in {"processing", "completed"} => msg'[r] \in Queued)
             /\ Without({"db"}) =>
                   (status'[r] = "pending" =>
                      /\ msg'[r] \notin Settled
                      /\ \A v \in Workers : job'[v] = r => pc'[v] = "marking")
  <2>1. msg[r] \in Queued => msg'[r] \in Queued
    BY <1>t, <1>2, WorkerMoves DEF WorkerEffect
  <2>2. status'[r] = "pending" => status[r] = "pending" BY <1>t, <1>2, StatusMoves
  <2>3. status'[r] \in {"processing", "completed"} => status[r] = status'[r] \/ job[w] = r
    BY <1>t, <1>2, StatusMoves
  <2>4. ASSUME Without({"db"}), status'[r] = "pending" PROVE msg'[r] \notin Settled
    BY <1>t, <1>s, <1>2, <2>2, <2>4, WhoSettles
  <2>5. ASSUME Without({"db"}), status'[r] = "pending", NEW v \in Workers, job'[v] = r
        PROVE  pc'[v] = "marking"
    <3>1. CASE v # w BY <1>t, <1>s, <1>2, <2>2, <2>5, <3>1, OthersRest
    <3>2. CASE v = w BY <1>t, <1>s, <1>2, <2>2, <2>5, <3>2, FirstCall
    <3> QED BY <3>1, <3>2
  <2> QED BY <1>s, <1>j, <2>1, <2>3, <2>4, <2>5
<1>3. CASE Disaster
  BY <1>s, <1>t, <1>3, MessagesAssumption DEF Disaster, WipeObjects, ResetDatabase, ComposeDown, Without, TypeOK,
     QueueTypeOK, WorkerTypeOK, storeVars, queueVars, workerVars
<1>4. CASE UNCHANGED vars BY <1>s, <1>4 DEF vars, storeVars, queueVars, workerVars
<1> QED BY <1>1, <1>2, <1>3, <1>4 DEF Next
-----------------------------------------------------------------------------
(* FinalInv: a worker writes a terminal status just before it settles. *)
LEMMA FinalStep == ASSUME IInv, UnwrittenInv, FinalInv, [Next]_vars PROVE FinalInv'
<1> SUFFICES ASSUME Without(CalmKinds), NEW r \in Requests
             PROVE  /\ phase'[r] \notin {"unqueued", "unavailable", "hung"}
                    /\ status'[r] \in Terminal =>
                          \/ msg'[r] \in Settled \cup {"lost"}
                          \/ \E v \in Workers : Settling(v, r)'
  BY DEF FinalInv, Without
<1>t. TypeOK /\ UnpublishedInv /\ CallbackInv /\ HolderInv /\ FreshInv BY DEF IInv
<1>w. /\ Without({"drop"}) /\ Without({"db"}) /\ Without({"link", "nack"})
      /\ "crash" \notin Faults /\ "drop" \notin Faults
  BY DEF Without, CalmKinds
<1>f. /\ phase[r] \notin {"unqueued", "unavailable", "hung"}
      /\ status[r] \in Terminal =>
            msg[r] \in Settled \cup {"lost"} \/ \E v \in Workers : Settling(v, r)
  BY DEF FinalInv
<1>1. CASE BackendNext /\ UNCHANGED workerVars
  <2>1. phase'[r] \notin {"unqueued", "unavailable", "hung"}
    BY <1>t, <1>w, <1>f, <1>1, HandlerMoves
  <2>2. BackendEffect BY <1>t, <1>1, BackendMoves
  <2>3. status'[r] \in Terminal => status[r] \in Terminal
    BY <1>f, <2>2 DEF BackendEffect
  <2>4. msg[r] \in Settled \cup {"lost"} => msg'[r] = msg[r]
    BY <2>2 DEF BackendEffect
  <2> QED BY <1>f, <1>1, <2>1, <2>3, <2>4 DEF Settling, workerVars
<1>2. ASSUME NEW w \in Workers, WorkerStep(w) \/ Disruption(w), UNCHANGED handlerVars,
             status'[r] \in Terminal
      PROVE  msg'[r] \in Settled \cup {"lost"} \/ \E v \in Workers : Settling(v, r)'
  <2>1. CASE msg[r] \in Settled \cup {"lost"}
    BY <1>t, <1>2, <2>1, WorkerMoves DEF WorkerEffect
  <2>2. ASSUME NEW v \in Workers, Settling(v, r), v # w PROVE Settling(v, r)'
    BY <1>t, <1>2, <2>2, OthersRest DEF Settling
  <2>3. CASE Settling(w, r)
    <3>1. conn[w] = "open"
      BY <1>t, <1>w, <2>3 DEF Settling, CallbackInv, FreshInv, TypeOK, WorkerTypeOK, Without
    <3>2. Ack(w) \/ Reject(w)
      BY <1>2, <1>w, <2>3, <3>1 DEF Settling, WorkerStep, Disruption, ConsumeStep, CallStep, CallFault,
         Open, NoticeLoss, Deliver, Requeue, MarkProcessing, Download, Classify, SaveSuccess,
         MarkFailed, MarkProcessingFails, SaveSuccessFails, MarkFailedFails,
         StorageUnreachable, EngineRaises
    <3> QED BY <1>t, <2>3, <3>1, <3>2 DEF Ack, Reject, NackUnheard, Settle, Settling, TypeOK, QueueTypeOK
  <2>4. CASE status[r] \notin Terminal
    <3>1. \/ job[w] = r /\ pc[w] = "saving" /\ status'[r] = "completed"
          \/ job[w] = r /\ pc[w] = "failing" /\ status'[r] = "failed"
      BY <1>t, <1>2, <2>4, StatusMoves
    <3>2. CASE \E q \in Requests : SaveSuccess(w, q)
      <4>1. job[w] = r BY <3>1
      <4>2. SaveSuccess(w, r) BY <3>2, <4>1 DEF SaveSuccess, WorksOn
      <4>3. RowExists(r) BY <1>2, <2>4, <4>2 DEF SaveSuccess, storeVars
      <4> QED BY <1>t, <4>1, <4>2, <4>3 DEF SaveSuccess, Proceed, Settling, TypeOK, WorkerTypeOK
    <3>3. CASE \E q \in Requests : MarkFailed(w, q)
      <4>1. job[w] = r BY <3>1
      <4>2. MarkFailed(w, r) BY <3>3, <4>1 DEF MarkFailed, WorksOn
      <4> QED BY <1>t, <4>1, <4>2 DEF MarkFailed, Proceed, Settling, TypeOK, WorkerTypeOK
    <3>4. \/ \E q \in Requests : SaveSuccess(w, q)
          \/ \E q \in Requests : MarkFailed(w, q)
      <4>1. status'[r] # status[r] BY <1>2, <2>4
      <4>2. "db" \notin Faults BY <1>w DEF Without
      <4>3. CASE ConsumeStep(w)
        BY <3>1, <4>1, <4>3 DEF ConsumeStep, Open, NoticeLoss, Deliver, storeVars
      <4>4. CASE CallStep(w)
        BY <3>1, <4>1, <4>4 DEF CallStep, MarkProcessing, Download, Classify, Ack, Requeue,
           Reject, storeVars
      <4>5. CASE CallFault(w)
        BY <3>1, <4>1, <4>2, <4>5 DEF CallFault, StorageUnreachable, EngineRaises, storeVars
      <4>6. CASE Disruption(w)
        BY <3>1, <4>1, <4>6 DEF Disruption, DropConnection, Crash, storeVars
      <4> QED BY <1>2, <4>3, <4>4, <4>5, <4>6 DEF WorkerStep
    <3> QED BY <3>2, <3>3, <3>4
  <2> QED BY <1>f, <2>1, <2>2, <2>3, <2>4
<1>3. CASE Disaster
  <2>1. \A v \in Workers : Settling(v, r) => msg[r] = "unacked"
    BY <1>w, HeldAlone DEF Settling
  <2> QED BY <1>t, <1>f, <1>w, <1>3, <2>1 DEF Disaster, WipeObjects, ResetDatabase, ComposeDown, storeVars,
          queueVars, handlerVars, workerVars, Settling, TypeOK, QueueTypeOK, HandlerTypeOK
<1>4. CASE UNCHANGED vars
  BY <1>f, <1>4 DEF vars, storeVars, queueVars, handlerVars, workerVars, Settling
<1> QED BY <1>f, <1>1, <1>2, <1>3, <1>4 DEF Next, handlerVars

(* CoherentInv: nothing is written to a job that is over. *)
LEMMA CoherentStep ==
  ASSUME IInv, UnwrittenInv, FinalInv, CoherentInv, [Next]_vars PROVE CoherentInv'
<1> SUFFICES ASSUME Without(CalmKinds), NEW r \in Requests
             PROVE  /\ result'[r] <=> status'[r] = "completed"
                    /\ errorMessage'[r] # "null" <=> status'[r] = "failed"
  BY DEF CoherentInv, PollIsCoherent, JobDto, Without
<1>t. TypeOK /\ UnpublishedInv /\ CallbackInv /\ HolderInv BY DEF IInv
<1>w. Without({"db"}) BY DEF Without, CalmKinds
<1>c. /\ result[r] <=> status[r] = "completed"
      /\ errorMessage[r] # "null" <=> status[r] = "failed"
      /\ phase[r] # "unqueued"
      /\ phase[r] = "insert" => status[r] = "none"
  BY <1>w DEF CoherentInv, PollIsCoherent, JobDto, FinalInv, UnwrittenInv, BeforeInsert, RowExists
<1>1. CASE BackendNext
  <2>1. errorMessage'[r] = errorMessage[r] BY <1>t, <1>c, <1>1, HandlerMoves
  <2>2. BackendEffect BY <1>t, <1>1, BackendMoves
  <2> QED BY <1>c, <2>1, <2>2 DEF BackendEffect
<1>2. ASSUME NEW w \in Workers, WorkerStep(w) \/ Disruption(w)
      PROVE  /\ result'[r] <=> status'[r] = "completed"
             /\ errorMessage'[r] # "null" <=> status'[r] = "failed"
  <2>1. job[w] = r /\ pc[w] \notin {"acking", "rejecting"} => status[r] \notin Terminal
    BY WorkedOnIsOpen
  <2> QED BY <1>t, <1>c, <1>2, <2>1, RowMoves
<1>3. CASE Disaster
  BY <1>c, <1>3 DEF Disaster, WipeObjects, ResetDatabase, ComposeDown, storeVars
<1>4. CASE UNCHANGED vars BY <1>c, <1>4 DEF vars, storeVars
<1> QED BY <1>1, <1>2, <1>3, <1>4 DEF Next
-----------------------------------------------------------------------------
(* Nothing is written and nobody works at first. *)
LEMMA InitStatus == Init => StatusInv
<1> SUFFICES ASSUME Init PROVE StatusInv OBVIOUS
<1> USE DEF Init, StoreInit, HandlerInit, RowExists
<1>1. UnwrittenInv /\ TouchedInv BY MessagesAssumption DEF UnwrittenInv, TouchedInv
<1>2. FinalInv BY DEF FinalInv
<1>3. CoherentInv BY DEF CoherentInv, PollIsCoherent, JobDto
<1> QED BY <1>1, <1>2, <1>3 DEF StatusInv

(* StatusInv is an invariant of the pipeline, whatever the faults. *)
THEOREM StatusInvariance == Spec => [](IInv /\ StatusInv)
<1>1. IInv /\ StatusInv /\ [Next]_vars => StatusInv'
  BY UnwrittenStep, TouchedStep, FinalStep, CoherentStep DEF StatusInv
<1> QED BY <1>1, InitInv, InitStatus, StepInv, PTL DEF Spec

(* A pending row has a handler, a message, or a dead process behind it.    *)
THEOREM PendingAlwaysOwned ==
  ASSUME Without({"nack", "down", "db"}) PROVE Spec => []PendingIsOwned
<1>1. IInv /\ StatusInv => PendingIsOwned
  <2> SUFFICES ASSUME IInv, StatusInv, NEW r \in Requests, status[r] = "pending",
                      phase[r] \notin Active \cup {"gone"}
               PROVE  msg[r] \in {"sent", "ready", "unacked"}
    BY DEF PendingIsOwned
  <2>1. phase[r] \notin BeforeInsert \cup {"error", "unavailable"}
    BY DEF StatusInv, UnwrittenInv, RowExists, Without
  <2>2. phase[r] = "accepted"
    BY <2>1 DEF IInv, TypeOK, HandlerTypeOK, Phases, Ended, BeforeInsert
  <2>3. msg[r] \in Queued BY <2>2 DEF IInv, ConfirmInv, Without
  <2>4. msg[r] \notin Settled BY DEF StatusInv, TouchedInv, Without
  <2> QED BY <2>3, <2>4
<1> QED BY <1>1, StatusInvariance, PTL

(* A row that a worker has taken up and not finished has its message still *)
(* to be delivered, or delivered to a worker that holds it: a crash in the *)
(* callback leaves nothing behind that nobody will come back to.           *)
THEOREM ProcessingAlwaysOwned ==
  ASSUME Without({"down", "db", "drop"}) PROVE Spec => []ProcessingIsOwned
<1>1. IInv /\ StatusInv => ProcessingIsOwned
  BY DEF IInv, AnsweredInv, Answered, StatusInv, TouchedInv, ProcessingIsOwned, Without
<1> QED BY <1>1, StatusInvariance, PTL

(* Without the kinds of fault either of them excludes, both. *)
THEOREM UnfinishedAlwaysOwned ==
  ASSUME Without({"nack", "down", "db", "drop"}) PROVE Spec => []UnfinishedIsOwned
<1>1. Without({"nack", "down", "db"}) /\ Without({"down", "db", "drop"}) BY DEF Without
<1>2. PendingIsOwned /\ ProcessingIsOwned => UnfinishedIsOwned BY DEF UnfinishedIsOwned
<1> QED BY <1>1, <1>2, PendingAlwaysOwned, ProcessingAlwaysOwned, PTL
-----------------------------------------------------------------------------
(* Every step writes one row, with a statement that row admits, or none. *)
LEMMA RowsAreWritten ==
  ASSUME IInv, UnwrittenInv, Without({"reset"}), [Next]_vars
  PROVE  (\E r \in Requests : RowWritten(r, Sentences)) \/ UNCHANGED storeVars
<1> USE DEF RowWritten
<1>1. CASE BackendNext
  <2>1. CASE ChannelStep BY <2>1 DEF ChannelStep, Drain, Confirm, Arrive
  <2>2. CASE ChannelFault
    BY <2>2 DEF ChannelFault, SocketLost, LinkLoss, ChannelDies, ChannelGone, Nack, BackendCrash
  <2>3. ASSUME NEW r \in Requests, CreateRequest(r) \/ CreateRequestFails(r)
        PROVE  RowWritten(r, Sentences) \/ UNCHANGED storeVars
    BY <2>3 DEF CreateRequest, CreateRequestFails, UnwrittenInv, BeforeInsert
  <2>4. ASSUME NEW r \in Requests, MarkUnqueued(r) \/ MarkUnqueuedFails(r)
        PROVE  RowWritten(r, Sentences) \/ UNCHANGED storeVars
    BY <2>4 DEF MarkUnqueued, MarkUnqueuedFails, UpdateFailed, Sentences
  <2>5. ASSUME NEW r \in Requests,
               \/ Upload(r) \/ PutImage(r) \/ PutImageFails(r) \/ SendToQueue(r)
               \/ SendToFullBuffer(r) \/ Reply202(r) \/ NoChannel(r)
        PROVE  UNCHANGED storeVars
    BY <2>5 DEF Upload, PutImage, PutImageFails, SendToQueue, SendToFullBuffer, Reply202,
       NoChannel
  <2> QED BY <1>1, <2>1, <2>2, <2>3, <2>4, <2>5 DEF BackendNext, HandlerStep, HandlerFault
<1>2. ASSUME NEW w \in Workers, WorkerStep(w) \/ Disruption(w)
      PROVE  (\E r \in Requests : RowWritten(r, Sentences)) \/ UNCHANGED storeVars
  <2>1. ASSUME NEW r \in Requests,
               \/ MarkProcessing(w, r) \/ MarkProcessingFails(w, r) \/ Download(w, r)
               \/ Classify(w, r) \/ SaveSuccess(w, r) \/ SaveSuccessFails(w, r)
        PROVE  RowWritten(r, Sentences) \/ UNCHANGED storeVars
    BY <2>1 DEF MarkProcessing, MarkProcessingFails, Download, Classify, SaveSuccess,
       SaveSuccessFails
  <2>2. ASSUME NEW r \in Requests, MarkFailed(w, r) \/ MarkFailedFails(w, r)
        PROVE  RowWritten(r, Sentences) \/ UNCHANGED storeVars
    <3>1. UserMessage[error[w]] \in Sentences
      BY <2>2, UserMessageType DEF MarkFailed, MarkFailedFails, IInv, CallbackInv, Sentences
    <3> QED BY <2>2, <3>1 DEF MarkFailed, MarkFailedFails, UpdateFailed
  <2>3. CASE ConsumeStep(w) BY <2>3 DEF ConsumeStep, Open, NoticeLoss, Deliver
  <2>4. CASE \/ Ack(w) \/ Requeue(w) \/ Reject(w) \/ StorageUnreachable(w)
             \/ EngineRaises(w) \/ Disruption(w)
    BY <2>4 DEF Ack, Requeue, Reject, StorageUnreachable, EngineRaises, Disruption,
       DropConnection, Crash
  <2> QED BY <1>2, <2>1, <2>2, <2>3, <2>4 DEF WorkerStep, CallStep, CallFault
<1>3. CASE Disaster BY <1>3 DEF Disaster, WipeObjects, ComposeDown, Without
<1>4. CASE UNCHANGED vars BY <1>4 DEF vars
<1> QED BY <1>1, <1>2, <1>3, <1>4 DEF Next

(* The pipeline is an environment of the kind the pages assume, under      *)
(* every fault but an emptied database.                                    *)
THEOREM PipelineKeepsRows == ASSUME Without({"reset"}) PROVE Spec => KeepsRows
<1>1. IInv /\ StatusInv /\ [Next]_vars =>
        [\E r \in Requests : RowWritten(r, Sentences)]_storeVars
  BY RowsAreWritten DEF StatusInv
<1>2. Init => StoreInit BY DEF Init
<1> QED BY <1>1, <1>2, StatusInvariance, PTL DEF Spec, KeepsRows
-----------------------------------------------------------------------------
(* What a poll answers agrees with itself, without "crash", "drop", "nack", *)
(* "link" and "db": no redelivery of a job whose row is written, no late   *)
(* markFailed for an upload whose message the broker has all the same, no  *)
(* transaction committed by a call that failed.                            *)
THEOREM PollAlwaysCoherent == ASSUME Without(CalmKinds) PROVE Spec => []PollIsCoherent
<1>1. StatusInv => PollIsCoherent BY DEF StatusInv, CoherentInv
<1> QED BY <1>1, StatusInvariance, PTL

(* Without those five kinds there is no prediction attached to a failure.  *)
THEOREM NeverPredictionOnFailure ==
  ASSUME Without(CalmKinds) PROVE Spec => []NoPredictionOnFailure
<1>1. PollIsCoherent => NoPredictionOnFailure BY DEF PollIsCoherent, NoPredictionOnFailure
<1> QED BY <1>1, PollAlwaysCoherent, PTL

(* A status that is terminal never changes again, without "crash", "drop", *)
(* "nack", "link" and "db" (an emptied table, "reset", is no change).      *)
THEOREM TerminalStaysFinal == ASSUME Without(CalmKinds) PROVE Spec => TerminalIsFinal
<1> DEFINE Final == \A r \in Requests :
               status[r] \in Terminal /\ RowExists(r)' => status'[r] = status[r]
<1>w. Without({"db"}) BY DEF Without, CalmKinds
<1>1. IInv /\ StatusInv /\ [Next]_vars => [Final]_vars
  <2> SUFFICES ASSUME IInv, StatusInv, Next, NEW r \in Requests, status[r] \in Terminal,
                      status'[r] # "none"
               PROVE  status'[r] = status[r]
    BY DEF RowExists
  <2>t. TypeOK /\ UnpublishedInv /\ CallbackInv BY DEF IInv
  <2>1. CASE BackendNext
    <3>1. phase[r] \notin {"insert", "unqueued"}
      BY <1>w DEF StatusInv, UnwrittenInv, FinalInv, BeforeInsert, RowExists
    <3> QED BY <2>t, <2>1, <3>1, BackendMoves DEF BackendEffect
  <2>2. ASSUME NEW w \in Workers, WorkerStep(w) \/ Disruption(w)
        PROVE  status'[r] = status[r]
    <3>1. job[w] = r => pc[w] \in {"acking", "rejecting"} BY WorkedOnIsOpen DEF StatusInv
    <3> QED BY <2>t, <2>2, <3>1, StatusMoves
  <2>3. CASE Disaster
    BY <2>3 DEF Disaster, WipeObjects, ResetDatabase, ComposeDown, storeVars
  <2> QED BY <2>1, <2>2, <2>3 DEF Next
<1> QED BY <1>1, StatusInvariance, PTL DEF Spec, TerminalIsFinal
=============================================================================
