--------------------------- MODULE ContractProofs ---------------------------
(***************************************************************************)
(* The pipeline implements JobContract, for any number of uploads and      *)
(* workers and every kind of fault but a refused publish and the loss of   *)
(* the database or of the queue.                                           *)
(***************************************************************************)
EXTENDS PipelineProofs

USE DEF Messages, Places, Queued, Settled, Statuses, Terminal

(* Initially nothing is published, accepted or predicted. *)
LEMMA ContractInit == Init => Contract!Init
<1> SUFFICES ASSUME Init PROVE Contract!Init OBVIOUS
<1>1. \A r \in Requests : ContractPlace(r) = "absent"
  BY MessagesAssumption DEF Init, QueueInit, ContractPlace
<1> QED BY <1>1 DEF Init, HandlerInit, StoreInit, Contract!Init

(* The mapped state of a step that moves no message the contract sees. *)
LEMMA SamePlaces ==
  ASSUME \A r \in Requests : ContractPlace(r)' = ContractPlace(r),
         \A r \in Requests : phase'[r] = "accepted" <=> phase[r] = "accepted",
         result' = result
  PROVE  UNCHANGED Contract!vars
  BY DEF Contract!vars

(* One message moves and nothing else that the contract sees. *)
LEMMA OneMoves ==
  ASSUME NEW r \in Requests, NEW p, ContractPlace(r)' = p,
         \A q \in Requests \ {r} : ContractPlace(q)' = ContractPlace(q)
  PROVE  [q \in Requests |-> ContractPlace(q)]'
           = [[q \in Requests |-> ContractPlace(q)] EXCEPT ![r] = p]
  OBVIOUS

(* The backend takes jobs in and answers. *)
LEMMA BackendRefines ==
  ASSUME Without({"nack", "reset", "down"}), IInv, BackendNext, UNCHANGED workerVars
  PROVE  [Contract!Next]_(Contract!vars)
<1> USE DEF IInv, TypeOK, QueueTypeOK, HandlerTypeOK
<1>f. "nack" \notin Faults BY DEF Without
<1>1. ASSUME NEW r \in Requests, Arrive(r) PROVE Contract!Take(r)
  <2>1. ContractPlace(r) = "absent" /\ ContractPlace(r)' = "outstanding"
    BY <1>1 DEF Arrive, ContractPlace
  <2>2. \A q \in Requests \ {r} : ContractPlace(q)' = ContractPlace(q)
    BY <1>1 DEF Arrive, ContractPlace
  <2>3. UNCHANGED <<phase, result>> BY <1>1 DEF Arrive, handlerVars, storeVars, storageVars
  <2> QED BY <2>1, <2>2, <2>3, OneMoves DEF Contract!Take
<1>2. ASSUME NEW r \in Requests, Reply202(r) PROVE Contract!Accept(r)
  <2>1. msg[r] \in Queued BY <1>2, <1>f DEF Reply202, ConfirmInv, Without
  <2>2. ContractPlace(r) # "absent" BY <2>1 DEF ContractPlace
  <2>3. UNCHANGED <<msg, result>> BY <1>2 DEF Reply202, queueVars, storeVars, storageVars
  <2>4. \A q \in Requests : ContractPlace(q)' = ContractPlace(q) BY <2>3 DEF ContractPlace
  <2>5. phase' = [phase EXCEPT ![r] = "accepted"] /\ phase[r] = "confirm"
    BY <1>2 DEF Reply202, Goto
  <2> QED BY <2>2, <2>3, <2>4, <2>5 DEF Contract!Accept
<1>3. ASSUME NEW r \in Requests,
             \/ Confirm(r) \/ SocketLost(r) \/ Upload(r) \/ PutImage(r) \/ CreateRequest(r)
             \/ SendToQueue(r) \/ SendToFullBuffer(r) \/ MarkUnqueued(r) \/ HandlerFault(r)
      PROVE  UNCHANGED Contract!vars
  <2>1. result' = result
    BY <1>3, BackendMoves DEF BackendEffect
  <2>2. \A q \in Requests : phase'[q] = "accepted" <=> phase[q] = "accepted"
    BY <1>3 DEF Confirm, SocketLost, Upload, PutImage, CreateRequest, SendToQueue,
       SendToFullBuffer, MarkUnqueued, HandlerFault, PutImageFails, CreateRequestFails,
       MarkUnqueuedFails, NoChannel, Goto, handlerVars
  <2>3. \A q \in Requests : msg'[q] = msg[q]
            \/ (msg[q] \in {"absent", "sent"} /\ msg'[q] \in {"sent", "lost"})
    BY <1>3 DEF Confirm, SocketLost, Upload, PutImage, CreateRequest, SendToQueue,
       SendToFullBuffer, MarkUnqueued, HandlerFault, PutImageFails, CreateRequestFails,
       MarkUnqueuedFails, NoChannel, WriteToSocket, UnpublishedInv, BeforePublish, queueVars
  <2>4. \A q \in Requests : ContractPlace(q)' = ContractPlace(q) BY <2>3 DEF ContractPlace
  <2> QED BY <2>1, <2>2, <2>4, SamePlaces
<1>4. CASE Drain \/ LinkLoss \/ ChannelDies \/ BackendCrash
  <2>1. UNCHANGED <<msg, result>> BY <1>4 DEF Drain, LinkLoss, ChannelDies, ChannelGone,
     BackendCrash, queueVars, storeVars, storageVars
  <2>2. \A q \in Requests : phase'[q] = "accepted" <=> phase[q] = "accepted"
    BY <1>4 DEF Drain, LinkLoss, ChannelDies, ChannelGone, BackendCrash, Active
  <2>3. \A q \in Requests : ContractPlace(q)' = ContractPlace(q) BY <2>1 DEF ContractPlace
  <2> QED BY <2>1, <2>2, <2>3, SamePlaces
<1>5. CASE ChannelStep BY <1>1, <1>3, <1>4, <1>5 DEF ChannelStep, Contract!Next
<1>6. CASE ChannelFault BY <1>f, <1>3, <1>4, <1>6 DEF ChannelFault
<1>7. ASSUME NEW r \in Requests, Upload(r) \/ HandlerStep(r) \/ HandlerFault(r)
      PROVE  [Contract!Next]_(Contract!vars)
  BY <1>2, <1>3, <1>7 DEF HandlerStep, Contract!Next
<1> QED BY <1>5, <1>6, <1>7 DEF BackendNext

(* A worker predicts, completes and buries. *)
LEMMA WorkerRefines ==
  ASSUME Without({"nack", "reset", "down"}), IInv, NEW w \in Workers,
         WorkerStep(w) \/ Disruption(w), UNCHANGED handlerVars
  PROVE  [Contract!Next]_(Contract!vars)
<1> USE DEF IInv, TypeOK, QueueTypeOK, StoreTypeOK, WorkerTypeOK
<1>p. phase' = phase BY DEF handlerVars
<1>1. ASSUME NEW r \in Requests, SaveSuccess(w, r) \/ SaveSuccessFails(w, r)
      PROVE  [Contract!Next]_(Contract!vars)
  <2>1. msg[r] \in Queued /\ msg' = msg
    BY <1>1, MessagesAssumption DEF SaveSuccess, SaveSuccessFails, WorksOn, TakenInv, queueVars
  <2>2. \A q \in Requests : ContractPlace(q)' = ContractPlace(q) BY <2>1 DEF ContractPlace
  <2>3. ContractPlace(r) # "absent" BY <2>1 DEF ContractPlace
  <2>4. result' = result \/ result' = [result EXCEPT ![r] = TRUE]
    BY <1>1 DEF SaveSuccess, SaveSuccessFails, UpsertResult, storeVars, storageVars
  <2>5. CASE result' = result BY <1>p, <2>2, <2>5, SamePlaces
  <2>6. CASE result' = [result EXCEPT ![r] = TRUE]
    <3>1. Contract!Predict(r) BY <1>p, <2>2, <2>3, <2>6 DEF Contract!Predict
    <3> QED BY <3>1 DEF Contract!Next
  <2> QED BY <2>4, <2>5, <2>6
<1>2. CASE Ack(w) \/ Reject(w)
  <2>0. result' = result BY <1>2 DEF Ack, Reject, storeVars, storageVars
  <2>1. job[w] \in Messages BY <1>2 DEF Ack, Reject, CallbackInv
  <2>2. CASE conn[w] # "open" \/ job[w] \in Junk
    <3>1. \A q \in Requests : msg'[q] = msg[q]
      BY <1>2, <2>1, <2>2, MessagesAssumption DEF Ack, Reject, NackUnheard, Settle, queueVars
    <3>2. \A q \in Requests : ContractPlace(q)' = ContractPlace(q) BY <3>1 DEF ContractPlace
    <3> QED BY <1>p, <2>0, <3>2, SamePlaces
  <2>3. CASE conn[w] = "open" /\ job[w] \in Requests
    <3> DEFINE r == job[w]
    <3>1. msg[r] = "unacked" BY <2>1, <2>3, MessagesAssumption DEF HolderInv
    <3>2. \A q \in Requests \ {r} : msg'[q] = msg[q]
      BY <1>2, <2>3 DEF Ack, Reject, NackUnheard, Settle
    <3>3. \A q \in Requests \ {r} : ContractPlace(q)' = ContractPlace(q)
      BY <3>2 DEF ContractPlace
    <3>4. ContractPlace(r) = "outstanding" BY <3>1 DEF ContractPlace
    <3>5. CASE Ack(w)
      <4>1. msg'[r] = "acked" BY <2>3, <3>5 DEF Ack, Settle
      <4>2. result[r] BY <3>5 DEF Ack, SavedInv, Without
      <4>3. [q \in Requests |-> ContractPlace(q)]'
              = [[q \in Requests |-> ContractPlace(q)] EXCEPT ![r] = "done"]
        BY <2>3, <3>3, <4>1 DEF ContractPlace
      <4>4. Contract!Complete(r)
        BY <1>p, <2>0, <2>3, <3>4, <4>2, <4>3 DEF Contract!Complete
      <4> QED BY <2>3, <4>4 DEF Contract!Next
    <3>6. CASE Reject(w)
      <4>1. msg'[r] = "dead" BY <2>3, <3>6 DEF Reject, NackUnheard, Settle
      <4>2. [q \in Requests |-> ContractPlace(q)]'
              = [[q \in Requests |-> ContractPlace(q)] EXCEPT ![r] = "dead"]
        BY <2>3, <3>3, <4>1 DEF ContractPlace
      <4>3. Contract!Bury(r) BY <1>p, <2>0, <2>3, <3>4, <4>2 DEF Contract!Bury
      <4> QED BY <2>3, <4>3 DEF Contract!Next
    <3> QED BY <1>2, <3>5, <3>6
  <2> QED BY <2>1, <2>2, <2>3
(* Deliveries and returns move a message between ready and unacked. *)
<1>3. CASE ConsumeStep(w) \/ Requeue(w) \/ Disruption(w)
  <2>1. result' = result
    BY <1>3 DEF ConsumeStep, Open, NoticeLoss, Deliver, Requeue, Disruption, DropConnection,
       Crash, storeVars, storageVars
  <2>2. \A q \in Requests : msg'[q] = msg[q] \/ {msg[q], msg'[q]} \subseteq {"ready", "unacked"}
    BY <1>3, MessagesAssumption DEF ConsumeStep, Open, NoticeLoss, Deliver, HandOut, Requeue,
       NackUnheard, Disruption, DropConnection, Crash, TakeBack, PutBack, HolderInv, CallbackInv,
       queueVars
  <2>3. \A q \in Requests : ContractPlace(q)' = ContractPlace(q) BY <2>2 DEF ContractPlace
  <2> QED BY <1>p, <2>1, <2>3, SamePlaces
<1>4. ASSUME NEW r \in Requests,
             \/ MarkProcessing(w, r) \/ MarkProcessingFails(w, r) \/ Download(w, r)
             \/ Classify(w, r) \/ MarkFailed(w, r) \/ MarkFailedFails(w, r)
      PROVE  UNCHANGED <<msg, result>>
  BY <1>4 DEF MarkProcessing, MarkProcessingFails, Download, Classify, MarkFailed,
     MarkFailedFails, UpdateProcessing, UpdateFailed, storeVars, storageVars, queueVars
<1>5. CASE StorageUnreachable(w) \/ EngineRaises(w)
  BY <1>p, <1>5, SamePlaces DEF StorageUnreachable, EngineRaises, storeVars, storageVars, queueVars, ContractPlace
<1>6. CASE UNCHANGED <<msg, result>> BY <1>p, <1>6, SamePlaces DEF ContractPlace
<1> QED BY <1>1, <1>2, <1>3, <1>4, <1>5, <1>6 DEF WorkerStep, CallStep, CallFault

(* Every step of the pipeline is a step of the contract or a stutter. *)
LEMMA ContractStep ==
  ASSUME Without({"nack", "reset", "down"}), IInv, [Next]_vars
  PROVE  [Contract!Next]_(Contract!vars)
<1>1. CASE Disaster
  BY <1>1, SamePlaces DEF Disaster, WipeObjects, Without, storeVars, storageVars, queueVars, handlerVars,
     ContractPlace
<1>2. CASE UNCHANGED vars
  BY <1>2, SamePlaces DEF vars, storeVars, storageVars, queueVars, handlerVars, ContractPlace
<1> QED BY <1>1, <1>2, BackendRefines, WorkerRefines DEF Next

(* The pipeline keeps the contract. *)
THEOREM PipelineKeepsContract ==
  ASSUME Without({"nack", "reset", "down"}) PROVE Spec => KeepsContract
<1>1. IInv /\ [Next]_vars => [Contract!Next]_(Contract!vars) BY ContractStep
<1> QED BY <1>1, ContractInit, Invariance, PTL DEF Spec, KeepsContract, Contract!Spec
=============================================================================
