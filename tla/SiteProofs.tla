----------------------------- MODULE SiteProofs -----------------------------
(***************************************************************************)
(* The pages over the pipeline, put together from proofs of their own: the *)
(* pipeline never waits for a page, so all that is proved of it holds      *)
(* here, and it does to the rows only what the pages are proved against.   *)
(***************************************************************************)
EXTENDS Site, StatusProofs

USE DEF Messages, Places, Queued, Settled, Statuses, Terminal

(* Pages read the pipeline and change nothing in it. *)
LEMMA SiteSteps == SiteNext => [Next]_vars
BY DEF SiteNext

(* What the pipeline guarantees it guarantees with pages over it. *)
THEOREM PipelineRuns == SiteSpec => Spec
<1>1. [SiteNext]_siteVars => [Next]_vars BY SiteSteps DEF siteVars
<1>2. SiteInit => Init BY DEF SiteInit
<1> QED BY <1>1, <1>2, PTL DEF SiteSpec, Spec

LEMMA PipelineInvariance == SiteSpec => [](IInv /\ StatusInv)
BY PipelineRuns, StatusInvariance, PTL
-----------------------------------------------------------------------------
(* 202 is the last word of a handler. *)
LEMMA AcceptedStays ==
  ASSUME IInv, [Next]_vars, NEW r \in Requests, phase[r] = "accepted"
  PROVE  phase'[r] = "accepted"
<1> USE DEF IInv, TypeOK, HandlerTypeOK
<1>1. CASE BackendNext
  <2>1. CASE ChannelStep \/ ChannelFault
    BY <2>1 DEF ChannelStep, Drain, Confirm, Arrive, ChannelFault, SocketLost, LinkLoss, ChannelDies, ChannelGone,
       Nack,
       BackendCrash, Active, handlerVars
  <2>2. ASSUME NEW q \in Requests, Upload(q) \/ HandlerStep(q) \/ HandlerFault(q)
        PROVE  phase'[r] = "accepted"
    BY <2>2 DEF Upload, HandlerStep, HandlerFault, PutImage, PutImageFails, CreateRequest,
       CreateRequestFails, SendToQueue, SendToFullBuffer, Reply202, NoChannel, MarkUnqueued,
       MarkUnqueuedFails, Goto
  <2> QED BY <1>1, <2>1, <2>2 DEF BackendNext
<1>2. CASE Disaster
  BY <1>2 DEF Disaster, WipeObjects, ResetDatabase, ComposeDown, Active, handlerVars
<1>3. CASE UNCHANGED handlerVars BY <1>3 DEF handlerVars
<1> QED BY <1>1, <1>2, <1>3 DEF Next, vars

(* A message that was written once is never unwritten. *)
LEMMA WrittenStays ==
  ASSUME IInv, [Next]_vars, NEW r \in Requests, msg[r] # "absent"
  PROVE  msg'[r] # "absent"
<1>t. TypeOK /\ UnpublishedInv /\ CallbackInv /\ HolderInv BY DEF IInv
<1>1. CASE BackendNext BY <1>t, <1>1, BackendMoves DEF BackendEffect
<1>2. ASSUME NEW w \in Workers, WorkerStep(w) \/ Disruption(w) PROVE msg'[r] # "absent"
  BY <1>t, <1>2, WorkerMoves DEF WorkerEffect
<1>3. CASE Disaster
  BY <1>t, <1>3 DEF Disaster, WipeObjects, ResetDatabase, ComposeDown, queueVars, TypeOK, QueueTypeOK
<1>4. CASE UNCHANGED vars BY <1>4 DEF vars, queueVars
<1> QED BY <1>1, <1>2, <1>3, <1>4 DEF Next

(* Only with its message written does a handler wait for the channel. *)
LEMMA WaitsForWritten ==
  ASSUME IInv, [Next]_vars, NEW r \in Requests,
         phase[r] \in {"drain", "hung", "confirm", "accepted"} => msg[r] # "absent",
         phase'[r] \in {"drain", "hung", "confirm", "accepted"}
  PROVE  msg'[r] # "absent"
<1> USE DEF IInv, TypeOK, HandlerTypeOK
<1>1. SUFFICES ASSUME phase[r] \notin {"drain", "hung", "confirm", "accepted"}
               PROVE  msg'[r] # "absent"
  BY WrittenStays
<1>2. CASE BackendNext
  <2>1. CASE ChannelStep \/ ChannelFault
    BY <1>1, <2>1 DEF ChannelStep, Drain, Confirm, Arrive, ChannelFault, SocketLost, LinkLoss, ChannelDies, ChannelGone,
       Nack,
       BackendCrash, Active, handlerVars
  <2>2. ASSUME NEW q \in Requests, Upload(q) \/ HandlerStep(q) \/ HandlerFault(q)
        PROVE  msg'[r] # "absent"
    BY <1>1, <2>2 DEF Upload, HandlerStep, HandlerFault, PutImage, PutImageFails, CreateRequest,
       CreateRequestFails, SendToQueue, SendToFullBuffer, WriteToSocket, Reply202, NoChannel,
       MarkUnqueued, MarkUnqueuedFails, Goto, QueueTypeOK
  <2> QED BY <1>2, <2>1, <2>2 DEF BackendNext
<1>3. CASE Disaster
  BY <1>1, <1>3 DEF Disaster, WipeObjects, ResetDatabase, ComposeDown, Active, handlerVars
<1>4. CASE UNCHANGED handlerVars BY <1>1, <1>4 DEF handlerVars
<1> QED BY <1>2, <1>3, <1>4 DEF Next, vars
-----------------------------------------------------------------------------
(* What a step of the upload page does to its two ids.                     *)
LEMMA IdMoves ==
  ASSUME UploadPageStep
  PROVE  \/ UNCHANGED <<requestId, post>>
         \/ requestId' = Null /\ post' \in {post, Null} \cup Requests
         \/ requestId' = requestId /\ post' = Null
         \/ Accepted /\ requestId' = post /\ post' = Null
<1> USE DEF Page!formVars
<1>1. ASSUME NEW f \in Files, Page!SelectFile(f) PROVE requestId' = Null /\ post' = post
  BY <1>1 DEF Page!SelectFile
<1>2. ASSUME Page!RejectFile \/ Page!Mount PROVE UNCHANGED <<requestId, post>>
  BY <1>2 DEF Page!RejectFile, Page!Mount
<1>3. ASSUME Page!HandleReset PROVE requestId' = Null /\ post' = post BY <1>3 DEF Page!HandleReset
<1>4. ASSUME Page!Unmount PROVE requestId' = Null /\ post' = Null
  BY <1>4 DEF Page!Unmount, Page!StateLost
<1>5. ASSUME Page!RunEffects PROVE UNCHANGED <<requestId, post>> BY <1>5 DEF Page!RunEffects
<1>6. ASSUME Submit PROVE requestId' = Null /\ post' \in Requests BY <1>6 DEF Submit, Page!Post
<1>7. ASSUME Accepted PROVE requestId' = post /\ post' = Null BY <1>7 DEF Accepted, Page!TakeId
<1>8. ASSUME Refused PROVE requestId' = requestId /\ post' = Null
  BY <1>8 DEF Refused, Page!UploadFails
<1>9. ASSUME NEW r \in Requests,
             Page!FindOne(r) \/ Page!Landed(r) \/ Page!TimerFires(r) \/ Page!Expire(r)
      PROVE  UNCHANGED <<requestId, post>>
  BY <1>9 DEF Page!FindOne, Page!Landed, Page!Continue, Page!PollFails, Page!TimerFires, Page!Expire
<1> QED BY <1>1, <1>2, <1>3, <1>4, <1>5, <1>6, <1>7, <1>8, <1>9 DEF UploadPageStep

(* AnsweredIdInv: a page that has an id has it from a handler's last word. *)
LEMMA AnsweredIdStep ==
  ASSUME IInv, AnsweredIdInv, [SiteNext]_siteVars
  PROVE  AnsweredIdInv'
<1> USE DEF AnsweredIdInv
<1>1. [Next]_vars BY SiteSteps DEF siteVars
<1>2. \A r \in Requests :
        phase'[r] \in {"drain", "hung", "confirm", "accepted"} => msg'[r] # "absent"
  BY <1>1, WaitsForWritten
<1>3. \A r \in Requests : phase[r] = "accepted" => phase'[r] = "accepted" BY <1>1, AcceptedStays
<1>4. CASE UNCHANGED <<requestId, post>>
  BY <1>2, <1>3, <1>4
<1>5. CASE UploadPageStep
  BY <1>2, <1>3, <1>4, <1>5, IdMoves DEF Accepted
<1> QED BY <1>4, <1>5 DEF SiteNext, siteVars, uploadPage
-----------------------------------------------------------------------------
(* A statement of the backend changes one row.                             *)
LEMMA OtherRows ==
  ASSUME StoreTypeOK, NEW q \in Requests, NEW r \in Requests, q # r,
         InsertPending(q) \/ UpdateFailed(q, "not queued") \/ UNCHANGED storeVars
  PROVE  /\ status'[r] = status[r] /\ result'[r] = result[r]
         /\ errorMessage'[r] = errorMessage[r]
BY DEF StoreTypeOK, InsertPending, UpdateFailed, RowExists, storeVars

(* Without CalmKinds and "reset" nothing a poll answers of a finished job  *)
(* changes.                                                                *)
LEMMA FinishedStays ==
  ASSUME IInv, StatusInv, [Next]_vars, Without(CalmKinds \cup {"reset"}),
         NEW r \in Requests, status[r] \in Terminal
  PROVE  JobDto(r)' = JobDto(r)
<1>t. TypeOK /\ UnpublishedInv /\ CallbackInv BY DEF IInv
<1>w. Without(CalmKinds) /\ Without({"db"}) /\ "reset" \notin Faults BY DEF Without, CalmKinds
<1> SUFFICES status'[r] = status[r] /\ result'[r] = result[r] /\ errorMessage'[r] = errorMessage[r]
  BY DEF JobDto
<1>1. CASE BackendNext
  <2>1. phase[r] \notin {"insert", "unqueued"}
    BY <1>w DEF StatusInv, UnwrittenInv, FinalInv, BeforeInsert, RowExists
  <2>2. CASE ChannelStep \/ ChannelFault
    BY <2>2 DEF ChannelStep, Drain, Confirm, Arrive, ChannelFault, SocketLost, LinkLoss, ChannelDies, ChannelGone,
       Nack,
       BackendCrash, storeVars
  <2>3. ASSUME NEW q \in Requests, CreateRequest(q) \/ CreateRequestFails(q)
        PROVE  q # r /\ (InsertPending(q) \/ UNCHANGED storeVars)
    BY <2>1, <2>3 DEF CreateRequest, CreateRequestFails
  <2>4. ASSUME NEW q \in Requests, MarkUnqueued(q) \/ MarkUnqueuedFails(q)
        PROVE  q # r /\ (UpdateFailed(q, "not queued") \/ UNCHANGED storeVars)
    BY <2>1, <2>4 DEF MarkUnqueued, MarkUnqueuedFails
  <2>5. ASSUME NEW q \in Requests,
               \/ Upload(q) \/ PutImage(q) \/ PutImageFails(q) \/ NoChannel(q)
               \/ SendToQueue(q) \/ SendToFullBuffer(q) \/ Reply202(q)
        PROVE  UNCHANGED storeVars
    BY <2>5 DEF Upload, PutImage, PutImageFails, NoChannel, SendToQueue, SendToFullBuffer, Reply202
  <2>6. ASSUME NEW q \in Requests, q # r,
               InsertPending(q) \/ UpdateFailed(q, "not queued") \/ UNCHANGED storeVars
        PROVE  /\ status'[r] = status[r] /\ result'[r] = result[r]
               /\ errorMessage'[r] = errorMessage[r]
    BY <1>t, <2>6, OtherRows DEF TypeOK
  <2> QED BY <1>1, <2>2, <2>3, <2>4, <2>5, <2>6
          DEF BackendNext, HandlerStep, HandlerFault, storeVars
<1>2. ASSUME NEW w \in Workers, WorkerStep(w) \/ Disruption(w)
      PROVE  status'[r] = status[r] /\ result'[r] = result[r] /\ errorMessage'[r] = errorMessage[r]
  <2>1. job[w] = r => pc[w] \in {"acking", "rejecting"}
    BY <1>w, WorkedOnIsOpen DEF StatusInv
  <2> QED BY <1>t, <1>2, <2>1, RowMoves
<1>3. CASE Disaster
  BY <1>w, <1>3 DEF Disaster, WipeObjects, ResetDatabase, ComposeDown, storeVars
<1>4. CASE UNCHANGED vars BY <1>4 DEF vars, storeVars
<1> QED BY <1>1, <1>2, <1>3, <1>4 DEF Next

(* What stands goes on standing whatever the pipeline does...              *)
LEMMA AnswersStandOn ==
  ASSUME IInv, StatusInv, AnswersStandInv, [Next]_vars,
         UNCHANGED <<response, state, answer, items>>
  PROVE  AnswersStandInv'
<1> USE DEF AnswersStandInv
<1> SUFFICES ASSUME Without(CalmKinds \cup {"reset"})
             PROVE  /\ \A r \in Requests : Stands(response[r])'
                    /\ Stands(state.job)'
                    /\ \A n \in Loads : ListStands(answer[n])'
                    /\ ListStands(items)'
  BY DEF Without
<1>1. \A r \in Requests : status[r] \in Terminal => JobDto(r)' = JobDto(r) BY FinishedStays
<1>2. \A r \in Requests : status[r] \in Terminal => status'[r] \in Terminal
  BY <1>1 DEF JobDto
<1>3. ASSUME NEW a \in Page!Jobs \cup {Null}, a # Null, a.dto.status \in Terminal,
             a.dto = JobDto(a.requestId)
      PROVE  a.dto = JobDto(a.requestId)'
  BY <1>1, <1>3 DEF Page!Jobs, JobDto
<1>4. ASSUME NEW a \in Page!Jobs \cup {Null},
             a # Null /\ a.dto.status \in Terminal => a.dto = JobDto(a.requestId)
      PROVE  a # Null /\ a.dto.status \in Terminal => a.dto = JobDto(a.requestId)'
  BY <1>3, <1>4
<1>5. \A r \in Requests : Stands(response[r])' BY <1>4 DEF Stands
<1>6. Stands(state.job)' BY <1>4 DEF Stands
<1>7. (\A n \in Loads : ListStands(answer[n]))' /\ ListStands(items)' BY <1>2 DEF ListStands
<1> QED BY <1>5, <1>6, <1>7

(* ... and what the pages read from the rows stands as it is read, and as   *)
(* it is passed on.                                                        *)
LEMMA AnswersPassedOn ==
  ASSUME AnswersStandInv, UNCHANGED storeVars,
         response' \in [Requests -> Page!Jobs \cup {Null}],
         answer' \in [Loads -> List!Lists \cup {Null}],
         \A r \in Requests :
            \/ response'[r] \in {response[r], Null}
            \/ response'[r] = [requestId |-> r, dto |-> JobDto(r)],
         \/ state'.job \in {state.job, Null}
         \/ \E r \in Requests : state'.job = response[r],
         \A n \in Loads : answer'[n] \in {answer[n], Null, List!ListNow},
         items' \in {items, Null} \/ \E n \in Loads : items' = answer[n]
  PROVE  AnswersStandInv'
<1> USE DEF AnswersStandInv
<1>1. status' = status /\ result' = result /\ errorMessage' = errorMessage BY DEF storeVars
<1>2. state'.job \in Page!Jobs \cup {Null} OBVIOUS
<1> SUFFICES ASSUME Without(CalmKinds \cup {"reset"})
             PROVE  /\ \A r \in Requests : Stands(response[r])'
                    /\ Stands(state.job)'
                    /\ \A n \in Loads : ListStands(answer[n])'
                    /\ ListStands(items)'
  BY <1>2 DEF Without
<1>3. ASSUME NEW r \in Requests PROVE Stands(response[r])'
  BY <1>1, <1>3 DEF Stands, JobDto
<1>4. Stands(state.job)'
  <2>1. CASE state'.job \in {state.job, Null} BY <1>1, <2>1 DEF Stands, JobDto
  <2>2. ASSUME NEW r \in Requests, state'.job = response[r] PROVE Stands(state.job)'
    <3>1. Stands(response[r]) OBVIOUS
    <3> QED BY <1>1, <2>2, <3>1 DEF Stands, JobDto
  <2> QED BY <2>1, <2>2
<1>5. \A r \in Requests : List!ListNow[r] = "finished" => status[r] \in Terminal
  BY DEF List!ListNow, List!Terminal, List!RowExists
<1>6. ASSUME NEW n \in Loads PROVE ListStands(answer[n])'
  BY <1>1, <1>5, <1>6 DEF ListStands
<1>7. ListStands(items)' BY <1>1 DEF ListStands
<1> QED BY <1>3, <1>4, <1>6, <1>7

(* The upload page: FindOne reads a row, Continue passes on what was read. *)
LEMMA UploadPageStands ==
  ASSUME StoreTypeOK, AnswersStandInv, UploadPageStep, UNCHANGED <<storeVars, historyPage>>
  PROVE  AnswersStandInv'
<1> USE DEF AnswersStandInv, historyPage
<1>1. CASE UNCHANGED <<response, state>> BY <1>1, AnswersPassedOn
<1>2. ASSUME NEW r \in Requests, Page!FindOne(r) PROVE AnswersStandInv'
  <2> DEFINE told == [requestId |-> r, dto |-> JobDto(r)]
  <2>1. told \in Page!Jobs
    BY <1>2 DEF Page!FindOne, Page!RowExists, Page!Jobs, Page!Statuses, Page!Sentences,
       Page!WorkerSentences, Sentences, WorkerSentences, JobDto, StoreTypeOK
  <2>2. response' = [response EXCEPT ![r] = told] /\ state' = state
    BY <1>2 DEF Page!FindOne, Page!JobDto, JobDto
  <2> QED BY <2>1, <2>2, AnswersPassedOn
<1>3. ASSUME NEW r \in Requests, Page!Landed(r) PROVE AnswersStandInv'
  <2>1. response' = [response EXCEPT ![r] = Null]
    BY <1>3 DEF Page!Landed, Page!Continue, Page!PollFails
  <2>2. state'.job \in {state.job, response[r], Null}
    BY <1>3 DEF Page!Landed, Page!Continue, Page!PollFails, Page!Drop, Page!TakeUp, Page!Settle,
       Page!Keep
  <2> QED BY <2>1, <2>2, AnswersPassedOn
<1>4. CASE Page!Unmount
  <2>1. response' = response /\ state'.job = Null
    BY <1>4 DEF Page!Unmount, Page!StateLost, Page!Idle
  <2> QED BY <2>1, AnswersPassedOn
<1> USE DEF Page!hookVars
<1>5. ASSUME \/ \E f \in Files : Page!SelectFile(f)
             \/ Page!RejectFile \/ Page!HandleReset \/ Page!Mount \/ Page!RunEffects
             \/ Submit \/ Accepted \/ Refused
             \/ \E r \in Requests : Page!TimerFires(r) \/ Page!Expire(r)
      PROVE  UNCHANGED <<response, state>>
  BY <1>5 DEF Page!SelectFile, Page!RejectFile, Page!HandleReset, Page!Mount, Page!RunEffects,
     Submit, Page!Post, Accepted, Page!TakeId, Refused, Page!UploadFails, Page!TimerFires,
     Page!Expire
<1> QED BY <1>1, <1>2, <1>3, <1>4, <1>5 DEF UploadPageStep

(* The history page: ListRequests reads the rows, Show passes them on.     *)
LEMMA HistoryPageStands ==
  ASSUME AnswersStandInv, HistoryPageStep, UNCHANGED <<storeVars, uploadPage>>
  PROVE  AnswersStandInv'
<1> USE DEF AnswersStandInv, uploadPage
<1>1. response' = response /\ state' = state OBVIOUS
<1>2. CASE UNCHANGED answer /\ items' \in {items, Null} BY <1>1, <1>2, AnswersPassedOn
<1>3. ASSUME NEW n \in Loads, List!ListRequests(n) PROVE AnswersStandInv'
  <2>1. List!ListNow \in List!Lists BY DEF List!ListNow, List!Lists
  <2>2. answer' = [answer EXCEPT ![n] = List!ListNow] /\ items' = items
    BY <1>3 DEF List!ListRequests
  <2> QED BY <1>1, <2>1, <2>2, AnswersPassedOn
<1>4. ASSUME NEW n \in Loads, List!Show(n) \/ List!LoadFails(n) PROVE AnswersStandInv'
  <2>1. answer' = [answer EXCEPT ![n] = Null] BY <1>4 DEF List!Show, List!LoadFails, List!End
  <2>2. items' \in {items, answer[n]} BY <1>4 DEF List!Show, List!LoadFails
  <2> QED BY <1>1, <2>1, <2>2, AnswersPassedOn
<1>5. ASSUME \/ List!Unmount
             \/ \E n \in Loads : List!Mount(n) \/ List!Reload(n) \/ List!TimerFires(n)
      PROVE  UNCHANGED answer /\ items' \in {items, Null}
  BY <1>5 DEF List!Unmount, List!Mount, List!Reload, List!TimerFires, List!Start
<1> QED BY <1>2, <1>3, <1>4, <1>5 DEF HistoryPageStep
-----------------------------------------------------------------------------
LEMMA InitSite == SiteInit => SiteInv
<1> SUFFICES ASSUME SiteInit PROVE SiteInv OBVIOUS
<1> USE DEF SiteInit, Page!PageInit, List!Init
<1>1. AnsweredIdInv BY DEF AnsweredIdInv, Init, HandlerInit
<1>2. AnswersStandInv BY DEF AnswersStandInv, Stands, ListStands, Page!Idle
<1> QED BY <1>1, <1>2 DEF SiteInv

(* SiteInv is an invariant of the pipeline with its pages. *)
THEOREM SiteInvariance == SiteSpec => [](IInv /\ StatusInv /\ SiteInv)
<1>1. IInv /\ StatusInv /\ SiteInv /\ [SiteNext]_siteVars => SiteInv'
  <2> SUFFICES ASSUME IInv, StatusInv, SiteInv, [SiteNext]_siteVars PROVE SiteInv' OBVIOUS
  <2>1. AnsweredIdInv' BY AnsweredIdStep DEF SiteInv
  <2>2. StoreTypeOK /\ AnswersStandInv BY DEF IInv, TypeOK, SiteInv
  <2>3. CASE UNCHANGED <<uploadPage, historyPage>>
    <3>1. UNCHANGED <<response, state, answer, items>> BY <2>3 DEF uploadPage, historyPage
    <3>2. [Next]_vars BY SiteSteps DEF siteVars
    <3> QED BY <2>1, <2>2, <3>1, <3>2, AnswersStandOn DEF SiteInv
  <2>4. CASE UploadPageStep /\ UNCHANGED <<vars, newest, historyPage>>
    BY <2>1, <2>2, <2>4, UploadPageStands DEF vars, SiteInv
  <2>5. CASE HistoryPageStep /\ UNCHANGED <<vars, uploadPage>>
    BY <2>1, <2>2, <2>5, HistoryPageStands DEF vars, SiteInv
  <2> QED BY <2>3, <2>4, <2>5 DEF SiteNext, siteVars
<1> QED BY <1>1, InitSite, PipelineInvariance, PTL DEF SiteSpec

(* Who looks at a spinner is waited for by a message. *)
THEOREM SpinnerAlwaysOwned ==
  ASSUME Without({"nack", "down", "db", "drop", "reset"}) PROVE SiteSpec => []SpinnerIsOwned
<1>1. IInv /\ SiteInv => SpinnerIsOwned
  <2> SUFFICES ASSUME IInv, SiteInv, requestId # Null
               PROVE  \/ status[requestId] \in Terminal
                      \/ msg[requestId] \in {"ready", "unacked"}
    BY DEF SpinnerIsOwned, Page!IsPolling
  <2>1. requestId \in Requests /\ phase[requestId] = "accepted" BY DEF SiteInv, AnsweredIdInv
  <2>2. msg[requestId] \in Queued BY <2>1 DEF IInv, ConfirmInv, Without
  <2>3. RowExists(requestId) BY <2>1, <2>2 DEF IInv, RowInv, Without
  <2>4. msg[requestId] \in Settled => Answered(requestId)
    BY <2>1 DEF IInv, AnsweredInv, Without
  <2> QED BY <2>2, <2>3, <2>4 DEF Answered, RowExists
<1> QED BY <1>1, SiteInvariance, PTL

(* No page takes back the end of a job, without "crash", "drop", "nack",   *)
(* "link", "db" and "reset".                                               *)
THEOREM OutcomeAlwaysFinal ==
  ASSUME Without(CalmKinds \cup {"reset"}) PROVE SiteSpec => []OutcomeIsFinal
<1>1. SiteInv => OutcomeIsFinal BY DEF SiteInv, AnswersStandInv, OutcomeIsFinal
<1> QED BY <1>1, SiteInvariance, PTL

(* Together with what a poll answers: what the pages tell is so, without   *)
(* those six kinds and "down".                                             *)
THEOREM PagesAlwaysTellTheTruth ==
  ASSUME Without(CalmKinds \cup {"reset", "down"}) PROVE SiteSpec => []PagesTellTheTruth
<1>1. /\ Without(CalmKinds) /\ Without(CalmKinds \cup {"reset"})
      /\ Without({"nack", "down", "db", "drop", "reset"})
  BY DEF Without, CalmKinds
<1>2. SiteSpec => []PollIsCoherent BY <1>1, PipelineRuns, PollAlwaysCoherent, PTL
<1>3. SiteSpec => []SpinnerIsOwned BY <1>1, SpinnerAlwaysOwned
<1>4. SiteSpec => []OutcomeIsFinal BY <1>1, OutcomeAlwaysFinal
<1>5. SpinnerIsOwned /\ OutcomeIsFinal /\ PollIsCoherent => PagesTellTheTruth
  BY DEF PagesTellTheTruth
<1> QED BY <1>2, <1>3, <1>4, <1>5, PTL
-----------------------------------------------------------------------------
(* A statement keeps the rows there are; one that inserts r adds no other. *)
LEMMA NewRowIsNewest ==
  ASSUME StoreTypeOK, NEW r \in Requests, RowWritten(r, Sentences),
         RowsInOrder \/ UNCHANGED <<vars, newest>>
  PROVE  newest' = IF RowExists(r) THEN newest ELSE List!Push(r)
<1>1. /\ \A q \in Requests : q # r => (RowExists(q)' <=> RowExists(q))
      /\ RowExists(r)'
  BY DEF RowWritten, InsertPending, UpdateProcessing, UpsertResult, UpdateFailed, RowExists,
     StoreTypeOK, Statuses
<1>2. CASE UNCHANGED <<vars, newest>> BY <1>1, <1>2 DEF vars, storeVars, RowExists
<1>3. CASE RowsInOrder BY <1>1, <1>3 DEF RowsInOrder
<1> QED BY <1>2, <1>3

(* A step of the pipeline is one the page modules allow in the rows.       *)
LEMMA PipelineWrites ==
  ASSUME IInv, StatusInv, Without({"reset"}), [Next]_vars,
         RowsInOrder \/ UNCHANGED <<vars, newest>>,
         UNCHANGED <<uploadPage, historyPage>>
  PROVE  [Page!Next]_(Page!vars) /\ [List!Next]_(List!vars)
<1>1. CASE UNCHANGED storeVars
  <2>1. \A r \in Requests : RowExists(r)' <=> RowExists(r) BY <1>1 DEF storeVars, RowExists
  <2>2. newest' = newest BY <2>1 DEF RowsInOrder
  <2> QED
    BY <1>1, <2>2 DEF Page!vars, Page!storeVars, Page!pageVars, Page!formVars, Page!pictureVars,
       Page!hookVars, List!vars, List!rowVars, List!storeVars, List!pageVars, storeVars, uploadPage,
       historyPage
<1>2. ASSUME NEW r \in Requests, RowWritten(r, Sentences)
      PROVE  Page!RowChanges(r) /\ List!RowChanges(r)
  <2>1. Page!RowWritten(r, Sentences)
    BY <1>2 DEF RowWritten, InsertPending, UpdateProcessing, UpsertResult, UpdateFailed, RowExists,
       storeVars, Page!RowWritten, Page!InsertPending, Page!UpdateProcessing, Page!UpsertResult,
       Page!UpdateFailed, Page!RowExists, Page!storeVars
  <2>2. List!RowWritten(r, Sentences)
    BY <1>2 DEF RowWritten, InsertPending, UpdateProcessing, UpsertResult, UpdateFailed, RowExists,
       storeVars, List!RowWritten, List!InsertPending, List!UpdateProcessing, List!UpsertResult,
       List!UpdateFailed, List!RowExists, List!storeVars
  <2>3. newest' = IF RowExists(r) THEN newest ELSE List!Push(r)
    BY <1>2, NewRowIsNewest DEF IInv, TypeOK
  <2> QED
    BY <2>1, <2>2, <2>3 DEF Page!RowChanges, Page!pageVars, Page!formVars, Page!pictureVars,
       Page!hookVars, List!RowChanges, List!RowExists, RowExists, List!pageVars, uploadPage,
       historyPage
<1>3. (\E r \in Requests : RowWritten(r, Sentences)) \/ UNCHANGED storeVars
  BY RowsAreWritten DEF StatusInv
<1> QED BY <1>1, <1>2, <1>3 DEF Page!Next, List!Next

(* An id is drawn for an upload that has no row, and answered when it has. *)
LEMMA UploadPageActs ==
  ASSUME IInv, StatusInv, SiteInv, Without({"reset"}), UploadPageStep
  PROVE  Page!Next
<1>1. ASSUME Submit PROVE \E r \in Requests : Page!HandleSubmit(r)
  <2>1. PICK r \in Requests : phase[r] = "idle" /\ Page!Post(r) BY <1>1 DEF Submit
  <2>2. status[r] = "none" BY <2>1 DEF StatusInv, UnwrittenInv, BeforeInsert, RowExists
  <2> QED BY <2>1, <2>2 DEF Page!HandleSubmit
<1>2. ASSUME Accepted PROVE Page!UploadAccepted
  <2>1. post \in Requests /\ phase[post] = "accepted" /\ Page!TakeId /\ post # Null
    BY <1>2 DEF Accepted, SiteInv, AnsweredIdInv
  <2>2. msg[post] # "absent" BY <2>1 DEF SiteInv, AnsweredIdInv
  <2>3. RowExists(post) BY <2>1, <2>2 DEF IInv, RowInv
  <2> QED BY <2>1, <2>3 DEF Page!UploadAccepted, Page!RowExists, RowExists
<1> QED BY <1>1, <1>2 DEF UploadPageStep, Refused, Page!Next, Page!User

(* The pipeline is an environment of either page. *)
THEOREM PipelineKeepsPages == ASSUME Without({"reset"}) PROVE SiteSpec => KeepsPages
<1>1. SiteInit => Page!Init /\ List!Init
  BY DEF SiteInit, Init, StoreInit, Page!Init, Page!StoreInit
<1>2. IInv /\ StatusInv /\ SiteInv /\ [SiteNext]_siteVars
        => [Page!Next]_(Page!vars) /\ [List!Next]_(List!vars)
  <2> SUFFICES ASSUME IInv, StatusInv, SiteInv, [SiteNext]_siteVars
               PROVE  [Page!Next]_(Page!vars) /\ [List!Next]_(List!vars)
    OBVIOUS
  <2> USE DEF Page!vars, Page!storeVars, Page!pageVars, Page!formVars, Page!pictureVars,
              Page!hookVars, List!vars, List!rowVars, List!storeVars, List!pageVars, storeVars,
              uploadPage, historyPage
  <2>1. CASE UNCHANGED <<uploadPage, historyPage>>
    <3>1. [Next]_vars BY SiteSteps DEF siteVars
    <3>2. CASE RowsInOrder \/ UNCHANGED <<vars, newest>> BY <2>1, <3>1, <3>2, PipelineWrites
    <3>3. CASE UploadPageStep /\ UNCHANGED <<vars, newest, historyPage>> BY <2>1, <3>3 DEF vars
    <3>4. CASE HistoryPageStep /\ UNCHANGED <<vars, uploadPage>>
      BY <2>1, <3>4 DEF vars, HistoryPageStep, List!Next
    <3> QED BY <3>2, <3>3, <3>4 DEF SiteNext, siteVars
  <2>2. CASE UploadPageStep /\ UNCHANGED <<vars, newest, historyPage>>
    <3>1. Page!Next BY <2>2, UploadPageActs
    <3>2. UNCHANGED List!vars BY <2>2 DEF vars
    <3> QED BY <3>1, <3>2
  <2>3. CASE HistoryPageStep /\ UNCHANGED <<vars, uploadPage>>
    <3>1. List!Next BY <2>3 DEF HistoryPageStep, List!Next
    <3>2. UNCHANGED Page!vars BY <2>3 DEF vars
    <3> QED BY <3>1, <3>2
  <2> QED BY <2>1, <2>2, <2>3 DEF SiteNext, siteVars
<1> QED BY <1>1, <1>2, SiteInvariance, PTL DEF SiteSpec, KeepsPages, Page!Spec, List!Spec
=============================================================================
