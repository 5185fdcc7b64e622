---------------------------- MODULE ClassifyPage ----------------------------
(***************************************************************************)
(* The upload page of the frontend and useInferenceJob, the hook it polls  *)
(* with.  A step is one event handler, one continuation of a fetch or a    *)
(* timer, or the effects of one render.  A request id is drawn once, so    *)
(* the effect that polls it runs once.                                     *)
(***************************************************************************)
EXTENDS JobStore

CONSTANTS
    Null,
    Files    \* the File objects the picker can hand out

ASSUME NullAssumption == Null \notin Requests \cup Files

VARIABLES
    mounted,       \* the route is "/"
    file,          \* the File that is picked
    requestId,     \* the useState of ClassifyPage
    isUploading,   \* the same
    uploadError,   \* the same; whether there is a sentence in it
    post,          \* the id the upload in flight is given
    pictured,      \* the file the preview effect of the last render ran with
    preview,       \* the source in the preview state; a URL is known by its file
    urls,          \* the object URLs that are not revoked
    installed,     \* the requestId the effect of the last render ran with
    poll,          \* poll[r]: where the effect of r stands
    response,      \* response[r]: the answer on its way to it
    cancelled,     \* the effects torn down
    expired,       \* the effects older than POLL_TIMEOUT_MS
    state          \* the PollState

formVars == <<mounted, file, requestId, isUploading, uploadError, post>>
pictureVars == <<pictured, preview, urls>>
hookVars == <<installed, poll, response, cancelled, expired, state>>
pageVars == <<formVars, pictureVars, hookVars>>

Ids == Requests \cup {Null}

Idle == [requestId |-> Null, job |-> Null, error |-> "none", settled |-> TRUE]

Jobs == [requestId : Requests, dto : [status : Statuses, prediction : BOOLEAN,
                                      errorMessage : Sentences \cup {"null"}]]

ASSUME NoJobAssumption == Null \notin Jobs

PageTypeOK ==
    /\ {mounted, isUploading, uploadError} \subseteq BOOLEAN
    /\ {file, pictured, preview} \subseteq Files \cup {Null}
    /\ urls \subseteq Files
    /\ {requestId, post, installed} \subseteq Ids
    /\ poll \in [Requests -> {"off", "fetching", "answered", "waiting"}]
    /\ response \in [Requests -> Jobs \cup {Null}]
    /\ cancelled \subseteq Requests
    /\ expired \subseteq Requests
    /\ state.requestId \in Ids
    /\ state.job \in Jobs \cup {Null}
    /\ state.error \in {"none", "timeout", "contact"}
    /\ state.settled \in BOOLEAN

PageInit ==
    /\ mounted = TRUE
    /\ file = Null
    /\ requestId = Null
    /\ isUploading = FALSE
    /\ uploadError = FALSE
    /\ post = Null
    /\ pictured = Null
    /\ preview = Null
    /\ urls = {}
    /\ installed = Null
    /\ poll = [r \in Requests |-> "off"]
    /\ response = [r \in Requests |-> Null]
    /\ cancelled = {}
    /\ expired = {}
    /\ state = Idle
-----------------------------------------------------------------------------
(* What the hook returns, and what the page makes of it. *)
DescribesCurrentRequest == state.requestId = requestId

(* Mutant: what is in the state is returned, whatever request it is about. *)
StoredJob == state.job

Job == IF DescribesCurrentRequest THEN state.job ELSE Null

PollError == IF DescribesCurrentRequest THEN state.error ELSE "none"

IsPolling == requestId # Null /\ (~DescribesCurrentRequest \/ ~state.settled)

Busy == isUploading \/ IsPolling

ShowsPrediction ==
    Job # Null /\ Job.dto.status = "completed" /\ Job.dto.prediction

ShowsError ==
    \/ uploadError
    \/ PollError # "none"
    \/ Job # Null /\ Job.dto.status = "failed"

(* "Derived rather than cleared": the URL the ImagePicker shows. *)
PreviewUrl == IF file # Null /\ preview = file THEN preview ELSE Null

(* React runs the effects of a render before it starts on another one. *)
Rendered == mounted /\ installed = requestId /\ pictured = file
-----------------------------------------------------------------------------
(* accept() of the ImagePicker, which is disabled when busy: a file of a    *)
(* type and size it takes.  Every pick makes a File object of its own.     *)
SelectFile(f) ==
    /\ Rendered
    /\ ~Busy
    /\ f \notin {file, preview}
    /\ file' = f
    /\ requestId' = Null
    /\ uploadError' = FALSE
    /\ UNCHANGED <<storeVars, hookVars, pictureVars, mounted, isUploading, post>>

RejectFile ==
    /\ Rendered
    /\ ~Busy
    /\ uploadError' = TRUE
    /\ UNCHANGED <<storeVars, hookVars, pictureVars, mounted, file, requestId, isUploading, post>>

HandleReset ==
    /\ Rendered
    /\ ~Busy
    /\ file # Null \/ requestId # Null
    /\ file' = Null
    /\ requestId' = Null
    /\ uploadError' = FALSE
    /\ UNCHANGED <<storeVars, hookVars, pictureVars, mounted, isUploading, post>>

Post(r) ==
    /\ Rendered
    /\ file # Null
    /\ ~Busy
    /\ post' = r
    /\ isUploading' = TRUE
    /\ uploadError' = FALSE
    /\ requestId' = Null
    /\ UNCHANGED <<storeVars, hookVars, pictureVars, mounted, file>>

(* The id is drawn for this upload. *)
HandleSubmit(r) == status[r] = "none" /\ Post(r)

(* The page is given its id. *)
TakeId ==
    /\ Rendered
    /\ requestId' = post
    /\ isUploading' = FALSE
    /\ post' = Null
    /\ UNCHANGED <<storeVars, hookVars, pictureVars, mounted, file, uploadError>>

(* The 202; by now a worker may have done anything to the row. *)
UploadAccepted == post # Null /\ RowExists(post) /\ TakeId

(* An error response, or none; the row may be there all the same. *)
UploadFails ==
    /\ Rendered
    /\ post # Null
    /\ uploadError' = TRUE
    /\ isUploading' = FALSE
    /\ post' = Null
    /\ UNCHANGED <<storeVars, hookVars, pictureVars, mounted, file, requestId>>
-----------------------------------------------------------------------------
(* The cleanup of the effect that is installed: its fetch is aborted, what *)
(* it still brings will be dropped, and its timer is cleared.  The time an *)
(* effect has left is of no more interest once it is torn down or over.    *)
TornDown ==
    cancelled \cup {r \in Requests : r = installed /\ poll[r] \in {"fetching", "answered"}}

TimerCleared ==
    [r \in Requests |->
        IF r = installed /\ poll[r] = "waiting" THEN "off" ELSE poll[r]]

(* Mutant: the URL of the old file is not revoked. *)
KeepOldUrl ==
    /\ pictured' = file
    /\ IF file = Null \/ file = pictured
       THEN UNCHANGED <<preview, urls>>
       ELSE preview' = file /\ urls' = urls \cup {file}

(* Mutant: a URL is also made when there is no file. *)
UrlOfNothing ==
    /\ pictured' = file
    /\ IF file = pictured
       THEN UNCHANGED <<preview, urls>>
       ELSE preview' = file /\ urls' = (urls \ {pictured}) \cup {file}

(* The preview effect, when the render has another file: the cleanup       *)
(* revokes the URL of the old one, and the new one gets its own.           *)
RunPreviewEffect ==
    /\ pictured' = file
    /\ IF file = pictured
       THEN UNCHANGED <<preview, urls>>
       ELSE /\ preview' = IF file = Null THEN preview ELSE file
            /\ urls' = (urls \ {pictured}) \cup ({file} \ {Null})

(* The polling effect, when the render has another requestId: the cleanup  *)
(* of the old and, when there is an id, the first poll() of the new.       *)
RunPollingEffect ==
    /\ installed' = requestId
    /\ IF requestId = installed
       THEN UNCHANGED <<poll, cancelled, expired>>
       ELSE /\ cancelled' = TornDown
            /\ expired' = {}
            /\ poll' = [r \in Requests |->
                           IF r = requestId THEN "fetching" ELSE TimerCleared[r]]

(* The effects of a render. *)
RunEffects ==
    /\ mounted
    /\ ~Rendered
    /\ RunPreviewEffect
    /\ RunPollingEffect
    /\ UNCHANGED <<storeVars, formVars, response, state>>

StateLost ==
    /\ file' = Null
    /\ requestId' = Null
    /\ isUploading' = FALSE
    /\ uploadError' = FALSE
    /\ post' = Null
    /\ pictured' = Null
    /\ preview' = Null
    /\ installed' = Null
    /\ state' = Idle

(* Mutant: an effect without a cleanup. *)
UnmountOnly ==
    /\ mounted
    /\ mounted' = FALSE
    /\ StateLost
    /\ urls' = urls \ {pictured}
    /\ UNCHANGED <<storeVars, poll, cancelled, expired, response>>

(* Another route: cleanups run, and no state survives.  The POST in flight *)
(* goes on, its continuation sets the state of nothing.                    *)
Unmount ==
    /\ mounted
    /\ mounted' = FALSE
    /\ StateLost
    /\ urls' = urls \ {pictured}
    /\ cancelled' = TornDown
    /\ expired' = {}
    /\ poll' = TimerCleared
    /\ UNCHANGED <<storeVars, response>>

Mount ==
    /\ ~mounted
    /\ mounted' = TRUE
    /\ UNCHANGED <<storeVars, hookVars, pictureVars, file, requestId, isUploading,
                   uploadError, post>>

(* GET /api/inference/:requestId reads the row... *)
FindOne(r) ==
    /\ poll[r] = "fetching"
    /\ RowExists(r)
    /\ poll' = [poll EXCEPT ![r] = "answered"]
    /\ response' = [response EXCEPT ![r] = [requestId |-> r, dto |-> JobDto(r)]]
    /\ UNCHANGED <<storeVars, formVars, pictureVars, installed, cancelled, expired, state>>

(* Nothing of the effect of r is left. *)
Over(r) ==
    /\ poll' = [poll EXCEPT ![r] = "off"]
    /\ expired' = expired \ {r}

Settle(r, job, error) ==
    /\ state' = [requestId |-> r, job |-> job, error |-> error, settled |-> TRUE]
    /\ Over(r)

Keep(r, job) ==
    /\ state' = [requestId |-> r, job |-> job, error |-> "none", settled |-> FALSE]
    /\ poll' = [poll EXCEPT ![r] = "waiting"]
    /\ UNCHANGED expired

(* Mutant: patience has no end. *)
TakeUpForever(r, job) ==
    IF job.dto.status \in Terminal THEN Settle(r, job, "none") ELSE Keep(r, job)

(* ... and the continuation of poll() takes the answer up: the job is      *)
(* over, or time is, or the next poll is scheduled.                        *)
TakeUp(r, job) ==
    IF job.dto.status \in Terminal THEN Settle(r, job, "none")
    ELSE IF r \in expired THEN Settle(r, job, "timeout")
    ELSE Keep(r, job)

Drop(r) ==
    /\ Over(r)
    /\ UNCHANGED state

Continue(r) ==
    /\ poll[r] = "answered"
    /\ IF r \in cancelled THEN Drop(r) ELSE TakeUp(r, response[r])
    /\ response' = [response EXCEPT ![r] = Null]
    /\ cancelled' = cancelled \ {r}
    /\ UNCHANGED <<storeVars, formVars, pictureVars, installed>>

(* Mutant: the error is shown and the next poll scheduled. *)
PollFailsAndRetries(r) ==
    /\ poll[r] \in {"fetching", "answered"}
    /\ IF r \in cancelled
       THEN Drop(r)
       ELSE /\ state' = [requestId |-> r, job |-> Null, error |-> "contact", settled |-> TRUE]
            /\ poll' = [poll EXCEPT ![r] = "waiting"]
            /\ UNCHANGED expired
    /\ response' = [response EXCEPT ![r] = Null]
    /\ cancelled' = cancelled \ {r}
    /\ UNCHANGED <<storeVars, formVars, pictureVars, installed>>

(* A response that is not ok, a network error, or the abort of the cleanup. *)
PollFails(r) ==
    /\ poll[r] \in {"fetching", "answered"}
    /\ IF r \in cancelled THEN Drop(r) ELSE Settle(r, Null, "contact")
    /\ response' = [response EXCEPT ![r] = Null]
    /\ cancelled' = cancelled \ {r}
    /\ UNCHANGED <<storeVars, formVars, pictureVars, installed>>

(* POLL_INTERVAL_MS after the last response. *)
TimerFires(r) ==
    /\ poll[r] = "waiting"
    /\ poll' = [poll EXCEPT ![r] = "fetching"]
    /\ UNCHANGED <<storeVars, formVars, pictureVars, installed, response, cancelled, expired, state>>

(* POLL_TIMEOUT_MS after the effect has started. *)
Expire(r) ==
    /\ poll[r] # "off"
    /\ r \notin expired \cup cancelled
    /\ expired' = expired \cup {r}
    /\ UNCHANGED <<storeVars, formVars, pictureVars, installed, poll, response, cancelled, state>>
=============================================================================
