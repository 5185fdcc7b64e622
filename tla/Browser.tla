------------------------------- MODULE Browser -------------------------------
(***************************************************************************)
(* The upload page against the rows of the pipeline: the user, React, the  *)
(* network, and workers that may do to a row all that JobStore lets them.  *)
(***************************************************************************)
EXTENDS ClassifyPage

CONSTANT Told    \* the sentences a row may be failed with

ASSUME ToldAssumption == Told \subseteq Sentences

vars == <<storeVars, pageVars>>

Init ==
    /\ StoreInit
    /\ PageInit

(* The statements the backend and the workers run, also for an upload the  *)
(* page has given up on.                                                   *)
RowChanges(r) ==
    /\ RowWritten(r, Told)
    /\ UNCHANGED pageVars

User ==
    \/ \E f \in Files : SelectFile(f)
    \/ RejectFile \/ HandleReset \/ Unmount \/ Mount
    \/ \E r \in Requests : HandleSubmit(r)

Landed(r) == Continue(r) \/ PollFails(r)

Next ==
    \/ User
    \/ RunEffects
    \/ UploadAccepted \/ UploadFails
    \/ \E r \in Requests :
          RowChanges(r) \/ FindOne(r) \/ Landed(r) \/ TimerFires(r) \/ Expire(r)

Spec == Init /\ [][Next]_vars

(* React runs effects, timers go off, and every fetch comes to some end:   *)
(* nginx answers for a backend that does not (proxy_read_timeout).         *)
Fairness ==
    /\ WF_vars(RunEffects)
    /\ \A r \in Requests :
          WF_vars(FindOne(r) \/ Landed(r)) /\ WF_vars(TimerFires(r)) /\ WF_vars(Expire(r))

FairSpec == Spec /\ Fairness
-----------------------------------------------------------------------------
(* Every variable keeps its type. *)
BrowserTypeOK == StoreTypeOK /\ PageTypeOK

(* "A second submission cannot briefly display the first result"           *)
(* (ClassifyPage.tsx:67), nor does the first render after requestId has    *)
(* changed: the job on the page is the one its requestId names.            *)
ShownJobIsCurrent == Job # Null => Job.requestId = requestId

(* "Exactly one request in flight" (useInferenceJob.ts:87), never two, no  *)
(* timer left over, and never none: what is not torn down belongs to the   *)
(* installed effect, and a rendered page that polls has a fetch or a timer *)
(* that will bring it on.                                                  *)
OneEffectAlive ==
    /\ \A r \in Requests : poll[r] # "off" /\ r \notin cancelled => r = installed
    /\ Rendered /\ IsPolling => poll[requestId] # "off" /\ requestId \notin cancelled

(* An outcome the page has settled on stays until the user does something, *)
(* whatever timer or response might have been left (useInferenceJob.ts:66-99)*)
OutcomeStands ==
    [][DescribesCurrentRequest /\ state.settled /\ requestId' = requestId => state' = state]_vars

(* A page that has stopped polling says something: a prediction, or what   *)
(* went wrong.  It takes both halves: the page shows a prediction only     *)
(* with a completed job, and the store completes a job only with one.      *)
SettledSaysSomething ==
    requestId # Null /\ ~IsPolling => ShowsPrediction \/ ShowsError

(* The preview holds on to one object URL at most ("picking twenty images   *)
(* in a row would keep all twenty in memory", ClassifyPage.tsx:24), and    *)
(* what it shows is never a URL that is already revoked (ClassifyPage.tsx: *)
(* 50-55), in the render before the effect has run either.                 *)
PreviewIsLive ==
    /\ urls \subseteq {pictured}
    /\ PreviewUrl # Null => PreviewUrl \in urls

(* The form is not blocked for ever by a job: polling ends, with a timeout *)
(* when the row never becomes terminal (useInferenceJob.ts:75-78).         *)
PollingEnds == IsPolling ~> ~IsPolling
=============================================================================
