-------------------------------- MODULE Site --------------------------------
(***************************************************************************)
(* A browser with the upload page in one tab and the history page in       *)
(* another, over the pipeline itself: the upload page posts to a handler   *)
(* of UploadHandler, is given its id by the 202, and polls the row that    *)
(* handler and workers write; the history page lists the rows.  Uploads    *)
(* nobody posts from this page are other people's.                         *)
(***************************************************************************)
EXTENDS Naturals, PipelineInvariant

CONSTANTS Null, Files, Loads, HistoryLimit

VARIABLES
    mounted, file, requestId, isUploading, uploadError, post,    \* ClassifyPage
    pictured, preview, urls,
    installed, poll, response, cancelled, expired, state,
    load, fetch, answer, aborted, items, listError, timer,       \* HistoryPage
    newest                                                       \* the rows it lists

(* In both pages a row may be failed with any sentence there is. *)
Page == INSTANCE Browser WITH Told <- Sentences
List == INSTANCE HistoryPage WITH Told <- Sentences, error <- listError

ASSUME PagesAssumption ==
    /\ Null \notin Requests \cup Files \cup Loads
    /\ Null \notin Page!Jobs \cup List!Lists
    /\ HistoryLimit \in Nat \ {0}

uploadPage ==
    <<mounted, file, requestId, isUploading, uploadError, post, pictured, preview, urls,
      installed, poll, response, cancelled, expired, state>>
historyPage == <<load, fetch, answer, aborted, items, listError, timer>>

SiteInit ==
    /\ Init
    /\ Page!PageInit
    /\ List!Init
-----------------------------------------------------------------------------
(* The POST of the page is one that has not come to its handler. *)
Submit == \E r \in Requests : phase[r] = "idle" /\ Page!Post(r)

(* Mutant: a response that is not ok is read like one that is. *)
AcceptedAnyway ==
    /\ post # Null
    /\ phase[post] \in {"accepted", "unavailable", "error"}
    /\ Page!TakeId

(* The response to the POST is the one the handler has sent... *)
Accepted ==
    /\ post # Null
    /\ phase[post] = "accepted"
    /\ Page!TakeId

(* ... unless an error was, or the browser gave up on it. *)
Refused == Page!UploadFails

UploadPageStep ==
    \/ \E f \in Files : Page!SelectFile(f)
    \/ Page!RejectFile \/ Page!HandleReset \/ Page!Unmount \/ Page!Mount
    \/ Page!RunEffects
    \/ Submit \/ Accepted \/ Refused
    \/ \E r \in Requests :
          Page!FindOne(r) \/ Page!Landed(r) \/ Page!TimerFires(r) \/ Page!Expire(r)

HistoryPageStep ==
    \/ List!Unmount
    \/ \E n \in Loads :
          \/ List!Mount(n) \/ List!Reload(n) \/ List!TimerFires(n)
          \/ List!ListRequests(n) \/ List!Show(n) \/ List!LoadFails(n)

(* The order of the rows: what a step of the pipeline inserts is newest.   *)
RowsInOrder ==
    IF \E r \in Requests : RowExists(r) /\ ~RowExists(r)' THEN newest' = <<>>
    ELSE IF \A r \in Requests : RowExists(r)' => RowExists(r) THEN newest' = newest
    ELSE \E r \in Requests : ~RowExists(r) /\ RowExists(r)' /\ newest' = List!Push(r)

SiteNext ==
    \/ Next /\ RowsInOrder /\ UNCHANGED <<uploadPage, historyPage>>
    \/ UploadPageStep /\ UNCHANGED <<vars, newest, historyPage>>
    \/ HistoryPageStep /\ UNCHANGED <<vars, uploadPage>>

siteVars == <<vars, newest, uploadPage, historyPage>>

SiteSpec == SiteInit /\ [][SiteNext]_siteVars
-----------------------------------------------------------------------------
(* An answer that ends a job is what its row still says, and a job listed  *)
(* as finished still is.                                                   *)
Stands(answered) ==
    answered # Null /\ answered.dto.status \in Terminal =>
        answered.dto = JobDto(answered.requestId)

ListStands(list) ==
    list # Null => \A r \in Requests : list[r] = "finished" => status[r] \in Terminal

(* A spinner never turns over nothing ("a lost message would appear to the *)
(* user as a spinner that never resolves", README.md:135): while the page  *)
(* polls a job that is not over, its message waits for a worker or is with *)
(* one.  Without "nack", "down", "db", "drop" and "reset".                 *)
SpinnerIsOwned ==
    Page!IsPolling =>
        \/ status[requestId] \in Terminal
        \/ msg[requestId] \in {"ready", "unacked"}

(* No page has to take back what it has shown as the end of a job: the     *)
(* prediction or the sentence on the upload page is what the row still     *)
(* says, and a job listed as finished is finished                          *)
(* (useInferenceJob.ts:66, HistoryPage.tsx:52).                            *)
(* Without "crash", "drop", "nack", "link", "db" and "reset".              *)
OutcomeIsFinal == Stands(state.job) /\ ListStands(items)

(* What the pages tell their user is so: while they wait, when they have   *)
(* stopped waiting, and in the one answer they make it from.               *)
(* Without "crash", "drop", "nack", "link", "db", "down" and "reset".      *)
PagesTellTheTruth == SpinnerIsOwned /\ OutcomeIsFinal /\ PollIsCoherent

(* The pipeline is an environment of the kind the pages are modelled       *)
(* against, so that what they guarantee there they guarantee over it: an   *)
(* id is given to one upload (inferenceController.ts:70), a 202 names a    *)
(* row (:105), and the rows change as RowWritten says.  Without "reset".   *)
KeepsPages == Page!Spec /\ List!Spec
-----------------------------------------------------------------------------
(* The invariant behind these properties.  An id the page has was answered *)
(* 202, and what was answered 202 has been written to the socket...        *)
AnsweredIdInv ==
    /\ {requestId, post} \subseteq Requests \cup {Null}
    /\ requestId # Null => phase[requestId] = "accepted"
    /\ \A r \in Requests :
          phase[r] \in {"drain", "hung", "confirm", "accepted"} => msg[r] # "absent"

(* ... and the answers that end a job stand, on their way to a page as on  *)
(* it.                                                                     *)
AnswersStandInv ==
    /\ response \in [Requests -> Page!Jobs \cup {Null}]
    /\ state.job \in Page!Jobs \cup {Null}
    /\ answer \in [Loads -> List!Lists \cup {Null}]
    /\ Without(CalmKinds \cup {"reset"}) =>
          /\ \A r \in Requests : Stands(response[r])
          /\ Stands(state.job)
          /\ \A n \in Loads : ListStands(answer[n])
          /\ ListStands(items)

SiteInv == AnsweredIdInv /\ AnswersStandInv
=============================================================================
