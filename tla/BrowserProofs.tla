---------------------------- MODULE BrowserProofs ----------------------------
(***************************************************************************)
(* The safety properties of the upload page, for any number of uploads and *)
(* of files, from what its states know of one another.                     *)
(***************************************************************************)
EXTENDS Browser, TLAPS

(* What the preview effect leaves behind. *)
PictureInv ==
    /\ urls = {pictured} \ {Null}
    /\ pictured # Null => preview = pictured
    /\ file # Null /\ preview = file => pictured = file

(* An id no effect and no state has heard of yet. *)
Unheard(r) == poll[r] = "off" /\ r # installed /\ r # state.requestId

(* The ids of the form: one at a time, from the POST to its effect. *)
FormInv ==
    /\ post # Null => requestId = Null /\ isUploading /\ Unheard(post)
    /\ requestId # Null => RowExists(requestId) /\ installed \in {Null, requestId}
    /\ requestId # Null /\ installed = Null => Unheard(requestId)
    /\ installed # Null /\ requestId = Null => state.requestId = installed /\ state.settled

(* A completed job that is known anywhere has its prediction. *)
Complete(dto) == dto.status = "completed" => dto.prediction

(* The effects: alive, torn down with a fetch under way, or over. *)
EffectInv ==
    /\ installed # Null => RowExists(installed)
    /\ \A r \in Requests :
          /\ status[r] = "completed" => result[r]
          /\ poll[r] # "off" => RowExists(r)
          /\ poll[r] # "off" => r = installed \/ r \in cancelled
          /\ r \in cancelled => poll[r] # "off" /\ r # installed
          /\ poll[r] = "answered" => response[r] # Null
          /\ response[r] # Null => response[r].requestId = r /\ Complete(response[r].dto)

(* What the hook has to say, and when it is through with it. *)
StateInv ==
    /\ state.job # Null => state.job.requestId = state.requestId /\ Complete(state.job.dto)
    /\ IF state.requestId = Null THEN state = Idle ELSE RowExists(state.requestId)
    /\ state.requestId # Null /\ state.settled =>
          /\ poll[state.requestId] = "off"
          /\ \/ state.error # "none"
             \/ state.job # Null /\ state.job.dto.status \in Terminal
    /\ installed # Null /\ poll[installed] = "off" =>
          state.requestId = installed /\ state.settled

BrowserInv ==
    /\ BrowserTypeOK
    /\ PictureInv
    /\ FormInv
    /\ EffectInv
    /\ StateInv
-----------------------------------------------------------------------------
USE DEF Ids, Terminal, Statuses

(* An empty page and an empty table. *)
LEMMA BrowserInit == Init => BrowserInv
<1> SUFFICES ASSUME Init PROVE BrowserInv OBVIOUS
<1> USE DEF Init, StoreInit, PageInit, Idle
<1>1. StoreTypeOK BY DEF StoreTypeOK
<1>2. PageTypeOK
  <2>1. /\ poll \in [Requests -> {"off", "fetching", "answered", "waiting"}]
        /\ response \in [Requests -> Jobs \cup {Null}]
    OBVIOUS
  <2>2. {mounted, isUploading, uploadError} \subseteq BOOLEAN /\ state.settled \in BOOLEAN
    OBVIOUS
  <2>3. /\ state.requestId = Null /\ state.job = Null /\ state.error = "none"
    OBVIOUS
  <2> QED BY <2>1, <2>2, <2>3 DEF PageTypeOK
<1>3. PictureInv /\ FormInv BY DEF PictureInv, FormInv
<1>4. EffectInv BY DEF EffectInv
<1>5. StateInv BY DEF StateInv
<1> QED BY <1>1, <1>2, <1>3, <1>4, <1>5 DEF BrowserInv, BrowserTypeOK

(* What a form that is not busy means for the ids. *)
LEMMA NotBusy ==
  ASSUME BrowserInv, Rendered, ~Busy
  PROVE  /\ post = Null /\ ~isUploading
         /\ installed = requestId
         /\ requestId # Null => state.requestId = requestId /\ state.settled
BY DEF Rendered, Busy, IsPolling, DescribesCurrentRequest, BrowserInv, FormInv

(* The handlers of the form, and the continuations of its POST.            *)
LEMMA FormSteps ==
  ASSUME BrowserInv,
         \/ \E f \in Files : SelectFile(f)
         \/ RejectFile \/ HandleReset \/ Mount
         \/ \E r \in Requests : HandleSubmit(r)
         \/ UploadAccepted \/ UploadFails
  PROVE  BrowserInv'
<1> USE DEF BrowserInv
<1>1. UNCHANGED storeVars /\ UNCHANGED hookVars /\ UNCHANGED pictureVars
  BY DEF SelectFile, RejectFile, HandleReset, Mount, HandleSubmit, Post, UploadAccepted, TakeId,
     UploadFails
<1>2. EffectInv' /\ StateInv'
  BY <1>1 DEF storeVars, hookVars, EffectInv, StateInv, RowExists
<1>3. StoreTypeOK' BY <1>1 DEF BrowserTypeOK, StoreTypeOK, storeVars
<1>4. /\ {mounted, isUploading, uploadError} \subseteq BOOLEAN
      /\ file \in Files \cup {Null}
      /\ requestId \in Ids /\ post \in Ids
  BY DEF BrowserTypeOK, PageTypeOK
<1>5. ASSUME /\ {mounted', isUploading', uploadError'} \subseteq BOOLEAN
             /\ file' \in Files \cup {Null}
             /\ requestId' \in Ids /\ post' \in Ids
      PROVE  BrowserTypeOK'
  BY <1>1, <1>3, <1>5 DEF BrowserTypeOK, PageTypeOK, hookVars, pictureVars
<1>6. ASSUME NEW f \in Files, SelectFile(f) PROVE BrowserInv'
  <2> USE <1>1, <1>6 DEF SelectFile
  <2>1. BrowserTypeOK' BY <1>4, <1>5
  <2>2. PictureInv' BY NullAssumption DEF PictureInv, pictureVars
  <2>3. FormInv' BY NotBusy DEF FormInv, hookVars
  <2> QED BY <1>2, <2>1, <2>2, <2>3
<1>7. CASE RejectFile
  <2> USE <1>1, <1>7 DEF RejectFile
  <2>1. BrowserTypeOK' BY <1>4, <1>5
  <2>2. PictureInv' BY DEF PictureInv, pictureVars
  <2>3. FormInv' BY DEF FormInv, hookVars, Unheard, storeVars, RowExists
  <2> QED BY <1>2, <2>1, <2>2, <2>3
<1>8. CASE HandleReset
  <2> USE <1>1, <1>8 DEF HandleReset
  <2>1. BrowserTypeOK' BY <1>4, <1>5
  <2>2. PictureInv' BY DEF PictureInv, pictureVars
  <2>3. FormInv' BY NotBusy DEF FormInv, hookVars
  <2> QED BY <1>2, <2>1, <2>2, <2>3
<1>9. CASE Mount
  <2> USE <1>1, <1>9 DEF Mount
  <2>1. BrowserTypeOK' BY <1>4, <1>5
  <2>2. PictureInv' BY DEF PictureInv, pictureVars
  <2>3. FormInv' BY DEF FormInv, hookVars, Unheard, storeVars, RowExists
  <2> QED BY <1>2, <2>1, <2>2, <2>3
<1>10. ASSUME NEW r \in Requests, HandleSubmit(r) PROVE BrowserInv'
  <2> USE <1>1, <1>10 DEF HandleSubmit, Post
  <2>1. BrowserTypeOK' BY <1>4, <1>5
  <2>2. PictureInv' BY DEF PictureInv, pictureVars
  <2>3. r # Null BY NullAssumption
  <2>4. Unheard(r) BY <2>3 DEF EffectInv, StateInv, RowExists, Unheard
  <2>5. FormInv' BY <2>4, NotBusy DEF FormInv, hookVars, Unheard
  <2> QED BY <1>2, <2>1, <2>2, <2>5
<1>11. CASE UploadAccepted
  <2> USE <1>1, <1>11 DEF UploadAccepted, TakeId
  <2>1. BrowserTypeOK' BY <1>4, <1>5
  <2>2. PictureInv' BY DEF PictureInv, pictureVars
  <2>3. requestId = Null /\ installed = Null /\ Unheard(post) BY DEF FormInv, Rendered
  <2>4. FormInv' BY <2>3 DEF FormInv, hookVars, Unheard, storeVars, RowExists
  <2> QED BY <1>2, <2>1, <2>2, <2>4
<1>12. CASE UploadFails
  <2> USE <1>1, <1>12 DEF UploadFails
  <2>1. BrowserTypeOK' BY <1>4, <1>5
  <2>2. PictureInv' BY DEF PictureInv, pictureVars
  <2>3. FormInv' BY DEF FormInv, hookVars, Unheard, storeVars, RowExists
  <2> QED BY <1>2, <2>1, <2>2, <2>3
<1> QED BY <1>6, <1>7, <1>8, <1>9, <1>10, <1>11, <1>12
-----------------------------------------------------------------------------
(* The cleanup leaves to the old effect nothing but a torn-down fetch. *)
LEMMA Cleanup ==
  ASSUME BrowserInv, NEW r \in Requests
  PROVE  /\ TimerCleared[r] \in {"off", "fetching", "answered", "waiting"}
         /\ TimerCleared[r] # "off" => TimerCleared[r] = poll[r] /\ r \in TornDown
         /\ r \in TornDown => TimerCleared[r] # "off"
         /\ poll[r] = "off" => TimerCleared[r] = "off"
         /\ r \in cancelled => r \in TornDown
         /\ TornDown \subseteq Requests
BY DEF BrowserInv, EffectInv, BrowserTypeOK, PageTypeOK, TimerCleared, TornDown

(* Both effects of a render. *)
LEMMA EffectSteps == ASSUME BrowserInv, RunEffects PROVE BrowserInv'
<1> USE DEF BrowserInv, RunEffects
<1>1. UNCHANGED storeVars /\ UNCHANGED formVars /\ response' = response /\ state' = state
  OBVIOUS
<1>2. StoreTypeOK' BY <1>1 DEF BrowserTypeOK, StoreTypeOK, storeVars
<1>3. PictureInv' /\ {file', pictured', preview'} \subseteq Files \cup {Null} /\ urls' \subseteq Files
  <2>1. CASE file = pictured
    BY <1>1, <2>1 DEF RunPreviewEffect, PictureInv, formVars, BrowserTypeOK, PageTypeOK
  <2>2. CASE file # pictured
    <3>1. /\ file' = file /\ pictured' = file
          /\ preview' = IF file = Null THEN preview ELSE file
          /\ urls' = (urls \ {pictured}) \cup ({file} \ {Null})
      BY <1>1, <2>2 DEF RunPreviewEffect, formVars
    <3>2. urls' = {pictured'} \ {Null} BY <3>1 DEF PictureInv
    <3> QED BY <3>1, <3>2 DEF PictureInv, BrowserTypeOK, PageTypeOK
  <2> QED BY <2>1, <2>2
<1>4. CASE requestId = installed
  <2>1. UNCHANGED <<poll, cancelled, expired, installed>> BY <1>4 DEF RunPollingEffect
  <2>2. BrowserTypeOK' BY <1>1, <1>2, <1>3, <2>1 DEF BrowserTypeOK, PageTypeOK, formVars
  <2>3. FormInv' BY <1>1, <2>1 DEF FormInv, Unheard, formVars, storeVars, RowExists
  <2>4. EffectInv' BY <1>1, <2>1 DEF EffectInv, storeVars, RowExists
  <2>5. StateInv' BY <1>1, <2>1 DEF StateInv, storeVars, RowExists
  <2> QED BY <1>3, <2>2, <2>3, <2>4, <2>5
<1>5. CASE requestId # installed
  <2>1. /\ installed' = requestId /\ cancelled' = TornDown /\ expired' = {}
        /\ poll' = [r \in Requests |-> IF r = requestId THEN "fetching" ELSE TimerCleared[r]]
    BY <1>5 DEF RunPollingEffect
  <2>2. \A r \in Requests :
            /\ poll'[r] = IF r = requestId THEN "fetching" ELSE TimerCleared[r]
            /\ poll'[r] \in {"off", "fetching", "answered", "waiting"}
    BY <2>1, Cleanup
  <2>3. TornDown \subseteq Requests
    BY DEF TornDown, BrowserTypeOK, PageTypeOK
  <2>4. BrowserTypeOK'
    BY <1>1, <1>2, <1>3, <2>1, <2>2, <2>3 DEF BrowserTypeOK, PageTypeOK, formVars
  <2>5. requestId # Null => /\ installed = Null /\ Unheard(requestId) /\ RowExists(requestId)
                            /\ requestId \in Requests
    BY <1>5 DEF FormInv, BrowserTypeOK, PageTypeOK
  <2>6. requestId # Null => requestId \notin TornDown
    BY <2>5 DEF Unheard, TornDown, EffectInv
  <2>7. \A r \in Requests : poll[r] = "off" /\ r # requestId => poll'[r] = "off"
    BY <2>2, Cleanup
  <2>8. FormInv'
    <3>1. requestId = Null \/ post = Null BY DEF FormInv
    <3>2. post # Null => poll'[post] = "off"
      BY <2>7, <3>1 DEF FormInv, Unheard, BrowserTypeOK, PageTypeOK
    <3> QED BY <1>1, <2>1, <2>5, <3>2 DEF FormInv, Unheard, formVars, storeVars, RowExists
  <2>9. EffectInv'
    <3>1. ASSUME NEW r \in Requests, r # requestId
          PROVE  /\ poll'[r] # "off" => poll'[r] = poll[r] /\ r \in TornDown
                 /\ r \in TornDown => poll'[r] # "off"
      BY <2>2, <3>1, Cleanup
    <3>2. ASSUME NEW r \in Requests, r = requestId
          PROVE  poll'[r] = "fetching" /\ r \notin TornDown
      BY <2>2, <2>6, <3>2, NullAssumption
    <3>3. installed' # Null => RowExists(installed)'
      BY <1>1, <2>1, <2>5 DEF storeVars, RowExists
    <3>4. ASSUME NEW r \in Requests
          PROVE  /\ (status[r] = "completed" => result[r])'
                 /\ (poll[r] # "off" => RowExists(r))'
                 /\ (poll[r] # "off" => r = installed \/ r \in cancelled)'
                 /\ (r \in cancelled => poll[r] # "off" /\ r # installed)'
                 /\ (poll[r] = "answered" => response[r] # Null)'
                 /\ (response[r] # Null => response[r].requestId = r /\ Complete(response[r].dto))'
      <4>1. CASE r = requestId
        BY <1>1, <2>1, <2>5, <3>2, <4>1, NullAssumption DEF EffectInv, storeVars, RowExists
      <4>2. CASE r # requestId
        BY <1>1, <2>1, <3>1, <4>2 DEF EffectInv, storeVars, RowExists
      <4> QED BY <4>1, <4>2
    <3> QED BY <3>3, <3>4 DEF EffectInv
  <2>10. StateInv'
    <3>1. state.requestId # Null => state.requestId # requestId BY <2>5 DEF Unheard
    <3>2. installed' # Null => poll'[installed'] = "fetching" BY <2>1, <2>2, <2>5
    <3> QED BY <1>1, <2>7, <3>1, <3>2 DEF StateInv, storeVars, RowExists, BrowserTypeOK, PageTypeOK
  <2> QED BY <1>3, <2>4, <2>8, <2>9, <2>10
<1> QED BY <1>4, <1>5

(* The cleanups of the last render. *)
LEMMA UnmountStep == ASSUME BrowserInv, Unmount PROVE BrowserInv'
<1> USE DEF BrowserInv, Unmount, StateLost, Idle
<1>1. StoreTypeOK' BY DEF BrowserTypeOK, StoreTypeOK, storeVars
<1>2. \A r \in Requests : poll'[r] = TimerCleared[r]
      /\ poll'[r] \in {"off", "fetching", "answered", "waiting"}
  BY Cleanup
<1>3. poll' \in [Requests -> {"off", "fetching", "answered", "waiting"}]
  BY <1>2 DEF TimerCleared
<1>4. TornDown \subseteq Requests BY DEF TornDown, BrowserTypeOK, PageTypeOK
<1>5. /\ state'.requestId = Null /\ state'.job = Null /\ state'.error = "none"
      /\ state'.settled = TRUE
  OBVIOUS
<1>6. PageTypeOK'
  <2>1. {mounted', isUploading', uploadError'} \subseteq BOOLEAN /\ state'.settled \in BOOLEAN
    BY <1>5 DEF BrowserTypeOK, PageTypeOK
  <2> QED BY <1>3, <1>4, <1>5, <2>1 DEF BrowserTypeOK, PageTypeOK
<1>7. PictureInv' BY DEF PictureInv
<1>8. FormInv' BY DEF FormInv
<1>9. EffectInv'
  <2> SUFFICES ASSUME NEW r \in Requests
               PROVE  /\ (status[r] = "completed" => result[r])'
                      /\ (poll[r] # "off" => RowExists(r))'
                      /\ (poll[r] # "off" => r = installed \/ r \in cancelled)'
                      /\ (r \in cancelled => poll[r] # "off" /\ r # installed)'
                      /\ (poll[r] = "answered" => response[r] # Null)'
                      /\ (response[r] # Null => response[r].requestId = r /\ Complete(response[r].dto))'
    BY DEF EffectInv
  <2>1. poll'[r] # "off" => poll'[r] = poll[r] /\ r \in cancelled' BY <1>2, Cleanup
  <2>2. r \in cancelled' => poll'[r] # "off" /\ r # installed' BY <1>2, NullAssumption, Cleanup
  <2> QED BY <2>1, <2>2 DEF EffectInv, storeVars, RowExists
<1>10. StateInv' BY <1>5 DEF StateInv
<1> QED BY <1>1, <1>6, <1>7, <1>8, <1>9, <1>10 DEF BrowserTypeOK

(* The rows: they come with the POST and are never deleted. *)
LEMMA RowSteps == ASSUME BrowserInv, NEW r \in Requests, RowChanges(r) PROVE BrowserInv'
<1> USE ToldAssumption DEF BrowserInv, RowChanges, RowWritten
<1>0. StoreTypeOK /\ UNCHANGED pageVars BY DEF BrowserTypeOK
<1>1. StoreTypeOK'
  BY <1>0 DEF StoreTypeOK, InsertPending, UpdateProcessing, UpsertResult, UpdateFailed,
     Sentences, WorkerSentences, storeVars
<1>2. \A q \in Requests : status[q] # "none" => status'[q] # "none"
  BY <1>0 DEF StoreTypeOK, InsertPending, UpdateProcessing, UpsertResult, UpdateFailed,
     RowExists, storeVars
<1>3. \A q \in Requests : (status[q] = "completed" => result[q]) =>
          (status'[q] = "completed" => result'[q])
  BY <1>0 DEF StoreTypeOK, InsertPending, UpdateProcessing, UpsertResult, UpdateFailed, storeVars
<1>4. UNCHANGED formVars /\ UNCHANGED pictureVars /\ UNCHANGED hookVars BY <1>0 DEF pageVars
<1>5. PageTypeOK' BY <1>4 DEF BrowserTypeOK, PageTypeOK, formVars, pictureVars, hookVars
<1>6. PictureInv' BY <1>4 DEF PictureInv, formVars, pictureVars
<1>7. FormInv'
  <2>1. requestId # Null => RowExists(requestId)'
    BY <1>2, <1>4 DEF FormInv, BrowserTypeOK, PageTypeOK, formVars, RowExists
  <2> QED BY <1>4, <2>1 DEF FormInv, Unheard, formVars, hookVars, RowExists
<1>8. EffectInv'
  <2>1. installed # Null => RowExists(installed)'
    BY <1>2, <1>4 DEF EffectInv, BrowserTypeOK, PageTypeOK, hookVars, RowExists
  <2>2. \A q \in Requests : status'[q] = "completed" => result'[q] BY <1>3 DEF EffectInv
  <2>3. \A q \in Requests : poll[q] # "off" => RowExists(q)' BY <1>2 DEF EffectInv, RowExists
  <2> QED BY <1>4, <2>1, <2>2, <2>3 DEF EffectInv, hookVars, RowExists
<1>9. StateInv'
  <2>1. state.requestId # Null => status'[state.requestId] # "none"
    BY <1>2, <1>4 DEF StateInv, BrowserTypeOK, PageTypeOK, hookVars, RowExists
  <2> QED BY <1>4, <2>1 DEF StateInv, hookVars, RowExists
<1> QED BY <1>1, <1>5, <1>6, <1>7, <1>8, <1>9 DEF BrowserTypeOK
-----------------------------------------------------------------------------
(* A job as the page gets it. *)
LEMMA AnsweredJob ==
  ASSUME StoreTypeOK, NEW r \in Requests, RowExists(r), status[r] = "completed" => result[r]
  PROVE  LET job == [requestId |-> r, dto |-> JobDto(r)]
         IN  job \in Jobs /\ job # Null /\ job.requestId = r /\ Complete(job.dto)
BY NoJobAssumption DEF Jobs, JobDto, StoreTypeOK, RowExists, Complete

(* What a step of the effect of r may do: it alone moves, and what it says *)
(* it says while it is the one that is installed.                          *)
HookEffect(r) ==
    /\ UNCHANGED storeVars /\ UNCHANGED formVars /\ UNCHANGED pictureVars
    /\ installed' = installed
    /\ poll[r] # "off"
    /\ \E p \in {"off", "fetching", "answered", "waiting"} :
          /\ poll' = [poll EXCEPT ![r] = p]
          /\ p = "answered" => response'[r] # Null
          /\ r \in cancelled' => p # "off"
          /\ state' # state =>
                /\ r = installed
                /\ state'.requestId = r /\ state'.job \in Jobs \cup {Null}
                /\ state'.error \in {"none", "timeout", "contact"} /\ state'.settled \in BOOLEAN
                /\ state'.job # Null => state'.job.requestId = r /\ Complete(state'.job.dto)
                /\ state'.settled =>
                      /\ p = "off"
                      /\ \/ state'.error # "none"
                         \/ state'.job # Null /\ state'.job.dto.status \in Terminal
          /\ p # "off" => r \in cancelled' <=> r \in cancelled
          /\ p = "off" /\ r = installed => state'.requestId = r /\ state'.settled
    /\ cancelled' \in {cancelled, cancelled \ {r}}
    /\ expired' \subseteq Requests
    /\ \E a \in Jobs \cup {Null} :
          /\ response' = [response EXCEPT ![r] = a]
          /\ a # Null => a.requestId = r /\ Complete(a.dto)

LEMMA HookKeeps == ASSUME BrowserInv, NEW r \in Requests, HookEffect(r) PROVE BrowserInv'
<1> USE DEF BrowserInv
<1>1. PICK p \in {"off", "fetching", "answered", "waiting"} :
          /\ poll' = [poll EXCEPT ![r] = p]
          /\ p = "answered" => response'[r] # Null
          /\ r \in cancelled' => p # "off"
          /\ state' # state =>
                /\ r = installed
                /\ state'.requestId = r /\ state'.job \in Jobs \cup {Null}
                /\ state'.error \in {"none", "timeout", "contact"} /\ state'.settled \in BOOLEAN
                /\ state'.job # Null => state'.job.requestId = r /\ Complete(state'.job.dto)
                /\ state'.settled =>
                      /\ p = "off"
                      /\ \/ state'.error # "none"
                         \/ state'.job # Null /\ state'.job.dto.status \in Terminal
          /\ p # "off" => r \in cancelled' <=> r \in cancelled
          /\ p = "off" /\ r = installed => state'.requestId = r /\ state'.settled
  BY DEF HookEffect
<1>2. PICK a \in Jobs \cup {Null} :
          /\ response' = [response EXCEPT ![r] = a]
          /\ a # Null => a.requestId = r /\ Complete(a.dto)
  BY DEF HookEffect
<1>3. /\ UNCHANGED storeVars /\ UNCHANGED formVars /\ UNCHANGED pictureVars
      /\ installed' = installed /\ poll[r] # "off"
      /\ cancelled' \in {cancelled, cancelled \ {r}} /\ expired' \subseteq Requests
  BY DEF HookEffect
<1>4. /\ poll' \in [Requests -> {"off", "fetching", "answered", "waiting"}] /\ poll'[r] = p
      /\ response' \in [Requests -> Jobs \cup {Null}] /\ response'[r] = a
      /\ \A q \in Requests : q # r => /\ poll'[q] = poll[q] /\ response'[q] = response[q]
                                      /\ q \in cancelled' <=> q \in cancelled
  BY <1>1, <1>2, <1>3 DEF BrowserTypeOK, PageTypeOK
<1>5. r # Null BY NullAssumption
<1>6. BrowserTypeOK'
  <2>1. StoreTypeOK' BY <1>3 DEF BrowserTypeOK, StoreTypeOK, storeVars
  <2>2. /\ {mounted', isUploading', uploadError'} \subseteq BOOLEAN
        /\ {file', pictured', preview'} \subseteq Files \cup {Null} /\ urls' \subseteq Files
        /\ {requestId', post', installed'} \subseteq Ids
    BY <1>3 DEF BrowserTypeOK, PageTypeOK, formVars, pictureVars
  <2>3. CASE state' = state
    BY <1>3, <1>4, <2>1, <2>2, <2>3 DEF BrowserTypeOK, PageTypeOK
  <2>4. CASE state' # state
    BY <1>1, <1>3, <1>4, <2>1, <2>2, <2>4 DEF BrowserTypeOK, PageTypeOK
  <2> QED BY <2>3, <2>4
<1>7. PictureInv' BY <1>3 DEF PictureInv, formVars, pictureVars
<1>8. state' # state => requestId = r /\ ~(state.settled /\ state.requestId = r)
  BY <1>1, <1>3, <1>5 DEF FormInv, StateInv
<1>9. FormInv'
  <2>1. post # r /\ (requestId # Null /\ installed = Null => requestId # r)
    BY <1>3, <1>5 DEF FormInv, Unheard
  <2> USE <1>3, <1>4, <1>5, <2>1 DEF FormInv, Unheard, formVars, storeVars, RowExists,
          BrowserTypeOK, PageTypeOK
  <2>2. CASE state' = state BY <2>2
  <2>3. CASE state' # state BY <1>1, <1>8, <2>3
  <2> QED BY <2>2, <2>3
<1>10. EffectInv'
  <2> SUFFICES ASSUME NEW q \in Requests
               PROVE  /\ (status[q] = "completed" => result[q])'
                      /\ (poll[q] # "off" => RowExists(q))'
                      /\ (poll[q] # "off" => q = installed \/ q \in cancelled)'
                      /\ (q \in cancelled => poll[q] # "off" /\ q # installed)'
                      /\ (poll[q] = "answered" => response[q] # Null)'
                      /\ (response[q] # Null => response[q].requestId = q /\ Complete(response[q].dto))'
    BY <1>3 DEF EffectInv, storeVars, RowExists
  <2>1. CASE q = r BY <1>1, <1>2, <1>3, <1>4, <2>1 DEF EffectInv, storeVars, RowExists
  <2>2. CASE q # r BY <1>3, <1>4, <2>2 DEF EffectInv, storeVars, RowExists
  <2> QED BY <2>1, <2>2
<1>11. StateInv'
  <2>1. CASE state' = state
    BY <1>1, <1>3, <1>4, <2>1 DEF StateInv, storeVars, RowExists, BrowserTypeOK, PageTypeOK
  <2>2. CASE state' # state
    <3>1. RowExists(r) BY <1>3 DEF EffectInv
    <3> QED BY <1>1, <1>3, <1>4, <1>5, <2>2, <3>1 DEF StateInv, storeVars, RowExists
  <2> QED BY <2>1, <2>2
<1> QED BY <1>6, <1>7, <1>9, <1>10, <1>11

(* The fetches, the timers and what they bring. *)
LEMMA HookSteps ==
  ASSUME BrowserInv, NEW r \in Requests,
         FindOne(r) \/ Landed(r) \/ TimerFires(r) \/ Expire(r)
  PROVE  BrowserInv'
<1>1. /\ StoreTypeOK /\ cancelled \subseteq Requests /\ expired \subseteq Requests
      /\ poll \in [Requests -> {"off", "fetching", "answered", "waiting"}]
      /\ response \in [Requests -> Jobs \cup {Null}]
      /\ status[r] = "completed" => result[r]
      /\ poll[r] # "off" => RowExists(r) /\ (r = installed \/ r \in cancelled)
      /\ poll[r] = "answered" => response[r] # Null
      /\ response[r] # Null => response[r].requestId = r /\ Complete(response[r].dto)
      /\ r \in cancelled => poll[r] # "off" /\ r # installed
  BY DEF BrowserInv, BrowserTypeOK, PageTypeOK, EffectInv
<1>2. response = [response EXCEPT ![r] = response[r]] /\ poll = [poll EXCEPT ![r] = poll[r]]
  BY <1>1
<1>3. CASE FindOne(r)
  <2>1. RowExists(r) BY <1>1, <1>3 DEF FindOne
  <2>2. PICK job \in Jobs : /\ job # Null /\ job.requestId = r /\ Complete(job.dto)
                            /\ response' = [response EXCEPT ![r] = job]
    BY <1>1, <1>3, <2>1, AnsweredJob DEF FindOne
  <2> QED BY <1>1, <1>3, <2>2, HookKeeps DEF FindOne, HookEffect
<1>4. CASE TimerFires(r)
  BY <1>1, <1>2, <1>4, HookKeeps DEF TimerFires, HookEffect
<1>5. CASE Expire(r)
  BY <1>1, <1>2, <1>5, HookKeeps DEF Expire, HookEffect
<1>6. ASSUME Continue(r) \/ PollFails(r)
      PROVE  /\ UNCHANGED storeVars /\ UNCHANGED formVars /\ UNCHANGED pictureVars
             /\ installed' = installed /\ poll[r] # "off"
             /\ response' = [response EXCEPT ![r] = Null]
             /\ response'[r] = Null
             /\ cancelled' = cancelled \ {r}
  BY <1>1, <1>6 DEF Continue, PollFails
<1>7. ASSUME NEW job \in Jobs \cup {Null}, NEW error \in {"none", "timeout", "contact"},
             Settle(r, job, error), r = installed,
             job # Null => job.requestId = r /\ Complete(job.dto),
             error # "none" \/ (job # Null /\ job.dto.status \in Terminal),
             Continue(r) \/ PollFails(r)
      PROVE  BrowserInv'
  <2>1. /\ state'.requestId = r /\ state'.job = job /\ state'.error = error
        /\ state'.settled = TRUE
    BY <1>7 DEF Settle
  <2>2. poll' = [poll EXCEPT ![r] = "off"] /\ expired' \subseteq Requests
    BY <1>1, <1>7 DEF Settle, Over
  <2> QED BY <1>6, <1>7, <2>1, <2>2, HookKeeps DEF HookEffect
<1>8. CASE (Continue(r) \/ PollFails(r)) /\ r \in cancelled
  <2>1. Drop(r) BY <1>8 DEF Continue, PollFails
  <2> QED BY <1>1, <1>6, <1>8, <2>1, HookKeeps DEF Drop, Over, HookEffect
<1>9. CASE PollFails(r) /\ r \notin cancelled
  <2>1. Settle(r, Null, "contact") /\ r = installed BY <1>1, <1>9 DEF PollFails
  <2> QED BY <1>7, <1>9, <2>1
<1>10. CASE Continue(r) /\ r \notin cancelled
  <2> DEFINE job == response[r]
  <2>1. /\ job \in Jobs /\ job # Null /\ job.requestId = r /\ Complete(job.dto)
        /\ TakeUp(r, job) /\ r = installed
    BY <1>1, <1>10 DEF Continue
  <2>2. CASE job.dto.status \in Terminal
    BY <1>7, <1>10, <2>1, <2>2 DEF TakeUp
  <2>3. CASE job.dto.status \notin Terminal /\ r \in expired
    BY <1>7, <1>10, <2>1, <2>3 DEF TakeUp
  <2>4. CASE job.dto.status \notin Terminal /\ r \notin expired
    <3>1. Keep(r, job) BY <2>1, <2>4 DEF TakeUp
    <3>2. /\ state'.requestId = r /\ state'.job = job /\ state'.error = "none"
          /\ state'.settled = FALSE
      BY <3>1 DEF Keep
    <3> QED BY <1>1, <1>6, <1>10, <2>1, <3>1, <3>2, HookKeeps DEF Keep, HookEffect
  <2> QED BY <2>2, <2>3, <2>4
<1> QED BY <1>3, <1>4, <1>5, <1>8, <1>9, <1>10 DEF Landed
-----------------------------------------------------------------------------
(* BrowserInv is inductive. *)
THEOREM BrowserInvariance == Spec => []BrowserInv
<1>1. BrowserInv /\ [Next]_vars => BrowserInv'
  <2> SUFFICES ASSUME BrowserInv, [Next]_vars PROVE BrowserInv' OBVIOUS
  <2>1. CASE UNCHANGED vars
    BY <2>1 DEF vars, storeVars, pageVars, formVars, pictureVars, hookVars, BrowserInv,
       BrowserTypeOK, StoreTypeOK, PageTypeOK, PictureInv, FormInv, Unheard, EffectInv, StateInv,
       RowExists
  <2>2. CASE Next
    BY <2>2, FormSteps, EffectSteps, UnmountStep, RowSteps, HookSteps DEF Next, User
  <2> QED BY <2>1, <2>2
<1> QED BY <1>1, BrowserInit, PTL DEF Spec

(* Every variable keeps its type. *)
THEOREM BrowserTypes == Spec => []BrowserTypeOK
BY BrowserInvariance, PTL DEF BrowserInv

(* The job on the page is the one its requestId names. *)
THEOREM ShownJobAlwaysCurrent == Spec => []ShownJobIsCurrent
<1>1. BrowserInv => ShownJobIsCurrent
  BY DEF BrowserInv, StateInv, ShownJobIsCurrent, Job, DescribesCurrentRequest
<1> QED BY <1>1, BrowserInvariance, PTL

(* One effect, no more and no less, polls for a page that is polling. *)
THEOREM AlwaysOneEffectAlive == Spec => []OneEffectAlive
<1>1. BrowserInv => OneEffectAlive
  BY NullAssumption DEF BrowserInv, BrowserTypeOK, PageTypeOK, EffectInv, StateInv, OneEffectAlive,
     Rendered, IsPolling, DescribesCurrentRequest
<1> QED BY <1>1, BrowserInvariance, PTL

(* A page that has stopped polling shows a prediction or what went wrong.  *)
THEOREM SettledAlwaysSpeaks == Spec => []SettledSaysSomething
<1>1. BrowserInv => SettledSaysSomething
  BY DEF BrowserInv, StateInv, SettledSaysSomething, IsPolling, DescribesCurrentRequest,
     ShowsPrediction, ShowsError, PollError, Job, Complete
<1> QED BY <1>1, BrowserInvariance, PTL

(* The preview keeps one object URL and shows none that is revoked.        *)
THEOREM PreviewAlwaysLive == Spec => []PreviewIsLive
<1>1. BrowserInv => PreviewIsLive BY DEF BrowserInv, PictureInv, PreviewIsLive, PreviewUrl
<1> QED BY <1>1, BrowserInvariance, PTL

(* What the page has settled on stays. *)
THEOREM OutcomesStand == Spec => OutcomeStands
<1> DEFINE Stands == DescribesCurrentRequest /\ state.settled /\ requestId' = requestId
                         => state' = state
<1>1. BrowserInv /\ [Next]_vars => [Stands]_vars
  <2> SUFFICES ASSUME BrowserInv, Next, DescribesCurrentRequest, state.settled,
                      requestId' = requestId
               PROVE  state' = state
    OBVIOUS
  <2>1. ASSUME NEW r \in Requests, Landed(r) PROVE state' = state
    <3>1. CASE r \in cancelled BY <2>1, <3>1 DEF Landed, Continue, PollFails, Drop
    <3>2. CASE r \notin cancelled
      <4>1. r = installed /\ poll[r] # "off" /\ r # Null
        BY <2>1, <3>2, NullAssumption DEF Landed, Continue, PollFails, BrowserInv, EffectInv
      <4> QED BY <4>1 DEF BrowserInv, FormInv, StateInv, DescribesCurrentRequest
    <3> QED BY <3>1, <3>2
  <2>2. CASE Unmount
    <3>1. requestId = Null BY <2>2 DEF Unmount, StateLost
    <3> QED BY <2>2, <3>1 DEF Unmount, StateLost, BrowserInv, StateInv, DescribesCurrentRequest
  <2>3. CASE RunEffects \/ \E r \in Requests : RowChanges(r) \/ FindOne(r) \/ TimerFires(r) \/ Expire(r)
    BY <2>3 DEF RunEffects, RowChanges, pageVars, hookVars, FindOne, TimerFires, Expire
  <2>4. CASE UploadAccepted \/ UploadFails \/ (User /\ ~Unmount)
    BY <2>4 DEF UploadAccepted, TakeId, UploadFails, User, SelectFile, RejectFile, HandleReset, Mount,
       HandleSubmit, Post, hookVars
  <2> QED BY <2>1, <2>2, <2>3, <2>4 DEF Next, User
<1> QED BY <1>1, BrowserInvariance, PTL DEF Spec, OutcomeStands
=============================================================================
