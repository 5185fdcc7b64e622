--------------------------- MODULE ServicesProofs ---------------------------
(***************************************************************************)
(* The safety properties of Services.tla and the refinement of             *)
(* ConsumerLink, for any number of requests, attempts and seconds.         *)
(***************************************************************************)
EXTENDS Services, TLAPS

Serving == {"listening"} \cup ShuttingDown

(* What main() has come past is there: for good in the case of the schema, *)
(* for the rest as long as no server goes away.                            *)
BootInv ==
    /\ stage \in {"bucket", "queue"} \cup Serving => schema
    /\ ~shaken =>
          /\ stage \in {"schema", "bucket", "queue"} \cup Serving => "postgres" \in up
          /\ stage \in {"queue"} \cup Serving => "s3" \in up /\ bucket
          /\ stage \in Serving => "broker" \in up

(* Requests come with the listener and are outlived by their connections;  *)
(* after the process only their answers are left.                          *)
HandlersInv ==
    \A c \in Calls :
        /\ stage \notin Serving => call[c] \in Answers
        /\ Connected(c) => stage \in {"listening", "draining"}
        /\ c \in gone => InFlight(c)

(* A 5xx or a cut, and the failed publish that will lead to one.           *)
FailureInv ==
    \A c \in Calls :
        call[c] = "failed" \/ (call[c] = "marking" /\ c \notin gone)
            => shaken \/ c \in faulted

(* No worker leaves "created" before the backend has listened once. *)
WorkerInv ==
    /\ at # "created" => schema
    /\ at \notin {"declaring", "consuming", "callback", "sleeping"} => connection = "none"
    /\ at \in {"declaring", "consuming", "callback"} => connection # "none"

ServicesInv ==
    /\ ServicesTypeOK
    /\ BootInv
    /\ HandlersInv
    /\ FailureInv
    /\ NoBodyLeft
    /\ WorkerInv
-----------------------------------------------------------------------------
USE DEF ShuttingDown, Stages, Awaits, Answers, Servers, Serving

(* What the variables of the requests are before the first one. *)
LEMMA Resting ==
    /\ [c \in Calls |-> "answered"] \in [Calls -> Awaits \cup Answers]
    /\ [c \in Calls |-> {}] \in [Calls -> SUBSET Servers]
OBVIOUS

(* Nothing runs and no request is under way at first. *)
LEMMA ServicesInit == Init => ServicesInv
<1> SUFFICES ASSUME Init PROVE ServicesInv OBVIOUS
<1> USE AttemptsAssumption, DelaysAssumption
        DEF Init, ServersInit, BackendInit, WorkerInit
<1>1. ServicesTypeOK
  <2>1. ServersTypeOK BY DEF ServersTypeOK
  <2>2. BackendTypeOK
    <3>1. attempt \in Nat \ {0} /\ stage \in Stages OBVIOUS
    <3>2. call \in [Calls -> Awaits \cup Answers] /\ probed \in [Calls -> SUBSET Servers]
      BY Resting
    <3>3. gone \subseteq Calls /\ bodies \subseteq Calls /\ faulted \subseteq Calls OBVIOUS
    <3>4. shaken \in BOOLEAN OBVIOUS
    <3> QED BY <3>1, <3>2, <3>3, <3>4 DEF BackendTypeOK
  <2>3. 1 \in 1..ReadyAttempts /\ InitialDelay \in InitialDelay..MaxDelay OBVIOUS
  <2>4. WorkerTypeOK BY <2>3 DEF WorkerTypeOK, Places, Booting
  <2> QED BY <2>1, <2>2, <2>4 DEF ServicesTypeOK
<1>2. BootInv /\ HandlersInv /\ FailureInv /\ NoBodyLeft /\ WorkerInv
  BY DEF BootInv, HandlersInv, FailureInv, NoBodyLeft, WorkerInv, Connected, InFlight
<1> QED BY <1>1, <1>2 DEF ServicesInv

(* A server that comes or goes takes no table with it, and only what       *)
(* ~shaken leaves out.                                                     *)
LEMMA ServerSteps ==
  ASSUME ServicesInv, ServerStep, UNCHANGED workerVars PROVE ServicesInv'
<1> USE DEF ServicesInv, workerVars, loopVars
<1>1. WorkerTypeOK' /\ WorkerInv'
  BY DEF ServerStep, Outage, GoDown, ComeUp, ServicesTypeOK, WorkerTypeOK, WorkerInv
<1>2. ASSUME NEW s \in Servers, ComeUp(s), UNCHANGED backendVars PROVE ServicesInv'
  <2> USE <1>2 DEF ComeUp, backendVars, processVars, callVars
  <2>1. ServersTypeOK' /\ BackendTypeOK' BY DEF ServicesTypeOK, ServersTypeOK, BackendTypeOK
  <2>2. BootInv' BY DEF BootInv
  <2>3. HandlersInv' /\ FailureInv' /\ NoBodyLeft'
    BY DEF HandlersInv, FailureInv, NoBodyLeft, Connected, InFlight
  <2> QED BY <1>1, <2>1, <2>2, <2>3 DEF ServicesTypeOK
<1>3. ASSUME NEW s \in Servers, Outage(s) PROVE ServicesInv'
  <2> USE <1>3 DEF Outage, GoDown, callVars
  <2>1. ServersTypeOK' /\ BackendTypeOK' BY DEF ServicesTypeOK, ServersTypeOK, BackendTypeOK
  <2>2. BootInv' BY DEF BootInv
  <2>3. HandlersInv' /\ NoBodyLeft' BY DEF HandlersInv, NoBodyLeft, Connected, InFlight
  <2>4. FailureInv' BY DEF FailureInv, HandlersInv
  <2> QED BY <1>1, <2>1, <2>2, <2>3, <2>4 DEF ServicesTypeOK
<1> QED BY <1>2, <1>3 DEF ServerStep
-----------------------------------------------------------------------------
(* Where no request is under way none is connected. *)
LEMMA Unconnected ==
  ASSUME ServicesInv, stage \notin {"listening", "draining"}
  PROVE  \A c \in Calls : ~Connected(c)
BY DEF ServicesInv, HandlersInv

(* The process ends with all its requests; whoever it cuts off is marked.  *)
LEMMA EndStep ==
  ASSUME ServicesInv, End, up' \subseteq up, bucket' \in BOOLEAN, schema' = schema,
         faulted' \in SUBSET Calls, faulted \subseteq faulted',
         \A c \in Calls : Connected(c) => c \in faulted',
         UNCHANGED workerVars
  PROVE  ServicesInv'
<1> USE DEF ServicesInv, End, workerVars, loopVars
<1>0. call \in [Calls -> Awaits \cup Answers] BY DEF ServicesTypeOK, BackendTypeOK
<1>1. \A c \in Calls :
          /\ call'[c] \in Answers
          /\ call'[c] = "failed" => Connected(c) \/ call[c] = "failed"
  BY <1>0 DEF InFlight
<1>2. ServicesTypeOK'
  <2>1. ServersTypeOK' BY DEF ServicesTypeOK, ServersTypeOK
  <2>2. BackendTypeOK'
    <3>1. attempt' \in Nat \ {0} /\ stage' \in Stages OBVIOUS
    <3>2. call' \in [Calls -> Awaits \cup Answers] BY <1>1
    <3>3. probed' \in [Calls -> SUBSET Servers] BY Resting
    <3>4. gone' \subseteq Calls /\ bodies' \subseteq Calls /\ faulted' \subseteq Calls OBVIOUS
    <3>5. shaken' \in BOOLEAN BY DEF ServicesTypeOK, BackendTypeOK
    <3> QED BY <3>1, <3>2, <3>3, <3>4, <3>5 DEF BackendTypeOK
  <2>3. WorkerTypeOK' BY DEF ServicesTypeOK, WorkerTypeOK
  <2> QED BY <2>1, <2>2, <2>3 DEF ServicesTypeOK
<1>3. BootInv' /\ WorkerInv' BY DEF BootInv, WorkerInv
<1>4. HandlersInv' BY <1>1 DEF HandlersInv, Connected, InFlight
<1>5. FailureInv' BY <1>1 DEF FailureInv
<1>6. NoBodyLeft' BY DEF NoBodyLeft
<1> QED BY <1>2, <1>3, <1>4, <1>5, <1>6

(* Where nobody is connected nobody is cut off. *)
LEMMA ExitStep ==
  ASSUME ServicesInv, Exit, stage \notin {"listening", "draining"},
         up' \subseteq up, bucket' \in BOOLEAN, schema' = schema, UNCHANGED workerVars
  PROVE  ServicesInv'
<1>1. faulted' \in SUBSET Calls /\ faulted \subseteq faulted'
  BY DEF Exit, ServicesInv, ServicesTypeOK, BackendTypeOK
<1> QED BY <1>1, Unconnected, EndStep DEF Exit

(* The fault of a process that is brought down is that of its clients. *)
LEMMA AbortStep ==
  ASSUME ServicesInv, Abort, UNCHANGED serverVars, UNCHANGED workerVars
  PROVE  ServicesInv'
<1>1. /\ faulted' \in SUBSET Calls /\ faulted \subseteq faulted'
      /\ \A c \in Calls : Connected(c) => c \in faulted'
      /\ bucket \in BOOLEAN
  BY DEF Abort, ServicesInv, ServicesTypeOK, BackendTypeOK, ServersTypeOK
<1> QED BY <1>1, EndStep DEF Abort, serverVars

(* A new process knows nothing of the last one. *)
LEMMA StartStep ==
  ASSUME ServicesInv, StartBackend, UNCHANGED workerVars PROVE ServicesInv'
<1> USE DEF ServicesInv, StartBackend, serverVars, workerVars, loopVars
<1>1. ServicesTypeOK'
  <2>1. ServersTypeOK' BY DEF ServicesTypeOK, ServersTypeOK
  <2>2. BackendTypeOK'
    <3>1. attempt' \in Nat \ {0} /\ stage' \in Stages OBVIOUS
    <3>2. call' \in [Calls -> Awaits \cup Answers] BY Resting
    <3>3. probed' \in [Calls -> SUBSET Servers] BY DEF ServicesTypeOK, BackendTypeOK
    <3>4. gone' \subseteq Calls /\ bodies' \subseteq Calls /\ faulted' \subseteq Calls
      BY DEF ServicesTypeOK, BackendTypeOK
    <3> QED BY <3>1, <3>2, <3>3, <3>4 DEF BackendTypeOK
  <2>3. WorkerTypeOK' BY DEF ServicesTypeOK, WorkerTypeOK
  <2> QED BY <2>1, <2>2, <2>3 DEF ServicesTypeOK
<1>2. BootInv' /\ WorkerInv' BY DEF BootInv, WorkerInv
<1>3. gone = {} /\ bodies = {}
  BY DEF HandlersInv, InFlight, NoBodyLeft, ServicesTypeOK, BackendTypeOK
<1>4. HandlersInv' /\ FailureInv' /\ NoBodyLeft'
  BY <1>3 DEF HandlersInv, FailureInv, NoBodyLeft, Connected, InFlight
<1> QED BY <1>1, <1>2, <1>4

(* main() goes on to its next stage, or tries the same one again. *)
LEMMA StageStep ==
  ASSUME ServicesInv, up' = up, shaken' = shaken, UNCHANGED callVars, UNCHANGED workerVars,
         stage' \in Stages, attempt' \in Nat \ {0}, bucket' \in BOOLEAN, schema' \in {schema, TRUE}, BootInv',
         stage' \in Serving \/ stage \notin Serving,
         (\A c \in Calls : ~Connected(c)) \/ stage' \in {"listening", "draining"}
             \/ stage' = stage
  PROVE  ServicesInv'
<1> USE DEF ServicesInv, callVars, workerVars, loopVars
<1>1. ServicesTypeOK'
  <2>1. ServersTypeOK' BY DEF ServicesTypeOK, ServersTypeOK
  <2>2. BackendTypeOK' BY DEF ServicesTypeOK, BackendTypeOK
  <2>3. WorkerTypeOK' BY DEF ServicesTypeOK, WorkerTypeOK
  <2> QED BY <2>1, <2>2, <2>3 DEF ServicesTypeOK
<1>2. WorkerInv' BY DEF WorkerInv
<1>3. HandlersInv' /\ FailureInv' /\ NoBodyLeft'
  BY DEF HandlersInv, FailureInv, NoBodyLeft, Connected, InFlight
<1> QED BY <1>1, <1>2, <1>3

(* The steps of main() and shutdown(). *)
LEMMA BackendSteps ==
  ASSUME ServicesInv, BackendStep, UNCHANGED workerVars PROVE ServicesInv'
<1> USE DEF serverVars
<1>t. /\ BootInv /\ attempt \in Nat \ {0} /\ bucket \in BOOLEAN /\ schema \in BOOLEAN
      /\ stage \in Stages
  BY DEF ServicesInv, ServicesTypeOK, BackendTypeOK, ServersTypeOK
<1>n. 1 \in Nat \ {0} /\ attempt + 1 \in Nat \ {0}
  <2>1. attempt \in Nat \ {0} BY <1>t
  <2> QED BY <2>1
<1>1. ASSUME stage \in {"database", "schema", "bucket", "queue", "exited"}, NEW s \in Stages,
             EnterStage(s), up' = up, bucket' \in BOOLEAN, schema' \in {schema, TRUE}, BootInv'
      PROVE  ServicesInv'
  BY <1>1, <1>t, <1>n, StageStep, Unconnected DEF EnterStage
<1>2. ASSUME NEW limit, Retry(limit), stage \notin {"listening", "draining"},
             UNCHANGED <<up, schema, bucket>>
      PROVE  ServicesInv'
  <2>1. CASE Exit BY <1>2, <1>t, <2>1, ExitStep
  <2>2. CASE attempt' = attempt + 1 /\ UNCHANGED <<stage, shaken, callVars>>
    <3>1. BootInv' BY <1>t, <1>2, <2>2 DEF BootInv
    <3> QED BY <1>2, <1>t, <1>n, <2>2, <3>1, StageStep
  <2> QED BY <1>2, <2>1, <2>2 DEF Retry
<1>3. CASE ConnectDatabase
  <2>1. CASE "postgres" \in up
    <3>1. BootInv' BY <1>t, <1>3, <2>1 DEF ConnectDatabase, EnterStage, BootInv
    <3> QED BY <1>t, <1>1, <1>3, <2>1, <3>1 DEF ConnectDatabase
  <2> QED BY <1>2, <1>3, <2>1 DEF ConnectDatabase
<1>4. CASE ApplySchema
  <2>1. CASE "postgres" \in up
    <3>1. BootInv' BY <1>t, <1>4, <2>1 DEF ApplySchema, EnterStage, BootInv
    <3> QED BY <1>t, <1>1, <1>4, <2>1, <3>1 DEF ApplySchema
  <2> QED BY <1>t, <1>4, <2>1, ExitStep DEF ApplySchema
<1>5. CASE EnsureBucket
  <2>1. CASE "s3" \in up
    <3>1. BootInv' BY <1>t, <1>5, <2>1 DEF EnsureBucket, EnterStage, BootInv
    <3> QED BY <1>t, <1>1, <1>5, <2>1, <3>1 DEF EnsureBucket
  <2> QED BY <1>2, <1>5, <2>1 DEF EnsureBucket
<1>6. CASE CreateBucketFails
  BY <1>t, <1>6, ExitStep DEF CreateBucketFails, GoDown
<1>7. CASE ConnectQueue
  <2>1. CASE "broker" \in up
    <3>1. BootInv' BY <1>t, <1>7, <2>1 DEF ConnectQueue, EnterStage, BootInv
    <3> QED BY <1>t, <1>1, <1>7, <2>1, <3>1 DEF ConnectQueue
  <2> QED BY <1>2, <1>7, <2>1 DEF ConnectQueue
<1>8. CASE ShutDown
  <2>1. BootInv' BY <1>t, <1>8 DEF ShutDown, EnterStage, BootInv
  <2> QED BY <1>t, <1>8, <2>1, StageStep DEF ShutDown, EnterStage
<1>9. CASE CloseServer \/ CloseQueue
  <2>1. BootInv' BY <1>t, <1>9 DEF CloseServer, CloseQueue, EnterStage, BootInv
  <2>2. \A c \in Calls : ~Connected(c) BY <1>9, Unconnected DEF CloseServer, CloseQueue
  <2> QED BY <1>t, <1>n, <1>9, <2>1, <2>2, StageStep DEF CloseServer, CloseQueue, EnterStage
<1>10. CASE CloseDatabase BY <1>t, <1>10, ExitStep DEF CloseDatabase
<1>11. CASE StartBackend BY <1>11, StartStep
<1>12. CASE Kill \/ CrashBackend BY <1>12, AbortStep DEF Kill, CrashBackend
<1> QED BY <1>12, <1>3, <1>4, <1>5, <1>6, <1>7, <1>8, <1>9, <1>10, <1>11 DEF BackendStep, Boot
-----------------------------------------------------------------------------
(* What a handler may make of its own call. *)
CallEffect(c) ==
    /\ \E to \in Awaits \cup Answers :
          /\ call' = [call EXCEPT ![c] = to]
          /\ to \in Awaits /\ c \notin gone' => stage \in {"listening", "draining"}
          /\ c \in gone' => to \in Awaits
          /\ to = "failed" \/ (to = "marking" /\ c \notin gone') => shaken \/ c \in faulted'
          /\ c \in bodies' => to = "streaming"
    /\ stage \in Serving
    /\ gone' \in {gone, gone \cup {c}, gone \ {c}}
    /\ probed' \in [Calls -> SUBSET Servers]
    /\ bodies' \in {bodies, bodies \cup {c}, bodies \ {c}}
    /\ faulted' \in {faulted, faulted \cup {c}, faulted \ {c}}

(* Of the others it makes nothing. *)
LEMMA EffectKeeps ==
  ASSUME ServicesInv, NEW c \in Calls, CallEffect(c),
         UNCHANGED serverVars, UNCHANGED processVars, UNCHANGED workerVars
  PROVE  ServicesInv'
<1> USE DEF ServicesInv, CallEffect, serverVars, processVars, workerVars, loopVars
<1>1. PICK to \in Awaits \cup Answers :
          /\ call' = [call EXCEPT ![c] = to]
          /\ to \in Awaits /\ c \notin gone' => stage \in {"listening", "draining"}
          /\ c \in gone' => to \in Awaits
          /\ to = "failed" \/ (to = "marking" /\ c \notin gone') => shaken \/ c \in faulted'
          /\ c \in bodies' => to = "streaming"
  OBVIOUS
<1>2. /\ call \in [Calls -> Awaits \cup Answers]
      /\ gone \subseteq Calls /\ bodies \subseteq Calls /\ faulted \subseteq Calls
  BY DEF ServicesTypeOK, BackendTypeOK
<1>3. call'[c] = to /\ \A d \in Calls : d # c => call'[d] = call[d] BY <1>1, <1>2
<1>4. \A d \in Calls : d # c => /\ d \in gone' <=> d \in gone
                                /\ d \in bodies' <=> d \in bodies
                                /\ d \in faulted' <=> d \in faulted
  <2>1. \A d \in Calls : d # c => (d \in gone' <=> d \in gone) OBVIOUS
  <2>2. \A d \in Calls : d # c => (d \in bodies' <=> d \in bodies) OBVIOUS
  <2>3. \A d \in Calls : d # c => (d \in faulted' <=> d \in faulted) OBVIOUS
  <2> QED BY <2>1, <2>2, <2>3
<1>5. ServicesTypeOK'
  <2>1. ServersTypeOK' BY DEF ServicesTypeOK, ServersTypeOK
  <2>2. call' \in [Calls -> Awaits \cup Answers] BY <1>1, <1>2
  <2>3. gone' \subseteq Calls /\ bodies' \subseteq Calls /\ faulted' \subseteq Calls BY <1>2
  <2>4. BackendTypeOK' BY <2>2, <2>3 DEF ServicesTypeOK, BackendTypeOK
  <2>5. WorkerTypeOK' BY DEF ServicesTypeOK, WorkerTypeOK
  <2> QED BY <2>1, <2>4, <2>5 DEF ServicesTypeOK
<1>6. BootInv' /\ WorkerInv' BY DEF BootInv, WorkerInv
<1>7. HandlersInv' BY <1>1, <1>3, <1>4 DEF HandlersInv, Connected, InFlight
<1>8. FailureInv' BY <1>1, <1>3, <1>4 DEF FailureInv
<1>9. NoBodyLeft' BY <1>1, <1>2, <1>3, <1>4 DEF NoBodyLeft
<1> QED BY <1>5, <1>6, <1>7, <1>8, <1>9

(* Behind the listener, and before the services are closed, none is lost   *)
(* without an outage: what else fails marks its call.                      *)
LEMMA FailuresMark ==
  ASSUME ServicesInv, NEW c \in Calls, NEW s \in Servers, Fails(c, s)
  PROVE  /\ faulted' \in {faulted, faulted \cup {c}, faulted \ {c}}
         /\ stage \in {"listening", "draining"} => shaken \/ c \in faulted'
BY DEF ServicesInv, BootInv, Fails, Lost, Reachable, Closed

(* An answer below 500, and the others: seen by a client that waits. *)
Served(c) ==
    /\ call' = [call EXCEPT ![c] = "answered"]
    /\ gone' = gone \ {c}
    /\ probed' = [probed EXCEPT ![c] = {}]

Refused(c) ==
    /\ call' = [call EXCEPT ![c] = IF c \notin gone THEN "failed" ELSE "answered"]
    /\ gone' = gone \ {c}
    /\ probed' = [probed EXCEPT ![c] = {}]

ClientErrors == {"bad_request", "not_found", "unsupported_media_type", "LIMIT_FILE_SIZE",
                 "LIMIT_UNEXPECTED_FILE"}
ServerErrors == {"service_unavailable", "internal_error"}

(* Which answers are which. *)
LEMMA AnswerKinds ==
  ASSUME NEW c \in Calls
  PROVE  /\ Answer(c, 200) \/ Answer(c, 202) => Served(c)
         /\ Answer(c, 500) \/ Answer(c, 503) => Refused(c)
         /\ \A e \in ClientErrors : Throw(c, e) => Served(c) /\ UNCHANGED bodies
         /\ \A e \in ServerErrors : Throw(c, e) => Refused(c) /\ UNCHANGED bodies
<1>1. /\ Answer(c, 200) \/ Answer(c, 202) => Served(c)
      /\ Answer(c, 500) \/ Answer(c, 503) => Refused(c)
  BY DEF Answer, Served, Refused
<1>2. /\ Answer(c, 400) \/ Answer(c, 404) \/ Answer(c, 413) \/ Answer(c, 415) => Served(c)
  BY DEF Answer, Served
<1>3. /\ StatusOf["bad_request"] = 400 /\ StatusOf["not_found"] = 404
      /\ StatusOf["unsupported_media_type"] = 415 /\ StatusOf["service_unavailable"] = 503
      /\ StatusOf["LIMIT_FILE_SIZE"] = 413 /\ StatusOf["LIMIT_UNEXPECTED_FILE"] = 400
      /\ StatusOf["internal_error"] = 500
  BY DEF StatusOf
<1>4. ASSUME NEW e, Throw(c, e) PROVE Answer(c, StatusOf[e]) /\ UNCHANGED bodies
  BY <1>4 DEF Throw
<1> QED BY <1>1, <1>2, <1>3, <1>4 DEF ClientErrors, ServerErrors

(* What a call does to its own mark. *)
Marks(c) == faulted' \in {faulted, faulted \cup {c}, faulted \ {c}}

(* An answer ends the call. *)
LEMMA AnswerEffect ==
  ASSUME ServicesInv, NEW c \in Calls, stage \in Serving, Marks(c),
         Served(c) \/ (Refused(c) /\ (c \in gone \/ shaken \/ c \in faulted')),
         bodies' = bodies \ {c} \/ (bodies' = bodies /\ call[c] # "streaming")
  PROVE  CallEffect(c)
<1>1. \E to \in Answers :
          call' = [call EXCEPT ![c] = to] /\ (to = "failed" => shaken \/ c \in faulted')
  BY DEF Served, Refused
<1>2. c \notin gone' /\ gone' = gone \ {c} BY DEF Served, Refused
<1>3. probed' \in [Calls -> SUBSET Servers]
  BY DEF Served, Refused, ServicesInv, ServicesTypeOK, BackendTypeOK
<1>4. c \notin bodies' BY DEF ServicesInv, NoBodyLeft
<1> QED BY <1>1, <1>2, <1>3, <1>4 DEF CallEffect, Marks

(* An await is for a client that waits, or for one that has left. *)
LEMMA AwaitEffect ==
  ASSUME ServicesInv, NEW c \in Calls, NEW place \in Awaits, Await(c, place), Marks(c),
         stage \in Serving, c \in gone \/ stage \in {"listening", "draining"},
         place = "marking" /\ c \notin gone => shaken \/ c \in faulted',
         call[c] # "streaming"
  PROVE  CallEffect(c)
<1>1. probed' \in [Calls -> SUBSET Servers] /\ gone' = gone /\ bodies' = bodies
  BY DEF Await, ServicesInv, ServicesTypeOK, BackendTypeOK
<1>2. c \notin bodies' BY <1>1 DEF ServicesInv, NoBodyLeft
<1> QED BY <1>1, <1>2 DEF Await, CallEffect, Marks

(* Every step of a handler is an await or an answer of the kinds above. *)
LEMMA CallSteps ==
  ASSUME ServicesInv, NEW c \in Calls, CallStep(c), UNCHANGED workerVars PROVE ServicesInv'
<1>1. /\ call[c] \in Awaits => stage \in Serving
      /\ call[c] \in Awaits /\ c \notin gone => stage \in {"listening", "draining"}
      /\ call[c] = "marking" /\ c \notin gone => shaken \/ c \in faulted
      /\ probed \in [Calls -> SUBSET Servers]
      /\ c \in bodies => call[c] = "streaming"
      /\ c \in gone => call[c] \in Awaits
  BY DEF ServicesInv, HandlersInv, FailureInv, NoBodyLeft, Connected, InFlight, ServicesTypeOK,
     BackendTypeOK
<1>3. /\ Asks["putting"] = "s3" /\ Asks["inserting"] = "postgres"
      /\ Asks["publishing"] = "broker" /\ Asks["marking"] = "postgres"
      /\ Asks["finding"] = "postgres" /\ Asks["listing"] = "postgres"
      /\ Asks["locating"] = "postgres" /\ Asks["fetching"] = "s3"
      /\ Asks["streaming"] = "s3"
      /\ DOMAIN Asks \subseteq Awaits
      /\ \A place \in DOMAIN Asks : Asks[place] \in Servers
  BY DEF Asks
<1>m. UNCHANGED faulted => Marks(c) BY DEF Marks
<1>2. ASSUME Served(c), Marks(c), UNCHANGED bodies, call[c] # "streaming", stage \in Serving
      PROVE  CallEffect(c)
  BY <1>2, AnswerEffect
<1>4. ASSUME Refused(c), Marks(c), UNCHANGED bodies, call[c] # "streaming", stage \in Serving,
             c \in gone \/ shaken \/ c \in faulted'
      PROVE  CallEffect(c)
  BY <1>4, AnswerEffect
<1>f. ASSUME NEW s \in Servers, Fails(c, s), call[c] \in Awaits
      PROVE  Marks(c) /\ (c \in gone \/ shaken \/ c \in faulted')
  BY <1>1, <1>f, FailuresMark DEF Marks
<1>5. ASSUME Request(c) PROVE CallEffect(c)
  <2>1. stage \in {"listening", "draining"} /\ call[c] \notin Awaits /\ Marks(c)
    BY <1>5 DEF Request, GetHealth, GetReady, PostInference, GetInferences, GetInference,
       NoRouteMatches, Accept, InFlight, Marks
  <2>2. ASSUME NEW place \in {"probing", "receiving", "listing", "finding", "locating"},
               Await(c, place)
        PROVE  CallEffect(c)
    BY <2>1, <2>2, AwaitEffect
  <2>3. ASSUME NEW error \in {"bad_request", "not_found"}, Throw(c, error) PROVE CallEffect(c)
    BY <1>2, <2>1, <2>3, AnswerKinds DEF ClientErrors
  <2>4. CASE Answer(c, 200) /\ UNCHANGED bodies BY <1>2, <2>1, <2>4, AnswerKinds
  <2> QED BY <1>5, <2>2, <2>3, <2>4 DEF Request, GetHealth, GetReady, PostInference,
      GetInferences, GetInference, NoRouteMatches
<1>6. ASSUME Leave(c) PROVE CallEffect(c)
  <2>1. call' = [call EXCEPT ![c] = call[c]] /\ call[c] \in Awaits
    BY <1>6 DEF Leave, Connected, InFlight, ServicesInv, ServicesTypeOK, BackendTypeOK
  <2> QED BY <1>1, <1>6, <2>1 DEF Leave, CallEffect
<1>7. ASSUME Upload(c) PROVE CallEffect(c)
  <2>1. CASE ReceiveUpload(c)
    <3>1. CASE UNCHANGED faulted /\ Await(c, "putting")
      BY <1>1, <1>m, <2>1, <3>1, AwaitEffect DEF ReceiveUpload
    <3>2. ASSUME NEW error \in {"LIMIT_FILE_SIZE", "LIMIT_UNEXPECTED_FILE", "bad_request",
                                "unsupported_media_type"}, UNCHANGED faulted, Throw(c, error)
          PROVE  CallEffect(c)
      BY <1>1, <1>2, <1>m, <2>1, <3>2, AnswerKinds DEF ClientErrors, ReceiveUpload
    <3>3. CASE faulted' = faulted \cup {c} /\ Throw(c, "internal_error")
      BY <1>1, <1>4, <2>1, <3>3, AnswerKinds DEF ServerErrors, ReceiveUpload, Marks
    <3> QED BY <2>1, <3>1, <3>2, <3>3 DEF ReceiveUpload
  <2>2. CASE PutImage(c) BY <1>1, <1>m, <2>2, AwaitEffect DEF PutImage, Resolves
  <2>3. CASE CreateRequest(c) BY <1>1, <1>m, <2>3, AwaitEffect DEF CreateRequest, Resolves
  <2>4. CASE Resolves(c, "publishing") /\ Answer(c, 202) /\ UNCHANGED bodies
    BY <1>1, <1>2, <1>m, <2>4, AnswerKinds DEF Resolves
  <2>5. CASE Rejects(c, "publishing") /\ Await(c, "marking")
    <3>1. Marks(c) /\ (c \in gone \/ shaken \/ c \in faulted')
      BY <1>3, <1>f, <2>5 DEF Rejects
    <3> QED BY <1>1, <2>5, <3>1, AwaitEffect DEF Rejects
  <2>6. CASE MarkFailed(c)
    BY <1>1, <1>4, <1>m, <2>6, AnswerKinds DEF MarkFailed, Resolves, ServerErrors
  <2> QED BY <1>7, <2>1, <2>2, <2>3, <2>4, <2>5, <2>6 DEF Upload, PublishJob
<1>8. ASSUME Read(c) PROVE CallEffect(c)
  <2>1. CASE FindRequest(c) \/ ListRequests(c)
    BY <1>1, <1>2, <1>m, <2>1, AnswerKinds DEF FindRequest, ListRequests, Resolves, ClientErrors
  <2>2. CASE FindImageLocation(c)
    <3>1. CASE Await(c, "fetching")
      BY <1>1, <1>m, <2>2, <3>1, AwaitEffect DEF FindImageLocation, Resolves
    <3>2. CASE Throw(c, "not_found")
      BY <1>1, <1>2, <1>m, <2>2, <3>2, AnswerKinds DEF FindImageLocation, Resolves, ClientErrors
    <3> QED BY <2>2, <3>1, <3>2 DEF FindImageLocation
  <2>3. CASE GetImage(c)
    <3>0. CASE Throw(c, "not_found")
      BY <1>1, <1>2, <1>m, <2>3, <3>0, AnswerKinds DEF GetImage, Resolves, ClientErrors
    <3>1. CASE c \in gone /\ Throw(c, "internal_error")
      BY <1>1, <1>4, <1>m, <2>3, <3>1, AnswerKinds DEF GetImage, Resolves, ServerErrors
    <3>2. CASE /\ c \notin gone
               /\ call' = [call EXCEPT ![c] = "streaming"]
               /\ bodies' = bodies \cup {c}
               /\ UNCHANGED <<gone, probed>>
      BY <1>1, <2>3, <3>2 DEF GetImage, Resolves, CallEffect
    <3> QED BY <2>3, <3>0, <3>1, <3>2 DEF GetImage
  <2>4. CASE StreamImage(c)
    <3>1. CASE UNCHANGED faulted /\ Answer(c, 200)
      BY <1>1, <1>m, <2>4, <3>1, AnswerKinds, AnswerEffect DEF StreamImage
    <3>2. CASE c \in gone /\ UNCHANGED faulted /\ Answer(c, 500)
      BY <1>1, <1>m, <2>4, <3>2, AnswerKinds, AnswerEffect DEF StreamImage
    <3>3. CASE Fails(c, "s3") /\ Answer(c, 500)
      <4>1. Marks(c) /\ (c \in gone \/ shaken \/ c \in faulted')
        BY <1>f, <2>4, <3>3 DEF StreamImage
      <4> QED BY <1>1, <2>4, <3>3, <4>1, AnswerKinds, AnswerEffect DEF StreamImage
    <3> QED BY <2>4, <3>1, <3>2, <3>3 DEF StreamImage
  <2> QED BY <1>8, <2>1, <2>2, <2>3, <2>4 DEF Read
<1>9. ASSUME Probe(c) PROVE CallEffect(c)
  <2>1. PICK s \in Servers \ probed[c] :
          \/ Fails(c, s) /\ Answer(c, 503)
          \/ /\ Reachable(s) /\ probed[c] \cup {s} = Servers
             /\ Answer(c, 200) /\ UNCHANGED faulted
          \/ /\ Reachable(s) /\ probed[c] \cup {s} # Servers
             /\ probed' = [probed EXCEPT ![c] = @ \cup {s}]
             /\ UNCHANGED <<call, gone, faulted>>
    BY <1>9 DEF Probe
  <2>2. call[c] = "probing" /\ UNCHANGED bodies BY <1>9 DEF Probe
  <2>3. CASE Fails(c, s) /\ Answer(c, 503) BY <1>1, <1>4, <1>f, <2>2, <2>3, AnswerKinds
  <2>4. CASE Answer(c, 200) /\ UNCHANGED faulted BY <1>1, <1>2, <1>m, <2>2, <2>4, AnswerKinds
  <2>5. CASE probed' = [probed EXCEPT ![c] = @ \cup {s}] /\ UNCHANGED <<call, gone, faulted>>
    <3>1. probed' \in [Calls -> SUBSET Servers] BY <1>1, <2>5
    <3>2. call' = [call EXCEPT ![c] = "probing"]
      BY <2>2, <2>5 DEF ServicesInv, ServicesTypeOK, BackendTypeOK
    <3> QED BY <1>1, <2>2, <2>5, <3>1, <3>2 DEF CallEffect
  <2> QED BY <2>1, <2>3, <2>4, <2>5
<1>10. ASSUME AwaitRejects(c) PROVE CallEffect(c)
  <2>1. PICK place \in DOMAIN Asks \ {"publishing", "streaming"} :
            call[c] = place /\ Fails(c, Asks[place]) /\ Throw(c, "internal_error")
    BY <1>10 DEF AwaitRejects, Rejects
  <2>2. Marks(c) /\ (c \in gone \/ shaken \/ c \in faulted') BY <1>3, <1>f, <2>1
  <2> QED BY <1>1, <1>3, <1>4, <2>1, <2>2, AnswerKinds DEF ServerErrors
<1> QED BY <1>5, <1>6, <1>7, <1>8, <1>9, <1>10, EffectKeeps DEF CallStep
-----------------------------------------------------------------------------
(* The backoff is doubled and capped. *)
LEMMA BackoffBounded ==
  ASSUME NEW d \in InitialDelay..MaxDelay PROVE Min({d * 2, MaxDelay}) \in InitialDelay..MaxDelay
<1> USE DelaysAssumption
<1>1. d * 2 \in Int /\ d * 2 >= InitialDelay /\ MaxDelay >= InitialDelay OBVIOUS
<1>2. \E x \in {d * 2, MaxDelay} : \A y \in {d * 2, MaxDelay} : x =< y BY <1>1
<1>3. /\ Min({d * 2, MaxDelay}) \in {d * 2, MaxDelay}
      /\ \A y \in {d * 2, MaxDelay} : Min({d * 2, MaxDelay}) =< y
  BY <1>2 DEF Min
<1> QED BY <1>1, <1>3

(* The worker's own variables: it starts behind the gate of Compose, and   *)
(* has a connection between _open and the close.                           *)
LEMMA WorkerSteps ==
  ASSUME ServicesInv, StartWorker \/ WorkerStep, UNCHANGED backendVars PROVE ServicesInv'
<1> USE DEF ServicesInv, serverVars
<1>1. UNCHANGED serverVars
  BY DEF StartWorker, FirstStart, WorkerStep, Waiting, WaitForPostgres, WaitForBucket, WaitFor,
     Restart, TestStopping, WakeUp, StopConsuming, Opening, Connect, ConnectFails, Declaring,
     StartConsuming, DeclareFails, Consuming, Deliver, CallbackReturns, LossRaises,
     ConnectionLost, HandleSignal
<1>2. BootInv' /\ HandlersInv' /\ FailureInv' /\ NoBodyLeft'
  BY <1>1 DEF BootInv, HandlersInv, FailureInv, NoBodyLeft, Connected, InFlight, backendVars,
     processVars, callVars
<1>3. ServersTypeOK' /\ BackendTypeOK'
  BY <1>1 DEF ServicesTypeOK, ServersTypeOK, BackendTypeOK, backendVars, processVars, callVars
<1>4. WorkerTypeOK'
  <2> USE DelaysAssumption DEF WorkerTypeOK, Places, Booting, Running
  <2>0. WorkerTypeOK BY DEF ServicesTypeOK
  <2>1. CASE StartWorker \/ Restart
    <3>1. InitialDelay \in InitialDelay..MaxDelay OBVIOUS
    <3>2. 1 \in 1..ReadyAttempts OBVIOUS
    <3>3. tries' = 1 /\ delay' = InitialDelay /\ at' = "postgres" /\ stopping' = FALSE
          /\ connection' = connection /\ scheduled' = scheduled
      BY <2>1 DEF StartWorker, FirstStart, Restart, EnterMain
    <3> QED BY <2>0, <3>1, <3>2, <3>3
  <2>2. CASE Waiting
    <3>1. tries \in 1..ReadyAttempts => tries + 1 \in 1..ReadyAttempts \/ tries = ReadyAttempts
      OBVIOUS
    <3>2. 1 \in 1..ReadyAttempts OBVIOUS
    <3>3. tries' = 1 \/ (tries # ReadyAttempts /\ tries' = tries + 1)
      BY <2>2 DEF Waiting, WaitForPostgres, WaitForBucket, WaitFor
    <3>4. tries' \in 1..ReadyAttempts BY <2>0, <3>1, <3>2, <3>3
    <3> QED BY <2>0, <2>2, <3>4 DEF Waiting, WaitForPostgres, WaitForBucket, WaitFor
  <2>3. CASE WakeUp
    <3>1. delay' \in InitialDelay..MaxDelay BY <2>0, <2>3, BackoffBounded DEF WakeUp
    <3> QED BY <2>0, <2>3, <3>1 DEF WakeUp, CloseQuietly
  <2>4. CASE StartConsuming
    <3>1. InitialDelay \in InitialDelay..MaxDelay OBVIOUS
    <3> QED BY <2>0, <2>4, <3>1 DEF StartConsuming
  <2>5. CASE TestStopping \/ StopConsuming \/ Connect \/ Deliver \/ CallbackReturns \/ ConnectionLost
    BY <2>0, <2>5 DEF TestStopping, StopConsuming, CloseQuietly, Connect, Deliver,
       CallbackReturns, ConnectionLost
  <2>6. CASE ConnectFails \/ DeclareFails \/ LossRaises
    BY <2>0, <2>6 DEF ConnectFails, DeclareFails, LossRaises, BrokerError, CloseQuietly
  <2>7. CASE HandleSignal
    <3>1. stopping' \in BOOLEAN /\ scheduled' \in BOOLEAN BY <2>0, <2>7 DEF HandleSignal
    <3> QED BY <2>0, <2>7, <3>1 DEF HandleSignal
  <2> QED BY <2>1, <2>2, <2>3, <2>4, <2>5, <2>6, <2>7 DEF WorkerStep, Opening, Declaring, Consuming
<1>5. WorkerInv'
  <2> USE DEF WorkerInv
  <2>1. CASE StartWorker
    BY <2>1, <1>1 DEF StartWorker, FirstStart, EnterMain, BootInv
  <2>2. CASE Waiting \/ Restart
    BY <2>2, <1>1 DEF Waiting, WaitForPostgres, WaitForBucket, WaitFor, Restart, EnterMain
  <2>3. CASE TestStopping \/ WakeUp \/ StopConsuming \/ ConnectionLost \/ HandleSignal
    BY <2>3, <1>1 DEF TestStopping, WakeUp, StopConsuming, CloseQuietly, ConnectionLost, HandleSignal
  <2>4. CASE Opening \/ Declaring
    BY <2>4, <1>1 DEF Opening, Connect, ConnectFails, Declaring, StartConsuming, DeclareFails,
       BrokerError, CloseQuietly
  <2>5. CASE Consuming
    BY <2>5, <1>1 DEF Consuming, Deliver, CallbackReturns, LossRaises, BrokerError, CloseQuietly
  <2> QED BY <2>1, <2>2, <2>3, <2>4, <2>5 DEF WorkerStep
<1> QED BY <1>2, <1>3, <1>4, <1>5 DEF ServicesTypeOK
-----------------------------------------------------------------------------
(* ServicesInv is inductive; nothing is assumed of fairness. *)
THEOREM ServicesInvariance == Spec => []ServicesInv
<1>1. ServicesInv /\ [Next]_vars => ServicesInv'
  <2> SUFFICES ASSUME ServicesInv, [Next]_vars PROVE ServicesInv' OBVIOUS
  <2>1. CASE UNCHANGED vars
    <3> USE <2>1 DEF vars, serverVars, backendVars, processVars, callVars, workerVars, loopVars,
            ServicesInv
    <3>1. ServersTypeOK' BY DEF ServicesTypeOK, ServersTypeOK
    <3>2. BackendTypeOK' BY DEF ServicesTypeOK, BackendTypeOK
    <3>3. WorkerTypeOK' BY DEF ServicesTypeOK, WorkerTypeOK
    <3>4. BootInv' /\ WorkerInv' BY DEF BootInv, WorkerInv
    <3>5. HandlersInv' /\ FailureInv' /\ NoBodyLeft'
      BY DEF HandlersInv, FailureInv, NoBodyLeft, Connected, InFlight
    <3> QED BY <3>1, <3>2, <3>3, <3>4, <3>5 DEF ServicesTypeOK
  <2>2. CASE Next BY <2>2, ServerSteps, BackendSteps, CallSteps, WorkerSteps DEF Next
  <2> QED BY <2>1, <2>2
<1> QED BY <1>1, ServicesInit, PTL DEF Spec

(* Every variable keeps its type, the backoff its bounds. *)
THEOREM ServicesTypes == Spec => []ServicesTypeOK
BY ServicesInvariance, PTL DEF ServicesInv

(* No worker runs before the tables are there, whatever becomes of the     *)
(* backend that created them.                                              *)
THEOREM WorkersFindSchema == Spec => []RunsOnSchema
<1>1. ServicesInv => RunsOnSchema BY DEF ServicesInv, WorkerInv, RunsOnSchema, Running
<1> QED BY <1>1, ServicesInvariance, PTL

(* The shutdown takes no service from a client that waits. *)
THEOREM ServicesOutliveRequests == Spec => []LiveRequestsKeepServices
<1>1. ServicesInv => LiveRequestsKeepServices
  BY DEF ServicesInv, HandlersInv, LiveRequestsKeepServices
<1> QED BY <1>1, ServicesInvariance, PTL

(* The order in which main() connects and shutdown() closes fails nobody:  *)
(* without an outage, whoever waited and got a 5xx or was cut off had a    *)
(* fault of his own.                                                       *)
THEOREM OrderNeverFails == Spec => []OrderFailsNobody
<1>1. ServicesInv => OrderFailsNobody BY DEF ServicesInv, FailureInv, OrderFailsNobody
<1> QED BY <1>1, ServicesInvariance, PTL

(* Every open S3 body has a handler that streams it. *)
THEOREM BodiesAreStreamed == Spec => []NoBodyLeft
<1>1. ServicesInv => NoBodyLeft BY DEF ServicesInv
<1> QED BY <1>1, ServicesInvariance, PTL
-----------------------------------------------------------------------------
(* The steps of the reconnect loop, seen as those of ConsumerLink. *)
LEMMA LinkStep == ASSUME ServicesInv, [Next]_vars PROVE [Link!Next]_(Link!vars)
<1> USE DEF Link!vars, ServicesInv, WorkerInv
<1>1. CASE UNCHANGED workerVars BY <1>1 DEF workerVars, loopVars
<1>2. CASE UNCHANGED vars BY <1>2 DEF vars, workerVars, loopVars
<1>3. ASSUME StartWorker \/ WorkerStep PROVE [Link!Next]_(Link!vars)
  <2>0. connection \in {"none", "open", "lost"} BY DEF ServicesTypeOK, WorkerTypeOK
  <2>1. CASE StartWorker \/ Waiting \/ Restart \/ TestStopping \/ HandleSignal
    BY <2>1 DEF StartWorker, FirstStart, EnterMain, Waiting, WaitForPostgres, WaitForBucket,
       WaitFor, Restart, TestStopping, HandleSignal
  <2>2. CASE Connect
    BY <2>2 DEF Connect, Link!Next, Link!Open
  <2>3. CASE ConnectionLost
    BY <2>3 DEF ConnectionLost, Link!Next, Link!Drop
  <2>4. CASE Deliver
    BY <2>4 DEF Deliver, Link!Next, Link!Deliver
  <2>5. CASE CallbackReturns
    BY <2>5 DEF CallbackReturns, Link!Next, Link!Return
  <2>6. CASE WakeUp \/ StopConsuming
    BY <2>0, <2>6 DEF WakeUp, StopConsuming, CloseQuietly, Link!Next, Link!Close
  <2>7. CASE StartConsuming BY <2>7 DEF StartConsuming
  <2>8. CASE ConnectFails \/ DeclareFails
    BY <2>0, <2>8 DEF ConnectFails, DeclareFails, BrokerError, CloseQuietly, Link!Next, Link!Close
  <2>9. CASE LossRaises /\ at = "consuming"
    BY <2>9 DEF LossRaises, BrokerError, CloseQuietly, Link!Next, Link!Close
  <2>10. CASE LossRaises /\ at = "callback"
    BY <2>10 DEF LossRaises, BrokerError, CloseQuietly, Link!Next, Link!Return
  <2> QED BY <1>3, <2>1, <2>2, <2>3, <2>4, <2>5, <2>6, <2>7, <2>8, <2>9, <2>10
      DEF WorkerStep, Opening, Declaring, Consuming, LossRaises
<1> QED BY <1>1, <1>2, <1>3 DEF Next

(* The reconnect loop of the worker implements the connection Worker.tla   *)
(* is built on: open connections are closed between two deliveries only.   *)
THEOREM LoopKeepsLink == Spec => KeepsLink
<1>1. Init => Link!Init BY DEF Init, WorkerInit, Link!Init
<1> QED BY <1>1, LinkStep, ServicesInvariance, PTL DEF Spec, KeepsLink, Link!Spec
=============================================================================
