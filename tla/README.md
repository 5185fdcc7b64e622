# Verification of the image-classification service

TLA+ models of the service in this repository: a React frontend uploads an
image to an Express backend, which stores it in S3, records a job in Postgres,
queues it in RabbitMQ and answers 202; Python workers classify it and write the
result; the frontend polls the job. The models follow the source, one action
per step between two awaits (Node, React) or between two calls to a dependency
(Python). TLC checks them on small instances; TLAPS proves the safety
properties for every number of uploads, workers, channels, requests and files.

    tlc -workers 2 -config two_jobs.cfg MCPipeline     # one run
    tlapm PipelineProofs.tla                           # one module of proofs

`PROJECT.json` lists runs, hazards, findings and theorems, and maps each
definition to the source lines it models.

## 1. Inventory of the system

| Component (source) | State it keeps | Operations | Talks to |
|---|---|---|---|
| Upload handler (`inferenceController.create`, `queueService.publishJob`) | the await each upload stands at; unconfirmed publishes of one confirm channel shared by all | put image, insert row, publish, await `drain`, await confirms, 202 / 503 / 500 | S3, Postgres, broker |
| Job rows (`databaseService.ts`, `database.py`, `schema.sql`) | `status`, `error_message`, one result row per job | insert, mark processing, save success (one transaction), mark failed | written by backend and workers, read by the pages through the API |
| Image bucket (`s3Service.ts`, `storage.py`) | objects; whether the bucket exists | ensureBucket, putImage, download | backend writes, workers read |
| Queue and dead-letter queue (RabbitMQ; external) | where each message is, its redelivered flag | deliver, ack, nack, dead-letter, redeliver, confirm, refuse | backend, workers |
| Worker callback (`worker.py: _on_message, _fail`) | its delivery, the exception being handled | mark, download, classify, save, ack; requeue once; fail and dead-letter | Postgres, S3, broker |
| Worker process (`worker.py: main, run`) | connection, stop flag, scheduled stop, backoff | wait for stores, open, consume, back off, stop on signal | broker, Compose |
| Publish channel (`queueService.ts: setup, requireChannel`) | `this.channel`, channels of the connection | open lazily, recover, clear on close | upload handlers, readiness probe |
| Backend process (`server.ts`) | start stage, attempts | connect, apply schema, ensure bucket, listen, drain, close, kill | all servers |
| Routes and errors (`app.ts`, `routes/`, `middleware/`, the controller's `findOne`, `list`, `findImage`) | the requests in flight, the await each handler stands at, open image streams | parse, route, read, stream, probe, map an error to a status | Postgres, S3, broker, clients that may leave |
| Upload page (`ClassifyPage.tsx`, `ImagePicker.tsx`, `useInferenceJob.ts`) | form, requestId, preview and its object URLs, PollState, effect in force, timers | select, submit, reset, poll, time out, unmount | API |
| History page (`HistoryPage.tsx`) | list, reload token, refresh timer, fetch in force | load, refresh, abort | API |
| Configuration, logging | none | - | - |
| Training, command-line prediction (`train.py`, `predict.py`) | offline files | - | - |
| Presentation (markup, formatting) | none | - | - |

**What is hard.** No transaction spans the three stores: `create` writes image,
row and message one after the other, and a worker may have the message before
the handler has its confirm. All uploads share one confirm channel, so
`waitForConfirms` waits for other people's messages. The broker redelivers when
a connection goes, also while the callback whose connection it was runs on. A
retry is counted by a flag that the broker also sets by itself. The worker's
signal handler runs between any two bytecodes. A client may leave while its
handler goes on, also into a shutdown. In the browser, fetches, timers
and effects of one request outlive the render that started them. Processes
restart and LocalStack comes back empty; Postgres alone has a volume.
`PROJECT.json` lists 33 such hazards at their lines, with the property that
covers each, or why none does.

**What makes each component correct.**
- Handler and queue: a message names a row and an image that exist; 202 only
  for a job the broker has; nobody waits for a confirm that cannot come; every
  upload is answered.
- Worker and rows: each delivery is settled exactly once; a job completes only
  with its prediction stored, before the ack; one requeue; a settled job has a
  terminal status, a terminal status is final, and an unfinished job is
  somebody's business: a handler's, a queued message's or a worker's.
- Processes: nothing listens or consumes before what it needs exists; live
  requests keep their services; the order of start and shutdown costs no client its
  answer; shutdowns end; services find their way back.
- Image stream: whichever side fails or leaves, the S3 socket is released.
- Channel field: never a dead channel; failures heal.
- Pages: only the current job and the current preview are shown; one effect is
  alive; a page that has stopped polling says something; polling and refreshing end.
- Pages and pipeline together: no spinner turns over a job nobody will finish,
  and no page has to take back what it has shown as the end of a job.

## 2. Modules

| Module | Models | Main correspondence |
|---|---|---|
| `JobIds` | identities shared by all; which files pass `detectImageType` and which decode | `Unreadable`, `Truncated` |
| `JobStore` | rows: one operator per statement or transaction of `databaseService.ts` and `database.py` | `status`, `errorMessage`, `result`; `JobDto` = `toJobDto` |
| `ObjectStore` | bucket | `PutObject`, `EnsureBucket` |
| `JobQueue` | RabbitMQ as configured by both services | `msg[m]` says where a message is |
| `UploadHandler` | `InferenceController.create` with `publishJob`, per upload | `phase[r]` = the await it stands at; `awaiting[r]` = what its `waitForConfirms` still waits for |
| `Worker` | `_on_message`, `_fail`, `user_message`, per replica | `pc[w]` = next call; `error[w]` = exception in the handlers; `conn[w] = "stale"` = closed by the broker, not yet noticed |
| `InferencePipeline` | composition of the six above; kinds of fault as the constant `Faults` | `BackendNext`, `WorkerStep`, `Disaster` |
| `PipelineProperties`, `PipelineInvariant` | properties; the inductive invariant | - |
| `JobContract` | abstract specification of the pipeline | refined by `KeepsContract` |
| `MCPipeline` | symmetry of the instances | - |
| `PipelineProofs`, `StatusProofs`, `ContractProofs` | proofs for the pipeline | - |
| `PublishChannel`, `ChannelProofs` | `requireChannel`, `setup`, event handlers of `queueService.ts`; proofs | `channel` = `this.channel` |
| `Dependencies` | servers that go down and come up, bucket, schema | `docker-compose.yml` |
| `BackendLifecycle` | `server.ts`; the state of its requests | `stage` = the await of `main()` or `shutdown()`; `call[c]`, `gone` = handler and client of a request; history: `shaken` = a server has gone away since the start, `faulted` = the calls that had a fault of their own |
| `HttpApi` | every route: what it awaits, what it answers itself, what the error handler makes of the rest | `Asks` = the server behind each await; `Fails` = its rejection, because the service is lost or by a fault of the call; `StatusOf` = `toResponse`, `multerStatus`; `StreamImage` = `pipeline` |
| `WorkerLifecycle` | `main()`, `run()`, `_handle_signal` of `worker.py` | `at` = place in the loop |
| `ConsumerLink` | what `Worker` assumes of the reconnect loop | refined by `KeepsLink` |
| `Services`, `ServicesProofs` | composition of both processes over their servers; proofs | - |
| `ClassifyPage` | upload page with `useInferenceJob` | `poll[r]` = the effect of request r; `state` = PollState; `urls` = object URLs not revoked, each known by its file |
| `Browser`, `BrowserProofs` | the upload page over rows that change as `JobStore` allows; proofs | - |
| `HistoryPage`, `HistoryProofs` | list effect, refresh timer; proofs | `load` = the fetch in force; `newest` = what `ORDER BY created_at DESC LIMIT` finds |
| `Site`, `MCSite`, `SiteProofs` | composition of both pages with the pipeline; proofs | `Submit` = the POST of `uploadImage`; `Accepted`, `Refused` = the two outcomes of `request` in `client.ts`, of which the 202 is the handler's own; `RowsInOrder` = the order in which the pipeline inserts |

How they fit: `UploadHandler` lets `requireChannel` fail at will (`NoChannel`)
and has one channel; `PublishChannel` shows when it fails and that it heals.
`Worker` opens and loses connections at will, but ends a connection only between
two deliveries; `WorkerLifecycle` is shown to behave so (`ConsumerLink`).
`HttpApi` has the order of a handler's awaits and leaves open which rows and
objects exist; `UploadHandler` has the writes of an upload and lets each of them
fail at will. The pages see the store only through `JobDto`. `Browser` and
`HistoryPage` let rows change by every statement of `JobStore` in any order
(`RowWritten`, with `Told` as the sentences a row may be failed with), draw an id
for an upload that has no row, and take a 202 for one that has. That the pipeline
is an environment of this kind is not taken for granted: in `Site` the pages run
over the pipeline itself, and `KeepsPages` says that this is a behaviour of
`Browser` and of `HistoryPage`. Whatever safety property the pages have by themselves
they therefore have in the system (their liveness needs the fairness of section 3 besides).

Definitions whose comment begins with "Mutant:" are plausible bugs. No
specification uses them; substituted for the definition they precede they
break the property that guards it, as `PROJECT.json` ("mutants") lists.

### What is abstracted
- Payloads, predictions, MIME types, timestamps and texts: an image is a request
  id, a prediction is present or not, an error sentence is one of seven.
- Order in the queue (RabbitMQ may reorder redelivered messages; no property
  depends on order).
- A step of Python between two calls to a dependency is atomic, and so is a
  transaction of Postgres. A failing call may have committed all the same: its
  answer was lost (`SaveSuccessFails`, `CreateRequestFails`, `PutImageFails`).
- `created_at` is the order of the INSERTs; the length of a list is the constant
  `HistoryLimit`.
- What an await may run into with every server up is one outcome, which marks the
  call (`faulted`): a nack, a channel that dies, an S3 error or an object without
  a body, a statement or a probe that takes too long. The pool of ten connections
  with its five seconds is among these causes; its size is not modelled.
- One backend process, as `docker-compose.yml` has it. Any number of workers.
- Time: a delay, a heartbeat or a timeout is an action that may come late or
  early. That a response never comes is excluded for the browser (below).

## 3. Runs

Pipeline runs differ in the kinds of fault they admit, because what survives
differs: each property names, in its comment, the faults under which the code
cannot keep it.

| Run | Instance | Shows |
|---|---|---|
| `one_job` | 1 upload, a message that is no job, 2 workers, all 11 kinds of fault | types; a completed row has its prediction; unacked = held once; one voluntary requeue |
| `two_jobs` | 3 uploads (one truncated, one unreadable), 2 workers; crashes, lost backend connection, S3 and engine errors | row and image before message; 202 is truthful; confirms are due; one worker per job; settled is terminal; unfinished is owned; `JobContract` is implemented, the ack after the commit included |
| `site` | both pages over 1 upload, 2 workers; 1 file, 1 fetch of the list; S3, engine, wiped bucket, backend crash | what the pages tell is so and stays so; terminal is final; the pipeline is an environment of both pages |
| `answers` | 2 uploads, 1 worker, fairness; crashes, S3, lost backend connection | accepted jobs leave the queue; answered uploads end for good; every upload is answered |
| `services` | both processes, 3 servers, 2 attempts per loop, 1 request in flight on any route, delays 1..3 | schema before worker; live requests keep services; the order of start and shutdown fails nobody (a client that waits is failed by an outage or by a fault of its call); no stream left open; shutdowns and heard signals end; both come back, with the bucket; `ConsumerLink` is implemented |
| `channel` | 3 calls, 3 channel numbers; channels die in use and while being declared | channel field live; calls end; failures heal; no deadlock |
| `browser` | 2 submissions, 2 files | current job and preview only; one effect alive; outcome stands; page says something; polling ends |
| `history` | 2 jobs, a list of 1, 2 fetches alive | timer exactly while something listed is unfinished; a listed job leaves the list only pushed off by a newer one; page comes to rest |

Runs that TLC must find violated, each checking one sentence of the repository:

| Run | Sentence | What the code does |
|---|---|---|
| `redelivered_terminal` | "will never change again" (`types/inference.ts:52`) | crash between commit and ack: `mark_processing` turns 'completed' back into 'processing' |
| `lost_ack` | "no prediction is attached to a failure" (`tests/e2e.py:217`) | `basic_ack` raises inside the `try`: a job whose result is committed is marked failed |
| `refused_202` | "makes the 202 truthful" (`queueService.ts:91`) | a nack during `await drain` is in nobody's `waitForConfirms` |
| `unheard_stop` | "Consume until told to stop" (`worker.py:76`) | a signal while `BlockingConnection` is being constructed only sets the flag, and `run()` goes on to consume |

**Why the bounds are enough.** Properties of the pipeline relate at most two
uploads (a shared `waitForConfirms`) or two workers on one job (a redelivery
while the first runs on): two of each reach every such pair, and the third of
`two_jobs`, which `detectImageType` refuses, adds only its own way out. `two_jobs` leaves
to `one_job` the faults that need no second upload, and to the proofs the rest:
`PipelineProofs` has no bound. Three channels are one for the field, one for a
caller and one for recovery. Two fetches alive are the aborted and the current
one; a third adds another aborted one. A list of one with two jobs has both cases,
a list with room and one that is full; `HistoryProofs` has no bound. Two attempts per loop cover the first,
the last and the transition; delays 1, 2, 3 cover doubling and the cap. One
request in flight is enough to hold a shutdown up, and requests share nothing
but the services; `ServicesProofs` has no bound on them. Two files are the old
and the new one of a preview, and either can be picked again. `site` is about
where pages and pipeline meet: one job, the page that posted it, a list with it,
and whichever of two workers has it. What needs two submissions, two previews or an aborted
list concerns a page alone and is in `browser` and `history`, to whose
environment `KeepsPages` ties the pipeline; `SiteProofs` has no bound at all.
Symmetry of workers is used in safety runs only, where nothing tells them apart.

**Deadlock.** Uploads are finite, so the pipeline ends when all are done; the
pages and services may stop as well (an operator who never restarts a stopped
worker, request ids used up): `CHECK_DEADLOCK FALSE`. `PublishChannel` never
may, and is checked for it.

**Fairness.** Assumed: steps that Node, Python, React and timers take by
themselves; the broker delivers, confirms and drains while a connection lasts;
heartbeats expose a dead connection; a call to a dependency comes to *some* end,
never that it succeeds (`HandlerStep \/ HandlerFault`, `CallStep \/ CallFault`).
Not assumed: anything of users, operators or servers. Beyond that:
- `AcceptedLeavesQueue` and `AnsweredForGood` are conditional on workers that
  eventually stop dying: a worker that dies in every callback gets nothing done.
- Strong fairness of `StopConsuming`: pika's loop turns over between two
  callbacks and runs what has been scheduled on it, however busy the queue.
- A fetch of the browser ends because nginx answers for a backend that does not
  (`proxy_read_timeout`).
- `HistorySettles` has a premise in its statement, `ListsGetThrough`: not every
  list is slower than `REFRESH_MS`, nor fails. The code does not see to that (each
  refresh aborts the list under way), so it is no part of the specification.
- `BackendComesUp` and `WorkerComesUp` are conditional on servers (for the
  worker also the bucket) that are there from some time on.

## 4. Proofs

TLAPS checks eight modules; nothing is assumed but the named assumptions on
constants (identities are distinct, `Faults` are kinds of fault, limits, the
length of the list and delays are positive, `Null` is none of the values it stands beside).

**`PipelineProofs`**: `Spec => []IInv` (`Invariance`), for any `Requests`,
`Workers`, `Junk` and `Faults`, and from it the ten other theorems of the
module. The properties are not inductive. That an acked job has a prediction
depends on where the worker is (`SavedInv`: at "acking" the result is stored)
and on whose message it acks (`HolderInv`: an open connection holds what the
broker has out to it, and nobody else does). That a 202 is truthful depends on
who waits for which confirm (`ConfirmInv`), and that no handler waits for ever on
the common channel, on every way an unconfirmed message can leave it
(`ConfirmsAreDue`, under every fault). That a settled job has its terminal status
depends on what the worker has written before it settles (`AnsweredInv`). That one worker runs a job depends
on `HolderInv` and on connections being noticed dead (`FreshInv`). Each part
that needs the absence of a fault is an implication with `Without(kinds)`, so one
invariant serves every instance. The proof has one lemma per process step and
fault, each with a step per conjunct it can disturb.

**`StatusProofs`** adds `StatusInv`, which is inductive relative to `IInv`: a
handler before its INSERT has no row, and one that has answered 503 has failed
it (`UnwrittenInv`); what a worker has written shows that the broker has the
message, and its first call is what ends 'pending' (`TouchedInv`); without the
faults `CalmKinds` ("crash", "drop", "nack", "link" and "db") a terminal row's message is settled or about to be by the
worker that holds it (`FinalInv`), so that nobody can take the job up again, and
prediction and error follow the status (`CoherentInv`). Hence:
- `UnfinishedAlwaysOwned`, in two halves with hypotheses of their own. A pending
  row has a handler, a message or a dead backend behind it; a row in processing
  has a message that waits or that a worker holds, so that a crash in the callback
  leaves nothing that nobody comes back to.
- `TerminalStaysFinal`, `PollAlwaysCoherent` and `NeverPredictionOnFailure`: what
  the violated runs refute under a crash or a lost ack holds without all five
  kinds. "nack" and "link" are needed as much as the others: an upload whose
  confirm is lost fails its row late, over whatever the worker has written. S3,
  the engine, the backend process, the bucket and the database may fail or be
  emptied meanwhile.
- `PipelineKeepsRows`: every step of the pipeline writes at most one row, with a
  statement that row admits.

**`ContractProofs`**: without "nack", "reset" and "down" every step of the
pipeline is a step of `JobContract` or a stutter under the mapping of
`PipelineProperties` (a message is outstanding from the moment the broker has
it). The contract says what a client may rely on with no process or retry in
sight: 202 only for a job the system holds, finished only with a prediction,
finished or buried never taken up again.

**`ChannelProofs`**: `ChannelInv`, of which `FieldIsLive` is a part; the reason
is that an opening has exactly one owner (`OpeningInv`).

**`ServicesProofs`**: `ServicesInv`, for any number of requests and any limits.
What `main()` has come past is there as long as no server goes away (`BootInv`);
a client that waits keeps its process in "listening" or "draining"
(`HandlersInv`), so nothing is closed under it. An await of such a call that
rejects therefore has an outage behind it or a fault of its own, also when the
answer comes an await later, as the 503 after a failed publish does (`FailureInv`):
`OrderNeverFails`. That is a statement about the order of `main()` and `shutdown()`
and not about the number of 5xx. The other safety properties follow as well, and `LoopKeepsLink`: each step of the worker's loop is one of
`ConsumerLink` or a stutter, since a connection exists only in the places
`WorkerInv` names.

**`BrowserProofs`**: `BrowserInv`, for any number of files and requests. An id is
unheard of from the POST until its effect runs (`FormInv`), so the answer of an
older effect cannot describe it; what is not torn down belongs to the installed
effect (`EffectInv`); a settled state is about a job that is over or an error,
and its effect is gone (`StateInv`), so nothing overwrites it and the page has
something to say; the one live URL is that of the file the effect last ran with
(`PictureInv`).

**`HistoryProofs`**: `HistoryInv` is inductive as it stands (with `OneLoadAlive`
and `ListsAreCurrent` among its parts: a list on its way to the page names what is
shown, or newer jobs have pushed it off), and gives `ListOnlyMovesOn`
(`ListedUntilPushedOff`), for any number of jobs and any length of the list.

**`SiteProofs`**: the pages over the pipeline, for any number of uploads, workers,
files and fetches.
- The pipeline waits for no page, so `SiteSpec` implies `Spec` (`PipelineRuns`) and
  every theorem above holds in the composition.
- `SiteInv`: an id a page has was answered 202, hence published
  (`AnsweredIdInv`); and an answer that ends a job is what the row still says,
  in the response on its way, in the state of the page and in both stages of the list
  (`AnswersStandInv`). The second rests on a lemma about the pipeline: the row of a
  finished job does not change (`FinishedStays`).
- `OutcomeAlwaysFinal`, without `CalmKinds` and "reset", and
  `PagesAlwaysTellTheTruth`, without "down" besides, from it,
  `SpinnerAlwaysOwned` and `PollAlwaysCoherent`.
- `PipelineKeepsPages`, under every fault but an emptied database: each step of
  `Site` is a step of `Browser` and one of `HistoryPage`, or a stutter. Through
  it the theorems of `BrowserProofs` and `HistoryProofs` apply to the pages of
  `Site`; they are not restated there.

**Only model-checked**: every liveness property (fairness and ENABLED are beyond
the prover). The four violated properties of section 3 fail under the faults of
their runs. For three of them a theorem says under which they hold
(`TerminalStaysFinal`, `NeverPredictionOnFailure`, `AcceptedAlwaysQueued`);
`StopsWhenTold` has none.

## 5. What else the models show

Reachable in the models and promised nowhere, so neither checked nor findings:
- `once(channel, 'drain')` never settles when the connection goes: that upload
  is never answered (phase "hung", which `UploadIsAnswered` excludes by name).
- A backend that dies between row and message, a `markFailed` that raises, or
  `docker compose down` leaves a row 'pending' with no message behind it;
  nothing repairs it. `PendingIsOwned` names the first two as the only ways
  without the last.
- `server.close` waits for connections. The handler of a client that has left
  is not waited for: queue and pool may be closed under it, or the process may
  exit between its row and its message.
- The bucket is made when the backend starts and never again. After LocalStack
  restarts empty every upload fails, and a restarting worker gives up in a loop,
  until the backend restarts too (hence the premise of `WorkerComesUp`).
- An image asked for while the bucket is missing: the model answers 500, as
  GetObject then fails with NoSuchBucket, which is neither `NoSuchKey` nor
  `NotFound`; the comment at `s3Service.ts:125` expects a 404. What the SDK raises
  is outside this repository, so this is not listed as a finding.
- A transient error on a delivery that is a redelivery because of a *crash* gets
  no retry: the flag is already set.
- When several calls find the channel field null each opens a channel; the
  overtaken ones stay open until the connection closes.
- One failed poll ends polling for good, although the next might succeed.
- multer raises a plain error for a body it cannot parse (no boundary, a form that
  breaks off), which the error handler answers with a 500, also to a client that
  still waits (`ReceiveUpload`).
- A client that waits gets a 5xx with every server up, too: a nack or a dead channel
  ends its publish, the pool is full, S3 returns no body (`Fails`).
- `openChannel` attaches its 'error' listener after the last declaration: a channel
  that the broker closes before has none. Whether that ends the process is a
  matter of amqplib; the model lets the declaration fail (`DeclarationFails`).

## 6. Not modelled

- CORS, the JSON body parser and `requestLogger`: no route's outcome depends on
  them. A request Express or body-parser cannot parse (a broken URL escape,
  malformed JSON) is answered by the error handler before any handler runs, with
  a 500, since `toResponse` knows `ApiError` and `MulterError` only.
- Configuration and logging: read or written without behaviour over time; an
  invalid configuration throws before `main()`.
- `detectImageType`, `safeFilename`: pure functions of one input; what they
  decide for the rest is in `JobIds` and in `ReceiveUpload`. `parseLimit` and
  `requireUuid` appear as their two outcomes.
- The numbers of the forward pass: real arithmetic; only "decodes" and "may
  raise" matter to the rest.
- Training and prediction scripts: sequential programs outside the running
  system, which meet none of its state but the checkpoint file.
- Presentation: markup and formatting, the thumbnails of the history page
  included.

## 7. Order of work

The order puts the job's life first, then what surrounds it.

1. *(done)* Pipeline modules, runs by kind of fault, `JobContract`, proofs of the
   inductive invariant and of the refinement.
2. *(done)* Channel field with its proof; both processes over their servers; both pages.
3. *(done)* The routes with requests in flight, errors and image streams
   (`HttpApi`); preview URLs; pending rows.
4. *(done)* Proofs of the statuses, of the services and their refinement, and of
   both pages.
5. *(done)* The pages over the pipeline (`Site`), with the proof that the
   pipeline is the environment each page is modelled against; unfinished jobs
   and confirms that are due.
6. Open: the retry used up by a crash (a history variable in `Worker`), the size
   of the Postgres pool, the best epoch of the training loop as a function
   against its definition.
