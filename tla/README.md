# news2video: specifications, model checking and proofs

news2video turns JSON payloads into short videos and delivers them. These TLA+
modules follow a render job through the system: admission by rate limit and
quota, what the request takes with it, two Redis streams read by workers that
crash, restart, stop and race, the making of the video, its delivery against
deadlines, dead letters and their replay. Paths below are relative to the
repository.

## 1. The system

| Component | State it keeps | Operations | What makes it correct |
|---|---|---|---|
| Rate limit and quota (`orchestrator/middleware.go`) | a sorted set per project in Redis; `projects.jobs_today`, `last_reset_date` | count, refuse; reset at midnight, increment if below the limit | never more than the limit, no refusal before it, never stuck |
| Render requests (`orchestrator/handlers.go`, `dashboard_handlers.go`) | rows of `jobs`, entries of `render_jobs` | read destinations and template, presign, insert the row, add the entry | a message carries what was there; an accepted job ends |
| Templates, connections, assets (`dashboard_handlers.go`, `template_processor.go`, `s3.go`) | their tables; objects in S3 | create, edit, delete, list; fill in a template | a layer's file is the one its template names |
| OAuth (`oauth_*.go`, `distributor/adapter_*.go`) | tokens in `connections.config` | connect, refresh, use | a delivery is refused only when its tokens have gone |
| Stream worker (`common/worker/worker.go`), the loop of renderer and distributor | the consumer group and its pending list, the dead-letter stream, the entry in hand | reclaim on start, read, call the handler, copy to dead letters, acknowledge, stop | no entry is handled twice; none disappears unless something went wrong |
| Renderer (`renderer/main.go`) | `jobs.status`, the work directory, entries of `distribution_jobs` | set status, make the directory, generate the video, hand on | hands on only finished videos; a failed render leaves nothing behind |
| Video generation (`renderer/renderer.go`, `utils.go`) | temporary files | expand layers, fetch assets, draw overlays, write the filter graph | every input is its own layer's picture; texts take turns; overlays do not jump |
| Distributor (`distributor/`) | `jobs.status`, `output_storage_key`, the work directory, what destinations received | send to all destinations at once with retries and a deadline, set status, remove the directory | complete means delivered everywhere; a delivery ends |
| Admin CLI (`cmd/admin/`) | all tables; the dead-letter streams | add and remove tenants; list and replay dead letters | a replay loses no message |
| Web client (`client/`) | React state | poll jobs, upload, edit | shows the latest answer |

Interactions. A request passes the middleware, which counts it in Redis and
charges it in Postgres. Its handler copies the project's connections, tokens
included, and a template whose asset paths it turns into presigned URLs; it
writes a row and then adds an entry to `render_jobs`: two services, no
transaction. The renderer takes the entry, writes the row, writes
`WORK_DIR/<job>/final.mp4` on the shared volume and adds an entry to
`distribution_jobs`. The distributor takes that, sends the file to every
destination in parallel, writes the row and removes the directory. An error from
either handler makes the worker copy the entry to `<stream>_dlq`, from where an
operator can put it back.

Hard behaviours. A process can die between any two of these steps. Redis and
Postgres can refuse a command, or carry it out and have the answer lost; the
Redis client then sends the command again. SIGTERM cancels the handler's context
in the middle of its work, but not the dead-letter copy and the acknowledgement.
A slow handler looks stuck to a worker that starts. Several operators may replay
the same dead letters. Many requests cross midnight together and share a
connection pool. What a message carries ages on its way: rows are edited, URLs
and tokens expire, platforms replace tokens. `PROJECT.json` lists these hazards
with their lines and the properties that cover them.

## 2. Modules

| Module | Models |
|---|---|
| `Quota` | authentication, `quotaMiddleware` and the handler's queries, over one row and one pool |
| `RateLimit` | `rateLimitMiddleware` and the sorted set |
| `JobInputs` | what a request takes with it and what becomes of it until the job runs |
| `AtMostOnceQueue` | abstract: what a stream with one consumer group promises its users |
| `StreamWorker` | `worker.go` and `dlq replay`, command by command |
| `Pipeline` | a job from its row to the destinations, over two `AtMostOnceQueue`s |
| `VideoGeneration` | `generateVideo`: layers, files, inputs, filter graph |
| `Timeline`, `Overlay`, `BackgroundMotion` | when texts are shown, where an overlay is, where the camera is |
| `Renderer` | the four modules above side by side |
| `Delivery` | abstract: what the distributor's `processJob` promises |
| `Distribution` | `processJob` and the adapters, in seconds |
| `MC...` | instances for TLC; `MCAdmission` has `Quota` and `RateLimit` side by side |
| `StreamWorkerProofs`, `PipelineProofs`, `PipelineOnceProofs`, `QuotaProofs`, `RateLimitProofs`, `DistributionProofs`, `JobInputsProofs`, `RendererProofs` | theorems |

How they fit together: `Pipeline` is proved to use its streams as `AtMostOnceQueue` allows, which
`StreamWorker` is proved to implement, and takes a delivery at the promise that
`Distribution` is proved to keep (`Delivery`). `VideoGeneration` opens the step
of `Pipeline` that is called `RGenerated`. `Quota`, `RateLimit` and `JobInputs`
are what happens before `Pipeline!Insert`; `JobInputs` also follows the message
past it, and leaves the rows and queues of the job to `Pipeline`.

### Quota

One project's row (`jobsToday`, `resetDay`, its `lock`, and `mine`, the version
of whoever has the lock), the pool (`held`), each request's place (`pc`) and the
day it `began`, the `day`, and history (`charged`: the day under which a request
was counted).

| Action | Code |
|---|---|
| `Authenticate`, `NotAuthenticated` | `authMiddleware` (a query) or `jwtAuthMiddleware` (none) |
| `Begin`, `BeginFails` | `db.Begin`: waits for a connection |
| `Reset`, `Increment`, `OverLimit` | the two UPDATEs; `ErrNoRows` |
| `Refuse` | the limit's query through the pool, then 429 and the rollback |
| `Commit`, `CommitFails`, `StatementFails` | COMMIT, carried out or not; any other error fails open |
| `Handle`, `HandleFails` | the handler; the deferred rollback |
| `NextDay` | midnight |

READ COMMITTED is modelled by what it does: an UPDATE whose WHERE matches the
committed row waits for its lock and evaluates the WHERE again. `charged` is
the day of the row, not of the clock: a transaction that began before midnight
may commit after it. `WithinLimit` is therefore about the time between two
resets, and a calendar day may see charges of two of them.

### RateLimit

The clock, each request's `time` of reading it, the sorted set `zset` (members
are times in steps of the float64, 256 ns at today's counts), when the key
`expires`. Names that `Quota` has too are other ones here (`Calls`, `PerSecond`,
`stage`, `RateInit`, `RateNext`), since one run checks the two side by side.

| Action | Code |
|---|---|
| `ReadClock` | `time.Now().UnixNano()` |
| `Exec` | the transaction: ZREMRANGEBYSCORE, ZADD, ZCARD, EXPIRE; then the comparison |
| `ReplyLost` | the transaction runs, its reply is lost, the client sends it again |
| `ExecFails` | the client gives up: fail open |
| `Tick` | time; no request is on its way for longer than `MaxDelay` |

A late request cuts the set by its own, older window. `WindowHolds` states what
remains true: the limit holds in every window shortened by the longest delay,
counted in steps of the clock. Refused requests stay in the set and count
against the next ones (`middleware.go:74`), which `RefusedOnlyWhenBusy` reflects.

### JobInputs

The database as requests see it (`key`, `rows`, `own`), storage (`there`),
the platform's tokens (`issued`, `dies`, `refreshable`), each job's place and
what it carries (`copy`, `layer`, `file`, `using`), the `videos` in work
directories, and history (`moments`: the
states of the database since the request came; `stayed`; `hit`).

| Action | Code |
|---|---|
| `TikTokCallback`, `CreateConnection`, `DeleteConnection` | `oauth_tiktok.go`; the connection handlers |
| `CreateTemplate`, `UpdateTemplate`, `DeleteTemplate` | the template handlers |
| `UploadAsset`, `DeleteAsset` | the asset handlers, alone or with the folder |
| `ReadDestinations`, `ReadSomeDestinations` | `getDestinationsForProject`; the connection breaks between two rows |
| `ReadTemplate`, `CreateFinalTemplate`, `Dispatch`, `Reject` | the rest of both render request handlers |
| `Fetch` | the renderer fetches the layer's file |
| `Refresh`, `RefreshFails`, `Upload`, `DeliverOthers` | the TikTok adapter, which refreshes the tokens and then looks for the video; the other adapters; each ends with `cleanupWorkDir` |
| `Replay` | `dlq replay` of the job's message; after a refusal its video has gone, and the tokens are refreshed all the same |
| `Tick` | time: URLs and tokens die |

One project, one layer with one file, one asset. TikTok may or may not replace
the refresh token when it is used, and may or may not end what it granted when
the user consents again: both are choices, since the repository only shows the
client's side.

### AtMostOnceQueue

One variable, the phase of each entry: absent, queued, held, then done, dead
(its copy is in the dead letters) or dropped. Entries are handed out oldest
first. Nothing leads back: a held entry that is never settled stays held. That
is deliberately weaker than "at least once", because the code is.

### StreamWorker

Entries are positions 1, 2, ... of a stream that is never trimmed. The state is
Redis's (`added`, `msg`, `lastDelivered`, `owner`: the pending list, `stale`:
idle for longer than `StuckThreshold`; `deadAdded`, `dead`, `deadLive`), the
workers' (`wpc`, `wmsg`, `wclaim`, `stopping`), the operators' (`opc`, `olist`,
`odone`) and history (`runs`, `outcome`, `dropped`, `origin`).

| Action | Code |
|---|---|
| `Start` | `Run`: XGROUP CREATE, BUSYGROUP ignored |
| `ReclaimRead`, `ReclaimClaim`, `ReclaimError` | `reclaimStuckMessages`: XPENDING and its idle filter, XCLAIM, either failing |
| `Deliver`, `DeliverLost` | `processNextMessage`: XREADGROUP `>`; the reply arrives, or does not |
| `HandlerReturns` | the handler, as its outcome |
| `MoveToDLQ` | `moveToDLQ`: none, one or two copies |
| `Ack`, `AckLost` | `ackMessage` |
| `Exit`, `Stop`, `Crash` | `ctx.Done`, SIGTERM, death of the process |
| `ReplayRead`, `ReplayAdd`, `ReplayAbort`, `ReplayDelete`, `ReplayKilled` | `dlq replay`: XRANGE, XADD one by one, the abort that deletes what was added, XDEL, an interruption |
| `Publish`, `Age` | a producer; time |

Each Redis command is atomic; between two commands of a worker or an operator
anything else may happen. Payloads are model values; the only thing told apart
is whether there is a string `payload` field (`Malformed`).

### Pipeline

The state is the request's (`api`), the row's (`status`, `outputKey`), the two
queues' (`rjob`, `rphase`, `djob`, `dphase`), the volume's (`workdir`: none,
partial or video), the destinations' (`received`), and each worker's place in
its handler (`rpc`, `rcur`; `dpc`, `dcur`, `dtodo`, `derr`; `stopping`).

| Action | Code |
|---|---|
| `Insert`, `Dispatch`, `AbandonRequest` | both render request handlers: INSERT, XADD, death in between |
| `RTake`, `RBegin`, `RMkdir`, `RMkdirFails` | the renderer's handler up to `generateVideo` |
| `REncode`, `RGenerated`, `RGenerateFails` | `generateVideo`: its last ffmpeg starts, ends; any failure, which removes the directory |
| `REmit`, `RFail`, `RReturn`, `RCrash` | XADD to `distribution_jobs`, status failed, how the worker settles the entry, death |
| `DTake`, `DSend`, `DStatus`, `DCleanup`, `DReturn`, `DCrash` | the distributor's handler: one goroutine per destination with an adapter, the final status, RemoveAll |
| `RTakeLost`, `DTakeLost` | the reply of XREADGROUP is lost, or comes as the worker stops |
| `Stop`, `ReplayRender`, `ReplayDist` | SIGTERM; `dlq replay` of one dead letter |

The queues are used through `RQ!Add`, `RQ!Take` and `RQ!Settle`, the actions of
the abstract specification that `StreamWorker` is proved to implement. A restart
is immediate here, and a replay is one step: their inside is `StreamWorker`'s.
An XADD leaves 0, 1 or 2 entries and succeeds or fails in the caller's eyes
(`XAddEnds`); one whose context is cancelled on its way, by SIGTERM or by a client
that goes away, may have been carried out and is reported as an error
(`XAddCutOff`, which is no fault and is there in every instance). A directory that
`os.RemoveAll` does not get rid of after a failed render is a fault. ffmpeg may
also end well in a directory that another run of the job has removed. An entry
that does not decode is left out: nobody writes one. An adapter may fail although the destination has the video, and returns nil only
if it has (`DRY_RUN_YOUTUBE` is taken to be unset).
A dead letter whose entry was not acknowledged cannot be replayed in this
module; in `StreamWorker` it can.

### Delivery and Distribution

`Delivery`: every destination with an adapter reports once, a nil report means
that it has the video, and the verdict is nil if and only if all reports are.

`Distribution` has, per destination, its place (`pc`), the `attempt`, when it is
due (`at`), the number of videos that arrived (`copies`), and two observations
(`late`: an attempt came after the deadline; `spent`: the seconds its requests
took); and the group's context (`cancelled`, `cancelledAt`). Time is in seconds.

| Action | Code |
|---|---|
| `Rejects`, `Prepare`, `PrepareTikTok` | a configuration or file that cannot be used; the way to the first request |
| `Refreshed`, `InitOk`, `InitFails` | TikTok's token refresh and upload initialisation, which are not retried |
| `Upload`, `UploadRefused`, `UploadOk`, `UploadFails` | one attempt: sent, refused because the context is done, answered, failed although the video may have arrived |
| `Wake` | `time.Sleep` of `RetryWithBackoff` returns, after the last attempt too |
| `Shutdown`, `Tick` | SIGTERM cancels the context; time, while nobody is due |

An error of one goroutine cancels the context of the others (errgroup); what
obeys the context ends with it, sleeps do not, and a YouTube upload does not take
it. The retries that the AWS uploader makes by itself are part of one attempt,
and the dry-run modes are left out.

### VideoGeneration

The job's template and payload, the layers as they are `expanded` and
`prepared`, ffmpeg's `inputs`, what each file on `disk` holds, and the `graph`.

| Action | Code |
|---|---|
| `Expand`, `Expanded` | `expandSemanticLayers`; a text that is no string panics |
| `PrepareImage` | download, `renderBackgroundMotion`, `applyPostEffect` |
| `PrepareOverlay` | `generateOverlayElement`: raw, shadowed, boxed, renamed |
| `PrepareUnknown` | a type without a case: no file, but a place among the layers |
| `Assemble`, `AudioFails`, `NothingToRender`, `PrepareFails` | inputs, audio and filter graph; errors |

A file's content is told by the layer it was made for and the asset it was made
from. A type that begins with `text_` is a text whatever
follows (`TextPrefixed`). Names are sequences of parts, so that names which the code puts together
can meet names it was given; a number in a name is as many ones, which keeps
different numbers different. Fonts, colours, sizes and what ImageMagick and
ffmpeg do are left out. Lines 573-877 of `renderer.go` are a comment.

### Timeline, Overlay, BackgroundMotion

What ffmpeg evaluates at every frame. `Timeline`: equal parts of a layer's time,
printed in milliseconds. The source computes the end of a text, the end of its
page in the pager and the start of its fade by three different float64
expressions; as fractions the first two are equal. They are printed alike unless
the fraction lies halfway between two milliseconds, where the error of float64
decides; there `up` is any choice of the ends that are printed up, each for
itself. `Overlay`: the expression that `buildOverlayFilter` builds animation by
animation, one axis; an easing is known by its ends. A `pop_in` scales the overlay
frame by frame, and the expression uses the width of the frame: `Sizes` are the
widths that it may have, of which every one is checked. `BackgroundMotion`:
zoompan's expressions; a triangle wave with the same zeros, maxima and monotone
quarters stands for sin, and a range may lead in or out. Each has one action,
time. `Renderer` has the four modules side by side, and the `MCVideo` instance
moves one of them at a time.

## 3. Runs

| Run | Question | Properties |
|---|---|---|
| `stream_workers` | two workers that crash, stop, reclaim and race; a malformed and a good message, two faults, one shutdown | `TypeOK`, `HandledAtMostOnce`, `SettledIsAccounted`, `OneLossPerFault`, `ImplementsQueue`, `EveryEntryDelivered`, `HeldIsSettled` |
| `stream_replay` | two operators on the same dead letters, with a fault | `ReplayLosesNothing`, `ReplayedOncePerOperator` |
| `stream_reclaimed` | *violated:* is a reclaimed entry processed? no: finding 1 | `ReclaimedIsProcessed` |
| `stream_dlq` | *violated:* does a failed message reach the dead letters? not if the XADD fails: finding 2 | `FailedReachesDLQ` |
| `pipeline_once` | two jobs, two renderers, two distributors, two faults, a shutdown; each XADD once | `TypeOK`, `VideoIsThere`, `OneUndecidedPerFault`, `OneLeakPerFault`, `EndedStaysEnded` |
| `pipeline_twice` | one job in several hands at once: a lost reply, a replay, a fault | `CompleteMeansDelivered`, `AcceptedIsDecided` |
| `pipeline_cleanup` | *violated:* is the directory removed after success only? no: finding 3 | `CleanedOnlyAfterSuccess` |
| `admission` | three requests on both routes around two midnights, a failure, two connections; four requests that reach Redis late and out of order, a transaction run twice, an expiry | `CountIsExact`, `WithinLimit`, `RefusedOnlyWhenFull`, `OneFreePassPerFault`, `OneResetPerDay`, `AnsweredOrStarved`, `WindowHolds`, `RefusedOnlyWhenBusy` |
| `job_inputs` | two requests while users edit, tokens and URLs die, dead letters are replayed | `CarriesWhatWasThere`, `FetchesWhatItNames`, `RefusedOnlyWhenSpent` |
| `asset_fallback` | *violated:* is a project's missing file taken from the system's? no: finding 4 | `AssetsFallBack` |
| `video` | meeting names, up to seven texts, chains of slides, moves and pops on one axis, all motions | `GraphFitsInputs`, `EveryLayerShowsItself`, `TextsTakeTurns`, `PagerKeepsUp`, `EveryTextLegible`, `NeverJumps`, `Settles`, `KeepsItsRanges`, `TurnsBackOnlyFast` |
| `distribution` | TikTok and a platform without adapter beside a YouTube upload that may hang; SIGTERM at any second | `ReturnsInTime`, `AttemptsFit`, `ImplementsDelivery`, `Reports` |

What the less obvious ones say:

- `VideoIsThere` and `EndedStaysEnded` are checked where each XADD is carried out
  once and nobody replays. Outside of that they are false of the code, as one
  would expect of handlers that do not look at what another handler of the same
  job does. `pipeline_twice` checks what is left then.
- `ReplayedOncePerOperator`: a dead letter is put back at most once by each
  operator and once more per fault. Two operators at once do put it back twice;
  the code does not try to prevent that.
- `AnsweredOrStarved`: every request is answered, unless every connection of the
  pool ends up held by requests that wait for a second one. That exception is
  real: over-quota requests ask for one inside their transaction
  (`middleware.go:149`), and after a failed statement the handler runs before
  the deferred rollback. TLC reaches it with two requests and two connections.
- `ReturnsInTime`: a goroutine whose requests obey the context ends at most its
  back-offs after the context, 65 s at most, which is below the two minutes
  after which another worker takes the entry for stuck. A YouTube upload is
  excepted, and `Reports` says that the others report beside it.
- `AttemptsFit` adds up a goroutine's time to the second: requests and back-offs,
  nothing else. An attempt that comes after the deadline is possible, and means
  that the requests before it took 15 s or more (TikTok, with its refresh and its
  request for an upload), 24 (a webhook) or 27 (S3). One webhook that does not
  answer takes 20, so its third attempt may be lost; that is how the constants are.
- `Reports`: the clock of the instance stops at 70 s, so that TLC checks "within
  70 s" of each goroutine that obeys its context.
- `GraphFitsInputs` says what becomes of every template: with known types all
  numbers are right; with an unknown one the graph names an input that is not
  there and ffmpeg refuses it, and no layer is ever shown for another; an empty
  chain, which ffmpeg refuses too, comes of a single layer or of plain audio and
  of nothing else.
- `EveryTextLegible` says how many texts a carousel can take: all are legible at
  some moment if their part is a millisecond longer than the fades, none ever is
  if it is more than a millisecond shorter. In between the rounding decides.
- `PagerKeepsUp`: pager and text differ by one printed millisecond at most, and
  only where a text ends halfway between two.
- `FetchesWhatItNames`: a job whose asset stays in storage is rendered from it
  while its URL lives, if the file is where the template looks (`Misplaced` says
  when it is not: a key that `sanitizeKey` changes, a name that the payload is to
  fill in), and a job whose file is misplaced never is.
- `EveryLayerShowsItself` has a precondition that the code needs: names that do
  not meet (`NamesApart`: of layers, of their drawings and drafts, of assets, and
  of what the code itself calls its files; an icon whose asset is called
  `bg_motion.mp4` would be shown the background). `NeverJumps` is about animations
  listed in the order of their times; others do jump, and `Settles` says where
  they end. The instances contain the cases on both sides.

What properties permit because the code does it, and nothing in the repository
says otherwise: starvation by over-quota requests (`AnsweredOrStarved`), two
requests within one step of a float64 that count as one (`WindowHolds`), attempts
that slow destinations lose (`AttemptsFit`), destinations and template of two
moments of a request (`CarriesWhatWasThere`), a refusal once both tokens of a
message have gone (`RefusedOnlyWhenSpent`). They say that nothing worse happens.

Each property has a mutant, an operator next to the definition it replaces
(marked "Seeded fault"), under which TLC finds it violated: XREADGROUP reading
reclaimed entries, a failed message acknowledged without a dead letter, an
acknowledgement under the cancelled context, a hand-off before ffmpeg ends, the
count updated without the row's lock, the sorted set cut by the wrong clock, a
download named after what it is, a move that starts at the layer's place, an
attempt that ignores the group's context. Two are worth reading as design notes.
`RTakesStranded` is what a repaired reclaim would do, and it violates
`EndedStaysEnded`: handlers would have to become idempotent first.
`CleansUpDistributed` is what the README describes, and it violates
`OneLeakPerFault`.

Bounds. Two workers are the fewest that race for a reclaim, and two entries the
fewest where one is stranded while another moves on; one fault strands an entry,
a second one hits its recovery. For replays, two operators, two or three dead
letters and a limit below that number make a batch partial. In `Pipeline`, two
jobs let one fail while the other goes on, and two workers per service let a
job's entries overlap; `pipeline_twice` has room for every entry that its lost
reply and its replay can cause, so no bound ever stops a step there. In
`admission`, three requests are one more than the pool has connections and two more
than the limit; for the window, `MaxTime` holds two windows, and delay and
step are below the window, so that requests overtake each other and share a
member. In `job_inputs`, URLs live one unit, tokens two, and three tokens let
the first one be replaced twice, by consents or refreshes. In `distribution`, answers come at
once, after 15 s (two of which do not fit in 30 s) or never, and 70 s are more
than the slowest delivery that obeys its context. In `video`, up to
nine milliseconds are divided among up to seven texts, evenly, unevenly and into
parts shorter than a millisecond, and the names of the layers include each kind
that meets another; its four modules share no
state and a behaviour moves one of them. Bounds on faults, edits, entries and
time are constants in the guards; reaching one only ends a behaviour, and
liveness is checked only where it cannot. Symmetry is used for interchangeable
processes, jobs and requests and in no run that checks liveness.

Fairness. `StreamWorker`: a stopped worker is started again, and a running one
goes on. The loop of `Run` has no other exit than `ctx.Done`, each Redis command
has a deadline, and an operator of the deployment starts what went down
(`docker-compose.yml` has no restart policy, so this is assumed of people).
`Age` is fair because time passes. `Pipeline`: a request that has inserted its
row goes on, and a worker takes its next step: Postgres and Redis calls have
deadlines, and so do adapters, but for YouTube's upload. That this one and
ffmpeg end is assumed; the code sets them no limit. `Quota`: the goroutine of
every request goes on when it can; no command need fail. `Distribution`: time
passes, and whoever is due goes on; answers need not come. No fairness is assumed
of requests, signals, operators, users or faults. Deadlock is not checked: once
its bounds are used up a system has nothing left to do. Where being stuck is the
question, `AnsweredOrStarved`, `Reports` and `EveryEntryDelivered` ask it.

## 4. Findings

1. `worker.go:203` says of reclaimed messages that "they will be re-processed by
   an active consumer", and README.md:135 that "no work is lost". XCLAIM gives
   them to a one-time consumer name and every worker reads `>`, so no one sees
   them again (`ReclaimedIsProcessed`).
2. `worker.go:19` says an error moves the message to the dead letters. When that
   XADD fails, the message is acknowledged all the same (`FailedReachesDLQ`).
3. README.md:136 says the work directory is removed after successful
   distribution. `distributor/main.go:96` removes it after a failed one as well,
   so a replay from `distribution_jobs_dlq` finds no video
   (`CleanedOnlyAfterSuccess`).
4. TODO.md:91 says that assets are resolved "by checking Project, Organization,
   System buckets in order", and TODO.md:69 that `template_processor.go` "handles
   asset fallback logic". `template_processor.go:50-52` replaces each placeholder by one path and
   signs it unseen (and does not know the placeholder `{{ASSET:...}}` of that
   line): a project's file that is not there fails the job, although the system
   has one (`AssetsFallBack`).

Differences from comments that have no run of their own, because what the
comment says is about a detail that a property above states as the code has it:
`renderer.go:437` says of the drifting zoom "Always moves in ONE direction",
which is not so at the speed fast (`TurnsBackOnlyFast` says where it holds);
`renderer.go:194` says that the starts of animations are adjusted "relative to
the new layer's start", while `:197` replaces those that are 0 and no others;
`TODO.md:92` names a `sourceKey` that `renderer.go:154` does not read;
`cmd/admin/s3.go:41` sanitizes keys "to match the format used by the
orchestrator", whose `template_processor.go:52` does not sanitize them
(`FetchesWhatItNames` says what becomes of such a project's jobs).

## 5. Proofs

| Module | Theorem | Statement |
|---|---|---|
| `StreamWorkerProofs` | `TypeCorrect` | `Spec => []TypeOK` |
| | `AtMostOnce` | `Spec => []HandledAtMostOnce` |
| | `NothingUnaccounted` | `Spec => []SettledIsAccounted` |
| | `ReplayIsSafe` | `Spec => []ReplayLosesNothing` |
| | `LossBound` | `Spec => []OneLossPerFault` |
| | `ReplayBound` | `Spec => []ReplayedOncePerOperator` |
| | `Refinement` | `Spec => ImplementsQueue` |
| `PipelineProofs` | `TypeCorrect` | `Spec => []TypeOK` |
| | `CompleteIsDelivered` | `Spec => []CompleteMeansDelivered` |
| | `UndecidedIsPaidFor` | `Spec => []OneUndecidedPerFault` |
| | `LeaksArePaidFor` | `Spec => []OneLeakPerFault` |
| | `QueuesKeepTheirPromise` | `Spec => RQ!Spec /\ DQ!Spec`: both streams are `AtMostOnceQueue`s |
| `PipelineOnceProofs` | `VideoStays` | without duplicates and replays, `Spec => []VideoIsThere` |
| | `EndedIsFinal` | without duplicates and replays, `Spec => EndedStaysEnded` |
| `QuotaProofs` | `CountExact`, `LimitHolds` | `Spec => []CountIsExact`, `Spec => []WithinLimit` |
| | `RefusalsAreDue` | `Spec => []RefusedOnlyWhenFull` |
| | `FreePassesBounded` | `Spec => []OneFreePassPerFault` |
| | `ResetsAreOrdered` | `Spec => OneResetPerDay` |
| `RateLimitProofs` | `WindowEnforced` | `RateSpec => []WindowHolds` |
| | `RefusalsAreDue` | `RateSpec => []RefusedOnlyWhenBusy` |
| `DistributionProofs` | `TypeCorrect` | `Spec => []TypeOK` |
| | `EndsInTime` | `Spec => []ReturnsInTime` |
| | `RoomForAttempts` | `Spec => []AttemptsFit` |
| | `Implements` | `Spec => ImplementsDelivery` |
| `JobInputsProofs` | `MessageWasThere` | `Spec => []CarriesWhatWasThere` |
| | `FileIsTheOne` | `Spec => []FetchesWhatItNames` |
| | `RefusalsAreDue` | `Spec => []RefusedOnlyWhenSpent` |
| `RendererProofs` | `GraphIsComplete` | `Spec => []GraphFitsInputs` |
| | `LayersShowThemselves` | `Spec => []EveryLayerShowsItself` |
| | `TurnsAreTaken`, `PagesFollowTexts`, `TextsAreLegible` | `Timeline`'s `Spec` implies `[]TextsTakeTurns`, `[]PagerKeepsUp`, `[]EveryTextLegible` |
| | `OverlaySettles`, `OverlayNeverJumps` | `Overlay`'s `Spec` implies `[]Settles`, `NeverJumps` |
| | `RangesAreKept`, `TurnsBackLate` | `BackgroundMotion`'s `Spec` implies `[]KeepsItsRanges`, `TurnsBackOnlyFast` |

All hold for every value of the constants, under the one or two ASSUMEs of the
component's module (`Renderer` assumes those of the modules it instantiates): sizes are
naturals, model values are what they are called,
operators are finitely many, a rate-limited request is on its way for less than a
window, a carousel starts before it ends, a video has two frames or more, a zoom
range is a pair of percentages, in or out. Those of
`PipelineOnceProofs` also assume `MaxLostReplies = 0` and `MaxReplays = 0`,
without which they are false (section 3).

The argument for `StreamWorker`. None of the properties is inductive. `Shape`
ties the worker's program counter to what it holds and is `TypeOK` with what
only the steps say: a worker has an entry exactly when it is in the handler or
settling one, and entries above `lastDelivered` have no owner, no runs and no
outcome. `Delivery` adds that an entry in a worker's hands has been run at most
once, is in no other hands and is still pending, so XREADGROUP, which only hands
out `lastDelivered + 1`, cannot hand it out again; and that what is settled has
an outcome that accounts for it. `Replay` says an operator has put back
everything in its `odone`, which is all that it deletes. Each has a lemma per
action. The loss bound counts: a step adds to the stranded and the dropped at
most as much as to `faults + stops`, by the cardinality theorems of the library.
The replay bound counts too, and needs more than the copies that are there:
`CopiesBound` adds to them the operators who may still put the letter back
(`ToCome`), and says that the sum stays below the operators and the faults. An
XADD moves an operator from one side to the other. What adds to the sum is an
XADD that is carried out twice, or fails in the operator's eyes only, or an
operator who forgets what it has put back before that is deleted, and each of
these comes with a fault.
The refinement maps each action to a step of the queue or to a stutter, through
`Phase`.

The argument for `Pipeline`. `Held` is `TypeOK` with what makes a handler's job
well defined: an entry in use has a job, and a handler at work has an entry.
`SentSoFar` carries `CompleteMeansDelivered` through the loop over the
destinations: each one is still to be called, has got something, or has left an
error behind; so a distributor that finds no error has delivered to all.
Handlers of the same job may overlap there. `Once` says when they cannot: no two
entries of a stream have the same job (`Unique`), no two processes have the same
entry and what they have is held (`Hands`), a request's job is in no stream
before it is added (`Fresh`), and a job in the second stream came from a
renderer that is done with it (`HandedOn`). From this, `RApart` and `DApart`:
whoever has a job is the only one. So a work directory is written by one renderer
before the hand-off and removed by one distributor after the sending
(`VideoWaits`), and whoever ends a job is the last to have it (`NotEnded`).
`Once`, `VideoWaits` and `NotEnded` have been checked by TLC on the instance of
`pipeline_once` as well.

The two bounds of `Pipeline` hold also where handlers overlap, and need none of
this. A job without an end is `Tended` while somebody has it who will write a
status and was not told to stop; those that are not (`Neglected`) are at most as
many as faults and shutdowns, because every step that lets go of a job either
puts it into somebody else's hands, or is one (`NeglectStep`, one lemma per
action). A shutdown is charged when it is sent, and a worker can be stopped once
(`BusyStopping`). For work directories (`Covered`, `Left`) that is too early: a
renderer that was told to stop leaves its directory behind later, or not at all.
So `LeftBound` counts those renderers as well (`Warned`), and a directory that
is left takes the place of the renderer that left it.

The argument for `Quota`. Whoever has the row's lock has seen its committed
version, and nobody else changes it until then (`LockOK`, `MineOK`); so the
count it commits is one more than what is there, or 1 for a later day. Charges
are those of transactions that are over, never under a later day than the row's
(`ChargesOK`). From that, the count is the number of requests charged under the
row's day, and the limit holds for every day because it held when the last one
was charged. The free passes are counted against `faults` by cardinality.

The argument for `RateLimit`. The sorted set is cut by whichever request comes,
so it is not a function of the time. What is invariant is `Remembered`: a counted
request is in the set or a window old by the clock, because nobody cuts by a time
later than the clock. `KeyLives` says that EXPIRE does not take it away before.
A request that is let through therefore has everyone in the set who was let
through in the shortened window before it.

The argument for `Distribution`. `InTime` adds up back-offs: after n attempts a
goroutine is at most `Slept(n)` behind the end of its context, since an attempt
ends with the context and only a sleep outlasts it. `AccountsInv` is an equation
from the start on: when an attempt is made, the time is what the requests before
it took (`spent`) and the back-offs before it. An attempt is the third at the
latest, so one that comes too late leaves two back-offs and the rest to requests.
The refinement maps a report
to `Delivery!Report` and everything else to a stutter; `copies > 0` wherever
`pc` is "ok".

The argument for `JobInputs`. What a job carries was read from the database at a
moment that `moments` has kept since its request came (`Carries`). What its URL
names is fixed by its template (`Assets`), and an asset in `stayed` has not been
deleted since. A token that has gone, because it expired or was replaced, never
comes back: numbers are issued upwards, and no edit gives life to an old one
(`TokensKept`).

The argument for `VideoGeneration`. The numbering is counted (`Stages`): while
layers are prepared there are as many inputs as layers, if every type is known,
and fewer otherwise, so that the highest number of the graph is too high.
For the pictures it is not enough that the inputs so far are right, because a
file that is there may be taken for one that is wanted. So `Kept` says of every
file of the directory whose it is: it is one of the names that the code uses for
images, a drawing or draft of an earlier layer, or an asset of an earlier layer,
and then with that asset's content (`Accounted`). A layer writes its own files
and no others, none of which is the input of an earlier one (`ImageSparesOthers`,
`DrawingSparesOthers`): drawings end in `.png` and no input of an image does,
downloads have different numbers, and only the layer called `background` has the
names that are always the same. The one such name that ends in `.png`, and the
assets' names, which are given, are kept apart by `NamesApart`.

The argument for `Timeline`. The times are fractions with the number of texts as
denominator. Rounding to milliseconds keeps their order (`MillisMonotone`) and
leaves whole milliseconds alone, whichever way a half is printed, and the end of a
part is the expression that the next one starts with, so that the printed parts
meet. The pager's end is another one, and differs by the half. The part that is shown at
a moment is the least one that has not ended then.

The argument for `BackgroundMotion`. The wave stays between -1 and 1
(`SinWithin`, `CosWithin`), a blend by a number from 0 to 1 stays between its
ends, whichever of the two is larger (`BlendWithin`), and the part of its period
that a drift covers decides where it can turn (`DriftWave`).

The argument for `Overlay`. The expression is a recursive function of the number
of animations. That there is a function with these equations is proved first,
by induction over a set (`Exists`), since only then do the equations hold of the
one that is defined. What the properties say of the last animation is then
proved of each: where it rests when the first m are over (`RestsAt`), and that
what comes before and after a step of the clock is joined (`Joined`). Both go
from m to m + 1 by one lemma with a case per type of animation.

Only model-checked: liveness (`EveryEntryDelivered`, `HeldIsSettled`,
`AcceptedIsDecided`, `AnsweredOrStarved`, `Reports`), which needs ENABLED and is
out of the prover's reach. Every invariant and action property of a run is
proved. How the modules fit together is proved from both
sides: `StreamWorker` implements the queue, and what `Pipeline` does to its two
streams is what the queue allows; `Distribution` implements the delivery, whose
report is `Pipeline!DSend`. That `Pipeline` stays correct when the abstract parts
are replaced by the detailed ones is not stated, since its properties are about
the jobs of the entries, which the queue does not have.

## 6. Not modelled

- Job status and history, all listings, logging and health: they change nothing.
- Login and logout: one query, and a cookie that is set or cleared.
- The admin command line but for `dlq`: each command is one statement or one
  transaction at an operator's hand; those that change connections and templates
  do what the actions of `JobInputs` do.
- The deletion of a folder page by page (`dashboard_handlers.go:607`): nothing
  in the repository says what a folder holds when a delete races an upload.
- The start of an OAuth consent (a redirect), and YouTube's callback, which is
  TikTok's upsert without a look at the status of the answer; a background image
  that the request brings.
- The web client: polls may answer out of order, but what it shows is read by no
  other part.
- Drawing: what ImageMagick and ffmpeg make of the commands they are given.
- An organisation's projects beyond one, in `Quota` and `JobInputs`: rows and
  keys of different projects are disjoint; they would only share the pool.

What may still be added: a `Pipeline` over the workers of `StreamWorker` instead
of the abstract queues, with the jobs of the entries carried through; and the
steps of the liveness arguments that need no ENABLED, as action properties
(nothing takes an entry from a worker, a delivery only comes nearer to its end).
