------------------------------ MODULE Pipeline ------------------------------
(***************************************************************************)
(* The life of render jobs from the request to the delivered video: the    *)
(* orchestrator's render handlers (orchestrator/handlers.go and            *)
(* dashboard_handlers.go), the renderer (renderer/main.go) and the         *)
(* distributor (distributor/main.go), the jobs table and the work          *)
(* directories on the volume the last two share.                           *)
(*                                                                         *)
(* Both streams are taken at what StreamWorker is shown to implement, an   *)
(* at-most-once queue: an entry is added, taken by a worker and settled,   *)
(* or stays held for ever.  What happens between taking and settling is    *)
(* the handler, and here it is modelled step by step.                      *)
(***************************************************************************)
EXTENDS Naturals, FiniteSets

CONSTANTS
  Jobs,          \* render requests
  NoJob,         \* the job of an entry that is not in use
  Destinations,  \* the connections of the project, at the time of the request
  Unsupported,   \* those whose platform has no adapter
  Renderers,     \* renderer processes
  Distributors,  \* distributor processes
  MaxRender,     \* bound: entries of render_jobs
  MaxDist,       \* bound: entries of distribution_jobs
  MaxFaults,     \* bound: crashes, failed writes to Postgres, Redis, the volume
  MaxStops,      \* bound: graceful shutdowns
  MaxLostReplies,  \* bound: XADDs carried out whose reply is lost
  MaxReplays     \* bound: dead letters put back by an operator

ASSUME PipelineAssumption ==
  /\ NoJob \notin Jobs
  /\ Destinations # {}   \* else the request is refused
  /\ Unsupported \subseteq Destinations
  /\ Renderers \cap Distributors = {}
  /\ {MaxRender, MaxDist, MaxFaults, MaxStops, MaxLostReplies, MaxReplays}
       \subseteq Nat

VARIABLES
  api,        \* where the request of each job is
  status,     \* jobs.status, "absent" when there is no row
  outputKey,  \* the jobs with an output_storage_key
  rjob,       \* the job of each entry of render_jobs
  rphase,     \* the entries of render_jobs, as an AtMostOnceQueue
  djob,       \* the same for distribution_jobs
  dphase,
  workdir,    \* WORK_DIR/<job>: "none", "partial" (no whole video) or "video"
  received,   \* what each destination got: whole videos, broken ones
  rpc,        \* where each renderer is in its handler
  rcur,       \* its entry, 0 if none
  dpc,        \* where each distributor is in its handler
  dcur,       \* its entry, 0 if none
  dtodo,      \* the destinations whose adapter has not returned
  derr,       \* an adapter has returned an error
  stopping,   \* the workers whose context is cancelled
  replayed,   \* the dead letters put back: <<stream, entry>>
  faults, stops, lostReplies

apiVars  == <<api>>
rowVars  == <<status, outputKey>>
rqVars   == <<rjob, rphase>>
dqVars   == <<djob, dphase>>
rVars    == <<rpc, rcur>>
dVars    == <<dpc, dcur, dtodo, derr>>
fileVars == <<workdir, received>>
envVars  == <<stopping, replayed, faults, stops, lostReplies>>
vars == <<apiVars, rowVars, rqVars, dqVars, rVars, dVars, fileVars, envVars>>

RIds == 1..MaxRender
DIds == 1..MaxDist

RQ == INSTANCE AtMostOnceQueue WITH Ids <- RIds, phase <- rphase
DQ == INSTANCE AtMostOnceQueue WITH Ids <- DIds, phase <- dphase

Supported == Destinations \ Unsupported
Workers == Renderers \cup Distributors

Init ==
  /\ api = [j \in Jobs |-> "none"]
  /\ status = [j \in Jobs |-> "absent"]
  /\ outputKey = {}
  /\ rjob = [i \in RIds |-> NoJob]
  /\ RQ!Init
  /\ djob = [i \in DIds |-> NoJob]
  /\ DQ!Init
  /\ workdir = [j \in Jobs |-> "none"]
  /\ received = [j \in Jobs |-> [d \in Destinations |-> {}]]
  /\ rpc = [w \in Renderers |-> "idle"]
  /\ rcur = [w \in Renderers |-> 0]
  /\ dpc = [v \in Distributors |-> "idle"]
  /\ dcur = [v \in Distributors |-> 0]
  /\ dtodo = [v \in Distributors |-> {}]
  /\ derr = [v \in Distributors |-> FALSE]
  /\ stopping = {}
  /\ replayed = {}
  /\ faults = 0 /\ stops = 0 /\ lostReplies = 0

(***************************************************************************)
(* What can go wrong, and XADD.                                            *)
(***************************************************************************)

NoFault == UNCHANGED <<faults, lostReplies>>
Fault == faults < MaxFaults /\ faults' = faults + 1 /\ UNCHANGED lostReplies
LostReply == /\ lostReplies < MaxLostReplies
             /\ lostReplies' = lostReplies + 1
             /\ UNCHANGED faults

\* How an XADD ends: how many entries it leaves and whether the caller sees
\* success.  The client sends a command again when its reply is lost.
XAddEnds(n, ok) ==
  \/ n = 1 /\ ok /\ NoFault
  \/ n = 2 /\ ok /\ LostReply
  \/ n = 1 /\ ~ok /\ LostReply
  \/ n = 0 /\ ~ok /\ Fault

\* Its context is cancelled while the command is on its way: the client returns
\* the context's error although Redis carries the command out.
XAddCutOff(n, ok) == n = 1 /\ ~ok /\ NoFault

\* n entries for job j join the stream whose entries are ids.
AddRender(n, j) ==
  \E last \in 0..MaxRender :
    /\ \A i \in RIds : rphase[i] = "absent" <=> last < i
    /\ last + n <= MaxRender
    /\ rjob' = [i \in RIds |-> IF last < i /\ i <= last + n THEN j ELSE rjob[i]]
    /\ IF n = 0 THEN UNCHANGED rphase ELSE RQ!Add(last + n)

AddDist(n, j) ==
  \E last \in 0..MaxDist :
    /\ \A i \in DIds : dphase[i] = "absent" <=> last < i
    /\ last + n <= MaxDist
    /\ djob' = [i \in DIds |-> IF last < i /\ i <= last + n THEN j ELSE djob[i]]
    /\ IF n = 0 THEN UNCHANGED dphase ELSE DQ!Add(last + n)

(***************************************************************************)
(* The orchestrator: handleRenderRequest, handleDashboardRenderRequest.    *)
(***************************************************************************)

\* The request passes its checks and the row is inserted as 'queued'.  The
\* destinations go into the message as they are now.
Insert(j) ==
  /\ api[j] = "none"
  /\ api' = [api EXCEPT ![j] = "inserted"]
  /\ status' = [status EXCEPT ![j] = "queued"]
  /\ UNCHANGED <<outputKey, rqVars, dqVars, rVars, dVars, fileVars, envVars>>

\* XADD to render_jobs: 202, or 500 with the row left as it is.  The context
\* ends when the client goes away.
Dispatch(j, n, ok) ==
  /\ api[j] = "inserted"
  /\ XAddEnds(n, ok) \/ XAddCutOff(n, ok)
  /\ AddRender(n, j)
  /\ api' = [api EXCEPT ![j] = IF ok THEN "accepted" ELSE "refused"]
  /\ UNCHANGED <<rowVars, dqVars, rVars, dVars, fileVars, stopping, replayed,
                 stops>>

\* The orchestrator dies between the two.
AbandonRequest(j) ==
  /\ api[j] = "inserted"
  /\ Fault
  /\ api' = [api EXCEPT ![j] = "refused"]
  /\ UNCHANGED <<rowVars, rqVars, dqVars, rVars, dVars, fileVars, stopping,
                 replayed, stops>>

(***************************************************************************)
(* setJobStatus of both services: one UPDATE under the handler's context,  *)
(* so it fails once the worker has been told to stop; its error is logged. *)
(***************************************************************************)

UpdateSucceeds(w) == w \notin stopping /\ NoFault
UpdateFails(w) == IF w \in stopping THEN NoFault ELSE Fault

SetJobStatus(w, j, s) ==
  \/ /\ UpdateSucceeds(w)
     /\ status' = [status EXCEPT ![j] = s]
     /\ outputKey' = IF s = "complete" THEN outputKey \cup {j} ELSE outputKey
  \/ UpdateFails(w) /\ UNCHANGED rowVars

(***************************************************************************)
(* The renderer's handler.                                                 *)
(***************************************************************************)

RJob(w) == rjob[rcur[w]]

RGoto(w, l) == rpc' = [rpc EXCEPT ![w] = l]

\* Seeded fault: a held entry whose worker crashed is handed out again.
RTakesStranded(i) ==
  \/ RQ!Take(i)
  \/ rphase[i] = "held" /\ (\A w \in Renderers : rcur[w] # i) /\ UNCHANGED rphase
RTakes(i) == RQ!Take(i)

RTake(w) ==
  /\ rpc[w] = "idle"
  /\ \E i \in RIds : RTakes(i) /\ rcur' = [rcur EXCEPT ![w] = i]
  /\ RGoto(w, "begin")
  /\ UNCHANGED <<apiVars, rowVars, rjob, dqVars, dVars, fileVars, envVars>>

\* The reply that hands an entry over is lost, or comes as the worker stops.
TakeLost ==
  \/ Fault /\ UNCHANGED stops
  \/ stops < MaxStops /\ stops' = stops + 1 /\ NoFault

RTakeLost(w) ==
  /\ rpc[w] = "idle"
  /\ \E i \in RIds : RQ!Take(i)
  /\ TakeLost
  /\ UNCHANGED <<apiVars, rowVars, rjob, dqVars, rVars, dVars, fileVars, stopping,
                 replayed>>

\* setJobStatus "rendering".  The payload unmarshals: it is what Dispatch has
\* marshalled.  One that would not leaves the row as it is (main.go:50-55).
RBegin(w) ==
  /\ rpc[w] = "begin"
  /\ SetJobStatus(w, RJob(w), "rendering")
  /\ RGoto(w, "mkdir")
  /\ UNCHANGED <<apiVars, rqVars, dqVars, rcur, dVars, fileVars, stopping,
                 replayed, stops>>

\* MkdirAll and MkdirTemp.  What an earlier run left in the directory stays.
RMkdir(w) ==
  /\ rpc[w] = "mkdir"
  /\ workdir' = [workdir EXCEPT ![RJob(w)] = IF @ = "none" THEN "partial" ELSE @]
  /\ RGoto(w, "generate")
  /\ UNCHANGED <<apiVars, rowVars, rqVars, dqVars, rcur, dVars, received, envVars>>

\* The template does not unmarshal, WORK_DIR is not set, or no directory can be
\* made (MkdirTemp may fail after MkdirAll): an error, nothing is cleaned up.
RMkdirFails(w) ==
  /\ rpc[w] = "mkdir"
  /\ Fault
  /\ \/ UNCHANGED workdir
     \/ workdir' = [workdir EXCEPT ![RJob(w)] = IF @ = "none" THEN "partial" ELSE @]
  /\ RGoto(w, "failed")
  /\ UNCHANGED <<apiVars, rowVars, rqVars, dqVars, rcur, dVars, received, stopping,
                 replayed, stops>>

\* generateVideo gets to its last ffmpeg, which overwrites final.mp4.
REncode(w) ==
  /\ rpc[w] = "generate" /\ workdir[RJob(w)] # "none"
  /\ workdir' = [workdir EXCEPT ![RJob(w)] = "partial"]
  /\ RGoto(w, "encode")
  /\ UNCHANGED <<apiVars, rowVars, rqVars, dqVars, rcur, dVars, received, envVars>>

\* Another run of the job, which may have removed the directory since, and made
\* a new one.
RunsElsewhere(w) ==
  \E i \in RIds \ {rcur[w]} : rphase[i] # "absent" /\ rjob[i] = RJob(w)

\* ffmpeg is done.  In a directory that was removed, its file is gone when it is
\* closed; generateVideo does not notice.
RGenerated(w) ==
  /\ rpc[w] = "encode"
  /\ \/ /\ workdir[RJob(w)] # "none"
        /\ workdir' = [workdir EXCEPT ![RJob(w)] = "video"]
     \/ RunsElsewhere(w) /\ UNCHANGED workdir
  /\ RGoto(w, "emit")
  /\ UNCHANGED <<apiVars, rowVars, rqVars, dqVars, rcur, dVars, received, envVars>>

\* Seeded fault: the handler returns the error before it sets the status.
AfterRenderErrorSilent == "error"
AfterRenderError == "failed"

\* generateVideo fails (a missing asset, a bad layer, ffmpeg): the whole
\* directory goes.  This is the job's fault, not one that is counted.  That of a
\* RemoveAll is, whose error is ignored.
RGenerateFails(w) ==
  /\ rpc[w] \in {"generate", "encode"}
  /\ \/ workdir' = [workdir EXCEPT ![RJob(w)] = "none"] /\ NoFault
     \/ UNCHANGED workdir /\ Fault
  /\ RGoto(w, AfterRenderError)
  /\ UNCHANGED <<apiVars, rowVars, rqVars, dqVars, rcur, dVars, received, stopping,
                 replayed, stops>>

\* Seeded fault: the distribution job is emitted before ffmpeg is done.
EmitsEarly == {"encode", "emit"}
EmitsAt == {"emit"}

\* SIGTERM cancels the context while the XADD is on its way.
StoppedEmitting(w, n, ok) ==
  /\ w \notin stopping /\ stopping' = stopping \cup {w}
  /\ stops < MaxStops /\ stops' = stops + 1
  /\ XAddCutOff(n, ok)

\* XADD to distribution_jobs, under the handler's context: once that is cancelled
\* the command is not sent.  When it fails the directory stays.
REmit(w, n, ok) ==
  /\ rpc[w] \in EmitsAt
  /\ \/ w \in stopping /\ n = 0 /\ ~ok /\ NoFault /\ UNCHANGED <<stopping, stops>>
     \/ w \notin stopping /\ XAddEnds(n, ok) /\ UNCHANGED <<stopping, stops>>
     \/ StoppedEmitting(w, n, ok)
  /\ AddDist(n, RJob(w))
  /\ RGoto(w, IF ok THEN "done" ELSE "failed")
  /\ UNCHANGED <<apiVars, rowVars, rqVars, rcur, dVars, fileVars, replayed>>

\* setJobStatus "failed".
RFail(w) ==
  /\ rpc[w] = "failed"
  /\ SetJobStatus(w, RJob(w), "failed")
  /\ RGoto(w, "error")
  /\ UNCHANGED <<apiVars, rqVars, dqVars, rcur, dVars, fileVars, stopping,
                 replayed, stops>>

(***************************************************************************)
(* Back in the worker: how processNextMessage settles the entry.           *)
(***************************************************************************)

\* The phase an entry is left in: settled, or held for ever because its XACK
\* was lost; "dropped" if its copy to the dead letters was.
SettlesAs(failed, fate) ==
  \/ fate = (IF failed THEN "dead" ELSE "done") /\ NoFault
  \/ fate = "held" /\ Fault
  \/ failed /\ fate = "dropped" /\ Fault

\* A worker that was told to stop ends after the entry in its hands; it is
\* taken to be started again at once.
RRelease(w) ==
  /\ rcur' = [rcur EXCEPT ![w] = 0]
  /\ RGoto(w, "idle")
  /\ stopping' = stopping \ {w}

RReturn(w, fate) ==
  /\ rpc[w] \in {"done", "error"}
  /\ SettlesAs(rpc[w] = "error", fate)
  /\ IF fate = "held" THEN UNCHANGED rphase ELSE RQ!Settle(rcur[w], fate)
  /\ RRelease(w)
  /\ UNCHANGED <<apiVars, rowVars, rjob, dqVars, dVars, fileVars, replayed, stops>>

\* The process dies in the handler and is started again.
RCrash(w) ==
  /\ rpc[w] # "idle"
  /\ Fault
  /\ RRelease(w)
  /\ UNCHANGED <<apiVars, rowVars, rqVars, dqVars, dVars, fileVars, replayed, stops>>

(***************************************************************************)
(* The distributor's handler.                                              *)
(***************************************************************************)

DJob(v) == djob[dcur[v]]

DGoto(v, l) == dpc' = [dpc EXCEPT ![v] = l]

\* Seeded fault: a destination without an adapter is not skipped.
TargetsAll == Destinations
Targets == Destinations \ Unsupported

\* One goroutine per destination that has an adapter.
DTake(v) ==
  /\ dpc[v] = "idle"
  /\ \E i \in DIds : DQ!Take(i) /\ dcur' = [dcur EXCEPT ![v] = i]
  /\ DGoto(v, "send")
  /\ dtodo' = [dtodo EXCEPT ![v] = Targets]
  /\ derr' = [derr EXCEPT ![v] = FALSE]
  /\ UNCHANGED <<apiVars, rowVars, rqVars, djob, rVars, fileVars, envVars>>

DTakeLost(v) ==
  /\ dpc[v] = "idle"
  /\ \E i \in DIds : DQ!Take(i)
  /\ TakeLost
  /\ UNCHANGED <<apiVars, rowVars, rqVars, djob, rVars, dVars, fileVars, stopping,
                 replayed>>

\* What an adapter that opens the video now can send.
Readable(j) == IF workdir[j] = "video" THEN {"whole"}
               ELSE IF workdir[j] = "partial" THEN {"broken"} ELSE {}

\* The adapter for d returns, after its retries.  It returns nil only if the
\* destination took the video; an error may hide a delivery whose answer was
\* lost or came after the 30 s.  (DRY_RUN_YOUTUBE is not set.)
DSend(v, d, got, ok) ==
  /\ dpc[v] = "send" /\ d \in dtodo[v]
  /\ got \subseteq Readable(DJob(v)) /\ (ok => got # {})
  /\ received' = [received EXCEPT ![DJob(v)][d] = @ \cup got]
  /\ dtodo' = [dtodo EXCEPT ![v] = @ \ {d}]
  /\ derr' = [derr EXCEPT ![v] = @ \/ ~ok]
  /\ UNCHANGED <<apiVars, rowVars, rqVars, dqVars, rVars, dpc, dcur, workdir, envVars>>

\* Seeded fault: the error that g.Wait returns is not looked at.
FinalStatusAlways(v) == "complete"
FinalStatus(v) == IF derr[v] THEN "failed" ELSE "complete"

\* All goroutines have returned: setJobStatus.
DStatus(v) ==
  /\ dpc[v] = "send" /\ dtodo[v] = {}
  /\ SetJobStatus(v, DJob(v), FinalStatus(v))
  /\ DGoto(v, "cleanup")
  /\ UNCHANGED <<apiVars, rqVars, dqVars, rVars, dcur, dtodo, derr, fileVars,
                 stopping, replayed, stops>>

\* Seeded fault: as the README has it, only a job that was distributed is
\* cleaned up.
CleansUpDistributed(v) == ~derr[v]
CleansUp(v) == TRUE

\* cleanupWorkDir: RemoveAll, after success and failure alike.  Its error is
\* logged.
DCleanup(v) ==
  /\ dpc[v] = "cleanup"
  /\ \/ /\ CleansUp(v)
        /\ workdir' = [workdir EXCEPT ![DJob(v)] = "none"]
        /\ NoFault
     \/ /\ UNCHANGED workdir
        /\ IF CleansUp(v) THEN Fault ELSE NoFault
  /\ DGoto(v, IF derr[v] THEN "error" ELSE "done")
  /\ UNCHANGED <<apiVars, rowVars, rqVars, dqVars, rVars, dcur, dtodo, derr,
                 received, stopping, replayed, stops>>

DRelease(v) ==
  /\ dcur' = [dcur EXCEPT ![v] = 0]
  /\ dtodo' = [dtodo EXCEPT ![v] = {}]
  /\ derr' = [derr EXCEPT ![v] = FALSE]
  /\ DGoto(v, "idle")
  /\ stopping' = stopping \ {v}

DReturn(v, fate) ==
  /\ dpc[v] \in {"done", "error"}
  /\ SettlesAs(dpc[v] = "error", fate)
  /\ IF fate = "held" THEN UNCHANGED dphase ELSE DQ!Settle(dcur[v], fate)
  /\ DRelease(v)
  /\ UNCHANGED <<apiVars, rowVars, rqVars, djob, rVars, fileVars, replayed, stops>>

DCrash(v) ==
  /\ dpc[v] # "idle"
  /\ Fault
  /\ DRelease(v)
  /\ UNCHANGED <<apiVars, rowVars, rqVars, dqVars, rVars, fileVars, replayed, stops>>

(***************************************************************************)
(* SIGTERM, and the operator.                                              *)
(***************************************************************************)

\* An idle worker that is stopped and started again changes nothing.
Stop(x) ==
  /\ x \in {w \in Renderers : rpc[w] # "idle"} \cup {v \in Distributors : dpc[v] # "idle"}
  /\ x \notin stopping
  /\ stops < MaxStops /\ stops' = stops + 1
  /\ stopping' = stopping \cup {x}
  /\ UNCHANGED <<apiVars, rowVars, rqVars, dqVars, rVars, dVars, fileVars,
                 replayed, faults, lostReplies>>

\* "dlq replay" of one dead letter, as a whole: StreamWorker has its steps.
ReplayRender(i) ==
  /\ rphase[i] = "dead" /\ <<"render", i>> \notin replayed
  /\ Cardinality(replayed) < MaxReplays
  /\ replayed' = replayed \cup {<<"render", i>>}
  /\ AddRender(1, rjob[i])
  /\ UNCHANGED <<apiVars, rowVars, dqVars, rVars, dVars, fileVars, stopping,
                 faults, stops, lostReplies>>

ReplayDist(i) ==
  /\ dphase[i] = "dead" /\ <<"dist", i>> \notin replayed
  /\ Cardinality(replayed) < MaxReplays
  /\ replayed' = replayed \cup {<<"dist", i>>}
  /\ AddDist(1, djob[i])
  /\ UNCHANGED <<apiVars, rowVars, rqVars, rVars, dVars, fileVars, stopping,
                 faults, stops, lostReplies>>

(***************************************************************************)
(* The specification.                                                      *)
(***************************************************************************)

RequestSteps(j) ==
  \/ Insert(j) \/ AbandonRequest(j)
  \/ \E n \in 0..2, ok \in BOOLEAN : Dispatch(j, n, ok)

RendererSteps(w) ==
  \/ RTake(w) \/ RBegin(w) \/ RMkdir(w) \/ RMkdirFails(w) \/ REncode(w)
  \/ RGenerated(w) \/ RGenerateFails(w)
  \/ \E n \in 0..2, ok \in BOOLEAN : REmit(w, n, ok)
  \/ RFail(w)
  \/ \E fate \in RQ!Fates \cup {"held"} : RReturn(w, fate)

DistributorSteps(v) ==
  \/ DTake(v)
  \/ \E d \in Targets, got \in SUBSET {"whole", "broken"}, ok \in BOOLEAN :
        DSend(v, d, got, ok)
  \/ DStatus(v) \/ DCleanup(v)
  \/ \E fate \in DQ!Fates \cup {"held"} : DReturn(v, fate)

Next ==
  \/ \E j \in Jobs : RequestSteps(j)
  \/ \E w \in Renderers : RendererSteps(w) \/ RTakeLost(w) \/ RCrash(w)
                            \/ Stop(w)
  \/ \E v \in Distributors : DistributorSteps(v) \/ DTakeLost(v) \/ DCrash(v)
                               \/ Stop(v)
  \/ \E i \in RIds : ReplayRender(i)
  \/ \E i \in DIds : ReplayDist(i)

Spec == Init /\ [][Next]_vars

\* The orchestrator finishes a request, and a worker goes on with what it does:
\* Redis and Postgres answer, ffmpeg ends, an adapter returns (each attempt
\* has a deadline).  Requests, signals, operators and faults owe nothing.
FairSpec ==
  /\ Spec
  /\ \A j \in Jobs : WF_vars(\E n \in 0..2, ok \in BOOLEAN : Dispatch(j, n, ok))
  /\ \A w \in Renderers : WF_vars(RendererSteps(w))
  /\ \A v \in Distributors : WF_vars(DistributorSteps(v))

(***************************************************************************)
(* Properties.                                                             *)
(***************************************************************************)

Terminal == {"complete", "failed"}

JobType ==
  /\ api \in [Jobs -> {"none", "inserted", "accepted", "refused"}]
  /\ status \in [Jobs -> {"absent", "queued", "rendering"} \cup Terminal]
  /\ outputKey \in SUBSET Jobs
  /\ workdir \in [Jobs -> {"none", "partial", "video"}]
  /\ received \in [Jobs -> [Destinations -> SUBSET {"whole", "broken"}]]

Phases == RQ!Fates \cup {"absent", "queued", "held"}

RQueueType ==
  /\ rphase \in [RIds -> Phases]
  /\ rjob \in [RIds -> Jobs \cup {NoJob}]

DQueueType ==
  /\ dphase \in [DIds -> Phases]
  /\ djob \in [DIds -> Jobs \cup {NoJob}]

HandlerType ==
  /\ rpc \in [Renderers -> {"idle", "begin", "mkdir", "generate", "encode",
                            "emit", "failed", "done", "error"}]
  /\ rcur \in [Renderers -> {0} \cup RIds]
  /\ dpc \in [Distributors -> {"idle", "send", "cleanup", "done", "error"}]
  /\ dcur \in [Distributors -> {0} \cup DIds]
  /\ dtodo \in [Distributors -> SUBSET Supported]
  /\ derr \in [Distributors -> BOOLEAN]

EnvType ==
  /\ stopping \in SUBSET Workers
  /\ replayed \in SUBSET ({"render", "dist"} \X (RIds \cup DIds))
  /\ faults \in 0..MaxFaults
  /\ stops \in 0..MaxStops
  /\ lostReplies \in 0..MaxLostReplies

\* The variables have the values they should.
TypeOK == JobType /\ RQueueType /\ DQueueType /\ HandlerType /\ EnvType

\* A job is complete only if every destination with an adapter took a video,
\* whatever crashes, is retried, sent twice or replayed.
CompleteMeansDelivered ==
  \A j \in Jobs : (status[j] = "complete" \/ j \in outputKey) =>
    \A d \in Supported : received[j][d] # {}

\* While XADD is carried out once per call and nobody replays, a distributor
\* has the video, whole and in its place, as long as it sends it: the renderer
\* is done with the file, and no other distributor cleans it away.
VideoIsThere ==
  \A v \in Distributors : dpc[v] = "send" => workdir[DJob(v)] = "video"

\* Likewise, the status of a job that has ended never changes: a renderer that
\* reports failure has not handed the job on.
EndedStaysEnded ==
  [][\A j \in Jobs : status[j] \in Terminal => status'[j] = status[j]]_status

\* A request, a queue or a live worker still has the job.
InFlight(j) ==
  \/ api[j] = "inserted"
  \/ \E i \in RIds : /\ rjob[i] = j
                     /\ rphase[i] = "queued" \/ \E w \in Renderers : rcur[w] = i
  \/ \E i \in DIds : /\ djob[i] = j
                     /\ dphase[i] = "queued" \/ \E v \in Distributors : dcur[v] = i

Idle == {j \in Jobs : api[j] # "none" /\ ~InFlight(j)}

\* Every fault and every shutdown leaves at most one job "queued" or
\* "rendering" for ever.
OneUndecidedPerFault ==
  Cardinality({j \in Idle : status[j] \notin Terminal}) <= faults + stops

\* Every fault and every shutdown leaves at most one work directory behind on
\* the shared volume.  A render or a distribution that fails leaves none.
OneLeakPerFault ==
  Cardinality({j \in Idle : workdir[j] # "none"}) <= faults + stops

\* While nothing crashes, fails or is told to stop, a job the API has accepted
\* ends and stays so, also if its XADD is carried out twice or its dead letters
\* are replayed.
AcceptedIsDecided ==
  \A j \in Jobs :
    (api[j] = "accepted") ~> [](status[j] \in Terminal \/ faults + stops > 0)

\* README.md, Cleanup: "The distributor removes the job's working directory
\* from the shared volume after successful distribution."
CleanedOnlyAfterSuccess ==
  [][\A j \in Jobs, v \in Distributors :
        (workdir[j] # "none" /\ workdir'[j] = "none" /\ DCleanup(v)) => ~derr[v]]_vars

=============================================================================
