------------------------- MODULE PipelineOnceProofs -------------------------
(***************************************************************************)
(* What holds of the pipeline while every XADD is carried out once and     *)
(* nobody replays: a job is in one pair of hands at a time.  From this     *)
(* follow that a distributor has the video as long as it sends it, and     *)
(* that the status of a job that has ended never changes.                  *)
(***************************************************************************)
EXTENDS PipelineProofs, FiniteSetTheorems

\* No two entries of a stream have the same job.
Unique ==
  /\ \A i, k \in RIds : rphase[i] # "absent" /\ rphase[k] # "absent" /\ rjob[i] = rjob[k]
                          => i = k
  /\ \A i, k \in DIds : dphase[i] # "absent" /\ dphase[k] # "absent" /\ djob[i] = djob[k]
                          => i = k

\* No two processes have the same entry in hand, and what is in hand is held.
RHands ==
  /\ \A w \in Renderers : rcur[w] # 0 => rphase[rcur[w]] = "held"
  /\ \A w, u \in Renderers : rcur[w] = rcur[u] /\ rcur[w] # 0 => w = u

DHands ==
  /\ \A v \in Distributors : dcur[v] # 0 => dphase[dcur[v]] = "held"
  /\ \A v, u \in Distributors : dcur[v] = dcur[u] /\ dcur[v] # 0 => v = u

Hands == RHands /\ DHands

\* A job is in no stream before the request has added it.
Fresh ==
  \A j \in Jobs : api[j] \in {"none", "inserted"} =>
    \A i \in RIds : rphase[i] # "absent" => rjob[i] # j

\* A renderer that has no job, is done with it, or was told to stop and can only
\* return: it sets no status any more.
Through(w) ==
  rpc[w] \in {"idle", "done", "error"} \/ (w \in stopping /\ rpc[w] = "failed")

\* A job is handed on by a renderer that took it, and is then done with it.
HandedOn ==
  /\ \A i \in DIds : dphase[i] # "absent" =>
       \E k \in RIds : rphase[k] \notin {"absent", "queued"} /\ rjob[k] = djob[i]
  /\ \A w \in Renderers, i \in DIds :
       ~Through(w) /\ dphase[i] # "absent" => djob[i] # RJob(w)

Once == Held /\ Unique /\ Hands /\ Fresh /\ HandedOn /\ replayed = {}

\* From the hand-off until it is sent the video is there.
VideoWaits ==
  /\ \A w \in Renderers : rpc[w] = "emit" => workdir[RJob(w)] = "video"
  /\ \A i \in DIds : dphase[i] = "queued" => workdir[djob[i]] = "video"
  /\ VideoIsThere

\* A job that still has a status to come has not ended.
NotEnded ==
  /\ \A j \in Jobs : api[j] \in {"none", "inserted"} => status[j] \notin Terminal
  /\ \A i \in RIds : rphase[i] = "queued" => status[rjob[i]] \notin Terminal
  /\ \A w \in Renderers : ~Through(w)
                            => status[RJob(w)] \notin Terminal
  /\ \A i \in DIds : dphase[i] = "queued" => status[djob[i]] \notin Terminal
  /\ \A v \in Distributors : dpc[v] = "send" => status[DJob(v)] \notin Terminal

(***************************************************************************)
(* One pair of hands.                                                      *)
(***************************************************************************)

\* A step that lets go of entries, or leaves them alone.
LEMMA RHandsQuiet ==
  ASSUME RHands,
         \A i \in RIds : rphase[i] = "held" => rphase'[i] = "held",
         \A w \in Renderers : rcur[w] \in {0} \cup RIds,
         \A w \in Renderers : rcur'[w] \in {0, rcur[w]}
  PROVE RHands'
  BY DEF RHands

LEMMA DHandsQuiet ==
  ASSUME DHands,
         \A i \in DIds : dphase[i] = "held" => dphase'[i] = "held",
         \A v \in Distributors : dcur[v] \in {0} \cup DIds,
         \A v \in Distributors : dcur'[v] \in {0, dcur[v]}
  PROVE DHands'
  BY DEF DHands

\* What the steps of the queues do to the entries that are held.
LEMMA RMoveKeepsHeld ==
  ASSUME RQueueType, NEW i \in RIds, RQ!Take(i) \/ \E fate \in RQ!Fates : RQ!Settle(i, fate)
  PROVE /\ \A k \in RIds : rphase'[k] = "absent" <=> rphase[k] = "absent"
        /\ \A k \in RIds : rphase'[k] = "queued" => rphase[k] = "queued"
        /\ \A k \in RIds : k # i => rphase'[k] = rphase[k]
  BY DEF RQueueType, RQ!Take, RQ!Settle, RQ!Fates

LEMMA DMoveKeepsHeld ==
  ASSUME DQueueType, NEW i \in DIds, DQ!Take(i) \/ \E fate \in DQ!Fates : DQ!Settle(i, fate)
  PROVE /\ \A k \in DIds : dphase'[k] = "absent" <=> dphase[k] = "absent"
        /\ \A k \in DIds : dphase'[k] = "queued" => dphase[k] = "queued"
        /\ \A k \in DIds : k # i => dphase'[k] = dphase[k]
  BY DEF DQueueType, DQ!Take, DQ!Settle, DQ!Fates

\* Adding one entry, or none.
LEMMA RAddOne ==
  ASSUME Held, NEW n \in {0, 1}, NEW j \in Jobs, AddRender(n, j)
  PROVE /\ \A k \in RIds : rphase[k] # "absent" => rphase'[k] = rphase[k] /\ rjob'[k] = rjob[k]
        /\ \A k \in RIds : rphase[k] = "absent" /\ rphase'[k] # "absent"
             => rphase'[k] = "queued" /\ rjob'[k] = j /\ n = 1
        /\ \A k, i \in RIds :
             rphase[k] = "absent" /\ rphase'[k] # "absent" /\ rphase[i] = "absent"
               /\ rphase'[i] # "absent" => k = i
  <1>1. PICK last \in 0..MaxRender :
          /\ \A i \in RIds : rphase[i] = "absent" <=> last < i
          /\ last + n <= MaxRender
          /\ rjob' = [i \in RIds |-> IF last < i /\ i <= last + n THEN j ELSE rjob[i]]
          /\ IF n = 0 THEN UNCHANGED rphase ELSE RQ!Add(last + n)
    BY DEF AddRender
  <1>2. last \in Nat /\ RIds \subseteq Nat  BY Bounds DEF RIds
  <1>3. CASE n = 0
    <2>1. \A k \in RIds : ~(last < k /\ k <= last + n)  BY <1>2, <1>3
    <2>2. \A k \in RIds : rphase'[k] = rphase[k] /\ rjob'[k] = rjob[k]
      BY <1>1, <1>3, <2>1
    <2>3. \A k \in RIds : ~(rphase[k] = "absent" /\ rphase'[k] # "absent")
      BY <2>2
    <2>4. \A k \in RIds : rphase[k] # "absent" => rphase'[k] = rphase[k] /\ rjob'[k] = rjob[k]
      BY <2>2
    <2> QED  BY <2>3, <2>4
  <1>4. CASE n = 1
    <2>1. rphase' = [i \in RIds |-> IF rphase[i] = "absent" /\ i <= last + 1
                                    THEN "queued" ELSE rphase[i]]
      BY <1>1, <1>4 DEF RQ!Add
    <2>2. \A k \in RIds : rphase[k] # "absent" => rphase'[k] = rphase[k] /\ rjob'[k] = rjob[k]
      BY <1>1, <2>1
    <2>3. \A k \in RIds : rphase[k] = "absent" /\ rphase'[k] # "absent"
             => rphase'[k] = "queued" /\ rjob'[k] = j /\ k = last + 1
      BY <1>1, <1>2, <1>4, <2>1
    <2>4. \A k, i \in RIds :
            rphase[k] = "absent" /\ rphase'[k] # "absent" /\ rphase[i] = "absent"
              /\ rphase'[i] # "absent" => k = i
      BY <2>3
    <2> QED  BY <1>4, <2>2, <2>3, <2>4
  <1> QED  BY <1>3, <1>4

LEMMA DAddOne ==
  ASSUME Held, NEW n \in {0, 1}, NEW j \in Jobs, AddDist(n, j)
  PROVE /\ \A k \in DIds : dphase[k] # "absent" => dphase'[k] = dphase[k] /\ djob'[k] = djob[k]
        /\ \A k \in DIds : dphase[k] = "absent" /\ dphase'[k] # "absent"
             => dphase'[k] = "queued" /\ djob'[k] = j /\ n = 1
        /\ \A k, i \in DIds :
             dphase[k] = "absent" /\ dphase'[k] # "absent" /\ dphase[i] = "absent"
               /\ dphase'[i] # "absent" => k = i
  <1>1. PICK last \in 0..MaxDist :
          /\ \A i \in DIds : dphase[i] = "absent" <=> last < i
          /\ last + n <= MaxDist
          /\ djob' = [i \in DIds |-> IF last < i /\ i <= last + n THEN j ELSE djob[i]]
          /\ IF n = 0 THEN UNCHANGED dphase ELSE DQ!Add(last + n)
    BY DEF AddDist
  <1>2. last \in Nat /\ DIds \subseteq Nat  BY Bounds DEF DIds
  <1>3. CASE n = 0
    <2>1. \A k \in DIds : ~(last < k /\ k <= last + n)  BY <1>2, <1>3
    <2>2. \A k \in DIds : dphase'[k] = dphase[k] /\ djob'[k] = djob[k]
      BY <1>1, <1>3, <2>1
    <2>3. \A k \in DIds : ~(dphase[k] = "absent" /\ dphase'[k] # "absent")
      BY <2>2
    <2>4. \A k \in DIds : dphase[k] # "absent" => dphase'[k] = dphase[k] /\ djob'[k] = djob[k]
      BY <2>2
    <2> QED  BY <2>3, <2>4
  <1>4. CASE n = 1
    <2>1. dphase' = [i \in DIds |-> IF dphase[i] = "absent" /\ i <= last + 1
                                    THEN "queued" ELSE dphase[i]]
      BY <1>1, <1>4 DEF DQ!Add
    <2>2. \A k \in DIds : dphase[k] # "absent" => dphase'[k] = dphase[k] /\ djob'[k] = djob[k]
      BY <1>1, <2>1
    <2>3. \A k \in DIds : dphase[k] = "absent" /\ dphase'[k] # "absent"
             => dphase'[k] = "queued" /\ djob'[k] = j /\ k = last + 1
      BY <1>1, <1>2, <1>4, <2>1
    <2>4. \A k, i \in DIds :
            dphase[k] = "absent" /\ dphase'[k] # "absent" /\ dphase[i] = "absent"
              /\ dphase'[i] # "absent" => k = i
      BY <2>3
    <2> QED  BY <1>4, <2>2, <2>3, <2>4
  <1> QED  BY <1>3, <1>4

\* Without lost replies an XADD adds one entry or fails.
LEMMA AddsOne ==
  ASSUME MaxLostReplies = 0, Held, NEW n \in 0..2, NEW ok \in BOOLEAN,
         XAddEnds(n, ok) \/ XAddCutOff(n, ok)
  PROVE n \in {0, 1} /\ (ok => n = 1)
  BY DEF XAddEnds, XAddCutOff, LostReply, Held, TypeOK, EnvType

LEMMA EmitAdds ==
  ASSUME MaxLostReplies = 0, Held, NEW w \in Renderers, NEW n \in 0..2,
         NEW ok \in BOOLEAN, REmit(w, n, ok)
  PROVE n \in {0, 1} /\ (n = 1 => ok \/ w \in stopping')
  BY AddsOne DEF REmit, StoppedEmitting, XAddCutOff, XAddEnds, LostReply, Held, TypeOK,
         EnvType

\* Two renderers at work, or a renderer and an entry that waits, have
\* different jobs; likewise on the other side.
LEMMA RApart ==
  ASSUME Once, NEW w \in Renderers, rpc[w] # "idle"
  PROVE /\ RJob(w) \in Jobs /\ rcur[w] \in RIds /\ rphase[rcur[w]] = "held"
        /\ \A u \in Renderers : rpc[u] # "idle" /\ u # w => RJob(u) # RJob(w)
        /\ \A i \in RIds : rphase[i] = "queued" => rjob[i] # RJob(w)
        /\ api[RJob(w)] \notin {"none", "inserted"}
  <1>1. \A u \in Renderers : rpc[u] # "idle" =>
          rcur[u] \in RIds /\ rphase[rcur[u]] = "held" /\ RJob(u) \in Jobs
    BY DEF Once, Held, TypeOK, HandlerType, HandlersHaveEntries, EntriesHaveJobs, Hands,
           RHands, RJob
  <1>2. \A u \in Renderers : rpc[u] # "idle" /\ u # w => RJob(u) # RJob(w)
    <2> SUFFICES ASSUME NEW u \in Renderers, rpc[u] # "idle", RJob(u) = RJob(w)
                 PROVE  u = w
      OBVIOUS
    <2>1. rcur[u] = rcur[w] /\ rcur[w] # 0
      BY <1>1, Bounds DEF Once, Unique, RJob, RIds
    <2> QED  BY <2>1 DEF Once, Hands, RHands
  <1>3. \A i \in RIds : rphase[i] = "queued" => rjob[i] # RJob(w)
    BY <1>1 DEF Once, Unique, RJob
  <1>4. api[RJob(w)] \notin {"none", "inserted"}
    BY <1>1 DEF Once, Fresh, RJob
  <1> QED  BY <1>1, <1>2, <1>3, <1>4

LEMMA DApart ==
  ASSUME Once, NEW v \in Distributors, dpc[v] # "idle"
  PROVE /\ DJob(v) \in Jobs /\ dcur[v] \in DIds /\ dphase[dcur[v]] = "held"
        /\ \A u \in Distributors : dpc[u] # "idle" /\ u # v => DJob(u) # DJob(v)
        /\ \A i \in DIds : dphase[i] = "queued" => djob[i] # DJob(v)
        /\ \A w \in Renderers : ~Through(w) => RJob(w) # DJob(v)
        /\ \A i \in RIds : rphase[i] = "queued" => rjob[i] # DJob(v)
        /\ api[DJob(v)] \notin {"none", "inserted"}
  <1>1. \A u \in Distributors : dpc[u] # "idle" =>
          dcur[u] \in DIds /\ dphase[dcur[u]] = "held" /\ DJob(u) \in Jobs
    BY DEF Once, Held, TypeOK, HandlerType, HandlersHaveEntries, EntriesHaveJobs, Hands,
           DHands, DJob
  <1>2. PICK k \in RIds : rphase[k] \notin {"absent", "queued"} /\ rjob[k] = DJob(v)
    BY <1>1 DEF Once, HandedOn, DJob
  <1>3. \A i \in RIds : rphase[i] = "queued" => rjob[i] # DJob(v)
    BY <1>2 DEF Once, Unique
  <1>4. api[DJob(v)] \notin {"none", "inserted"}
    BY <1>1, <1>2 DEF Once, Fresh
  <1>5. \A u \in Distributors : dpc[u] # "idle" /\ u # v => DJob(u) # DJob(v)
    <2> SUFFICES ASSUME NEW u \in Distributors, dpc[u] # "idle", DJob(u) = DJob(v)
                 PROVE  u = v
      OBVIOUS
    <2>1. dcur[u] = dcur[v] /\ dcur[v] # 0
      BY <1>1, Bounds DEF Once, Unique, DJob, DIds
    <2> QED  BY <2>1 DEF Once, Hands, DHands
  <1>6. \A i \in DIds : dphase[i] = "queued" => djob[i] # DJob(v)
    BY <1>1 DEF Once, Unique, DJob
  <1>7. \A w \in Renderers : ~Through(w) => RJob(w) # DJob(v)
    BY <1>1 DEF Once, HandedOn, DJob
  <1> QED  BY <1>1, <1>3, <1>4, <1>5, <1>6, <1>7

\* A step that adds no entry and starts no renderer.
LEMMA OnceQuiet ==
  ASSUME Once, Held', UNCHANGED <<rjob, djob, replayed>>,
         \A i \in RIds : /\ rphase'[i] = "absent" <=> rphase[i] = "absent"
                         /\ rphase'[i] = "queued" => rphase[i] = "queued",
         \A i \in DIds : dphase'[i] = "absent" <=> dphase[i] = "absent",
         \A j \in Jobs : api'[j] \in {"none", "inserted"} => api[j] \in {"none", "inserted"},
         \A w \in Renderers : ~Through(w)' =>
           ~Through(w) /\ rcur'[w] = rcur[w],
         RHands', DHands'
  PROVE Once'
  <1>1. Unique'  BY DEF Once, Unique
  <1>2. Fresh'  BY DEF Once, Fresh
  <1>3. HandedOn'  BY DEF Once, HandedOn, RJob
  <1> QED  BY <1>1, <1>2, <1>3 DEF Once, Hands

\* Every step keeps a job in one pair of hands.
LEMMA OnceNext ==
  ASSUME MaxLostReplies = 0, MaxReplays = 0, Once, [Next]_vars
  PROVE Once'
  <1>0. /\ Held /\ Held' /\ RKept /\ DKept /\ HandlerType /\ JobType /\ RQueueType
        /\ DQueueType /\ RHands /\ DHands /\ replayed = {}
    BY KeptNext, HeldNext DEF Once, Held, TypeOK, Hands
  <1>00. /\ \A w \in Renderers : rcur[w] \in {0} \cup RIds
         /\ \A v \in Distributors : dcur[v] \in {0} \cup DIds
    BY <1>0 DEF HandlerType
  <1> USE DEF Through, envVars
  <1>1. ASSUME NEW j \in Jobs, Insert(j)
        PROVE  Once'
    <2>1. RHands'  BY <1>0, <1>00, <1>1, RHandsQuiet DEF Insert, rVars, rqVars
    <2>2. DHands'  BY <1>0, <1>00, <1>1, DHandsQuiet DEF Insert, dVars, dqVars
    <2> QED
      BY <1>0, <1>1, <2>1, <2>2, OnceQuiet DEF Insert, HandlerType, JobType, rqVars,
               dqVars, rVars, apiVars, envVars
  <1>2. ASSUME NEW j \in Jobs, AbandonRequest(j)
        PROVE  Once'
    <2>1. RHands'  BY <1>0, <1>00, <1>2, RHandsQuiet DEF AbandonRequest, rVars, rqVars
    <2>2. DHands'  BY <1>0, <1>00, <1>2, DHandsQuiet DEF AbandonRequest, dVars, dqVars
    <2> QED
      BY <1>0, <1>2, <2>1, <2>2, OnceQuiet DEF AbandonRequest, HandlerType, JobType,
               rqVars, dqVars, rVars, apiVars, envVars
  <1>3. ASSUME NEW j \in Jobs, NEW n \in 0..2, NEW ok \in BOOLEAN, Dispatch(j, n, ok)
        PROVE  Once'
    <2>1. n \in {0, 1} /\ (ok => n = 1)  BY <1>0, <1>3, AddsOne DEF Dispatch
    <2>2. AddRender(n, j) /\ api[j] = "inserted"  BY <1>3 DEF Dispatch
    <2>3. \A i \in RIds : rphase[i] # "absent" => rjob[i] # j  BY <2>2 DEF Once, Fresh
    <2>4. Unique'  BY <1>0, <1>3, <2>1, <2>2, <2>3, RAddOne DEF Once, Unique, Dispatch, dqVars
    <2>5. RHands'  BY <1>0, <1>00, <1>3, <2>1, <2>2, RAddOne, RHandsQuiet DEF Dispatch, rVars
    <2>6. DHands'  BY <1>0, <1>00, <1>3, DHandsQuiet DEF Dispatch, dVars, dqVars
    <2>7. Fresh'
      BY <1>0, <1>3, <2>1, <2>2, <2>3, RAddOne DEF Once, Fresh, Dispatch, JobType
    <2>8. HandedOn'
      <3>1. \A w \in Renderers : ~Through(w)' =>
              ~Through(w) /\ RJob(w)' = RJob(w)
        BY <1>0, <1>3 DEF Dispatch, rVars, RJob, RKept, Held, HandlersHaveEntries, HandlerType
      <3> QED  BY <1>0, <1>3, <2>1, <2>2, <3>1, RAddOne DEF Once, HandedOn, Dispatch, dqVars
    <2> QED  BY <1>0, <1>3, <2>4, <2>5, <2>6, <2>7, <2>8 DEF Once, Hands, Dispatch
  <1>4. ASSUME NEW w \in Renderers, RTake(w)
        PROVE  Once'
    <2>1. PICK i \in RIds : RQ!Take(i) /\ rcur' = [rcur EXCEPT ![w] = i]
      BY <1>4 DEF RTake, RTakes
    <2>2. /\ rphase[i] = "queued" /\ rphase'[i] = "held"
          /\ \A l \in RIds : /\ rphase'[l] = "absent" <=> rphase[l] = "absent"
                             /\ rphase'[l] = "queued" => rphase[l] = "queued"
                             /\ l # i => rphase'[l] = rphase[l]
      BY <1>0, <2>1 DEF RQ!Take, RQueueType
    <2>3. Unique'  BY <1>4, <2>2 DEF Once, Unique, RTake, dqVars
    <2>4. RHands'  BY <1>0, <1>00, <2>1, <2>2 DEF RHands, HandlerType
    <2>5. DHands'  BY <1>0, <1>00, <1>4, DHandsQuiet DEF RTake, dVars, dqVars
    <2>6. Fresh'  BY <1>4, <2>2 DEF Once, Fresh, RTake, apiVars
    <2>7. \A l \in DIds : dphase[l] # "absent" => djob[l] # rjob[i]
      BY <2>2 DEF Once, HandedOn, Unique
    <2>8. HandedOn'
      <3>1. \A l \in DIds : dphase'[l] # "absent" =>
              \E m \in RIds : rphase'[m] \notin {"absent", "queued"} /\ rjob'[m] = djob'[l]
        BY <1>4, <2>2 DEF Once, HandedOn, RTake, dqVars
      <3>2. ASSUME NEW u \in Renderers, NEW l \in DIds, ~Through(u)',
                   dphase'[l] # "absent"
            PROVE  djob'[l] # RJob(u)'
        <4>1. CASE u = w
          BY <1>0, <1>4, <2>1, <2>7, <3>2, <4>1 DEF RTake, RJob, dqVars, HandlerType
        <4>2. CASE u # w
          BY <1>0, <1>4, <2>1, <3>2, <4>2
             DEF RTake, RGoto, RJob, dqVars, HandlerType, Once, HandedOn
        <4> QED  BY <4>1, <4>2
      <3> QED  BY <3>1, <3>2 DEF HandedOn
    <2> QED  BY <1>0, <1>4, <2>3, <2>4, <2>5, <2>6, <2>8 DEF Once, Hands, RTake, envVars
  <1>5. ASSUME NEW w \in Renderers, RTakeLost(w)
        PROVE  Once'
    <2>1. PICK i \in RIds : RQ!Take(i)  BY <1>5 DEF RTakeLost
    <2>2. /\ rphase[i] = "queued" /\ rphase'[i] = "held"
          /\ \A l \in RIds : /\ rphase'[l] = "absent" <=> rphase[l] = "absent"
                             /\ rphase'[l] = "queued" => rphase[l] = "queued"
                             /\ l # i => rphase'[l] = rphase[l]
      BY <1>0, <2>1 DEF RQ!Take, RQueueType
    <2>3. RHands'  BY <1>0, <1>00, <1>5, <2>2, RHandsQuiet DEF RTakeLost, rVars
    <2>4. DHands'  BY <1>0, <1>00, <1>5, DHandsQuiet DEF RTakeLost, dVars, dqVars
    <2> QED
      BY <1>0, <1>5, <2>2, <2>3, <2>4, OnceQuiet
         DEF RTakeLost, dqVars, rVars, apiVars, envVars
  <1>6. ASSUME NEW w \in Renderers, RBegin(w)
        PROVE  Once'
    <2>1. RHands'  BY <1>0, <1>00, <1>6, RHandsQuiet DEF RBegin, rVars, rqVars
    <2>2. DHands'  BY <1>0, <1>00, <1>6, DHandsQuiet DEF RBegin, dVars, dqVars
    <2> QED
      BY <1>0, <1>6, <2>1, <2>2, OnceQuiet DEF RBegin, RGoto, HandlerType, JobType,
               rqVars, dqVars, rVars, apiVars, envVars
  <1>7. ASSUME NEW w \in Renderers, RMkdir(w)
        PROVE  Once'
    <2>1. RHands'  BY <1>0, <1>00, <1>7, RHandsQuiet DEF RMkdir, rVars, rqVars
    <2>2. DHands'  BY <1>0, <1>00, <1>7, DHandsQuiet DEF RMkdir, dVars, dqVars
    <2> QED
      BY <1>0, <1>7, <2>1, <2>2, OnceQuiet DEF RMkdir, RGoto, HandlerType, JobType,
               rqVars, dqVars, rVars, apiVars, envVars
  <1>8. ASSUME NEW w \in Renderers, RMkdirFails(w)
        PROVE  Once'
    <2>1. RHands'  BY <1>0, <1>00, <1>8, RHandsQuiet DEF RMkdirFails, rVars, rqVars
    <2>2. DHands'  BY <1>0, <1>00, <1>8, DHandsQuiet DEF RMkdirFails, dVars, dqVars
    <2> QED
      BY <1>0, <1>8, <2>1, <2>2, OnceQuiet DEF RMkdirFails, RGoto, HandlerType, JobType,
               rqVars, dqVars, rVars, apiVars, envVars
  <1>9. ASSUME NEW w \in Renderers, REncode(w)
        PROVE  Once'
    <2>1. RHands'  BY <1>0, <1>00, <1>9, RHandsQuiet DEF REncode, rVars, rqVars
    <2>2. DHands'  BY <1>0, <1>00, <1>9, DHandsQuiet DEF REncode, dVars, dqVars
    <2> QED
      BY <1>0, <1>9, <2>1, <2>2, OnceQuiet DEF REncode, RGoto, HandlerType, JobType,
               rqVars, dqVars, rVars, apiVars, envVars
  <1>10. ASSUME NEW w \in Renderers, RGenerated(w)
        PROVE  Once'
    <2>1. RHands'  BY <1>0, <1>00, <1>10, RHandsQuiet DEF RGenerated, rVars, rqVars
    <2>2. DHands'  BY <1>0, <1>00, <1>10, DHandsQuiet DEF RGenerated, dVars, dqVars
    <2> QED
      BY <1>0, <1>10, <2>1, <2>2, OnceQuiet DEF RGenerated, RGoto, HandlerType, JobType,
               rqVars, dqVars, rVars, apiVars, envVars
  <1>11. ASSUME NEW w \in Renderers, RGenerateFails(w)
        PROVE  Once'
    <2>1. RHands'  BY <1>0, <1>00, <1>11, RHandsQuiet DEF RGenerateFails, rVars, rqVars
    <2>2. DHands'  BY <1>0, <1>00, <1>11, DHandsQuiet DEF RGenerateFails, dVars, dqVars
    <2> QED
      BY <1>0, <1>11, <2>1, <2>2, OnceQuiet DEF RGenerateFails, RGoto, AfterRenderError,
               HandlerType, JobType, rqVars, dqVars, rVars, apiVars, envVars
  <1>12. ASSUME NEW w \in Renderers, NEW n \in 0..2, NEW ok \in BOOLEAN, REmit(w, n, ok)
        PROVE  Once'
    <2>1. n \in {0, 1} /\ (n = 1 => ok \/ w \in stopping')
      BY <1>0, <1>12, EmitAdds
    <2>2. AddDist(n, RJob(w)) /\ rpc[w] = "emit"  BY <1>12 DEF REmit, EmitsAt
    <2>3. RJob(w) \in Jobs /\ rcur[w] \in RIds /\ rphase[rcur[w]] = "held"
      BY <2>2, RApart
    <2>4. \A i \in DIds : dphase[i] # "absent" => djob[i] # RJob(w)
      BY <2>2 DEF Once, HandedOn
    <2>5. Unique'
      BY <1>0, <1>12, <2>1, <2>2, <2>3, <2>4, DAddOne DEF Once, Unique, REmit, rqVars
    <2>6. RHands'  BY <1>0, <1>00, <1>12, RHandsQuiet DEF REmit, rqVars
    <2>7. DHands'  BY <1>0, <1>00, <1>12, <2>1, <2>2, <2>3, DAddOne, DHandsQuiet DEF REmit, dVars
    <2>8. Fresh'  BY <1>12 DEF Once, Fresh, REmit, rqVars, apiVars
    <2>9. HandedOn'
      <3>1. \A i \in DIds : dphase'[i] # "absent" =>
              \E l \in RIds : rphase'[l] \notin {"absent", "queued"} /\ rjob'[l] = djob'[i]
        BY <1>0, <1>12, <2>1, <2>2, <2>3, DAddOne DEF Once, HandedOn, REmit, rqVars, RJob
      <3>2. ASSUME NEW u \in Renderers, NEW i \in DIds, ~Through(u)',
                   dphase'[i] # "absent"
            PROVE  djob'[i] # RJob(u)'
        <4>1. ~Through(u) /\ RJob(u)' = RJob(u)
          BY <1>0, <1>12, <2>2, <3>2
             DEF REmit, StoppedEmitting, RGoto, HandlerType, RJob, rqVars
        <4>2. CASE dphase[i] # "absent"
          BY <1>0, <2>1, <2>2, <2>3, <4>1, <4>2, DAddOne DEF Once, HandedOn
        <4>3. CASE dphase[i] = "absent"
          <5>1. n = 1 /\ djob'[i] = RJob(w)
            BY <1>0, <2>1, <2>2, <2>3, <3>2, <4>3, DAddOne
          <5>2. u # w
            BY <1>0, <1>12, <2>1, <3>2, <5>1 DEF REmit, RGoto, HandlerType
          <5> QED  BY <2>2, <4>1, <5>1, <5>2, RApart
        <4> QED  BY <4>2, <4>3
      <3> QED  BY <3>1, <3>2 DEF HandedOn
    <2> QED  BY <1>0, <1>12, <2>5, <2>6, <2>7, <2>8, <2>9 DEF Once, Hands, REmit
  <1>13. ASSUME NEW w \in Renderers, RFail(w)
        PROVE  Once'
    <2>1. RHands'  BY <1>0, <1>00, <1>13, RHandsQuiet DEF RFail, rVars, rqVars
    <2>2. DHands'  BY <1>0, <1>00, <1>13, DHandsQuiet DEF RFail, dVars, dqVars
    <2> QED
      BY <1>0, <1>13, <2>1, <2>2, OnceQuiet DEF RFail, RGoto, HandlerType, JobType,
               rqVars, dqVars, rVars, apiVars, envVars
  <1>14. ASSUME NEW w \in Renderers, NEW fate \in RQ!Fates \cup {"held"}, RReturn(w, fate)
        PROVE  Once'
    <2>1. rcur[w] \in RIds
      BY <1>0, <1>14 DEF RReturn, HandlerType, Held, HandlersHaveEntries
    <2>2. \A i \in RIds : /\ rphase'[i] = "absent" <=> rphase[i] = "absent"
                          /\ rphase'[i] = "queued" => rphase[i] = "queued"
                          /\ i # rcur[w] => rphase'[i] = rphase[i]
      <3>1. CASE fate = "held"  BY <1>14, <3>1 DEF RReturn
      <3>2. CASE fate # "held"  BY <1>0, <1>14, <2>1, <3>2, RMoveKeepsHeld DEF RReturn
      <3> QED  BY <3>1, <3>2
    <2>3. RHands'
      <3>1. rcur'[w] = 0 /\ \A u \in Renderers : u # w => rcur'[u] = rcur[u]
        BY <1>0, <1>14 DEF RReturn, RRelease, HandlerType
      <3>2. \A u \in Renderers : u # w /\ rcur[u] # 0 =>
              rcur[u] \in RIds /\ rcur[u] # rcur[w] /\ rphase'[rcur[u]] = "held"
        BY <1>0, <1>00, <2>2 DEF RHands
      <3> QED  BY <1>0, <3>1, <3>2 DEF RHands
    <2>4. DHands'  BY <1>0, <1>00, <1>14, DHandsQuiet DEF RReturn, dVars, dqVars
    <2>5. \A u \in Renderers : ~Through(u)' =>
            ~Through(u) /\ rcur'[u] = rcur[u]
      BY <1>0, <1>14 DEF RReturn, RRelease, RGoto, HandlerType, rVars
    <2>6. UNCHANGED <<rjob, djob, replayed, dphase, api>>
      BY <1>14 DEF RReturn, dqVars, apiVars
    <2> QED  BY <1>0, <2>2, <2>3, <2>4, <2>5, <2>6, OnceQuiet DEF Once
  <1>15. ASSUME NEW w \in Renderers, RCrash(w)
        PROVE  Once'
    <2>1. RHands'  BY <1>0, <1>00, <1>15, RHandsQuiet DEF RCrash, rVars, rqVars,
             RRelease, HandlerType
    <2>2. DHands'  BY <1>0, <1>00, <1>15, DHandsQuiet DEF RCrash, dVars, dqVars
    <2> QED
      BY <1>0, <1>15, <2>1, <2>2, OnceQuiet DEF RCrash, RRelease, RGoto, HandlerType,
               JobType, rqVars, dqVars, rVars, apiVars, envVars
  <1>16. ASSUME NEW x \in Workers, Stop(x)
        PROVE  Once'
    <2>1. RHands'  BY <1>0, <1>00, <1>16, RHandsQuiet DEF Stop, rVars, rqVars
    <2>2. DHands'  BY <1>0, <1>00, <1>16, DHandsQuiet DEF Stop, dVars, dqVars
    <2> QED
      BY <1>0, <1>16, <2>1, <2>2, OnceQuiet DEF Stop, HandlerType, JobType, rqVars,
               dqVars, rVars, apiVars, envVars
  <1>17. ASSUME NEW v \in Distributors, DTake(v)
        PROVE  Once'
    <2>1. PICK i \in DIds : DQ!Take(i) /\ dcur' = [dcur EXCEPT ![v] = i]  BY <1>17 DEF DTake
    <2>2. /\ dphase[i] = "queued" /\ dphase'[i] = "held"
          /\ \A l \in DIds : /\ dphase'[l] = "absent" <=> dphase[l] = "absent"
                             /\ dphase'[l] = "queued" => dphase[l] = "queued"
                             /\ l # i => dphase'[l] = dphase[l]
      BY <1>0, <2>1 DEF DQ!Take, DQueueType
    <2>3. DHands'  BY <1>0, <1>00, <2>1, <2>2 DEF DHands, HandlerType
    <2>4. RHands'  BY <1>0, <1>00, <1>17, RHandsQuiet DEF DTake, rVars, rqVars
    <2> QED
      BY <1>0, <1>17, <2>2, <2>3, <2>4, OnceQuiet
         DEF DTake, rqVars, rVars, apiVars, envVars
  <1>18. ASSUME NEW v \in Distributors, DTakeLost(v)
        PROVE  Once'
    <2>1. PICK i \in DIds : DQ!Take(i)  BY <1>18 DEF DTakeLost
    <2>2. /\ dphase[i] = "queued" /\ dphase'[i] = "held"
          /\ \A l \in DIds : /\ dphase'[l] = "absent" <=> dphase[l] = "absent"
                             /\ dphase'[l] = "queued" => dphase[l] = "queued"
                             /\ l # i => dphase'[l] = dphase[l]
      BY <1>0, <2>1 DEF DQ!Take, DQueueType
    <2>3. DHands'  BY <1>0, <1>00, <1>18, <2>2, DHandsQuiet DEF DTakeLost, dVars
    <2>4. RHands'  BY <1>0, <1>00, <1>18, RHandsQuiet DEF DTakeLost, rVars, rqVars
    <2> QED
      BY <1>0, <1>18, <2>2, <2>3, <2>4, OnceQuiet
         DEF DTakeLost, rqVars, rVars, apiVars, envVars
  <1>19. ASSUME NEW v \in Distributors, NEW d \in Targets, NEW got \in SUBSET {"whole",
                "broken"}, NEW ok \in BOOLEAN, DSend(v, d, got, ok)
        PROVE  Once'
    <2>1. RHands'  BY <1>0, <1>00, <1>19, RHandsQuiet DEF DSend, rVars, rqVars
    <2>2. DHands'  BY <1>0, <1>00, <1>19, DHandsQuiet DEF DSend, dVars, dqVars
    <2> QED
      BY <1>0, <1>19, <2>1, <2>2, OnceQuiet DEF DSend, HandlerType, JobType, rqVars,
               dqVars, rVars, apiVars, envVars
  <1>20. ASSUME NEW v \in Distributors, DStatus(v)
        PROVE  Once'
    <2>1. RHands'  BY <1>0, <1>00, <1>20, RHandsQuiet DEF DStatus, rVars, rqVars
    <2>2. DHands'  BY <1>0, <1>00, <1>20, DHandsQuiet DEF DStatus, dVars, dqVars
    <2> QED
      BY <1>0, <1>20, <2>1, <2>2, OnceQuiet DEF DStatus, DGoto, HandlerType, JobType,
               rqVars, dqVars, rVars, apiVars, envVars
  <1>21. ASSUME NEW v \in Distributors, DCleanup(v)
        PROVE  Once'
    <2>1. RHands'  BY <1>0, <1>00, <1>21, RHandsQuiet DEF DCleanup, rVars, rqVars
    <2>2. DHands'  BY <1>0, <1>00, <1>21, DHandsQuiet DEF DCleanup, dVars, dqVars
    <2> QED
      BY <1>0, <1>21, <2>1, <2>2, OnceQuiet DEF DCleanup, DGoto, HandlerType, JobType,
               rqVars, dqVars, rVars, apiVars, envVars
  <1>22. ASSUME NEW v \in Distributors, NEW fate \in DQ!Fates \cup {"held"}, DReturn(v, fate)
        PROVE  Once'
    <2>1. dcur[v] \in DIds
      BY <1>0, <1>22 DEF DReturn, HandlerType, Held, HandlersHaveEntries
    <2>2. \A i \in DIds : /\ dphase'[i] = "absent" <=> dphase[i] = "absent"
                          /\ i # dcur[v] => dphase'[i] = dphase[i]
      <3>1. CASE fate = "held"  BY <1>22, <3>1 DEF DReturn
      <3>2. CASE fate # "held"  BY <1>0, <1>22, <2>1, <3>2, DMoveKeepsHeld DEF DReturn
      <3> QED  BY <3>1, <3>2
    <2>3. DHands'
      <3>1. dcur'[v] = 0 /\ \A u \in Distributors : u # v => dcur'[u] = dcur[u]
        BY <1>0, <1>22 DEF DReturn, DRelease, HandlerType
      <3>2. \A u \in Distributors : u # v /\ dcur[u] # 0 =>
              dcur[u] \in DIds /\ dcur[u] # dcur[v] /\ dphase'[dcur[u]] = "held"
        BY <1>0, <1>00, <2>2 DEF DHands
      <3> QED  BY <1>0, <3>1, <3>2 DEF DHands
    <2>4. RHands'  BY <1>0, <1>00, <1>22, RHandsQuiet DEF DReturn, rVars, rqVars
    <2>5. \A u \in Renderers : ~Through(u)' =>
            ~Through(u) /\ rcur'[u] = rcur[u]
      BY <1>0, <1>22, PipelineAssumption DEF DReturn, DRelease, DGoto, HandlerType, rVars
    <2>6. UNCHANGED <<rjob, djob, replayed, rphase, api>>
      BY <1>22 DEF DReturn, rqVars, apiVars
    <2> QED  BY <1>0, <2>2, <2>3, <2>4, <2>5, <2>6, OnceQuiet DEF Once
  <1>23. ASSUME NEW v \in Distributors, DCrash(v)
        PROVE  Once'
    <2>1. RHands'  BY <1>0, <1>00, <1>23, RHandsQuiet DEF DCrash, rVars, rqVars
    <2>2. DHands'  BY <1>0, <1>00, <1>23, DHandsQuiet DEF DCrash, dVars, dqVars,
             DRelease, HandlerType
    <2> QED
      BY <1>0, <1>23, <2>1, <2>2, PipelineAssumption, OnceQuiet DEF DCrash, DRelease, DGoto, HandlerType,
               JobType, rqVars, dqVars, rVars, apiVars, envVars
  <1>24. ASSUME NEW i \in RIds, ReplayRender(i)
        PROVE  Once'
    <2>1. Cardinality(replayed) = 0  BY <1>0, FS_EmptySet
    <2> QED  BY <1>24, <2>1 DEF ReplayRender
  <1>25. ASSUME NEW i \in DIds, ReplayDist(i)
        PROVE  Once'
    <2>1. Cardinality(replayed) = 0  BY <1>0, FS_EmptySet
    <2> QED  BY <1>25, <2>1 DEF ReplayDist
  <1>26. CASE UNCHANGED vars
    <2>1. RHands'  BY <1>0, <1>00, <1>26, RHandsQuiet DEF vars, rVars, rqVars
    <2>2. DHands'  BY <1>0, <1>00, <1>26, DHandsQuiet DEF vars, dVars, dqVars
    <2> QED
      BY <1>0, <1>26, <2>1, <2>2, OnceQuiet DEF vars, rqVars, dqVars, rVars, apiVars, envVars
  <1> QED  BY <1>1, <1>2, <1>3, <1>4, <1>5, <1>6, <1>7, <1>8, <1>9, <1>10,
              <1>11, <1>12, <1>13, <1>14, <1>15, <1>16, <1>17, <1>18, <1>19,
              <1>20, <1>21, <1>22, <1>23, <1>24, <1>25, <1>26
           DEF Next, RequestSteps, RendererSteps, DistributorSteps, Workers

(***************************************************************************)
(* The video waits for the distributor.                                    *)
(***************************************************************************)

\* A step that writes no work directory and hands nothing on.
LEMMA VideoQuiet ==
  ASSUME Held, RKept, DKept, VideoWaits, UNCHANGED workdir,
         \A w \in Renderers : rpc'[w] = "emit" => rpc[w] = "emit" /\ rcur'[w] = rcur[w],
         \A i \in DIds : dphase'[i] = "queued" => dphase[i] = "queued",
         \A v \in Distributors : dpc'[v] = "send" => dpc[v] = "send" /\ dcur'[v] = dcur[v]
  PROVE VideoWaits'
  <1>1. \A w \in Renderers : rpc'[w] = "emit" => workdir'[RJob(w)'] = "video"
    BY RJobKept DEF VideoWaits
  <1>2. \A i \in DIds : dphase'[i] = "queued" => workdir'[djob'[i]] = "video"
    BY DEF VideoWaits, DKept
  <1>3. \A v \in Distributors : dpc'[v] = "send" => workdir'[DJob(v)'] = "video"
    BY DJobKept DEF VideoWaits, VideoIsThere
  <1> QED  BY <1>1, <1>2, <1>3 DEF VideoWaits, VideoIsThere

\* A renderer writes the work directory of its own job.
LEMMA VideoWritten ==
  ASSUME Once, RKept, DKept, VideoWaits, UNCHANGED <<dphase, dpc, dcur, rcur>>,
         NEW w \in Renderers, rpc[w] \in AtWork,
         \A j \in Jobs : j # RJob(w) => workdir'[j] = workdir[j],
         \A u \in Renderers : u # w => rpc'[u] = rpc[u],
         rpc'[w] = "emit" => workdir'[RJob(w)] = "video"
  PROVE VideoWaits'
  <1>0. Held  BY DEF Once
  <1>1. ASSUME NEW u \in Renderers, rpc'[u] = "emit"
        PROVE  workdir'[RJob(u)'] = "video"
    <2>1. CASE u = w  BY <1>0, <1>1, <2>1, RJobKept DEF AtWork
    <2>2. CASE u # w
      <3>1. rpc[u] = "emit"  BY <1>1, <2>2
      <3>2. RJob(u) \in Jobs /\ RJob(u)' = RJob(u)  BY <1>0, <3>1, RJobKept
      <3>3. RJob(u) # RJob(w)  BY <2>2, <3>1, RApart DEF AtWork
      <3> QED  BY <3>1, <3>2, <3>3 DEF VideoWaits
    <2> QED  BY <2>1, <2>2
  <1>2. ASSUME NEW i \in DIds, dphase'[i] = "queued"
        PROVE  workdir'[djob'[i]] = "video"
    <2>1. djob[i] \in Jobs /\ djob'[i] = djob[i] /\ dphase[i] = "queued"
      BY <1>0, <1>2 DEF Held, EntriesHaveJobs, DKept
    <2>2. djob[i] # RJob(w)  BY <2>1 DEF Once, HandedOn, Through, AtWork
    <2> QED  BY <2>1, <2>2 DEF VideoWaits
  <1>3. ASSUME NEW v \in Distributors, dpc'[v] = "send"
        PROVE  workdir'[DJob(v)'] = "video"
    <2>1. DJob(v) \in Jobs /\ DJob(v)' = DJob(v)  BY <1>0, <1>3, DJobKept
    <2>2. DJob(v) # RJob(w)  BY <1>3, DApart DEF Through, AtWork
    <2> QED  BY <1>3, <2>1, <2>2 DEF VideoWaits, VideoIsThere
  <1> QED  BY <1>1, <1>2, <1>3 DEF VideoWaits, VideoIsThere

\* The directory is written only by the job's renderer, which has not handed it
\* on yet, and cleaned only by its distributor, which has sent it.
LEMMA VideoNext ==
  ASSUME MaxLostReplies = 0, MaxReplays = 0, Once, VideoWaits, [Next]_vars
  PROVE VideoWaits'
  <1>0. /\ Held /\ RKept /\ DKept /\ HandlerType /\ JobType /\ RQueueType /\ DQueueType
        /\ replayed = {}
    BY KeptNext DEF Once, Held, TypeOK
  <1>1. ASSUME NEW j \in Jobs, Insert(j)
        PROVE  VideoWaits'
    BY <1>0, <1>1, VideoQuiet DEF Insert, HandlerType, dqVars, rVars, dVars, fileVars
  <1>2. ASSUME NEW j \in Jobs, AbandonRequest(j)
        PROVE  VideoWaits'
    BY <1>0, <1>2, VideoQuiet DEF AbandonRequest, HandlerType, dqVars, rVars, dVars,
         fileVars
  <1>3. ASSUME NEW j \in Jobs, NEW n \in 0..2, NEW ok \in BOOLEAN, Dispatch(j, n, ok)
        PROVE  VideoWaits'
    BY <1>0, <1>3, VideoQuiet DEF Dispatch, HandlerType, dqVars, rVars, dVars, fileVars
  <1>4. ASSUME NEW w \in Renderers, RTake(w)
        PROVE  VideoWaits'
    BY <1>0, <1>4, VideoQuiet DEF RTake, RGoto, HandlerType, dqVars, dVars, fileVars
  <1>5. ASSUME NEW w \in Renderers, RTakeLost(w)
        PROVE  VideoWaits'
    BY <1>0, <1>5, VideoQuiet DEF RTakeLost, HandlerType, rVars, dqVars, dVars, fileVars
  <1>6. ASSUME NEW w \in Renderers, RBegin(w)
        PROVE  VideoWaits'
    BY <1>0, <1>6, VideoQuiet DEF RBegin, RGoto, HandlerType, dqVars, dVars, fileVars
  <1>7. ASSUME NEW w \in Renderers, RMkdir(w)
        PROVE  VideoWaits'
    <2>1. RJob(w) \in Jobs  BY <1>7, RApart DEF RMkdir
    <2> QED
      BY <1>0, <1>7, <2>1, VideoWritten
         DEF RMkdir, RGoto, HandlerType, JobType, AtWork, dqVars, dVars
  <1>8. ASSUME NEW w \in Renderers, RMkdirFails(w)
        PROVE  VideoWaits'
    <2>1. RJob(w) \in Jobs  BY <1>8, RApart DEF RMkdirFails
    <2> QED
      BY <1>0, <1>8, <2>1, VideoWritten
         DEF RMkdirFails, RGoto, HandlerType, JobType, AtWork, dqVars, dVars
  <1>9. ASSUME NEW w \in Renderers, REncode(w)
        PROVE  VideoWaits'
    <2>1. RJob(w) \in Jobs  BY <1>9, RApart DEF REncode
    <2> QED
      BY <1>0, <1>9, <2>1, VideoWritten
         DEF REncode, RGoto, HandlerType, JobType, AtWork, dqVars, dVars
  <1>10. ASSUME NEW w \in Renderers, RGenerated(w)
        PROVE  VideoWaits'
    <2>1. RJob(w) \in Jobs /\ rcur[w] \in RIds /\ rphase[rcur[w]] = "held"
      BY <1>10, RApart DEF RGenerated
    <2>2. ~RunsElsewhere(w)  BY <2>1 DEF RunsElsewhere, RJob, Once, Unique
    <2>3. workdir' = [workdir EXCEPT ![RJob(w)] = "video"]
      BY <1>10, <2>2 DEF RGenerated
    <2> QED
      BY <1>0, <1>10, <2>1, <2>3, VideoWritten
         DEF RGenerated, RGoto, HandlerType, JobType, AtWork, dqVars, dVars
  <1>11. ASSUME NEW w \in Renderers, RGenerateFails(w)
        PROVE  VideoWaits'
    <2>1. RJob(w) \in Jobs  BY <1>11, RApart DEF RGenerateFails
    <2> QED
      BY <1>0, <1>11, <2>1, VideoWritten
         DEF RGenerateFails, RGoto, AfterRenderError, HandlerType, JobType, AtWork, dqVars,
             dVars
  <1>12. ASSUME NEW w \in Renderers, NEW n \in 0..2, NEW ok \in BOOLEAN, REmit(w, n, ok)
        PROVE  VideoWaits'
    <2>1. n \in {0, 1}  BY <1>0, <1>12, EmitAdds
    <2>2. AddDist(n, RJob(w)) /\ rpc[w] = "emit"  BY <1>12 DEF REmit, EmitsAt
    <2>3. RJob(w) \in Jobs /\ workdir[RJob(w)] = "video"  BY <2>2, RApart DEF VideoWaits
    <2>4. ASSUME NEW u \in Renderers, rpc'[u] = "emit"
          PROVE  workdir'[RJob(u)'] = "video"
      <3>1. rpc[u] = "emit"  BY <1>0, <1>12, <2>4 DEF REmit, RGoto, HandlerType
      <3> QED  BY <1>0, <1>12, <3>1, RJobKept DEF REmit, fileVars, VideoWaits
    <2>5. ASSUME NEW i \in DIds, dphase'[i] = "queued"
          PROVE  workdir'[djob'[i]] = "video"
      <3>1. CASE dphase[i] = "absent"
        BY <1>0, <1>12, <2>1, <2>2, <2>3, <2>5, <3>1, DAddOne DEF REmit, fileVars
      <3>2. CASE dphase[i] # "absent"
        BY <1>0, <1>12, <2>1, <2>2, <2>3, <2>5, <3>2, DAddOne
           DEF REmit, fileVars, VideoWaits
      <3> QED  BY <3>1, <3>2
    <2>6. ASSUME NEW v \in Distributors, dpc'[v] = "send"
          PROVE  workdir'[DJob(v)'] = "video"
      BY <1>0, <1>12, <2>6, DJobKept DEF REmit, dVars, fileVars, VideoWaits, VideoIsThere
    <2> QED  BY <2>4, <2>5, <2>6 DEF VideoWaits, VideoIsThere
  <1>13. ASSUME NEW w \in Renderers, RFail(w)
        PROVE  VideoWaits'
    BY <1>0, <1>13, VideoQuiet DEF RFail, RGoto, HandlerType, dqVars, dVars, fileVars
  <1>14. ASSUME NEW w \in Renderers, NEW fate \in RQ!Fates \cup {"held"}, RReturn(w, fate)
        PROVE  VideoWaits'
    BY <1>0, <1>14, VideoQuiet DEF RReturn, RRelease, RGoto, HandlerType, dqVars, dVars,
         fileVars
  <1>15. ASSUME NEW w \in Renderers, RCrash(w)
        PROVE  VideoWaits'
    BY <1>0, <1>15, VideoQuiet DEF RCrash, RRelease, RGoto, HandlerType, dqVars, dVars,
         fileVars
  <1>16. ASSUME NEW x \in Workers, Stop(x)
        PROVE  VideoWaits'
    BY <1>0, <1>16, VideoQuiet DEF Stop, HandlerType, dqVars, rVars, dVars, fileVars
  <1>17. ASSUME NEW v \in Distributors, DTake(v)
        PROVE  VideoWaits'
    <2>1. PICK i \in DIds : DQ!Take(i) /\ dcur' = [dcur EXCEPT ![v] = i]  BY <1>17 DEF DTake
    <2>2. dphase[i] = "queued" /\ workdir[djob[i]] = "video"
      BY <2>1 DEF DQ!Take, VideoWaits
    <2>3. \A l \in DIds : dphase'[l] = "queued" => dphase[l] = "queued"
      BY <1>0, <2>1, DMoveKeepsHeld
    <2>4. ASSUME NEW w \in Renderers, rpc'[w] = "emit"
          PROVE  workdir'[RJob(w)'] = "video"
      BY <1>0, <1>17, <2>4, RJobKept DEF DTake, rVars, fileVars, VideoWaits
    <2>5. ASSUME NEW l \in DIds, dphase'[l] = "queued"
          PROVE  workdir'[djob'[l]] = "video"
      BY <1>17, <2>3, <2>5 DEF DTake, fileVars, VideoWaits
    <2>6. ASSUME NEW u \in Distributors, dpc'[u] = "send"
          PROVE  workdir'[DJob(u)'] = "video"
      <3>1. CASE u = v
        <4>1. DJob(u)' = djob[i]  BY <1>0, <1>17, <2>1, <3>1 DEF DTake, DJob, HandlerType
        <4> QED  BY <1>17, <2>2, <4>1 DEF DTake, fileVars
      <3>2. CASE u # v
        <4>1. dpc[u] = "send" /\ dcur'[u] = dcur[u]
          BY <1>0, <1>17, <2>1, <2>6, <3>2 DEF DTake, DGoto, HandlerType
        <4> QED
          BY <1>0, <1>17, <4>1, DJobKept DEF DTake, fileVars, VideoWaits, VideoIsThere
      <3> QED  BY <3>1, <3>2
    <2> QED  BY <2>4, <2>5, <2>6 DEF VideoWaits, VideoIsThere
  <1>18. ASSUME NEW v \in Distributors, DTakeLost(v)
        PROVE  VideoWaits'
    <2>1. \A i \in DIds : dphase'[i] = "queued" => dphase[i] = "queued"
      BY <1>0, <1>18, DMoveKeepsHeld DEF DTakeLost
    <2> QED
      BY <1>0, <1>18, <2>1, VideoQuiet DEF DTakeLost, HandlerType, rVars, dVars,
         fileVars
  <1>19. ASSUME NEW v \in Distributors, NEW d \in Targets, NEW got \in SUBSET {"whole",
                "broken"}, NEW ok \in BOOLEAN, DSend(v, d, got, ok)
        PROVE  VideoWaits'
    BY <1>0, <1>19, VideoQuiet DEF DSend, HandlerType, dqVars, rVars, fileVars
  <1>20. ASSUME NEW v \in Distributors, DStatus(v)
        PROVE  VideoWaits'
    BY <1>0, <1>20, VideoQuiet DEF DStatus, DGoto, HandlerType, dqVars, rVars, fileVars
  <1>21. ASSUME NEW v \in Distributors, DCleanup(v)
        PROVE  VideoWaits'
    <2>1. dpc[v] = "cleanup" /\ DJob(v) \in Jobs  BY <1>21, DApart DEF DCleanup
    <2>2. \A j \in Jobs : j # DJob(v) => workdir'[j] = workdir[j]
      BY <1>0, <1>21, <2>1 DEF DCleanup, JobType
    <2>3. ASSUME NEW w \in Renderers, rpc'[w] = "emit"
          PROVE  workdir'[RJob(w)'] = "video"
      <3>1. rpc[w] = "emit" /\ rcur'[w] = rcur[w]  BY <1>21, <2>3 DEF DCleanup, rVars
      <3>2. RJob(w) \in Jobs /\ RJob(w)' = RJob(w)  BY <1>0, <3>1, RJobKept
      <3>3. RJob(w) # DJob(v)  BY <2>1, <3>1, DApart DEF Through
      <3> QED  BY <2>2, <3>1, <3>2, <3>3 DEF VideoWaits
    <2>4. ASSUME NEW i \in DIds, dphase'[i] = "queued"
          PROVE  workdir'[djob'[i]] = "video"
      <3>1. dphase[i] = "queued" /\ djob'[i] = djob[i] /\ djob[i] \in Jobs
        BY <1>0, <1>21, <2>4 DEF DCleanup, dqVars, Held, EntriesHaveJobs
      <3>2. djob[i] # DJob(v)  BY <2>1, <3>1, DApart
      <3> QED  BY <2>2, <3>1, <3>2 DEF VideoWaits
    <2>5. ASSUME NEW u \in Distributors, dpc'[u] = "send"
          PROVE  workdir'[DJob(u)'] = "video"
      <3>1. u # v /\ dpc[u] = "send" /\ dcur'[u] = dcur[u]
        BY <1>0, <1>21, <2>5 DEF DCleanup, DGoto, HandlerType
      <3>2. DJob(u) \in Jobs /\ DJob(u)' = DJob(u)  BY <1>0, <3>1, DJobKept
      <3>3. DJob(u) # DJob(v)  BY <2>1, <3>1, DApart
      <3> QED  BY <2>2, <3>1, <3>2, <3>3 DEF VideoWaits, VideoIsThere
    <2> QED  BY <2>3, <2>4, <2>5 DEF VideoWaits, VideoIsThere
  <1>22. ASSUME NEW v \in Distributors, NEW fate \in DQ!Fates \cup {"held"}, DReturn(v, fate)
        PROVE  VideoWaits'
    <2>1. \A i \in DIds : dphase'[i] = "queued" => dphase[i] = "queued"
      <3>1. dcur[v] \in DIds
        BY <1>0, <1>22 DEF DReturn, HandlerType, Held, HandlersHaveEntries
      <3>2. CASE fate = "held"  BY <1>22, <3>2 DEF DReturn
      <3>3. CASE fate # "held"  BY <1>0, <1>22, <3>1, <3>3, DMoveKeepsHeld DEF DReturn
      <3> QED  BY <3>2, <3>3
    <2> QED
      BY <1>0, <1>22, <2>1, VideoQuiet DEF DReturn, DRelease, DGoto, HandlerType, rVars,
         fileVars
  <1>23. ASSUME NEW v \in Distributors, DCrash(v)
        PROVE  VideoWaits'
    BY <1>0, <1>23, VideoQuiet DEF DCrash, DRelease, DGoto, HandlerType, dqVars, rVars,
         fileVars
  <1>24. ASSUME NEW i \in RIds, ReplayRender(i)
        PROVE  VideoWaits'
    <2>1. Cardinality(replayed) = 0  BY <1>0, FS_EmptySet
    <2> QED  BY <1>24, <2>1 DEF ReplayRender
  <1>25. ASSUME NEW i \in DIds, ReplayDist(i)
        PROVE  VideoWaits'
    <2>1. Cardinality(replayed) = 0  BY <1>0, FS_EmptySet
    <2> QED  BY <1>25, <2>1 DEF ReplayDist
  <1>26. CASE UNCHANGED vars
    BY <1>0, <1>26, VideoQuiet DEF vars, dqVars, rVars, dVars, fileVars
  <1> QED  BY <1>1, <1>2, <1>3, <1>4, <1>5, <1>6, <1>7, <1>8, <1>9, <1>10,
              <1>11, <1>12, <1>13, <1>14, <1>15, <1>16, <1>17, <1>18, <1>19,
              <1>20, <1>21, <1>22, <1>23, <1>24, <1>25, <1>26
           DEF Next, RequestSteps, RendererSteps, DistributorSteps, Workers

(***************************************************************************)
(* A status that is final.                                                 *)
(***************************************************************************)

\* A step that ends no job, adds no entry and starts no handler.
LEMMA EndedQuiet ==
  ASSUME Held, RKept, DKept, NotEnded,
         \A j \in Jobs : status'[j] \in Terminal => status[j] \in Terminal,
         \A j \in Jobs : api'[j] \in {"none", "inserted"} => api[j] \in {"none", "inserted"},
         \A i \in RIds : rphase'[i] = "queued" => rphase[i] = "queued",
         \A w \in Renderers : ~Through(w)' =>
           ~Through(w) /\ rcur'[w] = rcur[w],
         \A i \in DIds : dphase'[i] = "queued" => dphase[i] = "queued",
         \A v \in Distributors : dpc'[v] = "send" => dpc[v] = "send" /\ dcur'[v] = dcur[v]
  PROVE NotEnded'
  <1>1. \A j \in Jobs : api'[j] \in {"none", "inserted"} => status'[j] \notin Terminal
    BY DEF NotEnded
  <1>2. \A i \in RIds : rphase'[i] = "queued" => status'[rjob'[i]] \notin Terminal
    BY DEF NotEnded, RKept, Held, EntriesHaveJobs
  <1>3. \A w \in Renderers : ~Through(w)'
                               => status'[RJob(w)'] \notin Terminal
    BY RJobKept DEF NotEnded, Through
  <1>4. \A i \in DIds : dphase'[i] = "queued" => status'[djob'[i]] \notin Terminal
    BY DEF NotEnded, DKept, Held, EntriesHaveJobs
  <1>5. \A v \in Distributors : dpc'[v] = "send" => status'[DJob(v)'] \notin Terminal
    BY DJobKept DEF NotEnded
  <1> QED  BY <1>1, <1>2, <1>3, <1>4, <1>5 DEF NotEnded

\* A job that nobody else has ends.
LEMMA EndedOnce ==
  ASSUME Held, RKept, DKept, NotEnded, NEW e \in Jobs,
         UNCHANGED <<api, rphase, dphase, rcur, dcur>>,
         \A j \in Jobs : j # e => status'[j] = status[j],
         api[e] \notin {"none", "inserted"},
         \A i \in RIds : rphase[i] = "queued" => rjob[i] # e,
         \A w \in Renderers : ~Through(w)' =>
           ~Through(w) /\ RJob(w) # e,
         \A i \in DIds : dphase[i] = "queued" => djob[i] # e,
         \A v \in Distributors : dpc'[v] = "send" => dpc[v] = "send" /\ DJob(v) # e
  PROVE NotEnded'
  <1>1. \A j \in Jobs : api'[j] \in {"none", "inserted"} => status'[j] \notin Terminal
    BY DEF NotEnded
  <1>2. \A i \in RIds : rphase'[i] = "queued" => status'[rjob'[i]] \notin Terminal
    BY DEF NotEnded, RKept, Held, EntriesHaveJobs
  <1>3. \A w \in Renderers : ~Through(w)'
                               => status'[RJob(w)'] \notin Terminal
    BY RJobKept DEF NotEnded, Through
  <1>4. \A i \in DIds : dphase'[i] = "queued" => status'[djob'[i]] \notin Terminal
    BY DEF NotEnded, DKept, Held, EntriesHaveJobs
  <1>5. \A v \in Distributors : dpc'[v] = "send" => status'[DJob(v)'] \notin Terminal
    BY DJobKept DEF NotEnded
  <1> QED  BY <1>1, <1>2, <1>3, <1>4, <1>5 DEF NotEnded

\* Who ends a job is the last to have it.
LEMMA EndedNext ==
  ASSUME MaxLostReplies = 0, MaxReplays = 0, Once, NotEnded, [Next]_vars
  PROVE NotEnded'
  <1>0. /\ Held /\ RKept /\ DKept /\ HandlerType /\ JobType /\ RQueueType /\ DQueueType
        /\ replayed = {}
    BY KeptNext DEF Once, Held, TypeOK
  <1> USE DEF Through, envVars
  <1>1. ASSUME NEW j \in Jobs, Insert(j)
        PROVE  NotEnded'
    BY <1>0, <1>1, EndedQuiet DEF Insert, Terminal, HandlerType, JobType, dqVars,
         rqVars, rVars, dVars
  <1>2. ASSUME NEW j \in Jobs, AbandonRequest(j)
        PROVE  NotEnded'
    BY <1>0, <1>2, EndedQuiet DEF AbandonRequest, HandlerType, JobType, rowVars, dqVars,
         rqVars, rVars, dVars
  <1>3. ASSUME NEW j \in Jobs, NEW n \in 0..2, NEW ok \in BOOLEAN, Dispatch(j, n, ok)
        PROVE  NotEnded'
    <2>1. n \in {0, 1}  BY <1>0, <1>3, AddsOne DEF Dispatch
    <2>2. AddRender(n, j) /\ status[j] \notin Terminal  BY <1>3 DEF Dispatch, NotEnded
    <2>3. \A l \in Jobs : api'[l] \in {"none", "inserted"} => status'[l] \notin Terminal
      BY <1>0, <1>3 DEF Dispatch, JobType, rowVars, NotEnded
    <2>4. \A i \in RIds : rphase'[i] = "queued" => status'[rjob'[i]] \notin Terminal
      BY <1>0, <1>3, <2>1, <2>2, RAddOne DEF Dispatch, rowVars, NotEnded
    <2>5. \A w \in Renderers : ~Through(w)'
                                 => status'[RJob(w)'] \notin Terminal
      BY <1>0, <1>3, RJobKept DEF Dispatch, rVars, rowVars, NotEnded
    <2>6. \A i \in DIds : dphase'[i] = "queued" => status'[djob'[i]] \notin Terminal
      BY <1>3 DEF Dispatch, dqVars, rowVars, NotEnded
    <2>7. \A v \in Distributors : dpc'[v] = "send" => status'[DJob(v)'] \notin Terminal
      BY <1>0, <1>3, DJobKept DEF Dispatch, dVars, rowVars, NotEnded
    <2> QED  BY <2>3, <2>4, <2>5, <2>6, <2>7 DEF NotEnded
  <1>4. ASSUME NEW w \in Renderers, RTake(w)
        PROVE  NotEnded'
    <2>1. PICK i \in RIds : RQ!Take(i) /\ rcur' = [rcur EXCEPT ![w] = i]
      BY <1>4 DEF RTake, RTakes
    <2>2. rphase[i] = "queued" /\ status[rjob[i]] \notin Terminal
      BY <2>1 DEF RQ!Take, NotEnded
    <2>3. \A l \in RIds : rphase'[l] = "queued" => rphase[l] = "queued"
      BY <1>0, <2>1, RMoveKeepsHeld
    <2>4. ASSUME NEW u \in Renderers, ~Through(u)'
          PROVE  status'[RJob(u)'] \notin Terminal
      <3>1. CASE u = w
        <4>1. RJob(u)' = rjob[i]  BY <1>0, <1>4, <2>1, <3>1 DEF RTake, RJob, HandlerType
        <4> QED  BY <1>4, <2>2, <4>1 DEF RTake, rowVars
      <3>2. CASE u # w
        <4>1. ~Through(u) /\ rcur'[u] = rcur[u]
          BY <1>0, <1>4, <2>1, <2>4, <3>2 DEF RTake, RGoto, HandlerType
        <4> QED  BY <1>0, <1>4, <4>1, RJobKept DEF RTake, rowVars, NotEnded
      <3> QED  BY <3>1, <3>2
    <2>5. \A j \in Jobs : api'[j] \in {"none", "inserted"} => status'[j] \notin Terminal
      BY <1>4 DEF RTake, apiVars, rowVars, NotEnded
    <2>6. \A l \in RIds : rphase'[l] = "queued" => status'[rjob'[l]] \notin Terminal
      BY <1>4, <2>3 DEF RTake, rowVars, NotEnded
    <2>7. \A l \in DIds : dphase'[l] = "queued" => status'[djob'[l]] \notin Terminal
      BY <1>4 DEF RTake, dqVars, rowVars, NotEnded
    <2>8. \A v \in Distributors : dpc'[v] = "send" => status'[DJob(v)'] \notin Terminal
      BY <1>0, <1>4, DJobKept DEF RTake, dVars, rowVars, NotEnded
    <2> QED  BY <2>4, <2>5, <2>6, <2>7, <2>8 DEF NotEnded
  <1>5. ASSUME NEW w \in Renderers, RTakeLost(w)
        PROVE  NotEnded'
    <2>1. \A i \in RIds : rphase'[i] = "queued" => rphase[i] = "queued"
      BY <1>0, <1>5, RMoveKeepsHeld DEF RTakeLost
    <2> QED
      BY <1>0, <1>5, <2>1, EndedQuiet DEF RTakeLost, RGoto, HandlerType, rowVars,
         apiVars, dqVars, rVars, dVars
  <1>6. ASSUME NEW w \in Renderers, RBegin(w)
        PROVE  NotEnded'
    <2>1. \A j \in Jobs : status'[j] \in Terminal => status[j] \in Terminal
      BY <1>0, <1>6 DEF RBegin, SetJobStatus, Terminal, JobType, rowVars
    <2> QED
      BY <1>0, <1>6, <2>1, EndedQuiet DEF RBegin, RGoto, HandlerType, apiVars, dqVars,
         rqVars, dVars
  <1>7. ASSUME NEW w \in Renderers, RMkdir(w)
        PROVE  NotEnded'
    BY <1>0, <1>7, EndedQuiet DEF RMkdir, RGoto, HandlerType, rowVars, apiVars, dqVars,
         rqVars, dVars
  <1>8. ASSUME NEW w \in Renderers, RMkdirFails(w)
        PROVE  NotEnded'
    BY <1>0, <1>8, EndedQuiet DEF RMkdirFails, RGoto, HandlerType, rowVars, apiVars,
         dqVars, rqVars, dVars
  <1>9. ASSUME NEW w \in Renderers, REncode(w)
        PROVE  NotEnded'
    BY <1>0, <1>9, EndedQuiet DEF REncode, RGoto, HandlerType, rowVars, apiVars, dqVars,
         rqVars, dVars
  <1>10. ASSUME NEW w \in Renderers, RGenerated(w)
        PROVE  NotEnded'
    BY <1>0, <1>10, EndedQuiet DEF RGenerated, RGoto, HandlerType, rowVars, apiVars,
         dqVars, rqVars, dVars
  <1>11. ASSUME NEW w \in Renderers, RGenerateFails(w)
        PROVE  NotEnded'
    BY <1>0, <1>11, EndedQuiet DEF RGenerateFails, RGoto, AfterRenderError, HandlerType,
         rowVars, apiVars, dqVars, rqVars, dVars
  <1>12. ASSUME NEW w \in Renderers, NEW n \in 0..2, NEW ok \in BOOLEAN, REmit(w, n, ok)
        PROVE  NotEnded'
    <2>1. n \in {0, 1}  BY <1>0, <1>12, EmitAdds
    <2>2. AddDist(n, RJob(w)) /\ rpc[w] = "emit"  BY <1>12 DEF REmit, EmitsAt
    <2>3. RJob(w) \in Jobs /\ status[RJob(w)] \notin Terminal  BY <2>2, RApart DEF NotEnded
    <2>4. \A l \in Jobs : api'[l] \in {"none", "inserted"} => status'[l] \notin Terminal
      BY <1>12 DEF REmit, apiVars, rowVars, NotEnded
    <2>5. \A i \in RIds : rphase'[i] = "queued" => status'[rjob'[i]] \notin Terminal
      BY <1>12 DEF REmit, rqVars, rowVars, NotEnded
    <2>6. ASSUME NEW u \in Renderers, ~Through(u)'
          PROVE  status'[RJob(u)'] \notin Terminal
      <3>1. ~Through(u) /\ rcur'[u] = rcur[u]
        BY <1>0, <1>12, <2>2, <2>6 DEF REmit, StoppedEmitting, RGoto, HandlerType
      <3> QED  BY <1>0, <1>12, <3>1, RJobKept DEF REmit, rowVars, NotEnded
    <2>7. \A i \in DIds : dphase'[i] = "queued" => status'[djob'[i]] \notin Terminal
      BY <1>0, <1>12, <2>1, <2>2, <2>3, DAddOne DEF REmit, rowVars, NotEnded
    <2>8. \A v \in Distributors : dpc'[v] = "send" => status'[DJob(v)'] \notin Terminal
      BY <1>0, <1>12, DJobKept DEF REmit, dVars, rowVars, NotEnded
    <2> QED  BY <2>4, <2>5, <2>6, <2>7, <2>8 DEF NotEnded
  <1>13. ASSUME NEW w \in Renderers, RFail(w)
        PROVE  NotEnded'
    <2>1. CASE w \in stopping
      <3>1. UNCHANGED status
        BY <1>13, <2>1 DEF RFail, SetJobStatus, UpdateSucceeds, rowVars
      <3> QED
        BY <1>0, <1>13, <3>1, EndedQuiet DEF RFail, RGoto, HandlerType, apiVars, dqVars,
           rqVars, dVars
    <2>2. CASE w \notin stopping
      <3>1. rpc[w] = "failed" /\ RJob(w) \in Jobs /\ ~Through(w)
        BY <1>13, <2>2, RApart DEF RFail
      <3>2. \A j \in Jobs : j # RJob(w) => status'[j] = status[j]
        BY <1>0, <1>13, <3>1 DEF RFail, SetJobStatus, rowVars, JobType
      <3>3. \A u \in Renderers : ~Through(u)' =>
              ~Through(u) /\ RJob(u) # RJob(w)
        <4>1. \A u \in Renderers : ~Through(u)' =>
                ~Through(u) /\ u # w
          BY <1>0, <1>13, <3>1 DEF RFail, RGoto, HandlerType
        <4> QED  BY <3>1, <4>1, RApart
      <3>4. \A i \in DIds : dphase[i] = "queued" => djob[i] # RJob(w)
        BY <3>1 DEF Once, HandedOn
      <3>5. \A v \in Distributors : dpc'[v] = "send" => dpc[v] = "send" /\ DJob(v) # RJob(w)
        BY <1>13, <3>1, DApart DEF RFail, dVars
      <3>6. /\ \A i \in RIds : rphase[i] = "queued" => rjob[i] # RJob(w)
            /\ api[RJob(w)] \notin {"none", "inserted"}
        BY <3>1, RApart
      <3>7. UNCHANGED <<api, rphase, dphase, rcur, dcur>>
        BY <1>13 DEF RFail, apiVars, rqVars, dqVars, dVars
      <3> QED  BY <1>0, <3>1, <3>2, <3>3, <3>4, <3>5, <3>6, <3>7, EndedOnce
    <2> QED  BY <2>1, <2>2
  <1>14. ASSUME NEW w \in Renderers, NEW fate \in RQ!Fates \cup {"held"}, RReturn(w, fate)
        PROVE  NotEnded'
    <2>1. \A i \in RIds : rphase'[i] = "queued" => rphase[i] = "queued"
      <3>1. rcur[w] \in RIds
        BY <1>0, <1>14 DEF RReturn, HandlerType, Held, HandlersHaveEntries
      <3>2. CASE fate = "held"  BY <1>14, <3>2 DEF RReturn
      <3>3. CASE fate # "held"  BY <1>0, <1>14, <3>1, <3>3, RMoveKeepsHeld DEF RReturn
      <3> QED  BY <3>2, <3>3
    <2> QED
      BY <1>0, <1>14, <2>1, EndedQuiet DEF RReturn, RRelease, RGoto, HandlerType,
         rowVars, apiVars, dqVars, dVars
  <1>15. ASSUME NEW w \in Renderers, RCrash(w)
        PROVE  NotEnded'
    BY <1>0, <1>15, EndedQuiet DEF RCrash, RRelease, RGoto, HandlerType, rowVars,
         apiVars, dqVars, rqVars, dVars
  <1>16. ASSUME NEW x \in Workers, Stop(x)
        PROVE  NotEnded'
    BY <1>0, <1>16, EndedQuiet DEF Stop, HandlerType, rowVars, apiVars, dqVars, rqVars,
         rVars, dVars
  <1>17. ASSUME NEW v \in Distributors, DTake(v)
        PROVE  NotEnded'
    <2>1. PICK i \in DIds : DQ!Take(i) /\ dcur' = [dcur EXCEPT ![v] = i]
      BY <1>17 DEF DTake
    <2>2. dphase[i] = "queued" /\ status[djob[i]] \notin Terminal
      BY <2>1 DEF DQ!Take, NotEnded
    <2>3. \A l \in DIds : dphase'[l] = "queued" => dphase[l] = "queued"
      BY <1>0, <2>1, DMoveKeepsHeld
    <2>4. ASSUME NEW u \in Distributors, dpc'[u] = "send"
          PROVE  status'[DJob(u)'] \notin Terminal
      <3>1. CASE u = v
        <4>1. DJob(u)' = djob[i]  BY <1>0, <1>17, <2>1, <3>1 DEF DTake, DJob, HandlerType
        <4> QED  BY <1>17, <2>2, <4>1 DEF DTake, rowVars
      <3>2. CASE u # v
        <4>1. dpc[u] = "send" /\ dcur'[u] = dcur[u]
          BY <1>0, <1>17, <2>1, <2>4, <3>2 DEF DTake, DGoto, HandlerType
        <4> QED  BY <1>0, <1>17, <4>1, DJobKept DEF DTake, rowVars, NotEnded
      <3> QED  BY <3>1, <3>2
    <2>5. \A j \in Jobs : api'[j] \in {"none", "inserted"} => status'[j] \notin Terminal
      BY <1>17 DEF DTake, apiVars, rowVars, NotEnded
    <2>6. \A l \in RIds : rphase'[l] = "queued" => status'[rjob'[l]] \notin Terminal
      BY <1>17 DEF DTake, rqVars, rowVars, NotEnded
    <2>7. \A w \in Renderers : ~Through(w)'
                                 => status'[RJob(w)'] \notin Terminal
      BY <1>0, <1>17, RJobKept DEF DTake, rVars, rowVars, NotEnded
    <2>8. \A l \in DIds : dphase'[l] = "queued" => status'[djob'[l]] \notin Terminal
      BY <1>17, <2>3 DEF DTake, rowVars, NotEnded
    <2> QED  BY <2>4, <2>5, <2>6, <2>7, <2>8 DEF NotEnded
  <1>18. ASSUME NEW v \in Distributors, DTakeLost(v)
        PROVE  NotEnded'
    <2>1. \A i \in DIds : dphase'[i] = "queued" => dphase[i] = "queued"
      BY <1>0, <1>18, DMoveKeepsHeld DEF DTakeLost
    <2> QED
      BY <1>0, <1>18, <2>1, EndedQuiet DEF DTakeLost, HandlerType, rowVars, apiVars,
         rqVars, rVars, dVars
  <1>19. ASSUME NEW v \in Distributors, NEW d \in Targets, NEW got \in SUBSET {"whole",
                "broken"}, NEW ok \in BOOLEAN, DSend(v, d, got, ok)
        PROVE  NotEnded'
    BY <1>0, <1>19, EndedQuiet DEF DSend, HandlerType, rowVars, apiVars, dqVars, rqVars,
         rVars
  <1>20. ASSUME NEW v \in Distributors, DStatus(v)
        PROVE  NotEnded'
    <2>1. dpc[v] = "send" /\ DJob(v) \in Jobs  BY <1>20, DApart DEF DStatus
    <2>2. \A j \in Jobs : j # DJob(v) => status'[j] = status[j]
      BY <1>0, <1>20, <2>1 DEF DStatus, SetJobStatus, rowVars, JobType
    <2>3. \A w \in Renderers : ~Through(w)' =>
            ~Through(w) /\ RJob(w) # DJob(v)
      BY <1>20, <2>1, DApart DEF DStatus, rVars
    <2>4. \A u \in Distributors : dpc'[u] = "send" => dpc[u] = "send" /\ DJob(u) # DJob(v)
      <3>1. \A u \in Distributors : dpc'[u] = "send" => dpc[u] = "send" /\ u # v
        BY <1>0, <1>20 DEF DStatus, DGoto, HandlerType
      <3> QED  BY <2>1, <3>1, DApart
    <2>5. /\ \A i \in DIds : dphase[i] = "queued" => djob[i] # DJob(v)
          /\ \A i \in RIds : rphase[i] = "queued" => rjob[i] # DJob(v)
          /\ api[DJob(v)] \notin {"none", "inserted"}
      BY <2>1, DApart
    <2>6. UNCHANGED <<api, rphase, dphase, rcur, dcur>>
      BY <1>20 DEF DStatus, apiVars, rqVars, dqVars, rVars
    <2> QED  BY <1>0, <2>1, <2>2, <2>3, <2>4, <2>5, <2>6, EndedOnce
  <1>21. ASSUME NEW v \in Distributors, DCleanup(v)
        PROVE  NotEnded'
    BY <1>0, <1>21, EndedQuiet DEF DCleanup, DGoto, HandlerType, rowVars, apiVars,
         dqVars, rqVars, rVars
  <1>22. ASSUME NEW v \in Distributors, NEW fate \in DQ!Fates \cup {"held"}, DReturn(v, fate)
        PROVE  NotEnded'
    <2>1. \A i \in DIds : dphase'[i] = "queued" => dphase[i] = "queued"
      <3>1. dcur[v] \in DIds
        BY <1>0, <1>22 DEF DReturn, HandlerType, Held, HandlersHaveEntries
      <3>2. CASE fate = "held"  BY <1>22, <3>2 DEF DReturn
      <3>3. CASE fate # "held"  BY <1>0, <1>22, <3>1, <3>3, DMoveKeepsHeld DEF DReturn
      <3> QED  BY <3>2, <3>3
    <2> QED
      BY <1>0, <1>22, <2>1, PipelineAssumption, EndedQuiet DEF DReturn, DRelease, DGoto, HandlerType,
         rowVars, apiVars, rqVars, rVars
  <1>23. ASSUME NEW v \in Distributors, DCrash(v)
        PROVE  NotEnded'
    BY <1>0, <1>23, PipelineAssumption, EndedQuiet DEF DCrash, DRelease, DGoto, HandlerType, rowVars,
         apiVars, dqVars, rqVars, rVars
  <1>24. ASSUME NEW i \in RIds, ReplayRender(i)
        PROVE  NotEnded'
    <2>1. Cardinality(replayed) = 0  BY <1>0, FS_EmptySet
    <2> QED  BY <1>24, <2>1 DEF ReplayRender
  <1>25. ASSUME NEW i \in DIds, ReplayDist(i)
        PROVE  NotEnded'
    <2>1. Cardinality(replayed) = 0  BY <1>0, FS_EmptySet
    <2> QED  BY <1>25, <2>1 DEF ReplayDist
  <1>26. CASE UNCHANGED vars
    BY <1>0, <1>26, EndedQuiet DEF vars, apiVars, rowVars, rqVars, dqVars, rVars, dVars
  <1> QED  BY <1>1, <1>2, <1>3, <1>4, <1>5, <1>6, <1>7, <1>8, <1>9, <1>10,
              <1>11, <1>12, <1>13, <1>14, <1>15, <1>16, <1>17, <1>18, <1>19,
              <1>20, <1>21, <1>22, <1>23, <1>24, <1>25, <1>26
           DEF Next, RequestSteps, RendererSteps, DistributorSteps, Workers

(***************************************************************************)
(* The theorems.                                                           *)
(***************************************************************************)

LEMMA OnceInit == Init => Once /\ VideoWaits /\ NotEnded
  <1> SUFFICES ASSUME Init PROVE Once /\ VideoWaits /\ NotEnded  OBVIOUS
  <1>1. Held  BY HeldInit
  <1>2. Unique /\ Hands /\ Fresh /\ HandedOn /\ replayed = {}
    BY DEF Init, RQ!Init, DQ!Init, Unique, Hands, RHands, DHands, Fresh, HandedOn
  <1>3. VideoWaits  BY DEF Init, DQ!Init, VideoWaits, VideoIsThere
  <1>4. NotEnded  BY DEF Init, RQ!Init, DQ!Init, NotEnded, Through, Terminal
  <1> QED  BY <1>1, <1>2, <1>3, <1>4 DEF Once

LEMMA OnceInvariant ==
  ASSUME MaxLostReplies = 0, MaxReplays = 0
  PROVE Spec => [](Once /\ VideoWaits /\ NotEnded)
  <1>1. Once /\ VideoWaits /\ NotEnded /\ [Next]_vars => (Once /\ VideoWaits /\ NotEnded)'
    BY OnceNext, VideoNext, EndedNext
  <1> QED  BY <1>1, OnceInit, PTL DEF Spec

\* While every XADD is carried out once and nobody replays, a distributor has
\* the whole video as long as it sends it, whatever crashes, fails and stops,
\* for any number of jobs, destinations, renderers and distributors.
THEOREM VideoStays ==
  ASSUME MaxLostReplies = 0, MaxReplays = 0
  PROVE Spec => []VideoIsThere
  <1>1. VideoWaits => VideoIsThere  BY DEF VideoWaits
  <1> QED  BY <1>1, OnceInvariant, PTL

\* A step of the pipeline gives no new status to a job that has ended.
LEMMA EndedStep ==
  ASSUME MaxLostReplies = 0, MaxReplays = 0, Once, NotEnded, [Next]_vars
  PROVE [\A j \in Jobs : status[j] \in Terminal => status'[j] = status[j]]_status
  <1> DEFINE Stays == \A j \in Jobs : status[j] \in Terminal => status'[j] = status[j]
  <1>0. JobType  BY DEF Once, Held, TypeOK
  <1>1. ASSUME NEW j \in Jobs, Insert(j)
        PROVE  Stays
    BY <1>0, <1>1 DEF Insert, JobType, NotEnded
  <1>2. ASSUME NEW w \in Renderers, RBegin(w)
        PROVE  Stays
    <2>1. RJob(w) \in Jobs /\ status[RJob(w)] \notin Terminal
      BY <1>2, RApart DEF RBegin, NotEnded, Through
    <2> QED  BY <1>0, <1>2, <2>1 DEF RBegin, SetJobStatus, rowVars, JobType
  <1>3. ASSUME NEW w \in Renderers, RFail(w)
        PROVE  Stays
    <2>1. RJob(w) \in Jobs  BY <1>3, RApart DEF RFail
    <2>2. w \in stopping \/ status[RJob(w)] \notin Terminal
      BY <1>3 DEF RFail, NotEnded, Through
    <2> QED  BY <1>0, <1>3, <2>1, <2>2
             DEF RFail, SetJobStatus, UpdateSucceeds, rowVars, JobType
  <1>4. ASSUME NEW v \in Distributors, DStatus(v)
        PROVE  Stays
    <2>1. DJob(v) \in Jobs /\ status[DJob(v)] \notin Terminal
      BY <1>4, DApart DEF DStatus, NotEnded
    <2> QED  BY <1>0, <1>4, <2>1 DEF DStatus, SetJobStatus, rowVars, JobType
  <1>5. \A j \in Jobs :
          \/ AbandonRequest(j)
          \/ \E n \in 0..2, ok \in BOOLEAN : Dispatch(j, n, ok)
          => UNCHANGED status
    BY DEF Dispatch, AbandonRequest, rowVars
  <1>6. \A w \in Renderers :
          \/ RTake(w) \/ RTakeLost(w) \/ RMkdir(w) \/ RMkdirFails(w) \/ REncode(w)
          \/ RGenerated(w) \/ RGenerateFails(w) \/ RCrash(w)
          \/ \E n \in 0..2, ok \in BOOLEAN : REmit(w, n, ok)
          \/ \E fate \in RQ!Fates \cup {"held"} : RReturn(w, fate)
          => UNCHANGED status
    BY DEF RTake, RTakeLost, RMkdir, RMkdirFails, REncode, RGenerated, RGenerateFails,
           RCrash, REmit, RReturn, rowVars
  <1>7. \A v \in Distributors :
          \/ DTake(v) \/ DTakeLost(v) \/ DCleanup(v) \/ DCrash(v)
          \/ \E d \in Targets, got \in SUBSET {"whole", "broken"}, ok \in BOOLEAN :
               DSend(v, d, got, ok)
          \/ \E fate \in DQ!Fates \cup {"held"} : DReturn(v, fate)
          => UNCHANGED status
    BY DEF DTake, DTakeLost, DCleanup, DCrash, DSend, DReturn, rowVars
  <1>8. \A x \in Workers : Stop(x) => UNCHANGED status  BY DEF Stop, rowVars
  <1>9. /\ \A i \in RIds : ReplayRender(i) => UNCHANGED status
        /\ \A i \in DIds : ReplayDist(i) => UNCHANGED status
    BY DEF ReplayRender, ReplayDist, rowVars
  <1>10. Stays \/ UNCHANGED status
    <2>1. CASE UNCHANGED vars  BY <2>1 DEF vars, rowVars
    <2>2. ASSUME NEW j \in Jobs, RequestSteps(j)
          PROVE  Stays \/ UNCHANGED status
      BY <1>1, <1>5, <2>2 DEF RequestSteps
    <2>3. ASSUME NEW w \in Renderers,
                 RendererSteps(w) \/ RTakeLost(w) \/ RCrash(w) \/ Stop(w)
          PROVE  Stays \/ UNCHANGED status
      BY <1>2, <1>3, <1>6, <1>8, <2>3 DEF RendererSteps, Workers
    <2>4. ASSUME NEW v \in Distributors,
                 DistributorSteps(v) \/ DTakeLost(v) \/ DCrash(v) \/ Stop(v)
          PROVE  Stays \/ UNCHANGED status
      BY <1>4, <1>7, <1>8, <2>4 DEF DistributorSteps, Workers
    <2> QED  BY <1>9, <2>1, <2>2, <2>3, <2>4 DEF Next
  <1> QED  BY <1>10

\* Likewise, "complete" and "failed" are final.
THEOREM EndedIsFinal ==
  ASSUME MaxLostReplies = 0, MaxReplays = 0
  PROVE Spec => EndedStaysEnded
  <1>1. Once /\ NotEnded /\ [Next]_vars
          => [\A j \in Jobs : status[j] \in Terminal => status'[j] = status[j]]_status
    BY EndedStep
  <1> QED  BY <1>1, OnceInvariant, PTL DEF Spec, EndedStaysEnded

=============================================================================
