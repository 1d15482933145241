--------------------------- MODULE PipelineProofs ---------------------------
(***************************************************************************)
(* Proofs about Pipeline: its type invariant, and that a complete job was  *)
(* delivered everywhere.  The argument needs what no property states: the  *)
(* entries in use have jobs, a busy handler has an entry, and a            *)
(* distributor that is sending has delivered to all who are not to do any  *)
(* more, unless an adapter failed.  The second half is about what a fault  *)
(* or a shutdown can cost.                                                 *)
(***************************************************************************)
EXTENDS Pipeline, FiniteSetTheorems, TLAPS

EntriesHaveJobs ==
  /\ \A i \in RIds : rphase[i] # "absent" => rjob[i] \in Jobs
  /\ \A i \in DIds : dphase[i] # "absent" => djob[i] \in Jobs

HandlersHaveEntries ==
  /\ \A w \in Renderers : rpc[w] # "idle" => rcur[w] # 0 /\ rphase[rcur[w]] # "absent"
  /\ \A v \in Distributors : dpc[v] # "idle" => dcur[v] # 0 /\ dphase[dcur[v]] # "absent"

\* The part of the invariant that says who has what.
Held == TypeOK /\ EntriesHaveJobs /\ HandlersHaveEntries

\* A step leaves the entries in use in use, and their jobs as they are.
RKept ==
  /\ RQueueType'
  /\ \A i \in RIds : rphase'[i] # "absent" => rjob'[i] \in Jobs
  /\ \A i \in RIds : rphase[i] # "absent" => rphase'[i] # "absent" /\ rjob'[i] = rjob[i]

DKept ==
  /\ DQueueType'
  /\ \A i \in DIds : dphase'[i] # "absent" => djob'[i] \in Jobs
  /\ \A i \in DIds : dphase[i] # "absent" => dphase'[i] # "absent" /\ djob'[i] = djob[i]

LEMMA Bounds == RIds \subseteq Nat \ {0} /\ DIds \subseteq Nat \ {0}
  BY PipelineAssumption DEF RIds, DIds

LEMMA HeldInit == Init => Held
  <1> SUFFICES ASSUME Init PROVE Held  OBVIOUS
  <1>1. JobType  BY DEF Init, JobType, Terminal
  <1>2. RQueueType /\ DQueueType
    BY DEF Init, RQueueType, DQueueType, Phases, RQ!Init, DQ!Init
  <1>3. HandlerType  BY DEF Init, HandlerType
  <1>4. EnvType  BY PipelineAssumption DEF Init, EnvType
  <1>5. EntriesHaveJobs /\ HandlersHaveEntries
    BY DEF Init, EntriesHaveJobs, HandlersHaveEntries, RQ!Init, DQ!Init
  <1> QED  BY <1>1, <1>2, <1>3, <1>4, <1>5 DEF Held, TypeOK

(***************************************************************************)
(* What the steps of the two queues keep.                                  *)
(***************************************************************************)

LEMMA RSame == Held /\ UNCHANGED rqVars => RKept
  BY DEF Held, TypeOK, RQueueType, EntriesHaveJobs, RKept, rqVars

LEMMA DSame == Held /\ UNCHANGED dqVars => DKept
  BY DEF Held, TypeOK, DQueueType, EntriesHaveJobs, DKept, dqVars

LEMMA RAdd ==
  ASSUME Held, NEW n \in 0..2, NEW j \in Jobs, AddRender(n, j)
  PROVE RKept
  <1>1. PICK last \in 0..MaxRender :
          /\ \A i \in RIds : rphase[i] = "absent" <=> last < i
          /\ last + n <= MaxRender
          /\ rjob' = [i \in RIds |-> IF last < i /\ i <= last + n THEN j ELSE rjob[i]]
          /\ IF n = 0 THEN UNCHANGED rphase ELSE RQ!Add(last + n)
    BY DEF AddRender
  <1>2. CASE n = 0
    BY <1>1, <1>2, Bounds DEF Held, TypeOK, RQueueType, EntriesHaveJobs, RKept
  <1>3. CASE n # 0
    <2>1. rphase' = [i \in RIds |-> IF rphase[i] = "absent" /\ i <= last + n
                                    THEN "queued" ELSE rphase[i]]
      BY <1>1, <1>3 DEF RQ!Add
    <2> QED  BY <1>1, <2>1, Bounds
             DEF Held, TypeOK, RQueueType, EntriesHaveJobs, RKept, Phases
  <1> QED  BY <1>2, <1>3

LEMMA DAdd ==
  ASSUME Held, NEW n \in 0..2, NEW j \in Jobs, AddDist(n, j)
  PROVE DKept
  <1>1. PICK last \in 0..MaxDist :
          /\ \A i \in DIds : dphase[i] = "absent" <=> last < i
          /\ last + n <= MaxDist
          /\ djob' = [i \in DIds |-> IF last < i /\ i <= last + n THEN j ELSE djob[i]]
          /\ IF n = 0 THEN UNCHANGED dphase ELSE DQ!Add(last + n)
    BY DEF AddDist
  <1>2. CASE n = 0
    BY <1>1, <1>2, Bounds DEF Held, TypeOK, DQueueType, EntriesHaveJobs, DKept
  <1>3. CASE n # 0
    <2>1. dphase' = [i \in DIds |-> IF dphase[i] = "absent" /\ i <= last + n
                                    THEN "queued" ELSE dphase[i]]
      BY <1>1, <1>3 DEF DQ!Add
    <2> QED  BY <1>1, <2>1, Bounds
             DEF Held, TypeOK, DQueueType, EntriesHaveJobs, DKept, Phases
  <1> QED  BY <1>2, <1>3

LEMMA RMove ==
  ASSUME Held, NEW i \in RIds, UNCHANGED rjob,
         RQ!Take(i) \/ \E fate \in RQ!Fates : RQ!Settle(i, fate)
  PROVE RKept
  BY DEF Held, TypeOK, RQueueType, EntriesHaveJobs, RKept, Phases, RQ!Take,
         RQ!Settle, RQ!Fates

LEMMA DMove ==
  ASSUME Held, NEW i \in DIds, UNCHANGED djob,
         DQ!Take(i) \/ \E fate \in DQ!Fates : DQ!Settle(i, fate)
  PROVE DKept
  BY DEF Held, TypeOK, DQueueType, EntriesHaveJobs, DKept, Phases, DQ!Take,
         DQ!Settle, DQ!Fates, RQ!Fates

LEMMA KeptNext ==
  ASSUME Held, [Next]_vars
  PROVE RKept /\ DKept
  <1> USE DEF rqVars, dqVars
  <1>1. ASSUME NEW j \in Jobs, Insert(j)
        PROVE  RKept /\ DKept
    BY <1>1, RSame, DSame DEF Insert
  <1>2. ASSUME NEW j \in Jobs, AbandonRequest(j)
        PROVE  RKept /\ DKept
    BY <1>2, RSame, DSame DEF AbandonRequest
  <1>3. ASSUME NEW j \in Jobs, NEW n \in 0..2, NEW ok \in BOOLEAN, Dispatch(j, n, ok)
        PROVE  RKept /\ DKept
    BY <1>3, RAdd, DSame DEF Dispatch
  <1>4. ASSUME NEW w \in Renderers, RTake(w)
        PROVE  RKept /\ DKept
    BY <1>4, RMove, DSame DEF RTake, RTakes
  <1>5. ASSUME NEW w \in Renderers, RTakeLost(w)
        PROVE  RKept /\ DKept
    BY <1>5, RMove, DSame DEF RTakeLost
  <1>6. ASSUME NEW w \in Renderers, RBegin(w)
        PROVE  RKept /\ DKept
    BY <1>6, RSame, DSame DEF RBegin
  <1>7. ASSUME NEW w \in Renderers, RMkdir(w)
        PROVE  RKept /\ DKept
    BY <1>7, RSame, DSame DEF RMkdir
  <1>8. ASSUME NEW w \in Renderers, RMkdirFails(w)
        PROVE  RKept /\ DKept
    BY <1>8, RSame, DSame DEF RMkdirFails
  <1>9. ASSUME NEW w \in Renderers, REncode(w)
        PROVE  RKept /\ DKept
    BY <1>9, RSame, DSame DEF REncode
  <1>10. ASSUME NEW w \in Renderers, RGenerated(w)
        PROVE  RKept /\ DKept
    BY <1>10, RSame, DSame DEF RGenerated
  <1>11. ASSUME NEW w \in Renderers, RGenerateFails(w)
        PROVE  RKept /\ DKept
    BY <1>11, RSame, DSame DEF RGenerateFails
  <1>12. ASSUME NEW w \in Renderers, NEW n \in 0..2, NEW ok \in BOOLEAN, REmit(w, n, ok)
        PROVE  RKept /\ DKept
    <2>1. RJob(w) \in Jobs
      BY <1>12 DEF REmit, EmitsAt, RJob, Held, TypeOK, HandlerType, HandlersHaveEntries,
               EntriesHaveJobs
    <2> QED  BY <1>12, <2>1, RSame, DAdd DEF REmit
  <1>13. ASSUME NEW w \in Renderers, RFail(w)
        PROVE  RKept /\ DKept
    BY <1>13, RSame, DSame DEF RFail
  <1>14. ASSUME NEW w \in Renderers, NEW fate \in RQ!Fates \cup {"held"}, RReturn(w, fate)
        PROVE  RKept /\ DKept
    <2>1. rcur[w] \in RIds
      BY <1>14 DEF RReturn, Held, TypeOK, HandlerType, HandlersHaveEntries
    <2>2. CASE fate = "held"  BY <1>14, <2>2, RSame, DSame DEF RReturn
    <2>3. CASE fate # "held"  BY <1>14, <2>1, <2>3, RMove, DSame DEF RReturn
    <2> QED  BY <2>2, <2>3
  <1>15. ASSUME NEW w \in Renderers, RCrash(w)
        PROVE  RKept /\ DKept
    BY <1>15, RSame, DSame DEF RCrash
  <1>16. ASSUME NEW x \in Workers, Stop(x)
        PROVE  RKept /\ DKept
    BY <1>16, RSame, DSame DEF Stop
  <1>17. ASSUME NEW v \in Distributors, DTake(v)
        PROVE  RKept /\ DKept
    BY <1>17, DMove, RSame DEF DTake
  <1>18. ASSUME NEW v \in Distributors, DTakeLost(v)
        PROVE  RKept /\ DKept
    BY <1>18, DMove, RSame DEF DTakeLost
  <1>19. ASSUME NEW v \in Distributors, NEW d \in Targets, NEW got \in SUBSET {"whole",
                "broken"}, NEW ok \in BOOLEAN, DSend(v, d, got, ok)
        PROVE  RKept /\ DKept
    BY <1>19, RSame, DSame DEF DSend
  <1>20. ASSUME NEW v \in Distributors, DStatus(v)
        PROVE  RKept /\ DKept
    BY <1>20, RSame, DSame DEF DStatus
  <1>21. ASSUME NEW v \in Distributors, DCleanup(v)
        PROVE  RKept /\ DKept
    BY <1>21, RSame, DSame DEF DCleanup
  <1>22. ASSUME NEW v \in Distributors, NEW fate \in DQ!Fates \cup {"held"}, DReturn(v, fate)
        PROVE  RKept /\ DKept
    <2>1. dcur[v] \in DIds
      BY <1>22 DEF DReturn, Held, TypeOK, HandlerType, HandlersHaveEntries
    <2>2. CASE fate = "held"  BY <1>22, <2>2, RSame, DSame DEF DReturn
    <2>3. CASE fate # "held"  BY <1>22, <2>1, <2>3, DMove, RSame DEF DReturn
    <2> QED  BY <2>2, <2>3
  <1>23. ASSUME NEW v \in Distributors, DCrash(v)
        PROVE  RKept /\ DKept
    BY <1>23, RSame, DSame DEF DCrash
  <1>24. ASSUME NEW i \in RIds, ReplayRender(i)
        PROVE  RKept /\ DKept
    <2>1. rjob[i] \in Jobs  BY <1>24 DEF ReplayRender, Held, EntriesHaveJobs
    <2> QED  BY <1>24, <2>1, RAdd, DSame DEF ReplayRender
  <1>25. ASSUME NEW i \in DIds, ReplayDist(i)
        PROVE  RKept /\ DKept
    <2>1. djob[i] \in Jobs  BY <1>25 DEF ReplayDist, Held, EntriesHaveJobs
    <2> QED  BY <1>25, <2>1, DAdd, RSame DEF ReplayDist
  <1>26. CASE UNCHANGED vars  BY <1>26, RSame, DSame DEF vars
  <1> QED  BY <1>1, <1>2, <1>3, <1>4, <1>5, <1>6, <1>7, <1>8, <1>9, <1>10,
              <1>11, <1>12, <1>13, <1>14, <1>15, <1>16, <1>17, <1>18, <1>19,
              <1>20, <1>21, <1>22, <1>23, <1>24, <1>25, <1>26
           DEF Next, RequestSteps, RendererSteps, DistributorSteps, Workers

LEMMA TypedNext ==
  ASSUME Held, [Next]_vars
  PROVE JobType' /\ HandlerType' /\ EnvType'
  <1>0. JobType /\ HandlerType /\ EnvType  BY DEF Held, TypeOK
  <1>1. ASSUME NEW j \in Jobs, Insert(j)
        PROVE  JobType' /\ HandlerType' /\ EnvType'
    <2>1. JobType'
      BY <1>0, <1>1 DEF JobType, Terminal, Insert, apiVars, rowVars, rVars,
               dVars, fileVars, envVars
    <2>2. HandlerType'
      BY <1>0, <1>1 DEF HandlerType, Insert, apiVars, rowVars, rVars, dVars,
               fileVars, envVars
    <2>3. EnvType'
      BY <1>0, <1>1, PipelineAssumption DEF EnvType, Insert, apiVars, rowVars,
               rVars, dVars, fileVars, envVars
    <2> QED  BY <2>1, <2>2, <2>3
  <1>2. ASSUME NEW j \in Jobs, AbandonRequest(j)
        PROVE  JobType' /\ HandlerType' /\ EnvType'
    <2>1. JobType'
      BY <1>0, <1>2 DEF JobType, Terminal, AbandonRequest, NoFault, Fault,
               apiVars, rowVars, rVars, dVars, fileVars, envVars
    <2>2. HandlerType'
      BY <1>0, <1>2 DEF HandlerType, AbandonRequest, NoFault, Fault, apiVars,
               rowVars, rVars, dVars, fileVars, envVars
    <2>3. EnvType'
      BY <1>0, <1>2, PipelineAssumption DEF EnvType, AbandonRequest, NoFault,
               Fault, apiVars, rowVars, rVars, dVars, fileVars, envVars
    <2> QED  BY <2>1, <2>2, <2>3
  <1>3. ASSUME NEW j \in Jobs, NEW n \in 0..2, NEW ok \in BOOLEAN, Dispatch(j, n, ok)
        PROVE  JobType' /\ HandlerType' /\ EnvType'
    <2>1. JobType'
      BY <1>0, <1>3 DEF JobType, Terminal, Dispatch, XAddEnds, NoFault, Fault,
               LostReply, apiVars, rowVars, rVars, dVars, fileVars, envVars
    <2>2. HandlerType'
      BY <1>0, <1>3 DEF HandlerType, Dispatch, XAddEnds, NoFault, Fault,
               LostReply, apiVars, rowVars, rVars, dVars, fileVars, envVars
    <2>3. EnvType'
      BY <1>0, <1>3, PipelineAssumption DEF EnvType, Dispatch, XAddEnds, XAddCutOff,
               NoFault, Fault, LostReply, apiVars, rowVars, rVars, dVars,
               fileVars, envVars
    <2> QED  BY <2>1, <2>2, <2>3
  <1>4. ASSUME NEW w \in Renderers, RTake(w)
        PROVE  JobType' /\ HandlerType' /\ EnvType'
    <2>1. JobType'
      BY <1>0, <1>4 DEF JobType, Terminal, RTake, RGoto, apiVars, rowVars,
               rVars, dVars, fileVars, envVars
    <2>2. HandlerType'
      BY <1>0, <1>4 DEF HandlerType, RTake, RGoto, apiVars, rowVars, rVars,
               dVars, fileVars, envVars
    <2>3. EnvType'
      BY <1>0, <1>4, PipelineAssumption DEF EnvType, RTake, RGoto, apiVars,
               rowVars, rVars, dVars, fileVars, envVars
    <2> QED  BY <2>1, <2>2, <2>3
  <1>5. ASSUME NEW w \in Renderers, RTakeLost(w)
        PROVE  JobType' /\ HandlerType' /\ EnvType'
    <2>1. JobType'
      BY <1>0, <1>5 DEF JobType, Terminal, RTakeLost, TakeLost, NoFault, Fault,
               RGoto, apiVars, rowVars, rVars, dVars, fileVars, envVars
    <2>2. HandlerType'
      BY <1>0, <1>5 DEF HandlerType, RTakeLost, TakeLost, NoFault, Fault, RGoto,
               apiVars, rowVars, rVars, dVars, fileVars, envVars
    <2>3. EnvType'
      BY <1>0, <1>5, PipelineAssumption DEF EnvType, RTakeLost, TakeLost,
               NoFault, Fault, RGoto, apiVars, rowVars, rVars, dVars, fileVars,
               envVars
    <2> QED  BY <2>1, <2>2, <2>3
  <1>6. ASSUME NEW w \in Renderers, RBegin(w)
        PROVE  JobType' /\ HandlerType' /\ EnvType'
    <2>1. JobType'
      BY <1>0, <1>6 DEF JobType, Terminal, RBegin, SetJobStatus, UpdateSucceeds,
               UpdateFails, NoFault, Fault, RGoto, apiVars, rowVars, rVars,
               dVars, fileVars, envVars
    <2>2. HandlerType'
      BY <1>0, <1>6 DEF HandlerType, RBegin, SetJobStatus, UpdateSucceeds,
               UpdateFails, NoFault, Fault, RGoto, apiVars, rowVars, rVars,
               dVars, fileVars, envVars
    <2>3. EnvType'
      BY <1>0, <1>6, PipelineAssumption DEF EnvType, RBegin, SetJobStatus,
               UpdateSucceeds, UpdateFails, NoFault, Fault, RGoto, apiVars,
               rowVars, rVars, dVars, fileVars, envVars
    <2> QED  BY <2>1, <2>2, <2>3
  <1>7. ASSUME NEW w \in Renderers, RMkdir(w)
        PROVE  JobType' /\ HandlerType' /\ EnvType'
    <2>1. JobType'
      BY <1>0, <1>7 DEF JobType, Terminal, RMkdir, RGoto, apiVars, rowVars,
               rVars, dVars, fileVars, envVars
    <2>2. HandlerType'
      BY <1>0, <1>7 DEF HandlerType, RMkdir, RGoto, apiVars, rowVars, rVars,
               dVars, fileVars, envVars
    <2>3. EnvType'
      BY <1>0, <1>7, PipelineAssumption DEF EnvType, RMkdir, RGoto, apiVars,
               rowVars, rVars, dVars, fileVars, envVars
    <2> QED  BY <2>1, <2>2, <2>3
  <1>8. ASSUME NEW w \in Renderers, RMkdirFails(w)
        PROVE  JobType' /\ HandlerType' /\ EnvType'
    <2>1. JobType'
      BY <1>0, <1>8 DEF JobType, Terminal, RMkdirFails, NoFault, Fault, RGoto,
               apiVars, rowVars, rVars, dVars, fileVars, envVars
    <2>2. HandlerType'
      BY <1>0, <1>8 DEF HandlerType, RMkdirFails, NoFault, Fault, RGoto,
               apiVars, rowVars, rVars, dVars, fileVars, envVars
    <2>3. EnvType'
      BY <1>0, <1>8, PipelineAssumption DEF EnvType, RMkdirFails, NoFault,
               Fault, RGoto, apiVars, rowVars, rVars, dVars, fileVars, envVars
    <2> QED  BY <2>1, <2>2, <2>3
  <1>9. ASSUME NEW w \in Renderers, REncode(w)
        PROVE  JobType' /\ HandlerType' /\ EnvType'
    <2>1. JobType'
      BY <1>0, <1>9 DEF JobType, Terminal, REncode, RGoto, apiVars, rowVars,
               rVars, dVars, fileVars, envVars
    <2>2. HandlerType'
      BY <1>0, <1>9 DEF HandlerType, REncode, RGoto, apiVars, rowVars, rVars,
               dVars, fileVars, envVars
    <2>3. EnvType'
      BY <1>0, <1>9, PipelineAssumption DEF EnvType, REncode, RGoto, apiVars,
               rowVars, rVars, dVars, fileVars, envVars
    <2> QED  BY <2>1, <2>2, <2>3
  <1>10. ASSUME NEW w \in Renderers, RGenerated(w)
        PROVE  JobType' /\ HandlerType' /\ EnvType'
    <2>1. JobType'
      BY <1>0, <1>10 DEF JobType, Terminal, RGenerated, RGoto, apiVars, rowVars,
               rVars, dVars, fileVars, envVars
    <2>2. HandlerType'
      BY <1>0, <1>10 DEF HandlerType, RGenerated, RGoto, apiVars, rowVars,
               rVars, dVars, fileVars, envVars
    <2>3. EnvType'
      BY <1>0, <1>10, PipelineAssumption DEF EnvType, RGenerated, RGoto,
               apiVars, rowVars, rVars, dVars, fileVars, envVars
    <2> QED  BY <2>1, <2>2, <2>3
  <1>11. ASSUME NEW w \in Renderers, RGenerateFails(w)
        PROVE  JobType' /\ HandlerType' /\ EnvType'
    <2>1. JobType'
      BY <1>0, <1>11 DEF JobType, Terminal, RGenerateFails, RGoto,
               AfterRenderError, apiVars, rowVars, rVars, dVars, fileVars,
               envVars
    <2>2. HandlerType'
      BY <1>0, <1>11 DEF HandlerType, RGenerateFails, RGoto, AfterRenderError,
               apiVars, rowVars, rVars, dVars, fileVars, envVars
    <2>3. EnvType'
      BY <1>0, <1>11, PipelineAssumption DEF EnvType, RGenerateFails, RGoto,
               NoFault, Fault, AfterRenderError, apiVars, rowVars, rVars, dVars, fileVars,
               envVars
    <2> QED  BY <2>1, <2>2, <2>3
  <1>12. ASSUME NEW w \in Renderers, NEW n \in 0..2, NEW ok \in BOOLEAN, REmit(w, n, ok)
        PROVE  JobType' /\ HandlerType' /\ EnvType'
    <2>1. JobType'
      BY <1>0, <1>12 DEF JobType, Terminal, REmit, XAddEnds, NoFault, Fault,
               LostReply, RGoto, EmitsAt, apiVars, rowVars, rVars, dVars,
               fileVars, envVars
    <2>2. HandlerType'
      BY <1>0, <1>12 DEF HandlerType, REmit, XAddEnds, NoFault, Fault,
               LostReply, RGoto, EmitsAt, apiVars, rowVars, rVars, dVars,
               fileVars, envVars
    <2>3. EnvType'
      BY <1>0, <1>12, PipelineAssumption DEF EnvType, REmit, StoppedEmitting,
               XAddCutOff, Workers, XAddEnds, NoFault,
               Fault, LostReply, RGoto, EmitsAt, apiVars, rowVars, rVars, dVars,
               fileVars, envVars
    <2> QED  BY <2>1, <2>2, <2>3
  <1>13. ASSUME NEW w \in Renderers, RFail(w)
        PROVE  JobType' /\ HandlerType' /\ EnvType'
    <2>1. JobType'
      BY <1>0, <1>13 DEF JobType, Terminal, RFail, SetJobStatus, UpdateSucceeds,
               UpdateFails, NoFault, Fault, RGoto, apiVars, rowVars, rVars,
               dVars, fileVars, envVars
    <2>2. HandlerType'
      BY <1>0, <1>13 DEF HandlerType, RFail, SetJobStatus, UpdateSucceeds,
               UpdateFails, NoFault, Fault, RGoto, apiVars, rowVars, rVars,
               dVars, fileVars, envVars
    <2>3. EnvType'
      BY <1>0, <1>13, PipelineAssumption DEF EnvType, RFail, SetJobStatus,
               UpdateSucceeds, UpdateFails, NoFault, Fault, RGoto, apiVars,
               rowVars, rVars, dVars, fileVars, envVars
    <2> QED  BY <2>1, <2>2, <2>3
  <1>14. ASSUME NEW w \in Renderers, NEW fate \in RQ!Fates \cup {"held"}, RReturn(w, fate)
        PROVE  JobType' /\ HandlerType' /\ EnvType'
    <2>1. JobType'
      BY <1>0, <1>14 DEF JobType, Terminal, RReturn, SettlesAs, RRelease,
               NoFault, Fault, RGoto, apiVars, rowVars, rVars, dVars, fileVars,
               envVars
    <2>2. HandlerType'
      BY <1>0, <1>14 DEF HandlerType, RReturn, SettlesAs, RRelease, NoFault,
               Fault, RGoto, apiVars, rowVars, rVars, dVars, fileVars, envVars
    <2>3. EnvType'
      BY <1>0, <1>14, PipelineAssumption DEF EnvType, RReturn, SettlesAs,
               RRelease, NoFault, Fault, RGoto, apiVars, rowVars, rVars, dVars,
               fileVars, envVars
    <2> QED  BY <2>1, <2>2, <2>3
  <1>15. ASSUME NEW w \in Renderers, RCrash(w)
        PROVE  JobType' /\ HandlerType' /\ EnvType'
    <2>1. JobType'
      BY <1>0, <1>15 DEF JobType, Terminal, RCrash, RRelease, NoFault, Fault,
               RGoto, apiVars, rowVars, rVars, dVars, fileVars, envVars
    <2>2. HandlerType'
      BY <1>0, <1>15 DEF HandlerType, RCrash, RRelease, NoFault, Fault, RGoto,
               apiVars, rowVars, rVars, dVars, fileVars, envVars
    <2>3. EnvType'
      BY <1>0, <1>15, PipelineAssumption DEF EnvType, RCrash, RRelease, NoFault,
               Fault, RGoto, apiVars, rowVars, rVars, dVars, fileVars, envVars
    <2> QED  BY <2>1, <2>2, <2>3
  <1>16. ASSUME NEW x \in Workers, Stop(x)
        PROVE  JobType' /\ HandlerType' /\ EnvType'
    <2>1. JobType'
      BY <1>0, <1>16 DEF JobType, Terminal, Stop, apiVars, rowVars, rVars,
               dVars, fileVars, envVars
    <2>2. HandlerType'
      BY <1>0, <1>16 DEF HandlerType, Stop, apiVars, rowVars, rVars, dVars,
               fileVars, envVars
    <2>3. EnvType'
      BY <1>0, <1>16, PipelineAssumption DEF EnvType, Stop, apiVars, rowVars,
               rVars, dVars, fileVars, envVars, Workers
    <2> QED  BY <2>1, <2>2, <2>3
  <1>17. ASSUME NEW v \in Distributors, DTake(v)
        PROVE  JobType' /\ HandlerType' /\ EnvType'
    <2>1. JobType'
      BY <1>0, <1>17 DEF JobType, Terminal, DTake, DGoto, Targets, Supported,
               apiVars, rowVars, rVars, dVars, fileVars, envVars
    <2>2. HandlerType'
      BY <1>0, <1>17 DEF HandlerType, DTake, DGoto, Targets, Supported, apiVars,
               rowVars, rVars, dVars, fileVars, envVars
    <2>3. EnvType'
      BY <1>0, <1>17, PipelineAssumption DEF EnvType, DTake, DGoto, Targets,
               Supported, apiVars, rowVars, rVars, dVars, fileVars, envVars
    <2> QED  BY <2>1, <2>2, <2>3
  <1>18. ASSUME NEW v \in Distributors, DTakeLost(v)
        PROVE  JobType' /\ HandlerType' /\ EnvType'
    <2>1. JobType'
      BY <1>0, <1>18 DEF JobType, Terminal, DTakeLost, TakeLost, NoFault, Fault,
               apiVars, rowVars, rVars, dVars, fileVars, envVars
    <2>2. HandlerType'
      BY <1>0, <1>18 DEF HandlerType, DTakeLost, TakeLost, NoFault, Fault,
               apiVars, rowVars, rVars, dVars, fileVars, envVars
    <2>3. EnvType'
      BY <1>0, <1>18, PipelineAssumption DEF EnvType, DTakeLost, TakeLost,
               NoFault, Fault, apiVars, rowVars, rVars, dVars, fileVars, envVars
    <2> QED  BY <2>1, <2>2, <2>3
  <1>19. ASSUME NEW v \in Distributors, NEW d \in Targets, NEW got \in SUBSET {"whole",
                "broken"}, NEW ok \in BOOLEAN, DSend(v, d, got, ok)
        PROVE  JobType' /\ HandlerType' /\ EnvType'
    <2>1. JobType'
      BY <1>0, <1>19 DEF JobType, Terminal, DSend, apiVars, rowVars, rVars,
               dVars, fileVars, envVars
    <2>2. HandlerType'
      BY <1>0, <1>19 DEF HandlerType, DSend, apiVars, rowVars, rVars, dVars,
               fileVars, envVars
    <2>3. EnvType'
      BY <1>0, <1>19, PipelineAssumption DEF EnvType, DSend, apiVars, rowVars,
               rVars, dVars, fileVars, envVars
    <2> QED  BY <2>1, <2>2, <2>3
  <1>20. ASSUME NEW v \in Distributors, DStatus(v)
        PROVE  JobType' /\ HandlerType' /\ EnvType'
    <2>1. DJob(v) \in Jobs
      BY <1>20 DEF DStatus, DJob, Held, TypeOK, HandlerType, HandlersHaveEntries,
               EntriesHaveJobs
    <2>2. JobType'
      BY <1>0, <1>20, <2>1 DEF JobType, Terminal, DStatus, SetJobStatus,
               UpdateSucceeds, UpdateFails, NoFault, Fault, DGoto, FinalStatus,
               apiVars, rowVars, rVars, dVars, fileVars, envVars
    <2>3. HandlerType'
      BY <1>0, <1>20 DEF HandlerType, DStatus, SetJobStatus, UpdateSucceeds,
               UpdateFails, NoFault, Fault, DGoto, FinalStatus, apiVars,
               rowVars, rVars, dVars, fileVars, envVars
    <2>4. EnvType'
      BY <1>0, <1>20, PipelineAssumption DEF EnvType, DStatus, SetJobStatus,
               UpdateSucceeds, UpdateFails, NoFault, Fault, DGoto, FinalStatus,
               apiVars, rowVars, rVars, dVars, fileVars, envVars
    <2> QED  BY <2>2, <2>3, <2>4
  <1>21. ASSUME NEW v \in Distributors, DCleanup(v)
        PROVE  JobType' /\ HandlerType' /\ EnvType'
    <2>1. JobType'
      BY <1>0, <1>21 DEF JobType, Terminal, DCleanup, NoFault, Fault, DGoto,
               CleansUp, apiVars, rowVars, rVars, dVars, fileVars, envVars
    <2>2. HandlerType'
      BY <1>0, <1>21 DEF HandlerType, DCleanup, NoFault, Fault, DGoto, CleansUp,
               apiVars, rowVars, rVars, dVars, fileVars, envVars
    <2>3. EnvType'
      BY <1>0, <1>21, PipelineAssumption DEF EnvType, DCleanup, NoFault, Fault,
               DGoto, CleansUp, apiVars, rowVars, rVars, dVars, fileVars,
               envVars
    <2> QED  BY <2>1, <2>2, <2>3
  <1>22. ASSUME NEW v \in Distributors, NEW fate \in DQ!Fates \cup {"held"}, DReturn(v, fate)
        PROVE  JobType' /\ HandlerType' /\ EnvType'
    <2>1. JobType'
      BY <1>0, <1>22 DEF JobType, Terminal, DReturn, SettlesAs, DRelease,
               NoFault, Fault, DGoto, apiVars, rowVars, rVars, dVars, fileVars,
               envVars
    <2>2. HandlerType'
      BY <1>0, <1>22 DEF HandlerType, DReturn, SettlesAs, DRelease, NoFault,
               Fault, DGoto, apiVars, rowVars, rVars, dVars, fileVars, envVars
    <2>3. EnvType'
      BY <1>0, <1>22, PipelineAssumption DEF EnvType, DReturn, SettlesAs,
               DRelease, NoFault, Fault, DGoto, apiVars, rowVars, rVars, dVars,
               fileVars, envVars
    <2> QED  BY <2>1, <2>2, <2>3
  <1>23. ASSUME NEW v \in Distributors, DCrash(v)
        PROVE  JobType' /\ HandlerType' /\ EnvType'
    <2>1. JobType'
      BY <1>0, <1>23 DEF JobType, Terminal, DCrash, DRelease, NoFault, Fault,
               DGoto, apiVars, rowVars, rVars, dVars, fileVars, envVars
    <2>2. HandlerType'
      BY <1>0, <1>23 DEF HandlerType, DCrash, DRelease, NoFault, Fault, DGoto,
               apiVars, rowVars, rVars, dVars, fileVars, envVars
    <2>3. EnvType'
      BY <1>0, <1>23, PipelineAssumption DEF EnvType, DCrash, DRelease, NoFault,
               Fault, DGoto, apiVars, rowVars, rVars, dVars, fileVars, envVars
    <2> QED  BY <2>1, <2>2, <2>3
  <1>24. ASSUME NEW i \in RIds, ReplayRender(i)
        PROVE  JobType' /\ HandlerType' /\ EnvType'
    <2>1. JobType'
      BY <1>0, <1>24 DEF JobType, Terminal, ReplayRender, apiVars, rowVars,
               rVars, dVars, fileVars, envVars
    <2>2. HandlerType'
      BY <1>0, <1>24 DEF HandlerType, ReplayRender, apiVars, rowVars, rVars,
               dVars, fileVars, envVars
    <2>3. EnvType'
      BY <1>0, <1>24, PipelineAssumption DEF EnvType, ReplayRender, apiVars,
               rowVars, rVars, dVars, fileVars, envVars
    <2> QED  BY <2>1, <2>2, <2>3
  <1>25. ASSUME NEW i \in DIds, ReplayDist(i)
        PROVE  JobType' /\ HandlerType' /\ EnvType'
    <2>1. JobType'
      BY <1>0, <1>25 DEF JobType, Terminal, ReplayDist, apiVars, rowVars, rVars,
               dVars, fileVars, envVars
    <2>2. HandlerType'
      BY <1>0, <1>25 DEF HandlerType, ReplayDist, apiVars, rowVars, rVars,
               dVars, fileVars, envVars
    <2>3. EnvType'
      BY <1>0, <1>25, PipelineAssumption DEF EnvType, ReplayDist, apiVars,
               rowVars, rVars, dVars, fileVars, envVars
    <2> QED  BY <2>1, <2>2, <2>3
  <1>26. CASE UNCHANGED vars
    BY <1>0, <1>26 DEF JobType, HandlerType, EnvType, vars, apiVars, rowVars,
             rVars, dVars, fileVars, envVars
  <1> QED  BY <1>1, <1>2, <1>3, <1>4, <1>5, <1>6, <1>7, <1>8, <1>9, <1>10,
              <1>11, <1>12, <1>13, <1>14, <1>15, <1>16, <1>17, <1>18, <1>19,
              <1>20, <1>21, <1>22, <1>23, <1>24, <1>25, <1>26
           DEF Next, RequestSteps, RendererSteps, DistributorSteps, Workers

(***************************************************************************)
(* The type invariant.                                                     *)
(***************************************************************************)

\* A handler gets its entry when it takes it and gives it back when it ends.
LEMMA BusyNext ==
  ASSUME Held, [Next]_vars
  PROVE HandlersHaveEntries'
  <1>0. /\ HandlerType /\ RQueueType /\ DQueueType /\ HandlersHaveEntries
        /\ RKept /\ DKept
    BY KeptNext DEF Held, TypeOK
  <1>1. ASSUME NEW j \in Jobs, Insert(j)
        PROVE  HandlersHaveEntries'
    BY <1>0, <1>1 DEF HandlersHaveEntries, HandlerType, RKept, DKept, Insert,
             rVars, dVars
  <1>2. ASSUME NEW j \in Jobs, AbandonRequest(j)
        PROVE  HandlersHaveEntries'
    BY <1>0, <1>2 DEF HandlersHaveEntries, HandlerType, RKept, DKept,
             AbandonRequest, rVars, dVars
  <1>3. ASSUME NEW j \in Jobs, NEW n \in 0..2, NEW ok \in BOOLEAN, Dispatch(j, n, ok)
        PROVE  HandlersHaveEntries'
    BY <1>0, <1>3 DEF HandlersHaveEntries, HandlerType, RKept, DKept, Dispatch,
             rVars, dVars
  <1>4. ASSUME NEW w \in Renderers, RTake(w)
        PROVE  HandlersHaveEntries'
    <2>1. PICK i \in RIds : RTakes(i) /\ rcur' = [rcur EXCEPT ![w] = i]
      BY <1>4 DEF RTake
    <2>2. i # 0 /\ rphase'[i] # "absent"
      BY <1>0, <2>1, Bounds DEF RTakes, RQ!Take, RQueueType
    <2> QED
      BY <1>0, <1>4, <2>1, <2>2 DEF HandlersHaveEntries, HandlerType, RKept,
               DKept, RTake, RGoto, rVars, dVars
  <1>5. ASSUME NEW w \in Renderers, RTakeLost(w)
        PROVE  HandlersHaveEntries'
    BY <1>0, <1>5 DEF HandlersHaveEntries, HandlerType, RKept, DKept, RTakeLost,
             RGoto, rVars, dVars
  <1>6. ASSUME NEW w \in Renderers, RBegin(w)
        PROVE  HandlersHaveEntries'
    BY <1>0, <1>6 DEF HandlersHaveEntries, HandlerType, RKept, DKept, RBegin,
             RGoto, rVars, dVars
  <1>7. ASSUME NEW w \in Renderers, RMkdir(w)
        PROVE  HandlersHaveEntries'
    BY <1>0, <1>7 DEF HandlersHaveEntries, HandlerType, RKept, DKept, RMkdir,
             RGoto, rVars, dVars
  <1>8. ASSUME NEW w \in Renderers, RMkdirFails(w)
        PROVE  HandlersHaveEntries'
    BY <1>0, <1>8 DEF HandlersHaveEntries, HandlerType, RKept, DKept,
             RMkdirFails, RGoto, rVars, dVars
  <1>9. ASSUME NEW w \in Renderers, REncode(w)
        PROVE  HandlersHaveEntries'
    BY <1>0, <1>9 DEF HandlersHaveEntries, HandlerType, RKept, DKept, REncode,
             RGoto, rVars, dVars
  <1>10. ASSUME NEW w \in Renderers, RGenerated(w)
        PROVE  HandlersHaveEntries'
    BY <1>0, <1>10 DEF HandlersHaveEntries, HandlerType, RKept, DKept,
             RGenerated, RGoto, rVars, dVars
  <1>11. ASSUME NEW w \in Renderers, RGenerateFails(w)
        PROVE  HandlersHaveEntries'
    BY <1>0, <1>11 DEF HandlersHaveEntries, HandlerType, RKept, DKept,
             RGenerateFails, RGoto, AfterRenderError, rVars, dVars
  <1>12. ASSUME NEW w \in Renderers, NEW n \in 0..2, NEW ok \in BOOLEAN, REmit(w, n, ok)
        PROVE  HandlersHaveEntries'
    BY <1>0, <1>12 DEF HandlersHaveEntries, HandlerType, RKept, DKept, REmit,
             EmitsAt, RGoto, rVars, dVars
  <1>13. ASSUME NEW w \in Renderers, RFail(w)
        PROVE  HandlersHaveEntries'
    BY <1>0, <1>13 DEF HandlersHaveEntries, HandlerType, RKept, DKept, RFail,
             RGoto, rVars, dVars
  <1>14. ASSUME NEW w \in Renderers, NEW fate \in RQ!Fates \cup {"held"}, RReturn(w, fate)
        PROVE  HandlersHaveEntries'
    BY <1>0, <1>14 DEF HandlersHaveEntries, HandlerType, RKept, DKept, RReturn,
             RRelease, RGoto, rVars, dVars
  <1>15. ASSUME NEW w \in Renderers, RCrash(w)
        PROVE  HandlersHaveEntries'
    BY <1>0, <1>15 DEF HandlersHaveEntries, HandlerType, RKept, DKept, RCrash,
             RRelease, RGoto, rVars, dVars
  <1>16. ASSUME NEW x \in Workers, Stop(x)
        PROVE  HandlersHaveEntries'
    BY <1>0, <1>16 DEF HandlersHaveEntries, HandlerType, RKept, DKept, Stop,
             rVars, dVars
  <1>17. ASSUME NEW v \in Distributors, DTake(v)
        PROVE  HandlersHaveEntries'
    <2>1. PICK i \in DIds : DQ!Take(i) /\ dcur' = [dcur EXCEPT ![v] = i]
      BY <1>17 DEF DTake
    <2>2. i # 0 /\ dphase'[i] # "absent"
      BY <1>0, <2>1, Bounds DEF DQ!Take, DQueueType
    <2> QED
      BY <1>0, <1>17, <2>1, <2>2 DEF HandlersHaveEntries, HandlerType, RKept,
               DKept, DTake, DGoto, rVars, dVars
  <1>18. ASSUME NEW v \in Distributors, DTakeLost(v)
        PROVE  HandlersHaveEntries'
    BY <1>0, <1>18 DEF HandlersHaveEntries, HandlerType, RKept, DKept,
             DTakeLost, rVars, dVars
  <1>19. ASSUME NEW v \in Distributors, NEW d \in Targets, NEW got \in SUBSET {"whole",
                "broken"}, NEW ok \in BOOLEAN, DSend(v, d, got, ok)
        PROVE  HandlersHaveEntries'
    BY <1>0, <1>19 DEF HandlersHaveEntries, HandlerType, RKept, DKept, DSend,
             rVars, dVars
  <1>20. ASSUME NEW v \in Distributors, DStatus(v)
        PROVE  HandlersHaveEntries'
    BY <1>0, <1>20 DEF HandlersHaveEntries, HandlerType, RKept, DKept, DStatus,
             DGoto, rVars, dVars
  <1>21. ASSUME NEW v \in Distributors, DCleanup(v)
        PROVE  HandlersHaveEntries'
    BY <1>0, <1>21 DEF HandlersHaveEntries, HandlerType, RKept, DKept, DCleanup,
             DGoto, rVars, dVars
  <1>22. ASSUME NEW v \in Distributors, NEW fate \in DQ!Fates \cup {"held"}, DReturn(v, fate)
        PROVE  HandlersHaveEntries'
    BY <1>0, <1>22 DEF HandlersHaveEntries, HandlerType, RKept, DKept, DReturn,
             DRelease, DGoto, rVars, dVars
  <1>23. ASSUME NEW v \in Distributors, DCrash(v)
        PROVE  HandlersHaveEntries'
    BY <1>0, <1>23 DEF HandlersHaveEntries, HandlerType, RKept, DKept, DCrash,
             DRelease, DGoto, rVars, dVars
  <1>24. ASSUME NEW i \in RIds, ReplayRender(i)
        PROVE  HandlersHaveEntries'
    BY <1>0, <1>24 DEF HandlersHaveEntries, HandlerType, RKept, DKept,
             ReplayRender, rVars, dVars
  <1>25. ASSUME NEW i \in DIds, ReplayDist(i)
        PROVE  HandlersHaveEntries'
    BY <1>0, <1>25 DEF HandlersHaveEntries, HandlerType, RKept, DKept,
             ReplayDist, rVars, dVars
  <1>26. CASE UNCHANGED vars
    BY <1>0, <1>26 DEF HandlersHaveEntries, vars, rVars, dVars, rqVars, dqVars
  <1> QED  BY <1>1, <1>2, <1>3, <1>4, <1>5, <1>6, <1>7, <1>8, <1>9, <1>10,
              <1>11, <1>12, <1>13, <1>14, <1>15, <1>16, <1>17, <1>18, <1>19,
              <1>20, <1>21, <1>22, <1>23, <1>24, <1>25, <1>26
           DEF Next, RequestSteps, RendererSteps, DistributorSteps, Workers

LEMMA HeldNext == Held /\ [Next]_vars => Held'
  <1> SUFFICES ASSUME Held, [Next]_vars PROVE Held'  OBVIOUS
  <1>1. RKept /\ DKept  BY KeptNext
  <1>2. JobType' /\ HandlerType' /\ EnvType'  BY TypedNext
  <1>3. HandlersHaveEntries'  BY BusyNext
  <1> QED  BY <1>1, <1>2, <1>3 DEF Held, TypeOK, RKept, DKept, EntriesHaveJobs

LEMMA HeldInvariant == Spec => []Held
  BY HeldInit, HeldNext, PTL DEF Spec

\* The type invariant of the pipeline, for any number of jobs, destinations and
\* processes, whatever fails, is duplicated or replayed.
THEOREM TypeCorrect == Spec => []TypeOK
  <1>1. Held => TypeOK  BY DEF Held
  <1> QED  BY <1>1, HeldInvariant, PTL

(***************************************************************************)
(* The two queues.                                                         *)
(***************************************************************************)

RQStep == [RQ!Next]_rphase
DQStep == [DQ!Next]_dphase

\* An XADD is one step of its queue, whether it leaves no entry, one or two.
LEMMA AddIsAStep ==
  ASSUME NEW n \in 0..2, NEW j
  PROVE  (AddRender(n, j) => RQStep) /\ (AddDist(n, j) => DQStep)
  <1>1. ASSUME AddRender(n, j)  PROVE RQStep
    <2>1. PICK last \in 0..MaxRender :
            last + n <= MaxRender /\ IF n = 0 THEN UNCHANGED rphase ELSE RQ!Add(last + n)
      BY <1>1 DEF AddRender
    <2>2. n # 0 => last + n \in RIds  BY <2>1, PipelineAssumption DEF RIds
    <2> QED  BY <2>1, <2>2 DEF RQStep, RQ!Next
  <1>2. ASSUME AddDist(n, j)  PROVE DQStep
    <2>1. PICK last \in 0..MaxDist :
            last + n <= MaxDist /\ IF n = 0 THEN UNCHANGED dphase ELSE DQ!Add(last + n)
      BY <1>2 DEF AddDist
    <2>2. n # 0 => last + n \in DIds  BY <2>1, PipelineAssumption DEF DIds
    <2> QED  BY <2>1, <2>2 DEF DQStep, DQ!Next
  <1> QED  BY <1>1, <1>2

\* What a worker settles is an entry of its queue.
LEMMA ReturnIsAStep ==
  ASSUME Held
  PROVE  /\ \A w \in Renderers, fate \in RQ!Fates \cup {"held"} : RReturn(w, fate) => RQStep
         /\ \A v \in Distributors, fate \in DQ!Fates \cup {"held"} : DReturn(v, fate) => DQStep
  <1>1. ASSUME NEW w \in Renderers, NEW fate \in RQ!Fates \cup {"held"}, RReturn(w, fate)
        PROVE  RQStep
    <2>1. IF fate = "held" THEN UNCHANGED rphase ELSE RQ!Settle(rcur[w], fate)
      BY <1>1 DEF RReturn
    <2>2. rcur[w] \in RIds
      <3>1. rcur[w] # 0  BY <1>1 DEF RReturn, Held, HandlersHaveEntries
      <3>2. rcur[w] \in RIds \cup {0}  BY DEF Held, TypeOK, HandlerType
      <3> QED  BY <3>1, <3>2
    <2> QED  BY <2>1, <2>2 DEF RQStep, RQ!Next
  <1>2. ASSUME NEW v \in Distributors, NEW fate \in DQ!Fates \cup {"held"}, DReturn(v, fate)
        PROVE  DQStep
    <2>1. IF fate = "held" THEN UNCHANGED dphase ELSE DQ!Settle(dcur[v], fate)
      BY <1>2 DEF DReturn
    <2>2. dcur[v] \in DIds
      <3>1. dcur[v] # 0  BY <1>2 DEF DReturn, Held, HandlersHaveEntries
      <3>2. dcur[v] \in DIds \cup {0}  BY DEF Held, TypeOK, HandlerType
      <3> QED  BY <3>1, <3>2
    <2> QED  BY <2>1, <2>2 DEF DQStep, DQ!Next
  <1> QED  BY <1>1, <1>2

\* What a step of the pipeline does to the queues their users may do.
LEMMA QueuesNext ==
  ASSUME Held, [Next]_vars
  PROVE  RQStep /\ DQStep
  <1>1. CASE \E j \in Jobs : RequestSteps(j)
    <2>1. PICK j \in Jobs : RequestSteps(j)  BY <1>1
    <2>2. CASE \E n \in 0..2, ok \in BOOLEAN : Dispatch(j, n, ok)
      <3>1. PICK n \in 0..2, ok \in BOOLEAN : Dispatch(j, n, ok)  BY <2>2
      <3>2. AddRender(n, j) /\ UNCHANGED dphase  BY <3>1 DEF Dispatch, dqVars
      <3> QED  BY <3>2, AddIsAStep DEF DQStep
    <2>3. CASE Insert(j) \/ AbandonRequest(j)
      BY <2>3 DEF Insert, AbandonRequest, rqVars, dqVars, RQStep, DQStep
    <2> QED  BY <2>1, <2>2, <2>3 DEF RequestSteps
  <1>2. CASE \E w \in Renderers : RendererSteps(w) \/ RTakeLost(w) \/ RCrash(w) \/ Stop(w)
    <2>1. PICK w \in Renderers : RendererSteps(w) \/ RTakeLost(w) \/ RCrash(w) \/ Stop(w)
      BY <1>2
    <2>2. CASE RTake(w) \/ RTakeLost(w)
      <3>1. (\E i \in RIds : RQ!Take(i)) /\ UNCHANGED dphase
        BY <2>2 DEF RTake, RTakeLost, RTakes, dqVars
      <3> QED  BY <3>1 DEF RQStep, DQStep, RQ!Next
    <2>3. CASE \E n \in 0..2, ok \in BOOLEAN : REmit(w, n, ok)
      <3>1. PICK n \in 0..2, ok \in BOOLEAN : REmit(w, n, ok)  BY <2>3
      <3>2. AddDist(n, RJob(w)) /\ UNCHANGED rphase  BY <3>1 DEF REmit, rqVars
      <3> QED  BY <3>2, AddIsAStep DEF RQStep
    <2>4. CASE \E fate \in RQ!Fates \cup {"held"} : RReturn(w, fate)
      <3>1. RQStep  BY <2>4, ReturnIsAStep
      <3>2. UNCHANGED dphase  BY <2>4 DEF RReturn, dqVars
      <3> QED  BY <3>1, <3>2 DEF DQStep
    <2>5. CASE \/ RBegin(w) \/ RMkdir(w) \/ RMkdirFails(w) \/ REncode(w) \/ RGenerated(w)
               \/ RGenerateFails(w) \/ RFail(w) \/ RCrash(w) \/ Stop(w)
      <3>1. UNCHANGED <<rphase, dphase>>
        BY <2>5 DEF RBegin, RMkdir, RMkdirFails, REncode, RGenerated, RGenerateFails, RFail,
                    RCrash, Stop, rqVars, dqVars
      <3> QED  BY <3>1 DEF RQStep, DQStep
    <2> QED  BY <2>1, <2>2, <2>3, <2>4, <2>5 DEF RendererSteps
  <1>3. CASE \E v \in Distributors :
               DistributorSteps(v) \/ DTakeLost(v) \/ DCrash(v) \/ Stop(v)
    <2>1. PICK v \in Distributors : DistributorSteps(v) \/ DTakeLost(v) \/ DCrash(v) \/ Stop(v)
      BY <1>3
    <2>2. CASE DTake(v) \/ DTakeLost(v)
      <3>1. (\E i \in DIds : DQ!Take(i)) /\ UNCHANGED rphase
        BY <2>2 DEF DTake, DTakeLost, rqVars
      <3> QED  BY <3>1 DEF RQStep, DQStep, DQ!Next
    <2>3. CASE \E fate \in DQ!Fates \cup {"held"} : DReturn(v, fate)
      <3>1. DQStep  BY <2>3, ReturnIsAStep
      <3>2. UNCHANGED rphase  BY <2>3 DEF DReturn, rqVars
      <3> QED  BY <3>1, <3>2 DEF RQStep
    <2>4. CASE \E d \in Targets, got \in SUBSET {"whole", "broken"}, ok \in BOOLEAN :
                 DSend(v, d, got, ok)
      <3>1. UNCHANGED <<rphase, dphase>>  BY <2>4 DEF DSend, rqVars, dqVars
      <3> QED  BY <3>1 DEF RQStep, DQStep
    <2>5. CASE DStatus(v) \/ DCleanup(v) \/ DCrash(v) \/ Stop(v)
      <3>1. UNCHANGED <<rphase, dphase>>
        BY <2>5 DEF DStatus, DCleanup, DCrash, Stop, rqVars, dqVars
      <3> QED  BY <3>1 DEF RQStep, DQStep
    <2> QED  BY <2>1, <2>2, <2>3, <2>4, <2>5 DEF DistributorSteps
  <1>4. CASE \E i \in RIds : ReplayRender(i)
    <2>1. (\E j : AddRender(1, j)) /\ UNCHANGED dphase  BY <1>4 DEF ReplayRender, dqVars
    <2> QED  BY <2>1, AddIsAStep DEF DQStep
  <1>5. CASE \E i \in DIds : ReplayDist(i)
    <2>1. (\E j : AddDist(1, j)) /\ UNCHANGED rphase  BY <1>5 DEF ReplayDist, rqVars
    <2> QED  BY <2>1, AddIsAStep DEF RQStep
  <1>6. CASE UNCHANGED vars
    BY <1>6 DEF vars, rqVars, dqVars, RQStep, DQStep
  <1> QED  BY <1>1, <1>2, <1>3, <1>4, <1>5, <1>6 DEF Next

\* The handlers, the requests and the operators use each stream as its promise
\* allows: both are at-most-once queues, which is what the workers are shown to
\* implement.
THEOREM QueuesKeepTheirPromise == Spec => RQ!Spec /\ DQ!Spec
  <1>1. Init => RQ!Init /\ DQ!Init  BY DEF Init
  <1>2. Held /\ [Next]_vars => [RQ!Next]_rphase /\ [DQ!Next]_dphase
    BY QueuesNext DEF RQStep, DQStep
  <1> QED  BY <1>1, <1>2, HeldInvariant, PTL DEF Spec, RQ!Spec, DQ!Spec

(***************************************************************************)
(* Complete means delivered.                                               *)
(***************************************************************************)

\* While a distributor sends, a destination with an adapter is still to do, or
\* has a video of the job, or an adapter has failed.
SentSoFar ==
  \A v \in Distributors : dpc[v] = "send" =>
    \A d \in Supported : d \in dtodo[v] \/ derr[v] \/ received[DJob(v)][d] # {}

\* A worker that goes on keeps its job.
LEMMA RJobKept ==
  ASSUME Held, RKept, NEW w \in Renderers, rpc[w] # "idle", rcur'[w] = rcur[w]
  PROVE RJob(w) \in Jobs /\ RJob(w)' = RJob(w)
  BY DEF RJob, Held, TypeOK, HandlerType, HandlersHaveEntries, EntriesHaveJobs, RKept

LEMMA DJobKept ==
  ASSUME Held, DKept, NEW v \in Distributors, dpc[v] # "idle", dcur'[v] = dcur[v]
  PROVE DJob(v) \in Jobs /\ DJob(v)' = DJob(v)
  BY DEF DJob, Held, TypeOK, HandlerType, HandlersHaveEntries, EntriesHaveJobs, DKept

\* Most steps neither touch the distributors nor deliver.
LEMMA SentQuiet ==
  ASSUME Held, DKept, SentSoFar, UNCHANGED <<dVars, received>>
  PROVE SentSoFar'
  <1> SUFFICES ASSUME NEW v \in Distributors, dpc'[v] = "send", NEW d \in Supported
               PROVE (d \in dtodo[v] \/ derr[v] \/ received[DJob(v)][d] # {})'
    BY DEF SentSoFar
  <1>1. dpc[v] = "send" /\ dcur'[v] = dcur[v]  BY DEF dVars
  <1>2. DJob(v)' = DJob(v)  BY <1>1, DJobKept
  <1> QED  BY <1>1, <1>2 DEF SentSoFar, dVars

LEMMA SentNext ==
  ASSUME Held, SentSoFar, [Next]_vars
  PROVE SentSoFar'
  <1>0. DKept  BY KeptNext
  <1>1. ASSUME NEW j \in Jobs, Insert(j)
        PROVE  SentSoFar'
    BY <1>0, <1>1, SentQuiet DEF Insert, dVars, fileVars
  <1>2. ASSUME NEW j \in Jobs, AbandonRequest(j)
        PROVE  SentSoFar'
    BY <1>0, <1>2, SentQuiet DEF AbandonRequest, dVars, fileVars
  <1>3. ASSUME NEW j \in Jobs, NEW n \in 0..2, NEW ok \in BOOLEAN, Dispatch(j, n, ok)
        PROVE  SentSoFar'
    BY <1>0, <1>3, SentQuiet DEF Dispatch, dVars, fileVars
  <1>4. ASSUME NEW w \in Renderers, RTake(w)
        PROVE  SentSoFar'
    BY <1>0, <1>4, SentQuiet DEF RTake, dVars, fileVars
  <1>5. ASSUME NEW w \in Renderers, RTakeLost(w)
        PROVE  SentSoFar'
    BY <1>0, <1>5, SentQuiet DEF RTakeLost, dVars, fileVars
  <1>6. ASSUME NEW w \in Renderers, RBegin(w)
        PROVE  SentSoFar'
    BY <1>0, <1>6, SentQuiet DEF RBegin, dVars, fileVars
  <1>7. ASSUME NEW w \in Renderers, RMkdir(w)
        PROVE  SentSoFar'
    BY <1>0, <1>7, SentQuiet DEF RMkdir, dVars, fileVars
  <1>8. ASSUME NEW w \in Renderers, RMkdirFails(w)
        PROVE  SentSoFar'
    BY <1>0, <1>8, SentQuiet DEF RMkdirFails, dVars, fileVars
  <1>9. ASSUME NEW w \in Renderers, REncode(w)
        PROVE  SentSoFar'
    BY <1>0, <1>9, SentQuiet DEF REncode, dVars, fileVars
  <1>10. ASSUME NEW w \in Renderers, RGenerated(w)
        PROVE  SentSoFar'
    BY <1>0, <1>10, SentQuiet DEF RGenerated, dVars, fileVars
  <1>11. ASSUME NEW w \in Renderers, RGenerateFails(w)
        PROVE  SentSoFar'
    BY <1>0, <1>11, SentQuiet DEF RGenerateFails, dVars, fileVars
  <1>12. ASSUME NEW w \in Renderers, NEW n \in 0..2, NEW ok \in BOOLEAN, REmit(w, n, ok)
        PROVE  SentSoFar'
    BY <1>0, <1>12, SentQuiet DEF REmit, dVars, fileVars
  <1>13. ASSUME NEW w \in Renderers, RFail(w)
        PROVE  SentSoFar'
    BY <1>0, <1>13, SentQuiet DEF RFail, dVars, fileVars
  <1>14. ASSUME NEW w \in Renderers, NEW fate \in RQ!Fates \cup {"held"}, RReturn(w, fate)
        PROVE  SentSoFar'
    BY <1>0, <1>14, SentQuiet DEF RReturn, dVars, fileVars
  <1>15. ASSUME NEW w \in Renderers, RCrash(w)
        PROVE  SentSoFar'
    BY <1>0, <1>15, SentQuiet DEF RCrash, dVars, fileVars
  <1>16. ASSUME NEW x \in Workers, Stop(x)
        PROVE  SentSoFar'
    BY <1>0, <1>16, SentQuiet DEF Stop, dVars, fileVars
  <1>17. ASSUME NEW v \in Distributors, DTake(v)
        PROVE  SentSoFar'
    <2> SUFFICES ASSUME NEW u \in Distributors, dpc'[u] = "send", NEW d \in Supported
                 PROVE (d \in dtodo[u] \/ derr[u] \/ received[DJob(u)][d] # {})'
      BY DEF SentSoFar
    <2>1. CASE u = v  BY <1>17, <2>1 DEF DTake, Targets, Supported, Held, TypeOK, HandlerType
    <2>2. CASE u # v
      <3>1. /\ dpc[u] = "send" /\ dcur'[u] = dcur[u] /\ dtodo'[u] = dtodo[u]
            /\ derr'[u] = derr[u] /\ received' = received
        BY <1>17, <2>2 DEF DTake, DGoto, Held, TypeOK, HandlerType, fileVars
      <3>2. DJob(u)' = DJob(u)  BY <1>0, <3>1, DJobKept
      <3> QED  BY <3>1, <3>2 DEF SentSoFar
    <2> QED  BY <2>1, <2>2
  <1>18. ASSUME NEW v \in Distributors, DTakeLost(v)
        PROVE  SentSoFar'
    BY <1>0, <1>18, SentQuiet DEF DTakeLost, dVars, fileVars
  <1>19. ASSUME NEW v \in Distributors, NEW d \in Targets, NEW got \in SUBSET {"whole",
                "broken"}, NEW ok \in BOOLEAN, DSend(v, d, got, ok)
        PROVE  SentSoFar'
    <2> SUFFICES ASSUME NEW u \in Distributors, dpc'[u] = "send", NEW e \in Supported
                 PROVE (e \in dtodo[u] \/ derr[u] \/ received[DJob(u)][e] # {})'
      BY DEF SentSoFar
    <2>1. dpc[u] = "send" /\ dcur'[u] = dcur[u]  BY <1>19 DEF DSend
    <2>2. DJob(u) \in Jobs /\ DJob(u)' = DJob(u)  BY <1>0, <2>1, DJobKept
    <2>3. received[DJob(u)][e] \subseteq received'[DJob(u)][e]
      BY <1>19, <2>2 DEF DSend, Held, TypeOK, JobType, Supported
    <2>4. CASE u # v
      BY <1>19, <2>1, <2>2, <2>3, <2>4 DEF DSend, SentSoFar, Held, TypeOK, HandlerType
    <2>5. CASE u = v /\ e # d
      BY <1>19, <2>1, <2>2, <2>3, <2>5 DEF DSend, SentSoFar, Held, TypeOK, HandlerType
    <2>6. CASE u = v /\ e = d
      <3>1. received'[DJob(v)][d] = received[DJob(v)][d] \cup got
        BY <1>19, <2>2, <2>6 DEF DSend, Held, TypeOK, JobType, Supported
      <3>2. derr'[v] = (derr[v] \/ ~ok) /\ (ok => got # {})
        BY <1>19 DEF DSend, Held, TypeOK, HandlerType
      <3> QED  BY <2>2, <2>6, <3>1, <3>2
    <2> QED  BY <2>4, <2>5, <2>6
  <1>20. ASSUME NEW v \in Distributors, DStatus(v)
        PROVE  SentSoFar'
    <2> SUFFICES ASSUME NEW u \in Distributors, dpc'[u] = "send", NEW d \in Supported
                 PROVE (d \in dtodo[u] \/ derr[u] \/ received[DJob(u)][d] # {})'
      BY DEF SentSoFar
    <2>1. /\ dpc[u] = "send" /\ dcur'[u] = dcur[u] /\ dtodo'[u] = dtodo[u]
          /\ derr'[u] = derr[u] /\ received' = received
      BY <1>20 DEF DStatus,
               DGoto, Held, TypeOK, HandlerType, fileVars
    <2>2. DJob(u)' = DJob(u)  BY <1>0, <2>1, DJobKept
    <2> QED  BY <2>1, <2>2 DEF SentSoFar
  <1>21. ASSUME NEW v \in Distributors, DCleanup(v)
        PROVE  SentSoFar'
    <2> SUFFICES ASSUME NEW u \in Distributors, dpc'[u] = "send", NEW d \in Supported
                 PROVE (d \in dtodo[u] \/ derr[u] \/ received[DJob(u)][d] # {})'
      BY DEF SentSoFar
    <2>1. /\ dpc[u] = "send" /\ dcur'[u] = dcur[u] /\ dtodo'[u] = dtodo[u]
          /\ derr'[u] = derr[u] /\ received' = received
      BY <1>21 DEF DCleanup,
               DGoto, Held, TypeOK, HandlerType, fileVars
    <2>2. DJob(u)' = DJob(u)  BY <1>0, <2>1, DJobKept
    <2> QED  BY <2>1, <2>2 DEF SentSoFar
  <1>22. ASSUME NEW v \in Distributors, NEW fate \in DQ!Fates \cup {"held"}, DReturn(v, fate)
        PROVE  SentSoFar'
    <2> SUFFICES ASSUME NEW u \in Distributors, dpc'[u] = "send", NEW d \in Supported
                 PROVE (d \in dtodo[u] \/ derr[u] \/ received[DJob(u)][d] # {})'
      BY DEF SentSoFar
    <2>1. /\ dpc[u] = "send" /\ dcur'[u] = dcur[u] /\ dtodo'[u] = dtodo[u]
          /\ derr'[u] = derr[u] /\ received' = received
      BY <1>22 DEF DReturn,
               DRelease, DGoto, Held, TypeOK, HandlerType, fileVars
    <2>2. DJob(u)' = DJob(u)  BY <1>0, <2>1, DJobKept
    <2> QED  BY <2>1, <2>2 DEF SentSoFar
  <1>23. ASSUME NEW v \in Distributors, DCrash(v)
        PROVE  SentSoFar'
    <2> SUFFICES ASSUME NEW u \in Distributors, dpc'[u] = "send", NEW d \in Supported
                 PROVE (d \in dtodo[u] \/ derr[u] \/ received[DJob(u)][d] # {})'
      BY DEF SentSoFar
    <2>1. /\ dpc[u] = "send" /\ dcur'[u] = dcur[u] /\ dtodo'[u] = dtodo[u]
          /\ derr'[u] = derr[u] /\ received' = received
      BY <1>23 DEF DCrash,
               DRelease, DGoto, Held, TypeOK, HandlerType, fileVars
    <2>2. DJob(u)' = DJob(u)  BY <1>0, <2>1, DJobKept
    <2> QED  BY <2>1, <2>2 DEF SentSoFar
  <1>24. ASSUME NEW i \in RIds, ReplayRender(i)
        PROVE  SentSoFar'
    BY <1>0, <1>24, SentQuiet DEF ReplayRender, dVars, fileVars
  <1>25. ASSUME NEW i \in DIds, ReplayDist(i)
        PROVE  SentSoFar'
    BY <1>0, <1>25, SentQuiet DEF ReplayDist, dVars, fileVars
  <1>26. CASE UNCHANGED vars  BY <1>0, <1>26, SentQuiet DEF vars, dVars, fileVars
  <1> QED  BY <1>1, <1>2, <1>3, <1>4, <1>5, <1>6, <1>7, <1>8, <1>9, <1>10,
              <1>11, <1>12, <1>13, <1>14, <1>15, <1>16, <1>17, <1>18, <1>19,
              <1>20, <1>21, <1>22, <1>23, <1>24, <1>25, <1>26
           DEF Next, RequestSteps, RendererSteps, DistributorSteps, Workers

LEMMA CompleteNext ==
  ASSUME Held, SentSoFar, CompleteMeansDelivered, [Next]_vars
  PROVE CompleteMeansDelivered'
  <1>1. ASSUME NEW j \in Jobs, Insert(j)
        PROVE  CompleteMeansDelivered'
    BY <1>1 DEF Insert, CompleteMeansDelivered, Held, TypeOK, JobType, fileVars
  <1>2. ASSUME NEW j \in Jobs, AbandonRequest(j)
        PROVE  CompleteMeansDelivered'
    BY <1>2 DEF AbandonRequest, CompleteMeansDelivered, rowVars, fileVars
  <1>3. ASSUME NEW j \in Jobs, NEW n \in 0..2, NEW ok \in BOOLEAN, Dispatch(j, n, ok)
        PROVE  CompleteMeansDelivered'
    BY <1>3 DEF Dispatch, CompleteMeansDelivered, rowVars, fileVars
  <1>4. ASSUME NEW w \in Renderers, RTake(w)
        PROVE  CompleteMeansDelivered'
    BY <1>4 DEF RTake, CompleteMeansDelivered, rowVars, fileVars
  <1>5. ASSUME NEW w \in Renderers, RTakeLost(w)
        PROVE  CompleteMeansDelivered'
    BY <1>5 DEF RTakeLost, CompleteMeansDelivered, rowVars, fileVars
  <1>6. ASSUME NEW w \in Renderers, RBegin(w)
        PROVE  CompleteMeansDelivered'
    BY <1>6 DEF RBegin, SetJobStatus, CompleteMeansDelivered, Held, TypeOK, JobType,
               rowVars, fileVars
  <1>7. ASSUME NEW w \in Renderers, RMkdir(w)
        PROVE  CompleteMeansDelivered'
    BY <1>7 DEF RMkdir, CompleteMeansDelivered, rowVars
  <1>8. ASSUME NEW w \in Renderers, RMkdirFails(w)
        PROVE  CompleteMeansDelivered'
    BY <1>8 DEF RMkdirFails, CompleteMeansDelivered, rowVars
  <1>9. ASSUME NEW w \in Renderers, REncode(w)
        PROVE  CompleteMeansDelivered'
    BY <1>9 DEF REncode, CompleteMeansDelivered, rowVars
  <1>10. ASSUME NEW w \in Renderers, RGenerated(w)
        PROVE  CompleteMeansDelivered'
    BY <1>10 DEF RGenerated, CompleteMeansDelivered, rowVars
  <1>11. ASSUME NEW w \in Renderers, RGenerateFails(w)
        PROVE  CompleteMeansDelivered'
    BY <1>11 DEF RGenerateFails, CompleteMeansDelivered, rowVars
  <1>12. ASSUME NEW w \in Renderers, NEW n \in 0..2, NEW ok \in BOOLEAN, REmit(w, n, ok)
        PROVE  CompleteMeansDelivered'
    BY <1>12 DEF REmit, CompleteMeansDelivered, rowVars, fileVars
  <1>13. ASSUME NEW w \in Renderers, RFail(w)
        PROVE  CompleteMeansDelivered'
    BY <1>13 DEF RFail, SetJobStatus, CompleteMeansDelivered, Held, TypeOK, JobType,
               rowVars, fileVars
  <1>14. ASSUME NEW w \in Renderers, NEW fate \in RQ!Fates \cup {"held"}, RReturn(w, fate)
        PROVE  CompleteMeansDelivered'
    BY <1>14 DEF RReturn, CompleteMeansDelivered, rowVars, fileVars
  <1>15. ASSUME NEW w \in Renderers, RCrash(w)
        PROVE  CompleteMeansDelivered'
    BY <1>15 DEF RCrash, CompleteMeansDelivered, rowVars, fileVars
  <1>16. ASSUME NEW x \in Workers, Stop(x)
        PROVE  CompleteMeansDelivered'
    BY <1>16 DEF Stop, CompleteMeansDelivered, rowVars, fileVars
  <1>17. ASSUME NEW v \in Distributors, DTake(v)
        PROVE  CompleteMeansDelivered'
    BY <1>17 DEF DTake, CompleteMeansDelivered, rowVars, fileVars
  <1>18. ASSUME NEW v \in Distributors, DTakeLost(v)
        PROVE  CompleteMeansDelivered'
    BY <1>18 DEF DTakeLost, CompleteMeansDelivered, rowVars, fileVars
  <1>19. ASSUME NEW v \in Distributors, NEW d \in Targets, NEW got \in SUBSET {"whole",
                "broken"}, NEW ok \in BOOLEAN, DSend(v, d, got, ok)
        PROVE  CompleteMeansDelivered'
    <2>1. \A k \in Jobs : \A e \in Destinations : received[k][e] \subseteq received'[k][e]
      BY <1>19 DEF DSend, Held, TypeOK, JobType
    <2> QED  BY <1>19, <2>1 DEF DSend, CompleteMeansDelivered, Supported, rowVars
  <1>20. ASSUME NEW v \in Distributors, DStatus(v)
        PROVE  CompleteMeansDelivered'
    <2>1. CASE derr[v]
      BY <1>20, <2>1 DEF DStatus, FinalStatus, SetJobStatus, CompleteMeansDelivered, Held,
                       TypeOK, JobType, rowVars, fileVars
    <2>2. CASE ~derr[v]
      <3>1. \A d \in Supported : received[DJob(v)][d] # {}
        BY <1>20, <2>2 DEF DStatus, SentSoFar
      <3> QED
        BY <1>20, <2>2, <3>1 DEF DStatus, FinalStatus, SetJobStatus, CompleteMeansDelivered,
                               Held, TypeOK, JobType, rowVars, fileVars
    <2> QED  BY <2>1, <2>2
  <1>21. ASSUME NEW v \in Distributors, DCleanup(v)
        PROVE  CompleteMeansDelivered'
    BY <1>21 DEF DCleanup, CompleteMeansDelivered, rowVars
  <1>22. ASSUME NEW v \in Distributors, NEW fate \in DQ!Fates \cup {"held"}, DReturn(v, fate)
        PROVE  CompleteMeansDelivered'
    BY <1>22 DEF DReturn, CompleteMeansDelivered, rowVars, fileVars
  <1>23. ASSUME NEW v \in Distributors, DCrash(v)
        PROVE  CompleteMeansDelivered'
    BY <1>23 DEF DCrash, CompleteMeansDelivered, rowVars, fileVars
  <1>24. ASSUME NEW i \in RIds, ReplayRender(i)
        PROVE  CompleteMeansDelivered'
    BY <1>24 DEF ReplayRender, CompleteMeansDelivered, rowVars, fileVars
  <1>25. ASSUME NEW i \in DIds, ReplayDist(i)
        PROVE  CompleteMeansDelivered'
    BY <1>25 DEF ReplayDist, CompleteMeansDelivered, rowVars, fileVars
  <1>26. CASE UNCHANGED vars  BY <1>26 DEF vars, CompleteMeansDelivered, rowVars, fileVars
  <1> QED  BY <1>1, <1>2, <1>3, <1>4, <1>5, <1>6, <1>7, <1>8, <1>9, <1>10,
              <1>11, <1>12, <1>13, <1>14, <1>15, <1>16, <1>17, <1>18, <1>19,
              <1>20, <1>21, <1>22, <1>23, <1>24, <1>25, <1>26
           DEF Next, RequestSteps, RendererSteps, DistributorSteps, Workers

\* A job is complete only if every destination with an adapter took a video:
\* proved for any number of destinations, processes, faults, duplicates and
\* replays.
THEOREM CompleteIsDelivered == Spec => []CompleteMeansDelivered
  <1>1. Init => SentSoFar /\ CompleteMeansDelivered
    BY DEF Init, SentSoFar, CompleteMeansDelivered
  <1>2. Held /\ SentSoFar /\ CompleteMeansDelivered /\ [Next]_vars
          => (SentSoFar /\ CompleteMeansDelivered)'
    BY SentNext, CompleteNext
  <1> QED  BY <1>1, <1>2, HeldInvariant, PTL DEF Spec

-----------------------------------------------------------------------------
(***************************************************************************)
(* What a fault or a shutdown can cost the pipeline, also when XADDs are   *)
(* carried out twice and dead letters are replayed: at most one job is     *)
(* left without an end, and at most one work directory stays.              *)
(*                                                                         *)
(* A job may be in many hands.  It is counted as lost when the last of     *)
(* those who would write a status for it, or clean its directory away, is  *)
(* gone, or has been told to stop and will not be able to: the step that   *)
(* brings this about is a fault or a shutdown, and no step undoes it.      *)
(***************************************************************************)

(***************************************************************************)
(* Counting.                                                               *)
(***************************************************************************)

\* A set that grows by one element at most, by none, or that loses one.
LEMMA OneMore ==
  ASSUME NEW S, NEW T, IsFiniteSet(S), NEW x, T \subseteq S \cup {x}
  PROVE  /\ IsFiniteSet(T) /\ IsFiniteSet(S)
         /\ Cardinality(T) \in Nat /\ Cardinality(S) \in Nat
         /\ Cardinality(T) <= Cardinality(S) + 1
  <1>1. /\ IsFiniteSet(S \cup {x})
        /\ Cardinality(S \cup {x}) \in {Cardinality(S), Cardinality(S) + 1}
    BY FS_AddElement
  <1>2. IsFiniteSet(T) /\ Cardinality(T) <= Cardinality(S \cup {x})
    BY <1>1, FS_Subset
  <1>3. Cardinality(S) \in Nat /\ Cardinality(T) \in Nat
    BY <1>2, FS_CardinalityType
  <1> QED  BY <1>1, <1>2, <1>3

LEMMA NoMore ==
  ASSUME NEW S, NEW T, IsFiniteSet(S), T \subseteq S
  PROVE  /\ IsFiniteSet(T)
         /\ Cardinality(T) \in Nat /\ Cardinality(S) \in Nat
         /\ Cardinality(T) <= Cardinality(S)
  BY FS_Subset, FS_CardinalityType

LEMMA OneLess ==
  ASSUME NEW S, NEW T, IsFiniteSet(S), NEW x \in S, T \subseteq S \ {x}
  PROVE  /\ IsFiniteSet(T)
         /\ Cardinality(T) \in Nat /\ Cardinality(S) \in Nat
         /\ Cardinality(T) + 1 <= Cardinality(S)
  <1>1. IsFiniteSet(S \ {x}) /\ Cardinality(S \ {x}) = Cardinality(S) - 1
    BY FS_RemoveElement
  <1>2. IsFiniteSet(T) /\ Cardinality(T) <= Cardinality(S \ {x})
    BY <1>1, FS_Subset
  <1>3. Cardinality(S) \in Nat /\ Cardinality(T) \in Nat
    BY <1>2, FS_CardinalityType
  <1> QED  BY <1>1, <1>2, <1>3

\* An account that is never overdrawn, with one kind of debt and with two.
LEMMA Paid ==
  ASSUME NEW old \in Nat, NEW new \in Nat, NEW spent \in Nat, NEW more \in Nat,
         NEW d \in {0, 1}, old <= spent, new <= old + d, spent + d <= more
  PROVE  new <= more
  OBVIOUS

LEMMA PaidBoth ==
  ASSUME NEW a \in Nat, NEW b \in Nat, NEW c \in Nat, NEW d \in Nat,
         NEW spent \in Nat, NEW more \in Nat, a + b <= spent,
         \/ c <= a /\ d <= b /\ more >= spent
         \/ c <= a + 1 /\ d <= b /\ more = spent + 1
         \/ c <= a + 1 /\ d + 1 <= b /\ more = spent
         \/ c <= a /\ d <= b + 1 /\ more = spent + 1
  PROVE  c + d <= more
  OBVIOUS

(***************************************************************************)
(* What the steps that both counts look at do.                             *)
(***************************************************************************)

AtWork == {"begin", "mkdir", "generate", "encode", "emit"}

LEMMA CountsAre == EnvType => faults \in Nat /\ stops \in Nat
  BY PipelineAssumption DEF EnvType

LEMMA CountsBecome == EnvType' => faults' \in Nat /\ stops' \in Nat
  BY PipelineAssumption DEF EnvType

LEMMA SumsAre ==
  ASSUME NEW a \in Nat, NEW b \in Nat PROVE a + b \in Nat
  OBVIOUS

LEMMA TakeLostCounts ==
  ASSUME TakeLost
  PROVE  \/ faults' = faults + 1 /\ stops' = stops
         \/ faults' = faults /\ stops' = stops + 1
  BY DEF TakeLost, Fault, NoFault

LEMMA StatusCounts ==
  ASSUME NEW w, NEW j, NEW s, SetJobStatus(w, j, s)
  PROVE  faults' = faults \/ faults' = faults + 1
  BY DEF SetJobStatus, UpdateSucceeds, UpdateFails, Fault, NoFault

\* An XADD leaves the entries that wait waiting, and adds one if it adds any.
LEMMA AddRenderQueues ==
  ASSUME Held, NEW n \in 0..2, NEW j \in Jobs, AddRender(n, j)
  PROVE  /\ \A i \in RIds : rphase[i] = "queued" => rphase'[i] = "queued"
         /\ n # 0 => \E i \in RIds : rphase'[i] = "queued" /\ rjob'[i] = j
  <1>1. PICK last \in 0..MaxRender :
          /\ \A i \in RIds : rphase[i] = "absent" <=> last < i
          /\ last + n <= MaxRender
          /\ rjob' = [i \in RIds |-> IF last < i /\ i <= last + n THEN j ELSE rjob[i]]
          /\ IF n = 0 THEN UNCHANGED rphase ELSE RQ!Add(last + n)
    BY DEF AddRender
  <1>2. CASE n = 0  BY <1>1, <1>2
  <1>3. CASE n # 0
    <2>1. rphase' = [i \in RIds |-> IF rphase[i] = "absent" /\ i <= last + n
                                    THEN "queued" ELSE rphase[i]]
      BY <1>1, <1>3 DEF RQ!Add
    <2>2. last + n \in RIds /\ last < last + n /\ last + n <= last + n
      BY <1>1, <1>3, PipelineAssumption DEF RIds
    <2>3. rphase'[last + n] = "queued" /\ rjob'[last + n] = j
      BY <1>1, <2>1, <2>2
    <2>4. \A i \in RIds : rphase[i] = "queued" => rphase'[i] = "queued"
      BY <2>1
    <2> QED  BY <2>2, <2>3, <2>4
  <1> QED  BY <1>2, <1>3

LEMMA AddDistQueues ==
  ASSUME Held, NEW n \in 0..2, NEW j \in Jobs, AddDist(n, j)
  PROVE  /\ \A i \in DIds : dphase[i] = "queued" => dphase'[i] = "queued"
         /\ n # 0 => \E i \in DIds : dphase'[i] = "queued" /\ djob'[i] = j
  <1>1. PICK last \in 0..MaxDist :
          /\ \A i \in DIds : dphase[i] = "absent" <=> last < i
          /\ last + n <= MaxDist
          /\ djob' = [i \in DIds |-> IF last < i /\ i <= last + n THEN j ELSE djob[i]]
          /\ IF n = 0 THEN UNCHANGED dphase ELSE DQ!Add(last + n)
    BY DEF AddDist
  <1>2. CASE n = 0  BY <1>1, <1>2
  <1>3. CASE n # 0
    <2>1. dphase' = [i \in DIds |-> IF dphase[i] = "absent" /\ i <= last + n
                                    THEN "queued" ELSE dphase[i]]
      BY <1>1, <1>3 DEF DQ!Add
    <2>2. last + n \in DIds /\ last < last + n /\ last + n <= last + n
      BY <1>1, <1>3, PipelineAssumption DEF DIds
    <2>3. dphase'[last + n] = "queued" /\ djob'[last + n] = j
      BY <1>1, <2>1, <2>2
    <2>4. \A i \in DIds : dphase[i] = "queued" => dphase'[i] = "queued"
      BY <2>1
    <2> QED  BY <2>2, <2>3, <2>4
  <1> QED  BY <1>2, <1>3

\* A worker that was told to stop is busy.
BusyStopping ==
  /\ \A w \in Renderers : w \in stopping => rpc[w] # "idle"
  /\ \A v \in Distributors : v \in stopping => dpc[v] # "idle"

LEMMA BusyStoppingNext ==
  ASSUME Held, BusyStopping, [Next]_vars
  PROVE  BusyStopping'
  <1>0. /\ Held /\ RKept /\ DKept /\ HandlerType /\ JobType /\ RQueueType
        /\ DQueueType /\ BusyStopping
    BY KeptNext DEF Held, TypeOK
  <1> USE DEF apiVars, rowVars, rqVars, dqVars, rVars, dVars, fileVars, envVars,
              HandlerType, JobType, RQueueType, DQueueType, AtWork
  <1>1. ASSUME NEW j \in Jobs, Insert(j)
        PROVE  BusyStopping'
    BY <1>0, <1>1 DEF Insert, BusyStopping
  <1>2. ASSUME NEW j \in Jobs, AbandonRequest(j)
        PROVE  BusyStopping'
    BY <1>0, <1>2 DEF AbandonRequest, BusyStopping
  <1>3. ASSUME NEW j \in Jobs, NEW n \in 0..2, NEW ok \in BOOLEAN, Dispatch(j, n, ok)
        PROVE  BusyStopping'
    BY <1>0, <1>3 DEF Dispatch, BusyStopping
  <1>4. ASSUME NEW w \in Renderers, RTake(w)
        PROVE  BusyStopping'
    BY <1>0, <1>4 DEF RTake, RGoto, BusyStopping
  <1>5. ASSUME NEW w \in Renderers, RTakeLost(w)
        PROVE  BusyStopping'
    BY <1>0, <1>5 DEF RTakeLost, BusyStopping
  <1>6. ASSUME NEW w \in Renderers, RBegin(w)
        PROVE  BusyStopping'
    BY <1>0, <1>6 DEF RBegin, RGoto, BusyStopping
  <1>7. ASSUME NEW w \in Renderers, RMkdir(w)
        PROVE  BusyStopping'
    BY <1>0, <1>7 DEF RMkdir, RGoto, BusyStopping
  <1>8. ASSUME NEW w \in Renderers, RMkdirFails(w)
        PROVE  BusyStopping'
    BY <1>0, <1>8 DEF RMkdirFails, RGoto, BusyStopping
  <1>9. ASSUME NEW w \in Renderers, REncode(w)
        PROVE  BusyStopping'
    BY <1>0, <1>9 DEF REncode, RGoto, BusyStopping
  <1>10. ASSUME NEW w \in Renderers, RGenerated(w)
        PROVE  BusyStopping'
    BY <1>0, <1>10 DEF RGenerated, RGoto, BusyStopping
  <1>11. ASSUME NEW w \in Renderers, RGenerateFails(w)
        PROVE  BusyStopping'
    BY <1>0, <1>11 DEF RGenerateFails, RGoto, AfterRenderError, BusyStopping
  <1>12. ASSUME NEW w \in Renderers, NEW n \in 0..2, NEW ok \in BOOLEAN, REmit(w, n, ok)
        PROVE  BusyStopping'
    BY <1>0, <1>12, PipelineAssumption DEF REmit, StoppedEmitting, RGoto, BusyStopping
  <1>13. ASSUME NEW w \in Renderers, RFail(w)
        PROVE  BusyStopping'
    BY <1>0, <1>13 DEF RFail, RGoto, BusyStopping
  <1>14. ASSUME NEW w \in Renderers, NEW fate \in RQ!Fates \cup {"held"}, RReturn(w, fate)
        PROVE  BusyStopping'
    BY <1>0, <1>14, PipelineAssumption DEF RReturn, RRelease, RGoto, BusyStopping
  <1>15. ASSUME NEW w \in Renderers, RCrash(w)
        PROVE  BusyStopping'
    BY <1>0, <1>15, PipelineAssumption DEF RCrash, RRelease, RGoto, BusyStopping
  <1>16. ASSUME NEW w \in Renderers, Stop(w)
        PROVE  BusyStopping'
    BY <1>0, <1>16, PipelineAssumption DEF Stop, BusyStopping
  <1>17. ASSUME NEW v \in Distributors, DTake(v)
        PROVE  BusyStopping'
    BY <1>0, <1>17 DEF DTake, DGoto, BusyStopping
  <1>18. ASSUME NEW v \in Distributors, DTakeLost(v)
        PROVE  BusyStopping'
    BY <1>0, <1>18 DEF DTakeLost, BusyStopping
  <1>19. ASSUME NEW v \in Distributors, NEW d \in Targets,
               NEW got \in SUBSET {"whole", "broken"}, NEW ok \in BOOLEAN, DSend(v, d, got, ok)
        PROVE  BusyStopping'
    BY <1>0, <1>19 DEF DSend, BusyStopping
  <1>20. ASSUME NEW v \in Distributors, DStatus(v)
        PROVE  BusyStopping'
    BY <1>0, <1>20 DEF DStatus, DGoto, BusyStopping
  <1>21. ASSUME NEW v \in Distributors, DCleanup(v)
        PROVE  BusyStopping'
    BY <1>0, <1>21 DEF DCleanup, DGoto, BusyStopping
  <1>22. ASSUME NEW v \in Distributors, NEW fate \in DQ!Fates \cup {"held"}, DReturn(v, fate)
        PROVE  BusyStopping'
    BY <1>0, <1>22, PipelineAssumption DEF DReturn, DRelease, DGoto, BusyStopping
  <1>23. ASSUME NEW v \in Distributors, DCrash(v)
        PROVE  BusyStopping'
    BY <1>0, <1>23, PipelineAssumption DEF DCrash, DRelease, DGoto, BusyStopping
  <1>24. ASSUME NEW v \in Distributors, Stop(v)
        PROVE  BusyStopping'
    BY <1>0, <1>24, PipelineAssumption DEF Stop, BusyStopping
  <1>25. ASSUME NEW i \in RIds, ReplayRender(i)
        PROVE  BusyStopping'
    BY <1>0, <1>25 DEF ReplayRender, BusyStopping
  <1>26. ASSUME NEW i \in DIds, ReplayDist(i)
        PROVE  BusyStopping'
    BY <1>0, <1>26 DEF ReplayDist, BusyStopping
  <1>27. CASE UNCHANGED vars
    BY <1>0, <1>27 DEF vars, BusyStopping
  <1> QED
    BY <1>1, <1>2, <1>3, <1>4, <1>5, <1>6, <1>7, <1>8, <1>9, <1>10, <1>11, <1>12,
       <1>13, <1>14, <1>15, <1>16, <1>17, <1>18, <1>19, <1>20, <1>21, <1>22, <1>23,
       <1>24, <1>25, <1>26, <1>27
       DEF Next, RequestSteps, RendererSteps, DistributorSteps

(***************************************************************************)
(* Jobs without an end.                                                    *)
(***************************************************************************)

\* Somebody has the job who will write a status for it, unless a fault or a
\* shutdown comes between.
Tended(j) ==
  \/ api[j] = "inserted"
  \/ \E i \in RIds : rphase[i] = "queued" /\ rjob[i] = j
  \/ \E w \in Renderers \ stopping : rpc[w] \in AtWork \cup {"failed"} /\ RJob(w) = j
  \/ \E i \in DIds : dphase[i] = "queued" /\ djob[i] = j
  \/ \E v \in Distributors \ stopping : dpc[v] = "send" /\ DJob(v) = j

Neglected == {j \in Jobs : api[j] # "none" /\ status[j] \notin Terminal /\ ~Tended(j)}

NeglectBound ==
  IsFiniteSet(Neglected) /\ Cardinality(Neglected) <= faults + stops

\* Each job a step loses is paid for with a fault or a shutdown.
NeglectStep ==
  \/ Neglected' \subseteq Neglected /\ faults' + stops' >= faults + stops
  \/ \E x \in Jobs : /\ Neglected' \subseteq Neglected \cup {x}
                     /\ faults' + stops' = faults + stops + 1

\* What such steps keep.
LEMMA NeglectCount ==
  ASSUME NeglectBound, EnvType, EnvType', NeglectStep
  PROVE  NeglectBound'
  <1>1. faults + stops \in Nat /\ faults' + stops' \in Nat
    <2>1. faults \in Nat /\ stops \in Nat  BY CountsAre
    <2>2. faults' \in Nat /\ stops' \in Nat  BY CountsBecome
    <2> QED  BY <2>1, <2>2, SumsAre
  <1>2. PICK d \in {0, 1} : /\ IsFiniteSet(Neglected')
                            /\ Cardinality(Neglected') <= Cardinality(Neglected) + d
                            /\ faults + stops + d <= faults' + stops'
    <2>1. CASE Neglected' \subseteq Neglected /\ faults' + stops' >= faults + stops
      <3>1. /\ IsFiniteSet(Neglected') /\ Cardinality(Neglected') <= Cardinality(Neglected)
            /\ Cardinality(Neglected) \in Nat
        BY <2>1, FS_Subset, FS_CardinalityType DEF NeglectBound
      <3>2. faults + stops + 0 <= faults' + stops'  BY <1>1, <2>1
      <3>3. Cardinality(Neglected') <= Cardinality(Neglected) + 0  BY <3>1
      <3> QED  BY <3>1, <3>2, <3>3
    <2>2. ASSUME NEW x \in Jobs, Neglected' \subseteq Neglected \cup {x},
                 faults' + stops' = faults + stops + 1
          PROVE  /\ IsFiniteSet(Neglected')
                 /\ Cardinality(Neglected') <= Cardinality(Neglected) + 1
                 /\ faults + stops + 1 <= faults' + stops'
      <3>1. /\ IsFiniteSet(Neglected')
            /\ Cardinality(Neglected') <= Cardinality(Neglected) + 1
        BY <2>2, OneMore DEF NeglectBound
      <3>2. faults + stops + 1 <= faults' + stops'  BY <1>1, <2>2
      <3> QED  BY <3>1, <3>2
    <2> QED  BY <2>1, <2>2 DEF NeglectStep
  <1>3. Cardinality(Neglected') \in Nat /\ Cardinality(Neglected) \in Nat
    BY <1>2, FS_CardinalityType DEF NeglectBound
  <1>4. Cardinality(Neglected) <= faults + stops  BY DEF NeglectBound
  <1>5. Cardinality(Neglected') <= faults' + stops'
    BY <1>1, <1>2, <1>3, <1>4, Paid
  <1> QED  BY <1>2, <1>5 DEF NeglectBound

\* A step that lets go of no job but x.
LetsGo(x) ==
  \A j \in Jobs \ {x} :
    /\ api[j] = "none" => (api'[j] = "none" \/ Tended(j)')
    /\ status[j] \in Terminal => (status'[j] \in Terminal \/ Tended(j)')
    /\ api[j] = "inserted" => (api'[j] = "inserted" \/ Tended(j)')
    /\ \A i \in RIds : rphase[i] = "queued" /\ rjob[i] = j =>
         (rphase'[i] = "queued" \/ Tended(j)')
    /\ \A w \in Renderers \ stopping : rpc[w] \in AtWork \cup {"failed"} /\ RJob(w) = j =>
         \/ w \notin stopping' /\ rpc'[w] \in AtWork \cup {"failed"} /\ rcur'[w] = rcur[w]
         \/ status'[j] \in Terminal
         \/ Tended(j)'
    /\ \A i \in DIds : dphase[i] = "queued" /\ djob[i] = j =>
         (dphase'[i] = "queued" \/ Tended(j)')
    /\ \A v \in Distributors \ stopping : dpc[v] = "send" /\ DJob(v) = j =>
         \/ v \notin stopping' /\ dpc'[v] = "send" /\ dcur'[v] = dcur[v]
         \/ status'[j] \in Terminal
         \/ Tended(j)'

LEMMA LetGo ==
  ASSUME Held, RKept, DKept, NEW x, LetsGo(x)
  PROVE  Neglected' \subseteq Neglected \cup {x}
  <1> SUFFICES ASSUME NEW j \in Jobs, j \in Neglected', j # x
               PROVE  j \in Neglected
    BY DEF Neglected
  <1>1. api'[j] # "none" /\ status'[j] \notin Terminal /\ ~Tended(j)'
    BY DEF Neglected, Terminal
  <1>2. api[j] # "none" /\ status[j] \notin Terminal
    BY <1>1 DEF LetsGo
  <1>3. api[j] # "inserted"
    BY <1>1 DEF LetsGo, Tended
  <1>4. ~ \E i \in RIds : rphase[i] = "queued" /\ rjob[i] = j
    BY <1>1 DEF LetsGo, Tended, RKept
  <1>5. ~ \E i \in DIds : dphase[i] = "queued" /\ djob[i] = j
    BY <1>1 DEF LetsGo, Tended, DKept
  <1>6. ASSUME NEW w \in Renderers \ stopping, rpc[w] \in AtWork \cup {"failed"}, RJob(w) = j
        PROVE  FALSE
    <2>1. w \notin stopping' /\ rpc'[w] \in AtWork \cup {"failed"} /\ rcur'[w] = rcur[w]
      BY <1>1, <1>6 DEF LetsGo
    <2>2. RJob(w)' = j  BY <1>6, <2>1, RJobKept DEF AtWork
    <2> QED  BY <1>1, <2>1, <2>2 DEF Tended
  <1>7. ASSUME NEW v \in Distributors \ stopping, dpc[v] = "send", DJob(v) = j
        PROVE  FALSE
    <2>1. v \notin stopping' /\ dpc'[v] = "send" /\ dcur'[v] = dcur[v]
      BY <1>1, <1>7 DEF LetsGo
    <2>2. DJob(v)' = j  BY <1>7, <2>1, DJobKept
    <2> QED  BY <1>1, <2>1, <2>2 DEF Tended
  <1> QED  BY <1>2, <1>3, <1>4, <1>5, <1>6, <1>7 DEF Neglected, Tended

LEMMA NoneLost ==
  ASSUME Held, RKept, DKept, LetsGo(NoJob),
         \/ faults' = faults /\ stops' = stops
         \/ faults' = faults + 1 /\ stops' = stops
         \/ faults' = faults /\ stops' = stops + 1
  PROVE  NeglectStep
  <1>1. Neglected' \subseteq Neglected \cup {NoJob}  BY LetGo
  <1>2. Neglected' \subseteq Neglected
    BY <1>1, PipelineAssumption DEF Neglected
  <1>3. faults' + stops' >= faults + stops
    BY PipelineAssumption DEF Held, TypeOK, EnvType
  <1> QED  BY <1>2, <1>3 DEF NeglectStep

LEMMA OneLost ==
  ASSUME Held, RKept, DKept, NEW x \in Jobs, LetsGo(x),
         \/ faults' = faults + 1 /\ stops' = stops
         \/ faults' = faults /\ stops' = stops + 1
  PROVE  NeglectStep
  <1>1. Neglected' \subseteq Neglected \cup {x}  BY LetGo
  <1>2. faults' + stops' = faults + stops + 1
    BY PipelineAssumption DEF Held, TypeOK, EnvType
  <1> QED  BY <1>1, <1>2 DEF NeglectStep

\* Every step of the pipeline is such a step.
LEMMA NeglectNext ==
  ASSUME Held, BusyStopping, [Next]_vars
  PROVE  NeglectStep
  <1>0. /\ Held /\ RKept /\ DKept /\ HandlerType /\ JobType /\ RQueueType
        /\ DQueueType /\ BusyStopping
    BY KeptNext DEF Held, TypeOK
  <1> USE DEF apiVars, rowVars, rqVars, dqVars, rVars, dVars, fileVars, envVars,
              HandlerType, JobType, RQueueType, DQueueType, AtWork, Terminal
  <1>1. ASSUME NEW j \in Jobs, Insert(j)
        PROVE  NeglectStep
    <2>1. Tended(j)'  BY <1>0, <1>1 DEF Insert, Tended
    <2>2. LetsGo(NoJob)  BY <1>0, <1>1, <2>1 DEF Insert, LetsGo
    <2> QED  BY <1>0, <1>1, <2>2, NoneLost DEF Insert
  <1>2. ASSUME NEW j \in Jobs, AbandonRequest(j)
        PROVE  NeglectStep
    <2>1. LetsGo(j)  BY <1>0, <1>2 DEF AbandonRequest, LetsGo
    <2> QED  BY <1>0, <1>2, <2>1, OneLost DEF AbandonRequest, Fault
  <1>3. ASSUME NEW j \in Jobs, NEW n \in 0..2, NEW ok \in BOOLEAN, Dispatch(j, n, ok)
        PROVE  NeglectStep
    <2>1. AddRender(n, j)  BY <1>3 DEF Dispatch
    <2>2. \A i \in RIds : rphase[i] = "queued" => rphase'[i] = "queued"
      BY <1>0, <2>1, AddRenderQueues
    <2>3. CASE n = 0
      <3>1. LetsGo(j)  BY <1>0, <1>3, <2>2 DEF Dispatch, LetsGo
      <3> QED  BY <1>0, <1>3, <2>3, <3>1, OneLost DEF Dispatch, XAddEnds, XAddCutOff, Fault
    <2>4. CASE n # 0
      <3>1. Tended(j)'  BY <1>0, <2>1, <2>4, AddRenderQueues DEF Tended
      <3>2. LetsGo(NoJob)  BY <1>0, <1>3, <2>2, <3>1 DEF Dispatch, LetsGo
      <3> QED  BY <1>0, <1>3, <2>4, <3>2, NoneLost
               DEF Dispatch, XAddEnds, XAddCutOff, NoFault, LostReply
    <2> QED  BY <2>3, <2>4
  <1>4. ASSUME NEW w \in Renderers, RTake(w)
        PROVE  NeglectStep
    <2>1. PICK i \in RIds : RQ!Take(i) /\ rcur' = [rcur EXCEPT ![w] = i]
      BY <1>4 DEF RTake, RTakes
    <2>2. \A k \in RIds : rphase[k] = "queued" => (rphase'[k] = "queued" \/ k = i)
      BY <1>0, <2>1 DEF RQ!Take
    <2>3. rcur'[w] = i /\ rpc'[w] = "begin" /\ w \notin stopping'
      BY <1>0, <1>4, <2>1 DEF RTake, RGoto, BusyStopping
    <2>4. \A j \in Jobs : rjob[i] = j => Tended(j)'
      BY <2>3, <1>4 DEF Tended, RJob, RTake
    <2>5. LetsGo(NoJob)
      BY <1>0, <1>4, <2>1, <2>2, <2>4 DEF RTake, RGoto, LetsGo
    <2> QED  BY <1>0, <1>4, <2>5, NoneLost DEF RTake
  <1>5. ASSUME NEW w \in Renderers, RTakeLost(w)
        PROVE  NeglectStep
    <2>1. PICK i \in RIds : RQ!Take(i)
      BY <1>5 DEF RTakeLost
    <2>2. \A k \in RIds : rphase[k] = "queued" => (rphase'[k] = "queued" \/ k = i)
      BY <1>0, <2>1 DEF RQ!Take
    <2>3. PICK x \in Jobs : x = rjob[i]
      BY <1>0, <2>1 DEF RQ!Take, Held, EntriesHaveJobs
    <2>4. LetsGo(x)
      BY <1>0, <1>5, <2>2, <2>3 DEF RTakeLost, LetsGo
    <2> QED  BY <1>0, <1>5, <2>4, TakeLostCounts, OneLost DEF RTakeLost
  <1>6. ASSUME NEW w \in Renderers, RBegin(w)
        PROVE  NeglectStep
    <2>1. rpc[w] # "idle" /\ rcur'[w] = rcur[w]  BY <1>6 DEF RBegin
    <2>2. RJob(w) \in Jobs /\ RJob(w)' = RJob(w)  BY <1>0, <2>1, RJobKept
    <2>3. w \notin stopping => Tended(RJob(w))'
      BY <1>0, <1>6, <2>2 DEF RBegin, RGoto, Tended
    <2>4. \A j \in Jobs : w \notin stopping /\ j = RJob(w) => Tended(j)'
      BY <2>2, <2>3
    <2>5. \A j \in Jobs : w \in stopping \/ j # RJob(w) => status'[j] = status[j]
      BY <1>0, <1>6 DEF RBegin, SetJobStatus, UpdateSucceeds
    <2>6. LetsGo(NoJob)
      BY <1>0, <1>6, <2>4, <2>5 DEF RBegin, RGoto, LetsGo
    <2> QED  BY <1>0, <1>6, <2>6, StatusCounts, NoneLost DEF RBegin
  <1>7. ASSUME NEW w \in Renderers, RMkdir(w)
        PROVE  NeglectStep
    <2>1. LetsGo(NoJob)  BY <1>0, <1>7 DEF RMkdir, RGoto, LetsGo
    <2> QED  BY <1>0, <1>7, <2>1, NoneLost DEF RMkdir
  <1>8. ASSUME NEW w \in Renderers, RMkdirFails(w)
        PROVE  NeglectStep
    <2>1. LetsGo(NoJob)  BY <1>0, <1>8 DEF RMkdirFails, RGoto, LetsGo
    <2> QED  BY <1>0, <1>8, <2>1, NoneLost DEF RMkdirFails, Fault
  <1>9. ASSUME NEW w \in Renderers, REncode(w)
        PROVE  NeglectStep
    <2>1. LetsGo(NoJob)  BY <1>0, <1>9 DEF REncode, RGoto, LetsGo
    <2> QED  BY <1>0, <1>9, <2>1, NoneLost DEF REncode
  <1>10. ASSUME NEW w \in Renderers, RGenerated(w)
        PROVE  NeglectStep
    <2>1. LetsGo(NoJob)  BY <1>0, <1>10 DEF RGenerated, RGoto, LetsGo
    <2> QED  BY <1>0, <1>10, <2>1, NoneLost DEF RGenerated
  <1>11. ASSUME NEW w \in Renderers, RGenerateFails(w)
        PROVE  NeglectStep
    <2>1. LetsGo(NoJob)  BY <1>0, <1>11 DEF RGenerateFails, RGoto, LetsGo, AfterRenderError
    <2> QED  BY <1>0, <1>11, <2>1, NoneLost DEF RGenerateFails, NoFault, Fault
  <1>12. ASSUME NEW w \in Renderers, NEW n \in 0..2, NEW ok \in BOOLEAN, REmit(w, n, ok)
        PROVE  NeglectStep
    <2>1. rpc[w] # "idle" /\ rcur'[w] = rcur[w]  BY <1>12 DEF REmit, EmitsAt
    <2>2. RJob(w) \in Jobs /\ RJob(w)' = RJob(w)  BY <1>0, <2>1, RJobKept
    <2>3. \A i \in DIds : dphase[i] = "queued" => dphase'[i] = "queued"
      BY <1>0, <1>12, <2>2, AddDistQueues DEF REmit
    <2>4. ok => n # 0  BY <1>12 DEF REmit, StoppedEmitting, XAddCutOff, XAddEnds
    <2>5. n # 0 => Tended(RJob(w))'
      <3>1. n # 0 => \E i \in DIds : dphase'[i] = "queued" /\ djob'[i] = RJob(w)
        BY <1>0, <1>12, <2>2, AddDistQueues DEF REmit
      <3> QED  BY <2>2, <3>1 DEF Tended
    <2>6. \A j \in Jobs : n # 0 /\ j = RJob(w) => Tended(j)'
      BY <2>2, <2>5
    <2>7. stopping' = stopping \/ (n # 0 /\ stopping' = stopping \cup {w})
      BY <1>12 DEF REmit, StoppedEmitting, XAddCutOff
    <2>8. w \notin Distributors  BY PipelineAssumption
    <2>9. LetsGo(NoJob)
      BY <1>0, <1>12, <2>3, <2>4, <2>6, <2>7, <2>8 DEF REmit, RGoto, LetsGo
    <2> QED  BY <1>0, <1>12, <2>9, NoneLost
             DEF REmit, StoppedEmitting, XAddCutOff, XAddEnds, NoFault, LostReply,
                 Fault
  <1>13. ASSUME NEW w \in Renderers, RFail(w)
        PROVE  NeglectStep
    <2>1. rpc[w] # "idle" /\ rcur'[w] = rcur[w]  BY <1>13 DEF RFail
    <2>2. RJob(w) \in Jobs /\ RJob(w)' = RJob(w)  BY <1>0, <2>1, RJobKept
    <2>3. CASE UpdateSucceeds(w) /\ status' = [status EXCEPT ![RJob(w)] = "failed"]
      <3>1. \A j \in Jobs : status'[j] = IF j = RJob(w) THEN "failed" ELSE status[j]
        BY <1>0, <2>3
      <3>2. LetsGo(NoJob)  BY <1>0, <1>13, <3>1 DEF RFail, RGoto, LetsGo
      <3> QED  BY <1>0, <1>13, <2>3, <3>2, NoneLost DEF RFail, UpdateSucceeds, NoFault
    <2>4. CASE UpdateFails(w) /\ UNCHANGED status
      <3>1. CASE w \in stopping
        <4>1. LetsGo(NoJob)  BY <1>0, <1>13, <2>4, <3>1 DEF RFail, RGoto, LetsGo
        <4> QED  BY <1>0, <1>13, <2>4, <3>1, <4>1, NoneLost DEF RFail, UpdateFails, NoFault
      <3>2. CASE w \notin stopping
        <4>1. PICK x \in Jobs : x = RJob(w)  BY <2>2
        <4>2. LetsGo(x)  BY <1>0, <1>13, <2>4, <4>1 DEF RFail, RGoto, LetsGo
        <4> QED  BY <1>0, <1>13, <2>4, <3>2, <4>2, OneLost DEF RFail, UpdateFails, Fault
      <3> QED  BY <3>1, <3>2
    <2> QED  BY <1>13, <2>3, <2>4 DEF RFail, SetJobStatus
  <1>14. ASSUME NEW w \in Renderers, NEW fate \in RQ!Fates \cup {"held"}, RReturn(w, fate)
        PROVE  NeglectStep
    <2>1. \A i \in RIds : rphase[i] = "queued" => rphase'[i] = "queued"
      BY <1>0, <1>14 DEF RReturn, RQ!Settle
    <2>2. LetsGo(NoJob)
      BY <1>0, <1>14, <2>1 DEF RReturn, RRelease, RGoto, LetsGo
    <2> QED  BY <1>0, <1>14, <2>2, NoneLost
             DEF RReturn, RRelease, SettlesAs, NoFault, Fault
  <1>15. ASSUME NEW w \in Renderers, RCrash(w)
        PROVE  NeglectStep
    <2>1. RJob(w) \in Jobs
      BY <1>0, <1>15 DEF RCrash, RJob, Held, HandlersHaveEntries, EntriesHaveJobs
    <2>2. PICK x \in Jobs : x = RJob(w)  BY <2>1
    <2>3. LetsGo(x)
      BY <1>0, <1>15, <2>2 DEF RCrash, RRelease, RGoto, LetsGo
    <2> QED  BY <1>0, <1>15, <2>3, OneLost DEF RCrash, Fault
  <1>16. ASSUME NEW w \in Renderers, Stop(w)
        PROVE  NeglectStep
    <2>1. PICK x \in Jobs : x = RJob(w)
      BY <1>0, <1>16, PipelineAssumption
         DEF Stop, RJob, Held, HandlersHaveEntries, EntriesHaveJobs
    <2>2. \A v \in Distributors : v # w  BY PipelineAssumption
    <2>3. LetsGo(x)
      BY <1>0, <1>16, <2>1, <2>2 DEF Stop, LetsGo
    <2> QED  BY <1>0, <1>16, <2>3, OneLost DEF Stop
  <1>17. ASSUME NEW v \in Distributors, DTake(v)
        PROVE  NeglectStep
    <2>1. PICK i \in DIds : DQ!Take(i) /\ dcur' = [dcur EXCEPT ![v] = i]
      BY <1>17 DEF DTake
    <2>2. \A k \in DIds : dphase[k] = "queued" => (dphase'[k] = "queued" \/ k = i)
      BY <1>0, <2>1 DEF DQ!Take
    <2>3. dcur'[v] = i /\ dpc'[v] = "send" /\ v \notin stopping'
      BY <1>0, <1>17, <2>1 DEF DTake, DGoto, BusyStopping
    <2>4. \A j \in Jobs : djob[i] = j => Tended(j)'
      BY <2>3, <1>17 DEF Tended, DJob, DTake
    <2>5. LetsGo(NoJob)
      BY <1>0, <1>17, <2>1, <2>2, <2>4 DEF DTake, DGoto, LetsGo
    <2> QED  BY <1>0, <1>17, <2>5, NoneLost DEF DTake
  <1>18. ASSUME NEW v \in Distributors, DTakeLost(v)
        PROVE  NeglectStep
    <2>1. PICK i \in DIds : DQ!Take(i)
      BY <1>18 DEF DTakeLost
    <2>2. \A k \in DIds : dphase[k] = "queued" => (dphase'[k] = "queued" \/ k = i)
      BY <1>0, <2>1 DEF DQ!Take
    <2>3. PICK x \in Jobs : x = djob[i]
      BY <1>0, <2>1 DEF DQ!Take, Held, EntriesHaveJobs
    <2>4. LetsGo(x)
      BY <1>0, <1>18, <2>2, <2>3 DEF DTakeLost, LetsGo
    <2> QED  BY <1>0, <1>18, <2>4, TakeLostCounts, OneLost DEF DTakeLost
  <1>19. ASSUME NEW v \in Distributors, NEW d \in Targets,
               NEW got \in SUBSET {"whole", "broken"}, NEW ok \in BOOLEAN, DSend(v, d, got, ok)
        PROVE  NeglectStep
    <2>1. LetsGo(NoJob)  BY <1>0, <1>19 DEF DSend, LetsGo
    <2> QED  BY <1>0, <1>19, <2>1, NoneLost DEF DSend
  <1>20. ASSUME NEW v \in Distributors, DStatus(v)
        PROVE  NeglectStep
    <2>1. dpc[v] # "idle" /\ dcur'[v] = dcur[v]  BY <1>20 DEF DStatus
    <2>2. DJob(v) \in Jobs /\ DJob(v)' = DJob(v)  BY <1>0, <2>1, DJobKept
    <2>3. CASE UpdateSucceeds(v) /\ status' = [status EXCEPT ![DJob(v)] = FinalStatus(v)]
      <3>1. \A j \in Jobs : status'[j] = IF j = DJob(v) THEN FinalStatus(v) ELSE status[j]
        BY <1>0, <2>3
      <3>2. FinalStatus(v) \in Terminal  BY DEF FinalStatus
      <3>3. LetsGo(NoJob)  BY <1>0, <1>20, <3>1, <3>2 DEF DStatus, DGoto, LetsGo
      <3> QED  BY <1>0, <1>20, <2>3, <3>3, NoneLost DEF DStatus, UpdateSucceeds, NoFault
    <2>4. CASE UpdateFails(v) /\ UNCHANGED status
      <3>1. CASE v \in stopping
        <4>1. LetsGo(NoJob)  BY <1>0, <1>20, <2>4, <3>1 DEF DStatus, DGoto, LetsGo
        <4> QED  BY <1>0, <1>20, <2>4, <3>1, <4>1, NoneLost DEF DStatus, UpdateFails, NoFault
      <3>2. CASE v \notin stopping
        <4>1. PICK x \in Jobs : x = DJob(v)  BY <2>2
        <4>2. LetsGo(x)  BY <1>0, <1>20, <2>4, <4>1 DEF DStatus, DGoto, LetsGo
        <4> QED  BY <1>0, <1>20, <2>4, <3>2, <4>2, OneLost DEF DStatus, UpdateFails, Fault
      <3> QED  BY <3>1, <3>2
    <2> QED  BY <1>20, <2>3, <2>4 DEF DStatus, SetJobStatus
  <1>21. ASSUME NEW v \in Distributors, DCleanup(v)
        PROVE  NeglectStep
    <2>1. LetsGo(NoJob)  BY <1>0, <1>21 DEF DCleanup, DGoto, LetsGo
    <2> QED  BY <1>0, <1>21, <2>1, NoneLost DEF DCleanup, NoFault, Fault
  <1>22. ASSUME NEW v \in Distributors, NEW fate \in DQ!Fates \cup {"held"}, DReturn(v, fate)
        PROVE  NeglectStep
    <2>1. \A i \in DIds : dphase[i] = "queued" => dphase'[i] = "queued"
      BY <1>0, <1>22 DEF DReturn, DQ!Settle
    <2>2. LetsGo(NoJob)
      BY <1>0, <1>22, <2>1 DEF DReturn, DRelease, DGoto, LetsGo
    <2> QED  BY <1>0, <1>22, <2>2, NoneLost
             DEF DReturn, DRelease, SettlesAs, NoFault, Fault
  <1>23. ASSUME NEW v \in Distributors, DCrash(v)
        PROVE  NeglectStep
    <2>1. DJob(v) \in Jobs
      BY <1>0, <1>23 DEF DCrash, DJob, Held, HandlersHaveEntries, EntriesHaveJobs
    <2>2. PICK x \in Jobs : x = DJob(v)  BY <2>1
    <2>3. LetsGo(x)
      BY <1>0, <1>23, <2>2 DEF DCrash, DRelease, DGoto, LetsGo
    <2> QED  BY <1>0, <1>23, <2>3, OneLost DEF DCrash, Fault
  <1>24. ASSUME NEW v \in Distributors, Stop(v)
        PROVE  NeglectStep
    <2>1. PICK x \in Jobs : x = DJob(v)
      BY <1>0, <1>24, PipelineAssumption
         DEF Stop, DJob, Held, HandlersHaveEntries, EntriesHaveJobs
    <2>2. \A w \in Renderers : w # v  BY PipelineAssumption
    <2>3. LetsGo(x)
      BY <1>0, <1>24, <2>1, <2>2 DEF Stop, LetsGo
    <2> QED  BY <1>0, <1>24, <2>3, OneLost DEF Stop
  <1>25. ASSUME NEW i \in RIds, ReplayRender(i)
        PROVE  NeglectStep
    <2>1. rjob[i] \in Jobs  BY <1>25 DEF ReplayRender, Held, EntriesHaveJobs
    <2>2. \A k \in RIds : rphase[k] = "queued" => rphase'[k] = "queued"
      BY <1>0, <1>25, <2>1, AddRenderQueues DEF ReplayRender
    <2>3. LetsGo(NoJob)  BY <1>0, <1>25, <2>2 DEF ReplayRender, LetsGo
    <2> QED  BY <1>0, <1>25, <2>3, NoneLost DEF ReplayRender
  <1>26. ASSUME NEW i \in DIds, ReplayDist(i)
        PROVE  NeglectStep
    <2>1. djob[i] \in Jobs  BY <1>26 DEF ReplayDist, Held, EntriesHaveJobs
    <2>2. \A k \in DIds : dphase[k] = "queued" => dphase'[k] = "queued"
      BY <1>0, <1>26, <2>1, AddDistQueues DEF ReplayDist
    <2>3. LetsGo(NoJob)  BY <1>0, <1>26, <2>2 DEF ReplayDist, LetsGo
    <2> QED  BY <1>0, <1>26, <2>3, NoneLost DEF ReplayDist
  <1>27. CASE UNCHANGED vars
    <2>1. LetsGo(NoJob)  BY <1>27 DEF vars, LetsGo
    <2> QED  BY <1>0, <1>27, <2>1, NoneLost DEF vars
  <1> QED
    BY <1>1, <1>2, <1>3, <1>4, <1>5, <1>6, <1>7, <1>8, <1>9, <1>10, <1>11, <1>12, <1>13,
       <1>14, <1>15, <1>16, <1>17, <1>18, <1>19, <1>20, <1>21, <1>22, <1>23, <1>24, <1>25,
       <1>26, <1>27
       DEF Next, RequestSteps, RendererSteps, DistributorSteps

(***************************************************************************)
(* Work directories.                                                       *)
(***************************************************************************)

\* Somebody has the job who will clean its work directory away.
Covered(j) ==
  \/ \E w \in Renderers : rpc[w] \in AtWork /\ RJob(w) = j
  \/ \E i \in DIds : dphase[i] = "queued" /\ djob[i] = j
  \/ \E v \in Distributors : dpc[v] \in {"send", "cleanup"} /\ DJob(v) = j

Left == {j \in Jobs : workdir[j] # "none" /\ ~Covered(j)}

\* The renderers that will not be able to hand their job on.
Warned == {w \in Renderers : w \in stopping /\ rpc[w] \in AtWork}

LeftBound ==
  /\ IsFiniteSet(Left) /\ IsFiniteSet(Warned)
  /\ Cardinality(Left) + Cardinality(Warned) <= faults + stops

\* A directory is left for a fault, or for a shutdown that was counted when the
\* renderer was told to stop.
LeftStep ==
  \/ Left' \subseteq Left /\ Warned' \subseteq Warned /\ faults' + stops' >= faults + stops
  \/ \E x \in Jobs : /\ Left' \subseteq Left \cup {x} /\ Warned' \subseteq Warned
                     /\ faults' + stops' = faults + stops + 1
  \/ \E x \in Jobs : /\ Left' \subseteq Left \cup {x}
                     /\ \E w \in Warned : Warned' \subseteq Warned \ {w}
                     /\ faults' + stops' = faults + stops
  \/ \E w \in Renderers : /\ Left' \subseteq Left /\ Warned' \subseteq Warned \cup {w}
                          /\ faults' + stops' = faults + stops + 1

\* What such steps keep.
LEMMA LeftCount ==
  ASSUME LeftBound, EnvType, EnvType', LeftStep
  PROVE  LeftBound'
  <1> DEFINE a == Cardinality(Left)
             b == Cardinality(Warned)
             c == Cardinality(Left')
             d == Cardinality(Warned')
             spent == faults + stops
             more == faults' + stops'
  <1>1. spent \in Nat /\ more \in Nat
    <2>1. faults \in Nat /\ stops \in Nat  BY CountsAre
    <2>2. faults' \in Nat /\ stops' \in Nat  BY CountsBecome
    <2> QED  BY <2>1, <2>2, SumsAre
  <1>2. IsFiniteSet(Left) /\ IsFiniteSet(Warned)  BY DEF LeftBound
  <1>3. /\ IsFiniteSet(Left') /\ IsFiniteSet(Warned')
        /\ a \in Nat /\ b \in Nat /\ c \in Nat /\ d \in Nat
        /\ \/ c <= a /\ d <= b /\ more >= spent
           \/ c <= a + 1 /\ d <= b /\ more = spent + 1
           \/ c <= a + 1 /\ d + 1 <= b /\ more = spent
           \/ c <= a /\ d <= b + 1 /\ more = spent + 1
    <2> HIDE DEF spent, more
    <2>1. CASE Left' \subseteq Left /\ Warned' \subseteq Warned /\ more >= spent
      BY <1>2, <2>1, NoMore
    <2>2. ASSUME NEW x \in Jobs, Left' \subseteq Left \cup {x}, Warned' \subseteq Warned,
                 more = spent + 1
          PROVE  <1>3
      BY <1>2, <2>2, NoMore, OneMore
    <2>3. ASSUME NEW x \in Jobs, Left' \subseteq Left \cup {x},
                 NEW w \in Warned, Warned' \subseteq Warned \ {w}, more = spent
          PROVE  <1>3
      <3>1. IsFiniteSet(Left') /\ a \in Nat /\ c \in Nat /\ c <= a + 1
        BY <1>2, <2>3, OneMore
      <3>2. IsFiniteSet(Warned') /\ b \in Nat /\ d \in Nat /\ d + 1 <= b
        BY <1>2, <2>3, OneLess
      <3> HIDE DEF a, b, c, d
      <3> QED  BY <2>3, <3>1, <3>2
    <2>4. ASSUME NEW w \in Renderers, Left' \subseteq Left, Warned' \subseteq Warned \cup {w},
                 more = spent + 1
          PROVE  <1>3
      BY <1>2, <2>4, NoMore, OneMore
    <2> QED  BY <2>1, <2>2, <2>3, <2>4 DEF LeftStep, spent, more
  <1>4. a + b <= spent  BY DEF LeftBound
  <1>5. c + d <= more
    <2> HIDE DEF a, b, c, d, spent, more
    <2> QED  BY <1>1, <1>3, <1>4, PaidBoth
  <1> QED  BY <1>3, <1>5 DEF LeftBound

\* A step that leaves no directory but that of x.
Leaves(x) ==
  \A j \in Jobs \ {x} :
    /\ workdir[j] = "none" => (workdir'[j] = "none" \/ Covered(j)')
    /\ \A w \in Renderers : rpc[w] \in AtWork /\ RJob(w) = j =>
         \/ rpc'[w] \in AtWork /\ rcur'[w] = rcur[w]
         \/ workdir'[j] = "none"
         \/ Covered(j)'
    /\ \A i \in DIds : dphase[i] = "queued" /\ djob[i] = j =>
         (dphase'[i] = "queued" \/ Covered(j)')
    /\ \A v \in Distributors : dpc[v] \in {"send", "cleanup"} /\ DJob(v) = j =>
         \/ dpc'[v] \in {"send", "cleanup"} /\ dcur'[v] = dcur[v]
         \/ workdir'[j] = "none"
         \/ Covered(j)'

LEMMA LeftBehind ==
  ASSUME Held, RKept, DKept, NEW x, Leaves(x)
  PROVE  Left' \subseteq Left \cup {x}
  <1> SUFFICES ASSUME NEW j \in Jobs, j \in Left', j # x
               PROVE  j \in Left
    BY DEF Left
  <1>1. workdir'[j] # "none" /\ ~Covered(j)'
    BY DEF Left
  <1>2. workdir[j] # "none"
    BY <1>1 DEF Leaves
  <1>3. ~ \E i \in DIds : dphase[i] = "queued" /\ djob[i] = j
    BY <1>1 DEF Leaves, Covered, DKept
  <1>4. ASSUME NEW w \in Renderers, rpc[w] \in AtWork, RJob(w) = j
        PROVE  FALSE
    <2>1. rpc'[w] \in AtWork /\ rcur'[w] = rcur[w]
      BY <1>1, <1>4 DEF Leaves
    <2>2. RJob(w)' = j  BY <1>4, <2>1, RJobKept DEF AtWork
    <2> QED  BY <1>1, <2>1, <2>2 DEF Covered
  <1>5. ASSUME NEW v \in Distributors, dpc[v] \in {"send", "cleanup"}, DJob(v) = j
        PROVE  FALSE
    <2>1. dpc'[v] \in {"send", "cleanup"} /\ dcur'[v] = dcur[v]
      BY <1>1, <1>5 DEF Leaves
    <2>2. DJob(v)' = j  BY <1>5, <2>1, DJobKept
    <2> QED  BY <1>1, <2>1, <2>2 DEF Covered
  <1> QED  BY <1>2, <1>3, <1>4, <1>5 DEF Left, Covered

LEMMA NoneLeft ==
  ASSUME Held, RKept, DKept, Leaves(NoJob), Warned' \subseteq Warned,
         \/ faults' = faults /\ stops' = stops
         \/ faults' = faults + 1 /\ stops' = stops
         \/ faults' = faults /\ stops' = stops + 1
  PROVE  LeftStep
  <1>1. Left' \subseteq Left \cup {NoJob}  BY LeftBehind
  <1>2. Left' \subseteq Left
    BY <1>1, PipelineAssumption DEF Left
  <1>3. faults' + stops' >= faults + stops
    BY PipelineAssumption DEF Held, TypeOK, EnvType
  <1> QED  BY <1>2, <1>3 DEF LeftStep

LEMMA OneLeft ==
  ASSUME Held, RKept, DKept, NEW x \in Jobs, Leaves(x), Warned' \subseteq Warned,
         \/ faults' = faults + 1 /\ stops' = stops
         \/ faults' = faults /\ stops' = stops + 1
  PROVE  LeftStep
  <1>1. Left' \subseteq Left \cup {x}  BY LeftBehind
  <1>2. faults' + stops' = faults + stops + 1
    BY PipelineAssumption DEF Held, TypeOK, EnvType
  <1> QED  BY <1>1, <1>2 DEF LeftStep

\* Every step of the pipeline is such a step.
LEMMA LeftNext ==
  ASSUME Held, BusyStopping, [Next]_vars
  PROVE  LeftStep
  <1>0. /\ Held /\ RKept /\ DKept /\ HandlerType /\ JobType /\ RQueueType
        /\ DQueueType /\ BusyStopping
    BY KeptNext DEF Held, TypeOK
  <1> USE DEF apiVars, rowVars, rqVars, dqVars, rVars, dVars, fileVars, envVars,
              HandlerType, JobType, RQueueType, DQueueType, AtWork
  <1>1. ASSUME NEW j \in Jobs, Insert(j)
        PROVE  LeftStep
    <2>1. Leaves(NoJob)  BY <1>0, <1>1 DEF Insert, Leaves
    <2> QED  BY <1>0, <1>1, <2>1, NoneLeft DEF Insert, Warned
  <1>2. ASSUME NEW j \in Jobs, AbandonRequest(j)
        PROVE  LeftStep
    <2>1. Leaves(NoJob)  BY <1>0, <1>2 DEF AbandonRequest, Leaves
    <2> QED  BY <1>0, <1>2, <2>1, NoneLeft DEF AbandonRequest, Fault, Warned
  <1>3. ASSUME NEW j \in Jobs, NEW n \in 0..2, NEW ok \in BOOLEAN, Dispatch(j, n, ok)
        PROVE  LeftStep
    <2>1. Leaves(NoJob)  BY <1>0, <1>3 DEF Dispatch, Leaves
    <2> QED  BY <1>0, <1>3, <2>1, NoneLeft
             DEF Dispatch, XAddEnds, XAddCutOff, NoFault, LostReply, Fault, Warned
  <1>4. ASSUME NEW w \in Renderers, RTake(w)
        PROVE  LeftStep
    <2>1. Leaves(NoJob)  BY <1>0, <1>4 DEF RTake, RGoto, Leaves
    <2>2. Warned' \subseteq Warned
      BY <1>0, <1>4 DEF RTake, RGoto, Warned, BusyStopping
    <2> QED  BY <1>0, <1>4, <2>1, <2>2, NoneLeft DEF RTake
  <1>5. ASSUME NEW w \in Renderers, RTakeLost(w)
        PROVE  LeftStep
    <2>1. Leaves(NoJob)  BY <1>0, <1>5 DEF RTakeLost, Leaves
    <2> QED  BY <1>0, <1>5, <2>1, TakeLostCounts, NoneLeft DEF RTakeLost, Warned
  <1>6. ASSUME NEW w \in Renderers, RBegin(w)
        PROVE  LeftStep
    <2>1. Leaves(NoJob)  BY <1>0, <1>6 DEF RBegin, RGoto, Leaves
    <2>2. Warned' \subseteq Warned  BY <1>0, <1>6 DEF RBegin, RGoto, Warned
    <2> QED  BY <1>0, <1>6, <2>1, <2>2, StatusCounts, NoneLeft DEF RBegin
  <1>7. ASSUME NEW w \in Renderers, RMkdir(w)
        PROVE  LeftStep
    <2>1. rpc[w] \in AtWork /\ rcur'[w] = rcur[w]  BY <1>7 DEF RMkdir
    <2>2. RJob(w) \in Jobs /\ RJob(w)' = RJob(w)  BY <1>0, <2>1, RJobKept
    <2>3. \A j \in Jobs : j = RJob(w) => Covered(j)'
      BY <1>0, <1>7, <2>2 DEF RMkdir, RGoto, Covered
    <2>4. \A j \in Jobs : j # RJob(w) => workdir'[j] = workdir[j]
      BY <1>0, <1>7 DEF RMkdir
    <2>5. Leaves(NoJob)  BY <1>0, <1>7, <2>3, <2>4 DEF RMkdir, RGoto, Leaves
    <2>6. Warned' \subseteq Warned  BY <1>0, <1>7 DEF RMkdir, RGoto, Warned
    <2> QED  BY <1>0, <1>7, <2>5, <2>6, NoneLeft DEF RMkdir
  <1>8. ASSUME NEW w \in Renderers, REncode(w)
        PROVE  LeftStep
    <2>1. rpc[w] \in AtWork /\ rcur'[w] = rcur[w]  BY <1>8 DEF REncode
    <2>2. RJob(w) \in Jobs /\ RJob(w)' = RJob(w)  BY <1>0, <2>1, RJobKept
    <2>3. \A j \in Jobs : j = RJob(w) => Covered(j)'
      BY <1>0, <1>8, <2>2 DEF REncode, RGoto, Covered
    <2>4. \A j \in Jobs : j # RJob(w) => workdir'[j] = workdir[j]
      BY <1>0, <1>8 DEF REncode
    <2>5. Leaves(NoJob)  BY <1>0, <1>8, <2>3, <2>4 DEF REncode, RGoto, Leaves
    <2>6. Warned' \subseteq Warned  BY <1>0, <1>8 DEF REncode, RGoto, Warned
    <2> QED  BY <1>0, <1>8, <2>5, <2>6, NoneLeft DEF REncode
  <1>9. ASSUME NEW w \in Renderers, RGenerated(w)
        PROVE  LeftStep
    <2>1. rpc[w] \in AtWork /\ rcur'[w] = rcur[w]  BY <1>9 DEF RGenerated
    <2>2. RJob(w) \in Jobs /\ RJob(w)' = RJob(w)  BY <1>0, <2>1, RJobKept
    <2>3. \A j \in Jobs : j = RJob(w) => Covered(j)'
      BY <1>0, <1>9, <2>2 DEF RGenerated, RGoto, Covered
    <2>4. \A j \in Jobs : j # RJob(w) => workdir'[j] = workdir[j]
      BY <1>0, <1>9 DEF RGenerated
    <2>5. Leaves(NoJob)  BY <1>0, <1>9, <2>3, <2>4 DEF RGenerated, RGoto, Leaves
    <2>6. Warned' \subseteq Warned  BY <1>0, <1>9 DEF RGenerated, RGoto, Warned
    <2> QED  BY <1>0, <1>9, <2>5, <2>6, NoneLeft DEF RGenerated
  <1>10. ASSUME NEW w \in Renderers, RMkdirFails(w)
        PROVE  LeftStep
    <2>1. rpc[w] \in AtWork /\ rcur'[w] = rcur[w]  BY <1>10 DEF RMkdirFails
    <2>2. RJob(w) \in Jobs /\ RJob(w)' = RJob(w)  BY <1>0, <2>1, RJobKept
    <2>3. PICK x \in Jobs : x = RJob(w)  BY <2>2
    <2>4. \A j \in Jobs : j # x => workdir'[j] = workdir[j]
      BY <1>0, <1>10, <2>3 DEF RMkdirFails
    <2>5. Leaves(x)  BY <1>0, <1>10, <2>3, <2>4 DEF RMkdirFails, RGoto, Leaves
    <2>6. Warned' \subseteq Warned  BY <1>0, <1>10 DEF RMkdirFails, RGoto, Warned
    <2> QED  BY <1>0, <1>10, <2>5, <2>6, OneLeft DEF RMkdirFails, Fault
  <1>11. ASSUME NEW w \in Renderers, RGenerateFails(w)
        PROVE  LeftStep
    <2>1. rpc[w] \in AtWork /\ rcur'[w] = rcur[w]  BY <1>11 DEF RGenerateFails
    <2>2. RJob(w) \in Jobs /\ RJob(w)' = RJob(w)  BY <1>0, <2>1, RJobKept
    <2>3. Warned' \subseteq Warned
      BY <1>0, <1>11 DEF RGenerateFails, RGoto, AfterRenderError, Warned
    <2>4. CASE workdir' = [workdir EXCEPT ![RJob(w)] = "none"] /\ NoFault
      <3>1. \A j \in Jobs : workdir'[j] = IF j = RJob(w) THEN "none" ELSE workdir[j]
        BY <1>0, <2>4
      <3>2. Leaves(NoJob)  BY <1>0, <1>11, <3>1 DEF RGenerateFails, RGoto, Leaves
      <3> QED  BY <1>0, <1>11, <2>3, <2>4, <3>2, NoneLeft DEF RGenerateFails, NoFault
    <2>5. CASE UNCHANGED workdir /\ Fault
      <3>1. PICK x \in Jobs : x = RJob(w)  BY <2>2
      <3>2. Leaves(x)  BY <1>0, <1>11, <2>5, <3>1 DEF RGenerateFails, RGoto, Leaves
      <3> QED  BY <1>0, <1>11, <2>3, <2>5, <3>2, OneLeft DEF RGenerateFails, Fault
    <2> QED  BY <1>11, <2>4, <2>5 DEF RGenerateFails
  <1>12. ASSUME NEW w \in Renderers, NEW n \in 0..2, NEW ok \in BOOLEAN, REmit(w, n, ok)
        PROVE  LeftStep
    <2>1. rpc[w] \in AtWork /\ rcur'[w] = rcur[w]  BY <1>12 DEF REmit, EmitsAt
    <2>2. RJob(w) \in Jobs /\ RJob(w)' = RJob(w)  BY <1>0, <2>1, RJobKept
    <2>3. \A i \in DIds : dphase[i] = "queued" => dphase'[i] = "queued"
      BY <1>0, <1>12, <2>2, AddDistQueues DEF REmit
    <2>4. Warned' \subseteq Warned /\ w \notin Warned'
      BY <1>0, <1>12 DEF REmit, StoppedEmitting, RGoto, Warned
    <2>5. CASE n # 0
      <3>1. \E i \in DIds : dphase'[i] = "queued" /\ djob'[i] = RJob(w)
        BY <1>0, <1>12, <2>2, <2>5, AddDistQueues DEF REmit
      <3>2. \A j \in Jobs : j = RJob(w) => Covered(j)'
        BY <2>2, <3>1 DEF Covered
      <3>3. Leaves(NoJob)  BY <1>0, <1>12, <2>3, <3>2 DEF REmit, RGoto, Leaves
      <3> QED  BY <1>0, <1>12, <2>4, <2>5, <3>3, NoneLeft
               DEF REmit, StoppedEmitting, XAddCutOff, XAddEnds, NoFault, LostReply, Fault
    <2>6. CASE n = 0
      <3>1. PICK x \in Jobs : x = RJob(w)  BY <2>2
      <3>2. Leaves(x)  BY <1>0, <1>12, <2>3, <3>1 DEF REmit, RGoto, Leaves
      <3>3. CASE w \notin stopping
        BY <1>0, <1>12, <2>4, <2>6, <3>2, <3>3, OneLeft
           DEF REmit, StoppedEmitting, XAddCutOff, XAddEnds, Fault
      <3>4. CASE w \in stopping
        <4>1. w \in Warned /\ Warned' \subseteq Warned \ {w}
          BY <2>1, <2>4, <3>4 DEF Warned
        <4>2. faults' = faults /\ stops' = stops
          BY <1>12, <3>4 DEF REmit, StoppedEmitting, NoFault
        <4>3. faults' + stops' = faults + stops  BY <4>2
        <4>4. Left' \subseteq Left \cup {x}  BY <1>0, <3>2, LeftBehind
        <4> QED  BY <4>1, <4>3, <4>4 DEF LeftStep
      <3> QED  BY <3>3, <3>4
    <2> QED  BY <2>5, <2>6
  <1>13. ASSUME NEW w \in Renderers, RFail(w)
        PROVE  LeftStep
    <2>1. Leaves(NoJob)  BY <1>0, <1>13 DEF RFail, RGoto, Leaves
    <2>2. Warned' \subseteq Warned  BY <1>0, <1>13 DEF RFail, RGoto, Warned
    <2> QED  BY <1>0, <1>13, <2>1, <2>2, StatusCounts, NoneLeft DEF RFail
  <1>14. ASSUME NEW w \in Renderers, NEW fate \in RQ!Fates \cup {"held"}, RReturn(w, fate)
        PROVE  LeftStep
    <2>1. Leaves(NoJob)  BY <1>0, <1>14 DEF RReturn, RRelease, RGoto, Leaves
    <2>2. Warned' \subseteq Warned
      BY <1>0, <1>14 DEF RReturn, RRelease, RGoto, Warned
    <2> QED  BY <1>0, <1>14, <2>1, <2>2, NoneLeft
             DEF RReturn, RRelease, SettlesAs, NoFault, Fault
  <1>15. ASSUME NEW w \in Renderers, RCrash(w)
        PROVE  LeftStep
    <2>1. RJob(w) \in Jobs
      BY <1>0, <1>15 DEF RCrash, RJob, Held, HandlersHaveEntries, EntriesHaveJobs
    <2>2. PICK x \in Jobs : x = RJob(w)  BY <2>1
    <2>3. Leaves(x)  BY <1>0, <1>15, <2>2 DEF RCrash, RRelease, RGoto, Leaves
    <2>4. Warned' \subseteq Warned
      BY <1>0, <1>15 DEF RCrash, RRelease, RGoto, Warned
    <2> QED  BY <1>0, <1>15, <2>3, <2>4, OneLeft DEF RCrash, Fault
  <1>16. ASSUME NEW w \in Renderers, Stop(w)
        PROVE  LeftStep
    <2>1. Leaves(NoJob)  BY <1>0, <1>16 DEF Stop, Leaves
    <2>2. Left' \subseteq Left \cup {NoJob}  BY <1>0, <2>1, LeftBehind
    <2>3. Left' \subseteq Left  BY <2>2, PipelineAssumption DEF Left
    <2>4. Warned' \subseteq Warned \cup {w}  BY <1>16 DEF Stop, Warned
    <2>5. faults' + stops' = faults + stops + 1
      BY <1>0, <1>16, PipelineAssumption DEF Stop, Held, TypeOK, EnvType
    <2> QED  BY <2>3, <2>4, <2>5 DEF LeftStep
  <1>17. ASSUME NEW v \in Distributors, DTake(v)
        PROVE  LeftStep
    <2>1. PICK i \in DIds : DQ!Take(i) /\ dcur' = [dcur EXCEPT ![v] = i]
      BY <1>17 DEF DTake
    <2>2. \A k \in DIds : dphase[k] = "queued" => (dphase'[k] = "queued" \/ k = i)
      BY <1>0, <2>1 DEF DQ!Take
    <2>3. dcur'[v] = i /\ dpc'[v] = "send"
      BY <1>0, <1>17, <2>1 DEF DTake, DGoto
    <2>4. \A j \in Jobs : djob[i] = j => Covered(j)'
      BY <2>3, <1>17 DEF Covered, DJob, DTake
    <2>5. Leaves(NoJob)
      BY <1>0, <1>17, <2>1, <2>2, <2>4 DEF DTake, DGoto, Leaves
    <2> QED  BY <1>0, <1>17, <2>5, NoneLeft DEF DTake, Warned
  <1>18. ASSUME NEW v \in Distributors, DTakeLost(v)
        PROVE  LeftStep
    <2>1. PICK i \in DIds : DQ!Take(i)
      BY <1>18 DEF DTakeLost
    <2>2. \A k \in DIds : dphase[k] = "queued" => (dphase'[k] = "queued" \/ k = i)
      BY <1>0, <2>1 DEF DQ!Take
    <2>3. PICK x \in Jobs : x = djob[i]
      BY <1>0, <2>1 DEF DQ!Take, Held, EntriesHaveJobs
    <2>4. Leaves(x)
      BY <1>0, <1>18, <2>2, <2>3 DEF DTakeLost, Leaves
    <2> QED  BY <1>0, <1>18, <2>4, TakeLostCounts, OneLeft DEF DTakeLost, Warned
  <1>19. ASSUME NEW v \in Distributors, NEW d \in Targets,
               NEW got \in SUBSET {"whole", "broken"}, NEW ok \in BOOLEAN, DSend(v, d, got, ok)
        PROVE  LeftStep
    <2>1. Leaves(NoJob)  BY <1>0, <1>19 DEF DSend, Leaves
    <2> QED  BY <1>0, <1>19, <2>1, NoneLeft DEF DSend, Warned
  <1>20. ASSUME NEW v \in Distributors, DStatus(v)
        PROVE  LeftStep
    <2>1. Leaves(NoJob)  BY <1>0, <1>20 DEF DStatus, DGoto, Leaves
    <2> QED  BY <1>0, <1>20, <2>1, StatusCounts, NoneLeft DEF DStatus, Warned
  <1>21. ASSUME NEW v \in Distributors, DCleanup(v)
        PROVE  LeftStep
    <2>1. dpc[v] # "idle" /\ dcur'[v] = dcur[v]  BY <1>21 DEF DCleanup
    <2>2. DJob(v) \in Jobs /\ DJob(v)' = DJob(v)  BY <1>0, <2>1, DJobKept
    <2>3. CASE workdir' = [workdir EXCEPT ![DJob(v)] = "none"] /\ NoFault
      <3>1. \A j \in Jobs : workdir'[j] = IF j = DJob(v) THEN "none" ELSE workdir[j]
        BY <1>0, <2>3
      <3>2. Leaves(NoJob)  BY <1>0, <1>21, <3>1 DEF DCleanup, DGoto, Leaves
      <3> QED  BY <1>0, <1>21, <2>3, <3>2, NoneLeft DEF DCleanup, NoFault, Warned
    <2>4. CASE UNCHANGED workdir /\ Fault
      <3>1. PICK x \in Jobs : x = DJob(v)  BY <2>2
      <3>2. Leaves(x)  BY <1>0, <1>21, <2>4, <3>1 DEF DCleanup, DGoto, Leaves
      <3> QED  BY <1>0, <1>21, <2>4, <3>2, OneLeft DEF DCleanup, Fault, Warned
    <2> QED  BY <1>21, <2>3, <2>4 DEF DCleanup, CleansUp
  <1>22. ASSUME NEW v \in Distributors, NEW fate \in DQ!Fates \cup {"held"}, DReturn(v, fate)
        PROVE  LeftStep
    <2>1. \A i \in DIds : dphase[i] = "queued" => dphase'[i] = "queued"
      BY <1>0, <1>22 DEF DReturn, DQ!Settle
    <2>2. Leaves(NoJob)
      BY <1>0, <1>22, <2>1 DEF DReturn, DRelease, DGoto, Leaves
    <2>3. Warned' \subseteq Warned  BY <1>22 DEF DReturn, DRelease, Warned
    <2> QED  BY <1>0, <1>22, <2>2, <2>3, NoneLeft
             DEF DReturn, DRelease, SettlesAs, NoFault, Fault
  <1>23. ASSUME NEW v \in Distributors, DCrash(v)
        PROVE  LeftStep
    <2>1. DJob(v) \in Jobs
      BY <1>0, <1>23 DEF DCrash, DJob, Held, HandlersHaveEntries, EntriesHaveJobs
    <2>2. PICK x \in Jobs : x = DJob(v)  BY <2>1
    <2>3. Leaves(x)  BY <1>0, <1>23, <2>2 DEF DCrash, DRelease, DGoto, Leaves
    <2>4. Warned' \subseteq Warned  BY <1>23 DEF DCrash, DRelease, Warned
    <2> QED  BY <1>0, <1>23, <2>3, <2>4, OneLeft DEF DCrash, Fault
  <1>24. ASSUME NEW v \in Distributors, Stop(v)
        PROVE  LeftStep
    <2>1. Leaves(NoJob)  BY <1>0, <1>24 DEF Stop, Leaves
    <2>2. Warned' \subseteq Warned
      BY <1>24, PipelineAssumption DEF Stop, Warned
    <2> QED  BY <1>0, <1>24, <2>1, <2>2, NoneLeft DEF Stop
  <1>25. ASSUME NEW i \in RIds, ReplayRender(i)
        PROVE  LeftStep
    <2>1. Leaves(NoJob)  BY <1>0, <1>25 DEF ReplayRender, Leaves
    <2> QED  BY <1>0, <1>25, <2>1, NoneLeft DEF ReplayRender, Warned
  <1>26. ASSUME NEW i \in DIds, ReplayDist(i)
        PROVE  LeftStep
    <2>1. djob[i] \in Jobs  BY <1>26 DEF ReplayDist, Held, EntriesHaveJobs
    <2>2. \A k \in DIds : dphase[k] = "queued" => dphase'[k] = "queued"
      BY <1>0, <1>26, <2>1, AddDistQueues DEF ReplayDist
    <2>3. Leaves(NoJob)  BY <1>0, <1>26, <2>2 DEF ReplayDist, Leaves
    <2> QED  BY <1>0, <1>26, <2>3, NoneLeft DEF ReplayDist, Warned
  <1>27. CASE UNCHANGED vars
    <2>1. Leaves(NoJob)  BY <1>27 DEF vars, Leaves
    <2> QED  BY <1>0, <1>27, <2>1, NoneLeft DEF vars, Warned
  <1> QED
    BY <1>1, <1>2, <1>3, <1>4, <1>5, <1>6, <1>7, <1>8, <1>9, <1>10, <1>11, <1>12,
       <1>13, <1>14, <1>15, <1>16, <1>17, <1>18, <1>19, <1>20, <1>21, <1>22, <1>23,
       <1>24, <1>25, <1>26, <1>27
       DEF Next, RequestSteps, RendererSteps, DistributorSteps

(***************************************************************************)
(* The theorems.                                                           *)
(***************************************************************************)

LEMMA BoundInit == Init => BusyStopping /\ NeglectBound /\ LeftBound
  <1> SUFFICES ASSUME Init PROVE BusyStopping /\ NeglectBound /\ LeftBound  OBVIOUS
  <1>1. stopping = {} /\ faults = 0 /\ stops = 0 /\ Neglected = {} /\ Left = {} /\ Warned = {}
    BY DEF Init, Neglected, Left, Warned
  <1>2. BusyStopping  BY <1>1 DEF BusyStopping
  <1>3. IsFiniteSet({}) /\ Cardinality({}) = 0  BY FS_EmptySet
  <1>4. NeglectBound  BY <1>1, <1>3 DEF NeglectBound
  <1>5. LeftBound  BY <1>1, <1>3 DEF LeftBound
  <1> QED  BY <1>2, <1>4, <1>5

LEMMA BoundNext ==
  Held /\ Held' /\ BusyStopping /\ NeglectBound /\ LeftBound /\ [Next]_vars
    => BusyStopping' /\ NeglectBound' /\ LeftBound'
  BY NeglectNext, NeglectCount, LeftNext, LeftCount, BusyStoppingNext DEF Held, TypeOK

LEMMA BoundInvariant == Spec => [](Held /\ NeglectBound /\ LeftBound)
  BY HeldInit, HeldNext, BoundInit, BoundNext, PTL DEF Spec

\* Whoever is in flight is not counted: a job that is idle is tended by nobody.
LEMMA IdleIsNotTended ==
  ASSUME Held, NEW j \in Idle
  PROVE  j \in Jobs /\ api[j] # "none" /\ ~Tended(j) /\ ~Covered(j)
  <1>1. j \in Jobs /\ api[j] # "none" /\ ~InFlight(j)  BY DEF Idle
  <1>2. \A w \in Renderers : rpc[w] # "idle" => rcur[w] \in RIds
    BY DEF Held, TypeOK, HandlerType, HandlersHaveEntries
  <1>3. \A v \in Distributors : dpc[v] # "idle" => dcur[v] \in DIds
    BY DEF Held, TypeOK, HandlerType, HandlersHaveEntries
  <1>4. \A w \in Renderers : rpc[w] # "idle" => RJob(w) # j
    BY <1>1, <1>2 DEF InFlight, RJob
  <1>5. \A v \in Distributors : dpc[v] # "idle" => DJob(v) # j
    BY <1>1, <1>3 DEF InFlight, DJob
  <1>6. ~Tended(j)  BY <1>1, <1>4, <1>5 DEF Tended, InFlight, AtWork
  <1>7. ~Covered(j)  BY <1>1, <1>4, <1>5 DEF Covered, InFlight, AtWork
  <1> QED  BY <1>1, <1>6, <1>7

LEMMA BoundsHold ==
  ASSUME Held, NeglectBound, LeftBound
  PROVE  OneUndecidedPerFault /\ OneLeakPerFault
  <1> DEFINE S == {j \in Idle : status[j] \notin Terminal}
             T == {j \in Idle : workdir[j] # "none"}
  <1>1. S \subseteq Neglected  BY IdleIsNotTended DEF Neglected
  <1>2. T \subseteq Left  BY IdleIsNotTended DEF Left
  <1>3. faults \in Nat /\ stops \in Nat  BY CountsAre DEF Held, TypeOK
  <1>4. faults + stops \in Nat  BY <1>3, SumsAre
  <1> HIDE DEF S, T
  <1>5. Cardinality(S) <= faults + stops
    <2>1. /\ Cardinality(S) \in Nat /\ Cardinality(Neglected) \in Nat
          /\ Cardinality(S) <= Cardinality(Neglected)
      BY <1>1, NoMore DEF NeglectBound
    <2>2. Cardinality(Neglected) <= faults + stops  BY DEF NeglectBound
    <2> QED  BY <1>4, <2>1, <2>2
  <1>6. Cardinality(T) <= faults + stops
    <2>1. /\ Cardinality(T) \in Nat /\ Cardinality(Left) \in Nat
          /\ Cardinality(T) <= Cardinality(Left)
      BY <1>2, NoMore DEF LeftBound
    <2>2. Cardinality(Warned) \in Nat  BY FS_CardinalityType DEF LeftBound
    <2>3. Cardinality(Left) + Cardinality(Warned) <= faults + stops  BY DEF LeftBound
    <2> QED  BY <1>4, <2>1, <2>2, <2>3
  <1> QED  BY <1>5, <1>6 DEF S, T, OneUndecidedPerFault, OneLeakPerFault

\* Every fault and every shutdown leaves at most one job without an end, also
\* when XADDs are carried out twice and dead letters are replayed.
THEOREM UndecidedIsPaidFor == Spec => []OneUndecidedPerFault
  BY BoundInvariant, BoundsHold, PTL

\* Every fault and every shutdown leaves at most one work directory behind.
THEOREM LeaksArePaidFor == Spec => []OneLeakPerFault
  BY BoundInvariant, BoundsHold, PTL

=============================================================================
