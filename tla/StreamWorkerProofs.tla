------------------------- MODULE StreamWorkerProofs -------------------------
(***************************************************************************)
(* Theorems about StreamWorker, for any number of workers, operators and   *)
(* messages and for every value of the bounds.                             *)
(***************************************************************************)
EXTENDS StreamWorker, TLAPS, FiniteSetTheorems

(***************************************************************************)
(* Type correctness.  What it needs besides TypeOK is which control states *)
(* go with an entry in hand, and that every dead letter copies an entry.   *)
(***************************************************************************)

HasEntry == {"handler", "dlq", "ack"}

HandShape == \A w \in Workers : wmsg[w] # 0 <=> wpc[w] \in HasEntry

DeadShape == \A d \in DeadIds : d <= deadAdded => dead[d] # 0

Shape == TypeOK /\ HandShape /\ DeadShape

LEMMA ShapeInit == Init => Shape
BY SizesAssumption, NamesAssumption
   DEF Init, Shape, TypeOK, StreamType, DeadType, WorkerType, OperatorType,
       HistoryType, HandShape, DeadShape, HasEntry, Ids, DeadIds

\* The steps of a worker.
LEMMA ShapeWorker ==
  ASSUME Shape, NEW w \in Workers, WorkerSteps(w)
  PROVE  Shape'
<1> USE SizesAssumption, NamesAssumption
    DEF Ids, DeadIds, streamVars, pendingVars, deadVars, workerVars, opVars,
        history
<1>a. /\ StreamType /\ DeadType /\ WorkerType /\ OperatorType /\ HistoryType
      /\ HandShape /\ DeadShape
  BY DEF Shape, TypeOK
<1> USE <1>a
<1>1. CASE Start(w)
  <2>1. WorkerType'
    BY <1>1 DEF Start, WorkerType, StreamType
  <2>2. HandShape'
    BY <1>1 DEF Start, HandShape, WorkerType, HasEntry
  <2>3. /\ StreamType'
       /\ DeadType'
       /\ OperatorType'
       /\ HistoryType'
       /\ DeadShape'
    BY <1>1 DEF Start, StreamType, DeadType, OperatorType, HistoryType,
           DeadShape
  <2>4. QED BY <2>1, <2>2, <2>3 DEF Shape, TypeOK
<1>2. CASE ReclaimRead(w)
  <2>1. WorkerType'
    BY <1>2 DEF ReclaimRead, StuckMessages, FirstN, Pending, WorkerType,
           StreamType
  <2>2. HandShape'
    BY <1>2 DEF ReclaimRead, StuckMessages, FirstN, Pending, HandShape,
           WorkerType, HasEntry
  <2>3. /\ StreamType'
       /\ DeadType'
       /\ OperatorType'
       /\ HistoryType'
       /\ DeadShape'
    BY <1>2 DEF ReclaimRead, StuckMessages, FirstN, Pending, StreamType,
           DeadType, OperatorType, HistoryType, DeadShape
  <2>4. QED BY <2>1, <2>2, <2>3 DEF Shape, TypeOK
<1>3. CASE ReclaimClaim(w)
  <2>1. StreamType'
    BY <1>3 DEF ReclaimClaim, StreamType, WorkerType
  <2>2. WorkerType'
    BY <1>3 DEF ReclaimClaim, WorkerType, StreamType
  <2>3. HandShape'
    BY <1>3 DEF ReclaimClaim, HandShape, WorkerType, HasEntry
  <2>4.  DeadType' /\ OperatorType' /\ HistoryType' /\ DeadShape'
    BY <1>3 DEF ReclaimClaim, DeadType, OperatorType, HistoryType, DeadShape
  <2>5. QED BY <2>1, <2>2, <2>3, <2>4 DEF Shape, TypeOK
<1>4. CASE ReclaimError(w)
  <2>1. WorkerType'
    BY <1>4 DEF ReclaimError, Fault, WorkerType, StreamType
  <2>2. HandShape'
    BY <1>4 DEF ReclaimError, Fault, HandShape, WorkerType, HasEntry
  <2>3. HistoryType'
    BY <1>4 DEF ReclaimError, Fault, HistoryType, StreamType, WorkerType
  <2>4.  StreamType' /\ DeadType' /\ OperatorType' /\ DeadShape'
    BY <1>4 DEF ReclaimError, Fault, StreamType, DeadType, OperatorType,
           DeadShape
  <2>5. QED BY <2>1, <2>2, <2>3, <2>4 DEF Shape, TypeOK
<1>5. CASE Deliver(w)
  <2>1. NextEntry \in Ids /\ NextEntry \in 1..lastDelivered'
    BY <1>5 DEF Deliver, HandOver, HasNext, NextEntry, StreamType
  <2>2. StreamType' /\ DeadType' /\ OperatorType' /\ DeadShape'
    <3>1. StreamType'
      BY <1>5 DEF Deliver, HandOver, HasNext, NextEntry, StreamType
    <3>2. DeadType' /\ DeadShape'
      BY <1>5 DEF Deliver, HandOver, HasNext, NextEntry, StreamType, DeadType,
               DeadShape
    <3>3. OperatorType'
      BY <1>5 DEF Deliver, OperatorType
    <3>4. QED  BY <3>1, <3>2, <3>3
  <2>3. wmsg' = [wmsg EXCEPT ![w] = NextEntry] /\ lastDelivered <= lastDelivered'
    BY <1>5 DEF Deliver, HandOver, NextEntry, StreamType
  <2>4. \E p \in {"handler", "dlq"} : wpc' = [wpc EXCEPT ![w] = p]
    BY <1>5 DEF Deliver
  <2>5. WorkerType' /\ HandShape'
    <3>1. wmsg' \in [Workers -> 0..lastDelivered']
      BY <2>1, <2>2, <2>3 DEF WorkerType, StreamType
    <3>2. wpc' \in [Workers -> {"down", "reclaim", "claim", "loop", "handler",
                                "dlq", "ack"}]
      BY <2>4 DEF WorkerType
    <3>3. UNCHANGED <<wclaim, stopping>>
      BY <1>5 DEF Deliver
    <3>4. HandShape'
      BY <2>1, <2>3, <2>4 DEF HandShape, WorkerType, HasEntry
    <3>5. QED  BY <3>1, <3>2, <3>3, <3>4 DEF WorkerType
  <2>6. HistoryType'
    <3>1. outcome' \in [Ids -> {"none", "ok", "error"}]
      BY <1>5, <2>1 DEF Deliver, HistoryType
    <3>2. runs' \in [Ids -> Nat]
      <4>1. runs' = runs \/ runs' = [runs EXCEPT ![NextEntry] = @ + 1]
        BY <1>5 DEF Deliver
      <4>2. QED  BY <2>1, <4>1 DEF HistoryType
    <3>3. UNCHANGED <<dropped, faults, stops>>
      BY <1>5 DEF Deliver
    <3>4. QED  BY <3>1, <3>2, <3>3 DEF HistoryType
  <2>7. QED  BY <2>2, <2>5, <2>6 DEF Shape, TypeOK
<1>6. CASE DeliverLost(w)
  <2>1. StreamType' /\ lastDelivered <= lastDelivered'
    BY <1>6 DEF DeliverLost, HandOver, HasNext, NextEntry, StreamType
  <2>2. UNCHANGED <<deadVars, wpc, wmsg, wclaim, opVars, history>>
    BY <1>6 DEF DeliverLost
  <2>3. DeadType' /\ OperatorType' /\ HandShape' /\ DeadShape'
    BY <2>1, <2>2 DEF DeadType, StreamType, OperatorType, HandShape, DeadShape
  <2>4. stopping' \in [Workers -> BOOLEAN]
    BY <1>6 DEF DeliverLost, Cancel, WorkerType
  <2>5. WorkerType'
    BY <2>1, <2>2, <2>4 DEF WorkerType, StreamType
  <2>6. faults' \in 0..MaxFaults /\ stops' \in 0..MaxStops
    BY <1>6 DEF DeliverLost, Cancel, Fault, HistoryType
  <2>7. HistoryType'
    BY <2>2, <2>6 DEF HistoryType
  <2>8. QED  BY <2>1, <2>3, <2>5, <2>7 DEF Shape, TypeOK
<1>7. ASSUME NEW ok \in BOOLEAN, HandlerReturns(w, ok)
      PROVE  Shape'
  <2>1. WorkerType'
    BY <1>7 DEF HandlerReturns, AfterHandler, WorkerType, StreamType
  <2>2. HandShape'
    BY <1>7 DEF HandlerReturns, AfterHandler, HandShape, WorkerType, HasEntry
  <2>3. HistoryType'
    BY <1>7 DEF HandlerReturns, AfterHandler, HistoryType, StreamType,
           WorkerType
  <2>4.  StreamType' /\ DeadType' /\ OperatorType' /\ DeadShape'
    BY <1>7 DEF HandlerReturns, AfterHandler, StreamType, DeadType,
           OperatorType, DeadShape
  <2>5. QED BY <2>1, <2>2, <2>3, <2>4 DEF Shape, TypeOK
<1>8. ASSUME NEW copies \in XAddCopies, MoveToDLQ(w, copies)
      PROVE  Shape'
  <2>1. /\ copies \in 0..2
        /\ copies # 1 => faults < MaxFaults
        /\ wmsg[w] \in 1..lastDelivered
        /\ wmsg[w] \in Ids
    BY <1>8 DEF MoveToDLQ, XAddCopies, HandShape, HasEntry, WorkerType, StreamType
  <2>2. UNCHANGED <<streamVars, pendingVars, wmsg, wclaim, stopping, opVars,
                    runs, outcome, stops>>
    BY <1>8 DEF MoveToDLQ
  <2>3. StreamType'
    BY <2>2 DEF StreamType
  <2>4. DeadType' /\ DeadShape' /\ deadAdded <= deadAdded'
    <3>1. deadAdded' \in 0..MaxDead /\ deadAdded <= deadAdded'
      BY <1>8, <2>1 DEF MoveToDLQ, DeadAdd, DeadType
    <3>2. /\ dead' \in [DeadIds -> 0..lastDelivered']
          /\ DeadShape'
      BY <1>8, <2>1, <2>2 DEF MoveToDLQ, DeadAdd, DeadType, DeadShape
    <3>3. deadLive' \in SUBSET (1..deadAdded')
      BY <1>8, <2>1 DEF MoveToDLQ, DeadAdd, DeadType
    <3>4. QED  BY <3>1, <3>2, <3>3 DEF DeadType
  <2>5. WorkerType' /\ HandShape'
    BY <1>8, <2>2 DEF MoveToDLQ, WorkerType, HandShape, HasEntry
  <2>6. OperatorType'
    BY <2>2, <2>4 DEF OperatorType, DeadType
  <2>7. dropped' \in SUBSET Ids
    BY <1>8, <2>1 DEF MoveToDLQ, HistoryType, StreamType
  <2>8. faults' \in 0..MaxFaults
    BY <1>8, <2>1 DEF MoveToDLQ, CountFault, HistoryType
  <2>9. HistoryType'
    BY <2>2, <2>7, <2>8 DEF HistoryType
  <2>10. QED  BY <2>3, <2>4, <2>5, <2>6, <2>9 DEF Shape, TypeOK
<1>9. CASE Ack(w)
  <2>1. StreamType'
    BY <1>9 DEF Ack, AckedBy, Loop, StreamType, WorkerType
  <2>2. WorkerType'
    BY <1>9 DEF Ack, AckedBy, Loop, WorkerType, StreamType
  <2>3. HandShape'
    BY <1>9 DEF Ack, AckedBy, Loop, HandShape, WorkerType, HasEntry
  <2>4.  DeadType' /\ OperatorType' /\ HistoryType' /\ DeadShape'
    BY <1>9 DEF Ack, AckedBy, Loop, DeadType, OperatorType, HistoryType,
           DeadShape
  <2>5. QED BY <2>1, <2>2, <2>3, <2>4 DEF Shape, TypeOK
<1>10. CASE AckLost(w)
  <2>1. WorkerType'
    BY <1>10 DEF AckLost, Loop, Fault, WorkerType, StreamType
  <2>2. HandShape'
    BY <1>10 DEF AckLost, Loop, Fault, HandShape, WorkerType, HasEntry
  <2>3. HistoryType'
    BY <1>10 DEF AckLost, Loop, Fault, HistoryType, StreamType, WorkerType
  <2>4.  StreamType' /\ DeadType' /\ OperatorType' /\ DeadShape'
    BY <1>10 DEF AckLost, Loop, Fault, StreamType, DeadType, OperatorType,
           DeadShape
  <2>5. QED BY <2>1, <2>2, <2>3, <2>4 DEF Shape, TypeOK
<1>11. CASE Exit(w)
  <2>1. WorkerType'
    BY <1>11 DEF Exit, GoDown, WorkerType, StreamType
  <2>2. HandShape'
    BY <1>11 DEF Exit, GoDown, HandShape, WorkerType, HasEntry
  <2>3. /\ StreamType'
       /\ DeadType'
       /\ OperatorType'
       /\ HistoryType'
       /\ DeadShape'
    BY <1>11 DEF Exit, GoDown, StreamType, DeadType, OperatorType,
           HistoryType, DeadShape
  <2>4. QED BY <2>1, <2>2, <2>3 DEF Shape, TypeOK
<1>12. CASE Stop(w)
  <2>1. WorkerType'
    BY <1>12 DEF Stop, Cancel, WorkerType, StreamType
  <2>2. HistoryType'
    BY <1>12 DEF Stop, Cancel, HistoryType, StreamType, WorkerType
  <2>3. /\ StreamType'
       /\ DeadType'
       /\ OperatorType'
       /\ HandShape'
       /\ DeadShape'
    BY <1>12 DEF Stop, Cancel, StreamType, DeadType, OperatorType, HandShape,
           DeadShape, HasEntry
  <2>4. QED BY <2>1, <2>2, <2>3 DEF Shape, TypeOK
<1>13. CASE Crash(w)
  <2>1. WorkerType'
    BY <1>13 DEF Crash, GoDown, Fault, WorkerType, StreamType
  <2>2. HandShape'
    BY <1>13 DEF Crash, GoDown, Fault, HandShape, WorkerType, HasEntry
  <2>3. HistoryType'
    BY <1>13 DEF Crash, GoDown, Fault, HistoryType, StreamType, WorkerType
  <2>4.  StreamType' /\ DeadType' /\ OperatorType' /\ DeadShape'
    BY <1>13 DEF Crash, GoDown, Fault, StreamType, DeadType, OperatorType,
           DeadShape
  <2>5. QED BY <2>1, <2>2, <2>3, <2>4 DEF Shape, TypeOK
<1>14. QED
  BY <1>1, <1>2, <1>3, <1>4, <1>5, <1>6, <1>7, <1>8, <1>9, <1>10,
     <1>11, <1>12, <1>13 DEF WorkerSteps

\* The steps of an operator.
LEMMA ShapeOperator ==
  ASSUME Shape, NEW o \in Operators, OperatorSteps(o)
  PROVE  Shape'
<1> USE SizesAssumption, NamesAssumption
    DEF Ids, DeadIds, streamVars, pendingVars, deadVars, workerVars, opVars,
        history
<1>a. /\ StreamType /\ DeadType /\ WorkerType /\ OperatorType /\ HistoryType
      /\ HandShape /\ DeadShape
  BY DEF Shape, TypeOK
<1> USE <1>a
<1>1. CASE ReplayRead(o)
  <2>1. OperatorType'
    BY <1>1 DEF ReplayRead, FirstN, OperatorType, DeadType
  <2>2. /\ StreamType'
       /\ DeadType'
       /\ WorkerType'
       /\ HistoryType'
       /\ HandShape'
       /\ DeadShape'
    BY <1>1 DEF ReplayRead, FirstN, StreamType, DeadType, WorkerType,
           HistoryType, HandShape, DeadShape, HasEntry
  <2>3. QED BY <2>1, <2>2 DEF Shape, TypeOK
<1>2. ASSUME NEW d \in DeadIds, NEW copies \in XAddCopies,
             ReplayAdd(o, d, copies)
      PROVE  Shape'
  <2>1. StreamType'
    BY <1>2 DEF ReplayAdd, NextReplay, XAdd, XAddCopies, CountFault,
           StreamType, DeadType, OperatorType, DeadShape
  <2>2. OperatorType'
    BY <1>2 DEF ReplayAdd, NextReplay, XAdd, XAddCopies, CountFault,
           OperatorType, DeadType
  <2>3. HistoryType'
    BY <1>2 DEF ReplayAdd, NextReplay, XAdd, XAddCopies, CountFault,
           HistoryType, StreamType
  <2>4.  DeadType' /\ WorkerType' /\ HandShape' /\ DeadShape'
    BY <1>2 DEF ReplayAdd, NextReplay, XAdd, XAddCopies, CountFault, DeadType,
           WorkerType, HandShape, DeadShape, HasEntry
  <2>5. QED BY <2>1, <2>2, <2>3, <2>4 DEF Shape, TypeOK
<1>3. ASSUME NEW d \in DeadIds, NEW copies \in {0, 1},
             NEW deleted \in {{}, ToDelete(o)},
             ReplayAbort(o, d, copies, deleted)
      PROVE  Shape'
  <2>1. dead[d] \in Ids
    BY <1>3 DEF ReplayAbort, NextReplay, StreamType, DeadType, OperatorType,
             DeadShape
  <2>2. StreamType' /\ UNCHANGED lastDelivered
    BY <1>3, <2>1 DEF ReplayAbort, XAdd, StreamType
  <2>3. DeadType' /\ DeadShape' /\ UNCHANGED deadAdded
    BY <1>3, <2>2 DEF ReplayAbort, DeadType, DeadShape
  <2>4. OperatorType'
    BY <1>3, <2>3 DEF ReplayAbort, OperatorDone, OperatorType
  <2>5. WorkerType' /\ HandShape'
    BY <1>3, <2>2 DEF ReplayAbort, WorkerType, HandShape
  <2>6. HistoryType'
    BY <1>3 DEF ReplayAbort, Fault, HistoryType
  <2>7. QED  BY <2>2, <2>3, <2>4, <2>5, <2>6 DEF Shape, TypeOK
<1>4. CASE ReplayDelete(o)
  <2>1. DeadType'
    BY <1>4 DEF ReplayDelete, OperatorDone, DeadType, StreamType, StreamType
  <2>2. OperatorType'
    BY <1>4 DEF ReplayDelete, OperatorDone, OperatorType, DeadType
  <2>3. /\ StreamType'
       /\ WorkerType'
       /\ HistoryType'
       /\ HandShape'
       /\ DeadShape'
    BY <1>4 DEF ReplayDelete, OperatorDone, StreamType, WorkerType,
           HistoryType, HandShape, DeadShape, HasEntry
  <2>4. QED BY <2>1, <2>2, <2>3 DEF Shape, TypeOK
<1>5. CASE ReplayKilled(o)
  <2>1. OperatorType'
    BY <1>5 DEF ReplayKilled, OperatorDone, Fault, OperatorType, DeadType
  <2>2. HistoryType'
    BY <1>5 DEF ReplayKilled, OperatorDone, Fault, HistoryType, StreamType
  <2>3.  StreamType' /\ DeadType' /\ WorkerType' /\ HandShape' /\ DeadShape'
    BY <1>5 DEF ReplayKilled, OperatorDone, Fault, StreamType, DeadType,
           WorkerType, HandShape, DeadShape, HasEntry
  <2>4. QED BY <2>1, <2>2, <2>3 DEF Shape, TypeOK
<1>6. QED
  BY <1>1, <1>2, <1>3, <1>4, <1>5 DEF OperatorSteps

LEMMA ShapeNext == Shape /\ [Next]_vars => Shape'
<1> SUFFICES ASSUME Shape, [Next]_vars PROVE Shape'
  OBVIOUS
<1>1. ASSUME NEW m \in Msgs, Publish(m) PROVE Shape'
  BY <1>1, SizesAssumption
  DEF Publish, XAdd, Shape, TypeOK, StreamType, DeadType, WorkerType,
      OperatorType, HistoryType, HandShape, DeadShape, Ids, pendingVars,
      deadVars, workerVars, opVars, history
<1>2. ASSUME NEW i \in Ids, Age(i) PROVE Shape'
  BY <1>2
  DEF Age, Pending, Shape, TypeOK, StreamType, DeadType, WorkerType,
      OperatorType, HistoryType, HandShape, DeadShape, streamVars, deadVars,
      workerVars, opVars, history
<1>3. CASE UNCHANGED vars
  BY <1>3
  DEF vars, Shape, TypeOK, StreamType, DeadType, WorkerType, OperatorType,
      HistoryType, HandShape, DeadShape, streamVars, pendingVars, deadVars,
      workerVars, opVars, history
<1>4. QED
  BY <1>1, <1>2, <1>3, ShapeWorker, ShapeOperator DEF Next

\* The variables always have values of their types; in particular the group is
\* never ahead of the stream, and every dead letter copies a delivered entry.
THEOREM TypeCorrect == Spec => []TypeOK
<1>1. Spec => []Shape
  BY ShapeInit, ShapeNext, PTL DEF Spec
<1>2. Shape => TypeOK
  BY DEF Shape
<1>3. QED
  BY <1>1, <1>2, PTL

(***************************************************************************)
(* Delivery.  An entry not yet delivered is untouched; what is in a        *)
(* worker's hands is pending; and a worker about to acknowledge an entry   *)
(* can account for it.                                                     *)
(***************************************************************************)

Untouched ==
  \A i \in Ids : i > lastDelivered =>
    owner[i] = Nobody /\ runs[i] = 0 /\ outcome[i] = "none"

HeldIsPending ==
  \A w \in Workers : wmsg[w] # 0 => owner[wmsg[w]] # Nobody

HandAccounted ==
  \A w \in Workers : /\ wpc[w] = "dlq" => outcome[wmsg[w]] = "error"
                     /\ wpc[w] = "ack" => Accounted(wmsg[w])

Delivery == /\ Untouched /\ HandledAtMostOnce /\ HeldIsPending
            /\ HandAccounted /\ SettledIsAccounted

LEMMA DeliveryInit == Init => Delivery
BY SizesAssumption
   DEF Init, Delivery, Untouched, HandledAtMostOnce, HeldIsPending,
       HandAccounted, SettledIsAccounted, Acked, Ids

\* A step that leaves the entries alone, in which a worker may only let go of
\* what it holds, preserves all of it.
LEMMA QuietStep ==
  ASSUME Shape, Delivery,
         UNCHANGED <<lastDelivered, owner, runs, outcome, dropped, deadAdded,
                     dead>>,
         \A v \in Workers :
           \/ wmsg'[v] = wmsg[v] /\ wpc'[v] = wpc[v]
           \/ wmsg'[v] = 0 /\ wpc'[v] \notin HasEntry
  PROVE  Delivery'
<1> USE DEF Delivery
<1>1. Untouched' /\ SettledIsAccounted'
  BY DEF Untouched, SettledIsAccounted, Acked, Accounted
<1>2. HandledAtMostOnce'
  BY DEF HandledAtMostOnce
<1>3. HeldIsPending'
  BY DEF HeldIsPending
<1>4. HandAccounted'
  BY DEF HandAccounted, Accounted, HasEntry
<1>5. QED  BY <1>1, <1>2, <1>3, <1>4

LEMMA DeliveryNext == Shape /\ Delivery /\ [Next]_vars => Delivery'
<1> SUFFICES ASSUME Shape, Delivery, [Next]_vars PROVE Delivery'
  OBVIOUS
<1> USE SizesAssumption, NamesAssumption
    DEF streamVars, pendingVars, deadVars, workerVars, opVars, history
<1>a. /\ StreamType /\ DeadType /\ WorkerType /\ OperatorType /\ HistoryType
      /\ HandShape /\ DeadShape
  BY DEF Shape, TypeOK
<1>b. /\ Untouched /\ HandledAtMostOnce /\ HeldIsPending
      /\ HandAccounted /\ SettledIsAccounted
  BY DEF Delivery
<1>1. ASSUME NEW m \in Msgs, Publish(m) PROVE Delivery'
  BY <1>1, QuietStep DEF Publish, XAdd
<1>2. ASSUME NEW i \in Ids, Age(i) PROVE Delivery'
  BY <1>2, QuietStep DEF Age
<1>3. ASSUME NEW w \in Workers, WorkerSteps(w) PROVE Delivery'
  <2>1. CASE Start(w)
    BY <2>1, <1>a, QuietStep DEF Start, HandShape, WorkerType, HasEntry
  <2>2. CASE ReclaimRead(w)
    BY <2>2, <1>a, QuietStep DEF ReclaimRead, HandShape, WorkerType, HasEntry
  <2>3. CASE ReclaimClaim(w)
    <3>1. \A i \in Ids : owner'[i] = Nobody <=> owner[i] = Nobody
      BY <2>3, <1>a DEF ReclaimClaim, Claimable, Pending, StreamType
    <3>2. UNCHANGED <<lastDelivered, runs, outcome, dropped, deadAdded, dead, wmsg>>
      BY <2>3 DEF ReclaimClaim
    <3>3. \A v \in Workers : wpc'[v] = wpc[v] \/ wpc'[v] \notin HasEntry
      BY <2>3, <1>a DEF ReclaimClaim, WorkerType, HasEntry
    <3>4. Untouched' /\ SettledIsAccounted'
      BY <3>1, <3>2, <1>b DEF Untouched, SettledIsAccounted, Acked, Accounted
    <3>5. HandledAtMostOnce'
      BY <3>2, <1>b DEF HandledAtMostOnce
    <3>6. HeldIsPending'
      BY <3>1, <3>2, <1>a, <1>b DEF HeldIsPending, WorkerType, StreamType, Ids
    <3>7. HandAccounted'
      BY <3>2, <3>3, <1>b DEF HandAccounted, Accounted, HasEntry
    <3>8. QED  BY <3>4, <3>5, <3>6, <3>7 DEF Delivery
  <2>4. CASE ReclaimError(w)
    BY <2>4, <1>a, QuietStep DEF ReclaimError, HandShape, WorkerType, HasEntry
  <2>5. CASE Deliver(w)
    <3>1. /\ NextEntry \in Ids /\ NextEntry > lastDelivered
          /\ lastDelivered' = NextEntry /\ NextEntry # 0
      BY <2>5, <1>a DEF Deliver, HandOver, HasNext, NextEntry, StreamType, Ids
    <3>2. \A i \in Ids : i > NextEntry => i > lastDelivered
      BY <1>a DEF NextEntry, StreamType, Ids
    <3>3. /\ owner' = [owner EXCEPT ![NextEntry] = w]
          /\ wmsg' = [wmsg EXCEPT ![w] = NextEntry]
          /\ UNCHANGED <<dropped, deadAdded, dead>>
      BY <2>5 DEF Deliver, HandOver
    <3>4. \A i \in Ids : i # NextEntry => runs'[i] = runs[i] /\ outcome'[i] = outcome[i]
      BY <2>5, <1>a DEF Deliver, HistoryType
    <3>5. \A v \in Workers : v # w => wmsg[v] # NextEntry
      BY <3>1, <1>a DEF WorkerType, StreamType, NextEntry
    <3>6. Untouched'
      BY <3>1, <3>2, <3>3, <3>4, <1>a, <1>b DEF Untouched, StreamType, Ids
    <3>7. runs'[NextEntry] <= 1
      BY <2>5, <3>1, <1>a, <1>b DEF Deliver, Untouched, HistoryType
    <3>8. HandledAtMostOnce'
      BY <3>3, <3>4, <3>5, <3>7, <1>a, <1>b DEF HandledAtMostOnce, WorkerType
    <3>9. HeldIsPending'
      BY <3>1, <3>3, <3>5, <1>a, <1>b
      DEF HeldIsPending, WorkerType, StreamType, Ids
    <3>10. HandAccounted'
      <4>1. SUFFICES ASSUME NEW v \in Workers
                     PROVE  /\ wpc'[v] = "dlq" => outcome'[wmsg'[v]] = "error"
                            /\ wpc'[v] = "ack" => Accounted(wmsg[v])' 
        BY DEF HandAccounted, Accounted
      <4>2. CASE v = w
        BY <2>5, <4>2, <3>1, <3>3, <1>a DEF Deliver, WorkerType, HistoryType
      <4>3. CASE v # w
        <5>1. wpc'[v] = wpc[v] /\ wmsg'[v] = wmsg[v] /\ wmsg[v] # NextEntry
          BY <2>5, <4>3, <3>3, <3>5, <1>a DEF Deliver, WorkerType
        <5>2. wpc[v] \in HasEntry => outcome'[wmsg[v]] = outcome[wmsg[v]]
          BY <5>1, <3>4, <1>a DEF HandShape, WorkerType, StreamType, Ids
        <5>3. QED  BY <5>1, <5>2, <3>3, <1>b DEF HandAccounted, Accounted, HasEntry
      <4>4. QED  BY <4>2, <4>3
    <3>11. SettledIsAccounted'
      <4>1. \A i \in Acked' : i # NextEntry /\ i \in Acked
        BY <3>1, <3>3, <1>a, NamesAssumption DEF Acked, StreamType, NextEntry, Ids
      <4>2. QED
        BY <4>1, <3>3, <3>4, <1>b DEF SettledIsAccounted, Acked, Accounted
    <3>12. QED  BY <3>6, <3>8, <3>9, <3>10, <3>11 DEF Delivery
  <2>6. CASE DeliverLost(w)
    <3>1. /\ NextEntry \in Ids /\ NextEntry > lastDelivered
          /\ lastDelivered' = NextEntry
      BY <2>6, <1>a DEF DeliverLost, HandOver, HasNext, NextEntry, StreamType, Ids
    <3>2. \A i \in Ids : i > NextEntry => i > lastDelivered
      BY <1>a DEF NextEntry, StreamType, Ids
    <3>3. /\ owner' = [owner EXCEPT ![NextEntry] = w]
          /\ UNCHANGED <<wpc, wmsg, runs, outcome, dropped, deadAdded, dead>>
      BY <2>6 DEF DeliverLost, HandOver
    <3>4. Untouched'
      BY <3>1, <3>2, <3>3, <1>a, <1>b DEF Untouched, StreamType, Ids
    <3>5. HandledAtMostOnce' /\ HandAccounted'
      BY <3>3, <1>b DEF HandledAtMostOnce, HandAccounted, Accounted
    <3>6. HeldIsPending'
      BY <3>1, <3>3, <1>a, <1>b DEF HeldIsPending, WorkerType, StreamType, Ids
    <3>7. SettledIsAccounted'
      <4>1. \A i \in Acked' : i # NextEntry /\ i \in Acked
        BY <3>1, <3>3, <1>a, NamesAssumption DEF Acked, StreamType, NextEntry, Ids
      <4>2. QED  BY <4>1, <3>3, <1>b DEF SettledIsAccounted, Acked, Accounted
    <3>8. QED  BY <3>4, <3>5, <3>6, <3>7 DEF Delivery
  <2>7. ASSUME NEW ok \in BOOLEAN, HandlerReturns(w, ok)
        PROVE  Delivery'
    <3>1. /\ wmsg[w] \in Ids /\ wmsg[w] <= lastDelivered /\ owner[wmsg[w]] # Nobody
          /\ wmsg[w] # 0
      BY <2>7, <1>a, <1>b DEF HandlerReturns, HandShape, HasEntry, WorkerType,
                              StreamType, HeldIsPending, Ids
    <3>2. /\ UNCHANGED <<lastDelivered, owner, wmsg, runs, dropped, deadAdded, dead>>
          /\ wpc' = [wpc EXCEPT ![w] = AfterHandler(ok)]
          /\ outcome' = [outcome EXCEPT ![wmsg[w]] = IF ok THEN "ok" ELSE "error"]
      BY <2>7 DEF HandlerReturns
    <3>3. \A i \in Ids : i # wmsg[w] => outcome'[i] = outcome[i]
      BY <3>2, <1>a DEF HistoryType
    <3>4. Untouched'
      BY <3>1, <3>2, <3>3, <1>a, <1>b DEF Untouched, StreamType, Ids
    <3>5. HandledAtMostOnce' /\ HeldIsPending'
      BY <3>2, <1>b DEF HandledAtMostOnce, HeldIsPending
    <3>6. SettledIsAccounted'
      BY <3>1, <3>2, <3>3, <1>b DEF SettledIsAccounted, Acked, Accounted
    <3>7. HandAccounted'
      <4>1. SUFFICES ASSUME NEW v \in Workers
                     PROVE  /\ wpc'[v] = "dlq" => outcome'[wmsg'[v]] = "error"
                            /\ wpc'[v] = "ack" => Accounted(wmsg[v])'
        BY DEF HandAccounted, Accounted
      <4>2. CASE v = w
        BY <4>2, <3>1, <3>2, <1>a DEF AfterHandler, Accounted, WorkerType, HistoryType
      <4>3. CASE v # w
        <5>1. wpc'[v] = wpc[v] /\ wmsg'[v] = wmsg[v]
          BY <4>3, <3>2, <1>a DEF WorkerType
        <5>2. wpc[v] \in HasEntry => outcome'[wmsg[v]] = outcome[wmsg[v]]
          BY <4>3, <3>1, <3>3, <1>a, <1>b
          DEF HandledAtMostOnce, HandShape, WorkerType, StreamType, Ids
        <5>3. QED  BY <5>1, <5>2, <3>2, <1>b DEF HandAccounted, Accounted, HasEntry
      <4>4. QED  BY <4>2, <4>3
    <3>8. QED  BY <3>4, <3>5, <3>6, <3>7 DEF Delivery
  <2>8. ASSUME NEW copies \in XAddCopies, MoveToDLQ(w, copies)
        PROVE  Delivery'
    <3>1. /\ wmsg[w] \in Ids /\ wmsg[w] # 0 /\ outcome[wmsg[w]] = "error"
          /\ copies \in 0..2
      BY <2>8, <1>a, <1>b DEF MoveToDLQ, HandShape, HasEntry, WorkerType,
           StreamType, HandAccounted, Ids, XAddCopies
    <3>2. /\ UNCHANGED <<lastDelivered, owner, wmsg, runs, outcome>>
          /\ wpc' = [wpc EXCEPT ![w] = "ack"]
      BY <2>8 DEF MoveToDLQ
    <3>3. \A i \in Ids : i \in dropped => i \in dropped'
      BY <2>8 DEF MoveToDLQ
    <3>4. \A d \in 1..deadAdded : d \in 1..deadAdded' /\ dead'[d] = dead[d]
      BY <2>8, <3>1, <1>a DEF MoveToDLQ, DeadAdd, DeadType, DeadIds
    <3>5. \A i \in Ids : Accounted(i) => Accounted(i)'
      BY <3>2, <3>3, <3>4 DEF Accounted
    <3>6. Accounted(wmsg[w])'
      <4>1. CASE copies = 0
        BY <2>8, <4>1, <3>1, <3>2 DEF MoveToDLQ, Accounted
      <4>2. CASE copies # 0
        <5>1. deadAdded + 1 \in 1..deadAdded' /\ dead'[deadAdded + 1] = wmsg[w]
          BY <2>8, <4>2, <3>1, <1>a DEF MoveToDLQ, DeadAdd, DeadType, DeadIds
        <5>2. QED  BY <5>1, <3>1, <3>2 DEF Accounted
      <4>3. QED  BY <4>1, <4>2
    <3>7. Untouched' /\ HandledAtMostOnce' /\ HeldIsPending'
      BY <3>2, <1>b DEF Untouched, HandledAtMostOnce, HeldIsPending
    <3>8. SettledIsAccounted'
      BY <3>2, <3>5, <1>b DEF SettledIsAccounted, Acked
    <3>9. HandAccounted'
      <4>1. SUFFICES ASSUME NEW v \in Workers
                     PROVE  /\ wpc'[v] = "dlq" => outcome'[wmsg'[v]] = "error"
                            /\ wpc'[v] = "ack" => Accounted(wmsg[v])'
        BY DEF HandAccounted, Accounted
      <4>2. CASE v = w
        BY <4>2, <3>2, <3>6, <1>a DEF WorkerType
      <4>3. CASE v # w
        <5>1. wpc'[v] = wpc[v] /\ wmsg'[v] = wmsg[v]
          BY <4>3, <3>2, <1>a DEF WorkerType
        <5>2. wpc[v] = "ack" => wmsg[v] \in Ids
          BY <1>a DEF HandShape, HasEntry, WorkerType, StreamType, Ids
        <5>3. wpc[v] = "ack" => Accounted(wmsg[v])
          BY <1>b DEF HandAccounted
        <5>4. wpc[v] = "ack" => Accounted(wmsg[v])'
          BY <5>2, <5>3, <3>2, <3>3, <3>4 DEF Accounted
        <5>5. QED  BY <5>1, <5>4, <3>2, <1>b DEF HandAccounted
      <4>4. QED  BY <4>2, <4>3
    <3>10. QED  BY <3>7, <3>8, <3>9 DEF Delivery
  <2>9. CASE Ack(w)
    <3>1. /\ wmsg[w] \in Ids /\ wmsg[w] # 0 /\ Accounted(wmsg[w])
          /\ wmsg[w] <= lastDelivered
      BY <2>9, <1>a, <1>b DEF Ack, HandShape, HasEntry, WorkerType, StreamType,
           HandAccounted, Ids
    <3>2. /\ UNCHANGED <<lastDelivered, runs, outcome, dropped, deadAdded, dead>>
          /\ wpc' = [wpc EXCEPT ![w] = "loop"]
          /\ wmsg' = [wmsg EXCEPT ![w] = 0]
      BY <2>9 DEF Ack, Loop
    <3>3. \A i \in Ids : owner'[i] = IF i = wmsg[w] THEN Nobody ELSE owner[i]
      BY <2>9 DEF Ack, AckedBy
    <3>4. Untouched' /\ SettledIsAccounted'
      BY <3>1, <3>2, <3>3, <1>b DEF Untouched, SettledIsAccounted, Acked, Accounted
    <3>5. HandledAtMostOnce'
      BY <3>2, <1>a, <1>b DEF HandledAtMostOnce, WorkerType
    <3>6. HeldIsPending'
      <4>1. SUFFICES ASSUME NEW v \in Workers, wmsg'[v] # 0
                     PROVE  owner'[wmsg'[v]] # Nobody
        BY DEF HeldIsPending
      <4>2. v # w /\ wmsg'[v] = wmsg[v]
        BY <4>1, <3>2, <1>a DEF WorkerType
      <4>3. wmsg[v] # wmsg[w] /\ wmsg[v] \in Ids
        BY <4>1, <4>2, <3>1, <1>a, <1>b
        DEF HandledAtMostOnce, WorkerType, StreamType, Ids
      <4>4. owner[wmsg[v]] # Nobody
        BY <4>1, <4>2, <1>b DEF HeldIsPending
      <4>5. QED  BY <4>2, <4>3, <4>4, <3>3
    <3>7. HandAccounted'
      BY <3>2, <1>a, <1>b DEF HandAccounted, Accounted, WorkerType
    <3>8. QED  BY <3>4, <3>5, <3>6, <3>7 DEF Delivery
  <2>10. CASE AckLost(w)
    BY <2>10, <1>a, QuietStep DEF AckLost, Loop, WorkerType, HasEntry
  <2>11. CASE Exit(w)
    BY <2>11, <1>a, QuietStep DEF Exit, GoDown, WorkerType, HasEntry
  <2>12. CASE Stop(w)
    BY <2>12, QuietStep DEF Stop, Cancel
  <2>13. CASE Crash(w)
    BY <2>13, <1>a, QuietStep DEF Crash, GoDown, WorkerType, HasEntry
  <2>14. QED
    BY <1>3, <2>1, <2>2, <2>3, <2>4, <2>5, <2>6, <2>7, <2>8, <2>9, <2>10, <2>11,
       <2>12, <2>13 DEF WorkerSteps
<1>4. ASSUME NEW o \in Operators, OperatorSteps(o) PROVE Delivery'
  <2>1. UNCHANGED <<lastDelivered, owner, runs, outcome, dropped, deadAdded,
                    dead, wmsg, wpc>>
    BY <1>4 DEF OperatorSteps, ReplayRead, ReplayAdd, ReplayAbort, ReplayDelete,
                ReplayKilled, XAdd
  <2>2. QED  BY <2>1, QuietStep
<1>5. CASE UNCHANGED vars
  BY <1>5, QuietStep DEF vars
<1>6. QED
  BY <1>1, <1>2, <1>3, <1>4, <1>5 DEF Next

\* The inductive invariant.
LEMMA DeliveryInvariant == Spec => [](Shape /\ Delivery)
BY ShapeInit, ShapeNext, DeliveryInit, DeliveryNext, PTL DEF Spec

\* No entry's handler is called twice and no two workers hold one entry.
THEOREM AtMostOnce == Spec => []HandledAtMostOnce
<1>1. Shape /\ Delivery => HandledAtMostOnce
  BY DEF Delivery
<1>2. QED  BY <1>1, DeliveryInvariant, PTL

\* What has left the pending list was handled, is a dead letter, or failed to
\* become one.
THEOREM NothingUnaccounted == Spec => []SettledIsAccounted
<1>1. Shape /\ Delivery => SettledIsAccounted
  BY DEF Delivery
<1>2. QED  BY <1>1, DeliveryInvariant, PTL

(***************************************************************************)
(* Replay.  What an operator believes to have put back is back.            *)
(***************************************************************************)

DoneIsReplayed == \A o \in Operators : \A d \in odone[o] : Replayed(d)

Replay == ReplayLosesNothing /\ DoneIsReplayed

LEMMA ReplayInit == Init => Replay
BY DEF Init, Replay, ReplayLosesNothing, DoneIsReplayed

\* Entries are only ever added.
LEMMA ReplayedStays ==
  ASSUME Shape, NEW n \in 0..2, NEW m, NEW e, XAdd(n, m, e)
  PROVE  /\ \A d \in DeadIds : Replayed(d) => Replayed(d)'
         /\ n # 0 => Replayed(e)'
<1>1. added \in 0..MaxEntries /\ MaxEntries \in Nat /\ added' = added + n
  BY SizesAssumption DEF Shape, TypeOK, StreamType, XAdd
<1>2. \A i \in Entries : i \in Entries' /\ origin'[i] = origin[i]
  BY <1>1 DEF XAdd, Entries, Ids
<1>3. \A d \in DeadIds : Replayed(d) => Replayed(d)'
  BY <1>2 DEF Replayed
<1>4. n # 0 => added + 1 \in Entries' /\ origin'[added + 1] = e
  BY <1>1 DEF XAdd, Entries, Ids
<1>5. QED  BY <1>3, <1>4 DEF Replayed

LEMMA ReplayNext == Shape /\ Replay /\ [Next]_vars => Replay'
<1> SUFFICES ASSUME Shape, Replay, [Next]_vars PROVE Replay'
  OBVIOUS
<1> USE SizesAssumption
    DEF streamVars, pendingVars, deadVars, workerVars, opVars, history
<1>a. DeadType /\ OperatorType
  BY DEF Shape, TypeOK
<1>b. \A o \in Operators : odone[o] \subseteq DeadIds
  BY <1>a DEF DeadType, OperatorType, DeadIds
<1>c. ASSUME UNCHANGED <<added, origin, deadAdded, deadLive, odone>> PROVE Replay'
  BY <1>c DEF Replay, ReplayLosesNothing, DoneIsReplayed, Replayed, Entries
<1>1. ASSUME NEW m \in Msgs, Publish(m) PROVE Replay'
  <2>1. \A d \in DeadIds : Replayed(d) => Replayed(d)'
    BY <1>1, ReplayedStays DEF Publish
  <2>2. UNCHANGED <<deadAdded, deadLive, odone>>
    BY <1>1 DEF Publish
  <2>3. QED
    BY <2>1, <2>2, <1>a, <1>b
    DEF Replay, ReplayLosesNothing, DoneIsReplayed, DeadType, DeadIds
<1>2. ASSUME NEW i \in Ids, Age(i) PROVE Replay'
  BY <1>2, <1>c DEF Age
<1>3. ASSUME NEW w \in Workers, WorkerSteps(w) PROVE Replay'
  <2>1. ASSUME NEW copies \in XAddCopies, MoveToDLQ(w, copies) PROVE Replay'
    <3>1. /\ UNCHANGED <<added, origin, odone>>
          /\ copies \in 0..2
      BY <2>1 DEF MoveToDLQ, XAddCopies
    <3>2. \A d \in 1..deadAdded' : d \in 1..deadAdded \/ d \in deadLive'
      BY <2>1, <3>1, <1>a DEF MoveToDLQ, DeadAdd, DeadType
    <3>3. deadLive \subseteq deadLive'
      BY <2>1 DEF MoveToDLQ, DeadAdd
    <3>4. QED
      BY <3>1, <3>2, <3>3
      DEF Replay, ReplayLosesNothing, DoneIsReplayed, Replayed, Entries
  <2>2. CASE \A copies \in XAddCopies : ~MoveToDLQ(w, copies)
    BY <1>3, <2>2, <1>c
    DEF WorkerSteps, Start, ReclaimRead, ReclaimClaim, ReclaimError, Deliver,
        DeliverLost, HandOver, HandlerReturns, Ack, AckLost, Exit, Stop, Crash
  <2>3. QED  BY <2>1, <2>2
<1>4. ASSUME NEW o \in Operators, OperatorSteps(o) PROVE Replay'
  <2>1. CASE ReplayRead(o)
    BY <2>1, <1>c DEF ReplayRead
  <2>2. ASSUME NEW d \in DeadIds, NEW copies \in XAddCopies, ReplayAdd(o, d, copies)
        PROVE  Replay'
    <3>1. /\ \A e \in DeadIds : Replayed(e) => Replayed(e)'
          /\ Replayed(d)'
      <4>1. copies \in 0..2 /\ copies # 0 /\ XAdd(copies, msg[dead[d]], d)
        BY <2>2 DEF ReplayAdd, XAddCopies
      <4>2. QED  BY <4>1, ReplayedStays
    <3>2. /\ UNCHANGED <<deadAdded, deadLive>>
          /\ odone' = [odone EXCEPT ![o] = odone[o] \cup {d}]
      BY <2>2 DEF ReplayAdd
    <3>3. ReplayLosesNothing'
      BY <3>1, <3>2, <1>a DEF Replay, ReplayLosesNothing, DeadType, DeadIds
    <3>4. DoneIsReplayed'
      <4>1. SUFFICES ASSUME NEW p \in Operators, NEW e \in odone'[p]
                     PROVE  Replayed(e)'
        BY DEF DoneIsReplayed, Replayed, Entries
      <4>2. e \in odone[p] \/ e = d
        BY <3>2, <1>a DEF OperatorType
      <4>3. QED  BY <4>2, <3>1, <1>b DEF Replay, DoneIsReplayed
    <3>5. QED  BY <3>3, <3>4 DEF Replay
  <2>3. ASSUME NEW d \in DeadIds, NEW copies \in {0, 1},
               NEW deleted \in {{}, ToDelete(o)},
               ReplayAbort(o, d, copies, deleted)
        PROVE  Replay'
    <3>1. \A e \in DeadIds : Replayed(e) => Replayed(e)'
      <4>1. copies \in 0..2 /\ XAdd(copies, msg[dead[d]], d)
        BY <2>3 DEF ReplayAbort
      <4>2. QED  BY <4>1, ReplayedStays
    <3>2. /\ UNCHANGED deadAdded
          /\ deadLive' = deadLive \ deleted
          /\ odone' = [odone EXCEPT ![o] = {}]
      BY <2>3 DEF ReplayAbort, OperatorDone
    <3>3. \A e \in deleted : Replayed(e)
      BY DEF Replay, DoneIsReplayed, ToDelete
    <3>4. ReplayLosesNothing'
      BY <3>1, <3>2, <3>3, <1>a DEF Replay, ReplayLosesNothing, DeadType, DeadIds
    <3>5. DoneIsReplayed'
      <4>1. SUFFICES ASSUME NEW p \in Operators, NEW e \in odone'[p]
                     PROVE  Replayed(e)'
        BY DEF DoneIsReplayed, Replayed, Entries
      <4>2. e \in odone[p]
        BY <3>2, <1>a DEF OperatorType
      <4>3. QED  BY <4>2, <3>1, <1>b DEF Replay, DoneIsReplayed
    <3>6. QED  BY <3>4, <3>5 DEF Replay
  <2>4. CASE ReplayDelete(o)
    <3>1. /\ UNCHANGED <<added, origin, deadAdded>>
          /\ deadLive' = deadLive \ odone[o]
          /\ odone' = [odone EXCEPT ![o] = {}]
      BY <2>4 DEF ReplayDelete, OperatorDone, ToDelete
    <3>2. ReplayLosesNothing'
      BY <3>1 DEF Replay, ReplayLosesNothing, DoneIsReplayed, Replayed, Entries
    <3>3. DoneIsReplayed'
      BY <3>1, <1>a DEF Replay, DoneIsReplayed, Replayed, Entries, OperatorType
    <3>4. QED  BY <3>2, <3>3 DEF Replay
  <2>5. CASE ReplayKilled(o)
    <3>1. /\ UNCHANGED <<added, origin, deadAdded, deadLive>>
          /\ odone' = [odone EXCEPT ![o] = {}]
      BY <2>5 DEF ReplayKilled, OperatorDone
    <3>2. QED
      BY <3>1, <1>a DEF Replay, ReplayLosesNothing, DoneIsReplayed, Replayed,
                       Entries, OperatorType
  <2>6. QED
    BY <1>4, <2>1, <2>2, <2>3, <2>4, <2>5 DEF OperatorSteps
<1>5. CASE UNCHANGED vars
  BY <1>5, <1>c DEF vars
<1>6. QED
  BY <1>1, <1>2, <1>3, <1>4, <1>5 DEF Next

\* A dead letter is deleted only when its message is back in the stream.
THEOREM ReplayIsSafe == Spec => []ReplayLosesNothing
<1>1. Spec => [](Shape /\ Replay)
  BY ShapeInit, ShapeNext, ReplayInit, ReplayNext, PTL DEF Spec
<1>2. Shape /\ Replay => ReplayLosesNothing
  BY DEF Replay
<1>3. QED  BY <1>1, <1>2, PTL

(***************************************************************************)
(* One loss per fault.                                                     *)
(***************************************************************************)

LEMMA AtMostOneMore ==
  ASSUME NEW S, IsFiniteSet(S), NEW x, NEW T \in SUBSET (S \cup {x})
  PROVE  /\ IsFiniteSet(T)
         /\ Cardinality(S) \in Nat /\ Cardinality(T) \in Nat
         /\ Cardinality(T) <= Cardinality(S) + 1
<1>a. Cardinality(S) \in Nat
  BY FS_CardinalityType
<1>b. /\ IsFiniteSet(S \cup {x})
      /\ Cardinality(S \cup {x}) =
           IF x \in S THEN Cardinality(S) ELSE Cardinality(S) + 1
  BY FS_AddElement
<1>1. /\ IsFiniteSet(S \cup {x})
      /\ Cardinality(S \cup {x}) <= Cardinality(S) + 1
  BY <1>a, <1>b
<1>2. IsFiniteSet(T) /\ Cardinality(T) <= Cardinality(S \cup {x})
  BY <1>1, FS_Subset
<1>3. /\ Cardinality(S) \in Nat /\ Cardinality(T) \in Nat
      /\ Cardinality(S \cup {x}) \in Nat
  BY <1>1, <1>2, FS_CardinalityType
<1>4. QED  BY <1>1, <1>2, <1>3

LEMMA LossesAreFinite ==
  ASSUME Shape
  PROVE  /\ IsFiniteSet(Stranded) /\ IsFiniteSet(dropped)
         /\ Cardinality(Stranded) \in Nat /\ Cardinality(dropped) \in Nat
         /\ faults \in Nat /\ stops \in Nat
<1>1. IsFiniteSet(Ids)
  BY SizesAssumption, FS_Interval DEF Ids
<1>2. Stranded \in SUBSET Ids /\ dropped \in SUBSET Ids
  BY DEF Stranded, Pending, Shape, TypeOK, HistoryType
<1>3. IsFiniteSet(Stranded) /\ IsFiniteSet(dropped)
  BY <1>1, <1>2, FS_Subset
<1>4. QED
  BY <1>3, FS_CardinalityType, SizesAssumption DEF Shape, TypeOK, HistoryType

CountsOne == \/ faults' = faults + 1 /\ stops' = stops
             \/ faults' = faults /\ stops' = stops + 1

CountsNone == faults' = faults /\ stops' = stops

\* A step that strands and drops nothing.
LEMMA FreeStep ==
  ASSUME Shape, Shape', OneLossPerFault, Stranded' \subseteq Stranded,
         dropped' = dropped, CountsNone \/ CountsOne
  PROVE  OneLossPerFault'
<1>1. Cardinality(Stranded') <= Cardinality(Stranded)
  BY LossesAreFinite, FS_Subset
<1>2. Cardinality(Stranded') \in Nat
  BY LossesAreFinite, FS_Subset, FS_CardinalityType
<1>3. CASE CountsNone
  BY <1>1, <1>2, <1>3, LossesAreFinite DEF OneLossPerFault, CountsNone
<1>4. CASE faults' = faults + 1 /\ stops' = stops
  BY <1>1, <1>2, <1>4, LossesAreFinite DEF OneLossPerFault
<1>5. CASE faults' = faults /\ stops' = stops + 1
  BY <1>1, <1>2, <1>5, LossesAreFinite DEF OneLossPerFault
<1>6. QED  BY <1>3, <1>4, <1>5 DEF CountsOne

\* A step that strands one entry and counts a fault.
LEMMA StrandingStep ==
  ASSUME Shape, Shape', OneLossPerFault,
         NEW x, Stranded' \subseteq Stranded \cup {x},
         dropped' = dropped, CountsOne
  PROVE  OneLossPerFault'
<1>1. /\ Cardinality(Stranded') \in Nat
      /\ Cardinality(Stranded') <= Cardinality(Stranded) + 1
  BY LossesAreFinite, AtMostOneMore
<1>2. CASE faults' = faults + 1 /\ stops' = stops
  BY <1>1, <1>2, LossesAreFinite DEF OneLossPerFault
<1>3. CASE faults' = faults /\ stops' = stops + 1
  BY <1>1, <1>3, LossesAreFinite DEF OneLossPerFault
<1>4. QED  BY <1>2, <1>3 DEF CountsOne

\* A step that drops one entry and counts a fault.
LEMMA DroppingStep ==
  ASSUME Shape, Shape', OneLossPerFault, Stranded' = Stranded,
         NEW x, dropped' \subseteq dropped \cup {x},
         CountsOne
  PROVE  OneLossPerFault'
<1>1. /\ Cardinality(dropped') \in Nat
      /\ Cardinality(dropped') <= Cardinality(dropped) + 1
  BY LossesAreFinite, AtMostOneMore
<1>2. CASE faults' = faults + 1 /\ stops' = stops
  BY <1>1, <1>2, LossesAreFinite DEF OneLossPerFault
<1>3. CASE faults' = faults /\ stops' = stops + 1
  BY <1>1, <1>3, LossesAreFinite DEF OneLossPerFault
<1>4. QED  BY <1>2, <1>3 DEF CountsOne

LEMMA LossNext ==
  Shape /\ Delivery /\ OneLossPerFault /\ [Next]_vars => OneLossPerFault'
<1> SUFFICES ASSUME Shape, Delivery, OneLossPerFault, [Next]_vars
             PROVE  OneLossPerFault'
  OBVIOUS
<1> USE DEF streamVars, pendingVars, deadVars, workerVars, opVars, history,
            CountsNone, CountsOne
<1>a. Shape'
  BY ShapeNext
<1>b. /\ StreamType /\ WorkerType /\ HistoryType /\ HandShape
      /\ Untouched /\ HandledAtMostOnce /\ HeldIsPending
  BY DEF Shape, TypeOK, Delivery
<1>d. ASSUME UNCHANGED <<owner, wmsg, dropped>>, CountsNone \/ CountsOne
      PROVE  OneLossPerFault'
  BY <1>a, <1>d, FreeStep DEF Stranded, Pending, InHand
<1>1. ASSUME NEW m \in Msgs, Publish(m) PROVE OneLossPerFault'
  BY <1>1, <1>d DEF Publish
<1>2. ASSUME NEW i \in Ids, Age(i) PROVE OneLossPerFault'
  BY <1>2, <1>d DEF Age
<1>3. ASSUME NEW w \in Workers, WorkerSteps(w) PROVE OneLossPerFault'
  <2>1. CASE Start(w) \/ ReclaimRead(w)
    BY <2>1, <1>d DEF Start, ReclaimRead
  <2>2. CASE ReclaimClaim(w)
    <3>1. Pending' = Pending
      BY <2>2, NamesAssumption, <1>b DEF ReclaimClaim, Claimable, Pending
    <3>2. Stranded' = Stranded
      BY <3>1, <2>2 DEF ReclaimClaim, Stranded, InHand
    <3>3. QED
      BY <3>2, <2>2, <1>a, FreeStep DEF ReclaimClaim
  <2>3. CASE ReclaimError(w)
    <3>1. UNCHANGED <<owner, wmsg, dropped, stops>>
      BY <2>3 DEF ReclaimError
    <3>2. faults' = faults \/ faults' = faults + 1
      BY <2>3 DEF ReclaimError, Fault
    <3>3. QED  BY <3>1, <3>2, <1>d
  <2>4. CASE Deliver(w)
    <3>1. /\ \A i \in Ids : i # NextEntry => owner'[i] = owner[i]
          /\ wmsg' = [wmsg EXCEPT ![w] = NextEntry]
          /\ UNCHANGED <<dropped, faults, stops>>
      BY <2>4 DEF Deliver, HandOver
    <3>2. wmsg[w] = 0
      BY <2>4, <1>b DEF Deliver, HandOver, HandShape, HasEntry
    <3>3. NextEntry \in InHand'
      BY <3>1, <1>b DEF InHand, WorkerType
    <3>4. ASSUME NEW i \in Ids, i \in InHand PROVE i \in InHand'
      <4>1. PICK v \in Workers : wmsg[v] = i
        BY <3>4 DEF InHand
      <4>2. v # w
        BY <4>1, <3>2 DEF Ids
      <4>3. QED  BY <4>1, <4>2, <3>1, <1>b DEF InHand, WorkerType
    <3>5. Stranded' \subseteq Stranded
      BY <3>1, <3>3, <3>4 DEF Stranded, Pending
    <3>6. QED  BY <3>1, <3>5, <1>a, FreeStep
  <2>5. CASE DeliverLost(w)
    <3>1. /\ \A i \in Ids : i # NextEntry => owner'[i] = owner[i]
          /\ UNCHANGED <<wmsg, dropped>>
      BY <2>5 DEF DeliverLost, HandOver
    <3>2. Stranded' \subseteq Stranded \cup {NextEntry}
      BY <3>1 DEF Stranded, Pending, InHand
    <3>3. CountsOne
      BY <2>5 DEF DeliverLost, Fault, Cancel
    <3>4. QED  BY <3>1, <3>2, <3>3, <1>a, StrandingStep
  <2>6. ASSUME NEW ok \in BOOLEAN, HandlerReturns(w, ok)
        PROVE  OneLossPerFault'
    BY <2>6, <1>d DEF HandlerReturns
  <2>7. ASSUME NEW copies \in XAddCopies, MoveToDLQ(w, copies)
        PROVE  OneLossPerFault'
    <3>1. Stranded' = Stranded /\ UNCHANGED stops
      BY <2>7 DEF MoveToDLQ, Stranded, Pending, InHand
    <3>2. CASE copies = 0
      BY <2>7, <3>1, <3>2, <1>a, DroppingStep DEF MoveToDLQ, CountFault
    <3>3. CASE copies # 0
      <4>1. dropped' = dropped
        BY <2>7, <3>3 DEF MoveToDLQ
      <4>2. faults' = faults \/ faults' = faults + 1
        BY <2>7 DEF MoveToDLQ, CountFault
      <4>3. QED  BY <3>1, <4>1, <4>2, <1>a, FreeStep
    <3>4. QED  BY <3>2, <3>3
  <2>8. CASE Ack(w)
    <3>1. /\ \A i \in Ids : owner'[i] = IF i = wmsg[w] THEN Nobody ELSE owner[i]
          /\ wmsg' = [wmsg EXCEPT ![w] = 0]
          /\ UNCHANGED <<dropped, faults, stops>>
      BY <2>8 DEF Ack, AckedBy, Loop
    <3>2. ASSUME NEW i \in Stranded' PROVE i \in Stranded
      <4>1. i \in Pending /\ i # wmsg[w]
        BY <3>1 DEF Stranded, Pending
      <4>2. i \notin InHand
        <5>1. SUFFICES ASSUME NEW v \in Workers, wmsg[v] = i PROVE FALSE
          BY DEF InHand
        <5>2. v # w
          BY <5>1, <4>1
        <5>3. wmsg'[v] = i
          BY <5>1, <5>2, <3>1, <1>b DEF WorkerType
        <5>4. QED  BY <5>3 DEF Stranded, InHand
      <4>3. QED  BY <4>1, <4>2 DEF Stranded
    <3>3. QED  BY <3>1, <3>2, <1>a, FreeStep
  <2>9. CASE AckLost(w) \/ Crash(w)
    <3>1. /\ UNCHANGED <<owner, dropped, stops>> /\ faults' = faults + 1
          /\ wmsg' = [wmsg EXCEPT ![w] = 0]
      BY <2>9 DEF AckLost, Loop, Crash, GoDown, Fault
    <3>2. Stranded' \subseteq Stranded \cup {wmsg[w]}
      <4>1. SUFFICES ASSUME NEW i \in Stranded', i # wmsg[w] PROVE i \in Stranded
        OBVIOUS
      <4>2. ASSUME NEW v \in Workers, wmsg[v] = i PROVE FALSE
        <5>1. wmsg'[v] = i
          BY <4>1, <4>2, <3>1, <1>b DEF WorkerType
        <5>2. QED  BY <5>1 DEF Stranded, InHand
      <4>3. QED  BY <4>2, <3>1 DEF Stranded, Pending, InHand
    <3>3. QED  BY <3>1, <3>2, <1>a, StrandingStep
  <2>10. CASE Exit(w)
    <3>1. wmsg[w] = 0
      BY <2>10, <1>b DEF Exit, HandShape, HasEntry
    <3>2. UNCHANGED <<owner, wmsg, dropped, faults, stops>>
      BY <2>10, <3>1, <1>b DEF Exit, GoDown, WorkerType
    <3>3. QED  BY <3>2, <1>d
  <2>11. CASE Stop(w)
    BY <2>11, <1>d DEF Stop, Cancel
  <2>12. QED
    BY <1>3, <2>1, <2>2, <2>3, <2>4, <2>5, <2>6, <2>7, <2>8, <2>9, <2>10, <2>11
    DEF WorkerSteps
<1>4. ASSUME NEW o \in Operators, OperatorSteps(o) PROVE OneLossPerFault'
  <2>1. UNCHANGED <<owner, wmsg, dropped, stops>>
    BY <1>4 DEF OperatorSteps, ReplayRead, ReplayAdd, ReplayAbort, ReplayDelete,
                ReplayKilled
  <2>2. faults' = faults \/ faults' = faults + 1
    BY <1>4 DEF OperatorSteps, ReplayRead, ReplayAdd, ReplayAbort,
                ReplayDelete, ReplayKilled, Fault, CountFault
  <2>3. QED  BY <2>1, <2>2, <1>d
<1>5. CASE UNCHANGED vars
  BY <1>5, <1>d DEF vars
<1>6. QED
  BY <1>1, <1>2, <1>3, <1>4, <1>5 DEF Next

LEMMA LossInit == Init => OneLossPerFault
<1> SUFFICES ASSUME Init PROVE OneLossPerFault
  OBVIOUS
<1>1. Stranded = {} /\ dropped = {} /\ faults = 0 /\ stops = 0
  BY DEF Init, Stranded, Pending
<1>2. QED
  BY <1>1, FS_EmptySet DEF OneLossPerFault

\* A fault or a shutdown costs one message at most.
THEOREM LossBound == Spec => []OneLossPerFault
BY ShapeInit, ShapeNext, DeliveryInit, DeliveryNext, LossInit, LossNext, PTL
   DEF Spec

(***************************************************************************)
(* How often a dead letter can be put back.                                *)
(***************************************************************************)

Copies(d) == {i \in Entries : origin[i] = d}

\* The operators that may still put d back: those who have listed it, and while
\* it is in its stream all who have not just done so.
ToCome(d) ==
  {o \in Operators : IF d \in deadLive THEN d \notin odone[o]
                     ELSE d \in olist[o] /\ d \notin odone[o]}

\* An entry that replays a dead letter replays one that is there.
FromTheDead == \A i \in Entries : origin[i] <= deadAdded

\* Who has put d back and who still may: never more than there are operators,
\* and one more for each fault.
CopiesBound ==
  \A d \in DeadIds :
    Cardinality(Copies(d)) + Cardinality(ToCome(d)) <= Cardinality(Operators) + faults

LEMMA CopiesFinite ==
  ASSUME Shape, NEW d
  PROVE  /\ IsFiniteSet(Copies(d)) /\ IsFiniteSet(ToCome(d))
         /\ Cardinality(Copies(d)) \in Nat /\ Cardinality(ToCome(d)) \in Nat
         /\ Cardinality(ToCome(d)) <= Cardinality(Operators)
         /\ Cardinality(Operators) \in Nat /\ faults \in Nat
<1>1. IsFiniteSet(Ids) /\ Entries \subseteq Ids
  BY SizesAssumption, FS_Interval DEF Ids, Entries, Shape, TypeOK, StreamType
<1>2. Copies(d) \subseteq Ids /\ ToCome(d) \subseteq Operators
  BY <1>1 DEF Copies, ToCome
<1>3. /\ IsFiniteSet(Copies(d)) /\ IsFiniteSet(ToCome(d))
      /\ Cardinality(ToCome(d)) <= Cardinality(Operators)
  BY <1>1, <1>2, FS_Subset, OperatorsAssumption
<1>4. Cardinality(Operators) \in Nat
  BY FS_CardinalityType, OperatorsAssumption
<1>5. Cardinality(Copies(d)) \in Nat /\ Cardinality(ToCome(d)) \in Nat
  BY <1>3, FS_CardinalityType
<1>6. faults \in Nat
  BY SizesAssumption DEF Shape, TypeOK, HistoryType
<1>7. QED  BY <1>3, <1>4, <1>5, <1>6

\* Counting, in and out.
LEMMA OneGone ==
  ASSUME NEW S, IsFiniteSet(S), NEW x \in S, NEW T \in SUBSET (S \ {x})
  PROVE  /\ IsFiniteSet(T)
         /\ Cardinality(S) \in Nat /\ Cardinality(T) \in Nat
         /\ Cardinality(T) + 1 <= Cardinality(S)
<1>1. IsFiniteSet(S \ {x}) /\ Cardinality(S \ {x}) = Cardinality(S) - 1
  BY FS_RemoveElement
<1>2. IsFiniteSet(T) /\ Cardinality(T) <= Cardinality(S \ {x})
  BY <1>1, FS_Subset
<1>3. Cardinality(S) \in Nat /\ Cardinality(T) \in Nat
  BY <1>2, FS_CardinalityType
<1>4. QED  BY <1>1, <1>2, <1>3

\* What an XADD to the stream does to the copies of each dead letter.
LEMMA CopiesAdded ==
  ASSUME Shape, NEW n \in 0..2, NEW m, NEW e, XAdd(n, m, e)
  PROVE  /\ n = 0 => Copies(e)' = Copies(e)
         /\ n = 1 => Copies(e)' \subseteq Copies(e) \cup {added + 1}
         /\ Copies(e)' \subseteq (Copies(e) \cup {added + 1}) \cup {added + 2}
         /\ \A d : d # e => Copies(d)' = Copies(d)
<1>1. added \in 0..MaxEntries /\ MaxEntries \in Nat /\ added' = added + n
  BY SizesAssumption DEF Shape, TypeOK, StreamType, XAdd
<1>2. \A i \in Entries : i \in Entries' /\ origin'[i] = origin[i]
  BY <1>1 DEF XAdd, Entries, Ids
<1>3. \A i \in Entries' : i \notin Entries =>
        /\ origin'[i] = e /\ n # 0
        /\ i = added + 1 \/ (i = added + 2 /\ n = 2)
  BY <1>1 DEF XAdd, Entries, Ids
<1>4. QED  BY <1>2, <1>3 DEF Copies

\* The ways a step may change what is put back and what may still be.
Balanced(d) ==
  \/ Copies(d)' \subseteq Copies(d) /\ ToCome(d)' \subseteq ToCome(d) /\ faults' >= faults
  \/ Copies(d)' = {}
  \/ \E x : /\ Copies(d)' \subseteq Copies(d) \cup {x}
            /\ \E o \in ToCome(d) : ToCome(d)' \subseteq ToCome(d) \ {o}
            /\ faults' = faults
  \/ \E x, y : /\ Copies(d)' \subseteq (Copies(d) \cup {x}) \cup {y}
               /\ \E o \in ToCome(d) : ToCome(d)' \subseteq ToCome(d) \ {o}
               /\ faults' = faults + 1
  \/ \E x : /\ Copies(d)' \subseteq Copies(d) \cup {x}
            /\ ToCome(d)' \subseteq ToCome(d)
            /\ faults' = faults + 1
  \/ \E o : /\ Copies(d)' \subseteq Copies(d)
            /\ ToCome(d)' \subseteq ToCome(d) \cup {o}
            /\ faults' = faults + 1

LEMMA AtMostTwoMore ==
  ASSUME NEW S, IsFiniteSet(S), NEW x, NEW y, NEW T \in SUBSET ((S \cup {x}) \cup {y})
  PROVE  /\ Cardinality(S) \in Nat /\ Cardinality(T) \in Nat
         /\ Cardinality(T) <= Cardinality(S) + 2
<1>1. /\ IsFiniteSet(S \cup {x}) /\ Cardinality(S) \in Nat
      /\ Cardinality(S \cup {x}) \in Nat /\ Cardinality(S \cup {x}) <= Cardinality(S) + 1
  BY AtMostOneMore
<1> DEFINE U == S \cup {x}
<1> HIDE DEF U
<1>2. Cardinality(T) \in Nat /\ Cardinality(T) <= Cardinality(U) + 1
  BY <1>1, AtMostOneMore DEF U
<1>3. Cardinality(U) \in Nat /\ Cardinality(U) <= Cardinality(S) + 1 /\ Cardinality(S) \in Nat
  BY <1>1 DEF U
<1>4. QED  BY <1>2, <1>3

\* Every such change keeps the bound.
LEMMA BalancedStep ==
  ASSUME Shape, Shape', NEW d \in DeadIds, Balanced(d),
         Cardinality(Copies(d)) + Cardinality(ToCome(d)) <= Cardinality(Operators) + faults
  PROVE  Cardinality(Copies(d)') + Cardinality(ToCome(d)') <= Cardinality(Operators) + faults'
<1> DEFINE C == Copies(d)
           P == ToCome(d)
           D == Copies(d)'
           Q == ToCome(d)'
           N == Cardinality(Operators)
<1>1. /\ IsFiniteSet(C) /\ IsFiniteSet(P) /\ Cardinality(C) \in Nat /\ Cardinality(P) \in Nat
      /\ N \in Nat /\ faults \in Nat
  BY CopiesFinite
<1>2. /\ IsFiniteSet(D) /\ IsFiniteSet(Q) /\ Cardinality(D) \in Nat /\ Cardinality(Q) \in Nat
      /\ Cardinality(Q) <= N /\ faults' \in Nat
  <2>1. IsFiniteSet(Ids) /\ Entries' \subseteq Ids
    BY SizesAssumption, FS_Interval DEF Ids, Entries, Shape, TypeOK, StreamType
  <2>2. D \subseteq Ids /\ Q \subseteq Operators
    BY <2>1 DEF Copies, ToCome
  <2>3. IsFiniteSet(D) /\ IsFiniteSet(Q) /\ Cardinality(Q) <= N
    BY <2>1, <2>2, FS_Subset, OperatorsAssumption
  <2>4. faults' \in Nat
    BY SizesAssumption DEF Shape, TypeOK, HistoryType
  <2>5. QED  BY <2>3, <2>4, FS_CardinalityType
<1>3. \/ D \subseteq C /\ Q \subseteq P /\ faults' >= faults
      \/ D = {}
      \/ \E x : D \subseteq C \cup {x} /\ (\E o \in P : Q \subseteq P \ {o}) /\ faults' = faults
      \/ \E x, y : /\ D \subseteq (C \cup {x}) \cup {y}
                   /\ \E o \in P : Q \subseteq P \ {o}
                   /\ faults' = faults + 1
      \/ \E x : D \subseteq C \cup {x} /\ Q \subseteq P /\ faults' = faults + 1
      \/ \E o : D \subseteq C /\ Q \subseteq P \cup {o} /\ faults' = faults + 1
  BY DEF Balanced
<1> HIDE DEF C, P, D, Q, N
<1>4. ASSUME Q \subseteq P PROVE Cardinality(Q) <= Cardinality(P)
  BY <1>1, <1>4, FS_Subset
<1>5. ASSUME D \subseteq C PROVE Cardinality(D) <= Cardinality(C)
  BY <1>1, <1>5, FS_Subset
<1>6. ASSUME NEW x, D \subseteq C \cup {x} PROVE Cardinality(D) <= Cardinality(C) + 1
  BY <1>1, <1>6, AtMostOneMore
<1>7. ASSUME NEW x, NEW y, D \subseteq (C \cup {x}) \cup {y}
      PROVE Cardinality(D) <= Cardinality(C) + 2
  BY <1>1, <1>7, AtMostTwoMore
<1>8. ASSUME NEW o \in P, Q \subseteq P \ {o} PROVE Cardinality(Q) + 1 <= Cardinality(P)
  BY <1>1, <1>8, OneGone
<1>9. ASSUME NEW o, Q \subseteq P \cup {o} PROVE Cardinality(Q) <= Cardinality(P) + 1
  BY <1>1, <1>9, AtMostOneMore
<1>10. D = {} => Cardinality(D) = 0
  BY FS_EmptySet
<1> DEFINE a == Cardinality(C)
           b == Cardinality(P)
           c == Cardinality(D)
           t == Cardinality(Q)
<1>11. \/ c <= a /\ t <= b /\ faults' >= faults
       \/ c = 0 /\ t <= N
       \/ c <= a + 1 /\ t + 1 <= b /\ faults' = faults
       \/ c <= a + 2 /\ t + 1 <= b /\ faults' = faults + 1
       \/ c <= a + 1 /\ t <= b /\ faults' = faults + 1
       \/ c <= a /\ t <= b + 1 /\ faults' = faults + 1
  <2>1. QED  BY Zenon, <1>2, <1>3, <1>4, <1>5, <1>6, <1>7, <1>8, <1>9, <1>10
<1>12. a \in Nat /\ b \in Nat /\ c \in Nat /\ t \in Nat /\ N \in Nat /\ a + b <= N + faults
  BY <1>1, <1>2 DEF C, P, N
<1>13. c + t <= N + faults'
  <2> HIDE DEF a, b, c, t
  <2> DEFINE f == faults
             g == faults'
  <2>1. f \in Nat /\ g \in Nat  BY <1>1, <1>2
  <2>2. \/ c <= a /\ t <= b /\ g >= f
        \/ c = 0 /\ t <= N
        \/ c <= a + 1 /\ t + 1 <= b /\ g = f
        \/ c <= a + 2 /\ t + 1 <= b /\ g = f + 1
        \/ c <= a + 1 /\ t <= b /\ g = f + 1
        \/ c <= a /\ t <= b + 1 /\ g = f + 1
    BY <1>11
  <2>3. a + b <= N + f  BY <1>12
  <2> HIDE DEF f, g
  <2>4. c + t <= N + g  BY <1>12, <2>1, <2>2, <2>3
  <2>5. QED  BY <2>4 DEF g
<1>14. QED  BY <1>13 DEF D, Q, N

LEMMA FromTheDeadNext ==
  ASSUME Shape, Shape', FromTheDead, [Next]_vars
  PROVE  FromTheDead'
<1> USE DEF streamVars, pendingVars, deadVars, workerVars, opVars, history
<1>1. ASSUME UNCHANGED <<added, origin>>, deadAdded' >= deadAdded
      PROVE  FromTheDead'
  BY <1>1, SizesAssumption
  DEF FromTheDead, Entries, Ids, Shape, TypeOK, StreamType, DeadType
<1>2. ASSUME NEW n \in 0..2, NEW m, NEW e \in 0..deadAdded, XAdd(n, m, e),
             UNCHANGED deadAdded
      PROVE  FromTheDead'
  <2>1. added \in 0..MaxEntries /\ MaxEntries \in Nat /\ added' = added + n
    BY <1>2, SizesAssumption DEF Shape, TypeOK, StreamType, XAdd
  <2>2. \A i \in Entries' : (i \in Entries /\ origin'[i] = origin[i]) \/ origin'[i] = e
    BY <1>2, <2>1 DEF XAdd, Entries, Ids
  <2>3. QED  BY <1>2, <2>2, SizesAssumption DEF FromTheDead, Shape, TypeOK, DeadType
<1>3. deadAdded \in Nat /\ deadAdded' \in Nat
  BY SizesAssumption DEF Shape, TypeOK, DeadType
<1>4. ASSUME NEW m \in Msgs, Publish(m) PROVE FromTheDead'
  BY <1>2, <1>3, <1>4 DEF Publish
<1>5. ASSUME NEW i \in Ids, Age(i) PROVE FromTheDead'
  BY <1>1, <1>3, <1>5 DEF Age
<1>6. ASSUME NEW w \in Workers, WorkerSteps(w) PROVE FromTheDead'
  <2>1. UNCHANGED <<added, origin>>
    BY <1>6 DEF WorkerSteps, Start, ReclaimRead, ReclaimClaim, ReclaimError, Deliver,
        DeliverLost, HandOver, HandlerReturns, Ack, AckLost, Exit, Stop, Crash, MoveToDLQ
  <2>2. deadAdded' >= deadAdded
    <3>1. ASSUME NEW copies \in XAddCopies, MoveToDLQ(w, copies) PROVE deadAdded' >= deadAdded
      BY <1>3, <3>1 DEF MoveToDLQ, DeadAdd, XAddCopies
    <3>2. CASE \A copies \in XAddCopies : ~MoveToDLQ(w, copies)
      BY <1>3, <1>6, <3>2
      DEF WorkerSteps, Start, ReclaimRead, ReclaimClaim, ReclaimError, Deliver,
          DeliverLost, HandOver, HandlerReturns, Ack, AckLost, Exit, Stop, Crash
    <3>3. QED  BY <3>1, <3>2
  <2>3. QED  BY <1>1, <2>1, <2>2
<1>7. ASSUME NEW o \in Operators, OperatorSteps(o) PROVE FromTheDead'
  <2>1. UNCHANGED deadAdded
    BY <1>7 DEF OperatorSteps, ReplayRead, ReplayAdd, ReplayAbort, ReplayDelete, ReplayKilled
  <2>2. ASSUME NEW d, d \in olist[o], NEW n \in 0..2, XAdd(n, msg[dead[d]], d)
        PROVE  FromTheDead'
    <3>1. d \in 0..deadAdded
      BY <1>3, <2>2 DEF Shape, TypeOK, OperatorType
    <3>2. QED  BY <1>2, <2>1, <2>2, <3>1
  <2>3. ASSUME NEW d \in DeadIds, NEW copies \in XAddCopies, ReplayAdd(o, d, copies)
        PROVE  FromTheDead'
    BY <2>2, <2>3 DEF ReplayAdd, NextReplay, XAddCopies
  <2>4. ASSUME NEW d \in DeadIds, NEW copies \in {0, 1}, NEW deleted \in {{}, ToDelete(o)},
               ReplayAbort(o, d, copies, deleted)
        PROVE  FromTheDead'
    BY <2>2, <2>4 DEF ReplayAbort, NextReplay
  <2>5. CASE ReplayRead(o) \/ ReplayDelete(o) \/ ReplayKilled(o)
    BY <1>1, <1>3, <2>1, <2>5 DEF ReplayRead, ReplayDelete, ReplayKilled
  <2>6. QED  BY <1>7, <2>3, <2>4, <2>5 DEF OperatorSteps
<1>8. CASE UNCHANGED vars
  BY <1>1, <1>3, <1>8 DEF vars
<1>9. QED
  BY <1>4, <1>5, <1>6, <1>7, <1>8 DEF Next

\* Every step is such a change.
LEMMA BalancedNext ==
  ASSUME Shape, Shape', FromTheDead, [Next]_vars, NEW d \in DeadIds
  PROVE  Balanced(d)
<1> USE DEF streamVars, pendingVars, deadVars, workerVars, opVars, history
<1>1. faults \in Nat /\ OperatorType
  BY SizesAssumption DEF Shape, TypeOK, HistoryType
<1>2. ASSUME UNCHANGED <<added, origin, deadLive, olist, odone>>,
             faults' = faults \/ faults' = faults + 1
      PROVE  Balanced(d)
  <2>1. Copies(d)' = Copies(d) /\ ToCome(d)' = ToCome(d)
    BY <1>2 DEF Copies, ToCome, Entries
  <2>2. QED  BY <1>1, <1>2, <2>1 DEF Balanced
<1>3. ASSUME NEW m \in Msgs, Publish(m) PROVE Balanced(d)
  <2>1. Copies(d)' = Copies(d)
    BY <1>3, CopiesAdded DEF Publish, DeadIds
  <2>2. ToCome(d)' = ToCome(d)  BY <1>3 DEF Publish, ToCome
  <2>3. faults' >= faults  BY <1>1, <1>3 DEF Publish, CountFault
  <2>4. QED  BY <2>1, <2>2, <2>3 DEF Balanced
<1>4. ASSUME NEW i \in Ids, Age(i) PROVE Balanced(d)
  BY <1>2, <1>4 DEF Age
<1>5. ASSUME NEW w \in Workers, WorkerSteps(w) PROVE Balanced(d)
  <2>1. ASSUME NEW copies \in XAddCopies, MoveToDLQ(w, copies) PROVE Balanced(d)
    <3>1. UNCHANGED <<added, origin, olist, odone>> /\ Copies(d)' = Copies(d)
      BY <2>1 DEF MoveToDLQ, Copies, Entries
    <3>2. faults' >= faults  BY <1>1, <2>1 DEF MoveToDLQ, CountFault
    <3>3. CASE d <= deadAdded
      <4>1. d \in deadLive' <=> d \in deadLive
        BY <2>1, <3>3, SizesAssumption
        DEF MoveToDLQ, DeadAdd, XAddCopies, Shape, TypeOK, DeadType, DeadIds
      <4>2. ToCome(d)' = ToCome(d)  BY <3>1, <4>1 DEF ToCome
      <4>3. QED  BY <3>1, <3>2, <4>2 DEF Balanced
    <3>4. CASE ~(d <= deadAdded)
      <4>1. Copies(d) = {}  BY <3>4 DEF FromTheDead, Copies
      <4>2. QED  BY <3>1, <4>1 DEF Balanced
    <3>5. QED  BY <3>3, <3>4
  <2>2. CASE \A copies \in XAddCopies : ~MoveToDLQ(w, copies)
    BY <1>2, <1>5, <2>2
    DEF WorkerSteps, Start, ReclaimRead, ReclaimClaim, ReclaimError, Deliver, DeliverLost,
        HandOver, HandlerReturns, Ack, AckLost, Exit, Stop, Crash, Fault, Cancel, GoDown,
        Loop
  <2>3. QED  BY <2>1, <2>2
<1>6. ASSUME NEW o \in Operators, OperatorSteps(o) PROVE Balanced(d)
  <2>1. CASE ReplayRead(o)
    <3>1. /\ UNCHANGED <<added, origin, deadLive, odone, faults>>
          /\ \A p \in Operators : p # o => olist'[p] = olist[p]
          /\ olist'[o] \subseteq deadLive
      BY <1>1, <2>1 DEF ReplayRead, FirstN, OperatorType
    <3>2. Copies(d)' = Copies(d)  BY <3>1 DEF Copies, Entries
    <3>3. ToCome(d)' \subseteq ToCome(d)  BY <3>1 DEF ToCome
    <3>4. QED  BY <1>1, <3>1, <3>2, <3>3 DEF Balanced
  <2>2. ASSUME NEW e \in DeadIds, NEW copies \in XAddCopies, ReplayAdd(o, e, copies)
        PROVE  Balanced(d)
    <3>1. /\ XAdd(copies, msg[dead[e]], e) /\ copies \in {1, 2}
          /\ e \in olist[o] /\ e \notin odone[o]
          /\ UNCHANGED <<deadLive, olist>>
          /\ \A p \in Operators : odone'[p] = IF p = o THEN odone[o] \cup {e} ELSE odone[p]
          /\ IF copies = 1 THEN faults' = faults ELSE faults' = faults + 1
      BY <1>1, <2>2 DEF ReplayAdd, NextReplay, XAddCopies, CountFault, OperatorType
    <3>2. CASE d # e
      <4>1. Copies(d)' = Copies(d)  BY <3>1, <3>2, CopiesAdded
      <4>2. ToCome(d)' = ToCome(d)  BY <3>1, <3>2 DEF ToCome
      <4>3. faults' >= faults  BY <1>1, <3>1
      <4>4. QED  BY <4>1, <4>2, <4>3 DEF Balanced
    <3>3. CASE d = e
      <4>1. o \in ToCome(d) /\ ToCome(d)' \subseteq ToCome(d) \ {o}
        BY <3>1, <3>3 DEF ToCome
      <4>2. CASE copies = 1
        <5>1. Copies(d)' \subseteq Copies(d) \cup {added + 1} /\ faults' = faults
          BY <3>1, <3>3, <4>2, CopiesAdded
        <5>2. QED  BY <4>1, <5>1 DEF Balanced
      <4>3. CASE copies = 2
        <5>1. /\ Copies(d)' \subseteq (Copies(d) \cup {added + 1}) \cup {added + 2}
              /\ faults' = faults + 1
          BY <3>1, <3>3, <4>3, CopiesAdded
        <5>2. \E x, y : /\ Copies(d)' \subseteq (Copies(d) \cup {x}) \cup {y}
                        /\ \E p \in ToCome(d) : ToCome(d)' \subseteq ToCome(d) \ {p}
                        /\ faults' = faults + 1
          <6>1. \E p \in ToCome(d) : ToCome(d)' \subseteq ToCome(d) \ {p}
            BY <4>1
          <6>2. WITNESS added + 1, added + 2
          <6>3. QED  BY <5>1, <6>1
        <5>3. QED  BY <5>2 DEF Balanced
      <4>4. QED  BY <3>1, <4>2, <4>3
    <3>4. QED  BY <3>2, <3>3
  <2>3. ASSUME NEW e \in DeadIds, NEW copies \in {0, 1}, NEW deleted \in {{}, ToDelete(o)},
               ReplayAbort(o, e, copies, deleted)
        PROVE  Balanced(d)
    <3>1. /\ XAdd(copies, msg[dead[e]], e) /\ faults' = faults + 1
          /\ e \in olist[o] /\ e \notin odone[o]
          /\ deadLive' = deadLive \ deleted /\ deleted \subseteq odone[o]
          /\ \A p \in Operators : /\ odone'[p] = IF p = o THEN {} ELSE odone[p]
                                  /\ olist'[p] = IF p = o THEN {} ELSE olist[p]
      BY <1>1, <2>3 DEF ReplayAbort, NextReplay, Fault, OperatorDone, OperatorType, ToDelete
    <3>2. CASE d # e
      <4>1. Copies(d)' = Copies(d)  BY <3>1, <3>2, CopiesAdded
      <4>2. ToCome(d)' \subseteq ToCome(d) \cup {o}  BY <3>1 DEF ToCome
      <4>3. QED  BY <3>1, <4>1, <4>2 DEF Balanced
    <3>3. CASE d = e
      <4>1. Copies(d)' \subseteq Copies(d) \cup {added + 1}
        BY <3>1, <3>3, CopiesAdded
      <4>2. ToCome(d)' \subseteq ToCome(d)  BY <3>1, <3>3 DEF ToCome
      <4>3. QED  BY <3>1, <4>1, <4>2 DEF Balanced
    <3>4. QED  BY <3>2, <3>3
  <2>4. CASE ReplayDelete(o)
    <3>1. /\ UNCHANGED <<added, origin, faults>> /\ deadLive' = deadLive \ odone[o]
          /\ \A p \in Operators : /\ odone'[p] = IF p = o THEN {} ELSE odone[p]
                                  /\ olist'[p] = IF p = o THEN {} ELSE olist[p]
      BY <1>1, <2>4 DEF ReplayDelete, OperatorDone, OperatorType, ToDelete
    <3>2. Copies(d)' = Copies(d)  BY <3>1 DEF Copies, Entries
    <3>3. ToCome(d)' \subseteq ToCome(d)  BY <3>1 DEF ToCome
    <3>4. QED  BY <1>1, <3>1, <3>2, <3>3 DEF Balanced
  <2>5. CASE ReplayKilled(o)
    <3>1. /\ UNCHANGED <<added, origin, deadLive>> /\ faults' = faults + 1
          /\ \A p \in Operators : /\ odone'[p] = IF p = o THEN {} ELSE odone[p]
                                  /\ olist'[p] = IF p = o THEN {} ELSE olist[p]
      BY <1>1, <2>5 DEF ReplayKilled, OperatorDone, OperatorType, Fault
    <3>2. Copies(d)' = Copies(d)  BY <3>1 DEF Copies, Entries
    <3>3. ToCome(d)' \subseteq ToCome(d) \cup {o}  BY <3>1 DEF ToCome
    <3>4. QED  BY <3>1, <3>2, <3>3 DEF Balanced
  <2>6. QED
    BY <1>6, <2>1, <2>2, <2>3, <2>4, <2>5 DEF OperatorSteps
<1>7. CASE UNCHANGED vars
  BY <1>2, <1>7 DEF vars
<1>8. QED
  BY <1>3, <1>4, <1>5, <1>6, <1>7 DEF Next

LEMMA CopiesInit == Init => FromTheDead /\ CopiesBound
<1> SUFFICES ASSUME Init PROVE FromTheDead /\ CopiesBound
  OBVIOUS
<1>1. Entries = {} /\ faults = 0
  BY DEF Init, Entries
<1>2. FromTheDead
  BY <1>1 DEF FromTheDead
<1>3. ASSUME NEW d \in DeadIds
      PROVE  Cardinality(Copies(d)) + Cardinality(ToCome(d)) <= Cardinality(Operators) + faults
  <2>1. Copies(d) = {} /\ Cardinality(Copies(d)) = 0
    BY <1>1, FS_EmptySet DEF Copies
  <2>2. /\ Cardinality(ToCome(d)) \in Nat /\ Cardinality(Operators) \in Nat
        /\ Cardinality(ToCome(d)) <= Cardinality(Operators)
    BY ShapeInit, CopiesFinite
  <2>3. QED  BY <1>1, <2>1, <2>2
<1>4. QED  BY <1>2, <1>3 DEF CopiesBound

LEMMA CopiesNext ==
  Shape /\ Shape' /\ FromTheDead /\ CopiesBound /\ [Next]_vars => FromTheDead' /\ CopiesBound'
<1> SUFFICES ASSUME Shape, Shape', FromTheDead, CopiesBound, [Next]_vars
             PROVE  FromTheDead' /\ CopiesBound'
  OBVIOUS
<1>1. FromTheDead'
  BY FromTheDeadNext
<1>2. ASSUME NEW d \in DeadIds
      PROVE  Cardinality(Copies(d)') + Cardinality(ToCome(d)') <= Cardinality(Operators) + faults'
  BY BalancedNext, BalancedStep DEF CopiesBound
<1>3. QED  BY <1>1, <1>2 DEF CopiesBound

\* A dead letter is put back at most once by each operator at work at the same
\* time, and once more for every replay that goes wrong.
THEOREM ReplayBound == Spec => []ReplayedOncePerOperator
<1>1. Spec => [](Shape /\ CopiesBound)
  BY ShapeInit, ShapeNext, CopiesInit, CopiesNext, PTL DEF Spec
<1>2. Shape /\ CopiesBound => ReplayedOncePerOperator
  <2> SUFFICES ASSUME Shape, CopiesBound, NEW d \in DeadIds
               PROVE  Cardinality(Copies(d)) <= Cardinality(Operators) + faults
    BY DEF ReplayedOncePerOperator, Copies
  <2>1. Cardinality(Copies(d)) + Cardinality(ToCome(d)) <= Cardinality(Operators) + faults
    BY DEF CopiesBound
  <2>2. QED  BY <2>1, CopiesFinite
<1>3. QED  BY <1>1, <1>2, PTL

(***************************************************************************)
(* The worker implements AtMostOnceQueue.                                  *)
(***************************************************************************)

\* A step that changes neither which entries are in use, delivered and pending,
\* nor how a settled one ended, is a stutter of the queue.
LEMMA SamePhase ==
  ASSUME UNCHANGED <<added, lastDelivered>>,
         \A i \in Ids : owner'[i] = Nobody <=> owner[i] = Nobody,
         \A i \in Ids : owner[i] = Nobody =>
           outcome'[i] = outcome[i] /\ (i \in dropped' <=> i \in dropped)
  PROVE  UNCHANGED Phase
BY DEF Phase

LEMMA AddRefines ==
  ASSUME Shape, NEW n \in 0..2, NEW m, NEW e, XAdd(n, m, e),
         UNCHANGED <<owner, outcome, dropped>>
  PROVE  [Queue!Next]_Phase
<1>1. /\ added \in 0..MaxEntries /\ added' = added + n /\ added' \in 0..MaxEntries
      /\ lastDelivered \in 0..added /\ UNCHANGED lastDelivered
  BY SizesAssumption DEF Shape, TypeOK, StreamType, XAdd
<1>2. CASE n = 0
  <2>1. UNCHANGED added
    BY <1>1, <1>2
  <2>2. QED  BY <1>1, <2>1, SamePhase
<1>3. CASE n # 0
  <2>1. added' \in Ids /\ Phase[added'] = "absent"
    BY <1>1, <1>3, SizesAssumption DEF Phase, Ids
  <2>2. Phase' = [j \in Ids |-> IF Phase[j] = "absent" /\ j <= added'
                                THEN "queued" ELSE Phase[j]]
    <3>1. SUFFICES ASSUME NEW j \in Ids
                   PROVE  Phase'[j] = IF Phase[j] = "absent" /\ j <= added'
                                      THEN "queued" ELSE Phase[j]
      BY DEF Phase
    <3>2. CASE j <= added
      BY <3>2, <1>1 DEF Phase, Ids
    <3>3. CASE added < j
      BY <3>3, <1>1 DEF Phase, Ids
    <3>4. QED  BY <3>2, <3>3, <1>1 DEF Ids
  <2>3. Queue!Add(added')
    BY <2>1, <2>2 DEF Queue!Add
  <2>4. QED  BY <2>1, <2>3 DEF Queue!Next
<1>4. QED  BY <1>2, <1>3

LEMMA TakeRefines ==
  ASSUME Shape, Delivery, NEW w \in Workers, HandOver(w), UNCHANGED dropped,
         \A i \in Ids : i # NextEntry => outcome'[i] = outcome[i]
  PROVE  Queue!Next
<1>1. /\ added \in 0..MaxEntries /\ lastDelivered \in 0..added
      /\ owner \in [Ids -> Workers \cup {Nobody, Reclaimer}]
  BY SizesAssumption DEF Shape, TypeOK, StreamType
<1>2. /\ NextEntry \in Ids /\ NextEntry = lastDelivered + 1 /\ NextEntry <= added
      /\ lastDelivered' = NextEntry /\ UNCHANGED added
      /\ owner' = [owner EXCEPT ![NextEntry] = w]
  BY <1>1, SizesAssumption DEF HandOver, HasNext, NextEntry, Ids
<1>3. Phase[NextEntry] = "queued"
  BY <1>1, <1>2 DEF Phase
<1>4. \A j \in Ids : Phase[j] = "queued" => NextEntry <= j
  BY <1>1, <1>2 DEF Phase, Ids
<1>5. Phase' = [Phase EXCEPT ![NextEntry] = "held"]
  <2>1. SUFFICES ASSUME NEW j \in Ids
                 PROVE  Phase'[j] = IF j = NextEntry THEN "held" ELSE Phase[j]
    BY <1>2 DEF Phase
  <2>2. CASE j = NextEntry
    BY <2>2, <1>1, <1>2, NamesAssumption DEF Phase
  <2>3. CASE j # NextEntry
    <3>1. (j > lastDelivered' <=> j > lastDelivered) /\ owner'[j] = owner[j]
      BY <2>3, <1>1, <1>2 DEF Ids
    <3>2. QED  BY <2>3, <3>1, <1>2 DEF Phase
  <2>4. QED  BY <2>2, <2>3
<1>6. QED
  BY <1>2, <1>3, <1>4, <1>5 DEF Queue!Next, Queue!Take

LEMMA SettleRefines ==
  ASSUME Shape, Delivery, NEW w \in Workers, Ack(w)
  PROVE  Queue!Next
<1>1. /\ wmsg[w] \in Ids /\ wmsg[w] # 0 /\ wmsg[w] <= lastDelivered
      /\ added \in Nat /\ lastDelivered \in 0..added
  BY SizesAssumption DEF Ack, Shape, TypeOK, StreamType, WorkerType, HandShape,
     HasEntry, Ids
<1>2. owner[wmsg[w]] # Nobody
  BY <1>1 DEF Delivery, HeldIsPending
<1>3. /\ UNCHANGED <<added, lastDelivered, outcome, dropped>>
      /\ owner' = [i \in Ids |-> IF i = wmsg[w] THEN Nobody ELSE owner[i]]
  BY DEF Ack, AckedBy, streamVars, history
<1>a. ~(wmsg[w] > added) /\ ~(wmsg[w] > lastDelivered)
  BY <1>1 DEF Ids
<1>4. Phase[wmsg[w]] = "held"
  BY <1>1, <1>a, <1>2 DEF Phase
<1>b. Phase'[wmsg[w]] = IF outcome[wmsg[w]] = "ok" THEN "done"
                        ELSE IF wmsg[w] \in dropped THEN "dropped" ELSE "dead"
  BY <1>1, <1>a, <1>3 DEF Phase
<1>5. PICK fate \in Queue!Fates : Phase'[wmsg[w]] = fate
  BY <1>b DEF Queue!Fates
<1>6. Phase' = [Phase EXCEPT ![wmsg[w]] = fate]
  <2>1. SUFFICES ASSUME NEW j \in Ids
                 PROVE  Phase'[j] = IF j = wmsg[w] THEN fate ELSE Phase[j]
    BY <1>1 DEF Phase
  <2>2. CASE j = wmsg[w]
    BY <2>2, <1>5
  <2>3. CASE j # wmsg[w]
    BY <2>3, <1>3 DEF Phase
  <2>4. QED  BY <2>2, <2>3
<1>7. QED
  BY <1>1, <1>4, <1>6 DEF Queue!Next, Queue!Settle

LEMMA QueueNext ==
  Shape /\ Delivery /\ [Next]_vars => [Queue!Next]_Phase
<1> SUFFICES ASSUME Shape, Delivery, [Next]_vars PROVE [Queue!Next]_Phase
  OBVIOUS
<1> USE DEF streamVars, pendingVars, deadVars, workerVars, opVars, history
<1>a. ASSUME UNCHANGED <<added, lastDelivered, owner, outcome, dropped>>
      PROVE  [Queue!Next]_Phase
  BY <1>a, SamePhase
<1>b. /\ WorkerType /\ StreamType /\ HandShape /\ HeldIsPending /\ HistoryType
  BY DEF Shape, TypeOK, Delivery
<1>1. ASSUME NEW m \in Msgs, Publish(m) PROVE [Queue!Next]_Phase
  BY <1>1, AddRefines DEF Publish
<1>2. ASSUME NEW i \in Ids, Age(i) PROVE [Queue!Next]_Phase
  BY <1>2, <1>a DEF Age
<1>3. ASSUME NEW w \in Workers, WorkerSteps(w) PROVE [Queue!Next]_Phase
  <2>1. CASE \/ Start(w) \/ ReclaimRead(w) \/ ReclaimError(w)
             \/ AckLost(w) \/ Exit(w) \/ Stop(w) \/ Crash(w)
    BY <2>1, <1>a DEF Start, ReclaimRead, ReclaimError, AckLost, Exit, Stop, Crash
  <2>2. CASE ReclaimClaim(w)
    <3>1. \A i \in Ids : owner'[i] = Nobody <=> owner[i] = Nobody
      BY <2>2, NamesAssumption DEF ReclaimClaim, Claimable, Pending
    <3>2. UNCHANGED <<added, lastDelivered, outcome, dropped>>
      BY <2>2 DEF ReclaimClaim
    <3>3. QED  BY <3>1, <3>2, SamePhase
  <2>3. CASE Deliver(w)
    <3>1. HandOver(w) /\ UNCHANGED dropped
      BY <2>3 DEF Deliver
    <3>2. \A i \in Ids : i # NextEntry => outcome'[i] = outcome[i]
      BY <2>3, <1>b DEF Deliver, HistoryType
    <3>3. QED  BY <3>1, <3>2, TakeRefines
  <2>4. CASE DeliverLost(w)
    <3>1. HandOver(w) /\ UNCHANGED <<dropped, outcome>>
      BY <2>4 DEF DeliverLost
    <3>2. QED  BY <3>1, TakeRefines
  <2>5. ASSUME NEW ok \in BOOLEAN, HandlerReturns(w, ok)
        PROVE  [Queue!Next]_Phase
    <3>1. owner[wmsg[w]] # Nobody
      BY <2>5, <1>b DEF HandlerReturns, HandShape, HasEntry, HeldIsPending
    <3>2. UNCHANGED <<added, lastDelivered, owner, dropped>>
      BY <2>5 DEF HandlerReturns
    <3>3. \A i \in Ids : i # wmsg[w] => outcome'[i] = outcome[i]
      BY <2>5, <1>b DEF HandlerReturns, HistoryType
    <3>4. QED  BY <3>1, <3>2, <3>3, SamePhase
  <2>6. ASSUME NEW copies \in XAddCopies, MoveToDLQ(w, copies)
        PROVE  [Queue!Next]_Phase
    <3>1. owner[wmsg[w]] # Nobody
      BY <2>6, <1>b DEF MoveToDLQ, HandShape, HasEntry, HeldIsPending
    <3>2. UNCHANGED <<added, lastDelivered, owner, outcome>>
      BY <2>6 DEF MoveToDLQ
    <3>3. \A i \in Ids : i # wmsg[w] => (i \in dropped' <=> i \in dropped)
      BY <2>6 DEF MoveToDLQ
    <3>4. QED  BY <3>1, <3>2, <3>3, SamePhase
  <2>7. CASE Ack(w)
    BY <2>7, SettleRefines
  <2>8. QED
    BY <1>3, <2>1, <2>2, <2>3, <2>4, <2>5, <2>6, <2>7 DEF WorkerSteps
<1>4. ASSUME NEW o \in Operators, OperatorSteps(o) PROVE [Queue!Next]_Phase
  <2>1. CASE ReplayRead(o) \/ ReplayDelete(o) \/ ReplayKilled(o)
    BY <2>1, <1>a DEF ReplayRead, ReplayDelete, ReplayKilled
  <2>2. ASSUME NEW d \in DeadIds, NEW copies \in XAddCopies, ReplayAdd(o, d, copies)
        PROVE  [Queue!Next]_Phase
    <3>1. /\ copies \in 0..2 /\ XAdd(copies, msg[dead[d]], d)
          /\ UNCHANGED <<owner, outcome, dropped>>
      BY <2>2 DEF ReplayAdd, XAddCopies
    <3>2. QED  BY <3>1, AddRefines
  <2>3. ASSUME NEW d \in DeadIds, NEW copies \in {0, 1},
               NEW deleted \in {{}, ToDelete(o)},
               ReplayAbort(o, d, copies, deleted)
        PROVE  [Queue!Next]_Phase
    <3>1. /\ copies \in 0..2 /\ XAdd(copies, msg[dead[d]], d)
          /\ UNCHANGED <<owner, outcome, dropped>>
      BY <2>3 DEF ReplayAbort
    <3>2. QED  BY <3>1, AddRefines
  <2>4. QED
    BY <1>4, <2>1, <2>2, <2>3 DEF OperatorSteps
<1>5. CASE UNCHANGED vars
  BY <1>5, <1>a DEF vars
<1>6. QED
  BY <1>1, <1>2, <1>3, <1>4, <1>5 DEF Next

\* Every behaviour of the workers, with all their faults, is one of an
\* at-most-once first-in-first-out queue.
THEOREM Refinement == Spec => ImplementsQueue
<1>1. Init => Queue!Init
  BY DEF Init, Phase, Queue!Init, Ids
<1>2. Shape /\ Delivery /\ [Next]_vars => [Queue!Next]_Phase
  BY QueueNext
<1>3. QED
  BY <1>1, <1>2, DeliveryInvariant, PTL DEF Spec, ImplementsQueue, Queue!Spec

=============================================================================
