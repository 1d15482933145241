---------------------------- MODULE StreamWorker ----------------------------
(***************************************************************************)
(* The queue layer of the system: one Redis stream read by a consumer      *)
(* group of workers (common/worker/worker.go), its dead-letter stream, and *)
(* the operators who replay that stream (cmd/admin/dlq.go).  The renderer  *)
(* and the distributor are both this worker around a handler; here the     *)
(* handler is its outcome.                                                 *)
(*                                                                         *)
(* A stream entry is its position: Redis hands out growing IDs and the     *)
(* program never trims render_jobs or distribution_jobs.  What Redis does  *)
(* for a command (XADD, XREADGROUP, XPENDING, XCLAIM, XACK, XRANGE, XDEL)  *)
(* is one atomic step; the reply may be lost, and the program's next       *)
(* command is a step of its own.                                           *)
(***************************************************************************)
EXTENDS Naturals, FiniteSets

CONSTANTS
  Msgs,             \* the messages a producer may publish
  Malformed,        \* those without a string "payload" field
  NoMsg,            \* what an ID that is not in use yet holds
  Workers,          \* the processes of the consumer group
  Operators,        \* people running "dlq replay" on this stream
  Nobody,           \* the owner of an entry that is not pending
  Reclaimer,        \* the throwaway consumer that XCLAIM names
  MaxReclaimBatch,  \* Config.MaxReclaimBatch
  ReplayLimit,      \* the --limit of "dlq replay"
  MaxEntries,       \* bound: entries ever added to the stream
  MaxDead,          \* bound: entries ever added to the dead-letter stream
  MaxFaults,        \* bound: crashes, lost replies, failed writes
  MaxStops          \* bound: graceful shutdowns

ASSUME SizesAssumption ==
  /\ MaxReclaimBatch \in Nat \ {0}
  /\ ReplayLimit \in Nat \ {0}
  /\ MaxEntries \in Nat
  /\ MaxDead \in Nat
  /\ MaxFaults \in Nat
  /\ MaxStops \in Nat

ASSUME OperatorsAssumption == IsFiniteSet(Operators)

ASSUME NamesAssumption ==
  /\ Malformed \subseteq Msgs
  /\ NoMsg \notin Msgs
  /\ Nobody \notin Workers
  /\ Reclaimer \notin Workers
  /\ Nobody # Reclaimer

VARIABLES
  added,          \* how many entries the stream has had; the last ID
  msg,            \* the message of each entry
  origin,         \* the dead-letter entry it is a replay of, 0 if none
  lastDelivered,  \* the group's last-delivered ID
  owner,          \* the group's pending entries list: who was handed what
  stale,          \* the pending entries idle for longer than StuckThreshold
  deadAdded,      \* how many entries the dead-letter stream has had
  dead,           \* the stream entry that each of them copies
  deadLive,       \* those not yet removed by XDEL
  wpc,            \* where each worker is in Run
  wmsg,           \* the entry in its hands, 0 if none
  wclaim,         \* its toReclaim, between XPENDING and XCLAIM
  stopping,       \* its context is cancelled (SIGTERM)
  opc,            \* where each operator is in "dlq replay"
  olist,          \* the dead-letter entries it has listed
  odone,          \* its messageIDsToAck
  runs,           \* history: how often the handler was called on each entry
  outcome,        \* history: how the last call ended
  dropped,        \* history: entries whose copy to the dead letters failed
  faults,         \* how many faults there have been
  stops           \* how many graceful shutdowns

streamVars  == <<added, msg, origin, lastDelivered>>
pendingVars == <<owner, stale>>
deadVars    == <<deadAdded, dead, deadLive>>
workerVars  == <<wpc, wmsg, wclaim, stopping>>
opVars      == <<opc, olist, odone>>
history     == <<runs, outcome, dropped>>
vars == <<streamVars, pendingVars, deadVars, workerVars, opVars, history,
          faults, stops>>

Ids     == 1..MaxEntries
DeadIds == 1..MaxDead

(***************************************************************************)
(* Derived state.                                                          *)
(***************************************************************************)

Entries == 1..added
Pending == {i \in Ids : owner[i] # Nobody}
Acked   == {i \in Ids : i <= lastDelivered /\ owner[i] = Nobody}
InHand  == {wmsg[w] : w \in Workers}

\* Pending, and no live worker has it: its worker crashed with it, or never
\* got the reply that delivered it, or its XACK was lost.
Stranded == {i \in Pending : i \notin InHand}

\* The n smallest members of S: what a COUNT n leaves of a range reply.
FirstN(S, n) == {i \in S : Cardinality({j \in S : j < i}) < n}

\* One more thing goes wrong.
Fault == faults < MaxFaults /\ faults' = faults + 1

\* How many copies one XADD call of the client leaves in a stream: one; none
\* if the command never arrived; two if the reply was lost and the client
\* sent it again.  All but one are faults.
XAddCopies == {1} \cup (IF faults < MaxFaults THEN {0, 2} ELSE {})

CountFault(copies) ==
  IF copies = 1 THEN UNCHANGED faults ELSE faults' = faults + 1

\* XADD of n entries with message m, replays of dead-letter entry d (0: new).
XAdd(n, m, d) ==
  /\ added + n <= MaxEntries
  /\ added'  = added + n
  /\ msg'    = [i \in Ids |-> IF added < i /\ i <= added + n
                              THEN m ELSE msg[i]]
  /\ origin' = [i \in Ids |-> IF added < i /\ i <= added + n
                              THEN d ELSE origin[i]]
  /\ UNCHANGED lastDelivered

Init ==
  /\ added = 0
  /\ msg = [i \in Ids |-> NoMsg]
  /\ origin = [i \in Ids |-> 0]
  /\ lastDelivered = 0
  /\ owner = [i \in Ids |-> Nobody]
  /\ stale = {}
  /\ deadAdded = 0
  /\ dead = [d \in DeadIds |-> 0]
  /\ deadLive = {}
  /\ wpc = [w \in Workers |-> "down"]
  /\ wmsg = [w \in Workers |-> 0]
  /\ wclaim = [w \in Workers |-> {}]
  /\ stopping = [w \in Workers |-> FALSE]
  /\ opc = [o \in Operators |-> "idle"]
  /\ olist = [o \in Operators |-> {}]
  /\ odone = [o \in Operators |-> {}]
  /\ runs = [i \in Ids |-> 0]
  /\ outcome = [i \in Ids |-> "none"]
  /\ dropped = {}
  /\ faults = 0
  /\ stops = 0

(***************************************************************************)
(* The environment: producers, time, SIGTERM, crashes.                     *)
(***************************************************************************)

\* A producer's XADD.  A producer may send the same message again.
Publish(m) ==
  /\ XAdd(1, m, 0)
  /\ UNCHANGED <<pendingVars, deadVars, workerVars, opVars, history, faults,
                 stops>>

\* Entry i has been idle for StuckThreshold; its worker may well be alive and
\* still rendering.
Age(i) ==
  /\ i \in Pending \ stale
  /\ stale' = stale \cup {i}
  /\ UNCHANGED <<streamVars, owner, deadVars, workerVars, opVars, history,
                 faults, stops>>

\* SIGTERM or SIGINT: signal.NotifyContext cancels the worker's context.
Cancel(w) ==
  /\ wpc[w] # "down" /\ ~stopping[w]
  /\ stops < MaxStops /\ stops' = stops + 1
  /\ stopping' = [stopping EXCEPT ![w] = TRUE]

Stop(w) ==
  /\ Cancel(w)
  /\ UNCHANGED <<streamVars, pendingVars, deadVars, wpc, wmsg, wclaim, opVars,
                 history, faults>>

\* The process is gone and with it everything it held in memory.
GoDown(w) ==
  /\ wpc' = [wpc EXCEPT ![w] = "down"]
  /\ wmsg' = [wmsg EXCEPT ![w] = 0]
  /\ wclaim' = [wclaim EXCEPT ![w] = {}]
  /\ stopping' = [stopping EXCEPT ![w] = FALSE]

\* SIGKILL, a panic in the handler, a lost machine.
Crash(w) ==
  /\ wpc[w] # "down"
  /\ Fault
  /\ GoDown(w)
  /\ UNCHANGED <<streamVars, pendingVars, deadVars, opVars, history, stops>>

(***************************************************************************)
(* The worker: Run and reclaimStuckMessages.                               *)
(***************************************************************************)

\* Seeded fault: BUSYGROUP is fatal too.
StartOnce(w) ==
  /\ wpc[w] = "down" /\ lastDelivered = 0
  /\ wpc' = [wpc EXCEPT ![w] = "reclaim"]
  /\ UNCHANGED <<streamVars, pendingVars, deadVars, wmsg, wclaim, stopping,
                 opVars, history, faults, stops>>

\* The process starts; XGROUP CREATE ... MKSTREAM from ID 0 creates the group
\* or answers BUSYGROUP.
Start(w) ==
  /\ wpc[w] = "down"
  /\ wpc' = [wpc EXCEPT ![w] = "reclaim"]
  /\ UNCHANGED <<streamVars, pendingVars, deadVars, wmsg, wclaim, stopping,
                 opVars, history, faults, stops>>

\* What XPENDING with COUNT leaves after the Idle filter.
StuckMessages == FirstN(Pending, MaxReclaimBatch) \cap stale

\* XPENDING and the loop that collects toReclaim.
ReclaimRead(w) ==
  /\ wpc[w] = "reclaim" /\ ~stopping[w]
  /\ wclaim' = [wclaim EXCEPT ![w] = StuckMessages]
  /\ wpc' = [wpc EXCEPT ![w] = IF StuckMessages = {} THEN "loop" ELSE "claim"]
  /\ UNCHANGED <<streamVars, pendingVars, deadVars, wmsg, stopping, opVars,
                 history, faults, stops>>

\* Seeded fault: XCLAIM with FORCE.
ClaimableForce(w) == wclaim[w]

\* Of the IDs a worker has listed, those XCLAIM takes: still pending, and
\* still idle for MinIdle when the command runs.
Claimable(w) == wclaim[w] \cap Pending \cap stale

\* XCLAIM to the reclaimer's name, which resets the idle time.
ReclaimClaim(w) ==
  /\ wpc[w] = "claim" /\ ~stopping[w]
  /\ owner' = [i \in Ids |-> IF i \in Claimable(w) THEN Reclaimer ELSE owner[i]]
  /\ stale' = stale \ Claimable(w)
  /\ wclaim' = [wclaim EXCEPT ![w] = {}]
  /\ wpc' = [wpc EXCEPT ![w] = "loop"]
  /\ UNCHANGED <<streamVars, deadVars, wmsg, stopping, opVars, history, faults,
                 stops>>

\* XPENDING or XCLAIM fails, always so once the context is cancelled: the
\* error is logged and the loop starts.
ReclaimError(w) ==
  /\ wpc[w] \in {"reclaim", "claim"}
  /\ IF stopping[w] THEN UNCHANGED faults ELSE Fault
  /\ wclaim' = [wclaim EXCEPT ![w] = {}]
  /\ wpc' = [wpc EXCEPT ![w] = "loop"]
  /\ UNCHANGED <<streamVars, pendingVars, deadVars, wmsg, stopping, opVars,
                 history, stops>>

(***************************************************************************)
(* The worker: processNextMessage, moveToDLQ, ackMessage.                  *)
(***************************************************************************)

\* Seeded fault: the worker reads what was reclaimed first.
NextEntryReclaimed ==
  IF \E i \in Ids : owner[i] = Reclaimer
  THEN CHOOSE i \in Ids : owner[i] = Reclaimer
  ELSE lastDelivered + 1

\* XREADGROUP with ">": the entry after the last one delivered to the group.
NextEntry == lastDelivered + 1

\* Seeded fault: an empty reply is taken for a message.
HasNextUnchecked == NextEntry <= MaxEntries
HasNext == NextEntry <= added

\* The server's half of XREADGROUP COUNT 1.
HandOver(w) ==
  /\ wpc[w] = "loop" /\ ~stopping[w]
  /\ HasNext
  /\ lastDelivered' = NextEntry
  /\ owner' = [owner EXCEPT ![NextEntry] = w]
  /\ UNCHANGED <<added, msg, origin, stale>>

\* The reply arrives and the handler is called, unless the payload is not a
\* string: such a message goes to the dead letters unread.
Deliver(w) ==
  /\ HandOver(w)
  /\ wmsg' = [wmsg EXCEPT ![w] = NextEntry]
  /\ IF msg[NextEntry] \in Malformed
     THEN /\ wpc' = [wpc EXCEPT ![w] = "dlq"]
          /\ outcome' = [outcome EXCEPT ![NextEntry] = "error"]
          /\ UNCHANGED runs
     ELSE /\ wpc' = [wpc EXCEPT ![w] = "handler"]
          /\ runs' = [runs EXCEPT ![NextEntry] = @ + 1]
          /\ UNCHANGED outcome
  /\ UNCHANGED <<deadVars, wclaim, stopping, opVars, dropped, faults, stops>>

\* The reply is lost, or readCtx ends first (3 s are over, or the worker is
\* told to stop while XREADGROUP is under way): the worker returns from
\* processNextMessage with nothing, the entry stays pending under its name.
DeliverLost(w) ==
  /\ HandOver(w)
  /\ \/ Fault /\ UNCHANGED <<stopping, stops>>
     \/ Cancel(w) /\ UNCHANGED faults
  /\ UNCHANGED <<deadVars, wpc, wmsg, wclaim, opVars, history>>

\* Seeded faults: an error is acknowledged without a dead letter; it ends
\* processNextMessage at once.
AfterHandlerAck(ok) == "ack"
AfterHandlerLoop(ok) == IF ok THEN "ack" ELSE "loop"
AfterHandler(ok) == IF ok THEN "ack" ELSE "dlq"

\* The handler returns nil (ok) or an error.
HandlerReturns(w, ok) ==
  /\ wpc[w] = "handler"
  /\ wpc' = [wpc EXCEPT ![w] = AfterHandler(ok)]
  /\ outcome' = [outcome EXCEPT ![wmsg[w]] = IF ok THEN "ok" ELSE "error"]
  /\ UNCHANGED <<streamVars, pendingVars, deadVars, wmsg, wclaim, stopping,
                 opVars, runs, dropped, faults, stops>>

\* Back at the top of the loop in Run.
Loop(w) ==
  /\ wpc' = [wpc EXCEPT ![w] = "loop"]
  /\ wmsg' = [wmsg EXCEPT ![w] = 0]
  /\ UNCHANGED <<wclaim, stopping>>

\* XADD of n copies of entry i to the dead-letter stream.
DeadAdd(n, i) ==
  /\ deadAdded + n <= MaxDead
  /\ deadAdded' = deadAdded + n
  /\ dead' = [d \in DeadIds |-> IF deadAdded < d /\ d <= deadAdded + n
                                THEN i ELSE dead[d]]
  /\ deadLive' = deadLive \cup (deadAdded + 1 .. deadAdded + n)

\* XADD to the dead-letter stream.  Its error is only logged.
MoveToDLQ(w, copies) ==
  /\ wpc[w] = "dlq"
  /\ DeadAdd(copies, wmsg[w])
  /\ dropped' = IF copies = 0 THEN dropped \cup {wmsg[w]} ELSE dropped
  /\ CountFault(copies)
  /\ wpc' = [wpc EXCEPT ![w] = "ack"]
  /\ UNCHANGED <<streamVars, pendingVars, wmsg, wclaim, stopping, opVars,
                 runs, outcome, stops>>

\* Seeded fault: XACK under the worker's context, which SIGTERM cancels.
AckedByRunning(w) == IF stopping[w] THEN {} ELSE {wmsg[w]}
AckedBy(w) == {wmsg[w]}

\* XACK takes the entry off the pending list, whoever owns it by now.
Ack(w) ==
  /\ wpc[w] = "ack"
  /\ owner' = [i \in Ids |-> IF i \in AckedBy(w) THEN Nobody ELSE owner[i]]
  /\ stale' = stale \ AckedBy(w)
  /\ Loop(w)
  /\ UNCHANGED <<streamVars, deadVars, opVars, history, faults, stops>>

\* XACK never reaches Redis; ackMessage ignores its error.
AckLost(w) ==
  /\ wpc[w] = "ack"
  /\ Fault
  /\ Loop(w)
  /\ UNCHANGED <<streamVars, pendingVars, deadVars, opVars, history, stops>>

\* ctx.Done at the top of the loop: Run returns and the process ends.
Exit(w) ==
  /\ wpc[w] = "loop" /\ stopping[w]
  /\ GoDown(w)
  /\ UNCHANGED <<streamVars, pendingVars, deadVars, opVars, history, faults,
                 stops>>

(***************************************************************************)
(* An operator: dlq replay.                                                *)
(***************************************************************************)

\* Of what an operator has still to add, d comes first, as XRANGE listed it.
NextReplay(o, d) ==
  d \in olist[o] \ odone[o] /\ \A e \in olist[o] \ odone[o] : d <= e

\* Seeded faults: everything listed is deleted; the last one added is left.
AllListed(o) == olist[o]
AllButLast(o) == {d \in odone[o] : \E e \in odone[o] : d < e}

\* messageIDsToAck
ToDelete(o) == odone[o]

OperatorDone(o) ==
  /\ opc' = [opc EXCEPT ![o] = "idle"]
  /\ olist' = [olist EXCEPT ![o] = {}]
  /\ odone' = [odone EXCEPT ![o] = {}]

\* XRANGE - + COUNT limit.
ReplayRead(o) ==
  /\ opc[o] = "idle" /\ deadLive # {}
  /\ opc' = [opc EXCEPT ![o] = "adding"]
  /\ olist' = [olist EXCEPT ![o] = FirstN(deadLive, ReplayLimit)]
  /\ UNCHANGED <<streamVars, pendingVars, deadVars, workerVars, odone, history,
                 faults, stops>>

\* XADD of one listed message to the original stream.  Whether it is still in
\* the dead-letter stream is not looked at again.
ReplayAdd(o, d, copies) ==
  /\ opc[o] = "adding" /\ NextReplay(o, d) /\ copies # 0
  /\ XAdd(copies, msg[dead[d]], d)
  /\ CountFault(copies)
  /\ odone' = [odone EXCEPT ![o] = @ \cup {d}]
  /\ opc' = [opc EXCEPT ![o] = IF olist[o] = odone[o] \cup {d}
                               THEN "deleting" ELSE @]
  /\ UNCHANGED <<pendingVars, deadVars, workerVars, olist, history, stops>>

\* The XADD fails: XDEL what was added so far, its error ignored, and abort.
\* The failed XADD may have been carried out all the same.
ReplayAbort(o, d, copies, deleted) ==
  /\ opc[o] = "adding" /\ NextReplay(o, d)
  /\ Fault
  /\ XAdd(copies, msg[dead[d]], d)
  /\ deadLive' = deadLive \ deleted
  /\ OperatorDone(o)
  /\ UNCHANGED <<pendingVars, deadAdded, dead, workerVars, history, stops>>

\* XDEL of everything that was added.
ReplayDelete(o) ==
  /\ opc[o] = "deleting"
  /\ deadLive' = deadLive \ ToDelete(o)
  /\ OperatorDone(o)
  /\ UNCHANGED <<streamVars, pendingVars, deadAdded, dead, workerVars, history,
                 faults, stops>>

\* The XDEL fails, or the command is interrupted at any point.
ReplayKilled(o) ==
  /\ opc[o] # "idle"
  /\ Fault
  /\ OperatorDone(o)
  /\ UNCHANGED <<streamVars, pendingVars, deadVars, workerVars, history,
                 stops>>

(***************************************************************************)
(* The specification.                                                      *)
(***************************************************************************)

WorkerSteps(w) ==
  \/ Start(w) \/ ReclaimRead(w) \/ ReclaimClaim(w) \/ ReclaimError(w)
  \/ Deliver(w) \/ DeliverLost(w)
  \/ \E ok \in BOOLEAN : HandlerReturns(w, ok)
  \/ \E copies \in XAddCopies : MoveToDLQ(w, copies)
  \/ Ack(w) \/ AckLost(w) \/ Exit(w) \/ Stop(w) \/ Crash(w)

OperatorSteps(o) ==
  \/ ReplayRead(o)
  \/ \E d \in DeadIds, copies \in XAddCopies : ReplayAdd(o, d, copies)
  \/ \E d \in DeadIds, copies \in {0, 1}, deleted \in {{}, ToDelete(o)} :
        ReplayAbort(o, d, copies, deleted)
  \/ ReplayDelete(o) \/ ReplayKilled(o)

Next ==
  \/ \E m \in Msgs : Publish(m)
  \/ \E i \in Ids : Age(i)
  \/ \E w \in Workers : WorkerSteps(w)
  \/ \E o \in Operators : OperatorSteps(o)

Spec == Init /\ [][Next]_vars

\* What keeps happening: a stopped worker is started again, time passes, and a
\* running worker goes on: Redis answers, the handler returns.  Producers,
\* operators and faults owe nothing.
WorkerFairness(w) ==
  /\ WF_vars(Start(w))
  /\ WF_vars(ReclaimRead(w) \/ ReclaimClaim(w))
  /\ WF_vars(stopping[w] /\ ReclaimError(w))
  /\ WF_vars(Deliver(w))
  /\ WF_vars(\E ok \in BOOLEAN : HandlerReturns(w, ok))
  /\ WF_vars(MoveToDLQ(w, 1))
  /\ WF_vars(Ack(w))
  /\ WF_vars(Exit(w))

Fairness ==
  /\ \A w \in Workers : WorkerFairness(w)
  /\ \A i \in Ids : WF_vars(Age(i))

FairSpec == Spec /\ Fairness

(***************************************************************************)
(* Properties.                                                             *)
(***************************************************************************)

StreamType ==
  /\ added \in 0..MaxEntries
  /\ msg \in [Ids -> Msgs \cup {NoMsg}]
  /\ origin \in [Ids -> 0..MaxDead]
  /\ lastDelivered \in 0..added
  /\ owner \in [Ids -> Workers \cup {Nobody, Reclaimer}]
  /\ stale \in SUBSET Ids

DeadType ==
  /\ deadAdded \in 0..MaxDead
  /\ dead \in [DeadIds -> 0..lastDelivered]
  /\ deadLive \in SUBSET (1..deadAdded)

WorkerType ==
  /\ wpc \in [Workers -> {"down", "reclaim", "claim", "loop", "handler",
                          "dlq", "ack"}]
  /\ wmsg \in [Workers -> 0..lastDelivered]
  /\ wclaim \in [Workers -> SUBSET Ids]
  /\ stopping \in [Workers -> BOOLEAN]

OperatorType ==
  /\ opc \in [Operators -> {"idle", "adding", "deleting"}]
  /\ olist \in [Operators -> SUBSET (1..deadAdded)]
  /\ odone \in [Operators -> SUBSET (1..deadAdded)]

HistoryType ==
  /\ runs \in [Ids -> Nat]
  /\ outcome \in [Ids -> {"none", "ok", "error"}]
  /\ dropped \in SUBSET Ids
  /\ faults \in 0..MaxFaults
  /\ stops \in 0..MaxStops

\* The variables have the values they should: nothing is delivered before it is
\* added, held before it is delivered, or replayed before it is a dead letter.
TypeOK == StreamType /\ DeadType /\ WorkerType /\ OperatorType /\ HistoryType

\* The handler is called at most once for an entry, and no two workers hold the
\* same one: crashes, restarts, slow handlers that look stuck and racing
\* reclaims do not make XREADGROUP hand an entry out again.
HandledAtMostOnce ==
  /\ \A i \in Ids : runs[i] <= 1
  /\ \A v, w \in Workers : wmsg[v] = wmsg[w] /\ wmsg[v] # 0 => v = w

\* It was handled without error, or failed and has a dead letter, or failed and
\* lost it.
Accounted(i) ==
  \/ outcome[i] = "ok"
  \/ outcome[i] = "error" /\ (i \in dropped \/ \E d \in 1..deadAdded : dead[d] = i)

\* An entry that has left the pending list was handled without error, or its
\* copy reached the dead letters, or writing that copy failed.
SettledIsAccounted == \A i \in Acked : Accounted(i)

\* Dead letter d has been put back in the original stream.
Replayed(d) == \E i \in Entries : origin[i] = d

\* A dead letter leaves its stream only when its message is back in the
\* original stream, also when a replay fails half-way, is interrupted, or
\* races another.
ReplayLosesNothing == \A d \in 1..deadAdded : d \in deadLive \/ Replayed(d)

\* Every fault and every shutdown costs at most one message: one that stays
\* pending with no worker that will look at it, or one dropped on its way to
\* the dead letters.
OneLossPerFault ==
  Cardinality(Stranded) + Cardinality(dropped) <= faults + stops

\* A dead letter is put back at most once by each operator that replays it at
\* the same time, and once more for every replay that is interrupted or fails
\* between its XADDs and the XDEL, or whose XADD is carried out twice.
ReplayedOncePerOperator ==
  \A d \in DeadIds :
    Cardinality({i \in Entries : origin[i] = d}) <= Cardinality(Operators) + faults

\* Where an entry is in its life, as those who use the stream see it.
Phase ==
  [i \in Ids |->
     IF i > added THEN "absent"
     ELSE IF i > lastDelivered THEN "queued"
     ELSE IF owner[i] # Nobody THEN "held"
     ELSE IF outcome[i] = "ok" THEN "done"
     ELSE IF i \in dropped THEN "dropped"
     ELSE "dead"]

Queue == INSTANCE AtMostOnceQueue WITH phase <- Phase

\* The workers, Redis and the operators together are an at-most-once FIFO
\* queue: nothing a step does brings an entry back or changes its fate.
ImplementsQueue == Queue!Spec

\* Whatever crashes, every entry added is handed to a worker in the end.
EveryEntryDelivered == \A i \in Ids : (i <= added) ~> (i <= lastDelivered)

\* While nothing crashes or fails, a worker that holds an entry settles it, even
\* when it is told to stop in the middle, and when others reclaim it meanwhile:
\* moveToDLQ and XACK do not run under the cancelled context.
HeldIsSettled ==
  \A w \in Workers, i \in Ids : (wmsg[w] = i) ~> (i \in Acked \/ faults > 0)

\* worker.go, on the entries XCLAIM took: "They will be re-processed by an
\* active consumer."  About those whose handler did not get to its end.
ReclaimedIsProcessed ==
  \A i \in Ids : (owner[i] = Reclaimer /\ i \in Stranded /\ outcome[i] = "none")
                   ~> (i \in InHand)

\* worker.go, MessageHandler: "Returning an error will cause the message to be
\* moved to the DLQ."
FailedReachesDLQ ==
  \A i \in Acked : outcome[i] = "error" => \E d \in 1..deadAdded : dead[d] = i

=============================================================================
