-------------------------- MODULE DistributionProofs --------------------------
(***************************************************************************)
(* Proofs about Distribution, for any destinations, any latencies and any  *)
(* bound on the clock: processJob implements Delivery, and a goroutine     *)
(* whose requests obey the context ends at most its back-offs later.  The  *)
(* invariant adds up the back-offs: what has been slept after n attempts   *)
(* is what the goroutine may be behind the context.                        *)
(***************************************************************************)
EXTENDS Distribution, TLAPS

\* Where d is, what it has tried and what that has brought.
Local(d) ==
  /\ pc[d] = "start" => now = 0
  /\ pc[d] \in {"start", "refresh", "init"} => attempt[d] = 0
  /\ pc[d] \in {"try", "upload", "ok"} => attempt[d] \in 0..2
  /\ pc[d] \in InFlight => at[d] <= now
  /\ pc[d] = "sleep" => /\ attempt[d] \in 1..3
                        /\ at[d] <= now + Backoff(d, attempt[d] - 1)
                        /\ now <= at[d]
  /\ copies[d] <= attempt[d] + (IF pc[d] = "ok" THEN 1 ELSE 0)

InTime(d) ==
  /\ pc[d] \in InFlight => now <= ContextEnds
  /\ pc[d] = "sleep" => at[d] <= ContextEnds + Slept(d, attempt[d])
  /\ pc[d] = "try" => now <= ContextEnds + Slept(d, attempt[d])

IInv ==
  /\ TypeOK
  /\ cancelledAt <= now
  /\ \A d \in Destinations : Local(d) /\ (d \in ObeysContext => InTime(d))

-----------------------------------------------------------------------------
(* Arithmetic of the back-offs.                                            *)

LEMMA Delays ==
  ASSUME NEW d
  PROVE  InitialDelay(d) \in {1, 2, 5}
  BY DEF InitialDelay

LEMMA BackoffType ==
  ASSUME NEW d, NEW n \in 0..2
  PROVE  /\ Backoff(d, n) \in 1..20
         /\ Slept(d, n + 1) = Slept(d, n) + Backoff(d, n)
         /\ Backoff(d, n) <= Slept(d, n + 1)
  <1>1. CASE n = 0
    BY <1>1, Delays DEF Backoff, Slept
  <1>2. CASE n = 1
    BY <1>2, Delays DEF Backoff, Slept
  <1>3. CASE n = 2
    BY <1>3, Delays DEF Backoff, Slept
  <1> QED BY <1>1, <1>2, <1>3

LEMMA SleptType ==
  ASSUME NEW d, NEW n \in 0..3
  PROVE  Slept(d, n) \in Nat /\ Slept(d, n) <= 7 * InitialDelay(d)
  <1>1. CASE n = 0
    BY <1>1, Delays DEF Slept
  <1>2. CASE n = 1
    BY <1>2, Delays DEF Slept
  <1>3. CASE n = 2
    BY <1>3, Delays DEF Slept
  <1>4. CASE n = 3
    BY <1>4, Delays DEF Slept
  <1> QED BY <1>1, <1>2, <1>3, <1>4

LEMMA EndsType ==
  ASSUME TypeOK
  PROVE  ContextEnds \in Nat /\ ContextEnds <= Deadline
  BY DEF TypeOK, ContextEnds, Deadline

-----------------------------------------------------------------------------
(* What a step of one goroutine does to the group and to the others.       *)

\* The group's context stays as it is, or is cancelled now.
Group == GroupSame \/ Cancel

LEMMA GroupStep ==
  ASSUME TypeOK, cancelledAt <= now, now' = now, Group
  PROVE  /\ cancelled' \in BOOLEAN /\ cancelledAt' \in Nat /\ cancelledAt' <= now'
         /\ ContextEnds' \in Nat
         /\ ContextEnds' = ContextEnds \/ ContextEnds' = now
  <1>1. CASE GroupSame
    BY <1>1, EndsType DEF GroupSame, TypeOK, ContextEnds, Deadline
  <1>2. CASE Cancel
    BY <1>2 DEF Cancel, TypeOK, ContextEnds, Deadline
  <1> QED BY <1>1, <1>2 DEF Group

\* A goroutine that the step does not touch is still in time, also if the
\* context has ended now.
LEMMA Untouched ==
  ASSUME IInv, NEW d \in Destinations, now' = now, Group,
         pc'[d] = pc[d], attempt'[d] = attempt[d], at'[d] = at[d],
         copies'[d] = copies[d]
  PROVE  Local(d)' /\ (d \in ObeysContext => InTime(d)')
  <1>1. Local(d)'
    BY DEF IInv, Local, Backoff, InitialDelay
  <1>2. ASSUME d \in ObeysContext PROVE InTime(d)'
    <2>1. InTime(d) /\ Local(d) /\ now \in Nat /\ attempt[d] \in 0..3 /\ at[d] \in Nat
      BY <1>2 DEF IInv, TypeOK, Retries
    <2>2. ContextEnds' \in Nat /\ (ContextEnds' = ContextEnds \/ ContextEnds' = now)
      BY GroupStep DEF IInv
    <2>3. (pc[d] \in InFlight => now <= ContextEnds')
      BY <2>1, <2>2 DEF InTime
    <2>4. pc[d] = "sleep" => at[d] <= ContextEnds' + Slept(d, attempt[d])
      <3>1. SUFFICES ASSUME pc[d] = "sleep", ContextEnds' = now
                     PROVE  at[d] <= now + Slept(d, attempt[d])
        BY <2>1, <2>2 DEF InTime
      <3>2. attempt[d] - 1 \in 0..2 /\ (attempt[d] - 1) + 1 = attempt[d]
        BY <2>1, <3>1 DEF Local
      <3>3. /\ Backoff(d, attempt[d] - 1) \in 1..20
            /\ Backoff(d, attempt[d] - 1) <= Slept(d, attempt[d])
        BY <3>2, BackoffType
      <3>4. Slept(d, attempt[d]) \in Nat
        BY <2>1, SleptType
      <3> QED BY <2>1, <3>1, <3>3, <3>4 DEF Local
    <2>5. pc[d] = "try" => now <= ContextEnds' + Slept(d, attempt[d])
      BY <2>1, <2>2, SleptType DEF InTime
    <2>6. Slept(d, attempt[d])' = Slept(d, attempt[d])
      BY DEF Slept, InitialDelay
    <2> QED BY <2>3, <2>4, <2>5, <2>6 DEF InTime
  <1> QED BY <1>1, <1>2

\* What a step of d leaves alone.
Only(d) ==
  /\ now' = now
  /\ Group
  /\ \A e \in Destinations \ {d} :
       /\ pc'[e] = pc[e] /\ attempt'[e] = attempt[e]
       /\ at'[e] = at[e] /\ copies'[e] = copies[e]

LEMMA OnlyOne ==
  ASSUME IInv, NEW d \in Destinations, Only(d),
         pc' \in [Destinations ->
                   InFlight \cup {"start", "try", "sleep", "ok", "error"}],
         attempt' \in [Destinations -> 0..Retries],
         at' \in [Destinations -> Nat],
         copies' \in [Destinations -> 0..Retries],
         late' \in [Destinations -> BOOLEAN],
         spent' \in [Destinations -> Nat],
         Local(d)', d \in ObeysContext => InTime(d)'
  PROVE  IInv'
  <1>1. TypeOK' /\ (cancelledAt <= now)'
    <2>1. cancelled' \in BOOLEAN /\ cancelledAt' \in Nat /\ cancelledAt' <= now'
      BY GroupStep DEF IInv, Only
    <2> QED BY <2>1 DEF IInv, TypeOK, Only
  <1>2. ASSUME NEW e \in Destinations
        PROVE  Local(e)' /\ (e \in ObeysContext => InTime(e)')
    <2>1. CASE e = d
      BY <2>1
    <2>2. CASE e # d
      BY <2>2, Untouched DEF Only
    <2> QED BY <2>1, <2>2
  <1> QED BY <1>1, <1>2 DEF IInv, ObeysContext

LEMMA SleepStep ==
  ASSUME IInv, NEW d \in Destinations, now' = now, GroupSame, SleepAfter(d),
         attempt[d] \in 0..2, copies'[d] <= attempt[d] + 1,
         d \in ObeysContext => now <= ContextEnds + Slept(d, attempt[d])
  PROVE  /\ attempt' \in [Destinations -> 0..Retries]
         /\ at' \in [Destinations -> Nat]
         /\ Local(d)' /\ (d \in ObeysContext => InTime(d)')
  <1>1. /\ Backoff(d, attempt[d]) \in 1..20
        /\ Slept(d, attempt[d] + 1) = Slept(d, attempt[d]) + Backoff(d, attempt[d])
    BY BackoffType
  <1>2. /\ pc'[d] = "sleep" /\ attempt'[d] = attempt[d] + 1
        /\ at'[d] = now + Backoff(d, attempt[d])
        /\ attempt' \in [Destinations -> 0..Retries]
        /\ at' \in [Destinations -> Nat]
        /\ now \in Nat
    BY <1>1 DEF IInv, TypeOK, SleepAfter, Goto, Retries
  <1>3. Local(d)'
    <2>1. Backoff(d, attempt'[d] - 1) = Backoff(d, attempt[d])
      BY <1>2
    <2>2. Backoff(d, attempt[d] - 1)' = Backoff(d, attempt'[d] - 1)
      BY DEF Backoff, InitialDelay
    <2>3. copies'[d] <= attempt'[d]
      BY <1>2
    <2> QED BY <1>1, <1>2, <2>1, <2>2, <2>3 DEF Local, InFlight
  <1>4. ASSUME d \in ObeysContext PROVE InTime(d)'
    <2>1. ContextEnds' = ContextEnds /\ ContextEnds \in Nat
      BY EndsType DEF GroupSame, ContextEnds, IInv
    <2>2. Slept(d, attempt[d])' = Slept(d, attempt[d] + 1)
      BY <1>2 DEF Slept, InitialDelay
    <2>3. Slept(d, attempt[d]) \in Nat
      BY SleptType
    <2>4. at'[d] <= ContextEnds + Slept(d, attempt[d] + 1)
      BY <1>1, <1>2, <1>4, <2>1, <2>3
    <2> QED BY <1>2, <2>1, <2>2, <2>4 DEF InTime, InFlight
  <1> QED BY <1>2, <1>3, <1>4

\* Before the first attempt nothing has been slept.
LEMMA FirstTry ==
  ASSUME IInv, NEW d \in Destinations, attempt[d] = 0, now <= ContextEnds
  PROVE  now <= ContextEnds + Slept(d, attempt[d])
  BY Delays, EndsType DEF Slept, IInv, TypeOK

LEMMA GoesStep ==
  ASSUME IInv, NEW d \in Destinations, Goes(d)
  PROVE  IInv'
  <1>0. /\ TypeOK /\ Local(d) /\ (d \in ObeysContext => InTime(d))
        /\ ContextEnds \in Nat /\ ContextEnds <= Deadline
    BY EndsType DEF IInv
  <1>1. CASE Rejects(d)
    <2>1. Only(d)
      BY <1>1, <1>0 DEF Rejects, ReturnError, dVars, Only, Group, Goto, TypeOK
    <2>2. /\ pc' \in [Destinations ->
                    InFlight \cup {"start", "try", "sleep", "ok", "error"}]
          /\ attempt' \in [Destinations -> 0..Retries]
          /\ at' \in [Destinations -> Nat]
          /\ copies' \in [Destinations -> 0..Retries]
          /\ late' \in [Destinations -> BOOLEAN]
          /\ spent' \in [Destinations -> Nat]
      BY <1>1, <1>0 DEF Rejects, ReturnError, dVars, Goto, TypeOK, InFlight, Local, Retries
    <2>3. Local(d)' /\ InTime(d)'
      BY <1>1, <1>0 DEF Rejects, ReturnError, dVars, Goto, TypeOK, Local, InTime, InFlight
    <2> QED BY <1>0, <2>1, <2>2, <2>3, OnlyOne
  <1>2. CASE Prepare(d)
    <2>1. Only(d)
      BY <1>2, <1>0 DEF Prepare, GroupSame, dVars, Only, Group, Goto, TypeOK
    <2>2. /\ pc' \in [Destinations ->
                    InFlight \cup {"start", "try", "sleep", "ok", "error"}]
          /\ attempt' \in [Destinations -> 0..Retries]
          /\ at' \in [Destinations -> Nat]
          /\ copies' \in [Destinations -> 0..Retries]
          /\ late' \in [Destinations -> BOOLEAN]
          /\ spent' \in [Destinations -> Nat]
      BY <1>2, <1>0 DEF Prepare, GroupSame, dVars, Goto, TypeOK, InFlight, Local, Retries
    <2>3. Local(d)' /\ (d \in ObeysContext => InTime(d)')
      <3>1. pc'[d] = "try" /\ attempt'[d] = 0 /\ copies'[d] = 0 /\ now = 0
        BY <1>2, <1>0 DEF Prepare, dVars, Goto, TypeOK, Local
      <3>2. ContextEnds' = ContextEnds /\ Slept(d, attempt[d])' = Slept(d, 0)
        BY <1>2, <3>1 DEF Prepare, GroupSame, ContextEnds, Slept, InitialDelay
      <3>3. now' <= ContextEnds' + Slept(d, attempt[d])'
        BY <1>0, <2>1, <3>1, <3>2, SleptType DEF Only
      <3> QED BY <3>1, <3>3 DEF Local, InTime, InFlight
    <2> QED BY <1>0, <2>1, <2>2, <2>3, OnlyOne
  <1>3. CASE PrepareTikTok(d)
    <2>1. Only(d)
      BY <1>3, <1>0 DEF PrepareTikTok, GroupSame, Send, dVars, Only, Group, Goto, TypeOK
    <2>2. /\ pc' \in [Destinations ->
                    InFlight \cup {"start", "try", "sleep", "ok", "error"}]
          /\ attempt' \in [Destinations -> 0..Retries]
          /\ at' \in [Destinations -> Nat]
          /\ copies' \in [Destinations -> 0..Retries]
          /\ late' \in [Destinations -> BOOLEAN]
          /\ spent' \in [Destinations -> Nat]
      BY <1>3, <1>0 DEF PrepareTikTok, GroupSame, Send, dVars, Goto, TypeOK, InFlight,
         Local, Retries
    <2>3. Local(d)' /\ (d \in ObeysContext => InTime(d)')
      <3>1. pc'[d] \in InFlight /\ attempt'[d] = attempt[d] /\ copies'[d] = copies[d]
        BY <1>3, <1>0 DEF PrepareTikTok, Send, Goto, TypeOK, Local, InFlight, ObeysContext
      <3>2. ContextEnds' = ContextEnds
        BY <1>3 DEF PrepareTikTok, GroupSame, ContextEnds
      <3>3. d \in ObeysContext => now <= ContextEnds
        BY <1>3, <1>0 DEF PrepareTikTok, Local, TypeOK
      <3> QED BY <1>3, <1>0, <2>1, <3>1, <3>2, <3>3
              DEF PrepareTikTok, Send, Goto, Only, Local, InTime, InFlight, TypeOK
    <2> QED BY <1>0, <2>1, <2>2, <2>3, OnlyOne
  <1>4. CASE Refreshed(d)
    <2>1. Only(d)
      BY <1>4, <1>0 DEF Refreshed, GroupSame, Send, Answered, dVars, Only, Group, Goto, TypeOK
    <2>2. /\ pc' \in [Destinations ->
                    InFlight \cup {"start", "try", "sleep", "ok", "error"}]
          /\ attempt' \in [Destinations -> 0..Retries]
          /\ at' \in [Destinations -> Nat]
          /\ copies' \in [Destinations -> 0..Retries]
          /\ late' \in [Destinations -> BOOLEAN]
          /\ spent' \in [Destinations -> Nat]
      BY <1>4, <1>0 DEF Refreshed, GroupSame, Send, Answered, dVars, Goto, TypeOK,
         InFlight, Local, Retries
    <2>3. Local(d)' /\ (d \in ObeysContext => InTime(d)')
      <3>1. pc'[d] \in InFlight /\ attempt'[d] = attempt[d] /\ copies'[d] = copies[d]
        BY <1>4, <1>0 DEF Refreshed, Send, Goto, TypeOK, Local, InFlight, ObeysContext
      <3>2. ContextEnds' = ContextEnds
        BY <1>4 DEF Refreshed, GroupSame, ContextEnds
      <3>3. d \in ObeysContext => now <= ContextEnds
        BY <1>4, <1>0 DEF Refreshed, InTime, InFlight
      <3> QED BY <1>4, <1>0, <2>1, <3>1, <3>2, <3>3
              DEF Refreshed, Send, Goto, Only, Local, InTime, InFlight, TypeOK
    <2> QED BY <1>0, <2>1, <2>2, <2>3, OnlyOne
  <1>5. CASE InitOk(d)
    <2>1. Only(d)
      BY <1>5, <1>0 DEF InitOk, GroupSame, Answered, dVars, Only, Group, Goto, TypeOK
    <2>2. /\ pc' \in [Destinations ->
                    InFlight \cup {"start", "try", "sleep", "ok", "error"}]
          /\ attempt' \in [Destinations -> 0..Retries]
          /\ at' \in [Destinations -> Nat]
          /\ copies' \in [Destinations -> 0..Retries]
          /\ late' \in [Destinations -> BOOLEAN]
          /\ spent' \in [Destinations -> Nat]
      BY <1>5, <1>0 DEF InitOk, GroupSame, Answered, dVars, Goto, TypeOK, InFlight, Local, Retries
    <2>3. Local(d)' /\ (d \in ObeysContext => InTime(d)')
      <3>1. /\ pc[d] = "init" /\ pc'[d] = "try" /\ attempt'[d] = 0 /\ attempt[d] = 0
            /\ copies'[d] = copies[d]
        BY <1>5, <1>0 DEF InitOk, Goto, TypeOK, Local
      <3>2. ContextEnds' = ContextEnds /\ Slept(d, attempt[d])' = Slept(d, attempt[d])
        BY <1>5, <3>1 DEF InitOk, GroupSame, ContextEnds, Slept, InitialDelay
      <3>3. d \in ObeysContext => now' <= ContextEnds' + Slept(d, attempt[d])'
        BY <1>0, <2>1, <3>1, <3>2, FirstTry DEF Only, InTime, InFlight
      <3> QED BY <1>0, <3>1, <3>3 DEF Local, InTime, InFlight
    <2> QED BY <1>0, <2>1, <2>2, <2>3, OnlyOne
  <1>6. CASE InitFails(d)
    <2>1. Only(d)
      BY <1>6, <1>0 DEF InitFails, ReturnError, Answered, dVars, Only, Group, Goto, TypeOK
    <2>2. /\ pc' \in [Destinations ->
                    InFlight \cup {"start", "try", "sleep", "ok", "error"}]
          /\ attempt' \in [Destinations -> 0..Retries]
          /\ at' \in [Destinations -> Nat]
          /\ copies' \in [Destinations -> 0..Retries]
          /\ late' \in [Destinations -> BOOLEAN]
          /\ spent' \in [Destinations -> Nat]
      BY <1>6, <1>0 DEF InitFails, ReturnError, Answered, dVars, Goto, TypeOK, InFlight,
         Local, Retries
    <2>3. Local(d)' /\ InTime(d)'
      BY <1>6, <1>0 DEF InitFails, ReturnError, dVars, Goto, TypeOK, Local, InTime, InFlight
    <2> QED BY <1>0, <2>1, <2>2, <2>3, OnlyOne
  <1>7. CASE Upload(d)
    <2>1. Only(d)
      BY <1>7, <1>0 DEF Upload, GroupSame, Send, dVars, Only, Group, Goto, TypeOK
    <2>2. /\ pc' \in [Destinations ->
                    InFlight \cup {"start", "try", "sleep", "ok", "error"}]
          /\ attempt' \in [Destinations -> 0..Retries]
          /\ at' \in [Destinations -> Nat]
          /\ copies' \in [Destinations -> 0..Retries]
          /\ late' \in [Destinations -> BOOLEAN]
          /\ spent' \in [Destinations -> Nat]
      BY <1>7, <1>0 DEF Upload, GroupSame, Send, dVars, Goto, TypeOK, InFlight, Local, Retries
    <2>3. Local(d)' /\ (d \in ObeysContext => InTime(d)')
      <3>1. pc'[d] \in InFlight /\ attempt'[d] = attempt[d] /\ copies'[d] = copies[d]
        BY <1>7, <1>0 DEF Upload, Send, Goto, TypeOK, Local, InFlight, ObeysContext
      <3>2. ContextEnds' = ContextEnds
        BY <1>7 DEF Upload, GroupSame, ContextEnds
      <3>3. d \in ObeysContext => now <= ContextEnds
        BY <1>7, <1>0 DEF Upload, Readable, Done, ContextEnds, TypeOK, Deadline
      <3> QED BY <1>7, <1>0, <2>1, <3>1, <3>2, <3>3
              DEF Upload, Send, Goto, Only, Local, InTime, InFlight, TypeOK
    <2> QED BY <1>0, <2>1, <2>2, <2>3, OnlyOne
  <1>8. CASE UploadRefused(d)
    <2>1. Only(d)
      BY <1>8, <1>0 DEF UploadRefused, SleepAfter, Only, Group, Goto, TypeOK
    <2>2. /\ attempt[d] \in 0..2 /\ copies'[d] <= attempt[d] + 1
          /\ copies' \in [Destinations -> 0..Retries]
          /\ late' \in [Destinations -> BOOLEAN]
          /\ spent' \in [Destinations -> Nat]
          /\ pc' \in [Destinations ->
                    InFlight \cup {"start", "try", "sleep", "ok", "error"}]
      BY <1>8, <1>0 DEF UploadRefused, SleepAfter, Goto, TypeOK, Local, Retries
    <2>3. d \in ObeysContext => now <= ContextEnds + Slept(d, attempt[d])
      BY <1>8, <1>0, <2>2, SleptType DEF UploadRefused, InTime, InFlight, TypeOK
    <2>4. /\ attempt' \in [Destinations -> 0..Retries]
          /\ at' \in [Destinations -> Nat]
          /\ Local(d)' /\ (d \in ObeysContext => InTime(d)')
      <3>1. SleepAfter(d) /\ GroupSame /\ now' = now
        BY <1>8 DEF UploadRefused
      <3> QED BY <2>2, <2>3, <3>1, SleepStep
    <2> QED BY <2>1, <2>2, <2>4, OnlyOne
  <1>9. CASE UploadOk(d)
    <2>1. Only(d)
      BY <1>9, <1>0 DEF UploadOk, GroupSame, Answered, dVars, Only, Group, Goto, TypeOK
    <2>2. /\ pc' \in [Destinations ->
                    InFlight \cup {"start", "try", "sleep", "ok", "error"}]
          /\ attempt' \in [Destinations -> 0..Retries]
          /\ at' \in [Destinations -> Nat]
          /\ copies' \in [Destinations -> 0..Retries]
          /\ late' \in [Destinations -> BOOLEAN]
          /\ spent' \in [Destinations -> Nat]
      BY <1>9, <1>0 DEF UploadOk, GroupSame, Answered, dVars, Goto, TypeOK, InFlight, Local, Retries
    <2>3. Local(d)' /\ InTime(d)'
      BY <1>9, <1>0 DEF UploadOk, dVars, Goto, TypeOK, Local, InTime, InFlight
    <2> QED BY <1>0, <2>1, <2>2, <2>3, OnlyOne
  <1>10. CASE UploadFails(d)
    <2>1. Only(d)
      BY <1>10, <1>0 DEF UploadFails, Answered, SleepAfter, Only, Group, Goto, TypeOK
    <2>2. /\ attempt[d] \in 0..2 /\ copies'[d] <= attempt[d] + 1
          /\ copies' \in [Destinations -> 0..Retries]
          /\ late' \in [Destinations -> BOOLEAN]
          /\ spent' \in [Destinations -> Nat]
          /\ pc' \in [Destinations ->
                    InFlight \cup {"start", "try", "sleep", "ok", "error"}]
      BY <1>10, <1>0 DEF UploadFails, Answered, SleepAfter, Goto, TypeOK, Local, Retries
    <2>3. d \in ObeysContext => now <= ContextEnds + Slept(d, attempt[d])
      BY <1>10, <1>0, <2>2, SleptType DEF UploadFails, InTime, InFlight, TypeOK
    <2>4. /\ attempt' \in [Destinations -> 0..Retries]
          /\ at' \in [Destinations -> Nat]
          /\ Local(d)' /\ (d \in ObeysContext => InTime(d)')
      <3>1. SleepAfter(d) /\ GroupSame /\ now' = now
        BY <1>10 DEF UploadFails
      <3> QED BY <2>2, <2>3, <3>1, SleepStep
    <2> QED BY <2>1, <2>2, <2>4, OnlyOne
  <1>11. CASE Wake(d)
    <2>1. Only(d)
      BY <1>11, <1>0 DEF Wake, GroupSame, Lastly, ReturnError, GivesUp, dVars, Only,
         Group, Goto, TypeOK
    <2>2. /\ pc' \in [Destinations ->
                    InFlight \cup {"start", "try", "sleep", "ok", "error"}]
          /\ attempt' \in [Destinations -> 0..Retries]
          /\ at' \in [Destinations -> Nat]
          /\ copies' \in [Destinations -> 0..Retries]
          /\ late' \in [Destinations -> BOOLEAN]
          /\ spent' \in [Destinations -> Nat]
      BY <1>11, <1>0 DEF Wake, GroupSame, Lastly, ReturnError, GivesUp, dVars, Goto,
         TypeOK, InFlight, Local, Retries
    <2>3. Local(d)' /\ (d \in ObeysContext => InTime(d)')
      <3>1. CASE GivesUp(d)
        BY <1>11, <1>0, <3>1
           DEF Wake, Lastly, ReturnError, dVars, Goto, TypeOK, Local, InTime, InFlight
      <3>2. CASE ~GivesUp(d)
        <4>1. /\ pc[d] = "sleep" /\ now >= at[d] /\ pc'[d] = "try"
              /\ attempt'[d] = attempt[d] /\ attempt[d] \in 0..2
              /\ copies'[d] = copies[d]
          BY <1>11, <1>0, <3>2 DEF Wake, GivesUp, Retries, Goto, dVars, TypeOK, Local
        <4>2. ContextEnds' = ContextEnds /\ Slept(d, attempt[d])' = Slept(d, attempt[d])
          BY <1>11, <3>2, <4>1
             DEF Wake, GroupSame, ContextEnds, Slept, InitialDelay
        <4>3. d \in ObeysContext => now' <= ContextEnds' + Slept(d, attempt[d])'
          <5>1. now' = now /\ now = at[d]
            BY <1>0, <2>1, <4>1 DEF Only, Local, TypeOK
          <5> QED BY <1>0, <4>1, <4>2, <5>1 DEF InTime
        <4> QED BY <1>0, <4>1, <4>3 DEF Local, InTime, InFlight
      <3> QED BY <3>1, <3>2
    <2> QED BY <1>0, <2>1, <2>2, <2>3, OnlyOne
  <1> QED BY <1>1, <1>2, <1>3, <1>4, <1>5, <1>6, <1>7, <1>8, <1>9, <1>10, <1>11
          DEF Goes

-----------------------------------------------------------------------------
(* The invariant.                                                          *)

LEMMA InitHolds == Init => IInv
<1> SUFFICES ASSUME Init PROVE IInv
  OBVIOUS
<1>1. TypeOK /\ cancelledAt <= now
  <2>1. MaxTime \in Nat
    BY DistributionAssumption DEF DistributionAssumption
  <2>2. now \in 0..MaxTime /\ cancelledAt \in Nat /\ cancelledAt <= now
    BY <2>1 DEF Init
  <2>3. /\ attempt \in [Destinations -> 0..Retries]
        /\ copies \in [Destinations -> 0..Retries]
        /\ at \in [Destinations -> Nat]
    BY DEF Init, Retries
  <2>4. /\ cancelled \in BOOLEAN
        /\ late \in [Destinations -> BOOLEAN] /\ spent \in [Destinations -> Nat]
        /\ pc \in [Destinations ->
                   InFlight \cup {"start", "try", "sleep", "ok", "error"}]
    BY Zenon DEF Init
  <2> QED BY <2>2, <2>3, <2>4 DEF TypeOK
<1>2. ASSUME NEW d \in Destinations PROVE Local(d) /\ InTime(d)
  <2>1. pc[d] = "start" /\ attempt[d] = 0 /\ copies[d] = 0 /\ now = 0
    BY DEF Init
  <2> QED BY <2>1 DEF Local, InTime, InFlight
<1> QED BY <1>1, <1>2 DEF IInv

\* Time goes on only while nobody's request or sleep is over.
LEMMA TickHolds == IInv /\ Tick => IInv'
<1> SUFFICES ASSUME IInv, Tick PROVE IInv'
  OBVIOUS
<1>1. TypeOK' /\ (cancelledAt <= now)' /\ now' = now + 1
  <2>1. /\ pc' = pc /\ attempt' = attempt /\ at' = at /\ copies' = copies
        /\ late' = late /\ spent' = spent
        /\ cancelled' = cancelled /\ cancelledAt' = cancelledAt
    BY DEF Tick, dVars
  <2>2. MaxTime \in Nat
    BY DistributionAssumption DEF DistributionAssumption
  <2>3. now' = now + 1 /\ now' \in 0..MaxTime /\ (cancelledAt <= now)'
    BY <2>1, <2>2 DEF IInv, Tick, TypeOK
  <2> QED BY <2>1, <2>3 DEF IInv, TypeOK
<1>2. ContextEnds' = ContextEnds /\ ContextEnds \in Nat
  <2>1. cancelled' = cancelled /\ cancelledAt' = cancelledAt
    BY DEF Tick
  <2>2. ContextEnds \in Nat
    BY EndsType DEF IInv
  <2> QED BY <2>1, <2>2 DEF ContextEnds
<1>3. ASSUME NEW d \in Destinations
      PROVE  Local(d)' /\ (d \in ObeysContext => InTime(d)')
  <2>1. /\ Local(d) /\ (d \in ObeysContext => InTime(d)) /\ TypeOK
        /\ pc'[d] = pc[d] /\ attempt'[d] = attempt[d] /\ at'[d] = at[d]
        /\ copies'[d] = copies[d]
        /\ pc[d] \notin {"start", "try"} /\ ~Overdue(d)
        /\ pc[d] = "sleep" => now < at[d]
    BY DEF IInv, Tick, dVars
  <2>2. Local(d)'
    <3>1. /\ Backoff(d, attempt[d] - 1)' = Backoff(d, attempt[d] - 1)
          /\ pc[d] = "sleep" => Backoff(d, attempt[d] - 1) \in 1..20
      <4>1. pc[d] = "sleep" => attempt[d] - 1 \in 0..2
        BY <2>1 DEF Local
      <4> QED BY <2>1, <4>1, BackoffType DEF Backoff, InitialDelay
    <3> QED BY <1>1, <2>1, <3>1 DEF Local, TypeOK
  <2>3. ASSUME d \in ObeysContext PROVE InTime(d)'
    <3>1. Slept(d, attempt[d])' = Slept(d, attempt[d])
      BY <2>1 DEF Slept, InitialDelay
    <3>2. ASSUME pc[d] \in InFlight PROVE now' <= ContextEnds
      BY <1>1, <2>1, <2>3, <3>2 DEF Overdue, Done, ContextEnds, Deadline, TypeOK
    <3> QED BY <1>2, <2>1, <2>3, <3>1, <3>2 DEF InTime
  <2> QED BY <2>2, <2>3
<1> QED BY <1>1, <1>3 DEF IInv, ObeysContext

LEMMA ShutdownHolds == IInv /\ Shutdown => IInv'
<1> SUFFICES ASSUME IInv, Shutdown PROVE IInv'
  OBVIOUS
<1>1. now' = now /\ Group
  BY DEF Shutdown, Group
<1>2. TypeOK' /\ (cancelledAt <= now)'
  <2>1. cancelled' \in BOOLEAN /\ cancelledAt' \in Nat /\ cancelledAt' <= now'
    BY <1>1, GroupStep DEF IInv
  <2> QED BY <1>1, <2>1 DEF IInv, TypeOK, Shutdown, dVars
<1>3. ASSUME NEW d \in Destinations
      PROVE  Local(d)' /\ (d \in ObeysContext => InTime(d)')
  BY <1>1, Untouched DEF Shutdown, dVars
<1> QED BY <1>2, <1>3 DEF IInv, ObeysContext

LEMMA IInvHolds == Spec => []IInv
<1>1. ASSUME IInv, [Next]_vars PROVE IInv'
  <2>1. CASE Tick
    BY <1>1, <2>1, TickHolds
  <2>2. CASE Shutdown
    BY <1>1, <2>2, ShutdownHolds
  <2>3. CASE \E d \in Destinations : Goes(d)
    BY <1>1, <2>3, GoesStep
  <2>4. CASE UNCHANGED vars
    <3>1. UNCHANGED <<now, pc, attempt, at, copies, late, spent, cancelled, cancelledAt>>
      BY <2>4 DEF vars, dVars
    <3>2. TypeOK' /\ (cancelledAt <= now)'
      BY <1>1, <3>1 DEF IInv, TypeOK
    <3>3. ASSUME NEW d \in Destinations
          PROVE  Local(d)' /\ (d \in ObeysContext => InTime(d)')
      BY <1>1, <3>1, Untouched DEF Group, GroupSame
    <3> QED BY <3>2, <3>3 DEF IInv, ObeysContext
  <2> QED BY <1>1, <2>1, <2>2, <2>3, <2>4 DEF Next
<1> QED BY InitHolds, <1>1, PTL DEF Spec

-----------------------------------------------------------------------------
(* Theorems.                                                               *)

\* The variables keep their types: RetryWithBackoff makes three attempts, and
\* a destination is never given more than three videos.
THEOREM TypeCorrect == Spec => []TypeOK
<1>1. IInv => TypeOK
  BY DEF IInv
<1> QED BY <1>1, IInvHolds, PTL

\* A goroutine whose requests are made with the context ends at most its
\* back-offs after the context (RetryWithBackoff sleeps without looking at it).
THEOREM EndsInTime == Spec => []ReturnsInTime
<1>1. IInv => ReturnsInTime
  <2> SUFFICES ASSUME IInv, NEW d \in ObeysContext, ~Reported(d)
               PROVE  now <= ContextEnds + 7 * InitialDelay(d)
    BY DEF ReturnsInTime
  <2>1. /\ d \in Destinations /\ Local(d) /\ InTime(d) /\ TypeOK
        /\ ContextEnds \in Nat /\ attempt[d] \in 0..3 /\ now \in Nat
        /\ at[d] \in Nat /\ InitialDelay(d) \in {1, 2, 5}
    BY EndsType, Delays DEF IInv, ObeysContext, Destinations, TypeOK, Retries
  <2>2. Slept(d, attempt[d]) \in Nat /\ Slept(d, attempt[d]) <= 7 * InitialDelay(d)
    BY <2>1, SleptType
  <2>3. CASE pc[d] = "start"
    BY <2>1, <2>3 DEF Local
  <2>4. CASE pc[d] \in InFlight
    BY <2>1, <2>4 DEF InTime
  <2>5. CASE pc[d] = "try"
    BY <2>1, <2>2, <2>5 DEF InTime
  <2>6. CASE pc[d] = "sleep"
    BY <2>1, <2>2, <2>6 DEF InTime, Local
  <2> QED BY <2>1, <2>3, <2>4, <2>5, <2>6 DEF TypeOK, Reported
<1> QED BY <1>1, IInvHolds, PTL

-----------------------------------------------------------------------------
(* The attempts and the deadline.                                          *)

\* A goroutine's time is its requests' and its back-offs', to the second.
OnTime(d) ==
  /\ pc[d] = "start" => spent[d] = 0
  /\ pc[d] \in {"refresh", "init", "upload", "sleep"} =>
       at[d] = spent[d] + Slept(d, attempt[d])
  /\ pc[d] = "try" => now = spent[d] + Slept(d, attempt[d])

\* An attempt that comes too late comes after two back-offs at most.
LateAfter(d) == late[d] => spent[d] + Slept(d, Retries - 1) >= Deadline

Accounts(d) == OnTime(d) /\ LateAfter(d)
AccountsInv == \A d \in Destinations : Accounts(d)

\* Two back-offs are the most before an attempt.
LEMMA SleptBefore ==
  ASSUME NEW d, NEW n \in 0..2
  PROVE  /\ Slept(d, n) \in Nat /\ Slept(d, n) <= Slept(d, Retries - 1)
         /\ Slept(d, 0) = 0 /\ Slept(d, Retries - 1) \in Nat
  <1>0. InitialDelay(d) \in {1, 2, 5} /\ Retries - 1 = 2
    BY Delays DEF Retries
  <1>1. CASE n = 0
    BY <1>0, <1>1 DEF Slept
  <1>2. CASE n = 1
    BY <1>0, <1>2 DEF Slept
  <1>3. CASE n = 2
    BY <1>0, <1>3 DEF Slept
  <1> QED BY <1>1, <1>2, <1>3

LEMMA SameSlept ==
  ASSUME NEW d
  PROVE  \A n : UNCHANGED Slept(d, n)
  BY DEF Slept, InitialDelay

\* A request that comes back has taken the time since it was sent.
LEMMA AnswerAccounts ==
  ASSUME IInv, AccountsInv, NEW d \in Destinations, Answered(d), pc[d] \in InFlight,
         late' = late
  PROVE  /\ spent'[d] \in Nat /\ spent'[d] >= spent[d]
         /\ now = spent'[d] + Slept(d, attempt[d])
         /\ LateAfter(d)'
  <1>1. /\ now \in Nat /\ at[d] \in Nat /\ at[d] <= now /\ spent[d] \in Nat
        /\ spent'[d] = spent[d] + (now - at[d])
    BY DEF IInv, TypeOK, Local, Answered
  <1>2. at[d] = spent[d] + Slept(d, attempt[d]) /\ LateAfter(d)
    BY DEF AccountsInv, Accounts, OnTime, InFlight
  <1>3. attempt[d] \in 0..2
    BY DEF IInv, Local, InFlight
  <1>4. Slept(d, attempt[d]) \in Nat /\ Slept(d, Retries - 1) \in Nat
    BY <1>3, SleptBefore
  <1>5. spent'[d] \in Nat /\ spent'[d] >= spent[d]
    BY <1>1
  <1>6. now = spent'[d] + Slept(d, attempt[d])
    BY <1>1, <1>2, <1>4
  <1>7. LateAfter(d)'
    BY <1>1, <1>2, <1>4, <1>5, SameSlept DEF LateAfter, Deadline, Retries
  <1> QED BY <1>5, <1>6, <1>7

\* The sleep that begins now ends with the back-offs of one attempt more.
LEMMA SleepAccounts ==
  ASSUME IInv, NEW d \in Destinations, SleepAfter(d), attempt[d] \in 0..2,
         spent'[d] \in Nat, now = spent'[d] + Slept(d, attempt[d])
  PROVE  OnTime(d)'
  <1>1. /\ Backoff(d, attempt[d]) \in 1..20
        /\ Slept(d, attempt[d] + 1) = Slept(d, attempt[d]) + Backoff(d, attempt[d])
    BY BackoffType
  <1>2. /\ pc'[d] = "sleep" /\ attempt'[d] = attempt[d] + 1
        /\ at'[d] = now + Backoff(d, attempt[d]) /\ now \in Nat
    BY <1>1 DEF IInv, TypeOK, SleepAfter, Goto, Retries
  <1>3. Slept(d, attempt[d])' = Slept(d, attempt[d] + 1)
    BY <1>2 DEF Slept, InitialDelay
  <1>4. Slept(d, attempt[d]) \in Nat
    BY SleptBefore
  <1> QED BY <1>1, <1>2, <1>3, <1>4 DEF OnTime

LEMMA AccountsGo ==
  ASSUME IInv, AccountsInv, NEW d \in Destinations, Goes(d)
  PROVE  Accounts(d)'
  <1>0. /\ TypeOK /\ Local(d) /\ OnTime(d) /\ LateAfter(d)
        /\ now \in Nat /\ at[d] \in Nat /\ attempt[d] \in 0..3 /\ spent[d] \in Nat
    BY DEF IInv, AccountsInv, Accounts, TypeOK, Retries
  <1>s. attempt'[d] = attempt[d] => Slept(d, attempt[d])' = Slept(d, attempt[d])
    BY DEF Slept, InitialDelay
  <1>l. late' = late /\ spent' = spent => LateAfter(d)'
    BY <1>0, SameSlept DEF LateAfter, Deadline, Retries
  <1>1. CASE Rejects(d)
    <2>1. pc'[d] = "error" /\ late' = late /\ spent' = spent
      BY <1>1, <1>0 DEF Rejects, ReturnError, Goto, dVars, TypeOK
    <2> QED BY <1>l, <2>1 DEF Accounts, OnTime
  <1>2. CASE Prepare(d)
    <2>1. /\ pc'[d] = "try" /\ attempt'[d] = 0 /\ now' = 0 /\ spent[d] = 0
          /\ late' = late /\ spent' = spent
      BY <1>2, <1>0 DEF Prepare, Goto, dVars, TypeOK, Local, OnTime
    <2>2. Slept(d, attempt[d])' = 0
      BY <2>1, Delays DEF Slept, InitialDelay
    <2> QED BY <1>l, <2>1, <2>2 DEF Accounts, OnTime
  <1>3. CASE PrepareTikTok(d)
    <2>1. /\ pc'[d] \in {"refresh", "init"} /\ at'[d] = 0 /\ attempt'[d] = 0
          /\ spent[d] = 0 /\ late' = late /\ spent' = spent
      BY <1>3, <1>0 DEF PrepareTikTok, Send, Goto, TypeOK, Local, OnTime
    <2>2. Slept(d, attempt[d])' = 0
      BY <2>1, Delays DEF Slept, InitialDelay
    <2> QED BY <1>l, <2>1, <2>2 DEF Accounts, OnTime
  <1>4. CASE Refreshed(d)
    <2>1. /\ pc[d] = "refresh" /\ pc'[d] = "init" /\ at'[d] = now /\ now' = now
          /\ attempt'[d] = attempt[d] /\ late' = late /\ Answered(d)
      BY <1>4, <1>0 DEF Refreshed, Send, Goto, TypeOK
    <2>2. now = spent'[d] + Slept(d, attempt[d]) /\ LateAfter(d)'
      BY <2>1, AnswerAccounts DEF InFlight
    <2> QED BY <1>s, <2>1, <2>2 DEF Accounts, OnTime
  <1>5. CASE InitOk(d)
    <2>1. /\ pc[d] = "init" /\ pc'[d] = "try" /\ now' = now
          /\ attempt'[d] = attempt[d] /\ late' = late /\ Answered(d)
      BY <1>5, <1>0 DEF InitOk, Goto, TypeOK
    <2>2. now = spent'[d] + Slept(d, attempt[d]) /\ LateAfter(d)'
      BY <2>1, AnswerAccounts DEF InFlight
    <2> QED BY <1>s, <2>1, <2>2 DEF Accounts, OnTime
  <1>6. CASE InitFails(d) \/ UploadOk(d)
    <2>1. /\ pc[d] \in InFlight /\ pc'[d] \in {"error", "ok"} /\ late' = late
          /\ Answered(d)
      BY <1>6, <1>0 DEF InitFails, UploadOk, ReturnError, Goto, TypeOK, InFlight
    <2>2. LateAfter(d)'
      BY <2>1, AnswerAccounts
    <2> QED BY <2>1, <2>2 DEF Accounts, OnTime
  <1>7. CASE Upload(d)
    <2>1. /\ pc[d] = "try" /\ pc'[d] = "upload" /\ at'[d] = now /\ now' = now
          /\ attempt'[d] = attempt[d] /\ late' = late /\ spent' = spent
      BY <1>7, <1>0 DEF Upload, Send, Goto, TypeOK
    <2> QED BY <1>0, <1>s, <1>l, <2>1 DEF Accounts, OnTime
  <1>8. CASE UploadRefused(d)
    <2>1. /\ pc[d] = "try" /\ attempt[d] \in 0..2 /\ spent' = spent /\ SleepAfter(d)
          /\ late'[d] => late[d] \/ now >= Deadline
      BY <1>8, <1>0 DEF UploadRefused, TypeOK, Local
    <2>2. now = spent[d] + Slept(d, attempt[d])
      BY <1>0, <2>1 DEF OnTime
    <2>3. OnTime(d)'
      BY <1>0, <2>1, <2>2, SleepAccounts
    <2>4. now >= Deadline => spent[d] + Slept(d, Retries - 1) >= Deadline
      BY <1>0, <2>1, <2>2, SleptBefore DEF Deadline
    <2>5. LateAfter(d)'
      BY <1>0, <2>1, <2>4, SameSlept DEF LateAfter, Deadline, Retries
    <2> QED BY <2>3, <2>5 DEF Accounts
  <1>9. CASE UploadFails(d)
    <2>1. /\ pc[d] = "upload" /\ attempt[d] \in 0..2 /\ SleepAfter(d)
          /\ late' = late /\ Answered(d)
      BY <1>9, <1>0 DEF UploadFails, TypeOK, Local
    <2>2. spent'[d] \in Nat /\ now = spent'[d] + Slept(d, attempt[d]) /\ LateAfter(d)'
      BY <2>1, AnswerAccounts DEF InFlight
    <2> QED BY <2>1, <2>2, SleepAccounts DEF Accounts
  <1>10. CASE Wake(d)
    <2>1. /\ pc[d] = "sleep" /\ now' = now /\ now >= at[d] /\ attempt' = attempt
          /\ pc'[d] \in {"error", "try"} /\ late' = late /\ spent' = spent
      BY <1>10, <1>0 DEF Wake, Lastly, ReturnError, Goto, dVars, TypeOK
    <2>2. now = at[d]
      BY <1>0, <2>1 DEF Local
    <2> QED BY <1>0, <1>s, <1>l, <2>1, <2>2 DEF Accounts, OnTime
  <1> QED BY <1>1, <1>2, <1>3, <1>4, <1>5, <1>6, <1>7, <1>8, <1>9, <1>10 DEF Goes

\* What a step leaves alone of d, and the clock, which waits for those who try.
LEMMA OthersAccount ==
  ASSUME AccountsInv, NEW d \in Destinations,
         pc'[d] = pc[d], attempt'[d] = attempt[d], at'[d] = at[d],
         late'[d] = late[d], spent'[d] = spent[d],
         now' = now \/ pc[d] # "try"
  PROVE  Accounts(d)'
  <1>1. Slept(d, attempt[d])' = Slept(d, attempt[d])
    BY DEF Slept, InitialDelay
  <1>2. OnTime(d)'
    BY <1>1 DEF AccountsInv, Accounts, OnTime
  <1>3. LateAfter(d)'
    BY SameSlept DEF AccountsInv, Accounts, LateAfter, Deadline, Retries
  <1> QED BY <1>2, <1>3 DEF Accounts

LEMMA AccountsHold == Spec => []AccountsInv
<1>1. Init => AccountsInv
  BY DEF Init, AccountsInv, Accounts, OnTime, LateAfter
<1>2. ASSUME IInv, AccountsInv, [Next]_vars PROVE AccountsInv'
  <2> SUFFICES ASSUME NEW d \in Destinations PROVE Accounts(d)'
    BY DEF AccountsInv, Destinations
  <2>0. TypeOK
    BY <1>2 DEF IInv
  <2>1. CASE Tick
    <3>1. UNCHANGED <<pc, attempt, at, late, spent>> /\ pc[d] # "try"
      BY <2>1 DEF Tick, dVars
    <3> QED BY <1>2, <3>1, OthersAccount
  <2>2. CASE Shutdown \/ UNCHANGED vars
    <3>1. UNCHANGED <<now, pc, attempt, at, late, spent>>
      BY <2>2 DEF Shutdown, vars, dVars
    <3> QED BY <1>2, <3>1, OthersAccount
  <2>3. ASSUME NEW e \in Destinations, Goes(e)
        PROVE  Accounts(d)'
    <3>1. CASE e = d
      BY <1>2, <2>3, <3>1, AccountsGo
    <3>2. CASE e # d
      <4>1. /\ now' = now /\ pc'[d] = pc[d] /\ attempt'[d] = attempt[d]
            /\ at'[d] = at[d] /\ late'[d] = late[d] /\ spent'[d] = spent[d]
        BY <2>0, <2>3, <3>2
           DEF Goes, Rejects, Prepare, PrepareTikTok, Refreshed, InitOk, InitFails,
               Upload, UploadRefused, UploadOk, UploadFails, Wake, Lastly, ReturnError,
               Answered, Send, SleepAfter, Goto, dVars, TypeOK
      <4> QED BY <1>2, <4>1, OthersAccount
    <3> QED BY <3>1, <3>2
  <2> QED BY <1>2, <2>1, <2>2, <2>3 DEF Next
<1> QED BY <1>1, <1>2, IInvHolds, PTL DEF Spec

\* For any destinations and latencies: a goroutine spends its 30 seconds on its
\* requests and the back-offs before each attempt and on nothing else, and an
\* attempt comes after the deadline only when the requests before it took all
\* that two back-offs leave (RetryWithBackoff and processJob).
THEOREM RoomForAttempts == Spec => []AttemptsFit
<1>1. AccountsInv => AttemptsFit
  BY DEF AccountsInv, Accounts, OnTime, LateAfter, AttemptsFit
<1> QED BY <1>1, AccountsHold, PTL

-----------------------------------------------------------------------------
(* Refinement.                                                             *)

\* A step that reports nothing is a stutter.
LEMMA Silent ==
  ASSUME TypeOK, NEW d \in Destinations, ~Reported(d), Reported(d)' = FALSE,
         \A e \in Destinations \ {d} : pc'[e] = pc[e] /\ copies'[e] = copies[e]
  PROVE  UNCHANGED D!vars
<1>1. ASSUME NEW e \in Destinations
      PROVE  /\ Reported(e)' <=> Reported(e)
             /\ Reported(e) => copies'[e] = copies[e]
             /\ pc'[e] = "error" <=> pc[e] = "error"
  BY DEF Reported
<1>2. Todo' = Todo /\ Has' = Has /\ Err' = Err
  BY <1>1 DEF Todo, Has, Err, Destinations
<1> QED BY <1>2 DEF D!vars

\* A goroutine that returns reports once, for itself alone.
LEMMA StepReports ==
  ASSUME TypeOK, NEW d \in Destinations, ~Reported(d),
         pc'[d] = "error" \/ (pc'[d] = "ok" /\ copies'[d] > 0),
         \A e \in Destinations \ {d} : pc'[e] = pc[e] /\ copies'[e] = copies[e]
  PROVE  D!Next
<1> DEFINE got == copies'[d] > 0
           ok == pc'[d] = "ok"
<1>1. d \in Todo /\ (ok => got) /\ got \in BOOLEAN /\ ok \in BOOLEAN
  BY DEF Todo
<1>2. Todo' = Todo \ {d}
  BY DEF Todo, Reported, Destinations
<1>3. Has' = IF got THEN Has \cup {d} ELSE Has
  <2>1. \A e \in Destinations : e # d =>
          ((Reported(e) /\ copies[e] > 0)' <=> (Reported(e) /\ copies[e] > 0))
    BY DEF Reported
  <2>2. (Reported(d) /\ copies[d] > 0)' <=> got
    BY DEF Reported
  <2> QED BY <2>1, <2>2 DEF Has, Destinations
<1>4. Err' = (Err \/ ~ok)
  BY DEF Err, Reported, Destinations
<1>5. D!Report(d, got, ok)
  BY <1>1, <1>2, <1>3, <1>4 DEF D!Report
<1> QED BY <1>1, <1>5 DEF D!Next

LEMMA GoesRefines ==
  ASSUME IInv, NEW d \in Destinations, Goes(d)
  PROVE  [D!Next]_(D!vars)
<1>0. TypeOK
  BY DEF IInv
<1>1. /\ ~Reported(d)
      /\ \A e \in Destinations \ {d} : pc'[e] = pc[e] /\ copies'[e] = copies[e]
  BY <1>0 DEF Goes, Rejects, Prepare, PrepareTikTok, Refreshed, InitOk, InitFails,
         Upload, UploadRefused, UploadOk, UploadFails, Wake, Lastly, ReturnError,
         Send, SleepAfter, Goto, dVars, Reported, TypeOK
<1>2. \/ Reported(d)' = FALSE
      \/ pc'[d] = "error"
      \/ pc'[d] = "ok" /\ copies'[d] > 0
  BY <1>0 DEF Goes, Rejects, Prepare, PrepareTikTok, Refreshed, InitOk, InitFails,
         Upload, UploadRefused, UploadOk, UploadFails, Wake, Lastly, ReturnError,
         Send, SleepAfter, Goto, dVars, Reported, TypeOK
<1> QED BY <1>0, <1>1, <1>2, Silent, StepReports

\* processJob implements Delivery: every destination reports once, no nil
\* report without the video, and the verdict is nil only if every report is.
THEOREM Implements == Spec => ImplementsDelivery
<1>1. Init => D!Init
  BY DEF Init, D!Init, Todo, Has, Err, Reported, Destinations
<1>2. ASSUME IInv, [Next]_vars PROVE [D!Next]_(D!vars)
  <2>1. CASE \E d \in Destinations : Goes(d)
    BY <1>2, <2>1, GoesRefines
  <2>2. CASE Tick \/ Shutdown \/ UNCHANGED vars
    <3>1. pc' = pc /\ copies' = copies
      BY <2>2 DEF Tick, Shutdown, vars, dVars
    <3> QED BY <3>1 DEF D!vars, Todo, Has, Err, Reported
  <2> QED BY <1>2, <2>1, <2>2 DEF Next
<1> QED BY <1>1, <1>2, IInvHolds, PTL DEF Spec, ImplementsDelivery, D!Spec

=============================================================================
