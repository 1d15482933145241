---------------------------- MODULE QuotaProofs ----------------------------
(***************************************************************************)
(* Proofs about Quota, for any number of requests, connections and days    *)
(* and any limit.  The invariant says what the owner of the row's lock has *)
(* seen: nobody else changes the row until it commits, so what it computed *)
(* from the row is still true of the row.                                  *)
(***************************************************************************)
EXTENDS Quota, FiniteSetTheorems, TLAPS

\* A charge is made by a transaction that is over, under a day not later than
\* the row's.
ChargesOK ==
  /\ \A r \in Requests : charged[r] <= resetDay
  /\ \A r \in Requests : charged[r] > 0 => pc[r] \in {"handling", "done"}

\* Who has the lock is between its reset and its commit, and every open
\* transaction has its connection.
LockOK ==
  /\ \A r \in Requests :
       pc[r] \in {"begun", "checked", "charging", "over"} => r \in held
  /\ lock # NoRequest => pc[lock] \in {"checked", "charging"}
  /\ \A r \in Requests : pc[r] = "charging" => lock = r

\* The owner's version of the row: reset to a later day, or one more than the
\* committed count, or both.
ResetMine == mine.jobs = 0 /\ mine.day > resetDay
ChargedMine ==
  /\ Limit > 0 => mine.jobs <= Limit
  /\ \/ mine.day = resetDay /\ mine.jobs = jobsToday + 1
     \/ mine.day > resetDay /\ mine.jobs = 1
MineOK ==
  /\ (lock # NoRequest /\ pc[lock] = "checked") => ResetMine
  /\ \A r \in Requests : pc[r] = "charging" => ChargedMine

\* Whoever is over the limit found it used up.
FullOK ==
  (\E r \in Requests : pc[r] \in {"over", "refused"})
    => \E d \in 1..MaxDay : Cardinality(ChargedUnder(d)) = Limit

Shape == TypeOK /\ ChargesOK /\ LockOK /\ MineOK

-----------------------------------------------------------------------------
(* Counting.                                                               *)

LEMMA ChargedFinite ==
  ASSUME NEW d
  PROVE  IsFiniteSet(ChargedUnder(d)) /\ Cardinality(ChargedUnder(d)) \in Nat
  <1>1. IsFiniteSet(ChargedUnder(d))
    BY FS_Subset, QuotaAssumption DEF ChargedUnder, QuotaAssumption
  <1> QED BY <1>1, FS_CardinalityType

\* A commit adds one request to those of its day and none to another day.
LEMMA OneMore ==
  ASSUME TypeOK, NEW r \in Requests, charged[r] = 0, Committed(r),
         NEW d \in 1..MaxDay
  PROVE  /\ d = mine.day => Cardinality(ChargedUnder(d)') =
                              Cardinality(ChargedUnder(d)) + 1
         /\ d # mine.day => ChargedUnder(d)' = ChargedUnder(d)
  <1>1. mine.day \in 1..MaxDay /\ charged \in [Requests -> 0..MaxDay]
    BY DEF TypeOK, Row
  <1>2. CASE d = mine.day
    <2>1. ChargedUnder(d)' = ChargedUnder(d) \cup {r}
      BY <1>1, <1>2 DEF Committed, ChargedUnder
    <2>2. r \notin ChargedUnder(d) BY <1>1, <1>2 DEF ChargedUnder
    <2>3. Cardinality(ChargedUnder(d) \cup {r}) = Cardinality(ChargedUnder(d)) + 1
      BY <2>2, ChargedFinite, FS_AddElement
    <2> QED BY <1>2, <2>1, <2>3
  <1>3. CASE d # mine.day
    <2>1. ChargedUnder(d)' = ChargedUnder(d)
      BY <1>1, <1>3 DEF Committed, ChargedUnder
    <2> QED BY <1>3, <2>1
  <1> QED BY <1>2, <1>3

\* Without a commit the charges stay.
LEMMA SameCharges ==
  ASSUME charged' = charged, NEW d
  PROVE  ChargedUnder(d)' = ChargedUnder(d)
  BY DEF ChargedUnder

-----------------------------------------------------------------------------
(* What a step does, by what matters to the invariant: the charges, the    *)
(* row, and who has the lock.                                              *)

LEMMA InitOK ==
  Init => /\ Shape /\ CountIsExact /\ WithinLimit
          /\ FullOK /\ OneFreePassPerFault
  <1> SUFFICES ASSUME Init
               PROVE  /\ Shape /\ CountIsExact /\ WithinLimit
                      /\ FullOK /\ OneFreePassPerFault
    OBVIOUS
  <1> USE DEF Init
  <1>1. TypeOK BY QuotaAssumption DEF TypeOK, Row, Answered, QuotaAssumption
  <1>2. ChargesOK /\ LockOK /\ MineOK BY QuotaAssumption
    DEF ChargesOK, LockOK, MineOK, ChargedMine, ResetMine, QuotaAssumption
  <1>3. \A d \in 1..MaxDay : ChargedUnder(d) = {} BY DEF ChargedUnder
  <1>4. \A d \in 1..MaxDay : Cardinality(ChargedUnder(d)) = 0
    BY <1>3, FS_EmptySet
  <1>5. CountIsExact
    BY <1>4, QuotaAssumption DEF CountIsExact, QuotaAssumption
  <1>6. WithinLimit BY <1>4, QuotaAssumption DEF WithinLimit, QuotaAssumption
  <1>7. FullOK BY DEF FullOK
  <1>8. {r \in Requests : pc[r] \in {"handling", "done"} /\ charged[r] = 0} = {}
    OBVIOUS
  <1>9. OneFreePassPerFault BY <1>8, FS_EmptySet DEF OneFreePassPerFault
  <1> QED BY <1>1, <1>2, <1>5, <1>6, <1>7, <1>9 DEF Shape

\* The type of the variables is kept.
LEMMA TypeStep == TypeOK /\ LockOK /\ [Next]_vars => TypeOK'
  <1> SUFFICES ASSUME TypeOK, LockOK, [Next]_vars PROVE TypeOK' OBVIOUS
  <1> USE QuotaAssumption DEF TypeOK, LockOK, Row, Answered, QuotaAssumption
  <1>1. CASE NextDay BY <1>1 DEF NextDay, rowVars
  <1>2. CASE UNCHANGED vars BY <1>2 DEF vars, rowVars
  <1> DEFINE Step(r) == Works(r) \/ Fails(r)
  <1>3. ASSUME NEW r \in Requests, Works(r) PROVE TypeOK'
    <2>1. CASE Authenticate(r) BY <2>1 DEF Authenticate, Goto, rowVars
    <2>2. CASE Begin(r) BY <2>2 DEF Begin, Goto, rowVars
    <2>3. CASE Reset(r) BY <2>3 DEF Reset, Goto, MayUpdate, NeedsReset
    <2>4. CASE Increment(r) BY <2>4 DEF Increment, Goto, MayUpdate, Seen
    <2>5. CASE OverLimit(r) BY <2>5 DEF OverLimit, Goto, rowVars
    <2>6. CASE Refuse(r) BY <2>6 DEF Refuse, Goto, Unlock
    <2>7. CASE Commit(r) BY <2>7 DEF Commit, Committed, Goto, Unlock
    <2>8. CASE Handle(r) BY <2>8 DEF Handle, Goto, rowVars
    <2> QED BY <1>3, <2>1, <2>2, <2>3, <2>4, <2>5, <2>6, <2>7, <2>8 DEF Works
  <1>4. ASSUME NEW r \in Requests, Fails(r) PROVE TypeOK'
    <2>1. CASE NotAuthenticated(r)
      BY <2>1 DEF NotAuthenticated, Goto, rowVars, Fault
    <2>2. CASE BeginFails(r) BY <2>2 DEF BeginFails, Goto, rowVars, Fault
    <2>3. CASE StatementFails(r) BY <2>3 DEF StatementFails, Goto, Unlock, Fault
    <2>4. CASE CommitFails(r)
      BY <2>4 DEF CommitFails, Committed, Goto, Unlock, Fault
    <2>5. CASE HandleFails(r) BY <2>5 DEF HandleFails, Goto, rowVars, Fault
    <2> QED BY <1>4, <2>1, <2>2, <2>3, <2>4, <2>5 DEF Fails
  <1> QED BY <1>1, <1>2, <1>3, <1>4 DEF Next
\* Who has the lock, and who has a connection.
LEMMA LockStep == Shape /\ [Next]_vars => LockOK'
  <1> SUFFICES ASSUME Shape, [Next]_vars PROVE LockOK' OBVIOUS
  <1> USE QuotaAssumption DEF Shape, TypeOK, LockOK, Answered, QuotaAssumption
  <1>1. CASE NextDay BY <1>1 DEF NextDay, rowVars
  <1>2. CASE UNCHANGED vars BY <1>2 DEF vars, rowVars
  <1>3. ASSUME NEW r \in Requests, Works(r) PROVE LockOK'
    <2>1. CASE Authenticate(r) BY <2>1 DEF Authenticate, Goto, rowVars
    <2>2. CASE Begin(r) BY <2>2 DEF Begin, Goto, rowVars
    <2>3. CASE Reset(r) BY <2>3 DEF Reset, Goto, MayUpdate, NeedsReset
    <2>4. CASE Increment(r) BY <2>4 DEF Increment, Goto, MayUpdate
    <2>5. CASE OverLimit(r)
      <3>1. lock # r
        BY <2>5 DEF OverLimit, MineOK, ResetMine, Seen, BelowLimit
      <3> QED BY <2>5, <3>1 DEF OverLimit, Goto, rowVars
    <2>6. CASE Refuse(r) BY <2>6 DEF Refuse, Goto, Unlock
    <2>7. CASE Commit(r) BY <2>7 DEF Commit, Committed, Goto, Unlock
    <2>8. CASE Handle(r) BY <2>8 DEF Handle, Goto, rowVars
    <2> QED BY <1>3, <2>1, <2>2, <2>3, <2>4, <2>5, <2>6, <2>7, <2>8 DEF Works
  <1>4. ASSUME NEW r \in Requests, Fails(r) PROVE LockOK'
    <2>1. CASE NotAuthenticated(r) BY <2>1 DEF NotAuthenticated, Goto, rowVars
    <2>2. CASE BeginFails(r) BY <2>2 DEF BeginFails, Goto, rowVars
    <2>3. CASE StatementFails(r) BY <2>3 DEF StatementFails, Goto, Unlock
    <2>4. CASE CommitFails(r) BY <2>4 DEF CommitFails, Committed, Goto, Unlock
    <2>5. CASE HandleFails(r) BY <2>5 DEF HandleFails, Goto, rowVars
    <2> QED BY <1>4, <2>1, <2>2, <2>3, <2>4, <2>5 DEF Fails
  <1> QED BY <1>1, <1>2, <1>3, <1>4 DEF Next

\* The charges, and where the charged requests are.
LEMMA ChargesStep == Shape /\ [Next]_vars => ChargesOK'
  <1> SUFFICES ASSUME Shape, [Next]_vars PROVE ChargesOK' OBVIOUS
  <1> USE DEF Shape, TypeOK, ChargesOK, Answered, Row
  <1>1. CASE NextDay BY <1>1 DEF NextDay, rowVars
  <1>2. CASE UNCHANGED vars BY <1>2 DEF vars, rowVars
  <1>c. ASSUME NEW r \in Requests, pc[r] = "charging"
        PROVE  mine.day >= resetDay
    BY <1>c DEF MineOK, ChargedMine
  <1>3. ASSUME NEW r \in Requests, Works(r) PROVE ChargesOK'
    <2>1. CASE Authenticate(r) BY <2>1 DEF Authenticate, Goto, rowVars
    <2>2. CASE Begin(r) BY <2>2 DEF Begin, Goto, rowVars
    <2>3. CASE Reset(r) BY <2>3 DEF Reset, Goto
    <2>4. CASE Increment(r) BY <2>4 DEF Increment, Goto
    <2>5. CASE OverLimit(r) BY <2>5 DEF OverLimit, Goto, rowVars
    <2>6. CASE Refuse(r) BY <2>6 DEF Refuse, Goto
    <2>7. CASE Commit(r) BY <1>c, <2>7 DEF Commit, Committed, Goto
    <2>8. CASE Handle(r) BY <2>8 DEF Handle, Goto, rowVars
    <2> QED BY <1>3, <2>1, <2>2, <2>3, <2>4, <2>5, <2>6, <2>7, <2>8 DEF Works
  <1>4. ASSUME NEW r \in Requests, Fails(r) PROVE ChargesOK'
    <2>1. CASE NotAuthenticated(r) BY <2>1 DEF NotAuthenticated, Goto, rowVars
    <2>2. CASE BeginFails(r) BY <2>2 DEF BeginFails, Goto, rowVars
    <2>3. CASE StatementFails(r) BY <2>3 DEF StatementFails, Goto
    <2>4. CASE CommitFails(r) BY <1>c, <2>4 DEF CommitFails, Committed, Goto
    <2>5. CASE HandleFails(r) BY <2>5 DEF HandleFails, Goto, rowVars
    <2> QED BY <1>4, <2>1, <2>2, <2>3, <2>4, <2>5 DEF Fails
  <1> QED BY <1>1, <1>2, <1>3, <1>4 DEF Next

\* What the lock's owner computed from the row is still true of it.
LEMMA MineStep == Shape /\ [Next]_vars => MineOK'
  <1> SUFFICES ASSUME Shape, [Next]_vars PROVE MineOK' OBVIOUS
  <1> USE QuotaAssumption
      DEF Shape, TypeOK, LockOK, MineOK, ResetMine, ChargedMine, Answered, Row,
          QuotaAssumption
  <1>1. CASE NextDay BY <1>1 DEF NextDay, rowVars
  <1>2. CASE UNCHANGED vars BY <1>2 DEF vars, rowVars
  <1>3. ASSUME NEW r \in Requests, Works(r) PROVE MineOK'
    <2>1. CASE Authenticate(r) BY <2>1 DEF Authenticate, Goto, rowVars
    <2>2. CASE Begin(r) BY <2>2 DEF Begin, Goto, rowVars
    <2>3. CASE Reset(r)
      BY <2>3 DEF Reset, Goto, MayUpdate, NeedsReset
    <2>4. CASE Increment(r)
      <3>1. \A q \in Requests : q # r => pc[q] # "charging"
        BY <2>4 DEF Increment, MayUpdate
      <3>2. Limit > 0 => mine'.jobs <= Limit
        BY <2>4 DEF Increment, BelowLimit, Seen
      <3>3. \/ mine'.day = resetDay /\ mine'.jobs = jobsToday + 1
            \/ mine'.day > resetDay /\ mine'.jobs = 1
        BY <2>4 DEF Increment, Seen
      <3> QED BY <2>4, <3>1, <3>2, <3>3 DEF Increment, Goto
    <2>5. CASE OverLimit(r) BY <2>5 DEF OverLimit, Goto, rowVars
    <2>6. CASE Refuse(r) BY <2>6 DEF Refuse, Goto, Unlock
    <2>7. CASE Commit(r) BY <2>7 DEF Commit, Committed, Goto, Unlock
    <2>8. CASE Handle(r) BY <2>8 DEF Handle, Goto, rowVars
    <2> QED BY <1>3, <2>1, <2>2, <2>3, <2>4, <2>5, <2>6, <2>7, <2>8 DEF Works
  <1>4. ASSUME NEW r \in Requests, Fails(r) PROVE MineOK'
    <2>1. CASE NotAuthenticated(r) BY <2>1 DEF NotAuthenticated, Goto, rowVars
    <2>2. CASE BeginFails(r) BY <2>2 DEF BeginFails, Goto, rowVars
    <2>3. CASE StatementFails(r) BY <2>3 DEF StatementFails, Goto, Unlock
    <2>4. CASE CommitFails(r) BY <2>4 DEF CommitFails, Committed, Goto, Unlock
    <2>5. CASE HandleFails(r) BY <2>5 DEF HandleFails, Goto, rowVars
    <2> QED BY <1>4, <2>1, <2>2, <2>3, <2>4, <2>5 DEF Fails
  <1> QED BY <1>1, <1>2, <1>3, <1>4 DEF Next
LEMMA ShapeStep == Shape /\ [Next]_vars => Shape'
  BY TypeStep, LockStep, ChargesStep, MineStep DEF Shape

-----------------------------------------------------------------------------
(* The counting invariants.  Only a commit disturbs them.                  *)

Count == CountIsExact /\ WithinLimit

\* A step is a commit of some request, or leaves the charges and the row.
LEMMA OnlyCommits ==
  ASSUME [Next]_vars
  PROVE  \/ /\ UNCHANGED <<charged, jobsToday, resetDay>>
         \/ \E r \in Requests : pc[r] = "charging" /\ Committed(r)
  <1>1. CASE NextDay BY <1>1 DEF NextDay, rowVars
  <1>2. CASE UNCHANGED vars BY <1>2 DEF vars, rowVars
  <1>3. ASSUME NEW r \in Requests, Works(r), ~Commit(r)
        PROVE  UNCHANGED <<charged, jobsToday, resetDay>>
    BY <1>3 DEF Works, Authenticate, Begin, Reset, Increment, OverLimit,
       Refuse, Handle, rowVars
  <1>4. ASSUME NEW r \in Requests, Fails(r), ~CommitFails(r)
        PROVE  UNCHANGED <<charged, jobsToday, resetDay>>
    BY <1>4 DEF Fails, NotAuthenticated, BeginFails, StatementFails,
       HandleFails, rowVars
  <1>5. ASSUME NEW r \in Requests, Commit(r)
        PROVE  pc[r] = "charging" /\ Committed(r)
    BY <1>5 DEF Commit
  <1>6. ASSUME NEW r \in Requests, CommitFails(r)
        PROVE  \/ UNCHANGED <<charged, jobsToday, resetDay>>
               \/ pc[r] = "charging" /\ Committed(r)
    BY <1>6 DEF CommitFails
  <1> QED BY <1>1, <1>2, <1>3, <1>4, <1>5, <1>6 DEF Next

LEMMA CommitCount ==
  ASSUME Shape, Count, NEW r \in Requests, pc[r] = "charging", Committed(r)
  PROVE  Count'
  <1> USE DEF Shape
  <1>1. charged[r] = 0 BY DEF ChargesOK, TypeOK
  <1>2. ChargedMine BY DEF MineOK
  <1>3. /\ mine.day \in 1..MaxDay /\ mine.jobs \in Nat
        /\ resetDay \in 1..MaxDay /\ jobsToday \in Nat /\ Limit \in Nat
    BY QuotaAssumption DEF TypeOK, Row, QuotaAssumption
  <1>4. \A d \in 1..MaxDay :
          /\ d = mine.day => Cardinality(ChargedUnder(d)') =
                               Cardinality(ChargedUnder(d)) + 1
          /\ d # mine.day => ChargedUnder(d)' = ChargedUnder(d)
    BY <1>1, OneMore
  <1>5. Cardinality(ChargedUnder(mine.day)) + 1 = mine.jobs
    <2>1. CASE mine.day = resetDay
      BY <1>2, <1>3, <2>1 DEF ChargedMine, Count, CountIsExact
    <2>2. CASE mine.day > resetDay
      <3>1. ChargedUnder(mine.day) = {}
        BY <1>3, <2>2 DEF ChargesOK, ChargedUnder, TypeOK
      <3>2. Cardinality(ChargedUnder(mine.day)) = 0 BY <3>1, FS_EmptySet
      <3>3. mine.jobs = 1 BY <1>2, <1>3, <2>2 DEF ChargedMine
      <3> QED BY <3>2, <3>3
    <2> QED BY <1>2, <2>1, <2>2 DEF ChargedMine
  <1>6. CountIsExact'
    <2>1. jobsToday' = mine.jobs /\ resetDay' = mine.day BY DEF Committed
    <2>2. PICK d \in 1..MaxDay : d = mine.day BY <1>3
    <2>3. Cardinality(ChargedUnder(d)') = mine.jobs
      BY <1>4, <1>5, <2>2
    <2>4. ChargedUnder(resetDay)' = ChargedUnder(d)'
      BY <2>1, <2>2 DEF ChargedUnder
    <2> QED BY <2>1, <2>3, <2>4 DEF CountIsExact
  <1>7. WithinLimit'
    <2> SUFFICES ASSUME Limit > 0, NEW d \in 1..MaxDay
                 PROVE  Cardinality(ChargedUnder(d)') <= Limit
      BY DEF WithinLimit
    <2>1. CASE d = mine.day
      BY <1>2, <1>3, <1>4, <1>5, <2>1 DEF ChargedMine
    <2>2. CASE d # mine.day
      BY <1>4, <2>2 DEF Count, WithinLimit
    <2> QED BY <2>1, <2>2
  <1> QED BY <1>6, <1>7 DEF Count

LEMMA CountStep == Shape /\ Count /\ [Next]_vars => Count'
  <1> SUFFICES ASSUME Shape, Count, [Next]_vars PROVE Count' OBVIOUS
  <1>1. CASE UNCHANGED <<charged, jobsToday, resetDay>>
    <2>1. \A d : ChargedUnder(d)' = ChargedUnder(d) BY <1>1, SameCharges
    <2>2. ChargedUnder(resetDay)' = ChargedUnder(resetDay)
      BY <1>1 DEF ChargedUnder
    <2>3. CountIsExact' BY <1>1, <2>2 DEF Count, CountIsExact
    <2>4. WithinLimit' BY <2>1 DEF Count, WithinLimit
    <2> QED BY <2>3, <2>4 DEF Count
  <1> QED BY <1>1, OnlyCommits, CommitCount
\* Once a day's charges have reached the limit they stay there.
LEMMA FullStays ==
  ASSUME Shape, Count, [Next]_vars, NEW d \in 1..MaxDay, Limit > 0,
         Cardinality(ChargedUnder(d)) = Limit
  PROVE  Cardinality(ChargedUnder(d)') = Limit
  <1>0. Count' BY CountStep
  <1>1. CASE UNCHANGED <<charged, jobsToday, resetDay>>
    BY <1>1, SameCharges
  <1>2. ASSUME NEW r \in Requests, pc[r] = "charging", Committed(r)
        PROVE  Cardinality(ChargedUnder(d)') = Limit
    <2>1. charged[r] = 0 BY <1>2 DEF Shape, ChargesOK, TypeOK
    <2>2. CASE d = mine.day
      <3>1. Cardinality(ChargedUnder(d)') = Limit + 1
        BY <1>2, <2>1, <2>2, OneMore DEF Shape
      <3>2. Cardinality(ChargedUnder(d)') <= Limit
        BY <1>0 DEF Count, WithinLimit
      <3> QED BY <3>1, <3>2, QuotaAssumption DEF QuotaAssumption
    <2>3. CASE d # mine.day
      BY <1>2, <2>1, <2>3, OneMore DEF Shape
    <2> QED BY <2>2, <2>3
  <1> QED BY <1>1, <1>2, OnlyCommits

\* Who comes over the limit is not the one that has just reset the count: the
\* committed count is the limit.
LEMMA OverIsFull ==
  ASSUME Shape, Count, NEW r \in Requests, OverLimit(r)
  PROVE  Limit > 0 /\ Cardinality(ChargedUnder(resetDay)) = Limit
  <1>1. Limit > 0 /\ lock # r /\ jobsToday >= Limit
    BY QuotaAssumption DEF OverLimit, BelowLimit, Seen, Shape, MineOK,
       ResetMine, QuotaAssumption, TypeOK
  <1>2. resetDay \in 1..MaxDay BY DEF Shape, TypeOK
  <1>3. Cardinality(ChargedUnder(resetDay)) <= Limit
    BY <1>1, <1>2 DEF Count, WithinLimit
  <1>4. jobsToday = Cardinality(ChargedUnder(resetDay))
    BY DEF Count, CountIsExact
  <1> QED
    BY <1>1, <1>3, <1>4, QuotaAssumption DEF Shape, TypeOK, QuotaAssumption

\* Requests come over the limit in one step only, and are refused from there.
LEMMA OnlyOver ==
  ASSUME TypeOK, [Next]_vars, NEW q \in Requests, pc'[q] \in {"over", "refused"}
  PROVE  pc[q] \in {"over", "refused"} \/ OverLimit(q)
  <1> USE DEF TypeOK, Goto
  <1>1. CASE NextDay BY <1>1 DEF NextDay
  <1>2. CASE UNCHANGED vars BY <1>2 DEF vars
  <1>3. ASSUME NEW r \in Requests, Works(r)
        PROVE  pc[q] \in {"over", "refused"} \/ OverLimit(q)
    BY <1>3 DEF Works, Authenticate, Begin, Reset, Increment, OverLimit,
       Refuse, Commit, Handle
  <1>4. ASSUME NEW r \in Requests, Fails(r)
        PROVE  pc[q] \in {"over", "refused"}
    BY <1>4 DEF Fails, NotAuthenticated, BeginFails, StatementFails,
       CommitFails, HandleFails
  <1> QED BY <1>1, <1>2, <1>3, <1>4 DEF Next

\* FullOK is about limits above 0; without a limit nobody comes over it.
FullInv == (\E r \in Requests : pc[r] \in {"over", "refused"}) => Limit > 0

LEMMA FullStep == Shape /\ Count /\ FullOK /\ FullInv /\ [Next]_vars
                    => FullOK' /\ FullInv'
  <1> SUFFICES ASSUME Shape, Count, FullOK, FullInv, [Next]_vars,
                      NEW q \in Requests, pc'[q] \in {"over", "refused"}
               PROVE  Limit > 0 /\ \E d \in 1..MaxDay :
                                     Cardinality(ChargedUnder(d)') = Limit
    BY DEF FullOK, FullInv
  <1>1. Limit > 0 /\ \E d \in 1..MaxDay : Cardinality(ChargedUnder(d)) = Limit
    <2>1. CASE pc[q] \in {"over", "refused"} BY <2>1 DEF FullOK, FullInv
    <2>2. CASE OverLimit(q) BY <2>2, OverIsFull DEF Shape, TypeOK
    <2> QED BY <2>1, <2>2, OnlyOver DEF Shape
  <1> QED BY <1>1, FullStays

-----------------------------------------------------------------------------
(* Free passes.                                                            *)

FreePasses == {r \in Requests : pc[r] \in {"handling", "done"} /\ charged[r] = 0}

\* A step without a fault lets nobody through uncounted; a fault one at most.
LEMMA FreeStep ==
  ASSUME Shape, [Next]_vars
  PROVE  \/ FreePasses' \subseteq FreePasses /\ faults' >= faults
         \/ \E r \in Requests :
              FreePasses' \subseteq FreePasses \cup {r} /\ faults' = faults + 1
  <1> USE DEF Shape, TypeOK, Goto, FreePasses, rowVars, Fault
  <1>1. CASE NextDay BY <1>1 DEF NextDay
  <1>2. CASE UNCHANGED vars BY <1>2 DEF vars
  <1>3. ASSUME NEW r \in Requests, Works(r)
        PROVE  FreePasses' \subseteq FreePasses /\ faults' >= faults
    <2>1. CASE Authenticate(r) BY <2>1 DEF Authenticate
    <2>2. CASE Begin(r) BY <2>2 DEF Begin
    <2>3. CASE Reset(r) BY <2>3 DEF Reset
    <2>4. CASE Increment(r) BY <2>4 DEF Increment
    <2>5. CASE OverLimit(r) BY <2>5 DEF OverLimit
    <2>6. CASE Refuse(r) BY <2>6 DEF Refuse
    <2>7. CASE Commit(r)
      <3>1. mine.day # 0 BY DEF Row
      <3> QED BY <2>7, <3>1 DEF Commit, Committed
    <2>8. CASE Handle(r) BY <2>8 DEF Handle
    <2> QED BY <1>3, <2>1, <2>2, <2>3, <2>4, <2>5, <2>6, <2>7, <2>8 DEF Works
  <1>4. ASSUME NEW r \in Requests, Fails(r)
        PROVE  FreePasses' \subseteq FreePasses \cup {r} /\ faults' = faults + 1
    <2>1. CASE NotAuthenticated(r) BY <2>1 DEF NotAuthenticated
    <2>2. CASE BeginFails(r) BY <2>2 DEF BeginFails
    <2>3. CASE StatementFails(r) BY <2>3 DEF StatementFails
    <2>4. CASE CommitFails(r)
      <3>1. mine.day # 0 BY DEF Row
      <3> QED BY <2>4, <3>1 DEF CommitFails, Committed
    <2>5. CASE HandleFails(r) BY <2>5 DEF HandleFails
    <2> QED BY <1>4, <2>1, <2>2, <2>3, <2>4, <2>5 DEF Fails
  <1> QED BY <1>1, <1>2, <1>3, <1>4 DEF Next

LEMMA FreePassStep == Shape /\ OneFreePassPerFault /\ [Next]_vars
                        => OneFreePassPerFault'
  <1> SUFFICES ASSUME Shape, OneFreePassPerFault, [Next]_vars
               PROVE  Cardinality(FreePasses') <= faults'
    BY DEF OneFreePassPerFault, FreePasses
  <1>1. Cardinality(FreePasses) <= faults
    BY DEF OneFreePassPerFault, FreePasses
  <1>2. IsFiniteSet(FreePasses) /\ Cardinality(FreePasses) \in Nat
    BY FS_Subset, FS_CardinalityType, QuotaAssumption
    DEF FreePasses, QuotaAssumption
  <1>3. faults \in Nat /\ faults' \in Nat
    <2>1. TypeOK' BY ShapeStep DEF Shape
    <2> QED BY <2>1, QuotaAssumption DEF Shape, TypeOK, QuotaAssumption
  <1>4. CASE FreePasses' \subseteq FreePasses /\ faults' >= faults
    <2>1. Cardinality(FreePasses') <= Cardinality(FreePasses)
          /\ Cardinality(FreePasses') \in Nat
      BY <1>2, <1>4, FS_Subset, FS_CardinalityType
    <2> QED BY <1>1, <1>2, <1>3, <1>4, <2>1
  <1>5. ASSUME NEW r \in Requests, faults' = faults + 1,
               FreePasses' \subseteq FreePasses \cup {r}
        PROVE  Cardinality(FreePasses') <= faults'
    <2>1. /\ IsFiniteSet(FreePasses \cup {r})
          /\ Cardinality(FreePasses \cup {r}) <= Cardinality(FreePasses) + 1
          /\ Cardinality(FreePasses \cup {r}) \in Nat
      BY <1>2, FS_AddElement, FS_CardinalityType
    <2>2. Cardinality(FreePasses') <= Cardinality(FreePasses \cup {r})
          /\ Cardinality(FreePasses') \in Nat
      BY <1>5, <2>1, FS_Subset, FS_CardinalityType
    <2> QED BY <1>1, <1>2, <1>3, <1>5, <2>1, <2>2
  <1> QED BY <1>4, <1>5, FreeStep

-----------------------------------------------------------------------------
(* The theorems.                                                           *)

Inv == Shape /\ Count /\ FullOK /\ FullInv /\ OneFreePassPerFault

LEMMA InvInductive == Spec => []Inv
  <1>1. Init => Inv
    BY InitOK DEF Inv, Count, FullInv, Init
  <1>2. Inv /\ [Next]_vars => Inv'
    BY ShapeStep, CountStep, FullStep, FreePassStep DEF Inv
  <1> QED BY <1>1, <1>2, PTL DEF Spec

\* The variables have their types, and the row is locked by an open
\* transaction only.
THEOREM TypeCorrect == Spec => []TypeOK
  <1>1. Inv => TypeOK BY DEF Inv, Shape
  <1> QED BY <1>1, InvInductive, PTL

\* jobs_today is exact: two UPDATEs and a lock per transaction lose nothing,
\* whatever requests overlap at whatever midnight.
THEOREM CountExact == Spec => []CountIsExact
  <1>1. Inv => CountIsExact BY DEF Inv, Count
  <1> QED BY <1>1, InvInductive, PTL

\* No day's charges go over the plan's limit.
THEOREM LimitHolds == Spec => []WithinLimit
  <1>1. Inv => WithinLimit BY DEF Inv, Count
  <1> QED BY <1>1, InvInductive, PTL

\* Nobody is refused while there is quota left.
THEOREM RefusalsAreDue == Spec => []RefusedOnlyWhenFull
  <1>1. Inv => RefusedOnlyWhenFull BY DEF Inv, FullOK, RefusedOnlyWhenFull
  <1> QED BY <1>1, InvInductive, PTL

\* Failing open costs one uncounted request per failed command.
THEOREM FreePassesBounded == Spec => []OneFreePassPerFault
  <1>1. Inv => OneFreePassPerFault BY DEF Inv
  <1> QED BY <1>1, InvInductive, PTL

\* The row's day only grows, and a count is lowered by a new day only.
THEOREM ResetsAreOrdered == Spec => OneResetPerDay
  <1>1. Inv /\ [Next]_vars
          => [ /\ resetDay' >= resetDay
               /\ jobsToday' < jobsToday => resetDay' > resetDay ]_vars
    <2> SUFFICES ASSUME Inv, [Next]_vars
                 PROVE  /\ resetDay' >= resetDay
                        /\ jobsToday' < jobsToday => resetDay' > resetDay
      OBVIOUS
    <2> USE DEF Inv, Shape, TypeOK
    <2>1. CASE UNCHANGED <<charged, jobsToday, resetDay>> BY <2>1
    <2>2. ASSUME NEW r \in Requests, pc[r] = "charging", Committed(r)
          PROVE  /\ resetDay' >= resetDay
                 /\ jobsToday' < jobsToday => resetDay' > resetDay
      BY <2>2 DEF Committed, MineOK, ChargedMine, Row
    <2> QED BY <2>1, <2>2, OnlyCommits
  <1> QED BY <1>1, InvInductive, PTL DEF Spec, OneResetPerDay
=============================================================================
