-------------------------- MODULE RateLimitProofs --------------------------
(***************************************************************************)
(* Proofs about RateLimit, for any number of requests and any limit,       *)
(* window, delay and step of the clock.  The sorted set remembers every    *)
(* counted request until it is a window old, by the clock and not only by  *)
(* the time of whoever cuts it; so a request that is let through has found *)
(* everybody in the set who was let through in the window it belongs to.   *)
(***************************************************************************)
EXTENDS RateLimit, Functions, FiniteSetTheorems, TLAPS

Counted == {"passed", "refused"}

\* Nobody counted is forgotten within its window.
Remembered ==
  \A r \in Calls : stage[r] \in Counted =>
    \/ Float(time[r]) \in zset
    \/ Float(time[r]) <= Float(clock - Window)

\* The key outlives everybody in it.
KeyLives == \A r \in Calls : stage[r] \in Counted => time[r] + Window <= expires

Inv == RateTypeOK /\ Remembered /\ KeyLives

-----------------------------------------------------------------------------

LEMMA DivMonotone ==
  ASSUME NEW a \in Int, NEW b \in Int, NEW k \in Int, k > 0, a <= b
  PROVE  a \div k <= b \div k
  BY SMT

\* A later time is not less as a float.
LEMMA FloatMonotone ==
  ASSUME NEW a \in Int, NEW b \in Int, a <= b
  PROVE  Float(a) \in Int /\ Float(b) \in Int /\ Float(a) <= Float(b)
  <1>1. Step \in Int /\ Step > 0
    BY RateLimitAssumption DEF RateLimitAssumption
  <1>2. Step \div 2 \in Int BY <1>1
  <1> DEFINE h == Step \div 2
  <1>3. a + h \in Int /\ b + h \in Int /\ a + h <= b + h BY <1>2
  <1>4. (a + h) \div Step \in Int /\ (b + h) \div Step \in Int
    BY <1>1, <1>3
  <1>5. (a + h) \div Step <= (b + h) \div Step
    BY <1>1, <1>3, DivMonotone
  <1> QED BY <1>4, <1>5 DEF Float

LEMMA Parameters ==
  /\ Window \in Nat /\ Window > 0 /\ MaxDelay \in Nat /\ MaxDelay < Window
  /\ MaxTime \in Nat /\ Window <= MaxTime
  /\ PerSecond \in Nat /\ MaxLost \in Nat /\ IsFiniteSet(Calls)
  BY RateLimitAssumption DEF RateLimitAssumption

-----------------------------------------------------------------------------
(* The invariant.                                                          *)

LEMMA InitInv == RateInit => Inv
  BY RateLimitAssumption
  DEF RateInit, Inv, RateTypeOK, Remembered, KeyLives, Counted, RateLimitAssumption

\* What one run of the transaction does to the set.
LEMMA RunKeeps ==
  ASSUME Inv, NEW p \in Calls, stage[p] = "timed", Run(p), UNCHANGED clock,
         NEW r \in Calls, stage[r] \in Counted
  PROVE  /\ \/ Float(time[r]) \in zset'
            \/ Float(time[r]) <= Float(clock - Window)
         /\ time[r] + Window <= expires'
  <1>1. /\ clock \in Int /\ clock >= Window /\ expires \in Int
        /\ time[r] \in Int /\ time[r] <= clock
        /\ time[p] \in Int /\ time[p] <= clock
    BY Parameters DEF Inv, RateTypeOK, Counted
  <1>2. time[r] + Window <= expires' BY <1>1, Parameters DEF Run
  <1>3. time[r] + Window <= expires BY DEF Inv, KeyLives
  <1>4. CASE clock >= expires
    <2>1. time[r] <= clock - Window BY <1>1, <1>3, <1>4, Parameters
    <2> QED BY <1>1, <1>2, <2>1, FloatMonotone, Parameters
  <1>5. CASE clock < expires
    <2>1. CASE Float(time[r]) <= Float(clock - Window)
      BY <1>2, <2>1
    <2>2. CASE Float(time[r]) \in zset /\ Float(time[r]) > Float(time[p] - Window)
      BY <1>2, <1>5, <2>2 DEF Run, Pipelined
    <2>3. CASE ~(Float(time[r]) > Float(time[p] - Window))
      <3>1. Float(time[p] - Window) <= Float(clock - Window)
            /\ Float(time[p] - Window) \in Int /\ Float(clock - Window) \in Int
        BY <1>1, FloatMonotone, Parameters
      <3>2. Float(time[r]) \in Int BY <1>1, FloatMonotone
      <3> QED BY <1>2, <2>3, <3>1, <3>2
    <2> QED BY <2>1, <2>2, <2>3 DEF Inv, Remembered
  <1> QED BY <1>1, <1>4, <1>5

\* What it adds is the time of a request.
LEMMA RunTypes ==
  ASSUME Inv, NEW p \in Calls, stage[p] = "timed", Run(p)
  PROVE  /\ zset' \subseteq {Float(time[r]) : r \in {q \in Calls : stage[q] # "new"}}
         /\ expires' \in Nat
         /\ Float(time[p]) \in zset'
         /\ time[p] + Window <= expires'
  BY Parameters DEF Inv, RateTypeOK, Run, Pipelined

LEMMA InvStep == Inv /\ [RateNext]_rateVars => Inv'
  <1> SUFFICES ASSUME Inv, [RateNext]_rateVars PROVE Inv' OBVIOUS
  <1>1. CASE UNCHANGED rateVars
    BY <1>1 DEF rateVars, Inv, RateTypeOK, Remembered, KeyLives
  <1>2. CASE Tick
    <2>1. RateTypeOK' BY <1>2, Parameters DEF Tick, Inv, RateTypeOK
    <2>2. Remembered'
      <3> SUFFICES ASSUME NEW r \in Calls, stage[r] \in Counted,
                          Float(time[r]) <= Float(clock - Window)
                   PROVE  Float(time[r]) <= Float(clock' - Window)
        BY <1>2 DEF Tick, Inv, Remembered
      <3>1. clock \in Int /\ clock' \in Int /\ clock <= clock' /\ time[r] \in Int
        BY <1>2, Parameters DEF Tick, Inv, RateTypeOK
      <3>2. Float(clock - Window) <= Float(clock' - Window)
            /\ Float(clock - Window) \in Int /\ Float(clock' - Window) \in Int
        BY <3>1, FloatMonotone, Parameters
      <3>3. Float(time[r]) \in Int BY <3>1, FloatMonotone
      <3> QED BY <3>2, <3>3
    <2>3. KeyLives' BY <1>2 DEF Tick, Inv, KeyLives
    <2> QED BY <2>1, <2>2, <2>3 DEF Inv
  <1>3. ASSUME NEW p \in Calls, ReadClock(p) PROVE Inv'
    <2>1. RateTypeOK'
      BY <1>3, Parameters DEF ReadClock, GoOn, Inv, RateTypeOK
    <2>2. Remembered' /\ KeyLives'
      BY <1>3 DEF ReadClock, GoOn, Inv, RateTypeOK, Remembered, KeyLives, Counted
    <2> QED BY <2>1, <2>2 DEF Inv
  <1>4. ASSUME NEW p \in Calls, Exec(p) PROVE Inv'
    <2> DEFINE place == IF TooMany(Cardinality(zset')) THEN "refused" ELSE "passed"
    <2>1. place \in Counted BY DEF Counted
    <2>2. stage' = [stage EXCEPT ![p] = place] BY <1>4 DEF Exec, GoOn
    <2> HIDE DEF place
    <2>3. RateTypeOK'
      BY <1>4, <2>1, <2>2, RunTypes DEF Exec, Inv, RateTypeOK, Counted
    <2>4. Remembered' /\ KeyLives'
      <3> SUFFICES ASSUME NEW r \in Calls, stage'[r] \in Counted
                   PROVE  /\ \/ Float(time[r]) \in zset'
                             \/ Float(time[r]) <= Float(clock - Window)
                          /\ time[r] + Window <= expires'
        BY <1>4 DEF Exec, Remembered, KeyLives
      <3>1. CASE r = p BY <1>4, <3>1, RunTypes DEF Exec
      <3>2. CASE r # p
        <4>1. stage[r] \in Counted BY <2>2, <3>2 DEF Inv, RateTypeOK
        <4> QED BY <1>4, <4>1, RunKeeps DEF Exec
      <3> QED BY <3>1, <3>2
    <2> QED BY <2>3, <2>4 DEF Inv
  <1>5. ASSUME NEW p \in Calls, ReplyLost(p) PROVE Inv'
    <2>1. RateTypeOK'
      BY <1>5, RunTypes, Parameters DEF ReplyLost, LoseOne, Inv, RateTypeOK
    <2>2. Remembered' /\ KeyLives'
      BY <1>5, RunKeeps DEF ReplyLost, Remembered, KeyLives
    <2> QED BY <2>1, <2>2 DEF Inv
  <1>6. ASSUME NEW p \in Calls, ExecFails(p) PROVE Inv'
    <2>1. stage' = [stage EXCEPT ![p] = "uncounted"] /\ stage[p] = "timed"
          /\ UNCHANGED <<clock, time>> /\ LoseOne
      BY <1>6 DEF ExecFails, GoOn
    <2>2. CASE Run(p)
      <3>1. RateTypeOK'
        BY <2>1, <2>2, RunTypes, Parameters DEF LoseOne, Inv, RateTypeOK
      <3>2. \A r \in Calls : stage'[r] \in Counted => stage[r] \in Counted
        BY <2>1 DEF Inv, RateTypeOK, Counted
      <3>3. Remembered' /\ KeyLives'
        BY <2>1, <2>2, <3>2, RunKeeps DEF Remembered, KeyLives
      <3> QED BY <3>1, <3>3 DEF Inv
    <2>3. CASE UNCHANGED <<zset, expires>>
      <3>1. RateTypeOK' BY <2>1, <2>3, Parameters DEF LoseOne, Inv, RateTypeOK
      <3>2. Remembered' /\ KeyLives'
        BY <2>1, <2>3 DEF Inv, RateTypeOK, Remembered, KeyLives, Counted
      <3> QED BY <3>1, <3>2 DEF Inv
    <2> QED BY <1>6, <2>2, <2>3 DEF ExecFails
  <1> QED BY <1>1, <1>2, <1>3, <1>4, <1>5, <1>6 DEF RateNext
-----------------------------------------------------------------------------
(* The window.                                                             *)

\* The values of a function on a finite set are finitely many.
LEMMA ImageBound ==
  ASSUME NEW S, IsFiniteSet(S), NEW T,
         NEW f, f \in [S -> T], NEW U, U \subseteq {f[x] : x \in S}
  PROVE  IsFiniteSet(U) /\ Cardinality(U) <= Cardinality(S)
         /\ Cardinality(U) \in Nat /\ Cardinality(S) \in Nat
  <1> DEFINE I == {f[x] : x \in S}
             g == [x \in S |-> f[x]]
  <1>1. g \in Surjection(S, I) BY DEF Surjection
  <1>2. IsFiniteSet(I) /\ Cardinality(I) <= Cardinality(S)
    BY <1>1, FS_Surjection
  <1>3. IsFiniteSet(U) /\ Cardinality(U) <= Cardinality(I)
    BY <1>2, FS_Subset
  <1> QED BY <1>2, <1>3, FS_CardinalityType

\* Whoever is let through by p's transaction or before, in a window that p
\* belongs to, is in the set that p counted.
LEMMA WindowIsCounted ==
  ASSUME Inv, NEW p \in Calls, stage[p] = "timed", Run(p),
         NEW x \in Window..MaxTime, time[p] <= x,
         NEW r \in Calls, r = p \/ stage[r] = "passed",
         Float(time[r]) > Float(x - (Window - MaxDelay))
  PROVE  Float(time[r]) \in zset'
  <1>1. /\ clock \in Int /\ clock >= Window /\ expires \in Int /\ x \in Int
        /\ time[r] \in Int /\ time[p] \in Int /\ clock <= time[p] + MaxDelay
        /\ time[p] <= clock
    BY Parameters DEF Inv, RateTypeOK
  <1>2. CASE r = p BY <1>2, RunTypes
  <1>3. CASE r # p
    <2>1. /\ Float(clock - Window) <= Float(x - (Window - MaxDelay))
          /\ Float(clock - Window) \in Int
          /\ Float(x - (Window - MaxDelay)) \in Int
      BY <1>1, Parameters, FloatMonotone
    <2>2. Float(time[r]) \in Int BY <1>1, FloatMonotone
    <2>3. Float(time[r]) > Float(clock - Window) BY <2>1, <2>2
    <2>4. stage[r] \in Counted BY <1>3 DEF Counted
    <2>5. ~(Float(time[r]) <= Float(clock - Window)) BY <2>1, <2>2, <2>3
    <2>6. Float(time[r]) \in zset BY <2>4, <2>5 DEF Inv, Remembered
    <2>7. clock < expires
      <3> SUFFICES ASSUME clock >= expires PROVE FALSE BY <1>1
      <3>1. time[r] + Window <= expires BY <2>4 DEF Inv, KeyLives
      <3>2. time[r] <= clock - Window BY <1>1, <3>1, Parameters
      <3> QED BY <1>1, <2>5, <3>2, FloatMonotone, Parameters
    <2>8. Float(time[p] - Window) <= Float(clock - Window)
          /\ Float(time[p] - Window) \in Int
      BY <1>1, Parameters, FloatMonotone
    <2>9. Float(time[r]) > Float(time[p] - Window) BY <2>1, <2>2, <2>3, <2>8
    <2> QED BY <2>6, <2>7, <2>9 DEF Run, Pipelined
  <1> QED BY <1>2, <1>3

LEMMA TimesFinite ==
  ASSUME NEW Q, Q \subseteq Calls,
         NEW Z, Z \subseteq {Float(time[r]) : r \in Q}
  PROVE  /\ IsFiniteSet(Z) /\ Cardinality(Z) \in Nat
         /\ Cardinality(Q) \in Nat /\ Cardinality(Z) <= Cardinality(Q)
  <1> DEFINE f == [r \in Q |-> Float(time[r])]
             T == {Float(time[r]) : r \in Q}
  <1>1. f \in [Q -> T] OBVIOUS
  <1>2. Z \subseteq {f[r] : r \in Q} OBVIOUS
  <1>3. IsFiniteSet(Q) BY FS_Subset, Parameters
  <1> HIDE DEF f, T
  <1>4. IsFiniteSet(Z) /\ Cardinality(Z) <= Cardinality(Q)
        /\ Cardinality(Z) \in Nat /\ Cardinality(Q) \in Nat
    BY <1>1, <1>2, <1>3, ImageBound
  <1> QED BY <1>4

LEMMA WindowStep == Inv /\ WindowHolds /\ [RateNext]_rateVars => WindowHolds'
  <1> SUFFICES ASSUME Inv, WindowHolds, [RateNext]_rateVars, NEW x \in Window..MaxTime
               PROVE  Cardinality({Float(time[r]) : r \in LetThrough(x)})' <= PerSecond
    BY DEF WindowHolds
  <1> DEFINE S == {Float(time[r]) : r \in LetThrough(x)}
  <1>1. ASSUME LetThrough(x)' = LetThrough(x),
               \A r \in LetThrough(x) : time'[r] = time[r]
        PROVE  S' = S
    BY <1>1
  <1>2. CASE UNCHANGED rateVars \/ Tick
    BY <1>2 DEF rateVars, Tick, LetThrough, WindowHolds
  <1>3. ASSUME NEW p \in Calls, ReadClock(p)
        PROVE  LetThrough(x)' = LetThrough(x)
               /\ \A r \in LetThrough(x) : time'[r] = time[r]
    BY <1>3 DEF ReadClock, GoOn, LetThrough, Inv, RateTypeOK
  <1>4. ASSUME NEW p \in Calls, ReplyLost(p) \/ ExecFails(p)
        PROVE  LetThrough(x)' = LetThrough(x)
               /\ \A r \in LetThrough(x) : time'[r] = time[r]
    BY <1>4 DEF ReplyLost, ExecFails, GoOn, LetThrough, Inv, RateTypeOK
  <1>5. ASSUME NEW p \in Calls, Exec(p)
        PROVE  Cardinality(S') <= PerSecond
    <2>1. stage[p] = "timed" /\ Run(p) /\ time' = time /\ p \notin LetThrough(x)
      BY <1>5 DEF Exec, LetThrough
    <2>2. CASE p \notin LetThrough(x)'
      <3>1. LetThrough(x)' = LetThrough(x)
        BY <1>5, <2>1, <2>2 DEF Exec, GoOn, LetThrough, Inv, RateTypeOK
      <3> QED BY <1>1, <2>1, <3>1 DEF WindowHolds
    <2>3. CASE p \in LetThrough(x)'
      <3>1. /\ stage'[p] = "passed" /\ time[p] <= x
            /\ Float(time[p]) > Float(x - (Window - MaxDelay))
        BY <2>1, <2>3 DEF LetThrough
      <3>0. IsFiniteSet(zset') /\ Cardinality(zset') \in Nat
        BY <2>1, RunTypes, TimesFinite
      <3>2. Cardinality(zset') <= PerSecond
        <4>1. ~TooMany(Cardinality(zset'))
          BY <1>5, <3>1 DEF Exec, GoOn, Inv, RateTypeOK
        <4>2. Cardinality(zset') \in Nat BY <3>0
        <4> QED BY <4>1, <4>2, Parameters DEF TooMany
      <3>3. \A r \in LetThrough(x)' : Float(time[r]) \in zset'
        <4> SUFFICES ASSUME NEW r \in LetThrough(x)'
                     PROVE  Float(time[r]) \in zset'
          OBVIOUS
        <4>1. r \in Calls /\ (r = p \/ stage[r] = "passed")
              /\ Float(time[r]) > Float(x - (Window - MaxDelay))
          BY <1>5, <2>1 DEF LetThrough, Exec, GoOn, Inv, RateTypeOK
        <4> QED BY <2>1, <3>1, <4>1, WindowIsCounted
      <3>4. S' \subseteq zset' BY <2>1, <3>3
      <3>6. IsFiniteSet(S') /\ Cardinality(S') <= Cardinality(zset')
        BY <3>0, <3>4, FS_Subset
      <3> QED BY <3>0, <3>2, <3>6, FS_CardinalityType, Parameters
    <2> QED BY <2>2, <2>3
  <1> QED BY <1>1, <1>2, <1>3, <1>4, <1>5 DEF RateNext, WindowHolds
-----------------------------------------------------------------------------
(* Refusals.                                                               *)

Rivals(r) == {q \in Calls : /\ stage[q] # "new"
                               /\ Float(time[q]) > Float(time[r] - Window)}

\* A window is longer than a step: a request is in its own window.
LEMMA InOwnWindow ==
  ASSUME NEW t \in Int PROVE Float(t) > Float(t - Window)
  <1> DEFINE h == Step \div 2
  <1>1. /\ Step \in Int /\ Step > 0 /\ Window \in Int /\ Step <= Window
        /\ h \in Int
    BY RateLimitAssumption DEF RateLimitAssumption
  <1> HIDE DEF h
  <1>2. (t - Step + h) \div Step = ((t + h) \div Step) - 1
    BY <1>1, SMT
  <1>3. (t - Window + h) \div Step <= (t - Step + h) \div Step
    BY <1>1, DivMonotone
  <1>4. (t + h) \div Step \in Int /\ (t - Window + h) \div Step \in Int
    BY <1>1, SMT
  <1>5. Float(t) = (t + h) \div Step /\ Float(t - Window) = (t - Window + h) \div Step
    BY DEF Float, h
  <1> QED BY <1>2, <1>3, <1>4, <1>5

LEMMA BusyStep == Inv /\ RefusedOnlyWhenBusy /\ [RateNext]_rateVars
                    => RefusedOnlyWhenBusy'
  <1> SUFFICES ASSUME Inv, RefusedOnlyWhenBusy, [RateNext]_rateVars,
                      NEW r \in Calls, stage'[r] = "refused"
               PROVE  Cardinality(Rivals(r)') > PerSecond
    BY DEF RefusedOnlyWhenBusy, Rivals
  <1> DEFINE Old == stage[r] = "refused" /\ Rivals(r) \subseteq Rivals(r)'
  <1>1. ASSUME Old PROVE Cardinality(Rivals(r)') > PerSecond
    <2>1. Cardinality(Rivals(r)) > PerSecond
      BY <1>1 DEF RefusedOnlyWhenBusy, Rivals
    <2>2. IsFiniteSet(Rivals(r)') BY FS_Subset, Parameters DEF Rivals
    <2>3. Cardinality(Rivals(r)) <= Cardinality(Rivals(r)')
          /\ Cardinality(Rivals(r)) \in Nat /\ Cardinality(Rivals(r)') \in Nat
      BY <1>1, <2>2, FS_Subset, FS_CardinalityType
    <2> QED BY <2>1, <2>3, Parameters
  <1>2. CASE UNCHANGED rateVars \/ Tick
    <2>1. Old BY <1>2 DEF rateVars, Tick, Rivals
    <2> QED BY <1>1, <2>1
  <1>3. ASSUME NEW p \in Calls, ReadClock(p) PROVE Old
    BY <1>3 DEF ReadClock, GoOn, Rivals, Inv, RateTypeOK
  <1>4. ASSUME NEW p \in Calls, ReplyLost(p) \/ ExecFails(p) PROVE Old
    BY <1>4 DEF ReplyLost, ExecFails, GoOn, Rivals, Inv, RateTypeOK
  <1>5. ASSUME NEW p \in Calls, Exec(p), p # r PROVE Old
    BY <1>5 DEF Exec, GoOn, Rivals, Inv, RateTypeOK
  <1>6. CASE Exec(r)
    <2>1. /\ stage[r] = "timed" /\ Run(r) /\ time' = time
          /\ TooMany(Cardinality(zset'))
      BY <1>6 DEF Exec, GoOn, Inv, RateTypeOK
    <2>2. time[r] \in Int BY <2>1 DEF Inv, RateTypeOK
    <2>3. zset' \subseteq {Float(time[q]) : q \in Rivals(r)}
      BY <2>1, <2>2, InOwnWindow DEF Run, Pipelined, Rivals, Inv, RateTypeOK
    <2>4. Cardinality(zset') <= Cardinality(Rivals(r))
          /\ Cardinality(zset') \in Nat /\ Cardinality(Rivals(r)) \in Nat
      BY <2>3, TimesFinite DEF Rivals
    <2>5. Rivals(r)' = Rivals(r)
      BY <1>6, <2>1 DEF Exec, GoOn, Rivals, Inv, RateTypeOK
    <2> QED BY <2>1, <2>4, <2>5, Parameters DEF TooMany
  <1> QED BY <1>1, <1>2, <1>3, <1>4, <1>5, <1>6 DEF RateNext

-----------------------------------------------------------------------------
(* The theorems.                                                           *)

LEMMA InvInductive == RateSpec => [](Inv /\ WindowHolds /\ RefusedOnlyWhenBusy)
  <1>1. RateInit => WindowHolds
    <2> SUFFICES ASSUME RateInit, NEW x \in Window..MaxTime
                 PROVE  Cardinality({Float(time[r]) : r \in LetThrough(x)}) <= PerSecond
      BY DEF WindowHolds
    <2>1. {Float(time[r]) : r \in LetThrough(x)} = {} BY DEF RateInit, LetThrough
    <2> QED BY <2>1, FS_EmptySet, Parameters
  <1>2. RateInit => RefusedOnlyWhenBusy BY DEF RateInit, RefusedOnlyWhenBusy
  <1> QED BY <1>1, <1>2, InitInv, InvStep, WindowStep, BusyStep, PTL DEF RateSpec

\* The variables have their types, and the set has only times of requests.
THEOREM TypeCorrect == RateSpec => []RateTypeOK
  <1>1. Inv => RateTypeOK BY DEF Inv
  <1> QED BY <1>1, InvInductive, PTL

\* In no window, shortened by the delay between clock and Redis, are requests
\* of more than PerSecond steps of the clock let through.
THEOREM WindowEnforced == RateSpec => []WindowHolds
  BY InvInductive, PTL

\* A refused request had more than PerSecond requests in its window, itself
\* included.
THEOREM RefusalsAreDue == RateSpec => []RefusedOnlyWhenBusy
  BY InvInductive, PTL
=============================================================================
