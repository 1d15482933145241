----------------------------- MODULE RateLimit -----------------------------
(***************************************************************************)
(* rateLimitMiddleware (orchestrator/middleware.go): a sliding window over *)
(* the requests of a project, in a Redis sorted set.                       *)
(*                                                                         *)
(* A request reads the clock and then sends a transaction to Redis, where  *)
(* requests arrive in another order than the one they read the clock in,   *)
(* and where the client sends a transaction again whose reply was lost.    *)
(* Score and member are the time as a float64, which at today's counts of  *)
(* nanoseconds has steps of 256 ns: requests in one step are one member.   *)
(***************************************************************************)
EXTENDS Integers, FiniteSets

CONSTANTS
  Calls,      \* requests of one project
  PerSecond,  \* RATE_LIMIT_PER_SECOND
  Window,     \* the window, in units of the clock
  Step,       \* the step of a float64, in units of the clock
  MaxDelay,   \* the longest a request takes from reading the clock to Redis
  MaxTime,    \* bound: the clock
  MaxLost     \* bound: replies that are lost, failed transactions

ASSUME RateLimitAssumption ==
  /\ IsFiniteSet(Calls)
  /\ {PerSecond, MaxDelay, MaxTime, MaxLost} \subseteq Nat
  /\ {Window, Step} \subseteq Nat \ {0}
  /\ PerSecond > 0
  /\ MaxDelay < Window
  /\ Step <= Window
  /\ Window <= MaxTime

VARIABLES
  clock,    \* of the orchestrator and of Redis
  stage,    \* where each request is
  time,     \* the clock as it read it, 0 before
  zset,     \* the sorted set: its members, which are their scores
  expires,  \* when Redis drops the key
  lost

rateVars == <<clock, stage, time, zset, expires, lost>>

\* float64(now): the nearest multiple of Step, counted in steps.
Float(n) == (n + Step \div 2) \div Step

RateInit ==
  /\ clock = Window
  /\ stage = [r \in Calls |-> "new"]
  /\ time = [r \in Calls |-> 0]
  /\ zset = {}
  /\ expires = Window
  /\ lost = 0

GoOn(r, place) == stage' = [stage EXCEPT ![r] = place]
LoseOne == lost < MaxLost /\ lost' = lost + 1

ReadClock(r) ==
  /\ stage[r] = "new"
  /\ time' = [time EXCEPT ![r] = clock]
  /\ GoOn(r, "timed")
  /\ UNCHANGED <<clock, zset, expires, lost>>

\* The set as the transaction of r leaves it: without what is older than the
\* window of r, whenever that was, and with r.
\* Seeded fault: the set is cut by Redis's clock when it is read.
PipelinedLater(r) ==
  {s \in zset : s > Float(clock - Window + MaxDelay)} \cup {Float(time[r])}
\* Seeded fault: the old members are not removed.
PipelinedKept(r) == zset \cup {Float(time[r])}
Pipelined(r) ==
  LET kept == IF clock < expires THEN zset ELSE {}
  IN  {s \in kept : s > Float(time[r] - Window)} \cup {Float(time[r])}

\* TxPipeline: ZREMRANGEBYSCORE, ZADD, ZCARD, EXPIRE, all or nothing.
Run(r) ==
  /\ zset' = Pipelined(r)
  /\ expires' = clock + Window

\* Seeded fault: the request itself is not counted.
TooManyLoose(n) == n > PerSecond + 1
TooMany(n) == n > PerSecond

Exec(r) ==
  /\ stage[r] = "timed"
  /\ Run(r)
  /\ GoOn(r, IF TooMany(Cardinality(zset')) THEN "refused" ELSE "passed")
  /\ UNCHANGED <<clock, time, lost>>

\* The reply is lost and the client sends the same transaction again.
ReplyLost(r) ==
  /\ stage[r] = "timed"
  /\ LoseOne
  /\ Run(r)
  /\ UNCHANGED <<clock, stage, time>>

\* The client gives up; the transaction may have run.  "Fail open".
ExecFails(r) ==
  /\ stage[r] = "timed"
  /\ LoseOne
  /\ Run(r) \/ UNCHANGED <<zset, expires>>
  /\ GoOn(r, "uncounted")
  /\ UNCHANGED <<clock, time>>

\* Time goes on, but no request is on its way for longer than MaxDelay.
Tick ==
  /\ clock < MaxTime
  /\ \A r \in Calls : stage[r] = "timed" => clock < time[r] + MaxDelay
  /\ clock' = clock + 1
  /\ UNCHANGED <<stage, time, zset, expires, lost>>

RateNext ==
  \/ Tick
  \/ \E r \in Calls : ReadClock(r) \/ Exec(r) \/ ReplyLost(r) \/ ExecFails(r)

RateSpec == RateInit /\ [][RateNext]_rateVars

-----------------------------------------------------------------------------
(* Properties.                                                             *)

\* The variables have their types, the set
\* has the times of requests, and nobody is late by more than MaxDelay.
RateTypeOK ==
  /\ clock \in Window..MaxTime
  /\ stage \in [Calls -> {"new", "timed", "passed", "refused", "uncounted"}]
  /\ time \in [Calls -> 0..MaxTime]
  /\ zset \subseteq {Float(time[r]) : r \in {q \in Calls : stage[q] # "new"}}
  /\ expires \in Nat
  /\ lost \in 0..MaxLost
  /\ \A r \in Calls : stage[r] # "new" => Window <= time[r] /\ time[r] <= clock
  /\ \A r \in Calls : stage[r] = "timed" => clock <= time[r] + MaxDelay

\* The requests let through in the window that ends at x.  A late request cuts
\* the set by an older window than those it is overtaken by, which is why the
\* window that the limiter enforces is shorter by the delay.
LetThrough(x) ==
  {r \in Calls : /\ stage[r] = "passed"
                    /\ time[r] <= x
                    /\ Float(time[r]) > Float(x - (Window - MaxDelay))}

\* In every such window at most PerSecond steps of the clock have requests that
\* were let through, in whatever order they came to Redis, and whichever
\* transactions were carried out more than once.
WindowHolds ==
  \A x \in Window..MaxTime :
    Cardinality({Float(time[r]) : r \in LetThrough(x)}) <= PerSecond

\* A request is refused only if more than PerSecond requests, itself and
\* refused ones included, read the clock after its window began: none is counted
\* twice, and none after its time.
RefusedOnlyWhenBusy ==
  \A r \in Calls : stage[r] = "refused" =>
    Cardinality({q \in Calls : /\ stage[q] # "new"
                                  /\ Float(time[q]) > Float(time[r] - Window)})
      > PerSecond
=============================================================================
