------------------------------- MODULE Quota -------------------------------
(***************************************************************************)
(* The way of a render request through the orchestrator's middleware:      *)
(* authMiddleware or jwtAuthMiddleware, then quotaMiddleware, then the     *)
(* handler (orchestrator/middleware.go, main.go).                          *)
(*                                                                         *)
(* quotaMiddleware runs a transaction of two UPDATEs on the project's row, *)
(* a lazy reset at the first request of a day and an increment if below    *)
(* the plan's limit.  Requests share a row, whose lock lasts until the end *)
(* of the transaction, and a pool of connections, one of which they hold   *)
(* for as long as their transaction is open.  One project; the requests of *)
(* others would only use connections of the same pool.                     *)
(***************************************************************************)
EXTENDS Naturals, FiniteSets

CONSTANTS
  Requests,   \* render requests of one project
  NoRequest,
  ByKey,      \* those of the API key route, the others come with a JWT
  Limit,      \* plans.daily_video_limit, 0 for none
  Conns,      \* the pool's largest number of connections
  MaxDay,     \* bound: days
  MaxFaults   \* bound: failed commands, and commits whose reply is lost

ASSUME QuotaAssumption ==
  /\ NoRequest \notin Requests
  /\ ByKey \subseteq Requests
  /\ IsFiniteSet(Requests)
  /\ Limit \in Nat
  /\ Conns \in Nat \ {0}
  /\ MaxDay \in Nat \ {0}
  /\ MaxFaults \in Nat

VARIABLES
  day,        \* the database's date
  jobsToday,  \* projects.jobs_today, as committed
  resetDay,   \* the day of projects.jobs_last_reset_at, as committed
  lock,       \* the request whose transaction has updated the row
  mine,       \* the row as that transaction sees it
  pc,         \* where each request is
  began,      \* NOW() of its transaction: the day it began
  held,       \* the requests whose transaction has a connection
  charged,    \* history: the resetDay under which a request was counted, or 0
  faults

rowVars == <<jobsToday, resetDay, lock, mine, charged>>
vars == <<day, rowVars, pc, began, held, faults>>

Row == [jobs : Nat, day : 1..MaxDay]
Answered == {"unauthorized", "refused", "done"}

Init ==
  /\ day = 1
  /\ jobsToday = 0
  /\ resetDay = 1
  /\ lock = NoRequest
  /\ mine = [jobs |-> 0, day |-> 1]
  /\ pc = [r \in Requests |-> "sent"]
  /\ began = [r \in Requests |-> 1]
  /\ held = {}
  /\ charged = [r \in Requests |-> 0]
  /\ faults = 0

Goto(r, place) == pc' = [pc EXCEPT ![r] = place]
Fault == faults < MaxFaults /\ faults' = faults + 1

\* pgxpool: a query outside of a transaction takes a connection and gives it
\* back; without a free one it waits.
FreeConn == Cardinality(held) < Conns

\* The lock of the row: an UPDATE waits for the transaction that has it.
\* Seeded fault: the row is read and written without the lock.
MayUpdateAlways(r) == TRUE
MayUpdate(r) == lock \in {NoRequest, r}

\* Commit and rollback, also what an error in a transaction does to its locks.
\* Seeded fault: a transaction is left open.
UnlockNever(r) == UNCHANGED lock
Unlock(r) == lock' = IF lock = r THEN NoRequest ELSE lock

-----------------------------------------------------------------------------
(* Authentication.                                                         *)

\* The key is looked up in the database; a JWT is checked without it.
Authenticate(r) ==
  /\ pc[r] = "sent"
  /\ r \in ByKey => FreeConn
  /\ Goto(r, "authed")
  /\ UNCHANGED <<day, rowVars, began, held, faults>>

\* No such key, or any error of the query, or an invalid token.
NotAuthenticated(r) ==
  /\ pc[r] = "sent"
  /\ Fault
  /\ Goto(r, "unauthorized")
  /\ UNCHANGED <<day, rowVars, began, held>>

-----------------------------------------------------------------------------
(* quotaMiddleware.                                                        *)

\* db.Begin with the background context: waits for a connection.
Begin(r) ==
  /\ pc[r] = "authed"
  /\ FreeConn
  /\ held' = held \cup {r}
  /\ began' = [began EXCEPT ![r] = day]
  /\ Goto(r, "begun")
  /\ UNCHANGED <<day, rowVars, faults>>

BeginFails(r) ==
  /\ pc[r] = "authed"
  /\ Fault
  /\ Goto(r, "handling")
  /\ UNCHANGED <<day, rowVars, began, held>>

\* Seeded fault: the days are compared for a difference, not for their order.
NeedsResetDiffers(r) == resetDay # began[r]

\* The reset's WHERE is evaluated on the committed row.  Only a row that
\* matches is locked, and waited for if another transaction has updated it.
NeedsReset(r) == resetDay < began[r]

Reset(r) ==
  /\ pc[r] = "begun"
  /\ \/ /\ ~NeedsReset(r)
        /\ UNCHANGED <<lock, mine>>
     \/ /\ NeedsReset(r)
        /\ MayUpdate(r)
        /\ lock' = r
        /\ mine' = [jobs |-> 0, day |-> began[r]]
  /\ Goto(r, "checked")
  /\ UNCHANGED <<day, jobsToday, resetDay, began, held, charged, faults>>

\* c.Next() comes before the deferred rollback: the handler runs while the
\* failed transaction still has its connection.
StatementFails(r) ==
  /\ pc[r] \in {"begun", "checked"}
  /\ Fault
  /\ Unlock(r)
  /\ Goto(r, "handling")
  /\ UNCHANGED <<day, jobsToday, resetDay, mine, began, held, charged>>

\* Seeded fault: one request too many.
BelowLimitLoose(jobs) == Limit = 0 \/ jobs <= Limit
\* Seeded fault: one too few.
BelowLimitStrict(jobs) == Limit = 0 \/ jobs + 1 < Limit
BelowLimit(jobs) == Limit = 0 \/ jobs < Limit

\* The row as an UPDATE of r finds it: its own version, else the committed one.
Seen(r) == IF lock = r THEN mine ELSE [jobs |-> jobsToday, day |-> resetDay]

Increment(r) ==
  /\ pc[r] = "checked"
  /\ BelowLimit(Seen(r).jobs)
  /\ MayUpdate(r)
  /\ lock' = r
  /\ mine' = [Seen(r) EXCEPT !.jobs = @ + 1]
  /\ Goto(r, "charging")
  /\ UNCHANGED <<day, jobsToday, resetDay, began, held, charged, faults>>

\* pgx.ErrNoRows.
OverLimit(r) ==
  /\ pc[r] = "checked"
  /\ ~BelowLimit(Seen(r).jobs)
  /\ Goto(r, "over")
  /\ UNCHANGED <<day, rowVars, began, held, faults>>

\* The limit for the header is read through the pool, not the transaction: a
\* second connection while the first is held.  Then 429 and the rollback.
Refuse(r) ==
  /\ pc[r] = "over"
  /\ FreeConn
  /\ Unlock(r)
  /\ held' = held \ {r}
  /\ Goto(r, "refused")
  /\ UNCHANGED <<day, jobsToday, resetDay, mine, began, charged, faults>>

\* What COMMIT does in the database.
\* Seeded fault: it is forgotten, and the deferred rollback undoes the charge.
CommittedForgotten(r) == UNCHANGED <<jobsToday, resetDay, charged>>
Committed(r) ==
  /\ jobsToday' = mine.jobs
  /\ resetDay' = mine.day
  /\ charged' = [charged EXCEPT ![r] = mine.day]

Commit(r) ==
  /\ pc[r] = "charging"
  /\ Committed(r)
  /\ Unlock(r)
  /\ held' = held \ {r}
  /\ Goto(r, "handling")
  /\ UNCHANGED <<day, mine, began, faults>>

\* An error of COMMIT, carried out or not, closes the connection.
CommitFails(r) ==
  /\ pc[r] = "charging"
  /\ Fault
  /\ Committed(r) \/ UNCHANGED <<jobsToday, resetDay, charged>>
  /\ Unlock(r)
  /\ held' = held \ {r}
  /\ Goto(r, "handling")
  /\ UNCHANGED <<day, mine, began>>

-----------------------------------------------------------------------------
(* The handler: its queries, one connection at a time; then the deferred   *)
(* rollback of a transaction that is still open.                           *)

Handle(r) ==
  /\ pc[r] = "handling"
  /\ FreeConn
  /\ held' = held \ {r}
  /\ Goto(r, "done")
  /\ UNCHANGED <<day, rowVars, began, faults>>

\* A body that does not parse, or a client that has gone: no query is made,
\* or it ends with the request's context.
HandleFails(r) ==
  /\ pc[r] = "handling"
  /\ Fault
  /\ held' = held \ {r}
  /\ Goto(r, "done")
  /\ UNCHANGED <<day, rowVars, began>>

NextDay ==
  /\ day < MaxDay
  /\ day' = day + 1
  /\ UNCHANGED <<rowVars, pc, began, held, faults>>

Works(r) ==
  \/ Authenticate(r) \/ Begin(r) \/ Reset(r) \/ Increment(r) \/ OverLimit(r)
  \/ Refuse(r) \/ Commit(r) \/ Handle(r)

Fails(r) ==
  \/ NotAuthenticated(r) \/ BeginFails(r) \/ StatementFails(r)
  \/ CommitFails(r) \/ HandleFails(r)

Next == NextDay \/ \E r \in Requests : Works(r) \/ Fails(r)

Spec == Init /\ [][Next]_vars

\* Every goroutine goes on when it can; commands need not fail.
FairSpec == Spec /\ \A r \in Requests : WF_vars(Works(r))

-----------------------------------------------------------------------------
(* Properties.                                                             *)

\* The variables have their types; only an open transaction locks the row.
TypeOK ==
  /\ day \in 1..MaxDay
  /\ jobsToday \in Nat
  /\ resetDay \in 1..MaxDay
  /\ mine \in Row
  /\ pc \in [Requests -> {"sent", "authed", "begun", "checked", "charging",
                          "over", "handling"} \cup Answered]
  /\ began \in [Requests -> 1..MaxDay]
  /\ held \in SUBSET Requests
  /\ charged \in [Requests -> 0..MaxDay]
  /\ faults \in 0..MaxFaults
  /\ lock \in held \cup {NoRequest}

ChargedUnder(d) == {r \in Requests : charged[r] = d}

\* No increment is lost or wiped out by a late reset: jobs_today is the number
\* of requests that were charged since the last reset, whichever of them ran
\* before, during or after the midnight at which others reset the count.
CountIsExact == jobsToday = Cardinality(ChargedUnder(resetDay))

\* Between two resets no more requests are charged than the plan allows.
WithinLimit ==
  Limit > 0 => \A d \in 1..MaxDay : Cardinality(ChargedUnder(d)) <= Limit

\* A request is refused only after the limit was really used up, by charges
\* that were committed under one day.
RefusedOnlyWhenFull ==
  (\E r \in Requests : pc[r] = "refused")
    => \E d \in 1..MaxDay : Cardinality(ChargedUnder(d)) = Limit

\* "Fail open" costs at most one uncounted request per failed command.
OneFreePassPerFault ==
  Cardinality({r \in Requests : pc[r] \in {"handling", "done"} /\ charged[r] = 0})
    <= faults

\* A reset is never undone, nor made twice for the same day: the day of the
\* row only grows, and only a new day lowers the count.
OneResetPerDay ==
  [][ /\ resetDay' >= resetDay
      /\ jobsToday' < jobsToday => resetDay' > resetDay ]_vars

\* Every connection is held by a transaction whose request waits for another
\* one: a request over the limit, or one that goes on after an error.
Starved ==
  Cardinality({r \in held : pc[r] \in {"over", "handling"}}) = Conns

\* Every request is answered, unless the pool ends up starved.
AnsweredOrStarved ==
  \/ <>(\A r \in Requests : pc[r] \in Answered)
  \/ <>[]Starved
=============================================================================
