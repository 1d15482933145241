---------------------------- MODULE Distribution ----------------------------
(***************************************************************************)
(* processJob of the distributor in time (distributor/main.go, utils.go    *)
(* and the adapters): one goroutine per destination in an errgroup, each   *)
(* with 30 seconds, three attempts and exponential back-off.  The first    *)
(* error cancels the context of the others, which their requests obey and  *)
(* their sleeps do not; a YouTube upload does not take the context at all. *)
(*                                                                         *)
(* Time is in seconds since processJob began.  What takes no time to speak *)
(* of, opening files and decoding configurations, takes none here.         *)
(***************************************************************************)
EXTENDS Naturals, FiniteSets

CONSTANTS
  S3, Webhook, YouTube, TikTok,  \* the destinations of each platform
  NoAdapter,                     \* and of platforms without an adapter
  Latencies,                     \* bound: what requests take, unless they hang
  MaxTime                        \* bound: the clock

Platforms == {S3, Webhook, YouTube, TikTok, NoAdapter}

ASSUME DistributionAssumption ==
  /\ \A p, q \in Platforms : p # q => p \cap q = {}
  /\ IsFiniteSet(UNION Platforms)
  /\ MaxTime \in Nat /\ Latencies \subseteq Nat

\* GetAdapter: a destination without an adapter is skipped.
Destinations == S3 \cup Webhook \cup YouTube \cup TikTok

VARIABLES
  now,
  pc,          \* where each destination's goroutine is
  attempt,     \* the attempts that RetryWithBackoff has made
  at,          \* when the request in flight was sent, or the sleep ends
  copies,      \* the videos that the destination took
  cancelled,   \* the group's context is done
  cancelledAt,
  late,        \* history: an attempt found the deadline passed
  spent        \* history: the seconds that requests have taken

dVars == <<attempt, at, copies, late, spent>>
vars == <<now, pc, dVars, cancelled, cancelledAt>>

\* context.WithTimeout.
Deadline == 30

Retries == 3
InitialDelay(d) ==
  CASE d \in S3 -> 1 [] d \in Webhook -> 2 [] OTHER -> 5

\* initialDelay * 2^attempt, for attempt 0, 1 and 2.
\* Seeded fault: 2^(attempt + 1).
BackoffNext(d, n) == InitialDelay(d) * (CASE n = 0 -> 2 [] n = 1 -> 4 [] OTHER -> 8)
Backoff(d, n) == InitialDelay(d) * (CASE n = 0 -> 1 [] n = 1 -> 2 [] OTHER -> 4)

\* The adapters whose requests are made with the context.
ObeysContext == S3 \cup Webhook \cup TikTok

\* The context of d's goroutine is done.
\* Seeded fault: only the timeout is looked at, not the group.
DoneAlone(d) == now >= Deadline
Done(d) == cancelled \/ now >= Deadline

\* The http.Client timeouts of the requests of each adapter.
Timeouts(d) ==
  CASE d \in Webhook -> 20 [] pc[d] = "refresh" -> 15 [] pc[d] = "init" -> 30
    [] d \in TikTok -> 60 [] OTHER -> MaxTime + 1

InFlight == {"refresh", "init", "upload"}

\* A request in flight ends at its timeout, and with its context.
\* Seeded fault: requests are made without the context.
OverdueClient(d) == pc[d] \in InFlight /\ now >= at[d] + Timeouts(d)
Overdue(d) ==
  /\ pc[d] \in InFlight
  /\ \/ now >= at[d] + Timeouts(d)
     \/ d \in ObeysContext /\ Done(d)

\* An answer that comes after the context is done is not read.
Readable(d) == d \in ObeysContext => ~Done(d)

Init ==
  /\ now = 0
  /\ pc = [d \in Destinations |-> "start"]
  /\ attempt = [d \in Destinations |-> 0]
  /\ at = [d \in Destinations |-> 0]
  /\ copies = [d \in Destinations |-> 0]
  /\ cancelled = FALSE
  /\ cancelledAt = 0
  /\ late = [d \in Destinations |-> FALSE]
  /\ spent = [d \in Destinations |-> 0]

Goto(d, place) == pc' = [pc EXCEPT ![d] = place]
GroupSame == UNCHANGED <<cancelled, cancelledAt>>

\* errgroup: the first error cancels the group's context.
Cancel ==
  /\ cancelled' = TRUE
  /\ cancelledAt' = IF cancelled THEN cancelledAt ELSE now

ReturnError(d) == Goto(d, "error") /\ Cancel
Send(d, request) ==
  /\ Goto(d, request)
  /\ at' = [at EXCEPT ![d] = now]

\* A request comes back; the time that it took is remembered.
Answered(d) ==
  /\ now - at[d] \in Latencies \/ Overdue(d)
  /\ spent' = [spent EXCEPT ![d] = @ + (now - at[d])]

-----------------------------------------------------------------------------
(* Up to the first attempt.                                                *)

\* A configuration that does not decode or lacks a URL or a token, missing
\* credentials, a video that cannot be opened or has no size.
Rejects(d) ==
  /\ pc[d] = "start"
  /\ ReturnError(d)
  /\ UNCHANGED <<now, dVars>>

Prepare(d) ==
  /\ pc[d] = "start"
  /\ d \notin TikTok
  /\ Goto(d, "try")
  /\ UNCHANGED <<now, dVars>> /\ GroupSame

\* With a refresh token TikTok's access token is refreshed first; whatever
\* comes of it, the upload is then asked for with the token at hand.
PrepareTikTok(d) ==
  /\ pc[d] = "start"
  /\ d \in TikTok
  /\ \E request \in {"refresh", "init"} : Send(d, request)
  /\ UNCHANGED <<now, attempt, copies, late, spent>> /\ GroupSame

Refreshed(d) ==
  /\ pc[d] = "refresh"
  /\ Answered(d)
  /\ Send(d, "init")
  /\ UNCHANGED <<now, attempt, copies, late>> /\ GroupSame

InitOk(d) ==
  /\ pc[d] = "init" /\ Readable(d)
  /\ Answered(d)
  /\ Goto(d, "try")
  /\ UNCHANGED <<now, attempt, at, copies, late>> /\ GroupSame

\* No upload URL: not retried.
InitFails(d) ==
  /\ pc[d] = "init"
  /\ Answered(d)
  /\ ReturnError(d)
  /\ UNCHANGED <<now, attempt, at, copies, late>>

-----------------------------------------------------------------------------
(* RetryWithBackoff.                                                       *)

SleepAfter(d) ==
  /\ Goto(d, "sleep")
  /\ at' = [at EXCEPT ![d] = now + Backoff(d, attempt[d])]
  /\ attempt' = [attempt EXCEPT ![d] = @ + 1]

Upload(d) ==
  /\ pc[d] = "try"
  /\ Readable(d)
  /\ Send(d, "upload")
  /\ UNCHANGED <<now, attempt, copies, late, spent>> /\ GroupSame

\* The context is done before the request is sent, or the video is not there.
UploadRefused(d) ==
  /\ pc[d] = "try"
  /\ SleepAfter(d)
  /\ late' = [late EXCEPT ![d] =
                @ \/ (d \in ObeysContext /\ ~cancelled /\ now >= Deadline)]
  /\ UNCHANGED <<now, copies, spent>> /\ GroupSame

UploadOk(d) ==
  /\ pc[d] = "upload" /\ Readable(d)
  /\ Answered(d)
  /\ copies' = [copies EXCEPT ![d] = @ + 1]
  /\ Goto(d, "ok")
  /\ UNCHANGED <<now, attempt, at, late>> /\ GroupSame

\* An error status, a timeout, a lost answer: the video may have been taken.
UploadFails(d) ==
  /\ pc[d] = "upload"
  /\ Answered(d)
  /\ \E n \in {0, 1} : copies' = [copies EXCEPT ![d] = @ + n]
  /\ SleepAfter(d)
  /\ UNCHANGED <<now, late>> /\ GroupSame

\* time.Sleep returns, after the last attempt too.
GivesUp(d) == attempt[d] = Retries

\* What RetryWithBackoff returns after its last attempt.
\* Seeded fault: the error is lost.
LastlyNothing(d) == Goto(d, "ok") /\ GroupSame
Lastly(d) == ReturnError(d)

Wake(d) ==
  /\ pc[d] = "sleep" /\ now >= at[d]
  /\ IF GivesUp(d) THEN Lastly(d) ELSE (Goto(d, "try") /\ GroupSame)
  /\ UNCHANGED <<now, dVars>>

-----------------------------------------------------------------------------

\* SIGTERM: the context of the worker is done.
Shutdown ==
  /\ ~cancelled
  /\ Cancel
  /\ UNCHANGED <<now, pc, dVars>>

Reported(d) == pc[d] \in {"ok", "error"}
Returned == \A d \in Destinations : Reported(d)

\* Time goes on while nobody is due.
Tick ==
  /\ now < MaxTime
  /\ ~Returned
  /\ \A d \in Destinations :
       /\ pc[d] \notin {"start", "try"}
       /\ ~Overdue(d)
       /\ pc[d] = "sleep" => now < at[d]
  /\ now' = now + 1
  /\ UNCHANGED <<pc, dVars, cancelled, cancelledAt>>

Goes(d) ==
  \/ Rejects(d) \/ Prepare(d) \/ PrepareTikTok(d) \/ Refreshed(d)
  \/ InitOk(d) \/ InitFails(d) \/ Upload(d) \/ UploadRefused(d)
  \/ UploadOk(d) \/ UploadFails(d) \/ Wake(d)

Next == Tick \/ Shutdown \/ \E d \in Destinations : Goes(d)

Spec == Init /\ [][Next]_vars

\* Time passes, and whoever is due goes on; SIGTERM need not come.
FairSpec == Spec /\ WF_vars(Tick \/ \E d \in Destinations : Goes(d))

-----------------------------------------------------------------------------
(* Properties.                                                             *)

\* The variables have their types.
TypeOK ==
  /\ now \in 0..MaxTime
  /\ pc \in [Destinations -> InFlight \cup {"start", "try", "sleep", "ok", "error"}]
  /\ attempt \in [Destinations -> 0..Retries]
  /\ at \in [Destinations -> Nat]
  /\ copies \in [Destinations -> 0..Retries]
  /\ cancelled \in BOOLEAN
  /\ cancelledAt \in Nat
  /\ late \in [Destinations -> BOOLEAN]
  /\ spent \in [Destinations -> Nat]

\* When d's context is done, at the latest.
ContextEnds == IF cancelled /\ cancelledAt < Deadline THEN cancelledAt ELSE Deadline

\* A goroutine whose requests obey the context ends at most its back-offs
\* later than the context, whatever the other side does.  That is 65 s at most
\* (TikTok), and no entry that is still worked on is taken for stuck (2 min).
ReturnsInTime ==
  \A d \in ObeysContext :
    ~Reported(d) => now <= ContextEnds + 7 * InitialDelay(d)

\* The back-offs of n attempts together.
Slept(d, n) ==
  InitialDelay(d) * (CASE n = 0 -> 0 [] n = 1 -> 1 [] n = 2 -> 3 [] OTHER -> 7)

\* An attempt begins when the requests and back-offs before it are over, and
\* has what they leave of the 30 seconds.  They leave it nothing only after
\* requests that took, with TikTok's refresh and request for an upload, at
\* least 15 seconds (TikTok), 24 (a webhook) or 27 (S3) together.
AttemptsFit ==
  \A d \in Destinations :
    /\ pc[d] = "upload" => at[d] = spent[d] + Slept(d, attempt[d])
    /\ late[d] => spent[d] + Slept(d, Retries - 1) >= Deadline

\* processJob implements Delivery.
Todo == {d \in Destinations : ~Reported(d)}
Has == {d \in Destinations : Reported(d) /\ copies[d] > 0}
Err == \E d \in Destinations : pc[d] = "error"
D == INSTANCE Delivery WITH Targets <- Destinations, todo <- Todo, has <- Has, err <- Err
ImplementsDelivery == D!Spec

\* Every goroutine whose requests obey the context reports in the end: none
\* waits for an answer that never comes, also beside an upload that hangs.
Reports == <>(\A d \in ObeysContext : Reported(d))
=============================================================================
