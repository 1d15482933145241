---------------------------- MODULE MCAdmission ----------------------------
(***************************************************************************)
(* What a render request has to pass before its handler runs: the quota of *)
(* its project, in the database, and the rate limit of an API key, in      *)
(* Redis.  Small instances for TLC.  The two share no state, so that a     *)
(* behaviour takes the steps of one of them and leaves the other at rest.  *)
(***************************************************************************)
EXTENDS Quota, RateLimit

VARIABLE subject   \* whose steps are taken

\* Nobody has got to the quota.
QuotaAtRest ==
  /\ day = 1 /\ jobsToday = 0 /\ resetDay = 1
  /\ lock = NoRequest /\ mine = [jobs |-> 0, day |-> 1]
  /\ pc = [r \in Requests |-> "unauthorized"]
  /\ began = [r \in Requests |-> 1]
  /\ held = {} /\ charged = [r \in Requests |-> 0]
  /\ faults = 0

MCInit ==
  \/ subject = "quota" /\ Init /\ RateInit
  \/ subject = "rate" /\ QuotaAtRest /\ RateInit

MCNext ==
  /\ UNCHANGED subject
  /\ \/ subject = "quota" /\ Next /\ UNCHANGED rateVars
     \/ subject = "rate" /\ RateNext /\ UNCHANGED vars

MCSpec ==
  /\ MCInit
  /\ [][MCNext]_<<subject, vars, rateVars>>
  /\ \A r \in Requests : WF_vars(Works(r))
=============================================================================
