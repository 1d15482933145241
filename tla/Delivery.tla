------------------------------ MODULE Delivery ------------------------------
(***************************************************************************)
(* What the distributor's processJob promises: every destination with an   *)
(* adapter reports once, a nil report means that it has the video, and the *)
(* job's verdict is nil if and only if all reports are.  Pipeline's DSend  *)
(* and FinalStatus take processJob at this promise.                        *)
(***************************************************************************)
EXTENDS Naturals

CONSTANT Targets   \* the destinations with an adapter

VARIABLES
  todo,   \* the targets that have not reported
  has,    \* the targets that have reported and have the video
  err     \* a report was an error

vars == <<todo, has, err>>

Init == todo = Targets /\ has = {} /\ err = FALSE

\* A target may have the video although its report is an error.
Report(d, got, ok) ==
  /\ d \in todo
  /\ ok => got
  /\ todo' = todo \ {d}
  /\ has' = IF got THEN has \cup {d} ELSE has
  /\ err' = (err \/ ~ok)

Next == \E d \in Targets, got, ok \in BOOLEAN : Report(d, got, ok)

Spec == Init /\ [][Next]_vars
=============================================================================
