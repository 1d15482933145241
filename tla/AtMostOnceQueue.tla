-------------------------- MODULE AtMostOnceQueue --------------------------
(***************************************************************************)
(* What a stream with one consumer group promises to those who use it,     *)
(* whatever the workers go through: entries are handed out in the order in *)
(* which they were added, each once; a held entry is settled or stays held *)
(* for ever; and a settled entry keeps its fate.                           *)
(***************************************************************************)
EXTENDS Naturals

CONSTANT Ids     \* 1..n: the IDs of the entries

VARIABLE phase   \* where each entry is in its life

Fates == {"done", "dead", "dropped"}

Init == phase = [i \in Ids |-> "absent"]

\* The absent IDs up to i come into use.
Add(i) ==
  /\ phase[i] = "absent"
  /\ phase' = [j \in Ids |-> IF phase[j] = "absent" /\ j <= i
                             THEN "queued" ELSE phase[j]]

\* The oldest queued entry goes to a worker.
Take(i) ==
  /\ phase[i] = "queued"
  /\ \A j \in Ids : phase[j] = "queued" => i <= j
  /\ phase' = [phase EXCEPT ![i] = "held"]

Settle(i, fate) ==
  /\ phase[i] = "held"
  /\ phase' = [phase EXCEPT ![i] = fate]

Next ==
  \E i \in Ids : Add(i) \/ Take(i) \/ \E fate \in Fates : Settle(i, fate)

Spec == Init /\ [][Next]_phase

=============================================================================
