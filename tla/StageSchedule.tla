--------------------------- MODULE StageSchedule ---------------------------
(***************************************************************************)
(* What a run of a scenario promises, without saying how it is carried out *)
(* (one process or a pool, from scratch or resumed).  A scenario is a set  *)
(* of subproblems, each with the same ordered stages; a run settles        *)
(* (subproblem, stage) pairs and then closes.                              *)
(***************************************************************************)
EXTENDS Naturals

CONSTANTS
  Subs,      \* subproblem ids
  Stages,    \* stage ids
  SubPos,    \* SubPos[s]: the place of s in the order of the subproblems
  StagePos,  \* StagePos[t]: the place of t in the order of the stages
  Linked     \* TRUE iff a subproblem starts from the end state of the one before

VARIABLES
  open,      \* a run is in progress
  settled,   \* the pairs the current run has settled or found settled
  result     \* how the last run closed

scheduleVars == <<open, settled, result>>

Pairs == Subs \X Stages

Init == open = FALSE /\ settled = {} /\ result = "none"

(* A run opens knowing that the pairs in found are settled already.        *)
Open(found) ==
  /\ ~open
  /\ open' = TRUE
  /\ settled' = found
  /\ result' = "none"

(* The stages of a subproblem are settled in order; when the subproblems   *)
(* are linked, a subproblem starts after all those before it.              *)
Settle(s, t) ==
  /\ open
  /\ <<s, t>> \notin settled
  /\ \A u \in Stages : StagePos[u] < StagePos[t] => <<s, u>> \in settled
  /\ Linked => \A r \in Subs, u \in Stages :
                 SubPos[r] < SubPos[s] => <<r, u>> \in settled
  /\ settled' = settled \cup {<<s, t>>}
  /\ UNCHANGED <<open, result>>

(* A run may stop short, but it reports success only when nothing is left. *)
Close(r) ==
  /\ open
  /\ r = "ok" => settled = Pairs
  /\ open' = FALSE
  /\ result' = r
  /\ UNCHANGED settled

(* A run refused before any work.                                          *)
Refuse == ~open /\ result' = "failed" /\ settled' = {} /\ UNCHANGED open

Next ==
  \/ \E found \in SUBSET Pairs : Open(found)
  \/ \E s \in Subs, t \in Stages : Settle(s, t)
  \/ \E r \in {"ok", "failed", "exit", "killed"} : Close(r)
  \/ Refuse

Spec == Init /\ [][Next]_scheduleVars
=============================================================================
