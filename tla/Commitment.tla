------------------------------ MODULE Commitment ------------------------------
(* Unit commitment in one subproblem and across linked subproblems.            *)
(* A generator that was started stays on for its minimum up time, one that     *)
(* was shut down stays off for its minimum down time, and how long it was off  *)
(* decides how hot its next start is. The constraints say so with a window of  *)
(* "relevant" timepoints that ends somewhere before each timepoint, that wraps *)
(* around in a circular horizon, stops at the start of a linear one, and goes  *)
(* on into the timepoints handed over by the previous subproblem in a linked   *)
(* one (determine_relevant_timepoints, operational_types/common_functions.py). *)
(* gen_commit_bin counts starts of a unit, gen_commit_cap started capacity,    *)
(* and availability type binary uses the same windows for outages.             *)
(* The state machine solves one subproblem after another: its inputs are       *)
(* loaded, any feasible solution is taken, and the last timepoints go into     *)
(* the inputs of the next subproblem.                                          *)
EXTENDS Integers, Sequences, FiniteSets, FiniteSetsExt

CONSTANTS
  Units,          \* generators: minUp, minDown and cutoffs, hottest start first,
                  \* or none without startup_chars
  HorizonHours,   \* sequences of hours of the timepoints of a horizon
  LinkedTmps,     \* timepoints handed to the next subproblem
  Subproblems,    \* how many subproblems are solved
  Iterations      \* whether the scenario has iteration directories

(* The hottest start begins where the minimum down time ends: input validation *)
(* reports any other unit (auxiliary/validations.py:863).                      *)
ASSUME UnitsAssumption ==
  \A u \in Units : /\ {u.minUp, u.minDown} \subseteq Nat
                   /\ u.cutoffs \in Seq(Nat)
                   /\ u.cutoffs # <<>> => u.cutoffs[1] = u.minDown
ASSUME HorizonAssumption ==
  /\ HorizonHours \subseteq Seq(Nat \ {0}) /\ <<>> \notin HorizonHours
  /\ LinkedTmps \in Nat \ {0} /\ Subproblems \in Nat \ {0}
  /\ Iterations \subseteq BOOLEAN

VARIABLES
  unit,       \* the generator
  iteration,  \* whether the subproblems lie in an iteration directory
  horizon,    \* the horizon of the subproblem: boundary and hrs
  linked,     \* what its inputs say of the linked timepoints, 0 first, then -1
  phase,      \* "solved", "loaded" or "failed"
  timeline,   \* all timepoints solved so far
  ends        \* where in it each solved subproblem ends

vars == <<unit, iteration, horizon, linked, phase, timeline, ends>>

-------------------------------------------------------------------------------
(* Windows of timepoints.                                                      *)

Tmps(h) == 1..Len(h.hrs)

(* The timepoint k steps before t (prev_tmp, k times), and how far back        *)
(* determine_relevant_timepoints goes at most.                                 *)
Back(h, t, k) == ((t - k - 1) % Len(h.hrs)) + 1
(* Bug: a circular horizon ends at its first timepoint.                        *)
Reach_Linear(h, t) == t - 1
Reach(h, t) == IF h.boundary = "circular" THEN Len(h.hrs) ELSE t - 1

(* Hours between the start of the timepoint k steps back and the start of t,   *)
(* and between the start of linked timepoint 1 - l and the start of t.         *)
HoursBack(h, t, k) == SumFunction([i \in 1..k |-> h.hrs[Back(h, t, i)]])
LinkedHours(lnk, l) == SumFunction([i \in 1..l |-> lnk[i].hrs])
HoursToLinked(h, lnk, t, l) ==
  HoursBack(h, t, t - 1) + LinkedHours(lnk, l)

(* Bug: the timepoint that is exactly the minimum time away is relevant too.   *)
RelevantTmps_Inclusive(h, t, minTime) ==
  LET steps == {k \in 1..Reach(h, t) : HoursBack(h, t, k) <= minTime}
  IN [i \in 1..(Cardinality(steps) + 1) |-> Back(h, t, i - 1)]
RelevantTmps(h, t, minTime) ==
  LET steps == {k \in 1..Reach(h, t) : HoursBack(h, t, k) < minTime}
  IN [i \in 1..(Cardinality(steps) + 1) |-> Back(h, t, i - 1)]
RelevantLinked(h, lnk, t, minTime) ==
  IF h.boundary # "linked" THEN {}
  ELSE {l \in DOMAIN lnk : HoursToLinked(h, lnk, t, l) < minTime}

FirstOf(h, t, boundary) == t = 1 /\ h.boundary = boundary

(* Events (starts, shutdowns) in the window; a timepoint the window reaches    *)
(* twice counts twice.                                                         *)
EventsIn(h, t, minTime, event, lnk, name) ==
  LET tmps == RelevantTmps(h, t, minTime)
  IN SumFunction([i \in DOMAIN tmps |-> event[tmps[i]]])
     + SumFunction([l \in RelevantLinked(h, lnk, t, minTime) |-> lnk[l][name]])

-------------------------------------------------------------------------------
(* gen_commit_bin: the commitment of a unit that may not violate its times.    *)

(* Bug: there is no later timepoint to leave the last one's constraint to.     *)
LeftToLater_LastToo(h, t, minTime) ==
  LET tmps == RelevantTmps(h, t, minTime)
  IN /\ h.boundary = "linear" /\ tmps[Len(tmps)] = 1
     /\ SumFunction([i \in DOMAIN tmps |-> h.hrs[tmps[i]]]) < minTime
(* The constraints over the first timepoints of a linear horizon are left to   *)
(* a later timepoint, whose window holds theirs.                               *)
LeftToLater(h, t, minTime) ==
  LET tmps == RelevantTmps(h, t, minTime)
  IN /\ h.boundary = "linear" /\ tmps[Len(tmps)] = 1
     /\ SumFunction([i \in DOMAIN tmps |-> h.hrs[tmps[i]]]) < minTime
     /\ t # Len(h.hrs)

PrevCommit(h, lnk, s, t) ==
  IF FirstOf(h, t, "linked") THEN lnk[1].commit ELSE s.commit[Back(h, t, 1)]

(* Bug: a linked horizon begins anew, like a linear one.                       *)
binary_logic_NotLinked(h, lnk, s, t) ==
  t > 1 => s.commit[t] - PrevCommit(h, lnk, s, t) = s.startup[t] - s.shutdown[t]
binary_logic(h, lnk, s, t) ==
  \/ FirstOf(h, t, "linear")
  \/ s.commit[t] - PrevCommit(h, lnk, s, t) = s.startup[t] - s.shutdown[t]

min_up_time(u, h, lnk, s, t) ==
  \/ LeftToLater(h, t, u.minUp)
  \/ s.commit[t] >=
       EventsIn(h, t, u.minUp, s.startup, lnk, "startup")

min_down_time(u, h, lnk, s, t) ==
  \/ LeftToLater(h, t, u.minDown)
  \/ 1 - s.commit[t] >=
       EventsIn(h, t, u.minDown, s.shutdown, lnk, "shutdown")

Flags(h) == [Tmps(h) -> 0..1]
Solutions(h) == [commit : Flags(h), startup : Flags(h), shutdown : Flags(h)]
Feasible(u, h, lnk) ==
  {s \in Solutions(h) : \A t \in Tmps(h) : /\ binary_logic(h, lnk, s, t)
                                           /\ min_up_time(u, h, lnk, s, t)
                                           /\ min_down_time(u, h, lnk, s, t)}

(* The start types the constraints leave to a start in t: type s only if the   *)
(* unit was shut down between cutoff s and cutoff s + 1 hours ago, or if no    *)
(* timepoint is that long ago; the coldest always.                             *)
Window(u, h, t, s) == Range(RelevantTmps(h, t, u.cutoffs[s + 1]))
                        \ Range(RelevantTmps(h, t, u.cutoffs[s]))
LinkedWindow(u, h, lnk, t, s) == RelevantLinked(h, lnk, t, u.cutoffs[s + 1])
                                   \ RelevantLinked(h, lnk, t, u.cutoffs[s])
(* Bug: the first start type is left unconstrained, not the last.              *)
active_startup_type_First(u, h, lnk, sol, t) ==
  {s \in DOMAIN u.cutoffs :
     \/ s = 1
     \/ s < Len(u.cutoffs) /\ \E i \in Window(u, h, t, s) : sol.shutdown[i] = 1}
active_startup_type(u, h, lnk, sol, t) ==
  {s \in DOMAIN u.cutoffs :
     \/ s = Len(u.cutoffs)
     \/ Window(u, h, t, s) = {} /\ LinkedWindow(u, h, lnk, t, s) = {}
     \/ \E i \in Window(u, h, t, s) : sol.shutdown[i] = 1
     \/ \E l \in LinkedWindow(u, h, lnk, t, s) : lnk[l].shutdown = 1}

(* Hotter starts cost less: of the types left, the solver takes the hottest.   *)
StartupType(u, h, lnk, sol, t) == Min(active_startup_type(u, h, lnk, sol, t))

-------------------------------------------------------------------------------
(* gen_commit_cap: the committed capacity of a fleet of identical units, and   *)
(* the outages of availability type binary.                                    *)

Profiles(h, capacity) == [Tmps(h) -> 0..capacity]

(* Started and stopped capacity are only bounded from below: if any values     *)
(* meet the constraints, the least ones do.                                    *)
Change(h, lnk, x, t) ==
  IF FirstOf(h, t, "linear") THEN 0 ELSE x[t] - PrevCommit(h, lnk, [commit |-> x], t)
startup(h, lnk, x) == [t \in Tmps(h) |-> Max({0, Change(h, lnk, x, t)})]
shutdown(h, lnk, x) == [t \in Tmps(h) |-> Max({0, -Change(h, lnk, x, t)})]

(* Bug: the linked timepoints are forgotten where a window begins with t.      *)
OnlyItself_NoLinked(h, lnk, t, minTime) ==
  Len(RelevantTmps(h, t, minTime)) = 1
(* Nothing but t in the window: the constraint is skipped as redundant.        *)
OnlyItself(h, lnk, t, minTime) ==
  /\ Len(RelevantTmps(h, t, minTime)) = 1
  /\ RelevantLinked(h, lnk, t, minTime) = {}

cap_min_up_time(minTime, h, lnk, x, t) ==
  \/ OnlyItself(h, lnk, t, minTime)
  \/ x[t] >= EventsIn(h, t, minTime, startup(h, lnk, x), lnk, "startup")

cap_min_down_time(minTime, h, lnk, x, t, capacity) ==
  \/ OnlyItself(h, lnk, t, minTime)
  \/ capacity - x[t] >= EventsIn(h, t, minTime, shutdown(h, lnk, x),
                                 lnk, "shutdown")

CapFeasible(u, h, lnk, capacity) ==
  {x \in Profiles(h, capacity) :
     \A t \in Tmps(h) : /\ cap_min_up_time(u.minUp, h, lnk, x, t)
                        /\ cap_min_down_time(u.minDown, h, lnk, x, t, capacity)}

(* Outages last at least avl_bin_min_unavl_hrs_per_event hours and are at      *)
(* least avl_bin_min_avl_hrs_between_events hours apart; the module knows      *)
(* nothing of linked timepoints.                                               *)
event_min_duration(minTime, h, x, t) ==
  LET tmps == RelevantTmps(h, t, minTime)
  IN Len(tmps) > 1 =>
       x[t] >= SumFunction([i \in DOMAIN tmps |-> startup(h, <<>>, x)[tmps[i]]])
min_time_between_events(minTime, h, x, t) ==
  LET tmps == RelevantTmps(h, t, minTime)
  IN Len(tmps) > 1 =>
       1 - x[t] >= SumFunction([i \in DOMAIN tmps |-> shutdown(h, <<>>, x)[tmps[i]]])
AvlBinFeasible(u, h) ==
  {x \in Profiles(h, 1) :
     \A t \in Tmps(h) : /\ event_min_duration(u.minUp, h, x, t)
                        /\ min_time_between_events(u.minDown, h, x, t)}

-------------------------------------------------------------------------------
(* One subproblem after the other.                                             *)

Init ==
  /\ unit \in Units /\ iteration \in Iterations
  /\ horizon = [boundary |-> "linear", hrs |-> <<>>]
  /\ linked = <<>> /\ phase = "solved" /\ timeline = <<>> /\ ends = {}

(* The inputs of a subproblem: a linked horizon needs linked timepoints.       *)
LoadData ==
  /\ phase = "solved" /\ Cardinality(ends) < Subproblems
  /\ \E hrs \in HorizonHours,
        boundary \in IF linked = <<>> THEN {"linear", "circular"} ELSE {"linked"} :
       horizon' = [boundary |-> boundary, hrs |-> hrs]
  /\ phase' = "loaded"
  /\ UNCHANGED <<unit, iteration, linked, timeline, ends>>

Solved(h, lnk, s) ==
  [t \in Tmps(h) |->
     [hrs |-> h.hrs[t], commit |-> s.commit[t], startup |-> s.startup[t],
      shutdown |-> s.shutdown[t],
      type |-> IF s.startup[t] = 0 \/ unit.cutoffs = <<>> THEN 0
               ELSE StartupType(unit, h, lnk, s, t)]]

(* linked_subproblems_map.csv gives the last timepoints of a subproblem the    *)
(* numbers 0, -1, ... of linked timepoints of the next one.                    *)
tmps_to_link(h) == Min({LinkedTmps, Len(h.hrs)})
(* Bug: the oldest timepoint becomes linked timepoint 0.                       *)
HandedOver_OldestFirst(h, solved) ==
  [l \in 1..tmps_to_link(h) |-> solved[Len(h.hrs) - tmps_to_link(h) + l]]
HandedOver(h, solved) ==
  [l \in 1..tmps_to_link(h) |-> solved[Len(h.hrs) + 1 - l]]

(* The file of the startup types, if there are any, is written to the next     *)
(* subproblem's directory without that of the iteration, which does not exist  *)
(* if there is one.                                                            *)
DirectoryExists(u) == ~(iteration /\ u.cutoffs # <<>>)

Solve ==
  /\ phase = "loaded"
  /\ \E s \in Feasible(unit, horizon, linked) :
       LET solved == Solved(horizon, linked, s)
       IN /\ timeline' = timeline \o solved
          /\ linked' = HandedOver(horizon, solved)
  /\ ends' = ends \cup {Len(timeline')}
  /\ phase' = IF Cardinality(ends') = Subproblems \/ DirectoryExists(unit)
              THEN "solved" ELSE "failed"
  /\ UNCHANGED <<unit, iteration, horizon>>

Done ==
  /\ \/ phase = "failed"
     \/ phase = "solved" /\ Cardinality(ends) = Subproblems
  /\ UNCHANGED vars

Next == LoadData \/ Solve \/ Done
Spec == Init /\ [][Next]_vars

-------------------------------------------------------------------------------
(* Properties: the same in hours on a clock, without windows.                  *)

(* Hours from the start of i to the start of j, going forward.                 *)
Clock(hrs, i) == SumFunction([k \in 1..(i - 1) |-> hrs[k]])
Later(h, i, j) ==
  LET distance == Clock(h.hrs, j) - Clock(h.hrs, i)
  IN IF h.boundary = "circular" THEN distance % Clock(h.hrs, Len(h.hrs) + 1)
     ELSE distance
SinceLinked(h, lnk, l, j) ==
  Clock(h.hrs, j) + LinkedHours(lnk, l)

(* What a commitment may be: once its status changed, the unit keeps it for    *)
(* the time required, whether the change is in this horizon or was handed over.*)
Changes(h, lnk, x, to) ==
  {t \in Tmps(h) : /\ ~FirstOf(h, t, "linear") /\ x[t] = to
                   /\ PrevCommit(h, lnk, [commit |-> x], t) # to}
Kept(h, lnk, x, to, minTime, changed(_)) ==
  /\ \A i \in Changes(h, lnk, x, to), j \in Tmps(h) :
       Later(h, i, j) \in 0..(minTime - 1) => x[j] = to
  /\ h.boundary = "linked" =>
       \A l \in DOMAIN lnk, j \in Tmps(h) :
         changed(l) /\ SinceLinked(h, lnk, l, j) < minTime => x[j] = to
Allowed(u, h, lnk) ==
  {x \in Flags(h) : /\ Kept(h, lnk, x, 1, u.minUp, LAMBDA l : lnk[l].startup = 1)
                    /\ Kept(h, lnk, x, 0, u.minDown, LAMBDA l : lnk[l].shutdown = 1)}

Loaded == phase = "loaded"

(* The windows, the constraints left to later timepoints and the sums over     *)
(* them allow exactly the commitments that keep the minimum up and down times: *)
(* no forbidden one is feasible, and no permitted one is lost.                 *)
CommitmentsAreExact ==
  Loaded => {s.commit : s \in Feasible(unit, horizon, linked)}
              = Allowed(unit, horizon, linked)

(* The capacity of one or of two units is feasible for gen_commit_cap if and   *)
(* only if as many units can share it between them, each keeping its own       *)
(* times: the sums over capacity lose nothing and forbid nothing. Of two units *)
(* it is said in a linear horizon only.                                        *)
SharedBy(n) ==
  IF n = 1 THEN Allowed(unit, horizon, linked)
  ELSE {[t \in Tmps(horizon) |-> x[t] + y[t]] :
          x, y \in Allowed(unit, horizon, linked)}
CapacityIsExact ==
  Loaded =>
    \A n \in IF horizon.boundary = "linear" THEN {1, 2} ELSE {1} :
      CapFeasible(unit, horizon, linked, n) = SharedBy(n)

(* Outages of availability type binary last as long, and are as far apart, as  *)
(* its parameters say, in a linear and in a circular horizon.                  *)
OutagesAreExact ==
  Loaded /\ horizon.boundary # "linked" =>
    AvlBinFeasible(unit, horizon) = Allowed(unit, horizon, <<>>)

(* The startup and shutdown variables cost money and drive the trajectories:   *)
(* one is set when and only when the commitment changes from the timepoint     *)
(* before, the last one of the previous subproblem included.                   *)
FlagsAreChanges ==
  \A t \in 2..Len(timeline) :
    /\ timeline[t].startup = 1 <=> timeline[t].commit > timeline[t - 1].commit
    /\ timeline[t].shutdown = 1 <=> timeline[t].commit < timeline[t - 1].commit

(* Along all solved subproblems a start keeps the unit on for its minimum up   *)
(* time, and a shutdown keeps it off, if every subproblem in between was       *)
(* handed the timepoint in which it happened.                                  *)
Apart(i, j) == SumFunction([k \in i..(j - 1) |-> timeline[k].hrs])
SolvedTogether(i, j) == \A e \in ends : e < i \/ e >= j
Known(i, j) ==
  \/ SolvedTogether(i, j)
  \/ \E e \in ends : /\ e \in i..(j - 1) /\ e - i < LinkedTmps
                     /\ SolvedTogether(i, e) /\ SolvedTogether(e + 1, j)
TimesKeptAcrossSubproblems ==
  \A i, j \in DOMAIN timeline : i < j /\ Known(i, j) =>
    /\ timeline[i].startup = 1 /\ Apart(i, j) < unit.minUp
         => timeline[j].commit = 1
    /\ timeline[i].shutdown = 1 /\ Apart(i, j) < unit.minDown
         => timeline[j].commit = 0

(* What a subproblem starts from is what the one before it ended with.         *)
StateCarriedOver == FlagsAreChanges /\ TimesKeptAcrossSubproblems

(* A start is as hot as the hours the unit was off: of the types between whose *)
(* cutoffs those hours lie. Not so, if no timepoint starts between the cutoffs *)
(* of a hotter type (TooCoarse): that type is then free.                       *)
DownFor(j) == {i \in 1..(j - 1) : /\ Known(i, j) /\ timeline[i].shutdown = 1
                                  /\ \A k \in (i + 1)..(j - 1) :
                                       timeline[k].commit = 0}
Between(hours, s) == /\ hours >= unit.cutoffs[s]
                     /\ s < Len(unit.cutoffs) => hours < unit.cutoffs[s + 1]
TooCoarse(j, s) ==
  \A i \in 1..(j - 1) : Known(i, j) => ~Between(Apart(i, j), s)
StartsAreAsHotAsTheyWere ==
  \A j \in DOMAIN timeline : timeline[j].type # 0 =>
    \A i \in DownFor(j) :
      \/ Between(Apart(i, j), timeline[j].type)
      \/ TooCoarse(j, timeline[j].type)
===============================================================================
