---------------------- MODULE CommitmentWindows_proofs ----------------------
(***************************************************************************)
(* What the windows of relevant timepoints amount to: a start is as hot as *)
(* the hours the unit was off, and the constraints allow exactly the       *)
(* commitments, the outages and the capacities of a fleet that keep their  *)
(* times in hours on the clock.                                            *)
(*                                                                         *)
(* A window that goes k steps back from t holds the timepoints that began  *)
(* less than the minimum time before t, round the circle as well.  A       *)
(* status that is kept fits into every window, for a second event in one   *)
(* would find the status there already; and one that fits is kept.         *)
(* A fleet of two units is shared by letting them start and stop in turn.  *)
(***************************************************************************)
EXTENDS Commitment_proofs

(* Further back than the first timepoint the window comes in at the end.   *)
LEMMA BackWraps ==
  ASSUME NEW h, Hours(h), NEW t \in Tmps(h), NEW k \in t..Len(h.hrs)
  PROVE  Back(h, t, k) = (t - k) + Len(h.hrs)
<1> DEFINE L == Len(h.hrs)
<1>1. L \in Nat \ {0} /\ t \in 1..L /\ k \in Nat /\ t <= k /\ k <= L
  BY TmpsAre
<1>2. (t - k) - 1 \in (-L)..(-1)
  <2> HIDE DEF L
  <2> QED
    BY <1>1
<1>3. ((t - k) - 1) % L = ((t - k) - 1) + L
  <2> HIDE DEF L
  <2> QED
    BY <1>1, <1>2
<1>4. Back(h, t, k) = (((t - k) - 1) % L) + 1
  BY DEF Back
<1> HIDE DEF L
<1>5. (((t - k) - 1) + L) + 1 = (t - k) + L
  BY <1>1, <1>2
<1> QED
  BY <1>3, <1>4, <1>5 DEF L

(* Which timepoints are relevant: those at the steps of the window.        *)
LEMMA RelevantAre ==
  ASSUME NEW h, Hours(h), NEW t \in Tmps(h), NEW minTime \in Nat
  PROVE  Range(RelevantTmps(h, t, minTime))
           = {Back(h, t, k) : k \in {0} \cup Steps(h, t, minTime)}
<1>1. PICK n \in 0..Reach(h, t) :
        /\ Steps(h, t, minTime) = 1..n
        /\ RelevantTmps(h, t, minTime) = [i \in 1..(n + 1) |-> Back(h, t, i - 1)]
  BY StepsAre
<1>2. Reach(h, t) \in Nat /\ n \in Nat
  BY HoursAtType
<1>3. Range(RelevantTmps(h, t, minTime)) = {Back(h, t, i - 1) : i \in 1..(n + 1)}
  BY <1>1 DEF Range
<1>4. /\ \A i \in 1..(n + 1) : i - 1 \in {0} \cup (1..n)
      /\ \A k \in {0} \cup (1..n) : k + 1 \in 1..(n + 1) /\ (k + 1) - 1 = k
  BY <1>2
<1>5. ASSUME NEW i \in 1..(n + 1)
      PROVE  \E k \in {0} \cup (1..n) : Back(h, t, i - 1) = Back(h, t, k)
  BY <1>4
<1>6. ASSUME NEW k \in {0} \cup (1..n)
      PROVE  \E i \in 1..(n + 1) : Back(h, t, k) = Back(h, t, i - 1)
  BY <1>4
<1>7. Range(RelevantTmps(h, t, minTime)) = {Back(h, t, k) : k \in {0} \cup (1..n)}
  <2> DEFINE S == {Back(h, t, i - 1) : i \in 1..(n + 1)}
             T == {Back(h, t, k) : k \in {0} \cup (1..n)}
  <2>1. ASSUME NEW x \in S PROVE x \in T
    <3>1. PICK i \in 1..(n + 1) : x = Back(h, t, i - 1)
      BY <2>1
    <3> QED
      BY <1>5, <3>1
  <2>2. ASSUME NEW x \in T PROVE x \in S
    <3>1. PICK k \in {0} \cup (1..n) : x = Back(h, t, k)
      BY <2>2
    <3> QED
      BY <1>6, <3>1
  <2>3. S = T
    <3> HIDE DEF S, T
    <3> QED
      BY <2>1, <2>2
  <2> QED
    BY <1>3, <2>3
<1> QED
  BY <1>1, <1>7

(* How far back a window may go.                                           *)
LEMMA ReachIs ==
  ASSUME NEW h, Hours(h), NEW t \in Tmps(h)
  PROVE  Reach(h, t) \in Nat /\ t - 1 <= Reach(h, t) /\ Reach(h, t) <= Len(h.hrs)
  BY TmpsAre, HoursAtType DEF Reach

(* The hours of a stretch of timepoints.                                   *)
LEMMA StretchIs ==
  ASSUME NEW h, Hours(h), NEW t \in Tmps(h), NEW a \in 1..t
  PROVE  /\ Natural(h.hrs, a..(t - 1)) /\ Sum(h.hrs, a..(t - 1)) \in Nat
         /\ \A b \in a..t : Sum(h.hrs, b..(t - 1)) <= Sum(h.hrs, a..(t - 1))
<1>1. a \in Nat /\ t \in Nat /\ a..(t - 1) \subseteq Tmps(h)
  BY TmpsAre
<1>2. IsFiniteSet(a..(t - 1))
  BY <1>1, FS_Interval
<1>3. Natural(h.hrs, a..(t - 1))
  BY <1>1, <1>2, TmpsAre DEF Natural
<1>4. ASSUME NEW b \in a..t
      PROVE  Sum(h.hrs, b..(t - 1)) <= Sum(h.hrs, a..(t - 1))
  <2>1. b..(t - 1) \in SUBSET (a..(t - 1))
    BY <1>1
  <2> QED
    BY <1>3, <2>1, SumOfPart
<1> QED
  BY <1>3, <1>4, SumType

(* An earlier timepoint is relevant if and only if it began less than the  *)
(* minimum time ago.                                                       *)
LEMMA EarlierRelevant ==
  ASSUME NEW h, Hours(h), NEW t \in Tmps(h), NEW minTime \in Nat, NEW i \in 1..(t - 1)
  PROVE  i \in Range(RelevantTmps(h, t, minTime)) <=> Sum(h.hrs, i..(t - 1)) < minTime
<1>1. /\ t \in 1..Len(h.hrs) /\ Len(h.hrs) \in Nat /\ i \in 1..t /\ i # t
      /\ t - i \in 0..(t - 1) /\ t - (t - i) = i
  BY TmpsAre
<1>2. ASSUME Sum(h.hrs, i..(t - 1)) < minTime
      PROVE  i \in Range(RelevantTmps(h, t, minTime))
  <2>1. Held(i, t, h.hrs, minTime)
    BY <1>1, <1>2 DEF Held
  <2>2. t - i \in {0} \cup Steps(h, t, minTime) /\ Back(h, t, t - i) = i
    BY <1>1, <2>1, InWindow
  <2>3. i \in {Back(h, t, k) : k \in {0} \cup Steps(h, t, minTime)}
    BY <2>2, Zenon
  <2> QED
    BY <2>3, RelevantAre
<1>3. ASSUME i \in Range(RelevantTmps(h, t, minTime))
      PROVE  Sum(h.hrs, i..(t - 1)) < minTime
  <2>1. PICK k \in {0} \cup Steps(h, t, minTime) : i = Back(h, t, k)
    BY <1>3, RelevantAre
  <2>2. k \in Nat /\ k <= Len(h.hrs)
    BY <1>1, <2>1, ReachIs DEF Steps
  <2>3. k < t
    <3> SUFFICES ASSUME k >= t PROVE FALSE
      BY <1>1, <2>2
    <3>1. i = (t - k) + Len(h.hrs)
      BY <1>1, <2>1, <2>2, BackWraps
    <3> QED
      BY <1>1, <2>2, <3>1
  <2>4. k = t - i /\ k # 0
    BY <1>1, <2>1, <2>2, <2>3, BackIs
  <2>5. HoursBack(h, t, t - i) < minTime
    BY <2>1, <2>4 DEF Steps
  <2> QED
    BY <1>1, <2>5, HoursBackInOrder
<1> QED
  BY <1>2, <1>3

(* A later timepoint is relevant only round a circular horizon, when all   *)
(* earlier ones are.                                                       *)
LEMMA LaterRelevant ==
  ASSUME NEW h, Hours(h), NEW t \in Tmps(h), NEW minTime \in Nat, NEW i \in 1..(t - 1),
         NEW m \in Range(RelevantTmps(h, t, minTime)), m > t
  PROVE  h.boundary = "circular" /\ Sum(h.hrs, i..(t - 1)) < minTime
<1>1. PICK k \in {0} \cup Steps(h, t, minTime) : m = Back(h, t, k)
  BY RelevantAre
<1>2. t \in Nat \ {0} /\ k \in Nat /\ k <= Reach(h, t) /\ Reach(h, t) \in Nat
  BY <1>1, TmpsAre, ReachIs DEF Steps
<1>3. k >= t
  <2> SUFFICES ASSUME k < t PROVE FALSE
    BY <1>2
  <2>1. m = t - k
    BY <1>1, <1>2, BackIs
  <2> QED
    BY <1>2, <2>1
<1>4. h.boundary = "circular"
  BY <1>2, <1>3 DEF Reach
<1>5. k \in Steps(h, t, minTime) /\ k \in 0..Reach(h, t)
  BY <1>1, <1>2, <1>3
<1>6. HoursBack(h, t, k) < minTime
  BY <1>5 DEF Steps
<1>7. t - i \in 0..k /\ t - i \in 0..(t - 1) /\ t - (t - i) = i
  BY <1>2, <1>3
<1>8. /\ HoursBack(h, t, t - i) \in Nat /\ HoursBack(h, t, k) \in Nat
      /\ HoursBack(h, t, t - i) <= HoursBack(h, t, k)
  BY <1>5, <1>7, HoursBackGrows
<1>9. HoursBack(h, t, t - i) = Sum(h.hrs, i..(t - 1))
  BY <1>7, HoursBackInOrder
<1> QED
  BY <1>4, <1>6, <1>8, <1>9

(* The timepoint itself is always relevant.                                *)
LEMMA ItselfRelevant ==
  ASSUME NEW h, Hours(h), NEW t \in Tmps(h), NEW minTime \in Nat
  PROVE  t \in Range(RelevantTmps(h, t, minTime))
<1>1. Back(h, t, 0) = t
  <2>1. t \in Nat \ {0} /\ 0 \in Nat /\ 0 < t /\ t - 0 = t
    BY TmpsAre
  <2> QED
    BY <2>1, BackIs
<1>2. t \in {Back(h, t, k) : k \in {0} \cup Steps(h, t, minTime)}
  BY <1>1
<1> QED
  BY <1>2, RelevantAre

(* The hottest of the types left fits the hours the unit was off, if the   *)
(* type that fits them is left and no colder one is the hottest.           *)
LEMMA HottestFits ==
  ASSUME NEW cutoffs \in Seq(Nat), NEW A \in SUBSET DOMAIN cutoffs,
         NEW type \in A, \A r \in A : type <= r,
         NEW hours \in Nat, cutoffs[1] <= hours,
         \A r \in 1..(Len(cutoffs) - 1) :
           cutoffs[r] <= hours /\ hours < cutoffs[r + 1] => r \in A,
         type < Len(cutoffs) => hours < cutoffs[type + 1]
  PROVE  /\ hours >= cutoffs[type]
         /\ type < Len(cutoffs) => hours < cutoffs[type + 1]
<1>1. /\ Len(cutoffs) \in Nat /\ DOMAIN cutoffs = 1..Len(cutoffs)
      /\ type \in 1..Len(cutoffs)
      /\ \A r \in 1..Len(cutoffs) : cutoffs[r] \in Nat
  OBVIOUS
<1> SUFFICES ASSUME ~(hours >= cutoffs[type]) PROVE FALSE
  OBVIOUS
<1>2. hours < cutoffs[type] /\ type # 1
  BY <1>1
<1> DEFINE R == {r \in 1..(type - 1) : hours < cutoffs[r + 1]}
<1>3. type - 1 \in R
  <2>1. type - 1 \in 1..(type - 1) /\ (type - 1) + 1 = type
    BY <1>1, <1>2
  <2> QED
    BY <1>2, <2>1
<1>4. R \in SUBSET Nat
  OBVIOUS
<1>5. PICK r \in R : \A q \in R : r <= q
  <2> HIDE DEF R
  <2> QED
    BY <1>3, <1>4, LeastNatural
<1>6. r \in 1..(type - 1) /\ r \in 1..(Len(cutoffs) - 1) /\ hours < cutoffs[r + 1]
  BY <1>1, <1>5
<1>7. cutoffs[r] <= hours
  <2>1. CASE r = 1
    BY <2>1
  <2>2. CASE r # 1
    <3>1. r - 1 \in 1..(type - 1) /\ (r - 1) + 1 = r /\ ~(r <= r - 1)
      BY <1>1, <1>6, <2>2
    <3>2. ~(hours < cutoffs[r])
      BY <1>5, <3>1
    <3> QED
      BY <1>1, <1>6, <3>2
  <2> QED
    BY <2>1, <2>2
<1>8. r \in A
  BY <1>6, <1>7
<1>9. type <= r
  BY <1>8
<1> QED
  BY <1>1, <1>6, <1>9

------------------------------------------------------------------------------
(* Start types in one subproblem.                                          *)

LEMMA LinkedHoursGrow ==
  ASSUME NEW lnk \in Seq(Instants), NEW l \in DOMAIN lnk, NEW m \in 1..l
  PROVE  /\ LinkedHours(lnk, l) \in Nat /\ LinkedHours(lnk, m) \in Nat
         /\ LinkedHours(lnk, m) <= LinkedHours(lnk, l)
<1>1. /\ l \in 1..Len(lnk) /\ Len(lnk) \in Nat /\ m \in Nat
      /\ 1..m \in SUBSET (1..l) /\ 1..l \subseteq 1..Len(lnk)
  OBVIOUS
<1>2. \A k \in 1..Len(lnk) : HrsOf(lnk)[k] = lnk[k].hrs /\ HrsOf(lnk)[k] \in Nat
  BY HrsOfIs
<1>3. Natural(HrsOf(lnk), 1..l)
  <2>1. IsFiniteSet(1..l)
    BY <1>1, FS_Interval
  <2> QED
    BY <1>1, <1>2, <2>1 DEF Natural
<1>4. ASSUME NEW q \in 1..l
      PROVE  LinkedHours(lnk, q) = Sum(HrsOf(lnk), 1..q)
  <2> DEFINE e == [i \in 1..q |-> lnk[i].hrs]
  <2>1. IsFiniteSet(1..q)
    BY <1>1, FS_Interval
  <2>2. Agree(e, HrsOf(lnk), 1..q)
    BY <1>1, <1>2 DEF Agree
  <2>3. LinkedHours(lnk, q) = SumFunctionOnSet(e, 1..q)
    BY DEF LinkedHours, SumFunction
  <2> HIDE DEF e
  <2>4. SumFunctionOnSet(e, 1..q) = SumFunctionOnSet(HrsOf(lnk), 1..q)
    BY <2>1, <2>2, SumsAgree
  <2> QED
    BY <2>3, <2>4 DEF Sum
<1>5. /\ LinkedHours(lnk, l) = Sum(HrsOf(lnk), 1..l)
      /\ LinkedHours(lnk, m) = Sum(HrsOf(lnk), 1..m)
  BY <1>1, <1>4
<1> QED
  BY <1>1, <1>3, <1>5, SumOfPart, SumType

(* The hours between the cutoffs of a type.                                *)
Fits(u, hours, type) ==
  /\ hours >= u.cutoffs[type]
  /\ type < Len(u.cutoffs) => hours < u.cutoffs[type + 1]

(* Nothing is relevant for a type but not for the one before it.           *)
Coarse(u, h, lnk, t, type) ==
  /\ type < Len(u.cutoffs)
  /\ Window(u, h, t, type) = {} /\ LinkedWindow(u, h, lnk, t, type) = {}

(* The cutoffs of a unit with start types.                                 *)
LEMMA CutoffsAre ==
  ASSUME NEW u \in Units, u.cutoffs # <<>>
  PROVE  /\ u.cutoffs \in Seq(Nat) /\ Len(u.cutoffs) \in Nat \ {0}
         /\ DOMAIN u.cutoffs = 1..Len(u.cutoffs)
         /\ \A r \in 1..(Len(u.cutoffs) - 1) :
              /\ u.cutoffs[r] \in Nat /\ u.cutoffs[r + 1] \in Nat
              /\ r < Len(u.cutoffs)
         /\ u.cutoffs[1] = u.minDown /\ u.minDown \in Nat
<1>1. u.cutoffs \in Seq(Nat) /\ u.cutoffs[1] = u.minDown /\ u.minDown \in Nat
  BY UnitsAssumption
<1>2. /\ Len(u.cutoffs) \in Nat \ {0} /\ DOMAIN u.cutoffs = 1..Len(u.cutoffs)
      /\ \A r \in 1..Len(u.cutoffs) : u.cutoffs[r] \in Nat
  BY <1>1
<1>3. ASSUME NEW r \in 1..(Len(u.cutoffs) - 1)
      PROVE  /\ r \in 1..Len(u.cutoffs) /\ r + 1 \in 1..Len(u.cutoffs)
             /\ r < Len(u.cutoffs)
  BY <1>2
<1> QED
  BY <1>1, <1>2, <1>3

(* A shutdown so many hours before a start, in the window of each type     *)
(* those hours fit, and in no window before the hours of another one.      *)
LEMMA TypeFits ==
  ASSUME NEW u \in Units, u.cutoffs # <<>>, NEW h, NEW lnk, NEW s, NEW t,
         NEW hours \in Nat, u.minDown <= hours,
         \A r \in 1..(Len(u.cutoffs) - 1) :
           Fits(u, hours, r) => \/ \E i \in Window(u, h, t, r) : s.shutdown[i] = 1
                                \/ \E l \in LinkedWindow(u, h, lnk, t, r) :
                                     lnk[l].shutdown = 1,
         \A r \in 1..(Len(u.cutoffs) - 1) :
           /\ \A i \in Window(u, h, t, r) :
                s.shutdown[i] = 1 => hours < u.cutoffs[r + 1]
           /\ \A l \in LinkedWindow(u, h, lnk, t, r) :
                lnk[l].shutdown = 1 => hours < u.cutoffs[r + 1]
  PROVE  LET type == StartupType(u, h, lnk, s, t)
         IN  Fits(u, hours, type) \/ Coarse(u, h, lnk, t, type)
<1> DEFINE A == active_startup_type(u, h, lnk, s, t)
           type == StartupType(u, h, lnk, s, t)
<1>1. /\ u.cutoffs \in Seq(Nat) /\ Len(u.cutoffs) \in Nat \ {0}
      /\ DOMAIN u.cutoffs = 1..Len(u.cutoffs) /\ u.cutoffs[1] = u.minDown
  BY CutoffsAre
<1>2. type \in A /\ (\A r \in A : type <= r) /\ A \in SUBSET DOMAIN u.cutoffs
  BY TypeIs DEF active_startup_type
<1> SUFFICES ASSUME ~Coarse(u, h, lnk, t, type) PROVE Fits(u, hours, type)
  OBVIOUS
<1>3. \A r \in 1..(Len(u.cutoffs) - 1) :
        u.cutoffs[r] <= hours /\ hours < u.cutoffs[r + 1] => r \in A
  <2> SUFFICES ASSUME NEW r \in 1..(Len(u.cutoffs) - 1),
                      u.cutoffs[r] <= hours, hours < u.cutoffs[r + 1]
               PROVE  r \in A
    OBVIOUS
  <2>1. r \in DOMAIN u.cutoffs /\ u.cutoffs[r] \in Nat
    BY <1>1
  <2>2. Fits(u, hours, r)
    BY <2>1 DEF Fits
  <2> QED
    BY <2>1, <2>2 DEF active_startup_type
<1>4. type < Len(u.cutoffs) => hours < u.cutoffs[type + 1]
  <2> SUFFICES ASSUME type < Len(u.cutoffs) PROVE hours < u.cutoffs[type + 1]
    OBVIOUS
  <2>1. type \in 1..(Len(u.cutoffs) - 1) /\ type # Len(u.cutoffs)
    BY <1>1, <1>2
  <2>2. \/ \E i \in Window(u, h, t, type) : s.shutdown[i] = 1
        \/ \E l \in LinkedWindow(u, h, lnk, t, type) : lnk[l].shutdown = 1
    BY <1>2, <2>1 DEF active_startup_type, Coarse
  <2> HIDE DEF type
  <2> QED
    BY <2>1, <2>2
<1> HIDE DEF A, type
<1>5. /\ hours >= u.cutoffs[type]
      /\ type < Len(u.cutoffs) => hours < u.cutoffs[type + 1]
  BY <1>1, <1>2, <1>3, <1>4, HottestFits
<1> QED
  BY <1>5 DEF Fits

(* After a shutdown in the same subproblem, and no other since.            *)
LEMMA TypeFitsWithin ==
  ASSUME NEW u \in Units, u.cutoffs # <<>>, NEW h, Hours(h),
         NEW lnk \in Seq(Instants), LinkedEvents(lnk, "startup"),
         LinkedEvents(lnk, "shutdown"), NEW s \in Feasible(u, h, lnk),
         NEW t \in Tmps(h), s.startup[t] = 1,
         NEW a \in 1..(t - 1), s.shutdown[a] = 1,
         \A k \in (a + 1)..(t - 1) : s.shutdown[k] # 1
  PROVE  LET type == StartupType(u, h, lnk, s, t)
         IN  Fits(u, Sum(h.hrs, a..(t - 1)), type) \/ Coarse(u, h, lnk, t, type)
<1> DEFINE hours == Sum(h.hrs, a..(t - 1))
<1>1. /\ t \in 1..Len(h.hrs) /\ Len(h.hrs) \in Nat /\ Tmps(h) = 1..Len(h.hrs)
      /\ a \in 1..t /\ t \in 1..t /\ a # t /\ a < t
  BY TmpsAre
<1>2. /\ u.cutoffs \in Seq(Nat) /\ Len(u.cutoffs) \in Nat \ {0}
      /\ \A r \in 1..(Len(u.cutoffs) - 1) :
           u.cutoffs[r] \in Nat /\ u.cutoffs[r + 1] \in Nat /\ r < Len(u.cutoffs)
      /\ u.minDown \in Nat
  BY CutoffsAre
<1>3. hours \in Nat /\ \A b \in 1..a : hours <= Sum(h.hrs, b..(t - 1))
  <2>1. ASSUME NEW b \in 1..a PROVE hours <= Sum(h.hrs, b..(t - 1))
    <3>1. b \in 1..t /\ a \in b..t
      BY <1>1
    <3> QED
      BY <3>1, StretchIs
  <2> QED
    BY <1>1, <2>1, StretchIs
<1>4. u.minDown <= hours
  <2> SUFFICES ASSUME hours < u.minDown PROVE FALSE
    BY <1>2, <1>3
  <2>1. Held(a, t, h.hrs, u.minDown) /\ Held(t, t, h.hrs, u.minUp)
    BY <1>1 DEF Held
  <2>2. s.commit[t] = 0 /\ s.commit[t] = 1
    BY <1>1, <2>1, SolutionKeepsTimes
  <2> QED
    BY <2>2
<1>5. ASSUME NEW r \in 1..(Len(u.cutoffs) - 1), Fits(u, hours, r)
      PROVE  a \in Window(u, h, t, r)
  <2>1. u.cutoffs[r] \in Nat /\ u.cutoffs[r + 1] \in Nat
        /\ r < Len(u.cutoffs)
    BY <1>2
  <2>2. hours >= u.cutoffs[r] /\ hours < u.cutoffs[r + 1]
    BY <1>5, <2>1 DEF Fits
  <2>3. a \in Range(RelevantTmps(h, t, u.cutoffs[r + 1]))
    BY <2>1, <2>2, EarlierRelevant
  <2>4. a \notin Range(RelevantTmps(h, t, u.cutoffs[r]))
    BY <1>3, <2>1, <2>2, EarlierRelevant
  <2> QED
    BY <2>3, <2>4 DEF Window
<1>6. ASSUME NEW r \in 1..(Len(u.cutoffs) - 1), NEW i \in Window(u, h, t, r),
             s.shutdown[i] = 1
      PROVE  hours < u.cutoffs[r + 1]
  <2>1. u.cutoffs[r] \in Nat /\ u.cutoffs[r + 1] \in Nat
    BY <1>2
  <2>2. /\ i \in Range(RelevantTmps(h, t, u.cutoffs[r + 1]))
        /\ i \notin Range(RelevantTmps(h, t, u.cutoffs[r]))
    BY DEF Window
  <2>3. i # t
    BY <2>1, <2>2, ItselfRelevant
  <2>4. i \in Tmps(h)
    <3>1. PICK k \in {0} \cup Steps(h, t, u.cutoffs[r + 1]) : i = Back(h, t, k)
      BY <2>1, <2>2, RelevantAre
    <3>2. k \in Nat
      BY <3>1, ReachIs DEF Steps
    <3> QED
      BY <3>1, <3>2, BackIs
  <2>5. CASE i < t
    <3>1. i \in 1..a
      BY <1>1, <1>6, <2>4, <2>5
    <3>2. i \in 1..(t - 1)
      BY <1>1, <2>4, <2>5
    <3>3. Sum(h.hrs, i..(t - 1)) < u.cutoffs[r + 1]
      BY <2>1, <2>2, <3>2, EarlierRelevant
    <3>4. i \in 1..t
      BY <1>1, <3>2
    <3>5. Sum(h.hrs, i..(t - 1)) \in Nat
      BY <3>4, StretchIs
    <3> QED
      BY <1>3, <2>1, <3>1, <3>3, <3>5
  <2>6. CASE i > t
    BY <2>1, <2>2, <2>6, LaterRelevant
  <2> QED
    BY <1>1, <2>3, <2>4, <2>5, <2>6
<1>7. ASSUME NEW r \in 1..(Len(u.cutoffs) - 1), NEW l \in LinkedWindow(u, h, lnk, t, r)
      PROVE  hours < u.cutoffs[r + 1]
  <2>1. u.cutoffs[r] \in Nat /\ u.cutoffs[r + 1] \in Nat
    BY <1>2
  <2>2. l \in DOMAIN lnk /\ HoursToLinked(h, lnk, t, l) < u.cutoffs[r + 1]
    BY DEF LinkedWindow, RelevantLinked
  <2>3. l \in 1..l /\ LinkedHours(lnk, l) \in Nat
    BY <2>2, LinkedHoursGrow
  <2>4. HoursBack(h, t, t - 1) = Sum(h.hrs, 1..(t - 1))
    <3>1. t - 1 \in 0..(t - 1) /\ t - (t - 1) = 1
      BY <1>1
    <3> QED
      BY <3>1, HoursBackInOrder
  <2>5. Sum(h.hrs, 1..(t - 1)) \in Nat /\ hours <= Sum(h.hrs, 1..(t - 1))
    <3>1. 1 \in 1..a /\ 1 \in 1..t
      BY <1>1
    <3> QED
      BY <1>3, <3>1, StretchIs
  <2> HIDE DEF hours
  <2> QED
    BY <1>3, <2>1, <2>2, <2>3, <2>4, <2>5 DEF HoursToLinked
<1> HIDE DEF hours
<1>8. LET type == StartupType(u, h, lnk, s, t)
      IN  Fits(u, hours, type) \/ Coarse(u, h, lnk, t, type)
  BY <1>3, <1>4, <1>5, <1>6, <1>7, TypeFits
<1> QED
  BY <1>8 DEF hours

(* After a shutdown in the subproblem before, and none since.              *)
LEMMA TypeFitsAcross ==
  ASSUME NEW u \in Units, u.cutoffs # <<>>, NEW h, Hours(h), h.boundary = "linked",
         NEW lnk \in Seq(Instants), LinkedEvents(lnk, "startup"),
         LinkedEvents(lnk, "shutdown"), NEW s \in Feasible(u, h, lnk),
         NEW t \in Tmps(h), s.startup[t] = 1,
         NEW l \in DOMAIN lnk, lnk[l].shutdown = 1,
         \A k \in 1..(t - 1) : s.shutdown[k] # 1,
         \A m \in 1..(l - 1) : lnk[m].shutdown # 1
  PROVE  LET type == StartupType(u, h, lnk, s, t)
         IN  Fits(u, HoursToLinked(h, lnk, t, l), type) \/ Coarse(u, h, lnk, t, type)
<1> DEFINE hours == HoursToLinked(h, lnk, t, l)
<1>1. /\ t \in 1..Len(h.hrs) /\ Len(h.hrs) \in Nat /\ Tmps(h) = 1..Len(h.hrs)
      /\ t \in 1..t /\ t - 1 \in 0..Reach(h, t)
  BY TmpsAre, ReachIs
<1>2. /\ u.cutoffs \in Seq(Nat) /\ Len(u.cutoffs) \in Nat \ {0}
      /\ \A r \in 1..(Len(u.cutoffs) - 1) :
           u.cutoffs[r] \in Nat /\ u.cutoffs[r + 1] \in Nat /\ r < Len(u.cutoffs)
      /\ u.minDown \in Nat
  BY CutoffsAre
<1>3. HoursBack(h, t, t - 1) \in Nat
  <2>1. 0 \in 0..(t - 1)
    BY <1>1
  <2> QED
    BY <1>1, <2>1, HoursBackGrows
<1>4. ASSUME NEW m \in DOMAIN lnk, l <= m
      PROVE  hours \in Nat /\ HoursToLinked(h, lnk, t, m) \in Nat
             /\ hours <= HoursToLinked(h, lnk, t, m)
  <2>1. l \in 1..m
    BY <1>4
  <2>2. /\ LinkedHours(lnk, m) \in Nat /\ LinkedHours(lnk, l) \in Nat
        /\ LinkedHours(lnk, l) <= LinkedHours(lnk, m)
    BY <2>1, LinkedHoursGrow
  <2> QED
    BY <1>3, <2>2 DEF HoursToLinked
<1>5. hours \in Nat
  <2>1. l <= l
    OBVIOUS
  <2> QED
    BY <1>4, <2>1
<1>6. u.minDown <= hours
  <2> SUFFICES ASSUME hours < u.minDown PROVE FALSE
    BY <1>2, <1>5
  <2>1. Held(t, t, h.hrs, u.minUp)
    BY DEF Held
  <2>2. s.commit[t] = 0 /\ s.commit[t] = 1
    BY <1>1, <2>1, SolutionKeepsTimes
  <2> QED
    BY <2>2
<1>7. ASSUME NEW r \in 1..(Len(u.cutoffs) - 1), Fits(u, hours, r)
      PROVE  l \in LinkedWindow(u, h, lnk, t, r)
  <2>1. u.cutoffs[r] \in Nat /\ u.cutoffs[r + 1] \in Nat
        /\ r < Len(u.cutoffs)
    BY <1>2
  <2>2. ~(hours < u.cutoffs[r]) /\ hours < u.cutoffs[r + 1]
    BY <1>5, <1>7, <2>1 DEF Fits
  <2> QED
    BY <2>2 DEF LinkedWindow, RelevantLinked
<1>8. ASSUME NEW r \in 1..(Len(u.cutoffs) - 1), NEW i \in Window(u, h, t, r),
             s.shutdown[i] = 1
      PROVE  hours < u.cutoffs[r + 1]
  <2>1. u.cutoffs[r] \in Nat /\ u.cutoffs[r + 1] \in Nat
    BY <1>2
  <2>2. /\ i \in Range(RelevantTmps(h, t, u.cutoffs[r + 1]))
        /\ i \notin Range(RelevantTmps(h, t, u.cutoffs[r]))
    BY DEF Window
  <2>3. i # t
    BY <2>1, <2>2, ItselfRelevant
  <2>4. PICK k \in {0} \cup Steps(h, t, u.cutoffs[r + 1]) : i = Back(h, t, k)
    BY <2>1, <2>2, RelevantAre
  <2>5. k \in Nat /\ k < t
    BY <1>1, <2>4 DEF Steps, Reach
  <2>6. i = t - k
    BY <2>4, <2>5, BackIs
  <2>7. i \in 1..(t - 1)
    BY <1>1, <2>3, <2>5, <2>6
  <2> QED
    BY <1>8, <2>7
<1>9. ASSUME NEW r \in 1..(Len(u.cutoffs) - 1), NEW m \in LinkedWindow(u, h, lnk, t, r),
             lnk[m].shutdown = 1
      PROVE  hours < u.cutoffs[r + 1]
  <2>1. u.cutoffs[r] \in Nat /\ u.cutoffs[r + 1] \in Nat
    BY <1>2
  <2>2. m \in DOMAIN lnk /\ HoursToLinked(h, lnk, t, m) < u.cutoffs[r + 1]
    BY DEF LinkedWindow, RelevantLinked
  <2>3. l <= m
    BY <1>9, <2>2
  <2> HIDE DEF hours
  <2> QED
    BY <1>4, <2>1, <2>2, <2>3
<1> HIDE DEF hours
<1>10. LET type == StartupType(u, h, lnk, s, t)
       IN  Fits(u, hours, type) \/ Coarse(u, h, lnk, t, type)
  BY <1>5, <1>6, <1>7, <1>8, <1>9, TypeFits
<1> QED
  BY <1>10 DEF hours

(* Where nothing is relevant for a type no hours fit it.                   *)
LEMMA CoarseFitsNone ==
  ASSUME NEW u \in Units, u.cutoffs # <<>>, NEW h, Hours(h),
         NEW lnk \in Seq(Instants), NEW t \in Tmps(h),
         NEW type \in DOMAIN u.cutoffs, Coarse(u, h, lnk, t, type)
  PROVE  /\ \A a \in 1..(t - 1) : ~Fits(u, Sum(h.hrs, a..(t - 1)), type)
         /\ h.boundary = "linked" =>
              \A l \in DOMAIN lnk : ~Fits(u, HoursToLinked(h, lnk, t, l), type)
<1>1. /\ type \in 1..(Len(u.cutoffs) - 1) /\ type < Len(u.cutoffs)
      /\ u.cutoffs[type] \in Nat /\ u.cutoffs[type + 1] \in Nat
  BY CutoffsAre DEF Coarse
<1>2. ASSUME NEW a \in 1..(t - 1), Fits(u, Sum(h.hrs, a..(t - 1)), type)
      PROVE  FALSE
  <2>1. Sum(h.hrs, a..(t - 1)) \in Nat
    <3>1. a \in 1..t
      BY TmpsAre
    <3> QED
      BY <3>1, StretchIs
  <2>2. /\ Sum(h.hrs, a..(t - 1)) < u.cutoffs[type + 1]
        /\ ~(Sum(h.hrs, a..(t - 1)) < u.cutoffs[type])
    BY <1>1, <1>2, <2>1 DEF Fits
  <2>3. /\ a \in Range(RelevantTmps(h, t, u.cutoffs[type + 1]))
        /\ a \notin Range(RelevantTmps(h, t, u.cutoffs[type]))
    BY <1>1, <2>2, EarlierRelevant
  <2> QED
    BY <2>3 DEF Coarse, Window
<1>3. ASSUME h.boundary = "linked", NEW l \in DOMAIN lnk,
             Fits(u, HoursToLinked(h, lnk, t, l), type)
      PROVE  FALSE
  <2>1. HoursToLinked(h, lnk, t, l) \in Nat
    <3>1. l \in 1..l /\ t - 1 \in 0..Reach(h, t) /\ 0 \in 0..(t - 1)
      BY TmpsAre, ReachIs
    <3>2. LinkedHours(lnk, l) \in Nat /\ HoursBack(h, t, t - 1) \in Nat
      BY <3>1, LinkedHoursGrow, HoursBackGrows
    <3> QED
      BY <3>2 DEF HoursToLinked
  <2>2. /\ HoursToLinked(h, lnk, t, l) < u.cutoffs[type + 1]
        /\ ~(HoursToLinked(h, lnk, t, l) < u.cutoffs[type])
    BY <1>1, <1>3, <2>1 DEF Fits
  <2>3. l \in LinkedWindow(u, h, lnk, t, type)
    BY <1>3, <2>2 DEF LinkedWindow, RelevantLinked
  <2> QED
    BY <2>3 DEF Coarse
<1> QED
  BY <1>2, <1>3

------------------------------------------------------------------------------
(* Start types along the timeline.                                         *)

(* A unit that was started is on, one that was shut down is off.           *)
OnWhenStarted ==
  \A i \in DOMAIN timeline : timeline[i].startup = 1 => timeline[i].commit = 1
OffWhenShutDown ==
  \A i \in DOMAIN timeline : timeline[i].shutdown = 1 => timeline[i].commit = 0

StartsInv == OffWhenShutDown /\ StartsAreAsHotAsTheyWere

(* At first nothing was solved.                                            *)
LEMMA InitStarts == Init => StartsInv
  BY DEF Init, StartsInv, OffWhenShutDown, StartsAreAsHotAsTheyWere

(* What does not change the timeline changes no start.                     *)
LEMMA SameStarts ==
  ASSUME StartsInv, UNCHANGED <<unit, timeline, ends>>
  PROVE  StartsInv'
<1>1. \A i, j : Known(i, j)' <=> Known(i, j)
  BY DEF Known, SolvedTogether
<1>2. \A i, j : Apart(i, j)' = Apart(i, j)
  BY DEF Apart
<1>3. \A j : DownFor(j)' = DownFor(j)
  BY <1>1 DEF DownFor
<1>4. \A hours, s : Between(hours, s)' <=> Between(hours, s)
  BY DEF Between
<1>5. \A j, s : TooCoarse(j, s)' <=> TooCoarse(j, s)
  BY <1>1, <1>2, <1>4 DEF TooCoarse
<1> QED
  BY <1>2, <1>3, <1>4, <1>5 DEF StartsInv, OffWhenShutDown, StartsAreAsHotAsTheyWere

(* A start type that is given is the hottest one left.                     *)
LEMMA SolvedType ==
  ASSUME NEW h, NEW lnk, NEW s, NEW t \in Tmps(h), Solved(h, lnk, s)[t].type # 0
  PROVE  /\ unit.cutoffs # <<>> /\ s.startup[t] # 0
         /\ Solved(h, lnk, s)[t].type = StartupType(unit, h, lnk, s, t)
  BY DEF Solved

(* Each new timepoint is on when started, and off when shut down.          *)
LEMMA SolveAgrees ==
  ASSUME IInv, Solve
  PROVE  /\ OffWhenShutDown => OffWhenShutDown'
         /\ OnWhenStarted => OnWhenStarted'
<1>1. PICK s : Solution(s)
  BY SolveIs
<1> DEFINE N == Len(timeline)
           n == Len(horizon.hrs)
           new == Solved(horizon, linked, s)
<1>2. /\ unit \in Units /\ s \in Feasible(unit, horizon, linked)
      /\ timeline \in Seq(Instants) /\ timeline' \in Seq(Instants)
      /\ N \in Nat /\ n \in Nat \ {0} /\ Len(timeline') = N + n
      /\ \A i \in 1..N : timeline'[i] = timeline[i]
      /\ \A a \in 1..n : timeline'[N + a] = new[a]
  BY <1>1, Extended
<1>3. /\ Hours(horizon)
      /\ LinkedEvents(linked, "startup") /\ LinkedEvents(linked, "shutdown")
  BY SolveIs, LinkedAre
<1>4. Tmps(horizon) = 1..n
  BY DEF Tmps
<1>5. ASSUME NEW i \in 1..(N + n), ~(i <= N)
      PROVE  /\ timeline'[i].shutdown = 1 => timeline'[i].commit = 0
             /\ timeline'[i].startup = 1 => timeline'[i].commit = 1
  <2> DEFINE a == i - N
  <2>1. a \in Tmps(horizon) /\ a \in 1..n /\ a \in 1..a /\ i = N + a
    BY <1>2, <1>4, <1>5
  <2> HIDE DEF a
  <2>2. /\ timeline'[i].shutdown = s.shutdown[a] /\ timeline'[i].startup = s.startup[a]
        /\ timeline'[i].commit = s.commit[a]
    <3>1. /\ new[a].commit = s.commit[a] /\ new[a].shutdown = s.shutdown[a]
          /\ new[a].startup = s.startup[a]
      BY <1>2, <1>3, <2>1, SolvedIs
    <3>2. timeline'[i] = new[a]
      BY <1>2, <2>1
    <3> QED
      BY <3>1, <3>2
  <2>3. Held(a, a, horizon.hrs, unit.minDown) /\ Held(a, a, horizon.hrs, unit.minUp)
    BY DEF Held
  <2>4. s.shutdown[a] = 1 => s.commit[a] = 0
    BY <1>2, <1>3, <2>1, <2>3, SolutionKeepsTimes
  <2>5. s.startup[a] = 1 => s.commit[a] = 1
    BY <1>2, <1>3, <2>1, <2>3, SolutionKeepsTimes
  <2> QED
    BY <2>2, <2>4, <2>5
<1>6. /\ DOMAIN timeline = 1..N /\ DOMAIN timeline' = 1..(N + n)
      /\ \A i \in 1..(N + n) : i <= N => i \in 1..N
  BY <1>2
<1> HIDE DEF N, n, new
<1>7. ASSUME OffWhenShutDown PROVE OffWhenShutDown'
  BY <1>2, <1>5, <1>6, <1>7 DEF OffWhenShutDown
<1>8. ASSUME OnWhenStarted PROVE OnWhenStarted'
  BY <1>2, <1>5, <1>6, <1>8 DEF OnWhenStarted
<1> QED
  BY <1>7, <1>8

(* In a stretch without commitment nothing is shut down.                   *)
LEMMA NoOtherShutdown ==
  ASSUME FlagsAreChanges', OffWhenShutDown', timeline' \in Seq(Instants),
         NEW j \in DOMAIN timeline', NEW i \in DownFor(j)'
  PROVE  \A k \in (i + 1)..(j - 1) : timeline'[k].shutdown # 1
<1>1. /\ i \in 1..(j - 1) /\ timeline'[i].shutdown = 1
      /\ \A k \in (i + 1)..(j - 1) : timeline'[k].commit = 0
  BY DEF DownFor
<1>2. j \in 1..Len(timeline') /\ Len(timeline') \in Nat
  OBVIOUS
<1>3. timeline'[i].commit = 0
  BY <1>1, <1>2 DEF OffWhenShutDown
<1> SUFFICES ASSUME NEW k \in (i + 1)..(j - 1) PROVE timeline'[k].shutdown # 1
  OBVIOUS
<1>4. k \in 2..Len(timeline') /\ k - 1 \in i..(j - 1) /\ k \in (i + 1)..(j - 1)
  BY <1>1, <1>2
<1>5. timeline'[k].commit = 0 /\ timeline'[k - 1].commit = 0
  BY <1>1, <1>3, <1>4
<1>6. timeline'[k].shutdown = 1 <=> timeline'[k].commit < timeline'[k - 1].commit
  BY <1>4 DEF FlagsAreChanges
<1> QED
  BY <1>5, <1>6

(* Hours along the timeline are the hours of the windows.                  *)
LEMMA HoursSince ==
  ASSUME IInv, Solve, NEW b \in Tmps(horizon), NEW j \in Nat, j = Len(timeline) + b,
         NEW i \in 1..(j - 1), Known(i, j)'
  PROVE  \/ /\ i > Len(timeline) /\ i - Len(timeline) \in 1..(b - 1)
            /\ ApartIn(timeline', i, j) = Sum(horizon.hrs, (i - Len(timeline))..(b - 1))
         \/ /\ i \in 1..Len(timeline) /\ horizon.boundary = "linked"
            /\ Len(timeline) + 1 - i \in DOMAIN linked
            /\ ApartIn(timeline', i, j)
                 = HoursToLinked(horizon, linked, b, Len(timeline) + 1 - i)
<1>1. PICK s : Solution(s)
  BY SolveIs
<1> DEFINE N == Len(timeline)
           n == Len(horizon.hrs)
           new == Solved(horizon, linked, s)
<1>2. /\ timeline \in Seq(Instants) /\ new \in Seq(Instants)
      /\ N \in Nat /\ n \in Nat \ {0} /\ OverHorizon(new, horizon)
  BY <1>1, Extended
<1>3. /\ timeline' = timeline \o new /\ Hours(horizon)
      /\ (horizon.boundary = "linked" <=> linked # <<>>)
  BY <1>1, SolveIs DEF Solution
<1>4. b \in 1..n /\ Tmps(horizon) = 1..n
  BY DEF Tmps
<1>5. CASE i > N
  <2> DEFINE a == i - N
  <2>1. a \in Tmps(horizon) /\ a \in 1..(b - 1) /\ b \in a..n /\ i = N + a
    BY <1>2, <1>4, <1>5
  <2> HIDE DEF a, new
  <2>2. ApartIn(timeline \o new, Len(timeline) + a, Len(timeline) + b)
          = Sum(horizon.hrs, a..(b - 1))
    BY <1>2, <1>3, <2>1, ApartOfNew
  <2> QED
    BY <1>3, <1>5, <2>1, <2>2 DEF a
<1>6. CASE i <= N
  <2>1. i \in 1..N /\ i \in 1..Len(timeline)
    BY <1>2, <1>4, <1>6
  <2>2. N + 1 - i \in DOMAIN linked
    <3> HIDE DEF N
    <3> QED
      BY <2>1, KnownAcross DEF N
  <2> DEFINE l == N + 1 - i
  <2>3. i = N + 1 - l
    BY <1>2, <2>1
  <2>4. /\ linked \in Seq(Instants) /\ Len(linked) <= Len(timeline)
        /\ LatestFirst(linked, timeline)
    BY DEF IInv, LinkedInv, LatestFirst
  <2>5. horizon.boundary = "linked"
    BY <1>3, <2>2, <2>4
  <2> HIDE DEF l, new, N
  <2>6. \A b1 \in Tmps(horizon) : \A l1 \in DOMAIN linked :
           ApartIn(timeline \o new, Len(timeline) + 1 - l1, Len(timeline) + b1)
             = HoursToLinked(horizon, linked, b1, l1)
    BY <1>2, <1>3, <2>4, ApartAcross
  <2>7. ApartIn(timeline \o new, Len(timeline) + 1 - l, Len(timeline) + b)
          = HoursToLinked(horizon, linked, b, l)
    BY <2>2, <2>6 DEF l
  <2> QED
    BY <1>3, <2>1, <2>2, <2>3, <2>5, <2>7 DEF N, l
<1> QED
  BY <1>2, <1>4, <1>5, <1>6

(* A start that is now solved.                                             *)
LEMMA NewStart ==
  ASSUME IInv, OffWhenShutDown, Solve, NEW j \in DOMAIN timeline', j > Len(timeline),
         timeline'[j].type # 0, NEW i \in DownFor(j)'
  PROVE  \/ Fits(unit, ApartIn(timeline', i, j), timeline'[j].type)
         \/ \A m \in 1..(j - 1) : Known(m, j)' =>
              ~Fits(unit, ApartIn(timeline', m, j), timeline'[j].type)
<1>1. PICK s : Solution(s)
  BY SolveIs
<1> DEFINE N == Len(timeline)
           n == Len(horizon.hrs)
           new == Solved(horizon, linked, s)
           b == j - N
           type == StartupType(unit, horizon, linked, s, b)
<1>2. /\ unit \in Units /\ s \in Feasible(unit, horizon, linked)
      /\ timeline \in Seq(Instants) /\ timeline' \in Seq(Instants)
      /\ N \in Nat /\ n \in Nat \ {0} /\ Len(timeline') = N + n
      /\ \A k \in 1..N : timeline'[k] = timeline[k]
      /\ \A a \in 1..n : timeline'[N + a] = new[a]
  BY <1>1, Extended
<1>3. /\ Hours(horizon) /\ linked \in Seq(Instants)
      /\ LinkedEvents(linked, "startup") /\ LinkedEvents(linked, "shutdown")
      /\ \A m \in DOMAIN linked : linked[m] = timeline[N + 1 - m]
      /\ Len(linked) <= N
  BY SolveIs, LinkedAre DEF IInv, LinkedInv
<1>4. /\ Tmps(horizon) = 1..n /\ b \in 1..n /\ b \in Tmps(horizon)
      /\ j = N + b /\ j \in Nat
  BY <1>2 DEF Tmps
<1>5. \A a \in 1..n : timeline'[N + a].shutdown = s.shutdown[a]
  BY <1>2, <1>3, <1>4, SolvedIs
<1>6. timeline'[j] = new[b]
  BY <1>2, <1>4
<1>7. unit.cutoffs # <<>> /\ s.startup[b] = 1 /\ timeline'[j].type = type
  <2>1. new[b].type # 0
    BY <1>6
  <2>2. unit.cutoffs # <<>> /\ s.startup[b] # 0 /\ new[b].type = type
    BY <1>4, <2>1, SolvedType
  <2>3. s.startup[b] \in 0..1
    BY <1>2, <1>3, <1>4, FeasibleIs
  <2> QED
    BY <1>6, <2>2, <2>3
<1>8. /\ i \in 1..(j - 1) /\ Known(i, j)' /\ timeline'[i].shutdown = 1
      /\ \A k \in (i + 1)..(j - 1) : timeline'[k].shutdown # 1
  BY <1>2, SolveFlags, SolveAgrees, NoOtherShutdown DEF DownFor
<1>9. Fits(unit, ApartIn(timeline', i, j), type)
        \/ Coarse(unit, horizon, linked, b, type)
  <2>1. \/ /\ i > N /\ i - N \in 1..(b - 1)
           /\ ApartIn(timeline', i, j) = Sum(horizon.hrs, (i - N)..(b - 1))
        \/ /\ i \in 1..N /\ horizon.boundary = "linked" /\ N + 1 - i \in DOMAIN linked
           /\ ApartIn(timeline', i, j) = HoursToLinked(horizon, linked, b, N + 1 - i)
    <3> HIDE DEF b
    <3> QED
      BY <1>4, <1>8, HoursSince
  <2>2. CASE i > N
    <3> DEFINE a == i - N
    <3>1. /\ a \in 1..(b - 1) /\ a \in Nat /\ i = N + a
          /\ ApartIn(timeline', i, j) = Sum(horizon.hrs, a..(b - 1))
      BY <1>2, <1>8, <2>1, <2>2
    <3>2. a \in 1..n
      BY <1>2, <1>4, <3>1
    <3>3. s.shutdown[a] = 1
      BY <1>5, <1>8, <3>2, <3>1
    <3>4. \A k \in (a + 1)..(b - 1) : s.shutdown[k] # 1
      <4> SUFFICES ASSUME NEW k \in (a + 1)..(b - 1) PROVE s.shutdown[k] # 1
        OBVIOUS
      <4>1. k \in 1..n /\ N + k \in (i + 1)..(j - 1)
        <5>1. /\ a \in Nat /\ n \in Nat /\ N \in Nat /\ b \in 1..n
              /\ i = N + a /\ j = N + b
          BY <1>2, <1>4, <3>1
        <5> HIDE DEF a, b, N, n
        <5> QED
          BY <5>1
      <4> QED
        BY <1>5, <1>8, <4>1
    <3> HIDE DEF a, b, N, n
    <3> QED
      BY <1>2, <1>3, <1>4, <1>7, <3>1, <3>3, <3>4, TypeFitsWithin
  <2>3. CASE i <= N
    <3> DEFINE l == N + 1 - i
    <3>1. /\ l \in DOMAIN linked /\ horizon.boundary = "linked" /\ i \in 1..N
          /\ ApartIn(timeline', i, j) = HoursToLinked(horizon, linked, b, l)
      BY <1>2, <1>8, <2>1, <2>3
    <3>2. i = N + 1 - l /\ l \in Nat
      BY <1>2, <3>1
    <3>3. linked[l].shutdown = 1
      BY <1>2, <1>3, <1>8, <3>1, <3>2
    <3>4. \A k \in 1..(b - 1) : s.shutdown[k] # 1
      <4> SUFFICES ASSUME NEW k \in 1..(b - 1) PROVE s.shutdown[k] # 1
        OBVIOUS
      <4>1. k \in 1..n /\ N + k \in (i + 1)..(j - 1)
        <5>1. /\ n \in Nat /\ N \in Nat /\ b \in 1..n
              /\ i \in 1..N /\ j = N + b
          BY <1>2, <1>4, <3>1
        <5> HIDE DEF b, N, n, l
        <5> QED
          BY <5>1
      <4> QED
        BY <1>5, <1>8, <4>1
    <3>5. \A m \in 1..(l - 1) : linked[m].shutdown # 1
      <4> SUFFICES ASSUME NEW m \in 1..(l - 1) PROVE linked[m].shutdown # 1
        OBVIOUS
      <4>1. m \in DOMAIN linked
        BY <1>3, <3>1
      <4>2. N + 1 - m \in (i + 1)..(j - 1) /\ N + 1 - m \in 1..N
        BY <1>2, <1>4, <3>1, <3>2
      <4> QED
        BY <1>2, <1>3, <1>8, <4>1, <4>2
    <3> HIDE DEF l, b, N, n
    <3> QED
      BY <1>2, <1>3, <1>4, <1>7, <3>1, <3>3, <3>4, <3>5, TypeFitsAcross
  <2> QED
    BY <1>2, <1>8, <2>2, <2>3
<1>10. ASSUME Coarse(unit, horizon, linked, b, type),
              NEW m \in 1..(j - 1), Known(m, j)'
       PROVE  ~Fits(unit, ApartIn(timeline', m, j), type)
  <2>1. type \in DOMAIN unit.cutoffs
    BY <1>2, <1>7, TypeIs
  <2>2. /\ \A a \in 1..(b - 1) : ~Fits(unit, Sum(horizon.hrs, a..(b - 1)), type)
        /\ horizon.boundary = "linked" =>
             \A l \in DOMAIN linked :
               ~Fits(unit, HoursToLinked(horizon, linked, b, l), type)
    <3> HIDE DEF type, b
    <3> QED
      BY <1>2, <1>3, <1>4, <1>7, <1>10, <2>1, CoarseFitsNone
  <2>3. \/ /\ m - N \in 1..(b - 1)
           /\ ApartIn(timeline', m, j) = Sum(horizon.hrs, (m - N)..(b - 1))
        \/ /\ horizon.boundary = "linked" /\ N + 1 - m \in DOMAIN linked
           /\ ApartIn(timeline', m, j) = HoursToLinked(horizon, linked, b, N + 1 - m)
    <3> HIDE DEF b
    <3> QED
      BY <1>4, <1>10, HoursSince
  <2> HIDE DEF type, b, N
  <2> QED
    BY <2>2, <2>3
<1> HIDE DEF type, b
<1> QED
  BY <1>7, <1>9, <1>10

(* A new start is as hot as it should be, and the old ones stay as they    *)
(* are.                                                                    *)
LEMMA SolveStarts ==
  ASSUME IInv, StartsInv, Solve
  PROVE  StartsInv'
<1>1. PICK s : Solution(s)
  BY SolveIs
<1> DEFINE N == Len(timeline)
           n == Len(horizon.hrs)
<1>2. /\ timeline \in Seq(Instants) /\ N \in Nat /\ n \in Nat \ {0}
      /\ Solved(horizon, linked, s) \in Seq(Instants)
      /\ timeline' \in Seq(Instants) /\ Len(timeline') = N + n
      /\ \A k \in 1..N : timeline'[k] = timeline[k]
  BY <1>1, Extended
<1>3. unit' = unit /\ timeline' = timeline \o Solved(horizon, linked, s)
  BY <1>1, SolveIs DEF Solution
<1>4. OffWhenShutDown'
  BY SolveAgrees DEF StartsInv
<1>5. ASSUME NEW j \in DOMAIN timeline', timeline'[j].type # 0, NEW i \in DownFor(j)'
      PROVE  \/ Fits(unit, ApartIn(timeline', i, j), timeline'[j].type)
             \/ \A m \in 1..(j - 1) : Known(m, j)' =>
                  ~Fits(unit, ApartIn(timeline', m, j), timeline'[j].type)
  <2>1. j \in 1..(N + n)
    BY <1>2
  <2>2. CASE j > N
    BY <1>5, <2>2, NewStart DEF StartsInv
  <2>3. CASE j <= N
    <3>1. j \in 1..N /\ j \in DOMAIN timeline
      BY <1>2, <2>1, <2>3
    <3>2. timeline'[j] = timeline[j]
      BY <1>2, <3>1
    <3>3. ASSUME NEW m \in 1..(j - 1), Known(m, j)'
          PROVE  Known(m, j) /\ ApartIn(timeline', m, j) = ApartIn(timeline, m, j)
      <4>1. m \in 1..Len(timeline) /\ j \in 1..Len(timeline) /\ m < j
            /\ j \in m..Len(timeline)
        BY <1>2, <3>1
      <4>2. Known(m, j)
        BY <3>3, <4>1, KnownBefore
      <4>3. ApartIn(timeline', m, j) = ApartIn(timeline, m, j)
        BY <1>2, <1>3, <4>1, ApartOfOld
      <4> QED
        BY <4>2, <4>3
    <3>4. /\ i \in 1..(j - 1) /\ Known(i, j)' /\ timeline'[i].shutdown = 1
          /\ \A k \in (i + 1)..(j - 1) : timeline'[k].commit = 0
      BY <1>5 DEF DownFor
    <3>5. i \in DownFor(j)
      <4>1. i \in 1..N /\ (i + 1)..(j - 1) \subseteq 1..N
        BY <1>2, <3>1, <3>4
      <4>2. /\ timeline[i].shutdown = 1
            /\ \A k \in (i + 1)..(j - 1) : timeline[k].commit = 0
        BY <1>2, <3>4, <4>1
      <4> QED
        BY <3>3, <3>4, <4>2 DEF DownFor
    <3>6. \/ Fits(unit, ApartIn(timeline, i, j), timeline[j].type)
          \/ \A m \in 1..(j - 1) : Known(m, j) =>
               ~Fits(unit, ApartIn(timeline, m, j), timeline[j].type)
      BY <1>5, <3>1, <3>2, <3>5
         DEF StartsInv, StartsAreAsHotAsTheyWere, TooCoarse, Between, Fits,
             Apart, ApartIn
    <3> QED
      BY <3>2, <3>3, <3>4, <3>6
  <2> QED
    BY <1>2, <2>1, <2>2, <2>3
<1>6. StartsAreAsHotAsTheyWere'
  BY <1>3, <1>5 DEF StartsAreAsHotAsTheyWere, TooCoarse, Between, Fits, Apart, ApartIn
<1> QED
  BY <1>4, <1>6 DEF StartsInv

(* A start is as hot as the hours the unit was off, for any units with any *)
(* start types, any horizons and any number of subproblems, unless no      *)
(* timepoint began between the cutoffs of a hotter type: what              *)
(* active_startup_type_constraint_rule looks for in its window is the      *)
(* shutdown that the unit comes from, or one the next hotter type has too. *)
THEOREM StartsAreHotEnough == Spec => []StartsAreAsHotAsTheyWere
<1>1. Init => StartsInv
  BY InitStarts
<1>2. IInv /\ StartsInv /\ [Next]_vars => StartsInv'
  <2> SUFFICES ASSUME IInv, StartsInv, [Next]_vars PROVE StartsInv'
    OBVIOUS
  <2>1. CASE Solve
    BY <2>1, SolveStarts
  <2>2. CASE LoadData
    BY <2>2, SameStarts DEF LoadData
  <2>3. CASE Done \/ UNCHANGED vars
    BY <2>3, SameStarts DEF Done, vars
  <2> QED
    BY <2>1, <2>2, <2>3 DEF Next
<1>3. StartsInv => StartsAreAsHotAsTheyWere
  BY DEF StartsInv
<1> QED
  BY <1>1, <1>2, <1>3, CommitmentInvariant, PTL DEF Spec

------------------------------------------------------------------------------
(* Hours on the clock.                                                     *)

(* Every timepoint takes some time.                                        *)
Positive(h) == \A t \in Tmps(h) : h.hrs[t] > 0

(* The hours of a span of timepoints.                                      *)
LEMMA SpanIs ==
  ASSUME NEW h, Hours(h), NEW a \in Nat \ {0}, NEW b \in 0..Len(h.hrs)
  PROVE  Natural(h.hrs, a..b) /\ Sum(h.hrs, a..b) \in Nat
<1>1. Len(h.hrs) \in Nat /\ a..b \subseteq Tmps(h) /\ b \in Nat
  BY TmpsAre
<1>2. IsFiniteSet(a..b)
  BY <1>1, FS_Interval
<1>3. Natural(h.hrs, a..b)
  BY <1>1, <1>2, TmpsAre DEF Natural
<1> QED
  BY <1>3, SumType

(* A span is as long as its two parts.                                     *)
LEMMA SpanSplit ==
  ASSUME NEW h, Hours(h), NEW a \in Nat \ {0}, NEW b \in 0..Len(h.hrs),
         NEW c \in (a - 1)..b
  PROVE  Sum(h.hrs, a..b) = Sum(h.hrs, a..c) + Sum(h.hrs, (c + 1)..b)
<1>1. /\ Len(h.hrs) \in Nat /\ c \in 0..Len(h.hrs) /\ c + 1 \in Nat \ {0}
      /\ a..b = (a..c) \cup ((c + 1)..b) /\ (a..c) \cap ((c + 1)..b) = {}
  BY TmpsAre
<1>2. Natural(h.hrs, a..c) /\ Natural(h.hrs, (c + 1)..b)
  BY <1>1, SpanIs
<1> QED
  BY <1>1, <1>2, SumUnion

(* No span takes no time.                                                  *)
LEMMA SpanPositive ==
  ASSUME NEW h, Hours(h), Positive(h), NEW a \in Nat \ {0}, NEW b \in a..Len(h.hrs)
  PROVE  Sum(h.hrs, a..b) > 0
<1>1. Len(h.hrs) \in Nat /\ b \in 0..Len(h.hrs) /\ a \in a..b /\ a \in Tmps(h)
  BY TmpsAre
<1>2. Natural(h.hrs, a..b) /\ Sum(h.hrs, a..b) \in Nat
  BY <1>1, SpanIs
<1>3. Sum(h.hrs, a..b) >= h.hrs[a]
  BY <1>1, <1>2, SumAtLeast
<1>4. h.hrs[a] > 0 /\ h.hrs[a] \in Nat
  BY <1>1, TmpsAre DEF Positive
<1> QED
  BY <1>2, <1>3, <1>4

(* What the clock shows when a timepoint begins.                           *)
LEMMA ClockIs ==
  ASSUME NEW h, Hours(h), NEW j \in 1..(Len(h.hrs) + 1)
  PROVE  Clock(h.hrs, j) = Sum(h.hrs, 1..(j - 1)) /\ Clock(h.hrs, j) \in Nat
<1> DEFINE e == [k \in 1..(j - 1) |-> h.hrs[k]]
<1>1. Len(h.hrs) \in Nat /\ j - 1 \in 0..Len(h.hrs) /\ 1 \in Nat \ {0}
  BY TmpsAre
<1>2. Natural(h.hrs, 1..(j - 1)) /\ Sum(h.hrs, 1..(j - 1)) \in Nat
  BY <1>1, SpanIs
<1>3. Agree(e, h.hrs, 1..(j - 1))
  BY DEF Agree
<1>4. DOMAIN e = 1..(j - 1) /\ Clock(h.hrs, j) = SumFunction(e)
  BY DEF Clock
<1> HIDE DEF e
<1>5. SumFunctionOnSet(e, 1..(j - 1)) = SumFunctionOnSet(h.hrs, 1..(j - 1))
  BY <1>2, <1>3, SumsAgree DEF Natural
<1> QED
  BY <1>2, <1>4, <1>5 DEF SumFunction, Sum

(* Between two timepoints the clock goes on by the hours of the span.      *)
LEMMA ClockApart ==
  ASSUME NEW h, Hours(h), NEW i \in Tmps(h), NEW j \in Tmps(h), i <= j
  PROVE  Clock(h.hrs, j) - Clock(h.hrs, i) = Sum(h.hrs, i..(j - 1))
<1>1. /\ Len(h.hrs) \in Nat /\ i \in 1..(Len(h.hrs) + 1) /\ j \in 1..(Len(h.hrs) + 1)
      /\ j - 1 \in 0..Len(h.hrs) /\ i - 1 \in (1 - 1)..(j - 1) /\ (i - 1) + 1 = i
      /\ 1 \in Nat \ {0} /\ i \in Nat \ {0}
  BY TmpsAre
<1>2. Sum(h.hrs, 1..(j - 1)) = Sum(h.hrs, 1..(i - 1)) + Sum(h.hrs, i..(j - 1))
  BY <1>1, SpanSplit
<1>3. Sum(h.hrs, i..(j - 1)) \in Nat
  BY <1>1, SpanIs
<1> QED
  BY <1>1, <1>2, <1>3, ClockIs

(* Hours from one timepoint forward to another.                            *)
LEMMA Remainder ==
  ASSUME NEW T \in Nat, NEW d \in Nat, d < T
  PROVE  d % T = d /\ (d > 0 => (-d) % T = T - d)
  OBVIOUS

(* On a circle the hours from a later timepoint to an earlier one go       *)
(* through the end; elsewhere they are negative.                           *)
LEMMA LaterIs ==
  ASSUME NEW h, Hours(h), Positive(h), NEW i \in Tmps(h), NEW j \in Tmps(h)
  PROVE  /\ i <= j => Later(h, i, j) = Sum(h.hrs, i..(j - 1))
         /\ i > j => Later(h, i, j) = IF h.boundary = "circular"
                                      THEN Sum(h.hrs, 1..(j - 1)) + Sum(h.hrs, i..Len(h.hrs))
                                      ELSE -Sum(h.hrs, j..(i - 1))
<1> DEFINE n == Len(h.hrs)
           T == Clock(h.hrs, n + 1)
           Ci == Clock(h.hrs, i)
           Cj == Clock(h.hrs, j)
<1>1. n \in Nat \ {0} /\ i \in 1..n /\ j \in 1..n /\ i \in 1..(n + 1) /\ j \in 1..(n + 1)
      /\ n + 1 \in 1..(n + 1)
  BY TmpsAre
<1>2. /\ T = Sum(h.hrs, 1..n) /\ T \in Nat /\ Ci \in Nat /\ Cj \in Nat
      /\ Ci = Sum(h.hrs, 1..(i - 1)) /\ Cj = Sum(h.hrs, 1..(j - 1))
  <2>1. (n + 1) - 1 = n
    BY <1>1
  <2> QED
    BY <1>1, <2>1, ClockIs
<1>3. ASSUME NEW a \in 1..n
      PROVE  /\ Sum(h.hrs, 1..n) = Sum(h.hrs, 1..(a - 1)) + Sum(h.hrs, a..n)
             /\ Sum(h.hrs, 1..(a - 1)) \in Nat
             /\ Sum(h.hrs, a..n) \in Nat /\ Sum(h.hrs, a..n) > 0
  <2>1. /\ n \in 0..n /\ 1 \in Nat \ {0} /\ a - 1 \in (1 - 1)..n /\ a - 1 \in 0..n
        /\ (a - 1) + 1 = a /\ a \in Nat \ {0} /\ n \in a..n
    BY <1>1
  <2>2. Sum(h.hrs, 1..n) = Sum(h.hrs, 1..(a - 1)) + Sum(h.hrs, ((a - 1) + 1)..n)
    BY <2>1, SpanSplit
  <2>3. Sum(h.hrs, 1..(a - 1)) \in Nat /\ Sum(h.hrs, a..n) \in Nat
    BY <2>1, SpanIs
  <2>4. Sum(h.hrs, a..n) > 0
    BY <2>1, SpanPositive
  <2> QED
    BY <2>1, <2>2, <2>3, <2>4
<1> DEFINE Ri == Sum(h.hrs, i..n)
           Rj == Sum(h.hrs, j..n)
<1>4. /\ T = Ci + Ri /\ Ri \in Nat /\ Ri > 0
      /\ T = Cj + Rj /\ Rj \in Nat /\ Rj > 0
  BY <1>1, <1>2, <1>3
<1> HIDE DEF n, T, Ci, Cj, Ri, Rj
<1>5. Later(h, i, j) = IF h.boundary = "circular" THEN (Cj - Ci) % T ELSE Cj - Ci
  BY DEF Later, T, Ci, Cj, n
<1>6. CASE i <= j
  <2>1. Cj - Ci = Sum(h.hrs, i..(j - 1))
    BY <1>6, ClockApart DEF Ci, Cj
  <2>2. Sum(h.hrs, i..(j - 1)) \in Nat
    BY <1>1, SpanIs DEF n
  <2>3. Cj - Ci \in Nat /\ Cj - Ci < T
    BY <1>2, <1>4, <2>1, <2>2
  <2>4. (Cj - Ci) % T = Cj - Ci
    BY <1>2, <2>3, Remainder
  <2> QED
    BY <1>1, <1>5, <1>6, <2>1, <2>4
<1>7. CASE i > j
  <2>1. Ci - Cj = Sum(h.hrs, j..(i - 1))
    BY <1>1, <1>7, ClockApart DEF Ci, Cj
  <2>2. Ci - Cj > 0
    <3>1. i - 1 \in j..n /\ j \in Nat \ {0}
      BY <1>1, <1>7
    <3> QED
      BY <2>1, <3>1, SpanPositive DEF n
  <2>3. Ci - Cj \in Nat /\ Ci - Cj < T
    BY <1>2, <1>4, <2>2
  <2>4. Cj - Ci = -(Ci - Cj)
    BY <1>2
  <2>5. (Cj - Ci) % T = T - (Ci - Cj)
    BY <1>2, <2>2, <2>3, <2>4, Remainder
  <2>6. T - (Ci - Cj) = Cj + Ri
    BY <1>2, <1>4
  <2> QED
    BY <1>1, <1>2, <1>5, <1>7, <2>1, <2>4, <2>5, <2>6 DEF n, Ri
<1> QED
  BY <1>1, <1>6, <1>7

(* A part of a span is no longer than the span.                            *)
LEMMA SpanWithin ==
  ASSUME NEW h, Hours(h), NEW a \in Nat \ {0}, NEW b \in 0..Len(h.hrs),
         NEW c \in (a - 1)..b
  PROVE  Sum(h.hrs, a..c) \in Nat /\ Sum(h.hrs, a..b) \in Nat
         /\ Sum(h.hrs, a..c) <= Sum(h.hrs, a..b)
<1>1. Len(h.hrs) \in Nat /\ c \in 0..Len(h.hrs) /\ c + 1 \in Nat \ {0}
  BY TmpsAre
<1>2. /\ Sum(h.hrs, a..c) \in Nat /\ Sum(h.hrs, (c + 1)..b) \in Nat
      /\ Sum(h.hrs, a..b) \in Nat
  BY <1>1, SpanIs
<1>3. Sum(h.hrs, a..b) = Sum(h.hrs, a..c) + Sum(h.hrs, (c + 1)..b)
  BY SpanSplit
<1> QED
  BY <1>2, <1>3

(* The hours of a window that has come round.                              *)
LEMMA HoursBackRound ==
  ASSUME NEW h, Hours(h), h.boundary = "circular", NEW t \in Tmps(h),
         NEW k \in t..Len(h.hrs)
  PROVE  HoursBack(h, t, k)
           = Sum(h.hrs, 1..(t - 1)) + Sum(h.hrs, ((t - k) + Len(h.hrs))..Len(h.hrs))
<1> DEFINE n == Len(h.hrs)
           b == [m \in t..k |-> (t - m) + n]
           T == ((t - k) + n)..n
<1>1. /\ n \in Nat \ {0} /\ t \in 1..n /\ k \in Nat /\ t <= k /\ k <= n
      /\ Reach(h, t) = n /\ t - 1 \in 0..n /\ k \in 0..n
  BY TmpsAre DEF Reach
<1>2. /\ Natural(HoursAt(h, t), 1..n)
      /\ \A m \in 1..n : HoursAt(h, t)[m] = h.hrs[Back(h, t, m)]
  BY <1>1, HoursAtType
<1>3. /\ HoursBack(h, t, k) = Sum(HoursAt(h, t), 1..k)
      /\ HoursBack(h, t, t - 1) = Sum(HoursAt(h, t), 1..(t - 1))
  BY <1>1, HoursBackIsSum
<1>4. HoursBack(h, t, t - 1) = Sum(h.hrs, 1..(t - 1))
  <2>1. t - 1 \in 0..(t - 1) /\ t - (t - 1) = 1
    BY <1>1
  <2> QED
    BY <2>1, HoursBackInOrder
<1>5. /\ 1..k = (1..(t - 1)) \cup (t..k) /\ (1..(t - 1)) \cap (t..k) = {}
      /\ 1..(t - 1) \in SUBSET (1..n) /\ t..k \in SUBSET (1..n)
  BY <1>1
<1>6. Natural(HoursAt(h, t), 1..(t - 1)) /\ Natural(HoursAt(h, t), t..k)
  BY <1>2, <1>5, NaturalSubset
<1>7. Sum(HoursAt(h, t), 1..k)
        = Sum(HoursAt(h, t), 1..(t - 1)) + Sum(HoursAt(h, t), t..k)
  <2> DEFINE S1 == 1..(t - 1)
             S2 == t..k
  <2>1. Natural(HoursAt(h, t), S1) /\ Natural(HoursAt(h, t), S2)
    BY <1>6
  <2>2. S1 \cap S2 = {} /\ 1..k = S1 \cup S2
    BY <1>5
  <2> HIDE DEF S1, S2
  <2>3. Sum(HoursAt(h, t), S1 \cup S2)
          = Sum(HoursAt(h, t), S1) + Sum(HoursAt(h, t), S2)
    BY <2>1, <2>2, SumUnion
  <2> QED
    BY <2>2, <2>3 DEF S1, S2
<1>8. Sum(HoursAt(h, t), t..k) = Sum(h.hrs, T)
  <2>1. Natural(h.hrs, T)
    <3>1. (t - k) + n \in Nat \ {0} /\ n \in 0..n
      BY <1>1
    <3> QED
      BY <3>1, SpanIs
  <2>2. SameUnder(b, HoursAt(h, t), h.hrs, t..k)
    <3> SUFFICES ASSUME NEW m \in t..k PROVE HoursAt(h, t)[m] = h.hrs[b[m]]
      BY DEF SameUnder
    <3>1. m \in t..Len(h.hrs) /\ m \in 1..n
      BY <1>1
    <3>2. Back(h, t, m) = (t - m) + n
      BY <3>1, BackWraps
    <3> QED
      BY <1>2, <3>1, <3>2
  <2>3. {b[m] : m \in t..k} = T
    <3>1. ASSUME NEW m \in t..k PROVE b[m] \in T
      <4> HIDE DEF n
      <4> QED
        BY <1>1
    <3>2. ASSUME NEW x \in T PROVE \E m \in t..k : b[m] = x
      <4>1. (t + n) - x \in t..k /\ (t - ((t + n) - x)) + n = x
        <5> HIDE DEF n
        <5> QED
          BY <1>1
      <4> QED
        BY <4>1
    <3> HIDE DEF b, T
    <3> QED
      BY <3>1, <3>2
  <2>4. \A m, q \in t..k : b[m] = b[q] => m = q
    <3> HIDE DEF n
    <3> QED
      BY <1>1
  <2> HIDE DEF b, T
  <2>5. Relabels(b, t..k, T)
    BY <2>3, <2>4 DEF Relabels
  <2> QED
    BY <1>6, <2>1, <2>2, <2>5, SumReindexed
<1> QED
  BY <1>3, <1>4, <1>7, <1>8

(* From any timepoint of a window forward to any nearer one it is no       *)
(* further than the window has come.                                       *)
LEMMA LaterWithin ==
  ASSUME NEW h, Hours(h), Positive(h), NEW t \in Tmps(h),
         NEW k \in 0..Reach(h, t), NEW m \in 0..k
  PROVE  /\ Later(h, Back(h, t, k), Back(h, t, m)) \in Nat /\ HoursBack(h, t, k) \in Nat
         /\ Later(h, Back(h, t, k), Back(h, t, m)) <= HoursBack(h, t, k)
<1> DEFINE n == Len(h.hrs)
           i == Back(h, t, k)
           p == Back(h, t, m)
<1>1. /\ n \in Nat \ {0} /\ t \in 1..n /\ k \in Nat /\ m \in Nat /\ m <= k /\ k <= n
      /\ Tmps(h) = 1..n
  BY TmpsAre, ReachIs
<1>2. i \in Tmps(h) /\ p \in Tmps(h) /\ i \in 1..n /\ p \in 1..n
  BY <1>1, BackIs
<1>3. /\ k < t => i = t - k
      /\ m < t => p = t - m
  BY <1>1, BackIs
<1>4. /\ k >= t => i = (t - k) + n
      /\ m >= t => p = (t - m) + n
  <2>1. ASSUME NEW q \in Nat, q <= n, q >= t PROVE Back(h, t, q) = (t - q) + n
    <3>1. q \in t..Len(h.hrs)
      BY <1>1, <2>1
    <3> QED
      BY <3>1, BackWraps
  <2> QED
    BY <1>1, <2>1
<1> HIDE DEF i, p, n
<1>5. CASE k < t
  <2>1. i <= p /\ p - 1 \in (i - 1)..(t - 1) /\ t - 1 \in 0..n /\ i \in Nat \ {0}
    BY <1>1, <1>3, <1>5
  <2>2. Later(h, i, p) = Sum(h.hrs, i..(p - 1))
    BY <1>2, <2>1, LaterIs
  <2>3. HoursBack(h, t, k) = Sum(h.hrs, i..(t - 1))
    <3>1. k \in 0..(t - 1) /\ t - k = i
      BY <1>1, <1>3, <1>5
    <3> QED
      BY <3>1, HoursBackInOrder
  <2>4. /\ Sum(h.hrs, i..(p - 1)) \in Nat /\ Sum(h.hrs, i..(t - 1)) \in Nat
        /\ Sum(h.hrs, i..(p - 1)) <= Sum(h.hrs, i..(t - 1))
    BY <2>1, SpanWithin DEF n
  <2> QED
    BY <2>2, <2>3, <2>4 DEF i, p
<1>6. CASE k >= t
  <2>1. h.boundary = "circular"
    BY <1>1, <1>6 DEF Reach
  <2>2. HoursBack(h, t, k) = Sum(h.hrs, 1..(t - 1)) + Sum(h.hrs, i..n)
    <3>1. k \in t..Len(h.hrs)
      BY <1>1, <1>6 DEF n
    <3> QED
      BY <1>4, <1>6, <2>1, <3>1, HoursBackRound DEF n
  <2>3. Sum(h.hrs, 1..(t - 1)) \in Nat /\ Sum(h.hrs, i..n) \in Nat
    <3>1. t - 1 \in 0..n /\ n \in 0..n /\ i \in Nat \ {0} /\ 1 \in Nat \ {0}
      BY <1>1, <1>2
    <3> QED
      BY <3>1, SpanIs DEF n
  <2>4. CASE i <= p
    <3>1. p - 1 \in (i - 1)..n /\ n \in 0..n /\ i \in Nat \ {0}
      BY <1>1, <1>2, <2>4
    <3>2. /\ Sum(h.hrs, i..(p - 1)) \in Nat
          /\ Sum(h.hrs, i..(p - 1)) <= Sum(h.hrs, i..n)
      BY <3>1, SpanWithin DEF n
    <3>3. Later(h, i, p) = Sum(h.hrs, i..(p - 1))
      BY <1>2, <2>4, LaterIs
    <3> QED
      BY <2>2, <2>3, <3>2, <3>3 DEF i, p
  <2>5. CASE i > p
    <3>1. m < t
      BY <1>1, <1>4, <1>6, <2>5
    <3>2. p - 1 \in (1 - 1)..(t - 1) /\ t - 1 \in 0..n /\ 1 \in Nat \ {0}
      BY <1>1, <1>2, <1>3, <3>1
    <3>3. /\ Sum(h.hrs, 1..(p - 1)) \in Nat
          /\ Sum(h.hrs, 1..(p - 1)) <= Sum(h.hrs, 1..(t - 1))
      BY <3>2, SpanWithin DEF n
    <3>4. Later(h, i, p) = Sum(h.hrs, 1..(p - 1)) + Sum(h.hrs, i..n)
      BY <1>2, <2>1, <2>5, LaterIs DEF n
    <3> QED
      BY <2>2, <2>3, <3>3, <3>4 DEF i, p
  <2> QED
    BY <1>2, <2>4, <2>5
<1> QED
  BY <1>1, <1>5, <1>6

(* Another timepoint that comes before is at some step of the window.      *)
LEMMA LaterInWindow ==
  ASSUME NEW h, Hours(h), Positive(h), NEW i \in Tmps(h), NEW j \in Tmps(h), i # j,
         Later(h, i, j) >= 0
  PROVE  \E k \in 1..Reach(h, j) : /\ Back(h, j, k) = i
                                   /\ HoursBack(h, j, k) = Later(h, i, j)
<1> DEFINE n == Len(h.hrs)
<1>1. /\ n \in Nat \ {0} /\ i \in 1..n /\ j \in 1..n /\ Reach(h, j) \in Nat
      /\ j - 1 <= Reach(h, j)
  BY TmpsAre, ReachIs
<1>2. CASE i < j
  <2> DEFINE k == j - i
  <2>1. k \in 1..Reach(h, j) /\ k \in 0..(j - 1) /\ j - k = i /\ k < j /\ k \in Nat
    BY <1>1, <1>2
  <2> HIDE DEF k
  <2>2. Back(h, j, k) = i
    BY <2>1, BackIs
  <2>3. HoursBack(h, j, k) = Sum(h.hrs, i..(j - 1))
    BY <2>1, HoursBackInOrder
  <2>4. Later(h, i, j) = Sum(h.hrs, i..(j - 1))
    BY <1>1, <1>2, LaterIs
  <2> QED
    BY <2>1, <2>2, <2>3, <2>4
<1>3. CASE i > j
  <2>1. h.boundary = "circular"
    <3> SUFFICES ASSUME h.boundary # "circular" PROVE FALSE
      OBVIOUS
    <3>1. Later(h, i, j) = -Sum(h.hrs, j..(i - 1))
      BY <1>3, LaterIs
    <3>2. j \in Nat \ {0} /\ i - 1 \in j..n /\ i - 1 \in 0..n
      BY <1>1, <1>3
    <3>3. Sum(h.hrs, j..(i - 1)) > 0 /\ Sum(h.hrs, j..(i - 1)) \in Nat
      BY <3>2, SpanPositive, SpanIs
    <3> QED
      BY <3>1, <3>3
  <2> DEFINE k == (j - i) + n
  <2>2. k \in 1..n /\ k \in j..n /\ (j - k) + n = i /\ k \in Nat
    BY <1>1, <1>3
  <2> HIDE DEF k
  <2>3. Reach(h, j) = n
    BY <2>1 DEF Reach
  <2>4. Back(h, j, k) = i
    BY <2>2, BackWraps
  <2>5. HoursBack(h, j, k) = Sum(h.hrs, 1..(j - 1)) + Sum(h.hrs, i..n)
    BY <2>1, <2>2, HoursBackRound
  <2>6. Later(h, i, j) = Sum(h.hrs, 1..(j - 1)) + Sum(h.hrs, i..n)
    BY <1>3, <2>1, LaterIs
  <2> QED
    BY <2>2, <2>3, <2>4, <2>5, <2>6
<1> QED
  BY <1>1, <1>2, <1>3

------------------------------------------------------------------------------
(* Events and the status they lead to.                                     *)

(* Flags of which none is set add up to nothing.                           *)
LEMMA SumNothing ==
  ASSUME NEW f, NEW S, Natural(f, S), \A x \in S : f[x] = 0
  PROVE  Sum(f, S) = 0
<1> DEFINE Bad == {s \in SUBSET S : Sum(f, s) # 0}
<1>1. ASSUME Bad # {} PROVE FALSE
  <2>1. \A s \in Bad : IsFiniteSet(s)
    BY FS_Subset DEF Natural
  <2>2. PICK s \in Bad : \A r \in Bad : Cardinality(s) <= Cardinality(r)
    <3> HIDE DEF Bad
    <3> QED
      BY <1>1, <2>1, SmallestSet
  <2>3. s \in SUBSET S /\ IsFiniteSet(s) /\ Sum(f, s) # 0 /\ Natural(f, s)
    BY <2>1, NaturalSubset
  <2>4. PICK y \in s : TRUE
    BY <2>3, SumEmpty
  <2>5. s \ {y} \notin Bad
    <3>1. Cardinality(s) \in Nat /\ Cardinality(s \ {y}) = Cardinality(s) - 1
      BY <2>3, FS_RemoveElement, FS_CardinalityType
    <3> HIDE DEF Bad
    <3> QED
      BY <2>2, <3>1
  <2>6. Sum(f, s \ {y}) = 0 /\ f[y] = 0
    BY <2>3, <2>5
  <2> QED
    BY <2>3, <2>6, SumRest
<1> QED
  BY <1>1

(* Flags of which no two are set add up to one at most.                    *)
LEMMA SumAtMostOne ==
  ASSUME NEW f, NEW S, Natural(f, S), \A x \in S : f[x] \in 0..1,
         \A x, y \in S : x # y => f[x] = 0 \/ f[y] = 0
  PROVE  Sum(f, S) \in 0..1
<1>1. CASE \A x \in S : f[x] = 0
  BY <1>1, SumNothing
<1>2. CASE ~(\A x \in S : f[x] = 0)
  <2>1. PICK x \in S : f[x] # 0
    BY <1>2
  <2>2. \A y \in S \ {x} : f[y] = 0
    BY <2>1
  <2>3. Natural(f, S \ {x})
    BY NaturalSubset
  <2>4. Sum(f, S \ {x}) = 0
    BY <2>2, <2>3, SumNothing
  <2> QED
    BY <2>4, SumRest
<1> QED
  BY <1>1, <1>2

(* No event in a window adds up to nothing, no two events to one at most.  *)
LEMMA EventsAtMost ==
  ASSUME NEW h, Hours(h), NEW t \in Tmps(h), NEW minTime \in Nat,
         NEW event, \A i \in Tmps(h) : event[i] \in 0..1,
         NEW lnk, NEW name, LinkedEvents(lnk, name),
         \A l \in DOMAIN lnk : lnk[l][name] \in 0..1
  PROVE  LET all == EventsIn(h, t, minTime, event, lnk, name)
             ks  == {0} \cup Steps(h, t, minTime)
             ls  == RelevantLinked(h, lnk, t, minTime)
         IN  /\ /\ \A k \in ks : event[Back(h, t, k)] = 0
                /\ \A l \in ls : lnk[l][name] = 0
                => all = 0
             /\ /\ \A k, m \in ks :
                     k # m => event[Back(h, t, k)] = 0 \/ event[Back(h, t, m)] = 0
                /\ \A l, m \in ls : l # m => lnk[l][name] = 0 \/ lnk[m][name] = 0
                /\ \A k \in ks, l \in ls :
                     event[Back(h, t, k)] = 0 \/ lnk[l][name] = 0
                => all \in 0..1
<1> DEFINE all == EventsIn(h, t, minTime, event, lnk, name)
           ks == {0} \cup Steps(h, t, minTime)
           ls == RelevantLinked(h, lnk, t, minTime)
           ev(k) == event[Back(h, t, k)]
<1>1. \A i \in Tmps(h) : event[i] \in Nat
  OBVIOUS
<1>2. PICK n \in Nat : \E w, v : Splits(h, t, minTime, event, lnk, name, n, w, v)
  BY <1>1, EventsAreSums
<1>3. PICK w, v : Splits(h, t, minTime, event, lnk, name, n, w, v)
  BY <1>2
<1>4. /\ ks = 0..n
      /\ Natural(w, 1..(n + 1)) /\ \A k \in ks : w[k + 1] = ev(k)
      /\ Natural(v, ls) /\ \A l \in ls : v[l] = lnk[l][name]
      /\ all = Sum(w, 1..(n + 1)) + Sum(v, ls)
  BY <1>3 DEF Splits
<1>5. \A i \in 1..(n + 1) : i - 1 \in ks /\ w[i] = ev(i - 1) /\ w[i] \in 0..1
  <2> SUFFICES ASSUME NEW i \in 1..(n + 1)
               PROVE  i - 1 \in ks /\ w[i] = ev(i - 1) /\ w[i] \in 0..1
    OBVIOUS
  <2>1. i - 1 \in 0..n /\ i - 1 \in Nat /\ (i - 1) + 1 = i
    OBVIOUS
  <2>2. ev(i - 1) \in 0..1
    BY <2>1, BackIs
  <2> HIDE DEF ev, ks
  <2> QED
    BY <1>4, <2>1, <2>2
<1>6. \A l \in ls : v[l] = lnk[l][name] /\ v[l] \in 0..1
  BY <1>4 DEF RelevantLinked
<1>7. ASSUME \A k \in ks : ev(k) = 0, \A l \in ls : lnk[l][name] = 0
      PROVE  all = 0
  <2>1. \A i \in 1..(n + 1) : w[i] = 0
    BY <1>5, <1>7
  <2>2. \A l \in ls : v[l] = 0
    BY <1>6, <1>7
  <2>3. Sum(w, 1..(n + 1)) = 0 /\ Sum(v, ls) = 0
    BY <1>4, <2>1, <2>2, SumNothing
  <2> QED
    BY <1>4, <2>3
<1>8. ASSUME \A k, m \in ks : k # m => ev(k) = 0 \/ ev(m) = 0,
             \A l, m \in ls : l # m => lnk[l][name] = 0 \/ lnk[m][name] = 0,
             \A k \in ks, l \in ls : ev(k) = 0 \/ lnk[l][name] = 0
      PROVE  all \in 0..1
  <2>1. \A i, j \in 1..(n + 1) : i # j => w[i] = 0 \/ w[j] = 0
    <3> SUFFICES ASSUME NEW i \in 1..(n + 1), NEW j \in 1..(n + 1), i # j
                 PROVE  w[i] = 0 \/ w[j] = 0
      OBVIOUS
    <3>1. i - 1 \in ks /\ j - 1 \in ks /\ i - 1 # j - 1
      BY <1>5
    <3> HIDE DEF ev, ks
    <3> QED
      BY <1>5, <1>8, <3>1
  <2>2. \A l, m \in ls : l # m => v[l] = 0 \/ v[m] = 0
    BY <1>6, <1>8
  <2>3. Sum(w, 1..(n + 1)) \in 0..1 /\ Sum(v, ls) \in 0..1
    <3> HIDE DEF ls
    <3> QED
      BY <1>4, <1>5, <1>6, <2>1, <2>2, SumAtMostOne
  <2>4. CASE \A k \in ks : ev(k) = 0
    <3>1. \A i \in 1..(n + 1) : w[i] = 0
      BY <1>5, <2>4
    <3>2. Sum(w, 1..(n + 1)) = 0
      BY <1>4, <3>1, SumNothing
    <3> QED
      BY <1>4, <2>3, <3>2
  <2>5. CASE ~(\A k \in ks : ev(k) = 0)
    <3>1. \A l \in ls : v[l] = 0
      BY <1>6, <1>8, <2>5
    <3>2. Sum(v, ls) = 0
      BY <1>4, <3>1, SumNothing
    <3> QED
      BY <1>4, <2>3, <3>2
  <2> QED
    BY <2>4, <2>5
<1> QED
  BY <1>7, <1>8

(* One step back from k steps back is k + 1 steps back.                    *)
LEMMA BackOnce ==
  ASSUME NEW h, Hours(h), NEW t \in Tmps(h), NEW k \in Nat, k + 1 <= Reach(h, t)
  PROVE  Back(h, Back(h, t, k), 1) = Back(h, t, k + 1)
<1> DEFINE n == Len(h.hrs)
<1>1. n \in Nat \ {0} /\ t \in 1..n /\ Tmps(h) = 1..n
  BY TmpsAre
<1>2. h.boundary = "circular" \/ k + 1 <= t - 1
  BY DEF Reach
<1>3. h.boundary = "circular" => k + 1 <= n
  BY DEF Reach
<1> HIDE DEF n
<1>4. CASE k + 1 <= t - 1
  <2>1. k < t /\ k + 1 < t /\ k + 1 \in Nat /\ 1 \in Nat /\ 1 < t - k /\ t - k \in Tmps(h)
        /\ (t - k) - 1 = t - (k + 1)
    BY <1>1, <1>4
  <2>2. Back(h, t, k) = t - k /\ Back(h, t, k + 1) = t - (k + 1)
    BY <2>1, BackIs
  <2>3. Back(h, t - k, 1) = (t - k) - 1
    BY <2>1, BackIs
  <2> QED
    BY <2>1, <2>2, <2>3
<1>5. CASE k + 1 = t
  <2>1. /\ k < t /\ t - k = 1 /\ k + 1 \in t..n /\ 1 \in 1..n /\ 1 \in Tmps(h)
        /\ (t - (k + 1)) + n = n /\ (1 - 1) + n = n
    BY <1>1, <1>2, <1>3, <1>5
  <2>2. Back(h, t, k) = 1
    BY <2>1, BackIs
  <2>3. Back(h, t, k + 1) = n
    BY <2>1, BackWraps DEF n
  <2>4. Back(h, 1, 1) = n
    BY <2>1, BackWraps DEF n
  <2> QED
    BY <2>2, <2>3, <2>4
<1>6. CASE k >= t
  <2>1. /\ k \in t..n /\ k + 1 \in t..n /\ (t - k) + n \in Tmps(h) /\ 1 < (t - k) + n
        /\ 1 \in Nat /\ ((t - k) + n) - 1 = (t - (k + 1)) + n
    BY <1>1, <1>2, <1>3, <1>6
  <2>2. Back(h, t, k) = (t - k) + n /\ Back(h, t, k + 1) = (t - (k + 1)) + n
    BY <2>1, BackWraps DEF n
  <2>3. Back(h, (t - k) + n, 1) = ((t - k) + n) - 1
    BY <2>1, BackIs
  <2> QED
    BY <2>1, <2>2, <2>3
<1> QED
  BY <1>1, <1>4, <1>5, <1>6

(* Events as changes of x from 0 to 1, with q before a linked horizon, and *)
(* what it means, in hours on the clock, to keep x after them.             *)
Before(h, x, q, t) == IF FirstOf(h, t, "linked") THEN q ELSE x[Back(h, t, 1)]
Turns(h, x, q, event) ==
  \A t \in Tmps(h) :
    /\ x[t] \in 0..1 /\ event[t] \in 0..1
    /\ event[t] = 1 <=> /\ x[t] = 1 /\ ~FirstOf(h, t, "linear")
                        /\ Before(h, x, q, t) = 0
KeptLater(h, x, event, minTime) ==
  \A i, j \in Tmps(h) :
    event[i] = 1 /\ Later(h, i, j) \in 0..(minTime - 1) => x[j] = 1
KeptLinked(h, lnk, x, minTime, name) ==
  h.boundary = "linked" =>
    \A l \in DOMAIN lnk, j \in Tmps(h) :
      lnk[l][name] = 1 /\ SinceLinked(h, lnk, l, j) < minTime => x[j] = 1

(* What was handed over keeps to it as well.                               *)
HeldOver(h, lnk, q, minTime, name) ==
  /\ \A l \in DOMAIN lnk : lnk[l][name] \in 0..1
  /\ h.boundary = "linked" =>
       /\ \A l, m \in DOMAIN lnk : l < m /\ LinkedHours(lnk, m) < minTime
            => lnk[l][name] = 0 \/ lnk[m][name] = 0
       /\ \A l \in DOMAIN lnk : lnk[l][name] = 1 /\ LinkedHours(lnk, l) < minTime
            => q = 1

(* From an event in a window its status is kept through to the end.        *)
LEMMA EventReaches ==
  ASSUME NEW h, Hours(h), Positive(h), NEW minTime \in Nat, NEW x, NEW q, NEW event,
         Turns(h, x, q, event), KeptLater(h, x, event, minTime),
         NEW t \in Tmps(h), NEW k \in {0} \cup Steps(h, t, minTime),
         NEW m \in 0..k, event[Back(h, t, k)] = 1
  PROVE  x[Back(h, t, m)] = 1
<1>1. k \in Nat /\ k \in 0..Reach(h, t) /\ m \in Nat
  BY HoursAtType DEF Steps
<1>2. Back(h, t, k) \in Tmps(h) /\ Back(h, t, m) \in Tmps(h)
  BY <1>1, BackIs
<1>3. CASE k = 0
  <2>1. m = k
    BY <1>3
  <2> QED
    BY <1>2, <2>1 DEF Turns
<1>4. CASE k # 0
  <2>1. HoursBack(h, t, k) < minTime
    BY <1>4 DEF Steps
  <2>2. /\ Later(h, Back(h, t, k), Back(h, t, m)) \in Nat /\ HoursBack(h, t, k) \in Nat
        /\ Later(h, Back(h, t, k), Back(h, t, m)) <= HoursBack(h, t, k)
    BY <1>1, LaterWithin
  <2>3. Later(h, Back(h, t, k), Back(h, t, m)) \in 0..(minTime - 1)
    BY <2>1, <2>2
  <2> QED
    BY <1>2, <2>3 DEF KeptLater
<1> QED
  BY <1>3, <1>4

(* The hours since a linked timepoint, on the clock and in the window.     *)
LEMMA SinceIs ==
  ASSUME NEW h, Hours(h), NEW lnk \in Seq(Instants), NEW l \in DOMAIN lnk,
         NEW t \in Tmps(h)
  PROVE  /\ SinceLinked(h, lnk, l, t) = HoursToLinked(h, lnk, t, l)
         /\ HoursToLinked(h, lnk, t, l) \in Nat /\ LinkedHours(lnk, l) \in Nat
         /\ \A j \in 1..t : LinkedHours(lnk, l) <= SinceLinked(h, lnk, l, j)
              /\ SinceLinked(h, lnk, l, j) <= SinceLinked(h, lnk, l, t)
<1> DEFINE n == Len(h.hrs)
<1>1. n \in Nat \ {0} /\ t \in 1..n /\ Tmps(h) = 1..n
  BY TmpsAre
<1>2. LinkedHours(lnk, l) \in Nat
  <2>1. l \in 1..l
    OBVIOUS
  <2> QED
    BY <2>1, LinkedHoursGrow
<1>3. ASSUME NEW j \in 1..t
      PROVE  /\ Clock(h.hrs, j) \in Nat /\ Clock(h.hrs, t) \in Nat
             /\ Clock(h.hrs, j) <= Clock(h.hrs, t)
  <2>1. /\ j \in 1..(n + 1) /\ t \in 1..(n + 1) /\ t - 1 \in 0..n /\ 1 \in Nat \ {0}
        /\ j - 1 \in (1 - 1)..(t - 1)
    BY <1>1
  <2>2. /\ Clock(h.hrs, j) = Sum(h.hrs, 1..(j - 1)) /\ Clock(h.hrs, j) \in Nat
        /\ Clock(h.hrs, t) = Sum(h.hrs, 1..(t - 1)) /\ Clock(h.hrs, t) \in Nat
    BY <2>1, ClockIs
  <2>3. Sum(h.hrs, 1..(j - 1)) <= Sum(h.hrs, 1..(t - 1))
    BY <2>1, SpanWithin
  <2> QED
    BY <2>2, <2>3
<1>4. HoursBack(h, t, t - 1) = Clock(h.hrs, t)
  <2>1. t - 1 \in 0..(t - 1) /\ t - (t - 1) = 1 /\ t \in 1..(n + 1)
    BY <1>1
  <2> QED
    BY <2>1, HoursBackInOrder, ClockIs
<1>5. /\ SinceLinked(h, lnk, l, t) = Clock(h.hrs, t) + LinkedHours(lnk, l)
      /\ HoursToLinked(h, lnk, t, l) = Clock(h.hrs, t) + LinkedHours(lnk, l)
  BY <1>4 DEF SinceLinked, HoursToLinked
<1>6. t \in 1..t
  BY <1>1
<1>7. ASSUME NEW j \in 1..t
      PROVE  /\ LinkedHours(lnk, l) <= SinceLinked(h, lnk, l, j)
             /\ SinceLinked(h, lnk, l, j) <= SinceLinked(h, lnk, l, t)
  BY <1>2, <1>3, <1>5 DEF SinceLinked
<1> QED
  BY <1>2, <1>3, <1>5, <1>6, <1>7

(* A status that is kept after its events fits into every window: a second *)
(* event in one would find the status there already.                       *)
LEMMA KeptFits ==
  ASSUME NEW h, Hours(h), Positive(h), NEW minTime \in Nat, NEW x, NEW q, NEW event,
         NEW lnk \in Seq(Instants), NEW name, LinkedEvents(lnk, name),
         Turns(h, x, q, event), KeptLater(h, x, event, minTime),
         KeptLinked(h, lnk, x, minTime, name), HeldOver(h, lnk, q, minTime, name),
         NEW t \in Tmps(h)
  PROVE  x[t] >= EventsIn(h, t, minTime, event, lnk, name)
<1> DEFINE all == EventsIn(h, t, minTime, event, lnk, name)
           ks == {0} \cup Steps(h, t, minTime)
           ls == RelevantLinked(h, lnk, t, minTime)
           ev(k) == event[Back(h, t, k)]
<1>1. /\ \A i \in Tmps(h) : x[i] \in 0..1 /\ event[i] \in 0..1
      /\ \A l \in DOMAIN lnk : lnk[l][name] \in 0..1
  BY DEF Turns, HeldOver
<1>2. \A k \in ks : /\ k \in Nat /\ k <= Reach(h, t) /\ Back(h, t, k) \in Tmps(h)
                    /\ ev(k) \in 0..1
  <2> SUFFICES ASSUME NEW k \in ks
               PROVE  /\ k \in Nat /\ k <= Reach(h, t) /\ Back(h, t, k) \in Tmps(h)
                      /\ ev(k) \in 0..1
    OBVIOUS
  <2>1. k \in Nat /\ k <= Reach(h, t)
    BY HoursAtType DEF Steps
  <2> QED
    BY <1>1, <2>1, BackIs
<1>3. \A l \in ls : /\ l \in DOMAIN lnk /\ h.boundary = "linked"
                    /\ HoursToLinked(h, lnk, t, l) < minTime
                    /\ lnk[l][name] \in 0..1
  BY <1>1 DEF RelevantLinked
<1>4. t \in 1..t /\ t \in Nat \ {0} /\ 1..t \subseteq Tmps(h) /\ Back(h, t, 0) = t
  <2>1. t \in Nat \ {0} /\ 1..t \subseteq Tmps(h)
    BY TmpsAre
  <2>2. 0 \in Nat /\ 0 < t /\ t - 0 = t
    BY <2>1
  <2> QED
    BY <2>1, <2>2, BackIs
<1>5. ASSUME NEW k \in ks, ev(k) = 1 PROVE x[t] = 1
  <2>1. 0 \in 0..k
    BY <1>2
  <2> QED
    BY <1>4, <1>5, <2>1, EventReaches
<1>6. ASSUME NEW l \in ls, lnk[l][name] = 1, NEW j \in 1..t PROVE x[j] = 1
  <2>1. /\ SinceLinked(h, lnk, l, t) = HoursToLinked(h, lnk, t, l)
        /\ HoursToLinked(h, lnk, t, l) \in Nat
        /\ SinceLinked(h, lnk, l, j) <= SinceLinked(h, lnk, l, t)
    BY <1>3, SinceIs
  <2>2. j \in 1..j /\ j \in Tmps(h)
    BY <1>4
  <2>3. SinceLinked(h, lnk, l, j) \in Nat
    BY <1>3, <2>2, SinceIs
  <2>4. SinceLinked(h, lnk, l, j) < minTime
    BY <1>3, <2>1, <2>3
  <2> QED
    BY <1>3, <1>6, <2>2, <2>4 DEF KeptLinked
<1>7. ASSUME NEW k \in ks, NEW m \in ks, k < m, ev(k) = 1 PROVE ev(m) = 0
  <2> SUFFICES ASSUME ev(m) = 1 PROVE FALSE
    BY <1>2
  <2>1. k + 1 \in 0..m /\ k + 1 <= Reach(h, t)
    BY <1>2, <1>7, HoursAtType
  <2>2. x[Back(h, t, k + 1)] = 1
    BY <2>1, EventReaches
  <2>3. Back(h, Back(h, t, k), 1) = Back(h, t, k + 1)
    BY <1>2, <2>1, BackOnce
  <2>4. Before(h, x, q, Back(h, t, k)) = 0
    BY <1>2, <1>7 DEF Turns
  <2>5. FirstOf(h, Back(h, t, k), "linked")
    BY <2>2, <2>3, <2>4 DEF Before
  <2>6. h.boundary = "linked" /\ Back(h, t, k) = 1 /\ Reach(h, t) = t - 1
    BY <2>5 DEF FirstOf, Reach
  <2>7. k < t => Back(h, t, k) = t - k
    BY <1>2, BackIs
  <2> QED
    BY <1>2, <1>4, <2>1, <2>6, <2>7
<1>8. ASSUME NEW l \in ls, NEW m \in ls, l < m, lnk[l][name] = 1 PROVE lnk[m][name] = 0
  <2>1. LinkedHours(lnk, m) < minTime
    <3>1. LinkedHours(lnk, m) \in Nat /\ HoursToLinked(h, lnk, t, m) \in Nat
          /\ LinkedHours(lnk, m) <= HoursToLinked(h, lnk, t, m)
      BY <1>3, <1>4, SinceIs
    <3> QED
      BY <1>3, <3>1
  <2> QED
    BY <1>3, <1>8, <2>1 DEF HeldOver
<1>9. ASSUME NEW k \in ks, NEW l \in ls, lnk[l][name] = 1 PROVE ev(k) = 0
  <2> SUFFICES ASSUME ev(k) = 1 PROVE FALSE
    BY <1>2
  <2> DEFINE i == Back(h, t, k)
  <2>1. h.boundary = "linked" /\ Reach(h, t) = t - 1
    BY <1>3 DEF Reach
  <2>2. k \in Nat /\ k < t
    BY <1>2, <1>4, <2>1
  <2>3. i = t - k /\ i \in 1..t
    BY <1>4, <2>2, BackIs
  <2>4. Before(h, x, q, i) = 0
    BY <1>2 DEF Turns
  <2>5. CASE i = 1
    <3>1. FirstOf(h, i, "linked")
      BY <2>1, <2>5 DEF FirstOf
    <3>2. LinkedHours(lnk, l) < minTime
      <4>1. LinkedHours(lnk, l) \in Nat /\ HoursToLinked(h, lnk, t, l) \in Nat
            /\ LinkedHours(lnk, l) <= HoursToLinked(h, lnk, t, l)
        BY <1>3, <1>4, SinceIs
      <4> QED
        BY <1>3, <4>1
    <3>3. q = 1
      BY <1>3, <1>9, <3>2 DEF HeldOver
    <3> QED
      BY <2>4, <3>1, <3>3 DEF Before
  <2>6. CASE i # 1
    <3>1. i - 1 \in 1..t /\ 1 < i /\ 1 \in Nat /\ i \in Tmps(h)
      BY <1>4, <2>3, <2>6
    <3>2. ~FirstOf(h, i, "linked")
      BY <2>6 DEF FirstOf
    <3> HIDE DEF i
    <3>3. Back(h, i, 1) = i - 1
      BY <3>1, BackIs
    <3>4. x[i - 1] = 1
      BY <1>6, <1>9, <3>1
    <3> QED
      BY <2>4, <3>2, <3>3, <3>4 DEF Before
  <2> QED
    BY <2>5, <2>6
<1>10. /\ \A k, m \in ks : k # m => ev(k) = 0 \/ ev(m) = 0
       /\ \A l, m \in ls : l # m => lnk[l][name] = 0 \/ lnk[m][name] = 0
       /\ \A k \in ks, l \in ls : ev(k) = 0 \/ lnk[l][name] = 0
  <2>1. ASSUME NEW k \in ks, NEW m \in ks, k # m PROVE ev(k) = 0 \/ ev(m) = 0
    <3>1. k < m \/ m < k
      BY <1>2, <2>1
    <3>2. ev(k) \in 0..1 /\ ev(m) \in 0..1
      BY <1>2
    <3> HIDE DEF ev, ks
    <3> QED
      BY <1>7, <3>1, <3>2
  <2>2. ASSUME NEW l \in ls, NEW m \in ls, l # m
        PROVE  lnk[l][name] = 0 \/ lnk[m][name] = 0
    <3>1. l \in Nat /\ m \in Nat
      BY <1>3
    <3>2. l < m \/ m < l
      BY <2>2, <3>1
    <3> HIDE DEF ls
    <3> QED
      BY <1>3, <1>8, <3>2
  <2>3. \A k \in ks, l \in ls : ev(k) = 0 \/ lnk[l][name] = 0
    <3> HIDE DEF ev, ks, ls
    <3> QED
      BY <1>3, <1>9
  <2> QED
    BY <2>1, <2>2, <2>3
<1>11. all \in 0..1
  BY <1>1, <1>10, EventsAtMost
<1>12. CASE x[t] = 1
  BY <1>11, <1>12
<1>13. CASE x[t] # 1
  <2>1. \A k \in ks : ev(k) = 0
    <3> HIDE DEF ev, ks
    <3> QED
      BY <1>2, <1>5, <1>13
  <2>2. \A l \in ls : lnk[l][name] = 0
    <3> HIDE DEF ls
    <3> QED
      BY <1>3, <1>4, <1>6, <1>13
  <2>3. all = 0
    BY <1>1, <2>1, <2>2, EventsAtMost
  <2> QED
    BY <1>1, <2>3
<1> QED
  BY <1>12, <1>13

(* And a status that fits into the windows is kept, those windows aside    *)
(* that are left to later ones.                                            *)
LEMMA FitsKept ==
  ASSUME NEW h, Hours(h), Positive(h), NEW minTime \in Nat, NEW x, NEW event,
         NEW lnk \in Seq(Instants), NEW name, LinkedEvents(lnk, name),
         Keeping(h, lnk, x, event, minTime, name)
  PROVE  /\ KeptLater(h, x, event, minTime)
         /\ KeptLinked(h, lnk, x, minTime, name)
<1>1. ASSUME NEW i \in Tmps(h), NEW j \in Tmps(h), event[i] = 1,
             Later(h, i, j) \in 0..(minTime - 1)
      PROVE  x[j] = 1
  <2>1. \A k \in Tmps(h) : event[k] \in Nat
    BY DEF Keeping
  <2>2. j \in Nat \ {0} /\ i \in Nat \ {0} /\ Later(h, i, j) >= 0
        /\ Later(h, i, j) < minTime
    BY <1>1, TmpsAre
  <2>3. CASE i = j
    <3>1. i \in 1..j /\ Held(i, j, h.hrs, minTime)
      BY <2>2, <2>3 DEF Held
    <3> QED
      BY <1>1, <3>1, EventsHold
  <2>4. CASE i # j /\ ~LeftToLater(h, j, minTime)
    <3>1. PICK k \in 1..Reach(h, j) : /\ Back(h, j, k) = i
                                      /\ HoursBack(h, j, k) = Later(h, i, j)
      BY <2>2, <2>4, LaterInWindow
    <3>2. k \in {0} \cup Steps(h, j, minTime)
      BY <2>2, <3>1 DEF Steps
    <3>3. /\ EventsIn(h, j, minTime, event, lnk, name) \in Nat
          /\ EventsIn(h, j, minTime, event, lnk, name) >= event[Back(h, j, k)]
      BY <2>1, <3>2, EventsAtLeast
    <3>4. x[j] >= EventsIn(h, j, minTime, event, lnk, name) /\ x[j] \in 0..1
      BY <2>4 DEF Keeping
    <3> QED
      BY <1>1, <3>1, <3>3, <3>4
  <2>5. CASE i # j /\ LeftToLater(h, j, minTime)
    <3>1. h.boundary = "linear"
      BY <2>5, OnlyLeftEarly
    <3>2. i < j
      <4> SUFFICES ASSUME i > j PROVE FALSE
        BY <2>2, <2>5
      <4>1. Later(h, i, j) = -Sum(h.hrs, j..(i - 1))
        BY <3>1, LaterIs
      <4>2. i - 1 \in j..Len(h.hrs) /\ i - 1 \in 0..Len(h.hrs)
        BY <2>2, TmpsAre
      <4>3. Sum(h.hrs, j..(i - 1)) > 0 /\ Sum(h.hrs, j..(i - 1)) \in Nat
        BY <2>2, <4>2, SpanPositive, SpanIs
      <4> QED
        BY <2>2, <4>1, <4>3
    <3>3. Later(h, i, j) = Sum(h.hrs, i..(j - 1))
      BY <2>2, <3>2, LaterIs
    <3>4. i \in 1..j /\ Held(i, j, h.hrs, minTime)
      BY <2>2, <3>2, <3>3 DEF Held
    <3> QED
      BY <1>1, <3>4, EventsHold
  <2> QED
    BY <2>3, <2>4, <2>5
<1>2. ASSUME h.boundary = "linked", NEW l \in DOMAIN lnk, NEW j \in Tmps(h),
             lnk[l][name] = 1, SinceLinked(h, lnk, l, j) < minTime
      PROVE  x[j] = 1
  <2>1. HoursToLinked(h, lnk, j, l) < minTime
    BY <1>2, SinceIs
  <2> QED
    BY <1>2, <2>1, LinkedEventsHold
<1> QED
  BY <1>1, <1>2 DEF KeptLater, KeptLinked

(* The status to, as 1, and the changes to it, as events.                  *)
Same(h, x, to) == [t \in Tmps(h) |-> IF x[t] = to THEN 1 ELSE 0]
Turning(h, lnk, x, to) ==
  [t \in Tmps(h) |-> IF t \in Changes(h, lnk, x, to) THEN 1 ELSE 0]
WasBefore(lnk, to) == IF lnk[1].commit = to THEN 1 ELSE 0
KeptFor(h, lnk, x, to, minTime, name) ==
  /\ \A i \in Changes(h, lnk, x, to), j \in Tmps(h) :
       Later(h, i, j) \in 0..(minTime - 1) => x[j] = to
  /\ h.boundary = "linked" =>
       \A l \in DOMAIN lnk, j \in Tmps(h) :
         lnk[l][name] = 1 /\ SinceLinked(h, lnk, l, j) < minTime => x[j] = to

(* What is allowed, in terms of the two statuses.                          *)
LEMMA AllowedIs ==
  ASSUME NEW u, NEW h, NEW lnk, NEW x
  PROVE  x \in Allowed(u, h, lnk) <=>
           /\ x \in Flags(h)
           /\ KeptFor(h, lnk, x, 1, u.minUp, "startup")
           /\ KeptFor(h, lnk, x, 0, u.minDown, "shutdown")
  BY DEF Allowed, Kept, KeptFor

(* The changes to a status are its events.                                 *)
LEMMA TurningTurns ==
  ASSUME NEW h, Hours(h), NEW lnk, NEW x, NEW to
  PROVE  Turns(h, Same(h, x, to), WasBefore(lnk, to), Turning(h, lnk, x, to))
<1> SUFFICES ASSUME NEW t \in Tmps(h)
             PROVE  /\ Same(h, x, to)[t] \in 0..1 /\ Turning(h, lnk, x, to)[t] \in 0..1
                    /\ Turning(h, lnk, x, to)[t] = 1 <=>
                         /\ Same(h, x, to)[t] = 1 /\ ~FirstOf(h, t, "linear")
                         /\ Before(h, Same(h, x, to), WasBefore(lnk, to), t) = 0
  BY DEF Turns
<1>1. Back(h, t, 1) \in Tmps(h)
  BY BackIs
<1>2. Before(h, Same(h, x, to), WasBefore(lnk, to), t) = 0
        <=> PrevCommit(h, lnk, [commit |-> x], t) # to
  BY <1>1 DEF Before, Same, WasBefore, PrevCommit
<1> QED
  BY <1>2 DEF Same, Turning, Changes

(* To keep a status for its time is to keep it after its events.           *)
LEMMA KeptForIs ==
  ASSUME NEW h, NEW lnk, NEW x, NEW to, NEW minTime, NEW name
  PROVE  KeptFor(h, lnk, x, to, minTime, name) <=>
           /\ KeptLater(h, Same(h, x, to), Turning(h, lnk, x, to), minTime)
           /\ KeptLinked(h, lnk, Same(h, x, to), minTime, name)
<1>1. /\ \A t \in Tmps(h) : Same(h, x, to)[t] = 1 <=> x[t] = to
      /\ \A t \in Tmps(h) : Turning(h, lnk, x, to)[t] = 1 <=> t \in Changes(h, lnk, x, to)
      /\ Changes(h, lnk, x, to) \subseteq Tmps(h)
  BY DEF Same, Turning, Changes
<1> QED
  BY <1>1 DEF KeptFor, KeptLater, KeptLinked

(* Flags that are set with every change fit for a status that is kept.     *)
LEMMA AllowedFits ==
  ASSUME NEW h, Hours(h), Positive(h), NEW minTime \in Nat, NEW x, NEW to,
         NEW lnk \in Seq(Instants), NEW name, LinkedEvents(lnk, name),
         KeptFor(h, lnk, x, to, minTime, name),
         HeldOver(h, lnk, WasBefore(lnk, to), minTime, name), NEW t \in Tmps(h)
  PROVE  Same(h, x, to)[t]
           >= EventsIn(h, t, minTime, Turning(h, lnk, x, to), lnk, name)
  BY TurningTurns, KeptForIs, KeptFits

(* And the other way round.                                                *)
LEMMA FitsAllowed ==
  ASSUME NEW h, Hours(h), Positive(h), NEW minTime \in Nat, NEW x, NEW to, NEW event,
         NEW lnk \in Seq(Instants), NEW name, LinkedEvents(lnk, name),
         Keeping(h, lnk, Same(h, x, to), event, minTime, name),
         \A t \in Changes(h, lnk, x, to) : event[t] = 1
  PROVE  KeptFor(h, lnk, x, to, minTime, name)
<1>1. /\ KeptLater(h, Same(h, x, to), event, minTime)
      /\ KeptLinked(h, lnk, Same(h, x, to), minTime, name)
  BY FitsKept
<1>2. \A t \in Tmps(h) : Turning(h, lnk, x, to)[t] = 1 => event[t] = 1
  BY DEF Turning
<1>3. KeptLater(h, Same(h, x, to), Turning(h, lnk, x, to), minTime)
  BY <1>1, <1>2 DEF KeptLater
<1> QED
  BY <1>1, <1>3, KeptForIs

(* What is handed over to a linked horizon.                                *)
Linked(u, h, lnk) ==
  /\ lnk \in Seq(Instants)
  /\ h.boundary = "linked" => lnk # <<>>
  /\ HeldOver(h, lnk, WasBefore(lnk, 1), u.minUp, "startup")
  /\ HeldOver(h, lnk, WasBefore(lnk, 0), u.minDown, "shutdown")

(* The types of what is handed over.                                       *)
LEMMA LinkedTypes ==
  ASSUME NEW u \in Units, NEW h, Hours(h), NEW lnk, Linked(u, h, lnk)
  PROVE  /\ LinkedEvents(lnk, "startup") /\ LinkedEvents(lnk, "shutdown")
         /\ lnk \in Seq(Instants) /\ u.minUp \in Nat /\ u.minDown \in Nat
         /\ h.boundary = "linked" => lnk[1].commit \in 0..1
<1>1. lnk \in Seq(Instants) /\ Len(lnk) \in Nat /\ DOMAIN lnk = 1..Len(lnk)
  BY DEF Linked
<1>2. \A l \in DOMAIN lnk : lnk[l] \in Instants
  BY <1>1
<1>3. \A l \in DOMAIN lnk : /\ lnk[l].startup \in Nat /\ lnk[l].shutdown \in Nat
                            /\ lnk[l].commit \in 0..1
  BY <1>2 DEF Instants
<1>4. IsFiniteSet(DOMAIN lnk)
  BY <1>1, FS_Interval
<1>5. h.boundary = "linked" => 1 \in DOMAIN lnk
  BY <1>1 DEF Linked
<1>6. LinkedEvents(lnk, "startup") /\ LinkedEvents(lnk, "shutdown")
  BY <1>3, <1>4 DEF LinkedEvents
<1> QED
  BY <1>1, <1>3, <1>5, <1>6, UnitsAssumption

(* The commitment before a timepoint is one of 0 and 1.                    *)
LEMMA PrevType ==
  ASSUME NEW u \in Units, NEW h, Hours(h), NEW lnk, Linked(u, h, lnk), NEW s,
         \A t \in Tmps(h) : s.commit[t] \in 0..1, NEW t \in Tmps(h)
  PROVE  PrevCommit(h, lnk, s, t) \in 0..1
<1>1. Back(h, t, 1) \in Tmps(h)
  BY BackIs
<1> QED
  BY <1>1, LinkedTypes DEF PrevCommit, FirstOf

(* On is the commitment itself, off its complement.                        *)
LEMMA SameIs ==
  ASSUME NEW h, NEW x, \A t \in Tmps(h) : x[t] \in 0..1
  PROVE  \A t \in Tmps(h) : Same(h, x, 1)[t] = x[t] /\ Same(h, x, 0)[t] = 1 - x[t]
  BY DEF Same

(* What is feasible keeps the minimum up and down times.                   *)
LEMMA FeasibleAllowed ==
  ASSUME NEW u \in Units, NEW h, Hours(h), Positive(h), NEW lnk, Linked(u, h, lnk),
         NEW s \in Feasible(u, h, lnk)
  PROVE  s.commit \in Allowed(u, h, lnk)
<1> DEFINE x == s.commit
<1>1. /\ LinkedEvents(lnk, "startup") /\ LinkedEvents(lnk, "shutdown")
      /\ lnk \in Seq(Instants) /\ u.minUp \in Nat /\ u.minDown \in Nat
  BY LinkedTypes
<1>2. /\ x \in Flags(h)
      /\ \A t \in Tmps(h) : /\ x[t] \in 0..1 /\ s.startup[t] \in 0..1
                            /\ s.shutdown[t] \in 0..1
  <2>1. s \in Solutions(h)
    BY DEF Feasible
  <2> QED
    BY <2>1, FeasibleIs DEF Solutions
<1>3. \A t \in Tmps(h) : PrevCommit(h, lnk, s, t) \in 0..1
  BY <1>2, PrevType
<1>4. ASSUME NEW t \in Tmps(h), ~FirstOf(h, t, "linear")
      PROVE  /\ x[t] = 1 /\ PrevCommit(h, lnk, s, t) # 1 => s.startup[t] = 1
             /\ x[t] = 0 /\ PrevCommit(h, lnk, s, t) # 0 => s.shutdown[t] = 1
  <2>1. /\ s.startup[t] = 1 <=> s.commit[t] > PrevCommit(h, lnk, s, t)
        /\ s.shutdown[t] = 1 <=> s.commit[t] < PrevCommit(h, lnk, s, t)
    BY <1>1, <1>3, <1>4, SolutionFlags
  <2> QED
    BY <1>2, <1>3, <2>1
<1>5. \A t : PrevCommit(h, lnk, [commit |-> s.commit], t) = PrevCommit(h, lnk, s, t)
  BY DEF PrevCommit
<1>6. /\ \A t \in Changes(h, lnk, x, 1) : s.startup[t] = 1
      /\ \A t \in Changes(h, lnk, x, 0) : s.shutdown[t] = 1
  BY <1>4, <1>5 DEF Changes
<1>7. /\ Keeping(h, lnk, x, s.startup, u.minUp, "startup")
      /\ Keeping(h, lnk, Off(h, s), s.shutdown, u.minDown, "shutdown")
  BY FeasibleKeeps
<1>8. Same(h, x, 1) = x /\ Same(h, x, 0) = Off(h, s)
  <2>1. x = [t \in Tmps(h) |-> x[t]]
    BY <1>2 DEF Flags
  <2>2. Same(h, x, 1) = [t \in Tmps(h) |-> x[t]]
    BY <1>2, SameIs DEF Same
  <2>3. Same(h, x, 0) = [t \in Tmps(h) |-> 1 - x[t]]
    BY <1>2, SameIs DEF Same
  <2> QED
    BY <2>1, <2>2, <2>3 DEF Off
<1> HIDE DEF x
<1>9. KeptFor(h, lnk, x, 1, u.minUp, "startup")
  BY <1>1, <1>6, <1>7, <1>8, FitsAllowed
<1>10. KeptFor(h, lnk, x, 0, u.minDown, "shutdown")
  BY <1>1, <1>6, <1>7, <1>8, FitsAllowed
<1> QED
  BY <1>2, <1>9, <1>10, AllowedIs DEF x

(* What keeps them is feasible, with the changes as starts and shutdowns.  *)
LEMMA AllowedFeasible ==
  ASSUME NEW u \in Units, NEW h, Hours(h), Positive(h), NEW lnk, Linked(u, h, lnk),
         NEW x \in Allowed(u, h, lnk)
  PROVE  \E s \in Feasible(u, h, lnk) : s.commit = x
<1> DEFINE up == Turning(h, lnk, x, 1)
           down == Turning(h, lnk, x, 0)
           s == [commit |-> x, startup |-> up, shutdown |-> down]
<1>1. /\ LinkedEvents(lnk, "startup") /\ LinkedEvents(lnk, "shutdown")
      /\ lnk \in Seq(Instants) /\ u.minUp \in Nat /\ u.minDown \in Nat
  BY LinkedTypes
<1>2. /\ x \in Flags(h) /\ \A t \in Tmps(h) : x[t] \in 0..1
      /\ KeptFor(h, lnk, x, 1, u.minUp, "startup")
      /\ KeptFor(h, lnk, x, 0, u.minDown, "shutdown")
  BY AllowedIs DEF Flags
<1>3. s \in Solutions(h)
  <2>1. up \in Flags(h) /\ down \in Flags(h)
    BY DEF Turning, Flags
  <2> HIDE DEF up, down
  <2> QED
    BY <1>2, <2>1 DEF Solutions
<1>4. \A t \in Tmps(h) : PrevCommit(h, lnk, s, t) \in 0..1
  <2>1. \A t \in Tmps(h) : s.commit[t] \in 0..1
    BY <1>2
  <2> HIDE DEF s
  <2> QED
    BY <2>1, PrevType
<1>5. ASSUME NEW t \in Tmps(h) PROVE binary_logic(h, lnk, s, t)
  <2> SUFFICES ASSUME ~FirstOf(h, t, "linear")
               PROVE  x[t] - PrevCommit(h, lnk, s, t) = up[t] - down[t]
    BY DEF binary_logic
  <2>1. PrevCommit(h, lnk, [commit |-> x], t) = PrevCommit(h, lnk, s, t)
    BY DEF PrevCommit
  <2>2. /\ up[t] = IF x[t] = 1 /\ PrevCommit(h, lnk, s, t) # 1 THEN 1 ELSE 0
        /\ down[t] = IF x[t] = 0 /\ PrevCommit(h, lnk, s, t) # 0 THEN 1 ELSE 0
    <3> HIDE DEF s
    <3> QED
      BY <2>1 DEF Turning, Changes
  <2> HIDE DEF s, up, down
  <2> QED
    BY <1>2, <1>4, <2>2
<1>6. ASSUME NEW t \in Tmps(h)
      PROVE  min_up_time(u, h, lnk, s, t) /\ min_down_time(u, h, lnk, s, t)
  <2>1. /\ Same(h, x, 1)[t] >= EventsIn(h, t, u.minUp, up, lnk, "startup")
        /\ Same(h, x, 0)[t] >= EventsIn(h, t, u.minDown, down, lnk, "shutdown")
    <3> HIDE DEF up, down
    <3> QED
      BY <1>1, <1>2, AllowedFits DEF Linked, up, down
  <2>2. Same(h, x, 1)[t] = x[t] /\ Same(h, x, 0)[t] = 1 - x[t]
    BY <1>2, SameIs
  <2> HIDE DEF up, down
  <2> QED
    BY <2>1, <2>2 DEF min_up_time, min_down_time
<1>7. s \in Feasible(u, h, lnk)
  <2> HIDE DEF s
  <2> QED
    BY <1>3, <1>5, <1>6 DEF Feasible
<1> QED
  BY <1>7

(* So the constraints allow what the times allow.                          *)
LEMMA FeasibleIsAllowed ==
  ASSUME NEW u \in Units, NEW h, Hours(h), Positive(h), NEW lnk, Linked(u, h, lnk)
  PROVE  {s.commit : s \in Feasible(u, h, lnk)} = Allowed(u, h, lnk)
  BY FeasibleAllowed, AllowedFeasible

------------------------------------------------------------------------------
(* Outages.                                                                *)

(* Without linked timepoints the events of a window are those of its       *)
(* timepoints.                                                             *)
LEMMA EventsOfWindow ==
  ASSUME NEW h, Hours(h), h.boundary # "linked", NEW t \in Tmps(h),
         NEW minTime \in Nat, NEW event, \A i \in Tmps(h) : event[i] \in 0..1,
         NEW name
  PROVE  LET tmps == RelevantTmps(h, t, minTime)
         IN  EventsIn(h, t, minTime, event, <<>>, name)
               = SumFunction([i \in DOMAIN tmps |-> event[tmps[i]]])
<1> DEFINE tmps == RelevantTmps(h, t, minTime)
           w == [i \in DOMAIN tmps |-> event[tmps[i]]]
           v == [l \in RelevantLinked(h, <<>>, t, minTime) |-> (<<>>)[l][name]]
<1>1. PICK n \in 0..Reach(h, t) :
        tmps = [i \in 1..(n + 1) |-> Back(h, t, i - 1)]
  BY StepsAre
<1>2. n \in Nat /\ DOMAIN tmps = 1..(n + 1)
  BY <1>1, HoursAtType
<1>3. \A i \in 1..(n + 1) : w[i] = event[Back(h, t, i - 1)] /\ w[i] \in Nat
  BY <1>1, <1>2, BackIs
<1>4. Natural(w, 1..(n + 1)) /\ DOMAIN w = 1..(n + 1)
  <2>1. IsFiniteSet(1..(n + 1))
    BY <1>2, FS_Interval
  <2>2. DOMAIN w = 1..(n + 1)
    BY <1>2
  <2> HIDE DEF w
  <2> QED
    BY <1>3, <2>1, <2>2 DEF Natural
<1>5. DOMAIN v = {}
  BY DEF RelevantLinked
<1>6. EventsIn(h, t, minTime, event, <<>>, name) = SumFunction(w) + SumFunction(v)
  BY DEF EventsIn
<1> HIDE DEF w, v
<1>7. SumFunction(v) = 0
  BY <1>5, SumEmpty DEF SumFunction, Sum
<1>8. SumFunction(w) \in Nat
  BY <1>4, SumType DEF SumFunction, Sum
<1>9. EventsIn(h, t, minTime, event, <<>>, name) = SumFunction(w)
  BY <1>6, <1>7, <1>8
<1> QED
  BY <1>9 DEF w

(* Without linked timepoints nothing is held over.                        *)
LEMMA NothingLinked ==
  ASSUME NEW u \in Units, NEW h, Hours(h), h.boundary # "linked"
  PROVE  Linked(u, h, <<>>)
<1>1. <<>> \in Seq(Instants) /\ DOMAIN <<>> = {}
  OBVIOUS
<1> QED
  BY <1>1 DEF Linked, HeldOver

(* Where nothing but the timepoint itself is in the window, the constraint *)
(* that is skipped says nothing.                                           *)
LEMMA AloneFits ==
  ASSUME NEW h, Hours(h), NEW t \in Tmps(h), NEW minTime \in Nat,
         NEW x, NEW q, NEW event, Turns(h, x, q, event),
         NEW lnk, NEW name, LinkedEvents(lnk, name),
         \A l \in DOMAIN lnk : lnk[l][name] \in 0..1,
         RelevantLinked(h, lnk, t, minTime) = {},
         ~(Len(RelevantTmps(h, t, minTime)) > 1)
  PROVE  x[t] >= EventsIn(h, t, minTime, event, lnk, name)
<1> DEFINE all == EventsIn(h, t, minTime, event, lnk, name)
           ks == {0} \cup Steps(h, t, minTime)
<1>1. PICK n \in 0..Reach(h, t) :
        /\ Steps(h, t, minTime) = 1..n
        /\ RelevantTmps(h, t, minTime) = [i \in 1..(n + 1) |-> Back(h, t, i - 1)]
  BY StepsAre
<1>2. n \in Nat /\ Len(RelevantTmps(h, t, minTime)) = n + 1
  BY <1>1, HoursAtType
<1>3. ks = {0}
  BY <1>1, <1>2
<1>4. Back(h, t, 0) = t
  <2>1. 0 \in Nat /\ 0 < t /\ t - 0 = t
    BY TmpsAre
  <2> QED
    BY <2>1, BackIs
<1>5. /\ \A i \in Tmps(h) : event[i] \in 0..1
      /\ x[t] \in 0..1 /\ event[t] \in 0..1 /\ (event[t] = 1 => x[t] = 1)
  BY DEF Turns
<1>6. all \in 0..1
  <2>1. /\ \A k, m \in ks : k # m =>
             event[Back(h, t, k)] = 0 \/ event[Back(h, t, m)] = 0
    BY <1>3
  <2> QED
    BY <1>5, <2>1, EventsAtMost
<1>7. event[t] = 0 => all = 0
  BY <1>3, <1>4, <1>5, EventsAtMost
<1> QED
  BY <1>5, <1>6, <1>7

(* The larger of nothing and a change.                                     *)
LEMMA LargerIs == \A c \in Int : Max({0, c}) = IF c > 0 THEN c ELSE 0
<1> SUFFICES ASSUME NEW c \in Int
             PROVE  Max({0, c}) = IF c > 0 THEN c ELSE 0
  OBVIOUS
<1> DEFINE S == {0, c}
<1>1. \E m \in S : \A k \in S : m >= k
  OBVIOUS
<1>2. Max(S) \in S /\ \A k \in S : Max(S) >= k
  BY <1>1 DEF Max
<1> QED
  BY <1>2

(* The least started and stopped capacity of a single unit.                *)
LEMMA StartedIsTurning ==
  ASSUME NEW u \in Units, NEW h, Hours(h), NEW lnk, Linked(u, h, lnk), NEW x \in Flags(h)
  PROVE  /\ startup(h, lnk, x) = Turning(h, lnk, x, 1)
         /\ shutdown(h, lnk, x) = Turning(h, lnk, x, 0)
<1>1. ASSUME NEW t \in Tmps(h)
      PROVE  /\ Max({0, Change(h, lnk, x, t)}) = IF t \in Changes(h, lnk, x, 1) THEN 1 ELSE 0
             /\ Max({0, -Change(h, lnk, x, t)}) = IF t \in Changes(h, lnk, x, 0) THEN 1 ELSE 0
  <2> DEFINE prev == PrevCommit(h, lnk, [commit |-> x], t)
             c == Change(h, lnk, x, t)
  <2>1. x[t] \in 0..1 /\ prev \in 0..1
    <3>1. \A i \in Tmps(h) : x[i] \in 0..1 /\ [commit |-> x].commit[i] \in 0..1
      BY DEF Flags
    <3> QED
      BY <3>1, PrevType
  <2>2. c = IF FirstOf(h, t, "linear") THEN 0 ELSE x[t] - prev
    BY DEF Change
  <2>3. /\ t \in Changes(h, lnk, x, 1) <=> ~FirstOf(h, t, "linear") /\ x[t] = 1 /\ prev # 1
        /\ t \in Changes(h, lnk, x, 0) <=> ~FirstOf(h, t, "linear") /\ x[t] = 0 /\ prev # 0
    BY DEF Changes
  <2> HIDE DEF c, prev
  <2>4. /\ c \in {-1, 0, 1} /\ -c \in {-1, 0, 1}
        /\ c = 1 <=> t \in Changes(h, lnk, x, 1)
        /\ -c = 1 <=> t \in Changes(h, lnk, x, 0)
    <3>1. x[t] \in {0, 1} /\ prev \in {0, 1}
      BY <2>1
    <3>2. CASE FirstOf(h, t, "linear")
      <4>1. c = 0
        BY <2>2, <3>2
      <4>2. -c = 0
        <5>1. \A d \in Int : -d = 0 - d
          OBVIOUS
        <5>2. c \in Int /\ 0 - c = 0
          BY <4>1
        <5>3. -c = 0 - c
          BY <5>1, <5>2, Zenon
        <5> QED
          BY <5>2, <5>3, Zenon
      <4> QED
        BY <2>3, <3>2, <4>1, <4>2
    <3>3. CASE ~FirstOf(h, t, "linear")
      <4>1. c = x[t] - prev
        BY <2>2, <3>3
      <4>2. /\ c = 1 <=> x[t] = 1 /\ prev = 0
            /\ -c = 1 <=> x[t] = 0 /\ prev = 1
            /\ c \in {-1, 0, 1} /\ -c \in {-1, 0, 1}
        BY <3>1, <4>1
      <4> QED
        BY <2>3, <3>1, <3>3, <4>2
    <3> QED
      BY <3>2, <3>3
  <2>5. /\ Max({0, c}) = IF c = 1 THEN 1 ELSE 0
        /\ Max({0, -c}) = IF -c = 1 THEN 1 ELSE 0
    BY <2>4, LargerIs
  <2> QED
    BY <2>4, <2>5 DEF c
<1> QED
  BY <1>1 DEF startup, shutdown, Turning

(* The constraints on outages, those that are skipped included.            *)
LEMMA OutagesFit ==
  ASSUME NEW u \in Units, NEW h, Hours(h), h.boundary # "linked", NEW minTime \in Nat,
         NEW x \in Flags(h), NEW t \in Tmps(h)
  PROVE  /\ event_min_duration(minTime, h, x, t) <=>
              Same(h, x, 1)[t]
                >= EventsIn(h, t, minTime, Turning(h, <<>>, x, 1), <<>>, "startup")
         /\ min_time_between_events(minTime, h, x, t) <=>
              Same(h, x, 0)[t]
                >= EventsIn(h, t, minTime, Turning(h, <<>>, x, 0), <<>>, "shutdown")
<1> DEFINE tmps == RelevantTmps(h, t, minTime)
           up == Turning(h, <<>>, x, 1)
           down == Turning(h, <<>>, x, 0)
<1>1. /\ Turns(h, Same(h, x, 1), WasBefore(<<>>, 1), up)
      /\ Turns(h, Same(h, x, 0), WasBefore(<<>>, 0), down)
  BY TurningTurns
<1>2. Same(h, x, 1)[t] = x[t] /\ Same(h, x, 0)[t] = 1 - x[t]
  BY SameIs DEF Flags
<1>3. startup(h, <<>>, x) = up /\ shutdown(h, <<>>, x) = down
  BY NothingLinked, StartedIsTurning
<1> HIDE DEF up, down
<1>4. /\ EventsIn(h, t, minTime, up, <<>>, "startup")
           = SumFunction([i \in DOMAIN tmps |-> up[tmps[i]]])
      /\ EventsIn(h, t, minTime, down, <<>>, "shutdown")
           = SumFunction([i \in DOMAIN tmps |-> down[tmps[i]]])
  BY <1>1, EventsOfWindow DEF Turns
<1>5. ~(Len(tmps) > 1) =>
        /\ Same(h, x, 1)[t] >= EventsIn(h, t, minTime, up, <<>>, "startup")
        /\ Same(h, x, 0)[t] >= EventsIn(h, t, minTime, down, <<>>, "shutdown")
  <2>1. /\ RelevantLinked(h, <<>>, t, minTime) = {}
        /\ LinkedEvents(<<>>, "startup") /\ LinkedEvents(<<>>, "shutdown")
        /\ \A l \in DOMAIN <<>> : (<<>>)[l].startup \in 0..1 /\ (<<>>)[l].shutdown \in 0..1
    BY FS_EmptySet DEF RelevantLinked, LinkedEvents
  <2> QED
    BY <1>1, <2>1, AloneFits
<1> HIDE DEF tmps
<1> QED
  BY <1>2, <1>3, <1>4, <1>5 DEF event_min_duration, min_time_between_events, tmps, up, down

(* Events that fit into the windows keep their status.                     *)
LEMMA TurnsKeep ==
  ASSUME NEW h, Hours(h), NEW minTime \in Nat, NEW x, NEW q, NEW event,
         Turns(h, x, q, event), NEW lnk, NEW name,
         \A t \in Tmps(h) : x[t] >= EventsIn(h, t, minTime, event, lnk, name)
  PROVE  Keeping(h, lnk, x, event, minTime, name)
<1>1. ASSUME NEW t \in Tmps(h), t > 1, x[t] = 1, x[t - 1] = 0
      PROVE  event[t] = 1
  <2>1. 1 \in Nat /\ 1 < t
    BY <1>1
  <2>2. Back(h, t, 1) = t - 1
    BY <2>1, BackIs
  <2>3. ~FirstOf(h, t, "linear") /\ ~FirstOf(h, t, "linked")
    BY <1>1 DEF FirstOf
  <2> QED
    BY <1>1, <2>2, <2>3 DEF Turns, Before
<1> QED
  BY <1>1 DEF Keeping, Turns

(* A commitment is allowed if and only if its changes, taken as the events, *)
(* fit into the windows.                                                   *)
Fitting(u, h, lnk, x, t) ==
  /\ Same(h, x, 1)[t]
       >= EventsIn(h, t, u.minUp, Turning(h, lnk, x, 1), lnk, "startup")
  /\ Same(h, x, 0)[t]
       >= EventsIn(h, t, u.minDown, Turning(h, lnk, x, 0), lnk, "shutdown")

(* What is allowed is what fits.                                           *)
LEMMA AllowedIsFitting ==
  ASSUME NEW u \in Units, NEW h, Hours(h), Positive(h), NEW lnk, Linked(u, h, lnk),
         NEW x \in Flags(h)
  PROVE  x \in Allowed(u, h, lnk) <=> \A t \in Tmps(h) : Fitting(u, h, lnk, x, t)
<1> DEFINE up == Turning(h, lnk, x, 1)
           down == Turning(h, lnk, x, 0)
<1>1. /\ LinkedEvents(lnk, "startup") /\ LinkedEvents(lnk, "shutdown")
      /\ lnk \in Seq(Instants) /\ u.minUp \in Nat /\ u.minDown \in Nat
      /\ HeldOver(h, lnk, WasBefore(lnk, 1), u.minUp, "startup")
      /\ HeldOver(h, lnk, WasBefore(lnk, 0), u.minDown, "shutdown")
  BY LinkedTypes DEF Linked
<1>2. x \in Allowed(u, h, lnk) <=> /\ KeptFor(h, lnk, x, 1, u.minUp, "startup")
                                   /\ KeptFor(h, lnk, x, 0, u.minDown, "shutdown")
  BY AllowedIs
<1>3. ASSUME x \in Allowed(u, h, lnk), NEW t \in Tmps(h)
      PROVE  Fitting(u, h, lnk, x, t)
  BY <1>1, <1>2, <1>3, AllowedFits DEF Fitting
<1>4. ASSUME \A t \in Tmps(h) : Fitting(u, h, lnk, x, t)
      PROVE  x \in Allowed(u, h, lnk)
  <2>1. /\ Turns(h, Same(h, x, 1), WasBefore(lnk, 1), up)
        /\ Turns(h, Same(h, x, 0), WasBefore(lnk, 0), down)
    BY TurningTurns
  <2>2. /\ \A t \in Tmps(h) :
             Same(h, x, 1)[t] >= EventsIn(h, t, u.minUp, up, lnk, "startup")
        /\ \A t \in Tmps(h) :
             Same(h, x, 0)[t] >= EventsIn(h, t, u.minDown, down, lnk, "shutdown")
    BY <1>4 DEF Fitting
  <2>3. /\ \A t \in Changes(h, lnk, x, 1) : up[t] = 1
        /\ \A t \in Changes(h, lnk, x, 0) : down[t] = 1
    BY DEF Turning, Changes
  <2> HIDE DEF up, down
  <2>4. /\ Keeping(h, lnk, Same(h, x, 1), up, u.minUp, "startup")
        /\ Keeping(h, lnk, Same(h, x, 0), down, u.minDown, "shutdown")
    BY <1>1, <2>1, <2>2, TurnsKeep
  <2>5. KeptFor(h, lnk, x, 1, u.minUp, "startup")
    BY <1>1, <2>3, <2>4, FitsAllowed
  <2>6. KeptFor(h, lnk, x, 0, u.minDown, "shutdown")
    BY <1>1, <2>3, <2>4, FitsAllowed
  <2> QED
    BY <1>2, <2>5, <2>6
<1> QED
  BY <1>3, <1>4

(* So the constraints on outages allow what the times allow.               *)
LEMMA OutagesAllowed ==
  ASSUME NEW u \in Units, NEW h, Hours(h), Positive(h), h.boundary # "linked"
  PROVE  AvlBinFeasible(u, h) = Allowed(u, h, <<>>)
<1>1. u.minUp \in Nat /\ u.minDown \in Nat
  BY UnitsAssumption
<1>2. ASSUME NEW x \in Flags(h)
      PROVE  x \in AvlBinFeasible(u, h)
               <=> \A t \in Tmps(h) : Fitting(u, h, <<>>, x, t)
  <2>1. x \in AvlBinFeasible(u, h) <=>
          \A t \in Tmps(h) : /\ event_min_duration(u.minUp, h, x, t)
                             /\ min_time_between_events(u.minDown, h, x, t)
    BY DEF AvlBinFeasible, Profiles, Flags
  <2> QED
    BY <1>1, <2>1, OutagesFit DEF Fitting
<1>3. AvlBinFeasible(u, h) \subseteq Flags(h) /\ Allowed(u, h, <<>>) \subseteq Flags(h)
  BY DEF AvlBinFeasible, Profiles, Flags, Allowed
<1> QED
  BY <1>2, <1>3, NothingLinked, AllowedIsFitting

(* And those on the capacity of a single unit.                             *)
LEMMA CapFits ==
  ASSUME NEW u \in Units, NEW h, Hours(h), NEW lnk, Linked(u, h, lnk),
         NEW x \in Flags(h), NEW t \in Tmps(h)
  PROVE  /\ cap_min_up_time(u.minUp, h, lnk, x, t)
         /\ cap_min_down_time(u.minDown, h, lnk, x, t, 1)
         <=> Fitting(u, h, lnk, x, t)
<1> DEFINE up == Turning(h, lnk, x, 1)
           down == Turning(h, lnk, x, 0)
<1>1. /\ Turns(h, Same(h, x, 1), WasBefore(lnk, 1), up)
      /\ Turns(h, Same(h, x, 0), WasBefore(lnk, 0), down)
  BY TurningTurns
<1>2. Same(h, x, 1)[t] = x[t] /\ Same(h, x, 0)[t] = 1 - x[t]
  BY SameIs DEF Flags
<1>3. startup(h, lnk, x) = up /\ shutdown(h, lnk, x) = down
  BY StartedIsTurning
<1>4. /\ LinkedEvents(lnk, "startup") /\ LinkedEvents(lnk, "shutdown")
      /\ u.minUp \in Nat /\ u.minDown \in Nat
      /\ \A l \in DOMAIN lnk : lnk[l]["startup"] \in 0..1 /\ lnk[l]["shutdown"] \in 0..1
  BY LinkedTypes DEF Linked, HeldOver
<1> HIDE DEF up, down
<1>5. OnlyItself(h, lnk, t, u.minUp) =>
        Same(h, x, 1)[t] >= EventsIn(h, t, u.minUp, up, lnk, "startup")
  <2> SUFFICES ASSUME OnlyItself(h, lnk, t, u.minUp)
               PROVE  Same(h, x, 1)[t] >= EventsIn(h, t, u.minUp, up, lnk, "startup")
    OBVIOUS
  <2>1. /\ RelevantLinked(h, lnk, t, u.minUp) = {}
        /\ ~(Len(RelevantTmps(h, t, u.minUp)) > 1)
    BY DEF OnlyItself
  <2>2. \A l \in DOMAIN lnk : lnk[l]["startup"] \in 0..1
    BY <1>4
  <2> QED
    BY <1>1, <1>4, <2>1, <2>2, AloneFits
<1>6. OnlyItself(h, lnk, t, u.minDown) =>
        Same(h, x, 0)[t] >= EventsIn(h, t, u.minDown, down, lnk, "shutdown")
  <2> SUFFICES ASSUME OnlyItself(h, lnk, t, u.minDown)
               PROVE  Same(h, x, 0)[t] >= EventsIn(h, t, u.minDown, down, lnk, "shutdown")
    OBVIOUS
  <2>1. /\ RelevantLinked(h, lnk, t, u.minDown) = {}
        /\ ~(Len(RelevantTmps(h, t, u.minDown)) > 1)
    BY DEF OnlyItself
  <2>2. \A l \in DOMAIN lnk : lnk[l]["shutdown"] \in 0..1
    BY <1>4
  <2> QED
    BY <1>1, <1>4, <2>1, <2>2, AloneFits
<1> QED
  BY <1>2, <1>3, <1>5, <1>6 DEF cap_min_up_time, cap_min_down_time, Fitting, up, down

(* So a fleet of one unit is allowed what the unit is.                     *)
LEMMA AloneAllowed ==
  ASSUME NEW u \in Units, NEW h, Hours(h), Positive(h), NEW lnk, Linked(u, h, lnk)
  PROVE  CapFeasible(u, h, lnk, 1) = Allowed(u, h, lnk)
<1>1. ASSUME NEW x \in Flags(h)
      PROVE  x \in CapFeasible(u, h, lnk, 1)
               <=> \A t \in Tmps(h) : Fitting(u, h, lnk, x, t)
  BY CapFits DEF CapFeasible, Profiles, Flags
<1>2. CapFeasible(u, h, lnk, 1) \subseteq Flags(h) /\ Allowed(u, h, lnk) \subseteq Flags(h)
  BY DEF CapFeasible, Profiles, Flags, Allowed
<1> QED
  BY <1>1, <1>2, AllowedIsFitting

------------------------------------------------------------------------------
(* Exactness along the timeline.                                           *)

(* What makes the constraints of a linked horizon exact: the linked        *)
(* timepoints are all of the subproblem before, whose commitments keep to  *)
(* the minimum times among themselves.                                     *)
PositiveInv == phase = "loaded" => Positive(horizon)
LastTogether ==
  \A l \in DOMAIN linked : SolvedTogether(Len(timeline) + 1 - l, Len(timeline))
ExactInv == PositiveInv /\ LastTogether /\ OnWhenStarted /\ OffWhenShutDown

(* At first nothing is loaded or handed over.                              *)
LEMMA InitExact == Init => ExactInv
<1> SUFFICES ASSUME Init PROVE ExactInv
  OBVIOUS
<1>1. phase = "solved" /\ timeline = <<>> /\ linked = <<>> /\ DOMAIN <<>> = {}
  BY DEF Init
<1> QED
  BY <1>1 DEF ExactInv, PositiveInv, LastTogether, OnWhenStarted, OffWhenShutDown

(* What is handed over stays, if the timeline does.                        *)
LEMMA SameExact ==
  ASSUME ExactInv, UNCHANGED <<linked, timeline, ends>>, PositiveInv'
  PROVE  ExactInv'
<1>1. LastTogether'
  BY DEF ExactInv, LastTogether, SolvedTogether
<1>2. OnWhenStarted' /\ OffWhenShutDown'
  BY DEF ExactInv, OnWhenStarted, OffWhenShutDown
<1> QED
  BY <1>1, <1>2 DEF ExactInv

(* Loading a horizon leaves the timeline alone.                            *)
LEMMA LoadDataExact ==
  ASSUME ExactInv, LoadData
  PROVE  ExactInv'
<1>1. PICK hrs \in HorizonHours,
           boundary \in IF linked = <<>> THEN {"linear", "circular"} ELSE {"linked"} :
        horizon' = [boundary |-> boundary, hrs |-> hrs]
  BY DEF LoadData
<1>2. hrs \in Seq(Nat \ {0})
  BY HorizonAssumption
<1>3. \A t \in 1..Len(hrs) : hrs[t] > 0
  BY <1>2
<1>4. PositiveInv'
  BY <1>1, <1>3 DEF PositiveInv, Positive, Tmps
<1> QED
  BY <1>4, SameExact DEF LoadData

(* What is handed over is of the subproblem just solved.                   *)
LEMMA SolveTogether ==
  ASSUME IInv, Solve
  PROVE  LastTogether'
<1>1. PICK s : Solution(s)
  BY SolveIs
<1> DEFINE N == Len(timeline)
           n == Len(horizon.hrs)
           new == Solved(horizon, linked, s)
           m == tmps_to_link(horizon)
<1>2. /\ N \in Nat /\ n \in Nat \ {0} /\ Len(timeline') = N + n
      /\ ends \subseteq 1..N /\ ends' = ends \cup {N + n}
  BY <1>1, Extended
<1>3. linked' = [l \in 1..m |-> new[n + 1 - l]]
  BY <1>1 DEF Solution, HandedOver
<1>4. m \in Nat /\ m <= n
  <2> DEFINE S == {LinkedTmps, n}
  <2>1. LinkedTmps \in Nat /\ n \in Nat
    BY <1>2, HorizonAssumption
  <2>2. \E k \in S : \A j \in S : k <= j
    BY <2>1
  <2>3. Min(S) \in S /\ \A j \in S : Min(S) <= j
    BY <2>2 DEF Min
  <2>4. m = Min(S)
    BY DEF tmps_to_link
  <2> HIDE DEF m
  <2> QED
    BY <2>1, <2>3, <2>4
<1> HIDE DEF N, n, new, m
<1> SUFFICES ASSUME NEW l \in DOMAIN linked', NEW e \in ends'
             PROVE  e < Len(timeline') + 1 - l \/ e >= Len(timeline')
  BY DEF LastTogether, SolvedTogether
<1>5. l \in 1..m
  BY <1>3
<1>6. l \in Nat /\ l <= n
  BY <1>2, <1>4, <1>5
<1> QED
  BY <1>2, <1>6

(* As hours on the timeline those to a linked timepoint are no fewer.      *)
LEMMA ApartFromLinked ==
  ASSUME IInv, NEW l \in DOMAIN linked,
         NEW j \in (Len(timeline) + 1 - l)..Len(timeline)
  PROVE  /\ Apart(Len(timeline) + 1 - l, j) \in Nat /\ LinkedHours(linked, l) \in Nat
         /\ Apart(Len(timeline) + 1 - l, j) <= LinkedHours(linked, l)
<1> DEFINE N == Len(timeline)
           i == N + 1 - l
<1>1. /\ timeline \in Seq(Instants) /\ linked \in Seq(Instants)
      /\ N \in Nat /\ Len(linked) \in Nat /\ Len(linked) <= N
      /\ \A m \in DOMAIN linked : linked[m] = timeline[N + 1 - m]
  BY DEF IInv, TimelineInv, LinkedInv
<1>2. l \in 1..N /\ 1..l \subseteq DOMAIN linked /\ N \in 0..Len(timeline)
  BY <1>1
<1>3. i \in 1..Len(timeline) /\ j \in i..Len(timeline)
  BY <1>1, <1>2
<1>4. i..(j - 1) \in SUBSET (i..N)
  BY <1>1, <1>3
<1>5. \A k \in 1..l : linked[k] = timeline[N + 1 - k]
  BY <1>1, <1>2
<1>6. i = N + 1 - l
  OBVIOUS
<1> HIDE DEF i
<1>7. /\ Natural(HrsOf(timeline), i..N)
      /\ LinkedHours(linked, l) = Sum(HrsOf(timeline), i..N)
  <2>1. /\ Natural(HrsOf(timeline), (N + 1 - l)..N)
        /\ LinkedHours(linked, l) = Sum(HrsOf(timeline), (N + 1 - l)..N)
    <3> HIDE DEF N
    <3> QED
      BY <1>1, <1>2, <1>5, LinkedHoursAre
  <2> QED
    BY <1>6, <2>1
<1>8. Apart(i, j) = Sum(HrsOf(timeline), i..(j - 1))
  BY <1>1, <1>3, ApartIsSum DEF Apart, ApartIn
<1>9. /\ Sum(HrsOf(timeline), i..(j - 1)) \in Nat /\ Sum(HrsOf(timeline), i..N) \in Nat
      /\ Sum(HrsOf(timeline), i..(j - 1)) <= Sum(HrsOf(timeline), i..N)
  <2>1. Natural(HrsOf(timeline), i..(j - 1))
    BY <1>4, <1>7, NaturalSubset
  <2> QED
    BY <1>4, <1>7, <2>1, SumOfPart, SumType
<1> QED
  BY <1>6, <1>7, <1>8, <1>9

(* A status kept along the timeline is kept among the linked timepoints.   *)
LEMMA TimelineHolds ==
  ASSUME IInv, LastTogether, NEW name, NEW to, NEW minTime \in Nat,
         \A i \in DOMAIN timeline : /\ timeline[i][name] \in 0..1
                                    /\ timeline[i][name] = 1 => timeline[i].commit = to,
         \A i \in 2..Len(timeline) :
           timeline[i][name] = 1 => timeline[i - 1].commit # to,
         \A i, j \in DOMAIN timeline :
           i < j /\ Known(i, j) /\ timeline[i][name] = 1 /\ Apart(i, j) < minTime
             => timeline[j].commit = to
  PROVE  HeldOver(horizon, linked, WasBefore(linked, to), minTime, name)
<1> DEFINE N == Len(timeline)
<1>1. /\ timeline \in Seq(Instants) /\ linked \in Seq(Instants)
      /\ N \in Nat /\ DOMAIN timeline = 1..N
      /\ DOMAIN linked = 1..Len(linked) /\ Len(linked) \in Nat /\ Len(linked) <= N
      /\ \A l \in DOMAIN linked : linked[l] = timeline[N + 1 - l]
  BY DEF IInv, TimelineInv, LinkedInv
<1>2. \A l \in DOMAIN linked : /\ l \in Nat /\ l <= N /\ l >= 1 /\ N + 1 - l \in 1..N
                               /\ linked[l] = timeline[N + 1 - l] /\ 1 \in DOMAIN linked
  BY <1>1
<1>3. ASSUME NEW l \in DOMAIN linked, linked[l][name] = 1,
             LinkedHours(linked, l) < minTime, NEW j \in (N + 1 - l)..N
      PROVE  timeline[j].commit = to
  <2> DEFINE i == N + 1 - l
  <2>1. i \in 1..N /\ j \in 1..N /\ timeline[i][name] = 1 /\ i \in Nat /\ j \in Nat
        /\ (i = j \/ i < j)
    BY <1>1, <1>2, <1>3
  <2>2. Apart(i, j) < minTime
    <3>1. /\ Apart(i, j) \in Nat /\ LinkedHours(linked, l) \in Nat
          /\ Apart(i, j) <= LinkedHours(linked, l)
      BY ApartFromLinked
    <3> HIDE DEF i
    <3> QED
      BY <1>3, <3>1
  <2>3. Known(i, j)
    <3>1. \A e \in ends : e < i \/ e >= N
      BY DEF LastTogether, SolvedTogether
    <3>2. \A e \in ends : e \in Nat
      BY DEF IInv, TimelineInv
    <3>3. j <= N
      BY <1>1
    <3> HIDE DEF i, N
    <3>4. \A e \in ends : e < i \/ e >= j
      BY <1>1, <2>1, <3>1, <3>2, <3>3
    <3> QED
      BY <3>4 DEF Known, SolvedTogether
  <2> HIDE DEF i
  <2> QED
    BY <1>1, <2>1, <2>2, <2>3
<1>4. \A l \in DOMAIN linked : linked[l][name] \in 0..1
  BY <1>1, <1>2
<1>5. ASSUME NEW l \in DOMAIN linked, NEW m \in DOMAIN linked, l < m,
             LinkedHours(linked, m) < minTime, linked[m][name] = 1, linked[l][name] = 1
      PROVE  FALSE
  <2> DEFINE i == N + 1 - l
  <2>1. i \in 2..N /\ i - 1 \in (N + 1 - m)..N /\ timeline[i][name] = 1
    BY <1>1, <1>2, <1>5
  <2>2. timeline[i - 1].commit = to
    BY <1>3, <1>5, <2>1
  <2> QED
    BY <2>1, <2>2
<1>6. ASSUME NEW l \in DOMAIN linked, linked[l][name] = 1,
             LinkedHours(linked, l) < minTime
      PROVE  WasBefore(linked, to) = 1
  <2>1. N \in (N + 1 - l)..N /\ N + 1 - 1 = N
    BY <1>1, <1>2
  <2>2. timeline[N].commit = to
    BY <1>3, <1>6, <2>1
  <2>3. linked[1] = timeline[N]
    BY <1>2, <2>1
  <2> QED
    BY <2>2, <2>3 DEF WasBefore
<1>7. ASSUME NEW l \in DOMAIN linked, NEW m \in DOMAIN linked, l < m,
             LinkedHours(linked, m) < minTime
      PROVE  linked[l][name] = 0 \/ linked[m][name] = 0
  <2>1. linked[l][name] \in {0, 1} /\ linked[m][name] \in {0, 1}
    BY <1>4
  <2>2. ~(linked[l][name] = 1 /\ linked[m][name] = 1)
    BY <1>5, <1>7
  <2> QED
    BY <2>1, <2>2
<1> QED
  BY <1>4, <1>6, <1>7 DEF HeldOver

(* So what a linked horizon is given is as it should be.                   *)
LEMMA LinkedHolds ==
  ASSUME IInv, ExactInv, Loaded
  PROVE  Linked(unit, horizon, linked)
<1>1. /\ timeline \in Seq(Instants) /\ Len(timeline) \in Nat
      /\ \A i \in DOMAIN timeline : timeline[i] \in Instants
      /\ DOMAIN timeline = 1..Len(timeline)
  BY DEF IInv, TimelineInv
<1>2. unit.minUp \in Nat /\ unit.minDown \in Nat
  BY UnitsAssumption DEF IInv
<1>3. \A i \in DOMAIN timeline : /\ timeline[i].startup \in 0..1
                                 /\ timeline[i].shutdown \in 0..1
                                 /\ timeline[i].commit \in 0..1
  BY <1>1 DEF Instants
<1>4. \A i \in 2..Len(timeline) :
        /\ i \in DOMAIN timeline /\ i - 1 \in DOMAIN timeline
        /\ timeline[i].startup = 1 <=> timeline[i].commit > timeline[i - 1].commit
        /\ timeline[i].shutdown = 1 <=> timeline[i].commit < timeline[i - 1].commit
  BY <1>1 DEF IInv, StateCarriedOver, FlagsAreChanges
<1>5. \A i \in 2..Len(timeline) :
        /\ timeline[i].startup = 1 => timeline[i - 1].commit # 1
        /\ timeline[i].shutdown = 1 => timeline[i - 1].commit # 0
  BY <1>3, <1>4
<1>6. \A i, j \in DOMAIN timeline : i < j /\ Known(i, j) =>
        /\ timeline[i].startup = 1 /\ Apart(i, j) < unit.minUp => timeline[j].commit = 1
        /\ timeline[i].shutdown = 1 /\ Apart(i, j) < unit.minDown => timeline[j].commit = 0
  BY DEF IInv, StateCarriedOver, TimesKeptAcrossSubproblems
<1>7. HeldOver(horizon, linked, WasBefore(linked, 1), unit.minUp, "startup")
  <2>1. LastTogether /\ unit.minUp \in Nat
    BY <1>2 DEF ExactInv
  <2>2. \A i \in DOMAIN timeline : /\ timeline[i]["startup"] \in 0..1
                                   /\ timeline[i]["startup"] = 1 => timeline[i].commit = 1
    BY <1>3 DEF ExactInv, OnWhenStarted
  <2>3. \A i \in 2..Len(timeline) :
          timeline[i]["startup"] = 1 => timeline[i - 1].commit # 1
    BY <1>5
  <2>4. \A i, j \in DOMAIN timeline :
          i < j /\ Known(i, j) /\ timeline[i]["startup"] = 1 /\ Apart(i, j) < unit.minUp
            => timeline[j].commit = 1
    BY <1>6
  <2> QED
    BY <2>1, <2>2, <2>3, <2>4, TimelineHolds
<1>8. HeldOver(horizon, linked, WasBefore(linked, 0), unit.minDown, "shutdown")
  <2>1. LastTogether /\ unit.minDown \in Nat
    BY <1>2 DEF ExactInv
  <2>2. \A i \in DOMAIN timeline : /\ timeline[i]["shutdown"] \in 0..1
                                   /\ timeline[i]["shutdown"] = 1 => timeline[i].commit = 0
    BY <1>3 DEF ExactInv, OffWhenShutDown
  <2>3. \A i \in 2..Len(timeline) :
          timeline[i]["shutdown"] = 1 => timeline[i - 1].commit # 0
    BY <1>5
  <2>4. \A i, j \in DOMAIN timeline :
          i < j /\ Known(i, j) /\ timeline[i]["shutdown"] = 1 /\ Apart(i, j) < unit.minDown
            => timeline[j].commit = 0
    BY <1>6
  <2> QED
    BY <2>1, <2>2, <2>3, <2>4, TimelineHolds
<1>9. linked \in Seq(Instants) /\ (horizon.boundary = "linked" => linked # <<>>)
  BY DEF IInv, LinkedInv, HorizonInv, Loaded
<1> QED
  BY <1>7, <1>8, <1>9 DEF Linked

(* And this in every reachable state.                                      *)
LEMMA ExactInvariant == Spec => []ExactInv
<1>1. Init => ExactInv
  BY InitExact
<1>2. IInv /\ ExactInv /\ [Next]_vars => ExactInv'
  <2> SUFFICES ASSUME IInv, ExactInv, [Next]_vars PROVE ExactInv'
    OBVIOUS
  <2>1. CASE LoadData
    BY <2>1, LoadDataExact
  <2>2. CASE Solve
    <3>1. PositiveInv'
      BY <2>2 DEF Solve, PositiveInv
    <3> QED
      BY <2>2, <3>1, SolveTogether, SolveAgrees DEF ExactInv
  <2>3. CASE Done \/ UNCHANGED vars
    <3>1. UNCHANGED <<linked, timeline, ends, phase, horizon>>
      BY <2>3 DEF Done, vars
    <3>2. PositiveInv'
      BY <3>1 DEF ExactInv, PositiveInv, Positive, Tmps
    <3> QED
      BY <3>1, <3>2, SameExact
  <2> QED
    BY <2>1, <2>2, <2>3 DEF Next
<1> QED
  BY <1>1, <1>2, CommitmentInvariant, PTL DEF Spec

(* The windows of determine_relevant_timepoints, the constraints left to   *)
(* later timepoints (min_up_time_constraint_rule,                          *)
(* min_down_time_constraint_rule of gen_commit_bin) and the linked         *)
(* timepoints allow exactly the commitments that keep their times in hours *)
(* on the clock, in a linear, a circular and a linked horizon, for any     *)
(* units and any horizons.                                                 *)
THEOREM CommitmentsExact == Spec => []CommitmentsAreExact
<1>1. IInv /\ ExactInv => CommitmentsAreExact
  <2> SUFFICES ASSUME IInv, ExactInv, Loaded
               PROVE  {s.commit : s \in Feasible(unit, horizon, linked)}
                        = Allowed(unit, horizon, linked)
    BY DEF CommitmentsAreExact
  <2>1. unit \in Units /\ Hours(horizon) /\ Positive(horizon)
    BY DEF IInv, HorizonInv, ExactInv, PositiveInv, Loaded
  <2> QED
    BY <2>1, LinkedHolds, FeasibleIsAllowed
<1> QED
  BY <1>1, CommitmentInvariant, ExactInvariant, PTL

(* Outages of availability type binary last as long and are as far apart   *)
(* as event_min_duration_rule and min_time_between_events_rule are to make *)
(* them: no outage is forbidden that keeps to the hours on the clock, and  *)
(* none allowed that does not.                                             *)
THEOREM OutagesExact == Spec => []OutagesAreExact
<1>1. IInv /\ ExactInv => OutagesAreExact
  <2> SUFFICES ASSUME IInv, ExactInv, Loaded, horizon.boundary # "linked"
               PROVE  AvlBinFeasible(unit, horizon) = Allowed(unit, horizon, <<>>)
    BY DEF OutagesAreExact
  <2>1. unit \in Units /\ Hours(horizon) /\ Positive(horizon)
    BY DEF IInv, HorizonInv, ExactInv, PositiveInv, Loaded
  <2> QED
    BY <2>1, OutagesAllowed
<1> QED
  BY <1>1, CommitmentInvariant, ExactInvariant, PTL

------------------------------------------------------------------------------
(* The committed capacity of a fleet of two units.                         *)

(* The events in a window of a linear horizon are those since its first    *)
(* timepoint.                                                              *)
First(h, t, minTime) == t - Cardinality(Steps(h, t, minTime))

(* The window is a span that ends with t, and all of the minimum time      *)
(* before t.                                                               *)
LEMMA WindowOfLinear ==
  ASSUME NEW h, Hours(h), h.boundary = "linear", NEW t \in Tmps(h),
         NEW minTime \in Nat, NEW event, \A i \in Tmps(h) : event[i] \in Nat,
         NEW lnk, NEW name
  PROVE  /\ First(h, t, minTime) \in 1..t
         /\ EventsIn(h, t, minTime, event, lnk, name)
              = Sum(event, First(h, t, minTime)..t)
         /\ \A i \in 1..t : Held(i, t, h.hrs, minTime) => First(h, t, minTime) <= i
<1> DEFINE tmps == RelevantTmps(h, t, minTime)
           w == [i \in DOMAIN tmps |-> event[tmps[i]]]
           v == [l \in RelevantLinked(h, lnk, t, minTime) |-> lnk[l][name]]
           f == First(h, t, minTime)
<1>1. t \in Nat \ {0} /\ Reach(h, t) = t - 1 /\ 1..t \subseteq Tmps(h)
  BY TmpsAre DEF Reach
<1>2. PICK n \in 0..Reach(h, t) :
        /\ Steps(h, t, minTime) = 1..n
        /\ tmps = [i \in 1..(n + 1) |-> Back(h, t, i - 1)]
  BY StepsAre
<1>3. n \in Nat /\ n <= t - 1 /\ f = t - n /\ f \in 1..t
  <2>1. n \in Nat /\ n <= t - 1
    BY <1>1
  <2>2. Cardinality(1..n) = n
    BY <2>1, FS_Interval
  <2> QED
    BY <1>1, <1>2, <2>1, <2>2 DEF First
<1> DEFINE b == [i \in 1..(n + 1) |-> t - (i - 1)]
<1>4. \A i \in 1..(n + 1) : w[i] = event[b[i]] /\ b[i] \in f..t
  <2> SUFFICES ASSUME NEW i \in 1..(n + 1)
               PROVE  w[i] = event[b[i]] /\ b[i] \in f..t
    OBVIOUS
  <2>1. i - 1 \in Nat /\ i - 1 < t /\ b[i] = t - (i - 1) /\ b[i] \in f..t
    <3> HIDE DEF f
    <3> QED
      BY <1>1, <1>3
  <2>2. tmps[i] = Back(h, t, i - 1) /\ DOMAIN tmps = 1..(n + 1)
    BY <1>2
  <2>3. Back(h, t, i - 1) = t - (i - 1)
    BY <2>1, BackIs
  <2> QED
    BY <2>1, <2>2, <2>3
<1>5. Natural(event, f..t)
  <2>1. IsFiniteSet(f..t) /\ f..t \subseteq Tmps(h)
    <3> HIDE DEF f
    <3> QED
      BY <1>1, <1>3, FS_Interval
  <2> QED
    BY <2>1 DEF Natural
<1>6. Relabels(b, 1..(n + 1), f..t)
  <2>1. \A j \in f..t : t - j + 1 \in 1..(n + 1) /\ b[t - j + 1] = j
    <3> HIDE DEF f
    <3> QED
      BY <1>1, <1>3
  <2>2. \A i, j \in 1..(n + 1) : b[i] = b[j] => i = j
    BY <1>1, <1>3
  <2> HIDE DEF b, f, w
  <2>3. {b[i] : i \in 1..(n + 1)} = f..t
    BY <1>4, <2>1
  <2> QED
    BY <2>2, <2>3 DEF Relabels
<1>7. DOMAIN w = 1..(n + 1) /\ DOMAIN v = {}
  BY <1>2 DEF RelevantLinked
<1>8. EventsIn(h, t, minTime, event, lnk, name) = SumFunction(w) + SumFunction(v)
  BY DEF EventsIn
<1> HIDE DEF w, v, b, f
<1>9. Natural(w, 1..(n + 1)) /\ SameUnder(b, w, event, 1..(n + 1))
  <2>1. IsFiniteSet(1..(n + 1))
    BY <1>3, FS_Interval
  <2> QED
    BY <1>4, <1>5, <2>1 DEF Natural, SameUnder
<1>10. Sum(w, 1..(n + 1)) = Sum(event, f..t)
  BY <1>5, <1>6, <1>9, SumReindexed
<1>11. SumFunction(v) = 0 /\ SumFunction(w) = Sum(w, 1..(n + 1))
  BY <1>7, SumEmpty DEF SumFunction, Sum
<1>12. Sum(w, 1..(n + 1)) \in Nat
  BY <1>9, SumType
<1>13. ASSUME NEW i \in 1..t, Held(i, t, h.hrs, minTime) PROVE f <= i
  <2>1. t - i \in {0} \cup Steps(h, t, minTime)
    BY <1>13, InWindow
  <2> QED
    BY <1>1, <1>2, <1>3, <2>1
<1> QED
  BY <1>3, <1>8, <1>10, <1>11, <1>12, <1>13 DEF f

(* Changes add up.                                                         *)
LEMMA Telescope ==
  ASSUME NEW h, Hours(h), NEW x, NEW up, NEW down,
         \A t \in Tmps(h) : x[t] \in Nat /\ up[t] \in Nat /\ down[t] \in Nat,
         up[1] = 0, down[1] = 0,
         \A t \in Tmps(h) : t > 1 => x[t] - x[t - 1] = up[t] - down[t]
  PROVE  \A t \in Tmps(h) :
           /\ Sum(up, 1..t) \in Nat /\ Sum(down, 1..t) \in Nat
           /\ x[t] = (x[1] + Sum(up, 1..t)) - Sum(down, 1..t)
<1>1. /\ Tmps(h) = 1..Len(h.hrs) /\ Len(h.hrs) \in Nat \ {0}
      /\ \A t \in Tmps(h) : t \in Nat \ {0} /\ 1..t \subseteq Tmps(h)
  BY TmpsAre
<1>2. ASSUME NEW t \in Tmps(h)
      PROVE  /\ Natural(up, 1..t) /\ Natural(down, 1..t)
             /\ Sum(up, 1..t) \in Nat /\ Sum(down, 1..t) \in Nat
  <2>1. IsFiniteSet(1..t)
    BY <1>1, FS_Interval
  <2>2. Natural(up, 1..t) /\ Natural(down, 1..t)
    BY <1>1, <2>1 DEF Natural
  <2> QED
    BY <2>2, SumType
<1> DEFINE Bad == {t \in Tmps(h) : x[t] # (x[1] + Sum(up, 1..t)) - Sum(down, 1..t)}
<1>3. ASSUME Bad # {} PROVE FALSE
  <2>1. PICK t \in Bad : \A r \in Bad : t <= r
    <3>1. Bad \in SUBSET Nat
      BY <1>1
    <3> HIDE DEF Bad
    <3> QED
      BY <1>3, <3>1, LeastNatural
  <2>2. t \in Tmps(h) /\ t \in Nat \ {0} /\ t \in 1..t
    BY <1>1
  <2>3. /\ Sum(up, 1..t) = up[t] + Sum(up, (1..t) \ {t})
        /\ Sum(down, 1..t) = down[t] + Sum(down, (1..t) \ {t})
    <3>1. Natural(up, 1..t) /\ Natural(down, 1..t) /\ t \in 1..t
      BY <1>2, <2>2
    <3>2. Sum(up, 1..t) = up[t] + Sum(up, (1..t) \ {t})
      BY <3>1, SumRest
    <3>3. Sum(down, 1..t) = down[t] + Sum(down, (1..t) \ {t})
      BY <3>1, SumRest
    <3> QED
      BY <3>2, <3>3
  <2>4. (1..t) \ {t} = 1..(t - 1)
    BY <2>2
  <2>5. CASE t = 1
    <3>1. (1..t) \ {t} = {}
      BY <2>5
    <3>2. Sum(up, 1..t) = 0 /\ Sum(down, 1..t) = 0
      BY <2>3, <2>5, <3>1, SumEmpty
    <3>3. x[1] \in Nat
      BY <2>2, <2>5
    <3> QED
      BY <2>5, <3>2, <3>3
  <2>6. CASE t # 1
    <3>1. t - 1 \in Tmps(h) /\ t - 1 \in Nat /\ t > 1
      BY <1>1, <2>2, <2>6
    <3>2. t - 1 \notin Bad
      <4> HIDE DEF Bad
      <4> QED
        BY <2>1, <2>2, <3>1
    <3>3. x[t - 1] = (x[1] + Sum(up, 1..(t - 1))) - Sum(down, 1..(t - 1))
      BY <3>1, <3>2
    <3>4. x[t] - x[t - 1] = up[t] - down[t]
      BY <2>2, <3>1
    <3>5. /\ Sum(up, 1..(t - 1)) \in Nat /\ Sum(down, 1..(t - 1)) \in Nat
          /\ x[1] \in Nat /\ x[t] \in Nat /\ x[t - 1] \in Nat
          /\ up[t] \in Nat /\ down[t] \in Nat
      BY <1>1, <1>2, <2>2, <3>1
    <3>6. x[t] = (x[1] + Sum(up, 1..t)) - Sum(down, 1..t)
      <4> DEFINE U == Sum(up, 1..(t - 1))
                 D == Sum(down, 1..(t - 1))
                 more == Sum(up, 1..t)
                 less == Sum(down, 1..t)
                 start == x[1]
                 now == x[t]
                 before == x[t - 1]
                 p == up[t]
                 q == down[t]
      <4>1. more = p + U /\ less = q + D
        BY <2>3, <2>4
      <4>2. before = (start + U) - D /\ now - before = p - q
        BY <3>3, <3>4
      <4>3. /\ U \in Nat /\ D \in Nat /\ start \in Nat /\ now \in Nat
            /\ before \in Nat /\ p \in Nat /\ q \in Nat
        BY <3>5
      <4> HIDE DEF U, D, more, less, start, now, before, p, q
      <4>4. now = (start + more) - less
        BY <4>1, <4>2, <4>3
      <4> QED
        BY <4>4 DEF now, start, more, less
    <3> QED
      BY <2>1, <3>6
  <2> QED
    BY <2>5, <2>6
<1> QED
  BY <1>2, <1>3

(* Two units in turn: the odd starts and stops are of one, the even ones   *)
(* of the other.  Started are T[t] units until t, stopped Q[t].            *)
InTurn(h, T, Q, c) == [t \in Tmps(h) |-> ((T[t] + c) \div 2) - ((Q[t] + c) \div 2)]
Counts(h, T, Q) ==
  /\ \A t \in Tmps(h) : T[t] \in Nat /\ Q[t] \in Nat /\ T[t] - Q[t] \in 0..2
  /\ \A i, j \in Tmps(h) : i <= j => T[i] <= T[j] /\ Q[i] <= Q[j]

(* Half of a number, and of the next one.                                  *)
LEMMA Half ==
  ASSUME NEW n \in Nat
  PROVE  /\ n \div 2 \in Nat /\ 2 * (n \div 2) <= n /\ n < 2 * (n \div 2) + 2
         /\ (n \div 2) + ((n + 1) \div 2) = n
         /\ (n + 2) \div 2 = (n \div 2) + 1
  OBVIOUS

(* Each of the two units is on or off.                                     *)
LEMMA InTurnType ==
  ASSUME NEW h, NEW T, NEW Q, Counts(h, T, Q), NEW c \in {0, 1}, NEW t \in Tmps(h)
  PROVE  InTurn(h, T, Q, c)[t] \in 0..1
<1>1. T[t] + c \in Nat /\ Q[t] + c \in Nat /\ T[t] - Q[t] \in 0..2
  BY DEF Counts
<1> DEFINE p == (T[t] + c) \div 2
           q == (Q[t] + c) \div 2
<1>2. /\ p \in Nat /\ 2 * p <= T[t] + c /\ T[t] + c < 2 * p + 2
      /\ q \in Nat /\ 2 * q <= Q[t] + c /\ Q[t] + c < 2 * q + 2
  BY <1>1, Half
<1>3. InTurn(h, T, Q, c)[t] = p - q
  BY DEF InTurn
<1>4. T[t] \in Nat /\ Q[t] \in Nat /\ c \in 0..1
  BY DEF Counts
<1> HIDE DEF p, q
<1>5. p - q >= 0 /\ p - q <= 1
  <2>1. CASE c = 0
    BY <1>1, <1>2, <1>4, <2>1
  <2>2. CASE c = 1
    BY <1>1, <1>2, <1>4, <2>2
  <2> QED
    BY <2>1, <2>2
<1> QED
  BY <1>2, <1>3, <1>5

(* A unit in turn that is on stays on until as many units were stopped as  *)
(* had been started before it.                                             *)
LEMMA InTurnKept ==
  ASSUME NEW h, NEW T, NEW Q, Counts(h, T, Q), NEW c \in {0, 1},
         NEW r \in Tmps(h), NEW i \in Tmps(h), NEW j \in Tmps(h), r <= i, i <= j,
         InTurn(h, T, Q, c)[r] = 0, InTurn(h, T, Q, c)[i] = 1, Q[j] <= T[r]
  PROVE  InTurn(h, T, Q, c)[j] = 1
<1>1. ASSUME NEW t \in Tmps(h)
      PROVE  \E p, q \in Nat : /\ p = (T[t] + c) \div 2 /\ q = (Q[t] + c) \div 2
                               /\ 2 * p <= T[t] + c /\ T[t] + c < 2 * p + 2
                               /\ 2 * q <= Q[t] + c /\ Q[t] + c < 2 * q + 2
                               /\ InTurn(h, T, Q, c)[t] = p - q
  <2>1. T[t] \in Nat /\ Q[t] \in Nat /\ T[t] + c \in Nat /\ Q[t] + c \in Nat
    BY DEF Counts
  <2> QED
    BY <2>1, Half DEF InTurn
<1>2. PICK a, b \in Nat : /\ 2 * a <= T[r] + c /\ T[r] + c < 2 * a + 2
                          /\ 2 * b <= Q[r] + c /\ Q[r] + c < 2 * b + 2
                          /\ InTurn(h, T, Q, c)[r] = a - b
  BY <1>1
<1>3. PICK d, e \in Nat : /\ 2 * d <= T[i] + c /\ T[i] + c < 2 * d + 2
                          /\ 2 * e <= Q[i] + c /\ Q[i] + c < 2 * e + 2
                          /\ InTurn(h, T, Q, c)[i] = d - e
  BY <1>1
<1>4. PICK f, g \in Nat : /\ 2 * f <= T[j] + c /\ T[j] + c < 2 * f + 2
                          /\ 2 * g <= Q[j] + c /\ Q[j] + c < 2 * g + 2
                          /\ InTurn(h, T, Q, c)[j] = f - g
  BY <1>1
<1>5. /\ T[i] <= T[j] /\ Q[r] <= Q[i] /\ c \in Nat
      /\ \A t \in Tmps(h) : T[t] \in Nat /\ Q[t] \in Nat
  BY DEF Counts
<1>6. a = b /\ d = e + 1
  BY <1>2, <1>3
<1>7. b <= e
  <2>1. 2 * b < 2 * e + 2
    BY <1>2, <1>3, <1>5
  <2> QED
    BY <1>2, <1>3, <2>1
<1>8. d <= f
  <2>1. 2 * d < 2 * f + 2
    BY <1>3, <1>4, <1>5
  <2> QED
    BY <1>3, <1>4, <2>1
<1>9. g < a + 1
  <2>1. 2 * g < 2 * a + 2
    BY <1>2, <1>4, <1>5
  <2> QED
    BY <1>2, <1>4, <2>1
<1>10. f - g > 0
  BY <1>2, <1>3, <1>4, <1>6, <1>7, <1>8, <1>9
<1>11. InTurn(h, T, Q, c)[j] \in 0..1
  BY InTurnType
<1> QED
  BY <1>4, <1>10, <1>11

(* Sums of fewer starts than two others have are no larger than theirs     *)
(* together.                                                               *)
LEMMA SumAtMostSums ==
  ASSUME NEW f, NEW d, NEW e, NEW S, Natural(f, S), Natural(d, S), Natural(e, S),
         \A s \in S : f[s] <= d[s] + e[s]
  PROVE  Sum(f, S) <= Sum(d, S) + Sum(e, S)
<1> DEFINE Bad == {s \in SUBSET S : ~(Sum(f, s) <= Sum(d, s) + Sum(e, s))}
<1>1. ASSUME Bad # {} PROVE FALSE
  <2>1. \A s \in Bad : IsFiniteSet(s)
    BY FS_Subset DEF Natural
  <2>2. PICK s \in Bad : \A r \in Bad : Cardinality(s) <= Cardinality(r)
    <3> HIDE DEF Bad
    <3> QED
      BY <1>1, <2>1, SmallestSet
  <2>3. /\ s \in SUBSET S /\ IsFiniteSet(s) /\ ~(Sum(f, s) <= Sum(d, s) + Sum(e, s))
        /\ Natural(f, s) /\ Natural(d, s) /\ Natural(e, s)
    BY <2>1, <2>2, NaturalSubset
  <2>4. PICK y \in s : TRUE
    BY <2>3, SumEmpty
  <2>5. s \ {y} \notin Bad
    <3>1. Cardinality(s) \in Nat /\ Cardinality(s \ {y}) = Cardinality(s) - 1
      BY <2>3, <2>4, FS_CardinalityType, FS_RemoveElement
    <3> HIDE DEF Bad
    <3> QED
      BY <2>2, <3>1
  <2>6. Sum(f, s \ {y}) <= Sum(d, s \ {y}) + Sum(e, s \ {y})
    BY <2>3, <2>5
  <2>7. /\ Natural(f, s \ {y}) /\ Natural(d, s \ {y}) /\ Natural(e, s \ {y})
    BY <2>3, NaturalSubset
  <2>8. /\ Sum(f, s) = f[y] + Sum(f, s \ {y})
        /\ Sum(d, s) = d[y] + Sum(d, s \ {y})
        /\ Sum(e, s) = e[y] + Sum(e, s \ {y})
    <3>1. Sum(f, s) = f[y] + Sum(f, s \ {y})
      BY <2>3, <2>4, SumRest
    <3>2. Sum(d, s) = d[y] + Sum(d, s \ {y})
      BY <2>3, <2>4, SumRest
    <3>3. Sum(e, s) = e[y] + Sum(e, s \ {y})
      BY <2>3, <2>4, SumRest
    <3> QED
      BY <3>1, <3>2, <3>3
  <2>9. /\ Sum(f, s \ {y}) \in Nat /\ Sum(d, s \ {y}) \in Nat /\ Sum(e, s \ {y}) \in Nat
    BY <2>7, SumType
  <2>10. f[y] \in Nat /\ d[y] \in Nat /\ e[y] \in Nat /\ f[y] <= d[y] + e[y]
    BY <2>3, <2>4 DEF Natural
  <2> QED
    BY <2>3, <2>6, <2>8, <2>9, <2>10
<1> QED
  BY <1>1

(* What a fleet starts and stops in a linear horizon.                      *)
Levels(h) == [Tmps(h) -> Nat]

(* They are what the level rises and falls by.                             *)
LEMMA StartedIs ==
  ASSUME NEW h, Hours(h), h.boundary = "linear", NEW lnk, NEW x \in Levels(h),
         NEW t \in Tmps(h)
  PROVE  /\ startup(h, lnk, x)[t]
              = IF t > 1 /\ x[t] > x[t - 1] THEN x[t] - x[t - 1] ELSE 0
         /\ shutdown(h, lnk, x)[t]
              = IF t > 1 /\ x[t] < x[t - 1] THEN x[t - 1] - x[t] ELSE 0
         /\ startup(h, lnk, x)[t] \in Nat /\ shutdown(h, lnk, x)[t] \in Nat
         /\ startup(h, lnk, x)[t] <= x[t]
         /\ t > 1 => /\ t - 1 \in Tmps(h)
                     /\ x[t] - x[t - 1] = startup(h, lnk, x)[t] - shutdown(h, lnk, x)[t]
<1> DEFINE c == Change(h, lnk, x, t)
<1>1. Len(h.hrs) \in Nat /\ Tmps(h) = 1..Len(h.hrs) /\ t \in Nat \ {0}
  BY TmpsAre
<1>2. startup(h, lnk, x)[t] = Max({0, c}) /\ shutdown(h, lnk, x)[t] = Max({0, -c})
  BY DEF startup, shutdown
<1>3. CASE t = 1
  <2>1. c = 0
    BY <1>3 DEF Change, FirstOf
  <2>2. -c = 0
    <3>1. \A d \in Int : -d = 0 - d
      OBVIOUS
    <3> HIDE DEF c
    <3>2. c \in Int /\ 0 - c = 0
      BY <2>1
    <3>3. -c = 0 - c
      BY <3>1, <3>2, Zenon
    <3> QED
      BY <3>2, <3>3, Zenon
  <2>3. 0 \in Int /\ ~(0 > 0)
    OBVIOUS
  <2> HIDE DEF c
  <2>4. Max({0, c}) = 0 /\ Max({0, -c}) = 0
    BY <2>1, <2>2, <2>3, LargerIs
  <2>5. x[t] \in Nat
    BY DEF Levels
  <2> QED
    BY <1>2, <1>3, <2>4, <2>5
<1>4. CASE t # 1
  <2>1. t > 1 /\ t - 1 \in Tmps(h) /\ x[t] \in Nat /\ x[t - 1] \in Nat
    BY <1>1, <1>4 DEF Levels
  <2>2. Back(h, t, 1) = t - 1
    <3>1. 1 \in Nat /\ 1 < t
      BY <2>1
    <3> QED
      BY <3>1, BackIs
  <2>3. c = x[t] - x[t - 1]
    BY <1>4, <2>2 DEF Change, FirstOf, PrevCommit
  <2> HIDE DEF c
  <2>4. c \in Int /\ -c \in Int /\ -c = x[t - 1] - x[t]
    BY <2>1, <2>3
  <2>5. /\ Max({0, c}) = IF c > 0 THEN c ELSE 0
        /\ Max({0, -c}) = IF -c > 0 THEN -c ELSE 0
    BY <2>4, LargerIs
  <2>6. /\ startup(h, lnk, x)[t] = IF x[t] > x[t - 1] THEN x[t] - x[t - 1] ELSE 0
        /\ shutdown(h, lnk, x)[t] = IF x[t] < x[t - 1] THEN x[t - 1] - x[t] ELSE 0
    BY <1>2, <2>1, <2>3, <2>4, <2>5
  <2> QED
    BY <2>1, <2>6
<1> QED
  BY <1>3, <1>4

(* The constraints on it, as sums since the first timepoint of the window. *)
LEMMA CapIs ==
  ASSUME NEW h, Hours(h), h.boundary = "linear", NEW lnk, NEW capacity \in Nat,
         NEW x \in Profiles(h, capacity), NEW minTime \in Nat, NEW t \in Tmps(h)
  PROVE  /\ cap_min_up_time(minTime, h, lnk, x, t)
              <=> x[t] >= Sum(startup(h, lnk, x), First(h, t, minTime)..t)
         /\ cap_min_down_time(minTime, h, lnk, x, t, capacity)
              <=> capacity - x[t] >= Sum(shutdown(h, lnk, x), First(h, t, minTime)..t)
<1> DEFINE up == startup(h, lnk, x)
           down == shutdown(h, lnk, x)
           f == First(h, t, minTime)
<1>1. /\ x \in Levels(h) /\ \A i \in Tmps(h) : x[i] \in Nat /\ x[i] <= capacity
      /\ t \in Nat \ {0} /\ capacity - x[t] \in Nat
  BY TmpsAre DEF Profiles, Levels
<1>2. \A i \in Tmps(h) : up[i] \in Nat /\ down[i] \in Nat
  BY <1>1, StartedIs
<1>3. up[t] <= x[t] /\ down[t] <= capacity - x[t]
  <2>1. /\ down[t] = IF t > 1 /\ x[t] < x[t - 1] THEN x[t - 1] - x[t] ELSE 0
        /\ up[t] <= x[t]
        /\ t > 1 => t - 1 \in Tmps(h)
    BY <1>1, StartedIs
  <2> HIDE DEF up, down
  <2> QED
    BY <1>1, <2>1
<1> HIDE DEF up, down
<1>4. EventsIn(h, t, minTime, up, lnk, "startup") = Sum(up, f..t)
  BY <1>2, WindowOfLinear
<1>5. EventsIn(h, t, minTime, down, lnk, "shutdown") = Sum(down, f..t)
  BY <1>2, WindowOfLinear
<1>6. ASSUME OnlyItself(h, lnk, t, minTime)
      PROVE  Sum(up, f..t) = up[t] /\ Sum(down, f..t) = down[t]
  <2>1. PICK n \in 0..Reach(h, t) :
          /\ Steps(h, t, minTime) = 1..n
          /\ RelevantTmps(h, t, minTime) = [i \in 1..(n + 1) |-> Back(h, t, i - 1)]
    BY StepsAre
  <2>2. n \in Nat /\ Len(RelevantTmps(h, t, minTime)) = n + 1
    BY <2>1, HoursAtType
  <2>3. n = 0
    BY <1>6, <2>2 DEF OnlyItself
  <2>4. f = t
    <3>1. 1..0 = {}
      OBVIOUS
    <3>2. Steps(h, t, minTime) = {}
      BY <2>1, <2>3, <3>1
    <3> QED
      BY <1>1, <3>2, FS_EmptySet DEF First
  <2>5. f..t = {t} /\ t \in {t} /\ {t} \ {t} = {}
    BY <1>1, <2>4
  <2>6. Natural(up, {t}) /\ Natural(down, {t})
    BY <1>2, FS_Singleton DEF Natural
  <2>7. Sum(up, {t}) = up[t] + Sum(up, {})
    BY <2>5, <2>6, SumRest
  <2>8. Sum(down, {t}) = down[t] + Sum(down, {})
    BY <2>5, <2>6, SumRest
  <2>9. Sum(up, {}) = 0 /\ Sum(down, {}) = 0 /\ up[t] \in Nat /\ down[t] \in Nat
    BY <1>2, SumEmpty
  <2> HIDE DEF f
  <2>10. Sum(up, {t}) = up[t] /\ Sum(down, {t}) = down[t]
    BY <2>7, <2>8, <2>9
  <2> QED
    BY <2>5, <2>10
<1>7. /\ OnlyItself(h, lnk, t, minTime) => x[t] >= Sum(up, f..t)
      /\ OnlyItself(h, lnk, t, minTime) => capacity - x[t] >= Sum(down, f..t)
  <2> HIDE DEF f
  <2> QED
    BY <1>1, <1>2, <1>3, <1>6
<1> QED
  BY <1>4, <1>5, <1>7 DEF cap_min_up_time, cap_min_down_time, up, down

(* For each of the allowed commitments of one unit, the same with sums.     *)
LEMMA AllowedIsCap ==
  ASSUME NEW u \in Units, NEW h, Hours(h), Positive(h), h.boundary = "linear",
         NEW lnk, Linked(u, h, lnk), NEW x \in Flags(h)
  PROVE  x \in Allowed(u, h, lnk) <=>
           \A t \in Tmps(h) :
             /\ x[t] >= Sum(startup(h, lnk, x), First(h, t, u.minUp)..t)
             /\ 1 - x[t] >= Sum(shutdown(h, lnk, x), First(h, t, u.minDown)..t)
<1>1. x \in Profiles(h, 1) /\ 1 \in Nat /\ u.minUp \in Nat /\ u.minDown \in Nat
  BY UnitsAssumption DEF Profiles, Flags
<1>2. x \in Allowed(u, h, lnk) <=>
        \A t \in Tmps(h) : /\ cap_min_up_time(u.minUp, h, lnk, x, t)
                           /\ cap_min_down_time(u.minDown, h, lnk, x, t, 1)
  BY AllowedIsFitting, CapFits
<1> QED
  BY <1>1, <1>2, CapIs

(* Two units that keep their times fit together into the windows.          *)
LEMMA SharedFits ==
  ASSUME NEW u \in Units, NEW h, Hours(h), Positive(h), h.boundary = "linear",
         NEW lnk, Linked(u, h, lnk),
         NEW a \in Allowed(u, h, lnk), NEW b \in Allowed(u, h, lnk)
  PROVE  [t \in Tmps(h) |-> a[t] + b[t]] \in CapFeasible(u, h, lnk, 2)
<1> DEFINE x == [t \in Tmps(h) |-> a[t] + b[t]]
<1>1. /\ a \in Flags(h) /\ b \in Flags(h)
      /\ \A t \in Tmps(h) : a[t] \in 0..1 /\ b[t] \in 0..1
      /\ u.minUp \in Nat /\ u.minDown \in Nat /\ 2 \in Nat
  BY UnitsAssumption DEF Allowed, Flags
<1>2. \A t \in Tmps(h) : x[t] = a[t] + b[t] /\ x[t] \in 0..2 /\ x[t] \in Nat
  BY <1>1
<1>3. x \in Profiles(h, 2) /\ x \in Levels(h) /\ a \in Levels(h) /\ b \in Levels(h)
  BY <1>1, <1>2 DEF Profiles, Levels, Flags
<1> HIDE DEF x
<1>4. ASSUME NEW t \in Tmps(h)
      PROVE  /\ startup(h, lnk, x)[t] <= startup(h, lnk, a)[t] + startup(h, lnk, b)[t]
             /\ shutdown(h, lnk, x)[t] <= shutdown(h, lnk, a)[t] + shutdown(h, lnk, b)[t]
             /\ startup(h, lnk, x)[t] \in Nat /\ shutdown(h, lnk, x)[t] \in Nat
             /\ startup(h, lnk, a)[t] \in Nat /\ shutdown(h, lnk, a)[t] \in Nat
             /\ startup(h, lnk, b)[t] \in Nat /\ shutdown(h, lnk, b)[t] \in Nat
  <2>1. /\ startup(h, lnk, x)[t]
             = IF t > 1 /\ x[t] > x[t - 1] THEN x[t] - x[t - 1] ELSE 0
        /\ shutdown(h, lnk, x)[t]
             = IF t > 1 /\ x[t] < x[t - 1] THEN x[t - 1] - x[t] ELSE 0
        /\ t > 1 => t - 1 \in Tmps(h)
        /\ startup(h, lnk, x)[t] \in Nat /\ shutdown(h, lnk, x)[t] \in Nat
    BY <1>3, StartedIs
  <2>2. /\ startup(h, lnk, a)[t] \in Nat /\ shutdown(h, lnk, a)[t] \in Nat
        /\ t > 1 => a[t] - a[t - 1] = startup(h, lnk, a)[t] - shutdown(h, lnk, a)[t]
    BY <1>3, StartedIs
  <2>3. /\ startup(h, lnk, b)[t] \in Nat /\ shutdown(h, lnk, b)[t] \in Nat
        /\ t > 1 => b[t] - b[t - 1] = startup(h, lnk, b)[t] - shutdown(h, lnk, b)[t]
    BY <1>3, StartedIs
  <2>4. CASE ~(t > 1)
    BY <2>1, <2>2, <2>3, <2>4
  <2>5. CASE t > 1
    <3>1. /\ x[t] = a[t] + b[t] /\ x[t - 1] = a[t - 1] + b[t - 1]
          /\ a[t] \in Nat /\ b[t] \in Nat /\ a[t - 1] \in Nat /\ b[t - 1] \in Nat
      BY <1>1, <1>2, <2>1, <2>5
    <3> QED
      BY <2>1, <2>2, <2>3, <2>5, <3>1
  <2> QED
    BY <2>4, <2>5
<1>5. ASSUME NEW t \in Tmps(h), NEW minTime \in Nat
      PROVE  LET w == First(h, t, minTime)..t
             IN  /\ Sum(startup(h, lnk, x), w)
                      <= Sum(startup(h, lnk, a), w) + Sum(startup(h, lnk, b), w)
                 /\ Sum(shutdown(h, lnk, x), w)
                      <= Sum(shutdown(h, lnk, a), w) + Sum(shutdown(h, lnk, b), w)
                 /\ Sum(startup(h, lnk, x), w) \in Nat /\ Sum(shutdown(h, lnk, x), w) \in Nat
                 /\ Sum(startup(h, lnk, a), w) \in Nat /\ Sum(shutdown(h, lnk, a), w) \in Nat
                 /\ Sum(startup(h, lnk, b), w) \in Nat /\ Sum(shutdown(h, lnk, b), w) \in Nat
  <2> DEFINE w == First(h, t, minTime)..t
  <2>1. w \subseteq Tmps(h) /\ IsFiniteSet(w)
    <3>1. First(h, t, minTime) \in 1..t
      <4>1. \A i \in Tmps(h) : startup(h, lnk, x)[i] \in Nat
        BY <1>4
      <4> QED
        BY <4>1, WindowOfLinear
    <3> QED
      BY <3>1, TmpsAre, FS_Interval
  <2> HIDE DEF w
  <2>2. /\ Natural(startup(h, lnk, x), w) /\ Natural(shutdown(h, lnk, x), w)
        /\ Natural(startup(h, lnk, a), w) /\ Natural(shutdown(h, lnk, a), w)
        /\ Natural(startup(h, lnk, b), w) /\ Natural(shutdown(h, lnk, b), w)
    BY <1>4, <2>1 DEF Natural
  <2>3. Sum(startup(h, lnk, x), w)
          <= Sum(startup(h, lnk, a), w) + Sum(startup(h, lnk, b), w)
    BY <1>4, <2>1, <2>2, SumAtMostSums
  <2>4. Sum(shutdown(h, lnk, x), w)
          <= Sum(shutdown(h, lnk, a), w) + Sum(shutdown(h, lnk, b), w)
    BY <1>4, <2>1, <2>2, SumAtMostSums
  <2> QED
    BY <2>2, <2>3, <2>4, SumType DEF w
<1>6. ASSUME NEW t \in Tmps(h)
      PROVE  /\ cap_min_up_time(u.minUp, h, lnk, x, t)
             /\ cap_min_down_time(u.minDown, h, lnk, x, t, 2)
  <2> DEFINE up == First(h, t, u.minUp)..t
             down == First(h, t, u.minDown)..t
  <2>1. /\ a[t] >= Sum(startup(h, lnk, a), up) /\ b[t] >= Sum(startup(h, lnk, b), up)
        /\ 1 - a[t] >= Sum(shutdown(h, lnk, a), down)
        /\ 1 - b[t] >= Sum(shutdown(h, lnk, b), down)
    BY <1>1, AllowedIsCap
  <2>2. /\ Sum(startup(h, lnk, x), up)
             <= Sum(startup(h, lnk, a), up) + Sum(startup(h, lnk, b), up)
        /\ Sum(startup(h, lnk, x), up) \in Nat
        /\ Sum(startup(h, lnk, a), up) \in Nat /\ Sum(startup(h, lnk, b), up) \in Nat
    BY <1>1, <1>5
  <2>3. /\ Sum(shutdown(h, lnk, x), down)
             <= Sum(shutdown(h, lnk, a), down) + Sum(shutdown(h, lnk, b), down)
        /\ Sum(shutdown(h, lnk, x), down) \in Nat
        /\ Sum(shutdown(h, lnk, a), down) \in Nat /\ Sum(shutdown(h, lnk, b), down) \in Nat
    BY <1>1, <1>5
  <2>4. a[t] \in Nat /\ b[t] \in Nat /\ x[t] = a[t] + b[t]
    BY <1>1, <1>2
  <2> HIDE DEF up, down
  <2>5. /\ x[t] >= Sum(startup(h, lnk, x), up)
        /\ 2 - x[t] >= Sum(shutdown(h, lnk, x), down)
    BY <2>1, <2>2, <2>3, <2>4
  <2> QED
    BY <1>1, <1>3, <2>5, CapIs DEF up, down
<1> QED
  BY <1>3, <1>6 DEF CapFeasible, x

(* A unit in turn keeps its status: by the time it would change it again,  *)
(* the other units must have changed as well, which the windows forbid.    *)
LEMMA InTurnKeptFor ==
  ASSUME NEW h, Hours(h), Positive(h), h.boundary = "linear", NEW minTime \in Nat,
         NEW T, NEW Q, Counts(h, T, Q), NEW c \in {0, 1},
         NEW y, NEW to, \A t \in Tmps(h) : InTurn(h, T, Q, c)[t] = 1 <=> y[t] = to,
         \A i, j \in Tmps(h) : i > 1 /\ i <= j /\ Held(i, j, h.hrs, minTime)
                                 => Q[j] <= T[i - 1],
         NEW lnk, NEW name
  PROVE  KeptFor(h, lnk, y, to, minTime, name)
<1> SUFFICES ASSUME NEW i \in Changes(h, lnk, y, to), NEW j \in Tmps(h),
                    Later(h, i, j) \in 0..(minTime - 1)
             PROVE  y[j] = to
  BY DEF KeptFor
<1>1. /\ i \in Tmps(h) /\ i \in Nat \ {0} /\ j \in Nat \ {0} /\ Len(h.hrs) \in Nat
      /\ Tmps(h) = 1..Len(h.hrs)
  BY TmpsAre DEF Changes
<1>2. i > 1 /\ i - 1 \in Tmps(h) /\ y[i] = to /\ y[i - 1] # to
  <2>1. /\ i # 1 /\ y[i] = to
        /\ PrevCommit(h, lnk, [commit |-> y], i) # to
    BY DEF Changes, FirstOf
  <2>2. i > 1 /\ i - 1 \in Tmps(h) /\ 1 \in Nat
    BY <1>1, <2>1
  <2>3. Back(h, i, 1) = i - 1
    BY <1>1, <2>2, BackIs
  <2>4. PrevCommit(h, lnk, [commit |-> y], i) = y[i - 1]
    BY <2>1, <2>3 DEF PrevCommit, FirstOf
  <2> QED
    BY <2>1, <2>2, <2>4
<1>3. i <= j
  <2> SUFFICES ASSUME i > j PROVE FALSE
    BY <1>1
  <2>1. Later(h, i, j) = -Sum(h.hrs, j..(i - 1))
    BY <1>1, LaterIs
  <2>2. i - 1 \in j..Len(h.hrs)
    BY <1>1
  <2>3. Sum(h.hrs, j..(i - 1)) \in Nat /\ Sum(h.hrs, j..(i - 1)) > 0
    <3>1. i - 1 \in 0..Len(h.hrs) /\ i - 1 \in 1..Len(h.hrs) /\ j \in Nat \ {0}
          /\ j <= i - 1 /\ j \in 1..(i - 1)
      BY <1>1, <2>2
    <3> QED
      BY <3>1, SpanIs, SpanPositive
  <2> QED
    BY <2>1, <2>3
<1>4. Held(i, j, h.hrs, minTime)
  <2>1. Later(h, i, j) = Sum(h.hrs, i..(j - 1))
    BY <1>1, <1>3, LaterIs
  <2>2. Sum(h.hrs, i..(j - 1)) < minTime
    BY <2>1
  <2> QED
    BY <1>1, <1>3, <2>2 DEF Held
<1>5. Q[j] <= T[i - 1]
  BY <1>1, <1>2, <1>3, <1>4
<1>6. InTurn(h, T, Q, c)[i - 1] = 0 /\ InTurn(h, T, Q, c)[i] = 1
  <2>1. InTurn(h, T, Q, c)[i - 1] \in 0..1
    BY <1>2, InTurnType
  <2> QED
    BY <1>1, <1>2, <2>1
<1>7. i - 1 <= i
  BY <1>1
<1>8. InTurn(h, T, Q, c)[j] = 1
  BY <1>1, <1>2, <1>3, <1>5, <1>6, <1>7, InTurnKept
<1> QED
  BY <1>8

(* What a fleet has started and stopped until t.                           *)
Started(h, lnk, x) == [t \in Tmps(h) |-> x[1] + Sum(startup(h, lnk, x), 1..t)]
Stopped(h, lnk, x) == [t \in Tmps(h) |-> Sum(shutdown(h, lnk, x), 1..t)]

(* What is committed is what was started less what was stopped.            *)
LEMMA LevelIs ==
  ASSUME NEW h, Hours(h), h.boundary = "linear", NEW lnk, NEW x \in Profiles(h, 2)
  PROVE  /\ \A t \in Tmps(h) : /\ Started(h, lnk, x)[t] \in Nat
                               /\ Stopped(h, lnk, x)[t] \in Nat
                               /\ x[t] = Started(h, lnk, x)[t] - Stopped(h, lnk, x)[t]
         /\ \A i, j \in Tmps(h) : i > 1 /\ i <= j =>
              /\ i - 1 \in Tmps(h)
              /\ Sum(startup(h, lnk, x), i..j)
                   = Started(h, lnk, x)[j] - Started(h, lnk, x)[i - 1]
              /\ Sum(shutdown(h, lnk, x), i..j)
                   = Stopped(h, lnk, x)[j] - Stopped(h, lnk, x)[i - 1]
         /\ Counts(h, Started(h, lnk, x), Stopped(h, lnk, x))
<1> DEFINE up == startup(h, lnk, x)
           down == shutdown(h, lnk, x)
<1>1. /\ x \in Levels(h) /\ \A t \in Tmps(h) : x[t] \in 0..2 /\ x[t] \in Nat
      /\ Tmps(h) = 1..Len(h.hrs) /\ Len(h.hrs) \in Nat \ {0} /\ 1 \in Tmps(h)
  BY TmpsAre DEF Profiles, Levels
<1>2. /\ \A t \in Tmps(h) : up[t] \in Nat /\ down[t] \in Nat
      /\ \A t \in Tmps(h) : t > 1 => x[t] - x[t - 1] = up[t] - down[t]
      /\ up[1] = 0 /\ down[1] = 0
  BY <1>1, StartedIs
<1> HIDE DEF up, down
<1>3. \A t \in Tmps(h) :
        /\ Sum(up, 1..t) \in Nat /\ Sum(down, 1..t) \in Nat
        /\ x[t] = (x[1] + Sum(up, 1..t)) - Sum(down, 1..t)
  <2>1. \A t \in Tmps(h) : x[t] \in Nat /\ up[t] \in Nat /\ down[t] \in Nat
    BY <1>1, <1>2
  <2>2. up[1] = 0 /\ down[1] = 0
    BY <1>2
  <2>3. \A t \in Tmps(h) : t > 1 => x[t] - x[t - 1] = up[t] - down[t]
    BY <1>2
  <2> QED
    BY <2>1, <2>2, <2>3, Telescope
<1>4. \A t \in Tmps(h) : /\ Started(h, lnk, x)[t] = x[1] + Sum(up, 1..t)
                         /\ Stopped(h, lnk, x)[t] = Sum(down, 1..t)
  BY DEF Started, Stopped, up, down
<1>5. \A t \in Tmps(h) : /\ Started(h, lnk, x)[t] \in Nat
                         /\ Stopped(h, lnk, x)[t] \in Nat
                         /\ x[t] = Started(h, lnk, x)[t] - Stopped(h, lnk, x)[t]
  <2> SUFFICES ASSUME NEW t \in Tmps(h)
               PROVE  /\ Started(h, lnk, x)[t] \in Nat
                      /\ Stopped(h, lnk, x)[t] \in Nat
                      /\ x[t] = Started(h, lnk, x)[t] - Stopped(h, lnk, x)[t]
    OBVIOUS
  <2>1. /\ Sum(up, 1..t) \in Nat /\ Sum(down, 1..t) \in Nat /\ x[1] \in Nat
        /\ x[t] = (x[1] + Sum(up, 1..t)) - Sum(down, 1..t)
    BY <1>1, <1>3
  <2> QED
    BY <1>4, <2>1
<1>6. ASSUME NEW i \in Tmps(h), NEW j \in Tmps(h), i <= j
      PROVE  /\ i > 1 => /\ i - 1 \in Tmps(h)
                         /\ Sum(up, 1..j) = Sum(up, 1..(i - 1)) + Sum(up, i..j)
                         /\ Sum(down, 1..j) = Sum(down, 1..(i - 1)) + Sum(down, i..j)
             /\ Sum(up, 1..i) <= Sum(up, 1..j)
             /\ Sum(down, 1..i) <= Sum(down, 1..j)
  <2>1. i \in Nat \ {0} /\ j \in Nat \ {0} /\ 1..j \subseteq Tmps(h) /\ IsFiniteSet(1..j)
    <3>1. i \in Nat \ {0} /\ j \in Nat \ {0} /\ j \in Int /\ 1..j \subseteq Tmps(h)
      BY <1>1
    <3> QED
      BY <3>1, FS_Interval
  <2>2. Natural(up, 1..j) /\ Natural(down, 1..j)
    BY <1>2, <2>1 DEF Natural
  <2>3. /\ (1..(i - 1)) \cap (i..j) = {} /\ (1..(i - 1)) \cup (i..j) = 1..j
        /\ 1..(i - 1) \in SUBSET (1..j) /\ i..j \in SUBSET (1..j) /\ 1..i \in SUBSET (1..j)
    BY <1>6, <2>1
  <2>4. /\ Natural(up, 1..(i - 1)) /\ Natural(up, i..j)
        /\ Natural(down, 1..(i - 1)) /\ Natural(down, i..j)
    BY <2>2, <2>3, NaturalSubset
  <2>5. Sum(up, (1..(i - 1)) \cup (i..j)) = Sum(up, 1..(i - 1)) + Sum(up, i..j)
    BY <2>3, <2>4, SumUnion
  <2>6. Sum(down, (1..(i - 1)) \cup (i..j)) = Sum(down, 1..(i - 1)) + Sum(down, i..j)
    BY <2>3, <2>4, SumUnion
  <2>7. Sum(up, 1..i) <= Sum(up, 1..j)
    BY <2>2, <2>3, SumOfPart
  <2>8. Sum(down, 1..i) <= Sum(down, 1..j)
    BY <2>2, <2>3, SumOfPart
  <2>9. i > 1 => i - 1 \in Tmps(h)
    BY <1>1, <2>1
  <2> QED
    BY <2>3, <2>5, <2>6, <2>7, <2>8, <2>9
<1>7. \A i, j \in Tmps(h) : i > 1 /\ i <= j =>
        /\ i - 1 \in Tmps(h)
        /\ Sum(up, i..j) = Started(h, lnk, x)[j] - Started(h, lnk, x)[i - 1]
        /\ Sum(down, i..j) = Stopped(h, lnk, x)[j] - Stopped(h, lnk, x)[i - 1]
  <2> SUFFICES ASSUME NEW i \in Tmps(h), NEW j \in Tmps(h), i > 1, i <= j
               PROVE  /\ i - 1 \in Tmps(h)
                      /\ Sum(up, i..j) = Started(h, lnk, x)[j] - Started(h, lnk, x)[i - 1]
                      /\ Sum(down, i..j) = Stopped(h, lnk, x)[j] - Stopped(h, lnk, x)[i - 1]
    OBVIOUS
  <2>1. /\ i - 1 \in Tmps(h)
        /\ Sum(up, 1..j) = Sum(up, 1..(i - 1)) + Sum(up, i..j)
        /\ Sum(down, 1..j) = Sum(down, 1..(i - 1)) + Sum(down, i..j)
    BY <1>6
  <2>2. Natural(up, i..j) /\ Natural(down, i..j)
    <3>0. i \in Int /\ j \in Int /\ i..j \subseteq Tmps(h)
      BY <1>1
    <3>1. i..j \subseteq Tmps(h) /\ IsFiniteSet(i..j)
      BY <3>0, FS_Interval
    <3> QED
      BY <1>2, <3>1 DEF Natural
  <2>3. Sum(up, i..j) \in Nat /\ Sum(down, i..j) \in Nat
    BY <2>2, SumType
  <2>4. /\ Sum(up, 1..j) \in Nat /\ Sum(up, 1..(i - 1)) \in Nat
        /\ Sum(down, 1..j) \in Nat /\ Sum(down, 1..(i - 1)) \in Nat /\ x[1] \in Nat
    BY <1>1, <1>3, <2>1
  <2>5. /\ Started(h, lnk, x)[j] = x[1] + Sum(up, 1..j)
        /\ Started(h, lnk, x)[i - 1] = x[1] + Sum(up, 1..(i - 1))
        /\ Stopped(h, lnk, x)[j] = Sum(down, 1..j)
        /\ Stopped(h, lnk, x)[i - 1] = Sum(down, 1..(i - 1))
    BY <1>4, <2>1
  <2> QED
    BY <2>1, <2>3, <2>4, <2>5
<1>8. Counts(h, Started(h, lnk, x), Stopped(h, lnk, x))
  <2>1. \A t \in Tmps(h) : Started(h, lnk, x)[t] - Stopped(h, lnk, x)[t] \in 0..2
    BY <1>1, <1>5
  <2>2. ASSUME NEW i \in Tmps(h), NEW j \in Tmps(h), i <= j
        PROVE  /\ Started(h, lnk, x)[i] <= Started(h, lnk, x)[j]
               /\ Stopped(h, lnk, x)[i] <= Stopped(h, lnk, x)[j]
    <3>1. /\ Sum(up, 1..i) <= Sum(up, 1..j) /\ Sum(down, 1..i) <= Sum(down, 1..j)
          /\ Sum(up, 1..i) \in Nat /\ Sum(up, 1..j) \in Nat /\ x[1] \in Nat
      BY <1>1, <1>3, <1>6, <2>2
    <3> QED
      BY <1>4, <3>1
  <2> QED
    BY <1>5, <2>1, <2>2 DEF Counts
<1> QED
  BY <1>5, <1>7, <1>8 DEF up, down

(* No unit stops again before all of those have that started before it,    *)
(* and the other way round.                                                *)
LEMMA FitsInTurn ==
  ASSUME NEW u \in Units, NEW h, Hours(h), h.boundary = "linear",
         NEW lnk, NEW x \in CapFeasible(u, h, lnk, 2),
         NEW i \in Tmps(h), NEW j \in Tmps(h), i > 1, i <= j
  PROVE  /\ Held(i, j, h.hrs, u.minUp)
              => Stopped(h, lnk, x)[j] <= Started(h, lnk, x)[i - 1]
         /\ Held(i, j, h.hrs, u.minDown)
              => Started(h, lnk, x)[j] <= Stopped(h, lnk, x)[i - 1] + 2
<1> DEFINE up == startup(h, lnk, x)
           down == shutdown(h, lnk, x)
<1>1. /\ x \in Profiles(h, 2) /\ u.minUp \in Nat /\ u.minDown \in Nat /\ 2 \in Nat
      /\ x \in Levels(h) /\ x[j] \in 0..2
      /\ cap_min_up_time(u.minUp, h, lnk, x, j)
      /\ cap_min_down_time(u.minDown, h, lnk, x, j, 2)
  BY UnitsAssumption DEF CapFeasible, Profiles, Levels
<1>2. /\ x[j] >= Sum(up, First(h, j, u.minUp)..j)
      /\ 2 - x[j] >= Sum(down, First(h, j, u.minDown)..j)
  BY <1>1, CapIs
<1>3. \A t \in Tmps(h) : up[t] \in Nat /\ down[t] \in Nat
  BY <1>1, StartedIs
<1>4. /\ Sum(up, i..j) = Started(h, lnk, x)[j] - Started(h, lnk, x)[i - 1]
      /\ Sum(down, i..j) = Stopped(h, lnk, x)[j] - Stopped(h, lnk, x)[i - 1]
      /\ x[j] = Started(h, lnk, x)[j] - Stopped(h, lnk, x)[j]
      /\ Started(h, lnk, x)[j] \in Nat /\ Stopped(h, lnk, x)[j] \in Nat
      /\ Started(h, lnk, x)[i - 1] \in Nat /\ Stopped(h, lnk, x)[i - 1] \in Nat
  BY <1>1, LevelIs
<1> HIDE DEF up, down
<1>5. i \in 1..j /\ i \in Nat \ {0} /\ j \in Nat \ {0} /\ 1..j \subseteq Tmps(h)
  BY TmpsAre
<1>6. ASSUME NEW minTime \in Nat, Held(i, j, h.hrs, minTime), NEW event,
             \A t \in Tmps(h) : event[t] \in Nat
      PROVE  /\ Sum(event, i..j) \in Nat /\ Sum(event, First(h, j, minTime)..j) \in Nat
             /\ Sum(event, i..j) <= Sum(event, First(h, j, minTime)..j)
  <2> DEFINE f == First(h, j, minTime)
  <2>1. f \in 1..j /\ f <= i
    BY <1>5, <1>6, WindowOfLinear
  <2> HIDE DEF f
  <2>2. IsFiniteSet(f..j) /\ f..j \subseteq Tmps(h) /\ i..j \in SUBSET (f..j)
    <3>1. f \in Int /\ j \in Int /\ f..j \subseteq 1..j /\ i..j \subseteq f..j
      BY <1>5, <2>1
    <3>2. IsFiniteSet(f..j)
      BY <3>1, FS_Interval
    <3> QED
      BY <1>5, <3>1, <3>2
  <2>3. Natural(event, f..j)
    BY <1>6, <2>2 DEF Natural
  <2> QED
    BY <2>2, <2>3, SumOfPart, SumType DEF f
<1>7. ASSUME Held(i, j, h.hrs, u.minUp)
      PROVE  Stopped(h, lnk, x)[j] <= Started(h, lnk, x)[i - 1]
  <2>1. /\ Sum(up, i..j) <= Sum(up, First(h, j, u.minUp)..j)
        /\ Sum(up, First(h, j, u.minUp)..j) \in Nat
    BY <1>1, <1>3, <1>6, <1>7
  <2> QED
    BY <1>1, <1>2, <1>4, <2>1
<1>8. ASSUME Held(i, j, h.hrs, u.minDown)
      PROVE  Started(h, lnk, x)[j] <= Stopped(h, lnk, x)[i - 1] + 2
  <2>1. /\ Sum(down, i..j) <= Sum(down, First(h, j, u.minDown)..j)
        /\ Sum(down, First(h, j, u.minDown)..j) \in Nat
    BY <1>1, <1>3, <1>6, <1>8
  <2> QED
    BY <1>1, <1>2, <1>4, <2>1
<1> QED
  BY <1>7, <1>8

(* So each of two units in turn keeps its own times.                       *)
LEMMA InTurnAllowed ==
  ASSUME NEW u \in Units, NEW h, Hours(h), Positive(h), h.boundary = "linear",
         NEW lnk, NEW x \in CapFeasible(u, h, lnk, 2), NEW c \in {0, 1}
  PROVE  InTurn(h, Started(h, lnk, x), Stopped(h, lnk, x), c) \in Allowed(u, h, lnk)
<1> DEFINE T == Started(h, lnk, x)
           Q == Stopped(h, lnk, x)
           y == InTurn(h, T, Q, c)
           More == [t \in Tmps(h) |-> Q[t] + 2]
<1>1. /\ x \in Profiles(h, 2) /\ u.minUp \in Nat /\ u.minDown \in Nat
      /\ \A t \in Tmps(h) : x[t] \in 0..2
  BY UnitsAssumption DEF CapFeasible, Profiles
<1>2. /\ \A t \in Tmps(h) : T[t] \in Nat /\ Q[t] \in Nat /\ x[t] = T[t] - Q[t]
      /\ Counts(h, T, Q)
  BY <1>1, LevelIs
<1>3. ASSUME NEW i \in Tmps(h), NEW j \in Tmps(h), i > 1, i <= j
      PROVE  /\ i - 1 \in Tmps(h)
             /\ Held(i, j, h.hrs, u.minUp) => Q[j] <= T[i - 1]
             /\ Held(i, j, h.hrs, u.minDown) => T[j] <= Q[i - 1] + 2
  <2>1. i - 1 \in Tmps(h)
    BY <1>1, <1>3, LevelIs
  <2> QED
    BY <1>3, <2>1, FitsInTurn
<1> HIDE DEF T, Q
<1>4. \A t \in Tmps(h) : y[t] \in 0..1
  BY <1>2, InTurnType
<1>5. y \in Flags(h)
  BY <1>4 DEF InTurn, Flags
<1>6. Counts(h, More, T)
  <2>1. ASSUME NEW t \in Tmps(h)
        PROVE  More[t] \in Nat /\ T[t] \in Nat /\ More[t] - T[t] \in 0..2
    <3>1. More[t] = Q[t] + 2 /\ T[t] \in Nat /\ Q[t] \in Nat /\ T[t] - Q[t] \in 0..2
      BY <1>1, <1>2
    <3> QED
      BY <3>1
  <2>2. ASSUME NEW i \in Tmps(h), NEW j \in Tmps(h), i <= j
        PROVE  More[i] <= More[j] /\ T[i] <= T[j]
    <3>1. More[i] = Q[i] + 2 /\ More[j] = Q[j] + 2 /\ Q[i] \in Nat /\ Q[j] \in Nat
      BY <1>2
    <3>2. Q[i] <= Q[j] /\ T[i] <= T[j]
      BY <1>2, <2>2 DEF Counts
    <3> QED
      BY <3>1, <3>2
  <2> HIDE DEF More
  <2> QED
    BY <2>1, <2>2 DEF Counts
<1>7. \A t \in Tmps(h) : InTurn(h, More, T, c)[t] = 1 - y[t]
  <2> SUFFICES ASSUME NEW t \in Tmps(h)
               PROVE  InTurn(h, More, T, c)[t] = 1 - y[t]
    OBVIOUS
  <2> DEFINE n == Q[t] + c
             p == (T[t] + c) \div 2
             q == n \div 2
             m == (n + 2) \div 2
  <2>1. n \in Nat /\ T[t] + c \in Nat /\ More[t] + c = n + 2
    BY <1>2
  <2>2. /\ y[t] = p - q
        /\ InTurn(h, More, T, c)[t] = ((More[t] + c) \div 2) - p
    <3> HIDE DEF More, n
    <3> QED
      BY DEF InTurn, n
  <2>3. InTurn(h, More, T, c)[t] = m - p
    <3> HIDE DEF More, n, p
    <3> QED
      BY <2>1, <2>2
  <2>4. m = q + 1 /\ q \in Nat /\ p \in Nat
    <3> HIDE DEF n
    <3> QED
      BY <2>1, Half
  <2> HIDE DEF m, q, p, n, y
  <2> QED
    BY <2>2, <2>3, <2>4
<1> HIDE DEF More
<1>8. KeptFor(h, lnk, y, 1, u.minUp, "startup")
  <2>1. \A t \in Tmps(h) : InTurn(h, T, Q, c)[t] = 1 <=> y[t] = 1
    OBVIOUS
  <2>2. \A i, j \in Tmps(h) : i > 1 /\ i <= j /\ Held(i, j, h.hrs, u.minUp)
                                => Q[j] <= T[i - 1]
    BY <1>3
  <2> HIDE DEF y
  <2> QED
    BY <1>1, <1>2, <2>1, <2>2, InTurnKeptFor
<1>9. KeptFor(h, lnk, y, 0, u.minDown, "shutdown")
  <2>1. \A t \in Tmps(h) : InTurn(h, More, T, c)[t] = 1 <=> y[t] = 0
    <3> HIDE DEF y
    <3> QED
      BY <1>4, <1>7
  <2>2. \A i, j \in Tmps(h) : i > 1 /\ i <= j /\ Held(i, j, h.hrs, u.minDown)
                                => T[j] <= More[i - 1]
    BY <1>3 DEF More
  <2> HIDE DEF y
  <2> QED
    BY <1>1, <1>6, <2>1, <2>2, InTurnKeptFor
<1> QED
  BY <1>5, <1>8, <1>9, AllowedIs DEF T, Q

(* And a fleet of two is what its units are together.                      *)
LEMMA FitsShared ==
  ASSUME NEW u \in Units, NEW h, Hours(h), Positive(h), h.boundary = "linear",
         NEW lnk, NEW x \in CapFeasible(u, h, lnk, 2)
  PROVE  \E a, b \in Allowed(u, h, lnk) : x = [t \in Tmps(h) |-> a[t] + b[t]]
<1> DEFINE T == Started(h, lnk, x)
           Q == Stopped(h, lnk, x)
           a == InTurn(h, T, Q, 1)
           b == InTurn(h, T, Q, 0)
<1>1. x \in Profiles(h, 2)
  BY DEF CapFeasible
<1>2. \A t \in Tmps(h) : T[t] \in Nat /\ Q[t] \in Nat /\ x[t] = T[t] - Q[t]
  BY <1>1, LevelIs
<1>3. a \in Allowed(u, h, lnk) /\ b \in Allowed(u, h, lnk)
  BY InTurnAllowed
<1> HIDE DEF T, Q
<1>4. \A t \in Tmps(h) : a[t] + b[t] = x[t]
  <2> SUFFICES ASSUME NEW t \in Tmps(h) PROVE a[t] + b[t] = x[t]
    OBVIOUS
  <2> DEFINE p == T[t]
             q == Q[t]
             p0 == p \div 2
             p1 == (p + 1) \div 2
             q0 == q \div 2
             q1 == (q + 1) \div 2
  <2>1. p \in Nat /\ q \in Nat /\ x[t] = p - q /\ p + 0 = p /\ q + 0 = q
    BY <1>2
  <2>2. a[t] = p1 - q1 /\ b[t] = ((p + 0) \div 2) - ((q + 0) \div 2)
    <3> HIDE DEF p, q
    <3> QED
      BY DEF InTurn, p, q
  <2>3. b[t] = p0 - q0
    <3> HIDE DEF p, q, b
    <3> QED
      BY <2>1, <2>2
  <2>4. /\ p0 \in Nat /\ p1 \in Int /\ p0 + p1 = p
        /\ q0 \in Nat /\ q1 \in Int /\ q0 + q1 = q
    <3> HIDE DEF p, q
    <3>1. p + 1 \in Nat /\ q + 1 \in Nat
      BY <2>1
    <3> QED
      BY <2>1, <3>1, Half
  <2> HIDE DEF p, q, p0, p1, q0, q1, a, b
  <2> QED
    BY <2>1, <2>2, <2>3, <2>4
<1>5. x = [t \in Tmps(h) |-> a[t] + b[t]]
  <2>1. x = [t \in Tmps(h) |-> x[t]]
    BY <1>1 DEF Profiles
  <2> HIDE DEF a, b
  <2> QED
    BY <1>4, <2>1
<1> HIDE DEF a, b
<1> QED
  BY <1>3, <1>5

(* The constraints on the capacity of a fleet of one or two units allow    *)
(* what the units can share (gen_commit_cap's min_up_time and              *)
(* min_down_time constraints).                                             *)
THEOREM CapacityExact == Spec => []CapacityIsExact
<1>1. IInv /\ ExactInv => CapacityIsExact
  <2> SUFFICES ASSUME IInv, ExactInv, Loaded,
                      NEW n \in IF horizon.boundary = "linear" THEN {1, 2} ELSE {1}
               PROVE  CapFeasible(unit, horizon, linked, n) = SharedBy(n)
    BY DEF CapacityIsExact
  <2>1. unit \in Units /\ Hours(horizon) /\ Positive(horizon)
    BY DEF IInv, HorizonInv, ExactInv, PositiveInv, Loaded
  <2>2. Linked(unit, horizon, linked)
    BY LinkedHolds
  <2>3. CASE n = 1
    BY <2>1, <2>2, <2>3, AloneAllowed DEF SharedBy
  <2>4. CASE n # 1
    <3>1. n = 2 /\ horizon.boundary = "linear"
      BY <2>4
    <3>2. \A a, b \in Allowed(unit, horizon, linked) :
            [t \in Tmps(horizon) |-> a[t] + b[t]] \in CapFeasible(unit, horizon, linked, 2)
      BY <2>1, <2>2, <3>1, SharedFits
    <3>3. \A x \in CapFeasible(unit, horizon, linked, 2) :
            \E a, b \in Allowed(unit, horizon, linked) :
              x = [t \in Tmps(horizon) |-> a[t] + b[t]]
      BY <2>1, <3>1, FitsShared
    <3>4. SharedBy(2) = {[t \in Tmps(horizon) |-> a[t] + b[t]] :
                           a, b \in Allowed(unit, horizon, linked)}
      BY DEF SharedBy
    <3> QED
      BY <3>1, <3>2, <3>3, <3>4
  <2> QED
    BY <2>3, <2>4
<1> QED
  BY <1>1, CommitmentInvariant, ExactInvariant, PTL
=============================================================================
