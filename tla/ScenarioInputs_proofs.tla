----------------------- MODULE ScenarioInputs_proofs -----------------------
(***************************************************************************)
(* Proofs about ScenarioInputs: a scenario directory that can be run has   *)
(* whole inputs, for any structures, number of workers and number of runs  *)
(* of get_inputs, whatever is killed or fails.                             *)
(***************************************************************************)
EXTENDS ScenarioInputs, FiniteSetTheorems, TLAPS

Features == aux["features.csv"]

Whole(ds, get) == \A d \in ds : tabs[d] = get

(* Where get_inputs is decides on what must already be gone and on what    *)
(* must already be written.                                                *)
PcInv ==
  /\ pc = "delete" /\ step > 1 => Features = 0
  /\ pc \in {"inputs", "raised"} => Features = 0
  /\ pc = "aux" /\ step = 1 => Features = 0
  /\ pc = "inputs" => Whole(Paths(Scn) \ (todo \cup writing), Get)
  /\ pc = "aux" => Whole(Paths(Scn), Get)
  /\ pc \notin {"inputs", "raised"} => writing = {}

IInv == TypeOK /\ IsFiniteSet(writing) /\ FeaturesMeanInputs /\ PcInv

------------------------------------------------------------------------------
(* The directories of a scenario are known ones.                           *)
LEMMA PathsKnown ==
  ASSUME NEW scn \in Scenarios
  PROVE  Paths(scn) \subseteq AllPaths
  BY DEF AllPaths

(* Once get_inputs was run there is a scenario it was last run for.        *)
LEMMA LastScenario ==
  ASSUME asked \in Seq(Scenarios), asked # << >>
  PROVE  /\ Get \in Nat \ {0}
         /\ Scn \in Scenarios
         /\ Paths(Scn) \subseteq AllPaths
<1>1. Get \in Nat \ {0}
  BY DEF Get
<1>2. Scn \in Scenarios
  BY <1>1 DEF Scn, Get
<1> QED
  BY <1>1, <1>2, PathsKnown

LEMMA InitInv == Init => IInv
<1> SUFFICES ASSUME Init PROVE IInv
  OBVIOUS
<1>1. asked = << >> /\ Get = 0
  BY DEF Init, Get
<1>2. IsFiniteSet({}) /\ Cardinality({}) = 0
  BY FS_EmptySet
<1>3. TypeOK
  <2>1. asked \in Seq(Scenarios)
    BY <1>1
  <2>2. Cardinality(writing) <= NParallel
    BY <1>2, InputsAssumption DEF Init
  <2>3. tabs \in [AllPaths -> 0..Get] /\ aux \in [AuxFiles -> 0..Get]
    BY <1>1 DEF Init
  <2>4. /\ dirs \subseteq AllPaths /\ todo \subseteq AllPaths
        /\ writing \subseteq dirs /\ todo \cap writing = {}
    BY DEF Init
  <2>5. pc = "idle" /\ step \in 1..5
    BY DEF Init
  <2>6. flag \in BOOLEAN
    BY Zenon DEF Init
  <2>7. /\ pc \in {"idle", "flag", "delete", "inputs", "raised", "aux", "done",
                  "failed"}
        /\ pc # "idle" => asked # << >>
    BY <2>5
  <2> QED
    BY <2>1, <2>2, <2>3, <2>4, <2>5, <2>6, <2>7 DEF TypeOK
<1> QED
  BY <1>2, <1>3 DEF Init, IInv, FeaturesMeanInputs, PcInv, Features, AuxFiles

(* Another run of get_inputs leaves every file as it is.                   *)
LEMMA StartInv == IInv /\ Start => IInv'
<1> SUFFICES ASSUME IInv, Start PROVE IInv'
  OBVIOUS
<1> USE DEF IInv
<1>1. PICK scn \in Scenarios : asked' = Append(asked, scn)
  BY DEF Start
<1>2. /\ Get' = Get + 1 /\ Get \in Nat
      /\ asked' \in Seq(Scenarios) /\ asked' # << >>
      /\ \A n \in 1..Get : asked'[n] = asked[n]
  BY <1>1 DEF TypeOK, Get
<1>3. TypeOK'
  <2>1. tabs \in [AllPaths -> 0..(Get + 1)] /\ aux \in [AuxFiles -> 0..(Get + 1)]
    BY <1>2 DEF TypeOK
  <2> QED
    BY <1>2, <2>1 DEF TypeOK, Start
<1>4. FeaturesMeanInputs'
  <2>1. aux["features.csv"] \in 0..Get
    BY DEF TypeOK, AuxFiles
  <2>2. Features # 0 => Paths(asked'[Features]) = Paths(asked[Features])
    BY <1>2, <2>1 DEF Features
  <2>3. aux' = aux /\ tabs' = tabs
    BY DEF Start
  <2>4. ASSUME aux'["features.csv"] # 0
        PROVE  Paths(asked[Features]) = Paths(asked[aux["features.csv"]])'
    BY <2>2, <2>3, <2>4 DEF Features, Paths
  <2> QED
    BY <2>3, <2>4 DEF FeaturesMeanInputs, Features
<1>5. PcInv' /\ IsFiniteSet(writing')
  BY DEF PcInv, Start
<1> QED
  BY <1>3, <1>4, <1>5

(* What is done before the first directory: features.csv goes first.       *)
LEMMA DeleteInv ==
  IInv /\ (WriteMultiStageFlag \/ DeletePriorAuxFile \/ ListInputs) => IInv'
<1> SUFFICES ASSUME IInv, WriteMultiStageFlag \/ DeletePriorAuxFile \/ ListInputs
             PROVE  IInv'
  OBVIOUS
<1> USE DEF IInv
<1>1. asked' = asked /\ Get' = Get /\ Scn' = Scn /\ Paths(Scn)' = Paths(Scn)
  BY DEF WriteMultiStageFlag, DeletePriorAuxFile, ListInputs, Get, Scn, Paths
<1>2. pc # "idle" /\ asked # << >>
  BY DEF TypeOK, WriteMultiStageFlag, DeletePriorAuxFile, ListInputs
<1>3. Get \in Nat /\ Paths(Scn) \subseteq AllPaths
  BY <1>2, LastScenario DEF TypeOK
<1>4. CASE WriteMultiStageFlag
  <2>1. TypeOK'
    BY <1>1, <1>4 DEF TypeOK, WriteMultiStageFlag
  <2> QED
    BY <1>1, <1>4, <2>1
       DEF WriteMultiStageFlag, FeaturesMeanInputs, PcInv, Features, Whole
<1>5. CASE DeletePriorAuxFile
  <2>1. /\ step \in 1..4 /\ DeleteOrder[step] \in AuxFiles
        /\ step = 1 => DeleteOrder[step] = "features.csv"
    BY <1>5 DEF TypeOK, DeletePriorAuxFile, DeleteOrder, AuxFiles, OptionalFiles
  <2>2. TypeOK'
    BY <1>1, <1>3, <1>5, <2>1 DEF TypeOK, DeletePriorAuxFile
  <2>3. Features' = Features \/ Features' = 0
    BY <1>5, <2>1 DEF TypeOK, DeletePriorAuxFile, Features, AuxFiles
  <2>4. Features' = 0
    BY <1>5, <2>1, <2>3
       DEF TypeOK, DeletePriorAuxFile, Features, AuxFiles, PcInv
  <2> QED
    BY <1>1, <1>5, <2>1, <2>2, <2>4
       DEF TypeOK, DeletePriorAuxFile, FeaturesMeanInputs, PcInv, Features, Whole
<1>6. CASE ListInputs
  <2>1. Features = 0
    BY <1>6 DEF ListInputs, PcInv, TypeOK, DeleteOrder
  <2>2. TypeOK'
    BY <1>1, <1>3, <1>6 DEF TypeOK, ListInputs, PcInv
  <2> QED
    BY <1>1, <1>6, <2>1, <2>2
       DEF ListInputs, FeaturesMeanInputs, PcInv, Features, Whole
<1> QED
  BY <1>4, <1>5, <1>6

(* The inputs: a directory is only left when its files are all of this     *)
(* get_inputs.                                                             *)
LEMMA WorkersInv ==
  ASSUME NEW d \in AllPaths, IInv, BeginInputs(d) \/ EndInputs(d) \/ InputsRaise(d)
  PROVE  IInv'
<1> USE DEF IInv
<1>1. asked' = asked /\ Get' = Get /\ Scn' = Scn /\ Paths(Scn)' = Paths(Scn)
  BY DEF BeginInputs, EndInputs, InputsRaise, Get, Scn, Paths
<1>2. pc # "idle" /\ asked # << >>
  BY DEF TypeOK, BeginInputs, EndInputs, InputsRaise, PcInv
<1>3. Get \in Nat /\ Paths(Scn) \subseteq AllPaths
  BY <1>2, LastScenario DEF TypeOK
<1>4. Features = 0 /\ Features' = 0 /\ pc \in {"inputs", "raised"}
  BY DEF BeginInputs, EndInputs, InputsRaise, PcInv, Features
<1>5. FeaturesMeanInputs'
  BY <1>4 DEF FeaturesMeanInputs, Features
<1>6. Cardinality(writing) \in Nat /\ NParallel \in Nat
  BY FS_CardinalityType, InputsAssumption
<1>7. CASE BeginInputs(d)
  <2>1. d \notin writing
    BY <1>7 DEF TypeOK, BeginInputs
  <2>2. /\ IsFiniteSet(writing')
        /\ Cardinality(writing') = Cardinality(writing) + 1
    BY <1>7, <2>1, FS_AddElement DEF BeginInputs
  <2>3. TypeOK'
    BY <1>1, <1>3, <1>6, <1>7, <2>2 DEF TypeOK, BeginInputs
  <2> QED
    BY <1>1, <1>3, <1>4, <1>5, <1>7, <2>2, <2>3
       DEF TypeOK, BeginInputs, PcInv, Whole
<1>8. CASE EndInputs(d) \/ InputsRaise(d)
  <2>1. d \in writing /\ writing' = writing \ {d}
    BY <1>8 DEF EndInputs, InputsRaise
  <2>2. /\ IsFiniteSet(writing')
        /\ Cardinality(writing') = Cardinality(writing) - 1
    BY <2>1, FS_RemoveElement
  <2>3. Cardinality(writing') <= NParallel
    BY <1>6, <2>2 DEF TypeOK
  <2>4. todo' \subseteq todo /\ writing' \subseteq writing
    BY <1>8, <2>1 DEF EndInputs, InputsRaise
  <2>5. tabs' \in [AllPaths -> 0..Get]
    BY <1>3, <1>8 DEF TypeOK, EndInputs, InputsRaise
  <2>6. TypeOK'
    <3>1. /\ dirs' = dirs /\ flag' = flag /\ aux' = aux /\ asked' = asked
          /\ step' = step /\ pc' \in {"inputs", "raised"}
      BY <1>4, <1>8 DEF EndInputs, InputsRaise
    <3>2. todo' \subseteq AllPaths /\ writing' \subseteq dirs /\ todo' \cap writing' = {}
      BY <2>4 DEF TypeOK
    <3> QED
      BY <1>1, <1>2, <2>3, <2>5, <3>1, <3>2 DEF TypeOK
  <2> QED
    BY <1>1, <1>3, <1>4, <1>5, <1>8, <2>1, <2>2, <2>6
       DEF TypeOK, EndInputs, InputsRaise, PcInv, Whole
<1> QED
  BY <1>7, <1>8

(* The end of get_inputs, by whichever way: features.csv is written when   *)
(* every directory is whole.                                               *)
LEMMA EndInv ==
  IInv /\ (Raise \/ InputsDone \/ WriteAuxFile \/ Finish \/ Kill) => IInv'
<1> SUFFICES ASSUME IInv, Raise \/ InputsDone \/ WriteAuxFile \/ Finish \/ Kill
             PROVE  IInv'
  OBVIOUS
<1> USE DEF IInv
<1>1. /\ asked' = asked /\ Get' = Get /\ Scn' = Scn /\ Paths(Scn)' = Paths(Scn)
      /\ tabs' = tabs /\ dirs' = dirs
  BY DEF Raise, InputsDone, WriteAuxFile, Finish, Kill, Get, Scn, Paths
<1>2. pc # "idle" /\ asked # << >>
  BY DEF TypeOK, Raise, InputsDone, WriteAuxFile, Finish, Kill
<1>3. Get \in Nat \ {0} /\ Paths(Scn) \subseteq AllPaths
  BY <1>2, LastScenario DEF TypeOK
<1>4. CASE Raise
  <2>1. TypeOK'
    BY <1>1, <1>4 DEF TypeOK, Raise
  <2> QED
    BY <1>1, <1>4, <2>1 DEF Raise, FeaturesMeanInputs, PcInv
<1>5. CASE InputsDone
  <2>1. TypeOK'
    BY <1>1, <1>5 DEF TypeOK, InputsDone
  <2> QED
    BY <1>1, <1>5, <2>1
       DEF InputsDone, FeaturesMeanInputs, PcInv, Features, Whole
<1>6. CASE WriteAuxFile
  <2>1. /\ step \in 1..4 /\ WriteOrder[step] \in AuxFiles
        /\ WriteOrder[step] = "features.csv" <=> step = 1
        /\ "features.csv" \notin OptionalFiles
    BY <1>6 DEF TypeOK, WriteAuxFile, WriteOrder, AuxFiles, OptionalFiles
  <2>2. TypeOK'
    BY <1>1, <1>3, <1>6, <2>1 DEF TypeOK, WriteAuxFile
  <2>3. Features' = IF step = 1 THEN Get ELSE Features
    BY <1>6, <2>1 DEF TypeOK, WriteAuxFile, Features, AuxFiles
  <2>4. FeaturesMeanInputs'
    BY <1>1, <1>6, <2>3
       DEF WriteAuxFile, FeaturesMeanInputs, PcInv, Features, Whole, Scn, Paths
  <2> QED
    BY <1>1, <1>6, <2>1, <2>2, <2>4 DEF TypeOK, WriteAuxFile, PcInv, Whole
<1>7. CASE Finish
  <2>1. TypeOK'
    BY <1>1, <1>7 DEF TypeOK, Finish
  <2> QED
    BY <1>1, <1>7, <2>1 DEF Finish, FeaturesMeanInputs, PcInv
<1>8. CASE Kill
  <2>1. IsFiniteSet({}) /\ Cardinality({}) = 0 /\ NParallel \in Nat
    BY FS_EmptySet, InputsAssumption
  <2>2. TypeOK'
    BY <1>1, <1>8, <2>1 DEF TypeOK, Kill
  <2> QED
    BY <1>1, <1>8, <2>1, <2>2 DEF Kill, FeaturesMeanInputs, PcInv
<1> QED
  BY <1>4, <1>5, <1>6, <1>7, <1>8

LEMMA NextInv == IInv /\ [Next]_vars => IInv'
<1> SUFFICES ASSUME IInv, [Next]_vars PROVE IInv'
  OBVIOUS
<1>1. CASE Next
  BY <1>1, StartInv, DeleteInv, WorkersInv, EndInv DEF Next
<1>2. CASE UNCHANGED vars
  BY <1>2 DEF vars, IInv, TypeOK, FeaturesMeanInputs, PcInv, Features, Whole,
              Get, Scn, Paths
<1> QED
  BY <1>1, <1>2

(* The invariant that the rest follows from.                               *)
THEOREM InputsInvariant == Spec => []IInv
<1> QED
  BY InitInv, NextInv, PTL DEF Spec

(* Everything is of its kind, and no more workers write than there are.    *)
THEOREM InputsTypeCorrect == Spec => []TypeOK
<1>1. IInv => TypeOK
  BY DEF IInv
<1> QED
  BY InputsInvariant, <1>1, PTL

(* A scenario directory with a features.csv, without which gridpath_run    *)
(* does not start, has all the inputs of one get_inputs.                   *)
THEOREM RunnableIsWhole == Spec => []FeaturesMeanInputs
<1>1. IInv => FeaturesMeanInputs
  BY DEF IInv
<1> QED
  BY InputsInvariant, <1>1, PTL

------------------------------------------------------------------------------
(* What get_inputs has removed and written of the auxiliary files and of   *)
(* the directories, by where it is.                                        *)
Wanted(f) == IF f \in OptionalFiles \ Scn.optional THEN 0 ELSE Get

AuxInv ==
  /\ pc = "delete" => \A n \in 1..(step - 1) : aux[DeleteOrder[n]] = 0
  /\ pc \in {"inputs", "raised"} => \A f \in AuxFiles : aux[f] = 0
  /\ pc = "aux" => \A n \in 1..4 :
       aux[WriteOrder[n]] = IF n < step THEN Wanted(WriteOrder[n]) ELSE 0
  /\ pc = "done" => \A f \in AuxFiles : aux[f] = Wanted(f)

DirsInv ==
  /\ pc = "inputs" => Paths(Scn) \subseteq dirs \cup todo
  /\ pc \in {"aux", "done"} => Paths(Scn) \subseteq dirs

FlagInv ==
  pc \in {"delete", "inputs", "raised", "aux", "done"} /\ StageFlag(Scn) => flag

WrittenInv == IInv /\ AuxInv /\ DirsInv /\ FlagInv

(* Both lists name every file once.                                        *)
LEMMA Orders ==
  /\ DOMAIN DeleteOrder = 1..4 /\ DOMAIN WriteOrder = 1..4
  /\ Len(DeleteOrder) = 4 /\ Len(WriteOrder) = 4
  /\ \A n \in 1..4 : DeleteOrder[n] \in AuxFiles /\ WriteOrder[n] \in AuxFiles
  /\ \A f \in AuxFiles : \E n \in 1..4 : DeleteOrder[n] = f
  /\ \A f \in AuxFiles : \E n \in 1..4 : WriteOrder[n] = f
  /\ \A n, m \in 1..4 : WriteOrder[n] = WriteOrder[m] => n = m
  BY DEF DeleteOrder, WriteOrder, AuxFiles, OptionalFiles

LEMMA WrittenInit == Init => WrittenInv
  BY InitInv DEF Init, WrittenInv, AuxInv, DirsInv, FlagInv

LEMMA WrittenNext == WrittenInv /\ [Next]_vars => WrittenInv'
<1> SUFFICES ASSUME WrittenInv, [Next]_vars PROVE WrittenInv'
  OBVIOUS
<1>1. IInv' /\ TypeOK /\ step \in 1..5
  BY NextInv DEF WrittenInv, IInv, TypeOK
<1>2. UNCHANGED asked =>
        /\ Get' = Get /\ Scn' = Scn /\ Paths(Scn)' = Paths(Scn)
        /\ StageFlag(Scn)' = StageFlag(Scn) /\ \A f : Wanted(f)' = Wanted(f)
  BY DEF Get, Scn, Paths, StageFlag, Wanted
<1>3. CASE UNCHANGED vars
  BY <1>1, <1>2, <1>3 DEF vars, WrittenInv, AuxInv, DirsInv, FlagInv
<1>4. CASE Start
  BY <1>1, <1>4 DEF Start, WrittenInv, AuxInv, DirsInv, FlagInv
<1>5. CASE WriteMultiStageFlag
  <2>1. pc' = "delete" /\ step' = 1 /\ UNCHANGED asked
    BY <1>5 DEF WriteMultiStageFlag
  <2>2. AuxInv' /\ DirsInv'
    BY <2>1 DEF AuxInv, DirsInv
  <2>3. StageFlag(Scn) => flag'
    BY Zenon, <1>5 DEF WriteMultiStageFlag
  <2>4. FlagInv'
    BY Zenon, <1>2, <2>1, <2>3 DEF FlagInv
  <2> QED
    BY <1>1, <2>2, <2>4 DEF WrittenInv
<1>6. CASE DeletePriorAuxFile
  <2>1. step \in 1..4 /\ DeleteOrder[step] \in AuxFiles
    BY <1>1, <1>6, Orders DEF DeletePriorAuxFile
  <2>2. ASSUME NEW n \in 1..step PROVE aux'[DeleteOrder[n]] = 0
    <3>1. DeleteOrder[n] \in AuxFiles /\ aux \in [AuxFiles -> 0..Get]
      BY <1>1, <2>1, Orders DEF TypeOK
    <3>2. n # step => aux[DeleteOrder[n]] = 0
      BY <1>6, <2>1 DEF DeletePriorAuxFile, WrittenInv, AuxInv
    <3> QED
      BY <1>6, <2>1, <3>1, <3>2 DEF DeletePriorAuxFile
  <2>3. AuxInv'
    BY <1>6, <2>1, <2>2 DEF DeletePriorAuxFile, AuxInv
  <2> QED
    BY <1>1, <1>2, <1>6, <2>3 DEF DeletePriorAuxFile, WrittenInv, DirsInv, FlagInv
<1>7. CASE ListInputs
  <2>1. step = 5
    BY <1>1, <1>7, Orders DEF ListInputs
  <2>2. \A f \in AuxFiles : aux[f] = 0
    BY <1>7, <2>1, Orders DEF ListInputs, WrittenInv, AuxInv
  <2>3. AuxInv'
    BY <1>7, <2>2 DEF ListInputs, AuxInv
  <2> QED
    BY <1>1, <1>2, <1>7, <2>3 DEF ListInputs, WrittenInv, DirsInv, FlagInv
<1>8. ASSUME NEW d \in AllPaths, BeginInputs(d) \/ EndInputs(d) \/ InputsRaise(d)
      PROVE  WrittenInv'
  <2>1. pc \in {"inputs", "raised"} /\ pc' \in {"inputs", "raised"}
        /\ UNCHANGED << aux, asked, flag >>
    BY <1>8 DEF BeginInputs, EndInputs, InputsRaise, WrittenInv, IInv, PcInv
  <2>2. AuxInv' /\ FlagInv'
    BY <1>2, <2>1 DEF WrittenInv, AuxInv, FlagInv
  <2>3. pc' = "inputs" => pc = "inputs" /\ dirs' \cup todo' = dirs \cup todo
    BY <1>8 DEF BeginInputs, EndInputs, InputsRaise
  <2>4. DirsInv'
    BY <1>2, <2>1, <2>3 DEF WrittenInv, DirsInv
  <2> QED
    BY <1>1, <2>2, <2>4 DEF WrittenInv
<1>9. CASE Raise \/ Kill
  BY <1>1, <1>9 DEF Raise, Kill, WrittenInv, AuxInv, DirsInv, FlagInv
<1>10. CASE InputsDone
  BY <1>1, <1>2, <1>10, Orders DEF InputsDone, WrittenInv, AuxInv, DirsInv, FlagInv
<1>11. CASE WriteAuxFile
  <2>1. step \in 1..4 /\ step' = step + 1 /\ UNCHANGED asked /\ pc = "aux" /\ pc' = "aux"
    BY <1>1, <1>11, Orders DEF WriteAuxFile
  <2>2. ASSUME NEW n \in 1..4
        PROVE  aux'[WriteOrder[n]] = IF n < step + 1 THEN Wanted(WriteOrder[n]) ELSE 0
    <3>1. aux[WriteOrder[n]] = IF n < step THEN Wanted(WriteOrder[n]) ELSE 0
      BY <2>1 DEF WrittenInv, AuxInv
    <3>2. aux \in [AuxFiles -> 0..Get] /\ WriteOrder[n] \in AuxFiles
      BY <1>1, Orders DEF TypeOK
    <3>3. CASE n = step
      BY <1>11, <2>1, <3>1, <3>2, <3>3 DEF WriteAuxFile, Wanted
    <3>4. CASE n # step
      <4>1. WriteOrder[n] # WriteOrder[step]
        BY <2>1, <3>4, Orders
      <4>2. aux'[WriteOrder[n]] = aux[WriteOrder[n]]
        BY <1>11, <3>2, <4>1 DEF WriteAuxFile
      <4> QED
        BY <2>1, <3>1, <3>4, <4>2
    <3> QED
      BY <3>3, <3>4
  <2>3. AuxInv'
    BY <1>2, <2>1, <2>2 DEF AuxInv
  <2> QED
    BY <1>1, <1>2, <1>11, <2>3 DEF WriteAuxFile, WrittenInv, DirsInv, FlagInv
<1>12. CASE Finish
  <2>1. step = 5
    BY <1>1, <1>12, Orders DEF Finish
  <2>2. \A f \in AuxFiles : aux[f] = Wanted(f)
    BY <1>12, <2>1, Orders DEF Finish, WrittenInv, AuxInv
  <2> QED
    BY <1>1, <1>2, <1>12, <2>2 DEF Finish, WrittenInv, AuxInv, DirsInv, FlagInv
<1> QED
  BY <1>3, <1>4, <1>5, <1>6, <1>7, <1>8, <1>9, <1>10, <1>11, <1>12 DEF Next

(* Whatever was left of earlier runs, and whether they were killed or      *)
(* failed: get_inputs that is done leaves the auxiliary files of its       *)
(* scenario and no other (delete_prior_aux_files).                         *)
THEOREM AuxFilesAreOfTheScenario == Spec => []NoPhantomAux
<1>1. WrittenInv => NoPhantomAux
  BY DEF WrittenInv, AuxInv, NoPhantomAux, Wanted
<1> QED
  BY <1>1, WrittenInit, WrittenNext, PTL DEF Spec

------------------------------------------------------------------------------
(* What the directories on disk are read as, for any structures.           *)
LEMMA CardinalityOfLevels ==
  /\ Cardinality({}) = 0
  /\ \A a : Cardinality({a}) = 1
  /\ \A a, b : a # b => Cardinality({a, b}) = 2
  /\ IsFiniteSet({1, 2, 3}) /\ Cardinality({1, 2, 3}) = 3
<1>1. IsFiniteSet({}) /\ Cardinality({}) = 0
  BY FS_EmptySet
<1>2. ASSUME NEW a PROVE IsFiniteSet({a}) /\ Cardinality({a}) = 1
  BY FS_Singleton
<1>3. ASSUME NEW a, NEW b, a # b
      PROVE  IsFiniteSet({a, b}) /\ Cardinality({a, b}) = 2
  <2>1. {a, b} = {a} \cup {b} /\ b \notin {a}
    BY <1>3
  <2>2. IsFiniteSet({a} \cup {b}) /\ Cardinality({a} \cup {b}) = Cardinality({a}) + 1
    BY <1>2, <2>1, FS_AddElement
  <2> QED
    BY <1>2, <2>1, <2>2
<1>4. IsFiniteSet({1, 2, 3}) /\ Cardinality({1, 2, 3}) = 3
  <2>1. {1, 2, 3} = {1, 2} \cup {3} /\ 3 \notin {1, 2} /\ 1 # 2
    OBVIOUS
  <2>2. IsFiniteSet({1, 2}) /\ Cardinality({1, 2}) = 2
    BY <1>3, <2>1, Zenon
  <2>3. /\ IsFiniteSet({1, 2} \cup {3})
        /\ Cardinality({1, 2} \cup {3}) = Cardinality({1, 2}) + 1
    BY <2>1, <2>2, FS_AddElement
  <2> QED
    BY <2>1, <2>2, <2>3
<1> QED
  BY <1>1, <1>2, <1>3, <1>4, Zenon

(* The levels that a directory of a scenario has.                          *)
Levels(scn) ==
  (IF IterationFlag(scn) THEN 1 ELSE 0)
  + (IF StageFlag(scn) THEN 2 ELSE IF SubproblemFlag(scn) THEN 1 ELSE 0)

LEMMA PathIs ==
  ASSUME NEW scn \in Scenarios, NEW d \in Paths(scn)
  PROVE  /\ d = << d[1], d[2], d[3] >>
         /\ IF IterationFlag(scn) THEN d[1] \in scn.iterations ELSE d[1] = NoDir
         /\ IF SubproblemFlag(scn) \/ StageFlag(scn)
            THEN d[2] \in scn.subproblems ELSE d[2] = NoDir
         /\ IF StageFlag(scn) THEN d[3] \in scn.stages ELSE d[3] = NoDir
         /\ NoDir \notin scn.iterations \cup scn.subproblems \cup scn.stages
<1>1. PICK w \in scn.iterations, s \in scn.subproblems, t \in scn.stages :
        d = DirOf(w, s, t, IterationFlag(scn), SubproblemFlag(scn), StageFlag(scn))
  BY DEF Paths
<1>2. d = << IF IterationFlag(scn) THEN w ELSE NoDir,
             IF SubproblemFlag(scn) \/ StageFlag(scn) THEN s ELSE NoDir,
             IF StageFlag(scn) THEN t ELSE NoDir >>
  BY <1>1 DEF DirOf
<1>3. NoDir \notin scn.iterations \cup scn.subproblems \cup scn.stages
  BY InputsAssumption DEF Scenario, NoDir
<1> QED
  BY <1>2, <1>3

LEMMA DepthOfPath ==
  ASSUME NEW scn \in Scenarios, NEW d \in Paths(scn)
  PROVE  Depth(d) = Levels(scn)
<1> DEFINE there == {n \in 1..3 : d[n] # NoDir}
<1>1. /\ d[1] # NoDir <=> IterationFlag(scn)
      /\ d[2] # NoDir <=> SubproblemFlag(scn) \/ StageFlag(scn)
      /\ d[3] # NoDir <=> StageFlag(scn)
  BY PathIs
<1>2. /\ 1 \in there <=> IterationFlag(scn)
      /\ 2 \in there <=> SubproblemFlag(scn) \/ StageFlag(scn)
      /\ 3 \in there <=> StageFlag(scn)
      /\ there \subseteq 1..3 /\ 1..3 = {1, 2, 3}
  BY <1>1
<1>9. Depth(d) = Cardinality(there)
  BY Zenon DEF Depth
<1> HIDE DEF there
<1>3. CASE IterationFlag(scn) /\ StageFlag(scn)
  <2>1. there = {1, 2, 3}
    BY <1>2, <1>3
  <2>2. Cardinality({1, 2, 3}) = 3
    BY CardinalityOfLevels
  <2>3. Depth(d) = 3
    BY <1>9, <2>1, <2>2
  <2> QED
    BY <1>3, <2>3 DEF Levels
<1>4. CASE IterationFlag(scn) /\ ~StageFlag(scn) /\ SubproblemFlag(scn)
  <2>1. there = {1, 2}
    BY <1>2, <1>4
  <2>2. Cardinality({1, 2}) = 2
    <3>1. 1 # 2
      OBVIOUS
    <3> QED
      BY <3>1, CardinalityOfLevels, Zenon
  <2>3. Depth(d) = 2
    BY <1>9, <2>1, <2>2
  <2> QED
    BY <1>4, <2>3 DEF Levels
<1>5. CASE IterationFlag(scn) /\ ~StageFlag(scn) /\ ~SubproblemFlag(scn)
  <2>1. there = {1}
    BY <1>2, <1>5
  <2>2. Cardinality({1}) = 1
    BY CardinalityOfLevels
  <2>3. Depth(d) = 1
    BY <1>9, <2>1, <2>2
  <2> QED
    BY <1>5, <2>3 DEF Levels
<1>6. CASE ~IterationFlag(scn) /\ StageFlag(scn)
  <2>1. there = {2, 3}
    BY <1>2, <1>6
  <2>2. Cardinality({2, 3}) = 2
    <3>1. 2 # 3
      OBVIOUS
    <3> QED
      BY <3>1, CardinalityOfLevels, Zenon
  <2>3. Depth(d) = 2
    BY <1>9, <2>1, <2>2
  <2> QED
    BY <1>6, <2>3 DEF Levels
<1>7. CASE ~IterationFlag(scn) /\ ~StageFlag(scn) /\ SubproblemFlag(scn)
  <2>1. there = {2}
    BY <1>2, <1>7
  <2>2. Cardinality({2}) = 1
    BY CardinalityOfLevels
  <2>3. Depth(d) = 1
    BY <1>9, <2>1, <2>2
  <2> QED
    BY <1>7, <2>3 DEF Levels
<1>8. CASE ~IterationFlag(scn) /\ ~StageFlag(scn) /\ ~SubproblemFlag(scn)
  <2>1. there = {}
    BY <1>2, <1>8
  <2>2. Cardinality({}) = 0
    BY CardinalityOfLevels
  <2>3. Depth(d) = 0
    BY <1>9, <2>1, <2>2
  <2> QED
    BY <1>8, <2>3 DEF Levels
<1> QED
  BY <1>3, <1>4, <1>5, <1>6, <1>7, <1>8

LEMMA SomePath ==
  ASSUME NEW scn \in Scenarios
  PROVE  Paths(scn) # {}
<1>1. scn \in Scenario
  BY InputsAssumption
<1>2. scn.iterations # {} /\ scn.subproblems # {} /\ scn.stages # {}
  BY <1>1 DEF Scenario
<1>3. PICK w \in scn.iterations : TRUE
  BY <1>2
<1>4. PICK s \in scn.subproblems : TRUE
  BY <1>2
<1>5. PICK t \in scn.stages : TRUE
  BY <1>2
<1>6. DirOf(w, s, t, IterationFlag(scn), SubproblemFlag(scn), StageFlag(scn))
        \in Paths(scn)
  BY <1>3, <1>4, <1>5 DEF Paths
<1> QED
  BY <1>6

(* A directory made of ids of the scenario is one of its directories.      *)
LEMMA PathOf ==
  ASSUME NEW scn \in Scenarios, NEW w, NEW s, NEW t,
         IterationFlag(scn) => w \in scn.iterations,
         SubproblemFlag(scn) \/ StageFlag(scn) => s \in scn.subproblems,
         StageFlag(scn) => t \in scn.stages
  PROVE  DirOf(w, s, t, IterationFlag(scn), SubproblemFlag(scn), StageFlag(scn))
           \in Paths(scn)
<1>1. scn \in Scenario
  BY InputsAssumption
<1>2. PICK w1 \in scn.iterations : IterationFlag(scn) => w1 = w
  BY <1>1 DEF Scenario
<1>3. PICK s1 \in scn.subproblems :
        SubproblemFlag(scn) \/ StageFlag(scn) => s1 = s
  BY <1>1 DEF Scenario
<1>4. PICK t1 \in scn.stages : StageFlag(scn) => t1 = t
  BY <1>1 DEF Scenario
<1>5. DirOf(w1, s1, t1, IterationFlag(scn), SubproblemFlag(scn), StageFlag(scn))
        \in Paths(scn)
  BY <1>2, <1>3, <1>4 DEF Paths
<1>6. DirOf(w1, s1, t1, IterationFlag(scn), SubproblemFlag(scn), StageFlag(scn))
        = DirOf(w, s, t, IterationFlag(scn), SubproblemFlag(scn), StageFlag(scn))
  BY <1>2, <1>3, <1>4 DEF DirOf
<1> QED
  BY <1>5, <1>6

(* The directories of the scenario are there, the flag is its own, and     *)
(* nothing else is deeper.                                                 *)
Legible(scn) ==
  /\ Paths(scn) \subseteq dirs
  /\ flag <=> StageFlag(scn)
  /\ \A e \in dirs, d \in Paths(scn) : Depth(e) <= Depth(d)
  /\ IterationsOnDisk <=> IterationFlag(scn)

LEMMA LayersOf ==
  ASSUME NEW scn \in Scenarios, Legible(scn)
  PROVE  Layers = IF StageFlag(scn) THEN 2 ELSE IF SubproblemFlag(scn) THEN 1 ELSE 0
<1> DEFINE deepest(n) == /\ \A d \in dirs : Depth(d) <= n
                         /\ n = 0 \/ \E d \in dirs : Depth(d) = n
<1>1. PICK d0 \in Paths(scn) : d0 \in dirs /\ Depth(d0) = Levels(scn)
  BY SomePath, DepthOfPath DEF Legible
<1>2. Levels(scn) \in 0..3
  BY DEF Levels
<1>3. deepest(Levels(scn))
  BY <1>1 DEF Legible
<1>4. ASSUME NEW n \in 0..3, deepest(n)
      PROVE  n = Levels(scn)
  BY <1>1, <1>2, <1>3, <1>4
<1>5. (CHOOSE n \in 0..3 : deepest(n)) = Levels(scn)
  BY <1>2, <1>3, <1>4
<1>6. Layers = Levels(scn) - (IF IterationsOnDisk THEN 1 ELSE 0)
  BY <1>5 DEF Layers
<1> QED
  BY <1>6 DEF Legible, Levels

(* Whoever reads the directories sees the levels that the scenario has.    *)
LEMMA LevelsRead ==
  ASSUME NEW scn \in Scenarios, Legible(scn)
  PROVE  /\ Readable
         /\ (Layers = 2 \/ (Layers = 1 /\ ~flag))
              = (SubproblemFlag(scn) \/ StageFlag(scn))
         /\ (Layers = 2 \/ (Layers = 1 /\ flag)) = StageFlag(scn)
         /\ \A w : SubproblemsRead(w) =
              IF SubproblemFlag(scn) \/ StageFlag(scn) THEN Firsts(w) ELSE {1}
         /\ \A w, s : StagesRead(w, s) =
              IF StageFlag(scn) THEN Seconds(w, s) ELSE {1}
<1>1. Layers = IF StageFlag(scn) THEN 2 ELSE IF SubproblemFlag(scn) THEN 1 ELSE 0
  BY LayersOf
<1>2. flag <=> StageFlag(scn)
  BY DEF Legible
<1>3. Readable
  BY <1>1, <1>2 DEF Readable
<1>4. /\ (Layers = 2 \/ (Layers = 1 /\ ~flag))
           <=> (SubproblemFlag(scn) \/ StageFlag(scn))
      /\ (Layers = 2 \/ (Layers = 1 /\ flag)) <=> StageFlag(scn)
      /\ Layers = 2 <=> StageFlag(scn)
      /\ ~(Layers = 1 /\ flag)
  BY <1>1, <1>2
<1>5. /\ (Layers = 2 \/ (Layers = 1 /\ ~flag))
           = (SubproblemFlag(scn) \/ StageFlag(scn))
      /\ (Layers = 2 \/ (Layers = 1 /\ flag)) = StageFlag(scn)
  BY <1>4 DEF StageFlag, SubproblemFlag
<1>6. ASSUME NEW w
      PROVE  SubproblemsRead(w) =
               IF SubproblemFlag(scn) \/ StageFlag(scn) THEN Firsts(w) ELSE {1}
  BY <1>4, Zenon DEF SubproblemsRead
<1>7. ASSUME NEW w, NEW s
      PROVE  StagesRead(w, s) = IF StageFlag(scn) THEN Seconds(w, s) ELSE {1}
  BY <1>4 DEF StagesRead
<1> QED
  BY <1>3, <1>5, <1>6, <1>7

LEMMA VisitedIs ==
  ASSUME NEW scn \in Scenarios, Legible(scn), NEW v
  PROVE  v \in Visited <=>
           \E w \in IterationsRead : \E s \in SubproblemsRead(w) :
             \E t \in StagesRead(w, s) :
               v = DirOf(w, s, t, IterationFlag(scn), SubproblemFlag(scn),
                         StageFlag(scn))
<1>1. IterationsOnDisk = IterationFlag(scn)
  BY DEF Legible, IterationsOnDisk, IterationFlag
<1>2. ASSUME NEW w, NEW s, NEW t
      PROVE  DirOf(w, s, t, IterationsOnDisk,
                   Layers = 2 \/ (Layers = 1 /\ ~flag),
                   Layers = 2 \/ (Layers = 1 /\ flag))
             = DirOf(w, s, t, IterationFlag(scn), SubproblemFlag(scn),
                     StageFlag(scn))
  <2>1. /\ (Layers = 2 \/ (Layers = 1 /\ ~flag))
             = (SubproblemFlag(scn) \/ StageFlag(scn))
        /\ (Layers = 2 \/ (Layers = 1 /\ flag)) = StageFlag(scn)
    BY LevelsRead
  <2> QED
    BY <1>1, <2>1 DEF DirOf
<1> DEFINE dir(w, s, t) == DirOf(w, s, t, IterationsOnDisk,
                               Layers = 2 \/ (Layers = 1 /\ ~flag),
                               Layers = 2 \/ (Layers = 1 /\ flag))
           under(w, s) == {dir(w, s, t) : t \in StagesRead(w, s)}
           below(w) == UNION {under(w, s) : s \in SubproblemsRead(w)}
<1>3. Visited = UNION {below(w) : w \in IterationsRead}
  BY Zenon DEF Visited
<1>4. ASSUME NEW w, NEW s
      PROVE  v \in under(w, s) <=>
               \E t \in StagesRead(w, s) :
                 v = DirOf(w, s, t, IterationFlag(scn), SubproblemFlag(scn),
                           StageFlag(scn))
  BY <1>2
<1> HIDE DEF under
<1>5. ASSUME NEW w
      PROVE  v \in below(w) <=>
               \E s \in SubproblemsRead(w) : v \in under(w, s)
  OBVIOUS
<1> HIDE DEF below
<1>6. v \in Visited <=> \E w \in IterationsRead : v \in below(w)
  BY <1>3
<1> QED
  BY <1>4, <1>5, <1>6, Zenon

(* What the scenario wrote is read again.                                  *)
LEMMA PathsAreVisited ==
  ASSUME NEW scn \in Scenarios, Legible(scn)
  PROVE  Paths(scn) \subseteq Visited
<1> SUFFICES ASSUME NEW d \in Paths(scn) PROVE d \in Visited
  OBVIOUS
<1>1. d \in dirs
  BY DEF Legible
<1>2. /\ d = << d[1], d[2], d[3] >>
      /\ d[1] # NoDir <=> IterationFlag(scn)
      /\ d[2] # NoDir <=> SubproblemFlag(scn) \/ StageFlag(scn)
      /\ d[3] # NoDir <=> StageFlag(scn)
  BY PathIs
<1>3. IterationsOnDisk <=> IterationFlag(scn)
  BY DEF Legible
<1>4. PICK w : w = IF IterationFlag(scn) THEN d[1] ELSE 0
  OBVIOUS
<1>5. PICK s : s = IF SubproblemFlag(scn) \/ StageFlag(scn) THEN d[2] ELSE 1
  OBVIOUS
<1>6. PICK t : t = IF StageFlag(scn) THEN d[3] ELSE 1
  OBVIOUS
<1>7. w \in IterationsRead
  BY <1>1, <1>2, <1>3, <1>4 DEF IterationsRead
<1>8. << d[2], d[3] >> \in Below(w)
  <2>1. CASE ~IterationFlag(scn)
    BY <1>1, <1>3, <2>1 DEF Below
  <2>2. CASE IterationFlag(scn)
    <3>1. d \in {e \in dirs : e[1] = w}
      BY <1>1, <1>4, <2>2
    <3> QED
      BY <1>3, <2>2, <3>1 DEF Below
  <2> QED
    BY <2>1, <2>2
<1>9. SubproblemFlag(scn) \/ StageFlag(scn) => d[2] \in Firsts(w)
  <2>1. d[2] \in {b[1] : b \in Below(w)}
    BY <1>8
  <2> QED
    BY <1>2, <2>1 DEF Firsts
<1>10. StageFlag(scn) => d[3] \in Seconds(w, d[2])
  <2>1. << d[2], d[3] >> \in {c \in Below(w) : c[1] = d[2]}
    BY <1>8
  <2>2. d[3] \in {b[2] : b \in {c \in Below(w) : c[1] = d[2]}}
    BY <2>1
  <2> QED
    BY <1>2, <2>2 DEF Seconds
<1>11. s \in SubproblemsRead(w)
  <2>1. SubproblemsRead(w) =
          IF SubproblemFlag(scn) \/ StageFlag(scn) THEN Firsts(w) ELSE {1}
    BY LevelsRead
  <2> QED
    BY <1>5, <1>9, <2>1
<1>12. t \in StagesRead(w, s)
  <2>1. StagesRead(w, s) = IF StageFlag(scn) THEN Seconds(w, s) ELSE {1}
    BY LevelsRead
  <2> QED
    BY <1>5, <1>6, <1>10, <2>1
<1>13. d = DirOf(w, s, t, IterationFlag(scn), SubproblemFlag(scn), StageFlag(scn))
  BY <1>2, <1>4, <1>5, <1>6 DEF DirOf
<1> QED
  BY <1>7, <1>11, <1>12, <1>13, VisitedIs

(* A directory above another has its levels, from the first on.            *)
LEMMA LevelsAbove ==
  ASSUME NEW e, NEW d, Above(e, d)
  PROVE  /\ e[1] = d[1] \/ (e[1] = NoDir /\ e[2] = NoDir /\ e[3] = NoDir)
         /\ e[2] = d[2] \/ (e[2] = NoDir /\ e[3] = NoDir)
         /\ e[3] = d[3] \/ e[3] = NoDir
<1>1. PICK k \in 0..3 : \A n \in 1..3 : e[n] = IF n <= k THEN d[n] ELSE NoDir
  BY DEF Above
<1>2. /\ e[1] = IF 1 <= k THEN d[1] ELSE NoDir
      /\ e[2] = IF 2 <= k THEN d[2] ELSE NoDir
      /\ e[3] = IF 3 <= k THEN d[3] ELSE NoDir
  BY <1>1
<1> QED
  BY <1>1, <1>2

(* If whatever is on disk is above a directory of the scenario, nothing is *)
(* deeper and nothing is read but the levels of the scenario.              *)
LEMMA NothingForeignIsRead ==
  ASSUME NEW scn \in Scenarios, Legible(scn),
         \A e \in dirs : \E d \in Paths(scn) : Above(e, d)
  PROVE  Visited \subseteq Paths(scn)
<1> SUFFICES ASSUME NEW v \in Visited PROVE v \in Paths(scn)
  OBVIOUS
<1>1. PICK w \in IterationsRead :
        \E s \in SubproblemsRead(w) : \E t \in StagesRead(w, s) :
          v = DirOf(w, s, t, IterationFlag(scn), SubproblemFlag(scn),
                    StageFlag(scn))
  BY VisitedIs
<1>9. PICK s \in SubproblemsRead(w) :
        \E t \in StagesRead(w, s) :
          v = DirOf(w, s, t, IterationFlag(scn), SubproblemFlag(scn),
                    StageFlag(scn))
  BY <1>1
<1>2. PICK t \in StagesRead(w, s) :
        v = DirOf(w, s, t, IterationFlag(scn), SubproblemFlag(scn), StageFlag(scn))
  BY <1>9
<1>3. IterationsOnDisk <=> IterationFlag(scn)
  BY DEF Legible
<1>4. ASSUME NEW e \in dirs
      PROVE  /\ e[1] # NoDir => IterationFlag(scn) /\ e[1] \in scn.iterations
             /\ e[2] # NoDir => /\ IterationFlag(scn) => e[1] # NoDir
                                /\ SubproblemFlag(scn) \/ StageFlag(scn)
                                /\ e[2] \in scn.subproblems
             /\ e[3] # NoDir => /\ StageFlag(scn)
                                /\ e[3] \in scn.stages
  <2>1. PICK d \in Paths(scn) : Above(e, d)
    OBVIOUS
  <2>2. /\ d[1] # NoDir <=> IterationFlag(scn)
        /\ IterationFlag(scn) => d[1] \in scn.iterations
        /\ d[2] # NoDir => SubproblemFlag(scn) \/ StageFlag(scn)
        /\ d[2] # NoDir => d[2] \in scn.subproblems
        /\ d[3] # NoDir => StageFlag(scn) /\ d[3] \in scn.stages
    BY PathIs
  <2>3. /\ e[1] = d[1] \/ (e[1] = NoDir /\ e[2] = NoDir /\ e[3] = NoDir)
        /\ e[2] = d[2] \/ (e[2] = NoDir /\ e[3] = NoDir)
        /\ e[3] = d[3] \/ e[3] = NoDir
    BY <2>1, LevelsAbove
  <2> QED
    BY <2>2, <2>3
<1>5. IterationFlag(scn) => w \in scn.iterations
  <2> SUFFICES ASSUME IterationFlag(scn) PROVE w \in scn.iterations
    OBVIOUS
  <2>1. PICK e \in dirs : w # NoDir /\ (w = e[1] \/ (w = e[2] /\ e[1] = NoDir))
    BY <1>3 DEF IterationsRead
  <2> QED
    BY <1>4, <2>1
<1>6. ASSUME NEW b \in Below(w)
      PROVE  /\ b[1] # NoDir => /\ SubproblemFlag(scn) \/ StageFlag(scn)
                                /\ b[1] \in scn.subproblems
             /\ b[2] # NoDir => StageFlag(scn) /\ b[2] \in scn.stages
  <2>1. CASE ~IterationFlag(scn)
    <3>1. PICK e \in dirs : b = << e[2], e[3] >>
      BY <1>3, <2>1 DEF Below
    <3> QED
      BY <1>4, <3>1
  <2>2. CASE IterationFlag(scn)
    <3>1. PICK e0 \in dirs : w # NoDir /\ (w = e0[1] \/ (w = e0[2] /\ e0[1] = NoDir))
      BY <1>3, <2>2 DEF IterationsRead
    <3>2. w = e0[1]
      BY <1>4, <2>2, <3>1
    <3>3. {d \in dirs : d[1] = w} # {}
      BY <3>2
    <3>4. PICK e \in dirs : b = << e[2], e[3] >>
      BY <1>3, <2>2, <3>3 DEF Below
    <3> QED
      BY <1>4, <3>4
  <2> QED
    BY <2>1, <2>2
<1>7. SubproblemFlag(scn) \/ StageFlag(scn) => s \in scn.subproblems
  <2> SUFFICES ASSUME SubproblemFlag(scn) \/ StageFlag(scn)
               PROVE  s \in scn.subproblems
    OBVIOUS
  <2>1. s \in Firsts(w)
    BY <1>2, LevelsRead
  <2>2. PICK b \in Below(w) : s = b[1] /\ s # NoDir
    BY <2>1 DEF Firsts
  <2> QED
    BY <1>6, <2>2
<1>8. StageFlag(scn) => t \in scn.stages
  <2> SUFFICES ASSUME StageFlag(scn) PROVE t \in scn.stages
    OBVIOUS
  <2>1. t \in Seconds(w, s)
    BY <1>2, LevelsRead
  <2>2. PICK b \in Below(w) : t = b[2] /\ t # NoDir
    BY <2>1 DEF Seconds
  <2> QED
    BY <1>6, <2>2
<1> QED
  BY <1>2, <1>5, <1>7, <1>8, PathOf

LEMMA AboveIsNoDeeper ==
  ASSUME NEW scn \in Scenarios, NEW e, NEW d \in Paths(scn), Above(e, d)
  PROVE  /\ Depth(e) <= Depth(d)
         /\ e[1] # NoDir => IterationFlag(scn)
<1>1. {n \in 1..3 : e[n] # NoDir} \subseteq {n \in 1..3 : d[n] # NoDir}
  BY DEF Above
<1>2. IsFiniteSet({n \in 1..3 : d[n] # NoDir})
  <2>1. IsFiniteSet({1, 2, 3})
    BY CardinalityOfLevels
  <2>2. {n \in 1..3 : d[n] # NoDir} \subseteq {1, 2, 3}
    OBVIOUS
  <2> QED
    BY <2>1, <2>2, FS_Subset
<1>3. Depth(e) <= Depth(d)
  BY <1>1, <1>2, FS_Subset DEF Depth
<1>4. e[1] # NoDir => IterationFlag(scn)
  BY LevelsAbove, PathIs
<1> QED
  BY <1>3, <1>4

(* What is left of the scenario's own directories when get_inputs is done. *)
LEMMA DoneMeansThere ==
  ASSUME WrittenInv, pc = "done", NoStaleFlag
  PROVE  /\ Scn \in Scenarios
         /\ Paths(Scn) \subseteq dirs
         /\ flag <=> StageFlag(Scn)
         /\ IterationFlag(Scn) => IterationsOnDisk
<1>1. Scn \in Scenarios
  BY LastScenario DEF WrittenInv, IInv, TypeOK
<1>2. Paths(Scn) \subseteq dirs
  BY DEF WrittenInv, DirsInv
<1>3. flag <=> StageFlag(Scn)
  BY DEF WrittenInv, FlagInv, NoStaleFlag
<1>4. IterationFlag(Scn) => IterationsOnDisk
  BY <1>1, <1>2, SomePath, PathIs DEF IterationsOnDisk
<1> QED
  BY <1>1, <1>2, <1>3, <1>4

(* Whatever else is on disk, as long as it is no deeper and brings no      *)
(* level of iterations: gridpath_run visits every directory of the         *)
(* scenario (get_scenario_structure_from_disk).                            *)
THEOREM OldDirectoriesHideNone == Spec => []LosesNothing
<1>1. ASSUME WrittenInv PROVE LosesNothing
  <2> SUFFICES ASSUME pc = "done", NoStaleFlag,
                      \A e \in dirs, d \in Paths(Scn) : Depth(e) <= Depth(d),
                      IterationsOnDisk => IterationFlag(Scn)
               PROVE  Readable /\ Paths(Scn) \subseteq Visited
    BY DEF LosesNothing
  <2>1. Scn \in Scenarios /\ Legible(Scn)
    BY <1>1, DoneMeansThere DEF Legible
  <2> QED
    BY <2>1, LevelsRead, PathsAreVisited
<1> QED
  BY <1>1, WrittenInit, WrittenNext, PTL DEF Spec

(* If moreover nothing is left but directories above those of the          *)
(* scenario, gridpath_run visits no other: the structure that is read is   *)
(* the one that was written, for every structure of iterations,            *)
(* subproblems and stages.                                                 *)
THEOREM StructureReadAsWritten == Spec => []ReadsWhatWasWritten
<1>1. ASSUME WrittenInv PROVE ReadsWhatWasWritten
  <2> SUFFICES ASSUME pc = "done", NothingForeign, NoStaleFlag
               PROVE  Readable /\ Visited = Paths(Scn)
    BY DEF ReadsWhatWasWritten
  <2>1. /\ Scn \in Scenarios /\ Paths(Scn) \subseteq dirs
        /\ flag <=> StageFlag(Scn)
        /\ IterationFlag(Scn) => IterationsOnDisk
    BY <1>1, DoneMeansThere
  <2>2. ASSUME NEW e \in dirs, NEW d \in Paths(Scn) PROVE Depth(e) <= Depth(d)
    <3>1. PICK d1 \in Paths(Scn) : Above(e, d1)
      BY DEF NothingForeign
    <3>2. Depth(e) <= Depth(d1)
      BY <2>1, <3>1, AboveIsNoDeeper
    <3>3. Depth(d1) = Depth(d)
      BY <2>1, DepthOfPath
    <3> QED
      BY <3>2, <3>3
  <2>3. IterationsOnDisk => IterationFlag(Scn)
    BY <2>1, AboveIsNoDeeper DEF IterationsOnDisk, NothingForeign
  <2>4. Legible(Scn)
    BY <2>1, <2>2, <2>3 DEF Legible
  <2> QED
    BY <2>1, <2>4, LevelsRead, PathsAreVisited, NothingForeignIsRead
       DEF NothingForeign
<1> QED
  BY <1>1, WrittenInit, WrittenNext, PTL DEF Spec
=============================================================================
