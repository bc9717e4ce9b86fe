----------------------------- MODULE Arrangement ------------------------------
(* Why the modules of any scenario fit together.  Each module or type plays    *)
(* its role whatever the scenario is, and needs what others do.  Arranged says *)
(* of the table of modules, with no scenario in it, that who provides what a   *)
(* role needs comes early enough in all_modules_list, and is in use whenever   *)
(* the role is.  That this is enough is proved in Formulation_proofs.          *)
EXTENDS Formulation

Position == [n \in Modules |->
  CHOOSE i \in DOMAIN all_modules_list : all_modules_list[i] = n]

(* A role is a pair <<n, u>>: the unit u, module n itself or a type that n     *)
(* calls in phase p.                                                           *)
Loadable(p, n) ==
  UNION {TypesOf[family] : family \in
           {f \in DOMAIN TypesOf : <<p, <<n, f>>>> \in TypeLoaders}}
Roles(p) == UNION {{n} \X ({n} \cup Loadable(p, n)) : n \in Modules}

TypesIn(x) == {x[2]} \ {x[1]}
Model(x) == ModuleParts[x[2]].model
Results(x) == ModuleParts[x[2]].results
-------------------------------------------------------------------------------
(* Features a scenario with the given ones must also have.                     *)
Requires(f) ==
  IF f \in {"transmission_target", "transmission_hurdle_rates",
            "horizon_transmission_target",
            "transmission_hurdle_rates_by_timepoint"}
  THEN {"transmission"} ELSE {}
With(features) == features \cup UNION {Requires(f) : f \in features}

EnergyOnly == "project.reliability.prm.prm_types.energy_only_allowed"

(* gen_hydro_water projects need a water system, and energy-only capacity the  *)
(* deliverability feature (and the other way round, in Fits).                  *)
TypeRequires(t) ==
  IF t = "project.operations.operational_types.gen_hydro_water" THEN {"water"}
  ELSE IF t = EnergyOnly THEN {"deliverability"} ELSE {}

(* What contributes less the losses of storage is storage.                     *)
Companions(t) ==
  IF t = "project.policy.compliance_types.stor_losses"
  THEN {"project.operations.operational_types.stor"} ELSE {}

(* The types that read the limits on startups.                                 *)
StartupTypes ==
  {"project.operations.operational_types.gen_commit_bin",
   "project.operations.operational_types.gen_commit_lin"}

(* The scenarios the modules are meant for: with each feature those it is      *)
(* about, with a project that reserves may be asked of, and with limits on     *)
(* startups only if a type reads them.                                         *)
Fits(sc) ==
  /\ IsFiniteSet(sc.types) /\ sc.stages \in BOOLEAN
  /\ With(sc.features) \subseteq sc.features
  /\ \A t \in sc.types : /\ TypeRequires(t) \subseteq sc.features
                         /\ Companions(t) \subseteq sc.types
  /\ "deliverability" \in sc.features => EnergyOnly \in sc.types
  /\ sc.types \cap (TypesOf["operational_type"] \ NoReserveTypes) # {}
  /\ sc.rows => sc.types \cap StartupTypes # {}

ASSUME ScenariosFit == \A sc \in Scenarios : Fits(sc)
-------------------------------------------------------------------------------
Containing(groups, n) == {g \in Range(groups) : n \in Range(g.modules)}

(* The sets of features with one of which module n is in use.                  *)
Wants == [n \in Modules |->
  LET every == UNION {g.features : g \in
                        Containing(optional_modules_list, n)
                          \cup Containing(cross_feature_modules_list, n)
                          \cup Containing(stage_feature_module_list, n)}
      some == Containing(feature_shared_modules_list, n)
  IN IF some = {} THEN {every}
     ELSE {every \cup {f} : f \in UNION {g.features : g \in some}}]

(* Whenever role x is played, role y is.                                       *)
Brings(x, y) ==
  /\ y[1] \in Range(FixVariablesModules) => x[1] \in Range(FixVariablesModules)
  /\ \A C \in Wants[x[1]] :
       LET all == With(C \cup UNION {TypeRequires(t) : t \in TypesIn(x)})
       IN /\ \E D \in Wants[y[1]] : D \subseteq all
          /\ y[2] \in {y[1]} \cup TypesIn(x)
                        \cup (UNION {Companions(t) : t \in TypesIn(x)})
                        \cup (IF "deliverability" \in all
                              THEN {EnergyOnly} ELSE {})

(* A list of groups in which no module is twice.                               *)
Apart(groups) ==
  /\ Len(groups) \in Nat /\ DOMAIN groups = 1..Len(groups)
  /\ \A i \in DOMAIN groups :
       /\ groups[i].modules \in Seq(Modules) /\ IsInjective(groups[i].modules)
       /\ \A j \in DOMAIN groups : i # j =>
            Range(groups[i].modules) \cap Range(groups[j].modules) = {}
Grouped(groups) == UNION {Range(g.modules) : g \in Range(groups)}

(* The lists of determine_modules: each module is in one place.                *)
GroupsArranged ==
  /\ all_modules_list \in Seq(Modules) /\ IsInjective(all_modules_list)
  /\ FixVariablesModules \in Seq(Modules) /\ IsInjective(FixVariablesModules)
  /\ Apart(optional_modules_list) /\ Apart(feature_shared_modules_list)
  /\ Apart(cross_feature_modules_list) /\ Apart(stage_feature_module_list)
  /\ Grouped(optional_modules_list)
       \cap Grouped(feature_shared_modules_list) = {}
  /\ (Grouped(optional_modules_list) \cup Grouped(feature_shared_modules_list))
       \cap Grouped(cross_feature_modules_list) = {}
  /\ Grouped(stage_feature_module_list) \subseteq Range(FixVariablesModules)
  /\ Range(FixVariablesModules)
       \cap (Grouped(optional_modules_list)
             \cup Grouped(feature_shared_modules_list)
             \cup Grouped(cross_feature_modules_list)) = {}
-------------------------------------------------------------------------------
(* A role that declares component c, no later than module n.                   *)
Declared(x, c, n) ==
  \E y \in Roles("declare") :
    /\ c \in Model(y).declares /\ Position[y[1]] <= Position[n]
    /\ Brings(x, y)

ComponentsArranged ==
  \A x \in Roles("declare") :
    LET n == x[1]
    IN /\ \A c \in Model(x).over : Declared(x, c, n)
       /\ \A c \in Model(x).reads \ NeverDeclared : Declared(x, c, n)
       /\ \A r \in Model(x).readsFor :
            r[2] \in NeverDeclared \/ Declared(<<n, r[1]>>, r[2], n)
       /\ \A call \in Model(x).calls \cup Model(x).expects :
            \A t \in TypesOf[call[1]] :
              call[2] \in Offered(t) =>
                \A c \in Functions[t][call[2]] \ NeverDeclared :
                  Declared(<<n, t>>, c, n)
       /\ \A y \in Roles("declare") :
            /\ x # y => Model(x).declares \cap Model(y).declares = {}
            /\ Model(x).readsIf \cap Model(y).declares # {} =>
                 Position[y[1]] <= Position[n]
            /\ \A pair \in Model(y).adds :
                 pair[1] \in Model(x).takes =>
                   pair[2] \in NeverDeclared \/ Declared(y, pair[2], n)

FunctionsArranged ==
  /\ \A n \in Modules : /\ Offered(n) = {}
                         /\ \E C \in Wants[n] : C \subseteq Features
  /\ \A x \in Roles("declare") :
       /\ \A call \in Model(x).expects : \A t \in TypesOf[call[1]] :
            call[2] \in Offered(t)
       /\ \A f \in Offered(x[2]) \ NeverCalled :
            \E y \in Roles("declare") :
              \E call \in Model(y).calls \cup Model(y).expects :
                call[2] = f /\ x[2] \in TypesOf[call[1]]

(* The lists whose elements take room from the power of a project.             *)
RoomLists == {"headroom_variables", "footroom_variables"}

ListsArranged ==
  /\ \A t \in TypesOf["operational_type"] \ NoReserveTypes :
       RoomLists \subseteq ModuleParts[t].model.takes
  /\ \A x \in Roles("declare") :
       /\ \A pair \in Model(x).adds :
            \/ pair[1] \in {"reserve_variable_derate_params",
                            "reserve_to_energy_adjustment_params"}
            \/ /\ pair[1] \in RoomLists
               /\ \E m \in Modules :
                    /\ TypesOf["operational_type"] \subseteq Loadable("declare", m)
                    /\ Brings(x, <<m, m>>)
            \/ \E y \in Roles("declare") :
                 pair[1] \in Model(y).takes /\ Brings(x, y)
       /\ \A relaxation \in (Relaxations \cap Model(x).declares)
            \ {"Water_Link_Hrz_Min_Flow_Violation_Avg_Vol_per_Sec_Expression"} :
            \E m \in Modules :
              /\ Brings(x, <<m, m>>)
              /\ relaxation \in Model(<<m, m>>).reads
              /\ "cost_components" \in {pair[1] : pair \in Model(<<m, m>>).adds}
       /\ \A n \in Modules : \A pair \in Model(x).adds :
            pair[1] \in ClearedLists(n) => Position[x[1]] >= Position[n]
-------------------------------------------------------------------------------
(* Role x writes file f in every scenario it is played in; it may read it.     *)
SureToWrite(x, f) ==
  LET writes == ModuleParts[x[2]].writes
  IN f \in writes.writes \cup (writes.mayWrite \cap AlwaysRows)
MayRead(x, f) ==
  f \in ModuleParts[x[2]].loads.must \cup ModuleParts[x[2]].loads.may

FilesArranged ==
  /\ \A x \in Roles("load") :
       LET loads == ModuleParts[x[2]].loads
       IN /\ \A f \in loads.must
                 \ {"instantaneous_penetration_tmp_requirement.tab"} :
               \E y \in Roles("write") : SureToWrite(y, f) /\ Brings(x, y)
          /\ x[2] \notin HandsOverUnread => Results(x).hands \subseteq loads.may
  /\ \A x \in Roles("write") :
       LET writes == ModuleParts[x[2]].writes
       IN /\ \A f \in writes.extends :
               \E y \in Roles("write") :
                 /\ SureToWrite(y, f) /\ Brings(x, y)
                 /\ Position[y[1]] < Position[x[1]]
          /\ \A f \in writes.writes \cup writes.mayWrite :
               \/ \E y \in Roles("load") : MayRead(y, f) /\ Brings(x, y)
               \/ /\ f \notin writes.writes \cup AlwaysRows
                  /\ \A t \in StartupTypes : \E m \in Modules :
                       /\ <<m, t>> \in Roles("load") /\ MayRead(<<m, t>>, f)
                       /\ Brings(x, <<m, m>>)
-------------------------------------------------------------------------------
(* The columns of frames a role creates or fills, as <<frame, column>> pairs.  *)
Creates(n) == ModuleParts[n].results.creates
Fills(x) ==
  IF x[2] = x[1] THEN Results(x).assigns
  ELSE IF ModuleParts[x[1]].results.collects = "none" THEN {}
  ELSE Results(x).returns
Puts(x) == Fills(x) \cup (IF x[2] = x[1] THEN Creates(x[1]) ELSE {})
SavesOf(n) == ModuleParts[n].results.saves

(* The CSV files a role writes.                                                *)
Csvs(x) ==
  Tables(Results(x).exports)
    \cup (IF x[2] = x[1]
          THEN {save[2] : save \in SavesOf(x[1])} \cup Tables(Results(x).header)
          ELSE {})

FramesArranged ==
  /\ \A n \in Modules :
       /\ n \notin Loadable("export", n)
       /\ ModuleParts[n].results.collects \in {"none", "fill", "reset"}
  /\ \A x \in Roles("export") :
       /\ \A f \in Tables(Fills(x))
                    \cup (IF x[2] = x[1]
                          THEN {save[1] : save \in SavesOf(x[1])} ELSE {}) :
            \E m \in Modules :
              /\ f \in Tables(Creates(m)) /\ Brings(x, <<m, m>>)
              /\ Position[m] <= Position[x[1]]
       /\ \A m \in Modules : \A save \in SavesOf(m) :
            /\ save[1] \in Tables(Creates(x[1])) => Position[x[1]] < Position[m]
            /\ save[1] \in Tables(Fills(x)) \ SavedTooEarly =>
                 Position[x[1]] < Position[m]
       /\ \A y \in Roles("export") : x[1] # y[1] =>
            /\ Tables(Creates(x[1])) \cap Tables(Creates(y[1])) = {}
            /\ Csvs(x) \cap Csvs(y) = {}
            /\ Position[x[1]] < Position[y[1]] =>
                 \A f \in Tables(Puts(x)) :
                   ColumnsOf(Puts(x), f) \cap ColumnsOf(Fills(y), f)
                     \subseteq Emptied

AllImports == UNION {ModuleParts[x[2]].imports : x \in Roles("import")}
InSchema(csv, column) ==
  csv \in AllImports =>
    column \in TableOf[csv] \/ <<csv, column>> \in MisnamedColumns

ImportsArranged ==
  /\ \A x \in Roles("import") : \A csv \in ModuleParts[x[2]].imports :
       \E y \in Roles("export") : csv \in Csvs(y) /\ Brings(x, y)
  /\ \A x \in Roles("export") :
       /\ \A csv \in Csvs(x) \ NeverImported :
            \E y \in Roles("import") :
              csv \in ModuleParts[y[2]].imports /\ Brings(x, y)
       /\ \A csv \in Csvs(x) :
            \A column \in ColumnsOf(Results(x).exports, csv) :
              InSchema(csv, column)
       /\ \A m \in Modules : \A save \in SavesOf(m) :
            Position[x[1]] < Position[m] =>
              \A column \in ColumnsOf(Puts(x), save[1]) :
                InSchema(save[2], column)
       /\ \A y \in Roles("declare") : \A pair \in Model(y).adds :
            \A header \in Results(x).header :
              header[2] = pair[1] => InSchema(header[1], pair[2])

Processes(x) == ProcessParts[x[2]]
ProcessingRoles == {x \in Roles("process") : x[2] \in DOMAIN ProcessParts}

(* A role that puts the column in the file, before it is saved.                *)
Exported(x, csv, column) ==
  \E y \in Roles("export") :
    /\ Brings(x, y)
    /\ \/ column \in ColumnsOf(Results(y).exports, csv)
       \/ \E m \in Modules : \E save \in SavesOf(m) :
            /\ save[2] = csv /\ column \in ColumnsOf(Puts(y), save[1])
            /\ Position[y[1]] < Position[m] /\ Brings(x, <<m, m>>)

ProcessingArranged ==
  /\ \A x \in ProcessingRoles :
       /\ \A col \in Processes(x).reads :
            /\ \E y \in Roles("import") :
                 col[1] \in ModuleParts[y[2]].imports /\ Brings(x, y)
            /\ \/ col \in SavedWithout \/ Exported(x, col[1], col[2])
               \/ \E y \in ProcessingRoles :
                    /\ col \in Processes(y).sets /\ Brings(x, y)
                    /\ Position[y[1]] < Position[x[1]]
       /\ \A y \in ProcessingRoles :
            x # y => Processes(x).fills \cap Processes(y).fills
                       \subseteq FilledTwice
  /\ \A x \in Roles("declare") :
       x[2] \in DOMAIN ProcessParts =>
         \E y \in ProcessingRoles : y[2] = x[2] /\ Brings(x, y)
-------------------------------------------------------------------------------
(* What the table of modules and the lists of determine_modules must say for   *)
(* the modules to fit together in every scenario.                              *)
Arranged ==
  /\ GroupsArranged /\ ComponentsArranged /\ FunctionsArranged /\ ListsArranged
  /\ FilesArranged /\ FramesArranged /\ ImportsArranged /\ ProcessingArranged

(* Whatever a scenario is, its modules are chosen from a table that suits it:  *)
(* what a module or a type needs of another - a component, a function, a file, *)
(* a frame, a table - is provided by one that comes early enough in            *)
(* all_modules_list and that determine_modules keeps whenever it keeps the     *)
(* first, for every choice of features and types that fits and not only for    *)
(* the scenarios of a run.  The theorems of Formulation_proofs rest on it.     *)
ModulesArranged == [][ChooseModules => Arranged]_vars
===============================================================================
