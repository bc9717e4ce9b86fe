----------------------------- MODULE Formulation ------------------------------
(* How the modules of a scenario build one problem together and report on it.  *)
(* GridPath goes through the selected modules in their order once per phase,   *)
(* calling the function of the phase if the module has it (Parts of            *)
(* GridPathModule):                                                            *)
(*   write    write_model_inputs            get_scenario_inputs.py             *)
(*   declare  add_model_components          create_abstract_model              *)
(*   load     load_model_data               load_scenario_data                 *)
(*   build    Pyomo constructs the instance in the order of declaration        *)
(*   export   export_results                run_scenario.py                    *)
(*   import   import_results_into_database  import_scenario_results.py         *)
(*   process  process_results               process_results.py                 *)
(* Nothing but the order of all_modules_list makes sure that what a module     *)
(* uses is there: a missing name is an AttributeError or a missing file in     *)
(* the middle of a run, or a result that silently never reaches the database.  *)
EXTENDS TemporalModules, GeographyModules, CapacityTypes, OperationalTypes,
        ProjectModules, TransmissionModules, SystemModules, PolicyModules,
        ObjectiveModules, ModuleChoice, ResultsProcessing

CONSTANTS
  Scenarios,    \* the scenarios: features, types, stages and rows
  AlwaysRows    \* .tab files whose tables every scenario that writes them fills

VARIABLES
  scenario,     \* features, types, whether it has stages, whether the tables
                \* that may be empty have rows
  phase,        \* the phase
  selected,     \* the selected modules in order
  todo,         \* those the phase has still to call
  inputs,       \* .tab files in the inputs directory
  opened,       \* .tab files the load phase has read
  components,   \* components declared on the abstract model
  lists,        \* <<list, component>> pairs of the dynamic components
  built,        \* components constructed in the instance
  frames,       \* [data frame -> <<column, module>> pairs]: who filled what
  saved,        \* [CSV file -> <<column, module>> pairs]: what it was given
  imported,     \* CSV files appended to their tables
  updated,      \* <<CSV file, column>> pairs updated in the tables
  aggregated    \* [table of aggregates -> the unit whose rows it has]

vars == <<scenario, phase, selected, todo, inputs, opened, components, lists,
          built, frames, saved, imported, updated, aggregated>>
-------------------------------------------------------------------------------
ModuleParts ==
  TemporalParts @@ GeographyParts @@ CapacityTypesParts @@ OperationalTypesParts
  @@ ProjectParts @@ TransmissionParts @@ SystemParts @@ PolicyParts
  @@ ObjectiveParts

Functions ==
  CapacityTypesFunctions @@ OperationalTypesFunctions @@ ProjectFunctions
  @@ TransmissionFunctions @@ SystemFunctions
Offered(t) == IF t \in DOMAIN Functions THEN DOMAIN Functions[t] ELSE {}

Everywhere == {"write", "declare", "load", "export", "import"}

(* The module that calls the types of each family in each phase; a family      *)
(* without a function for the phase has no entry.                              *)
TypeLoaders ==
  ({"write", "declare", "load"} \X
     {<<"system.water.reservoirs", "elevation_type">>,
      <<"project.policy.policy_contribution", "compliance_type">>})
  \cup {<<"write", <<"project.capacity.capacity_types", "capacity_type">>>>}
  \cup ({"declare", "load", "export"} \X
     {<<"project.capacity.capacity", "capacity_type">>})
  \cup (Everywhere \X
     {<<"project.availability.availability", "availability_type">>,
      <<"project.reliability.prm.prm_types", "prm_type">>,
      <<"transmission.availability.availability", "tx_availability_type">>})
  \cup ({"write", "declare", "load", "export"} \X
     {<<"project.operations.operational_types", "operational_type">>})
  \cup {<<"export", <<"project.operations.power", "operational_type">>>>}
  \cup ({"write", "declare", "load"} \X
     {<<"transmission.capacity.capacity_types", "tx_capacity_type">>,
      <<"transmission.operations.operational_types", "tx_operational_type">>})
  \cup {<<"load", <<"transmission.capacity.costs", "tx_capacity_type">>>>,
        <<"export", <<"transmission.capacity.capacity", "tx_capacity_type">>>>,
        <<"export", <<"transmission.operations.operations",
                      "tx_operational_type">>>>,
        <<"process", <<"project.operations.operational_types",
                       "operational_type">>>>,
        <<"process", <<"project.reliability.prm.prm_types", "prm_type">>>>,
        <<"process", <<"transmission.operations.operational_types",
                       "tx_operational_type">>>>}

LoadedTypes(p, n) ==
  (UNION {TypesOf[family] : family \in
           {f \in DOMAIN TypesOf : <<p, <<n, f>>>> \in TypeLoaders}})
    \cap scenario.types

(* The units that act when phase p calls module n: the types are called first  *)
(* or last, and share no name with their module.                               *)
Acting(p, n) == {n} \cup LoadedTypes(p, n)
Part(p, n) == {ModuleParts[u] : u \in Acting(p, n)}

(* The functions of the types in use that the rules of module n call.          *)
CallsOf(n) ==
  UNION {part.model.calls \cup part.model.expects : part \in Part("declare", n)}
Called(n) ==
  UNION {{<<t, call[2]>> : t \in {u \in TypesOf[call[1]] \cap scenario.types :
                                   call[2] \in Offered(u)}} :
         call \in CallsOf(n)}

(* Components are constructed in the order they were declared.                 *)
Declares(n) == UNION {part.model.declares : part \in Part("declare", n)}
Over(n) == UNION {part.model.over : part \in Part("declare", n)}
Takes(n) == UNION {part.model.takes : part \in Part("declare", n)}
Reads(n) ==
  (UNION {part.model.reads : part \in Part("declare", n)})
  \cup {r[2] : r \in {r \in UNION {part.model.readsFor :
                                   part \in Part("declare", n)} :
                      r[1] \in scenario.types}}
  \cup {pair[2] : pair \in {pair \in lists : pair[1] \in Takes(n)}}
  \cup UNION {Functions[call[1]][call[2]] : call \in Called(n)}
ReadsIf(n) == UNION {part.model.readsIf : part \in Part("declare", n)}

Must(n) == UNION {part.loads.must : part \in Part("load", n)}
May(n) == UNION {part.loads.may : part \in Part("load", n)}
Extends(n) == UNION {part.writes.extends : part \in Part("write", n)}
Imports(n) == UNION {part.imports : part \in Part("import", n)}
Processing(n) == Acting("process", n) \cap DOMAIN ProcessParts
-------------------------------------------------------------------------------
Init ==
  /\ scenario \in Scenarios
  /\ phase = "choose"
  /\ selected = <<>> /\ todo = <<>>
  /\ inputs = {} /\ opened = {}
  /\ components = {} /\ lists = {} /\ built = {}
  /\ frames = <<>> /\ saved = <<>> /\ imported = {}
  /\ updated = {} /\ aggregated = <<>>

(* A phase passes over the modules that do not have its function.              *)
Has(p, n) ==
  \E part \in Part(IF p = "build" THEN "declare" ELSE p, n) :
    CASE p = "write"   -> part.writes # NoWrites
      [] p = "load"    -> part.loads # NoLoads
      [] p = "export"  -> part.results # NoResults
      [] p = "import"  -> part.imports # {}
      [] p = "process" -> Processing(n) # {}
      [] OTHER         -> part.model # NoModel
Selected == Range(selected)
Having(p) == Only(selected, {n \in Selected : Has(p, n)})

(* set_up_gridpath_modules.                                                    *)
ChooseModules ==
  /\ phase = "choose"
  /\ UNCHANGED <<scenario, inputs, opened, components, lists, built, frames,
                 saved, imported, updated, aggregated>>
  /\ selected' = determine_modules(scenario.features, scenario.stages)
  /\ phase' = "write"
  /\ todo' = Having("write")'

Call(p) ==
  /\ phase = p /\ todo # <<>> /\ todo' = Tail(todo)
  /\ UNCHANGED <<scenario, phase, selected>>
  /\ p # "process" => UNCHANGED <<updated, aggregated>>

(* Bug: the types write nothing.                                               *)
WriteInputs_NoTypes ==
  /\ Call("write")
  /\ LET writes == ModuleParts[Head(todo)].writes
     IN inputs' = inputs \cup writes.writes
          \cup (IF scenario.rows THEN writes.mayWrite
                ELSE writes.mayWrite \cap AlwaysRows)
  /\ UNCHANGED <<opened, components, lists, built, frames, saved, imported>>

(* A module writes its files, and those of its tables that have rows.          *)
WriteInputs ==
  /\ Call("write")
  /\ LET parts == Part("write", Head(todo))
         mayWrite == UNION {part.writes.mayWrite : part \in parts}
     IN inputs' = inputs \cup (UNION {part.writes.writes : part \in parts})
          \cup (IF scenario.rows THEN mayWrite ELSE mayWrite \cap AlwaysRows)
  /\ UNCHANGED <<opened, components, lists, built, frames, saved, imported>>

(* Bug: the lists are made anew for the operational types.                     *)
ClearedLists_Late(n) ==
  IF n = "project.operations.operational_types"
  THEN {"headroom_variables", "footroom_variables"} ELSE {}

(* project.operations makes new headroom and footroom dictionaries, one list   *)
(* for each project, before the reserve modules add to them.                   *)
ClearedLists(n) ==
  IF n = "project.operations" THEN {"headroom_variables", "footroom_variables"}
  ELSE {}

DeclareComponents ==
  /\ Call("declare")
  /\ LET n == Head(todo)
     IN /\ components' = components \cup Declares(n)
        /\ lists' = {pair \in lists : pair[1] \notin ClearedLists(n)}
                      \cup UNION {part.model.adds : part \in Part("declare", n)}
  /\ UNCHANGED <<inputs, opened, built, frames, saved, imported>>

(* Bug: what need not be there is not looked for.                              *)
LoadData_MustOnly ==
  /\ Call("load")
  /\ opened' = opened \cup Must(Head(todo))
  /\ UNCHANGED <<inputs, components, lists, built, frames, saved, imported>>

LoadData ==
  /\ Call("load")
  /\ opened' = opened \cup Must(Head(todo)) \cup (May(Head(todo)) \cap inputs)
  /\ UNCHANGED <<inputs, components, lists, built, frames, saved, imported>>

BuildComponents ==
  /\ Call("build")
  /\ built' = built \cup Declares(Head(todo))
  /\ UNCHANGED <<inputs, opened, components, lists, frames, saved, imported>>

Tables(cols) == {col[1] : col \in cols}
ColumnsOf(cols, table) == {col[2] : col \in {c \in cols : c[1] = table}}
By(n, columns) == columns \X {n}

(* Bug: the frame is replaced, not updated.                                    *)
Reset_Frame(frame, n, columns) == By(n, columns)

(* Values a module puts in a column replace those another module put there:    *)
(* the column is set to None first.                                            *)
Reset(frame, n, columns) ==
  {x \in frame : x[1] \notin columns} \cup By(n, columns)

ResetAll(all, n, cols) ==
  [f \in DOMAIN all |->
     IF f \in Tables(cols) THEN Reset(all[f], n, ColumnsOf(cols, f)) ELSE all[f]]

(* The orders in which the types can come: those of a list made from a set.    *)
Orders(types) ==
  {place \in [types -> 1..Cardinality(types)] : IsInjective(place)}
LastOf(units, place) ==
  {u \in units : \A v \in units : place[v] <= place[u]}

(* What the types return is put in the frame by filling its columns, or by     *)
(* resetting them type by type: the last one that has a column keeps it.       *)
Collect(all, types, collects, after) ==
  LET columns(u, f) == ColumnsOf(ModuleParts[u].results.returns, f)
      having(f, c) == {u \in types : c \in columns(u, f)}
  IN CASE collects = "fill" ->
            after = [f \in DOMAIN all |-> all[f] \cup
                       UNION {By(u, columns(u, f)) : u \in types}]
       [] collects = "reset" ->
            \E place \in Orders(types) :
              after = [f \in DOMAIN all |->
                {x \in all[f] : having(f, x[1]) = {}} \cup
                UNION {By(u, {c \in columns(u, f) :
                              u \in LastOf(having(f, c), place)}) : u \in types}]
       [] OTHER -> after = all

(* Bug: the files of the types are not written.                                *)
CsvFiles_NoTypes(n) ==
  {save[2] : save \in ModuleParts[n].results.saves}
  \cup Tables(ModuleParts[n].results.header)
  \cup Tables(ModuleParts[n].results.exports)

(* A module writes the frames it saves, CSV files with a header of their own,  *)
(* and files with a column for each component of a list; a file that is there  *)
(* is replaced.                                                                *)
CsvFiles(n) ==
  {save[2] : save \in ModuleParts[n].results.saves}
  \cup Tables(ModuleParts[n].results.header)
  \cup UNION {Tables(ModuleParts[u].results.exports) :
              u \in Acting("export", n)}

Content(n, csv) ==
  LET r == ModuleParts[n].results
  IN (UNION {frames[save[1]] : save \in {s \in r.saves : s[2] = csv}})
     \cup (UNION {By(u, ColumnsOf(ModuleParts[u].results.exports, csv)) :
                 u \in Acting("export", n)})
     \cup By(n, {pair[2] : pair \in {x \in lists : <<csv, x[1]>> \in r.header}})

ExportResults ==
  /\ Call("export")
  /\ LET n == Head(todo)
         r == ModuleParts[n].results
         created == [f \in DOMAIN frames \cup Tables(r.creates) |->
                       IF f \in Tables(r.creates)
                       THEN By(n, ColumnsOf(r.creates, f)) ELSE frames[f]]
     IN /\ Collect(ResetAll(created, n, r.assigns), LoadedTypes("export", n),
                   r.collects, frames')
        /\ saved' = [csv \in DOMAIN saved \cup CsvFiles(n) |->
                       IF csv \in CsvFiles(n) THEN Content(n, csv)
                       ELSE saved[csv]]
  /\ UNCHANGED <<inputs, opened, components, lists, built, imported>>

(* Bug: the types import nothing.                                              *)
ImportResults_NoTypes ==
  /\ Call("import")
  /\ imported' = imported \cup (ModuleParts[Head(todo)].imports
                                  \cap DOMAIN saved)
  /\ UNCHANGED <<inputs, opened, components, lists, built, frames, saved>>

(* import_csv skips a file that is not there.                                  *)
ImportResults ==
  /\ Call("import")
  /\ imported' = imported \cup (Imports(Head(todo)) \cap DOMAIN saved)
  /\ UNCHANGED <<inputs, opened, components, lists, built, frames, saved>>

(* A module updates tables and fills its tables of aggregates anew; of types   *)
(* that fill the same one, the last one called deletes the rows of the others. *)
ProcessResults ==
  /\ Call("process")
  /\ LET units == Processing(Head(todo))
         tables == UNION {ProcessParts[u].fills : u \in units}
     IN /\ updated' = updated \cup UNION {ProcessParts[u].sets : u \in units}
        /\ \E last \in [tables -> units] :
             /\ \A t \in tables : t \in ProcessParts[last[t]].fills
             /\ aggregated' = [t \in DOMAIN aggregated \cup tables |->
                                IF t \in tables THEN last[t] ELSE aggregated[t]]
  /\ UNCHANGED <<inputs, opened, components, lists, built, frames, saved,
                 imported>>

NextPhase ==
  [write |-> "declare", declare |-> "load", load |-> "build",
   build |-> "export", export |-> "import", import |-> "process",
   process |-> "done"]

StartPhase ==
  /\ phase \in DOMAIN NextPhase /\ todo = <<>>
  /\ phase' = NextPhase[phase]
  /\ todo' = IF phase' = "done" THEN <<>> ELSE Having(phase')
  /\ UNCHANGED <<scenario, selected, inputs, opened, components, lists, built,
                 frames, saved, imported, updated, aggregated>>

Done == phase = "done" /\ UNCHANGED vars

Next ==
  \/ ChooseModules \/ WriteInputs \/ DeclareComponents \/ LoadData
  \/ BuildComponents \/ ExportResults \/ ImportResults \/ ProcessResults
  \/ StartPhase \/ Done

Spec == Init /\ [][Next]_vars
-------------------------------------------------------------------------------
(* The modules the scenario uses, and every unit that acts for them.           *)
AllTypes == UNION {TypesOf[family] : family \in DOMAIN TypesOf}
Units == Selected \cup UNION {LoadedTypes("declare", n) : n \in Selected}
TakenLists == UNION {ModuleParts[u].model.takes : u \in Units}
Calling(p) == phase = p /\ todo # <<>>
Ended(p) == phase = p /\ todo = <<>>

(* determine_modules calls list.remove for every module it leaves out, which   *)
(* raises ValueError for a module that was removed already (module_list.py):   *)
(* no module is removed twice, and none is left in the list twice.             *)
RemovalsFindTheirModule ==
  phase = "write" /\ todo = Having("write") =>
    LET removals == Removals(scenario.features, scenario.stages)
    IN /\ IsInjective(all_modules_list)
       /\ IsInjective(removals)
       /\ Range(removals) = Modules \ Selected

(* A component is declared over sets that earlier modules of this scenario     *)
(* have declared (m.X of an AbstractModel is an AttributeError otherwise).     *)
DeclaredBeforeUse ==
  Calling("declare") =>
    Over(Head(todo)) \subseteq components \cup Declares(Head(todo))

(* No module declares a component another module of the scenario has declared: *)
(* Pyomo would replace the first one.                                          *)
DeclaredOnce ==
  Calling("declare") =>
    /\ Declares(Head(todo)) \cap components = {}
    /\ \A u, v \in Acting("declare", Head(todo)) :
         u # v => ModuleParts[u].model.declares
                    \cap ModuleParts[v].model.declares = {}

(* Components that rules read and no module declares: the flow violation of    *)
(* aggregate_flow_violation_penalty_costs.py, the capacity of group_costs.py   *)
(* and the linked parameters of gen_var_stor_hyb.py.                           *)
NeverDeclared ==
  {"Water_Link_Hrz_Min_Flow_Violation_Expression",
   "Deliverability_Group_Energy_Only_Project_Capacity_MW",
   "gen_var_stor_hyb_linked_starting_energy_in_storage",
   "gen_var_stor_hyb_linked_discharge", "gen_var_stor_hyb_linked_charge"}

(* A rule finds every component it reads constructed, the components of the    *)
(* dynamic lists it sums over included.                                        *)
BuiltBeforeRead ==
  Calling("build") =>
    Reads(Head(todo)) \ NeverDeclared \subseteq built \cup Declares(Head(todo))

(* A module that calls a function of every type finds it in each of them.      *)
ExpectedIsOffered ==
  Calling("build") =>
    \A part \in Part("declare", Head(todo)) : \A call \in part.model.expects :
      \A t \in TypesOf[call[1]] \cap scenario.types :
        call[2] \in Offered(t)

(* A function a type offers is called by a module of the scenario, if the      *)
(* scenario has every feature and type: the others use the default they find   *)
(* by name instead. The exceptions: the energy limit of                        *)
(* gen_simple_energy_limited.py is in no Constraint, and gen_var_stor_hyb.py   *)
(* offers subtimepoint rules where energy_target_contributions.py calls        *)
(* subhourly rules.                                                            *)
NeverCalled ==
  {"energy_limit_in_period_constraint_rule", "subtimepoint_curtailment_rule",
   "subtimepoint_energy_delivered_rule"}

OfferedIsCalled ==
  Ended("build") /\ scenario.features = Features /\ scenario.stages
    /\ AllTypes \subseteq scenario.types =>
    \A t \in Units : \A f \in Offered(t) \ NeverCalled :
        \E n \in Selected : <<t, f>> \in Called(n)

(* A rule that asks whether the model has a component does so after that       *)
(* component was constructed, if the scenario has it at all.                   *)
GuardedReadNotMissed ==
  Calling("build") =>
    ReadsIf(Head(todo)) \cap components \subseteq built \cup Declares(Head(todo))

(* Whatever a module puts on a list of a balance or of the objective is        *)
(* summed by a module of the same scenario; the parameters of reserves are     *)
(* listed for the types that use them.                                         *)
ListedIsCounted ==
  Ended("declare") =>
    \A pair \in lists :
      pair[1] \in TakenLists
        \cup {"reserve_variable_derate_params",
              "reserve_to_energy_adjustment_params"}

(* The expressions by which a constraint may be violated.                      *)
Relaxations ==
  {"Unserved_Energy_MW_Expression", "Overgeneration_MW_Expression",
   "LF_Reserves_Up_Violation_MW_Expression",
   "LF_Reserves_Down_Violation_MW_Expression",
   "Regulation_Up_Violation_MW_Expression",
   "Regulation_Down_Violation_MW_Expression",
   "Spinning_Reserves_Violation_MW_Expression",
   "Frequency_Response_Violation_MW_Expression",
   "Frequency_Response_Partial_Violation_MW",
   "Inertia_Reserves_Violation_MWs_Expression",
   "Period_Energy_Target_Shortage_MWh_Expression",
   "Horizon_Energy_Target_Shortage_MWh_Expression",
   "Instantaneous_Penetration_Shortage_MWh_Expression",
   "Instantaneous_Penetration_Overage_MWh_Expression",
   "Transmission_Target_Shortage_Pos_Dir_Min_MWh_Expression",
   "Transmission_Target_Shortage_Neg_Dir_Min_MWh_Expression",
   "Transmission_Target_Overage_Pos_Dir_Max_MWh_Expression",
   "Transmission_Target_Overage_Neg_Dir_Max_MWh_Expression",
   "Carbon_Cap_Overage_Expression",
   "Performance_Standard_Energy_Unit_Overage_Expression",
   "Performance_Standard_Power_Unit_Overage_Expression",
   "Fuel_Burn_Min_Shortage_Abs_Unit_Expression",
   "Fuel_Burn_Max_Overage_Abs_Unit_Expression",
   "Fuel_Burn_Max_Overage_Rel_Unit_Expression",
   "Policy_Requirement_Shortage_Expression",
   "Policy_Month_Hour_Requirement_Shortage_Expression",
   "PRM_Shortage_MW_Expression", "Local_Capacity_Shortage_MW_Expression",
   "Max_Reservoir_Storage_Violation", "Min_Reservoir_Storage_Violation",
   "Target_Release_Violation_VolUnit",
   "Water_Link_Min_Flow_Violation_Vol_per_Sec_Expression",
   "Water_Link_Max_Flow_Violation_Vol_per_Sec_Expression",
   "Water_Link_Hrz_Min_Flow_Violation_Avg_Vol_per_Sec_Expression",
   "Water_Link_Hrz_Max_Flow_Violation_Avg_Vol_per_Sec_Expression"}

(* A constraint is never violated for free: an expression of every relaxation  *)
(* the scenario has is read by a module of the scenario that adds costs to the *)
(* objective.  The exception is read under a name nobody declares              *)
(* (aggregate_flow_violation_penalty_costs.py:86).                             *)
RelaxationsArePaid ==
  Ended("declare") =>
    \A relaxation \in (Relaxations \cap components)
        \ {"Water_Link_Hrz_Min_Flow_Violation_Avg_Vol_per_Sec_Expression"} :
      \E n \in Selected :
        /\ relaxation \in ModuleParts[n].model.reads
        /\ "cost_components" \in {pair[1] : pair \in ModuleParts[n].model.adds}

(* Reserves of a project take room from its power: its operational type limits *)
(* the sum of headroom and of footroom.  The exceptions are types whose        *)
(* projects are not meant to provide reserves; nothing in the code stops one   *)
(* of them from having a balancing area, and its reserves cost no room.        *)
NoReserveTypes ==
  {"project.operations.operational_types." \o t : t \in
     {"dispatchable_load", "dr", "energy_hrz_shaping", "energy_load_following",
      "energy_slice_hrz_shaping", "flex_load", "fuel_prod"}}

ReservesTakeRoom ==
  Ended("declare") =>
    \A t \in (TypesOf["operational_type"] \cap Units) \ NoReserveTypes :
      {"headroom_variables", "footroom_variables"} \cap {p[1] : p \in lists}
        \subseteq ModuleParts[t].model.takes

(* A file load_model_data cannot do without has been written.  The exception:  *)
(* the requirement by timepoint is written only if there is one                *)
(* (instantaneous_penetration_requirements.py:496-498), and loaded always.     *)
LoadsWhatWasWritten ==
  Calling("load") =>
    Must(Head(todo)) \ {"instantaneous_penetration_tmp_requirement.tab"}
      \subseteq inputs

(* A file that is read back and written again is there.                        *)
ExtendsWhatExists == Calling("write") => Extends(Head(todo)) \subseteq inputs

(* Every input file that is written is read by a module of the scenario.       *)
InputsAreUsed == Ended("load") => inputs \subseteq opened

(* A data frame is created before a module adds columns to it or saves it.     *)
FramesExist ==
  Calling("export") =>
    LET n == Head(todo)
        r == ModuleParts[n].results
    IN Tables(r.assigns) \cup {save[1] : save \in r.saves}
         \cup UNION {Tables(ModuleParts[u].results.returns) :
                     u \in IF r.collects = "none" THEN {}
                           ELSE LoadedTypes("export", n)}
         \subseteq DOMAIN frames \cup Tables(r.creates)

(* The columns of each availability type are set to None before its results    *)
(* are put in (availability.py:313-317), so a type that comes later empties    *)
(* those it shares with an earlier one; energy_target_contributions resets the *)
(* curtailment columns of the operational types (:347-349).                    *)
Emptied ==
  {"availability_derate_independent", "availability_derate_weather",
   "scheduled_curtailment_mw", "subhourly_curtailment_mw"}

(* No module loses what another put on a list: headroom and footroom of        *)
(* projects are made anew in project.operations (__init__.py:619). And what a  *)
(* module put in a data frame stays there until the frame is saved.            *)
NothingLost ==
  [][/\ lists \subseteq lists'
     /\ \A f \in DOMAIN frames :
          \A x \in frames[f] \ frames'[f] : x[1] \in Emptied]_vars

(* The frames that are saved before all modules have put their results in: the *)
(* consolidate_results modules of transmission come before the hurdle costs,   *)
(* the carbon emissions and the transmission targets in all_modules_list.      *)
SavedTooEarly == {"transmission_timepoint_df", "transmission_period_df"}

(* What a module put in a data frame is in the CSV file the frame is saved to. *)
ResultLost(save) == ~ frames[save[1]] \subseteq saved[save[2]]
Saves == UNION {ModuleParts[n].results.saves : n \in Selected}

NoResultLost ==
  Ended("export") =>
    \A save \in Saves : save[1] \in SavedTooEarly \/ ~ ResultLost(save)

(* The same of every frame: "Export all results from the TX_OPERATIONS_DF that *)
(* various modules have added to" (transmission/operations/                    *)
(* consolidate_results.py:32-35).                                              *)
AllResultsSaved == Ended("export") => \A save \in Saves : ~ ResultLost(save)

(* A result file is imported after a module of the scenario has written it.    *)
ImportsWhatWasExported ==
  Calling("import") => Imports(Head(todo)) \subseteq DOMAIN saved

(* Every result file is imported into the database, but for those no module    *)
(* has an import for.                                                          *)
NeverImported ==
  {"project_carbon_credits_purchase.csv", "system_water_link_bt_hrz.csv",
   "system_water_node_bt_hrz.csv", "subsidies.csv", "prm_elcc_surface.csv"}
ResultsAreImported ==
  phase = "done" => DOMAIN saved \ NeverImported \subseteq imported

(* The columns of a file are columns of its table, but for those of which the  *)
(* code and the schema have different names.                                   *)
MisnamedColumns ==
  {<<"project_period.csv", "new_build_mwh">>,
   <<"project_timepoint.csv", "frequency_response_partial_reserve_provision">>,
   <<"system_horizon_energy_target.csv", "balancing_type">>,
   <<"system_horizon_energy_target.csv", "energy_target_marginal_cost_per_mwh">>,
   <<"transmission_group_capacity.csv", "new_capacity">>}
ColumnsFitSchema ==
  Calling("import") =>
    \A csv \in Imports(Head(todo)) \cap DOMAIN saved :
      \A x \in saved[csv] :
        x[1] \in TableOf[csv] \/ <<csv, x[1]>> \in MisnamedColumns

(* What a module aggregates was imported from a file with that column, or      *)
(* updated by a module before it.  The exceptions are the columns of the frame *)
(* that is saved too early: there is nothing in the sums of hurdle costs.      *)
SavedWithout ==
  Cols("transmission_timepoint.csv",
       {"hurdle_cost_positive_direction", "hurdle_cost_negative_direction",
        "hurdle_cost_by_timepoint_positive_direction",
        "hurdle_cost_by_timepoint_negative_direction"})
ReadsWhatWasImported ==
  Calling("process") =>
    \A u \in Processing(Head(todo)) :
      \A col \in ProcessParts[u].reads :
        /\ col[1] \in imported
        /\ \/ col[2] \in {x[1] : x \in saved[col[1]]}
           \/ col \in updated \cup SavedWithout

(* No module deletes the aggregates of another.  The exceptions: the lines of  *)
(* two modules that insert the same, and of two types that do not.             *)
FilledTwice ==
  {"results_transmission_costs_capacity_agg",
   "results_project_curtailment_variable_periodagg"}
AggregatesAreKept ==
  phase = "done" =>
    \A u \in Units \cap DOMAIN ProcessParts :
      \A t \in ProcessParts[u].fills \ FilledTwice : aggregated[t] = u

(* A type loads the files for linked subproblems it hands over, but for two    *)
(* types that start each linked subproblem anew.                               *)
HandsOverUnread ==
  {"project.operations.operational_types.energy_hrz_shaping",
   "project.operations.operational_types.energy_slice_hrz_shaping"}
StateHandedOver ==
  Calling("load") =>
    \A u \in Acting("load", Head(todo)) \ HandsOverUnread :
      ModuleParts[u].results.hands \subseteq ModuleParts[u].loads.may
-------------------------------------------------------------------------------
(* Modules and types agree on the names of the functions they call each other  *)
(* by (hasattr and defaults in place of an interface).                         *)
FunctionsAgree == ExpectedIsOffered /\ OfferedIsCalled

(* The modules are chosen without an error, and every component and function   *)
(* one of them uses is there when it is used, and is the one it means: nothing *)
(* but the order of all_modules_list, with what determine_modules leaves out,  *)
(* makes it so.                                                                *)
ComponentsAreThere ==
  /\ RemovalsFindTheirModule
  /\ DeclaredBeforeUse /\ DeclaredOnce /\ BuiltBeforeRead
  /\ GuardedReadNotMissed /\ FunctionsAgree

(* What is listed in a balance counts, a relaxed constraint has its price, and *)
(* reserves take room.                                                         *)
NothingIsFree == ListedIsCounted /\ RelaxationsArePaid /\ ReservesTakeRoom

(* What get_inputs writes, and one linked subproblem hands to the next, is     *)
(* what the run loads, for any features and types.                             *)
FilesAgree ==
  LoadsWhatWasWritten /\ ExtendsWhatExists /\ InputsAreUsed /\ StateHandedOver

(* A result that a module computes gets into a frame that exists, from there   *)
(* into a file, from the file into a column of its table, and from the table   *)
(* into the aggregates.                                                        *)
ResultsReachTheDatabase ==
  /\ FramesExist /\ NoResultLost
  /\ ImportsWhatWasExported /\ ResultsAreImported /\ ColumnsFitSchema
  /\ ReadsWhatWasImported /\ AggregatesAreKept
===============================================================================
