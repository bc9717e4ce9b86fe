-------------------------- MODULE ResultsProcessing ---------------------------
(* What the modules do to the results of a scenario once they are in the       *)
(* database (process_results.py): they UPDATE columns the CSV files did not    *)
(* have, and refill tables of aggregates from the imported ones.  An imported  *)
(* table goes by the name of its CSV file here.  A row is identified by        *)
(* columns every file has (scenario, iterations, subproblem, stage), which are *)
(* left out.                                                                   *)
EXTENDS ResultsSchema, GridPathModule

(* "reads": <<CSV file, column>> pairs that are aggregated or grouped by;      *)
(* "fills": tables whose rows of the scenario are deleted and inserted again;  *)
(* "sets": <<CSV file, column>> pairs that an UPDATE gives values.             *)
Process(reads, fills, sets) ==
  [reads |-> reads, fills |-> fills, sets |-> sets]

(* determine_table_subset_by_start_and_column: the column is found by its name *)
(* in the schema, in tables that have the key it depends on.  The tables of    *)
(* aggregates are left out: those with the column are refilled afterwards.     *)
Updated(column, key) ==
  {csv \in DOMAIN TableOf : {column, key} \subseteq TableOf[csv]} \X {column}

(* Bug: the flag of timepoints is left to the export.                          *)
timepoints_process_NoFlag == Process({}, {}, {})

(* temporal.operations.timepoints: the flag of timepoints that belong to       *)
(* another subproblem or stage.                                                *)
timepoints_process ==
  Process({}, {}, Updated("spinup_or_lookahead", "timepoint"))

(* project.capacity.costs                                                      *)
project_capacity_costs_process ==
  Process(Cols("project_period.csv", {"period", "load_zone", "capacity_cost"}),
          {"results_project_costs_capacity_agg"}, {})

(* project.operations.power: by timepoint first, and from these by period.     *)
power_process ==
  Process(Cols("project_timepoint.csv",
            {"period", "timepoint", "timepoint_weight",
             "number_of_hours_in_timepoint", "spinup_or_lookahead",
             "load_zone", "technology", "power_mw"}),
          {"results_project_dispatch_by_technology",
           "results_project_dispatch_by_technology_period"}, {})

(* project.operations.costs                                                    *)
project_operations_costs_process ==
  Process(Cols("project_timepoint.csv",
            {"period", "load_zone", "spinup_or_lookahead", "timepoint_weight",
             "number_of_hours_in_timepoint", "variable_om_cost", "fuel_cost",
             "startup_cost", "shutdown_cost"}),
          {"results_project_costs_operations_agg"}, {})

(* project.operations.carbon_emissions                                         *)
carbon_emissions_process ==
  Process(Cols("project_timepoint.csv",
            {"period", "load_zone", "technology", "spinup_or_lookahead",
             "timepoint_weight", "number_of_hours_in_timepoint",
             "carbon_emissions_tons"}),
          {"results_project_carbon_emissions_by_technology_period"}, {})

(* The zones of projects.                                                      *)
carbon_cap_process == Process({}, {}, Updated("carbon_cap_zone", "project"))
carbon_tax_process == Process({}, {}, Updated("carbon_tax_zone", "project"))
energy_target_contributions_process ==
  Process({}, {}, Updated("energy_target_zone", "project"))
instantaneous_penetration_contributions_process ==
  Process({}, {}, Updated("instantaneous_penetration_zone", "project"))

(* No table of projects has this column: nothing is updated.                   *)
performance_standard_process ==
  Process({}, {}, Updated("performance_standard_zone", "project"))

(* Curtailment of the projects of a type.                                      *)
Curtailment(table) ==
  Process(Cols("project_timepoint.csv",
            {"period", "timepoint", "timepoint_weight", "operational_type",
             "number_of_hours_in_timepoint", "load_zone",
             "scheduled_curtailment_mw"}), {table}, {})

(* gen_var and gen_var_stor_hyb fill the same table, each deleting the rows of *)
(* the other.                                                                  *)
gen_var_process == Curtailment("results_project_curtailment_variable_periodagg")
gen_var_stor_hyb_process ==
  Curtailment("results_project_curtailment_variable_periodagg")
gen_hydro_process == Curtailment("results_project_curtailment_hydro_periodagg")

(* project.reliability.prm.prm_types.energy_only_allowed                       *)
energy_only_allowed_process ==
  Process(Cols("project_deliverability.csv",
               {"project", "period", "energy_only_capacity_mw"})
            \cup Cols("project_deliverability_groups.csv",
                      {"period", "deliverability_annual_cost_in_period"}),
          {"results_project_deliverability_groups_agg"},
          {"project_elcc_simple.csv", "project_elcc_surface.csv"}
            \X {"energy_only_capacity_mw"})

(* transmission.capacity.capacity and transmission.capacity.costs insert the   *)
(* same aggregates; the latter also computes a column of the lines.            *)
transmission_capacity_process ==
  Process(Cols("transmission_period.csv",
               {"period", "load_zone_to", "capacity_cost"}),
          {"results_transmission_costs_capacity_agg"}, {})
transmission_capacity_costs_process ==
  [transmission_capacity_process EXCEPT
     !.sets = Cols("transmission_period.csv",
                   {"capacity_cost_wo_spinup_or_lookahead"})]

FlowsBy == {"load_zone_from", "load_zone_to", "spinup_or_lookahead",
            "timepoint_weight", "number_of_hours_in_timepoint"}

(* transmission.operations.operations: imports and exports of load zones.      *)
transmission_operations_process ==
  Process(Cols("transmission_timepoint.csv",
               FlowsBy \cup {"period", "transmission_flow_mw"}),
          {"results_transmission_imports_exports_agg"}, {})

(* transmission.operations.hurdle_costs                                        *)
hurdle_costs_process ==
  Process(Cols("transmission_timepoint.csv",
               FlowsBy \cup {"period", "hurdle_cost_positive_direction",
                             "hurdle_cost_negative_direction"}),
          {"results_transmission_hurdle_costs_agg"}, {})

(* Bug: the table of the module it was copied from.                            *)
hurdle_costs_by_timepoint_process_Copied ==
  Process(hurdle_costs_process.reads, hurdle_costs_process.fills, {})

(* transmission.operations.hurdle_costs_by_timepoint                           *)
hurdle_costs_by_timepoint_process ==
  Process(Cols("transmission_timepoint.csv",
               FlowsBy \cup {"timepoint",
                             "hurdle_cost_by_timepoint_positive_direction",
                             "hurdle_cost_by_timepoint_negative_direction"}),
          {"results_transmission_hurdle_costs_by_timepoint_agg"}, {})

(* system.load_balance.load_balance: timepoints, days and metrics of lost      *)
(* load, the last two from the first.  Two more tables are refilled if the     *)
(* scenario has iterations; if not, they stay as the import has left them,     *)
(* without rows of the scenario.                                               *)
load_balance_process ==
  Process(Cols("system_load_zone_timepoint_loss_of_load_summary.csv",
            {"timepoint", "period", "month", "day_of_month", "hour_of_day",
             "timepoint_weight", "number_of_hours_in_timepoint",
             "spinup_or_lookahead", "static_load_mw", "unserved_energy_mw"}),
          {"results_system_timepoint_loss_of_load_summary",
           "results_system_days_loss_of_load_summary",
           "results_system_loss_of_load_metrics_summary",
           "results_system_loss_of_load_month_hour_metrics_summary",
           "results_system_loss_of_load_metrics_convergence_summary"}, {})

ProcessParts ==
  "temporal.operations.timepoints" :> timepoints_process
  @@ "project.capacity.costs" :> project_capacity_costs_process
  @@ "project.operations.power" :> power_process
  @@ "project.operations.costs" :> project_operations_costs_process
  @@ "project.operations.carbon_emissions" :> carbon_emissions_process
  @@ "project.operations.carbon_cap" :> carbon_cap_process
  @@ "project.operations.carbon_tax" :> carbon_tax_process
  @@ "project.operations.energy_target_contributions" :>
       energy_target_contributions_process
  @@ "project.operations.instantaneous_penetration_contributions" :>
       instantaneous_penetration_contributions_process
  @@ "project.operations.performance_standard" :> performance_standard_process
  @@ "project.operations.operational_types.gen_var" :> gen_var_process
  @@ "project.operations.operational_types.gen_var_stor_hyb" :>
       gen_var_stor_hyb_process
  @@ "project.operations.operational_types.gen_hydro" :> gen_hydro_process
  @@ "project.reliability.prm.prm_types.energy_only_allowed" :>
       energy_only_allowed_process
  @@ "transmission.capacity.capacity" :> transmission_capacity_process
  @@ "transmission.capacity.costs" :> transmission_capacity_costs_process
  @@ "transmission.operations.operations" :> transmission_operations_process
  @@ "transmission.operations.hurdle_costs" :> hurdle_costs_process
  @@ "transmission.operations.hurdle_costs_by_timepoint" :>
       hurdle_costs_by_timepoint_process
  @@ "system.load_balance.load_balance" :> load_balance_process
===============================================================================
