---------------------------- MODULE ProjectModules ----------------------------
(* The project modules: capacity, availability, fuels, operations, reserves,   *)
(* reliability and policy of projects (src/gridpath/project), with the         *)
(* availability, PRM and compliance types they load.                           *)
EXTENDS ReserveFunctions

(* project. The 'project' package contains modules to describe the available   *)
(* capacity and operational characteristics of generation, storage, and        *)
(* demand-side infrastructure 'projects' in the optimization problem.          *)
project_model ==
  [NoModel EXCEPT !.declares = {"PROJECTS", "availability_type",
      "balancing_type_project", "capacity_type",
      "distribution_loss_adjustment_factor", "load_modifier_flag",
      "load_zone", "operational_type"},
     !.over = {"BLN_TYPES", "LOAD_ZONES"}]
project_loads == Loads({"projects.tab"}, {})
project_writes == Writes({}, {"projects.tab"}, {})
project_results ==
  [NoResults EXCEPT !.creates = Cols("project_period_df",
      {"availability_type", "capacity_type",
      "distribution_loss_adjustment_factor", "load_modifier_flag",
      "load_zone", "operational_type", "period", "project", "technology"})
      \cup Cols("project_timepoint_df", {"availability_type",
      "balancing_type", "capacity_mw", "capacity_type",
      "distribution_loss_adjustment_factor", "horizon", "load_modifier_flag",
      "load_zone", "number_of_hours_in_timepoint", "operational_type",
      "period", "project", "technology", "timepoint", "timepoint_weight"})]

(* project.capacity. This package contains modules to describe the available   *)
(* capacity and the capacity-associated costs of generation, storage, and      *)
(* demand-side infrastructure 'projects' in the optimization problem.          *)
project_capacity_imports == {"project_period.csv"}

(* project.capacity.capacity. This is a project-level module that adds to      *)
(* the formulation components that describe the capacity of projects that      *)
(* are available to the optimization for each period.                          *)
project_capacity_capacity_model ==
  [NoModel EXCEPT !.declares = {"Capacity_MW", "Energy_MWh",
      "Energy_Storage_Capacity_MWh",
      "Fuel_Production_Capacity_FuelUnitPerHour",
      "Fuel_Release_Capacity_FuelUnitPerHour",
      "Fuel_Storage_Capacity_FuelUnit", "Hyb_Gen_Capacity_MW",
      "Hyb_Stor_Capacity_MW", "OPR_PRDS_BY_PRJ", "OPR_PRJS_IN_TMP",
      "PRJ_OPR_PRDS", "PRJ_OPR_TMPS"},
     !.over = {"PERIODS", "PROJECTS", "TMPS"},
     !.reads = {"TMPS_IN_PRD", "capacity_type"},
     !.takes = {"capacity_type_operational_period_sets"},
     !.calls = {<<"capacity_type", "capacity_rule">>, <<"capacity_type",
      "energy_rule">>, <<"capacity_type", "energy_stor_capacity_rule">>,
      <<"capacity_type", "fuel_prod_capacity_rule">>, <<"capacity_type",
      "fuel_release_capacity_rule">>, <<"capacity_type",
      "fuel_storage_capacity_rule">>, <<"capacity_type",
      "hyb_gen_capacity_rule">>, <<"capacity_type",
      "hyb_stor_capacity_rule">>}]
project_capacity_capacity_results ==
  [NoResults EXCEPT !.assigns = Cols("project_period_df", {"capacity_mw",
      "energy_mwh", "fuel_prod_capacity_fuelunitperhour",
      "fuel_rel_capacity_fuelunitperhour", "fuel_stor_capacity_fuelunit",
      "hyb_gen_capacity_mw", "hyb_stor_capacity_mw",
      "stor_energy_capacity_mwh"}),
     !.collects = "fill"]

(* project.capacity.potential. Constraints on the minimum and maximum          *)
(* capacity build by vintage and the minimum and maximum cumulative capacity   *)
(* by period.                                                                  *)
potential_model ==
  [NoModel EXCEPT !.declares = {"max_total_energy"},
     !.over = {"PERIODS", "PRJ_OPR_PRDS", "PROJECTS"},
     !.reads = {"Capacity_MW", "Energy_MWh", "Energy_Storage_Capacity_MWh",
      "capacity_type"},
     !.calls = {<<"capacity_type", "new_capacity_rule">>, <<"capacity_type",
      "new_energy_rule">>, <<"capacity_type",
      "new_energy_stor_capacity_rule">>}]
potential_loads == Loads({}, {"new_build_potentials.tab"})
potential_writes == Writes({}, {"new_build_potentials.tab"}, {})
potential_results ==
  [NoResults EXCEPT !.assigns = Cols("project_period_df",
      {"max_build_energy_dual", "max_build_power_dual",
      "max_build_stor_energy_dual", "max_total_energy_dual",
      "max_total_power_dual", "max_total_stor_energy_dual",
      "min_build_energy_dual", "min_build_power_dual",
      "min_build_stor_energy_dual", "min_total_energy_dual",
      "min_total_power_dual", "min_total_stor_energy_dual"})]

(* project.capacity.capacity_groups. Minimum and maximum new and total         *)
(* capacity by period and project group.                                       *)
project_capacity_capacity_groups_model ==
  [NoModel EXCEPT !.over = {"PROJECTS"},
     !.reads = {"OPR_PRDS_BY_PRJ", "capacity_type"},
     !.calls = {<<"capacity_type", "capacity_rule">>, <<"capacity_type",
      "energy_rule">>, <<"capacity_type", "new_capacity_rule">>,
      <<"capacity_type", "new_energy_rule">>}]
project_capacity_capacity_groups_loads == Loads({},
    {"capacity_group_projects.tab", "capacity_group_requirements.tab"})
project_capacity_capacity_groups_writes == Writes({},
    {"capacity_group_projects.tab", "capacity_group_requirements.tab"}, {})
project_capacity_capacity_groups_results ==
  [NoResults EXCEPT !.exports = Cols("project_group_capacity.csv",
      {"capacity_group", "capacity_group_new_capacity_max",
      "capacity_group_new_capacity_min", "capacity_group_new_max_dual",
      "capacity_group_new_max_marginal_cost", "capacity_group_new_min_dual",
      "capacity_group_new_min_marginal_cost",
      "capacity_group_total_capacity_max",
      "capacity_group_total_capacity_min", "capacity_group_total_max_dual",
      "capacity_group_total_max_marginal_cost",
      "capacity_group_total_min_dual",
      "capacity_group_total_min_marginal_cost", "energy_group_new_energy_max",
      "energy_group_new_energy_min", "energy_group_new_max_dual",
      "energy_group_new_max_marginal_cost", "energy_group_new_min_dual",
      "energy_group_new_min_marginal_cost", "energy_group_total_energy_max",
      "energy_group_total_energy_min", "energy_group_total_max_dual",
      "energy_group_total_max_marginal_cost", "energy_group_total_min_dual",
      "energy_group_total_min_marginal_cost", "group_new_capacity",
      "group_new_energy", "group_total_capacity", "group_total_energy",
      "period"})]
project_capacity_capacity_groups_imports == {"project_group_capacity.csv"}

(* project.capacity.relative_capacity. Relative capacity of project pairs.     *)
relative_capacity_model ==
  [NoModel EXCEPT !.over = {"PROJECTS"},
     !.reads = {"OPR_PRDS_BY_PRJ", "capacity_type"},
     !.calls = {<<"capacity_type", "capacity_rule">>, <<"capacity_type",
      "new_capacity_rule">>}]
relative_capacity_loads == Loads({},
    {"project_relative_capacity_requirements.tab",
    "project_relative_capacity_requirements_map.tab"})
relative_capacity_writes == Writes({},
    {"project_relative_capacity_requirements.tab",
    "project_relative_capacity_requirements_map.tab"}, {})

(* project.capacity.costs. The gridpath.project.capacity.costs module is a     *)
(* project-level module that adds to the formulation components that           *)
(* describe the capacity-related costs of projects (e.g.                       *)
project_capacity_costs_model ==
  [NoModel EXCEPT !.declares = {"Capacity_Cost_in_Period",
      "Energy_Cost_in_Period", "Fixed_Cost_in_Period", "PRJ_FIN_PRDS"},
     !.over = {"PERIODS", "PRJ_OPR_PRDS", "PROJECTS"},
     !.reads = {"capacity_type", "hours_in_period_timepoints",
      "hours_in_subproblem_period"},
     !.takes = {"capacity_type_financial_period_sets"},
     !.calls = {<<"capacity_type", "capacity_cost_rule">>, <<"capacity_type",
      "energy_cost_rule">>, <<"capacity_type", "fixed_cost_rule">>}]
project_capacity_costs_results ==
  [NoResults EXCEPT !.assigns = Cols("project_period_df", {"capacity_cost",
      "fixed_cost", "hours_in_period_timepoints",
      "hours_in_subproblem_period"})]

(* project.availability.availability                                           *)
project_availability_availability_model ==
  [NoModel EXCEPT !.declares = {"Availability_Derate",
      "Availability_Hyb_Stor_Cap_Derate"},
     !.over = {"PRJ_OPR_TMPS"},
     !.reads = {"availability_type"},
     !.expects = {<<"availability_type", "availability_derate_cap_rule">>,
      <<"availability_type", "availability_derate_hyb_stor_cap_rule">>}]
project_availability_availability_results ==
  [NoResults EXCEPT !.assigns = Cols("project_timepoint_df",
      {"availability_derate"}),
     !.collects = "reset"]

(* project.fuels                                                               *)
fuels_model ==
  [NoModel EXCEPT !.declares = {"FUELS", "FUELS_BY_FUEL_GROUP", "FUEL_GROUPS",
      "FUEL_GROUPS_FUELS", "co2_intensity_tons_per_mmbtu",
      "fuel_price_per_mmbtu"},
     !.over = {"MONTHS", "PERIODS"}]
fuels_loads == Loads({"fuel_prices.tab", "fuels.tab"}, {})
fuels_writes == Writes({"fuel_prices.tab", "fuels.tab"}, {}, {})

(* project.operations. The gridpath.project.operations package contains        *)
(* modules to describe the operational capabilities, constraints, and costs    *)
(* of generation, storage, and demand-side infrastructure 'projects' in the    *)
(* optimization problem.                                                       *)
project_operations_model ==
  [NoModel EXCEPT !.declares = {"CURTAILMENT_COST_PRJS",
      "CURTAILMENT_COST_PRJ_PRDS", "FUELS_BY_PRJ", "FUEL_PRJS",
      "FUEL_PRJ_FUELS", "FUEL_PRJ_FUELS_FUEL_GROUP", "HR_CURVE_PRJS",
      "HR_CURVE_PRJS_PRDS_SGMS", "MIN_DOWN_TIME_VIOL_PRJS",
      "MIN_UP_TIME_VIOL_PRJS", "NONFUEL_CARBON_EMISSIONS_PRJS",
      "RAMP_DOWN_VIOL_PRJS", "RAMP_UP_VIOL_PRJS", "SHUTDOWN_COST_PRJS",
      "SOC_LAST_TMP_PENALTY_COST_PRJS", "SOC_PENALTY_COST_PRJS",
      "STARTUP_BY_ST_PRJS", "STARTUP_BY_ST_PRJS_TYPES", "STARTUP_COST_PRJS",
      "STARTUP_COST_SIMPLE_PRJS", "STARTUP_FUEL_PRJS",
      "VAR_OM_COST_BY_PRD_PRJS", "VAR_OM_COST_BY_TMP_PRJS",
      "VAR_OM_COST_CURVE_PRJS", "VAR_OM_COST_CURVE_PRJS_PRDS_SGMS",
      "VAR_OM_COST_SIMPLE_PRJS", "VIOL_ALL_PRJS",
      "curtailment_cost_per_powerunithour",
      "fuel_burn_intercept_mmbtu_per_mw_hr", "fuel_burn_slope_mmbtu_per_mwh",
      "min_down_time_violation_penalty", "min_up_time_violation_penalty",
      "nonfuel_carbon_emissions_per_mwh", "ramp_down_violation_penalty",
      "ramp_tuning_cost_per_mw", "ramp_up_violation_penalty",
      "shutdown_cost_per_mw", "soc_last_tmp_penalty_cost_per_energyunit",
      "soc_penalty_cost_per_energyunit", "startup_cost_by_st_per_mw",
      "startup_cost_per_mw", "startup_fuel_mmbtu_per_mw",
      "variable_om_cost_per_mwh", "variable_om_cost_per_mwh_by_period",
      "variable_om_cost_per_mwh_by_timepoint", "vom_intercept_cost_per_mw_hr",
      "vom_slope_cost_per_mwh"},
     !.over = {"FUELS", "FUEL_GROUPS_FUELS", "PERIODS", "PROJECTS", "TMPS"}]
project_operations_loads == Loads({"periods.tab", "projects.tab",
    "timepoints.tab"}, {"heat_rate_curves.tab",
    "project_curtailment_cost.tab", "project_fuels.tab",
    "project_variable_om_by_period.tab",
    "project_variable_om_by_timepoint.tab", "startup_chars.tab",
    "variable_om_curves.tab"})
project_operations_writes == Writes({}, {"cap_factor_limits.tab",
    "cycle_selection.tab", "heat_rate_curves.tab",
    "project_curtailment_cost.tab", "project_fuels.tab",
    "project_variable_om_by_period.tab",
    "project_variable_om_by_timepoint.tab", "startup_chars.tab",
    "startup_limits.tab", "supplemental_firing.tab",
    "variable_om_curves.tab"}, {"projects.tab"})
project_operations_imports == {"project_timepoint.csv"}

(* project.operations.reserves.lf_reserves_up                                  *)
reserves_lf_reserves_up_model ==
    ReserveProvisionModel("LF_RESERVES_UP_PROJECTS", "lf_reserves_up_zone",
    "LF_RESERVES_UP_ZONES", "LF_RESERVES_UP_PRJ_OPR_TMPS",
    "Provide_LF_Reserves_Up_MW", "lf_reserves_up_derate",
    "lf_reserves_up_reserve_to_energy_adjustment", "headroom_variables")
reserves_lf_reserves_up_loads ==
    ReserveProvisionLoads("load_following_up_balancing_areas.tab")
reserves_lf_reserves_up_writes == Writes({}, {}, {"projects.tab"})
reserves_lf_reserves_up_results == ReserveProvisionResults("lf_reserves_up")

(* Bug: The provision variable of the other direction.                        *)
reserves_lf_reserves_down_model_CopiedFromUp ==
    ReserveProvisionModel("LF_RESERVES_DOWN_PROJECTS",
    "lf_reserves_down_zone", "LF_RESERVES_DOWN_ZONES",
    "LF_RESERVES_DOWN_PRJ_OPR_TMPS", "Provide_LF_Reserves_Up_MW",
    "lf_reserves_down_derate",
    "lf_reserves_down_reserve_to_energy_adjustment", "footroom_variables")

(* project.operations.reserves.lf_reserves_down                                *)
reserves_lf_reserves_down_model ==
    ReserveProvisionModel("LF_RESERVES_DOWN_PROJECTS",
    "lf_reserves_down_zone", "LF_RESERVES_DOWN_ZONES",
    "LF_RESERVES_DOWN_PRJ_OPR_TMPS", "Provide_LF_Reserves_Down_MW",
    "lf_reserves_down_derate",
    "lf_reserves_down_reserve_to_energy_adjustment", "footroom_variables")
reserves_lf_reserves_down_loads ==
    ReserveProvisionLoads("load_following_down_balancing_areas.tab")
reserves_lf_reserves_down_writes == Writes({}, {}, {"projects.tab"})
reserves_lf_reserves_down_results ==
    ReserveProvisionResults("lf_reserves_down")

(* project.operations.reserves.regulation_up                                   *)
reserves_regulation_up_model ==
    ReserveProvisionModel("REGULATION_UP_PROJECTS", "regulation_up_zone",
    "REGULATION_UP_ZONES", "REGULATION_UP_PRJ_OPR_TMPS",
    "Provide_Regulation_Up_MW", "regulation_up_derate",
    "regulation_up_reserve_to_energy_adjustment", "headroom_variables")
reserves_regulation_up_loads ==
    ReserveProvisionLoads("regulation_up_balancing_areas.tab")
reserves_regulation_up_writes == Writes({}, {}, {"projects.tab"})
reserves_regulation_up_results == ReserveProvisionResults("regulation_up")

(* project.operations.reserves.regulation_down                                 *)
reserves_regulation_down_model ==
    ReserveProvisionModel("REGULATION_DOWN_PROJECTS", "regulation_down_zone",
    "REGULATION_DOWN_ZONES", "REGULATION_DOWN_PRJ_OPR_TMPS",
    "Provide_Regulation_Down_MW", "regulation_down_derate",
    "regulation_down_reserve_to_energy_adjustment", "footroom_variables")
reserves_regulation_down_loads ==
    ReserveProvisionLoads("regulation_down_balancing_areas.tab")
reserves_regulation_down_writes == Writes({}, {}, {"projects.tab"})
reserves_regulation_down_results == ReserveProvisionResults("regulation_down")

(* project.operations.reserves.frequency_response                              *)
reserves_frequency_response_model ==
  [NoModel EXCEPT !.declares = {"FREQUENCY_RESPONSE_PARTIAL_PROJECTS",
      "FREQUENCY_RESPONSE_PRJ_OPR_TMPS", "FREQUENCY_RESPONSE_PROJECTS",
      "Provide_Frequency_Response_MW", "frequency_response_ba",
      "frequency_response_derate",
      "frequency_response_reserve_to_energy_adjustment"},
     !.over = {"FREQUENCY_RESPONSE_BAS", "PROJECTS"},
     !.reads = {"PRJ_OPR_TMPS"},
     !.adds = {<<"headroom_variables", "Provide_Frequency_Response_MW">>,
      <<"reserve_to_energy_adjustment_params",
      "frequency_response_reserve_to_energy_adjustment">>,
      <<"reserve_variable_derate_params", "frequency_response_derate">>}]
reserves_frequency_response_loads ==
    ReserveProvisionLoads("frequency_response_balancing_areas.tab")
reserves_frequency_response_writes == Writes({}, {}, {"projects.tab"})
reserves_frequency_response_results ==
  [NoResults EXCEPT !.assigns = Cols("project_timepoint_df",
      {"frequency_response_ba",
      "frequency_response_partial_reserve_provision",
      "frequency_response_reserve_provision_mw"})]

(* project.operations.reserves.spinning_reserves                               *)
reserves_spinning_reserves_model ==
    ReserveProvisionModel("SPINNING_RESERVES_PROJECTS",
    "spinning_reserves_zone", "SPINNING_RESERVES_ZONES",
    "SPINNING_RESERVES_PRJ_OPR_TMPS", "Provide_Spinning_Reserves_MW",
    "spinning_reserves_derate",
    "spinning_reserves_reserve_to_energy_adjustment", "headroom_variables")
reserves_spinning_reserves_loads ==
    ReserveProvisionLoads("spinning_reserves_balancing_areas.tab")
reserves_spinning_reserves_writes == Writes({}, {}, {"projects.tab"})
reserves_spinning_reserves_results ==
    ReserveProvisionResults("spinning_reserves")

(* project.operations.reserves.inertia_reserves                                *)
reserves_inertia_reserves_model ==
  [NoModel EXCEPT !.declares = {"INERTIA_RESERVES_PRJ_OPR_TMPS",
      "INERTIA_RESERVES_PROJECTS", "Provide_Inertia_Reserves_MWs",
      "inertia_reserves_zone"},
     !.over = {"INERTIA_RESERVES_ZONES", "PROJECTS"},
     !.reads = {"PRJ_OPR_TMPS"}]
reserves_inertia_reserves_loads == Loads({"projects.tab"}, {})
reserves_inertia_reserves_writes == Writes({}, {}, {"projects.tab"})
reserves_inertia_reserves_results ==
  [NoResults EXCEPT !.assigns = Cols("project_timepoint_df",
      {"inertia_reserves_ba", "inertia_reserves_reserve_provision_mws"})]

(* project.operations.operational_types. Describe operational constraints on   *)
(* generation, storage, and DR projects.                                       *)
project_operations_operational_types_model ==
  [NoModel EXCEPT !.declares = {"GEN_COMMIT_BINLIN"},
     !.readsIf = {"GEN_COMMIT_BIN", "GEN_COMMIT_LIN"}]

(* project.operations.reserves.op_type_dependent.lf_reserves_up                *)
op_type_dependent_lf_reserves_up_model ==
    ReserveLimitModel("LF_RESERVES_UP_PROJECTS",
    "LF_RESERVES_UP_PRJ_OPR_TMPS", "Provide_LF_Reserves_Up_MW")
op_type_dependent_lf_reserves_up_loads == Loads({"projects.tab"}, {})
op_type_dependent_lf_reserves_up_writes == Writes({}, {}, {"projects.tab"})

(* project.operations.reserves.op_type_dependent.lf_reserves_down              *)
op_type_dependent_lf_reserves_down_model ==
    ReserveLimitModel("LF_RESERVES_DOWN_PROJECTS",
    "LF_RESERVES_DOWN_PRJ_OPR_TMPS", "Provide_LF_Reserves_Down_MW")
op_type_dependent_lf_reserves_down_loads == Loads({"projects.tab"}, {})
op_type_dependent_lf_reserves_down_writes == Writes({}, {}, {"projects.tab"})

(* project.operations.reserves.op_type_dependent.regulation_up                 *)
op_type_dependent_regulation_up_model ==
    ReserveLimitModel("REGULATION_UP_PROJECTS", "REGULATION_UP_PRJ_OPR_TMPS",
    "Provide_Regulation_Up_MW")
op_type_dependent_regulation_up_loads == Loads({"projects.tab"}, {})
op_type_dependent_regulation_up_writes == Writes({}, {}, {"projects.tab"})

(* project.operations.reserves.op_type_dependent.regulation_down               *)
op_type_dependent_regulation_down_model ==
    ReserveLimitModel("REGULATION_DOWN_PROJECTS",
    "REGULATION_DOWN_PRJ_OPR_TMPS", "Provide_Regulation_Down_MW")
op_type_dependent_regulation_down_loads == Loads({"projects.tab"}, {})
op_type_dependent_regulation_down_writes == Writes({}, {}, {"projects.tab"})

(* project.operations.reserves.op_type_dependent.frequency_response            *)
op_type_dependent_frequency_response_model ==
    ReserveLimitModel("FREQUENCY_RESPONSE_PROJECTS",
    "FREQUENCY_RESPONSE_PRJ_OPR_TMPS", "Provide_Frequency_Response_MW")
op_type_dependent_frequency_response_loads == Loads({"projects.tab"}, {})
op_type_dependent_frequency_response_writes == Writes({}, {},
    {"projects.tab"})

(* project.operations.reserves.op_type_dependent.spinning_reserves             *)
op_type_dependent_spinning_reserves_model ==
    ReserveLimitModel("SPINNING_RESERVES_PROJECTS",
    "SPINNING_RESERVES_PRJ_OPR_TMPS", "Provide_Spinning_Reserves_MW")
op_type_dependent_spinning_reserves_loads == Loads({"projects.tab"}, {})
op_type_dependent_spinning_reserves_writes == Writes({}, {}, {"projects.tab"})

(* project.operations.reserves.op_type_dependent.inertia_reserves              *)
op_type_dependent_inertia_reserves_model ==
  [NoModel EXCEPT !.over = {"INERTIA_RESERVES_PRJ_OPR_TMPS",
      "INERTIA_RESERVES_PROJECTS"},
     !.reads = {"Provide_Inertia_Reserves_MWs", "operational_type"},
     !.calls = {<<"operational_type", "capacity_providing_inertia_rule">>}]
op_type_dependent_inertia_reserves_loads == Loads({"projects.tab"}, {})
op_type_dependent_inertia_reserves_writes == Writes({}, {}, {"projects.tab"})

(* project.operations.power. The gridpath.project.capacity.capacity module     *)
(* is a project-level module that adds to the formulation components that      *)
(* describe the amount of power that a project is providing in each study      *)
(* timepoint.                                                                  *)
power_model ==
  [NoModel EXCEPT !.declares = {"Bulk_Power_Provision_MW",
      "Project_Power_Provision_MW"},
     !.over = {"PRJ_OPR_TMPS"},
     !.reads = {"distribution_loss_adjustment_factor", "operational_type"},
     !.calls = {<<"operational_type", "power_provision_rule">>}]
power_results ==
  [NoResults EXCEPT !.assigns = Cols("project_timepoint_df", {"power_mw",
      "project_power_mw"}),
     !.collects = "fill"]

(* project.operations.cycle_select. The                                        *)
(* gridpath.project.operations.cycle_select module is a project-level module   *)
(* that adds to the formulation components that describe cycle selection       *)
(* constraints, i.e.                                                           *)
cycle_select_model ==
  [NoModel EXCEPT !.over = {"GEN_COMMIT_BINLIN"},
     !.reads = {"OPR_PRDS_BY_PRJ", "TMPS_IN_PRD", "operational_type"},
     !.readsFor = {<<"project.operations.operational_types.gen_commit_lin",
      "GenCommitLin_Synced">>}]
cycle_select_loads == Loads({}, {"cycle_selection.tab"})

(* project.operations.supplemental_firing. The                                 *)
(* gridpath.project.operations.cycle_select module is a project-level module   *)
(* that adds to the formulation components that describe cycle selection       *)
(* constraints, i.e.                                                           *)
supplemental_firing_model ==
  [NoModel EXCEPT !.over = {"GEN_COMMIT_BINLIN"},
     !.reads = {"OPR_PRDS_BY_PRJ", "TMPS_IN_PRD", "operational_type"},
     !.readsFor = {<<"project.operations.operational_types.gen_commit_lin",
      "GenCommitLin_Commit">>}]
supplemental_firing_loads == Loads({}, {"supplemental_firing.tab"})

(* project.operations.cap_factor_limits. The                                   *)
(* gridpath.project.operations.cap_factor_limits module is a project-level     *)
(* module that adds to the formulation components that limit the minimum and   *)
(* maximum cap factor of a project over a horizon.                             *)
cap_factor_limits_model ==
  [NoModel EXCEPT !.over = {"BLN_TYPE_HRZS", "PROJECTS"},
     !.reads = {"Capacity_MW", "Project_Power_Provision_MW",
      "TMPS_BY_BLN_TYPE_HRZ", "hrs_in_tmp", "period", "tmp_weight"}]
cap_factor_limits_loads == Loads({}, {"cap_factor_limits.tab"})
cap_factor_limits_results ==
  [NoResults EXCEPT !.exports = Cols("project_cap_factor_limits.csv",
      {"actual_power_provision_mwh", "balancing_type_horizon", "horizon",
      "max_cap_factor", "min_cap_factor", "possible_power_provision_mwh",
      "project"})]
cap_factor_limits_imports == {"project_cap_factor_limits.csv"}

(* project.operations.fix_commitment. This module exports the commitment       *)
(* variables that must be fixed in the next stage and imports the commitment   *)
(* variables that were fixed in the previous stage.                            *)
fix_commitment_model ==
  [NoModel EXCEPT !.declares = {"fixed_commitment"},
     !.reads = {"PRJ_OPR_TMPS", "operational_type"},
     !.calls = {<<"operational_type", "commitment_rule">>,
      <<"operational_type", "fix_commitment">>}]
fix_commitment_loads == Loads({"fixed_commitment.tab"}, {})
fix_commitment_writes == Writes({"fixed_commitment.tab"}, {}, {})

(* Bug: Startup fuel is asked for under a name no type has.                   *)
fuel_burn_model_OtherRule ==
  [NoModel EXCEPT !.declares = {"FUEL_PRJS_FUEL_OPR_TMPS",
      "FUEL_PRJ_OPR_TMPS", "Opr_Fuel_Burn_by_Fuel_Group_MMBtu",
      "Project_Fuel_Contribution_by_Fuel", "Total_Fuel_Burn_by_Fuel_MMBtu"},
     !.over = {"FUEL_PRJ_FUELS", "PRJ_OPR_TMPS"},
     !.reads = {"FUELS_BY_FUEL_GROUP", "FUELS_BY_PRJ", "FUEL_PRJS",
      "FUEL_PRJ_FUELS_FUEL_GROUP", "HR_CURVE_PRJS",
      "HR_CURVE_PRJS_PRDS_SGMS", "STARTUP_FUEL_PRJS", "operational_type",
      "period"},
     !.calls = {<<"operational_type", "fuel_burn_by_ll_rule">>,
      <<"operational_type", "fuel_burn_rule">>, <<"operational_type",
      "fuel_contribution_rule">>, <<"operational_type",
      "startup_fuel_rule">>}]

(* project.operations.fuel_burn. This module keeps track of fuel burn for      *)
(* each project.                                                               *)
fuel_burn_model ==
  [NoModel EXCEPT !.declares = {"FUEL_PRJS_FUEL_OPR_TMPS",
      "FUEL_PRJ_OPR_TMPS", "Opr_Fuel_Burn_by_Fuel_Group_MMBtu",
      "Project_Fuel_Contribution_by_Fuel", "Total_Fuel_Burn_by_Fuel_MMBtu"},
     !.over = {"FUEL_PRJ_FUELS", "PRJ_OPR_TMPS"},
     !.reads = {"FUELS_BY_FUEL_GROUP", "FUELS_BY_PRJ", "FUEL_PRJS",
      "FUEL_PRJ_FUELS_FUEL_GROUP", "HR_CURVE_PRJS", "HR_CURVE_PRJS_PRDS_SGMS",
      "STARTUP_FUEL_PRJS", "operational_type", "period"},
     !.calls = {<<"operational_type", "fuel_burn_by_ll_rule">>,
      <<"operational_type", "fuel_burn_rule">>, <<"operational_type",
      "fuel_contribution_rule">>, <<"operational_type",
      "startup_fuel_burn_rule">>}]
fuel_burn_loads == Loads({}, {"project_fuels.tab"})
fuel_burn_results ==
  [NoResults EXCEPT !.exports = Cols("project_fuel_burn.csv", {"fuel",
      "fuel_contribution_fuelunit", "horizon", "load_zone",
      "net_fuel_burn_fuelunit", "number_of_hours_in_timepoint",
      "operations_fuel_burn_mmbtu", "period", "project",
      "startup_fuel_burn_mmbtu", "technology", "timepoint",
      "timepoint_weight", "total_fuel_burn_mmbtu"})]
fuel_burn_imports == {"project_fuel_burn.csv"}

(* project.operations.costs. The gridpath.project.operations.costs module is   *)
(* a project-level module that adds to the formulation components that         *)
(* describe the operations-related costs of projects (e.g.                     *)
operations_costs_model ==
  [NoModel EXCEPT !.declares = {"CURTAILMENT_COST_PRJ_OPR_TMPS",
      "Curtailment_Cost", "Fuel_Cost", "Operational_Violation_Cost",
      "Peak_Deviation_Demand_Charge_Cost", "SHUTDOWN_COST_PRJ_OPR_TMPS",
      "SOC_LAST_TMP_PENALTY_COST_PRJ_OPR_TMPS",
      "SOC_PENALTY_COST_PRJ_OPR_TMPS", "SOC_Penalty_Cost",
      "SOC_Penalty_Last_Tmp_Cost", "STARTUP_COST_PRJ_OPR_TMPS",
      "Shutdown_Cost", "Startup_Cost", "VAR_OM_COST_ALL_PRJS_OPR_TMPS",
      "VIOL_ALL_PRJ_OPR_TMPS", "Variable_OM_Cost"},
     !.over = {"FUEL_PRJ_OPR_TMPS", "MONTHS", "PRJ_OPR_PRDS", "PRJ_OPR_TMPS"},
     !.reads = {"CURTAILMENT_COST_PRJS", "FUELS_BY_PRJ",
      "Project_Fuel_Contribution_by_Fuel", "Project_Power_Provision_MW",
      "SHUTDOWN_COST_PRJS", "SOC_LAST_TMP_PENALTY_COST_PRJS",
      "SOC_PENALTY_COST_PRJS", "STARTUP_BY_ST_PRJS", "STARTUP_COST_PRJS",
      "STARTUP_COST_SIMPLE_PRJS", "Total_Fuel_Burn_by_Fuel_MMBtu",
      "VAR_OM_COST_BY_PRD_PRJS", "VAR_OM_COST_BY_TMP_PRJS",
      "VAR_OM_COST_CURVE_PRJS", "VAR_OM_COST_CURVE_PRJS_PRDS_SGMS",
      "VAR_OM_COST_SIMPLE_PRJS", "VIOL_ALL_PRJS", "fuel_price_per_mmbtu",
      "month", "operational_type", "period", "variable_om_cost_per_mwh",
      "variable_om_cost_per_mwh_by_period",
      "variable_om_cost_per_mwh_by_timepoint"},
     !.calls = {<<"operational_type", "curtailment_cost_rule">>,
      <<"operational_type", "operational_violation_cost_rule">>,
      <<"operational_type",
      "peak_deviation_monthly_demand_charge_cost_rule">>,
      <<"operational_type", "shutdown_cost_rule">>, <<"operational_type",
      "soc_last_tmp_penalty_cost_rule">>, <<"operational_type",
      "soc_penalty_cost_rule">>, <<"operational_type",
      "startup_cost_by_st_rule">>, <<"operational_type",
      "startup_cost_simple_rule">>, <<"operational_type",
      "variable_om_by_period_cost_rule">>, <<"operational_type",
      "variable_om_by_timepoint_cost_rule">>, <<"operational_type",
      "variable_om_cost_by_ll_rule">>, <<"operational_type",
      "variable_om_cost_rule">>}]
operations_costs_results ==
  [NoResults EXCEPT !.assigns = Cols("project_timepoint_df",
      {"curtailment_cost", "fuel_cost", "operational_violation_cost",
      "shutdown_cost", "soc_last_tmp_penalty_cost", "soc_penalty_cost",
      "startup_cost", "variable_om_cost"})]

(* project.operations.tuning_costs. Operational tuning costs that prevent      *)
(* erratic dispatch in case of degeneracy.                                     *)
tuning_costs_model ==
  [NoModel EXCEPT !.declares = {"Ramp_Down_Tuning_Cost",
      "Ramp_Up_Tuning_Cost"},
     !.over = {"PRJ_OPR_TMPS"},
     !.reads = {"balancing_type_project", "boundary", "first_hrz_tmp",
      "horizon", "operational_type", "ramp_tuning_cost_per_mw"},
     !.expects = {<<"operational_type", "power_delta_rule">>}]

(* project.operations.energy_target_contributions                              *)
energy_target_contributions_model ==
  [NoModel EXCEPT !.declares = {"ENERGY_TARGET_PRJS_BY_ENERGY_TARGET_ZONE",
      "ENERGY_TARGET_PRJ_OPR_TMPS", "Scheduled_Curtailment_MW",
      "Scheduled_Energy_Target_Energy_MW", "Subhourly_Curtailment_MW",
      "Subhourly_Energy_Target_Energy_MW"},
     !.over = {"ENERGY_TARGET_ZONES", "PRJ_OPR_TMPS", "PROJECTS"},
     !.reads = {"Project_Power_Provision_MW", "operational_type"},
     !.calls = {<<"operational_type", "rec_provision_rule">>,
      <<"operational_type", "scheduled_curtailment_rule">>,
      <<"operational_type", "subhourly_curtailment_rule">>,
      <<"operational_type", "subhourly_energy_delivered_rule">>}]
energy_target_contributions_loads == Loads({"projects.tab"}, {})
energy_target_contributions_writes == Writes({}, {}, {"projects.tab"})
energy_target_contributions_results ==
  [NoResults EXCEPT !.assigns = Cols("project_timepoint_df",
      {"energy_target_zone", "scheduled_curtailment_mw",
      "scheduled_energy_target_energy_mw", "subhourly_curtailment_mw",
      "subhourly_energy_target_energy_delivered_mw"})]

(* project.operations.instantaneous_penetration_contributions                  *)
instantaneous_penetration_contributions_model ==
  [NoModel EXCEPT !.declares = {"INST_PEN_PRJS",
      "instantaneous_penetration_zone"},
     !.over = {"INSTANTANEOUS_PENETRATION_ZONES", "PRJ_OPR_TMPS", "PROJECTS"}]
instantaneous_penetration_contributions_loads == Loads({"projects.tab"}, {})
instantaneous_penetration_contributions_writes == Writes({}, {},
    {"projects.tab"})
instantaneous_penetration_contributions_results ==
  [NoResults EXCEPT !.assigns = Cols("project_timepoint_df",
      {"instantaneous_penetration_power_mw",
      "instantaneous_penetration_zone"})]

(* project.operations.carbon_emissions. Carbon emissions from each             *)
(* carbonaceous project.                                                       *)
project_operations_carbon_emissions_model ==
  [NoModel EXCEPT !.declares = {"Project_Carbon_Emissions"},
     !.over = {"PRJ_OPR_TMPS"},
     !.reads = {"Bulk_Power_Provision_MW", "FUELS_BY_PRJ", "FUEL_PRJS",
      "NONFUEL_CARBON_EMISSIONS_PRJS", "Project_Fuel_Contribution_by_Fuel",
      "Total_Fuel_Burn_by_Fuel_MMBtu", "co2_intensity_tons_per_mmbtu",
      "nonfuel_carbon_emissions_per_mwh"}]
project_operations_carbon_emissions_results ==
  [NoResults EXCEPT !.assigns = Cols("project_timepoint_df",
      {"carbon_emissions_tons"})]

(* project.operations.carbon_cap. Carbon emissions from each carbonaceous      *)
(* project.                                                                    *)
operations_carbon_cap_model ==
  [NoModel EXCEPT !.declares = {"CRBN_PRJS_BY_CARBON_CAP_ZONE",
      "CRBN_PRJ_OPR_TMPS"},
     !.over = {"CARBON_CAP_ZONES", "PRJ_OPR_TMPS", "PROJECTS"}]
operations_carbon_cap_loads == Loads({"project_carbon_cap_zones.tab"}, {})
operations_carbon_cap_writes == Writes({"project_carbon_cap_zones.tab"}, {},
    {})

(* project.operations.carbon_tax                                               *)
operations_carbon_tax_model ==
  [NoModel EXCEPT !.declares = {"CARBON_TAX_PRJS_BY_CARBON_TAX_ZONE",
      "CARBON_TAX_PRJ_FUEL_GROUP_OPR_TMPS", "CARBON_TAX_PRJ_OPR_TMPS",
      "Project_Carbon_Tax_Allowance"},
     !.over = {"CARBON_TAX_ZONES", "FUEL_GROUPS", "PERIODS", "PRJ_OPR_PRDS",
      "PRJ_OPR_TMPS", "PROJECTS"},
     !.reads = {"FUEL_PRJ_FUELS_FUEL_GROUP",
      "Opr_Fuel_Burn_by_Fuel_Group_MMBtu", "period"}]
operations_carbon_tax_loads == Loads({"projects.tab"},
    {"heat_rate_curves.tab", "periods.tab",
    "project_carbon_tax_allowance.tab"})
operations_carbon_tax_writes == Writes({},
    {"project_carbon_tax_allowance.tab"}, {"projects.tab"})
operations_carbon_tax_results ==
  [NoResults EXCEPT !.exports = Cols("project_carbon_tax_allowance.csv",
      {"carbon_tax_allowance_average_heat_rate_mmbtu_per_mwh",
      "carbon_tax_allowance_tco2_per_mwh", "carbon_tax_allowance_tons",
      "carbon_tax_zone", "fuel_group", "horizon",
      "number_of_hours_in_timepoint", "opr_fuel_burn_by_fuel_group_mmbtu",
      "period", "project", "timepoint", "timepoint_weight"})]
operations_carbon_tax_imports == {"project_carbon_tax_allowance.csv"}

(* project.operations.performance_standard                                     *)
operations_performance_standard_model ==
  [NoModel EXCEPT !.declares = {"PERFORMANCE_STANDARD_OPR_PRDS",
      "PERFORMANCE_STANDARD_OPR_TMPS",
      "PERFORMANCE_STANDARD_PRJS_BY_PERFORMANCE_STANDARD_ZONE"},
     !.over = {"PERFORMANCE_STANDARD_ZONES", "PRJ_OPR_PRDS", "PRJ_OPR_TMPS",
      "PROJECTS"}]
operations_performance_standard_loads ==
    Loads({"project_performance_standard_zones.tab"}, {})
operations_performance_standard_writes ==
    Writes({"project_performance_standard_zones.tab"}, {}, {})

(* project.operations.carbon_credits                                           *)
operations_carbon_credits_model ==
  [NoModel EXCEPT !.declares =
      {"CARBON_CREDITS_GENERATION_PRJS_BY_CARBON_CREDITS_ZONE",
      "CARBON_CREDITS_GENERATION_PRJ_OPR_PRDS",
      "CARBON_CREDITS_PURCHASE_PRJS_BY_CARBON_CREDITS_ZONE",
      "CARBON_CREDITS_PURCHASE_PRJS_CARBON_CREDITS_ZONES_OPR_PRDS",
      "Project_Carbon_Credits_Generated", "Project_Purchase_Carbon_Credits"},
     !.over = {"CARBON_CREDITS_ZONES", "PRJ_OPR_PRDS", "PRJ_OPR_TMPS",
      "PROJECTS"},
     !.reads = {"Project_Carbon_Emissions", "hrs_in_tmp", "operational_type",
      "period", "tmp_weight"},
     !.calls = {<<"operational_type", "power_provision_rule">>}]
operations_carbon_credits_loads == Loads({"projects.tab"},
    {"project_carbon_credits.tab",
    "project_carbon_credits_purchase_zones.tab"})
operations_carbon_credits_writes == Writes({}, {"project_carbon_credits.tab",
    "project_carbon_credits_purchase_zones.tab"}, {"projects.tab"})
operations_carbon_credits_results ==
  [NoResults EXCEPT !.assigns = Cols("project_period_df",
      {"carbon_credits_generated_tCO2", "carbon_credits_zone"}),
     !.exports = Cols("project_carbon_credits_purchase.csv",
      {"carbon_credit_zone", "carbon_credits_purchased_tCO2",
      "discount_factor", "number_years_represented", "period", "project"})]

(* project.operations.power_output_groups. Minimum and maximum total power     *)
(* output by period and project group.                                         *)
power_output_groups_model ==
  [NoModel EXCEPT !.over = {"PROJECTS"},
     !.reads = {"PRJ_OPR_TMPS", "TMPS_IN_PRD", "operational_type", "period"},
     !.calls = {<<"operational_type", "power_provision_rule">>}]
power_output_groups_loads == Loads({}, {"power_output_group_projects.tab",
    "power_output_group_requirements.tab"})
power_output_groups_writes == Writes({}, {"power_output_group_projects.tab",
    "power_output_group_requirements.tab"}, {})

(* project.reliability.prm                                                     *)
project_reliability_prm_model ==
  [NoModel EXCEPT !.declares = {"PRM_PRJ_OPR_PRDS", "PRM_PROJECTS",
      "PRM_PROJECTS_BY_PRM_ZONE", "prm_type", "prm_zone"},
     !.over = {"PRJ_OPR_PRDS", "PRM_ZONES", "PROJECTS"}]
project_reliability_prm_loads == Loads({"projects.tab"}, {})
project_reliability_prm_writes == Writes({}, {}, {"projects.tab"})

(* project.reliability.prm.prm_types. Describe ELCC-eligibility constraints    *)
(* on infrastructure.                                                          *)
prm_types_model ==
  [NoModel EXCEPT !.declares = {"ELCC_Eligible_Capacity_MW"},
     !.over = {"PRM_PRJ_OPR_PRDS"},
     !.reads = {"prm_type"},
     !.expects = {<<"prm_type", "elcc_eligible_capacity_rule">>}]
prm_types_loads == Loads({"projects.tab"}, {})

(* project.reliability.prm.prm_simple. Simplest PRM contribution where each    *)
(* PRM project contributes a fraction of its installed capacity.               *)
prm_simple_model ==
  [NoModel EXCEPT !.declares = {"PRM_Simple_Contribution_MW"},
     !.over = {"PERIODS", "PRM_PRJ_OPR_PRDS", "PRM_PROJECTS"},
     !.reads = {"ELCC_Eligible_Capacity_MW"}]
prm_simple_loads == Loads({"prm_projects_simple_elcc.tab"}, {})
prm_simple_writes == Writes({"prm_projects_simple_elcc.tab"}, {}, {})
prm_simple_results ==
  [NoResults EXCEPT !.exports = Cols("project_elcc_simple.csv",
      {"capacity_mw", "elcc_eligible_capacity_mw", "elcc_mw",
      "elcc_simple_fraction", "load_zone", "period", "prm_zone", "project",
      "technology"})]
prm_simple_imports == {"project_elcc_simple.csv"}

(* project.reliability.prm.elcc_surface                                        *)
project_reliability_prm_elcc_surface_model ==
  [NoModel EXCEPT !.declares = {"ELCC_SURFACE_PRM_ZONE_PERIODS",
      "ELCC_SURFACE_PROJECTS_BY_PRM_ZONE", "ELCC_Surface_Contribution_MW",
      "prm_peak_load_mw"},
     !.over = {"PERIODS", "PRM_PROJECTS", "PRM_ZONES"},
     !.reads = {"ELCC_Eligible_Capacity_MW", "PRJ_OPR_PRDS", "prm_zone"}]
project_reliability_prm_elcc_surface_loads ==
    Loads({"elcc_surface_normalization_loads.tab",
    "project_elcc_surface_coefficients.tab", "projects.tab"}, {})
project_reliability_prm_elcc_surface_writes ==
    Writes({"elcc_surface_normalization_loads.tab",
    "project_elcc_surface_coefficients.tab"}, {}, {"projects.tab"})
project_reliability_prm_elcc_surface_results ==
  [NoResults EXCEPT !.exports = Cols("project_elcc_surface.csv",
      {"capacity_mw", "elcc_eligible_capacity_mw", "elcc_mw",
      "elcc_surface_coefficient", "elcc_surface_name", "facet", "load_zone",
      "period", "prm_zone", "project", "technology"})]
project_reliability_prm_elcc_surface_imports == {"project_elcc_surface.csv"}

(* project.reliability.prm.group_costs. Building "transmission" capacity to    *)
(* allow for project capacity to count as deliverable for PRM purposes OR      *)
(* for energy-only purposes even if the PRM "deliverable" capacity is not      *)
(* increased.                                                                  *)
group_costs_model ==
  [NoModel EXCEPT !.declares = {"DELIVERABILITY_GROUPS",
      "Deliverability_Group_Deliverable_Capacity_Cost"},
     !.over = {"EOA_PRM_PROJECTS", "PERIODS"},
     !.reads = {"Capacity_MW",
      "Deliverability_Group_Energy_Only_Project_Capacity_MW",
      "PERIOD_FUTURE_TRAJECTORY", "period_end_year", "period_start_year"},
     !.readsFor = {<<"project.reliability.prm.prm_types.energy_only_allowed",
      "Deliverable_Capacity_MW">>,
      <<"project.reliability.prm.prm_types.energy_only_allowed",
      "EOA_PRM_PRJ_OPR_PRDS">>,
      <<"project.reliability.prm.prm_types.energy_only_allowed",
      "Energy_Only_Capacity_MW">>}]
group_costs_loads == Loads({"deliverability_group_costs.tab",
    "deliverability_group_projects.tab",
    "deliverability_project_multipliers.tab"}, {"deliverability_existing.tab",
    "deliverability_group_potential.tab"})
group_costs_writes == Writes({"deliverability_group_costs.tab",
    "deliverability_group_projects.tab",
    "deliverability_project_multipliers.tab"}, {"deliverability_existing.tab",
    "deliverability_group_potential.tab"}, {})
group_costs_results ==
  [NoResults EXCEPT !.exports = Cols("project_deliverability_groups.csv",
      {"cumulative_added_deliverable_capacity_mw",
      "deliverability_annual_cost_in_period", "deliverability_group",
      "deliverable_capacity_built_in_period_mw", "period"})]
group_costs_imports == {"project_deliverability_groups.csv"}

(* project.reliability.local_capacity                                          *)
project_reliability_local_capacity_model ==
  [NoModel EXCEPT !.declares = {"LOCAL_CAPACITY_PRJ_OPR_PRDS",
      "LOCAL_CAPACITY_PROJECTS",
      "LOCAL_CAPACITY_PROJECTS_BY_LOCAL_CAPACITY_ZONE"},
     !.over = {"LOCAL_CAPACITY_ZONES", "PRJ_OPR_PRDS", "PROJECTS"}]
project_reliability_local_capacity_loads == Loads({"projects.tab"}, {})
project_reliability_local_capacity_writes == Writes({}, {}, {"projects.tab"})

(* project.reliability.local_capacity.local_capacity_contribution. Simple      *)
(* local capacity contribution where each local project contributes a          *)
(* fraction of its installed capacity.                                         *)
local_capacity_contribution_model ==
  [NoModel EXCEPT !.declares = {"Local_Capacity_Contribution_MW"},
     !.over = {"LOCAL_CAPACITY_PRJ_OPR_PRDS", "LOCAL_CAPACITY_PROJECTS"},
     !.reads = {"Capacity_MW"}]
local_capacity_contribution_loads == Loads({"projects.tab"}, {})
local_capacity_contribution_writes == Writes({}, {}, {"projects.tab"})
local_capacity_contribution_results ==
  [NoResults EXCEPT !.exports = Cols("project_local_capacity.csv",
      {"capacity_mw", "load_zone", "local_capacity_contribution_mw",
      "local_capacity_fraction", "local_capacity_zone", "period", "project",
      "technology"})]
local_capacity_contribution_imports == {"project_local_capacity.csv"}

(* project.consolidate_results                                                 *)
project_consolidate_results_results ==
  [NoResults EXCEPT !.saves = {<<"project_period_df", "project_period.csv">>,
      <<"project_timepoint_df", "project_timepoint.csv">>}]

(* project.summary_results                                                     *)
summary_results_results ==
  [NoResults EXCEPT !.exports = Cols("project_period_summary.csv",
      {"cap_factor_equivalent", "capacity_mw", "capacity_type", "energy_mwh",
      "fuel_prod_capacity_fuelunitperhour",
      "fuel_rel_capacity_fuelunitperhour", "fuel_stor_capacity_fuelunit",
      "hyb_gen_capacity_mw", "hyb_stor_capacity_mw", "load_zone",
      "operational_type", "period", "project", "stor_energy_capacity_mwh",
      "technology", "total_delivered_bulk_power_mwh"})]
summary_results_imports == {"project_period_summary.csv"}

(* project.policy.policy_contribution                                          *)
policy_contribution_model ==
  [NoModel EXCEPT !.declares = {"PRJ_POLICY_ZONE_OPR_TMPS",
      "PRJ_POLICY_ZONE_PRDS_MONTH_HOURS", "PROJECT_POLICY_ZONES",
      "Policy_Contribution_in_Month_Hour",
      "Policy_Contribution_in_Timepoint"},
     !.over = {"POLICIES_ZONES", "PROJECTS"},
     !.reads = {"POLICIES_ZONE_PRDS_MONTH_HOURS_WITH_REQ", "PRJ_OPR_TMPS"},
     !.calls = {<<"compliance_type", "contribution_in_month_hour">>,
      <<"compliance_type", "contribution_in_timepoint">>}]
policy_contribution_loads == Loads({"project_policy_zones.tab"}, {})
policy_contribution_writes == Writes({"project_policy_zones.tab"}, {}, {})
policy_contribution_results ==
  [NoResults EXCEPT !.exports = Cols("project_policy_zone_timepoint.csv",
      {"hours_in_timepoint", "period", "policy_contribution", "policy_name",
      "policy_zone", "project", "timepoint", "timepoint_weight"}) \cup
      Cols("project_policy_month_hour_contributions.csv", {"contribution_mw",
      "period", "policy_hour", "policy_month", "policy_name", "policy_zone",
      "project"})]
policy_contribution_imports == {"project_policy_month_hour_contributions.csv",
    "project_policy_zone_timepoint.csv"}

(* project.availability.availability_types.binary. Projects assigned this      *)
(* availability type have binary decision variables for their availability     *)
(* in each timepoint.                                                          *)
binary_model ==
  [NoModel EXCEPT !.over = {"PRJ_OPR_PRDS", "PRJ_OPR_TMPS", "PROJECTS"},
     !.reads = {"TMPS_IN_PRD", "balancing_type_project", "boundary",
      "first_hrz_tmp", "furthest_linked_tmp", "horizon", "hrs_in_linked_tmp",
      "hrs_in_tmp", "prev_tmp", "tmp_weight"}]
binary_functions ==
  [availability_derate_cap_rule |-> {},
   availability_derate_hyb_stor_cap_rule |-> {}]
binary_loads == Loads({"project_availability_endogenous.tab", "projects.tab"},
    {})
binary_writes == Writes({"project_availability_endogenous.tab"}, {}, {})
binary_results ==
  [NoResults EXCEPT !.returns = Cols("project_timepoint_df",
      {"start_unavailability", "stop_unavailability",
      "unavailability_decision"})]

(* project.availability.availability_types.continuous. This availability       *)
(* type is formulated like the binary type except that all binary decision     *)
(* variables are relaxed to be continuous with bounds between 0 and 1.         *)
continuous_model ==
  [NoModel EXCEPT !.over = {"PRJ_OPR_PRDS", "PRJ_OPR_TMPS", "PROJECTS"},
     !.reads = {"TMPS_IN_PRD", "balancing_type_project", "boundary",
      "first_hrz_tmp", "furthest_linked_tmp", "horizon", "hrs_in_linked_tmp",
      "hrs_in_tmp", "prev_tmp", "tmp_weight"}]
continuous_functions ==
  [availability_derate_cap_rule |-> {},
   availability_derate_hyb_stor_cap_rule |-> {}]
continuous_loads == Loads({"project_availability_endogenous.tab",
    "projects.tab"}, {})
continuous_writes == Writes({"project_availability_endogenous.tab"}, {}, {})
continuous_results ==
  [NoResults EXCEPT !.returns = Cols("project_timepoint_df",
      {"start_unavailability", "stop_unavailability",
      "unavailability_decision"})]

(* project.availability.availability_types.exogenous. For each project         *)
(* assigned this availability type, the user may specify an (un)availability   *)
(* schedule, i.e.                                                              *)
project_availability_availability_types_exogenous_model ==
  [NoModel EXCEPT !.declares = {"avl_exog_cap_derate_independent",
      "avl_exog_cap_derate_weather"},
     !.over = {"BLN_TYPE_HRZS", "MONTHS", "PRJ_OPR_TMPS", "PROJECTS"},
     !.reads = {"TMPS_BY_BLN_TYPE_HRZ"}]
project_availability_availability_types_exogenous_functions ==
  [availability_derate_cap_rule |-> {"month"},
   availability_derate_hyb_stor_cap_rule |-> {}]
project_availability_availability_types_exogenous_loads ==
    Loads({"projects.tab"}, {"project_availability_exogenous_independent.tab",
    "project_availability_exogenous_independent_bt_hrz.tab",
    "project_availability_exogenous_monthly.tab",
    "project_availability_exogenous_weather.tab",
    "project_availability_exogenous_weather_bt_hrz.tab"})
project_availability_availability_types_exogenous_writes == Writes({},
    {"project_availability_exogenous_independent.tab",
    "project_availability_exogenous_independent_bt_hrz.tab",
    "project_availability_exogenous_monthly.tab",
    "project_availability_exogenous_weather.tab",
    "project_availability_exogenous_weather_bt_hrz.tab"}, {})

(* project.policy.compliance_types.f_output                                    *)
f_output_model ==
  [NoModel EXCEPT !.over = {"PERIODS", "PROJECT_POLICY_ZONES"},
     !.reads = {"Bulk_Power_Provision_MW", "Capacity_MW", "OPR_PRDS_BY_PRJ",
      "PRJ_OPR_TMPS", "operational_type"},
     !.calls = {<<"operational_type", "policy_power_provision_rule">>}]
f_output_functions ==
  [contribution_in_timepoint |-> {"period"}]
f_output_loads == Loads({"project_policy_zones.tab"}, {})

(* project.policy.compliance_types.sod_exceedance. Exceedance SOD compliance   *)
(* type.                                                                       *)
sod_exceedance_functions ==
  [contribution_in_month_hour |-> {"Capacity_MW"}]
sod_exceedance_loads == Loads({}, {"project_policy_exceedance_values.tab"})
sod_exceedance_writes == Writes({}, {"project_policy_exceedance_values.tab"},
    {})

(* project.policy.compliance_types.sod_flat_block. Flat-block SOD compliance   *)
(* type.                                                                       *)
sod_flat_block_functions ==
  [contribution_in_month_hour |-> {"Capacity_MW", "PRJ_OPR_PRDS"}]

(* project.policy.compliance_types.sod_stor. Storage SOD compliance type.      *)
sod_stor_model ==
  [NoModel EXCEPT !.over = {"PROJECT_POLICY_ZONES"},
     !.reads = {"Capacity_MW", "Energy_Storage_Capacity_MWh",
      "POLICIES_ZONE_PRDS_MONTH_HOURS_WITH_REQ", "PRJ_OPR_PRDS"}]
sod_stor_functions ==
  [contribution_in_month_hour |-> {}]
sod_stor_loads == Loads({"project_policy_zones.tab"}, {})

(* project.policy.compliance_types.stor_losses                                 *)
stor_losses_model == [NoModel EXCEPT !.over = {"PROJECT_POLICY_ZONES"}]
stor_losses_functions ==
  [contribution_in_timepoint |-> {"Stor_Charge_MW", "Stor_Discharge_MW"}]

(* project.reliability.prm.prm_types.energy_only_allowed. Projects that can    *)
(* be partly or fully 'energy-only,' i.e.                                      *)
energy_only_allowed_model ==
  [NoModel EXCEPT !.declares = {"Deliverable_Capacity_MW",
      "EOA_PRM_PRJ_OPR_PRDS", "EOA_PRM_PROJECTS", "Energy_Only_Capacity_MW"},
     !.over = {"PRM_PRJ_OPR_PRDS", "PRM_PROJECTS"},
     !.reads = {"Capacity_MW", "prm_type"}]
energy_only_allowed_functions ==
  [elcc_eligible_capacity_rule |-> {}]
energy_only_allowed_results ==
  [NoResults EXCEPT !.exports = Cols("project_deliverability.csv",
      {"capacity_mw", "deliverable_capacity_mw", "energy_only_capacity_mw",
      "period", "prm_zone", "project"})]
energy_only_allowed_imports == {"project_deliverability.csv"}

(* project.reliability.prm.prm_types.fully_deliverable                         *)
fully_deliverable_model ==
  [NoModel EXCEPT !.over = {"PRM_PROJECTS"},
     !.reads = {"prm_type"}]
fully_deliverable_functions ==
  [elcc_eligible_capacity_rule |-> {"Capacity_MW"}]

(* project.reliability.prm.prm_types.fully_deliverable_energy_limited          *)
fully_deliverable_energy_limited_model ==
  [NoModel EXCEPT !.over = {"PRJ_OPR_PRDS", "PRM_PRJ_OPR_PRDS",
      "PRM_PROJECTS"},
     !.reads = {"Capacity_MW", "Energy_Storage_Capacity_MWh", "prm_type"}]
fully_deliverable_energy_limited_functions ==
  [elcc_eligible_capacity_rule |-> {}]
fully_deliverable_energy_limited_loads == Loads({"projects.tab"}, {})
fully_deliverable_energy_limited_writes == Writes({}, {}, {"projects.tab"})

(* The modules of this package by name.                                        *)
ProjectParts ==
  "project" :>
       Parts(project_model, project_loads, project_writes, project_results,
             {})
  @@ "project.capacity" :>
       Parts(NoModel, NoLoads, NoWrites, NoResults, project_capacity_imports)
  @@ "project.capacity.capacity_types" :>
       Parts(NoModel, NoLoads, NoWrites, NoResults, {})
  @@ "project.capacity.capacity" :>
       Parts(project_capacity_capacity_model, NoLoads, NoWrites,
             project_capacity_capacity_results, {})
  @@ "project.capacity.potential" :>
       Parts(potential_model, potential_loads, potential_writes,
             potential_results, {})
  @@ "project.capacity.capacity_groups" :>
       Parts(project_capacity_capacity_groups_model,
             project_capacity_capacity_groups_loads,
             project_capacity_capacity_groups_writes,
             project_capacity_capacity_groups_results,
             project_capacity_capacity_groups_imports)
  @@ "project.capacity.relative_capacity" :>
       Parts(relative_capacity_model, relative_capacity_loads,
             relative_capacity_writes, NoResults, {})
  @@ "project.capacity.costs" :>
       Parts(project_capacity_costs_model, NoLoads, NoWrites,
             project_capacity_costs_results, {})
  @@ "project.availability.availability" :>
       Parts(project_availability_availability_model, NoLoads, NoWrites,
             project_availability_availability_results, {})
  @@ "project.fuels" :>
       Parts(fuels_model, fuels_loads, fuels_writes, NoResults, {})
  @@ "project.operations" :>
       Parts(project_operations_model, project_operations_loads,
             project_operations_writes, NoResults,
             project_operations_imports)
  @@ "project.operations.reserves.lf_reserves_up" :>
       Parts(reserves_lf_reserves_up_model, reserves_lf_reserves_up_loads,
             reserves_lf_reserves_up_writes, reserves_lf_reserves_up_results,
             {})
  @@ "project.operations.reserves.lf_reserves_down" :>
       Parts(reserves_lf_reserves_down_model,
             reserves_lf_reserves_down_loads,
             reserves_lf_reserves_down_writes,
             reserves_lf_reserves_down_results, {})
  @@ "project.operations.reserves.regulation_up" :>
       Parts(reserves_regulation_up_model, reserves_regulation_up_loads,
             reserves_regulation_up_writes, reserves_regulation_up_results,
             {})
  @@ "project.operations.reserves.regulation_down" :>
       Parts(reserves_regulation_down_model, reserves_regulation_down_loads,
             reserves_regulation_down_writes,
             reserves_regulation_down_results, {})
  @@ "project.operations.reserves.frequency_response" :>
       Parts(reserves_frequency_response_model,
             reserves_frequency_response_loads,
             reserves_frequency_response_writes,
             reserves_frequency_response_results, {})
  @@ "project.operations.reserves.spinning_reserves" :>
       Parts(reserves_spinning_reserves_model,
             reserves_spinning_reserves_loads,
             reserves_spinning_reserves_writes,
             reserves_spinning_reserves_results, {})
  @@ "project.operations.reserves.inertia_reserves" :>
       Parts(reserves_inertia_reserves_model,
             reserves_inertia_reserves_loads,
             reserves_inertia_reserves_writes,
             reserves_inertia_reserves_results, {})
  @@ "project.operations.operational_types" :>
       Parts(project_operations_operational_types_model, NoLoads, NoWrites,
             NoResults, {})
  @@ "project.operations.reserves.op_type_dependent.lf_reserves_up" :>
       Parts(op_type_dependent_lf_reserves_up_model,
             op_type_dependent_lf_reserves_up_loads,
             op_type_dependent_lf_reserves_up_writes, NoResults, {})
  @@ "project.operations.reserves.op_type_dependent.lf_reserves_down" :>
       Parts(op_type_dependent_lf_reserves_down_model,
             op_type_dependent_lf_reserves_down_loads,
             op_type_dependent_lf_reserves_down_writes, NoResults, {})
  @@ "project.operations.reserves.op_type_dependent.regulation_up" :>
       Parts(op_type_dependent_regulation_up_model,
             op_type_dependent_regulation_up_loads,
             op_type_dependent_regulation_up_writes, NoResults, {})
  @@ "project.operations.reserves.op_type_dependent.regulation_down" :>
       Parts(op_type_dependent_regulation_down_model,
             op_type_dependent_regulation_down_loads,
             op_type_dependent_regulation_down_writes, NoResults, {})
  @@ "project.operations.reserves.op_type_dependent.frequency_response" :>
       Parts(op_type_dependent_frequency_response_model,
             op_type_dependent_frequency_response_loads,
             op_type_dependent_frequency_response_writes, NoResults, {})
  @@ "project.operations.reserves.op_type_dependent.spinning_reserves" :>
       Parts(op_type_dependent_spinning_reserves_model,
             op_type_dependent_spinning_reserves_loads,
             op_type_dependent_spinning_reserves_writes, NoResults, {})
  @@ "project.operations.reserves.op_type_dependent.inertia_reserves" :>
       Parts(op_type_dependent_inertia_reserves_model,
             op_type_dependent_inertia_reserves_loads,
             op_type_dependent_inertia_reserves_writes, NoResults, {})
  @@ "project.operations.power" :>
       Parts(power_model, NoLoads, NoWrites, power_results, {})
  @@ "project.operations.cycle_select" :>
       Parts(cycle_select_model, cycle_select_loads, NoWrites, NoResults, {})
  @@ "project.operations.supplemental_firing" :>
       Parts(supplemental_firing_model, supplemental_firing_loads, NoWrites,
             NoResults, {})
  @@ "project.operations.cap_factor_limits" :>
       Parts(cap_factor_limits_model, cap_factor_limits_loads, NoWrites,
             cap_factor_limits_results, cap_factor_limits_imports)
  @@ "project.operations.fix_commitment" :>
       Parts(fix_commitment_model, fix_commitment_loads,
             fix_commitment_writes, NoResults, {})
  @@ "project.operations.fuel_burn" :>
       Parts(fuel_burn_model, fuel_burn_loads, NoWrites, fuel_burn_results,
             fuel_burn_imports)
  @@ "project.operations.costs" :>
       Parts(operations_costs_model, NoLoads, NoWrites,
             operations_costs_results, {})
  @@ "project.operations.tuning_costs" :>
       Parts(tuning_costs_model, NoLoads, NoWrites, NoResults, {})
  @@ "project.operations.energy_target_contributions" :>
       Parts(energy_target_contributions_model,
             energy_target_contributions_loads,
             energy_target_contributions_writes,
             energy_target_contributions_results, {})
  @@ "project.operations.instantaneous_penetration_contributions" :>
       Parts(instantaneous_penetration_contributions_model,
             instantaneous_penetration_contributions_loads,
             instantaneous_penetration_contributions_writes,
             instantaneous_penetration_contributions_results, {})
  @@ "project.operations.carbon_emissions" :>
       Parts(project_operations_carbon_emissions_model, NoLoads, NoWrites,
             project_operations_carbon_emissions_results, {})
  @@ "project.operations.carbon_cap" :>
       Parts(operations_carbon_cap_model, operations_carbon_cap_loads,
             operations_carbon_cap_writes, NoResults, {})
  @@ "project.operations.carbon_tax" :>
       Parts(operations_carbon_tax_model, operations_carbon_tax_loads,
             operations_carbon_tax_writes, operations_carbon_tax_results,
             operations_carbon_tax_imports)
  @@ "project.operations.performance_standard" :>
       Parts(operations_performance_standard_model,
             operations_performance_standard_loads,
             operations_performance_standard_writes, NoResults, {})
  @@ "project.operations.carbon_credits" :>
       Parts(operations_carbon_credits_model,
             operations_carbon_credits_loads,
             operations_carbon_credits_writes,
             operations_carbon_credits_results, {})
  @@ "project.operations.power_output_groups" :>
       Parts(power_output_groups_model, power_output_groups_loads,
             power_output_groups_writes, NoResults, {})
  @@ "project.reliability.prm" :>
       Parts(project_reliability_prm_model, project_reliability_prm_loads,
             project_reliability_prm_writes, NoResults, {})
  @@ "project.reliability.prm.prm_types" :>
       Parts(prm_types_model, prm_types_loads, NoWrites, NoResults, {})
  @@ "project.reliability.prm.prm_simple" :>
       Parts(prm_simple_model, prm_simple_loads, prm_simple_writes,
             prm_simple_results, prm_simple_imports)
  @@ "project.reliability.prm.elcc_surface" :>
       Parts(project_reliability_prm_elcc_surface_model,
             project_reliability_prm_elcc_surface_loads,
             project_reliability_prm_elcc_surface_writes,
             project_reliability_prm_elcc_surface_results,
             project_reliability_prm_elcc_surface_imports)
  @@ "project.reliability.prm.group_costs" :>
       Parts(group_costs_model, group_costs_loads, group_costs_writes,
             group_costs_results, group_costs_imports)
  @@ "project.reliability.local_capacity" :>
       Parts(project_reliability_local_capacity_model,
             project_reliability_local_capacity_loads,
             project_reliability_local_capacity_writes, NoResults, {})
  @@ "project.reliability.local_capacity.local_capacity_contribution" :>
       Parts(local_capacity_contribution_model,
             local_capacity_contribution_loads,
             local_capacity_contribution_writes,
             local_capacity_contribution_results,
             local_capacity_contribution_imports)
  @@ "project.consolidate_results" :>
       Parts(NoModel, NoLoads, NoWrites, project_consolidate_results_results,
             {})
  @@ "project.summary_results" :>
       Parts(NoModel, NoLoads, NoWrites, summary_results_results,
             summary_results_imports)
  @@ "project.policy.policy_contribution" :>
       Parts(policy_contribution_model, policy_contribution_loads,
             policy_contribution_writes, policy_contribution_results,
             policy_contribution_imports)
  @@ "project.availability.availability_types.binary" :>
       Parts(binary_model, binary_loads, binary_writes, binary_results, {})
  @@ "project.availability.availability_types.continuous" :>
       Parts(continuous_model, continuous_loads, continuous_writes,
             continuous_results, {})
  @@ "project.availability.availability_types.exogenous" :>
       Parts(project_availability_availability_types_exogenous_model,
             project_availability_availability_types_exogenous_loads,
             project_availability_availability_types_exogenous_writes,
             NoResults, {})
  @@ "project.policy.compliance_types.f_output" :>
       Parts(f_output_model, f_output_loads, NoWrites, NoResults, {})
  @@ "project.policy.compliance_types.flat_horizon" :>
       Parts(NoModel, NoLoads, NoWrites, NoResults, {})
  @@ "project.policy.compliance_types.sod_exceedance" :>
       Parts(NoModel, sod_exceedance_loads, sod_exceedance_writes, NoResults,
             {})
  @@ "project.policy.compliance_types.sod_flat_block" :>
       Parts(NoModel, NoLoads, NoWrites, NoResults, {})
  @@ "project.policy.compliance_types.sod_stor" :>
       Parts(sod_stor_model, sod_stor_loads, NoWrites, NoResults, {})
  @@ "project.policy.compliance_types.stor_losses" :>
       Parts(stor_losses_model, NoLoads, NoWrites, NoResults, {})
  @@ "project.reliability.prm.prm_types.energy_only_allowed" :>
       Parts(energy_only_allowed_model, NoLoads, NoWrites,
             energy_only_allowed_results, energy_only_allowed_imports)
  @@ "project.reliability.prm.prm_types.fully_deliverable" :>
       Parts(fully_deliverable_model, NoLoads, NoWrites, NoResults, {})
  @@ "project.reliability.prm.prm_types.fully_deliverable_energy_limited" :>
       Parts(fully_deliverable_energy_limited_model,
             fully_deliverable_energy_limited_loads,
             fully_deliverable_energy_limited_writes, NoResults, {})

(* The functions the types offer to the modules that load them.                *)
ProjectFunctions ==
  "project.availability.availability_types.binary" :> binary_functions
  @@ "project.availability.availability_types.continuous" :>
       continuous_functions
  @@ "project.availability.availability_types.exogenous" :>
       project_availability_availability_types_exogenous_functions
  @@ "project.policy.compliance_types.f_output" :> f_output_functions
  @@ "project.policy.compliance_types.sod_exceedance" :>
       sod_exceedance_functions
  @@ "project.policy.compliance_types.sod_flat_block" :>
       sod_flat_block_functions
  @@ "project.policy.compliance_types.sod_stor" :> sod_stor_functions
  @@ "project.policy.compliance_types.stor_losses" :> stor_losses_functions
  @@ "project.reliability.prm.prm_types.energy_only_allowed" :>
       energy_only_allowed_functions
  @@ "project.reliability.prm.prm_types.fully_deliverable" :>
       fully_deliverable_functions
  @@ "project.reliability.prm.prm_types.fully_deliverable_energy_limited" :>
       fully_deliverable_energy_limited_functions
===============================================================================
