--------------------------- MODULE OperationalTypes ---------------------------
(* The operational types of projects: one loaded for each value of             *)
(* operational_type in projects.tab (src/gridpath/project/operations).         *)
EXTENDS GridPathModule

(* project.operations.operational_types.dispatchable_load. This operational    *)
(* type describes dispatchable loads.                                          *)
dispatchable_load_model ==
  [NoModel EXCEPT !.over = {"PRJ_OPR_TMPS", "PROJECTS"},
     !.reads = {"Availability_Derate", "Capacity_MW", "operational_type",
      "period"}]
dispatchable_load_functions ==
  [power_provision_rule |-> {},
   variable_om_cost_rule |-> {"variable_om_cost_per_mwh"},
   variable_om_by_period_cost_rule |-> {"period",
      "variable_om_cost_per_mwh_by_period"},
   variable_om_by_timepoint_cost_rule |->
      {"variable_om_cost_per_mwh_by_timepoint"},
   fuel_burn_rule |-> {"FUEL_PRJS", "fuel_burn_slope_mmbtu_per_mwh",
      "period"},
   power_delta_rule |-> {"balancing_type_project", "boundary",
      "first_hrz_tmp", "horizon", "prev_tmp"},
   capacity_providing_inertia_rule |-> {}]
dispatchable_load_loads == Loads({"projects.tab"}, {})

(* project.operations.operational_types.dr. .. note:: THIS MODULE IS           *)
(* DEPRECATED This operational type describes a demand response (DR) project   *)
(* that can shift load across timepoints, e.g.                                 *)
dr_model ==
  [NoModel EXCEPT !.over = {"PRJ_OPR_TMPS", "PROJECTS"},
     !.reads = {"Availability_Derate", "Capacity_MW",
      "Energy_Storage_Capacity_MWh", "TMPS_BY_BLN_TYPE_HRZ",
      "balancing_type_project", "first_hrz_tmp", "horizon", "hrs_in_tmp",
      "operational_type", "period"}]
dr_functions ==
  [power_provision_rule |-> {},
   power_delta_rule |-> {"balancing_type_project", "boundary",
      "first_hrz_tmp", "horizon", "prev_tmp"}]

(* project.operations.operational_types.energy_hrz_shaping. This operational   *)
(* type shapes energy on a horizon basis, based on min power, max power, and   *)
(* total energy for the horizon.                                               *)
energy_hrz_shaping_model ==
  [NoModel EXCEPT !.over = {"MONTHS", "PERIODS", "PRJ_OPR_PRDS",
      "PRJ_OPR_TMPS", "PROJECTS"},
     !.reads = {"Energy_MWh", "TMPS_BY_BLN_TYPE_HRZ", "TMPS_IN_PRD",
      "balancing_type_project", "horizon", "hrs_in_tmp", "hrz_period",
      "month", "operational_type", "period", "tmp_weight"}]
energy_hrz_shaping_functions ==
  [peak_deviation_monthly_demand_charge_cost_rule |-> {},
   power_provision_rule |-> {},
   power_delta_rule |-> {"balancing_type_project", "boundary",
      "first_hrz_tmp", "horizon", "prev_tmp"}]
energy_hrz_shaping_loads == Loads({"energy_hrz_shaping_params.tab",
    "projects.tab"}, {})
energy_hrz_shaping_writes == Writes({}, {"energy_hrz_shaping_params.tab"}, {})
energy_hrz_shaping_results ==
  [NoResults EXCEPT !.hands =
      {"energy_hrz_shaping_linked_timepoint_params.tab"}]

(* project.operations.operational_types.energy_load_following                  *)
energy_load_following_model ==
  [NoModel EXCEPT !.declares = {"EnergyLoadFollowing_LZ_Load_in_Tmp"},
     !.over = {"MONTHS", "PERIODS", "PRJ_OPR_PRDS", "PRJ_OPR_TMPS",
      "PROJECTS"},
     !.reads = {"Energy_MWh", "TMPS_IN_PRD", "hrs_in_tmp", "month",
      "operational_type", "period", "tmp_weight"}]
energy_load_following_functions ==
  [power_provision_rule |-> {},
   peak_deviation_monthly_demand_charge_cost_rule |-> {},
   power_delta_rule |-> {"balancing_type_project", "boundary",
      "first_hrz_tmp", "horizon", "prev_tmp"}]
energy_load_following_loads ==
    Loads({"energy_load_following_base_net_requirements.tab", "projects.tab"},
    {"energy_hrz_shaping_linked_timepoint_params.tab",
    "energy_load_following_peak_deviation_demand_charges.tab"})
energy_load_following_writes == Writes({},
    {"energy_load_following_base_net_requirements.tab",
    "energy_load_following_peak_deviation_demand_charges.tab"}, {})

(* project.operations.operational_types.energy_profile                         *)
energy_profile_model ==
  [NoModel EXCEPT !.over = {"MONTHS", "PERIODS", "PRJ_OPR_PRDS",
      "PRJ_OPR_TMPS", "PROJECTS"},
     !.reads = {"Energy_MWh", "TMPS_IN_PRD", "hrs_in_tmp", "month",
      "operational_type", "period", "tmp_weight"},
     !.readsFor = {<<"project.capacity.capacity_types.energy_spec",
      "shaping_capacity_mw">>},
     !.takes = {"footroom_variables", "headroom_variables"}]
energy_profile_functions ==
  [power_provision_rule |-> {},
   peak_deviation_monthly_demand_charge_cost_rule |-> {},
   power_delta_rule |-> {"Energy_MWh", "balancing_type_project", "boundary",
      "first_hrz_tmp", "horizon", "hrs_in_tmp", "period", "prev_tmp",
      "tmp_weight"}]
energy_profile_loads == Loads({"energy_profiles.tab", "projects.tab"}, {})
energy_profile_writes == Writes({}, {"energy_profiles.tab"}, {})

(* project.operations.operational_types.energy_slice_hrz_shaping. This         *)
(* operational type shapes energy on a horizon basis based on a min, max,      *)
(* average energy and its slice of the full potential of a project.            *)
energy_slice_hrz_shaping_model ==
  [NoModel EXCEPT !.over = {"MONTHS", "PERIODS", "PRJ_OPR_PRDS",
      "PRJ_OPR_TMPS", "PROJECTS"},
     !.reads = {"Energy_MWh", "TMPS_BY_BLN_TYPE_HRZ", "TMPS_IN_PRD",
      "balancing_type_project", "horizon", "hrs_in_tmp", "hrz_period",
      "max_total_energy", "month", "operational_type", "period",
      "tmp_weight"}]
energy_slice_hrz_shaping_functions ==
  [power_provision_rule |-> {},
   peak_deviation_monthly_demand_charge_cost_rule |-> {},
   power_delta_rule |-> {"balancing_type_project", "boundary",
      "first_hrz_tmp", "horizon", "prev_tmp"}]
energy_slice_hrz_shaping_loads ==
    Loads({"energy_slice_hrz_shaping_params.tab", "projects.tab"}, {})
energy_slice_hrz_shaping_writes == Writes({},
    {"energy_slice_hrz_shaping_params.tab"}, {})
energy_slice_hrz_shaping_results ==
  [NoResults EXCEPT !.hands =
      {"energy_slice_hrz_shaping_linked_timepoint_params.tab"}]

(* project.operations.operational_types.flex_load. This operational type       *)
(* describes a battery-based model for a flexible load resource.               *)
flex_load_model ==
  [NoModel EXCEPT !.over = {"PRJ_OPR_TMPS", "PROJECTS"},
     !.reads = {"Availability_Derate", "Capacity_MW",
      "balancing_type_project", "boundary", "first_hrz_tmp", "horizon",
      "hrs_in_linked_tmp", "hrs_in_tmp", "operational_type", "period",
      "prev_tmp"}]
flex_load_functions ==
  [power_provision_rule |-> {},
   power_delta_rule |-> {"balancing_type_project", "boundary",
      "first_hrz_tmp", "horizon", "prev_tmp"}]
flex_load_loads == Loads({"flex_load_profiles.tab", "projects.tab"},
    {"flex_load_linked_timepoint_params.tab"})
flex_load_writes == Writes({}, {"flex_load_profiles.tab"}, {})
flex_load_results ==
  [NoResults EXCEPT !.returns = Cols("project_timepoint_df", {"charge_mw",
      "discharge_mw", "flex_load_mw", "starting_energy_mwh",
      "static_load_mw"}),
     !.hands = {"flex_load_linked_timepoint_params.tab"}]

(* project.operations.operational_types.fuel_prod. This operational type       *)
(* describes the operational constraints on fuel production facilities.        *)
fuel_prod_model ==
  [NoModel EXCEPT !.over = {"PRJ_OPR_TMPS", "PROJECTS"},
     !.reads = {"Availability_Derate",
      "Fuel_Production_Capacity_FuelUnitPerHour",
      "Fuel_Release_Capacity_FuelUnitPerHour",
      "Fuel_Storage_Capacity_FuelUnit", "balancing_type_project", "boundary",
      "first_hrz_tmp", "horizon", "hrs_in_tmp", "operational_type", "period",
      "prev_tmp"}]
fuel_prod_functions ==
  [power_provision_rule |-> {},
   variable_om_cost_rule |-> {"variable_om_cost_per_mwh"},
   variable_om_by_period_cost_rule |-> {"period",
      "variable_om_cost_per_mwh_by_period"},
   variable_om_by_timepoint_cost_rule |->
      {"variable_om_cost_per_mwh_by_timepoint"},
   fuel_contribution_rule |-> {},
   power_delta_rule |-> {"balancing_type_project", "boundary",
      "first_hrz_tmp", "horizon", "prev_tmp"}]
fuel_prod_loads == Loads({"projects.tab"}, {})
fuel_prod_results ==
  [NoResults EXCEPT !.returns = Cols("project_timepoint_df",
      {"fuel_in_storage_fuelunit", "fuel_prod_power_consumption_powerunit",
      "produce_fuel_fuelunitperhour", "release_fuel_fuelunitperhour"})]

(* project.operations.operational_types.gen_always_on. This module describes   *)
(* the operations of generation projects that that must produce power in all   *)
(* timepoints they are available; unlike the must-run generators, however,     *)
(* they can vary power output between a pre-specified minimum stable level     *)
(* (greater than 0) and their available capacity.                              *)
gen_always_on_model ==
  [NoModel EXCEPT !.over = {"PRJ_OPR_TMPS", "PROJECTS"},
     !.reads = {"Availability_Derate", "Capacity_MW",
      "balancing_type_project", "boundary", "first_hrz_tmp", "horizon",
      "hrs_in_linked_tmp", "hrs_in_tmp", "operational_type", "period",
      "prev_tmp"},
     !.takes = {"footroom_variables", "headroom_variables"}]
gen_always_on_functions ==
  [power_provision_rule |-> {},
   fuel_burn_by_ll_rule |-> {"Availability_Derate", "Capacity_MW",
      "fuel_burn_intercept_mmbtu_per_mw_hr", "fuel_burn_slope_mmbtu_per_mwh",
      "period"},
   variable_om_cost_by_ll_rule |-> {"Availability_Derate", "Capacity_MW",
      "period", "vom_intercept_cost_per_mw_hr", "vom_slope_cost_per_mwh"},
   power_delta_rule |-> {"balancing_type_project", "boundary",
      "first_hrz_tmp", "horizon", "prev_tmp"},
   capacity_providing_inertia_rule |-> {"Availability_Derate", "Capacity_MW",
      "period"}]
gen_always_on_loads == Loads({"projects.tab"},
    {"gen_always_on_linked_timepoint_params.tab"})
gen_always_on_results ==
  [NoResults EXCEPT !.returns = Cols("project_timepoint_df",
      {"auxiliary_consumption_mw", "gross_power_mw"}),
     !.hands = {"gen_always_on_linked_timepoint_params.tab"}]

(* project.operations.operational_types.gen_commit_bin. This operational       *)
(* types describes generation projects that can be turned on and off, i.e.     *)
gen_commit_bin_model ==
  [NoModel EXCEPT !.declares = {"GEN_COMMIT_BIN"},
     !.over = {"BLN_TYPE_HRZS", "PRJ_OPR_TMPS", "PROJECTS"},
     !.reads = {"Availability_Derate", "Capacity_MW",
      "MIN_DOWN_TIME_VIOL_PRJS", "MIN_UP_TIME_VIOL_PRJS",
      "RAMP_DOWN_VIOL_PRJS", "RAMP_UP_VIOL_PRJS", "STARTUP_BY_ST_PRJS",
      "STARTUP_BY_ST_PRJS_TYPES", "TMPS_BY_BLN_TYPE_HRZ", "availability_type",
      "balancing_type_project", "boundary", "capacity_type", "first_hrz_tmp",
      "furthest_linked_tmp", "horizon", "hrs_in_linked_tmp", "hrs_in_tmp",
      "last_hrz_tmp", "operational_type", "period", "prev_tmp"},
     !.readsFor = {<<"project.availability.availability_types.exogenous",
      "avl_exog_cap_derate_independent">>,
      <<"project.availability.availability_types.exogenous",
      "avl_exog_cap_derate_weather">>},
     !.takes = {"footroom_variables", "headroom_variables"}]
gen_commit_bin_functions ==
  [power_provision_rule |-> {},
   commitment_rule |-> {},
   online_capacity_rule |-> {},
   variable_om_cost_rule |-> {"variable_om_cost_per_mwh"},
   variable_om_by_period_cost_rule |-> {"period",
      "variable_om_cost_per_mwh_by_period"},
   variable_om_by_timepoint_cost_rule |->
      {"variable_om_cost_per_mwh_by_timepoint"},
   variable_om_cost_by_ll_rule |-> {"period", "vom_intercept_cost_per_mw_hr",
      "vom_slope_cost_per_mwh"},
   startup_cost_simple_rule |-> {"startup_cost_per_mw"},
   startup_cost_by_st_rule |-> {"startup_cost_by_st_per_mw"},
   shutdown_cost_rule |-> {"shutdown_cost_per_mw"},
   fuel_burn_by_ll_rule |-> {"fuel_burn_intercept_mmbtu_per_mw_hr",
      "fuel_burn_slope_mmbtu_per_mwh", "period"},
   startup_fuel_burn_rule |-> {"startup_fuel_mmbtu_per_mw"},
   power_delta_rule |-> {"balancing_type_project", "boundary",
      "first_hrz_tmp", "horizon", "prev_tmp"},
   fix_commitment |-> {"fixed_commitment", "prev_stage_tmp_map"},
   operational_violation_cost_rule |-> {"min_down_time_violation_penalty",
      "min_up_time_violation_penalty", "ramp_down_violation_penalty",
      "ramp_up_violation_penalty"},
   capacity_providing_inertia_rule |-> {}]
gen_commit_bin_loads == Loads({"projects.tab"},
    {"gen_commit_bin_linked_timepoint_params.tab",
    "gen_commit_bin_linked_timepoint_str_type_params.tab",
    "startup_chars.tab", "startup_limits.tab"})
gen_commit_bin_results ==
  [NoResults EXCEPT !.returns = Cols("project_timepoint_df",
      {"active_startup_type", "auxiliary_consumption_mw", "committed_mw",
      "committed_units", "gross_power_mw", "min_down_time_violation",
      "min_up_time_violation", "net_power_mw", "ramp_down_violation",
      "ramp_up_violation", "started_units", "stopped_units", "synced_units"}),
     !.hands = {"gen_commit_bin_linked_timepoint_params.tab",
      "gen_commit_bin_linked_timepoint_str_type_params.tab"}]

(* project.operations.operational_types.gen_commit_cap. This module            *)
(* describes the operations of generation projects with 'capacity              *)
(* commitment' operational decisions, i.e.                                     *)
gen_commit_cap_model ==
  [NoModel EXCEPT !.over = {"PRJ_OPR_TMPS", "PROJECTS"},
     !.reads = {"Availability_Derate", "Capacity_MW",
      "balancing_type_project", "boundary", "first_hrz_tmp",
      "furthest_linked_tmp", "horizon", "hrs_in_linked_tmp", "hrs_in_tmp",
      "operational_type", "period", "prev_tmp"},
     !.takes = {"footroom_variables", "headroom_variables"}]
gen_commit_cap_functions ==
  [power_provision_rule |-> {},
   commitment_rule |-> {},
   online_capacity_rule |-> {},
   fuel_burn_by_ll_rule |-> {"fuel_burn_intercept_mmbtu_per_mw_hr",
      "fuel_burn_slope_mmbtu_per_mwh", "period"},
   variable_om_cost_rule |-> {"variable_om_cost_per_mwh"},
   variable_om_by_period_cost_rule |-> {"period",
      "variable_om_cost_per_mwh_by_period"},
   variable_om_by_timepoint_cost_rule |->
      {"variable_om_cost_per_mwh_by_timepoint"},
   variable_om_cost_by_ll_rule |-> {"period", "vom_intercept_cost_per_mw_hr",
      "vom_slope_cost_per_mwh"},
   startup_cost_simple_rule |-> {"startup_cost_per_mw"},
   shutdown_cost_rule |-> {"shutdown_cost_per_mw"},
   startup_fuel_burn_rule |-> {"startup_fuel_mmbtu_per_mw"},
   power_delta_rule |-> {"balancing_type_project", "boundary",
      "first_hrz_tmp", "horizon", "prev_tmp"},
   capacity_providing_inertia_rule |-> {},
   fix_commitment |-> {"fixed_commitment", "prev_stage_tmp_map"}]
gen_commit_cap_loads == Loads({"projects.tab"},
    {"gen_commit_cap_linked_timepoint_params.tab"})
gen_commit_cap_results ==
  [NoResults EXCEPT !.returns = Cols("project_timepoint_df",
      {"auxiliary_consumption_mw", "committed_mw", "committed_units",
      "gross_power_mw", "net_power_mw"}),
     !.hands = {"gen_commit_cap_linked_timepoint_params.tab"}]

(* project.operations.operational_types.gen_commit_lin. This operational       *)
(* type is the same as the gen_commit_bin operational type, but the            *)
(* commitment decisions are declared as continuous (with bounds of 0 to 1)     *)
(* instead of binary, so 'partial' generators can be committed.                *)
gen_commit_lin_model ==
  [NoModel EXCEPT !.declares = {"GEN_COMMIT_LIN", "GenCommitLin_Commit",
      "GenCommitLin_Synced"},
     !.over = {"BLN_TYPE_HRZS", "PRJ_OPR_TMPS", "PROJECTS"},
     !.reads = {"Availability_Derate", "Capacity_MW",
      "MIN_DOWN_TIME_VIOL_PRJS", "MIN_UP_TIME_VIOL_PRJS",
      "RAMP_DOWN_VIOL_PRJS", "RAMP_UP_VIOL_PRJS", "STARTUP_BY_ST_PRJS",
      "STARTUP_BY_ST_PRJS_TYPES", "TMPS_BY_BLN_TYPE_HRZ", "availability_type",
      "balancing_type_project", "boundary", "capacity_type", "first_hrz_tmp",
      "furthest_linked_tmp", "horizon", "hrs_in_linked_tmp", "hrs_in_tmp",
      "last_hrz_tmp", "operational_type", "period", "prev_tmp"},
     !.readsFor = {<<"project.availability.availability_types.exogenous",
      "avl_exog_cap_derate_independent">>,
      <<"project.availability.availability_types.exogenous",
      "avl_exog_cap_derate_weather">>},
     !.takes = {"footroom_variables", "headroom_variables"}]
gen_commit_lin_functions ==
  [power_provision_rule |-> {},
   commitment_rule |-> {},
   online_capacity_rule |-> {},
   variable_om_cost_rule |-> {"variable_om_cost_per_mwh"},
   variable_om_by_period_cost_rule |-> {"period",
      "variable_om_cost_per_mwh_by_period"},
   variable_om_by_timepoint_cost_rule |->
      {"variable_om_cost_per_mwh_by_timepoint"},
   variable_om_cost_by_ll_rule |-> {"period", "vom_intercept_cost_per_mw_hr",
      "vom_slope_cost_per_mwh"},
   startup_cost_simple_rule |-> {"startup_cost_per_mw"},
   startup_cost_by_st_rule |-> {"startup_cost_by_st_per_mw"},
   shutdown_cost_rule |-> {"shutdown_cost_per_mw"},
   fuel_burn_by_ll_rule |-> {"fuel_burn_intercept_mmbtu_per_mw_hr",
      "fuel_burn_slope_mmbtu_per_mwh", "period"},
   startup_fuel_burn_rule |-> {"startup_fuel_mmbtu_per_mw"},
   power_delta_rule |-> {"balancing_type_project", "boundary",
      "first_hrz_tmp", "horizon", "prev_tmp"},
   fix_commitment |-> {"fixed_commitment", "prev_stage_tmp_map"},
   operational_violation_cost_rule |-> {"min_down_time_violation_penalty",
      "min_up_time_violation_penalty", "ramp_down_violation_penalty",
      "ramp_up_violation_penalty"},
   capacity_providing_inertia_rule |-> {}]
gen_commit_lin_loads == Loads({"projects.tab"},
    {"gen_commit_lin_linked_timepoint_params.tab",
    "gen_commit_lin_linked_timepoint_str_type_params.tab",
    "startup_chars.tab", "startup_limits.tab"})
gen_commit_lin_results ==
  [NoResults EXCEPT !.returns = Cols("project_timepoint_df",
      {"active_startup_type", "auxiliary_consumption_mw", "committed_mw",
      "committed_units", "gross_power_mw", "min_down_time_violation",
      "min_up_time_violation", "net_power_mw", "ramp_down_violation",
      "ramp_up_violation", "started_units", "stopped_units", "synced_units"}),
     !.hands = {"gen_commit_lin_linked_timepoint_params.tab",
      "gen_commit_lin_linked_timepoint_str_type_params.tab"}]

(* project.operations.operational_types.gen_hydro. This operational type       *)
(* describes the operations of hydro generation projects.                      *)
gen_hydro_model ==
  [NoModel EXCEPT !.over = {"PRJ_OPR_TMPS", "PROJECTS"},
     !.reads = {"Availability_Derate", "Capacity_MW", "TMPS_BY_BLN_TYPE_HRZ",
      "balancing_type_project", "boundary", "first_hrz_tmp", "horizon",
      "hrs_in_linked_tmp", "hrs_in_tmp", "operational_type", "period",
      "prev_tmp"},
     !.takes = {"footroom_variables", "headroom_variables"}]
gen_hydro_functions ==
  [power_provision_rule |-> {},
   variable_om_cost_rule |-> {"variable_om_cost_per_mwh"},
   variable_om_by_period_cost_rule |-> {"period",
      "variable_om_cost_per_mwh_by_period"},
   variable_om_by_timepoint_cost_rule |->
      {"variable_om_cost_per_mwh_by_timepoint"},
   scheduled_curtailment_rule |-> {},
   curtailment_cost_rule |-> {"CURTAILMENT_COST_PRJ_PRDS",
      "curtailment_cost_per_powerunithour", "period"},
   power_delta_rule |-> {"balancing_type_project", "boundary",
      "first_hrz_tmp", "horizon", "prev_tmp"},
   capacity_providing_inertia_rule |-> {}]
gen_hydro_loads == Loads({"hydro_conventional_horizon_params.tab",
    "projects.tab"}, {"gen_hydro_linked_timepoint_params.tab"})
gen_hydro_writes == Writes({}, {"hydro_conventional_horizon_params.tab"}, {})
gen_hydro_results ==
  [NoResults EXCEPT !.returns = Cols("project_timepoint_df",
      {"auxiliary_consumption_mw", "gross_power_mw",
      "scheduled_curtailment_mw"}),
     !.hands = {"gen_hydro_linked_timepoint_params.tab"}]

(* project.operations.operational_types.gen_hydro_must_take. This              *)
(* operational type describes the operations of hydro generation projects      *)
(* and is like the gen_hydro operational type except that the power output     *)
(* is must-take, i.e.                                                          *)
gen_hydro_must_take_model ==
  [NoModel EXCEPT !.over = {"MONTHS", "PRJ_OPR_PRDS", "PRJ_OPR_TMPS",
      "PROJECTS"},
     !.reads = {"Availability_Derate", "Capacity_MW", "TMPS_BY_BLN_TYPE_HRZ",
      "balancing_type_project", "boundary", "first_hrz_tmp", "horizon",
      "hrs_in_linked_tmp", "hrs_in_tmp", "month", "operational_type",
      "period", "prev_tmp"},
     !.takes = {"footroom_variables", "headroom_variables"}]
gen_hydro_must_take_functions ==
  [power_provision_rule |-> {},
   power_delta_rule |-> {"balancing_type_project", "boundary",
      "first_hrz_tmp", "horizon", "prev_tmp"},
   capacity_providing_inertia_rule |-> {}]
gen_hydro_must_take_loads == Loads({"hydro_conventional_horizon_params.tab",
    "projects.tab"}, {"gen_hydro_must_take_linked_timepoint_params.tab",
    "gen_hydro_must_take_ramp_down_rate_monthly_adjustments.tab",
    "gen_hydro_must_take_ramp_up_rate_monthly_adjustments.tab"})
gen_hydro_must_take_writes == Writes({},
    {"gen_hydro_must_take_ramp_down_rate_monthly_adjustments.tab",
    "gen_hydro_must_take_ramp_up_rate_monthly_adjustments.tab",
    "hydro_conventional_horizon_params.tab"}, {})
gen_hydro_must_take_results ==
  [NoResults EXCEPT !.returns = Cols("project_timepoint_df",
      {"auxiliary_consumption_mw", "gross_power_mw"}),
     !.hands = {"gen_hydro_must_take_linked_timepoint_params.tab"}]

(* project.operations.operational_types.gen_hydro_water. This operational      *)
(* type describes the operations of hydro generation projects.                 *)
gen_hydro_water_model ==
  [NoModel EXCEPT !.over = {"BLN_TYPE_HRZS", "POWERHOUSES", "PRJ_OPR_TMPS",
      "PROJECTS"},
     !.reads = {"Availability_Derate", "Capacity_MW",
      "Powerhouse_Output_by_Generator", "TMPS_BY_BLN_TYPE_HRZ",
      "balancing_type_project", "boundary", "first_hrz_tmp", "horizon",
      "hrs_in_linked_tmp", "hrs_in_tmp", "operational_type", "period",
      "prev_tmp"},
     !.takes = {"footroom_variables", "headroom_variables"}]
gen_hydro_water_functions ==
  [power_provision_rule |-> {},
   variable_om_cost_rule |-> {"variable_om_cost_per_mwh"},
   variable_om_by_period_cost_rule |-> {"period",
      "variable_om_cost_per_mwh_by_period"},
   variable_om_by_timepoint_cost_rule |->
      {"variable_om_cost_per_mwh_by_timepoint"},
   power_delta_rule |-> {"balancing_type_project", "boundary",
      "first_hrz_tmp", "horizon", "prev_tmp"},
   capacity_providing_inertia_rule |-> {}]
gen_hydro_water_loads == Loads({"projects.tab"},
    {"gen_hydro_water_bt_hrz_ramp_down_rate_limits.tab",
    "gen_hydro_water_bt_hrz_ramp_up_rate_limits.tab",
    "gen_hydro_water_total_ramp_down_limits.tab",
    "gen_hydro_water_total_ramp_up_limits.tab"})
gen_hydro_water_writes == Writes({},
    {"gen_hydro_water_bt_hrz_ramp_down_rate_limits.tab",
    "gen_hydro_water_bt_hrz_ramp_up_rate_limits.tab",
    "gen_hydro_water_total_ramp_down_limits.tab",
    "gen_hydro_water_total_ramp_up_limits.tab"}, {})
gen_hydro_water_results ==
  [NoResults EXCEPT !.returns = Cols("project_timepoint_df", {"power_mw"})]

(* project.operations.operational_types.gen_must_run. This operational type    *)
(* describes must-run generators that produce constant power equal to their    *)
(* capacity in all timepoints when they are available.                         *)
gen_must_run_model ==
  [NoModel EXCEPT !.over = {"PRJ_OPR_TMPS", "PROJECTS"},
     !.reads = {"Availability_Derate", "Capacity_MW", "operational_type",
      "period"},
     !.takes = {"footroom_variables", "headroom_variables"}]
gen_must_run_functions ==
  [power_provision_rule |-> {"Availability_Derate", "Capacity_MW", "period"},
   fuel_burn_rule |-> {"Availability_Derate", "Capacity_MW",
      "fuel_burn_slope_mmbtu_per_mwh", "period"},
   power_delta_rule |-> {},
   capacity_providing_inertia_rule |-> {"Availability_Derate", "Capacity_MW",
      "period"}]
gen_must_run_loads == Loads({"projects.tab"}, {})
gen_must_run_results ==
  [NoResults EXCEPT !.returns = Cols("project_timepoint_df",
      {"auxiliary_consumption_mw", "gross_power_mw"})]

(* Bug: Only headroom is limited.                                             *)
gen_simple_model_NoFootroom ==
  [NoModel EXCEPT !.over = {"PRJ_OPR_TMPS", "PROJECTS"},
     !.reads = {"Availability_Derate", "Capacity_MW",
      "balancing_type_project", "boundary", "first_hrz_tmp", "horizon",
      "hrs_in_linked_tmp", "hrs_in_tmp", "operational_type", "period",
      "prev_tmp"},
     !.takes = {"headroom_variables"}]

(* project.operations.operational_types.gen_simple. This operational type      *)
(* describes generators that can vary their output between zero and full       *)
(* capacity in every timepoint in which they are available (i.e.               *)
gen_simple_model ==
  [NoModel EXCEPT !.over = {"PRJ_OPR_TMPS", "PROJECTS"},
     !.reads = {"Availability_Derate", "Capacity_MW",
      "balancing_type_project", "boundary", "first_hrz_tmp", "horizon",
      "hrs_in_linked_tmp", "hrs_in_tmp", "operational_type", "period",
      "prev_tmp"},
     !.takes = {"footroom_variables", "headroom_variables"}]
(* Bug: Without its power delta.                                              *)
gen_simple_functions_NoDelta ==
  [power_provision_rule |-> {},
   fuel_burn_rule |-> {"fuel_burn_slope_mmbtu_per_mwh", "period"},
   capacity_providing_inertia_rule |-> {}]
gen_simple_functions ==
  [power_provision_rule |-> {},
   fuel_burn_rule |-> {"fuel_burn_slope_mmbtu_per_mwh", "period"},
   power_delta_rule |-> {"balancing_type_project", "boundary",
      "first_hrz_tmp", "horizon", "prev_tmp"},
   capacity_providing_inertia_rule |-> {}]
gen_simple_loads == Loads({"projects.tab"},
    {"gen_simple_linked_timepoint_params.tab"})
gen_simple_results ==
  [NoResults EXCEPT !.hands = {"gen_simple_linked_timepoint_params.tab"}]

(* project.operations.operational_types.gen_simple_energy_limited. This        *)
(* operational type describes generators that can vary their output between    *)
(* zero and full capacity in every timepoint in which they are available       *)
(* (i.e.                                                                       *)
gen_simple_energy_limited_model ==
  [NoModel EXCEPT !.over = {"PRJ_OPR_TMPS", "PROJECTS"},
     !.reads = {"Availability_Derate", "Capacity_MW",
      "balancing_type_project", "boundary", "first_hrz_tmp", "horizon",
      "hrs_in_linked_tmp", "hrs_in_tmp", "operational_type", "period",
      "prev_tmp"},
     !.takes = {"footroom_variables", "headroom_variables"}]
gen_simple_energy_limited_functions ==
  [energy_limit_in_period_constraint_rule |-> {"Energy_MWh", "TMPS_IN_PRD",
      "hrs_in_tmp", "tmp_weight"},
   power_provision_rule |-> {},
   fuel_burn_rule |-> {"fuel_burn_slope_mmbtu_per_mwh", "period"},
   power_delta_rule |-> {"balancing_type_project", "boundary",
      "first_hrz_tmp", "horizon", "prev_tmp"},
   capacity_providing_inertia_rule |-> {}]
gen_simple_energy_limited_loads == Loads({"projects.tab"},
    {"gen_simple_energy_limited_linked_timepoint_params.tab"})
gen_simple_energy_limited_results ==
  [NoResults EXCEPT !.hands =
      {"gen_simple_energy_limited_linked_timepoint_params.tab"}]

(* project.operations.operational_types.gen_simple_no_load_balance_power.      *)
(* This operational type describes generators that can vary their output       *)
(* between zero and full capacity in every timepoint in which they are         *)
(* available (i.e.                                                             *)
gen_simple_no_load_balance_power_model ==
  [NoModel EXCEPT !.over = {"PRJ_OPR_TMPS", "PROJECTS"},
     !.reads = {"Availability_Derate", "Capacity_MW", "operational_type",
      "period"},
     !.takes = {"footroom_variables", "headroom_variables"}]
gen_simple_no_load_balance_power_functions ==
  [power_provision_rule |-> {},
   policy_power_provision_rule |-> {},
   variable_om_cost_rule |-> {"variable_om_cost_per_mwh"},
   variable_om_by_period_cost_rule |-> {"period",
      "variable_om_cost_per_mwh_by_period"},
   variable_om_by_timepoint_cost_rule |->
      {"variable_om_cost_per_mwh_by_timepoint"},
   power_delta_rule |-> {"balancing_type_project", "boundary",
      "first_hrz_tmp", "horizon", "prev_tmp"},
   capacity_providing_inertia_rule |-> {}]
gen_simple_no_load_balance_power_loads == Loads({"projects.tab"}, {})

(* project.operations.operational_types.gen_var. This operational type         *)
(* describes generator projects whose power output is equal to a pre-          *)
(* specified fraction of their available capacity (a capacity factor           *)
(* parameter) in every timepoint, e.g.                                         *)
gen_var_model ==
  [NoModel EXCEPT !.over = {"PRJ_OPR_TMPS", "PROJECTS"},
     !.reads = {"Availability_Derate", "Capacity_MW", "operational_type",
      "period"},
     !.takes = {"footroom_variables", "headroom_variables",
      "reserve_to_energy_adjustment_params",
      "reserve_variable_derate_params"}]
gen_var_functions ==
  [power_provision_rule |-> {},
   variable_om_cost_rule |-> {"Availability_Derate", "Capacity_MW", "period",
      "variable_om_cost_per_mwh"},
   variable_om_by_period_cost_rule |-> {"Availability_Derate", "Capacity_MW",
      "period", "variable_om_cost_per_mwh_by_period"},
   variable_om_by_timepoint_cost_rule |-> {"Availability_Derate",
      "Capacity_MW", "period", "variable_om_cost_per_mwh_by_timepoint"},
   scheduled_curtailment_rule |-> {},
   subhourly_curtailment_rule |-> {},
   subhourly_energy_delivered_rule |-> {},
   curtailment_cost_rule |-> {"CURTAILMENT_COST_PRJ_PRDS",
      "curtailment_cost_per_powerunithour", "period"},
   power_delta_rule |-> {"Availability_Derate", "Capacity_MW",
      "balancing_type_project", "boundary", "first_hrz_tmp", "horizon",
      "period", "prev_tmp"},
   capacity_providing_inertia_rule |-> {"Availability_Derate", "Capacity_MW",
      "period"}]
gen_var_loads == Loads({"projects.tab", "variable_generator_profiles.tab"},
    {})
gen_var_writes == Writes({}, {"variable_generator_profiles.tab"}, {})
gen_var_results ==
  [NoResults EXCEPT !.returns = Cols("project_timepoint_df",
      {"scheduled_curtailment_mw", "subhourly_curtailment_mw",
      "subhourly_energy_delivered_mw", "total_curtailment_mw"})]

(* project.operations.operational_types.gen_var_must_take. This operational    *)
(* type is like the gen_var type with two main differences.                    *)
gen_var_must_take_model ==
  [NoModel EXCEPT !.over = {"PRJ_OPR_TMPS", "PROJECTS"},
     !.reads = {"operational_type"},
     !.takes = {"footroom_variables", "headroom_variables"}]
gen_var_must_take_functions ==
  [power_provision_rule |-> {"Availability_Derate", "Capacity_MW", "period"},
   power_delta_rule |-> {"Availability_Derate", "Capacity_MW",
      "balancing_type_project", "boundary", "first_hrz_tmp", "horizon",
      "period", "prev_tmp"},
   capacity_providing_inertia_rule |-> {"Availability_Derate", "Capacity_MW",
      "period"}]
gen_var_must_take_loads == Loads({"projects.tab",
    "variable_generator_profiles.tab"}, {})
gen_var_must_take_writes == Writes({}, {"variable_generator_profiles.tab"},
    {})

(* project.operations.operational_types.gen_var_stor_hyb. This operational     *)
(* type describes a tightly-coupled variable resource and storage hybrid       *)
(* project, e.g.                                                               *)
gen_var_stor_hyb_model ==
  [NoModel EXCEPT !.over = {"PRJ_OPR_TMPS", "PROJECTS"},
     !.reads = {"Availability_Derate", "Availability_Hyb_Stor_Cap_Derate",
      "Capacity_MW", "Energy_Storage_Capacity_MWh", "Hyb_Gen_Capacity_MW",
      "Hyb_Stor_Capacity_MW", "balancing_type_project", "boundary",
      "capacity_type", "first_hrz_tmp", "gen_var_stor_hyb_linked_charge",
      "gen_var_stor_hyb_linked_discharge",
      "gen_var_stor_hyb_linked_starting_energy_in_storage", "horizon",
      "hrs_in_linked_tmp", "hrs_in_tmp", "operational_type", "period",
      "prev_tmp"},
     !.readsFor = {<<"project.availability.availability_types.exogenous",
      "avl_exog_cap_derate_independent">>,
      <<"project.availability.availability_types.exogenous",
      "avl_exog_cap_derate_weather">>,
      <<"project.capacity.capacity_types.stor_spec",
      "stor_spec_energy_capacity_mwh">>},
     !.takes = {"footroom_variables", "headroom_variables",
      "reserve_to_energy_adjustment_params",
      "reserve_variable_derate_params"}]
gen_var_stor_hyb_functions ==
  [power_provision_rule |-> {},
   variable_om_cost_rule |-> {"variable_om_cost_per_mwh"},
   variable_om_by_period_cost_rule |-> {"period",
      "variable_om_cost_per_mwh_by_period"},
   variable_om_by_timepoint_cost_rule |->
      {"variable_om_cost_per_mwh_by_timepoint"},
   scheduled_curtailment_rule |-> {},
   subtimepoint_curtailment_rule |-> {},
   subtimepoint_energy_delivered_rule |-> {},
   curtailment_cost_rule |-> {"CURTAILMENT_COST_PRJ_PRDS",
      "curtailment_cost_per_powerunithour", "period"},
   power_delta_rule |-> {"balancing_type_project", "boundary",
      "first_hrz_tmp", "horizon", "prev_tmp"},
   capacity_providing_inertia_rule |-> {"Availability_Derate", "Capacity_MW",
      "period"}]
gen_var_stor_hyb_loads == Loads({"projects.tab",
    "variable_generator_profiles.tab"}, {})
gen_var_stor_hyb_writes == Writes({}, {"variable_generator_profiles.tab"}, {})
gen_var_stor_hyb_results ==
  [NoResults EXCEPT !.returns = Cols("project_timepoint_df",
      {"hyb_storage_charge_mw", "hyb_storage_discharge_mw",
      "scheduled_curtailment_mw", "subhourly_curtailment_mw",
      "subhourly_energy_delivered_mw", "total_curtailment_mw"})]

(* project.operations.operational_types.load_component_modifier. This          *)
(* operational type is linked to a specific load component that it modifies    *)
(* based on 1) the project capacity relative to the load component peak load   *)
(* and 2) a load modification profile (fractional reduction or increase);      *)
(* positive values indicate a load reduction and negative values indicate a    *)
(* load increase.                                                              *)
load_component_modifier_model ==
  [NoModel EXCEPT !.over = {"PRJ_OPR_PRDS", "PRJ_OPR_TMPS", "PROJECTS"},
     !.reads = {"Capacity_MW", "TMPS_IN_PRD", "component_static_load_mw",
      "load_zone", "operational_type"},
     !.takes = {"footroom_variables", "headroom_variables"}]
load_component_modifier_functions ==
  [power_provision_rule |-> {"Availability_Derate",
      "component_static_load_mw", "load_zone", "period"},
   power_delta_rule |-> {"Availability_Derate", "balancing_type_project",
      "boundary", "component_static_load_mw", "first_hrz_tmp", "horizon",
      "load_zone", "period", "prev_tmp"}]
load_component_modifier_loads ==
    Loads({"load_component_modifier_fractions.tab", "projects.tab"}, {})
load_component_modifier_writes == Writes({},
    {"load_component_modifier_fractions.tab"}, {})

(* project.operations.operational_types.load_component_shift. This             *)
(* operational type is linked to a specific load component that it modifies    *)
(* by removing the static load profile for this load component from the load   *)
(* balance constraint and adding a modified load profile to the load balance   *)
(* constraint that is determined as follows.                                   *)
load_component_shift_model ==
  [NoModel EXCEPT !.over = {"BLN_TYPE_HRZS", "PRJ_OPR_PRDS", "PRJ_OPR_TMPS",
      "PROJECTS"},
     !.reads = {"Capacity_MW", "TMPS_BY_BLN_TYPE_HRZ", "TMPS_IN_PRD",
      "component_static_load_mw", "hrs_in_tmp", "load_zone",
      "operational_type", "period", "tmp_weight"},
     !.takes = {"footroom_variables", "headroom_variables"}]
load_component_shift_functions ==
  [power_provision_rule |-> {"component_static_load_mw", "load_zone",
      "period"},
   variable_om_cost_rule |-> {"variable_om_cost_per_mwh"},
   variable_om_by_period_cost_rule |-> {"period",
      "variable_om_cost_per_mwh_by_period"},
   variable_om_by_timepoint_cost_rule |->
      {"variable_om_cost_per_mwh_by_timepoint"},
   power_delta_rule |-> {"balancing_type_project", "boundary",
      "component_static_load_mw", "first_hrz_tmp", "horizon", "load_zone",
      "period", "prev_tmp"}]
load_component_shift_loads == Loads({"load_component_shift_bounds.tab",
    "projects.tab"}, {})
load_component_shift_writes == Writes({}, {"load_component_shift_bounds.tab"},
    {})

(* project.operations.operational_types.stor. This operational type            *)
(* describes a generic storage resource.                                       *)
stor_model ==
  [NoModel EXCEPT !.declares = {"Stor_Charge_MW", "Stor_Discharge_MW"},
     !.over = {"BLN_TYPE_HRZS", "PRJ_OPR_TMPS", "PROJECTS"},
     !.reads = {"Availability_Derate", "Capacity_MW",
      "Energy_Storage_Capacity_MWh", "TMPS_BY_BLN_TYPE_HRZ",
      "balancing_type_project", "boundary", "capacity_type", "first_hrz_tmp",
      "horizon", "hrs_in_linked_tmp", "hrs_in_tmp", "operational_type",
      "period", "prev_tmp"},
     !.readsFor = {<<"project.availability.availability_types.exogenous",
      "avl_exog_cap_derate_independent">>,
      <<"project.availability.availability_types.exogenous",
      "avl_exog_cap_derate_weather">>,
      <<"project.capacity.capacity_types.stor_spec",
      "stor_spec_energy_capacity_mwh">>},
     !.takes = {"footroom_variables", "headroom_variables"}]
stor_functions ==
  [power_provision_rule |-> {},
   rec_provision_rule |-> {},
   variable_om_cost_rule |-> {"variable_om_cost_per_mwh"},
   variable_om_by_period_cost_rule |-> {"period",
      "variable_om_cost_per_mwh_by_period"},
   variable_om_by_timepoint_cost_rule |->
      {"variable_om_cost_per_mwh_by_timepoint"},
   curtailment_cost_rule |-> {"CURTAILMENT_COST_PRJ_PRDS",
      "curtailment_cost_per_powerunithour", "period"},
   soc_penalty_cost_rule |-> {"Availability_Derate",
      "Energy_Storage_Capacity_MWh", "period",
      "soc_penalty_cost_per_energyunit"},
   soc_last_tmp_penalty_cost_rule |-> {"Availability_Derate",
      "Energy_Storage_Capacity_MWh", "balancing_type_project", "horizon",
      "last_hrz_tmp", "period", "soc_last_tmp_penalty_cost_per_energyunit"},
   power_delta_rule |-> {"balancing_type_project", "boundary",
      "first_hrz_tmp", "horizon", "prev_tmp"}]
(* Bug: The state the last subproblem handed over is not loaded.              *)
stor_loads_NotLinked ==
  Loads({"projects.tab"}, {"stor_exogenous_state_of_charge.tab"})
stor_loads == Loads({"projects.tab"}, {"stor_exogenous_state_of_charge.tab",
    "stor_linked_timepoint_params.tab"})
stor_writes == Writes({}, {"stor_exogenous_state_of_charge.tab"}, {})
stor_results ==
  [NoResults EXCEPT !.returns = Cols("project_timepoint_df", {"charge_mw",
      "discharge_mw", "starting_energy_mwh"}),
     !.hands = {"stor_linked_timepoint_params.tab"}]

(* The modules of this package by name.                                        *)
OperationalTypesParts ==
  "project.operations.operational_types.dispatchable_load" :>
       Parts(dispatchable_load_model, dispatchable_load_loads, NoWrites,
             NoResults, {})
  @@ "project.operations.operational_types.dr" :>
       Parts(dr_model, NoLoads, NoWrites, NoResults, {})
  @@ "project.operations.operational_types.energy_hrz_shaping" :>
       Parts(energy_hrz_shaping_model, energy_hrz_shaping_loads,
             energy_hrz_shaping_writes, energy_hrz_shaping_results, {})
  @@ "project.operations.operational_types.energy_load_following" :>
       Parts(energy_load_following_model, energy_load_following_loads,
             energy_load_following_writes, NoResults, {})
  @@ "project.operations.operational_types.energy_profile" :>
       Parts(energy_profile_model, energy_profile_loads,
             energy_profile_writes, NoResults, {})
  @@ "project.operations.operational_types.energy_slice_hrz_shaping" :>
       Parts(energy_slice_hrz_shaping_model, energy_slice_hrz_shaping_loads,
             energy_slice_hrz_shaping_writes,
             energy_slice_hrz_shaping_results, {})
  @@ "project.operations.operational_types.flex_load" :>
       Parts(flex_load_model, flex_load_loads, flex_load_writes,
             flex_load_results, {})
  @@ "project.operations.operational_types.fuel_prod" :>
       Parts(fuel_prod_model, fuel_prod_loads, NoWrites, fuel_prod_results,
             {})
  @@ "project.operations.operational_types.gen_always_on" :>
       Parts(gen_always_on_model, gen_always_on_loads, NoWrites,
             gen_always_on_results, {})
  @@ "project.operations.operational_types.gen_commit_bin" :>
       Parts(gen_commit_bin_model, gen_commit_bin_loads, NoWrites,
             gen_commit_bin_results, {})
  @@ "project.operations.operational_types.gen_commit_cap" :>
       Parts(gen_commit_cap_model, gen_commit_cap_loads, NoWrites,
             gen_commit_cap_results, {})
  @@ "project.operations.operational_types.gen_commit_lin" :>
       Parts(gen_commit_lin_model, gen_commit_lin_loads, NoWrites,
             gen_commit_lin_results, {})
  @@ "project.operations.operational_types.gen_hydro" :>
       Parts(gen_hydro_model, gen_hydro_loads, gen_hydro_writes,
             gen_hydro_results, {})
  @@ "project.operations.operational_types.gen_hydro_must_take" :>
       Parts(gen_hydro_must_take_model, gen_hydro_must_take_loads,
             gen_hydro_must_take_writes, gen_hydro_must_take_results, {})
  @@ "project.operations.operational_types.gen_hydro_water" :>
       Parts(gen_hydro_water_model, gen_hydro_water_loads,
             gen_hydro_water_writes, gen_hydro_water_results, {})
  @@ "project.operations.operational_types.gen_must_run" :>
       Parts(gen_must_run_model, gen_must_run_loads, NoWrites,
             gen_must_run_results, {})
  @@ "project.operations.operational_types.gen_simple" :>
       Parts(gen_simple_model, gen_simple_loads, NoWrites,
             gen_simple_results, {})
  @@ "project.operations.operational_types.gen_simple_energy_limited" :>
       Parts(gen_simple_energy_limited_model,
             gen_simple_energy_limited_loads, NoWrites,
             gen_simple_energy_limited_results, {})
  @@ "project.operations.operational_types.gen_simple_no_load_balance_power" :>
       Parts(gen_simple_no_load_balance_power_model,
             gen_simple_no_load_balance_power_loads, NoWrites, NoResults, {})
  @@ "project.operations.operational_types.gen_var" :>
       Parts(gen_var_model, gen_var_loads, gen_var_writes, gen_var_results,
             {})
  @@ "project.operations.operational_types.gen_var_must_take" :>
       Parts(gen_var_must_take_model, gen_var_must_take_loads,
             gen_var_must_take_writes, NoResults, {})
  @@ "project.operations.operational_types.gen_var_stor_hyb" :>
       Parts(gen_var_stor_hyb_model, gen_var_stor_hyb_loads,
             gen_var_stor_hyb_writes, gen_var_stor_hyb_results, {})
  @@ "project.operations.operational_types.load_component_modifier" :>
       Parts(load_component_modifier_model, load_component_modifier_loads,
             load_component_modifier_writes, NoResults, {})
  @@ "project.operations.operational_types.load_component_shift" :>
       Parts(load_component_shift_model, load_component_shift_loads,
             load_component_shift_writes, NoResults, {})
  @@ "project.operations.operational_types.stor" :>
       Parts(stor_model, stor_loads, stor_writes, stor_results, {})

(* The functions the types offer to the modules that load them.                *)
OperationalTypesFunctions ==
  "project.operations.operational_types.dispatchable_load" :>
       dispatchable_load_functions
  @@ "project.operations.operational_types.dr" :> dr_functions
  @@ "project.operations.operational_types.energy_hrz_shaping" :>
       energy_hrz_shaping_functions
  @@ "project.operations.operational_types.energy_load_following" :>
       energy_load_following_functions
  @@ "project.operations.operational_types.energy_profile" :>
       energy_profile_functions
  @@ "project.operations.operational_types.energy_slice_hrz_shaping" :>
       energy_slice_hrz_shaping_functions
  @@ "project.operations.operational_types.flex_load" :> flex_load_functions
  @@ "project.operations.operational_types.fuel_prod" :> fuel_prod_functions
  @@ "project.operations.operational_types.gen_always_on" :>
       gen_always_on_functions
  @@ "project.operations.operational_types.gen_commit_bin" :>
       gen_commit_bin_functions
  @@ "project.operations.operational_types.gen_commit_cap" :>
       gen_commit_cap_functions
  @@ "project.operations.operational_types.gen_commit_lin" :>
       gen_commit_lin_functions
  @@ "project.operations.operational_types.gen_hydro" :> gen_hydro_functions
  @@ "project.operations.operational_types.gen_hydro_must_take" :>
       gen_hydro_must_take_functions
  @@ "project.operations.operational_types.gen_hydro_water" :>
       gen_hydro_water_functions
  @@ "project.operations.operational_types.gen_must_run" :>
       gen_must_run_functions
  @@ "project.operations.operational_types.gen_simple" :> gen_simple_functions
  @@ "project.operations.operational_types.gen_simple_energy_limited" :>
       gen_simple_energy_limited_functions
  @@ "project.operations.operational_types.gen_simple_no_load_balance_power" :>
       gen_simple_no_load_balance_power_functions
  @@ "project.operations.operational_types.gen_var" :> gen_var_functions
  @@ "project.operations.operational_types.gen_var_must_take" :>
       gen_var_must_take_functions
  @@ "project.operations.operational_types.gen_var_stor_hyb" :>
       gen_var_stor_hyb_functions
  @@ "project.operations.operational_types.load_component_modifier" :>
       load_component_modifier_functions
  @@ "project.operations.operational_types.load_component_shift" :>
       load_component_shift_functions
  @@ "project.operations.operational_types.stor" :> stor_functions
===============================================================================
