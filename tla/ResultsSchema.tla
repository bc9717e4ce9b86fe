---------------------------- MODULE ResultsSchema -----------------------------
(* The tables of the database the result files are appended to (db_schema.sql).*)
(* DataFrame.to_sql fails for a column its table does not have.  Names are     *)
(* compared without case; the costs have the case of their components here.   *)
EXTENDS TLC

results_system_capacity_transfers == {"availability_iteration",
    "capacity_transfer_cost_per_yr_in_period", "capacity_transfer_mw",
    "hydro_iteration", "period", "prm_zone_from", "prm_zone_to",
    "scenario_id", "stage_id", "subproblem_id", "weather_iteration"}
results_system_costs == {"Frequency_Response_Partial_Penalty_Costs",
    "Frequency_Response_Penalty_Costs", "Inertia_Reserves_Penalty_Costs",
    "LF_Reserves_Down_Penalty_Costs", "LF_Reserves_Up_Penalty_Costs",
    "Regulation_Down_Penalty_Costs", "Regulation_Up_Penalty_Costs",
    "Spinning_Reserves_Penalty_Costs", "Total_Capacity_Costs",
    "Total_Capacity_Transfer_Costs", "Total_Carbon_Cap_Balance_Penalty_Costs",
    "Total_Carbon_Credit_Costs", "Total_Carbon_Credit_Revenue",
    "Total_Carbon_Tax_Cost", "Total_Curtailment_Cost", "Total_Energy_Costs",
    "Total_Export_Penalty_Cost", "Total_Fixed_Costs", "Total_Fuel_Cost",
    "Total_Horizon_Energy_Target_Balance_Penalty_Costs",
    "Total_Horizon_Fuel_Burn_Max_Abs_Penalty_Costs",
    "Total_Horizon_Fuel_Burn_Max_Rel_Penalty_Costs",
    "Total_Horizon_Fuel_Burn_Min_Abs_Penalty_Costs",
    "Total_Hrz_Max_Flow_Violation_Penalty_Cost",
    "Total_Hrz_Min_Flow_Violation_Penalty_Cost", "Total_Hurdle_Cost",
    "Total_Instantaneous_Penetration_Balance_Penalty_Costs",
    "Total_Load_Balance_Penalty_Costs",
    "Total_Local_Capacity_Shortage_Penalty_Costs", "Total_Market_Net_Cost",
    "Total_Max_Flow_Violation_Penalty_Cost",
    "Total_Max_Water_Storage_Violation_Penalty_Cost",
    "Total_Min_Flow_Violation_Penalty_Cost",
    "Total_Min_Water_Storage_Violation_Penalty_Cost",
    "Total_Operational_Violation_Cost",
    "Total_PRM_Deliverability_Group_Costs",
    "Total_PRM_Shortage_Penalty_Costs",
    "Total_Peak_Deviation_Monthly_Demand_Charge_Cost",
    "Total_Performance_Standard_Energy_Balance_Penalty_Costs",
    "Total_Performance_Standard_Power_Balance_Penalty_Costs",
    "Total_Period_Energy_Target_Balance_Penalty_Costs",
    "Total_Policy_Target_Balance_Penalty_Costs", "Total_Ramp_Tuning_Cost",
    "Total_Release_Violation_Penalty_Cost", "Total_SOC_Penalty_Cost",
    "Total_SOC_Penalty_Last_Tmp_Cost", "Total_Shutdown_Cost",
    "Total_Startup_Cost", "Total_Subsidies",
    "Total_Transmission_Target_Balance_Penalty_Costs",
    "Total_Tx_Capacity_Costs", "Total_Tx_Fixed_Costs",
    "Total_Tx_Simple_Losses_Penalty_Cost", "Total_Variable_OM_Cost",
    "availability_iteration", "hydro_iteration", "scenario_id", "stage_id",
    "subproblem_id", "total_dynamic_elcc_tuning_cost",
    "total_import_carbon_tuning_cost", "weather_iteration"}
results_project_cap_factor_limits == {"actual_power_provision_mwh",
    "availability_iteration", "balancing_type_horizon", "horizon",
    "hydro_iteration", "max_cap_factor", "min_cap_factor",
    "possible_power_provision_mwh", "project", "scenario_id", "stage_id",
    "subproblem_id", "weather_iteration"}
results_project_carbon_tax_allowance == {"availability_iteration",
    "carbon_tax_allowance_average_heat_rate_mmbtu_per_mwh",
    "carbon_tax_allowance_tco2_per_mwh", "carbon_tax_allowance_tons",
    "carbon_tax_zone", "fuel_group", "horizon", "hydro_iteration",
    "number_of_hours_in_timepoint", "opr_fuel_burn_by_fuel_group_mmbtu",
    "period", "project", "scenario_id", "stage_id", "subproblem_id",
    "timepoint", "timepoint_weight", "weather_iteration"}
results_project_deliverability == {"availability_iteration", "capacity_mw",
    "carbon_cap_zone", "deliverable_capacity_mw", "energy_only_capacity_mw",
    "energy_target_zone", "hydro_iteration", "load_zone", "period",
    "prm_zone", "project", "scenario_id", "stage_id", "subproblem_id",
    "technology", "weather_iteration"}
results_project_deliverability_groups == {"availability_iteration",
    "cumulative_added_deliverable_capacity_mw",
    "deliverability_annual_cost_in_period", "deliverability_group",
    "deliverable_capacity_built_in_period_mw", "hydro_iteration", "period",
    "scenario_id", "stage_id", "subproblem_id", "weather_iteration"}
results_project_elcc_simple == {"availability_iteration", "capacity_mw",
    "carbon_cap_zone", "elcc_eligible_capacity_mw", "elcc_mw",
    "elcc_simple_fraction", "energy_only_capacity_mw", "energy_target_zone",
    "hydro_iteration", "load_zone", "period", "prm_zone", "project",
    "scenario_id", "stage_id", "subproblem_id", "technology",
    "weather_iteration"}
results_project_elcc_surface == {"availability_iteration", "capacity_mw",
    "carbon_cap_zone", "elcc_eligible_capacity_mw", "elcc_mw",
    "elcc_surface_coefficient", "elcc_surface_name",
    "energy_only_capacity_mw", "energy_target_zone", "facet",
    "hydro_iteration", "load_zone", "period", "prm_zone", "project",
    "scenario_id", "stage_id", "subproblem_id", "technology",
    "weather_iteration"}
results_project_fuel_burn == {"availability_iteration",
    "balancing_type_project", "carbon_cap_zone", "energy_target_zone", "fuel",
    "fuel_contribution_fuelunit", "horizon", "hydro_iteration", "load_zone",
    "net_fuel_burn_fuelunit", "number_of_hours_in_timepoint",
    "operations_fuel_burn_mmbtu", "period", "project", "scenario_id",
    "spinup_or_lookahead", "stage_id", "startup_fuel_burn_mmbtu",
    "subproblem_id", "technology", "timepoint", "timepoint_weight",
    "total_fuel_burn_mmbtu", "weather_iteration"}
results_project_group_capacity == {"availability_iteration", "capacity_group",
    "capacity_group_new_capacity_max", "capacity_group_new_capacity_min",
    "capacity_group_new_max_dual", "capacity_group_new_max_marginal_cost",
    "capacity_group_new_min_dual", "capacity_group_new_min_marginal_cost",
    "capacity_group_total_capacity_max", "capacity_group_total_capacity_min",
    "capacity_group_total_max_dual", "capacity_group_total_max_marginal_cost",
    "capacity_group_total_min_dual", "capacity_group_total_min_marginal_cost",
    "energy_group_new_energy_max", "energy_group_new_energy_min",
    "energy_group_new_max_dual", "energy_group_new_max_marginal_cost",
    "energy_group_new_min_dual", "energy_group_new_min_marginal_cost",
    "energy_group_total_energy_max", "energy_group_total_energy_min",
    "energy_group_total_max_dual", "energy_group_total_max_marginal_cost",
    "energy_group_total_min_dual", "energy_group_total_min_marginal_cost",
    "group_new_capacity", "group_new_energy", "group_total_capacity",
    "group_total_energy", "hydro_iteration", "period", "scenario_id",
    "stage_id", "subproblem_id", "weather_iteration"}
results_project_local_capacity == {"availability_iteration", "capacity_mw",
    "carbon_cap_zone", "energy_target_zone", "hydro_iteration", "load_zone",
    "local_capacity_contribution_mw", "local_capacity_fraction",
    "local_capacity_zone", "period", "project", "scenario_id", "stage_id",
    "subproblem_id", "technology", "weather_iteration"}
results_project_period == {"availability_iteration", "availability_type",
    "capacity_cost", "capacity_cost_wo_spinup_or_lookahead", "capacity_mw",
    "capacity_type", "carbon_cap_zone", "carbon_credits_generated_tCO2",
    "carbon_credits_purchased_tCO2", "carbon_credits_zone",
    "distribution_loss_adjustment_factor", "energy_mwh", "energy_target_zone",
    "fixed_cost", "fuel_prod_capacity_fuelunitperhour",
    "fuel_rel_capacity_fuelunitperhour", "fuel_stor_capacity_fuelunit",
    "hours_in_period_timepoints", "hours_in_subproblem_period",
    "hyb_gen_capacity_mw", "hyb_stor_capacity_mw", "hydro_iteration",
    "instantaneous_penetration_zone", "load_modifier_flag", "load_zone",
    "max_build_energy_dual", "max_build_power_dual",
    "max_build_stor_energy_dual", "max_total_energy_dual",
    "max_total_power_dual", "max_total_stor_energy_dual",
    "min_build_energy_dual", "min_build_power_dual",
    "min_build_stor_energy_dual", "min_total_energy_dual",
    "min_total_power_dual", "min_total_stor_energy_dual", "new_build_binary",
    "new_build_energy_mwh", "new_build_mw", "new_build_stor_mwh",
    "new_fuel_prod_capacity_fuelunitperhour",
    "new_fuel_rel_capacity_fuelunitperhour",
    "new_fuel_stor_capacity_fuelunit", "operational_type", "period",
    "project", "retired_binary", "retired_mw", "scenario_id", "stage_id",
    "stor_energy_capacity_mwh", "subproblem_id", "technology",
    "weather_iteration"}
results_project_period_summary == {"availability_iteration",
    "cap_factor_equivalent", "capacity_mw", "capacity_type", "energy_mwh",
    "fuel_prod_capacity_fuelunitperhour", "fuel_rel_capacity_fuelunitperhour",
    "fuel_stor_capacity_fuelunit", "hyb_gen_capacity_mw",
    "hyb_stor_capacity_mw", "hydro_iteration", "load_zone",
    "operational_type", "period", "project", "scenario_id", "stage_id",
    "stor_energy_capacity_mwh", "subproblem_id", "technology",
    "total_delivered_bulk_power_mwh", "weather_iteration"}
results_project_policy_month_hour_contributions == {"availability_iteration",
    "contribution_mw", "hydro_iteration", "period", "policy_hour",
    "policy_month", "policy_name", "policy_zone", "project", "scenario_id",
    "stage_id", "subproblem_id", "weather_iteration"}
results_project_policy_zone_timepoint == {"availability_iteration",
    "hours_in_timepoint", "hydro_iteration", "period", "policy_contribution",
    "policy_name", "policy_zone", "project", "scenario_id", "stage_id",
    "subproblem_id", "timepoint", "timepoint_weight", "weather_iteration"}
results_project_timepoint == {"active_startup_type",
    "auxiliary_consumption_mw", "availability_derate",
    "availability_iteration", "availability_type", "balancing_type",
    "capacity_mw", "capacity_type", "carbon_cap_zone",
    "carbon_emissions_tons", "charge_mw", "committed_mw", "committed_units",
    "curtailment_cost", "discharge_mw", "distribution_loss_adjustment_factor",
    "energy_target_zone", "flex_load_mw", "frequency_response_ba",
    "frequency_response_partial_reserve_provision_mw",
    "frequency_response_reserve_provision_mw", "fuel_cost",
    "fuel_in_storage_fuelunit", "fuel_prod_power_consumption_powerunit",
    "gross_power_mw", "horizon", "hyb_storage_charge_mw",
    "hyb_storage_discharge_mw", "hydro_iteration", "inertia_reserves_ba",
    "inertia_reserves_reserve_provision_mws",
    "instantaneous_penetration_power_mw", "instantaneous_penetration_zone",
    "lf_reserves_down_ba", "lf_reserves_down_reserve_provision_mw",
    "lf_reserves_up_ba", "lf_reserves_up_reserve_provision_mw",
    "load_modifier_flag", "load_zone", "min_down_time_dual",
    "min_down_time_violation", "min_up_time_dual", "min_up_time_violation",
    "net_power_mw", "number_of_hours_in_timepoint", "operational_type",
    "operational_violation_cost", "period", "power_mw",
    "produce_fuel_fuelunitperhour", "project", "project_power_mw",
    "ramp_down_dual", "ramp_down_violation", "ramp_up_dual",
    "ramp_up_violation", "regulation_down_ba",
    "regulation_down_reserve_provision_mw", "regulation_up_ba",
    "regulation_up_reserve_provision_mw", "release_fuel_fuelunitperhour",
    "scenario_id", "scheduled_curtailment_mw",
    "scheduled_energy_target_energy_mw", "shutdown_cost",
    "soc_last_tmp_penalty_cost", "soc_penalty_cost", "spinning_reserves_ba",
    "spinning_reserves_reserve_provision_mw", "spinup_or_lookahead",
    "stage_id", "start_unavailability", "started_units",
    "starting_energy_mwh", "startup_cost", "static_load_mw",
    "stop_unavailability", "stopped_units", "subhourly_curtailment_mw",
    "subhourly_energy_delivered_mw",
    "subhourly_energy_target_energy_delivered_mw", "subproblem_id",
    "synced_units", "technology", "timepoint", "timepoint_weight",
    "total_curtailment_mw", "unavailability_decision", "variable_om_cost",
    "weather_iteration"}
results_system_carbon_cap == {"availability_iteration",
    "carbon_cap_marginal_cost_per_emission", "carbon_cap_overage",
    "carbon_cap_target", "carbon_cap_zone", "credit_purchases",
    "discount_factor", "dual", "hydro_iteration", "import_emissions",
    "import_emissions_degen", "number_years_represented", "period",
    "project_credits", "project_emissions", "scenario_id", "stage_id",
    "subproblem_id", "total_credits", "total_emissions",
    "total_emissions_degen", "weather_iteration"}
results_system_carbon_credits == {"availability_iteration", "buy_credits",
    "carbon_credits_zone", "discount_factor", "hydro_iteration",
    "number_years_represented", "period", "project_generated_credits",
    "project_purchased_credits", "scenario_id", "sell_credits", "stage_id",
    "subproblem_id", "total_generated_carbon_credits",
    "total_purchased_carbon_credits", "weather_iteration"}

(* Bug: the schema was not extended with the credits.                          *)
results_system_carbon_tax_NoCredits == {"availability_iteration",
    "carbon_tax_per_ton", "carbon_tax_zone", "discount_factor", "dual",
    "hydro_iteration", "number_years_represented", "period",
    "project_emissions", "scenario_id", "stage_id", "subproblem_id",
    "total_carbon_emissions_tons", "total_carbon_tax_allowance_tons",
    "total_carbon_tax_cost", "weather_iteration"}

results_system_carbon_tax == {"availability_iteration", "carbon_tax_per_ton",
    "carbon_tax_zone", "discount_factor", "dual", "hydro_iteration",
    "number_years_represented", "period", "project_credits",
    "project_emissions", "scenario_id", "stage_id", "subproblem_id",
    "total_carbon_emissions_tons", "total_carbon_tax_allowance_tons",
    "total_carbon_tax_cost", "weather_iteration"}
results_system_frequency_response == {"availability_iteration",
    "discount_factor", "dual", "frequency_response_ba", "hydro_iteration",
    "marginal_price_per_mw", "number_of_hours_in_timepoint",
    "number_years_represented", "period", "reserve_provision_mw",
    "reserve_requirement_mw", "reserve_violation_mw", "scenario_id",
    "spinup_or_lookahead", "stage_id", "subproblem_id", "timepoint",
    "timepoint_weight", "weather_iteration"}
results_system_frequency_response_partial == {"availability_iteration",
    "discount_factor", "dual", "frequency_response_partial_ba",
    "hydro_iteration", "marginal_price_per_mw",
    "number_of_hours_in_timepoint", "number_years_represented", "period",
    "reserve_provision_mw", "reserve_requirement_mw", "reserve_violation_mw",
    "scenario_id", "spinup_or_lookahead", "stage_id", "subproblem_id",
    "timepoint", "timepoint_weight", "weather_iteration"}
results_system_fuel_burn_limits == {"abs_max_dual",
    "abs_max_fuel_burn_limit_marginal_cost_per_unit", "abs_min_dual",
    "abs_min_fuel_burn_limit_marginal_cost_per_unit",
    "availability_iteration", "balancing_type", "discount_factor",
    "fraction_of_relative_fuel_burn_max_fuel_ba", "fuel_burn_limit_ba",
    "fuel_burn_max_abs_overage_unit", "fuel_burn_max_rel_overage_unit",
    "fuel_burn_max_unit", "fuel_burn_min_abs_shortage_unit",
    "fuel_burn_min_unit", "horizon", "hydro_iteration",
    "number_years_represented", "rel_dual",
    "rel_fuel_burn_limit_marginal_cost_per_unit", "relative_fuel_burn_max_ba",
    "scenario_id", "stage_id", "subproblem_id", "total_fuel_burn_unit",
    "weather_iteration"}
results_system_horizon_energy_target == {"availability_iteration",
    "balancing_type_horizon", "curtailed_energy_target_energy_mwh",
    "delivered_energy_target_energy_mwh", "dual", "energy_target_mwh",
    "energy_target_shortage_mwh", "energy_target_zone",
    "fraction_of_energy_target_energy_curtailed",
    "fraction_of_energy_target_met", "horizon", "hydro_iteration",
    "scenario_id", "stage_id", "subproblem_id",
    "total_energy_target_energy_mwh", "weather_iteration"}
results_system_inertia_reserves == {"availability_iteration",
    "discount_factor", "dual", "hydro_iteration", "inertia_reserves_ba",
    "marginal_price_per_mws", "number_of_hours_in_timepoint",
    "number_years_represented", "period", "reserve_provision_mws",
    "reserve_requirement_mws", "reserve_violation_mws", "scenario_id",
    "spinup_or_lookahead", "stage_id", "subproblem_id", "timepoint",
    "timepoint_weight", "weather_iteration"}
results_system_instantaneous_penetration == {"availability_iteration",
    "discount_factor", "dual_instantaneous_penetration_max",
    "dual_instantaneous_penetration_min", "hydro_iteration",
    "instantaneous_penetration_max_marginal_price_per_mw",
    "instantaneous_penetration_min_marginal_price_per_mw",
    "instantaneous_penetration_overage_mwh",
    "instantaneous_penetration_shortage_mwh",
    "instantaneous_penetration_violation_mwh",
    "instantaneous_penetration_zone", "max_instantaneous_penetration_mwh",
    "min_instantaneous_penetration_mwh", "number_of_hours_in_timepoint",
    "number_years_represented", "period", "scenario_id", "stage_id",
    "subproblem_id", "timepoint", "timepoint_weight",
    "total_instantaneous_penetration_energy_mwh", "weather_iteration"}
results_system_lf_reserves_down == {"availability_iteration",
    "discount_factor", "dual", "hydro_iteration", "lf_reserves_down_ba",
    "marginal_price_per_mw", "number_of_hours_in_timepoint",
    "number_years_represented", "period", "reserve_provision_mw",
    "reserve_requirement_mw", "reserve_violation_mw", "scenario_id",
    "spinup_or_lookahead", "stage_id", "subproblem_id", "timepoint",
    "timepoint_weight", "weather_iteration"}
results_system_lf_reserves_up == {"availability_iteration", "discount_factor",
    "dual", "hydro_iteration", "lf_reserves_up_ba", "marginal_price_per_mw",
    "number_of_hours_in_timepoint", "number_years_represented", "period",
    "reserve_provision_mw", "reserve_requirement_mw", "reserve_violation_mw",
    "scenario_id", "spinup_or_lookahead", "stage_id", "subproblem_id",
    "timepoint", "timepoint_weight", "weather_iteration"}
results_system_load_zone_period_load_summary == {"availability_iteration",
    "hydro_iteration", "load_zone", "max_static_load_mw", "period",
    "scenario_id", "stage_id", "subproblem_id", "total_static_load_mwh",
    "weather_iteration"}
results_system_load_zone_timepoint == {"availability_iteration",
    "discount_factor", "hydro_iteration", "load_balance_dual",
    "load_balance_marginal_cost_per_mw", "load_modifier_adjusted_load_mw",
    "load_modifier_power_mw", "load_zone", "net_imports_mw",
    "net_market_purchases_mw", "number_of_hours_in_timepoint",
    "number_years_represented", "overgeneration_mw", "period", "scenario_id",
    "spinup_or_lookahead", "stage_id", "static_load_mw", "subproblem_id",
    "timepoint", "timepoint_weight", "total_power_mw", "unserved_energy_mw",
    "weather_iteration"}
results_system_load_zone_timepoint_loss_of_load_summary ==
    {"availability_iteration", "day_of_month", "hour_of_day",
    "hydro_iteration", "load_zone", "month", "number_of_hours_in_timepoint",
    "period", "scenario_id", "spinup_or_lookahead", "stage_id",
    "static_load_mw", "subproblem_id", "timepoint", "timepoint_weight",
    "unserved_energy_mw", "unserved_energy_stats_threshold_mw",
    "weather_iteration"}
results_system_local_capacity == {"availability_iteration", "discount_factor",
    "dual", "hydro_iteration", "local_capacity_marginal_cost_per_mw",
    "local_capacity_provision_mw", "local_capacity_requirement_mw",
    "local_capacity_shortage_mw", "local_capacity_zone",
    "number_years_represented", "period", "project_contribution_mw",
    "scenario_id", "stage_id", "subproblem_id", "weather_iteration"}
results_system_market_participation == {"availability_iteration", "buy_power",
    "discount_factor", "final_buy_power", "final_net_buy_power",
    "final_sell_power", "hydro_iteration", "load_zone", "market",
    "net_buy_power", "number_of_hours_in_timepoint",
    "number_years_represented", "period", "scenario_id", "sell_power",
    "spinup_or_lookahead", "stage_id", "subproblem_id", "timepoint",
    "timepoint_weight", "weather_iteration"}
results_system_market_summary == {"availability_iteration", "costs",
    "hydro_iteration", "load_zone", "market", "month", "period",
    "purchases_mwh", "revenue", "sales_mwh", "scenario_id", "stage_id",
    "subproblem_id", "weather_iteration"}
results_system_month_hour_policy_requirements == {"availability_iteration",
    "hydro_iteration", "period", "policy_hour", "policy_month",
    "policy_month_hour_requirement", "policy_name", "policy_zone",
    "scenario_id", "stage_id", "subproblem_id", "weather_iteration"}
results_system_performance_standard == {"availability_iteration",
    "discount_factor", "hydro_iteration", "number_years_represented",
    "performance_standard_energy_overage_tco2",
    "performance_standard_power_overage_tco2",
    "performance_standard_project_capacity_mw",
    "performance_standard_project_emissions_tco2",
    "performance_standard_project_energy_mwh",
    "performance_standard_tco2_per_mw", "performance_standard_tco2_per_mwh",
    "performance_standard_zone", "period", "project_credits", "scenario_id",
    "stage_id", "subproblem_id", "weather_iteration"}
results_system_period_energy_target == {"availability_iteration",
    "curtailed_energy_target_energy_mwh",
    "delivered_energy_target_energy_mwh", "discount_factor", "dual",
    "energy_target_marginal_cost_per_mwh", "energy_target_mwh",
    "energy_target_shortage_mwh", "energy_target_zone",
    "fraction_of_energy_target_energy_curtailed",
    "fraction_of_energy_target_met", "hydro_iteration",
    "number_years_represented", "period", "scenario_id", "stage_id",
    "subproblem_id", "total_energy_target_energy_mwh", "weather_iteration"}
results_system_policy_requirements == {"availability_iteration",
    "balancing_type_horizon", "dual", "horizon", "hydro_iteration",
    "policy_name", "policy_requirement",
    "policy_requirement_calculated_in_horizon",
    "policy_requirement_marginal_cost_per_unit",
    "policy_requirement_shortage", "policy_zone",
    "post_load_modifier_load_in_hrz", "pre_load_modifier_load_in_hrz",
    "scenario_id", "stage_id", "subproblem_id", "weather_iteration"}
results_system_prm == {"availability_iteration",
    "capacity_contribution_transferred_from_mw",
    "capacity_contribution_transferred_to_mw", "discount_factor", "dual",
    "elcc_simple_mw", "elcc_surface_mw", "elcc_total_mw", "hydro_iteration",
    "number_years_represented", "period", "prm_marginal_cost_per_mw",
    "prm_requirement_mw", "prm_shortage_mw", "prm_zone", "scenario_id",
    "stage_id", "subproblem_id", "weather_iteration"}
results_system_regulation_down == {"availability_iteration",
    "discount_factor", "dual", "hydro_iteration", "marginal_price_per_mw",
    "number_of_hours_in_timepoint", "number_years_represented", "period",
    "regulation_down_ba", "reserve_provision_mw", "reserve_requirement_mw",
    "reserve_violation_mw", "scenario_id", "spinup_or_lookahead", "stage_id",
    "subproblem_id", "timepoint", "timepoint_weight", "weather_iteration"}
results_system_regulation_up == {"availability_iteration", "discount_factor",
    "dual", "hydro_iteration", "marginal_price_per_mw",
    "number_of_hours_in_timepoint", "number_years_represented", "period",
    "regulation_up_ba", "reserve_provision_mw", "reserve_requirement_mw",
    "reserve_violation_mw", "scenario_id", "spinup_or_lookahead", "stage_id",
    "subproblem_id", "timepoint", "timepoint_weight", "weather_iteration"}
results_system_spinning_reserves == {"availability_iteration",
    "discount_factor", "dual", "hydro_iteration", "marginal_price_per_mw",
    "number_of_hours_in_timepoint", "number_years_represented", "period",
    "reserve_provision_mw", "reserve_requirement_mw", "reserve_violation_mw",
    "scenario_id", "spinning_reserves_ba", "spinup_or_lookahead", "stage_id",
    "subproblem_id", "timepoint", "timepoint_weight", "weather_iteration"}
results_system_transmission_targets == {"availability_iteration",
    "balancing_type", "fraction_of_transmission_target_neg_dir_max_met",
    "fraction_of_transmission_target_neg_dir_min_met",
    "fraction_of_transmission_target_pos_dir_max_met",
    "fraction_of_transmission_target_pos_dir_min_met", "horizon",
    "hrz_objective_coefficient", "hydro_iteration", "scenario_id", "stage_id",
    "subproblem_id", "total_transmission_target_energy_neg_dir_mwh",
    "total_transmission_target_energy_pos_dir_mwh",
    "transmission_target_neg_dir_max_mwh",
    "transmission_target_neg_dir_min_mwh",
    "transmission_target_overage_neg_dir_min_mwh",
    "transmission_target_overage_pos_dir_max_mwh",
    "transmission_target_pos_dir_max_mwh",
    "transmission_target_pos_dir_min_mwh",
    "transmission_target_shortage_neg_dir_min_mwh",
    "transmission_target_shortage_pos_dir_min_mwh",
    "transmission_target_zone", "weather_iteration"}
results_system_water_link_timepoint == {"arrival_timepoint",
    "availability_iteration", "departure_timepoint", "hydro_iteration",
    "scenario_id", "stage_id", "subproblem_id",
    "water_flow_max_violation_vol_per_sec",
    "water_flow_min_violation_vol_per_sec", "water_flow_vol_per_sec",
    "water_link", "weather_iteration"}
results_system_water_node_timepoint == {"availability_iteration",
    "discharge_water_to_powerhouse_rate_vol_per_sec",
    "endogenous_water_inflow_rate_vol_per_sec", "evap_losses_NOT_IMPLEMENTED",
    "exogenous_water_inflow_rate_vol_per_sec",
    "gross_water_inflow_rate_vol_per_sec",
    "gross_water_outflow_rate_vol_per_sec", "hydro_iteration",
    "max_volume_violation", "min_volume_violation", "scenario_id",
    "spill_water_rate_vol_per_sec", "stage_id", "starting_elevation",
    "starting_volume", "subproblem_id", "timepoint", "water_node",
    "weather_iteration"}
results_system_water_powerhouse_timepoint == {"availability_iteration",
    "gross_head", "hydro_iteration", "net_head", "powerhouse", "scenario_id",
    "stage_id", "subproblem_id", "timepoint",
    "water_discharge_to_powerhouse_rate_vol_per_sec", "water_node",
    "weather_iteration"}
results_transmission_group_capacity == {"availability_iteration",
    "group_new_capacity", "hydro_iteration", "period", "scenario_id",
    "stage_id", "subproblem_id", "transmission_capacity_group",
    "transmission_capacity_group_new_capacity_max",
    "transmission_capacity_group_new_capacity_min", "weather_iteration"}
results_transmission_period == {"availability_iteration", "capacity_cost",
    "capacity_cost_wo_spinup_or_lookahead", "fixed_cost",
    "hours_in_period_timepoints", "hours_in_subproblem_period",
    "hydro_iteration", "load_zone_from", "load_zone_to", "max_mw", "min_mw",
    "new_build_capacity_mw", "period", "scenario_id", "stage_id",
    "subproblem_id", "transmission_line", "tx_availability_type",
    "tx_capacity_type", "tx_operational_type", "weather_iteration"}
results_transmission_simultaneous_flows == {"availability_iteration", "dual",
    "hydro_iteration", "period", "scenario_id", "simultaneous_flow_mw",
    "stage_id", "subproblem_id", "timepoint", "timepoint_weight",
    "transmission_simultaneous_flow_limit", "weather_iteration"}
results_transmission_timepoint == {"availability_iteration",
    "carbon_emission_imports_tons", "carbon_emission_imports_tons_degen",
    "hurdle_cost_by_timepoint_negative_direction",
    "hurdle_cost_by_timepoint_positive_direction",
    "hurdle_cost_negative_direction", "hurdle_cost_positive_direction",
    "hydro_iteration", "load_zone_from", "load_zone_to",
    "number_of_hours_in_timepoint", "period", "scenario_id",
    "spinup_or_lookahead", "stage_id", "subproblem_id", "timepoint",
    "timepoint_weight", "transmission_flow_mw", "transmission_line",
    "transmission_losses_lz_from", "transmission_losses_lz_to",
    "transmission_target_energy_negative_direction_mw",
    "transmission_target_energy_positive_direction_mw",
    "transmission_target_zone", "tx_availability_type", "tx_capacity_type",
    "tx_operational_type", "weather_iteration"}

(* The table of each file (import_csv in auxiliary/db_interface.py, and the two *)
(* modules that name the table themselves).                                    *)
TableOf ==
  "capacity_contribution_transfers.csv" :> results_system_capacity_transfers
  @@ "npv.csv" :> results_system_costs
  @@ "project_cap_factor_limits.csv" :> results_project_cap_factor_limits
  @@ "project_carbon_tax_allowance.csv" :> results_project_carbon_tax_allowance
  @@ "project_deliverability.csv" :> results_project_deliverability
  @@ "project_deliverability_groups.csv" :> results_project_deliverability_groups
  @@ "project_elcc_simple.csv" :> results_project_elcc_simple
  @@ "project_elcc_surface.csv" :> results_project_elcc_surface
  @@ "project_fuel_burn.csv" :> results_project_fuel_burn
  @@ "project_group_capacity.csv" :> results_project_group_capacity
  @@ "project_local_capacity.csv" :> results_project_local_capacity
  @@ "project_period.csv" :> results_project_period
  @@ "project_period_summary.csv" :> results_project_period_summary
  @@ "project_policy_month_hour_contributions.csv" :> results_project_policy_month_hour_contributions
  @@ "project_policy_zone_timepoint.csv" :> results_project_policy_zone_timepoint
  @@ "project_timepoint.csv" :> results_project_timepoint
  @@ "system_carbon_cap.csv" :> results_system_carbon_cap
  @@ "system_carbon_credits.csv" :> results_system_carbon_credits
  @@ "system_carbon_tax.csv" :> results_system_carbon_tax
  @@ "system_frequency_response.csv" :> results_system_frequency_response
  @@ "system_frequency_response_partial.csv" :> results_system_frequency_response_partial
  @@ "system_fuel_burn_limits.csv" :> results_system_fuel_burn_limits
  @@ "system_horizon_energy_target.csv" :> results_system_horizon_energy_target
  @@ "system_inertia_reserves.csv" :> results_system_inertia_reserves
  @@ "system_instantaneous_penetration.csv" :> results_system_instantaneous_penetration
  @@ "system_lf_reserves_down.csv" :> results_system_lf_reserves_down
  @@ "system_lf_reserves_up.csv" :> results_system_lf_reserves_up
  @@ "system_load_zone_period_load_summary.csv" :> results_system_load_zone_period_load_summary
  @@ "system_load_zone_timepoint.csv" :> results_system_load_zone_timepoint
  @@ "system_load_zone_timepoint_loss_of_load_summary.csv" :> results_system_load_zone_timepoint_loss_of_load_summary
  @@ "system_local_capacity.csv" :> results_system_local_capacity
  @@ "system_market_participation.csv" :> results_system_market_participation
  @@ "system_market_summary.csv" :> results_system_market_summary
  @@ "system_month_hour_policy_requirements.csv" :> results_system_month_hour_policy_requirements
  @@ "system_performance_standard.csv" :> results_system_performance_standard
  @@ "system_period_energy_target.csv" :> results_system_period_energy_target
  @@ "system_policy_requirements.csv" :> results_system_policy_requirements
  @@ "system_prm.csv" :> results_system_prm
  @@ "system_regulation_down.csv" :> results_system_regulation_down
  @@ "system_regulation_up.csv" :> results_system_regulation_up
  @@ "system_spinning_reserves.csv" :> results_system_spinning_reserves
  @@ "system_transmission_targets.csv" :> results_system_transmission_targets
  @@ "system_water_link_timepoint.csv" :> results_system_water_link_timepoint
  @@ "system_water_node_timepoint.csv" :> results_system_water_node_timepoint
  @@ "system_water_powerhouse_timepoint.csv" :> results_system_water_powerhouse_timepoint
  @@ "transmission_group_capacity.csv" :> results_transmission_group_capacity
  @@ "transmission_period.csv" :> results_transmission_period
  @@ "transmission_simultaneous_flows.csv" :> results_transmission_simultaneous_flows
  @@ "transmission_timepoint.csv" :> results_transmission_timepoint
===============================================================================
