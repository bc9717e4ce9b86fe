--------------------------- MODULE ObjectiveModules ---------------------------
(* The objective modules: cost and revenue components and their sum            *)
(* (src/gridpath/objective).                                                   *)
EXTENDS ReserveFunctions

(* objective.project.aggregate_capacity_costs. This module aggregates all      *)
(* project capacity costs and adds them to the objective function.             *)
project_aggregate_capacity_costs_model ==
  [NoModel EXCEPT !.declares = {"Total_Capacity_Costs", "Total_Energy_Costs",
      "Total_Fixed_Costs"},
     !.reads = {"Capacity_Cost_in_Period", "Energy_Cost_in_Period",
      "Fixed_Cost_in_Period", "PRJ_FIN_PRDS", "PRJ_OPR_PRDS",
      "discount_factor", "number_years_represented"},
     !.adds = {<<"cost_components", "Total_Capacity_Costs">>,
      <<"cost_components", "Total_Energy_Costs">>, <<"cost_components",
      "Total_Fixed_Costs">>}]

(* objective.project.aggregate_prm_group_costs. Aggregate capacity threshold   *)
(* costs.                                                                      *)
aggregate_prm_group_costs_model ==
  [NoModel EXCEPT !.declares = {"Total_PRM_Deliverability_Group_Costs"},
     !.reads = {"DELIVERABILITY_GROUPS",
      "Deliverability_Group_Deliverable_Capacity_Cost", "PERIODS",
      "discount_factor", "number_years_represented"},
     !.adds = {<<"cost_components", "Total_PRM_Deliverability_Group_Costs">>}]

(* objective.project.aggregate_operational_costs. This module aggregates all   *)
(* project operational costs and adds them to the objective function.          *)
aggregate_operational_costs_model ==
  [NoModel EXCEPT !.declares = {"Total_Curtailment_Cost", "Total_Fuel_Cost",
      "Total_Operational_Violation_Cost",
      "Total_Peak_Deviation_Monthly_Demand_Charge_Cost",
      "Total_SOC_Penalty_Cost", "Total_SOC_Penalty_Last_Tmp_Cost",
      "Total_Shutdown_Cost", "Total_Startup_Cost", "Total_Variable_OM_Cost"},
     !.reads = {"CURTAILMENT_COST_PRJ_OPR_TMPS", "Curtailment_Cost",
      "FUEL_PRJ_OPR_TMPS", "Fuel_Cost", "MONTHS",
      "Operational_Violation_Cost", "PRJ_OPR_PRDS",
      "Peak_Deviation_Demand_Charge_Cost", "SHUTDOWN_COST_PRJ_OPR_TMPS",
      "SOC_LAST_TMP_PENALTY_COST_PRJ_OPR_TMPS",
      "SOC_PENALTY_COST_PRJ_OPR_TMPS", "SOC_Penalty_Cost",
      "SOC_Penalty_Last_Tmp_Cost", "STARTUP_COST_PRJ_OPR_TMPS",
      "Shutdown_Cost", "Startup_Cost", "VAR_OM_COST_ALL_PRJS_OPR_TMPS",
      "VIOL_ALL_PRJ_OPR_TMPS", "Variable_OM_Cost", "discount_factor",
      "hrs_in_tmp", "number_years_represented", "period", "tmp_weight"},
     !.adds = {<<"cost_components", "Total_Curtailment_Cost">>,
      <<"cost_components", "Total_Fuel_Cost">>, <<"cost_components",
      "Total_Operational_Violation_Cost">>, <<"cost_components",
      "Total_Peak_Deviation_Monthly_Demand_Charge_Cost">>,
      <<"cost_components", "Total_SOC_Penalty_Cost">>, <<"cost_components",
      "Total_SOC_Penalty_Last_Tmp_Cost">>, <<"cost_components",
      "Total_Shutdown_Cost">>, <<"cost_components", "Total_Startup_Cost">>,
      <<"cost_components", "Total_Variable_OM_Cost">>}]

(* objective.project.aggregate_operational_tuning_costs. Tuning costs to       *)
(* prevent undesirable behavior when problem is degenerate.                    *)
aggregate_operational_tuning_costs_model ==
  [NoModel EXCEPT !.declares = {"Total_Ramp_Tuning_Cost"},
     !.reads = {"PRJ_OPR_TMPS", "Ramp_Down_Tuning_Cost",
      "Ramp_Up_Tuning_Cost", "discount_factor", "hrs_in_tmp",
      "number_years_represented", "period", "tmp_weight"},
     !.adds = {<<"cost_components", "Total_Ramp_Tuning_Cost">>}]

(* objective.transmission.aggregate_capacity_costs. This module aggregates     *)
(* transmission-line-period-level capacity costs for use in the objective      *)
(* function.                                                                   *)
transmission_aggregate_capacity_costs_model ==
  [NoModel EXCEPT !.declares = {"Total_Tx_Capacity_Costs",
      "Total_Tx_Fixed_Costs"},
     !.reads = {"TX_FIN_PRDS", "TX_OPR_PRDS", "Tx_Capacity_Cost_in_Period",
      "Tx_Fixed_Cost_in_Period", "discount_factor",
      "number_years_represented"},
     !.adds = {<<"cost_components", "Total_Tx_Capacity_Costs">>,
      <<"cost_components", "Total_Tx_Fixed_Costs">>}]

(* objective.transmission.aggregate_hurdle_costs. This module aggregates       *)
(* transmission-line-timepoint-level operational costs for use in the          *)
(* objective function.                                                         *)
aggregate_hurdle_costs_model ==
  [NoModel EXCEPT !.declares = {"Total_Hurdle_Cost"},
     !.reads = {"TX_OPR_TMPS", "discount_factor", "hrs_in_tmp",
      "number_years_represented", "period", "tmp_weight"},
     !.readsIf = {"Hurdle_Cost_By_Tmp_Neg_Dir", "Hurdle_Cost_By_Tmp_Pos_Dir",
      "Hurdle_Cost_Neg_Dir", "Hurdle_Cost_Pos_Dir"},
     !.adds = {<<"cost_components", "Total_Hurdle_Cost">>}]

(* objective.transmission.aggregate_tx_tuning_costs. This module aggregates    *)
(* the cost of exports from a load zone in each timepoint and adds the total   *)
(* to the objective function.                                                  *)
aggregate_tx_tuning_costs_model ==
  [NoModel EXCEPT !.declares = {"Total_Export_Penalty_Cost",
      "Total_Tx_Simple_Losses_Penalty_Cost"},
     !.reads = {"Export_Penalty_Cost", "LOAD_ZONES", "TMPS", "TX_OPR_TMPS",
      "Tx_Simple_Losses_Penalty_Cost", "discount_factor", "hrs_in_tmp",
      "number_years_represented", "period", "tmp_weight"},
     !.adds = {<<"cost_components", "Total_Export_Penalty_Cost">>,
      <<"cost_components", "Total_Tx_Simple_Losses_Penalty_Cost">>}]

(* objective.system.aggregate_load_balance_penalties. This module adds load-   *)
(* balance penalty costs to the objective function.                            *)
aggregate_load_balance_penalties_model ==
  [NoModel EXCEPT !.declares = {"Total_Load_Balance_Penalty_Costs"},
     !.over = {"LOAD_ZONES", "TMPS"},
     !.reads = {"Overgeneration_MW_Expression",
      "Unserved_Energy_MW_Expression", "avg_unserved_load_penalty_per_mwa",
      "discount_factor", "hrs_in_tmp", "max_unserved_load_penalty_per_mw",
      "number_years_represented", "overgeneration_penalty_per_mw", "period",
      "tmp_weight", "unserved_energy_penalty_per_mwh"},
     !.adds = {<<"cost_components", "Total_Load_Balance_Penalty_Costs">>}]

(* objective.system.reserve_violation_penalties.lf_reserves_up                 *)
reserve_violation_penalties_lf_reserves_up_model ==
    ReservePenaltyModel("LF_RESERVES_UP_ZONES",
    "LF_Reserves_Up_Violation_MW_Expression",
    "lf_reserves_up_violation_penalty_per_mw", "LF_Reserves_Up_Penalty_Costs")

(* Bug: The violation of the other direction.                                 *)
reserve_violation_penalties_lf_reserves_down_model_CopiedFromUp ==
    ReservePenaltyModel("LF_RESERVES_DOWN_ZONES",
    "LF_Reserves_Up_Violation_MW_Expression",
    "lf_reserves_down_violation_penalty_per_mw",
    "LF_Reserves_Down_Penalty_Costs")

(* objective.system.reserve_violation_penalties.lf_reserves_down               *)
reserve_violation_penalties_lf_reserves_down_model ==
    ReservePenaltyModel("LF_RESERVES_DOWN_ZONES",
    "LF_Reserves_Down_Violation_MW_Expression",
    "lf_reserves_down_violation_penalty_per_mw",
    "LF_Reserves_Down_Penalty_Costs")

(* objective.system.reserve_violation_penalties.regulation_up                  *)
reserve_violation_penalties_regulation_up_model ==
    ReservePenaltyModel("REGULATION_UP_ZONES",
    "Regulation_Up_Violation_MW_Expression",
    "regulation_up_violation_penalty_per_mw", "Regulation_Up_Penalty_Costs")

(* objective.system.reserve_violation_penalties.regulation_down                *)
reserve_violation_penalties_regulation_down_model ==
    ReservePenaltyModel("REGULATION_DOWN_ZONES",
    "Regulation_Down_Violation_MW_Expression",
    "regulation_down_violation_penalty_per_mw",
    "Regulation_Down_Penalty_Costs")

(* objective.system.reserve_violation_penalties.frequency_response             *)
reserve_violation_penalties_frequency_response_model ==
  [NoModel EXCEPT !.declares = {"Frequency_Response_Partial_Penalty_Costs",
      "Frequency_Response_Penalty_Costs"},
     !.reads = {"FREQUENCY_RESPONSE_BAS",
      "Frequency_Response_Partial_Violation_MW",
      "Frequency_Response_Violation_MW_Expression", "TMPS", "discount_factor",
      "frequency_response_violation_penalty_per_mw", "hrs_in_tmp",
      "number_years_represented", "period", "tmp_weight"},
     !.adds = {<<"cost_components",
      "Frequency_Response_Partial_Penalty_Costs">>, <<"cost_components",
      "Frequency_Response_Penalty_Costs">>}]

(* objective.system.reserve_violation_penalties.spinning_reserves              *)
reserve_violation_penalties_spinning_reserves_model ==
    ReservePenaltyModel("SPINNING_RESERVES_ZONES",
    "Spinning_Reserves_Violation_MW_Expression",
    "spinning_reserves_violation_penalty_per_mw",
    "Spinning_Reserves_Penalty_Costs")

(* objective.system.reserve_violation_penalties.inertia_reserves               *)
reserve_violation_penalties_inertia_reserves_model ==
  [NoModel EXCEPT !.declares = {"Inertia_Reserves_Penalty_Costs"},
     !.reads = {"INERTIA_RESERVES_ZONES",
      "Inertia_Reserves_Violation_MWs_Expression", "TMPS", "discount_factor",
      "hrs_in_tmp", "inertia_reserves_violation_penalty_per_mws",
      "number_years_represented", "period", "tmp_weight"},
     !.adds = {<<"cost_components", "Inertia_Reserves_Penalty_Costs">>}]

(* objective.system.policy.aggregate_period_energy_target_violation_penaltie   *)
(* s. This module adds period energy-target shortage penalty costs to the      *)
(* objective function.                                                         *)
aggregate_period_energy_target_violation_penalties_model ==
  [NoModel EXCEPT !.declares =
      {"Total_Period_Energy_Target_Balance_Penalty_Costs"},
     !.reads = {"ENERGY_TARGET_ZONE_PERIODS_WITH_ENERGY_TARGET",
      "Period_Energy_Target_Shortage_MWh_Expression", "discount_factor",
      "energy_target_violation_penalty_per_mwh", "number_years_represented"},
     !.adds = {<<"cost_components",
      "Total_Period_Energy_Target_Balance_Penalty_Costs">>}]

(* objective.system.policy.aggregate_horizon_energy_target_violation_penalti   *)
(* es. This module adds horizon energy-target shortage penalty costs to the    *)
(* objective function.                                                         *)
aggregate_horizon_energy_target_violation_penalties_model ==
  [NoModel EXCEPT !.declares =
      {"Total_Horizon_Energy_Target_Balance_Penalty_Costs"},
     !.reads = {"ENERGY_TARGET_ZONE_BLN_TYPE_HRZS_WITH_ENERGY_TARGET",
      "Horizon_Energy_Target_Shortage_MWh_Expression", "discount_factor",
      "energy_target_violation_penalty_per_mwh", "last_hrz_tmp",
      "number_years_represented", "period"},
     !.adds = {<<"cost_components",
      "Total_Horizon_Energy_Target_Balance_Penalty_Costs">>}]

(* objective.system.policy.aggregate_transmission_target_violation_penalties   *)
(* . This module adds period transmission-target shortage penalty costs to     *)
(* the objective function.                                                     *)
aggregate_transmission_target_violation_penalties_model ==
  [NoModel EXCEPT !.declares =
      {"Total_Transmission_Target_Balance_Penalty_Costs"},
     !.reads =
      {"TRANSMISSION_TARGET_ZONE_BLN_TYPE_HRZS_WITH_TRANSMISSION_TARGET",
      "Transmission_Target_Overage_Neg_Dir_Max_MWh_Expression",
      "Transmission_Target_Overage_Pos_Dir_Max_MWh_Expression",
      "Transmission_Target_Shortage_Neg_Dir_Min_MWh_Expression",
      "Transmission_Target_Shortage_Pos_Dir_Min_MWh_Expression",
      "hrz_objective_coefficient",
      "transmission_target_violation_penalty_per_mwh"},
     !.adds = {<<"cost_components",
      "Total_Transmission_Target_Balance_Penalty_Costs">>}]

(* objective.system.policy.aggregate_instantaneous_penetration_violation_pen   *)
(* alties. This module adds period energy-target shortage penalty costs to     *)
(* the objective function.                                                     *)
aggregate_instantaneous_penetration_violation_penalties_model ==
  [NoModel EXCEPT !.declares =
      {"Total_Instantaneous_Penetration_Balance_Penalty_Costs"},
     !.reads = {"INSTANTANEOUS_PENETRATION_ZONES",
      "Instantaneous_Penetration_Overage_MWh_Expression",
      "Instantaneous_Penetration_Shortage_MWh_Expression", "TMPS",
      "discount_factor", "hrs_in_tmp", "number_years_represented", "period",
      "tmp_weight", "violation_penalty_max_penetration_per_mwh",
      "violation_penalty_min_penetration_per_mwh"},
     !.adds = {<<"cost_components",
      "Total_Instantaneous_Penetration_Balance_Penalty_Costs">>}]

(* objective.system.policy.aggregate_carbon_cap_violation_penalties. This      *)
(* module adds carbon cap overage penalty costs to the objective function.     *)
aggregate_carbon_cap_violation_penalties_model ==
  [NoModel EXCEPT !.declares = {"Total_Carbon_Cap_Balance_Penalty_Costs"},
     !.reads = {"CARBON_CAP_ZONE_PERIODS_WITH_CARBON_CAP",
      "Carbon_Cap_Overage_Expression",
      "carbon_cap_violation_penalty_per_emission", "discount_factor",
      "number_years_represented"},
     !.adds = {<<"cost_components",
      "Total_Carbon_Cap_Balance_Penalty_Costs">>}]

(* objective.system.policy.aggregate_carbon_tax_costs. This module             *)
(* aggregates carbon tax costs for use in the objective function.              *)
aggregate_carbon_tax_costs_model ==
  [NoModel EXCEPT !.declares = {"Total_Carbon_Tax_Cost"},
     !.reads = {"CARBON_TAX_ZONE_PERIODS_WITH_CARBON_TAX", "Carbon_Tax_Cost",
      "discount_factor", "number_years_represented"},
     !.adds = {<<"cost_components", "Total_Carbon_Tax_Cost">>}]

(* objective.system.policy.aggregate_performance_standard_violation_penaltie   *)
(* s. This module adds performance standard overage penalty costs to the       *)
(* objective function.                                                         *)
aggregate_performance_standard_violation_penalties_model ==
  [NoModel EXCEPT !.declares =
      {"Total_Performance_Standard_Energy_Balance_Penalty_Costs",
      "Total_Performance_Standard_Power_Balance_Penalty_Costs"},
     !.reads = {"PERFORMANCE_STANDARD_ZONE_PERIODS_WITH_PERFORMANCE_STANDARD",
      "Performance_Standard_Energy_Unit_Overage_Expression",
      "Performance_Standard_Power_Unit_Overage_Expression", "discount_factor",
      "number_years_represented",
      "performance_standard_energy_violation_penalty_per_emission",
      "performance_standard_power_violation_penalty_per_emission"},
     !.adds = {<<"cost_components",
      "Total_Performance_Standard_Energy_Balance_Penalty_Costs">>,
      <<"cost_components",
      "Total_Performance_Standard_Power_Balance_Penalty_Costs">>}]

(* objective.system.policy.aggregate_fuel_burn_limit_violation_penalties.      *)
(* This module adds horizon fuel burn limit overage penalty costs to the       *)
(* objective function.                                                         *)
aggregate_fuel_burn_limit_violation_penalties_model ==
  [NoModel EXCEPT !.declares =
      {"Total_Horizon_Fuel_Burn_Max_Abs_Penalty_Costs",
      "Total_Horizon_Fuel_Burn_Max_Rel_Penalty_Costs",
      "Total_Horizon_Fuel_Burn_Min_Abs_Penalty_Costs"},
     !.reads = {"FUEL_BA_BLN_TYPE_HRZS_WITH_FUEL_BURN_MAX_ABS_LIMIT",
      "FUEL_BA_BLN_TYPE_HRZS_WITH_FUEL_BURN_MAX_REL_LIMIT",
      "FUEL_BA_BLN_TYPE_HRZS_WITH_FUEL_BURN_MIN_ABS_LIMIT",
      "Fuel_Burn_Max_Overage_Abs_Unit_Expression",
      "Fuel_Burn_Max_Overage_Rel_Unit_Expression",
      "Fuel_Burn_Min_Shortage_Abs_Unit_Expression", "discount_factor",
      "fuel_burn_max_violation_penalty_per_unit",
      "fuel_burn_min_violation_penalty_per_unit",
      "fuel_burn_relative_max_violation_penalty_per_unit", "last_hrz_tmp",
      "number_years_represented", "period"},
     !.adds = {<<"cost_components",
      "Total_Horizon_Fuel_Burn_Max_Abs_Penalty_Costs">>, <<"cost_components",
      "Total_Horizon_Fuel_Burn_Max_Rel_Penalty_Costs">>, <<"cost_components",
      "Total_Horizon_Fuel_Burn_Min_Abs_Penalty_Costs">>}]

(* objective.system.policy.aggregate_policy_target_violation_penalties         *)
aggregate_policy_target_violation_penalties_model ==
  [NoModel EXCEPT !.declares = {"Total_Policy_Target_Balance_Penalty_Costs"},
     !.reads = {"POLICIES_ZONE_BLN_TYPE_HRZS_WITH_REQ",
      "POLICIES_ZONE_PRDS_MONTH_HOURS_WITH_REQ",
      "Policy_Month_Hour_Requirement_Shortage_Expression",
      "Policy_Requirement_Shortage_Expression", "discount_factor",
      "last_hrz_tmp", "number_years_represented", "period",
      "policy_zone_violation_penalty_per_unit"},
     !.adds = {<<"cost_components",
      "Total_Policy_Target_Balance_Penalty_Costs">>}]

(* objective.system.policy.aggregate_subsidies. This module aggregates all     *)
(* subsidies and subtracts them from the objective function.                   *)
aggregate_subsidies_model ==
  [NoModel EXCEPT !.declares = {"Total_Subsidies"},
     !.reads = {"PRJ_FIN_PRDS", "Project_Annual_Payment_Reduction_from_Base",
      "Tx_Annual_Payment_Reduction_from_Base", "discount_factor",
      "number_years_represented"},
     !.readsIf = {"TX_FIN_PRDS"},
     !.adds = {<<"cost_components", "Total_Subsidies">>}]

(* objective.system.policy.aggregate_carbon_credit_sales_and_purchases. This   *)
(* module aggregates revenues from carbon credit sales and costs from carbon   *)
(* credit purchases.                                                           *)
aggregate_carbon_credit_sales_and_purchases_model ==
  [NoModel EXCEPT !.declares = {"Total_Carbon_Credit_Costs",
      "Total_Carbon_Credit_Revenue"},
     !.reads = {"Buy_Carbon_Credits", "CARBON_CREDITS_ZONES", "PERIODS",
      "Sell_Carbon_Credits", "carbon_credits_demand_price",
      "carbon_credits_supply_price", "period_objective_coefficient"},
     !.adds = {<<"cost_components", "Total_Carbon_Credit_Costs">>,
      <<"revenue_components", "Total_Carbon_Credit_Revenue">>}]

(* objective.system.reliability.prm.aggregate_capacity_transfer_costs          *)
aggregate_capacity_transfer_costs_model ==
  [NoModel EXCEPT !.declares = {"Total_Capacity_Transfer_Costs"},
     !.reads = {"Capacity_Transfer_Costs_Per_Yr_in_Period", "PERIODS",
      "PRM_ZONES_CAPACITY_TRANSFER_ZONES", "discount_factor",
      "number_years_represented"},
     !.adds = {<<"cost_components", "Total_Capacity_Transfer_Costs">>}]

(* objective.system.reliability.prm.aggregate_prm_violation_penalties          *)
aggregate_prm_violation_penalties_model ==
  [NoModel EXCEPT !.declares = {"Total_PRM_Shortage_Penalty_Costs"},
     !.reads = {"PRM_Shortage_MW_Expression",
      "PRM_ZONE_PERIODS_WITH_REQUIREMENT", "discount_factor",
      "number_years_represented", "prm_violation_penalty_per_mw"},
     !.adds = {<<"cost_components", "Total_PRM_Shortage_Penalty_Costs">>}]

(* objective.system.reliability.local_capacity.aggregate_local_capacity_viol   *)
(* ation_penalties                                                             *)
aggregate_local_capacity_violation_penalties_model ==
  [NoModel EXCEPT !.declares =
      {"Total_Local_Capacity_Shortage_Penalty_Costs"},
     !.reads = {"LOCAL_CAPACITY_ZONE_PERIODS_WITH_REQUIREMENT",
      "Local_Capacity_Shortage_MW_Expression", "discount_factor",
      "local_capacity_violation_penalty_per_mw", "number_years_represented"},
     !.adds = {<<"cost_components",
      "Total_Local_Capacity_Shortage_Penalty_Costs">>}]

(* objective.system.aggregate_market_revenue_and_costs. This module adds       *)
(* market revenue and costs to the objective function components.              *)
aggregate_market_revenue_and_costs_model ==
  [NoModel EXCEPT !.declares = {"Total_Market_Net_Cost"},
     !.reads = {"LZ_MARKETS", "Net_Market_Purchased_Power", "TMPS",
      "discount_factor", "hrs_in_tmp", "market_price",
      "no_market_participation_in_stage", "number_years_represented",
      "period", "tmp_weight"},
     !.adds = {<<"cost_components", "Total_Market_Net_Cost">>}]

(* objective.system.water.aggregate_reservoir_violation_penalty_costs          *)
aggregate_reservoir_violation_penalty_costs_model ==
  [NoModel EXCEPT !.declares =
      {"Total_Max_Water_Storage_Violation_Penalty_Cost",
      "Total_Min_Water_Storage_Violation_Penalty_Cost",
      "Total_Release_Violation_Penalty_Cost"},
     !.reads = {"Max_Reservoir_Storage_Violation",
      "Min_Reservoir_Storage_Violation", "TMPS",
      "Target_Release_Violation_VolUnit", "WATER_NODES_W_RESERVOIRS",
      "WATER_NODE_RESERVOIR_BT_HRZS_WITH_TOTAL_RELEASE_REQUIREMENTS",
      "discount_factor", "hrs_in_tmp", "last_hrz_tmp",
      "max_volume_violation_cost", "min_volume_violation_cost",
      "number_years_represented", "period", "tmp_weight"},
     !.adds = {<<"cost_components",
      "Total_Max_Water_Storage_Violation_Penalty_Cost">>, <<"cost_components",
      "Total_Min_Water_Storage_Violation_Penalty_Cost">>, <<"cost_components",
      "Total_Release_Violation_Penalty_Cost">>}]

(* objective.system.water.aggregate_flow_violation_penalty_costs               *)
aggregate_flow_violation_penalty_costs_model ==
  [NoModel EXCEPT !.declares = {"Total_Hrz_Max_Flow_Violation_Penalty_Cost",
      "Total_Hrz_Min_Flow_Violation_Penalty_Cost",
      "Total_Max_Flow_Violation_Penalty_Cost",
      "Total_Min_Flow_Violation_Penalty_Cost"},
     !.reads = {"TMPS_BY_BLN_TYPE_HRZ",
      "WATER_LINKS_W_BT_HRZ_MAX_FLOW_CONSTRAINT",
      "WATER_LINKS_W_BT_HRZ_MIN_FLOW_CONSTRAINT",
      "WATER_LINK_DEPARTURE_ARRIVAL_TMPS",
      "Water_Link_Hrz_Max_Flow_Violation_Avg_Vol_per_Sec_Expression",
      "Water_Link_Hrz_Min_Flow_Violation_Expression",
      "Water_Link_Max_Flow_Violation_Vol_per_Sec_Expression",
      "Water_Link_Min_Flow_Violation_Vol_per_Sec_Expression",
      "discount_factor", "hrs_in_tmp",
      "hrz_max_flow_violation_penalty_cost_per_hour",
      "hrz_min_flow_violation_penalty_cost_per_hour", "last_hrz_tmp",
      "max_flow_violation_penalty_cost", "min_flow_violation_penalty_cost",
      "number_years_represented", "period", "tmp_weight"},
     !.adds = {<<"cost_components",
      "Total_Hrz_Max_Flow_Violation_Penalty_Cost">>, <<"cost_components",
      "Total_Hrz_Min_Flow_Violation_Penalty_Cost">>, <<"cost_components",
      "Total_Max_Flow_Violation_Penalty_Cost">>, <<"cost_components",
      "Total_Min_Flow_Violation_Penalty_Cost">>}]

(* objective.max_npv. GridPath's objective function consists of modularized    *)
(* components.                                                                 *)
max_npv_model ==
  [NoModel EXCEPT !.takes = {"cost_components", "revenue_components"}]
max_npv_results ==
  [NoResults EXCEPT !.header = Cols("npv.csv", {"cost_components",
      "revenue_components"})]
max_npv_imports == {"npv.csv"}

(* The modules of this package by name.                                        *)
ObjectiveParts ==
  "objective.project.aggregate_capacity_costs" :>
       Parts(project_aggregate_capacity_costs_model, NoLoads, NoWrites,
             NoResults, {})
  @@ "objective.project.aggregate_prm_group_costs" :>
       Parts(aggregate_prm_group_costs_model, NoLoads, NoWrites, NoResults,
             {})
  @@ "objective.project.aggregate_operational_costs" :>
       Parts(aggregate_operational_costs_model, NoLoads, NoWrites, NoResults,
             {})
  @@ "objective.project.aggregate_operational_tuning_costs" :>
       Parts(aggregate_operational_tuning_costs_model, NoLoads, NoWrites,
             NoResults, {})
  @@ "objective.transmission.aggregate_capacity_costs" :>
       Parts(transmission_aggregate_capacity_costs_model, NoLoads, NoWrites,
             NoResults, {})
  @@ "objective.transmission.aggregate_hurdle_costs" :>
       Parts(aggregate_hurdle_costs_model, NoLoads, NoWrites, NoResults, {})
  @@ "objective.transmission.aggregate_tx_tuning_costs" :>
       Parts(aggregate_tx_tuning_costs_model, NoLoads, NoWrites, NoResults,
             {})
  @@ "objective.system.aggregate_load_balance_penalties" :>
       Parts(aggregate_load_balance_penalties_model, NoLoads, NoWrites,
             NoResults, {})
  @@ "objective.system.reserve_violation_penalties.lf_reserves_up" :>
       Parts(reserve_violation_penalties_lf_reserves_up_model, NoLoads,
             NoWrites, NoResults, {})
  @@ "objective.system.reserve_violation_penalties.lf_reserves_down" :>
       Parts(reserve_violation_penalties_lf_reserves_down_model, NoLoads,
             NoWrites, NoResults, {})
  @@ "objective.system.reserve_violation_penalties.regulation_up" :>
       Parts(reserve_violation_penalties_regulation_up_model, NoLoads,
             NoWrites, NoResults, {})
  @@ "objective.system.reserve_violation_penalties.regulation_down" :>
       Parts(reserve_violation_penalties_regulation_down_model, NoLoads,
             NoWrites, NoResults, {})
  @@ "objective.system.reserve_violation_penalties.frequency_response" :>
       Parts(reserve_violation_penalties_frequency_response_model, NoLoads,
             NoWrites, NoResults, {})
  @@ "objective.system.reserve_violation_penalties.spinning_reserves" :>
       Parts(reserve_violation_penalties_spinning_reserves_model, NoLoads,
             NoWrites, NoResults, {})
  @@ "objective.system.reserve_violation_penalties.inertia_reserves" :>
       Parts(reserve_violation_penalties_inertia_reserves_model, NoLoads,
             NoWrites, NoResults, {})
  @@ "objective.system.policy.aggregate_period_energy_target_violation_penalties" :>
       Parts(aggregate_period_energy_target_violation_penalties_model,
             NoLoads, NoWrites, NoResults, {})
  @@ "objective.system.policy.aggregate_horizon_energy_target_violation_penalties" :>
       Parts(aggregate_horizon_energy_target_violation_penalties_model,
             NoLoads, NoWrites, NoResults, {})
  @@ "objective.system.policy.aggregate_transmission_target_violation_penalties" :>
       Parts(aggregate_transmission_target_violation_penalties_model,
             NoLoads, NoWrites, NoResults, {})
  @@ "objective.system.policy.aggregate_instantaneous_penetration_violation_penalties" :>
       Parts(aggregate_instantaneous_penetration_violation_penalties_model,
             NoLoads, NoWrites, NoResults, {})
  @@ "objective.system.policy.aggregate_carbon_cap_violation_penalties" :>
       Parts(aggregate_carbon_cap_violation_penalties_model, NoLoads,
             NoWrites, NoResults, {})
  @@ "objective.system.policy.aggregate_carbon_tax_costs" :>
       Parts(aggregate_carbon_tax_costs_model, NoLoads, NoWrites, NoResults,
             {})
  @@ "objective.system.policy.aggregate_performance_standard_violation_penalties" :>
       Parts(aggregate_performance_standard_violation_penalties_model,
             NoLoads, NoWrites, NoResults, {})
  @@ "objective.system.policy.aggregate_fuel_burn_limit_violation_penalties" :>
       Parts(aggregate_fuel_burn_limit_violation_penalties_model, NoLoads,
             NoWrites, NoResults, {})
  @@ "objective.system.policy.aggregate_policy_target_violation_penalties" :>
       Parts(aggregate_policy_target_violation_penalties_model, NoLoads,
             NoWrites, NoResults, {})
  @@ "objective.system.policy.aggregate_subsidies" :>
       Parts(aggregate_subsidies_model, NoLoads, NoWrites, NoResults, {})
  @@ "objective.system.policy.aggregate_carbon_credit_sales_and_purchases" :>
       Parts(aggregate_carbon_credit_sales_and_purchases_model, NoLoads,
             NoWrites, NoResults, {})
  @@ "objective.system.reliability.prm.aggregate_capacity_transfer_costs" :>
       Parts(aggregate_capacity_transfer_costs_model, NoLoads, NoWrites,
             NoResults, {})
  @@ "objective.system.reliability.prm.aggregate_prm_violation_penalties" :>
       Parts(aggregate_prm_violation_penalties_model, NoLoads, NoWrites,
             NoResults, {})
  @@ "objective.system.reliability.local_capacity.aggregate_local_capacity_violation_penalties" :>
       Parts(aggregate_local_capacity_violation_penalties_model, NoLoads,
             NoWrites, NoResults, {})
  @@ "objective.system.aggregate_market_revenue_and_costs" :>
       Parts(aggregate_market_revenue_and_costs_model, NoLoads, NoWrites,
             NoResults, {})
  @@ "objective.system.water.aggregate_reservoir_violation_penalty_costs" :>
       Parts(aggregate_reservoir_violation_penalty_costs_model, NoLoads,
             NoWrites, NoResults, {})
  @@ "objective.system.water.aggregate_flow_violation_penalty_costs" :>
       Parts(aggregate_flow_violation_penalty_costs_model, NoLoads, NoWrites,
             NoResults, {})
  @@ "objective.max_npv" :>
       Parts(max_npv_model, NoLoads, NoWrites, max_npv_results,
             max_npv_imports)
===============================================================================
