---------------------------- MODULE SystemModules -----------------------------
(* The system modules: load balance, markets, reserves, reliability and water  *)
(* (src/gridpath/system without its policies).                                 *)
EXTENDS ReserveFunctions

(* system.markets.prices                                                       *)
prices_model ==
  [NoModel EXCEPT !.declares = {"market_price"},
     !.over = {"MARKETS", "TMPS"}]
prices_loads == Loads({"market_prices.tab"}, {})
prices_writes == Writes({"market_prices.tab"}, {}, {})

(* system.water.water_system_params. Water system parameters.                  *)
water_system_params_model ==
  [NoModel EXCEPT !.declares = {"theoretical_power_coefficient",
      "water_system_balancing_type"},
     !.over = {"BLN_TYPES"}]
water_system_params_loads == Loads({"water_system_params.tab"}, {})
water_system_params_writes == Writes({"water_system_params.tab"}, {}, {})

(* system.water.water_nodes. Water nodes and inflow rate parameters.           *)
water_nodes_model ==
  [NoModel EXCEPT !.declares = {"WATER_LINKS_FROM_BY_WATER_NODE",
      "WATER_LINKS_TO_BY_WATER_NODE",
      "exogenous_water_inflow_rate_vol_per_sec"},
     !.over = {"TMPS", "WATER_NODES"},
     !.reads = {"WATER_LINKS", "water_node_from", "water_node_to"}]
water_nodes_loads == Loads({"water_inflows.tab"}, {})
water_nodes_writes == Writes({"water_inflows.tab"}, {}, {})

(* system.water.water_flows. Flows across water links.                         *)
water_flows_model ==
  [NoModel EXCEPT !.declares = {"WATER_LINKS_W_BT_HRZ_MAX_FLOW_CONSTRAINT",
      "WATER_LINKS_W_BT_HRZ_MIN_FLOW_CONSTRAINT",
      "WATER_LINK_DEPARTURE_ARRIVAL_TMPS", "Water_Link_Flow_Rate_Vol_per_Sec",
      "Water_Link_Hrz_Max_Flow_Violation_Avg_Vol_per_Sec_Expression",
      "Water_Link_Hrz_Min_Flow_Violation_Avg_Vol_per_Sec_Expression",
      "Water_Link_Max_Flow_Violation_Vol_per_Sec_Expression",
      "Water_Link_Min_Flow_Violation_Vol_per_Sec_Expression",
      "arrival_timepoint", "departure_timepoint",
      "hrz_max_flow_violation_penalty_cost_per_hour",
      "hrz_min_flow_violation_penalty_cost_per_hour",
      "max_flow_violation_penalty_cost", "min_flow_violation_penalty_cost"},
     !.over = {"BLN_TYPE_HRZS", "TMPS", "WATER_LINKS", "WATER_NODES"},
     !.reads = {"TMPS_BY_BLN_TYPE_HRZ", "boundary",
      "exogenous_water_inflow_rate_vol_per_sec", "horizon", "hrs_in_tmp",
      "last_hrz_tmp", "next_tmp", "water_link_flow_transport_time_hours",
      "water_system_balancing_type"}]
water_flows_loads == Loads({"water_flow_params.tab"},
    {"water_flow_hrz_max_bounds.tab", "water_flow_hrz_min_bounds.tab",
    "water_flow_ramp_limit_values.tab", "water_flow_ramp_limits.tab",
    "water_flow_tmp_bounds.tab",
    "water_flow_water_link_upstream_flow_map.tab"})
water_flows_writes == Writes({}, {"water_flow_hrz_max_bounds.tab",
    "water_flow_hrz_min_bounds.tab", "water_flow_params.tab",
    "water_flow_ramp_limit_values.tab", "water_flow_ramp_limits.tab",
    "water_flow_tmp_bounds.tab",
    "water_flow_water_link_upstream_flow_map.tab"}, {})
water_flows_results ==
  [NoResults EXCEPT !.exports = Cols("system_water_link_timepoint.csv",
      {"arrival_timepoint", "departure_timepoint",
      "water_flow_max_violation_vol_per_sec",
      "water_flow_min_violation_vol_per_sec", "water_flow_vol_per_sec",
      "water_link"}) \cup Cols("system_water_link_bt_hrz.csv",
      {"actual_avg_flow_vol_per_second", "adjusted_max_allowed_avg_flow",
      "balancing_type", "horizon", "hrs_in_bt_hrz", "max_allowed_avg_flow",
      "threshold_side_stream_avg_vol_per_second",
      "upstream_exogenous_inflows_avg_vol_per_second",
      "violation_expression_avg_flow_vol_per_second", "water_link"})]
water_flows_imports == {"system_water_link_timepoint.csv"}

(* system.water.water_node_inflows_outflows                                    *)
water_node_inflows_outflows_model ==
  [NoModel EXCEPT !.declares = {"Gross_Water_Node_Inflow_Rate_Vol_Per_Sec",
      "Gross_Water_Node_Outflow_Rate_Vol_per_Sec"},
     !.over = {"TMPS", "WATER_NODES"},
     !.reads = {"WATER_LINKS_FROM_BY_WATER_NODE",
      "WATER_LINKS_TO_BY_WATER_NODE", "Water_Link_Flow_Rate_Vol_per_Sec",
      "arrival_timepoint", "departure_timepoint",
      "exogenous_water_inflow_rate_vol_per_sec"}]

(* system.water.reservoirs. This module defines the reservoir operation for    *)
(* water nodes that have reservoirs.                                           *)
reservoirs_model ==
  [NoModel EXCEPT !.declares =
      {"Discharge_Water_to_Powerhouse_Rate_Vol_Per_Sec",
      "Gross_Reservoir_Release_Rate_Vol_Per_Sec",
      "Max_Reservoir_Storage_Violation", "Min_Reservoir_Storage_Violation",
      "Reservoir_Starting_Elevation_ElevationUnit",
      "Reservoir_Starting_Volume_WaterVolumeUnit",
      "Target_Release_Violation_VolUnit", "WATER_NODES_W_RESERVOIRS",
      "WATER_NODE_RESERVOIR_BT_HRZS_WITH_TOTAL_RELEASE_REQUIREMENTS",
      "elevation_type", "max_volume_violation_cost",
      "min_volume_violation_cost"},
     !.over = {"BLN_TYPE_HRZS", "TMPS", "WATER_NODES"},
     !.reads = {"Gross_Water_Node_Inflow_Rate_Vol_Per_Sec",
      "TMPS_BY_BLN_TYPE_HRZ", "boundary", "first_hrz_tmp", "horizon",
      "hrs_in_tmp", "prev_tmp", "water_system_balancing_type"},
     !.expects = {<<"elevation_type", "elevation_rule">>}]
reservoirs_loads == Loads({"water_node_reservoirs.tab"},
    {"reservoir_max_volume_by_horizon.tab",
    "reservoir_min_volume_by_horizon.tab",
    "reservoir_target_ending_volumes.tab", "reservoir_target_releases.tab",
    "reservoir_target_starting_volumes.tab"})
reservoirs_writes == Writes({}, {"reservoir_max_volume_by_horizon.tab",
    "reservoir_min_volume_by_horizon.tab",
    "reservoir_target_ending_volumes.tab", "reservoir_target_releases.tab",
    "reservoir_target_starting_volumes.tab", "water_node_reservoirs.tab"}, {})

(* system.water.water_node_balance. Defines the mass balance at each node.     *)
water_node_balance_model ==
  [NoModel EXCEPT !.over = {"TMPS", "WATER_NODES"},
     !.reads = {"Gross_Reservoir_Release_Rate_Vol_Per_Sec",
      "Gross_Water_Node_Inflow_Rate_Vol_Per_Sec",
      "Gross_Water_Node_Outflow_Rate_Vol_per_Sec",
      "WATER_LINKS_FROM_BY_WATER_NODE", "WATER_NODES_W_RESERVOIRS"}]
water_node_balance_results ==
  [NoResults EXCEPT !.exports = Cols("system_water_node_timepoint.csv",
      {"discharge_water_to_powerhouse_rate_vol_per_sec",
      "endogenous_water_inflow_rate_vol_per_sec",
      "evap_losses_NOT_IMPLEMENTED",
      "exogenous_water_inflow_rate_vol_per_sec",
      "gross_water_inflow_rate_vol_per_sec",
      "gross_water_outflow_rate_vol_per_sec", "max_volume_violation",
      "min_volume_violation", "spill_water_rate_vol_per_sec",
      "starting_elevation", "starting_volume", "timepoint", "water_node"})
      \cup Cols("system_water_node_bt_hrz.csv",
      {"avg_target_release_violation_flow_volunit_per_sec", "balancing_type",
      "horizon", "reservoir_target_release_avg_flow_volunit_per_sec",
      "total_target_release_violation_volunit", "water_node"})]
water_node_balance_imports == {"system_water_node_timepoint.csv"}

(* system.water.powerhouses                                                    *)
powerhouses_model ==
  [NoModel EXCEPT !.declares = {"POWERHOUSES",
      "Powerhouse_Output_by_Generator"},
     !.over = {"TMPS", "WATER_NODES"},
     !.reads = {"Discharge_Water_to_Powerhouse_Rate_Vol_Per_Sec",
      "Reservoir_Starting_Elevation_ElevationUnit",
      "theoretical_power_coefficient"}]
powerhouses_loads == Loads({"powerhouses.tab", "projects.tab"}, {})
powerhouses_writes == Writes({"powerhouses.tab"}, {}, {})
powerhouses_results ==
  [NoResults EXCEPT !.exports = Cols("system_water_powerhouse_timepoint.csv",
      {"gross_head", "net_head", "powerhouse", "timepoint",
      "water_discharge_to_powerhouse_rate_vol_per_sec", "water_node"})]
powerhouses_imports == {"system_water_powerhouse_timepoint.csv"}

(* system.load_balance                                                         *)
system_load_balance_results ==
  [NoResults EXCEPT !.creates = Cols("load_zone_timepoint_df",
      {"discount_factor", "load_zone", "number_of_hours_in_timepoint",
      "number_years_represented", "period", "timepoint", "timepoint_weight"})]
system_load_balance_imports == {"system_load_zone_period_load_summary.csv",
    "system_load_zone_timepoint.csv",
    "system_load_zone_timepoint_loss_of_load_summary.csv"}

(* system.load_balance.static_load_requirement. This module adds the main      *)
(* load-balance consumption component, the static load requirement to the      *)
(* load-balance constraint.                                                    *)
static_load_requirement_model ==
  [NoModel EXCEPT !.declares = {"LZ_Bulk_Static_Load_in_Tmp",
      "component_static_load_mw"},
     !.over = {"LOAD_ZONES", "TMPS"},
     !.adds = {<<"load_balance_consumption_components",
      "LZ_Bulk_Static_Load_in_Tmp">>}]
static_load_requirement_loads == Loads({"load_component_params.tab",
    "load_mw.tab"}, {})
static_load_requirement_writes == Writes({}, {"load_component_params.tab",
    "load_mw.tab"}, {})
static_load_requirement_results ==
  [NoResults EXCEPT !.assigns = Cols("load_zone_timepoint_df",
      {"static_load_mw"})]

(* system.load_balance.aggregate_project_power. This module, aggregates the    *)
(* power production by all operational projects to create a load-balance       *)
(* production component, and adds it to the load-balance constraint.           *)
aggregate_project_power_model ==
  [NoModel EXCEPT !.declares = {"Bulk_Power_Production_in_Zone_MW"},
     !.over = {"LOAD_ZONES", "TMPS"},
     !.reads = {"Bulk_Power_Provision_MW", "OPR_PRJS_IN_TMP", "load_zone"},
     !.adds = {<<"load_balance_production_components",
      "Bulk_Power_Production_in_Zone_MW">>}]
aggregate_project_power_results ==
  [NoResults EXCEPT !.assigns = Cols("load_zone_timepoint_df",
      {"total_power_mw"})]

(* system.load_balance.aggregate_load_modifier_power. This module,             *)
(* aggregates the power production by all operational projects tagged as       *)
(* demand side.                                                                *)
aggregate_load_modifier_power_model ==
  [NoModel EXCEPT !.declares = {"LZ_Modified_Load_in_Tmp"},
     !.over = {"LOAD_ZONES", "TMPS"},
     !.reads = {"Bulk_Power_Provision_MW", "LZ_Bulk_Static_Load_in_Tmp",
      "OPR_PRJS_IN_TMP", "load_modifier_flag", "load_zone"}]
aggregate_load_modifier_power_results ==
  [NoResults EXCEPT !.assigns = Cols("load_zone_timepoint_df",
      {"load_modifier_adjusted_load_mw", "load_modifier_power_mw"})]

(* system.load_balance.load_following. This module, aggregates the power       *)
(* production by all operational projects tagged as demand side.               *)
load_following_model ==
  [NoModel EXCEPT !.over = {"PRJ_OPR_TMPS"},
     !.reads = {"LZ_Modified_Load_in_Tmp", "load_zone", "operational_type"},
     !.readsFor =
      {<<"project.operations.operational_types.energy_load_following",
      "EnergyLoadFollowing_LZ_Load_in_Tmp">>}]

(* system.load_balance.aggregate_transmission_power. This module aggregates    *)
(* the net power flow in/out of a load zone on all transmission lines          *)
(* connected to the load zone to create a load-balance production component,   *)
(* and adds it to the load-balance constraint.                                 *)
aggregate_transmission_power_model ==
  [NoModel EXCEPT !.declares = {"Transmission_from_Zone_MW",
      "Transmission_to_Zone_MW"},
     !.over = {"LOAD_ZONES", "TMPS"},
     !.reads = {"TX_LINES_OPR_IN_TMP", "Transmit_Power_MW",
      "Tx_Losses_LZ_From_MW", "Tx_Losses_LZ_To_MW", "load_zone_from",
      "load_zone_to"},
     !.adds = {<<"load_balance_consumption_components",
      "Transmission_from_Zone_MW">>, <<"load_balance_production_components",
      "Transmission_to_Zone_MW">>}]
aggregate_transmission_power_results ==
  [NoResults EXCEPT !.assigns = Cols("load_zone_timepoint_df",
      {"net_imports_mw"})]

(* system.markets.market_participation                                         *)
market_participation_model ==
  [NoModel EXCEPT !.declares = {"Final_Net_Market_Purchased_Power",
      "LZ_MARKETS", "MARKETS_BY_LZ", "MARKET_LZS",
      "Net_Market_Purchased_Power", "no_market_participation_in_stage"},
     !.over = {"LOAD_ZONES", "MARKETS", "TMPS"},
     !.reads = {"prev_stage_tmp_map"}]
market_participation_loads == Loads({"load_zone_markets.tab"},
    {"market_positions.tab"})
market_participation_writes == Writes({"load_zone_markets.tab"}, {}, {})
market_participation_results ==
  [NoResults EXCEPT !.exports = Cols("system_market_participation.csv",
      {"buy_power", "discount_factor", "final_buy_power",
      "final_net_buy_power", "final_sell_power", "load_zone", "market",
      "net_buy_power", "number_of_hours_in_timepoint",
      "number_years_represented", "period", "sell_power", "timepoint",
      "timepoint_weight"}) \cup Cols("system_market_summary.csv", {"costs",
      "load_zone", "market", "month", "period", "purchases_mwh", "revenue",
      "sales_mwh"})]
market_participation_imports == {"system_market_participation.csv",
    "system_market_summary.csv"}

(* system.load_balance.aggregate_market_participation. This module             *)
(* aggregates the net market participation by load zone to create a load-      *)
(* balance production component, and adds it to the load-balance constraint.   *)
aggregate_market_participation_model ==
  [NoModel EXCEPT !.declares = {"Total_Final_LZ_Net_Purchased_Power"},
     !.over = {"LOAD_ZONES", "TMPS"},
     !.reads = {"Final_Net_Market_Purchased_Power", "MARKETS_BY_LZ",
      "MARKET_LZS"},
     !.adds = {<<"load_balance_production_components",
      "Total_Final_LZ_Net_Purchased_Power">>}]
aggregate_market_participation_results ==
  [NoResults EXCEPT !.assigns = Cols("load_zone_timepoint_df",
      {"net_market_purchases_mw"})]

(* system.load_balance.load_balance. The load-balance constraint in GridPath   *)
(* consists of production components and consumption components that are       *)
(* added by various GridPath modules depending on the selected features.       *)
load_balance_load_balance_model ==
  [NoModel EXCEPT !.declares = {"Overgeneration_MW_Expression",
      "Unserved_Energy_MW_Expression"},
     !.over = {"LOAD_ZONES", "TMPS"},
     !.reads = {"allow_overgeneration", "allow_unserved_energy", "hrs_in_tmp",
      "max_unserved_load_limit_mw", "tmp_weight",
      "unserved_energy_limit_mwh"},
     !.adds = {<<"load_balance_consumption_components",
      "Overgeneration_MW_Expression">>,
      <<"load_balance_production_components",
      "Unserved_Energy_MW_Expression">>},
     !.takes = {"load_balance_consumption_components",
      "load_balance_production_components"}]
load_balance_load_balance_results ==
  [NoResults EXCEPT !.assigns = Cols("load_zone_timepoint_df",
      {"load_balance_dual", "load_balance_marginal_cost_per_mw",
      "overgeneration_mw", "unserved_energy_mw"}),
     !.exports = Cols("system_load_zone_timepoint_loss_of_load_summary.csv",
      {"day_of_month", "hour_of_day", "load_zone", "month",
      "number_of_hours_in_timepoint", "period", "static_load_mw", "timepoint",
      "timepoint_weight", "unserved_energy_mw",
      "unserved_energy_stats_threshold_mw"}) \cup
      Cols("system_load_zone_period_load_summary.csv", {"load_zone",
      "max_static_load_mw", "period", "total_static_load_mwh"})]

(* system.load_balance.consolidate_results                                     *)
load_balance_consolidate_results_results ==
  [NoResults EXCEPT !.saves = {<<"load_zone_timepoint_df",
      "system_load_zone_timepoint.csv">>}]

(* system.reliability.prm                                                      *)
system_reliability_prm_results ==
  [NoResults EXCEPT !.creates = Cols("prm_zone_period_df", {"discount_factor",
      "number_years_represented", "period", "prm_zone"})]
system_reliability_prm_imports == {"system_prm.csv"}

(* system.reliability.prm.prm_requirement                                      *)
prm_requirement_model ==
  [NoModel EXCEPT !.declares = {"PRM_ZONE_PERIODS_WITH_REQUIREMENT",
      "prm_requirement_mw"},
     !.over = {"PERIODS", "PRM_ZONES"}]
prm_requirement_loads == Loads({"prm_requirement.tab"}, {})
prm_requirement_writes == Writes({"prm_requirement.tab"}, {}, {})
prm_requirement_results ==
  [NoResults EXCEPT !.assigns = Cols("prm_zone_period_df",
      {"prm_requirement_mw"})]

(* system.reliability.local_capacity                                           *)
system_reliability_local_capacity_results ==
  [NoResults EXCEPT !.creates = Cols("local_capacity_zone_period_df",
      {"discount_factor", "local_capacity_zone", "number_years_represented",
      "period"})]
system_reliability_local_capacity_imports == {"system_local_capacity.csv"}

(* system.reliability.local_capacity.local_capacity_requirement                *)
local_capacity_requirement_model ==
  [NoModel EXCEPT !.declares =
      {"LOCAL_CAPACITY_ZONE_PERIODS_WITH_REQUIREMENT",
      "local_capacity_requirement_mw"},
     !.over = {"LOCAL_CAPACITY_ZONES", "PERIODS"}]
local_capacity_requirement_loads == Loads({"local_capacity_requirement.tab"},
    {})
local_capacity_requirement_writes ==
    Writes({"local_capacity_requirement.tab"}, {}, {})
local_capacity_requirement_results ==
  [NoResults EXCEPT !.assigns = Cols("local_capacity_zone_period_df",
      {"local_capacity_requirement_mw"})]

(* system.reserves.requirement.lf_reserves_up                                  *)
requirement_lf_reserves_up_model ==
    ReserveRequirementModel("LF_RESERVES_UP_ZONES", "LF_Up_Requirement")
requirement_lf_reserves_up_loads == ReserveRequirementLoads("lf_reserves_up")
requirement_lf_reserves_up_writes ==
    ReserveRequirementWrites("lf_reserves_up")

(* system.reserves.requirement.lf_reserves_down                                *)
requirement_lf_reserves_down_model ==
    ReserveRequirementModel("LF_RESERVES_DOWN_ZONES", "LF_Down_Requirement")
requirement_lf_reserves_down_loads ==
    ReserveRequirementLoads("lf_reserves_down")
requirement_lf_reserves_down_writes ==
    ReserveRequirementWrites("lf_reserves_down")

(* system.reserves.requirement.regulation_up                                   *)
requirement_regulation_up_model ==
    ReserveRequirementModel("REGULATION_UP_ZONES", "Reg_Up_Requirement")
requirement_regulation_up_loads == ReserveRequirementLoads("regulation_up")
requirement_regulation_up_writes == ReserveRequirementWrites("regulation_up")

(* system.reserves.requirement.regulation_down                                 *)
requirement_regulation_down_model ==
    ReserveRequirementModel("REGULATION_DOWN_ZONES", "Reg_Down_Requirement")
requirement_regulation_down_loads ==
    ReserveRequirementLoads("regulation_down")
requirement_regulation_down_writes ==
    ReserveRequirementWrites("regulation_down")

(* system.reserves.requirement.frequency_response                              *)
requirement_frequency_response_model ==
  [NoModel EXCEPT !.declares = {"Frequency_Response_Requirement",
      "frequency_response_requirement_partial_mw"},
     !.over = {"FREQUENCY_RESPONSE_BAS", "LOAD_ZONES", "PROJECTS", "TMPS"},
     !.reads = {"Availability_Derate", "Bulk_Power_Provision_MW",
      "Capacity_MW", "LZ_Modified_Load_in_Tmp", "PRJ_OPR_TMPS", "period"}]
requirement_frequency_response_loads ==
    ReserveRequirementLoads("frequency_response")
requirement_frequency_response_writes ==
    ReserveRequirementWrites("frequency_response")

(* system.reserves.requirement.spinning_reserves                               *)
requirement_spinning_reserves_model ==
    ReserveRequirementModel("SPINNING_RESERVES_ZONES", "Spin_Requirement")
requirement_spinning_reserves_loads ==
    ReserveRequirementLoads("spinning_reserves")
requirement_spinning_reserves_writes ==
    ReserveRequirementWrites("spinning_reserves")

(* system.reserves.requirement.inertia_reserves                                *)
requirement_inertia_reserves_model ==
  [NoModel EXCEPT !.declares = {"Iner_Requirement_MWs"},
     !.over = {"INERTIA_RESERVES_ZONES", "LOAD_ZONES", "PROJECTS", "TMPS"},
     !.reads = {"Availability_Derate", "Bulk_Power_Provision_MW",
      "Capacity_MW", "LZ_Modified_Load_in_Tmp", "PRJ_OPR_TMPS", "period"}]
requirement_inertia_reserves_loads == Loads({},
    {"inertia_reserves_percent_map.tab",
    "inertia_reserves_percent_requirement.tab",
    "inertia_reserves_requirement_project_contributions.tab",
    "inertia_reserves_requirement_system_param.tab",
    "inertia_reserves_tmp_requirement.tab"})
requirement_inertia_reserves_writes == Writes({},
    {"inertia_reserves_percent_map.tab",
    "inertia_reserves_percent_requirement.tab",
    "inertia_reserves_requirement_project_contributions.tab",
    "inertia_reserves_requirement_system_param.tab",
    "inertia_reserves_tmp_requirement.tab"}, {})

(* system.reserves.aggregation.lf_reserves_up                                  *)
aggregation_lf_reserves_up_model ==
    ReserveAggregationModel("LF_RESERVES_UP_ZONES", "lf_reserves_up_zone",
    "LF_RESERVES_UP_PROJECTS", "Provide_LF_Reserves_Up_MW",
    "Total_LF_Reserves_Up_Provision_MW")

(* system.reserves.aggregation.regulation_up                                   *)
aggregation_regulation_up_model ==
    ReserveAggregationModel("REGULATION_UP_ZONES", "regulation_up_zone",
    "REGULATION_UP_PROJECTS", "Provide_Regulation_Up_MW",
    "Total_Regulation_Up_Provision_MW")

(* system.reserves.aggregation.lf_reserves_down                                *)
aggregation_lf_reserves_down_model ==
    ReserveAggregationModel("LF_RESERVES_DOWN_ZONES", "lf_reserves_down_zone",
    "LF_RESERVES_DOWN_PROJECTS", "Provide_LF_Reserves_Down_MW",
    "Total_LF_Reserves_Down_Provision_MW")

(* system.reserves.aggregation.regulation_down                                 *)
aggregation_regulation_down_model ==
    ReserveAggregationModel("REGULATION_DOWN_ZONES", "regulation_down_zone",
    "REGULATION_DOWN_PROJECTS", "Provide_Regulation_Down_MW",
    "Total_Regulation_Down_Provision_MW")

(* system.reserves.aggregation.frequency_response                              *)
aggregation_frequency_response_model ==
  [NoModel EXCEPT !.declares = {"Total_Frequency_Response_Provision_MW",
      "Total_Partial_Frequency_Response_Provision_MW"},
     !.over = {"FREQUENCY_RESPONSE_BAS", "TMPS"},
     !.reads = {"FREQUENCY_RESPONSE_PARTIAL_PROJECTS",
      "FREQUENCY_RESPONSE_PROJECTS", "OPR_PRJS_IN_TMP",
      "Provide_Frequency_Response_MW", "frequency_response_ba"}]

(* system.reserves.aggregation.spinning_reserves                               *)
aggregation_spinning_reserves_model ==
    ReserveAggregationModel("SPINNING_RESERVES_ZONES",
    "spinning_reserves_zone", "SPINNING_RESERVES_PROJECTS",
    "Provide_Spinning_Reserves_MW", "Total_Spinning_Reserves_Provision_MW")

(* system.reserves.aggregation.inertia_reserves                                *)
aggregation_inertia_reserves_model ==
  [NoModel EXCEPT !.declares = {"Total_Inertia_Reserves_Provision_MWs"},
     !.over = {"INERTIA_RESERVES_ZONES", "TMPS"},
     !.reads = {"INERTIA_RESERVES_PROJECTS", "OPR_PRJS_IN_TMP",
      "Provide_Inertia_Reserves_MWs", "inertia_reserves_zone"}]

(* system.reserves.balance.lf_reserves_up                                      *)
balance_lf_reserves_up_model == ReserveBalanceModel("LF_RESERVES_UP_ZONES",
    "Total_LF_Reserves_Up_Provision_MW", "LF_Up_Requirement",
    "lf_reserves_up_allow_violation",
    "LF_Reserves_Up_Violation_MW_Expression")
balance_lf_reserves_up_results == ReserveBalanceResults("lf_reserves_up")
balance_lf_reserves_up_imports == {"system_lf_reserves_up.csv"}

(* system.reserves.balance.regulation_up                                       *)
balance_regulation_up_model == ReserveBalanceModel("REGULATION_UP_ZONES",
    "Total_Regulation_Up_Provision_MW", "Reg_Up_Requirement",
    "regulation_up_allow_violation", "Regulation_Up_Violation_MW_Expression")
balance_regulation_up_results == ReserveBalanceResults("regulation_up")
balance_regulation_up_imports == {"system_regulation_up.csv"}

(* system.reserves.balance.lf_reserves_down                                    *)
balance_lf_reserves_down_model ==
    ReserveBalanceModel("LF_RESERVES_DOWN_ZONES",
    "Total_LF_Reserves_Down_Provision_MW", "LF_Down_Requirement",
    "lf_reserves_down_allow_violation",
    "LF_Reserves_Down_Violation_MW_Expression")
balance_lf_reserves_down_results == ReserveBalanceResults("lf_reserves_down")
balance_lf_reserves_down_imports == {"system_lf_reserves_down.csv"}

(* system.reserves.balance.regulation_down                                     *)
balance_regulation_down_model == ReserveBalanceModel("REGULATION_DOWN_ZONES",
    "Total_Regulation_Down_Provision_MW", "Reg_Down_Requirement",
    "regulation_down_allow_violation",
    "Regulation_Down_Violation_MW_Expression")
balance_regulation_down_results == ReserveBalanceResults("regulation_down")
balance_regulation_down_imports == {"system_regulation_down.csv"}

(* system.reserves.balance.frequency_response                                  *)
balance_frequency_response_model ==
  [NoModel EXCEPT !.declares = {"Frequency_Response_Partial_Violation_MW",
      "Frequency_Response_Violation_MW_Expression"},
     !.over = {"FREQUENCY_RESPONSE_BAS", "TMPS"},
     !.reads = {"Frequency_Response_Requirement",
      "Total_Frequency_Response_Provision_MW",
      "Total_Partial_Frequency_Response_Provision_MW",
      "frequency_response_allow_violation",
      "frequency_response_requirement_partial_mw"}]
balance_frequency_response_results ==
  [NoResults EXCEPT !.exports = Cols("system_frequency_response.csv",
      {"discount_factor", "dual", "frequency_response_ba",
      "marginal_price_per_mw", "number_of_hours_in_timepoint",
      "number_years_represented", "period", "reserve_provision_mw",
      "reserve_requirement_mw", "reserve_violation_mw", "timepoint",
      "timepoint_weight"}) \cup Cols("system_frequency_response_partial.csv",
      {"discount_factor", "dual", "frequency_response_partial_ba",
      "marginal_price_per_mw", "number_of_hours_in_timepoint",
      "number_years_represented", "period", "reserve_provision_mw",
      "reserve_requirement_mw", "reserve_violation_mw", "timepoint",
      "timepoint_weight"})]
balance_frequency_response_imports == {"system_frequency_response.csv",
    "system_frequency_response_partial.csv"}

(* system.reserves.balance.spinning_reserves                                   *)
balance_spinning_reserves_model ==
    ReserveBalanceModel("SPINNING_RESERVES_ZONES",
    "Total_Spinning_Reserves_Provision_MW", "Spin_Requirement",
    "spinning_reserves_allow_violation",
    "Spinning_Reserves_Violation_MW_Expression")
balance_spinning_reserves_results ==
    ReserveBalanceResults("spinning_reserves")
balance_spinning_reserves_imports == {"system_spinning_reserves.csv"}

(* system.reserves.balance.inertia_reserves                                    *)
balance_inertia_reserves_model ==
  [NoModel EXCEPT !.declares = {"Inertia_Reserves_Violation_MWs_Expression"},
     !.over = {"INERTIA_RESERVES_ZONES", "TMPS"},
     !.reads = {"Iner_Requirement_MWs",
      "Total_Inertia_Reserves_Provision_MWs",
      "inertia_reserves_allow_violation"}]
balance_inertia_reserves_results ==
  [NoResults EXCEPT !.exports = Cols("system_inertia_reserves.csv",
      {"discount_factor", "dual", "inertia_reserves_ba",
      "marginal_price_per_mws", "number_of_hours_in_timepoint",
      "number_years_represented", "period", "reserve_provision_mws",
      "reserve_requirement_mws", "reserve_violation_mws", "timepoint",
      "timepoint_weight"})]
balance_inertia_reserves_imports == {"system_inertia_reserves.csv"}

(* system.reliability.prm.aggregate_project_simple_prm_contribution.           *)
(* Aggregate simple PRM contribution from the project level to the PRM zone    *)
(* level for each period.                                                      *)
aggregate_project_simple_prm_contribution_model ==
  [NoModel EXCEPT !.declares = {"Total_PRM_Simple_Contribution_MW"},
     !.over = {"PRM_ZONE_PERIODS_WITH_REQUIREMENT"},
     !.reads = {"PRM_PRJ_OPR_PRDS", "PRM_PROJECTS_BY_PRM_ZONE",
      "PRM_Simple_Contribution_MW"},
     !.adds = {<<"prm_balance_provision_components",
      "Total_PRM_Simple_Contribution_MW">>}]
aggregate_project_simple_prm_contribution_results ==
  [NoResults EXCEPT !.assigns = Cols("prm_zone_period_df",
      {"elcc_simple_mw"})]

(* system.reliability.prm.capacity_contribution_transfers. Capacity            *)
(* transfers between PRM zones.                                                *)
capacity_contribution_transfers_model ==
  [NoModel EXCEPT !.declares = {"Capacity_Transfer_Costs_Per_Yr_in_Period",
      "Total_Transfers_from_PRM_Zone", "Total_Transfers_to_PRM_Zone"},
     !.over = {"PERIODS", "PRM_ZONES", "PRM_ZONES_CAPACITY_TRANSFER_ZONES",
      "TX_LINES"},
     !.reads = {"TX_OPR_PRDS", "Total_PRM_Simple_Contribution_MW",
      "Tx_Max_Capacity_MW", "Tx_Min_Capacity_MW"},
     !.adds = {<<"prm_balance_provision_components",
      "Total_Transfers_from_PRM_Zone">>, <<"prm_balance_provision_components",
      "Total_Transfers_to_PRM_Zone">>}]
capacity_contribution_transfers_loads == Loads({},
    {"prm_capacity_transfer_params.tab", "prm_transmission_lines.tab"})
capacity_contribution_transfers_writes == Writes({},
    {"prm_capacity_transfer_params.tab", "prm_transmission_lines.tab"}, {})
capacity_contribution_transfers_results ==
  [NoResults EXCEPT !.assigns = Cols("prm_zone_period_df",
      {"capacity_contribution_transferred_from_mw",
      "capacity_contribution_transferred_to_mw"}),
     !.exports = Cols("capacity_contribution_transfers.csv",
      {"capacity_transfer_cost_per_yr_in_period", "capacity_transfer_mw",
      "period", "prm_zone_from", "prm_zone_to"})]
capacity_contribution_transfers_imports ==
    {"capacity_contribution_transfers.csv"}

(* system.reliability.prm.elcc_surface                                         *)
system_reliability_prm_elcc_surface_model ==
  [NoModel EXCEPT !.declares = {"Total_Contribution_from_ELCC_Surfaces"},
     !.over = {"ELCC_SURFACE_PRM_ZONE_PERIODS",
      "PRM_ZONE_PERIODS_WITH_REQUIREMENT"},
     !.reads = {"ELCC_SURFACE_PROJECTS_BY_PRM_ZONE",
      "ELCC_Surface_Contribution_MW", "OPR_PRDS_BY_PRJ", "prm_peak_load_mw"},
     !.adds = {<<"prm_balance_provision_components",
      "Total_Contribution_from_ELCC_Surfaces">>}]
system_reliability_prm_elcc_surface_loads ==
    Loads({"prm_zone_surface_facets_and_intercept.tab"}, {})
system_reliability_prm_elcc_surface_writes ==
    Writes({"prm_zone_surface_facets_and_intercept.tab"}, {}, {})
system_reliability_prm_elcc_surface_results ==
  [NoResults EXCEPT !.assigns = Cols("prm_zone_period_df",
      {"elcc_surface_mw"}),
     !.exports = Cols("prm_elcc_surface.csv", {"elcc_mw", "elcc_surface_name",
      "period", "prm_zone"})]

(* system.reliability.prm.prm_balance. Constraint total PRM contribution to    *)
(* be more than or equal to the requirement.                                   *)
prm_balance_model ==
  [NoModel EXCEPT !.declares = {"PRM_Shortage_MW_Expression"},
     !.over = {"PRM_ZONE_PERIODS_WITH_REQUIREMENT"},
     !.reads = {"prm_allow_violation", "prm_requirement_mw"},
     !.takes = {"prm_balance_provision_components"}]
prm_balance_results ==
  [NoResults EXCEPT !.assigns = Cols("prm_zone_period_df", {"dual",
      "elcc_total_mw", "prm_marginal_cost_per_mw", "prm_shortage_mw"})]

(* system.reliability.prm.consolidate_results                                  *)
prm_consolidate_results_results ==
  [NoResults EXCEPT !.saves = {<<"prm_zone_period_df", "system_prm.csv">>}]

(* system.reliability.local_capacity.aggregate_local_capacity_contribution.    *)
(* Aggregate simple local capacity contribution from the project level to      *)
(* the local-capacity-zone level for each period.                              *)
aggregate_local_capacity_contribution_model ==
  [NoModel EXCEPT !.declares = {"Total_Local_Capacity_Contribution_MW"},
     !.over = {"LOCAL_CAPACITY_ZONE_PERIODS_WITH_REQUIREMENT"},
     !.reads = {"LOCAL_CAPACITY_PRJ_OPR_PRDS",
      "LOCAL_CAPACITY_PROJECTS_BY_LOCAL_CAPACITY_ZONE",
      "Local_Capacity_Contribution_MW"},
     !.adds = {<<"local_capacity_balance_provision_components",
      "Total_Local_Capacity_Contribution_MW">>}]
aggregate_local_capacity_contribution_results ==
  [NoResults EXCEPT !.assigns = Cols("local_capacity_zone_period_df",
      {"project_contribution_mw"})]

(* system.reliability.local_capacity.local_capacity_balance. Constraint        *)
(* total local capacity contribution to be more than or equal to the           *)
(* requirement.                                                                *)
local_capacity_balance_model ==
  [NoModel EXCEPT !.declares = {"Local_Capacity_Shortage_MW_Expression"},
     !.over = {"LOCAL_CAPACITY_ZONE_PERIODS_WITH_REQUIREMENT"},
     !.reads = {"local_capacity_allow_violation",
      "local_capacity_requirement_mw"},
     !.takes = {"local_capacity_balance_provision_components"}]
local_capacity_balance_results ==
  [NoResults EXCEPT !.assigns = Cols("local_capacity_zone_period_df", {"dual",
      "local_capacity_marginal_cost_per_mw", "local_capacity_provision_mw",
      "local_capacity_shortage_mw"})]

(* system.reliability.local_capacity.consolidate_results                       *)
local_capacity_consolidate_results_results ==
  [NoResults EXCEPT !.saves = {<<"local_capacity_zone_period_df",
      "system_local_capacity.csv">>}]

(* system.markets.volume                                                       *)
volume_model ==
  [NoModel EXCEPT !.over = {"MARKETS", "PERIODS", "TMPS"},
     !.reads = {"Final_Net_Market_Purchased_Power", "LZ_MARKETS",
      "Net_Market_Purchased_Power", "PRJ_OPR_TMPS", "TMPS_IN_PRD",
      "hrs_in_tmp", "operational_type", "tmp_weight"},
     !.readsFor = {<<"project.operations.operational_types.stor",
      "Stor_Charge_MW">>, <<"project.operations.operational_types.stor",
      "Stor_Discharge_MW">>}]
volume_loads == Loads({}, {"market_volume.tab",
    "market_volume_totals_in_prd.tab", "market_volume_totals_in_tmp.tab"})
volume_writes == Writes({}, {"market_volume.tab",
    "market_volume_totals_in_prd.tab", "market_volume_totals_in_tmp.tab"}, {})

(* system.water.elevation_types.constant                                       *)
constant_model ==
  [NoModel EXCEPT !.over = {"WATER_NODES_W_RESERVOIRS"},
     !.reads = {"elevation_type"}]
constant_functions ==
  [elevation_rule |-> {}]
constant_loads == Loads({"reservoir_constant_elevations.tab"}, {})
constant_writes == Writes({"reservoir_constant_elevations.tab"}, {}, {})

(* system.water.elevation_types.endogenous. Water nodes and connections for    *)
(* modeling cascading hydro systems.                                           *)
endogenous_model ==
  [NoModel EXCEPT !.over = {"TMPS", "WATER_NODES_W_RESERVOIRS"},
     !.reads = {"Reservoir_Starting_Volume_WaterVolumeUnit"}]
endogenous_functions ==
  [elevation_rule |-> {}]
endogenous_loads == Loads({"reservoir_volume_to_elevation_curves.tab"}, {})
endogenous_writes == Writes({"reservoir_volume_to_elevation_curves.tab"}, {},
    {})

(* system.water.elevation_types.exogenous                                      *)
elevation_types_exogenous_model ==
  [NoModel EXCEPT !.over = {"TMPS", "WATER_NODES_W_RESERVOIRS"},
     !.reads = {"elevation_type"}]
elevation_types_exogenous_functions ==
  [elevation_rule |-> {}]
elevation_types_exogenous_loads ==
    Loads({"reservoir_exogenous_elevations.tab"}, {})
elevation_types_exogenous_writes ==
    Writes({"reservoir_exogenous_elevations.tab"}, {}, {})

(* The modules of this package by name.                                        *)
SystemParts ==
  "system.markets.prices" :>
       Parts(prices_model, prices_loads, prices_writes, NoResults, {})
  @@ "system.water.water_system_params" :>
       Parts(water_system_params_model, water_system_params_loads,
             water_system_params_writes, NoResults, {})
  @@ "system.water.water_nodes" :>
       Parts(water_nodes_model, water_nodes_loads, water_nodes_writes,
             NoResults, {})
  @@ "system.water.water_flows" :>
       Parts(water_flows_model, water_flows_loads, water_flows_writes,
             water_flows_results, water_flows_imports)
  @@ "system.water.water_node_inflows_outflows" :>
       Parts(water_node_inflows_outflows_model, NoLoads, NoWrites, NoResults,
             {})
  @@ "system.water.reservoirs" :>
       Parts(reservoirs_model, reservoirs_loads, reservoirs_writes,
             NoResults, {})
  @@ "system.water.water_node_balance" :>
       Parts(water_node_balance_model, NoLoads, NoWrites,
             water_node_balance_results, water_node_balance_imports)
  @@ "system.water.powerhouses" :>
       Parts(powerhouses_model, powerhouses_loads, powerhouses_writes,
             powerhouses_results, powerhouses_imports)
  @@ "system.load_balance" :>
       Parts(NoModel, NoLoads, NoWrites, system_load_balance_results,
             system_load_balance_imports)
  @@ "system.load_balance.static_load_requirement" :>
       Parts(static_load_requirement_model, static_load_requirement_loads,
             static_load_requirement_writes, static_load_requirement_results,
             {})
  @@ "system.load_balance.aggregate_project_power" :>
       Parts(aggregate_project_power_model, NoLoads, NoWrites,
             aggregate_project_power_results, {})
  @@ "system.load_balance.aggregate_load_modifier_power" :>
       Parts(aggregate_load_modifier_power_model, NoLoads, NoWrites,
             aggregate_load_modifier_power_results, {})
  @@ "system.load_balance.load_following" :>
       Parts(load_following_model, NoLoads, NoWrites, NoResults, {})
  @@ "system.load_balance.aggregate_transmission_power" :>
       Parts(aggregate_transmission_power_model, NoLoads, NoWrites,
             aggregate_transmission_power_results, {})
  @@ "system.markets.market_participation" :>
       Parts(market_participation_model, market_participation_loads,
             market_participation_writes, market_participation_results,
             market_participation_imports)
  @@ "system.markets.fix_market_participation" :>
       Parts(NoModel, NoLoads, NoWrites, NoResults, {})
  @@ "system.load_balance.aggregate_market_participation" :>
       Parts(aggregate_market_participation_model, NoLoads, NoWrites,
             aggregate_market_participation_results, {})
  @@ "system.load_balance.load_balance" :>
       Parts(load_balance_load_balance_model, NoLoads, NoWrites,
             load_balance_load_balance_results, {})
  @@ "system.load_balance.consolidate_results" :>
       Parts(NoModel, NoLoads, NoWrites,
             load_balance_consolidate_results_results, {})
  @@ "system.reliability.prm" :>
       Parts(NoModel, NoLoads, NoWrites, system_reliability_prm_results,
             system_reliability_prm_imports)
  @@ "system.reliability.prm.prm_requirement" :>
       Parts(prm_requirement_model, prm_requirement_loads,
             prm_requirement_writes, prm_requirement_results, {})
  @@ "system.reliability.local_capacity" :>
       Parts(NoModel, NoLoads, NoWrites,
             system_reliability_local_capacity_results,
             system_reliability_local_capacity_imports)
  @@ "system.reliability.local_capacity.local_capacity_requirement" :>
       Parts(local_capacity_requirement_model,
             local_capacity_requirement_loads,
             local_capacity_requirement_writes,
             local_capacity_requirement_results, {})
  @@ "system.reserves.requirement.lf_reserves_up" :>
       Parts(requirement_lf_reserves_up_model,
             requirement_lf_reserves_up_loads,
             requirement_lf_reserves_up_writes, NoResults, {})
  @@ "system.reserves.requirement.lf_reserves_down" :>
       Parts(requirement_lf_reserves_down_model,
             requirement_lf_reserves_down_loads,
             requirement_lf_reserves_down_writes, NoResults, {})
  @@ "system.reserves.requirement.regulation_up" :>
       Parts(requirement_regulation_up_model,
             requirement_regulation_up_loads,
             requirement_regulation_up_writes, NoResults, {})
  @@ "system.reserves.requirement.regulation_down" :>
       Parts(requirement_regulation_down_model,
             requirement_regulation_down_loads,
             requirement_regulation_down_writes, NoResults, {})
  @@ "system.reserves.requirement.frequency_response" :>
       Parts(requirement_frequency_response_model,
             requirement_frequency_response_loads,
             requirement_frequency_response_writes, NoResults, {})
  @@ "system.reserves.requirement.spinning_reserves" :>
       Parts(requirement_spinning_reserves_model,
             requirement_spinning_reserves_loads,
             requirement_spinning_reserves_writes, NoResults, {})
  @@ "system.reserves.requirement.inertia_reserves" :>
       Parts(requirement_inertia_reserves_model,
             requirement_inertia_reserves_loads,
             requirement_inertia_reserves_writes, NoResults, {})
  @@ "system.reserves.aggregation.lf_reserves_up" :>
       Parts(aggregation_lf_reserves_up_model, NoLoads, NoWrites, NoResults,
             {})
  @@ "system.reserves.aggregation.regulation_up" :>
       Parts(aggregation_regulation_up_model, NoLoads, NoWrites, NoResults,
             {})
  @@ "system.reserves.aggregation.lf_reserves_down" :>
       Parts(aggregation_lf_reserves_down_model, NoLoads, NoWrites,
             NoResults, {})
  @@ "system.reserves.aggregation.regulation_down" :>
       Parts(aggregation_regulation_down_model, NoLoads, NoWrites, NoResults,
             {})
  @@ "system.reserves.aggregation.frequency_response" :>
       Parts(aggregation_frequency_response_model, NoLoads, NoWrites,
             NoResults, {})
  @@ "system.reserves.aggregation.spinning_reserves" :>
       Parts(aggregation_spinning_reserves_model, NoLoads, NoWrites,
             NoResults, {})
  @@ "system.reserves.aggregation.inertia_reserves" :>
       Parts(aggregation_inertia_reserves_model, NoLoads, NoWrites,
             NoResults, {})
  @@ "system.reserves.balance.lf_reserves_up" :>
       Parts(balance_lf_reserves_up_model, NoLoads, NoWrites,
             balance_lf_reserves_up_results, balance_lf_reserves_up_imports)
  @@ "system.reserves.balance.regulation_up" :>
       Parts(balance_regulation_up_model, NoLoads, NoWrites,
             balance_regulation_up_results, balance_regulation_up_imports)
  @@ "system.reserves.balance.lf_reserves_down" :>
       Parts(balance_lf_reserves_down_model, NoLoads, NoWrites,
             balance_lf_reserves_down_results,
             balance_lf_reserves_down_imports)
  @@ "system.reserves.balance.regulation_down" :>
       Parts(balance_regulation_down_model, NoLoads, NoWrites,
             balance_regulation_down_results,
             balance_regulation_down_imports)
  @@ "system.reserves.balance.frequency_response" :>
       Parts(balance_frequency_response_model, NoLoads, NoWrites,
             balance_frequency_response_results,
             balance_frequency_response_imports)
  @@ "system.reserves.balance.spinning_reserves" :>
       Parts(balance_spinning_reserves_model, NoLoads, NoWrites,
             balance_spinning_reserves_results,
             balance_spinning_reserves_imports)
  @@ "system.reserves.balance.inertia_reserves" :>
       Parts(balance_inertia_reserves_model, NoLoads, NoWrites,
             balance_inertia_reserves_results,
             balance_inertia_reserves_imports)
  @@ "system.reliability.prm.aggregate_project_simple_prm_contribution" :>
       Parts(aggregate_project_simple_prm_contribution_model, NoLoads,
             NoWrites, aggregate_project_simple_prm_contribution_results, {})
  @@ "system.reliability.prm.capacity_contribution_transfers" :>
       Parts(capacity_contribution_transfers_model,
             capacity_contribution_transfers_loads,
             capacity_contribution_transfers_writes,
             capacity_contribution_transfers_results,
             capacity_contribution_transfers_imports)
  @@ "system.reliability.prm.elcc_surface" :>
       Parts(system_reliability_prm_elcc_surface_model,
             system_reliability_prm_elcc_surface_loads,
             system_reliability_prm_elcc_surface_writes,
             system_reliability_prm_elcc_surface_results, {})
  @@ "system.reliability.prm.prm_balance" :>
       Parts(prm_balance_model, NoLoads, NoWrites, prm_balance_results, {})
  @@ "system.reliability.prm.consolidate_results" :>
       Parts(NoModel, NoLoads, NoWrites, prm_consolidate_results_results, {})
  @@ "system.reliability.local_capacity.aggregate_local_capacity_contribution" :>
       Parts(aggregate_local_capacity_contribution_model, NoLoads, NoWrites,
             aggregate_local_capacity_contribution_results, {})
  @@ "system.reliability.local_capacity.local_capacity_balance" :>
       Parts(local_capacity_balance_model, NoLoads, NoWrites,
             local_capacity_balance_results, {})
  @@ "system.reliability.local_capacity.consolidate_results" :>
       Parts(NoModel, NoLoads, NoWrites,
             local_capacity_consolidate_results_results, {})
  @@ "system.markets.volume" :>
       Parts(volume_model, volume_loads, volume_writes, NoResults, {})
  @@ "system.water.elevation_types.constant" :>
       Parts(constant_model, constant_loads, constant_writes, NoResults, {})
  @@ "system.water.elevation_types.endogenous" :>
       Parts(endogenous_model, endogenous_loads, endogenous_writes,
             NoResults, {})
  @@ "system.water.elevation_types.exogenous" :>
       Parts(elevation_types_exogenous_model,
             elevation_types_exogenous_loads,
             elevation_types_exogenous_writes, NoResults, {})

(* The functions the types offer to the modules that load them.                *)
SystemFunctions ==
  "system.water.elevation_types.constant" :> constant_functions
  @@ "system.water.elevation_types.endogenous" :> endogenous_functions
  @@ "system.water.elevation_types.exogenous" :>
       elevation_types_exogenous_functions
===============================================================================
