---------------------------- MODULE PolicyModules -----------------------------
(* The policy modules: energy and transmission targets, carbon caps, taxes and *)
(* credits, performance standards, fuel burn limits, instantaneous             *)
(* penetration, subsidies and generic policies (src/gridpath/system/policy).   *)
EXTENDS GridPathModule

(* system.policy.energy_targets                                                *)
energy_targets_results ==
  [NoResults EXCEPT !.creates = Cols("energy_target_zone_period_df",
      {"discount_factor", "energy_target_zone", "number_years_represented",
      "period"}) \cup Cols("energy_target_zone_horizon_df", {"balancing_type",
      "energy_target_zone", "horizon"})]
energy_targets_imports == {"system_horizon_energy_target.csv",
    "system_period_energy_target.csv"}

(* system.policy.energy_targets.period_energy_target                           *)
period_energy_target_model ==
  [NoModel EXCEPT !.declares =
      {"ENERGY_TARGET_ZONE_PERIODS_WITH_ENERGY_TARGET",
      "Period_Energy_Target"},
     !.over = {"ENERGY_TARGET_ZONES", "LOAD_ZONES", "PERIODS"},
     !.reads = {"LZ_Modified_Load_in_Tmp", "TMPS", "TMPS_IN_PRD",
      "hrs_in_tmp", "tmp_weight"}]
period_energy_target_loads == Loads({"period_energy_targets.tab"},
    {"period_energy_target_load_zone_map.tab"})
period_energy_target_writes == Writes({"period_energy_targets.tab"},
    {"period_energy_target_load_zone_map.tab"}, {})

(* system.policy.energy_targets.horizon_energy_target. Simplest                *)
(* implementation with a MWh target by balancing type horizon.                 *)
horizon_energy_target_model ==
  [NoModel EXCEPT !.declares =
      {"ENERGY_TARGET_ZONE_BLN_TYPE_HRZS_WITH_ENERGY_TARGET",
      "Horizon_Energy_Target"},
     !.over = {"BLN_TYPE_HRZS", "ENERGY_TARGET_ZONES", "LOAD_ZONES"},
     !.reads = {"LZ_Modified_Load_in_Tmp", "TMPS", "TMPS_BY_BLN_TYPE_HRZ",
      "hrs_in_tmp", "tmp_weight"}]
horizon_energy_target_loads == Loads({"horizon_energy_targets.tab"},
    {"horizon_energy_target_load_zone_map.tab"})
horizon_energy_target_writes == Writes({"horizon_energy_targets.tab"},
    {"horizon_energy_target_load_zone_map.tab"}, {})

(* system.policy.transmission_targets                                          *)
transmission_targets_results ==
  [NoResults EXCEPT !.creates = Cols("transmission_target_z_bt_hz_df",
      {"balancing_type", "horizon", "hrz_objective_coefficient",
      "transmission_target_zone"})]
transmission_targets_imports == {"system_transmission_targets.csv"}

(* system.policy.transmission_targets.transmission_target. Min and max         *)
(* transmission targets by balancing type, horizon, and direction.             *)
transmission_target_model ==
  [NoModel EXCEPT !.declares =
      {"TRANSMISSION_TARGET_ZONE_BLN_TYPE_HRZS_WITH_TRANSMISSION_TARGET",
      "transmission_target_neg_dir_max_mwh",
      "transmission_target_neg_dir_min_mwh",
      "transmission_target_pos_dir_max_mwh",
      "transmission_target_pos_dir_min_mwh"},
     !.over = {"BLN_TYPE_HRZS", "TRANSMISSION_TARGET_ZONES"}]
transmission_target_loads == Loads({"transmission_targets.tab"}, {})
transmission_target_writes == Writes({"transmission_targets.tab"}, {}, {})
transmission_target_results ==
  [NoResults EXCEPT !.assigns = Cols("transmission_target_z_bt_hz_df",
      {"transmission_target_neg_dir_max_mwh",
      "transmission_target_neg_dir_min_mwh",
      "transmission_target_pos_dir_max_mwh",
      "transmission_target_pos_dir_min_mwh"})]

(* system.policy.carbon_cap                                                    *)
policy_carbon_cap_results ==
  [NoResults EXCEPT !.creates = Cols("carbon_cap_zone_period_df",
      {"carbon_cap_zone", "discount_factor", "number_years_represented",
      "period"})]
policy_carbon_cap_imports == {"system_carbon_cap.csv"}

(* system.policy.carbon_cap.carbon_cap                                         *)
carbon_cap_carbon_cap_model ==
  [NoModel EXCEPT !.declares = {"CARBON_CAP_ZONE_PERIODS_WITH_CARBON_CAP",
      "carbon_cap_target"},
     !.over = {"CARBON_CAP_ZONES", "PERIODS"}]
carbon_cap_carbon_cap_loads == Loads({"carbon_cap.tab"}, {})
carbon_cap_carbon_cap_writes == Writes({"carbon_cap.tab"}, {}, {})
carbon_cap_carbon_cap_results ==
  [NoResults EXCEPT !.assigns = Cols("carbon_cap_zone_period_df",
      {"carbon_cap_target"})]

(* system.policy.carbon_tax                                                    *)
policy_carbon_tax_results ==
  [NoResults EXCEPT !.creates = Cols("carbon_tax_zone_period_df",
      {"carbon_tax_zone", "discount_factor", "number_years_represented",
      "period"})]
policy_carbon_tax_imports == {"system_carbon_tax.csv"}

(* system.policy.carbon_tax.carbon_tax                                         *)
carbon_tax_carbon_tax_model ==
  [NoModel EXCEPT !.declares = {"CARBON_TAX_ZONE_PERIODS_WITH_CARBON_TAX",
      "carbon_tax"},
     !.over = {"CARBON_TAX_ZONES", "PERIODS"}]
carbon_tax_carbon_tax_loads == Loads({"carbon_tax.tab"}, {})
carbon_tax_carbon_tax_writes == Writes({"carbon_tax.tab"}, {}, {})

(* system.policy.performance_standard                                          *)
policy_performance_standard_results ==
  [NoResults EXCEPT !.creates = Cols("performance_standard_z_prd_df",
      {"discount_factor", "number_years_represented",
      "performance_standard_zone", "period"})]
policy_performance_standard_imports == {"system_performance_standard.csv"}

(* system.policy.performance_standard.performance_standard                     *)
performance_standard_performance_standard_model ==
  [NoModel EXCEPT !.declares =
      {"PERFORMANCE_STANDARD_ZONE_PERIODS_WITH_PERFORMANCE_STANDARD",
      "performance_standard_tco2_per_mw",
      "performance_standard_tco2_per_mwh"},
     !.over = {"PERFORMANCE_STANDARD_ZONES", "PERIODS"}]
performance_standard_performance_standard_loads ==
    Loads({"performance_standard.tab"}, {})
performance_standard_performance_standard_writes ==
    Writes({"performance_standard.tab"}, {}, {})
performance_standard_performance_standard_results ==
  [NoResults EXCEPT !.assigns = Cols("performance_standard_z_prd_df",
      {"performance_standard_tco2_per_mw",
      "performance_standard_tco2_per_mwh"})]

(* system.policy.fuel_burn_limits                                              *)
policy_fuel_burn_limits_results ==
  [NoResults EXCEPT !.creates = Cols("fuel_burn_limits_df", {"balancing_type",
      "discount_factor", "fuel_burn_limit_ba", "horizon",
      "number_years_represented"})]
policy_fuel_burn_limits_imports == {"system_fuel_burn_limits.csv"}

(* system.policy.fuel_burn_limits.fuel_burn_limits. Fuel burn limit for each   *)
(* fuel burn balancing area.                                                   *)
fuel_burn_limits_fuel_burn_limits_model ==
  [NoModel EXCEPT !.declares = {"FUEL_BA_BLN_TYPE_HRZS_WITH_FUEL_BURN_LIMIT",
      "FUEL_BA_BLN_TYPE_HRZS_WITH_FUEL_BURN_MAX_ABS_LIMIT",
      "FUEL_BA_BLN_TYPE_HRZS_WITH_FUEL_BURN_MAX_REL_LIMIT",
      "FUEL_BA_BLN_TYPE_HRZS_WITH_FUEL_BURN_MIN_ABS_LIMIT",
      "fraction_of_relative_fuel_burn_max_fuel_ba", "fuel_burn_max_unit",
      "fuel_burn_min_unit", "relative_fuel_burn_max_ba"},
     !.over = {"BLN_TYPE_HRZS", "FUEL_BURN_LIMIT_BAS"}]
fuel_burn_limits_fuel_burn_limits_loads == Loads({"fuel_burn_limits.tab"}, {})
fuel_burn_limits_fuel_burn_limits_writes == Writes({"fuel_burn_limits.tab"},
    {}, {})

(* system.policy.generic_policy                                                *)
policy_generic_policy_results ==
  [NoResults EXCEPT !.creates = Cols("policy_zone_period_df",
      {"balancing_type_horizon", "horizon", "policy_name", "policy_zone"})
      \cup Cols("policy_month_hour_df", {"period", "policy_hour",
      "policy_month", "policy_name", "policy_zone"})]
policy_generic_policy_imports == {"system_month_hour_policy_requirements.csv",
    "system_policy_requirements.csv"}

(* system.policy.generic_policy.generic_policy_requirements                    *)
generic_policy_requirements_model ==
  [NoModel EXCEPT !.declares = {"POLICIES_ZONE_BLN_TYPE_HRZS_WITH_REQ",
      "POLICIES_ZONE_PRDS_MONTH_HOURS_WITH_REQ",
      "Policy_Zone_Horizon_Requirement",
      "Policy_Zone_Month_Hour_Requirement"},
     !.over = {"BLN_TYPE_HRZS", "LOAD_ZONES", "POLICIES_ZONES"},
     !.reads = {"LZ_Modified_Load_in_Tmp", "TMPS", "TMPS_BY_BLN_TYPE_HRZ",
      "hrs_in_tmp", "tmp_weight"}]
generic_policy_requirements_loads == Loads({},
    {"policy_month_hour_requirements.tab", "policy_requirements.tab",
    "policy_zone_load_zone_map.tab"})
generic_policy_requirements_writes == Writes({},
    {"policy_month_hour_requirements.tab", "policy_requirements.tab",
    "policy_zone_load_zone_map.tab"}, {})
generic_policy_requirements_results ==
  [NoResults EXCEPT !.assigns = Cols("policy_zone_period_df",
      {"policy_requirement"}) \cup Cols("policy_month_hour_df",
      {"policy_month_hour_requirement"})]

(* system.policy.instantaneous_penetration.instantaneous_penetration_require   *)
(* ments                                                                       *)
instantaneous_penetration_requirements_model ==
  [NoModel EXCEPT !.declares = {"Inst_Pen_Requirement_max",
      "Inst_Pen_Requirement_min"},
     !.over = {"INSTANTANEOUS_PENETRATION_ZONES", "LOAD_ZONES", "PROJECTS",
      "TMPS"},
     !.reads = {"Availability_Derate", "Bulk_Power_Provision_MW",
      "Capacity_MW", "LZ_Modified_Load_in_Tmp", "PRJ_OPR_TMPS", "period"}]
instantaneous_penetration_requirements_loads ==
    Loads({"instantaneous_penetration_tmp_requirement.tab"},
    {"instantaneous_penetration_percent_map.tab",
    "instantaneous_penetration_percent_requirement.tab",
    "instantaneous_penetration_requirement_project_contributions.tab"})
instantaneous_penetration_requirements_writes == Writes({},
    {"instantaneous_penetration_percent_map.tab",
    "instantaneous_penetration_percent_requirement.tab",
    "instantaneous_penetration_requirement_project_contributions.tab",
    "instantaneous_penetration_tmp_requirement.tab"}, {})

(* system.policy.energy_targets.aggregate_period_energy_target_contributions   *)
(* . Aggregate delivered energy-target-eligible power from the project-        *)
(* timepoint level to the energy-target zone - period level.                   *)
aggregate_period_energy_target_contributions_model ==
  [NoModel EXCEPT !.declares =
      {"Total_Delivered_Period_Energy_Target_Energy_MWh"},
     !.over = {"ENERGY_TARGET_ZONE_PERIODS_WITH_ENERGY_TARGET"},
     !.reads = {"ENERGY_TARGET_PRJS_BY_ENERGY_TARGET_ZONE",
      "ENERGY_TARGET_PRJ_OPR_TMPS", "Scheduled_Curtailment_MW",
      "Scheduled_Energy_Target_Energy_MW", "Subhourly_Curtailment_MW",
      "Subhourly_Energy_Target_Energy_MW", "TMPS_IN_PRD", "hrs_in_tmp",
      "tmp_weight"}]
aggregate_period_energy_target_contributions_results ==
  [NoResults EXCEPT !.assigns = Cols("energy_target_zone_period_df",
      {"curtailed_energy_target_energy_mwh",
      "delivered_energy_target_energy_mwh"})]

(* system.policy.energy_targets.aggregate_horizon_energy_target_contribution   *)
(* s. Aggregate delivered energy-target-eligible power from the project-       *)
(* timepoint level to the energy-target zone - balancing type - horizon        *)
(* level.                                                                      *)
aggregate_horizon_energy_target_contributions_model ==
  [NoModel EXCEPT !.declares =
      {"Total_Delivered_Horizon_Energy_Target_Energy_MWh"},
     !.over = {"ENERGY_TARGET_ZONE_BLN_TYPE_HRZS_WITH_ENERGY_TARGET"},
     !.reads = {"ENERGY_TARGET_PRJS_BY_ENERGY_TARGET_ZONE",
      "ENERGY_TARGET_PRJ_OPR_TMPS", "Scheduled_Curtailment_MW",
      "Scheduled_Energy_Target_Energy_MW", "Subhourly_Curtailment_MW",
      "Subhourly_Energy_Target_Energy_MW", "TMPS_BY_BLN_TYPE_HRZ",
      "hrs_in_tmp", "tmp_weight"}]
aggregate_horizon_energy_target_contributions_results ==
  [NoResults EXCEPT !.assigns = Cols("energy_target_zone_horizon_df",
      {"curtailed_energy_target_energy_mwh",
      "delivered_energy_target_energy_mwh"})]

(* system.policy.energy_targets.period_energy_target_balance. Simplest         *)
(* implementation with a MWh target by period.                                 *)
period_energy_target_balance_model ==
  [NoModel EXCEPT !.declares =
      {"Period_Energy_Target_Shortage_MWh_Expression"},
     !.over = {"ENERGY_TARGET_ZONE_PERIODS_WITH_ENERGY_TARGET"},
     !.reads = {"Period_Energy_Target",
      "Total_Delivered_Period_Energy_Target_Energy_MWh",
      "energy_target_allow_violation"}]
period_energy_target_balance_results ==
  [NoResults EXCEPT !.assigns = Cols("energy_target_zone_period_df", {"dual",
      "energy_target_marginal_cost_per_mwh", "energy_target_mwh",
      "energy_target_shortage_mwh",
      "fraction_of_energy_target_energy_curtailed",
      "fraction_of_energy_target_met", "total_energy_target_energy_mwh"})]

(* system.policy.energy_targets.horizon_energy_target_balance. Simplest        *)
(* implementation with a MWh target by horizon.                                *)
horizon_energy_target_balance_model ==
  [NoModel EXCEPT !.declares =
      {"Horizon_Energy_Target_Shortage_MWh_Expression"},
     !.over = {"ENERGY_TARGET_ZONE_BLN_TYPE_HRZS_WITH_ENERGY_TARGET"},
     !.reads = {"Horizon_Energy_Target",
      "Total_Delivered_Horizon_Energy_Target_Energy_MWh",
      "energy_target_allow_violation"}]
horizon_energy_target_balance_results ==
  [NoResults EXCEPT !.assigns = Cols("energy_target_zone_horizon_df", {"dual",
      "energy_target_marginal_cost_per_mwh", "energy_target_mwh",
      "energy_target_shortage_mwh",
      "fraction_of_energy_target_energy_curtailed",
      "fraction_of_energy_target_met", "total_energy_target_energy_mwh"})]

(* system.policy.energy_targets.consolidate_results                            *)
energy_targets_consolidate_results_results ==
  [NoResults EXCEPT !.saves = {<<"energy_target_zone_horizon_df",
      "system_horizon_energy_target.csv">>, <<"energy_target_zone_period_df",
      "system_period_energy_target.csv">>}]

(* system.policy.instantaneous_penetration.instantaneous_penetration_aggrega   *)
(* tion                                                                        *)
instantaneous_penetration_aggregation_model ==
  [NoModel EXCEPT !.declares = {"Total_Instantaneous_Penetration_Energy_MWh"},
     !.over = {"INSTANTANEOUS_PENETRATION_ZONES", "TMPS"},
     !.reads = {"Bulk_Power_Provision_MW", "INST_PEN_PRJS", "OPR_PRJS_IN_TMP",
      "instantaneous_penetration_zone"}]

(* system.policy.instantaneous_penetration.instantaneous_penetration_balance   *)
instantaneous_penetration_balance_model ==
  [NoModel EXCEPT !.declares =
      {"Instantaneous_Penetration_Overage_MWh_Expression",
      "Instantaneous_Penetration_Shortage_MWh_Expression"},
     !.over = {"INSTANTANEOUS_PENETRATION_ZONES", "TMPS"},
     !.reads = {"Inst_Pen_Requirement_max", "Inst_Pen_Requirement_min",
      "Total_Instantaneous_Penetration_Energy_MWh",
      "allow_violation_max_penetration", "allow_violation_min_penetration"}]
instantaneous_penetration_balance_results ==
  [NoResults EXCEPT !.exports = Cols("system_instantaneous_penetration.csv",
      {"discount_factor", "instantaneous_penetration_overage_mwh",
      "instantaneous_penetration_shortage_mwh",
      "instantaneous_penetration_violation_mwh",
      "instantaneous_penetration_zone", "max_instantaneous_penetration_mwh",
      "min_instantaneous_penetration_mwh", "number_of_hours_in_timepoint",
      "number_years_represented", "period", "timepoint", "timepoint_weight",
      "total_instantaneous_penetration_energy_mwh"})]
instantaneous_penetration_balance_imports ==
    {"system_instantaneous_penetration.csv"}

(* system.policy.transmission_targets.aggregate_transmission_target_contribu   *)
(* tions. Aggregate delivered transmission-target-eligible transmission flow   *)
(* from the tx_line-timepoint level to the transmission-target zone -          *)
(* balancing_type - horizon level.                                             *)
aggregate_transmission_target_contributions_model ==
  [NoModel EXCEPT !.declares =
      {"Total_Transmission_Target_Energy_Neg_Dir_MWh",
      "Total_Transmission_Target_Energy_Pos_Dir_MWh"},
     !.over =
      {"TRANSMISSION_TARGET_ZONE_BLN_TYPE_HRZS_WITH_TRANSMISSION_TARGET"},
     !.reads = {"TMPS_BY_BLN_TYPE_HRZ",
      "TRANSMISSION_TARGET_TX_LINES_BY_TRANSMISSION_TARGET_ZONE",
      "TRANSMISSION_TARGET_TX_OPR_TMPS",
      "Transmission_Target_Energy_MW_Neg_Dir",
      "Transmission_Target_Energy_MW_Pos_Dir",
      "Transmission_Target_Net_Energy_MW_Neg_Dir",
      "Transmission_Target_Net_Energy_MW_Pos_Dir",
      "contributes_net_flow_to_tx_target", "hrs_in_tmp", "tmp_weight"}]
aggregate_transmission_target_contributions_results ==
  [NoResults EXCEPT !.assigns = Cols("transmission_target_z_bt_hz_df",
      {"total_transmission_target_energy_neg_dir_mwh",
      "total_transmission_target_energy_pos_dir_mwh"})]

(* system.policy.transmission_targets.transmission_target_balance              *)
transmission_target_balance_model ==
  [NoModel EXCEPT !.declares =
      {"Transmission_Target_Overage_Neg_Dir_Max_MWh_Expression",
      "Transmission_Target_Overage_Pos_Dir_Max_MWh_Expression",
      "Transmission_Target_Shortage_Neg_Dir_Min_MWh_Expression",
      "Transmission_Target_Shortage_Pos_Dir_Min_MWh_Expression"},
     !.over =
      {"TRANSMISSION_TARGET_ZONE_BLN_TYPE_HRZS_WITH_TRANSMISSION_TARGET"},
     !.reads = {"Total_Transmission_Target_Energy_Neg_Dir_MWh",
      "Total_Transmission_Target_Energy_Pos_Dir_MWh",
      "transmission_target_allow_violation",
      "transmission_target_neg_dir_max_mwh",
      "transmission_target_neg_dir_min_mwh",
      "transmission_target_pos_dir_max_mwh",
      "transmission_target_pos_dir_min_mwh"}]
transmission_target_balance_results ==
  [NoResults EXCEPT !.assigns = Cols("transmission_target_z_bt_hz_df",
      {"fraction_of_transmission_target_neg_dir_max_met",
      "fraction_of_transmission_target_neg_dir_min_met",
      "fraction_of_transmission_target_pos_dir_max_met",
      "fraction_of_transmission_target_pos_dir_min_met",
      "transmission_target_overage_neg_dir_min_mwh",
      "transmission_target_overage_pos_dir_max_mwh",
      "transmission_target_shortage_neg_dir_min_mwh",
      "transmission_target_shortage_pos_dir_min_mwh"})]

(* system.policy.transmission_targets.consolidate_results                      *)
transmission_targets_consolidate_results_results ==
  [NoResults EXCEPT !.saves = {<<"transmission_target_z_bt_hz_df",
      "system_transmission_targets.csv">>}]

(* system.policy.carbon_cap.aggregate_project_carbon_emissions. Aggregate      *)
(* carbon emissions from the project-timepoint level to the carbon cap zone    *)
(* - period level.                                                             *)
carbon_cap_aggregate_project_carbon_emissions_model ==
  [NoModel EXCEPT !.declares = {"Total_Carbon_Cap_Project_Emissions"},
     !.over = {"CARBON_CAP_ZONE_PERIODS_WITH_CARBON_CAP"},
     !.reads = {"CRBN_PRJS_BY_CARBON_CAP_ZONE", "CRBN_PRJ_OPR_TMPS",
      "Project_Carbon_Emissions", "TMPS_IN_PRD", "hrs_in_tmp", "tmp_weight"},
     !.adds = {<<"carbon_cap_balance_emission_components",
      "Total_Carbon_Cap_Project_Emissions">>}]
carbon_cap_aggregate_project_carbon_emissions_results ==
  [NoResults EXCEPT !.assigns = Cols("carbon_cap_zone_period_df",
      {"project_emissions"})]

(* system.policy.carbon_cap.aggregate_project_carbon_credits. Aggregate        *)
(* carbon credits from the project-period level to the carbon cap zone -       *)
(* period level.                                                               *)
carbon_cap_aggregate_project_carbon_credits_model ==
  [NoModel EXCEPT !.declares = {"Total_Carbon_Cap_Emissions_Credits"},
     !.over = {"CARBON_CAP_ZONES", "CARBON_CAP_ZONE_PERIODS_WITH_CARBON_CAP",
      "CARBON_CREDITS_ZONES"},
     !.reads = {"CARBON_CREDITS_PURCHASE_PRJS_CARBON_CREDITS_ZONES_OPR_PRDS",
      "CRBN_PRJS_BY_CARBON_CAP_ZONE", "Project_Purchase_Carbon_Credits"},
     !.adds = {<<"carbon_cap_balance_credit_components",
      "Total_Carbon_Cap_Emissions_Credits">>}]
carbon_cap_aggregate_project_carbon_credits_loads == Loads({},
    {"carbon_cap_zones_carbon_credits_zone_mapping.tab"})
carbon_cap_aggregate_project_carbon_credits_writes == Writes({},
    {"carbon_cap_zones_carbon_credits_zone_mapping.tab"}, {})
carbon_cap_aggregate_project_carbon_credits_results ==
  [NoResults EXCEPT !.assigns = Cols("carbon_cap_zone_period_df",
      {"project_credits"})]

(* system.policy.carbon_cap.aggregate_transmission_carbon_emissions.           *)
(* Aggregate carbon emissions from the transmission-line-timepoint level to    *)
(* the carbon cap zone - period level.                                         *)
aggregate_transmission_carbon_emissions_model ==
  [NoModel EXCEPT !.declares = {"Total_Carbon_Emission_Imports_Tons"},
     !.over = {"CARBON_CAP_ZONE_PERIODS_WITH_CARBON_CAP"},
     !.reads = {"CRB_TX_LINES_BY_CARBON_CAP_ZONE", "CRB_TX_OPR_TMPS",
      "Import_Carbon_Emissions_Tons", "TMPS_IN_PRD", "hrs_in_tmp",
      "tmp_weight"},
     !.adds = {<<"carbon_cap_balance_emission_components",
      "Total_Carbon_Emission_Imports_Tons">>}]
aggregate_transmission_carbon_emissions_results ==
  [NoResults EXCEPT !.assigns = Cols("carbon_cap_zone_period_df",
      {"import_emissions", "import_emissions_degen",
      "total_emissions_degen"})]

(* system.policy.carbon_cap.carbon_balance                                     *)
carbon_balance_model ==
  [NoModel EXCEPT !.declares = {"Carbon_Cap_Overage_Expression"},
     !.over = {"CARBON_CAP_ZONE_PERIODS_WITH_CARBON_CAP"},
     !.reads = {"carbon_cap_allow_violation", "carbon_cap_target"},
     !.takes = {"carbon_cap_balance_credit_components",
      "carbon_cap_balance_emission_components"}]
carbon_balance_results ==
  [NoResults EXCEPT !.assigns = Cols("carbon_cap_zone_period_df",
      {"carbon_cap_marginal_cost_per_emission", "dual", "total_credits",
      "total_emissions"})]

(* system.policy.carbon_cap.consolidate_results                                *)
carbon_cap_consolidate_results_results ==
  [NoResults EXCEPT !.saves = {<<"carbon_cap_zone_period_df",
      "system_carbon_cap.csv">>}]

(* system.policy.carbon_tax.aggregate_project_carbon_emissions. Aggregate      *)
(* carbon emissions from the project-timepoint level to the carbon tax zone    *)
(* - period level.                                                             *)
carbon_tax_aggregate_project_carbon_emissions_model ==
  [NoModel EXCEPT !.declares = {"Total_Carbon_Tax_Project_Allowance",
      "Total_Carbon_Tax_Project_Emissions", "Total_Project_Carbon_Tax_Cost"},
     !.over = {"CARBON_TAX_ZONE_PERIODS_WITH_CARBON_TAX"},
     !.reads = {"CARBON_TAX_PRJS_BY_CARBON_TAX_ZONE",
      "CARBON_TAX_PRJ_FUEL_GROUP_OPR_TMPS", "CARBON_TAX_PRJ_OPR_TMPS",
      "Project_Carbon_Emissions", "Project_Carbon_Tax_Allowance",
      "TMPS_IN_PRD", "carbon_tax", "hrs_in_tmp", "tmp_weight"},
     !.adds = {<<"carbon_tax_cost_components",
      "Total_Project_Carbon_Tax_Cost">>}]
carbon_tax_aggregate_project_carbon_emissions_results ==
  [NoResults EXCEPT !.assigns = Cols("carbon_tax_zone_period_df",
      {"project_emissions"})]

(* system.policy.carbon_tax.aggregate_project_carbon_credits. Aggregate        *)
(* carbon credits from the project-period level to the carbon tax zone -       *)
(* period level.                                                               *)
carbon_tax_aggregate_project_carbon_credits_model ==
  [NoModel EXCEPT !.declares = {"Total_Carbon_Tax_Credit_Cost_Reduction"},
     !.over = {"CARBON_CREDITS_ZONES", "CARBON_TAX_ZONES",
      "CARBON_TAX_ZONE_PERIODS_WITH_CARBON_TAX"},
     !.reads = {"CARBON_CREDITS_PURCHASE_PRJS_CARBON_CREDITS_ZONES_OPR_PRDS",
      "CARBON_TAX_PRJS_BY_CARBON_TAX_ZONE", "Project_Purchase_Carbon_Credits",
      "Total_Carbon_Tax_Project_Allowance",
      "Total_Carbon_Tax_Project_Emissions", "carbon_tax"},
     !.adds = {<<"carbon_tax_cost_components",
      "Total_Carbon_Tax_Credit_Cost_Reduction">>}]
carbon_tax_aggregate_project_carbon_credits_loads == Loads({},
    {"carbon_tax_zones_carbon_credits_zone_mapping.tab",
    "project_carbon_credits_purchase_limits.tab"})
carbon_tax_aggregate_project_carbon_credits_writes == Writes({},
    {"carbon_tax_zones_carbon_credits_zone_mapping.tab",
    "project_carbon_credits_purchase_limits.tab"}, {})
carbon_tax_aggregate_project_carbon_credits_results ==
  [NoResults EXCEPT !.assigns = Cols("carbon_tax_zone_period_df",
      {"project_credits"})]

(* Bug: The list of cost components is not summed.                            *)
carbon_tax_costs_model_NotSummed ==
  [NoModel EXCEPT !.declares = {"Carbon_Tax_Cost"},
     !.over = {"CARBON_TAX_ZONE_PERIODS_WITH_CARBON_TAX"}]

(* system.policy.carbon_tax.carbon_tax_costs. Add the carbon tax cost          *)
(* components.                                                                 *)
carbon_tax_costs_model ==
  [NoModel EXCEPT !.declares = {"Carbon_Tax_Cost"},
     !.over = {"CARBON_TAX_ZONE_PERIODS_WITH_CARBON_TAX"},
     !.takes = {"carbon_tax_cost_components"}]
carbon_tax_costs_results ==
  [NoResults EXCEPT !.assigns = Cols("carbon_tax_zone_period_df",
      {"carbon_tax_per_ton", "total_carbon_emissions_tons",
      "total_carbon_tax_allowance_tons", "total_carbon_tax_cost"})]

(* system.policy.carbon_tax.consolidate_results                                *)
carbon_tax_consolidate_results_results ==
  [NoResults EXCEPT !.saves = {<<"carbon_tax_zone_period_df",
      "system_carbon_tax.csv">>}]

(* system.policy.subsidies. Subsidy programs (e.g.                             *)
subsidies_model ==
  [NoModel EXCEPT !.declares = {"Project_Annual_Payment_Reduction_from_Base",
      "Tx_Annual_Payment_Reduction_from_Base"},
     !.over = {"PERIODS", "PRJ_FIN_PRDS", "PROJECTS"},
     !.reads = {"SUPERPERIOD_PERIODS", "capacity_type"},
     !.readsIf = {"GEN_NEW_LIN_VNTS_FIN_IN_PERIOD",
      "STOR_NEW_LIN_VNTS_FIN_IN_PRD", "TX_FIN_PRDS", "TX_LINES",
      "TX_NEW_LIN_VNTS_FIN_IN_PRD", "tx_capacity_type"},
     !.calls = {<<"capacity_type", "new_capacity_rule">>, <<"capacity_type",
      "new_energy_capacity_rule">>, <<"tx_capacity_type",
      "new_capacity_rule">>}]
subsidies_loads == Loads({"subsidies_program_budgets.tab",
    "subsidies_projects.tab"}, {})
subsidies_writes == Writes({"subsidies_program_budgets.tab",
    "subsidies_projects.tab"}, {}, {})
subsidies_results ==
  [NoResults EXCEPT !.exports = Cols("subsidies.csv", {"is_tx", "program",
      "project_or_tx", "subsidized_mw", "vintage"})]

(* system.policy.performance_standard.aggregate_project_performance_standard   *)
(* . Aggregate carbon emissions and energy from the project-timepoint level    *)
(* to the performance zone - period level.                                     *)
aggregate_project_performance_standard_model ==
  [NoModel EXCEPT !.declares = {"Total_Performance_Standard_Project_Capacity",
      "Total_Performance_Standard_Project_Emissions",
      "Total_Performance_Standard_Project_Energy"},
     !.over = {"PERFORMANCE_STANDARD_ZONE_PERIODS_WITH_PERFORMANCE_STANDARD"},
     !.reads = {"Bulk_Power_Provision_MW", "Capacity_MW",
      "PERFORMANCE_STANDARD_OPR_PRDS", "PERFORMANCE_STANDARD_OPR_TMPS",
      "PERFORMANCE_STANDARD_PRJS_BY_PERFORMANCE_STANDARD_ZONE",
      "Project_Carbon_Emissions", "TMPS_IN_PRD", "hrs_in_tmp", "tmp_weight"},
     !.adds = {<<"performance_standard_balance_emission_components",
      "Total_Performance_Standard_Project_Emissions">>}]
aggregate_project_performance_standard_results ==
  [NoResults EXCEPT !.assigns = Cols("performance_standard_z_prd_df",
      {"performance_standard_project_capacity_mw",
      "performance_standard_project_emissions_tco2",
      "performance_standard_project_energy_mwh"})]

(* system.policy.performance_standard.aggregate_project_carbon_credits.        *)
(* Aggregate carbon credits from the project-period level to the performance   *)
(* standard zone - period level.                                               *)
performance_standard_aggregate_project_carbon_credits_model ==
  [NoModel EXCEPT !.declares =
      {"Total_Performance_Standard_Emissions_Credits"},
     !.over = {"CARBON_CREDITS_ZONES", "PERFORMANCE_STANDARD_ZONES",
      "PERFORMANCE_STANDARD_ZONE_PERIODS_WITH_PERFORMANCE_STANDARD"},
     !.reads = {"CARBON_CREDITS_PURCHASE_PRJS_CARBON_CREDITS_ZONES_OPR_PRDS",
      "PERFORMANCE_STANDARD_PRJS_BY_PERFORMANCE_STANDARD_ZONE",
      "Project_Purchase_Carbon_Credits"},
     !.adds = {<<"performance_standard_balance_credit_components",
      "Total_Performance_Standard_Emissions_Credits">>}]
performance_standard_aggregate_project_carbon_credits_loads == Loads({},
    {"performance_standard_zones_carbon_credits_zone_mapping.tab"})
performance_standard_aggregate_project_carbon_credits_writes == Writes({},
    {"performance_standard_zones_carbon_credits_zone_mapping.tab"}, {})
performance_standard_aggregate_project_carbon_credits_results ==
  [NoResults EXCEPT !.assigns = Cols("performance_standard_z_prd_df",
      {"project_credits"})]

(* system.policy.performance_standard.performance_standard_balance             *)
performance_standard_balance_model ==
  [NoModel EXCEPT !.declares =
      {"Performance_Standard_Energy_Unit_Overage_Expression",
      "Performance_Standard_Power_Unit_Overage_Expression"},
     !.over = {"PERFORMANCE_STANDARD_ZONE_PERIODS_WITH_PERFORMANCE_STANDARD"},
     !.reads = {"Total_Performance_Standard_Project_Capacity",
      "Total_Performance_Standard_Project_Energy",
      "performance_standard_energy_allow_violation",
      "performance_standard_power_allow_violation",
      "performance_standard_tco2_per_mw",
      "performance_standard_tco2_per_mwh"},
     !.takes = {"performance_standard_balance_credit_components",
      "performance_standard_balance_emission_components"}]
performance_standard_balance_results ==
  [NoResults EXCEPT !.assigns = Cols("performance_standard_z_prd_df",
      {"performance_standard_energy_overage_tco2",
      "performance_standard_power_overage_tco2"})]

(* system.policy.performance_standard.consolidate_results                      *)
performance_standard_consolidate_results_results ==
  [NoResults EXCEPT !.saves = {<<"performance_standard_z_prd_df",
      "system_performance_standard.csv">>}]

(* system.policy.carbon_credits                                                *)
policy_carbon_credits_results ==
  [NoResults EXCEPT !.creates = Cols("carbon_credits_zone_period_df",
      {"carbon_credits_zone", "discount_factor", "number_years_represented",
      "period"})]
policy_carbon_credits_imports == {"system_carbon_credits.csv"}

(* system.policy.carbon_credits.aggregate_project_carbon_credits. Aggregate    *)
(* carbon credits from the project-period level to the carbon credit zone -    *)
(* period level.                                                               *)
carbon_credits_aggregate_project_carbon_credits_model ==
  [NoModel EXCEPT !.declares = {"Total_Project_Carbon_Credits_Generated",
      "Total_Project_Carbon_Credits_Purchased"},
     !.over = {"CARBON_CREDITS_ZONES", "PERIODS"},
     !.reads = {"CARBON_CREDITS_GENERATION_PRJS_BY_CARBON_CREDITS_ZONE",
      "CARBON_CREDITS_GENERATION_PRJ_OPR_PRDS",
      "CARBON_CREDITS_PURCHASE_PRJS_BY_CARBON_CREDITS_ZONE",
      "CARBON_CREDITS_PURCHASE_PRJS_CARBON_CREDITS_ZONES_OPR_PRDS",
      "Project_Carbon_Credits_Generated", "Project_Purchase_Carbon_Credits"},
     !.adds = {<<"carbon_credits_balance_generation_components",
      "Total_Project_Carbon_Credits_Generated">>,
      <<"carbon_credits_balance_purchase_components",
      "Total_Project_Carbon_Credits_Purchased">>}]
carbon_credits_aggregate_project_carbon_credits_results ==
  [NoResults EXCEPT !.assigns = Cols("carbon_credits_zone_period_df",
      {"project_generated_credits", "project_purchased_credits"})]

(* system.policy.carbon_credits.sell_and_buy_credits. Sell carbon credits to   *)
(* other sectors and buy credits from other sectors.                           *)
sell_and_buy_credits_model ==
  [NoModel EXCEPT !.declares = {"Buy_Carbon_Credits", "Sell_Carbon_Credits",
      "carbon_credits_demand_price", "carbon_credits_supply_price"},
     !.over = {"CARBON_CREDITS_ZONES", "PERIODS"},
     !.adds = {<<"carbon_credits_balance_generation_components",
      "Buy_Carbon_Credits">>, <<"carbon_credits_balance_purchase_components",
      "Sell_Carbon_Credits">>}]
sell_and_buy_credits_loads == Loads({}, {"carbon_credits_params.tab"})
sell_and_buy_credits_writes == Writes({"carbon_credits_params.tab"}, {}, {})
sell_and_buy_credits_results ==
  [NoResults EXCEPT !.assigns = Cols("carbon_credits_zone_period_df",
      {"buy_credits", "sell_credits"})]

(* system.policy.carbon_credits.carbon_credits_balance                         *)
carbon_credits_balance_model ==
  [NoModel EXCEPT !.over = {"CARBON_CREDITS_ZONES", "PERIODS"},
     !.takes = {"carbon_credits_balance_generation_components",
      "carbon_credits_balance_purchase_components"}]
carbon_credits_balance_results ==
  [NoResults EXCEPT !.assigns = Cols("carbon_credits_zone_period_df",
      {"total_generated_carbon_credits", "total_purchased_carbon_credits"})]

(* system.policy.carbon_credits.consolidate_results                            *)
carbon_credits_consolidate_results_results ==
  [NoResults EXCEPT !.saves = {<<"carbon_credits_zone_period_df",
      "system_carbon_credits.csv">>}]

(* system.policy.fuel_burn_limits.aggregate_project_fuel_burn. Aggregate       *)
(* fuel burn from the project-timepoint level to fuel / fuel balancing area    *)
(* - period level.                                                             *)
aggregate_project_fuel_burn_model ==
  [NoModel EXCEPT !.declares = {"Total_Horizon_Fuel_Burn_By_Fuel_BA_Unit"},
     !.over = {"FUELS", "FUEL_BA_BLN_TYPE_HRZS_WITH_FUEL_BURN_LIMIT",
      "FUEL_BURN_LIMIT_BAS", "FUEL_PRJS", "PROJECTS"},
     !.reads = {"FUEL_PRJS_FUEL_OPR_TMPS", "FUEL_PRJ_FUELS",
      "Project_Fuel_Contribution_by_Fuel", "TMPS_BY_BLN_TYPE_HRZ",
      "Total_Fuel_Burn_by_Fuel_MMBtu", "hrs_in_tmp", "tmp_weight"},
     !.adds = {<<"fuel_burn_balance_components",
      "Total_Horizon_Fuel_Burn_By_Fuel_BA_Unit">>}]
aggregate_project_fuel_burn_loads ==
    Loads({"project_and_fuels_fuel_burn_limit_bas.tab"}, {})
aggregate_project_fuel_burn_writes ==
    Writes({"project_and_fuels_fuel_burn_limit_bas.tab"}, {}, {})

(* system.policy.fuel_burn_limits.fuel_burn_limit_balance. MMBtu [fuel burn    *)
(* unit] limit by horizon.                                                     *)
fuel_burn_limit_balance_model ==
  [NoModel EXCEPT !.declares = {"Fuel_Burn_Max_Overage_Abs_Unit_Expression",
      "Fuel_Burn_Max_Overage_Rel_Unit_Expression",
      "Fuel_Burn_Min_Shortage_Abs_Unit_Expression"},
     !.over = {"FUEL_BA_BLN_TYPE_HRZS_WITH_FUEL_BURN_LIMIT",
      "FUEL_BA_BLN_TYPE_HRZS_WITH_FUEL_BURN_MAX_ABS_LIMIT",
      "FUEL_BA_BLN_TYPE_HRZS_WITH_FUEL_BURN_MAX_REL_LIMIT",
      "FUEL_BA_BLN_TYPE_HRZS_WITH_FUEL_BURN_MIN_ABS_LIMIT"},
     !.reads = {"fraction_of_relative_fuel_burn_max_fuel_ba",
      "fuel_burn_max_allow_violation", "fuel_burn_max_unit",
      "fuel_burn_min_allow_violation", "fuel_burn_min_unit",
      "fuel_burn_relative_max_allow_violation", "relative_fuel_burn_max_ba"},
     !.takes = {"fuel_burn_balance_components"}]
fuel_burn_limit_balance_results ==
  [NoResults EXCEPT !.assigns = Cols("fuel_burn_limits_df", {"abs_max_dual",
      "abs_max_fuel_burn_limit_marginal_cost_per_unit", "abs_min_dual",
      "abs_min_fuel_burn_limit_marginal_cost_per_unit",
      "fraction_of_relative_fuel_burn_max_fuel_ba",
      "fuel_burn_max_abs_overage_unit", "fuel_burn_max_rel_overage_unit",
      "fuel_burn_max_unit", "fuel_burn_min_abs_shortage_unit",
      "fuel_burn_min_unit", "rel_dual",
      "rel_fuel_burn_limit_marginal_cost_per_unit",
      "relative_fuel_burn_max_ba", "total_fuel_burn_unit"})]

(* system.policy.fuel_burn_limits.consolidate_results                          *)
fuel_burn_limits_consolidate_results_results ==
  [NoResults EXCEPT !.saves = {<<"fuel_burn_limits_df",
      "system_fuel_burn_limits.csv">>}]

(* system.policy.generic_policy.aggregate_project_policy_contributions         *)
aggregate_project_policy_contributions_model ==
  [NoModel EXCEPT !.declares =
      {"Total_Project_Policy_Zone_Month_Hour_Contributions",
      "Total_Project_Policy_Zone_Tmp_Contributions"},
     !.over = {"POLICIES_ZONE_BLN_TYPE_HRZS_WITH_REQ",
      "POLICIES_ZONE_PRDS_MONTH_HOURS_WITH_REQ"},
     !.reads = {"PRJ_POLICY_ZONE_OPR_TMPS",
      "PRJ_POLICY_ZONE_PRDS_MONTH_HOURS", "Policy_Contribution_in_Month_Hour",
      "Policy_Contribution_in_Timepoint", "TMPS_BY_BLN_TYPE_HRZ",
      "hrs_in_tmp", "tmp_weight"}]

(* system.policy.generic_policy.policy_target_balance                          *)
policy_target_balance_model ==
  [NoModel EXCEPT !.declares =
      {"Policy_Month_Hour_Requirement_Shortage_Expression",
      "Policy_Requirement_Shortage_Expression"},
     !.over = {"POLICIES_ZONE_BLN_TYPE_HRZS_WITH_REQ",
      "POLICIES_ZONE_PRDS_MONTH_HOURS_WITH_REQ"},
     !.reads = {"Policy_Zone_Horizon_Requirement",
      "Policy_Zone_Month_Hour_Requirement",
      "Total_Project_Policy_Zone_Month_Hour_Contributions",
      "Total_Project_Policy_Zone_Tmp_Contributions",
      "policy_zone_allow_violation"}]
policy_target_balance_results ==
  [NoResults EXCEPT !.assigns = Cols("policy_zone_period_df", {"dual",
      "policy_requirement_calculated_in_horizon",
      "policy_requirement_marginal_cost_per_unit",
      "policy_requirement_shortage", "post_load_modifier_load_in_hrz",
      "pre_load_modifier_load_in_hrz"})]

(* system.policy.generic_policy.consolidate_results                            *)
generic_policy_consolidate_results_results ==
  [NoResults EXCEPT !.saves = {<<"policy_month_hour_df",
      "system_month_hour_policy_requirements.csv">>,
      <<"policy_zone_period_df", "system_policy_requirements.csv">>}]

(* The modules of this package by name.                                        *)
PolicyParts ==
  "system.policy.energy_targets" :>
       Parts(NoModel, NoLoads, NoWrites, energy_targets_results,
             energy_targets_imports)
  @@ "system.policy.energy_targets.period_energy_target" :>
       Parts(period_energy_target_model, period_energy_target_loads,
             period_energy_target_writes, NoResults, {})
  @@ "system.policy.energy_targets.horizon_energy_target" :>
       Parts(horizon_energy_target_model, horizon_energy_target_loads,
             horizon_energy_target_writes, NoResults, {})
  @@ "system.policy.instantaneous_penetration" :>
       Parts(NoModel, NoLoads, NoWrites, NoResults, {})
  @@ "system.policy.transmission_targets" :>
       Parts(NoModel, NoLoads, NoWrites, transmission_targets_results,
             transmission_targets_imports)
  @@ "system.policy.transmission_targets.transmission_target" :>
       Parts(transmission_target_model, transmission_target_loads,
             transmission_target_writes, transmission_target_results, {})
  @@ "system.policy.carbon_cap" :>
       Parts(NoModel, NoLoads, NoWrites, policy_carbon_cap_results,
             policy_carbon_cap_imports)
  @@ "system.policy.carbon_cap.carbon_cap" :>
       Parts(carbon_cap_carbon_cap_model, carbon_cap_carbon_cap_loads,
             carbon_cap_carbon_cap_writes, carbon_cap_carbon_cap_results, {})
  @@ "system.policy.carbon_tax" :>
       Parts(NoModel, NoLoads, NoWrites, policy_carbon_tax_results,
             policy_carbon_tax_imports)
  @@ "system.policy.carbon_tax.carbon_tax" :>
       Parts(carbon_tax_carbon_tax_model, carbon_tax_carbon_tax_loads,
             carbon_tax_carbon_tax_writes, NoResults, {})
  @@ "system.policy.performance_standard" :>
       Parts(NoModel, NoLoads, NoWrites, policy_performance_standard_results,
             policy_performance_standard_imports)
  @@ "system.policy.performance_standard.performance_standard" :>
       Parts(performance_standard_performance_standard_model,
             performance_standard_performance_standard_loads,
             performance_standard_performance_standard_writes,
             performance_standard_performance_standard_results, {})
  @@ "system.policy.fuel_burn_limits" :>
       Parts(NoModel, NoLoads, NoWrites, policy_fuel_burn_limits_results,
             policy_fuel_burn_limits_imports)
  @@ "system.policy.fuel_burn_limits.fuel_burn_limits" :>
       Parts(fuel_burn_limits_fuel_burn_limits_model,
             fuel_burn_limits_fuel_burn_limits_loads,
             fuel_burn_limits_fuel_burn_limits_writes, NoResults, {})
  @@ "system.policy.generic_policy" :>
       Parts(NoModel, NoLoads, NoWrites, policy_generic_policy_results,
             policy_generic_policy_imports)
  @@ "system.policy.generic_policy.generic_policy_requirements" :>
       Parts(generic_policy_requirements_model,
             generic_policy_requirements_loads,
             generic_policy_requirements_writes,
             generic_policy_requirements_results, {})
  @@ "system.policy.instantaneous_penetration.instantaneous_penetration_requirements" :>
       Parts(instantaneous_penetration_requirements_model,
             instantaneous_penetration_requirements_loads,
             instantaneous_penetration_requirements_writes, NoResults, {})
  @@ "system.policy.energy_targets.aggregate_period_energy_target_contributions" :>
       Parts(aggregate_period_energy_target_contributions_model, NoLoads,
             NoWrites, aggregate_period_energy_target_contributions_results,
             {})
  @@ "system.policy.energy_targets.aggregate_horizon_energy_target_contributions" :>
       Parts(aggregate_horizon_energy_target_contributions_model, NoLoads,
             NoWrites, aggregate_horizon_energy_target_contributions_results,
             {})
  @@ "system.policy.energy_targets.period_energy_target_balance" :>
       Parts(period_energy_target_balance_model, NoLoads, NoWrites,
             period_energy_target_balance_results, {})
  @@ "system.policy.energy_targets.horizon_energy_target_balance" :>
       Parts(horizon_energy_target_balance_model, NoLoads, NoWrites,
             horizon_energy_target_balance_results, {})
  @@ "system.policy.energy_targets.consolidate_results" :>
       Parts(NoModel, NoLoads, NoWrites,
             energy_targets_consolidate_results_results, {})
  @@ "system.policy.instantaneous_penetration.instantaneous_penetration_aggregation" :>
       Parts(instantaneous_penetration_aggregation_model, NoLoads, NoWrites,
             NoResults, {})
  @@ "system.policy.instantaneous_penetration.instantaneous_penetration_balance" :>
       Parts(instantaneous_penetration_balance_model, NoLoads, NoWrites,
             instantaneous_penetration_balance_results,
             instantaneous_penetration_balance_imports)
  @@ "system.policy.transmission_targets.aggregate_transmission_target_contributions" :>
       Parts(aggregate_transmission_target_contributions_model, NoLoads,
             NoWrites, aggregate_transmission_target_contributions_results,
             {})
  @@ "system.policy.transmission_targets.transmission_target_balance" :>
       Parts(transmission_target_balance_model, NoLoads, NoWrites,
             transmission_target_balance_results, {})
  @@ "system.policy.transmission_targets.consolidate_results" :>
       Parts(NoModel, NoLoads, NoWrites,
             transmission_targets_consolidate_results_results, {})
  @@ "system.policy.carbon_cap.aggregate_project_carbon_emissions" :>
       Parts(carbon_cap_aggregate_project_carbon_emissions_model, NoLoads,
             NoWrites, carbon_cap_aggregate_project_carbon_emissions_results,
             {})
  @@ "system.policy.carbon_cap.aggregate_project_carbon_credits" :>
       Parts(carbon_cap_aggregate_project_carbon_credits_model,
             carbon_cap_aggregate_project_carbon_credits_loads,
             carbon_cap_aggregate_project_carbon_credits_writes,
             carbon_cap_aggregate_project_carbon_credits_results, {})
  @@ "system.policy.carbon_cap.aggregate_transmission_carbon_emissions" :>
       Parts(aggregate_transmission_carbon_emissions_model, NoLoads,
             NoWrites, aggregate_transmission_carbon_emissions_results, {})
  @@ "system.policy.carbon_cap.carbon_balance" :>
       Parts(carbon_balance_model, NoLoads, NoWrites, carbon_balance_results,
             {})
  @@ "system.policy.carbon_cap.consolidate_results" :>
       Parts(NoModel, NoLoads, NoWrites,
             carbon_cap_consolidate_results_results, {})
  @@ "system.policy.carbon_tax.aggregate_project_carbon_emissions" :>
       Parts(carbon_tax_aggregate_project_carbon_emissions_model, NoLoads,
             NoWrites, carbon_tax_aggregate_project_carbon_emissions_results,
             {})
  @@ "system.policy.carbon_tax.aggregate_project_carbon_credits" :>
       Parts(carbon_tax_aggregate_project_carbon_credits_model,
             carbon_tax_aggregate_project_carbon_credits_loads,
             carbon_tax_aggregate_project_carbon_credits_writes,
             carbon_tax_aggregate_project_carbon_credits_results, {})
  @@ "system.policy.carbon_tax.carbon_tax_costs" :>
       Parts(carbon_tax_costs_model, NoLoads, NoWrites,
             carbon_tax_costs_results, {})
  @@ "system.policy.carbon_tax.consolidate_results" :>
       Parts(NoModel, NoLoads, NoWrites,
             carbon_tax_consolidate_results_results, {})
  @@ "system.policy.subsidies" :>
       Parts(subsidies_model, subsidies_loads, subsidies_writes,
             subsidies_results, {})
  @@ "system.policy.performance_standard.aggregate_project_performance_standard" :>
       Parts(aggregate_project_performance_standard_model, NoLoads, NoWrites,
             aggregate_project_performance_standard_results, {})
  @@ "system.policy.performance_standard.aggregate_project_carbon_credits" :>
       Parts(performance_standard_aggregate_project_carbon_credits_model,
             performance_standard_aggregate_project_carbon_credits_loads,
             performance_standard_aggregate_project_carbon_credits_writes,
             performance_standard_aggregate_project_carbon_credits_results,
             {})
  @@ "system.policy.performance_standard.performance_standard_balance" :>
       Parts(performance_standard_balance_model, NoLoads, NoWrites,
             performance_standard_balance_results, {})
  @@ "system.policy.performance_standard.consolidate_results" :>
       Parts(NoModel, NoLoads, NoWrites,
             performance_standard_consolidate_results_results, {})
  @@ "system.policy.carbon_credits" :>
       Parts(NoModel, NoLoads, NoWrites, policy_carbon_credits_results,
             policy_carbon_credits_imports)
  @@ "system.policy.carbon_credits.aggregate_project_carbon_credits" :>
       Parts(carbon_credits_aggregate_project_carbon_credits_model, NoLoads,
             NoWrites,
             carbon_credits_aggregate_project_carbon_credits_results, {})
  @@ "system.policy.carbon_credits.sell_and_buy_credits" :>
       Parts(sell_and_buy_credits_model, sell_and_buy_credits_loads,
             sell_and_buy_credits_writes, sell_and_buy_credits_results, {})
  @@ "system.policy.carbon_credits.carbon_credits_balance" :>
       Parts(carbon_credits_balance_model, NoLoads, NoWrites,
             carbon_credits_balance_results, {})
  @@ "system.policy.carbon_credits.consolidate_results" :>
       Parts(NoModel, NoLoads, NoWrites,
             carbon_credits_consolidate_results_results, {})
  @@ "system.policy.fuel_burn_limits.aggregate_project_fuel_burn" :>
       Parts(aggregate_project_fuel_burn_model,
             aggregate_project_fuel_burn_loads,
             aggregate_project_fuel_burn_writes, NoResults, {})
  @@ "system.policy.fuel_burn_limits.fuel_burn_limit_balance" :>
       Parts(fuel_burn_limit_balance_model, NoLoads, NoWrites,
             fuel_burn_limit_balance_results, {})
  @@ "system.policy.fuel_burn_limits.consolidate_results" :>
       Parts(NoModel, NoLoads, NoWrites,
             fuel_burn_limits_consolidate_results_results, {})
  @@ "system.policy.generic_policy.aggregate_project_policy_contributions" :>
       Parts(aggregate_project_policy_contributions_model, NoLoads, NoWrites,
             NoResults, {})
  @@ "system.policy.generic_policy.policy_target_balance" :>
       Parts(policy_target_balance_model, NoLoads, NoWrites,
             policy_target_balance_results, {})
  @@ "system.policy.generic_policy.consolidate_results" :>
       Parts(NoModel, NoLoads, NoWrites,
             generic_policy_consolidate_results_results, {})
===============================================================================
