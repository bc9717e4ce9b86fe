---------------------------- MODULE ModuleChoice ----------------------------
(* Which GridPath modules a scenario uses (src/gridpath/auxiliary/              *)
(* module_list.py): the list of all modules in their order, less those of       *)
(* features that are not requested.                                             *)
EXTENDS Naturals, FiniteSets, SequencesExt

all_modules_list ==
  <<"temporal.operations.timepoints", "temporal.investment.periods",
    "temporal.operations.horizons", "temporal.investment.superperiods",
    "temporal.finalize", "geography.load_zones",
    "geography.load_following_up_balancing_areas",
    "geography.load_following_down_balancing_areas",
    "geography.regulation_up_balancing_areas",
    "geography.regulation_down_balancing_areas",
    "geography.frequency_response_balancing_areas",
    "geography.spinning_reserves_balancing_areas",
    "geography.inertia_reserves_balancing_areas",
    "geography.energy_target_zones",
    "geography.instantaneous_penetration_zones",
    "geography.transmission_target_zones", "geography.carbon_cap_zones",
    "geography.carbon_tax_zones", "geography.performance_standard_zones",
    "geography.carbon_credits_zones",
    "geography.fuel_burn_limit_balancing_areas", "geography.generic_policy",
    "geography.prm_zones", "geography.local_capacity_zones",
    "geography.markets", "geography.water_network", "system.markets.prices",
    "system.water.water_system_params", "system.water.water_nodes",
    "system.water.water_flows", "system.water.water_node_inflows_outflows",
    "system.water.reservoirs", "system.water.water_node_balance",
    "system.water.powerhouses", "system.load_balance",
    "system.load_balance.static_load_requirement", "project",
    "project.capacity", "project.capacity.capacity_types",
    "project.capacity.capacity", "project.capacity.potential",
    "project.capacity.capacity_groups", "project.capacity.relative_capacity",
    "project.capacity.costs", "project.availability.availability",
    "project.fuels", "project.operations",
    "project.operations.reserves.lf_reserves_up",
    "project.operations.reserves.lf_reserves_down",
    "project.operations.reserves.regulation_up",
    "project.operations.reserves.regulation_down",
    "project.operations.reserves.frequency_response",
    "project.operations.reserves.spinning_reserves",
    "project.operations.reserves.inertia_reserves",
    "project.operations.operational_types",
    "project.operations.reserves.op_type_dependent.lf_reserves_up",
    "project.operations.reserves.op_type_dependent.lf_reserves_down",
    "project.operations.reserves.op_type_dependent.regulation_up",
    "project.operations.reserves.op_type_dependent.regulation_down",
    "project.operations.reserves.op_type_dependent.frequency_response",
    "project.operations.reserves.op_type_dependent.spinning_reserves",
    "project.operations.reserves.op_type_dependent.inertia_reserves",
    "project.operations.power", "project.operations.cycle_select",
    "project.operations.supplemental_firing",
    "project.operations.cap_factor_limits",
    "project.operations.fix_commitment", "project.operations.fuel_burn",
    "project.operations.costs", "project.operations.tuning_costs",
    "project.operations.energy_target_contributions",
    "project.operations.instantaneous_penetration_contributions",
    "project.operations.carbon_emissions", "project.operations.carbon_cap",
    "project.operations.carbon_tax",
    "project.operations.performance_standard",
    "project.operations.carbon_credits",
    "project.operations.power_output_groups", "project.reliability.prm",
    "project.reliability.prm.prm_types", "project.reliability.prm.prm_simple",
    "project.reliability.prm.elcc_surface",
    "project.reliability.prm.group_costs",
    "project.reliability.local_capacity",
    "project.reliability.local_capacity.local_capacity_contribution",
    "project.consolidate_results", "project.summary_results", "transmission",
    "transmission.capacity", "transmission.capacity.capacity_types",
    "transmission.capacity.capacity", "transmission.capacity.costs",
    "transmission.capacity.consolidate_results",
    "transmission.capacity.capacity_groups",
    "transmission.availability.availability", "transmission.operations",
    "transmission.operations.operational_types",
    "transmission.operations.operations",
    "transmission.operations.transmission_flow_limits",
    "transmission.operations.consolidate_results",
    "transmission.operations.hurdle_costs",
    "transmission.operations.hurdle_costs_by_timepoint",
    "transmission.operations.simultaneous_flow_limits",
    "transmission.operations.carbon_emissions",
    "transmission.reliability.capacity_transfer_links",
    "transmission.operations.transmission_target_contributions",
    "system.load_balance.aggregate_project_power",
    "system.load_balance.aggregate_load_modifier_power",
    "system.load_balance.load_following",
    "system.load_balance.aggregate_transmission_power",
    "transmission.operations.tx_tuning_costs",
    "system.markets.market_participation",
    "system.markets.fix_market_participation",
    "system.load_balance.aggregate_market_participation",
    "system.load_balance.load_balance",
    "system.load_balance.consolidate_results", "system.policy.energy_targets",
    "system.policy.energy_targets.period_energy_target",
    "system.policy.energy_targets.horizon_energy_target",
    "system.policy.instantaneous_penetration",
    "system.policy.transmission_targets",
    "system.policy.transmission_targets.transmission_target",
    "system.policy.carbon_cap", "system.policy.carbon_cap.carbon_cap",
    "system.policy.carbon_tax", "system.policy.carbon_tax.carbon_tax",
    "system.policy.performance_standard",
    "system.policy.performance_standard.performance_standard",
    "system.policy.fuel_burn_limits",
    "system.policy.fuel_burn_limits.fuel_burn_limits",
    "system.policy.generic_policy",
    "system.policy.generic_policy.generic_policy_requirements",
    "project.policy.policy_contribution", "system.reliability.prm",
    "system.reliability.prm.prm_requirement",
    "system.reliability.local_capacity",
    "system.reliability.local_capacity.local_capacity_requirement",
    "system.reserves.requirement.lf_reserves_up",
    "system.reserves.requirement.lf_reserves_down",
    "system.reserves.requirement.regulation_up",
    "system.reserves.requirement.regulation_down",
    "system.reserves.requirement.frequency_response",
    "system.reserves.requirement.spinning_reserves",
    "system.reserves.requirement.inertia_reserves",
    "system.policy.instantaneous_penetration.instantaneous_penetration_requirements",
    "system.reserves.aggregation.lf_reserves_up",
    "system.reserves.aggregation.regulation_up",
    "system.reserves.aggregation.lf_reserves_down",
    "system.reserves.aggregation.regulation_down",
    "system.reserves.aggregation.frequency_response",
    "system.reserves.aggregation.spinning_reserves",
    "system.reserves.aggregation.inertia_reserves",
    "system.reserves.balance.lf_reserves_up",
    "system.reserves.balance.regulation_up",
    "system.reserves.balance.lf_reserves_down",
    "system.reserves.balance.regulation_down",
    "system.reserves.balance.frequency_response",
    "system.reserves.balance.spinning_reserves",
    "system.reserves.balance.inertia_reserves",
    "system.policy.energy_targets.aggregate_period_energy_target_contributions",
    "system.policy.energy_targets.aggregate_horizon_energy_target_contributions",
    "system.policy.energy_targets.period_energy_target_balance",
    "system.policy.energy_targets.horizon_energy_target_balance",
    "system.policy.energy_targets.consolidate_results",
    "system.policy.instantaneous_penetration.instantaneous_penetration_aggregation",
    "system.policy.instantaneous_penetration.instantaneous_penetration_balance",
    "system.policy.transmission_targets.aggregate_transmission_target_contributions",
    "system.policy.transmission_targets.transmission_target_balance",
    "system.policy.transmission_targets.consolidate_results",
    "system.policy.carbon_cap.aggregate_project_carbon_emissions",
    "system.policy.carbon_cap.aggregate_project_carbon_credits",
    "system.policy.carbon_cap.aggregate_transmission_carbon_emissions",
    "system.policy.carbon_cap.carbon_balance",
    "system.policy.carbon_cap.consolidate_results",
    "system.policy.carbon_tax.aggregate_project_carbon_emissions",
    "system.policy.carbon_tax.aggregate_project_carbon_credits",
    "system.policy.carbon_tax.carbon_tax_costs",
    "system.policy.carbon_tax.consolidate_results", "system.policy.subsidies",
    "system.policy.performance_standard.aggregate_project_performance_standard",
    "system.policy.performance_standard.aggregate_project_carbon_credits",
    "system.policy.performance_standard.performance_standard_balance",
    "system.policy.performance_standard.consolidate_results",
    "system.policy.carbon_credits",
    "system.policy.carbon_credits.aggregate_project_carbon_credits",
    "system.policy.carbon_credits.sell_and_buy_credits",
    "system.policy.carbon_credits.carbon_credits_balance",
    "system.policy.carbon_credits.consolidate_results",
    "system.policy.fuel_burn_limits.aggregate_project_fuel_burn",
    "system.policy.fuel_burn_limits.fuel_burn_limit_balance",
    "system.policy.fuel_burn_limits.consolidate_results",
    "system.policy.generic_policy.aggregate_project_policy_contributions",
    "system.policy.generic_policy.policy_target_balance",
    "system.policy.generic_policy.consolidate_results",
    "system.reliability.prm.aggregate_project_simple_prm_contribution",
    "system.reliability.prm.capacity_contribution_transfers",
    "system.reliability.prm.elcc_surface",
    "system.reliability.prm.prm_balance",
    "system.reliability.prm.consolidate_results",
    "system.reliability.local_capacity.aggregate_local_capacity_contribution",
    "system.reliability.local_capacity.local_capacity_balance",
    "system.reliability.local_capacity.consolidate_results",
    "system.markets.volume", "objective.project.aggregate_capacity_costs",
    "objective.project.aggregate_prm_group_costs",
    "objective.project.aggregate_operational_costs",
    "objective.project.aggregate_operational_tuning_costs",
    "objective.transmission.aggregate_capacity_costs",
    "objective.transmission.aggregate_hurdle_costs",
    "objective.transmission.aggregate_tx_tuning_costs",
    "objective.system.aggregate_load_balance_penalties",
    "objective.system.reserve_violation_penalties.lf_reserves_up",
    "objective.system.reserve_violation_penalties.lf_reserves_down",
    "objective.system.reserve_violation_penalties.regulation_up",
    "objective.system.reserve_violation_penalties.regulation_down",
    "objective.system.reserve_violation_penalties.frequency_response",
    "objective.system.reserve_violation_penalties.spinning_reserves",
    "objective.system.reserve_violation_penalties.inertia_reserves",
    "objective.system.policy.aggregate_period_energy_target_violation_penalties",
    "objective.system.policy.aggregate_horizon_energy_target_violation_penalties",
    "objective.system.policy.aggregate_transmission_target_violation_penalties",
    "objective.system.policy.aggregate_instantaneous_penetration_violation_penalties",
    "objective.system.policy.aggregate_carbon_cap_violation_penalties",
    "objective.system.policy.aggregate_carbon_tax_costs",
    "objective.system.policy.aggregate_performance_standard_violation_penalties",
    "objective.system.policy.aggregate_fuel_burn_limit_violation_penalties",
    "objective.system.policy.aggregate_policy_target_violation_penalties",
    "objective.system.policy.aggregate_subsidies",
    "objective.system.policy.aggregate_carbon_credit_sales_and_purchases",
    "objective.system.reliability.prm.aggregate_capacity_transfer_costs",
    "objective.system.reliability.prm.aggregate_prm_violation_penalties",
    "objective.system.reliability.local_capacity.aggregate_local_capacity_violation_penalties",
    "objective.system.aggregate_market_revenue_and_costs",
    "objective.system.water.aggregate_reservoir_violation_penalty_costs",
    "objective.system.water.aggregate_flow_violation_penalty_costs",
    "objective.max_npv">>

(* A group of modules and the features it depends on.                           *)
Group(features, modules) == [features |-> features, modules |-> modules]

(* The modules of one feature.                                                *)
optional_modules_list == <<
  Group({"transmission"},
    <<"transmission", "transmission.capacity",
      "transmission.capacity.capacity_types",
      "transmission.capacity.capacity", "transmission.capacity.costs",
      "transmission.capacity.consolidate_results",
      "transmission.capacity.capacity_groups",
      "transmission.availability.availability", "transmission.operations",
      "transmission.operations.operational_types",
      "transmission.operations.operations",
      "transmission.operations.transmission_flow_limits",
      "transmission.operations.consolidate_results",
      "system.load_balance.aggregate_transmission_power",
      "transmission.operations.tx_tuning_costs",
      "objective.transmission.aggregate_capacity_costs",
      "objective.transmission.aggregate_tx_tuning_costs">>),
  Group({"lf_reserves_up"},
    <<"geography.load_following_up_balancing_areas",
      "system.reserves.requirement.lf_reserves_up",
      "project.operations.reserves.lf_reserves_up",
      "project.operations.reserves.op_type_dependent.lf_reserves_up",
      "system.reserves.aggregation.lf_reserves_up",
      "system.reserves.balance.lf_reserves_up",
      "objective.system.reserve_violation_penalties.lf_reserves_up">>),
  Group({"lf_reserves_down"},
    <<"geography.load_following_down_balancing_areas",
      "system.reserves.requirement.lf_reserves_down",
      "project.operations.reserves.lf_reserves_down",
      "project.operations.reserves.op_type_dependent.lf_reserves_down",
      "system.reserves.aggregation.lf_reserves_down",
      "system.reserves.balance.lf_reserves_down",
      "objective.system.reserve_violation_penalties.lf_reserves_down">>),
  Group({"regulation_up"},
    <<"geography.regulation_up_balancing_areas",
      "system.reserves.requirement.regulation_up",
      "project.operations.reserves.regulation_up",
      "project.operations.reserves.op_type_dependent.regulation_up",
      "system.reserves.aggregation.regulation_up",
      "system.reserves.balance.regulation_up",
      "objective.system.reserve_violation_penalties.regulation_up">>),
  Group({"regulation_down"},
    <<"geography.regulation_down_balancing_areas",
      "system.reserves.requirement.regulation_down",
      "project.operations.reserves.regulation_down",
      "system.reserves.aggregation.regulation_down",
      "project.operations.reserves.op_type_dependent.regulation_down",
      "system.reserves.balance.regulation_down",
      "objective.system.reserve_violation_penalties.regulation_down">>),
  Group({"frequency_response"},
    <<"geography.frequency_response_balancing_areas",
      "system.reserves.requirement.frequency_response",
      "project.operations.reserves.frequency_response",
      "project.operations.reserves.op_type_dependent.frequency_response",
      "system.reserves.aggregation.frequency_response",
      "system.reserves.balance.frequency_response",
      "objective.system.reserve_violation_penalties.frequency_response">>),
  Group({"spinning_reserves"},
    <<"geography.spinning_reserves_balancing_areas",
      "system.reserves.requirement.spinning_reserves",
      "project.operations.reserves.spinning_reserves",
      "project.operations.reserves.op_type_dependent.spinning_reserves",
      "system.reserves.aggregation.spinning_reserves",
      "system.reserves.balance.spinning_reserves",
      "objective.system.reserve_violation_penalties.spinning_reserves">>),
  Group({"inertia_reserves"},
    <<"geography.inertia_reserves_balancing_areas",
      "system.reserves.requirement.inertia_reserves",
      "project.operations.reserves.inertia_reserves",
      "project.operations.reserves.op_type_dependent.inertia_reserves",
      "system.reserves.aggregation.inertia_reserves",
      "system.reserves.balance.inertia_reserves",
      "objective.system.reserve_violation_penalties.inertia_reserves">>),
  Group({"period_energy_target"},
    <<"system.policy.energy_targets.period_energy_target",
      "system.policy.energy_targets.aggregate_period_energy_target_contributions",
      "system.policy.energy_targets.period_energy_target_balance",
      "objective.system.policy.aggregate_period_energy_target_violation_penalties">>),
  Group({"horizon_energy_target"},
    <<"system.policy.energy_targets.horizon_energy_target",
      "system.policy.energy_targets.aggregate_horizon_energy_target_contributions",
      "system.policy.energy_targets.horizon_energy_target_balance",
      "objective.system.policy.aggregate_horizon_energy_target_violation_penalties">>),
  Group({"instantaneous_penetration"},
    <<"geography.instantaneous_penetration_zones",
      "system.policy.instantaneous_penetration.instantaneous_penetration_requirements",
      "project.operations.instantaneous_penetration_contributions",
      "system.policy.instantaneous_penetration.instantaneous_penetration_aggregation",
      "system.policy.instantaneous_penetration.instantaneous_penetration_balance",
      "objective.system.policy.aggregate_instantaneous_penetration_violation_penalties">>),
  Group({"transmission_target"},
    <<"system.policy.transmission_targets.transmission_target",
      "system.policy.transmission_targets",
      "system.policy.transmission_targets.aggregate_transmission_target_contributions",
      "system.policy.transmission_targets.transmission_target_balance",
      "system.policy.transmission_targets.consolidate_results",
      "objective.system.policy.aggregate_transmission_target_violation_penalties">>),
  Group({"carbon_cap"},
    <<"geography.carbon_cap_zones", "system.policy.carbon_cap",
      "system.policy.carbon_cap.carbon_cap", "project.operations.carbon_cap",
      "system.policy.carbon_cap.aggregate_project_carbon_emissions",
      "system.policy.carbon_cap.carbon_balance",
      "objective.system.policy.aggregate_carbon_cap_violation_penalties",
      "system.policy.carbon_cap.consolidate_results">>),
  Group({"carbon_tax"},
    <<"geography.carbon_tax_zones", "system.policy.carbon_tax",
      "system.policy.carbon_tax.carbon_tax", "project.operations.carbon_tax",
      "system.policy.carbon_tax.aggregate_project_carbon_emissions",
      "system.policy.carbon_tax.carbon_tax_costs",
      "system.policy.carbon_tax.consolidate_results",
      "objective.system.policy.aggregate_carbon_tax_costs">>),
  Group({"performance_standard"},
    <<"geography.performance_standard_zones",
      "system.policy.performance_standard",
      "system.policy.performance_standard.performance_standard",
      "project.operations.performance_standard",
      "system.policy.performance_standard.aggregate_project_performance_standard",
      "system.policy.performance_standard.performance_standard_balance",
      "system.policy.performance_standard.consolidate_results",
      "objective.system.policy.aggregate_performance_standard_violation_penalties">>),
  Group({"carbon_credits"},
    <<"geography.carbon_credits_zones", "project.operations.carbon_credits",
      "system.policy.carbon_credits",
      "system.policy.carbon_credits.aggregate_project_carbon_credits",
      "system.policy.carbon_credits.sell_and_buy_credits",
      "system.policy.carbon_credits.carbon_credits_balance",
      "system.policy.carbon_credits.consolidate_results",
      "objective.system.policy.aggregate_carbon_credit_sales_and_purchases">>),
  Group({"fuel_burn_limit"},
    <<"geography.fuel_burn_limit_balancing_areas",
      "system.policy.fuel_burn_limits",
      "system.policy.fuel_burn_limits.fuel_burn_limits",
      "system.policy.fuel_burn_limits.aggregate_project_fuel_burn",
      "system.policy.fuel_burn_limits.fuel_burn_limit_balance",
      "system.policy.fuel_burn_limits.consolidate_results",
      "objective.system.policy.aggregate_fuel_burn_limit_violation_penalties">>),
  Group({"subsidies"},
    <<"system.policy.subsidies",
      "objective.system.policy.aggregate_subsidies">>),
  Group({"policy"},
    <<"geography.generic_policy", "system.policy.generic_policy",
      "system.policy.generic_policy.generic_policy_requirements",
      "project.policy.policy_contribution",
      "system.policy.generic_policy.aggregate_project_policy_contributions",
      "system.policy.generic_policy.policy_target_balance",
      "objective.system.policy.aggregate_policy_target_violation_penalties",
      "system.policy.generic_policy.consolidate_results">>),
  Group({"prm"},
    <<"geography.prm_zones", "system.reliability.prm",
      "system.reliability.prm.prm_requirement", "project.reliability.prm",
      "project.reliability.prm.prm_types",
      "project.reliability.prm.prm_simple",
      "system.reliability.prm.aggregate_project_simple_prm_contribution",
      "system.reliability.prm.prm_balance",
      "system.reliability.prm.consolidate_results",
      "objective.system.reliability.prm.aggregate_prm_violation_penalties">>),
  Group({"local_capacity"},
    <<"geography.local_capacity_zones", "system.reliability.local_capacity",
      "system.reliability.local_capacity.local_capacity_requirement",
      "project.reliability.local_capacity",
      "project.reliability.local_capacity.local_capacity_contribution",
      "system.reliability.local_capacity.aggregate_local_capacity_contribution",
      "system.reliability.local_capacity.local_capacity_balance",
      "system.reliability.local_capacity.consolidate_results",
      "objective.system.reliability.local_capacity.aggregate_local_capacity_violation_penalties">>),
  Group({"markets"},
    <<"geography.markets", "system.markets.prices",
      "system.markets.market_participation", "system.markets.volume",
      "system.load_balance.aggregate_market_participation",
      "objective.system.aggregate_market_revenue_and_costs">>),
  Group({"water"},
    <<"geography.water_network", "system.water.water_system_params",
      "system.water.water_nodes", "system.water.water_flows",
      "system.water.water_node_inflows_outflows", "system.water.reservoirs",
      "system.water.water_node_balance", "system.water.powerhouses",
      "objective.system.water.aggregate_reservoir_violation_penalty_costs",
      "objective.system.water.aggregate_flow_violation_penalty_costs">>)
>>

(* The modules that need every feature of their group.                        *)
cross_feature_modules_list == <<
  Group({"transmission", "transmission_hurdle_rates"},
    <<"transmission.operations.hurdle_costs">>),
  Group({"transmission", "transmission_hurdle_rates_by_timepoint"},
    <<"transmission.operations.hurdle_costs_by_timepoint">>),
  Group({"carbon_cap", "track_carbon_imports", "transmission"},
    <<"system.policy.carbon_cap.aggregate_transmission_carbon_emissions",
      "transmission.operations.carbon_emissions">>),
  Group({"simultaneous_flow_limits", "transmission"},
    <<"transmission.operations.simultaneous_flow_limits">>),
  Group({"capacity_transfers", "prm", "transmission"},
    <<"transmission.reliability.capacity_transfer_links",
      "system.reliability.prm.capacity_contribution_transfers",
      "objective.system.reliability.prm.aggregate_capacity_transfer_costs">>),
  Group({"elcc_surface", "prm"},
    <<"project.reliability.prm.elcc_surface",
      "system.reliability.prm.elcc_surface">>),
  Group({"deliverability", "prm"},
    <<"project.reliability.prm.group_costs",
      "objective.project.aggregate_prm_group_costs">>),
  Group({"carbon_cap", "carbon_credits"},
    <<"system.policy.carbon_cap.aggregate_project_carbon_credits">>),
  Group({"carbon_credits", "performance_standard"},
    <<"system.policy.performance_standard.aggregate_project_carbon_credits">>),
  Group({"carbon_credits", "carbon_tax"},
    <<"system.policy.carbon_tax.aggregate_project_carbon_credits">>)
>>

(* The modules that need one of the features of their group.                  *)
feature_shared_modules_list == <<
  Group({"horizon_energy_target", "period_energy_target"},
    <<"geography.energy_target_zones",
      "project.operations.energy_target_contributions",
      "system.policy.energy_targets",
      "system.policy.energy_targets.consolidate_results">>),
  Group({"horizon_transmission_target", "transmission_target"},
    <<"geography.transmission_target_zones",
      "transmission.operations.transmission_target_contributions">>),
  Group({"transmission_hurdle_rates", "transmission_hurdle_rates_by_timepoint"},
    <<"objective.transmission.aggregate_hurdle_costs">>)
>>

(* The modules of a feature that are used only if there are stages.           *)
stage_feature_module_list ==
  <<Group({"markets"}, <<"system.markets.fix_market_participation">>)>>

(* The modules that fix the values an earlier stage decided.                    *)
FixVariablesModules ==
  <<"project.operations.fix_commitment",
    "system.markets.fix_market_participation">>

(* The modules of the groups of which the scenario wants none.                  *)
Unless(groups, wanted) ==
  FlattenSeq([i \in 1..Len(groups) |->
    IF groups[i] \in wanted THEN <<>> ELSE groups[i].modules])

(* The groups wanted if every one, or if one, of their features is.             *)
Every(groups, features) == {g \in Range(groups) : g.features \subseteq features}
Some(groups, features) ==
  {g \in Range(groups) : g.features \cap features # {}}

(* Bug: the stage lists are gone through without stages as well.                *)
Removals_StageListsAlways(features, multi_stage) ==
  (IF multi_stage THEN <<>> ELSE FixVariablesModules)
  \o Unless(optional_modules_list, Every(optional_modules_list, features))
  \o Unless(feature_shared_modules_list,
            Some(feature_shared_modules_list, features))
  \o Unless(cross_feature_modules_list,
            Every(cross_feature_modules_list, features))
  \o Unless(stage_feature_module_list,
            Every(stage_feature_module_list, features))

(* Bug: one feature is enough for what needs several.                           *)
Removals_CrossNeedOne(features, multi_stage) ==
  (IF multi_stage THEN <<>> ELSE FixVariablesModules)
  \o Unless(optional_modules_list, Every(optional_modules_list, features))
  \o Unless(feature_shared_modules_list,
            Some(feature_shared_modules_list, features))
  \o Unless(cross_feature_modules_list,
            Some(cross_feature_modules_list, features))
  \o (IF multi_stage
      THEN Unless(stage_feature_module_list,
                  Every(stage_feature_module_list, features))
      ELSE <<>>)

(* determine_modules.  Each list of modules the code calls remove for, in its   *)
(* order; feature_remove_modules_list is empty.                                 *)
Removals(features, multi_stage) ==
  (IF multi_stage THEN <<>> ELSE FixVariablesModules)
  \o Unless(optional_modules_list, Every(optional_modules_list, features))
  \o Unless(feature_shared_modules_list,
            Some(feature_shared_modules_list, features))
  \o Unless(cross_feature_modules_list,
            Every(cross_feature_modules_list, features))
  \o (IF multi_stage
      THEN Unless(stage_feature_module_list,
                  Every(stage_feature_module_list, features))
      ELSE <<>>)

Modules == Range(all_modules_list)

(* The elements of a list that are in the set, in their order: those after one  *)
(* place up to another are those up to the middle and those after it.           *)
Only(list, set) ==
  LET among[s \in (0..Len(list)) \X (0..Len(list))] ==
        LET mid == (s[1] + s[2]) \div 2
        IN IF s[2] - s[1] > 1
           THEN among[<<s[1], mid>>] \o among[<<mid, s[2]>>]
           ELSE IF s[1] < s[2] /\ list[s[2]] \in set THEN <<list[s[2]]>>
           ELSE <<>>
  IN among[<<0, Len(list)>>]

(* Bug: the modules of the features come after all the others.                  *)
determine_modules_FeaturesLast(features, multi_stage) ==
  LET kept == Modules \ Range(Removals(features, multi_stage))
      optional == UNION {Range(group.modules) : group \in
                           Range(optional_modules_list)}
  IN Only(all_modules_list, kept \ optional)
       \o Only(all_modules_list, kept \cap optional)

(* Bug: the modules of the features come first.                                 *)
determine_modules_FeaturesFirst(features, multi_stage) ==
  LET kept == Modules \ Range(Removals(features, multi_stage))
      optional == UNION {Range(group.modules) : group \in
                           Range(optional_modules_list)}
  IN Only(all_modules_list, kept \cap optional)
       \o Only(all_modules_list, kept \ optional)

(* list.remove deletes the first occurrence and raises ValueError if there is   *)
(* none: the list is what is left, as no module is in it twice and each removal *)
(* finds its module (RemovalsFindTheirModule of Formulation).                   *)
determine_modules(features, multi_stage) ==
  Only(all_modules_list, Modules \ Range(Removals(features, multi_stage)))

Features ==
  UNION {group.features : group \in
           Range(optional_modules_list) \cup Range(cross_feature_modules_list)
           \cup Range(feature_shared_modules_list)}

(* The type modules of each family: a type is loaded if the projects (or      *)
(* transmission lines, reservoirs, policy contributions) of the scenario      *)
(* name it (get_required_subtype_modules, load_subtype_modules of             *)
(* auxiliary.py).                                                             *)
TypesOf ==
  "capacity_type" :>
       {"project.capacity.capacity_types.dr_new",
        "project.capacity.capacity_types.energy_new_lin",
        "project.capacity.capacity_types.energy_spec",
        "project.capacity.capacity_types.fuel_prod_new",
        "project.capacity.capacity_types.fuel_prod_spec",
        "project.capacity.capacity_types.gen_new_bin",
        "project.capacity.capacity_types.gen_new_lin",
        "project.capacity.capacity_types.gen_ret_bin",
        "project.capacity.capacity_types.gen_ret_lin",
        "project.capacity.capacity_types.gen_spec",
        "project.capacity.capacity_types.gen_stor_hyb_spec",
        "project.capacity.capacity_types.stor_new_bin",
        "project.capacity.capacity_types.stor_new_lin",
        "project.capacity.capacity_types.stor_spec"}
  @@ "operational_type" :>
       {"project.operations.operational_types.dispatchable_load",
        "project.operations.operational_types.dr",
        "project.operations.operational_types.energy_hrz_shaping",
        "project.operations.operational_types.energy_load_following",
        "project.operations.operational_types.energy_profile",
        "project.operations.operational_types.energy_slice_hrz_shaping",
        "project.operations.operational_types.flex_load",
        "project.operations.operational_types.fuel_prod",
        "project.operations.operational_types.gen_always_on",
        "project.operations.operational_types.gen_commit_bin",
        "project.operations.operational_types.gen_commit_cap",
        "project.operations.operational_types.gen_commit_lin",
        "project.operations.operational_types.gen_hydro",
        "project.operations.operational_types.gen_hydro_must_take",
        "project.operations.operational_types.gen_hydro_water",
        "project.operations.operational_types.gen_must_run",
        "project.operations.operational_types.gen_simple",
        "project.operations.operational_types.gen_simple_energy_limited",
        "project.operations.operational_types.gen_simple_no_load_balance_power",
        "project.operations.operational_types.gen_var",
        "project.operations.operational_types.gen_var_must_take",
        "project.operations.operational_types.gen_var_stor_hyb",
        "project.operations.operational_types.load_component_modifier",
        "project.operations.operational_types.load_component_shift",
        "project.operations.operational_types.stor"}
  @@ "availability_type" :>
       {"project.availability.availability_types.binary",
        "project.availability.availability_types.continuous",
        "project.availability.availability_types.exogenous"}
  @@ "tx_capacity_type" :>
       {"transmission.capacity.capacity_types.tx_new_lin",
        "transmission.capacity.capacity_types.tx_spec"}
  @@ "tx_operational_type" :>
       {"transmission.operations.operational_types.tx_dcopf",
        "transmission.operations.operational_types.tx_simple",
        "transmission.operations.operational_types.tx_simple_binary"}
  @@ "tx_availability_type" :>
       {"transmission.availability.availability_types.exogenous",
        "transmission.availability.availability_types.exogenous_monthly"}
  @@ "compliance_type" :>
       {"project.policy.compliance_types.f_output",
        "project.policy.compliance_types.flat_horizon",
        "project.policy.compliance_types.sod_exceedance",
        "project.policy.compliance_types.sod_flat_block",
        "project.policy.compliance_types.sod_stor",
        "project.policy.compliance_types.stor_losses"}
  @@ "elevation_type" :>
       {"system.water.elevation_types.constant",
        "system.water.elevation_types.endogenous",
        "system.water.elevation_types.exogenous"}
  @@ "prm_type" :>
       {"project.reliability.prm.prm_types.energy_only_allowed",
        "project.reliability.prm.prm_types.fully_deliverable",
        "project.reliability.prm.prm_types.fully_deliverable_energy_limited"}
=============================================================================
