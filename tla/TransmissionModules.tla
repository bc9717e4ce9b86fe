------------------------- MODULE TransmissionModules --------------------------
(* The transmission modules and types (src/gridpath/transmission).             *)
EXTENDS GridPathModule

(* transmission. The gridpath.transmission package adds transmission-line-     *)
(* level components to the model formulation.                                  *)
transmission_model ==
  [NoModel EXCEPT !.declares = {"TX_LINES", "load_zone_from", "load_zone_to",
      "tx_availability_type", "tx_capacity_type", "tx_operational_type"},
     !.over = {"LOAD_ZONES"}]
transmission_loads == Loads({"transmission_lines.tab"}, {})
transmission_writes == Writes({}, {"transmission_lines.tab"}, {})
transmission_results ==
  [NoResults EXCEPT !.creates = Cols("transmission_period_df",
      {"load_zone_from", "load_zone_to", "period", "transmission_line",
      "tx_availability_type", "tx_capacity_type", "tx_operational_type"}) \cup
      Cols("transmission_timepoint_df", {"load_zone_from", "load_zone_to",
      "number_of_hours_in_timepoint", "period", "timepoint",
      "timepoint_weight", "transmission_line", "tx_availability_type",
      "tx_capacity_type", "tx_operational_type"})]

(* transmission.capacity                                                       *)
transmission_capacity_imports == {"transmission_period.csv"}

(* transmission.capacity.capacity_types. The                                   *)
(* gridpath.transmission.capacity.capacity_types package contains modules to   *)
(* describe the various ways in which transmission-line capacity can be        *)
(* treated in the optimization problem, e.g.                                   *)
transmission_capacity_capacity_types_loads ==
    Loads({"transmission_lines.tab"}, {})

(* transmission.capacity.capacity. This is a line-level module that adds to    *)
(* the formulation components that describe the capacity of transmission       *)
(* lines that are available to the optimization for each period.               *)
transmission_capacity_capacity_model ==
  [NoModel EXCEPT !.declares = {"TX_LINES_OPR_IN_PRD", "TX_LINES_OPR_IN_TMP",
      "TX_OPR_PRDS", "TX_OPR_TMPS", "Tx_Max_Capacity_MW",
      "Tx_Min_Capacity_MW"},
     !.over = {"PERIODS", "TMPS", "TX_LINES"},
     !.reads = {"TMPS_IN_PRD", "tx_capacity_type"},
     !.takes = {"tx_capacity_type_operational_period_sets"},
     !.expects = {<<"tx_capacity_type", "max_transmission_capacity_rule">>,
      <<"tx_capacity_type", "min_transmission_capacity_rule">>}]
transmission_capacity_capacity_results ==
  [NoResults EXCEPT !.assigns = Cols("transmission_period_df", {"max_mw",
      "min_mw"}),
     !.collects = "fill"]

(* transmission.capacity.costs. This is a line-level module that adds to the   *)
(* formulation components that describe the capacity costs of transmission     *)
(* lines that are available to the optimization for each period, which         *)
(* depend on the line's capacity_type.                                         *)
transmission_capacity_costs_model ==
  [NoModel EXCEPT !.declares = {"TX_FIN_PRDS", "Tx_Capacity_Cost_in_Period",
      "Tx_Fixed_Cost_in_Period"},
     !.over = {"PERIODS", "TX_LINES", "TX_OPR_PRDS"},
     !.reads = {"hours_in_period_timepoints", "hours_in_subproblem_period",
      "tx_capacity_type"},
     !.takes = {"tx_capacity_type_financial_period_sets"},
     !.calls = {<<"tx_capacity_type", "capacity_cost_rule">>,
      <<"tx_capacity_type", "fixed_cost_rule">>}]
transmission_capacity_costs_loads == Loads({"transmission_lines.tab"}, {})
transmission_capacity_costs_results ==
  [NoResults EXCEPT !.assigns = Cols("transmission_period_df",
      {"capacity_cost", "fixed_cost", "hours_in_period_timepoints",
      "hours_in_subproblem_period"})]

(* transmission.capacity.consolidate_results                                   *)
capacity_consolidate_results_results ==
  [NoResults EXCEPT !.saves = {<<"transmission_period_df",
      "transmission_period.csv">>}]

(* transmission.capacity.capacity_groups. Minimum and maximum new and total    *)
(* capacity by period and transmission line group.                             *)
transmission_capacity_capacity_groups_model ==
  [NoModel EXCEPT !.over = {"TX_LINES"},
     !.reads = {"tx_capacity_type"},
     !.calls = {<<"tx_capacity_type", "new_capacity_rule">>}]
transmission_capacity_capacity_groups_loads == Loads({},
    {"transmission_capacity_group_requirements.tab",
    "transmission_capacity_group_transmission_lines.tab"})
transmission_capacity_capacity_groups_writes == Writes({},
    {"transmission_capacity_group_requirements.tab",
    "transmission_capacity_group_transmission_lines.tab"}, {})
transmission_capacity_capacity_groups_results ==
  [NoResults EXCEPT !.exports = Cols("transmission_group_capacity.csv",
      {"new_capacity", "period", "transmission_capacity_group",
      "transmission_capacity_group_new_capacity_max",
      "transmission_capacity_group_new_capacity_min"})]
transmission_capacity_capacity_groups_imports ==
    {"transmission_group_capacity.csv"}

(* transmission.availability.availability                                      *)
transmission_availability_availability_model ==
  [NoModel EXCEPT !.declares = {"Tx_Availability_Derate"},
     !.over = {"TX_OPR_TMPS"},
     !.reads = {"tx_availability_type"},
     !.expects = {<<"tx_availability_type", "availability_derate_rule">>}]

(* transmission.operations                                                     *)
transmission_operations_imports == {"transmission_timepoint.csv"}

(* transmission.operations.operational_types. The                              *)
(* gridpath.transmission.operations.operational_types package contains         *)
(* modules to describe the various ways in which transmission-line             *)
(* operations are constrained in optimization problem, e.g.                    *)
transmission_operations_operational_types_loads ==
    Loads({"transmission_lines.tab"}, {})

(* transmission.operations.operations. This is a line-level module that adds   *)
(* to the formulation components that describe the amount of power flowing     *)
(* on each line.                                                               *)
operations_operations_model ==
  [NoModel EXCEPT !.declares = {"Transmit_Power_MW", "Tx_Losses_LZ_From_MW",
      "Tx_Losses_LZ_To_MW"},
     !.over = {"TX_OPR_TMPS"},
     !.reads = {"tx_operational_type"},
     !.expects = {<<"tx_operational_type",
      "transmit_power_losses_lz_from_rule">>, <<"tx_operational_type",
      "transmit_power_losses_lz_to_rule">>, <<"tx_operational_type",
      "transmit_power_rule">>}]
operations_operations_results ==
  [NoResults EXCEPT !.assigns = Cols("transmission_timepoint_df",
      {"transmission_flow_mw", "transmission_losses_lz_from",
      "transmission_losses_lz_to"}),
     !.collects = "fill"]

(* transmission.operations.transmission_flow_limits. This operational type     *)
(* describes transmission lines whose flows are simulated using a linear       *)
(* transport model, i.e.                                                       *)
transmission_flow_limits_model ==
  [NoModel EXCEPT !.over = {"TX_OPR_TMPS"},
     !.reads = {"Transmit_Power_MW"}]
transmission_flow_limits_loads == Loads({}, {"transmission_flow_limits.tab"})
transmission_flow_limits_writes == Writes({},
    {"transmission_flow_limits.tab"}, {})

(* transmission.operations.consolidate_results                                 *)
operations_consolidate_results_results ==
  [NoResults EXCEPT !.saves = {<<"transmission_timepoint_df",
      "transmission_timepoint.csv">>}]

(* transmission.operations.hurdle_costs. This is a Tx-line-level module that   *)
(* adds to the formulation components that describe the operations-related     *)
(* costs of transmission lines, namely hurdle rate costs.                      *)
hurdle_costs_model ==
  [NoModel EXCEPT !.declares = {"Hurdle_Cost_Neg_Dir", "Hurdle_Cost_Pos_Dir"},
     !.over = {"PERIODS", "TX_LINES", "TX_OPR_TMPS"},
     !.reads = {"Transmit_Power_MW", "period"}]
hurdle_costs_loads == Loads({"transmission_hurdle_rates.tab"}, {})
hurdle_costs_writes == Writes({"transmission_hurdle_rates.tab"}, {}, {})
hurdle_costs_results ==
  [NoResults EXCEPT !.assigns = Cols("transmission_timepoint_df",
      {"hurdle_cost_negative_direction", "hurdle_cost_positive_direction"})]

(* transmission.operations.hurdle_costs_by_timepoint. This is a Tx-line-       *)
(* level module that adds to the formulation components that describe the      *)
(* operations-related costs of transmission lines, namely hurdle rate costs.   *)
hurdle_costs_by_timepoint_model ==
  [NoModel EXCEPT !.declares = {"Hurdle_Cost_By_Tmp_Neg_Dir",
      "Hurdle_Cost_By_Tmp_Pos_Dir"},
     !.over = {"TX_OPR_TMPS"},
     !.reads = {"Transmit_Power_MW"}]
hurdle_costs_by_timepoint_loads ==
    Loads({"transmission_hurdle_rates_by_timepoint.tab"}, {})
hurdle_costs_by_timepoint_writes ==
    Writes({"transmission_hurdle_rates_by_timepoint.tab"}, {}, {})
hurdle_costs_by_timepoint_results ==
  [NoResults EXCEPT !.assigns = Cols("transmission_timepoint_df",
      {"hurdle_cost_by_timepoint_negative_direction",
      "hurdle_cost_by_timepoint_positive_direction"})]

(* transmission.operations.simultaneous_flow_limits. This module enforces      *)
(* limits on flows across groups of transmission lines.                        *)
simultaneous_flow_limits_model ==
  [NoModel EXCEPT !.over = {"TX_LINES"},
     !.reads = {"TMPS_IN_PRD", "TX_OPR_TMPS", "Transmit_Power_MW", "period"}]
simultaneous_flow_limits_loads ==
    Loads({"transmission_simultaneous_flow_limit_lines.tab",
    "transmission_simultaneous_flow_limits.tab"}, {})
simultaneous_flow_limits_writes ==
    Writes({"transmission_simultaneous_flow_limit_lines.tab",
    "transmission_simultaneous_flow_limits.tab"}, {}, {})
simultaneous_flow_limits_results ==
  [NoResults EXCEPT !.exports = Cols("transmission_simultaneous_flows.csv",
      {"period", "simultaneous_flow_mw", "timepoint", "timepoint_weight",
      "transmission_simultaneous_flow_limit"})]
simultaneous_flow_limits_imports == {"transmission_simultaneous_flows.csv"}

(* transmission.operations.carbon_emissions. Get carbon emissions on each      *)
(* 'carbonaceous' transmission line.                                           *)
transmission_operations_carbon_emissions_model ==
  [NoModel EXCEPT !.declares = {"CRB_TX_LINES_BY_CARBON_CAP_ZONE",
      "CRB_TX_OPR_TMPS", "Import_Carbon_Emissions_Tons"},
     !.over = {"CARBON_CAP_ZONES", "TX_LINES", "TX_OPR_TMPS"},
     !.reads = {"Transmit_Power_MW"}]
transmission_operations_carbon_emissions_loads ==
    Loads({"transmission_average_emissions.tab"},
    {"transmission_timepoint_emissions.tab"})
transmission_operations_carbon_emissions_writes == Writes({},
    {"transmission_average_emissions.tab",
    "transmission_timepoint_emissions.tab"}, {})
transmission_operations_carbon_emissions_results ==
  [NoResults EXCEPT !.assigns = Cols("transmission_timepoint_df",
      {"carbon_emission_imports_tons", "carbon_emission_imports_tons_degen"})]

(* transmission.reliability.capacity_transfer_links. Zones between which       *)
(* capacity transfers can occur.                                               *)
capacity_transfer_links_model ==
  [NoModel EXCEPT !.declares = {"PRM_ZONES_CAPACITY_TRANSFER_ZONES"},
     !.over = {"PRM_ZONES"}]
capacity_transfer_links_loads == Loads({},
    {"prm_capacity_transfer_zone_links.tab"})
capacity_transfer_links_writes == Writes({},
    {"prm_capacity_transfer_zone_links.tab"}, {})

(* transmission.operations.transmission_target_contributions                   *)
transmission_target_contributions_model ==
  [NoModel EXCEPT !.declares =
      {"TRANSMISSION_TARGET_TX_LINES_BY_TRANSMISSION_TARGET_ZONE",
      "TRANSMISSION_TARGET_TX_OPR_TMPS",
      "Transmission_Target_Energy_MW_Neg_Dir",
      "Transmission_Target_Energy_MW_Pos_Dir",
      "Transmission_Target_Net_Energy_MW_Neg_Dir",
      "Transmission_Target_Net_Energy_MW_Pos_Dir",
      "contributes_net_flow_to_tx_target"},
     !.over = {"TRANSMISSION_TARGET_ZONES", "TX_LINES", "TX_OPR_TMPS"},
     !.reads = {"Transmit_Power_MW"},
     !.readsFor =
      {<<"transmission.operations.operational_types.tx_simple_binary",
      "TxSimpleBinary_Transmit_Power_Negative_Direction_MW">>,
      <<"transmission.operations.operational_types.tx_simple_binary",
      "TxSimpleBinary_Transmit_Power_Positive_Direction_MW">>}]
transmission_target_contributions_loads == Loads({"transmission_lines.tab"},
    {})
transmission_target_contributions_writes == Writes({}, {},
    {"transmission_lines.tab"})
transmission_target_contributions_results ==
  [NoResults EXCEPT !.assigns = Cols("transmission_timepoint_df",
      {"actual_flow_negative_direction", "actual_flow_positive_direction",
      "tx_flow_negative_direction", "tx_flow_positive_direction"})]

(* transmission.operations.tx_tuning_costs. Operational tuning costs that      *)
(* prevent erratic dispatch in case of degeneracy.                             *)
tx_tuning_costs_model ==
  [NoModel EXCEPT !.declares = {"Export_Penalty_Cost",
      "Tx_Simple_Losses_Penalty_Cost"},
     !.over = {"LOAD_ZONES", "TMPS", "TX_OPR_TMPS"},
     !.reads = {"Transmission_from_Zone_MW", "Transmission_to_Zone_MW",
      "export_penalty_cost_per_mwh", "tx_operational_type"},
     !.readsFor = {<<"transmission.operations.operational_types.tx_simple",
      "TxSimple_Losses_LZ_From_MW">>,
      <<"transmission.operations.operational_types.tx_simple",
      "TxSimple_Losses_LZ_To_MW">>,
      <<"transmission.operations.operational_types.tx_simple",
      "losses_tuning_cost_per_mw">>}]

(* transmission.capacity.capacity_types.tx_new_lin. This capacity type         *)
(* describes transmission lines that can be built by the optimization at a     *)
(* cost.                                                                       *)
tx_new_lin_model ==
  [NoModel EXCEPT !.declares = {"TX_NEW_LIN_FIN_PRDS", "TX_NEW_LIN_OPR_PRDS",
      "TX_NEW_LIN_VNTS_FIN_IN_PRD"},
     !.over = {"PERIODS"},
     !.reads = {"PERIOD_FUTURE_TRAJECTORY", "period_end_year",
      "period_start_year"},
     !.adds = {<<"tx_capacity_type_financial_period_sets",
      "TX_NEW_LIN_FIN_PRDS">>, <<"tx_capacity_type_operational_period_sets",
      "TX_NEW_LIN_OPR_PRDS">>}]
tx_new_lin_functions ==
  [min_transmission_capacity_rule |-> {},
   max_transmission_capacity_rule |-> {},
   capacity_cost_rule |-> {},
   fixed_cost_rule |-> {},
   new_capacity_rule |-> {}]
tx_new_lin_loads == Loads({"new_build_transmission_vintage_costs.tab"}, {})
tx_new_lin_writes == Writes({"new_build_transmission_vintage_costs.tab"}, {},
    {})
tx_new_lin_results ==
  [NoResults EXCEPT !.returns = Cols("transmission_period_df",
      {"new_build_capacity_mw"})]

(* transmission.capacity.capacity_types.tx_spec. This capacity type            *)
(* describes transmission lines that are available to the optimization         *)
(* without having to incur an investment cost, e.g.                            *)
tx_spec_model ==
  [NoModel EXCEPT !.declares = {"TX_SPEC_OPR_PRDS"},
     !.adds = {<<"tx_capacity_type_operational_period_sets",
      "TX_SPEC_OPR_PRDS">>}]
tx_spec_functions ==
  [min_transmission_capacity_rule |-> {},
   max_transmission_capacity_rule |-> {},
   fixed_cost_rule |-> {}]
tx_spec_loads == Loads({"specified_transmission_line_capacities.tab"}, {})
tx_spec_writes == Writes({"specified_transmission_line_capacities.tab"}, {},
    {})

(* transmission.operations.operational_types.tx_dcopf. This operational type   *)
(* describes transmission lines whose flows are simulated using DC optimal     *)
(* power flow (OPF) equations.                                                 *)
tx_dcopf_model ==
  [NoModel EXCEPT !.over = {"TX_LINES", "TX_OPR_TMPS"},
     !.reads = {"PERIODS", "TMPS_IN_PRD", "TX_LINES_OPR_IN_PRD",
      "Tx_Availability_Derate", "Tx_Max_Capacity_MW", "Tx_Min_Capacity_MW",
      "load_zone_from", "load_zone_to", "period", "tx_operational_type"}]
tx_dcopf_functions ==
  [transmit_power_rule |-> {},
   transmit_power_losses_lz_from_rule |-> {},
   transmit_power_losses_lz_to_rule |-> {}]
tx_dcopf_loads == Loads({"transmission_lines.tab"}, {})

(* transmission.operations.operational_types.tx_simple. This operational       *)
(* type describes transmission lines whose flows are simulated using a         *)
(* linear transport model, i.e.                                                *)
tx_simple_model ==
  [NoModel EXCEPT !.declares = {"TxSimple_Losses_LZ_From_MW",
      "TxSimple_Losses_LZ_To_MW", "losses_tuning_cost_per_mw"},
     !.over = {"TX_LINES", "TX_OPR_TMPS"},
     !.reads = {"Tx_Availability_Derate", "Tx_Max_Capacity_MW",
      "Tx_Min_Capacity_MW", "period", "tx_operational_type"}]
tx_simple_functions ==
  [transmit_power_rule |-> {},
   transmit_power_losses_lz_from_rule |-> {},
   transmit_power_losses_lz_to_rule |-> {}]
tx_simple_loads == Loads({"transmission_lines.tab"}, {})

(* transmission.operations.operational_types.tx_simple_binary. This            *)
(* operational type describes transmission lines whose flows are simulated     *)
(* using a linear transport model, i.e.                                        *)
tx_simple_binary_model ==
  [NoModel EXCEPT !.declares =
      {"TxSimpleBinary_Transmit_Power_Negative_Direction_MW",
      "TxSimpleBinary_Transmit_Power_Positive_Direction_MW"},
     !.over = {"TX_LINES", "TX_OPR_TMPS"},
     !.reads = {"Tx_Availability_Derate", "Tx_Max_Capacity_MW",
      "Tx_Min_Capacity_MW", "period", "tx_operational_type"}]
tx_simple_binary_functions ==
  [transmit_power_rule |-> {},
   transmit_power_losses_lz_from_rule |-> {},
   transmit_power_losses_lz_to_rule |-> {}]
tx_simple_binary_loads == Loads({"transmission_lines.tab"}, {})

(* transmission.availability.availability_types.exogenous. For each            *)
(* transmission line assigned this availability type, the user may specify     *)
(* an (un)availability schedule, i.e.                                          *)
transmission_availability_availability_types_exogenous_model ==
  [NoModel EXCEPT !.over = {"TX_LINES", "TX_OPR_TMPS"}]
transmission_availability_availability_types_exogenous_functions ==
  [availability_derate_rule |-> {}]
transmission_availability_availability_types_exogenous_loads ==
    Loads({"transmission_lines.tab"},
    {"transmission_availability_exogenous.tab"})
transmission_availability_availability_types_exogenous_writes == Writes({},
    {"transmission_availability_exogenous.tab"}, {})

(* transmission.availability.availability_types.exogenous_monthly. For each    *)
(* transmisison line assigned this availability type, the user may specify     *)
(* an (un)availability schedule, i.e.                                          *)
exogenous_monthly_model == [NoModel EXCEPT !.over = {"MONTHS", "TX_LINES"}]
exogenous_monthly_functions ==
  [availability_derate_rule |-> {"month"}]
exogenous_monthly_loads == Loads({"transmission_lines.tab"},
    {"transmission_availability_exogenous_monthly.tab"})
exogenous_monthly_writes == Writes({},
    {"transmission_availability_exogenous_monthly.tab"}, {})

(* The modules of this package by name.                                        *)
TransmissionParts ==
  "transmission" :>
       Parts(transmission_model, transmission_loads, transmission_writes,
             transmission_results, {})
  @@ "transmission.capacity" :>
       Parts(NoModel, NoLoads, NoWrites, NoResults,
             transmission_capacity_imports)
  @@ "transmission.capacity.capacity_types" :>
       Parts(NoModel, transmission_capacity_capacity_types_loads, NoWrites,
             NoResults, {})
  @@ "transmission.capacity.capacity" :>
       Parts(transmission_capacity_capacity_model, NoLoads, NoWrites,
             transmission_capacity_capacity_results, {})
  @@ "transmission.capacity.costs" :>
       Parts(transmission_capacity_costs_model,
             transmission_capacity_costs_loads, NoWrites,
             transmission_capacity_costs_results, {})
  @@ "transmission.capacity.consolidate_results" :>
       Parts(NoModel, NoLoads, NoWrites,
             capacity_consolidate_results_results, {})
  @@ "transmission.capacity.capacity_groups" :>
       Parts(transmission_capacity_capacity_groups_model,
             transmission_capacity_capacity_groups_loads,
             transmission_capacity_capacity_groups_writes,
             transmission_capacity_capacity_groups_results,
             transmission_capacity_capacity_groups_imports)
  @@ "transmission.availability.availability" :>
       Parts(transmission_availability_availability_model, NoLoads, NoWrites,
             NoResults, {})
  @@ "transmission.operations" :>
       Parts(NoModel, NoLoads, NoWrites, NoResults,
             transmission_operations_imports)
  @@ "transmission.operations.operational_types" :>
       Parts(NoModel, transmission_operations_operational_types_loads,
             NoWrites, NoResults, {})
  @@ "transmission.operations.operations" :>
       Parts(operations_operations_model, NoLoads, NoWrites,
             operations_operations_results, {})
  @@ "transmission.operations.transmission_flow_limits" :>
       Parts(transmission_flow_limits_model, transmission_flow_limits_loads,
             transmission_flow_limits_writes, NoResults, {})
  @@ "transmission.operations.consolidate_results" :>
       Parts(NoModel, NoLoads, NoWrites,
             operations_consolidate_results_results, {})
  @@ "transmission.operations.hurdle_costs" :>
       Parts(hurdle_costs_model, hurdle_costs_loads, hurdle_costs_writes,
             hurdle_costs_results, {})
  @@ "transmission.operations.hurdle_costs_by_timepoint" :>
       Parts(hurdle_costs_by_timepoint_model,
             hurdle_costs_by_timepoint_loads,
             hurdle_costs_by_timepoint_writes,
             hurdle_costs_by_timepoint_results, {})
  @@ "transmission.operations.simultaneous_flow_limits" :>
       Parts(simultaneous_flow_limits_model, simultaneous_flow_limits_loads,
             simultaneous_flow_limits_writes,
             simultaneous_flow_limits_results,
             simultaneous_flow_limits_imports)
  @@ "transmission.operations.carbon_emissions" :>
       Parts(transmission_operations_carbon_emissions_model,
             transmission_operations_carbon_emissions_loads,
             transmission_operations_carbon_emissions_writes,
             transmission_operations_carbon_emissions_results, {})
  @@ "transmission.reliability.capacity_transfer_links" :>
       Parts(capacity_transfer_links_model, capacity_transfer_links_loads,
             capacity_transfer_links_writes, NoResults, {})
  @@ "transmission.operations.transmission_target_contributions" :>
       Parts(transmission_target_contributions_model,
             transmission_target_contributions_loads,
             transmission_target_contributions_writes,
             transmission_target_contributions_results, {})
  @@ "transmission.operations.tx_tuning_costs" :>
       Parts(tx_tuning_costs_model, NoLoads, NoWrites, NoResults, {})
  @@ "transmission.capacity.capacity_types.tx_new_lin" :>
       Parts(tx_new_lin_model, tx_new_lin_loads, tx_new_lin_writes,
             tx_new_lin_results, {})
  @@ "transmission.capacity.capacity_types.tx_spec" :>
       Parts(tx_spec_model, tx_spec_loads, tx_spec_writes, NoResults, {})
  @@ "transmission.operations.operational_types.tx_dcopf" :>
       Parts(tx_dcopf_model, tx_dcopf_loads, NoWrites, NoResults, {})
  @@ "transmission.operations.operational_types.tx_simple" :>
       Parts(tx_simple_model, tx_simple_loads, NoWrites, NoResults, {})
  @@ "transmission.operations.operational_types.tx_simple_binary" :>
       Parts(tx_simple_binary_model, tx_simple_binary_loads, NoWrites,
             NoResults, {})
  @@ "transmission.availability.availability_types.exogenous" :>
       Parts(transmission_availability_availability_types_exogenous_model,
             transmission_availability_availability_types_exogenous_loads,
             transmission_availability_availability_types_exogenous_writes,
             NoResults, {})
  @@ "transmission.availability.availability_types.exogenous_monthly" :>
       Parts(exogenous_monthly_model, exogenous_monthly_loads,
             exogenous_monthly_writes, NoResults, {})

(* The functions the types offer to the modules that load them.                *)
TransmissionFunctions ==
  "transmission.capacity.capacity_types.tx_new_lin" :> tx_new_lin_functions
  @@ "transmission.capacity.capacity_types.tx_spec" :> tx_spec_functions
  @@ "transmission.operations.operational_types.tx_dcopf" :> tx_dcopf_functions
  @@ "transmission.operations.operational_types.tx_simple" :>
       tx_simple_functions
  @@ "transmission.operations.operational_types.tx_simple_binary" :>
       tx_simple_binary_functions
  @@ "transmission.availability.availability_types.exogenous" :>
       transmission_availability_availability_types_exogenous_functions
  @@ "transmission.availability.availability_types.exogenous_monthly" :>
       exogenous_monthly_functions
===============================================================================
