---------------------------- MODULE CapacityTypes -----------------------------
(* The capacity types of projects: one loaded for each value of                *)
(* capacity_type in projects.tab                                               *)
(* (src/gridpath/project/capacity/capacity_types).                             *)
EXTENDS GridPathModule

(* project.capacity.capacity_types.dr_new. This type is a custom               *)
(* implementation for GridPath projects in the California Integrated           *)
(* Resource Planning proceeding (2018ish).                                     *)
dr_new_model ==
  [NoModel EXCEPT !.declares = {"DR_NEW_FIN_PRDS", "DR_NEW_OPR_PRDS"},
     !.over = {"PERIODS"},
     !.adds = {<<"capacity_type_financial_period_sets", "DR_NEW_FIN_PRDS">>,
      <<"capacity_type_operational_period_sets", "DR_NEW_OPR_PRDS">>}]
dr_new_functions ==
  [capacity_rule |-> {},
   energy_stor_capacity_rule |-> {},
   capacity_cost_rule |-> {},
   new_capacity_rule |-> {}]
dr_new_loads == Loads({"new_shiftable_load_supply_curve.tab",
    "new_shiftable_load_supply_curve_potential.tab", "projects.tab"}, {})
dr_new_writes == Writes({"new_shiftable_load_supply_curve.tab",
    "new_shiftable_load_supply_curve_potential.tab"}, {}, {})
dr_new_results ==
  [NoResults EXCEPT !.returns = Cols("project_period_df", {"new_build_mw",
      "new_build_mwh"})]

(* project.capacity.capacity_types.energy_new_lin                              *)
energy_new_lin_model ==
  [NoModel EXCEPT !.declares = {"ENERGY_NEW_LIN_FIN_PRDS",
      "ENERGY_NEW_LIN_OPR_PRDS"},
     !.over = {"PERIODS", "PROJECTS"},
     !.reads = {"PERIOD_FUTURE_TRAJECTORY", "period_end_year",
      "period_start_year"},
     !.adds = {<<"capacity_type_financial_period_sets",
      "ENERGY_NEW_LIN_FIN_PRDS">>, <<"capacity_type_operational_period_sets",
      "ENERGY_NEW_LIN_OPR_PRDS">>}]
energy_new_lin_functions ==
  [energy_rule |-> {},
   energy_cost_rule |-> {},
   fixed_cost_rule |-> {},
   new_energy_rule |-> {}]
energy_new_lin_loads == Loads({"new_build_energy_vintage_costs.tab"}, {})
energy_new_lin_writes == Writes({"new_build_energy_vintage_costs.tab"}, {},
    {})
energy_new_lin_results ==
  [NoResults EXCEPT !.returns = Cols("project_period_df",
      {"new_build_energy_mwh"})]

(* project.capacity.capacity_types.energy_spec. Specified energy-only          *)
(* project.                                                                    *)
energy_spec_model ==
  [NoModel EXCEPT !.declares = {"GEN_ENERGY_SPEC_OPR_PRDS",
      "shaping_capacity_mw"},
     !.adds = {<<"capacity_type_operational_period_sets",
      "GEN_ENERGY_SPEC_OPR_PRDS">>}]
energy_spec_functions ==
  [energy_rule |-> {},
   fixed_cost_rule |-> {}]
energy_spec_loads == Loads({"projects.tab",
    "spec_capacity_period_params.tab"}, {})
energy_spec_writes == Writes({"spec_capacity_period_params.tab"}, {}, {})

(* project.capacity.capacity_types.fuel_prod_new. This capacity type           *)
(* describes fuel production projects that can be built by the optimization    *)
(* at a cost.                                                                  *)
fuel_prod_new_model ==
  [NoModel EXCEPT !.declares = {"FUEL_PROD_NEW_FIN_PRDS",
      "FUEL_PROD_NEW_OPR_PRDS"},
     !.over = {"PERIODS"},
     !.reads = {"PERIOD_FUTURE_TRAJECTORY", "period_end_year",
      "period_start_year"},
     !.adds = {<<"capacity_type_financial_period_sets",
      "FUEL_PROD_NEW_FIN_PRDS">>, <<"capacity_type_operational_period_sets",
      "FUEL_PROD_NEW_OPR_PRDS">>}]
fuel_prod_new_functions ==
  [fuel_prod_capacity_rule |-> {},
   fuel_release_capacity_rule |-> {},
   fuel_storage_capacity_rule |-> {},
   capacity_cost_rule |-> {},
   fixed_cost_rule |-> {}]
fuel_prod_new_loads == Loads({"fuel_prod_new_vintage_costs.tab",
    "projects.tab"}, {})
fuel_prod_new_writes == Writes({"fuel_prod_new_vintage_costs.tab"}, {}, {})
fuel_prod_new_results ==
  [NoResults EXCEPT !.returns = Cols("project_period_df",
      {"new_fuel_prod_capacity_fuelunitperhour",
      "new_fuel_rel_capacity_fuelunitperhour",
      "new_fuel_stor_capacity_fuelunit"})]

(* project.capacity.capacity_types.fuel_prod_spec. This capacity type          *)
(* describes fuel production facilities with exogenously specified capacity    *)
(* characteristics.                                                            *)
fuel_prod_spec_model ==
  [NoModel EXCEPT !.declares = {"FUEL_SPEC_OPR_PRDS"},
     !.adds = {<<"capacity_type_operational_period_sets",
      "FUEL_SPEC_OPR_PRDS">>}]
fuel_prod_spec_functions ==
  [fuel_prod_capacity_rule |-> {},
   fuel_release_capacity_rule |-> {},
   fuel_storage_capacity_rule |-> {},
   fixed_cost_rule |-> {}]
fuel_prod_spec_loads == Loads({"projects.tab",
    "spec_capacity_period_params.tab"}, {})
fuel_prod_spec_writes == Writes({"spec_capacity_period_params.tab"}, {}, {})

(* project.capacity.capacity_types.gen_new_bin. This capacity type describes   *)
(* new generation projects that can be built by the optimization at a pre-     *)
(* specified size and cost.                                                    *)
gen_new_bin_model ==
  [NoModel EXCEPT !.declares = {"GEN_NEW_BIN_FIN_PRDS",
      "GEN_NEW_BIN_OPR_PRDS"},
     !.over = {"PERIODS", "PROJECTS"},
     !.reads = {"PERIOD_FUTURE_TRAJECTORY", "period_end_year",
      "period_start_year"},
     !.adds = {<<"capacity_type_financial_period_sets",
      "GEN_NEW_BIN_FIN_PRDS">>, <<"capacity_type_operational_period_sets",
      "GEN_NEW_BIN_OPR_PRDS">>}]
gen_new_bin_functions ==
  [capacity_rule |-> {},
   capacity_cost_rule |-> {},
   fixed_cost_rule |-> {},
   new_capacity_rule |-> {}]
gen_new_bin_loads == Loads({"new_binary_build_generator_size.tab",
    "new_binary_build_generator_vintage_costs.tab"}, {})
gen_new_bin_writes == Writes({"new_binary_build_generator_size.tab",
    "new_binary_build_generator_vintage_costs.tab"}, {}, {})
gen_new_bin_results ==
  [NoResults EXCEPT !.returns = Cols("project_period_df", {"new_build_binary",
      "new_build_mw"})]

(* project.capacity.capacity_types.gen_new_lin. This capacity type describes   *)
(* new generation projects that can be built by the optimization at a cost.    *)
gen_new_lin_model ==
  [NoModel EXCEPT !.declares = {"GEN_NEW_LIN_FIN_PRDS",
      "GEN_NEW_LIN_OPR_PRDS", "GEN_NEW_LIN_VNTS_FIN_IN_PERIOD"},
     !.over = {"PERIODS", "PROJECTS"},
     !.reads = {"PERIOD_FUTURE_TRAJECTORY", "period_end_year",
      "period_start_year"},
     !.adds = {<<"capacity_type_financial_period_sets",
      "GEN_NEW_LIN_FIN_PRDS">>, <<"capacity_type_operational_period_sets",
      "GEN_NEW_LIN_OPR_PRDS">>}]
gen_new_lin_functions ==
  [capacity_rule |-> {},
   capacity_cost_rule |-> {},
   fixed_cost_rule |-> {},
   new_capacity_rule |-> {}]
gen_new_lin_loads == Loads({"new_build_generator_vintage_costs.tab"}, {})
gen_new_lin_writes == Writes({"new_build_generator_vintage_costs.tab"}, {},
    {})
gen_new_lin_results ==
  [NoResults EXCEPT !.returns = Cols("project_period_df", {"new_build_mw"})]

(* project.capacity.capacity_types.gen_ret_bin. This capacity type describes   *)
(* generators with the same characteristics as gen_ret_lin.                    *)
gen_ret_bin_model ==
  [NoModel EXCEPT !.declares = {"GEN_RET_BIN_OPR_PRDS"},
     !.reads = {"first_period", "prev_period"},
     !.adds = {<<"capacity_type_operational_period_sets",
      "GEN_RET_BIN_OPR_PRDS">>}]
gen_ret_bin_functions ==
  [capacity_rule |-> {},
   fixed_cost_rule |-> {}]
gen_ret_bin_loads == Loads({"projects.tab",
    "spec_capacity_period_params.tab"}, {})
gen_ret_bin_writes == Writes({"spec_capacity_period_params.tab"}, {}, {})
gen_ret_bin_results ==
  [NoResults EXCEPT !.returns = Cols("project_period_df", {"retired_binary",
      "retired_mw"})]

(* project.capacity.capacity_types.gen_ret_lin. This capacity type describes   *)
(* generator projects with the same characteristics as gen_spec, but whose     *)
(* fixed O&M cost can be avoided by 'retiring' them.                           *)
gen_ret_lin_model ==
  [NoModel EXCEPT !.declares = {"GEN_RET_LIN_OPR_PRDS"},
     !.reads = {"first_period", "prev_period"},
     !.adds = {<<"capacity_type_operational_period_sets",
      "GEN_RET_LIN_OPR_PRDS">>}]
gen_ret_lin_functions ==
  [capacity_rule |-> {},
   fixed_cost_rule |-> {}]
gen_ret_lin_loads == Loads({"projects.tab",
    "spec_capacity_period_params.tab"}, {})
gen_ret_lin_writes == Writes({"spec_capacity_period_params.tab"}, {}, {})
gen_ret_lin_results ==
  [NoResults EXCEPT !.returns = Cols("project_period_df", {"retired_mw"})]

(* project.capacity.capacity_types.gen_spec. This capacity type describes      *)
(* generator projects that are available to the optimization without having    *)
(* to incur an investment cost, e.g.                                           *)
gen_spec_model ==
  [NoModel EXCEPT !.declares = {"GEN_SPEC_OPR_PRDS"},
     !.over = {"PERIODS", "PROJECTS"},
     !.adds = {<<"capacity_type_operational_period_sets",
      "GEN_SPEC_OPR_PRDS">>}]
gen_spec_functions ==
  [capacity_rule |-> {},
   fixed_cost_rule |-> {}]
gen_spec_loads == Loads({"projects.tab", "spec_capacity_period_params.tab"},
    {})
gen_spec_writes == Writes({"spec_capacity_period_params.tab"}, {}, {})

(* project.capacity.capacity_types.gen_stor_hyb_spec. This capacity type       *)
(* describes generator-storage hybrid projects that are "specified," i.e.      *)
gen_stor_hyb_spec_model ==
  [NoModel EXCEPT !.declares = {"GEN_STOR_HYB_SPEC_OPR_PRDS"},
     !.over = {"PERIODS", "PROJECTS"},
     !.adds = {<<"capacity_type_operational_period_sets",
      "GEN_STOR_HYB_SPEC_OPR_PRDS">>}]
gen_stor_hyb_spec_functions ==
  [capacity_rule |-> {},
   hyb_gen_capacity_rule |-> {},
   hyb_stor_capacity_rule |-> {},
   energy_stor_capacity_rule |-> {},
   fixed_cost_rule |-> {}]
gen_stor_hyb_spec_loads == Loads({"projects.tab",
    "spec_capacity_period_params.tab"}, {})
gen_stor_hyb_spec_writes == Writes({"spec_capacity_period_params.tab"}, {},
    {})

(* project.capacity.capacity_types.stor_new_bin. This capacity type            *)
(* describes new storage projects that can be built by the optimization at a   *)
(* pre-specified size, duration and cost.                                      *)
stor_new_bin_model ==
  [NoModel EXCEPT !.declares = {"STOR_NEW_BIN_FIN_PRDS",
      "STOR_NEW_BIN_OPR_PRDS"},
     !.over = {"PERIODS"},
     !.reads = {"PERIOD_FUTURE_TRAJECTORY", "period_end_year",
      "period_start_year"},
     !.adds = {<<"capacity_type_financial_period_sets",
      "STOR_NEW_BIN_FIN_PRDS">>, <<"capacity_type_operational_period_sets",
      "STOR_NEW_BIN_OPR_PRDS">>}]
stor_new_bin_functions ==
  [capacity_rule |-> {},
   energy_stor_capacity_rule |-> {},
   capacity_cost_rule |-> {},
   fixed_cost_rule |-> {},
   new_capacity_rule |-> {},
   new_energy_stor_capacity_rule |-> {}]
stor_new_bin_loads == Loads({"new_binary_build_storage_size.tab",
    "new_binary_build_storage_vintage_costs.tab"}, {})
stor_new_bin_writes == Writes({"new_binary_build_storage_size.tab",
    "new_binary_build_storage_vintage_costs.tab"}, {}, {})
stor_new_bin_results ==
  [NoResults EXCEPT !.returns = Cols("project_period_df", {"new_build_binary",
      "new_build_mw", "new_build_stor_mwh"})]

(* project.capacity.capacity_types.stor_new_lin. This capacity type            *)
(* describes storage projects that can be built by the optimization at a       *)
(* cost.                                                                       *)
stor_new_lin_model ==
  [NoModel EXCEPT !.declares = {"STOR_NEW_LIN_FIN_PRDS",
      "STOR_NEW_LIN_OPR_PRDS", "STOR_NEW_LIN_VNTS_FIN_IN_PRD"},
     !.over = {"PERIODS"},
     !.reads = {"PERIOD_FUTURE_TRAJECTORY", "period_end_year",
      "period_start_year"},
     !.adds = {<<"capacity_type_financial_period_sets",
      "STOR_NEW_LIN_FIN_PRDS">>, <<"capacity_type_operational_period_sets",
      "STOR_NEW_LIN_OPR_PRDS">>}]
stor_new_lin_functions ==
  [energy_rule |-> {},
   capacity_rule |-> {},
   energy_stor_capacity_rule |-> {},
   capacity_cost_rule |-> {},
   fixed_cost_rule |-> {},
   new_capacity_rule |-> {},
   new_energy_stor_capacity_rule |-> {}]
stor_new_lin_loads == Loads({"new_build_storage_vintage_costs.tab",
    "projects.tab"}, {})
stor_new_lin_writes == Writes({"new_build_storage_vintage_costs.tab"}, {}, {})
stor_new_lin_results ==
  [NoResults EXCEPT !.returns = Cols("project_period_df", {"new_build_mw",
      "new_build_stor_mwh"})]

(* project.capacity.capacity_types.stor_spec. This capacity type describes     *)
(* the power (i.e.                                                             *)
stor_spec_model ==
  [NoModel EXCEPT !.declares = {"STOR_SPEC_OPR_PRDS",
      "stor_spec_energy_capacity_mwh"},
     !.adds = {<<"capacity_type_operational_period_sets",
      "STOR_SPEC_OPR_PRDS">>}]
stor_spec_functions ==
  [capacity_rule |-> {},
   energy_stor_capacity_rule |-> {},
   fixed_cost_rule |-> {}]
stor_spec_loads == Loads({"projects.tab", "spec_capacity_period_params.tab"},
    {})
stor_spec_writes == Writes({"spec_capacity_period_params.tab"}, {}, {})

(* The modules of this package by name.                                        *)
CapacityTypesParts ==
  "project.capacity.capacity_types.dr_new" :>
       Parts(dr_new_model, dr_new_loads, dr_new_writes, dr_new_results, {})
  @@ "project.capacity.capacity_types.energy_new_lin" :>
       Parts(energy_new_lin_model, energy_new_lin_loads,
             energy_new_lin_writes, energy_new_lin_results, {})
  @@ "project.capacity.capacity_types.energy_spec" :>
       Parts(energy_spec_model, energy_spec_loads, energy_spec_writes,
             NoResults, {})
  @@ "project.capacity.capacity_types.fuel_prod_new" :>
       Parts(fuel_prod_new_model, fuel_prod_new_loads, fuel_prod_new_writes,
             fuel_prod_new_results, {})
  @@ "project.capacity.capacity_types.fuel_prod_spec" :>
       Parts(fuel_prod_spec_model, fuel_prod_spec_loads,
             fuel_prod_spec_writes, NoResults, {})
  @@ "project.capacity.capacity_types.gen_new_bin" :>
       Parts(gen_new_bin_model, gen_new_bin_loads, gen_new_bin_writes,
             gen_new_bin_results, {})
  @@ "project.capacity.capacity_types.gen_new_lin" :>
       Parts(gen_new_lin_model, gen_new_lin_loads, gen_new_lin_writes,
             gen_new_lin_results, {})
  @@ "project.capacity.capacity_types.gen_ret_bin" :>
       Parts(gen_ret_bin_model, gen_ret_bin_loads, gen_ret_bin_writes,
             gen_ret_bin_results, {})
  @@ "project.capacity.capacity_types.gen_ret_lin" :>
       Parts(gen_ret_lin_model, gen_ret_lin_loads, gen_ret_lin_writes,
             gen_ret_lin_results, {})
  @@ "project.capacity.capacity_types.gen_spec" :>
       Parts(gen_spec_model, gen_spec_loads, gen_spec_writes, NoResults, {})
  @@ "project.capacity.capacity_types.gen_stor_hyb_spec" :>
       Parts(gen_stor_hyb_spec_model, gen_stor_hyb_spec_loads,
             gen_stor_hyb_spec_writes, NoResults, {})
  @@ "project.capacity.capacity_types.stor_new_bin" :>
       Parts(stor_new_bin_model, stor_new_bin_loads, stor_new_bin_writes,
             stor_new_bin_results, {})
  @@ "project.capacity.capacity_types.stor_new_lin" :>
       Parts(stor_new_lin_model, stor_new_lin_loads, stor_new_lin_writes,
             stor_new_lin_results, {})
  @@ "project.capacity.capacity_types.stor_spec" :>
       Parts(stor_spec_model, stor_spec_loads, stor_spec_writes, NoResults,
             {})

(* The functions the types offer to the modules that load them.                *)
CapacityTypesFunctions ==
  "project.capacity.capacity_types.dr_new" :> dr_new_functions
  @@ "project.capacity.capacity_types.energy_new_lin" :>
       energy_new_lin_functions
  @@ "project.capacity.capacity_types.energy_spec" :> energy_spec_functions
  @@ "project.capacity.capacity_types.fuel_prod_new" :> fuel_prod_new_functions
  @@ "project.capacity.capacity_types.fuel_prod_spec" :>
       fuel_prod_spec_functions
  @@ "project.capacity.capacity_types.gen_new_bin" :> gen_new_bin_functions
  @@ "project.capacity.capacity_types.gen_new_lin" :> gen_new_lin_functions
  @@ "project.capacity.capacity_types.gen_ret_bin" :> gen_ret_bin_functions
  @@ "project.capacity.capacity_types.gen_ret_lin" :> gen_ret_lin_functions
  @@ "project.capacity.capacity_types.gen_spec" :> gen_spec_functions
  @@ "project.capacity.capacity_types.gen_stor_hyb_spec" :>
       gen_stor_hyb_spec_functions
  @@ "project.capacity.capacity_types.stor_new_bin" :> stor_new_bin_functions
  @@ "project.capacity.capacity_types.stor_new_lin" :> stor_new_lin_functions
  @@ "project.capacity.capacity_types.stor_spec" :> stor_spec_functions
===============================================================================
