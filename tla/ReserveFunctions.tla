--------------------------- MODULE ReserveFunctions ---------------------------
(* The functions the modules of the reserve products share: each product calls *)
(* them with its own names.                                                    *)
EXTENDS GridPathModule

(* project/operations/reserves/reserve_provision.py                            *)
ReserveProvisionModel(projects, zone, zones, tmps, provide, derate, adj, room) ==
  [NoModel EXCEPT
     !.declares = {projects, zone, tmps, provide, derate, adj},
     !.over = {"PROJECTS", zones},
     !.reads = {"PRJ_OPR_TMPS"},
     !.adds = {<<room, provide>>,
               <<"reserve_variable_derate_params", derate>>,
               <<"reserve_to_energy_adjustment_params", adj>>}]

ReserveProvisionLoads(areasFile) == Loads({"projects.tab", areasFile}, {})

ReserveProvisionResults(module_name) ==
  [NoResults EXCEPT !.assigns =
     Cols("project_timepoint_df",
          {module_name \o "_ba", module_name \o "_reserve_provision_mw"})]

(* project/operations/reserves/op_type_dependent/reserve_limits_by_op_type.py  *)
ReserveLimitModel(projects, tmps, provision) ==
  [NoModel EXCEPT
     !.over = {projects, tmps},
     !.reads = {provision, "Availability_Derate", "Capacity_MW",
                "operational_type", "period"},
     !.calls = {<<"operational_type", "online_capacity_rule">>}]

(* system/reserves/requirement/reserve_requirements.py                         *)
ReserveRequirementModel(zones, requirement) ==
  [NoModel EXCEPT
     !.declares = {requirement},
     !.over = {zones, "LOAD_ZONES", "PROJECTS", "TMPS"},
     !.reads = {"Availability_Derate", "Bulk_Power_Provision_MW",
                "Capacity_MW", "LZ_Modified_Load_in_Tmp", "PRJ_OPR_TMPS",
                "period"}]

ReserveRequirementFiles(type) ==
  {type \o "_tmp_requirement.tab", type \o "_percent_map.tab",
   type \o "_percent_requirement.tab",
   type \o "_requirement_project_contributions.tab"}

ReserveRequirementLoads(type) == Loads({}, ReserveRequirementFiles(type))
ReserveRequirementWrites(type) == Writes({}, ReserveRequirementFiles(type), {})

(* system/reserves/aggregation/reserve_aggregation.py                          *)
ReserveAggregationModel(zones, zoneParam, projects, provision, total) ==
  [NoModel EXCEPT
     !.declares = {total},
     !.over = {zones, "TMPS"},
     !.reads = {projects, "OPR_PRJS_IN_TMP", provision, zoneParam}]

(* system/reserves/balance/reserve_balance.py                                  *)
ReserveBalanceModel(zones, total, requirement, allow, violation) ==
  [NoModel EXCEPT
     !.declares = {violation},
     !.over = {zones, "TMPS"},
     !.reads = {total, requirement, allow}]

ReserveBalanceResults(type) ==
  [NoResults EXCEPT !.exports =
     Cols("system_" \o type \o ".csv",
          {type \o "_ba", "period", "timepoint", "discount_factor",
           "number_years_represented", "timepoint_weight",
           "number_of_hours_in_timepoint", "reserve_requirement_mw",
           "reserve_provision_mw", "reserve_violation_mw", "dual",
           "marginal_price_per_mw"})]

(* objective/system/reserve_violation_penalties/                               *)
(* aggregate_reserve_violation_penalties.py                                    *)
ReservePenaltyModel(zones, violation, penalty, cost) ==
  [NoModel EXCEPT
     !.declares = {cost},
     !.reads = {zones, violation, penalty, "TMPS", "hrs_in_tmp",
                "tmp_weight", "number_years_represented", "period",
                "discount_factor"},
     !.adds = {<<"cost_components", cost>>}]
===============================================================================
