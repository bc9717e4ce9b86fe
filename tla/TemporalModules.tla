--------------------------- MODULE TemporalModules ----------------------------
(* The temporal modules: timepoints, periods and horizons                      *)
(* (src/gridpath/temporal).                                                    *)
EXTENDS GridPathModule

(* temporal.operations.timepoints. Timepoints are the finest resolution over   *)
(* which operational decisions are made (e.g.                                  *)
timepoints_model ==
  [NoModel EXCEPT !.declares = {"MONTHS", "TMPS", "furthest_linked_tmp",
      "hrs_in_linked_tmp", "hrs_in_tmp", "month", "prev_stage_tmp_map",
      "tmp_weight"}]
timepoints_loads == Loads({"timepoints.tab"}, {"linked_subproblems_map.csv"})
timepoints_writes == Writes({"timepoints.tab"}, {}, {})

(* temporal.investment.periods. Each timepoint in a GridPath model also        *)
(* belongs to a period (e.g.                                                   *)
periods_model ==
  [NoModel EXCEPT !.declares = {"PERIODS", "PERIOD_FUTURE_TRAJECTORY",
      "TMPS_IN_PRD", "discount_factor", "first_period",
      "hours_in_period_timepoints", "hours_in_subproblem_period",
      "number_years_represented", "period", "period_end_year",
      "period_start_year", "prev_period"},
     !.over = {"TMPS"},
     !.reads = {"hrs_in_tmp", "tmp_weight"}]
periods_loads == Loads({"periods.tab", "timepoints.tab"}, {})
periods_writes == Writes({}, {"periods.tab"}, {})

(* temporal.operations.horizons. GridPath organizes timepoints into            *)
(* balancing types and horizons that describe how timepoints are grouped       *)
(* together when making operational decisions, with some operational           *)
(* constraints enforced over the horizon for each balancing type, e.g.         *)
horizons_model ==
  [NoModel EXCEPT !.declares = {"BLN_TYPES", "BLN_TYPE_HRZS",
      "TMPS_BY_BLN_TYPE_HRZ", "boundary", "first_hrz_tmp", "horizon",
      "hrz_period", "last_hrz_tmp", "next_tmp", "prev_tmp"},
     !.over = {"MONTHS", "PERIODS", "TMPS"},
     !.reads = {"TMPS_IN_PRD", "month", "period"}]
horizons_loads == Loads({}, {"horizon_user_defined_timepoints.tab",
    "horizons_user_defined.tab"})
horizons_writes == Writes({}, {"horizon_user_defined_timepoints.tab",
    "horizons_user_defined.tab"}, {})

(* temporal.investment.superperiods. Superperiods are combinations of          *)
(* periods over which variable and constraints can be defined.                 *)
superperiods_model ==
  [NoModel EXCEPT !.declares = {"SUPERPERIOD_PERIODS"},
     !.over = {"PERIODS"}]
superperiods_loads == Loads({}, {"superperiods.tab"})
superperiods_writes == Writes({}, {"superperiods.tab"}, {})

(* temporal.finalize                                                           *)
finalize_model ==
  [NoModel EXCEPT !.declares = {"hrz_objective_coefficient",
      "period_objective_coefficient"},
     !.over = {"BLN_TYPE_HRZS", "PERIODS", "TMPS"},
     !.reads = {"TMPS_BY_BLN_TYPE_HRZ", "discount_factor", "hrs_in_tmp",
      "number_years_represented", "period", "tmp_weight"}]

(* The modules of this package by name.                                        *)
TemporalParts ==
  "temporal.operations.timepoints" :>
       Parts(timepoints_model, timepoints_loads, timepoints_writes,
             NoResults, {})
  @@ "temporal.investment.periods" :>
       Parts(periods_model, periods_loads, periods_writes, NoResults, {})
  @@ "temporal.operations.horizons" :>
       Parts(horizons_model, horizons_loads, horizons_writes, NoResults, {})
  @@ "temporal.investment.superperiods" :>
       Parts(superperiods_model, superperiods_loads, superperiods_writes,
             NoResults, {})
  @@ "temporal.finalize" :>
       Parts(finalize_model, NoLoads, NoWrites, NoResults, {})
===============================================================================
