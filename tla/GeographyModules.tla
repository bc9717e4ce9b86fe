--------------------------- MODULE GeographyModules ---------------------------
(* The geography modules: zones, balancing areas and markets                   *)
(* (src/gridpath/geography).                                                   *)
EXTENDS GridPathModule

(* geography.load_zones. The gridpath.geography.load_zones module describes    *)
(* the geographic unit at which load is met.                                   *)
load_zones_model ==
  [NoModel EXCEPT !.declares = {"LOAD_ZONES", "allow_overgeneration",
      "allow_unserved_energy", "avg_unserved_load_penalty_per_mwa",
      "export_penalty_cost_per_mwh", "max_unserved_load_limit_mw",
      "max_unserved_load_penalty_per_mw", "overgeneration_penalty_per_mw",
      "unserved_energy_limit_mwh", "unserved_energy_penalty_per_mwh"}]
load_zones_loads == Loads({"load_zones.tab"}, {})
load_zones_writes == Writes({"load_zones.tab"}, {}, {})

(* geography.load_following_up_balancing_areas                                 *)
load_following_up_balancing_areas_model ==
  [NoModel EXCEPT !.declares = {"LF_RESERVES_UP_ZONES",
      "lf_reserves_up_allow_violation",
      "lf_reserves_up_violation_penalty_per_mw"}]
load_following_up_balancing_areas_loads ==
    Loads({"load_following_up_balancing_areas.tab"}, {})
load_following_up_balancing_areas_writes ==
    Writes({"load_following_up_balancing_areas.tab"}, {}, {})

(* geography.load_following_down_balancing_areas                               *)
load_following_down_balancing_areas_model ==
  [NoModel EXCEPT !.declares = {"LF_RESERVES_DOWN_ZONES",
      "lf_reserves_down_allow_violation",
      "lf_reserves_down_violation_penalty_per_mw"}]
load_following_down_balancing_areas_loads ==
    Loads({"load_following_down_balancing_areas.tab"}, {})
load_following_down_balancing_areas_writes ==
    Writes({"load_following_down_balancing_areas.tab"}, {}, {})

(* geography.regulation_up_balancing_areas                                     *)
regulation_up_balancing_areas_model ==
  [NoModel EXCEPT !.declares = {"REGULATION_UP_ZONES",
      "regulation_up_allow_violation",
      "regulation_up_violation_penalty_per_mw"}]
regulation_up_balancing_areas_loads ==
    Loads({"regulation_up_balancing_areas.tab"}, {})
regulation_up_balancing_areas_writes ==
    Writes({"regulation_up_balancing_areas.tab"}, {}, {})

(* geography.regulation_down_balancing_areas                                   *)
regulation_down_balancing_areas_model ==
  [NoModel EXCEPT !.declares = {"REGULATION_DOWN_ZONES",
      "regulation_down_allow_violation",
      "regulation_down_violation_penalty_per_mw"}]
regulation_down_balancing_areas_loads ==
    Loads({"regulation_down_balancing_areas.tab"}, {})
regulation_down_balancing_areas_writes ==
    Writes({"regulation_down_balancing_areas.tab"}, {}, {})

(* geography.frequency_response_balancing_areas                                *)
frequency_response_balancing_areas_model ==
  [NoModel EXCEPT !.declares = {"FREQUENCY_RESPONSE_BAS",
      "frequency_response_allow_violation",
      "frequency_response_violation_penalty_per_mw"}]
frequency_response_balancing_areas_loads ==
    Loads({"frequency_response_balancing_areas.tab"}, {})
frequency_response_balancing_areas_writes ==
    Writes({"frequency_response_balancing_areas.tab"}, {}, {})

(* geography.spinning_reserves_balancing_areas                                 *)
spinning_reserves_balancing_areas_model ==
  [NoModel EXCEPT !.declares = {"SPINNING_RESERVES_ZONES",
      "spinning_reserves_allow_violation",
      "spinning_reserves_violation_penalty_per_mw"}]
spinning_reserves_balancing_areas_loads ==
    Loads({"spinning_reserves_balancing_areas.tab"}, {})
spinning_reserves_balancing_areas_writes ==
    Writes({"spinning_reserves_balancing_areas.tab"}, {}, {})

(* geography.inertia_reserves_balancing_areas                                  *)
inertia_reserves_balancing_areas_model ==
  [NoModel EXCEPT !.declares = {"INERTIA_RESERVES_ZONES",
      "inertia_reserves_allow_violation",
      "inertia_reserves_violation_penalty_per_mws"}]
inertia_reserves_balancing_areas_loads ==
    Loads({"inertia_reserves_balancing_areas.tab"}, {})
inertia_reserves_balancing_areas_writes ==
    Writes({"inertia_reserves_balancing_areas.tab"}, {}, {})

(* geography.energy_target_zones. Zones where energy target will be            *)
(* enforced; these can be different from the load zones and reserve            *)
(* balancing areas.                                                            *)
energy_target_zones_model ==
  [NoModel EXCEPT !.declares = {"ENERGY_TARGET_ZONES",
      "energy_target_allow_violation",
      "energy_target_violation_penalty_per_mwh"}]
energy_target_zones_loads == Loads({"energy_target_zones.tab"}, {})
energy_target_zones_writes == Writes({"energy_target_zones.tab"}, {}, {})

(* geography.instantaneous_penetration_zones. Zones where instantaneous        *)
(* penetration target will be enforced; these can be different from the load   *)
(* zones and reserve balancing areas.                                          *)
instantaneous_penetration_zones_model ==
  [NoModel EXCEPT !.declares = {"INSTANTANEOUS_PENETRATION_ZONES",
      "allow_violation_max_penetration", "allow_violation_min_penetration",
      "violation_penalty_max_penetration_per_mwh",
      "violation_penalty_min_penetration_per_mwh"}]
instantaneous_penetration_zones_loads ==
    Loads({"instantaneous_penetration_zones.tab"}, {})
instantaneous_penetration_zones_writes ==
    Writes({"instantaneous_penetration_zones.tab"}, {}, {})

(* geography.transmission_target_zones. Zones where transmission target will   *)
(* be enforced; these can be different from the load zones and reserve         *)
(* balancing areas.                                                            *)
transmission_target_zones_model ==
  [NoModel EXCEPT !.declares = {"TRANSMISSION_TARGET_ZONES",
      "transmission_target_allow_violation",
      "transmission_target_violation_penalty_per_mwh"}]
transmission_target_zones_loads == Loads({"transmission_target_zones.tab"},
    {})
transmission_target_zones_writes == Writes({"transmission_target_zones.tab"},
    {}, {})

(* geography.carbon_cap_zones. Zones where carbon cap enforced; these can be   *)
(* different from the load zones and other balancing areas.                    *)
carbon_cap_zones_model ==
  [NoModel EXCEPT !.declares = {"CARBON_CAP_ZONES",
      "carbon_cap_allow_violation",
      "carbon_cap_violation_penalty_per_emission"}]
carbon_cap_zones_loads == Loads({"carbon_cap_zones.tab"}, {})
carbon_cap_zones_writes == Writes({"carbon_cap_zones.tab"}, {}, {})

(* geography.carbon_tax_zones. Zones where carbon tax enforced; these can be   *)
(* different from the load zones and other balancing areas.                    *)
carbon_tax_zones_model == [NoModel EXCEPT !.declares = {"CARBON_TAX_ZONES"}]
carbon_tax_zones_loads == Loads({"carbon_tax_zones.tab"}, {})
carbon_tax_zones_writes == Writes({"carbon_tax_zones.tab"}, {}, {})

(* geography.performance_standard_zones. Zones where performance standard      *)
(* enforced; these can be different from the load zones and other balancing    *)
(* areas.                                                                      *)
performance_standard_zones_model ==
  [NoModel EXCEPT !.declares = {"PERFORMANCE_STANDARD_ZONES",
      "performance_standard_energy_allow_violation",
      "performance_standard_energy_violation_penalty_per_emission",
      "performance_standard_power_allow_violation",
      "performance_standard_power_violation_penalty_per_emission"}]
performance_standard_zones_loads == Loads({"performance_standard_zones.tab"},
    {})
performance_standard_zones_writes ==
    Writes({"performance_standard_zones.tab"}, {}, {})

(* geography.carbon_credits_zones. Zones where carbon credits are traded;      *)
(* these can be different from the load zones and other balancing areas.       *)
carbon_credits_zones_model ==
  [NoModel EXCEPT !.declares = {"CARBON_CREDITS_ZONES"}]
carbon_credits_zones_loads == Loads({"carbon_credits_zones.tab"}, {})
carbon_credits_zones_writes == Writes({"carbon_credits_zones.tab"}, {}, {})

(* geography.fuel_burn_limit_balancing_areas. Balancing areas where fuel       *)
(* constraints are enforced; these can be different from the load zones and    *)
(* other balancing areas.                                                      *)
fuel_burn_limit_balancing_areas_model ==
  [NoModel EXCEPT !.declares = {"FUEL_BURN_LIMIT_BAS",
      "fuel_burn_max_allow_violation",
      "fuel_burn_max_violation_penalty_per_unit",
      "fuel_burn_min_allow_violation",
      "fuel_burn_min_violation_penalty_per_unit",
      "fuel_burn_relative_max_allow_violation",
      "fuel_burn_relative_max_violation_penalty_per_unit"}]
fuel_burn_limit_balancing_areas_loads ==
    Loads({"fuel_burn_limit_balancing_areas.tab"}, {})
fuel_burn_limit_balancing_areas_writes ==
    Writes({"fuel_burn_limit_balancing_areas.tab"}, {}, {})

(* geography.generic_policy. Policies and "zones" where they will be           *)
(* enforced.                                                                   *)
geography_generic_policy_model ==
  [NoModel EXCEPT !.declares = {"POLICIES_ZONES",
      "policy_zone_allow_violation",
      "policy_zone_violation_penalty_per_unit"}]
geography_generic_policy_loads == Loads({"policy_zones.tab"}, {})
geography_generic_policy_writes == Writes({"policy_zones.tab"}, {}, {})

(* geography.prm_zones. Zones where PRM is enforced; these can be different    *)
(* from the load zones and other balancing areas.                              *)
prm_zones_model ==
  [NoModel EXCEPT !.declares = {"PRM_ZONES", "prm_allow_violation",
      "prm_violation_penalty_per_mw"}]
prm_zones_loads == Loads({"prm_zones.tab"}, {})
prm_zones_writes == Writes({"prm_zones.tab"}, {}, {})

(* geography.local_capacity_zones. Zones where local capacity constraint is    *)
(* enforced; these can be different from the load zones and other balancing    *)
(* areas.                                                                      *)
local_capacity_zones_model ==
  [NoModel EXCEPT !.declares = {"LOCAL_CAPACITY_ZONES",
      "local_capacity_allow_violation",
      "local_capacity_violation_penalty_per_mw"}]
local_capacity_zones_loads == Loads({"local_capacity_zones.tab"}, {})
local_capacity_zones_writes == Writes({"local_capacity_zones.tab"}, {}, {})

(* geography.markets. Market hub with a particular set of prices; these can    *)
(* be different from the load zones and other balancing areas.                 *)
markets_model == [NoModel EXCEPT !.declares = {"MARKETS"}]
markets_loads == Loads({"markets.tab"}, {})
markets_writes == Writes({"markets.tab"}, {}, {})

(* geography.water_network. Water links for modeling hydro water systems.      *)
water_network_model ==
  [NoModel EXCEPT !.declares = {"WATER_LINKS", "WATER_NODES",
      "water_link_flow_transport_time_hours", "water_node_from",
      "water_node_to"}]
water_network_loads == Loads({"water_network.tab"}, {})
water_network_writes == Writes({"water_network.tab"}, {}, {})

(* The modules of this package by name.                                        *)
GeographyParts ==
  "geography.load_zones" :>
       Parts(load_zones_model, load_zones_loads, load_zones_writes,
             NoResults, {})
  @@ "geography.load_following_up_balancing_areas" :>
       Parts(load_following_up_balancing_areas_model,
             load_following_up_balancing_areas_loads,
             load_following_up_balancing_areas_writes, NoResults, {})
  @@ "geography.load_following_down_balancing_areas" :>
       Parts(load_following_down_balancing_areas_model,
             load_following_down_balancing_areas_loads,
             load_following_down_balancing_areas_writes, NoResults, {})
  @@ "geography.regulation_up_balancing_areas" :>
       Parts(regulation_up_balancing_areas_model,
             regulation_up_balancing_areas_loads,
             regulation_up_balancing_areas_writes, NoResults, {})
  @@ "geography.regulation_down_balancing_areas" :>
       Parts(regulation_down_balancing_areas_model,
             regulation_down_balancing_areas_loads,
             regulation_down_balancing_areas_writes, NoResults, {})
  @@ "geography.frequency_response_balancing_areas" :>
       Parts(frequency_response_balancing_areas_model,
             frequency_response_balancing_areas_loads,
             frequency_response_balancing_areas_writes, NoResults, {})
  @@ "geography.spinning_reserves_balancing_areas" :>
       Parts(spinning_reserves_balancing_areas_model,
             spinning_reserves_balancing_areas_loads,
             spinning_reserves_balancing_areas_writes, NoResults, {})
  @@ "geography.inertia_reserves_balancing_areas" :>
       Parts(inertia_reserves_balancing_areas_model,
             inertia_reserves_balancing_areas_loads,
             inertia_reserves_balancing_areas_writes, NoResults, {})
  @@ "geography.energy_target_zones" :>
       Parts(energy_target_zones_model, energy_target_zones_loads,
             energy_target_zones_writes, NoResults, {})
  @@ "geography.instantaneous_penetration_zones" :>
       Parts(instantaneous_penetration_zones_model,
             instantaneous_penetration_zones_loads,
             instantaneous_penetration_zones_writes, NoResults, {})
  @@ "geography.transmission_target_zones" :>
       Parts(transmission_target_zones_model,
             transmission_target_zones_loads,
             transmission_target_zones_writes, NoResults, {})
  @@ "geography.carbon_cap_zones" :>
       Parts(carbon_cap_zones_model, carbon_cap_zones_loads,
             carbon_cap_zones_writes, NoResults, {})
  @@ "geography.carbon_tax_zones" :>
       Parts(carbon_tax_zones_model, carbon_tax_zones_loads,
             carbon_tax_zones_writes, NoResults, {})
  @@ "geography.performance_standard_zones" :>
       Parts(performance_standard_zones_model,
             performance_standard_zones_loads,
             performance_standard_zones_writes, NoResults, {})
  @@ "geography.carbon_credits_zones" :>
       Parts(carbon_credits_zones_model, carbon_credits_zones_loads,
             carbon_credits_zones_writes, NoResults, {})
  @@ "geography.fuel_burn_limit_balancing_areas" :>
       Parts(fuel_burn_limit_balancing_areas_model,
             fuel_burn_limit_balancing_areas_loads,
             fuel_burn_limit_balancing_areas_writes, NoResults, {})
  @@ "geography.generic_policy" :>
       Parts(geography_generic_policy_model, geography_generic_policy_loads,
             geography_generic_policy_writes, NoResults, {})
  @@ "geography.prm_zones" :>
       Parts(prm_zones_model, prm_zones_loads, prm_zones_writes, NoResults,
             {})
  @@ "geography.local_capacity_zones" :>
       Parts(local_capacity_zones_model, local_capacity_zones_loads,
             local_capacity_zones_writes, NoResults, {})
  @@ "geography.markets" :>
       Parts(markets_model, markets_loads, markets_writes, NoResults, {})
  @@ "geography.water_network" :>
       Parts(water_network_model, water_network_loads, water_network_writes,
             NoResults, {})
===============================================================================
