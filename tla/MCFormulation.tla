---------------------------- MODULE MCFormulation -----------------------------
EXTENDS Arrangement

(* The types that fit the features, with those they go together with.          *)
FitTypes(types, features) ==
  LET fitting == {t \in types : TypeRequires(t) \subseteq features}
  IN fitting \cup UNION {Companions(t) : t \in fitting}

DefaultTypes == {"project.availability.availability_types.exogenous",
  "project.capacity.capacity_types.gen_spec",
  "project.operations.operational_types.gen_simple",
  "project.reliability.prm.prm_types.energy_only_allowed",
  "project.reliability.prm.prm_types.fully_deliverable"}

Scenario(features, types, stages, rows) ==
  [features |-> features, types |-> FitTypes(types, features),
   stages |-> stages, rows |-> rows]

(* Everything, nothing, one feature, all but one, and one type.                *)
MCScenarios ==
  {Scenario(F, AllTypes, s, r) : F \in {Features, {}}, s \in BOOLEAN,
                                 r \in BOOLEAN}
  \cup {Scenario(With({f}), DefaultTypes, FALSE, FALSE) : f \in Features}
  \cup {Scenario(Features \ {g \in Features : f \in With({g})}, AllTypes,
                 TRUE, TRUE) : f \in Features}
  \cup {Scenario({}, DefaultTypes \cup {t}, FALSE, FALSE) : t \in AllTypes}

(* What every scenario with a module has: periods, projects, lines, and the    *)
(* parameters of its types.                                                    *)
MCAlwaysRows ==
  {"periods.tab", "projects.tab", "transmission_lines.tab", "load_mw.tab",
   "load_component_params.tab", "load_component_modifier_fractions.tab",
   "load_component_shift_bounds.tab", "energy_profiles.tab",
   "energy_hrz_shaping_params.tab", "energy_slice_hrz_shaping_params.tab",
   "energy_load_following_base_net_requirements.tab", "flex_load_profiles.tab",
   "hydro_conventional_horizon_params.tab", "variable_generator_profiles.tab",
   "transmission_average_emissions.tab", "water_flow_params.tab",
   "water_node_reservoirs.tab"}
===============================================================================
