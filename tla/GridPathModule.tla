---------------------------- MODULE GridPathModule ----------------------------
(* What one GridPath module does in each phase of a run, as records over the   *)
(* names it uses.  Every module of src/gridpath may define                     *)
(*   add_model_components        components declared, indexed over and read,   *)
(*                               and the names put on or taken from the lists  *)
(*                               of dynamic_components.py;                     *)
(*   load_model_data             the .tab files it must find and may find;     *)
(*   write_model_inputs          the .tab files it writes, writes if it has    *)
(*                               rows for them, or reads back and rewrites;    *)
(*   export_results              data frames and CSV files of results;         *)
(*   import_results_into_database  the CSV files put into the database.        *)
(* A component that no other module uses is left out, and so are expressions,  *)
(* bounds and data: the names carry the dependencies between modules.          *)
EXTENDS Naturals, Sequences, FiniteSets, TLC

(* add_model_components.  "over": components named when this one is declared   *)
(* (index and domain sets); "reads": components its rules use when the         *)
(* instance is built; "readsFor": <<type, component>> pairs used for projects  *)
(* of that type; "readsIf": components used only if the model has them;        *)
(* "adds" and "takes": <<list, component>> pairs and lists; "calls":           *)
(* <<family, function>> pairs, called of the types of the family that have the *)
(* function (a default is used for the others); "expects": those called of     *)
(* every type.                                                                 *)
NoModel ==
  [declares |-> {}, over |-> {}, reads |-> {}, readsFor |-> {}, readsIf |-> {},
   adds |-> {}, takes |-> {}, calls |-> {}, expects |-> {}]

Loads(must, may) == [must |-> must, may |-> may]
NoLoads == Loads({}, {})

Writes(writes, mayWrite, extends) ==
  [writes |-> writes, mayWrite |-> mayWrite, extends |-> extends]
NoWrites == Writes({}, {}, {})

(* export_results.  "creates", "assigns": <<data frame, column>> pairs, put    *)
(* in a new or an existing frame; "returns": pairs a type module hands to the  *)
(* module that loads it, which collects them by filling the frame or by        *)
(* resetting the column first; "saves": <<data frame, CSV file>> pairs;        *)
(* "exports": <<CSV file, column>> pairs written without a frame; "header":    *)
(* <<CSV file, list>> pairs, a column for each component of the list; "hands": *)
(* the .tab files for the next linked subproblem.                              *)
NoResults ==
  [creates |-> {}, assigns |-> {}, returns |-> {}, exports |-> {},
   header |-> {}, saves |-> {}, hands |-> {}, collects |-> "none"]

Cols(table, columns) == {table} \X columns

Parts(model, loads, writes, results, imports) ==
  [model |-> model, loads |-> loads, writes |-> writes, results |-> results,
   imports |-> imports]
===============================================================================
