-------------------------- MODULE MCImportResults --------------------------
(* Instances of ImportResults for TLC.                                     *)
EXTENDS ImportResults, TLC

CONSTANTS capacity, dispatch

(* The module sets: with and without an optional feature.                  *)
OneOrBoth == {{capacity}, {capacity, dispatch}}
(* The import rules: all directories, and all but the second.              *)
AllOrFirst == {Dirs, {1}}

JustOne == {{capacity}}
=============================================================================
