---------------------------- MODULE MCStringify ----------------------------
(***************************************************************************)
(* Two commands of a build and three runs of them.  Three random parts are *)
(* enough for every temporary file of three runs.                          *)
(***************************************************************************)
EXTENDS Stringify, TLC

CONSTANTS r1, r2, r3, jQuerySource, BootstrapJsSource

Symmetry == Permutations({r1, r2, r3})
=============================================================================
