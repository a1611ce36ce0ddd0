------------------------------ MODULE MCPageUi ------------------------------
(***************************************************************************)
(* Two functions and two of the four check boxes, six clicks in any order. *)
(***************************************************************************)
EXTENDS PageUi

MCFunctions == {"main", "f"}
MCFlags     == {"display-code", "loop-depth-color"}

=============================================================================
