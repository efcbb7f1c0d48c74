------------------------------ MODULE TaskIds ------------------------------
(***************************************************************************)
(* Server task identifiers, shared by the modules of the Runtime.          *)
(***************************************************************************)
CONSTANT Task        \* the identifiers _id_factory hands out
=============================================================================
