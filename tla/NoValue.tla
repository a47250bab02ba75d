-------------------------------- MODULE NoValue --------------------------------
(***************************************************************************)
(* The absent value (null and undefined of the code), declared once for    *)
(* the modules that are composed in one run.                               *)
(***************************************************************************)
CONSTANT None
=============================================================================
