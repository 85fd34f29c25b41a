-------------------------------- MODULE Absence --------------------------------
(***************************************************************************)
(* The value of what is not there: Python's None.                          *)
(***************************************************************************)

CONSTANT None

=============================================================================
