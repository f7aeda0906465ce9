-------------------------------- MODULE Optional --------------------------------
(* The value of what is not there.                                         *)
CONSTANT None
================================================================================
