-------------------------------- MODULE Absent --------------------------------
(* Python's None, for the modules that are used together: not declared, not observed, not published. *)
CONSTANT None
===============================================================================
