--------------------------- MODULE MCRuntimeStore ---------------------------
(* Small instances of RuntimeStore for TLC.                                *)
EXTENDS RuntimeStore
=============================================================================
