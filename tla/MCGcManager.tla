------------------------------ MODULE MCGcManager -------------------------------
(* TLC instance of GcManager. *)
EXTENDS GcManager

================================================================================
