-------------------------- MODULE MCWorkforceBilling --------------------------
(***************************************************************************)
(* The instances of WorkforceBilling that TLC checks: the configurations name   *)
(* requests and values as model values and set every bound.                *)
(***************************************************************************)
EXTENDS WorkforceBilling
================================================================================
