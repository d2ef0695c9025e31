---------------------------- MODULE MCIdempotency ----------------------------
(***************************************************************************)
(* The instances of Idempotency that TLC checks: the configurations name   *)
(* requests and values as model values and set every bound.                *)
(***************************************************************************)
EXTENDS Idempotency
================================================================================
