---------------------------- MODULE MCAgentPicker ----------------------------
(***************************************************************************)
(* Small instances of AgentPicker for TLC.                                 *)
(***************************************************************************)
EXTENDS AgentPicker
CONSTANTS a, b

\* A dangling default that the picker shows is replaced, unless a pick fails
\* beside the drop.  AgentPicker tells no agent from another, so one stands for
\* all of them.
DanglingHealed == Healed(a)
=============================================================================
