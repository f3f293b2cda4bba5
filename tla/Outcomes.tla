------------------------------- MODULE Outcomes -------------------------------
(***************************************************************************)
(* What the functions of curv come to when it is no value: None (nothing   *)
(* there, or nothing yet), an Err, a panic.                                *)
(***************************************************************************)
EXTENDS Integers

CONSTANTS None, Err, Panic

ASSUME OutcomesDiffer == /\ None # Err /\ None # Panic /\ Err # Panic
                         /\ {None, Err, Panic} \cap Int = {}
===============================================================================
