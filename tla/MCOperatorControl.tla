-------------------------- MODULE MCOperatorControl --------------------------
(* OperatorControl on a process of two steps, the second after the first.     *)
EXTENDS OperatorControl, TLC

CONSTANTS s1, s2
MCDependsOn == (s1 :> {}) @@ (s2 :> {s1})
=============================================================================
