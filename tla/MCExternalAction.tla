--------------------------- MODULE MCExternalAction ---------------------------
(* ExternalAction for TLC: requests and payloads are interchangeable. *)
EXTENDS ExternalAction, TLC

Symmetry == Permutations(Request) \cup Permutations(Payload)
=============================================================================
