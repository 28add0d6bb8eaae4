------------------------------ MODULE WatchMC -------------------------------
(***************************************************************************)
(* An instance of Watch for TLC: one subscription, whose second event does *)
(* not fit beside the first and whose third is past its lifetime.          *)
(***************************************************************************)
EXTENDS Watch

CONSTANT s1

Sizes == [s \in {s1} |-> <<1, 2, 1>>]
=============================================================================
