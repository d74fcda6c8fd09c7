-------------------------------- MODULE MCChains -------------------------------
(***************************************************************************)
(* Constants for the runs of Chains: what is typed lies below an adapter's *)
(* bounds, a step from there reaches above them.                           *)
(***************************************************************************)
EXTENDS Chains

Below == {-1}
===============================================================================
