----------------------------- MODULE AdapterClaims -----------------------------
(***************************************************************************)
(* What the decision record on source recovery says of the adapters and    *)
(* the code does not do.                                                   *)
(***************************************************************************)
EXTENDS Adapter

\* ADR-0013: "The adapter is the sole owner of source recovery".  A source that
\* has failed is started again, or the adapter leaves and the core takes over.
FailureIsRecovered == source = "failed" ~> source # "failed" \/ pc = "exited"
===============================================================================
