------------------------------- MODULE MCSessions ------------------------------
(***************************************************************************)
(* Constants for the run of Sessions: an offset in the scene may lie below *)
(* what the row admits.                                                    *)
(***************************************************************************)
EXTENDS Sessions

Live == [min |-> 0, max |-> 0]

JustLive == {Live}

Scene == Live.min - 1 .. Live.max
================================================================================
