------------------------------ MODULE MCGrinOverlay ------------------------------
(* An instance of GrinOverlay for TLC: two windows. *)
EXTENDS GrinOverlay, TLC

CONSTANTS w1, w2, f1, f2, f3

Mixed == (f1 :> {"send"}) @@ (f2 :> {"send", "receive", "invoice"}) @@ (f3 :> {"poll", "cancel"})
================================================================================
