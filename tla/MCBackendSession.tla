---------------------------- MODULE MCBackendSession ----------------------------
(****************************************************************************)
(* One window of BackendSession: left open through an outage, and switched  *)
(* to another backend while a refresh is under way.                         *)
(****************************************************************************)
EXTENDS BackendSession

CONSTANTS w1

(* No switch; the wallet may be locked and unlocked once, and one sign-in,   *)
(* fetch or refresh fails.                                                   *)
Outage == {[windows |-> {w1}, switches |-> 0, locks |-> 1, failures |-> 1, refreshes |-> 2,
            overlap |-> FALSE]}

(* One switch and one refresh, at any time of each other, and no failure.    *)
MidRefresh == {[windows |-> {w1}, switches |-> 1, locks |-> 0, failures |-> 0, refreshes |-> 1,
                overlap |-> TRUE]}
================================================================================
