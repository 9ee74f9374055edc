------------------------------- MODULE MCSendDraft -------------------------------
(* An instance of SendDraft for TLC: one Grin payment by a user who waits.      *)
EXTENDS SendDraft

CONSTANTS t1, t2, thor, nonlogs

Tasks == {t1, t2}
Swaps == {thor, nonlogs}
OneShown == {[leaves |-> FALSE, kinds |-> {"coin", "grin"}, swaps |-> {},
              drafts |-> 2, slates |-> 2, payments |-> 1]}
====================================================================================
