--------------------------------- MODULE MCFunds ---------------------------------
(* What the popup does with funds, on small instances. *)
EXTENDS Funds, TLC

CONSTANTS
  w1, w2,
  p1, p2, r1,                \* payments, refreshes; claimers, handlers of Send
  thor, nonlogs

(* One window in which things go wrong: a prompt backend, a network that     *)
(* drops what pays too little of BTC or LTC, lost answers and failed reads of *)
(* the history; a backend that is slow, or whose balance cannot always be     *)
(* read; XMR or WOW, which a network keeps for days.  Or two windows.         *)
Alone == [family |-> "utxo", windows |-> {w1}, payments |-> {p1, p2}, dropped |-> 1, lost |-> 1,
          failures |-> 1, limits |-> 2, partial |-> FALSE, prompt |-> TRUE]
Slow    == [Alone EXCEPT !.prompt = FALSE, !.dropped = 0, !.failures = 0]
Partial == [Alone EXCEPT !.partial = TRUE, !.dropped = 0, !.lost = 0, !.failures = 0]
Private == [Slow EXCEPT !.family = "cryptonote", !.partial = TRUE]
Both(f) == [Alone EXCEPT !.family = f, !.windows = {w1, w2}, !.limits = 1,
                         !.dropped = 0, !.lost = 0, !.failures = 0]
Scenes == {Alone, Slow, Partial, Private, Both("utxo"), Both("cryptonote")}

Windows   == {w1, w2}
InFlight  == {p1, p2}
Coins     == 1..3
Refreshes == {r1}

(* A user who leaves while a deposit is under way, for a second swap or a     *)
(* second draft; one who waits, with both, with a Grin payment and deposits,  *)
(* or with Grin payments that he may cancel; a handoff may come between.      *)
Swaps == {thor, nonlogs}
Vaults == {thor}
Deposits == [leaves |-> TRUE, kinds |-> {"coin"}, swaps |-> Swaps,
             drafts |-> 1, slates |-> 0, payments |-> 1]
Redrafts == [Deposits EXCEPT !.swaps = {thor}, !.drafts = 2]
InTurn   == [Deposits EXCEPT !.leaves = FALSE, !.drafts = 2]
Exchanges == [leaves |-> FALSE, kinds |-> {"coin", "grin"}, swaps |-> {nonlogs},
              drafts |-> 3, slates |-> 1, payments |-> 1]
Cancels   == [Exchanges EXCEPT !.kinds = {"grin"}, !.drafts = 2, !.slates = 2, !.payments = 0]
Behaviours == {Deposits, Redrafts, InTurn, Exchanges, Cancels}

(* The scenario of a part a behaviour is not about is no matter to it.        *)
MCInit ==
  /\ FundsInit
  /\ part # "payments" => scene = Alone
  /\ part # "sends" => scenario = Deposits

MCSpec == MCInit /\ [][FundsNext]_<<part, vars, tips, sends>>

Symmetry == Permutations({p1, p2})
====================================================================================
