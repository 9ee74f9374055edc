---------------------------------- MODULE Funds ----------------------------------
(******************************************************************************)
(* What the popup does with the wallet's funds: payments in flight, tips, and *)
(* the drafts of Send.  Each keeps another part of the state, and none reads  *)
(* what another writes; a behaviour is about one of them.                     *)
(******************************************************************************)
EXTENDS PendingOutgoing

CONSTANTS
  Claimer, Scanned, MaxTries, MaxLost, MaxBackups,   \* of Tips
  Task, Swap, Memo, Drafts                           \* of SendDraft

VARIABLES
  part,
  funded, spentBy, status, reported, backup, win, claim, told, discarded, lacking, lost,
  draft, swap, route, task, journal, drafts, slates, waiting, paid, confirmed, scenario

tips  == <<funded, spentBy, status, reported, backup, win, claim, told, discarded, lacking, lost>>
sends == <<draft, swap, route, task, journal, drafts, slates, waiting, paid, confirmed, scenario>>

Tip   == INSTANCE Tips
Sends   == INSTANCE SendDraft WITH Scenario <- Drafts

FundsInit ==
  /\ part \in {"payments", "tips", "sends"}
  /\ Init /\ Tip!Init /\ Sends!Init

FundsNext ==
  \/ part = "payments" /\ Next /\ UNCHANGED <<part, tips, sends>>
  \/ part = "tips" /\ Tip!Next /\ UNCHANGED <<part, vars, sends>>
  \/ part = "sends" /\ Sends!Next /\ UNCHANGED <<part, vars, tips>>

FundsSpec == FundsInit /\ [][FundsNext]_<<part, vars, tips, sends>>

(* Named as in Tips and SendDraft, which say what they are about.             *)
KeptUnlessDiscarded  == Tip!KeptUnlessDiscarded
SuccessIsPaid        == Tip!SuccessIsPaid
ClawedBackIsReturned == Tip!ClawedBackIsReturned
VaultPaidWithMemo    == Sends!VaultPaidWithMemo
TxidIsDeposit        == Sends!TxidIsDeposit
ExchangeKept         == Sends!ExchangeKept
====================================================================================
