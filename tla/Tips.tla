---------------------------------- MODULE Tips ----------------------------------
(****************************************************************************)
(* A social tip: coins sent to a fresh key, which the backend hands, sealed *)
(* to the recipient or to the link, to who claims it (popup/tip-handler.ts, *)
(* tip-claim-handler.ts, tip-key-backup.ts, and the list of sent tips).     *)
(* The sender's own way to the coins is the key's backup in local storage.  *)
(*                                                                          *)
(* One tip.  A step of a wallet is the code between two awaits; a request   *)
(* takes effect when it is issued, and its answer may be lost, which the    *)
(* code takes for a failure.  External: the backend's row, as core's        *)
(* api/social.ts describes it, and the network, which accepts the first     *)
(* spend of the coins and refuses the others.  Left out: building and       *)
(* sealing, amounts and fees, delivery of the link, deadlines.              *)
(****************************************************************************)
EXTENDS Naturals, FiniteSets

CONSTANTS
  Window,       \* windows of the sender's wallet
  Claimer,      \* wallets with the key: one for a targeted tip, any for a link
  None,         \* nobody
  Scanned,      \* XMR and WOW: outputs are listed by a server that may lag
  MaxTries,     \* attempts at attaching the funding
  MaxLost,      \* bound: answers lost
  MaxBackups    \* bound: backups that cannot be stored

VARIABLES
  funded,       \* network: the coins are at the tip's key
  spentBy,      \* network: whose spend of them it accepted
  status,       \* backend: the tip's status
  reported,     \* backend: claimers who reported their sweep
  backup,       \* storage.local smirk:tip-key-backup:<tipId>
  win,          \* win[w]: what window w is doing, and the row it shows
  claim,        \* claim[c]: where the claim of c is
  told,         \* history: who was told the coins were moved to him
  discarded,    \* history: a backup was removed with a draft
  lacking,      \* history: the backup could not be stored
  lost          \* answers lost so far

vars == <<funded, spentBy, status, reported, backup, win, claim, told, discarded, lacking, lost>>

backend == <<status, reported>>
network == <<funded, spentBy>>
history == <<told, discarded, lacking>>

Status == {"none", "draft", "confirming", "pending", "claiming", "claimed", "clawed_back", "cancelled"}

(* What a claim or a clawback may still reach.                              *)
Claimable == {"confirming", "pending", "claiming"}

Idle == [at |-> "idle", row |-> "none", kept |-> FALSE, left |-> 0]

Goto(w, step) == win' = [win EXCEPT ![w].at = step]
Ends(w) == win' = [win EXCEPT ![w] = Idle]

(* An answer does not arrive.                                               *)
Lose == lost < MaxLost /\ lost' = lost + 1

-------------------------------------------------------------------------------
(* Sending a tip.                                                           *)

(* api.createSocialTip, before anything is on chain.                        *)
CreateDraft(w) ==
  /\ win[w].at = "idle" /\ status = "none"
  /\ status' = "draft"
  /\ \/ Goto(w, "backup") /\ UNCHANGED lost
     \/ Lose /\ UNCHANGED win
  /\ UNCHANGED <<network, reported, backup, claim, history>>

(* storeTipKeyBackup, which swallows a failure.                             *)
StoreTipKeyBackup(w) ==
  /\ win[w].at = "backup"
  /\ \/ backup' = TRUE /\ UNCHANGED lacking
     \/ MaxBackups > 0 /\ lacking' = TRUE /\ UNCHANGED backup
  /\ Goto(w, "fund")
  /\ UNCHANGED <<network, backend, claim, told, discarded, lost>>

(* send, or the Grin broadcast: accepted; accepted but not answered;        *)
(* refused; or thrown, the wallet having been locked.                       *)
Fund(w) ==
  /\ win[w].at = "fund"
  /\ \/ /\ funded' = TRUE
        /\ win' = [win EXCEPT ![w].at = "attach", ![w].left = MaxTries]
        /\ UNCHANGED lost
     \/ Lose /\ funded' = TRUE /\ Goto(w, "cancel")
     \/ Goto(w, "cancel") /\ UNCHANGED <<funded, lost>>
     \/ Ends(w) /\ UNCHANGED <<funded, lost>>
  /\ UNCHANGED <<spentBy, backend, backup, claim, history>>

(* Mutant: with the draft goes the backup of its key.                       *)
CancelUnfunded_Tidied(w) ==
  /\ win[w].at = "cancel"
  /\ status' = IF status = "draft" THEN "cancelled" ELSE status
  /\ backup' = FALSE
  /\ Ends(w)
  /\ UNCHANGED <<network, reported, claim, history, lost>>

(* A send that failed, as far as the wallet knows: api.cancelSocialTip,     *)
(* best effort.                                                             *)
CancelUnfunded(w) ==
  /\ win[w].at = "cancel"
  /\ \/ status' = IF status = "draft" THEN "cancelled" ELSE status
     \/ UNCHANGED status
  /\ Ends(w)
  /\ UNCHANGED <<network, reported, backup, claim, history, lost>>

(* attachFundingWithRetry, one attempt.                                     *)
AttachFunding(w) ==
  /\ win[w].at = "attach" /\ win[w].left > 0
  /\ status' = IF status = "draft" THEN "confirming" ELSE status
  /\ \/ status' \in Claimable /\ Goto(w, "annotate") /\ UNCHANGED lost
     \/ status' \notin Claimable /\ win' = [win EXCEPT ![w].left = @ - 1] /\ UNCHANGED lost
     \/ Lose /\ win' = [win EXCEPT ![w].left = @ - 1]
  /\ UNCHANGED <<network, reported, backup, claim, history>>

(* The request of an attempt does not reach the backend.                    *)
AttachUnsent(w) ==
  /\ win[w].at = "attach" /\ win[w].left > 0 /\ Lose
  /\ win' = [win EXCEPT ![w].left = @ - 1]
  /\ UNCHANGED <<network, backend, backup, claim, history>>

(* Out of attempts: "tap the tip to Clawback".                              *)
AttachFailed(w) ==
  /\ win[w].at = "attach" /\ win[w].left = 0
  /\ Ends(w)
  /\ UNCHANGED <<network, backend, backup, claim, history, lost>>

(* annotateTipKeyBackup reads the record ...                                *)
ReadForNote(w) ==
  /\ win[w].at = "annotate"
  /\ IF backup THEN Goto(w, "note") ELSE Ends(w)
  /\ UNCHANGED <<network, backend, backup, claim, history, lost>>

(* ... and writes it back.                                                  *)
WriteNote(w) ==
  /\ win[w].at = "note"
  /\ backup' = TRUE
  /\ Ends(w)
  /\ UNCHANGED <<network, backend, claim, history, lost>>

-------------------------------------------------------------------------------
(* Sent tips: the row a window shows, and what it offers.                   *)

(* load: the server's rows, and a pending one for a backup without a row;   *)
(* when the server does not answer, that is every backup.                   *)
Load(w) ==
  /\ win[w].at = "idle" /\ status # "none"
  /\ \/ win' = [win EXCEPT ![w].row = status, ![w].kept = backup] /\ UNCHANGED lost
     \/ Lose /\ win' = [win EXCEPT ![w].row = IF backup THEN "pending" ELSE "none", ![w].kept = backup]
  /\ UNCHANGED <<network, backend, backup, claim, history>>

IsDraft(w) == win[w].row = "draft"
IsClawbackable(w) ==
  \/ win[w].row \in Claimable
  \/ win[w].row = "cancelled" /\ win[w].kept

(* "Discard draft": api.cancelSocialTip, only valid for a draft ...         *)
Discard(w) ==
  /\ win[w].at = "idle" /\ IsDraft(w)
  /\ \/ /\ status = "draft" /\ status' = "cancelled"
        /\ \/ Goto(w, "discard") /\ UNCHANGED lost
           \/ Lose /\ Ends(w)
     \/ /\ status # "draft" /\ Ends(w)
        /\ UNCHANGED <<status, lost>>
  /\ UNCHANGED <<network, reported, backup, claim, history>>

(* ... and removeTipKeyBackup.                                              *)
RemoveDiscarded(w) ==
  /\ win[w].at = "discard"
  /\ backup' = FALSE
  /\ discarded' = TRUE
  /\ Ends(w)
  /\ UNCHANGED <<network, backend, claim, told, lacking, lost>>

(* Mutant: the backend is told first, as it once was.                       *)
Clawback_MarksFirst(w) ==
  /\ win[w].at = "idle" /\ IsClawbackable(w) /\ backup
  /\ status' = IF status \in Claimable THEN "clawed_back" ELSE status
  /\ Goto(w, "sweep")
  /\ UNCHANGED <<network, reported, backup, claim, history, lost>>

(* clawbackSocialTip, up to the sweep: no backup, no key.                   *)
Clawback(w) ==
  /\ win[w].at = "idle" /\ IsClawbackable(w)
  /\ IF backup THEN Goto(w, "sweep") ELSE Ends(w)
  /\ UNCHANGED <<network, backend, backup, claim, history, lost>>

(* The outputs the server lists at the tip's key.                           *)
Lists(unspent) == IF unspent THEN funded /\ spentBy = None
                  ELSE Scanned /\ funded /\ spentBy # None

(* sweepUtxoKey, sweepCryptonoteKeys, sweepGrin, for the sender.            *)
SweepBack(w) ==
  /\ win[w].at = "sweep"
  /\ \/ /\ Lists(TRUE)
        /\ spentBy' = "sender"
        /\ \/ Goto(w, "mark") /\ UNCHANGED lost
           \/ Lose /\ Ends(w)
     \/ Ends(w) /\ UNCHANGED <<spentBy, lost>>
  /\ UNCHANGED <<funded, backend, backup, claim, history>>

(* api.clawbackSocialTip, best effort.                                      *)
MarkClawedBack(w) ==
  /\ win[w].at = "mark"
  /\ \/ status' = IF status \in Claimable THEN "clawed_back" ELSE status
     \/ UNCHANGED status
  /\ Goto(w, "remove")
  /\ UNCHANGED <<network, reported, backup, claim, history, lost>>

(* The caller of a clawback that went through removes the backup.           *)
RemoveReturned(w) ==
  /\ win[w].at = "remove"
  /\ backup' = FALSE
  /\ told' = told \cup {"sender"}
  /\ Ends(w)
  /\ UNCHANGED <<network, backend, claim, discarded, lacking, lost>>

(* The window closes; another one opens.                                    *)
Close(w) ==
  /\ win[w] # Idle
  /\ Ends(w)
  /\ UNCHANGED <<network, backend, backup, claim, history, lost>>

-------------------------------------------------------------------------------
(* Claiming.                                                                *)

At(c, step) == claim' = [claim EXCEPT ![c] = step]

(* api.claimSocialTip, and the decryption: the claim of one who reported a  *)
(* sweep before says so.                                                    *)
Claim(c) ==
  /\ claim[c] = "idle" /\ status \in {"pending", "claiming"}
  /\ status' = "claiming"
  /\ \/ At(c, IF c \in reported /\ Scanned THEN "prove" ELSE "sweep") /\ UNCHANGED lost
     \/ Lose /\ UNCHANGED claim
  /\ UNCHANGED <<network, reported, backup, win, history>>

(* provenEarlierSweep: a sweep that paid this wallet is reported again, not *)
(* repeated.                                                                *)
ProveEarlier(c) ==
  /\ claim[c] = "prove"
  /\ \/ Lists(TRUE) /\ At(c, "sweep")
     \/ Lists(FALSE) /\ At(c, IF spentBy = c THEN "report" ELSE "sweep")
     \/ At(c, "idle")
  /\ UNCHANGED <<network, backend, backup, win, history, lost>>

(* Mutant: nothing to sweep, so it must have been swept before.             *)
SweepTip_Already(c) ==
  /\ claim[c] = "sweep"
  /\ \/ Lists(TRUE) /\ spentBy' = c
     \/ spentBy # None /\ UNCHANGED spentBy
  /\ At(c, "report")
  /\ UNCHANGED <<funded, backend, backup, win, history, lost>>

(* The sweep, for the claimer.  Coins already spent are not listed, or are  *)
(* listed still and the network refuses the spend.                          *)
SweepTip(c) ==
  /\ claim[c] = "sweep"
  /\ \/ /\ Lists(TRUE)
        /\ spentBy' = c
        /\ \/ At(c, "report") /\ UNCHANGED lost
           \/ Lose /\ At(c, "idle")
     \/ At(c, "idle") /\ UNCHANGED <<spentBy, lost>>
  /\ UNCHANGED <<funded, backend, backup, win, history>>

(* confirmSweepWithRetry: success is what the network did, reported or not. *)
ReportSweep(c) ==
  /\ claim[c] = "report"
  /\ \/ reported' = reported \cup {c} /\ UNCHANGED lost
     \/ Lose /\ UNCHANGED reported
  /\ told' = told \cup {c}
  /\ At(c, "idle")
  /\ UNCHANGED <<network, status, backup, win, discarded, lacking>>

CloseClaimer(c) ==
  /\ claim[c] # "idle"
  /\ At(c, "idle")
  /\ UNCHANGED <<network, backend, backup, win, history, lost>>

-------------------------------------------------------------------------------
(* The backend by itself: funding confirms, old drafts are collected, and a *)
(* report the chain bears out settles the tip.                              *)
Backend ==
  /\ \/ status = "confirming" /\ funded /\ status' = "pending"
     \/ status = "draft" /\ status' = "cancelled"
     \/ status = "claiming" /\ spentBy \in reported /\ status' = "claimed"
  /\ UNCHANGED <<network, reported, backup, win, claim, history, lost>>

Init ==
  /\ funded = FALSE /\ spentBy = None
  /\ status = "none" /\ reported = {}
  /\ backup = FALSE
  /\ win = [w \in Window |-> Idle]
  /\ claim = [c \in Claimer |-> "idle"]
  /\ told = {} /\ discarded = FALSE /\ lacking = FALSE
  /\ lost = 0

Next ==
  \/ \E w \in Window :
       \/ CreateDraft(w) \/ StoreTipKeyBackup(w) \/ Fund(w) \/ CancelUnfunded(w)
       \/ AttachFunding(w) \/ AttachUnsent(w) \/ AttachFailed(w) \/ ReadForNote(w) \/ WriteNote(w)
       \/ Load(w) \/ Discard(w) \/ RemoveDiscarded(w)
       \/ Clawback(w) \/ SweepBack(w) \/ MarkClawedBack(w) \/ RemoveReturned(w) \/ Close(w)
  \/ \E c \in Claimer :
       Claim(c) \/ ProveEarlier(c) \/ SweepTip(c) \/ ReportSweep(c) \/ CloseClaimer(c)
  \/ Backend

Spec == Init /\ [][Next]_vars

-------------------------------------------------------------------------------
(* Properties.                                                              *)

(* Coins at a tip's key are never out of reach of both sides: the sender    *)
(* has the backup of the key or the backend may still hand it to a          *)
(* claimer, whatever window closed and whatever answer was lost.  The two   *)
(* exceptions are the code's: a backup that could not be stored, and a row  *)
(* discarded as a draft.                                                    *)
KeptUnlessDiscarded ==
  funded /\ spentBy = None => backup \/ status \in Claimable \/ discarded \/ lacking

(* Who is told that the coins came to them has them: the network took their *)
(* spend and no other's, however claims and clawbacks race.                 *)
SuccessIsPaid == \A who \in told : spentBy = who

(* A tip is marked clawed back only once its coins are the sender's again:  *)
(* marked before, they were orphaned (tip-claim-handler.ts:367-372).        *)
ClawedBackIsReturned == status = "clawed_back" => spentBy = "sender"

(* "the on-chain funds are still recoverable: the local backup carries the  *)
(* tip key so the user can clawback" (tip-handler.ts:84-86): a funded tip   *)
(* that was backed up stays recoverable.                                    *)
FundedTipRecoverable ==
  funded /\ spentBy = None => backup \/ status \in Claimable \/ lacking
================================================================================
