------------------------------- MODULE SendDraft -------------------------------
(****************************************************************************)
(* The draft the Send wizard keeps in the session state (core's wizards.ts, *)
(* ui's SendWizard.tsx and send-draft.ts), and the swap that hands its      *)
(* deposit to it (SwapTab.tsx, swap-handoff.ts, send-handoff.ts, and the    *)
(* popup's onSubmit).                                                       *)
(*                                                                          *)
(* One window, which may close and open again.  Every store update is one   *)
(* step and is rendered at once.  A task is a handler between two awaits;   *)
(* it goes on after its screen is left.  Left out: fees, sweeps, what send  *)
(* and the Grin flows do inside (PendingOutgoing and GrinOverlay have them),*)
(* quotes, settled swaps, and Trocador, whose deposits no txid tracks.      *)
(****************************************************************************)
EXTENDS Naturals, FiniteSets

CONSTANTS
  Task,        \* handlers that may be under way at a time
  Swap,        \* trades, each confirmed once
  Memo,        \* those of THORChain: one vault for all, told apart by the memo
  None,        \* nothing
  Scenario     \* what a behaviour is about: may the user, or a hand-off he has
               \* agreed to, leave a screen whose handler is under way, or press
               \* another of its buttons (leaves), the coins and the trades, and
               \* bounds on the drafts started, slates built and payments made

VARIABLES
  draft,       \* store: wizards.send, and None without it
  swap,        \* store: the swap wizard's inFlight and step
  route,       \* store: the screen
  task,        \* task[t]: the handler t is running
  journal,     \* store: swap deposits in the send journal
  drafts,      \* drafts started so far
  slates,      \* history: Grin payments built
  waiting,     \* history: those kept in Send for a reply that may still come
  paid,        \* history: payments broadcast
  confirmed,   \* history: trades confirmed
  scenario     \* which of them this behaviour is

vars == <<draft, swap, route, task, journal, drafts, slates, waiting, paid, confirmed, scenario>>

history == <<slates, waiting, paid, confirmed>>
fixed == <<scenario>>

Amount == {1, 2}
Quoted == 1
Address(s) == IF s \in Memo THEN "vault" ELSE s

ReceiptStep == 4

Idle == [at |-> "idle"]

-------------------------------------------------------------------------------
(* Send's draft.                                                            *)

Fresh(n) == [id |-> n, kind |-> None, step |-> 0, to |-> None, amount |-> 0,
             ctx |-> None, slate |-> None]

ShowsReceipt == draft # None /\ draft.step >= ReceiptStep
InProgress ==
  /\ draft # None /\ ~ShowsReceipt
  /\ draft.to # None \/ draft.amount # 0 \/ (draft.kind # None /\ draft.step > 0)
ExchangeInFlight == draft # None /\ ~ShowsReceipt /\ draft.slate # None

(* A handler of the screen at step 3 is under way.                          *)
Running(ats) == \E t \in Task : task[t].at \in ats /\ task[t].live
Paying == {"check", "send", "name", "receipt"}
Building == {"build", "rebuild"}
Busy == Running(Paying \cup Building \cup {"finalize", "cancel", "exit"})
MayLeave == scenario.leaves \/ ~Busy

(* Step 3 is left: its components, and what guards them, are gone.          *)
Unmounted == [t \in Task |-> IF task[t] = Idle THEN Idle ELSE [task[t] EXCEPT !.live = FALSE]]

At(k, step) == route = "send" /\ draft # None /\ draft.step = step /\ (k = None \/ draft.kind = k)

(* start and prepareSendDraft, with the coin k of the screen left, if any.  *)
OpenSend(k) ==
  /\ route # "send" /\ drafts < scenario.drafts
  /\ LET fresh == draft = None \/ ShowsReceipt
         d == IF fresh THEN Fresh(drafts + 1) ELSE draft
     IN  /\ draft' = IF k # None /\ d.step = 0 /\ d.to = None /\ d.amount = 0 /\ d.slate = None
                     THEN [d EXCEPT !.kind = k, !.step = 1,
                                    !.ctx = IF d.kind = k THEN d.ctx ELSE None]
                     ELSE d
         /\ drafts' = IF fresh THEN drafts + 1 ELSE drafts
  /\ route' = "send"
  /\ UNCHANGED <<swap, task, journal, history, fixed>>

PickAsset(k) ==
  /\ At(None, 0)
  /\ draft' = [draft EXCEPT !.kind = k, !.step = 1]
  /\ waiting' = IF k = "grin" THEN waiting ELSE waiting \ {draft.slate}
  /\ UNCHANGED <<swap, route, task, journal, drafts, slates, paid, confirmed, fixed>>

(* An address of the coin: the recipient's, or the deposit's that is there. *)
EnterAddress(to) ==
  /\ At(None, 1)
  /\ to = "friend" \/ (to = draft.to /\ draft.kind = "coin")
  /\ draft' = [draft EXCEPT !.to = to, !.step = 2]
  /\ UNCHANGED <<swap, route, task, journal, drafts, history, fixed>>

Compose(a) ==
  /\ At(None, 2)
  /\ draft' = [draft EXCEPT !.amount = a, !.step = 3]
  /\ UNCHANGED <<swap, route, task, journal, drafts, history, fixed>>

Back ==
  /\ route = "send" /\ draft # None /\ draft.step \in 1..3 /\ MayLeave
  /\ draft' = [draft EXCEPT !.step = @ - 1]
  /\ task' = Unmounted
  /\ UNCHANGED <<swap, route, journal, drafts, history, fixed>>

(* exit: the cross, and a receipt's Close.                                  *)
Exit ==
  /\ route = "send" /\ draft # None /\ MayLeave
  /\ draft' = None /\ route' = "home"
  /\ waiting' = waiting \ {draft.slate}
  /\ task' = Unmounted
  /\ UNCHANGED <<swap, journal, drafts, slates, paid, confirmed, fixed>>

(* Another tab.                                                             *)
Navigate(r) ==
  /\ route # r /\ MayLeave
  /\ route' = r /\ task' = Unmounted
  /\ UNCHANGED <<draft, swap, journal, drafts, history, fixed>>

Begins(t, job) == task[t] = Idle /\ task' = [task EXCEPT ![t] = job]
Goes(t, at) == task' = [task EXCEPT ![t].at = at]
Ends(t) == task' = [task EXCEPT ![t] = Idle]

-------------------------------------------------------------------------------
(* Review: the popup's onSubmit.                                            *)

(* Mutant: any other amount is an ordinary send.                            *)
MemoCheck_AnyAmount(d) ==
  IF d.ctx \notin Memo \/ d.to # Address(d.ctx) \/ d.amount # Quoted THEN "plain" ELSE "memo"

(* checkMemoDeposit, on the draft read before the send: a send to the vault *)
(* is the quoted deposit or nothing.                                        *)
MemoCheck(d) ==
  IF d.ctx \notin Memo \/ d.to # Address(d.ctx) THEN "plain"
  ELSE IF d.amount # Quoted THEN "refuse" ELSE "memo"

(* One submit at a time, as long as Review stays mounted.                   *)
Submit(t) ==
  /\ At("coin", 3)
  /\ ~Running(Paying)
  /\ Begins(t, [at |-> "check", draft |-> draft, pay |-> None, live |-> TRUE])
  /\ UNCHANGED <<draft, swap, route, journal, drafts, history, fixed>>

(* The check's answer, with a fresh preflight of the vault.                 *)
CheckMemoDeposit(t) ==
  /\ task[t].at = "check"
  /\ \/ MemoCheck(task[t].draft) # "refuse" /\ Goes(t, "send")
     \/ MemoCheck(task[t].draft) # "plain" /\ Ends(t)
  /\ UNCHANGED <<draft, swap, route, journal, drafts, history, fixed>>

(* send: broadcast, or refused.                                             *)
Broadcast(t) ==
  /\ task[t].at = "send"
  /\ \/ /\ Cardinality(paid) < scenario.payments
        /\ LET d == task[t].draft
               p == [n |-> Cardinality(paid) + 1, draft |-> d.id, to |-> d.to,
                     amount |-> d.amount, memo |-> IF MemoCheck(d) = "memo" THEN d.ctx ELSE None]
           IN  /\ paid' = paid \cup {p}
               /\ task' = [task EXCEPT ![t].pay = p, ![t].at = "name"]
     \/ Ends(t) /\ UNCHANGED paid
  /\ UNCHANGED <<draft, swap, route, journal, drafts, slates, waiting, confirmed, fixed>>

IsDeposit(t) ==
  LET d == task[t].draft IN d.ctx # None /\ d.to = Address(d.ctx)

(* Mutant: the deposit is whichever swap's is on record now.                *)
NameDeposit_Current(t) ==
  /\ task[t].at = "name"
  /\ swap' = IF IsDeposit(t) /\ swap # None THEN [swap EXCEPT !.txid = task[t].pay] ELSE swap
  /\ journal' = IF IsDeposit(t) THEN journal \cup {[swap |-> task[t].draft.ctx, pay |-> task[t].pay]}
                ELSE journal
  /\ Goes(t, "receipt")
  /\ UNCHANGED <<draft, route, drafts, history, fixed>>

(* The txid goes to the swap it was the deposit of, and to the journal.     *)
NameDeposit(t) ==
  /\ task[t].at = "name"
  /\ LET s == task[t].draft.ctx
     IN  IF IsDeposit(t)
         THEN /\ swap' = IF swap # None /\ swap.id = s THEN [swap EXCEPT !.txid = task[t].pay] ELSE swap
              /\ journal' = journal \cup {[swap |-> s, pay |-> task[t].pay]}
         ELSE UNCHANGED <<swap, journal>>
  /\ Goes(t, "receipt")
  /\ UNCHANGED <<draft, route, drafts, history, fixed>>

(* The wizard advances, whichever draft it holds by now.                    *)
ShowReceipt(t) ==
  /\ task[t].at = "receipt"
  /\ draft' = IF draft = None THEN None ELSE [draft EXCEPT !.step = ReceiptStep]
  /\ Ends(t)
  /\ UNCHANGED <<swap, route, journal, drafts, history, fixed>>

-------------------------------------------------------------------------------
(* The Grin exchange.                                                       *)

(* Built when the screen has no slate: on opening it, and again when a       *)
(* cancel has cleared the one it had and not yet left (a rebuild).  Tried    *)
(* again after a failure, as by going back and on.                           *)
StartBuild(t) ==
  /\ At("grin", 3) /\ draft.slate = None
  /\ ~Running(Building)
  /\ Cardinality(slates) < scenario.slates
  /\ Begins(t, [at |-> IF Running({"exit"}) THEN "rebuild" ELSE "build",
                draft |-> draft, pay |-> None, live |-> TRUE])
  /\ UNCHANGED <<draft, swap, route, journal, drafts, history, fixed>>

(* The slate, sent to the recipient, and its context kept in Send, if that   *)
(* has a draft still, whichever.                                             *)
Built(t) ==
  /\ task[t].at \in Building
  /\ LET d == task[t].draft
         s == [n |-> Cardinality(slates) + 1, to |-> d.to, amount |-> d.amount,
               stray |-> task[t].at = "rebuild"]
     IN  \/ /\ slates' = slates \cup {s}
            /\ waiting' = IF draft = None THEN waiting ELSE waiting \cup {s}
            /\ draft' = IF draft = None THEN None ELSE [draft EXCEPT !.slate = s]
         \/ UNCHANGED <<slates, waiting, draft>>
  /\ Ends(t)
  /\ UNCHANGED <<swap, route, journal, drafts, paid, confirmed, fixed>>

(* The reply is pasted.                                                     *)
StartFinalize(t) ==
  /\ At("grin", 3) /\ draft.slate # None
  /\ ~Running({"finalize", "receipt"}) /\ MayLeave
  /\ Begins(t, [at |-> "finalize", draft |-> draft, pay |-> None, live |-> TRUE])
  /\ UNCHANGED <<draft, swap, route, journal, drafts, history, fixed>>

Finalized(t) ==
  /\ task[t].at = "finalize"
  /\ \/ waiting' = waiting \ {task[t].draft.slate} /\ Goes(t, "receipt")
     \/ Ends(t) /\ UNCHANGED waiting
  /\ UNCHANGED <<draft, swap, route, journal, drafts, slates, paid, confirmed, fixed>>

(* Cancel, which a screen that builds or broadcasts does not offer (that of *)
(* a failed build does, with nothing to tell or clear: it is Exit).  The     *)
(* recipient is told ...                                                    *)
StartCancel(t) ==
  /\ At("grin", 3) /\ draft.slate # None
  /\ ~Running(Building \cup {"finalize", "receipt"}) /\ MayLeave
  /\ Begins(t, [at |-> "cancel", draft |-> draft, pay |-> None, live |-> TRUE])
  /\ UNCHANGED <<draft, swap, route, journal, drafts, history, fixed>>

(* ... what was built is cleared from the draft, whichever there is ...      *)
ClearCancelled(t) ==
  /\ task[t].at = "cancel"
  /\ waiting' = waiting \ {task[t].draft.slate}
  /\ draft' = IF draft = None THEN None ELSE [draft EXCEPT !.slate = None]
  /\ Goes(t, "exit")
  /\ UNCHANGED <<swap, route, journal, drafts, slates, paid, confirmed, fixed>>

(* ... and, a later update, Send is left.                                   *)
Cancelled(t) ==
  /\ task[t].at = "exit"
  /\ draft' = None /\ route' = "home"
  /\ task' = [Unmounted EXCEPT ![t] = Idle]
  /\ UNCHANGED <<swap, journal, drafts, history, fixed>>

-------------------------------------------------------------------------------
(* The swap, and what opens Send on a draft of its own.                     *)

ConfirmSwap(s) ==
  /\ route = "swap" /\ swap = None /\ s \notin confirmed
  /\ swap' = [id |-> s, step |-> 2, txid |-> None]
  /\ confirmed' = confirmed \cup {s}
  /\ UNCHANGED <<draft, route, task, journal, drafts, slates, waiting, paid, fixed>>

(* "I already sent": to the status step.                                    *)
Continue ==
  /\ route = "swap" /\ swap # None /\ swap.step = 2
  /\ swap' = [swap EXCEPT !.step = 3]
  /\ UNCHANGED <<draft, route, task, journal, drafts, history, fixed>>

CloseSwap ==
  /\ route = "swap" /\ swap # None
  /\ swap' = None
  /\ UNCHANGED <<draft, route, task, journal, drafts, history, fixed>>

(* The status poll takes a txid it lacks from the journal.                  *)
Poll ==
  /\ swap # None /\ swap.step = 3 /\ swap.txid = None
  /\ \E e \in journal : e.swap = swap.id /\ swap' = [swap EXCEPT !.txid = e.pay]
  /\ UNCHANGED <<draft, route, task, journal, drafts, history, fixed>>

DepositDraft(n) == [Fresh(n) EXCEPT !.kind = "coin", !.step = 2, !.to = Address(swap.id),
                                    !.amount = Quoted, !.ctx = swap.id]
PayLinkDraft(n) == [Fresh(n) EXCEPT !.kind = "grin", !.step = 1, !.to = "friend", !.amount = 1]

(* openSendOnDraft: refused, or the user asked ...                          *)
AskHandoff(t) ==
  /\ ~ExchangeInFlight /\ drafts < scenario.drafts
  /\ \/ /\ route = "swap" /\ swap # None /\ swap.step = 2
        /\ Begins(t, [at |-> "handoff", asked |-> InProgress, swap |-> swap.id,
                      draft |-> DepositDraft(drafts + 1), live |-> FALSE])
     \/ /\ route = "home" /\ "grin" \in scenario.kinds
        /\ Begins(t, [at |-> "handoff", asked |-> InProgress, swap |-> None,
                      draft |-> PayLinkDraft(drafts + 1), live |-> FALSE])
  /\ drafts' = drafts + 1
  /\ UNCHANGED <<draft, swap, route, journal, history, fixed>>

(* Mutant: what was found when the user was asked still holds.              *)
WriteHandoff_Trusting(t) ==
  /\ task[t].at = "handoff"
  /\ draft' = task[t].draft /\ route' = "send"
  /\ IF task[t].swap = None THEN task' = [Unmounted EXCEPT ![t] = Idle]
     ELSE task' = [Unmounted EXCEPT ![t] = [task[t] EXCEPT !.at = "status"]]
  /\ UNCHANGED <<swap, journal, drafts, history, fixed>>

(* ... and the draft and the route written together, unless Send changed.   *)
WriteHandoff(t) ==
  /\ task[t].at = "handoff"
  /\ IF ExchangeInFlight \/ (InProgress /\ ~task[t].asked)
     THEN Ends(t) /\ UNCHANGED <<draft, route>>
     ELSE /\ MayLeave
          /\ draft' = task[t].draft /\ route' = "send"
          /\ IF task[t].swap = None THEN task' = [Unmounted EXCEPT ![t] = Idle]
             ELSE task' = [Unmounted EXCEPT ![t] = [task[t] EXCEPT !.at = "status"]]
  /\ UNCHANGED <<swap, journal, drafts, history, fixed>>

(* openSendFromDeposit: only then is the swap at its status step.           *)
ToStatus(t) ==
  /\ task[t].at = "status"
  /\ swap' = IF swap = None THEN None ELSE [swap EXCEPT !.step = 3]
  /\ Ends(t)
  /\ UNCHANGED <<draft, route, journal, drafts, history, fixed>>

(* The window closes, and one is opened: a finished send is not restored.   *)
Reopen ==
  /\ task' = [t \in Task |-> Idle]
  /\ IF ShowsReceipt
     THEN draft' = None /\ route' = IF route = "send" THEN "home" ELSE route
     ELSE UNCHANGED <<draft, route>>
  /\ UNCHANGED <<swap, journal, drafts, history, fixed>>

-------------------------------------------------------------------------------
Init ==
  /\ draft = None /\ swap = None /\ route = "home"
  /\ task = [t \in Task |-> Idle]
  /\ journal = {} /\ drafts = 0
  /\ slates = {} /\ waiting = {} /\ paid = {} /\ confirmed = {}
  /\ scenario \in Scenario

Next ==
  \/ \E k \in scenario.kinds \cup {None} : OpenSend(k)
  \/ \E k \in scenario.kinds : PickAsset(k)
  \/ \E to \in {"friend", "vault"} \cup Swap : EnterAddress(to)
  \/ \E a \in Amount : Compose(a)
  \/ Back \/ Exit
  \/ \E r \in {"home", "swap"} : Navigate(r)
  \/ \E t \in Task :
       \/ Submit(t) \/ CheckMemoDeposit(t) \/ Broadcast(t) \/ NameDeposit(t) \/ ShowReceipt(t)
       \/ StartBuild(t) \/ Built(t) \/ StartFinalize(t) \/ Finalized(t) \/ StartCancel(t)
       \/ ClearCancelled(t) \/ Cancelled(t)
       \/ AskHandoff(t) \/ WriteHandoff(t) \/ ToStatus(t)
  \/ \E s \in scenario.swaps : ConfirmSwap(s)
  \/ Continue \/ CloseSwap \/ Poll \/ Reopen

Spec == Init /\ [][Next]_vars

-------------------------------------------------------------------------------
(* Properties.                                                              *)

(* "A vault payment without its memo is not a swap and cannot be undone"    *)
(* (index.tsx:2546): whatever is typed, left or opened meanwhile, what goes *)
(* to THORChain's vault is a quoted deposit with its own memo.              *)
VaultPaidWithMemo == \A p \in paid : p.to = "vault" => p.memo \in Memo /\ p.amount = Quoted

(* The txid a swap is followed by is that of its own deposit, although the  *)
(* send may answer when another swap has taken its place.                   *)
TxidIsDeposit ==
  swap # None => swap.txid = None \/
    (swap.txid.to = Address(swap.id) /\ (swap.id \in Memo => swap.txid.memo = swap.id))

(* A Grin payment kept in Send for its reply stays there until it is        *)
(* finalized or the user gives it up (or takes another coin), also when a   *)
(* handoff was under way while it was built, or the window closed; for a    *)
(* user who waits for the handlers of the screen he is on, and until a      *)
(* cancel that has not yet left sets off a build of its own.                *)
ExchangeKept ==
  ~scenario.leaves /\ (\A s \in slates : ~s.stray) =>
    \A s \in waiting : draft # None /\ draft.slate = s

(* "Read-only confirmation that the built S1 matches what the user          *)
(* intended" (SendWizard.tsx:1838-1841): the exchange shows the terms of    *)
(* the slate it would finalize.                                             *)
SlateIsAsShown ==
  At("grin", 3) /\ draft.slate # None =>
    draft.slate.amount = draft.amount /\ draft.slate.to = draft.to
================================================================================
