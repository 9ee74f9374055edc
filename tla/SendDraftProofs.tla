---------------------------- MODULE SendDraftProofs ----------------------------
(****************************************************************************)
(* Proofs that no payment reaches THORChain's vault without its memo, that  *)
(* a swap is followed by the txid of its own deposit, and that a Grin       *)
(* payment stays in Send until its reply, if no handler is left.            *)
(****************************************************************************)
EXTENDS SendDraft, TLAPS

(* Names of trades are not addresses, nor is nothing.                       *)
Constants == None # "vault" /\ \A sc \in Scenario : "vault" \notin sc.swaps

DraftFields == {"id", "kind", "step", "to", "amount", "ctx", "slate"}
IsDraft(d) == d = [f \in DraftFields |-> d[f]]

(* A draft to the vault has not forgotten which trade it is for.            *)
Good(d) == IsDraft(d) /\ (d.to = "vault" => d.ctx \in Memo)

IsPayment(j) == j = [f \in {"at", "draft", "pay", "live"} |-> j[f]]
IsJob(j) ==
  \/ IsPayment(j)
  \/ j = [f \in {"at", "asked", "swap", "draft", "live"} |-> j[f]]

(* What is broadcast is to the recipient of its draft, with the memo that   *)
(* draft calls for.                                                         *)
PaysDraft(j) ==
  /\ j.pay.to = j.draft.to
  /\ j.pay.memo = IF MemoCheck(j.draft) = "memo" THEN j.draft.ctx ELSE None

(* Nor has one a handler holds; one that is being sent passed the check.    *)
GoodJob(j) ==
  \/ j = Idle
  \/ /\ IsJob(j) /\ j.at # "idle" /\ Good(j.draft)
     /\ j.at \in {"check", "send", "name"} => IsPayment(j)
     /\ j.at \in {"send", "name"} => MemoCheck(j.draft) # "refuse"
     /\ j.at = "name" => PaysDraft(j)

DraftOK == draft = None \/ Good(draft)
TaskOK  == task = [t \in Task |-> task[t]] /\ \A t \in Task : GoodJob(task[t])
SwapOK  ==
  \/ swap = None
  \/ swap = [f \in {"id", "step", "txid"} |-> swap[f]] /\ swap.id # "vault"

(* The journal names each deposit by its own payment. *)
DepositOf(p, s) == p.to = Address(s) /\ (s \in Memo => p.memo = s)
JournalOK == \A e \in journal : DepositOf(e.pay, e.swap)

IInv ==
  /\ DraftOK /\ TaskOK /\ SwapOK /\ JournalOK /\ scenario \in Scenario
  /\ VaultPaidWithMemo /\ TxidIsDeposit

(* Edits that leave recipient and trade alone, or name the friend.          *)
LEMMA Edits ==
  ASSUME NEW d, Good(d), NEW k, NEW n, NEW s
  PROVE  /\ Good([d EXCEPT !.step = n])
         /\ Good([d EXCEPT !.slate = s])
         /\ Good([d EXCEPT !.kind = k, !.step = n])
         /\ Good([d EXCEPT !.amount = s, !.step = n])
         /\ Good([d EXCEPT !.to = d.to, !.step = n])
         /\ Good([d EXCEPT !.to = "friend", !.step = n])
<1>1. Good([d EXCEPT !.step = n])
  BY DEF Good, IsDraft, DraftFields
<1>2. Good([d EXCEPT !.slate = s])
  BY DEF Good, IsDraft, DraftFields
<1>3. Good([d EXCEPT !.kind = k, !.step = n])
  BY DEF Good, IsDraft, DraftFields
<1>4. Good([d EXCEPT !.amount = s, !.step = n])
  BY DEF Good, IsDraft, DraftFields
<1>5. Good([d EXCEPT !.to = d.to, !.step = n])
  BY DEF Good, IsDraft, DraftFields
<1>6. Good([d EXCEPT !.to = "friend", !.step = n])
  BY DEF Good, IsDraft, DraftFields
<1>7. QED
  BY <1>1, <1>2, <1>3, <1>4, <1>5, <1>6

LEMMA NewDrafts ==
  ASSUME Constants, NEW n
  PROVE  /\ Good(Fresh(n)) /\ Fresh(n).to = None
         /\ Good(PayLinkDraft(n))
         /\ SwapOK /\ swap # None => Good(DepositDraft(n))
<1>1. Good(Fresh(n)) /\ Fresh(n).to = None
  BY DEF Constants, Good, IsDraft, DraftFields, Fresh
<1>2. Good(PayLinkDraft(n))
  BY DEF Good, IsDraft, DraftFields, PayLinkDraft, Fresh
<1>3. SwapOK /\ swap # None => Good(DepositDraft(n))
  <2>1. /\ IsDraft(DepositDraft(n))
        /\ DepositDraft(n).to = Address(swap.id) /\ DepositDraft(n).ctx = swap.id
    BY DEF IsDraft, DraftFields, DepositDraft, Fresh
  <2>2. SwapOK /\ swap # None => (Address(swap.id) = "vault" => swap.id \in Memo)
    BY DEF SwapOK, Address
  <2>3. QED
    BY <2>1, <2>2 DEF Good
<1>4. QED
  BY <1>1, <1>2, <1>3

LEMMA JobEdits ==
  ASSUME NEW j, IsJob(j), NEW a, NEW l
  PROVE  /\ IsJob([j EXCEPT !.at = a])
         /\ [j EXCEPT !.at = a].at = a /\ [j EXCEPT !.at = a].draft = j.draft
         /\ [j EXCEPT !.at = a].live = j.live
         /\ IsJob([j EXCEPT !.live = l])
         /\ [j EXCEPT !.live = l].at = j.at /\ [j EXCEPT !.live = l].draft = j.draft
         /\ IsPayment(j) => /\ IsPayment([j EXCEPT !.at = a])
                           /\ IsPayment([j EXCEPT !.live = l]) /\ [j EXCEPT !.live = l].pay = j.pay
  BY DEF IsJob, IsPayment

(* Leaving a screen changes nothing a handler holds.                        *)
LEMMA Leaving ==
  ASSUME TaskOK
  PROVE  /\ Unmounted = [t \in Task |-> Unmounted[t]]
         /\ \A t \in Task : GoodJob(Unmounted[t])
<1>1. ASSUME NEW t \in Task, task[t] # Idle
      PROVE  GoodJob([task[t] EXCEPT !.live = FALSE])
  <2> DEFINE j == task[t]
             left == [j EXCEPT !.live = FALSE]
  <2>1. GoodJob(j) /\ j # Idle
    BY <1>1 DEF TaskOK
  <2>2. IsJob(left) /\ left.at = j.at /\ left.draft = j.draft
    BY <2>1, JobEdits DEF GoodJob
  <2>3. IsPayment(j) => IsPayment(left) /\ left.pay = j.pay
    BY <2>1, JobEdits DEF GoodJob
  <2>4. QED
    BY <2>1, <2>2, <2>3 DEF GoodJob, PaysDraft
<1>2. QED
  BY <1>1 DEF Unmounted, GoodJob

(* What becomes of the handlers: one begins, goes on or ends, and the       *)
(* others go on, on their screen or not.                                    *)
LEMMA TaskSteps ==
  ASSUME TaskOK, NEW t \in Task
  PROVE  /\ Ends(t) => TaskOK'
         /\ \A job : GoodJob(job) /\ Begins(t, job) => TaskOK'
         /\ \A at : task[t] # Idle /\ at \notin {"idle", "check", "send", "name"} /\ Goes(t, at) => TaskOK'
         /\ UNCHANGED task \/ task' = Unmounted \/ task' = [Unmounted EXCEPT ![t] = Idle] => TaskOK'
<1>1. Ends(t) => TaskOK'
  BY DEF TaskOK, Ends, GoodJob
<1>2. \A job : GoodJob(job) /\ Begins(t, job) => TaskOK'
  BY DEF TaskOK, Begins
<1>3. ASSUME NEW at, task[t] # Idle, at \notin {"idle", "check", "send", "name"}, Goes(t, at)
      PROVE  TaskOK'
  <2> DEFINE i == task[t]
             j == [i EXCEPT !.at = at]
  <2>1. IsJob(i) /\ Good(i.draft)
    BY <1>3 DEF TaskOK, GoodJob
  <2>2. IsJob(j) /\ j.at = at /\ j.draft = i.draft
    <3> HIDE DEF i
    <3> QED BY <2>1, JobEdits
  <2>3. GoodJob(j)
    BY <1>3, <2>1, <2>2 DEF GoodJob
  <2>4. task' = [task EXCEPT ![t] = j]
    BY <1>3 DEF Goes
  <2>5. QED
    BY <2>3, <2>4 DEF TaskOK
<1>4. UNCHANGED task \/ task' = Unmounted \/ task' = [Unmounted EXCEPT ![t] = Idle] => TaskOK'
  BY Leaving DEF TaskOK, GoodJob
<1>5. QED
  BY <1>1, <1>2, <1>3, <1>4

LEMMA NoTaskStep == TaskOK /\ (UNCHANGED task \/ task' = Unmounted) => TaskOK'
  BY Leaving DEF TaskOK, GoodJob

LEMMA NewJobs ==
  ASSUME NEW d, Good(d), NEW at, at \notin {"idle", "send", "name"}, NEW p, NEW q, NEW l
  PROVE  /\ GoodJob([at |-> at, draft |-> d, pay |-> p, live |-> l])
         /\ at # "check" =>
              GoodJob([at |-> at, asked |-> q, swap |-> p, draft |-> d, live |-> l])
<1>1. /\ IsPayment([at |-> at, draft |-> d, pay |-> p, live |-> l])
      /\ IsJob([at |-> at, draft |-> d, pay |-> p, live |-> l])
      /\ IsJob([at |-> at, asked |-> q, swap |-> p, draft |-> d, live |-> l])
  BY DEF IsJob, IsPayment
<1>2. QED
  BY <1>1 DEF GoodJob

LEMMA InitIInv ==
  ASSUME Init PROVE IInv
<1>1. TaskOK
  BY DEF Init, TaskOK, GoodJob
<1>2. QED
  BY <1>1 DEF Init, IInv, DraftOK, SwapOK, JournalOK, VaultPaidWithMemo, TxidIsDeposit

(* Most steps leave the swap, the journal and the payments alone.           *)
LEMMA Rest ==
  ASSUME IInv, UNCHANGED <<swap, journal, paid, scenario>>, DraftOK', TaskOK'
  PROVE  IInv'
  BY DEF IInv, SwapOK, JournalOK, DepositOf, VaultPaidWithMemo, TxidIsDeposit

(* The user in the wizard.                                                  *)
LEMMA WizardStep ==
  ASSUME Constants, IInv,
         \/ \E k \in scenario.kinds \cup {None} : OpenSend(k)
         \/ \E k \in scenario.kinds : PickAsset(k)
         \/ \E to \in {"friend", "vault"} \cup Swap : EnterAddress(to)
         \/ \E a \in Amount : Compose(a)
         \/ Back \/ Exit \/ \E r \in {"home", "swap"} : Navigate(r)
  PROVE  IInv'
<1>1. UNCHANGED <<swap, journal, paid, scenario>>
  BY DEF OpenSend, PickAsset, EnterAddress, Compose, Back, Exit, Navigate, history, fixed
<1>2. TaskOK'
  <2>1. UNCHANGED task \/ task' = Unmounted
    BY DEF OpenSend, PickAsset, EnterAddress, Compose, Back, Exit, Navigate
  <2>2. QED
    BY <2>1, NoTaskStep DEF IInv
<1>3. ASSUME draft # None PROVE Good(draft)
  BY <1>3 DEF IInv, DraftOK
<1>4. ASSUME NEW k \in scenario.kinds \cup {None}, OpenSend(k) PROVE DraftOK'
  <2> DEFINE fresh == draft = None \/ ShowsReceipt
             d == IF fresh THEN Fresh(drafts + 1) ELSE draft
             picked == [d EXCEPT !.kind = k, !.step = 1, !.ctx = IF d.kind = k THEN d.ctx ELSE None]
  <2>1. Good(d)
    BY <1>3, NewDrafts
  <2>2. draft' = d \/ (d.to = None /\ draft' = picked)
    BY <1>4 DEF OpenSend
  <2>3. d.to = None => Good(picked)
    BY <2>1 DEF Constants, Good, IsDraft, DraftFields
  <2>4. QED
    BY <2>1, <2>2, <2>3 DEF DraftOK
<1>5. ASSUME NEW k \in scenario.kinds, PickAsset(k) PROVE DraftOK'
  BY <1>3, <1>5, Edits DEF PickAsset, At, DraftOK
<1>6. ASSUME NEW to \in {"friend", "vault"} \cup Swap, EnterAddress(to) PROVE DraftOK'
  <2>1. draft # None /\ to \in {"friend", draft.to} /\ draft' = [draft EXCEPT !.to = to, !.step = 2]
    BY <1>6 DEF EnterAddress, At
  <2>2. QED
    BY <1>3, <2>1, Edits DEF DraftOK
<1>7. ASSUME NEW a \in Amount, Compose(a) PROVE DraftOK'
  BY <1>3, <1>7, Edits DEF Compose, At, DraftOK
<1>8. CASE Back
  <2>1. draft # None /\ draft' = [draft EXCEPT !.step = draft.step - 1]
    BY <1>8 DEF Back
  <2>2. QED
    BY <1>1, <1>2, <1>3, <2>1, Edits, Rest DEF DraftOK
<1>9. CASE Exit \/ \E r \in {"home", "swap"} : Navigate(r)
  <2>1. draft' = None \/ UNCHANGED draft
    BY <1>9 DEF Exit, Navigate
  <2>2. QED
    BY <1>1, <1>2, <2>1, Rest DEF IInv, DraftOK
<1>10. QED
  BY <1>1, <1>2, <1>4, <1>5, <1>6, <1>7, <1>8, <1>9, Rest

(* Paying: what is broadcast has passed the check as it was read.           *)
LEMMA PayStep ==
  ASSUME IInv, NEW t \in Task,
         Submit(t) \/ CheckMemoDeposit(t) \/ Broadcast(t) \/ NameDeposit(t) \/ ShowReceipt(t)
  PROVE  IInv'
<1> USE DEF IInv
<1>1. CASE Submit(t)
  <2>1. Good(draft)
    BY <1>1 DEF Submit, At, DraftOK
  <2>2. TaskOK'
    BY <1>1, <2>1, NewJobs, TaskSteps DEF Submit
  <2>3. DraftOK' /\ UNCHANGED <<swap, journal, paid, scenario>>
    BY <1>1 DEF Submit, DraftOK, history, fixed
  <2>4. QED
    BY <2>2, <2>3, Rest
<1>2. CASE CheckMemoDeposit(t)
  <2>1. DraftOK' /\ UNCHANGED <<swap, journal, paid, scenario>>
    BY <1>2 DEF CheckMemoDeposit, DraftOK, history, fixed
  <2>2. CASE MemoCheck(task[t].draft) # "refuse" /\ Goes(t, "send")
    <3> DEFINE i == task[t]
               j == [i EXCEPT !.at = "send"]
    <3>1. IsPayment(i) /\ IsJob(i) /\ Good(i.draft)
      BY <1>2 DEF CheckMemoDeposit, TaskOK, GoodJob, Idle
    <3>2. IsPayment(j) /\ IsJob(j) /\ j.at = "send" /\ j.draft = i.draft
      <4> HIDE DEF i
      <4> QED BY <3>1, JobEdits
    <3>3. GoodJob(j)
      BY <2>2, <3>1, <3>2 DEF GoodJob
    <3>4. TaskOK'
      BY <2>2, <3>3 DEF TaskOK, Goes
    <3>5. QED
      BY <2>1, <3>4, Rest
  <2>3. CASE Ends(t)
    BY <2>1, <2>3, TaskSteps, Rest
  <2>4. QED
    BY <1>2, <2>2, <2>3 DEF CheckMemoDeposit
<1>3. CASE Broadcast(t)
  <2>1. IsPayment(task[t]) /\ Good(task[t].draft) /\ MemoCheck(task[t].draft) # "refuse"
    BY <1>3 DEF Broadcast, TaskOK, GoodJob, Idle
  <2>2. DraftOK' /\ UNCHANGED <<swap, journal, scenario>>
    BY <1>3 DEF Broadcast, DraftOK, fixed
  <2>3. CASE Ends(t) /\ UNCHANGED paid
    BY <2>2, <2>3, TaskSteps, Rest
  <2>4. ASSUME NEW d, d = task[t].draft, NEW p,
               p = [n |-> Cardinality(paid) + 1, draft |-> d.id, to |-> d.to, amount |-> d.amount,
                    memo |-> IF MemoCheck(d) = "memo" THEN d.ctx ELSE None],
               paid' = paid \cup {p}, task' = [task EXCEPT ![t].pay = p, ![t].at = "name"]
        PROVE  IInv'
    <3>1. p.to = "vault" => p.memo \in Memo /\ p.amount = Quoted
      BY <2>1, <2>4 DEF Good, MemoCheck, Address
    <3>2. VaultPaidWithMemo'
      BY <2>4, <3>1 DEF VaultPaidWithMemo
    <3>3. TaskOK'
      <4> DEFINE j == [task[t] EXCEPT !.pay = p, !.at = "name"]
      <4>1. IsPayment(j) /\ j.at = "name" /\ j.draft = task[t].draft /\ j.pay = p
        BY <2>1 DEF IsPayment
      <4>2. GoodJob(j)
        <5>1. IsJob(j)
          BY <4>1 DEF IsJob
        <5>2. PaysDraft(j)
          BY <2>4, <4>1 DEF PaysDraft
        <5> HIDE DEF j
        <5> QED BY <2>1, <4>1, <5>1, <5>2 DEF GoodJob
      <4>3. task' = [task EXCEPT ![t] = j]
        BY <2>4
      <4>4. QED
        BY <4>2, <4>3 DEF TaskOK
    <3>4. QED
      BY <2>2, <3>2, <3>3 DEF SwapOK, JournalOK, DepositOf, TxidIsDeposit
  <2>5. QED
    BY <1>3, <2>3, <2>4 DEF Broadcast
<1>4. CASE NameDeposit(t)
  <2>1. DraftOK' /\ UNCHANGED <<paid, scenario>>
    BY <1>4 DEF NameDeposit, DraftOK, history, fixed
  <2>2. TaskOK'
    BY <1>4, TaskSteps DEF NameDeposit, Idle
  <2>3. SwapOK'
    <3>1. UNCHANGED swap \/ (swap # None /\ swap' = [swap EXCEPT !.txid = task[t].pay])
      BY <1>4 DEF NameDeposit
    <3>2. QED
      BY <3>1 DEF SwapOK
  <2>4. task[t].draft.ctx # None /\ task[t].draft.to = Address(task[t].draft.ctx)
        => DepositOf(task[t].pay, task[t].draft.ctx)
    <3>1. MemoCheck(task[t].draft) # "refuse" /\ PaysDraft(task[t])
      BY <1>4 DEF NameDeposit, TaskOK, GoodJob, Idle
    <3>2. QED
      BY <3>1 DEF DepositOf, PaysDraft, MemoCheck
  <2>5. JournalOK'
    BY <1>4, <2>4 DEF NameDeposit, IsDeposit, JournalOK, DepositOf
  <2>6. TxidIsDeposit'
    <3>1. CASE UNCHANGED swap
      BY <3>1 DEF TxidIsDeposit
    <3>2. CASE /\ swap # None /\ swap.id = task[t].draft.ctx
               /\ task[t].draft.ctx # None /\ task[t].draft.to = Address(task[t].draft.ctx)
               /\ swap' = [swap EXCEPT !.txid = task[t].pay]
      <4>1. swap'.id = swap.id /\ swap'.txid = task[t].pay
        BY <3>2 DEF SwapOK
      <4>2. QED
        BY <2>4, <3>2, <4>1 DEF TxidIsDeposit, DepositOf
    <3>3. QED
      BY <1>4, <3>1, <3>2 DEF NameDeposit, IsDeposit
  <2>7. QED
    BY <2>1, <2>2, <2>3, <2>5, <2>6 DEF VaultPaidWithMemo
<1>5. CASE ShowReceipt(t)
  <2>1. DraftOK'
    BY <1>5, Edits DEF ShowReceipt, DraftOK
  <2>2. TaskOK' /\ UNCHANGED <<swap, journal, paid, scenario>>
    BY <1>5, TaskSteps DEF ShowReceipt, history, fixed
  <2>3. QED
    BY <2>1, <2>2, Rest
<1>6. QED
  BY <1>1, <1>2, <1>3, <1>4, <1>5

(* The Grin exchange.                                                       *)
LEMMA GrinStep ==
  ASSUME IInv, NEW t \in Task,
         \/ StartBuild(t) \/ Built(t) \/ StartFinalize(t) \/ Finalized(t)
         \/ StartCancel(t) \/ ClearCancelled(t) \/ Cancelled(t)
  PROVE  IInv'
<1> USE DEF IInv
<1>1. UNCHANGED <<swap, journal, paid, scenario>>
  BY DEF StartBuild, Built, StartFinalize, Finalized, StartCancel, ClearCancelled, Cancelled,
         history, fixed
<1>2. DraftOK'
  <2>1. \/ UNCHANGED draft \/ draft' = None
        \/ draft # None /\ \E s : draft' = [draft EXCEPT !.slate = s]
    <3>1. CASE Built(t)
      BY <3>1 DEF Built
    <3>2. CASE ~Built(t)
      BY <3>2 DEF StartBuild, StartFinalize, Finalized, StartCancel, ClearCancelled, Cancelled
    <3>3. QED
      BY <3>1, <3>2
  <2>2. ASSUME draft # None, NEW s, draft' = [draft EXCEPT !.slate = s] PROVE DraftOK'
    <3>1. Good(draft)
      BY <2>2 DEF DraftOK
    <3>2. QED
      BY <2>2, <3>1, Edits DEF DraftOK
  <2>3. QED
    BY <2>1, <2>2 DEF DraftOK
<1>3. CASE StartBuild(t) \/ StartFinalize(t) \/ StartCancel(t)
  <2>1. Good(draft)
    BY <1>3 DEF StartBuild, StartFinalize, StartCancel, At, DraftOK
  <2>2. TaskOK'
    BY <1>3, <2>1, NewJobs, TaskSteps DEF StartBuild, StartFinalize, StartCancel
  <2>3. QED
    BY <1>1, <1>2, <2>2, Rest
<1>4. CASE Built(t)
  BY <1>1, <1>2, <1>4, TaskSteps, Rest DEF Built
<1>5. CASE Finalized(t) \/ ClearCancelled(t)
  <2>1. task[t] # Idle /\ (Goes(t, "receipt") \/ Goes(t, "exit") \/ Ends(t))
    BY <1>5 DEF Finalized, ClearCancelled, Idle
  <2>2. QED
    BY <1>1, <1>2, <2>1, TaskSteps, Rest
<1>6. CASE Cancelled(t)
  BY <1>1, <1>2, <1>6, TaskSteps, Rest DEF Cancelled
<1>7. QED
  BY <1>3, <1>4, <1>5, <1>6

(* A hand-off writes the draft made for the trade that asked.               *)
LEMMA HandoffStep ==
  ASSUME Constants, IInv, NEW t \in Task, AskHandoff(t) \/ WriteHandoff(t) \/ ToStatus(t)
  PROVE  IInv'
<1> USE DEF IInv
<1>1. CASE AskHandoff(t)
  <2>1. DraftOK' /\ UNCHANGED <<swap, journal, paid, scenario>>
    BY <1>1 DEF AskHandoff, DraftOK, history, fixed
  <2>2. CASE swap # None /\ Begins(t, [at |-> "handoff", asked |-> InProgress, swap |-> swap.id,
                                       draft |-> DepositDraft(drafts + 1), live |-> FALSE])
    <3>1. Good(DepositDraft(drafts + 1))
      BY <2>2, NewDrafts
    <3>2. TaskOK'
      BY <2>2, <3>1, NewJobs, TaskSteps
    <3>3. QED
      BY <2>1, <3>2, Rest
  <2>3. CASE Begins(t, [at |-> "handoff", asked |-> InProgress, swap |-> None,
                        draft |-> PayLinkDraft(drafts + 1), live |-> FALSE])
    <3>1. Good(PayLinkDraft(drafts + 1))
      BY NewDrafts
    <3>2. TaskOK'
      BY <2>3, <3>1, NewJobs, TaskSteps
    <3>3. QED
      BY <2>1, <3>2, Rest
  <2>4. QED
    BY <1>1, <2>2, <2>3 DEF AskHandoff
<1>2. CASE WriteHandoff(t)
  <2> DEFINE i == task[t]
             j == [i EXCEPT !.at = "status"]
  <2>1. IsJob(i) /\ Good(i.draft)
    BY <1>2 DEF WriteHandoff, TaskOK, GoodJob, Idle
  <2>2. DraftOK' /\ UNCHANGED <<swap, journal, paid, scenario>>
    BY <1>2, <2>1 DEF WriteHandoff, DraftOK, history, fixed
  <2>3. CASE task' = [Unmounted EXCEPT ![t] = j]
    <3>1. IsJob(j) /\ j.at = "status" /\ j.draft = i.draft
      <4> HIDE DEF i
      <4> QED BY <2>1, JobEdits
    <3>2. GoodJob(j)
      BY <2>1, <3>1 DEF GoodJob
    <3>3. TaskOK'
      BY <2>3, <3>2, Leaving DEF TaskOK
    <3>4. QED
      BY <2>2, <3>3, Rest
  <2>4. CASE Ends(t) \/ task' = [Unmounted EXCEPT ![t] = Idle]
    BY <2>2, <2>4, TaskSteps, Rest
  <2>5. QED
    BY <1>2, <2>3, <2>4 DEF WriteHandoff
<1>3. CASE ToStatus(t)
  <2>1. DraftOK' /\ TaskOK' /\ UNCHANGED <<journal, paid, scenario>>
    BY <1>3, TaskSteps DEF ToStatus, DraftOK, history, fixed
  <2>2. SwapOK' /\ TxidIsDeposit'
    <3>1. swap' = None \/ (swap # None /\ swap' = [swap EXCEPT !.step = 3])
      BY <1>3 DEF ToStatus
    <3>2. QED
      BY <3>1 DEF SwapOK, TxidIsDeposit
  <2>3. QED
    BY <2>1, <2>2 DEF VaultPaidWithMemo, JournalOK, DepositOf
<1>4. QED
  BY <1>1, <1>2, <1>3

(* The swap by itself, and the window.                                      *)
LEMMA SwapStep ==
  ASSUME Constants, IInv,
         \/ \E s \in scenario.swaps : ConfirmSwap(s)
         \/ Continue \/ CloseSwap \/ Poll \/ Reopen
  PROVE  IInv'
<1> USE DEF IInv
<1>1. UNCHANGED <<journal, paid, scenario>>
  BY DEF ConfirmSwap, Continue, CloseSwap, Poll, Reopen, history, fixed
<1>2. DraftOK'
  BY DEF ConfirmSwap, Continue, CloseSwap, Poll, Reopen, DraftOK
<1>3. TaskOK'
  <2>1. UNCHANGED task \/ task' = [t \in Task |-> Idle]
    BY DEF ConfirmSwap, Continue, CloseSwap, Poll, Reopen
  <2>2. QED
    BY <2>1 DEF TaskOK, GoodJob
<1>4. SwapOK' /\ TxidIsDeposit'
  <2>1. ASSUME NEW s \in scenario.swaps, ConfirmSwap(s) PROVE SwapOK' /\ TxidIsDeposit'
    BY <2>1 DEF ConfirmSwap, Constants, SwapOK, TxidIsDeposit
  <2>2. CASE UNCHANGED swap \/ swap' = None
    BY <2>2 DEF SwapOK, TxidIsDeposit
  <2>3. CASE swap # None /\ swap' = [swap EXCEPT !.step = 3]
    BY <2>3 DEF SwapOK, TxidIsDeposit
  <2>4. CASE Poll
    <3>1. PICK e \in journal : e.swap = swap.id /\ swap' = [swap EXCEPT !.txid = e.pay]
      BY <2>4 DEF Poll
    <3>2. SwapOK' /\ swap'.id = swap.id /\ swap'.txid = e.pay
      BY <2>4, <3>1 DEF Poll, SwapOK
    <3>3. QED
      BY <3>1, <3>2 DEF JournalOK, DepositOf, TxidIsDeposit
  <2>5. QED
    BY <2>1, <2>2, <2>3, <2>4 DEF Continue, CloseSwap, Reopen
<1>5. QED
  BY <1>1, <1>2, <1>3, <1>4 DEF VaultPaidWithMemo, JournalOK, DepositOf

LEMMA NextIInv ==
  ASSUME Constants
  PROVE  IInv /\ [Next]_vars => IInv'
<1> SUFFICES ASSUME IInv, [Next]_vars PROVE IInv'
  OBVIOUS
<1>1. CASE UNCHANGED vars
  BY <1>1 DEF vars, IInv, DraftOK, TaskOK, SwapOK, JournalOK, DepositOf, VaultPaidWithMemo, TxidIsDeposit
<1>2. CASE Next
  BY <1>2, WizardStep, PayStep, GrinStep, HandoffStep, SwapStep DEF Next
<1>3. QED
  BY <1>1, <1>2

(* No payment reaches the vault but a quoted deposit with the memo of its   *)
(* trade, whatever is typed, left, opened or handed over meanwhile; for any *)
(* handlers, trades and scenarios.                                          *)
THEOREM VaultNeedsMemo ==
  ASSUME None # "vault", \A sc \in Scenario : "vault" \notin sc.swaps
  PROVE  Spec => []VaultPaidWithMemo
<1>1. Init => IInv
  BY InitIInv
<1>2. IInv /\ [Next]_vars => IInv'
  BY NextIInv DEF Constants
<1>3. IInv => VaultPaidWithMemo
  BY DEF IInv
<1>4. QED
  BY <1>1, <1>2, <1>3, PTL DEF Spec

(* A swap on record is followed by a payment to its own deposit address,    *)
(* THORChain's with its own memo, although the send that names it, and the  *)
(* journal, answer when another swap may have taken its place.              *)
THEOREM TxidNamesDeposit ==
  ASSUME None # "vault", \A sc \in Scenario : "vault" \notin sc.swaps
  PROVE  Spec => []TxidIsDeposit
<1>1. Init => IInv
  BY InitIInv
<1>2. IInv /\ [Next]_vars => IInv'
  BY NextIInv DEF Constants
<1>3. IInv => TxidIsDeposit
  BY DEF IInv
<1>4. QED
  BY <1>1, <1>2, <1>3, PTL DEF Spec

-------------------------------------------------------------------------------
(* The Grin exchange, where no screen is left whose handler is under way.    *)

(* Nothing is neither a coin, a slate nor a draft. *)
Nothing ==
  /\ None \notin {"coin", "grin"}
  /\ \A n, to, a, st : None # [n |-> n, to |-> to, amount |-> a, stray |-> st]
  /\ \A d : IsDraft(d) => None # d

(* A rebuild is no handler in this sense: it outlives the cancel.            *)
Handler == Paying \union {"build", "finalize", "cancel", "exit"}

(* A handler is on its screen still, with the draft it was started for, less *)
(* what a cancel has cleared.                                                *)
OnScreen(j) ==
  /\ j.live /\ route = "send" /\ draft # None /\ draft.step = 3
  /\ j.at # "exit" => j.draft = draft
  /\ j.at \in {"check", "send", "name"} => draft.kind = "coin"
  /\ j.at \in {"build", "finalize", "cancel", "exit"} => draft.kind = "grin"
  /\ j.at \in {"build", "exit"} => draft.slate = None
  /\ j.at \in {"finalize", "cancel"} => draft.slate # None
  /\ j.at = "receipt" => waiting = {} /\ (draft.kind = "coin" \/ draft.slate # None)

Handlers ==
  /\ \A t \in Task : task[t].at \in Handler => OnScreen(task[t])
  /\ \A t, u \in Task : task[t].at \in Handler /\ task[u].at \in Handler => t = u

StepOf(d) == d.step \in 0..ReceiptStep
Steps ==
  /\ draft # None => StepOf(draft)
  /\ \A t \in Task : task[t].at = "handoff" => StepOf(task[t].draft)

(* What waits is the exchange Send is open on. *)
Waits ==
  \A s \in waiting :
    s # None /\ draft # None /\ draft.slate = s /\ draft.kind = "grin" /\ draft.step < ReceiptStep

NoStray == \A s \in slates : ~s.stray

KeptInv == ~scenario.leaves /\ NoStray => Handlers /\ Steps /\ Waits

(* Where the user may leave, or is not on a handler's screen, none runs. *)
LEMMA NoHandler ==
  ASSUME Handlers,
         (~scenario.leaves /\ MayLeave) \/ route # "send" \/ draft = None \/ draft.step # 3
  PROVE  \A t \in Task : task[t].at \notin Handler
<1>1. SUFFICES ASSUME NEW t \in Task, task[t].at \in Handler PROVE FALSE
  OBVIOUS
<1>2. OnScreen(task[t])
  BY <1>1 DEF Handlers
<1>3. task[t].at \in Paying \cup Building \cup {"finalize", "cancel", "exit"}
  BY <1>1 DEF Handler, Building
<1>4. Busy
  BY <1>2, <1>3 DEF Busy, Running, OnScreen
<1>5. QED
  BY <1>2, <1>4 DEF OnScreen, MayLeave

LEMMA LeftAt ==
  ASSUME TaskOK
  PROVE  \A t \in Task : Unmounted[t].at = task[t].at /\ Unmounted[t].draft = task[t].draft
<1>1. ASSUME NEW t \in Task, task[t] # Idle
      PROVE  LET left == [task[t] EXCEPT !.live = FALSE]
             IN  left.at = task[t].at /\ left.draft = task[t].draft
  BY <1>1, JobEdits DEF TaskOK, GoodJob
<1>2. QED
  BY <1>1 DEF Unmounted

(* With no handler running, a step that starts none. *)
LEMMA NoneStarts ==
  ASSUME TaskOK, \A t \in Task : task[t].at \notin Handler,
         \/ UNCHANGED task \/ task' = Unmounted
         \/ \E t \in Task : \E k : /\ k.at \notin Handler
                                   /\ task' = [task EXCEPT ![t] = k] \/ task' = [Unmounted EXCEPT ![t] = k]
  PROVE  Handlers'
<1>1. \A t \in Task : Unmounted[t].at = task[t].at /\ Unmounted = [u \in Task |-> Unmounted[u]]
  BY LeftAt DEF Unmounted
<1>2. \A t \in Task : task'[t].at \notin Handler
  BY <1>1 DEF TaskOK
<1>3. QED
  BY <1>2 DEF Handlers

LEMMA NothingWaits ==
  ASSUME Waits, Steps,
         \/ draft = None \/ ShowsReceipt \/ draft.slate = None \/ draft.kind # "grin"
         \/ ~(draft.step < ReceiptStep)
  PROVE  waiting = {}
<1>1. draft # None => draft.step \in 0..4
  BY DEF Steps, StepOf, ReceiptStep
<1>2. QED
  BY <1>1 DEF Waits, ShowsReceipt, ReceiptStep

LEMMA WaitsOn ==
  ASSUME Waits, waiting' \subseteq waiting,
         waiting # {} => /\ draft' # None /\ draft'.slate = draft.slate
                         /\ draft'.kind = "grin" /\ draft'.step < ReceiptStep
  PROVE  Waits'
BY DEF Waits, ReceiptStep

LEMMA WizardKept ==
  ASSUME Nothing, ~scenario.leaves, IInv, Handlers, Steps, Waits,
         \/ \E k \in scenario.kinds \cup {None} : OpenSend(k)
         \/ \E k \in scenario.kinds : PickAsset(k)
         \/ \E to \in {"friend", "vault"} \cup Swap : EnterAddress(to)
         \/ \E a \in Amount : Compose(a)
         \/ Back \/ Exit \/ \E r \in {"home", "swap"} : Navigate(r)
  PROVE  Handlers' /\ Steps' /\ Waits'
<1>1. TaskOK /\ (draft # None => IsDraft(draft) /\ StepOf(draft))
  BY DEF IInv, DraftOK, Good, Steps
<1>2. UNCHANGED task \/ task' = Unmounted
  BY DEF OpenSend, PickAsset, EnterAddress, Compose, Back, Exit, Navigate
<1>3. \A t \in Task : task[t].at \notin Handler
  <2>1. \/ MayLeave \/ route # "send" \/ draft.step \in 0..2
    <3>1. \A k : OpenSend(k) => route # "send"
      BY DEF OpenSend
    <3>2. ASSUME NEW k, PickAsset(k) \/ EnterAddress(k) \/ Compose(k)
          PROVE  draft.step \in 0..2
      <4>1. At(None, 0) \/ At(None, 1) \/ At(None, 2)
        BY <3>2 DEF PickAsset, EnterAddress, Compose
      <4>2. QED
        BY <4>1 DEF At
    <3>3. Back \/ Exit \/ (\E r \in {"home", "swap"} : Navigate(r)) => MayLeave
      BY DEF Back, Exit, Navigate
    <3>4. QED
      BY <3>1, <3>2, <3>3
  <2>2. QED
    BY <2>1, NoHandler
<1>4. Handlers'
  BY <1>1, <1>2, <1>3, NoneStarts
<1>5. (draft' # None => StepOf(draft')) => Steps'
  <2>1. \A t \in Task : task'[t].at = task[t].at /\ task'[t].draft = task[t].draft
    BY <1>1, <1>2, LeftAt
  <2>2. QED
    BY <2>1 DEF Steps, StepOf
<1>6. ASSUME NEW k \in scenario.kinds \cup {None}, OpenSend(k)
      PROVE  StepOf(draft') /\ Waits'
  <2> DEFINE fresh == draft = None \/ ShowsReceipt
             d == IF fresh THEN Fresh(drafts + 1) ELSE draft
             picked == [d EXCEPT !.kind = k, !.step = 1, !.ctx = IF d.kind = k THEN d.ctx ELSE None]
  <2>1. IsDraft(d) /\ StepOf(d) /\ UNCHANGED waiting
    <3>1. CASE fresh
      <4>1. d = Fresh(drafts + 1) /\ UNCHANGED waiting
        BY <1>6, <3>1 DEF OpenSend, history
      <4>2. IsDraft(Fresh(drafts + 1)) /\ Fresh(drafts + 1).step = 0
        BY DEF Fresh, IsDraft, DraftFields
      <4>3. QED
        BY <4>1, <4>2 DEF StepOf, ReceiptStep
    <3>2. CASE ~fresh
      BY <1>1, <1>6, <3>2 DEF OpenSend, history
    <3>3. QED
      BY <3>1, <3>2
  <2>2. draft' = d \/ (d.slate = None /\ draft' = picked)
    BY <1>6 DEF OpenSend
  <2>3. fresh => waiting = {}
    BY NothingWaits
  <2>4. CASE draft' = d
    BY <2>1, <2>3, <2>4, WaitsOn DEF Waits
  <2>5. CASE d.slate = None /\ draft' = picked
    <3>1. picked.step = 1
      BY <2>1 DEF IsDraft, DraftFields
    <3>2. waiting = {}
      BY <2>3, <2>5, NothingWaits
    <3>3. QED
      BY <2>1, <2>5, <3>1, <3>2 DEF StepOf, ReceiptStep, Waits
  <2>6. QED
    BY <2>2, <2>4, <2>5
<1>7. ASSUME NEW k \in scenario.kinds, PickAsset(k)
      PROVE  StepOf(draft') /\ Waits'
  <2>1. /\ draft # None /\ draft' = [draft EXCEPT !.kind = k, !.step = 1]
        /\ waiting' = IF k = "grin" THEN waiting ELSE waiting \ {draft.slate}
    BY <1>7 DEF PickAsset, At
  <2>2. IsDraft(draft') /\ draft'.step = 1 /\ draft'.slate = draft.slate /\ draft'.kind = k
    BY <1>1, <2>1 DEF IsDraft, DraftFields
  <2>3. k # "grin" => waiting' = {}
    BY <2>1 DEF Waits
  <2>4. QED
    BY <2>1, <2>2, <2>3, WaitsOn DEF Nothing, StepOf, ReceiptStep, Waits
<1>8. ASSUME draft # None, draft.step \in 0..3, IsDraft(draft'), draft'.step \in 0..3,
             draft'.slate = draft.slate, draft'.kind = draft.kind, UNCHANGED waiting
      PROVE  StepOf(draft') /\ Waits'
  <2>1. waiting # {} => draft.kind = "grin"
    BY <1>8 DEF Waits
  <2>2. QED
    BY <1>8, <2>1, WaitsOn DEF Nothing, StepOf, ReceiptStep
<1>9. ASSUME \/ \E to \in {"friend", "vault"} \cup Swap : EnterAddress(to)
             \/ \E a \in Amount : Compose(a)
             \/ Back
      PROVE  StepOf(draft') /\ Waits'
  <2>1. ASSUME NEW to, EnterAddress(to) PROVE StepOf(draft') /\ Waits'
    <3>1. draft # None /\ draft.step = 1 /\ UNCHANGED waiting
          /\ draft' = [draft EXCEPT !.to = to, !.step = 2]
      BY <2>1 DEF EnterAddress, At, history
    <3>2. IsDraft(draft)
      BY <1>1, <3>1
    <3>3. IsDraft(draft')
      BY <3>1, <3>2 DEF IsDraft, DraftFields
    <3>4. draft'.step = 2 /\ draft'.slate = draft.slate /\ draft'.kind = draft.kind
      BY <3>1, <3>2 DEF IsDraft, DraftFields
    <3>5. draft'.step \in 0..3 /\ draft.step \in 0..3
      BY <3>1, <3>4
    <3>6. QED
      BY <1>8, <3>1, <3>3, <3>4, <3>5
  <2>2. ASSUME NEW a, Compose(a) PROVE StepOf(draft') /\ Waits'
    <3>1. draft # None /\ draft.step = 2 /\ UNCHANGED waiting
          /\ draft' = [draft EXCEPT !.amount = a, !.step = 3]
      BY <2>2 DEF Compose, At, history
    <3>2. IsDraft(draft)
      BY <1>1, <3>1
    <3>3. IsDraft(draft')
      BY <3>1, <3>2 DEF IsDraft, DraftFields
    <3>4. draft'.step = 3 /\ draft'.slate = draft.slate /\ draft'.kind = draft.kind
      BY <3>1, <3>2 DEF IsDraft, DraftFields
    <3>5. draft'.step \in 0..3 /\ draft.step \in 0..3
      BY <3>1, <3>4
    <3>6. QED
      BY <1>8, <3>1, <3>3, <3>4, <3>5
  <2>3. ASSUME Back PROVE StepOf(draft') /\ Waits'
    <3>1. draft # None /\ draft.step \in 1..3 /\ UNCHANGED waiting
          /\ draft' = [draft EXCEPT !.step = draft.step - 1]
      BY <2>3 DEF Back, history
    <3>2. IsDraft(draft') /\ draft'.step \in 0..3 /\ draft'.slate = draft.slate
          /\ draft'.kind = draft.kind
      BY <1>1, <3>1 DEF IsDraft, DraftFields
    <3>3. QED
      BY <1>8, <3>1, <3>2
  <2>4. QED
    BY <1>9, <2>1, <2>2, <2>3
<1>10. CASE Exit
  BY <1>4, <1>5, <1>10 DEF Exit, Waits
<1>11. CASE \E r \in {"home", "swap"} : Navigate(r)
  BY <1>1, <1>4, <1>5, <1>11, WaitsOn DEF Navigate, history, Waits
<1>12. QED
  BY <1>4, <1>5, <1>6, <1>7, <1>9, <1>10, <1>11

(* A handler under way is the only one, and a step of it leaves it so. *)
Alone(t) == \A u \in Task : u # t => task[u].at \notin Handler

LEMMA HandlerAlone ==
  ASSUME Handlers, NEW t \in Task, task[t].at \in Handler
  PROVE  Alone(t) /\ OnScreen(task[t])
BY DEF Handlers, Alone

LEMMA AloneStep ==
  ASSUME TaskOK, NEW t \in Task, Alone(t), NEW k, task' = [task EXCEPT ![t] = k],
         k.at \in Handler => OnScreen(task[t])'
  PROVE  Handlers'
<1>1. task'[t] = k /\ \A u \in Task : u # t => task'[u].at \notin Handler
  BY DEF TaskOK, Alone
<1>2. QED
  BY <1>1 DEF Handlers

LEMMA AloneEnds ==
  ASSUME TaskOK, NEW t \in Task, Alone(t), Ends(t)
  PROVE  Handlers'
<1>1. Idle.at \notin Handler
  BY DEF Idle, Handler, Paying
<1>2. QED
  BY <1>1, AloneStep DEF Ends

(* A new handler starts alone. *)
LEMMA Starts ==
  ASSUME Nothing, ~scenario.leaves, Handlers, NEW t \in Task,
         \/ Submit(t) \/ StartFinalize(t) \/ StartCancel(t)
         \/ StartBuild(t) /\ ~Running({"exit"})
  PROVE  \A u \in Task : task[u].at \notin Handler
<1>1. SUFFICES ASSUME NEW u \in Task, task[u].at \in Handler PROVE FALSE
  OBVIOUS
<1>2. OnScreen(task[u]) /\ task[u].live
  BY <1>1 DEF Handlers, OnScreen
<1>3. \A ats : ~Running(ats) => task[u].at \notin ats
  BY <1>2 DEF Running
<1>4. CASE Submit(t)
  <2>1. draft.kind = "coin" /\ task[u].at \notin Paying
    BY <1>3, <1>4 DEF Submit, At, Nothing
  <2>2. QED
    BY <1>1, <1>2, <2>1 DEF OnScreen, Handler
<1>5. CASE StartBuild(t) /\ ~Running({"exit"})
  <2>1. draft.kind = "grin" /\ draft.slate = None /\ task[u].at \notin {"build", "exit"}
    BY <1>3, <1>5 DEF StartBuild, At, Nothing, Building, Running
  <2>2. QED
    BY <1>1, <1>2, <2>1 DEF OnScreen, Handler, Paying
<1>6. CASE StartFinalize(t) \/ StartCancel(t)
  BY <1>1, <1>6, NoHandler DEF StartFinalize, StartCancel
<1>7. QED
  BY <1>4, <1>5, <1>6

(* The jobs' steps keep to the handed-off drafts. *)
LEMMA StepsKept ==
  ASSUME TaskOK, Steps, NEW t \in Task, NEW k, task' = [task EXCEPT ![t] = k],
         k.at = "handoff" => StepOf(k.draft),
         draft' # None => StepOf(draft')
  PROVE  Steps'
<1>1. \A u \in Task : task'[u] = IF u = t THEN k ELSE task[u]
  BY DEF TaskOK
<1>2. QED
  BY <1>1 DEF Steps, StepOf

LEMMA PayKept ==
  ASSUME Nothing, ~scenario.leaves, IInv, Handlers, Steps, Waits,
         NEW t \in Task,
         Submit(t) \/ CheckMemoDeposit(t) \/ Broadcast(t) \/ NameDeposit(t) \/ ShowReceipt(t)
  PROVE  Handlers' /\ Steps' /\ Waits'
<1>1. TaskOK /\ (draft # None => IsDraft(draft) /\ StepOf(draft))
  BY DEF IInv, DraftOK, Good, Steps
<1>2. CASE Submit(t)
  <2> DEFINE k == [at |-> "check", draft |-> draft, pay |-> None, live |-> TRUE]
  <2>1. /\ route = "send" /\ draft # None /\ draft.step = 3 /\ draft.kind = "coin"
        /\ task' = [task EXCEPT ![t] = k] /\ UNCHANGED <<draft, route, waiting>>
    BY <1>2 DEF Submit, At, Begins, history, Nothing
  <2>2. Alone(t)
    BY <1>2, Starts DEF Alone
  <2>3. waiting = {}
    BY <2>1, NothingWaits
  <2>4. task'[t] = k
    BY <1>1, <2>1 DEF TaskOK
  <2>5. OnScreen(task[t])'
    BY <2>1, <2>4 DEF OnScreen
  <2>6. Handlers'
    BY <1>1, <2>1, <2>2, <2>5, AloneStep
  <2>7. Steps'
    BY <1>1, <2>1, StepsKept DEF Steps, StepOf
  <2>8. QED
    BY <2>1, <2>3, <2>6, <2>7 DEF Waits
<1>3. CASE ShowReceipt(t)
  <2>1. Alone(t) /\ OnScreen(task[t]) /\ task[t].at = "receipt"
    BY <1>3, HandlerAlone DEF ShowReceipt, Handler, Paying
  <2>2. waiting = {} /\ UNCHANGED waiting
    BY <1>3, <2>1 DEF OnScreen, ShowReceipt, history
  <2>3. draft' = [draft EXCEPT !.step = ReceiptStep] /\ draft # None
    BY <1>3, <2>1 DEF ShowReceipt, OnScreen
  <2>4. StepOf(draft')
    BY <1>1, <2>3 DEF IsDraft, DraftFields, StepOf, ReceiptStep
  <2>5. Ends(t) /\ Idle.at # "handoff"
    BY <1>3 DEF ShowReceipt, Idle
  <2>6. Steps'
    BY <1>1, <2>4, <2>5, StepsKept DEF Ends
  <2>7. QED
    BY <1>1, <2>1, <2>2, <2>5, <2>6, AloneEnds DEF Waits
<1>4. ASSUME NEW k, task' = [task EXCEPT ![t] = k], task[t].at \in {"check", "send", "name"},
             UNCHANGED <<draft, route, waiting>>,
             \/ k = Idle
             \/ k.at \in {"send", "name", "receipt"} /\ k.live = task[t].live /\ k.draft = task[t].draft
      PROVE  Handlers' /\ Steps' /\ Waits'
  <2>1. Alone(t) /\ OnScreen(task[t])
    BY <1>4, HandlerAlone DEF Handler, Paying
  <2>2. waiting = {} /\ draft.kind = "coin"
    BY <1>4, <2>1, NothingWaits DEF OnScreen
  <2>3. k.at \in Handler => OnScreen(task[t])'
    <3>1. task'[t] = k
      BY <1>1, <1>4 DEF TaskOK
    <3>2. k = Idle => k.at \notin Handler
      BY DEF Idle, Handler, Paying
    <3>3. CASE /\ k.at \in {"send", "name", "receipt"} /\ k.live = task[t].live
               /\ k.draft = task[t].draft
      BY <1>4, <2>1, <2>2, <3>1, <3>3 DEF OnScreen
    <3>4. QED
      BY <1>4, <3>2, <3>3
  <2>4. Handlers'
    BY <1>1, <1>4, <2>1, <2>3, AloneStep
  <2>5. Steps'
    BY <1>1, <1>4, StepsKept DEF Steps, StepOf, Idle
  <2>6. QED
    BY <1>4, <2>2, <2>4, <2>5 DEF Waits
<1>5. CASE CheckMemoDeposit(t)
  <2>1. IsJob(task[t]) /\ task[t].at = "check" /\ UNCHANGED <<draft, route, waiting>>
    BY <1>1, <1>5 DEF CheckMemoDeposit, TaskOK, GoodJob, Idle, history
  <2>2. CASE Goes(t, "send")
    <3> DEFINE k == [task[t] EXCEPT !.at = "send"]
    <3>1. k.at = "send" /\ k.live = task[t].live /\ k.draft = task[t].draft
      BY <2>1, JobEdits
    <3>2. task' = [task EXCEPT ![t] = k]
      BY <2>2 DEF Goes
    <3> HIDE DEF k
    <3>3. QED
      BY <1>4, <2>1, <3>1, <3>2
  <2>3. CASE Ends(t)
    BY <1>4, <2>1, <2>3 DEF Ends
  <2>4. QED
    BY <1>5, <2>2, <2>3 DEF CheckMemoDeposit
<1>6. CASE Broadcast(t)
  <2>1. IsPayment(task[t]) /\ task[t].at = "send" /\ UNCHANGED <<draft, route, waiting>>
    BY <1>1, <1>6 DEF Broadcast, TaskOK, GoodJob, Idle
  <2>2. ASSUME NEW p, task' = [task EXCEPT ![t].pay = p, ![t].at = "name"]
        PROVE  Handlers' /\ Steps' /\ Waits'
    <3> DEFINE k == [task[t] EXCEPT !.pay = p, !.at = "name"]
    <3>1. k.at = "name" /\ k.live = task[t].live /\ k.draft = task[t].draft
      BY <2>1 DEF IsPayment
    <3>2. task' = [task EXCEPT ![t] = k]
      BY <2>2
    <3> HIDE DEF k
    <3>3. QED
      BY <1>4, <2>1, <3>1, <3>2
  <2>3. CASE Ends(t)
    BY <1>4, <2>1, <2>3 DEF Ends
  <2>4. QED
    BY <1>6, <2>2, <2>3 DEF Broadcast
<1>7. CASE NameDeposit(t)
  <2>1. IsJob(task[t]) /\ task[t].at = "name" /\ UNCHANGED <<draft, route, waiting>>
    BY <1>1, <1>7 DEF NameDeposit, TaskOK, GoodJob, Idle, history
  <2> DEFINE k == [task[t] EXCEPT !.at = "receipt"]
  <2>2. k.at = "receipt" /\ k.live = task[t].live /\ k.draft = task[t].draft
    BY <2>1, JobEdits
  <2>3. task' = [task EXCEPT ![t] = k]
    BY <1>7 DEF NameDeposit, Goes
  <2> HIDE DEF k
  <2>4. QED
    BY <1>4, <2>1, <2>2, <2>3
<1>8. QED
  BY <1>2, <1>3, <1>5, <1>6, <1>7

(* A job that is no handler of the screen comes, goes on or goes. *)
LEMMA BesideHandlers ==
  ASSUME TaskOK, Handlers, NEW t \in Task, task[t].at \notin Handler,
         NEW k, k.at \notin Handler, task' = [task EXCEPT ![t] = k],
         UNCHANGED <<draft, route, waiting>>
  PROVE  Handlers'
<1>1. \A u \in Task : task'[u] = IF u = t THEN k ELSE task[u]
  BY DEF TaskOK
<1>2. QED
  BY <1>1 DEF Handlers, OnScreen

LEMMA GrinKept ==
  ASSUME Nothing, ~scenario.leaves, NoStray', IInv, Handlers, Steps, Waits, NEW t \in Task,
         \/ StartBuild(t) \/ Built(t) \/ StartFinalize(t) \/ Finalized(t)
         \/ StartCancel(t) \/ ClearCancelled(t) \/ Cancelled(t)
  PROVE  Handlers' /\ Steps' /\ Waits'
<1>1. TaskOK /\ (draft # None => IsDraft(draft) /\ StepOf(draft))
  BY DEF IInv, DraftOK, Good, Steps
<1>2. ASSUME NEW at \in {"build", "finalize", "cancel"},
             At("grin", 3), UNCHANGED <<draft, route, waiting>>,
             \/ StartBuild(t) /\ ~Running({"exit"})
             \/ StartFinalize(t) \/ StartCancel(t),
             at = "build" => draft.slate = None,
             at \in {"finalize", "cancel"} => draft.slate # None,
             Begins(t, [at |-> at, draft |-> draft, pay |-> None, live |-> TRUE])
      PROVE  Handlers' /\ Steps' /\ Waits'
  <2> DEFINE k == [at |-> at, draft |-> draft, pay |-> None, live |-> TRUE]
  <2>1. /\ route = "send" /\ draft # None /\ draft.step = 3 /\ draft.kind = "grin"
        /\ task' = [task EXCEPT ![t] = k]
    BY <1>2 DEF At, Begins, Nothing
  <2>2. Alone(t)
    BY <1>2, Starts DEF Alone
  <2>3. task'[t] = k
    BY <1>1, <2>1 DEF TaskOK
  <2>4. OnScreen(task[t])'
    BY <1>2, <2>1, <2>3 DEF OnScreen
  <2>5. Handlers'
    BY <1>1, <2>1, <2>2, <2>4, AloneStep
  <2>6. Steps'
    BY <1>1, <1>2, <2>1, StepsKept DEF Steps, StepOf
  <2>7. QED
    BY <1>2, <2>1, <2>5, <2>6, WaitsOn DEF Waits
<1>3. CASE StartBuild(t)
  <2>1. CASE Running({"exit"})
    <3> DEFINE k == [at |-> "rebuild", draft |-> draft, pay |-> None, live |-> TRUE]
    <3>1. task[t] = Idle /\ task' = [task EXCEPT ![t] = k] /\ UNCHANGED <<draft, route, waiting>>
      BY <1>3, <2>1 DEF StartBuild, Begins, history
    <3>2. task[t].at \notin Handler /\ k.at \notin Handler
      BY <3>1 DEF Idle, Handler, Paying
    <3>3. Handlers'
      BY <1>1, <3>1, <3>2, BesideHandlers
    <3>4. Steps'
      BY <1>1, <3>1, StepsKept DEF StepOf
    <3>5. QED
      BY <3>1, <3>3, <3>4 DEF Waits
  <2>2. CASE ~Running({"exit"})
    BY <1>2, <1>3, <2>2 DEF StartBuild, history
  <2>3. QED
    BY <2>1, <2>2
<1>4. CASE StartFinalize(t)
  BY <1>2, <1>4 DEF StartFinalize, history
<1>5. CASE StartCancel(t)
  BY <1>2, <1>5 DEF StartCancel, history
<1>6. CASE Built(t) /\ task[t].at = "build"
  <2>1. Alone(t) /\ OnScreen(task[t]) /\ task[t].at = "build"
    BY <1>6, HandlerAlone DEF Handler
  <2>2. /\ draft # None /\ draft.kind = "grin" /\ draft.step = 3 /\ waiting = {} /\ IsDraft(draft)
    BY <1>1, <2>1, NothingWaits DEF OnScreen
  <2>3. Handlers'
    BY <1>1, <1>6, <2>1, AloneEnds DEF Built
  <2>4. PICK d, sl : /\ d # None
                     /\ \/ /\ waiting' = {sl} /\ draft' = [draft EXCEPT !.slate = sl]
                           /\ sl = d
                        \/ UNCHANGED <<waiting, draft>>
    <3> DEFINE b == task[t].draft
               sl == [n |-> Cardinality(slates) + 1, to |-> b.to, amount |-> b.amount,
                      stray |-> task[t].at = "rebuild"]
    <3>1. sl # None
      BY DEF Nothing
    <3>2. \/ waiting' = {sl} /\ draft' = [draft EXCEPT !.slate = sl]
          \/ UNCHANGED <<waiting, draft>>
      BY <1>6, <2>2 DEF Built
    <3> HIDE DEF sl
    <3>3. QED
      BY <3>1, <3>2
  <2>5. CASE waiting' = {sl} /\ draft' = [draft EXCEPT !.slate = sl] /\ sl = d
    <3>1. IsDraft(draft') /\ draft'.slate = sl /\ draft'.kind = "grin" /\ draft'.step = 3
      BY <2>2, <2>5 DEF IsDraft, DraftFields
    <3>2. Waits'
      BY <2>4, <2>5, <3>1 DEF Waits, Nothing, ReceiptStep
    <3>3. Steps'
      <4>1. StepOf(draft') /\ Ends(t) /\ Idle.at # "handoff"
        BY <1>6, <3>1 DEF Built, Idle, StepOf, ReceiptStep
      <4>2. QED
        BY <1>1, <4>1, StepsKept DEF Ends
    <3>4. QED
      BY <2>3, <3>2, <3>3
  <2>6. CASE UNCHANGED <<waiting, draft>>
    <3>1. Steps'
      BY <1>1, <1>6, <2>6, StepsKept DEF Built, Ends, Idle, StepOf
    <3>2. QED
      BY <2>2, <2>3, <2>6, <3>1 DEF Waits
  <2>7. QED
    BY <2>4, <2>5, <2>6
<1>7. CASE Finalized(t)
  <2>1. Alone(t) /\ OnScreen(task[t]) /\ task[t].at = "finalize" /\ UNCHANGED <<draft, route>>
    BY <1>7, HandlerAlone DEF Finalized, Handler
  <2>2. CASE waiting' = waiting \ {task[t].draft.slate} /\ Goes(t, "receipt")
    <3> DEFINE k == [task[t] EXCEPT !.at = "receipt"]
    <3>1. waiting' = {}
      BY <2>1, <2>2 DEF OnScreen, Waits
    <3>2. k.at = "receipt" /\ k.live = task[t].live /\ k.draft = task[t].draft
      BY <1>1, <2>1, JobEdits DEF TaskOK, GoodJob, Idle
    <3>3. task' = [task EXCEPT ![t] = k] /\ task'[t] = k
      BY <1>1, <2>2 DEF Goes, TaskOK
    <3> HIDE DEF k
    <3>4. OnScreen(task[t])'
      BY <2>1, <3>1, <3>2, <3>3 DEF OnScreen
    <3>5. Handlers'
      BY <1>1, <2>1, <3>3, <3>4, AloneStep
    <3>6. Steps'
      BY <1>1, <2>1, <3>2, <3>3, StepsKept DEF StepOf
    <3>7. QED
      BY <3>1, <3>5, <3>6 DEF Waits
  <2>3. CASE Ends(t) /\ UNCHANGED waiting
    <3>1. Handlers'
      BY <1>1, <2>1, <2>3, AloneEnds
    <3>2. Steps'
      BY <1>1, <2>1, <2>3, StepsKept DEF Ends, Idle, StepOf
    <3>3. QED
      BY <2>1, <2>3, <3>1, <3>2 DEF Waits
  <2>4. QED
    BY <1>7, <2>2, <2>3 DEF Finalized
<1>8. CASE Built(t) /\ task[t].at = "rebuild"
  <2>1. UNCHANGED <<draft, waiting>>
    <3> DEFINE b == task[t].draft
               sl == [n |-> Cardinality(slates) + 1, to |-> b.to, amount |-> b.amount,
                      stray |-> task[t].at = "rebuild"]
    <3>1. sl.stray
      BY <1>8
    <3>2. slates' = slates \cup {sl} \/ UNCHANGED <<draft, waiting>>
      BY <1>8 DEF Built
    <3> HIDE DEF sl
    <3>3. QED
      BY <3>1, <3>2 DEF NoStray
  <2>2. Ends(t) /\ UNCHANGED route /\ task[t].at \notin Handler
    BY <1>8 DEF Built, Handler, Paying
  <2>3. Handlers'
    BY <1>1, <2>1, <2>2, BesideHandlers DEF Ends, Idle, Handler, Paying
  <2>4. Steps'
    BY <1>1, <2>1, <2>2, StepsKept DEF Ends, Idle, StepOf
  <2>5. QED
    BY <2>1, <2>3, <2>4 DEF Waits
<1>9. CASE ClearCancelled(t)
  <2> DEFINE k == [task[t] EXCEPT !.at = "exit"]
  <2>1. Alone(t) /\ OnScreen(task[t]) /\ task[t].at = "cancel" /\ UNCHANGED route
    BY <1>9, HandlerAlone DEF ClearCancelled, Handler
  <2>2. waiting' = {} /\ draft' = [draft EXCEPT !.slate = None]
    BY <1>9, <2>1 DEF ClearCancelled, OnScreen, Waits
  <2>3. /\ IsDraft(draft') /\ draft' # None /\ draft'.slate = None /\ draft'.step = 3
        /\ draft'.kind = "grin"
    BY <1>1, <2>1, <2>2 DEF OnScreen, IsDraft, DraftFields, Nothing
  <2>4. k.at = "exit" /\ k.live = task[t].live
    BY <1>1, <2>1, JobEdits DEF TaskOK, GoodJob, Idle
  <2>5. task' = [task EXCEPT ![t] = k] /\ task'[t] = k
    BY <1>1, <1>9 DEF ClearCancelled, Goes, TaskOK
  <2> HIDE DEF k
  <2>6. OnScreen(task[t])'
    BY <2>1, <2>3, <2>4, <2>5 DEF OnScreen
  <2>7. Handlers'
    BY <1>1, <2>1, <2>5, <2>6, AloneStep
  <2>8. Steps'
    <3>1. StepOf(draft')
      BY <2>3 DEF StepOf, ReceiptStep
    <3>2. QED
      BY <1>1, <2>4, <2>5, <3>1, StepsKept
  <2>9. QED
    BY <2>2, <2>7, <2>8 DEF Waits
<1>10. CASE Cancelled(t)
  <2>1. Alone(t) /\ OnScreen(task[t]) /\ task[t].at = "exit"
    BY <1>10, HandlerAlone DEF Cancelled, Handler
  <2>2. waiting' = {} /\ draft' = None
    BY <1>1, <1>10, <2>1, NothingWaits DEF Cancelled, OnScreen, history
  <2>3. task' = [Unmounted EXCEPT ![t] = Idle]
    BY <1>10 DEF Cancelled
  <2>4. \A u \in Task : task'[u].at = (IF u = t THEN "idle" ELSE task[u].at)
                        /\ (u # t => task'[u].draft = task[u].draft)
    BY <1>1, <2>3, LeftAt DEF Idle, Unmounted
  <2>5. Handlers'
    BY <2>1, <2>4 DEF Alone, Handlers, Handler, Paying
  <2>6. Steps'
    BY <2>2, <2>4 DEF Steps, StepOf
  <2>7. QED
    BY <2>2, <2>5, <2>6 DEF Waits
<1>11. QED
  BY <1>3, <1>4, <1>5, <1>6, <1>7, <1>8, <1>9, <1>10 DEF Built, Building

LEMMA HandoffKept ==
  ASSUME Nothing, ~scenario.leaves, IInv, Handlers, Steps, Waits, NEW t \in Task,
         AskHandoff(t) \/ WriteHandoff(t) \/ ToStatus(t)
  PROVE  Handlers' /\ Steps' /\ Waits'
<1>1. TaskOK /\ (draft # None => StepOf(draft))
  BY DEF IInv, Steps
<1>2. Idle.at \notin Handler /\ Idle.at # "handoff"
  BY DEF Idle, Handler, Paying
<1>3. CASE AskHandoff(t)
  <2>1. PICK k : /\ task[t] = Idle /\ task' = [task EXCEPT ![t] = k]
                 /\ k.at = "handoff" /\ k.draft.step \in {1, 2}
    <3> DEFINE job(q, sw, d) == [at |-> "handoff", asked |-> q, swap |-> sw, draft |-> d,
                                 live |-> FALSE]
    <3>1. DepositDraft(drafts + 1).step = 2 /\ PayLinkDraft(drafts + 1).step = 1
      BY DEF DepositDraft, PayLinkDraft, Fresh
    <3>2. \/ Begins(t, job(InProgress, swap.id, DepositDraft(drafts + 1)))
          \/ Begins(t, job(InProgress, None, PayLinkDraft(drafts + 1)))
      BY <1>3 DEF AskHandoff
    <3>3. CASE Begins(t, job(InProgress, swap.id, DepositDraft(drafts + 1)))
      <4> DEFINE k == job(InProgress, swap.id, DepositDraft(drafts + 1))
      <4>1. task[t] = Idle /\ task' = [task EXCEPT ![t] = k]
        BY <3>3 DEF Begins
      <4>2. k.at = "handoff" /\ k.draft.step \in {1, 2}
        BY <3>1
      <4> HIDE DEF k
      <4>3. QED
        BY <4>1, <4>2
    <3>4. CASE Begins(t, job(InProgress, None, PayLinkDraft(drafts + 1)))
      <4> DEFINE k == job(InProgress, None, PayLinkDraft(drafts + 1))
      <4>1. task[t] = Idle /\ task' = [task EXCEPT ![t] = k]
        BY <3>4 DEF Begins
      <4>2. k.at = "handoff" /\ k.draft.step \in {1, 2}
        BY <3>1
      <4> HIDE DEF k
      <4>3. QED
        BY <4>1, <4>2
    <3>5. QED
      BY <3>2, <3>3, <3>4
  <2>2. UNCHANGED <<draft, route, waiting>>
    BY <1>3 DEF AskHandoff, history
  <2>3. Handlers'
    BY <1>1, <1>2, <2>1, <2>2, BesideHandlers DEF Handler, Paying
  <2>4. Steps'
    <3>1. StepOf(k.draft) /\ (draft' # None => StepOf(draft'))
      BY <1>1, <2>1, <2>2 DEF StepOf, ReceiptStep
    <3>2. QED
      BY <1>1, <2>1, <3>1, StepsKept
  <2>5. QED
    BY <2>2, <2>3, <2>4 DEF Waits
<1>4. ASSUME Ends(t), task[t].at \in {"handoff", "status"}, UNCHANGED <<draft, route, waiting>>
      PROVE  Handlers' /\ Steps' /\ Waits'
  <2>1. Handlers'
    BY <1>1, <1>2, <1>4, BesideHandlers DEF Ends, Handler, Paying
  <2>2. Steps'
    BY <1>1, <1>2, <1>4, StepsKept DEF Ends, StepOf
  <2>3. QED
    BY <1>4, <2>1, <2>2 DEF Waits
<1>5. CASE WriteHandoff(t)
  <2>1. task[t].at = "handoff" /\ UNCHANGED waiting
    BY <1>5 DEF WriteHandoff, history
  <2>2. CASE Ends(t) /\ UNCHANGED <<draft, route>>
    BY <1>4, <2>1, <2>2
  <2>3. CASE ~ExchangeInFlight /\ MayLeave /\ draft' = task[t].draft
             /\ \E k : /\ k.at \in {"idle", "status"}
                       /\ task' = [Unmounted EXCEPT ![t] = k]
    <3>1. PICK k : k.at \in {"idle", "status"} /\ task' = [Unmounted EXCEPT ![t] = k]
      BY <2>3
    <3>2. Handlers'
      <4>1. \A u \in Task : task[u].at \notin Handler
        BY <2>3, NoHandler
      <4>2. k.at \notin Handler
        BY <3>1 DEF Handler, Paying
      <4>3. QED
        BY <1>1, <3>1, <4>1, <4>2, NoneStarts
    <3>3. waiting = {}
      <4>1. draft # None => draft.step \in 0..4
        BY <1>1 DEF StepOf, ReceiptStep
      <4>2. QED
        BY <2>3, <4>1 DEF Waits, ExchangeInFlight, ShowsReceipt, ReceiptStep
    <3>4. Steps'
      <4>1. \A u \in Task : task'[u].at = (IF u = t THEN k.at ELSE task[u].at)
                            /\ (u # t => task'[u].draft = task[u].draft)
        BY <1>1, <3>1, LeftAt DEF Unmounted
      <4>2. QED
        BY <2>1, <2>3, <3>1, <4>1 DEF Steps, StepOf
    <3>5. QED
      BY <2>1, <3>2, <3>3, <3>4 DEF Waits
  <2>4. CASE ~(Ends(t) /\ UNCHANGED <<draft, route>>)
    <3>1. ~ExchangeInFlight /\ MayLeave /\ draft' = task[t].draft
      BY <1>5, <2>4 DEF WriteHandoff
    <3>2. [task[t] EXCEPT !.at = "status"].at = "status"
      BY <1>1, <2>1, JobEdits DEF TaskOK, GoodJob, Idle
    <3>3. \/ task' = [Unmounted EXCEPT ![t] = Idle]
          \/ task' = [Unmounted EXCEPT ![t] = [task[t] EXCEPT !.at = "status"]]
      BY <1>5, <2>4 DEF WriteHandoff
    <3>4. \E k : k.at \in {"idle", "status"} /\ task' = [Unmounted EXCEPT ![t] = k]
      <4> DEFINE j == [task[t] EXCEPT !.at = "status"]
      <4>1. Idle.at = "idle" /\ j.at = "status"
        BY <3>2 DEF Idle
      <4>2. task' = [Unmounted EXCEPT ![t] = Idle] \/ task' = [Unmounted EXCEPT ![t] = j]
        BY <3>3
      <4> HIDE DEF j
      <4>3. QED
        BY <4>1, <4>2
    <3>5. QED
      BY <2>3, <3>1, <3>4
  <2>5. QED
    BY <2>2, <2>4
<1>6. CASE ToStatus(t)
  BY <1>4, <1>6 DEF ToStatus, history
<1>7. QED
  BY <1>3, <1>5, <1>6

LEMMA SwapKept ==
  ASSUME ~scenario.leaves, IInv, Handlers, Steps, Waits,
         \/ \E s \in scenario.swaps : ConfirmSwap(s)
         \/ Continue \/ CloseSwap \/ Poll \/ Reopen
  PROVE  Handlers' /\ Steps' /\ Waits'
<1>1. CASE UNCHANGED <<draft, route, task, waiting>>
  BY <1>1 DEF Handlers, OnScreen, Steps, StepOf, Waits
<1>2. CASE Reopen
  <2>1. \A t \in Task : task'[t].at = "idle"
    BY <1>2 DEF Reopen, Idle
  <2>2. Handlers' /\ (draft' # None => draft' = draft)
    BY <1>2, <2>1 DEF Reopen, Handlers, Handler, Paying
  <2>3. Steps'
    BY <2>1, <2>2 DEF Steps, StepOf
  <2>4. Waits'
    BY <1>2, NothingWaits DEF Reopen, Waits, history
  <2>5. QED
    BY <2>2, <2>3, <2>4
<1>3. QED
  BY <1>1, <1>2 DEF ConfirmSwap, Continue, CloseSwap, Poll, history

(* A Grin payment kept for its reply stays in Send until it is finalized or  *)
(* given up, also when a hand-off was under way while it was built, or the   *)
(* window closed, as long as no screen is left whose handler is under way,   *)
(* and none is built by a cancel that has cleared the last one.              *)
THEOREM ExchangeStays ==
  ASSUME Nothing, None # "vault", \A sc \in Scenario : "vault" \notin sc.swaps
  PROVE  Spec => []ExchangeKept
<1>1. Constants
  BY DEF Constants
<1>2. Init => IInv /\ KeptInv
  <2>1. SUFFICES ASSUME Init PROVE IInv /\ KeptInv
    OBVIOUS
  <2>2. \A t \in Task : task[t].at = "idle"
    BY <2>1 DEF Init, Idle
  <2>3. QED
    BY <2>1, <2>2, InitIInv DEF Init, KeptInv, Handlers, Handler, Paying, Steps, Waits
<1>3. IInv /\ KeptInv /\ [Next]_vars => IInv' /\ KeptInv'
  <2>1. SUFFICES ASSUME IInv, KeptInv, [Next]_vars PROVE KeptInv'
    BY <1>1, NextIInv
  <2>2. UNCHANGED scenario
    BY <2>1 DEF Next, vars, fixed, OpenSend, PickAsset, EnterAddress, Compose, Back, Exit, Navigate,
         Submit, CheckMemoDeposit, Broadcast, NameDeposit, ShowReceipt, StartBuild, Built,
         StartFinalize, Finalized, StartCancel, ClearCancelled, Cancelled, AskHandoff,
         WriteHandoff, ToStatus,
         ConfirmSwap, Continue, CloseSwap, Poll, Reopen
  <2>3. CASE UNCHANGED vars
    BY <2>1, <2>3 DEF vars, KeptInv, NoStray, history, Handlers, OnScreen, Steps, StepOf, Waits
  <2>4. CASE Next
    <3>1. SUFFICES ASSUME ~scenario.leaves, NoStray' PROVE Handlers' /\ Steps' /\ Waits'
      BY <2>2 DEF KeptInv
    <3>2. slates \subseteq slates'
      BY <2>4 DEF Next, history, OpenSend, PickAsset, EnterAddress, Compose, Back, Exit, Navigate,
           Submit, CheckMemoDeposit, Broadcast, NameDeposit, ShowReceipt, StartBuild, Built,
           StartFinalize, Finalized, StartCancel, ClearCancelled, Cancelled, AskHandoff,
           WriteHandoff, ToStatus, ConfirmSwap, Continue, CloseSwap, Poll, Reopen
    <3>3. NoStray
      BY <3>1, <3>2 DEF NoStray
    <3>4. QED
      BY <2>1, <2>4, <3>1, <3>3, WizardKept, PayKept, GrinKept, HandoffKept, SwapKept DEF KeptInv, Next
  <2>5. QED
    BY <2>1, <2>3, <2>4
<1>4. KeptInv => ExchangeKept
  BY DEF KeptInv, NoStray, Waits, ExchangeKept
<1>5. QED
  BY <1>2, <1>3, <1>4, PTL DEF Spec
================================================================================
