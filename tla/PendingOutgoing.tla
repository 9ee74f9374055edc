----------------------------- MODULE PendingOutgoing -----------------------------
(****************************************************************************)
(* Payments in flight: what the wallet has sent, the backend does not report *)
(* yet, and the wallet must neither spend again nor show as available       *)
(* (core/src/state/pending-outgoing.ts, popup/send-handler.ts, the refresh   *)
(* and the home screen of popup/index.tsx).                                  *)
(*                                                                          *)
(* One asset, of a family: "utxo" (BTC, LTC) or "cryptonote" (XMR, WOW).     *)
(* The list is part of the session state, whose updates are one at a time    *)
(* (SharedState); a window renders from its copy of it, known[w].            *)
(* A coin stands for an output and its identifier (txid:vout or key image);  *)
(* the change of payment p is the coin p.  Amounts are units; the fee is     *)
(* part of what a payment costs.                                             *)
(****************************************************************************)
EXTENDS Naturals, FiniteSets, FiniteSetsExt

CONSTANTS
  Window, Payment,
  Coin,     \* the coins the wallet starts with, of equal worth, in the order listed
  Refresh,  \* balance refreshes that may be under way at once
  None,
  Worth,    \* what a coin of Coin is worth
  Cost,     \* amount and fee of a payment that is no sweep
  Overlap,  \* a window refreshes again before its last refresh is done
  Scenario  \* what a behaviour is about: the family, the windows and payments
            \* there are; bounds on what the network drops, answers lost,
            \* history reads that fail and limits of age passed; whether balance reads may fail on their
            \* own (partial), and whether the backend lists a payment, and a
            \* refresh finds it, within its first hour (prompt)

VARIABLES
  scene,    \* the scenario, its counts what its bounds leave
  pay,      \* pay[p]: how far the send of p has come
  chain,    \* chain[p]: none, mempool, mined, gone (dropped or replaced)
  listed,   \* listed[p]: what the backend reports of p
  age,      \* age[p]: the limits of its family the entry's age is past: for utxo
            \* an hour and 24 h, for cryptonote 30 minutes (XMR) or 5 (WOW)
  list,     \* SessionState.pendingOutgoing
  known,    \* known[w]: the copy window w renders from
  refresh,  \* refresh[r]: how far a balance refresh has come
  shown,    \* shown[w]: the backend's report behind the balance on screen
  heard     \* heard[w]: every entry known[w] ever held

vars == <<scene, pay, chain, listed, age, list, known, refresh, shown, heard>>

Outside == <<chain, listed, age, refresh, shown>>

-------------------------------------------------------------------------------
(* Coins and what a report r of the backend says of them.                   *)

Worths[c \in Coin \cup Payment] ==
  IF c \in Coin THEN Worth ELSE pay[c].change

Total(g, S) == MapThenSumSet(LAMBDA c : g[c], S)
Sum(S)      == Total(Worths, S)

InputsOf(P) == UNION {pay[p].inputs : p \in P}

Listed(r) == {p \in Payment : r[p] # "none"}
Mined(r)  == {p \in Payment : r[p] = "mined"}

Live(p) == chain[p] \in {"mempool", "mined"}

(* What the backend offers to spend: a change output of CryptoNote is       *)
(* locked until it has its confirmations, one of BTC is not.                *)
Unspent(r) ==
  LET change == IF scene.family = "utxo" THEN Listed(r) ELSE Mined(r)
  IN  (Coin \cup {p \in change : pay[p].change > 0}) \ InputsOf(Listed(r))

-------------------------------------------------------------------------------
(* pending-outgoing.ts.                                                     *)

(* The last limit is that of isStale, 24 h for BTC and LTC, 30 or 5 minutes *)
(* for XMR and WOW; another, of an hour, only BTC and LTC have (ReconcileUtxo). *)
Limits == IF scene.family = "utxo" THEN 2 ELSE 1

IsStale(p) == age[p] >= Limits

PendingOutgoingFor(L) == {p \in L : ~IsStale(p)}

RecentlySpentInputs(L) == InputsOf(PendingOutgoingFor(L))

(* Mutant: an entry the history does not list is released at once.          *)
ReconcileUtxo_NoGrace(L, history) ==
  IF history = None THEN L ELSE {p \in L : history[p] = "mempool"}

(* By the history of the addresses; none was read, or the read failed.      *)
ReconcileUtxo(L, history) ==
  IF history = None THEN L
  ELSE {p \in L : \/ history[p] = "mempool"
                  \/ history[p] = "none" /\ age[p] = 0}

(* By key images: every input verified as spent; a failed read verifies none. *)
ReconcileKeyImages(L, report) ==
  IF report = None THEN L
  ELSE {p \in L : ~(pay[p].inputs \subseteq InputsOf(Listed(report)))}

ReconcileAfterBalanceRefresh(L, report, history) ==
  PendingOutgoingFor(IF scene.family = "utxo" THEN ReconcileUtxo(L, history)
                     ELSE ReconcileKeyImages(L, report))

-------------------------------------------------------------------------------
(* The home screen.                                                         *)

(* What the backend calls confirmed: for BTC until a spend is mined.        *)
Confirmed(r) ==
  IF scene.family = "utxo" THEN Sum((Coin \cup Mined(r)) \ InputsOf(Mined(r)))
  ELSE Sum(Unspent(r))

(* The backend's signed unconfirmed figure, when negative.                  *)
MempoolDebit(r) ==
  LET all == Sum((Coin \cup Listed(r)) \ InputsOf(Listed(r)))
  IN  Confirmed(r) - all

Locked(r) == Sum((Listed(r) \ Mined(r)) \ InputsOf(Listed(r)))

(* What an entry takes off the balance: amount and fee, or all its inputs.   *)
Spends[p \in Payment] == Sum(pay[p].inputs) - pay[p].change
Takes[p \in Payment]  == Sum(pay[p].inputs)

PendingOutgoingTotalWithFee(L) == Total(Spends, PendingOutgoingFor(L))
InFlightInputsTotal(L)         == Total(Takes, PendingOutgoingFor(L))

Larger(a, b) == IF a > b THEN a ELSE b

(* Mutant: only what this wallet knows it has in flight.                    *)
UtxoAvailableDeduction_NoDebit(L, r) == PendingOutgoingTotalWithFee(L)

UtxoAvailableDeduction(L, r) ==
  Larger(PendingOutgoingTotalWithFee(L), MempoolDebit(r))

(* lwsReflectsSpend: nothing is deducted while anything is locked.          *)
AvailableDeduction(L, r) ==
  IF scene.family = "utxo" THEN UtxoAvailableDeduction(L, r)
  ELSE IF Locked(r) > 0 THEN 0
  ELSE InFlightInputsTotal(L)

Available(w) ==
  LET r == shown[w]
      d == AvailableDeduction(known[w], r)
  IN  IF Confirmed(r) > d THEN Confirmed(r) - d ELSE 0

-------------------------------------------------------------------------------
(* Sending.                                                                 *)

Nothing == [at |-> "new", by |-> None, way |-> None, exclude |-> {}, after |-> {},
            inputs |-> {}, change |-> 0]

At(p, step) == pay[p].at = step
Goto(p, step) == pay' = [pay EXCEPT ![p].at = step]

(* Update of the session state: this window renders it at once.             *)
Updates(w, L) ==
  /\ list' = L
  /\ known' = [known EXCEPT ![w] = L]
  /\ heard' = [heard EXCEPT ![w] = @ \cup L]

(* Mutant: onSubmit passes no inputs to leave out.                          *)
Excludes_None(w, way) == {}

(* The wizard takes the inputs to leave out from what it renders, an        *)
(* approval from the loaded state; a tip passes none.                       *)
Excludes(w, way) == IF way = "tip" THEN {} ELSE RecentlySpentInputs(known[w])

(* The backend is taken to list within the first hour what it is to list,    *)
(* before an unlisted entry is let go (see Age).                             *)
Prompt == scene.family = "utxo" /\ scene.prompt

(* onSubmit, executeApproval, or a tip, up to the listing of the outputs.   *)
(* after: the payments the window has heard of, less those whose entries are *)
(* past a limit while nothing says that the backend lists them.              *)
Submit(p, w, way) ==
  /\ At(p, "new")
  /\ pay' = [pay EXCEPT ![p] = [Nothing EXCEPT !.at = "listing", !.by = w, !.way = way,
                                   !.exclude = Excludes(w, way),
                                   !.after = {q \in heard[w] : age[q] = 0 \/ Prompt}]]
  /\ UNCHANGED <<scene, chain, listed, age, list, known, refresh, shown, heard>>

(* A prefix of the coins, largest first, that just covers the cost.  Of two *)
(* of a worth the one listed first.                                         *)
Before(c, d) == Worths[c] > Worths[d] \/ (Worths[c] = Worths[d] /\ ({c, d} \subseteq Coin => c < d))
Greedy(S) ==
  {I \in SUBSET S : /\ Sum(I) >= Cost
                    /\ \E least \in I : Sum(I \ {least}) < Cost
                    /\ \A c \in I, d \in S \ I : Before(c, d)}

Fails(p) == pay' = [pay EXCEPT ![p] = [Nothing EXCEPT !.at = "failed"]]

(* selectUtxos, selectUtxosForSweep, the selection in sendXmrWow; then the  *)
(* transaction is signed and handed to the backend.                         *)
Select(p) ==
  /\ At(p, "listing")
  /\ LET spendable == Unspent(listed) \ pay[p].exclude
     IN  \/ \E I \in Greedy(spendable) :
              pay' = [pay EXCEPT ![p].at = "broadcast", ![p].exclude = {}, ![p].inputs = I,
                                 ![p].change = Sum(I) - Cost]
         \/ /\ Sum(spendable) > 0
            /\ pay' = [pay EXCEPT ![p].at = "broadcast", ![p].exclude = {}, ![p].inputs = spendable]
         \/ Sum(spendable) < Cost /\ Fails(p)
  /\ UNCHANGED <<scene, chain, listed, age, list, known, refresh, shown, heard>>

(* A transaction and all that spend its change, and so on.                  *)
Descendants(P) ==
  LET child(Q) == Q \cup {q \in Payment : pay[q].inputs \cap Q # {}}
  IN  child(child(child(P)))

Conflicts(p) == {q \in Payment \ {p} : Live(q) /\ pay[q].inputs \cap pay[p].inputs # {}}

(* The network takes it, or refuses it; a BTC transaction replaces those in *)
(* the mempool it conflicts with (they signal it), if it pays more.         *)
Broadcast(p) ==
  /\ At(p, "broadcast")
  /\ LET orphan == \E q \in Payment \cap pay[p].inputs : ~Live(q)
         out == Descendants(Conflicts(p))
     IN  \/ (orphan \/ out # {}) /\ Fails(p) /\ UNCHANGED chain
         \/ /\ ~orphan
            /\ out # {} => scene.family = "utxo" /\ \A q \in out : chain[q] # "mined" /\ q \notin pay[p].inputs
            /\ Goto(p, "answered")
            /\ chain' = [q \in Payment |-> IF q = p THEN "mempool"
                                           ELSE IF q \in out /\ Live(q) THEN "gone" ELSE chain[q]]
  /\ UNCHANGED <<scene, listed, age, list, known, refresh, shown, heard>>

(* The answer is in, and the entry recorded ...                             *)
Record(p) ==
  /\ At(p, "answered")
  /\ pay' = [pay EXCEPT ![p].at = "recorded", ![p].by = None]
  /\ Updates(pay[p].by, list \cup {p})
  /\ UNCHANGED <<scene, Outside>>

(* ... unless the answer is lost, or the window goes first.                 *)
Loses(p) ==
  /\ At(p, "answered") /\ scene.lost > 0
  /\ Goto(p, "lost")
  /\ scene' = [scene EXCEPT !.lost = @ - 1]
  /\ UNCHANGED <<Outside, list, known, heard>>

-------------------------------------------------------------------------------
(* Refreshing the balance.                                                  *)

Idle == [by |-> None, wants |-> FALSE, history |-> None, awaits |-> FALSE, report |-> None]

(* The state is loaded: with nothing in flight no history will be read.     *)
RefreshBalances(r, w) ==
  /\ refresh[r] = Idle
  /\ Overlap \/ \A s \in Refresh : refresh[s].by # w
  /\ refresh' = [refresh EXCEPT ![r] = [Idle EXCEPT !.by = w, !.wants = scene.family = "utxo" /\ list # {},
                                               !.awaits = TRUE]]
  /\ UNCHANGED <<scene, pay, chain, listed, age, list, known, shown, heard>>

(* readPendingUtxoHistory: a read that fails leaves the history unknown.    *)
ReadHistory(r) ==
  /\ refresh[r].by # None /\ refresh[r].wants
  /\ \/ /\ refresh' = [refresh EXCEPT ![r].wants = FALSE, ![r].history = listed]
        /\ UNCHANGED scene
     \/ /\ scene.failures > 0
        /\ refresh' = [refresh EXCEPT ![r].wants = FALSE]
        /\ scene' = [scene EXCEPT !.failures = @ - 1]
  /\ UNCHANGED <<pay, chain, listed, age, list, known, shown, heard>>

(* fetchAllBalances, which shows a balance as soon as it is there, or keeps *)
(* the last one where this read fails.                                      *)
ReadBalance(r) ==
  /\ refresh[r].by # None /\ refresh[r].awaits
  /\ \/ /\ refresh' = [refresh EXCEPT ![r].awaits = FALSE, ![r].report = listed]
        /\ shown' = [shown EXCEPT ![refresh[r].by] = listed]
     \/ /\ scene.partial
        /\ refresh' = [refresh EXCEPT ![r].awaits = FALSE]
        /\ UNCHANGED shown
  /\ UNCHANGED <<scene, pay, chain, listed, age, list, known, heard>>

(* The list is reconciled with what was read, and the balance shown again.  *)
Reconcile(r) ==
  /\ refresh[r].by # None /\ ~refresh[r].wants /\ ~refresh[r].awaits
  /\ Updates(refresh[r].by, ReconcileAfterBalanceRefresh(list, refresh[r].report, refresh[r].history))
  /\ shown' = IF refresh[r].report = None THEN shown
              ELSE [shown EXCEPT ![refresh[r].by] = refresh[r].report]
  /\ refresh' = [refresh EXCEPT ![r] = Idle]
  /\ UNCHANGED <<scene, pay, chain, listed, age>>

(* Another window's update is announced.                                    *)
Hear(w) ==
  /\ known[w] # list
  /\ known' = [known EXCEPT ![w] = list]
  /\ heard' = [heard EXCEPT ![w] = @ \cup list]
  /\ UNCHANGED <<scene, Outside, pay, list>>

-------------------------------------------------------------------------------
(* The network, the backend, and time.                                      *)

Mine(p) ==
  /\ chain[p] = "mempool"
  /\ \A q \in Payment \cap pay[p].inputs : chain[q] = "mined"
  /\ chain' = [chain EXCEPT ![p] = "mined"]
  /\ UNCHANGED <<scene, pay, listed, age, list, known, refresh, shown, heard>>

Dropped(p) ==
  /\ chain[p] = "mempool" /\ scene.dropped > 0
  /\ chain' = [q \in Payment |-> IF q \in Descendants({p}) /\ Live(q) THEN "gone" ELSE chain[q]]
  /\ scene' = [scene EXCEPT !.dropped = @ - 1]
  /\ UNCHANGED <<pay, listed, age, list, known, refresh, shown, heard>>

(* The backend catches up with the network.  A block takes longer than a    *)
(* refresh: between its two reads nothing unknown turns up mined.           *)
Reports(p) == IF Live(p) THEN chain[p] ELSE "none"

Index ==
  /\ \E p \in Payment : listed[p] # Reports(p)
  /\ \A r \in Refresh : refresh[r].report # None /\ refresh[r].wants =>
       \A p \in Mined(chain) : refresh[r].report[p] # "none"
  /\ listed' = [p \in Payment |-> Reports(p)]
  /\ UNCHANGED <<scene, pay, chain, age, list, known, refresh, shown, heard>>

(* The clock, whatever is under way: an entry passes its next limit.  Only  *)
(* where a scenario says so, the first hour is enough for the backend to    *)
(* list what is in the mempool, and for the refresh that read the history   *)
(* before it did to end.                                                    *)
Finds(r, p) == refresh[r].history # None => refresh[r].history[p] # "none"

Age(p) ==
  /\ At(p, "recorded") /\ age[p] < Limits /\ scene.limits > 0
  /\ Prompt /\ Live(p) => listed[p] # "none" /\ \A r \in Refresh : Finds(r, p)
  /\ age' = [age EXCEPT ![p] = @ + 1]
  /\ scene' = [scene EXCEPT !.limits = @ - 1]
  /\ UNCHANGED <<pay, chain, listed, list, known, refresh, shown, heard>>

-------------------------------------------------------------------------------

Init ==
  /\ scene \in Scenario
  /\ pay = [p \in Payment |-> Nothing]
  /\ chain = [p \in Payment |-> "none"]
  /\ listed = [p \in Payment |-> "none"]
  /\ age = [p \in Payment |-> 0]
  /\ list = {}
  /\ known = [w \in Window |-> {}]
  /\ refresh = [r \in Refresh |-> Idle]
  /\ shown = [w \in Window |-> listed]
  /\ heard = [w \in Window |-> {}]

Next ==
  \/ \E p \in scene.payments :
       \/ \E w \in scene.windows, way \in {"wizard", "tip"} : Submit(p, w, way)
       \/ Select(p) \/ Broadcast(p) \/ Record(p) \/ Loses(p)
       \/ Mine(p) \/ Dropped(p) \/ Age(p)
  \/ \E r \in Refresh :
       \/ \E w \in scene.windows : RefreshBalances(r, w)
       \/ ReadHistory(r) \/ ReadBalance(r) \/ Reconcile(r)
  \/ \E w \in scene.windows : Hear(w)
  \/ Index

Spec == Init /\ [][Next]_vars

-------------------------------------------------------------------------------
(* Properties.                                                              *)

(* Until its entry is past a limit, something tells of what was recorded and *)
(* is on its way: the list, or the backend that reports the spend itself.    *)
(* BTC and LTC, where the backend is prompt: at any age.                     *)
InFlightIsCovered ==
  \A p \in Payment :
    pay[p].at = "recorded" /\ Live(p) /\ (age[p] = 0 \/ Prompt) =>
      p \in list \/ listed[p] # "none"

(* "keeps the send-handler from picking the same UTXO / output twice": a    *)
(* payment of the wizard or an approval takes no input of a payment in      *)
(* flight that its window had heard of when it began, at an age at which    *)
(* something still told of it.                                              *)
NoInputTwice ==
  \A p \in Payment :
    pay[p].way = "wizard" =>
      \A q \in pay[p].after : Live(q) => pay[q].inputs \cap pay[p].inputs = {}

(* With one window: of what it recorded, the network holds, and is not past  *)
(* the age at which an entry is let go unlisted, nothing is shown as        *)
(* available, nor what the backend's own report has spent.  For XMR and WOW *)
(* while nothing is locked; for BTC and LTC as long as entries and mempool  *)
(* debit do not each know of a payment the other does not, and, where       *)
(* balance reads fail on their own, until it is mined.                      *)
Known(w) == PendingOutgoingFor(known[w])
OneStory(w) ==
  LET r == shown[w]
  IN  IF scene.family = "utxo"
      THEN Known(w) \subseteq Listed(r) \/ Listed(r) \ Mined(r) \subseteq Known(w)
      ELSE Locked(r) = 0

Young(p) == age[p] < IF Prompt THEN Limits ELSE 1
Owed(p)  == Live(p) /\ Young(p) /\ (scene.family = "utxo" /\ scene.partial => chain[p] # "mined")

SentIsDeducted ==
  \A w \in Window :
    LET spent  == InputsOf(Listed(shown[w]) \cup {p \in heard[w] : Owed(p)})
        change == IF scene.family = "utxo" THEN Listed(shown[w]) \cup heard[w]
                  ELSE Mined(shown[w])
    IN  scene.windows = {w} /\ OneStory(w) => Available(w) <= Sum((Coin \cup change) \ spent)

===================================================================================
