# Smirk: models, checks and proofs

Smirk is a non-custodial wallet for five chains (BTC, LTC, XMR, WOW, GRIN). The
repository holds TypeScript packages (`core`, `extension`, `dapp-api`,
`dapp-browser`, `swap`, `ui`, `desktop`, ...) and Rust crates (transaction and
slate construction, compiled to WebAssembly). What runs is a browser extension
(Manifest V3): a service worker the browser evicts at will, any number of
windows (popup, popped-out window, tab, approval window), an offscreen document,
all sharing `chrome.storage`; and a desktop shell with one window over a shim of
the same API.

The difficulty of this code is there, not in its cryptography: JavaScript
contexts that share storage without compare-and-set, every `await` a place where
another context runs, windows that close and workers that die between two of
them. The modules here model those parts of the wallet whose correctness depends
on such orders. All paths below are relative to `src/packages/` unless they begin
with `docs/`.

- [Inventory](#inventory)
- [Modules](#modules) - what models what, and how
- [Runs](#runs) - what TLC checks, on which instances, and why they are enough
- [Fairness](#fairness)
- [Proofs](#proofs)
- [Disagreements between code and text](#disagreements-between-code-and-text)
- [Not modelled](#not-modelled)
- [Plan](#plan)

To run: `tlc -config session_pages.cfg MCSessionState.tla` (each cfg with its
module, see the table of runs); `tlapm SessionStateProofs.tla`.


## Inventory

State that outlives a function call, who owns it, and what must hold. `PROJECT.json`
lists every component, these and the smaller ones.

| Component | State | Operations | Interacts with | What makes it correct | Model |
|---|---|---|---|---|---|
| Session state store, `core/src/state/session-state.ts` | one versioned record in storage; per page a cache, stamps of own writes, a chain of updates, a cross-window lock | `load`, `update`, `save`, `reset`, change announcements | every screen of every window | no update lost under the lock; caches never go back, and converge; every update settles | `SessionState`, `SharedState` |
| Background jobs, `extension/src/background/jobs/`, `popup/jobs/` | job records and dedup keys in `storage.session`; subscriptions, timers and the offscreen promise in the worker; ports | start, join, run, report, finish, list, subscribe, collect; eviction | popup, worker, offscreen document | a finished job stays finished; a token only for the backend that minted it; nothing left that no one runs; waits end | `JobCoordinator` |
| Receive subaddress, `popup/receive-subaddress-index.ts` | issued index and provisioned ceiling per wallet, asset and backend; a chain per window | `advance`, read | backend, windows | no index twice; never an index the server does not scan; the counter never goes back | `ReceiveSubaddress` |
| Dapp approval prompt, `extension/src/background/dapp/approval.ts`, `popup/routes/approval.tsx` | the worker's queue, slot and rate counters; pending and result records; the window | request, admit, open, decide, dismiss, settle; eviction | page bridge, wallet handler, approval window | one window; bounded queue; the dapp hears what the user chose; every request settles | `DappApproval` |
| Lock and session hand-over, `popup/session-lock.ts`, `session-cache.ts`, `flow-grace.ts`, `core/src/keystore.ts` | lock id, session cache, hand-off and grace in `storage.session`; keys and lock generation in each window | unlock, restore, pop out, lock, hear of a lock | all windows | no keys after a lock except from a newer password; none left in storage | `WalletLock` |
| Grin pending overlay, `core/src/payments/grin-pending-overlay.ts`, `popup/grin-flows.ts` | one slot: reservations by slate, the child-index counter; a chain of operations per window | reconcile, seed, reserve, add, remove, within send, receive, invoice, poll, cancel | node, other party, windows | no child index twice; inputs spent in flight held back; cancelled ones free | `GrinOverlay` |
| Pending outgoing payments, `core/src/state/pending-outgoing.ts`, `popup/send-handler.ts`, the refresh in `popup/index.tsx` | list of in-flight sends inside the session state; per window the copy it renders and the balance last read | select inputs, broadcast, record, refresh, reconcile, age out, derive the available balance | session state, backend, tips | no input taken twice; nothing in flight shown as available; an entry retires only on evidence | `PendingOutgoing` |
| Wallet handler and permissions, `dapp-api/src/wallet-handler.ts`, `nostr-tiers.ts`, `background/dapp/permissions.ts` | one permission record per origin | connect, sign in, read keys, sign, pay, touch, disconnect, revoke | approval prompt, settings | a site holds only what the user allowed; no grant is lost | `SitePermissions` |
| Tips and key backup, `popup/tip-handler.ts`, `tip-claim-handler.ts`, `tip-key-backup.ts`, `routes/sent-tips.tsx` | local sealed keys, backend's tip records | create, back up, fund, attach, cancel, discard, claim, claw back, report | backend, chain, windows | no funded tip whose key is lost; success means the network paid | `Tips` |
| Send draft, exchange and swap deposit, `ui/src/components/SendWizard.tsx`, `SwapTab.tsx`, `ui/src/send-draft.ts`, `popup/swap-handoff.ts`, `thorchain.ts` | the wizards' drafts and the route in the session state; a journal of sends | open, edit, submit, build, finalize, cancel, confirm a swap, hand off, follow | send handler, providers | a vault paid only with its memo; a swap followed by its own deposit; a slate not dropped | `SendDraft` |
| Backend selection and the session at it, `popup/backend-generation.ts`, `backend-boot.ts`, `core/src/api/backend-config.ts`, `startSession`, `refreshBalances`, `dropBackendSession` in `popup/index.tsx` | the selection in local storage; cached sign-in and balance snapshot in `storage.session`; per window the client's address and token, a generation, a relay, the session on screen | boot, choose, follow, drop, sign in, refresh, retry, lock, unlock | all windows, the worker's sign-in, backend | no token, relay or figure of another backend; every window ends at the backend chosen, with a session or an error | `BackendSession` |
| Display journals, premium purchase, operation passwords | small records in local storage | record, upgrade, resume, compare | windows | no record of one wallet shown in another's | not modelled |
| Nostr identities and vault, messaging channels, message watcher, swap providers, wallet flow and restore, legacy wallets, in-app browser, API client, chain providers, UI, crates | mostly stateless, or I/O, or external | | | | not modelled, reasons below |

How they meet: the screens read and write the session state; unlocking goes
through the keystore and starts a background sign-in job; a dapp request passes
the bridge, the permission check and the approval prompt, whose window unlocks
through the session cache or the grace; Send keeps its draft in the session state,
and a swap hands it a deposit; sends and tips record what is in flight (the session
state's list, for Grin the overlay) and the balance poll retires it. Where one part
reads another's state, the module that needs it has that state
(`SitePermissions` the approval line, `PendingOutgoing` the list of the session
state and the inputs of tips, `SendDraft` the swap and the journal); the
others share only the storage area, under disjoint keys.

Hard behaviours, by kind: interleavings of windows, or of requests, over one
record (all but `JobCoordinator`); eviction of the worker between two awaits
(`JobCoordinator`, `DappApproval`, `SitePermissions`); a window closed in the middle
(all but `SitePermissions`); answers, events and announcements late or in another
order than their causes (all); refused storage requests (`SessionState`,
`ReceiveSubaddress`, `DappApproval`, `WalletLock`, `GrinOverlay`, `Tips`); the server or the node
refusing, failing or answering and not being heard (`ReceiveSubaddress`,
`GrinOverlay`, `PendingOutgoing`, `Tips`, `SendDraft`, `BackendSession`); a transaction dropped or
replaced (`PendingOutgoing`); a lock that
cannot be published (`WalletLock`). `PROJECT.json` lists these hazards with the
source line and the property that watches each, or why none does.


## Modules

Common to all: a step is one task of one context, everything between two
`await`s; what a step reads it reads when the code issues the request, and what
it does with it comes in a later step, so every stale read the code can make is a
behaviour of the model. A definition named `X_Y` before `X` is a mutated form of
`X`, an error somebody could make there, used to show that a property notices; it
takes no part in any specification.

**`SessionState`** - `SessionStateStore`. `stored` is the record, a `version` and
a `stamp` for the write's identity (`writerId:writeSeq`); `channel[w]` carries
announcements, read answers and write replies to page `w` in order, arbitrarily
late. `Load`, `Update`, `BeginLocked`/`BeginUnlocked`, `Grant`, `LockWaitExpires`,
`Settle`, `Deliver` (one case per message), `Open`, `Close`. `hasLock` says
whether the runtime has `navigator.locks`. A content is a set of marks; a mutator
adds or replaces one, so a lost update is a missing mark. `seen` is an observation
only. `MaxOwnWrites` stands for `MAX_OWN_WRITES` (64); the value 1 makes the
eviction of stamps happen.

**`SharedState`** - the promise of the store: one value, and updates that change
it one at a time, each applied to the state it replaces, in its window's order.
`SessionState` implements it under the lock (`KeepsPromise`); an update happens
when its write reaches storage.

**`JobCoordinator`** - coordinator, runner and one popup mount after another.
`queue` is the worker's pending `storage.session` continuations, in order, each
with what it read; `waiting` the starts waiting for the offscreen document;
`request`/`inbox` the two directions of a port. A job is named after the mount
whose start allocated it. `Evict` clears the worker, not storage nor the
document. `Collect` has the guard that `RESULT_TTL_MS` outlasts any request.
The Firefox branch (`HasOffscreen = FALSE`) is in the model, no run sets it.
`bootstrap-auth` reports no progress today; `ReportProgress` is what the
contract of a handler allows.

**`ReceiveSubaddress`** - `advance()`: read, provision, re-read, write or retry up
to `CAS_ATTEMPTS`, refuse, fail. The server names any ceiling or fails. `chain[w]`
is the promise chain of one window.

**`DappApproval`** - `requestApproval` with the early reservation in the queue,
the permission read, the rate cap, the slot; `openApprovalWindow`,
`waitForResult` with its three ways to an answer (result change, window removal,
the look at the key); the window as tap, result, close. `line` is `queueTail` as
the calls chained on it. Events reach the listeners registered when they are
delivered, in any order; `Evict` leaves window and records. What an approval
executes is the step `Tap`.

**`WalletLock`** - unlock, restore from cache, hand-off or grace, pop-out and
write of the cache, each as the sequence of reads and checks in the code; `Lock`
publishes a new lock id or fails. A password's `epoch` is the lock under which it
was entered, so "keys older than a lock" is a comparison of numbers.
`lockGeneration` is represented by `task[w].current`, since it is only compared
with a captured value.

**`GrinOverlay`** - `held[w]` is what the running operation of window `w` loaded,
`queue[w]` the promise chain of `GLOBAL_OVERLAY_LOCKS` in that window. A flow
(`kind[f]`) scans (`Start`), reconciles, selects and seeds (`Select`), reserves an
index, books, waits for the other party (`out`), finalises and broadcasts
(`Finalise`, `Broadcast`), records. `Load` and `Save` are the two halves of every
operation; `Saved` says what each writes. An output stands for its child index,
from which its commitment is derived; the chain is `utxo` and `tx`. `misread` notes
that a read failed and the adapter answered an empty overlay.

**`PendingOutgoing`** - one asset of one family: `utxo` (BTC, LTC) or `cryptonote` (XMR,
WOW). A payment selects (`Select`: the prefix of the coins, largest first, that covers the
cost, or a sweep), broadcasts, is answered and recorded; `chain` is the network, `listed`
what the backend has indexed of it, `shown[w]` the report behind the balance of window
`w`, `known[w]` its copy of the list. A refresh loads the list, reads history and balance
in either order, and reconciles. `UtxoAvailableDeduction`, `AvailableDeduction` and
`Available` are the home screen's arithmetic. Session updates are atomic here, which is
what `SessionState` is shown to give. `Age` is the clock: at any time, whatever the
backend has listed, a recorded entry may pass the next limit of its family. For
`cryptonote` there is one, `isStale`'s 30 minutes (XMR) or 5 (WOW), the difference being
of no consequence where the clock is free; for `utxo` two, the hour of
`reconcileUtxoPendingOutgoing` and the 24 h of `isStale`. Past the last an entry is
neither deducted nor left out of a selection, and the next refresh drops it. Two things
are up to a scenario: with `partial` the balance read of a refresh may fail by itself, and
then the figure on screen stays while history and list go on as in the code; with `prompt`
a BTC or LTC backend lists what is in the mempool within the hour, and the refresh that
read the history before it did ends within it, an assumption about the backend and not
about the wallet. The selection of inputs is the backend's order of equal coins; fees are
part of the cost.

**`SitePermissions`** - one site's record as the set of its scopes, and the page's
calls as coroutines: `Get` reads it, `Ask` joins the approval line, `Approve` fixes the
WHOLE record to be written, `Set` writes it; `Touch` answers first and writes later.
`Remove` is a disconnection or a revocation, `Evict` ends every request.
`approved` and `carried` are observations: what the user allowed since the last
removal, and what requests under way at it had in hand.

**`Tips`** - one tip: `CreateDraft`, `StoreTipKeyBackup`, `Fund`, `AttachFunding` with its
retries, the note on the backup, the row of sent tips and what it offers (`Discard`,
`Clawback`), claims with `ProveEarlier`, `SweepTip` and `ReportSweep`. The network takes
the first spend and refuses others; the backend's row is external. An answer may be
lost at every request; the code takes that for a failure.

**`SendDraft`** - the draft (`step`, fields, the context of a swap deposit, the slate),
the route, the swap, and the handlers under way in `task`: submit with `checkMemoDeposit`,
building, finalizing and cancelling a Grin exchange, the hand-off of a deposit or a pay
link. A cancel clears the slate (`ClearCancelled`) and leaves Send in a later update
(`Cancelled`); between the two the screen has no slate and may build another (a `rebuild`,
its slate marked `stray`), which that exit then forgets. `live` says that the screen that
started a handler is still mounted: its guards (one submit at a time) go with it, the
handler does not.

**`BackendSession`** - where each window's client points (`url`, `token`), its
`generation` and what a scope captures of it, the switch made here (`Choose`, `Written`,
`DropCache`, `DropSnapshot`, `DropSession`) and the one heard of (`ReadSelection`, `Follow`),
and a run of `startSession` or `refreshBalances` as a `task` that looks at its scope where
the code does. `inbox[w]` holds storage's answers about the selection in the order asked.
A token, a user id, a figure is named by the backend it came from. `mount` counts how often
the wallet UI was started over: a `setSession` of an earlier one has no effect
(`SetSession`). `due` are the windows whose effect is yet to look for a missing session,
`looking` those whose `refresh()` is under way. A `Scenario` says which windows are open and
what may happen; `overlap` whether a refresh may be under way at a switch.

**`Background`, `Windows`, `Funds`, `Services`** put parts next to each other that share
no variable: the worker's (`SitePermissions`, `DappApproval`, `JobCoordinator`), the windows'
(`GrinOverlay`, `WalletLock`), the popup's with funds (`PendingOutgoing`, `Tips`,
`SendDraft`), and the services a window calls and waits for (`ReceiveSubaddress`,
`BackendSession`, `DappApproval`); `MCSettles` does so with `SessionState` and
`JobCoordinator`. `part` says which of them a behaviour is about; the other variables stay
at their initial values, so the behaviours of each part are exactly those of its module,
and one run asks all their questions. Fairness of every part is conjoined; of a part a
behaviour is not about, nothing it speaks of is ever enabled.

`MC*` modules give TLC its instances; `*Proofs` hold the theorems. A composition's theorems
are in a module of its own: `WindowsProofs`, `FundsProofs` and `ServicesProofs` take those of
`WalletLockProofs`, `SendDraftProofs` and `BackendSessionProofs` from an instance of each,
since a step of the composition is a step of the part or leaves it as it is.


## Runs

| Run | Module | Instance | Asks |
|---|---|---|---|
| `session_pages` | MCSessionState | 2 pages, one reopened, 3 updates, with and without the lock, a wait that expires, one refused read, one refused write, `MAX_OWN_WRITES` 1, storage empty, older or newer | `CacheNeverGoesBack`, `ConvergedAtRest` |
| `background` | MCBackground | sites: 3 requests for 2 assets and 2 kinds, one removal. Prompts: queue 1, cap 1, dismissals at any time; 3 requests, one of an unconnected origin, over 2 rate windows with one eviction and one failure; 3 of one site over 3 rate windows, or 4 at once. Jobs: 2 mounts, 2 backends, a failing document, and one eviction, with work in hand or idle, beside a switch or a progress report, or idle beside an aged job | `OnlyApproved`, `NothingLost`; `OneWindow`, `QueueBounded`, `AnswerIsUsers`, `OpeningsBounded`; `TokenFitsWindow`, `FinishedIsFinal`, `NothingLeftAtRest` |
| `settles` | MCSettles | Updates: 2 pages, 3 updates that make or drop 2 marks (one dropped by the migration), lock, one refused write. Jobs: 2 mounts, a failing document, and one of: an eviction of an idle worker and an aged job; a change of backend; a progress report | `PromiseInv`, `KeepsPromise`, `UpdatesSettle`; `SettlesWhileConnected` |
| `windows_settle` | MCWindowsSettle | Subaddresses: 2 windows (calls 2 + 1), 2 attempts, ceilings 0..3, one refused request, closings. Sessions: 2 backends, 2 runs at a time; one window from its boot with a failure and a switch, or a lock, or with a switch and 2 refreshes, or 2 of which one fails; 2 windows with sessions when one moves. Prompts: one site over 2 rate windows; queue 1, cap 1; 4 requests and one failure, or 2 requests and one eviction | `DistinctInOneWindow`, `ShownWithinLastAnswer`, `IssuedWithinSomeAnswer`, `AdvancesInOneWindow`, `AdvanceSettles`; `ClientFitsBackend`, `NumbersFitBackend`, `Follows`; `RequestSettles`, `DecisionArrives` |
| `subaddr_unconfirmed` | MCReceiveSubaddress | one window, 3 calls, no refused request | violated: `IssueIsConfirmed` |
| `windows` | MCWindows | Grin: one window, 3 flows (a send; a send, receive or invoice; a poll or cancel), one failure or one age-out. Locks: 2 wallet windows, 2 locks, 2 passwords, one lock that cannot be published, closings at any step; the same left open and published; one wallet and one approval window, one lock, 2 passwords; one wallet window and the 2 approval windows of a flow, one lock, one password | `IndexNeverReused`, `BroadcastHeld`, `CancelledIsFree`; `LockHolds`, `UnpublishedStaysLocked`, `NoRevokedKeysAtRest` |
| `grin_windows` | MCGrinOverlay | the same flows in 2 windows, no failure | violated: `IndexNeverReused` |
| `funds` | MCFunds | Payments: 2 payments of 3 from 3 coins of 2, 2 limits of age to pass (1 with 2 windows), one refresh at a time; BTC or LTC in one window: with a prompt backend, a drop, a lost answer and a failed history read, or a slow backend and a lost answer, or balance reads that fail; XMR or WOW in one window, with failing balance reads and a lost answer; either family in 2 windows. Tips: 2 windows, 2 claimers, 3 attempts, 3 lost answers, a backup that cannot be stored. Send: 2 swaps, 2 handlers, up to 3 drafts and 2 slates, in five scenarios | `InFlightIsCovered`, `NoInputTwice`, `SentIsDeducted`; `KeptUnlessDiscarded`, `SuccessIsPaid`, `ClawedBackIsReturned`; `VaultPaidWithMemo`, `TxidIsDeposit`, `ExchangeKept` |
| `tips_discarded` | MCTips | 2 windows, 2 claimers, no refused backup | violated: `FundedTipRecoverable` |
| `send_slate_shown` | MCSendDraft | one Grin draft | violated: `SlateIsAsShown` |
| `refresh_moved` | MCBackendSession | one window, one switch, one refresh at any time of it | violated: `NumbersFitBackend` |
| `outage` | MCBackendSession | one window and backend, one lock, one failure, 2 refreshes | violated: `Recovers` |

A run's cfg has its name. The scenarios of `SendDraft`: `Deposits` and `Redrafts` let a
user leave while a handler runs, for a second swap or a second draft; `InTurn` and
`Exchanges` have one who waits, with both, or with Grin payments and a hand-off; in
`Cancels` he may cancel a Grin payment and begin another, and the cancel may set off a
build.

Why these bounds. The races are between two contexts over one key: two windows show every
pair of steps, and a third flow or call shows what a race leaves to the next one. One
failure of each kind can fall before, between and after any two steps; the code keeps no
count of failures, so a second one meets a state the first can leave. Two locks are the
least for "a lock during the unlock that follows a lock". Two rate windows and a cap of 1
make the cap bind and expire; over three, as many prompts of one site wait and then open
in one, which is the bound of `OpeningsBounded`. `CAS_ATTEMPTS` 2 lets a call retry and
give up. Queue limits of 1 fill. Where a limit of the code is larger (queue, cap,
own-write stamps), the code compares with it in one place, and smaller values reach that
place. Three requests of a site let a removal fall between the read and the write of one
while another waits. Coins of 2 for payments of 3 make every payment take two of three
coins, so that a second one finds too little, or the change of the first. Two limits of
age to pass let one BTC entry get to its 24 h, or two past one limit each; an entry of XMR
or WOW has just the one. Three lost answers let every attempt at attaching the funding
fail, and two claimers with the sender race for the coins. Two runs of `startSession` or
`refreshBalances` at a time let an old one meet a new one. `tips_discarded`,
`send_slate_shown`, `refresh_moved` and `outage` have just what their counterexamples
need. The proofs take the bounds away where they matter most.

`CHECK_DEADLOCK FALSE` everywhere: the calls are bounded and the user may stop;
that nothing is stuck is what the liveness properties ask.

What the passing properties say, beyond their comments in the modules:

- `CacheNeverGoesBack` and `ConvergedAtRest` hold even without the lock, even
  after an expired wait: an update may then be lost, but all pages agree on
  which. `ConvergedAtRest` leaves out refused requests: `save()` fills the cache
  before the write, and nothing undoes it.
- `OnlyApproved` and `NothingLost`: a whole-record write of an older read neither
  gives a site what the user did not allow since the last removal (but what a request
  under way then had in hand, see below), nor takes away a grant, as long as the
  site's requests come one after another.
- `TokenFitsWindow` is the comment of `bootstrapDedupKey`: with the key reduced to
  the wallet, a token crosses backends in a few steps.
- `DistinctInOneWindow`, `AdvancesInOneWindow`, `ShownWithinLastAnswer` are
  conditional on one window having issued so far; with two they fail (below).
  `IssuedWithinSomeAnswer` holds for any.
- `AnswerIsUsers`: whichever of removal and result is heard first, a written
  decision is never turned into its opposite.
- `LockHolds` covers an unlock, restore, hand-off and grace caught by a lock at any
  `await`. It relies on a storage event reaching a window no later than the answer
  to a request it issues afterwards (`Ordered`), an assumption about the browser that
  nothing in the repository supports or denies.
- `NoRevokedKeysAtRest` is checked and proved for windows that close only between tasks.
- `BroadcastHeld` is stated for sends with change, recorded, within the week; for which
  wallets it is proved, below.
- `InFlightIsCovered`: until its entry is past a limit of age, list and backend leave no
  gap between them, whatever reads fail and whenever they are answered; past it the code lets
  go on purpose (below). For BTC and LTC it holds at any age where the
  backend is prompt, and only there. It rests further on three things: a block takes longer
  than the two reads of one refresh (`Index`), the network does not drop XMR or WOW
  transactions, and, in the run but not in the proof, a window has one refresh at a time.
- `NoInputTwice` is about sends of the wizard and of approvals, and the payments their window
  had heard of and whose entries were not past a limit of age when the send began (any age,
  for a prompt BTC or LTC backend). A tip passes no inputs to leave out (below).
- `SentIsDeducted` is for one window, and for what is on its way and not yet let go for its
  age. It says when the two sources, list and report, complement each other (`OneStory`);
  where they do not, the code deducts too little. Where a balance read may fail by itself it
  speaks of BTC and LTC payments only until they are mined. What it does not say is false of
  the code and listed below.
- `KeptUnlessDiscarded` names the two ways the code has to lose a tip's key.
  `SuccessIsPaid`: the sweep, not an empty listing, is the evidence.
- `ClientFitsBackend`: `pinBackend` and the scope's checks leave no order of sign-ins,
  capability reads and moves in which a window presents a token to another backend than
  its own, or caches one as of another.
- `NumbersFitBackend` is checked where no refresh is under way at a switch; where one is,
  it fails (`refresh_moved`).
- `Follows`: every window ends at the backend chosen last and, unlocked, with a session of
  it or with the error of a failed sign-in. A switch waits until the last one was heard by
  every window (`Choose`), and a failed sign-in, a switch and refreshes do not all occur in
  one behaviour; below is what happens where they do.
- `VaultPaidWithMemo` covers a submit that outlives its screen, its draft or its swap.
  `ExchangeKept` is for a user who waits for the handlers of the screen he is on (no
  hand-off is written under one either), and for behaviours in which no cancel has set off
  a build of its own (below).


## Fairness

`Spec` has none; `session_pages`, `windows`, `background`, `funds` use it. The two runs with
liveness, and `outage`, have per part:

- Session state: weak fairness of beginning a queued update, granting a free lock,
  settling a write, delivering a message, per page. The event loop and the lock
  manager give it. Not of opening, calling or closing.
- Jobs: of the worker's continuations, the document's creation or failure,
  and per mount handling, receiving and the end of a job. Sign-in has its own
  timeouts, so a handler settles. Not of eviction, collection or the user.
- Subaddresses: of a call's next step; storage and server answer, perhaps with
  a failure.
- Prompts: of the worker's steps and events, and of the user, who in the
  end decides or closes the window. The code waits for the user without limit on
  purpose; without that assumption no request need settle. `EarlyDismissal =
  FALSE` there: a window is not dismissed before the worker listens for it (below).
- Backends: per window, of storage's answers, the steps of a switch, the effects and the
  end of a lock; per task, of its next step, since storage answers and requests have
  timeouts. Not of the user, nor of failures, nor of the capabilities read. `outage` adds
  `Polling`: the background poll of an open, visible window, as often as the bound allows.

The properties are written with `<>[]` and `[]<>` rather than `~>`: the calls of a behaviour
are bounded, so "each one settles" is "from some point on none is pending", and the
queue of a page is empty again and again exactly if every update in it settles.


## Proofs

TLAPS checks all of it; nothing is assumed besides the named `ASSUME`s of the modules,
which TLC evaluates on every run, and what a theorem states of its constants: that `None`
and `"sender"` are no claimers, that no swap is named like the vault, that `None` is no
set of scopes, no draft, no slate, no entry and no report of the backend; and, where a
property is only meant then, that storage events are not overtaken (`Ordered`), that no
window pops out in the middle of its lock, that one window uses the overlay and kept its
counter, that no refresh is under way at a switch (`overlap`), that the network does not
drop XMR and WOW transactions, that Chrome's offscreen document exists (`HasOffscreen`).
The passing runs that check those properties satisfy them, but `windows`, which goes
further: it has pop-outs in the middle of a lock and a restored wallet too. No theorem
bounds the numbers of windows, pages, mounts, calls, payments, handlers or failures.

**`SessionStateProofs`.** `TypeCorrect`: types, and that a page waits for exactly the
answer its running update asked for. `PromiseInvariant`: under `UnderLock` (a lock,
no expiry, readable storage, no refused write into an empty area), `PromiseInv`
holds for any pages, contents and mutators. It is inductive: an update past its
wait holds the lock (`LockHeld`), so no other page writes between its read and its
write, so the answer on its way is what is stored (`ReadIsFresh`);
`NothingMeansDefault` is needed because `readCurrent` takes the cache when storage
is empty, and that must be the defaults. `Implements`: from it, every step of
`SessionState` is a step of `SharedState` or a stutter: the write of an update is
the abstract update, everything else changes neither value nor pending calls.
`PagesConverge` and `CachesAdvance` need neither the lock nor any bound on own writes. What
reads under way tell a page was stored, in the order of the writes (`ReadsInOrder`), and
a page either has in its cache what is stored or something is still coming that makes it
so: every stale read or cache is followed by the announcement it missed, by its own
write's reply, or by the read of a resynchronisation (`Converging`).

**`ServicesProofs`.** `TypeCorrect`. `OneWindowDistinct`: while one window
has issued, no index twice, for any numbers of windows and calls and any
failures: the stored counter is at least every index issued, and only the head of
the chain is between its reads and its write, so what it observed is what is
stored. `OneWindowAdvances`: from the same invariant, each step of the counter is
by one. `IssuedWithinAnswers`, for any number of windows: a call past its gate has a
candidate within an answer the server gave, what it wants to store being what the gate
makes of its last answer (`GateHolds`), and every ceiling and index in storage or
in hand came from one (`CeilingsAnswered`, `IndicesAnswered`). `ShownWithinAnswer`: in one
window what was heard last is what is stored (`HeardInv`). `ClientFits` and `NumbersFit`
are those of the next module.

**`BackendSessionProofs`.** `ClientFits` and `NumbersFit`, for any windows, backends, runs and
scenarios. A client and its token change together, but the relay stays behind at the boot
and at a switch made here, until the session is dropped: so the invariant has that a window
at its boot has nothing yet (`Unborn`), and which of storage's answers may be on its way
(`FirstAnswer`); a token is cached under the backend its scope captured (`CachingFits`).
For the figures: no run or switch is younger than its window (`Ages`), a run that looks at
its scope does not outlive the session it began in (`LateRuns`), and the figures in the
snapshot, in runs and in the session are of the backend of each (`FiguresFit`). That is
where `overlap` is used, and where `refresh_moved` breaks it.

**`WalletLockProofs`.** `LocksHold`: what a window has heard of is the lock id less its
announcements still on their way. A task whose generation is still current captured the id
at that, or a later one; the entries in storage carry the lock they were entered under
(`Entry`); so what passes the last look was entered after the last lock the window knows of.
A read is answered after every event before it, which is `Ordered`. `StaysLocked` needs no
order: it is inductive as it stands, for a window that could not publish its lock ends each
of its tasks at the next look. `RevokedKeysCleared` (`NoRevokedKeysAtRest`), for `Ordered`
storage and windows that pop out, if at all, not in the middle of their own lock
(`PopsOutBetweenLocks`; without it the property fails, below): an entry of an earlier lock is
in storage only while a window that published a lock has still to clear the slots, or while
the one that wrote it has its second look ahead and will find it outlived (`Swept`,
`Cleans`). A lock that comes between a writer's two looks thus leaves no entry behind,
whichever of writer and locker gets to it first.

**`WindowsProofs`.** `LocksHold`, `StaysLocked` and `RevokedKeysCleared` in the
composition, and of the overlay `TypeCorrect`. `NeverReused`: with one window, and until a
read of the slot fails, no two flows get the same child index, whatever is closed,
rejected or lost, for any number of flows and outputs. `IndexNeverReused` alone is not
inductive; `CounterInv` adds that every index handed out is below the stored counter
(`HandedOutBelow`) and that what the running operation has loaded still is what storage
holds (`LoadedIsStored`), which is where the one window is used: only the running
operation of a window writes. No operation lowers the counter (`SavedType`), and only a
reservation hands one out, moving it by one (`SaveCounts`). `CancelFrees`, of the same
window: an entry marked as broadcast is of a payment that was (`BroadcastSent`); what
waits for a window's chain is at an operation and waits once (`QueuesHold`); what a cancel
is for is past its booking, so that nothing books it again (`CancelsDelivered`); and what
a cancel freed stays freed (`Freed`). `BroadcastStays` (`BroadcastHeld`), of the same
window and a wallet that kept its counter: what is on chain, in a scan or about to be made
is below the counter (`BelowCounter`), so a new output is on no chain and in no scan, and
no scan shows it before its transaction is mined (`OffChain`); outputs of two flows differ
(`OutsApart`), so mining one does not show another. Hence no reconcile, however old its
scan, can settle the entry of a send with change that is recorded (`Held`), and remove
leaves an entry that was broadcast.

**`BackgroundProofs`.** Of sites, `HoldsOnlyApproved`: `OnlyApproved` for any requests,
assets, kinds and number of removals. What is stored now may have been in a request's
hands before it was approved or removed, so the invariant adds where every record comes
from: what a request has read or is to write is approved or was carried over the last
removal (`HandsClean`), and a request not yet answered writes what it read (`Unanswered`);
`Shape` has the types that case distinction needs. `GrantsLast`: while requests come one
after another, what was allowed is in the record the one under way is to write, and until
its prompt is answered in the stored one (`Carries`, `Stored`). Of prompts,
`OneWindowAtATime`, `QueueStaysBounded` and `AnswersAreUsers`: the places taken in the
queue are the calls in line and those that check before joining it (`PlacesCounted`); the
slot is held by the first in line that got it, and windows and records exist for that call
alone (`LineOrdered`); and what is stored, read or announced is what the window wrote
(`AnswersFit`), so a removal heard first does not change it. `OpeningsStayBounded`: the
prompts of an origin that opened after a time, or may yet, and are not on record as let in
after it were in line at that time (`Since`), so they are no more than the line holds
(`EarlierBounded`): a prompt that joins later is recorded then, and a record is kept for
the rate window. Recorded ones stay within the cap (`RecordsBounded`). Of jobs,
`TokensFitWindows`: a key, a record and a request of a mount name the backend of that
mount (`KeysFit`). `FinishedStaysFinished`: whatever continues a job finds its record
where the last step left it (`EntryStands`), since no continuation of a start is behind
one of a report and nothing of the reports is behind the end (`Orderly`), and a job is
with the document or the runner at most once (`JobsStand`). `NothingLeft`, with the
offscreen document and a worker that is not evicted with work in hand: each job on record
as under way, and each job a key points at, is in line for the document, with the runner,
or in the hands of a continuation that will move it on (`CarriedOn`). An eviction with
work in hand, which Chrome allows, does leave one that nobody works on: the invariant is
about behaviours without one (`budget.busy`).

**`FundsProofs`.** Of payments, `CoveredInFlight` and `NothingSpentTwice`, for any
windows, payments, coins, and refreshes under way at a time. What is not yet broadcast
nobody has heard of (`Unsent`). An answer of the backend is older than what it lists now,
so what an answer lists and is still on its way is listed now (`Answered`); with a prompt
backend nothing on its way grows old unlisted (`OldIsListed`); and XMR and WOW
transactions are not replaced, so that two payments on their way never share an input
(`NoReplacement`) and key images seen spent are those of the payment itself. With these a
refresh that lets go of a payment whose entry is not past a limit has seen it listed
(`LetGo`), whether or not its other read failed. A window knows what it has heard of and
is still in the list (`KnowsWhatItHeard`), so a payment of the wizard leaves out the
inputs of whatever its window has heard of and is not past a limit, or the backend lists
that already (`LeavesOut`) and offers them no more; what passes a limit after the send
began is left out all the same.

`DeductedWhenSent` is for one window whose refreshes come in turn (`~Overlap`: where they
overlap, an older balance overwrites a newer one and the property fails), for any finite
sets of payments and coins (`CoinAssumptions`). It needs two things. First, that what is
on its way and owed to the screen, that is, not past the age at which it is let go
unlisted and, where balance reads fail by themselves, not mined (`Owed`), is on screen or
still in the list (`Covers`). A refresh that drops such a payment has seen its key images
spent or its transaction mined (`Keeps`). The key images are the balance it shows. A
transaction seen mined is mined (`Reported`) and so no longer owed where that balance may
be missing; where it is there, it lists the payment too, in whatever order history and
balance are read, since no block falls between the two. What was owed after a step was
owed before it (`OwedBefore`): time only takes away. Second, that the amounts then add up.
A report that lists a payment as mined lists all that it spends as mined (`Reported`), so
no change that a pending payment of the list makes is already spent by a mined one; and a
payment is worth its cost and its change (`Priced`), which is fixed before anyone hears of
it. For BTC and LTC the larger of the two deductions is then that of the source that knows
more. The library's sums are recursive; that the order of summands is no matter, that a
sum over disjoint sets adds up, and that one over a union is no more than those of its
parts is proved from a smallest counterexample (`Smallest`) instead of an induction.

Of tips, `SuccessMeansPaid`, `ReturnedWhenMarked` and `KeptOrGivenUp`, for any windows,
claimers, attempts and lost answers. Beside the three themselves the
invariant has: a window that is past its sweep has its coins back (`SweptBack`); a
claimer who is about to report has spent the coins himself (`SweptFor`); and once a window
is about to fund, the key is in storage, unless it was refused, discarded with the row,
or the coins are spent (`BackedUp`), which no later step but a discard undoes.
`VaultNeedsMemo`, `TxidNamesDeposit` and `ExchangeStays` are those of the
next module.

**`SendDraftProofs`.** `VaultNeedsMemo`: any handlers, swaps and scenarios. The
fields of a draft that name the vault came from a swap whose memo it keeps as its context,
since an address can be re-entered but not typed, and the context is only dropped with
the fields (`Good`); a handler at its broadcast holds a draft that passed the check.
`Good` speaks of the draft each handler captured, not of the current one: that is why
leaving, reopening or a second hand-off between check and broadcast does not matter.
`TxidNamesDeposit`: a payment names the swap its handler's draft came from, and the journal
and the swap learn txids of those alone (`JournalOK`). `ExchangeStays`: while the user waits,
handlers run on the current draft only and at most one of a kind (`Handlers`), in a step of
the wizard that fits (`Steps`), so that a reply that is waited for is that of the draft on
screen (`Waits`). A cancel between its two updates holds the draft it was begun on, less the
slate, and nothing waits; a build it sets off there is a handler of no draft's and ends the
argument only once its slate is made (`NoStray`), for it can also fail.

Only model-checked:

- All liveness: the provers do not take fairness with `ENABLED`.
- `BroadcastHeld` of a restored wallet: without its key ids it counts from an index that
  outputs on chain may have, so with more flows than the run's a repeated commitment can be
  mistaken for the broadcast's input. It holds where that does not happen, and what
  excludes it is not in the code.
- `NoRevokedKeysAtRest` where a window pops out in the middle of its own lock. With the
  run's windows it holds; with three, one may unlock, pop out and close while its
  lock's announcement is on its way, and the record it leaves is then never looked at.


## Disagreements between code and text

Six are kept as runs:

- **`subaddr_unconfirmed`.** When provisioning fails, `advance()` falls back on the
  cached ceiling and may issue without confirmation
  (`receive-subaddress-index.ts:290, 309`), though its comment says a failed
  provisioning "blocks issuance rather than guessing" (270-272).
- **`grin_windows`.** The chain that makes `reserveNextChildIndex` atomic is a `Map`
  of one JavaScript context (`grin-pending-overlay.ts:206`); the popup and a
  popped-out window each have their own, over one slot, and may be handed the same
  index, though "two concurrent mint flows can never be handed the same index"
  (334-335).

- **`tips_discarded`.** The backend holds a tip as a draft until its funding is
  attached. A window that closes between the two leaves a funded draft, whose row offers
  "Discard draft", which removes the key's backup (`routes/sent-tips.tsx:160`), though
  "the on-chain funds are still recoverable: the local backup carries the tip key"
  (`tip-handler.ts:84-86`).
- **`send_slate_shown`.** The Grin exchange builds its slate once; going back, editing the
  amount and returning shows the new amount over the old slate (`SendWizard.tsx:1737`),
  in what is called a "read-only confirmation that the built S1 matches what the user
  intended" (1838-1839).
- **`refresh_moved`.** `dropBackendSession` waits for storage and the worker between the new
  generation (`index.tsx:2121`) and the end of the old session (2146). A refresh begun
  meanwhile has the new backend's scope, merges over the old session's figures (1208) and
  writes the mixture as the new backend's snapshot (1229), though "numbers fetched from
  one backend never land in the session, or the snapshot, of the backend this window has
  moved to" (1118-1119). A refresh begun before the switch may also set the figures of
  the old backend (1207) after the last look at its scope (1184).
- **`outage`.** A sign-in that fails behind the snapshot leaves its figures with an empty
  user id (1097-1101). Polls and the refresh button ask for a user id (1564, 1590, 2039),
  the error screen with its retry is for a wallet without figures (2166), and the effect
  starts a session only where there is none (1616): "a persistent outage must keep retrying
  so the cue escalates and then recovers on its own" (1559-1560) fails in the open window.

Others met while modelling. The models contain them unless said otherwise; the
properties are stated so as not to claim what fails, and no run is spent on them:

- Two start requests for one key both read an empty dedup mapping and both run a
  sign-in (`coordinator.ts:268`; `jobs/types.ts:131-133`, `bootstrap-auth.ts:78-80`
  say they do not).
- A worker evicted with a job awaited: the subscription is gone and the wait does
  not settle (`popup/jobs/client.ts:65, 150-151`). `SettlesWhileConnected` ends with
  the port.
- Two windows may issue the same subaddress: between the re-read and the write
  there is no lock (`receive-subaddress-index.ts:246-248` against 50-52).
- An approval window closed before its removal listener is registered holds the slot
  and the call for ever (`approval.ts:201, 278, 284` against 264-265).
- After an eviction a decision has no listener (`approval.ts:211-212` against the
  header, 12-17).
- A window closed after an approval took effect and before its result is written
  reads as the user's refusal (`approval.tsx:206`; `dapp-api/src/protocol.ts:262`).
- The rate cap counts admissions; prompts that waited in line open bunched
  (`approval.ts:58, 97, 172`). `OpeningsBounded` has the line's length added.
- A late cache write of a window that closes before its second look stays in
  storage until some window refreshes (`session-cache.ts:119` against 32); and that
  second look may remove a session stored later (35-38). The lock id keeps the
  former from being restored.
- A failed read of the Grin slot answers an empty overlay, and the next save drops
  every entry and rewinds the counter (`grin-flows.ts:1389-1391`); for the same
  reason the guard "if we can't even read the overlay, ASSUME broadcast" (935-941)
  never acts.
- A Grin send without change is retired by a scan older than its input, since only
  the input's absence is asked for, which is no "proof the spend confirmed"
  (`grin-pending-overlay.ts:18, 166-169`).
- A window closed, or an answer lost, between the broadcast and its record leaves an
  unflagged entry, which a cancel frees (`grin-flows.ts:864-879`).

Of payments in flight:

- A limit of age goes by the clock, "regardless of whether the scan caught up"
  (`pending-outgoing.ts:116-129`). WOW's 5 minutes are "short by ~30%, intentionally"; XMR has
  30 minutes, BTC and LTC an hour once a history read does not list the payment, 24 h
  otherwise. Until the backend lists the spend its inputs are then offered to
  the next send, and shown as available: more than the "brief flicker" of the balance that
  the comment allows for. The model has it; the properties speak of entries that are not
  past a limit, and of older ones only where a backend is prompt. With inputs recorded, the
  comment says, the age-out "only backstops entries that carry no `inputs`"; `isStale`
  makes no such difference (155-158).
- "Listed as mined: dropped. `confirmed` now reflects the spend" (331-332), but balance and
  history are separate requests. Where the balance read fails alone, the figure of the last
  refresh stays on screen (`index.tsx:1171-1173, 1207`) while the history read lets go of the
  entry (1199), and that figure still counts the inputs: spent coins are available, and no
  debit covers them, until a balance read succeeds. "Order does not matter"
  (1137-1139) is the same claim. The model has it (`partial`); `SentIsDeducted` leaves
  it out.
- Any locked amount suppresses the whole deduction of XMR and WOW sends, a second
  one the backend does not list yet included (`lwsReflectsSpend`,
  `index.tsx:3617-3621`); for BTC and LTC the larger of the two debits is taken where each
  knows of a payment the other does not. `OneStory` excludes both.
- Refreshes of one window may overlap, and an older balance then overwrites a newer
  one; two windows each show a balance of their own. The runs have one refresh per
  window at a time, and `SentIsDeducted` is for one window.
- History is read before or with the balance; that order "does not matter"
  (`index.tsx:1137-1139`) only as long as no block falls between.
- Funding a tip passes no inputs to leave out (`tip-handler.ts:329, 594`), so it may take
  those of a payment in flight.
- A lost answer, or a window closed, between the broadcast and its record loses the
  entry, and the inputs are offered again until the backend lists the spend.

Of sites:

- A revocation is not binding: a request under way writes its whole record back after
  it (`wallet-handler.ts:159-170, 651-662` against `settings.tsx:158-160, 282-284`), which
  is why `OnlyApproved` has `carried`.
- `connect()` "only ever widens" (`wallet-handler.ts:157`) fails for overlapping prompts.
- `mergeNostrSession` gives the kinds a session keeps the newer expiry, from a time
  taken before the prompt. Expiry is left out of the model.

Of tips:

- A failure to store the key's backup is swallowed (`tip-key-backup.ts:250-255`), and the
  tip is funded all the same; the sender's only way back is then missing (`lacking`).
- `SentTipsScreen.tsx:12` calls `cancelled` terminal; 267-272 offers a clawback there,
  which is what recovers a funded tip whose draft the backend collected. Another
  screen, `AssetDetailScreen`, has no such offer.
- "Claim removes the backup" (`tip-key-backup.ts:48`) is not so on the sender's device.

Of Send:

- "Send reaches it only after the broadcast" (`send-draft.ts:6`): a submit whose draft
  was left and replaced shows its receipt on the newer draft.
- "One submit at a time" holds while Review stays mounted, in one window. Left and
  reopened, the same draft can be sent twice; so can one whose window closed between
  broadcast and receipt.
- Asking before a hand-off, and overwriting after it, may be about two different
  drafts (`WriteHandoff`).
- The cross drops a Grin exchange without telling the recipient, unlike Cancel.
- "Cancel" shows "{amount} locked · cancel to unlock" (`SendWizard.tsx:2031`). It clears the
  slate in one update (579) and leaves Send in a later one (588), and between them the
  mounted screen's effect, which looks at the slate alone (1737-1752), builds another, locks
  inputs for it and sends it to the recipient; leaving forgets its context, so that its
  reply cannot be finalized. `ExchangeKept` leaves out behaviours in which such a slate was made.
- Two builds of one exchange, the screen left and opened again during the first: the
  second slate replaces the first; and a build's answer goes to whatever draft is
  current. `ExchangeKept` is for a user who waits.
- A hand-off that was asked about before a handler began is written while it runs
  (`popup/send-handoff.ts:83-90`): the handler's answer then lands on the draft the hand-off
  opened. Two builds may so meet in one draft, or a payment's receipt end an exchange that
  waits for its reply. It takes three drafts, and showed when the proof of `ExchangeKept`
  failed.

Of sessions at a backend:

- A sign-in under way at a lock is cached after `lockHandler` cleared the cache
  (`index.tsx:991`, `bootstrap-cache.ts:117` against 91-92: "no longer and no shorter").
- The error of an older run is shown after a further wait (`index.tsx:1086-1096`) over whatever
  session there is by then; a refresh clears the error, not the missing user id.
- A second choice of a backend made before the first is heard everywhere may leave a
  window at the first one: it reads the selection in between and is pointed there after
  its own write (`backend-config.ts:118-130`). `Choose` waits.
- A wallet UI that was started over while it dropped its own session clears the relay the
  new one has taken (`index.tsx:2145`); `ClientFitsBackend` speaks of other backends' relays.

Documented and accepted by the code, so excluded where needed: an update that runs
without the lock after `LOCK_WAIT_MS` may lose another's change
(`session-state.ts:334-351`); a Firefox worker suspended with a job leaves it
running on record (`coordinator.ts:313`); a restored Grin wallet whose outputs carry
key ids does not seed its counter (`grin-flows.ts:337-342`).

More hazards of the modelled parts, which `PROJECT.json` does not list: a rejected
`save()` leaves the cache ahead of storage (`session-state.ts:525`) and `readCurrent`
builds on it when storage is empty (589); the collection timer dies with the worker
(`coordinator.ts:384`); a window that fails to open leaves its pending record
(`approval.ts:201`) or is closed before the listener for that is there (278); a worker
that dies between recording a job and handing it over (`coordinator.ts:288`); a failed
read of the Grin slot, or an unrecorded broadcast (`grin-flows.ts:1389, 879`), both above;
a ceiling the server lowers (`receive-subaddress-index.ts:310`, `ShownWithinLastAnswer`);
a hand-off read by two windows (`session-cache.ts:54`); a session removed by another
window's lock-every-time setting (18).


## Not modelled

- Inside modelled parts: deadlines of the session cache and the grace, replacing the
  wallet, the message hub's own unlock (`WalletLock`); which origins are connected
  changes in no run, and unlocking inside the approval window belongs to
  `WalletLock` (`DappApproval`); paying a Grin invoice, tips and claims, fees and
  maturity, delivery channels (`GrinOverlay`). An identify search recognises all
  spendable outputs or none. No Grin flow outlasts the age-out. One window with
  closings stands for windows used one after the other, since a window keeps nothing
  at rest. Fees, dust and output formats (`PendingOutgoing`); expiry of Nostr
  sessions, identities and timestamps (`SitePermissions`); delivery of a link, amounts,
  deadlines (`Tips`); a user who types the vault's address by hand, quotes and
  Trocador's own statuses (`SendDraft`); chains that are scanning, a selection that cannot be
  read after a change, expiry of cached records (`BackendSession`).
- Cryptography, WebAssembly bindings, the Rust crates' builders: functions of their
  arguments; their correctness is arithmetic on curves or serialisation.
- The API client, chain providers, relays: I/O; the backend is not in the repository.
- Swap providers: clients that poll external exchanges.
- The dapp bridge's relay: requests matched by id, no state of its own.
- Screens, key maps, assets, end-to-end fixtures, release scripts, vendored code.
- The desktop shell: one window over a shim; the modules with one window cover it.


## Plan

Done, in this order: `SharedState`, `SessionState`, `JobCoordinator`,
`ReceiveSubaddress`, `DappApproval`, `WalletLock`, `GrinOverlay`, `SitePermissions`,
`PendingOutgoing`, `Tips`, `SendDraft`, `BackendSession`, and the compositions `Background`,
`Windows`, `Funds`, `Services`; proofs of all twelve components.

Next modules, by what is at stake:

1. The rest of `GrinOverlay`: paying an invoice, tips and claims.
2. Journals and vault (`grin-tx-journal.ts:146`, `send-journal.ts:239`): two windows over
   one record.
3. Premium purchase: an unpaid invoice remembered across windows.
