------------------------------- MODULE WalletLock -------------------------------
(****************************************************************************)
(* Who holds signing keys: the wallet windows of the extension, what they   *)
(* share through chrome.storage.session (the session cache, the hand-off to *)
(* a popped-out window, the grace of a dapp's sign-in flow), and the lock   *)
(* that must take all of it away (popup/session-lock.ts, session-cache.ts,  *)
(* flow-grace.ts, core's WalletKeystore).                                   *)
(*                                                                          *)
(* A step of a window is the code between two awaits.  A storage request    *)
(* takes effect when it is issued; `task` keeps what it read until the      *)
(* answer comes.  Each window runs one unlock, hand-off or refresh at a     *)
(* time, and a lock besides.  WalletKeystore.lockGeneration is only ever    *)
(* compared with the value one of these captured: task[w].current says they *)
(* are still equal.  Deadlines are left out, and so is replacing the wallet.*)
(****************************************************************************)
EXTENDS Naturals

CONSTANTS
  Window,       \* windows of the extension, each opened at most once
  Approval,     \* those that are dapp approval windows, all of one site and tab
  None,         \* nothing stored, no wallet
  Ordered,      \* a storage event arrives before the answer to any later request
  Scenario      \* bounds, one of which a behaviour has

(* Bounds: the windows there are, how many locks, passwords entered and     *)
(* locks that cannot be published, and what (a task, a lock) a window may   *)
(* be closed in the middle of.                                              *)

VARIABLES
  lockId,       \* storage.session SESSION_LOCK_KEY; each lock writes a new one
  slots,        \* storage.session: what each slot holds
  window,       \* window[w]: unopened, open, closed
  wallet,       \* wallet[w]: the keystore's cached wallet
  unpublished,  \* unpublished[w]: unpublishedLocalLock
  task,         \* task[w]: the unlock, hand-off or refresh w is at
  locking,      \* locking[w]: the lock w is at
  pending,      \* pending[w]: lock events w has not heard yet
  budget        \* what the bounds of the scenario leave

vars == <<lockId, slots, window, wallet, unpublished, task, locking, pending, budget>>

Slot == {"cache", "handoff", "grace"}

(* An entry of a slot holds the lock it was written under, the lock under   *)
(* which the password behind its keys was entered (epoch), and its writer,  *)
(* for its deadline.                                                        *)

Idle == [at |-> "idle", slot |-> None, epoch |-> 0, lockId |-> 0, again |-> 0,
         saw |-> None, current |-> TRUE, owed |-> 0]

-------------------------------------------------------------------------------
(* Steps of a task.                                                         *)

At(w, step) == window[w] = "open" /\ task[w].at = step /\ task[w].owed = 0

(* w issues a request and goes on with t when it is answered.               *)
Goes(w, t) == task' = [task EXCEPT ![w] = [t EXCEPT !.owed = IF Ordered THEN pending[w] ELSE 0]]

Goto(w, step) == Goes(w, [task[w] EXCEPT !.at = step])
Ends(w) == task' = [task EXCEPT ![w] = Idle]

(* The two reads of the lock, before and after.                             *)
ReadLock(t, step) == [t EXCEPT !.at = step, !.lockId = lockId]
ReadAgain(w, step) == Goes(w, [task[w] EXCEPT !.at = step, !.again = lockId])
ReadSlot(w, step, k) == Goes(w, [task[w] EXCEPT !.at = step, !.saw = slots[k]])

(* Mutant: a window's own lock that failed is forgotten.                    *)
CanRestoreLocalSession_Always(w) == TRUE

CanRestoreLocalSession(w) == ~unpublished[w]

(* refresh: tryRestoreSessionCache, after tryRestoreFlowGrace in an approval*)
(* window.                                                                  *)
Restoring == [Idle EXCEPT !.at = "state"]

Refresh(w) ==
  IF w \in Approval /\ CanRestoreLocalSession(w)
  THEN [Idle EXCEPT !.at = "grace", !.saw = slots["grace"]] ELSE Restoring

Refreshes(w) == Goes(w, Refresh(w))

Removed(K) == slots' = [k \in Slot |-> IF k \in K THEN None ELSE slots[k]]

OnlyTask  == UNCHANGED <<lockId, slots, window, wallet, unpublished, locking, pending, budget>>
TaskAndSlots == UNCHANGED <<lockId, window, wallet, unpublished, locking, pending, budget>>
TaskAndWallet == UNCHANGED <<lockId, slots, window, unpublished, locking, pending, budget>>

-------------------------------------------------------------------------------
(* Restoring a session.                                                     *)

(* The epoch check and admitRestoredSession: no await between them.         *)
Admissible(w) ==
  /\ task[w].again = task[w].lockId
  /\ CanRestoreLocalSession(w)
  /\ wallet[w] = None
  /\ task[w].current

Admits(w) ==
  wallet' = IF Admissible(w)
            THEN [wallet EXCEPT ![w] = [epoch |-> task[w].saw.epoch, full |-> FALSE]]
            ELSE wallet

Fresh(w) == task[w].saw.lockId = task[w].lockId

(* tryRestoreFlowGrace: the grace is read ...                               *)
GraceRead(w) ==
  /\ At(w, "grace")
  /\ IF task[w].saw = None THEN Goes(w, Restoring)
     ELSE Goes(w, ReadLock([task[w] EXCEPT !.current = TRUE], "graceEpoch"))
  /\ OnlyTask

(* ... a stale one is cleared, a good one goes on to the keystore's state,  *)
GraceEpoch(w) ==
  /\ At(w, "graceEpoch")
  /\ \/ ~Fresh(w) /\ Removed({"grace"}) /\ Goes(w, Restoring)
     \/ Fresh(w) /\ UNCHANGED slots /\ Goto(w, "graceState")
  /\ TaskAndSlots

GraceState(w) == At(w, "graceState") /\ ReadAgain(w, "graceAdmit") /\ OnlyTask

GraceAdmit(w) == At(w, "graceAdmit") /\ Admits(w) /\ Goes(w, Restoring) /\ TaskAndWallet

(* tryRestoreSessionCache: a live session stays; a password acknowledges a  *)
(* lock that was never published.                                           *)
State(w) ==
  /\ At(w, "state")
  /\ unpublished' = [unpublished EXCEPT ![w] = @ /\ (wallet[w] = None \/ ~wallet[w].full)]
  /\ IF wallet[w] = None /\ CanRestoreLocalSession(w)
     THEN Goes(w, ReadLock(task[w], "epoch")) ELSE Ends(w)
  /\ UNCHANGED <<lockId, slots, window, wallet, locking, pending, budget>>

Epoch(w) == At(w, "epoch") /\ ReadSlot(w, "handoff", "handoff") /\ OnlyTask

(* A hand-off is taken whether it is good or not.                           *)
Handoff(w) ==
  /\ At(w, "handoff")
  /\ \/ task[w].saw = None /\ UNCHANGED slots /\ ReadSlot(w, "cache", "cache")
     \/ /\ task[w].saw # None
        /\ Removed({"handoff"})
        /\ Goto(w, IF Fresh(w) THEN "entry" ELSE "stale")
  /\ TaskAndSlots

StaleHandoff(w) == At(w, "stale") /\ Removed({"handoff"}) /\ Goto(w, "next") /\ TaskAndSlots
NextSlot(w) == At(w, "next") /\ ReadSlot(w, "cache", "cache") /\ OnlyTask

Cache(w) ==
  /\ At(w, "cache")
  /\ \/ task[w].saw = None /\ UNCHANGED slots /\ Ends(w)
     \/ task[w].saw # None /\ ~Fresh(w) /\ Removed({"cache"}) /\ Ends(w)
     \/ task[w].saw # None /\ Fresh(w) /\ UNCHANGED slots /\ Goto(w, "entry")
  /\ TaskAndSlots

EntryState(w) == At(w, "entry") /\ ReadAgain(w, "admit") /\ OnlyTask

Admit(w) == At(w, "admit") /\ Admits(w) /\ Ends(w) /\ TaskAndWallet

Restore(w) ==
  \/ GraceRead(w) \/ GraceEpoch(w) \/ GraceState(w) \/ GraceAdmit(w)
  \/ State(w) \/ Epoch(w) \/ Handoff(w) \/ StaleHandoff(w) \/ NextSlot(w) \/ Cache(w)
  \/ EntryState(w) \/ Admit(w)

-------------------------------------------------------------------------------
(* Unlocking, and writing a slot.                                           *)

(* The user enters the password; deriving the keys takes a while.           *)
Unlock(w) ==
  /\ window[w] = "open" /\ wallet[w] = None /\ task[w] = Idle
  /\ budget.unlocks > 0
  /\ budget' = [budget EXCEPT !.unlocks = @ - 1]
  /\ Goes(w, [Idle EXCEPT !.at = "unlocking", !.epoch = lockId])
  /\ UNCHANGED <<lockId, slots, window, wallet, unpublished, locking, pending>>

(* Mutant: WalletKeystore.unlock without its generation check.              *)
Unlocked_Unchecked(w) ==
  /\ At(w, "unlocking")
  /\ wallet' = [wallet EXCEPT ![w] = [epoch |-> task[w].epoch, full |-> TRUE]]
  /\ Goto(w, "minutes")
  /\ TaskAndWallet

Unlocked(w) ==
  /\ At(w, "unlocking")
  /\ \/ ~task[w].current /\ UNCHANGED wallet /\ Ends(w)
     \/ /\ task[w].current
        /\ wallet' = [wallet EXCEPT ![w] = [epoch |-> task[w].epoch, full |-> TRUE]]
        /\ Goto(w, "minutes")
  /\ TaskAndWallet

(* writeSessionCache: the setting is an auto-lock delay, or "lock every     *)
(* time", which clears every slot.                                          *)
Minutes(w) ==
  /\ At(w, "minutes")
  /\ \/ /\ Goes(w, ReadLock([task[w] EXCEPT !.slot = "cache"], "secrets"))
        /\ UNCHANGED slots
     \/ Removed(Slot) /\ Goto(w, "cleared")
  /\ TaskAndSlots

(* startFlowGrace follows in an approval window ...                         *)
Cleared(w) ==
  /\ At(w, "cleared")
  /\ IF w \in Approval /\ task[w].current THEN ReadSlot(w, "existing", "grace") ELSE Refreshes(w)
  /\ OnlyTask

(* ... and leaves a grace there already is.                                 *)
Existing(w) ==
  /\ At(w, "existing")
  /\ IF task[w].saw # None THEN Refreshes(w)
     ELSE Goes(w, ReadLock([task[w] EXCEPT !.slot = "grace"], "secrets"))
  /\ OnlyTask

(* A write that did not happen: a failed grace is only logged.              *)
Fails(w) == IF task[w].slot = "grace" THEN Refreshes(w) ELSE Ends(w)

(* ensureSessionSecrets wants the phrase, or keys that were not cleared.    *)
Secrets(w) ==
  /\ At(w, "secrets")
  /\ IF task[w].current THEN ReadAgain(w, "checking") ELSE Fails(w)
  /\ OnlyTask

Mine(w) == [lockId |-> task[w].lockId, epoch |-> task[w].epoch, by |-> w]

(* The grace serialised its keys before this check, the others do it after. *)
Usable(w) == task[w].slot = "grace" \/ task[w].current

Put(w) ==
  /\ At(w, "checking")
  /\ IF task[w].again = task[w].lockId /\ Usable(w)
     THEN slots' = [slots EXCEPT ![task[w].slot] = Mine(w)] /\ Goto(w, "writing")
     ELSE UNCHANGED slots /\ Fails(w)
  /\ TaskAndSlots

Written(w) == At(w, "writing") /\ ReadAgain(w, "finishing") /\ OnlyTask

(* A lock came while the entry was being written.                           *)
Outlived(w) == task[w].again # task[w].lockId \/ ~Usable(w)

(* finishCacheWrite: an entry that outlived its lock is looked up again ... *)
FinishOutlived(w) ==
  /\ At(w, "finishing") /\ Outlived(w)
  /\ \/ task[w].slot = "grace" /\ Removed({"grace"}) /\ Refreshes(w)
     \/ task[w].slot # "grace" /\ UNCHANGED slots /\ ReadSlot(w, "unwriting", task[w].slot)
  /\ TaskAndSlots

(* Mutant: an entry that outlived its lock is left where it is.             *)
Unwrite_Kept(w) == At(w, "unwriting") /\ Ends(w) /\ OnlyTask

(* ... and removed if it is still this one.                                 *)
Unwrite(w) ==
  /\ At(w, "unwriting")
  /\ IF task[w].saw = Mine(w) THEN Removed({task[w].slot}) ELSE UNCHANGED slots
  /\ Ends(w)
  /\ TaskAndSlots

Finish(w) ==
  /\ At(w, "finishing") /\ ~Outlived(w)
  /\ task[w].slot # "handoff"
  /\ Refreshes(w)
  /\ OnlyTask

Write(w) ==
  \/ Unlocked(w) \/ Minutes(w) \/ Cleared(w) \/ Existing(w)
  \/ Secrets(w) \/ Put(w) \/ Written(w) \/ FinishOutlived(w) \/ Unwrite(w) \/ Finish(w)

-------------------------------------------------------------------------------
(* Windows.                                                                 *)

(* A window subscribes to the lock, then refreshes.                         *)
Open(w) ==
  /\ window[w] = "unopened"
  /\ window' = [window EXCEPT ![w] = "open"]
  /\ Refreshes(w)
  /\ UNCHANGED <<lockId, slots, wallet, unpublished, locking, pending, budget>>

(* openPopOut: the session is handed off ...                                *)
PopOut(w) ==
  /\ window[w] = "open" /\ w \notin Approval
  /\ wallet[w] # None /\ task[w] = Idle
  /\ Goes(w, ReadLock([Idle EXCEPT !.slot = "handoff", !.epoch = wallet[w].epoch], "secrets"))
  /\ OnlyTask

Closed(w, tasks) ==
  /\ task' = [tasks EXCEPT ![w] = Idle]
  /\ wallet' = [wallet EXCEPT ![w] = None]
  /\ locking' = [locking EXCEPT ![w] = "no"]
  /\ pending' = [pending EXCEPT ![w] = 0]

(* ... the new window opens, and this one closes.                           *)
PopsOut(w, v) ==
  /\ At(w, "finishing") /\ ~Outlived(w)
  /\ task[w].slot = "handoff"
  /\ window[v] = "unopened" /\ v \notin Approval
  /\ window' = [window EXCEPT ![w] = "closed", ![v] = "open"]
  /\ Closed(w, [task EXCEPT ![v] = Refresh(v)])
  /\ UNCHANGED <<lockId, slots, unpublished, budget>>

Close(w) ==
  /\ window[w] = "open"
  /\ task[w] = Idle \/ "task" \in budget.closes
  /\ locking[w] = "no" \/ "lock" \in budget.closes
  /\ window' = [window EXCEPT ![w] = "closed"]
  /\ Closed(w, task)
  /\ UNCHANGED <<lockId, slots, unpublished, budget>>

-------------------------------------------------------------------------------
(* The lock.                                                                *)

(* WalletKeystore.lock, which any flow under way will notice.               *)
Revoked(w, tasks) ==
  /\ wallet' = [wallet EXCEPT ![w] = None]
  /\ task' = [tasks EXCEPT ![w].current = FALSE]

(* Each lock publishes an id never used before.                             *)
PublishedLock == lockId + 1

(* lockWalletContexts: keys first, then the lock is published to every      *)
(* window, this one included, or cannot be.                                 *)
Lock(w) ==
  /\ window[w] = "open" /\ w \notin Approval
  /\ wallet[w] # None /\ locking[w] = "no"
  /\ budget.locks > 0
  /\ unpublished' = [unpublished EXCEPT ![w] = TRUE]
  /\ Revoked(w, task)
  /\ \/ /\ lockId' = PublishedLock
        /\ pending' = [v \in Window |-> IF window[v] = "open" THEN pending[v] + 1 ELSE 0]
        /\ locking' = [locking EXCEPT ![w] = "published"]
        /\ budget' = [budget EXCEPT !.locks = @ - 1]
     \/ /\ budget.failures > 0
        /\ locking' = [locking EXCEPT ![w] = "failed"]
        /\ budget' = [budget EXCEPT !.locks = @ - 1, !.failures = @ - 1]
        /\ UNCHANGED <<lockId, pending>>
  /\ UNCHANGED <<slots, window>>

(* Published or not, the slots are cleared.                                 *)
LockAnswered(w) ==
  /\ locking[w] \in {"published", "failed"}
  /\ unpublished' = [unpublished EXCEPT ![w] = @ /\ locking[w] = "failed"]
  /\ locking' = [locking EXCEPT ![w] = "clearing"]
  /\ Removed(Slot)
  /\ UNCHANGED <<lockId, window, wallet, task, pending, budget>>

RefreshesIfIdle(w, tasks) == IF task[w] = Idle THEN Refreshes(w) ELSE task' = tasks

LockDone(w) ==
  /\ locking[w] = "clearing"
  /\ locking' = [locking EXCEPT ![w] = "no"]
  /\ RefreshesIfIdle(w, task)
  /\ UNCHANGED <<lockId, slots, window, wallet, unpublished, pending, budget>>

(* subscribeWalletLock: the event locks this window, then refreshes it.     *)
Deliver(w) ==
  /\ pending[w] > 0
  /\ pending' = [pending EXCEPT ![w] = @ - 1]
  /\ wallet' = [wallet EXCEPT ![w] = None]
  /\ IF task[w] = Idle
     THEN task' = [task EXCEPT ![w] = Refresh(w)]
     ELSE task' = [task EXCEPT ![w].current = FALSE,
                               ![w].owed = IF @ > 0 THEN @ - 1 ELSE 0]
  /\ UNCHANGED <<lockId, slots, window, unpublished, locking, budget>>

-------------------------------------------------------------------------------

Init ==
  /\ lockId = 0
  /\ slots = [k \in Slot |-> None]
  /\ budget \in Scenario
  /\ window = [w \in Window |-> IF w \in budget.windows THEN "unopened" ELSE "closed"]
  /\ wallet = [w \in Window |-> None]
  /\ unpublished = [w \in Window |-> FALSE]
  /\ task = [w \in Window |-> Idle]
  /\ locking = [w \in Window |-> "no"]
  /\ pending = [w \in Window |-> 0]

Next ==
  \E w \in Window :
    \/ Open(w) \/ Close(w) \/ Unlock(w) \/ PopOut(w) \/ Lock(w)
    \/ Restore(w) \/ Write(w)
    \/ \E v \in Window : PopsOut(w, v)
    \/ LockAnswered(w) \/ LockDone(w) \/ Deliver(w)

Spec == Init /\ [][Next]_vars

-------------------------------------------------------------------------------
(* Properties.                                                              *)

(* A lock in any window ends every session (lockWalletContexts): a window   *)
(* that has heard of it holds keys only from a password entered since, not  *)
(* from an unlock, a restore, a hand-off or a grace under way at the time.  *)
LockHolds ==
  \A w \in Window : wallet[w] # None /\ pending[w] = 0 => wallet[w].epoch = lockId

(* "A late storage write must not leave revoked signing keys resident":     *)
(* with everything settled, whatever the slots hold is of the last lock, if *)
(* no window is closed in the middle of a task.                             *)
Quiet == \A w \in Window : task[w] = Idle /\ locking[w] = "no" /\ pending[w] = 0

NoRevokedKeysAtRest ==
  Quiet /\ budget.closes = {} => \A k \in Slot : slots[k] # None => slots[k].epoch = lockId

(* A window whose own lock could not be published trusts no session but one *)
(* its user entered the password for (canRestoreLocalSession).              *)
UnpublishedStaysLocked ==
  \A w \in Window : unpublished[w] /\ wallet[w] # None => wallet[w].full
=================================================================================
