--------------------------------- MODULE Windows ---------------------------------
(******************************************************************************)
(* What the wallet's windows do to what they share through chrome.storage:    *)
(* Grin's pending overlay, and the lock with the sessions it must take away.  *)
(* They are under different keys, and no flow of the overlay looks at the     *)
(* lock once it runs; a behaviour is about one of them.                       *)
(******************************************************************************)
EXTENDS GrinOverlay

CONSTANTS
  WalletWindow, Approval, Ordered, Locking    \* of WalletLock

VARIABLES
  part,
  lockId, slots, window, wallet, unpublished, task, locking, pending, budget

locks == <<lockId, slots, window, wallet, unpublished, task, locking, pending, budget>>

Locks == INSTANCE WalletLock WITH Window <- WalletWindow, Scenario <- Locking

WindowsInit ==
  /\ part \in {"grin", "locks"}
  /\ Init /\ Locks!Init

WindowsNext ==
  \/ part = "grin" /\ Next /\ UNCHANGED <<part, locks>>
  \/ part = "locks" /\ Locks!Next /\ UNCHANGED <<part, vars>>

WindowsSpec == WindowsInit /\ [][WindowsNext]_<<part, vars, locks>>

(* Named as in WalletLock, which says what they are about.                    *)
LockHolds              == Locks!LockHolds
UnpublishedStaysLocked == Locks!UnpublishedStaysLocked
NoRevokedKeysAtRest    == Locks!NoRevokedKeysAtRest
====================================================================================
