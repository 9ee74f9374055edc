---------------------------- MODULE WalletLockProofs ----------------------------
(****************************************************************************)
(* WalletLock: for any windows, bounds and interleavings, a window that has *)
(* heard of every lock holds keys only from a password entered since the    *)
(* last, if storage events are not overtaken by later answers.  What a      *)
(* window has heard of is lockId less what is pending: whatever a task      *)
(* captured, if its generation is still current, was captured at that.      *)
(****************************************************************************)
EXTENDS WalletLock, TLAPS

(* An entry is of the lock its keys were entered under. *)
Entry == {e \in [lockId : Nat, epoch : Nat, by : Window] : e.epoch = e.lockId}

Restoring1 == {"graceState", "graceAdmit"}
Restoring2 == {"handoff", "stale", "next", "cache", "entry", "admit"}
Writing    == {"minutes", "cleared", "existing", "secrets"}
Step == {"idle", "grace", "graceEpoch", "state", "epoch", "unlocking", "checking", "writing",
         "finishing", "unwriting"} \union Restoring1 \union Restoring2 \union Writing

Task == [at : Step, slot : Slot \union {None}, epoch : Nat, lockId : Nat, again : Nat,
         saw : Entry \union {None}, current : BOOLEAN, owed : Nat]

LockTypeOK ==
  /\ lockId \in Nat
  /\ slots \in [Slot -> Entry \union {None}]
  /\ window \in [Window -> {"unopened", "open", "closed"}]
  /\ wallet \in [Window -> [epoch : Nat, full : BOOLEAN] \union {None}]
  /\ unpublished \in [Window -> BOOLEAN]
  /\ task \in [Window -> Task]
  /\ locking \in [Window -> {"no", "published", "failed", "clearing"}]
  /\ pending \in [Window -> Nat]

(* What w has heard of the locks is lockId - pending[w]: a task that is      *)
(* current captured its ids there, or when it hears what it is owed.         *)
Fits(t, w) ==
  /\ t.at \in {"secrets", "checking", "writing", "finishing", "unwriting"} => t.slot \in Slot
  /\ t.at = "checking" => t.lockId = t.epoch
  /\ t.at \in Restoring1 \union {"graceEpoch", "entry", "admit"} => t.saw # None
  /\ t.at \in Restoring1 \union {"entry", "admit"} => t.saw.lockId = t.lockId
  /\ t.current =>
       /\ t.at = "unlocking" => lockId + t.owed = t.epoch + pending[w]
       /\ t.at \in Writing => lockId = t.epoch + pending[w]
       /\ t.at \in {"graceEpoch", "epoch", "secrets"} => lockId + t.owed = t.lockId + pending[w]
       /\ t.at \in Restoring1 \union Restoring2 => lockId = t.lockId + pending[w]

Gone(w) == wallet[w] = None /\ task[w] = Idle /\ locking[w] = "no" /\ pending[w] = 0

LockInv ==
  \A w \in Window :
    /\ Fits(task[w], w)
    /\ wallet[w] # None => lockId = wallet[w].epoch + pending[w]
    /\ window[w] # "open" => Gone(w)

-------------------------------------------------------------------------------
(* A task's next step: its own window, at most its own keys, and the slots.  *)

(* Where a task may go and what it must then satisfy. *)
LEMMA TaskMoves ==
  ASSUME LockTypeOK, LockInv, NEW w \in Window, window[w] = "open",
         UNCHANGED <<lockId, window, locking, pending>>,
         unpublished' \in [Window -> BOOLEAN],
         slots' \in [Slot -> Entry \union {None}],
         NEW t \in Task, task' = [task EXCEPT ![w] = t], Fits(t, w),
         wallet' = wallet
         \/ \E k \in [epoch : Nat, full : BOOLEAN] :
              wallet' = [wallet EXCEPT ![w] = k] /\ lockId = k.epoch + pending[w]
  PROVE  LockTypeOK' /\ LockInv'
<1>1. LockTypeOK'
  BY DEF LockTypeOK
<1>2. ASSUME NEW v \in Window PROVE Fits(task[v], v)'
  <2>1. CASE v = w
    BY <2>1 DEF LockTypeOK, Fits
  <2>2. CASE v # w
    BY <2>2 DEF LockTypeOK, LockInv, Fits
  <2>3. QED
    BY <2>1, <2>2
<1>3. ASSUME NEW v \in Window, wallet'[v] # None PROVE lockId' = wallet'[v].epoch + pending'[v]
  BY <1>3 DEF LockTypeOK, LockInv
<1>4. ASSUME NEW v \in Window, window'[v] # "open" PROVE Gone(v)'
  BY <1>4 DEF LockTypeOK, LockInv, Gone
<1>5. QED
  BY <1>1, <1>2, <1>3, <1>4 DEF LockInv

(* The steps, one by one. *)
LEMMA Steps ==
  /\ "idle" \in Step /\ "grace" \in Step /\ "graceEpoch" \in Step /\ "graceState" \in Step
  /\ "graceAdmit" \in Step /\ "state" \in Step /\ "epoch" \in Step /\ "handoff" \in Step
  /\ "stale" \in Step /\ "next" \in Step /\ "cache" \in Step /\ "entry" \in Step
  /\ "admit" \in Step /\ "unlocking" \in Step /\ "minutes" \in Step /\ "cleared" \in Step
  /\ "existing" \in Step /\ "secrets" \in Step /\ "checking" \in Step /\ "writing" \in Step
  /\ "finishing" \in Step /\ "unwriting" \in Step
BY DEF Step, Restoring1, Restoring2, Writing

LEMMA NewTasks ==
  ASSUME LockTypeOK, NEW w \in Window, NEW o \in Nat
  PROVE  /\ Idle \in Task /\ Fits(Idle, w)
         /\ Refresh(w) \in Task /\ Fits(Refresh(w), w)
         /\ [Refresh(w) EXCEPT !.owed = o] \in Task /\ Fits([Refresh(w) EXCEPT !.owed = o], w)
         /\ [Restoring EXCEPT !.owed = o] \in Task /\ Fits([Restoring EXCEPT !.owed = o], w)
BY DEF LockTypeOK, Idle, Refresh, Restoring, Task, Fits, Step, Slot, Restoring1, Restoring2, Writing

LEMMA RemovedTypes ==
  ASSUME LockTypeOK, NEW K, Removed(K)
  PROVE  slots' \in [Slot -> Entry \union {None}]
BY DEF LockTypeOK, Removed

(* What is known of a task at a step, and of the task it goes on with.       *)
LEMMA AtStep ==
  ASSUME LockTypeOK, LockInv, NEW w \in Window, NEW s, At(w, s)
  PROVE  /\ window[w] = "open" /\ task[w] \in Task /\ task[w].at = s /\ task[w].owed = 0
         /\ Fits(task[w], w)
         /\ lockId \in Nat /\ pending[w] \in Nat
         /\ slots \in [Slot -> Entry \union {None}]
         /\ unpublished \in [Window -> BOOLEAN]
BY DEF LockTypeOK, LockInv, At

(* A step that changes the task alone, or the task and the slots. *)
LEMMA StepGoes ==
  ASSUME LockTypeOK, LockInv, Ordered, NEW w \in Window, NEW s, At(w, s), TaskAndSlots,
         slots' \in [Slot -> Entry \union {None}],
         NEW t, Goes(w, t),
         [t EXCEPT !.owed = pending[w]] \in Task, Fits([t EXCEPT !.owed = pending[w]], w)
  PROVE  LockTypeOK' /\ LockInv'
<1> DEFINE g == [t EXCEPT !.owed = pending[w]]
<1>1. task' = [task EXCEPT ![w] = g]
  BY DEF Goes
<1>2. UNCHANGED <<lockId, window, locking, pending, unpublished, wallet>>
  BY DEF TaskAndSlots
<1>3. unpublished' \in [Window -> BOOLEAN] /\ window[w] = "open"
  BY <1>2, AtStep
<1>4. g \in Task /\ Fits(g, w)
  OBVIOUS
<1> HIDE DEF g
<1>5. QED
  BY <1>1, <1>2, <1>3, <1>4, TaskMoves

LEMMA StepEnds ==
  ASSUME LockTypeOK, LockInv, NEW w \in Window, NEW s, At(w, s), TaskAndSlots,
         slots' \in [Slot -> Entry \union {None}], Ends(w)
  PROVE  LockTypeOK' /\ LockInv'
<1>1. task' = [task EXCEPT ![w] = Idle] /\ Idle \in Task /\ Fits(Idle, w)
  BY NewTasks, 0 \in Nat DEF Ends
<1>2. UNCHANGED <<lockId, window, locking, pending, unpublished, wallet>>
  BY DEF TaskAndSlots
<1>3. unpublished' \in [Window -> BOOLEAN] /\ window[w] = "open"
  BY <1>2, AtStep
<1>4. QED
  BY <1>1, <1>2, <1>3, TaskMoves

LEMMA StepRefreshes ==
  ASSUME LockTypeOK, LockInv, Ordered, NEW w \in Window, NEW s, At(w, s), TaskAndSlots,
         slots' \in [Slot -> Entry \union {None}], Refreshes(w) \/ Goes(w, Restoring)
  PROVE  LockTypeOK' /\ LockInv'
<1>1. pending[w] \in Nat
  BY AtStep
<1>2. CASE Refreshes(w)
  <2>1. [Refresh(w) EXCEPT !.owed = pending[w]] \in Task
        /\ Fits([Refresh(w) EXCEPT !.owed = pending[w]], w)
    BY <1>1, NewTasks
  <2>2. QED
    BY <1>2, <2>1, StepGoes DEF Refreshes
<1>3. CASE Goes(w, Restoring)
  <2>1. [Restoring EXCEPT !.owed = pending[w]] \in Task
        /\ Fits([Restoring EXCEPT !.owed = pending[w]], w)
    BY <1>1, NewTasks
  <2>2. QED
    BY <1>3, <2>1, StepGoes
<1>4. QED
  BY <1>2, <1>3

(* OnlyTask leaves the slots alone. *)
LEMMA OnlyTaskKeeps ==
  ASSUME LockTypeOK, OnlyTask
  PROVE  TaskAndSlots /\ slots' \in [Slot -> Entry \union {None}]
BY DEF LockTypeOK, OnlyTask, TaskAndSlots

-------------------------------------------------------------------------------
(* Restoring a session, step by step.                                        *)

LEMMA GraceReads ==
  ASSUME Ordered, LockTypeOK, LockInv, NEW w \in Window, GraceRead(w)
  PROVE  LockTypeOK' /\ LockInv'
<1>1. At(w, "grace") /\ OnlyTask
  BY DEF GraceRead
<1>2. TaskAndSlots /\ slots' \in [Slot -> Entry \union {None}]
  BY <1>1, OnlyTaskKeeps
<1>3. CASE Goes(w, Restoring)
  BY <1>1, <1>2, <1>3, StepRefreshes
<1>4. CASE task[w].saw # None /\ Goes(w, ReadLock([task[w] EXCEPT !.current = TRUE], "graceEpoch"))
  <2> DEFINE t == ReadLock([task[w] EXCEPT !.current = TRUE], "graceEpoch")
  <2>0. task[w] \in Task /\ pending[w] \in Nat /\ lockId \in Nat /\ "graceEpoch" \in Step
    BY <1>1, AtStep, Steps
  <2>1. [t EXCEPT !.owed = pending[w]] \in Task
    BY <2>0 DEF ReadLock, Task
  <2>2. Fits([t EXCEPT !.owed = pending[w]], w)
    BY <1>1, <1>4, AtStep DEF ReadLock, Fits, Task, Restoring1, Restoring2, Writing
  <2>3. QED
    BY <1>1, <1>2, <1>4, <2>1, <2>2, StepGoes
<1>5. QED
  BY <1>3, <1>4 DEF GraceRead

LEMMA GraceEpochs ==
  ASSUME Ordered, LockTypeOK, LockInv, NEW w \in Window, GraceEpoch(w)
  PROVE  LockTypeOK' /\ LockInv'
<1>1. At(w, "graceEpoch") /\ TaskAndSlots
  BY DEF GraceEpoch
<1>2. CASE ~Fresh(w) /\ Removed({"grace"}) /\ Goes(w, Restoring)
  BY <1>1, <1>2, RemovedTypes, StepRefreshes
<1>3. CASE Fresh(w) /\ UNCHANGED slots /\ Goto(w, "graceState")
  <2> DEFINE t == [task[w] EXCEPT !.at = "graceState"]
  <2>0. task[w] \in Task /\ pending[w] \in Nat /\ "graceState" \in Step
    BY <1>1, AtStep, Steps
  <2>1. [t EXCEPT !.owed = pending[w]] \in Task
    BY <2>0 DEF Task
  <2>2. Fits([t EXCEPT !.owed = pending[w]], w)
    BY <1>1, <1>3, AtStep DEF Fresh, Fits, Task, Restoring1, Restoring2, Writing
  <2>3. QED
    BY <1>1, <1>3, <2>1, <2>2, AtStep, StepGoes DEF Goto
<1>4. QED
  BY <1>2, <1>3 DEF GraceEpoch

LEMMA GraceStates ==
  ASSUME Ordered, LockTypeOK, LockInv, NEW w \in Window, GraceState(w)
  PROVE  LockTypeOK' /\ LockInv'
<1>1. At(w, "graceState") /\ TaskAndSlots /\ slots' \in [Slot -> Entry \union {None}]
  BY OnlyTaskKeeps DEF GraceState
<1>2. CASE Goes(w, [task[w] EXCEPT !.at = "graceAdmit", !.again = lockId])
  <2> DEFINE t == [task[w] EXCEPT !.at = "graceAdmit", !.again = lockId]
  <2>1. task[w] \in Task /\ task[w].owed = 0 /\ pending[w] \in Nat /\ lockId \in Nat
        /\ slots \in [Slot -> Entry \union {None}] /\ "graceAdmit" \in Step
    BY <1>1, AtStep, Steps
  <2>2. [t EXCEPT !.owed = pending[w]] \in Task
    BY <2>1 DEF Task
  <2>3. Fits([t EXCEPT !.owed = pending[w]], w)
    BY <1>1, <1>2, AtStep DEF Fits, Task, Restoring1, Restoring2, Writing
  <2>4. QED
    BY <1>1, <1>2, <2>2, <2>3, StepGoes
<1>3. QED
  BY <1>2 DEF GraceState, ReadAgain

LEMMA Epochs ==
  ASSUME Ordered, LockTypeOK, LockInv, NEW w \in Window, Epoch(w)
  PROVE  LockTypeOK' /\ LockInv'
<1>1. At(w, "epoch") /\ TaskAndSlots /\ slots' \in [Slot -> Entry \union {None}]
  BY OnlyTaskKeeps DEF Epoch
<1>2. CASE Goes(w, [task[w] EXCEPT !.at = "handoff", !.saw = slots["handoff"]])
  <2> DEFINE t == [task[w] EXCEPT !.at = "handoff", !.saw = slots["handoff"]]
  <2>1. task[w] \in Task /\ task[w].owed = 0 /\ pending[w] \in Nat /\ lockId \in Nat
        /\ slots \in [Slot -> Entry \union {None}] /\ "handoff" \in Step
    BY <1>1, AtStep, Steps
  <2>2. [t EXCEPT !.owed = pending[w]] \in Task
    BY <2>1 DEF Task, Slot
  <2>3. Fits([t EXCEPT !.owed = pending[w]], w)
    BY <1>1, <1>2, AtStep DEF Fits, Task, Restoring1, Restoring2, Writing, Slot
  <2>4. QED
    BY <1>1, <1>2, <2>2, <2>3, StepGoes
<1>3. QED
  BY <1>2 DEF Epoch, ReadSlot

LEMMA Handoffs ==
  ASSUME Ordered, LockTypeOK, LockInv, NEW w \in Window, Handoff(w)
  PROVE  LockTypeOK' /\ LockInv'
<1>1. At(w, "handoff") /\ TaskAndSlots /\ slots' \in [Slot -> Entry \union {None}]
  BY AtStep, RemovedTypes DEF Handoff
<1>2. CASE Goes(w, [task[w] EXCEPT !.at = "cache", !.saw = slots["cache"]])
  <2> DEFINE t == [task[w] EXCEPT !.at = "cache", !.saw = slots["cache"]]
  <2>1. task[w] \in Task /\ task[w].owed = 0 /\ pending[w] \in Nat /\ lockId \in Nat
        /\ slots \in [Slot -> Entry \union {None}] /\ "cache" \in Step
    BY <1>1, AtStep, Steps
  <2>2. [t EXCEPT !.owed = pending[w]] \in Task
    BY <2>1 DEF Task, Slot
  <2>3. Fits([t EXCEPT !.owed = pending[w]], w)
    BY <1>1, <1>2, AtStep DEF Fits, Task, Restoring1, Restoring2, Writing, Slot
  <2>4. QED
    BY <1>1, <1>2, <2>2, <2>3, StepGoes
<1>3. CASE task[w].saw # None /\ Fresh(w) /\ Goto(w, "entry")
  <2> DEFINE t == [task[w] EXCEPT !.at = "entry"]
  <2>1. task[w] \in Task /\ task[w].owed = 0 /\ pending[w] \in Nat /\ lockId \in Nat
        /\ slots \in [Slot -> Entry \union {None}] /\ "entry" \in Step
    BY <1>1, AtStep, Steps
  <2>2. [t EXCEPT !.owed = pending[w]] \in Task
    BY <2>1 DEF Task, Fresh
  <2>3. Fits([t EXCEPT !.owed = pending[w]], w)
    BY <1>1, <1>3, AtStep DEF Fits, Task, Restoring1, Restoring2, Writing, Fresh
  <2>4. QED
    BY <1>1, <1>3, <2>2, <2>3, StepGoes DEF Goto
<1>4. CASE Goto(w, "stale")
  <2> DEFINE t == [task[w] EXCEPT !.at = "stale"]
  <2>1. task[w] \in Task /\ task[w].owed = 0 /\ pending[w] \in Nat /\ lockId \in Nat
        /\ slots \in [Slot -> Entry \union {None}] /\ "stale" \in Step
    BY <1>1, AtStep, Steps
  <2>2. [t EXCEPT !.owed = pending[w]] \in Task
    BY <2>1 DEF Task
  <2>3. Fits([t EXCEPT !.owed = pending[w]], w)
    BY <1>1, <1>4, AtStep DEF Fits, Task, Restoring1, Restoring2, Writing
  <2>4. QED
    BY <1>1, <1>4, <2>2, <2>3, StepGoes DEF Goto
<1>5. QED
  BY <1>2, <1>3, <1>4 DEF Handoff, ReadSlot

LEMMA StaleHandoffs ==
  ASSUME Ordered, LockTypeOK, LockInv, NEW w \in Window, StaleHandoff(w)
  PROVE  LockTypeOK' /\ LockInv'
<1>1. At(w, "stale") /\ TaskAndSlots /\ slots' \in [Slot -> Entry \union {None}]
  BY AtStep, RemovedTypes DEF StaleHandoff
<1>2. CASE Goto(w, "next")
  <2> DEFINE t == [task[w] EXCEPT !.at = "next"]
  <2>1. task[w] \in Task /\ task[w].owed = 0 /\ pending[w] \in Nat /\ lockId \in Nat
        /\ slots \in [Slot -> Entry \union {None}] /\ "next" \in Step
    BY <1>1, AtStep, Steps
  <2>2. [t EXCEPT !.owed = pending[w]] \in Task
    BY <2>1 DEF Task
  <2>3. Fits([t EXCEPT !.owed = pending[w]], w)
    BY <1>1, <1>2, AtStep DEF Fits, Task, Restoring1, Restoring2, Writing
  <2>4. QED
    BY <1>1, <1>2, <2>2, <2>3, StepGoes DEF Goto
<1>3. QED
  BY <1>2 DEF StaleHandoff

LEMMA NextSlots ==
  ASSUME Ordered, LockTypeOK, LockInv, NEW w \in Window, NextSlot(w)
  PROVE  LockTypeOK' /\ LockInv'
<1>1. At(w, "next") /\ TaskAndSlots /\ slots' \in [Slot -> Entry \union {None}]
  BY OnlyTaskKeeps DEF NextSlot
<1>2. CASE Goes(w, [task[w] EXCEPT !.at = "cache", !.saw = slots["cache"]])
  <2> DEFINE t == [task[w] EXCEPT !.at = "cache", !.saw = slots["cache"]]
  <2>1. task[w] \in Task /\ task[w].owed = 0 /\ pending[w] \in Nat /\ lockId \in Nat
        /\ slots \in [Slot -> Entry \union {None}] /\ "cache" \in Step
    BY <1>1, AtStep, Steps
  <2>2. [t EXCEPT !.owed = pending[w]] \in Task
    BY <2>1 DEF Task, Slot
  <2>3. Fits([t EXCEPT !.owed = pending[w]], w)
    BY <1>1, <1>2, AtStep DEF Fits, Task, Restoring1, Restoring2, Writing, Slot
  <2>4. QED
    BY <1>1, <1>2, <2>2, <2>3, StepGoes
<1>3. QED
  BY <1>2 DEF NextSlot, ReadSlot

LEMMA Caches ==
  ASSUME Ordered, LockTypeOK, LockInv, NEW w \in Window, Cache(w)
  PROVE  LockTypeOK' /\ LockInv'
<1>1. At(w, "cache") /\ TaskAndSlots /\ slots' \in [Slot -> Entry \union {None}]
  BY AtStep, RemovedTypes DEF Cache
<1>2. CASE Ends(w)
  BY <1>1, <1>2, StepEnds
<1>3. CASE task[w].saw # None /\ Fresh(w) /\ Goto(w, "entry")
  <2> DEFINE t == [task[w] EXCEPT !.at = "entry"]
  <2>1. task[w] \in Task /\ task[w].owed = 0 /\ pending[w] \in Nat /\ lockId \in Nat
        /\ slots \in [Slot -> Entry \union {None}] /\ "entry" \in Step
    BY <1>1, AtStep, Steps
  <2>2. [t EXCEPT !.owed = pending[w]] \in Task
    BY <2>1 DEF Task, Fresh
  <2>3. Fits([t EXCEPT !.owed = pending[w]], w)
    BY <1>1, <1>3, AtStep DEF Fits, Task, Restoring1, Restoring2, Writing, Fresh
  <2>4. QED
    BY <1>1, <1>3, <2>2, <2>3, StepGoes DEF Goto
<1>4. QED
  BY <1>2, <1>3 DEF Cache

LEMMA EntryStates ==
  ASSUME Ordered, LockTypeOK, LockInv, NEW w \in Window, EntryState(w)
  PROVE  LockTypeOK' /\ LockInv'
<1>1. At(w, "entry") /\ TaskAndSlots /\ slots' \in [Slot -> Entry \union {None}]
  BY OnlyTaskKeeps DEF EntryState
<1>2. CASE Goes(w, [task[w] EXCEPT !.at = "admit", !.again = lockId])
  <2> DEFINE t == [task[w] EXCEPT !.at = "admit", !.again = lockId]
  <2>1. task[w] \in Task /\ task[w].owed = 0 /\ pending[w] \in Nat /\ lockId \in Nat
        /\ slots \in [Slot -> Entry \union {None}] /\ "admit" \in Step
    BY <1>1, AtStep, Steps
  <2>2. [t EXCEPT !.owed = pending[w]] \in Task
    BY <2>1 DEF Task
  <2>3. Fits([t EXCEPT !.owed = pending[w]], w)
    BY <1>1, <1>2, AtStep DEF Fits, Task, Restoring1, Restoring2, Writing
  <2>4. QED
    BY <1>1, <1>2, <2>2, <2>3, StepGoes
<1>3. QED
  BY <1>2 DEF EntryState, ReadAgain

(* What is admitted was entered under the lock the window has heard of.      *)
LEMMA AdmitsFits ==
  ASSUME LockTypeOK, LockInv, NEW w \in Window, Admits(w),
         NEW s \in {"graceAdmit", "admit"}, At(w, s)
  PROVE  wallet' = wallet
         \/ \E k \in [epoch : Nat, full : BOOLEAN] :
              wallet' = [wallet EXCEPT ![w] = k] /\ lockId = k.epoch + pending[w]
<1>1. CASE ~Admissible(w)
  BY <1>1 DEF Admits
<1>2. CASE Admissible(w)
  <2> DEFINE k == [epoch |-> task[w].saw.epoch, full |-> FALSE]
  <2>1. task[w] \in Task /\ Fits(task[w], w) /\ task[w].at \in {"graceAdmit", "admit"}
        /\ task[w].current
    BY <1>2, AtStep DEF Admissible
  <2>2. task[w].saw \in Entry /\ task[w].saw.lockId = task[w].lockId
        /\ lockId = task[w].lockId + pending[w]
    BY <2>1 DEF Fits, Task, Restoring1, Restoring2
  <2>3. k \in [epoch : Nat, full : BOOLEAN] /\ k.epoch = task[w].saw.lockId
    BY <2>2 DEF Entry
  <2>4. wallet' = [wallet EXCEPT ![w] = k]
    BY <1>2 DEF Admits
  <2>5. QED
    BY <2>2, <2>3, <2>4
<1>3. QED
  BY <1>1, <1>2

(* A step that changes the task and may admit a session. *)
LEMMA StepAdmits ==
  ASSUME Ordered, LockTypeOK, LockInv, NEW w \in Window, Admits(w), TaskAndWallet,
         NEW s \in {"graceAdmit", "admit"}, At(w, s),
         NEW t \in Task, Fits(t, w), task' = [task EXCEPT ![w] = t]
  PROVE  LockTypeOK' /\ LockInv'
<1>1. UNCHANGED <<lockId, window, locking, pending>> /\ unpublished' \in [Window -> BOOLEAN]
      /\ slots' \in [Slot -> Entry \union {None}] /\ window[w] = "open"
  BY AtStep DEF TaskAndWallet
<1>2. QED
  BY <1>1, AdmitsFits, TaskMoves

LEMMA GraceAdmits ==
  ASSUME Ordered, LockTypeOK, LockInv, NEW w \in Window, GraceAdmit(w)
  PROVE  LockTypeOK' /\ LockInv'
<1> DEFINE t == [Restoring EXCEPT !.owed = pending[w]]
<1>1. At(w, "graceAdmit") /\ Admits(w) /\ TaskAndWallet /\ task' = [task EXCEPT ![w] = t]
  BY DEF GraceAdmit, Goes
<1>2. t \in Task /\ Fits(t, w)
  BY <1>1, AtStep, NewTasks
<1> HIDE DEF t
<1>3. QED
  BY <1>1, <1>2, StepAdmits

LEMMA AdmitEnds ==
  ASSUME Ordered, LockTypeOK, LockInv, NEW w \in Window, Admit(w)
  PROVE  LockTypeOK' /\ LockInv'
<1>1. At(w, "admit") /\ Admits(w) /\ TaskAndWallet /\ task' = [task EXCEPT ![w] = Idle]
  BY DEF Admit, Ends
<1>2. Idle \in Task /\ Fits(Idle, w)
  BY NewTasks, 0 \in Nat
<1>3. QED
  BY <1>1, <1>2, StepAdmits

LEMMA States ==
  ASSUME Ordered, LockTypeOK, LockInv, NEW w \in Window, State(w)
  PROVE  LockTypeOK' /\ LockInv'
<1>1. At(w, "state") /\ UNCHANGED <<lockId, slots, window, wallet, locking, pending>>
  BY DEF State
<1>2. /\ task[w] \in Task /\ task[w].owed = 0 /\ window[w] = "open"
      /\ pending[w] \in Nat /\ lockId \in Nat /\ slots' \in [Slot -> Entry \union {None}]
  BY <1>1, AtStep
<1>3. unpublished' \in [Window -> BOOLEAN]
  BY <1>1, AtStep DEF State
<1>4. CASE Goes(w, ReadLock(task[w], "epoch"))
  <2> DEFINE t == [[task[w] EXCEPT !.at = "epoch", !.lockId = lockId] EXCEPT !.owed = pending[w]]
  <2>1. t \in Task
    BY <1>2, Steps DEF Task
  <2>2. Fits(t, w)
    BY <1>2 DEF Fits, Task, Restoring1, Restoring2, Writing
  <2>3. task' = [task EXCEPT ![w] = t]
    BY <1>4 DEF Goes, ReadLock
  <2> HIDE DEF t
  <2>4. QED
    BY <1>1, <1>2, <1>3, <2>1, <2>2, <2>3, TaskMoves
<1>5. CASE Ends(w)
  BY <1>1, <1>2, <1>3, <1>5, NewTasks, TaskMoves DEF Ends
<1>6. QED
  BY <1>4, <1>5 DEF State

LEMMA Restores ==
  ASSUME Ordered, LockTypeOK, LockInv, NEW w \in Window, Restore(w)
  PROVE  LockTypeOK' /\ LockInv'
BY GraceReads, GraceEpochs, GraceStates, GraceAdmits, States, Epochs, Handoffs, StaleHandoffs,
   NextSlots, Caches, EntryStates, AdmitEnds DEF Restore

-------------------------------------------------------------------------------
(* Unlocking and writing, step by step.                                      *)

LEMMA Unlocks ==
  ASSUME Ordered, LockTypeOK, LockInv, NEW w \in Window, Unlock(w)
  PROVE  LockTypeOK' /\ LockInv'
<1> DEFINE t == [[Idle EXCEPT !.at = "unlocking", !.epoch = lockId] EXCEPT !.owed = pending[w]]
<1>1. /\ UNCHANGED <<lockId, slots, window, wallet, unpublished, locking, pending>>
      /\ window[w] = "open" /\ task' = [task EXCEPT ![w] = t]
  BY DEF Unlock, Goes
<1>2. lockId \in Nat /\ pending[w] \in Nat /\ Idle \in Task
      /\ slots' \in [Slot -> Entry \union {None}] /\ unpublished' \in [Window -> BOOLEAN]
  BY <1>1, NewTasks, 0 \in Nat DEF LockTypeOK
<1>3. t \in Task
  BY <1>2, Steps DEF Task
<1>4. Fits(t, w)
  BY <1>2 DEF Fits, Idle, Restoring1, Restoring2, Writing
<1> HIDE DEF t
<1>5. QED
  BY <1>1, <1>2, <1>3, <1>4, TaskMoves

LEMMA PopOuts ==
  ASSUME Ordered, LockTypeOK, LockInv, NEW w \in Window, PopOut(w)
  PROVE  LockTypeOK' /\ LockInv'
<1> DEFINE t == [[Idle EXCEPT !.slot = "handoff", !.epoch = wallet[w].epoch, !.at = "secrets",
                              !.lockId = lockId] EXCEPT !.owed = pending[w]]
<1>1. /\ UNCHANGED <<lockId, slots, window, wallet, unpublished, locking, pending>>
      /\ window[w] = "open" /\ task' = [task EXCEPT ![w] = t]
  BY DEF PopOut, Goes, ReadLock, OnlyTask
<1>2. /\ lockId \in Nat /\ pending[w] \in Nat /\ Idle \in Task
      /\ wallet[w].epoch \in Nat /\ lockId = wallet[w].epoch + pending[w]
      /\ slots' \in [Slot -> Entry \union {None}] /\ unpublished' \in [Window -> BOOLEAN]
  BY <1>1, NewTasks, 0 \in Nat DEF LockTypeOK, LockInv, PopOut
<1>3. t \in Task
  BY <1>2, Steps DEF Task, Slot
<1>4. Fits(t, w)
  BY <1>2 DEF Fits, Idle, Restoring1, Restoring2, Writing, Slot
<1> HIDE DEF t
<1>5. QED
  BY <1>1, <1>2, <1>3, <1>4, TaskMoves

LEMMA Unlockeds ==
  ASSUME Ordered, LockTypeOK, LockInv, NEW w \in Window, Unlocked(w)
  PROVE  LockTypeOK' /\ LockInv'
<1>1. At(w, "unlocking") /\ UNCHANGED <<lockId, slots, window, unpublished, locking, pending>>
  BY DEF Unlocked, TaskAndWallet
<1>2. /\ task[w] \in Task /\ task[w].owed = 0 /\ Fits(task[w], w) /\ window[w] = "open"
      /\ pending[w] \in Nat /\ lockId \in Nat /\ slots' \in [Slot -> Entry \union {None}]
      /\ unpublished' \in [Window -> BOOLEAN] /\ task[w].at = "unlocking"
  BY <1>1, AtStep
<1>3. CASE UNCHANGED wallet /\ Ends(w)
  BY <1>1, <1>2, <1>3, NewTasks, TaskMoves DEF Ends
<1>4. CASE /\ task[w].current
           /\ wallet' = [wallet EXCEPT ![w] = [epoch |-> task[w].epoch, full |-> TRUE]]
           /\ Goto(w, "minutes")
  <2> DEFINE t == [[task[w] EXCEPT !.at = "minutes"] EXCEPT !.owed = pending[w]]
             k == [epoch |-> task[w].epoch, full |-> TRUE]
  <2>1. t \in Task
    BY <1>2, Steps DEF Task
  <2>2. lockId = task[w].epoch + pending[w] /\ task[w].epoch \in Nat
    BY <1>2, <1>4 DEF Fits, Task
  <2>3. Fits(t, w)
    BY <1>2, <2>2 DEF Fits, Task, Restoring1, Restoring2, Writing
  <2>4. k \in [epoch : Nat, full : BOOLEAN] /\ lockId = k.epoch + pending[w]
    BY <2>2
  <2>5. task' = [task EXCEPT ![w] = t] /\ wallet' = [wallet EXCEPT ![w] = k]
    BY <1>4 DEF Goto, Goes
  <2> HIDE DEF t, k
  <2>6. QED
    BY <1>1, <1>2, <2>1, <2>3, <2>4, <2>5, TaskMoves
<1>5. QED
  BY <1>3, <1>4 DEF Unlocked

LEMMA MinutesRead ==
  ASSUME Ordered, LockTypeOK, LockInv, NEW w \in Window, Minutes(w)
  PROVE  LockTypeOK' /\ LockInv'
<1>1. At(w, "minutes") /\ TaskAndSlots /\ slots' \in [Slot -> Entry \union {None}]
  BY AtStep, RemovedTypes DEF Minutes
<1>2. CASE Goes(w, [task[w] EXCEPT !.slot = "cache", !.at = "secrets", !.lockId = lockId])
  <2> DEFINE t == [task[w] EXCEPT !.slot = "cache", !.at = "secrets", !.lockId = lockId]
  <2>1. task[w] \in Task /\ task[w].owed = 0 /\ pending[w] \in Nat /\ lockId \in Nat
        /\ slots \in [Slot -> Entry \union {None}] /\ "secrets" \in Step
    BY <1>1, AtStep, Steps
  <2>2. [t EXCEPT !.owed = pending[w]] \in Task
    BY <2>1 DEF Task, Slot
  <2>3. Fits([t EXCEPT !.owed = pending[w]], w)
    BY <1>1, <1>2, AtStep DEF Fits, Task, Restoring1, Restoring2, Writing, Slot
  <2>4. QED
    BY <1>1, <1>2, <2>2, <2>3, StepGoes
<1>3. CASE Goto(w, "cleared")
  <2> DEFINE t == [task[w] EXCEPT !.at = "cleared"]
  <2>1. task[w] \in Task /\ task[w].owed = 0 /\ pending[w] \in Nat /\ lockId \in Nat
        /\ slots \in [Slot -> Entry \union {None}] /\ "cleared" \in Step
    BY <1>1, AtStep, Steps
  <2>2. [t EXCEPT !.owed = pending[w]] \in Task
    BY <2>1 DEF Task
  <2>3. Fits([t EXCEPT !.owed = pending[w]], w)
    BY <1>1, <1>3, AtStep DEF Fits, Task, Restoring1, Restoring2, Writing
  <2>4. QED
    BY <1>1, <1>3, <2>2, <2>3, StepGoes DEF Goto
<1>4. QED
  BY <1>2, <1>3 DEF Minutes, ReadLock

LEMMA ClearedGoes ==
  ASSUME Ordered, LockTypeOK, LockInv, NEW w \in Window, Cleared(w)
  PROVE  LockTypeOK' /\ LockInv'
<1>1. At(w, "cleared") /\ TaskAndSlots /\ slots' \in [Slot -> Entry \union {None}]
  BY OnlyTaskKeeps DEF Cleared
<1>2. CASE Goes(w, [task[w] EXCEPT !.at = "existing", !.saw = slots["grace"]])
  <2> DEFINE t == [task[w] EXCEPT !.at = "existing", !.saw = slots["grace"]]
  <2>1. task[w] \in Task /\ task[w].owed = 0 /\ pending[w] \in Nat /\ lockId \in Nat
        /\ slots \in [Slot -> Entry \union {None}] /\ "existing" \in Step
    BY <1>1, AtStep, Steps
  <2>2. [t EXCEPT !.owed = pending[w]] \in Task
    BY <2>1 DEF Task, Slot
  <2>3. Fits([t EXCEPT !.owed = pending[w]], w)
    BY <1>1, <1>2, AtStep DEF Fits, Task, Restoring1, Restoring2, Writing, Slot
  <2>4. QED
    BY <1>1, <1>2, <2>2, <2>3, StepGoes
<1>3. CASE Refreshes(w)
  BY <1>1, <1>3, StepRefreshes
<1>4. QED
  BY <1>2, <1>3 DEF Cleared, ReadSlot

LEMMA ExistingGoes ==
  ASSUME Ordered, LockTypeOK, LockInv, NEW w \in Window, Existing(w)
  PROVE  LockTypeOK' /\ LockInv'
<1>1. At(w, "existing") /\ TaskAndSlots /\ slots' \in [Slot -> Entry \union {None}]
  BY OnlyTaskKeeps DEF Existing
<1>2. CASE Goes(w, [task[w] EXCEPT !.slot = "grace", !.at = "secrets", !.lockId = lockId])
  <2> DEFINE t == [task[w] EXCEPT !.slot = "grace", !.at = "secrets", !.lockId = lockId]
  <2>1. task[w] \in Task /\ task[w].owed = 0 /\ pending[w] \in Nat /\ lockId \in Nat
        /\ slots \in [Slot -> Entry \union {None}] /\ "secrets" \in Step
    BY <1>1, AtStep, Steps
  <2>2. [t EXCEPT !.owed = pending[w]] \in Task
    BY <2>1 DEF Task, Slot
  <2>3. Fits([t EXCEPT !.owed = pending[w]], w)
    BY <1>1, <1>2, AtStep DEF Fits, Task, Restoring1, Restoring2, Writing, Slot
  <2>4. QED
    BY <1>1, <1>2, <2>2, <2>3, StepGoes
<1>3. CASE Refreshes(w)
  BY <1>1, <1>3, StepRefreshes
<1>4. QED
  BY <1>2, <1>3 DEF Existing, ReadLock

LEMMA SecretsGoes ==
  ASSUME Ordered, LockTypeOK, LockInv, NEW w \in Window, Secrets(w)
  PROVE  LockTypeOK' /\ LockInv'
<1>1. At(w, "secrets") /\ TaskAndSlots /\ slots' \in [Slot -> Entry \union {None}]
  BY OnlyTaskKeeps DEF Secrets
<1>2. CASE task[w].current /\ Goes(w, [task[w] EXCEPT !.at = "checking", !.again = lockId])
  <2> DEFINE t == [task[w] EXCEPT !.at = "checking", !.again = lockId]
  <2>1. task[w] \in Task /\ task[w].owed = 0 /\ pending[w] \in Nat /\ lockId \in Nat
        /\ slots \in [Slot -> Entry \union {None}] /\ "checking" \in Step
    BY <1>1, AtStep, Steps
  <2>2. [t EXCEPT !.owed = pending[w]] \in Task
    BY <2>1 DEF Task
  <2>3. Fits([t EXCEPT !.owed = pending[w]], w)
    BY <1>1, <1>2, AtStep DEF Fits, Task, Restoring1, Restoring2, Writing
  <2>4. QED
    BY <1>1, <1>2, <2>2, <2>3, StepGoes
<1>3. CASE Refreshes(w)
  BY <1>1, <1>3, StepRefreshes
<1>4. CASE Ends(w)
  BY <1>1, <1>4, StepEnds
<1>5. QED
  BY <1>2, <1>3, <1>4 DEF Secrets, ReadAgain, Fails

(* An entry is stored by a task at a slot, and is one. *)
LEMMA MineIsEntry ==
  ASSUME LockTypeOK, LockInv, NEW w \in Window, At(w, "checking")
  PROVE  Mine(w) \in Entry
BY AtStep DEF Mine, Entry, Fits, Task

LEMMA Puts ==
  ASSUME Ordered, LockTypeOK, LockInv, NEW w \in Window, Put(w)
  PROVE  LockTypeOK' /\ LockInv'
<1>1. At(w, "checking") /\ TaskAndSlots /\ slots' \in [Slot -> Entry \union {None}]
  BY AtStep, MineIsEntry DEF Put
<1>2. CASE Goto(w, "writing")
  <2> DEFINE t == [task[w] EXCEPT !.at = "writing"]
  <2>1. task[w] \in Task /\ task[w].owed = 0 /\ pending[w] \in Nat /\ lockId \in Nat
        /\ slots \in [Slot -> Entry \union {None}] /\ "writing" \in Step
    BY <1>1, AtStep, Steps
  <2>2. [t EXCEPT !.owed = pending[w]] \in Task
    BY <2>1 DEF Task
  <2>3. Fits([t EXCEPT !.owed = pending[w]], w)
    BY <1>1, <1>2, AtStep DEF Fits, Task, Restoring1, Restoring2, Writing
  <2>4. QED
    BY <1>1, <1>2, <2>2, <2>3, StepGoes DEF Goto
<1>3. CASE Refreshes(w)
  BY <1>1, <1>3, StepRefreshes
<1>4. CASE Ends(w)
  BY <1>1, <1>4, StepEnds
<1>5. QED
  BY <1>2, <1>3, <1>4 DEF Put, Fails

LEMMA WrittenGoes ==
  ASSUME Ordered, LockTypeOK, LockInv, NEW w \in Window, Written(w)
  PROVE  LockTypeOK' /\ LockInv'
<1>1. At(w, "writing") /\ TaskAndSlots /\ slots' \in [Slot -> Entry \union {None}]
  BY OnlyTaskKeeps DEF Written
<1>2. CASE Goes(w, [task[w] EXCEPT !.at = "finishing", !.again = lockId])
  <2> DEFINE t == [task[w] EXCEPT !.at = "finishing", !.again = lockId]
  <2>1. task[w] \in Task /\ task[w].owed = 0 /\ pending[w] \in Nat /\ lockId \in Nat
        /\ slots \in [Slot -> Entry \union {None}] /\ "finishing" \in Step
    BY <1>1, AtStep, Steps
  <2>2. [t EXCEPT !.owed = pending[w]] \in Task
    BY <2>1 DEF Task
  <2>3. Fits([t EXCEPT !.owed = pending[w]], w)
    BY <1>1, <1>2, AtStep DEF Fits, Task, Restoring1, Restoring2, Writing
  <2>4. QED
    BY <1>1, <1>2, <2>2, <2>3, StepGoes
<1>3. QED
  BY <1>2 DEF Written, ReadAgain

LEMMA FinishOutliveds ==
  ASSUME Ordered, LockTypeOK, LockInv, NEW w \in Window, FinishOutlived(w)
  PROVE  LockTypeOK' /\ LockInv'
<1>1. At(w, "finishing") /\ TaskAndSlots /\ slots' \in [Slot -> Entry \union {None}]
  BY AtStep, RemovedTypes DEF FinishOutlived
<1>2. CASE task[w].slot # "grace" /\ Goes(w, [task[w] EXCEPT !.at = "unwriting", !.saw = slots[task[w].slot]])
  <2> DEFINE t == [task[w] EXCEPT !.at = "unwriting", !.saw = slots[task[w].slot]]
  <2>1. task[w] \in Task /\ task[w].owed = 0 /\ pending[w] \in Nat /\ lockId \in Nat
        /\ slots \in [Slot -> Entry \union {None}] /\ "unwriting" \in Step
    BY <1>1, AtStep, Steps
  <2>2. [t EXCEPT !.owed = pending[w]] \in Task
    <3>1. task[w].slot \in Slot
      BY <1>1, AtStep DEF Fits
    <3>2. QED
      BY <2>1, <3>1 DEF Task
  <2>3. Fits([t EXCEPT !.owed = pending[w]], w)
    BY <1>1, <1>2, AtStep DEF Fits, Task, Restoring1, Restoring2, Writing
  <2>4. QED
    BY <1>1, <1>2, <2>2, <2>3, StepGoes
<1>3. CASE Refreshes(w)
  BY <1>1, <1>3, StepRefreshes
<1>4. QED
  BY <1>2, <1>3 DEF FinishOutlived, ReadSlot

LEMMA Unwrites ==
  ASSUME Ordered, LockTypeOK, LockInv, NEW w \in Window, Unwrite(w)
  PROVE  LockTypeOK' /\ LockInv'
<1>1. At(w, "unwriting") /\ TaskAndSlots /\ slots' \in [Slot -> Entry \union {None}]
  BY AtStep, RemovedTypes DEF Unwrite
<1>2. CASE Ends(w)
  BY <1>1, <1>2, StepEnds
<1>3. QED
  BY <1>2 DEF Unwrite

LEMMA Finishes ==
  ASSUME Ordered, LockTypeOK, LockInv, NEW w \in Window, Finish(w)
  PROVE  LockTypeOK' /\ LockInv'
<1>1. At(w, "finishing") /\ TaskAndSlots /\ slots' \in [Slot -> Entry \union {None}]
  BY OnlyTaskKeeps DEF Finish
<1>2. CASE Refreshes(w)
  BY <1>1, <1>2, StepRefreshes
<1>3. QED
  BY <1>2 DEF Finish

LEMMA Writes ==
  ASSUME Ordered, LockTypeOK, LockInv, NEW w \in Window, Write(w)
  PROVE  LockTypeOK' /\ LockInv'
BY Unlockeds, MinutesRead, ClearedGoes, ExistingGoes, SecretsGoes, Puts, WrittenGoes,
   FinishOutliveds, Unwrites, Finishes DEF Write

-------------------------------------------------------------------------------
(* The windows and the lock.                                                 *)

(* A window that closes has nothing left, and the rest of the windows have   *)
(* what they had.                                                            *)
LEMMA ClosedHolds ==
  ASSUME LockTypeOK, LockInv, NEW w \in Window, NEW tasks \in [Window -> Task], Closed(w, tasks),
         UNCHANGED <<lockId, unpublished>>,
         slots' \in [Slot -> Entry \union {None}],
         window' \in [Window -> {"unopened", "open", "closed"}],
         \A v \in Window : v # w => /\ Fits(tasks[v], v)
                                    /\ window'[v] # "open" => window[v] # "open" /\ tasks[v] = task[v]
  PROVE  LockTypeOK' /\ LockInv'
<1>1. Idle \in Task
  BY NewTasks, 0 \in Nat
<1>2. LockTypeOK'
  BY <1>1 DEF LockTypeOK, Closed
<1>3. Gone(w)'
  BY DEF LockTypeOK, Closed, Gone
<1>4. Fits(task[w], w)' /\ wallet'[w] = None
  BY DEF LockTypeOK, Closed, Fits, Idle, Restoring1, Restoring2, Writing
<1>5. ASSUME NEW v \in Window, v # w
      PROVE  /\ Fits(task[v], v)'
             /\ wallet'[v] # None => lockId' = wallet'[v].epoch + pending'[v]
             /\ window'[v] # "open" => Gone(v)'
  <2>1. task'[v] = tasks[v] /\ wallet'[v] = wallet[v] /\ locking'[v] = locking[v]
        /\ pending'[v] = pending[v] /\ lockId' = lockId
    BY <1>5 DEF LockTypeOK, Closed
  <2>2. Fits(tasks[v], v)'
    BY <1>5, <2>1 DEF Fits
  <2>3. QED
    BY <1>5, <2>1, <2>2 DEF LockInv, Gone
<1>6. QED
  BY <1>2, <1>3, <1>4, <1>5 DEF LockInv

LEMMA Closes ==
  ASSUME LockTypeOK, LockInv, NEW w \in Window, Close(w)
  PROVE  LockTypeOK' /\ LockInv'
<1>1. task \in [Window -> Task] /\ Closed(w, task) /\ UNCHANGED <<lockId, unpublished>>
      /\ slots' \in [Slot -> Entry \union {None}]
      /\ window' \in [Window -> {"unopened", "open", "closed"}]
  BY DEF LockTypeOK, Close
<1>2. \A v \in Window : v # w => Fits(task[v], v) /\ window'[v] = window[v]
  BY DEF LockTypeOK, LockInv, Close
<1>3. QED
  BY <1>1, <1>2, ClosedHolds

LEMMA PopsOuts ==
  ASSUME LockTypeOK, LockInv, NEW w \in Window, NEW v \in Window, PopsOut(w, v)
  PROVE  LockTypeOK' /\ LockInv'
<1> DEFINE tasks == [task EXCEPT ![v] = Refresh(v)]
<1>1. Refresh(v) \in Task /\ Fits(Refresh(v), v)
  BY NewTasks, 0 \in Nat
<1>2. tasks \in [Window -> Task] /\ Closed(w, tasks) /\ UNCHANGED <<lockId, unpublished>>
      /\ slots' \in [Slot -> Entry \union {None}]
      /\ window' \in [Window -> {"unopened", "open", "closed"}]
  BY <1>1 DEF LockTypeOK, PopsOut
<1>3. ASSUME NEW u \in Window, u # w
      PROVE  /\ Fits(tasks[u], u)
             /\ window'[u] # "open" => window[u] # "open" /\ tasks[u] = task[u]
  BY <1>1, <1>3 DEF LockTypeOK, LockInv, PopsOut
<1> HIDE DEF tasks
<1>4. QED
  BY <1>2, <1>3, ClosedHolds

(* A window that is not open has had no keys and heard of no lock: what it   *)
(* opens with is of any lock there has been.                                 *)
LEMMA Opens ==
  ASSUME Ordered, LockTypeOK, LockInv, NEW w \in Window, Open(w)
  PROVE  LockTypeOK' /\ LockInv'
<1> DEFINE t == [Refresh(w) EXCEPT !.owed = pending[w]]
<1>1. t \in Task /\ Fits(t, w)
  BY NewTasks DEF LockTypeOK
<1>2. task' = [task EXCEPT ![w] = t] /\ window' = [window EXCEPT ![w] = "open"]
      /\ UNCHANGED <<lockId, slots, wallet, unpublished, locking, pending>>
  BY DEF Open, Refreshes, Goes
<1> HIDE DEF t
<1>3. LockTypeOK'
  BY <1>1, <1>2 DEF LockTypeOK
<1>4. ASSUME NEW v \in Window PROVE Fits(task[v], v)'
  <2>1. task'[v] = (IF v = w THEN t ELSE task[v])
    <3>1. task \in [Window -> Task]
      BY DEF LockTypeOK
    <3>2. QED
      BY <1>2, <3>1
  <2>2. QED
    BY <1>1, <1>2, <2>1 DEF LockInv, Fits
<1>5. QED
  BY <1>2, <1>3, <1>4 DEF LockTypeOK, LockInv, Gone

(* The lock takes the window's keys and its tasks' generation; each window   *)
(* has one more to hear of.                                                  *)
LEMMA LocksStep ==
  ASSUME LockTypeOK, LockInv, NEW w \in Window, Lock(w)
  PROVE  LockTypeOK' /\ LockInv'
<1>1. /\ window[w] = "open" /\ UNCHANGED <<slots, window>>
      /\ wallet' = [wallet EXCEPT ![w] = None]
      /\ task' = [task EXCEPT ![w].current = FALSE]
      /\ unpublished' = [unpublished EXCEPT ![w] = TRUE]
  BY DEF Lock, Revoked
<1>2. \E x \in {"published", "failed"} : locking' = [locking EXCEPT ![w] = x]
  BY DEF Lock
<1>3. \/ /\ lockId' = lockId + 1
         /\ pending' = [v \in Window |-> IF window[v] = "open" THEN pending[v] + 1 ELSE 0]
      \/ UNCHANGED <<lockId, pending>>
  BY DEF Lock, PublishedLock
<1>4. [task[w] EXCEPT !.current = FALSE] \in Task
  <2>1. task[w] \in Task
    BY DEF LockTypeOK
  <2>2. QED
    BY <2>1 DEF Task
<1>5. LockTypeOK'
  <2>1. lockId' \in Nat /\ pending' \in [Window -> Nat]
    BY <1>3 DEF LockTypeOK
  <2>2. QED
    BY <1>1, <1>2, <1>4, <2>1 DEF LockTypeOK
<1>6. Fits(task[w], w)' /\ wallet'[w] = None
  <2>1. task'[w] = [task[w] EXCEPT !.current = FALSE] /\ task[w] \in Task /\ Fits(task[w], w)
    BY <1>1 DEF LockTypeOK, LockInv
  <2>2. QED
    BY <1>1, <2>1 DEF LockTypeOK, Fits, Task
<1>7. ASSUME NEW v \in Window, v # w
      PROVE  /\ Fits(task[v], v)'
             /\ wallet'[v] # None => lockId' = wallet'[v].epoch + pending'[v]
             /\ window'[v] # "open" => Gone(v)'
  <2>1. /\ task'[v] = task[v] /\ wallet'[v] = wallet[v] /\ locking'[v] = locking[v]
        /\ window'[v] = window[v] /\ task[v] \in Task /\ pending[v] \in Nat /\ lockId \in Nat
        /\ wallet[v] # None => wallet[v].epoch \in Nat
    BY <1>1, <1>2, <1>7 DEF LockTypeOK
  <2>2. CASE window[v] # "open"
    <3>1. task'[v] = Idle /\ wallet'[v] = None /\ Gone(v)
      BY <2>1, <2>2 DEF LockInv, Gone
    <3>2. pending'[v] = 0
      BY <1>3, <2>2, <3>1 DEF Gone
    <3>3. QED
      BY <2>1, <3>1, <3>2 DEF Fits, Idle, Gone, Restoring1, Restoring2, Writing
  <2>3. CASE window[v] = "open"
    <3>1. \/ lockId' = lockId + 1 /\ pending'[v] = pending[v] + 1
          \/ lockId' = lockId /\ pending'[v] = pending[v]
      BY <1>3, <2>3
    <3>2. Fits(task[v], v)'
      <4>1. Fits(task[v], v) /\ task[v].lockId \in Nat /\ task[v].epoch \in Nat
            /\ task[v].owed \in Nat
        BY <2>1 DEF LockInv, Task
      <4>2. QED
        BY <2>1, <3>1, <4>1 DEF Fits
    <3>3. QED
      BY <2>1, <2>3, <3>1, <3>2 DEF LockInv
  <2>4. QED
    BY <2>2, <2>3
<1>8. QED
  BY <1>1, <1>5, <1>6, <1>7 DEF LockInv

LEMMA LockAnswereds ==
  ASSUME LockTypeOK, LockInv, NEW w \in Window, LockAnswered(w)
  PROVE  LockTypeOK' /\ LockInv'
<1>1. slots' \in [Slot -> Entry \union {None}]
  BY RemovedTypes DEF LockAnswered
<1>2. LockTypeOK'
  BY <1>1 DEF LockTypeOK, LockAnswered
<1>3. locking' = [locking EXCEPT ![w] = "clearing"] /\ locking[w] # "no"
      /\ UNCHANGED <<lockId, window, wallet, task, pending>>
  BY DEF LockAnswered
<1>4. QED
  BY <1>2, <1>3 DEF LockTypeOK, LockInv, Fits, Gone

LEMMA LockDones ==
  ASSUME Ordered, LockTypeOK, LockInv, NEW w \in Window, LockDone(w)
  PROVE  LockTypeOK' /\ LockInv'
<1>1. locking[w] # "no" /\ locking' = [locking EXCEPT ![w] = "no"]
      /\ UNCHANGED <<lockId, slots, window, wallet, unpublished, pending>>
  BY DEF LockDone
<1>2. window[w] = "open"
  BY <1>1 DEF LockInv, Gone
<1>3. PICK t \in Task : Fits(t, w) /\ task' = [task EXCEPT ![w] = t]
  <2>1. CASE task' = task
    BY <2>1 DEF LockTypeOK, LockInv
  <2>2. CASE Refreshes(w)
    BY <2>2, NewTasks DEF LockTypeOK, Refreshes, Goes
  <2>3. QED
    BY <2>1, <2>2 DEF LockDone, RefreshesIfIdle
<1>4. LockTypeOK'
  BY <1>1, <1>3 DEF LockTypeOK
<1>5. ASSUME NEW v \in Window PROVE Fits(task[v], v)'
  <2>1. task'[v] = (IF v = w THEN t ELSE task[v])
    <3>1. task \in [Window -> Task]
      BY DEF LockTypeOK
    <3>2. QED
      BY <1>3, <3>1
  <2>2. QED
    BY <1>1, <1>3, <2>1 DEF LockInv, Fits
<1>6. QED
  BY <1>1, <1>2, <1>3, <1>4, <1>5 DEF LockTypeOK, LockInv, Gone

(* Hearing of a lock ends the session, and what the task has captured is no  *)
(* longer current.                                                           *)
LEMMA Delivers ==
  ASSUME LockTypeOK, LockInv, NEW w \in Window, Deliver(w)
  PROVE  LockTypeOK' /\ LockInv'
<1>1. pending[w] > 0 /\ pending' = [pending EXCEPT ![w] = @ - 1]
      /\ wallet' = [wallet EXCEPT ![w] = None]
      /\ UNCHANGED <<lockId, slots, window, unpublished, locking>>
  BY DEF Deliver
<1>2. window[w] = "open" /\ pending[w] \in Nat /\ lockId \in Nat
  BY <1>1 DEF LockTypeOK, LockInv, Gone
<1>3. PICK t \in Task : task' = [task EXCEPT ![w] = t] /\ Fits(t, w)'
  <2>1. CASE task[w] = Idle
    <3>1. PICK t \in Task : t = Refresh(w) /\ task' = [task EXCEPT ![w] = t]
      BY <2>1, NewTasks, 0 \in Nat DEF Deliver
    <3>2. t.at \in {"grace", "state"}
      BY <3>1 DEF Refresh, Restoring, Idle
    <3>3. Fits(t, w)'
      BY <3>2 DEF Fits, Restoring1, Restoring2, Writing
    <3>4. QED
      BY <3>1, <3>3
  <2>2. CASE task[w] # Idle
    <3> DEFINE o == IF task[w].owed > 0 THEN task[w].owed - 1 ELSE 0
    <3>1. task[w] \in Task /\ Fits(task[w], w) /\ o \in Nat
      BY DEF LockTypeOK, LockInv, Task
    <3>2. task' = [task EXCEPT ![w] = [task[w] EXCEPT !.current = FALSE, !.owed = o]]
      BY <2>2 DEF Deliver, LockTypeOK
    <3> HIDE DEF o
    <3>3. PICK t \in Task : /\ task' = [task EXCEPT ![w] = t]
                            /\ t = [task[w] EXCEPT !.current = FALSE, !.owed = o]
      BY <3>1, <3>2 DEF Task
    <3>4. /\ ~t.current /\ t.at = task[w].at /\ t.slot = task[w].slot /\ t.saw = task[w].saw
          /\ t.lockId = task[w].lockId /\ t.epoch = task[w].epoch
      BY <3>1, <3>3 DEF Task
    <3>5. Fits(t, w)'
      BY <3>1, <3>4 DEF Fits
    <3>6. QED
      BY <3>3, <3>5
  <2>3. QED
    BY <2>1, <2>2
<1>4. LockTypeOK'
  <2>1. pending' \in [Window -> Nat]
    BY <1>1, <1>2 DEF LockTypeOK
  <2>2. QED
    BY <1>1, <1>3, <2>1 DEF LockTypeOK
<1>5. ASSUME NEW v \in Window, v # w
      PROVE  /\ Fits(task[v], v)'
             /\ wallet'[v] # None => lockId' = wallet'[v].epoch + pending'[v]
             /\ window'[v] # "open" => Gone(v)'
  BY <1>1, <1>3, <1>5 DEF LockTypeOK, LockInv, Fits, Gone
<1>6. Fits(task[w], w)' /\ wallet'[w] = None
  BY <1>1, <1>3 DEF LockTypeOK
<1>7. QED
  BY <1>1, <1>2, <1>4, <1>5, <1>6 DEF LockInv

-------------------------------------------------------------------------------
LEMMA InitHolds == Init => LockTypeOK /\ LockInv
<1>1. Idle \in Task /\ \A w \in Window : Fits(Idle, w)
  BY DEF Idle, Task, Step, Slot, Fits, Restoring1, Restoring2, Writing
<1>2. QED
  BY <1>1 DEF Init, LockTypeOK, LockInv, Gone

LEMMA NextHolds ==
  ASSUME Ordered, LockTypeOK, LockInv, [Next]_vars
  PROVE  LockTypeOK' /\ LockInv'
<1>1. CASE UNCHANGED vars
  BY <1>1 DEF vars, LockTypeOK, LockInv, Fits, Gone
<1>2. CASE Next
  BY <1>2, Opens, Closes, Unlocks, PopOuts, LocksStep, Restores, Writes, PopsOuts, LockAnswereds,
     LockDones, Delivers DEF Next
<1>3. QED
  BY <1>1, <1>2

(* The types, for every reachable state. *)
THEOREM TypeCorrect ==
  ASSUME Ordered
  PROVE  Spec => []LockTypeOK
<1>1. Init => LockTypeOK /\ LockInv
  BY InitHolds
<1>2. LockTypeOK /\ LockInv /\ [Next]_vars => LockTypeOK' /\ LockInv'
  BY NextHolds
<1>3. QED
  BY <1>1, <1>2, PTL DEF Spec

(* A window that has heard of every lock holds keys only from a password     *)
(* entered since the last.                                                   *)
THEOREM LocksHold ==
  ASSUME Ordered
  PROVE  Spec => []LockHolds
<1>1. Init => LockTypeOK /\ LockInv
  BY InitHolds
<1>2. LockTypeOK /\ LockInv /\ [Next]_vars => LockTypeOK' /\ LockInv'
  BY NextHolds
<1>3. LockTypeOK /\ LockInv => LockHolds
  BY DEF LockTypeOK, LockInv, LockHolds
<1>4. QED
  BY <1>1, <1>2, <1>3, PTL DEF Spec

-------------------------------------------------------------------------------
(* A window's own lock, published or not.  Nothing here depends on the order *)
(* of the browser's answers.                                                 *)

Functions ==
  /\ wallet = [w \in Window |-> wallet[w]]
  /\ unpublished = [w \in Window |-> unpublished[w]]

(* A session that is restored is not of a window whose own lock failed. *)
LEMMA AdmitsStays ==
  ASSUME Functions, UnpublishedStaysLocked, NEW w \in Window, Admits(w), UNCHANGED unpublished
  PROVE  Functions' /\ UnpublishedStaysLocked'
BY DEF Functions, UnpublishedStaysLocked, Admits, Admissible, CanRestoreLocalSession

(* What a step leaves alone, and what it may do without harm: take a         *)
(* window's keys.                                                            *)
LEMMA KeepsStays ==
  ASSUME Functions, UnpublishedStaysLocked, UNCHANGED unpublished,
         wallet' = wallet \/ \E w \in Window : wallet' = [wallet EXCEPT ![w] = None]
  PROVE  Functions' /\ UnpublishedStaysLocked'
BY DEF Functions, UnpublishedStaysLocked

LEMMA RestoreStays ==
  ASSUME Functions, UnpublishedStaysLocked, NEW w \in Window, Restore(w)
  PROVE  Functions' /\ UnpublishedStaysLocked'
<1>1. CASE GraceAdmit(w) \/ Admit(w)
  BY <1>1, AdmitsStays DEF GraceAdmit, Admit, TaskAndWallet
<1>2. CASE State(w)
  BY <1>2 DEF State, Functions, UnpublishedStaysLocked
<1>3. CASE \/ GraceRead(w) \/ GraceState(w) \/ Epoch(w) \/ NextSlot(w) \/ EntryState(w)
  BY <1>3, KeepsStays DEF GraceRead, GraceState, Epoch, NextSlot, EntryState, OnlyTask
<1>4. CASE GraceEpoch(w) \/ Handoff(w) \/ StaleHandoff(w) \/ Cache(w)
  BY <1>4, KeepsStays DEF GraceEpoch, Handoff, StaleHandoff, Cache, TaskAndSlots
<1>5. QED
  BY <1>1, <1>2, <1>3, <1>4 DEF Restore

LEMMA WriteStays ==
  ASSUME Functions, UnpublishedStaysLocked, NEW w \in Window, Write(w)
  PROVE  Functions' /\ UnpublishedStaysLocked'
<1>1. CASE Unlocked(w)
  BY <1>1 DEF Unlocked, TaskAndWallet, Functions, UnpublishedStaysLocked
<1>2. CASE Cleared(w) \/ Existing(w) \/ Secrets(w) \/ Written(w) \/ Finish(w)
  BY <1>2, KeepsStays DEF Cleared, Existing, Secrets, Written, Finish, OnlyTask
<1>3. CASE Minutes(w) \/ Put(w) \/ FinishOutlived(w) \/ Unwrite(w)
  BY <1>3, KeepsStays DEF Minutes, Put, FinishOutlived, Unwrite, TaskAndSlots
<1>4. QED
  BY <1>1, <1>2, <1>3 DEF Write

(* A window whose own lock could not be published holds only keys its user   *)
(* has entered the password for.                                             *)
THEOREM StaysLocked == Spec => []UnpublishedStaysLocked
<1>1. Init => Functions /\ UnpublishedStaysLocked
  BY DEF Init, Functions, UnpublishedStaysLocked
<1>2. ASSUME Functions, UnpublishedStaysLocked, [Next]_vars
      PROVE  Functions' /\ UnpublishedStaysLocked'
  <2>1. CASE UNCHANGED vars
    BY <1>2, <2>1, KeepsStays DEF vars
  <2>2. ASSUME NEW w \in Window, Open(w) \/ Unlock(w) \/ PopOut(w) \/ LockDone(w)
        PROVE  Functions' /\ UnpublishedStaysLocked'
    BY <1>2, <2>2, KeepsStays DEF Open, Unlock, PopOut, LockDone, OnlyTask
  <2>3. ASSUME NEW w \in Window, Close(w) \/ Deliver(w) \/ \E v \in Window : PopsOut(w, v)
        PROVE  Functions' /\ UnpublishedStaysLocked'
    BY <1>2, <2>3, KeepsStays DEF Close, Deliver, PopsOut, Closed
  <2>4. ASSUME NEW w \in Window, Lock(w)
        PROVE  Functions' /\ UnpublishedStaysLocked'
    BY <1>2, <2>4 DEF Lock, Revoked, Functions, UnpublishedStaysLocked
  <2>5. ASSUME NEW w \in Window, LockAnswered(w)
        PROVE  Functions' /\ UnpublishedStaysLocked'
    BY <1>2, <2>5 DEF LockAnswered, Functions, UnpublishedStaysLocked
  <2>6. QED
    BY <1>2, <2>1, <2>2, <2>3, <2>4, <2>5, RestoreStays, WriteStays DEF Next
<1>3. QED
  BY <1>1, <1>2, PTL DEF Spec
-------------------------------------------------------------------------------
(* What a lock leaves in the slots.                                          *)

(* w is still to take back the entry of k that it wrote. *)
Cleans(w, k) ==
  /\ task[w].slot = k /\ slots[k] = Mine(w)
  /\ \/ task[w].at = "writing"
     \/ task[w].at = "finishing" /\ task[w].again # task[w].lockId
     \/ task[w].at = "unwriting" /\ task[w].saw = slots[k]

(* An entry of an earlier lock is about to be cleared: by a lock whose        *)
(* announcement is being written, or by its writer, which finds the lock it   *)
(* wrote the entry under gone.                                                *)
Swept ==
  budget.closes = {} =>
    \A k \in Slot :
      slots[k] # None /\ slots[k].lockId # lockId =>
        \/ \E w \in Window : locking[w] = "published"
        \/ \E w \in Window : Cleans(w, k)

(* While the lock stays, nothing needs sweeping that did not before, as long  *)
(* as who is to sweep still will.                                             *)
LEMMA SweptStays ==
  ASSUME Swept, UNCHANGED <<lockId, budget>>,
         \A v \in Window : locking[v] = "published" => locking'[v] = "published",
         budget.closes = {} =>
           \A k \in Slot :
             \/ slots'[k] = None \/ slots'[k].lockId = lockId
             \/ \E v \in Window : Cleans(v, k)'
             \/ slots'[k] = slots[k] /\ \A v \in Window : Cleans(v, k) => Cleans(v, k)'
  PROVE  Swept'
<1> SUFFICES ASSUME budget.closes = {}, NEW k \in Slot, slots'[k] # None, slots'[k].lockId # lockId
             PROVE  \/ \E w \in Window : locking'[w] = "published"
                    \/ \E w \in Window : Cleans(w, k)'
  BY DEF Swept
<1>1. CASE \E v \in Window : Cleans(v, k)'
  BY <1>1
<1>2. CASE slots'[k] = slots[k] /\ \A v \in Window : Cleans(v, k) => Cleans(v, k)'
  BY <1>2 DEF Swept
<1>3. QED
  BY <1>1, <1>2

(* The other windows' tasks are as they were, and so is their cleaning. *)
LEMMA OthersClean ==
  ASSUME NEW v \in Window, NEW k \in Slot, task'[v] = task[v], slots'[k] = slots[k], Cleans(v, k)
  PROVE  Cleans(v, k)'
BY DEF Cleans, Mine

(* A step of a task that has no entry to take back writes none. *)
LEMMA OtherSteps ==
  ASSUME LockTypeOK, Swept, NEW w \in Window,
         task[w].at \notin {"writing", "finishing", "unwriting"},
         \E t : task' = [task EXCEPT ![w] = t],
         slots' = slots \/ \E K : Removed(K),
         UNCHANGED <<lockId, locking, budget>>
  PROVE  Swept'
<1>1. \A v \in Window \ {w} : task'[v] = task[v]
  BY DEF LockTypeOK
<1>2. \A k \in Slot : slots'[k] \in {None, slots[k]}
  BY DEF Removed
<1>3. \A k \in Slot : ~Cleans(w, k)
  BY DEF Cleans
<1>4. \A k \in Slot : slots'[k] = slots[k] => \A v \in Window : Cleans(v, k) => Cleans(v, k)'
  BY <1>1, <1>3, OthersClean
<1>5. QED
  BY <1>2, <1>4, SweptStays

(* A restore takes entries away, and writes none. *)
LEMMA RestoreSweeps ==
  ASSUME LockTypeOK, Swept, NEW w \in Window, Restore(w)
  PROVE  Swept'
<1>1. CASE GraceRead(w) \/ GraceState(w) \/ Epoch(w) \/ NextSlot(w) \/ EntryState(w)
  BY <1>1, OtherSteps DEF GraceRead, GraceState, Epoch, NextSlot, EntryState, At, ReadAgain, ReadSlot,
     Goes, OnlyTask
<1>2. CASE GraceAdmit(w) \/ Admit(w)
  BY <1>2, OtherSteps DEF GraceAdmit, Admit, At, Goes, Ends, TaskAndWallet
<1>3. CASE State(w)
  BY <1>3, OtherSteps DEF State, At, Goes, Ends
<1>4. CASE GraceEpoch(w) \/ StaleHandoff(w)
  BY <1>4, OtherSteps DEF GraceEpoch, StaleHandoff, At, Goes, Goto, TaskAndSlots
<1>5. CASE Handoff(w)
  BY <1>5, OtherSteps DEF Handoff, At, Goes, Goto, ReadSlot, TaskAndSlots
<1>6. CASE Cache(w)
  BY <1>6, OtherSteps DEF Cache, At, Goes, Goto, Ends, TaskAndSlots
<1>7. QED
  BY <1>1, <1>2, <1>3, <1>4, <1>5, <1>6 DEF Restore

(* What is put in a slot is looked at again when it is written. *)
LEMMA PutSweeps ==
  ASSUME LockTypeOK, Swept, NEW w \in Window, Put(w)
  PROVE  Swept'
<1>1. task[w].at = "checking" /\ UNCHANGED <<lockId, locking, budget>>
  BY DEF Put, At, TaskAndSlots
<1>2. CASE UNCHANGED slots /\ Fails(w)
  BY <1>1, <1>2, OtherSteps DEF Fails, Refreshes, Goes, Ends
<1>3. CASE slots' = [slots EXCEPT ![task[w].slot] = Mine(w)] /\ Goto(w, "writing")
  <2>c. PICK k : k = task[w].slot
    OBVIOUS
  <2>1. /\ task'[w].at = "writing" /\ task'[w].slot = k
        /\ task'[w].lockId = task[w].lockId /\ task'[w].epoch = task[w].epoch
        /\ \A v \in Window \ {w} : task'[v] = task[v]
    BY <1>3, <2>c DEF LockTypeOK, Task, Goto, Goes
  <2>2. Mine(w)' = Mine(w)
    BY <2>1 DEF Mine
  <2>3. k \in Slot => Cleans(w, k)'
    BY <1>3, <2>c, <2>1, <2>2 DEF Cleans, LockTypeOK
  <2>4. \A j \in Slot \ {k} : slots'[j] = slots[j]
    BY <1>3, <2>c DEF LockTypeOK
  <2>5. \A j \in Slot : ~Cleans(w, j)
    BY <1>1 DEF Cleans
  <2>6. \A j \in Slot \ {k} : \A v \in Window : Cleans(v, j) => Cleans(v, j)'
    BY <2>1, <2>4, <2>5, OthersClean
  <2>7. \A j \in Slot : \/ \E v \in Window : Cleans(v, j)'
                        \/ slots'[j] = slots[j] /\ \A v \in Window : Cleans(v, j) => Cleans(v, j)'
    BY <2>3, <2>4, <2>6
  <2>8. QED
    BY <1>1, <2>7, SweptStays
<1>4. QED
  BY <1>2, <1>3 DEF Put
(* The lock read after the entry was written shows whether it outlived its    *)
(* own.                                                                       *)
LEMMA WrittenSweeps ==
  ASSUME LockTypeOK, Swept, NEW w \in Window, Written(w)
  PROVE  Swept'
<1>1. /\ task[w].at = "writing" /\ UNCHANGED <<slots, lockId, locking, budget>>
      /\ task'[w].at = "finishing" /\ task'[w].again = lockId
      /\ task'[w].slot = task[w].slot /\ task'[w].lockId = task[w].lockId /\ task'[w].epoch = task[w].epoch
      /\ \A v \in Window \ {w} : task'[v] = task[v]
  BY DEF Written, At, ReadAgain, Goes, OnlyTask, LockTypeOK, Task
<1>2. Mine(w)' = Mine(w)
  BY <1>1 DEF Mine
<1>3. ASSUME NEW k \in Slot, Cleans(w, k), slots[k].lockId # lockId
      PROVE  Cleans(w, k)'
  <2>1. slots[k] = Mine(w) /\ task[w].slot = k
    BY <1>3 DEF Cleans
  <2>2. task[w].lockId # lockId
    BY <1>3, <2>1 DEF Mine
  <2>3. QED
    BY <1>1, <1>2, <2>1, <2>2 DEF Cleans
<1>4. \A k \in Slot : \A v \in Window \ {w} : Cleans(v, k) => Cleans(v, k)'
  BY <1>1, OthersClean
<1>5. \A k \in Slot : \/ slots'[k].lockId = lockId
                      \/ slots'[k] = slots[k] /\ \A v \in Window : Cleans(v, k) => Cleans(v, k)'
  BY <1>1, <1>3, <1>4
<1>6. QED
  BY <1>1, <1>5, SweptStays

(* An entry that outlived its lock is looked up, and is there unless somebody *)
(* else has cleared or replaced it ...                                        *)
LEMMA FinishSweeps ==
  ASSUME LockTypeOK, Swept, NEW w \in Window, FinishOutlived(w)
  PROVE  Swept'
<1>1. /\ task[w].at = "finishing" /\ UNCHANGED <<lockId, locking, budget>>
      /\ \A v \in Window \ {w} : task'[v] = task[v]
  BY DEF FinishOutlived, At, Refreshes, ReadSlot, Goes, TaskAndSlots, LockTypeOK
<1>2. CASE task[w].slot = "grace" /\ Removed({"grace"})
  <2>1. slots'["grace"] = None /\ \A k \in Slot \ {"grace"} : slots'[k] = slots[k] /\ ~Cleans(w, k)
    BY <1>2 DEF Removed, Cleans, Slot
  <2>2. \A k \in Slot : \/ slots'[k] = None
                        \/ slots'[k] = slots[k] /\ \A v \in Window : Cleans(v, k) => Cleans(v, k)'
    BY <1>1, <2>1, OthersClean
  <2>3. QED
    BY <1>1, <2>2, SweptStays
<1>3. CASE UNCHANGED slots /\ ReadSlot(w, "unwriting", task[w].slot)
  <2>1. /\ task'[w].at = "unwriting" /\ task'[w].saw = slots[task[w].slot]
        /\ task'[w].slot = task[w].slot /\ task'[w].lockId = task[w].lockId /\ task'[w].epoch = task[w].epoch
    BY <1>3 DEF ReadSlot, Goes, LockTypeOK, Task
  <2>2. Mine(w)' = Mine(w)
    BY <2>1 DEF Mine
  <2>3. \A k \in Slot : Cleans(w, k) => Cleans(w, k)'
    BY <1>3, <2>1, <2>2 DEF Cleans
  <2>4. \A k \in Slot : \A v \in Window : Cleans(v, k) => Cleans(v, k)'
    BY <1>1, <1>3, <2>3, OthersClean
  <2>5. QED
    BY <1>1, <1>3, <2>4, SweptStays
<1>4. QED
  BY <1>2, <1>3 DEF FinishOutlived

(* ... and is removed.                                                        *)
LEMMA UnwriteSweeps ==
  ASSUME LockTypeOK, Swept, NEW w \in Window, Unwrite(w)
  PROVE  Swept'
<1>1. /\ task[w].at = "unwriting" /\ UNCHANGED <<lockId, locking, budget>>
      /\ \A v \in Window \ {w} : task'[v] = task[v]
  BY DEF Unwrite, At, Ends, TaskAndSlots, LockTypeOK
<1>2. CASE task[w].saw = Mine(w) /\ Removed({task[w].slot})
  <2>1. \A k \in Slot : \/ slots'[k] = None
                        \/ slots'[k] = slots[k] /\ ~Cleans(w, k)
    BY <1>2 DEF Removed, Cleans
  <2>2. \A k \in Slot : \/ slots'[k] = None
                        \/ slots'[k] = slots[k] /\ \A v \in Window : Cleans(v, k) => Cleans(v, k)'
    BY <1>1, <2>1, OthersClean
  <2>3. QED
    BY <1>1, <2>2, SweptStays
<1>3. CASE task[w].saw # Mine(w) /\ UNCHANGED slots
  <2>1. \A k \in Slot : ~Cleans(w, k)
    BY <1>1, <1>3 DEF Cleans
  <2>2. \A k \in Slot : \A v \in Window : Cleans(v, k) => Cleans(v, k)'
    BY <1>1, <1>3, <2>1, OthersClean
  <2>3. QED
    BY <1>1, <1>3, <2>2, SweptStays
<1>4. QED
  BY <1>2, <1>3 DEF Unwrite

(* What a task that is to go on after its write finds of its lock. *)
LEMMA NotOutlived ==
  ASSUME NEW w \in Window, task[w].at = "finishing", ~Outlived(w)
  PROVE  \A k \in Slot : ~Cleans(w, k)
BY DEF Outlived, Cleans

LEMMA WriteSweeps ==
  ASSUME LockTypeOK, Swept, NEW w \in Window, Write(w)
  PROVE  Swept'
<1>1. CASE Unlocked(w)
  BY <1>1, OtherSteps DEF Unlocked, At, Goto, Goes, Ends, TaskAndWallet
<1>2. CASE Minutes(w)
  BY <1>2, OtherSteps DEF Minutes, At, Goto, Goes, TaskAndSlots
<1>3. CASE Cleared(w) \/ Existing(w)
  BY <1>3, OtherSteps DEF Cleared, Existing, At, ReadSlot, Refreshes, Goes, OnlyTask
<1>4. CASE Secrets(w)
  BY <1>4, OtherSteps DEF Secrets, At, ReadAgain, Fails, Refreshes, Goes, Ends, OnlyTask
<1>5. CASE Finish(w)
  <2>1. /\ task[w].at = "finishing" /\ ~Outlived(w) /\ UNCHANGED <<slots, lockId, locking, budget>>
        /\ \A v \in Window \ {w} : task'[v] = task[v]
    BY <1>5 DEF Finish, At, Refreshes, Goes, OnlyTask, LockTypeOK
  <2>2. \A k \in Slot : \A v \in Window : Cleans(v, k) => Cleans(v, k)'
    BY <2>1, NotOutlived, OthersClean
  <2>3. QED
    BY <2>1, <2>2, SweptStays
<1>6. QED
  BY <1>1, <1>2, <1>3, <1>4, <1>5, PutSweeps, WrittenSweeps, FinishSweeps, UnwriteSweeps DEF Write

-------------------------------------------------------------------------------
(* The bounds of a behaviour, and what is left of them. *)
Bounds == [windows : SUBSET Window, locks : Nat, unlocks : Nat, failures : Nat,
           closes : SUBSET {"task", "lock"}]

LEMMA BoundsStay ==
  ASSUME budget \in Bounds, [Next]_vars
  PROVE  budget' \in Bounds /\ budget'.closes = budget.closes
<1>1. CASE UNCHANGED budget
  BY <1>1 DEF Bounds
<1>2. ASSUME NEW w \in Window, Unlock(w)
      PROVE  budget' \in Bounds /\ budget'.closes = budget.closes
  BY <1>2 DEF Unlock, Bounds
<1>3. ASSUME NEW w \in Window, Lock(w)
      PROVE  budget' \in Bounds /\ budget'.closes = budget.closes
  <2>1. CASE budget' = [budget EXCEPT !.locks = @ - 1]
    BY <1>3, <2>1 DEF Lock, Bounds
  <2>2. CASE budget.failures > 0 /\ budget' = [budget EXCEPT !.locks = @ - 1, !.failures = @ - 1]
    <3>1. budget.locks - 1 \in Nat /\ budget.failures - 1 \in Nat
      BY <1>3, <2>2 DEF Lock, Bounds
    <3>2. QED
      BY <2>2, <3>1 DEF Bounds
  <2>3. QED
    BY <1>3, <2>1, <2>2 DEF Lock
<1>4. ASSUME NEW w \in Window, Restore(w) \/ Write(w) PROVE UNCHANGED budget
  <2>1. CASE Restore(w)
    BY <2>1 DEF Restore, GraceRead, GraceEpoch, GraceState, GraceAdmit, State, Epoch, Handoff,
       StaleHandoff, NextSlot, Cache, EntryState, Admit, OnlyTask, TaskAndSlots, TaskAndWallet
  <2>2. CASE Write(w)
    BY <2>2 DEF Write, Unlocked, Minutes, Cleared, Existing, Secrets, Put, Written, FinishOutlived,
       Unwrite, Finish, OnlyTask, TaskAndSlots, TaskAndWallet
  <2>3. QED
    BY <1>4, <2>1, <2>2
<1>5. ASSUME NEW w \in Window, NEW v \in Window,
             Open(w) \/ Close(w) \/ PopOut(w) \/ PopsOut(w, v) \/ LockAnswered(w) \/ LockDone(w) \/ Deliver(w)
      PROVE  UNCHANGED budget
  BY <1>5 DEF Open, Close, PopOut, PopsOut, LockAnswered, LockDone, Deliver, OnlyTask
<1>6. CASE UNCHANGED vars
  BY <1>1, <1>6 DEF vars
<1>7. QED
  BY <1>1, <1>2, <1>3, <1>4, <1>5, <1>6 DEF Next

(* A window that does not close in the middle of its own lock: it pops out    *)
(* only between locks.                                                        *)
PopsOutBetweenLocks == \A w, v \in Window : PopsOut(w, v) => locking[w] = "no"

LEMMA IdleCleansNothing ==
  ASSUME NEW w \in Window, task[w] = Idle
  PROVE  \A k \in Slot : ~Cleans(w, k)
BY DEF Idle, Cleans

(* A lock that is published is followed by its clearing; one that is not      *)
(* changes nothing an entry is of.                                            *)
LEMMA LockSweeps ==
  ASSUME LockTypeOK, Swept, NEW w \in Window, Lock(w), budget'.closes = budget.closes
  PROVE  Swept'
<1>1. /\ UNCHANGED slots
      /\ task' = [task EXCEPT ![w].current = FALSE] /\ locking[w] = "no"
  BY DEF Lock, Revoked
<1>2. CASE locking' = [locking EXCEPT ![w] = "published"]
  BY <1>2 DEF Swept, LockTypeOK
<1>3. CASE locking' = [locking EXCEPT ![w] = "failed"] /\ UNCHANGED lockId
  <2>1. \A v \in Window : /\ task'[v].at = task[v].at /\ task'[v].slot = task[v].slot
                          /\ task'[v].lockId = task[v].lockId /\ task'[v].epoch = task[v].epoch
                          /\ task'[v].again = task[v].again /\ task'[v].saw = task[v].saw
    BY <1>1 DEF LockTypeOK, Task
  <2>2. \A v \in Window : \A k \in Slot : Cleans(v, k) => Cleans(v, k)'
    BY <1>1, <2>1 DEF Cleans, Mine
  <2>3. \A v \in Window : locking[v] = "published" => locking'[v] = "published"
    BY <1>1, <1>3 DEF LockTypeOK
  <2>4. QED
    BY <1>1, <1>3, <2>2, <2>3 DEF Swept
<1>4. QED
  BY <1>2, <1>3 DEF Lock

LEMMA DeliverSweeps ==
  ASSUME LockTypeOK, Swept, NEW w \in Window, Deliver(w)
  PROVE  Swept'
<1>1. UNCHANGED <<lockId, slots, locking, budget>> /\ \A v \in Window \ {w} : task'[v] = task[v]
  BY DEF Deliver, LockTypeOK
<1>2. \A k \in Slot : Cleans(w, k) => Cleans(w, k)'
  <2>1. CASE task[w] = Idle
    BY <2>1, IdleCleansNothing
  <2>2. CASE task[w] # Idle
    <3>1. /\ task'[w].at = task[w].at /\ task'[w].slot = task[w].slot
          /\ task'[w].lockId = task[w].lockId /\ task'[w].epoch = task[w].epoch
          /\ task'[w].again = task[w].again /\ task'[w].saw = task[w].saw
      BY <2>2 DEF Deliver, LockTypeOK, Task
    <3>2. QED
      BY <1>1, <3>1 DEF Cleans, Mine
  <2>3. QED
    BY <2>1, <2>2
<1>3. \A k \in Slot : \A v \in Window : Cleans(v, k) => Cleans(v, k)'
  BY <1>1, <1>2, OthersClean
<1>4. QED
  BY <1>1, <1>3, SweptStays

(* Windows that come and go, while they have nothing to take back. *)
LEMMA WindowSweeps ==
  ASSUME LockTypeOK, LockInv, Swept, NEW w \in Window, NEW v \in Window,
         Open(w) \/ Close(w) \/ Unlock(w) \/ PopOut(w) \/ (PopsOut(w, v) /\ locking[w] = "no"),
         budget'.closes = budget.closes
  PROVE  Swept'
<1>1. UNCHANGED <<slots, lockId>>
  BY DEF Open, Close, Unlock, PopOut, PopsOut, Closed, OnlyTask
<1>2. ASSUME budget.closes = {}, NEW u \in Window, NEW k \in Slot, Cleans(u, k)
      PROVE  Cleans(u, k)'
  <2>1. CASE Open(w) \/ Close(w) \/ Unlock(w) \/ PopOut(w)
    <3>1. task[w] = Idle
      BY <1>2, <2>1 DEF Open, Close, Unlock, PopOut, LockInv, Gone
    <3>2. u # w
      BY <1>2, <3>1, IdleCleansNothing
    <3>3. \A x \in Window \ {w} : task'[x] = task[x]
      BY <2>1 DEF Open, Close, Unlock, PopOut, Closed, Refreshes, Goes, LockTypeOK
    <3>4. QED
      BY <1>1, <1>2, <3>2, <3>3, OthersClean
  <2>2. CASE PopsOut(w, v)
    <3>1. task[v] = Idle /\ task[w].at = "finishing" /\ ~Outlived(w)
      BY <2>2 DEF PopsOut, At, LockInv, Gone
    <3>2. u # v /\ u # w
      BY <1>2, <3>1, IdleCleansNothing, NotOutlived
    <3>3. \A x \in Window \ {w, v} : task'[x] = task[x]
      BY <2>2 DEF PopsOut, Closed, LockTypeOK
    <3>4. QED
      BY <1>1, <1>2, <3>2, <3>3, OthersClean
  <2>3. QED
    BY <2>1, <2>2
<1>3. ASSUME budget.closes = {}, NEW u \in Window, locking[u] = "published"
      PROVE  locking'[u] = "published"
  <2>1. CASE Open(w) \/ Unlock(w) \/ PopOut(w)
    BY <1>3, <2>1 DEF Open, Unlock, PopOut, OnlyTask
  <2>2. CASE Close(w) \/ (PopsOut(w, v) /\ locking[w] = "no")
    <3>1. locking[w] = "no" /\ locking' = [locking EXCEPT ![w] = "no"]
      BY <1>3, <2>2 DEF Close, PopsOut, Closed
    <3>2. QED
      BY <1>3, <3>1 DEF LockTypeOK
  <2>3. QED
    BY <2>1, <2>2
<1>4. QED
  BY <1>1, <1>2, <1>3 DEF Swept

LEMMA AnswerSweeps ==
  ASSUME LockTypeOK, Swept, NEW w \in Window, LockAnswered(w) \/ LockDone(w)
  PROVE  Swept'
<1>1. CASE LockAnswered(w)
  <2>1. \A k \in Slot : slots'[k] = None
    BY <1>1 DEF LockAnswered, Removed
  <2>2. QED
    BY <2>1 DEF Swept
<1>2. CASE LockDone(w)
  <2>1. /\ UNCHANGED <<lockId, slots, budget>> /\ locking[w] = "clearing"
        /\ locking' = [locking EXCEPT ![w] = "no"]
    BY <1>2 DEF LockDone
  <2>2. \A v \in Window : locking[v] = "published" => locking'[v] = "published"
    BY <2>1 DEF LockTypeOK
  <2>3. \A v \in Window : task'[v] = task[v] \/ (v = w /\ task[w] = Idle)
    BY <1>2 DEF LockDone, RefreshesIfIdle, Refreshes, Goes, LockTypeOK
  <2>4. \A k \in Slot : \A v \in Window : Cleans(v, k) => Cleans(v, k)'
    BY <2>1, <2>3, OthersClean, IdleCleansNothing
  <2>5. QED
    BY <2>1, <2>2, <2>4, SweptStays
<1>3. QED
  BY <1>1, <1>2

LEMMA NextSweeps ==
  ASSUME LockTypeOK, LockInv, budget \in Bounds, Swept, [Next]_vars, [PopsOutBetweenLocks]_vars
  PROVE  Swept'
<1>b. budget'.closes = budget.closes
  BY BoundsStay
<1>1. CASE UNCHANGED vars
  <2>1. \A k \in Slot : \A v \in Window : Cleans(v, k) => Cleans(v, k)'
    BY <1>1, OthersClean DEF vars
  <2>2. QED
    BY <1>1, <2>1, SweptStays DEF vars
<1>2. CASE Next /\ ~UNCHANGED vars
  <2>1. \A w, v \in Window : PopsOut(w, v) => locking[w] = "no"
    BY <1>2 DEF PopsOutBetweenLocks
  <2>2. QED
    BY <1>b, <1>2, <2>1, RestoreSweeps, WriteSweeps, WindowSweeps, LockSweeps, AnswerSweeps, DeliverSweeps
       DEF Next
<1>3. QED
  BY <1>1, <1>2

(* With everything settled, what the slots hold is of the last lock: a write  *)
(* that a lock overtook is taken back by its writer, if no window closes in   *)
(* the middle of a task or of its own lock (finishCacheWrite,                 *)
(* lockWalletContexts).                                                       *)
THEOREM RevokedKeysCleared ==
  ASSUME Ordered, Scenario \subseteq Bounds
  PROVE  Spec /\ [][PopsOutBetweenLocks]_vars => []NoRevokedKeysAtRest
<1>1. Init => LockTypeOK /\ LockInv /\ budget \in Bounds /\ Swept
  <2>1. Init => budget \in Bounds /\ Swept
    BY DEF Init, Swept
  <2>2. QED
    BY <2>1, InitHolds
<1>2. LockTypeOK /\ LockInv /\ budget \in Bounds /\ Swept /\ [Next]_vars /\ [PopsOutBetweenLocks]_vars
        => LockTypeOK' /\ LockInv' /\ (budget \in Bounds)' /\ Swept'
  BY NextHolds, BoundsStay, NextSweeps
<1>3. LockTypeOK /\ Swept => NoRevokedKeysAtRest
  <2> SUFFICES ASSUME LockTypeOK, Swept, Quiet, budget.closes = {},
                      NEW k \in Slot, slots[k] # None
               PROVE  slots[k].epoch = lockId
    BY DEF NoRevokedKeysAtRest
  <2>1. slots[k].epoch = slots[k].lockId
    BY DEF LockTypeOK, Entry
  <2>2. \A w \in Window : locking[w] # "published" /\ ~Cleans(w, k)
    BY IdleCleansNothing DEF Quiet
  <2>3. QED
    BY <2>1, <2>2 DEF Swept
<1>4. QED
  BY <1>1, <1>2, <1>3, PTL DEF Spec
===============================================================================
