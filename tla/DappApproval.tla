------------------------------ MODULE DappApproval ------------------------------
(****************************************************************************)
(* The approval prompt of the dapp bridge: the service worker's queue for   *)
(* the one approval window (background/dapp/approval.ts of the extension)   *)
(* and the window itself as the worker meets it (popup/routes/approval.tsx).*)
(*                                                                          *)
(* A step of the worker is the code between two awaits.  External are       *)
(* chrome.storage.session, where a request takes effect when it is issued   *)
(* and its answer comes later; chrome.windows; and the events of both,      *)
(* which reach whatever listeners are registered when they are delivered,   *)
(* in any order.  Events and answers nobody listens to any more, or ever    *)
(* will, are left out.  A request stands for one call of requestApproval.   *)
(****************************************************************************)
EXTENDS Integers, Sequences, SequencesExt, FiniteSets

CONSTANTS
  Request,        \* calls of requestApproval, each made at most once
  Origin,         \* web origins
  OriginOf,       \* the origin of each request
  Connected,      \* the origins with a permission record
  None,           \* no decision, no time
  MaxQueued,      \* MAX_QUEUED_APPROVALS
  MaxPrompts,     \* MAX_PROMPTS_PER_ORIGIN
  RateWindow,     \* ORIGIN_RATE_WINDOW_MS, in ticks
  EarlyDismissal, \* a window may be dismissed before the worker listens for it
  Scenario        \* what a behaviour is about: the requests that come; bounds on
                  \* evictions of the worker, on storage writes refused and
                  \* windows that do not open, and on time

Budget == [requests : SUBSET Request, evictions : Nat, failures : Nat, ticks : Nat]

Decision == {"approved", "denied"}

(* What the parameters must be; whoever instantiates the module assumes it.  *)
Assumptions ==
  /\ OriginOf \in [Request -> Origin] /\ Connected \subseteq Origin
  /\ MaxQueued \in Nat /\ MaxPrompts \in Nat \ {0} /\ RateWindow \in Nat \ {0}
  /\ Scenario \subseteq Budget
  /\ EarlyDismissal \in BOOLEAN
  /\ None \notin Decision

VARIABLES
  pc,              \* worker: pc[r], where the call of request r stands
  line,            \* worker: queueTail, as the calls chained on it; the head has the slot
  slotHolders,     \* worker: calls holding or waiting for the slot
  promptsByOrigin, \* worker: each origin's prompts, with the time each was admitted
  reads,           \* worker: reads of a result key not answered yet
  answer,          \* answer[r]: the decision the call returned to the dapp
  pending,         \* storage.session approval-pending:<id>
  result,          \* storage.session approval-result:<id>
  popup,           \* popup[r]: the approval window of r
  chose,           \* chose[r]: what the user tapped, its effect done
  changed,         \* storage.onChanged events of results, not delivered yet
  removed,         \* windows.onRemoved events, not delivered yet
  now,             \* the clock
  opened,          \* opened[r]: when the window of r opened
  budget           \* the scenario, its counts what its bounds leave

worker  == <<pc, line, slotHolders, promptsByOrigin, reads, answer>>
storage == <<pending, result>>
window  == <<popup, chose, opened>>
events  == <<changed, removed>>
vars == <<worker, storage, window, events, now, budget>>

Settled == {"answered", "refused", "failed", "lost"}

-------------------------------------------------------------------------------
(* The queue.                                                               *)

(* Mutant: only requests already in line count against the bound.           *)
Full_InLine == Len(line) > MaxQueued

Full == slotHolders > MaxQueued

Recent(o) == {p \in promptsByOrigin[o] : now - p.at < RateWindow}

RateLimited(o) == Cardinality(Recent(o)) >= MaxPrompts

(* pruneOriginPrompts: an origin whose last prompt has aged, and so all     *)
(* before it, has no entry.                                                 *)
Pruned == [o \in Origin |-> IF Recent(o) = {} THEN {} ELSE promptsByOrigin[o]]

(* The finally of requestApproval: the call ends and gives up its place.    *)
Ends(r, how, holders) ==
  /\ pc' = [pc EXCEPT ![r] = how]
  /\ slotHolders' = holders - 1

Refuse(r, holders) == Ends(r, "refused", holders)

(* Mutant: the prompt is not recorded.                                      *)
Admit_Unrecorded(r, holders) ==
  /\ pc' = [pc EXCEPT ![r] = "queued"]
  /\ line' = Append(line, r)
  /\ promptsByOrigin' = Pruned
  /\ slotHolders' = holders

(* Past the checks: the rate cap, then the end of the line.                 *)
Admit(r, holders) ==
  LET o == OriginOf[r] IN
  \/ /\ RateLimited(o)
     /\ promptsByOrigin' = [Pruned EXCEPT ![o] = Recent(o)]
     /\ Refuse(r, holders)
     /\ UNCHANGED line
  \/ /\ ~RateLimited(o)
     /\ promptsByOrigin' = [Pruned EXCEPT ![o] = Recent(o) \union {[id |-> r, at |-> now]}]
     /\ line' = Append(line, r)
     /\ pc' = [pc EXCEPT ![r] = "queued"]
     /\ slotHolders' = holders

(* requestApproval, up to its first await.                                  *)
RequestApproval(r) ==
  /\ pc[r] = "idle"
  /\ \/ /\ slotHolders > 0 /\ Full
        /\ Refuse(r, slotHolders + 1)
        /\ UNCHANGED <<line, promptsByOrigin>>
     \/ /\ slotHolders > 0 /\ ~Full
        /\ pc' = [pc EXCEPT ![r] = "checking"]
        /\ slotHolders' = slotHolders + 1
        /\ UNCHANGED <<line, promptsByOrigin>>
     \/ /\ slotHolders = 0
        /\ Admit(r, slotHolders + 1)
  /\ UNCHANGED <<reads, answer, storage, window, events, now, budget>>

(* permissions.get answered: only a connected origin may wait behind a      *)
(* prompt.                                                                  *)
PermissionRead(r) ==
  /\ pc[r] = "checking"
  /\ \/ /\ OriginOf[r] \notin Connected
        /\ Refuse(r, slotHolders)
        /\ UNCHANGED <<line, promptsByOrigin>>
     \/ /\ OriginOf[r] \in Connected
        /\ Admit(r, slotHolders)
  /\ UNCHANGED <<reads, answer, storage, window, events, now, budget>>

-------------------------------------------------------------------------------
(* openApprovalWindow, by the call that has the slot.                       *)

HasSlot(r) == line # <<>> /\ Head(line) = r

Release(r, how) == line' = Tail(line) /\ Ends(r, how, slotHolders)

(* The pending request is posted.                                           *)
Post(r) ==
  /\ pc[r] = "queued" /\ HasSlot(r)
  /\ pc' = [pc EXCEPT ![r] = "posting"]
  /\ pending' = pending \union {r}
  /\ UNCHANGED <<line, slotHolders, promptsByOrigin, reads, answer, result, window, events, now, budget>>

(* Writing the pending request is refused: nothing was opened.              *)
PostFails(r) ==
  /\ pc[r] = "queued" /\ HasSlot(r) /\ budget.failures > 0
  /\ Release(r, "failed")
  /\ budget' = [budget EXCEPT !.failures = @ - 1]
  /\ UNCHANGED <<promptsByOrigin, reads, answer, storage, window, events, now>>

(* chrome.windows.create is called ...                                      *)
CreateWindow(r) ==
  /\ pc[r] = "posting"
  /\ pc' = [pc EXCEPT ![r] = "creating"]
  /\ popup' = [popup EXCEPT ![r] = "coming"]
  /\ UNCHANGED <<line, slotHolders, promptsByOrigin, reads, answer, storage, chose, opened, events, now, budget>>

(* ... the browser opens the window ...                                     *)
WindowOpens(r) ==
  /\ popup[r] = "coming"
  /\ popup' = [popup EXCEPT ![r] = "open"]
  /\ opened' = [opened EXCEPT ![r] = now]
  /\ UNCHANGED <<worker, storage, chose, events, now, budget>>

(* Mutant: a window that does not open keeps the slot.                      *)
CreateFails_Kept(r) ==
  /\ pc[r] = "creating" /\ popup[r] = "coming" /\ budget.failures > 0
  /\ pc' = [pc EXCEPT ![r] = "failed"]
  /\ popup' = [popup EXCEPT ![r] = "none"]
  /\ budget' = [budget EXCEPT !.failures = @ - 1]
  /\ UNCHANGED <<line, slotHolders, promptsByOrigin, reads, answer, storage, chose, opened, events, now>>

(* ... or does not: the call throws outside the try that would clean up,    *)
(* and the pending request stays in storage.                                *)
CreateFails(r) ==
  /\ pc[r] = "creating" /\ popup[r] = "coming" /\ budget.failures > 0
  /\ Release(r, "failed")
  /\ popup' = [popup EXCEPT ![r] = "none"]
  /\ budget' = [budget EXCEPT !.failures = @ - 1]
  /\ UNCHANGED <<promptsByOrigin, reads, answer, storage, chose, opened, events, now>>

Read(r, why) == [id |-> r, why |-> why, saw |-> result[r]]

(* Mutant: no look at the result key after subscribing.                     *)
WaitForResult_NoLook(r) ==
  /\ pc[r] = "creating" /\ popup[r] # "coming"
  /\ pc' = [pc EXCEPT ![r] = "waiting"]
  /\ UNCHANGED <<line, slotHolders, promptsByOrigin, reads, answer, storage, window, events, now, budget>>

(* create answered: waitForResult registers its listeners and looks once    *)
(* for a result already there.                                              *)
WaitForResult(r) ==
  /\ pc[r] = "creating" /\ popup[r] # "coming"
  /\ pc' = [pc EXCEPT ![r] = "waiting"]
  /\ reads' = reads \union {Read(r, "subscribed")}
  /\ UNCHANGED <<line, slotHolders, promptsByOrigin, answer, storage, window, events, now, budget>>

(* settle: the listeners go, later answers are ignored; and the removal of  *)
(* both keys it leads to at once.                                           *)
Settle(r, d) ==
  /\ pc' = [pc EXCEPT ![r] = "cleaning"]
  /\ answer' = [answer EXCEPT ![r] = d]
  /\ pending' = pending \ {r}
  /\ result' = [result EXCEPT ![r] = None]
  /\ changed' = {c \in changed : c.id # r}
  /\ removed' = removed \ {r}
  /\ reads' = {x \in reads : x.id # r}

(* The storage listener, if it is registered.                               *)
ResultChanged(c) ==
  /\ c \in changed
  /\ \/ pc[c.id] = "waiting" /\ Settle(c.id, c.value)
     \/ /\ pc[c.id] # "waiting"
        /\ changed' = changed \ {c}
        /\ UNCHANGED <<pc, answer, storage, removed, reads>>
  /\ UNCHANGED <<line, slotHolders, promptsByOrigin, window, now, budget>>

(* The window listener: read the result again before calling it a denial.   *)
OnWindowClosed(r) ==
  /\ r \in removed
  /\ removed' = removed \ {r}
  /\ reads' = IF pc[r] = "waiting" THEN reads \union {Read(r, "closed")} ELSE reads
  /\ UNCHANGED <<pc, line, slotHolders, promptsByOrigin, answer, storage, window, changed, now, budget>>

(* Mutant: a closed window is a denial, whatever the result key holds.      *)
DismissedAs_Denied(saw) == "denied"

DismissedAs(saw) == IF saw # None THEN saw ELSE "denied"

(* A read of the result key is answered.                                    *)
ResultRead(x) ==
  /\ x \in reads
  /\ \/ x.why = "closed" /\ Settle(x.id, DismissedAs(x.saw))
     \/ x.why = "subscribed" /\ x.saw # None /\ Settle(x.id, x.saw)
     \/ /\ x.why = "subscribed" /\ x.saw = None
        /\ reads' = reads \ {x}
        /\ UNCHANGED <<pc, answer, storage, events>>
  /\ UNCHANGED <<line, slotHolders, promptsByOrigin, window, now, budget>>

(* The keys are gone, or could not be removed, which is ignored: close the  *)
(* window ...                                                               *)
Cleaned(r) ==
  /\ pc[r] = "cleaning"
  /\ pc' = [pc EXCEPT ![r] = "closing"]
  /\ UNCHANGED <<line, slotHolders, promptsByOrigin, reads, answer, storage, window, events, now, budget>>

(* Mutant: the window is left to close itself.                              *)
CloseWindow_Left(r) ==
  /\ pc[r] = "closing"
  /\ Release(r, "answered")
  /\ UNCHANGED <<promptsByOrigin, reads, answer, storage, window, events, now, budget>>

(* A window that wrote its result is finished; any other was only closed.   *)
Closed(p) == IF p \in {"written", "finished"} THEN "finished" ELSE "closed"

(* ... and, with the window gone, return the answer and pass on the slot.   *)
CloseWindow(r) ==
  /\ pc[r] = "closing"
  /\ popup' = [popup EXCEPT ![r] = Closed(@)]
  /\ Release(r, "answered")
  /\ UNCHANGED <<promptsByOrigin, reads, answer, storage, chose, opened, events, now, budget>>

-------------------------------------------------------------------------------
(* The approval window.                                                     *)

(* The user approves or denies a request the window could read.  Approving  *)
(* first does what was asked: the payment, the signature, the claim.        *)
Tap(r, d) ==
  /\ popup[r] = "open" /\ r \in pending
  /\ popup' = [popup EXCEPT ![r] = "tapped"]
  /\ chose' = [chose EXCEPT ![r] = d]
  /\ UNCHANGED <<worker, storage, opened, events, now, budget>>

(* The worker has, or will have, listeners for the events of r.             *)
Listens(r) == pc[r] \in {"creating", "waiting"}

(* finish: write the result; the window closes 50 ms later.                 *)
WriteResult(r) ==
  /\ popup[r] = "tapped"
  /\ popup' = [popup EXCEPT ![r] = "written"]
  /\ result' = [result EXCEPT ![r] = chose[r]]
  /\ changed' = IF Listens(r) THEN changed \union {[id |-> r, value |-> chose[r]]} ELSE changed
  /\ UNCHANGED <<worker, pending, chose, opened, removed, now, budget>>

(* Any way the window goes.                                                 *)
Closes(r) ==
  /\ popup' = [popup EXCEPT ![r] = Closed(@)]
  /\ removed' = IF Listens(r) THEN removed \union {r} ELSE removed
  /\ UNCHANGED <<worker, storage, chose, opened, changed, now, budget>>

ClosesItself(r) == popup[r] = "written" /\ Closes(r)

(* The user closes the window instead: undecided, or while it is at work.   *)
Dismiss(r) ==
  /\ popup[r] \in {"open", "tapped"}
  /\ pc[r] = "creating" => EarlyDismissal
  /\ Closes(r)

-------------------------------------------------------------------------------
(* The host.                                                                *)

(* The worker is evicted: its calls and counters are gone; storage and      *)
(* windows stay.                                                            *)
Evict ==
  /\ budget.evictions > 0
  /\ \E r \in Request : pc[r] \notin Settled \union {"idle"}
  /\ pc' = [r \in Request |-> IF pc[r] \in Settled \union {"idle"} THEN pc[r] ELSE "lost"]
  /\ line' = <<>>
  /\ slotHolders' = 0
  /\ promptsByOrigin' = [o \in Origin |-> {}]
  /\ reads' = {} /\ changed' = {} /\ removed' = {}
  /\ budget' = [budget EXCEPT !.evictions = @ - 1]
  /\ UNCHANGED <<answer, storage, window, now>>

Tick ==
  /\ budget.ticks > 0
  /\ now' = now + 1
  /\ budget' = [budget EXCEPT !.ticks = @ - 1]
  /\ UNCHANGED <<worker, storage, window, events>>

-------------------------------------------------------------------------------

Init ==
  /\ pc = [r \in Request |-> "idle"]
  /\ line = <<>>
  /\ slotHolders = 0
  /\ promptsByOrigin = [o \in Origin |-> {}]
  /\ reads = {}
  /\ answer = [r \in Request |-> None]
  /\ pending = {}
  /\ result = [r \in Request |-> None]
  /\ popup = [r \in Request |-> "none"]
  /\ chose = [r \in Request |-> None]
  /\ changed = {}
  /\ removed = {}
  /\ now = 0
  /\ opened = [r \in Request |-> None]
  /\ budget \in Scenario

CallStep(r) ==
  \/ PermissionRead(r)
  \/ Post(r) \/ CreateWindow(r) \/ WindowOpens(r) \/ WaitForResult(r)
  \/ OnWindowClosed(r) \/ Cleaned(r) \/ CloseWindow(r)

Heard ==
  \/ \E c \in changed : ResultChanged(c)
  \/ \E x \in reads : ResultRead(x)

WindowStep(r) == WriteResult(r) \/ ClosesItself(r)

User(r) == Dismiss(r) \/ \E d \in Decision : Tap(r, d)

Next ==
  \/ \E r \in budget.requests :
       \/ RequestApproval(r) \/ CallStep(r) \/ PostFails(r) \/ CreateFails(r)
       \/ WindowStep(r) \/ User(r)
  \/ Heard
  \/ Evict
  \/ Tick

Spec == Init /\ [][Next]_vars

(* What was issued is answered, events are delivered, and the window writes *)
(* and closes as its code says.  The user gets to every prompt some time:   *)
(* the code waits for that without a limit, on purpose.                     *)
Fairness ==
  /\ \A r \in Request : WF_vars(CallStep(r)) /\ WF_vars(WindowStep(r)) /\ WF_vars(User(r))
  /\ WF_vars(Heard)

FairSpec == Spec /\ Fairness

-------------------------------------------------------------------------------
(* Properties.                                                              *)

(* Every variable holds a value of its kind; in particular no call gives up *)
(* a place in the queue it does not hold (the finally of requestApproval).  *)
TypeOK ==
  /\ pc \in [Request -> {"idle", "checking", "queued", "posting", "creating", "waiting",
                         "cleaning", "closing"} \union Settled]
  /\ line \in Seq(Request)
  /\ slotHolders \in Nat
  /\ promptsByOrigin \in [Origin -> SUBSET [id : Request, at : Nat]]
  /\ reads \subseteq [id : Request, why : {"subscribed", "closed"}, saw : Decision \union {None}]
  /\ {answer, result, chose} \subseteq [Request -> Decision \union {None}]
  /\ pending \subseteq Request /\ removed \subseteq Request
  /\ popup \in [Request -> {"none", "coming", "open", "tapped", "written", "finished", "closed"}]
  /\ changed \subseteq [id : Request, value : Decision]
  /\ now \in Nat
  /\ opened \in [Request -> Nat \union {None}]
  /\ budget \in Budget

NeverEvicted == \A r \in Request : pc[r] # "lost"

(* One approval window at a time: the next prompt opens only after the last *)
(* one's window is gone, however the earlier one ended (withApprovalSlot).  *)
(* An evicted worker forgets the window it opened, and promises nothing.    *)
OneWindow ==
  NeverEvicted =>
  Cardinality({r \in Request : popup[r] \in {"coming", "open", "tapped", "written"}}) <= 1

(* A burst of concurrent requests cannot overfill the queue although each   *)
(* awaits a permission read before it gets in line (the reservation at the  *)
(* top of requestApproval), and nobody waits there behind another's prompt  *)
(* without being connected: a request that skipped the permission check is  *)
(* the one with the slot.                                                   *)
QueueBounded ==
  /\ Len(line) <= 1 + MaxQueued
  /\ \A i \in 2..Len(line) : OriginOf[line[i]] \in Connected

(* The dapp hears what the user chose: once the window wrote a result, the  *)
(* answer is that result, although the window's removal may be heard before *)
(* the result is (onWindowClosed); and nothing else is ever an approval.    *)
AnswerIsUsers ==
  \A r \in Request : pc[r] = "answered" =>
    answer[r] = IF popup[r] = "finished" THEN chose[r] ELSE "denied"

(* Prompts of one origin that open within one rate window: at most the cap, *)
(* and those admitted earlier that were still in line (rateLimitOrigin).    *)
(* An evicted worker forgets what it counted.                               *)
PromptsIn(o) ==
  {r \in Request : OriginOf[r] = o /\ opened[r] # None /\ now - opened[r] < RateWindow}

OpeningsBounded ==
  NeverEvicted => \A o \in Origin : Cardinality(PromptsIn(o)) <= MaxPrompts + 1 + MaxQueued

(* A request the worker took comes to an end: answered, refused, failed, or *)
(* lost with the worker, whose next life owes nothing to the last.          *)
RequestSettles == \A r \in Request : <>[](pc[r] \in {"idle"} \union Settled)

(* A decision the user's window wrote reaches the dapp, unless the worker   *)
(* that waited for it was evicted.                                          *)
DecisionArrives ==
  \A r \in Request :
    <>[](popup[r] \in {"written", "finished"} =>
           (pc[r] = "answered" /\ answer[r] = chose[r]) \/ pc[r] = "lost")
=================================================================================
