------------------------------ MODULE SessionState ------------------------------
(****************************************************************************)
(* SessionStateStore (packages/core/src/state/session-state.ts): the store  *)
(* every screen of the wallet reads and writes, one instance per extension  *)
(* page, all over one key of one storage area that has no compare-and-swap. *)
(*                                                                          *)
(* A step is one task of one page: everything between two awaits.  Storage  *)
(* is external: it serves requests in the order the pages issue them, and   *)
(* what it sends one page (change announcements, read answers, write        *)
(* replies) arrives in the order it was sent, arbitrarily late.  A write's  *)
(* promise may settle later than its reply (Settle).                        *)
(****************************************************************************)
EXTENDS Naturals, Sequences

CONSTANTS
  Window,            \* extension pages, each with a store of its own
  Content,           \* session states without version and write stamp
  Default,           \* DEFAULT_SESSION_STATE
  NoCache,           \* `cached === null`
  NoWindow,          \* nobody holds the cross-window lock
  Mutator,           \* functions from Content to Content given to update();
                     \* one that throws is the identity where it throws
  Upgrade,           \* what the MIGRATIONS make of an older state's content
  InitVersion,       \* versions the storage may hold at the start
  Runtimes,          \* whether the runtime has navigator.locks: the cases considered
  LockMayExpire,     \* LOCK_WAIT_MS may run out
  MaxOwnWrites,      \* MAX_OWN_WRITES
  MaxUpdates,        \* bound: update() calls
  MaxOpens,          \* bound: pages opened after the first ones
  MaxReadFailures,   \* bound: storage reads that reject
  MaxWriteFailures   \* bound: storage writes that reject

Version == {"none", "older", "current", "newer"}

ASSUME WindowAssumption  == NoWindow \notin Window
ASSUME ContentAssumption == Default \in Content /\ NoCache \notin Content
ASSUME MutatorAssumption == /\ Mutator \subseteq [Content -> Content]
                            /\ Upgrade \in [Content -> Content]
ASSUME SettingAssumption == /\ InitVersion \subseteq Version
                            /\ Runtimes \subseteq BOOLEAN
                            /\ LockMayExpire \in BOOLEAN
ASSUME BoundAssumption   == /\ MaxOwnWrites \in Nat \ {0}
                            /\ MaxUpdates \in Nat /\ MaxOpens \in Nat
                            /\ MaxReadFailures \in Nat /\ MaxWriteFailures \in Nat

VARIABLES
  hasLock,    \* webLocks(): the runtime has navigator.locks
  stored,     \* what the storage area holds under the key
  channel,    \* channel[w]: messages from the browser to page w, in order
  holder,     \* the page holding the cross-window lock
  open,       \* the pages that exist
  cached,     \* cached[w]: the store's cache
  ownWrites,  \* ownWrites[w]: stamps of own writes storage may still report
  resync,     \* resync[w]: resyncAfterWrites
  chain,      \* chain[w]: update() calls on updateChain, the running one first
  pc,         \* pc[w]: where the running update of w waits
  seen,       \* observation: seen[w] is the stamp of the newest stored write
              \*   the cache of w accounts for
  writes,     \* stamps given out (writerId:writeSeq names a write uniquely)
  budget      \* what the bounds leave

browserVars == <<stored, channel>>
cacheVars   == <<cached, ownWrites, resync, seen>>
updateVars  == <<chain, pc>>
vars == <<hasLock, stored, channel, holder, open, cached, ownWrites, resync, chain, pc,
          seen, writes, budget>>

Nothing == [version |-> "none", content |-> Default, stamp |-> 0]
Stored  == [version : Version, content : Content, stamp : Nat]
Message == [kind : {"changed", "reply", "sync", "load", "update"}, ok : BOOLEAN, raw : Stored]
Budget  == [updates : 0..MaxUpdates, opens : 0..MaxOpens,
            reads : 0..MaxReadFailures, writes : 0..MaxWriteFailures]

(* The state a stored value holds: defaults when there is none or when a    *)
(* newer build wrote it, migrated when an older one did.                    *)
FromStored(raw) == CASE raw.version = "current" -> raw.content
                     [] raw.version = "older"   -> Upgrade[raw.content]
                     [] OTHER                   -> Default

(* Mutant: another page's state is adopted while an own write is landing.   *)
WriteInFlight_Ignored(w) == FALSE

(* save() calls whose write has not settled; update() is the only caller.   *)
WriteInFlight(w) == pc[w] \in {"writing", "written"}

(* Mutant: an update runs on the page's cache even under the lock.          *)
ReadCurrent_CacheFirst(w, msg) ==
  IF cached[w] # NoCache THEN cached[w] ELSE FromStored(msg.raw)

(* update() runs on what storage holds; on the cache when storage holds     *)
(* nothing or cannot be read.                                               *)
ReadCurrent(w, msg) ==
  IF msg.ok /\ msg.raw.version # "none" THEN FromStored(msg.raw)
  ELSE IF cached[w] # NoCache THEN cached[w] ELSE Default

(* What is kept of a list that may hold no more than n entries.             *)
Last(s, n) == SubSeq(s, IF Len(s) > n THEN Len(s) - n + 1 ELSE 1, Len(s))

-------------------------------------------------------------------------------
(* Requests to storage.  `ch` is the channel function after the message     *)
(* being handled has been taken off.                                        *)

Popped(w) == [channel EXCEPT ![w] = Tail(@)]

(* storage.get: the answer says what is stored now, however late it comes.  *)
Get(w, purpose, ch) ==
  /\ \/ /\ channel' = [ch EXCEPT ![w] = Append(@, [kind |-> purpose, ok |-> TRUE, raw |-> stored])]
        /\ UNCHANGED budget
     \/ /\ budget.reads > 0
        /\ budget' = [budget EXCEPT !.reads = @ - 1]
        /\ channel' = [ch EXCEPT ![w] = Append(@, [kind |-> purpose, ok |-> FALSE, raw |-> stored])]
  /\ UNCHANGED stored

(* storage.set: the write is announced to every page, to the writer before  *)
(* the reply that settles its promise.                                      *)
Signal(kind) == [kind |-> kind, ok |-> TRUE, raw |-> Nothing]

Announced(w, ch) ==
  [v \in Window |-> IF v \notin open THEN ch[v]
                    ELSE IF v = w THEN Append(Append(ch[v], Signal("changed")), Signal("reply"))
                    ELSE Append(ch[v], Signal("changed"))]

Set(w, next, ch) ==
  \/ /\ stored' = [version |-> "current", content |-> next, stamp |-> writes + 1]
     /\ channel' = Announced(w, ch)
     /\ seen' = [seen EXCEPT ![w] = writes + 1]
     /\ UNCHANGED budget
  \/ /\ budget.writes > 0
     /\ budget' = [budget EXCEPT !.writes = @ - 1]
     /\ channel' = [ch EXCEPT ![w] = Append(@, Signal("reply"))]
     /\ UNCHANGED <<stored, seen>>

(* save(): the cache takes the state before storage does. *)
Save(w, next, ch) ==
  /\ writes' = writes + 1
  /\ cached' = [cached EXCEPT ![w] = next]
  /\ ownWrites' = [ownWrites EXCEPT ![w] = Last(Append(@, writes + 1), MaxOwnWrites)]
  /\ pc' = [pc EXCEPT ![w] = "writing"]
  /\ Set(w, next, ch)

(* Mutants: closing any page, or none, frees the lock.                      *)
Unlocked_ByAnyone(w) == NoWindow
Unlocked_Never(w) == holder

Unlocked(w) == IF holder = w THEN NoWindow ELSE holder

Mutated(w, base) == Head(chain[w])[base]

Finish(w) == /\ pc' = [pc EXCEPT ![w] = "idle"]
             /\ chain' = [chain EXCEPT ![w] = Tail(@)]
             /\ holder' = Unlocked(w)

(* apply(): an update that changes nothing writes nothing.                  *)
Apply(w, base, ch) ==
  IF Mutated(w, base) # base
  THEN Save(w, Mutated(w, base), ch) /\ UNCHANGED <<chain, resync, holder>>
  ELSE /\ Finish(w)
       /\ channel' = ch
       /\ UNCHANGED <<stored, cacheVars, writes, budget>>

-------------------------------------------------------------------------------
(* What the screens ask of a store.                                         *)

(* update(mutator): queued behind the window's earlier updates. *)
Update(w, m) ==
  /\ w \in open
  /\ budget.updates > 0
  /\ budget' = [budget EXCEPT !.updates = @ - 1]
  /\ chain' = [chain EXCEPT ![w] = Append(@, m)]
  /\ UNCHANGED <<browserVars, holder, open, cacheVars, pc, writes>>

(* load() with nothing cached.  Bound: one read for load() at a time. *)
Load(w) ==
  /\ w \in open
  /\ cached[w] = NoCache
  /\ \A i \in DOMAIN channel[w] : channel[w][i].kind # "load"
  /\ Get(w, "load", channel)
  /\ UNCHANGED <<holder, open, cacheVars, updateVars, writes>>

-------------------------------------------------------------------------------
(* One update: lock, read, mutate and write, settle, unlock.                *)

(* The chain reaches the next call: it asks for the lock. *)
BeginLocked(w) ==
  /\ hasLock
  /\ pc[w] = "idle" /\ chain[w] # <<>>
  /\ pc' = [pc EXCEPT ![w] = "waiting"]
  /\ UNCHANGED <<browserVars, holder, open, cacheVars, chain, writes, budget>>

(* Without a lock it runs on load(): the cache, or a read if there is none. *)
BeginUnlocked(w) ==
  /\ ~hasLock
  /\ pc[w] = "idle" /\ chain[w] # <<>>
  /\ IF cached[w] # NoCache
     THEN Apply(w, cached[w], channel)
     ELSE /\ pc' = [pc EXCEPT ![w] = "reading"]
          /\ Get(w, "update", channel)
          /\ UNCHANGED <<holder, cacheVars, chain, writes>>
  /\ UNCHANGED open

StartReading(w) ==
  /\ pc' = [pc EXCEPT ![w] = "reading"]
  /\ Get(w, "update", channel)
  /\ UNCHANGED <<open, cacheVars, chain, writes>>

(* The browser grants the lock to any page that waits for it. *)
Grant(w) ==
  /\ pc[w] = "waiting" /\ holder = NoWindow
  /\ holder' = w
  /\ StartReading(w)

(* LOCK_WAIT_MS ran out while another page held the lock. *)
LockWaitExpires(w) ==
  /\ LockMayExpire
  /\ pc[w] = "waiting" /\ holder # NoWindow
  /\ UNCHANGED holder
  /\ StartReading(w)

(* Mutant: a foreign state seen under an own write is not read again.       *)
Settle_NoResync(w) ==
  /\ pc[w] = "written"
  /\ Finish(w)
  /\ resync' = [resync EXCEPT ![w] = FALSE]
  /\ UNCHANGED <<browserVars, budget, open, cached, ownWrites, seen, writes>>

(* The write's promise settles, for better or worse: the lock goes, and a   *)
(* foreign state seen meanwhile is read again.                              *)
Settle(w) ==
  /\ pc[w] = "written"
  /\ Finish(w)
  /\ resync' = [resync EXCEPT ![w] = FALSE]
  /\ IF resync[w] THEN Get(w, "sync", channel) ELSE UNCHANGED <<browserVars, budget>>
  /\ UNCHANGED <<open, cached, ownWrites, seen, writes>>

-------------------------------------------------------------------------------
(* Messages reaching a page.                                                *)

Arrives(w, kind) == channel[w] # <<>> /\ Head(channel[w]).kind = kind

(* A change was announced: read storage. *)
DeliverChanged(w) ==
  /\ Arrives(w, "changed")
  /\ Get(w, "sync", Popped(w))
  /\ UNCHANGED <<holder, open, cacheVars, updateVars, writes>>

(* isOwnWrite: one of this store's writes, or (version "none") not at all.  *)
OwnIndex(w, raw) == {i \in DOMAIN ownWrites[w] : raw.version # "none" /\ ownWrites[w][i] = raw.stamp}

(* The own writes a later read may still return, once a read returned s[i]. *)
Known(s, i) == SubSeq(s, i, Len(s))

(* The read an announcement caused answers: adopt another page's state,     *)
(* unless a write of this page is landing.                                  *)
DeliverSync(w) ==
  LET raw == Head(channel[w]).raw
      own == OwnIndex(w, raw)
  IN /\ Arrives(w, "sync")
     /\ channel' = Popped(w)
     /\ \/ /\ ~Head(channel[w]).ok
           /\ UNCHANGED cacheVars
        \/ /\ Head(channel[w]).ok
           /\ own # {}
           /\ \E i \in own : ownWrites' = [ownWrites EXCEPT ![w] = Known(@, i)]
           /\ UNCHANGED <<cached, resync, seen>>
        \/ /\ Head(channel[w]).ok
           /\ own = {} /\ WriteInFlight(w)
           /\ resync' = [resync EXCEPT ![w] = TRUE]
           /\ UNCHANGED <<cached, ownWrites, seen>>
        \/ /\ Head(channel[w]).ok
           /\ own = {} /\ ~WriteInFlight(w)
           /\ cached' = [cached EXCEPT ![w] = FromStored(raw)]
           /\ seen' = [seen EXCEPT ![w] = raw.stamp]
           /\ UNCHANGED <<ownWrites, resync>>
     /\ UNCHANGED <<stored, holder, open, updateVars, writes, budget>>

(* What load() does with its answer: anything cached meanwhile is newer.    *)
AfterLoad(w, raw) == IF cached[w] = NoCache THEN FromStored(raw) ELSE cached[w]
SeenAfterLoad(w, raw) == IF cached[w] = NoCache THEN raw.stamp ELSE seen[w]

DeliverLoad(w) ==
  LET msg == Head(channel[w])
  IN /\ Arrives(w, "load")
     /\ channel' = Popped(w)
     /\ IF msg.ok
        THEN /\ cached' = [cached EXCEPT ![w] = AfterLoad(w, msg.raw)]
             /\ seen' = [seen EXCEPT ![w] = SeenAfterLoad(w, msg.raw)]
        ELSE UNCHANGED <<cached, seen>>
     /\ UNCHANGED <<stored, ownWrites, resync, holder, open, updateVars, writes, budget>>

(* The read of an update under the lock answers. *)
DeliverUpdateLocked(w) ==
  /\ hasLock
  /\ Arrives(w, "update")
  /\ Apply(w, ReadCurrent(w, Head(channel[w])), Popped(w))
  /\ UNCHANGED open

(* Without the lock the answer goes to load() first; if the read failed the *)
(* update rejects.                                                          *)
DeliverUpdateUnlocked(w) ==
  LET msg  == Head(channel[w])
      base == AfterLoad(w, msg.raw)
  IN /\ ~hasLock
     /\ Arrives(w, "update")
     /\ IF msg.ok /\ Mutated(w, base) # base
        THEN Save(w, Mutated(w, base), Popped(w)) /\ UNCHANGED <<chain, holder>>
        ELSE /\ Finish(w)
             /\ channel' = Popped(w)
             /\ cached' = [cached EXCEPT ![w] = IF msg.ok THEN base ELSE @]
             /\ seen' = [seen EXCEPT ![w] = IF msg.ok THEN SeenAfterLoad(w, msg.raw) ELSE @]
             /\ UNCHANGED <<stored, ownWrites, writes, budget>>
     /\ UNCHANGED <<resync, open>>

DeliverReply(w) ==
  /\ Arrives(w, "reply")
  /\ channel' = Popped(w)
  /\ pc' = [pc EXCEPT ![w] = "written"]
  /\ UNCHANGED <<stored, holder, open, cacheVars, chain, writes, budget>>

-------------------------------------------------------------------------------
(* Pages come and go: a popup dies with every click outside it.             *)

Open(w) ==
  /\ w \notin open
  /\ budget.opens > 0
  /\ budget' = [budget EXCEPT !.opens = @ - 1]
  /\ open' = open \union {w}
  /\ UNCHANGED <<browserVars, holder, cacheVars, updateVars, writes>>

(* What the page had asked of storage has been asked; the rest dies with it, *)
(* and the browser frees its lock.                                          *)
Close(w) ==
  /\ w \in open
  /\ open' = open \ {w}
  /\ channel' = [channel EXCEPT ![w] = <<>>]
  /\ holder' = Unlocked(w)
  /\ cached' = [cached EXCEPT ![w] = NoCache]
  /\ ownWrites' = [ownWrites EXCEPT ![w] = <<>>]
  /\ resync' = [resync EXCEPT ![w] = FALSE]
  /\ seen' = [seen EXCEPT ![w] = 0]
  /\ chain' = [chain EXCEPT ![w] = <<>>]
  /\ pc' = [pc EXCEPT ![w] = "idle"]
  /\ UNCHANGED <<stored, writes, budget>>

-------------------------------------------------------------------------------
Init ==
  /\ hasLock \in Runtimes
  /\ stored \in [version : InitVersion, content : Content, stamp : {0}]
  /\ channel = [w \in Window |-> <<>>]
  /\ holder = NoWindow
  /\ open = Window
  /\ cached = [w \in Window |-> NoCache]
  /\ ownWrites = [w \in Window |-> <<>>]
  /\ resync = [w \in Window |-> FALSE]
  /\ chain = [w \in Window |-> <<>>]
  /\ pc = [w \in Window |-> "idle"]
  /\ seen = [w \in Window |-> 0]
  /\ writes = 0
  /\ budget = [updates |-> MaxUpdates, opens |-> MaxOpens,
               reads |-> MaxReadFailures, writes |-> MaxWriteFailures]

Deliver(w) == \/ DeliverChanged(w)
              \/ DeliverSync(w)
              \/ DeliverLoad(w)
              \/ DeliverUpdateLocked(w)
              \/ DeliverUpdateUnlocked(w)
              \/ DeliverReply(w)

Step == \E w \in Window :
          \/ \E m \in Mutator : Update(w, m)
          \/ Load(w)
          \/ BeginLocked(w)
          \/ BeginUnlocked(w)
          \/ Grant(w)
          \/ LockWaitExpires(w)
          \/ Settle(w)
          \/ Deliver(w)
          \/ Open(w)
          \/ Close(w)

Next == Step /\ UNCHANGED hasLock

(* The event loop runs every queued task, the browser grants a free lock.   *)
Task(A) == A /\ UNCHANGED hasLock

Fairness == \A w \in Window : /\ WF_vars(Task(BeginLocked(w) \/ BeginUnlocked(w)))
                              /\ WF_vars(Task(Grant(w)))
                              /\ WF_vars(Task(Settle(w)))
                              /\ WF_vars(Task(Deliver(w)))

Spec == Init /\ [][Next]_vars
FairSpec == Spec /\ Fairness

-------------------------------------------------------------------------------
(* Every variable keeps the shape the store gives it. *)
TypeOK ==
  /\ hasLock \in Runtimes
  /\ stored \in Stored
  /\ channel \in [Window -> Seq(Message)]
  /\ holder \in Window \union {NoWindow}
  /\ open \subseteq Window
  /\ cached \in [Window -> Content \union {NoCache}]
  /\ ownWrites \in [Window -> Seq(Nat)]
  /\ \A w \in Window : Len(ownWrites[w]) <= MaxOwnWrites
  /\ resync \in [Window -> BOOLEAN]
  /\ chain \in [Window -> Seq(Mutator)]
  /\ pc \in [Window -> {"idle", "waiting", "reading", "writing", "written"}]
  /\ seen \in [Window -> Nat]
  /\ writes \in Nat
  /\ budget \in Budget

(* What the code promises, with the lock: SharedState.  An update has       *)
(* happened once its write reached storage.                                 *)
Value == FromStored(stored)
Calls == [w \in Window |-> IF WriteInFlight(w) THEN Tail(chain[w]) ELSE chain[w]]

Promise == INSTANCE SharedState WITH value <- Value, calls <- Calls

(* An update never writes over a state it has not seen: each change of the  *)
(* stored state is one update, applied to exactly the state it replaces, in *)
(* its window's order (class comment of SessionStateStore, update()).       *)
KeepsPromise == Promise!Spec

(* A page's cache never goes back to a state older than one it already      *)
(* held: not through the echo of an own write, not through a late first     *)
(* read, not through another page's state read under an own write.          *)
CacheNeverGoesBack == [][\A w \in open \intersect open' : seen'[w] >= seen[w]]_vars

AtRest == \A w \in Window : channel[w] = <<>> /\ chain[w] = <<>>

(* No read and no write has been refused so far.                            *)
NothingRefused == budget.reads = MaxReadFailures /\ budget.writes = MaxWriteFailures

(* Once every update has settled and every message has arrived, every page  *)
(* that shows a state shows the stored one, whichever pages wrote.  (A page *)
(* whose read was refused waits for the next announcement, and a cache whose *)
(* write was refused for another page's write: the code promises no more.)  *)
ConvergedAtRest ==
  AtRest /\ NothingRefused => \A w \in open : cached[w] \in {NoCache, FromStored(stored)}

(* Every update() call settles, however the ones before it ended: no page's *)
(* queue stays filled.                                                      *)
UpdatesSettle == \A w \in Window : []<>(chain[w] = <<>>)

-------------------------------------------------------------------------------
(* Why the promise is kept: the parts of the inductive invariant.           *)

(* A page waits for exactly the answer its running update asked for.        *)
AnswersFit(s, step) ==
  /\ \A i \in 1..Len(s) : /\ s[i].kind = "update" => step = "reading"
                          /\ s[i].kind = "reply" => step = "writing"
  /\ \A i, j \in 1..Len(s) : {s[i].kind, s[j].kind} \subseteq {"update", "reply"} => i = j

WaitsForOwnAnswer == \A w \in Window : /\ pc[w] # "idle" => chain[w] # <<>>
                                      /\ AnswersFit(channel[w], pc[w])

(* Past the wait, an update holds the lock until its write has settled.     *)
LockHeld == \A w \in Window : pc[w] \in {"reading", "writing", "written"} => holder = w

(* The answer an update waits for still is what storage holds.              *)
ReadIsFresh == \A w \in Window : \A i \in 1..Len(channel[w]) :
                 /\ channel[w][i].ok
                 /\ channel[w][i].kind = "update" => channel[w][i].raw = stored

(* While nothing is stored, no page has anything but the defaults to write. *)
NothingMeansDefault ==
  stored.version = "none" =>
    /\ MaxWriteFailures = 0
    /\ \A w \in Window : /\ cached[w] \in {NoCache, Default}
                         /\ \A i \in 1..Len(channel[w]) : channel[w][i].raw.version = "none"

(* Where the promise is made: the runtime has the lock and no wait for it   *)
(* expires, storage can be read, and a refused write does not meet a        *)
(* storage area that has never been written (readCurrent would then take    *)
(* the unsaved cache for the state).                                        *)
UnderLock == /\ Runtimes = {TRUE} /\ ~LockMayExpire
             /\ MaxReadFailures = 0
             /\ MaxWriteFailures = 0 \/ "none" \notin InitVersion

(* The whole of it: under the lock, this is inductive.                      *)
PromiseInv == WaitsForOwnAnswer /\ LockHeld /\ ReadIsFresh /\ NothingMeansDefault
================================================================================
