------------------------------- MODULE GrinOverlay -------------------------------
(****************************************************************************)
(* The Grin pending overlay                                                 *)
(* (packages/core/src/payments/grin-pending-overlay.ts) and the flows that  *)
(* use it (packages/extension/src/popup/grin-flows.ts): one slot of         *)
(* chrome.storage.local that holds back the inputs of transactions the scan *)
(* cannot show yet, and the counter that numbers every output the wallet    *)
(* makes.  An operation loads the whole slot, changes it and saves it; the  *)
(* operations of one window run one at a time, windows know nothing of each *)
(* other.                                                                   *)
(*                                                                          *)
(* A step is one task of one window; a storage request takes effect when it *)
(* is issued.  An output stands for its child index, which its commitment   *)
(* is derived from.  The chain, its node and the other party are external.  *)
(****************************************************************************)
EXTENDS Naturals, Sequences

CONSTANTS
  Window,      \* windows and tabs of the wallet
  Flow,        \* asynchronous flows: sends, receives, balance polls, cancels
  None,        \* nothing loaded, no entry
  KindsOf,     \* what each flow may be: poll, send, receive, invoice, cancel
  Confirmed,   \* outputs 0 .. Confirmed - 1 are the wallet's and on the chain at first
  MaxWeeks,    \* bound: times GRIN_PENDING_TTL_SECS passes
  MaxFailures  \* bound: windows closed, storage requests rejected, node answers lost

Kind == {"poll", "send", "receive", "invoice", "cancel"}

ASSUME KindAssumption  == KindsOf \in [Flow -> SUBSET Kind]
ASSUME BoundAssumption == Confirmed \in Nat /\ MaxWeeks \in Nat /\ MaxFailures \in Nat
ASSUME NoneAssumption  == None \notin Flow \union Kind

VARIABLES
  slot,      \* what storage holds
  utxo,      \* the wallet's unspent outputs on the chain
  tx,        \* tx[f]: the transaction of f: none, sent (the node has it), mined
  queue,     \* queue[w]: flows whose operation waits for the overlay's chain in w
  held,      \* held[w]: what the running operation of w has loaded
  kind,      \* kind[f]: what f is
  home,      \* home[f]: the window it runs in
  pc,        \* pc[f]: where it stands; an operation's name: it is to run or waits
  scan,      \* scan[f]: the outputs its scan found
  picked,    \* picked[f]: the inputs it spends
  top,       \* top[f]: the counter its scan asks for
  minted,    \* minted[f]: the index reserved for it
  out,       \* out[f]: the output it makes
  target,    \* target[f]: the send that f cancels
  week,      \* the clock of the age-out
  failures,  \* what the bound leaves
  misread    \* observation: a read has failed

flowVars == <<kind, home, scan, picked, top, minted, out, target>>
vars == <<slot, utxo, tx, queue, held, pc, flowVars, week, failures, misread>>

Entry == [spent : SUBSET Nat, out : SUBSET Nat, broadcast : BOOLEAN, at : Nat]
Pending == [entries : [Flow -> Entry \union {None}], next : Nat]
Empty == [entries |-> [f \in Flow |-> None], next |-> 0]

ASSUME EntryAssumption == None \notin Entry

Operations == {"reconcile", "seed", "reserve", "book", "record", "remove"}
AtRest == {"absent", "out", "done", "failed"}

Working(w) == \E f \in Flow : home[f] = w /\ pc[f] \notin AtRest

-------------------------------------------------------------------------------
(* The slot and what the operations make of it.                             *)

PendingSpent(p) == UNION {p.entries[f].spent : f \in {g \in Flow : p.entries[g] # None}}

Settled(e, seen) == e.spent \intersect seen = {} /\ e.out \subseteq seen
Aged(e) == week > e.at

Reconciled(p, seen) ==
  [p EXCEPT !.entries = [f \in Flow |->
     IF p.entries[f] # None /\ (Settled(p.entries[f], seen) \/ Aged(p.entries[f]))
     THEN None ELSE p.entries[f]]]

(* Mutant: the counter is set to what the scan shows.                       *)
Seeded_Exactly(p, candidate) == [p EXCEPT !.next = candidate]

Seeded(p, candidate) == IF candidate <= p.next THEN p ELSE [p EXCEPT !.next = candidate]

Added(p, f) ==
  [p EXCEPT !.entries[f] = [spent |-> picked[f], out |-> out[f],
                            broadcast |-> pc[f] = "record", at |-> week]]

(* Mutants: remove() takes any entry, or the wrong ones.                    *)
Removed_Any(p, f) == [p EXCEPT !.entries[f] = None]

Removed_Swapped(p, f) ==
  IF p.entries[f] = None \/ ~p.entries[f].broadcast THEN p ELSE [p EXCEPT !.entries[f] = None]

(* Only an entry that was never broadcast is removed.                       *)
Removed(p, f) ==
  IF p.entries[f] = None \/ p.entries[f].broadcast THEN p ELSE [p EXCEPT !.entries[f] = None]

Saved(f, p) ==
  CASE pc[f] = "reconcile" -> Reconciled(p, scan[f])
    [] pc[f] = "seed"      -> Seeded(p, top[f])
    [] pc[f] = "reserve"   -> [p EXCEPT !.next = @ + 1]
    [] pc[f] = "remove"    -> Removed(p, target[f])
    [] OTHER               -> Added(p, f)            \* book, record

(* seedNextChildIndex and remove save nothing when they change nothing.     *)
Skips(f, p) == pc[f] \in {"seed", "remove"} /\ Saved(f, p) = p

(* Where a flow goes on when its operation is done.                         *)
After(f) ==
  CASE pc[f] = "reconcile" -> IF kind[f] = "poll" THEN "done" ELSE "selecting"
    [] pc[f] = "seed"      -> "reserve"
    [] pc[f] = "reserve"   -> IF kind[f] = "invoice" THEN "out" ELSE "book"
    [] pc[f] = "book"      -> "out"
    [] OTHER               -> "done"                 \* record, remove

-------------------------------------------------------------------------------
(* The operations: enqueue, load, save.                                     *)

(* Operations their flow enqueues in the task that leads to them; scans and *)
(* reads come before the other two.                                         *)
AtOnce == {"seed", "book", "record", "remove"}

Queued(q, f, next) == IF next \in AtOnce THEN [q EXCEPT ![home[f]] = Append(@, f)] ELSE q

(* The scan has answered, or the counter been read after the inputs.        *)
Enqueue(f) ==
  /\ pc[f] \in Operations \ AtOnce
  /\ \A i \in DOMAIN queue[home[f]] : queue[home[f]][i] # f
  /\ queue' = [queue EXCEPT ![home[f]] = Append(@, f)]
  /\ UNCHANGED <<slot, utxo, tx, held, pc, flowVars, week, failures, misread>>

(* A read: what storage holds; of a failed one the adapter makes an empty   *)
(* overlay.                                                                 *)
Read(p) ==
  \/ p = slot /\ UNCHANGED <<failures, misread>>
  \/ p = Empty /\ failures < MaxFailures /\ failures' = failures + 1 /\ misread' = TRUE

Load(w) ==
  /\ queue[w] # <<>> /\ held[w] = None
  /\ \E p \in {slot, Empty} : Read(p) /\ held' = [held EXCEPT ![w] = p]
  /\ UNCHANGED <<slot, utxo, tx, queue, pc, flowVars, week>>

Ends(w, next) ==
  /\ queue' = Queued([queue EXCEPT ![w] = Tail(@)], Head(queue[w]), next)
  /\ held' = [held EXCEPT ![w] = None]
  /\ pc' = [pc EXCEPT ![Head(queue[w])] = next]

(* With its index a flow builds its transaction; a send may need no change. *)
Builds(f, index) ==
  /\ minted' = [minted EXCEPT ![f] = {index}]
  /\ \E made \in {{index}, {}} :
       /\ made = {} => kind[f] = "send"
       /\ out' = [out EXCEPT ![f] = made]

Save(w) ==
  /\ held[w] # None
  /\ LET f == Head(queue[w]) IN
       /\ slot' = IF Skips(f, held[w]) THEN slot ELSE Saved(f, held[w])
       /\ Ends(w, After(f))
       /\ IF pc[f] = "reserve" THEN Builds(f, held[w].next) ELSE UNCHANGED <<minted, out>>
  /\ UNCHANGED <<utxo, tx, kind, home, scan, picked, top, target, week, failures, misread>>

(* A rejected write ends the flow; a send that was broadcast stays as it    *)
(* was, for the user to finalise again, and an invoice does without.        *)
SaveRejected(w) ==
  /\ held[w] # None
  /\ failures < MaxFailures /\ failures' = failures + 1
  /\ ~Skips(Head(queue[w]), held[w])
  /\ LET f == Head(queue[w]) IN
       Ends(w, IF pc[f] # "record" THEN "failed" ELSE IF kind[f] = "send" THEN "out" ELSE "done")
  /\ UNCHANGED <<slot, utxo, tx, flowVars, week, misread>>

-------------------------------------------------------------------------------
(* The flows.                                                               *)

(* A flow begins with a scan, which shows the chain as it is; when it has   *)
(* answered, reconcile is enqueued.                                         *)
Start(f, w) ==
  /\ pc[f] = "absent"
  /\ \E k \in KindsOf[f] \ {"cancel"} : kind' = [kind EXCEPT ![f] = k]
  /\ home' = [home EXCEPT ![f] = w]
  /\ scan' = [scan EXCEPT ![f] = utxo]
  /\ pc' = [pc EXCEPT ![f] = "reconcile"]
  /\ UNCHANGED <<slot, utxo, tx, queue, held, picked, top, minted, out, target,
                 week, failures, misread>>

(* Inputs are chosen among the scanned outputs no entry spends; those found *)
(* by the identify search, rather than by a key id, raise the counter.      *)
Chooses(f, spendable) ==
  \E identified \in {{}, spendable} :
    LET next == IF kind[f] = "send" /\ spendable = {} THEN "failed"
                ELSE IF identified = {} THEN "reserve" ELSE "seed" IN
    /\ IF next = "seed"
       THEN \E i \in identified : /\ \A j \in identified : j <= i
                                  /\ top' = [top EXCEPT ![f] = i + 1]
       ELSE UNCHANGED top
    /\ \E inputs \in SUBSET spendable :
         /\ inputs # {} <=> kind[f] = "send" /\ next # "failed"
         /\ picked' = [picked EXCEPT ![f] = inputs]
    /\ pc' = [pc EXCEPT ![f] = next]
    /\ queue' = Queued(queue, f, next)

Select(f) ==
  /\ pc[f] = "selecting"
  /\ scan' = [scan EXCEPT ![f] = {}]  \* not needed any more
  /\ \E p \in {slot, Empty} : Read(p) /\ Chooses(f, scan[f] \ PendingSpent(p))
  /\ UNCHANGED <<slot, utxo, tx, held, kind, home, minted, out, target, week>>

(* The node takes a transaction whose inputs are there and not claimed, and *)
(* whose output is not there yet.                                           *)
Valid(f) ==
  /\ picked[f] \subseteq utxo
  /\ out[f] \intersect utxo = {}
  /\ \A g \in Flow \ {f} : tx[g] = "sent" => /\ picked[f] \intersect picked[g] = {}
                                            /\ out[f] \intersect out[g] = {}

(* The other party answered; this wallet finalises, in any window, and      *)
(* broadcasts: the transaction reaches the node or it does not.             *)
Finalise(f, w) ==
  /\ pc[f] = "out" /\ kind[f] \in {"send", "invoice"}
  /\ ~\E g \in Flow : target[g] = f
  /\ home' = [home EXCEPT ![f] = w]
  /\ pc' = [pc EXCEPT ![f] = "broadcasting"]
  /\ \/ UNCHANGED tx
     \/ tx[f] = "none" /\ Valid(f) /\ tx' = [tx EXCEPT ![f] = "sent"]
  /\ UNCHANGED <<slot, utxo, queue, held, kind, scan, picked, top, minted, out, target,
                 week, failures, misread>>

(* The node's answer.  It can be lost.                                      *)
Broadcast(f) ==
  /\ pc[f] = "broadcasting"
  /\ \E heard \in BOOLEAN :
       /\ IF tx[f] # "none" /\ ~heard
          THEN failures < MaxFailures /\ failures' = failures + 1
          ELSE UNCHANGED failures
       /\ LET next == IF tx[f] # "none" /\ heard THEN "record" ELSE "out" IN
          /\ pc' = [pc EXCEPT ![f] = next]
          /\ queue' = Queued(queue, f, next)
  /\ UNCHANGED <<slot, utxo, tx, held, flowVars, week, misread>>

(* What this wallet signed as a receiver, the sender broadcasts.            *)
SenderBroadcasts(f) ==
  /\ pc[f] = "out" /\ kind[f] = "receive" /\ tx[f] = "none" /\ Valid(f)
  /\ tx' = [tx EXCEPT ![f] = "sent"]
  /\ UNCHANGED <<slot, utxo, queue, held, pc, flowVars, week, failures, misread>>

Mine(f) ==
  /\ tx[f] = "sent"
  /\ tx' = [tx EXCEPT ![f] = "mined"]
  /\ utxo' = (utxo \ picked[f]) \union out[f]
  /\ UNCHANGED <<slot, queue, held, pc, flowVars, week, failures, misread>>

(* A delivered send is cancelled: in the wizard, which looks first, or in   *)
(* the inbox.                                                               *)
Cancel(f, g, w) ==
  /\ "cancel" \in KindsOf[f]
  /\ pc[f] = "absent"
  /\ kind[g] = "send" /\ pc[g] \in {"out", "broadcasting", "record", "done"}
  /\ kind' = [kind EXCEPT ![f] = "cancel"]
  /\ home' = [home EXCEPT ![f] = w]
  /\ target' = [target EXCEPT ![f] = g]
  /\ \E first \in {"checking", "remove"} :
       /\ pc' = [pc EXCEPT ![f] = first]
       /\ queue' = IF first = "remove" THEN [queue EXCEPT ![w] = Append(@, f)] ELSE queue
  /\ UNCHANGED <<slot, utxo, tx, held, scan, picked, top, minted, out,
                 week, failures, misread>>

Check(f) ==
  /\ pc[f] = "checking"
  /\ \E p \in {slot, Empty} :
       /\ Read(p)
       /\ LET e == p.entries[target[f]]
              next == IF e # None /\ e.broadcast THEN "done" ELSE "remove" IN
          /\ pc' = [pc EXCEPT ![f] = next]
          /\ queue' = Queued(queue, f, next)
  /\ UNCHANGED <<slot, utxo, tx, held, flowVars, week>>

(* A window goes with all it was doing; the session keeps the wizard of a   *)
(* send that was delivered, to be finalised in the next window.             *)
Close(w) ==
  /\ failures < MaxFailures /\ failures' = failures + 1
  /\ Working(w)
  /\ pc' = [f \in Flow |-> IF home[f] # w \/ pc[f] \in AtRest THEN pc[f]
                           ELSE IF pc[f] \in {"broadcasting", "record"} THEN "out" ELSE "failed"]
  /\ queue' = [queue EXCEPT ![w] = <<>>]
  /\ held' = [held EXCEPT ![w] = None]
  /\ UNCHANGED <<slot, utxo, tx, flowVars, week, misread>>

(* No flow lasts as long as the age-out.                                    *)
WeekPasses ==
  /\ ~\E w \in Window : Working(w)
  /\ week < MaxWeeks /\ week' = week + 1
  /\ UNCHANGED <<slot, utxo, tx, queue, held, pc, flowVars, failures, misread>>

-------------------------------------------------------------------------------
(* A wallet that was used before, or one just restored, whose counter is at *)
(* its beginning.                                                           *)
Init ==
  /\ slot \in {[Empty EXCEPT !.next = n] : n \in {0, Confirmed}}
  /\ utxo = 0..Confirmed - 1
  /\ tx = [f \in Flow |-> "none"]
  /\ queue = [w \in Window |-> <<>>]
  /\ held = [w \in Window |-> None]
  /\ kind = [f \in Flow |-> None]
  /\ home = [f \in Flow |-> None]
  /\ pc = [f \in Flow |-> "absent"]
  /\ scan = [f \in Flow |-> {}]
  /\ picked = [f \in Flow |-> {}]
  /\ top = [f \in Flow |-> 0]
  /\ minted = [f \in Flow |-> {}]
  /\ out = [f \in Flow |-> {}]
  /\ target = [f \in Flow |-> None]
  /\ week = 0 /\ failures = 0 /\ misread = FALSE

Next ==
  \/ \E f \in Flow :
       \/ Enqueue(f) \/ Select(f) \/ Broadcast(f)
       \/ SenderBroadcasts(f) \/ Mine(f) \/ Check(f)
       \/ \E w \in Window : Start(f, w) \/ Finalise(f, w)
       \/ \E g \in Flow, w \in Window : Cancel(f, g, w)
  \/ \E w \in Window : Load(w) \/ Save(w) \/ SaveRejected(w) \/ Close(w)
  \/ WeekPasses

Spec == Init /\ [][Next]_vars

-------------------------------------------------------------------------------
(* The state has the shape the code gives it, and an operation that has     *)
(* loaded is the first of its window's queue.                               *)
TypeOK ==
  /\ slot \in Pending
  /\ utxo \subseteq Nat
  /\ tx \in [Flow -> {"none", "sent", "mined"}]
  /\ queue \in [Window -> Seq(Flow)]
  /\ held \in [Window -> Pending \union {None}]
  /\ kind \in [Flow -> Kind \union {None}]
  /\ home \in [Flow -> Window \union {None}]
  /\ pc \in [Flow -> Operations \union AtRest
                     \union {"selecting", "broadcasting", "checking"}]
  /\ scan \in [Flow -> SUBSET Nat]
  /\ picked \in [Flow -> SUBSET Nat]
  /\ top \in [Flow -> Nat]
  /\ minted \in [Flow -> SUBSET Nat]
  /\ out \in [Flow -> SUBSET Nat]
  /\ target \in [Flow -> Flow \union {None}]
  /\ week \in Nat /\ failures \in Nat /\ misread \in BOOLEAN
  /\ \A w \in Window : held[w] # None => queue[w] # <<>>

(* reserveNextChildIndex: no two flows are ever handed the same index, as   *)
(* long as no read failed.                                                  *)
IndexNeverReused ==
  ~misread => \A f, g \in Flow : f # g => minted[f] \intersect minted[g] = {}

(* A send with change that was broadcast and recorded stays in the overlay, *)
(* its inputs held back, until it is mined or its time is up: no cancel,    *)
(* scan or other flow takes it away.                                        *)
BroadcastHeld ==
  \A f \in Flow :
    ~misread /\ kind[f] = "send" /\ pc[f] = "done" /\ tx[f] = "sent" /\ out[f] # {} /\ week = 0
      => picked[f] \subseteq PendingSpent(slot)

(* What a finished cancel freed stays free: no later save of another flow   *)
(* brings the reservation back.                                             *)
CancelledIsFree ==
  \A f \in Flow :
    ~misread /\ kind[f] = "cancel" /\ pc[f] = "done" /\ pc[target[f]] = "out" /\ tx[target[f]] = "none"
      => slot.entries[target[f]] = None
===============================================================================
