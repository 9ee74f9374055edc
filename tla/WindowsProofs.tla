------------------------------ MODULE WindowsProofs ------------------------------
(****************************************************************************)
(* GrinOverlay: for any flows, outputs, closings and rejected writes, no    *)
(* two flows of one window get the same child index, until a read of the    *)
(* slot fails.  The invariant says why the chain of operations suffices:    *)
(* what an operation has loaded is still what storage holds, and every      *)
(* index handed out is below the counter.  Nor is a cancelled payment's     *)
(* input left reserved, or a broadcast one's let go before it is mined.     *)
(* WalletLock: what WalletLockProofs proves, of the windows as a whole.     *)
(****************************************************************************)
EXTENDS Windows, SequenceTheorems, TLAPS

LoadedIsStored == \A w \in Window : held[w] # None => held[w] = slot

HandedOutBelow == \A f \in Flow : \A i \in minted[f] : i < slot.next

CounterInv == ~misread => LoadedIsStored /\ HandedOutBelow /\ IndexNeverReused

-------------------------------------------------------------------------------
(* Whatever an operation makes of a slot is a slot, its counter no lower;   *)
(* a reservation moves it by one.                                           *)
LEMMA SavedType ==
  ASSUME TypeOK, NEW f \in Flow, NEW p \in Pending
  PROVE  /\ Saved(f, p) \in Pending
         /\ Saved(f, p).next >= p.next
         /\ pc[f] = "reserve" => Saved(f, p).next = p.next + 1
<1>1. p.next \in Nat /\ p.entries \in [Flow -> Entry \union {None}]
  BY DEF Pending
<1>2. p = [entries |-> p.entries, next |-> p.next]
  BY DEF Pending
<1>3. CASE pc[f] = "reconcile"
  BY <1>1, <1>3 DEF Saved, Reconciled, Pending
<1>4. CASE pc[f] = "seed"
  <2>1. top[f] \in Nat
    BY DEF TypeOK
  <2>2. QED
    BY <1>1, <1>4, <2>1 DEF Saved, Seeded, Pending
<1>5. CASE pc[f] = "reserve"
  BY <1>1, <1>5 DEF Saved, Pending
<1>6. CASE pc[f] = "remove"
  <2>1. Saved(f, p) = Removed(p, target[f])
    BY <1>6 DEF Saved
  <2>2. [p EXCEPT !.entries[target[f]] = None] \in Pending
    BY <1>1 DEF Pending
  <2>3. [p EXCEPT !.entries[target[f]] = None].next = p.next
    BY <1>1, <1>2
  <2>4. QED
    BY <1>1, <1>6, <2>1, <2>2, <2>3 DEF Removed
<1>7. CASE pc[f] \notin {"reconcile", "seed", "reserve", "remove"}
  <2> DEFINE e == [spent |-> picked[f], out |-> out[f],
                   broadcast |-> pc[f] = "record", at |-> week]
  <2>1. e \in Entry
    BY DEF TypeOK, Entry
  <2>2. Saved(f, p) = [p EXCEPT !.entries[f] = e]
    BY <1>7 DEF Saved, Added
  <2>3. [p EXCEPT !.entries[f] = e] \in Pending /\ [p EXCEPT !.entries[f] = e].next = p.next
    <3> HIDE DEF e
    <3>1. QED
      BY <1>1, <2>1 DEF Pending
  <2>4. QED
    BY <1>1, <1>7, <2>2, <2>3
<1>8. QED
  BY <1>3, <1>4, <1>5, <1>6, <1>7

(* Enqueueing leaves the queues sequences of flows.                         *)
LEMMA QueuedType ==
  ASSUME NEW q \in [Window -> Seq(Flow)], NEW f \in Flow, NEW next
  PROVE  Queued(q, f, next) \in [Window -> Seq(Flow)]
<1>1. \A w \in Window : Append(q[w], f) \in Seq(Flow)
  BY AppendProperties
<1>2. QED
  BY <1>1 DEF Queued

LEMMA AppendType ==
  ASSUME TypeOK, NEW f \in Flow, NEW w \in Window
  PROVE  Append(queue[w], f) \in Seq(Flow) /\ Append(queue[w], f) # <<>>
<1>1. queue[w] \in Seq(Flow)
  BY DEF TypeOK
<1>2. QED
  BY <1>1, AppendProperties

States == Operations \union AtRest \union {"selecting", "broadcasting", "checking"}

(* The end of an operation keeps queues, loaded slots and positions typed.  *)
LEMMA EndsType ==
  ASSUME TypeOK, NEW w \in Window, held[w] # None, NEW next \in States, Ends(w, next)
  PROVE  /\ Head(queue[w]) \in Flow
         /\ queue' \in [Window -> Seq(Flow)]
         /\ held' \in [Window -> Pending \union {None}]
         /\ pc' \in [Flow -> States]
         /\ held'[w] = None
         /\ \A v \in Window : v # w => /\ held'[v] = held[v]
                                       /\ queue[v] # <<>> => queue'[v] # <<>>
<1>1. queue[w] \in Seq(Flow) /\ queue[w] # <<>>
  BY DEF TypeOK
<1>2. Head(queue[w]) \in Flow /\ Tail(queue[w]) \in Seq(Flow)
  BY <1>1, HeadTailProperties
<1>3. [queue EXCEPT ![w] = Tail(@)] \in [Window -> Seq(Flow)]
  BY <1>2 DEF TypeOK
<1>4. queue' \in [Window -> Seq(Flow)]
  BY <1>2, <1>3, QueuedType DEF Ends
<1>5. ASSUME NEW v \in Window, v # w, queue[v] # <<>>
      PROVE  queue'[v] # <<>>
  <2>2. Append(queue[v], Head(queue[w])) # <<>>
    BY <1>2, AppendType
  <2>3. queue'[v] \in {queue[v], Append(queue[v], Head(queue[w]))}
    <3>1. queue' = Queued([queue EXCEPT ![w] = Tail(@)], Head(queue[w]), next)
      BY DEF Ends
    <3>2. [queue EXCEPT ![w] = Tail(@)][v] = queue[v]
      BY <1>5 DEF TypeOK
    <3>3. QED
      BY <1>3, <3>1, <3>2 DEF Queued
  <2>4. QED
    BY <1>5, <2>2, <2>3
<1>6. QED
  BY <1>2, <1>4, <1>5 DEF Ends, TypeOK, States

-------------------------------------------------------------------------------
(* A slot once loaded, saved or read is a slot.                             *)
LEMMA EmptyType ==
  /\ Empty \in Pending
  /\ \A n \in Nat : [Empty EXCEPT !.next = n] \in Pending
BY DEF Empty, Pending

LEMMA SaveType ==
  ASSUME TypeOK, NEW w \in Window, Save(w)
  PROVE  TypeOK'
<1> DEFINE f == Head(queue[w])
<1>1. held[w] \in Pending /\ held[w] # None
  BY DEF Save, TypeOK
<1>2. After(f) \in States
  BY DEF After, States, Operations, AtRest
<1>3. Ends(w, After(f))
  BY DEF Save
<1>4. /\ f \in Flow
      /\ queue' \in [Window -> Seq(Flow)]
      /\ held' \in [Window -> Pending \union {None}]
      /\ pc' \in [Flow -> States]
      /\ \A v \in Window : held'[v] # None => queue'[v] # <<>>
  <2> HIDE DEF f
  <2>1. Head(queue[w]) = f
    BY DEF f
  <2>2. QED
    BY <1>1, <1>2, <1>3, <2>1, EndsType DEF TypeOK
<1>5. slot' \in Pending
  <2>1. Saved(f, held[w]) \in Pending
    BY <1>1, <1>4, SavedType
  <2>2. QED
    BY <2>1 DEF Save, TypeOK
<1>6. minted' \in [Flow -> SUBSET Nat] /\ out' \in [Flow -> SUBSET Nat]
  <2>1. held[w].next \in Nat
    BY <1>1 DEF Pending
  <2>2. CASE pc[f] = "reserve"
    <3>1. Builds(f, held[w].next)
      BY <2>2 DEF Save
    <3>2. QED
      BY <1>4, <2>1, <3>1 DEF Builds, TypeOK
  <2>3. CASE pc[f] # "reserve"
    BY <2>3 DEF Save, TypeOK
  <2>4. QED
    BY <2>2, <2>3
<1>7. QED
  BY <1>4, <1>5, <1>6 DEF Save, TypeOK, States

LEMMA SaveRejectedType ==
  ASSUME TypeOK, NEW w \in Window, SaveRejected(w)
  PROVE  TypeOK'
<1> DEFINE f == Head(queue[w])
           next == IF pc[f] # "record" THEN "failed" ELSE IF kind[f] = "send" THEN "out" ELSE "done"
<1>1. held[w] # None /\ next \in States /\ Ends(w, next)
  BY DEF SaveRejected, States, AtRest
<1>2. /\ queue' \in [Window -> Seq(Flow)]
      /\ held' \in [Window -> Pending \union {None}]
      /\ pc' \in [Flow -> States]
      /\ \A v \in Window : held'[v] # None => queue'[v] # <<>>
  <2> HIDE DEF next
  <2>1. QED
    BY <1>1, EndsType DEF TypeOK
<1>3. failures' \in Nat
  BY DEF SaveRejected, TypeOK
<1>4. QED
  BY <1>2, <1>3 DEF SaveRejected, flowVars, TypeOK, States

(* A read yields a slot.                                                    *)
LEMMA ReadType ==
  ASSUME TypeOK, NEW p \in {slot, Empty}, Read(p)
  PROVE  p \in Pending /\ failures' \in Nat /\ misread' \in BOOLEAN
<1>1. p \in Pending
  BY EmptyType DEF TypeOK
<1>2. failures' \in Nat
  BY DEF Read, TypeOK
<1>3. misread' = misread \/ misread' = TRUE
  BY Zenon DEF Read
<1>4. misread' \in BOOLEAN
  BY <1>3, Zenon DEF TypeOK
<1>5. QED
  BY <1>1, <1>2, <1>4

LEMMA LoadType ==
  ASSUME TypeOK, NEW w \in Window, Load(w)
  PROVE  TypeOK'
<1>1. PICK p \in {slot, Empty} : Read(p) /\ held' = [held EXCEPT ![w] = p]
  BY DEF Load
<1>2. p \in Pending /\ failures' \in Nat /\ misread' \in BOOLEAN
  BY <1>1, ReadType
<1>4. held' \in [Window -> Pending \union {None}]
  BY <1>1, <1>2 DEF TypeOK
<1>5. \A v \in Window : held'[v] # None => queue[v] # <<>>
  BY <1>1 DEF Load, TypeOK
<1>6. QED
  BY <1>2, <1>4, <1>5 DEF Load, flowVars, TypeOK

(* Enqueueing at a task's end adds to a queue and empties none.             *)
LEMMA StillQueued ==
  ASSUME TypeOK, NEW f \in Flow, NEW next, queue' = Queued(queue, f, next)
  PROVE  /\ queue' \in [Window -> Seq(Flow)]
         /\ \A w \in Window : queue[w] # <<>> => queue'[w] # <<>>
<1>2. \A w \in Window : Append(queue[w], f) # <<>>
  BY AppendType
<1>3. queue' \in [Window -> Seq(Flow)]
  BY QueuedType DEF TypeOK
<1>4. QED
  BY <1>2, <1>3 DEF Queued, TypeOK

LEMMA SelectType ==
  ASSUME TypeOK, NEW f \in Flow, Select(f)
  PROVE  TypeOK'
<1>1. PICK p \in {slot, Empty} : Read(p) /\ Chooses(f, scan[f] \ PendingSpent(p))
  BY DEF Select
<1> DEFINE spendable == scan[f] \ PendingSpent(p)
<1>2. spendable \subseteq Nat
  BY DEF TypeOK
<1> HIDE DEF spendable
<1>3. PICK identified \in {{}, spendable} :
        \E next \in {"failed", "reserve", "seed"} :
          /\ top' = top \/ \E i \in identified : top' = [top EXCEPT ![f] = i + 1]
          /\ \E inputs \in SUBSET spendable : picked' = [picked EXCEPT ![f] = inputs]
          /\ pc' = [pc EXCEPT ![f] = next]
          /\ queue' = Queued(queue, f, next)
  <2>1. Chooses(f, spendable)
    BY <1>1 DEF spendable
  <2>2. QED
    BY <2>1 DEF Chooses
<1>4. PICK next \in {"failed", "reserve", "seed"} :
          /\ pc' = [pc EXCEPT ![f] = next]
          /\ queue' = Queued(queue, f, next)
  BY <1>3
<1>5. top' \in [Flow -> Nat] /\ picked' \in [Flow -> SUBSET Nat]
  <2>1. \A i \in identified : [top EXCEPT ![f] = i + 1] \in [Flow -> Nat]
    <3>1. \A i \in identified : i + 1 \in Nat
      <4>1. identified \subseteq Nat
        BY <1>2
      <4>2. QED
        BY <4>1
    <3>2. top \in [Flow -> Nat]
      BY DEF TypeOK
    <3>3. QED
      BY <3>1, <3>2
  <2>2. \A inputs \in SUBSET spendable : [picked EXCEPT ![f] = inputs] \in [Flow -> SUBSET Nat]
    BY <1>2 DEF TypeOK
  <2>3. top' \in [Flow -> Nat]
    BY <1>3, <2>1 DEF TypeOK
  <2>4. picked' \in [Flow -> SUBSET Nat]
    BY <1>3, <2>2
  <2>5. QED
    BY <2>3, <2>4
<1>6. pc' \in [Flow -> States]
  BY <1>4 DEF TypeOK, States, Operations, AtRest
<1>7. /\ queue' \in [Window -> Seq(Flow)]
      /\ \A w \in Window : queue[w] # <<>> => queue'[w] # <<>>
  BY <1>4, StillQueued
<1>8. failures' \in Nat /\ misread' \in BOOLEAN
  BY <1>1, ReadType
<1>9. scan' \in [Flow -> SUBSET Nat]
  BY DEF Select, TypeOK
<1>10. QED
  BY <1>5, <1>6, <1>7, <1>8, <1>9 DEF Select, TypeOK, States

(* The other steps of the flows.                                            *)
LEMMA FlowType ==
  ASSUME TypeOK, NEW f \in Flow,
         Enqueue(f) \/ Broadcast(f) \/ SenderBroadcasts(f) \/ Mine(f) \/ Check(f)
  PROVE  TypeOK'
<1>1. CASE Enqueue(f)
  <2>1. PICK w : w = home[f]
    OBVIOUS
  <2>2. \A v \in Window : Append(queue[v], f) \in Seq(Flow) /\ Append(queue[v], f) # <<>>
    BY AppendType
  <2>3. queue' = [queue EXCEPT ![w] = Append(@, f)]
    BY <1>1, <2>1 DEF Enqueue
  <2>4. /\ queue' \in [Window -> Seq(Flow)]
        /\ \A v \in Window : queue[v] # <<>> => queue'[v] # <<>>
    BY <2>2, <2>3 DEF TypeOK
  <2>5. QED
    BY <1>1, <2>4 DEF Enqueue, flowVars, TypeOK
<1>2. CASE Broadcast(f)
  <2>1. PICK next \in {"record", "out"} :
          pc' = [pc EXCEPT ![f] = next] /\ queue' = Queued(queue, f, next)
    BY <1>2 DEF Broadcast
  <2>2. pc' \in [Flow -> States]
    BY <2>1 DEF TypeOK, States, Operations, AtRest
  <2>3. /\ queue' \in [Window -> Seq(Flow)]
        /\ \A w \in Window : queue[w] # <<>> => queue'[w] # <<>>
    BY <2>1, StillQueued
  <2>4. failures' \in Nat
    BY <1>2 DEF Broadcast, TypeOK
  <2>5. QED
    BY <1>2, <2>2, <2>3, <2>4 DEF Broadcast, flowVars, TypeOK, States
<1>3. CASE SenderBroadcasts(f)
  BY <1>3 DEF SenderBroadcasts, flowVars, TypeOK
<1>4. CASE Mine(f)
  <2>1. utxo' \subseteq Nat
    BY <1>4 DEF Mine, TypeOK
  <2>2. QED
    BY <1>4, <2>1 DEF Mine, flowVars, TypeOK
<1>5. CASE Check(f)
  <2>1. PICK p \in {slot, Empty} :
          /\ Read(p)
          /\ \E next \in {"done", "remove"} :
               pc' = [pc EXCEPT ![f] = next] /\ queue' = Queued(queue, f, next)
    BY <1>5 DEF Check
  <2>2. PICK next \in {"done", "remove"} :
          pc' = [pc EXCEPT ![f] = next] /\ queue' = Queued(queue, f, next)
    BY <2>1
  <2>3. pc' \in [Flow -> States]
    BY <2>2 DEF TypeOK, States, Operations, AtRest
  <2>4. /\ queue' \in [Window -> Seq(Flow)]
        /\ \A w \in Window : queue[w] # <<>> => queue'[w] # <<>>
    BY <2>2, StillQueued
  <2>5. failures' \in Nat /\ misread' \in BOOLEAN
    BY <2>1, ReadType
  <2>6. QED
    BY <1>5, <2>3, <2>4, <2>5 DEF Check, flowVars, TypeOK, States
<1>6. QED
  BY <1>1, <1>2, <1>3, <1>4, <1>5

LEMMA WindowFlowType ==
  ASSUME TypeOK, NEW f \in Flow, NEW w \in Window, Start(f, w) \/ Finalise(f, w)
  PROVE  TypeOK'
<1>1. CASE Start(f, w)
  <2>1. PICK k \in KindsOf[f] : kind' = [kind EXCEPT ![f] = k]
    BY <1>1 DEF Start
  <2>2. k \in Kind
    BY KindAssumption
  <2>3. QED
    BY <1>1, <2>1, <2>2 DEF Start, TypeOK, Operations
<1>2. CASE Finalise(f, w)
  BY <1>2 DEF Finalise, TypeOK
<1>3. QED
  BY <1>1, <1>2

LEMMA CancelType ==
  ASSUME TypeOK, NEW f \in Flow, NEW g \in Flow, NEW w \in Window, Cancel(f, g, w)
  PROVE  TypeOK'
<1>1. kind' \in [Flow -> Kind \union {None}]
  BY DEF Cancel, TypeOK, Kind
<1>2. PICK first \in {"checking", "remove"} :
        /\ pc' = [pc EXCEPT ![f] = first]
        /\ queue' = IF first = "remove" THEN [queue EXCEPT ![w] = Append(@, f)] ELSE queue
  BY DEF Cancel
<1>3. pc' \in [Flow -> States]
  BY <1>2 DEF TypeOK, States, Operations
<1>4. Append(queue[w], f) \in Seq(Flow) /\ Append(queue[w], f) # <<>>
  BY AppendType
<1>5. /\ queue' \in [Window -> Seq(Flow)]
      /\ \A v \in Window : queue[v] # <<>> => queue'[v] # <<>>
  BY <1>2, <1>4 DEF TypeOK
<1>6. QED
  BY <1>1, <1>3, <1>5 DEF Cancel, TypeOK, States

LEMMA CloseType ==
  ASSUME TypeOK, NEW w \in Window, Close(w)
  PROVE  TypeOK'
<1>1. pc' \in [Flow -> States]
  BY DEF Close, TypeOK, States, AtRest
<1>2. queue' \in [Window -> Seq(Flow)] /\ held' \in [Window -> Pending \union {None}]
  BY DEF Close, TypeOK
<1>3. failures' \in Nat
  BY DEF Close, TypeOK
<1>4. \A v \in Window : held'[v] # None => queue'[v] # <<>>
  BY DEF Close, TypeOK
<1>5. QED
  BY <1>1, <1>2, <1>3, <1>4 DEF Close, flowVars, TypeOK, States

LEMMA InitType == Init => TypeOK
<1> SUFFICES ASSUME Init
             PROVE  TypeOK
  OBVIOUS
<1>1. slot \in Pending
  BY EmptyType, BoundAssumption DEF Init
<1>2. utxo \subseteq Nat
  BY BoundAssumption DEF Init
<1>3. queue \in [Window -> Seq(Flow)]
  BY DEF Init
<1>4. tx \in [Flow -> {"none", "sent", "mined"}] /\ pc \in [Flow -> States]
  BY DEF Init, States, AtRest
<1>5. /\ held \in [Window -> Pending \union {None}]
      /\ kind \in [Flow -> Kind \union {None}]
      /\ home \in [Flow -> Window \union {None}]
      /\ target \in [Flow -> Flow \union {None}]
  BY DEF Init
<1>6. /\ scan \in [Flow -> SUBSET Nat] /\ picked \in [Flow -> SUBSET Nat]
      /\ minted \in [Flow -> SUBSET Nat] /\ out \in [Flow -> SUBSET Nat]
      /\ top \in [Flow -> Nat]
  BY DEF Init
<1>7. /\ week \in Nat /\ failures \in Nat /\ misread \in BOOLEAN
      /\ \A w \in Window : held[w] # None => queue[w] # <<>>
  BY DEF Init
<1>8. QED
  BY <1>1, <1>2, <1>3, <1>4, <1>5, <1>6, <1>7 DEF TypeOK, States

(* Every step keeps the types.                                              *)
LEMMA StepType == TypeOK /\ [Next]_vars => TypeOK'
<1> SUFFICES ASSUME TypeOK, [Next]_vars
             PROVE  TypeOK'
  OBVIOUS
<1>1. CASE WeekPasses
  BY <1>1 DEF WeekPasses, flowVars, TypeOK
<1>2. CASE UNCHANGED vars
  BY <1>2 DEF vars, flowVars, TypeOK
<1>3. QED
  BY <1>1, <1>2, FlowType, WindowFlowType, CancelType, CloseType,
     SelectType, LoadType, SaveType, SaveRejectedType DEF Next

(* The state always has the shape TypeOK gives it.                          *)
THEOREM TypeCorrect == Spec => []TypeOK
BY InitType, StepType, PTL DEF Spec

-------------------------------------------------------------------------------
(* The counter.                                                             *)

(* With one window, what is loaded stays what is stored.                    *)
LEMMA LoadedStep ==
  ASSUME \A v, w \in Window : v = w,
         TypeOK, LoadedIsStored, [Next]_vars, ~misread'
  PROVE  LoadedIsStored'
<1>1. CASE \E w \in Window : Load(w)
  <2>1. PICK w \in Window : Load(w)
    BY <1>1
  <2>2. PICK p \in {slot, Empty} : Read(p) /\ held' = [held EXCEPT ![w] = p]
    BY <2>1 DEF Load
  <2>3. p = slot
    BY <2>2, Zenon DEF Read
  <2>4. QED
    BY <2>1, <2>2, <2>3 DEF Load, LoadedIsStored, TypeOK
<1>2. CASE \E w \in Window : Save(w) \/ SaveRejected(w)
  <2>1. PICK w \in Window : held'[w] = None
    BY <1>2 DEF Save, SaveRejected, Ends, TypeOK
  <2>2. QED
    BY <2>1 DEF LoadedIsStored
<1>3. CASE \E w \in Window : Close(w)
  BY <1>3 DEF Close, LoadedIsStored, TypeOK
<1>4. CASE UNCHANGED <<slot, held>>
  BY <1>4 DEF LoadedIsStored
<1>5. QED
  BY <1>1, <1>2, <1>3, <1>4 DEF Next, vars, Enqueue, Select, Broadcast, SenderBroadcasts,
     Mine, Check, Start, Finalise, Cancel, WeekPasses

(* What a save does to the counter and to what was handed out: a flow whose *)
(* reservation it is gets the counter's value, and the counter moves on.    *)
LEMMA SaveCounts ==
  ASSUME TypeOK, LoadedIsStored, NEW w \in Window, Save(w)
  PROVE  /\ slot.next \in Nat /\ slot'.next >= slot.next
         /\ \/ minted' = minted
            \/ /\ slot'.next = slot.next + 1
               /\ \E f \in Flow : minted' = [minted EXCEPT ![f] = {slot.next}]
<1> DEFINE f == Head(queue[w])
<1>1. held[w] # None /\ held[w] = slot /\ slot \in Pending
  BY DEF Save, LoadedIsStored, TypeOK
<1>2. f \in Flow
  <2>1. queue[w] \in Seq(Flow) /\ queue[w] # <<>>
    BY <1>1 DEF TypeOK
  <2>2. QED
    BY <2>1, HeadTailProperties
<1>3. /\ slot' = IF Skips(f, held[w]) THEN slot ELSE Saved(f, held[w])
      /\ IF pc[f] = "reserve" THEN Builds(f, held[w].next) ELSE UNCHANGED <<minted, out>>
  BY DEF Save
<1> HIDE DEF f
<1>4. slot.next \in Nat
  BY <1>1 DEF Pending
<1>5. Saved(f, slot).next >= slot.next
  BY <1>1, <1>2, SavedType
<1>6. CASE pc[f] = "reserve"
  <2>1. slot' = Saved(f, slot) /\ Builds(f, slot.next)
    BY <1>1, <1>3, <1>6 DEF Skips
  <2>2. Saved(f, slot).next = slot.next + 1
    BY <1>1, <1>2, <1>6, SavedType
  <2>3. QED
    BY <1>2, <1>4, <1>5, <2>1, <2>2 DEF Builds
<1>7. CASE pc[f] # "reserve"
  BY <1>1, <1>3, <1>4, <1>5, <1>7
<1>8. QED
  BY <1>6, <1>7

(* Only a save touches the counter and what was handed out.                 *)
LEMMA OnlySavesCount ==
  ASSUME [Next]_vars, \A w \in Window : ~Save(w)
  PROVE  slot' = slot /\ minted' = minted
BY DEF Next, vars, flowVars, Enqueue, Select, Broadcast, SenderBroadcasts, Mine, Check,
   Start, Finalise, Cancel, Load, SaveRejected, Close, WeekPasses

(* A failed read is never forgotten.                                        *)
LEMMA MisreadStays ==
  ASSUME TypeOK, [Next]_vars, misread
  PROVE  misread'
BY Zenon DEF Next, vars, flowVars, Read, Enqueue, Select, Broadcast, SenderBroadcasts, Mine,
   Check, Start, Finalise, Cancel, Load, Save, SaveRejected, Close, WeekPasses

(* One window at a time: as long as no read has failed, no two flows are    *)
(* handed the same child index, whatever the windows closed, the writes     *)
(* rejected and the answers lost.                                           *)
THEOREM NeverReused ==
  ASSUME \A v, w \in Window : v = w
  PROVE  Spec => []IndexNeverReused
<1>1. Init => CounterInv
  BY DEF Init, CounterInv, LoadedIsStored, HandedOutBelow, IndexNeverReused
<1>2. TypeOK /\ CounterInv /\ [Next]_vars => CounterInv'
  <2> SUFFICES ASSUME TypeOK, CounterInv, [Next]_vars, ~misread'
               PROVE  (LoadedIsStored /\ HandedOutBelow /\ IndexNeverReused)'
    BY DEF CounterInv
  <2>1. LoadedIsStored /\ HandedOutBelow /\ IndexNeverReused /\ ~misread
    BY MisreadStays DEF CounterInv
  <2>2. LoadedIsStored'
    BY <2>1, LoadedStep
  <2>3. CASE slot' = slot /\ minted' = minted
    BY <2>1, <2>2, <2>3 DEF HandedOutBelow, IndexNeverReused
  <2>4. CASE \E w \in Window : Save(w)
    <3>1. /\ slot.next \in Nat /\ slot'.next >= slot.next
          /\ \/ minted' = minted
             \/ /\ slot'.next = slot.next + 1
                /\ \E f \in Flow : minted' = [minted EXCEPT ![f] = {slot.next}]
      BY <2>1, <2>4, SaveCounts
    <3>2. slot'.next \in Nat
      BY <2>4, StepType DEF TypeOK, Pending
    <3>3. minted \in [Flow -> SUBSET Nat]
      BY DEF TypeOK
    <3>4. CASE minted' = minted
      BY <2>1, <2>2, <3>1, <3>2, <3>3, <3>4 DEF HandedOutBelow, IndexNeverReused
    <3>5. CASE minted' # minted
      <4>1. PICK f \in Flow : minted' = [minted EXCEPT ![f] = {slot.next}]
        BY <3>1, <3>5
      <4>2. slot'.next = slot.next + 1
        BY <3>1, <3>5
      <4>3. HandedOutBelow'
        BY <2>1, <3>1, <3>3, <4>1, <4>2 DEF HandedOutBelow
      <4>4. IndexNeverReused'
        BY <2>1, <3>1, <3>3, <4>1 DEF HandedOutBelow, IndexNeverReused
      <4>5. QED
        BY <2>2, <4>3, <4>4
    <3>6. QED
      BY <3>4, <3>5
  <2>5. QED
    BY <2>3, <2>4, OnlySavesCount
<1>3. CounterInv => IndexNeverReused
  BY DEF CounterInv, IndexNeverReused
<1>4. QED
  BY <1>1, <1>2, <1>3, TypeCorrect, PTL DEF Spec

-------------------------------------------------------------------------------
(* What a cancel freed.                                                     *)

(* What waits for the chain of a window is at an operation, and waits once. *)
Waiting(w) ==
  \A i \in 1..Len(queue[w]) :
    /\ pc[queue[w][i]] \in Operations
    /\ \A j \in 1..Len(queue[w]) : queue[w][i] = queue[w][j] => i = j

QueuesHold == \A w \in Window : Waiting(w)

(* A flow that is in no queue may move, and be added to one.                *)
LEMMA MovesFreely ==
  ASSUME TypeOK, QueuesHold, NEW f \in Flow, pc[f] \notin Operations,
         NEW next \in States, pc' = [pc EXCEPT ![f] = next],
         NEW w \in Window, queue' = queue \/ (queue' = [queue EXCEPT ![w] = Append(@, f)] /\ next \in Operations)
  PROVE  QueuesHold'
<1> SUFFICES ASSUME NEW v \in Window
             PROVE  Waiting(v)'
  BY DEF QueuesHold
<1>1. queue[v] \in Seq(Flow) /\ Waiting(v)
  BY DEF TypeOK, QueuesHold
<1>2. \A i \in 1..Len(queue[v]) : /\ queue[v][i] \in Flow /\ queue[v][i] # f
                                  /\ pc'[queue[v][i]] = pc[queue[v][i]]
  BY <1>1 DEF Waiting, TypeOK
<1>3. CASE queue'[v] = queue[v]
  BY <1>1, <1>2, <1>3 DEF Waiting
<1>4. CASE queue'[v] = Append(queue[v], f) /\ next \in Operations
  <2>1. Len(queue'[v]) = Len(queue[v]) + 1 /\ queue'[v][Len(queue[v]) + 1] = f
        /\ \A i \in 1..Len(queue[v]) : queue'[v][i] = queue[v][i]
    BY <1>1, <1>4, AppendProperties
  <2>2. pc'[f] = next
    BY DEF TypeOK
  <2>3. Len(queue[v]) \in Nat
    BY <1>1
  <2>4. \A i \in 1..Len(queue'[v]) : i \in 1..Len(queue[v]) \/ i = Len(queue[v]) + 1
    BY <2>1, <2>3
  <2>5. QED
    BY <1>1, <1>2, <1>4, <2>1, <2>2, <2>3, <2>4 DEF Waiting
<1>5. QED
  BY <1>3, <1>4 DEF TypeOK

(* A flow whose operation ends leaves the queue, and may be added again.    *)
LEMMA EndsWaiting ==
  ASSUME \A v, w \in Window : v = w,
         TypeOK, QueuesHold, NEW w \in Window, held[w] # None, NEW next \in States, Ends(w, next)
  PROVE  QueuesHold'
<1> DEFINE f == Head(queue[w])
           rest == Tail(queue[w])
<1>1. queue[w] \in Seq(Flow) /\ queue[w] # <<>> /\ Waiting(w)
  BY DEF TypeOK, QueuesHold
<1>2. /\ f \in Flow /\ rest \in Seq(Flow) /\ f = queue[w][1]
      /\ Len(rest) = Len(queue[w]) - 1 /\ Len(queue[w]) \in Nat \ {0}
      /\ \A i \in 1..Len(rest) : rest[i] = queue[w][i + 1]
  BY <1>1, HeadTailProperties
<1>3. pc' = [pc EXCEPT ![f] = next]
  BY DEF Ends
<1>4. queue'[w] = rest \/ (queue'[w] = Append(rest, f) /\ next \in Operations)
  <2>1. queue' = Queued([queue EXCEPT ![w] = rest], f, next)
    BY DEF Ends
  <2>2. home[f] \in Window => home[f] = w
    OBVIOUS
  <2> HIDE DEF f, rest
  <2>3. QED
    BY <2>1, <2>2 DEF Queued, TypeOK, AtOnce, Operations
<1> HIDE DEF f, rest
<1>5. \A i \in 1..Len(rest) : /\ rest[i] \in Flow /\ rest[i] # f
                              /\ pc[rest[i]] \in Operations
                              /\ \A j \in 1..Len(rest) : rest[i] = rest[j] => i = j
  <2> SUFFICES ASSUME NEW i \in 1..Len(rest)
               PROVE  /\ rest[i] \in Flow /\ rest[i] # f /\ pc[rest[i]] \in Operations
                      /\ \A j \in 1..Len(rest) : rest[i] = rest[j] => i = j
    OBVIOUS
  <2>1. i + 1 \in 1..Len(queue[w]) /\ 1 \in 1..Len(queue[w]) /\ i + 1 # 1
    BY <1>2
  <2>2. \A j \in 1..Len(rest) : j + 1 \in 1..Len(queue[w]) /\ (i + 1 = j + 1 => i = j)
    BY <1>2
  <2>3. QED
    BY <1>1, <1>2, <2>1, <2>2 DEF Waiting
<1>6. \A i \in 1..Len(rest) : pc'[rest[i]] = pc[rest[i]]
  BY <1>3, <1>5 DEF TypeOK
<1>7. Waiting(w)'
  <2>1. CASE queue'[w] = rest
    BY <1>5, <1>6, <2>1 DEF Waiting
  <2>2. CASE queue'[w] = Append(rest, f) /\ next \in Operations
    <3>1. Len(queue'[w]) = Len(rest) + 1 /\ queue'[w][Len(rest) + 1] = f
          /\ \A i \in 1..Len(rest) : queue'[w][i] = rest[i]
      BY <1>2, <2>2, AppendProperties
    <3>2. pc'[f] = next
      BY <1>2, <1>3 DEF TypeOK
    <3>3. \A i \in 1..Len(queue'[w]) : i \in 1..Len(rest) \/ i = Len(rest) + 1
      BY <1>2, <3>1
    <3>4. QED
      BY <1>5, <1>6, <2>2, <3>1, <3>2, <3>3 DEF Waiting
  <2>3. QED
    BY <1>4, <2>1, <2>2
<1>8. QED
  BY <1>7 DEF QueuesHold

LEMMA QueuesStep ==
  ASSUME \A v, w \in Window : v = w, TypeOK, QueuesHold, [Next]_vars
  PROVE  QueuesHold'
<1>1. ASSUME NEW f \in Flow, Enqueue(f)
      PROVE  QueuesHold'
  <2> SUFFICES ASSUME NEW v \in Window
               PROVE  Waiting(v)'
    BY DEF QueuesHold
  <2>1. queue[v] \in Seq(Flow) /\ Waiting(v) /\ pc' = pc /\ pc[f] \in Operations
    BY <1>1 DEF TypeOK, QueuesHold, Enqueue
  <2>2. CASE queue'[v] = queue[v]
    BY <2>1, <2>2 DEF Waiting
  <2>3. CASE queue'[v] = Append(queue[v], f) /\ home[f] = v
    <3>1. Len(queue'[v]) = Len(queue[v]) + 1 /\ queue'[v][Len(queue[v]) + 1] = f
          /\ \A i \in 1..Len(queue[v]) : queue'[v][i] = queue[v][i]
      BY <2>1, <2>3, AppendProperties
    <3>2. \A i \in 1..Len(queue[v]) : queue[v][i] # f
      BY <1>1, <2>1, <2>3 DEF Enqueue
    <3>3. \A i \in 1..Len(queue'[v]) : i \in 1..Len(queue[v]) \/ i = Len(queue[v]) + 1
      BY <2>1, <3>1
    <3>4. QED
      BY <2>1, <3>1, <3>2, <3>3 DEF Waiting
  <2>4. QED
    BY <1>1, <2>2, <2>3 DEF Enqueue, TypeOK
<1>2. ASSUME NEW f \in Flow, NEW next \in States, pc[f] \notin Operations,
             pc' = [pc EXCEPT ![f] = next], queue' = Queued(queue, f, next)
      PROVE  QueuesHold'
  <2>1. CASE next \in AtOnce /\ home[f] \in Window
    BY <1>2, <2>1, MovesFreely DEF Queued, AtOnce, Operations
  <2>2. CASE ~(next \in AtOnce /\ home[f] \in Window)
    <3>1. queue' = queue
      BY <1>2, <2>2 DEF Queued, TypeOK
    <3>2. QED
      <4>1. CASE Window = {}
        BY <4>1 DEF QueuesHold
      <4>2. CASE Window # {}
        BY <1>2, <3>1, <4>2, MovesFreely
      <4>3. QED
        BY <4>1, <4>2
  <2>3. QED
    BY <2>1, <2>2
<1>3. ASSUME NEW w \in Window, Close(w)
      PROVE  QueuesHold'
  <2>1. \A v \in Window : queue'[v] = <<>>
    BY <1>3 DEF Close, TypeOK
  <2>2. QED
    BY <2>1 DEF QueuesHold, Waiting
<1>4. ASSUME NEW f \in Flow, Select(f)
      PROVE  QueuesHold'
  <2>1. PICK p \in {slot, Empty} : Chooses(f, scan[f] \ PendingSpent(p))
    BY <1>4 DEF Select
  <2>2. PICK next \in {"failed", "reserve", "seed"} :
          pc' = [pc EXCEPT ![f] = next] /\ queue' = Queued(queue, f, next)
    BY <2>1 DEF Chooses
  <2>3. QED
    BY <1>2, <1>4, <2>2 DEF Select, States, Operations, AtRest
<1>5. ASSUME NEW f \in Flow, Broadcast(f)
      PROVE  QueuesHold'
  <2>1. PICK next \in {"record", "out"} :
          pc' = [pc EXCEPT ![f] = next] /\ queue' = Queued(queue, f, next)
    BY <1>5, Zenon DEF Broadcast
  <2>2. QED
    BY <1>2, <1>5, <2>1 DEF Broadcast, States, Operations, AtRest
<1>6. ASSUME NEW f \in Flow, Check(f)
      PROVE  QueuesHold'
  <2>1. PICK next \in {"done", "remove"} :
          pc' = [pc EXCEPT ![f] = next] /\ queue' = Queued(queue, f, next)
    BY <1>6, Zenon DEF Check
  <2>2. QED
    BY <1>2, <1>6, <2>1 DEF Check, States, Operations, AtRest
<1>7. ASSUME NEW f \in Flow, NEW w \in Window, Start(f, w) \/ Finalise(f, w)
      PROVE  QueuesHold'
  BY <1>7, MovesFreely DEF Start, Finalise, States, Operations, AtRest
<1>8. ASSUME NEW f \in Flow, NEW g \in Flow, NEW w \in Window, Cancel(f, g, w)
      PROVE  QueuesHold'
  <2>1. PICK first \in {"checking", "remove"} :
          /\ pc' = [pc EXCEPT ![f] = first]
          /\ queue' = IF first = "remove" THEN [queue EXCEPT ![w] = Append(@, f)] ELSE queue
    BY <1>8 DEF Cancel
  <2>2. QED
    BY <1>8, <2>1, MovesFreely DEF Cancel, States, Operations, AtRest
<1>9. ASSUME NEW w \in Window, Save(w) \/ SaveRejected(w)
      PROVE  QueuesHold'
  <2>1. PICK next \in States : Ends(w, next)
    BY <1>9 DEF Save, SaveRejected, After, States, Operations, AtRest
  <2>2. QED
    BY <1>9, <2>1, EndsWaiting DEF Save, SaveRejected
<1>10. CASE UNCHANGED <<queue, pc>>
  BY <1>10 DEF QueuesHold, Waiting
<1>11. QED
  BY <1>1, <1>3, <1>4, <1>5, <1>6, <1>7, <1>8, <1>9, <1>10
     DEF Next, vars, SenderBroadcasts, Mine, Load, WeekPasses

(* What is recorded as broadcast was.                                       *)
RecordedSent == \A f \in Flow : pc[f] = "record" => tx[f] # "none"

BroadcastSent ==
  \A f \in Flow : slot.entries[f] # None /\ slot.entries[f].broadcast => tx[f] # "none"

(* A cancel is of a send that has been delivered, and is nothing else.      *)
CancelsDelivered ==
  \A f \in Flow :
    /\ target[f] # None => /\ pc[target[f]] \in {"out", "broadcasting", "record", "done"}
                           /\ kind[target[f]] = "send"
    /\ pc[f] \in {"checking", "remove"} \/ kind[f] = "cancel" => target[f] # None
    /\ kind[f] = "cancel" => pc[f] \in {"checking", "remove", "done", "failed"}

Freed ==
  \A f \in Flow :
    kind[f] = "cancel" /\ pc[f] = "done" /\ tx[target[f]] = "none" => slot.entries[target[f]] = None

Delivered == QueuesHold /\ RecordedSent /\ CancelsDelivered

CancelInv == ~misread => LoadedIsStored /\ BroadcastSent /\ Freed

(* The node forgets no transaction. *)
LEMMA SentStays ==
  ASSUME TypeOK, [Next]_vars, NEW f \in Flow, tx[f] # "none"
  PROVE  tx'[f] # "none"
<1>1. \/ tx' = tx
      \/ \E g \in Flow : tx' = [tx EXCEPT ![g] = "sent"] \/ tx' = [tx EXCEPT ![g] = "mined"]
  <2>1. ASSUME NEW g \in Flow,
               \/ SenderBroadcasts(g) \/ Mine(g)
               \/ \E w \in Window : Finalise(g, w)
        PROVE  tx' = tx \/ tx' = [tx EXCEPT ![g] = "sent"] \/ tx' = [tx EXCEPT ![g] = "mined"]
    BY <2>1 DEF SenderBroadcasts, Mine, Finalise
  <2>2. ASSUME NEW g \in Flow,
               \/ Enqueue(g) \/ Select(g) \/ Broadcast(g) \/ Check(g)
               \/ \E w \in Window : Start(g, w)
               \/ \E h \in Flow, w \in Window : Cancel(g, h, w)
        PROVE  tx' = tx
    BY <2>2 DEF Enqueue, Select, Broadcast, Check, Start, Cancel, flowVars
  <2>3. ASSUME NEW w \in Window, Load(w) \/ Save(w) \/ SaveRejected(w) \/ Close(w)
        PROVE  tx' = tx
    BY <2>3 DEF Load, Save, SaveRejected, Close, flowVars
  <2>4. WeekPasses \/ UNCHANGED vars => tx' = tx
    BY DEF WeekPasses, vars
  <2>5. QED
    BY <2>1, <2>2, <2>3, <2>4 DEF Next
<1>2. QED
  BY <1>1 DEF TypeOK

(* The flow an operation is of is at one, and what it saves is Saved.       *)
LEMMA SavesFlow ==
  ASSUME TypeOK, QueuesHold, NEW w \in Window, held[w] # None
  PROVE  Head(queue[w]) \in Flow /\ pc[Head(queue[w])] \in Operations
<1>1. queue[w] \in Seq(Flow) /\ queue[w] # <<>> /\ Waiting(w)
  BY DEF TypeOK, QueuesHold
<1>2. Head(queue[w]) \in Flow /\ Head(queue[w]) = queue[w][1] /\ 1 \in 1..Len(queue[w])
  BY <1>1, HeadTailProperties
<1>3. QED
  BY <1>1, <1>2 DEF Waiting

(* No entry but the operation's own is set, and that by book and record.    *)
LEMMA SavedEntries ==
  ASSUME TypeOK, NEW f \in Flow, pc[f] \in Operations, NEW p \in Pending, NEW g \in Flow
  PROVE  LET q == Saved(f, p) IN
         \/ q.entries[g] \in {None, p.entries[g]}
         \/ /\ f = g /\ pc[f] \in {"book", "record"}
            /\ q.entries[g].broadcast <=> pc[f] = "record"
<1>1. p.entries \in [Flow -> Entry \union {None}] /\ p = [entries |-> p.entries, next |-> p.next]
  BY DEF Pending
<1>2. CASE pc[f] = "reconcile"
  BY <1>1, <1>2 DEF Saved, Reconciled
<1>3. CASE pc[f] = "seed"
  BY <1>1, <1>3 DEF Saved, Seeded
<1>4. CASE pc[f] = "reserve"
  BY <1>1, <1>4 DEF Saved
<1>5. CASE pc[f] = "remove"
  BY <1>1, <1>5 DEF Saved, Removed
<1>6. CASE pc[f] \in {"book", "record"}
  <2> DEFINE e == [spent |-> picked[f], out |-> out[f], broadcast |-> pc[f] = "record", at |-> week]
  <2>1. Saved(f, p) = [p EXCEPT !.entries[f] = e]
    BY <1>6 DEF Saved, Added
  <2>2. e.broadcast <=> pc[f] = "record"
    OBVIOUS
  <2> HIDE DEF e
  <2>3. Saved(f, p).entries = [p.entries EXCEPT ![f] = e]
    BY <1>1, <2>1
  <2>4. QED
    BY <1>1, <1>6, <2>2, <2>3
<1>7. QED
  BY <1>2, <1>3, <1>4, <1>5, <1>6 DEF Operations

LEMMA DeliveredStep ==
  ASSUME \A v, w \in Window : v = w, TypeOK, Delivered, [Next]_vars
  PROVE  Delivered'
<1>1. QueuesHold'
  BY QueuesStep DEF Delivered
<1>2. \A f \in Flow : target[f] \in Flow \union {None} /\ kind[f] \in Kind \union {None} /\ pc[f] \in States
  BY DEF TypeOK, States
<1>3. SUFFICES RecordedSent' /\ CancelsDelivered'
  BY <1>1 DEF Delivered
<1>4. ASSUME NEW f \in Flow, Select(f)
      PROVE  RecordedSent' /\ CancelsDelivered'
  <2>1. PICK p \in {slot, Empty} : Chooses(f, scan[f] \ PendingSpent(p))
    BY <1>4 DEF Select
  <2>2. PICK next \in {"failed", "reserve", "seed"} : pc' = [pc EXCEPT ![f] = next]
    BY <2>1 DEF Chooses
  <2>3. pc[f] = "selecting" /\ UNCHANGED <<tx, kind, target>>
    BY <1>4 DEF Select
  <2>4. RecordedSent'
    BY <2>2, <2>3 DEF Delivered, RecordedSent, TypeOK
  <2>5. CancelsDelivered'
    BY <1>2, <2>2, <2>3, NoneAssumption DEF Delivered, CancelsDelivered, TypeOK
  <2>6. QED
    BY <2>4, <2>5
<1>5. ASSUME NEW f \in Flow, Broadcast(f)
      PROVE  RecordedSent' /\ CancelsDelivered'
  <2>1. PICK next \in {"record", "out"} : /\ pc' = [pc EXCEPT ![f] = next]
                                          /\ next = "record" => tx[f] # "none"
    BY <1>5, Zenon DEF Broadcast
  <2>2. pc[f] = "broadcasting" /\ UNCHANGED <<tx, kind, target>>
    BY <1>5 DEF Broadcast, flowVars
  <2>3. RecordedSent'
    BY <2>1, <2>2 DEF Delivered, RecordedSent, TypeOK
  <2>4. CancelsDelivered'
    BY <1>2, <2>1, <2>2, NoneAssumption DEF Delivered, CancelsDelivered, TypeOK
  <2>5. QED
    BY <2>3, <2>4
<1>6. ASSUME NEW f \in Flow, Check(f)
      PROVE  RecordedSent' /\ CancelsDelivered'
  <2>1. PICK next \in {"done", "remove"} : pc' = [pc EXCEPT ![f] = next]
    BY <1>6, Zenon DEF Check
  <2>2. pc[f] = "checking" /\ UNCHANGED <<tx, kind, target>>
    BY <1>6 DEF Check, flowVars
  <2>3. RecordedSent'
    BY <2>1, <2>2 DEF Delivered, RecordedSent, TypeOK
  <2>4. CancelsDelivered'
    BY <1>2, <2>1, <2>2, NoneAssumption DEF Delivered, CancelsDelivered, TypeOK
  <2>5. QED
    BY <2>3, <2>4
<1>7. ASSUME NEW f \in Flow, NEW w \in Window, Start(f, w)
      PROVE  RecordedSent' /\ CancelsDelivered'
  <2>1. PICK k \in KindsOf[f] \ {"cancel"} : kind' = [kind EXCEPT ![f] = k]
    BY <1>7 DEF Start
  <2>2. pc[f] = "absent" /\ pc' = [pc EXCEPT ![f] = "reconcile"] /\ UNCHANGED <<tx, target>>
    BY <1>7 DEF Start
  <2>3. RecordedSent'
    BY <2>2 DEF Delivered, RecordedSent, TypeOK
  <2>4. CancelsDelivered'
    BY <1>2, <2>1, <2>2, NoneAssumption DEF Delivered, CancelsDelivered, TypeOK
  <2>5. QED
    BY <2>3, <2>4
<1>8. ASSUME NEW f \in Flow, NEW w \in Window, Finalise(f, w)
      PROVE  RecordedSent' /\ CancelsDelivered'
  <2>1. /\ pc[f] = "out" /\ kind[f] # "cancel" /\ pc' = [pc EXCEPT ![f] = "broadcasting"]
        /\ UNCHANGED <<kind, target>>
    BY <1>8 DEF Finalise
  <2>2. RecordedSent'
    BY <2>1, SentStays DEF Delivered, RecordedSent, TypeOK
  <2>3. CancelsDelivered'
    BY <1>2, <2>1, NoneAssumption DEF Delivered, CancelsDelivered, TypeOK
  <2>4. QED
    BY <2>2, <2>3
<1>9. ASSUME NEW f \in Flow, NEW g \in Flow, NEW w \in Window, Cancel(f, g, w)
      PROVE  RecordedSent' /\ CancelsDelivered'
  <2>1. PICK first \in {"checking", "remove"} : pc' = [pc EXCEPT ![f] = first]
    BY <1>9 DEF Cancel
  <2>2. /\ pc[f] = "absent" /\ kind' = [kind EXCEPT ![f] = "cancel"]
        /\ target' = [target EXCEPT ![f] = g] /\ tx' = tx
        /\ kind[g] = "send" /\ pc[g] \in {"out", "broadcasting", "record", "done"}
    BY <1>9 DEF Cancel
  <2>3. RecordedSent'
    BY <2>1, <2>2 DEF Delivered, RecordedSent, TypeOK
  <2>4. CancelsDelivered'
    BY <1>2, <2>1, <2>2, NoneAssumption DEF Delivered, CancelsDelivered, TypeOK
  <2>5. QED
    BY <2>3, <2>4
<1>10. ASSUME NEW w \in Window, Save(w) \/ SaveRejected(w)
       PROVE  RecordedSent' /\ CancelsDelivered'
  <2> DEFINE f == Head(queue[w])
  <2>1. f \in Flow /\ pc[f] \in Operations
    BY <1>10, SavesFlow DEF Save, SaveRejected, Delivered
  <2>2. UNCHANGED <<tx, kind, target>>
    BY <1>10 DEF Save, SaveRejected, flowVars
  <2>3. PICK next \in {"selecting", "reserve", "out", "book", "done", "failed"} :
          /\ pc' = [pc EXCEPT ![f] = next]
          /\ pc[f] = "record" /\ kind[f] = "send" => next \in {"out", "done"}
          /\ pc[f] = "remove" => next \in {"done", "failed"}
    BY <1>10 DEF Save, SaveRejected, Ends, After
  <2> HIDE DEF f
  <2>4. RecordedSent'
    BY <2>1, <2>2, <2>3 DEF Delivered, RecordedSent, TypeOK
  <2>5. CancelsDelivered'
    BY <1>2, <2>1, <2>2, <2>3, NoneAssumption DEF Delivered, CancelsDelivered, TypeOK, Operations
  <2>6. QED
    BY <2>4, <2>5
<1>11. ASSUME NEW w \in Window, Close(w)
       PROVE  RecordedSent' /\ CancelsDelivered'
  <2>1. /\ pc' = [f \in Flow |-> IF home[f] # w \/ pc[f] \in AtRest THEN pc[f]
                                 ELSE IF pc[f] \in {"broadcasting", "record"} THEN "out" ELSE "failed"]
        /\ UNCHANGED <<tx, kind, target>>
    BY <1>11 DEF Close, flowVars
  <2>2. RecordedSent'
    BY <2>1 DEF Delivered, RecordedSent
  <2>3. CancelsDelivered'
    BY <1>2, <2>1, NoneAssumption DEF Delivered, CancelsDelivered, AtRest
  <2>4. QED
    BY <2>2, <2>3
<1>12. CASE UNCHANGED <<pc, kind, target>>
  BY <1>12, SentStays DEF Delivered, RecordedSent, CancelsDelivered
<1>13. QED
  BY <1>4, <1>5, <1>6, <1>7, <1>8, <1>9, <1>10, <1>11, <1>12
     DEF Next, vars, flowVars, Enqueue, SenderBroadcasts, Mine, Load, WeekPasses

(* A save of what is stored brings back no entry a cancel freed.            *)
LEMMA SaveFrees ==
  ASSUME \A v, w \in Window : v = w,
         TypeOK, Delivered, LoadedIsStored, BroadcastSent, Freed, NEW w \in Window, Save(w)
  PROVE  BroadcastSent' /\ Freed'
<1> DEFINE f == Head(queue[w])
<1>1. held[w] # None /\ held[w] = slot /\ slot \in Pending
  BY DEF Save, LoadedIsStored, TypeOK
<1>2. f \in Flow /\ pc[f] \in Operations
  BY <1>1, SavesFlow DEF Delivered
<1>3. /\ slot' = IF Skips(f, slot) THEN slot ELSE Saved(f, slot)
      /\ pc' = [pc EXCEPT ![f] = After(f)]
      /\ UNCHANGED <<tx, kind, target>>
  BY <1>1 DEF Save, Ends
<1> HIDE DEF f
<1>4. slot' = Saved(f, slot)
  BY <1>3 DEF Skips
<1>5. \A g \in Flow :
        \/ slot'.entries[g] \in {None, slot.entries[g]}
        \/ /\ f = g /\ pc[f] \in {"book", "record"}
           /\ slot'.entries[g].broadcast <=> pc[f] = "record"
  BY <1>1, <1>2, <1>4, SavedEntries
<1>6. BroadcastSent'
  <2> SUFFICES ASSUME NEW g \in Flow, slot'.entries[g] # None, slot'.entries[g].broadcast
               PROVE  tx'[g] # "none"
    BY DEF BroadcastSent
  <2>1. CASE slot'.entries[g] \in {None, slot.entries[g]}
    BY <1>3, <2>1 DEF BroadcastSent
  <2>2. CASE f = g /\ pc[f] = "record"
    BY <1>3, <2>2 DEF Delivered, RecordedSent
  <2>3. QED
    BY <1>5, <2>1, <2>2
<1>7. Freed'
  <2> SUFFICES ASSUME NEW c \in Flow, kind[c] = "cancel", pc'[c] = "done", tx[target[c]] = "none"
               PROVE  slot'.entries[target[c]] = None
    BY <1>3 DEF Freed
  <2>1. target[c] \in Flow /\ pc[target[c]] \in {"out", "broadcasting", "record", "done"}
    BY DEF Delivered, CancelsDelivered, TypeOK
  <2>2. pc[target[c]] \notin {"book", "record"}
    BY <2>1 DEF Delivered, RecordedSent
  <2>3. CASE c = f
    <3>1. pc[f] = "remove"
      BY <1>2, <2>3 DEF Delivered, CancelsDelivered, Operations
    <3>2. slot' = Removed(slot, target[f])
      BY <1>4, <3>1 DEF Saved
    <3>3. ~slot.entries[target[f]].broadcast \/ slot.entries[target[f]] = None
      BY <2>1, <2>3 DEF BroadcastSent
    <3>4. slot.entries \in [Flow -> Entry \union {None}]
          /\ slot = [entries |-> slot.entries, next |-> slot.next]
      BY <1>1 DEF Pending
    <3>5. [slot EXCEPT !.entries[target[f]] = None].entries[target[f]] = None
      BY <2>1, <2>3, <3>4
    <3>6. QED
      BY <2>3, <3>2, <3>3, <3>5 DEF Removed
  <2>4. CASE c # f
    <3>1. slot.entries[target[c]] = None
      BY <1>2, <1>3, <2>4 DEF Freed, TypeOK
    <3>2. QED
      BY <1>5, <2>1, <2>2, <3>1
  <2>5. QED
    BY <2>3, <2>4
<1>8. QED
  BY <1>6, <1>7

LEMMA CancelStep ==
  ASSUME \A v, w \in Window : v = w, TypeOK, Delivered, CancelInv, [Next]_vars
  PROVE  CancelInv'
<1> SUFFICES ASSUME ~misread'
             PROVE  (LoadedIsStored /\ BroadcastSent /\ Freed)'
  BY DEF CancelInv
<1>1. ~misread /\ LoadedIsStored /\ BroadcastSent /\ Freed
  BY MisreadStays DEF CancelInv
<1>2. LoadedIsStored'
  BY <1>1, LoadedStep
<1>3. CASE \E w \in Window : Save(w)
  BY <1>1, <1>2, <1>3, SaveFrees
<1>4. ASSUME \A w \in Window : ~Save(w)
      PROVE  BroadcastSent' /\ Freed'
  <2>1. slot' = slot
    BY <1>4, OnlySavesCount
  <2>2. BroadcastSent'
    BY <1>1, <2>1, SentStays DEF BroadcastSent
  <2>3. ASSUME NEW c \in Flow, kind'[c] = "cancel", pc'[c] = "done", tx'[target'[c]] = "none"
        PROVE  slot.entries[target'[c]] = None
    <3>1. CASE kind[c] = "cancel" /\ pc[c] = "done" /\ target'[c] = target[c]
      <4>1. target[c] \in Flow
        BY <3>1 DEF Delivered, CancelsDelivered, TypeOK
      <4>2. QED
        BY <1>1, <2>3, <3>1, <4>1, SentStays DEF Freed
    <3>2. CASE Check(c)
      <4>1. pc[c] = "checking" /\ UNCHANGED <<tx, target>>
        BY <3>2 DEF Check, flowVars
      <4>2. PICK p \in {slot, Empty} :
              /\ Read(p)
              /\ pc' = [pc EXCEPT ![c] = IF p.entries[target[c]] # None /\ p.entries[target[c]].broadcast
                                         THEN "done" ELSE "remove"]
        BY <3>2 DEF Check
      <4>3. p = slot
        BY <4>2, Zenon DEF Read
      <4>4. slot.entries[target[c]] # None /\ slot.entries[target[c]].broadcast
        BY <2>3, <4>2, <4>3 DEF TypeOK
      <4>5. target[c] \in Flow
        BY <4>1 DEF Delivered, CancelsDelivered, TypeOK
      <4>6. QED
        BY <1>1, <2>3, <4>1, <4>4, <4>5 DEF BroadcastSent
    <3>3. (kind[c] = "cancel" /\ pc[c] = "done" /\ target'[c] = target[c]) \/ Check(c)
      <4>1. ASSUME NEW f \in Flow, Select(f)
            PROVE  kind[c] = "cancel" /\ pc[c] = "done" /\ target'[c] = target[c]
        <5>1. PICK p \in {slot, Empty} : Chooses(f, scan[f] \ PendingSpent(p))
          BY <4>1 DEF Select
        <5>2. PICK next \in {"failed", "reserve", "seed"} : pc' = [pc EXCEPT ![f] = next]
          BY <5>1 DEF Chooses
        <5>3. QED
          BY <2>3, <4>1, <5>2 DEF Select, TypeOK
      <4>2. ASSUME NEW f \in Flow, Broadcast(f)
            PROVE  kind[c] = "cancel" /\ pc[c] = "done" /\ target'[c] = target[c]
        <5>1. PICK next \in {"record", "out"} : pc' = [pc EXCEPT ![f] = next]
          BY <4>2, Zenon DEF Broadcast
        <5>2. QED
          BY <2>3, <4>2, <5>1 DEF Broadcast, flowVars, TypeOK
      <4>3. ASSUME NEW f \in Flow, f # c, Check(f)
            PROVE  kind[c] = "cancel" /\ pc[c] = "done" /\ target'[c] = target[c]
        BY <2>3, <4>3 DEF Check, flowVars, TypeOK
      <4>4. ASSUME NEW f \in Flow, NEW w \in Window, Start(f, w) \/ Finalise(f, w)
            PROVE  kind[c] = "cancel" /\ pc[c] = "done" /\ target'[c] = target[c]
        BY <2>3, <4>4 DEF Start, Finalise, TypeOK
      <4>5. ASSUME NEW f \in Flow, NEW g \in Flow, NEW w \in Window, Cancel(f, g, w)
            PROVE  kind[c] = "cancel" /\ pc[c] = "done" /\ target'[c] = target[c]
        BY <2>3, <4>5 DEF Cancel, TypeOK
      <4>6. ASSUME NEW w \in Window, SaveRejected(w)
            PROVE  kind[c] = "cancel" /\ pc[c] = "done" /\ target'[c] = target[c]
        <5>1. Head(queue[w]) \in Flow /\ pc[Head(queue[w])] \in Operations
          BY <4>6, SavesFlow DEF SaveRejected, Delivered
        <5>2. UNCHANGED <<kind, target>>
          BY <4>6 DEF SaveRejected, flowVars
        <5>3. pc[Head(queue[w])] = "record" => kind[Head(queue[w])] # "cancel"
          BY <5>1 DEF Delivered, CancelsDelivered
        <5>4. QED
          BY <2>3, <4>6, <5>1, <5>2, <5>3 DEF SaveRejected, Ends, TypeOK
      <4>7. ASSUME NEW w \in Window, Close(w)
            PROVE  kind[c] = "cancel" /\ pc[c] = "done" /\ target'[c] = target[c]
        BY <2>3, <4>7 DEF Close, flowVars
      <4>8. CASE UNCHANGED <<pc, kind, target>>
        BY <2>3, <4>8
      <4>9. QED
        BY <1>4, <4>1, <4>2, <4>3, <4>4, <4>5, <4>6, <4>7, <4>8
           DEF Next, vars, flowVars, Enqueue, SenderBroadcasts, Mine, Load, WeekPasses
    <3>4. QED
      BY <3>1, <3>2, <3>3
  <2>4. QED
    BY <2>1, <2>2, <2>3 DEF Freed
<1>5. QED
  BY <1>2, <1>3, <1>4

(* One window at a time: as long as no read has failed, the inputs a cancel *)
(* gave back stay free, whatever else the window saves, in whatever order.  *)
THEOREM CancelFrees ==
  ASSUME \A v, w \in Window : v = w
  PROVE  Spec => []CancelledIsFree
<1>1. Init => Delivered /\ CancelInv
  <2> SUFFICES ASSUME Init PROVE Delivered /\ CancelInv
    OBVIOUS
  <2>1. QueuesHold
    BY DEF Init, QueuesHold, Waiting
  <2>2. slot.entries = [f \in Flow |-> None]
    BY DEF Init, Empty
  <2>3. RecordedSent /\ CancelsDelivered
    BY NoneAssumption DEF Init, Kind, RecordedSent, CancelsDelivered
  <2>4. LoadedIsStored /\ BroadcastSent /\ Freed
    BY <2>2 DEF Init, LoadedIsStored, BroadcastSent, Freed
  <2>5. QED
    BY <2>1, <2>3, <2>4 DEF Delivered, CancelInv
<1>2. TypeOK /\ (Delivered /\ CancelInv) /\ [Next]_vars => (Delivered /\ CancelInv)'
  BY DeliveredStep, CancelStep
<1>3. Delivered /\ CancelInv => CancelledIsFree
  BY DEF CancelInv, CancelledIsFree, Freed
<1>4. QED
  BY <1>1, <1>2, <1>3, TypeCorrect, PTL DEF Spec

-------------------------------------------------------------------------------
(* What was broadcast.                                                      *)

(* An output of the wallet that is on the chain, was found by a scan or is  *)
(* to be made is below the counter: the next index is a new one everywhere. *)
BelowCounter ==
  /\ \A i \in utxo : i < slot.next
  /\ \A f \in Flow : \A i \in scan[f] \union out[f] : i < slot.next

OutsApart == \A f, g \in Flow : f # g => out[f] \intersect out[g] = {}

(* So no scan shows the output of a transaction before it is mined.         *)
OffChain ==
  \A f \in Flow : tx[f] # "mined" => /\ out[f] \intersect utxo = {}
                                     /\ \A g \in Flow : out[f] \intersect scan[g] = {}

OnlyCancelsRemove == \A f \in Flow : pc[f] \in {"checking", "remove"} => kind[f] = "cancel"

Held ==
  \A f \in Flow :
    kind[f] = "send" /\ pc[f] = "done" /\ tx[f] # "mined" /\ out[f] # {} /\ week = 0
      => /\ slot.entries[f] # None /\ slot.entries[f].broadcast
         /\ slot.entries[f].spent = picked[f] /\ slot.entries[f].out = out[f]

HeldInv == ~misread => LoadedIsStored /\ BelowCounter /\ OutsApart /\ OffChain /\ Held

LEMMA CancelsRemoveStep ==
  ASSUME TypeOK, OnlyCancelsRemove, [Next]_vars
  PROVE  OnlyCancelsRemove'
<1>1. ASSUME NEW f \in Flow, Select(f)
      PROVE  OnlyCancelsRemove'
  <2>1. PICK p \in {slot, Empty} : Chooses(f, scan[f] \ PendingSpent(p))
    BY <1>1 DEF Select
  <2>2. PICK next \in {"failed", "reserve", "seed"} : pc' = [pc EXCEPT ![f] = next]
    BY <2>1 DEF Chooses
  <2>3. QED
    BY <1>1, <2>2 DEF Select, OnlyCancelsRemove, TypeOK
<1>2. ASSUME NEW f \in Flow, Broadcast(f)
      PROVE  OnlyCancelsRemove'
  <2>1. PICK next \in {"record", "out"} : pc' = [pc EXCEPT ![f] = next]
    BY <1>2, Zenon DEF Broadcast
  <2>2. QED
    BY <1>2, <2>1 DEF Broadcast, flowVars, OnlyCancelsRemove, TypeOK
<1>3. ASSUME NEW f \in Flow, Check(f)
      PROVE  OnlyCancelsRemove'
  <2>1. PICK next \in {"done", "remove"} : pc' = [pc EXCEPT ![f] = next]
    BY <1>3, Zenon DEF Check
  <2>2. QED
    BY <1>3, <2>1 DEF Check, flowVars, OnlyCancelsRemove, TypeOK
<1>4. ASSUME NEW f \in Flow, NEW w \in Window, Start(f, w)
      PROVE  OnlyCancelsRemove'
  <2>1. PICK k : kind' = [kind EXCEPT ![f] = k]
    BY <1>4 DEF Start
  <2>2. QED
    BY <1>4, <2>1 DEF Start, OnlyCancelsRemove, TypeOK
<1>5. ASSUME NEW f \in Flow, NEW w \in Window, Finalise(f, w)
      PROVE  OnlyCancelsRemove'
  BY <1>5 DEF Finalise, OnlyCancelsRemove, TypeOK
<1>6. ASSUME NEW f \in Flow, NEW g \in Flow, NEW w \in Window, Cancel(f, g, w)
      PROVE  OnlyCancelsRemove'
  <2>1. PICK first : pc' = [pc EXCEPT ![f] = first]
    BY <1>6 DEF Cancel
  <2>2. QED
    BY <1>6, <2>1 DEF Cancel, OnlyCancelsRemove, TypeOK
<1>7. ASSUME NEW w \in Window, Save(w) \/ SaveRejected(w)
      PROVE  OnlyCancelsRemove'
  <2>1. PICK f : f = Head(queue[w])
    OBVIOUS
  <2>2. PICK next \in {"selecting", "reserve", "out", "book", "done", "failed"} :
          pc' = [pc EXCEPT ![f] = next]
    BY <1>7, <2>1 DEF Save, SaveRejected, Ends, After
  <2>3. kind' = kind
    BY <1>7 DEF Save, SaveRejected, flowVars
  <2>4. QED
    BY <2>2, <2>3 DEF OnlyCancelsRemove, TypeOK
<1>8. ASSUME NEW w \in Window, Close(w)
      PROVE  OnlyCancelsRemove'
  BY <1>8 DEF Close, flowVars, OnlyCancelsRemove
<1>9. CASE UNCHANGED <<pc, kind>>
  BY <1>9 DEF OnlyCancelsRemove
<1>10. QED
  BY <1>1, <1>2, <1>3, <1>4, <1>5, <1>6, <1>7, <1>8, <1>9
     DEF Next, vars, flowVars, Enqueue, SenderBroadcasts, Mine, Load, WeekPasses

(* Nor does the chain forget one.                                           *)
LEMMA MinedStays ==
  ASSUME TypeOK, [Next]_vars, NEW f \in Flow, tx[f] = "mined"
  PROVE  tx'[f] = "mined"
<1>1. ASSUME NEW g \in Flow, SenderBroadcasts(g) \/ Mine(g) \/ \E w \in Window : Finalise(g, w)
      PROVE  tx'[f] = "mined"
  BY <1>1 DEF SenderBroadcasts, Mine, Finalise, TypeOK
<1>2. ASSUME NEW g \in Flow,
             \/ Enqueue(g) \/ Select(g) \/ Broadcast(g) \/ Check(g)
             \/ \E w \in Window : Start(g, w)
             \/ \E h \in Flow, w \in Window : Cancel(g, h, w)
      PROVE  tx' = tx
  BY <1>2 DEF Enqueue, Select, Broadcast, Check, Start, Cancel, flowVars
<1>3. ASSUME NEW w \in Window, Load(w) \/ Save(w) \/ SaveRejected(w) \/ Close(w)
      PROVE  tx' = tx
  BY <1>3 DEF Load, Save, SaveRejected, Close, flowVars
<1>4. WeekPasses \/ UNCHANGED vars => tx' = tx
  BY DEF WeekPasses, vars
<1>5. QED
  BY <1>1, <1>2, <1>3, <1>4 DEF Next

(* A save makes at most one output, of the counter's index, and looks at no *)
(* chain.                                                                   *)
LEMMA SaveBuilds ==
  ASSUME TypeOK, QueuesHold, LoadedIsStored, NEW w \in Window, Save(w)
  PROVE  /\ UNCHANGED <<utxo, scan, tx, kind, picked, week>>
         /\ \/ out' = out
            \/ /\ slot'.next = slot.next + 1
               /\ \E f \in Flow : \E made \in {{slot.next}, {}} : /\ pc[f] = "reserve"
                                                                 /\ out' = [out EXCEPT ![f] = made]
<1>1. PICK f : f = Head(queue[w])
  OBVIOUS
<1>2. held[w] # None /\ held[w] = slot /\ slot \in Pending
  BY DEF Save, LoadedIsStored, TypeOK
<1>3. f \in Flow
  BY <1>1, <1>2, SavesFlow
<1>4. /\ slot' = IF Skips(f, slot) THEN slot ELSE Saved(f, slot)
      /\ IF pc[f] = "reserve" THEN Builds(f, slot.next) ELSE UNCHANGED <<minted, out>>
  BY <1>1, <1>2 DEF Save
<1>5. UNCHANGED <<utxo, scan, tx, kind, picked, week>>
  BY DEF Save
<1>6. CASE pc[f] = "reserve"
  <2>1. slot' = Saved(f, slot) /\ Builds(f, slot.next)
    BY <1>4, <1>6 DEF Skips
  <2>2. Saved(f, slot).next = slot.next + 1
    BY <1>2, <1>3, <1>6, SavedType
  <2>3. \E made \in {{slot.next}, {}} : out' = [out EXCEPT ![f] = made]
    BY <2>1 DEF Builds
  <2>4. QED
    BY <1>3, <1>5, <1>6, <2>1, <2>2, <2>3
<1>7. CASE pc[f] # "reserve"
  BY <1>4, <1>5, <1>7
<1>8. QED
  BY <1>6, <1>7

(* Otherwise a scan shows the chain, and the chain takes a transaction.     *)
LEMMA ChainStep ==
  ASSUME TypeOK, [Next]_vars, \A w \in Window : ~Save(w)
  PROVE  /\ slot' = slot /\ out' = out
         /\ \/ utxo' = utxo /\ \A g \in Flow : scan'[g] \in {scan[g], utxo, {}}
            \/ /\ scan' = scan
               /\ \E f \in Flow : tx'[f] = "mined" /\ utxo' = (utxo \ picked[f]) \union out[f]
<1>1. slot' = slot
  BY OnlySavesCount
<1>2. out' = out
  BY DEF Next, vars, flowVars, Enqueue, Select, Broadcast, SenderBroadcasts, Mine, Check,
     Start, Finalise, Cancel, Load, SaveRejected, Close, WeekPasses
<1>3. ASSUME NEW f \in Flow, Mine(f)
      PROVE  /\ scan' = scan
             /\ tx'[f] = "mined" /\ utxo' = (utxo \ picked[f]) \union out[f]
  BY <1>3 DEF Mine, flowVars, TypeOK
<1>4. ASSUME NEW f \in Flow, Select(f) \/ \E w \in Window : Start(f, w)
      PROVE  utxo' = utxo /\ \A g \in Flow : scan'[g] \in {scan[g], utxo, {}}
  BY <1>4 DEF Select, Start, TypeOK
<1>5. ASSUME NEW f \in Flow,
             \/ Enqueue(f) \/ Broadcast(f) \/ SenderBroadcasts(f) \/ Check(f)
             \/ \E w \in Window : Finalise(f, w)
             \/ \E g \in Flow, w \in Window : Cancel(f, g, w)
      PROVE  UNCHANGED <<utxo, scan>>
  BY <1>5 DEF Enqueue, Broadcast, SenderBroadcasts, Check, Finalise, Cancel, flowVars
<1>6. ASSUME NEW w \in Window, Load(w) \/ SaveRejected(w) \/ Close(w)
      PROVE  UNCHANGED <<utxo, scan>>
  BY <1>6 DEF Load, SaveRejected, Close, flowVars
<1>7. WeekPasses \/ UNCHANGED vars => UNCHANGED <<utxo, scan>>
  BY DEF WeekPasses, vars, flowVars
<1>8. (\E f \in Flow : Mine(f) \/ Select(f) \/ \E w \in Window : Start(f, w))
        \/ UNCHANGED <<utxo, scan>>
  BY <1>5, <1>6, <1>7, Zenon DEF Next
<1>9. CASE \E f \in Flow : Mine(f)
  BY <1>1, <1>2, <1>3, <1>9
<1>10. CASE \E f \in Flow : Select(f) \/ \E w \in Window : Start(f, w)
  BY <1>1, <1>2, <1>4, <1>10
<1>11. QED
  BY <1>1, <1>2, <1>8, <1>9, <1>10

(* The next index is on no chain and in no scan, so what it makes is not    *)
(* either.                                                                  *)
LEMMA OutsStep ==
  ASSUME TypeOK, TypeOK', QueuesHold, [Next]_vars,
         LoadedIsStored, BelowCounter, OutsApart, OffChain
  PROVE  BelowCounter' /\ OutsApart' /\ OffChain'
<1>1. slot.next \in Nat /\ slot'.next \in Nat
  BY DEF TypeOK, Pending
<1>2. utxo \subseteq Nat /\ scan \in [Flow -> SUBSET Nat] /\ out \in [Flow -> SUBSET Nat]
  BY DEF TypeOK
<1>3. \A f \in Flow : tx'[f] # "mined" => tx[f] # "mined"
  BY MinedStays
<1>4. ASSUME NEW w \in Window, Save(w)
      PROVE  BelowCounter' /\ OutsApart' /\ OffChain'
  <2>1. slot'.next >= slot.next
    BY <1>4, SaveCounts
  <2>2. UNCHANGED <<utxo, scan, tx>>
    BY <1>4, SaveBuilds
  <2>3. CASE out' = out
    <3>1. BelowCounter'
      BY <1>1, <1>2, <2>1, <2>2, <2>3 DEF BelowCounter
    <3>2. QED
      BY <2>2, <2>3, <3>1 DEF OutsApart, OffChain
  <2>4. CASE out' # out
    <3>1. slot'.next = slot.next + 1
      BY <1>4, <2>4, SaveBuilds
    <3>2. PICK f \in Flow, made \in {{slot.next}, {}} : out' = [out EXCEPT ![f] = made]
      BY <1>4, <2>4, SaveBuilds
    <3>3. out'[f] \subseteq {slot.next} /\ \A g \in Flow : g # f => out'[g] = out[g]
      BY <1>2, <3>2
    <3>4. /\ \A i \in utxo : i < slot'.next
          /\ \A g \in Flow : \A i \in scan[g] \union out[g] : i < slot'.next
      BY <1>1, <1>2, <3>1 DEF BelowCounter
    <3>5. slot.next < slot'.next /\ slot.next \notin utxo
          /\ \A g \in Flow : slot.next \notin scan[g] \union out[g]
      BY <1>1, <1>2, <3>1 DEF BelowCounter
    <3>6. BelowCounter'
      BY <2>2, <3>3, <3>4, <3>5 DEF BelowCounter
    <3>7. OutsApart'
      BY <3>3, <3>5 DEF OutsApart
    <3>8. OffChain'
      BY <2>2, <3>3, <3>5 DEF OffChain
    <3>9. QED
      BY <3>6, <3>7, <3>8
  <2>5. QED
    BY <2>3, <2>4
<1>5. ASSUME \A w \in Window : ~Save(w)
      PROVE  BelowCounter' /\ OutsApart' /\ OffChain'
  <2>1. slot' = slot /\ out' = out
    BY <1>5, ChainStep
  <2>2. OutsApart'
    BY <2>1 DEF OutsApart
  <2>3. CASE utxo' = utxo /\ \A g \in Flow : scan'[g] \in {scan[g], utxo, {}}
    <3>1. BelowCounter'
      BY <2>1, <2>3 DEF BelowCounter
    <3>2. OffChain'
      BY <1>3, <2>1, <2>3 DEF OffChain
    <3>3. QED
      BY <2>2, <3>1, <3>2
  <2>4. ASSUME scan' = scan, NEW f \in Flow, tx'[f] = "mined",
               utxo' = (utxo \ picked[f]) \union out[f]
        PROVE  BelowCounter' /\ OffChain'
    <3>1. BelowCounter'
      BY <2>1, <2>4 DEF BelowCounter
    <3>2. OffChain'
      BY <1>3, <2>1, <2>4 DEF OffChain, OutsApart
    <3>3. QED
      BY <3>1, <3>2
  <2>5. QED
    BY <1>5, <2>2, <2>3, <2>4, ChainStep
<1>6. QED
  BY <1>4, <1>5

(* No operation of another flow takes away the entry of what was broadcast, *)
(* unless a scan has shown it settled or its time is up.                    *)
LEMMA EntryStays ==
  ASSUME TypeOK, NEW f \in Flow, NEW g \in Flow, f # g, pc[f] \in Operations, NEW p \in Pending,
         p.entries[g] # None, p.entries[g].broadcast,
         ~Aged(p.entries[g]), ~Settled(p.entries[g], scan[f])
  PROVE  Saved(f, p).entries[g] = p.entries[g]
<1>1. p.entries \in [Flow -> Entry \union {None}] /\ p = [entries |-> p.entries, next |-> p.next]
  BY DEF Pending
<1>2. CASE pc[f] = "reconcile"
  BY <1>1, <1>2 DEF Saved, Reconciled
<1>3. CASE pc[f] = "seed"
  BY <1>1, <1>3 DEF Saved, Seeded
<1>4. CASE pc[f] = "reserve"
  BY <1>1, <1>4 DEF Saved
<1>5. CASE pc[f] = "remove"
  <2>1. Saved(f, p) = Removed(p, target[f])
    BY <1>5 DEF Saved
  <2>2. CASE target[f] = g
    BY <2>1, <2>2 DEF Removed
  <2>3. CASE target[f] # g
    BY <1>1, <2>1, <2>3 DEF Removed
  <2>4. QED
    BY <2>2, <2>3
<1>6. CASE pc[f] \in {"book", "record"}
  <2> DEFINE e == [spent |-> picked[f], out |-> out[f], broadcast |-> pc[f] = "record", at |-> week]
  <2>1. Saved(f, p) = [p EXCEPT !.entries[f] = e]
    BY <1>6 DEF Saved, Added
  <2> HIDE DEF e
  <2>2. QED
    BY <1>1, <2>1
<1>7. QED
  BY <1>2, <1>3, <1>4, <1>5, <1>6 DEF Operations

(* record writes the entry.                                                 *)
LEMMA RecordsEntry ==
  ASSUME NEW f \in Flow, pc[f] = "record", NEW p \in Pending
  PROVE  Saved(f, p).entries[f] =
           [spent |-> picked[f], out |-> out[f], broadcast |-> TRUE, at |-> week]
<1>1. p.entries \in [Flow -> Entry \union {None}] /\ p = [entries |-> p.entries, next |-> p.next]
  BY DEF Pending
<1> DEFINE e == [spent |-> picked[f], out |-> out[f], broadcast |-> TRUE, at |-> week]
<1>2. Saved(f, p) = [p EXCEPT !.entries[f] = e]
  BY DEF Saved, Added
<1> HIDE DEF e
<1>3. Saved(f, p).entries[f] = e
  BY <1>1, <1>2
<1>4. QED
  BY <1>3 DEF e

LEMMA SaveHolds ==
  ASSUME TypeOK, QueuesHold, OnlyCancelsRemove,
         LoadedIsStored, OffChain, Held, NEW w \in Window, Save(w)
  PROVE  Held'
<1>1. PICK f : f = Head(queue[w])
  OBVIOUS
<1>2. held[w] # None /\ held[w] = slot /\ slot \in Pending
  BY DEF Save, LoadedIsStored, TypeOK
<1>3. f \in Flow /\ pc[f] \in Operations
  BY <1>1, <1>2, SavesFlow
<1>4. slot' = Saved(f, slot) /\ pc' = [pc EXCEPT ![f] = After(f)]
  BY <1>1, <1>2 DEF Save, Ends, Skips
<1>5. UNCHANGED <<tx, kind, picked, week>>
  BY <1>2, SaveBuilds
<1>6. \A g \in Flow : pc[g] # "reserve" => out'[g] = out[g]
  <2>1. out' = out \/ \E h \in Flow : pc[h] = "reserve" /\ \E made : out' = [out EXCEPT ![h] = made]
    BY SaveBuilds
  <2>2. QED
    BY <2>1 DEF TypeOK
<1>7. SUFFICES ASSUME NEW g \in Flow, kind[g] = "send", pc'[g] = "done", tx[g] # "mined",
                      out'[g] # {}, week = 0
               PROVE  /\ slot'.entries[g] # None /\ slot'.entries[g].broadcast
                      /\ slot'.entries[g].spent = picked[g] /\ slot'.entries[g].out = out'[g]
  BY <1>5 DEF Held
<1>8. CASE g = f
  <2>1. After(f) = "done"
    BY <1>3, <1>4, <1>7, <1>8 DEF TypeOK
  <2>2. pc[f] # "remove"
    BY <1>3, <1>7, <1>8 DEF OnlyCancelsRemove
  <2>3. pc[f] = "record"
    BY <1>3, <1>7, <1>8, <2>1, <2>2 DEF After, Operations
  <2>4. slot'.entries[f] = [spent |-> picked[f], out |-> out[f], broadcast |-> TRUE, at |-> week]
    BY <1>2, <1>3, <1>4, <2>3, RecordsEntry
  <2>5. slot'.entries[f] # None
    <3>1. slot'.entries[f] \in Entry
      BY <1>3, <2>4 DEF TypeOK, Entry
    <3>2. QED
      BY <3>1, EntryAssumption
  <2>6. QED
    BY <1>6, <1>8, <2>3, <2>4, <2>5
<1>9. CASE g # f
  <2>1. pc[g] = "done"
    BY <1>3, <1>4, <1>7, <1>9 DEF TypeOK
  <2>2. out'[g] = out[g]
    BY <1>6, <2>1
  <2>3. /\ slot.entries[g] # None /\ slot.entries[g].broadcast
        /\ slot.entries[g].spent = picked[g] /\ slot.entries[g].out = out[g]
    BY <1>7, <2>1, <2>2 DEF Held
  <2>4. ~Aged(slot.entries[g])
    <3>1. slot.entries[g].at \in Nat
      BY <1>2, <2>3 DEF Pending, Entry
    <3>2. QED
      BY <1>7, <3>1 DEF Aged
  <2>5. ~Settled(slot.entries[g], scan[f])
    BY <1>3, <1>7, <2>2, <2>3 DEF OffChain, Settled
  <2>6. slot'.entries[g] = slot.entries[g]
    BY <1>2, <1>3, <1>4, <1>9, <2>3, <2>4, <2>5, EntryStays
  <2>7. QED
    BY <2>2, <2>3, <2>6
<1>10. QED
  BY <1>8, <1>9

(* A send comes to its end only by a save.                                  *)
LEMMA DoneBefore ==
  ASSUME TypeOK, QueuesHold, OnlyCancelsRemove, [Next]_vars, \A w \in Window : ~Save(w),
         NEW f \in Flow, kind'[f] = "send", pc'[f] = "done"
  PROVE  kind[f] = "send" /\ pc[f] = "done" /\ picked'[f] = picked[f]
<1> DEFINE Before == kind[f] = "send" /\ pc[f] = "done" /\ picked'[f] = picked[f]
<1>1. ASSUME NEW g \in Flow, Select(g)
      PROVE  Before
  <2>1. PICK p \in {slot, Empty} : Chooses(g, scan[g] \ PendingSpent(p))
    BY <1>1 DEF Select
  <2>2. PICK next \in {"failed", "reserve", "seed"} : pc' = [pc EXCEPT ![g] = next]
    BY <2>1 DEF Chooses
  <2>3. g # f
    BY <2>2 DEF TypeOK
  <2>4. picked'[f] = picked[f]
    <3>1. PICK inputs : picked' = [picked EXCEPT ![g] = inputs]
      BY <2>1 DEF Chooses
    <3>2. QED
      BY <2>3, <3>1 DEF TypeOK
  <2>5. QED
    BY <1>1, <2>2, <2>3, <2>4 DEF Select, TypeOK
<1>2. ASSUME NEW g \in Flow, Broadcast(g)
      PROVE  Before
  <2>1. PICK next \in {"record", "out"} : pc' = [pc EXCEPT ![g] = next]
    BY <1>2, Zenon DEF Broadcast
  <2>2. QED
    BY <1>2, <2>1 DEF Broadcast, flowVars, TypeOK
<1>3. ASSUME NEW g \in Flow, Check(g)
      PROVE  Before
  <2>1. PICK next : pc' = [pc EXCEPT ![g] = next]
    BY <1>3 DEF Check
  <2>2. kind[g] = "cancel" /\ UNCHANGED <<kind, picked>>
    BY <1>3 DEF Check, OnlyCancelsRemove, flowVars
  <2>3. g # f
    BY <2>2
  <2>4. QED
    BY <2>1, <2>2, <2>3 DEF TypeOK
<1>4. ASSUME NEW g \in Flow, NEW w \in Window, Start(g, w) \/ Finalise(g, w)
      PROVE  Before
  BY <1>4 DEF Start, Finalise, TypeOK
<1>5. ASSUME NEW g \in Flow, NEW h \in Flow, NEW w \in Window, Cancel(g, h, w)
      PROVE  Before
  BY <1>5 DEF Cancel, TypeOK
<1>6. ASSUME NEW w \in Window, SaveRejected(w)
      PROVE  Before
  <2>1. PICK g : g = Head(queue[w])
    OBVIOUS
  <2>2. g \in Flow /\ UNCHANGED <<kind, picked>>
    BY <1>6, <2>1, SavesFlow DEF SaveRejected, flowVars
  <2>3. pc' = [pc EXCEPT ![g] = IF pc[g] # "record" THEN "failed"
                                ELSE IF kind[g] = "send" THEN "out" ELSE "done"]
    BY <1>6, <2>1 DEF SaveRejected, Ends
  <2>4. QED
    BY <2>2, <2>3 DEF TypeOK
<1>7. ASSUME NEW w \in Window, Close(w)
      PROVE  Before
  BY <1>7 DEF Close, flowVars
<1>8. CASE UNCHANGED <<pc, kind, picked>>
  BY <1>8
<1>9. QED
  BY <1>1, <1>2, <1>3, <1>4, <1>5, <1>6, <1>7, <1>8
     DEF Next, vars, flowVars, Enqueue, SenderBroadcasts, Mine, Load, WeekPasses

LEMMA HeldStep ==
  ASSUME \A v, w \in Window : v = w,
         TypeOK, TypeOK', QueuesHold, OnlyCancelsRemove, HeldInv, [Next]_vars
  PROVE  HeldInv'
<1> SUFFICES ASSUME ~misread'
             PROVE  (LoadedIsStored /\ BelowCounter /\ OutsApart /\ OffChain /\ Held)'
  BY DEF HeldInv
<1>1. LoadedIsStored /\ BelowCounter /\ OutsApart /\ OffChain /\ Held /\ ~misread
  BY MisreadStays DEF HeldInv
<1>2. LoadedIsStored'
  BY <1>1, LoadedStep
<1>3. BelowCounter' /\ OutsApart' /\ OffChain'
  BY <1>1, OutsStep
<1>4. CASE \E w \in Window : Save(w)
  BY <1>1, <1>2, <1>3, <1>4, SaveHolds
<1>5. ASSUME \A w \in Window : ~Save(w)
      PROVE  Held'
  <2>1. slot' = slot /\ out' = out
    BY <1>5, ChainStep
  <2>2. week' = 0 => week = 0
    <3>1. week' = week \/ week' = week + 1
      BY <1>5 DEF Next, vars, flowVars, Enqueue, Select, Broadcast, SenderBroadcasts, Mine,
         Check, Start, Finalise, Cancel, Load, SaveRejected, Close, WeekPasses
    <3>2. QED
      BY <3>1 DEF TypeOK
  <2>3. ASSUME NEW f \in Flow, kind'[f] = "send", pc'[f] = "done", tx'[f] # "mined",
               out'[f] # {}, week' = 0
        PROVE  /\ slot'.entries[f] # None /\ slot'.entries[f].broadcast
               /\ slot'.entries[f].spent = picked'[f] /\ slot'.entries[f].out = out'[f]
    <3>1. kind[f] = "send" /\ pc[f] = "done" /\ picked'[f] = picked[f]
      BY <1>5, <2>3, DoneBefore
    <3>2. tx[f] # "mined"
      BY <2>3, MinedStays
    <3>3. QED
      BY <1>1, <2>1, <2>2, <2>3, <3>1, <3>2 DEF Held
  <2>4. QED
    BY <2>3 DEF Held
<1>6. QED
  BY <1>2, <1>3, <1>4, <1>5

(* One window, a wallet that kept its counter: as long as no read has       *)
(* failed, what a recorded broadcast spends is held back until it is mined  *)
(* or the week is over, whatever else the window reconciles, cancels,       *)
(* reserves or sends, whatever closes, fails or is lost.                    *)
THEOREM BroadcastStays ==
  ASSUME \A v, w \in Window : v = w
  PROVE  slot.next = Confirmed /\ Spec => []BroadcastHeld
<1>1. Init /\ slot.next = Confirmed => Delivered /\ OnlyCancelsRemove /\ HeldInv
  <2> SUFFICES ASSUME Init, slot.next = Confirmed
               PROVE  Delivered /\ OnlyCancelsRemove /\ HeldInv
    OBVIOUS
  <2>1. Delivered
    <3>1. QueuesHold
      BY DEF Init, QueuesHold, Waiting
    <3>2. RecordedSent /\ CancelsDelivered
      BY NoneAssumption DEF Init, Kind, RecordedSent, CancelsDelivered
    <3>3. QED
      BY <3>1, <3>2 DEF Delivered
  <2>2. OnlyCancelsRemove
    BY DEF Init, OnlyCancelsRemove
  <2>3. BelowCounter
    BY BoundAssumption DEF Init, BelowCounter
  <2>4. LoadedIsStored /\ OutsApart /\ OffChain /\ Held
    BY DEF Init, LoadedIsStored, OutsApart, OffChain, Held
  <2>5. QED
    BY <2>1, <2>2, <2>3, <2>4 DEF HeldInv
<1>2. TypeOK /\ TypeOK' /\ (Delivered /\ OnlyCancelsRemove /\ HeldInv) /\ [Next]_vars
        => (Delivered /\ OnlyCancelsRemove /\ HeldInv)'
  BY DeliveredStep, CancelsRemoveStep, HeldStep DEF Delivered
<1>3. TypeOK /\ HeldInv => BroadcastHeld
  <2> SUFFICES ASSUME TypeOK, HeldInv, ~misread,
                      NEW f \in Flow, kind[f] = "send", pc[f] = "done", tx[f] = "sent",
                      out[f] # {}, week = 0
               PROVE  picked[f] \subseteq PendingSpent(slot)
    BY DEF BroadcastHeld
  <2>1. slot.entries[f] # None /\ slot.entries[f].spent = picked[f]
    BY DEF HeldInv, Held
  <2>2. QED
    BY <2>1 DEF PendingSpent
<1>4. QED
  BY <1>1, <1>2, <1>3, TypeCorrect, PTL DEF Spec

-------------------------------------------------------------------------------
(* The lock: what WalletLockProofs proves of WalletLock holds of the windows  *)
(* as a whole, since no step of the overlay touches what is the lock's.       *)
LockProofs == INSTANCE WalletLockProofs WITH Window <- WalletWindow, Scenario <- Locking

(* The two names of its initial states, and of its steps, stand for the same. *)
LEMMA SameInit == Locks!Init <=> LockProofs!Init
  BY Zenon DEF
    Locks!Init, Locks!Slot, Locks!Idle, LockProofs!Init, LockProofs!Slot, LockProofs!Idle

LEMMA SameNext == Locks!Next <=> LockProofs!Next
  BY Zenon DEF
    Locks!Next, Locks!Open, Locks!Close, Locks!Unlock, Locks!PopOut, Locks!Lock, Locks!Restore,
    Locks!Write, Locks!PopsOut, Locks!LockAnswered, Locks!LockDone, Locks!Deliver,
    Locks!Refreshes, Locks!Idle, Locks!Closed, Locks!Goes, Locks!ReadLock, Locks!OnlyTask,
    Locks!Revoked, Locks!PublishedLock, Locks!GraceRead, Locks!GraceEpoch, Locks!GraceState,
    Locks!GraceAdmit, Locks!State, Locks!Epoch, Locks!Handoff, Locks!StaleHandoff,
    Locks!NextSlot, Locks!Cache, Locks!EntryState, Locks!Admit, Locks!Unlocked, Locks!Minutes,
    Locks!Cleared, Locks!Existing, Locks!Secrets, Locks!Put, Locks!Written,
    Locks!FinishOutlived, Locks!Unwrite, Locks!Finish, Locks!At, Locks!Outlived, Locks!Refresh,
    Locks!Removed, Locks!Slot, Locks!RefreshesIfIdle, Locks!Restoring, Locks!Fresh, Locks!Goto,
    Locks!TaskAndSlots, Locks!ReadAgain, Locks!Admits, Locks!TaskAndWallet,
    Locks!CanRestoreLocalSession, Locks!Ends, Locks!ReadSlot, Locks!Fails, Locks!Usable,
    Locks!Mine, Locks!Admissible, LockProofs!Next, LockProofs!Open, LockProofs!Close,
    LockProofs!Unlock, LockProofs!PopOut, LockProofs!Lock, LockProofs!Restore,
    LockProofs!Write, LockProofs!PopsOut, LockProofs!LockAnswered, LockProofs!LockDone,
    LockProofs!Deliver, LockProofs!Refreshes, LockProofs!Idle, LockProofs!Closed,
    LockProofs!Goes, LockProofs!ReadLock, LockProofs!OnlyTask, LockProofs!Revoked,
    LockProofs!PublishedLock, LockProofs!GraceRead, LockProofs!GraceEpoch,
    LockProofs!GraceState, LockProofs!GraceAdmit, LockProofs!State, LockProofs!Epoch,
    LockProofs!Handoff, LockProofs!StaleHandoff, LockProofs!NextSlot, LockProofs!Cache,
    LockProofs!EntryState, LockProofs!Admit, LockProofs!Unlocked, LockProofs!Minutes,
    LockProofs!Cleared, LockProofs!Existing, LockProofs!Secrets, LockProofs!Put,
    LockProofs!Written, LockProofs!FinishOutlived, LockProofs!Unwrite, LockProofs!Finish,
    LockProofs!At, LockProofs!Outlived, LockProofs!Refresh, LockProofs!Removed,
    LockProofs!Slot, LockProofs!RefreshesIfIdle, LockProofs!Restoring, LockProofs!Fresh,
    LockProofs!Goto, LockProofs!TaskAndSlots, LockProofs!ReadAgain, LockProofs!Admits,
    LockProofs!TaskAndWallet, LockProofs!CanRestoreLocalSession, LockProofs!Ends,
    LockProofs!ReadSlot, LockProofs!Fails, LockProofs!Usable, LockProofs!Mine,
    LockProofs!Admissible

LEMMA LocksAsBefore == WindowsSpec => LockProofs!Spec
<1>1. WindowsInit => LockProofs!Init
  BY SameInit DEF WindowsInit
<1>2. [WindowsNext]_<<part, vars, locks>> => [LockProofs!Next]_(LockProofs!vars)
  BY SameNext DEF WindowsNext, locks, LockProofs!vars
<1> QED BY <1>1, <1>2, PTL DEF WindowsSpec, LockProofs!Spec

(* LockHolds: a window that has heard of every lock holds keys only from a    *)
(* password entered since the last, for any windows, approval windows and     *)
(* bounds, if a storage event is not overtaken by a later answer.             *)
THEOREM LocksHold ==
  ASSUME Ordered
  PROVE  WindowsSpec => []LockHolds
<1>1. LockProofs!Spec => []LockProofs!LockHolds
  BY LockProofs!LocksHold
<1>2. LockHolds <=> LockProofs!LockHolds
  BY DEF LockHolds, Locks!LockHolds, LockProofs!LockHolds
<1> QED BY <1>1, <1>2, LocksAsBefore, PTL

(* UnpublishedStaysLocked: a window whose own lock could not be published     *)
(* holds only keys its user entered the password for, whatever the order of   *)
(* storage events and answers.                                                *)
THEOREM StaysLocked == WindowsSpec => []UnpublishedStaysLocked
<1>1. LockProofs!Spec => []LockProofs!UnpublishedStaysLocked
  BY LockProofs!StaysLocked
<1>2. UnpublishedStaysLocked <=> LockProofs!UnpublishedStaysLocked
  BY DEF UnpublishedStaysLocked, Locks!UnpublishedStaysLocked, LockProofs!UnpublishedStaysLocked
<1> QED BY <1>1, <1>2, LocksAsBefore, PTL

(* NoRevokedKeysAtRest: with everything settled, what the slots hold is of    *)
(* the last lock, for any windows, approval windows and bounds, if a storage  *)
(* event is not overtaken by a later answer and no window closes in the       *)
(* middle of a task (which the invariant says itself) or pops out in the      *)
(* middle of its own lock.                                                    *)
THEOREM RevokedKeysCleared ==
  ASSUME Ordered, Locking \subseteq LockProofs!Bounds
  PROVE  WindowsSpec /\ [][LockProofs!PopsOutBetweenLocks]_<<part, vars, locks>>
           => []NoRevokedKeysAtRest
<1>1. LockProofs!Spec /\ [][LockProofs!PopsOutBetweenLocks]_(LockProofs!vars)
        => []LockProofs!NoRevokedKeysAtRest
  BY LockProofs!RevokedKeysCleared
<1>2. NoRevokedKeysAtRest <=> LockProofs!NoRevokedKeysAtRest
  BY DEF NoRevokedKeysAtRest, Locks!NoRevokedKeysAtRest, LockProofs!NoRevokedKeysAtRest,
     Locks!Quiet, LockProofs!Quiet, Locks!Slot, LockProofs!Slot, Locks!Idle, LockProofs!Idle
<1>3. [LockProofs!PopsOutBetweenLocks]_<<part, vars, locks>>
        => [LockProofs!PopsOutBetweenLocks]_(LockProofs!vars)
  BY DEF locks, LockProofs!vars
<1> QED BY <1>1, <1>2, <1>3, LocksAsBefore, PTL
================================================================================
