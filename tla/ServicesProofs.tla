----------------------------- MODULE ServicesProofs ------------------------------
(****************************************************************************)
(* ReceiveSubaddress: for as long as one window issues addresses, no index  *)
(* is handed out twice and the counter moves one index at a time, for any   *)
(* calls, answers of the server, storage failures and closings.  The        *)
(* invariant says that the only call under way works on the counter as it   *)
(* is stored, and that every index handed out so far is at or below the one *)
(* it started from.  In any number of windows, no index is handed out above *)
(* every ceiling the server has named: a call that has stored, or given up, *)
(* never changes the answer it had.  BackendSession: what                   *)
(* BackendSessionProofs proves, of the services as a whole.                 *)
(****************************************************************************)
EXTENDS Services, SequenceTheorems, TLAPS

UnderWay == {"provisioning", "checking", "writing"}

OnlyHeadWorks == \A k \in Call : pc[k] \in UnderWay => Running(k)

WorksOnStored ==
  \A k \in Call :
    /\ pc[k] \in {"provisioning", "checking"} => observed[k] = slot
    /\ pc[k] = "checking" => next[k].issued \in {slot.issued, slot.issued + 1}
    /\ pc[k] = "writing" => next[k] = slot

HandedOutBelow ==
  \A j, k \in Call :
    Issued(j) => /\ next[j].issued <= slot.issued
                 /\ pc[k] = "writing" => next[j].issued <= observed[k].issued

OneWindowInv == OnlyHeadWorks /\ WorksOnStored /\ HandedOutBelow /\ IndicesAreDistinct

(* Attempts are counted from none: what TypeOK needs to be inductive.       *)
Fresh == \A k \in Call : pc[k] \in {"absent", "queued"} => attempt[k] = 0

-------------------------------------------------------------------------------
(* The counter a call asks to store is a counter. *)
LEMMA MutatedType ==
  ASSUME TypeOK, NEW k \in Call, NEW granted \in Answer
  PROVE  /\ Mutated(k, granted) \in Counter
         /\ Mutated(k, granted).issued \in {observed[k].issued, observed[k].issued + 1}
<1>1. observed[k] \in Counter
  BY DEF TypeOK
<1>2. Ceiling(k, granted) \in Nat
  BY <1>1, BoundAssumption DEF Ceiling, Answer, Counter
<1>3. QED
  BY <1>1, <1>2 DEF Mutated, Candidate, Counter

(* A call that settles leaves the chains sequences of calls. *)
LEMMA EndsType ==
  ASSUME TypeOK, NEW k \in Call, Running(k),
         NEW how \in {"issued", "refused", "failed"}, Ends(k, how)
  PROVE  /\ chain' \in [Window -> Seq(Call)]
         /\ pc' = [pc EXCEPT ![k] = how]
         /\ pc' \in [Call -> {"absent", "queued", "provisioning", "checking", "writing",
                              "issued", "refused", "failed", "dead"}]
<1>1. WindowOf[k] \in Window
  BY WindowAssumption
<1>2. chain[WindowOf[k]] \in Seq(Call) /\ chain[WindowOf[k]] # <<>>
  BY <1>1 DEF TypeOK, Running
<1>3. Tail(chain[WindowOf[k]]) \in Seq(Call)
  BY <1>2, HeadTailProperties
<1>4. QED
  BY <1>1, <1>3 DEF Ends, TypeOK

LEMMA TypeInit == Init => TypeOK /\ Fresh
<1>1. NothingIssued \in Counter
  BY DEF NothingIssued, Counter
<1>2. QED
  BY <1>1, BoundAssumption DEF Init, TypeOK, Fresh, Answer

LEMMA TypeStep == TypeOK /\ Fresh /\ [Next]_vars => TypeOK' /\ Fresh'
<1> SUFFICES ASSUME TypeOK, Fresh, [Next]_vars
             PROVE  TypeOK' /\ Fresh'
  OBVIOUS
<1>1. ASSUME NEW k \in Call, Advance(k)
      PROVE  TypeOK' /\ Fresh'
  <2>1. Append(chain[WindowOf[k]], k) \in Seq(Call)
    BY WindowAssumption, AppendProperties DEF TypeOK
  <2>2. chain' \in [Window -> Seq(Call)]
    BY <1>1, <2>1, WindowAssumption DEF Advance, TypeOK
  <2>3. QED
    BY <1>1, <2>2 DEF Advance, TypeOK, Fresh
<1>2. ASSUME NEW k \in Call, Begin(k)
      PROVE  TypeOK' /\ Fresh'
  <2>1. attempt[k] = 0
    BY <1>2 DEF Begin, Fresh
  <2>2. attempt' \in [Call -> 0..CasAttempts]
    BY <1>2, <2>1, BoundAssumption DEF Begin, Observe, TypeOK
  <2>3. QED
    BY <1>2, <2>2 DEF Begin, Observe, TypeOK, Fresh
<1>3. ASSUME NEW k \in Call, Provisioned(k)
      PROVE  TypeOK' /\ Fresh'
  <2>1. PICK granted \in Answer : /\ answer' = [answer EXCEPT ![k] = granted]
                                  /\ next' = [next EXCEPT ![k] = Mutated(k, granted)]
    BY <1>3 DEF Provisioned
  <2>2. Mutated(k, granted) \in Counter
    BY MutatedType
  <2>3. answer' \in [Call -> Answer] /\ next' \in [Call -> Counter]
    BY <2>1, <2>2 DEF TypeOK
  <2>4. QED
    BY <1>3, <2>3 DEF Provisioned, TypeOK, Fresh
<1>4. ASSUME NEW k \in Call, Commit(k)
      PROVE  TypeOK' /\ Fresh'
  BY <1>4 DEF Commit, TypeOK, Fresh
<1>5. ASSUME NEW k \in Call, Contended(k)
      PROVE  TypeOK' /\ Fresh'
  <2>1. CASE attempt[k] < CasAttempts /\ Observe(k) /\ UNCHANGED chain
    <3>1. attempt' \in [Call -> 0..CasAttempts]
      BY <2>1, BoundAssumption DEF Observe, TypeOK
    <3>2. QED
      BY <1>5, <2>1, <3>1 DEF Contended, Observe, TypeOK, Fresh
  <2>2. CASE Ends(k, "failed") /\ UNCHANGED <<observed, attempt>>
    <3>1. chain' \in [Window -> Seq(Call)] /\ pc' = [pc EXCEPT ![k] = "failed"]
      BY <1>5, <2>2, EndsType DEF Contended
    <3>2. QED
      BY <1>5, <2>2, <3>1 DEF Contended, TypeOK, Fresh
  <2>3. QED
    BY <1>5, <2>1, <2>2 DEF Contended
<1>6. ASSUME NEW k \in Call, Settle(k)
      PROVE  TypeOK' /\ Fresh'
  <2>1. PICK how \in {"issued", "refused"} : Ends(k, how)
    BY <1>6 DEF Settle
  <2>2. chain' \in [Window -> Seq(Call)] /\ pc' = [pc EXCEPT ![k] = how]
    BY <1>6, <2>1, EndsType DEF Settle
  <2>3. QED
    BY <1>6, <2>2 DEF Settle, TypeOK, Fresh
<1>7. ASSUME NEW k \in Call, StorageFails(k)
      PROVE  TypeOK' /\ Fresh'
  <2>1. chain' \in [Window -> Seq(Call)] /\ pc' = [pc EXCEPT ![k] = "failed"]
    BY <1>7, EndsType DEF StorageFails
  <2>2. failures' \in 0..MaxFailures
    BY <1>7, BoundAssumption DEF StorageFails, TypeOK
  <2>3. QED
    BY <1>7, <2>1, <2>2 DEF StorageFails, TypeOK, Fresh
<1>8. ASSUME NEW w \in Window, Close(w)
      PROVE  TypeOK' /\ Fresh'
  BY <1>8 DEF Close, TypeOK, Fresh
<1>9. CASE UNCHANGED vars
  BY <1>9 DEF vars, TypeOK, Fresh
<1>10. QED
  BY <1>1, <1>2, <1>3, <1>4, <1>5, <1>6, <1>7, <1>8, <1>9 DEF Next, Proceed

(* Every variable keeps its shape, and no call counts more attempts than    *)
(* CAS_ATTEMPTS.                                                            *)
THEOREM TypeCorrect == Spec => [](TypeOK /\ Fresh)
<1>1. Init => TypeOK /\ Fresh
  BY TypeInit
<1>2. (TypeOK /\ Fresh) /\ [Next]_vars => (TypeOK /\ Fresh)'
  BY TypeStep
<1>3. QED
  BY <1>1, <1>2, PTL DEF Spec

-------------------------------------------------------------------------------
(* In one window, there is at most one call under way. *)
LEMMA OneWorks ==
  ASSUME OneWindow, OnlyHeadWorks,
         NEW j \in Call, NEW k \in Call, pc[j] \in UnderWay, Running(k), pc[k] # "absent"
  PROVE  j = k
<1>1. WindowOf[j] = WindowOf[k]
  BY DEF OneWindow, UnderWay
<1>2. QED
  BY <1>1 DEF OnlyHeadWorks, Running

(* The counter a call stores is the stored one, or one index further. *)
LEMMA CommitStep ==
  ASSUME OneWindowInv, TypeOK, NEW k \in Call, Commit(k)
  PROVE  slot' = next[k] /\ slot'.issued \in {slot.issued, slot.issued + 1}
BY DEF OneWindowInv, WorksOnStored, Commit, TypeOK

LEMMA OneWindowInit == Init => OneWindowInv
BY DEF Init, OneWindowInv, OnlyHeadWorks, WorksOnStored, HandedOutBelow,
       IndicesAreDistinct, Issued, UnderWay

(* A step that leaves the stored counter, what the calls want to store and  *)
(* who works alone, and hands out nothing.                                  *)
LEMMA NothingHandedOut ==
  ASSUME OneWindowInv, UNCHANGED <<slot, next, observed>>,
         \A k \in Call : /\ pc'[k] \in UnderWay => pc[k] = pc'[k] /\ Running(k)'
                         /\ Issued(k)' => Issued(k)
  PROVE  OneWindowInv'
BY DEF OneWindowInv, OnlyHeadWorks, WorksOnStored, HandedOutBelow, IndicesAreDistinct, Issued, UnderWay

(* A call that settles was the only one under way. *)
LEMMA NobodyElse ==
  ASSUME OneWindow, OneWindowInv, TypeOK, NEW k \in Call, Running(k), pc[k] # "absent",
         NEW how \in {"issued", "refused", "failed"}, pc' = [pc EXCEPT ![k] = how]
  PROVE  \A j \in Call : pc'[j] \notin UnderWay
<1> SUFFICES ASSUME NEW j \in Call, pc'[j] \in UnderWay
             PROVE  FALSE
  OBVIOUS
<1>1. j # k
  BY DEF UnderWay, TypeOK
<1>2. pc[j] \in UnderWay
  BY <1>1 DEF TypeOK
<1>3. QED
  BY <1>1, <1>2, OneWorks DEF OneWindowInv

LEMMA OneWindowStep ==
  ASSUME OneWindow, OneWindow', TypeOK, OneWindowInv, [Next]_vars
  PROVE  OneWindowInv'
<1>1. ASSUME NEW k \in Call, Advance(k)
      PROVE  OneWindowInv'
  <2>1. \A j \in Call : Running(j) /\ pc[j] # "absent" => Running(j)'
    <3> SUFFICES ASSUME NEW j \in Call, Running(j), pc[j] # "absent"
                 PROVE  Running(j)'
      OBVIOUS
    <3>1. WindowOf[j] = WindowOf[k] /\ WindowOf[j] \in Window
      BY <1>1, WindowAssumption DEF OneWindow, Advance, TypeOK
    <3>2. chain[WindowOf[j]] \in Seq(Call) /\ chain[WindowOf[j]] # <<>>
      BY <3>1 DEF TypeOK, Running
    <3>3. chain'[WindowOf[j]] = Append(chain[WindowOf[j]], k)
      BY <1>1, <3>1 DEF Advance, TypeOK
    <3>4. Append(chain[WindowOf[j]], k) # <<>>
          /\ Head(Append(chain[WindowOf[j]], k)) = Head(chain[WindowOf[j]])
      BY <3>2, AppendProperties
    <3>5. QED
      BY <3>3, <3>4 DEF Running
  <2>2. \A j \in Call : /\ pc'[j] \in UnderWay => pc[j] = pc'[j] /\ Running(j)'
                        /\ Issued(j)' => Issued(j)
    BY <1>1, <2>1 DEF Advance, TypeOK, UnderWay, Issued, OneWindowInv, OnlyHeadWorks
  <2>3. QED
    BY <1>1, <2>2, NothingHandedOut DEF Advance
<1>2. ASSUME NEW k \in Call, pc[k] = "queued" \/ pc[k] = "checking", Running(k), Observe(k),
             UNCHANGED <<slot, chain, still, next, answer, heard, failures>>
      PROVE  OneWindowInv'
  <2>1. \A j \in Call : j # k => pc'[j] \notin UnderWay
    BY <1>2, OneWorks DEF Observe, TypeOK, OneWindowInv
  <2>2. pc'[k] = "provisioning" /\ observed'[k] = slot /\ Running(k)'
    BY <1>2 DEF Observe, TypeOK, Running
  <2>3. \A j \in Call : Issued(j)' => Issued(j)
    BY <1>2 DEF Observe, TypeOK, Issued
  <2>4. OnlyHeadWorks'
    BY <2>1, <2>2 DEF OnlyHeadWorks
  <2>5. WorksOnStored'
    BY <1>2, <2>1, <2>2 DEF WorksOnStored, UnderWay
  <2>6. HandedOutBelow'
    BY <1>2, <2>1, <2>2, <2>3 DEF HandedOutBelow, OneWindowInv, UnderWay
  <2>7. IndicesAreDistinct'
    BY <1>2, <2>3 DEF IndicesAreDistinct, OneWindowInv, Issued
  <2>8. QED
    BY <2>4, <2>5, <2>6, <2>7 DEF OneWindowInv
<1>3. ASSUME NEW k \in Call, Provisioned(k)
      PROVE  OneWindowInv'
  <2>1. PICK granted \in Answer : next' = [next EXCEPT ![k] = Mutated(k, granted)]
    BY <1>3 DEF Provisioned
  <2>2. observed[k] = slot
    BY <1>3 DEF Provisioned, OneWindowInv, WorksOnStored
  <2>3. next'[k].issued \in {slot.issued, slot.issued + 1}
    BY <2>1, <2>2, MutatedType DEF TypeOK
  <2>4. \A j \in Call : j # k => next'[j] = next[j]
    BY <2>1 DEF TypeOK
  <2>5. \A j \in Call : j # k => pc'[j] \notin UnderWay
    BY <1>3, OneWorks DEF Provisioned, TypeOK, OneWindowInv
  <2>6. pc'[k] = "checking" /\ Running(k)' /\ UNCHANGED <<slot, observed>>
    BY <1>3 DEF Provisioned, TypeOK, Running
  <2>7. \A j \in Call : Issued(j)' => Issued(j) /\ j # k
    BY <1>3 DEF Provisioned, TypeOK, Issued
  <2>8. OnlyHeadWorks'
    BY <2>5, <2>6 DEF OnlyHeadWorks
  <2>9. WorksOnStored'
    BY <2>2, <2>3, <2>5, <2>6 DEF WorksOnStored, UnderWay
  <2>10. HandedOutBelow'
    BY <2>4, <2>5, <2>6, <2>7 DEF HandedOutBelow, OneWindowInv, UnderWay
  <2>11. IndicesAreDistinct'
    BY <2>4, <2>7 DEF IndicesAreDistinct, OneWindowInv, Issued
  <2>12. QED
    BY <2>8, <2>9, <2>10, <2>11 DEF OneWindowInv
<1>4. ASSUME NEW k \in Call, Commit(k)
      PROVE  OneWindowInv'
  <2>1. slot' = next[k] /\ slot'.issued \in {slot.issued, slot.issued + 1}
    BY <1>4, CommitStep
  <2>2. observed[k] = slot
    BY <1>4 DEF Commit, OneWindowInv, WorksOnStored
  <2>3. \A j \in Call : j # k => pc'[j] \notin UnderWay
    BY <1>4, OneWorks DEF Commit, TypeOK, OneWindowInv
  <2>4. pc'[k] = "writing" /\ Running(k)' /\ UNCHANGED <<next, observed>>
    BY <1>4 DEF Commit, TypeOK, Running
  <2>5. \A j \in Call : Issued(j)' => Issued(j) /\ next[j].issued <= slot.issued
    BY <1>4 DEF Commit, TypeOK, Issued, OneWindowInv, HandedOutBelow
  <2>6. slot.issued \in Nat /\ \A j \in Call : next[j].issued \in Nat
    BY DEF TypeOK, Counter
  <2>7. OnlyHeadWorks'
    BY <2>3, <2>4 DEF OnlyHeadWorks
  <2>8. WorksOnStored'
    BY <2>1, <2>3, <2>4 DEF WorksOnStored, UnderWay
  <2>9. \A j \in Call : Issued(j)' => next'[j].issued <= slot'.issued
    BY <2>1, <2>4, <2>5, <2>6
  <2>10. \A i, j \in Call : Issued(j)' /\ pc'[i] = "writing" => next'[j].issued <= observed'[i].issued
    BY <2>2, <2>3, <2>4, <2>5 DEF UnderWay
  <2>11. HandedOutBelow'
    BY <2>9, <2>10 DEF HandedOutBelow
  <2>12. IndicesAreDistinct'
    BY <2>4, <2>5 DEF IndicesAreDistinct, OneWindowInv
  <2>13. QED
    BY <2>7, <2>8, <2>11, <2>12 DEF OneWindowInv
<1>5. ASSUME NEW k \in Call, NEW how \in {"refused", "failed"}, Running(k), pc[k] # "absent",
             Ends(k, how), UNCHANGED <<slot, next, observed>>
      PROVE  OneWindowInv'
  <2>1. pc' = [pc EXCEPT ![k] = how]
    BY <1>5 DEF Ends
  <2>2. \A j \in Call : pc'[j] \notin UnderWay
    BY <1>5, <2>1, NobodyElse
  <2>3. \A j \in Call : Issued(j)' => Issued(j)
    BY <2>1 DEF Issued, TypeOK
  <2>4. QED
    BY <1>5, <2>2, <2>3, NothingHandedOut
<1>6. ASSUME NEW k \in Call, Settle(k), next[k].issued = Candidate(k)
      PROVE  OneWindowInv'
  <2>1. pc' = [pc EXCEPT ![k] = "issued"] /\ UNCHANGED <<slot, next, observed>>
    BY <1>6 DEF Settle, Ends
  <2>2. \A j \in Call : pc'[j] \notin UnderWay
    BY <1>6, <2>1, NobodyElse DEF Settle
  <2>3. next[k] = slot /\ next[k].issued = observed[k].issued + 1
    BY <1>6 DEF Settle, Candidate, OneWindowInv, WorksOnStored
  <2>4. \A j \in Call : Issued(j)' => j = k \/ (Issued(j) /\ next[j].issued <= observed[k].issued)
    BY <1>6, <2>1 DEF Settle, Issued, TypeOK, OneWindowInv, HandedOutBelow
  <2>5. \A j \in Call : next[j].issued \in Nat /\ observed[j].issued \in Nat
    BY DEF TypeOK, Counter
  <2>6. OnlyHeadWorks'
    BY <2>2 DEF OnlyHeadWorks
  <2>7. WorksOnStored'
    BY <2>2 DEF WorksOnStored, UnderWay
  <2>8. HandedOutBelow'
    BY <2>1, <2>2, <2>3, <2>4, <2>5 DEF HandedOutBelow, UnderWay
  <2>9. IndicesAreDistinct'
    BY <2>1, <2>3, <2>4, <2>5 DEF IndicesAreDistinct, OneWindowInv
  <2>10. QED
    BY <2>6, <2>7, <2>8, <2>9 DEF OneWindowInv
<1>7. ASSUME NEW w \in Window, Close(w)
      PROVE  OneWindowInv'
  <2>1. \A k \in Call : pc'[k] \in UnderWay => pc[k] = pc'[k] /\ WindowOf[k] # w
    BY <1>7 DEF Close, UnderWay
  <2>2. \A k \in Call : /\ pc'[k] \in UnderWay => pc[k] = pc'[k] /\ Running(k)'
                        /\ Issued(k)' => Issued(k)
    BY <1>7, <2>1, WindowAssumption DEF Close, Issued, Running, TypeOK, OneWindowInv, OnlyHeadWorks
  <2>3. QED
    BY <1>7, <2>2, NothingHandedOut DEF Close
<1>8. CASE UNCHANGED vars
  BY <1>8 DEF vars, OneWindowInv, OnlyHeadWorks, WorksOnStored, HandedOutBelow,
              IndicesAreDistinct, Issued, Running
<1>9. ASSUME NEW k \in Call, Contended(k)
      PROVE  OneWindowInv'
  <2>1. CASE Observe(k) /\ UNCHANGED chain
    BY <1>9, <2>1, <1>2 DEF Contended
  <2>2. CASE Ends(k, "failed") /\ UNCHANGED <<observed, attempt>>
    BY <1>9, <2>2, <1>5 DEF Contended
  <2>3. QED
    BY <1>9, <2>1, <2>2 DEF Contended
<1>10. ASSUME NEW k \in Call, Settle(k)
       PROVE  OneWindowInv'
  <2>1. CASE next[k].issued # Candidate(k)
    <3>1. Ends(k, "refused") /\ Running(k) /\ pc[k] = "writing" /\ UNCHANGED <<slot, next, observed>>
      BY <1>10, <2>1 DEF Settle
    <3>2. QED
      BY <3>1, <1>5
  <2>2. QED
    BY <1>10, <2>1, <1>6
<1>11. ASSUME NEW k \in Call, Begin(k)
       PROVE  OneWindowInv'
  BY <1>11, <1>2 DEF Begin
<1>12. ASSUME NEW k \in Call, StorageFails(k)
       PROVE  OneWindowInv'
  BY <1>12, <1>5 DEF StorageFails
<1>13. QED
  BY <1>1, <1>3, <1>4, <1>7, <1>8, <1>9, <1>10, <1>11, <1>12 DEF Next, Proceed

(* Calls are never unmade: what one window did alone, it did alone before.  *)
LEMMA OneWindowBefore ==
  ASSUME TypeOK, [Next]_vars, OneWindow'
  PROVE  OneWindow
<1>1. \A k \in Call : pc[k] # "absent" => pc'[k] # "absent"
  BY DEF Next, Proceed, Advance, Begin, Observe, Provisioned, Commit, Contended, Settle, StorageFails,
     Ends, Close, vars, TypeOK
<1>2. QED
  BY <1>1 DEF OneWindow

LEMMA AloneInductive ==
  /\ Init => TypeOK /\ Fresh /\ (OneWindow => OneWindowInv)
  /\ (TypeOK /\ Fresh /\ (OneWindow => OneWindowInv)) /\ [Next]_vars
       => (TypeOK /\ Fresh /\ (OneWindow => OneWindowInv))'
<1>1. Init => TypeOK /\ Fresh /\ OneWindowInv
  BY TypeInit, OneWindowInit
<1>2. ASSUME TypeOK, Fresh, OneWindow => OneWindowInv, [Next]_vars
      PROVE  (TypeOK /\ Fresh /\ (OneWindow => OneWindowInv))'
  <2>1. TypeOK' /\ Fresh'
    BY <1>2, TypeStep
  <2>2. ASSUME OneWindow' PROVE OneWindowInv'
    BY <1>2, <2>2, OneWindowBefore, OneWindowStep
  <2>3. QED
    BY <2>1, <2>2
<1>3. QED
  BY <1>1, <1>2

(* For as long as one window issues addresses, no index is handed out       *)
(* twice, however many calls, refusals, failures and closings there are     *)
(* ("Monotonic issuance").                                                  *)
THEOREM OneWindowDistinct == Spec => []DistinctInOneWindow
<1>1. TypeOK /\ Fresh /\ (OneWindow => OneWindowInv) => DistinctInOneWindow
  BY DEF OneWindowInv, DistinctInOneWindow
<1>2. QED
  BY <1>1, AloneInductive, PTL DEF Spec

(* A step changes the stored counter by at most one index. *)
LEMMA AdvancesByOne ==
  ASSUME OneWindowInv, TypeOK, [Next]_vars
  PROVE  [OneIndexAtATime]_vars
<1>1. ASSUME NEW k \in Call, Commit(k)
      PROVE  OneIndexAtATime
  BY <1>1, CommitStep DEF OneIndexAtATime
<1>2. CASE UNCHANGED slot
  BY <1>2 DEF OneIndexAtATime
<1>3. QED
  BY <1>1, <1>2 DEF Next, Proceed, Advance, Begin, Provisioned, Contended, Settle, StorageFails, Close, vars

(* There, the stored counter moves one index at a time and never back: an   *)
(* index is at worst burnt by a window closing, never reused.               *)
THEOREM OneWindowAdvances == Spec => AdvancesInOneWindow
<1>1. (TypeOK /\ Fresh /\ (OneWindow => OneWindowInv)) /\ [Next]_vars
        => [OneWindow' => OneIndexAtATime]_vars
  BY AdvancesByOne, OneWindowBefore
<1>2. QED
  BY <1>1, AloneInductive, PTL DEF Spec, AdvancesInOneWindow

-------------------------------------------------------------------------------
(* Calls that ask the server no more. *)
Answered == {"writing", "issued", "refused", "failed", "dead"}

AnsweredBy(n) == n = 0 \/ \E j \in Call : pc[j] \in Answered /\ answer[j] # NoAnswer /\ answer[j] >= n

(* What a call wants to store is what the gate makes of its last answer.    *)
GateHolds ==
  \A k \in Call : pc[k] = "checking" =>
    /\ next[k].provisionedCeiling = Ceiling(k, answer[k])
    /\ next[k].issued = Candidate(k) => Candidate(k) <= Ceiling(k, answer[k])

CeilingsAnswered ==
  /\ AnsweredBy(slot.provisionedCeiling)
  /\ \A k \in Call : pc[k] \in {"provisioning", "checking"} => AnsweredBy(observed[k].provisionedCeiling)

IndicesAnswered ==
  \A k \in Call :
    /\ pc[k] = "writing" /\ next[k].issued = Candidate(k) => AnsweredBy(next[k].issued)
    /\ Issued(k) => next[k].issued # 0 /\ AnsweredBy(next[k].issued)

AnswerInv == GateHolds /\ CeilingsAnswered /\ IndicesAnswered

(* Whoever asks no more keeps his answer. *)
LEMMA AnswersStay ==
  ASSUME TypeOK, [Next]_vars, NEW n \in Nat, AnsweredBy(n)
  PROVE  AnsweredBy(n)'
<1>1. \A j \in Call : pc[j] \in Answered => pc'[j] \in Answered /\ answer'[j] = answer[j]
  BY DEF Answered, Next, Proceed, Advance, Begin, Observe, Provisioned, Commit, Contended, Settle,
         StorageFails, Ends, Close, vars, TypeOK
<1>2. QED
  BY <1>1 DEF AnsweredBy

LEMMA AnswerInit == Init => AnswerInv
BY DEF Init, AnswerInv, GateHolds, CeilingsAnswered, IndicesAnswered, AnsweredBy, NothingIssued, Issued

(* A step that asks nobody and stores nothing: whoever is at a stage was at *)
(* it before, with the same counters.                                       *)
LEMMA NothingAnswered ==
  ASSUME TypeOK, AnswerInv, [Next]_vars, UNCHANGED <<slot, next, observed, answer>>,
         \A k \in Call : pc'[k] \in {"provisioning", "checking", "writing", "issued"} => pc'[k] = pc[k]
  PROVE  AnswerInv'
<1>1. \A k \in Call : next[k].issued \in Nat /\ observed[k].provisionedCeiling \in Nat
  BY DEF TypeOK, Counter
<1>2. slot.provisionedCeiling \in Nat
  BY DEF TypeOK, Counter
<1>3. GateHolds'
  BY DEF AnswerInv, GateHolds, Ceiling, Candidate
<1>4. CeilingsAnswered'
  BY <1>1, <1>2, AnswersStay DEF AnswerInv, CeilingsAnswered
<1>5. IndicesAnswered'
  BY <1>1, AnswersStay DEF AnswerInv, IndicesAnswered, Issued, Candidate
<1>6. QED
  BY <1>3, <1>4, <1>5 DEF AnswerInv

(* A call that reads the stored counter finds an answered ceiling there. *)
LEMMA ObserveAnswered ==
  ASSUME TypeOK, AnswerInv, [Next]_vars, NEW k \in Call, Observe(k), UNCHANGED <<slot, next, answer>>
  PROVE  AnswerInv'
<1>1. slot.provisionedCeiling \in Nat
      /\ \A j \in Call : next[j].issued \in Nat /\ observed[j].provisionedCeiling \in Nat
  BY DEF TypeOK, Counter
<1>2. observed'[k] = slot /\ pc'[k] = "provisioning"
      /\ \A j \in Call : j # k => observed'[j] = observed[j] /\ pc'[j] = pc[j]
  BY DEF Observe, TypeOK
<1>3. GateHolds'
  BY <1>2 DEF AnswerInv, GateHolds, Ceiling, Candidate
<1>4. CeilingsAnswered'
  BY <1>1, <1>2, AnswersStay DEF AnswerInv, CeilingsAnswered
<1>5. IndicesAnswered'
  BY <1>1, <1>2, AnswersStay DEF AnswerInv, IndicesAnswered, Issued, Candidate
<1>6. QED
  BY <1>3, <1>4, <1>5 DEF AnswerInv

LEMMA AnswerStep ==
  ASSUME TypeOK, AnswerInv, [Next]_vars
  PROVE  AnswerInv'
<1>t. /\ slot.provisionedCeiling \in Nat
      /\ \A j \in Call : /\ next[j].issued \in Nat /\ next[j].provisionedCeiling \in Nat
                         /\ observed[j].issued \in Nat /\ observed[j].provisionedCeiling \in Nat
  BY DEF TypeOK, Counter
<1>1. ASSUME NEW k \in Call, Provisioned(k)
      PROVE  AnswerInv'
  <2>1. PICK granted \in Answer : /\ answer' = [answer EXCEPT ![k] = granted]
                                  /\ next' = [next EXCEPT ![k] = Mutated(k, granted)]
    BY <1>1 DEF Provisioned
  <2>2. pc[k] = "provisioning" /\ pc'[k] = "checking" /\ UNCHANGED <<slot, observed>>
    BY <1>1 DEF Provisioned, TypeOK
  <2>3. \A j \in Call : j # k => pc'[j] = pc[j] /\ next'[j] = next[j] /\ answer'[j] = answer[j]
    BY <1>1, <2>1 DEF Provisioned, TypeOK
  <2>4. answer'[k] = granted /\ next'[k] = Mutated(k, granted)
    BY <2>1 DEF TypeOK
  <2>5. GateHolds'
    <3>1. Mutated(k, granted).provisionedCeiling = Ceiling(k, granted)
          /\ (Mutated(k, granted).issued = Candidate(k) => Candidate(k) <= Ceiling(k, granted))
      BY <1>t, BoundAssumption DEF Mutated, Ceiling, Candidate, Answer
    <3>2. QED
      BY <2>2, <2>3, <2>4, <3>1 DEF AnswerInv, GateHolds, Ceiling, Candidate
  <2>6. CeilingsAnswered'
    BY <1>t, <2>2, <2>3, AnswersStay DEF AnswerInv, CeilingsAnswered
  <2>7. IndicesAnswered'
    BY <1>t, <2>2, <2>3, AnswersStay DEF AnswerInv, IndicesAnswered, Issued, Candidate
  <2>8. QED
    BY <2>5, <2>6, <2>7 DEF AnswerInv
<1>2. ASSUME NEW k \in Call, Commit(k)
      PROVE  AnswerInv'
  <2>1. pc[k] = "checking" /\ pc'[k] = "writing" /\ slot' = next[k] /\ UNCHANGED <<next, observed, answer>>
    BY <1>2 DEF Commit, TypeOK
  <2>2. \A j \in Call : j # k => pc'[j] = pc[j]
    BY <1>2 DEF Commit, TypeOK
  <2>3. next[k].provisionedCeiling = Ceiling(k, answer[k])
        /\ (next[k].issued = Candidate(k) => Candidate(k) <= Ceiling(k, answer[k]))
    BY <2>1 DEF AnswerInv, GateHolds
  <2>4. AnsweredBy(Ceiling(k, answer[k]))'
    <3>1. CASE answer[k] = NoAnswer
      BY <1>t, <2>1, <3>1, AnswersStay DEF AnswerInv, CeilingsAnswered, Ceiling
    <3>2. CASE answer[k] # NoAnswer
      BY <1>t, <2>1, <2>3, <3>2 DEF AnsweredBy, Answered, Ceiling
    <3>3. QED
      BY <3>1, <3>2
  <2>5. Ceiling(k, answer[k]) \in Nat /\ Ceiling(k, answer[k])' = Ceiling(k, answer[k])
    BY <1>t, <2>1, <2>3 DEF Ceiling
  <2>6. next[k].issued = Candidate(k) => AnsweredBy(next[k].issued)'
    <3>1. \A j \in Call : answer[j] # NoAnswer => answer[j] \in Nat
      BY BoundAssumption DEF TypeOK, Answer
    <3>2. Candidate(k) \in Nat \ {0}
      BY <1>t DEF Candidate
    <3>3. QED
      BY <2>1, <2>3, <2>4, <2>5, <3>1, <3>2 DEF AnsweredBy
  <2>7. GateHolds'
    BY <2>1, <2>2 DEF AnswerInv, GateHolds, Ceiling, Candidate
  <2>8. CeilingsAnswered'
    <3>1. AnsweredBy(slot.provisionedCeiling)'
      BY <2>1, <2>3, <2>4, <2>5 DEF AnsweredBy
    <3>2. QED
      BY <1>t, <2>1, <2>2, <3>1, AnswersStay DEF AnswerInv, CeilingsAnswered
  <2>9. IndicesAnswered'
    BY <1>t, <2>1, <2>2, <2>6, AnswersStay DEF AnswerInv, IndicesAnswered, Issued, Candidate
  <2>10. QED
    BY <2>7, <2>8, <2>9 DEF AnswerInv
<1>3. ASSUME NEW k \in Call, Settle(k)
      PROVE  AnswerInv'
  <2>1. pc[k] = "writing" /\ UNCHANGED <<slot, next, observed, answer>>
        /\ pc' = [pc EXCEPT ![k] = IF next[k].issued = Candidate(k) THEN "issued" ELSE "refused"]
    BY <1>3 DEF Settle, Ends
  <2>2. CASE next[k].issued # Candidate(k)
    <3>1. \A j \in Call : pc'[j] \in {"provisioning", "checking", "writing", "issued"} => pc'[j] = pc[j]
      BY <2>1, <2>2 DEF TypeOK
    <3>2. QED
      BY <2>1, <3>1, NothingAnswered
  <2>3. CASE next[k].issued = Candidate(k)
    <3>1. pc'[k] = "issued" /\ \A j \in Call : j # k => pc'[j] = pc[j]
      BY <2>1, <2>3 DEF TypeOK
    <3>2. next[k].issued # 0 /\ AnsweredBy(next[k].issued)
      BY <1>t, <2>1, <2>3 DEF AnswerInv, IndicesAnswered, Candidate
    <3>3. GateHolds'
      BY <2>1, <3>1 DEF AnswerInv, GateHolds, Ceiling, Candidate
    <3>4. CeilingsAnswered'
      BY <1>t, <2>1, <3>1, AnswersStay DEF AnswerInv, CeilingsAnswered
    <3>5. IndicesAnswered'
      BY <1>t, <2>1, <3>1, <3>2, AnswersStay DEF AnswerInv, IndicesAnswered, Issued, Candidate
    <3>6. QED
      BY <3>3, <3>4, <3>5 DEF AnswerInv
  <2>4. QED
    BY <2>2, <2>3
<1>4. ASSUME NEW k \in Call, Advance(k)
      PROVE  AnswerInv'
  BY <1>4, NothingAnswered DEF Advance, TypeOK
<1>5. ASSUME NEW k \in Call, Begin(k)
      PROVE  AnswerInv'
  BY <1>5, ObserveAnswered DEF Begin
<1>6. ASSUME NEW k \in Call, Contended(k)
      PROVE  AnswerInv'
  <2>1. CASE Observe(k)
    BY <1>6, <2>1, ObserveAnswered DEF Contended
  <2>2. CASE Ends(k, "failed") /\ UNCHANGED <<observed, attempt>>
    BY <1>6, <2>2, NothingAnswered DEF Contended, Ends, TypeOK
  <2>3. QED
    BY <1>6, <2>1, <2>2 DEF Contended
<1>7. ASSUME NEW k \in Call, StorageFails(k)
      PROVE  AnswerInv'
  BY <1>7, NothingAnswered DEF StorageFails, Ends, TypeOK
<1>8. ASSUME NEW w \in Window, Close(w)
      PROVE  AnswerInv'
  BY <1>8, NothingAnswered DEF Close, TypeOK
<1>9. CASE UNCHANGED vars
  BY <1>9, NothingAnswered DEF vars
<1>10. QED
  BY <1>1, <1>2, <1>3, <1>4, <1>5, <1>6, <1>7, <1>8, <1>9 DEF Next, Proceed

(* However many windows store over each other's counter, no index is handed *)
(* out above every ceiling the server has named (money gate G4).            *)
THEOREM IssuedWithinAnswers == Spec => []IssuedWithinSomeAnswer
<1>1. Init => TypeOK /\ Fresh /\ AnswerInv
  BY TypeInit, AnswerInit
<1>2. (TypeOK /\ Fresh /\ AnswerInv) /\ [Next]_vars => (TypeOK /\ Fresh /\ AnswerInv)'
  BY TypeStep, AnswerStep
<1>3. TypeOK /\ Fresh /\ AnswerInv => IssuedWithinSomeAnswer
  BY DEF AnswerInv, IndicesAnswered, IssuedWithinSomeAnswer, AnsweredBy
<1>4. QED
  BY <1>1, <1>2, <1>3, PTL DEF Spec

-------------------------------------------------------------------------------
(* The stored ceiling is what the server said last. *)
HeardInv == heard # NoAnswer => slot.provisionedCeiling = heard

LEMMA HeardStep ==
  ASSUME TypeOK, AnswerInv, OneWindowInv, HeardInv, [Next]_vars
  PROVE  HeardInv'
<1>1. ASSUME NEW k \in Call, Commit(k)
      PROVE  HeardInv'
  <2>1. slot' = next[k] /\ next[k].provisionedCeiling = Ceiling(k, answer[k])
    BY <1>1 DEF Commit, AnswerInv, GateHolds
  <2>2. heard' = IF answer[k] # NoAnswer THEN answer[k] ELSE heard
    BY <1>1 DEF Commit
  <2>3. observed[k] = slot
    BY <1>1 DEF Commit, OneWindowInv, WorksOnStored
  <2>4. QED
    BY <2>1, <2>2, <2>3 DEF HeardInv, Ceiling
<1>2. CASE UNCHANGED <<slot, heard>>
  BY <1>2 DEF HeardInv
<1>3. QED
  BY <1>1, <1>2 DEF Next, Proceed, Advance, Begin, Provisioned, Contended, Settle, StorageFails, Close, vars

(* For as long as one window issues addresses, the Receive screen shows no  *)
(* subaddress above what the server answered last: a refusal brings it down *)
(* too.                                                                     *)
THEOREM ShownWithinAnswer == Spec => []ShownWithinLastAnswer
<1> DEFINE Inv == TypeOK /\ Fresh /\ AnswerInv /\ (OneWindow => OneWindowInv /\ HeardInv)
<1>1. Init => Inv
  BY TypeInit, AnswerInit, OneWindowInit DEF Init, HeardInv
<1>2. Inv /\ [Next]_vars => Inv'
  <2> SUFFICES ASSUME Inv, [Next]_vars
               PROVE  Inv'
    OBVIOUS
  <2>1. TypeOK' /\ Fresh' /\ AnswerInv'
    BY TypeStep, AnswerStep
  <2>2. ASSUME OneWindow' PROVE OneWindowInv' /\ HeardInv'
    BY <2>2, OneWindowBefore, OneWindowStep, HeardStep
  <2>3. QED
    BY <2>1, <2>2
<1>3. Inv => ShownWithinLastAnswer
  BY BoundAssumption DEF HeardInv, ShownWithinLastAnswer, Shown, TypeOK, Counter, Answer
<1>4. QED
  BY <1>1, <1>2, <1>3, PTL DEF Spec

--------------------------------------------------------------------------------
(* Sessions: what BackendSessionProofs proves of BackendSession holds of the   *)
(* windows' requests as a whole, since no other part touches a session.        *)
SessionProofs == INSTANCE BackendSessionProofs WITH Scenario <- Sittings

(* The two names of its initial states, and of its steps, stand for the same. *)
LEMMA SameInit == Sessions!Init <=> SessionProofs!Init
  BY Zenon DEF
    Sessions!Init, SessionProofs!Init

LEMMA SameNext == Sessions!Next <=> SessionProofs!Next
  BY Zenon DEF
    Sessions!Next, Sessions!Storage, Sessions!Switching, Sessions!Effects, Sessions!Retry,
    Sessions!Lock, Sessions!LockClears, Sessions!Unlock, Sessions!Choose, Sessions!Refresh,
    Sessions!Works, Sessions!ShowOne, Sessions!Throws, Sessions!RefreshFails,
    Sessions!AdoptCapabilities, Sessions!Booted, Sessions!ReadSelection, Sessions!Follow,
    Sessions!Written, Sessions!DropCache, Sessions!DropSnapshot, Sessions!DropSession,
    Sessions!Refreshed, Sessions!EndSession, Sessions!StartSession, Sessions!Looks,
    Sessions!stored, Sessions!boot, Sessions!client, Sessions!Refreshing, Sessions!ui,
    Sessions!Free, Sessions!Scope, Sessions!Stops, Sessions!Paint, Sessions!Warm,
    Sessions!SignedIn, Sessions!Keep, Sessions!WriteCache, Sessions!Fetch, Sessions!Fetched,
    Sessions!ClearCache, Sessions!ShowError, Sessions!Reconcile, Sessions!Reconciled,
    Sessions!Continues, Sessions!Held, Sessions!SetSession, Sessions!Running, Sessions!Goes,
    Sessions!Ends, Sessions!Current, Sessions!Answer, Sessions!Point, Sessions!Taken,
    Sessions!Proceeds, Sessions!Drops, Sessions!Snapshot, Sessions!Placeholder,
    Sessions!WarmSignIn, Sessions!Merged, SessionProofs!Next, SessionProofs!Storage,
    SessionProofs!Switching, SessionProofs!Effects, SessionProofs!Retry, SessionProofs!Lock,
    SessionProofs!LockClears, SessionProofs!Unlock, SessionProofs!Choose,
    SessionProofs!Refresh, SessionProofs!Works, SessionProofs!ShowOne, SessionProofs!Throws,
    SessionProofs!RefreshFails, SessionProofs!AdoptCapabilities, SessionProofs!Booted,
    SessionProofs!ReadSelection, SessionProofs!Follow, SessionProofs!Written,
    SessionProofs!DropCache, SessionProofs!DropSnapshot, SessionProofs!DropSession,
    SessionProofs!Refreshed, SessionProofs!EndSession, SessionProofs!StartSession,
    SessionProofs!Looks, SessionProofs!stored, SessionProofs!boot, SessionProofs!client,
    SessionProofs!Refreshing, SessionProofs!ui, SessionProofs!Free, SessionProofs!Scope,
    SessionProofs!Stops, SessionProofs!Paint, SessionProofs!Warm, SessionProofs!SignedIn,
    SessionProofs!Keep, SessionProofs!WriteCache, SessionProofs!Fetch, SessionProofs!Fetched,
    SessionProofs!ClearCache, SessionProofs!ShowError, SessionProofs!Reconcile,
    SessionProofs!Reconciled, SessionProofs!Continues, SessionProofs!Held,
    SessionProofs!SetSession, SessionProofs!Running, SessionProofs!Goes, SessionProofs!Ends,
    SessionProofs!Current, SessionProofs!Answer, SessionProofs!Point, SessionProofs!Taken,
    SessionProofs!Proceeds, SessionProofs!Drops, SessionProofs!Snapshot,
    SessionProofs!Placeholder, SessionProofs!WarmSignIn, SessionProofs!Merged

LEMMA SessionsAsBefore == ServicesSpec => SessionProofs!Spec
<1>1. ServicesInit => SessionProofs!Init
  BY SameInit DEF ServicesInit
<1>2. [ServicesNext]_<<part, vars, sessions, approvals>> => [SessionProofs!Next]_(SessionProofs!vars)
  BY SameNext DEF ServicesNext, sessions, SessionProofs!vars, SessionProofs!stored,
     SessionProofs!boot, SessionProofs!client, SessionProofs!ui
<1> QED BY <1>1, <1>2, PTL DEF ServicesSpec, SessionProofs!Spec

LEMMA Assumed == SessionProofs!Assumptions
  BY SessionAssumptions DEF Sessions!Assumptions, Sessions!Budget, Sessions!Switch,
     SessionProofs!Assumptions, SessionProofs!Budget, SessionProofs!Switch

(* ClientFitsBackend: no order of sign-ins, reads and moves has a window       *)
(* present a token, or use a relay, of a backend other than the one it points  *)
(* at, nor caches a token as of another, for any windows, backends and runs.   *)
THEOREM ClientFits == ServicesSpec => []ClientFitsBackend
<1>1. SessionProofs!Spec => []SessionProofs!ClientFitsBackend
  BY Assumed, SessionProofs!ClientFits
<1>2. ClientFitsBackend <=> SessionProofs!ClientFitsBackend
  BY DEF ClientFitsBackend, Sessions!ClientFitsBackend, SessionProofs!ClientFitsBackend
<1> QED BY <1>1, <1>2, SessionsAsBefore, PTL

(* NumbersFitBackend: where no refresh is under way at a switch, no window     *)
(* shows, once the switch is over, figures of another backend than its own,    *)
(* nor does the snapshot name another, for any windows, backends and runs.     *)
THEOREM NumbersFit ==
  ASSUME \A s \in Sittings : ~s.overlap
  PROVE  ServicesSpec => []NumbersFitBackend
<1>1. SessionProofs!Spec => []SessionProofs!NumbersFitBackend
  BY Assumed, SessionProofs!NumbersFit
<1>2. NumbersFitBackend <=> SessionProofs!NumbersFitBackend
  BY DEF NumbersFitBackend, Sessions!NumbersFitBackend, SessionProofs!NumbersFitBackend
<1> QED BY <1>1, <1>2, SessionsAsBefore, PTL
================================================================================
