--------------------------- MODULE SessionStateProofs ---------------------------
(****************************************************************************)
(* Proofs about SessionState, for every number of pages, every set of       *)
(* session states and mutators, and every value of the bounds.              *)
(****************************************************************************)
EXTENDS SessionState, SequenceTheorems, TLAPS

(* Keeping the newest n entries of a sequence leaves a sequence. *)
LEMMA LastType ==
  ASSUME NEW S, NEW s \in Seq(S), NEW n \in Nat \ {0}
  PROVE  Last(s, n) \in Seq(S) /\ Len(Last(s, n)) <= n
<1> DEFINE m == IF Len(s) > n THEN Len(s) - n + 1 ELSE 1
<1>1. m \in Int /\ Len(s) \in Int /\ m >= 1
  OBVIOUS
<1>2. \A i \in m..Len(s) : s[i] \in S
  BY <1>1
<1>3. /\ SubSeq(s, m, Len(s)) \in Seq(S)
      /\ Len(SubSeq(s, m, Len(s))) = IF m <= Len(s) THEN Len(s) - m + 1 ELSE 0
  BY <1>1, <1>2, SubSeqProperties
<1>4. Len(SubSeq(s, m, Len(s))) <= n
  BY <1>1, <1>3
<1> QED BY <1>3, <1>4 DEF Last

(* Forgetting the oldest entries keeps a sequence, no longer than it was.   *)
LEMMA KnownType ==
  ASSUME NEW S, NEW s \in Seq(S), NEW i \in DOMAIN s, NEW n \in Nat, Len(s) <= n
  PROVE  Known(s, i) \in Seq(S) /\ Len(Known(s, i)) <= n
<1>1. i \in Int /\ i >= 1 /\ i <= Len(s) /\ Len(s) \in Int
  OBVIOUS
<1>2. \A k \in i..Len(s) : s[k] \in S
  BY <1>1
<1>3. SubSeq(s, i, Len(s)) \in Seq(S) /\ Len(SubSeq(s, i, Len(s))) = Len(s) - i + 1
  BY <1>1, <1>2, SubSeqProperties
<1> QED BY <1>1, <1>3 DEF Known

LEMMA FromStoredType ==
  ASSUME NEW raw \in Stored
  PROVE  FromStored(raw) \in Content
BY ContentAssumption, MutatorAssumption DEF FromStored, Stored

LEMMA PoppedType ==
  ASSUME TypeOK, NEW w \in Window, channel[w] # <<>>
  PROVE  /\ Popped(w) \in [Window -> Seq(Message)]
         /\ Head(channel[w]) \in Message
<1>1. channel[w] \in Seq(Message)
  BY DEF TypeOK
<1>2. Tail(channel[w]) \in Seq(Message) /\ Head(channel[w]) \in Message
  BY <1>1, HeadTailProperties
<1> QED BY <1>2 DEF TypeOK, Popped

LEMMA SignalType == \A kind \in {"changed", "reply"} : Signal(kind) \in Message
BY ContentAssumption DEF Signal, Message, Nothing, Stored, Version

(* A message put at the end of one page's channel. *)
LEMMA PushedType ==
  ASSUME NEW w \in Window, NEW ch \in [Window -> Seq(Message)], NEW msg \in Message
  PROVE  [ch EXCEPT ![w] = Append(@, msg)] \in [Window -> Seq(Message)]
<1>1. Append(ch[w], msg) \in Seq(Message)
  BY AppendProperties
<1> QED BY <1>1

(* Spending one of a budget leaves a budget. *)
LEMMA BudgetType ==
  ASSUME NEW b \in Budget
  PROVE  /\ b.updates > 0 => [b EXCEPT !.updates = @ - 1] \in Budget
         /\ b.opens > 0 => [b EXCEPT !.opens = @ - 1] \in Budget
         /\ b.reads > 0 => [b EXCEPT !.reads = @ - 1] \in Budget
         /\ b.writes > 0 => [b EXCEPT !.writes = @ - 1] \in Budget
<1>1. \A n \in Nat : \A i \in 0..n : i > 0 => i - 1 \in 0..n
  OBVIOUS
<1> QED BY <1>1, BoundAssumption DEF Budget

LEMMA GetType ==
  ASSUME TypeOK, NEW w \in Window, NEW purpose \in {"sync", "load", "update"},
         NEW ch \in [Window -> Seq(Message)], Get(w, purpose, ch)
  PROVE  /\ stored' \in Stored
         /\ channel' \in [Window -> Seq(Message)]
         /\ budget' \in Budget
<1>1. \A b \in BOOLEAN : [kind |-> purpose, ok |-> b, raw |-> stored] \in Message
  BY DEF TypeOK, Message
<1>2. channel' \in [Window -> Seq(Message)]
  <2>1. \A b \in BOOLEAN : [ch EXCEPT ![w] = Append(@, [kind |-> purpose, ok |-> b, raw |-> stored])]
                            \in [Window -> Seq(Message)]
    BY <1>1, PushedType
  <2> QED BY <2>1 DEF Get
<1>3. budget' \in Budget
  BY BudgetType DEF Get, TypeOK
<1> QED BY <1>2, <1>3 DEF Get, TypeOK

LEMMA SaveType ==
  ASSUME TypeOK, NEW w \in Window, NEW next \in Content,
         NEW ch \in [Window -> Seq(Message)], Save(w, next, ch)
  PROVE  /\ stored' \in Stored
         /\ channel' \in [Window -> Seq(Message)]
         /\ budget' \in Budget
         /\ cached' \in [Window -> Content \union {NoCache}]
         /\ ownWrites' \in [Window -> Seq(Nat)]
         /\ \A v \in Window : Len(ownWrites'[v]) <= MaxOwnWrites
         /\ pc' \in [Window -> {"idle", "waiting", "reading", "writing", "written"}]
         /\ seen' \in [Window -> Nat]
         /\ writes' \in Nat
<1>1. stored' \in Stored
  BY DEF Save, Set, TypeOK, Stored, Version
<1>2. Announced(w, ch) \in [Window -> Seq(Message)]
  <2>1. Signal("changed") \in Message /\ Signal("reply") \in Message
    BY SignalType
  <2>2. \A v \in Window : /\ Append(ch[v], Signal("changed")) \in Seq(Message)
                         /\ Append(Append(ch[v], Signal("changed")), Signal("reply")) \in Seq(Message)
    BY <2>1, AppendProperties
  <2> QED BY <2>2 DEF Announced
<1>3. channel' \in [Window -> Seq(Message)]
  <2>1. [ch EXCEPT ![w] = Append(@, Signal("reply"))] \in [Window -> Seq(Message)]
    BY SignalType, PushedType
  <2> QED BY <1>2, <2>1 DEF Save, Set
<1>4. budget' \in Budget
  BY BudgetType DEF Save, Set, TypeOK
<1>5. /\ ownWrites' \in [Window -> Seq(Nat)]
      /\ \A v \in Window : Len(ownWrites'[v]) <= MaxOwnWrites
  <2>1. Append(ownWrites[w], writes + 1) \in Seq(Nat)
    BY DEF TypeOK
  <2>2. /\ Last(Append(ownWrites[w], writes + 1), MaxOwnWrites) \in Seq(Nat)
        /\ Len(Last(Append(ownWrites[w], writes + 1), MaxOwnWrites)) <= MaxOwnWrites
    BY <2>1, LastType, BoundAssumption
  <2> QED BY <2>2 DEF Save, TypeOK
<1>6. /\ cached' \in [Window -> Content \union {NoCache}]
      /\ pc' \in [Window -> {"idle", "waiting", "reading", "writing", "written"}]
      /\ writes' \in Nat
  BY DEF Save, TypeOK
<1>7. seen' \in [Window -> Nat]
  <2>1. writes + 1 \in Nat /\ seen \in [Window -> Nat]
    BY DEF TypeOK
  <2>2. [seen EXCEPT ![w] = writes + 1] \in [Window -> Nat]
    BY <2>1
  <2> QED BY <2>1, <2>2 DEF Save, Set
<1> QED BY <1>1, <1>3, <1>4, <1>5, <1>6, <1>7

LEMMA ApplyType ==
  ASSUME TypeOK, NEW w \in Window, NEW base \in Content, chain[w] # <<>>,
         NEW ch \in [Window -> Seq(Message)], Apply(w, base, ch), open' = open,
         hasLock' = hasLock
  PROVE  TypeOK'
<1>1. Head(chain[w]) \in Mutator /\ Tail(chain[w]) \in Seq(Mutator)
  BY HeadTailProperties DEF TypeOK
<1>2. Mutated(w, base) \in Content
  BY <1>1, MutatorAssumption DEF Mutated
<1>3. CASE Mutated(w, base) # base
  BY <1>2, <1>3, SaveType DEF Apply, TypeOK
<1>4. CASE Mutated(w, base) = base
  BY <1>1, <1>4 DEF Apply, Finish, Unlocked, TypeOK, cacheVars
<1> QED BY <1>3, <1>4

(* Steps that only ask storage for a read leave well-typed variables. *)
LEMMA ReadStepType ==
  ASSUME TypeOK, NEW w \in Window, NEW purpose \in {"sync", "load", "update"},
         NEW ch \in [Window -> Seq(Message)], Get(w, purpose, ch),
         UNCHANGED <<hasLock, open, cached, ownWrites, seen, writes>>,
         holder' \in Window \union {NoWindow}, resync' \in [Window -> BOOLEAN],
         chain' \in [Window -> Seq(Mutator)],
         pc' \in [Window -> {"idle", "waiting", "reading", "writing", "written"}]
  PROVE  TypeOK'
BY GetType DEF TypeOK

LEMMA InitType == Init => TypeOK
BY ContentAssumption, SettingAssumption, BoundAssumption
DEF Init, TypeOK, Stored, Budget

(* A page that receives its update's answer or write reply is inside that   *)
(* update.                                                                  *)
LEMMA AnswerMeansRunning ==
  ASSUME TypeOK, WaitsForOwnAnswer, NEW w \in Window
  PROVE  /\ Arrives(w, "update") => pc[w] = "reading" /\ chain[w] # <<>>
         /\ Arrives(w, "reply") => pc[w] = "writing" /\ chain[w] # <<>>
<1>1. channel[w] \in Seq(Message) /\ AnswersFit(channel[w], pc[w])
  BY DEF TypeOK, WaitsForOwnAnswer
<1>2. channel[w] # <<>> => 1 \in 1..Len(channel[w]) /\ Head(channel[w]) = channel[w][1]
  BY <1>1
<1> QED BY <1>1, <1>2 DEF Arrives, AnswersFit, WaitsForOwnAnswer

(* Every step keeps the types, given that a page's channel holds only the   *)
(* answers its running update waits for.                                    *)
LEMMA TypeStep ==
  ASSUME TypeOK, WaitsForOwnAnswer, [Next]_vars
  PROVE  TypeOK'
<1>0. hasLock' = hasLock
  BY DEF Next, vars
<1> USE <1>0
<1>1. ASSUME NEW w \in Window, NEW m \in Mutator, Update(w, m) PROVE TypeOK'
  <2>1. Append(chain[w], m) \in Seq(Mutator)
    BY AppendProperties DEF TypeOK
  <2>2. budget' \in Budget
    BY <1>1, BudgetType DEF Update, TypeOK
  <2> QED BY <1>1, <2>1, <2>2 DEF Update, TypeOK, browserVars, cacheVars
<1>2. ASSUME NEW w \in Window, Load(w) PROVE TypeOK'
  BY <1>2, ReadStepType DEF Load, TypeOK, cacheVars, updateVars
<1>3. ASSUME NEW w \in Window, BeginLocked(w) PROVE TypeOK'
  BY <1>3 DEF BeginLocked, TypeOK, browserVars, cacheVars
<1>4. ASSUME NEW w \in Window, BeginUnlocked(w) PROVE TypeOK'
  <2>1. CASE cached[w] # NoCache
    BY <1>4, <2>1, ApplyType DEF BeginUnlocked, TypeOK
  <2>2. CASE cached[w] = NoCache
    BY <1>4, <2>2, ReadStepType DEF BeginUnlocked, TypeOK, cacheVars
  <2> QED BY <2>1, <2>2
<1>5. ASSUME NEW w \in Window, Grant(w) PROVE TypeOK'
  BY <1>5, ReadStepType DEF Grant, StartReading, TypeOK, cacheVars
<1>6. ASSUME NEW w \in Window, LockWaitExpires(w) PROVE TypeOK'
  BY <1>6, ReadStepType DEF LockWaitExpires, StartReading, TypeOK, cacheVars
<1>7. ASSUME NEW w \in Window, Settle(w) PROVE TypeOK'
  <2>1. /\ holder' \in Window \union {NoWindow}
        /\ resync' \in [Window -> BOOLEAN]
        /\ pc' \in [Window -> {"idle", "waiting", "reading", "writing", "written"}]
    BY <1>7 DEF Settle, Finish, Unlocked, TypeOK
  <2>2. chain' \in [Window -> Seq(Mutator)]
    <3>1. chain[w] \in Seq(Mutator) /\ chain[w] # <<>>
      BY <1>7 DEF Settle, TypeOK, WaitsForOwnAnswer
    <3>2. Tail(chain[w]) \in Seq(Mutator)
      BY <3>1, HeadTailProperties
    <3> QED BY <1>7, <3>2 DEF Settle, Finish, TypeOK
  <2>3. CASE resync[w]
    BY <1>7, <2>1, <2>2, <2>3, ReadStepType DEF Settle, TypeOK
  <2>4. CASE ~resync[w]
    BY <1>7, <2>1, <2>2, <2>4 DEF Settle, TypeOK, browserVars
  <2> QED BY <2>3, <2>4
<1>8. ASSUME NEW w \in Window, Deliver(w) PROVE TypeOK'
  <2>1. /\ Popped(w) \in [Window -> Seq(Message)]
        /\ Head(channel[w]) \in Message
    BY <1>8, PoppedType DEF Deliver, DeliverChanged, DeliverSync, DeliverLoad,
       DeliverUpdateLocked, DeliverUpdateUnlocked, DeliverReply, Arrives
  <2>2. CASE DeliverChanged(w)
    BY <2>1, <2>2, ReadStepType DEF DeliverChanged, TypeOK, cacheVars, updateVars
  <2>3. CASE DeliverSync(w)
    <3>1. Head(channel[w]).raw \in Stored
      BY <2>1 DEF Message
    <3>2. cached' \in [Window -> Content \union {NoCache}] /\ seen' \in [Window -> Nat]
      <4>1. Head(channel[w]).raw.stamp \in Nat /\ FromStored(Head(channel[w]).raw) \in Content
        BY <3>1, FromStoredType DEF Stored
      <4>2. cached' \in [Window -> Content \union {NoCache}]
        BY <2>3, <4>1 DEF DeliverSync, TypeOK, cacheVars
      <4>3. seen' \in [Window -> Nat]
        BY <2>3, <4>1 DEF DeliverSync, TypeOK, cacheVars
      <4> QED BY <4>2, <4>3
    <3>3. /\ ownWrites' \in [Window -> Seq(Nat)]
          /\ \A v \in Window : Len(ownWrites'[v]) <= MaxOwnWrites
      <4>1. ASSUME NEW i \in OwnIndex(w, Head(channel[w]).raw)
            PROVE  Known(ownWrites[w], i) \in Seq(Nat) /\ Len(Known(ownWrites[w], i)) <= MaxOwnWrites
        <5>1. ownWrites[w] \in Seq(Nat) /\ Len(ownWrites[w]) <= MaxOwnWrites /\ i \in DOMAIN ownWrites[w]
          BY DEF TypeOK, OwnIndex
        <5> QED BY <5>1, KnownType, BoundAssumption
      <4>2. \/ ownWrites' = ownWrites
            \/ \E i \in OwnIndex(w, Head(channel[w]).raw) :
                 ownWrites' = [ownWrites EXCEPT ![w] = Known(@, i)]
        BY <2>3 DEF DeliverSync, cacheVars
      <4>3. ASSUME NEW i \in OwnIndex(w, Head(channel[w]).raw),
                   ownWrites' = [ownWrites EXCEPT ![w] = Known(@, i)]
            PROVE  /\ ownWrites' \in [Window -> Seq(Nat)]
                   /\ \A v \in Window : Len(ownWrites'[v]) <= MaxOwnWrites
        BY <4>1, <4>3 DEF TypeOK
      <4> QED BY <4>2, <4>3 DEF TypeOK
    <3>4. resync' \in [Window -> BOOLEAN]
      BY <2>3 DEF DeliverSync, TypeOK, cacheVars
    <3> QED BY <2>1, <2>3, <3>2, <3>3, <3>4 DEF DeliverSync, TypeOK, updateVars
  <2>4. CASE DeliverLoad(w)
    <3>1. Head(channel[w]).raw \in Stored
      BY <2>1 DEF Message
    <3>2. /\ AfterLoad(w, Head(channel[w]).raw) \in Content \union {NoCache}
          /\ SeenAfterLoad(w, Head(channel[w]).raw) \in Nat
      BY <3>1, FromStoredType DEF AfterLoad, SeenAfterLoad, TypeOK, Stored
    <3>3. cached' \in [Window -> Content \union {NoCache}] /\ seen' \in [Window -> Nat]
      BY <2>4, <3>2 DEF DeliverLoad, TypeOK
    <3> QED BY <2>1, <2>4, <3>3 DEF DeliverLoad, TypeOK, updateVars
  <2>5. CASE DeliverUpdateLocked(w)
    <3>1. ReadCurrent(w, Head(channel[w])) \in Content
      BY <2>1, FromStoredType, ContentAssumption DEF ReadCurrent, Message, TypeOK
    <3>2. chain[w] # <<>>
      BY <2>5, AnswerMeansRunning DEF DeliverUpdateLocked
    <3> QED BY <2>1, <2>5, <3>1, <3>2, ApplyType DEF DeliverUpdateLocked
  <2>6. CASE DeliverUpdateUnlocked(w)
    <3> DEFINE raw == Head(channel[w]).raw
               base == AfterLoad(w, raw)
    <3>1. /\ base \in Content
          /\ SeenAfterLoad(w, raw) \in Nat
      BY <2>1, FromStoredType DEF AfterLoad, SeenAfterLoad, TypeOK, Message, Stored
    <3>2. chain[w] # <<>> /\ chain[w] \in Seq(Mutator)
      BY <2>6, AnswerMeansRunning DEF DeliverUpdateUnlocked, TypeOK
    <3>3. Head(chain[w]) \in Mutator /\ Tail(chain[w]) \in Seq(Mutator)
      BY <3>2, HeadTailProperties
    <3>4. Mutated(w, base) \in Content
      BY <3>1, <3>3, MutatorAssumption DEF Mutated
    <3>5. CASE Head(channel[w]).ok /\ Mutated(w, base) # base
      BY <2>1, <2>6, <3>4, <3>5, SaveType DEF DeliverUpdateUnlocked, TypeOK
    <3>6. CASE ~(Head(channel[w]).ok /\ Mutated(w, base) # base)
      <4>1. /\ Finish(w)
            /\ channel' = Popped(w)
            /\ cached' = [cached EXCEPT ![w] = IF Head(channel[w]).ok THEN base ELSE @]
            /\ seen' = [seen EXCEPT ![w] = IF Head(channel[w]).ok THEN SeenAfterLoad(w, raw) ELSE @]
            /\ UNCHANGED <<stored, ownWrites, writes, budget, resync, open>>
        BY <2>6, <3>6 DEF DeliverUpdateUnlocked
      <4>2. /\ cached' \in [Window -> Content \union {NoCache}]
            /\ seen' \in [Window -> Nat]
        BY <3>1, <4>1 DEF TypeOK
      <4> QED BY <2>1, <3>3, <4>1, <4>2 DEF Finish, Unlocked, TypeOK
    <3> QED BY <3>5, <3>6
  <2>7. CASE DeliverReply(w)
    BY <2>1, <2>7 DEF DeliverReply, TypeOK, cacheVars
  <2> QED BY <1>8, <2>2, <2>3, <2>4, <2>5, <2>6, <2>7 DEF Deliver
<1>9. ASSUME NEW w \in Window, Open(w) PROVE TypeOK'
  BY <1>9, BudgetType DEF Open, TypeOK, browserVars, cacheVars, updateVars
<1>10. ASSUME NEW w \in Window, Close(w) PROVE TypeOK'
  <2>1. Len(<<>>) <= MaxOwnWrites
    BY BoundAssumption
  <2> QED BY <1>10, <2>1 DEF Close, Unlocked, TypeOK
<1>11. CASE UNCHANGED vars
  BY <1>11 DEF vars, TypeOK
<1> QED BY <1>1, <1>2, <1>3, <1>4, <1>5, <1>6, <1>7, <1>8, <1>9, <1>10, <1>11 DEF Next, Step

-------------------------------------------------------------------------------
(* A channel without the answer to an update.                               *)
Quiet(s) == \A i \in 1..Len(s) : s[i].kind \notin {"update", "reply"}

LEMMA QuietFits ==
  ASSUME NEW s \in Seq(Message), Quiet(s), NEW step
  PROVE  AnswersFit(s, step)
BY DEF Quiet, AnswersFit

LEMMA FitsQuiet ==
  ASSUME NEW s \in Seq(Message), NEW step, AnswersFit(s, step), step \notin {"reading", "writing"}
  PROVE  Quiet(s)
BY DEF Quiet, AnswersFit

LEMMA TailFits ==
  ASSUME NEW s \in Seq(Message), s # <<>>, NEW step, AnswersFit(s, step)
  PROVE  /\ AnswersFit(Tail(s), step)
         /\ Head(s).kind \in {"update", "reply"} => Quiet(Tail(s))
<1>1. /\ Len(Tail(s)) = Len(s) - 1 /\ Len(s) \in Nat \ {0}
      /\ \A i \in 1..Len(Tail(s)) : Tail(s)[i] = s[i + 1] /\ i + 1 \in 1..Len(s)
      /\ Head(s) = s[1]
  BY HeadTailProperties
<1>2. AnswersFit(Tail(s), step)
  <2>1. ASSUME NEW i \in 1..Len(Tail(s)), NEW j \in 1..Len(Tail(s)),
               {Tail(s)[i].kind, Tail(s)[j].kind} \subseteq {"update", "reply"}
        PROVE  i = j
    <3>1. i + 1 = j + 1
      BY <1>1, <2>1 DEF AnswersFit
    <3> QED BY <1>1, <3>1
  <2>2. \A i \in 1..Len(Tail(s)) : /\ Tail(s)[i].kind = "update" => step = "reading"
                                   /\ Tail(s)[i].kind = "reply" => step = "writing"
    BY <1>1 DEF AnswersFit
  <2> QED BY <2>1, <2>2 DEF AnswersFit
<1>3. ASSUME Head(s).kind \in {"update", "reply"}, NEW i \in 1..Len(Tail(s))
      PROVE  Tail(s)[i].kind \notin {"update", "reply"}
  <2>1. 1 \in 1..Len(s) /\ i + 1 # 1
    BY <1>1
  <2> QED BY <1>1, <1>3, <2>1 DEF AnswersFit
<1> QED BY <1>2, <1>3 DEF Quiet

LEMMA PushFits ==
  ASSUME NEW s \in Seq(Message), NEW msg \in Message, NEW step
  PROVE  /\ AnswersFit(s, step) /\ msg.kind \notin {"update", "reply"}
              => AnswersFit(Append(s, msg), step)
         /\ Quiet(s) /\ msg.kind \notin {"update", "reply"} => Quiet(Append(s, msg))
         /\ Quiet(s) /\ msg.kind = "update" => AnswersFit(Append(s, msg), "reading")
         /\ Quiet(s) /\ msg.kind = "reply" => AnswersFit(Append(s, msg), "writing")
<1>1. /\ Len(Append(s, msg)) = Len(s) + 1 /\ Len(s) \in Nat
      /\ \A i \in 1..Len(s) : Append(s, msg)[i] = s[i]
      /\ Append(s, msg)[Len(s) + 1] = msg
  BY AppendProperties
<1>2. \A i \in 1..Len(Append(s, msg)) : i \in 1..Len(s) \/ i = Len(s) + 1
  BY <1>1
<1> QED BY <1>1, <1>2 DEF AnswersFit, Quiet

LEMMA FitSize ==
  ASSUME TypeOK, NEW w \in Window
  PROVE  channel[w] \in Seq(Message) /\ chain[w] \in Seq(Mutator)
BY DEF TypeOK

(* What a read or a write puts on the channels.                             *)
LEMMA GetFits ==
  ASSUME TypeOK, NEW w \in Window, NEW purpose \in {"sync", "load", "update"},
         NEW ch \in [Window -> Seq(Message)], Get(w, purpose, ch)
  PROVE  /\ \A v \in Window \ {w} : channel'[v] = ch[v]
         /\ \E msg \in Message : /\ msg.kind = purpose /\ msg.raw = stored
                                 /\ msg.ok \/ budget.reads > 0
                                 /\ channel'[w] = Append(ch[w], msg)
<1>1. \A b \in BOOLEAN : [kind |-> purpose, ok |-> b, raw |-> stored] \in Message
  BY DEF TypeOK, Message
<1>2. CASE channel' = [ch EXCEPT ![w] = Append(@, [kind |-> purpose, ok |-> TRUE, raw |-> stored])]
  BY <1>1, <1>2
<1>3. CASE /\ channel' = [ch EXCEPT ![w] = Append(@, [kind |-> purpose, ok |-> FALSE, raw |-> stored])]
           /\ budget.reads > 0
  BY <1>1, <1>3
<1> QED BY <1>2, <1>3 DEF Get

LEMMA SaveFits ==
  ASSUME TypeOK, NEW w \in Window, NEW next \in Content,
         NEW ch \in [Window -> Seq(Message)], Save(w, next, ch)
  PROVE  /\ \A v \in Window \ {w} : channel'[v] = ch[v] \/ channel'[v] = Append(ch[v], Signal("changed"))
         /\ \/ channel'[w] = Append(Append(ch[w], Signal("changed")), Signal("reply"))
            \/ channel'[w] = Append(ch[w], Signal("reply"))
            \/ channel'[w] = ch[w]
BY DEF Save, Set, Announced

(* Asking storage for a read that no update waits for.                      *)
LEMMA GetKeepsFit ==
  ASSUME TypeOK, NEW w \in Window, NEW purpose \in {"sync", "load"},
         NEW ch \in [Window -> Seq(Message)], Get(w, purpose, ch),
         NEW step, \A v \in Window : AnswersFit(ch[v], step[v])
  PROVE  \A v \in Window : AnswersFit(channel'[v], step[v])
<1>1. PICK msg \in Message : msg.kind = purpose /\ channel'[w] = Append(ch[w], msg)
  BY GetFits
<1>2. \A v \in Window \ {w} : channel'[v] = ch[v]
  BY GetFits
<1>3. ch[w] \in Seq(Message) /\ AnswersFit(ch[w], step[w]) /\ msg.kind \notin {"update", "reply"}
  BY <1>1
<1>4. AnswersFit(Append(ch[w], msg), step[w])
  BY <1>3, PushFits
<1> QED BY <1>1, <1>2, <1>4

(* An update asks for its read, with no answer outstanding.                 *)
LEMMA AskFits ==
  ASSUME TypeOK, NEW w \in Window, Get(w, "update", channel), WaitsForOwnAnswer,
         Quiet(channel[w]), pc' = [pc EXCEPT ![w] = "reading"]
  PROVE  \A v \in Window : AnswersFit(channel'[v], pc'[v])
<1>1. channel \in [Window -> Seq(Message)] /\ channel[w] \in Seq(Message)
  BY DEF TypeOK
<1>2. PICK msg \in Message : msg.kind = "update" /\ channel'[w] = Append(channel[w], msg)
  BY <1>1, GetFits
<1>3. \A v \in Window \ {w} : channel'[v] = channel[v]
  BY <1>1, GetFits
<1>4. AnswersFit(channel'[w], "reading")
  BY <1>1, <1>2, PushFits
<1> QED BY <1>3, <1>4 DEF WaitsForOwnAnswer, TypeOK

(* An update writes, with no answer outstanding.                            *)
LEMMA SaveKeepsFit ==
  ASSUME TypeOK, NEW w \in Window, NEW next \in Content,
         NEW ch \in [Window -> Seq(Message)], Save(w, next, ch),
         Quiet(ch[w]), \A v \in Window \ {w} : AnswersFit(ch[v], pc[v])
  PROVE  \A v \in Window : AnswersFit(channel'[v], pc'[v])
<1>1. /\ pc'[w] = "writing"
      /\ \A v \in Window \ {w} : pc'[v] = pc[v]
  BY DEF Save, TypeOK
<1>2. /\ Signal("changed") \in Message /\ Signal("changed").kind = "changed"
      /\ Signal("reply") \in Message /\ Signal("reply").kind = "reply"
  BY SignalType DEF Signal
<1>3. AnswersFit(channel'[w], "writing")
  <2>1. ch[w] \in Seq(Message)
    OBVIOUS
  <2>2. Quiet(Append(ch[w], Signal("changed"))) /\ Append(ch[w], Signal("changed")) \in Seq(Message)
    BY <1>2, <2>1, PushFits, AppendProperties
  <2>3. AnswersFit(Append(Append(ch[w], Signal("changed")), Signal("reply")), "writing")
    BY <1>2, <2>2, PushFits
  <2>4. AnswersFit(Append(ch[w], Signal("reply")), "writing")
    BY <1>2, <2>1, PushFits
  <2>5. AnswersFit(ch[w], "writing")
    BY <2>1, QuietFits
  <2> QED BY <2>3, <2>4, <2>5, SaveFits
<1>4. ASSUME NEW v \in Window \ {w} PROVE AnswersFit(channel'[v], pc[v])
  <2>1. ch[v] \in Seq(Message) /\ AnswersFit(ch[v], pc[v])
    OBVIOUS
  <2>2. AnswersFit(Append(ch[v], Signal("changed")), pc[v])
    BY <1>2, <2>1, PushFits
  <2>3. channel'[v] = ch[v] \/ channel'[v] = Append(ch[v], Signal("changed"))
    BY SaveFits
  <2> QED BY <2>1, <2>2, <2>3
<1> QED BY <1>1, <1>3, <1>4

LEMMA ApplyKeepsFit ==
  ASSUME TypeOK, NEW w \in Window, NEW base \in Content, chain[w] # <<>>,
         NEW ch \in [Window -> Seq(Message)], Apply(w, base, ch),
         Quiet(ch[w]), \A v \in Window \ {w} : AnswersFit(ch[v], pc[v])
  PROVE  \A v \in Window : AnswersFit(channel'[v], pc'[v])
<1>1. Mutated(w, base) \in Content
  BY HeadTailProperties, MutatorAssumption DEF Mutated, TypeOK
<1>2. CASE Mutated(w, base) # base
  BY <1>1, <1>2, SaveKeepsFit DEF Apply
<1>3. CASE Mutated(w, base) = base
  BY <1>3, QuietFits DEF Apply, Finish, TypeOK
<1> QED BY <1>2, <1>3

(* What is left on a channel once its first message has been taken.         *)
LEMMA PoppedFits ==
  ASSUME TypeOK, WaitsForOwnAnswer, NEW w \in Window, channel[w] # <<>>
  PROVE  /\ Popped(w) \in [Window -> Seq(Message)]
         /\ \A v \in Window \ {w} : Popped(w)[v] = channel[v]
         /\ Popped(w)[w] = Tail(channel[w])
         /\ \A v \in Window : AnswersFit(Popped(w)[v], pc[v])
         /\ Head(channel[w]).kind \in {"update", "reply"} => Quiet(Popped(w)[w])
<1>1. channel[w] \in Seq(Message) /\ AnswersFit(channel[w], pc[w])
  BY DEF TypeOK, WaitsForOwnAnswer
<1>2. /\ AnswersFit(Tail(channel[w]), pc[w])
      /\ Head(channel[w]).kind \in {"update", "reply"} => Quiet(Tail(channel[w]))
  BY <1>1, TailFits
<1>3. Popped(w) \in [Window -> Seq(Message)]
  BY PoppedType
<1>4. /\ \A v \in Window \ {w} : Popped(w)[v] = channel[v]
      /\ Popped(w)[w] = Tail(channel[w])
  BY DEF Popped, TypeOK
<1> QED BY <1>2, <1>3, <1>4 DEF WaitsForOwnAnswer

(* Between two awaits of an update nothing answers it: its channel is quiet. *)
LEMMA QuietOutside ==
  ASSUME TypeOK, WaitsForOwnAnswer, NEW w \in Window, pc[w] \in {"idle", "waiting", "written"}
  PROVE  Quiet(channel[w])
BY FitsQuiet DEF TypeOK, WaitsForOwnAnswer

LEMMA AppendNotEmpty ==
  ASSUME NEW S, NEW s \in Seq(S), NEW e \in S
  PROVE  Append(s, e) # <<>>
BY AppendProperties

LEMMA RunningStep ==
  ASSUME TypeOK, WaitsForOwnAnswer, [Next]_vars
  PROVE  \A v \in Window : pc'[v] # "idle" => chain'[v] # <<>>
<1> USE DEF TypeOK, WaitsForOwnAnswer
<1>1. ASSUME NEW w \in Window, NEW m \in Mutator, Update(w, m)
      PROVE  \A v \in Window : pc'[v] # "idle" => chain'[v] # <<>>
  <2>1. chain[w] \in Seq(Mutator)
    OBVIOUS
  <2>2. Append(chain[w], m) # <<>>
    BY <2>1, AppendNotEmpty
  <2>3. chain' = [chain EXCEPT ![w] = Append(@, m)] /\ pc' = pc
    BY <1>1 DEF Update
  <2>4. chain \in [Window -> Seq(Mutator)] /\ \A v \in Window : pc[v] # "idle" => chain[v] # <<>>
    OBVIOUS
  <2> HIDE DEF TypeOK, WaitsForOwnAnswer
  <2> QED BY <2>2, <2>3, <2>4
<1>2. ASSUME NEW w \in Window,
             Load(w) \/ Open(w) \/ DeliverChanged(w) \/ DeliverSync(w) \/ DeliverLoad(w)
      PROVE  \A v \in Window : pc'[v] # "idle" => chain'[v] # <<>>
  BY <1>2 DEF Load, Open, DeliverChanged, DeliverSync, DeliverLoad, updateVars
<1>3. ASSUME NEW w \in Window,
             BeginLocked(w) \/ Grant(w) \/ LockWaitExpires(w) \/ Close(w) \/ DeliverReply(w)
      PROVE  \A v \in Window : pc'[v] # "idle" => chain'[v] # <<>>
  <2>1. DeliverReply(w) => pc[w] = "writing"
    BY AnswerMeansRunning DEF DeliverReply
  <2> QED BY <1>3, <2>1 DEF BeginLocked, Grant, LockWaitExpires, StartReading, Close, DeliverReply
<1>4. ASSUME NEW w \in Window, Finish(w)
      PROVE  \A v \in Window : pc'[v] # "idle" => chain'[v] # <<>>
  BY <1>4 DEF Finish
<1>5. ASSUME NEW w \in Window, NEW base, NEW ch, Apply(w, base, ch), chain[w] # <<>>
      PROVE  \A v \in Window : pc'[v] # "idle" => chain'[v] # <<>>
  BY <1>4, <1>5 DEF Apply, Save
<1>6. ASSUME NEW w \in Window, BeginUnlocked(w)
      PROVE  \A v \in Window : pc'[v] # "idle" => chain'[v] # <<>>
  <2>1. CASE cached[w] # NoCache
    BY <1>5, <1>6, <2>1 DEF BeginUnlocked
  <2>2. CASE cached[w] = NoCache
    BY <1>6, <2>2 DEF BeginUnlocked
  <2> QED BY <2>1, <2>2
<1>7. ASSUME NEW w \in Window, Settle(w)
      PROVE  \A v \in Window : pc'[v] # "idle" => chain'[v] # <<>>
  BY <1>4, <1>7 DEF Settle
<1>8. ASSUME NEW w \in Window, DeliverUpdateLocked(w)
      PROVE  \A v \in Window : pc'[v] # "idle" => chain'[v] # <<>>
  BY <1>5, <1>8, AnswerMeansRunning DEF DeliverUpdateLocked
<1>9. ASSUME NEW w \in Window, DeliverUpdateUnlocked(w)
      PROVE  \A v \in Window : pc'[v] # "idle" => chain'[v] # <<>>
  <2>1. CASE Finish(w)
    BY <1>4, <2>1
  <2>2. CASE UNCHANGED chain /\ pc' = [pc EXCEPT ![w] = "writing"]
    BY <1>9, <2>2, AnswerMeansRunning DEF DeliverUpdateUnlocked
  <2> QED BY <1>9, <2>1, <2>2 DEF DeliverUpdateUnlocked, Save
<1>10. CASE UNCHANGED vars
  BY <1>10 DEF vars
<1> QED BY <1>1, <1>2, <1>3, <1>6, <1>7, <1>8, <1>9, <1>10 DEF Next, Step, Deliver

LEMMA AnswerStep ==
  ASSUME TypeOK, WaitsForOwnAnswer, [Next]_vars
  PROVE  WaitsForOwnAnswer'
<1> DEFINE Fits == \A v \in Window : AnswersFit(channel'[v], pc'[v])
<1>0. /\ channel \in [Window -> Seq(Message)]
      /\ \A v \in Window : AnswersFit(channel[v], pc[v])
      /\ \A v \in Window : channel[v] \in Seq(Message)
  BY DEF TypeOK, WaitsForOwnAnswer
<1>1. ASSUME NEW w \in Window, NEW m \in Mutator, Update(w, m) PROVE Fits
  BY <1>0, <1>1 DEF Update, browserVars
<1>2. ASSUME NEW w \in Window, Load(w) PROVE Fits
  BY <1>0, <1>2, GetKeepsFit DEF Load, updateVars
<1>3. ASSUME NEW w \in Window, BeginLocked(w) PROVE Fits
  BY <1>0, <1>3, QuietOutside, QuietFits DEF BeginLocked, browserVars, TypeOK
<1>4. ASSUME NEW w \in Window, BeginUnlocked(w) PROVE Fits
  <2>1. Quiet(channel[w]) /\ chain[w] # <<>>
    BY <1>4, QuietOutside DEF BeginUnlocked
  <2>2. CASE cached[w] # NoCache
    <3>1. cached[w] \in Content
      BY <2>2 DEF TypeOK
    <3> QED BY <1>0, <1>4, <2>1, <2>2, <3>1, ApplyKeepsFit DEF BeginUnlocked
  <2>3. CASE cached[w] = NoCache
    BY <1>4, <2>1, <2>3, AskFits DEF BeginUnlocked
  <2> QED BY <2>2, <2>3
<1>5. ASSUME NEW w \in Window, Grant(w) \/ LockWaitExpires(w) PROVE Fits
  <2>1. Quiet(channel[w])
    BY <1>5, QuietOutside DEF Grant, LockWaitExpires
  <2> QED BY <1>5, <2>1, AskFits DEF Grant, LockWaitExpires, StartReading
<1>6. ASSUME NEW w \in Window, Settle(w) PROVE Fits
  <2>1. Quiet(channel[w])
    BY <1>6, QuietOutside DEF Settle
  <2>2. \A v \in Window : AnswersFit(channel[v], pc'[v])
    BY <1>0, <1>6, <2>1, QuietFits DEF Settle, Finish, TypeOK
  <2>3. CASE resync[w]
    BY <1>0, <1>6, <2>2, <2>3, GetKeepsFit DEF Settle
  <2>4. CASE ~resync[w]
    BY <1>6, <2>2, <2>4 DEF Settle, browserVars
  <2> QED BY <2>3, <2>4
<1>7. ASSUME NEW w \in Window, Deliver(w) PROVE Fits
  <2>0. channel[w] # <<>>
    BY <1>7 DEF Deliver, DeliverChanged, DeliverSync, DeliverLoad,
       DeliverUpdateLocked, DeliverUpdateUnlocked, DeliverReply, Arrives
  <2>1. /\ Popped(w) \in [Window -> Seq(Message)]
        /\ \A v \in Window : AnswersFit(Popped(w)[v], pc[v])
        /\ Head(channel[w]).kind \in {"update", "reply"} => Quiet(Popped(w)[w])
        /\ Head(channel[w]) \in Message
        /\ \A v \in Window : Popped(w)[v] \in Seq(Message)
    BY <2>0, PoppedFits, PoppedType
  <2>2. CASE DeliverChanged(w)
    BY <2>1, <2>2, GetKeepsFit DEF DeliverChanged, updateVars
  <2>3. CASE DeliverSync(w) \/ DeliverLoad(w)
    BY <2>1, <2>3 DEF DeliverSync, DeliverLoad, updateVars
  <2>4. CASE DeliverUpdateLocked(w)
    <3>1. ReadCurrent(w, Head(channel[w])) \in Content
      BY <2>1, FromStoredType, ContentAssumption DEF ReadCurrent, Message, TypeOK
    <3>2. chain[w] # <<>> /\ Quiet(Popped(w)[w])
      BY <2>1, <2>4, AnswerMeansRunning DEF DeliverUpdateLocked, Arrives
    <3> QED BY <2>1, <2>4, <3>1, <3>2, ApplyKeepsFit DEF DeliverUpdateLocked
  <2>5. CASE DeliverUpdateUnlocked(w)
    <3> DEFINE base == AfterLoad(w, Head(channel[w]).raw)
    <3>1. chain[w] # <<>> /\ Quiet(Popped(w)[w])
      BY <2>1, <2>5, AnswerMeansRunning DEF DeliverUpdateUnlocked, Arrives
    <3>2. base \in Content
      BY <2>1, FromStoredType DEF AfterLoad, Message, TypeOK
    <3>3. Mutated(w, base) \in Content
      BY <3>1, <3>2, HeadTailProperties, MutatorAssumption DEF Mutated, TypeOK
    <3>4. CASE Save(w, Mutated(w, base), Popped(w))
      BY <2>1, <3>1, <3>3, <3>4, SaveKeepsFit
    <3>5. CASE Finish(w) /\ channel' = Popped(w)
      BY <2>1, <3>1, <3>5, QuietFits DEF Finish, TypeOK
    <3> QED BY <2>5, <3>4, <3>5 DEF DeliverUpdateUnlocked
  <2>6. CASE DeliverReply(w)
    <3>1. Quiet(Popped(w)[w])
      BY <2>1, <2>6 DEF DeliverReply, Arrives
    <3> QED BY <2>1, <2>6, <3>1, QuietFits DEF DeliverReply, TypeOK
  <2> QED BY <1>7, <2>2, <2>3, <2>4, <2>5, <2>6 DEF Deliver
<1>8. ASSUME NEW w \in Window, Open(w) PROVE Fits
  BY <1>0, <1>8 DEF Open, browserVars, updateVars
<1>9. ASSUME NEW w \in Window, Close(w) PROVE Fits
  <2>1. Quiet(<<>>) /\ <<>> \in Seq(Message)
    BY DEF Quiet
  <2> QED BY <1>0, <1>9, <2>1, QuietFits DEF Close, TypeOK
<1>10. ASSUME UNCHANGED vars PROVE Fits
  BY <1>0, <1>10 DEF vars
<1>11. Fits
  BY <1>1, <1>2, <1>3, <1>4, <1>5, <1>6, <1>7, <1>8, <1>9, <1>10 DEF Next, Step
<1> QED BY <1>11, RunningStep DEF WaitsForOwnAnswer

(* The shape of every variable, and that a page waits for nothing but the   *)
(* answer of the update it is running: with and without the lock, through   *)
(* failing storage, expiring lock waits and pages that die.                 *)
THEOREM TypeCorrect == Spec => [](TypeOK /\ WaitsForOwnAnswer)
<1>1. Init => WaitsForOwnAnswer
  <2>1. Quiet(<<>>) /\ <<>> \in Seq(Message)
    BY DEF Quiet
  <2>2. \A step : AnswersFit(<<>>, step)
    BY <2>1, QuietFits
  <2> QED BY <2>2 DEF Init, WaitsForOwnAnswer
<1>2. TypeOK /\ WaitsForOwnAnswer /\ [Next]_vars => (TypeOK /\ WaitsForOwnAnswer)'
  BY TypeStep, AnswerStep
<1> QED BY <1>1, <1>2, InitType, PTL DEF Spec

-------------------------------------------------------------------------------
(* The lock.                                                                *)

(* Where the promise is made, no update runs without the lock.              *)
LEMMA NeverWithoutLock ==
  ASSUME UnderLock, TypeOK, NEW w \in Window,
         BeginUnlocked(w) \/ LockWaitExpires(w) \/ DeliverUpdateUnlocked(w)
  PROVE  FALSE
<1>1. hasLock = TRUE
  BY DEF UnderLock, TypeOK
<1> QED BY <1>1 DEF UnderLock, BeginUnlocked, LockWaitExpires, DeliverUpdateUnlocked

LEMMA LockStep ==
  ASSUME UnderLock, TypeOK, WaitsForOwnAnswer, LockHeld, [Next]_vars
  PROVE  LockHeld'
<1> USE DEF UnderLock, TypeOK, LockHeld
<1>1. ASSUME NEW w \in Window, NEW m \in Mutator, Update(w, m) PROVE LockHeld'
  BY <1>1 DEF Update
<1>2. ASSUME NEW w \in Window,
             \/ Load(w) \/ BeginLocked(w) \/ Open(w)
             \/ DeliverChanged(w) \/ DeliverSync(w) \/ DeliverLoad(w)
      PROVE  LockHeld'
  BY <1>2 DEF Load, BeginLocked, Open, DeliverChanged, DeliverSync, DeliverLoad, updateVars
<1>3. ASSUME NEW w \in Window, Grant(w) PROVE LockHeld'
  BY <1>3, WindowAssumption DEF Grant, StartReading
<1>4. ASSUME NEW w \in Window, BeginUnlocked(w) \/ LockWaitExpires(w) PROVE LockHeld'
  BY <1>4, NeverWithoutLock
<1>5. ASSUME NEW w \in Window, Finish(w) PROVE LockHeld'
  BY <1>5 DEF Finish, Unlocked
<1>6. ASSUME NEW w \in Window, Settle(w) PROVE LockHeld'
  BY <1>5, <1>6 DEF Settle
<1>7. ASSUME NEW w \in Window, DeliverUpdateLocked(w) PROVE LockHeld'
  <2>1. pc[w] = "reading"
    BY <1>7, AnswerMeansRunning DEF DeliverUpdateLocked
  <2>2. Finish(w) \/ (UNCHANGED holder /\ pc' = [pc EXCEPT ![w] = "writing"])
    BY <1>7 DEF DeliverUpdateLocked, Apply, Save
  <2> QED BY <1>5, <2>1, <2>2
<1>8. ASSUME NEW w \in Window, DeliverUpdateUnlocked(w) PROVE LockHeld'
  BY <1>8, NeverWithoutLock
<1>9. ASSUME NEW w \in Window, DeliverReply(w) PROVE LockHeld'
  <2>1. pc[w] = "writing"
    BY <1>9, AnswerMeansRunning DEF DeliverReply
  <2> QED BY <1>9, <2>1 DEF DeliverReply
<1>10. ASSUME NEW w \in Window, Close(w) PROVE LockHeld'
  BY <1>10 DEF Close, Unlocked
<1>11. CASE UNCHANGED vars
  BY <1>11 DEF vars
<1> QED BY <1>1, <1>2, <1>3, <1>4, <1>6, <1>7, <1>8, <1>9, <1>10, <1>11 DEF Next, Step, Deliver

-------------------------------------------------------------------------------
(* What the messages under way say of storage.                              *)
Fresh(s, st) == \A i \in 1..Len(s) : s[i].ok /\ (s[i].kind = "update" => s[i].raw = st)
Blank(s)     == \A i \in 1..Len(s) : s[i].raw.version = "none"

LEMMA TailTells ==
  ASSUME NEW s \in Seq(Message), s # <<>>, NEW st
  PROVE  /\ Fresh(s, st) => /\ Fresh(Tail(s), st)
                            /\ Head(s).ok
                            /\ Head(s).kind = "update" => Head(s).raw = st
         /\ Blank(s) => Blank(Tail(s)) /\ Head(s).raw.version = "none"
<1>1. /\ Len(Tail(s)) = Len(s) - 1 /\ Len(s) \in Nat \ {0}
      /\ \A i \in 1..Len(Tail(s)) : Tail(s)[i] = s[i + 1] /\ i + 1 \in 1..Len(s)
      /\ Head(s) = s[1] /\ 1 \in 1..Len(s)
  BY HeadTailProperties
<1> QED BY <1>1 DEF Fresh, Blank

LEMMA PushTells ==
  ASSUME NEW s \in Seq(Message), NEW msg \in Message, NEW st
  PROVE  /\ Fresh(s, st) /\ msg.ok /\ (msg.kind = "update" => msg.raw = st)
              => Fresh(Append(s, msg), st)
         /\ Blank(s) /\ msg.raw.version = "none" => Blank(Append(s, msg))
<1>1. /\ Len(Append(s, msg)) = Len(s) + 1 /\ Len(s) \in Nat
      /\ \A i \in 1..Len(s) : Append(s, msg)[i] = s[i]
      /\ Append(s, msg)[Len(s) + 1] = msg
  BY AppendProperties
<1>2. \A i \in 1..Len(Append(s, msg)) : i \in 1..Len(s) \/ i = Len(s) + 1
  BY <1>1
<1> QED BY <1>1, <1>2 DEF Fresh, Blank

(* With no answer under way, the messages are as fresh for any other state. *)
LEMMA QuietIsFresh ==
  ASSUME NEW s \in Seq(Message), NEW st, Fresh(s, st), Quiet(s), NEW new
  PROVE  Fresh(s, new)
BY DEF Fresh, Quiet

(* A read under way tells what is stored.                                   *)
LEMMA GetTells ==
  ASSUME UnderLock, TypeOK, NEW w \in Window, NEW purpose \in {"sync", "load", "update"},
         NEW ch \in [Window -> Seq(Message)], Get(w, purpose, ch)
  PROVE  /\ stored' = stored
         /\ (\A v \in Window : Fresh(ch[v], stored)) => \A v \in Window : Fresh(channel'[v], stored')
         /\ stored.version = "none" /\ (\A v \in Window : Blank(ch[v]))
                => \A v \in Window : Blank(channel'[v])
<1>1. PICK msg \in Message : /\ msg.kind = purpose /\ msg.raw = stored
                             /\ msg.ok \/ budget.reads > 0
                             /\ channel'[w] = Append(ch[w], msg)
  BY GetFits
<1>2. \A v \in Window \ {w} : channel'[v] = ch[v]
  BY GetFits
<1>3. msg.ok
  BY <1>1 DEF UnderLock, TypeOK, Budget
<1>4. stored' = stored
  BY DEF Get
<1>5. ch[w] \in Seq(Message)
  OBVIOUS
<1>6. Fresh(ch[w], stored) => Fresh(channel'[w], stored)
  BY <1>1, <1>3, <1>5, PushTells
<1>7. stored.version = "none" /\ Blank(ch[w]) => Blank(channel'[w])
  BY <1>1, <1>5, PushTells
<1> QED BY <1>2, <1>4, <1>6, <1>7

(* A write makes no read under way stale: only the lock's holder waits for  *)
(* one, and its own has been answered.                                      *)
LEMMA SaveTells ==
  ASSUME UnderLock, TypeOK, NEW w \in Window, NEW next \in Content,
         NEW ch \in [Window -> Seq(Message)], Save(w, next, ch),
         \A v \in Window : Fresh(ch[v], stored) /\ Quiet(ch[v])
  PROVE  \A v \in Window : Fresh(channel'[v], stored')
<1> SUFFICES ASSUME NEW v \in Window PROVE Fresh(channel'[v], stored')
  OBVIOUS
<1>1. ch[v] \in Seq(Message) /\ Fresh(ch[v], stored')
  BY QuietIsFresh
<1>2. \A kind \in {"changed", "reply"} : /\ Signal(kind) \in Message /\ Signal(kind).ok
                                         /\ Signal(kind).kind # "update"
  BY SignalType DEF Signal
<1>3. /\ Append(ch[v], Signal("changed")) \in Seq(Message)
      /\ Fresh(Append(ch[v], Signal("changed")), stored')
  BY <1>1, <1>2, PushTells, AppendProperties
<1>4. Fresh(Append(Append(ch[v], Signal("changed")), Signal("reply")), stored')
  BY <1>2, <1>3, PushTells
<1>5. Fresh(Append(ch[v], Signal("reply")), stored')
  BY <1>1, <1>2, PushTells
<1>6. \/ channel'[v] = ch[v]
      \/ channel'[v] = Append(ch[v], Signal("changed"))
      \/ channel'[v] = Append(Append(ch[v], Signal("changed")), Signal("reply"))
      \/ channel'[v] = Append(ch[v], Signal("reply"))
  BY SaveFits
<1> QED BY <1>1, <1>3, <1>4, <1>5, <1>6

(* While one page reads or writes under the lock, no other waits for an     *)
(* answer.                                                                  *)
LEMMA OthersQuiet ==
  ASSUME TypeOK, WaitsForOwnAnswer, LockHeld, NEW w \in Window, holder = w,
         NEW v \in Window \ {w}
  PROVE  Quiet(channel[v])
<1>1. pc[v] \in {"idle", "waiting"}
  BY DEF LockHeld, TypeOK
<1> QED BY <1>1, QuietOutside

LEMMA FreshStep ==
  ASSUME UnderLock, TypeOK, WaitsForOwnAnswer, LockHeld, ReadIsFresh, [Next]_vars
  PROVE  ReadIsFresh'
<1> DEFINE Told == \A v \in Window : Fresh(channel'[v], stored')
<1>0. /\ channel \in [Window -> Seq(Message)]
      /\ \A v \in Window : Fresh(channel[v], stored) /\ channel[v] \in Seq(Message)
  BY DEF TypeOK, ReadIsFresh, Fresh
<1>1. ASSUME NEW w \in Window,
             \/ \E m \in Mutator : Update(w, m)
             \/ BeginLocked(w) \/ Open(w)
      PROVE  Told
  BY <1>0, <1>1 DEF Update, BeginLocked, Open, browserVars
<1>2. ASSUME NEW w \in Window, Load(w) \/ Grant(w) PROVE Told
  BY <1>0, <1>2, GetTells DEF Load, Grant, StartReading
<1>3. ASSUME NEW w \in Window,
             BeginUnlocked(w) \/ LockWaitExpires(w) \/ DeliverUpdateUnlocked(w)
      PROVE  Told
  BY <1>3, NeverWithoutLock
<1>4. ASSUME NEW w \in Window, Settle(w) PROVE Told
  BY <1>0, <1>4, GetTells DEF Settle, browserVars
<1>5. ASSUME NEW w \in Window, Close(w) PROVE Told
  <2>1. \A st : Fresh(<<>>, st)
    BY DEF Fresh
  <2> QED BY <1>0, <1>5, <2>1 DEF Close
<1>6. ASSUME NEW w \in Window, channel[w] # <<>>
      PROVE  /\ Popped(w) \in [Window -> Seq(Message)]
             /\ \A v \in Window : Fresh(Popped(w)[v], stored)
             /\ Head(channel[w]) \in Message
  <2>1. Fresh(Tail(channel[w]), stored)
    BY <1>0, <1>6, TailTells
  <2> QED BY <1>0, <1>6, <2>1, PoppedFits, PoppedType
<1>7. ASSUME NEW w \in Window, DeliverChanged(w) PROVE Told
  BY <1>6, <1>7, GetTells DEF DeliverChanged, Arrives
<1>8. ASSUME NEW w \in Window, DeliverSync(w) \/ DeliverLoad(w) \/ DeliverReply(w) PROVE Told
  BY <1>6, <1>8 DEF DeliverSync, DeliverLoad, DeliverReply, Arrives
<1>9. ASSUME NEW w \in Window, DeliverUpdateLocked(w) PROVE Told
  <2> DEFINE base == ReadCurrent(w, Head(channel[w]))
  <2>1. channel[w] # <<>> /\ Head(channel[w]).kind = "update"
    BY <1>9 DEF DeliverUpdateLocked, Arrives
  <2>2. /\ Popped(w) \in [Window -> Seq(Message)]
        /\ \A v \in Window : Fresh(Popped(w)[v], stored)
        /\ Head(channel[w]) \in Message
    BY <1>6, <2>1
  <2>3. pc[w] = "reading" /\ chain[w] # <<>>
    BY <1>9, AnswerMeansRunning DEF DeliverUpdateLocked
  <2>4. holder = w
    BY <2>3 DEF LockHeld
  <2>5. \A v \in Window : Quiet(Popped(w)[v])
    BY <2>1, <2>4, OthersQuiet, PoppedFits
  <2>6. base \in Content
    BY <2>2, FromStoredType, ContentAssumption DEF ReadCurrent, Message, TypeOK
  <2>7. Mutated(w, base) \in Content
    BY <2>3, <2>6, HeadTailProperties, MutatorAssumption DEF Mutated, TypeOK
  <2>8. CASE Save(w, Mutated(w, base), Popped(w))
    BY <2>2, <2>5, <2>7, <2>8, SaveTells
  <2>9. CASE channel' = Popped(w) /\ stored' = stored
    BY <2>2, <2>9
  <2> QED BY <1>9, <2>8, <2>9 DEF DeliverUpdateLocked, Apply
<1>10. ASSUME UNCHANGED vars PROVE Told
  BY <1>0, <1>10 DEF vars
<1>11. Told
  BY <1>1, <1>2, <1>3, <1>4, <1>5, <1>7, <1>8, <1>9, <1>10 DEF Next, Step, Deliver
<1> QED BY <1>11 DEF ReadIsFresh, Fresh

(* While storage is empty no step of a page changes what it could write:    *)
(* no write has happened, and none was refused.                             *)
LEMMA NothingStep ==
  ASSUME UnderLock, TypeOK, WaitsForOwnAnswer, NothingMeansDefault, [Next]_vars
  PROVE  NothingMeansDefault'
<1> DEFINE Told == \A v \in Window : Blank(channel'[v])
           Held == \A v \in Window : cached'[v] \in {NoCache, Default}
<1> SUFFICES ASSUME stored'.version = "none"
             PROVE  MaxWriteFailures = 0 /\ Told /\ Held
  BY DEF NothingMeansDefault, Blank
<1>1. ASSUME NEW w, NEW next, NEW ch, Save(w, next, ch) PROVE FALSE
  <2>1. stored' = stored /\ budget.writes > 0
    BY <1>1 DEF Save, Set
  <2>2. budget.writes \in 0..MaxWriteFailures /\ MaxWriteFailures = 0
    BY <2>1 DEF TypeOK, Budget, NothingMeansDefault
  <2> QED BY <2>1, <2>2
<1>2. stored' = stored
  <2>1. ASSUME NEW w, NEW purpose, NEW ch, Get(w, purpose, ch) PROVE stored' = stored
    BY <2>1 DEF Get
  <2>2. ASSUME NEW w, NEW base, NEW ch, Apply(w, base, ch) PROVE stored' = stored
    BY <1>1, <2>2 DEF Apply
  <2>3. ASSUME NEW w \in Window,
               \/ \E m \in Mutator : Update(w, m)
               \/ BeginLocked(w) \/ Open(w) \/ Close(w)
        PROVE  stored' = stored
    BY <2>3 DEF Update, BeginLocked, Open, Close, browserVars
  <2>4. ASSUME NEW w \in Window, Load(w) \/ Grant(w) \/ LockWaitExpires(w) \/ Settle(w)
        PROVE  stored' = stored
    BY <2>1, <2>4 DEF Load, Grant, LockWaitExpires, StartReading, Settle, browserVars
  <2>5. ASSUME NEW w \in Window, BeginUnlocked(w) PROVE stored' = stored
    BY <2>1, <2>2, <2>5 DEF BeginUnlocked
  <2>6. ASSUME NEW w \in Window, Deliver(w) PROVE stored' = stored
    <3>1. CASE DeliverChanged(w)
      BY <2>1, <3>1 DEF DeliverChanged
    <3>2. CASE DeliverUpdateLocked(w)
      BY <2>2, <3>2 DEF DeliverUpdateLocked
    <3>3. CASE DeliverUpdateUnlocked(w)
      BY <1>1, <3>3 DEF DeliverUpdateUnlocked
    <3>4. CASE DeliverSync(w) \/ DeliverLoad(w) \/ DeliverReply(w)
      BY <3>4 DEF DeliverSync, DeliverLoad, DeliverReply
    <3> QED BY <2>6, <3>1, <3>2, <3>3, <3>4 DEF Deliver
  <2> QED BY <2>3, <2>4, <2>5, <2>6 DEF Next, Step, vars
<1>3. /\ stored.version = "none" /\ MaxWriteFailures = 0
      /\ channel \in [Window -> Seq(Message)]
      /\ \A v \in Window : Blank(channel[v]) /\ channel[v] \in Seq(Message)
      /\ \A v \in Window : cached[v] \in {NoCache, Default}
      /\ cached \in [Window -> Content \union {NoCache}]
  BY <1>2 DEF NothingMeansDefault, TypeOK, Blank
<1>4. \A raw : raw.version = "none" => FromStored(raw) = Default
  BY DEF FromStored
<1>5. ASSUME NEW w \in Window,
             \/ \E m \in Mutator : Update(w, m)
             \/ BeginLocked(w) \/ Open(w)
      PROVE  Told /\ Held
  BY <1>3, <1>5 DEF Update, BeginLocked, Open, browserVars, cacheVars
<1>6. ASSUME NEW w \in Window, Load(w) \/ Grant(w) PROVE Told /\ Held
  BY <1>3, <1>6, GetTells DEF Load, Grant, StartReading, cacheVars
<1>7. ASSUME NEW w \in Window,
             BeginUnlocked(w) \/ LockWaitExpires(w) \/ DeliverUpdateUnlocked(w)
      PROVE  Told /\ Held
  BY <1>7, NeverWithoutLock
<1>8. ASSUME NEW w \in Window, Settle(w) PROVE Told /\ Held
  BY <1>3, <1>8, GetTells DEF Settle, browserVars
<1>9. ASSUME NEW w \in Window, Close(w) PROVE Told /\ Held
  <2>1. Blank(<<>>)
    BY DEF Blank
  <2> QED BY <1>3, <1>9, <2>1 DEF Close
<1>10. ASSUME NEW w \in Window, channel[w] # <<>>
       PROVE  /\ Popped(w) \in [Window -> Seq(Message)]
              /\ \A v \in Window : Blank(Popped(w)[v])
              /\ Head(channel[w]).raw.version = "none"
  <2>1. Blank(Tail(channel[w])) /\ Head(channel[w]).raw.version = "none"
    BY <1>3, <1>10, TailTells
  <2> QED BY <1>3, <1>10, <2>1, PoppedFits
<1>11. ASSUME NEW w \in Window, DeliverChanged(w) PROVE Told /\ Held
  BY <1>3, <1>10, <1>11, GetTells DEF DeliverChanged, Arrives, cacheVars
<1>12. ASSUME NEW w \in Window, DeliverSync(w) \/ DeliverLoad(w) PROVE Told /\ Held
  <2>1. channel[w] # <<>> /\ channel' = Popped(w)
    BY <1>12 DEF DeliverSync, DeliverLoad, Arrives
  <2>2. FromStored(Head(channel[w]).raw) = Default
    BY <1>4, <1>10, <2>1
  <2>3. \/ cached' = cached
        \/ cached' = [cached EXCEPT ![w] = Default]
        \/ cached' = [cached EXCEPT ![w] = cached[w]]
    BY <1>12, <2>2 DEF DeliverSync, DeliverLoad, AfterLoad, cacheVars
  <2> QED BY <1>3, <1>10, <2>1, <2>3
<1>13. ASSUME NEW w \in Window, DeliverUpdateLocked(w) PROVE Told /\ Held
  BY <1>1, <1>3, <1>10, <1>13 DEF DeliverUpdateLocked, Arrives, Apply, cacheVars
<1>14. ASSUME NEW w \in Window, DeliverReply(w) PROVE Told /\ Held
  BY <1>3, <1>10, <1>14 DEF DeliverReply, Arrives, cacheVars
<1>15. ASSUME UNCHANGED vars PROVE Told /\ Held
  BY <1>3, <1>15 DEF vars
<1>16. Told /\ Held
  BY <1>5, <1>6, <1>7, <1>8, <1>9, <1>11, <1>12, <1>13, <1>14, <1>15 DEF Next, Step, Deliver
<1> QED BY <1>3, <1>16

-------------------------------------------------------------------------------
(* Under the lock: every update past its wait holds the lock, the answer it *)
(* waits for is what storage still holds when it arrives, and an empty      *)
(* storage leaves nothing but the defaults to write.                        *)
THEOREM PromiseInvariant ==
  ASSUME UnderLock
  PROVE  Spec => [](TypeOK /\ PromiseInv)
<1>1. Init => TypeOK /\ PromiseInv
  <2>1. \A s : s = <<>> => Quiet(s) /\ s \in Seq(Message)
    BY DEF Quiet
  <2>2. \A step : AnswersFit(<<>>, step)
    BY <2>1, QuietFits
  <2>3. Init => WaitsForOwnAnswer /\ LockHeld /\ ReadIsFresh
    BY <2>2 DEF Init, WaitsForOwnAnswer, LockHeld, ReadIsFresh
  <2>4. Init => NothingMeansDefault
    BY DEF Init, NothingMeansDefault, UnderLock
  <2> QED BY <2>3, <2>4, InitType DEF PromiseInv
<1>2. TypeOK /\ PromiseInv /\ [Next]_vars => (TypeOK /\ PromiseInv)'
  BY TypeStep, AnswerStep, LockStep, FreshStep, NothingStep DEF PromiseInv
<1> QED BY <1>1, <1>2, PTL DEF Spec

(* What an update under the lock works on is what it will replace.          *)
LEMMA ReadsTheValue ==
  ASSUME TypeOK, PromiseInv, NEW w \in Window, Arrives(w, "update")
  PROVE  ReadCurrent(w, Head(channel[w])) = Value
<1>1. /\ 1 \in 1..Len(channel[w]) /\ Head(channel[w]) = channel[w][1]
      /\ Head(channel[w]).kind = "update"
  BY DEF Arrives, TypeOK
<1>2. Head(channel[w]).ok /\ Head(channel[w]).raw = stored
  BY <1>1 DEF PromiseInv, ReadIsFresh
<1>3. CASE stored.version # "none"
  BY <1>2, <1>3 DEF ReadCurrent, Value
<1>4. CASE stored.version = "none"
  BY <1>2, <1>4 DEF ReadCurrent, Value, FromStored, PromiseInv, NothingMeansDefault
<1> QED BY <1>3, <1>4

(* The mapped calls after a step that touches only one page's.              *)
LEMMA CallsAfter ==
  ASSUME TypeOK, NEW w \in Window, NEW s,
         \A v \in Window \ {w} : pc'[v] = pc[v] /\ chain'[v] = chain[v],
         s = IF pc'[w] \in {"writing", "written"} THEN Tail(chain'[w]) ELSE chain'[w]
  PROVE  Calls' = [Calls EXCEPT ![w] = s]
BY DEF Calls, WriteInFlight

LEMMA CallsSame ==
  ASSUME TypeOK, NEW w \in Window,
         \A v \in Window \ {w} : pc'[v] = pc[v] /\ chain'[v] = chain[v],
         (IF pc'[w] \in {"writing", "written"} THEN Tail(chain'[w]) ELSE chain'[w]) = Calls[w]
  PROVE  Calls' = Calls
BY DEF Calls, WriteInFlight

(* Every step of the store is a step of the shared value or none at all.    *)
LEMMA PromiseStep ==
  ASSUME UnderLock, TypeOK, PromiseInv, TypeOK', [Next]_vars
  PROVE  [Promise!Next]_<<Value, Calls>>
<1> DEFINE Stutter == Value' = Value /\ Calls' = Calls
<1>0. /\ \A w \in Window : chain[w] \in Seq(Mutator) /\ (pc[w] # "idle" => chain[w] # <<>>)
      /\ \A w \in Window : Calls[w] = IF pc[w] \in {"writing", "written"} THEN Tail(chain[w]) ELSE chain[w]
  BY DEF TypeOK, PromiseInv, WaitsForOwnAnswer, Calls, WriteInFlight
<1>1. ASSUME NEW w \in Window, NEW m \in Mutator, Update(w, m) PROVE Promise!Ask(w, m)
  <2>1. chain' = [chain EXCEPT ![w] = Append(@, m)] /\ pc' = pc /\ stored' = stored
    BY <1>1 DEF Update, browserVars
  <2>2. chain[w] # <<>> => Tail(Append(chain[w], m)) = Append(Tail(chain[w]), m)
    BY <1>0, HeadTailAppend
  <2>3. Append(Calls[w], m) = IF pc'[w] \in {"writing", "written"} THEN Tail(chain'[w]) ELSE chain'[w]
    BY <1>0, <2>1, <2>2 DEF TypeOK
  <2>4. Calls' = [Calls EXCEPT ![w] = Append(Calls[w], m)]
    BY <2>1, <2>3, CallsAfter DEF TypeOK
  <2> QED BY <2>1, <2>4 DEF Promise!Ask, Value
<1>2. ASSUME NEW w \in Window,
             \/ Load(w) \/ Open(w) \/ DeliverChanged(w) \/ DeliverSync(w) \/ DeliverLoad(w)
      PROVE  Stutter
  BY <1>2 DEF Load, Open, DeliverChanged, DeliverSync, DeliverLoad, Get, updateVars, browserVars,
     Value, Calls, WriteInFlight
<1>3. ASSUME NEW w \in Window, BeginLocked(w) \/ Grant(w) PROVE Stutter
  <2>1. /\ chain' = chain /\ stored' = stored
        /\ \E step \in {"waiting", "reading"} : pc' = [pc EXCEPT ![w] = step]
        /\ pc[w] \in {"idle", "waiting"}
    BY <1>3 DEF BeginLocked, Grant, StartReading, Get, browserVars
  <2>2. Calls' = Calls
    BY <1>0, <2>1, CallsSame DEF TypeOK
  <2> QED BY <2>1, <2>2 DEF Value
<1>4. ASSUME NEW w \in Window, DeliverReply(w) PROVE Stutter
  <2>1. pc[w] = "writing"
    BY <1>4, AnswerMeansRunning DEF DeliverReply, PromiseInv
  <2>2. /\ chain' = chain /\ stored' = stored /\ pc' = [pc EXCEPT ![w] = "written"]
    BY <1>4 DEF DeliverReply
  <2>3. Calls' = Calls
    BY <1>0, <2>1, <2>2, CallsSame DEF TypeOK
  <2> QED BY <2>2, <2>3 DEF Value
<1>5. ASSUME NEW w \in Window, Settle(w) PROVE Stutter
  <2>1. /\ pc[w] = "written" /\ stored' = stored /\ pc' = [pc EXCEPT ![w] = "idle"]
        /\ chain' = [chain EXCEPT ![w] = Tail(@)]
    BY <1>5 DEF Settle, Finish, Get, browserVars
  <2>2. Calls' = Calls
    BY <1>0, <2>1, CallsSame DEF TypeOK
  <2> QED BY <2>1, <2>2 DEF Value
<1>6. ASSUME NEW w \in Window, DeliverUpdateLocked(w) PROVE Promise!Perform(w) \/ Promise!Fail(w)
  <2>1. /\ pc[w] = "reading" /\ chain[w] # <<>> /\ Calls[w] = chain[w]
        /\ ReadCurrent(w, Head(channel[w])) = Value
    BY <1>0, <1>6, AnswerMeansRunning, ReadsTheValue DEF DeliverUpdateLocked, PromiseInv
  <2>2. Apply(w, Value, Popped(w))
    BY <1>6, <2>1 DEF DeliverUpdateLocked
  <2>3. CASE Mutated(w, Value) = Value
    <3>1. /\ pc' = [pc EXCEPT ![w] = "idle"] /\ chain' = [chain EXCEPT ![w] = Tail(@)]
          /\ stored' = stored
      BY <2>2, <2>3 DEF Apply, Finish
    <3>2. Calls' = [Calls EXCEPT ![w] = Tail(chain[w])]
      BY <3>1, CallsAfter DEF TypeOK
    <3>3. Value' = Value /\ Head(Calls[w])[Value] = Value
      BY <2>1, <2>3, <3>1 DEF Value, Mutated
    <3> QED BY <2>1, <3>2, <3>3 DEF Promise!Perform
  <2>4. CASE Mutated(w, Value) # Value
    <3>1. /\ Save(w, Mutated(w, Value), Popped(w)) /\ chain' = chain
          /\ pc' = [pc EXCEPT ![w] = "writing"]
      BY <2>2, <2>4 DEF Apply, Save
    <3>2. Calls' = [Calls EXCEPT ![w] = Tail(chain[w])]
      BY <3>1, CallsAfter DEF TypeOK
    <3>3. \/ stored' = [version |-> "current", content |-> Mutated(w, Value), stamp |-> writes + 1]
          \/ stored' = stored
      BY <3>1 DEF Save, Set
    <3>4. CASE stored' = [version |-> "current", content |-> Mutated(w, Value), stamp |-> writes + 1]
      <4>1. Value' = Head(Calls[w])[Value]
        BY <2>1, <3>4 DEF Value, FromStored, Mutated
      <4> QED BY <2>1, <3>2, <4>1 DEF Promise!Perform
    <3>5. CASE stored' = stored
      BY <2>1, <3>2, <3>5 DEF Promise!Fail, Value
    <3> QED BY <3>3, <3>4, <3>5
  <2> QED BY <2>3, <2>4
<1>7. ASSUME NEW w \in Window, Close(w) PROVE Promise!Abandon(w)
  <2>1. /\ chain' = [chain EXCEPT ![w] = <<>>] /\ pc' = [pc EXCEPT ![w] = "idle"]
        /\ stored' = stored
    BY <1>7 DEF Close
  <2>2. Calls' = [Calls EXCEPT ![w] = <<>>]
    BY <2>1, CallsAfter DEF TypeOK
  <2> QED BY <2>1, <2>2 DEF Promise!Abandon, Value
<1>8. ASSUME NEW w \in Window,
             BeginUnlocked(w) \/ LockWaitExpires(w) \/ DeliverUpdateUnlocked(w)
      PROVE  FALSE
  BY <1>8, NeverWithoutLock
<1>9. ASSUME UNCHANGED vars PROVE Stutter
  BY <1>9 DEF vars, Value, Calls, WriteInFlight
<1> QED BY <1>1, <1>2, <1>3, <1>4, <1>5, <1>6, <1>7, <1>8, <1>9 DEF Next, Step, Deliver, Promise!Next

(* Under the lock an update never writes over a state it has not seen: the  *)
(* store implements one shared value changed by one update at a time, in    *)
(* each page's order, whatever pages die and whichever writes are refused.  *)
THEOREM Implements ==
  ASSUME UnderLock
  PROVE  Spec => KeepsPromise
<1>1. Init => Promise!Init
  BY FromStoredType, SettingAssumption DEF Init, Promise!Init, Value, Calls, WriteInFlight, Stored
<1>2. TypeOK /\ PromiseInv /\ TypeOK' /\ [Next]_vars => [Promise!Next]_<<Value, Calls>>
  BY PromiseStep
<1>3. Spec => [](TypeOK /\ PromiseInv)
  BY PromiseInvariant
<1> QED BY <1>1, <1>2, <1>3, PTL DEF Spec, KeepsPromise, Promise!Spec, Promise!vars

-------------------------------------------------------------------------------
(* The caches: with and without the lock, expiring waits, refusals and      *)
(* pages that die.                                                          *)

IsRead(msg) == msg.kind \in {"sync", "load", "update"}

(* What the reads under way to a page tell comes in the order of the writes *)
(* and, once its own write has been answered, is no older than its cache.   *)
InOrder(s, step, newest, st) ==
  /\ \A i \in 1..Len(s) : IsRead(s[i]) => s[i].raw.stamp <= st
  /\ \A j \in 1..Len(s) : \A i \in 1..(j - 1) :
       IsRead(s[i]) /\ IsRead(s[j]) => s[i].raw.stamp <= s[j].raw.stamp
  /\ \A j \in 1..Len(s) :
       IsRead(s[j]) /\ (step # "writing" \/ \E i \in 1..(j - 1) : s[i].kind = "reply")
         => newest <= s[j].raw.stamp

ReadsInOrder ==
  /\ stored.stamp <= writes
  /\ \A w \in Window : /\ seen[w] <= stored.stamp
                       /\ InOrder(channel[w], pc[w], seen[w], stored.stamp)
                       /\ WriteInFlight(w) => cached[w] # NoCache

(* A message after which a page knows what is stored, or asks.              *)
News(msg, st) == msg.kind = "changed" \/ (msg.kind = "sync" /\ msg.raw = st)

Told(s, st) == \E i \in 1..Len(s) : News(s[i], st)

(* A read under way that tells something older is followed by news.         *)
Tracks(s, st) ==
  \A i \in 1..Len(s) : IsRead(s[i]) =>
    /\ s[i].ok
    /\ \/ s[i].raw = st
       \/ /\ s[i].raw.stamp # st.stamp
          /\ \E j \in (i + 1)..Len(s) : News(s[j], st)

(* A page that shows something else than what is stored has news under way, *)
(* or reads again once its write has settled; one that accounts for the     *)
(* newest write shows it; what it takes for its own writes it accounts for. *)
ConvergingOn(s, w) ==
  /\ Tracks(s, stored)
  /\ cached[w] \in {NoCache, FromStored(stored)} \/ resync[w] \/ Told(s, stored)
  /\ seen[w] = stored.stamp => cached[w] \in {NoCache, FromStored(stored)}
  /\ ownWrites[w] \in Seq(0..seen[w])
  /\ resync[w] => WriteInFlight(w)

Converging(w) == ConvergingOn(channel[w], w)

Gone(w) == channel[w] = <<>> /\ chain[w] = <<>> /\ cached[w] = NoCache /\ seen[w] = 0
             /\ ownWrites[w] = <<>> /\ ~resync[w]

ClosedIsGone == \A w \in Window \ open : Gone(w)

CacheInv == NothingRefused => \A w \in open : Converging(w)

(* InOrder, Told and Tracks when a channel loses its first message ...      *)
LEMMA TailInOrder ==
  ASSUME NEW s \in Seq(Message), s # <<>>, NEW step, NEW n \in Nat, NEW st \in Nat,
         InOrder(s, step, n, st)
  PROVE  /\ InOrder(Tail(s), step, n, st)
         /\ Head(s).kind = "reply" => \A other : InOrder(Tail(s), other, n, st)
         /\ IsRead(Head(s)) => Head(s).raw.stamp <= st
         /\ IsRead(Head(s)) /\ step # "writing" =>
              n <= Head(s).raw.stamp /\ InOrder(Tail(s), step, Head(s).raw.stamp, st)
<1>1. /\ Len(Tail(s)) = Len(s) - 1 /\ Len(s) \in Nat \ {0}
      /\ \A i \in 1..Len(Tail(s)) : Tail(s)[i] = s[i + 1] /\ i + 1 \in 1..Len(s)
      /\ Head(s) = s[1] /\ 1 \in 1..Len(s)
  BY HeadTailProperties
<1>2. \A i \in 1..Len(Tail(s)) : IsRead(Tail(s)[i]) => Tail(s)[i].raw.stamp <= st
  BY <1>1 DEF InOrder
<1>3. \A j \in 1..Len(Tail(s)) : \A i \in 1..(j - 1) :
        IsRead(Tail(s)[i]) /\ IsRead(Tail(s)[j]) => Tail(s)[i].raw.stamp <= Tail(s)[j].raw.stamp
  <2> TAKE j \in 1..Len(Tail(s))
  <2> TAKE i \in 1..(j - 1)
  <2>1. i + 1 \in 1..((j + 1) - 1) /\ j + 1 \in 1..Len(s) /\ i \in 1..Len(Tail(s))
    BY <1>1
  <2> QED BY <1>1, <2>1 DEF InOrder
<1>4. ASSUME NEW j \in 1..Len(Tail(s)), IsRead(Tail(s)[j]),
             step # "writing" \/ \E i \in 1..(j - 1) : Tail(s)[i].kind = "reply"
      PROVE  n <= Tail(s)[j].raw.stamp
  <2>1. j + 1 \in 1..Len(s) /\ Tail(s)[j] = s[j + 1]
    BY <1>1
  <2>2. ASSUME NEW i \in 1..(j - 1), Tail(s)[i].kind = "reply"
        PROVE  i + 1 \in 1..((j + 1) - 1) /\ s[i + 1].kind = "reply"
    <3>1. i \in 1..Len(Tail(s)) /\ i + 1 \in 1..((j + 1) - 1)
      BY <1>1
    <3> QED BY <1>1, <2>2, <3>1
  <2>3. step # "writing" \/ \E i \in 1..((j + 1) - 1) : s[i].kind = "reply"
    BY <1>4, <2>2
  <2> QED BY <1>4, <2>1, <2>3 DEF InOrder
<1>5. ASSUME NEW j \in 1..Len(Tail(s)), IsRead(Tail(s)[j]), Head(s).kind = "reply"
      PROVE  n <= Tail(s)[j].raw.stamp
  <2>1. j + 1 \in 1..Len(s) /\ Tail(s)[j] = s[j + 1] /\ 1 \in 1..((j + 1) - 1)
    BY <1>1
  <2> QED BY <1>1, <1>5, <2>1 DEF InOrder
<1>6. ASSUME NEW j \in 1..Len(Tail(s)), IsRead(Tail(s)[j]), IsRead(Head(s))
      PROVE  Head(s).raw.stamp <= Tail(s)[j].raw.stamp
  <2>1. j + 1 \in 1..Len(s) /\ Tail(s)[j] = s[j + 1] /\ 1 \in 1..((j + 1) - 1)
    BY <1>1
  <2> QED BY <1>1, <1>6, <2>1 DEF InOrder
<1>7. IsRead(Head(s)) => Head(s).raw.stamp <= st
  BY <1>1 DEF InOrder
<1>8. IsRead(Head(s)) /\ step # "writing" => n <= Head(s).raw.stamp
  BY <1>1 DEF InOrder
<1> HIDE DEF IsRead
<1>9. InOrder(Tail(s), step, n, st)
  BY <1>2, <1>3, <1>4 DEF InOrder
<1>10. Head(s).kind = "reply" => \A other : InOrder(Tail(s), other, n, st)
  BY <1>2, <1>3, <1>5 DEF InOrder
<1>11. IsRead(Head(s)) => InOrder(Tail(s), step, Head(s).raw.stamp, st)
  BY <1>2, <1>3, <1>6 DEF InOrder
<1> QED BY <1>7, <1>8, <1>9, <1>10, <1>11

LEMMA TailTracks ==
  ASSUME NEW s \in Seq(Message), s # <<>>, NEW st
  PROVE  /\ Told(s, st) => News(Head(s), st) \/ Told(Tail(s), st)
         /\ Tracks(s, st) =>
              /\ Tracks(Tail(s), st)
              /\ IsRead(Head(s)) =>
                   /\ Head(s).ok
                   /\ Head(s).raw = st \/ (Head(s).raw.stamp # st.stamp /\ Told(Tail(s), st))
<1>1. /\ Len(Tail(s)) = Len(s) - 1 /\ Len(s) \in Nat \ {0}
      /\ \A i \in 1..Len(Tail(s)) : Tail(s)[i] = s[i + 1] /\ i + 1 \in 1..Len(s)
      /\ Head(s) = s[1] /\ 1 \in 1..Len(s)
  BY HeadTailProperties
<1>2. ASSUME NEW i \in 0..Len(Tail(s)), NEW j \in ((i + 1) + 1)..Len(s), News(s[j], st)
      PROVE  \E k \in (i + 1)..Len(Tail(s)) : News(Tail(s)[k], st)
  <2>1. j - 1 \in (i + 1)..Len(Tail(s)) /\ j - 1 \in 1..Len(Tail(s)) /\ (j - 1) + 1 = j
    BY <1>1
  <2>2. Tail(s)[j - 1] = s[j]
    BY <1>1, <2>1
  <2> QED BY <1>2, <2>1, <2>2
<1>3. Told(s, st) => News(Head(s), st) \/ Told(Tail(s), st)
  <2> SUFFICES ASSUME NEW j \in 1..Len(s), News(s[j], st), j # 1 PROVE Told(Tail(s), st)
    BY <1>1 DEF Told
  <2>1. 0 \in 0..Len(Tail(s)) /\ j \in ((0 + 1) + 1)..Len(s) /\ 0 + 1 = 1
    BY <1>1
  <2>2. \E k \in (0 + 1)..Len(Tail(s)) : News(Tail(s)[k], st)
    BY <1>2, <2>1
  <2> QED BY <2>1, <2>2 DEF Told
<1>4. ASSUME Tracks(s, st) PROVE Tracks(Tail(s), st)
  <2> SUFFICES ASSUME NEW i \in 1..Len(Tail(s)), IsRead(Tail(s)[i])
               PROVE  /\ Tail(s)[i].ok
                      /\ \/ Tail(s)[i].raw = st
                         \/ /\ Tail(s)[i].raw.stamp # st.stamp
                            /\ \E j \in (i + 1)..Len(Tail(s)) : News(Tail(s)[j], st)
    BY DEF Tracks
  <2>1. i + 1 \in 1..Len(s) /\ Tail(s)[i] = s[i + 1] /\ i \in 0..Len(Tail(s))
    BY <1>1
  <2>2. /\ s[i + 1].ok
        /\ \/ s[i + 1].raw = st
           \/ /\ s[i + 1].raw.stamp # st.stamp
              /\ \E j \in ((i + 1) + 1)..Len(s) : News(s[j], st)
    BY <1>4, <2>1 DEF Tracks
  <2> QED BY <1>2, <2>1, <2>2
<1>5. ASSUME Tracks(s, st), IsRead(Head(s))
      PROVE  /\ Head(s).ok
             /\ Head(s).raw = st \/ (Head(s).raw.stamp # st.stamp /\ Told(Tail(s), st))
  <2>1. /\ s[1].ok
        /\ \/ s[1].raw = st
           \/ /\ s[1].raw.stamp # st.stamp
              /\ \E j \in (1 + 1)..Len(s) : News(s[j], st)
    BY <1>1, <1>5 DEF Tracks
  <2>2. 0 \in 0..Len(Tail(s)) /\ (0 + 1) + 1 = 1 + 1 /\ 0 + 1 = 1
    BY <1>1
  <2>3. ASSUME NEW j \in (1 + 1)..Len(s), News(s[j], st) PROVE Told(Tail(s), st)
    <3>1. \E k \in (0 + 1)..Len(Tail(s)) : News(Tail(s)[k], st)
      BY <1>2, <2>2, <2>3
    <3> QED BY <2>2, <3>1 DEF Told
  <2>4. Head(s) = s[1]
    BY <1>1
  <2> QED BY <2>1, <2>3, <2>4
<1> QED BY <1>3, <1>4, <1>5

(* ... and when one is put at its end.                                      *)
LEMMA PushInOrder ==
  ASSUME NEW s \in Seq(Message), NEW msg \in Message, NEW step, NEW n \in Nat, NEW st \in Nat,
         InOrder(s, step, n, st), n <= st, IsRead(msg) => msg.raw.stamp = st
  PROVE  InOrder(Append(s, msg), step, n, st)
<1>1. /\ Len(Append(s, msg)) = Len(s) + 1 /\ Len(s) \in Nat
      /\ \A i \in 1..Len(s) : Append(s, msg)[i] = s[i]
      /\ Append(s, msg)[Len(s) + 1] = msg
  BY AppendProperties
<1>2. \A i \in 1..Len(Append(s, msg)) : i \in 1..Len(s) \/ i = Len(s) + 1
  BY <1>1
<1>3. \A i \in 1..Len(s) : IsRead(s[i]) => s[i].raw.stamp <= st
  BY DEF InOrder
<1>4. \A j \in 1..Len(Append(s, msg)) : \A i \in 1..(j - 1) : i \in 1..Len(s) /\ Append(s, msg)[i] = s[i]
  BY <1>1
<1> HIDE DEF IsRead
<1>5. \A i \in 1..Len(Append(s, msg)) : IsRead(Append(s, msg)[i]) => Append(s, msg)[i].raw.stamp <= st
  BY <1>1, <1>2, <1>3
<1>6. \A j \in 1..Len(Append(s, msg)) : \A i \in 1..(j - 1) :
        IsRead(Append(s, msg)[i]) /\ IsRead(Append(s, msg)[j])
          => Append(s, msg)[i].raw.stamp <= Append(s, msg)[j].raw.stamp
  <2> TAKE j \in 1..Len(Append(s, msg))
  <2> TAKE i \in 1..(j - 1)
  <2>1. CASE j \in 1..Len(s)
    BY <1>1, <1>4, <2>1 DEF InOrder
  <2>2. CASE j = Len(s) + 1
    BY <1>1, <1>3, <1>4, <2>2
  <2> QED BY <1>2, <2>1, <2>2
<1>7. ASSUME NEW j \in 1..Len(Append(s, msg)), IsRead(Append(s, msg)[j]),
             step # "writing" \/ \E i \in 1..(j - 1) : Append(s, msg)[i].kind = "reply"
      PROVE  n <= Append(s, msg)[j].raw.stamp
  <2>1. CASE j \in 1..Len(s)
    BY <1>1, <1>4, <1>7, <2>1 DEF InOrder
  <2>2. CASE j = Len(s) + 1
    BY <1>1, <1>7, <2>2
  <2> QED BY <1>2, <2>1, <2>2
<1> QED BY <1>5, <1>6, <1>7 DEF InOrder

LEMMA PushTracks ==
  ASSUME NEW s \in Seq(Message), NEW msg \in Message, NEW st
  PROVE  /\ Told(s, st) \/ News(msg, st) => Told(Append(s, msg), st)
         /\ Tracks(s, st) /\ (IsRead(msg) => msg.ok /\ msg.raw = st) => Tracks(Append(s, msg), st)
<1>1. /\ Len(Append(s, msg)) = Len(s) + 1 /\ Len(s) \in Nat
      /\ \A i \in 1..Len(s) : Append(s, msg)[i] = s[i]
      /\ Append(s, msg)[Len(s) + 1] = msg
  BY AppendProperties
<1>2. \A i \in 1..Len(Append(s, msg)) : i \in 1..Len(s) \/ i = Len(s) + 1
  BY <1>1
<1>3. 1..Len(s) \subseteq 1..Len(Append(s, msg)) /\ Len(s) + 1 \in 1..Len(Append(s, msg))
  BY <1>1
<1>4. Told(s, st) \/ News(msg, st) => Told(Append(s, msg), st)
  BY <1>1, <1>3 DEF Told
<1>5. \A i \in 1..Len(s) : \A j \in (i + 1)..Len(s) :
        j \in 1..Len(s) /\ j \in (i + 1)..Len(Append(s, msg)) /\ Append(s, msg)[j] = s[j]
  BY <1>1
<1>6. ASSUME Tracks(s, st), IsRead(msg) => msg.ok /\ msg.raw = st,
             NEW i \in 1..Len(Append(s, msg)), IsRead(Append(s, msg)[i])
      PROVE  /\ Append(s, msg)[i].ok
             /\ \/ Append(s, msg)[i].raw = st
                \/ /\ Append(s, msg)[i].raw.stamp # st.stamp
                   /\ \E j \in (i + 1)..Len(Append(s, msg)) : News(Append(s, msg)[j], st)
  <2>1. CASE i \in 1..Len(s)
    <3>1. /\ s[i].ok
          /\ \/ s[i].raw = st
             \/ s[i].raw.stamp # st.stamp /\ \E j \in (i + 1)..Len(s) : News(s[j], st)
      <4>1. IsRead(s[i])
        BY <1>1, <1>6, <2>1
      <4> QED BY <1>6, <2>1, <4>1 DEF Tracks
    <3> QED BY <1>1, <1>5, <2>1, <3>1
  <2>2. CASE i = Len(s) + 1
    BY <1>1, <1>6, <2>2
  <2> QED BY <1>2, <2>1, <2>2
<1> QED BY <1>4, <1>6 DEF Tracks

(* A write makes old what the reads under way tell; its announcement comes  *)
(* after them.                                                              *)
LEMMA WriteTracks ==
  ASSUME NEW s \in Seq(Message), NEW st, NEW new, NEW n \in Nat, NEW step, NEW now \in Nat,
         Tracks(s, st), InOrder(s, step, n, now), new.stamp \in Nat, now < new.stamp
  PROVE  Tracks(Append(s, Signal("changed")), new)
<1> DEFINE msg == Signal("changed")
<1>1. msg \in Message /\ News(msg, new) /\ ~IsRead(msg)
  BY SignalType DEF Signal, News, IsRead
<1> HIDE DEF msg
<1>2. /\ Len(Append(s, msg)) = Len(s) + 1 /\ Len(s) \in Nat
      /\ \A i \in 1..Len(s) : Append(s, msg)[i] = s[i] /\ s[i] \in Message
      /\ Append(s, msg)[Len(s) + 1] = msg
  BY <1>1, AppendProperties
<1>3. SUFFICES ASSUME NEW i \in 1..Len(Append(s, msg)), IsRead(Append(s, msg)[i])
               PROVE  /\ Append(s, msg)[i].ok
                      /\ Append(s, msg)[i].raw.stamp # new.stamp
                      /\ \E j \in (i + 1)..Len(Append(s, msg)) : News(Append(s, msg)[j], new)
  BY DEF Tracks, msg
<1>4. i \in 1..Len(s) /\ IsRead(s[i]) /\ Append(s, msg)[i] = s[i]
  BY <1>1, <1>2, <1>3
<1>5. s[i].ok /\ s[i].raw.stamp <= now /\ s[i].raw.stamp \in Nat
  BY <1>2, <1>4 DEF Tracks, InOrder, Message, Stored
<1>6. Len(s) + 1 \in (i + 1)..Len(Append(s, msg))
  BY <1>2, <1>4
<1> QED BY <1>1, <1>2, <1>4, <1>5, <1>6

(* A page has no reply to wait for: what it accounts for may grow by its    *)
(* write.                                                                   *)
LEMMA QuietInOrder ==
  ASSUME NEW s \in Seq(Message), NEW step, NEW n \in Nat, NEW st \in Nat, InOrder(s, step, n, st),
         NEW st2 \in Nat, st <= st2
  PROVE  /\ InOrder(s, step, n, st2)
         /\ Quiet(s) => \A m : InOrder(s, "writing", m, st2)
<1>1. \A i \in 1..Len(s) : IsRead(s[i]) => s[i].raw.stamp <= st2
  <2> TAKE i \in 1..Len(s)
  <2>1. s[i] \in Message
    OBVIOUS
  <2>2. s[i].raw.stamp \in Nat
    BY <2>1 DEF Message, Stored
  <2> QED BY <2>2 DEF InOrder
<1>2. InOrder(s, step, n, st2)
  BY <1>1 DEF InOrder
<1>3. Quiet(s) => \A j \in 1..Len(s) : \A i \in 1..(j - 1) : s[i].kind # "reply"
  BY DEF Quiet
<1>4. Quiet(s) => \A m : InOrder(s, "writing", m, st2)
  BY <1>1, <1>3 DEF InOrder
<1> QED BY <1>2, <1>4

(* A page that waits for no reply may go on to any step.                    *)
LEMMA StepInOrder ==
  ASSUME NEW s, NEW step, step # "writing", NEW n, NEW st, InOrder(s, step, n, st)
  PROVE  \A other : InOrder(s, other, n, st)
BY DEF InOrder

(* Reads asked for and writes made keep the order.                          *)
LEMMA GetInOrder ==
  ASSUME TypeOK, NEW w \in Window, NEW purpose \in {"sync", "load", "update"},
         NEW ch \in [Window -> Seq(Message)], Get(w, purpose, ch),
         NEW step, NEW n, \A v \in Window : n[v] \in Nat /\ n[v] <= stored.stamp,
         \A v \in Window : InOrder(ch[v], step[v], n[v], stored.stamp)
  PROVE  \A v \in Window : InOrder(channel'[v], step[v], n[v], stored.stamp)
<1>1. stored.stamp \in Nat
  BY DEF TypeOK, Stored
<1>2. PICK msg \in Message : /\ msg.raw = stored
                             /\ channel'[w] = Append(ch[w], msg)
  BY GetFits
<1>3. \A v \in Window \ {w} : channel'[v] = ch[v]
  BY GetFits
<1>4. ch[w] \in Seq(Message) /\ n[w] \in Nat /\ n[w] <= stored.stamp
      /\ InOrder(ch[w], step[w], n[w], stored.stamp) /\ msg.raw.stamp = stored.stamp
  BY <1>2
<1>5. InOrder(channel'[w], step[w], n[w], stored.stamp)
  BY <1>1, <1>2, <1>4, PushInOrder
<1> QED BY <1>3, <1>5

LEMMA SaveInOrder ==
  ASSUME TypeOK, NEW w \in Window, NEW next \in Content,
         NEW ch \in [Window -> Seq(Message)], Save(w, next, ch), Quiet(ch[w]),
         \A v \in Window : /\ InOrder(ch[v], pc[v], seen[v], stored.stamp)
                           /\ seen[v] <= stored.stamp
                           /\ WriteInFlight(v) => cached[v] # NoCache,
         stored.stamp <= writes
  PROVE  ReadsInOrder' /\ \A v \in Window : seen[v] <= seen'[v]
<1>1. /\ stored.stamp \in Nat /\ writes \in Nat /\ seen \in [Window -> Nat]
      /\ pc \in [Window -> {"idle", "waiting", "reading", "writing", "written"}]
      /\ cached \in [Window -> Content \union {NoCache}]
  BY DEF TypeOK, Stored
<1>2. /\ writes' = writes + 1
      /\ pc' = [pc EXCEPT ![w] = "writing"]
      /\ cached' = [cached EXCEPT ![w] = next]
      /\ \/ stored'.stamp = writes + 1 /\ seen' = [seen EXCEPT ![w] = writes + 1]
         \/ stored' = stored /\ seen' = seen
  BY DEF Save, Set
<1>3. /\ stored'.stamp \in Nat /\ stored.stamp <= stored'.stamp /\ stored'.stamp <= writes'
      /\ \A v \in Window : /\ seen'[v] \in Nat /\ seen'[v] <= stored'.stamp /\ seen[v] <= seen'[v]
                           /\ v # w => seen'[v] = seen[v]
  BY <1>1, <1>2
<1>4. /\ Signal("changed") \in Message /\ ~IsRead(Signal("changed"))
      /\ Signal("reply") \in Message /\ ~IsRead(Signal("reply"))
  BY SignalType DEF Signal, IsRead
<1>5. InOrder(channel'[w], "writing", seen'[w], stored'.stamp)
  <2>1. ch[w] \in Seq(Message) /\ seen[w] \in Nat /\ InOrder(ch[w], pc[w], seen[w], stored.stamp)
    BY <1>1
  <2>2. InOrder(ch[w], "writing", seen'[w], stored'.stamp)
    BY <1>1, <1>3, <2>1, QuietInOrder
  <2>3. \A s \in Seq(Message) : \A msg \in Message :
          ~IsRead(msg) /\ InOrder(s, "writing", seen'[w], stored'.stamp)
            => Append(s, msg) \in Seq(Message) /\ InOrder(Append(s, msg), "writing", seen'[w], stored'.stamp)
    BY <1>3, PushInOrder, AppendProperties
  <2>4. /\ Append(ch[w], Signal("changed")) \in Seq(Message)
        /\ InOrder(Append(ch[w], Signal("changed")), "writing", seen'[w], stored'.stamp)
        /\ InOrder(Append(ch[w], Signal("reply")), "writing", seen'[w], stored'.stamp)
    BY <1>4, <2>1, <2>2, <2>3
  <2>5. InOrder(Append(Append(ch[w], Signal("changed")), Signal("reply")), "writing", seen'[w], stored'.stamp)
    BY <1>4, <2>3, <2>4
  <2> QED BY <2>2, <2>4, <2>5, SaveFits
<1>6. ASSUME NEW v \in Window \ {w} PROVE InOrder(channel'[v], pc[v], seen[v], stored'.stamp)
  <2>1. ch[v] \in Seq(Message) /\ seen[v] \in Nat /\ InOrder(ch[v], pc[v], seen[v], stored.stamp)
        /\ seen[v] <= stored'.stamp
    BY <1>1, <1>3
  <2>2. InOrder(ch[v], pc[v], seen[v], stored'.stamp)
    BY <1>1, <1>3, <2>1, QuietInOrder
  <2>3. InOrder(Append(ch[v], Signal("changed")), pc[v], seen[v], stored'.stamp)
    BY <1>3, <1>4, <2>1, <2>2, PushInOrder
  <2> QED BY <2>2, <2>3, SaveFits
<1>7. \A v \in Window : InOrder(channel'[v], pc'[v], seen'[v], stored'.stamp)
  BY <1>1, <1>2, <1>3, <1>5, <1>6
<1>8. \A v \in Window : pc'[v] \in {"writing", "written"} => cached'[v] # NoCache
  BY <1>1, <1>2, ContentAssumption DEF WriteInFlight
<1> QED BY <1>3, <1>7, <1>8 DEF ReadsInOrder, WriteInFlight

LEMMA ApplyInOrder ==
  ASSUME TypeOK, NEW w \in Window, NEW base \in Content, chain[w] # <<>>,
         NEW ch \in [Window -> Seq(Message)], Apply(w, base, ch), Quiet(ch[w]),
         pc[w] # "writing",
         \A v \in Window : /\ InOrder(ch[v], pc[v], seen[v], stored.stamp)
                           /\ seen[v] <= stored.stamp
                           /\ WriteInFlight(v) => cached[v] # NoCache,
         stored.stamp <= writes
  PROVE  ReadsInOrder' /\ \A v \in Window : seen[v] <= seen'[v]
<1>1. Mutated(w, base) \in Content
  BY HeadTailProperties, MutatorAssumption DEF Mutated, TypeOK
<1>2. CASE Mutated(w, base) # base
  BY <1>1, <1>2, SaveInOrder DEF Apply
<1>3. CASE Mutated(w, base) = base
  <2>1. /\ pc' = [pc EXCEPT ![w] = "idle"] /\ channel' = ch
        /\ UNCHANGED <<stored, seen, cached, writes>>
    BY <1>3 DEF Apply, Finish, cacheVars
  <2>2. stored.stamp \in Nat /\ ch[w] \in Seq(Message) /\ seen \in [Window -> Nat]
        /\ pc \in [Window -> {"idle", "waiting", "reading", "writing", "written"}]
    BY DEF TypeOK, Stored
  <2>3. InOrder(ch[w], "idle", seen[w], stored.stamp)
    BY StepInOrder
  <2>4. \A v \in Window : InOrder(channel'[v], pc'[v], seen'[v], stored'.stamp)
    BY <2>1, <2>2, <2>3
  <2>5. \A v \in Window : pc'[v] \in {"writing", "written"} => cached'[v] # NoCache
    BY <2>1, <2>2 DEF WriteInFlight
  <2> QED BY <2>1, <2>2, <2>4, <2>5 DEF ReadsInOrder, WriteInFlight
<1> QED BY <1>2, <1>3

LEMMA PoppedInOrder ==
  ASSUME TypeOK, WaitsForOwnAnswer, ReadsInOrder, NEW w \in Window, channel[w] # <<>>
  PROVE  /\ \A v \in Window : InOrder(Popped(w)[v], pc[v], seen[v], stored.stamp)
         /\ Head(channel[w]).kind = "reply" => \A step : InOrder(Popped(w)[w], step, seen[w], stored.stamp)
         /\ IsRead(Head(channel[w])) =>
              /\ Head(channel[w]).raw.stamp \in Nat
              /\ Head(channel[w]).raw.stamp <= stored.stamp
              /\ pc[w] # "writing" =>
                   /\ seen[w] <= Head(channel[w]).raw.stamp
                   /\ \A step : InOrder(Popped(w)[w], step, Head(channel[w]).raw.stamp, stored.stamp)
<1>1. /\ channel[w] \in Seq(Message) /\ seen[w] \in Nat /\ stored.stamp \in Nat
      /\ InOrder(channel[w], pc[w], seen[w], stored.stamp)
  BY DEF TypeOK, Stored, ReadsInOrder
<1>2. /\ \A v \in Window \ {w} : Popped(w)[v] = channel[v]
      /\ Popped(w)[w] = Tail(channel[w])
      /\ Tail(channel[w]) \in Seq(Message)
      /\ Head(channel[w]) \in Message
  BY <1>1, PoppedFits, PoppedType, HeadTailProperties
<1>3. Head(channel[w]).raw.stamp \in Nat
  BY <1>2 DEF Message, Stored
<1>4. /\ InOrder(Tail(channel[w]), pc[w], seen[w], stored.stamp)
      /\ Head(channel[w]).kind = "reply" => \A step : InOrder(Tail(channel[w]), step, seen[w], stored.stamp)
      /\ IsRead(Head(channel[w])) => Head(channel[w]).raw.stamp <= stored.stamp
      /\ IsRead(Head(channel[w])) /\ pc[w] # "writing" =>
           /\ seen[w] <= Head(channel[w]).raw.stamp
           /\ InOrder(Tail(channel[w]), pc[w], Head(channel[w]).raw.stamp, stored.stamp)
  BY <1>1, TailInOrder
<1>5. IsRead(Head(channel[w])) /\ pc[w] # "writing" =>
        \A step : InOrder(Tail(channel[w]), step, Head(channel[w]).raw.stamp, stored.stamp)
  BY <1>4, StepInOrder
<1> QED BY <1>2, <1>3, <1>4, <1>5 DEF ReadsInOrder

(* The order is kept by every step, and no step of a page takes its cache   *)
(* back.                                                                    *)
LEMMA OrderStep ==
  ASSUME TypeOK, WaitsForOwnAnswer, ReadsInOrder, [Next]_vars
  PROVE  ReadsInOrder' /\ \A w \in open \intersect open' : seen'[w] >= seen[w]
<1> DEFINE Kept == ReadsInOrder' /\ \A w \in open \intersect open' : seen[w] <= seen'[w]
<1>0. /\ stored.stamp \in Nat /\ writes \in Nat /\ stored.stamp <= writes
      /\ seen \in [Window -> Nat] /\ seen' \in [Window -> Nat] /\ open \subseteq Window
      /\ channel \in [Window -> Seq(Message)]
      /\ cached \in [Window -> Content \union {NoCache}]
      /\ pc \in [Window -> {"idle", "waiting", "reading", "writing", "written"}]
      /\ \A v \in Window : /\ channel[v] \in Seq(Message)
                           /\ InOrder(channel[v], pc[v], seen[v], stored.stamp)
                           /\ seen[v] <= stored.stamp
                           /\ pc[v] \in {"writing", "written"} => cached[v] # NoCache
  BY TypeStep DEF TypeOK, Stored, ReadsInOrder, WriteInFlight
<1>01. ASSUME NEW w \in Window, pc[w] # "writing"
       PROVE  \A step : InOrder(channel[w], step, seen[w], stored.stamp)
  BY <1>0, <1>01, StepInOrder
(* A step that changes no order but what `ch` and `now` say.                *)
<1>02. ASSUME stored' = stored, writes' = writes,
              \A v \in Window : seen'[v] <= stored.stamp /\ seen[v] <= seen'[v],
              \A v \in Window : InOrder(channel'[v], pc'[v], seen'[v], stored.stamp),
              \A v \in Window : pc'[v] \in {"writing", "written"} => cached'[v] # NoCache
       PROVE  Kept
  BY <1>0, <1>02 DEF ReadsInOrder, WriteInFlight
<1>1. ASSUME NEW w \in Window,
             \/ \E m \in Mutator : Update(w, m)
             \/ Open(w)
      PROVE  Kept
  <2>1. UNCHANGED <<stored, writes, seen, channel, pc, cached>>
    BY <1>1 DEF Update, Open, browserVars, cacheVars, updateVars
  <2> QED BY <1>0, <1>02, <2>1
<1>2. ASSUME NEW w \in Window, Load(w) PROVE Kept
  <2>1. UNCHANGED <<stored, writes, seen, pc, cached>> /\ Get(w, "load", channel)
    BY <1>2 DEF Load, Get, cacheVars, updateVars
  <2>2. \A v \in Window : InOrder(channel'[v], pc[v], seen[v], stored.stamp)
    BY <1>0, <2>1, GetInOrder
  <2> QED BY <1>0, <1>02, <2>1, <2>2
<1>3. ASSUME NEW w \in Window, BeginLocked(w) PROVE Kept
  <2>1. UNCHANGED <<stored, writes, seen, channel, cached>> /\ pc' = [pc EXCEPT ![w] = "waiting"]
        /\ pc[w] # "writing"
    BY <1>3 DEF BeginLocked, browserVars, cacheVars
  <2>2. \A v \in Window : InOrder(channel[v], pc'[v], seen[v], stored.stamp)
    BY <1>0, <1>01, <2>1
  <2> QED BY <1>0, <1>02, <2>1, <2>2
<1>4. ASSUME NEW w \in Window, pc[w] # "writing", pc' = [pc EXCEPT ![w] = "reading"],
             Get(w, "update", channel), UNCHANGED <<writes, seen, cached>>
      PROVE  Kept
  <2>1. \A v \in Window : InOrder(channel[v], pc'[v], seen[v], stored.stamp)
    BY <1>0, <1>01, <1>4
  <2>2. stored' = stored
    BY <1>4 DEF Get
  <2>3. \A v \in Window : InOrder(channel'[v], pc'[v], seen[v], stored.stamp)
    <3> DEFINE step == pc'
    <3>1. \A v \in Window : seen[v] \in Nat /\ seen[v] <= stored.stamp
      BY <1>0
    <3>2. \A v \in Window : InOrder(channel[v], step[v], seen[v], stored.stamp)
      BY <2>1
    <3> HIDE DEF step
    <3>3. \A v \in Window : InOrder(channel'[v], step[v], seen[v], stored.stamp)
      BY <1>0, <1>4, <3>1, <3>2, GetInOrder
    <3> QED BY <3>3 DEF step
  <2>4. \A v \in Window : pc'[v] \in {"writing", "written"} => cached'[v] # NoCache
    BY <1>0, <1>4
  <2> QED BY <1>0, <1>02, <1>4, <2>2, <2>3, <2>4
<1>5. ASSUME NEW w \in Window, Grant(w) \/ LockWaitExpires(w) PROVE Kept
  BY <1>4, <1>5 DEF Grant, LockWaitExpires, StartReading, cacheVars
<1>6. ASSUME NEW w \in Window, BeginUnlocked(w) PROVE Kept
  <2>1. Quiet(channel[w]) /\ chain[w] # <<>> /\ pc[w] = "idle"
    BY <1>6, QuietOutside DEF BeginUnlocked
  <2>2. CASE cached[w] # NoCache
    <3>1. cached[w] \in Content
      BY <1>0, <2>2
    <3>2. Apply(w, cached[w], channel)
      BY <1>6, <2>2 DEF BeginUnlocked
    <3> QED BY <1>0, <2>1, <3>1, <3>2, ApplyInOrder DEF WriteInFlight
  <2>3. CASE cached[w] = NoCache
    BY <1>4, <1>6, <2>1, <2>3 DEF BeginUnlocked, cacheVars
  <2> QED BY <2>2, <2>3
<1>7. ASSUME NEW w \in Window, Settle(w) PROVE Kept
  <2>1. UNCHANGED <<stored, writes, seen, cached>> /\ pc' = [pc EXCEPT ![w] = "idle"] /\ pc[w] # "writing"
    BY <1>7 DEF Settle, Finish, Get, browserVars
  <2>2. \A v \in Window : InOrder(channel[v], pc'[v], seen[v], stored.stamp)
    BY <1>0, <1>01, <2>1
  <2>3. CASE resync[w]
    <3>1. \A v \in Window : InOrder(channel'[v], pc'[v], seen[v], stored.stamp)
      BY <1>0, <1>7, <2>2, <2>3, GetInOrder DEF Settle
    <3> QED BY <1>0, <1>02, <2>1, <3>1
  <2>4. CASE ~resync[w]
    <3>1. channel' = channel
      BY <1>7, <2>4 DEF Settle, browserVars
    <3> QED BY <1>0, <1>02, <2>1, <2>2, <3>1
  <2> QED BY <2>3, <2>4
<1>8. ASSUME NEW w \in Window, Close(w) PROVE Kept
  <2>1. /\ UNCHANGED <<stored, writes>> /\ pc' = [pc EXCEPT ![w] = "idle"]
        /\ channel' = [channel EXCEPT ![w] = <<>>] /\ seen' = [seen EXCEPT ![w] = 0]
        /\ cached' = [cached EXCEPT ![w] = NoCache] /\ open' = open \ {w}
    BY <1>8 DEF Close
  <2>2. \A step, n, st : InOrder(<<>>, step, n, st)
    BY DEF InOrder
  <2>3. \A v \in Window : InOrder(channel'[v], pc'[v], seen'[v], stored.stamp)
    BY <1>0, <2>1, <2>2
  <2> QED BY <1>0, <2>1, <2>3 DEF ReadsInOrder, WriteInFlight
<1>9. ASSUME NEW w \in Window, Deliver(w) PROVE Kept
  <2> DEFINE msg == Head(channel[w])
             raw == Head(channel[w]).raw
  <2>0. channel[w] # <<>>
    BY <1>9 DEF Deliver, DeliverChanged, DeliverSync, DeliverLoad,
       DeliverUpdateLocked, DeliverUpdateUnlocked, DeliverReply, Arrives
  <2>1. /\ Popped(w) \in [Window -> Seq(Message)]
        /\ \A v \in Window : Popped(w)[v] \in Seq(Message)
        /\ msg.kind \in {"update", "reply"} => Quiet(Popped(w)[w])
        /\ msg \in Message /\ raw \in Stored /\ FromStored(raw) \in Content
    BY <2>0, PoppedFits, PoppedType, FromStoredType DEF Message
  <2>2. \A v \in Window : InOrder(Popped(w)[v], pc[v], seen[v], stored.stamp)
    BY <2>0, PoppedInOrder
  <2>3. ASSUME IsRead(msg)
        PROVE  /\ raw.stamp \in Nat /\ raw.stamp <= stored.stamp
               /\ pc[w] # "writing" => /\ seen[w] <= raw.stamp
                                       /\ \A step : InOrder(Popped(w)[w], step, raw.stamp, stored.stamp)
    BY <2>0, <2>3, PoppedInOrder
  <2> HIDE DEF msg, raw
  <2>4. CASE DeliverChanged(w)
    <3>1. UNCHANGED <<stored, writes, seen, pc, cached>> /\ Get(w, "sync", Popped(w))
      BY <2>4 DEF DeliverChanged, Get, cacheVars, updateVars
    <3>2. \A v \in Window : InOrder(channel'[v], pc[v], seen[v], stored.stamp)
      BY <1>0, <2>1, <2>2, <3>1, GetInOrder
    <3> QED BY <1>0, <1>02, <3>1, <3>2
  <2>5. ASSUME UNCHANGED <<stored, writes, seen, cached, pc>>, channel' = Popped(w)
        PROVE  Kept
    BY <1>0, <1>02, <2>2, <2>5
  <2>6. ASSUME UNCHANGED <<stored, writes>>, channel' = Popped(w), IsRead(msg), pc[w] # "writing",
               \/ pc' = pc /\ pc[w] # "written"
               \/ pc' = [pc EXCEPT ![w] = "idle"],
               cached' = [cached EXCEPT ![w] = FromStored(raw)],
               seen' = [seen EXCEPT ![w] = raw.stamp]
        PROVE  Kept
    <3>1. InOrder(Popped(w)[w], pc'[w], raw.stamp, stored.stamp) /\ seen[w] <= raw.stamp
          /\ raw.stamp \in Nat /\ raw.stamp <= stored.stamp
      BY <2>3, <2>6
    <3>2. \A v \in Window : InOrder(channel'[v], pc'[v], seen'[v], stored.stamp)
      BY <1>0, <2>2, <2>6, <3>1
    <3>3. \A v \in Window : pc'[v] \in {"writing", "written"} => cached'[v] # NoCache
      BY <1>0, <2>1, <2>6
    <3> QED BY <1>0, <1>02, <2>6, <3>1, <3>2, <3>3
  <2>7. CASE DeliverSync(w)
    <3>1. IsRead(msg) /\ channel' = Popped(w) /\ UNCHANGED <<stored, writes, pc>>
      BY <2>7 DEF DeliverSync, Arrives, IsRead, updateVars, msg
    <3>2. \/ UNCHANGED <<cached, seen>>
          \/ /\ pc[w] \notin {"writing", "written"}
             /\ cached' = [cached EXCEPT ![w] = FromStored(raw)]
             /\ seen' = [seen EXCEPT ![w] = raw.stamp]
      BY <2>7 DEF DeliverSync, WriteInFlight, cacheVars, raw
    <3> QED BY <2>5, <2>6, <3>1, <3>2
  <2>8. CASE DeliverLoad(w)
    <3>1. IsRead(msg) /\ channel' = Popped(w) /\ UNCHANGED <<stored, writes, pc>>
      BY <2>8 DEF DeliverLoad, Arrives, IsRead, updateVars, msg
    <3>2. \/ UNCHANGED <<cached, seen>>
          \/ /\ cached[w] = NoCache
             /\ cached' = [cached EXCEPT ![w] = FromStored(raw)]
             /\ seen' = [seen EXCEPT ![w] = raw.stamp]
      BY <1>0, <2>8 DEF DeliverLoad, AfterLoad, SeenAfterLoad, raw
    <3>3. cached[w] = NoCache => pc[w] \notin {"writing", "written"}
      BY <1>0
    <3> QED BY <2>5, <2>6, <3>1, <3>2, <3>3
  <2>9. CASE DeliverUpdateLocked(w)
    <3>1. pc[w] = "reading" /\ chain[w] # <<>> /\ Quiet(Popped(w)[w])
      BY <2>1, <2>9, AnswerMeansRunning DEF DeliverUpdateLocked, Arrives, msg
    <3>2. ReadCurrent(w, msg) \in Content
      BY <1>0, <2>1, ContentAssumption DEF ReadCurrent, msg, raw
    <3>3. Apply(w, ReadCurrent(w, msg), Popped(w))
      BY <2>9 DEF DeliverUpdateLocked, msg
    <3> QED BY <1>0, <2>1, <2>2, <3>1, <3>2, <3>3, ApplyInOrder DEF WriteInFlight
  <2>10. CASE DeliverUpdateUnlocked(w)
    <3> DEFINE base == AfterLoad(w, raw)
    <3>1. pc[w] = "reading" /\ chain[w] # <<>> /\ Quiet(Popped(w)[w]) /\ IsRead(msg)
      BY <2>1, <2>10, AnswerMeansRunning DEF DeliverUpdateUnlocked, Arrives, IsRead, msg
    <3>2. base \in Content
      BY <1>0, <2>1 DEF AfterLoad
    <3>3. Mutated(w, base) \in Content
      BY <3>1, <3>2, HeadTailProperties, MutatorAssumption DEF Mutated, TypeOK
    <3>4. \/ Save(w, Mutated(w, base), Popped(w))
          \/ /\ pc' = [pc EXCEPT ![w] = "idle"] /\ channel' = Popped(w)
             /\ cached' = [cached EXCEPT ![w] = IF msg.ok THEN base ELSE @]
             /\ seen' = [seen EXCEPT ![w] = IF msg.ok THEN SeenAfterLoad(w, raw) ELSE @]
             /\ UNCHANGED <<stored, writes>>
      BY <2>10 DEF DeliverUpdateUnlocked, Finish, msg, raw
    <3>5. CASE Save(w, Mutated(w, base), Popped(w))
      BY <1>0, <2>1, <2>2, <3>1, <3>3, <3>5, SaveInOrder DEF WriteInFlight
    <3>6. ASSUME pc' = [pc EXCEPT ![w] = "idle"], channel' = Popped(w),
                 cached' = [cached EXCEPT ![w] = IF msg.ok THEN base ELSE @],
                 seen' = [seen EXCEPT ![w] = IF msg.ok THEN SeenAfterLoad(w, raw) ELSE @],
                 UNCHANGED <<stored, writes>>
          PROVE  Kept
      <4>1. CASE msg.ok /\ cached[w] = NoCache
        BY <2>6, <3>1, <3>6, <4>1 DEF AfterLoad, SeenAfterLoad
      <4>2. CASE ~(msg.ok /\ cached[w] = NoCache)
        <5>1. cached' = cached /\ seen' = seen
          BY <1>0, <3>6, <4>2 DEF AfterLoad, SeenAfterLoad
        <5>2. InOrder(Popped(w)[w], "idle", seen[w], stored.stamp)
          BY <2>2, <3>1, StepInOrder
        <5>3. \A v \in Window : InOrder(channel'[v], pc'[v], seen[v], stored.stamp)
          BY <1>0, <2>2, <3>6, <5>2
        <5> QED BY <1>0, <1>02, <3>6, <5>1, <5>3
      <4> QED BY <4>1, <4>2
    <3> QED BY <3>4, <3>5, <3>6
  <2>11. CASE DeliverReply(w)
    <3>1. UNCHANGED <<stored, writes, seen, cached>> /\ channel' = Popped(w)
          /\ pc' = [pc EXCEPT ![w] = "written"] /\ pc[w] = "writing" /\ msg.kind = "reply"
      BY <2>11, AnswerMeansRunning DEF DeliverReply, Arrives, cacheVars, msg
    <3>2. InOrder(Popped(w)[w], "written", seen[w], stored.stamp)
      BY <2>0, <3>1, PoppedInOrder DEF msg
    <3>3. \A v \in Window : InOrder(channel'[v], pc'[v], seen[v], stored.stamp)
      BY <1>0, <2>2, <3>1, <3>2
    <3>4. \A v \in Window : pc'[v] \in {"writing", "written"} => cached'[v] # NoCache
      BY <1>0, <3>1
    <3> QED BY <1>0, <1>02, <3>1, <3>3, <3>4
  <2> QED BY <1>9, <2>4, <2>7, <2>8, <2>9, <2>10, <2>11 DEF Deliver
<1>10. CASE UNCHANGED vars
  BY <1>0, <1>02, <1>10 DEF vars
<1>11. Kept
  BY <1>1, <1>2, <1>3, <1>5, <1>6, <1>7, <1>8, <1>9, <1>10 DEF Next, Step
<1> QED BY <1>0, <1>11

(* A page that does not exist has nothing, and only one that exists acts.   *)
LEMMA GoneStep ==
  ASSUME TypeOK, WaitsForOwnAnswer, ClosedIsGone, [Next]_vars
  PROVE  ClosedIsGone'
<1> DEFINE Same(v) == /\ channel'[v] = channel[v] /\ chain'[v] = chain[v] /\ cached'[v] = cached[v]
                      /\ seen'[v] = seen[v] /\ ownWrites'[v] = ownWrites[v] /\ resync'[v] = resync[v]
           Left(w) == \A v \in Window \ {w} : v \notin open => Same(v)
<1>0. /\ \A v \in Window : channel[v] # <<>> \/ chain[v] # <<>> => v \in open
      /\ \A v \in Window : pc[v] # "idle" => chain[v] # <<>>
  BY DEF ClosedIsGone, Gone, WaitsForOwnAnswer
<1>1. ASSUME NEW w \in Window, w \in open, open' = open, Left(w) PROVE ClosedIsGone'
  BY <1>1 DEF ClosedIsGone, Gone
<1> USE DEF TypeOK
<1>2. ASSUME NEW w \in Window, NEW purpose, NEW ch \in {channel, Popped(w)}, Get(w, purpose, ch)
      PROVE  \A v \in Window \ {w} : channel'[v] = channel[v]
  BY <1>2 DEF Get, Popped
<1>3. ASSUME NEW w \in Window, NEW next, NEW ch \in {channel, Popped(w)}, Save(w, next, ch),
             UNCHANGED <<chain, resync>>
      PROVE  Left(w)
  BY <1>3 DEF Save, Set, Announced, Popped
<1>4. ASSUME NEW w \in Window, NEW base, NEW ch \in {channel, Popped(w)}, Apply(w, base, ch)
      PROVE  Left(w)
  <2>1. CASE Save(w, Mutated(w, base), ch) /\ UNCHANGED <<chain, resync>>
    BY <1>3, <2>1
  <2>2. CASE Finish(w) /\ channel' = ch /\ UNCHANGED cacheVars
    BY <2>2 DEF Finish, Popped, cacheVars
  <2> QED BY <1>4, <2>1, <2>2 DEF Apply
<1>5. ASSUME NEW w \in Window,
             \/ \E m \in Mutator : Update(w, m)
             \/ Load(w) \/ BeginLocked(w) \/ Grant(w) \/ LockWaitExpires(w)
      PROVE  ClosedIsGone'
  <2>1. w \in open /\ open' = open
    BY <1>0, <1>5 DEF Update, Load, BeginLocked, Grant, LockWaitExpires, StartReading
  <2>2. Left(w)
    BY <1>2, <1>5 DEF Update, Load, BeginLocked, Grant, LockWaitExpires, StartReading,
       cacheVars, browserVars, updateVars
  <2> QED BY <1>1, <2>1, <2>2
<1>6. ASSUME NEW w \in Window, BeginUnlocked(w) PROVE ClosedIsGone'
  <2>1. w \in open /\ open' = open
    BY <1>0, <1>6 DEF BeginUnlocked
  <2>2. Left(w)
    BY <1>2, <1>4, <1>6 DEF BeginUnlocked, cacheVars
  <2> QED BY <1>1, <2>1, <2>2
<1>7. ASSUME NEW w \in Window, Settle(w) PROVE ClosedIsGone'
  <2>1. w \in open /\ open' = open
    BY <1>0, <1>7 DEF Settle
  <2>2. \A v \in Window \ {w} : channel'[v] = channel[v]
    BY <1>2, <1>7 DEF Settle, browserVars
  <2>3. Left(w)
    BY <1>7, <2>2 DEF Settle, Finish
  <2> QED BY <1>1, <2>1, <2>3
<1>8. ASSUME NEW w \in Window, Deliver(w) PROVE ClosedIsGone'
  <2>1. w \in open /\ open' = open
    BY <1>0, <1>8 DEF Deliver, DeliverChanged, DeliverSync, DeliverLoad,
       DeliverUpdateLocked, DeliverUpdateUnlocked, DeliverReply, Arrives
  <2>2. CASE DeliverChanged(w)
    BY <1>1, <1>2, <2>1, <2>2 DEF DeliverChanged, cacheVars, updateVars
  <2>3. CASE DeliverSync(w)
    <3>1. \A v \in Window \ {w} : /\ channel'[v] = channel[v] /\ chain'[v] = chain[v]
                                  /\ cached'[v] = cached[v] /\ seen'[v] = seen[v]
      BY <2>3 DEF DeliverSync, Popped, cacheVars, updateVars
    <3>2. \A v \in Window \ {w} : ownWrites'[v] = ownWrites[v] /\ resync'[v] = resync[v]
      BY <2>3 DEF DeliverSync, cacheVars
    <3> QED BY <1>1, <2>1, <3>1, <3>2
  <2>4. CASE DeliverLoad(w) \/ DeliverReply(w)
    BY <1>1, <2>1, <2>4 DEF DeliverLoad, DeliverReply, Popped, cacheVars, updateVars
  <2>5. CASE DeliverUpdateLocked(w)
    BY <1>1, <1>4, <2>1, <2>5 DEF DeliverUpdateLocked
  <2>6. CASE DeliverUpdateUnlocked(w)
    <3>1. \/ Save(w, Mutated(w, AfterLoad(w, Head(channel[w]).raw)), Popped(w)) /\ UNCHANGED <<chain, resync>>
          \/ Finish(w) /\ Left(w)
      BY <2>6 DEF DeliverUpdateUnlocked, Finish, Popped
    <3> QED BY <1>1, <1>3, <2>1, <3>1
  <2> QED BY <1>8, <2>2, <2>3, <2>4, <2>5, <2>6 DEF Deliver
<1>9. ASSUME NEW w \in Window, Open(w) PROVE ClosedIsGone'
  BY <1>9 DEF Open, ClosedIsGone, Gone, browserVars, cacheVars, updateVars
<1>10. ASSUME NEW w \in Window, Close(w) PROVE ClosedIsGone'
  BY <1>10 DEF Close, ClosedIsGone, Gone
<1>11. CASE UNCHANGED vars
  BY <1>11 DEF vars, ClosedIsGone, Gone
<1> QED BY <1>5, <1>6, <1>7, <1>8, <1>9, <1>10, <1>11 DEF Next, Step

(* What has been refused stays refused.                                     *)
LEMMA RefusalsStay ==
  ASSUME TypeOK, [Next]_vars, NothingRefused'
  PROVE  /\ NothingRefused
         /\ budget'.reads = budget.reads /\ budget'.writes = budget.writes
<1>0. /\ budget \in Budget
      /\ budget.reads \in Nat /\ budget.writes \in Nat
      /\ budget.reads <= MaxReadFailures /\ budget.writes <= MaxWriteFailures
      /\ MaxReadFailures \in Nat /\ MaxWriteFailures \in Nat
  BY BoundAssumption DEF TypeOK, Budget
<1> DEFINE Less == budget'.reads <= budget.reads /\ budget'.writes <= budget.writes
<1>1. ASSUME NEW w, NEW purpose, NEW ch, Get(w, purpose, ch) PROVE Less
  <2>1. budget' = budget \/ budget' = [budget EXCEPT !.reads = @ - 1]
    BY <1>1 DEF Get
  <2> QED BY <1>0, <2>1 DEF Budget
<1>2. ASSUME NEW w, NEW next, NEW ch, Save(w, next, ch) PROVE Less
  <2>1. budget' = budget \/ budget' = [budget EXCEPT !.writes = @ - 1]
    BY <1>2 DEF Save, Set
  <2> QED BY <1>0, <2>1 DEF Budget
<1>3. ASSUME budget' \in {budget, [budget EXCEPT !.updates = @ - 1], [budget EXCEPT !.opens = @ - 1]} PROVE Less
  BY <1>0, <1>3 DEF Budget
<1>4. ASSUME NEW w, NEW base, NEW ch, Apply(w, base, ch) PROVE Less
  BY <1>2, <1>3, <1>4 DEF Apply
<1>5. Less
  BY <1>1, <1>2, <1>3, <1>4 DEF Next, Step, Deliver, Update, Load, BeginLocked, BeginUnlocked, Grant,
     LockWaitExpires, StartReading, Settle, DeliverChanged, DeliverSync, DeliverLoad, DeliverUpdateLocked,
     DeliverUpdateUnlocked, DeliverReply, Open, Close, browserVars, vars
<1> QED BY <1>0, <1>5 DEF NothingRefused

LEMMA WiderSeq ==
  ASSUME NEW a \in Nat, NEW b \in Nat, a <= b, NEW s \in Seq(0..a)
  PROVE  s \in Seq(0..b)
<1>1. 0..a \subseteq 0..b
  OBVIOUS
<1>2. Len(s) \in Nat /\ \A i \in 1..Len(s) : s[i] \in 0..a
  OBVIOUS
<1>3. s = [i \in 1..Len(s) |-> s[i]]
  OBVIOUS
<1> QED BY <1>1, <1>2, <1>3

(* A read that is not refused leaves a page at least as well informed.      *)
LEMMA GetConverges ==
  ASSUME TypeOK, NEW w \in Window, NEW purpose \in {"sync", "load", "update"},
         NEW ch \in [Window -> Seq(Message)], Get(w, purpose, ch), budget'.reads = budget.reads,
         NEW v \in Window, Tracks(ch[v], stored)
  PROVE  /\ Tracks(channel'[v], stored)
         /\ Told(ch[v], stored) => Told(channel'[v], stored)
         /\ v = w /\ purpose = "sync" => Told(channel'[v], stored)
<1>1. budget.reads \in Nat
  BY BoundAssumption DEF TypeOK, Budget
<1> DEFINE msg == [kind |-> purpose, ok |-> TRUE, raw |-> stored]
<1>2. channel' = [ch EXCEPT ![w] = Append(@, msg)]
  <2>1. budget' = [budget EXCEPT !.reads = @ - 1] => FALSE
    BY <1>1 DEF TypeOK, Budget
  <2> QED BY <2>1 DEF Get
<1>3. /\ msg \in Message /\ msg.ok /\ msg.raw = stored
      /\ purpose = "sync" => News(msg, stored)
  BY DEF TypeOK, Message, News
<1> HIDE DEF msg
<1>4. ch[v] \in Seq(Message)
  OBVIOUS
<1>5. /\ Told(ch[v], stored) \/ News(msg, stored) => Told(Append(ch[v], msg), stored)
      /\ Tracks(Append(ch[v], msg), stored)
  BY <1>3, <1>4, PushTracks
<1> QED BY <1>2, <1>3, <1>5

(* So does a write that is not refused: it is announced to every page.      *)
LEMMA SaveConverges ==
  ASSUME TypeOK, NEW w \in Window, NEW next \in Content,
         NEW ch \in [Window -> Seq(Message)], Save(w, next, ch), budget'.writes = budget.writes,
         UNCHANGED <<open, resync>>, w \in open, ReadsInOrder,
         NEW v \in open, Tracks(ch[v], stored), InOrder(ch[v], pc[v], seen[v], stored.stamp),
         ownWrites[v] \in Seq(0..seen[v]), resync[v] => WriteInFlight(v)
  PROVE  Converging(v)'
<1>0. v \in Window
  BY DEF TypeOK
<1>1. /\ v \in Window /\ budget.writes \in Nat /\ stored.stamp \in Nat /\ writes \in Nat
      /\ seen \in [Window -> Nat] /\ ch[v] \in Seq(Message)
      /\ stored.stamp <= writes /\ seen[v] <= stored.stamp
      /\ pc \in [Window -> {"idle", "waiting", "reading", "writing", "written"}]
      /\ cached \in [Window -> Content \union {NoCache}]
      /\ ownWrites \in [Window -> Seq(Nat)]
  <2>1. budget.writes \in Nat
    BY BoundAssumption DEF TypeOK, Budget
  <2>2. stored.stamp \in Nat /\ writes \in Nat
    BY DEF TypeOK, Stored
  <2>3. /\ seen \in [Window -> Nat]
        /\ pc \in [Window -> {"idle", "waiting", "reading", "writing", "written"}]
        /\ cached \in [Window -> Content \union {NoCache}]
        /\ ownWrites \in [Window -> Seq(Nat)]
    BY DEF TypeOK
  <2>4. ch[v] \in Seq(Message)
    BY <1>0
  <2>5. stored.stamp <= writes /\ seen[v] <= stored.stamp
    BY <1>0 DEF ReadsInOrder
  <2> QED BY <1>0, <2>1, <2>2, <2>3, <2>4, <2>5
<1>2. /\ stored' = [version |-> "current", content |-> next, stamp |-> writes + 1]
      /\ channel' = Announced(w, ch)
      /\ seen' = [seen EXCEPT ![w] = writes + 1]
      /\ cached' = [cached EXCEPT ![w] = next]
      /\ ownWrites' = [ownWrites EXCEPT ![w] = Last(Append(@, writes + 1), MaxOwnWrites)]
      /\ pc' = [pc EXCEPT ![w] = "writing"]
  <2>1. budget' = [budget EXCEPT !.writes = @ - 1] => FALSE
    BY <1>1 DEF TypeOK, Budget
  <2> QED BY <2>1 DEF Save, Set
<1>3. stored'.stamp = writes + 1 /\ stored'.stamp \in Nat /\ FromStored(stored') = next
  BY <1>1, <1>2 DEF FromStored
<1> DEFINE s == Append(ch[v], Signal("changed"))
<1>4. /\ Signal("changed") \in Message /\ News(Signal("changed"), stored')
      /\ Signal("reply") \in Message /\ ~IsRead(Signal("reply"))
  BY SignalType DEF Signal, News, IsRead
<1>5. s \in Seq(Message) /\ Tracks(s, stored') /\ Told(s, stored')
  <2>1. s \in Seq(Message) /\ Told(s, stored')
    BY <1>1, <1>4, PushTracks, AppendProperties
  <2>2. stored.stamp < stored'.stamp
    BY <1>1, <1>3
  <2> QED BY <1>1, <1>3, <2>1, <2>2, WriteTracks
<1> HIDE DEF s
<1>6. CASE v # w
  <2>1. channel'[v] = s
    BY <1>1, <1>2, <1>6 DEF Announced, s
  <2>2. seen'[v] = seen[v] /\ seen'[v] # stored'.stamp /\ ownWrites'[v] = ownWrites[v]
        /\ resync'[v] = resync[v] /\ pc'[v] = pc[v]
    BY <1>1, <1>2, <1>3, <1>6
  <2> QED BY <1>5, <1>6, <2>1, <2>2 DEF Converging, ConvergingOn, WriteInFlight
<1>7. CASE v = w
  <2>1. channel'[v] = Append(s, Signal("reply"))
    BY <1>1, <1>2, <1>7 DEF Announced, s
  <2>2. Tracks(channel'[v], stored')
    BY <1>4, <1>5, <2>1, PushTracks
  <2>3. cached'[v] = FromStored(stored') /\ seen'[v] = writes + 1 /\ pc'[v] = "writing"
    BY <1>1, <1>2, <1>3, <1>7
  <2>4. ownWrites'[v] \in Seq(0..seen'[v])
    <3>1. ownWrites[w] \in Seq(0..(writes + 1))
      BY <1>1, <1>7, WiderSeq
    <3>2. Append(ownWrites[w], writes + 1) \in Seq(0..(writes + 1))
      BY <1>1, <3>1, AppendProperties
    <3>3. Last(Append(ownWrites[w], writes + 1), MaxOwnWrites) \in Seq(0..(writes + 1))
      BY <3>2, LastType, BoundAssumption
    <3> QED BY <1>1, <1>2, <1>7, <2>3, <3>3
  <2> QED BY <2>2, <2>3, <2>4 DEF Converging, ConvergingOn, WriteInFlight
<1> QED BY <1>6, <1>7

(* Every step keeps the pages on their way to what is stored.               *)
LEMMA ConvergeStep ==
  ASSUME TypeOK, WaitsForOwnAnswer, ReadsInOrder, ClosedIsGone, CacheInv, [Next]_vars
  PROVE  CacheInv'
<1> SUFFICES ASSUME NothingRefused' PROVE \A v \in open' : Converging(v)'
  BY DEF CacheInv
<1> DEFINE Kept == \A v \in open' : Converging(v)'
           Same(v) == /\ cached'[v] = cached[v] /\ seen'[v] = seen[v] /\ resync'[v] = resync[v]
                      /\ ownWrites'[v] = ownWrites[v]
<1>0. /\ budget'.reads = budget.reads /\ budget'.writes = budget.writes
      /\ open \subseteq Window
      /\ \A v \in open : ConvergingOn(channel[v], v)
      /\ channel \in [Window -> Seq(Message)]
      /\ cached \in [Window -> Content \union {NoCache}]
      /\ seen \in [Window -> Nat] /\ resync \in [Window -> BOOLEAN]
      /\ ownWrites \in [Window -> Seq(Nat)]
      /\ pc \in [Window -> {"idle", "waiting", "reading", "writing", "written"}]
      /\ stored.stamp \in Nat
      /\ \A v \in Window : seen[v] <= stored.stamp
  BY RefusalsStay DEF CacheInv, Converging, TypeOK, Stored, ReadsInOrder
<1>01. \A v \in Window : channel[v] # <<>> \/ chain[v] # <<>> \/ pc[v] # "idle" => v \in open
  BY DEF ClosedIsGone, Gone, WaitsForOwnAnswer
(* A page of which nothing changes but where its update stands, its write   *)
(* not being under way before or after.                                     *)
<1>02. ASSUME stored' = stored, NEW v \in open, ConvergingOn(channel'[v], v), Same(v),
              resync[v] => WriteInFlight(v)'
       PROVE  Converging(v)'
  BY <1>02 DEF Converging, ConvergingOn
<1>1. ASSUME NEW w \in Window, (\E m \in Mutator : Update(w, m)) \/ BeginLocked(w) PROVE Kept
  <2>1. UNCHANGED <<stored, channel, open>> /\ \A v \in Window : Same(v)
    BY <1>1 DEF Update, BeginLocked, browserVars, cacheVars
  <2>2. \A v \in Window : WriteInFlight(v) => WriteInFlight(v)'
    BY <1>0, <1>1 DEF Update, BeginLocked, WriteInFlight
  <2> QED BY <1>0, <1>02, <2>1, <2>2 DEF ConvergingOn
(* A page asks for a read; its update may go on to another wait.            *)
<1>2. ASSUME NEW w \in Window, NEW purpose \in {"sync", "load", "update"},
             NEW ch \in [Window -> Seq(Message)], Get(w, purpose, ch), open' = open,
             \A v \in open : Tracks(ch[v], stored),
             \A v \in open : (v = w /\ purpose = "sync") \/ ConvergingOn(ch[v], v),
             \A v \in Window : cached'[v] = cached[v] /\ seen'[v] = seen[v] /\ ownWrites'[v] = ownWrites[v],
             \A v \in Window \ {w} : resync'[v] = resync[v] /\ pc'[v] = pc[v],
             \/ /\ resync'[w] = resync[w]
                /\ pc'[w] = pc[w] \/ ~resync[w]
             \/ /\ purpose = "sync"
                /\ ~resync'[w]
      PROVE  Kept
  <2> SUFFICES ASSUME NEW v \in open PROVE Converging(v)'
    BY <1>2
  <2>1. /\ Tracks(channel'[v], stored) /\ stored' = stored /\ v \in Window
        /\ Told(ch[v], stored) => Told(channel'[v], stored)
        /\ v = w /\ purpose = "sync" => Told(channel'[v], stored)
    <3>1. v \in Window /\ Tracks(ch[v], stored) /\ budget'.reads = budget.reads
      BY <1>0, <1>2
    <3>2. stored' = stored
      BY <1>2 DEF Get
    <3>3. /\ w \in Window /\ purpose \in {"sync", "load", "update"}
          /\ ch \in [Window -> Seq(Message)] /\ Get(w, purpose, ch)
      BY <1>2
    <3> QED BY <3>1, <3>2, <3>3, GetConverges
  <2>2. /\ seen[v] = stored.stamp => cached[v] \in {NoCache, FromStored(stored)}
        /\ ownWrites[v] \in Seq(0..seen[v])
        /\ resync[v] => WriteInFlight(v)
    BY <1>0 DEF ConvergingOn
  <2>3. resync'[v] => WriteInFlight(v)'
    BY <1>2, <2>1, <2>2 DEF WriteInFlight
  <2>4. cached[v] \in {NoCache, FromStored(stored)} \/ resync'[v] \/ Told(channel'[v], stored)
    BY <1>2, <2>1 DEF ConvergingOn
  <2> QED BY <1>2, <2>1, <2>2, <2>3, <2>4 DEF Converging, ConvergingOn
<1>3. ASSUME NEW w \in Window, Load(w) PROVE Kept
  <2>1. \A v \in open : Tracks(channel[v], stored)
    BY <1>0 DEF ConvergingOn
  <2> QED BY <1>0, <1>2, <1>3, <2>1 DEF Load, cacheVars, updateVars
<1>4. ASSUME NEW w \in Window, pc[w] \in {"idle", "waiting"}, pc' = [pc EXCEPT ![w] = "reading"],
             Get(w, "update", channel), UNCHANGED <<open, cacheVars>>
      PROVE  Kept
  <2>1. \A v \in open : Tracks(channel[v], stored)
    BY <1>0 DEF ConvergingOn
  <2>2. ~resync[w]
    BY <1>0, <1>4, <1>01 DEF ConvergingOn, WriteInFlight, ClosedIsGone, Gone
  <2> QED BY <1>0, <1>2, <1>4, <2>1, <2>2 DEF cacheVars
<1>5. ASSUME NEW w \in Window, Grant(w) \/ LockWaitExpires(w) PROVE Kept
  BY <1>4, <1>5 DEF Grant, LockWaitExpires, StartReading
(* An update that changes nothing, or writes.                               *)
<1>6. ASSUME NEW w \in open, NEW ch \in [Window -> Seq(Message)],
             pc[w] \in {"idle", "reading"}, channel' = ch, open' = open,
             pc' = [pc EXCEPT ![w] = "idle"], UNCHANGED <<stored, cacheVars>>,
             \A v \in open : ConvergingOn(ch[v], v)
      PROVE  Kept
  <2>1. ~resync[w]
    BY <1>0, <1>6 DEF ConvergingOn, WriteInFlight
  <2>2. \A v \in open : resync[v] => WriteInFlight(v)'
    BY <1>0, <1>6, <2>1 DEF ConvergingOn, WriteInFlight
  <2> QED BY <1>6, <1>02, <2>2 DEF cacheVars
<1>7. ASSUME NEW w \in open, NEW next \in Content, NEW ch \in [Window -> Seq(Message)],
             Save(w, next, ch), UNCHANGED <<open, resync>>,
             \A v \in open : ConvergingOn(ch[v], v),
             \A v \in Window : InOrder(ch[v], pc[v], seen[v], stored.stamp)
      PROVE  Kept
  <2> SUFFICES ASSUME NEW v \in open PROVE Converging(v)'
    BY <1>7
  <2>1. /\ v \in Window /\ Tracks(ch[v], stored) /\ InOrder(ch[v], pc[v], seen[v], stored.stamp)
        /\ ownWrites[v] \in Seq(0..seen[v])
        /\ resync[v] => WriteInFlight(v)
    BY <1>0, <1>7 DEF ConvergingOn
  <2> QED BY <1>0, <1>7, <2>1, SaveConverges
<1>8. ASSUME NEW w \in open, NEW base \in Content, NEW ch \in [Window -> Seq(Message)],
             Apply(w, base, ch), open' = open, pc[w] \in {"idle", "reading"}, chain[w] # <<>>,
             \A v \in open : ConvergingOn(ch[v], v),
             \A v \in Window : InOrder(ch[v], pc[v], seen[v], stored.stamp)
      PROVE  Kept
  <2>1. Mutated(w, base) \in Content
    BY <1>0, <1>8, HeadTailProperties, MutatorAssumption DEF Mutated, TypeOK
  <2> QED BY <1>6, <1>7, <1>8, <2>1 DEF Apply, Finish
<1>9. ASSUME NEW w \in Window, BeginUnlocked(w) PROVE Kept
  <2>1. w \in open /\ pc[w] = "idle" /\ chain[w] # <<>> /\ open' = open
    BY <1>01, <1>9 DEF BeginUnlocked
  <2>2. CASE cached[w] # NoCache
    <3>1. cached[w] \in Content /\ Apply(w, cached[w], channel)
      BY <1>0, <1>9, <2>2 DEF BeginUnlocked
    <3> QED BY <1>0, <1>8, <2>1, <3>1 DEF ReadsInOrder
  <2>3. CASE cached[w] = NoCache
    BY <1>4, <1>9, <2>1, <2>3 DEF BeginUnlocked
  <2> QED BY <2>2, <2>3
<1>10. ASSUME NEW w \in Window, Settle(w) PROVE Kept
  <2>1. w \in open /\ open' = open
    BY <1>01, <1>10 DEF Settle
  <2>2. /\ pc' = [pc EXCEPT ![w] = "idle"] /\ resync' = [resync EXCEPT ![w] = FALSE]
        /\ UNCHANGED <<cached, ownWrites, seen>>
    BY <1>10 DEF Settle, Finish
  <2>3. CASE resync[w]
    <3>1. \A v \in open : Tracks(channel[v], stored)
      BY <1>0 DEF ConvergingOn
    <3>2. Get(w, "sync", channel)
      BY <1>10, <2>3 DEF Settle
    <3> QED BY <1>0, <1>2, <2>1, <2>2, <3>1, <3>2
  <2>4. CASE ~resync[w]
    <3>1. stored' = stored /\ channel' = channel
      BY <1>10, <2>4 DEF Settle, browserVars
    <3>2. \A v \in open : Same(v) /\ (resync[v] => WriteInFlight(v)')
      BY <1>0, <2>2, <2>4 DEF ConvergingOn, WriteInFlight
    <3> QED BY <1>0, <1>02, <2>1, <3>1, <3>2
  <2> QED BY <2>3, <2>4
<1>11. ASSUME NEW w \in Window, Open(w) PROVE Kept
  <2>1. /\ w \notin open /\ open' = open \union {w}
        /\ UNCHANGED <<stored, channel, cached, ownWrites, resync, seen, pc>>
    BY <1>11 DEF Open, browserVars, cacheVars, updateVars
  <2>2. ConvergingOn(channel[w], w)
    <3>1. Gone(w)
      BY <2>1 DEF ClosedIsGone
    <3>2. Tracks(<<>>, stored) /\ <<>> \in Seq(0..seen[w])
      BY DEF Tracks
    <3> QED BY <3>1, <3>2 DEF Gone, ConvergingOn
  <2> QED BY <1>0, <2>1, <2>2 DEF Converging, ConvergingOn, WriteInFlight
<1>12. ASSUME NEW w \in Window, Close(w) PROVE Kept
  BY <1>0, <1>12 DEF Close, Converging, ConvergingOn, WriteInFlight
<1>13. ASSUME NEW w \in Window, Deliver(w) PROVE Kept
  <2> DEFINE msg == Head(channel[w])
             raw == Head(channel[w]).raw
             rest == Popped(w)
  <2>0. channel[w] # <<>> /\ w \in open
    BY <1>01, <1>13 DEF Deliver, DeliverChanged, DeliverSync, DeliverLoad,
       DeliverUpdateLocked, DeliverUpdateUnlocked, DeliverReply, Arrives
  <2>1. /\ rest \in [Window -> Seq(Message)]
        /\ \A v \in Window \ {w} : rest[v] = channel[v]
        /\ rest[w] = Tail(channel[w])
        /\ msg \in Message /\ raw \in Stored /\ FromStored(raw) \in Content /\ raw.stamp \in Nat
    BY <2>0, PoppedFits, PoppedType, FromStoredType DEF Message, Stored
  <2>2. \A v \in Window : InOrder(rest[v], pc[v], seen[v], stored.stamp)
    BY <2>0, PoppedInOrder
  <2>3. IsRead(msg) /\ pc[w] # "writing" => seen[w] <= raw.stamp
    BY <2>0, PoppedInOrder
  <2>4. /\ Tracks(rest[w], stored)
        /\ Told(channel[w], stored) => News(msg, stored) \/ Told(rest[w], stored)
        /\ IsRead(msg) => msg.ok /\ (raw = stored \/ (raw.stamp # stored.stamp /\ Told(rest[w], stored)))
    <3>1. channel[w] \in Seq(Message) /\ channel[w] # <<>> /\ Tracks(channel[w], stored)
      BY <1>0, <2>0 DEF ConvergingOn
    <3> QED BY <2>1, <3>1, TailTracks
  <2> HIDE DEF msg, raw, rest
  <2>5. \A v \in open : Tracks(rest[v], stored)
    BY <1>0, <2>1, <2>4 DEF ConvergingOn
  <2>6. \A v \in open \ {w} : ConvergingOn(rest[v], v)
    BY <1>0, <2>1
  <2>7. ~News(msg, stored) => ConvergingOn(rest[w], w)
    BY <1>0, <2>0, <2>4 DEF ConvergingOn
  <2>8. CASE DeliverChanged(w)
    <3>1. /\ Get(w, "sync", rest) /\ open' = open
          /\ UNCHANGED <<cached, ownWrites, resync, seen, pc>>
      BY <2>8 DEF DeliverChanged, cacheVars, updateVars, rest
    <3> QED BY <1>0, <1>2, <2>1, <2>5, <2>6, <3>1
(* The page takes what a read told it.                                      *)
  <2>9. ASSUME UNCHANGED <<stored, open, ownWrites, resync>>, channel' = rest, IsRead(msg),
               pc[w] # "writing", pc' = pc \/ (pc' = [pc EXCEPT ![w] = "idle"] /\ ~resync[w]),
               cached' = [cached EXCEPT ![w] = FromStored(raw)],
               seen' = [seen EXCEPT ![w] = raw.stamp]
        PROVE  Kept
    <3>1. ASSUME NEW v \in open \ {w} PROVE Converging(v)'
      BY <1>0, <2>6, <2>9, <3>1 DEF Converging, ConvergingOn, WriteInFlight
    <3>2. Converging(w)'
      <4>1. /\ ownWrites[w] \in Seq(0..seen[w]) /\ seen[w] \in Nat /\ seen[w] <= raw.stamp
            /\ resync[w] => WriteInFlight(w)
        BY <1>0, <2>0, <2>3, <2>9 DEF ConvergingOn
      <4>2. ownWrites[w] \in Seq(0..raw.stamp)
        BY <2>1, <4>1, WiderSeq
      <4>3. cached'[w] = FromStored(raw) /\ seen'[w] = raw.stamp /\ w \in Window
        BY <1>0, <2>0, <2>9
      <4>4. FromStored(raw) = FromStored(stored) \/ (raw.stamp # stored.stamp /\ Told(rest[w], stored))
        BY <2>4, <2>9
      <4>5. resync'[w] => WriteInFlight(w)'
        BY <1>0, <2>9, <4>1, <4>3 DEF WriteInFlight
      <4> QED BY <2>4, <2>9, <4>2, <4>3, <4>4, <4>5 DEF Converging, ConvergingOn
    <3> QED BY <2>9, <3>1, <3>2
  <2>10. CASE DeliverSync(w)
    <3> DEFINE own == OwnIndex(w, raw)
    <3>1. /\ IsRead(msg) /\ channel' = rest /\ UNCHANGED <<stored, open, pc>>
          /\ msg.ok
      BY <2>4, <2>10 DEF DeliverSync, Arrives, IsRead, updateVars, msg, rest
    <3>2. \/ /\ own # {} /\ UNCHANGED <<cached, resync, seen>>
             /\ \E i \in own : ownWrites' = [ownWrites EXCEPT ![w] = Known(@, i)]
          \/ /\ WriteInFlight(w) /\ resync' = [resync EXCEPT ![w] = TRUE]
             /\ UNCHANGED <<cached, ownWrites, seen>>
          \/ /\ ~WriteInFlight(w) /\ UNCHANGED <<ownWrites, resync>>
             /\ cached' = [cached EXCEPT ![w] = FromStored(raw)]
             /\ seen' = [seen EXCEPT ![w] = raw.stamp]
      BY <2>10, <3>1 DEF DeliverSync, msg, raw
    <3>3. ASSUME UNCHANGED <<cached, seen>>, \A v \in Window \ {w} : resync'[v] = resync[v] /\ ownWrites'[v] = ownWrites[v]
          PROVE  \A v \in open \ {w} : Converging(v)'
      BY <1>0, <2>6, <3>1, <3>3 DEF Converging, ConvergingOn, WriteInFlight
    <3>4. ASSUME UNCHANGED <<cached, resync, seen>>, NEW i \in own,
                 ownWrites' = [ownWrites EXCEPT ![w] = Known(@, i)]
          PROVE  Kept
      <4>1. /\ i \in DOMAIN ownWrites[w] /\ ownWrites[w][i] = raw.stamp
            /\ ownWrites[w] \in Seq(0..seen[w]) /\ seen[w] \in Nat /\ w \in Window
            /\ resync[w] => WriteInFlight(w)
            /\ seen[w] = stored.stamp => cached[w] \in {NoCache, FromStored(stored)}
        BY <1>0, <2>0, <3>4 DEF OwnIndex, ConvergingOn
      <4>2. raw.stamp <= seen[w]
        BY <4>1
      <4>3. Known(ownWrites[w], i) \in Seq(0..seen[w])
        <5>1. Len(ownWrites[w]) \in Nat /\ Len(ownWrites[w]) <= Len(ownWrites[w])
          BY <4>1
        <5> QED BY <4>1, <5>1, KnownType
      <4>4. cached[w] \in {NoCache, FromStored(stored)} \/ Told(rest[w], stored)
        <5>1. raw = stored => seen[w] = stored.stamp
          BY <1>0, <4>1, <4>2
        <5> QED BY <2>4, <3>1, <4>1, <5>1
      <4>5. ownWrites'[w] = Known(ownWrites[w], i)
        BY <1>0, <3>4, <4>1
      <4>6. Converging(w)'
        BY <2>4, <3>1, <3>4, <4>1, <4>3, <4>4, <4>5 DEF Converging, ConvergingOn, WriteInFlight
      <4>7. \A v \in open \ {w} : Converging(v)'
        BY <3>3, <3>4
      <4> QED BY <3>1, <4>6, <4>7
    <3>5. ASSUME WriteInFlight(w), resync' = [resync EXCEPT ![w] = TRUE],
                 UNCHANGED <<cached, ownWrites, seen>>
          PROVE  Kept
      <4>1. resync'[w] = TRUE /\ w \in Window
        BY <1>0, <2>0, <3>5
      <4>2. /\ ownWrites[w] \in Seq(0..seen[w])
            /\ seen[w] = stored.stamp => cached[w] \in {NoCache, FromStored(stored)}
        BY <1>0, <2>0 DEF ConvergingOn
      <4>3. Converging(w)'
        BY <2>4, <3>1, <3>5, <4>1, <4>2 DEF Converging, ConvergingOn, WriteInFlight
      <4>4. \A v \in open \ {w} : Converging(v)'
        BY <1>0, <3>3, <3>5
      <4> QED BY <3>1, <4>3, <4>4
    <3> QED BY <2>9, <3>1, <3>2, <3>4, <3>5 DEF WriteInFlight
  <2>11. CASE DeliverLoad(w)
    <3>1. /\ IsRead(msg) /\ ~News(msg, stored) /\ channel' = rest
          /\ UNCHANGED <<stored, open, pc, ownWrites, resync>>
      BY <2>11 DEF DeliverLoad, Arrives, IsRead, News, updateVars, msg, rest
    <3>2. \/ UNCHANGED <<cached, seen>>
          \/ /\ cached[w] = NoCache
             /\ cached' = [cached EXCEPT ![w] = FromStored(raw)]
             /\ seen' = [seen EXCEPT ![w] = raw.stamp]
      BY <1>0, <2>11 DEF DeliverLoad, AfterLoad, SeenAfterLoad, raw
    <3>3. cached[w] = NoCache => pc[w] # "writing"
      BY <1>0, <2>0 DEF ReadsInOrder, WriteInFlight
    <3>4. CASE UNCHANGED <<cached, seen>>
      BY <2>6, <2>7, <3>1, <3>4 DEF Converging, ConvergingOn, WriteInFlight
    <3> QED BY <2>9, <3>1, <3>2, <3>3, <3>4
  <2>12. CASE DeliverUpdateLocked(w)
    <3>1. pc[w] = "reading" /\ chain[w] # <<>> /\ ~News(msg, stored) /\ open' = open
      BY <1>0, <2>0, <2>12, AnswerMeansRunning DEF DeliverUpdateLocked, Arrives, News, msg
    <3>2. ReadCurrent(w, msg) \in Content
      BY <1>0, <2>0, <2>1, ContentAssumption DEF ReadCurrent, msg, raw
    <3>3. Apply(w, ReadCurrent(w, msg), rest)
      BY <2>12 DEF DeliverUpdateLocked, msg, rest
    <3>4. \A v \in open : ConvergingOn(rest[v], v)
      BY <2>6, <2>7, <3>1
    <3> QED BY <1>8, <2>0, <2>1, <2>2, <3>1, <3>2, <3>3, <3>4
  <2>13. CASE DeliverUpdateUnlocked(w)
    <3> DEFINE base == AfterLoad(w, raw)
    <3>1. pc[w] = "reading" /\ chain[w] # <<>> /\ ~News(msg, stored) /\ IsRead(msg) /\ msg.ok
          /\ UNCHANGED <<open, resync>>
      BY <1>0, <2>0, <2>4, <2>13, AnswerMeansRunning DEF DeliverUpdateUnlocked, Arrives, News, IsRead, msg
    <3>2. base \in Content
      BY <1>0, <2>0, <2>1 DEF AfterLoad
    <3>3. Mutated(w, base) \in Content
      BY <1>0, <2>0, <3>1, <3>2, HeadTailProperties, MutatorAssumption DEF Mutated, TypeOK
    <3>4. \A v \in open : ConvergingOn(rest[v], v)
      BY <2>6, <2>7, <3>1
    <3>5. \/ Save(w, Mutated(w, base), rest)
          \/ /\ pc' = [pc EXCEPT ![w] = "idle"] /\ channel' = rest
             /\ cached' = [cached EXCEPT ![w] = base]
             /\ seen' = [seen EXCEPT ![w] = SeenAfterLoad(w, raw)]
             /\ UNCHANGED <<stored, ownWrites>>
      BY <2>13, <3>1 DEF DeliverUpdateUnlocked, Finish, msg, raw, rest
    <3>6. CASE Save(w, Mutated(w, base), rest)
      BY <1>7, <2>0, <2>1, <2>2, <3>1, <3>3, <3>4, <3>6
    <3>7. ASSUME pc' = [pc EXCEPT ![w] = "idle"], channel' = rest,
                 cached' = [cached EXCEPT ![w] = base],
                 seen' = [seen EXCEPT ![w] = SeenAfterLoad(w, raw)],
                 UNCHANGED <<stored, ownWrites>>
          PROVE  Kept
      <4>1. CASE cached[w] = NoCache
        <5>1. ~resync[w]
          BY <1>0, <2>0, <3>1 DEF ConvergingOn, WriteInFlight
        <5> QED BY <2>9, <3>1, <3>7, <4>1, <5>1 DEF AfterLoad, SeenAfterLoad
      <4>2. CASE cached[w] # NoCache
        <5>1. cached' = cached /\ seen' = seen
          BY <1>0, <3>7, <4>2 DEF AfterLoad, SeenAfterLoad
        <5> QED BY <1>6, <2>0, <2>1, <3>1, <3>4, <3>7, <5>1 DEF cacheVars
      <4> QED BY <4>1, <4>2
    <3> QED BY <3>5, <3>6, <3>7
  <2>14. CASE DeliverReply(w)
    <3>1. /\ channel' = rest /\ ~News(msg, stored) /\ pc' = [pc EXCEPT ![w] = "written"]
          /\ UNCHANGED <<stored, open, cached, ownWrites, resync, seen>>
      BY <2>14 DEF DeliverReply, Arrives, News, cacheVars, msg, rest
    <3>2. \A v \in open : WriteInFlight(v) => WriteInFlight(v)'
      BY <1>0, <3>1 DEF WriteInFlight
    <3> QED BY <2>6, <2>7, <3>1, <3>2 DEF Converging, ConvergingOn
  <2> QED BY <1>13, <2>8, <2>10, <2>11, <2>12, <2>13, <2>14 DEF Deliver
<1>14. CASE UNCHANGED vars
  BY <1>0, <1>14 DEF vars, Converging, ConvergingOn, WriteInFlight
<1> QED BY <1>1, <1>3, <1>5, <1>9, <1>10, <1>11, <1>12, <1>13, <1>14 DEF Next, Step

IInv == TypeOK /\ WaitsForOwnAnswer /\ ReadsInOrder /\ ClosedIsGone /\ CacheInv

LEMMA CacheInvariant == Spec => []IInv
<1>1. Init => IInv
  <2> SUFFICES ASSUME Init PROVE IInv
    OBVIOUS
  <2>1. TypeOK
    BY InitType
  <2>2. stored.stamp = 0 /\ \A w \in Window : /\ channel[w] = <<>> /\ seen[w] = 0 /\ cached[w] = NoCache
                                             /\ ownWrites[w] = <<>> /\ ~resync[w] /\ pc[w] = "idle"
    BY DEF Init
  <2>3. \A step, n, st : InOrder(<<>>, step, n, st) /\ Tracks(<<>>, st) /\ AnswersFit(<<>>, step)
    BY DEF InOrder, Tracks, AnswersFit
  <2>4. WaitsForOwnAnswer
    BY <2>2, <2>3 DEF WaitsForOwnAnswer
  <2>5. ReadsInOrder
    BY <2>2, <2>3 DEF Init, ReadsInOrder, WriteInFlight
  <2>6. ClosedIsGone
    BY DEF Init, ClosedIsGone
  <2>7. \A w \in Window : Converging(w)
    <3> SUFFICES ASSUME NEW w \in Window PROVE Converging(w)
      OBVIOUS
    <3>0. <<>> \in Seq(0..seen[w])
      OBVIOUS
    <3>1. ownWrites[w] \in Seq(0..seen[w]) /\ ~resync[w] /\ cached[w] = NoCache
      BY <2>2, <3>0, Zenon
    <3>2. Tracks(channel[w], stored)
      BY <2>2, <2>3
    <3> QED BY <3>1, <3>2 DEF Converging, ConvergingOn
  <2> QED BY <2>1, <2>4, <2>5, <2>6, <2>7 DEF Init, IInv, CacheInv
<1>2. IInv /\ [Next]_vars => IInv'
  BY TypeStep, AnswerStep, OrderStep, GoneStep, ConvergeStep DEF IInv
<1> QED BY <1>1, <1>2, PTL DEF Spec

(* Once every update has settled and every message has arrived, nothing     *)
(* having been refused, every page shows what is stored: with the lock and  *)
(* without it, for any number of pages and updates.                         *)
THEOREM PagesConverge == Spec => []ConvergedAtRest
<1>1. IInv => ConvergedAtRest
  <2> SUFFICES ASSUME IInv, AtRest, NothingRefused, NEW w \in open
               PROVE  cached[w] \in {NoCache, FromStored(stored)}
    BY DEF ConvergedAtRest
  <2>1. w \in Window /\ channel[w] = <<>> /\ chain[w] = <<>>
    BY DEF IInv, TypeOK, AtRest
  <2>2. ~WriteInFlight(w)
    BY <2>1 DEF IInv, WaitsForOwnAnswer, WriteInFlight
  <2>3. ~Told(<<>>, stored)
    BY DEF Told
  <2> QED BY <2>1, <2>2, <2>3 DEF IInv, CacheInv, Converging, ConvergingOn
<1> QED BY <1>1, CacheInvariant, PTL

(* No step of a page that stays open takes its cache back to a state older  *)
(* than one it has held, whatever is refused and whichever pages die.       *)
THEOREM CachesAdvance == Spec => CacheNeverGoesBack
<1>1. IInv /\ [Next]_vars => [\A w \in open \intersect open' : seen'[w] >= seen[w]]_vars
  BY OrderStep DEF IInv
<1> QED BY <1>1, CacheInvariant, PTL DEF Spec, CacheNeverGoesBack
================================================================================
