---------------------------- MODULE BackgroundProofs ----------------------------
(****************************************************************************)
(* Proofs about the background worker.                                      *)
(*   - A site's record holds only what the user allowed, and of requests    *)
(*     one after another none loses what an earlier one was given.          *)
(*   - One approval window is open at a time, the line stays within its     *)
(*     bound, as do the prompts of one origin within a rate window, and a   *)
(*     call answers with what the user chose.                               *)
(*   - No popup is handed a token of another backend, a finished sign-in    *)
(*     job stays as it finished, and none is left that nobody works on.     *)
(****************************************************************************)
EXTENDS Background, FiniteSetTheorems, SequenceTheorems, TLAPS


--------------------------------------------------------------------------------
(* The permissions of a site.                                              *)

Record == (SUBSET Scope) \cup {None}

Method == {"connect", "signIn", "pay", "event", "keys", "sign", "npub", "encKey", "sealOpen", "crypt"}

At == {"unmade", "read", "prompt", "write", "touch", "over"}

Job == [at : At, method : Method \cup {""}, wants : SUBSET Scope, saw : Record, next : Record]

Shape == perm \in Record /\ req \in [Request -> Job]

(* What a request under way would write is allowed already.                 *)
HandsClean ==
  \A r \in UnderWay : Scopes(req[r].next) \subseteq approved \cup carried

(* Until its prompt is answered, that is what it read.  getPublicKeys never *)
(* gets to a prompt, nor does an event of a site without a record.          *)
Unanswered ==
  \A r \in Request : req[r].at \in {"read", "prompt"} =>
    /\ req[r].method \in Method
    /\ req[r].next = req[r].saw
    /\ req[r].at = "prompt" =>
         /\ req[r].method # "keys"
         /\ req[r].method = "event" => req[r].saw # None

IInv == Shape /\ OnlyApproved /\ HandsClean /\ Unanswered

(* A call of the page names scopes.                                         *)
LEMMA CallWants == \A call \in Call : call.method \in Method /\ call.wants \in SUBSET Scope
<1>1. ASSUME NEW call \in [method : {"connect", "signIn"}, wants : (SUBSET Asset) \ {{}}]
      PROVE  call.method \in Method /\ call.wants \in SUBSET Scope
  <2>1. call.method \in {"connect", "signIn"} /\ call.wants \in SUBSET Asset
    OBVIOUS
  <2>2. QED
    BY <2>1 DEF Method, Scope
<1>2. ASSUME NEW call \in [method : {"pay"}, wants : {{a} : a \in Asset}]
      PROVE  call.method \in Method /\ call.wants \in SUBSET Scope
  BY DEF Method, Scope
<1>3. ASSUME NEW call \in [method : {"event"}, wants : {{k} : k \in Kind}]
      PROVE  call.method \in Method /\ call.wants \in SUBSET Scope
  BY DEF Method, Scope
<1>4. ASSUME NEW call \in [method : {"keys", "sign", "npub", "encKey", "sealOpen", "crypt"}, wants : {{}}]
      PROVE  call.method \in Method /\ call.wants \in SUBSET Scope
  BY DEF Method, Scope
<1>5. QED
  BY <1>1, <1>2, <1>3, <1>4 DEF Call

(* What an approval writes is what the request read and what it gives.      *)
LEMMA GrantingAdds ==
  ASSUME NEW c, c.saw \in Record, c.wants \in SUBSET Scope, c.method \in Method \ {"keys"},
         c.method = "event" => c.saw # None,
         NEW g \in Granting(c)
  PROVE  g.next \in Record /\ Scopes(g.next) \subseteq Scopes(c.saw) \cup g.gives
<1> DEFINE adds(s) == [gives |-> s, next |-> Scopes(c.saw) \cup s]
           again   == [gives |-> {}, next |-> c.saw]
<1>1. Scopes(c.saw) \in SUBSET Scope /\ (c.saw # None => Scopes(c.saw) = c.saw)
  <2>1. CASE c.saw = None
    BY <2>1 DEF Scopes
  <2>2. CASE c.saw # None
    <3>1. Scopes(c.saw) = c.saw
      BY <2>2 DEF Scopes
    <3>2. QED
      BY <2>2, <3>1 DEF Record
  <2>3. QED
    BY <2>1, <2>2
<1>2. ASSUME NEW s \in SUBSET Scope
      PROVE  adds(s).next \in Record /\ Scopes(adds(s).next) \subseteq Scopes(c.saw) \cup adds(s).gives
  BY <1>1, <1>2 DEF Scopes, Record
<1>3. again.next \in Record /\ Scopes(again.next) \subseteq Scopes(c.saw) \cup again.gives
  OBVIOUS
<1>4. CASE c.method = "connect"
  <2>1. PICK s \in SUBSET c.wants : g = adds(s)
    BY <1>4 DEF Granting
  <2>2. QED
    BY <2>1, <1>2
<1>5. CASE c.method = "signIn"
  <2>1. c.saw \cap Asset \in SUBSET Scope
    BY DEF Scope
  <2>2. g = adds(c.saw \cap Asset) \/ g = adds(c.wants)
    BY <1>5 DEF Granting
  <2>3. QED
    BY <2>1, <2>2, <1>2
<1>6. CASE c.method = "npub"
  <2>1. g = adds({"nostr"})
    BY <1>6 DEF Granting
  <2>2. QED
    BY <2>1, <1>2 DEF Scope
<1>7. CASE c.method = "event"
  <2>1. \/ g = again
        \/ \E live \in BOOLEAN :
             g = [gives |-> c.wants \cap Grantable, next |-> MergeNostrSession(c.saw, c.wants, live)]
    BY <1>7 DEF Granting
  <2>2. ASSUME NEW live \in BOOLEAN,
               g = [gives |-> c.wants \cap Grantable, next |-> MergeNostrSession(c.saw, c.wants, live)]
        PROVE  g.next \in Record /\ Scopes(g.next) \subseteq Scopes(c.saw) \cup g.gives
    <3>1. c.saw \in SUBSET Scope /\ Scopes(c.saw) = c.saw
      BY <1>7, <1>1 DEF Record
    <3>2. /\ g.next \in SUBSET Scope
          /\ g.next \subseteq c.saw \cup (c.wants \cap Grantable)
      BY <2>2, <3>1 DEF MergeNostrSession
    <3>3. QED
      BY <2>2, <3>1, <3>2 DEF Scopes, Record
  <2>3. QED
    BY <2>1, <2>2, <1>3
<1>8. CASE c.method = "encKey"
  <2>1. g = again \/ g = adds({"e2ee"})
    BY <1>8 DEF Granting
  <2>2. QED
    BY <2>1, <1>2, <1>3 DEF Scope
<1>9. CASE c.method = "crypt"
  <2>1. g = again \/ g = adds({"crypt"})
    BY <1>9 DEF Granting
  <2>2. QED
    BY <2>1, <1>2, <1>3 DEF Scope
<1>10. CASE c.method \in {"sign", "pay", "sealOpen"}
  <2>1. g = again
    BY <1>10 DEF Granting
  <2>2. QED
    BY <2>1, <1>3
<1>11. QED
  BY <1>4, <1>5, <1>6, <1>7, <1>8, <1>9, <1>10 DEF Method

LEMMA Ended ==
  /\ Unmade \in Job /\ Unmade.at = "unmade"
  /\ Over \in Job /\ Over.at = "over"
  BY DEF Unmade, Over, Job, At, Record

LEMMA InitIInv == Init => IInv
<1> SUFFICES ASSUME Init PROVE IInv
  OBVIOUS
<1>1. Shape
  BY Ended DEF Init, Shape, Record
<1>2. \A r \in Request : req[r].at = "unmade"
  BY Ended DEF Init
<1>3. HandsClean /\ Unanswered
  BY <1>2 DEF HandsClean, Unanswered, UnderWay
<1>4. OnlyApproved
  BY DEF Init, OnlyApproved, Scopes
<1>5. QED
  BY <1>1, <1>3, <1>4 DEF IInv

(* A step that only moves requests along, or ends them.                     *)
LEMMA Moves ==
  ASSUME IInv, UNCHANGED <<perm, approved, carried>>, NEW r \in Request,
         \/ req' = [req EXCEPT ![r] = Over]
         \/ req[r].at = "read" /\ req' = [req EXCEPT ![r].at = "touch"]
         \/ /\ req[r].at = "read" /\ req' = [req EXCEPT ![r].at = "prompt"]
            /\ req[r].method # "keys"
            /\ req[r].method = "event" => req[r].saw # None
  PROVE  IInv'
<1>1. req \in [Request -> Job] /\ perm \in Record
  BY DEF IInv, Shape
<1>2. \A q \in Request \ {r} : req'[q] = req[q]
  BY <1>1
<1>3. req[r] \in Job
  BY <1>1
<1>4. \/ req'[r] = Over
      \/ req[r].at = "read" /\ req'[r] = [req[r] EXCEPT !.at = "touch"]
      \/ /\ req[r].at = "read" /\ req'[r] = [req[r] EXCEPT !.at = "prompt"]
         /\ req[r].method # "keys"
         /\ req[r].method = "event" => req[r].saw # None
  BY <1>1
<1>5. Shape'
  <2>1. req'[r] \in Job
    BY <1>3, <1>4, Ended DEF Job, At
  <2>2. req' \in [Request -> Job]
    BY <1>1, <2>1
  <2>3. QED
    BY <1>1, <2>2 DEF Shape
<1>6. OnlyApproved'
  BY DEF IInv, OnlyApproved, Scopes
<1>7. CASE req'[r] = Over
  <2>1. HandsClean'
    BY <1>2, <1>7, Ended DEF IInv, HandsClean, UnderWay, Scopes
  <2>2. Unanswered'
    BY <1>2, <1>7, Ended DEF IInv, Unanswered
  <2>3. QED
    BY <1>5, <1>6, <2>1, <2>2 DEF IInv
<1>8. CASE req'[r] # Over
  <2>1. /\ req'[r].next = req[r].next /\ req'[r].saw = req[r].saw /\ req'[r].method = req[r].method
        /\ req[r].at = "read"
        /\ req'[r].at = "prompt" =>
             /\ req[r].method # "keys"
             /\ req[r].method = "event" => req[r].saw # None
    BY <1>3, <1>4, <1>8 DEF Job
  <2>2. Scopes(req[r].next) \subseteq approved \cup carried
    BY <2>1 DEF IInv, HandsClean, UnderWay
  <2>3. HandsClean'
    BY <1>2, <2>1, <2>2 DEF IInv, HandsClean, UnderWay, Scopes
  <2>4. Unanswered'
    BY <1>2, <2>1 DEF IInv, Unanswered
  <2>5. QED
    BY <1>5, <1>6, <2>3, <2>4 DEF IInv
<1>9. QED
  BY <1>7, <1>8

LEMMA NextIInv == IInv /\ [Next]_vars => IInv'
<1> SUFFICES ASSUME IInv, [Next]_vars PROVE IInv'
  OBVIOUS
<1>1. ASSUME NEW r \in Request, NEW call \in Call, Get(r, call) PROVE IInv'
  <2>1. call.method \in Method /\ call.wants \in SUBSET Scope
    BY CallWants
  <2>2. /\ req' = [req EXCEPT ![r] = [at |-> "read", method |-> call.method, wants |-> call.wants,
                                       saw |-> perm, next |-> perm]]
        /\ UNCHANGED <<perm, approved, carried>>
    BY <1>1 DEF Get
  <2>3. req \in [Request -> Job] /\ perm \in Record
    BY DEF IInv, Shape
  <2>4. /\ \A q \in Request \ {r} : req'[q] = req[q]
        /\ req'[r].at = "read" /\ req'[r].method = call.method
        /\ req'[r].saw = perm /\ req'[r].next = perm
    BY <2>2, <2>3
  <2>5. Shape'
    <3>1. [at |-> "read", method |-> call.method, wants |-> call.wants, saw |-> perm, next |-> perm] \in Job
      BY <2>1, <2>3 DEF Job, At
    <3>2. QED
      BY <2>2, <2>3, <3>1 DEF Shape
  <2>6. OnlyApproved'
    BY <2>2 DEF IInv, OnlyApproved, Scopes
  <2>7. HandsClean'
    BY <2>2, <2>4 DEF IInv, OnlyApproved, HandsClean, UnderWay, Scopes
  <2>8. Unanswered'
    BY <2>1, <2>4 DEF IInv, Unanswered
  <2>9. QED
    BY <2>5, <2>6, <2>7, <2>8 DEF IInv
<1>2. ASSUME NEW r \in Request, Refuse(r) \/ Locked(r) \/ Deny(r) PROVE IInv'
  <2>1. req' = [req EXCEPT ![r] = Over] /\ UNCHANGED <<perm, approved, carried>>
    BY <1>2 DEF Refuse, Locked, Deny
  <2>2. QED
    BY <2>1, Moves
<1>3. ASSUME NEW r \in Request, Touch(r) PROVE IInv'
  <2>1. /\ req' = [req EXCEPT ![r].at = "touch"] /\ req[r].at = "read"
        /\ UNCHANGED <<perm, approved, carried>>
    BY <1>3 DEF Touch
  <2>2. QED
    BY <2>1, Moves
<1>4. ASSUME NEW r \in Request, Ask(r) PROVE IInv'
  <2>1. req[r].method = "event" => req[r].saw # None
    BY <1>4 DEF Ask, Unauthorized
  <2>2. /\ \/ req' = [req EXCEPT ![r].at = "prompt"]
           \/ req' = [req EXCEPT ![r] = Over]
        /\ req[r].at = "read" /\ req[r].method # "keys"
        /\ UNCHANGED <<perm, approved, carried>>
    BY <1>4 DEF Ask
  <2>3. QED
    BY <2>1, <2>2, Moves
<1>5. ASSUME NEW r \in Request, Approve(r) PROVE IInv'
  <2>1. PICK g \in Granting(req[r]) :
          /\ req' = [req EXCEPT ![r].at = "write", ![r].next = g.next]
          /\ approved' = approved \cup g.gives
    BY <1>5 DEF Approve
  <2>2. /\ req[r].method \in Method \ {"keys"}
        /\ req[r].method = "event" => req[r].saw # None
        /\ req[r].next = req[r].saw
        /\ req[r].at = "prompt"
        /\ req[r] \in Job
        /\ req[r].saw \in Record /\ req[r].wants \in SUBSET Scope
    <3>1. req[r] \in Job /\ req[r].at = "prompt"
      BY <1>5 DEF Approve, InWindow, IInv, Shape
    <3>2. req[r].saw \in Record /\ req[r].wants \in SUBSET Scope
      BY <3>1 DEF Job
    <3>3. QED
      BY <3>1, <3>2 DEF IInv, Unanswered
  <2>3. g.next \in Record /\ Scopes(g.next) \subseteq Scopes(req[r].saw) \cup g.gives
    BY <2>2, GrantingAdds
  <2>4. Scopes(req[r].saw) \subseteq approved \cup carried
    BY <2>2 DEF IInv, HandsClean, UnderWay
  <2>5. UNCHANGED <<perm, carried>>
    BY <1>5 DEF Approve
  <2>6. /\ \A q \in Request \ {r} : req'[q] = req[q]
        /\ req'[r].at = "write" /\ req'[r].next = g.next
        /\ req'[r] \in Job
    <3>1. /\ \A q \in Request \ {r} : req'[q] = req[q]
          /\ req'[r] = [req[r] EXCEPT !.at = "write", !.next = g.next]
      BY <2>1 DEF IInv, Shape
    <3>2. QED
      BY <2>2, <2>3, <3>1 DEF Job, At
  <2>7. Shape'
    BY <2>1, <2>5, <2>6 DEF IInv, Shape
  <2>8. OnlyApproved'
    BY <2>1, <2>5 DEF IInv, OnlyApproved, Scopes
  <2>9. HandsClean'
    BY <2>1, <2>3, <2>4, <2>5, <2>6 DEF IInv, HandsClean, UnderWay, Scopes
  <2>10. Unanswered'
    BY <2>6 DEF IInv, Unanswered
  <2>11. QED
    BY <2>7, <2>8, <2>9, <2>10 DEF IInv
<1>6. ASSUME NEW r \in Request, Set(r) PROVE IInv'
  <2>1. r \in UnderWay
    BY <1>6 DEF Set, UnderWay
  <2>2. Scopes(req[r].next) \subseteq approved \cup carried
    BY <2>1 DEF IInv, HandsClean
  <2>3. \A q \in Request : req'[q] = IF q = r THEN Over ELSE req[q]
    BY <1>6 DEF Set, IInv, Shape
  <2>4. Shape'
    <3>1. req[r] \in Job
      BY DEF IInv, Shape
    <3>2. req[r].next \in Record
      BY <3>1 DEF Job
    <3>3. QED
      BY <1>6, <3>2, Ended DEF Set, IInv, Shape
  <2>5. OnlyApproved'
    BY <1>6, <2>2 DEF Set, OnlyApproved, Scopes
  <2>6. HandsClean'
    BY <1>6, <2>3, Ended DEF Set, IInv, HandsClean, UnderWay, Scopes
  <2>7. Unanswered'
    BY <2>3, Ended DEF IInv, Unanswered
  <2>8. QED
    BY <2>4, <2>5, <2>6, <2>7 DEF IInv
<1>7. CASE Evict
  <2>1. \A q \in Request : req'[q] = IF q \in UnderWay THEN Over ELSE req[q]
    BY <1>7 DEF Evict
  <2>2. \A q \in Request : req'[q].at \in {"unmade", "over"}
    BY <2>1, Ended DEF UnderWay
  <2>3. Shape'
    BY <1>7, Ended DEF Evict, IInv, Shape
  <2>4. OnlyApproved'
    BY <1>7 DEF Evict, IInv, OnlyApproved, Scopes
  <2>5. HandsClean' /\ Unanswered'
    BY <2>2 DEF HandsClean, UnderWay, Unanswered
  <2>6. QED
    BY <2>3, <2>4, <2>5 DEF IInv
<1>8. CASE Remove
  <2>1. Shape' /\ OnlyApproved' /\ Unanswered'
    BY <1>8 DEF Remove, IInv, Shape, OnlyApproved, Unanswered, Scopes, Record
  <2>2. HandsClean'
    BY <1>8 DEF Remove, HandsClean, UnderWay, Scopes
  <2>3. QED
    BY <2>1, <2>2 DEF IInv
<1>9. CASE UNCHANGED vars
  BY <1>9 DEF vars, IInv, Shape, OnlyApproved, HandsClean, UnderWay, Unanswered, Scopes
<1>10. QED
  BY <1>1, <1>2, <1>3, <1>4, <1>5, <1>6, <1>7, <1>8, <1>9 DEF Next

(* A site's record holds only what the user allowed since it was last       *)
(* removed, or what a request under way then had in its hands; for any      *)
(* requests, scopes and number of removals.                                 *)
THEOREM HoldsOnlyApproved == Spec => []OnlyApproved
<1>1. Init => IInv
  BY InitIInv
<1>2. IInv /\ [Next]_vars => IInv'
  BY NextIInv
<1>3. IInv => OnlyApproved
  BY DEF IInv
<1>4. QED
  BY <1>1, <1>2, <1>3, PTL DEF Spec

-------------------------------------------------------------------------------
(* Nothing lost.                                                            *)

(* At most one request is under way; what the user allowed is in the record *)
(* it is to write and, until its prompt is answered, in the site's record   *)
(* too.                                                                     *)
Single  == \A r, q \in UnderWay : r = q

Carries ==
  \A r \in UnderWay :
    /\ approved \ Kind \subseteq Scopes(req[r].next)
    /\ req[r].at # "write" => approved \ Kind \subseteq Scopes(perm)

Stored == UnderWay = {} => approved \ Kind \subseteq Scopes(perm)

KeptInv == alone => Single /\ Carries /\ Stored

(* What an approval writes has all the request read, sessions aside, and    *)
(* all it gives.                                                            *)
LEMMA GrantingKeeps ==
  ASSUME None \notin SUBSET Scope,
         NEW c, c.saw \in Record, c.wants \in SUBSET Scope, c.method \in Method \ {"keys"},
         c.method = "event" => c.saw # None,
         NEW g \in Granting(c)
  PROVE  (Scopes(c.saw) \ Kind) \cup g.gives \subseteq Scopes(g.next)
<1> DEFINE adds(s) == [gives |-> s, next |-> Scopes(c.saw) \cup s]
           again   == [gives |-> {}, next |-> c.saw]
           Keeps(h) == (Scopes(c.saw) \ Kind) \cup h.gives \subseteq Scopes(h.next)
<1>1. \A s \in SUBSET Scope : Scopes(s) = s
  BY DEF Scopes
<1>2. Scopes(c.saw) \in SUBSET Scope
  BY DEF Scopes, Record
<1>3. ASSUME NEW s \in SUBSET Scope PROVE Keeps(adds(s))
  <2>1. Scopes(c.saw) \cup s \in SUBSET Scope
    BY <1>2, <1>3
  <2>2. Scopes(adds(s).next) = Scopes(c.saw) \cup s
    BY <2>1, <1>1
  <2>3. QED
    BY <2>2
<1>4. Keeps(again)
  OBVIOUS
<1> HIDE DEF Keeps
<1>5. CASE c.method = "connect"
  <2>1. PICK s \in SUBSET c.wants : g = adds(s)
    BY <1>5 DEF Granting
  <2>2. Keeps(g)
    BY <2>1, <1>3
  <2>3. QED
    BY <2>2 DEF Keeps
<1>6. CASE c.method = "signIn"
  <2>1. c.saw \cap Asset \in SUBSET Scope
    BY DEF Scope
  <2>2. g = adds(c.saw \cap Asset) \/ g = adds(c.wants)
    BY <1>6 DEF Granting
  <2>3. Keeps(g)
    BY <2>1, <2>2, <1>3
  <2>4. QED
    BY <2>3 DEF Keeps
<1>7. CASE c.method \in {"npub", "encKey", "crypt"}
  <2>1. g \in {again, adds({"nostr"}), adds({"e2ee"}), adds({"crypt"})}
    BY <1>7 DEF Granting
  <2>2. {"nostr"} \in SUBSET Scope /\ {"e2ee"} \in SUBSET Scope /\ {"crypt"} \in SUBSET Scope
    BY DEF Scope
  <2>3. Keeps(g)
    BY <2>1, <2>2, <1>3, <1>4
  <2>4. QED
    BY <2>3 DEF Keeps
<1>8. CASE c.method = "event"
  <2>1. \/ g = again
        \/ \E live \in BOOLEAN :
             g = [gives |-> c.wants \cap Grantable, next |-> MergeNostrSession(c.saw, c.wants, live)]
    BY <1>8 DEF Granting
  <2>2. ASSUME NEW live \in BOOLEAN,
               g = [gives |-> c.wants \cap Grantable, next |-> MergeNostrSession(c.saw, c.wants, live)]
        PROVE  Keeps(g)
    <3>1. c.saw \in SUBSET Scope /\ Scopes(c.saw) = c.saw
      BY <1>8, <1>1 DEF Record
    <3>2. /\ g.next \in SUBSET Scope
          /\ (c.saw \ Kind) \cup (c.wants \cap Grantable) \subseteq g.next
      BY <2>2, <3>1 DEF MergeNostrSession
    <3>3. Scopes(g.next) = g.next
      BY <3>2, <1>1
    <3>4. QED
      BY <2>2, <3>1, <3>2, <3>3 DEF Keeps
  <2>3. Keeps(g)
    BY <2>1, <2>2, <1>4
  <2>4. QED
    BY <2>3 DEF Keeps
<1>9. CASE c.method \in {"sign", "pay", "sealOpen"}
  <2>1. g = again
    BY <1>9 DEF Granting
  <2>2. QED
    BY <2>1, <1>4 DEF Keeps
<1>10. QED
  BY <1>5, <1>6, <1>7, <1>8, <1>9 DEF Method

(* A request that ends without writing leaves the record to hold it all.    *)
LEMMA EndKeeps ==
  ASSUME IInv, KeptInv, UNCHANGED <<perm, approved, alone>>,
         NEW r \in Request, req[r].at \in {"read", "prompt"},
         req' = [req EXCEPT ![r] = Over]
  PROVE  KeptInv'
<1> SUFFICES ASSUME alone PROVE Single' /\ Carries' /\ Stored'
  BY DEF KeptInv
<1>1. \A q \in Request : req'[q] = IF q = r THEN Over ELSE req[q]
  BY DEF IInv, Shape
<1>2. r \in UnderWay
  BY DEF UnderWay
<1>3. UnderWay' = {}
  BY <1>1, <1>2, Ended DEF KeptInv, Single, UnderWay
<1>4. approved \ Kind \subseteq Scopes(perm)
  BY <1>2 DEF KeptInv, Carries
<1>5. QED
  BY <1>3, <1>4 DEF Single, Carries, Stored, Scopes

(* Nor does moving along, to a prompt or past it, change what it carries.   *)
LEMMA MoveKeeps ==
  ASSUME IInv, KeptInv, UNCHANGED <<perm, approved, alone>>,
         NEW r \in Request, req[r].at = "read",
         NEW step \in {"touch", "prompt"}, req' = [req EXCEPT ![r].at = step]
  PROVE  KeptInv'
<1> SUFFICES ASSUME alone PROVE Single' /\ Carries' /\ Stored'
  BY DEF KeptInv
<1>1. req[r] \in Job
  BY DEF IInv, Shape
<1>2. req'[r] = [req[r] EXCEPT !.at = step]
  BY DEF IInv, Shape
<1>3. req'[r].next = req[r].next /\ req'[r].at = step
  BY <1>1, <1>2 DEF Job
<1>4. \A q \in Request \ {r} : req'[q] = req[q]
  BY DEF IInv, Shape
<1>5. r \in UnderWay
  BY DEF UnderWay
<1>6. UnderWay' = UnderWay
  BY <1>3, <1>4 DEF UnderWay
<1>7. Single'
  BY <1>6 DEF KeptInv, Single
<1>8. Carries'
  BY <1>3, <1>4, <1>5, <1>6 DEF KeptInv, Carries, Scopes
<1>9. QED
  BY <1>5, <1>6, <1>7, <1>8 DEF Stored

LEMMA NextKept ==
  ASSUME None \notin SUBSET Scope, IInv, KeptInv, [Next]_vars
  PROVE  KeptInv'
<1> USE DEF KeptInv
<1>1. ASSUME NEW r \in Request, NEW call \in Call, Get(r, call) PROVE KeptInv'
  <2> SUFFICES ASSUME alone' PROVE Single' /\ Carries' /\ Stored'
    OBVIOUS
  <2>1. alone /\ UnderWay = {}
    BY <1>1 DEF Get
  <2>2. /\ req'[r].at = "read" /\ req'[r].next = perm
        /\ \A q \in Request \ {r} : req'[q] = req[q]
    BY <1>1 DEF Get, IInv, Shape
  <2>3. UnderWay' = {r}
    BY <2>1, <2>2 DEF UnderWay
  <2>4. approved \ Kind \subseteq Scopes(perm)
    BY <2>1 DEF Stored
  <2>5. UNCHANGED <<perm, approved>>
    BY <1>1 DEF Get
  <2>6. Single' /\ Stored'
    BY <2>3 DEF Single, Stored
  <2>7. Carries'
    BY <2>2, <2>3, <2>4, <2>5 DEF Carries, Scopes
  <2>8. QED
    BY <2>6, <2>7
<1>2. ASSUME NEW r \in Request, Refuse(r) \/ Locked(r) \/ Deny(r) PROVE KeptInv'
  <2>1. /\ req' = [req EXCEPT ![r] = Over] /\ UNCHANGED <<perm, approved, alone>>
        /\ req[r].at \in {"read", "prompt"}
    BY <1>2 DEF Refuse, Locked, Deny, InWindow
  <2>2. QED
    BY <2>1, EndKeeps
<1>3. ASSUME NEW r \in Request, Touch(r) PROVE KeptInv'
  <2>1. /\ req' = [req EXCEPT ![r].at = "touch"] /\ req[r].at = "read"
        /\ UNCHANGED <<perm, approved, alone>>
    BY <1>3 DEF Touch
  <2>2. QED
    BY <2>1, MoveKeeps
<1>4. ASSUME NEW r \in Request, Ask(r) PROVE KeptInv'
  <2>1. /\ \/ req' = [req EXCEPT ![r].at = "prompt"]
           \/ req' = [req EXCEPT ![r] = Over]
        /\ req[r].at = "read" /\ UNCHANGED <<perm, approved, alone>>
    BY <1>4 DEF Ask
  <2>2. QED
    BY <2>1, MoveKeeps, EndKeeps
<1>5. ASSUME NEW r \in Request, Approve(r) PROVE KeptInv'
  <2> SUFFICES ASSUME alone' PROVE Single' /\ Carries' /\ Stored'
    OBVIOUS
  <2>1. PICK g \in Granting(req[r]) :
          /\ req' = [req EXCEPT ![r].at = "write", ![r].next = g.next]
          /\ approved' = approved \cup g.gives
    BY <1>5 DEF Approve
  <2>2. req[r] \in Job /\ req[r].at = "prompt" /\ alone
    BY <1>5 DEF Approve, InWindow, IInv, Shape
  <2>3. /\ req[r].saw \in Record /\ req[r].wants \in SUBSET Scope
        /\ req[r].method \in Method \ {"keys"}
        /\ req[r].method = "event" => req[r].saw # None
        /\ req[r].next = req[r].saw
    <3>1. req[r].saw \in Record /\ req[r].wants \in SUBSET Scope
      BY <2>2 DEF Job
    <3>2. QED
      BY <2>2, <3>1 DEF IInv, Unanswered
  <2>4. (Scopes(req[r].saw) \ Kind) \cup g.gives \subseteq Scopes(g.next)
    BY <2>3, GrantingKeeps
  <2>5. r \in UnderWay
    BY <2>2 DEF UnderWay
  <2>6. approved \ Kind \subseteq Scopes(req[r].saw)
    BY <2>2, <2>3, <2>5 DEF Carries
  <2>7. approved' \ Kind \subseteq Scopes(g.next)
    BY <2>1, <2>4, <2>6
  <2>8. /\ req'[r].at = "write" /\ req'[r].next = g.next
        /\ \A q \in Request \ {r} : req'[q] = req[q]
    <3>1. req'[r] = [req[r] EXCEPT !.at = "write", !.next = g.next]
      BY <2>1 DEF IInv, Shape
    <3>2. QED
      BY <2>1, <2>2, <3>1 DEF IInv, Shape, Job
  <2>9. UnderWay' = {r}
    BY <2>2, <2>5, <2>8 DEF Single, UnderWay
  <2>10. Single' /\ Stored'
    BY <2>9 DEF Single, Stored
  <2>11. Carries'
    BY <2>7, <2>8, <2>9 DEF Carries, Scopes
  <2>12. QED
    BY <2>10, <2>11
<1>6. ASSUME NEW r \in Request, Set(r) PROVE KeptInv'
  <2> SUFFICES ASSUME alone' PROVE Single' /\ Carries' /\ Stored'
    OBVIOUS
  <2>1. r \in UnderWay /\ alone
    BY <1>6 DEF Set, UnderWay
  <2>2. \A q \in Request : req'[q] = IF q = r THEN Over ELSE req[q]
    BY <1>6 DEF Set, IInv, Shape
  <2>3. UnderWay' = {}
    BY <2>1, <2>2, Ended DEF Single, UnderWay
  <2>4. approved' \ Kind \subseteq Scopes(perm')
    BY <1>6, <2>1 DEF Set, Carries
  <2>5. QED
    BY <2>3, <2>4 DEF Single, Carries, Stored, Scopes
<1>7. CASE Evict
  <2>1. \A q \in Request : req'[q] = IF q \in UnderWay THEN Over ELSE req[q]
    BY <1>7 DEF Evict
  <2>2. UnderWay' = {}
    BY <2>1, Ended DEF UnderWay
  <2>3. approved' \ Kind \subseteq Scopes(perm)'
    BY <1>7 DEF Evict, Scopes
  <2>4. QED
    BY <2>2, <2>3 DEF Single, Carries, Stored
<1>8. CASE Remove
  <2>1. approved' = {} /\ UNCHANGED <<req, alone>>
    BY <1>8 DEF Remove
  <2>2. QED
    BY <2>1 DEF Single, Carries, Stored, UnderWay
<1>9. CASE UNCHANGED vars
  BY <1>9 DEF vars, Single, Carries, Stored, UnderWay, Scopes
<1>10. QED
  BY <1>1, <1>2, <1>3, <1>4, <1>5, <1>6, <1>7, <1>8, <1>9 DEF Next

(* While a site's requests come one after another, no record one of them    *)
(* writes loses what the user granted at an earlier prompt; for any         *)
(* requests, scopes and removals.  None stands for no record: it is none.   *)
THEOREM GrantsLast ==
  ASSUME None \notin SUBSET Scope
  PROVE  Spec => []NothingLost
<1>1. Init => IInv /\ KeptInv
  <2>1. Init => KeptInv
    <3> SUFFICES ASSUME Init PROVE Single /\ Carries /\ Stored
      BY DEF KeptInv
    <3>1. UnderWay = {} /\ approved = {}
      BY Ended DEF Init, UnderWay
    <3>2. QED
      BY <3>1 DEF Single, Carries, Stored
  <2>2. QED
    BY <2>1, InitIInv
<1>2. IInv /\ KeptInv /\ [Next]_vars => IInv' /\ KeptInv'
  BY NextIInv, NextKept
<1>3. KeptInv => NothingLost
  BY DEF KeptInv, Stored, NothingLost
<1>4. QED
  BY <1>1, <1>2, <1>3, PTL DEF Spec

--------------------------------------------------------------------------------
(* Lines and inboxes.                                                       *)

(* What stands in a line or lies in an inbox.                               *)
Items(q) == {q[i] : i \in 1..Len(q)}

LEMMA ItemsTail ==
  ASSUME NEW S, NEW q \in Seq(S), q # <<>>
  PROVE  /\ Items(q) = {Head(q)} \cup Items(Tail(q))
         /\ Tail(q) \in Seq(S) /\ Len(Tail(q)) = Len(q) - 1 /\ Len(q) \in Nat \ {0}
         /\ \A i \in 1..(Len(q) - 1) : Tail(q)[i] = q[i + 1]
<1>1. /\ Tail(q) \in Seq(S) /\ Len(Tail(q)) = Len(q) - 1 /\ Len(q) \in Nat \ {0} /\ Head(q) = q[1]
      /\ \A i \in 1..(Len(q) - 1) : Tail(q)[i] = q[i + 1]
  BY HeadTailProperties, LenProperties, EmptySeq
<1>2. Items(q) \subseteq {Head(q)} \cup Items(Tail(q))
  <2> SUFFICES ASSUME NEW i \in 1..Len(q), i # 1
               PROVE  q[i] \in Items(Tail(q))
    BY <1>1 DEF Items
  <2>1. i - 1 \in 1..Len(Tail(q)) /\ Tail(q)[i - 1] = q[(i - 1) + 1] /\ (i - 1) + 1 = i
    BY <1>1
  <2> QED BY <2>1 DEF Items
<1>3. {Head(q)} \cup Items(Tail(q)) \subseteq Items(q)
  <2>1. Head(q) \in Items(q)
    BY <1>1 DEF Items
  <2>2. \A i \in 1..Len(Tail(q)) : i + 1 \in 1..Len(q) /\ Tail(q)[i] = q[i + 1]
    BY <1>1
  <2> QED BY <2>1, <2>2 DEF Items
<1> QED BY <1>1, <1>2, <1>3

LEMMA ItemsConcat ==
  ASSUME NEW S, NEW q \in Seq(S), NEW r \in Seq(S)
  PROVE  Items(q \o r) = Items(q) \cup Items(r)
<1>1. Len(q) \in Nat /\ Len(r) \in Nat /\ Len(q \o r) = Len(q) + Len(r)
  BY LenProperties, ConcatProperties
<1>2. \A i \in 1..(Len(q) + Len(r)) : (q \o r)[i] = IF i <= Len(q) THEN q[i] ELSE r[i - Len(q)]
  BY ConcatProperties
<1>3. Items(q \o r) \subseteq Items(q) \cup Items(r)
  <2> SUFFICES ASSUME NEW i \in 1..(Len(q) + Len(r))
               PROVE  (q \o r)[i] \in Items(q) \cup Items(r)
    BY <1>1 DEF Items
  <2>1. i \in 1..Len(q) \/ (i - Len(q) \in 1..Len(r) /\ ~(i <= Len(q)))
    BY <1>1
  <2> QED BY <1>1, <1>2, <2>1 DEF Items
<1>4. Items(q) \subseteq Items(q \o r)
  <2> SUFFICES ASSUME NEW i \in 1..Len(q)
               PROVE  q[i] \in Items(q \o r)
    BY DEF Items
  <2>1. i \in 1..(Len(q) + Len(r)) /\ i <= Len(q)
    BY <1>1
  <2> QED BY <1>1, <1>2, <2>1 DEF Items
<1>5. Items(r) \subseteq Items(q \o r)
  <2> SUFFICES ASSUME NEW i \in 1..Len(r)
               PROVE  r[i] \in Items(q \o r)
    BY DEF Items
  <2>1. i + Len(q) \in 1..(Len(q) + Len(r)) /\ ~(i + Len(q) <= Len(q)) /\ (i + Len(q)) - Len(q) = i
    BY <1>1
  <2>2. (q \o r)[i + Len(q)] = r[i]
    BY <1>2, <2>1
  <2> QED BY <1>1, <2>1, <2>2 DEF Items
<1> QED BY <1>3, <1>4, <1>5

LEMMA ItemsAppend ==
  ASSUME NEW S, NEW q \in Seq(S), NEW c \in S
  PROVE  /\ Items(Append(q, c)) = Items(q) \cup {c}
         /\ Append(q, c) \in Seq(S) /\ Len(Append(q, c)) = Len(q) + 1 /\ Len(q) \in Nat
         /\ \A i \in 1..Len(q) : Append(q, c)[i] = q[i]
         /\ Append(q, c)[Len(q) + 1] = c
<1>1. /\ Append(q, c) \in Seq(S) /\ Len(Append(q, c)) = Len(q) + 1 /\ Len(q) \in Nat
      /\ \A i \in 1..Len(q) : Append(q, c)[i] = q[i]
      /\ Append(q, c)[Len(q) + 1] = c
  BY AppendProperties, LenProperties
<1>2. Items(Append(q, c)) = {Append(q, c)[i] : i \in 1..(Len(q) + 1)}
  BY <1>1 DEF Items
<1>3. 1..(Len(q) + 1) = (1..Len(q)) \cup {Len(q) + 1}
  BY <1>1
<1> QED BY <1>1, <1>2, <1>3 DEF Items

LEMMA ItemsEmpty == Items(<<>>) = {}
BY DEF Items

(* A line holds no more than it is long.                                    *)
LEMMA ItemsBounded ==
  ASSUME NEW S, NEW q \in Seq(S)
  PROVE  IsFiniteSet(Items(q)) /\ Cardinality(Items(q)) <= Len(q)
<1> DEFINE at == [i \in 1..Len(q) |-> q[i]]
<1>1. Len(q) \in Nat
  BY LenProperties
<1>2. IsFiniteSet(1..Len(q)) /\ Cardinality(1..Len(q)) = Len(q)
  BY <1>1, FS_Interval
<1>3. at \in Surjection(1..Len(q), Items(q))
  BY DEF Surjection, Items
<1> QED BY <1>2, <1>3, FS_Surjection

--------------------------------------------------------------------------------
(* The queue of approval prompts.                                           *)

(* Before a call and after it.                                              *)
Disposed == {"idle", "answered", "refused", "failed", "lost"}

(* Where a call of requestApproval stands in between.                       *)
PromptMade == {"checking", "queued", "posting", "creating", "waiting", "cleaning", "closing"}

(* Where a call stands that is in line, or has the slot and uses it.        *)
HasPrompt == {"posting", "creating", "waiting", "cleaning", "closing"}

(* Windows that are there, or about to be.                                  *)
OnScreen == {"coming", "open", "tapped", "written"}

Decisive(r) == popup[r] \in {"written", "finished"}

Checking == {r \in Prompt : stage[r] = "checking"}

PromptShape ==
  /\ stage \in [Prompt -> PromptMade \cup Disposed]
  /\ queueTail \in Seq(Prompt)
  /\ slotHolders \in Nat
  /\ reads \subseteq [id : Prompt, why : {"subscribed", "closed"},
                      saw : Approvals!Decision \cup {None}]
  /\ answer \in [Prompt -> Approvals!Decision \cup {None}]
  /\ result \in [Prompt -> Approvals!Decision \cup {None}]
  /\ chose \in [Prompt -> Approvals!Decision \cup {None}]
  /\ pending \subseteq Prompt /\ removed \subseteq Prompt
  /\ popup \in [Prompt -> OnScreen \cup {"none", "finished", "closed"}]
  /\ changed \subseteq [id : Prompt, value : Approvals!Decision]
  /\ left \in Approvals!Budget

(* Each place in the queue is one call's: in line, or still asking whether  *)
(* it may be.                                                               *)
PlacesCounted ==
  /\ IsFiniteSet(Checking)
  /\ slotHolders = Len(queueTail) + Cardinality(Checking)
  /\ slotHolders <= 1 + MaxQueued

LineOrdered ==
  /\ \A i \in 1..Len(queueTail) : stage[queueTail[i]] \in HasPrompt \cup {"queued"}
  /\ \A i, k \in 1..Len(queueTail) : queueTail[i] = queueTail[k] => i = k
  /\ \A r \in Prompt : stage[r] \in HasPrompt => Approvals!HasSlot(r)
  /\ \A i \in 2..Len(queueTail) : OriginOf[queueTail[i]] \in Connected

(* A window is there only for the call that has the slot, or for one that   *)
(* was lost; and what the call answered is what the window wrote.           *)
WindowFits(r) ==
  /\ popup[r] # "none" =>
       stage[r] \in {"creating", "waiting", "cleaning", "closing", "answered", "lost"}
  /\ popup[r] = "coming" => stage[r] \in {"creating", "lost"}
  /\ popup[r] \in {"tapped", "written", "finished"} => chose[r] \in Approvals!Decision
  /\ stage[r] \in {"cleaning", "closing", "answered"} =>
       /\ popup[r] \in {"written", "finished", "closed"}
       /\ stage[r] = "answered" => popup[r] # "written"
       /\ answer[r] = IF Decisive(r) THEN chose[r] ELSE "denied"

(* What is stored, read or announced of a decision is what the window       *)
(* wrote; until the call has settled, nothing else of it is.                *)
ResultFits(r) ==
  /\ result[r] # None => Decisive(r) /\ result[r] = chose[r]
  /\ Decisive(r) /\ stage[r] \in {"creating", "waiting"} => result[r] = chose[r]
  /\ r \in removed => popup[r] \in {"finished", "closed"}

ReadFits(x) ==
  /\ stage[x.id] = "waiting"
  /\ x.saw # None => Decisive(x.id) /\ x.saw = chose[x.id]
  /\ x.why = "closed" /\ x.saw = None => popup[x.id] = "closed"

AnswersFit ==
  /\ \A r \in Prompt : WindowFits(r) /\ ResultFits(r)
  /\ \A x \in reads : ReadFits(x)
  /\ \A c \in changed : Decisive(c.id) /\ c.value = chose[c.id]

PromptInv == PromptShape /\ PlacesCounted /\ LineOrdered /\ AnswersFit

(* What a read of a result key returns.                                     *)
LEMMA ReadType ==
  ASSUME PromptShape, NEW r \in Prompt, NEW why \in {"subscribed", "closed"}
  PROVE  Approvals!Read(r, why) \in [id : Prompt, why : {"subscribed", "closed"},
                                     saw : Approvals!Decision \cup {None}]
BY DEF Approvals!Read, PromptShape

LEMMA TailType == ASSUME NEW S, NEW s \in Seq(S), s # <<>> PROVE Tail(s) \in Seq(S)
BY HeadTailProperties

LEMMA AdmitType ==
  ASSUME PromptShape, NEW r \in Prompt, NEW holders \in Nat \ {0}, Approvals!Admit(r, holders)
  PROVE  /\ stage' \in [Prompt -> PromptMade \cup Disposed]
         /\ queueTail' \in Seq(Prompt) /\ slotHolders' \in Nat
<1>1. \/ queueTail' = queueTail /\ stage' = [stage EXCEPT ![r] = "refused"] /\ slotHolders' = holders - 1
      \/ queueTail' = Append(queueTail, r) /\ stage' = [stage EXCEPT ![r] = "queued"] /\ slotHolders' = holders
  BY DEF Approvals!Admit, Approvals!Refuse, Approvals!Ends
<1>2. stage' \in [Prompt -> PromptMade \cup Disposed]
  BY <1>1 DEF PromptShape, PromptMade, Disposed
<1>3. queueTail' \in Seq(Prompt)
  BY <1>1, AppendProperties DEF PromptShape
<1> QED BY <1>1, <1>2, <1>3

(* A call that ends had a place.                                            *)
LEMMA HeldPlace ==
  ASSUME PromptInv, NEW r \in Prompt, Approvals!HasSlot(r) \/ stage[r] = "checking"
  PROVE  slotHolders \in Nat \ {0} /\ slotHolders - 1 \in Nat
<1>1. queueTail \in Seq(Prompt) /\ Cardinality(Checking) \in Nat /\ Len(queueTail) \in Nat
  BY FS_CardinalityType DEF PromptInv, PromptShape, PlacesCounted
<1>2. CASE Approvals!HasSlot(r)
  <2>1. Len(queueTail) # 0
    BY <1>1, <1>2 DEF Approvals!HasSlot
  <2> QED BY <1>1, <2>1 DEF PromptInv, PlacesCounted
<1>3. CASE stage[r] = "checking"
  <2>1. Cardinality(Checking) # 0
    BY <1>3, FS_EmptySet DEF PromptInv, PlacesCounted, Checking
  <2> QED BY <1>1, <2>1 DEF PromptInv, PlacesCounted
<1> QED BY <1>2, <1>3

LEMMA ShapeStep ==
  ASSUME PromptInv, [Approvals!Next]_approvals
  PROVE  PromptShape'
<1> USE DEF PromptInv
<1>0. /\ PromptShape /\ left.requests \subseteq Prompt
      /\ left.evictions \in Nat /\ left.failures \in Nat /\ left.ticks \in Nat
      /\ left = [requests |-> left.requests, evictions |-> left.evictions, failures |-> left.failures,
                 ticks |-> left.ticks]
  BY DEF PromptShape, Approvals!Budget
<1>01. ASSUME left.failures > 0, left' = [left EXCEPT !.failures = @ - 1] PROVE left' \in Approvals!Budget
  BY <1>0, <1>01 DEF PromptShape, Approvals!Budget
<1>02. ASSUME left.evictions > 0, left' = [left EXCEPT !.evictions = @ - 1] PROVE left' \in Approvals!Budget
  BY <1>0, <1>02 DEF PromptShape, Approvals!Budget
<1>03. ASSUME NEW r \in Prompt, NEW how \in Disposed, Approvals!HasSlot(r), Approvals!Release(r, how)
       PROVE  /\ stage' \in [Prompt -> PromptMade \cup Disposed]
              /\ queueTail' \in Seq(Prompt) /\ slotHolders' \in Nat
  <2>1. slotHolders - 1 \in Nat
    BY <1>03, HeldPlace
  <2>2. Tail(queueTail) \in Seq(Prompt)
    BY <1>0, <1>03, TailType DEF PromptShape, Approvals!HasSlot
  <2> QED BY <1>0, <1>03, <2>1, <2>2 DEF PromptShape, Approvals!Release, Approvals!Ends, PromptMade, Disposed
<1>04. ASSUME NEW r \in Prompt, NEW d \in Approvals!Decision, Approvals!Settle(r, d),
              UNCHANGED <<queueTail, slotHolders, popup, chose, left>>
       PROVE  PromptShape'
  BY <1>0, <1>04 DEF PromptShape, Approvals!Settle, PromptMade
<1>1. ASSUME NEW r \in Prompt, Approvals!RequestApproval(r) PROVE PromptShape'
  <2>1. slotHolders + 1 \in Nat \ {0} /\ (slotHolders + 1) - 1 \in Nat
    BY <1>0 DEF PromptShape
  <2>2. CASE slotHolders = 0 /\ Approvals!Admit(r, slotHolders + 1)
    BY <1>0, <1>1, <2>1, <2>2, AdmitType
       DEF PromptShape, Approvals!RequestApproval, Approvals!storage, Approvals!window, Approvals!events, Disposed
  <2>3. CASE ~(slotHolders = 0 /\ Approvals!Admit(r, slotHolders + 1))
    BY <1>0, <1>1, <2>1, <2>3
       DEF PromptShape, Approvals!RequestApproval, Approvals!Refuse, Approvals!Ends, PromptMade, Disposed,
           Approvals!storage, Approvals!window, Approvals!events
  <2> QED BY <2>2, <2>3
<1>2. ASSUME NEW r \in Prompt, Approvals!PermissionRead(r) PROVE PromptShape'
  <2>1. slotHolders \in Nat \ {0} /\ slotHolders - 1 \in Nat
    BY <1>2, HeldPlace DEF Approvals!PermissionRead
  <2>2. /\ stage' \in [Prompt -> PromptMade \cup Disposed]
        /\ queueTail' \in Seq(Prompt) /\ slotHolders' \in Nat
    BY <1>0, <1>2, <2>1, AdmitType
       DEF PromptShape, Approvals!PermissionRead, Approvals!Refuse, Approvals!Ends, PromptMade, Disposed
  <2> QED BY <1>0, <1>2, <2>2
       DEF PromptShape, Approvals!PermissionRead, Approvals!storage, Approvals!window, Approvals!events, Disposed
<1>3. ASSUME NEW r \in Prompt, Approvals!Post(r) PROVE PromptShape'
  BY <1>0, <1>3 DEF PromptShape, Approvals!Post, PromptMade, Approvals!window, Approvals!events
<1>4. ASSUME NEW r \in Prompt, Approvals!PostFails(r) PROVE PromptShape'
  BY <1>0, <1>01, <1>03, <1>4
     DEF PromptShape, Approvals!PostFails, Disposed, Approvals!storage, Approvals!window, Approvals!events
<1>5. ASSUME NEW r \in Prompt, Approvals!CreateWindow(r) PROVE PromptShape'
  BY <1>0, <1>5 DEF PromptShape, Approvals!CreateWindow, PromptMade, OnScreen, Approvals!storage, Approvals!events
<1>6. ASSUME NEW r \in Prompt, Approvals!WindowOpens(r) PROVE PromptShape'
  BY <1>0, <1>6 DEF PromptShape, Approvals!WindowOpens, OnScreen, Approvals!worker, Approvals!storage, Approvals!events
<1>7. ASSUME NEW r \in Prompt, Approvals!CreateFails(r) PROVE PromptShape'
  <2>1. Approvals!HasSlot(r)
    BY <1>7 DEF LineOrdered, HasPrompt, Approvals!CreateFails
  <2> QED BY <1>0, <1>01, <1>03, <1>7, <2>1
       DEF PromptShape, Approvals!CreateFails, Disposed, Approvals!storage, Approvals!events
<1>8. ASSUME NEW r \in Prompt, Approvals!WaitForResult(r) PROVE PromptShape'
  BY <1>0, <1>8, ReadType DEF PromptShape, Approvals!WaitForResult, PromptMade, Approvals!storage, Approvals!window, Approvals!events
<1>9. ASSUME NEW c \in changed, Approvals!ResultChanged(c) PROVE PromptShape'
  <2>1. c.id \in Prompt /\ c.value \in Approvals!Decision
    BY <1>0 DEF PromptShape
  <2> QED BY <1>0, <1>04, <1>9, <2>1
       DEF PromptShape, Approvals!ResultChanged, Approvals!window, Approvals!storage
<1>10. ASSUME NEW r \in Prompt, Approvals!OnWindowClosed(r) PROVE PromptShape'
  BY <1>0, <1>10, ReadType DEF PromptShape, Approvals!OnWindowClosed, Approvals!storage, Approvals!window
<1>11. ASSUME NEW x \in reads, Approvals!ResultRead(x) PROVE PromptShape'
  <2>1. x.id \in Prompt /\ x.saw \in Approvals!Decision \cup {None}
    BY <1>0 DEF PromptShape
  <2>2. Approvals!DismissedAs(x.saw) \in Approvals!Decision
    BY <2>1 DEF Approvals!DismissedAs, Approvals!Decision
  <2> QED BY <1>0, <1>04, <1>11, <2>1, <2>2
       DEF PromptShape, Approvals!ResultRead, Approvals!window, Approvals!storage, Approvals!events
<1>12. ASSUME NEW r \in Prompt, Approvals!Cleaned(r) PROVE PromptShape'
  BY <1>0, <1>12 DEF PromptShape, Approvals!Cleaned, PromptMade, Approvals!storage, Approvals!window, Approvals!events
<1>13. ASSUME NEW r \in Prompt, Approvals!CloseWindow(r) PROVE PromptShape'
  <2>1. Approvals!HasSlot(r)
    BY <1>13 DEF LineOrdered, HasPrompt, Approvals!CloseWindow
  <2> QED BY <1>0, <1>03, <1>13, <2>1
       DEF PromptShape, Approvals!CloseWindow, Approvals!Closed, Disposed, OnScreen, Approvals!storage, Approvals!events
<1>14. ASSUME NEW r \in Prompt, NEW d \in Approvals!Decision, Approvals!Tap(r, d) PROVE PromptShape'
  BY <1>0, <1>14 DEF PromptShape, Approvals!Tap, OnScreen, Approvals!worker, Approvals!storage, Approvals!events
<1>15. ASSUME NEW r \in Prompt, Approvals!WriteResult(r) PROVE PromptShape'
  <2>1. chose[r] \in Approvals!Decision
    BY <1>15 DEF AnswersFit, WindowFits, Approvals!WriteResult
  <2> QED BY <1>0, <1>15, <2>1 DEF PromptShape, Approvals!WriteResult, OnScreen, Approvals!worker
<1>16. ASSUME NEW r \in Prompt, Approvals!Closes(r) PROVE PromptShape'
  BY <1>0, <1>16 DEF PromptShape, Approvals!Closes, Approvals!Closed, OnScreen, Approvals!worker, Approvals!storage
<1>17. ASSUME Approvals!Evict PROVE PromptShape'
  BY <1>0, <1>02, <1>17, EmptySeq
     DEF PromptShape, Approvals!Evict, Approvals!Settled, PromptMade, Disposed, Approvals!storage, Approvals!window
<1>18. ASSUME Approvals!Tick PROVE PromptShape'
  <2>1. left' \in Approvals!Budget
    BY <1>0, <1>18 DEF Approvals!Tick, Approvals!Budget
  <2> QED BY <1>0, <1>18, <2>1 DEF PromptShape, Approvals!Tick, Approvals!worker, Approvals!storage, Approvals!window, Approvals!events
<1>19. CASE UNCHANGED approvals
  BY <1>0, <1>19 DEF PromptShape, approvals
<1> QED
  BY <1>0, <1>1, <1>2, <1>3, <1>4, <1>5, <1>6, <1>7, <1>8, <1>9, <1>10, <1>11, <1>12, <1>13, <1>14,
     <1>15, <1>16, <1>17, <1>18, <1>19
     DEF Approvals!Next, Approvals!CallStep, Approvals!Heard, Approvals!WindowStep, Approvals!User,
         Approvals!ClosesItself, Approvals!Dismiss

(* The line and the places, step by step.                                   *)
QueueInv == PlacesCounted /\ LineOrdered

(* A call that does not move in the queue.                                  *)
LEMMA QueueKept ==
  ASSUME PromptInv, PromptShape', UNCHANGED <<queueTail, slotHolders>>,
         \A r \in Prompt : \/ stage'[r] = stage[r]
                           \/ stage[r] \in HasPrompt /\ stage'[r] \in HasPrompt
                           \/ stage[r] = "queued" /\ Approvals!HasSlot(r) /\ stage'[r] \in HasPrompt
  PROVE  QueueInv'
<1>1. queueTail \in Seq(Prompt) /\ \A i \in 1..Len(queueTail) : queueTail[i] \in Prompt
  BY DEF PromptInv, PromptShape
<1>2. Checking' = Checking
  BY DEF Checking, HasPrompt
<1>3. PlacesCounted'
  BY <1>2 DEF PromptInv, PlacesCounted
<1>4. LineOrdered'
  BY <1>1 DEF PromptInv, LineOrdered, HasPrompt, Approvals!HasSlot
<1> QED BY <1>3, <1>4 DEF QueueInv

(* The call with the slot ends.                                             *)
LEMMA QueueReleased ==
  ASSUME PromptInv, NEW r \in Prompt, NEW how \in Disposed, Approvals!HasSlot(r),
         Approvals!Release(r, how)
  PROVE  QueueInv'
<1>1. /\ queueTail \in Seq(Prompt) /\ queueTail # <<>> /\ Head(queueTail) = r
      /\ stage \in [Prompt -> PromptMade \cup Disposed] /\ slotHolders \in Nat
  BY DEF PromptInv, PromptShape, Approvals!HasSlot
<1>2. /\ stage' = [stage EXCEPT ![r] = how] /\ slotHolders' = slotHolders - 1
      /\ queueTail' = Tail(queueTail)
  BY DEF Approvals!Release, Approvals!Ends
<1>3. /\ Len(queueTail') = Len(queueTail) - 1 /\ Len(queueTail) \in Nat \ {0}
      /\ \A i \in 1..Len(queueTail') : queueTail'[i] = queueTail[i + 1] /\ i + 1 \in 2..Len(queueTail)
      /\ queueTail[1] = r /\ \A i \in 1..Len(queueTail) : queueTail[i] \in Prompt
  BY <1>1, <1>2, HeadTailProperties
<1>4. \A i \in 1..Len(queueTail') : queueTail'[i] # r /\ stage'[queueTail'[i]] = stage[queueTail[i + 1]]
  <2> TAKE i \in 1..Len(queueTail')
  <2>1. queueTail'[i] # r
    BY <1>3 DEF PromptInv, LineOrdered
  <2> QED BY <1>1, <1>2, <1>3, <2>1
<1>5. PlacesCounted'
  <2>1. stage[r] # "checking"
    BY <1>3 DEF PromptInv, LineOrdered, HasPrompt
  <2>2. Checking' = Checking
    BY <1>1, <1>2, <2>1 DEF Checking, Disposed
  <2>3. Cardinality(Checking) \in Nat
    BY FS_CardinalityType DEF PromptInv, PlacesCounted
  <2>4. MaxQueued \in Nat
    BY ApprovalAssumptions DEF Approvals!Assumptions
  <2> QED BY <1>1, <1>2, <1>3, <2>2, <2>3, <2>4 DEF PromptInv, PlacesCounted
<1>6. LineOrdered'
  <2>1. \A i \in 1..Len(queueTail') : stage'[queueTail'[i]] \in HasPrompt \cup {"queued"}
    BY <1>3, <1>4 DEF PromptInv, LineOrdered
  <2>2. \A i, k \in 1..Len(queueTail') : queueTail'[i] = queueTail'[k] => i = k
    <3> TAKE i, k \in 1..Len(queueTail')
    <3>1. i + 1 \in 1..Len(queueTail) /\ k + 1 \in 1..Len(queueTail)
      BY <1>3
    <3>2. queueTail[i + 1] = queueTail[k + 1] => i + 1 = k + 1
      BY <3>1 DEF PromptInv, LineOrdered
    <3> QED BY <1>3, <3>2
  <2>3. \A q \in Prompt : stage'[q] \notin HasPrompt
    <3> SUFFICES ASSUME NEW q \in Prompt, stage'[q] \in HasPrompt PROVE FALSE
      OBVIOUS
    <3>1. q # r /\ stage[q] \in HasPrompt
      BY <1>1, <1>2 DEF HasPrompt, Disposed
    <3> QED BY <1>1, <3>1 DEF PromptInv, LineOrdered, Approvals!HasSlot
  <2>4. \A i \in 2..Len(queueTail') : OriginOf[queueTail'[i]] \in Connected
    BY <1>3 DEF PromptInv, LineOrdered
  <2> QED BY <2>1, <2>2, <2>3, <2>4 DEF LineOrdered
<1> QED BY <1>5, <1>6 DEF QueueInv

(* A call gets in line: from its check, or past it because nobody is there. *)
LEMMA QueueJoined ==
  ASSUME PromptInv, NEW r \in Prompt, stage' = [stage EXCEPT ![r] = "queued"],
         queueTail' = Append(queueTail, r),
         \/ stage[r] = "checking" /\ slotHolders' = slotHolders /\ OriginOf[r] \in Connected
         \/ stage[r] = "idle" /\ slotHolders = 0 /\ slotHolders' = slotHolders + 1
  PROVE  QueueInv'
<1>1. /\ queueTail \in Seq(Prompt) /\ Len(queueTail) \in Nat /\ slotHolders \in Nat /\ MaxQueued \in Nat
      /\ stage \in [Prompt -> PromptMade \cup Disposed] /\ Cardinality(Checking) \in Nat
      /\ IsFiniteSet(Checking)
      /\ slotHolders = Len(queueTail) + Cardinality(Checking) /\ slotHolders <= 1 + MaxQueued
  BY FS_CardinalityType, ApprovalAssumptions DEF PromptInv, PromptShape, PlacesCounted, Approvals!Assumptions
<1>2. /\ Len(queueTail') = Len(queueTail) + 1
      /\ \A i \in 1..Len(queueTail) : queueTail'[i] = queueTail[i] /\ queueTail[i] \in Prompt
      /\ queueTail'[Len(queueTail) + 1] = r
      /\ \A i \in 1..Len(queueTail') : i \in 1..Len(queueTail) \/ i = Len(queueTail) + 1
  BY <1>1, AppendProperties
<1>3. \A i \in 1..Len(queueTail) : queueTail[i] # r
  BY DEF PromptInv, LineOrdered, HasPrompt
<1>4. PlacesCounted'
  <2>1. CASE stage[r] = "checking"
    <3>1. Checking' = Checking \ {r} /\ r \in Checking
      BY <1>1, <2>1 DEF Checking
    <3>2. IsFiniteSet(Checking') /\ Cardinality(Checking') = Cardinality(Checking) - 1
      BY <1>1, <3>1, FS_RemoveElement
    <3> QED BY <1>1, <1>2, <2>1, <3>2 DEF PlacesCounted
  <2>2. CASE stage[r] = "idle"
    <3>1. Checking' = Checking
      BY <1>1, <2>2 DEF Checking
    <3> QED BY <1>1, <1>2, <2>2, <3>1 DEF PlacesCounted
  <2> QED BY <2>1, <2>2
<1>5. LineOrdered'
  <2>1. \A i \in 1..Len(queueTail') : stage'[queueTail'[i]] \in HasPrompt \cup {"queued"}
    <3> TAKE i \in 1..Len(queueTail')
    <3>1. CASE i \in 1..Len(queueTail)
      BY <1>1, <1>2, <1>3, <3>1 DEF PromptInv, LineOrdered
    <3>2. CASE i = Len(queueTail) + 1
      BY <1>1, <1>2, <3>2
    <3> QED BY <1>2, <3>1, <3>2
  <2>2. \A i, k \in 1..Len(queueTail') : queueTail'[i] = queueTail'[k] => i = k
    BY <1>2, <1>3 DEF PromptInv, LineOrdered
  <2>3. \A q \in Prompt : stage'[q] \in HasPrompt => Approvals!HasSlot(q)'
    <3> TAKE q \in Prompt
    <3> HAVE stage'[q] \in HasPrompt
    <3>1. stage[q] \in HasPrompt
      BY <1>1 DEF HasPrompt
    <3>2. queueTail # <<>> /\ Head(queueTail) = q
      BY <3>1 DEF PromptInv, LineOrdered, Approvals!HasSlot
    <3>3. queueTail' # <<>> /\ Head(queueTail') = queueTail'[1] /\ Head(queueTail) = queueTail[1]
          /\ 1 \in 1..Len(queueTail)
      BY <1>1, <3>2, AppendProperties
    <3> QED BY <1>2, <3>2, <3>3 DEF Approvals!HasSlot
  <2>4. \A i \in 2..Len(queueTail') : OriginOf[queueTail'[i]] \in Connected
    <3> TAKE i \in 2..Len(queueTail')
    <3>1. CASE i \in 1..Len(queueTail)
      BY <1>2, <3>1 DEF PromptInv, LineOrdered
    <3>2. CASE i = Len(queueTail) + 1
      BY <1>1, <1>2, <3>2
    <3> QED BY <1>2, <3>1, <3>2
  <2> QED BY <2>1, <2>2, <2>3, <2>4 DEF LineOrdered
<1> QED BY <1>4, <1>5 DEF QueueInv

(* A call turns away a caller, who may have held a place for its check, or  *)
(* gives one to that check.                                                 *)
LEMMA QueueAsked ==
  ASSUME PromptInv, NEW r \in Prompt, UNCHANGED queueTail,
         \/ /\ stage' = [stage EXCEPT ![r] = "refused"]
            /\ stage[r] = "idle" /\ slotHolders' = slotHolders
         \/ /\ stage' = [stage EXCEPT ![r] = "refused"]
            /\ stage[r] = "checking" /\ slotHolders' = slotHolders - 1
         \/ /\ stage' = [stage EXCEPT ![r] = "checking"]
            /\ stage[r] = "idle" /\ slotHolders' = slotHolders + 1
            /\ slotHolders <= MaxQueued
  PROVE  QueueInv'
<1>1. /\ queueTail \in Seq(Prompt) /\ Len(queueTail) \in Nat /\ slotHolders \in Nat /\ MaxQueued \in Nat
      /\ stage \in [Prompt -> PromptMade \cup Disposed] /\ Cardinality(Checking) \in Nat
      /\ IsFiniteSet(Checking)
      /\ slotHolders = Len(queueTail) + Cardinality(Checking) /\ slotHolders <= 1 + MaxQueued
  BY FS_CardinalityType, ApprovalAssumptions DEF PromptInv, PromptShape, PlacesCounted, Approvals!Assumptions
<1>2. \A i \in 1..Len(queueTail) : queueTail[i] \in Prompt /\ queueTail[i] # r
  BY <1>1 DEF PromptInv, LineOrdered, HasPrompt
<1>3. LineOrdered'
  BY <1>1, <1>2 DEF PromptInv, LineOrdered, HasPrompt, Approvals!HasSlot
<1>4. CASE stage[r] = "idle" /\ stage' = [stage EXCEPT ![r] = "refused"] /\ slotHolders' = slotHolders
  <2>1. Checking' = Checking
    BY <1>1, <1>4 DEF Checking
  <2> QED BY <1>1, <1>3, <1>4, <2>1 DEF PlacesCounted, QueueInv
<1>5. CASE stage[r] = "checking" /\ stage' = [stage EXCEPT ![r] = "refused"] /\ slotHolders' = slotHolders - 1
  <2>1. Checking' = Checking \ {r} /\ r \in Checking
    BY <1>1, <1>5 DEF Checking
  <2>2. IsFiniteSet(Checking') /\ Cardinality(Checking') = Cardinality(Checking) - 1
    BY <1>1, <2>1, FS_RemoveElement
  <2> QED BY <1>1, <1>3, <1>5, <2>2 DEF PlacesCounted, QueueInv
<1>6. CASE /\ stage[r] = "idle" /\ stage' = [stage EXCEPT ![r] = "checking"]
           /\ slotHolders' = slotHolders + 1 /\ slotHolders <= MaxQueued
  <2>1. Checking' = Checking \cup {r} /\ r \notin Checking
    BY <1>1, <1>6 DEF Checking
  <2>2. IsFiniteSet(Checking') /\ Cardinality(Checking') = Cardinality(Checking) + 1
    BY <1>1, <2>1, FS_AddElement
  <2>3. slotHolders' = Len(queueTail') + Cardinality(Checking') /\ slotHolders' <= 1 + MaxQueued
    <3> DEFINE n == Len(queueTail)
               k == Cardinality(Checking)
    <3>1. n \in Nat /\ k \in Nat /\ slotHolders \in Nat /\ MaxQueued \in Nat /\ slotHolders = n + k
      BY <1>1
    <3>2. slotHolders' = slotHolders + 1 /\ slotHolders <= MaxQueued
      BY <1>6
    <3>3. Len(queueTail') = n /\ Cardinality(Checking') = k + 1
      BY <1>1, <2>2
    <3> HIDE DEF n, k
    <3> QED BY <3>1, <3>2, <3>3
  <2> QED BY <1>3, <2>2, <2>3 DEF PlacesCounted, QueueInv
<1> QED BY <1>4, <1>5, <1>6

LEMMA QueueStep ==
  ASSUME PromptInv, [Approvals!Next]_approvals
  PROVE  QueueInv'
<1>0. /\ stage \in [Prompt -> PromptMade \cup Disposed] /\ slotHolders \in Nat
      /\ queueTail \in Seq(Prompt) /\ Len(queueTail) \in Nat /\ left.requests \subseteq Prompt
      /\ MaxQueued \in Nat /\ PromptShape'
  BY ShapeStep, ApprovalAssumptions DEF PromptInv, PromptShape, Approvals!Budget, Approvals!Assumptions
<1>01. ASSUME UNCHANGED <<stage, queueTail, slotHolders>> PROVE QueueInv'
  BY <1>0, <1>01, QueueKept
<1>02. \A r \in Prompt : stage[r] \in HasPrompt => Approvals!HasSlot(r)
  BY DEF PromptInv, LineOrdered
<1>03. ASSUME NEW r \in Prompt, NEW d, Approvals!Settle(r, d), stage[r] = "waiting",
              UNCHANGED <<queueTail, slotHolders>>
       PROVE  QueueInv'
  BY <1>0, <1>03, QueueKept DEF Approvals!Settle, HasPrompt
<1>1. ASSUME NEW r \in Prompt, Approvals!RequestApproval(r) PROVE QueueInv'
  <2>1. stage[r] = "idle"
    BY <1>1 DEF Approvals!RequestApproval
  <2>2. \/ stage' = [stage EXCEPT ![r] = "refused"] /\ slotHolders' = (slotHolders + 1) - 1 /\ queueTail' = queueTail
        \/ /\ stage' = [stage EXCEPT ![r] = "checking"] /\ slotHolders' = slotHolders + 1 /\ queueTail' = queueTail
           /\ slotHolders <= MaxQueued
        \/ /\ stage' = [stage EXCEPT ![r] = "queued"] /\ slotHolders' = slotHolders + 1
           /\ queueTail' = Append(queueTail, r) /\ slotHolders = 0
    BY <1>0, <1>1 DEF Approvals!RequestApproval, Approvals!Admit, Approvals!Refuse, Approvals!Ends, Approvals!Full
  <2> QED BY <1>0, <2>1, <2>2, QueueAsked, QueueJoined
<1>2. ASSUME NEW r \in Prompt, Approvals!PermissionRead(r) PROVE QueueInv'
  <2>1. stage[r] = "checking"
    BY <1>2 DEF Approvals!PermissionRead
  <2>2. \/ stage' = [stage EXCEPT ![r] = "refused"] /\ slotHolders' = slotHolders - 1 /\ queueTail' = queueTail
        \/ /\ stage' = [stage EXCEPT ![r] = "queued"] /\ slotHolders' = slotHolders
           /\ queueTail' = Append(queueTail, r) /\ OriginOf[r] \in Connected
    BY <1>0, <1>2 DEF Approvals!PermissionRead, Approvals!Admit, Approvals!Refuse, Approvals!Ends
  <2> QED BY <2>1, <2>2, QueueAsked, QueueJoined
<1>3. ASSUME NEW r \in Prompt, Approvals!Post(r) PROVE QueueInv'
  BY <1>0, <1>3, QueueKept DEF Approvals!Post, HasPrompt
<1>4. ASSUME NEW r \in Prompt, Approvals!PostFails(r) PROVE QueueInv'
  BY <1>4, QueueReleased DEF Approvals!PostFails, Disposed
<1>5. ASSUME NEW r \in Prompt, Approvals!CreateWindow(r) PROVE QueueInv'
  BY <1>0, <1>5, QueueKept DEF Approvals!CreateWindow, HasPrompt
<1>6. ASSUME NEW r \in Prompt, Approvals!WindowOpens(r) PROVE QueueInv'
  BY <1>6, <1>01 DEF Approvals!WindowOpens, Approvals!worker
<1>7. ASSUME NEW r \in Prompt, Approvals!CreateFails(r) PROVE QueueInv'
  BY <1>02, <1>7, QueueReleased DEF Approvals!CreateFails, Disposed, HasPrompt
<1>8. ASSUME NEW r \in Prompt, Approvals!WaitForResult(r) PROVE QueueInv'
  BY <1>0, <1>8, QueueKept DEF Approvals!WaitForResult, HasPrompt
<1>9. ASSUME NEW c \in changed, Approvals!ResultChanged(c) PROVE QueueInv'
  <2>1. c.id \in Prompt
    BY DEF PromptInv, PromptShape
  <2> QED BY <1>01, <1>03, <1>9, <2>1 DEF Approvals!ResultChanged
<1>10. ASSUME NEW r \in Prompt, Approvals!OnWindowClosed(r) PROVE QueueInv'
  BY <1>01, <1>10 DEF Approvals!OnWindowClosed
<1>11. ASSUME NEW x \in reads, Approvals!ResultRead(x) PROVE QueueInv'
  <2>1. x.id \in Prompt /\ stage[x.id] = "waiting"
    BY DEF PromptInv, PromptShape, AnswersFit, ReadFits
  <2> QED BY <1>01, <1>03, <1>11, <2>1 DEF Approvals!ResultRead
<1>12. ASSUME NEW r \in Prompt, Approvals!Cleaned(r) PROVE QueueInv'
  BY <1>0, <1>12, QueueKept DEF Approvals!Cleaned, HasPrompt
<1>13. ASSUME NEW r \in Prompt, Approvals!CloseWindow(r) PROVE QueueInv'
  BY <1>02, <1>13, QueueReleased DEF Approvals!CloseWindow, Disposed, HasPrompt
<1>14. ASSUME NEW r \in Prompt, NEW d, Approvals!Tap(r, d) PROVE QueueInv'
  BY <1>01, <1>14 DEF Approvals!Tap, Approvals!worker
<1>15. ASSUME NEW r \in Prompt, Approvals!WriteResult(r) \/ Approvals!Closes(r) PROVE QueueInv'
  BY <1>01, <1>15 DEF Approvals!WriteResult, Approvals!Closes, Approvals!worker
<1>16. ASSUME Approvals!Evict PROVE QueueInv'
  <2>1. Checking' = {} /\ \A r \in Prompt : stage'[r] \notin HasPrompt
    BY <1>0, <1>16 DEF Approvals!Evict, Approvals!Settled, Checking, HasPrompt
  <2>2. queueTail' = <<>> /\ slotHolders' = 0
    BY <1>16 DEF Approvals!Evict
  <2> QED BY <1>0, <2>1, <2>2, FS_EmptySet DEF QueueInv, PlacesCounted, LineOrdered
<1>17. CASE Approvals!Tick \/ UNCHANGED approvals
  BY <1>01, <1>17 DEF Approvals!Tick, Approvals!worker, approvals
<1> QED
  BY <1>0, <1>1, <1>2, <1>3, <1>4, <1>5, <1>6, <1>7, <1>8, <1>9, <1>10, <1>11, <1>12, <1>13, <1>14,
     <1>15, <1>16, <1>17
     DEF Approvals!Next, Approvals!CallStep, Approvals!Heard, Approvals!WindowStep, Approvals!User,
         Approvals!ClosesItself, Approvals!Dismiss

(* What the calls answer, step by step.                                     *)

(* A step that leaves the windows and what they wrote alone, and moves a    *)
(* call from where its window does not matter to where it does not.         *)
LEMMA AnswersKept ==
  ASSUME PromptInv, UNCHANGED <<popup, chose, answer, result, removed, changed, reads>>,
         stage' \in [Prompt -> PromptMade \cup Disposed],
         \A r \in Prompt : \/ stage'[r] = stage[r]
                           \/ /\ stage[r] \in {"idle", "checking", "queued", "posting"}
                              /\ stage'[r] \in {"checking", "queued", "posting", "refused", "failed"}
                           \/ stage[r] = "cleaning" /\ stage'[r] = "closing"
  PROVE  AnswersFit'
<1>1. \A r \in Prompt : WindowFits(r)'
  BY DEF PromptInv, AnswersFit, WindowFits, Decisive
<1>2. \A r \in Prompt : ResultFits(r)'
  BY DEF PromptInv, AnswersFit, ResultFits, Decisive
<1>3. \A x \in reads : ReadFits(x)'
  BY DEF PromptInv, PromptShape, AnswersFit, ReadFits, Decisive
<1> QED BY <1>1, <1>2, <1>3 DEF PromptInv, AnswersFit, Decisive

(* The call settles on what its window wrote, or denies what it did not.    *)
LEMMA AnswersSettled ==
  ASSUME PromptInv, NEW r \in Prompt, NEW d, Approvals!Settle(r, d), stage[r] = "waiting",
         popup[r] \in {"written", "finished", "closed"}, d = IF Decisive(r) THEN chose[r] ELSE "denied",
         UNCHANGED <<popup, chose>>
  PROVE  AnswersFit'
<1>0. /\ stage \in [Prompt -> PromptMade \cup Disposed]
      /\ answer \in [Prompt -> Approvals!Decision \cup {None}]
      /\ result \in [Prompt -> Approvals!Decision \cup {None}]
      /\ \A x \in reads : x.id \in Prompt
      /\ \A c \in changed : c.id \in Prompt
  BY DEF PromptInv, PromptShape
<1>1. /\ stage' = [stage EXCEPT ![r] = "cleaning"] /\ answer' = [answer EXCEPT ![r] = d]
      /\ result' = [result EXCEPT ![r] = None]
      /\ changed' = {c \in changed : c.id # r} /\ removed' = removed \ {r}
      /\ reads' = {x \in reads : x.id # r}
  BY DEF Approvals!Settle
<1>2. \A q \in Prompt : WindowFits(q)'
  BY <1>0, <1>1 DEF PromptInv, AnswersFit, WindowFits, Decisive
<1>3. \A q \in Prompt : ResultFits(q)'
  BY <1>0, <1>1 DEF PromptInv, AnswersFit, ResultFits, Decisive
<1>4. \A x \in reads' : ReadFits(x)'
  BY <1>0, <1>1 DEF PromptInv, AnswersFit, ReadFits, Decisive
<1> QED BY <1>1, <1>2, <1>3, <1>4 DEF PromptInv, AnswersFit, Decisive

LEMMA AnswersStep ==
  ASSUME PromptInv, [Approvals!Next]_approvals
  PROVE  AnswersFit'
<1>0. /\ stage \in [Prompt -> PromptMade \cup Disposed]
      /\ popup \in [Prompt -> OnScreen \cup {"none", "finished", "closed"}]
      /\ answer \in [Prompt -> Approvals!Decision \cup {None}]
      /\ result \in [Prompt -> Approvals!Decision \cup {None}]
      /\ chose \in [Prompt -> Approvals!Decision \cup {None}]
      /\ \A x \in reads : x.id \in Prompt /\ x.why \in {"subscribed", "closed"}
      /\ \A c \in changed : c.id \in Prompt
      /\ left.requests \subseteq Prompt /\ PromptShape'
      /\ stage' \in [Prompt -> PromptMade \cup Disposed]
  BY ShapeStep DEF PromptInv, PromptShape, Approvals!Budget
<1>00. None \notin Approvals!Decision
  BY ApprovalAssumptions DEF Approvals!Assumptions
<1>01. /\ \A r \in Prompt : WindowFits(r) /\ ResultFits(r)
       /\ \A x \in reads : ReadFits(x)
       /\ \A c \in changed : Decisive(c.id) /\ c.value = chose[c.id]
  BY DEF PromptInv, AnswersFit
<1>1. ASSUME NEW r \in Prompt, \/ Approvals!RequestApproval(r) \/ Approvals!PermissionRead(r)
                               \/ Approvals!Post(r) \/ Approvals!PostFails(r) \/ Approvals!Cleaned(r)
      PROVE  AnswersFit'
  <2>1. UNCHANGED <<popup, chose, answer, result, removed, changed, reads>>
    BY <1>1 DEF Approvals!RequestApproval, Approvals!PermissionRead, Approvals!Post, Approvals!PostFails,
       Approvals!Cleaned, Approvals!storage, Approvals!window, Approvals!events
  <2>2. \/ /\ stage[r] \in {"idle", "checking", "queued"}
           /\ \E how \in {"checking", "queued", "posting", "refused", "failed"} : stage' = [stage EXCEPT ![r] = how]
        \/ stage[r] = "cleaning" /\ stage' = [stage EXCEPT ![r] = "closing"]
    BY <1>1 DEF Approvals!RequestApproval, Approvals!PermissionRead, Approvals!Post, Approvals!PostFails,
       Approvals!Cleaned, Approvals!Admit, Approvals!Refuse, Approvals!Release, Approvals!Ends
  <2> QED BY <1>0, <2>1, <2>2, AnswersKept
<1>2. ASSUME NEW r \in Prompt, Approvals!CreateWindow(r) PROVE AnswersFit'
  <2>1. /\ stage[r] = "posting" /\ stage' = [stage EXCEPT ![r] = "creating"]
        /\ popup' = [popup EXCEPT ![r] = "coming"]
        /\ UNCHANGED <<chose, answer, result, removed, changed, reads>>
    BY <1>2 DEF Approvals!CreateWindow, Approvals!storage, Approvals!events
  <2>2. popup[r] = "none"
    BY <1>01, <2>1 DEF WindowFits
  <2>3. \A q \in Prompt : WindowFits(q)'
    BY <1>0, <1>01, <2>1, <2>2 DEF WindowFits, Decisive
  <2>4. \A q \in Prompt : ResultFits(q)'
    BY <1>0, <1>01, <2>1, <2>2 DEF ResultFits, Decisive
  <2>5. \A x \in reads : ReadFits(x)'
    BY <1>0, <1>01, <2>1, <2>2 DEF ReadFits, Decisive
  <2>6. \A c \in changed : Decisive(c.id)' /\ c.value = chose[c.id]
    BY <1>0, <1>01, <2>1, <2>2 DEF Decisive
  <2> QED BY <2>1, <2>3, <2>4, <2>5, <2>6 DEF AnswersFit
<1>3. ASSUME NEW r \in Prompt, Approvals!WindowOpens(r) PROVE AnswersFit'
  <2>1. /\ popup[r] = "coming" /\ popup' = [popup EXCEPT ![r] = "open"]
        /\ UNCHANGED <<stage, chose, answer, result, removed, changed, reads>>
    BY <1>3 DEF Approvals!WindowOpens, Approvals!worker, Approvals!storage, Approvals!events
  <2>2. \A q \in Prompt : WindowFits(q)'
    BY <1>0, <1>01, <2>1 DEF WindowFits, Decisive
  <2>3. \A q \in Prompt : ResultFits(q)'
    BY <1>0, <1>01, <2>1 DEF ResultFits, Decisive
  <2>4. \A x \in reads : ReadFits(x)'
    BY <1>0, <1>01, <2>1 DEF ReadFits, Decisive
  <2>5. \A c \in changed : Decisive(c.id)' /\ c.value = chose[c.id]
    BY <1>0, <1>01, <2>1 DEF Decisive
  <2> QED BY <2>1, <2>2, <2>3, <2>4, <2>5 DEF AnswersFit
<1>4. ASSUME NEW r \in Prompt, Approvals!CreateFails(r) PROVE AnswersFit'
  <2>1. /\ popup[r] = "coming" /\ popup' = [popup EXCEPT ![r] = "none"]
        /\ stage[r] = "creating" /\ stage' = [stage EXCEPT ![r] = "failed"]
        /\ UNCHANGED <<chose, answer, result, removed, changed, reads>>
    BY <1>4 DEF Approvals!CreateFails, Approvals!Release, Approvals!Ends, Approvals!storage, Approvals!events
  <2>2. \A q \in Prompt : WindowFits(q)'
    BY <1>0, <1>01, <2>1 DEF WindowFits, Decisive
  <2>3. \A q \in Prompt : ResultFits(q)'
    BY <1>0, <1>01, <2>1 DEF ResultFits, Decisive
  <2>4. \A x \in reads : ReadFits(x)'
    BY <1>0, <1>01, <2>1 DEF ReadFits, Decisive
  <2>5. \A c \in changed : Decisive(c.id)' /\ c.value = chose[c.id]
    BY <1>0, <1>01, <2>1 DEF Decisive
  <2> QED BY <2>1, <2>2, <2>3, <2>4, <2>5 DEF AnswersFit
(* The call looks at the result key: once it listens, and once its window   *)
(* has gone.                                                                *)
<1>5. ASSUME NEW r \in Prompt, NEW why \in {"subscribed", "closed"},
             stage[r] \in {"creating", "waiting"}, stage' = [stage EXCEPT ![r] = "waiting"], popup[r] # "coming",
             why = "closed" => r \in removed, removed' \subseteq removed,
             reads' = reads \cup {Approvals!Read(r, why)},
             UNCHANGED <<popup, chose, answer, result, changed>>
      PROVE  AnswersFit'
  <2>1. \A q \in Prompt : WindowFits(q)'
    BY <1>0, <1>01, <1>5 DEF WindowFits, Decisive
  <2>2. \A q \in Prompt : ResultFits(q)'
    BY <1>0, <1>01, <1>5 DEF ResultFits, Decisive
  <2>3. \A x \in reads : ReadFits(x)'
    BY <1>0, <1>01, <1>5 DEF ReadFits, Decisive
  <2>4. ASSUME NEW x, x = Approvals!Read(r, why) PROVE ReadFits(x)'
    <3>1. x.id = r /\ x.why = why /\ x.saw = result[r]
      BY <2>4 DEF Approvals!Read
    <3>2. result[r] # None => Decisive(r) /\ result[r] = chose[r]
      BY <1>01 DEF ResultFits
    <3>3. why = "closed" /\ result[r] = None => popup[r] = "closed"
      <4>1. ASSUME Decisive(r), result[r] = None PROVE FALSE
        BY <1>00, <1>01, <1>5, <4>1 DEF ResultFits, WindowFits, Decisive
      <4>2. why = "closed" => popup[r] \in {"finished", "closed"}
        BY <1>01, <1>5 DEF ResultFits
      <4> QED BY <4>1, <4>2 DEF Decisive
    <3>4. stage'[r] = "waiting" /\ popup' = popup /\ chose' = chose
      BY <1>0, <1>5
    <3> QED BY <3>1, <3>2, <3>3, <3>4 DEF ReadFits, Decisive
  <2>5. \A x \in reads' : ReadFits(x)'
    BY <1>5, <2>3, <2>4
  <2>6. \A c \in changed : Decisive(c.id)' /\ c.value = chose'[c.id]
    BY <1>01, <1>5 DEF Decisive
  <2> QED BY <1>5, <2>1, <2>2, <2>5, <2>6 DEF AnswersFit
<1>6. ASSUME NEW r \in Prompt, Approvals!WaitForResult(r) PROVE AnswersFit'
  BY <1>5, <1>6 DEF Approvals!WaitForResult, Approvals!storage, Approvals!window, Approvals!events
<1>7. ASSUME NEW r \in Prompt, Approvals!OnWindowClosed(r) PROVE AnswersFit'
  <2>1. r \in removed /\ removed' = removed \ {r}
        /\ UNCHANGED <<stage, popup, chose, answer, result, changed>>
    BY <1>7 DEF Approvals!OnWindowClosed, Approvals!storage, Approvals!window
  <2>2. CASE stage[r] = "waiting"
    <3>1. reads' = reads \cup {Approvals!Read(r, "closed")}
      BY <1>7, <2>2 DEF Approvals!OnWindowClosed
    <3>2. popup[r] # "coming" /\ stage' = [stage EXCEPT ![r] = "waiting"]
      BY <1>0, <1>01, <2>1, <2>2 DEF WindowFits
    <3> QED BY <1>5, <2>1, <2>2, <3>1, <3>2
  <2>3. CASE stage[r] # "waiting"
    <3>1. reads' = reads
      BY <1>7, <2>3 DEF Approvals!OnWindowClosed
    <3> QED BY <1>01, <2>1, <3>1 DEF AnswersFit, WindowFits, ResultFits, ReadFits, Decisive
  <2> QED BY <2>2, <2>3
<1>8. ASSUME NEW c \in changed, Approvals!ResultChanged(c) PROVE AnswersFit'
  <2>1. c.id \in Prompt /\ Decisive(c.id) /\ c.value = chose[c.id]
    BY <1>0, <1>01
  <2>2. UNCHANGED <<popup, chose>>
    BY <1>8 DEF Approvals!ResultChanged, Approvals!window
  <2>3. CASE stage[c.id] = "waiting"
    <3>1. Approvals!Settle(c.id, c.value)
      BY <1>8, <2>3 DEF Approvals!ResultChanged
    <3> QED BY <2>1, <2>2, <2>3, <3>1, AnswersSettled DEF Decisive
  <2>4. CASE stage[c.id] # "waiting"
    <3>1. changed' = changed \ {c} /\ UNCHANGED <<stage, answer, result, removed, reads>>
      BY <1>8, <2>4 DEF Approvals!ResultChanged, Approvals!storage
    <3> QED BY <1>01, <2>2, <3>1 DEF AnswersFit, WindowFits, ResultFits, ReadFits, Decisive
  <2> QED BY <2>3, <2>4
<1>9. ASSUME NEW x \in reads, Approvals!ResultRead(x) PROVE AnswersFit'
  <2>1. /\ x.id \in Prompt /\ stage[x.id] = "waiting"
        /\ x.saw # None => Decisive(x.id) /\ x.saw = chose[x.id]
        /\ x.why = "closed" /\ x.saw = None => popup[x.id] = "closed"
    BY <1>0, <1>01 DEF ReadFits
  <2>2. UNCHANGED <<popup, chose>>
    BY <1>9 DEF Approvals!ResultRead, Approvals!window
  <2>3. CASE x.why = "closed" /\ Approvals!Settle(x.id, Approvals!DismissedAs(x.saw))
    <3>1. /\ popup[x.id] \in {"written", "finished", "closed"}
          /\ Approvals!DismissedAs(x.saw) = IF Decisive(x.id) THEN chose[x.id] ELSE "denied"
      BY <2>1, <2>3 DEF Approvals!DismissedAs, Decisive
    <3> QED BY <2>1, <2>2, <2>3, <3>1, AnswersSettled
  <2>4. CASE x.saw # None /\ Approvals!Settle(x.id, x.saw)
    BY <2>1, <2>2, <2>4, AnswersSettled DEF Decisive
  <2>5. CASE reads' = reads \ {x} /\ UNCHANGED <<stage, answer, result, removed, changed>>
    BY <1>01, <2>2, <2>5 DEF AnswersFit, WindowFits, ResultFits, ReadFits, Decisive
  <2> QED BY <1>9, <2>3, <2>4, <2>5 DEF Approvals!ResultRead, Approvals!storage, Approvals!events
<1>10. ASSUME NEW r \in Prompt, Approvals!CloseWindow(r) PROVE AnswersFit'
  <2>1. /\ stage[r] = "closing" /\ stage' = [stage EXCEPT ![r] = "answered"]
        /\ popup' = [popup EXCEPT ![r] = Approvals!Closed(popup[r])]
        /\ UNCHANGED <<chose, answer, result, removed, changed, reads>>
    BY <1>10 DEF Approvals!CloseWindow, Approvals!Release, Approvals!Ends, Approvals!storage, Approvals!events
  <2>2. popup[r] \in {"written", "finished", "closed"}
    BY <1>01, <2>1 DEF WindowFits
  <2>3. popup'[r] = IF Decisive(r) THEN "finished" ELSE "closed"
    BY <1>0, <2>1, <2>2 DEF Approvals!Closed, Decisive
  <2>4. \A q \in Prompt : WindowFits(q)'
    BY <1>0, <1>01, <2>1, <2>2, <2>3 DEF WindowFits, Decisive
  <2>5. \A q \in Prompt : ResultFits(q)'
    BY <1>0, <1>01, <2>1, <2>2, <2>3 DEF ResultFits, Decisive
  <2>6. \A x \in reads : ReadFits(x)'
    BY <1>0, <1>01, <2>1, <2>2, <2>3 DEF ReadFits, Decisive
  <2>7. \A c \in changed : Decisive(c.id)' /\ c.value = chose[c.id]
    BY <1>0, <1>01, <2>1, <2>2, <2>3 DEF Decisive
  <2> QED BY <2>1, <2>4, <2>5, <2>6, <2>7 DEF AnswersFit
<1>11. ASSUME NEW r \in Prompt, NEW d \in Approvals!Decision, Approvals!Tap(r, d) PROVE AnswersFit'
  <2>1. /\ popup[r] = "open" /\ popup' = [popup EXCEPT ![r] = "tapped"] /\ chose' = [chose EXCEPT ![r] = d]
        /\ UNCHANGED <<stage, answer, result, removed, changed, reads>>
    BY <1>11 DEF Approvals!Tap, Approvals!worker, Approvals!storage, Approvals!events
  <2>2. \A q \in Prompt : WindowFits(q)'
    BY <1>0, <1>01, <2>1 DEF WindowFits, Decisive
  <2>3. \A q \in Prompt : ResultFits(q)'
    BY <1>0, <1>01, <2>1 DEF ResultFits, Decisive
  <2>4. \A x \in reads : ReadFits(x)'
    BY <1>0, <1>01, <2>1 DEF ReadFits, Decisive
  <2>5. \A c \in changed : Decisive(c.id)' /\ c.value = chose'[c.id]
    BY <1>0, <1>01, <2>1 DEF Decisive
  <2> QED BY <2>1, <2>2, <2>3, <2>4, <2>5 DEF AnswersFit
<1>12. ASSUME NEW r \in Prompt, Approvals!WriteResult(r) PROVE AnswersFit'
  <2>1. /\ popup[r] = "tapped" /\ popup' = [popup EXCEPT ![r] = "written"]
        /\ result' = [result EXCEPT ![r] = chose[r]]
        /\ changed' \subseteq changed \cup {[id |-> r, value |-> chose[r]]}
        /\ UNCHANGED <<stage, answer, chose, removed, reads>>
    BY <1>12 DEF Approvals!WriteResult, Approvals!worker
  <2>2. \A q \in Prompt : WindowFits(q)'
    BY <1>0, <1>01, <2>1 DEF WindowFits, Decisive
  <2>3. \A q \in Prompt : ResultFits(q)'
    BY <1>0, <1>01, <2>1 DEF ResultFits, Decisive
  <2>4. \A x \in reads : ReadFits(x)'
    BY <1>0, <1>01, <2>1 DEF ReadFits, Decisive
  <2>5. \A c \in changed' : Decisive(c.id)' /\ c.value = chose[c.id]
    BY <1>0, <1>01, <2>1 DEF Decisive
  <2> QED BY <2>1, <2>2, <2>3, <2>4, <2>5 DEF AnswersFit
<1>13. ASSUME NEW r \in Prompt, Approvals!Closes(r), popup[r] \in {"open", "tapped", "written"} PROVE AnswersFit'
  <2>1. /\ popup' = [popup EXCEPT ![r] = IF popup[r] = "written" THEN "finished" ELSE "closed"]
        /\ removed' \subseteq removed \cup {r}
        /\ UNCHANGED <<stage, answer, chose, result, changed, reads>>
    BY <1>13 DEF Approvals!Closes, Approvals!Closed, Approvals!worker, Approvals!storage
  <2>2. \A q \in Prompt : WindowFits(q)'
    BY <1>0, <1>01, <1>13, <2>1 DEF WindowFits, Decisive
  <2>3. \A q \in Prompt : ResultFits(q)'
    BY <1>0, <1>01, <1>13, <2>1 DEF ResultFits, Decisive
  <2>4. \A x \in reads : ReadFits(x)'
    BY <1>0, <1>01, <1>13, <2>1 DEF ReadFits, Decisive
  <2>5. \A c \in changed : Decisive(c.id)' /\ c.value = chose[c.id]
    BY <1>0, <1>01, <1>13, <2>1 DEF Decisive
  <2> QED BY <2>1, <2>2, <2>3, <2>4, <2>5 DEF AnswersFit
<1>14. ASSUME Approvals!Evict PROVE AnswersFit'
  <2>1. /\ reads' = {} /\ changed' = {} /\ removed' = {} /\ UNCHANGED <<popup, chose, answer, result>>
        /\ \A r \in Prompt : stage'[r] = IF stage[r] \in Disposed THEN stage[r] ELSE "lost"
    BY <1>14 DEF Approvals!Evict, Approvals!storage, Approvals!window, Approvals!Settled, Disposed
  <2>2. \A q \in Prompt : WindowFits(q)'
    BY <1>0, <1>01, <2>1 DEF WindowFits, Decisive, Disposed
  <2>3. \A q \in Prompt : ResultFits(q)'
    BY <1>0, <1>01, <2>1 DEF ResultFits, Decisive, Disposed
  <2> QED BY <2>1, <2>2, <2>3 DEF AnswersFit
<1>15. CASE Approvals!Tick \/ UNCHANGED approvals
  BY <1>0, <1>15, AnswersKept
     DEF Approvals!Tick, Approvals!worker, Approvals!storage, Approvals!window, Approvals!events, approvals
<1> QED
  BY <1>0, <1>1, <1>2, <1>3, <1>4, <1>6, <1>7, <1>8, <1>9, <1>10, <1>11, <1>12, <1>13, <1>14, <1>15
     DEF Approvals!Next, Approvals!CallStep, Approvals!Heard, Approvals!WindowStep, Approvals!User,
         Approvals!ClosesItself, Approvals!Dismiss

LEMMA PromptInvariant == BackgroundSpec => []PromptInv
<1>1. BackgroundInit => PromptInv
  <2> SUFFICES ASSUME Approvals!Init PROVE PromptInv
    BY DEF BackgroundInit
  <2>1. left \in Approvals!Budget /\ MaxQueued \in Nat
    BY ApprovalAssumptions DEF Approvals!Init, Approvals!Assumptions
  <2>2. PromptShape
    BY <2>1, EmptySeq DEF Approvals!Init, PromptShape, PromptMade, Disposed, OnScreen
  <2>3. PlacesCounted
    <3>1. Checking = {} /\ slotHolders = 0 /\ Len(queueTail) = 0
      BY DEF Approvals!Init, Checking
    <3> QED BY <2>1, <3>1, FS_EmptySet DEF PlacesCounted
  <2>4. LineOrdered /\ AnswersFit
    BY DEF Approvals!Init, LineOrdered, HasPrompt, AnswersFit, WindowFits, ResultFits, Decisive
  <2> QED BY <2>2, <2>3, <2>4 DEF PromptInv
<1>2. PromptInv /\ [BackgroundNext]_<<part, vars, approvals, signIns>> => PromptInv'
  <2>1. [BackgroundNext]_<<part, vars, approvals, signIns>> => [Approvals!Next]_approvals
    BY DEF BackgroundNext
  <2> QED BY <2>1, ShapeStep, QueueStep, AnswersStep DEF PromptInv, QueueInv
<1> QED BY <1>1, <1>2, PTL DEF BackgroundSpec

LEMMA CardinalitySame == \A S : Approvals!Cardinality(S) = Cardinality(S)
BY DEF Approvals!Cardinality, Cardinality

(* Until the worker is evicted, one approval window at a time is there: for *)
(* any requests, origins and bounds.                                        *)
THEOREM OneWindowAtATime == BackgroundSpec => []OneWindow
<1>1. PromptInv => OneWindow
  <2> SUFFICES ASSUME PromptInv, Approvals!NeverEvicted
               PROVE  Cardinality({r \in Prompt : popup[r] \in OnScreen}) <= 1
    BY CardinalitySame DEF OneWindow, Approvals!OneWindow, OnScreen
  <2> DEFINE there == {r \in Prompt : popup[r] \in OnScreen}
  <2>1. \A r \in there : queueTail # <<>> /\ r = Head(queueTail)
    <3> TAKE r \in there
    <3>1. stage[r] \in HasPrompt
      BY DEF PromptInv, AnswersFit, WindowFits, Approvals!NeverEvicted, OnScreen, HasPrompt
    <3> QED BY <3>1 DEF PromptInv, LineOrdered, Approvals!HasSlot
  <2>2. there = {} \/ there = {Head(queueTail)}
    BY <2>1
  <2>3. Cardinality(there) <= 1
    <3>1. CASE there = {}
      <4>1. Cardinality(there) = 0
        BY <3>1, FS_EmptySet
      <4> QED BY <4>1
    <3>2. CASE there = {Head(queueTail)}
      <4>1. Cardinality(there) = 1
        BY <3>2, FS_Singleton, Zenon
      <4> QED BY <4>1
    <3> QED BY <2>2, <3>1, <3>2
  <2> QED BY <2>3
<1> QED BY <1>1, PromptInvariant, PTL

(* The queue never holds more than the one with the slot and MaxQueued      *)
(* others, and whoever waits there is connected.                            *)
THEOREM QueueStaysBounded == BackgroundSpec => []QueueBounded
<1>1. PromptInv => QueueBounded
  <2> SUFFICES ASSUME PromptInv PROVE QueueBounded
    OBVIOUS
  <2>1. Len(queueTail) \in Nat /\ Cardinality(Checking) \in Nat /\ slotHolders \in Nat /\ MaxQueued \in Nat
    BY FS_CardinalityType, ApprovalAssumptions DEF PromptInv, PromptShape, PlacesCounted, Approvals!Assumptions
  <2> QED BY <2>1 DEF PromptInv, PlacesCounted, LineOrdered, QueueBounded, Approvals!QueueBounded
<1> QED BY <1>1, PromptInvariant, PTL

(* What a call answers is what its window wrote, and a denial when it wrote *)
(* nothing, in whatever order the events and answers of it arrive.          *)
THEOREM AnswersAreUsers == BackgroundSpec => []AnswerIsUsers
<1>1. PromptInv => AnswerIsUsers
  BY DEF PromptInv, AnswersFit, WindowFits, Decisive, AnswerIsUsers, Approvals!AnswerIsUsers
<1> QED BY <1>1, PromptInvariant, PTL

--------------------------------------------------------------------------------
(* How many prompts of one origin may open within one rate window: those    *)
(* the worker recorded in that time, and those it had let in line earlier.  *)

(* Prompts let in line by time t whose window has opened since, or may yet. *)
Since(t, o) ==
  {r \in Prompt :
     /\ OriginOf[r] = o
     /\ IF opened[r] = None THEN r \in Items(queueTail) ELSE opened[r] > t
     /\ \A p \in promptsByOrigin[o] : p.id = r => p.at <= t}

RateShape ==
  /\ now \in Nat
  /\ opened \in [Prompt -> Nat \cup {None}]
  /\ promptsByOrigin \in [Origin -> SUBSET [id : Prompt, at : Nat]]

(* No window opened in the future, or before it did.                        *)
OpenedFits(r) ==
  /\ opened[r] # None => opened[r] <= now
  /\ popup[r] \in {"none", "coming"} => opened[r] = None

(* What the worker recorded of an origin stays within the cap ...           *)
RecordsBounded ==
  \A o \in Origin : /\ IsFiniteSet(promptsByOrigin[o])
                    /\ Cardinality(promptsByOrigin[o]) <= MaxPrompts

(* ... and what was in line at any earlier time of the last rate window     *)
(* within the bound of the line.                                            *)
EarlierBounded ==
  Approvals!NeverEvicted =>
    \A o \in Origin, t \in Int : now - RateWindow <= t /\ t < now =>
      IsFiniteSet(Since(t, o)) /\ Cardinality(Since(t, o)) <= 1 + MaxQueued

RateInv == RateShape /\ (\A r \in Prompt : OpenedFits(r)) /\ RecordsBounded /\ EarlierBounded

LEMMA RateConstants ==
  /\ MaxQueued \in Nat /\ MaxPrompts \in Nat \ {0} /\ RateWindow \in Nat \ {0}
  /\ OriginOf \in [Prompt -> Origin]
BY ApprovalAssumptions DEF Approvals!Assumptions

(* A worker that was evicted stays so.                                      *)
LEMMA LostStays ==
  ASSUME PromptInv, [Approvals!Next]_approvals
  PROVE  \A r \in Prompt : stage[r] = "lost" => stage'[r] = "lost"
<1>0. /\ stage \in [Prompt -> PromptMade \cup Disposed] /\ left.requests \subseteq Prompt
      /\ \A q \in Prompt : stage[q] \in HasPrompt => stage[q] # "lost"
  BY DEF PromptInv, PromptShape, Approvals!Budget, HasPrompt
<1>1. ASSUME NEW q \in Prompt, stage[q] # "lost",
             \/ stage' = stage
             \/ \E how : stage' = [stage EXCEPT ![q] = how]
      PROVE  \A r \in Prompt : stage[r] = "lost" => stage'[r] = "lost"
  BY <1>0, <1>1
<1>2. ASSUME NEW q \in Prompt, Approvals!RequestApproval(q) \/ Approvals!PermissionRead(q)
      PROVE  \A r \in Prompt : stage[r] = "lost" => stage'[r] = "lost"
  <2>1. stage[q] # "lost" /\ \E how : stage' = [stage EXCEPT ![q] = how]
    BY <1>2 DEF Approvals!RequestApproval, Approvals!PermissionRead, Approvals!Admit, Approvals!Refuse,
                Approvals!Ends
  <2> QED BY <1>1, <2>1
<1>3. ASSUME NEW q \in Prompt,
             \/ Approvals!Post(q) \/ Approvals!PostFails(q) \/ Approvals!CreateWindow(q)
             \/ Approvals!CreateFails(q) \/ Approvals!WaitForResult(q) \/ Approvals!Cleaned(q)
             \/ Approvals!CloseWindow(q)
      PROVE  \A r \in Prompt : stage[r] = "lost" => stage'[r] = "lost"
  <2>1. stage[q] # "lost" /\ \E how : stage' = [stage EXCEPT ![q] = how]
    BY <1>3 DEF Approvals!Post, Approvals!PostFails, Approvals!CreateWindow, Approvals!CreateFails,
                Approvals!WaitForResult, Approvals!Cleaned, Approvals!CloseWindow, Approvals!Release,
                Approvals!Ends
  <2> QED BY <1>1, <2>1
<1>4. ASSUME NEW q \in Prompt, NEW d,
             \/ Approvals!WindowOpens(q) \/ Approvals!OnWindowClosed(q) \/ Approvals!WriteResult(q)
             \/ Approvals!Closes(q) \/ Approvals!Tap(q, d)
      PROVE  stage' = stage
  BY <1>4 DEF Approvals!WindowOpens, Approvals!OnWindowClosed, Approvals!WriteResult, Approvals!Closes,
              Approvals!Tap, Approvals!worker
<1>5. ASSUME NEW c \in changed, Approvals!ResultChanged(c)
      PROVE  \A r \in Prompt : stage[r] = "lost" => stage'[r] = "lost"
  <2>1. c.id \in Prompt
    BY DEF PromptInv, PromptShape
  <2> QED BY <1>1, <1>5, <2>1 DEF Approvals!ResultChanged, Approvals!Settle
<1>6. ASSUME NEW x \in reads, Approvals!ResultRead(x)
      PROVE  \A r \in Prompt : stage[r] = "lost" => stage'[r] = "lost"
  <2>1. x.id \in Prompt /\ stage[x.id] = "waiting"
    BY DEF PromptInv, PromptShape, AnswersFit, ReadFits
  <2> QED BY <1>1, <1>6, <2>1 DEF Approvals!ResultRead, Approvals!Settle
<1>7. CASE Approvals!Evict
  BY <1>0, <1>7 DEF Approvals!Evict, Approvals!Settled
<1>8. CASE Approvals!Tick \/ UNCHANGED approvals
  BY <1>8 DEF Approvals!Tick, Approvals!worker, approvals
<1> QED
  BY <1>0, <1>2, <1>3, <1>4, <1>5, <1>6, <1>7, <1>8
     DEF Approvals!Next, Approvals!CallStep, Approvals!Heard, Approvals!WindowStep, Approvals!User,
         Approvals!ClosesItself, Approvals!Dismiss

(* A step that lets nobody in line and opens no window.                     *)
Uncounted ==
  /\ UNCHANGED <<opened, promptsByOrigin, now>>
  /\ Items(queueTail)' \subseteq Items(queueTail)
  /\ \A r \in Prompt : popup'[r] \in {"none", "coming"} => popup[r] \in {"none", "coming"}

Joins(r) ==
  /\ stage[r] \in {"idle", "checking"}
  /\ \E holders : Approvals!Admit(r, holders)
  /\ UNCHANGED <<opened, popup, now>>

LEMMA RateMoves ==
  ASSUME PromptInv, [Approvals!Next]_approvals
  PROVE  \/ Approvals!Evict \/ Approvals!Tick \/ Uncounted
         \/ \E r \in Prompt : Approvals!WindowOpens(r) \/ Joins(r)
<1>0. /\ popup \in [Prompt -> OnScreen \cup {"none", "finished", "closed"}]
      /\ queueTail \in Seq(Prompt) /\ left.requests \subseteq Prompt
  BY DEF PromptInv, PromptShape, Approvals!Budget
<1>1. ASSUME UNCHANGED <<opened, promptsByOrigin, now, queueTail, popup>> PROVE Uncounted
  BY <1>1 DEF Uncounted
<1>2. ASSUME NEW r \in Prompt, NEW how, Approvals!HasSlot(r), Approvals!Release(r, how),
             UNCHANGED <<opened, promptsByOrigin, now>>,
             \A q \in Prompt : popup'[q] \in {"none", "coming"} => popup[q] \in {"none", "coming"}
      PROVE  Uncounted
  <2>1. queueTail # <<>> /\ queueTail' = Tail(queueTail)
    BY <1>2 DEF Approvals!HasSlot, Approvals!Release
  <2>2. Items(queueTail') \subseteq Items(queueTail)
    BY <1>0, <2>1, ItemsTail
  <2> QED BY <1>2, <2>2 DEF Uncounted
<1>3. \A r \in Prompt : stage[r] \in HasPrompt => Approvals!HasSlot(r)
  BY DEF PromptInv, LineOrdered
<1>4. ASSUME NEW r \in Prompt, Approvals!RequestApproval(r) \/ Approvals!PermissionRead(r)
      PROVE  Uncounted \/ Joins(r)
  <2>1. UNCHANGED <<opened, popup, now>> /\ stage[r] \in {"idle", "checking"}
    BY <1>4 DEF Approvals!RequestApproval, Approvals!PermissionRead, Approvals!window
  <2>2. UNCHANGED <<queueTail, promptsByOrigin>> \/ \E holders : Approvals!Admit(r, holders)
    BY <1>4 DEF Approvals!RequestApproval, Approvals!PermissionRead
  <2> QED BY <1>1, <2>1, <2>2 DEF Joins
<1>5. ASSUME NEW r \in Prompt, Approvals!PostFails(r) \/ Approvals!CreateFails(r) \/ Approvals!CloseWindow(r)
      PROVE  Uncounted
  <2>1. Approvals!HasSlot(r) /\ \E how : Approvals!Release(r, how)
    BY <1>3, <1>5 DEF Approvals!PostFails, Approvals!CreateFails, Approvals!CloseWindow, HasPrompt
  <2>2. /\ UNCHANGED <<opened, promptsByOrigin, now>>
        /\ \A q \in Prompt : popup'[q] \in {"none", "coming"} => popup[q] \in {"none", "coming"}
    BY <1>0, <1>5 DEF Approvals!PostFails, Approvals!CreateFails, Approvals!CloseWindow, Approvals!Closed,
                      Approvals!window
  <2> QED BY <1>2, <2>1, <2>2
<1>6. ASSUME NEW r \in Prompt, NEW d,
             \/ Approvals!CreateWindow(r) \/ Approvals!Tap(r, d) \/ Approvals!WriteResult(r)
             \/ Approvals!Closes(r)
      PROVE  Uncounted
  <2>1. UNCHANGED <<opened, promptsByOrigin, now, queueTail>>
    BY <1>6 DEF Approvals!CreateWindow, Approvals!Tap, Approvals!WriteResult, Approvals!Closes,
                Approvals!worker
  <2>2. \A q \in Prompt : popup'[q] \in {"none", "coming"} => popup[q] \in {"none", "coming"}
    BY <1>0, <1>3, <1>6
       DEF Approvals!CreateWindow, Approvals!Tap, Approvals!WriteResult, Approvals!Closes, Approvals!Closed,
           PromptInv, AnswersFit, WindowFits
  <2> QED BY <2>1, <2>2 DEF Uncounted
<1>7. ASSUME NEW r \in Prompt,
             \/ Approvals!Post(r) \/ Approvals!WaitForResult(r) \/ Approvals!OnWindowClosed(r)
             \/ Approvals!Cleaned(r)
      PROVE  Uncounted
  BY <1>1, <1>7 DEF Approvals!Post, Approvals!WaitForResult, Approvals!OnWindowClosed, Approvals!Cleaned,
                    Approvals!window
<1>8. ASSUME NEW c \in changed, Approvals!ResultChanged(c) PROVE Uncounted
  BY <1>1, <1>8 DEF Approvals!ResultChanged, Approvals!window
<1>9. ASSUME NEW x \in reads, Approvals!ResultRead(x) PROVE Uncounted
  BY <1>1, <1>9 DEF Approvals!ResultRead, Approvals!window
<1>10. CASE UNCHANGED approvals
  BY <1>1, <1>10 DEF approvals
<1> QED
  BY <1>0, <1>4, <1>5, <1>6, <1>7, <1>8, <1>9, <1>10
     DEF Approvals!Next, Approvals!CallStep, Approvals!Heard, Approvals!WindowStep, Approvals!User,
         Approvals!ClosesItself, Approvals!Dismiss

(* The times of an origin's records do not matter to how many it has.       *)
LEMMA RecordIds ==
  ASSUME NEW records, IsFiniteSet(records)
  PROVE  /\ IsFiniteSet({p.id : p \in records})
         /\ Cardinality({p.id : p \in records}) <= Cardinality(records)
<1> DEFINE id == [p \in records |-> p.id]
<1>1. id \in Surjection(records, {p.id : p \in records})
  BY DEF Surjection
<1> QED BY <1>1, FS_Surjection

(* In a step in which no window opens unless its prompt was in line, and    *)
(* nobody gets in line unless it is recorded, the prompts of an earlier     *)
(* time are no more than before.                                            *)
LEMMA SinceShrinks ==
  ASSUME RateShape, RateShape', now' = now, NEW o \in Origin, NEW t \in Int,
         now - RateWindow <= t, t < now,
         \A r \in Prompt :
           /\ opened'[r] = opened[r] \/ (opened[r] = None /\ r \in Items(queueTail))
           /\ \/ r \in Items(queueTail')  => r \in Items(queueTail)
              \/ \E p \in promptsByOrigin'[OriginOf[r]] : p.id = r /\ p.at = now,
         \A p \in promptsByOrigin[o] : p.at > now - RateWindow => p \in promptsByOrigin'[o]
  PROVE  Since(t, o)' \subseteq Since(t, o)
<1> SUFFICES ASSUME NEW r \in Prompt, r \in Since(t, o)' PROVE r \in Since(t, o)
  BY DEF Since
<1>1. /\ OriginOf[r] = o
      /\ IF opened'[r] = None THEN r \in Items(queueTail') ELSE opened'[r] > t
      /\ \A p \in promptsByOrigin'[o] : p.id = r => p.at <= t
  BY DEF Since
<1>2. \A p \in promptsByOrigin[o] : p.id = r => p.at <= t
  <2> SUFFICES ASSUME NEW p \in promptsByOrigin[o], p.id = r, ~(p.at <= t) PROVE FALSE
    OBVIOUS
  <2>1. p.at \in Nat /\ now \in Nat /\ now - RateWindow \in Int
    BY RateConstants DEF RateShape
  <2>2. p.at > now - RateWindow
    BY <2>1
  <2> QED BY <1>1, <2>2
<1>3. r \in Items(queueTail') => r \in Items(queueTail)
  <2>1. ASSUME NEW p \in promptsByOrigin'[o], p.id = r, p.at = now PROVE FALSE
    BY <1>1, <2>1 DEF RateShape
  <2> QED BY <1>1, <2>1
<1>4. IF opened[r] = None THEN r \in Items(queueTail) ELSE opened[r] > t
  BY <1>1, <1>3
<1> QED BY <1>1, <1>2, <1>4 DEF Since

(* At this time, the prompts that are not recorded or not open are in line. *)
LEMMA SinceNow ==
  ASSUME PromptInv, RateShape, \A r \in Prompt : OpenedFits(r), NEW o \in Origin
  PROVE  IsFiniteSet(Since(now, o)) /\ Cardinality(Since(now, o)) <= 1 + MaxQueued
<1>1. Since(now, o) \in SUBSET Items(queueTail)
  BY DEF Since, OpenedFits, RateShape
<1>2. IsFiniteSet(Items(queueTail)) /\ Cardinality(Items(queueTail)) <= Len(queueTail)
  BY ItemsBounded DEF PromptInv, PromptShape
<1>3. /\ IsFiniteSet(Since(now, o))
      /\ Cardinality(Since(now, o)) <= Cardinality(Items(queueTail))
  BY <1>1, <1>2, FS_Subset
<1>4. /\ Cardinality(Since(now, o)) \in Nat /\ Cardinality(Items(queueTail)) \in Nat
      /\ Cardinality(Checking) \in Nat /\ Len(queueTail) \in Nat /\ MaxQueued \in Nat
  BY <1>2, <1>3, FS_CardinalityType, RateConstants DEF PromptInv, PromptShape, PlacesCounted
<1> QED BY <1>2, <1>3, <1>4 DEF PromptInv, PlacesCounted

(* What a call that gets in line, or is refused by the rate cap, records.   *)
LEMMA Recorded ==
  ASSUME PromptInv, RateShape, RecordsBounded, NEW r \in Prompt, Joins(r)
  PROVE  /\ promptsByOrigin' \in [Origin -> SUBSET [id : Prompt, at : Nat]]
         /\ RecordsBounded'
         /\ \A o \in Origin : \A p \in promptsByOrigin[o] :
              p.at > now - RateWindow => p \in promptsByOrigin'[o]
         /\ \/ queueTail' = queueTail
            \/ /\ queueTail' = Append(queueTail, r)
               /\ \E p \in promptsByOrigin'[OriginOf[r]] : p.id = r /\ p.at = now
<1>0. /\ MaxPrompts \in Nat \ {0} /\ RateWindow \in Nat \ {0} /\ OriginOf[r] \in Origin /\ now \in Nat
      /\ promptsByOrigin \in [Origin -> SUBSET [id : Prompt, at : Nat]]
  BY RateConstants DEF RateShape
<1>1. PICK holders : Approvals!Admit(r, holders)
  BY DEF Joins
<1>2. ASSUME NEW o \in Origin
      PROVE  /\ Approvals!Recent(o) \in SUBSET promptsByOrigin[o] /\ IsFiniteSet(Approvals!Recent(o))
             /\ Cardinality(Approvals!Recent(o)) <= MaxPrompts
             /\ Cardinality(Approvals!Recent(o)) \in Nat
             /\ \A p \in promptsByOrigin[o] : p.at > now - RateWindow => p \in Approvals!Recent(o)
  <2>1. Approvals!Recent(o) \in SUBSET promptsByOrigin[o]
    BY DEF Approvals!Recent
  <2>2. IsFiniteSet(promptsByOrigin[o]) /\ Cardinality(promptsByOrigin[o]) <= MaxPrompts
    BY DEF RecordsBounded
  <2>3. /\ IsFiniteSet(Approvals!Recent(o))
        /\ Cardinality(Approvals!Recent(o)) <= Cardinality(promptsByOrigin[o])
    BY <2>1, <2>2, FS_Subset
  <2>4. Cardinality(Approvals!Recent(o)) \in Nat /\ Cardinality(promptsByOrigin[o]) \in Nat
    BY <2>2, <2>3, FS_CardinalityType
  <2>5. \A p \in promptsByOrigin[o] : p.at \in Nat
    BY <1>0
  <2>6. \A p \in promptsByOrigin[o] : p.at > now - RateWindow => p \in Approvals!Recent(o)
    BY <1>0, <2>5 DEF Approvals!Recent
  <2> QED BY <1>0, <2>1, <2>2, <2>3, <2>4, <2>6
<1>3. /\ Approvals!Pruned \in [Origin -> SUBSET [id : Prompt, at : Nat]]
      /\ \A o \in Origin : Approvals!Pruned[o] = IF Approvals!Recent(o) = {} THEN {} ELSE promptsByOrigin[o]
  BY <1>0 DEF Approvals!Pruned
<1>4. PICK kept : /\ promptsByOrigin' = [Approvals!Pruned EXCEPT ![OriginOf[r]] = kept]
                  /\ \/ kept = Approvals!Recent(OriginOf[r]) /\ queueTail' = queueTail
                     \/ /\ kept = Approvals!Recent(OriginOf[r]) \cup {[id |-> r, at |-> now]}
                        /\ ~Approvals!RateLimited(OriginOf[r])
                        /\ queueTail' = Append(queueTail, r)
  BY <1>1 DEF Approvals!Admit
<1>5. \A o \in Origin : promptsByOrigin'[o] = IF o = OriginOf[r] THEN kept ELSE Approvals!Pruned[o]
  BY <1>3, <1>4
<1>6. /\ kept \in SUBSET [id : Prompt, at : Nat]
      /\ IsFiniteSet(kept) /\ Cardinality(kept) <= MaxPrompts
  <2> DEFINE o == OriginOf[r]
             rec == [id |-> r, at |-> now]
  <2>1. Approvals!Recent(o) \subseteq promptsByOrigin[o] /\ promptsByOrigin[o] \subseteq [id : Prompt, at : Nat]
    BY <1>0, <1>2
  <2>2. CASE kept = Approvals!Recent(o)
    BY <1>0, <1>2, <2>1, <2>2
  <2>3. CASE kept = Approvals!Recent(o) \cup {rec} /\ ~Approvals!RateLimited(o)
    <3>1. ~(Cardinality(Approvals!Recent(o)) >= MaxPrompts)
      BY <2>3, CardinalitySame DEF Approvals!RateLimited
    <3>2. /\ IsFiniteSet(kept)
          /\ Cardinality(kept) = IF rec \in Approvals!Recent(o) THEN Cardinality(Approvals!Recent(o))
                                 ELSE Cardinality(Approvals!Recent(o)) + 1
      BY <1>0, <1>2, <2>3, FS_AddElement
    <3>3. Cardinality(kept) <= MaxPrompts
      BY <1>0, <1>2, <3>1, <3>2
    <3> QED BY <1>0, <2>1, <2>3, <3>2, <3>3
  <2> QED BY <1>4, <2>2, <2>3
<1>7. promptsByOrigin' \in [Origin -> SUBSET [id : Prompt, at : Nat]]
  BY <1>3, <1>4, <1>6
<1>8. RecordsBounded'
  <2> SUFFICES ASSUME NEW o \in Origin
               PROVE  IsFiniteSet(promptsByOrigin'[o]) /\ Cardinality(promptsByOrigin'[o]) <= MaxPrompts
    BY DEF RecordsBounded
  <2>1. CASE o = OriginOf[r]
    BY <1>5, <1>6, <2>1
  <2>2. CASE o # OriginOf[r]
    <3>1. promptsByOrigin'[o] = {} \/ promptsByOrigin'[o] = promptsByOrigin[o]
      BY <1>3, <1>5, <2>2
    <3>2. IsFiniteSet({}) /\ Cardinality({}) <= MaxPrompts
      BY <1>0, FS_EmptySet
    <3> QED BY <3>1, <3>2 DEF RecordsBounded
  <2> QED BY <2>1, <2>2
<1>9. \A o \in Origin : \A p \in promptsByOrigin[o] : p.at > now - RateWindow => p \in promptsByOrigin'[o]
  BY <1>2, <1>3, <1>4, <1>5
<1>10. [id |-> r, at |-> now] \in kept => \E p \in promptsByOrigin'[OriginOf[r]] : p.id = r /\ p.at = now
  BY <1>0, <1>5
<1> QED BY <1>4, <1>7, <1>8, <1>9, <1>10

LEMMA RateStep ==
  ASSUME PromptInv, RateInv, [Approvals!Next]_approvals
  PROVE  RateInv'
<1>0. /\ RateShape /\ (\A r \in Prompt : OpenedFits(r)) /\ RecordsBounded /\ EarlierBounded
      /\ now \in Nat /\ RateWindow \in Nat \ {0} /\ MaxPrompts \in Nat \ {0}
      /\ popup \in [Prompt -> OnScreen \cup {"none", "finished", "closed"}]
      /\ queueTail \in Seq(Prompt)
  BY RateConstants DEF RateInv, RateShape, PromptInv, PromptShape
<1>1. Approvals!NeverEvicted' => Approvals!NeverEvicted
  BY LostStays DEF Approvals!NeverEvicted
(* What is left to show of a step that takes no time: nobody gets in line   *)
(* unrecorded, and no window opens out of line.                             *)
<1>2. ASSUME RateShape', \A r \in Prompt : OpenedFits(r)', RecordsBounded', now' = now,
             Approvals!NeverEvicted' =>
               /\ \A r \in Prompt :
                    /\ opened'[r] = opened[r] \/ (opened[r] = None /\ r \in Items(queueTail))
                    /\ \/ r \in Items(queueTail') => r \in Items(queueTail)
                       \/ \E p \in promptsByOrigin'[OriginOf[r]] : p.id = r /\ p.at = now
               /\ \A o \in Origin : \A p \in promptsByOrigin[o] :
                    p.at > now - RateWindow => p \in promptsByOrigin'[o]
      PROVE  RateInv'
  <2> SUFFICES ASSUME Approvals!NeverEvicted', NEW o \in Origin, NEW t \in Int,
                      now - RateWindow <= t, t < now
               PROVE  (IsFiniteSet(Since(t, o)) /\ Cardinality(Since(t, o)) <= 1 + MaxQueued)'
    BY <1>2 DEF RateInv, EarlierBounded
  <2>1. Since(t, o)' \in SUBSET Since(t, o)
    BY <1>0, <1>2, SinceShrinks
  <2>2. IsFiniteSet(Since(t, o)) /\ Cardinality(Since(t, o)) <= 1 + MaxQueued
    BY <1>0, <1>1 DEF EarlierBounded
  <2>3. IsFiniteSet(Since(t, o)') /\ Cardinality(Since(t, o)') <= Cardinality(Since(t, o))
    BY <2>1, <2>2, FS_Subset
  <2>4. Cardinality(Since(t, o)) \in Nat /\ Cardinality(Since(t, o)') \in Nat /\ MaxQueued \in Nat
    BY <2>2, <2>3, FS_CardinalityType, RateConstants
  <2> QED BY <2>2, <2>3, <2>4
<1>3. CASE Approvals!Evict
  <2>1. /\ ~Approvals!NeverEvicted'
        /\ UNCHANGED <<now, opened, popup>> /\ promptsByOrigin' = [o \in Origin |-> {}]
    BY <1>3 DEF Approvals!Evict, Approvals!NeverEvicted, Approvals!window
  <2>2. RateShape' /\ \A r \in Prompt : OpenedFits(r)'
    BY <1>0, <2>1 DEF RateShape, OpenedFits
  <2>3. RecordsBounded'
    BY <1>0, <2>1, FS_EmptySet DEF RecordsBounded
  <2> QED BY <1>2, <2>1, <2>2, <2>3
<1>4. CASE Approvals!Tick
  <2>1. now' = now + 1 /\ UNCHANGED <<stage, queueTail, promptsByOrigin, opened, popup>>
    BY <1>4 DEF Approvals!Tick, Approvals!worker, Approvals!window
  <2>2. RateShape' /\ (\A r \in Prompt : OpenedFits(r)') /\ RecordsBounded'
    BY <1>0, <2>1 DEF RateShape, OpenedFits, RecordsBounded
  <2>3. ASSUME Approvals!NeverEvicted', NEW o \in Origin, NEW t \in Int,
               now' - RateWindow <= t, t < now'
        PROVE  (IsFiniteSet(Since(t, o)) /\ Cardinality(Since(t, o)) <= 1 + MaxQueued)'
    <3>1. Since(t, o)' = Since(t, o)
      BY <2>1 DEF Since
    <3>2. CASE t = now
      BY <1>0, <3>1, <3>2, SinceNow
    <3>3. CASE t # now
      <4>1. now - RateWindow <= t /\ t < now
        BY <1>0, <2>1, <2>3, <3>3
      <4> QED BY <1>0, <1>1, <2>3, <3>1, <4>1 DEF EarlierBounded
    <3> QED BY <3>2, <3>3
  <2> QED BY <2>2, <2>3 DEF RateInv, EarlierBounded
<1>5. CASE Uncounted
  <2>1. RateShape' /\ (\A r \in Prompt : OpenedFits(r)') /\ RecordsBounded'
    BY <1>0, <1>5 DEF Uncounted, RateShape, OpenedFits, RecordsBounded
  <2> QED BY <1>2, <1>5, <2>1 DEF Uncounted
<1>6. ASSUME NEW r \in Prompt, Approvals!WindowOpens(r) PROVE RateInv'
  <2>1. /\ popup[r] = "coming" /\ opened' = [opened EXCEPT ![r] = now]
        /\ popup' = [popup EXCEPT ![r] = "open"]
        /\ UNCHANGED <<stage, queueTail, promptsByOrigin, now>>
    BY <1>6 DEF Approvals!WindowOpens, Approvals!worker
  <2>2. RateShape' /\ (\A q \in Prompt : OpenedFits(q)') /\ RecordsBounded'
    BY <1>0, <2>1 DEF RateShape, OpenedFits, RecordsBounded
  <2>3. opened[r] = None
    BY <1>0, <2>1 DEF OpenedFits
  <2>4. ASSUME Approvals!NeverEvicted' PROVE r \in Items(queueTail)
    <3>1. stage[r] = "creating"
      BY <1>1, <2>1, <2>4 DEF PromptInv, AnswersFit, WindowFits, Approvals!NeverEvicted
    <3>2. queueTail # <<>> /\ Head(queueTail) = r
      BY <3>1 DEF PromptInv, LineOrdered, HasPrompt, Approvals!HasSlot
    <3> QED BY <1>0, <3>2, ItemsTail
  <2>5. \A q \in Prompt : opened'[q] = opened[q] \/ q = r
    BY <1>0, <2>1 DEF RateShape
  <2> QED BY <1>2, <2>1, <2>2, <2>3, <2>4, <2>5
<1>7. ASSUME NEW r \in Prompt, Joins(r) PROVE RateInv'
  <2>1. UNCHANGED <<opened, popup, now>>
    BY <1>7 DEF Joins
  <2>2. /\ promptsByOrigin' \in [Origin -> SUBSET [id : Prompt, at : Nat]]
        /\ RecordsBounded'
        /\ \A o \in Origin : \A p \in promptsByOrigin[o] :
             p.at > now - RateWindow => p \in promptsByOrigin'[o]
        /\ \/ queueTail' = queueTail
           \/ /\ queueTail' = Append(queueTail, r)
              /\ \E p \in promptsByOrigin'[OriginOf[r]] : p.id = r /\ p.at = now
    BY <1>0, <1>7, Recorded
  <2>3. RateShape' /\ \A q \in Prompt : OpenedFits(q)'
    BY <1>0, <2>1, <2>2 DEF RateShape, OpenedFits
  <2>4. \A q \in Prompt : \/ q \in Items(queueTail') => q \in Items(queueTail)
                          \/ \E p \in promptsByOrigin'[OriginOf[q]] : p.id = q /\ p.at = now
    <3>1. Items(Append(queueTail, r)) = Items(queueTail) \cup {r}
      BY <1>0, ItemsAppend
    <3> QED BY <2>2, <3>1
  <2> QED BY <1>2, <2>1, <2>2, <2>3, <2>4
<1> QED BY <1>3, <1>4, <1>5, <1>6, <1>7, RateMoves

LEMMA RateInvariant == BackgroundSpec => [](PromptInv /\ RateInv)
<1>1. BackgroundInit => RateInv
  <2> SUFFICES ASSUME Approvals!Init PROVE RateInv
    BY DEF BackgroundInit
  <2>1. RateShape /\ \A r \in Prompt : OpenedFits(r)
    BY DEF Approvals!Init, RateShape, OpenedFits
  <2>2. RecordsBounded
    BY FS_EmptySet, RateConstants DEF Approvals!Init, RecordsBounded
  <2>3. \A o \in Origin, t \in Int : Since(t, o) = {}
    BY DEF Approvals!Init, Since, Items
  <2>4. EarlierBounded
    BY <2>3, FS_EmptySet, RateConstants DEF EarlierBounded
  <2> QED BY <2>1, <2>2, <2>4 DEF RateInv
<1>2. PromptInv /\ RateInv /\ [BackgroundNext]_<<part, vars, approvals, signIns>> => RateInv'
  <2>1. [BackgroundNext]_<<part, vars, approvals, signIns>> => [Approvals!Next]_approvals
    BY DEF BackgroundNext
  <2> QED BY <2>1, RateStep
<1> QED BY <1>1, <1>2, PromptInvariant, PTL DEF BackgroundSpec

(* Until the worker is evicted, no origin opens more prompts within one     *)
(* rate window than the cap, the prompt with the slot and those behind it:  *)
(* for any requests and bounds, however its prompts wait and open.          *)
THEOREM OpeningsStayBounded == BackgroundSpec => []OpeningsBounded
<1>1. PromptInv /\ RateInv => OpeningsBounded
  <2> SUFFICES ASSUME PromptInv, RateInv, Approvals!NeverEvicted, NEW o \in Origin
               PROVE  Cardinality(Approvals!PromptsIn(o)) <= MaxPrompts + 1 + MaxQueued
    BY CardinalitySame DEF OpeningsBounded, Approvals!OpeningsBounded
  <2> DEFINE start == now - RateWindow
             ids   == {p.id : p \in promptsByOrigin[o]}
             both  == Since(start, o) \cup ids
  <2>1. /\ start \in Int /\ start < now /\ now \in Nat /\ RateWindow \in Nat \ {0}
        /\ MaxPrompts \in Nat /\ MaxQueued \in Nat
        /\ opened \in [Prompt -> Nat \cup {None}]
        /\ promptsByOrigin[o] \subseteq [id : Prompt, at : Nat]
    BY RateConstants DEF RateInv, RateShape
  <2>2. IsFiniteSet(Since(start, o)) /\ Cardinality(Since(start, o)) <= 1 + MaxQueued
    BY <2>1 DEF RateInv, EarlierBounded
  <2>3. IsFiniteSet(ids) /\ Cardinality(ids) <= Cardinality(promptsByOrigin[o])
        /\ IsFiniteSet(promptsByOrigin[o]) /\ Cardinality(promptsByOrigin[o]) <= MaxPrompts
    BY RecordIds DEF RateInv, RecordsBounded
  <2>4. Approvals!PromptsIn(o) \in SUBSET both
    <3> SUFFICES ASSUME NEW r \in Prompt, OriginOf[r] = o, opened[r] # None, now - opened[r] < RateWindow,
                        r \notin ids
                 PROVE  r \in Since(start, o)
      BY DEF Approvals!PromptsIn
    <3>1. opened[r] > start
      BY <2>1
    <3> QED BY <3>1 DEF Since
  <2>5. /\ IsFiniteSet(both)
        /\ Cardinality(both) = Cardinality(Since(start, o)) + Cardinality(ids)
                               - Cardinality(Since(start, o) \cap ids)
    BY <2>2, <2>3, FS_Union
  <2>6. IsFiniteSet(Since(start, o) \cap ids)
    BY <2>2, FS_Intersection
  <2>7. IsFiniteSet(Approvals!PromptsIn(o)) /\ Cardinality(Approvals!PromptsIn(o)) <= Cardinality(both)
    BY <2>4, <2>5, FS_Subset
  <2>8. /\ Cardinality(Since(start, o)) \in Nat /\ Cardinality(ids) \in Nat
        /\ Cardinality(Since(start, o) \cap ids) \in Nat /\ Cardinality(both) \in Nat
        /\ Cardinality(Approvals!PromptsIn(o)) \in Nat /\ Cardinality(promptsByOrigin[o]) \in Nat
    BY <2>2, <2>3, <2>5, <2>6, <2>7, FS_CardinalityType
  <2> HIDE DEF start, ids, both
  <2> QED BY <2>1, <2>2, <2>3, <2>5, <2>7, <2>8
<1> QED BY <1>1, RateInvariant, PTL

--------------------------------------------------------------------------------
(* The sign-in jobs.                                                        *)

(* Every variable keeps the shape the code gives it.                        *)
JobShape == Jobs!TypeOK

(* A mount that has been opened, and a job of the same sign-in as its own.  *)
Opened(m) == backend[m] \in Backend

SameKey(j, m) == Opened(m) /\ backend[j] = backend[m]

(* A mount waits, and is told to wait, for jobs of its own key.             *)
MountFits(m) ==
  /\ IF pc[m] = "absent"
     THEN /\ backend[m] = None /\ token[m] = None /\ awaited[m] = None
          /\ inbox[m] = <<>> /\ request[m] = "none" /\ m \notin connected
     ELSE Opened(m)
  /\ token[m] \in {None, backend[m]}
  /\ awaited[m] # None => SameKey(awaited[m], m)
  /\ pc[m] = "awaiting" \/ request[m] = "subscribe" => awaited[m] # None
  /\ \A msg \in Items(inbox[m]) : msg.type = "ack" => SameKey(msg.id, m)

(* What a continuation of the worker leads a mount to join is of its key.   *)
EntryFits(c) ==
  /\ Opened(c.id)
  /\ c.at = "dedup" /\ c.saw # None => SameKey(c.saw, c.id)
  /\ c.at = "existing" => SameKey(c.existing, c.id)

KeysFit ==
  /\ \A m \in Mount : MountFits(m)
  /\ \A b \in Backend : dedup[b] # None => backend[dedup[b]] = b
  /\ \A c \in Items(queue) : EntryFits(c)
  /\ \A j \in Items(waiting) \cup runner : Opened(j)

(* A popup past the answer to its first request.                            *)
Past(m) == pc[m] \notin {"absent", "listing"}

(* A mount whose own job is asked for, or never will be.                    *)
Claimed(m) == Past(m) /\ request[m] # "start"

(* A job somebody may still work on.                                        *)
Held(j) == Claimed(j) /\ j \notin aged

Begins == {"dedup", "existing", "cleared"}
Starts == Begins \cup {"allocated", "mapped", "running"}
Reports == {"progress", "ending"}

(* What two continuations of one job can be, the first ahead of the second. *)
Apart(c, d) ==
  c.id = d.id =>
    /\ c.at \in Starts => d.at \notin Starts \cup Reports
    /\ c.at \in Reports => d.at \notin Starts
    /\ c.at = "ending" => d.at \notin Reports
    /\ ~(c.at = "list" /\ d.at = "list")

Orderly(q) == \A k \in 1..Len(q) : \A i \in 1..(k - 1) : Apart(q[i], q[k])

(* Whatever continues a job finds it where its last step left it.           *)
EntryStands(c) ==
  /\ c.at # "list" => Past(c.id)
  /\ c.at \in Starts \cup Reports => Held(c.id) /\ c.id \notin Items(waiting)
  /\ c.at \in Starts \cup {"ending"} => c.id \notin runner
  /\ c.at \in Begins => jobs[c.id] = "absent"
  /\ c.at \in {"allocated", "mapped"} => jobs[c.id] = "pending"
  /\ c.at = "running" => jobs[c.id] = "running"
  /\ c.at = "progress" => jobs[c.id] = "running" /\ c.saw = "running"
  /\ c.at = "ending" => jobs[c.id] \in {"pending", "running"}
  /\ c.at = "list" => /\ pc[c.id] \in {"listing", "closed"} /\ request[c.id] # "list"
                      /\ pc[c.id] = "listing" => inbox[c.id] = <<>>

MountStands(m) ==
  /\ request[m] = "list" => pc[m] = "listing" /\ inbox[m] = <<>>
  /\ request[m] \in {"start", "subscribe", "unsubscribe"} \/ m \in subs => Past(m)
  /\ m \in connected => pc[m] # "closed"
  /\ pc[m] = "closed" => inbox[m] = <<>>
  /\ ~Claimed(m) => jobs[m] = "absent" /\ m \notin aged
  /\ pc[m] = "listing" => \A msg \in Items(inbox[m]) : msg.type \in {"jobs", "disconnect"}
  /\ pc[m] # "listing" => \A msg \in Items(inbox[m]) : msg.type # "jobs"
  /\ \A i \in 2..Len(inbox[m]) : inbox[m][i].type # "jobs"

JobsStand ==
  /\ \A m \in Mount : MountStands(m)
  /\ Orderly(queue)
  /\ \A c \in Items(queue) : EntryStands(c)
  /\ \A j \in Items(waiting) : jobs[j] = "pending" /\ Held(j) /\ j \notin runner
  /\ \A i, k \in 1..Len(waiting) : waiting[i] = waiting[k] => i = k
  /\ \A j \in runner : jobs[j] = "running" /\ Held(j)

LEMMA ContinuationFields ==
  \A c \in Jobs!Continuation :
    /\ c.id \in Mount
    /\ c.at \in Starts \cup Reports \cup {"list", "subscribe", "progressed", "ended", "released"}
    /\ c.at = "dedup" => c.saw \in Mount \cup {None}
    /\ c.at = "existing" => c.existing \in Mount /\ c.saw \in Jobs!JobStatus
    /\ c.at = "list" => c.saw \in [Mount -> Jobs!JobStatus]
    /\ c.at \in {"subscribe", "progress", "progressed", "ending", "ended", "released"} => c.saw \in Jobs!JobStatus
    /\ c.at \in {"ending", "ended", "released"} => c.to \in {"done", "error", "refused"}
<1> SUFFICES ASSUME NEW c \in Jobs!Continuation
             PROVE  /\ c.id \in Mount
                    /\ c.at \in Starts \cup Reports \cup {"list", "subscribe", "progressed", "ended", "released"}
                    /\ c.at = "dedup" => c.saw \in Mount \cup {None}
                    /\ c.at = "existing" => c.existing \in Mount /\ c.saw \in Jobs!JobStatus
                    /\ c.at = "list" => c.saw \in [Mount -> Jobs!JobStatus]
                    /\ c.at \in {"subscribe", "progress", "progressed", "ending", "ended", "released"} =>
                         c.saw \in Jobs!JobStatus
                    /\ c.at \in {"ending", "ended", "released"} => c.to \in {"done", "error", "refused"}
  OBVIOUS
<1> USE DEF Starts, Begins, Reports
<1>1. CASE c \in [at : {"allocated", "mapped", "running", "cleared"}, id : Mount]
  BY <1>1
<1>2. CASE c \in [at : {"dedup"}, id : Mount, saw : Jobs!Optional(Mount)]
  BY <1>2 DEF Jobs!Optional
<1>3. CASE c \in [at : {"existing"}, id : Mount, existing : Mount, saw : Jobs!JobStatus]
  BY <1>3
<1>4. CASE c \in [at : {"list"}, id : Mount, saw : [Mount -> Jobs!JobStatus]]
  BY <1>4
<1>5. CASE c \in [at : {"subscribe", "progress", "progressed"}, id : Mount, saw : Jobs!JobStatus]
  BY <1>5
<1>6. CASE c \in [at : {"ending", "ended", "released"}, id : Mount, to : Jobs!Finished \cup {"refused"}, saw : Jobs!JobStatus]
  BY <1>6 DEF Jobs!Finished
<1> QED BY <1>1, <1>2, <1>3, <1>4, <1>5, <1>6 DEF Jobs!Continuation

LEMMA ContinuationMade ==
  ASSUME JobShape, NEW m \in Mount, NEW s \in Jobs!JobStatus
  PROVE  /\ \A at \in {"allocated", "mapped", "running", "cleared"} : Jobs!Start(at, m) \in Jobs!Continuation
         /\ Opened(m) => Jobs!ReadDedup(m) \in Jobs!Continuation
         /\ \A e \in Mount : Jobs!ReadExisting(m, e) \in Jobs!Continuation
         /\ Jobs!ReadAll(m) \in Jobs!Continuation
         /\ awaited[m] # None => Jobs!ReadAwaited(m) \in Jobs!Continuation
         /\ \A at \in {"progress", "progressed"} : Jobs!Progress(at, m, s) \in Jobs!Continuation
         /\ \A at \in {"ending", "ended", "released"} : \A to \in {"done", "error", "refused"} :
              Jobs!End(at, m, to, s) \in Jobs!Continuation
         /\ \A to \in {"done", "error", "refused"} : Jobs!Ending(m, to) \in Jobs!Continuation
<1> USE DEF Jobs!Continuation, JobShape, Jobs!TypeOK
<1>1. \A at \in {"allocated", "mapped", "running", "cleared"} : Jobs!Start(at, m) \in Jobs!Continuation
  BY DEF Jobs!Start
<1>2. Opened(m) => Jobs!ReadDedup(m) \in Jobs!Continuation
  BY DEF Jobs!ReadDedup, Jobs!Key, Opened
<1>3. \A e \in Mount : Jobs!ReadExisting(m, e) \in Jobs!Continuation
  BY DEF Jobs!ReadExisting
<1>4. Jobs!ReadAll(m) \in Jobs!Continuation
  BY DEF Jobs!ReadAll
<1>5. awaited[m] # None => Jobs!ReadAwaited(m) \in Jobs!Continuation
  BY DEF Jobs!ReadAwaited, Jobs!Optional
<1>6. \A at \in {"progress", "progressed"} : Jobs!Progress(at, m, s) \in Jobs!Continuation
  BY DEF Jobs!Progress
<1>7. \A at \in {"ending", "ended", "released"} : \A to \in {"done", "error", "refused"} :
        Jobs!End(at, m, to, s) \in Jobs!Continuation
  BY DEF Jobs!End, Jobs!Finished
<1>8. \A to \in {"done", "error", "refused"} : Jobs!Ending(m, to) \in Jobs!Continuation
  BY DEF Jobs!Ending, Jobs!End, Jobs!Finished
<1> QED BY <1>1, <1>2, <1>3, <1>4, <1>5, <1>6, <1>7, <1>8

LEMMA MessageMade ==
  /\ \A j \in Mount : Jobs!AckMsg(j) \in Jobs!PortMessage
  /\ Jobs!ErrorMsg \in Jobs!PortMessage /\ Jobs!DisconnectMsg \in Jobs!PortMessage
  /\ \A all \in [Mount -> Jobs!JobStatus] : Jobs!ListMsg(all) \in Jobs!PortMessage
  /\ \A s \in Jobs!JobStatus : Jobs!EventMsg(s) \in Jobs!PortMessage
BY DEF Jobs!PortMessage, Jobs!AckMsg, Jobs!ErrorMsg, Jobs!DisconnectMsg, Jobs!ListMsg, Jobs!EventMsg

LEMMA MessageFields ==
  \A msg \in Jobs!PortMessage :
    /\ msg.type = "ack" => msg.id \in Mount
    /\ msg.type = "jobs" => msg.jobs \in [Mount -> Jobs!JobStatus]
    /\ msg.type = "event" => msg.status \in Jobs!JobStatus
BY DEF Jobs!PortMessage

LEMMA PostedType ==
  ASSUME JobShape, NEW m \in Mount, NEW msg \in Jobs!PortMessage
  PROVE  Jobs!Posted(m, msg) \in [Mount -> Seq(Jobs!PortMessage)]
<1>1. inbox \in [Mount -> Seq(Jobs!PortMessage)]
  BY DEF JobShape, Jobs!TypeOK
<1>2. Append(inbox[m], msg) \in Seq(Jobs!PortMessage)
  BY <1>1, AppendProperties
<1> QED BY <1>1, <1>2 DEF Jobs!Posted

LEMMA PushedType ==
  ASSUME JobShape, NEW j, NEW s \in Jobs!JobStatus
  PROVE  Jobs!Pushed(j, s) \in [Mount -> Seq(Jobs!PortMessage)]
<1>1. inbox \in [Mount -> Seq(Jobs!PortMessage)] /\ Jobs!EventMsg(s) \in Jobs!PortMessage
  BY MessageMade DEF JobShape, Jobs!TypeOK
<1>2. \A m \in Mount : Append(inbox[m], Jobs!EventMsg(s)) \in Seq(Jobs!PortMessage)
  BY <1>1, AppendProperties
<1> QED BY <1>1, <1>2 DEF Jobs!Pushed

LEMMA ReadsType ==
  ASSUME JobShape, NEW m \in Mount, inbox[m] # <<>>
  PROVE  /\ [inbox EXCEPT ![m] = Tail(@)] \in [Mount -> Seq(Jobs!PortMessage)]
         /\ Head(inbox[m]) \in Jobs!PortMessage
<1>1. inbox \in [Mount -> Seq(Jobs!PortMessage)]
  BY DEF JobShape, Jobs!TypeOK
<1>2. Tail(inbox[m]) \in Seq(Jobs!PortMessage) /\ Head(inbox[m]) \in Jobs!PortMessage
  BY <1>1, HeadTailProperties
<1> QED BY <1>1, <1>2

(* The head of the queue, and the queue without it.                         *)
LEMMA HeadType ==
  ASSUME JobShape, queue # <<>>
  PROVE  /\ Head(queue) \in Jobs!Continuation /\ Tail(queue) \in Seq(Jobs!Continuation)
         /\ Jobs!It \in Mount
         /\ \A c \in Jobs!Continuation : Append(Tail(queue), c) \in Seq(Jobs!Continuation)
<1>1. queue \in Seq(Jobs!Continuation)
  BY DEF JobShape, Jobs!TypeOK
<1>2. Head(queue) \in Jobs!Continuation /\ Tail(queue) \in Seq(Jobs!Continuation)
  BY <1>1, HeadTailProperties
<1>3. \A c \in Jobs!Continuation : Append(Tail(queue), c) \in Seq(Jobs!Continuation)
  BY <1>2, AppendProperties
<1> QED BY <1>2, <1>3, ContinuationFields DEF Jobs!It

(* What a step for each start in `waiting` puts at the end of the queue.    *)
LEMMA WaitingQueued ==
  ASSUME JobShape, NEW made, DOMAIN made = 1..Len(waiting),
         \A i \in 1..Len(waiting) : made[i] \in Jobs!Continuation, made = [i \in 1..Len(waiting) |-> made[i]]
  PROVE  /\ made \in Seq(Jobs!Continuation) /\ Len(made) = Len(waiting)
         /\ queue \o made \in Seq(Jobs!Continuation)
<1>1. queue \in Seq(Jobs!Continuation) /\ waiting \in Seq(Mount) /\ Len(waiting) \in Nat
  BY DEF JobShape, Jobs!TypeOK
<1>2. made \in [1..Len(waiting) -> Jobs!Continuation]
  BY <1>1
<1>3. made \in Seq(Jobs!Continuation) /\ Len(made) = Len(waiting)
  BY <1>1, <1>2
<1> QED BY <1>1, <1>3, ConcatProperties

LEMMA SentType ==
  ASSUME JobShape, NEW m \in Mount, NEW r \in {"none", "list", "start", "subscribe", "unsubscribe"}
  PROVE  /\ Jobs!Sent(m, r) \in [Mount -> {"none", "list", "start", "subscribe", "unsubscribe"}]
         /\ \A j \in Mount : Jobs!Sent(m, r)[j] = IF j # m THEN request[j] ELSE IF m \in connected THEN r ELSE "none"
BY DEF JobShape, Jobs!TypeOK, Jobs!Sent

(* What the worker does between two awaits keeps the variables' types.      *)
LEMMA ContinueShape ==
  ASSUME JobShape, KeysFit, Jobs!Continue
  PROVE  JobShape'
<1> USE DEF JobShape, Jobs!TypeOK, Jobs!storage, Jobs!worker, Jobs!mounts, Jobs!port, Jobs!Answered, Jobs!Then, Jobs!Return
<1>1. queue # <<>>
  BY DEF Jobs!Continue, Jobs!DedupRead, Jobs!ExistingRead, Jobs!StaleCleared, Jobs!Allocated, Jobs!Mapped,
         Jobs!HandOver, Jobs!ProgressRead, Jobs!Progressed, Jobs!EndRead, Jobs!Ended, Jobs!Released,
         Jobs!Listed, Jobs!SubscribeRead
<1> DEFINE c == Head(queue)
<1>2. /\ c \in Jobs!Continuation /\ Tail(queue) \in Seq(Jobs!Continuation)
      /\ c.id \in Mount /\ Jobs!It = c.id /\ Jobs!Saw = c.saw
      /\ \A d \in Jobs!Continuation : Append(Tail(queue), d) \in Seq(Jobs!Continuation)
  BY <1>1, HeadType DEF Jobs!It, Jobs!Saw
<1>s. {"absent", "pending", "running", "done", "error"} \subseteq Jobs!JobStatus
  BY DEF Jobs!JobStatus, Jobs!Live, Jobs!Finished
<1>m. \A s \in Jobs!JobStatus : \A at \in {"progress", "progressed"} : Jobs!Progress(at, c.id, s) \in Jobs!Continuation
  BY <1>2, ContinuationMade
<1>3. ASSUME Jobs!Allocate(c.id)
      PROVE  jobs' \in [Mount -> Jobs!JobStatus] /\ queue' \in Seq(Jobs!Continuation)
  BY <1>2, <1>3, <1>s, ContinuationMade DEF Jobs!Allocate
<1>4. CASE Jobs!DedupRead
  <2>1. c.saw \in Mount \cup {None}
    BY <1>2, <1>4, ContinuationFields DEF Jobs!DedupRead
  <2>2. CASE c.saw = None /\ Jobs!Allocate(c.id)
    BY <1>2, <1>3, <1>4, <2>2 DEF Jobs!DedupRead
  <2>3. CASE c.saw # None /\ queue' = Append(Tail(queue), Jobs!ReadExisting(c.id, c.saw)) /\ UNCHANGED jobs
    <3>1. Jobs!ReadExisting(c.id, c.saw) \in Jobs!Continuation
      BY <1>2, <2>1, <2>3, <1>s, ContinuationMade
    <3> QED BY <1>2, <1>4, <2>3, <3>1 DEF Jobs!DedupRead
  <2> QED BY <1>2, <1>4, <2>2, <2>3 DEF Jobs!DedupRead
<1>5. CASE Jobs!ExistingRead
  <2>1. c.existing \in Mount
    BY <1>2, <1>5, ContinuationFields DEF Jobs!ExistingRead
  <2>2. Jobs!Posted(c.id, Jobs!AckMsg(c.existing)) \in [Mount -> Seq(Jobs!PortMessage)]
    BY <1>2, <2>1, MessageMade, PostedType
  <2>3. Jobs!Start("cleared", c.id) \in Jobs!Continuation
    BY <1>2, <1>s, ContinuationMade
  <2>4. [dedup EXCEPT ![Jobs!Key(c.id)] = None] \in [Backend -> Jobs!Optional(Mount)]
    BY DEF Jobs!Optional
  <2> QED BY <1>2, <1>5, <2>2, <2>3, <2>4 DEF Jobs!ExistingRead
<1>6. CASE Jobs!StaleCleared
  BY <1>2, <1>3, <1>6 DEF Jobs!StaleCleared
<1>7. CASE Jobs!Allocated
  <2>1. Jobs!Pushed(c.id, "pending") \in [Mount -> Seq(Jobs!PortMessage)]
    BY <1>s, PushedType
  <2>2. Jobs!Start("mapped", c.id) \in Jobs!Continuation
    BY <1>2, <1>s, ContinuationMade
  <2>3. [dedup EXCEPT ![Jobs!Key(c.id)] = c.id] \in [Backend -> Jobs!Optional(Mount)]
    BY <1>2 DEF Jobs!Optional
  <2> QED BY <1>2, <1>7, <2>1, <2>2, <2>3 DEF Jobs!Allocated
<1>8. CASE Jobs!Mapped
  <2>1. Append(waiting, c.id) \in Seq(Mount)
    BY <1>2, AppendProperties
  <2>2. Jobs!Start("running", c.id) \in Jobs!Continuation
    BY <1>2, <1>s, ContinuationMade
  <2>3. CASE waiting' = Append(waiting, c.id) /\ queue' = Tail(queue) /\ UNCHANGED jobs
    BY <1>2, <1>8, <2>1, <2>3 DEF Jobs!Mapped
  <2>4. CASE jobs' = [jobs EXCEPT ![c.id] = "running"] /\ UNCHANGED waiting
             /\ queue' = Append(Tail(queue), Jobs!Start("running", c.id))
    BY <1>2, <1>8, <1>s, <2>2, <2>4 DEF Jobs!Mapped
  <2> QED BY <1>2, <1>8, <2>3, <2>4 DEF Jobs!Mapped
<1>9. CASE Jobs!HandOver
  <2> DEFINE pushed == Jobs!Pushed(c.id, "running")
  <2>1. pushed \in [Mount -> Seq(Jobs!PortMessage)]
    BY <1>s, PushedType
  <2>2. Append(pushed[c.id], Jobs!AckMsg(c.id)) \in Seq(Jobs!PortMessage)
    BY <1>2, <2>1, MessageMade, AppendProperties
  <2>3. inbox' = [pushed EXCEPT ![c.id] = IF c.id \in connected THEN Append(@, Jobs!AckMsg(c.id)) ELSE @]
    BY <1>2, <1>9 DEF Jobs!HandOver
  <2>4. inbox' \in [Mount -> Seq(Jobs!PortMessage)]
    <3> HIDE DEF pushed
    <3> QED BY <1>2, <2>1, <2>2, <2>3
  <2> QED BY <1>2, <1>9, <2>4 DEF Jobs!HandOver
<1>10. CASE Jobs!ProgressRead
  <2>1. c.saw \in Jobs!JobStatus
    BY <1>2, <1>10, ContinuationFields DEF Jobs!ProgressRead
  <2>2. CASE c.saw = "absent"
    BY <1>2, <1>10, <2>2 DEF Jobs!ProgressRead
  <2>3. CASE c.saw # "absent"
    <3>1. jobs' = [jobs EXCEPT ![c.id] = c.saw] /\ queue' = Append(Tail(queue), Jobs!Progress("progressed", c.id, c.saw))
      BY <1>2, <1>10, <2>3 DEF Jobs!ProgressRead
    <3>2. Jobs!Progress("progressed", c.id, c.saw) \in Jobs!Continuation
      BY <1>m, <2>1
    <3> QED BY <1>2, <1>10, <2>1, <3>1, <3>2 DEF Jobs!ProgressRead
  <2> QED BY <2>2, <2>3
<1>11. CASE Jobs!Progressed
  <2>1. c.saw \in Jobs!JobStatus
    BY <1>2, <1>11, ContinuationFields DEF Jobs!Progressed
  <2> QED BY <1>2, <1>11, <2>1, PushedType DEF Jobs!Progressed
<1>12. CASE Jobs!EndRead
  <2>1. c.saw \in Jobs!JobStatus /\ c.to \in {"done", "error", "refused"}
    BY <1>2, <1>12, ContinuationFields DEF Jobs!EndRead
  <2>2. Jobs!End("ended", c.id, c.to, c.saw) \in Jobs!Continuation /\ Jobs!EndStatus(c.to) \in Jobs!JobStatus
    BY <1>2, <1>s, <2>1, ContinuationMade DEF Jobs!EndStatus
  <2>3. /\ queue' \in {Tail(queue), Append(Tail(queue), Jobs!End("ended", c.id, c.to, c.saw))}
        /\ jobs' \in {jobs, [jobs EXCEPT ![c.id] = Jobs!EndStatus(c.to)]}
    BY <1>2, <1>12 DEF Jobs!EndRead
  <2>4. queue' \in Seq(Jobs!Continuation)
    <3>1. Append(Tail(queue), Jobs!End("ended", c.id, c.to, c.saw)) \in Seq(Jobs!Continuation)
      BY <1>2, <2>2
    <3> HIDE DEF c
    <3> QED BY <1>2, <2>3, <3>1
  <2>5. jobs' \in [Mount -> Jobs!JobStatus]
    <3> HIDE DEF c
    <3> QED BY <1>2, <2>2, <2>3
  <2> QED BY <1>12, <2>4, <2>5 DEF Jobs!EndRead
<1>13. CASE Jobs!Ended
  <2>1. c.saw \in Jobs!JobStatus /\ c.to \in {"done", "error", "refused"}
    BY <1>2, <1>13, ContinuationFields DEF Jobs!Ended
  <2>2. Jobs!End("released", c.id, c.to, c.saw) \in Jobs!Continuation /\ Jobs!EndStatus(c.to) \in Jobs!JobStatus
    BY <1>2, <1>s, <2>1, ContinuationMade DEF Jobs!EndStatus
  <2>3. Jobs!Pushed(c.id, Jobs!EndStatus(c.to)) \in [Mount -> Seq(Jobs!PortMessage)]
    BY <2>2, PushedType
  <2>4. [dedup EXCEPT ![Jobs!Key(c.id)] = None] \in [Backend -> Jobs!Optional(Mount)]
    BY DEF Jobs!Optional
  <2> QED BY <1>2, <1>13, <2>2, <2>3, <2>4 DEF Jobs!Ended
<1>14. CASE Jobs!Released
  BY <1>2, <1>14, MessageMade, PostedType DEF Jobs!Released
<1>15. CASE Jobs!Listed
  <2>1. c.saw \in [Mount -> Jobs!JobStatus]
    BY <1>2, <1>15, ContinuationFields DEF Jobs!Listed
  <2>2. Jobs!Posted(c.id, Jobs!ListMsg(c.saw)) \in [Mount -> Seq(Jobs!PortMessage)]
    BY <1>2, <2>1, MessageMade, PostedType
  <2> QED BY <1>2, <1>15, <2>2 DEF Jobs!Listed
<1>16. CASE Jobs!SubscribeRead
  <2>1. c.saw \in Jobs!JobStatus
    BY <1>2, <1>16, ContinuationFields DEF Jobs!SubscribeRead
  <2>2. Jobs!Posted(c.id, Jobs!EventMsg(c.saw)) \in [Mount -> Seq(Jobs!PortMessage)]
    BY <1>2, <2>1, MessageMade, PostedType
  <2> QED BY <1>2, <1>16, <2>2 DEF Jobs!SubscribeRead
<1> QED BY <1>4, <1>5, <1>6, <1>7, <1>8, <1>9, <1>10, <1>11, <1>12, <1>13, <1>14, <1>15, <1>16 DEF Jobs!Continue

(* What reaches a mount from the worker, or the worker from a mount.        *)
LEMMA ReceiveShape ==
  ASSUME JobShape, KeysFit, NEW m \in Mount, Jobs!Receive(m)
  PROVE  JobShape'
<1> USE DEF JobShape, Jobs!TypeOK, Jobs!storage, Jobs!worker, Jobs!mounts, Jobs!port, Jobs!Receives, Jobs!Read
<1> DEFINE msg == Head(inbox[m])
<1>1. inbox[m] # <<>> /\ inbox' = [inbox EXCEPT ![m] = Tail(@)]
  BY DEF Jobs!Receive, Jobs!ReceiveJobs, Jobs!ReceiveId, Jobs!ReceiveError, Jobs!ReceiveEvent, Jobs!ReceiveDisconnect
<1>2. msg \in Jobs!PortMessage /\ inbox' \in [Mount -> Seq(Jobs!PortMessage)]
  BY <1>1, ReadsType
<1>3. \A r \in {"subscribe", "start", "unsubscribe"} :
        Jobs!Sent(m, r) \in [Mount -> {"none", "list", "start", "subscribe", "unsubscribe"}]
  BY SentType
<1>4. ASSUME NEW j \in Mount, Jobs!SignedIn(m, j)
      PROVE  /\ token' \in [Mount -> Jobs!Optional(Backend)]
             /\ pc' \in [Mount -> {"absent", "listing", "starting", "awaiting", "signedIn", "refused", "failed", "closed"}]
  BY <1>4 DEF Jobs!SignedIn, Jobs!MintedAt
<1>5. \A j \in Mount : [awaited EXCEPT ![m] = j] \in [Mount -> Jobs!Optional(Mount)]
  BY DEF Jobs!Optional
<1>6. CASE Jobs!ReceiveJobs(m)
  <2> DEFINE all == msg.jobs
  <2>1. CASE (\E j \in Jobs!Reusable(m, all) : Jobs!SignedIn(m, j)) /\ UNCHANGED <<request, awaited>>
    BY <1>2, <1>4, <1>6, <2>1 DEF Jobs!ReceiveJobs, Jobs!Reusable
  <2>2. CASE (\E j \in Jobs!InFlight(m, all) : awaited' = [awaited EXCEPT ![m] = j])
             /\ pc' = [pc EXCEPT ![m] = "awaiting"] /\ request' = Jobs!Sent(m, "subscribe") /\ UNCHANGED token
    BY <1>2, <1>3, <1>5, <1>6, <2>2 DEF Jobs!ReceiveJobs, Jobs!InFlight
  <2>3. CASE pc' = [pc EXCEPT ![m] = "starting"] /\ request' = Jobs!Sent(m, "start") /\ UNCHANGED <<awaited, token>>
    BY <1>2, <1>3, <1>6, <2>3 DEF Jobs!ReceiveJobs
  <2> QED BY <1>6, <2>1, <2>2, <2>3 DEF Jobs!ReceiveJobs
<1>7. CASE Jobs!ReceiveId(m)
  <2>1. msg.id \in Mount
    BY <1>2, <1>7, MessageFields DEF Jobs!ReceiveId
  <2> QED BY <1>2, <1>3, <1>5, <1>7, <2>1 DEF Jobs!ReceiveId
<1>8. CASE Jobs!ReceiveError(m)
  BY <1>2, <1>8 DEF Jobs!ReceiveError
<1>9. CASE Jobs!ReceiveEvent(m)
  <2>1. pc[m] = "awaiting" => awaited[m] \in Mount
    BY DEF KeysFit, MountFits, Jobs!Optional
  <2>2. CASE pc[m] = "awaiting" /\ request' = Jobs!Sent(m, "unsubscribe") /\ Jobs!SignedIn(m, awaited[m])
    BY <1>2, <1>3, <1>4, <1>9, <2>1, <2>2 DEF Jobs!ReceiveEvent
  <2>3. CASE request' = Jobs!Sent(m, "unsubscribe") /\ pc' = [pc EXCEPT ![m] = "failed"] /\ UNCHANGED token
    BY <1>2, <1>3, <1>9, <2>3 DEF Jobs!ReceiveEvent
  <2>4. CASE UNCHANGED <<request, pc, token>>
    BY <1>2, <1>9, <2>4 DEF Jobs!ReceiveEvent
  <2> QED BY <1>9, <2>2, <2>3, <2>4 DEF Jobs!ReceiveEvent
<1>10. CASE Jobs!ReceiveDisconnect(m)
  BY <1>2, <1>10 DEF Jobs!ReceiveDisconnect
<1> QED BY <1>6, <1>7, <1>8, <1>9, <1>10 DEF Jobs!Receive

LEMMA BudgetSpent ==
  \A b \in Jobs!Budget :
    /\ b.evictions > 0 => [b EXCEPT !.evictions = @ - 1] \in Jobs!Budget
    /\ b.switches > 0 => [b EXCEPT !.switches = @ - 1] \in Jobs!Budget
    /\ b.progress > 0 => [b EXCEPT !.progress = @ - 1] \in Jobs!Budget
    /\ b.aged > 0 => [b EXCEPT !.aged = @ - 1] \in Jobs!Budget
BY DEF Jobs!Budget

LEMMA BusyStays ==
  ASSUME JobShape, [Jobs!Next]_signIns
  PROVE  budget'.busy = budget.busy
<1>b. budget \in Jobs!Budget
  BY DEF JobShape, Jobs!TypeOK
<1>1. ASSUME \/ \E b \in Backend : Jobs!Switch(b)
             \/ Jobs!Evict
             \/ \E m \in Mount : Jobs!ReportProgress(m) \/ Jobs!Age(m)
      PROVE  budget'.busy = budget.busy
  BY <1>b, <1>1 DEF Jobs!Switch, Jobs!Evict, Jobs!ReportProgress, Jobs!Age, Jobs!Budget
<1>2. CASE Jobs!Continue
  BY <1>2 DEF Jobs!Continue, Jobs!DedupRead, Jobs!ExistingRead, Jobs!StaleCleared, Jobs!Allocated, Jobs!Mapped,
              Jobs!HandOver, Jobs!ProgressRead, Jobs!Progressed, Jobs!EndRead, Jobs!Ended, Jobs!Released,
              Jobs!Listed, Jobs!SubscribeRead, Jobs!Allocate
<1>3. ASSUME NEW m \in Mount,
             Jobs!Handle(m) \/ Jobs!Receive(m) \/ Jobs!Open(m) \/ Jobs!Close(m) \/ Jobs!ReportEnd(m) \/ Jobs!Collect(m)
      PROVE  UNCHANGED budget
  BY <1>3 DEF Jobs!Handle, Jobs!Admit, Jobs!List, Jobs!Subscribe, Jobs!Unsubscribe, Jobs!Receive, Jobs!ReceiveJobs,
              Jobs!ReceiveId, Jobs!ReceiveError, Jobs!ReceiveEvent, Jobs!ReceiveDisconnect, Jobs!Open, Jobs!Close,
              Jobs!ReportEnd, Jobs!Collect
<1>4. ASSUME Jobs!OffscreenReady \/ Jobs!OffscreenFails \/ UNCHANGED signIns
      PROVE  UNCHANGED budget
  BY <1>4 DEF Jobs!OffscreenReady, Jobs!OffscreenFails, signIns
<1> QED BY <1>1, <1>2, <1>3, <1>4 DEF Jobs!Next

LEMMA JobShapeStep ==
  ASSUME JobShape, KeysFit, [Jobs!Next]_signIns
  PROVE  JobShape'
<1> USE DEF JobShape, Jobs!TypeOK, Jobs!storage, Jobs!worker, Jobs!mounts, Jobs!port
<1>s. {"absent", "pending", "running", "done", "error"} \subseteq Jobs!JobStatus
  BY DEF Jobs!JobStatus, Jobs!Live, Jobs!Finished
<1>b. budget \in Jobs!Budget
  OBVIOUS
<1>l. Len(waiting) \in Nat /\ DOMAIN waiting = 1..Len(waiting) /\ \A i \in 1..Len(waiting) : waiting[i] \in Mount
  BY ElementOfSeq
<1>e. <<>> \in Seq(Jobs!Continuation) /\ <<>> \in Seq(Mount) /\ <<>> \in Seq(Jobs!PortMessage)
  OBVIOUS
<1>1. CASE Jobs!OffscreenReady
  <2> DEFINE made == [i \in 1..Len(waiting) |-> Jobs!Start("running", waiting[i])]
  <2>1. \A i \in 1..Len(waiting) : made[i] \in Jobs!Continuation
    BY <1>l, <1>s, ContinuationMade
  <2>2. queue \o made \in Seq(Jobs!Continuation)
    <3> HIDE DEF made
    <3>1. DOMAIN made = 1..Len(waiting) /\ made = [i \in 1..Len(waiting) |-> made[i]]
      BY DEF made
    <3> QED BY <2>1, <3>1, WaitingQueued
  <2>3. queue' = queue \o made
    BY <1>1, <1>l DEF Jobs!OffscreenReady
  <2> QED BY <1>1, <1>s, <1>e, <2>2, <2>3 DEF Jobs!OffscreenReady
<1>2. CASE Jobs!OffscreenFails
  <2> DEFINE made == [i \in 1..Len(waiting) |-> Jobs!Ending(waiting[i], "refused")]
  <2>1. \A i \in 1..Len(waiting) : made[i] \in Jobs!Continuation
    BY <1>l, <1>s, ContinuationMade
  <2>2. queue \o made \in Seq(Jobs!Continuation)
    <3> HIDE DEF made
    <3>1. DOMAIN made = 1..Len(waiting) /\ made = [i \in 1..Len(waiting) |-> made[i]]
      BY DEF made
    <3> QED BY <2>1, <3>1, WaitingQueued
  <2>3. queue' = queue \o made
    BY <1>2, <1>l DEF Jobs!OffscreenFails
  <2> QED BY <1>2, <1>e, <2>2, <2>3 DEF Jobs!OffscreenFails
<1>3. CASE Jobs!Evict
  <2>1. budget' \in Jobs!Budget
    BY <1>3, <1>b, BudgetSpent DEF Jobs!Evict
  <2>2. inbox' \in [Mount -> Seq(Jobs!PortMessage)]
    <3>1. \A m \in Mount : Append(inbox[m], Jobs!DisconnectMsg) \in Seq(Jobs!PortMessage)
      BY MessageMade, AppendProperties
    <3> QED BY <1>3, <3>1 DEF Jobs!Evict
  <2> QED BY <1>3, <1>e, <2>1, <2>2 DEF Jobs!Evict
<1>4. ASSUME NEW m \in Mount, Jobs!Handle(m)
      PROVE  JobShape'
  <2>1. \A c \in Jobs!Continuation : Append(queue, c) \in Seq(Jobs!Continuation)
    BY AppendProperties
  <2>2. CASE Jobs!Admit(m)
    <3>1. Jobs!Posted(m, Jobs!ErrorMsg) \in [Mount -> Seq(Jobs!PortMessage)]
      BY MessageMade, PostedType
    <3>2. Jobs!ReadDedup(m) \in Jobs!Continuation
      <4>1. Opened(m)
        BY <2>2 DEF Jobs!Admit, KeysFit, MountFits
      <4> QED BY <1>s, <4>1, ContinuationMade
    <3> QED BY <2>1, <2>2, <3>1, <3>2 DEF Jobs!Admit
  <2>3. CASE Jobs!List(m)
    <3>1. Jobs!ReadAll(m) \in Jobs!Continuation
      BY <1>s, ContinuationMade
    <3> QED BY <2>1, <2>3, <3>1 DEF Jobs!List
  <2>4. CASE Jobs!Subscribe(m)
    <3>1. Jobs!ReadAwaited(m) \in Jobs!Continuation
      BY <1>s, <2>4, ContinuationMade DEF Jobs!Subscribe, KeysFit, MountFits
    <3> QED BY <2>1, <2>4, <3>1 DEF Jobs!Subscribe
  <2>5. CASE Jobs!Unsubscribe(m)
    BY <2>5 DEF Jobs!Unsubscribe
  <2> QED BY <1>4, <2>2, <2>3, <2>4, <2>5 DEF Jobs!Handle
<1>5. ASSUME NEW m \in Mount, Jobs!Open(m)
      PROVE  JobShape'
  BY <1>5 DEF Jobs!Open, Jobs!Optional
<1>6. ASSUME NEW m \in Mount, Jobs!Close(m)
      PROVE  JobShape'
  BY <1>6, <1>e DEF Jobs!Close, Jobs!Optional
<1>7. ASSUME NEW m \in Mount, Jobs!ReportProgress(m)
      PROVE  JobShape'
  <2>1. Jobs!Progress("progress", m, jobs[m]) \in Jobs!Continuation
    BY ContinuationMade
  <2>2. Append(queue, Jobs!Progress("progress", m, jobs[m])) \in Seq(Jobs!Continuation)
    BY <2>1, AppendProperties
  <2>3. budget' \in Jobs!Budget
    BY <1>7, <1>b, BudgetSpent DEF Jobs!ReportProgress
  <2> QED BY <1>7, <2>2, <2>3 DEF Jobs!ReportProgress
<1>8. ASSUME NEW m \in Mount, Jobs!ReportEnd(m)
      PROVE  JobShape'
  <2>1. \A to \in Jobs!Finished : Append(queue, Jobs!Ending(m, to)) \in Seq(Jobs!Continuation)
    BY <1>s, ContinuationMade, AppendProperties DEF Jobs!Finished
  <2> QED BY <1>8, <2>1 DEF Jobs!ReportEnd
<1>9. ASSUME NEW m \in Mount, Jobs!Age(m)
      PROVE  JobShape'
  <2>1. budget' \in Jobs!Budget
    BY <1>9, <1>b, BudgetSpent DEF Jobs!Age
  <2> QED BY <1>9, <2>1 DEF Jobs!Age
<1>10. ASSUME NEW m \in Mount, Jobs!Collect(m)
       PROVE  JobShape'
  BY <1>10, <1>s DEF Jobs!Collect
<1>11. ASSUME NEW b \in Backend, Jobs!Switch(b)
       PROVE  JobShape'
  <2>1. budget' \in Jobs!Budget
    BY <1>11, <1>b, BudgetSpent DEF Jobs!Switch
  <2> QED BY <1>11, <2>1 DEF Jobs!Switch
<1>12. CASE UNCHANGED signIns
  BY <1>12 DEF signIns
<1> QED BY <1>1, <1>2, <1>3, <1>4, <1>5, <1>6, <1>7, <1>8, <1>9, <1>10, <1>11, <1>12, ContinueShape, ReceiveShape DEF Jobs!Next

(* What a post leaves in the inboxes: a new last message at most, and that  *)
(* only where the port lives.                                               *)
LEMMA PostedItems ==
  ASSUME JobShape, NEW m \in Mount, NEW msg \in Jobs!PortMessage, NEW k \in Mount
  PROVE  IF k = m /\ m \in connected
         THEN Jobs!Posted(m, msg)[k] = Append(inbox[k], msg)
         ELSE Jobs!Posted(m, msg)[k] = inbox[k]
BY DEF JobShape, Jobs!TypeOK, Jobs!Posted

LEMMA PushedItems ==
  ASSUME JobShape, NEW j, NEW s, NEW k \in Mount
  PROVE  IF k \in subs /\ k \in connected /\ awaited[k] = j
         THEN Jobs!Pushed(j, s)[k] = Append(inbox[k], Jobs!EventMsg(s))
         ELSE Jobs!Pushed(j, s)[k] = inbox[k]
BY DEF JobShape, Jobs!TypeOK, Jobs!Pushed

LEMMA MailFits ==
  ASSUME JobShape, NEW m \in Mount, MountFits(m), UNCHANGED <<pc, backend, awaited, token, connected, request>>,
         \/ inbox'[m] = inbox[m]
         \/ /\ m \in connected
            /\ \A msg \in Items(inbox'[m]) : msg.type = "ack" =>
                 msg \in Items(inbox[m]) \/ SameKey(msg.id, m)
  PROVE  MountFits(m)'
BY DEF MountFits, SameKey, Opened

LEMMA EntryKept ==
  ASSUME NEW c, EntryFits(c), UNCHANGED backend
  PROVE  EntryFits(c)'
BY DEF EntryFits, SameKey, Opened

(* A continuation of the worker keeps to its mount's key.                   *)
LEMMA ContinueKeys ==
  ASSUME JobShape, KeysFit, Jobs!Continue, None \notin Backend
  PROVE  KeysFit'
<1> USE DEF Jobs!storage, Jobs!mounts, Jobs!port, Jobs!Answered, Jobs!Then, Jobs!Return
<1>1. queue # <<>> /\ UNCHANGED <<pc, backend, awaited, token, connected, request>>
  BY DEF Jobs!Continue, Jobs!DedupRead, Jobs!ExistingRead, Jobs!StaleCleared, Jobs!Allocated, Jobs!Mapped,
         Jobs!HandOver, Jobs!ProgressRead, Jobs!Progressed, Jobs!EndRead, Jobs!Ended, Jobs!Released,
         Jobs!Listed, Jobs!SubscribeRead
<1> DEFINE rest == Tail(queue)
<1>c. PICK c : c = Head(queue)
  OBVIOUS
<1>2. /\ c = Head(queue) /\ c \in Jobs!Continuation /\ c.id \in Mount /\ Jobs!It = c.id /\ Jobs!Saw = c.saw
      /\ queue \in Seq(Jobs!Continuation) /\ rest \in Seq(Jobs!Continuation)
  BY <1>1, <1>c, HeadType DEF Jobs!It, Jobs!Saw, JobShape, Jobs!TypeOK
<1>3. /\ Items(queue) = {c} \cup Items(rest)
      /\ \A d \in Jobs!Continuation : Items(Append(rest, d)) = Items(rest) \cup {d}
  <2>1. Items(queue) = {c} \cup Items(rest)
    BY <1>1, <1>2, ItemsTail
  <2>2. ASSUME NEW d \in Jobs!Continuation
        PROVE  Items(Append(rest, d)) = Items(rest) \cup {d}
    <3> HIDE DEF rest
    <3> QED BY <1>2, ItemsAppend
  <2> QED BY <2>1, <2>2
<1>4. EntryFits(c) /\ \A d \in Items(rest) : EntryFits(d)'
  BY <1>1, <1>3, EntryKept DEF KeysFit
<1>5. \A m \in Mount : inbox \in [Mount -> Seq(Jobs!PortMessage)] /\ inbox[m] \in Seq(Jobs!PortMessage) /\ MountFits(m)
  BY DEF JobShape, Jobs!TypeOK, KeysFit
<1>6. ASSUME \A m \in Mount : inbox'[m] = inbox[m] \/
               (m \in connected /\ \E msg \in Jobs!PortMessage : /\ inbox'[m] = Append(inbox[m], msg)
                                                                 /\ msg.type = "ack" => SameKey(msg.id, m))
      PROVE  \A m \in Mount : MountFits(m)'
  <2> SUFFICES ASSUME NEW m \in Mount
               PROVE  MountFits(m)'
    OBVIOUS
  <2>1. CASE inbox'[m] = inbox[m]
    BY <1>1, <1>5, <2>1, MailFits
  <2>2. ASSUME NEW msg \in Jobs!PortMessage, inbox'[m] = Append(inbox[m], msg), m \in connected,
               msg.type = "ack" => SameKey(msg.id, m)
        PROVE  MountFits(m)'
    <3>1. Items(inbox'[m]) = Items(inbox[m]) \cup {msg}
      BY <1>5, <2>2, ItemsAppend
    <3> QED BY <1>1, <1>5, <2>2, <3>1, MailFits
  <2> QED BY <1>6, <2>1, <2>2
<1>7. ASSUME NEW d, d \in Jobs!Continuation, EntryFits(d)', queue' = Append(rest, d)
      PROVE  \A e \in Items(queue') : EntryFits(e)'
  BY <1>3, <1>4, <1>7
<1>8. ASSUME NEW at, at \in {"allocated", "mapped", "running", "cleared"}
      PROVE  Jobs!Start(at, c.id) \in Jobs!Continuation /\ EntryFits(Jobs!Start(at, c.id))'
  <2>1. Jobs!Start(at, c.id) \in Jobs!Continuation
    BY <1>2, <1>8, ContinuationMade DEF Jobs!JobStatus, Jobs!Live
  <2> QED BY <1>1, <1>4, <1>8, <2>1 DEF EntryFits, Opened, SameKey, Jobs!Start
<1>9. ASSUME NEW at, NEW s, NEW to, Jobs!End(at, c.id, to, s) \in Jobs!Continuation, at \in {"ended", "released"}
      PROVE  EntryFits(Jobs!End(at, c.id, to, s))'
  BY <1>1, <1>4, <1>9 DEF EntryFits, Opened, SameKey, Jobs!End
<1>10. Opened(c.id)
  BY <1>4 DEF EntryFits
<1>d. dedup \in [Backend -> Mount \cup {None}] /\ \A b \in Backend : dedup[b] # None => backend[dedup[b]] = b
  BY DEF JobShape, Jobs!TypeOK, KeysFit, Jobs!Optional
<1>w. waiting \in Seq(Mount) /\ \A j \in Items(waiting) \cup runner : Opened(j)'
  BY <1>1 DEF JobShape, Jobs!TypeOK, KeysFit, Opened
<1>11. CASE Jobs!DedupRead
  <2>1. UNCHANGED <<dedup, inbox, waiting, runner>>
    BY <1>11 DEF Jobs!DedupRead
  <2>2. \A e \in Items(queue') : EntryFits(e)'
    <3>1. CASE Jobs!Allocate(c.id)
      BY <1>7, <1>8, <3>1 DEF Jobs!Allocate
    <3>2. CASE c.saw # None /\ queue' = Append(rest, Jobs!ReadExisting(c.id, c.saw))
      <4>1. c.saw \in Mount /\ SameKey(c.saw, c.id)
        BY <1>2, <1>4, <1>11, <3>2, ContinuationFields DEF EntryFits, Jobs!DedupRead
      <4>2. Jobs!ReadExisting(c.id, c.saw) \in Jobs!Continuation
        BY <1>2, <4>1, ContinuationMade DEF Jobs!JobStatus, Jobs!Live
      <4>3. PICK d : d = Jobs!ReadExisting(c.id, c.saw)
        OBVIOUS
      <4>4. EntryFits(d)'
        BY <1>1, <1>4, <4>1, <4>3 DEF EntryFits, Opened, SameKey, Jobs!ReadExisting
      <4> QED BY <1>7, <3>2, <4>2, <4>3, <4>4
    <3> QED BY <1>2, <1>11, <3>1, <3>2 DEF Jobs!DedupRead
  <2> QED BY <1>1, <1>6, <1>d, <1>w, <2>1, <2>2 DEF KeysFit
<1>12. CASE Jobs!ExistingRead
  <2>1. UNCHANGED <<waiting, runner>> /\ c.at = "existing"
    BY <1>2, <1>12 DEF Jobs!ExistingRead, Jobs!worker
  <2>2. c.existing \in Mount /\ SameKey(c.existing, c.id)
    BY <1>2, <1>4, <2>1, ContinuationFields DEF EntryFits
  <2>3. CASE inbox' = Jobs!Posted(c.id, Jobs!AckMsg(c.existing)) /\ queue' = rest /\ UNCHANGED dedup
    <3>1. Jobs!AckMsg(c.existing) \in Jobs!PortMessage /\ Jobs!AckMsg(c.existing).id = c.existing
      BY <2>2, MessageMade DEF Jobs!AckMsg
    <3>2. \A m \in Mount : MountFits(m)'
      BY <1>2, <1>6, <2>2, <2>3, <3>1, PostedItems
    <3> QED BY <1>1, <1>4, <1>d, <1>w, <2>1, <2>3, <3>2 DEF KeysFit
  <2>4. CASE dedup' = [dedup EXCEPT ![Jobs!Key(c.id)] = None] /\ UNCHANGED inbox
             /\ queue' = Append(rest, Jobs!Start("cleared", c.id))
    <3>1. \A b \in Backend : dedup'[b] # None => backend[dedup'[b]] = b
      BY <1>d, <2>4
    <3>2. \A e \in Items(queue') : EntryFits(e)'
      BY <1>7, <1>8, <2>4
    <3> QED BY <1>1, <1>6, <1>w, <2>1, <2>4, <3>1, <3>2 DEF KeysFit
  <2> QED BY <1>2, <1>12, <2>3, <2>4 DEF Jobs!ExistingRead
<1>13. CASE Jobs!StaleCleared
  <2>1. UNCHANGED <<dedup, inbox, waiting, runner>>
    BY <1>13 DEF Jobs!StaleCleared
  <2>2. \A e \in Items(queue') : EntryFits(e)'
    BY <1>2, <1>7, <1>8, <1>13 DEF Jobs!Allocate, Jobs!StaleCleared
  <2> QED BY <1>1, <1>6, <1>d, <1>w, <2>1, <2>2 DEF KeysFit
<1>14. ASSUME NEW s \in Jobs!JobStatus, inbox' = Jobs!Pushed(c.id, s)
       PROVE  \A m \in Mount : MountFits(m)'
  <2>1. Jobs!EventMsg(s) \in Jobs!PortMessage /\ Jobs!EventMsg(s).type # "ack"
    BY MessageMade DEF Jobs!EventMsg
  <2> QED BY <1>6, <1>14, <2>1, PushedItems
<1>15. CASE Jobs!Allocated
  <2>1. UNCHANGED <<waiting, runner>> /\ inbox' = Jobs!Pushed(c.id, "pending")
        /\ dedup' = [dedup EXCEPT ![Jobs!Key(c.id)] = c.id]
    BY <1>2, <1>15 DEF Jobs!Allocated
  <2>2. \A m \in Mount : MountFits(m)'
    BY <1>14, <2>1 DEF Jobs!JobStatus, Jobs!Live
  <2>3. \A b \in Backend : dedup'[b] # None => backend[dedup'[b]] = b
    BY <1>d, <1>10, <2>1 DEF Jobs!Key, Opened
  <2>4. \A e \in Items(queue') : EntryFits(e)'
    BY <1>2, <1>7, <1>8, <1>15 DEF Jobs!Allocated
  <2> QED BY <1>1, <1>w, <2>1, <2>2, <2>3, <2>4 DEF KeysFit
<1>16. CASE Jobs!Mapped
  <2>1. UNCHANGED <<dedup, inbox, runner>>
    BY <1>16 DEF Jobs!Mapped
  <2>2. CASE waiting' = Append(waiting, c.id) /\ queue' = rest
    <3>1. Items(waiting') = Items(waiting) \cup {c.id}
      BY <1>2, <1>w, <2>2, ItemsAppend
    <3>2. \A j \in Items(waiting') \cup runner : Opened(j)'
      BY <1>1, <1>10, <1>w, <3>1 DEF Opened
    <3> QED BY <1>1, <1>4, <1>6, <1>d, <2>1, <2>2, <3>2 DEF KeysFit
  <2>3. CASE UNCHANGED waiting /\ queue' = Append(rest, Jobs!Start("running", c.id))
    <3>1. \A e \in Items(queue') : EntryFits(e)'
      BY <1>7, <1>8, <2>3
    <3> QED BY <1>1, <1>6, <1>d, <1>w, <2>1, <2>3, <3>1 DEF KeysFit
  <2> QED BY <1>2, <1>16, <2>2, <2>3 DEF Jobs!Mapped
<1>17. CASE Jobs!HandOver
  <2> DEFINE pushed == Jobs!Pushed(c.id, "running")
  <2>1. UNCHANGED <<dedup, waiting>> /\ runner' = runner \cup {c.id} /\ queue' = rest
        /\ inbox' = [pushed EXCEPT ![c.id] = IF c.id \in connected THEN Append(@, Jobs!AckMsg(c.id)) ELSE @]
    BY <1>2, <1>17 DEF Jobs!HandOver
  <2>2. "running" \in Jobs!JobStatus
    BY DEF Jobs!JobStatus, Jobs!Live
  <2>3. pushed \in [Mount -> Seq(Jobs!PortMessage)]
    BY <2>2, PushedType
  <2>4. Jobs!EventMsg("running") \in Jobs!PortMessage /\ Jobs!EventMsg("running").type # "ack"
    BY <2>2, MessageMade DEF Jobs!EventMsg
  <2>5. Jobs!AckMsg(c.id) \in Jobs!PortMessage /\ Jobs!AckMsg(c.id).id = c.id /\ SameKey(c.id, c.id)
    BY <1>2, <1>10, MessageMade DEF Jobs!AckMsg, SameKey
  <2>6. ASSUME NEW m \in Mount
        PROVE  MountFits(m)'
    <3>1. /\ pushed[m] # inbox[m] => m \in connected
          /\ \A msg \in Items(pushed[m]) : msg.type = "ack" => msg \in Items(inbox[m])
      <4>1. CASE pushed[m] = Append(inbox[m], Jobs!EventMsg("running")) /\ m \in connected
        <5>1. Items(Append(inbox[m], Jobs!EventMsg("running"))) = Items(inbox[m]) \cup {Jobs!EventMsg("running")}
          BY <1>5, <2>4, ItemsAppend
        <5> QED BY <2>4, <4>1, <5>1
      <4>2. CASE pushed[m] = inbox[m]
        BY <4>2
      <4> QED BY <4>1, <4>2, PushedItems
    <3> HIDE DEF pushed
    <3>2. CASE m = c.id /\ m \in connected
      <4>1. inbox'[m] = Append(pushed[m], Jobs!AckMsg(c.id))
        BY <2>1, <2>3, <3>2
      <4>2. Items(inbox'[m]) = Items(pushed[m]) \cup {Jobs!AckMsg(c.id)}
        BY <2>3, <2>5, <4>1, ItemsAppend
      <4> QED BY <1>1, <1>5, <2>5, <3>1, <3>2, <4>2, MailFits
    <3>3. CASE ~(m = c.id /\ m \in connected)
      <4>1. inbox'[m] = pushed[m]
        BY <2>1, <2>3, <3>3
      <4> QED BY <1>1, <1>5, <3>1, <4>1, MailFits
    <3> QED BY <3>2, <3>3
  <2>7. \A j \in Items(waiting) \cup runner' : Opened(j)'
    BY <1>1, <1>10, <1>w, <2>1 DEF Opened
  <2> QED BY <1>1, <1>4, <1>d, <2>1, <2>6, <2>7 DEF KeysFit
<1>18. CASE Jobs!ProgressRead
  <2>1. UNCHANGED <<dedup, inbox, waiting, runner>>
    BY <1>18 DEF Jobs!ProgressRead
  <2>2. CASE queue' = rest
    BY <1>1, <1>4, <1>6, <1>d, <1>w, <2>1, <2>2 DEF KeysFit
  <2>3. CASE queue' = Append(rest, Jobs!Progress("progressed", c.id, c.saw))
    <3>1. Jobs!Progress("progressed", c.id, c.saw) \in Jobs!Continuation
      BY <1>2, <1>18, ContinuationFields, ContinuationMade DEF Jobs!ProgressRead
    <3>2. EntryFits(Jobs!Progress("progressed", c.id, c.saw))'
      BY <1>1, <1>10 DEF EntryFits, Opened, Jobs!Progress
    <3>3. \A e \in Items(queue') : EntryFits(e)'
      BY <1>7, <2>3, <3>1, <3>2
    <3> QED BY <1>1, <1>6, <1>d, <1>w, <2>1, <3>3 DEF KeysFit
  <2> QED BY <1>2, <1>18, <2>2, <2>3 DEF Jobs!ProgressRead
<1>19. CASE Jobs!Progressed
  <2>1. UNCHANGED <<dedup, waiting, runner>> /\ inbox' = Jobs!Pushed(c.id, c.saw) /\ queue' = rest
    BY <1>2, <1>19 DEF Jobs!Progressed
  <2>2. c.saw \in Jobs!JobStatus
    BY <1>2, <1>19, ContinuationFields DEF Jobs!Progressed
  <2> QED BY <1>1, <1>4, <1>14, <1>d, <1>w, <2>1, <2>2 DEF KeysFit
<1>20. CASE Jobs!EndRead
  <2>1. UNCHANGED <<dedup, inbox, waiting, runner>>
    BY <1>20 DEF Jobs!EndRead
  <2>2. CASE queue' = rest
    BY <1>1, <1>4, <1>6, <1>d, <1>w, <2>1, <2>2 DEF KeysFit
  <2>3. CASE queue' = Append(rest, Jobs!End("ended", c.id, c.to, c.saw))
    <3>1. c.saw \in Jobs!JobStatus /\ c.to \in {"done", "error", "refused"}
      BY <1>2, <1>20, ContinuationFields DEF Jobs!EndRead
    <3>2. Jobs!End("ended", c.id, c.to, c.saw) \in Jobs!Continuation
      BY <1>2, <3>1, ContinuationMade
    <3>3. \A e \in Items(queue') : EntryFits(e)'
      BY <1>7, <1>9, <2>3, <3>2
    <3> QED BY <1>1, <1>6, <1>d, <1>w, <2>1, <3>3 DEF KeysFit
  <2> QED BY <1>2, <1>20, <2>2, <2>3 DEF Jobs!EndRead
<1>21. CASE Jobs!Ended
  <2>1. UNCHANGED <<waiting, runner>> /\ inbox' = Jobs!Pushed(c.id, Jobs!EndStatus(c.to))
        /\ dedup' = [dedup EXCEPT ![Jobs!Key(c.id)] = None]
        /\ queue' = Append(rest, Jobs!End("released", c.id, c.to, c.saw))
    BY <1>2, <1>21 DEF Jobs!Ended
  <2>2. c.saw \in Jobs!JobStatus /\ c.to \in {"done", "error", "refused"}
    BY <1>2, <1>21, ContinuationFields DEF Jobs!Ended
  <2>3. Jobs!End("released", c.id, c.to, c.saw) \in Jobs!Continuation /\ Jobs!EndStatus(c.to) \in Jobs!JobStatus
    BY <1>2, <2>2, ContinuationMade DEF Jobs!EndStatus, Jobs!JobStatus, Jobs!Finished
  <2>4. \A e \in Items(queue') : EntryFits(e)'
    BY <1>7, <1>9, <2>1, <2>3
  <2>5. \A b \in Backend : dedup'[b] # None => backend[dedup'[b]] = b
    BY <1>d, <2>1
  <2> QED BY <1>1, <1>14, <1>w, <2>1, <2>3, <2>4, <2>5 DEF KeysFit
<1>22. ASSUME NEW msg \in Jobs!PortMessage, msg.type # "ack", inbox' = Jobs!Posted(c.id, msg) \/ inbox' = inbox,
              queue' = rest, UNCHANGED <<dedup, waiting, runner>>
       PROVE  KeysFit'
  <2>1. \A m \in Mount : MountFits(m)'
    BY <1>2, <1>6, <1>22, PostedItems
  <2> QED BY <1>1, <1>4, <1>d, <1>w, <1>22, <2>1 DEF KeysFit
<1>23. CASE Jobs!Released
  <2>1. Jobs!ErrorMsg \in Jobs!PortMessage /\ Jobs!ErrorMsg.type # "ack"
    BY MessageMade DEF Jobs!ErrorMsg
  <2> QED BY <1>2, <1>22, <1>23, <2>1 DEF Jobs!Released
<1>24. CASE Jobs!Listed
  <2>1. Jobs!ListMsg(c.saw) \in Jobs!PortMessage /\ Jobs!ListMsg(c.saw).type # "ack"
    BY <1>2, <1>24, ContinuationFields, MessageMade DEF Jobs!ListMsg, Jobs!Listed
  <2> QED BY <1>2, <1>22, <1>24, <2>1 DEF Jobs!Listed
<1>25. CASE Jobs!SubscribeRead
  <2>1. Jobs!EventMsg(c.saw) \in Jobs!PortMessage /\ Jobs!EventMsg(c.saw).type # "ack"
    BY <1>2, <1>25, ContinuationFields, MessageMade DEF Jobs!EventMsg, Jobs!SubscribeRead
  <2> QED BY <1>2, <1>22, <1>25, <2>1 DEF Jobs!SubscribeRead
<1> QED BY <1>11, <1>12, <1>13, <1>15, <1>16, <1>17, <1>18, <1>19, <1>20, <1>21, <1>23, <1>24, <1>25 DEF Jobs!Continue

(* A mount takes jobs and tokens of its own key only.                       *)
LEMMA ReceiveKeys ==
  ASSUME JobShape, KeysFit, NEW m \in Mount, Jobs!Receive(m), None \notin Mount
  PROVE  KeysFit'
<1> USE DEF Jobs!storage, Jobs!worker, Jobs!Receives, Jobs!Read
<1> DEFINE rest == Tail(inbox[m])
<1>m. PICK msg : msg = Head(inbox[m])
  OBVIOUS
<1>1. /\ inbox[m] # <<>> /\ inbox' = [inbox EXCEPT ![m] = rest]
      /\ UNCHANGED <<jobs, dedup, queue, waiting, runner, connected, backend>>
  BY DEF Jobs!Receive, Jobs!ReceiveJobs, Jobs!ReceiveId, Jobs!ReceiveError, Jobs!ReceiveEvent, Jobs!ReceiveDisconnect
<1>2. /\ inbox \in [Mount -> Seq(Jobs!PortMessage)] /\ inbox[m] \in Seq(Jobs!PortMessage)
      /\ backend \in [Mount -> Backend \cup {None}] /\ awaited \in [Mount -> Mount \cup {None}]
      /\ token \in [Mount -> Backend \cup {None}]
      /\ pc \in [Mount -> {"absent", "listing", "starting", "awaiting", "signedIn", "refused", "failed", "closed"}]
      /\ request \in [Mount -> {"none", "list", "start", "subscribe", "unsubscribe"}]
  BY DEF JobShape, Jobs!TypeOK, Jobs!Optional
<1>3. msg \in Jobs!PortMessage /\ Items(inbox[m]) = {msg} \cup Items(rest)
  BY <1>1, <1>2, <1>m, ItemsTail, HeadTailProperties
<1>4. pc[m] # "absent" /\ Opened(m) /\ MountFits(m)
  BY <1>1 DEF KeysFit, MountFits
<1>5. ASSUME /\ awaited' = awaited \/ \E j \in Mount : SameKey(j, m) /\ awaited' = [awaited EXCEPT ![m] = j]
             /\ token' = token \/ \E b \in {None, backend[m]} : token' = [token EXCEPT ![m] = b]
             /\ \A k \in Mount : k # m => pc'[k] = pc[k] /\ request'[k] = request[k]
             /\ pc'[m] # "absent"
             /\ pc'[m] = "awaiting" => pc[m] = "awaiting" \/ awaited'[m] # None
             /\ request'[m] = "subscribe" => request[m] = "subscribe" \/ awaited'[m] # None
      PROVE  KeysFit'
  <2>1. ASSUME NEW k \in Mount, k # m
        PROVE  MountFits(k)'
    <3>1. inbox'[k] = inbox[k] /\ awaited'[k] = awaited[k] /\ token'[k] = token[k]
      BY <1>1, <1>2, <1>5, <2>1
    <3> QED BY <1>1, <1>5, <2>1, <3>1 DEF KeysFit, MountFits, SameKey, Opened
  <2>2. MountFits(m)'
    <3>1. inbox'[m] = rest
      BY <1>1, <1>2
    <3>2. \A x \in Items(inbox'[m]) : x.type = "ack" => SameKey(x.id, m)
      BY <1>3, <1>4, <3>1 DEF MountFits
    <3>3. token'[m] \in {None, backend[m]}
      BY <1>2, <1>4, <1>5 DEF MountFits
    <3>4. awaited'[m] # None => SameKey(awaited'[m], m)
      BY <1>2, <1>4, <1>5 DEF MountFits
    <3>5. awaited[m] # None => awaited'[m] # None
      BY <1>2, <1>5
    <3> QED BY <1>1, <1>4, <1>5, <3>2, <3>3, <3>4, <3>5 DEF MountFits, SameKey, Opened
  <2>3. \A k \in Mount : MountFits(k)'
    BY <2>1, <2>2
  <2> QED BY <1>1, <2>3 DEF KeysFit, EntryFits, SameKey, Opened
<1>6. \A r \in {"subscribe", "start", "unsubscribe"} : \A k \in Mount :
        Jobs!Sent(m, r)[k] = IF k # m THEN request[k] ELSE IF m \in connected THEN r ELSE "none"
  BY SentType
<1>7. CASE Jobs!ReceiveJobs(m)
  <2> DEFINE all == msg.jobs
  <2>1. \A j \in Mount : backend[j] = backend[m] => SameKey(j, m)
    BY <1>4 DEF SameKey
  <2>2. CASE (\E j \in Jobs!Reusable(m, all) : Jobs!SignedIn(m, j)) /\ UNCHANGED <<request, awaited>>
    <3>1. PICK j \in Mount : Jobs!SignedIn(m, j) /\ backend[j] = backend[m]
      BY <2>2 DEF Jobs!Reusable, Jobs!MintedAt
    <3> QED BY <1>2, <1>5, <2>2, <3>1 DEF Jobs!SignedIn, Jobs!MintedAt
  <2>3. CASE (\E j \in Jobs!InFlight(m, all) : awaited' = [awaited EXCEPT ![m] = j])
             /\ pc' = [pc EXCEPT ![m] = "awaiting"] /\ request' = Jobs!Sent(m, "subscribe") /\ UNCHANGED token
    <3>1. PICK j \in Mount : awaited' = [awaited EXCEPT ![m] = j] /\ SameKey(j, m)
      BY <2>1, <2>3 DEF Jobs!InFlight, Jobs!Key
    <3>2. awaited'[m] # None
      BY <1>2, <3>1
    <3>3. \A k \in Mount : k # m => pc'[k] = pc[k] /\ request'[k] = request[k]
      BY <1>2, <1>6, <2>3
    <3> QED BY <1>2, <1>5, <2>3, <3>1, <3>2, <3>3
  <2>4. CASE pc' = [pc EXCEPT ![m] = "starting"] /\ request' = Jobs!Sent(m, "start") /\ UNCHANGED <<awaited, token>>
    <3>1. request'[m] # "subscribe" /\ \A k \in Mount : k # m => pc'[k] = pc[k] /\ request'[k] = request[k]
      BY <1>2, <1>6, <2>4
    <3> QED BY <1>2, <1>5, <2>4, <3>1
  <2> QED BY <1>7, <1>m, <2>2, <2>3, <2>4 DEF Jobs!ReceiveJobs
<1>8. CASE Jobs!ReceiveId(m)
  <2>1. msg.id \in Mount /\ SameKey(msg.id, m)
    BY <1>3, <1>4, <1>8, <1>m, MessageFields DEF Jobs!ReceiveId, MountFits
  <2>2. awaited' = [awaited EXCEPT ![m] = msg.id] /\ pc' = [pc EXCEPT ![m] = "awaiting"] /\ UNCHANGED token
        /\ request' = Jobs!Sent(m, "subscribe")
    BY <1>8, <1>m DEF Jobs!ReceiveId
  <2>3. awaited'[m] # None /\ \A k \in Mount : k # m => pc'[k] = pc[k] /\ request'[k] = request[k]
    BY <1>2, <1>6, <2>1, <2>2
  <2> QED BY <1>2, <1>5, <2>1, <2>2, <2>3
<1>9. CASE Jobs!ReceiveError(m)
  BY <1>2, <1>5, <1>9 DEF Jobs!ReceiveError
<1>10. CASE Jobs!ReceiveEvent(m)
  <2>1. CASE pc[m] = "awaiting" /\ request' = Jobs!Sent(m, "unsubscribe") /\ Jobs!SignedIn(m, awaited[m])
    <3>1. awaited[m] # None /\ backend[awaited[m]] = backend[m] /\ UNCHANGED awaited
      BY <1>4, <1>10, <2>1 DEF MountFits, SameKey, Jobs!ReceiveEvent
    <3>2. request'[m] # "subscribe" /\ \A k \in Mount : k # m => pc'[k] = pc[k] /\ request'[k] = request[k]
      BY <1>2, <1>6, <2>1 DEF Jobs!SignedIn
    <3> QED BY <1>2, <1>5, <2>1, <3>1, <3>2 DEF Jobs!SignedIn, Jobs!MintedAt
  <2>2. CASE request' = Jobs!Sent(m, "unsubscribe") /\ pc' = [pc EXCEPT ![m] = "failed"] /\ UNCHANGED token
    <3>1. request'[m] # "subscribe" /\ \A k \in Mount : k # m => pc'[k] = pc[k] /\ request'[k] = request[k]
      BY <1>2, <1>6, <2>2
    <3> QED BY <1>2, <1>5, <1>10, <2>2, <3>1 DEF Jobs!ReceiveEvent
  <2>3. CASE UNCHANGED <<request, pc, token>>
    BY <1>2, <1>4, <1>5, <1>10, <2>3 DEF Jobs!ReceiveEvent
  <2> QED BY <1>10, <2>1, <2>2, <2>3 DEF Jobs!ReceiveEvent
<1>11. CASE Jobs!ReceiveDisconnect(m)
  BY <1>2, <1>4, <1>5, <1>11 DEF Jobs!ReceiveDisconnect
<1> QED BY <1>7, <1>8, <1>9, <1>10, <1>11 DEF Jobs!Receive

LEMMA KeysStep ==
  ASSUME JobShape, KeysFit, [Jobs!Next]_signIns, Jobs!Assumptions
  PROVE  KeysFit'
<1> USE DEF Jobs!storage, Jobs!worker, Jobs!mounts, Jobs!port
<1>n. None \notin Mount /\ None \notin Backend
  BY DEF Jobs!Assumptions
<1>t. /\ inbox \in [Mount -> Seq(Jobs!PortMessage)] /\ queue \in Seq(Jobs!Continuation) /\ waiting \in Seq(Mount)
      /\ backend \in [Mount -> Backend \cup {None}] /\ awaited \in [Mount -> Mount \cup {None}]
      /\ dedup \in [Backend -> Mount \cup {None}] /\ token \in [Mount -> Backend \cup {None}]
      /\ pc \in [Mount -> {"absent", "listing", "starting", "awaiting", "signedIn", "refused", "failed", "closed"}]
      /\ request \in [Mount -> {"none", "list", "start", "subscribe", "unsubscribe"}]
      /\ jobs \in [Mount -> Jobs!JobStatus] /\ selected \in Backend
  BY DEF JobShape, Jobs!TypeOK, Jobs!Optional
<1>l. Len(waiting) \in Nat /\ DOMAIN waiting = 1..Len(waiting) /\ \A i \in 1..Len(waiting) : waiting[i] \in Mount
  BY <1>t, ElementOfSeq
<1>k. ASSUME UNCHANGED backend
      PROVE  /\ \A c \in Items(queue) : EntryFits(c)'
             /\ \A j \in Items(waiting) \cup runner : Opened(j)'
  BY <1>k DEF KeysFit, EntryFits, SameKey, Opened
<1>1. ASSUME NEW made, DOMAIN made = 1..Len(waiting), made = [i \in 1..Len(waiting) |-> made[i]],
             \A i \in 1..Len(waiting) : made[i] \in Jobs!Continuation /\ made[i].id = waiting[i]
                                        /\ made[i].at \in {"running", "ending"},
             queue' = queue \o made, waiting' = <<>>, UNCHANGED <<dedup, runner, Jobs!port, Jobs!mounts>>
      PROVE  KeysFit'
  <2>1. made \in Seq(Jobs!Continuation) /\ Len(made) = Len(waiting)
    BY <1>1, WaitingQueued
  <2>2. Items(queue') = Items(queue) \cup Items(made)
    <3>1. queue \in Seq(Jobs!Continuation)
      BY <1>t
    <3>2. queue' = queue \o made
      BY <1>1
    <3> QED BY <2>1, <3>1, <3>2, ItemsConcat
  <2>3. \A c \in Items(made) : EntryFits(c)'
    <3> SUFFICES ASSUME NEW i \in 1..Len(waiting)
                 PROVE  EntryFits(made[i])'
      BY <1>1, <2>1 DEF Items
    <3>1. Opened(waiting[i])
      BY DEF KeysFit, Items
    <3> QED BY <1>1, <3>1 DEF EntryFits, Opened
  <2>4. \A m \in Mount : MountFits(m)'
    BY <1>1 DEF KeysFit, MountFits, SameKey, Opened
  <2> QED BY <1>1, <1>k, <2>2, <2>3, <2>4, ItemsEmpty DEF KeysFit
<1>2. CASE Jobs!OffscreenReady
  <2>1. PICK made : made = [i \in 1..Len(waiting) |-> Jobs!Start("running", waiting[i])]
    OBVIOUS
  <2>2. \A i \in 1..Len(waiting) : made[i] \in Jobs!Continuation /\ made[i].id = waiting[i] /\ made[i].at = "running"
    <3> SUFFICES ASSUME NEW i \in 1..Len(waiting)
                 PROVE  made[i] \in Jobs!Continuation /\ made[i].id = waiting[i] /\ made[i].at = "running"
      OBVIOUS
    <3>1. made[i] = Jobs!Start("running", waiting[i])
      BY <2>1
    <3>2. waiting[i] \in Mount /\ "pending" \in Jobs!JobStatus
      BY <1>l DEF Jobs!JobStatus, Jobs!Live
    <3>3. Jobs!Start("running", waiting[i]) \in Jobs!Continuation
      BY <3>2, ContinuationMade
    <3> QED BY <3>1, <3>3 DEF Jobs!Start
  <2>3. queue' = queue \o made /\ waiting' = <<>> /\ UNCHANGED <<dedup, runner, Jobs!port, Jobs!mounts>>
    BY <1>2, <1>l, <2>1 DEF Jobs!OffscreenReady
  <2>4. DOMAIN made = 1..Len(waiting) /\ made = [i \in 1..Len(waiting) |-> made[i]]
    BY <2>1
  <2> QED BY <1>1, <2>2, <2>3, <2>4
<1>3. CASE Jobs!OffscreenFails
  <2>1. PICK made : made = [i \in 1..Len(waiting) |-> Jobs!Ending(waiting[i], "refused")]
    OBVIOUS
  <2>2. \A i \in 1..Len(waiting) : made[i] \in Jobs!Continuation /\ made[i].id = waiting[i] /\ made[i].at = "ending"
    <3> SUFFICES ASSUME NEW i \in 1..Len(waiting)
                 PROVE  made[i] \in Jobs!Continuation /\ made[i].id = waiting[i] /\ made[i].at = "ending"
      OBVIOUS
    <3>1. made[i] = Jobs!Ending(waiting[i], "refused")
      BY <2>1
    <3>2. waiting[i] \in Mount /\ "pending" \in Jobs!JobStatus
      BY <1>l DEF Jobs!JobStatus, Jobs!Live
    <3>3. Jobs!Ending(waiting[i], "refused") \in Jobs!Continuation
      BY <3>2, ContinuationMade
    <3> QED BY <3>1, <3>3 DEF Jobs!Ending, Jobs!End
  <2>3. queue' = queue \o made /\ waiting' = <<>> /\ UNCHANGED <<dedup, runner, Jobs!port, Jobs!mounts>>
    BY <1>3, <1>l, <2>1 DEF Jobs!OffscreenFails
  <2>4. DOMAIN made = 1..Len(waiting) /\ made = [i \in 1..Len(waiting) |-> made[i]]
    BY <2>1
  <2> QED BY <1>1, <2>2, <2>3, <2>4
<1>4. CASE Jobs!Evict
  <2>1. /\ queue' = <<>> /\ waiting' = <<>> /\ runner' \subseteq runner /\ connected' = {}
        /\ request' = [m \in Mount |-> "none"] /\ UNCHANGED <<dedup, pc, backend, awaited, token>>
        /\ inbox' = [m \in Mount |-> IF m \in connected THEN Append(inbox[m], Jobs!DisconnectMsg) ELSE inbox[m]]
    BY <1>4 DEF Jobs!Evict
  <2>2. Jobs!DisconnectMsg \in Jobs!PortMessage /\ Jobs!DisconnectMsg.type # "ack"
    BY MessageMade DEF Jobs!DisconnectMsg
  <2>3. ASSUME NEW m \in Mount
        PROVE  MountFits(m)'
    <3>1. MountFits(m)
      BY DEF KeysFit
    <3>2. Items(Append(inbox[m], Jobs!DisconnectMsg)) = Items(inbox[m]) \cup {Jobs!DisconnectMsg}
      BY <1>t, <2>2, ItemsAppend
    <3>3. request'[m] = "none" /\ (\A msg \in Items(inbox'[m]) : msg.type = "ack" => msg \in Items(inbox[m]))
          /\ (inbox'[m] = inbox[m] \/ m \in connected)
      BY <2>1, <2>2, <3>2
    <3> QED BY <2>1, <3>1, <3>3 DEF MountFits, SameKey, Opened
  <2> QED BY <1>k, <2>1, <2>3, ItemsEmpty DEF KeysFit
<1>5. ASSUME NEW m \in Mount, Jobs!Handle(m)
      PROVE  KeysFit'
  <2>1. UNCHANGED <<dedup, waiting, runner, connected, Jobs!mounts>> /\ request[m] # "none"
        /\ request' = [request EXCEPT ![m] = "none"]
    BY <1>5 DEF Jobs!Handle, Jobs!Admit, Jobs!List, Jobs!Subscribe, Jobs!Unsubscribe
  <2>2. Opened(m) /\ MountFits(m)
    BY <2>1 DEF KeysFit, MountFits
  <2>3. ASSUME UNCHANGED inbox
        PROVE  \A k \in Mount : MountFits(k)'
    BY <1>t, <2>1, <2>3 DEF KeysFit, MountFits, SameKey, Opened
  <2>4. ASSUME NEW c \in Jobs!Continuation, EntryFits(c)', queue' = Append(queue, c)
        PROVE  \A d \in Items(queue') : EntryFits(d)'
    <3>1. Items(queue') = Items(queue) \cup {c}
      BY <1>t, <2>4, ItemsAppend
    <3> QED BY <1>k, <2>1, <2>4, <3>1
  <2>5. CASE Jobs!Admit(m) /\ inbox' = Jobs!Posted(m, Jobs!ErrorMsg) /\ UNCHANGED queue
    <3>1. Jobs!ErrorMsg \in Jobs!PortMessage /\ Jobs!ErrorMsg.type # "ack"
      BY MessageMade DEF Jobs!ErrorMsg
    <3>2. ASSUME NEW k \in Mount
          PROVE  MountFits(k)'
      <4>1. MountFits(k) /\ request'[k] \in {"none", request[k]}
        BY <1>t, <2>1 DEF KeysFit
      <4>2. Items(Append(inbox[k], Jobs!ErrorMsg)) = Items(inbox[k]) \cup {Jobs!ErrorMsg}
        BY <1>t, <3>1, ItemsAppend
      <4>3. inbox'[k] = inbox[k] \/ (k \in connected /\ inbox'[k] = Append(inbox[k], Jobs!ErrorMsg))
        BY <2>5, <3>1, PostedItems
      <4>4. \A msg \in Items(inbox'[k]) : msg.type = "ack" => msg \in Items(inbox[k])
        BY <3>1, <4>2, <4>3
      <4> QED BY <2>1, <4>1, <4>3, <4>4 DEF MountFits, SameKey, Opened
    <3> QED BY <1>k, <2>1, <2>5, <3>2 DEF KeysFit
  <2>6. CASE Jobs!Admit(m) /\ queue' = Append(queue, Jobs!ReadDedup(m)) /\ UNCHANGED inbox
    <3>1. PICK c : c = Jobs!ReadDedup(m)
      OBVIOUS
    <3>2. c \in Jobs!Continuation /\ c.id = m /\ c.at = "dedup" /\ c.saw = dedup[backend[m]]
      BY <2>2, <3>1, ContinuationMade DEF Jobs!ReadDedup, Jobs!Key, Jobs!JobStatus, Jobs!Live
    <3>3. c.saw # None => SameKey(c.saw, m)
      BY <2>2, <3>2 DEF KeysFit, SameKey, Opened
    <3>4. EntryFits(c)'
      BY <2>1, <2>2, <3>2, <3>3 DEF EntryFits, SameKey, Opened
    <3> QED BY <1>k, <2>1, <2>3, <2>4, <2>6, <3>1, <3>2, <3>4 DEF KeysFit
  <2>7. ASSUME NEW c \in Jobs!Continuation, c.id = m, c.at \in {"list", "subscribe"}, queue' = Append(queue, c),
               UNCHANGED inbox
        PROVE  KeysFit'
    <3>1. EntryFits(c)'
      BY <2>1, <2>2, <2>7 DEF EntryFits, Opened
    <3> QED BY <1>k, <2>1, <2>3, <2>4, <2>7, <3>1 DEF KeysFit
  <2>8. CASE Jobs!List(m)
    <3>1. Jobs!ReadAll(m) \in Jobs!Continuation
      BY ContinuationMade DEF Jobs!JobStatus, Jobs!Live
    <3>2. Jobs!ReadAll(m).id = m /\ Jobs!ReadAll(m).at = "list"
      BY DEF Jobs!ReadAll
    <3> QED BY <2>7, <2>8, <3>1, <3>2 DEF Jobs!List
  <2>9. CASE Jobs!Subscribe(m)
    <3>1. Jobs!ReadAwaited(m) \in Jobs!Continuation
      BY <2>2, <2>9, ContinuationMade DEF Jobs!JobStatus, Jobs!Live, Jobs!Subscribe, MountFits
    <3>2. Jobs!ReadAwaited(m).id = m /\ Jobs!ReadAwaited(m).at = "subscribe"
      BY DEF Jobs!ReadAwaited
    <3> QED BY <2>7, <2>9, <3>1, <3>2 DEF Jobs!Subscribe
  <2>10. CASE Jobs!Unsubscribe(m)
    BY <1>k, <2>1, <2>3, <2>10 DEF Jobs!Unsubscribe, KeysFit
  <2> QED BY <1>5, <2>5, <2>6, <2>8, <2>9, <2>10 DEF Jobs!Handle, Jobs!Admit
<1>6. ASSUME NEW m \in Mount, Jobs!Open(m)
      PROVE  KeysFit'
  <2>1. /\ backend' = [backend EXCEPT ![m] = selected] /\ pc' = [pc EXCEPT ![m] = "listing"]
        /\ connected' = connected \cup {m} /\ request' = [request EXCEPT ![m] = "list"]
        /\ UNCHANGED <<dedup, queue, waiting, runner, inbox, awaited, token>>
    BY <1>6 DEF Jobs!Open
  <2>2. /\ pc[m] = "absent" /\ backend[m] = None /\ token[m] = None /\ awaited[m] = None /\ inbox[m] = <<>>
    BY <1>6 DEF Jobs!Open, KeysFit, MountFits
  <2>3. \A j \in Mount \cup {None} : Opened(j) /\ j \in Mount => j # m /\ backend'[j] = backend[j]
    BY <1>n, <1>t, <2>1, <2>2 DEF Opened
  <2>4. \A j \in Mount : Opened(j) => Opened(j)'
    BY <2>3 DEF Opened
  <2>5. \A j \in Mount, k \in Mount : SameKey(j, k) => SameKey(j, k)'
    BY <2>3 DEF SameKey, Opened
  <2>6. MountFits(m)'
    <3>1. pc'[m] = "listing" /\ backend'[m] \in Backend /\ request'[m] = "list"
      BY <1>t, <2>1
    <3> QED BY <2>1, <2>2, <3>1, ItemsEmpty DEF MountFits, Opened
  <2>7. ASSUME NEW k \in Mount, k # m
        PROVE  MountFits(k)'
    <3>1. /\ pc'[k] = pc[k] /\ backend'[k] = backend[k] /\ request'[k] = request[k] /\ MountFits(k)
          /\ k \in connected' <=> k \in connected
      BY <1>t, <2>1, <2>7 DEF KeysFit
    <3>2. \A msg \in Items(inbox[k]) : msg.type = "ack" => SameKey(msg.id, k)'
      <4> SUFFICES ASSUME NEW msg \in Items(inbox[k]), msg.type = "ack"
                   PROVE  SameKey(msg.id, k)'
        OBVIOUS
      <4>1. msg \in Jobs!PortMessage
        BY <1>t, ElementOfSeq DEF Items
      <4> QED BY <2>5, <3>1, <4>1, MessageFields DEF MountFits
    <3>3. awaited[k] # None => SameKey(awaited[k], k)'
      BY <1>t, <2>1, <2>5, <3>1 DEF MountFits
    <3> QED BY <2>1, <2>7, <3>1, <3>2, <3>3 DEF MountFits, SameKey, Opened
  <2>8. \A b \in Backend : dedup[b] # None => backend'[dedup[b]] = b
    BY <1>t, <2>3 DEF KeysFit, Opened
  <2>9. \A c \in Items(queue) : EntryFits(c)'
    <3> SUFFICES ASSUME NEW c \in Items(queue)
                 PROVE  EntryFits(c)'
      OBVIOUS
    <3>1. c \in Jobs!Continuation /\ EntryFits(c)
      BY <1>t, ElementOfSeq DEF Items, KeysFit
    <3> QED BY <2>4, <2>5, <3>1, ContinuationFields DEF EntryFits
  <2>10. \A j \in Items(waiting) \cup runner : Opened(j)'
    <3>1. Items(waiting) \cup runner \subseteq Mount
      BY <1>l DEF Items, JobShape, Jobs!TypeOK
    <3> QED BY <2>4, <3>1 DEF KeysFit
  <2> QED BY <2>1, <2>6, <2>7, <2>8, <2>9, <2>10 DEF KeysFit
<1>7. ASSUME NEW m \in Mount, Jobs!Close(m)
      PROVE  KeysFit'
  <2>1. /\ pc' = [pc EXCEPT ![m] = "closed"] /\ connected' = connected \ {m}
        /\ request' = [request EXCEPT ![m] = "none"] /\ inbox' = [inbox EXCEPT ![m] = <<>>]
        /\ awaited' = [awaited EXCEPT ![m] = None] /\ token' = [token EXCEPT ![m] = None]
        /\ UNCHANGED <<dedup, queue, waiting, runner, backend>> /\ pc[m] # "absent"
    BY <1>7 DEF Jobs!Close
  <2>2. MountFits(m)'
    <3>1. pc'[m] = "closed" /\ request'[m] = "none" /\ inbox'[m] = <<>> /\ awaited'[m] = None /\ token'[m] = None
      BY <1>t, <2>1
    <3>2. Opened(m)
      BY <2>1 DEF KeysFit, MountFits
    <3> QED BY <2>1, <3>1, <3>2, ItemsEmpty DEF MountFits, Opened
  <2>3. ASSUME NEW k \in Mount, k # m
        PROVE  MountFits(k)'
    <3>1. /\ pc'[k] = pc[k] /\ request'[k] = request[k] /\ inbox'[k] = inbox[k] /\ awaited'[k] = awaited[k]
          /\ token'[k] = token[k] /\ (k \in connected' <=> k \in connected) /\ MountFits(k)
      BY <1>t, <2>1, <2>3 DEF KeysFit
    <3> QED BY <2>1, <3>1 DEF MountFits, SameKey, Opened
  <2> QED BY <1>k, <2>1, <2>2, <2>3 DEF KeysFit
<1>8. ASSUME NEW m \in Mount, m \in runner, NEW c \in Jobs!Continuation, c.id = m, c.at \in {"progress", "ending"},
             queue' = Append(queue, c), runner' \subseteq runner, UNCHANGED <<dedup, waiting, Jobs!port, Jobs!mounts>>
      PROVE  KeysFit'
  <2>1. Items(queue') = Items(queue) \cup {c}
    BY <1>t, <1>8, ItemsAppend
  <2>2. EntryFits(c)'
    BY <1>8 DEF KeysFit, EntryFits, Opened
  <2>3. \A k \in Mount : MountFits(k)'
    BY <1>8 DEF KeysFit, MountFits, SameKey, Opened
  <2> QED BY <1>k, <1>8, <2>1, <2>2, <2>3 DEF KeysFit
<1>9. ASSUME NEW m \in Mount, Jobs!ReportProgress(m)
      PROVE  KeysFit'
  <2>1. PICK c : c = Jobs!Progress("progress", m, jobs[m])
    OBVIOUS
  <2>2. c \in Jobs!Continuation /\ c.id = m /\ c.at = "progress"
    BY <1>t, <2>1, ContinuationMade DEF Jobs!Progress
  <2> QED BY <1>8, <1>9, <2>1, <2>2 DEF Jobs!ReportProgress
<1>10. ASSUME NEW m \in Mount, Jobs!ReportEnd(m)
       PROVE  KeysFit'
  <2>1. PICK to \in Jobs!Finished : queue' = Append(queue, Jobs!Ending(m, to))
    BY <1>10 DEF Jobs!ReportEnd
  <2>2. PICK c : c = Jobs!Ending(m, to)
    OBVIOUS
  <2>3. c \in Jobs!Continuation /\ c.id = m /\ c.at = "ending"
    BY <1>t, <2>1, <2>2, ContinuationMade DEF Jobs!Ending, Jobs!End, Jobs!Finished
  <2> QED BY <1>8, <1>10, <2>1, <2>2, <2>3 DEF Jobs!ReportEnd
<1>11. ASSUME UNCHANGED <<dedup, queue, waiting, runner, Jobs!port, Jobs!mounts>>
       PROVE  KeysFit'
  BY <1>k, <1>11 DEF KeysFit, MountFits, SameKey, Opened
<1>12. ASSUME NEW m \in Mount, Jobs!Age(m) \/ Jobs!Collect(m)
       PROVE  KeysFit'
  BY <1>11, <1>12 DEF Jobs!Age, Jobs!Collect
<1>13. ASSUME NEW b \in Backend, Jobs!Switch(b)
       PROVE  KeysFit'
  BY <1>11, <1>13 DEF Jobs!Switch
<1>14. CASE UNCHANGED signIns
  BY <1>11, <1>14 DEF signIns
<1> QED BY <1>2, <1>3, <1>4, <1>5, <1>6, <1>7, <1>9, <1>10, <1>12, <1>13, <1>14, <1>n, ContinueKeys, ReceiveKeys
        DEF Jobs!Next

LEMMA OrderlyTail ==
  ASSUME NEW S, NEW q \in Seq(S), q # <<>>, Orderly(q)
  PROVE  Orderly(Tail(q)) /\ \A d \in Items(Tail(q)) : Apart(Head(q), d)
<1>1. /\ Len(Tail(q)) = Len(q) - 1 /\ Len(q) \in Nat \ {0} /\ Head(q) = q[1]
      /\ \A i \in 1..(Len(q) - 1) : Tail(q)[i] = q[i + 1]
  BY ItemsTail, HeadTailProperties
<1>2. ASSUME NEW k \in 1..Len(Tail(q)), NEW i \in 1..(k - 1)
      PROVE  Apart(Tail(q)[i], Tail(q)[k])
  <2>1. k + 1 \in 1..Len(q) /\ i + 1 \in 1..((k + 1) - 1) /\ Tail(q)[k] = q[k + 1] /\ Tail(q)[i] = q[i + 1]
    BY <1>1
  <2> QED BY <2>1 DEF Orderly
<1>3. ASSUME NEW k \in 1..Len(Tail(q))
      PROVE  Apart(Head(q), Tail(q)[k])
  <2>1. k + 1 \in 1..Len(q) /\ 1 \in 1..((k + 1) - 1) /\ Tail(q)[k] = q[k + 1]
    BY <1>1
  <2> QED BY <1>1, <2>1 DEF Orderly
<1> QED BY <1>2, <1>3 DEF Orderly, Items

LEMMA OrderlyAppend ==
  ASSUME NEW S, NEW q \in Seq(S), NEW c \in S, Orderly(q), \A d \in Items(q) : Apart(d, c)
  PROVE  Orderly(Append(q, c))
<1>1. /\ Len(Append(q, c)) = Len(q) + 1 /\ Len(q) \in Nat /\ Append(q, c)[Len(q) + 1] = c
      /\ \A i \in 1..Len(q) : Append(q, c)[i] = q[i]
  BY ItemsAppend
<1>2. ASSUME NEW k \in 1..(Len(q) + 1), NEW i \in 1..(k - 1)
      PROVE  Apart(Append(q, c)[i], Append(q, c)[k])
  <2>1. i \in 1..Len(q) /\ Append(q, c)[i] = q[i] /\ q[i] \in Items(q)
    BY <1>1 DEF Items
  <2>2. CASE k = Len(q) + 1
    BY <1>1, <2>1, <2>2
  <2>3. CASE k # Len(q) + 1
    <3>1. k \in 1..Len(q) /\ Append(q, c)[k] = q[k]
      BY <1>1, <2>3
    <3> QED BY <2>1, <3>1 DEF Orderly
  <2> QED BY <2>2, <2>3
<1> QED BY <1>1, <1>2 DEF Orderly

LEMMA OrderlyConcat ==
  ASSUME NEW S, NEW q \in Seq(S), NEW r \in Seq(S), Orderly(q), Orderly(r),
         \A d \in Items(q), e \in Items(r) : Apart(d, e)
  PROVE  Orderly(q \o r)
<1>1. Len(q) \in Nat /\ Len(r) \in Nat /\ Len(q \o r) = Len(q) + Len(r)
  BY LenProperties, ConcatProperties
<1>2. \A i \in 1..(Len(q) + Len(r)) : (q \o r)[i] = IF i <= Len(q) THEN q[i] ELSE r[i - Len(q)]
  BY ConcatProperties
<1>3. ASSUME NEW k \in 1..(Len(q) + Len(r)), NEW i \in 1..(k - 1)
      PROVE  Apart((q \o r)[i], (q \o r)[k])
  <2>1. i \in 1..(Len(q) + Len(r))
    BY <1>1
  <2>2. CASE k <= Len(q)
    <3>1. k \in 1..Len(q) /\ i <= Len(q)
      BY <1>1, <2>2
    <3> QED BY <1>2, <2>1, <3>1 DEF Orderly
  <2>3. CASE ~(k <= Len(q)) /\ i <= Len(q)
    <3>1. k - Len(q) \in 1..Len(r) /\ i \in 1..Len(q)
      BY <1>1, <2>3
    <3>2. q[i] \in Items(q) /\ r[k - Len(q)] \in Items(r)
      BY <3>1 DEF Items
    <3> QED BY <1>2, <2>1, <2>3, <3>2
  <2>4. CASE ~(k <= Len(q)) /\ ~(i <= Len(q))
    <3>1. k - Len(q) \in 1..Len(r) /\ i - Len(q) \in 1..((k - Len(q)) - 1)
      BY <1>1, <2>4
    <3> QED BY <1>2, <2>1, <2>4, <3>1 DEF Orderly
  <2> QED BY <2>2, <2>3, <2>4
<1> QED BY <1>1, <1>3 DEF Orderly

(* What keeps a continuation standing, and a mount.                         *)
LEMMA EntryStays ==
  ASSUME NEW c, EntryStands(c), pc'[c.id] = pc[c.id], request'[c.id] = request[c.id],
         c.at \in Starts \cup Reports =>
           /\ jobs'[c.id] = jobs[c.id]
           /\ c.id \in aged' => c.id \in aged
           /\ c.id \in Items(waiting') => c.id \in Items(waiting)
           /\ c.id \in runner' => c.id \in runner,
         c.at = "list" /\ pc[c.id] = "listing" => inbox'[c.id] = inbox[c.id]
  PROVE  EntryStands(c)'
<1>1. CASE c.at \in Starts \cup Reports
  BY <1>1 DEF EntryStands, Held, Claimed, Past, Starts, Begins, Reports
<1>2. CASE c.at \notin Starts \cup Reports
  BY <1>2 DEF EntryStands, Past, Starts, Begins, Reports
<1> QED BY <1>1, <1>2

LEMMA MountStays ==
  ASSUME JobShape, JobShape', NEW m \in Mount, MountStands(m),
         pc'[m] = pc[m], request'[m] \in {request[m], "none"}, m \in connected' => m \in connected,
         m \in aged' => m \in aged, m \in subs' => m \in subs,
         jobs'[m] = jobs[m] \/ Claimed(m),
         \/ inbox'[m] = inbox[m]
         \/ /\ m \in connected /\ pc[m] # "listing"
            /\ \A msg \in Items(inbox'[m]) : msg \in Items(inbox[m]) \/ msg.type # "jobs"
  PROVE  MountStands(m)'
<1>1. /\ pc'[m] = "closed" => inbox'[m] = <<>>
      /\ pc'[m] = "listing" => \A msg \in Items(inbox'[m]) : msg.type \in {"jobs", "disconnect"}
      /\ pc'[m] # "listing" => \A msg \in Items(inbox'[m]) : msg.type # "jobs"
  BY DEF MountStands
<1>2. ASSUME NEW i \in 2..Len(inbox'[m])
      PROVE  inbox'[m][i].type # "jobs"
  <2>1. CASE inbox'[m] = inbox[m]
    BY <2>1 DEF MountStands
  <2>2. CASE pc[m] # "listing"
    <3>1. Len(inbox'[m]) \in Nat
      BY DEF JobShape, Jobs!TypeOK
    <3>2. inbox'[m][i] \in Items(inbox'[m])
      BY <3>1 DEF Items
    <3> QED BY <1>1, <2>2, <3>2
  <2> QED BY <2>1, <2>2
<1>3. ~Claimed(m)' => jobs'[m] = "absent" /\ m \notin aged'
  BY DEF MountStands, Claimed, Past
<1> QED BY <1>1, <1>2, <1>3 DEF MountStands, Past

(* A continuation of the worker leaves its own job standing, and the others *)
(* alone.                                                                   *)
LEMMA ContinueStands ==
  ASSUME JobShape, JobShape', KeysFit, JobsStand, Jobs!Continue
  PROVE  JobsStand'
<1> USE DEF Jobs!storage, Jobs!mounts, Jobs!port, Jobs!Answered, Jobs!Then, Jobs!Return
<1>1. queue # <<>> /\ UNCHANGED <<pc, connected, request, aged, subs, awaited>>
  BY DEF Jobs!Continue, Jobs!DedupRead, Jobs!ExistingRead, Jobs!StaleCleared, Jobs!Allocated, Jobs!Mapped,
         Jobs!HandOver, Jobs!ProgressRead, Jobs!Progressed, Jobs!EndRead, Jobs!Ended, Jobs!Released,
         Jobs!Listed, Jobs!SubscribeRead
<1> DEFINE rest == Tail(queue)
<1>c. PICK c : c = Head(queue)
  OBVIOUS
<1>2. /\ c = Head(queue) /\ c \in Jobs!Continuation /\ c.id \in Mount /\ Jobs!It = c.id /\ Jobs!Saw = c.saw
      /\ queue \in Seq(Jobs!Continuation) /\ rest \in Seq(Jobs!Continuation)
      /\ inbox \in [Mount -> Seq(Jobs!PortMessage)] /\ waiting \in Seq(Mount) /\ runner \subseteq Mount
      /\ jobs \in [Mount -> Jobs!JobStatus] /\ Len(waiting) \in Nat
  BY <1>1, <1>c, HeadType DEF Jobs!It, Jobs!Saw, JobShape, Jobs!TypeOK
<1>3. Items(queue) = {c} \cup Items(rest) /\ Orderly(rest) /\ \A d \in Items(rest) : Apart(c, d)
  BY <1>1, <1>2, ItemsTail, OrderlyTail DEF JobsStand
<1>4. EntryStands(c) /\ \A d \in Items(rest) : EntryStands(d) /\ d \in Jobs!Continuation /\ d.id \in Mount
  <2>1. \A d \in Items(rest) : d \in Jobs!Continuation
    BY <1>2, ElementOfSeq DEF Items
  <2> QED BY <1>3, <2>1, ContinuationFields DEF JobsStand
<1>5. \A m \in Mount : MountStands(m)
  BY DEF JobsStand
<1>6. ASSUME /\ \/ UNCHANGED <<jobs, waiting, runner>>
                \/ /\ c.at \in Starts \cup {"ending"}
                   /\ \A j \in Mount : j # c.id => jobs'[j] = jobs[j]
                   /\ \/ UNCHANGED waiting
                      \/ waiting' = Append(waiting, c.id) /\ jobs'[c.id] = "pending" /\ UNCHANGED runner
                   /\ \/ UNCHANGED runner
                      \/ runner' = runner \cup {c.id} /\ jobs'[c.id] = "running" /\ UNCHANGED waiting,
             \A m \in Mount : MountStands(m)',
             \A d \in Items(rest) : d.at = "list" /\ pc[d.id] = "listing" => inbox'[d.id] = inbox[d.id],
             \/ queue' = rest
             \/ \E d \in Jobs!Continuation :
                  /\ queue' = Append(rest, d) /\ d.id = c.id /\ EntryStands(d)'
                  /\ d.at \notin Starts \cup Reports \cup {"list"} \/ (d.at \in Starts /\ c.at \in Starts)
      PROVE  JobsStand'
  <2>1. c.at \in Starts \cup {"ending"} => Held(c.id) /\ c.id \notin Items(waiting) /\ c.id \notin runner
    BY <1>4 DEF EntryStands, Starts, Begins, Reports
  <2>2. /\ Items(waiting') \subseteq Items(waiting) \cup {c.id}
        /\ waiting' # waiting => c.at \in Starts \cup {"ending"} /\ Items(waiting') = Items(waiting) \cup {c.id}
    <3>1. CASE UNCHANGED waiting
      BY <3>1
    <3>2. CASE waiting' = Append(waiting, c.id) /\ c.at \in Starts \cup {"ending"}
      BY <1>2, <3>2, ItemsAppend
    <3> QED BY <1>6, <3>1, <3>2
  <2>3. ASSUME NEW d \in Items(rest)
        PROVE  EntryStands(d)'
    <3>1. d.at \in Starts \cup Reports =>
            /\ jobs'[d.id] = jobs[d.id]
            /\ d.id \in aged' => d.id \in aged
            /\ d.id \in Items(waiting') => d.id \in Items(waiting)
            /\ d.id \in runner' => d.id \in runner
      <4>1. CASE UNCHANGED <<jobs, waiting, runner>>
        BY <1>1, <4>1
      <4>2. CASE c.at \in Starts \cup {"ending"} /\ d.at \in Starts \cup Reports
        <5>1. d.id # c.id
          BY <1>3, <4>2 DEF Apart, Starts, Begins, Reports
        <5> QED BY <1>1, <1>4, <1>6, <2>2, <5>1
      <4> QED BY <1>6, <4>1, <4>2
    <3> QED BY <1>1, <1>4, <1>6, <3>1, EntryStays
  <2>4. Orderly(queue') /\ \A d \in Items(queue') : EntryStands(d)'
    <3>1. CASE queue' = rest
      BY <1>3, <2>3, <3>1
    <3>2. ASSUME NEW d \in Jobs!Continuation, queue' = Append(rest, d), d.id = c.id, EntryStands(d)',
                 d.at \notin Starts \cup Reports \cup {"list"} \/ (d.at \in Starts /\ c.at \in Starts)
          PROVE  Orderly(queue') /\ \A e \in Items(queue') : EntryStands(e)'
      <4>1. \A e \in Items(rest) : Apart(e, d)
        BY <1>3, <3>2 DEF Apart, Starts, Begins, Reports
      <4> HIDE DEF rest
      <4>2. Items(queue') = Items(rest) \cup {d} /\ Orderly(queue')
        BY <1>2, <1>3, <3>2, <4>1, ItemsAppend, OrderlyAppend
      <4> QED BY <2>3, <3>2, <4>2
    <3> QED BY <1>6, <3>1, <3>2
  <2>5. \A j \in Mount : Held(j)' <=> Held(j)
    BY <1>1 DEF Held, Claimed, Past
  <2>6. Items(waiting) \subseteq Mount
    BY <1>2, ElementOfSeq DEF Items
  <2>7. \A j \in Items(waiting') : jobs'[j] = "pending" /\ Held(j)' /\ j \notin runner'
    <3> SUFFICES ASSUME NEW j \in Items(waiting')
                 PROVE  jobs'[j] = "pending" /\ Held(j)' /\ j \notin runner'
      OBVIOUS
    <3>1. CASE j \in Items(waiting)
      <4>1. jobs[j] = "pending" /\ Held(j) /\ j \notin runner /\ j \in Mount
        BY <2>6, <3>1 DEF JobsStand
      <4> QED BY <1>6, <2>1, <2>5, <3>1, <4>1
    <3>2. CASE j \notin Items(waiting)
      <4>1. j = c.id /\ waiting' # waiting
        BY <2>2, <3>2
      <4> QED BY <1>2, <1>6, <2>1, <2>2, <2>5, <4>1
    <3> QED BY <3>1, <3>2
  <2>8. \A i, k \in 1..Len(waiting') : waiting'[i] = waiting'[k] => i = k
    <3>1. CASE waiting' = waiting
      BY <3>1 DEF JobsStand
    <3>2. CASE waiting' = Append(waiting, c.id) /\ c.id \notin Items(waiting)
      <4>1. /\ Len(waiting') = Len(waiting) + 1 /\ waiting'[Len(waiting) + 1] = c.id
            /\ \A i \in 1..Len(waiting) : waiting'[i] = waiting[i]
        BY <1>2, <3>2, ItemsAppend
      <4>2. \A i \in 1..Len(waiting) : waiting[i] # c.id
        BY <3>2 DEF Items
      <4>3. \A i \in 1..(Len(waiting) + 1) : i \in 1..Len(waiting) \/ i = Len(waiting) + 1
        BY <1>2
      <4>4. \A i, k \in 1..Len(waiting) : waiting[i] = waiting[k] => i = k
        BY DEF JobsStand
      <4> QED BY <4>1, <4>2, <4>3, <4>4
    <3> QED BY <1>6, <2>1, <2>2, <3>1, <3>2
  <2>9. \A j \in runner' : jobs'[j] = "running" /\ Held(j)'
    <3> SUFFICES ASSUME NEW j \in runner'
                 PROVE  jobs'[j] = "running" /\ Held(j)'
      OBVIOUS
    <3>1. CASE j \in runner
      <4>1. jobs[j] = "running" /\ Held(j) /\ j \in Mount
        BY <1>2, <3>1 DEF JobsStand
      <4> QED BY <1>6, <2>1, <2>5, <3>1, <4>1
    <3>2. CASE j \notin runner
      BY <1>2, <1>6, <2>1, <2>5, <3>2
    <3> QED BY <3>1, <3>2
  <2> QED BY <1>6, <2>4, <2>7, <2>8, <2>9 DEF JobsStand
<1>7. ASSUME UNCHANGED jobs \/ (c.at \in Starts \cup {"ending"} /\ \A j \in Mount : j # c.id => jobs'[j] = jobs[j]),
             \A m \in Mount :
               \/ inbox'[m] = inbox[m]
               \/ /\ m \in connected /\ pc[m] # "listing"
                  /\ \A msg \in Items(inbox'[m]) : msg \in Items(inbox[m]) \/ msg.type # "jobs"
      PROVE  /\ \A m \in Mount : MountStands(m)'
             /\ \A d \in Items(rest) : d.at = "list" /\ pc[d.id] = "listing" => inbox'[d.id] = inbox[d.id]
  <2>1. c.at \in Starts \cup {"ending"} => Claimed(c.id)
    BY <1>4 DEF EntryStands, Starts, Begins, Reports, Held
  <2> QED BY <1>1, <1>4, <1>5, <1>7, <2>1, MountStays
<1>8. ASSUME NEW m \in Mount, NEW msg \in Jobs!PortMessage, msg.type # "jobs", inbox'[m] = Append(inbox[m], msg)
      PROVE  \A e \in Items(inbox'[m]) : e \in Items(inbox[m]) \/ e.type # "jobs"
  <2>1. Items(inbox'[m]) = Items(inbox[m]) \cup {msg}
    BY <1>2, <1>8, ItemsAppend
  <2> QED BY <1>8, <2>1
<1>9. ASSUME NEW s \in Jobs!JobStatus, inbox' = Jobs!Pushed(c.id, s)
      PROVE  \A m \in Mount :
               \/ inbox'[m] = inbox[m]
               \/ /\ m \in connected /\ pc[m] # "listing"
                  /\ \A msg \in Items(inbox'[m]) : msg \in Items(inbox[m]) \/ msg.type # "jobs"
  <2>1. Jobs!EventMsg(s) \in Jobs!PortMessage /\ Jobs!EventMsg(s).type # "jobs"
    BY MessageMade DEF Jobs!EventMsg
  <2>2. \A m \in subs \cap Mount : pc[m] # "listing"
    BY <1>5 DEF MountStands, Past
  <2> QED BY <1>8, <1>9, <2>1, <2>2, PushedItems
<1>10. ASSUME NEW msg \in Jobs!PortMessage, msg.type # "jobs", Past(c.id), inbox' = Jobs!Posted(c.id, msg)
       PROVE  \A m \in Mount :
               \/ inbox'[m] = inbox[m]
               \/ /\ m \in connected /\ pc[m] # "listing"
                  /\ \A e \in Items(inbox'[m]) : e \in Items(inbox[m]) \/ e.type # "jobs"
  <2> SUFFICES ASSUME NEW m \in Mount
               PROVE  \/ inbox'[m] = inbox[m]
                      \/ /\ m \in connected /\ pc[m] # "listing"
                         /\ \A e \in Items(inbox'[m]) : e \in Items(inbox[m]) \/ e.type # "jobs"
    OBVIOUS
  <2>1. c.id \in Mount
    BY <1>2
  <2>2. IF m = c.id /\ c.id \in connected THEN inbox'[m] = Append(inbox[m], msg) ELSE inbox'[m] = inbox[m]
    BY <1>2, <1>10, <2>1, PostedItems
  <2>3. CASE m = c.id /\ c.id \in connected
    <3>1. pc[m] # "listing"
      BY <1>10, <2>3 DEF Past
    <3> QED BY <1>8, <1>10, <2>2, <2>3, <3>1
  <2>4. CASE ~(m = c.id /\ c.id \in connected)
    BY <2>2, <2>4
  <2> QED BY <2>3, <2>4
<1>11. c.at # "list" => Past(c.id)
  BY <1>4 DEF EntryStands
<1>12. ASSUME NEW d, d.id = c.id, d.at \notin Starts \cup Reports \cup {"list"}, c.at # "list"
       PROVE  EntryStands(d)'
  BY <1>1, <1>11, <1>12 DEF EntryStands, Starts, Begins, Reports, Past
<1>13. c.at \in Starts => Held(c.id)' /\ c.id \notin Items(waiting) /\ c.id \notin runner
  BY <1>1, <1>4 DEF EntryStands, Starts, Begins, Reports, Held, Claimed, Past
<1>s. {"absent", "pending", "running", "done", "error"} \subseteq Jobs!JobStatus
  BY DEF Jobs!JobStatus, Jobs!Live, Jobs!Finished
<1>14. ASSUME NEW at, at \in {"allocated", "mapped", "running", "cleared"}
       PROVE  /\ Jobs!Start(at, c.id) \in Jobs!Continuation
              /\ Jobs!Start(at, c.id).id = c.id /\ Jobs!Start(at, c.id).at = at /\ at \in Starts
  <2>1. Jobs!Start(at, c.id) \in Jobs!Continuation
    BY <1>2, <1>s, <1>14, ContinuationMade
  <2> QED BY <1>14, <2>1 DEF Jobs!Start, Starts, Begins

<1>15. ASSUME NEW at, at \in {"allocated", "mapped", "running", "cleared"}, c.at \in Starts,
              queue' = Append(rest, Jobs!Start(at, c.id)), UNCHANGED <<waiting, runner, inbox>>,
              \A j \in Mount : j # c.id => jobs'[j] = jobs[j],
              jobs'[c.id] = CASE at = "cleared" -> "absent" [] at = "running" -> "running" [] OTHER -> "pending"
       PROVE  JobsStand'
  <2>1. EntryStands(Jobs!Start(at, c.id))'
    BY <1>1, <1>11, <1>13, <1>14, <1>15 DEF EntryStands, Starts, Begins, Reports, Past
  <2>2. /\ \A m \in Mount : MountStands(m)'
        /\ \A d \in Items(rest) : d.at = "list" /\ pc[d.id] = "listing" => inbox'[d.id] = inbox[d.id]
    BY <1>7, <1>15
  <2> QED BY <1>6, <1>14, <1>15, <2>1, <2>2
<1>16. ASSUME Jobs!Allocate(c.id), UNCHANGED <<waiting, runner, inbox>>, c.at \in Starts
       PROVE  JobsStand'
  BY <1>2, <1>15, <1>16 DEF Jobs!Allocate
<1>17. CASE Jobs!DedupRead
  <2>1. c.at = "dedup" /\ c.at \in Starts /\ UNCHANGED <<waiting, runner, inbox>>
    BY <1>2, <1>17 DEF Jobs!DedupRead, Starts, Begins
  <2>2. CASE Jobs!Allocate(c.id)
    BY <1>16, <2>1, <2>2
  <2>3. CASE c.saw # None /\ queue' = Append(rest, Jobs!ReadExisting(c.id, c.saw)) /\ UNCHANGED jobs
    <3>1. PICK d : d = Jobs!ReadExisting(c.id, c.saw)
      OBVIOUS
    <3>2. d \in Jobs!Continuation /\ d.id = c.id /\ d.at = "existing"
      <4>1. c.saw \in Mount
        BY <1>2, <2>1, <2>3, ContinuationFields
      <4>2. Jobs!ReadExisting(c.id, c.saw) \in Jobs!Continuation
        BY <1>2, <1>s, <4>1, ContinuationMade
      <4> QED BY <3>1, <4>2 DEF Jobs!ReadExisting
    <3>3. jobs[c.id] = "absent"
      BY <1>4, <2>1 DEF EntryStands, Begins
    <3>4. EntryStands(d)'
      BY <1>1, <1>11, <1>13, <2>1, <2>3, <3>2, <3>3 DEF EntryStands, Starts, Begins, Reports, Past
    <3>5. /\ \A m \in Mount : MountStands(m)'
          /\ \A e \in Items(rest) : e.at = "list" /\ pc[e.id] = "listing" => inbox'[e.id] = inbox[e.id]
      BY <1>7, <2>1, <2>3
    <3> QED BY <1>6, <2>1, <2>3, <3>1, <3>2, <3>4, <3>5 DEF Starts, Begins
  <2> QED BY <1>2, <1>17, <2>2, <2>3 DEF Jobs!DedupRead
<1>18. CASE Jobs!ExistingRead
  <2>1. c.at = "existing" /\ c.at \in Starts /\ UNCHANGED <<jobs, waiting, runner>>
    BY <1>2, <1>18 DEF Jobs!ExistingRead, Starts, Begins
  <2>2. CASE inbox' = Jobs!Posted(c.id, Jobs!AckMsg(c.existing)) /\ queue' = rest
    <3>1. Jobs!AckMsg(c.existing) \in Jobs!PortMessage /\ Jobs!AckMsg(c.existing).type # "jobs"
      BY <1>2, <2>1, ContinuationFields, MessageMade DEF Jobs!AckMsg
    <3>2. Past(c.id)
      BY <1>11, <2>1
    <3> QED BY <1>6, <1>7, <1>10, <2>1, <2>2, <3>1, <3>2
  <2>3. CASE queue' = Append(rest, Jobs!Start("cleared", c.id)) /\ UNCHANGED inbox
    <3>1. jobs[c.id] = "absent"
      BY <1>4, <2>1 DEF EntryStands, Begins
    <3> QED BY <1>15, <2>1, <2>3, <3>1
  <2> QED BY <1>2, <1>18, <2>2, <2>3 DEF Jobs!ExistingRead
<1>19. CASE Jobs!StaleCleared
  <2>1. c.at = "cleared" /\ c.at \in Starts /\ UNCHANGED <<waiting, runner, inbox>> /\ Jobs!Allocate(c.id)
    BY <1>2, <1>19 DEF Jobs!StaleCleared, Starts, Begins
  <2> QED BY <1>16, <2>1
<1>20. CASE Jobs!Allocated
  <2>1. /\ c.at = "allocated" /\ c.at \in Starts /\ UNCHANGED <<jobs, waiting, runner>>
        /\ inbox' = Jobs!Pushed(c.id, "pending") /\ queue' = Append(rest, Jobs!Start("mapped", c.id))
    BY <1>2, <1>20 DEF Jobs!Allocated, Starts
  <2>2. jobs[c.id] = "pending"
    BY <1>4, <2>1 DEF EntryStands
  <2>3. EntryStands(Jobs!Start("mapped", c.id))'
    BY <1>1, <1>11, <1>13, <1>14, <2>1, <2>2 DEF EntryStands, Starts, Begins, Reports, Past
  <2>4. /\ \A m \in Mount : MountStands(m)'
        /\ \A d \in Items(rest) : d.at = "list" /\ pc[d.id] = "listing" => inbox'[d.id] = inbox[d.id]
    BY <1>7, <1>9, <1>s, <2>1
  <2> QED BY <1>6, <1>14, <2>1, <2>3, <2>4
<1>21. CASE Jobs!Mapped
  <2>1. c.at = "mapped" /\ c.at \in Starts /\ UNCHANGED <<inbox, runner>>
    BY <1>2, <1>21 DEF Jobs!Mapped, Starts
  <2>2. jobs[c.id] = "pending"
    BY <1>4, <2>1 DEF EntryStands
  <2>3. CASE waiting' = Append(waiting, c.id) /\ queue' = rest /\ UNCHANGED jobs
    BY <1>6, <1>7, <2>1, <2>2, <2>3
  <2>4. CASE jobs' = [jobs EXCEPT ![c.id] = "running"] /\ UNCHANGED waiting
             /\ queue' = Append(rest, Jobs!Start("running", c.id))
    BY <1>2, <1>15, <2>1, <2>4
  <2> QED BY <1>2, <1>21, <2>3, <2>4 DEF Jobs!Mapped
<1>22. CASE Jobs!HandOver
  <2> DEFINE pushed == Jobs!Pushed(c.id, "running")
  <2>1. /\ c.at = "running" /\ c.at \in Starts /\ UNCHANGED <<jobs, waiting>> /\ runner' = runner \cup {c.id}
        /\ queue' = rest
        /\ inbox' = [pushed EXCEPT ![c.id] = IF c.id \in connected THEN Append(@, Jobs!AckMsg(c.id)) ELSE @]
    BY <1>2, <1>22 DEF Jobs!HandOver, Starts
  <2>2. jobs[c.id] = "running" /\ pc[c.id] # "listing"
    BY <1>4, <2>1 DEF EntryStands, Past
  <2>3. pushed \in [Mount -> Seq(Jobs!PortMessage)]
    BY <1>s, PushedType
  <2>4. Jobs!AckMsg(c.id) \in Jobs!PortMessage /\ Jobs!AckMsg(c.id).type # "jobs"
    BY <1>2, MessageMade DEF Jobs!AckMsg
  <2>5. Jobs!EventMsg("running") \in Jobs!PortMessage /\ Jobs!EventMsg("running").type # "jobs"
    BY <1>s, MessageMade DEF Jobs!EventMsg
  <2>6. ASSUME NEW m \in Mount
        PROVE  \/ inbox'[m] = inbox[m]
               \/ /\ m \in connected /\ pc[m] # "listing"
                  /\ \A msg \in Items(inbox'[m]) : msg \in Items(inbox[m]) \/ msg.type # "jobs"
    <3>1. \/ pushed[m] = inbox[m]
          \/ m \in connected /\ pc[m] # "listing" /\ pushed[m] = Append(inbox[m], Jobs!EventMsg("running"))
      BY <1>5, PushedItems DEF MountStands, Past
    <3>2. Items(Append(inbox[m], Jobs!EventMsg("running"))) = Items(inbox[m]) \cup {Jobs!EventMsg("running")}
      BY <1>2, <2>5, ItemsAppend
    <3> HIDE DEF pushed
    <3>3. CASE m = c.id /\ m \in connected
      <4>1. inbox'[m] = Append(pushed[m], Jobs!AckMsg(c.id)) /\ pushed[m] \in Seq(Jobs!PortMessage)
        BY <2>1, <2>3, <3>3
      <4>2. Items(inbox'[m]) = Items(pushed[m]) \cup {Jobs!AckMsg(c.id)}
        BY <2>4, <4>1, ItemsAppend
      <4> QED BY <2>2, <2>4, <2>5, <3>1, <3>2, <3>3, <4>2
    <3>4. CASE ~(m = c.id /\ m \in connected)
      <4>1. inbox'[m] = pushed[m]
        BY <2>1, <2>3, <3>4
      <4> QED BY <2>5, <3>1, <3>2, <4>1
    <3> QED BY <3>3, <3>4
  <2> HIDE DEF pushed
  <2>7. /\ \A m \in Mount : MountStands(m)'
        /\ \A d \in Items(rest) : d.at = "list" /\ pc[d.id] = "listing" => inbox'[d.id] = inbox[d.id]
    BY <1>7, <2>1, <2>6
  <2> QED BY <1>6, <2>1, <2>2, <2>7
<1>23. CASE Jobs!ProgressRead
  <2>1. c.at = "progress" /\ UNCHANGED <<waiting, runner, inbox>> /\ c.saw = "running" /\ jobs[c.id] = "running"
    BY <1>2, <1>4, <1>23 DEF Jobs!ProgressRead, EntryStands
  <2>2. UNCHANGED jobs /\ queue' = Append(rest, Jobs!Progress("progressed", c.id, c.saw))
    BY <1>2, <1>23, <2>1 DEF Jobs!ProgressRead
  <2>3. PICK d : d = Jobs!Progress("progressed", c.id, c.saw)
    OBVIOUS
  <2>4. d \in Jobs!Continuation /\ d.id = c.id /\ d.at = "progressed"
    BY <1>2, <1>s, <2>1, <2>3, ContinuationMade DEF Jobs!Progress
  <2>5. EntryStands(d)' /\ d.at \notin Starts \cup Reports \cup {"list"}
    BY <1>12, <2>1, <2>4 DEF Starts, Begins, Reports
  <2> QED BY <1>6, <1>7, <2>1, <2>2, <2>3, <2>4, <2>5
<1>24. CASE Jobs!Progressed
  <2>1. c.at = "progressed" /\ UNCHANGED <<jobs, waiting, runner>> /\ inbox' = Jobs!Pushed(c.id, c.saw) /\ queue' = rest
    BY <1>2, <1>24 DEF Jobs!Progressed
  <2>2. c.saw \in Jobs!JobStatus
    BY <1>2, <2>1, ContinuationFields
  <2> QED BY <1>6, <1>7, <1>9, <2>1, <2>2
<1>25. CASE Jobs!EndRead
  <2>1. c.at = "ending" /\ UNCHANGED <<waiting, runner, inbox>> /\ jobs[c.id] \in {"pending", "running"}
    BY <1>2, <1>4, <1>25 DEF Jobs!EndRead, EntryStands
  <2>2. c.saw \in Jobs!JobStatus /\ c.to \in {"done", "error", "refused"}
    BY <1>2, <2>1, ContinuationFields
  <2>3. CASE queue' = rest /\ UNCHANGED jobs
    BY <1>6, <1>7, <2>1, <2>3
  <2>4. CASE jobs' = [jobs EXCEPT ![c.id] = Jobs!EndStatus(c.to)]
             /\ queue' = Append(rest, Jobs!End("ended", c.id, c.to, c.saw))
    <3>1. PICK d : d = Jobs!End("ended", c.id, c.to, c.saw)
      OBVIOUS
    <3>2. d \in Jobs!Continuation /\ d.id = c.id /\ d.at = "ended"
      BY <1>2, <2>2, <3>1, ContinuationMade DEF Jobs!End
    <3>3. EntryStands(d)' /\ d.at \notin Starts \cup Reports \cup {"list"}
      BY <1>12, <2>1, <3>2 DEF Starts, Begins, Reports
    <3>4. \A j \in Mount : j # c.id => jobs'[j] = jobs[j]
      BY <1>2, <2>4
    <3>5. /\ \A m \in Mount : MountStands(m)'
          /\ \A e \in Items(rest) : e.at = "list" /\ pc[e.id] = "listing" => inbox'[e.id] = inbox[e.id]
      BY <1>7, <2>1, <3>4
    <3> QED BY <1>6, <2>1, <2>4, <3>1, <3>2, <3>3, <3>4, <3>5
  <2> QED BY <1>2, <1>25, <2>3, <2>4 DEF Jobs!EndRead
<1>26. CASE Jobs!Ended
  <2>1. /\ c.at = "ended" /\ UNCHANGED <<jobs, waiting, runner>> /\ inbox' = Jobs!Pushed(c.id, Jobs!EndStatus(c.to))
        /\ queue' = Append(rest, Jobs!End("released", c.id, c.to, c.saw))
    BY <1>2, <1>26 DEF Jobs!Ended
  <2>2. c.saw \in Jobs!JobStatus /\ c.to \in {"done", "error", "refused"} /\ Jobs!EndStatus(c.to) \in Jobs!JobStatus
    BY <1>2, <1>s, <2>1, ContinuationFields DEF Jobs!EndStatus
  <2>3. PICK d : d = Jobs!End("released", c.id, c.to, c.saw)
    OBVIOUS
  <2>4. d \in Jobs!Continuation /\ d.id = c.id /\ d.at = "released"
    BY <1>2, <2>2, <2>3, ContinuationMade DEF Jobs!End
  <2>5. EntryStands(d)' /\ d.at \notin Starts \cup Reports \cup {"list"}
    BY <1>12, <2>1, <2>4 DEF Starts, Begins, Reports
  <2>6. /\ \A m \in Mount : MountStands(m)'
        /\ \A e \in Items(rest) : e.at = "list" /\ pc[e.id] = "listing" => inbox'[e.id] = inbox[e.id]
    BY <1>7, <1>9, <2>1, <2>2
  <2> QED BY <1>6, <2>1, <2>3, <2>4, <2>5, <2>6
<1>27. CASE Jobs!Released
  <2>1. /\ c.at = "released" /\ UNCHANGED <<jobs, waiting, runner>> /\ queue' = rest
        /\ inbox' = Jobs!Posted(c.id, Jobs!ErrorMsg) \/ UNCHANGED inbox
    BY <1>2, <1>27 DEF Jobs!Released
  <2>2. Jobs!ErrorMsg \in Jobs!PortMessage /\ Jobs!ErrorMsg.type # "jobs"
    BY MessageMade DEF Jobs!ErrorMsg
  <2>3. Past(c.id)
    BY <1>11, <2>1
  <2> QED BY <1>6, <1>7, <1>10, <2>1, <2>2, <2>3
<1>28. CASE Jobs!SubscribeRead
  <2>1. /\ c.at = "subscribe" /\ UNCHANGED <<jobs, waiting, runner>> /\ queue' = rest
        /\ inbox' = Jobs!Posted(c.id, Jobs!EventMsg(c.saw)) \/ UNCHANGED inbox
    BY <1>2, <1>28 DEF Jobs!SubscribeRead
  <2>2. Jobs!EventMsg(c.saw) \in Jobs!PortMessage /\ Jobs!EventMsg(c.saw).type # "jobs"
    BY <1>2, <2>1, ContinuationFields, MessageMade DEF Jobs!EventMsg
  <2>3. Past(c.id)
    BY <1>11, <2>1
  <2> QED BY <1>6, <1>7, <1>10, <2>1, <2>2, <2>3
<1>29. CASE Jobs!Listed
  <2>1. /\ c.at = "list" /\ UNCHANGED <<jobs, waiting, runner>> /\ queue' = rest
        /\ inbox' = Jobs!Posted(c.id, Jobs!ListMsg(c.saw))
    BY <1>2, <1>29 DEF Jobs!Listed
  <2>2. Jobs!ListMsg(c.saw) \in Jobs!PortMessage /\ Jobs!ListMsg(c.saw).type = "jobs"
    BY <1>2, <2>1, ContinuationFields, MessageMade DEF Jobs!ListMsg
  <2>3. /\ pc[c.id] \in {"listing", "closed"} /\ request[c.id] # "list"
        /\ pc[c.id] = "listing" => inbox[c.id] = <<>>
    BY <1>4, <2>1 DEF EntryStands
  <2>4. \A m \in Mount : m # c.id => inbox'[m] = inbox[m]
    BY <1>2, <2>1, <2>2, PostedItems
  <2>5. MountStands(c.id)'
    <3>1. CASE c.id \in connected
      <4>1. pc[c.id] = "listing" /\ inbox[c.id] = <<>>
        BY <1>2, <1>5, <2>3, <3>1 DEF MountStands
      <4>2. inbox'[c.id] = Append(inbox[c.id], Jobs!ListMsg(c.saw)) /\ inbox[c.id] \in Seq(Jobs!PortMessage)
        BY <1>2, <2>1, <2>2, <3>1, PostedItems
      <4>3. Items(inbox'[c.id]) = {Jobs!ListMsg(c.saw)} /\ Len(inbox'[c.id]) = 1
        <5>1. /\ Items(inbox'[c.id]) = Items(inbox[c.id]) \cup {Jobs!ListMsg(c.saw)}
              /\ Len(inbox'[c.id]) = Len(inbox[c.id]) + 1
          BY <2>2, <4>2, ItemsAppend
        <5> QED BY <4>1, <5>1, ItemsEmpty
      <4>4. /\ UNCHANGED <<pc, request, connected, subs, jobs, aged>> /\ MountStands(c.id)
            /\ \A msg \in Items(inbox'[c.id]) : msg.type = "jobs"
        BY <1>1, <1>2, <1>5, <2>1, <2>2, <4>3
      <4> HIDE DEF rest
      <4> QED BY <2>3, <4>1, <4>3, <4>4 DEF MountStands, Claimed, Past
    <3>2. CASE c.id \notin connected
      <4>1. inbox'[c.id] = inbox[c.id]
        BY <1>2, <2>1, <2>2, <3>2, PostedItems
      <4> QED BY <1>1, <1>2, <1>5, <2>1, <4>1, MountStays
    <3> QED BY <3>1, <3>2
  <2>6. \A m \in Mount : MountStands(m)'
    BY <1>1, <1>5, <2>1, <2>4, <2>5, MountStays
  <2>7. \A d \in Items(rest) : d.at = "list" => d.id # c.id
    BY <1>3, <2>1 DEF Apart
  <2> QED BY <1>4, <1>6, <2>1, <2>4, <2>6, <2>7
<1> QED BY <1>17, <1>18, <1>19, <1>20, <1>21, <1>22, <1>23, <1>24, <1>25, <1>26, <1>27, <1>28, <1>29 DEF Jobs!Continue

(* Steps that write no job and take no start out of line.                   *)
LEMMA JobsLeft ==
  ASSUME JobShape, JobsStand, UNCHANGED <<jobs, waiting, aged>>, runner' \subseteq runner,
         \A k \in Mount : MountStands(k)' /\ (Past(k) => Past(k)') /\ (Claimed(k) => Claimed(k)'),
         \A c \in Items(queue) : c.at = "list" =>
           /\ pc'[c.id] \in {"listing", "closed"} /\ request'[c.id] # "list"
           /\ pc'[c.id] = "listing" => inbox'[c.id] = <<>>,
         \/ queue' = queue
         \/ \E c \in Jobs!Continuation :
              queue' = Append(queue, c) /\ EntryStands(c)' /\ \A d \in Items(queue) : Apart(d, c)
  PROVE  JobsStand'
<1>1. queue \in Seq(Jobs!Continuation) /\ waiting \in Seq(Mount) /\ runner \subseteq Mount
  BY DEF JobShape, Jobs!TypeOK
<1>2. (\A c \in Items(queue) : c \in Jobs!Continuation /\ c.id \in Mount) /\ Items(waiting) \subseteq Mount
  <2>1. \A c \in Items(queue) : c \in Jobs!Continuation
    BY <1>1, ElementOfSeq DEF Items
  <2>2. Items(waiting) \subseteq Mount
    BY <1>1, ElementOfSeq DEF Items
  <2> QED BY <2>1, <2>2, ContinuationFields
<1>3. \A j \in Mount : Held(j) => Held(j)'
  BY DEF Held
<1>4. ASSUME NEW c \in Items(queue)
      PROVE  EntryStands(c)'
  <2>1. EntryStands(c) /\ c.id \in Mount
    BY <1>2 DEF JobsStand
  <2>2. CASE c.at = "list"
    BY <2>2 DEF EntryStands, Starts, Begins, Reports
  <2>3. CASE c.at # "list"
    BY <1>3, <2>1, <2>3 DEF EntryStands
  <2> QED BY <2>2, <2>3
<1>5. Orderly(queue') /\ \A c \in Items(queue') : EntryStands(c)'
  <2>1. CASE queue' = queue
    BY <1>4, <2>1 DEF JobsStand
  <2>2. ASSUME NEW c \in Jobs!Continuation, queue' = Append(queue, c), EntryStands(c)', \A d \in Items(queue) : Apart(d, c)
        PROVE  Orderly(queue') /\ \A d \in Items(queue') : EntryStands(d)'
    <3>1. Orderly(queue') /\ Items(queue') = Items(queue) \cup {c}
      BY <1>1, <2>2, OrderlyAppend, ItemsAppend DEF JobsStand
    <3> QED BY <1>4, <2>2, <3>1
  <2> QED BY <2>1, <2>2
<1>6. \A j \in Items(waiting) : jobs[j] = "pending" /\ Held(j)' /\ j \notin runner'
  BY <1>2, <1>3 DEF JobsStand
<1>7. \A j \in runner' : jobs[j] = "running" /\ Held(j)'
  BY <1>1, <1>3 DEF JobsStand
<1> QED BY <1>5, <1>6, <1>7 DEF JobsStand

(* A message read only takes its mount further.                             *)
LEMMA ReceiveStands ==
  ASSUME JobShape, JobShape', KeysFit, JobsStand, NEW m \in Mount, Jobs!Receive(m)
  PROVE  JobsStand'
<1> USE DEF Jobs!storage, Jobs!worker, Jobs!Receives, Jobs!Read
<1>1. /\ inbox[m] # <<>> /\ inbox' = [inbox EXCEPT ![m] = Tail(inbox[m])]
      /\ UNCHANGED <<jobs, queue, waiting, runner, aged, connected, subs>>
  BY DEF Jobs!Receive, Jobs!ReceiveJobs, Jobs!ReceiveId, Jobs!ReceiveError, Jobs!ReceiveEvent, Jobs!ReceiveDisconnect
<1>2. /\ inbox \in [Mount -> Seq(Jobs!PortMessage)] /\ inbox[m] \in Seq(Jobs!PortMessage)
      /\ pc \in [Mount -> {"absent", "listing", "starting", "awaiting", "signedIn", "refused", "failed", "closed"}]
      /\ request \in [Mount -> {"none", "list", "start", "subscribe", "unsubscribe"}]
      /\ queue \in Seq(Jobs!Continuation)
  BY DEF JobShape, Jobs!TypeOK
<1>3. pc[m] \notin {"absent", "closed"} /\ request[m] # "list" /\ MountStands(m)
  BY <1>1 DEF KeysFit, JobsStand, MountFits, MountStands
<1>4. \A c \in Items(queue) : c.at = "list" => c.id # m
  BY <1>1, <1>3 DEF JobsStand, EntryStands
<1>5. /\ Head(inbox[m]) \in Items(inbox[m]) /\ Items(Tail(inbox[m])) \subseteq Items(inbox[m])
      /\ \A msg \in Items(Tail(inbox[m])) : msg.type # "jobs"
  <2>1. /\ Items(inbox[m]) = {Head(inbox[m])} \cup Items(Tail(inbox[m]))
        /\ Len(Tail(inbox[m])) = Len(inbox[m]) - 1 /\ Len(inbox[m]) \in Nat \ {0}
        /\ \A i \in 1..(Len(inbox[m]) - 1) : Tail(inbox[m])[i] = inbox[m][i + 1]
    BY <1>1, <1>2, ItemsTail
  <2>2. \A i \in 1..(Len(inbox[m]) - 1) : i + 1 \in 2..Len(inbox[m])
    BY <2>1
  <2>3. \A i \in 1..Len(Tail(inbox[m])) : Tail(inbox[m])[i].type # "jobs"
    BY <1>3, <2>1, <2>2 DEF MountStands
  <2> QED BY <2>1, <2>3 DEF Items
<1>6. /\ Head(inbox[m]).type = "jobs" => pc[m] = "listing"
      /\ pc[m] = "listing" => Head(inbox[m]).type \in {"jobs", "disconnect"}
  BY <1>3, <1>5 DEF MountStands
<1>7. \A r \in {"subscribe", "start", "unsubscribe"} : \A k \in Mount :
        Jobs!Sent(m, r)[k] = IF k # m THEN request[k] ELSE IF m \in connected THEN r ELSE "none"
  BY SentType
<1>8. ASSUME \A k \in Mount : k # m => pc'[k] = pc[k] /\ request'[k] = request[k],
             pc'[m] \notin {"absent", "listing", "closed"},
             request'[m] \in {request[m], "none", "subscribe", "unsubscribe"} \/ pc[m] = "listing",
             request'[m] # "list"
      PROVE  JobsStand'
  <2>1. Past(m)' /\ (Claimed(m) => Claimed(m)')
    BY <1>8 DEF Past, Claimed
  <2>2. inbox'[m] = Tail(inbox[m]) /\ \A k \in Mount : k # m => inbox'[k] = inbox[k]
    BY <1>1, <1>2
  <2>3. MountStands(m)'
    <3>1. ~Claimed(m)' => jobs'[m] = "absent" /\ m \notin aged'
      BY <1>1, <1>3, <2>1 DEF MountStands
    <3>2. \A msg \in Items(inbox'[m]) : msg.type # "jobs"
      BY <1>5, <2>2
    <3>3. \A i \in 2..Len(inbox'[m]) : inbox'[m][i] \in Items(inbox'[m])
      <4>1. Len(inbox'[m]) \in Nat
        BY DEF JobShape, Jobs!TypeOK
      <4> QED BY <4>1 DEF Items
    <3> QED BY <1>8, <2>1, <3>1, <3>2, <3>3 DEF MountStands
  <2>4. ASSUME NEW k \in Mount, k # m
        PROVE  MountStands(k)' /\ (Past(k) => Past(k)') /\ (Claimed(k) => Claimed(k)')
    <3>1. MountStands(k) /\ pc'[k] = pc[k] /\ request'[k] = request[k] /\ inbox'[k] = inbox[k]
      BY <1>8, <2>2, <2>4 DEF JobsStand
    <3> QED BY <1>1, <3>1, MountStays DEF Past, Claimed
  <2>5. \A k \in Mount : MountStands(k)' /\ (Past(k) => Past(k)') /\ (Claimed(k) => Claimed(k)')
    BY <2>1, <2>3, <2>4
  <2>6. ASSUME NEW c \in Items(queue), c.at = "list"
        PROVE  /\ pc'[c.id] \in {"listing", "closed"} /\ request'[c.id] # "list"
               /\ pc'[c.id] = "listing" => inbox'[c.id] = <<>>
    <3>1. c.id \in Mount /\ c.id # m
      BY <1>2, <1>4, <2>6, ElementOfSeq, ContinuationFields DEF Items
    <3>2. /\ pc[c.id] \in {"listing", "closed"} /\ request[c.id] # "list"
          /\ pc[c.id] = "listing" => inbox[c.id] = <<>>
      BY <2>6 DEF JobsStand, EntryStands
    <3> QED BY <1>8, <2>2, <3>1, <3>2
  <2> QED BY <1>1, <2>5, <2>6, JobsLeft
<1>9. ASSUME NEW s, s \in {"signedIn", "refused", "awaiting", "starting", "failed"}, pc' = [pc EXCEPT ![m] = s],
             \/ UNCHANGED request
             \/ request' = Jobs!Sent(m, "subscribe") \/ request' = Jobs!Sent(m, "unsubscribe")
             \/ request' = Jobs!Sent(m, "start") /\ pc[m] = "listing"
      PROVE  JobsStand'
  <2>1. pc'[m] = s /\ \A k \in Mount : k # m => pc'[k] = pc[k]
    BY <1>2, <1>9
  <2>2. /\ \A k \in Mount : k # m => request'[k] = request[k]
        /\ request'[m] \in {request[m], "none", "subscribe", "unsubscribe"} \/ pc[m] = "listing"
        /\ request'[m] # "list"
    BY <1>3, <1>7, <1>9
  <2> QED BY <1>8, <1>9, <2>1, <2>2
<1>10. ASSUME NEW j, Jobs!SignedIn(m, j)
       PROVE  \E s \in {"signedIn", "refused"} : pc' = [pc EXCEPT ![m] = s]
  BY <1>10 DEF Jobs!SignedIn
<1>11. CASE Jobs!ReceiveJobs(m)
  <2>1. pc[m] = "listing"
    BY <1>6, <1>11 DEF Jobs!ReceiveJobs
  <2> QED BY <1>9, <1>10, <1>11, <2>1 DEF Jobs!ReceiveJobs
<1>12. CASE Jobs!ReceiveId(m)
  BY <1>9, <1>12 DEF Jobs!ReceiveId
<1>13. CASE Jobs!ReceiveError(m)
  BY <1>9, <1>13 DEF Jobs!ReceiveError
<1>14. CASE Jobs!ReceiveEvent(m)
  <2>1. CASE UNCHANGED <<request, pc>>
    <3>1. pc[m] # "listing"
      BY <1>6, <1>14 DEF Jobs!ReceiveEvent
    <3> QED BY <1>3, <1>8, <2>1, <3>1
  <2>2. CASE request' = Jobs!Sent(m, "unsubscribe") /\ Jobs!SignedIn(m, awaited[m])
    BY <1>9, <1>10, <2>2
  <2>3. CASE request' = Jobs!Sent(m, "unsubscribe") /\ pc' = [pc EXCEPT ![m] = "failed"]
    BY <1>9, <2>3
  <2> QED BY <1>14, <2>1, <2>2, <2>3 DEF Jobs!ReceiveEvent
<1>15. CASE Jobs!ReceiveDisconnect(m)
  <2>1. CASE pc[m] \in {"listing", "starting"}
    BY <1>9, <1>15, <2>1 DEF Jobs!ReceiveDisconnect
  <2>2. CASE pc[m] \notin {"listing", "starting"}
    <3>1. UNCHANGED <<request, pc>>
      BY <1>2, <1>15, <2>2 DEF Jobs!ReceiveDisconnect
    <3> QED BY <1>3, <1>8, <2>2, <3>1
  <2> QED BY <2>1, <2>2
<1> QED BY <1>11, <1>12, <1>13, <1>14, <1>15 DEF Jobs!Receive

LEMMA StandsStep ==
  ASSUME JobShape, JobShape', KeysFit, JobsStand, [Jobs!Next]_signIns
  PROVE  JobsStand'
<1> USE DEF Jobs!storage, Jobs!worker, Jobs!mounts, Jobs!port
<1>t. /\ inbox \in [Mount -> Seq(Jobs!PortMessage)] /\ queue \in Seq(Jobs!Continuation) /\ waiting \in Seq(Mount)
      /\ pc \in [Mount -> {"absent", "listing", "starting", "awaiting", "signedIn", "refused", "failed", "closed"}]
      /\ request \in [Mount -> {"none", "list", "start", "subscribe", "unsubscribe"}]
      /\ jobs \in [Mount -> Jobs!JobStatus] /\ runner \subseteq Mount /\ dedup \in [Backend -> Mount \cup {None}]
  BY DEF JobShape, Jobs!TypeOK, Jobs!Optional
<1>l. Len(waiting) \in Nat /\ DOMAIN waiting = 1..Len(waiting) /\ \A i \in 1..Len(waiting) : waiting[i] \in Mount
  BY <1>t, ElementOfSeq
<1>w. Items(waiting) \subseteq Mount
  BY <1>l DEF Items
<1>q. \A c \in Items(queue) : c \in Jobs!Continuation /\ c.id \in Mount /\ EntryStands(c)
  <2>1. \A c \in Items(queue) : c \in Jobs!Continuation
    BY <1>t, ElementOfSeq DEF Items
  <2> QED BY <2>1, ContinuationFields DEF JobsStand
<1>m. \A m \in Mount : MountStands(m)
  BY DEF JobsStand
<1>s. {"absent", "pending", "running", "done", "error"} \subseteq Jobs!JobStatus
  BY DEF Jobs!JobStatus, Jobs!Live, Jobs!Finished
<1>1. ASSUME NEW made, DOMAIN made = 1..Len(waiting), made = [i \in 1..Len(waiting) |-> made[i]],
             NEW at, NEW s, (at = "running" /\ s = "running") \/ (at = "ending" /\ s = "pending"),
             \A i \in 1..Len(waiting) : made[i] \in Jobs!Continuation /\ made[i].id = waiting[i] /\ made[i].at = at,
             jobs' = [j \in Mount |-> IF j \in Items(waiting) THEN s ELSE jobs[j]],
             queue' = queue \o made, waiting' = <<>>,
             UNCHANGED <<aged, subs, runner, Jobs!port, Jobs!mounts>>
      PROVE  JobsStand'
  <2>1. made \in Seq(Jobs!Continuation) /\ Len(made) = Len(waiting)
    BY <1>1, WaitingQueued
  <2>2. Items(queue') = Items(queue) \cup Items(made)
    <3>1. Items(queue \o made) = Items(queue) \cup Items(made)
      BY <1>t, <2>1, ItemsConcat
    <3> QED BY <1>1, <3>1
  <2>3. \A c \in Items(made) : c.id \in Items(waiting) /\ c.at = at
    BY <1>1, <2>1 DEF Items
  <2>4. \A j \in Items(waiting) : jobs[j] = "pending" /\ Held(j) /\ j \notin runner
    BY DEF JobsStand
  <2>5. \A c \in Items(made) : EntryStands(c)'
    <3> SUFFICES ASSUME NEW c \in Items(made)
                 PROVE  EntryStands(c)'
      OBVIOUS
    <3>1. c.at = at /\ c.id \in Mount /\ Held(c.id)' /\ Past(c.id)' /\ c.id \notin runner' /\ jobs'[c.id] = s
      BY <1>1, <1>w, <2>3, <2>4 DEF Held, Claimed, Past
    <3>2. c.id \notin Items(waiting')
      BY <1>1, ItemsEmpty
    <3> QED BY <1>1, <3>1, <3>2 DEF EntryStands, Starts, Begins, Reports
  <2>6. \A c \in Items(queue) : EntryStands(c)'
    <3> SUFFICES ASSUME NEW c \in Items(queue)
                 PROVE  EntryStands(c)'
      OBVIOUS
    <3>1. c.at \in Starts \cup Reports => jobs'[c.id] = jobs[c.id]
      BY <1>1, <1>q, <1>t DEF EntryStands
    <3>2. c.id \notin Items(waiting')
      BY <1>1, ItemsEmpty
    <3> QED BY <1>1, <1>q, <3>1, <3>2, EntryStays
  <2>7. Orderly(queue')
    <3>1. \A c \in Items(queue), d \in Items(made) : Apart(c, d)
      <4> SUFFICES ASSUME NEW c \in Items(queue), NEW d \in Items(made), c.id = d.id
                   PROVE  Apart(c, d)
        BY DEF Apart
      <4>1. c.at \notin Starts \cup Reports /\ d.at # "list"
        BY <1>1, <1>q, <2>3 DEF EntryStands
      <4> QED BY <4>1 DEF Apart, Starts, Begins, Reports
    <3>2. Orderly(made)
      <4> SUFFICES ASSUME NEW k \in 1..Len(made), NEW i \in 1..(k - 1)
                   PROVE  Apart(made[i], made[k])
        BY DEF Orderly
      <4>1. k \in 1..Len(waiting) /\ i \in 1..Len(waiting) /\ i # k
        BY <1>l, <2>1
      <4>2. waiting[i] # waiting[k]
        BY <4>1 DEF JobsStand
      <4> QED BY <1>1, <4>1, <4>2 DEF Apart
    <3> QED BY <1>1, <1>t, <2>1, <3>1, <3>2, OrderlyConcat DEF JobsStand
  <2>8. \A m \in Mount : MountStands(m)'
    <3> SUFFICES ASSUME NEW m \in Mount
                 PROVE  MountStands(m)'
      OBVIOUS
    <3>1. jobs'[m] = jobs[m] \/ Claimed(m)
      BY <1>1, <2>4 DEF Held
    <3> QED BY <1>1, <1>m, <3>1, MountStays
  <2>9. \A j \in runner' : jobs'[j] = "running" /\ Held(j)'
    BY <1>1, <1>t, <2>4 DEF JobsStand, Held, Claimed, Past
  <2>10. Items(waiting') = {} /\ Len(waiting') = 0
    BY <1>1, ItemsEmpty
  <2> QED BY <2>2, <2>5, <2>6, <2>7, <2>8, <2>9, <2>10 DEF JobsStand
<1>2. CASE Jobs!OffscreenReady
  <2>1. PICK made : made = [i \in 1..Len(waiting) |-> Jobs!Start("running", waiting[i])]
    OBVIOUS
  <2>2. \A i \in 1..Len(waiting) : made[i] \in Jobs!Continuation /\ made[i].id = waiting[i] /\ made[i].at = "running"
    <3> SUFFICES ASSUME NEW i \in 1..Len(waiting)
                 PROVE  made[i] \in Jobs!Continuation /\ made[i].id = waiting[i] /\ made[i].at = "running"
      OBVIOUS
    <3>1. made[i] = Jobs!Start("running", waiting[i])
      BY <2>1
    <3>2. Jobs!Start("running", waiting[i]) \in Jobs!Continuation
      BY <1>l, <1>s, ContinuationMade
    <3> QED BY <3>1, <3>2 DEF Jobs!Start
  <2>3. /\ queue' = queue \o made /\ waiting' = <<>> /\ UNCHANGED <<aged, subs, runner, Jobs!port, Jobs!mounts>>
        /\ jobs' = [j \in Mount |-> IF j \in Items(waiting) THEN "running" ELSE jobs[j]]
    <3>1. Jobs!Range(waiting) = Items(waiting)
      BY <1>l DEF Jobs!Range, Items
    <3> QED BY <1>2, <1>l, <2>1, <3>1 DEF Jobs!OffscreenReady
  <2>4. DOMAIN made = 1..Len(waiting) /\ made = [i \in 1..Len(waiting) |-> made[i]]
    BY <2>1
  <2> QED BY <1>1, <2>2, <2>3, <2>4
<1>3. CASE Jobs!OffscreenFails
  <2>1. PICK made : made = [i \in 1..Len(waiting) |-> Jobs!Ending(waiting[i], "refused")]
    OBVIOUS
  <2>2. \A i \in 1..Len(waiting) : made[i] \in Jobs!Continuation /\ made[i].id = waiting[i] /\ made[i].at = "ending"
    <3> SUFFICES ASSUME NEW i \in 1..Len(waiting)
                 PROVE  made[i] \in Jobs!Continuation /\ made[i].id = waiting[i] /\ made[i].at = "ending"
      OBVIOUS
    <3>1. made[i] = Jobs!Ending(waiting[i], "refused")
      BY <2>1
    <3>2. Jobs!Ending(waiting[i], "refused") \in Jobs!Continuation
      BY <1>l, <1>s, ContinuationMade
    <3> QED BY <3>1, <3>2 DEF Jobs!Ending, Jobs!End
  <2>3. /\ queue' = queue \o made /\ waiting' = <<>> /\ UNCHANGED <<aged, subs, runner, Jobs!port, Jobs!mounts>>
        /\ UNCHANGED jobs
    BY <1>3, <1>l, <2>1 DEF Jobs!OffscreenFails
  <2>4. jobs' = [j \in Mount |-> IF j \in Items(waiting) THEN "pending" ELSE jobs[j]]
    BY <1>t, <2>3 DEF JobsStand
  <2>5. DOMAIN made = 1..Len(waiting) /\ made = [i \in 1..Len(waiting) |-> made[i]]
    BY <2>1
  <2> QED BY <1>1, <2>2, <2>3, <2>4, <2>5
<1>4. CASE Jobs!Evict
  <2>1. /\ queue' = <<>> /\ waiting' = <<>> /\ runner' \subseteq runner /\ connected' = {} /\ subs' = {}
        /\ request' = [m \in Mount |-> "none"] /\ UNCHANGED <<jobs, aged, pc>>
        /\ inbox' = [m \in Mount |-> IF m \in connected THEN Append(inbox[m], Jobs!DisconnectMsg) ELSE inbox[m]]
    BY <1>4 DEF Jobs!Evict
  <2>2. Jobs!DisconnectMsg \in Jobs!PortMessage /\ Jobs!DisconnectMsg.type = "disconnect"
    BY MessageMade DEF Jobs!DisconnectMsg
  <2>3. ASSUME NEW m \in Mount
        PROVE  MountStands(m)' /\ (Claimed(m) => Claimed(m)')
    <3>1. request'[m] = "none" /\ pc'[m] = pc[m] /\ MountStands(m)
      BY <1>m, <2>1
    <3>2. CASE m \notin connected
      <4>1. inbox'[m] = inbox[m]
        BY <2>1, <3>2
      <4> QED BY <2>1, <3>1, <4>1 DEF MountStands, Claimed, Past
    <3>3. CASE m \in connected
      <4>1. inbox'[m] = Append(inbox[m], Jobs!DisconnectMsg) /\ inbox[m] \in Seq(Jobs!PortMessage)
        BY <1>t, <2>1, <3>3
      <4>2. /\ Items(inbox'[m]) = Items(inbox[m]) \cup {Jobs!DisconnectMsg}
            /\ Len(inbox'[m]) = Len(inbox[m]) + 1 /\ Len(inbox[m]) \in Nat
            /\ \A i \in 1..Len(inbox[m]) : inbox'[m][i] = inbox[m][i]
            /\ inbox'[m][Len(inbox[m]) + 1] = Jobs!DisconnectMsg
        BY <2>2, <4>1, ItemsAppend
      <4>3. \A i \in 2..Len(inbox'[m]) : inbox'[m][i].type # "jobs"
        <5> SUFFICES ASSUME NEW i \in 2..(Len(inbox[m]) + 1)
                     PROVE  inbox'[m][i].type # "jobs"
          BY <4>2
        <5>1. (i \in 2..Len(inbox[m]) /\ i \in 1..Len(inbox[m])) \/ i = Len(inbox[m]) + 1
          BY <4>2
        <5> QED BY <2>2, <3>1, <4>2, <5>1 DEF MountStands
      <4>4. pc[m] # "closed"
        BY <3>1, <3>3 DEF MountStands
      <4> QED BY <2>1, <2>2, <3>1, <4>2, <4>3, <4>4 DEF MountStands, Claimed, Past
    <3> QED BY <3>2, <3>3
  <2>4. \A j \in runner' : jobs'[j] = "running" /\ Held(j)'
    BY <1>t, <2>1, <2>3 DEF JobsStand, Held
  <2>5. Items(queue') = {} /\ Items(waiting') = {} /\ Len(queue') = 0 /\ Len(waiting') = 0
    BY <2>1, ItemsEmpty
  <2> QED BY <2>3, <2>4, <2>5 DEF JobsStand, Orderly
<1>e. ASSUME UNCHANGED <<pc, request, inbox>>
      PROVE  \A c \in Items(queue) : c.at = "list" =>
               /\ pc'[c.id] \in {"listing", "closed"} /\ request'[c.id] # "list"
               /\ pc'[c.id] = "listing" => inbox'[c.id] = <<>>
  BY <1>e, <1>q DEF EntryStands
<1>p. \A k \in Mount : pc'[k] = pc[k] /\ request'[k] \in {request[k], "none"} =>
        (Past(k) => Past(k)') /\ (Claimed(k) => Claimed(k)')
  BY DEF Past, Claimed
<1>5. ASSUME NEW m \in Mount, Jobs!Handle(m)
      PROVE  JobsStand'
  <2>1. /\ UNCHANGED <<jobs, aged, waiting, runner, connected, pc>> /\ request[m] # "none"
        /\ request' = [request EXCEPT ![m] = "none"] /\ request'[m] = "none"
        /\ \A k \in Mount : k # m => request'[k] = request[k]
    BY <1>5, <1>t DEF Jobs!Handle, Jobs!Admit, Jobs!List, Jobs!Subscribe, Jobs!Unsubscribe
  <2>2. ASSUME request[m] \in {"start", "subscribe", "unsubscribe"},
               \A k \in Mount : k # m => inbox'[k] = inbox[k]
        PROVE  \A c \in Items(queue) : c.at = "list" =>
                 /\ pc'[c.id] \in {"listing", "closed"} /\ request'[c.id] # "list"
                 /\ pc'[c.id] = "listing" => inbox'[c.id] = <<>>
    <3>1. pc[m] # "listing"
      BY <1>m, <2>2 DEF MountStands, Past
    <3> QED BY <1>q, <2>1, <2>2, <3>1 DEF EntryStands
  <2>3. CASE Jobs!Admit(m) /\ inbox' = Jobs!Posted(m, Jobs!ErrorMsg) /\ UNCHANGED queue
    <3>1. request[m] = "start" /\ UNCHANGED subs
      BY <2>3 DEF Jobs!Admit
    <3>2. Jobs!ErrorMsg \in Jobs!PortMessage /\ Jobs!ErrorMsg.type # "jobs"
      BY MessageMade DEF Jobs!ErrorMsg
    <3>3. \A k \in Mount : IF k = m /\ m \in connected THEN inbox'[k] = Append(inbox[k], Jobs!ErrorMsg)
                                                     ELSE inbox'[k] = inbox[k]
      BY <2>3, <3>2, PostedItems
    <3>4. Items(Append(inbox[m], Jobs!ErrorMsg)) = Items(inbox[m]) \cup {Jobs!ErrorMsg}
      BY <1>t, <3>2, ItemsAppend
    <3>5. pc[m] # "listing"
      BY <1>m, <3>1 DEF MountStands, Past
    <3>6. \A k \in Mount : MountStands(k)'
      BY <1>m, <2>1, <3>1, <3>2, <3>3, <3>4, <3>5, MountStays
    <3> QED BY <1>p, <2>1, <2>2, <2>3, <3>1, <3>3, <3>6, JobsLeft
  <2>4. ASSUME UNCHANGED <<inbox, subs>>
        PROVE  \A k \in Mount : MountStands(k)'
    BY <1>m, <2>1, <2>4, MountStays
  <2>5. CASE Jobs!Admit(m) /\ queue' = Append(queue, Jobs!ReadDedup(m)) /\ UNCHANGED inbox
    <3>1. request[m] = "start" /\ UNCHANGED subs /\ Past(m) /\ ~Claimed(m)
      BY <1>m, <2>5 DEF Jobs!Admit, MountStands, Claimed
    <3>2. jobs[m] = "absent" /\ m \notin aged /\ m \notin Items(waiting) /\ m \notin runner
      BY <1>m, <3>1 DEF MountStands, JobsStand, Held
    <3>3. PICK c : c = Jobs!ReadDedup(m)
      OBVIOUS
    <3>4. c \in Jobs!Continuation /\ c.id = m /\ c.at = "dedup"
      <4>1. Opened(m)
        BY <3>1 DEF KeysFit, MountFits, Past
      <4> QED BY <1>s, <3>3, <4>1, ContinuationMade DEF Jobs!ReadDedup
    <3>5. EntryStands(c)'
      BY <2>1, <3>1, <3>2, <3>4 DEF EntryStands, Starts, Begins, Reports, Held, Claimed, Past
    <3>6. \A d \in Items(queue) : Apart(d, c)
      BY <1>q, <3>1, <3>4 DEF Apart, EntryStands, Held, Starts, Begins, Reports
    <3> QED BY <1>p, <2>1, <2>2, <2>4, <2>5, <3>1, <3>3, <3>4, <3>5, <3>6, JobsLeft
  <2>6. CASE Jobs!List(m)
    <3>1. pc[m] = "listing" /\ inbox[m] = <<>> /\ request[m] = "list" /\ UNCHANGED <<inbox, subs>>
      BY <1>m, <2>6 DEF Jobs!List, MountStands
    <3>2. PICK c : c = Jobs!ReadAll(m)
      OBVIOUS
    <3>3. c \in Jobs!Continuation /\ c.id = m /\ c.at = "list" /\ queue' = Append(queue, c)
      BY <1>s, <2>6, <3>2, ContinuationMade DEF Jobs!ReadAll, Jobs!List
    <3>4. EntryStands(c)'
      BY <2>1, <3>1, <3>3 DEF EntryStands, Starts, Begins, Reports
    <3>5. \A d \in Items(queue) : d.id = m => d.at # "list" /\ d.at \notin Starts \cup Reports
      BY <1>q, <3>1 DEF EntryStands, Past, Held, Claimed
    <3>6. \A d \in Items(queue) : Apart(d, c)
      BY <3>3, <3>5 DEF Apart, Starts, Begins, Reports
    <3>7. \A d \in Items(queue) : d.at = "list" =>
            /\ pc'[d.id] \in {"listing", "closed"} /\ request'[d.id] # "list"
            /\ pc'[d.id] = "listing" => inbox'[d.id] = <<>>
      BY <1>q, <2>1, <3>1, <3>5 DEF EntryStands
    <3> QED BY <1>p, <2>1, <2>4, <3>1, <3>3, <3>4, <3>6, <3>7, JobsLeft
  <2>7. CASE Jobs!Subscribe(m)
    <3>1. request[m] = "subscribe" /\ Past(m) /\ UNCHANGED inbox /\ subs' = subs \cup {m}
      BY <1>m, <2>7 DEF Jobs!Subscribe, MountStands
    <3>2. PICK c : c = Jobs!ReadAwaited(m)
      OBVIOUS
    <3>3. c \in Jobs!Continuation /\ c.id = m /\ c.at = "subscribe" /\ queue' = Append(queue, c)
      <4>1. awaited[m] # None
        BY <3>1 DEF KeysFit, MountFits
      <4> QED BY <1>s, <2>7, <3>2, <4>1, ContinuationMade DEF Jobs!ReadAwaited, Jobs!Subscribe
    <3>4. EntryStands(c)' /\ \A d \in Items(queue) : Apart(d, c)
      BY <2>1, <3>1, <3>3 DEF EntryStands, Starts, Begins, Reports, Past, Apart
    <3>5. ASSUME NEW k \in Mount
          PROVE  MountStands(k)'
      <4>1. CASE k # m
        BY <1>m, <2>1, <3>1, <4>1, MountStays
      <4>2. CASE k = m
        BY <1>m, <2>1, <3>1, <4>2 DEF MountStands, Claimed, Past
      <4> QED BY <4>1, <4>2
    <3> QED BY <1>p, <2>1, <2>2, <3>1, <3>3, <3>4, <3>5, JobsLeft
  <2>8. CASE Jobs!Unsubscribe(m)
    <3>1. request[m] = "unsubscribe" /\ UNCHANGED <<inbox, queue>> /\ subs' = subs \ {m}
      BY <2>8 DEF Jobs!Unsubscribe
    <3>2. \A k \in Mount : MountStands(k)'
      BY <1>m, <2>1, <3>1, MountStays
    <3> QED BY <1>p, <2>1, <2>2, <3>1, <3>2, JobsLeft
  <2> QED BY <1>5, <2>3, <2>5, <2>6, <2>7, <2>8 DEF Jobs!Handle, Jobs!Admit
<1>6. ASSUME NEW m \in Mount, Jobs!Open(m)
      PROVE  JobsStand'
  <2>1. /\ pc' = [pc EXCEPT ![m] = "listing"] /\ connected' = connected \cup {m}
        /\ request' = [request EXCEPT ![m] = "list"]
        /\ UNCHANGED <<jobs, aged, queue, waiting, subs, runner, inbox>> /\ pc[m] = "absent"
    BY <1>6 DEF Jobs!Open
  <2>2. inbox[m] = <<>> /\ pc'[m] = "listing" /\ request'[m] = "list" /\ ~Past(m)
    BY <1>t, <2>1 DEF KeysFit, MountFits, Past
  <2>3. MountStands(m)'
    <3>1. MountStands(m) /\ Items(inbox'[m]) = {} /\ Len(inbox'[m]) = 0
      BY <1>m, <2>1, <2>2, ItemsEmpty
    <3> QED BY <2>1, <2>2, <3>1 DEF MountStands, Claimed, Past
  <2>4. ASSUME NEW k \in Mount, k # m
        PROVE  MountStands(k)' /\ (Past(k) => Past(k)') /\ (Claimed(k) => Claimed(k)')
    <3>1. MountStands(k) /\ pc'[k] = pc[k] /\ request'[k] = request[k] /\ (k \in connected' => k \in connected)
      BY <1>m, <1>t, <2>1, <2>4
    <3> QED BY <1>p, <2>1, <3>1, MountStays
  <2>5. \A c \in Items(queue) : c.at = "list" =>
          /\ pc'[c.id] \in {"listing", "closed"} /\ request'[c.id] # "list"
          /\ pc'[c.id] = "listing" => inbox'[c.id] = <<>>
    <3> SUFFICES ASSUME NEW c \in Items(queue), c.at = "list"
                 PROVE  /\ pc'[c.id] \in {"listing", "closed"} /\ request'[c.id] # "list"
                        /\ pc'[c.id] = "listing" => inbox'[c.id] = <<>>
      OBVIOUS
    <3>1. EntryStands(c) /\ c.id \in Mount /\ c.id # m
      BY <1>q, <2>1 DEF EntryStands
    <3> QED BY <1>t, <2>1, <3>1 DEF EntryStands
  <2> QED BY <2>1, <2>2, <2>3, <2>4, <2>5, JobsLeft DEF Claimed
<1>7. ASSUME NEW m \in Mount, Jobs!Close(m)
      PROVE  JobsStand'
  <2>1. /\ pc' = [pc EXCEPT ![m] = "closed"] /\ connected' = connected \ {m} /\ subs' = subs \ {m}
        /\ request' = [request EXCEPT ![m] = "none"] /\ inbox' = [inbox EXCEPT ![m] = <<>>]
        /\ UNCHANGED <<jobs, aged, queue, waiting, runner>>
    BY <1>7 DEF Jobs!Close
  <2>2. inbox'[m] = <<>> /\ pc'[m] = "closed" /\ request'[m] = "none"
    BY <1>t, <2>1
  <2>3. MountStands(m)' /\ Past(m)' /\ Claimed(m)'
    <3>1. Items(inbox'[m]) = {} /\ Len(inbox'[m]) = 0
      BY <2>2, ItemsEmpty
    <3> QED BY <2>1, <2>2, <3>1 DEF MountStands, Claimed, Past
  <2>4. ASSUME NEW k \in Mount, k # m
        PROVE  MountStands(k)' /\ (Past(k) => Past(k)') /\ (Claimed(k) => Claimed(k)')
    <3>1. MountStands(k) /\ pc'[k] = pc[k] /\ request'[k] = request[k] /\ inbox'[k] = inbox[k]
      BY <1>m, <1>t, <2>1, <2>4
    <3> QED BY <1>p, <2>1, <3>1, MountStays
  <2>5. \A c \in Items(queue) : c.at = "list" =>
          /\ pc'[c.id] \in {"listing", "closed"} /\ request'[c.id] # "list"
          /\ pc'[c.id] = "listing" => inbox'[c.id] = <<>>
    <3> SUFFICES ASSUME NEW c \in Items(queue), c.at = "list"
                 PROVE  /\ pc'[c.id] \in {"listing", "closed"} /\ request'[c.id] # "list"
                        /\ pc'[c.id] = "listing" => inbox'[c.id] = <<>>
      OBVIOUS
    <3>1. EntryStands(c) /\ c.id \in Mount
      BY <1>q
    <3>2. CASE c.id = m
      BY <2>2, <3>2
    <3>3. CASE c.id # m
      BY <1>t, <2>1, <3>1, <3>3 DEF EntryStands
    <3> QED BY <3>2, <3>3
  <2> QED BY <2>1, <2>3, <2>4, <2>5, JobsLeft
<1>8. ASSUME NEW m \in runner, NEW c \in Jobs!Continuation, c.id = m,
             \/ c.at = "progress" /\ c.saw = "running" /\ runner' = runner
             \/ c.at = "ending" /\ runner' = runner \ {m},
             queue' = Append(queue, c), UNCHANGED <<jobs, aged, waiting, subs, Jobs!port, Jobs!mounts>>
      PROVE  JobsStand'
  <2>1. jobs[m] = "running" /\ Held(m) /\ m \notin Items(waiting) /\ m \in Mount
    BY <1>t DEF JobsStand
  <2>2. EntryStands(c)'
    BY <1>8, <2>1 DEF EntryStands, Starts, Begins, Reports, Held, Claimed, Past
  <2>3. \A d \in Items(queue) : Apart(d, c)
    BY <1>8, <1>q DEF Apart, EntryStands, Starts, Begins, Reports
  <2>4. \A k \in Mount : MountStands(k)'
    BY <1>8, <1>m, MountStays
  <2> QED BY <1>8, <1>e, <1>p, <2>2, <2>3, <2>4, JobsLeft
<1>9. ASSUME NEW m \in Mount, Jobs!ReportProgress(m)
      PROVE  JobsStand'
  <2>1. PICK c : c = Jobs!Progress("progress", m, jobs[m])
    OBVIOUS
  <2>2. c \in Jobs!Continuation /\ c.id = m /\ c.at = "progress" /\ c.saw = jobs[m]
    BY <1>t, <2>1, ContinuationMade DEF Jobs!Progress
  <2>3. m \in runner /\ jobs[m] = "running"
    BY <1>9 DEF Jobs!ReportProgress, JobsStand
  <2> QED BY <1>8, <1>9, <2>1, <2>2, <2>3 DEF Jobs!ReportProgress
<1>10. ASSUME NEW m \in Mount, Jobs!ReportEnd(m)
       PROVE  JobsStand'
  <2>1. PICK to \in Jobs!Finished : queue' = Append(queue, Jobs!Ending(m, to))
    BY <1>10 DEF Jobs!ReportEnd
  <2>2. PICK c : c = Jobs!Ending(m, to)
    OBVIOUS
  <2>3. c \in Jobs!Continuation /\ c.id = m /\ c.at = "ending"
    BY <1>t, <2>1, <2>2, ContinuationMade DEF Jobs!Ending, Jobs!End, Jobs!Finished
  <2> QED BY <1>8, <1>10, <2>1, <2>2, <2>3 DEF Jobs!ReportEnd
<1>11. ASSUME NEW m \in Mount, Jobs!Age(m)
       PROVE  JobsStand'
  <2>1. /\ aged' = aged \cup {m} /\ jobs[m] \in {"done", "error"}
        /\ UNCHANGED <<jobs, queue, waiting, subs, runner, Jobs!port, Jobs!mounts>>
    BY <1>11 DEF Jobs!Age, Jobs!Finished
  <2>2. ASSUME NEW c \in Items(queue)
        PROVE  EntryStands(c)'
    <3>1. c.at \in Starts \cup Reports => c.id # m
      BY <1>q, <2>1 DEF EntryStands, Starts, Begins, Reports
    <3> QED BY <1>q, <2>1, <3>1, EntryStays
  <2>3. \A j \in Mount : j # m => (Held(j) => Held(j)')
    BY <2>1 DEF Held, Claimed, Past
  <2>4. \A j \in Items(waiting) : jobs[j] = "pending" /\ Held(j)' /\ j \notin runner
    BY <1>w, <2>1, <2>3 DEF JobsStand
  <2>5. \A j \in runner : jobs[j] = "running" /\ Held(j)'
    BY <1>t, <2>1, <2>3 DEF JobsStand
  <2>6. ASSUME NEW k \in Mount
        PROVE  MountStands(k)'
    <3>1. k # m => (k \in aged' => k \in aged)
      BY <2>1
    <3>2. MountStands(k) /\ (k = m => jobs[k] # "absent")
      BY <1>m, <2>1
    <3> QED BY <2>1, <3>1, <3>2 DEF MountStands, Claimed, Past
  <2> QED BY <2>1, <2>2, <2>4, <2>5, <2>6 DEF JobsStand
<1>12. ASSUME NEW m \in Mount, Jobs!Collect(m)
       PROVE  JobsStand'
  <2>1. /\ queue = <<>> /\ waiting = <<>> /\ m \in aged /\ jobs' = [jobs EXCEPT ![m] = "absent"]
        /\ UNCHANGED <<aged, queue, waiting, subs, runner, Jobs!port, Jobs!mounts>>
    BY <1>12 DEF Jobs!Collect, Jobs!Idle
  <2>2. m \notin runner /\ Claimed(m)
    BY <1>m, <2>1 DEF JobsStand, Held, MountStands
  <2>3. \A k \in Mount : MountStands(k)'
    <3> SUFFICES ASSUME NEW k \in Mount
                 PROVE  MountStands(k)'
      OBVIOUS
    <3>1. jobs'[k] = jobs[k] \/ Claimed(k)
      BY <1>t, <2>1, <2>2
    <3> QED BY <1>m, <2>1, <3>1, MountStays
  <2>4. Items(queue') = {} /\ Items(waiting') = {} /\ Len(waiting') = 0 /\ Len(queue') = 0
    BY <2>1, ItemsEmpty
  <2>5. \A j \in runner' : jobs'[j] = "running" /\ Held(j)'
    BY <1>t, <2>1, <2>2 DEF JobsStand, Held, Claimed, Past
  <2> QED BY <2>3, <2>4, <2>5 DEF JobsStand, Orderly
<1>13. ASSUME UNCHANGED <<jobs, aged, queue, waiting, subs, runner, Jobs!port, pc>>
       PROVE  JobsStand'
  BY <1>13, <1>e, <1>m, <1>p, JobsLeft, MountStays
<1>14. ASSUME NEW b \in Backend, Jobs!Switch(b)
       PROVE  JobsStand'
  BY <1>13, <1>14 DEF Jobs!Switch
<1>15. CASE UNCHANGED signIns
  BY <1>13, <1>15 DEF signIns
<1> QED BY <1>2, <1>3, <1>4, <1>5, <1>6, <1>7, <1>9, <1>10, <1>11, <1>12, <1>14, <1>15, ContinueStands, ReceiveStands
        DEF Jobs!Next

JobInv == JobShape /\ KeysFit /\ JobsStand

LEMMA JobInvInit == ASSUME Jobs!Init PROVE JobInv
<1> USE DEF Jobs!Init
<1>1. JobShape
  <2>1. <<>> \in Seq(Jobs!Continuation) /\ <<>> \in Seq(Mount) /\ <<>> \in Seq(Jobs!PortMessage)
    OBVIOUS
  <2> QED BY <2>1, JobAssumptions DEF JobShape, Jobs!TypeOK, Jobs!Optional, Jobs!JobStatus, Jobs!Assumptions
<1>2. Items(queue) = {} /\ Items(waiting) = {} /\ Len(queue) = 0 /\ Len(waiting) = 0
  BY ItemsEmpty
<1>3. \A m \in Mount : Items(inbox[m]) = {} /\ Len(inbox[m]) = 0
  BY ItemsEmpty
<1>4. KeysFit
  BY <1>2, <1>3 DEF KeysFit, MountFits
<1>5. JobsStand
  BY <1>2, <1>3 DEF JobsStand, MountStands, Orderly, Claimed, Past
<1> QED BY <1>1, <1>4, <1>5 DEF JobInv

LEMMA JobInvStep ==
  ASSUME JobInv, [Jobs!Next]_signIns
  PROVE  JobInv'
<1>1. JobShape'
  BY JobShapeStep DEF JobInv
<1>2. KeysFit'
  BY KeysStep, JobAssumptions DEF JobInv
<1>3. JobsStand'
  BY <1>1, StandsStep DEF JobInv
<1> QED BY <1>1, <1>2, <1>3 DEF JobInv

LEMMA JobInvariant == BackgroundSpec => []JobInv
<1>1. BackgroundInit => JobInv
  BY JobInvInit, JobAssumptions DEF BackgroundInit
<1>2. JobInv /\ [BackgroundNext]_<<part, vars, approvals, signIns>> => JobInv'
  <2> SUFFICES ASSUME JobInv, [BackgroundNext]_<<part, vars, approvals, signIns>>
               PROVE  JobInv'
    OBVIOUS
  <2>1. [Jobs!Next]_signIns
    BY DEF BackgroundNext
  <2> QED BY <2>1, JobInvStep
<1> QED BY <1>1, <1>2, PTL DEF BackgroundSpec

(* No window is ever handed a token another backend minted: jobs are joined,*)
(* and reused, only under the key of the window's own backend               *)
(* (bootstrapDedupKey, mintedBy).                                           *)
THEOREM TokensFitWindows == BackgroundSpec => []TokenFitsWindow
<1>1. JobInv => TokenFitsWindow
  BY DEF JobInv, KeysFit, MountFits, TokenFitsWindow, Jobs!TokenFitsWindow
<1> QED BY <1>1, JobInvariant, PTL

(* A finished job stays as it finished until it is collected: what still    *)
(* writes a job's state is of a job that has not finished (onJobProgress,   *)
(* onJobDone, onJobError, startJob).                                        *)
THEOREM FinishedStaysFinished == BackgroundSpec => FinishedIsFinal
<1>1. JobInv /\ [BackgroundNext]_<<part, vars, approvals, signIns>> =>
        [\A j \in Mount : jobs[j] \in Jobs!Finished => jobs'[j] \in {jobs[j], "absent"}]_(Jobs!vars)
  <2> SUFFICES ASSUME JobInv, [BackgroundNext]_<<part, vars, approvals, signIns>>,
                      NEW j \in Mount, jobs[j] \in {"done", "error"}
               PROVE  jobs'[j] \in {jobs[j], "absent"}
    BY DEF Jobs!Finished
  <2>1. [Jobs!Next]_signIns
    BY DEF BackgroundNext
  <2>2. jobs \in [Mount -> Jobs!JobStatus] /\ waiting \in Seq(Mount) /\ Len(waiting) \in Nat
    BY DEF JobInv, JobShape, Jobs!TypeOK
  <2>3. ASSUME queue # <<>>
        PROVE  /\ Jobs!It \in Mount /\ EntryStands(Head(queue)) /\ Jobs!It = Head(queue).id
               /\ Jobs!Saw = Head(queue).saw
    <3>1. Head(queue) \in Items(queue) /\ Jobs!It \in Mount
      BY <2>3, HeadType, ItemsTail DEF JobInv, JobShape, Jobs!TypeOK
    <3> QED BY <3>1 DEF JobInv, JobsStand, Jobs!It, Jobs!Saw
  <2>4. CASE Jobs!DedupRead \/ Jobs!StaleCleared \/ Jobs!Mapped
    <3>1. queue # <<>> /\ Head(queue).at \in {"dedup", "cleared", "mapped"}
      BY <2>4 DEF Jobs!DedupRead, Jobs!StaleCleared, Jobs!Mapped, Jobs!Answered
    <3>2. jobs[Jobs!It] \in {"absent", "pending"}
      BY <2>3, <3>1 DEF EntryStands, Begins
    <3> QED BY <2>2, <2>4, <3>2 DEF Jobs!DedupRead, Jobs!StaleCleared, Jobs!Mapped, Jobs!Allocate
  <2>5. CASE Jobs!ProgressRead
    <3>1. queue # <<>> /\ Head(queue).at = "progress"
      BY <2>5 DEF Jobs!ProgressRead, Jobs!Answered
    <3>2. jobs[Jobs!It] = "running" /\ Jobs!It \in Mount
      BY <2>3, <3>1 DEF EntryStands
    <3> QED BY <2>2, <2>5, <3>2 DEF Jobs!ProgressRead
  <2>6. CASE Jobs!EndRead
    <3>1. queue # <<>> /\ Head(queue).at = "ending"
      BY <2>6 DEF Jobs!EndRead, Jobs!Answered
    <3>2. jobs[Jobs!It] \in {"pending", "running"} /\ Jobs!It \in Mount
      BY <2>3, <3>1 DEF EntryStands
    <3> QED BY <2>2, <2>6, <3>2 DEF Jobs!EndRead
  <2>7. CASE Jobs!OffscreenReady
    <3>1. \A i \in 1..Len(waiting) : jobs[waiting[i]] = "pending"
      BY DEF JobInv, JobsStand, Items
    <3>2. j \notin Jobs!Range(waiting)
      BY <2>2, <3>1 DEF Jobs!Range
    <3> QED BY <2>7, <3>2 DEF Jobs!OffscreenReady
  <2>8. CASE \E m \in Mount : Jobs!Collect(m)
    BY <2>2, <2>8 DEF Jobs!Collect
  <2>9. CASE UNCHANGED jobs
    BY <2>9
  <2>10. ASSUME Jobs!ExistingRead \/ Jobs!Allocated \/ Jobs!HandOver \/ Jobs!Progressed \/ Jobs!Ended
                \/ Jobs!Released \/ Jobs!Listed \/ Jobs!SubscribeRead
         PROVE  UNCHANGED jobs
    BY <2>10 DEF Jobs!ExistingRead, Jobs!Allocated, Jobs!HandOver, Jobs!Progressed, Jobs!Ended, Jobs!Released,
                 Jobs!Listed, Jobs!SubscribeRead, Jobs!storage
  <2>11. ASSUME NEW m \in Mount, Jobs!Handle(m) \/ Jobs!Receive(m)
         PROVE  UNCHANGED jobs
    BY <2>11 DEF Jobs!Handle, Jobs!Admit, Jobs!List, Jobs!Subscribe, Jobs!Unsubscribe, Jobs!Receive, Jobs!ReceiveJobs,
                 Jobs!ReceiveId, Jobs!ReceiveError, Jobs!ReceiveEvent, Jobs!ReceiveDisconnect, Jobs!storage
  <2>12. ASSUME NEW m \in Mount, Jobs!Open(m) \/ Jobs!Close(m) \/ Jobs!ReportProgress(m) \/ Jobs!ReportEnd(m) \/ Jobs!Age(m)
         PROVE  UNCHANGED jobs
    BY <2>12 DEF Jobs!Open, Jobs!Close, Jobs!ReportProgress, Jobs!ReportEnd, Jobs!Age, Jobs!storage
  <2>13. ASSUME Jobs!OffscreenFails \/ Jobs!Evict \/ (\E b \in Backend : Jobs!Switch(b)) \/ UNCHANGED signIns
         PROVE  UNCHANGED jobs
    BY <2>13 DEF Jobs!OffscreenFails, Jobs!Evict, Jobs!Switch, Jobs!storage, signIns
  <2> QED BY <2>1, <2>4, <2>5, <2>6, <2>7, <2>8, <2>9, <2>10, <2>11, <2>12, <2>13 DEF Jobs!Next, Jobs!Continue
<1> QED BY <1>1, JobInvariant, PTL DEF BackgroundSpec, FinishedIsFinal, Jobs!FinishedIsFinal

--------------------------------------------------------------------------------
(* Nothing left of a job at rest.                                           *)

(* Who still has a job in hand: the offscreen document or the runner, or a  *)
(* continuation of the worker that is at one of these steps.                *)
Carried(j, steps) ==
  \/ j \in Items(waiting) \cup runner
  \/ \E c \in Items(queue) : c.id = j /\ c.at \in steps

ForJob == {"allocated", "mapped", "running", "ending"}
ForKey == {"mapped", "running", "ending", "ended"}

(* A job on record as under way, or pointed at by a key, is in hand.        *)
CarriedOn ==
  /\ \A c \in Items(queue) : c.at = "ending" => c.saw # "absent"
  /\ \A j \in Mount : jobs[j] \in Jobs!Live => Carried(j, ForJob)
  /\ \A b \in Backend, j \in Mount : dedup[b] = j => Carried(j, ForKey)

(* Steps that take nothing from the worker's hands.                         *)
LEMMA StillCarried ==
  ASSUME CarriedOn,
         Items(queue) \subseteq Items(queue'),
         Items(waiting) \cup runner \subseteq Items(waiting') \cup runner',
         \A c \in Items(queue') \ Items(queue) : c.at = "ending" => c.saw # "absent",
         \A j \in Mount : jobs'[j] \in Jobs!Live => jobs[j] \in Jobs!Live,
         dedup' = dedup
  PROVE  CarriedOn'
BY DEF CarriedOn, Carried

LEMMA ContinueCarries ==
  ASSUME JobInv, JobShape', CarriedOn, Jobs!Continue
  PROVE  CarriedOn'
<1>h. PICK h : h = Head(queue)
  OBVIOUS
<1>q. /\ queue # <<>> /\ queue \in Seq(Jobs!Continuation) /\ Jobs!It = h.id /\ Jobs!Saw = h.saw
      /\ h.id \in Mount
      /\ waiting \in Seq(Mount) /\ None \notin Mount
      /\ jobs \in [Mount -> Jobs!JobStatus] /\ dedup \in [Backend -> Mount \cup {None}]
  <2>1. queue # <<>>
    BY DEF Jobs!Continue, Jobs!DedupRead, Jobs!ExistingRead, Jobs!StaleCleared, Jobs!Allocated, Jobs!Mapped,
           Jobs!HandOver, Jobs!ProgressRead, Jobs!Progressed, Jobs!EndRead, Jobs!Ended, Jobs!Released,
           Jobs!Listed, Jobs!SubscribeRead, Jobs!Answered
  <2>2. Jobs!It \in Mount
    BY <2>1, HeadType DEF JobInv
  <2>3. /\ queue \in Seq(Jobs!Continuation) /\ waiting \in Seq(Mount)
        /\ jobs \in [Mount -> Jobs!JobStatus] /\ dedup \in [Backend -> Mount \cup {None}]
    BY DEF JobInv, JobShape, Jobs!TypeOK, Jobs!Optional
  <2>4. Jobs!It = h.id /\ Jobs!Saw = h.saw /\ None \notin Mount
    BY <1>h, JobAssumptions DEF Jobs!It, Jobs!Saw, Jobs!Assumptions
  <2> QED BY <2>1, <2>2, <2>3, <2>4
<1>t. /\ Items(queue) = {h} \cup Items(Tail(queue)) /\ Tail(queue) \in Seq(Jobs!Continuation)
      /\ EntryStands(h) /\ EntryFits(h) /\ h \in Items(queue)
      /\ (h.at = "ending" => h.saw # "absent")
  <2>1. Items(queue) = {h} \cup Items(Tail(queue)) /\ Tail(queue) \in Seq(Jobs!Continuation)
    BY <1>h, <1>q, ItemsTail
  <2> QED BY <2>1 DEF JobInv, JobsStand, KeysFit, CarriedOn
<1>m. /\ h \in Jobs!Continuation
      /\ \A at \in {"allocated", "mapped", "running", "cleared"} : Jobs!Start(at, h.id) \in Jobs!Continuation
      /\ \A e \in Mount : Jobs!ReadExisting(h.id, e) \in Jobs!Continuation
      /\ \A s \in Jobs!JobStatus :
           /\ Jobs!Progress("progressed", h.id, s) \in Jobs!Continuation
           /\ \A to \in {"done", "error", "refused"} :
                /\ Jobs!End("ended", h.id, to, s) \in Jobs!Continuation
                /\ Jobs!End("released", h.id, to, s) \in Jobs!Continuation
  <2>1. JobShape /\ "absent" \in Jobs!JobStatus
    BY DEF JobInv, Jobs!JobStatus
  <2> QED BY <1>h, <1>q, <2>1, HeadType, ContinuationMade
<1>a. ASSUME NEW c \in Jobs!Continuation, Jobs!Then(c)
      PROVE  Items(queue') = Items(Tail(queue)) \cup {c}
  <2>1. Items(Append(Tail(queue), c)) = Items(Tail(queue)) \cup {c}
    <3> DEFINE rest == Tail(queue)
    <3>1. rest \in Seq(Jobs!Continuation)
      BY <1>t
    <3>2. c \in Jobs!Continuation
      BY <1>a
    <3> HIDE DEF rest
    <3>3. Items(Append(rest, c)) = Items(rest) \cup {c}
      BY <3>1, <3>2, ItemsAppend
    <3> QED BY <3>3 DEF rest
  <2> QED BY <1>a, <2>1 DEF Jobs!Then
<1>r. ASSUME Jobs!Return
      PROVE  Items(queue') = Items(Tail(queue)) \cup {}
  BY <1>r DEF Jobs!Return
<1>1. ASSUME Items(Tail(queue)) \subseteq Items(queue'),
             \A c \in Items(queue') \ Items(Tail(queue)) : c.at = "ending" => c.saw # "absent",
             Items(waiting) \cup runner \subseteq Items(waiting') \cup runner',
             \A j \in Mount : jobs'[j] \in Jobs!Live =>
               \/ jobs[j] \in Jobs!Live /\ (j # h.id \/ h.at \notin ForJob)
               \/ Carried(j, ForJob)',
             \A b \in Backend, j \in Mount : dedup'[b] = j =>
               \/ dedup[b] = j /\ (j # h.id \/ h.at \notin ForKey)
               \/ Carried(j, ForKey)'
      PROVE  CarriedOn'
  <2>1. ASSUME NEW j, NEW steps, Carried(j, steps), j # h.id \/ h.at \notin steps
        PROVE  Carried(j, steps)'
    BY <1>1, <1>t, <2>1 DEF Carried
  <2>2. \A c \in Items(queue') : c.at = "ending" => c.saw # "absent"
    BY <1>1, <1>t DEF CarriedOn
  <2>3. \A j \in Mount : jobs'[j] \in Jobs!Live => Carried(j, ForJob)'
    <3> SUFFICES ASSUME NEW j \in Mount, jobs'[j] \in Jobs!Live, ~Carried(j, ForJob)'
                 PROVE  FALSE
      OBVIOUS
    <3>1. jobs[j] \in Jobs!Live /\ (j # h.id \/ h.at \notin ForJob)
      BY <1>1
    <3>2. Carried(j, ForJob)
      BY <3>1 DEF CarriedOn
    <3> QED BY <2>1, <3>1, <3>2
  <2>4. \A b \in Backend, j \in Mount : dedup'[b] = j => Carried(j, ForKey)'
    <3> SUFFICES ASSUME NEW b \in Backend, NEW j \in Mount, dedup'[b] = j, ~Carried(j, ForKey)'
                 PROVE  FALSE
      OBVIOUS
    <3>1. dedup[b] = j /\ (j # h.id \/ h.at \notin ForKey)
      BY <1>1
    <3>2. Carried(j, ForKey)
      BY <3>1 DEF CarriedOn
    <3> QED BY <2>1, <3>1, <3>2
  <2> QED BY <2>2, <2>3, <2>4 DEF CarriedOn
(* Steps that end with nothing new in hand, of a job that is not.           *)
<1>2. ASSUME Items(Tail(queue)) \subseteq Items(queue'),
             \A c \in Items(queue') \ Items(Tail(queue)) : c.at # "ending", h.at \notin ForJob \cup ForKey,
             UNCHANGED <<jobs, waiting, runner>>,
             \A b \in Backend, j \in Mount : dedup'[b] = j => dedup[b] = j
      PROVE  CarriedOn'
  BY <1>1, <1>2
<1>3. CASE Jobs!Progressed \/ Jobs!Released \/ Jobs!Listed \/ Jobs!SubscribeRead
  <2>1. Jobs!Return /\ UNCHANGED <<jobs, dedup, waiting, runner>>
    BY <1>3 DEF Jobs!Progressed, Jobs!Released, Jobs!Listed, Jobs!SubscribeRead, Jobs!storage
  <2>2. h.at \in {"progressed", "released", "list", "subscribe"}
    BY <1>h, <1>3 DEF Jobs!Progressed, Jobs!Released, Jobs!Listed, Jobs!SubscribeRead, Jobs!Answered
  <2> QED BY <1>r, <1>2, <2>1, <2>2 DEF ForJob, ForKey
<1>4. CASE Jobs!ExistingRead
  <2>1. UNCHANGED <<jobs, waiting, runner>> /\ h.at = "existing"
    BY <1>h, <1>4 DEF Jobs!ExistingRead, Jobs!Answered
  <2>2. CASE Jobs!Return /\ UNCHANGED dedup
    BY <1>r, <1>2, <2>1, <2>2 DEF ForJob, ForKey
  <2>3. CASE /\ dedup' = [dedup EXCEPT ![Jobs!Key(Jobs!It)] = None]
             /\ Jobs!Then(Jobs!Start("cleared", Jobs!It))
    <3>1. Jobs!Start("cleared", Jobs!It) \in Jobs!Continuation /\ Jobs!Start("cleared", Jobs!It).at = "cleared"
      BY <1>h, <1>q, <1>m DEF Jobs!Start
    <3>2. \A b \in Backend, j \in Mount : dedup'[b] = j => dedup[b] = j
      BY <1>q, <2>3
    <3>3. Items(queue') = Items(Tail(queue)) \cup {Jobs!Start("cleared", Jobs!It)}
      BY <1>a, <2>3, <3>1
    <3> QED BY <1>2, <2>1, <3>1, <3>2, <3>3 DEF ForJob, ForKey
  <2> QED BY <1>4, <2>2, <2>3 DEF Jobs!ExistingRead
<1>5. ASSUME Jobs!Allocate(h.id), UNCHANGED <<dedup, waiting, runner>>, h.at \in {"dedup", "cleared"}
      PROVE  CarriedOn'
  <2> DEFINE c == Jobs!Start("allocated", h.id)
  <2>1. c \in Jobs!Continuation /\ c.at = "allocated" /\ c.id = h.id
    BY <1>h, <1>q, <1>m DEF Jobs!Start
  <2> HIDE DEF c
  <2>2. Items(queue') = Items(Tail(queue)) \cup {c}
    BY <1>5, <1>a, <2>1 DEF Jobs!Allocate, c
  <2>3. \A j \in Mount : j # h.id => jobs'[j] = jobs[j]
    BY <1>5, <1>q DEF Jobs!Allocate
  <2>4. Carried(h.id, ForJob)'
    BY <2>1, <2>2 DEF Carried, ForJob
  <2> QED BY <1>1, <1>5, <2>1, <2>2, <2>3, <2>4 DEF ForKey, ForJob
<1>6. CASE Jobs!DedupRead \/ Jobs!StaleCleared
  <2>1. h.at \in {"dedup", "cleared"} /\ UNCHANGED <<dedup, waiting, runner>>
    BY <1>h, <1>6 DEF Jobs!DedupRead, Jobs!StaleCleared, Jobs!Answered
  <2>2. CASE Jobs!Allocate(h.id)
    BY <1>5, <2>1, <2>2
  <2>3. CASE Jobs!DedupRead /\ ~Jobs!Allocate(h.id)
    <3> DEFINE c == Jobs!ReadExisting(Jobs!It, Jobs!Saw)
    <3>1. Jobs!Then(c) /\ UNCHANGED jobs /\ h.saw # None /\ h.at = "dedup"
      BY <1>h, <1>q, <2>3 DEF Jobs!DedupRead, Jobs!Answered
    <3>2. c.at = "existing" /\ c \in Jobs!Continuation
      <4>1. h \in Jobs!Continuation
        BY <1>m
      <4>2. h.saw \in Mount
        BY <3>1, <4>1, ContinuationFields
      <4>3. c = Jobs!ReadExisting(h.id, h.saw)
        BY <1>q
      <4> QED BY <1>m, <4>2, <4>3 DEF Jobs!ReadExisting
    <3> HIDE DEF c
    <3>3. Items(queue') = Items(Tail(queue)) \cup {c}
      BY <1>a, <3>1, <3>2
    <3> QED BY <1>2, <2>1, <3>1, <3>2, <3>3 DEF ForJob, ForKey
  <2> QED BY <1>6, <1>q, <2>2, <2>3 DEF Jobs!StaleCleared
<1>7. CASE Jobs!Allocated
  <2> DEFINE c == Jobs!Start("mapped", h.id)
  <2>1. c \in Jobs!Continuation /\ c.at = "mapped" /\ c.id = h.id
    BY <1>h, <1>q, <1>m DEF Jobs!Start
  <2>2. /\ Jobs!Then(c) /\ dedup' = [dedup EXCEPT ![Jobs!Key(h.id)] = h.id] /\ UNCHANGED <<jobs, waiting, runner>>
        /\ h.at = "allocated"
    BY <1>h, <1>7, <1>q DEF Jobs!Allocated, Jobs!Answered
  <2> HIDE DEF c
  <2>3. Items(queue') = Items(Tail(queue)) \cup {c}
    BY <1>a, <2>1, <2>2
  <2>4. Carried(h.id, ForJob)' /\ Carried(h.id, ForKey)'
    BY <2>1, <2>3 DEF Carried, ForJob, ForKey
  <2>5. \A b \in Backend : dedup'[b] = dedup[b] \/ dedup'[b] = h.id
    BY <1>q, <2>2
  <2>6. \A b \in Backend, j \in Mount : dedup'[b] = j =>
          \/ dedup[b] = j /\ (j # h.id \/ h.at \notin ForKey)
          \/ Carried(j, ForKey)'
    BY <2>2, <2>4, <2>5 DEF ForKey
  <2> QED BY <1>1, <2>1, <2>2, <2>3, <2>4, <2>6
<1>8. CASE Jobs!Mapped
  <2>1. h.at = "mapped" /\ UNCHANGED <<dedup, runner>>
    BY <1>h, <1>8 DEF Jobs!Mapped, Jobs!Answered
  <2>2. CASE waiting' = Append(waiting, Jobs!It) /\ Jobs!Return /\ UNCHANGED jobs
    <3>1. Items(waiting') = Items(waiting) \cup {h.id}
      BY <1>q, <2>2, ItemsAppend
    <3>2. Carried(h.id, ForJob)' /\ Carried(h.id, ForKey)'
      BY <3>1 DEF Carried
    <3>3. \A b \in Backend, j \in Mount : dedup'[b] = j =>
          \/ dedup[b] = j /\ (j # h.id \/ h.at \notin ForKey)
          \/ Carried(j, ForKey)'
      BY <2>1, <3>2
    <3> QED BY <1>1, <1>r, <2>1, <2>2, <3>1, <3>2, <3>3
  <2>3. CASE /\ jobs' = [jobs EXCEPT ![Jobs!It] = "running"]
             /\ Jobs!Then(Jobs!Start("running", Jobs!It)) /\ UNCHANGED waiting
    <3> DEFINE c == Jobs!Start("running", Jobs!It)
    <3>1. c \in Jobs!Continuation /\ c.at = "running" /\ c.id = h.id
      BY <1>h, <1>q, <1>m DEF Jobs!Start
    <3>2. Items(queue') = Items(Tail(queue)) \cup {c}
      BY <1>a, <2>3, <3>1
    <3> HIDE DEF c
    <3>3. Carried(h.id, ForJob)' /\ Carried(h.id, ForKey)'
      BY <3>1, <3>2 DEF Carried, ForJob, ForKey
    <3>4. \A j \in Mount : j # h.id => jobs'[j] = jobs[j]
      BY <1>q, <2>3
    <3>5. \A b \in Backend, j \in Mount : dedup'[b] = j =>
          \/ dedup[b] = j /\ (j # h.id \/ h.at \notin ForKey)
          \/ Carried(j, ForKey)'
      BY <2>1, <3>3
    <3> QED BY <1>1, <2>1, <2>3, <3>1, <3>2, <3>3, <3>4, <3>5
  <2> QED BY <1>8, <2>2, <2>3 DEF Jobs!Mapped
<1>9. CASE Jobs!HandOver
  <2>1. Jobs!Return /\ runner' = runner \cup {h.id} /\ UNCHANGED <<jobs, dedup, waiting>>
    BY <1>9, <1>q DEF Jobs!HandOver, Jobs!storage
  <2>2. Carried(h.id, ForJob)' /\ Carried(h.id, ForKey)'
    BY <2>1 DEF Carried
  <2>3. \A b \in Backend, j \in Mount : dedup'[b] = j =>
          \/ dedup[b] = j /\ (j # h.id \/ h.at \notin ForKey)
          \/ Carried(j, ForKey)'
    BY <2>1, <2>2
  <2> QED BY <1>1, <1>r, <2>1, <2>2, <2>3
<1>10. CASE Jobs!ProgressRead
  <2>1. h.at = "progress" /\ UNCHANGED <<dedup, waiting, runner>>
    BY <1>h, <1>10 DEF Jobs!ProgressRead, Jobs!Answered
  <2>2. h.saw = "running" /\ jobs[h.id] = "running"
    BY <1>t, <2>1 DEF EntryStands
  <2>3. UNCHANGED jobs
    BY <1>10, <1>q, <2>2 DEF Jobs!ProgressRead
  <2> DEFINE c == Jobs!Progress("progressed", Jobs!It, Jobs!Saw)
  <2>4. Jobs!Then(c)
    BY <1>10, <1>q, <2>2 DEF Jobs!ProgressRead
  <2>5. c \in Jobs!Continuation /\ c.at = "progressed"
    <3>1. "running" \in Jobs!JobStatus /\ c = Jobs!Progress("progressed", h.id, "running")
      BY <1>q, <2>2 DEF Jobs!JobStatus, Jobs!Live
    <3> QED BY <1>m, <3>1 DEF Jobs!Progress
  <2> HIDE DEF c
  <2>6. Items(queue') = Items(Tail(queue)) \cup {c}
    BY <1>a, <2>4, <2>5
  <2> QED BY <1>2, <2>1, <2>3, <2>5, <2>6 DEF ForJob, ForKey
<1>11. CASE Jobs!EndRead
  <2>1. h.at = "ending" /\ UNCHANGED <<dedup, waiting, runner>>
    BY <1>h, <1>11 DEF Jobs!EndRead, Jobs!Answered
  <2>2. h.saw # "absent"
    BY <1>t, <2>1
  <2> DEFINE c == Jobs!End("ended", Jobs!It, Head(queue).to, Jobs!Saw)
  <2>3. Jobs!Then(c) /\ jobs' = [jobs EXCEPT ![Jobs!It] = Jobs!EndStatus(Head(queue).to)]
    BY <1>11, <1>q, <2>2 DEF Jobs!EndRead
  <2>4. c \in Jobs!Continuation /\ c.at = "ended" /\ c.id = h.id /\ jobs'[h.id] \in {"done", "error"}
    <3>1. h \in Jobs!Continuation
      BY <1>m
    <3>2. h.to \in {"done", "error", "refused"} /\ h.saw \in Jobs!JobStatus
      BY <2>1, <3>1, ContinuationFields
    <3>3. c = Jobs!End("ended", h.id, h.to, h.saw)
      BY <1>h, <1>q
    <3>4. Jobs!EndStatus(h.to) \in {"done", "error"} /\ jobs'[h.id] = Jobs!EndStatus(h.to)
      BY <1>h, <1>q, <2>3, <3>2 DEF Jobs!EndStatus
    <3> QED BY <1>m, <3>2, <3>3, <3>4 DEF Jobs!End
  <2> HIDE DEF c
  <2>5. Items(queue') = Items(Tail(queue)) \cup {c}
    BY <1>a, <2>3, <2>4
  <2>6. Carried(h.id, ForKey)'
    BY <2>4, <2>5 DEF Carried, ForKey
  <2>7. \A j \in Mount : jobs'[j] \in Jobs!Live => jobs[j] \in Jobs!Live /\ j # h.id
    BY <1>q, <2>3, <2>4 DEF Jobs!Live
  <2>8. \A b \in Backend, j \in Mount : dedup'[b] = j =>
          \/ dedup[b] = j /\ (j # h.id \/ h.at \notin ForKey)
          \/ Carried(j, ForKey)'
    BY <2>1, <2>6
  <2> QED BY <1>1, <2>1, <2>4, <2>5, <2>7, <2>8
<1>12. CASE Jobs!Ended
  <2>1. h.at = "ended" /\ UNCHANGED <<jobs, waiting, runner>>
    BY <1>h, <1>12 DEF Jobs!Ended, Jobs!Answered
  <2> DEFINE c == Jobs!End("released", Jobs!It, Head(queue).to, Jobs!Saw)
  <2>2. Jobs!Then(c) /\ dedup' = [dedup EXCEPT ![Jobs!Key(h.id)] = None]
    BY <1>12, <1>q DEF Jobs!Ended
  <2>3. c \in Jobs!Continuation /\ c.at = "released"
    <3>1. h \in Jobs!Continuation
      BY <1>m
    <3>2. h.to \in {"done", "error", "refused"} /\ h.saw \in Jobs!JobStatus
      BY <2>1, <3>1, ContinuationFields
    <3>3. c = Jobs!End("released", h.id, h.to, h.saw)
      BY <1>h, <1>q
    <3> QED BY <1>m, <3>2, <3>3 DEF Jobs!End
  <2> HIDE DEF c
  <2>4. Items(queue') = Items(Tail(queue)) \cup {c}
    BY <1>a, <2>2, <2>3
  <2>5. \A b \in Backend, j \in Mount : dedup'[b] = j => dedup[b] = j /\ j # h.id
    <3> SUFFICES ASSUME NEW b \in Backend, NEW j \in Mount, dedup'[b] = j
                 PROVE  dedup[b] = j /\ j # h.id
      OBVIOUS
    <3>1. b # Jobs!Key(h.id) /\ dedup[b] = j
      BY <1>q, <2>2
    <3>2. backend[j] = b
      BY <1>q, <3>1 DEF JobInv, KeysFit
    <3> QED BY <3>1, <3>2 DEF Jobs!Key
  <2> QED BY <1>1, <2>1, <2>3, <2>4, <2>5 DEF ForJob
<1> QED BY <1>3, <1>4, <1>6, <1>7, <1>8, <1>9, <1>10, <1>11, <1>12 DEF Jobs!Continue

LEMMA CarriedStep ==
  ASSUME ~budget.busy, HasOffscreen, JobInv, JobShape', CarriedOn, [Jobs!Next]_signIns
  PROVE  CarriedOn'
<1>t. /\ queue \in Seq(Jobs!Continuation) /\ waiting \in Seq(Mount) /\ runner \subseteq Mount
      /\ jobs \in [Mount -> Jobs!JobStatus] /\ dedup \in [Backend -> Mount \cup {None}]
      /\ queue' \in Seq(Jobs!Continuation) /\ waiting' \in Seq(Mount)
  BY DEF JobInv, JobShape, Jobs!TypeOK, Jobs!Optional
<1>m. \A m \in Mount :
        /\ Jobs!Start("running", m) \in Jobs!Continuation
        /\ \A to \in {"done", "error", "refused"} : Jobs!Ending(m, to) \in Jobs!Continuation
  <2>1. JobShape /\ "absent" \in Jobs!JobStatus
    BY DEF JobInv, Jobs!JobStatus
  <2> QED BY <2>1, ContinuationMade
<1>l. Len(waiting) \in Nat /\ DOMAIN waiting = 1..Len(waiting) /\ \A i \in 1..Len(waiting) : waiting[i] \in Mount
  BY <1>t, ElementOfSeq
<1>a. ASSUME NEW c \in Jobs!Continuation, queue' = Append(queue, c)
      PROVE  Items(queue') = Items(queue) \cup {c}
  BY <1>a, <1>t, ItemsAppend
(* What one step for each start in waiting makes of them.                   *)
<1>1. ASSUME NEW made, DOMAIN made = 1..Len(waiting), made = [i \in 1..Len(waiting) |-> made[i]],
             NEW at \in {"running", "ending"},
             \A i \in 1..Len(waiting) :
               /\ made[i] \in Jobs!Continuation /\ made[i].id = waiting[i] /\ made[i].at = at
               /\ at = "ending" => made[i].saw # "absent",
             queue' = queue \o made, waiting' = <<>>, UNCHANGED <<runner, dedup>>,
             \A j \in Mount : jobs'[j] \in Jobs!Live => jobs[j] \in Jobs!Live \/ j \in Items(waiting)
      PROVE  CarriedOn'
  <2>1. made \in Seq(Jobs!Continuation) /\ Len(made) = Len(waiting)
    BY <1>1, WaitingQueued DEF JobInv
  <2>2. Items(queue') = Items(queue) \cup Items(made)
    <3>1. Items(queue \o made) = Items(queue) \cup Items(made)
      BY <1>t, <2>1, ItemsConcat
    <3> QED BY <1>1, <3>1
  <2>3. ASSUME NEW j \in Items(waiting)
        PROVE  \E c \in Items(queue') : c.id = j /\ c.at = at
    <3>1. PICK i \in 1..Len(waiting) : j = waiting[i]
      BY DEF Items
    <3>2. made[i] \in Items(made) /\ made[i].id = j /\ made[i].at = at
      BY <1>1, <2>1, <3>1 DEF Items
    <3> QED BY <2>2, <3>2
  <2>4. ASSUME NEW j, NEW steps, at \in steps, Carried(j, steps)
        PROVE  Carried(j, steps)'
    <3>1. CASE j \in Items(waiting)
      BY <2>3, <2>4, <3>1 DEF Carried
    <3>2. CASE j \in runner
      BY <1>1, <3>2 DEF Carried
    <3>3. CASE \E c \in Items(queue) : c.id = j /\ c.at \in steps
      BY <2>2, <3>3 DEF Carried
    <3> QED BY <2>4, <3>1, <3>2, <3>3 DEF Carried
  <2>5. \A c \in Items(made) : c.at = "ending" => c.saw # "absent"
    BY <1>1, <2>1 DEF Items
  <2>6. at \in ForJob /\ at \in ForKey
    BY <1>1 DEF ForJob, ForKey
  <2>7. \A c \in Items(queue') : c.at = "ending" => c.saw # "absent"
    BY <2>2, <2>5 DEF CarriedOn
  <2>8. \A j \in Mount : jobs'[j] \in Jobs!Live => Carried(j, ForJob)'
    <3>1. \A j \in Items(waiting) : Carried(j, ForJob)
      BY DEF Carried
    <3> QED BY <1>1, <2>4, <2>6, <3>1 DEF CarriedOn
  <2>9. \A b \in Backend, j \in Mount : dedup'[b] = j => Carried(j, ForKey)'
    <3>1. dedup' = dedup
      BY <1>1
    <3> QED BY <2>4, <2>6, <3>1 DEF CarriedOn
  <2> QED BY <2>7, <2>8, <2>9 DEF CarriedOn
<1>2. CASE Jobs!OffscreenReady
  <2> DEFINE made == [i \in 1..Len(waiting) |-> Jobs!Start("running", waiting[i])]
  <2>1. \A i \in 1..Len(waiting) : made[i] \in Jobs!Continuation /\ made[i].id = waiting[i] /\ made[i].at = "running"
    BY <1>l, <1>m DEF Jobs!Start
  <2>2. DOMAIN made = 1..Len(waiting) /\ made = [i \in 1..Len(waiting) |-> made[i]]
    OBVIOUS
  <2>3. Jobs!Range(waiting) = Items(waiting)
    BY <1>l DEF Jobs!Range, Items
  <2>4. /\ queue' = queue \o made /\ waiting' = <<>> /\ UNCHANGED <<runner, dedup>>
        /\ \A j \in Mount : jobs'[j] \in Jobs!Live => jobs[j] \in Jobs!Live \/ j \in Items(waiting)
    BY <1>2, <1>l, <2>3 DEF Jobs!OffscreenReady
  <2> HIDE DEF made
  <2> QED BY <1>1, <2>1, <2>2, <2>4
<1>3. CASE Jobs!OffscreenFails
  <2> DEFINE made == [i \in 1..Len(waiting) |-> Jobs!Ending(waiting[i], "refused")]
  <2>0. \A i \in 1..Len(waiting) : jobs[waiting[i]] = "pending"
    BY DEF JobInv, JobsStand, Items
  <2>1. \A i \in 1..Len(waiting) :
          /\ made[i] \in Jobs!Continuation /\ made[i].id = waiting[i] /\ made[i].at = "ending"
          /\ made[i].saw # "absent"
    BY <1>l, <1>m, <2>0 DEF Jobs!Ending, Jobs!End
  <2>2. DOMAIN made = 1..Len(waiting) /\ made = [i \in 1..Len(waiting) |-> made[i]]
    OBVIOUS
  <2>4. queue' = queue \o made /\ waiting' = <<>> /\ UNCHANGED <<runner, dedup, jobs>>
    BY <1>3, <1>l DEF Jobs!OffscreenFails, Jobs!storage
  <2> HIDE DEF made
  <2> QED BY <1>1, <2>1, <2>2, <2>4
<1>4. ASSUME NEW c \in Jobs!Continuation, c.at # "ending", queue' = Append(queue, c),
             UNCHANGED <<jobs, dedup, waiting, runner>>
      PROVE  CarriedOn'
  BY <1>4, <1>a, StillCarried
<1>5. ASSUME NEW m \in Mount, Jobs!Handle(m) \/ Jobs!ReportProgress(m)
      PROVE  CarriedOn'
  <2>1. UNCHANGED <<jobs, dedup, waiting, runner>>
    BY <1>5 DEF Jobs!Handle, Jobs!Admit, Jobs!List, Jobs!Subscribe, Jobs!Unsubscribe, Jobs!ReportProgress,
                Jobs!storage
  <2>2. CASE UNCHANGED queue
    BY <2>1, <2>2, StillCarried
  <2>3. CASE ~UNCHANGED queue
    <3>1. PICK c : /\ c.at # "ending" /\ queue' = Append(queue, c)
                   /\ c \in {Jobs!ReadDedup(m), Jobs!ReadAll(m), Jobs!ReadAwaited(m),
                             Jobs!Progress("progress", m, jobs[m])}
      BY <1>5, <2>3 DEF Jobs!Handle, Jobs!Admit, Jobs!List, Jobs!Subscribe, Jobs!Unsubscribe,
             Jobs!ReportProgress, Jobs!ReadDedup, Jobs!ReadAll, Jobs!ReadAwaited, Jobs!Progress
    <3>2. c \in Jobs!Continuation
      <4>1. queue' = Append(queue, c) /\ Append(queue, c) \in Seq(Jobs!Continuation)
        BY <1>t, <3>1
      <4>2. Len(queue) \in Nat /\ Len(Append(queue, c)) = Len(queue) + 1 /\ Append(queue, c)[Len(queue) + 1] = c
        BY <1>t, AppendProperties, LenProperties
      <4> QED BY <4>1, <4>2, ElementOfSeq
    <3> QED BY <1>4, <2>1, <3>1, <3>2
  <2> QED BY <2>2, <2>3
<1>6. ASSUME NEW j \in Mount, Jobs!ReportEnd(j)
      PROVE  CarriedOn'
  <2>1. PICK to \in Jobs!Finished : queue' = Append(queue, Jobs!Ending(j, to))
    BY <1>6 DEF Jobs!ReportEnd
  <2> DEFINE c == Jobs!Ending(j, to)
  <2>2. jobs[j] = "running"
    BY <1>6 DEF Jobs!ReportEnd, JobInv, JobsStand
  <2>3. c \in Jobs!Continuation /\ c.at = "ending" /\ c.id = j /\ c.saw # "absent"
    BY <1>m, <2>1, <2>2 DEF Jobs!Ending, Jobs!End, Jobs!Finished
  <2> HIDE DEF c
  <2>4. Items(queue') = Items(queue) \cup {c}
    BY <1>a, <2>1, <2>3 DEF c
  <2>5. runner' = runner \ {j} /\ UNCHANGED <<jobs, dedup, waiting>>
    BY <1>6 DEF Jobs!ReportEnd, Jobs!storage
  <2>6. ASSUME NEW k, NEW steps, Carried(k, steps), "ending" \in steps
        PROVE  Carried(k, steps)'
    BY <2>3, <2>4, <2>5, <2>6 DEF Carried
  <2>7. \A k \in Mount : jobs'[k] \in Jobs!Live => Carried(k, ForJob)'
    BY <2>5, <2>6 DEF CarriedOn, ForJob
  <2>8. \A b \in Backend, k \in Mount : dedup'[b] = k => Carried(k, ForKey)'
    BY <2>5, <2>6 DEF CarriedOn, ForKey
  <2> QED BY <2>3, <2>4, <2>7, <2>8 DEF CarriedOn
<1>7. CASE Jobs!Evict
  <2>1. queue = <<>> /\ waiting = <<>> /\ UNCHANGED <<jobs, dedup, queue, waiting, runner>>
    BY <1>7 DEF Jobs!Evict, Jobs!Idle, Jobs!storage
  <2> QED BY <2>1, StillCarried
<1>8. ASSUME NEW m \in Mount, Jobs!Collect(m)
      PROVE  CarriedOn'
  <2>1. UNCHANGED <<dedup, queue, waiting, runner>> /\ jobs' = [jobs EXCEPT ![m] = "absent"]
    BY <1>8 DEF Jobs!Collect
  <2>2. \A j \in Mount : jobs'[j] \in Jobs!Live => jobs[j] \in Jobs!Live
    BY <1>t, <2>1 DEF Jobs!Live
  <2> QED BY <2>1, <2>2, StillCarried
<1>9. ASSUME UNCHANGED <<jobs, dedup, queue, waiting, runner>>
      PROVE  CarriedOn'
  BY <1>9, StillCarried
<1>10. ASSUME NEW m \in Mount, Jobs!Receive(m) \/ Jobs!Open(m) \/ Jobs!Close(m) \/ Jobs!Age(m)
       PROVE  UNCHANGED <<jobs, dedup, queue, waiting, runner>>
  BY <1>10 DEF Jobs!Receive, Jobs!ReceiveJobs, Jobs!ReceiveId, Jobs!ReceiveError, Jobs!ReceiveEvent,
               Jobs!ReceiveDisconnect, Jobs!Open, Jobs!Close, Jobs!Age, Jobs!storage, Jobs!worker
<1>11. ASSUME (\E b \in Backend : Jobs!Switch(b)) \/ UNCHANGED signIns
       PROVE  UNCHANGED <<jobs, dedup, queue, waiting, runner>>
  BY <1>11 DEF Jobs!Switch, Jobs!storage, Jobs!worker, signIns
<1> QED BY <1>2, <1>3, <1>5, <1>6, <1>7, <1>8, <1>9, <1>10, <1>11, ContinueCarries DEF Jobs!Next

(* NothingLeftAtRest: with the offscreen document, and a worker that is not *)
(* evicted with work in hand, no job stays on record as under way and no    *)
(* key points at one once nobody works: whatever failed, the next sign-in   *)
(* does not join a job nobody runs (jobs/coordinator.ts, startJob's catch). *)
THEOREM NothingLeft ==
  ASSUME HasOffscreen
  PROVE  BackgroundSpec => []NothingLeftAtRest
<1>1. BackgroundInit => CarriedOn
  <2> SUFFICES ASSUME BackgroundInit PROVE CarriedOn
    OBVIOUS
  <2>1. queue = <<>> /\ Items(queue) = {}
    BY ItemsEmpty DEF BackgroundInit, Jobs!Init
  <2>2. /\ \A j \in Mount : jobs[j] = "absent"
        /\ \A b \in Backend : dedup[b] = None
        /\ None \notin Mount
    BY JobAssumptions DEF BackgroundInit, Jobs!Init, Jobs!Assumptions
  <2> QED BY <2>1, <2>2 DEF CarriedOn, Jobs!Live
<1>2. /\ JobInv /\ JobInv' /\ (~budget.busy => CarriedOn)
      /\ [BackgroundNext]_<<part, vars, approvals, signIns>>
      => (~budget.busy => CarriedOn)'
  <2>1. [BackgroundNext]_<<part, vars, approvals, signIns>> => [Jobs!Next]_signIns
    BY DEF BackgroundNext
  <2> QED BY <2>1, BusyStays, CarriedStep DEF JobInv
<1>3. JobInv /\ (~budget.busy => CarriedOn) => NothingLeftAtRest
  <2> SUFFICES ASSUME JobInv, CarriedOn, Jobs!AtRest
               PROVE  /\ \A j \in Mount : jobs[j] \notin Jobs!Live
                      /\ \A b \in Backend : dedup[b] = None
    BY DEF NothingLeftAtRest, Jobs!NothingLeftAtRest
  <2>1. Items(queue) = {} /\ Items(waiting) = {} /\ runner = {}
    BY ItemsEmpty DEF Jobs!AtRest, Jobs!Idle
  <2>2. \A j, steps : ~Carried(j, steps)
    BY <2>1 DEF Carried
  <2>3. \A b \in Backend : dedup[b] \in Mount \cup {None}
    BY DEF JobInv, JobShape, Jobs!TypeOK, Jobs!Optional
  <2> QED BY <2>2, <2>3 DEF CarriedOn
<1> QED BY <1>1, <1>2, <1>3, JobInvariant, PTL DEF BackgroundSpec
================================================================================
