---------------------------- MODULE ReceiveSubaddress ----------------------------
(****************************************************************************)
(* ReceiveSubaddressIndex                                                   *)
(* (packages/extension/src/popup/receive-subaddress-index.ts): the counter  *)
(* of XMR/WOW receive subaddresses of one wallet, asset and backend, kept   *)
(* in one slot of chrome.storage.local that several extension windows       *)
(* share.  Each window has one instance, whose promise chain runs its       *)
(* advance() calls one at a time; between windows there is only a re-read   *)
(* of the slot before the write.                                            *)
(*                                                                          *)
(* A step is one task of one window; a storage request takes effect when it *)
(* is issued.  The server is external: asked to provision, it names any     *)
(* ceiling, or fails.                                                       *)
(****************************************************************************)
EXTENDS Naturals, Sequences

CONSTANTS
  Window,       \* extension windows
  Call,         \* presses of "New address": advance() calls
  WindowOf,     \* the window each is made in
  NoAnswer,     \* the server gave no usable ceiling
  CasAttempts,  \* CAS_ATTEMPTS
  MaxMinor,     \* bound: ceilings the server may name
  MaxFailures   \* bound: storage requests that reject

ASSUME WindowAssumption == WindowOf \in [Call -> Window]
ASSUME AnswerAssumption == NoAnswer \notin Nat
ASSUME BoundAssumption  == CasAttempts \in Nat \ {0} /\ MaxMinor \in Nat /\ MaxFailures \in Nat

VARIABLES
  slot,      \* the stored counter
  chain,     \* chain[w]: calls on the promise chain of w, the running one first
  pc,        \* pc[k]: where call k stands
  observed,  \* observed[k]: the counter it read first
  still,     \* still[k]: the counter it read again
  next,      \* next[k]: the counter it wants to store
  answer,    \* answer[k]: the ceiling the server named in the last attempt
  attempt,   \* attempt[k]: attempts begun
  heard,     \* observation: the newest answer a call has stored
  failures   \* what the bound leaves

vars == <<slot, chain, pc, observed, still, next, answer, attempt, heard, failures>>

Counter == [issued : Nat, provisionedCeiling : Nat]
NothingIssued == [issued |-> 0, provisionedCeiling |-> 0]
Answer == 0..MaxMinor \union {NoAnswer}

Running(k) == chain[WindowOf[k]] # <<>> /\ Head(chain[WindowOf[k]]) = k

(* Mutant: a call that rejects strands the calls behind it.                 *)
Ends_Stranding(k, how) ==
  /\ pc' = [pc EXCEPT ![k] = how]
  /\ chain' = IF how = "issued" THEN [chain EXCEPT ![WindowOf[k]] = Tail(@)] ELSE chain

(* The call settles and the chain reaches the window's next one.            *)
Ends(k, how) == /\ pc' = [pc EXCEPT ![k] = how]
                /\ chain' = [chain EXCEPT ![WindowOf[k]] = Tail(@)]

Candidate(k) == observed[k].issued + 1

(* The server's answer is believed as it is; without one the ceiling stays. *)
Ceiling(k, granted) == IF granted = NoAnswer THEN observed[k].provisionedCeiling ELSE granted

(* Mutants: the gate is off by one; a refusal stores nothing.               *)
Mutated_GateTooHigh(k, granted) ==
  [issued |-> IF Candidate(k) > Ceiling(k, granted) + 1 THEN observed[k].issued ELSE Candidate(k),
   provisionedCeiling |-> Ceiling(k, granted)]
Mutated_RolledBack(k, granted) ==
  IF Candidate(k) > Ceiling(k, granted) THEN observed[k]
  ELSE [issued |-> Candidate(k), provisionedCeiling |-> Ceiling(k, granted)]

(* Money gate G4: above the ceiling nothing is issued, but the ceiling is   *)
(* stored all the same.                                                     *)
Mutated(k, granted) ==
  [issued |-> IF Candidate(k) > Ceiling(k, granted) THEN observed[k].issued ELSE Candidate(k),
   provisionedCeiling |-> Ceiling(k, granted)]

-------------------------------------------------------------------------------
(* Mutant: every call gets an instance of its own, whose chain is empty.    *)
Advance_FreshInstance(k) ==
  /\ pc[k] = "absent"
  /\ pc' = [pc EXCEPT ![k] = "provisioning"]
  /\ chain' = [chain EXCEPT ![WindowOf[k]] = <<k>> \o @]
  /\ observed' = [observed EXCEPT ![k] = slot]
  /\ attempt' = [attempt EXCEPT ![k] = 1]
  /\ UNCHANGED <<slot, still, next, answer, heard, failures>>

(* advance(): queued on the chain of its window's instance. *)
Advance(k) ==
  /\ pc[k] = "absent"
  /\ pc' = [pc EXCEPT ![k] = "queued"]
  /\ chain' = [chain EXCEPT ![WindowOf[k]] = Append(@, k)]
  /\ UNCHANGED <<slot, observed, still, next, answer, attempt, heard, failures>>

(* The slot is read, and the server is asked for the next index. *)
Observe(k) ==
  /\ observed' = [observed EXCEPT ![k] = slot]
  /\ attempt' = [attempt EXCEPT ![k] = @ + 1]
  /\ pc' = [pc EXCEPT ![k] = "provisioning"]

Begin(k) ==
  /\ pc[k] = "queued" /\ Running(k)
  /\ Observe(k)
  /\ UNCHANGED <<slot, chain, still, next, answer, heard, failures>>

(* The server answers, or not; the slot is read again. *)
Provisioned(k) ==
  /\ pc[k] = "provisioning" /\ Running(k)
  /\ \E granted \in Answer :
       /\ answer' = [answer EXCEPT ![k] = granted]
       /\ next' = [next EXCEPT ![k] = Mutated(k, granted)]
  /\ still' = [still EXCEPT ![k] = slot]
  /\ pc' = [pc EXCEPT ![k] = "checking"]
  /\ UNCHANGED <<slot, chain, observed, attempt, heard, failures>>

(* The slot held still: store. *)
Commit(k) ==
  /\ pc[k] = "checking" /\ Running(k)
  /\ still[k] = observed[k]
  /\ slot' = next[k]
  /\ pc' = [pc EXCEPT ![k] = "writing"]
  /\ heard' = IF answer[k] # NoAnswer THEN answer[k] ELSE heard
  /\ UNCHANGED <<chain, observed, still, next, answer, attempt, failures>>

(* Another window moved it: start over, or give up.                         *)
Contended(k) ==
  /\ pc[k] = "checking" /\ Running(k)
  /\ still[k] # observed[k]
  /\ \/ /\ attempt[k] < CasAttempts
        /\ Observe(k)
        /\ UNCHANGED chain
     \/ /\ attempt[k] >= CasAttempts
        /\ Ends(k, "failed")
        /\ UNCHANGED <<observed, attempt>>
  /\ UNCHANGED <<slot, still, next, answer, heard, failures>>

(* The write is done: the index is handed out, or the refusal thrown. *)
Settle(k) ==
  /\ pc[k] = "writing" /\ Running(k)
  /\ Ends(k, IF next[k].issued = Candidate(k) THEN "issued" ELSE "refused")
  /\ UNCHANGED <<slot, observed, still, next, answer, attempt, heard, failures>>

(* A storage request of the running call rejects; the chain goes on. *)
StorageFails(k) ==
  /\ failures > 0
  /\ failures' = failures - 1
  /\ pc[k] \in {"queued", "provisioning", "checking"} /\ Running(k)
  /\ Ends(k, "failed")
  /\ UNCHANGED <<slot, observed, still, next, answer, attempt, heard>>

(* The window closes: a write it has issued stands, nothing else happens.   *)
Close(w) ==
  /\ chain[w] # <<>>
  /\ chain' = [chain EXCEPT ![w] = <<>>]
  /\ pc' = [k \in Call |-> IF WindowOf[k] = w /\ pc[k] \in {"queued", "provisioning", "checking", "writing"}
                           THEN "dead" ELSE pc[k]]
  /\ UNCHANGED <<slot, observed, still, next, answer, attempt, heard, failures>>

Init ==
  /\ slot = NothingIssued
  /\ chain = [w \in Window |-> <<>>]
  /\ pc = [k \in Call |-> "absent"]
  /\ observed = [k \in Call |-> NothingIssued]
  /\ still = [k \in Call |-> NothingIssued]
  /\ next = [k \in Call |-> NothingIssued]
  /\ answer = [k \in Call |-> NoAnswer]
  /\ attempt = [k \in Call |-> 0]
  /\ heard = NoAnswer
  /\ failures = MaxFailures

Proceed(k) == \/ Begin(k)
              \/ Provisioned(k)
              \/ Commit(k)
              \/ Contended(k)
              \/ Settle(k)

Next == \/ \E k \in Call : Advance(k) \/ Proceed(k) \/ StorageFails(k)
        \/ \E w \in Window : Close(w)

(* Storage and the server answer every request, if only with a failure. *)
Fairness == \A k \in Call : WF_vars(Proceed(k))

Spec == Init /\ [][Next]_vars
FairSpec == Spec /\ Fairness

-------------------------------------------------------------------------------
(* Every variable keeps the shape the code gives it. *)
TypeOK ==
  /\ slot \in Counter
  /\ chain \in [Window -> Seq(Call)]
  /\ pc \in [Call -> {"absent", "queued", "provisioning", "checking", "writing",
                      "issued", "refused", "failed", "dead"}]
  /\ observed \in [Call -> Counter]
  /\ still \in [Call -> Counter]
  /\ next \in [Call -> Counter]
  /\ answer \in [Call -> Answer]
  /\ attempt \in [Call -> 0..CasAttempts]
  /\ heard \in Answer
  /\ failures \in 0..MaxFailures

Issued(k) == pc[k] = "issued"

(* No index is handed out twice (header, "Monotonic issuance").             *)
IndicesAreDistinct ==
  \A j, k \in Call : Issued(j) /\ Issued(k) /\ next[j].issued = next[k].issued => j = k

(* All calls so far were made in one window.                                *)
OneWindow == \A j, k \in Call : pc[j] # "absent" /\ pc[k] # "absent" => WindowOf[j] = WindowOf[k]

(* For as long as one window issues addresses, no index is handed out       *)
(* twice, through every refusal, failure and closing.                       *)
DistinctInOneWindow == OneWindow => IndicesAreDistinct

OneIndexAtATime == slot'.issued \in {slot.issued, slot.issued + 1}

(* There, the counter moves one index at a time and never back, even if the *)
(* window closes between the write and the answer.                          *)
AdvancesInOneWindow == [][OneWindow' => OneIndexAtATime]_vars

(* resolveAddressForAsset: the index on the Receive screen, 0 the primary.  *)
Shown == IF slot.issued <= slot.provisionedCeiling THEN slot.issued ELSE 0

(* There, once a call has stored what the server told it, the Receive       *)
(* screen shows no subaddress above that: a refusal leaves the lower        *)
(* ceiling, too.                                                            *)
ShownWithinLastAnswer == OneWindow /\ heard # NoAnswer => Shown <= heard

(* An index is handed out only within a ceiling the server has named to     *)
(* some call, whatever the windows do to each other's counter (money gate   *)
(* G4).                                                                     *)
IssuedWithinSomeAnswer ==
  \A k \in Call : Issued(k) => \E j \in Call : answer[j] # NoAnswer /\ answer[j] >= next[k].issued

(* What advance() says of itself: every issuance is confirmed by the server *)
(* first, and a failed provisioning blocks it.                              *)
IssueIsConfirmed ==
  \A k \in Call : Issued(k) => answer[k] # NoAnswer /\ next[k].issued <= answer[k]

(* Every advance() settles: it hands out an index, refuses or gives up.     *)
AdvanceSettles == \A k \in Call : <>[](pc[k] \in {"absent", "issued", "refused", "failed", "dead"})
================================================================================
