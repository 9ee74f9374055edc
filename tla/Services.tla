--------------------------------- MODULE Services ---------------------------------
(******************************************************************************)
(* What a wallet's windows and sites ask of others and must hear of again: a  *)
(* receive subaddress of the server that provisions it, a session of the      *)
(* backend, a decision of the user.  None reads what another writes; a        *)
(* behaviour is about one of them.                                            *)
(******************************************************************************)
EXTENDS ReceiveSubaddress

CONSTANTS
  None,
  Backend, Default, Task, Sittings,                          \* of BackendSession
  Prompt, Origin, OriginOf, Connected, MaxQueued, MaxPrompts, RateWindow, EarlyDismissal,
  Prompts                                                    \* of DappApproval

VARIABLES
  part,
  selection, cache, snapshot, locked, inbox, notices, url, token, generation, relay,
  mount, view, looking, due, session, changing, reading, task, locking, budget,
  call, queueTail, slotHolders, promptsByOrigin, reads, read, pending, result,
  popup, chose, changed, removed, now, opened, allowed

sessions == <<selection, cache, snapshot, locked, inbox, notices, url, token, generation, relay,
              mount, view, looking, due, session, changing, reading, task, locking, budget>>
approvals == <<call, queueTail, slotHolders, promptsByOrigin, reads, read, pending, result,
               popup, chose, changed, removed, now, opened, allowed>>

Sessions == INSTANCE BackendSession WITH Scenario <- Sittings

Approvals == INSTANCE DappApproval WITH
  Request <- Prompt, Scenario <- Prompts,
  pc <- call, answer <- read, line <- queueTail, budget <- allowed

ASSUME SessionAssumptions == Sessions!Assumptions
ASSUME ApprovalAssumptions == Approvals!Assumptions

ServicesInit ==
  /\ part \in {"subaddresses", "sessions", "approvals"}
  /\ Init /\ Sessions!Init /\ Approvals!Init

ServicesNext ==
  \/ part = "subaddresses" /\ Next /\ UNCHANGED <<part, sessions, approvals>>
  \/ part = "sessions" /\ Sessions!Next /\ UNCHANGED <<part, vars, approvals>>
  \/ part = "approvals" /\ Approvals!Next /\ UNCHANGED <<part, vars, sessions>>

ServicesSpec ==
  ServicesInit /\ [][ServicesNext]_<<part, vars, sessions, approvals>>

(* Until a behaviour is about it, nothing that fairness asks of a part is     *)
(* enabled: it begins with a call, a window or a request.                     *)
ServicesFairness == Fairness /\ Sessions!Fairness /\ Approvals!Fairness

(* Named as in BackendSession and DappApproval, which say what they are about. *)
ClientFitsBackend == Sessions!ClientFitsBackend
NumbersFitBackend == Sessions!NumbersFitBackend
Follows           == Sessions!Follows
RequestSettles    == Approvals!RequestSettles
DecisionArrives   == Approvals!DecisionArrives
====================================================================================
