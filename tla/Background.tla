------------------------------- MODULE Background -------------------------------
(****************************************************************************)
(* The extension's background worker: the sites' permissions, the queue of  *)
(* approval prompts and the sign-in jobs.  They share no storage key and no *)
(* variable of the worker, so that what one does none of the others can     *)
(* tell; a behaviour is about one of them.                                  *)
(****************************************************************************)
EXTENDS SitePermissions

CONSTANTS
  (* Of DappApproval: *)
  Prompt, Origin, OriginOf, Connected, MaxQueued, MaxPrompts, RateWindow, EarlyDismissal,
  Prompts,
  (* Of JobCoordinator: *)
  Mount, Backend, HasOffscreen, SignIns

VARIABLES
  part,
  stage, queueTail, slotHolders, promptsByOrigin, reads, answer, pending, result,
  popup, chose, changed, removed, now, opened, left,
  jobs, dedup, aged, selected, queue, waiting, ready, subs, gc, runner, connected,
  request, inbox, pc, backend, awaited, token, budget

approvals == <<stage, queueTail, slotHolders, promptsByOrigin, reads, answer, pending, result,
               popup, chose, changed, removed, now, opened, left>>
signIns == <<jobs, dedup, aged, selected, queue, waiting, ready, subs, gc, runner, connected,
             request, inbox, pc, backend, awaited, token, budget>>

Approvals == INSTANCE DappApproval WITH
  Request <- Prompt, Scenario <- Prompts, pc <- stage, line <- queueTail, budget <- left

Jobs == INSTANCE JobCoordinator WITH Scenario <- SignIns

ASSUME ApprovalAssumptions == Approvals!Assumptions
ASSUME JobAssumptions == Jobs!Assumptions

BackgroundInit ==
  /\ part \in {"sites", "approvals", "jobs"}
  /\ Init /\ Approvals!Init /\ Jobs!Init

BackgroundNext ==
  \/ part = "sites" /\ Next /\ UNCHANGED <<part, approvals, signIns>>
  \/ part = "approvals" /\ Approvals!Next /\ UNCHANGED <<part, vars, signIns>>
  \/ part = "jobs" /\ Jobs!Next /\ UNCHANGED <<part, vars, approvals>>

BackgroundSpec == BackgroundInit /\ [][BackgroundNext]_<<part, vars, approvals, signIns>>

(* Named as in DappApproval and JobCoordinator, which say what they are about. *)
OneWindow         == Approvals!OneWindow
QueueBounded      == Approvals!QueueBounded
AnswerIsUsers     == Approvals!AnswerIsUsers
OpeningsBounded   == Approvals!OpeningsBounded
TokenFitsWindow   == Jobs!TokenFitsWindow
FinishedIsFinal   == Jobs!FinishedIsFinal
NothingLeftAtRest == Jobs!NothingLeftAtRest
================================================================================
