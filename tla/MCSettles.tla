-------------------------------- MODULE MCSettles --------------------------------
(****************************************************************************)
(* Calls that must settle, on small instances: updates of the session state *)
(* under the lock, and sign-in jobs.  Neither sees the other; a behaviour   *)
(* is about one of them.                                                    *)
(****************************************************************************)
EXTENDS SessionState

CONSTANTS
  send, setting,
  None, m1, m2, home, other

VARIABLES
  part,
  jobs, dedup, aged, selected, queue, waiting, ready, subs, gc, runner, connected,
  request, inbox, step, backend, awaited, token, left

signIns == <<jobs, dedup, aged, selected, queue, waiting, ready, subs, gc, runner, connected,
             request, inbox, step, backend, awaited, token, left>>

(* A session state is the set of marks made on it.  An update makes one, or   *)
(* drops the send, as migration 3 -> 4 does.                                  *)
Marks    == {send, setting}
States   == {c : c \in SUBSET Marks}
Empty    == {}
Add(m)   == [c \in States |-> c \union {m}]
DropSend == [c \in States |-> c \ {send}]
Updates  == {Add(m) : m \in Marks} \union {DropSend}

Mounts   == {m1, m2}
Backends == {home, other}

(* An idle worker evicted, with a job that ages; a change of backend; or      *)
(* progress reports.                                                          *)
Calm == [evictions |-> 0, switches |-> 0, progress |-> 0, aged |-> 0, busy |-> FALSE]
Scenarios == {[Calm EXCEPT !.evictions = 1, !.aged = 1], [Calm EXCEPT !.switches = 1],
              [Calm EXCEPT !.progress = 1]}

Jobs == INSTANCE JobCoordinator WITH
  Mount <- Mounts, Backend <- Backends, HasOffscreen <- TRUE,
  Scenario <- Scenarios, pc <- step, budget <- left

ASSUME Jobs!Assumptions

(* The backends are alike: the first mount finds this one selected.  What is  *)
(* stored at first is what migrates, or nothing.                              *)
SettlesInit ==
  /\ part \in {"updates", "jobs"}
  /\ Init /\ Jobs!Init
  /\ selected = home
  /\ stored.content = IF stored.version = "older" THEN {send} ELSE {}
  /\ part # "updates" => stored.version = "newer"
  /\ part # "jobs" => left = [Calm EXCEPT !.switches = 1]

SettlesNext ==
  \/ part = "updates" /\ Next /\ UNCHANGED <<part, signIns>>
  \/ part = "jobs" /\ Jobs!Next /\ UNCHANGED <<part, vars>>

(* Until a behaviour is about it, nothing that fairness asks of a part is     *)
(* enabled: it begins with an update or a mount.                              *)
SettlesSpec == /\ SettlesInit /\ [][SettlesNext]_<<part, vars, signIns>>
               /\ Fairness /\ Jobs!Fairness

(* Named as in JobCoordinator, which says what it is about. *)
SettlesWhileConnected == Jobs!SettlesWhileConnected
================================================================================
