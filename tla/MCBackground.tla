------------------------------ MODULE MCBackground ------------------------------
(* The background worker's parts on small instances. *)
EXTENDS Background, TLC

CONSTANTS
  btc, xmr, note, payment,
  q1, q2, q3, q4, q5, site, stranger,
  m1, m2, home

Requests == 1..3
Assets == {btc, xmr}
Kinds == {note, payment}

(* q1 is the stranger's; the others come from the connected site.  Two      *)
(* beside the stranger's, and the worker may go; three over as many rate    *)
(* windows, which may open in one; and four at once, which may not.         *)
FivePrompts == {q1, q2, q3, q4, q5}
From == [q \in FivePrompts |-> IF q = q1 THEN stranger ELSE site]
Mixed  == [requests |-> {q1, q2, q3}, evictions |-> 1, failures |-> 1, ticks |-> 1]
Spread == [requests |-> {q2, q3, q4}, evictions |-> 0, failures |-> 0, ticks |-> 2]
Burst  == [requests |-> {q2, q3, q4, q5}, evictions |-> 0, failures |-> 0, ticks |-> 0]
Crowds == {Mixed, Spread, Burst}

Mounts == {m1, m2}

(* A worker evicted with work in hand or idle, with a change of backend or  *)
(* a report; or evicted idle, with a job that ages.                         *)
Busy == [evictions |-> 1, switches |-> 0, progress |-> 0, aged |-> 0, busy |-> TRUE]
Idle == [Busy EXCEPT !.busy = FALSE]
Scenes == {[Idle EXCEPT !.aged = 1]} \cup
          UNION {{[e EXCEPT !.switches = 1], [e EXCEPT !.progress = 1]} : e \in {Busy, Idle}}

(* Where a behaviour that is about another part starts is no matter to it.  *)
MCInit ==
  /\ BackgroundInit
  /\ part # "jobs" => selected = home /\ budget = [Idle EXCEPT !.aged = 1]
  /\ part # "approvals" => left = Mixed

MCSpec == MCInit /\ [][BackgroundNext]_<<part, vars, approvals, signIns>>

Symmetry == Permutations(Mounts)
================================================================================
