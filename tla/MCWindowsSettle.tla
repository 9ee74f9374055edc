----------------------------- MODULE MCWindowsSettle -----------------------------
(* What windows and sites ask of others, and what must come to an end, on     *)
(* small instances.                                                           *)
EXTENDS Services, TLC, Integers

CONSTANTS
  w1, w2,
  c1, c2, c3,                \* presses of "New address"
  t1, t2, home, other,       \* runs of startSession and refreshBalances; backends
  r1, r2, r3, r4, site       \* requests of a site

Windows    == {w1, w2}
Unusable   == -1
ThreeCalls == {c1, c2, c3}
ThirdApart == [k \in Call |-> IF k = c3 THEN w2 ELSE w1]

(* One window from its boot on, with a failure and a change of the backend or *)
(* a lock; with a change and two refreshes, or two of which one may fail; and *)
(* two windows that hold sessions when one moves.                             *)
Alone     == [windows |-> {w1}, switches |-> 1, locks |-> 0, failures |-> 1, refreshes |-> 0,
              overlap |-> FALSE]
Locks     == [Alone EXCEPT !.switches = 0, !.locks = 1]
Refreshes == [Alone EXCEPT !.failures = 0, !.refreshes = 2]
Polls     == [Alone EXCEPT !.switches = 0, !.refreshes = 2]
Both      == [Alone EXCEPT !.windows = Windows, !.failures = 0]
Shut      == [Alone EXCEPT !.windows = {}, !.switches = 0]
Scenarios == {Alone, Locks, Refreshes, Polls, Both, Shut}

Runs     == {t1, t2}
Backends == {home, other}

SignedIn == [user |-> home, shown |-> {home}, busy |-> FALSE, failed |-> FALSE]

BothSignedIn ==
  /\ budget = Both
  /\ selection = home /\ cache = [backend |-> home, token |-> home]
  /\ snapshot = [backend |-> home, shown |-> {home}]
  /\ locked = FALSE /\ locking = None
  /\ inbox = [w \in Windows |-> <<>>] /\ notices = [w \in Windows |-> 0]
  /\ url = [w \in Windows |-> home] /\ token = url /\ relay = url
  /\ generation = [w \in Windows |-> 0] /\ mount = generation
  /\ view = [w \in Windows |-> "unlocked"]
  /\ looking = {} /\ due = {} /\ reading = {}
  /\ session = [w \in Windows |-> SignedIn]
  /\ changing = [w \in Windows |-> None]
  /\ task = [t \in Runs |-> None]

(* Four fill the queue and exceed the cap, twice over; or the worker goes in  *)
(* the midst of one, with another before, beside or after it.                 *)
FourPrompts == {r1, r2, r3, r4}
Crowd   == [requests |-> FourPrompts, evictions |-> 0, failures |-> 1, ticks |-> 1]
Evicted == [requests |-> {r1, r2}, evictions |-> 1, failures |-> 0, ticks |-> 1]
Crowds  == {Crowd, Evicted}

Sites == {site}
AllOneSite == [r \in FourPrompts |-> site]

MCInit ==
  /\ part \in {"subaddresses", "sessions", "approvals"}
  /\ Init /\ Approvals!Init
  /\ \/ Sessions!Init /\ budget # Both
     \/ BothSignedIn
  /\ part = "sessions" <=> budget # Shut
  /\ part # "sessions" => selection = home
  /\ part # "approvals" => allowed = Crowd

MCSpec ==
  MCInit /\ [][ServicesNext]_<<part, vars, sessions, approvals>> /\ ServicesFairness
================================================================================
