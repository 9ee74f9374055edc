----------------------------- MODULE MCSessionState -----------------------------
(****************************************************************************)
(* Small instances of SessionState: a session state is the set of marks     *)
(* made on it (a recorded send, a setting); an update adds a mark, removes  *)
(* one, or claims one and throws where it is taken.                         *)
(****************************************************************************)
EXTENDS SessionState, FiniteSets, TLC

CONSTANTS Mark, Dropped

MCContent == {c : c \in SUBSET Mark}
MCDefault == {}
Add(m)    == [c \in MCContent |-> c \union {m}]
Remove(m) == [c \in MCContent |-> c \ {m}]
MCMutator == {Add(m) : m \in Mark} \union {Remove(m) : m \in Dropped}

(* Migration 3 -> 4 starts pendingOutgoing afresh. *)
MCUpgrade == [c \in MCContent |-> c \ Dropped]

Symmetric == Permutations(Window)
================================================================================
