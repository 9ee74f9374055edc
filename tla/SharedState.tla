------------------------------ MODULE SharedState ------------------------------
(****************************************************************************)
(* What the session state promises the windows of one wallet: one shared    *)
(* value, changed by one update at a time, each update running on exactly   *)
(* the value it replaces and in the order its window asked for it.  An      *)
(* update may be reported as failed, or die with its window; it then        *)
(* leaves no trace.  SessionState is the code that is to keep this promise  *)
(* over a storage area without compare-and-swap.                            *)
(****************************************************************************)
EXTENDS Sequences

CONSTANTS Window,   \* the pages of the extension: popup, pop-out, approval window
          Content,  \* the session states, without their write stamp
          Mutator   \* what update() may be given: functions from Content to Content

VARIABLES value,    \* the shared session state
          calls     \* calls[w]: the updates window w asked for and storage has not seen

vars == <<value, calls>>

Init == /\ value \in Content
        /\ calls = [w \in Window |-> <<>>]

Ask(w, m) == /\ calls' = [calls EXCEPT ![w] = Append(@, m)]
             /\ UNCHANGED value

(* The whole of an update happens at once. *)
Perform(w) == /\ calls[w] # <<>>
              /\ value' = Head(calls[w])[value]
              /\ calls' = [calls EXCEPT ![w] = Tail(@)]

(* An update whose write was refused: its promise rejects. *)
Fail(w) == /\ calls[w] # <<>>
           /\ calls' = [calls EXCEPT ![w] = Tail(@)]
           /\ UNCHANGED value

(* The window goes away with the updates it still had to make. *)
Abandon(w) == /\ calls' = [calls EXCEPT ![w] = <<>>]
              /\ UNCHANGED value

Next == \E w \in Window : \/ \E m \in Mutator : Ask(w, m)
                          \/ Perform(w)
                          \/ Fail(w)
                          \/ Abandon(w)

Spec == Init /\ [][Next]_vars
================================================================================
