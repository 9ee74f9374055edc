-------------------------------- MODULE MCWindows --------------------------------
(* What the windows share, on small instances. *)
EXTENDS Windows, TLC

CONSTANTS
  w0,                        \* the one window of the Grin flows
  f1, f2, f3,
  w1, w2, d1, d2             \* wallet windows and approval windows

Mixed == (f1 :> {"send"}) @@ (f2 :> {"send", "receive", "invoice"}) @@ (f3 :> {"poll", "cancel"})

(* Two wallet windows closed at any time, or left open; a wallet window and   *)
(* one approval window, or the two of a flow.                                 *)
TwoWallets == [windows |-> {w1, w2}, locks |-> 2, unlocks |-> 2, failures |-> 1,
               closes |-> {"task", "lock"}]
LeftOpen   == [TwoWallets EXCEPT !.failures = 0, !.closes = {}]
WithDapp(w, d) == [LeftOpen EXCEPT !.windows = {w, d}, !.locks = 1]
WithDapps(w)   == [LeftOpen EXCEPT !.windows = {w, d1, d2}, !.locks = 1, !.unlocks = 1]
Scenarios  == {TwoWallets, LeftOpen} \cup {WithDapps(w) : w \in {w1, w2}}
                \cup {WithDapp(w, d) : w \in {w1, w2}, d \in {d1, d2}}
AllWindows == {w1, w2, d1, d2}
Dapps      == {d1, d2}

(* Of the flows of the overlay one fails somewhere, or an entry ages out.     *)
OneMishap == week + failures <= 1

MCInit ==
  /\ WindowsInit
  /\ part # "grin" => slot = Empty
  /\ part # "locks" => budget = TwoWallets

MCNext == WindowsNext /\ OneMishap'

MCSpec == MCInit /\ [][MCNext]_<<part, vars, locks>>

Symmetry == {f @@ g : f \in Permutations({w1, w2}), g \in Permutations({d1, d2})}
====================================================================================
