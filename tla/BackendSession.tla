----------------------------- MODULE BackendSession -----------------------------
(****************************************************************************)
(* The session a wallet window holds at its backend, across a change of the *)
(* backend: which backend each window's api client points at                *)
(* (extension/src/backend-boot.ts, core/src/api/backend-config.ts), the     *)
(* generation that ends work begun on another (popup/backend-generation.ts),*)
(* and startSession, refreshBalances and dropBackendSession                 *)
(* (popup/index.tsx), one action per stretch between awaits that matter.    *)
(*                                                                          *)
(* The selection (chrome.storage.local), the cached sign-in and the balance *)
(* snapshot (chrome.storage.session) are shared by the windows.  Storage    *)
(* answers a window in the order it was asked: inbox[w] holds the answers   *)
(* that bear on the selection, and what a window wrote is heard of by all.  *)
(*                                                                          *)
(* A token, a user id and a balance are named by the backend they came      *)
(* from; what is shown is the set of backends the figures came from.        *)
(****************************************************************************)
EXTENDS Naturals, Sequences

CONSTANTS
  Window,
  Backend,
  Default,        \* the build-time default, where a client points until told
  Task,           \* runs of startSession and refreshBalances
  None,
  Scenario        \* what a behaviour is about: the windows open, and bounds on
                  \* switches, locks of the wallet, failed sign-ins and fetches,
                  \* and refreshes; whether one may be under way at a switch

Budget == [windows : SUBSET Window, switches : Nat, locks : Nat, failures : Nat, refreshes : Nat,
           overlap : BOOLEAN]

(* How far a switch made in a window has come, and the UI it was made in.    *)
Switch == [at : {"writing", "cache", "snapshot", "session"}, window : Window, mount : Nat]

(* What the parameters must be; whoever instantiates the module assumes it.  *)
Assumptions ==
  /\ Default \in Backend
  /\ None \notin Backend \union Task \union Window \union Switch
  /\ Scenario \subseteq Budget

VARIABLES
  selection,  \* storage.local smirk_backend_v1, or the default without one
  cache,      \* storage.session smirk_bootstrap_cache_v1
  snapshot,   \* storage.session smirk_balance_snapshot_v2
  locked,     \* the keystore
  inbox,      \* inbox[w]: answers about the selection on their way to w
  notices,    \* notices[w]: changes of the selection w has yet to read
  url,        \* url[w]: where w's client points
  token,      \* token[w]: where the token w presents was minted
  generation, \* generation[w]: the backend generation of w
  relay,      \* relay[w]: whose relay w's messaging uses
  mount,      \* mount[w]: how often w's wallet UI was started over
  view,       \* view[w]: the wallet state w's UI shows
  looking,    \* windows whose refresh of the wallet state is under way
  due,        \* windows whose effect is to look whether a session is missing
  session,    \* session[w]: the session w's UI holds
  changing,   \* changing[w]: a switch made in w, from the choice to its end
  reading,    \* capabilities reads under way, each with its scope
  task,       \* task[t]: a run of startSession or refreshBalances
  locking,    \* the window whose lock has yet to clear the cached sign-in
  budget      \* what the bounds leave

stored == <<selection, cache, snapshot, locked>>
boot == <<inbox, notices>>
client == <<url, token, generation, relay>>
ui == <<mount, view, looking, due, session>>
vars == <<stored, boot, client, ui, changing, reading, task, locking, budget>>

Figures == SUBSET Backend
Session == [user : Backend \union {None}, shown : Figures, busy : BOOLEAN, failed : BOOLEAN]

-------------------------------------------------------------------------------
(* Scopes and sessions.                                                     *)

(* backendScope: where w's client points now, in which generation. *)
Scope(w) == [window |-> w, mount |-> mount[w], url |-> url[w], generation |-> generation[w]]

(* scope.current() *)
Current(s) == generation[s.window] = s.generation /\ url[s.window] = s.url

(* setSession of the UI that s began in: of no effect once that UI is gone.  *)
Held(s) == s.mount = mount[s.window]
SetSession(s, to) ==
  session' = IF Held(s) THEN [session EXCEPT ![s.window] = to] ELSE session

(* A change of session or of the wallet state runs the effect that starts a  *)
(* missing session.                                                          *)
Looks(w) == due' = due \union {w}

Placeholder(snap) == [user |-> None, shown |-> snap, busy |-> TRUE, failed |-> FALSE]

(* mergeBalancesKeepLastKnown: an asset whose fetch failed keeps the figure  *)
(* known before.                                                             *)
Merged(before, from) == {{from}, before \union {from}, before}

Free(t) == task[t] = None
Running(t, at) == task[t] # None /\ task[t].at = at
Refreshing(t) == Running(t, "refreshed") \/ Running(t, "reconciled")
Goes(t, at) == task' = [task EXCEPT ![t].at = at]
Ends(t) == task' = [task EXCEPT ![t] = None]

-------------------------------------------------------------------------------
(* Where a window's client points.                                          *)

(* applyBackendConfig *)
Point(w, b) ==
  /\ url' = [url EXCEPT ![w] = b]
  /\ token' = [token EXCEPT ![w] = None]

Answer(w, kind) == inbox[w] # <<>> /\ Head(inbox[w]).kind = kind
Taken(w) == inbox' = [inbox EXCEPT ![w] = Tail(@)]

(* Mutant: the client stays at the default.                                  *)
Booted_AtDefault(w) ==
  /\ Answer(w, "boot")
  /\ Taken(w)
  /\ view' = [view EXCEPT ![w] = "loading"]
  /\ looking' = looking \union {w}
  /\ UNCHANGED <<stored, notices, client, mount, due, session, changing, reading, task, locking, budget>>

(* loadAndApplyBackend at boot; a session waits for it. *)
Booted(w) ==
  /\ Answer(w, "boot")
  /\ Point(w, Head(inbox[w]).at)
  /\ Taken(w)
  /\ view' = [view EXCEPT ![w] = "loading"]
  /\ looking' = looking \union {w}
  /\ UNCHANGED <<stored, notices, generation, relay, mount, due, session,
                 changing, reading, task, locking, budget>>

(* onUse and onResetDefault write the selection.  Whoever chooses has seen   *)
(* the last change arrive in every window.                                   *)
Choose(w, b) ==
  /\ budget.switches > 0
  /\ view[w] = "unlocked" /\ session[w] # None /\ changing[w] = None
  /\ \A v \in Window : notices[v] = 0 /\ inbox[v] = <<>>
  /\ b # url[w]
  /\ budget.overlap \/ \A t \in Task : ~Refreshing(t)
  /\ budget' = [budget EXCEPT !.switches = @ - 1]
  /\ selection' = b
  /\ inbox' = [inbox EXCEPT ![w] = Append(@, [kind |-> "written", at |-> b])]
  /\ notices' = [v \in Window |-> IF v \in budget.windows THEN notices[v] + 1 ELSE 0]
  /\ changing' = [changing EXCEPT ![w] = [at |-> "writing", window |-> w, mount |-> mount[w]]]
  /\ UNCHANGED <<cache, snapshot, locked, client, ui, reading, task, locking>>

(* subscribeBackend: the listener reads the selection. *)
ReadSelection(w) ==
  /\ notices[w] > 0
  /\ notices' = [notices EXCEPT ![w] = @ - 1]
  /\ inbox' = [inbox EXCEPT ![w] = Append(@, [kind |-> "read", at |-> selection])]
  /\ UNCHANGED <<stored, client, ui, changing, reading, task, locking, budget>>

(* A window already there is left alone.  Another is pointed there, loses    *)
(* its capabilities and relay, and starts its UI over (backendMovedElsewhere,*)
(* BackendScopedApp).                                                        *)
Follow(w) ==
  /\ Answer(w, "read")
  /\ Taken(w)
  /\ IF Head(inbox[w]).at = url[w]
     THEN UNCHANGED <<client, ui>>
     ELSE /\ Point(w, Head(inbox[w]).at)
          /\ relay' = [relay EXCEPT ![w] = None]
          /\ generation' = [generation EXCEPT ![w] = @ + 1]
          /\ mount' = [mount EXCEPT ![w] = @ + 1]
          /\ view' = [view EXCEPT ![w] = "loading"]
          /\ looking' = looking \union {w}
          /\ session' = [session EXCEPT ![w] = None]
          /\ due' = due \ {w}
  /\ UNCHANGED <<stored, notices, changing, reading, task, locking, budget>>

-------------------------------------------------------------------------------
(* The switch made here: dropBackendSession, from the code that ran before.  *)

Drops(w, at) == changing[w] # None /\ changing[w].at = at
Proceeds(w, at) == changing' = [changing EXCEPT ![w].at = at]

Written(w) ==
  /\ Answer(w, "written")
  /\ Taken(w)
  /\ Point(w, Head(inbox[w]).at)
  /\ generation' = [generation EXCEPT ![w] = @ + 1]
  /\ Proceeds(w, "cache")
  /\ UNCHANGED <<stored, notices, relay, ui, reading, task, locking, budget>>

DropCache(w) ==
  /\ Drops(w, "cache")
  /\ cache' = None
  /\ Proceeds(w, "snapshot")
  /\ UNCHANGED <<selection, snapshot, locked, boot, client, ui, reading, task, locking, budget>>

(* After clearDappPublicCache and stopDmWatch, which wait for the worker. *)
DropSnapshot(w) ==
  /\ Drops(w, "snapshot")
  /\ snapshot' = None
  /\ Proceeds(w, "session")
  /\ UNCHANGED <<selection, cache, locked, boot, client, ui, reading, task, locking, budget>>

(* Mutant: the session is kept. *)
DropSession_Kept(w) ==
  /\ Drops(w, "session")
  /\ relay' = [relay EXCEPT ![w] = None]
  /\ changing' = [changing EXCEPT ![w] = None]
  /\ UNCHANGED <<stored, boot, url, token, generation, ui, reading, task, locking, budget>>

(* A clear asked for before this switch has been answered by now. *)
DropSession(w) ==
  /\ Drops(w, "session")
  /\ \A t \in Task : Running(t, "clearing") => task[t].scope.window # w
  /\ relay' = [relay EXCEPT ![w] = None]
  /\ SetSession(changing[w], None)
  /\ IF Held(changing[w])
     THEN Looks(w) /\ looking' = looking \union {w}
     ELSE UNCHANGED <<due, looking>>
  /\ changing' = [changing EXCEPT ![w] = None]
  /\ UNCHANGED <<stored, boot, url, token, generation, mount, view, reading, task, locking, budget>>

-------------------------------------------------------------------------------
(* The wallet state, and the lock.                                           *)

(* refresh() answers; the effects of a new wallet state follow. *)
Refreshed(w) ==
  /\ w \in looking
  /\ looking' = looking \ {w}
  /\ view' = [view EXCEPT ![w] = IF locked THEN "locked" ELSE "unlocked"]
  /\ Looks(w)
  /\ reading' = IF locked THEN reading ELSE reading \union {Scope(w)}
  /\ UNCHANGED <<stored, boot, client, mount, session, changing, task, locking, budget>>

(* The effect: no session outside the unlocked state. *)
EndSession(w) ==
  /\ view[w] = "locked" /\ session[w] # None
  /\ session' = [session EXCEPT ![w] = None]
  /\ token' = [token EXCEPT ![w] = None]
  /\ UNCHANGED <<stored, boot, url, generation, relay, mount, view, looking, due,
                 changing, reading, task, locking, budget>>

(* lockHandler: the other windows are told and look again; the cached        *)
(* sign-in goes; then this window looks.                                     *)
Lock(w) ==
  /\ budget.locks > 0 /\ locking = None
  /\ view[w] = "unlocked"
  /\ budget' = [budget EXCEPT !.locks = @ - 1]
  /\ locked' = TRUE
  /\ locking' = w
  /\ looking' = looking \union {v \in Window \ {w} : view[v] = "unlocked"}
  /\ UNCHANGED <<selection, cache, snapshot, boot, client, mount, view, due, session,
                 changing, reading, task>>

LockClears(w) ==
  /\ locking = w
  /\ locking' = None
  /\ cache' = None
  /\ looking' = looking \union {w}
  /\ UNCHANGED <<selection, snapshot, locked, boot, client, mount, view, due, session,
                 changing, reading, task, budget>>

(* onUnlock of the lock screen. *)
Unlock(w) ==
  /\ view[w] = "locked" /\ locking # w
  /\ locked' = FALSE
  /\ looking' = looking \union {w}
  /\ UNCHANGED <<selection, cache, snapshot, boot, client, mount, view, due, session,
                 changing, reading, task, locking, budget>>

(* adoptBackendCapabilities *)
AdoptCapabilities(s) ==
  /\ s \in reading
  /\ reading' = reading \ {s}
  /\ relay' = IF Current(s) THEN [relay EXCEPT ![s.window] = s.url] ELSE relay
  /\ UNCHANGED <<stored, boot, url, token, generation, ui, changing, task, locking, budget>>

-------------------------------------------------------------------------------
(* startSession.                                                             *)

(* The effect: a session is started where the unlocked window has none. *)
StartSession(w, t) ==
  /\ w \in due
  /\ Free(t)
  /\ due' = due \ {w}
  /\ task' = IF view[w] = "unlocked" /\ session[w] = None
             THEN [task EXCEPT ![t] = [at |-> "snapshot", scope |-> Scope(w), user |-> None,
                                       snap |-> {}, held |-> None]]
             ELSE task
  /\ UNCHANGED <<stored, boot, client, mount, view, looking, session, changing, reading, locking, budget>>

(* A scope that is gone ends the run. *)
Stops(t) ==
  /\ \E at \in {"snapshot", "warm", "signedIn", "ready", "fetched", "failed", "refreshed"} :
       Running(t, at)
  /\ ~Current(task[t].scope)
  /\ Ends(t)
  /\ UNCHANGED <<stored, boot, client, ui, changing, reading, locking, budget>>

Continues(t, at) == Running(t, at) /\ Current(task[t].scope)

Snapshot(b) == IF snapshot # None /\ snapshot.backend = b THEN snapshot.shown ELSE {}

(* readBalanceSnapshot: last figures known of this backend are shown at once. *)
Paint(t) ==
  LET s == task[t].scope
      w == s.window
  IN /\ Continues(t, "snapshot")
     /\ IF Snapshot(s.url) # {} \/ session[w] = None
        THEN SetSession(s, Placeholder(Snapshot(s.url)))
        ELSE UNCHANGED session
     /\ task' = [task EXCEPT ![t].at = "warm", ![t].snap = Snapshot(s.url)]
     /\ UNCHANGED <<stored, boot, client, mount, view, looking, due, changing, reading, locking, budget>>

(* readBootstrapCache *)
WarmSignIn(b) == cache # None /\ cache.backend = b

Warm(t) ==
  LET s == task[t].scope
  IN /\ Continues(t, "warm")
     /\ IF WarmSignIn(s.url)
        THEN /\ token' = [token EXCEPT ![s.window] = cache.token]
             /\ task' = [task EXCEPT ![t].at = "ready", ![t].user = cache.token]
        ELSE /\ Goes(t, "signIn")
             /\ UNCHANGED token
     /\ UNCHANGED <<stored, boot, url, generation, relay, ui, changing, reading, locking, budget>>

(* Mutant: the token is installed wherever the client points. *)
SignedIn_Unpinned(t) ==
  LET s == task[t].scope
  IN /\ Running(t, "signIn")
     /\ token' = [token EXCEPT ![s.window] = s.url]
     /\ task' = [task EXCEPT ![t].at = "signedIn", ![t].user = s.url]
     /\ UNCHANGED <<stored, boot, url, generation, relay, ui, changing, reading, locking, budget>>

(* bootstrapAuthInExtension, pinned to the backend it began at. *)
SignedIn(t) ==
  LET s == task[t].scope
  IN /\ Running(t, "signIn")
     /\ IF url[s.window] = s.url
        THEN /\ token' = [token EXCEPT ![s.window] = s.url]
             /\ task' = [task EXCEPT ![t].at = "signedIn", ![t].user = s.url]
        ELSE /\ Goes(t, "failed")
             /\ UNCHANGED token
     /\ UNCHANGED <<stored, boot, url, generation, relay, ui, changing, reading, locking, budget>>

(* A token there still is goes into the cache. *)
Keep(t) ==
  LET w == task[t].scope.window
  IN /\ Continues(t, "signedIn")
     /\ task' = [task EXCEPT ![t].at = IF token[w] = None THEN "ready" ELSE "caching",
                             ![t].held = token[w]]
     /\ UNCHANGED <<stored, boot, client, ui, changing, reading, locking, budget>>

WriteCache(t) ==
  /\ Running(t, "caching")
  /\ cache' = [backend |-> task[t].scope.url, token |-> task[t].held]
  /\ Goes(t, "ready")
  /\ UNCHANGED <<selection, snapshot, locked, boot, client, ui, changing, reading, locking, budget>>

Fetch(t) ==
  /\ Continues(t, "ready")
  /\ Goes(t, "fetched")
  /\ UNCHANGED <<stored, boot, client, ui, changing, reading, locking, budget>>

(* onAssetBalance: a figure arrives before the others. *)
ShowOne(t) ==
  LET s == task[t].scope
  IN /\ \/ Continues(t, "fetched") \/ Continues(t, "refreshed")
     /\ Held(s) /\ session[s.window] # None
     /\ s.url \notin session[s.window].shown
     /\ task[t].at = "refreshed" => session[s.window].shown # {}
     /\ SetSession(s, [session[s.window] EXCEPT !.shown = @ \union {s.url}])
     /\ UNCHANGED <<stored, boot, client, mount, view, looking, due, changing, reading, task, locking, budget>>

(* The balances are in: over what the snapshot showed. *)
Fetched(t) ==
  LET s == task[t].scope
  IN /\ Continues(t, "fetched")
     /\ \E m \in Merged(task[t].snap, s.url) :
          /\ SetSession(s, [user |-> task[t].user, shown |-> m, busy |-> FALSE, failed |-> FALSE])
          /\ snapshot' = [backend |-> s.url, shown |-> m]
     /\ reading' = IF Held(s) THEN reading \union {s} ELSE reading
     /\ Ends(t)
     /\ UNCHANGED <<selection, cache, locked, boot, client, mount, view, looking, due, changing, locking, budget>>

(* The sign-in throws, or what the fetch needs; the fetch itself answers each *)
(* failure in the figure it is of.                                           *)
Throws(t) ==
  /\ budget.failures > 0
  /\ Running(t, "signIn") \/ Continues(t, "ready")
  /\ budget' = [budget EXCEPT !.failures = @ - 1]
  /\ Goes(t, "failed")
  /\ UNCHANGED <<stored, boot, client, ui, changing, reading, locking>>

(* The cached sign-in may be what was refused. *)
ClearCache(t) ==
  /\ Continues(t, "failed")
  /\ cache' = None
  /\ Goes(t, "clearing")
  /\ UNCHANGED <<selection, snapshot, locked, boot, client, ui, changing, reading, locking, budget>>

(* The error is shown beside the figures known before, without another look  *)
(* at the scope.                                                             *)
ShowError(t) ==
  LET s == task[t].scope
      before == session[s.window]
  IN /\ Running(t, "clearing")
     /\ SetSession(s, [user |-> None, busy |-> FALSE, failed |-> TRUE,
                       shown |-> IF before # None /\ before.shown # {} THEN before.shown
                                 ELSE task[t].snap])
     /\ Ends(t)
     /\ UNCHANGED <<stored, boot, client, mount, view, looking, due, changing, reading, locking, budget>>

(* onRetry of the error screen. *)
Retry(w) ==
  /\ view[w] = "unlocked" /\ session[w] # None
  /\ session[w].failed /\ session[w].shown = {}
  /\ session' = [session EXCEPT ![w] = None]
  /\ Looks(w)
  /\ UNCHANGED <<stored, boot, client, mount, view, looking, changing, reading, task, locking, budget>>

-------------------------------------------------------------------------------
(* refreshBalances, for the background poll, a regained focus or the button;  *)
(* no chain is scanning.                                                     *)

Refresh(w, t) ==
  /\ budget.refreshes > 0
  /\ Free(t)
  /\ view[w] = "unlocked" /\ session[w] # None /\ session[w].user # None
  /\ budget.overlap \/ \A v \in Window : changing[v] = None
  /\ budget' = [budget EXCEPT !.refreshes = @ - 1]
  /\ session' = [session EXCEPT ![w].busy = TRUE]
  /\ task' = [task EXCEPT ![t] = [at |-> "refreshed", scope |-> Scope(w), user |-> session[w].user,
                                  snap |-> {}, held |-> None]]
  /\ UNCHANGED <<stored, boot, client, mount, view, looking, due, changing, reading, locking>>

(* store.update reconciles the payments under way. *)
Reconcile(t) ==
  /\ Continues(t, "refreshed")
  /\ Goes(t, "reconciled")
  /\ UNCHANGED <<stored, boot, client, ui, changing, reading, locking, budget>>

(* The figures go over those of the session there is by now; the scope is    *)
(* looked at only for the snapshot, which takes them merged or, when the UI  *)
(* has yet to apply the change, as they came.                                *)
Reconciled(t) ==
  LET s == task[t].scope
      before == session[s.window]
  IN /\ Running(t, "reconciled")
     /\ \E m \in Merged(IF before = None THEN {} ELSE before.shown, s.url) :
          /\ IF before = None THEN UNCHANGED session
             ELSE SetSession(s, [before EXCEPT !.shown = m, !.busy = FALSE, !.failed = FALSE])
          /\ \E kept \in {m, {s.url}} :
               snapshot' = IF Current(s) THEN [backend |-> s.url, shown |-> kept] ELSE snapshot
     /\ Ends(t)
     /\ UNCHANGED <<selection, cache, locked, boot, client, mount, view, looking, due, changing, reading, locking, budget>>

(* Within the bound, another poll follows a failed one.                      *)
RefreshFails(t) ==
  LET s == task[t].scope
      before == session[s.window]
  IN /\ budget.failures > 0 /\ budget.refreshes > 0
     /\ Continues(t, "refreshed")
     /\ budget' = [budget EXCEPT !.failures = @ - 1]
     /\ IF before = None THEN UNCHANGED session
        ELSE SetSession(s, [before EXCEPT !.busy = FALSE, !.failed = TRUE])
     /\ Ends(t)
     /\ UNCHANGED <<stored, boot, client, mount, view, looking, due, changing, reading, locking>>

-------------------------------------------------------------------------------

Init ==
  /\ budget \in Scenario
  /\ selection \in Backend
  /\ cache = None /\ snapshot = None /\ locked = FALSE /\ locking = None
  /\ inbox = [w \in Window |-> IF w \in budget.windows
                               THEN <<[kind |-> "boot", at |-> selection]>> ELSE <<>>]
  /\ notices = [w \in Window |-> 0]
  /\ url = [w \in Window |-> Default]
  /\ token = [w \in Window |-> None]
  /\ generation = [w \in Window |-> 0]
  /\ relay = [w \in Window |-> None]
  /\ mount = [w \in Window |-> 0]
  /\ view = [w \in Window |-> "booting"]
  /\ looking = {} /\ due = {}
  /\ session = [w \in Window |-> None]
  /\ changing = [w \in Window |-> None]
  /\ reading = {}
  /\ task = [t \in Task |-> None]

Storage(w) == Booted(w) \/ ReadSelection(w) \/ Follow(w) \/ Written(w)
Switching(w) == DropCache(w) \/ DropSnapshot(w) \/ DropSession(w)
Effects(w) == Refreshed(w) \/ EndSession(w) \/ \E t \in Task : StartSession(w, t)

Works(t) ==
  \/ Stops(t) \/ Paint(t) \/ Warm(t) \/ SignedIn(t) \/ Keep(t) \/ WriteCache(t)
  \/ Fetch(t) \/ Fetched(t) \/ ClearCache(t) \/ ShowError(t)
  \/ Reconcile(t) \/ Reconciled(t)

Next ==
  \/ \E w \in Window : \/ Storage(w) \/ Switching(w) \/ Effects(w) \/ Retry(w)
                       \/ Lock(w) \/ LockClears(w) \/ Unlock(w)
                       \/ \E b \in Backend : Choose(w, b)
                       \/ \E t \in Task : Refresh(w, t)
  \/ \E t \in Task : Works(t) \/ ShowOne(t) \/ Throws(t) \/ RefreshFails(t)
  \/ \E s \in reading : AdoptCapabilities(s)

(* Storage answers, the effects run, and what a window has begun goes on.    *)
Fairness ==
  /\ \A w \in Window : WF_vars(Storage(w) \/ Switching(w) \/ Effects(w) \/ LockClears(w))
  /\ \A t \in Task : WF_vars(Works(t))

Spec == Init /\ [][Next]_vars
FairSpec == Spec /\ Fairness

(* The poll of an open, visible window, every 8 or BACKGROUND_REFRESH_MS ms.  *)
Polling == \A w \in Window : WF_vars(\E t \in Task : Refresh(w, t))
PollingSpec == FairSpec /\ Polling

-------------------------------------------------------------------------------

(* Where work on a backend may stand, and what it carries.                   *)
Scopes == [window : Window, mount : Nat, url : Backend, generation : Nat]
Steps == {"snapshot", "warm", "signIn", "signedIn", "caching", "ready", "fetched", "failed",
          "clearing", "refreshed", "reconciled"}
Run == [at : Steps, scope : Scopes, user : Backend \union {None}, snap : Figures,
           held : Backend \union {None}]

(* Shapes and ranges: every session, run, answer and cached record is one the *)
(* code can hold.                                                            *)
BackendTypeOK ==
  /\ selection \in Backend /\ url \in [Window -> Backend]
  /\ cache \in [backend : Backend, token : Backend] \union {None}
  /\ snapshot \in [backend : Backend, shown : Figures] \union {None}
  /\ inbox \in [Window -> Seq([kind : {"boot", "read", "written"}, at : Backend])]
  /\ notices \in [Window -> Nat]
  /\ token \in [Window -> Backend \union {None}] /\ relay \in [Window -> Backend \union {None}]
  /\ generation \in [Window -> Nat] /\ mount \in [Window -> Nat]
  /\ view \in [Window -> {"booting", "loading", "locked", "unlocked"}]
  /\ session \in [Window -> Session \union {None}]
  /\ changing \in [Window -> Switch \union {None}]
  /\ task \in [Task -> Run \union {None}]
  /\ reading \subseteq Scopes /\ looking \subseteq Window /\ due \subseteq Window
  /\ locking \in Window \union {None} /\ budget \in Budget

(* A window presents a token, and reads a relay, only of the backend it       *)
(* points at, and the cache names the backend a token is of, whatever         *)
(* sign-ins and reads were under way when it moved (pinBackend, the scope     *)
(* checks of startSession and adoptBackendCapabilities).                     *)
ClientFitsBackend ==
  /\ \A w \in Window : token[w] \in {None, url[w]}
  /\ \A w \in Window : changing[w] = None => relay[w] \in {None, url[w]}
  /\ cache # None => cache.token = cache.backend

(* Once a switch is over, no window shows figures of a backend other than its *)
(* own, and the snapshot holds only those of the backend it names             *)
(* (startSession, refreshBalances, dropBackendSession).                      *)
NumbersFitBackend ==
  /\ \A w \in Window : changing[w] = None /\ session[w] # None => session[w].shown \subseteq {url[w]}
  /\ (\A w \in Window : changing[w] = None) /\ snapshot # None
       => snapshot.shown \subseteq {snapshot.backend}

Settled(w) ==
  view[w] = "unlocked" =>
    /\ url[w] = selection
    /\ session[w] # None /\ ~session[w].busy
    /\ session[w].user = url[w] \/ session[w].failed

(* Every open window ends up at the backend chosen last, and an unlocked one  *)
(* with a session of it, or with the error of a failed one, however the       *)
(* switches, the locks and the sign-ins they stop interleave                 *)
(* (followBackendSelection, dropBackendSession, the effect of startSession). *)
Follows == <>[](\A w \in Window : Settled(w))

(* "A persistent outage must keep retrying so the cue escalates and then      *)
(* recovers on its own" (the background refresh of popup/index.tsx): a window *)
(* left open does not show figures as failed for ever.                       *)
Recovers ==
  \A w \in Window :
    <>[](view[w] = "unlocked" /\ session[w] # None /\ session[w].shown # {} => ~session[w].failed)
================================================================================
