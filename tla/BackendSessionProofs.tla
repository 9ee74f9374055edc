-------------------------- MODULE BackendSessionProofs --------------------------
(****************************************************************************)
(* BackendSession: for any windows, backends, runs and bounds, a window     *)
(* presents a token and uses a relay only of the backend it points at.  A   *)
(* token is installed or cached right after a look at the scope, or pinned; *)
(* what remains is the two moves that leave the relay alone: the one at     *)
(* boot, before anything was read, and the one of a switch made here, which *)
(* the dropping of the session follows.                                     *)
(****************************************************************************)
EXTENDS BackendSession, TLAPS

(* Only the first answer on its way is other than of a change elsewhere: of  *)
(* the boot, in a window that has yet to boot, or of a write, in one that    *)
(* waits for it.                                                             *)
FirstAnswer ==
  \A w \in Window : \A i \in DOMAIN inbox[w] :
    /\ inbox[w][i].kind = "boot" => i = 1 /\ view[w] = "booting"
    /\ inbox[w][i].kind = "written" => i = 1 /\ Drops(w, "writing")

(* A window that has yet to boot has begun nothing. *)
Unborn ==
  \A w \in Window :
    view[w] = "booting" =>
      /\ changing[w] = None /\ relay[w] = None
      /\ w \notin looking /\ locking # w
      /\ \A s \in reading : s.window # w
      /\ \A t \in Task : task[t] # None => task[t].scope.window # w

(* What a run is about to cache is of the backend it began at. *)
CachingFits == \A t \in Task : Running(t, "caching") => task[t].held = task[t].scope.url

ClientInv == FirstAnswer /\ Unborn /\ CachingFits /\ ClientFitsBackend

-------------------------------------------------------------------------------
(* Types.                                                                    *)

Answers == [kind : {"boot", "read", "written"}, at : Backend]

(* The steps of a run keep it a run, those of a bound a bound. *)
LEMMA RunEdits ==
  ASSUME NEW r \in Run, NEW at \in Steps, NEW user \in Backend \union {None},
         NEW snap \in Figures, NEW held \in Backend \union {None}
  PROVE  /\ r.scope \in Scopes /\ r.snap \in Figures
         /\ r.user \in Backend \union {None} /\ r.held \in Backend \union {None}
         /\ r.scope.window \in Window /\ r.scope.url \in Backend
         /\ [r EXCEPT !.at = at] \in Run
         /\ [r EXCEPT !.at = at, !.user = user] \in Run
         /\ [r EXCEPT !.at = at, !.snap = snap] \in Run
         /\ [r EXCEPT !.at = at, !.held = held] \in Run
BY DEF Run, Scopes

LEMMA BudgetEdits ==
  ASSUME NEW b \in Budget
  PROVE  /\ b.switches > 0 => [b EXCEPT !.switches = @ - 1] \in Budget
         /\ b.locks > 0 => [b EXCEPT !.locks = @ - 1] \in Budget
         /\ b.failures > 0 => [b EXCEPT !.failures = @ - 1] \in Budget
         /\ b.refreshes > 0 => [b EXCEPT !.refreshes = @ - 1] \in Budget
BY DEF Budget

(* What a task that runs is: a run at a scope of a window. *)
LEMMA TaskRuns ==
  ASSUME BackendTypeOK, NEW t \in Task, task[t] # None
  PROVE  /\ task[t] \in Run /\ task[t].scope \in Scopes
         /\ task[t].scope.window \in Window /\ task[t].scope.url \in Backend
         /\ task[t].snap \in Figures /\ task[t].user \in Backend \union {None}
         /\ session[task[t].scope.window] \in Session \union {None}
<1>1. task[t] \in Run
  BY DEF BackendTypeOK
<1>2. /\ task[t].scope \in Scopes /\ task[t].snap \in Figures /\ task[t].user \in Backend \union {None}
      /\ task[t].scope.window \in Window /\ task[t].scope.url \in Backend
  BY <1>1 DEF Run, Scopes
<1>3. QED
  BY <1>1, <1>2 DEF BackendTypeOK

LEMMA TaskSteps ==
  ASSUME BackendTypeOK, NEW t \in Task
  PROVE  /\ \A at : Running(t, at) => task[t] \in Run
         /\ \A from : \A at \in Steps : Running(t, from) /\ Goes(t, at)
                        => task' \in [Task -> Run \union {None}]
         /\ Ends(t) => task' \in [Task -> Run \union {None}]
<1>1. \A at : Running(t, at) => task[t] \in Run
  BY DEF BackendTypeOK, Running
<1>2. ASSUME NEW from, NEW at \in Steps, Running(t, from), Goes(t, at)
      PROVE  task' \in [Task -> Run \union {None}]
  <2>1. [task[t] EXCEPT !.at = at] \in Run
    BY <1>1, <1>2, RunEdits DEF Figures
  <2>2. task' = [task EXCEPT ![t] = [task[t] EXCEPT !.at = at]]
    BY <1>2 DEF Goes, BackendTypeOK
  <2>3. QED
    BY <2>1, <2>2 DEF BackendTypeOK
<1>3. Ends(t) => task' \in [Task -> Run \union {None}]
  BY DEF BackendTypeOK, Ends
<1>4. QED
  BY <1>1, <1>2, <1>3

LEMMA SessionSet ==
  ASSUME BackendTypeOK, NEW s, s.window \in Window, NEW to \in Session \union {None},
         SetSession(s, to)
  PROVE  session' \in [Window -> Session \union {None}]
BY DEF BackendTypeOK, SetSession

(* The first answer is taken. *)
LEMMA AnswerTaken ==
  ASSUME BackendTypeOK, NEW w \in Window, NEW k, Answer(w, k), Taken(w)
  PROVE  Head(inbox[w]).at \in Backend /\ inbox' \in [Window -> Seq(Answers)]
<1>1. inbox \in [Window -> Seq(Answers)] /\ inbox[w] \in Seq(Answers) /\ inbox[w] # <<>>
  BY DEF BackendTypeOK, Answer, Answers
<1>2. Head(inbox[w]) \in Answers /\ Tail(inbox[w]) \in Seq(Answers)
  BY <1>1
<1>3. QED
  BY <1>1, <1>2 DEF Taken, Answers

LEMMA AnswerAsked ==
  ASSUME BackendTypeOK, NEW w \in Window, NEW a \in Answers,
         inbox' = [inbox EXCEPT ![w] = Append(@, a)]
  PROVE  inbox' \in [Window -> Seq(Answers)]
<1>1. inbox \in [Window -> Seq(Answers)] /\ inbox[w] \in Seq(Answers)
  BY DEF BackendTypeOK, Answers
<1>2. Append(inbox[w], a) \in Seq(Answers)
  BY <1>1
<1>3. QED
  BY <1>1, <1>2

LEMMA InitType == Assumptions /\ Init => BackendTypeOK
<1> SUFFICES ASSUME Assumptions, Init PROVE BackendTypeOK
  OBVIOUS
<1>1. budget \in Budget /\ selection \in Backend /\ Default \in Backend
  BY DEF Init, Assumptions
<1>2. inbox \in [Window -> Seq(Answers)]
  <2>1. <<[kind |-> "boot", at |-> selection]>> \in Seq(Answers) /\ <<>> \in Seq(Answers)
    BY <1>1 DEF Answers
  <2>2. QED
    BY <2>1 DEF Init
<1>3. QED
  BY <1>1, <1>2 DEF Init, BackendTypeOK, Answers

LEMMA BootedType == ASSUME Assumptions, BackendTypeOK, NEW w \in Window, Booted(w) PROVE BackendTypeOK'
BY AnswerTaken DEF Booted, Point, Answers, stored, boot, client, ui, BackendTypeOK

LEMMA ReadSelectionType ==
  ASSUME Assumptions, BackendTypeOK, NEW w \in Window, ReadSelection(w) PROVE BackendTypeOK'
<1>1. [kind |-> "read", at |-> selection] \in Answers
  BY DEF BackendTypeOK, Answers
<1>2. inbox' \in [Window -> Seq(Answers)]
  BY <1>1, AnswerAsked DEF ReadSelection
<1>3. notices' \in [Window -> Nat]
  BY DEF ReadSelection, BackendTypeOK
<1>4. QED
  BY <1>2, <1>3 DEF ReadSelection, Answers, stored, client, ui, BackendTypeOK

LEMMA FollowType == ASSUME Assumptions, BackendTypeOK, NEW w \in Window, Follow(w) PROVE BackendTypeOK'
<1>1. Head(inbox[w]).at \in Backend /\ inbox' \in [Window -> Seq(Answers)]
  BY AnswerTaken DEF Follow
<1>2. CASE Head(inbox[w]).at = url[w]
  BY <1>1, <1>2 DEF Follow, Answers, stored, client, ui, BackendTypeOK
<1>3. CASE Head(inbox[w]).at # url[w]
  <2>1. /\ url' \in [Window -> Backend] /\ token' \in [Window -> Backend \union {None}]
        /\ relay' \in [Window -> Backend \union {None}]
    BY <1>1, <1>3 DEF Follow, Point, BackendTypeOK
  <2>2. generation' \in [Window -> Nat] /\ mount' \in [Window -> Nat]
    <3>1. /\ generation' = [generation EXCEPT ![w] = generation[w] + 1]
          /\ mount' = [mount EXCEPT ![w] = mount[w] + 1]
      BY <1>3 DEF Follow
    <3>2. generation[w] + 1 \in Nat /\ mount[w] + 1 \in Nat
      BY DEF BackendTypeOK
    <3>3. QED
      BY <3>1, <3>2 DEF BackendTypeOK
  <2>3. /\ view' \in [Window -> {"booting", "loading", "locked", "unlocked"}]
        /\ session' \in [Window -> Session \union {None}]
        /\ looking' \subseteq Window /\ due' \subseteq Window
    <3>1. /\ view' = [view EXCEPT ![w] = "loading"] /\ session' = [session EXCEPT ![w] = None]
          /\ looking' = looking \union {w} /\ due' = due \ {w}
      BY <1>3 DEF Follow
    <3>2. QED
      BY <3>1 DEF BackendTypeOK
  <2>4. QED
    BY <1>1, <2>1, <2>2, <2>3 DEF Follow, Answers, stored, BackendTypeOK
<1>4. QED
  BY <1>2, <1>3

(* The steps of a switch keep it a switch. *)
LEMMA SwitchSteps ==
  ASSUME BackendTypeOK, NEW w \in Window, changing[w] # None,
         NEW at \in {"cache", "snapshot", "session"}, Proceeds(w, at)
  PROVE  changing' \in [Window -> Switch \union {None}]
<1>1. changing[w] \in Switch
  BY DEF BackendTypeOK
<1>2. [changing[w] EXCEPT !.at = at] \in Switch
  BY <1>1 DEF Switch
<1>3. changing' = [changing EXCEPT ![w] = [changing[w] EXCEPT !.at = at]]
  BY DEF Proceeds
<1>4. QED
  BY <1>2, <1>3 DEF BackendTypeOK

LEMMA WrittenType == ASSUME Assumptions, BackendTypeOK, ClientInv, NEW w \in Window, Written(w) PROVE BackendTypeOK'
<1>1. changing[w] # None
  <2>1. inbox[w] \in Seq(Answers) /\ inbox[w] # <<>> /\ Head(inbox[w]).kind = "written"
    BY DEF Written, Answer, BackendTypeOK, Answers
  <2>2. 1 \in DOMAIN inbox[w] /\ inbox[w][1].kind = "written"
    BY <2>1
  <2>3. QED
    BY <2>2 DEF ClientInv, FirstAnswer, Drops
<1>3. changing' \in [Window -> Switch \union {None}]
  BY <1>1, SwitchSteps DEF Written
<1>4. Head(inbox[w]).at \in Backend /\ inbox' \in [Window -> Seq(Answers)]
  BY AnswerTaken DEF Written
<1>5. /\ url' \in [Window -> Backend] /\ token' \in [Window -> Backend \union {None}]
      /\ generation' \in [Window -> Nat]
  BY <1>4 DEF Written, Point, BackendTypeOK
<1>6. QED
  BY <1>3, <1>4, <1>5 DEF Written, Answers, stored, ui, BackendTypeOK

LEMMA DropCacheType == ASSUME Assumptions, BackendTypeOK, NEW w \in Window, DropCache(w) PROVE BackendTypeOK'
<1>1. changing' \in [Window -> Switch \union {None}]
  BY SwitchSteps DEF DropCache, Drops
<1>2. QED
  BY <1>1 DEF DropCache, stored, boot, client, ui, BackendTypeOK

LEMMA DropSnapshotType == ASSUME Assumptions, BackendTypeOK, NEW w \in Window, DropSnapshot(w) PROVE BackendTypeOK'
<1>1. changing' \in [Window -> Switch \union {None}]
  BY SwitchSteps DEF DropSnapshot, Drops
<1>2. QED
  BY <1>1 DEF DropSnapshot, stored, boot, client, ui, BackendTypeOK

LEMMA DropSessionType == ASSUME Assumptions, BackendTypeOK, NEW w \in Window, DropSession(w) PROVE BackendTypeOK'
BY DEF DropSession, Drops, SetSession, Held, Looks, stored, boot, client, ui, BackendTypeOK

LEMMA RefreshedType == ASSUME Assumptions, BackendTypeOK, NEW w \in Window, Refreshed(w) PROVE BackendTypeOK'
<1>1. Scope(w) \in Scopes
  BY DEF BackendTypeOK, Scope, Scopes
<1>2. QED
  BY <1>1 DEF Refreshed, Looks, stored, boot, client, BackendTypeOK

LEMMA EndSessionType == ASSUME Assumptions, BackendTypeOK, NEW w \in Window, EndSession(w) PROVE BackendTypeOK'
BY DEF EndSession, stored, boot, client, ui, BackendTypeOK

LEMMA RetryType == ASSUME Assumptions, BackendTypeOK, NEW w \in Window, Retry(w) PROVE BackendTypeOK'
BY DEF Retry, Looks, stored, boot, client, ui, BackendTypeOK

LEMMA LockType == ASSUME Assumptions, BackendTypeOK, NEW w \in Window, Lock(w) PROVE BackendTypeOK'
BY BudgetEdits DEF Lock, stored, boot, client, ui, BackendTypeOK

LEMMA LockClearsType == ASSUME Assumptions, BackendTypeOK, NEW w \in Window, LockClears(w) PROVE BackendTypeOK'
BY DEF LockClears, stored, boot, client, ui, BackendTypeOK

LEMMA UnlockType == ASSUME Assumptions, BackendTypeOK, NEW w \in Window, Unlock(w) PROVE BackendTypeOK'
BY DEF Unlock, stored, boot, client, ui, BackendTypeOK

LEMMA StopsType == ASSUME Assumptions, BackendTypeOK, NEW t \in Task, Stops(t) PROVE BackendTypeOK'
BY TaskSteps DEF Stops, stored, boot, client, ui, BackendTypeOK

LEMMA PaintType == ASSUME Assumptions, BackendTypeOK, NEW t \in Task, Paint(t) PROVE BackendTypeOK'
<1>1. task[t] \in Run /\ task[t].scope.window \in Window /\ task[t].scope.url \in Backend
  BY TaskRuns DEF Paint, Continues, Running
<1>2. Snapshot(task[t].scope.url) \in Figures
  BY DEF Snapshot, Figures, BackendTypeOK
<1>3. Placeholder(Snapshot(task[t].scope.url)) \in Session
  BY <1>2 DEF Placeholder, Session
<1>4. session' \in [Window -> Session \union {None}]
  BY <1>1, <1>3, SessionSet DEF Paint, BackendTypeOK
<1>5. task' = [task EXCEPT ![t] = [task[t] EXCEPT !.at = "warm", !.snap = Snapshot(task[t].scope.url)]]
  BY DEF Paint, BackendTypeOK
<1>6. [task[t] EXCEPT !.at = "warm", !.snap = Snapshot(task[t].scope.url)] \in Run
  BY <1>1, <1>2, RunEdits DEF Steps
<1>7. task' \in [Task -> Run \union {None}]
  BY <1>5, <1>6 DEF BackendTypeOK
<1>8. QED
  BY <1>4, <1>7 DEF Paint, stored, boot, client, BackendTypeOK

LEMMA WarmType == ASSUME Assumptions, BackendTypeOK, NEW t \in Task, Warm(t) PROVE BackendTypeOK'
<1>1. task[t] \in Run /\ task[t].scope.window \in Window
  BY TaskRuns DEF Warm, Continues, Running
<1>2. CASE WarmSignIn(task[t].scope.url)
  <2>1. cache.token \in Backend
    BY <1>2 DEF WarmSignIn, BackendTypeOK
  <2>2. task' = [task EXCEPT ![t] = [task[t] EXCEPT !.at = "ready", !.user = cache.token]]
    BY <1>2 DEF Warm, BackendTypeOK
  <2>3. task' \in [Task -> Run \union {None}]
    <3>1. [task[t] EXCEPT !.at = "ready", !.user = cache.token] \in Run
      BY <1>1, <2>1, RunEdits DEF Steps, Figures
    <3>2. QED
      BY <2>2, <3>1 DEF BackendTypeOK
  <2>4. token' \in [Window -> Backend \union {None}]
    BY <1>1, <1>2, <2>1 DEF Warm, BackendTypeOK
  <2>5. QED
    BY <2>3, <2>4 DEF Warm, stored, boot, ui, BackendTypeOK
<1>3. CASE ~WarmSignIn(task[t].scope.url)
  BY <1>3, TaskSteps DEF Warm, Continues, Steps, stored, boot, ui, BackendTypeOK
<1>4. QED
  BY <1>2, <1>3

LEMMA SignedInType == ASSUME Assumptions, BackendTypeOK, NEW t \in Task, SignedIn(t) PROVE BackendTypeOK'
<1>1. task[t] \in Run /\ task[t].scope.window \in Window /\ task[t].scope.url \in Backend
  BY TaskRuns DEF SignedIn, Running
<1>2. CASE url[task[t].scope.window] = task[t].scope.url
  <2>1. task' = [task EXCEPT ![t] = [task[t] EXCEPT !.at = "signedIn", !.user = task[t].scope.url]]
    BY <1>2 DEF SignedIn, BackendTypeOK
  <2>2. task' \in [Task -> Run \union {None}]
    <3>1. [task[t] EXCEPT !.at = "signedIn", !.user = task[t].scope.url] \in Run
      BY <1>1, RunEdits DEF Steps, Figures
    <3>2. QED
      BY <2>1, <3>1 DEF BackendTypeOK
  <2>3. token' \in [Window -> Backend \union {None}]
    BY <1>1, <1>2 DEF SignedIn, BackendTypeOK
  <2>4. QED
    BY <2>2, <2>3 DEF SignedIn, stored, boot, ui, BackendTypeOK
<1>3. CASE url[task[t].scope.window] # task[t].scope.url
  BY <1>3, TaskSteps DEF SignedIn, Steps, stored, boot, ui, BackendTypeOK
<1>4. QED
  BY <1>2, <1>3

LEMMA KeepType == ASSUME Assumptions, BackendTypeOK, NEW t \in Task, Keep(t) PROVE BackendTypeOK'
<1>1. task[t] \in Run /\ task[t].scope.window \in Window
  BY TaskRuns DEF Keep, Continues, Running
<1> DEFINE at == IF token[task[t].scope.window] = None THEN "ready" ELSE "caching"
<1>2. at \in Steps /\ token[task[t].scope.window] \in Backend \union {None}
  BY <1>1 DEF Steps, BackendTypeOK
<1>3. task' = [task EXCEPT ![t] = [task[t] EXCEPT !.at = at, !.held = token[task[t].scope.window]]]
  BY DEF Keep, BackendTypeOK
<1> HIDE DEF at
<1>4. [task[t] EXCEPT !.at = at, !.held = token[task[t].scope.window]] \in Run
  <2>1. task[t] \in Run /\ {} \in Figures /\ None \in Backend \union {None}
    BY <1>1 DEF Figures
  <2>2. QED
    BY <1>2, <2>1, RunEdits
<1>5. task' \in [Task -> Run \union {None}]
  BY <1>3, <1>4 DEF BackendTypeOK
<1>6. QED
  BY <1>5 DEF Keep, stored, boot, client, ui, BackendTypeOK

LEMMA WriteCacheType == ASSUME Assumptions, BackendTypeOK, ClientInv, NEW t \in Task, WriteCache(t) PROVE BackendTypeOK'
<1>1. task[t] \in Run /\ task[t].scope.url \in Backend /\ task[t].held = task[t].scope.url
  BY TaskRuns DEF WriteCache, ClientInv, CachingFits, Running
<1>2. task' \in [Task -> Run \union {None}]
  BY TaskSteps DEF WriteCache, Steps
<1>3. QED
  BY <1>1, <1>2 DEF WriteCache, boot, client, ui, BackendTypeOK

LEMMA FetchType == ASSUME Assumptions, BackendTypeOK, NEW t \in Task, Fetch(t) PROVE BackendTypeOK'
BY TaskSteps DEF Fetch, Continues, Steps, stored, boot, client, ui, BackendTypeOK

LEMMA ShowOneType == ASSUME Assumptions, BackendTypeOK, NEW t \in Task, ShowOne(t) PROVE BackendTypeOK'
<1>1. task[t] \in Run /\ task[t].scope.window \in Window /\ task[t].scope.url \in Backend
  BY TaskRuns DEF ShowOne, Continues, Running
<1>2. [session[task[t].scope.window] EXCEPT !.shown = @ \union {task[t].scope.url}] \in Session
  <2>1. session[task[t].scope.window] \in Session
    BY TaskRuns DEF ShowOne, Continues, Running
  <2>2. QED
    BY <1>1, <2>1 DEF Session, Figures
<1>3. session' \in [Window -> Session \union {None}]
  BY <1>1, <1>2, SessionSet DEF ShowOne
<1>4. QED
  BY <1>3 DEF ShowOne, stored, boot, client, BackendTypeOK

LEMMA FetchedType == ASSUME Assumptions, BackendTypeOK, NEW t \in Task, Fetched(t) PROVE BackendTypeOK'
<1>1. /\ task[t] \in Run /\ task[t].scope \in Scopes /\ task[t].scope.window \in Window
      /\ task[t].scope.url \in Backend /\ task[t].snap \in Figures /\ task[t].user \in Backend \union {None}
  BY TaskRuns DEF Fetched, Continues, Running
<1>2. PICK m \in Merged(task[t].snap, task[t].scope.url) :
        /\ SetSession(task[t].scope, [user |-> task[t].user, shown |-> m, busy |-> FALSE, failed |-> FALSE])
        /\ snapshot' = [backend |-> task[t].scope.url, shown |-> m]
  BY DEF Fetched
<1>3. m \in Figures
  BY <1>1, <1>2 DEF Merged, Figures
<1>4. [user |-> task[t].user, shown |-> m, busy |-> FALSE, failed |-> FALSE] \in Session
  BY <1>1, <1>3 DEF Session
<1>5. session' \in [Window -> Session \union {None}]
  BY <1>1, <1>2, <1>4, SessionSet
<1>6. snapshot' \in [backend : Backend, shown : Figures]
  BY <1>1, <1>2, <1>3
<1>7. reading' \subseteq Scopes
  BY <1>1 DEF Fetched, BackendTypeOK
<1>8. QED
  BY <1>5, <1>6, <1>7, TaskSteps DEF Fetched, boot, client, BackendTypeOK

LEMMA ThrowsType == ASSUME Assumptions, BackendTypeOK, NEW t \in Task, Throws(t) PROVE BackendTypeOK'
<1>1. budget' \in Budget
  BY BudgetEdits DEF Throws, BackendTypeOK
<1>2. task' \in [Task -> Run \union {None}]
  BY TaskSteps DEF Throws, Continues, Steps
<1>3. QED
  BY <1>1, <1>2 DEF Throws, stored, boot, client, ui, BackendTypeOK

LEMMA ClearCacheType == ASSUME Assumptions, BackendTypeOK, NEW t \in Task, ClearCache(t) PROVE BackendTypeOK'
BY TaskSteps DEF ClearCache, Continues, Steps, stored, boot, client, ui, BackendTypeOK

LEMMA ShowErrorType == ASSUME Assumptions, BackendTypeOK, NEW t \in Task, ShowError(t) PROVE BackendTypeOK'
<1> DEFINE before == session[task[t].scope.window]
           shown  == IF before # None /\ before.shown # {} THEN before.shown ELSE task[t].snap
<1>1. task[t] \in Run /\ task[t].scope.window \in Window /\ task[t].snap \in Figures
  BY TaskRuns DEF ShowError, Running
<1>2. before \in Session \union {None}
  BY <1>1 DEF BackendTypeOK
<1>3. shown \in Figures
  BY <1>1, <1>2 DEF Session
<1>4. [user |-> None, busy |-> FALSE, failed |-> TRUE, shown |-> shown] \in Session
  BY <1>3 DEF Session
<1>5. session' \in [Window -> Session \union {None}]
  BY <1>1, <1>4, SessionSet DEF ShowError
<1>6. QED
  BY <1>5, TaskSteps DEF ShowError, stored, boot, client, BackendTypeOK

LEMMA ReconcileType == ASSUME Assumptions, BackendTypeOK, NEW t \in Task, Reconcile(t) PROVE BackendTypeOK'
BY TaskSteps DEF Reconcile, Continues, Steps, stored, boot, client, ui, BackendTypeOK

LEMMA ReconciledType == ASSUME Assumptions, BackendTypeOK, NEW t \in Task, Reconciled(t) PROVE BackendTypeOK'
<1> DEFINE s == task[t].scope
           before == session[s.window]
<1>1. task[t] \in Run /\ s.window \in Window /\ s.url \in Backend
  BY TaskRuns DEF Reconciled, Running
<1>2. before \in Session \union {None}
  BY <1>1 DEF BackendTypeOK
<1>3. PICK m \in Merged(IF before = None THEN {} ELSE before.shown, s.url) :
        /\ IF before = None THEN UNCHANGED session
           ELSE SetSession(s, [before EXCEPT !.shown = m, !.busy = FALSE, !.failed = FALSE])
        /\ \E kept \in {m, {s.url}} :
             snapshot' = IF Current(s) THEN [backend |-> s.url, shown |-> kept] ELSE snapshot
  BY DEF Reconciled
<1>4. m \in Figures
  BY <1>1, <1>2, <1>3 DEF Merged, Figures, Session
<1>5. before # None => [before EXCEPT !.shown = m, !.busy = FALSE, !.failed = FALSE] \in Session
  BY <1>2, <1>4 DEF Session
<1>6. session' \in [Window -> Session \union {None}]
  BY <1>1, <1>3, <1>5, SessionSet DEF BackendTypeOK
<1>7. snapshot' \in [backend : Backend, shown : Figures] \union {None}
  BY <1>1, <1>3, <1>4 DEF BackendTypeOK, Figures
<1>8. QED
  BY <1>6, <1>7, TaskSteps DEF Reconciled, boot, client, BackendTypeOK

LEMMA RefreshFailsType == ASSUME Assumptions, BackendTypeOK, NEW t \in Task, RefreshFails(t) PROVE BackendTypeOK'
<1> DEFINE before == session[task[t].scope.window]
<1>1. task[t] \in Run /\ task[t].scope.window \in Window
  BY TaskRuns DEF RefreshFails, Continues, Running
<1>2. before \in Session \union {None}
  BY <1>1 DEF BackendTypeOK
<1>3. before # None => [before EXCEPT !.busy = FALSE, !.failed = TRUE] \in Session
  BY <1>2 DEF Session
<1>4. session' \in [Window -> Session \union {None}]
  BY <1>1, <1>3, SessionSet DEF RefreshFails, BackendTypeOK
<1>5. budget' \in Budget
  BY BudgetEdits DEF RefreshFails, BackendTypeOK
<1>6. QED
  BY <1>4, <1>5, TaskSteps DEF RefreshFails, stored, boot, client, BackendTypeOK

LEMMA StartSessionType ==
  ASSUME Assumptions, BackendTypeOK, NEW w \in Window, NEW t \in Task, StartSession(w, t)
  PROVE  BackendTypeOK'
<1>1. [at |-> "snapshot", scope |-> Scope(w), user |-> None, snap |-> {}, held |-> None] \in Run
  BY DEF Scope, Scopes, Run, Steps, Figures, BackendTypeOK
<1>2. QED
  BY <1>1 DEF StartSession, stored, boot, client, BackendTypeOK

LEMMA RefreshType ==
  ASSUME Assumptions, BackendTypeOK, NEW w \in Window, NEW t \in Task, Refresh(w, t)
  PROVE  BackendTypeOK'
<1>1. session[w] \in Session /\ session[w].user \in Backend
  BY DEF Refresh, Session, BackendTypeOK
<1>2. [at |-> "refreshed", scope |-> Scope(w), user |-> session[w].user, snap |-> {}, held |-> None] \in Run
  BY <1>1 DEF Scope, Scopes, Run, Steps, Figures, BackendTypeOK
<1>3. session' \in [Window -> Session \union {None}]
  <2>1. session' = [session EXCEPT ![w] = [session[w] EXCEPT !.busy = TRUE]]
    BY DEF Refresh, BackendTypeOK
  <2>2. [session[w] EXCEPT !.busy = TRUE] \in Session
    BY <1>1 DEF Session
  <2>3. QED
    BY <2>1, <2>2 DEF BackendTypeOK
<1>4. task' \in [Task -> Run \union {None}]
  BY <1>2 DEF Refresh, BackendTypeOK
<1>5. budget' \in Budget
  BY BudgetEdits DEF Refresh, BackendTypeOK
<1>6. QED
  BY <1>3, <1>4, <1>5 DEF Refresh, stored, boot, client, BackendTypeOK

LEMMA ChooseType ==
  ASSUME Assumptions, BackendTypeOK, NEW w \in Window, NEW b \in Backend, Choose(w, b)
  PROVE  BackendTypeOK'
<1>1. [kind |-> "written", at |-> b] \in Answers
  BY DEF Answers
<1>2. inbox' \in [Window -> Seq(Answers)]
  BY <1>1, AnswerAsked DEF Choose
<1>3. [at |-> "writing", window |-> w, mount |-> mount[w]] \in Switch
  BY DEF Switch, BackendTypeOK
<1>4. budget' \in Budget
  BY BudgetEdits DEF Choose, BackendTypeOK
<1>5. QED
  BY <1>2, <1>3, <1>4 DEF Choose, Answers, client, ui, BackendTypeOK

LEMMA AdoptCapabilitiesType ==
  ASSUME Assumptions, BackendTypeOK, NEW s \in reading, AdoptCapabilities(s)
  PROVE  BackendTypeOK'
BY DEF AdoptCapabilities, Scopes, stored, boot, ui, BackendTypeOK

LEMMA StepType ==
  ASSUME Assumptions, BackendTypeOK, ClientInv, [Next]_vars
  PROVE  BackendTypeOK'
<1>1. CASE UNCHANGED vars
  BY <1>1 DEF vars, stored, boot, client, ui, BackendTypeOK
<1>2. ASSUME NEW w \in Window, Storage(w) \/ Switching(w) \/ Retry(w) \/ Lock(w) \/ LockClears(w) \/ Unlock(w)
      PROVE  BackendTypeOK'
  BY <1>2, BootedType, ReadSelectionType, FollowType, WrittenType, DropCacheType, DropSnapshotType,
     DropSessionType, RetryType, LockType, LockClearsType, UnlockType DEF Storage, Switching
<1>3. ASSUME NEW w \in Window, Effects(w) PROVE BackendTypeOK'
  BY <1>3, RefreshedType, EndSessionType, StartSessionType DEF Effects
<1>4. ASSUME NEW t \in Task, Works(t) PROVE BackendTypeOK'
  BY <1>4, StopsType, PaintType, WarmType, SignedInType, KeepType, WriteCacheType, FetchType,
     FetchedType, ClearCacheType, ShowErrorType, ReconcileType, ReconciledType DEF Works
<1>5. ASSUME NEW t \in Task, ShowOne(t) \/ Throws(t) \/ RefreshFails(t) PROVE BackendTypeOK'
  BY <1>5, ShowOneType, ThrowsType, RefreshFailsType
<1>6. QED
  BY <1>1, <1>2, <1>3, <1>4, <1>5, ChooseType, RefreshType, AdoptCapabilitiesType DEF Next

-------------------------------------------------------------------------------
(* The invariant.                                                            *)

(* What is left after the first answer is of changes elsewhere. *)
LEMMA AnswersLeft ==
  ASSUME BackendTypeOK, FirstAnswer, NEW w \in Window, inbox[w] # <<>>, Taken(w)
  PROVE  /\ \A v \in Window \ {w} : inbox'[v] = inbox[v]
         /\ \A i \in DOMAIN inbox'[w] : inbox'[w][i].kind \notin {"boot", "written"}
<1>1. inbox[w] \in Seq(Answers) /\ inbox' = [inbox EXCEPT ![w] = Tail(inbox[w])]
  BY DEF BackendTypeOK, Answers, Taken
<1>2. inbox'[w] = Tail(inbox[w]) /\ \A v \in Window \ {w} : inbox'[v] = inbox[v]
  BY <1>1 DEF BackendTypeOK
<1>3. ASSUME NEW i \in DOMAIN Tail(inbox[w])
      PROVE  i + 1 \in DOMAIN inbox[w] /\ Tail(inbox[w])[i] = inbox[w][i + 1] /\ i + 1 # 1
  BY <1>1, <1>3
<1>4. QED
  BY <1>2, <1>3 DEF FirstAnswer

(* The answer at hand, and who waits for it. *)
LEMMA AnswerAtHand ==
  ASSUME BackendTypeOK, FirstAnswer, NEW w \in Window
  PROVE  /\ Answer(w, "boot") => view[w] = "booting"
         /\ Answer(w, "written") => Drops(w, "writing")
<1>1. inbox[w] \in Seq(Answers)
  BY DEF BackendTypeOK, Answers
<1>2. inbox[w] # <<>> => 1 \in DOMAIN inbox[w] /\ Head(inbox[w]) = inbox[w][1]
  BY <1>1
<1>3. QED
  BY <1>2 DEF Answer, FirstAnswer

LEMMA FirstAnswerTaken ==
  ASSUME BackendTypeOK, FirstAnswer, NEW w \in Window, inbox[w] # <<>>, Taken(w),
         \A v \in Window \ {w} : view'[v] = view[v] /\ changing'[v] = changing[v]
  PROVE  FirstAnswer'
BY AnswersLeft DEF FirstAnswer, Drops

LEMMA FirstAnswerStep ==
  ASSUME Assumptions, BackendTypeOK, FirstAnswer, Unborn, [Next]_vars
  PROVE  FirstAnswer'
<1>1. ASSUME NEW w \in Window, Booted(w) \/ Follow(w) \/ Written(w)
      PROVE  FirstAnswer'
  <2>1. inbox[w] # <<>> /\ Taken(w)
    BY <1>1 DEF Booted, Follow, Written, Answer
  <2>2. \A v \in Window \ {w} : view'[v] = view[v] /\ changing'[v] = changing[v]
    BY <1>1 DEF Booted, Follow, Written, Proceeds, ui, BackendTypeOK
  <2>3. QED
    BY <2>1, <2>2, FirstAnswerTaken
<1>2. ASSUME NEW w \in Window, ReadSelection(w)
      PROVE  FirstAnswer'
  <2>1. /\ inbox[w] \in Seq(Answers)
        /\ inbox' = [inbox EXCEPT ![w] = Append(inbox[w], [kind |-> "read", at |-> selection])]
    BY <1>2 DEF ReadSelection, BackendTypeOK, Answers
  <2>2. \A i \in DOMAIN Append(inbox[w], [kind |-> "read", at |-> selection]) :
          \/ i \in DOMAIN inbox[w]
             /\ Append(inbox[w], [kind |-> "read", at |-> selection])[i] = inbox[w][i]
          \/ Append(inbox[w], [kind |-> "read", at |-> selection])[i] = [kind |-> "read", at |-> selection]
    BY <2>1
  <2>3. \A v \in Window : \A i \in DOMAIN inbox'[v] :
          \/ i \in DOMAIN inbox[v] /\ inbox'[v][i] = inbox[v][i]
          \/ inbox'[v][i].kind = "read"
    BY <2>1, <2>2 DEF BackendTypeOK
  <2>4. UNCHANGED <<view, changing>>
    BY <1>2 DEF ReadSelection, ui
  <2>5. QED
    BY <2>3, <2>4 DEF FirstAnswer, Drops
<1>3. ASSUME NEW w \in Window, NEW b \in Backend, Choose(w, b)
      PROVE  FirstAnswer'
  <2>1. inbox[w] = <<>> /\ \A v \in Window : inbox[v] = <<>>
    BY <1>3 DEF Choose
  <2>2. inbox'[w] = <<[kind |-> "written", at |-> b]>>
    BY <1>3, <2>1 DEF Choose, BackendTypeOK
  <2>3. \A v \in Window \ {w} : inbox'[v] = <<>>
    BY <1>3, <2>1 DEF Choose, BackendTypeOK
  <2>4. changing'[w] = [at |-> "writing", window |-> w, mount |-> mount[w]]
    BY <1>3 DEF Choose, BackendTypeOK
  <2>5. changing'[w] \in Switch /\ changing'[w].at = "writing"
    BY <2>4 DEF Switch, BackendTypeOK
  <2>6. changing'[w] # None
    BY <2>5 DEF Assumptions
  <2>7. QED
    BY <2>2, <2>3, <2>5, <2>6 DEF FirstAnswer, Drops
<1>4. ASSUME NEW w \in Window, DropCache(w) \/ DropSnapshot(w) \/ DropSession(w)
      PROVE  FirstAnswer'
  <2>1. UNCHANGED <<inbox, view>> /\ ~Drops(w, "writing")
    BY <1>4 DEF DropCache, DropSnapshot, DropSession, Drops, boot, ui
  <2>2. \A v \in Window \ {w} : changing'[v] = changing[v]
    BY <1>4 DEF DropCache, DropSnapshot, DropSession, Proceeds, BackendTypeOK
  <2>3. QED
    BY <2>1, <2>2 DEF FirstAnswer, Drops
<1>5. ASSUME NEW w \in Window, Refreshed(w)
      PROVE  FirstAnswer'
  <2>1. UNCHANGED <<inbox, changing>> /\ view[w] # "booting"
    BY <1>5 DEF Refreshed, boot, Unborn
  <2>2. \A v \in Window \ {w} : view'[v] = view[v]
    BY <1>5 DEF Refreshed, BackendTypeOK
  <2>3. QED
    BY <2>1, <2>2 DEF FirstAnswer, Drops
<1>6. CASE UNCHANGED <<inbox, view, changing>>
  BY <1>6 DEF FirstAnswer, Drops
<1>7. UNCHANGED vars => UNCHANGED <<inbox, view, changing>>
  BY DEF vars, boot, ui
<1>8. ASSUME NEW w \in Window,
             EndSession(w) \/ Retry(w) \/ Lock(w) \/ LockClears(w) \/ Unlock(w)
             \/ \E t \in Task : StartSession(w, t) \/ Refresh(w, t)
      PROVE  UNCHANGED <<inbox, view, changing>>
  BY <1>8 DEF EndSession, Retry, Lock, LockClears, Unlock, StartSession, Refresh, boot, ui
<1>9. ASSUME NEW t \in Task, Works(t) \/ ShowOne(t) \/ Throws(t) \/ RefreshFails(t)
      PROVE  UNCHANGED <<inbox, view, changing>>
  BY <1>9 DEF Works, Stops, Paint, Warm, SignedIn, Keep, WriteCache, Fetch, ShowOne, Fetched, Throws,
     ClearCache, ShowError, Reconcile, Reconciled, RefreshFails, boot, ui
<1>10. ASSUME NEW s \in reading, AdoptCapabilities(s)
       PROVE  UNCHANGED <<inbox, view, changing>>
  BY <1>10 DEF AdoptCapabilities, boot, ui
<1>11. QED
  BY <1>1, <1>2, <1>3, <1>4, <1>5, <1>6, <1>7, <1>8, <1>9, <1>10
     DEF Next, Storage, Switching, Effects

(* A run's next step leaves its scope, and only Keep makes it about to cache. *)
LEMMA RunSteps ==
  ASSUME BackendTypeOK, NEW t \in Task, Works(t) \/ ShowOne(t) \/ Throws(t) \/ RefreshFails(t)
  PROVE  \A u \in Task :
           task'[u] # None =>
             /\ task[u] # None /\ task'[u].scope = task[u].scope
             /\ task'[u].at = "caching" => task'[u] = task[u] \/ Keep(u)
<1>1. CASE Keep(t)
  BY <1>1 DEF Keep, Continues, Running, BackendTypeOK, Run
<1>2. CASE Paint(t) \/ Warm(t) \/ SignedIn(t)
  BY <1>2 DEF Paint, Warm, SignedIn, Continues, Running, Goes, BackendTypeOK, Run
<1>3. CASE WriteCache(t) \/ Fetch(t) \/ Throws(t) \/ ClearCache(t) \/ Reconcile(t)
  BY <1>3 DEF WriteCache, Fetch, Throws, ClearCache, Reconcile, Continues, Running, Goes, BackendTypeOK, Run
<1>4. CASE Stops(t) \/ Fetched(t) \/ ShowError(t) \/ Reconciled(t) \/ RefreshFails(t)
  BY <1>4 DEF Stops, Fetched, ShowError, Reconciled, RefreshFails, Ends, BackendTypeOK
<1>5. CASE ShowOne(t)
  BY <1>5 DEF ShowOne
<1>6. QED
  BY <1>1, <1>2, <1>3, <1>4, <1>5 DEF Works

LEMMA UnbornStep ==
  ASSUME Assumptions, BackendTypeOK, FirstAnswer, Unborn, [Next]_vars
  PROVE  Unborn'
<1> SUFFICES ASSUME NEW v \in Window, view'[v] = "booting"
             PROVE  /\ changing'[v] = None /\ relay'[v] = None
                    /\ v \notin looking' /\ locking' # v
                    /\ \A s \in reading' : s.window # v
                    /\ \A t \in Task : task'[t] # None => task'[t].scope.window # v
  BY DEF Unborn
<1> DEFINE Same == UNCHANGED <<view, changing, relay, looking, locking, reading, task>>
           Goal == /\ changing'[v] = None /\ relay'[v] = None
                   /\ v \notin looking' /\ locking' # v
                   /\ \A s \in reading' : s.window # v
                   /\ \A t \in Task : task'[t] # None => task'[t].scope.window # v
<1>1. view[v] = "booting" => /\ changing[v] = None /\ relay[v] = None
                             /\ v \notin looking /\ locking # v
                             /\ \A s \in reading : s.window # v
                             /\ \A t \in Task : task[t] # None => task[t].scope.window # v
  BY DEF Unborn
<1>2. CASE Same
  BY <1>1, <1>2
<1>3. ASSUME NEW w \in Window, Booted(w) \/ Follow(w) PROVE Goal
  <2>1. UNCHANGED <<changing, locking, reading, task>>
    BY <1>3 DEF Booted, Follow
  <2>2. CASE view' = [view EXCEPT ![w] = "loading"]
    <3>1. v # w /\ view[v] = "booting"
      BY <2>2 DEF BackendTypeOK
    <3>2. relay'[v] = relay[v] /\ (v \in looking' => v \in looking)
      BY <1>3, <3>1 DEF Booted, Follow, client, ui, BackendTypeOK
    <3>3. QED
      BY <1>1, <2>1, <3>1, <3>2
  <2>3. CASE UNCHANGED <<client, ui>>
    BY <1>1, <2>1, <2>3 DEF client, ui
  <2>4. QED
    BY <1>3, <2>2, <2>3 DEF Booted, Follow
<1>4. ASSUME NEW w \in Window, ReadSelection(w) \/ Retry(w) \/ EndSession(w) PROVE Goal
  BY <1>2, <1>4 DEF ReadSelection, Retry, EndSession, client, ui
<1>5. ASSUME NEW w \in Window, Written(w) \/ DropCache(w) \/ DropSnapshot(w) \/ DropSession(w) PROVE Goal
  <2>1. changing[w] # None
    BY <1>5, AnswerAtHand DEF Written, DropCache, DropSnapshot, DropSession, Drops
  <2>2. UNCHANGED <<view, locking, reading, task>>
    BY <1>5 DEF Written, DropCache, DropSnapshot, DropSession, ui
  <2>3. v # w
    BY <1>1, <2>1, <2>2
  <2>4. changing'[v] = changing[v] /\ relay'[v] = relay[v] /\ (v \in looking' => v \in looking)
    BY <1>5, <2>3 DEF Written, DropCache, DropSnapshot, DropSession, Proceeds, client, ui, BackendTypeOK
  <2>5. QED
    BY <1>1, <2>2, <2>4
<1>6. ASSUME NEW w \in Window, Refreshed(w) PROVE Goal
  <2>1. v # w /\ view[v] = "booting"
    BY <1>6 DEF Refreshed, BackendTypeOK
  <2>2. \A s \in reading' : s \in reading \/ s.window = w
    BY <1>6 DEF Refreshed, Scope
  <2>3. UNCHANGED <<changing, relay, locking, task>> /\ looking' = looking \ {w}
    BY <1>6 DEF Refreshed, client
  <2>4. QED
    BY <1>1, <2>1, <2>2, <2>3
<1>7. ASSUME NEW w \in Window, Lock(w) \/ LockClears(w) \/ Unlock(w) PROVE Goal
  <2>1. UNCHANGED <<view, changing, relay, reading, task>>
    BY <1>7 DEF Lock, LockClears, Unlock, client
  <2>2. locking' # v
    BY <1>1, <1>7, <2>1 DEF Lock, LockClears, Unlock, Assumptions
  <2>3. v \notin looking'
    BY <1>1, <1>7, <2>1 DEF Lock, LockClears, Unlock
  <2>4. QED
    BY <1>1, <2>1, <2>2, <2>3
<1>8. ASSUME NEW w \in Window, NEW b \in Backend, Choose(w, b) PROVE Goal
  <2>1. v # w
    BY <1>8 DEF Choose, ui
  <2>2. changing'[v] = changing[v] /\ UNCHANGED <<view, relay, looking, locking, reading, task>>
    BY <1>8, <2>1 DEF Choose, client, ui, BackendTypeOK
  <2>3. QED
    BY <1>1, <2>2
<1>9. ASSUME NEW w \in Window, NEW t \in Task, StartSession(w, t) \/ Refresh(w, t) PROVE Goal
  <2>1. UNCHANGED <<view, changing, relay, looking, locking, reading>>
    BY <1>9 DEF StartSession, Refresh, client
  <2>2. \A u \in Task : task'[u] = task[u] \/ (view[w] # "booting" /\ task'[u].scope.window = w)
    BY <1>9 DEF StartSession, Refresh, Scope, BackendTypeOK
  <2>3. QED
    BY <1>1, <2>1, <2>2
<1>10. ASSUME NEW t \in Task, Works(t) \/ ShowOne(t) \/ Throws(t) \/ RefreshFails(t) PROVE Goal
  <2>1. UNCHANGED <<view, changing, relay, looking, locking>>
    BY <1>10 DEF Works, Stops, Paint, Warm, SignedIn, Keep, WriteCache, Fetch, ShowOne, Fetched, Throws,
       ClearCache, ShowError, Reconcile, Reconciled, RefreshFails, client, ui
  <2>2. \A s \in reading' : s \in reading \/ (task[t] # None /\ s = task[t].scope)
    BY <1>10 DEF Works, Stops, Paint, Warm, SignedIn, Keep, WriteCache, Fetch, ShowOne, Fetched, Throws,
       ClearCache, ShowError, Reconcile, Reconciled, RefreshFails, Continues, Running
  <2>3. QED
    BY <1>1, <1>10, <2>1, <2>2, RunSteps
<1>11. ASSUME NEW s \in reading, AdoptCapabilities(s) PROVE Goal
  <2>1. UNCHANGED <<view, changing, looking, locking, task>> /\ reading' \subseteq reading
    BY <1>11 DEF AdoptCapabilities, ui
  <2>2. s.window # v
    BY <1>1, <1>11, <2>1
  <2>3. relay'[v] = relay[v]
    BY <1>11, <2>2 DEF AdoptCapabilities, BackendTypeOK
  <2>4. QED
    BY <1>1, <2>1, <2>3
<1>12. CASE UNCHANGED vars
  BY <1>2, <1>12 DEF vars, client, ui
<1>13. QED
  BY <1>3, <1>4, <1>5, <1>6, <1>7, <1>8, <1>9, <1>10, <1>11, <1>12
     DEF Next, Storage, Switching, Effects

LEMMA CachingStep ==
  ASSUME Assumptions, BackendTypeOK, CachingFits, ClientFitsBackend, [Next]_vars
  PROVE  CachingFits'
<1>1. CASE UNCHANGED task
  BY <1>1 DEF CachingFits, Running
<1>2. ASSUME NEW w \in Window, NEW t \in Task, StartSession(w, t) \/ Refresh(w, t)
      PROVE  CachingFits'
  <2>1. \A u \in Task : task'[u] = task[u] \/ task'[u].at # "caching"
    BY <1>2 DEF StartSession, Refresh, BackendTypeOK
  <2>2. QED
    BY <2>1 DEF CachingFits, Running
<1>3. ASSUME NEW t \in Task, Works(t) \/ ShowOne(t) \/ Throws(t) \/ RefreshFails(t)
      PROVE  CachingFits'
  <2>1. ASSUME NEW u \in Task, Keep(u), task'[u].at = "caching"
        PROVE  task'[u].held = task[u].scope.url
    <3>1. task[u] \in Run /\ task[u].scope.window \in Window
      BY <2>1, TaskSteps, RunEdits DEF Keep, Continues, Steps, Figures
    <3>2. task'[u].held = token[task[u].scope.window] /\ token[task[u].scope.window] # None
      BY <2>1, <3>1 DEF Keep, Run, BackendTypeOK
    <3>3. QED
      BY <2>1, <3>1, <3>2 DEF Keep, Continues, Current, ClientFitsBackend
  <2>2. QED
    BY <1>3, <2>1, RunSteps DEF CachingFits, Running
<1>4. QED
  BY <1>1, <1>2, <1>3 DEF Next, vars, Storage, Switching, Effects, Booted, ReadSelection, Follow, Written,
     DropCache, DropSnapshot, DropSession, Refreshed, EndSession, Retry, Lock, LockClears, Unlock, Choose,
     AdoptCapabilities

TokenFits == \A w \in Window : token[w] \in {None, url[w]}
RelayFits == \A w \in Window : changing[w] = None => relay[w] \in {None, url[w]}
CacheFits == cache # None => cache.token = cache.backend

LEMMA FitsParts == ClientFitsBackend <=> TokenFits /\ RelayFits /\ CacheFits
BY DEF ClientFitsBackend, TokenFits, RelayFits, CacheFits

(* A token is dropped with the move of its window, and set to where it points. *)
LEMMA TokenStep ==
  ASSUME Assumptions, BackendTypeOK, TokenFits, CacheFits, [Next]_vars
  PROVE  TokenFits'
<1>1. CASE UNCHANGED <<url, token>>
  BY <1>1 DEF TokenFits
<1>2. ASSUME NEW w \in Window, Booted(w) \/ Follow(w) \/ Written(w) PROVE TokenFits'
  <2>1. CASE UNCHANGED client
    BY <1>1, <2>1 DEF client
  <2>2. CASE Point(w, Head(inbox[w]).at)
    BY <2>2 DEF Point, TokenFits, BackendTypeOK
  <2>3. QED
    BY <1>2, <2>1, <2>2 DEF Booted, Follow, Written
<1>3. ASSUME NEW w \in Window, EndSession(w) PROVE TokenFits'
  BY <1>3 DEF EndSession, TokenFits, BackendTypeOK
<1>4. ASSUME NEW t \in Task, Warm(t) PROVE TokenFits'
  <2>1. task[t].scope.window \in Window
    BY <1>4, TaskSteps, RunEdits DEF Warm, Continues, Steps, Figures
  <2>2. CASE WarmSignIn(task[t].scope.url)
    <3>1. cache.token = task[t].scope.url
      BY <2>2 DEF WarmSignIn, CacheFits
    <3>2. url[task[t].scope.window] = task[t].scope.url
      BY <1>4 DEF Warm, Continues, Current
    <3>3. token' = [token EXCEPT ![task[t].scope.window] = cache.token] /\ url' = url
      BY <1>4, <2>2 DEF Warm
    <3>4. QED
      BY <2>1, <3>1, <3>2, <3>3 DEF TokenFits, BackendTypeOK
  <2>3. CASE ~WarmSignIn(task[t].scope.url)
    BY <1>1, <1>4, <2>3 DEF Warm
  <2>4. QED
    BY <2>2, <2>3
<1>5. ASSUME NEW t \in Task, SignedIn(t) PROVE TokenFits'
  <2>1. task[t].scope.window \in Window
    BY <1>5, TaskSteps, RunEdits DEF SignedIn, Steps, Figures
  <2>2. QED
    BY <1>5, <2>1 DEF SignedIn, TokenFits, BackendTypeOK
<1>6. QED
  <2>1. ASSUME NEW w \in Window,
               ReadSelection(w) \/ Switching(w) \/ Refreshed(w) \/ Retry(w) \/ Lock(w) \/ LockClears(w)
               \/ Unlock(w) \/ (\E b \in Backend : Choose(w, b))
               \/ (\E t \in Task : StartSession(w, t) \/ Refresh(w, t))
        PROVE  UNCHANGED <<url, token>>
    BY <2>1 DEF ReadSelection, Switching, DropCache, DropSnapshot, DropSession, Refreshed, Retry, Lock,
       LockClears, Unlock, Choose, StartSession, Refresh, client
  <2>2. ASSUME NEW t \in Task,
               \/ Stops(t) \/ Paint(t) \/ Keep(t) \/ WriteCache(t) \/ Fetch(t) \/ Fetched(t) \/ ClearCache(t)
               \/ ShowError(t) \/ Reconcile(t) \/ Reconciled(t) \/ ShowOne(t) \/ Throws(t) \/ RefreshFails(t)
        PROVE  UNCHANGED <<url, token>>
    BY <2>2 DEF Stops, Paint, Keep, WriteCache, Fetch, ShowOne, Fetched, Throws, ClearCache, ShowError,
       Reconcile, Reconciled, RefreshFails, client
  <2>3. ASSUME NEW s \in reading, AdoptCapabilities(s) PROVE UNCHANGED <<url, token>>
    BY <2>3 DEF AdoptCapabilities
  <2>4. QED
    BY <1>1, <1>2, <1>3, <1>4, <1>5, <2>1, <2>2, <2>3 DEF Next, Storage, Effects, Works, vars, client

(* A relay is adopted where the window points, and a move drops it: at boot  *)
(* there is none, and a switch made here drops it with the session.          *)
LEMMA RelayStep ==
  ASSUME Assumptions, BackendTypeOK, FirstAnswer, Unborn, RelayFits, [Next]_vars
  PROVE  RelayFits'
<1>1. CASE UNCHANGED <<url, relay, changing>>
  BY <1>1 DEF RelayFits
<1>2. ASSUME NEW w \in Window, Booted(w) PROVE RelayFits'
  <2>1. relay[w] = None
    BY <1>2, AnswerAtHand DEF Booted, Unborn
  <2>2. \A v \in Window \ {w} : url'[v] = url[v]
    BY <1>2 DEF Booted, Point, BackendTypeOK
  <2>3. UNCHANGED <<relay, changing>>
    BY <1>2 DEF Booted
  <2>4. QED
    BY <2>1, <2>2, <2>3 DEF RelayFits
<1>3. ASSUME NEW w \in Window, Follow(w) PROVE RelayFits'
  <2>1. CASE Head(inbox[w]).at = url[w]
    BY <1>1, <1>3, <2>1 DEF Follow, client
  <2>2. CASE Head(inbox[w]).at # url[w]
    <3>1. relay'[w] = None /\ \A v \in Window \ {w} : relay'[v] = relay[v] /\ url'[v] = url[v]
      BY <1>3, <2>2 DEF Follow, Point, BackendTypeOK
    <3>2. QED
      BY <1>3, <3>1 DEF Follow, RelayFits
  <2>3. QED
    BY <2>1, <2>2
<1>4. ASSUME NEW w \in Window, Written(w) \/ DropCache(w) \/ DropSnapshot(w) PROVE RelayFits'
  <2>1. changing[w] # None
    BY <1>4, AnswerAtHand DEF Written, DropCache, DropSnapshot, Drops
  <2>2. changing[w] \in Switch
    BY <2>1 DEF BackendTypeOK
  <2>3. PICK at \in {"cache", "snapshot", "session"} : changing' = [changing EXCEPT ![w] = [changing[w] EXCEPT !.at = at]]
    BY <1>4 DEF Written, DropCache, DropSnapshot, Proceeds
  <2>4. [changing[w] EXCEPT !.at = at] \in Switch
    BY <2>2 DEF Switch
  <2>5. changing'[w] # None /\ \A v \in Window \ {w} : changing'[v] = changing[v]
    BY <2>3, <2>4 DEF Assumptions, BackendTypeOK
  <2>6. relay' = relay /\ \A v \in Window \ {w} : url'[v] = url[v]
    BY <1>4 DEF Written, DropCache, DropSnapshot, Point, client, BackendTypeOK
  <2>7. QED
    BY <2>5, <2>6 DEF RelayFits
<1>5. ASSUME NEW w \in Window, DropSession(w) PROVE RelayFits'
  BY <1>5 DEF DropSession, RelayFits, BackendTypeOK
<1>6. ASSUME NEW w \in Window, NEW b \in Backend, Choose(w, b) PROVE RelayFits'
  BY <1>6 DEF Choose, RelayFits, client, BackendTypeOK
<1>7. ASSUME NEW s \in reading, AdoptCapabilities(s) PROVE RelayFits'
  BY <1>7 DEF AdoptCapabilities, Current, Scopes, RelayFits, BackendTypeOK
<1>8. QED
  <2>1. ASSUME NEW w \in Window,
               ReadSelection(w) \/ Effects(w) \/ Retry(w) \/ Lock(w) \/ LockClears(w) \/ Unlock(w)
               \/ (\E t \in Task : Refresh(w, t))
        PROVE  UNCHANGED <<url, relay, changing>>
    BY <2>1 DEF ReadSelection, Effects, Refreshed, EndSession, Retry, Lock, LockClears, Unlock,
       StartSession, Refresh, client
  <2>2. ASSUME NEW t \in Task, Works(t) \/ ShowOne(t) \/ Throws(t) \/ RefreshFails(t)
        PROVE  UNCHANGED <<url, relay, changing>>
    BY <2>2 DEF Works, Stops, Paint, Warm, SignedIn, Keep, WriteCache, Fetch, ShowOne, Fetched, Throws,
       ClearCache, ShowError, Reconcile, Reconciled, RefreshFails, client
  <2>3. QED
    BY <1>1, <1>2, <1>3, <1>4, <1>5, <1>6, <1>7, <2>1, <2>2 DEF Next, Storage, Switching, vars, client

(* Only a run that kept its own token writes the cache. *)
LEMMA CacheStep ==
  ASSUME CachingFits, CacheFits, [Next]_vars
  PROVE  CacheFits'
<1>1. CASE UNCHANGED cache
  BY <1>1 DEF CacheFits
<1>2. CASE cache' = None
  BY <1>2 DEF CacheFits
<1>3. ASSUME NEW t \in Task, WriteCache(t) PROVE CacheFits'
  BY <1>3 DEF WriteCache, CachingFits, CacheFits
<1>4. ASSUME NEW w \in Window,
             \/ Storage(w) \/ Switching(w) \/ Effects(w) \/ Retry(w) \/ Lock(w) \/ LockClears(w) \/ Unlock(w)
             \/ (\E b \in Backend : Choose(w, b)) \/ (\E t \in Task : Refresh(w, t))
      PROVE  UNCHANGED cache \/ cache' = None
  BY <1>4 DEF Storage, Switching, Effects, Booted, ReadSelection, Follow, Written, DropCache, DropSnapshot,
     DropSession, Refreshed, EndSession, Retry, Lock, LockClears, Unlock, Choose, StartSession, Refresh, stored
<1>5. ASSUME NEW t \in Task, Works(t) \/ ShowOne(t) \/ Throws(t) \/ RefreshFails(t)
      PROVE  UNCHANGED cache \/ cache' = None \/ WriteCache(t)
  BY <1>5 DEF Works, Stops, Paint, Warm, SignedIn, Keep, Fetch, ShowOne, Fetched, Throws,
     ClearCache, ShowError, Reconcile, Reconciled, RefreshFails, stored
<1>6. QED
  BY <1>1, <1>2, <1>3, <1>4, <1>5 DEF Next, AdoptCapabilities, vars, stored

LEMMA InitClient == Assumptions /\ Init => ClientInv
<1> SUFFICES ASSUME Assumptions, Init PROVE ClientInv
  OBVIOUS
<1>1. FirstAnswer
  BY DEF Init, FirstAnswer
<1>2. Unborn
  BY DEF Init, Unborn, Assumptions
<1>3. CachingFits
  BY DEF Init, CachingFits, Running
<1>4. ClientFitsBackend
  BY DEF Init, ClientFitsBackend
<1>5. QED
  BY <1>1, <1>2, <1>3, <1>4 DEF ClientInv

LEMMA ClientStep ==
  ASSUME Assumptions, BackendTypeOK, ClientInv, [Next]_vars
  PROVE  ClientInv'
<1>1. FirstAnswer' /\ Unborn' /\ CachingFits'
  BY FirstAnswerStep, UnbornStep, CachingStep DEF ClientInv
<1>2. ClientFitsBackend'
  BY FitsParts, TokenStep, RelayStep, CacheStep DEF ClientInv, ClientFitsBackend, TokenFits, RelayFits, CacheFits
<1>3. QED
  BY <1>1, <1>2 DEF ClientInv

(* The state always has the shape BackendTypeOK gives it. *)
THEOREM TypeCorrect ==
  ASSUME Assumptions
  PROVE  Spec => []BackendTypeOK
<1>1. Init => BackendTypeOK /\ ClientInv
  BY InitType, InitClient
<1>2. (BackendTypeOK /\ ClientInv) /\ [Next]_vars => (BackendTypeOK /\ ClientInv)'
  BY StepType, ClientStep
<1>3. QED
  BY <1>1, <1>2, PTL DEF Spec

(* For any windows, backends and runs: a window presents a token, and uses a *)
(* relay, only of the backend it points at, and the cache names the backend  *)
(* its token is of, whatever sign-ins and reads were under way when it moved.*)
THEOREM ClientFits ==
  ASSUME Assumptions
  PROVE  Spec => []ClientFitsBackend
<1>1. Init => BackendTypeOK /\ ClientInv
  BY InitType, InitClient
<1>2. (BackendTypeOK /\ ClientInv) /\ [Next]_vars => (BackendTypeOK /\ ClientInv)'
  BY StepType, ClientStep
<1>3. ClientInv => ClientFitsBackend
  BY DEF ClientInv
<1>4. QED
  BY <1>1, <1>2, <1>3, PTL DEF Spec

-------------------------------------------------------------------------------
(* The figures.                                                              *)

(* A switch made here has the session still to drop. *)
Moving(w) == changing[w] # None /\ Held(changing[w])

(* No UI is younger than the window's, and one switched here has not been    *)
(* started over before its client is pointed elsewhere.                      *)
Ages ==
  /\ \A t \in Task : task[t] # None => task[t].scope.mount <= mount[task[t].scope.window]
  /\ \A w \in Window :
       changing[w] # None => changing[w].window = w /\ changing[w].mount <= mount[w]
  /\ \A w \in Window : Drops(w, "writing") => Held(changing[w]) /\ Answer(w, "written")

(* A run that may yet show figures, but looks at its scope no more, ends at  *)
(* the backend it began at, or before the session is dropped.                *)
LateRuns ==
  \A t \in Task : Running(t, "clearing") \/ Refreshing(t) =>
    /\ Refreshing(t) => \A w \in Window : changing[w] = None
    /\ Held(task[t].scope) =>
         url[task[t].scope.window] = task[t].scope.url \/ Moving(task[t].scope.window)

FiguresFit ==
  /\ snapshot # None => snapshot.shown \subseteq {snapshot.backend}
  /\ \A t \in Task : task[t] # None => task[t].snap \subseteq {task[t].scope.url}
  /\ \A w \in Window : session[w] # None /\ ~Moving(w) => session[w].shown \subseteq {url[w]}

NumbersInv ==
  /\ ~budget.overlap
  /\ \A w \in Window : view[w] = "booting" => session[w] = None
  /\ Ages /\ LateRuns /\ FiguresFit

(* Who may move a window, and what that ends. *)
LEMMA Mounts ==
  ASSUME BackendTypeOK, [Next]_vars, NEW v \in Window
  PROVE  mount[v] \in Nat /\ mount'[v] \in Nat /\ mount'[v] >= mount[v]
<1>1. CASE UNCHANGED mount
  BY <1>1 DEF BackendTypeOK
<1>2. ASSUME NEW w \in Window, Follow(w) PROVE mount'[v] \in Nat /\ mount'[v] >= mount[v]
  <2>1. mount' = mount \/ mount' = [mount EXCEPT ![w] = mount[w] + 1]
    BY <1>2 DEF Follow, ui
  <2>2. mount \in [Window -> Nat]
    BY DEF BackendTypeOK
  <2>3. mount'[v] = mount[v] \/ mount'[v] = mount[v] + 1
    BY <2>1, <2>2
  <2>4. QED
    BY <2>2, <2>3
<1>3. ASSUME NEW w \in Window,
             \/ Booted(w) \/ ReadSelection(w) \/ Written(w) \/ Switching(w) \/ Effects(w) \/ Retry(w)
             \/ Lock(w) \/ LockClears(w) \/ Unlock(w)
             \/ (\E b \in Backend : Choose(w, b)) \/ (\E t \in Task : Refresh(w, t))
      PROVE  UNCHANGED mount
  BY <1>3 DEF Booted, ReadSelection, Written, Switching, DropCache, DropSnapshot, DropSession, Effects,
     Refreshed, EndSession, StartSession, Retry, Lock, LockClears, Unlock, Choose, Refresh, ui
<1>4. ASSUME NEW t \in Task, Works(t) \/ ShowOne(t) \/ Throws(t) \/ RefreshFails(t) PROVE UNCHANGED mount
  BY <1>4 DEF Works, Stops, Paint, Warm, SignedIn, Keep, WriteCache, Fetch, ShowOne, Fetched, Throws,
     ClearCache, ShowError, Reconcile, Reconciled, RefreshFails, ui
<1>5. QED
  BY <1>1, <1>2, <1>3, <1>4 DEF Next, Storage, AdoptCapabilities, vars, ui, BackendTypeOK

(* What no other actor disturbs: a step that leaves the windows where they   *)
(* are, and the sessions and runs alone.                                     *)
LEMMA NumbersQuiet ==
  ASSUME NumbersInv, UNCHANGED <<url, mount, session, changing, task, snapshot, budget, generation>>,
         \A w \in Window : view'[w] = "booting" => view[w] = "booting",
         \A w \in Window : Answer(w, "written") => Answer(w, "written")'
  PROVE  NumbersInv'
BY DEF NumbersInv, Ages, LateRuns, FiguresFit, Moving, Held, Drops, Running, Refreshing

LEMMA ReadSelectionNumbers ==
  ASSUME BackendTypeOK, NumbersInv, NEW w \in Window, ReadSelection(w)
  PROVE  NumbersInv'
<1>1. /\ inbox[w] \in Seq(Answers)
      /\ inbox' = [inbox EXCEPT ![w] = Append(inbox[w], [kind |-> "read", at |-> selection])]
  BY DEF ReadSelection, BackendTypeOK, Answers
<1>2. inbox[w] # <<>> =>
        /\ Append(inbox[w], [kind |-> "read", at |-> selection]) # <<>>
        /\ Head(Append(inbox[w], [kind |-> "read", at |-> selection])) = Head(inbox[w])
  BY <1>1
<1>3. \A v \in Window : Answer(v, "written") => Answer(v, "written")'
  BY <1>1, <1>2 DEF Answer, BackendTypeOK
<1>4. QED
  BY <1>3, NumbersQuiet DEF ReadSelection, stored, client, ui

LEMMA BootedNumbers ==
  ASSUME BackendTypeOK, ClientInv, NumbersInv, NEW w \in Window, Booted(w)
  PROVE  NumbersInv'
<1>1. view[w] = "booting" /\ session[w] = None /\ \A t \in Task : task[t] # None => task[t].scope.window # w
  BY AnswerAtHand DEF Booted, ClientInv, Unborn, NumbersInv
<1>2. UNCHANGED <<mount, session, changing, task, snapshot, budget>>
  BY DEF Booted, stored
<1>3. \A v \in Window \ {w} : url'[v] = url[v] /\ inbox'[v] = inbox[v]
  BY DEF Booted, Point, Taken, BackendTypeOK
<1>4. changing[w] = None
  BY <1>1 DEF ClientInv, Unborn
<1>5. Ages'
  BY <1>2, <1>3, <1>4 DEF NumbersInv, Ages, Held, Drops, Answer
<1>6. LateRuns'
  <2>1. \A t \in Task : task[t] # None => task[t].scope.window \in Window \ {w}
    BY <1>1 DEF BackendTypeOK, Run, Scopes
  <2>2. \A v \in Window : Moving(v)' <=> Moving(v)
    BY <1>2 DEF Moving, Held
  <2>3. QED
    BY <1>2, <1>3, <2>1, <2>2 DEF NumbersInv, LateRuns, Held, Running, Refreshing
<1>7. FiguresFit'
  BY <1>1, <1>2, <1>3 DEF NumbersInv, FiguresFit, Moving, Held
<1>8. \A v \in Window : view'[v] = "booting" => session'[v] = None
  BY <1>2 DEF Booted, NumbersInv, BackendTypeOK
<1>9. QED
  BY <1>2, <1>5, <1>6, <1>7, <1>8 DEF NumbersInv

LEMMA FollowNumbers ==
  ASSUME BackendTypeOK, ClientInv, NumbersInv, NEW w \in Window, Follow(w)
  PROVE  NumbersInv'
<1>1. UNCHANGED <<changing, task, snapshot, budget>> /\ ~Drops(w, "writing")
  BY DEF Follow, stored, NumbersInv, Ages, Answer
<1>2. \A v \in Window \ {w} : inbox'[v] = inbox[v]
  BY DEF Follow, Taken, BackendTypeOK
<1>3. CASE Head(inbox[w]).at = url[w]
  <2>1. UNCHANGED <<client, ui>>
    BY <1>3 DEF Follow
  <2>2. Ages'
    BY <1>1, <1>2, <2>1 DEF NumbersInv, Ages, Held, Drops, Answer, ui
  <2>3. LateRuns' /\ FiguresFit'
    BY <1>1, <2>1 DEF NumbersInv, LateRuns, FiguresFit, Moving, Held, Running, Refreshing, client, ui
  <2>4. QED
    BY <1>1, <2>1, <2>2, <2>3 DEF NumbersInv, client, ui
<1>4. CASE Head(inbox[w]).at # url[w]
  <2>1. /\ url' = [url EXCEPT ![w] = Head(inbox[w]).at] /\ mount' = [mount EXCEPT ![w] = mount[w] + 1]
        /\ session' = [session EXCEPT ![w] = None] /\ view' = [view EXCEPT ![w] = "loading"]
    BY <1>4 DEF Follow, Point
  <2>2. /\ mount[w] \in Nat /\ mount'[w] = mount[w] + 1 /\ session'[w] = None
        /\ \A v \in Window \ {w} : /\ url'[v] = url[v] /\ mount'[v] = mount[v]
                                   /\ session'[v] = session[v] /\ view'[v] = view[v]
    BY <2>1 DEF BackendTypeOK
  <2>3. ASSUME NEW t \in Task, task[t] # None
        PROVE  task[t].scope.mount \in Nat /\ task[t].scope.mount <= mount[task[t].scope.window]
               /\ task[t].scope.window \in Window
    BY <2>3 DEF NumbersInv, Ages, BackendTypeOK, Run, Scopes
  <2>4. ASSUME NEW v \in Window, changing[v] # None
        PROVE  changing[v].window = v /\ changing[v].mount <= mount[v] /\ changing[v].mount \in Nat
    BY <2>4 DEF NumbersInv, Ages, BackendTypeOK, Switch
  <2>5. Ages'
    <3>1. \A t \in Task : task'[t] # None => task'[t].scope.mount <= mount'[task'[t].scope.window]
      BY <1>1, <2>2, <2>3
    <3>2. \A v \in Window : changing'[v] # None => changing'[v].window = v /\ changing'[v].mount <= mount'[v]
      BY <1>1, <2>2, <2>4
    <3>3. \A v \in Window : Drops(v, "writing")' => Held(changing[v])' /\ Answer(v, "written")'
      <4> SUFFICES ASSUME NEW v \in Window, Drops(v, "writing")
                   PROVE  Held(changing[v])' /\ Answer(v, "written")'
        BY <1>1 DEF Drops
      <4>1. v # w /\ changing[v].window = v /\ Held(changing[v]) /\ Answer(v, "written")
        BY <1>1 DEF NumbersInv, Ages, Drops
      <4>2. QED
        BY <1>1, <1>2, <2>2, <4>1 DEF Held, Answer
    <3>4. QED
      BY <3>1, <3>2, <3>3 DEF Ages
  <2>6. ASSUME NEW s, s.window = w, s.mount \in Nat, s.mount <= mount[w]
        PROVE  ~Held(s)'
    BY <2>2, <2>6 DEF Held
  <2>7. \A v \in Window \ {w} : Moving(v)' <=> Moving(v)
    BY <1>1, <2>2, <2>4 DEF Moving, Held
  <2>8. LateRuns'
    <3> SUFFICES ASSUME NEW t \in Task, Running(t, "clearing") \/ Refreshing(t), Held(task[t].scope)'
                 PROVE  (url[task[t].scope.window] = task[t].scope.url \/ Moving(task[t].scope.window))'
      BY <1>1 DEF NumbersInv, LateRuns, Running, Refreshing
    <3>1. task[t] # None
      BY DEF Running, Refreshing
    <3>2. task[t].scope.window \in Window \ {w}
      BY <2>3, <2>6, <3>1, <1>1
    <3>3. Held(task[t].scope)
      BY <1>1, <2>2, <3>2 DEF Held
    <3>4. QED
      BY <1>1, <2>2, <2>7, <3>2, <3>3 DEF NumbersInv, LateRuns
  <2>9. FiguresFit'
    BY <1>1, <2>2, <2>7 DEF NumbersInv, FiguresFit
  <2>10. QED
    BY <1>1, <2>2, <2>5, <2>8, <2>9 DEF NumbersInv
<1>5. QED
  BY <1>3, <1>4

LEMMA ChooseNumbers ==
  ASSUME Assumptions, BackendTypeOK, NumbersInv, NEW w \in Window, NEW b \in Backend, Choose(w, b)
  PROVE  NumbersInv'
<1>1. /\ UNCHANGED <<url, mount, session, view, task, snapshot>> /\ budget'.overlap = budget.overlap
      /\ \A t \in Task : ~Refreshing(t)
  BY DEF Choose, client, ui, NumbersInv, BackendTypeOK, Budget
<1>2. /\ changing'[w] = [at |-> "writing", window |-> w, mount |-> mount[w]]
      /\ \A v \in Window \ {w} : changing'[v] = changing[v]
  BY DEF Choose, BackendTypeOK
<1>3. inbox[w] = <<>> /\ \A v \in Window : inbox[v] = <<>>
  BY DEF Choose
<1>4. inbox'[w] = <<[kind |-> "written", at |-> b]>>
  BY <1>3 DEF Choose, BackendTypeOK
<1>5. /\ changing'[w].at = "writing" /\ changing'[w].window = w /\ changing'[w].mount = mount[w]
      /\ changing'[w] \in Switch /\ mount[w] \in Nat
  BY <1>2 DEF Switch, BackendTypeOK
<1>6. changing'[w] # None
  BY <1>5 DEF Assumptions
<1>7. Ages'
  <2>1. \A v \in Window \ {w} : ~Drops(v, "writing")
    BY <1>3 DEF NumbersInv, Ages, Answer
  <2>2. Held(changing[w])' /\ Answer(w, "written")'
    BY <1>1, <1>4, <1>5 DEF Held, Answer
  <2>3. QED
    BY <1>1, <1>2, <1>5, <2>1, <2>2 DEF NumbersInv, Ages, Drops
<1>8. \A v \in Window : Moving(v) => Moving(v)'
  BY <1>1, <1>2, <1>5, <1>6 DEF Moving, Held
<1>9. LateRuns'
  <2>1. \A t \in Task : task[t] # None => task[t].scope.window \in Window
    BY DEF BackendTypeOK, Run, Scopes
  <2>2. \A t \in Task : (Running(t, "clearing") <=> Running(t, "clearing")') /\ ~Refreshing(t)'
    BY <1>1 DEF Running, Refreshing
  <2>3. \A t \in Task : Held(task[t].scope)' <=> Held(task[t].scope)
    BY <1>1 DEF Held
  <2>4. QED
    BY <1>1, <1>8, <2>1, <2>2, <2>3 DEF NumbersInv, LateRuns, Running
<1>10. FiguresFit'
  BY <1>1, <1>8 DEF NumbersInv, FiguresFit
<1>11. QED
  BY <1>1, <1>7, <1>9, <1>10 DEF NumbersInv

LEMMA SwitchNumbers ==
  ASSUME Assumptions, BackendTypeOK, ClientInv, NumbersInv, NEW w \in Window,
         Written(w) \/ DropCache(w) \/ DropSnapshot(w)
  PROVE  NumbersInv'
<1>1. /\ changing[w] # None /\ UNCHANGED <<mount, session, view, task, budget>>
      /\ snapshot' = snapshot \/ snapshot' = None
  BY AnswerAtHand DEF Written, DropCache, DropSnapshot, Drops, stored, ui, ClientInv
<1>2. PICK at \in {"cache", "snapshot", "session"} : changing' = [changing EXCEPT ![w] = [changing[w] EXCEPT !.at = at]]
  BY DEF Written, DropCache, DropSnapshot, Proceeds
<1>3. changing[w] \in Switch /\ [changing[w] EXCEPT !.at = at] \in Switch
  BY <1>1 DEF Switch, BackendTypeOK
<1>4. /\ changing'[w] # None /\ changing'[w].at # "writing"
      /\ changing'[w].window = changing[w].window /\ changing'[w].mount = changing[w].mount
      /\ \A v \in Window \ {w} : changing'[v] = changing[v]
  BY <1>2, <1>3 DEF Assumptions, BackendTypeOK, Switch
<1>5. \A v \in Window \ {w} : url'[v] = url[v] /\ inbox'[v] = inbox[v]
  BY DEF Written, DropCache, DropSnapshot, Point, Taken, boot, client, BackendTypeOK
<1>6. url'[w] = url[w] \/ Held(changing[w])
  BY AnswerAtHand DEF Written, DropCache, DropSnapshot, client, ClientInv, NumbersInv, Ages
<1>7. \A v \in Window : Moving(v)' <=> Moving(v)
  BY <1>1, <1>4 DEF Moving, Held
<1>8. Ages'
  BY <1>1, <1>4, <1>5 DEF NumbersInv, Ages, Held, Drops, Answer
<1>9. \A t \in Task : ~Refreshing(t)
  BY <1>1 DEF NumbersInv, LateRuns
<1>10. url'[w] = url[w] \/ Moving(w)
  BY <1>1, <1>6 DEF Moving
<1>11. \A t \in Task : task[t] # None => task[t].scope.window \in Window
  BY DEF BackendTypeOK, Run, Scopes
<1>12. LateRuns'
  BY <1>1, <1>5, <1>7, <1>9, <1>10, <1>11 DEF NumbersInv, LateRuns, Running, Refreshing, Held
<1>13. FiguresFit'
  BY <1>1, <1>5, <1>7, <1>10 DEF NumbersInv, FiguresFit
<1>14. QED
  BY <1>1, <1>8, <1>12, <1>13 DEF NumbersInv

LEMMA DropSessionNumbers ==
  ASSUME Assumptions, BackendTypeOK, ClientInv, NumbersInv, NEW w \in Window, DropSession(w)
  PROVE  NumbersInv'
<1>1. /\ changing[w] # None /\ changing[w].window = w
      /\ UNCHANGED <<url, mount, view, task, snapshot, budget>>
      /\ \A t \in Task : Running(t, "clearing") => task[t].scope.window # w
  BY DEF DropSession, Drops, stored, NumbersInv, Ages
<1>2. changing'[w] = None /\ \A v \in Window \ {w} : changing'[v] = changing[v]
  BY DEF DropSession, BackendTypeOK
<1>3. session' = IF Held(changing[w]) THEN [session EXCEPT ![w] = None] ELSE session
  BY <1>1 DEF DropSession, SetSession
<1>4. /\ \A v \in Window \ {w} : session'[v] = session[v]
      /\ session'[w] = None \/ (~Held(changing[w]) /\ session'[w] = session[w])
  BY <1>3 DEF BackendTypeOK
<1>5. \A v \in Window \ {w} : Moving(v)' <=> Moving(v)
  BY <1>1, <1>2 DEF Moving, Held
<1>6. Ages'
  BY <1>1, <1>2 DEF NumbersInv, Ages, Held, Drops, Answer, DropSession, boot
<1>7. \A t \in Task : ~Refreshing(t)
  BY <1>1 DEF NumbersInv, LateRuns
<1>8. \A t \in Task : task[t] # None => task[t].scope.window \in Window
  BY DEF BackendTypeOK, Run, Scopes
<1>9. LateRuns'
  BY <1>1, <1>5, <1>7, <1>8 DEF NumbersInv, LateRuns, Running, Refreshing, Held
<1>10. FiguresFit'
  BY <1>1, <1>4, <1>5 DEF NumbersInv, FiguresFit, Moving
<1>11. \A v \in Window : view'[v] = "booting" => session'[v] = None
  BY <1>1, <1>4 DEF NumbersInv
<1>12. QED
  BY <1>1, <1>6, <1>9, <1>10, <1>11 DEF NumbersInv

(* What a run may do: end, or go on with fitting figures, and late only from *)
(* where it was late already or has just looked; and show what fits.         *)
RunGoesOn(t) ==
  \/ task'[t] = None
  \/ /\ task[t] # None /\ task'[t].scope = task[t].scope
     /\ task'[t].snap \subseteq {task[t].scope.url}
     /\ Refreshing(t)' => Refreshing(t)
     /\ Running(t, "clearing")' => Running(t, "clearing") \/ Current(task[t].scope)

SessionGoesOn(v) ==
  \/ session'[v] = session[v]
  \/ view[v] # "booting" /\ (session'[v] = None \/ Moving(v) \/ session'[v].shown \subseteq {url[v]})

LEMMA RunNumbers ==
  ASSUME BackendTypeOK, NumbersInv, NEW t \in Task,
         UNCHANGED <<url, mount, changing, view, inbox>>, budget'.overlap = budget.overlap,
         \A u \in Task \ {t} : task'[u] = task[u], RunGoesOn(t),
         snapshot' # None => snapshot'.shown \subseteq {snapshot'.backend},
         \A v \in Window : SessionGoesOn(v)
  PROVE  NumbersInv'
<1>1. \A v \in Window : Moving(v)' <=> Moving(v)
  BY DEF Moving, Held
<1>2. \A u \in Task : task[u] # None => task[u].scope.window \in Window
  BY DEF BackendTypeOK, Run, Scopes
<1>3. Ages'
  <2>1. \A u \in Task : task'[u] # None => task[u] # None /\ task'[u].scope = task[u].scope
    BY DEF RunGoesOn
  <2>2. QED
    BY <2>1 DEF NumbersInv, Ages, Held, Drops, Answer
<1>4. LateRuns'
  <2> SUFFICES ASSUME NEW u \in Task, Running(u, "clearing")' \/ Refreshing(u)'
               PROVE  /\ Refreshing(u)' => \A w \in Window : changing'[w] = None
                      /\ Held(task[u].scope)' =>
                           (url[task[u].scope.window] = task[u].scope.url \/ Moving(task[u].scope.window))'
    BY DEF LateRuns
  <2>1. task'[u] # None
    BY DEF Running, Refreshing
  <2>2. CASE u # t
    BY <1>1, <1>2, <2>1, <2>2 DEF NumbersInv, LateRuns, Running, Refreshing, Held
  <2>3. CASE u = t
    <3>1. /\ task[t] # None /\ task'[t].scope = task[t].scope
          /\ Refreshing(t)' => Refreshing(t)
          /\ Running(t, "clearing")' => Running(t, "clearing") \/ Current(task[t].scope)
      BY <2>1, <2>3 DEF RunGoesOn
    <3>2. Refreshing(t)' => \A w \in Window : changing'[w] = None
      BY <3>1 DEF NumbersInv, LateRuns
    <3>3. Running(t, "clearing") \/ Refreshing(t) \/ Current(task[t].scope)
      BY <2>3, <3>1
    <3>4. Held(task[t].scope) =>
            url[task[t].scope.window] = task[t].scope.url \/ Moving(task[t].scope.window)
      BY <3>3 DEF NumbersInv, LateRuns, Current
    <3>5. /\ Held(task[t].scope)' => Held(task[t].scope)
          /\ task[t].scope.window \in Window /\ task'[t].scope = task[t].scope
      BY <1>2, <3>1 DEF Held
    <3>6. QED
      BY <1>1, <2>3, <3>2, <3>4, <3>5
  <2>4. QED
    BY <2>2, <2>3
<1>5. FiguresFit'
  <2>1. \A u \in Task : task'[u] # None => task'[u].snap \subseteq {task'[u].scope.url}
    BY DEF RunGoesOn, NumbersInv, FiguresFit
  <2>2. \A v \in Window : session'[v] # None /\ ~Moving(v)' => session'[v].shown \subseteq {url'[v]}
    BY <1>1 DEF SessionGoesOn, NumbersInv, FiguresFit
  <2>3. QED
    BY <2>1, <2>2 DEF FiguresFit
<1>6. \A v \in Window : view'[v] = "booting" => session'[v] = None
  BY DEF SessionGoesOn, NumbersInv
<1>7. QED
  BY <1>3, <1>4, <1>5, <1>6 DEF NumbersInv

(* A session is set in the window of a run, if its UI is still there. *)
LEMMA SessionsGoOn ==
  ASSUME BackendTypeOK, ClientInv, NEW t \in Task, task[t] # None, NEW to,
         UNCHANGED session \/ SetSession(task[t].scope, to),
         Held(task[t].scope) => Moving(task[t].scope.window) \/ to.shown \subseteq {url[task[t].scope.window]}
  PROVE  \A v \in Window : SessionGoesOn(v)
<1>1. task[t].scope.window \in Window /\ view[task[t].scope.window] # "booting"
  BY DEF BackendTypeOK, Run, Scopes, ClientInv, Unborn
<1>2. QED
  BY <1>1 DEF SessionGoesOn, SetSession, BackendTypeOK

(* The snapshot, and a session shown, give only what fits. *)
LEMMA SnapshotFits ==
  ASSUME NumbersInv, NEW b
  PROVE  Snapshot(b) \subseteq {b}
BY DEF Snapshot, NumbersInv, FiguresFit

LEMMA PlainNumbers ==
  ASSUME BackendTypeOK, NumbersInv, NEW t \in Task,
         \/ Stops(t) \/ Warm(t) \/ SignedIn(t) \/ Keep(t) \/ WriteCache(t) \/ Fetch(t)
         \/ Throws(t) \/ ClearCache(t) \/ Reconcile(t)
  PROVE  NumbersInv'
<1>1. /\ UNCHANGED <<url, mount, changing, view, inbox, session, snapshot>>
      /\ budget'.overlap = budget.overlap
  BY DEF Stops, Warm, SignedIn, Keep, WriteCache, Fetch, Throws, ClearCache, Reconcile,
     stored, boot, client, ui, BackendTypeOK, Budget
<1>2. \A u \in Task \ {t} : task'[u] = task[u]
  BY DEF Stops, Warm, SignedIn, Keep, WriteCache, Fetch, Throws, ClearCache, Reconcile,
     Goes, Ends, BackendTypeOK
<1>3. RunGoesOn(t)
  <2>1. task[t] \in Run /\ task[t] # None
    BY TaskSteps DEF Stops, Warm, SignedIn, Keep, WriteCache, Fetch, Throws, ClearCache, Reconcile,
       Continues, Running
  <2>2. CASE Stops(t)
    BY <2>2 DEF Stops, Ends, RunGoesOn, BackendTypeOK
  <2>3. CASE Warm(t) \/ SignedIn(t)
    <3>1. /\ task'[t].scope = task[t].scope /\ task'[t].snap = task[t].snap
          /\ task'[t].at \in {"ready", "signIn", "signedIn", "failed"}
      BY <2>1, <2>3 DEF Warm, SignedIn, Goes, BackendTypeOK, Run
    <3>2. QED
      BY <2>1, <3>1 DEF RunGoesOn, Running, Refreshing, NumbersInv, FiguresFit
  <2>4. CASE Keep(t) \/ WriteCache(t) \/ Fetch(t) \/ Throws(t)
    <3>1. /\ task'[t].scope = task[t].scope /\ task'[t].snap = task[t].snap
          /\ task'[t].at \in {"ready", "caching", "fetched", "failed"}
      BY <2>1, <2>4 DEF Keep, WriteCache, Fetch, Throws, Goes, BackendTypeOK, Run
    <3>2. QED
      BY <2>1, <3>1 DEF RunGoesOn, Running, Refreshing, NumbersInv, FiguresFit
  <2>5. CASE ClearCache(t) \/ Reconcile(t)
    <3>1. /\ task'[t].scope = task[t].scope /\ task'[t].snap = task[t].snap
          /\ \/ task'[t].at = "clearing" /\ Current(task[t].scope)
             \/ task'[t].at = "reconciled" /\ Refreshing(t)
      BY <2>1, <2>5 DEF ClearCache, Reconcile, Continues, Refreshing, Goes, BackendTypeOK, Run
    <3>2. QED
      BY <2>1, <3>1 DEF RunGoesOn, Running, Refreshing, NumbersInv, FiguresFit
  <2>6. QED
    BY <2>2, <2>3, <2>4, <2>5
<1>4. \A v \in Window : SessionGoesOn(v)
  BY <1>1 DEF SessionGoesOn
<1>5. snapshot' # None => snapshot'.shown \subseteq {snapshot'.backend}
  BY <1>1 DEF NumbersInv, FiguresFit
<1>6. QED
  BY <1>1, <1>2, <1>3, <1>4, <1>5, RunNumbers

LEMMA PaintNumbers ==
  ASSUME BackendTypeOK, ClientInv, NumbersInv, NEW t \in Task, Paint(t)
  PROVE  NumbersInv'
<1> DEFINE s == task[t].scope
<1>1. task[t] \in Run /\ task[t] # None /\ url[s.window] = s.url
  BY TaskSteps DEF Paint, Continues, Running, Current
<1>2. UNCHANGED <<url, mount, changing, view, inbox, snapshot, budget>>
  BY DEF Paint, stored, boot, client
<1>3. Snapshot(s.url) \subseteq {s.url}
  BY SnapshotFits
<1>4. /\ task' = [task EXCEPT ![t] = [task[t] EXCEPT !.at = "warm", !.snap = Snapshot(s.url)]]
  BY DEF Paint, BackendTypeOK
<1>5. RunGoesOn(t) /\ \A u \in Task \ {t} : task'[u] = task[u]
  BY <1>1, <1>3, <1>4 DEF RunGoesOn, Running, Refreshing, BackendTypeOK, Run
<1>6. \A v \in Window : SessionGoesOn(v)
  <2>1. UNCHANGED session \/ SetSession(s, Placeholder(Snapshot(s.url)))
    BY DEF Paint
  <2>2. Placeholder(Snapshot(s.url)).shown \subseteq {url[s.window]}
    BY <1>1, <1>3 DEF Placeholder
  <2>3. QED
    BY <1>1, <2>1, <2>2, SessionsGoOn
<1>7. QED
  BY <1>2, <1>5, <1>6, RunNumbers DEF NumbersInv, FiguresFit

LEMMA ShowOneNumbers ==
  ASSUME BackendTypeOK, ClientInv, NumbersInv, NEW t \in Task, ShowOne(t)
  PROVE  NumbersInv'
<1> DEFINE s == task[t].scope
           to == [session[s.window] EXCEPT !.shown = @ \union {s.url}]
<1>1. task[t] \in Run /\ task[t] # None /\ url[s.window] = s.url
  BY TaskSteps DEF ShowOne, Continues, Running, Current
<1>2. UNCHANGED <<url, mount, changing, view, inbox, snapshot, budget, task>>
  BY DEF ShowOne, stored, boot, client
<1>3. RunGoesOn(t)
  BY <1>1, <1>2 DEF RunGoesOn, Running, Refreshing, NumbersInv, FiguresFit
<1>4. \A v \in Window : SessionGoesOn(v)
  <2>1. SetSession(s, to) /\ session[s.window] # None /\ s.window \in Window
    BY <1>1 DEF ShowOne, Run, Scopes
  <2>2. to.shown = session[s.window].shown \union {s.url}
    BY <2>1 DEF BackendTypeOK, Session
  <2>3. Moving(s.window) \/ to.shown \subseteq {url[s.window]}
    BY <1>1, <2>1, <2>2 DEF NumbersInv, FiguresFit
  <2> HIDE DEF to
  <2>4. QED
    BY <1>1, <2>1, <2>3, SessionsGoOn
<1>5. QED
  BY <1>2, <1>3, <1>4, RunNumbers DEF NumbersInv, FiguresFit

LEMMA FetchedNumbers ==
  ASSUME BackendTypeOK, ClientInv, NumbersInv, NEW t \in Task, Fetched(t)
  PROVE  NumbersInv'
<1> DEFINE s == task[t].scope
<1>1. task[t] \in Run /\ task[t] # None /\ url[s.window] = s.url
  BY TaskSteps DEF Fetched, Continues, Running, Current
<1>2. UNCHANGED <<url, mount, changing, view, inbox, budget>> /\ task' = [task EXCEPT ![t] = None]
  BY DEF Fetched, Ends, boot, client
<1>3. PICK m \in Merged(task[t].snap, s.url) :
        /\ SetSession(s, [user |-> task[t].user, shown |-> m, busy |-> FALSE, failed |-> FALSE])
        /\ snapshot' = [backend |-> s.url, shown |-> m]
  BY DEF Fetched
<1>4. m \subseteq {s.url}
  BY <1>1, <1>3 DEF Merged, NumbersInv, FiguresFit
<1>5. RunGoesOn(t) /\ \A u \in Task \ {t} : task'[u] = task[u]
  BY <1>2 DEF RunGoesOn, BackendTypeOK
<1>6. [user |-> task[t].user, shown |-> m, busy |-> FALSE, failed |-> FALSE].shown \subseteq {url[s.window]}
  BY <1>1, <1>4
<1>7. \A v \in Window : SessionGoesOn(v)
  BY <1>1, <1>3, <1>6, SessionsGoOn
<1>8. snapshot'.shown \subseteq {snapshot'.backend}
  BY <1>3, <1>4
<1>9. QED
  BY <1>2, <1>5, <1>7, <1>8, RunNumbers

LEMMA ShowErrorNumbers ==
  ASSUME BackendTypeOK, ClientInv, NumbersInv, NEW t \in Task, ShowError(t)
  PROVE  NumbersInv'
<1> DEFINE s == task[t].scope
           before == session[s.window]
           shown == IF before # None /\ before.shown # {} THEN before.shown ELSE task[t].snap
           to == [user |-> None, busy |-> FALSE, failed |-> TRUE, shown |-> shown]
<1>1. task[t] \in Run /\ task[t] # None /\ s.window \in Window /\ Running(t, "clearing")
  BY TaskSteps DEF ShowError, Running, Run, Scopes
<1>2. UNCHANGED <<url, mount, changing, view, inbox, snapshot, budget>> /\ task' = [task EXCEPT ![t] = None]
  BY DEF ShowError, Ends, stored, boot, client
<1>3. RunGoesOn(t) /\ \A u \in Task \ {t} : task'[u] = task[u]
  BY <1>2 DEF RunGoesOn, BackendTypeOK
<1>4. SetSession(s, to) /\ to.shown = shown
  BY DEF ShowError
<1>5. task[t].snap \subseteq {s.url}
  BY <1>1 DEF NumbersInv, FiguresFit
<1>6. Held(s) => Moving(s.window) \/ to.shown \subseteq {url[s.window]}
  <2> SUFFICES ASSUME Held(s), ~Moving(s.window) PROVE shown \subseteq {url[s.window]}
    BY <1>4
  <2>1. url[s.window] = s.url
    BY <1>1 DEF NumbersInv, LateRuns
  <2>2. before # None => before.shown \subseteq {url[s.window]}
    BY <1>1 DEF NumbersInv, FiguresFit
  <2>3. QED
    BY <1>5, <2>1, <2>2
<1> HIDE DEF to
<1>7. \A v \in Window : SessionGoesOn(v)
  BY <1>1, <1>4, <1>6, SessionsGoOn
<1>8. QED
  BY <1>2, <1>3, <1>7, RunNumbers DEF NumbersInv, FiguresFit

LEMMA ReconciledNumbers ==
  ASSUME BackendTypeOK, ClientInv, NumbersInv, NEW t \in Task, Reconciled(t)
  PROVE  NumbersInv'
<1> DEFINE s == task[t].scope
           before == session[s.window]
<1>1. task[t] \in Run /\ task[t] # None /\ s.window \in Window /\ Refreshing(t)
  BY TaskSteps DEF Reconciled, Running, Refreshing, Run, Scopes
<1>2. UNCHANGED <<url, mount, changing, view, inbox, budget>> /\ task' = [task EXCEPT ![t] = None]
  BY DEF Reconciled, Ends, boot, client
<1>3. RunGoesOn(t) /\ \A u \in Task \ {t} : task'[u] = task[u]
  BY <1>2 DEF RunGoesOn, BackendTypeOK
<1>4. PICK m \in Merged(IF before = None THEN {} ELSE before.shown, s.url) :
        /\ IF before = None THEN UNCHANGED session
           ELSE SetSession(s, [before EXCEPT !.shown = m, !.busy = FALSE, !.failed = FALSE])
        /\ \E kept \in {m, {s.url}} :
             snapshot' = IF Current(s) THEN [backend |-> s.url, shown |-> kept] ELSE snapshot
  BY DEF Reconciled
<1>5. ~Moving(s.window)
  BY <1>1 DEF NumbersInv, LateRuns, Moving
<1>6. before # None => before.shown \subseteq {url[s.window]}
  BY <1>1, <1>5 DEF NumbersInv, FiguresFit
<1>7. Held(s) \/ Current(s) => url[s.window] = s.url
  BY <1>1, <1>5 DEF NumbersInv, LateRuns, Current
<1>8. url[s.window] = s.url => m \subseteq {s.url}
  BY <1>4, <1>6 DEF Merged
<1>9. \A v \in Window : SessionGoesOn(v)
  <2>1. CASE before = None
    BY <1>4, <2>1 DEF SessionGoesOn
  <2>2. CASE before # None
    <3> DEFINE to == [before EXCEPT !.shown = m, !.busy = FALSE, !.failed = FALSE]
    <3>1. SetSession(s, to) /\ to.shown = m
      BY <1>1, <1>4, <2>2 DEF BackendTypeOK, Session
    <3> HIDE DEF to
    <3>2. QED
      BY <1>1, <1>7, <1>8, <3>1, SessionsGoOn
  <2>3. QED
    BY <2>1, <2>2
<1>10. snapshot' # None => snapshot'.shown \subseteq {snapshot'.backend}
  BY <1>4, <1>7, <1>8 DEF NumbersInv, FiguresFit
<1>11. QED
  BY <1>2, <1>3, <1>9, <1>10, RunNumbers

LEMMA RefreshFailsNumbers ==
  ASSUME BackendTypeOK, ClientInv, NumbersInv, NEW t \in Task, RefreshFails(t)
  PROVE  NumbersInv'
<1> DEFINE s == task[t].scope
           before == session[s.window]
           to == [before EXCEPT !.busy = FALSE, !.failed = TRUE]
<1>1. task[t] \in Run /\ task[t] # None /\ s.window \in Window
  BY TaskSteps DEF RefreshFails, Continues, Running, Run, Scopes
<1>2. /\ UNCHANGED <<url, mount, changing, view, inbox, snapshot>> /\ budget'.overlap = budget.overlap
      /\ task' = [task EXCEPT ![t] = None]
  BY DEF RefreshFails, Ends, stored, boot, client, BackendTypeOK, Budget
<1>3. RunGoesOn(t) /\ \A u \in Task \ {t} : task'[u] = task[u]
  BY <1>2 DEF RunGoesOn, BackendTypeOK
<1>4. \A v \in Window : SessionGoesOn(v)
  <2>1. CASE before = None
    BY <2>1 DEF RefreshFails, SessionGoesOn
  <2>2. CASE before # None
    <3>1. SetSession(s, to) /\ to.shown = before.shown
      BY <1>1, <2>2 DEF RefreshFails, BackendTypeOK, Session
    <3>2. Moving(s.window) \/ before.shown \subseteq {url[s.window]}
      BY <1>1, <2>2 DEF NumbersInv, FiguresFit
    <3> HIDE DEF to
    <3>3. QED
      BY <1>1, <3>1, <3>2, SessionsGoOn
  <2>3. QED
    BY <2>1, <2>2
<1>5. QED
  BY <1>2, <1>3, <1>4, RunNumbers DEF NumbersInv, FiguresFit

(* A new run begins where its window is, and a refresh only while no switch  *)
(* is under way.                                                             *)
LEMMA BegunNumbers ==
  ASSUME BackendTypeOK, NumbersInv, NEW w \in Window, NEW t \in Task, StartSession(w, t) \/ Refresh(w, t)
  PROVE  NumbersInv'
<1>1. /\ UNCHANGED <<url, mount, changing, view, inbox, snapshot>> /\ budget'.overlap = budget.overlap
      /\ \A u \in Task \ {t} : task'[u] = task[u]
      /\ ~budget.overlap
  BY DEF StartSession, Refresh, stored, boot, client, BackendTypeOK, Budget, NumbersInv
<1>2. \/ task'[t] = task[t]
      \/ /\ task'[t].scope = Scope(w) /\ task'[t].snap = {} /\ ~Running(t, "clearing")'
         /\ Refreshing(t)' => \A v \in Window : changing[v] = None
  BY <1>1 DEF StartSession, Refresh, Running, Refreshing, BackendTypeOK
<1>3. \A v \in Window : session'[v] = session[v]
                        \/ (session[v] # None /\ session'[v].shown = session[v].shown)
  BY DEF StartSession, Refresh, BackendTypeOK, Session
<1>4. \A v \in Window : Moving(v)' <=> Moving(v)
  BY <1>1 DEF Moving, Held
<1>5. mount[w] \in Nat /\ Scope(w).window = w /\ Scope(w).url = url[w] /\ Scope(w).mount = mount[w]
  BY DEF Scope, BackendTypeOK
<1>6. \A u \in Task : task[u] # None => task[u].scope.window \in Window
  BY DEF BackendTypeOK, Run, Scopes
<1>7. Ages'
  BY <1>1, <1>2, <1>5 DEF NumbersInv, Ages, Held, Drops, Answer
<1>8. LateRuns'
  <2> SUFFICES ASSUME NEW u \in Task, Running(u, "clearing")' \/ Refreshing(u)'
               PROVE  /\ Refreshing(u)' => \A v \in Window : changing'[v] = None
                      /\ Held(task[u].scope)' =>
                           (url[task[u].scope.window] = task[u].scope.url \/ Moving(task[u].scope.window))'
    BY DEF LateRuns
  <2>1. CASE task'[u] = task[u]
    BY <1>1, <1>4, <1>6, <2>1 DEF NumbersInv, LateRuns, Running, Refreshing, Held
  <2>2. CASE u = t /\ task'[t] # task[t]
    BY <1>1, <1>2, <1>5, <2>2
  <2>3. QED
    BY <1>1, <2>1, <2>2
<1>9. FiguresFit'
  BY <1>1, <1>2, <1>3, <1>4 DEF NumbersInv, FiguresFit
<1>10. \A v \in Window : view'[v] = "booting" => session'[v] = None
  BY <1>1, <1>3 DEF NumbersInv
<1>11. QED
  BY <1>1, <1>7, <1>8, <1>9, <1>10 DEF NumbersInv

LEMMA EndedNumbers ==
  ASSUME BackendTypeOK, NumbersInv, NEW w \in Window, EndSession(w) \/ Retry(w)
  PROVE  NumbersInv'
<1>1. /\ UNCHANGED <<url, mount, changing, view, inbox, snapshot, budget, task>>
      /\ session' = [session EXCEPT ![w] = None]
  BY DEF EndSession, Retry, stored, boot, client
<1>2. \A v \in Window : session'[v] = session[v] \/ session'[v] = None
  BY <1>1 DEF BackendTypeOK
<1>3. Ages' /\ LateRuns'
  BY <1>1 DEF NumbersInv, Ages, LateRuns, Held, Drops, Answer, Running, Refreshing, Moving
<1>4. FiguresFit'
  BY <1>1, <1>2 DEF NumbersInv, FiguresFit, Moving, Held
<1>5. QED
  BY <1>1, <1>2, <1>3, <1>4 DEF NumbersInv

LEMMA OtherNumbers ==
  ASSUME BackendTypeOK, ClientInv, NumbersInv, NEW w \in Window,
         Refreshed(w) \/ Lock(w) \/ LockClears(w) \/ Unlock(w)
  PROVE  NumbersInv'
<1>1. /\ UNCHANGED <<url, mount, session, changing, task, snapshot, inbox>>
      /\ budget'.overlap = budget.overlap
  BY DEF Refreshed, Lock, LockClears, Unlock, stored, boot, client, BackendTypeOK, Budget
<1>2. \A v \in Window : view'[v] = "booting" => view[v] = "booting"
  BY DEF Refreshed, Lock, LockClears, Unlock, BackendTypeOK
<1>3. Ages' /\ LateRuns' /\ FiguresFit'
  BY <1>1 DEF NumbersInv, Ages, LateRuns, FiguresFit, Held, Drops, Answer, Running, Refreshing, Moving
<1>4. QED
  BY <1>1, <1>2, <1>3 DEF NumbersInv

LEMMA IdleNumbers ==
  ASSUME BackendTypeOK, NumbersInv, UNCHANGED vars \/ \E s \in reading : AdoptCapabilities(s)
  PROVE  NumbersInv'
<1>1. UNCHANGED <<url, mount, session, changing, task, snapshot, inbox, budget, view>>
  BY DEF AdoptCapabilities, vars, stored, boot, client, ui
<1>2. QED
  BY <1>1 DEF NumbersInv, Ages, LateRuns, FiguresFit, Held, Drops, Answer, Running, Refreshing, Moving

LEMMA NumbersStep ==
  ASSUME Assumptions, BackendTypeOK, ClientInv, NumbersInv, [Next]_vars
  PROVE  NumbersInv'
<1>1. ASSUME NEW w \in Window,
             \/ Storage(w) \/ Switching(w) \/ Effects(w) \/ Retry(w) \/ Lock(w) \/ LockClears(w) \/ Unlock(w)
             \/ (\E b \in Backend : Choose(w, b)) \/ (\E t \in Task : Refresh(w, t))
      PROVE  NumbersInv'
  BY <1>1, BootedNumbers, ReadSelectionNumbers, FollowNumbers, SwitchNumbers, DropSessionNumbers,
     OtherNumbers, EndedNumbers, ChooseNumbers, BegunNumbers DEF Storage, Switching, Effects
<1>2. ASSUME NEW t \in Task, Works(t) \/ ShowOne(t) \/ Throws(t) \/ RefreshFails(t)
      PROVE  NumbersInv'
  BY <1>2, PlainNumbers, PaintNumbers, FetchedNumbers, ShowErrorNumbers, ReconciledNumbers,
     ShowOneNumbers, RefreshFailsNumbers DEF Works
<1>3. QED
  BY <1>1, <1>2, IdleNumbers DEF Next

(* For any windows, backends and runs: as long as no refresh is under way at *)
(* a switch, no window shows figures of a backend other than its own, nor    *)
(* does the snapshot hold any, once the switch is over.                      *)
THEOREM NumbersFit ==
  ASSUME Assumptions, \A s \in Scenario : ~s.overlap
  PROVE  Spec => []NumbersFitBackend
<1>1. Init => BackendTypeOK /\ ClientInv /\ NumbersInv
  <2>1. Init => NumbersInv
    BY DEF Init, NumbersInv, Ages, LateRuns, FiguresFit, Drops, Running, Refreshing
  <2>2. QED
    BY <2>1, InitType, InitClient
<1>2. (BackendTypeOK /\ ClientInv /\ NumbersInv) /\ [Next]_vars => (BackendTypeOK /\ ClientInv /\ NumbersInv)'
  BY StepType, ClientStep, NumbersStep
<1>3. NumbersInv => NumbersFitBackend
  BY DEF NumbersInv, FiguresFit, NumbersFitBackend, Moving
<1>4. QED
  BY <1>1, <1>2, <1>3, PTL DEF Spec

===============================================================================
