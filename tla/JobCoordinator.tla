----------------------------- MODULE JobCoordinator -----------------------------
(****************************************************************************)
(* Background sign-in jobs: the coordinator in the service worker           *)
(* (packages/extension/src/background/jobs/coordinator.ts), the runner in   *)
(* the offscreen document (jobs/offscreen/runner.ts) and one popup mount    *)
(* after another asking for a sign-in over a port                           *)
(* (popup/jobs/client.ts, popup/jobs/bootstrap-auth.ts).  One wallet, one   *)
(* kind of job (bootstrap-auth, the only one registered).                   *)
(*                                                                          *)
(* chrome.storage.session is external: a request takes effect when it is    *)
(* issued, and answers come back in the order of the requests, arbitrarily  *)
(* late.  `queue` holds the continuations waiting for those answers, each   *)
(* with what its request read, so a step of the worker is the code between  *)
(* two awaits.  The worker may be evicted; its variables go, the storage    *)
(* area and the offscreen document stay.                                    *)
(*                                                                          *)
(* A job is named by the mount whose start request allocated its id: a      *)
(* mount starts at most one.                                                *)
(****************************************************************************)
EXTENDS Naturals, Sequences, SequencesExt

CONSTANTS
  Mount,          \* popup mounts, each opened at most once
  Backend,        \* backend urls
  None,           \* no job, no backend, no token
  HasOffscreen,   \* chrome.offscreen exists (Chrome); Firefox runs jobs in the worker
  Scenario        \* what a behaviour is about: bounds on evictions of the worker,
                  \* changes of the wallet's backend selection, progress reports,
                  \* and jobs that outlive the reuse window; and whether the worker
                  \* is busy when evicted, or has no work in hand then

Budget == [evictions : Nat, switches : Nat, progress : Nat, aged : Nat, busy : BOOLEAN]

(* What the parameters must be; whoever instantiates the module assumes it.  *)
Assumptions ==
  /\ None \notin Mount \union Backend
  /\ HasOffscreen \in BOOLEAN
  /\ Scenario \subseteq Budget

VARIABLES
  jobs,       \* storage.session smirk:job:<id>: the status of each job
  dedup,      \* storage.session smirk:job:dedup:<key>: a job id
  aged,       \* jobs that finished more than REUSE_WINDOW_MS ago
  selected,   \* the wallet's durable backend selection
  queue,      \* the worker: continuations waiting for storage.session
  waiting,    \* the worker: starts waiting on offscreenReady, in order
  ready,      \* the worker: offscreenReady
  subs,       \* the worker: mounts subscribed to the job they await
  gc,         \* the worker: pending scheduleResultGC timers
  runner,     \* jobs handed over whose end the runner has not reported
  connected,  \* ports with both ends alive
  request,    \* request[m]: what mount m posted and the worker has not handled
  inbox,      \* inbox[m]: what the worker posted to m, in order
  pc,         \* pc[m]: where runBootstrapInBackground of m stands
  backend,    \* backend[m]: the backend of that window's api client
  awaited,    \* awaited[m]: the job awaitJob waits for
  token,      \* token[m]: where the token m was given was minted
  budget      \* what the bounds leave

storage == <<jobs, dedup>>
worker  == <<queue, waiting, ready, subs, gc>>
mounts  == <<pc, backend, awaited, token>>
port    == <<connected, request, inbox>>
vars == <<storage, aged, selected, worker, runner, port, mounts, budget>>

Live == {"pending", "running"}
Finished == {"done", "error"}
JobStatus == {"absent"} \union Live \union Finished

(* Mutant: a sign-in is keyed by the wallet alone.                          *)
Key_ByWallet(m) == CHOOSE b \in Backend : TRUE

(* bootstrapDedupKey: one wallet's sign-in at one backend.                  *)
Key(m) == backend[m]

(* A sign-in sends every request through a client bound to the backend the  *)
(* job was admitted for, so that is where its token is minted.              *)
MintedAt(j) == backend[j]

-------------------------------------------------------------------------------
(* The port.                                                                *)

Posted(m, msg) == IF m \in connected THEN [inbox EXCEPT ![m] = Append(@, msg)] ELSE inbox

AckMsg(j)     == [type |-> "ack", id |-> j]
ErrorMsg      == [type |-> "error"]
ListMsg(all)  == [type |-> "jobs", jobs |-> all]
EventMsg(s)   == [type |-> "event", status |-> s]
DisconnectMsg == [type |-> "disconnect"]

(* writeState: every subscriber of job j is pushed its new status.          *)
Pushed(j, s) == [m \in Mount |-> IF m \in subs \intersect connected /\ awaited[m] = j
                                 THEN Append(inbox[m], EventMsg(s)) ELSE inbox[m]]

(* A message posted on a port whose other end is gone is lost.              *)
Sent(m, r) == [request EXCEPT ![m] = IF m \in connected THEN r ELSE "none"]

-------------------------------------------------------------------------------
(* Requests to storage.session and the continuations they leave.            *)

Answered(step) == queue # <<>> /\ Head(queue).at = step
It == Head(queue).id
Saw == Head(queue).saw
Then(cont) == queue' = Append(Tail(queue), cont)
Return == queue' = Tail(queue)

Start(at, m)       == [at |-> at, id |-> m]
ReadDedup(m)       == [at |-> "dedup", id |-> m, saw |-> dedup[Key(m)]]
ReadExisting(m, e) == [at |-> "existing", id |-> m, existing |-> e, saw |-> jobs[e]]
ReadAll(m)         == [at |-> "list", id |-> m, saw |-> jobs]
ReadAwaited(m)     == [at |-> "subscribe", id |-> m, saw |-> jobs[awaited[m]]]
Progress(at, j, s) == [at |-> at, id |-> j, saw |-> s]
End(at, j, to, s)  == [at |-> at, id |-> j, to |-> to, saw |-> s]

(* onJobDone, onJobError: read the job first.  "refused" is the onJobError  *)
(* that startJob awaits before it rethrows.                                 *)
Ending(j, to) == End("ending", j, to, jobs[j])

EndStatus(to) == IF to = "refused" THEN "error" ELSE to

-------------------------------------------------------------------------------
(* startJob, one action per await.                                          *)

(* admitJobBackend: a sign-in must name the backend selected right now.     *)
Admit(m) ==
  /\ request[m] = "start"
  /\ request' = [request EXCEPT ![m] = "none"]
  /\ \/ /\ backend[m] # selected
        /\ inbox' = Posted(m, ErrorMsg)
        /\ UNCHANGED queue
     \/ /\ backend[m] = selected
        /\ queue' = Append(queue, ReadDedup(m))
        /\ UNCHANGED inbox
  /\ UNCHANGED <<storage, aged, selected, waiting, ready, subs, gc, runner, connected, mounts, budget>>

(* allocateId and the first writeState: nobody can be subscribed yet.       *)
Allocate(m) ==
  /\ jobs' = [jobs EXCEPT ![m] = "pending"]
  /\ Then(Start("allocated", m))

DedupRead ==
  /\ Answered("dedup")
  /\ \/ /\ Saw = None
        /\ Allocate(It)
     \/ /\ Saw # None
        /\ Then(ReadExisting(It, Saw))
        /\ UNCHANGED jobs
  /\ UNCHANGED <<dedup, aged, selected, waiting, ready, subs, gc, runner, port, mounts, budget>>

(* A job already under way is the answer; a stale mapping is removed.       *)
ExistingRead ==
  /\ Answered("existing")
  /\ \/ /\ Saw \in Live
        /\ inbox' = Posted(It, AckMsg(Head(queue).existing))
        /\ Return
        /\ UNCHANGED dedup
     \/ /\ Saw \notin Live
        /\ dedup' = [dedup EXCEPT ![Key(It)] = None]
        /\ Then(Start("cleared", It))
        /\ UNCHANGED inbox
  /\ UNCHANGED <<jobs, aged, selected, waiting, ready, subs, gc, runner, connected, request, mounts, budget>>

StaleCleared ==
  /\ Answered("cleared")
  /\ Allocate(It)
  /\ UNCHANGED <<dedup, aged, selected, waiting, ready, subs, gc, runner, port, mounts, budget>>

Allocated ==
  /\ Answered("allocated")
  /\ inbox' = Pushed(It, "pending")
  /\ dedup' = [dedup EXCEPT ![Key(It)] = It]
  /\ Then(Start("mapped", It))
  /\ UNCHANGED <<jobs, aged, selected, waiting, ready, subs, gc, runner, connected, request, mounts, budget>>

(* ensureOffscreen: one createDocument at a time, its promise memoized.     *)
Mapped ==
  /\ Answered("mapped")
  /\ \/ /\ HasOffscreen /\ ~ready
        /\ waiting' = Append(waiting, It)
        /\ Return
        /\ UNCHANGED jobs
     \/ /\ ready \/ ~HasOffscreen
        /\ jobs' = [jobs EXCEPT ![It] = "running"]
        /\ Then(Start("running", It))
        /\ UNCHANGED waiting
  /\ UNCHANGED <<dedup, aged, selected, ready, subs, gc, runner, port, mounts, budget>>

(* The document is there (or was: "only a single offscreen").               *)
OffscreenReady ==
  /\ waiting # <<>>
  /\ ready' = TRUE
  /\ waiting' = <<>>
  /\ jobs' = [j \in Mount |-> IF j \in Range(waiting) THEN "running" ELSE jobs[j]]
  /\ queue' = queue \o [i \in DOMAIN waiting |-> Start("running", waiting[i])]
  /\ UNCHANGED <<dedup, aged, selected, subs, gc, runner, port, mounts, budget>>

(* Mutant: a failed hand-over is only rethrown, the job stays pending.      *)
OffscreenFails_Rethrown ==
  /\ waiting # <<>>
  /\ waiting' = <<>>
  /\ inbox' = [m \in Mount |-> IF m \in Range(waiting) THEN Posted(m, ErrorMsg)[m] ELSE inbox[m]]
  /\ UNCHANGED <<storage, queue, aged, selected, ready, subs, gc, runner, connected, request, mounts, budget>>

(* createDocument failed: every start waiting on it records the error.      *)
OffscreenFails ==
  /\ waiting # <<>>
  /\ waiting' = <<>>
  /\ queue' = queue \o [i \in DOMAIN waiting |-> Ending(waiting[i], "refused")]
  /\ UNCHANGED <<storage, aged, selected, ready, subs, gc, runner, port, mounts, budget>>

(* Running is on record: hand over to the runner and answer the request.    *)
HandOver ==
  /\ Answered("running")
  /\ runner' = runner \union {It}
  /\ inbox' = [Pushed(It, "running") EXCEPT
                 ![It] = IF It \in connected THEN Append(@, AckMsg(It)) ELSE @]
  /\ Return
  /\ UNCHANGED <<storage, aged, selected, waiting, ready, subs, gc, connected, request, mounts, budget>>

-------------------------------------------------------------------------------
(* What the runner reports; one worker handler per report.                  *)

ReportProgress(j) ==
  /\ j \in runner
  /\ budget.progress > 0
  /\ budget' = [budget EXCEPT !.progress = @ - 1]
  /\ queue' = Append(queue, Progress("progress", j, jobs[j]))
  /\ UNCHANGED <<storage, aged, selected, waiting, ready, subs, gc, runner, port, mounts>>

(* onJobProgress writes back the whole state it read. *)
ProgressRead ==
  /\ Answered("progress")
  /\ IF Saw = "absent"
     THEN /\ Return
          /\ UNCHANGED jobs
     ELSE /\ jobs' = [jobs EXCEPT ![It] = Saw]
          /\ Then(Progress("progressed", It, Saw))
  /\ UNCHANGED <<dedup, aged, selected, waiting, ready, subs, gc, runner, port, mounts, budget>>

Progressed ==
  /\ Answered("progressed")
  /\ inbox' = Pushed(It, Saw)
  /\ Return
  /\ UNCHANGED <<storage, aged, selected, waiting, ready, subs, gc, runner, connected, request, mounts, budget>>

(* Mutant: the end of a job is written without reading the job first.       *)
ReportEnd_Unread(j) ==
  /\ j \in runner
  /\ runner' = runner \ {j}
  /\ \E to \in Finished : /\ jobs' = [jobs EXCEPT ![j] = to]
                          /\ queue' = Append(queue, End("ended", j, to, to))
  /\ UNCHANGED <<dedup, aged, selected, waiting, ready, subs, gc, port, mounts, budget>>

(* The handler's promise settled, or the job never reached the runner.      *)
ReportEnd(j) ==
  /\ j \in runner
  /\ runner' = runner \ {j}
  /\ \E to \in Finished : queue' = Append(queue, Ending(j, to))
  /\ UNCHANGED <<storage, aged, selected, waiting, ready, subs, gc, port, mounts, budget>>

EndRead ==
  /\ Answered("ending")
  /\ IF Saw = "absent"
     THEN /\ Return
          /\ UNCHANGED jobs
     ELSE /\ jobs' = [jobs EXCEPT ![It] = EndStatus(Head(queue).to)]
          /\ Then(End("ended", It, Head(queue).to, Saw))
  /\ UNCHANGED <<dedup, aged, selected, waiting, ready, subs, gc, runner, port, mounts, budget>>

(* Subscribers are told, and the dedup key is free again. *)
Ended ==
  /\ Answered("ended")
  /\ inbox' = Pushed(It, EndStatus(Head(queue).to))
  /\ dedup' = [dedup EXCEPT ![Key(It)] = None]
  /\ Then(End("released", It, Head(queue).to, Saw))
  /\ UNCHANGED <<jobs, aged, selected, waiting, ready, subs, gc, runner, connected, request, mounts, budget>>

Released ==
  /\ Answered("released")
  /\ gc' = gc \union {It}
  /\ inbox' = IF Head(queue).to = "refused" THEN Posted(It, ErrorMsg) ELSE inbox
  /\ Return
  /\ UNCHANGED <<storage, aged, selected, waiting, ready, subs, runner, connected, request, mounts, budget>>

-------------------------------------------------------------------------------
(* The other port requests.                                                 *)

List(m) ==
  /\ request[m] = "list"
  /\ request' = [request EXCEPT ![m] = "none"]
  /\ queue' = Append(queue, ReadAll(m))
  /\ UNCHANGED <<storage, aged, selected, waiting, ready, subs, gc, runner, connected, inbox, mounts, budget>>

Listed ==
  /\ Answered("list")
  /\ inbox' = Posted(It, ListMsg(Saw))
  /\ Return
  /\ UNCHANGED <<storage, aged, selected, waiting, ready, subs, gc, runner, connected, request, mounts, budget>>

(* The port is subscribed before the job is read.                           *)
Subscribe(m) ==
  /\ request[m] = "subscribe"
  /\ request' = [request EXCEPT ![m] = "none"]
  /\ subs' = subs \union {m}
  /\ queue' = Append(queue, ReadAwaited(m))
  /\ UNCHANGED <<storage, aged, selected, waiting, ready, gc, runner, connected, inbox, mounts, budget>>

(* Mutant: a new subscriber is not told the job's current state.            *)
SubscribeRead_Silent ==
  /\ Answered("subscribe")
  /\ Return
  /\ UNCHANGED <<storage, aged, selected, waiting, ready, subs, gc, runner, port, mounts, budget>>

(* The current state is pushed at once, so a finish just missed is seen.    *)
SubscribeRead ==
  /\ Answered("subscribe")
  /\ inbox' = IF Saw = "absent" THEN inbox ELSE Posted(It, EventMsg(Saw))
  /\ Return
  /\ UNCHANGED <<storage, aged, selected, waiting, ready, subs, gc, runner, connected, request, mounts, budget>>

Unsubscribe(m) ==
  /\ request[m] = "unsubscribe"
  /\ request' = [request EXCEPT ![m] = "none"]
  /\ subs' = subs \ {m}
  /\ UNCHANGED <<storage, aged, selected, queue, waiting, ready, gc, runner, connected, inbox, mounts, budget>>

-------------------------------------------------------------------------------
(* A popup mount: runBootstrapInBackground.                                 *)

(* The window's api client follows the selection when the popup opens.      *)
Open(m) ==
  /\ pc[m] = "absent"
  /\ pc' = [pc EXCEPT ![m] = "listing"]
  /\ backend' = [backend EXCEPT ![m] = selected]
  /\ connected' = connected \union {m}
  /\ request' = [request EXCEPT ![m] = "list"]
  /\ UNCHANGED <<storage, aged, selected, worker, runner, inbox, awaited, token, budget>>

Receives(m, type) == inbox[m] # <<>> /\ Head(inbox[m]).type = type
Read(m) == inbox' = [inbox EXCEPT ![m] = Tail(@)]

(* mintedBy: the token of job j is taken only if this window's backend      *)
(* minted it.                                                               *)
SignedIn(m, j) ==
  /\ token' = [token EXCEPT ![m] = MintedAt(j)]
  /\ pc' = [pc EXCEPT ![m] = IF MintedAt(j) = backend[m] THEN "signedIn" ELSE "refused"]

Reusable(m, all) == {j \in Mount : all[j] = "done" /\ Key(j) = Key(m) /\ j \notin aged
                                   /\ MintedAt(j) = backend[m]}
InFlight(m, all) == {j \in Mount : all[j] \in Live /\ Key(j) = Key(m)}

(* A sign-in lately done is reused, one under way is joined, else a new one *)
(* is started.                                                              *)
ReceiveJobs(m) ==
  LET all == Head(inbox[m]).jobs
  IN /\ Receives(m, "jobs")
     /\ Read(m)
     /\ \/ /\ \E j \in Reusable(m, all) : SignedIn(m, j)
           /\ UNCHANGED <<request, awaited>>
        \/ /\ Reusable(m, all) = {}
           /\ \E j \in InFlight(m, all) : awaited' = [awaited EXCEPT ![m] = j]
           /\ pc' = [pc EXCEPT ![m] = "awaiting"]
           /\ request' = Sent(m, "subscribe")
           /\ UNCHANGED token
        \/ /\ Reusable(m, all) = {} /\ InFlight(m, all) = {}
           /\ pc' = [pc EXCEPT ![m] = "starting"]
           /\ request' = Sent(m, "start")
           /\ UNCHANGED <<awaited, token>>
     /\ UNCHANGED <<storage, aged, selected, worker, runner, connected, backend, budget>>

ReceiveId(m) ==
  /\ Receives(m, "ack")
  /\ Read(m)
  /\ awaited' = [awaited EXCEPT ![m] = Head(inbox[m]).id]
  /\ pc' = [pc EXCEPT ![m] = "awaiting"]
  /\ request' = Sent(m, "subscribe")
  /\ UNCHANGED <<storage, aged, selected, worker, runner, connected, backend, token, budget>>

ReceiveError(m) ==
  /\ Receives(m, "error")
  /\ Read(m)
  /\ pc' = [pc EXCEPT ![m] = "failed"]
  /\ UNCHANGED <<storage, aged, selected, worker, runner, connected, request, backend, awaited, token, budget>>

(* The listener of awaitJob settles on a finished job, and unsubscribes.    *)
ReceiveEvent(m) ==
  LET s == Head(inbox[m]).status
  IN /\ Receives(m, "event")
     /\ Read(m)
     /\ IF pc[m] = "awaiting" /\ s \in Finished
        THEN /\ request' = Sent(m, "unsubscribe")
             /\ \/ s = "done" /\ SignedIn(m, awaited[m])
                \/ s = "error" /\ pc' = [pc EXCEPT ![m] = "failed"] /\ UNCHANGED token
        ELSE UNCHANGED <<request, pc, token>>
     /\ UNCHANGED <<storage, aged, selected, worker, runner, connected, backend, awaited, budget>>

(* The port died: requests under way reject.  Nobody rejects awaitJob.      *)
ReceiveDisconnect(m) ==
  /\ Receives(m, "disconnect")
  /\ Read(m)
  /\ pc' = [pc EXCEPT ![m] = IF @ \in {"listing", "starting"} THEN "failed" ELSE @]
  /\ UNCHANGED <<storage, aged, selected, worker, runner, connected, request, backend, awaited, token, budget>>

Close(m) ==
  /\ pc[m] \notin {"absent", "closed"}
  /\ pc' = [pc EXCEPT ![m] = "closed"]
  /\ connected' = connected \ {m}
  /\ subs' = subs \ {m}
  /\ request' = [request EXCEPT ![m] = "none"]
  /\ inbox' = [inbox EXCEPT ![m] = <<>>]
  /\ awaited' = [awaited EXCEPT ![m] = None]
  /\ token' = [token EXCEPT ![m] = None]
  /\ UNCHANGED <<storage, aged, selected, queue, waiting, ready, gc, runner, backend, budget>>

-------------------------------------------------------------------------------
(* The browser, the user and time.                                          *)

Switch(b) ==
  /\ b # selected
  /\ budget.switches > 0
  /\ budget' = [budget EXCEPT !.switches = @ - 1]
  /\ selected' = b
  /\ UNCHANGED <<storage, aged, worker, runner, port, mounts>>

Idle == /\ queue = <<>> /\ waiting = <<>>
        /\ \A m \in Mount : request[m] = "none" /\ inbox[m] = <<>>

(* The worker goes, with its timers and its end of every port.  A job it    *)
(* ran itself goes too; the offscreen document stays.                       *)
Evict ==
  /\ budget.evictions > 0
  /\ budget' = [budget EXCEPT !.evictions = @ - 1]
  /\ budget.busy \/ Idle
  /\ queue' = <<>> /\ waiting' = <<>> /\ ready' = FALSE /\ subs' = {} /\ gc' = {}
  /\ runner' = IF HasOffscreen THEN runner ELSE {}
  /\ connected' = {}
  /\ request' = [m \in Mount |-> "none"]
  /\ inbox' = [m \in Mount |-> IF m \in connected THEN Append(inbox[m], DisconnectMsg) ELSE inbox[m]]
  /\ UNCHANGED <<storage, aged, selected, mounts>>

(* REUSE_WINDOW_MS has passed since the job finished. *)
Age(j) ==
  /\ jobs[j] \in Finished /\ j \notin aged
  /\ budget.aged > 0
  /\ budget' = [budget EXCEPT !.aged = @ - 1]
  /\ aged' = aged \union {j}
  /\ UNCHANGED <<storage, selected, worker, runner, port, mounts>>

(* RESULT_TTL_MS outlasts the reuse window and any request under way.       *)
Collect(j) ==
  /\ j \in gc \intersect aged
  /\ Idle
  /\ gc' = gc \ {j}
  /\ jobs' = [jobs EXCEPT ![j] = "absent"]
  /\ UNCHANGED <<dedup, aged, selected, queue, waiting, ready, subs, runner, port, mounts, budget>>

-------------------------------------------------------------------------------
Init ==
  /\ jobs = [j \in Mount |-> "absent"]
  /\ dedup = [k \in Backend |-> None]
  /\ aged = {}
  /\ selected \in Backend
  /\ queue = <<>> /\ waiting = <<>> /\ ready = FALSE /\ subs = {} /\ gc = {}
  /\ runner = {}
  /\ connected = {}
  /\ request = [m \in Mount |-> "none"]
  /\ inbox = [m \in Mount |-> <<>>]
  /\ pc = [m \in Mount |-> "absent"]
  /\ backend = [m \in Mount |-> None]
  /\ awaited = [m \in Mount |-> None]
  /\ token = [m \in Mount |-> None]
  /\ budget \in Scenario

Continue == \/ DedupRead
            \/ ExistingRead
            \/ StaleCleared
            \/ Allocated
            \/ Mapped
            \/ HandOver
            \/ ProgressRead
            \/ Progressed
            \/ EndRead
            \/ Ended
            \/ Released
            \/ Listed
            \/ SubscribeRead

Handle(m) == \/ Admit(m)
             \/ List(m)
             \/ Subscribe(m)
             \/ Unsubscribe(m)

Receive(m) == \/ ReceiveJobs(m)
              \/ ReceiveId(m)
              \/ ReceiveError(m)
              \/ ReceiveEvent(m)
              \/ ReceiveDisconnect(m)

Next == \/ Continue
        \/ OffscreenReady
        \/ OffscreenFails
        \/ Evict
        \/ \E m \in Mount : \/ Handle(m)
                            \/ Receive(m)
                            \/ Open(m)
                            \/ Close(m)
                            \/ ReportProgress(m)
                            \/ ReportEnd(m)
                            \/ Age(m)
                            \/ Collect(m)
        \/ \E b \in Backend : Switch(b)

(* Storage answers, messages arrive, createDocument and the handler of      *)
(* every job settle.                                                        *)
Fairness == /\ WF_vars(Continue)
            /\ WF_vars(OffscreenReady \/ OffscreenFails)
            /\ \A m \in Mount : /\ WF_vars(Handle(m))
                                /\ WF_vars(Receive(m))
                                /\ WF_vars(ReportEnd(m))

Spec == Init /\ [][Next]_vars
FairSpec == Spec /\ Fairness

-------------------------------------------------------------------------------
Optional(S) == S \union {None}

Continuation ==
  [at : {"allocated", "mapped", "running", "cleared"}, id : Mount]
  \union [at : {"dedup"}, id : Mount, saw : Optional(Mount)]
  \union [at : {"existing"}, id : Mount, existing : Mount, saw : JobStatus]
  \union [at : {"list"}, id : Mount, saw : [Mount -> JobStatus]]
  \union [at : {"subscribe", "progress", "progressed"}, id : Mount, saw : JobStatus]
  \union [at : {"ending", "ended", "released"}, id : Mount, to : Finished \union {"refused"}, saw : JobStatus]

PortMessage ==
  [type : {"error", "disconnect"}] \union [type : {"ack"}, id : Mount]
  \union [type : {"jobs"}, jobs : [Mount -> JobStatus]] \union [type : {"event"}, status : JobStatus]

(* Every variable keeps the shape the code gives it. *)
TypeOK ==
  /\ jobs \in [Mount -> JobStatus]
  /\ dedup \in [Backend -> Optional(Mount)]
  /\ aged \subseteq Mount
  /\ selected \in Backend
  /\ queue \in Seq(Continuation)
  /\ waiting \in Seq(Mount)
  /\ ready \in BOOLEAN
  /\ subs \subseteq Mount
  /\ gc \subseteq Mount
  /\ runner \subseteq Mount
  /\ connected \subseteq Mount
  /\ request \in [Mount -> {"none", "list", "start", "subscribe", "unsubscribe"}]
  /\ inbox \in [Mount -> Seq(PortMessage)]
  /\ pc \in [Mount -> {"absent", "listing", "starting", "awaiting", "signedIn", "refused", "failed", "closed"}]
  /\ backend \in [Mount -> Optional(Backend)]
  /\ awaited \in [Mount -> Optional(Mount)]
  /\ token \in [Mount -> Optional(Backend)]
  /\ budget \in Budget

(* A window is never handed a token another backend minted, so mintedBy has *)
(* nothing to refuse: not by replaying a finished sign-in, not by joining   *)
(* one under way, whatever was selected between (bootstrapDedupKey).        *)
TokenFitsWindow == \A m \in Mount : token[m] \in {None, backend[m]}

(* A finished job stays as it finished until it is collected: no late       *)
(* progress report, no second end and no write of startJob revives it.      *)
FinishedIsFinal ==
  [][\A j \in Mount : jobs[j] \in Finished => jobs'[j] \in {jobs[j], "absent"}]_vars

AtRest == Idle /\ runner = {}

(* When the worker and the runner have nothing left to do, no job is on     *)
(* record as under way and no dedup key points at one: whatever failed, the *)
(* next sign-in does not join a job nobody runs (startJob's catch).  What   *)
(* an eviction cuts short is another matter.                                *)
NothingLeftAtRest ==
  AtRest /\ ~budget.busy =>
            /\ \A j \in Mount : jobs[j] \notin Live
            /\ \A k \in Backend : dedup[k] = None

Pending(m) == pc[m] \in {"listing", "starting", "awaiting"}

(* Every sign-in settles for as long as its popup and its port live: the    *)
(* mount learns the end of the job it joined, started or just missed.       *)
SettlesWhileConnected == \A m \in Mount : <>[](Pending(m) => m \notin connected)
================================================================================
