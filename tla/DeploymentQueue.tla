--------------------------- MODULE DeploymentQueue ---------------------------
(***************************************************************************)
(* The deployment queue: the rows of application_deployment_queues, the    *)
(* Horizon queue that carries ApplicationDeploymentJob, and everything     *)
(* that reads or writes them at the same time.                             *)
(*                                                                         *)
(* The code has no transaction and no lock around these rows.  Every       *)
(* helper is a sequence of separate statements (count, look for a          *)
(* duplicate, insert, test next_queuable, update, dispatch), so one actor  *)
(* is a program counter and what it remembers between two statements, and  *)
(* the steps of the actors interleave.                                     *)
(*                                                                         *)
(*   Clients  web and API requests, webhooks, console commands             *)
(*   Workers  the Horizon processes that run ApplicationDeploymentJob      *)
(*                                                                         *)
(* Rows are numbered in the order of created_at.                           *)
(***************************************************************************)
EXTENDS Integers, FiniteSets

CONSTANTS
    Apps, Servers, Commits,
    PRs,               \* pull request ids; 0 is the application itself
    HeadCommit,        \* the default of the parameter $commit
    MainServer,        \* [Apps -> Servers]: application->destination->server
    Extra,             \* [Apps -> SUBSET Servers]: additional_networks
    BuildServers,      \* [Apps -> SUBSET Servers]: {} when is_build_server_enabled is off
    ConcurrentBuilds,  \* [Servers -> Nat]: settings->concurrent_builds
    QueueLimit,        \* [Servers -> Nat]: settings->deployment_queue_limit
    Clients, Workers,
    ClientRequests,    \* the calls of queue_application_deployment to explore
    Faults,            \* which faults and uncoordinated writers to explore
    MaxDeployments,    \* bound on the rows ever created
    MaxClicks          \* bound on the buttons, API calls and commands

Deployments == 1 .. MaxDeployments
Actors == Clients \cup Workers

(***************************************************************************)
(* What a caller of queue_application_deployment asks for.  "force" stands *)
(* for force_rebuild or rollback, "nqa" for no_questions_asked.            *)
(***************************************************************************)
Request == [app : Apps, pr : PRs, commit : Commits, server : Servers,
            onlyThis : BOOLEAN, force : BOOLEAN, nqa : BOOLEAN]

(* The content of a row not yet inserted and of a request not yet made. *)
NoRequest == CHOOSE r \in Request : TRUE

FaultKinds == {"crash", "restart", "api_cancel", "sweep", "effects"}

ASSUME ConstantsAssumption ==
    /\ Apps # {}
    /\ MaxDeployments \in Nat /\ MaxClicks \in Nat
    /\ 0 \in PRs /\ PRs \subseteq Nat
    /\ HeadCommit \in Commits
    /\ MainServer \in [Apps -> Servers]
    /\ Extra \in [Apps -> SUBSET Servers]
    /\ BuildServers \in [Apps -> SUBSET Servers]
    /\ ConcurrentBuilds \in [Servers -> Nat \ {0}]
    /\ QueueLimit \in [Servers -> Nat \ {0}]
    /\ ClientRequests \subseteq Request
    /\ IsFiniteSet(Clients) /\ IsFiniteSet(Workers) /\ Clients \cap Workers = {}
    /\ Faults \subseteq FaultKinds

Active == {"queued", "in_progress"}
Terminal == {"finished", "failed"}
Statuses == {"none", "cancelled"} \cup Active \cup Terminal
Labels == {"idle", "create", "decide", "promote", "dispatch", "scan", "next",
           "view_queued", "view_active", "api_cancel", "sweep",
           "start", "claim", "work", "settle", "write", "effects"}
Goals == {"none", "complete", "unhealthy", "failed", "cancelled"}

VARIABLES
    status,   \* [Deployments -> Statuses]; "none" before the row exists
    row,      \* the columns written by the insert
    jobs,     \* jobs of a deployment waiting in the Horizon queue
    lost,     \* jobs reserved by a process that died, redelivered later
    at,       \* the actors
    clicks,   \* how many user interventions were made so far
    dropped   \* history: rows whose dispatch or failed() died with a process

vars == <<status, row, jobs, lost, at, clicks, dropped>>

(***************************************************************************)
(* An actor: pc, the row it acts on, the row its job runs (workers), what  *)
(* it is about to write, the rows of its snapshot still to visit, the      *)
(* additional servers still to deploy to, and its request.                 *)
(***************************************************************************)
ActorState == [pc : Labels, cur : Deployments \cup {0}, own : Deployments \cup {0},
               goal : Goals, todo : SUBSET Deployments, dests : SUBSET Servers,
               req : Request]
Idle == [pc |-> "idle", cur |-> 0, own |-> 0, goal |-> "none", todo |-> {},
         dests |-> {}, req |-> NoRequest]

(* The labels of an actor that acts on a row, of a worker that runs a job. *)
RowLabels == {"decide", "promote", "dispatch", "view_queued", "view_active",
              "next", "api_cancel"}
JobLabels == {"start", "claim", "work", "settle", "write", "effects"}

TypeOK ==
    /\ status \in [Deployments -> Statuses]
    /\ row \in [Deployments -> Request]
    /\ jobs \in [Deployments -> Nat]
    /\ lost \in [Deployments -> Nat]
    /\ at \in [Actors -> ActorState]
    /\ clicks \in 0 .. MaxClicks
    /\ dropped \subseteq Deployments
    /\ \A a \in Actors :
        /\ at[a].pc \in RowLabels => at[a].cur # 0
        /\ at[a].pc \in JobLabels \/ at[a].dests # {} \/ at[a].goal = "unhealthy"
              => at[a].own # 0
        /\ at[a].pc \in {"idle", "start", "claim", "work"} => at[a].goal = "none"
        /\ at[a].pc = "sweep" => at[a].goal \in {"cancelled", "failed"}

Init ==
    /\ status = [d \in Deployments |-> "none"]
    /\ row = [d \in Deployments |-> NoRequest]
    /\ jobs = [d \in Deployments |-> 0]
    /\ lost = [d \in Deployments |-> 0]
    /\ at = [a \in Actors |-> Idle]
    /\ clicks = 0
    /\ dropped = {}

-----------------------------------------------------------------------------
(* Queries on the table *)

Rows == {d \in Deployments : status[d] # "none"}
On(s, st) == {d \in Rows : row[d].server = s /\ status[d] = st}
SameSlot(r, q) == r.app = q.app /\ r.pr = q.pr
Oldest(d, D) == \A e \in D : d <= e

(* The two tests at the head of queue_application_deployment. *)
QueueFull(s) == Cardinality(On(s, "queued")) >= QueueLimit[s]
Duplicate(r) == \E d \in Rows : /\ status[d] \in Active
                                /\ SameSlot(row[d], r) /\ row[d].commit = r.commit
AcceptedMutant(r) == Duplicate(r) => r.force \/ r.nqa  \* mutant: the limit is not read
Accepted(r) == ~QueueFull(r.server) /\ (Duplicate(r) => r.force \/ r.nqa)

next_queuable(r) ==
    /\ ~\E d \in Rows : status[d] = "in_progress" /\ SameSlot(row[d], r)
    /\ Cardinality(On(r.server, "in_progress")) < ConcurrentBuilds[r.server]

(* Room for one more row within MaxDeployments, counting the inserts that  *)
(* are already decided.                                                    *)
Room == Cardinality(Rows) + Cardinality({a \in Actors : at[a].pc = "create"})
            < MaxDeployments

-----------------------------------------------------------------------------
(* queue_application_deployment *)

(* The queue limit and the duplicate test pass; refused calls change       *)
(* nothing.                                                                *)
RequestDeployment(c) ==
    \E r \in ClientRequests :
        /\ at[c].pc = "idle" /\ Room /\ Accepted(r)
        /\ at' = [at EXCEPT ![c].pc = "create", ![c].req = r]
        /\ UNCHANGED <<status, row, jobs, lost, clicks, dropped>>

(* ApplicationDeploymentQueue::create; the status column defaults to       *)
(* queued.                                                                 *)
CreateRow(a) ==
    /\ at[a].pc = "create"
    /\ \E d \in Deployments \ Rows :
        /\ Oldest(d, Deployments \ Rows)
        /\ status' = [status EXCEPT ![d] = "queued"]
        /\ row' = [row EXCEPT ![d] = at[a].req]
        /\ at' = [at EXCEPT ![a].pc = "decide", ![a].cur = d]
    /\ UNCHANGED <<jobs, lost, clicks, dropped>>

(* Mutant: the answer of next_queuable is not used. *)
DecideMutant(a) ==
    /\ at[a].pc = "decide"
    /\ at' = [at EXCEPT ![a].pc = "promote"]
    /\ UNCHANGED <<status, row, jobs, lost, clicks, dropped>>

(* no_questions_asked, or next_queuable, or the row stays queued. *)
Decide(a) ==
    /\ at[a].pc = "decide"
    /\ IF at[a].req.nqa \/ next_queuable(at[a].req)
       THEN at' = [at EXCEPT ![a].pc = "promote"]
       ELSE at' = [at EXCEPT ![a] = Idle]
    /\ UNCHANGED <<status, row, jobs, lost, clicks, dropped>>

(* update(status => in_progress) on the row read earlier: whatever the row *)
(* holds by now is overwritten.                                            *)
Promote(a) ==
    /\ at[a].pc = "promote"
    /\ status' = [status EXCEPT ![at[a].cur] = "in_progress"]
    /\ at' = [at EXCEPT ![a].pc = "dispatch"]
    /\ UNCHANGED <<row, jobs, lost, clicks, dropped>>

(* ApplicationDeploymentJob::dispatch, then back to the caller: the loop   *)
(* over the additional destinations, or the loop over a snapshot (empty    *)
(* for a request).                                                         *)
Dispatch(a) ==
    /\ at[a].pc = "dispatch"
    /\ jobs' = [jobs EXCEPT ![at[a].cur] = @ + 1]
    /\ at' = [at EXCEPT ![a].pc = IF at[a].dests # {} THEN "effects" ELSE "scan",
                        ![a].dests = @ \ {row[at[a].cur].server},
                        ![a].cur = 0, ![a].req = NoRequest]
    /\ UNCHANGED <<status, row, lost, clicks, dropped>>

-----------------------------------------------------------------------------
(* queue_next_deployment and next_after_cancel *)

Snapshot(s) == On(s, "queued")

(* Mutant: the loop forgets which row it promotes. *)
ScanRowMutant(a) ==
    /\ at[a].pc = "scan"
    /\ \E d \in at[a].todo :
        at' = [at EXCEPT ![a].todo = @ \ {d},
                         ![a].pc = IF next_queuable(row[d]) THEN "promote" ELSE "scan"]
    /\ UNCHANGED <<status, row, jobs, lost, clicks, dropped>>

(* One round of the loop: the oldest row of the snapshot, tested against   *)
(* the table as it is now, whatever became of the row itself.              *)
ScanRow(a) ==
    /\ at[a].pc = "scan"
    /\ \E d \in at[a].todo :
        /\ Oldest(d, at[a].todo)
        /\ at' = IF next_queuable(row[d])
                 THEN [at EXCEPT ![a].todo = @ \ {d}, ![a].cur = d, ![a].pc = "promote"]
                 ELSE [at EXCEPT ![a].todo = @ \ {d}]
    /\ UNCHANGED <<status, row, jobs, lost, clicks, dropped>>

(* The end of the loop.  An unhealthy deployment has only run              *)
(* failDeployment inside the rolling update: its job goes on to            *)
(* completeDeployment.                                                     *)
ScanEnd(a) ==
    /\ at[a].pc = "scan" /\ at[a].todo = {}
    /\ at' = IF at[a].goal = "unhealthy"
             THEN [at EXCEPT ![a].pc = "settle", ![a].goal = "complete"]
             ELSE [at EXCEPT ![a] = Idle]
    /\ UNCHANGED <<status, row, jobs, lost, clicks, dropped>>

-----------------------------------------------------------------------------
(* ApplicationDeploymentJob *)

(* Horizon hands a waiting job to a free worker. *)
Reserve(w) ==
    \E d \in Deployments :
        /\ at[w].pc = "idle" /\ jobs[d] > 0
        /\ jobs' = [jobs EXCEPT ![d] = @ - 1]
        /\ at' = [at EXCEPT ![w].pc = "start", ![w].own = d]
        /\ UNCHANGED <<status, row, lost, clicks, dropped>>

(* A job whose process died comes back after retry_after; with tries = 1   *)
(* it only gets its failed() called.                                       *)
Redeliver(w) ==
    \E d \in Deployments :
        /\ at[w].pc = "idle" /\ lost[d] > 0
        /\ lost' = [lost EXCEPT ![d] = @ - 1]
        /\ at' = [at EXCEPT ![w].pc = "settle", ![w].own = d, ![w].goal = "failed"]
        /\ UNCHANGED <<status, row, jobs, clicks, dropped>>

(* Mutants: a row already in progress is somebody else's; a cancelled row  *)
(* is not looked for.                                                      *)
StartMutant(w) ==
    /\ at[w].pc = "start"
    /\ at' = IF status[at[w].own] \in {"cancelled", "in_progress"}
             THEN [at EXCEPT ![w] = Idle] ELSE [at EXCEPT ![w].pc = "claim"]
    /\ UNCHANGED <<status, row, jobs, lost, clicks, dropped>>
StartMutant2(w) ==
    /\ at[w].pc = "start"
    /\ at' = [at EXCEPT ![w].pc = IF status[at[w].own] = "in_progress" THEN "work"
                                                                      ELSE "claim"]
    /\ UNCHANGED <<status, row, jobs, lost, clicks, dropped>>

(* handle(): refresh, stop if cancelled.  The update to in_progress is     *)
(* sent only when the refreshed row says something else.                   *)
Start(w) ==
    /\ at[w].pc = "start"
    /\ LET st == status[at[w].own] IN
        at' = CASE st = "cancelled"   -> [at EXCEPT ![w] = Idle]
                [] st = "in_progress" -> [at EXCEPT ![w].pc = "work"]
                [] OTHER              -> [at EXCEPT ![w].pc = "claim"]
    /\ UNCHANGED <<status, row, jobs, lost, clicks, dropped>>

Claim(w) ==
    /\ at[w].pc = "claim"
    /\ status' = [status EXCEPT ![at[w].own] = "in_progress"]
    /\ at' = [at EXCEPT ![w].pc = "work"]
    /\ UNCHANGED <<row, jobs, lost, clicks, dropped>>

(* The deployment itself: it succeeds, its new container is unhealthy, or  *)
(* it throws (a failed command, a cancellation seen before a command, a    *)
(* server that is not functional, the job's timeout).                      *)
Work(w) ==
    \E g \in {"complete", "unhealthy", "failed"} :
        /\ at[w].pc = "work"
        /\ at' = [at EXCEPT ![w].pc = "settle", ![w].goal = g]
        /\ UNCHANGED <<status, row, jobs, lost, clicks, dropped>>

(* Mutant: the verdict is written whatever the row says. *)
SettleMutant(w) ==
    /\ at[w].pc = "settle"
    /\ at' = [at EXCEPT ![w].pc = "write"]
    /\ UNCHANGED <<status, row, jobs, lost, clicks, dropped>>

(* isInTerminalState(): refresh, then return, throw or go on.  A throw     *)
(* outside failed() is caught by handle(), which calls failed().           *)
Settle(w) ==
    /\ at[w].pc = "settle"
    /\ LET st == status[at[w].own]
           g  == at[w].goal IN
        at' = CASE st \in Terminal /\ g # "unhealthy"
                        -> [at EXCEPT ![w] = Idle]
                [] st \in Terminal /\ g = "unhealthy"
                        -> [at EXCEPT ![w].goal = "complete"]
                [] st = "cancelled" /\ g = "failed"
                        -> [at EXCEPT ![w] = Idle]
                [] st = "cancelled" /\ g # "failed"
                        -> [at EXCEPT ![w].goal = "failed"]
                [] OTHER
                        -> [at EXCEPT ![w].pc = "write"]
    /\ UNCHANGED <<status, row, jobs, lost, clicks, dropped>>

Verdict(g) == IF g = "complete" THEN "finished"
              ELSE IF g = "cancelled" THEN "cancelled" ELSE "failed"

(* The guards of deploy_to_additional_destinations. *)
FanOut(d) == LET r == row[d] IN
    IF r.onlyThis \/ r.pr # 0 \/ r.server \in Extra[r.app] THEN {} ELSE Extra[r.app]

(* updateDeploymentStatus *)
WriteStatus(w) ==
    /\ at[w].pc = "write"
    /\ status' = [status EXCEPT ![at[w].own] = Verdict(at[w].goal)]
    /\ at' = [at EXCEPT ![w].pc = "effects",
                        ![w].dests = IF at[w].goal = "complete"
                                     THEN FanOut(at[w].own) ELSE {}]
    /\ UNCHANGED <<row, jobs, lost, clicks, dropped>>

(* One round of deploy_to_additional_destinations: the nested request is   *)
(* refused when the server's queue is full, and nobody looks at the        *)
(* answer.                                                                 *)
FanOutOne(w) ==
    \E s \in at[w].dests :
        LET r == [app |-> row[at[w].own].app, pr |-> 0, commit |-> HeadCommit,
                  server |-> s, onlyThis |-> FALSE, force |-> FALSE, nqa |-> TRUE] IN
        /\ at[w].pc = "effects"
        /\ at' = IF Room /\ Accepted(r)
                 THEN [at EXCEPT ![w].pc = "create", ![w].req = r]
                 ELSE [at EXCEPT ![w].dests = @ \ {s}]
        /\ UNCHANGED <<status, row, jobs, lost, clicks, dropped>>

(* Mutant: only a success queues the next deployment. *)
QueueNextMutant(w) ==
    /\ at[w].pc = "effects" /\ at[w].dests = {}
    /\ at' = [at EXCEPT ![w].pc = "scan",
                        ![w].todo = IF at[w].goal # "complete" THEN {}
                                    ELSE Snapshot(MainServer[row[at[w].own].app])]
    /\ UNCHANGED <<status, row, jobs, lost, clicks, dropped>>

(* The notification, then queue_next_deployment reads its snapshot: the    *)
(* queued rows of the application's main server.                           *)
QueueNext(w) ==
    /\ at[w].pc = "effects" /\ at[w].dests = {}
    /\ at' = [at EXCEPT ![w].pc = "scan",
                        ![w].todo = Snapshot(MainServer[row[at[w].own].app])]
    /\ UNCHANGED <<status, row, jobs, lost, clicks, dropped>>

(* handleStatusTransition throws (event, fan-out or notification): the     *)
(* exception skips queue_next_deployment and ends in failed().             *)
EffectsThrow(w) ==
    /\ "effects" \in Faults /\ at[w].pc = "effects"
    /\ at' = IF at[w].goal = "failed"
             THEN [at EXCEPT ![w] = Idle]
             ELSE [at EXCEPT ![w].pc = "settle", ![w].goal = "failed", ![w].dests = {}]
    /\ UNCHANGED <<status, row, jobs, lost, clicks, dropped>>

-----------------------------------------------------------------------------
(* User interventions *)

(* The page of a deployment shows "Force Start" for a queued row and       *)
(* "Cancel" for an active one; the click comes later.                      *)
OpenDeployment(c) ==
    \E d \in Rows :
        /\ at[c].pc = "idle" /\ clicks < MaxClicks /\ status[d] \in Active
        /\ clicks' = clicks + 1
        /\ at' = [at EXCEPT ![c].cur = d,
                            ![c].pc = IF status[d] = "queued" THEN "view_queued"
                                                              ELSE "view_active"]
        /\ UNCHANGED <<status, row, jobs, lost, dropped>>

(* Mutant: the row is updated and no job dispatched. *)
ForceStartMutant(c) ==
    /\ at[c].pc = "view_queued"
    /\ status' = [status EXCEPT ![at[c].cur] = "in_progress"]
    /\ at' = [at EXCEPT ![c] = Idle]
    /\ UNCHANGED <<row, jobs, lost, clicks, dropped>>

(* force_start_deployment: no test of the row. *)
ForceStart(c) ==
    /\ at[c].pc = "view_queued"
    /\ status' = [status EXCEPT ![at[c].cur] = "in_progress"]
    /\ at' = [at EXCEPT ![c].pc = "dispatch"]
    /\ UNCHANGED <<row, jobs, lost, clicks, dropped>>

(* Mutant: nothing is started after a cancellation. *)
CancelClickMutant(c) ==
    /\ at[c].pc \in {"view_queued", "view_active"}
    /\ status' = [status EXCEPT ![at[c].cur] = "cancelled"]
    /\ at' = [at EXCEPT ![c] = Idle]
    /\ UNCHANGED <<row, jobs, lost, clicks, dropped>>

(* DeploymentNavbar::cancel: no test of the row either, then               *)
(* next_after_cancel.                                                      *)
CancelClick(c) ==
    /\ at[c].pc \in {"view_queued", "view_active"}
    /\ status' = [status EXCEPT ![at[c].cur] = "cancelled"]
    /\ at' = [at EXCEPT ![c].pc = "next"]
    /\ UNCHANGED <<row, jobs, lost, clicks, dropped>>

(* The server whose queue cancel() looks at: with a build server, the      *)
(* build server or, while none is recorded, the main server.               *)
CancelScope(d) == LET app == row[d].app IN
    IF BuildServers[app] = {} THEN {row[d].server}
    ELSE BuildServers[app] \cup {MainServer[app]}

NextAfterCancel(c) ==
    /\ at[c].pc = "next"
    /\ \E s \in CancelScope(at[c].cur) :
        at' = [at EXCEPT ![c].pc = "scan", ![c].todo = Snapshot(s), ![c].cur = 0]
    /\ UNCHANGED <<status, row, jobs, lost, clicks, dropped>>

LeavePage(c) ==
    /\ at[c].pc \in {"view_queued", "view_active"}
    /\ at' = [at EXCEPT ![c] = Idle]
    /\ UNCHANGED <<status, row, jobs, lost, clicks, dropped>>

(* The API's cancel_deployment: the status is tested, then written; no     *)
(* other deployment is started.                                            *)
ApiCancelTest(c) ==
    \E d \in Rows :
        /\ "api_cancel" \in Faults /\ clicks < MaxClicks
        /\ at[c].pc = "idle" /\ status[d] \in Active
        /\ clicks' = clicks + 1
        /\ at' = [at EXCEPT ![c].pc = "api_cancel", ![c].cur = d]
        /\ UNCHANGED <<status, row, jobs, lost, dropped>>

ApiCancelWrite(c) ==
    /\ at[c].pc = "api_cancel"
    /\ status' = [status EXCEPT ![at[c].cur] = "cancelled"]
    /\ at' = [at EXCEPT ![c] = Idle]
    /\ UNCHANGED <<row, jobs, lost, clicks, dropped>>

(* Writers that walk a snapshot of active rows: a closed or deleted        *)
(* preview cancels the rows of its slot, the console commands              *)
(* check:deployment-queue and cleanup:deployment-queue fail the rows of    *)
(* all servers or of a team's.                                             *)
SweepBegin(c) ==
    \E D \in SUBSET {d \in Rows : status[d] \in Active}, g \in {"cancelled", "failed"} :
        /\ "sweep" \in Faults /\ clicks < MaxClicks
        /\ at[c].pc = "idle" /\ D # {}
        /\ g = "cancelled" =>
             \E e \in D : D = {d \in Rows : status[d] \in Active /\ SameSlot(row[d], row[e])}
        /\ clicks' = clicks + 1
        /\ at' = [at EXCEPT ![c].pc = "sweep", ![c].todo = D, ![c].goal = g]
        /\ UNCHANGED <<status, row, jobs, lost, dropped>>

SweepOne(c) ==
    \E d \in at[c].todo :
        /\ at[c].pc = "sweep"
        /\ status' = [status EXCEPT ![d] = Verdict(at[c].goal)]
        /\ at' = IF at[c].todo = {d} THEN [at EXCEPT ![c] = Idle]
                 ELSE [at EXCEPT ![c].todo = @ \ {d}]
        /\ UNCHANGED <<row, jobs, lost, clicks, dropped>>

-----------------------------------------------------------------------------
(* Crashes *)

(* A job is deleted from the queue before its failed() runs, so only a     *)
(* worker that is not inside failed() leaves a job to redeliver.           *)
Reserved(a, d) == at[a].own = d /\ at[a].goal # "failed"

(* What dies with a process and nothing repairs: a dispatch not yet sent,  *)
(* a failed() that has not written its verdict.                            *)
DiesWith(a) ==
    (IF at[a].pc = "dispatch" THEN {at[a].cur} ELSE {}) \cup
    (IF at[a].pc \in {"settle", "write"} /\ at[a].goal = "failed" THEN {at[a].own} ELSE {})

Crash(a) ==
    /\ "crash" \in Faults /\ at[a].pc # "idle"
    /\ lost' = [d \in Deployments |-> lost[d] + IF Reserved(a, d) THEN 1 ELSE 0]
    /\ dropped' = dropped \cup DiesWith(a)
    /\ at' = [at EXCEPT ![a] = Idle]
    /\ UNCHANGED <<status, row, jobs, clicks>>

(* Mutant: what was in progress is queued again.                           *)
RestartMutant ==
    /\ "restart" \in Faults /\ clicks < MaxClicks
    /\ clicks' = clicks + 1
    /\ lost' = [d \in Deployments |->
                    lost[d] + Cardinality({a \in Actors : Reserved(a, d)})]
    /\ at' = [a \in Actors |-> Idle]
    /\ status' = [d \in Deployments |->
                    IF status[d] = "in_progress" THEN "queued" ELSE status[d]]
    /\ dropped' = {}
    /\ UNCHANGED <<row, jobs>>

(* The container restarts: every process dies, then app:init, which runs   *)
(* before Horizon, marks every active row as failed.  The jobs stay in     *)
(* Redis.                                                                  *)
Restart ==
    /\ "restart" \in Faults /\ clicks < MaxClicks
    /\ clicks' = clicks + 1
    /\ lost' = [d \in Deployments |->
                    lost[d] + Cardinality({a \in Actors : Reserved(a, d)})]
    /\ at' = [a \in Actors |-> Idle]
    /\ status' = [d \in Deployments |->
                    IF status[d] \in Active THEN "failed" ELSE status[d]]
    /\ dropped' = {}
    /\ UNCHANGED <<row, jobs>>

-----------------------------------------------------------------------------
(* The steps an actor completes on its own once it has begun. *)
Helper(a) ==
    \/ CreateRow(a) \/ Decide(a) \/ Promote(a) \/ Dispatch(a)
    \/ ScanRow(a) \/ ScanEnd(a)

WorkerStep(w) ==
    \/ Reserve(w) \/ Redeliver(w) \/ Start(w) \/ Claim(w) \/ Work(w)
    \/ Settle(w) \/ WriteStatus(w) \/ FanOutOne(w) \/ QueueNext(w)

ClientStep(c) == NextAfterCancel(c) \/ ApiCancelWrite(c) \/ SweepOne(c)

(* What a user or an operator decides to do. *)
ClientChoice(c) ==
    \/ RequestDeployment(c) \/ OpenDeployment(c) \/ ForceStart(c)
    \/ CancelClick(c) \/ LeavePage(c) \/ ApiCancelTest(c) \/ SweepBegin(c)

Next ==
    \/ \E a \in Actors : Helper(a) \/ Crash(a)
    \/ \E w \in Workers : WorkerStep(w) \/ EffectsThrow(w)
    \/ \E c \in Clients : ClientStep(c) \/ ClientChoice(c)
    \/ Restart

Spec == Init /\ [][Next]_vars

(* Once begun, a request, a command and a job run to their end: PHP runs   *)
(* them sequentially, Horizon serves its queue, and a job that hangs is    *)
(* ended by its timeout.                                                   *)
Fairness ==
    /\ \A a \in Actors : WF_vars(Helper(a))
    /\ \A w \in Workers : WF_vars(WorkerStep(w))
    /\ \A c \in Clients : WF_vars(ClientStep(c))

FairSpec == Spec /\ Fairness

-----------------------------------------------------------------------------
(* Properties *)

(* An actor that will still write or dispatch row d. *)
Drives(a, d) ==
    \/ at[a].own = d /\ at[a].pc \in {"start", "claim", "work", "settle", "write"}
    \/ at[a].cur = d /\ at[a].pc = "dispatch"

Driven(d) ==
    \/ jobs[d] > 0 \/ lost[d] > 0 \/ d \in dropped
    \/ \E a \in Actors : Drives(a, d)

(* No row stays in_progress with nobody working on it (it would hold its   *)
(* slot and a build of its server for ever): a job waits or will be        *)
(* redelivered, a process is about to dispatch or to settle it, or the     *)
(* process died in one of the two gaps of DiesWith.  About: every update   *)
(* to in_progress in bootstrap/helpers/applications.php and                *)
(* ApplicationDeploymentJob::handle, against every way a job may end.      *)
NoOrphan == \A d \in Deployments : status[d] = "in_progress" => Driven(d)

(* Somebody still holds a read of row d older than its cancellation. *)
Held(d) ==
    \E a \in Actors :
        \/ at[a].cur = d /\ at[a].pc \in {"decide", "promote", "view_queued"}
        \/ d \in at[a].todo /\ ~(at[a].pc = "sweep" /\ at[a].goal = "cancelled")
        \/ at[a].own = d /\ at[a].pc \in {"claim", "write"}

(* A cancellation nobody has a stale read of is final: no later job,       *)
(* scan, click or restart starts, finishes or fails the deployment.        *)
CancelIsFinal ==
    [][\A d \in Deployments : status[d] = "cancelled" /\ ~Held(d)
            => (status[d] = "cancelled" /\ ~Held(d))']_vars

(* Somebody will write row d without a look at what it holds by then, or a *)
(* job of it has still to begin: Start has no test for a terminal state.   *)
Pursued(d) ==
    \/ jobs[d] > 0
    \/ \E a \in Actors :
        \/ at[a].cur = d /\ at[a].pc \in {"decide", "promote", "dispatch", "view_queued",
                                         "view_active", "api_cancel"}
        \/ d \in at[a].todo
        \/ at[a].own = d /\ at[a].pc \in {"start", "claim", "write"}

(* A verdict is final unless the row is pursued: no later event takes up a *)
(* finished or failed deployment, not a redelivered job, a scan, a click   *)
(* nor a restart.  About: the guard of transitionToStatus, the writers     *)
(* that have none, and every read that selects rows by their status.       *)
VerdictIsFinal ==
    [][\A d \in Deployments : status[d] \in Terminal /\ ~Pursued(d)
            => status'[d] = status[d] /\ ~Pursued(d)']_vars

(* The queue implements the life cycle of its rows: queued once, started,  *)
(* finished and failed only by a process whose read is no older than the   *)
(* row's cancellation, finished only after it was in progress.  About:     *)
(* every write of the status column, with its guard or the lack of one.    *)
Lifecycle == INSTANCE DeploymentLifecycle WITH held <- {d \in Deployments : Held(d)}
ImplementsLifecycle == Lifecycle!Spec

(***************************************************************************)
(* The promise of the scans: a queued row is looked at again.              *)
(***************************************************************************)

(* Applications that live on one server, no build server, and none of the  *)
(* writers that start nothing afterwards: where the scans are complete.    *)
OneHome ==
    /\ Faults = {}
    /\ \A app \in Apps : Extra[app] = {} /\ BuildServers[app] = {}
    /\ \A r \in ClientRequests : r.server = MainServer[r.app]

(* Actor a is going to test row d against the table, or is about to take   *)
(* a snapshot that contains it.                                            *)
WillTest(a, d) ==
    \/ d = at[a].cur /\ at[a].pc \in {"decide", "promote"}
    \/ d \in at[a].todo
    \/ /\ at[a].pc = "effects"
       /\ MainServer[row[at[a].own].app] = row[d].server
    \/ /\ at[a].pc = "next"
       /\ row[at[a].cur].server = row[d].server

(* Nothing would ever start a row queued on a server where no deployment   *)
(* is in progress and whose queue nobody is about to look at.  About: the  *)
(* scans queue_next_deployment and next_after_cancel, each made after a    *)
(* status write, against requests that test next_queuable meanwhile.       *)
QueueServed ==
    \A d \in Rows : status[d] = "queued" =>
        \/ On(row[d].server, "in_progress") # {}
        \/ \E a \in Actors : WillTest(a, d)

(* In one home, no queued row is lost. *)
NoLostWakeup == OneHome => QueueServed

(* deployment_queue_limit can be exceeded only by the callers that passed  *)
(* the count together (the clients, and the workers when some application  *)
(* fans out), never by more, however long the queue runs.                  *)
Callers == Clients \cup (IF \A app \in Apps : Extra[app] = {} THEN {} ELSE Workers)
Creating(s) == {a \in Actors : at[a].pc = "create" /\ at[a].req.server = s}
QueueBounded ==
    \A s \in Servers :
        Cardinality(On(s, "queued")) + Cardinality(Creating(s))
            < QueueLimit[s] + Cardinality(Callers)

(* concurrent_builds can be exceeded by the processes that passed the test *)
(* together, by what a user forces, and by the jobs that run a second time *)
(* because their row was promoted twice (the busy workers), never by more. *)
(* Excepted are servers whose requests ask no questions, and killed        *)
(* workers, whose rows stay in progress.  About: next_queuable against     *)
(* every update to in_progress that comes later, or without it.            *)
Guarded(s) ==
    /\ \A app \in Apps : s \notin Extra[app]
    /\ \A r \in ClientRequests : r.server = s => ~r.nqa
BusyWorkers == {w \in Workers : at[w].pc \in {"start", "claim", "work", "settle", "write"}}
BuildsBounded ==
    "crash" \notin Faults => \A s \in Servers : Guarded(s) =>
        Cardinality(On(s, "in_progress"))
            < ConcurrentBuilds[s] + Cardinality(Actors) + clicks + Cardinality(BusyWorkers)

(* Every queued row is started or cancelled, and every started one ends.   *)
EventuallyStarts == \A d \in Deployments : status[d] = "queued" ~> status[d] # "queued"
EventuallyEnds == \A d \in Deployments :
    status[d] = "in_progress" ~> status[d] \in Terminal \cup {"cancelled"}

(***************************************************************************)
(* What the interface and the comments say, and the code does not do.      *)
(***************************************************************************)

(* "the number of simultaneous build processes/deployments that should run *)
(* concurrently" on a server.                                              *)
ConcurrentBuildsRespected ==
    \A s \in Servers : Cardinality(On(s, "in_progress")) <= ConcurrentBuilds[s]

(* "Terminal states cannot be changed."                                    *)
TerminalIsFinal ==
    [][\A d \in Deployments : status[d] \in Terminal => status'[d] = status[d]]_vars

=============================================================================
