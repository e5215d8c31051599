--------------------------- MODULE WorkerLifecycle ---------------------------
(***************************************************************************)
(* The life of one AlloraWorker object (worker/worker.py, and its Context, *)
(* utils/context.py): run(), possibly several times, the one-time startup  *)
(* with its detached retry, the poller, window events, stop() and cleanup. *)
(*                                                                         *)
(* The processes are the runs, a poller for each, and the callback of a    *)
(* window event; the detached retries are tasks of their own.  An action   *)
(* is the code between two suspensions.  What a submission does is the     *)
(* matter of WorkerNonces; here it is one await.                           *)
(***************************************************************************)
EXTENDS Integers, FiniteSets

CONSTANTS
    NRuns,      \* calls of run()
    NSteps,     \* optional startup steps, in order: banner, balance, faucet
    NSubs,      \* subscriptions a run makes
    NTasks,     \* bound: retry tasks created
    NEvents,    \* bound: window events dispatched
    MaxFaults,  \* bound: failures, timeouts and cancellations
    Overlap     \* may run() be called before an earlier run has ended?

ASSUME LifecycleAssumption ==
    /\ NRuns \in Nat \ {0} /\ NSteps \in Nat \ {0} /\ NSubs \in Nat \ {0}
    /\ NTasks \in Nat /\ NEvents \in Nat /\ MaxFaults \in Nat
    /\ Overlap \in BOOLEAN

Runs    == 1..NRuns
Steps   == 1..NSteps
Tasks   == 1..NTasks
Main(r) == <<"run", r>>
Poll(r) == <<"poll", r>>
Event   == <<"event", 0>>
Mains   == {Main(r) : r \in Runs}
Polls   == {Poll(r) : r \in Runs}
Procs   == Mains \cup Polls \cup {Event}
Ids     == Runs \X (1..NSubs)

VARIABLES
    at,           \* where each process is
    (* startup *)
    initialized, derived, attempted, completed,
    passing,      \* _optional_steps_running
    initLock,     \* _init_lock: is it taken?
    step,         \* the step a process or a retry task is awaiting, or 0
    task,         \* the retry tasks
    handle,       \* _startup_retry_task, or 0
    shuttingDown,
    (* the run *)
    ctx, queue,   \* _ctx and _queue, by the run they were made for, or 0
    cancelled,    \* the contexts that are cancelled
    ids,          \* _subscription_ids
    held,         \* the subscriptions the websocket subscriber holds
    events, faults,
    leaked,       \* history: stored, but the id was never appended
    aborted       \* history: the runs whose cleanup was cancelled amid its unsubscribes

startup == <<initialized, derived, attempted, completed, passing, step, task>>
run     == <<ctx, queue, cancelled, ids, held>>
vars == <<at, startup, initLock, handle, shuttingDown, run, events, faults, leaked, aborted>>

Passers == Mains \cup {<<"task", t>> : t \in Tasks}
Task(t) == <<"task", t>>

TypeOK ==
    /\ at \in [Procs -> {"none", "first", "again", "query", "requery", "steps", "ready",
                         "initialize", "sub", "loop", "cleanup", "awaitRetry", "unsub",
                         "awaitTasks", "ended", "start", "sleep", "submit", "cancelled"}]
    /\ {initialized, derived, attempted, passing, initLock, shuttingDown} \subseteq BOOLEAN
    /\ completed \subseteq Steps
    /\ step \in [Passers -> 0..NSteps]
    /\ task \in [Tasks -> {"none", "created", "passing", "done"}]
    /\ handle \in 0..NTasks
    /\ ctx \in 0..NRuns /\ queue \in 0..NRuns /\ cancelled \subseteq Runs
    /\ ids \subseteq Ids /\ held \subseteq Ids /\ leaked \subseteq Ids
    /\ aborted \subseteq Runs
    /\ events \in 0..NEvents /\ faults \in 0..MaxFaults
    /\ passing <=> \E p \in Passers : step[p] # 0
    /\ initLock <=> \E p \in Procs : at[p] \in {"query", "requery"}

Init ==
    /\ at = [p \in Procs |-> "none"]
    /\ initialized = FALSE /\ derived = FALSE /\ attempted = FALSE
    /\ completed = {} /\ passing = FALSE /\ initLock = FALSE
    /\ step = [p \in Passers |-> 0] /\ task = [t \in Tasks |-> "none"]
    /\ handle = 0 /\ shuttingDown = FALSE
    /\ ctx = 0 /\ queue = 0 /\ cancelled = {} /\ ids = {} /\ held = {}
    /\ events = 0 /\ faults = 0 /\ leaked = {} /\ aborted = {}

Done  == completed = Steps    \* _optional_steps_done
Fault == faults < MaxFaults /\ faults' = faults + 1
Goto(p, where) == at' = [at EXCEPT ![p] = where]

(* Context.cancel of the worker's current run, by stop().                  *)
StopCurrent == cancelled' = cancelled \cup ({ctx} \ {0})

-----------------------------------------------------------------------------
(* _run_startup_steps: whichever steps have not yet succeeded.             *)

Incomplete(from) == {s \in Steps \ completed : s >= from}
Lowest(S) == CHOOSE s \in S : \A u \in S : s <= u

Enters(p) ==
    /\ passing' = TRUE
    /\ step' = [step EXCEPT ![p] = Lowest(Incomplete(1))]

(* Mutant of Leaves: the flag is not reset where a pass is left.           *)
Leaves_Kept(p) ==
    /\ passing' = passing
    /\ step' = [step EXCEPT ![p] = 0]

Leaves(p) ==
    /\ passing' = FALSE
    /\ step' = [step EXCEPT ![p] = 0]

(* A step succeeds or fails; the pass goes on with the next, or ends.      *)
StepEnds(p) ==
    /\ \/ completed' = completed \cup {step[p]} /\ UNCHANGED faults
       \/ UNCHANGED completed /\ Fault
    /\ LET rest == Incomplete(step[p] + 1) IN
       IF rest = {} THEN Leaves(p)
       ELSE step' = [step EXCEPT ![p] = Lowest(rest)] /\ UNCHANGED passing

FirstPassStep(r) ==
    LET p == Main(r) IN
    /\ at[p] = "steps"
    /\ StepEnds(p)
    /\ IF step'[p] = 0 THEN Goto(p, "ready") ELSE UNCHANGED at
    /\ UNCHANGED <<initialized, derived, attempted, task, initLock, handle,
                   shuttingDown, run, events, leaked, aborted>>

TaskStarts(t) ==
    /\ task[t] = "created"
    /\ IF Done \/ passing
       THEN task' = [task EXCEPT ![t] = "done"] /\ UNCHANGED <<passing, step>>
       ELSE task' = [task EXCEPT ![t] = "passing"] /\ Enters(Task(t))
    /\ UNCHANGED <<at, initialized, derived, attempted, completed, initLock, handle,
                   shuttingDown, run, events, faults, leaked, aborted>>

TaskStep(t) ==
    /\ task[t] = "passing"
    /\ StepEnds(Task(t))
    /\ task' = IF step'[Task(t)] = 0 THEN [task EXCEPT ![t] = "done"] ELSE task
    /\ UNCHANGED <<at, initialized, derived, attempted, initLock, handle,
                   shuttingDown, run, events, leaked, aborted>>

Live(t) == t # 0 /\ task[t] # "done"

(* Mutant of Spawn: cleanup is not looked at.                              *)
Spawn_Unchecked ==
    IF Live(handle) THEN UNCHANGED <<task, handle>>
    ELSE \E t \in Tasks :
            /\ task[t] = "none" /\ \A u \in 1..(t - 1) : task[u] # "none"
            /\ handle' = t /\ task' = [task EXCEPT ![t] = "created"]

(* _spawn_startup_step_retry.                                              *)
Spawn ==
    IF shuttingDown \/ Live(handle) THEN UNCHANGED <<task, handle>>
    ELSE \E t \in Tasks :
            /\ task[t] = "none" /\ \A u \in 1..(t - 1) : task[u] # "none"
            /\ handle' = t /\ task' = [task EXCEPT ![t] = "created"]

(* _run_startup_steps_once: the first pass is awaited, later ones detached.*)
StepsOnce(p) ==
    IF Done \/ passing
    THEN Goto(p, "ready") /\ UNCHANGED <<attempted, passing, step, task, handle>>
    ELSE IF attempted
    THEN Spawn /\ Goto(p, "ready") /\ UNCHANGED <<attempted, passing, step>>
    ELSE /\ attempted' = TRUE /\ Enters(p)
         /\ Goto(p, "steps") /\ UNCHANGED <<task, handle>>

-----------------------------------------------------------------------------
(* _ensure_initialized, called by every process.                           *)

Ensure(p) ==
    IF ~initialized \/ ~derived
    THEN /\ Goto(p, IF initialized THEN "again" ELSE "first")
         /\ UNCHANGED <<attempted, passing, step, task, handle>>
    ELSE StepsOnce(p)

(* _init_lock, and what is checked again under it.                         *)
TakeInitLock(p) ==
    /\ at[p] \in {"first", "again"} /\ ~initLock
    /\ IF (at[p] = "first" /\ ~initialized) \/ (at[p] = "again" /\ ~derived)
       THEN /\ initLock' = TRUE
            /\ Goto(p, IF initialized THEN "requery" ELSE "query")
            /\ UNCHANGED <<startup, handle>>
       ELSE /\ StepsOnce(p)
            /\ UNCHANGED <<initialized, derived, completed, initLock>>
    /\ UNCHANGED <<shuttingDown, run, events, faults, leaked, aborted>>

(* The chain id is checked and the topic read, which may not give a        *)
(* polling interval; only the check of the chain id raises.                *)
EssentialsResolve(p) ==
    /\ at[p] \in {"query", "requery"}
    /\ initLock' = FALSE
    /\ initialized' = TRUE
    /\ \/ derived' = TRUE /\ UNCHANGED faults
       \/ UNCHANGED derived /\ Fault
    /\ StepsOnce(p)
    /\ UNCHANGED <<completed, shuttingDown, run, events, leaked, aborted>>

EssentialsFail(r) ==
    /\ at[Main(r)] = "query" /\ Fault
    /\ initLock' = FALSE
    /\ Goto(Main(r), "ended")
    /\ UNCHANGED <<startup, handle, shuttingDown, run, events, leaked, aborted>>

-----------------------------------------------------------------------------
(* run().                                                                  *)

Over(r) == at[Main(r)] \in {"none", "ended"}

(* Mutant of Call: a stopped worker that is run again stays shut down.     *)
Call_StillShut(r) ==
    /\ at[Main(r)] = "none" /\ \A q \in 1..(r - 1) : at[Main(q)] # "none"
    /\ Overlap \/ \A q \in Runs : Over(q)
    /\ UNCHANGED shuttingDown
    /\ Ensure(Main(r))
    /\ UNCHANGED <<initialized, derived, completed, initLock, run, events, faults, leaked, aborted>>

Call(r) ==
    /\ at[Main(r)] = "none" /\ \A q \in 1..(r - 1) : at[Main(q)] # "none"
    /\ Overlap \/ \A q \in Runs : Over(q)
    /\ shuttingDown' = FALSE
    /\ Ensure(Main(r))
    /\ UNCHANGED <<initialized, derived, completed, initLock, run, events, faults, leaked, aborted>>

(* A worker that is running already refuses; otherwise the run's context.  *)
Begin(r) ==
    /\ at[Main(r)] = "ready"
    /\ IF ctx # 0 /\ ctx \notin cancelled
       THEN Goto(Main(r), "ended") /\ UNCHANGED <<ctx, queue>>
       ELSE Goto(Main(r), "initialize") /\ ctx' = r /\ queue' = r
    /\ UNCHANGED <<startup, initLock, handle, shuttingDown, cancelled, ids, held,
                   events, faults, leaked, aborted>>

Storing(r, k) == held' = held \cup {<<r, k>>}

(* use_case.initialize() returns; the poller is made, and the first        *)
(* subscription stored, whose request is now sent.                         *)
UseCaseReady(r) ==
    /\ at[Main(r)] = "initialize"
    /\ at' = [at EXCEPT ![Main(r)] = "sub", ![Poll(r)] = "start"]
    /\ Storing(r, 1)
    /\ UNCHANGED <<startup, initLock, handle, shuttingDown, ctx, queue, cancelled, ids,
                   events, faults, leaked, aborted>>

UseCaseFails(r) ==
    /\ at[Main(r)] = "initialize" /\ Fault
    /\ Goto(Main(r), "cleanup")
    /\ UNCHANGED <<startup, initLock, handle, shuttingDown, run, events, leaked, aborted>>

(* The subscription whose id has not been appended yet.                    *)
Sending(r) == Lowest({k \in 1..NSubs : <<r, k>> \notin ids})

Subscribed(r) ==
    LET k == Sending(r) IN
    /\ at[Main(r)] = "sub"
    /\ ids' = ids \cup {<<r, k>>}
    /\ IF k = NSubs THEN Goto(Main(r), "loop") /\ UNCHANGED held
       ELSE Storing(r, k + 1) /\ UNCHANGED at
    /\ UNCHANGED <<startup, initLock, handle, shuttingDown, ctx, queue, cancelled,
                   events, faults, leaked, aborted>>

(* The loop over the queue sees the context cancelled, or no queue.        *)
LoopEnds(r) ==
    /\ at[Main(r)] = "loop"
    /\ r \in cancelled \/ queue = 0
    /\ Goto(Main(r), "cleanup")
    /\ UNCHANGED <<startup, initLock, handle, shuttingDown, run, events, faults, leaked, aborted>>

(* The subscription being stored when the run ends is not on record.       *)
Leaks(r) == leaked' = leaked \cup IF at[Main(r)] = "sub" THEN {<<r, Sending(r)>>} ELSE {}

(* run(timeout), a consumer that leaves the iteration, a subscribe that    *)
(* raises, or the StopQueue of a monitor a cancelled cleanup left behind:  *)
(* the context is not cancelled.                                           *)
TimesOut(r) ==
    /\ at[Main(r)] \in {"sub", "loop"} /\ Fault
    /\ Goto(Main(r), "cleanup")
    /\ Leaks(r)
    /\ UNCHANGED <<startup, initLock, handle, shuttingDown, run, events, aborted>>

(* The task that iterates over the run is cancelled before its cleanup.    *)
CancelRun(r) ==
    LET p == Main(r) IN
    /\ Fault
    /\ \/ /\ at[p] \in {"initialize", "sub", "loop"}
          /\ cancelled' = cancelled \cup {r}
          /\ Goto(p, "cleanup")
          /\ Leaks(r)
          /\ UNCHANGED <<passing, step, initLock>>
       \/ /\ at[p] \in {"first", "again", "query", "requery", "steps"}
          /\ initLock' = (initLock /\ at[p] \notin {"query", "requery"})
          /\ IF at[p] = "steps" THEN Leaves(p) ELSE UNCHANGED <<passing, step>>
          /\ Goto(p, "ended")
          /\ UNCHANGED <<cancelled, leaked>>
    /\ UNCHANGED <<initialized, derived, attempted, completed, task, handle,
                   shuttingDown, ctx, queue, ids, held, events, aborted>>

Stop ==
    /\ ctx # 0 /\ ctx \notin cancelled /\ Fault
    /\ StopCurrent
    /\ UNCHANGED <<at, startup, initLock, handle, shuttingDown, ctx, queue, ids, held,
                   events, leaked, aborted>>

-----------------------------------------------------------------------------
(* _cleanup.                                                               *)

(* A retry that is still alive is cancelled, then awaited.                 *)
CleanupStarts(r) ==
    /\ at[Main(r)] = "cleanup"
    /\ shuttingDown' = TRUE
    /\ IF Live(handle)
       THEN /\ Goto(Main(r), "awaitRetry")
            /\ task' = [task EXCEPT ![handle] = "done"]
            /\ IF task[handle] = "passing" THEN Leaves(Task(handle))
               ELSE UNCHANGED <<passing, step>>
            /\ UNCHANGED handle
       ELSE /\ Goto(Main(r), "unsub")
            /\ handle' = 0
            /\ UNCHANGED <<task, passing, step>>
    /\ UNCHANGED <<initialized, derived, attempted, completed, initLock, run,
                   events, faults, leaked, aborted>>

(* The retry is over; a cancellation of this await is swallowed with it.   *)
RetryAwaited(r) ==
    /\ at[Main(r)] = "awaitRetry"
    /\ Goto(Main(r), "unsub")
    /\ handle' = 0
    /\ UNCHANGED <<startup, initLock, shuttingDown, run, events, faults, leaked, aborted>>

Unsubscribe(r) ==
    /\ at[Main(r)] = "unsub"
    /\ \E id \in ids \cap held : held' = held \ {id}
    /\ UNCHANGED <<at, startup, initLock, handle, shuttingDown, ctx, queue, cancelled,
                   ids, events, faults, leaked, aborted>>

(* Mutant of Unsubscribed: the ids are not cleared.                        *)
Unsubscribed_IdsKept(r) ==
    /\ at[Main(r)] = "unsub" /\ ids \cap held = {}
    /\ UNCHANGED ids
    /\ at' = [at EXCEPT ![Main(r)] = "awaitTasks",
                        ![Poll(r)] = CASE @ \in {"none", "ended"} -> @
                                       [] @ \in {"start", "sleep"} -> "ended"
                                       [] OTHER -> "cancelled"]
    /\ initLock' = (initLock /\ at[Poll(r)] # "requery")
    /\ UNCHANGED <<startup, handle, shuttingDown, ctx, queue, cancelled, held,
                   events, faults, leaked, aborted>>

(* The ids are cleared, and Context.cleanup cancels the poller.            *)
Unsubscribed(r) ==
    /\ at[Main(r)] = "unsub" /\ ids \cap held = {}
    /\ ids' = {}
    /\ at' = [at EXCEPT ![Main(r)] = "awaitTasks",
                        ![Poll(r)] = CASE @ \in {"none", "ended"} -> @
                                       [] @ \in {"start", "sleep"} -> "ended"
                                       [] OTHER -> "cancelled"]
    /\ initLock' = (initLock /\ at[Poll(r)] # "requery")
    /\ UNCHANGED <<startup, handle, shuttingDown, ctx, queue, cancelled, held,
                   events, faults, leaked, aborted>>

TasksAwaited(r) ==
    /\ at[Main(r)] = "awaitTasks"
    /\ at[Poll(r)] \in {"none", "ended"}
    /\ Goto(Main(r), "ended")
    /\ ctx' = 0 /\ queue' = 0
    /\ UNCHANGED <<startup, initLock, handle, shuttingDown, cancelled, ids, held,
                   events, faults, leaked, aborted>>

(* The task is cancelled in its cleanup.  Amid the unsubscribes nothing    *)
(* after them is done: the ids stay, the poller goes on.  Amid the gather  *)
(* the tasks end first.  Either way the context and the queue stay.        *)
CleanupCancelled(r) ==
    LET p == Main(r) IN
    /\ Fault
    /\ \/ at[p] = "unsub" /\ ids \cap held # {} /\ aborted' = aborted \cup {r}
       \/ at[p] = "awaitTasks" /\ at[Poll(r)] = "ended" /\ UNCHANGED aborted
    /\ Goto(p, "ended")
    /\ UNCHANGED <<startup, initLock, handle, shuttingDown, run, events, leaked>>

-----------------------------------------------------------------------------
(* The poller and the event callback.                                      *)

PollWakes(r) ==
    /\ at[Poll(r)] \in {"start", "sleep"}
    /\ IF at[Poll(r)] = "sleep" /\ r \in cancelled
       THEN Goto(Poll(r), "ended") /\ UNCHANGED <<attempted, passing, step, task, handle>>
       ELSE Ensure(Poll(r))
    /\ UNCHANGED <<initialized, derived, completed, initLock, shuttingDown, run,
                   events, faults, leaked, aborted>>

PollSubmits(r) ==
    /\ at[Poll(r)] = "ready"
    /\ Goto(Poll(r), IF r \in cancelled THEN "sleep" ELSE "submit")
    /\ UNCHANGED <<startup, initLock, handle, shuttingDown, run, events, faults, leaked, aborted>>

(* The cycle is over; the wallet may have turned out not whitelisted.      *)
PollSubmitted(r) ==
    /\ at[Poll(r)] = "submit"
    /\ Goto(Poll(r), "sleep")
    /\ \/ UNCHANGED <<cancelled, faults>>
       \/ StopCurrent /\ Fault
    /\ UNCHANGED <<startup, initLock, handle, shuttingDown, ctx, queue, ids, held,
                   events, leaked, aborted>>

(* The poller meets its cancellation: stop(), of whatever run is current,  *)
(* except in the _ensure_initialized before its loop.                      *)
PollCancelled(r) ==
    /\ at[Poll(r)] = "cancelled"
    /\ Goto(Poll(r), "ended")
    /\ StopCurrent \/ UNCHANGED cancelled
    /\ UNCHANGED <<startup, initLock, handle, shuttingDown, ctx, queue, ids, held,
                   events, faults, leaked, aborted>>

EventArrives ==
    /\ at[Event] = "none" /\ held # {} /\ events < NEvents
    /\ events' = events + 1
    /\ Ensure(Event)
    /\ UNCHANGED <<initialized, derived, completed, initLock, shuttingDown, run,
                   faults, leaked, aborted>>

EventSubmits ==
    /\ at[Event] = "ready"
    /\ Goto(Event, IF ctx = 0 \/ ctx \in cancelled THEN "none" ELSE "submit")
    /\ UNCHANGED <<startup, initLock, handle, shuttingDown, run, events, faults, leaked, aborted>>

EventSubmitted ==
    /\ at[Event] = "submit"
    /\ Goto(Event, "none")
    /\ UNCHANGED <<startup, initLock, handle, shuttingDown, run, events, faults, leaked, aborted>>

-----------------------------------------------------------------------------
Advance(r) ==
    \/ Begin(r) \/ UseCaseReady(r) \/ Subscribed(r) \/ LoopEnds(r)
    \/ CleanupStarts(r) \/ RetryAwaited(r) \/ Unsubscribe(r) \/ Unsubscribed(r)
    \/ TasksAwaited(r) \/ FirstPassStep(r)

PollAdvance(r) == PollWakes(r) \/ PollSubmits(r) \/ PollSubmitted(r) \/ PollCancelled(r)
TaskAdvance(t) == TaskStarts(t) \/ TaskStep(t)
Essentials(p)  == TakeInitLock(p) \/ EssentialsResolve(p)

Next ==
    \/ \E r \in Runs :
         \/ Call(r) \/ Advance(r) \/ PollAdvance(r)
         \/ EssentialsFail(r) \/ UseCaseFails(r) \/ TimesOut(r) \/ CancelRun(r)
         \/ CleanupCancelled(r)
    \/ \E t \in Tasks : TaskAdvance(t)
    \/ \E p \in Procs : Essentials(p)
    \/ Stop \/ EventArrives \/ EventSubmits \/ EventSubmitted

(* The event loop runs what is ready, and every await ends: RPCs have      *)
(* deadlines, a submission its hold timeout, a faucet pass its retries.    *)
Fairness ==
    /\ \A r \in Runs : WF_vars(Advance(r)) /\ WF_vars(PollAdvance(r))
    /\ \A t \in Tasks : WF_vars(TaskAdvance(t))
    /\ \A p \in Procs : WF_vars(Essentials(p))
    /\ WF_vars(EventSubmits \/ EventSubmitted)

Spec == Init /\ [][Next]_vars /\ Fairness

-----------------------------------------------------------------------------
NoRetry == \A t \in Tasks : task[t] \in {"none", "done"}

(* What a run whose cleanup was cancelled has left on record.              *)
Abandoned == aborted \X (1..NSubs)

(* When no run is in progress, nothing a run started is left: no detached  *)
(* retry, unless the last run() was cancelled before its cleanup covers it *)
(* (_cleanup and _shutting_down); no poller, unless the cleanup of its run *)
(* was itself cancelled amid the unsubscribes; and no subscription but one *)
(* whose subscribe call was interrupted, or one of such a cleanup, which   *)
(* is then still on record for the next cleanup to release.                *)
NothingOutlivesRuns ==
    (\A r \in Runs : Over(r)) =>
        /\ shuttingDown => NoRetry
        /\ \A r \in Runs \ aborted : at[Poll(r)] \in {"none", "ended"}
        /\ held \subseteq leaked \cup ids
        /\ ids \subseteq Abandoned

(* "A detached retry must not outlive the worker", however the runs ended, *)
(* as long as no cleanup was cancelled, after which the context stays      *)
(* (test_worker_init_resilience.py; _cleanup's comments).                  *)
RetryEndsWithWorker ==
    (\A r \in Runs : Over(r)) /\ aborted = {} /\ ctx = 0 => NoRetry

(* A run that yields results owns the worker, whatever earlier runs did to *)
(* end, their cleanups cancelled included: context and queue are its own,  *)
(* its subscriptions are all on record and held, and so are no others but  *)
(* those of cancelled cleanups, which its own cleanup will then release.   *)
RunOwnsWorker ==
    \A r \in Runs : at[Main(r)] = "loop" =>
        /\ ctx = r /\ queue = r
        /\ ids \ Abandoned = {r} \X (1..NSubs)
        /\ held \ (leaked \cup Abandoned) = {r} \X (1..NSubs)
        /\ held \subseteq leaked \cup ids

(* While a run goes on, its startup steps are retried until they have      *)
(* succeeded: also after a cancelled first pass, a cancelled retry or a    *)
(* restart (_optional_steps_attempted, _optional_steps_running and         *)
(* _shutting_down are reset or latched just so).                           *)
StepsAreRetried ==
    []<>(Done \/ \A r \in Runs : at[Main(r)] # "loop" \/ r \in cancelled)
=============================================================================
