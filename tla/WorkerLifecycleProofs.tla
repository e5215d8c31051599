------------------------- MODULE WorkerLifecycleProofs -------------------------
(***************************************************************************)
(* The life of a worker whose runs do not overlap, for any number of runs, *)
(* startup steps, subscriptions, retries, events and faults: types, what   *)
(* is left when no run is in progress, and what a run owns.                *)
(***************************************************************************)
EXTENDS WorkerLifecycle, WellFoundedInduction, TLAPS

-----------------------------------------------------------------------------
(* Where the processes are.                                                *)

Starting == {"first", "again", "query", "requery", "steps", "ready"}
Subbing  == {"sub", "loop", "cleanup", "awaitRetry", "unsub"}
Owning   == {"initialize", "awaitTasks"} \cup Subbing
Gone     == {"cleanup", "awaitRetry", "unsub", "awaitTasks", "ended"}
Before   == {"none", "initialize"} \cup Starting

MainAt  == {"none", "ended"} \cup Starting \cup Owning
PollAt  == {"none", "ended", "again", "requery", "ready", "start", "sleep", "submit", "cancelled"}
EventAt == {"none", "again", "requery", "ready", "submit"}

PlaceInv ==
    /\ DOMAIN at = Procs
    /\ \A r \in Runs : at[Main(r)] \in MainAt /\ at[Poll(r)] \in PollAt
    /\ at[Event] \in EventAt

AtInv == at = [p \in DOMAIN at |-> at[p]]

(* One run at a time, and a poller within its run, unless the cleanup of   *)
(* that run was cancelled.                                                 *)
RunInv ==
    /\ \A r, q \in Runs : ~Over(r) /\ ~Over(q) => r = q
    /\ aborted \subseteq Runs
    /\ \A r \in aborted : at[Main(r)] = "ended"
    /\ \A r \in Runs \ aborted : at[Poll(r)] \notin {"none", "ended"} =>
           at[Main(r)] \in {"sub", "loop", "cleanup", "awaitRetry", "unsub", "awaitTasks"}

Locked(p) == at[p] \in {"query", "requery"}

(* The lock is held by one process.                                        *)
LockInv ==
    /\ initLock <=> \E p \in Procs : Locked(p)
    /\ \A p, q \in Procs : Locked(p) /\ Locked(q) => p = q

(* What shows that the first pass was attempted.                           *)
Tried ==
    \/ \E r \in Runs : at[Main(r)] \in {"steps", "ready"} \cup Owning \/ at[Poll(r)] # "none"
    \/ at[Event] # "none" \/ held # {}
    \/ \E t \in Tasks : task[t] # "none"
    \/ passing \/ completed # {}

StartInv ==
    /\ completed \subseteq Steps
    /\ Tried => attempted
    /\ attempted => initialized
    /\ \A r \in Runs : at[Main(r)] = "again" => initialized

(* One pass of the startup steps at a time, by a run or a retry task.      *)
PassInv ==
    /\ step \in [Passers -> 0..NSteps]
    /\ passing <=> \E p \in Passers : step[p] # 0
    /\ \A p, q \in Passers : step[p] # 0 /\ step[q] # 0 => p = q
    /\ \A r \in Runs : step[Main(r)] # 0 <=> at[Main(r)] = "steps"
    /\ \A t \in Tasks : step[Task(t)] # 0 <=> task[t] = "passing"

(* A live retry is the one on record, and none is alive from cleanup on.   *)
TaskInv ==
    /\ task \in [Tasks -> {"none", "created", "passing", "done"}]
    /\ handle \in 0..NTasks
    /\ \A t \in Tasks : task[t] \in {"created", "passing"} => handle = t
    /\ shuttingDown => NoRetry
    /\ \A r \in Runs : at[Main(r)] \in {"awaitRetry", "unsub", "awaitTasks"} => shuttingDown

(* The context and the queue are those of the run that goes on.            *)
OwnInv ==
    /\ ctx \in 0..NRuns /\ queue \in 0..NRuns
    /\ \A r \in Runs : at[Main(r)] \in Owning => ctx = r /\ queue = r

(* The first k - 1 subscriptions of a run are on record, and the k-th is being stored. *)
Given(r, k) == \A j \in 1..NSubs : (<<r, j>> \in ids <=> j < k) /\ (<<r, j>> \in held <=> j <= k)

(* The subscriptions on record, and those held: none before a run          *)
(* subscribes, what it has been given while it does, all of them in its    *)
(* loop, and after it those a cancelled cleanup left on record.            *)
SubInv ==
    /\ ids \subseteq Ids /\ held \subseteq Ids /\ leaked \subseteq Ids
    /\ \A r \in Runs, k \in 1..NSubs :
          /\ <<r, k>> \in leaked => at[Main(r)] \in Gone
          /\ at[Main(r)] \in Before => <<r, k>> \notin ids /\ <<r, k>> \notin held
          /\ at[Main(r)] \in {"awaitTasks", "ended"} /\ <<r, k>> \in ids => r \in aborted
          /\ at[Main(r)] # "sub" /\ <<r, k>> \in held => <<r, k>> \in leaked \/ <<r, k>> \in ids
          /\ at[Main(r)] = "loop" => <<r, k>> \in ids /\ <<r, k>> \in held
    /\ \A r \in Runs : at[Main(r)] = "sub" => \E k \in 1..NSubs : Given(r, k)

FlagInv ==
    /\ initialized \in BOOLEAN /\ derived \in BOOLEAN /\ attempted \in BOOLEAN
    /\ passing \in BOOLEAN /\ initLock \in BOOLEAN /\ shuttingDown \in BOOLEAN

CountInv == cancelled \subseteq Runs /\ events \in 0..NEvents /\ faults \in 0..MaxFaults

IInv ==
    /\ PlaceInv /\ AtInv /\ RunInv /\ LockInv /\ StartInv /\ PassInv /\ TaskInv
    /\ OwnInv /\ SubInv /\ FlagInv /\ CountInv

-----------------------------------------------------------------------------
(* Names.                                                                  *)

(* Processes and passers are told apart by their names.                    *)
LEMMA Names ==
    /\ \A r \in Runs : Main(r) \in Procs /\ Poll(r) \in Procs /\ Main(r) \in Passers /\ Main(r) \in Mains
    /\ \A t \in Tasks : Task(t) \in Passers
    /\ Event \in Procs /\ Event \notin Mains
    /\ \A r, q \in Runs : Main(r) # Poll(q) /\ (Main(r) = Main(q) => r = q) /\ (Poll(r) = Poll(q) => r = q)
    /\ \A r \in Runs : Main(r) # Event /\ Poll(r) # Event
    /\ \A r \in Runs, t \in Tasks : Main(r) # Task(t)
    /\ \A t, u \in Tasks : Task(t) = Task(u) => t = u
    /\ \A p \in Procs : p = Event \/ \E r \in Runs : p = Main(r) \/ p = Poll(r)
    /\ \A p \in Passers : (\E r \in Runs : p = Main(r)) \/ (\E t \in Tasks : p = Task(t))
<1>1. /\ \A r \in Runs : Main(r) \in Procs /\ Poll(r) \in Procs /\ Main(r) \in Passers /\ Main(r) \in Mains
      /\ \A t \in Tasks : Task(t) \in Passers
      /\ Event \in Procs
      /\ \A p \in Procs : p = Event \/ \E r \in Runs : p = Main(r) \/ p = Poll(r)
      /\ \A p \in Passers : (\E r \in Runs : p = Main(r)) \/ (\E t \in Tasks : p = Task(t))
  BY DEF Procs, Passers, Mains, Polls, Task
<1>2. /\ \A r, q \in Runs : Main(r) # Poll(q) /\ (Main(r) = Main(q) => r = q) /\ (Poll(r) = Poll(q) => r = q)
      /\ \A r \in Runs : Main(r) # Event /\ Poll(r) # Event
      /\ \A r \in Runs, t \in Tasks : Main(r) # Task(t)
      /\ \A t, u \in Tasks : Task(t) = Task(u) => t = u
  BY DEF Main, Poll, Event, Task
<1>3. Event \notin Mains
  BY <1>2 DEF Mains
<1> QED BY <1>1, <1>2, <1>3

(* The bounds are numbers.                                                 *)
LEMMA Bounds ==
    /\ NRuns \in Nat /\ NRuns > 0 /\ NSteps \in Nat /\ NSteps > 0 /\ NSubs \in Nat /\ NSubs > 0
    /\ NTasks \in Nat /\ NEvents \in Nat /\ MaxFaults \in Nat
    /\ \A r \in Runs : r \in Nat /\ r > 0 /\ r <= NRuns
    /\ \A s \in Steps : s \in Nat /\ s > 0 /\ s <= NSteps
    /\ \A t \in Tasks : t \in Nat /\ t > 0 /\ t <= NTasks
BY LifecycleAssumption DEF Runs, Steps, Tasks

(* A set of numbers has a lowest one.                                      *)
LEMMA LowestExists ==
    ASSUME NEW S \in SUBSET Nat, S # {}
    PROVE  Lowest(S) \in S /\ \A n \in S : Lowest(S) <= n
<1>1. PICK x \in S : \A y \in S : ~(<<y, x>> \in OpToRel(<, Nat))
  BY NatLessThanWellFounded, WFMin
<1>2. ASSUME NEW y \in S PROVE x <= y
  <2>1. x \in Nat /\ y \in Nat
    OBVIOUS
  <2>2. y < x => <<y, x>> \in OpToRel(<, Nat)
    BY <2>1, Zenon DEF OpToRel
  <2>3. ~(y < x)
    BY <1>1, <2>2, Zenon
  <2> QED BY <2>1, <2>3
<1> QED BY <1>2 DEF Lowest

(* A pass begins with one of the steps.                                    *)
LEMMA EntersStep ==
    ASSUME completed \subseteq Steps, ~Done, NEW p, Enters(p)
    PROVE  passing' = TRUE /\ \E s \in Steps : step' = [step EXCEPT ![p] = s]
<1> DEFINE S == Incomplete(1)
<1>1. S # {} /\ S \in SUBSET Nat /\ S \subseteq Steps
  BY Bounds DEF Done, Incomplete
<1>2. Lowest(S) \in Steps
  BY <1>1, LowestExists
<1> QED BY <1>2, Zenon DEF Enters

(* It goes on with another, or is left.                                    *)
LEMMA StepEndsStep ==
    ASSUME completed \subseteq Steps, NEW p, step[p] \in Steps, StepEnds(p)
    PROVE  /\ completed' \subseteq Steps
           /\ (UNCHANGED faults) \/ Fault
           /\ \/ passing' = FALSE /\ step' = [step EXCEPT ![p] = 0]
              \/ (UNCHANGED passing) /\ \E s \in Steps : step' = [step EXCEPT ![p] = s]
<1> DEFINE S == Incomplete(step[p] + 1)
<1>1. completed' \subseteq Steps /\ ((UNCHANGED faults) \/ Fault)
  BY DEF StepEnds
<1>2. CASE S = {}
  BY <1>1, <1>2 DEF StepEnds, Leaves
<1>3. CASE S # {}
  <2>1. S \in SUBSET Nat /\ S \subseteq Steps
    BY Bounds DEF Incomplete
  <2>2. Lowest(S) \in Steps
    BY <1>3, <2>1, LowestExists
  <2>3. UNCHANGED passing /\ step' = [step EXCEPT ![p] = Lowest(S)]
    BY <1>3, Zenon DEF StepEnds
  <2> QED BY <1>1, <2>2, <2>3
<1> QED BY <1>2, <1>3

(* A retry task is created.                                                *)
Spawned ==
    /\ ~shuttingDown /\ ~Live(handle)
    /\ \E t \in Tasks : task[t] = "none" /\ handle' = t /\ task' = [task EXCEPT ![t] = "created"]

(* What _run_startup_steps_once may do.                                    *)
Skips(p)   == Goto(p, "ready") /\ (Done \/ passing \/ attempted) /\ UNCHANGED <<task, handle>>
Retries(p) == Goto(p, "ready") /\ attempted /\ Spawned
Begins(p)  ==
    /\ ~attempted /\ ~Done /\ passing = FALSE
    /\ attempted' = TRUE /\ passing' = TRUE
    /\ \E s \in Steps : step' = [step EXCEPT ![p] = s]
    /\ Goto(p, "steps") /\ UNCHANGED <<task, handle>>

(* What a call of it comes to.                                             *)
StepsOnceDoes(p) ==
    \/ (Skips(p) \/ Retries(p)) /\ UNCHANGED <<attempted, passing, step>>
    \/ Begins(p)

(* It does one of these.                                                   *)
LEMMA StepsOnceCases ==
    ASSUME completed \subseteq Steps, passing \in BOOLEAN, NEW p, StepsOnce(p)
    PROVE  StepsOnceDoes(p)
<1>1. CASE Done \/ passing
  BY <1>1, Zenon DEF StepsOnce, StepsOnceDoes, Skips
<1>2. CASE ~(Done \/ passing) /\ attempted
  <2>1. Goto(p, "ready") /\ Spawn /\ UNCHANGED <<attempted, passing, step>>
    BY <1>2, Zenon DEF StepsOnce
  <2>2. (UNCHANGED <<task, handle>>) \/ Spawned
    BY <2>1, Zenon DEF Spawn, Spawned
  <2> QED BY <1>2, <2>1, <2>2, Zenon DEF StepsOnceDoes, Skips, Retries
<1>3. CASE ~(Done \/ passing) /\ ~attempted
  <2>1. attempted' = TRUE /\ Enters(p) /\ Goto(p, "steps") /\ UNCHANGED <<task, handle>>
    BY <1>3, Zenon DEF StepsOnce
  <2>2. passing = FALSE
    BY <1>3
  <2> QED BY <1>3, <2>1, <2>2, EntersStep, Zenon DEF StepsOnceDoes, Begins
<1> QED BY <1>1, <1>2, <1>3

(* What a call of _ensure_initialized comes to.                            *)
EnsureDoes(p) ==
    \/ ~initialized /\ Goto(p, "first") /\ UNCHANGED <<attempted, passing, step, task, handle>>
    \/ initialized /\ Goto(p, "again") /\ UNCHANGED <<attempted, passing, step, task, handle>>
    \/ initialized /\ StepsOnceDoes(p)

(* It does one of these.                                                   *)
LEMMA EnsureCases ==
    ASSUME completed \subseteq Steps, passing \in BOOLEAN, NEW p, Ensure(p)
    PROVE  EnsureDoes(p)
<1>1. CASE initialized /\ derived
  BY <1>1, StepsOnceCases, Zenon DEF Ensure, EnsureDoes
<1>2. CASE ~(initialized /\ derived)
  BY <1>2, Zenon DEF Ensure, EnsureDoes
<1> QED BY <1>1, <1>2

-----------------------------------------------------------------------------
(* Each part of the invariant is kept.                                     *)

(* Every process goes on to a place of its own kind.                       *)
LEMMA PlaceInvKept ==
    ASSUME IInv, Next, ~Overlap
    PROVE  PlaceInv'
<1> USE Names, Bounds
<1>0. PlaceInv /\ StartInv
  BY DEF IInv
<1>a. \A p \in Procs : (Ensure(p) => EnsureDoes(p)) /\ (StepsOnce(p) => StepsOnceDoes(p))
  BY EnsureCases, StepsOnceCases DEF IInv, StartInv, FlagInv
<1>1. ASSUME NEW r \in Runs, Call(r) PROVE PlaceInv'
  BY <1>0, <1>a, <1>1 DEF Call, PlaceInv, MainAt, PollAt, EventAt, Starting, Subbing, Owning,
     StartInv, Tried, Over, Goto, startup, run, EnsureDoes, StepsOnceDoes, Skips, Retries,
     Begins
<1>2. ASSUME NEW r \in Runs, Advance(r) PROVE PlaceInv'
  <2>1. CASE FirstPassStep(r)
    BY <1>0, <2>1 DEF FirstPassStep, PlaceInv, MainAt, PollAt, EventAt, Starting, Subbing,
       Owning, StartInv, Tried, Over, Goto, startup, run
  <2>2. CASE ~FirstPassStep(r)
    BY <1>0, <1>2, <2>2 DEF Advance, Begin, UseCaseReady, Subscribed, LoopEnds, CleanupStarts,
       RetryAwaited, Unsubscribe, Unsubscribed, TasksAwaited, PlaceInv, MainAt, PollAt, EventAt,
       Starting, Subbing, Owning, StartInv, Tried, Over, Goto, startup, run
  <2> QED BY <2>1, <2>2
<1>3. ASSUME NEW r \in Runs, PollAdvance(r) PROVE PlaceInv'
  BY <1>0, <1>a, <1>3 DEF PollAdvance, PollWakes, PollSubmits, PollSubmitted, PollCancelled,
     PlaceInv, MainAt, PollAt, EventAt, Starting, Subbing, Owning, StartInv, Tried, Over, Goto,
     startup, run, EnsureDoes, StepsOnceDoes, Skips, Retries, Begins
<1>4. ASSUME NEW r \in Runs, EssentialsFail(r) \/ UseCaseFails(r) \/ TimesOut(r) \/ CancelRun(r)
                                \/ CleanupCancelled(r) PROVE PlaceInv'
  BY <1>0, <1>4 DEF EssentialsFail, UseCaseFails, TimesOut, CancelRun, CleanupCancelled, PlaceInv, MainAt, PollAt,
     EventAt, Starting, Subbing, Owning, StartInv, Tried, Over, Goto, startup, run
<1>5. ASSUME NEW t \in Tasks, TaskAdvance(t) PROVE PlaceInv'
  BY <1>0, <1>5 DEF TaskAdvance, TaskStarts, TaskStep, PlaceInv, MainAt, PollAt, EventAt,
     Starting, Subbing, Owning, StartInv, Tried, Over, Goto, startup, run
<1>6. ASSUME NEW p \in Procs, Essentials(p) PROVE PlaceInv'
  BY <1>0, <1>a, <1>6 DEF Essentials, TakeInitLock, EssentialsResolve, PlaceInv, MainAt, PollAt,
     EventAt, Starting, Subbing, Owning, StartInv, Tried, Over, Goto, startup, run,
     StepsOnceDoes, Skips, Retries, Begins
<1>7. ASSUME EventArrives \/ EventSubmits \/ EventSubmitted \/ Stop PROVE PlaceInv'
  BY <1>0, <1>a, <1>7 DEF EventArrives, EventSubmits, EventSubmitted, Stop, PlaceInv, MainAt,
     PollAt, EventAt, Starting, Subbing, Owning, StartInv, Tried, Over, Goto, startup, run,
     EnsureDoes, StepsOnceDoes, Skips, Retries, Begins
<1> QED BY <1>1, <1>2, <1>3, <1>4, <1>5, <1>6, <1>7 DEF Next

(* Where the processes are stays a function.                               *)
LEMMA AtInvKept ==
    ASSUME IInv, Next, ~Overlap
    PROVE  AtInv'
<1> USE Names, Bounds
<1>0. PlaceInv /\ StartInv /\ AtInv
  BY DEF IInv
<1>a. \A p \in Procs : (Ensure(p) => EnsureDoes(p)) /\ (StepsOnce(p) => StepsOnceDoes(p))
  BY EnsureCases, StepsOnceCases DEF IInv, StartInv, FlagInv
<1>1. ASSUME NEW r \in Runs, Call(r) PROVE AtInv'
  BY <1>0, <1>a, <1>1 DEF Call, AtInv, PlaceInv, Goto, startup, run, EnsureDoes, StepsOnceDoes,
     Skips, Retries, Begins
<1>2. ASSUME NEW r \in Runs, Advance(r) PROVE AtInv'
  <2>1. CASE FirstPassStep(r)
    BY <1>0, <2>1 DEF FirstPassStep, AtInv, PlaceInv, Goto, startup, run
  <2>2. CASE ~FirstPassStep(r)
    BY <1>0, <1>2, <2>2 DEF Advance, Begin, UseCaseReady, Subscribed, LoopEnds, CleanupStarts,
       RetryAwaited, Unsubscribe, Unsubscribed, TasksAwaited, AtInv, PlaceInv, Goto, startup,
       run
  <2> QED BY <2>1, <2>2
<1>3. ASSUME NEW r \in Runs, PollAdvance(r) PROVE AtInv'
  BY <1>0, <1>a, <1>3 DEF PollAdvance, PollWakes, PollSubmits, PollSubmitted, PollCancelled,
     AtInv, PlaceInv, Goto, startup, run, EnsureDoes, StepsOnceDoes, Skips, Retries, Begins
<1>4. ASSUME NEW r \in Runs, EssentialsFail(r) \/ UseCaseFails(r) \/ TimesOut(r) \/ CancelRun(r)
                                \/ CleanupCancelled(r) PROVE AtInv'
  BY <1>0, <1>4 DEF EssentialsFail, UseCaseFails, TimesOut, CancelRun, CleanupCancelled, AtInv, PlaceInv, Goto,
     startup, run
<1>5. ASSUME NEW t \in Tasks, TaskAdvance(t) PROVE AtInv'
  BY <1>0, <1>5 DEF TaskAdvance, TaskStarts, TaskStep, AtInv, PlaceInv, Goto, startup, run
<1>6. ASSUME NEW p \in Procs, Essentials(p) PROVE AtInv'
  BY <1>0, <1>a, <1>6 DEF Essentials, TakeInitLock, EssentialsResolve, AtInv, PlaceInv, Goto,
     startup, run, StepsOnceDoes, Skips, Retries, Begins
<1>7. ASSUME EventArrives \/ EventSubmits \/ EventSubmitted \/ Stop PROVE AtInv'
  BY <1>0, <1>a, <1>7 DEF EventArrives, EventSubmits, EventSubmitted, Stop, AtInv, PlaceInv,
     Goto, startup, run, EnsureDoes, StepsOnceDoes, Skips, Retries, Begins
<1> QED BY <1>1, <1>2, <1>3, <1>4, <1>5, <1>6, <1>7 DEF Next

(* No second run begins, and no poller outlasts its run.                   *)
LEMMA RunInvKept ==
    ASSUME IInv, Next, ~Overlap
    PROVE  RunInv'
<1> USE Names, Bounds
<1>0. PlaceInv /\ RunInv
  BY DEF IInv
<1>a. \A p \in Procs : (Ensure(p) => EnsureDoes(p)) /\ (StepsOnce(p) => StepsOnceDoes(p))
  BY EnsureCases, StepsOnceCases DEF IInv, StartInv, FlagInv
<1>1. ASSUME NEW r \in Runs, Call(r) PROVE RunInv'
  BY <1>0, <1>a, <1>1 DEF Call, PlaceInv, MainAt, PollAt, EventAt, Starting, Subbing, Owning,
     RunInv, Over, Goto, startup, run, EnsureDoes, StepsOnceDoes, Skips, Retries, Begins
<1>2. ASSUME NEW r \in Runs, Advance(r) PROVE RunInv'
  <2>1. CASE FirstPassStep(r)
    BY <1>0, <2>1 DEF FirstPassStep, PlaceInv, MainAt, PollAt, EventAt, Starting, Subbing,
       Owning, RunInv, Over, Goto, startup, run
  <2>2. CASE ~FirstPassStep(r)
    BY <1>0, <1>2, <2>2 DEF Advance, Begin, UseCaseReady, Subscribed, LoopEnds, CleanupStarts,
       RetryAwaited, Unsubscribe, Unsubscribed, TasksAwaited, PlaceInv, MainAt, PollAt, EventAt,
       Starting, Subbing, Owning, RunInv, Over, Goto, startup, run
  <2> QED BY <2>1, <2>2
<1>3. ASSUME NEW r \in Runs, PollAdvance(r) PROVE RunInv'
  BY <1>0, <1>a, <1>3 DEF PollAdvance, PollWakes, PollSubmits, PollSubmitted, PollCancelled,
     PlaceInv, MainAt, PollAt, EventAt, Starting, Subbing, Owning, RunInv, Over, Goto, startup,
     run, EnsureDoes, StepsOnceDoes, Skips, Retries, Begins
<1>4. ASSUME NEW r \in Runs, EssentialsFail(r) \/ UseCaseFails(r) \/ TimesOut(r) \/ CancelRun(r)
                                \/ CleanupCancelled(r) PROVE RunInv'
  BY <1>0, <1>4 DEF EssentialsFail, UseCaseFails, TimesOut, CancelRun, CleanupCancelled, PlaceInv, MainAt, PollAt,
     EventAt, Starting, Subbing, Owning, RunInv, Over, Goto, startup, run
<1>5. ASSUME NEW t \in Tasks, TaskAdvance(t) PROVE RunInv'
  BY <1>0, <1>5 DEF TaskAdvance, TaskStarts, TaskStep, PlaceInv, MainAt, PollAt, EventAt,
     Starting, Subbing, Owning, RunInv, Over, Goto, startup, run
<1>6. ASSUME NEW p \in Procs, Essentials(p) PROVE RunInv'
  BY <1>0, <1>a, <1>6 DEF Essentials, TakeInitLock, EssentialsResolve, PlaceInv, MainAt, PollAt,
     EventAt, Starting, Subbing, Owning, RunInv, Over, Goto, startup, run, StepsOnceDoes, Skips,
     Retries, Begins
<1>7. ASSUME EventArrives \/ EventSubmits \/ EventSubmitted \/ Stop PROVE RunInv'
  BY <1>0, <1>a, <1>7 DEF EventArrives, EventSubmits, EventSubmitted, Stop, PlaceInv, MainAt,
     PollAt, EventAt, Starting, Subbing, Owning, RunInv, Over, Goto, startup, run, EnsureDoes,
     StepsOnceDoes, Skips, Retries, Begins
<1> QED BY <1>1, <1>2, <1>3, <1>4, <1>5, <1>6, <1>7 DEF Next

(* Context and queue are set by a run that begins, and cleared by one that ends. *)
LEMMA OwnInvKept ==
    ASSUME IInv, Next, ~Overlap
    PROVE  OwnInv'
<1> USE Names, Bounds
<1>0. PlaceInv /\ RunInv /\ OwnInv
  BY DEF IInv
<1>a. \A p \in Procs : (Ensure(p) => EnsureDoes(p)) /\ (StepsOnce(p) => StepsOnceDoes(p))
  BY EnsureCases, StepsOnceCases DEF IInv, StartInv, FlagInv
<1>1. ASSUME NEW r \in Runs, Call(r) PROVE OwnInv'
  BY <1>0, <1>a, <1>1 DEF Call, PlaceInv, MainAt, RunInv, OwnInv, Starting, Subbing, Owning,
     Over, Goto, startup, run, EnsureDoes, StepsOnceDoes, Skips, Retries, Begins
<1>2. ASSUME NEW r \in Runs, Advance(r) PROVE OwnInv'
  <2>1. CASE FirstPassStep(r)
    BY <1>0, <2>1 DEF FirstPassStep, PlaceInv, MainAt, RunInv, OwnInv, Starting, Subbing,
       Owning, Over, Goto, startup, run
  <2>2. CASE ~FirstPassStep(r)
    BY <1>0, <1>2, <2>2 DEF Advance, Begin, UseCaseReady, Subscribed, LoopEnds, CleanupStarts,
       RetryAwaited, Unsubscribe, Unsubscribed, TasksAwaited, PlaceInv, MainAt, RunInv, OwnInv,
       Starting, Subbing, Owning, Over, Goto, startup, run
  <2> QED BY <2>1, <2>2
<1>3. ASSUME NEW r \in Runs, PollAdvance(r) PROVE OwnInv'
  BY <1>0, <1>a, <1>3 DEF PollAdvance, PollWakes, PollSubmits, PollSubmitted, PollCancelled,
     PlaceInv, MainAt, RunInv, OwnInv, Starting, Subbing, Owning, Over, Goto, startup, run,
     EnsureDoes, StepsOnceDoes, Skips, Retries, Begins
<1>4. ASSUME NEW r \in Runs, EssentialsFail(r) \/ UseCaseFails(r) \/ TimesOut(r) \/ CancelRun(r)
                                \/ CleanupCancelled(r) PROVE OwnInv'
  BY <1>0, <1>4 DEF EssentialsFail, UseCaseFails, TimesOut, CancelRun, CleanupCancelled, PlaceInv, MainAt, RunInv,
     OwnInv, Starting, Subbing, Owning, Over, Goto, startup, run
<1>5. ASSUME NEW t \in Tasks, TaskAdvance(t) PROVE OwnInv'
  BY <1>0, <1>5 DEF TaskAdvance, TaskStarts, TaskStep, PlaceInv, MainAt, RunInv, OwnInv,
     Starting, Subbing, Owning, Over, Goto, startup, run
<1>6. ASSUME NEW p \in Procs, Essentials(p) PROVE OwnInv'
  BY <1>0, <1>a, <1>6 DEF Essentials, TakeInitLock, EssentialsResolve, PlaceInv, MainAt, RunInv,
     OwnInv, Starting, Subbing, Owning, Over, Goto, startup, run, StepsOnceDoes, Skips, Retries,
     Begins
<1>7. ASSUME EventArrives \/ EventSubmits \/ EventSubmitted \/ Stop PROVE OwnInv'
  BY <1>0, <1>a, <1>7 DEF EventArrives, EventSubmits, EventSubmitted, Stop, PlaceInv, MainAt,
     RunInv, OwnInv, Starting, Subbing, Owning, Over, Goto, startup, run, EnsureDoes,
     StepsOnceDoes, Skips, Retries, Begins
<1> QED BY <1>1, <1>2, <1>3, <1>4, <1>5, <1>6, <1>7 DEF Next

(* A process that does not hold the lock moves without it, takes it, or a  *)
(* process that holds it gives it up.                                      *)
LEMMA LockMoves ==
    ASSUME LockInv, initLock \in BOOLEAN, DOMAIN at = Procs, NEW p \in Procs, NEW x, at' = [at EXCEPT ![p] = x],
           \/ x \notin {"query", "requery"} /\ ~Locked(p) /\ UNCHANGED initLock
           \/ x \notin {"query", "requery"} /\ Locked(p) /\ initLock' = FALSE
           \/ x \in {"query", "requery"} /\ ~initLock /\ initLock' = TRUE
    PROVE  LockInv'
<1>1. Locked(p)' <=> x \in {"query", "requery"}
  BY DEF Locked
<1>2. \A q \in Procs : q # p => (Locked(q)' <=> Locked(q))
  BY DEF Locked
<1>3. \A q, s \in Procs : Locked(q)' /\ Locked(s)' => q = s
  BY <1>1, <1>2 DEF LockInv
<1>4. initLock' <=> \E q \in Procs : Locked(q)'
  BY <1>1, <1>2 DEF LockInv
<1> QED BY <1>3, <1>4 DEF LockInv

(* The lock has one holder, or none.                                       *)
LEMMA LockInvKept ==
    ASSUME IInv, Next, ~Overlap
    PROVE  LockInv'
<1> USE Names, Bounds
<1>a. \A p \in Procs : (Ensure(p) => EnsureDoes(p)) /\ (StepsOnce(p) => StepsOnceDoes(p))
  BY EnsureCases, StepsOnceCases DEF IInv, StartInv, FlagInv
<1>0. PlaceInv /\ RunInv /\ LockInv /\ DOMAIN at = Procs /\ initLock \in BOOLEAN
  BY DEF IInv, PlaceInv, FlagInv
<1>b. (UNCHANGED <<at, initLock>>) => LockInv'
  BY <1>0 DEF LockInv, Locked
<1>1. ASSUME NEW r \in Runs, Call(r) PROVE LockInv'
  <2>1. ~Locked(Main(r)) /\ UNCHANGED initLock /\ EnsureDoes(Main(r))
    BY <1>a, <1>1 DEF Call, Locked
  <2> QED BY <1>0, <2>1, LockMoves DEF Goto, EnsureDoes, StepsOnceDoes, Skips, Retries, Begins
<1>2. ASSUME NEW r \in Runs, Advance(r) PROVE LockInv'
  <2>1. CASE UseCaseReady(r)
    <3>1. \A q \in Procs : Locked(q)' <=> Locked(q)
      BY <1>0, <2>1 DEF UseCaseReady, RunInv, Locked
    <3>2. UNCHANGED initLock
      BY <2>1 DEF UseCaseReady
    <3> QED BY <1>0, <3>1, <3>2 DEF LockInv
  <2>4. CASE Unsubscribed(r)
    <3>1. at[Poll(r)] # "query"
      BY <1>0 DEF PlaceInv, PollAt
    <3>2. \A q \in Procs : Locked(q)' <=> Locked(q) /\ q # Poll(r)
      BY <1>0, <2>4 DEF Unsubscribed, Locked
    <3>3. initLock' = (initLock /\ at[Poll(r)] # "requery")
      BY <2>4 DEF Unsubscribed
    <3>4. initLock' <=> \E q \in Procs : Locked(q)'
      <4>1. Locked(Poll(r)) <=> at[Poll(r)] = "requery"
        BY <3>1 DEF Locked
      <4>2. initLock' <=> initLock /\ ~Locked(Poll(r))
        BY <3>3, <4>1
      <4> QED BY <1>0, <3>2, <4>2 DEF LockInv
    <3> QED BY <1>0, <3>2, <3>4 DEF LockInv
  <2>2. CASE FirstPassStep(r)
    BY <1>0, <1>b, <2>2, LockMoves DEF FirstPassStep, Locked, Goto
  <2>3. CASE \/ Begin(r) \/ Subscribed(r) \/ LoopEnds(r) \/ CleanupStarts(r)
             \/ RetryAwaited(r) \/ Unsubscribe(r) \/ TasksAwaited(r)
    BY <1>0, <1>b, <2>3, LockMoves
       DEF Begin, Subscribed, LoopEnds, CleanupStarts, RetryAwaited, Unsubscribe, TasksAwaited, Locked, Goto
  <2> QED BY <1>2, <2>1, <2>2, <2>3, <2>4 DEF Advance
<1>3. ASSUME NEW r \in Runs, PollAdvance(r) PROVE LockInv'
  BY <1>0, <1>a, <1>3, LockMoves
     DEF PollAdvance, PollWakes, PollSubmits, PollSubmitted, PollCancelled, Locked, Goto, EnsureDoes, StepsOnceDoes, Skips, Retries, Begins
<1>4. ASSUME NEW r \in Runs, EssentialsFail(r) \/ UseCaseFails(r) \/ TimesOut(r) \/ CancelRun(r)
                                \/ CleanupCancelled(r) PROVE LockInv'
  <2>1. CASE EssentialsFail(r) \/ UseCaseFails(r) \/ TimesOut(r) \/ CleanupCancelled(r)
    BY <1>0, <2>1, LockMoves DEF EssentialsFail, UseCaseFails, TimesOut, CleanupCancelled, Locked, Goto
  <2>2. CASE CancelRun(r)
    <3>1. at[Main(r)] \in {"query", "requery"} => initLock' = FALSE
      BY <2>2 DEF CancelRun
    <3>2. at[Main(r)] \notin {"query", "requery"} => initLock' = initLock
      BY <1>0, <2>2 DEF CancelRun
    <3>3. \E x \in {"cleanup", "ended"} : at' = [at EXCEPT ![Main(r)] = x]
      BY <2>2 DEF CancelRun, Goto
    <3> QED BY <1>0, <3>1, <3>2, <3>3, LockMoves DEF Locked
  <2> QED BY <1>4, <2>1, <2>2
<1>5. ASSUME NEW t \in Tasks, TaskAdvance(t) PROVE LockInv'
  BY <1>b, <1>5 DEF TaskAdvance, TaskStarts, TaskStep
<1>6. ASSUME NEW p \in Procs, Essentials(p) PROVE LockInv'
  <2>1. CASE TakeInitLock(p)
    <3>1. at[p] \in {"first", "again"} /\ ~initLock
      BY <2>1 DEF TakeInitLock
    <3>2. \/ initLock' = TRUE /\ \E x \in {"query", "requery"} : Goto(p, x)
          \/ initLock' = initLock /\ StepsOnceDoes(p)
      BY <1>a, <2>1 DEF TakeInitLock
    <3> QED BY <1>0, <3>1, <3>2, LockMoves DEF Locked, Goto, StepsOnceDoes, Skips, Retries, Begins
  <2>2. CASE EssentialsResolve(p)
    <3>1. Locked(p) /\ initLock' = FALSE /\ StepsOnceDoes(p)
      BY <1>a, <2>2 DEF EssentialsResolve, Locked
    <3> QED BY <1>0, <3>1, LockMoves DEF Goto, StepsOnceDoes, Skips, Retries, Begins
  <2> QED BY <1>6, <2>1, <2>2 DEF Essentials
<1>7. ASSUME EventArrives \/ EventSubmits \/ EventSubmitted \/ Stop PROVE LockInv'
  BY <1>0, <1>a, <1>b, <1>7, LockMoves DEF EventArrives, EventSubmits, EventSubmitted, Stop,
     Locked, Goto, EnsureDoes, StepsOnceDoes, Skips, Retries, Begins
<1> QED BY <1>1, <1>2, <1>3, <1>4, <1>5, <1>6, <1>7 DEF Next

(* Flags are flags.                                                        *)
LEMMA FlagInvKept ==
    ASSUME IInv, Next, ~Overlap
    PROVE  FlagInv'
<1> USE Names, Bounds
<1>a. \A p \in Procs : (Ensure(p) => EnsureDoes(p)) /\ (StepsOnce(p) => StepsOnceDoes(p))
  BY EnsureCases, StepsOnceCases DEF IInv, StartInv, FlagInv
<1>0. FlagInv /\ StartInv
  BY DEF IInv
<1>b. \A p : StepEnds(p) => passing' \in BOOLEAN
  BY <1>0, Zenon DEF FlagInv, StepEnds, Leaves
<1>c. \A p : StepsOnceDoes(p) => passing' \in BOOLEAN /\ attempted' \in BOOLEAN
  BY <1>0, Zenon DEF FlagInv, StepsOnceDoes, Skips, Retries, Begins
<1>d. \A p : EnsureDoes(p) => passing' \in BOOLEAN /\ attempted' \in BOOLEAN
  BY <1>0, <1>c, Zenon DEF FlagInv, EnsureDoes
<1>1. ASSUME NEW r \in Runs, Call(r) PROVE FlagInv'
  BY <1>0, <1>a, <1>d, <1>1, Zenon DEF Call, FlagInv
<1>2. ASSUME NEW r \in Runs, Advance(r) PROVE FlagInv'
  BY <1>0, <1>b, <1>2, Zenon DEF Advance, FirstPassStep, Begin, UseCaseReady, Subscribed,
     LoopEnds, CleanupStarts, RetryAwaited, Unsubscribe, Unsubscribed, TasksAwaited, Leaves,
     FlagInv, startup
<1>3. ASSUME NEW r \in Runs, PollAdvance(r) PROVE FlagInv'
  BY <1>0, <1>a, <1>d, <1>3, Zenon DEF PollAdvance, PollWakes, PollSubmits, PollSubmitted,
     PollCancelled, FlagInv, startup
<1>4. ASSUME NEW r \in Runs, EssentialsFail(r) \/ UseCaseFails(r) \/ TimesOut(r) \/ CancelRun(r)
                                \/ CleanupCancelled(r) PROVE FlagInv'
  BY <1>0, <1>4, Zenon DEF EssentialsFail, UseCaseFails, TimesOut, CancelRun, CleanupCancelled, Leaves, FlagInv,
     startup
<1>5. ASSUME NEW t \in Tasks, TaskAdvance(t) PROVE FlagInv'
  BY <1>0, <1>b, <1>5, Zenon DEF TaskAdvance, TaskStarts, TaskStep, Enters, FlagInv
<1>6. ASSUME NEW p \in Procs, Essentials(p) PROVE FlagInv'
  BY <1>0, <1>a, <1>c, <1>6, Zenon DEF Essentials, TakeInitLock, EssentialsResolve, FlagInv, startup
<1>7. ASSUME EventArrives \/ EventSubmits \/ EventSubmitted \/ Stop PROVE FlagInv'
  BY <1>0, <1>a, <1>d, <1>7, Zenon DEF EventArrives, EventSubmits, EventSubmitted, Stop,
     FlagInv, startup
<1> QED BY <1>1, <1>2, <1>3, <1>4, <1>5, <1>6, <1>7 DEF Next

(* The flag and the steps agree while nobody begins or leaves a pass.      *)
LEMMA PassUntouched ==
    ASSUME PassInv, UNCHANGED <<passing, step>>,
           \A r \in Runs : at'[Main(r)] = "steps" <=> at[Main(r)] = "steps",
           \A t \in Tasks : task'[t] = "passing" <=> task[t] = "passing"
    PROVE  PassInv'
BY DEF PassInv

(* A pass begins where there was none.                                     *)
LEMMA PassBegins ==
    ASSUME PassInv, ~passing, NEW p \in Passers, NEW s \in Steps,
           passing' = TRUE, step' = [step EXCEPT ![p] = s],
           \A r \in Runs : at'[Main(r)] = "steps" <=> at[Main(r)] = "steps" \/ Main(r) = p,
           \A t \in Tasks : task'[t] = "passing" <=> task[t] = "passing" \/ Task(t) = p
    PROVE  PassInv'
<1> USE Names, Bounds
<1>1. \A q \in Passers : step[q] = 0
  BY DEF PassInv
<1>2. step' \in [Passers -> 0..NSteps] /\ \A q \in Passers : step'[q] # 0 <=> q = p
  BY <1>1 DEF PassInv
<1> QED BY <1>1, <1>2 DEF PassInv

(* It goes on with another step.                                           *)
LEMMA PassGoesOn ==
    ASSUME PassInv, NEW p \in Passers, step[p] # 0, NEW s \in Steps,
           UNCHANGED passing, step' = [step EXCEPT ![p] = s],
           \A r \in Runs : at'[Main(r)] = "steps" <=> at[Main(r)] = "steps",
           \A t \in Tasks : task'[t] = "passing" <=> task[t] = "passing"
    PROVE  PassInv'
<1> USE Names, Bounds
<1>1. step' \in [Passers -> 0..NSteps] /\ \A q \in Passers : step'[q] # 0 <=> step[q] # 0
  BY DEF PassInv
<1> QED BY <1>1 DEF PassInv

(* It is left, and with it the only one.                                   *)
LEMMA PassEnds ==
    ASSUME PassInv, NEW p \in Passers, step[p] # 0,
           passing' = FALSE, step' = [step EXCEPT ![p] = 0],
           \A r \in Runs : at'[Main(r)] = "steps" <=> at[Main(r)] = "steps" /\ Main(r) # p,
           \A t \in Tasks : task'[t] = "passing" <=> task[t] = "passing" /\ Task(t) # p
    PROVE  PassInv'
<1> USE Names, Bounds
<1>1. \A q \in Passers : step'[q] = 0
  BY DEF PassInv
<1>2. step' \in [Passers -> 0..NSteps]
  BY DEF PassInv
<1>3. \A r \in Runs : at'[Main(r)] # "steps"
  BY DEF PassInv
<1>4. \A t \in Tasks : task'[t] # "passing"
  BY DEF PassInv
<1> QED BY <1>1, <1>2, <1>3, <1>4 DEF PassInv

(* What _run_startup_steps_once does to a pass; only a run begins one.     *)
LEMMA PassOnce ==
    ASSUME PlaceInv, PassInv, TaskInv, NEW p \in Procs, at[p] # "steps", p \in Mains \/ attempted, StepsOnceDoes(p)
    PROVE  PassInv'
<1> USE Names, Bounds
<1>0. DOMAIN at = Procs
  BY DEF PlaceInv
<1>1. CASE Skips(p) /\ UNCHANGED <<passing, step>>
  BY <1>0, <1>1, PassUntouched DEF Skips, Goto
<1>2. CASE Retries(p) /\ UNCHANGED <<passing, step>>
  <2>1. \A t \in Tasks : task'[t] = "passing" <=> task[t] = "passing"
    BY <1>2 DEF Retries, Spawned, TaskInv
  <2>2. \A r \in Runs : at'[Main(r)] = "steps" <=> at[Main(r)] = "steps"
    BY <1>0, <1>2 DEF Retries, Goto
  <2> QED BY <1>2, <2>1, <2>2, PassUntouched
<1>3. CASE Begins(p)
  <2>1. PICK r \in Runs : p = Main(r)
    BY <1>3 DEF Begins, Mains
  <2>2. PICK s \in Steps : step' = [step EXCEPT ![p] = s]
    BY <1>3 DEF Begins
  <2>3. ~passing /\ passing' = TRUE /\ UNCHANGED task /\ at' = [at EXCEPT ![p] = "steps"]
    BY <1>3 DEF Begins, Goto
  <2>4. \A q \in Runs : at'[Main(q)] = "steps" <=> at[Main(q)] = "steps" \/ Main(q) = p
    BY <1>0, <2>3
  <2>5. \A t \in Tasks : task'[t] = "passing" <=> task[t] = "passing" \/ Task(t) = p
    BY <2>1, <2>3
  <2> QED BY <2>1, <2>2, <2>3, <2>4, <2>5, PassBegins
<1> QED BY <1>1, <1>2, <1>3 DEF StepsOnceDoes

(* There is one pass at a time, and the flag says so.                      *)
LEMMA PassInvKept ==
    ASSUME IInv, Next, ~Overlap
    PROVE  PassInv'
<1> USE Names, Bounds
<1>a. \A p \in Procs : (Ensure(p) => EnsureDoes(p)) /\ (StepsOnce(p) => StepsOnceDoes(p))
  BY EnsureCases, StepsOnceCases DEF IInv, StartInv, FlagInv
<1>0. PlaceInv /\ StartInv /\ PassInv /\ TaskInv /\ DOMAIN at = Procs /\ completed \subseteq Steps
  BY DEF IInv, PlaceInv, StartInv
<1>b. ASSUME NEW p \in Procs, NEW x, at' = [at EXCEPT ![p] = x], x # "steps", at[p] # "steps",
             UNCHANGED <<passing, step, task>>
      PROVE  PassInv'
  BY <1>0, <1>b, PassUntouched
<1>c. ASSUME UNCHANGED <<at, passing, step, task>> PROVE PassInv'
  <2>1. /\ UNCHANGED <<passing, step>>
        /\ \A r \in Runs : at'[Main(r)] = at[Main(r)]
        /\ \A t \in Tasks : task'[t] = task[t]
    BY <1>c, Zenon
  <2> QED BY <1>0, <2>1, PassUntouched
<1>d. ASSUME NEW p \in Procs, at[p] # "steps", p \in Mains \/ attempted, EnsureDoes(p) PROVE PassInv'
  BY <1>0, <1>b, <1>d, PassOnce DEF EnsureDoes, Goto
<1>1. ASSUME NEW r \in Runs, Call(r) PROVE PassInv'
  BY <1>a, <1>d, <1>1 DEF Call
<1>2. ASSUME NEW r \in Runs, Advance(r) PROVE PassInv'
  <2>1. CASE FirstPassStep(r)
    <3> DEFINE p == Main(r)
    <3>1. p \in Passers /\ step[p] # 0 /\ step[p] \in Steps /\ UNCHANGED task
      BY <1>0, <2>1 DEF FirstPassStep, PassInv, Steps
    <3>2. \/ passing' = FALSE /\ step' = [step EXCEPT ![p] = 0]
          \/ UNCHANGED passing /\ \E s \in Steps : step' = [step EXCEPT ![p] = s]
      BY <1>0, <2>1, <3>1, StepEndsStep DEF FirstPassStep
    <3>3. at' = IF step'[p] = 0 THEN [at EXCEPT ![p] = "ready"] ELSE at
      BY <2>1 DEF FirstPassStep, Goto
    <3>4. \A t \in Tasks : Task(t) # p
      OBVIOUS
    <3> HIDE DEF p
    <3>5. CASE passing' = FALSE /\ step' = [step EXCEPT ![p] = 0]
      <4>1. \A q \in Runs : at'[Main(q)] = "steps" <=> at[Main(q)] = "steps" /\ Main(q) # p
        BY <1>0, <3>1, <3>3, <3>5 DEF PassInv, p
      <4> QED BY <1>0, <3>1, <3>4, <3>5, <4>1, PassEnds
    <3>6. ASSUME NEW s \in Steps, UNCHANGED passing, step' = [step EXCEPT ![p] = s] PROVE PassInv'
      <4>1. at' = at
        BY <1>0, <3>1, <3>3, <3>6 DEF PassInv
      <4> QED BY <1>0, <3>1, <3>6, <4>1, PassGoesOn
    <3> QED BY <3>2, <3>5, <3>6
  <2>2. CASE CleanupStarts(r)
    <3>0. /\ at' = [at EXCEPT ![Main(r)] = IF Live(handle) THEN "awaitRetry" ELSE "unsub"]
          /\ at[Main(r)] = "cleanup"
      BY <2>2 DEF CleanupStarts, Goto
    <3>1. CASE Live(handle) /\ task[handle] = "passing"
      <4>1. handle \in Tasks
        BY <1>0, <3>1 DEF TaskInv, Live, Tasks
      <4>2. passing' = FALSE /\ step' = [step EXCEPT ![Task(handle)] = 0] /\ task' = [task EXCEPT ![handle] = "done"]
        BY <2>2, <3>1 DEF CleanupStarts, Leaves
      <4>3. \A t \in Tasks : task'[t] = "passing" <=> task[t] = "passing" /\ Task(t) # Task(handle)
        BY <1>0, <4>1, <4>2 DEF TaskInv
      <4>4. \A q \in Runs : at'[Main(q)] = "steps" <=> at[Main(q)] = "steps" /\ Main(q) # Task(handle)
        BY <1>0, <3>0, <4>1
      <4>5. step[Task(handle)] # 0
        BY <1>0, <3>1, <4>1 DEF PassInv
      <4> QED BY <1>0, <4>1, <4>2, <4>3, <4>4, <4>5, PassEnds
    <3>2. CASE ~(Live(handle) /\ task[handle] = "passing")
      <4>1. UNCHANGED <<passing, step>>
        BY <2>2, <3>2, Zenon DEF CleanupStarts
      <4>2. (UNCHANGED task) \/ (task[handle] # "passing" /\ task' = [task EXCEPT ![handle] = "done"])
        BY <2>2, <3>2, Zenon DEF CleanupStarts
      <4>3. \A t \in Tasks : task'[t] = "passing" <=> task[t] = "passing"
        BY <1>0, <4>2 DEF TaskInv
      <4> QED BY <1>0, <3>0, <4>1, <4>3, PassUntouched
    <3> QED BY <3>1, <3>2
  <2>3. CASE UseCaseReady(r) \/ Unsubscribed(r)
    <3>1. UNCHANGED <<passing, step, task>> /\ \A q \in Runs : at'[Main(q)] = "steps" <=> at[Main(q)] = "steps"
      BY <1>0, <2>3 DEF UseCaseReady, Unsubscribed, startup
    <3> QED BY <1>0, <3>1, PassUntouched
  <2>4. CASE \/ Begin(r) \/ Subscribed(r) \/ LoopEnds(r) \/ RetryAwaited(r) \/ Unsubscribe(r) \/ TasksAwaited(r)
    BY <1>b, <1>c, <2>4 DEF Begin, Subscribed, LoopEnds, RetryAwaited, Unsubscribe,
       TasksAwaited, Goto, startup
  <2> QED BY <1>2, <2>1, <2>2, <2>3, <2>4 DEF Advance
<1>3. ASSUME NEW r \in Runs, PollAdvance(r) PROVE PassInv'
  <2>1. at[Poll(r)] # "steps"
    BY <1>0 DEF PlaceInv, PollAt
  <2>2. CASE PollWakes(r)
    <3>1. attempted
      BY <1>0, <2>2 DEF StartInv, Tried, PollWakes
    <3>2. Ensure(Poll(r)) \/ (Goto(Poll(r), "ended") /\ UNCHANGED <<passing, step, task>>)
      BY <2>2, Zenon DEF PollWakes
    <3> QED BY <1>a, <1>b, <1>d, <2>1, <3>1, <3>2 DEF Goto
  <2> QED BY <1>b, <1>3, <2>1, <2>2 DEF PollAdvance, PollSubmits, PollSubmitted, PollCancelled,
     Goto, startup
<1>4. ASSUME NEW r \in Runs, EssentialsFail(r) \/ UseCaseFails(r) \/ TimesOut(r) \/ CancelRun(r)
                                \/ CleanupCancelled(r) PROVE PassInv'
  <2>1. CASE EssentialsFail(r) \/ UseCaseFails(r) \/ TimesOut(r) \/ CleanupCancelled(r)
    BY <1>b, <2>1 DEF EssentialsFail, UseCaseFails, TimesOut, CleanupCancelled, Goto, startup
  <2>2. CASE CancelRun(r) /\ at[Main(r)] # "steps"
    <3>1. UNCHANGED <<passing, step, task>> /\ \E x \in {"cleanup", "ended"} : Goto(Main(r), x)
      BY <2>2, Zenon DEF CancelRun
    <3> QED BY <1>b, <2>2, <3>1 DEF Goto
  <2>3. CASE CancelRun(r) /\ at[Main(r)] = "steps"
    <3>1. passing' = FALSE /\ step' = [step EXCEPT ![Main(r)] = 0] /\ Goto(Main(r), "ended") /\ UNCHANGED task
      BY <2>3 DEF CancelRun, Leaves
    <3>2. step[Main(r)] # 0
      BY <1>0, <2>3 DEF PassInv
    <3>3. \A q \in Runs : at'[Main(q)] = "steps" <=> at[Main(q)] = "steps" /\ Main(q) # Main(r)
      BY <1>0, <3>1 DEF Goto
    <3>4. \A t \in Tasks : Task(t) # Main(r) /\ task'[t] = task[t]
      BY <3>1
    <3> QED BY <1>0, <3>1, <3>2, <3>3, <3>4, PassEnds
  <2> QED BY <1>4, <2>1, <2>2, <2>3
<1>5. ASSUME NEW t \in Tasks, TaskAdvance(t) PROVE PassInv'
  <2>0. UNCHANGED at /\ Task(t) \in Passers /\ \A r \in Runs : Main(r) # Task(t)
    BY <1>5 DEF TaskAdvance, TaskStarts, TaskStep
  <2>1. CASE TaskStarts(t)
    <3>0. task[t] = "created"
      BY <2>1 DEF TaskStarts
    <3>1. CASE Done \/ passing
      <4>1. task' = [task EXCEPT ![t] = "done"] /\ UNCHANGED <<passing, step>>
        BY <2>1, <3>1, Zenon DEF TaskStarts
      <4>2. \A u \in Tasks : task'[u] = "passing" <=> task[u] = "passing"
        BY <1>0, <3>0, <4>1 DEF TaskInv
      <4> QED BY <1>0, <2>0, <4>1, <4>2, PassUntouched
    <3>2. CASE ~(Done \/ passing)
      <4>1. task' = [task EXCEPT ![t] = "passing"] /\ Enters(Task(t))
        BY <2>1, <3>2, Zenon DEF TaskStarts
      <4>2. passing' = TRUE /\ \E s \in Steps : step' = [step EXCEPT ![Task(t)] = s]
        BY <1>0, <3>2, <4>1, EntersStep
      <4>3. \A u \in Tasks : task'[u] = "passing" <=> task[u] = "passing" \/ Task(u) = Task(t)
        BY <1>0, <4>1 DEF TaskInv
      <4> QED BY <1>0, <2>0, <3>2, <4>2, <4>3, PassBegins
    <3> QED BY <3>1, <3>2
  <2>2. CASE TaskStep(t)
    <3> DEFINE p == Task(t)
    <3>1. step[p] # 0 /\ step[p] \in Steps
      BY <1>0, <2>2 DEF TaskStep, PassInv, Steps
    <3>2. \/ passing' = FALSE /\ step' = [step EXCEPT ![p] = 0]
          \/ UNCHANGED passing /\ \E s \in Steps : step' = [step EXCEPT ![p] = s]
      BY <1>0, <2>2, <3>1, StepEndsStep DEF TaskStep
    <3>3. task' = IF step'[p] = 0 THEN [task EXCEPT ![t] = "done"] ELSE task
      BY <2>2 DEF TaskStep
    <3>4. p \in Passers /\ \A u \in Tasks : Task(u) = p <=> u = t
      OBVIOUS
    <3> HIDE DEF p
    <3>5. CASE passing' = FALSE /\ step' = [step EXCEPT ![p] = 0]
      <4>1. \A u \in Tasks : task'[u] = "passing" <=> task[u] = "passing" /\ Task(u) # p
        BY <1>0, <3>3, <3>4, <3>5 DEF PassInv, TaskInv
      <4> QED BY <1>0, <2>0, <3>1, <3>4, <3>5, <4>1, PassEnds DEF p
    <3>6. ASSUME NEW s \in Steps, UNCHANGED passing, step' = [step EXCEPT ![p] = s] PROVE PassInv'
      <4>1. task' = task
        BY <1>0, <3>3, <3>4, <3>6 DEF PassInv
      <4> QED BY <1>0, <2>0, <3>1, <3>4, <3>6, <4>1, PassGoesOn
    <3> QED BY <3>2, <3>5, <3>6
  <2> QED BY <1>5, <2>1, <2>2 DEF TaskAdvance
<1>6. ASSUME NEW p \in Procs, Essentials(p) PROVE PassInv'
  <2>1. at[p] # "steps" /\ (p \in Mains \/ attempted)
    <3>1. CASE \E r \in Runs : p = Main(r)
      BY <1>6, <3>1 DEF Essentials, TakeInitLock, EssentialsResolve
    <3>2. CASE p = Event \/ \E r \in Runs : p = Poll(r)
      BY <1>0, <1>6, <3>2 DEF Essentials, TakeInitLock, EssentialsResolve, StartInv, Tried
    <3> QED BY <3>1, <3>2
  <2>2. \/ StepsOnceDoes(p)
        \/ (\E x \in {"query", "requery"} : Goto(p, x)) /\ UNCHANGED <<passing, step, task>>
    BY <1>a, <1>6 DEF Essentials, TakeInitLock, EssentialsResolve, startup
  <2> QED BY <1>0, <1>b, <2>1, <2>2, PassOnce DEF Goto
<1>7. ASSUME EventArrives \/ EventSubmits \/ EventSubmitted \/ Stop PROVE PassInv'
  <2>1. at[Event] # "steps"
    BY <1>0 DEF PlaceInv, EventAt
  <2>2. CASE EventArrives
    <3>1. attempted /\ Ensure(Event)
      BY <1>0, <2>2 DEF StartInv, Tried, EventArrives
    <3> QED BY <1>a, <1>d, <2>1, <3>1
  <2>3. CASE Stop
    BY <1>c, <2>3 DEF Stop, startup
  <2> QED BY <1>b, <1>7, <2>1, <2>2, <2>3 DEF EventSubmits, EventSubmitted, Goto, startup
<1> QED BY <1>1, <1>2, <1>3, <1>4, <1>5, <1>6, <1>7 DEF Next

(* Where the startup steps are attempted, or were, it is on record.        *)
LEMMA StartOnce ==
    ASSUME StartInv, FlagInv, NEW p, StepsOnceDoes(p), initialized', UNCHANGED completed
    PROVE  StartInv'
<1>1. completed' \subseteq Steps
  BY DEF StartInv
<1>2. Done \/ passing => attempted
  <2>1. Done => completed # {}
    <3>1. 1 \in Steps
      BY Bounds DEF Steps
    <3> QED BY <3>1 DEF Done
  <2> QED BY <2>1 DEF StartInv, Tried
<1>3. attempted'
  <2>1. CASE attempted
    <3>1. attempted' = attempted
      BY <2>1, Zenon DEF StepsOnceDoes, Begins
    <3> QED BY <2>1, <3>1
  <2>2. CASE ~attempted
    <3>1. Begins(p)
      BY <1>2, <2>2, Zenon DEF StepsOnceDoes, Skips, Retries
    <3> QED BY <3>1 DEF Begins
  <2> QED BY <2>1, <2>2
<1> QED BY <1>1, <1>3 DEF StartInv

(* Whatever shows that the first pass was attempted, it was; and that was  *)
(* after the essentials had been resolved.                                 *)
LEMMA StartInvKept ==
    ASSUME IInv, Next, ~Overlap
    PROVE  StartInv'
<1> USE Names, Bounds
<1>a. \A p \in Procs : (Ensure(p) => EnsureDoes(p)) /\ (StepsOnce(p) => StepsOnceDoes(p))
  BY EnsureCases, StepsOnceCases DEF IInv, StartInv, FlagInv
<1>0. PlaceInv /\ RunInv /\ StartInv /\ PassInv /\ FlagInv /\ completed \subseteq Steps
  BY DEF IInv, StartInv
<1>1. ASSUME NEW r \in Runs, Call(r) PROVE StartInv'
  <2>1. EnsureDoes(Main(r)) /\ UNCHANGED <<initialized, completed, held>>
    BY <1>a, <1>1 DEF Call, run
  <2>2. CASE initialized /\ StepsOnceDoes(Main(r))
    BY <1>0, <2>1, <2>2, StartOnce
  <2>3. CASE /\ UNCHANGED <<attempted, passing, task>>
             /\ Goto(Main(r), "first") \/ (initialized /\ Goto(Main(r), "again"))
    BY <1>0, <2>1, <2>3 DEF PlaceInv, MainAt, PollAt, EventAt, Starting, Subbing, Owning,
       StartInv, Tried, Spawned, Goto, startup, run
  <2> QED BY <2>1, <2>2, <2>3, Zenon DEF EnsureDoes
<1>2. ASSUME NEW r \in Runs, Advance(r) PROVE StartInv'
  <2>1. CASE FirstPassStep(r)
    <3>1. step[Main(r)] \in Steps
      BY <1>0, <2>1 DEF FirstPassStep, PassInv, Steps
    <3>2. completed' \subseteq Steps
      BY <1>0, <2>1, <3>1, StepEndsStep DEF FirstPassStep
    <3>3. attempted
      BY <1>0, <2>1 DEF FirstPassStep, StartInv, Tried
    <3> QED BY <1>0, <2>1, <3>2, <3>3 DEF FirstPassStep, StartInv, Goto, PlaceInv
  <2>2. CASE ~FirstPassStep(r)
    BY <1>0, <1>2, <2>2 DEF Advance, Begin, UseCaseReady, Subscribed, LoopEnds, CleanupStarts,
       RetryAwaited, Unsubscribe, Unsubscribed, TasksAwaited, PlaceInv, MainAt, PollAt, EventAt,
       Starting, Subbing, Owning, StartInv, Tried, Spawned, Goto, startup, run
  <2> QED BY <2>1, <2>2
<1>3. ASSUME NEW r \in Runs, PollAdvance(r) PROVE StartInv'
  BY <1>0, <1>a, <1>3 DEF PollAdvance, PollWakes, PollSubmits, PollSubmitted, PollCancelled,
     PlaceInv, MainAt, PollAt, EventAt, Starting, Subbing, Owning, StartInv, Tried, Spawned,
     Goto, startup, run, EnsureDoes, StepsOnceDoes, Skips, Retries, Begins
<1>4. ASSUME NEW r \in Runs, EssentialsFail(r) \/ UseCaseFails(r) \/ TimesOut(r) \/ CancelRun(r)
                                \/ CleanupCancelled(r) PROVE StartInv'
  BY <1>0, <1>4 DEF EssentialsFail, UseCaseFails, TimesOut, CancelRun, CleanupCancelled, Leaves, PlaceInv, MainAt,
     PollAt, EventAt, Starting, Subbing, Owning, StartInv, Tried, Spawned, Goto, startup, run
<1>5. ASSUME NEW t \in Tasks, TaskAdvance(t) PROVE StartInv'
  <2>1. completed' \subseteq Steps
    <3>1. ASSUME TaskStep(t) PROVE completed' \subseteq Steps
      <4>1. step[Task(t)] \in Steps
        BY <1>0, <3>1 DEF TaskStep, PassInv, Steps
      <4> QED BY <1>0, <3>1, <4>1, StepEndsStep DEF TaskStep
    <3> QED BY <1>0, <1>5, <3>1 DEF TaskAdvance, TaskStarts
  <2>2. attempted
    BY <1>0, <1>5 DEF TaskAdvance, TaskStarts, TaskStep, StartInv, Tried
  <2>3. UNCHANGED <<at, attempted, initialized>>
    BY <1>5 DEF TaskAdvance, TaskStarts, TaskStep
  <2> QED BY <1>0, <2>1, <2>2, <2>3 DEF StartInv
<1>6. ASSUME NEW p \in Procs, Essentials(p) PROVE StartInv'
  <2>1. CASE TakeInitLock(p)
    <3>1. at[p] \in {"first", "again"} /\ UNCHANGED <<completed, held, initialized>>
      BY <2>1 DEF TakeInitLock, startup, run
    <3>2. \/ (\E x \in {"query", "requery"} : Goto(p, x)) /\ UNCHANGED <<attempted, passing, task>>
          \/ StepsOnceDoes(p) /\ initialized
      BY <1>0, <1>a, <2>1 DEF TakeInitLock, startup, PlaceInv, MainAt, PollAt, EventAt,
         Starting, Subbing, Owning, StartInv, Tried, Spawned, Goto, startup, run
    <3>3. CASE StepsOnceDoes(p) /\ initialized
      BY <1>0, <3>1, <3>3, StartOnce
    <3>4. ASSUME NEW x \in {"query", "requery"}, Goto(p, x), UNCHANGED <<attempted, passing, task>> PROVE StartInv'
      BY <1>0, <3>1, <3>4 DEF PlaceInv, MainAt, PollAt, EventAt, Starting, Subbing, Owning,
         StartInv, Tried, Spawned, Goto, startup, run
    <3> QED BY <3>2, <3>3, <3>4
  <2>2. CASE EssentialsResolve(p)
    <3>1. initialized' /\ StepsOnceDoes(p) /\ at[p] \in {"query", "requery"} /\ UNCHANGED <<completed, held>>
      BY <1>a, <2>2 DEF EssentialsResolve, run
    <3> QED BY <1>0, <3>1, StartOnce
  <2> QED BY <1>6, <2>1, <2>2 DEF Essentials
<1>7. ASSUME EventArrives \/ EventSubmits \/ EventSubmitted \/ Stop PROVE StartInv'
  BY <1>0, <1>a, <1>7 DEF EventArrives, EventSubmits, EventSubmitted, Stop, PlaceInv, MainAt,
     PollAt, EventAt, Starting, Subbing, Owning, StartInv, Tried, Spawned, Goto, startup, run,
     EnsureDoes, StepsOnceDoes, Skips, Retries, Begins
<1> QED BY <1>1, <1>2, <1>3, <1>4, <1>5, <1>6, <1>7 DEF Next

(* A retry is on record while it lives, and from cleanup on there is none. *)
LEMMA TaskInvKept ==
    ASSUME IInv, Next, ~Overlap
    PROVE  TaskInv'
<1> USE Names, Bounds
<1>a. \A p \in Procs : (Ensure(p) => EnsureDoes(p)) /\ (StepsOnce(p) => StepsOnceDoes(p))
  BY EnsureCases, StepsOnceCases DEF IInv, StartInv, FlagInv
<1>0. PlaceInv /\ RunInv /\ TaskInv
  BY DEF IInv
<1>1. ASSUME NEW r \in Runs, Call(r) PROVE TaskInv'
  <2>1. EnsureDoes(Main(r)) /\ shuttingDown' = FALSE /\ \A q \in Runs : Over(q)
    BY <1>a, <1>1, Zenon DEF Call
  <2>2. /\ task' \in [Tasks -> {"none", "created", "passing", "done"}]
        /\ handle' \in 0..NTasks
        /\ \A t \in Tasks : task'[t] \in {"created", "passing"} => handle' = t
    BY <1>0, <2>1 DEF TaskInv, EnsureDoes, StepsOnceDoes, Skips, Retries, Begins, Spawned, Live
  <2>3. \E x \in {"first", "again", "steps", "ready"} : at' = [at EXCEPT ![Main(r)] = x]
    BY <2>1 DEF EnsureDoes, StepsOnceDoes, Skips, Retries, Begins, Goto
  <2>4. \A q \in Runs : at'[Main(q)] \notin {"awaitRetry", "unsub", "awaitTasks"}
    BY <1>0, <2>1, <2>3 DEF Over, PlaceInv
  <2> QED BY <2>1, <2>2, <2>4 DEF TaskInv
<1>2. ASSUME NEW r \in Runs, Advance(r) PROVE TaskInv'
  BY <1>0, <1>2 DEF Advance, FirstPassStep, Begin, UseCaseReady, Subscribed, LoopEnds,
     CleanupStarts, RetryAwaited, Unsubscribe, Unsubscribed, TasksAwaited, PlaceInv, RunInv,
     TaskInv, Over, NoRetry, Spawned, Live, Goto, startup
<1>3. ASSUME NEW r \in Runs, PollAdvance(r) PROVE TaskInv'
  BY <1>0, <1>a, <1>3 DEF PollAdvance, PollWakes, PollSubmits, PollSubmitted, PollCancelled,
     PlaceInv, RunInv, TaskInv, Over, NoRetry, Spawned, Live, Goto, startup, EnsureDoes,
     StepsOnceDoes, Skips, Retries, Begins
<1>4. ASSUME NEW r \in Runs, EssentialsFail(r) \/ UseCaseFails(r) \/ TimesOut(r) \/ CancelRun(r)
                                \/ CleanupCancelled(r) PROVE TaskInv'
  BY <1>0, <1>4 DEF EssentialsFail, UseCaseFails, TimesOut, CancelRun, CleanupCancelled, PlaceInv, RunInv,
     TaskInv, Over, NoRetry, Spawned, Live, Goto, startup
<1>5. ASSUME NEW t \in Tasks, TaskAdvance(t) PROVE TaskInv'
  BY <1>0, <1>5 DEF TaskAdvance, TaskStarts, TaskStep, PlaceInv, RunInv, TaskInv, Over, NoRetry,
     Spawned, Live, Goto, startup
<1>6. ASSUME NEW p \in Procs, Essentials(p) PROVE TaskInv'
  BY <1>0, <1>a, <1>6 DEF Essentials, TakeInitLock, EssentialsResolve, PlaceInv, RunInv,
     TaskInv, Over, NoRetry, Spawned, Live, Goto, startup, StepsOnceDoes, Skips, Retries, Begins
<1>7. ASSUME EventArrives \/ EventSubmits \/ EventSubmitted \/ Stop PROVE TaskInv'
  BY <1>0, <1>a, <1>7 DEF EventArrives, EventSubmits, EventSubmitted, Stop, PlaceInv, RunInv,
     TaskInv, Over, NoRetry, Spawned, Live, Goto, startup, EnsureDoes, StepsOnceDoes, Skips,
     Retries, Begins
<1> QED BY <1>1, <1>2, <1>3, <1>4, <1>5, <1>6, <1>7 DEF Next

(* What is counted stays within its bounds.                                *)
LEMMA CountInvKept ==
    ASSUME IInv, Next, ~Overlap
    PROVE  CountInv'
<1> USE Names, Bounds
<1>a. \A p \in Procs : (Ensure(p) => EnsureDoes(p)) /\ (StepsOnce(p) => StepsOnceDoes(p))
  BY EnsureCases, StepsOnceCases DEF IInv, StartInv, FlagInv
<1>0. CountInv /\ completed \subseteq Steps /\ PassInv
  BY DEF IInv, StartInv
<1>b. StopCurrent => cancelled' \subseteq Runs
  <2>1. cancelled \subseteq Runs /\ ctx \in Runs \cup {0}
    BY DEF IInv, OwnInv, CountInv, Runs
  <2> QED BY <2>1 DEF StopCurrent
<1>1. ASSUME NEW r \in Runs, Call(r) PROVE CountInv'
  BY <1>0, <1>1 DEF Call, CountInv, Fault, run
<1>2. ASSUME NEW r \in Runs, Advance(r) PROVE CountInv'
  BY <1>0, <1>2 DEF Advance, FirstPassStep, StepEnds, Begin, UseCaseReady, Subscribed, LoopEnds,
     CleanupStarts, RetryAwaited, Unsubscribe, Unsubscribed, TasksAwaited, CountInv, Fault, run
<1>3. ASSUME NEW r \in Runs, PollAdvance(r) PROVE CountInv'
  BY <1>0, <1>b, <1>3 DEF PollAdvance, PollWakes, PollSubmits, PollSubmitted, PollCancelled,
     CountInv, Fault, run
<1>4. ASSUME NEW r \in Runs, EssentialsFail(r) \/ UseCaseFails(r) \/ TimesOut(r) \/ CancelRun(r)
                                \/ CleanupCancelled(r) PROVE CountInv'
  BY <1>0, <1>4 DEF EssentialsFail, UseCaseFails, TimesOut, CancelRun, CleanupCancelled, CountInv, Fault, run
<1>5. ASSUME NEW t \in Tasks, TaskAdvance(t) PROVE CountInv'
  BY <1>0, <1>5 DEF TaskAdvance, TaskStarts, TaskStep, StepEnds, CountInv, Fault, run
<1>6. ASSUME NEW p \in Procs, Essentials(p) PROVE CountInv'
  BY <1>0, <1>6 DEF Essentials, TakeInitLock, EssentialsResolve, CountInv, Fault, run
<1>7. ASSUME EventArrives \/ EventSubmits \/ EventSubmitted \/ Stop PROVE CountInv'
  BY <1>0, <1>b, <1>7 DEF EventArrives, EventSubmits, EventSubmitted, Stop, CountInv, Fault, run
<1> QED BY <1>1, <1>2, <1>3, <1>4, <1>5, <1>6, <1>7 DEF Next

(* The subscription that is being stored is the one after those on record. *)
LEMMA SendingNext ==
    ASSUME NEW r \in Runs, NEW k \in 1..NSubs, Given(r, k)
    PROVE  Sending(r) = k
<1> USE Bounds
<1> DEFINE S == {j \in 1..NSubs : <<r, j>> \notin ids}
<1>1. \A j \in 1..NSubs : j \in S <=> k <= j
  BY DEF Given
<1> HIDE DEF S
<1>2. S \in SUBSET Nat /\ S # {} /\ k \in S
  <2>1. S \subseteq 1..NSubs
    BY DEF S
  <2> QED BY <1>1, <2>1
<1>3. Lowest(S) \in S /\ Lowest(S) <= k
  BY <1>2, LowestExists
<1>4. S \subseteq 1..NSubs
  BY DEF S
<1>5. Lowest(S) = k
  <2>1. Lowest(S) \in 1..NSubs /\ k <= Lowest(S) /\ Lowest(S) <= k
    BY <1>1, <1>3, <1>4
  <2> HIDE DEF S
  <2> DEFINE l == Lowest(S)
  <2>2. l \in 1..NSubs /\ k <= l /\ l <= k
    BY <2>1
  <2> HIDE DEF l
  <2>3. l = k
    BY <2>2
  <2> QED BY <2>3 DEF l
<1> QED BY <1>5 DEF Sending, S

(* While a run subscribes, this is what it has been given.                 *)
LEMMA SubbingStep ==
    ASSUME SubInv, NEW r \in Runs, at[Main(r)] = "sub"
    PROVE  Sending(r) \in 1..NSubs /\ Given(r, Sending(r))
<1>1. PICK k \in 1..NSubs : Given(r, k)
  BY DEF SubInv
<1> QED BY <1>1, SendingNext

(* How a run may move when the records do not change.                      *)
Moves(r) ==
    \/ at'[Main(r)] = at[Main(r)]
    \/ at[Main(r)] \in Before /\ at'[Main(r)] \in Before \cup {"cleanup", "ended"}
    \/ at[Main(r)] \in {"loop", "cleanup", "awaitRetry"} /\ at'[Main(r)] \in {"cleanup", "awaitRetry", "unsub"}
    \/ at[Main(r)] \in {"unsub", "awaitTasks"} /\ at'[Main(r)] = "ended" /\ (at[Main(r)] = "unsub" => r \in aborted')

(* Such moves leave the records right.                                     *)
LEMMA SubMoves ==
    ASSUME SubInv, UNCHANGED <<ids, held, leaked>>, aborted \subseteq aborted',
           \A r \in Runs : Moves(r)
    PROVE  SubInv'
<1>1. ids' = ids /\ held' = held /\ leaked' = leaked
  OBVIOUS
<1>2. ASSUME NEW r \in Runs, NEW k \in 1..NSubs
      PROVE  /\ <<r, k>> \in leaked => at'[Main(r)] \in Gone
             /\ at'[Main(r)] \in Before => <<r, k>> \notin ids /\ <<r, k>> \notin held
             /\ at'[Main(r)] \in {"awaitTasks", "ended"} /\ <<r, k>> \in ids => r \in aborted'
             /\ at'[Main(r)] # "sub" /\ <<r, k>> \in held => <<r, k>> \in leaked \/ <<r, k>> \in ids
             /\ at'[Main(r)] = "loop" => <<r, k>> \in ids /\ <<r, k>> \in held
  <2>1. Moves(r)
    OBVIOUS
  <2>2. /\ <<r, k>> \in leaked => at[Main(r)] \in Gone
        /\ at[Main(r)] \in Before => <<r, k>> \notin ids /\ <<r, k>> \notin held
        /\ at[Main(r)] \in {"awaitTasks", "ended"} /\ <<r, k>> \in ids => r \in aborted
        /\ at[Main(r)] # "sub" /\ <<r, k>> \in held => <<r, k>> \in leaked \/ <<r, k>> \in ids
        /\ at[Main(r)] = "loop" => <<r, k>> \in ids /\ <<r, k>> \in held
    BY DEF SubInv
  <2>3. r \in aborted => r \in aborted'
    OBVIOUS
  <2> QED BY <2>1, <2>2, <2>3 DEF Moves, Gone, Before, Starting
<1>3. ASSUME NEW r \in Runs, at'[Main(r)] = "sub" PROVE \E k \in 1..NSubs : Given(r, k)
  <2>1. Moves(r) /\ (at[Main(r)] = "sub" => \E k \in 1..NSubs : Given(r, k))
    BY DEF SubInv
  <2> QED BY <1>3, <2>1 DEF Moves, Before, Starting
<1>4. ASSUME NEW r \in Runs, at'[Main(r)] = "sub" PROVE (\E k \in 1..NSubs : Given(r, k))'
  BY <1>1, <1>3, <1>4, Zenon DEF Given
<1>5. ids' \subseteq Ids /\ held' \subseteq Ids /\ leaked' \subseteq Ids
  BY <1>1 DEF SubInv
<1> QED BY <1>1, <1>2, <1>4, <1>5, Zenon DEF SubInv

(* A run that stops subscribing leaves nothing behind that is neither on   *)
(* record nor known to have leaked.                                        *)
LEMMA LeavesRecords ==
    ASSUME PlaceInv, RunInv, SubInv, NEW r \in Runs, at[Main(r)] \in {"initialize", "sub", "loop"},
           Goto(Main(r), "cleanup"), Leaks(r), UNCHANGED <<ids, held, aborted>>
    PROVE  SubInv'
<1> USE Names, Bounds
<1>1. \A q \in Runs : q # r => at'[Main(q)] = at[Main(q)] /\ at[Main(q)] # "sub"
  BY DEF Goto, PlaceInv, RunInv, Over
<1>2. at'[Main(r)] = "cleanup"
  BY DEF Goto, PlaceInv
<1>3. CASE at[Main(r)] # "sub"
  <2>1. UNCHANGED leaked
    BY <1>3 DEF Leaks
  <2>2. \A q \in Runs : Moves(q)
    BY <1>1, <1>2, <1>3 DEF Moves, Before
  <2> QED BY <2>1, <2>2, SubMoves
<1>4. CASE at[Main(r)] = "sub"
  <2> DEFINE k == Sending(r)
  <2>1. k \in 1..NSubs /\ Given(r, k)
    BY <1>4, SubbingStep
  <2>2. leaked' = leaked \cup {<<r, k>>}
    BY <1>4 DEF Leaks
  <2> HIDE DEF k
  <2>3. leaked' \subseteq Ids
    BY <2>1, <2>2 DEF SubInv, Ids
  <2>4. \A j \in 1..NSubs : <<r, j>> \in held => <<r, j>> \in leaked' \/ <<r, j>> \in ids
    <3>1. ASSUME NEW j \in 1..NSubs, <<r, j>> \in held PROVE j = k \/ <<r, j>> \in ids
      BY <2>1, <3>1 DEF Given
    <3> QED BY <2>2, <3>1
  <2>5. \A q \in Runs, j \in 1..NSubs : q # r => (<<q, j>> \in leaked' <=> <<q, j>> \in leaked)
    BY <2>2
  <2> QED BY <1>1, <1>2, <2>3, <2>4, <2>5 DEF SubInv, Gone, Before, Starting
<1> QED BY <1>3, <1>4

(* What is on record, and what is held, follows the run that goes on.      *)
LEMMA SubInvKept ==
    ASSUME IInv, Next, ~Overlap
    PROVE  SubInv'
<1> USE Names, Bounds
<1>a. \A p \in Procs : (Ensure(p) => EnsureDoes(p)) /\ (StepsOnce(p) => StepsOnceDoes(p))
  BY EnsureCases, StepsOnceCases DEF IInv, StartInv, FlagInv
<1>0. PlaceInv /\ RunInv /\ SubInv /\ DOMAIN at = Procs
  BY DEF IInv, PlaceInv
<1>b. ASSUME UNCHANGED <<ids, held, leaked, aborted>>, NEW p \in Procs, NEW x, Goto(p, x),
             \A r \in Runs : p = Main(r) => Moves(r)
      PROVE  SubInv'
  <2>1. \A r \in Runs : p # Main(r) => at'[Main(r)] = at[Main(r)]
    BY <1>0, <1>b DEF Goto
  <2>2. \A r \in Runs : Moves(r)
    BY <1>b, <2>1 DEF Moves
  <2> QED BY <1>0, <1>b, <2>2, SubMoves
<1>c. ASSUME UNCHANGED <<ids, held, leaked, aborted, at>> PROVE SubInv'
  <2>1. \A r \in Runs : Moves(r)
    BY <1>c DEF Moves
  <2> QED BY <1>0, <1>c, <2>1, SubMoves
<1>d. ASSUME NEW p \in Procs, at[p] \in Starting \cup {"none"} \/ \A r \in Runs : p # Main(r), EnsureDoes(p) \/ StepsOnceDoes(p),
             UNCHANGED <<ids, held, leaked, aborted>>
      PROVE  SubInv'
  <2>1. PICK x \in {"first", "again", "steps", "ready"} : Goto(p, x)
    BY <1>d, Zenon DEF EnsureDoes, StepsOnceDoes, Skips, Retries, Begins
  <2>2. at'[p] = x
    BY <1>0, <2>1 DEF Goto
  <2>3. \A r \in Runs : p = Main(r) => Moves(r)
    BY <1>d, <2>2 DEF Moves, Before, Starting
  <2> QED BY <1>b, <1>d, <2>1, <2>3
<1>1. ASSUME NEW r \in Runs, Call(r) PROVE SubInv'
  BY <1>a, <1>d, <1>1 DEF Call, run
<1>2. ASSUME NEW r \in Runs, Advance(r) PROVE SubInv'
  <2>1. CASE FirstPassStep(r)
    <3>1. at[Main(r)] = "steps" /\ UNCHANGED <<ids, held, leaked, aborted>> /\ (Goto(Main(r), "ready") \/ UNCHANGED at)
      BY <2>1 DEF FirstPassStep, run
    <3>2. Goto(Main(r), "ready") => Moves(r)
      BY <1>0, <3>1 DEF Goto, Moves, Before, Starting
    <3> QED BY <1>b, <1>c, <3>1, <3>2
  <2>2. CASE Subscribed(r)
    <3>1. PICK k \in 1..NSubs : k = Sending(r) /\ Given(r, k) /\ at[Main(r)] = "sub"
      BY <1>0, <2>2, SubbingStep DEF Subscribed
    <3>2. /\ ids' = ids \cup {<<r, k>>} /\ UNCHANGED <<leaked, aborted>>
          /\ \/ k = NSubs /\ Goto(Main(r), "loop") /\ UNCHANGED held
             \/ k # NSubs /\ held' = held \cup {<<r, k + 1>>} /\ UNCHANGED at
      BY <2>2, <3>1 DEF Subscribed, Storing
    <3>3. \A q \in Runs : q # r => at'[Main(q)] = at[Main(q)] /\ at[Main(q)] # "sub"
      BY <1>0, <3>1, <3>2 DEF Goto, PlaceInv, RunInv, Over
    <3>4. \A j \in 1..NSubs : <<r, j>> \in ids' <=> j < k + 1
      BY <3>1, <3>2 DEF Given
    <3>5. ids' \subseteq Ids /\ held' \subseteq Ids
      BY <1>0, <3>1, <3>2 DEF SubInv, Ids
    <3>6. \A q \in Runs, j \in 1..NSubs : q # r => (<<q, j>> \in ids' <=> <<q, j>> \in ids) /\ (<<q, j>> \in held' <=> <<q, j>> \in held)
      BY <3>2
    <3>7. CASE k = NSubs /\ Goto(Main(r), "loop") /\ UNCHANGED held
      <4>1. at'[Main(r)] = "loop"
        BY <1>0, <3>7 DEF Goto
      <4>2. \A j \in 1..NSubs : <<r, j>> \in ids' /\ <<r, j>> \in held' /\ <<r, j>> \notin leaked
        BY <1>0, <3>1, <3>4, <3>7 DEF Given, SubInv, Gone
      <4>3. \A q \in Runs : q # r => at'[Main(q)] # "sub"
        BY <3>3
      <4> QED BY <1>0, <3>2, <3>3, <3>5, <3>6, <4>1, <4>2, <4>3 DEF SubInv, Gone, Before, Starting
    <3>8. CASE k # NSubs /\ held' = held \cup {<<r, k + 1>>} /\ UNCHANGED at
      <4>1. k + 1 \in 1..NSubs
        BY <3>1, <3>8
      <4>2. \A j \in 1..NSubs : (<<r, j>> \in ids' <=> j < k + 1) /\ (<<r, j>> \in held' <=> j <= k + 1)
        BY <3>1, <3>4, <3>8 DEF Given
      <4>3. Given(r, k + 1)'
        BY <4>2 DEF Given
      <4>4. (\E j \in 1..NSubs : Given(r, j))'
        BY <4>1, <4>3
      <4>5. at'[Main(r)] = "sub" /\ \A q \in Runs : q # r => at'[Main(q)] # "sub"
        BY <3>1, <3>3, <3>8
      <4>6. \A j \in 1..NSubs : <<r, j>> \notin leaked'
        BY <1>0, <3>1, <3>2 DEF SubInv, Gone
      <4> QED BY <1>0, <3>2, <3>3, <3>5, <3>6, <4>4, <4>5, <4>6 DEF SubInv, Gone, Before, Starting
    <3> QED BY <3>2, <3>7, <3>8
  <2>3. CASE UseCaseReady(r)
    <3>1. /\ at[Main(r)] = "initialize" /\ UNCHANGED <<ids, leaked, aborted>> /\ held' = held \cup {<<r, 1>>}
          /\ at'[Main(r)] = "sub" /\ \A q \in Runs : q # r => at'[Main(q)] = at[Main(q)]
      BY <1>0, <2>3 DEF UseCaseReady, Storing
    <3>2. \A q \in Runs : q # r => at'[Main(q)] # "sub"
      BY <1>0, <3>1 DEF RunInv, Over
    <3>3. \A j \in 1..NSubs : <<r, j>> \notin ids' /\ <<r, j>> \notin leaked' /\ (<<r, j>> \in held' <=> j <= 1)
      BY <1>0, <3>1 DEF SubInv, Before, Gone
    <3>4. Given(r, 1)'
      BY <3>3 DEF Given
    <3>5. (\E j \in 1..NSubs : Given(r, j))'
      BY <3>4
    <3>6. held' \subseteq Ids
      BY <1>0, <3>1 DEF SubInv, Ids
    <3>7. \A q \in Runs, j \in 1..NSubs : q # r => (<<q, j>> \in held' <=> <<q, j>> \in held)
      BY <3>1
    <3> QED BY <1>0, <3>1, <3>2, <3>3, <3>5, <3>6, <3>7 DEF SubInv, Gone, Before, Starting
  <2>4. CASE Begin(r) \/ LoopEnds(r) \/ CleanupStarts(r) \/ RetryAwaited(r) \/ TasksAwaited(r)
    <3>1. PICK x : Goto(Main(r), x) /\ UNCHANGED <<ids, held, leaked, aborted>>
                   /\ \/ at[Main(r)] = "ready" /\ x \in {"ended", "initialize"}
                      \/ at[Main(r)] = "loop" /\ x = "cleanup"
                      \/ at[Main(r)] = "cleanup" /\ x \in {"awaitRetry", "unsub"}
                      \/ at[Main(r)] = "awaitRetry" /\ x = "unsub"
                      \/ at[Main(r)] = "awaitTasks" /\ x = "ended"
      BY <2>4, Zenon DEF Begin, LoopEnds, CleanupStarts, RetryAwaited, TasksAwaited, run
    <3>2. at'[Main(r)] = x
      BY <1>0, <3>1 DEF Goto
    <3>3. Moves(r)
      BY <3>1, <3>2 DEF Moves, Before, Starting
    <3>4. \A q \in Runs : Main(r) = Main(q) => Moves(q)
      BY <3>3
    <3> QED BY <1>b, <3>1, <3>4
  <2>5. CASE Unsubscribe(r)
    <3>1. at[Main(r)] = "unsub" /\ UNCHANGED <<at, ids, leaked, aborted>> /\ held' \subseteq held
      BY <2>5 DEF Unsubscribe
    <3>2. \A q \in Runs : at[Main(q)] \notin {"sub", "loop"}
      BY <1>0, <3>1 DEF RunInv, Over
    <3> QED BY <1>0, <3>1, <3>2 DEF SubInv
  <2>6. CASE Unsubscribed(r)
    <3>1. /\ at[Main(r)] = "unsub" /\ ids \cap held = {} /\ ids' = {} /\ UNCHANGED <<held, leaked, aborted>>
          /\ at'[Main(r)] = "awaitTasks" /\ \A q \in Runs : q # r => at'[Main(q)] = at[Main(q)]
      BY <1>0, <2>6 DEF Unsubscribed
    <3>2. \A q \in Runs : at'[Main(q)] \notin {"sub", "loop"} /\ at[Main(q)] # "sub"
      BY <1>0, <3>1 DEF RunInv, Over
    <3>3. \A q \in Runs, k \in 1..NSubs : <<q, k>> \in held' => <<q, k>> \in leaked'
      BY <1>0, <3>1, <3>2 DEF SubInv
    <3>4. held' \subseteq Ids /\ leaked' \subseteq Ids /\ ids' \subseteq Ids
      BY <1>0, <3>1 DEF SubInv
    <3>5. \A q \in Runs, k \in 1..NSubs :
             /\ <<q, k>> \in leaked' => at'[Main(q)] \in Gone
             /\ at'[Main(q)] \in Before => <<q, k>> \notin held'
      BY <1>0, <3>1 DEF SubInv, Gone, Before, Starting
    <3>6. \A q \in Runs, k \in 1..NSubs : <<q, k>> \notin ids'
      BY <3>1
    <3>7. \A q \in Runs : at'[Main(q)] # "sub" /\ at'[Main(q)] # "loop"
      BY <3>2
    <3>8. \A q \in Runs, k \in 1..NSubs :
             /\ at'[Main(q)] \in Before => <<q, k>> \notin ids' /\ <<q, k>> \notin held'
             /\ at'[Main(q)] \in {"awaitTasks", "ended"} /\ <<q, k>> \in ids' => q \in aborted'
             /\ at'[Main(q)] # "sub" /\ <<q, k>> \in held' => <<q, k>> \in leaked' \/ <<q, k>> \in ids'
             /\ at'[Main(q)] = "loop" => <<q, k>> \in ids' /\ <<q, k>> \in held'
      BY <3>3, <3>5, <3>6, <3>7
    <3> QED BY <3>4, <3>5, <3>7, <3>8 DEF SubInv
  <2> QED BY <1>2, <2>1, <2>2, <2>3, <2>4, <2>5, <2>6 DEF Advance
<1>3. ASSUME NEW r \in Runs, PollAdvance(r) PROVE SubInv'
  <2>1. UNCHANGED <<ids, held, leaked, aborted>> /\ ((\E x : Goto(Poll(r), x)) \/ Ensure(Poll(r)))
    BY <1>3, Zenon DEF PollAdvance, PollWakes, PollSubmits, PollSubmitted, PollCancelled, run
  <2>2. \A q \in Runs : Poll(r) # Main(q)
    OBVIOUS
  <2> QED BY <1>a, <1>b, <1>d, <2>1, <2>2
<1>4. ASSUME NEW r \in Runs, EssentialsFail(r) \/ UseCaseFails(r) \/ TimesOut(r) \/ CancelRun(r)
                                \/ CleanupCancelled(r) PROVE SubInv'
  <2>1. CASE EssentialsFail(r) \/ UseCaseFails(r)
    <3>1. PICK x : Goto(Main(r), x) /\ UNCHANGED <<ids, held, leaked, aborted>>
                   /\ at[Main(r)] \in {"query", "initialize"} /\ x \in {"ended", "cleanup"}
      BY <2>1, Zenon DEF EssentialsFail, UseCaseFails, run
    <3>2. \A q \in Runs : Main(r) = Main(q) => Moves(q)
      BY <1>0, <3>1 DEF Goto, Moves, Before, Starting
    <3> QED BY <1>b, <3>1, <3>2
  <2>2. CASE TimesOut(r)
    <3>1. Goto(Main(r), "cleanup") /\ Leaks(r) /\ UNCHANGED <<ids, held, aborted>>
      BY <2>2 DEF TimesOut, run
    <3> QED BY <1>0, <2>2, <3>1, LeavesRecords DEF TimesOut
  <2>3. CASE CancelRun(r) /\ at[Main(r)] \in {"initialize", "sub", "loop"}
    <3>1. Goto(Main(r), "cleanup") /\ Leaks(r) /\ UNCHANGED <<ids, held, aborted>>
      BY <2>3 DEF CancelRun
    <3> QED BY <1>0, <2>3, <3>1, LeavesRecords
  <2>4. CASE CancelRun(r) /\ at[Main(r)] \notin {"initialize", "sub", "loop"}
    <3>1. /\ Goto(Main(r), "ended") /\ UNCHANGED <<ids, held, leaked, aborted>>
          /\ at[Main(r)] \in {"first", "again", "query", "requery", "steps"}
      BY <2>4, Zenon DEF CancelRun
    <3>2. \A q \in Runs : Main(r) = Main(q) => Moves(q)
      BY <1>0, <3>1 DEF Goto, Moves, Before, Starting
    <3> QED BY <1>b, <3>1, <3>2
  <2>5. CASE CleanupCancelled(r)
    <3>1. /\ Goto(Main(r), "ended") /\ UNCHANGED <<ids, held, leaked>>
          /\ \/ at[Main(r)] = "unsub" /\ aborted' = aborted \cup {r}
             \/ at[Main(r)] = "awaitTasks" /\ aborted' = aborted
      BY <2>5 DEF CleanupCancelled, run
    <3>2. \A q \in Runs : Moves(q)
      BY <1>0, <3>1 DEF Goto, Moves
    <3>3. aborted \subseteq aborted'
      BY <3>1
    <3> QED BY <1>0, <3>1, <3>2, <3>3, SubMoves
  <2> QED BY <1>4, <2>1, <2>2, <2>3, <2>4, <2>5
<1>5. ASSUME NEW t \in Tasks, TaskAdvance(t) PROVE SubInv'
  BY <1>c, <1>5, Zenon DEF TaskAdvance, TaskStarts, TaskStep, run
<1>6. ASSUME NEW p \in Procs, Essentials(p) PROVE SubInv'
  <2>1. /\ at[p] \in {"first", "again", "query", "requery"} /\ UNCHANGED <<ids, held, leaked, aborted>>
        /\ (\E x \in {"query", "requery"} : Goto(p, x)) \/ StepsOnceDoes(p)
    BY <1>a, <1>6 DEF Essentials, TakeInitLock, EssentialsResolve, run
  <2>2. ASSUME NEW x \in {"query", "requery"}, Goto(p, x) PROVE SubInv'
    <3>1. \A r \in Runs : p = Main(r) => Moves(r)
      BY <1>0, <2>1, <2>2 DEF Goto, Moves, Before, Starting
    <3> QED BY <1>b, <2>1, <2>2, <3>1
  <2> QED BY <1>d, <2>1, <2>2 DEF Starting
<1>7. ASSUME EventArrives \/ EventSubmits \/ EventSubmitted \/ Stop PROVE SubInv'
  <2>1. /\ UNCHANGED <<ids, held, leaked, aborted>>
        /\ (UNCHANGED at) \/ (\E x : Goto(Event, x)) \/ Ensure(Event)
    BY <1>7, Zenon DEF EventArrives, EventSubmits, EventSubmitted, Stop, run
  <2>2. \A q \in Runs : Event # Main(q)
    OBVIOUS
  <2> QED BY <1>a, <1>b, <1>c, <1>d, <2>1, <2>2
<1> QED BY <1>1, <1>2, <1>3, <1>4, <1>5, <1>6, <1>7 DEF Next

-----------------------------------------------------------------------------
(* The theorems.                                                           *)

(* The invariant holds at the start.                                       *)
LEMMA InitIInv == Init => IInv
<1> SUFFICES ASSUME Init PROVE IInv
  OBVIOUS
<1> USE Names, Bounds
<1>0. /\ at = [p \in Procs |-> "none"] /\ step = [p \in Passers |-> 0] /\ task = [t \in Tasks |-> "none"]
      /\ initialized = FALSE /\ derived = FALSE /\ attempted = FALSE /\ completed = {}
      /\ passing = FALSE /\ initLock = FALSE /\ handle = 0 /\ shuttingDown = FALSE
      /\ ctx = 0 /\ queue = 0 /\ cancelled = {} /\ ids = {} /\ held = {}
      /\ events = 0 /\ faults = 0 /\ leaked = {} /\ aborted = {}
  BY Zenon DEF Init
<1>1. PlaceInv /\ AtInv
  BY <1>0 DEF PlaceInv, AtInv, MainAt, PollAt, EventAt
<1>2. RunInv /\ OwnInv /\ SubInv
  BY <1>0 DEF RunInv, Over, OwnInv, SubInv, Owning, Subbing, Gone
<1>3. LockInv /\ PassInv /\ TaskInv
  BY <1>0 DEF LockInv, Locked, PassInv, TaskInv, NoRetry
<1>4. StartInv
  BY <1>0 DEF StartInv, Tried, Owning, Subbing
<1>5. FlagInv
  BY <1>0, Zenon DEF FlagInv
<1>6. CountInv
  BY <1>0 DEF CountInv
<1> QED BY <1>1, <1>2, <1>3, <1>4, <1>5, <1>6 DEF IInv

(* Every step preserves it.                                                *)
LEMMA NextKeeps ==
    ASSUME ~Overlap, IInv, [Next]_vars
    PROVE  IInv'
<1>1. CASE Next
  BY <1>1, PlaceInvKept, AtInvKept, RunInvKept, OwnInvKept, LockInvKept, StartInvKept,
     PassInvKept, TaskInvKept,
     SubInvKept, FlagInvKept, CountInvKept DEF IInv
<1>2. CASE UNCHANGED vars
  <2>1. /\ at' = at /\ step' = step /\ task' = task /\ initialized' = initialized /\ derived' = derived
        /\ attempted' = attempted /\ completed' = completed /\ passing' = passing /\ initLock' = initLock
        /\ handle' = handle /\ shuttingDown' = shuttingDown /\ ctx' = ctx /\ queue' = queue
        /\ cancelled' = cancelled /\ ids' = ids /\ held' = held /\ events' = events /\ faults' = faults
        /\ leaked' = leaked /\ aborted' = aborted
    BY <1>2, Zenon DEF vars, startup, run
  <2>2. PlaceInv' /\ AtInv'
    BY <2>1 DEF IInv, PlaceInv, AtInv
  <2>3. RunInv' /\ OwnInv'
    BY <2>1, Zenon DEF IInv, RunInv, OwnInv, Over
  <2>4. LockInv'
    BY <2>1, Zenon DEF IInv, LockInv, Locked
  <2>5. StartInv' /\ PassInv' /\ TaskInv'
    BY <2>1, Zenon DEF IInv, StartInv, Tried, PassInv, TaskInv, NoRetry
  <2>6. SubInv' /\ FlagInv' /\ CountInv'
    BY <2>1, Zenon DEF IInv, SubInv, Given, FlagInv, CountInv
  <2> QED BY <2>2, <2>3, <2>4, <2>5, <2>6 DEF IInv
<1> QED BY <1>1, <1>2

(* The invariant, of workers whose runs do not overlap.                    *)
LEMMA Invariant == ~Overlap => (Spec => []IInv)
<1> SUFFICES ASSUME ~Overlap PROVE Spec => []IInv
  OBVIOUS
<1>1. IInv /\ [Next]_vars => IInv'
  BY NextKeeps
<1> QED BY <1>1, InitIInv, PTL DEF Spec

(* The variables keep their types; the two flags of the startup hold       *)
(* exactly while somebody makes a pass of its steps, or is in its lock     *)
(* (_optional_steps_running, _init_lock).                                  *)
THEOREM TypeCorrect == ~Overlap => (Spec => []TypeOK)
<1> SUFFICES ASSUME ~Overlap PROVE Spec => []TypeOK
  OBVIOUS
<1>1. ASSUME IInv PROVE TypeOK
  <2>1. at \in [Procs -> {"none", "first", "again", "query", "requery", "steps", "ready",
                          "initialize", "sub", "loop", "cleanup", "awaitRetry", "unsub",
                          "awaitTasks", "ended", "start", "sleep", "submit", "cancelled"}]
    <3> DEFINE Places == {"none", "first", "again", "query", "requery", "steps", "ready",
                          "initialize", "sub", "loop", "cleanup", "awaitRetry", "unsub",
                          "awaitTasks", "ended", "start", "sleep", "submit", "cancelled"}
    <3>1. ASSUME NEW p \in Procs PROVE at[p] \in Places
      BY <1>1, <3>1, Names DEF IInv, PlaceInv, MainAt, PollAt, EventAt, Starting, Owning, Subbing
    <3>2. at = [p \in Procs |-> at[p]]
      BY <1>1 DEF IInv, PlaceInv, AtInv
    <3> HIDE DEF Places
    <3>3. at \in [Procs -> Places]
      BY <3>1, <3>2
    <3> QED BY <3>3 DEF Places
  <2>2. {initialized, derived, attempted, passing, initLock, shuttingDown} \subseteq BOOLEAN
    BY <1>1, Zenon DEF IInv, FlagInv
  <2>3. (passing <=> \E p \in Passers : step[p] # 0) /\ (initLock <=> \E p \in Procs : at[p] \in {"query", "requery"})
    BY <1>1 DEF IInv, PassInv, LockInv, Locked
  <2>4. /\ completed \subseteq Steps /\ step \in [Passers -> 0..NSteps]
        /\ task \in [Tasks -> {"none", "created", "passing", "done"}] /\ handle \in 0..NTasks
        /\ ctx \in 0..NRuns /\ queue \in 0..NRuns /\ cancelled \subseteq Runs
        /\ ids \subseteq Ids /\ held \subseteq Ids /\ leaked \subseteq Ids
        /\ aborted \subseteq Runs
        /\ events \in 0..NEvents /\ faults \in 0..MaxFaults
    BY <1>1 DEF IInv, RunInv, StartInv, PassInv, TaskInv, OwnInv, SubInv, CountInv
  <2> QED BY <2>1, <2>2, <2>3, <2>4 DEF TypeOK
<1>2. Spec => []IInv
  BY Invariant
<1> QED BY <1>1, <1>2, PTL

(* When no run is in progress nothing a run started is left: no detached   *)
(* retry once a cleanup has begun, until run() is called again; no poller  *)
(* but of a run whose cleanup was cancelled; no subscription but an        *)
(* interrupted one, or one such a cleanup left, which is still on record   *)
(* (_cleanup, _shutting_down, _spawn_startup_step_retry).                  *)
THEOREM RunsEndClean == ~Overlap => (Spec => []NothingOutlivesRuns)
<1> SUFFICES ASSUME ~Overlap PROVE Spec => []NothingOutlivesRuns
  OBVIOUS
<1>1. ASSUME IInv, \A r \in Runs : Over(r)
      PROVE  /\ shuttingDown => NoRetry
             /\ \A r \in Runs \ aborted : at[Poll(r)] \in {"none", "ended"}
             /\ held \subseteq leaked \cup ids
             /\ ids \subseteq Abandoned
  <2>1. shuttingDown => NoRetry
    BY <1>1 DEF IInv, TaskInv
  <2>2. \A r \in Runs \ aborted : at[Poll(r)] \in {"none", "ended"}
    BY <1>1 DEF IInv, RunInv, Over
  <2>3. SubInv /\ \A r \in Runs : at[Main(r)] \in {"none", "ended"}
    BY <1>1 DEF IInv, Over
  <2>4. held \subseteq leaked \cup ids
    BY <2>3 DEF SubInv, Ids
  <2>5. ids \subseteq Abandoned
    BY <2>3 DEF SubInv, Ids, Abandoned, Before
  <2> QED BY <2>1, <2>2, <2>4, <2>5
<1>2. IInv => NothingOutlivesRuns
  BY <1>1, Zenon DEF NothingOutlivesRuns
<1>3. Spec => []IInv
  BY Invariant
<1> QED BY <1>2, <1>3, PTL

(* A run that yields results owns the worker, however those before it      *)
(* ended: its context and its queue, its subscriptions all on record and   *)
(* held, and beside them only those of cancelled cleanups, which are on    *)
(* record for its own cleanup (run, _cleanup).                             *)
THEOREM RunsOwnWorker == ~Overlap => (Spec => []RunOwnsWorker)
<1> SUFFICES ASSUME ~Overlap PROVE Spec => []RunOwnsWorker
  OBVIOUS
<1>1. ASSUME IInv, NEW r \in Runs, at[Main(r)] = "loop"
      PROVE  /\ ctx = r /\ queue = r
             /\ ids \ Abandoned = {r} \X (1..NSubs)
             /\ held \ (leaked \cup Abandoned) = {r} \X (1..NSubs)
             /\ held \subseteq leaked \cup ids
  <2>1. ctx = r /\ queue = r
    BY <1>1 DEF IInv, OwnInv, Owning, Subbing
  <2>2. \A q \in Runs : q # r => at[Main(q)] \in {"none", "ended"}
    BY <1>1 DEF IInv, RunInv, Over
  <2>3. SubInv /\ r \notin aborted /\ aborted \subseteq Runs
    BY <1>1 DEF IInv, RunInv
  <2>4. \A k \in 1..NSubs : <<r, k>> \in ids /\ <<r, k>> \in held /\ <<r, k>> \notin leaked
    BY <1>1, <2>3 DEF SubInv, Gone
  <2>5. \A q \in Runs, k \in 1..NSubs : q # r /\ <<q, k>> \in ids => q \in aborted
    BY <2>2, <2>3 DEF SubInv, Before
  <2>6. \A q \in Runs, k \in 1..NSubs : <<q, k>> \in held => <<q, k>> \in leaked \/ <<q, k>> \in ids
    BY <1>1, <2>2, <2>3 DEF SubInv
  <2>7. ids \subseteq Ids /\ held \subseteq Ids
    BY <2>3 DEF SubInv
  <2>8. ids \ Abandoned = {r} \X (1..NSubs)
    BY <2>3, <2>4, <2>5, <2>7 DEF Abandoned, Ids
  <2>9. held \subseteq leaked \cup ids
    BY <2>6, <2>7 DEF Ids
  <2>10. held \ (leaked \cup Abandoned) = {r} \X (1..NSubs)
    BY <2>3, <2>4, <2>8, <2>9 DEF Abandoned
  <2> QED BY <2>1, <2>8, <2>9, <2>10
<1>2. IInv => RunOwnsWorker
  BY <1>1, Zenon DEF RunOwnsWorker
<1>3. Spec => []IInv
  BY Invariant
<1> QED BY <1>2, <1>3, PTL
=============================================================================
