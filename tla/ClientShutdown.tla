---------------------------- MODULE ClientShutdown -----------------------------
(***************************************************************************)
(* The life of the RPC client's resources: submissions from                *)
(* submit_transaction to the end of their detached task, the callers       *)
(* waiting for them, AlloraRPCClient.close() at any moment, perhaps twice, *)
(* and the gRPC channel that replaces its connection when it is too old    *)
(* (tx_manager.py, client.py).  What a submission does is TxSubmission;    *)
(* here it makes calls and ends.                                           *)
(*                                                                         *)
(* grpclib and the network are external: a call waits until the channel is *)
(* connected, a connection may break.                                      *)
(***************************************************************************)
EXTENDS Integers, FiniteSets

CONSTANTS
    Ops, Callers,   \* submissions; those who may wait for each
    Closers,        \* calls of close()
    Simulate,       \* simulate_gas_from_start
    MaxConns, MaxFaults   \* bounds

ASSUME ShutdownAssumption ==
    /\ IsFiniteSet(Ops) /\ IsFiniteSet(Closers)
    /\ Simulate \in BOOLEAN /\ MaxConns \in Nat /\ MaxFaults \in Nat

VARIABLES
    stage,      \* of submit_transaction(p): idle, simulating, returned, failed
    task,       \* of the detached task
    future,     \* _final_future
    waiter,     \* of a caller's wait()
    inflight,   \* _inflight
    closer,     \* of each call of close()
    snapshot,   \* its pendings
    conn,       \* the channel's connection; 0: none
    age,        \* of it, against max_age_secs: "none", "young", "old"
    open,       \* connections that are not closed
    draining,   \* those a _cleanup_task will close
    call,       \* the connection each submission's RPC is on
    conns, faults,
    settled     \* history: submissions that had ended when a close() returned

pending == <<stage, task, future, waiter, inflight>>
closing == <<closer, snapshot, settled>>
channel == <<conn, age, open, draining, call, conns>>
vars    == <<pending, closing, channel, faults>>

None       == 0
Connecting == -1
Waits      == Ops \X Callers
Fault      == faults < MaxFaults /\ faults' = faults + 1

TypeOK ==
    /\ stage \in [Ops -> {"idle", "simulate", "returned", "failed"}]
    /\ task \in [Ops -> {"none", "running", "cancelling", "done"}]
    /\ future \in [Ops -> {"none", "pending", "answered", "cancelled"}]
    /\ waiter \in [Waits -> {"no", "waiting", "answered", "cancelled"}]
    /\ inflight \subseteq Ops
    /\ closer \in [Closers -> {"idle", "events", "gather", "closed", "unwind", "cancelled"}]
    /\ snapshot \in [Closers -> SUBSET Ops]
    /\ settled \in [Closers -> SUBSET Ops]
    /\ conn \in 0..conns /\ conns \in 0..MaxConns /\ faults \in 0..MaxFaults
    /\ age \in {"none", "young", "old"}
    /\ open \subseteq 1..conns /\ draining \subseteq open
    /\ conn # None => conn \in open \ draining
    /\ call \in [Ops -> Connecting..MaxConns]
    /\ \A p \in Ops : task[p] # "none" <=> stage[p] = "returned"
    /\ \A p \in Ops : call[p] # None => stage[p] = "simulate" \/ task[p] \in {"running", "cancelling"}

Init ==
    /\ stage = [p \in Ops |-> "idle"] /\ task = [p \in Ops |-> "none"]
    /\ future = [p \in Ops |-> "none"] /\ waiter = [w \in Waits |-> "no"]
    /\ inflight = {}
    /\ closer = [c \in Closers |-> "idle"] /\ snapshot = [c \in Closers |-> {}]
    /\ settled = [c \in Closers |-> {}]
    /\ conn = None /\ age = "none" /\ open = {} /\ draining = {}
    /\ call = [p \in Ops |-> None] /\ conns = 0 /\ faults = 0

-----------------------------------------------------------------------------
(* Submission.                                                             *)

(* The task is created and held, and the caller gets the PendingTx.        *)
Launch(p) ==
    /\ stage' = [stage EXCEPT ![p] = "returned"]
    /\ task' = [task EXCEPT ![p] = "running"]
    /\ future' = [future EXCEPT ![p] = "pending"]
    /\ inflight' = inflight \cup {p}

SubmitTransaction(p) ==
    /\ stage[p] = "idle"
    /\ IF Simulate
       THEN /\ stage' = [stage EXCEPT ![p] = "simulate"]
            /\ UNCHANGED <<task, future, inflight>>
       ELSE Launch(p)
    /\ UNCHANGED <<waiter, closing, channel, faults>>

(* The simulation and the fee preview end, with or without an estimate, or *)
(* the fee is refused.                                                     *)
Simulated(p) ==
    /\ stage[p] = "simulate" /\ call[p] = None
    /\ \/ Launch(p)
       \/ stage' = [stage EXCEPT ![p] = "failed"] /\ UNCHANGED <<task, future, inflight>>
    /\ UNCHANGED <<waiter, closing, channel, faults>>

(* The task ends and resolves the future, unless that is done.             *)
TaskEnds(p) ==
    /\ task[p] = "running" /\ call[p] = None
    /\ task' = [task EXCEPT ![p] = "done"]
    /\ future' = [future EXCEPT ![p] = IF @ = "pending" THEN "answered" ELSE @]
    /\ UNCHANGED <<stage, waiter, inflight, closing, channel, faults>>

(* The cancellation reaches the task; no handler of it catches that.       *)
TaskCancelled(p) ==
    /\ task[p] = "cancelling"
    /\ task' = [task EXCEPT ![p] = "done"]
    /\ call' = [call EXCEPT ![p] = None]
    /\ UNCHANGED <<stage, future, waiter, inflight, closing, conn, age, open, draining,
                   conns, faults>>

(* The done callback.                                                      *)
Discard(p) ==
    /\ task[p] = "done" /\ p \in inflight
    /\ inflight' = inflight \ {p}
    /\ UNCHANGED <<stage, task, future, waiter, closing, channel, faults>>

(* task.cancel() of each of these.                                         *)
CancelTasks(ps) ==
    task' = [p \in Ops |-> IF p \in ps /\ task[p] = "running" THEN "cancelling" ELSE task[p]]

-----------------------------------------------------------------------------
(* PendingTx.wait().                                                       *)

Wait(p, i) ==
    /\ stage[p] = "returned" /\ waiter[<<p, i>>] = "no"
    /\ waiter' = [waiter EXCEPT ![<<p, i>>] = "waiting"]
    /\ UNCHANGED <<stage, task, future, inflight, closing, channel, faults>>

(* The future is done.  A waiter that finds it cancelled cancels the task. *)
WaitEnds(p, i) ==
    /\ waiter[<<p, i>>] = "waiting" /\ future[p] # "pending"
    /\ waiter' = [waiter EXCEPT ![<<p, i>>] = future[p]]
    /\ IF future[p] = "cancelled" THEN CancelTasks({p}) ELSE UNCHANGED task
    /\ UNCHANGED <<stage, future, inflight, closing, channel, faults>>

(* The waiting caller is cancelled, and with it the future it shares.      *)
WaitCancelled(p, i) ==
    /\ waiter[<<p, i>>] = "waiting" /\ future[p] = "pending" /\ Fault
    /\ waiter' = [waiter EXCEPT ![<<p, i>>] = "cancelled"]
    /\ future' = [future EXCEPT ![p] = "cancelled"]
    /\ CancelTasks({p})
    /\ UNCHANGED <<stage, inflight, closing, channel>>

-----------------------------------------------------------------------------
(* close().                                                                *)

(* The subscriber is stopped first.                                        *)
Close(c) ==
    /\ closer[c] = "idle"
    /\ closer' = [closer EXCEPT ![c] = "events"]
    /\ UNCHANGED <<pending, snapshot, settled, channel, faults>>

(* TxManager.close() takes its pendings and cancels their tasks.           *)
CancelInflight(c) ==
    /\ closer[c] = "events"
    /\ closer' = [closer EXCEPT ![c] = "gather"]
    /\ snapshot' = [snapshot EXCEPT ![c] = inflight]
    /\ CancelTasks(inflight)
    /\ UNCHANGED <<stage, future, waiter, inflight, settled, channel, faults>>

(* Mutant of CloseChannel: the closed connection stays in use.             *)
CloseChannel_Kept ==
    /\ open' = open \ {conn} /\ UNCHANGED <<conn, age, draining, conns>>
    /\ call' = [p \in Ops |-> IF call[p] = conn THEN None ELSE call[p]]

(* Channel.close().                                                        *)
CloseChannel ==
    /\ open' = open \ {conn} /\ conn' = None /\ age' = "none"
    /\ call' = [p \in Ops |-> IF call[p] = conn THEN None ELSE call[p]]
    /\ UNCHANGED <<draining, conns>>

(* Mutant of Resolve: the futures of the cancelled tasks are left pending. *)
Resolve_Not(ps) == UNCHANGED future

Resolve(ps) ==
    future' = [p \in Ops |-> IF p \in ps /\ future[p] = "pending" THEN "cancelled" ELSE future[p]]

(* The tasks are gathered; what is left is resolved and forgotten.         *)
Gathered(c) ==
    /\ closer[c] = "gather" /\ \A p \in snapshot[c] : task[p] = "done"
    /\ closer' = [closer EXCEPT ![c] = "closed"]
    /\ Resolve(snapshot[c])
    /\ inflight' = {}
    /\ CloseChannel
    /\ settled' = [settled EXCEPT ![c] = {p \in Ops : stage[p] = "failed" \/ task[p] = "done"}]
    /\ UNCHANGED <<stage, task, waiter, snapshot, faults>>

(* The caller of close() is cancelled, by its own deadline say.  At the    *)
(* subscriber's stop nothing has been taken yet.  At the gather, which is  *)
(* awaited only if there are tasks, the tasks are cancelled once more, and *)
(* the cancellation is raised when they have all ended.                    *)
CloseCancelled(c) ==
    /\ Fault
    /\ \/ /\ closer[c] = "events"
          /\ closer' = [closer EXCEPT ![c] = "cancelled"] /\ UNCHANGED task
       \/ /\ closer[c] = "gather" /\ snapshot[c] # {}
          /\ closer' = [closer EXCEPT ![c] = "unwind"] /\ CancelTasks(snapshot[c])
    /\ UNCHANGED <<stage, future, waiter, inflight, snapshot, settled, channel>>

(* Neither are the futures resolved then, nor is the channel closed.       *)
Unwound(c) ==
    /\ closer[c] = "unwind" /\ \A p \in snapshot[c] : task[p] = "done"
    /\ closer' = [closer EXCEPT ![c] = "cancelled"]
    /\ UNCHANGED <<pending, snapshot, settled, channel, faults>>

-----------------------------------------------------------------------------
(* The channel.                                                            *)

Calling(p) == stage[p] = "simulate" \/ task[p] = "running"

(* Mutant of Replace: nothing closes the replaced connection.              *)
Replace_Forgotten == conn' = None /\ age' = "none" /\ UNCHANGED draining

(* An old connection is taken out of use and left to its cleanup task.     *)
Replace ==
    /\ draining' = draining \cup {conn}
    /\ conn' = None /\ age' = "none"

(* __connect__ of a call: at once, or after a new connection.              *)
Connect(p) ==
    /\ Calling(p) /\ call[p] = None
    /\ \/ /\ conn # None /\ age = "old" /\ Replace
          /\ call' = [call EXCEPT ![p] = Connecting]
       \/ /\ conn # None /\ age # "old"
          /\ call' = [call EXCEPT ![p] = conn] /\ UNCHANGED <<conn, age, draining>>
       \/ /\ conn = None
          /\ call' = [call EXCEPT ![p] = Connecting] /\ UNCHANGED <<conn, age, draining>>
    /\ UNCHANGED <<pending, closing, open, conns, faults>>

(* super().__connect__() returns: the connection of another call that went *)
(* first, or a new one.  Either way the age is counted from here.          *)
Connected(p) ==
    /\ call[p] = Connecting
    /\ IF conn = None
       THEN /\ conns < MaxConns /\ conns' = conns + 1
            /\ conn' = conns + 1 /\ open' = open \cup {conns + 1}
       ELSE UNCHANGED <<conn, conns, open>>
    /\ age' = "young"
    /\ call' = [call EXCEPT ![p] = conn']
    /\ UNCHANGED <<pending, closing, draining, faults>>

(* The call is answered, or fails or passes its deadline at any point.     *)
CallEnds(p) ==
    /\ call[p] # None
    /\ call' = [call EXCEPT ![p] = None]
    /\ UNCHANGED <<pending, closing, conn, age, open, draining, conns, faults>>

(* max_age_secs pass.                                                      *)
Ages ==
    /\ age = "young" /\ age' = "old"
    /\ UNCHANGED <<pending, closing, conn, open, draining, call, conns, faults>>

(* drain_window_secs have passed: the old connection is closed, and what   *)
(* is still on it fails.                                                   *)
DrainEnds(o) ==
    /\ o \in draining
    /\ draining' = draining \ {o} /\ open' = open \ {o}
    /\ call' = [p \in Ops |-> IF call[p] = o THEN None ELSE call[p]]
    /\ UNCHANGED <<pending, closing, conn, age, conns, faults>>

(* The connection in use breaks: for the channel as if it was closed.      *)
Break ==
    /\ conn # None /\ Fault
    /\ CloseChannel
    /\ UNCHANGED <<pending, closing>>

-----------------------------------------------------------------------------
TaskStep(p) == TaskEnds(p) \/ TaskCancelled(p) \/ Connected(p) \/ CallEnds(p)
CloserStep(c) == CancelInflight(c) \/ Gathered(c) \/ Unwound(c)

Next ==
    \/ \E p \in Ops :
         \/ SubmitTransaction(p) \/ Simulated(p) \/ TaskStep(p) \/ Discard(p) \/ Connect(p)
         \/ \E i \in Callers : Wait(p, i) \/ WaitEnds(p, i) \/ WaitCancelled(p, i)
    \/ \E c \in Closers : Close(c) \/ CloserStep(c) \/ CloseCancelled(c)
    \/ Ages \/ Break
    \/ \E o \in draining : DrainEnds(o)

(* Every call has a deadline, and a submission makes finitely many; the    *)
(* loop runs what is ready.                                                *)
Fairness ==
    /\ \A p \in Ops : SF_vars(TaskEnds(p)) /\ WF_vars(TaskCancelled(p) \/ CallEnds(p))
    /\ WF_vars(\E w \in Waits : WaitEnds(w[1], w[2]))
    /\ WF_vars(\E c \in Closers : CloserStep(c))

Spec == Init /\ [][Next]_vars /\ Fairness

-----------------------------------------------------------------------------
(* What was in flight when a close() looked is at rest when it returns, or *)
(* raises the cancellation of its caller: the tasks have ended and no call *)
(* of theirs is left.  If it returns, every future is resolved, so that    *)
(* nobody waits for an operation that was stopped -- with cancelled        *)
(* waiters, tasks that end by themselves, and a second close() in between  *)
(* (TxManager.close).                                                      *)
ClosedIsQuiet ==
    \A c \in Closers : closer[c] \in {"closed", "cancelled"} =>
        \A p \in snapshot[c] :
            /\ task[p] = "done" /\ call[p] = None
            /\ closer[c] = "closed" => future[p] # "pending"

(* After close() no connection stays open but those that a cleanup task is *)
(* about to close, provided that no submission was on its way around it:   *)
(* replaced and broken connections and cancelled calls leave none behind.  *)
ConnectionsEnd ==
    \A c \in Closers :
        /\ closer[c] = "closed"
        /\ \A p \in Ops : stage[p] = "idle" \/ p \in settled[c]
        => open \subseteq draining

(* Whoever waits for a submission gets an answer or a cancellation,        *)
(* however the tasks end, waiters are cancelled, connections break and two *)
(* calls of close() overlap, with the one exception the code leaves: a     *)
(* submission that was stopped by a close() that was cancelled at its      *)
(* gather, and that no other close() resolves.  A caller waits once, so it *)
(* is enough that again and again nobody else waits.                       *)
Orphaned(p) ==
    /\ task[p] = "done" /\ future[p] = "pending"
    /\ \E c \in Closers : closer[c] \in {"unwind", "cancelled"} /\ p \in snapshot[c]
WaitersAnswered ==
    []<>(\A w \in Waits : waiter[w] = "waiting" => Orphaned(w[1]))
================================================================================
