-------------------------- MODULE ClientShutdownProofs --------------------------
(***************************************************************************)
(* What ClientShutdown promises around close(), for any number of          *)
(* submissions, waiters, calls of close(), connections and faults: what    *)
(* was in flight is at rest, and no connection is left behind.             *)
(***************************************************************************)
EXTENDS ClientShutdown, TLAPS

(* TypeOK in four parts.                                                   *)
PendingType ==
    /\ stage \in [Ops -> {"idle", "simulate", "returned", "failed"}]
    /\ task \in [Ops -> {"none", "running", "cancelling", "done"}]
    /\ future \in [Ops -> {"none", "pending", "answered", "cancelled"}]
    /\ waiter \in [Waits -> {"no", "waiting", "answered", "cancelled"}]
    /\ inflight \subseteq Ops

ClosingType ==
    /\ closer \in [Closers -> {"idle", "events", "gather", "closed", "unwind", "cancelled"}]
    /\ snapshot \in [Closers -> SUBSET Ops]
    /\ settled \in [Closers -> SUBSET Ops]

ChannelType ==
    /\ conn \in 0..conns /\ conns \in 0..MaxConns /\ faults \in 0..MaxFaults
    /\ age \in {"none", "young", "old"}
    /\ open \subseteq 1..conns /\ draining \subseteq open
    /\ conn # None => conn \in open \ draining

StageInv ==
    /\ call \in [Ops -> Connecting..MaxConns]
    /\ \A p \in Ops : task[p] # "none" <=> stage[p] = "returned"
    /\ \A p \in Ops : call[p] # None => stage[p] = "simulate" \/ task[p] \in {"running", "cancelling"}

(* The parts are the whole.                                                *)
LEMMA TypeParts == TypeOK <=> PendingType /\ ClosingType /\ ChannelType /\ StageInv
BY DEF TypeOK, PendingType, ClosingType, ChannelType, StageInv

(* A future exists from launch on, and only then is it waited for.         *)
FutureInv ==
    /\ \A p \in Ops : future[p] = "none" <=> stage[p] # "returned"
    /\ \A p \in Ops, i \in Callers : waiter[<<p, i>>] = "waiting" => stage[p] = "returned"

(* What a close() took is being cancelled, and at rest once it is over.    *)
QuietInv ==
    /\ \A p \in inflight : stage[p] = "returned"
    /\ \A c \in Closers : closer[c] \in {"idle", "events"} => snapshot[c] = {}
    /\ \A c \in Closers : closer[c] \in {"gather", "closed", "unwind"} =>
           \A p \in snapshot[c] : task[p] \in {"cancelling", "done"}
    /\ \A c \in Closers : closer[c] \in {"closed", "cancelled"} =>
           \A p \in snapshot[c] : task[p] = "done"
    /\ \A c \in Closers : closer[c] = "closed" =>
           \A p \in snapshot[c] : future[p] # "pending"

(* Only the connection in use is open beside those being drained.          *)
OpenInv == open \subseteq draining \cup {conn}

(* After a close() around which nothing was on its way there is none.      *)
Around(c) == \A p \in Ops : stage[p] = "idle" \/ p \in settled[c]

SettledInv ==
    /\ \A c \in Closers : \A p \in settled[c] : stage[p] = "failed" \/ task[p] = "done"
    /\ \A c \in Closers : closer[c] = "closed" /\ Around(c) => conn = None

IInv ==
    /\ PendingType /\ ClosingType /\ ChannelType /\ StageInv
    /\ FutureInv /\ QuietInv /\ OpenInv /\ SettledInv

(* The inductive invariant holds in the initial state.                     *)
LEMMA InitIInv == Init => IInv
<1> SUFFICES ASSUME Init PROVE IInv
  OBVIOUS
<1> USE ShutdownAssumption DEF Init, None, Connecting
<1>1. PendingType /\ ClosingType
  BY DEF PendingType, ClosingType, Waits
<1>2. ChannelType /\ StageInv
  BY DEF ChannelType, StageInv
<1>3. FutureInv /\ QuietInv /\ OpenInv /\ SettledInv
  BY DEF FutureInv, QuietInv, OpenInv, SettledInv, Waits
<1> QED BY <1>1, <1>2, <1>3 DEF IInv

(* A new connection is one more, and in use.                               *)
LEMMA NewConnection ==
    ASSUME ChannelType, OpenInv, conn = None, conns < MaxConns,
           conns' = conns + 1, conn' = conns + 1, open' = open \cup {conns + 1},
           draining' = draining, age' = "young", faults' = faults
    PROVE  ChannelType' /\ OpenInv'
<1>1. conns + 1 \in 1..MaxConns /\ conns + 1 \notin open
  BY ShutdownAssumption DEF ChannelType
<1>2. ChannelType'
  BY <1>1, ShutdownAssumption DEF ChannelType
<1>3. OpenInv'
  BY DEF OpenInv, ChannelType, None
<1> QED BY <1>2, <1>3

(* A submission is launched by a task that did not exist.                  *)
LEMMA SubmitKeeps ==
    ASSUME IInv, NEW p \in Ops, SubmitTransaction(p) \/ Simulated(p)
    PROVE  IInv'
<1> USE ShutdownAssumption DEF IInv, SubmitTransaction, Simulated, Launch, closing, channel, pending, None, Connecting
<1>1. PendingType'
  BY DEF PendingType, FutureInv, Waits
<1>2. ClosingType'
  BY DEF PendingType, ClosingType
<1>3. ChannelType'
  BY DEF ChannelType
<1>4. StageInv'
  BY DEF PendingType, ChannelType, StageInv, FutureInv
<1>5. FutureInv'
  BY DEF PendingType, StageInv, FutureInv, Waits
<1>6. QuietInv'
  BY DEF PendingType, ClosingType, StageInv, FutureInv, QuietInv
<1>7. OpenInv'
  BY DEF ChannelType, OpenInv
<1>8. SettledInv'
  BY DEF PendingType, ClosingType, ChannelType, StageInv, SettledInv, Around
<1> QED BY <1>1, <1>2, <1>3, <1>4, <1>5, <1>6, <1>7, <1>8 DEF IInv

(* A task ends with no call left; a cancelled one leaves its future alone. *)
LEMMA TaskKeeps ==
    ASSUME IInv, NEW p \in Ops, TaskEnds(p) \/ TaskCancelled(p) \/ Discard(p)
    PROVE  IInv'
<1> USE ShutdownAssumption DEF IInv, TaskEnds, TaskCancelled, Discard, closing, channel, pending, None, Connecting
<1>1. PendingType'
  BY DEF PendingType, FutureInv, Waits
<1>2. ClosingType'
  BY DEF PendingType, ClosingType
<1>3. ChannelType'
  BY DEF ChannelType
<1>4. StageInv'
  BY DEF PendingType, ChannelType, StageInv, FutureInv
<1>5. FutureInv'
  BY DEF PendingType, StageInv, FutureInv, Waits
<1>6. QuietInv'
  BY DEF PendingType, ClosingType, StageInv, FutureInv, QuietInv
<1>7. OpenInv'
  BY DEF ChannelType, OpenInv
<1>8. SettledInv'
  BY DEF PendingType, ClosingType, ChannelType, StageInv, SettledInv, Around
<1> QED BY <1>1, <1>2, <1>3, <1>4, <1>5, <1>6, <1>7, <1>8 DEF IInv

(* Waiting only resolves a future, and only cancels.                       *)
LEMMA WaitKeeps ==
    ASSUME IInv, NEW p \in Ops, NEW i \in Callers, Wait(p, i) \/ WaitEnds(p, i) \/ WaitCancelled(p, i)
    PROVE  IInv'
<1> USE ShutdownAssumption DEF IInv, Wait, WaitEnds, WaitCancelled, CancelTasks, Fault, closing, channel, pending, None, Connecting
<1>1. PendingType'
  <2>1. CASE Wait(p, i)
    BY <2>1 DEF PendingType, FutureInv, Waits
  <2>2. CASE WaitEnds(p, i)
    BY <2>2 DEF PendingType, FutureInv, Waits
  <2>3. CASE WaitCancelled(p, i)
    BY <2>3 DEF PendingType, FutureInv, Waits
  <2> QED BY <2>1, <2>2, <2>3
<1>2. ClosingType'
  BY DEF PendingType, ClosingType
<1>3. ChannelType'
  <2>1. CASE Wait(p, i)
    BY <2>1 DEF ChannelType
  <2>2. CASE WaitEnds(p, i)
    BY <2>2 DEF ChannelType
  <2>3. CASE WaitCancelled(p, i)
    BY <2>3 DEF ChannelType
  <2> QED BY <2>1, <2>2, <2>3
<1>4. StageInv'
  BY DEF PendingType, ChannelType, StageInv, FutureInv
<1>5. FutureInv'
  BY DEF PendingType, StageInv, FutureInv, Waits
<1>6. QuietInv'
  BY DEF PendingType, ClosingType, StageInv, FutureInv, QuietInv
<1>7. OpenInv'
  BY DEF ChannelType, OpenInv
<1>8. SettledInv'
  BY DEF PendingType, ClosingType, ChannelType, StageInv, SettledInv, Around
<1> QED BY <1>1, <1>2, <1>3, <1>4, <1>5, <1>6, <1>7, <1>8 DEF IInv

(* A close() cancels what it takes, also when it is cancelled itself.      *)
LEMMA CloseKeeps ==
    ASSUME IInv, NEW c \in Closers, Close(c) \/ CancelInflight(c) \/ CloseCancelled(c) \/ Unwound(c)
    PROVE  IInv'
<1> USE ShutdownAssumption DEF IInv, Close, CancelInflight, CloseCancelled, Unwound, CancelTasks, Fault, closing, channel, pending, None, Connecting
<1>1. PendingType'
  BY DEF PendingType, FutureInv, Waits
<1>2. ClosingType'
  BY DEF PendingType, ClosingType
<1>3. ChannelType'
  <2>1. CASE CloseCancelled(c)
    BY <2>1 DEF ChannelType
  <2>2. CASE Close(c) \/ CancelInflight(c) \/ Unwound(c)
    BY <2>2 DEF ChannelType
  <2> QED BY <2>1, <2>2
<1>4. StageInv'
  BY DEF PendingType, ChannelType, StageInv, FutureInv
<1>5. FutureInv'
  BY DEF PendingType, StageInv, FutureInv, Waits
<1>6. QuietInv'
  BY DEF PendingType, ClosingType, StageInv, FutureInv, QuietInv
<1>7. OpenInv'
  BY DEF ChannelType, OpenInv
<1>8. SettledInv'
  BY DEF PendingType, ClosingType, ChannelType, StageInv, SettledInv, Around
<1> QED BY <1>1, <1>2, <1>3, <1>4, <1>5, <1>6, <1>7, <1>8 DEF IInv

(* When the tasks are gathered, the futures follow and the channel closes. *)
LEMMA GatheredKeeps ==
    ASSUME IInv, NEW c \in Closers, Gathered(c)
    PROVE  IInv'
<1> USE ShutdownAssumption DEF IInv, Gathered, Resolve, CloseChannel, closing, channel, pending, None, Connecting
<1>1. PendingType'
  BY DEF PendingType, FutureInv, Waits
<1>2. ClosingType'
  BY DEF PendingType, ClosingType
<1>3. ChannelType'
  BY DEF ChannelType
<1>4. StageInv'
  BY DEF PendingType, ChannelType, StageInv, FutureInv
<1>5. FutureInv'
  BY DEF PendingType, StageInv, FutureInv, Waits
<1>6. QuietInv'
  BY DEF PendingType, ClosingType, StageInv, FutureInv, QuietInv
<1>7. OpenInv'
  BY DEF ChannelType, OpenInv
<1>8. SettledInv'
  BY DEF PendingType, ClosingType, ChannelType, StageInv, SettledInv, Around
<1> QED BY <1>1, <1>2, <1>3, <1>4, <1>5, <1>6, <1>7, <1>8 DEF IInv

(* Only a task that is on its way opens a connection.                      *)
LEMMA CallKeeps ==
    ASSUME IInv, NEW p \in Ops, Connect(p) \/ Connected(p) \/ CallEnds(p)
    PROVE  IInv'
<1> USE ShutdownAssumption DEF IInv, Connect, Connected, CallEnds, Replace, Calling, closing, channel, pending, None, Connecting
<1>1. PendingType'
  BY DEF PendingType, FutureInv, Waits
<1>2. ClosingType'
  BY DEF PendingType, ClosingType
<1>3. ChannelType'
  <2>1. CASE Connect(p)
    BY <2>1 DEF ChannelType
  <2>2. CASE Connected(p)
    <3>1. CASE conn = None
      BY <2>2, <3>1, NewConnection DEF channel
    <3>2. CASE conn # None
      BY <2>2, <3>2 DEF ChannelType
    <3> QED BY <3>1, <3>2
  <2>3. CASE CallEnds(p)
    BY <2>3 DEF ChannelType
  <2> QED BY <2>1, <2>2, <2>3
<1>4. StageInv'
  BY DEF PendingType, ChannelType, StageInv, FutureInv
<1>5. FutureInv'
  BY DEF PendingType, StageInv, FutureInv, Waits
<1>6. QuietInv'
  BY DEF PendingType, ClosingType, StageInv, FutureInv, QuietInv
<1>7. OpenInv'
  <2>1. CASE Connect(p)
    BY <2>1 DEF ChannelType, OpenInv
  <2>2. CASE Connected(p)
    <3>1. CASE conn = None
      BY <2>2, <3>1, NewConnection DEF channel
    <3>2. CASE conn # None
      BY <2>2, <3>2 DEF ChannelType, OpenInv
    <3> QED BY <3>1, <3>2
  <2>3. CASE CallEnds(p)
    BY <2>3 DEF ChannelType, OpenInv
  <2> QED BY <2>1, <2>2, <2>3
<1>8. SettledInv'
  BY DEF PendingType, ClosingType, ChannelType, StageInv, SettledInv, Around
<1> QED BY <1>1, <1>2, <1>3, <1>4, <1>5, <1>6, <1>7, <1>8 DEF IInv

(* The connections age, drain and break.                                   *)
LEMMA ChannelKeeps ==
    ASSUME IInv, Ages \/ Break \/ (\E o \in draining : DrainEnds(o))
    PROVE  IInv'
<1> USE ShutdownAssumption DEF IInv, Ages, Break, DrainEnds, CloseChannel, Fault, closing, channel, pending, None, Connecting
<1>1. PendingType'
  BY DEF PendingType, FutureInv, Waits
<1>2. ClosingType'
  BY DEF PendingType, ClosingType
<1>3. ChannelType'
  BY DEF ChannelType
<1>4. StageInv'
  BY DEF PendingType, ChannelType, StageInv, FutureInv
<1>5. FutureInv'
  BY DEF PendingType, StageInv, FutureInv, Waits
<1>6. QuietInv'
  BY DEF PendingType, ClosingType, StageInv, FutureInv, QuietInv
<1>7. OpenInv'
  BY DEF ChannelType, OpenInv
<1>8. SettledInv'
  BY DEF PendingType, ClosingType, ChannelType, StageInv, SettledInv, Around
<1> QED BY <1>1, <1>2, <1>3, <1>4, <1>5, <1>6, <1>7, <1>8 DEF IInv

(* Stuttering changes nothing.                                             *)
LEMMA StutterKeeps ==
    ASSUME IInv, UNCHANGED vars
    PROVE  IInv'
<1> USE ShutdownAssumption DEF IInv, vars, closing, channel, pending, None, Connecting
<1>1. PendingType'
  BY DEF PendingType, FutureInv, Waits
<1>2. ClosingType'
  BY DEF PendingType, ClosingType
<1>3. ChannelType'
  BY DEF ChannelType
<1>4. StageInv'
  BY DEF PendingType, ChannelType, StageInv, FutureInv
<1>5. FutureInv'
  BY DEF PendingType, StageInv, FutureInv, Waits
<1>6. QuietInv'
  BY DEF PendingType, ClosingType, StageInv, FutureInv, QuietInv
<1>7. OpenInv'
  BY DEF ChannelType, OpenInv
<1>8. SettledInv'
  BY DEF PendingType, ClosingType, ChannelType, StageInv, SettledInv, Around
<1> QED BY <1>1, <1>2, <1>3, <1>4, <1>5, <1>6, <1>7, <1>8 DEF IInv

(* Every step preserves the inductive invariant.                           *)
LEMMA StepIInv == IInv /\ [Next]_vars => IInv'
BY SubmitKeeps, TaskKeeps, WaitKeeps, CloseKeeps, GatheredKeeps, CallKeeps, ChannelKeeps,
   StutterKeeps DEF Next, TaskStep, CloserStep

(* The inductive invariant holds throughout.                               *)
LEMMA Inductive == Spec => []IInv
<1>1. Init => IInv
  BY InitIInv
<1>2. IInv /\ [Next]_vars => IInv'
  BY StepIInv
<1> QED
  BY <1>1, <1>2, PTL DEF Spec

(* Every variable keeps its type: a connection in use is open and not      *)
(* being drained, and only a task that runs has a call                     *)
(* (ReconnectingGRPCChannel.__connect__, TxManager.close).                 *)
THEOREM TypeCorrect == Spec => []TypeOK
<1>1. IInv => TypeOK
  BY TypeParts DEF IInv
<1> QED
  BY <1>1, Inductive, PTL

(* When a close() returns, everything that was in flight when it looked is *)
(* at rest, and its futures are resolved (TxManager.close).                *)
THEOREM CloseIsQuiet == Spec => []ClosedIsQuiet
<1>1. IInv => ClosedIsQuiet
  BY DEF IInv, ClosedIsQuiet, QuietInv, StageInv, ClosingType
<1> QED
  BY <1>1, Inductive, PTL

(* After a close() that nothing went around, only connections that are     *)
(* being drained are open (AlloraRPCClient.close).                         *)
THEOREM CloseLeavesNone == Spec => []ConnectionsEnd
<1>1. IInv => ConnectionsEnd
  BY DEF IInv, ConnectionsEnd, SettledInv, OpenInv, ChannelType, Around, None
<1> QED
  BY <1>1, Inductive, PTL
================================================================================
