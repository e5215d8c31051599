-------------------------- MODULE WorkerNoncesProofs ---------------------------
(***************************************************************************)
(* What the lock, the selection of nonces and the remembered answers of    *)
(* WorkerNonces guarantee, for any number of workers, callers, windows,    *)
(* events and faults.                                                      *)
(***************************************************************************)
EXTENDS WorkerNonces, SequenceTheorems, WellFoundedInduction, TLAPS

(* The lock's line holds those who are not idle, each once.                *)
Record == [at : Stages, nonce : 0..MaxNonce, todo : SUBSET Nonces, gap : Int, excused : BOOLEAN]
CallerType == caller \in [Callers -> Record]

LineInv ==
    /\ line \in Seq(Callers) /\ IsInjective(line)
    /\ ToSet(line) = {c \in Callers : caller[c].at # "idle"}

(* Only its head is past waiting.                                          *)
MutexInv == \A c \in Callers : caller[c].at \notin {"idle", "waiting"} => Holds(c)

LockInv == CallerType /\ LineInv /\ MutexInv

-----------------------------------------------------------------------------
(* Operators.                                                              *)

(* The record of a caller that does nothing.                               *)
LEMMA IdleRecord ==
    /\ Idle \in Record
    /\ Idle.at = "idle" /\ Idle.nonce = 0 /\ Idle.todo = {}
BY WorkerAssumption DEF Idle, Record, Stages

(* A nonempty set of naturals has a least element.                         *)
LEMMA LeastExists ==
    ASSUME NEW S \in SUBSET Nat, S # {}
    PROVE  Least(S) \in S /\ \A n \in S : Least(S) <= n
<1>1. PICK x \in S : \A y \in S : ~(<<y, x>> \in OpToRel(<, Nat))
  BY NatLessThanWellFounded, WFMin
<1>2. ASSUME NEW y \in S PROVE x <= y
  <2>1. x \in Nat /\ y \in Nat
    OBVIOUS
  <2>2. y < x => <<y, x>> \in OpToRel(<, Nat)
    BY <2>1, Zenon DEF OpToRel
  <2>3. ~(y < x)
    BY <1>1, <2>2, Zenon
  <2> QED BY <2>1, <2>3
<1> QED BY <1>2 DEF Least

(* What RemoveAt leaves.                                                   *)
LEMMA RemoveAtElements ==
    ASSUME NEW S, NEW s \in Seq(S), NEW k \in 1..Len(s)
    PROVE  /\ RemoveAt(s, k) \in Seq(S)
           /\ Len(RemoveAt(s, k)) = Len(s) - 1
           /\ \A i \in 1..(Len(s) - 1) : RemoveAt(s, k)[i] = IF i < k THEN s[i] ELSE s[i + 1]
<1> DEFINE a == SubSeq(s, 1, k - 1)
           b == SubSeq(s, k + 1, Len(s))
<1>1. /\ a \in Seq(S) /\ Len(a) = k - 1
      /\ \A i \in 1..(k - 1) : a[i] = s[i]
  OBVIOUS
<1>2. /\ b \in Seq(S) /\ Len(b) = Len(s) - k
      /\ \A i \in 1..(Len(s) - k) : b[i] = s[k + i]
  OBVIOUS
<1>3. /\ a \o b \in Seq(S) /\ Len(a \o b) = Len(s) - 1
      /\ \A i \in 1..(Len(s) - 1) : (a \o b)[i] = IF i <= k - 1 THEN a[i] ELSE b[i - (k - 1)]
  <2> HIDE DEF a, b
  <2> QED BY <1>1, <1>2, ConcatProperties
<1>4. \A i \in 1..(Len(s) - 1) : (a \o b)[i] = IF i < k THEN s[i] ELSE s[i + 1]
  <2> HIDE DEF a, b
  <2> QED BY <1>1, <1>2, <1>3
<1> QED BY <1>3, <1>4 DEF RemoveAt

-----------------------------------------------------------------------------
(* The lock.                                                               *)

(* Who joins stands at the end of the line.                                *)
LEMMA JoinLock ==
    ASSUME LockInv, NEW c, NEW n \in 0..MaxNonce, Join(c, n)
    PROVE  LockInv'
<1>1. /\ c \in Callers /\ caller[c].at = "idle" /\ line' = Append(line, c)
      /\ caller' = [caller EXCEPT ![c] = [Idle EXCEPT !.at = "waiting", !.nonce = n]]
  BY DEF Join
<1>2. CallerType'
  <2>1. [Idle EXCEPT !.at = "waiting", !.nonce = n] \in Record
    BY IdleRecord DEF Record, Stages
  <2> QED BY <1>1, <2>1 DEF LockInv, CallerType
<1>3. \A d \in Callers : caller'[d].at = IF d = c THEN "waiting" ELSE caller[d].at
  BY <1>1, IdleRecord DEF LockInv, CallerType, Record
<1>4. /\ line \in Seq(Callers) /\ line' \in Seq(Callers) /\ Len(line') = Len(line) + 1
      /\ \A i \in 1..Len(line) : line'[i] = line[i]
      /\ line'[Len(line) + 1] = c
  BY <1>1, AppendProperties DEF LockInv, LineInv
<1>5. DOMAIN line = 1..Len(line) /\ DOMAIN line' = 1..Len(line')
  BY <1>4
<1>6. c \notin ToSet(line) /\ \A i \in 1..Len(line) : line[i] # c
  BY <1>1, <1>5 DEF LockInv, LineInv, ToSet
<1>7. IsInjective(line')
  <2>1. \A i, j \in 1..Len(line) : line[i] = line[j] => i = j
    BY <1>5 DEF LockInv, LineInv, IsInjective
  <2> QED BY <2>1, <1>4, <1>5, <1>6 DEF IsInjective
<1>8. ToSet(line') = ToSet(line) \cup {c}
  <2>1. \A i \in 1..Len(line') : i \in 1..Len(line) \/ i = Len(line) + 1
    BY <1>4
  <2>2. Len(line) + 1 \in 1..Len(line') /\ \A i \in 1..Len(line) : i \in 1..Len(line')
    BY <1>4
  <2> QED BY <2>1, <2>2, <1>4, <1>5 DEF ToSet
<1>9. LineInv'
  BY <1>3, <1>4, <1>7, <1>8, <1>1 DEF LockInv, LineInv
<1>10. MutexInv'
  <2>1. ASSUME NEW d \in Callers, caller'[d].at \notin {"idle", "waiting"}
        PROVE  Len(line) > 0 /\ line[1] = d /\ d # c
    BY <1>3, <1>4, <2>1 DEF LockInv, MutexInv, Holds
  <2>2. ASSUME NEW d \in Callers, caller'[d].at \notin {"idle", "waiting"}
        PROVE  line' # <<>> /\ line'[1] = d
    BY <2>1, <2>2, <1>4
  <2> QED BY <2>2 DEF MutexInv, Holds
<1> QED BY <1>2, <1>9, <1>10 DEF LockInv

(* Who leaves was in the line once.  If it was the holder nobody is inside *)
(* any more, and otherwise the holder stays.                               *)
LEMMA LeaveLock ==
    ASSUME LockInv, NEW c \in Callers, caller[c].at # "idle", Leave(c)
    PROVE  LockInv'
<1>1. caller' = [caller EXCEPT ![c] = Idle]
  BY DEF Leave
<1>2. CallerType'
  BY <1>1, IdleRecord DEF LockInv, CallerType
<1>3. \A d \in Callers : caller'[d].at = IF d = c THEN "idle" ELSE caller[d].at
  BY <1>1, IdleRecord DEF LockInv, CallerType
<1> DEFINE k == CHOOSE i \in DOMAIN line : line[i] = c
<1>4. /\ k \in 1..Len(line) /\ line[k] = c
      /\ line \in Seq(Callers) /\ DOMAIN line = 1..Len(line)
  <2>1. line \in Seq(Callers) /\ DOMAIN line = 1..Len(line)
    BY DEF LockInv, LineInv
  <2>2. c \in ToSet(line)
    BY DEF LockInv, LineInv
  <2> QED BY <2>1, <2>2 DEF ToSet
<1>5. line' = RemoveAt(line, k)
  BY DEF Leave, Release
<1> HIDE DEF k
<1>6. /\ line' \in Seq(Callers) /\ Len(line') = Len(line) - 1 /\ DOMAIN line' = 1..Len(line')
      /\ \A i \in 1..(Len(line) - 1) : line'[i] = IF i < k THEN line[i] ELSE line[i + 1]
  <2>1. /\ line' \in Seq(Callers) /\ Len(line') = Len(line) - 1
        /\ \A i \in 1..(Len(line) - 1) : line'[i] = IF i < k THEN line[i] ELSE line[i + 1]
    BY <1>4, <1>5, RemoveAtElements
  <2> QED BY <2>1
<1>7. \A i, j \in 1..Len(line) : line[i] = line[j] => i = j
  BY <1>4 DEF LockInv, LineInv, IsInjective
<1>8. IsInjective(line')
  <2> SUFFICES ASSUME NEW i \in 1..Len(line'), NEW j \in 1..Len(line'), line'[i] = line'[j]
               PROVE  i = j
    BY <1>6 DEF IsInjective
  <2> DEFINE m(x) == IF x < k THEN x ELSE x + 1
  <2>1. m(i) \in 1..Len(line) /\ m(j) \in 1..Len(line) /\ line[m(i)] = line[m(j)]
    BY <1>4, <1>6
  <2>2. m(i) = m(j)
    BY <2>1, <1>7
  <2> QED BY <2>2, <1>4
<1>9. ToSet(line') = ToSet(line) \ {c}
  <2>1. ASSUME NEW i \in 1..Len(line') PROVE \E j \in 1..Len(line) : line'[i] = line[j] /\ j # k
    <3>1. CASE i < k
      BY <1>4, <1>6, <3>1
    <3>2. CASE i >= k
      <4>1. i + 1 \in 1..Len(line) /\ line'[i] = line[i + 1] /\ i + 1 # k
        BY <1>4, <1>6, <3>2
      <4> QED BY <4>1
    <3> QED BY <3>1, <3>2, <1>4
  <2>2. ASSUME NEW i \in 1..Len(line), i # k PROVE \E j \in 1..Len(line') : line'[j] = line[i]
    <3>1. CASE i < k
      <4>1. i \in 1..(Len(line) - 1)
        BY <1>4, <3>1
      <4> QED BY <1>4, <1>6, <3>1, <4>1
    <3>2. CASE i > k
      <4>1. i - 1 \in 1..(Len(line) - 1) /\ ~(i - 1 < k) /\ (i - 1) + 1 = i
        BY <1>4, <3>2
      <4>2. line'[i - 1] = line[i]
        BY <1>6, <4>1
      <4> QED BY <1>6, <4>1, <4>2
    <3> QED BY <2>2, <3>1, <3>2, <1>4
  <2>3. \A i \in 1..Len(line) : i # k <=> line[i] # c
    BY <1>4, <1>7
  <2>4. /\ ToSet(line) = {line[i] : i \in 1..Len(line)}
        /\ ToSet(line') = {line'[i] : i \in 1..Len(line')}
    BY <1>4, <1>6 DEF ToSet
  <2>5. ToSet(line') \subseteq ToSet(line) \ {c}
    BY <2>1, <2>3, <2>4
  <2>6. ToSet(line) \ {c} \subseteq ToSet(line')
    BY <1>4, <2>2, <2>4
  <2> QED BY <2>5, <2>6
<1>10. LineInv'
  BY <1>3, <1>6, <1>8, <1>9 DEF LockInv, LineInv
<1>11. MutexInv'
  <2> SUFFICES ASSUME NEW d \in Callers, caller'[d].at \notin {"idle", "waiting"}
               PROVE  line' # <<>> /\ line'[1] = d
    BY DEF MutexInv, Holds
  <2>1. d # c /\ Len(line) > 0 /\ line[1] = d
    BY <1>3, <1>4 DEF LockInv, MutexInv, Holds
  <2>2. k # 1
    BY <1>4, <2>1
  <2>3. 1 \in 1..(Len(line) - 1) /\ 1 < k
    BY <1>4, <2>2
  <2>4. line'[1] = line[1]
    BY <1>6, <2>3
  <2> QED BY <1>6, <2>1, <2>3, <2>4
<1> QED BY <1>2, <1>10, <1>11 DEF LockInv

(* Who goes on holds the lock.                                             *)
LEMMA StayLock ==
    ASSUME LockInv, CallerType', line' = line,
           \A d \in Callers : caller'[d].at = "idle" <=> caller[d].at = "idle",
           \A d \in Callers : caller'[d].at \notin {"idle", "waiting"} =>
                                  Holds(d) \/ caller[d].at \notin {"idle", "waiting"}
    PROVE  LockInv'
BY DEF LockInv, LineInv, MutexInv, Holds

(* The holder is alone.                                                    *)
LEMMA Alone ==
    ASSUME LockInv, NEW c \in Callers, caller[c].at \notin {"idle", "waiting"},
           NEW d \in Callers, d # c
    PROVE  caller[d].at \in {"idle", "waiting"}
BY DEF LockInv, MutexInv, Holds

-----------------------------------------------------------------------------
(* The inductive invariant.                                                *)

StateType ==
    /\ phase \in [Workers -> {"new", "init", "up", "stopped"}]
    /\ submitted \in [Workers -> SUBSET Nonces]
    /\ opened \in [Workers -> 0..MaxNonce] /\ closed \in [Workers -> 0..MaxNonce]
    /\ accepted \in [Workers -> SUBSET Nonces]
    /\ slot \in [Workers -> 0..MaxNonce]
    /\ limbo \in SUBSET (Workers \X Nonces)
    /\ events \in 0..MaxEvents /\ faults \in 0..MaxFaults
    /\ lost \in SUBSET (Workers \X Nonces)
    /\ settled \in [Workers -> SUBSET Nonces]

(* A reputer's payloads, also those abandoned, are for no nonce newer than *)
(* the oldest open one, so that its bundle is of that nonce.               *)
ChainInv ==
    /\ \A w \in Workers \ Sequential : accepted[w] = {}
    /\ \A w \in Sequential :
           /\ accepted[w] \subseteq {closed[w] + 1}
           /\ accepted[w] # {} => slot[w] = closed[w] + 1
    /\ \A w \in Sequential, n \in Nonces : <<w, n>> \in limbo => n <= closed[w] + 1
    /\ lost = {}

(* What is settled is remembered, and open.                                *)
AnswersInv == \A w \in Workers : settled[w] \subseteq submitted[w] \cap Open(w)

(* What a cycle has picked is not settled, and a reputer's not too new;    *)
(* the sequence it holds is the account's, unless it is excused.           *)
InLoop == {"predict", "hung", "sent", "balance"}

CallerInv(c) ==
    /\ caller[c].at \in {"waiting", "asking"} => caller[c].nonce <= opened[WorkerOf(c)]
    /\ caller[c].at \in InLoop =>
           caller[c].nonce \in Nonces /\ caller[c].nonce \notin caller[c].todo
    /\ WorkerOf(c) \in Sequential =>
           /\ \A n \in caller[c].todo : n <= closed[WorkerOf(c)] + 1
           /\ caller[c].at \in InLoop => caller[c].nonce <= closed[WorkerOf(c)] + 1
    /\ caller[c].at \in InLoop \cup {"account"} =>
           \A n \in caller[c].todo : n \notin settled[WorkerOf(c)]
    /\ caller[c].at = "predict" => caller[c].nonce \notin settled[WorkerOf(c)]
    /\ caller[c].at \in {"predict", "hung", "sent"} => caller[c].gap = 0 \/ caller[c].excused
    /\ caller[c].at = "balance" => caller[c].gap = -1 \/ caller[c].excused

CallersInv == \A c \in Callers : CallerInv(c)

IInv == LockInv /\ StateType /\ ChainInv /\ AnswersInv /\ CallersInv

(* The worker of a caller is one.                                          *)
LEMMA WorkerOfCaller == \A c \in Callers : WorkerOf(c) \in Workers
BY WorkerAssumption DEF WorkerOf

(* A caller that moves with the lock does not disturb the others.          *)
LEMMA OneMoves ==
    ASSUME LockInv, CallersInv, NEW c \in Callers,
           \A d \in Callers \ {c} : caller'[d] = caller[d],
           \A w \in Workers : opened'[w] >= opened[w] /\ closed'[w] >= closed[w],
           StateType, StateType',
           \/ \A w \in Workers : settled'[w] \subseteq settled[w]
           \/ caller[c].at \notin {"idle", "waiting"},
           CallerInv(c)'
    PROVE  CallersInv'
<1> SUFFICES ASSUME NEW d \in Callers, d # c PROVE CallerInv(d)'
  BY DEF CallersInv
<1>1. caller'[d] = caller[d] /\ WorkerOf(d) \in Workers /\ CallerInv(d) /\ caller[d] \in Record
  BY WorkerOfCaller DEF CallersInv, LockInv, CallerType
<1>2. /\ opened[WorkerOf(d)] \in Nat /\ opened'[WorkerOf(d)] \in Nat
      /\ closed[WorkerOf(d)] \in Nat /\ closed'[WorkerOf(d)] \in Nat
      /\ opened'[WorkerOf(d)] >= opened[WorkerOf(d)]
      /\ closed'[WorkerOf(d)] >= closed[WorkerOf(d)]
  BY <1>1 DEF StateType
<1>3. CASE settled'[WorkerOf(d)] \subseteq settled[WorkerOf(d)]
  BY <1>1, <1>2, <1>3 DEF CallerInv, WorkerOf, Record, Nonces
<1>4. CASE caller[c].at \notin {"idle", "waiting"}
  <2>1. caller[d].at \in {"idle", "waiting"}
    BY <1>4, Alone
  <2> QED BY <1>1, <1>2, <2>1 DEF CallerInv, WorkerOf, Record, Nonces, InLoop
<1> QED BY <1>1, <1>3, <1>4

(* What is pruned is closed.                                               *)
LEMMA PruneKeeps ==
    ASSUME AnswersInv, StateType, NEW w \in Workers, UNCHANGED <<opened, closed, settled>>,
           submitted' = submitted \/ Prune(w)
    PROVE  AnswersInv' /\ submitted' \in [Workers -> SUBSET Nonces]
<1>1. CASE submitted' = submitted
  BY <1>1 DEF AnswersInv, StateType, Open
<1>2. CASE submitted' = [submitted EXCEPT ![w] = @ \cap Open(w)]
  <2>1. \A v \in Workers : submitted'[v] = submitted[v] \/ submitted'[v] = submitted[v] \cap Open(v)
    BY <1>2 DEF StateType
  <2>2. \A v \in Workers : Open(v)' = Open(v)
    BY DEF Open
  <2>3. AnswersInv'
    BY <2>1, <2>2 DEF AnswersInv
  <2>4. submitted' \in [Workers -> SUBSET Nonces]
    BY <1>2 DEF StateType
  <2> QED BY <2>3, <2>4
<1> QED BY <1>1, <1>2 DEF Prune

(* A cycle that is left takes nothing along but an abandoned transaction.  *)
LEMMA LeaveKeeps ==
    ASSUME IInv, NEW c \in Callers, caller[c].at # "idle", Leave(c), StateType',
           UNCHANGED <<opened, closed, accepted, slot, lost, settled>>,
           submitted' = submitted \/ Prune(WorkerOf(c)),
           limbo' = limbo \/ Abandon(c)
    PROVE  IInv'
<1>1. LockInv'
  BY LeaveLock DEF IInv
<1>2. CallerInv(c)'
  BY IdleRecord DEF IInv, LockInv, CallerType, Leave, CallerInv, InLoop
<1>3. CallersInv'
  <2>1. /\ \A d \in Callers \ {c} : caller'[d] = caller[d]
        /\ \A w \in Workers : opened'[w] >= opened[w] /\ closed'[w] >= closed[w]
        /\ \A w \in Workers : settled'[w] \subseteq settled[w]
    BY DEF IInv, LockInv, CallerType, StateType, Leave
  <2> QED BY <1>2, <2>1, OneMoves DEF IInv
<1>4. ChainInv'
  BY DEF IInv, ChainInv, Abandon, CallersInv, CallerInv, InLoop
<1>5. AnswersInv'
  BY PruneKeeps, WorkerOfCaller DEF IInv
<1> QED BY <1>1, <1>3, <1>4, <1>5 DEF IInv

(* A payload of a reputer that executes is for the oldest open nonce.      *)
LEMMA ExecuteKeeps ==
    ASSUME StateType, ChainInv, NEW w \in Workers, NEW n \in Nonces, Execute(w, n),
           w \in Sequential => n <= closed[w] + 1, limbo' \subseteq limbo, lost' = lost
    PROVE  /\ ChainInv' /\ opened' = opened /\ closed' = closed
           /\ accepted' \in [Workers -> SUBSET Nonces] /\ slot' \in [Workers -> 0..MaxNonce]
<1>1. CASE w \in Sequential /\ n \in Open(w) \ accepted[w]
  <2>1. n = closed[w] + 1
    BY <1>1 DEF Open, StateType
  <2>2. /\ accepted' = [accepted EXCEPT ![w] = @ \cup {n}] /\ slot' = [slot EXCEPT ![w] = n]
        /\ opened' = opened /\ closed' = closed
    BY <1>1 DEF Execute
  <2>3. accepted' \in [Workers -> SUBSET Nonces] /\ slot' \in [Workers -> 0..MaxNonce]
    BY <2>2, WorkerAssumption DEF StateType, Nonces
  <2>4. ChainInv'
    BY <1>1, <2>1, <2>2, WorkerAssumption DEF ChainInv, StateType
  <2> QED BY <2>2, <2>3, <2>4
<1>2. CASE ~(w \in Sequential /\ n \in Open(w) \ accepted[w])
  <2>1. UNCHANGED chain
    BY <1>2 DEF Execute
  <2> QED BY <2>1 DEF chain, ChainInv, StateType
<1> QED BY <1>1, <1>2

(* A caller that stays in the line and holds the lock, and the others.     *)
LEMMA HolderLock ==
    ASSUME LockInv, NEW c \in Callers, caller' \in [Callers -> Record], line' = line,
           \A d \in Callers \ {c} : caller'[d] = caller[d],
           caller[c].at # "idle", caller'[c].at # "idle",
           Holds(c) \/ caller[c].at \notin {"idle", "waiting"}
    PROVE  LockInv'
<1>1. CallerType'
  BY DEF CallerType
<1>2. \A d \in Callers : caller'[d].at = "idle" <=> caller[d].at = "idle"
  OBVIOUS
<1>3. \A d \in Callers : caller'[d].at \notin {"idle", "waiting"} =>
                             Holds(d) \/ caller[d].at \notin {"idle", "waiting"}
  OBVIOUS
<1> QED BY <1>1, <1>2, <1>3, StayLock

(* A fault is counted.                                                     *)
LEMMA FaultType ==
    ASSUME StateType, Fault \/ UNCHANGED faults
    PROVE  faults' \in 0..MaxFaults
BY WorkerAssumption DEF StateType, Fault

(* A step of a cycle that changes nothing of the chain nor of the answers. *)
LEMMA CycleKeeps ==
    ASSUME IInv, NEW c \in Callers, caller' \in [Callers -> Record], line' = line,
           \A d \in Callers \ {c} : caller'[d] = caller[d],
           caller[c].at # "idle", caller'[c].at # "idle",
           Holds(c) \/ caller[c].at \notin {"idle", "waiting"},
           StateType', ChainInv', AnswersInv', CallerInv(c)',
           UNCHANGED <<opened, closed>>,
           \/ \A w \in Workers : settled'[w] \subseteq settled[w]
           \/ caller[c].at \notin {"idle", "waiting"}
    PROVE  IInv'
<1>1. LockInv'
  BY HolderLock DEF IInv
<1>2. \A w \in Workers : opened'[w] >= opened[w] /\ closed'[w] >= closed[w]
  BY DEF IInv, StateType
<1>3. CallersInv'
  BY <1>2, OneMoves DEF IInv
<1> QED BY <1>1, <1>3 DEF IInv

(* Nothing of the chain and of the answers changes.                        *)
LEMMA ChainKeeps ==
    ASSUME ChainInv, AnswersInv,
           UNCHANGED <<submitted, chain, limbo, lost, settled>>
    PROVE  ChainInv' /\ AnswersInv'
BY DEF ChainInv, AnswersInv, Open, chain

(* The sequences other than the holder's are nobody's.                     *)
LEMMA ConsumeHolder ==
    ASSUME LockInv, NEW c \in Callers, caller[c].at \notin {"idle", "waiting"},
           NEW k \in Int, NEW d \in Callers, d # c
    PROVE  Consume(caller, k, FALSE)[d] = caller[d]
BY Alone DEF Consume, HasBase

(* Consuming sequences outside the lock excuses some of those inside.      *)
LEMMA ConsumeExcuses ==
    ASSUME LockInv, NEW cs, cs = Consume(caller, 1, TRUE)
    PROVE  /\ cs \in [Callers -> Record]
           /\ \A d \in Callers : /\ cs[d].at = caller[d].at
                                 /\ cs[d].nonce = caller[d].nonce
                                 /\ cs[d].todo = caller[d].todo
                                 /\ cs[d] = caller[d] \/ cs[d].excused
<1>1. \A d \in Callers : cs[d] = caller[d] \/ cs[d] = Excuse(caller[d])
  BY DEF Consume
<1>2. \A d \in Callers : caller[d] \in Record
  BY DEF LockInv, CallerType
<1>3. \A d \in Callers :
          /\ Excuse(caller[d]) \in Record
          /\ Excuse(caller[d]).at = caller[d].at /\ Excuse(caller[d]).nonce = caller[d].nonce
          /\ Excuse(caller[d]).todo = caller[d].todo /\ Excuse(caller[d]).excused
  <2> SUFFICES ASSUME NEW r \in Record
               PROVE  /\ Excuse(r) \in Record
                      /\ Excuse(r).at = r.at /\ Excuse(r).nonce = r.nonce
                      /\ Excuse(r).todo = r.todo /\ Excuse(r).excused
    BY <1>2
  <2>1. Excuse(r) \in Record
    <3>1. \A g \in Int, b \in BOOLEAN : [r EXCEPT !.gap = g, !.excused = b] \in Record
      BY DEF Record
    <3>2. 0 \in Int /\ TRUE \in BOOLEAN
      OBVIOUS
    <3>3. [r EXCEPT !.gap = 0, !.excused = TRUE] \in Record
      BY <3>1, <3>2, Zenon
    <3> QED BY <3>3, Zenon DEF Excuse
  <2>2. "excused" \in DOMAIN r
    BY DEF Record
  <2>3. Excuse(r).excused = TRUE
    BY <2>2, Zenon DEF Excuse
  <2>4. Excuse(r).at = r.at
    BY Zenon DEF Excuse, Record
  <2>5. Excuse(r).nonce = r.nonce
    BY Zenon DEF Excuse, Record
  <2>6. Excuse(r).todo = r.todo
    BY Zenon DEF Excuse, Record
  <2> QED BY <2>1, <2>3, <2>4, <2>5, <2>6
<1>4. cs = [d \in Callers |-> cs[d]]
  BY DEF Consume
<1> QED BY <1>1, <1>2, <1>3, <1>4

-----------------------------------------------------------------------------
(* The steps of the chain.                                                 *)

(* A new window: what is eligible stays so.                                *)
LEMMA OpenKeeps ==
    ASSUME IInv, NEW w \in Workers, OpenWindow(w)
    PROVE  IInv'
<1>1. StateType'
  <2>1. Windows[w] \in 0..MaxNonce /\ MaxNonce \in Nat
    BY WorkerAssumption
  <2>2. opened[w] + 1 \in 0..MaxNonce
    BY <2>1 DEF OpenWindow, IInv, StateType
  <2> QED BY <2>2 DEF OpenWindow, IInv, StateType
<1>2. LockInv'
  BY DEF OpenWindow, IInv, LockInv, CallerType, LineInv, MutexInv, Holds
<1>3. ChainInv'
  BY DEF OpenWindow, IInv, ChainInv
<1>4. \A v \in Workers : opened[v] \in Nat /\ opened'[v] \in Nat /\ opened'[v] >= opened[v]
                         /\ closed[v] \in Nat
  BY <1>1 DEF OpenWindow, IInv, StateType
<1>5. AnswersInv'
  BY <1>4 DEF OpenWindow, IInv, AnswersInv, Open
<1>6. CallersInv'
  <2> SUFFICES ASSUME NEW d \in Callers PROVE CallerInv(d)'
    BY DEF CallersInv
  <2>1. CallerInv(d) /\ WorkerOf(d) \in Workers /\ caller[d] \in Record
    BY WorkerOfCaller DEF IInv, CallersInv, LockInv, CallerType
  <2> QED BY <1>4, <2>1 DEF OpenWindow, CallerInv, WorkerOf, Record
<1> QED BY <1>1, <1>2, <1>3, <1>5, <1>6 DEF IInv

(* A close: of a reputer only a bundle of that very nonce can be accepted, *)
(* and it is the one that is stored.                                       *)
LEMMA CloseKeeps ==
    ASSUME IInv, NEW w \in Workers, CloseWindow(w)
    PROVE  IInv'
<1> DEFINE n == closed[w] + 1
<1>1. /\ closed' = [closed EXCEPT ![w] = n] /\ n \in Open(w)
      /\ lost' = lost \cup {<<w, m>> : m \in (accepted[w] \cap {n}) \ {slot[w]}}
      /\ slot' = [slot EXCEPT ![w] = 0]
      /\ accepted' = [accepted EXCEPT ![w] = @ \ {n}]
      /\ settled' = [settled EXCEPT ![w] = @ \ {n}]
      /\ UNCHANGED <<line, caller, phase, submitted, opened, limbo, events, faults>>
  BY DEF CloseWindow
<1>2. n \in 0..MaxNonce
  BY <1>1, WorkerAssumption DEF IInv, StateType, Open
<1>3. lost' = {}
  <2>1. (accepted[w] \cap {n}) \ {slot[w]} = {}
    BY DEF IInv, ChainInv
  <2> QED BY <1>1, <2>1 DEF IInv, ChainInv
<1>4. StateType'
  BY <1>1, <1>2, <1>3, WorkerAssumption DEF IInv, StateType
<1>5. LockInv'
  BY <1>1 DEF IInv, LockInv, CallerType, LineInv, MutexInv, Holds
<1>6. \A v \in Workers :
          /\ opened[v] \in Nat /\ closed[v] \in Nat /\ closed'[v] \in Nat
          /\ v = w => closed'[v] = closed[v] + 1
          /\ v # w => closed'[v] = closed[v]
          /\ closed'[v] >= closed[v]
  <2> SUFFICES ASSUME NEW v \in Workers
               PROVE  /\ opened[v] \in Nat /\ closed[v] \in Nat /\ closed'[v] \in Nat
                      /\ v = w => closed'[v] = closed[v] + 1
                      /\ v # w => closed'[v] = closed[v]
    OBVIOUS
  <2>1. opened[v] \in Nat /\ closed[v] \in Nat /\ closed'[v] \in Nat
    BY <1>4 DEF IInv, StateType
  <2>2. closed'[v] = IF v = w THEN n ELSE closed[v]
    BY <1>1 DEF IInv, StateType
  <2> QED BY <2>1, <2>2
<1>10. \A v \in Workers :
          /\ settled'[v] = IF v = w THEN settled[v] \ {n} ELSE settled[v]
          /\ accepted'[v] = IF v = w THEN accepted[v] \ {n} ELSE accepted[v]
          /\ slot'[v] = IF v = w THEN 0 ELSE slot[v]
  <2> HIDE DEF n
  <2>1. \A v \in Workers : settled'[v] = IF v = w THEN settled[v] \ {n} ELSE settled[v]
    BY <1>1 DEF IInv, StateType
  <2>2. \A v \in Workers : accepted'[v] = IF v = w THEN accepted[v] \ {n} ELSE accepted[v]
    BY <1>1 DEF IInv, StateType
  <2>3. \A v \in Workers : slot'[v] = IF v = w THEN 0 ELSE slot[v]
    BY <1>1 DEF IInv, StateType
  <2> QED BY <2>1, <2>2, <2>3
<1>7. ChainInv'
  <2>1. \A v \in Workers \ Sequential : accepted'[v] = {}
    BY <1>10 DEF IInv, ChainInv
  <2>2. \A v \in Sequential : v \in Workers /\ accepted[v] \subseteq {closed[v] + 1}
                              /\ (accepted[v] # {} => slot[v] = closed[v] + 1)
    BY WorkerAssumption DEF IInv, ChainInv
  <2>3. \A v \in Sequential : accepted'[v] \subseteq {closed'[v] + 1}
                              /\ (accepted'[v] # {} => slot'[v] = closed'[v] + 1)
    <3> SUFFICES ASSUME NEW v \in Sequential
                 PROVE  accepted'[v] \subseteq {closed'[v] + 1}
                        /\ (accepted'[v] # {} => slot'[v] = closed'[v] + 1)
      OBVIOUS
    <3>1. CASE v = w
      <4>1. accepted'[v] = {}
        BY <1>10, <2>2, <3>1
      <4> QED BY <4>1
    <3>2. CASE v # w
      BY <1>6, <1>10, <2>2, <3>2
    <3> QED BY <3>1, <3>2
  <2>4. ASSUME NEW v \in Sequential, NEW m \in Nonces, <<v, m>> \in limbo
        PROVE  m <= closed'[v] + 1
    <3>1. m <= closed[v] + 1
      BY <2>4 DEF IInv, ChainInv
    <3>2. m \in Nat /\ closed[v] \in Nat /\ closed'[v] \in Nat /\ closed'[v] >= closed[v]
      BY <1>6, <2>2 DEF Nonces
    <3> QED BY <3>1, <3>2
  <2> QED BY <1>1, <1>3, <2>1, <2>3, <2>4 DEF ChainInv
<1>8. AnswersInv'
  <2> SUFFICES ASSUME NEW v \in Workers, NEW m \in settled'[v]
               PROVE  m \in submitted'[v] /\ m \in Open(v)'
    BY DEF AnswersInv
  <2>1. m \in settled[v] /\ m \in submitted[v] /\ m \in Open(v) /\ (v = w => m # n)
    BY <1>10 DEF IInv, AnswersInv
  <2>2. m \in (closed'[v] + 1)..opened[v]
    <3>1. m \in Int /\ m >= closed[v] + 1 /\ m <= opened[v]
      BY <1>6, <2>1 DEF Open
    <3>2. CASE v = w
      <4>1. closed'[v] = closed[v] + 1 /\ closed[v] \in Nat /\ opened[v] \in Nat /\ m # closed[v] + 1
        BY <1>6, <2>1, <3>2
      <4> HIDE DEF n
      <4> QED BY <3>1, <4>1
    <3>3. CASE v # w
      <4>1. closed'[v] = closed[v] /\ closed[v] \in Nat /\ opened[v] \in Nat
        BY <1>6, <3>3
      <4> HIDE DEF n
      <4> QED BY <3>1, <4>1
    <3> QED BY <3>2, <3>3
  <2> QED BY <1>1, <2>1, <2>2 DEF Open
<1>9. CallersInv'
  <2> SUFFICES ASSUME NEW d \in Callers PROVE CallerInv(d)'
    BY DEF CallersInv
  <2>1. /\ CallerInv(d) /\ WorkerOf(d) \in Workers /\ caller[d] \in Record
        /\ \A m \in settled'[WorkerOf(d)] : m \in settled[WorkerOf(d)]
    BY <1>10, WorkerOfCaller DEF IInv, CallersInv, LockInv, CallerType
  <2>2. closed[WorkerOf(d)] \in Nat /\ closed'[WorkerOf(d)] \in Nat
        /\ closed'[WorkerOf(d)] >= closed[WorkerOf(d)]
    BY <1>6, <2>1
  <2> HIDE DEF n
  <2> QED BY <1>1, <2>1, <2>2 DEF CallerInv, WorkerOf, Record, Nonces
<1> QED BY <1>4, <1>5, <1>7, <1>8, <1>9 DEF IInv

-----------------------------------------------------------------------------
(* The steps of a run and of its callers.                                  *)

(* Who joins has picked nothing yet.                                       *)
LEMMA JoinKeeps ==
    ASSUME IInv, NEW c, NEW n \in 0..MaxNonce, Join(c, n), n <= opened[WorkerOf(c)],
           StateType', UNCHANGED <<submitted, chain, limbo, lost, settled>>
    PROVE  IInv'
<1>1. LockInv'
  BY JoinLock DEF IInv
<1>2. /\ c \in Callers
      /\ caller' = [caller EXCEPT ![c] = [Idle EXCEPT !.at = "waiting", !.nonce = n]]
      /\ opened' = opened /\ closed' = closed /\ settled' = settled
  BY DEF Join, chain
<1>3. CallerInv(c)'
  <2>1. caller'[c] = [Idle EXCEPT !.at = "waiting", !.nonce = n]
    BY <1>2 DEF IInv, LockInv, CallerType
  <2>2. caller'[c].at = "waiting" /\ caller'[c].nonce = n /\ caller'[c].todo = {}
    BY <2>1, IdleRecord DEF Record
  <2> QED BY <1>2, <2>2 DEF CallerInv, InLoop, WorkerOf
<1>4. CallersInv'
  <2>1. \A d \in Callers \ {c} : caller'[d] = caller[d]
    BY <1>2 DEF IInv, LockInv, CallerType
  <2>2. \A w \in Workers : opened'[w] >= opened[w] /\ closed'[w] >= closed[w]
    BY <1>2 DEF IInv, StateType
  <2>3. \A w \in Workers : settled'[w] \subseteq settled[w]
    BY <1>2
  <2> QED BY <1>2, <1>3, <2>1, <2>2, <2>3, OneMoves DEF IInv
<1> QED BY <1>1, <1>4, ChainKeeps DEF IInv

(* run() starts with initialize().                                         *)
LEMMA RunKeeps ==
    ASSUME IInv, NEW w \in Workers, Run(w)
    PROVE  IInv'
<1>1. StateType'
  BY DEF Run, IInv, StateType, chain
<1>2. 0 \in 0..MaxNonce /\ 0 <= opened[WorkerOf(<<w, "init">>)]
  BY WorkerAssumption DEF WorkerOf, IInv, StateType
<1> QED BY <1>1, <1>2, JoinKeeps DEF Run

(* A poll begins.                                                          *)
LEMMA PollKeeps ==
    ASSUME IInv, NEW w \in Workers, PollStart(w)
    PROVE  IInv'
<1>1. StateType'
  BY DEF PollStart, IInv, StateType, chain
<1>2. 0 \in 0..MaxNonce /\ 0 <= opened[WorkerOf(<<w, "poll">>)]
  BY WorkerAssumption DEF WorkerOf, IInv, StateType
<1> QED BY <1>1, <1>2, JoinKeeps DEF PollStart

(* An event is of a window that was opened.                                *)
LEMMA EventKeeps ==
    ASSUME IInv, NEW w \in Workers, EventStart(w)
    PROVE  IInv'
<1>1. StateType'
  BY WorkerAssumption DEF EventStart, IInv, StateType, chain
<1>2. PICK n \in 1..opened[w] : Join(<<w, "event">>, n)
  BY DEF EventStart
<1>3. n \in 0..MaxNonce /\ n <= opened[WorkerOf(<<w, "event">>)]
  BY WorkerAssumption DEF WorkerOf, IInv, StateType
<1> QED BY <1>1, <1>2, <1>3, JoinKeeps DEF EventStart

(* The outside stops the run.                                              *)
LEMMA StopKeeps ==
    ASSUME IInv, NEW w \in Workers, Stop(w)
    PROVE  IInv'
<1>1. StateType'
  BY FaultType DEF Stop, IInv, StateType, chain
<1>2. LockInv'
  BY DEF Stop, IInv, LockInv, CallerType, LineInv, MutexInv, Holds
<1>3. CallersInv'
  BY DEF Stop, IInv, CallersInv, CallerInv, chain, WorkerOf
<1>4. ChainInv' /\ AnswersInv'
  BY ChainKeeps DEF Stop, IInv
<1> QED BY <1>1, <1>2, <1>3, <1>4 DEF IInv

(* initialize() registers with nobody else inside.                         *)
LEMMA InitializeKeeps ==
    ASSUME IInv, NEW w \in Workers, Initialize(w)
    PROVE  IInv'
<1> DEFINE c == <<w, "init">>
<1>1. PICK k \in {0, 1} : caller' = [Consume(caller, k, FALSE) EXCEPT ![c] = Idle]
  BY DEF Initialize
<1>2. c \in Callers /\ caller[c].at = "init" /\ Release(c)
  BY DEF Initialize
<1>3. StateType'
  BY FaultType DEF Initialize, IInv, StateType, chain
<1> HIDE DEF c
<1>4. caller' = [caller EXCEPT ![c] = Idle]
  <2>1. \A d \in Callers : d # c => Consume(caller, k, FALSE)[d] = caller[d]
    <3>1. k \in Int /\ caller[c].at \notin {"idle", "waiting"} /\ c \in Callers /\ LockInv
      BY <1>2 DEF IInv
    <3> QED BY <3>1, ConsumeHolder
  <2>2. caller' = [d \in Callers |-> IF d = c THEN Idle ELSE caller[d]]
    <3>1. DOMAIN Consume(caller, k, FALSE) = Callers
      BY DEF Consume
    <3>2. caller' = [d \in Callers |-> IF d = c THEN Idle ELSE Consume(caller, k, FALSE)[d]]
      BY <1>1, <3>1
    <3> QED BY <2>1, <3>2
  <2> QED BY <2>2 DEF IInv, LockInv, CallerType
<1>5. Leave(c)
  BY <1>2, <1>4 DEF Leave
<1>6. UNCHANGED <<submitted, opened, closed, accepted, slot, lost, settled>> /\ limbo' = limbo
  BY DEF Initialize, chain
<1> QED BY <1>2, <1>3, <1>5, <1>6, LeaveKeeps

-----------------------------------------------------------------------------
(* The steps of a cycle.                                                   *)

(* The first of the line goes in, or finds the worker stopped.             *)
LEMMA EnterKeeps ==
    ASSUME IInv, NEW c \in Callers, Enter(c)
    PROVE  IInv'
<1>1. /\ caller[c].at = "waiting" /\ Holds(c)
      /\ UNCHANGED <<phase, submitted, chain, limbo, events, faults, lost, settled>>
  BY DEF Enter
<1>2. StateType'
  BY <1>1 DEF IInv, StateType, chain
<1>3. CASE Leave(c)
  BY <1>1, <1>2, <1>3, LeaveKeeps DEF chain
<1>4. ASSUME NEW s \in {"init", "asking"}, Goto(c, s) PROVE IInv'
  <2>1. caller' = [caller EXCEPT ![c].at = s] /\ line' = line
    BY <1>4 DEF Goto
  <2>2. caller[c] \in Record /\ caller \in [Callers -> Record]
    BY DEF IInv, LockInv, CallerType
  <2>3. /\ caller' \in [Callers -> Record]
        /\ \A d \in Callers \ {c} : caller'[d] = caller[d]
        /\ caller'[c].at = s /\ caller'[c].nonce = caller[c].nonce
        /\ caller'[c].todo = caller[c].todo
    BY <2>1, <2>2 DEF Record, Stages
  <2>4. ChainInv' /\ AnswersInv'
    BY <1>1, ChainKeeps DEF IInv
  <2>5. CallerInv(c) /\ opened' = opened /\ closed' = closed /\ settled' = settled
    BY <1>1 DEF IInv, CallersInv, chain
  <2>6. CallerInv(c)'
    BY <1>1, <2>3, <2>5 DEF CallerInv, InLoop, WorkerOf
  <2>7. caller[c].at # "idle" /\ caller'[c].at # "idle"
    BY <1>1, <2>3
  <2>8. \A w \in Workers : settled'[w] \subseteq settled[w]
    BY <2>5
  <2> QED BY <1>1, <1>2, <2>1, <2>3, <2>4, <2>5, <2>6, <2>7, <2>8, CycleKeeps
<1> QED BY <1>3, <1>4 DEF Enter

(* Not whitelisted, or not known to be.                                    *)
LEMMA NotWhitelistedKeeps ==
    ASSUME IInv, NEW c \in Callers, NotWhitelisted(c)
    PROVE  IInv'
<1>1. StateType'
  BY FaultType, WorkerOfCaller DEF NotWhitelisted, IInv, StateType, chain
<1> QED BY <1>1, LeaveKeeps DEF NotWhitelisted, chain

(* A cycle is left from wherever it is.                                    *)
LEMMA UnwindKeeps ==
    ASSUME IInv, NEW c \in Callers, caller[c].at # "idle", Unwind(c),
           Fault \/ UNCHANGED faults
    PROVE  IInv'
<1>1. limbo' \in SUBSET (Workers \X Nonces)
  <2>1. CASE UNCHANGED limbo
    BY <2>1 DEF IInv, StateType
  <2>2. CASE ~UNCHANGED limbo
    <3>1. caller[c].at = "sent" /\ limbo' = limbo \cup {<<WorkerOf(c), caller[c].nonce>>}
      BY <2>2 DEF Unwind, Abandon
    <3>2. caller[c].nonce \in Nonces /\ WorkerOf(c) \in Workers
      BY <3>1, WorkerOfCaller DEF IInv, CallersInv, CallerInv, InLoop
    <3> QED BY <3>1, <3>2 DEF IInv, StateType
  <2> QED BY <2>1, <2>2
<1>2. StateType'
  BY <1>1, FaultType DEF Unwind, IInv, StateType, chain
<1> QED BY <1>2, LeaveKeeps DEF Unwind, chain

(* The poller of a stopped run is cancelled.                               *)
LEMMA CancelKeeps ==
    ASSUME IInv, NEW w \in Workers, CancelPoller(w)
    PROVE  IInv'
BY UnwindKeeps DEF CancelPoller

(* What was picked is handed over, or hangs.                               *)
LEMMA SendKeeps ==
    ASSUME IInv, NEW c \in Callers, Send(c) \/ Hang(c)
    PROVE  IInv'
<1>1. PICK s \in {"sent", "hung"} : Goto(c, s)
  BY DEF Send, Hang
<1>2. /\ caller[c].at = "predict"
      /\ UNCHANGED <<phase, submitted, chain, limbo, events, lost, settled>>
      /\ Fault \/ UNCHANGED faults
  BY DEF Send, Hang
<1>3. StateType'
  BY <1>2, FaultType DEF IInv, StateType, chain
<1>4. caller' = [caller EXCEPT ![c].at = s] /\ line' = line
  BY <1>1 DEF Goto
<1>5. caller[c] \in Record /\ caller \in [Callers -> Record]
  BY DEF IInv, LockInv, CallerType
<1>6. /\ caller' \in [Callers -> Record]
      /\ \A d \in Callers \ {c} : caller'[d] = caller[d]
      /\ caller'[c].at = s /\ caller'[c].nonce = caller[c].nonce
      /\ caller'[c].todo = caller[c].todo /\ caller'[c].gap = caller[c].gap
  BY <1>4, <1>5 DEF Record, Stages
<1>7. caller'[c].excused = caller[c].excused
  <2>1. caller'[c] = [caller[c] EXCEPT !.at = s]
    BY <1>4, <1>5
  <2> QED BY <1>5, <2>1, Zenon DEF Record
<1>8. ChainInv' /\ AnswersInv'
  BY <1>2, ChainKeeps DEF IInv
<1>9. CallerInv(c) /\ opened' = opened /\ closed' = closed /\ settled' = settled
  BY <1>2 DEF IInv, CallersInv, chain
<1>10. CallerInv(c)'
  <2>1. caller'[c].gap = 0 \/ caller'[c].excused
    <3>1. caller[c].gap = 0 \/ caller[c].excused
      BY <1>2, <1>9 DEF CallerInv
    <3> QED BY <1>6, <1>7, <3>1, Zenon
  <2> QED BY <1>2, <1>6, <1>9, <2>1 DEF CallerInv, InLoop, WorkerOf
<1>11. caller[c].at # "idle" /\ caller'[c].at # "idle" /\ caller[c].at # "waiting"
  BY <1>2, <1>6
<1> QED BY <1>3, <1>4, <1>6, <1>8, <1>9, <1>10, <1>11, CycleKeeps

(* An answer is remembered.                                                *)
LEMMA RememberKeeps ==
    ASSUME StateType, AnswersInv, NEW c \in Callers, caller[c].nonce \in Nonces,
           Remember(c), UNCHANGED <<opened, closed>>
    PROVE  /\ AnswersInv'
           /\ submitted' \in [Workers -> SUBSET Nonces]
           /\ settled' \in [Workers -> SUBSET Nonces]
           /\ \A w \in Workers : settled'[w] \subseteq settled[w] \cup {caller[c].nonce}
<1> DEFINE u == WorkerOf(c)
           n == caller[c].nonce
<1>1. u \in Workers /\ n \in Nonces
  BY WorkerOfCaller
<1>2. /\ submitted' = [submitted EXCEPT ![u] = @ \cup {n}]
      /\ settled' = [settled EXCEPT ![u] = @ \cup ({n} \cap Open(u))]
  BY DEF Remember
<1> HIDE DEF u, n
<1>3. \A w \in Workers : /\ submitted'[w] = IF w = u THEN submitted[w] \cup {n} ELSE submitted[w]
                         /\ settled'[w] = IF w = u THEN settled[w] \cup ({n} \cap Open(u)) ELSE settled[w]
                         /\ Open(w)' = Open(w)
  BY <1>2 DEF StateType, Open
<1>4. AnswersInv'
  <2> SUFFICES ASSUME NEW w \in Workers, NEW m \in settled'[w]
               PROVE  m \in submitted'[w] /\ m \in Open(w)'
    BY DEF AnswersInv
  <2>1. m \in settled[w] => m \in submitted[w] /\ m \in Open(w)
    BY DEF AnswersInv
  <2>2. CASE w = u
    BY <1>3, <2>1, <2>2
  <2>3. CASE w # u
    BY <1>3, <2>1, <2>3
  <2> QED BY <2>2, <2>3
<1>5. submitted' \in [Workers -> SUBSET Nonces] /\ settled' \in [Workers -> SUBSET Nonces]
  BY <1>1, <1>2 DEF StateType
<1> QED BY <1>3, <1>4, <1>5 DEF n

(* A definite answer: the nonce is remembered, and what is still to do is  *)
(* something else.                                                         *)
LEMMA AnswerKeeps ==
    ASSUME IInv, NEW c \in Callers, caller[c].at \in {"predict", "sent"},
           caller' \in [Callers -> Record],
           \A d \in Callers \ {c} : caller'[d] = caller[d],
           caller'[c].at = "balance", caller'[c].nonce = caller[c].nonce,
           caller'[c].todo = caller[c].todo,
           caller'[c].gap = -1 \/ caller'[c].excused,
           Remember(c), UNCHANGED <<line, phase, limbo, events, faults, lost>>,
           Execute(WorkerOf(c), caller[c].nonce) \/ UNCHANGED chain
    PROVE  IInv'
<1>1. /\ CallerInv(c) /\ caller[c].nonce \in Nonces /\ caller[c].nonce \notin caller[c].todo
      /\ WorkerOf(c) \in Workers
      /\ WorkerOf(c) \in Sequential => caller[c].nonce <= closed[WorkerOf(c)] + 1
      /\ caller[c].todo \in SUBSET Nonces
  BY WorkerOfCaller DEF IInv, CallersInv, CallerInv, InLoop, LockInv, CallerType, Record
<1>2. /\ ChainInv' /\ opened' = opened /\ closed' = closed
      /\ accepted' \in [Workers -> SUBSET Nonces] /\ slot' \in [Workers -> 0..MaxNonce]
  <2>1. CASE Execute(WorkerOf(c), caller[c].nonce)
    BY <1>1, <2>1, ExecuteKeeps DEF IInv
  <2>2. CASE UNCHANGED chain
    BY <2>2 DEF IInv, ChainInv, StateType, chain
  <2> QED BY <2>1, <2>2
<1>3. /\ AnswersInv'
      /\ submitted' \in [Workers -> SUBSET Nonces]
      /\ settled' \in [Workers -> SUBSET Nonces]
      /\ \A w \in Workers : settled'[w] \subseteq settled[w] \cup {caller[c].nonce}
  BY <1>1, <1>2, RememberKeeps DEF IInv
<1>4. StateType'
  BY <1>2, <1>3 DEF IInv, StateType
<1>5. CallerInv(c)'
  <2>1. \A n \in caller[c].todo : n \notin settled'[WorkerOf(c)]
    BY <1>1, <1>3 DEF CallerInv, InLoop
  <2> QED BY <1>1, <1>2, <2>1 DEF CallerInv, InLoop, WorkerOf
<1> QED BY <1>2, <1>3, <1>4, <1>5, CycleKeeps

(* Who is excused, on the way to its balance report.                       *)
LEMMA ExcusedMove ==
    ASSUME LockInv, NEW c \in Callers,
           caller' = [caller EXCEPT ![c] = [Excuse(@) EXCEPT !.at = "balance"]]
    PROVE  /\ caller' \in [Callers -> Record]
           /\ \A d \in Callers \ {c} : caller'[d] = caller[d]
           /\ caller'[c].at = "balance" /\ caller'[c].nonce = caller[c].nonce
           /\ caller'[c].todo = caller[c].todo /\ caller'[c].excused
<1> DEFINE r == caller[c]
           e == Excuse(r)
<1>1. r \in Record
  BY DEF LockInv, CallerType
<1>2. e \in Record /\ e.nonce = r.nonce /\ e.todo = r.todo /\ e.excused = TRUE
  <2> HIDE DEF r
  <2>1. \A g \in Int, b \in BOOLEAN : [r EXCEPT !.gap = g, !.excused = b] \in Record
    BY <1>1 DEF Record
  <2>2. 0 \in Int /\ TRUE \in BOOLEAN
    OBVIOUS
  <2>3. [r EXCEPT !.gap = 0, !.excused = TRUE] \in Record
    BY <2>1, <2>2, Zenon
  <2>4. e \in Record
    BY <2>3, Zenon DEF Excuse
  <2>5. e.nonce = r.nonce
    BY <1>1, Zenon DEF Excuse, Record
  <2>6. e.todo = r.todo
    BY <1>1, Zenon DEF Excuse, Record
  <2>7. "excused" \in DOMAIN r
    BY <1>1 DEF Record
  <2>8. e.excused = TRUE
    BY <2>7, Zenon DEF Excuse
  <2> QED BY <2>4, <2>5, <2>6, <2>8
<1>3. caller' = [caller EXCEPT ![c] = [e EXCEPT !.at = "balance"]]
  OBVIOUS
<1> HIDE DEF r, e
<1>4. caller' = [d \in Callers |-> IF d = c THEN [e EXCEPT !.at = "balance"] ELSE caller[d]]
  BY <1>3 DEF LockInv, CallerType
<1>5. caller'[c] = [e EXCEPT !.at = "balance"]
  BY <1>4
<1>6. [e EXCEPT !.at = "balance"] \in Record
  BY <1>2 DEF Record, Stages
<1>7. caller' \in [Callers -> Record]
  BY <1>4, <1>6 DEF LockInv, CallerType
<1>8. caller'[c].at = "balance" /\ caller'[c].nonce = r.nonce /\ caller'[c].todo = r.todo
  BY <1>2, <1>5 DEF Record
<1>9. caller'[c].excused = e.excused
  BY <1>2, <1>5, Zenon DEF Record
<1>10. caller'[c].excused
  BY <1>2, <1>9
<1>11. \A d \in Callers \ {c} : caller'[d] = caller[d]
  BY <1>4
<1> QED BY <1>7, <1>8, <1>10, <1>11 DEF r

(* A failure is an answer, and excuses.                                    *)
LEMMA FailKeeps ==
    ASSUME IInv, NEW c \in Callers, Fail(c)
    PROVE  IInv'
<1>1. /\ caller[c].at \in {"predict", "sent"}
      /\ caller' = [caller EXCEPT ![c] = [Excuse(@) EXCEPT !.at = "balance"]]
      /\ Remember(c) /\ UNCHANGED <<line, phase, chain, limbo, events, faults, lost>>
  BY DEF Fail
<1>2. /\ caller' \in [Callers -> Record]
      /\ \A d \in Callers \ {c} : caller'[d] = caller[d]
      /\ caller'[c].at = "balance" /\ caller'[c].nonce = caller[c].nonce
      /\ caller'[c].todo = caller[c].todo /\ caller'[c].excused
  BY <1>1, ExcusedMove DEF IInv
<1>3. caller'[c].gap = -1 \/ caller'[c].excused
  BY <1>2
<1> QED BY <1>1, <1>2, <1>3, AnswerKeeps

(* An inclusion is an answer, and uses up the sequence that was held.      *)
LEMMA LandKeeps ==
    ASSUME IInv, NEW c \in Callers, Land(c)
    PROVE  IInv'
<1> DEFINE cs == Consume(caller, 1, FALSE)
<1>1. /\ caller[c].at = "sent" /\ caller' = [cs EXCEPT ![c].at = "balance"]
      /\ Execute(WorkerOf(c), caller[c].nonce) /\ Remember(c)
      /\ UNCHANGED <<line, phase, limbo, events, faults, lost>>
  BY DEF Land
<1>2. caller[c] \in Record /\ caller \in [Callers -> Record] /\ LockInv
      /\ caller[c].at \notin {"idle", "waiting"}
  BY <1>1 DEF IInv, LockInv, CallerType
<1>3. \A d \in Callers : d # c => cs[d] = caller[d]
  <2>1. 1 \in Int
    OBVIOUS
  <2> QED BY <1>2, <2>1, ConsumeHolder
<1>4. cs[c] = IF caller[c].excused THEN caller[c] ELSE [caller[c] EXCEPT !.gap = @ - 1]
  BY <1>1 DEF Consume, HasBase
<1>5. cs = [d \in Callers |-> cs[d]]
  BY DEF Consume
<1> HIDE DEF cs
<1>6. /\ cs[c] \in Record /\ cs[c].nonce = caller[c].nonce /\ cs[c].todo = caller[c].todo
      /\ ~caller[c].excused => cs[c].gap = caller[c].gap - 1
  BY <1>2, <1>4 DEF Record
<1>7. caller[c].excused => cs[c].excused
  BY <1>4
<1>8. caller' = [d \in Callers |-> IF d = c THEN [cs[c] EXCEPT !.at = "balance"] ELSE caller[d]]
  BY <1>1, <1>3, <1>5
<1>9. caller'[c] = [cs[c] EXCEPT !.at = "balance"]
  BY <1>8
<1>10. [cs[c] EXCEPT !.at = "balance"] \in Record
  BY <1>6 DEF Record, Stages
<1>11. caller' \in [Callers -> Record] /\ \A d \in Callers \ {c} : caller'[d] = caller[d]
  BY <1>2, <1>8, <1>10
<1>12. /\ caller'[c].at = "balance" /\ caller'[c].nonce = caller[c].nonce
       /\ caller'[c].todo = caller[c].todo /\ caller'[c].gap = cs[c].gap
  BY <1>6, <1>9 DEF Record
<1>13. caller'[c].excused = cs[c].excused
  BY <1>6, <1>9, Zenon DEF Record
<1>14. caller[c].gap = 0 \/ caller[c].excused
  BY <1>1 DEF IInv, CallersInv, CallerInv
<1>15. caller'[c].gap = -1 \/ caller'[c].excused
  <2>1. CASE caller[c].excused
    BY <1>7, <1>13, <2>1, Zenon
  <2>2. CASE ~caller[c].excused
    BY <1>6, <1>12, <1>14, <2>2
  <2> QED BY <2>1, <2>2
<1> QED BY <1>1, <1>11, <1>12, <1>15, AnswerKeeps

(* A submission that ends without an answer; what was sent may still land. *)
LEMMA UnansweredKeeps ==
    ASSUME IInv, NEW c \in Callers, caller[c].at \in {"predict", "sent"},
           caller' = [caller EXCEPT ![c] = [Excuse(@) EXCEPT !.at = "balance"]],
           Abandon(c), Fault,
           UNCHANGED <<line, phase, submitted, chain, events, lost, settled>>
    PROVE  IInv'
<1>1. /\ caller[c].at \in {"predict", "sent"} /\ Abandon(c) /\ Fault
      /\ caller' = [caller EXCEPT ![c] = [Excuse(@) EXCEPT !.at = "balance"]]
      /\ UNCHANGED <<line, phase, submitted, chain, events, lost, settled>>
  OBVIOUS
<1>2. /\ caller' \in [Callers -> Record]
      /\ \A d \in Callers \ {c} : caller'[d] = caller[d]
      /\ caller'[c].at = "balance" /\ caller'[c].nonce = caller[c].nonce
      /\ caller'[c].todo = caller[c].todo /\ caller'[c].excused
  BY <1>1, ExcusedMove DEF IInv
<1>3. /\ CallerInv(c) /\ caller[c].nonce \in Nonces /\ WorkerOf(c) \in Workers
      /\ WorkerOf(c) \in Sequential => caller[c].nonce <= closed[WorkerOf(c)] + 1
  BY <1>1, WorkerOfCaller DEF IInv, CallersInv, CallerInv, InLoop
<1>4. StateType'
  <2>1. limbo' \in SUBSET (Workers \X Nonces)
    BY <1>1, <1>3 DEF IInv, StateType, Abandon
  <2> QED BY <1>1, <2>1, FaultType DEF IInv, StateType, chain
<1>5. ChainInv'
  BY <1>1, <1>3 DEF IInv, ChainInv, Abandon, chain
<1>6. AnswersInv'
  BY <1>1 DEF IInv, AnswersInv, Open, chain
<1>7. opened' = opened /\ closed' = closed /\ settled' = settled
  BY <1>1 DEF chain
<1>8. CallerInv(c)'
  BY <1>1, <1>2, <1>3, <1>7 DEF CallerInv, InLoop, WorkerOf
<1>9. caller[c].at # "idle" /\ caller'[c].at # "idle" /\ caller[c].at # "waiting"
  BY <1>1, <1>2
<1> QED BY <1>1, <1>2, <1>4, <1>5, <1>6, <1>7, <1>8, <1>9, CycleKeeps

(* A timeout is no answer, and an exception is none.                       *)
LEMMA TimeOutKeeps ==
    ASSUME IInv, NEW c \in Callers, TimeOut(c) \/ Raise(c)
    PROVE  IInv'
<1>1. CASE TimeOut(c)
  BY <1>1, UnansweredKeeps DEF TimeOut
<1>2. CASE Raise(c)
  <2>1. Abandon(c)
    BY <1>2 DEF Raise, Abandon
  <2> QED BY <1>2, <2>1, UnansweredKeeps DEF Raise
<1> QED BY <1>1, <1>2

-----------------------------------------------------------------------------
(* The selection.                                                          *)

(* What is selected is not settled; of a reputer it is the oldest.         *)
LEMMA SelectSafe ==
    ASSUME IInv, NEW c \in Callers, caller[c].at = "asking",
           NEW open, open = Open(WorkerOf(c)) \/ (open = {} /\ WorkerOf(c) \notin Sequential)
    PROVE  /\ Select(c, open) \in SUBSET Nonces
           /\ \A n \in Select(c, open) : n \notin settled[WorkerOf(c)]
           /\ WorkerOf(c) \in Sequential =>
                  \A n \in Select(c, open) : n <= closed[WorkerOf(c)] + 1
<1> DEFINE w == WorkerOf(c)
           e == caller[c].nonce
           S == WithEvent(open, e)
<1>1. /\ w \in Workers /\ e \in 0..MaxNonce /\ e <= opened[w] /\ MaxNonce \in Nat
      /\ opened[w] \in 0..MaxNonce /\ closed[w] \in 0..MaxNonce
      /\ settled[w] \subseteq submitted[w]
  BY WorkerOfCaller, WorkerAssumption
     DEF IInv, CallersInv, CallerInv, StateType, AnswersInv, LockInv, CallerType, Record
<1>2. S \in SUBSET Nonces
  <2> HIDE DEF e, w
  <2>1. open \in SUBSET Nonces
    BY <1>1 DEF Open, Nonces, w
  <2> QED BY <1>1, <2>1 DEF WithEvent, Nonces
<1>3. CASE w \notin Sequential
  <2>1. Select(c, open) = S \ submitted[w]
    BY <1>3 DEF Select
  <2> HIDE DEF S
  <2> QED BY <1>1, <1>2, <1>3, <2>1
<1>4. CASE w \in Sequential
  <2>1. Select(c, open) = SelectSequential(w, S)
    BY <1>4 DEF Select
  <2>2. open = (closed[w] + 1)..opened[w]
    BY <1>4 DEF Open
  <2>3. CASE S = {} \/ Least(S) \in submitted[w]
    BY <2>1, <2>3 DEF SelectSequential
  <2>4. CASE S # {} /\ Least(S) \notin submitted[w]
    <3>1. Select(c, open) = {Least(S)}
      BY <2>1, <2>4 DEF SelectSequential
    <3>2. Least(S) \in S /\ \A n \in S : Least(S) <= n
      <4>1. S \in SUBSET Nat
        BY <1>2 DEF Nonces
      <4> HIDE DEF S
      <4> QED BY <2>4, <4>1, LeastExists
    <3>3. Least(S) <= closed[w] + 1
      <4>1. Least(S) \in Nat
        BY <1>2, <3>2 DEF Nonces
      <4>2. CASE closed[w] + 1 \in open
        <5>1. closed[w] + 1 \in S
          BY <4>2 DEF WithEvent
        <5> QED BY <3>2, <5>1
      <4>3. CASE closed[w] + 1 \notin open
        <5>1. open = {} /\ opened[w] <= closed[w]
          BY <1>1, <2>2, <4>3
        <5>2. \A n \in S : n = e
          BY <5>1 DEF WithEvent
        <5>3. Least(S) = e
          BY <3>2, <5>2
        <5> HIDE DEF e, S
        <5> QED BY <1>1, <5>1, <5>3
      <4> QED BY <4>2, <4>3
    <3> HIDE DEF S
    <3> QED BY <1>1, <1>2, <2>4, <3>1, <3>2, <3>3
  <2> QED BY <2>3, <2>4
<1> QED BY <1>3, <1>4

(* A cycle has picked its nonces.                                          *)
LEMMA PickedKeeps ==
    ASSUME IInv, NEW c \in Callers, caller[c].at = "asking",
           NEW open, open = Open(WorkerOf(c)) \/ (open = {} /\ WorkerOf(c) \notin Sequential),
           Picked(c, open), StateType',
           UNCHANGED <<submitted, chain, limbo, lost, settled>>
    PROVE  IInv'
<1> DEFINE T == Latest(Select(c, open), MaxUnfulfilled)
<1>1. T \subseteq Select(c, open)
  BY DEF Latest
<1>2. caller' = [caller EXCEPT ![c].at = "account", ![c].todo = T] /\ line' = line
  BY DEF Picked
<1> HIDE DEF T
<1>3. T \in SUBSET Nonces
  BY <1>1, SelectSafe
<1>4. caller[c] \in Record /\ caller \in [Callers -> Record]
  BY DEF IInv, LockInv, CallerType
<1>5. /\ caller' \in [Callers -> Record]
      /\ \A d \in Callers \ {c} : caller'[d] = caller[d]
      /\ caller'[c].at = "account" /\ caller'[c].todo = T
  <2>1. caller' = [caller EXCEPT ![c] = [caller[c] EXCEPT !.at = "account", !.todo = T]]
    BY <1>2, <1>4
  <2>2. [caller[c] EXCEPT !.at = "account", !.todo = T] \in Record
    BY <1>3, <1>4 DEF Record, Stages
  <2>3. caller'[c] = [caller[c] EXCEPT !.at = "account", !.todo = T]
    BY <1>4, <2>1
  <2> QED BY <1>4, <2>1, <2>2, <2>3 DEF Record
<1>6. ChainInv' /\ AnswersInv'
  BY ChainKeeps DEF IInv
<1>7. opened' = opened /\ closed' = closed /\ settled' = settled
  BY DEF chain
<1>8. CallerInv(c)'
  BY <1>1, <1>5, <1>7, SelectSafe DEF CallerInv, InLoop, WorkerOf
<1>9. caller[c].at # "idle" /\ caller'[c].at # "idle" /\ caller[c].at # "waiting"
  BY <1>5
<1> QED BY <1>2, <1>5, <1>6, <1>7, <1>8, <1>9, CycleKeeps

(* The open nonces are answered, or not.                                   *)
LEMMA QueryNoncesKeeps ==
    ASSUME IInv, NEW c \in Callers, QueryNonces(c)
    PROVE  IInv'
<1>1. /\ caller[c].at = "asking" /\ (Fault \/ UNCHANGED faults)
      /\ UNCHANGED <<phase, submitted, chain, limbo, events, lost, settled>>
  BY DEF QueryNonces
<1>2. StateType'
  BY <1>1, FaultType DEF IInv, StateType, chain
<1>3. CASE Picked(c, Open(WorkerOf(c)))
  BY <1>1, <1>2, <1>3, PickedKeeps
<1>4. CASE NoncesUnknown(c)
  <2>1. CASE WorkerOf(c) \in Sequential
    <3>1. Leave(c)
      BY <1>4, <2>1 DEF NoncesUnknown
    <3> QED BY <1>1, <1>2, <3>1, LeaveKeeps DEF chain
  <2>2. CASE WorkerOf(c) \notin Sequential
    <3>1. Picked(c, {})
      BY <1>4, <2>2 DEF NoncesUnknown
    <3> QED BY <1>1, <1>2, <2>2, <3>1, PickedKeeps
  <2> QED BY <2>1, <2>2
<1> QED BY <1>3, <1>4 DEF QueryNonces

(* The loop goes on with a fresh sequence, or the cycle is over.           *)
LEMMA NextNonceKeeps ==
    ASSUME IInv, NEW c \in Callers, caller[c].at \in {"account", "balance"},
           NextNonce(c, 0), StateType',
           UNCHANGED <<chain, limbo, lost, settled>>,
           submitted' = submitted \/ Prune(WorkerOf(c))
    PROVE  IInv'
<1>1. CASE Leave(c)
  BY <1>1, LeaveKeeps DEF chain
<1>2. CASE ~Leave(c)
  <2> DEFINE r == caller[c]
             n == Least(r.todo)
             s == [r EXCEPT !.at = "predict", !.nonce = n, !.todo = @ \ {n}, !.gap = 0]
  <2>1. r.todo # {} /\ caller' = [caller EXCEPT ![c] = s] /\ line' = line
    BY <1>2 DEF NextNonce
  <2>2. r \in Record /\ caller \in [Callers -> Record] /\ r.todo \in SUBSET Nonces
    BY DEF IInv, LockInv, CallerType, Record
  <2>3. n \in r.todo
    <3>1. r.todo \in SUBSET Nat
      BY <2>2 DEF Nonces
    <3> HIDE DEF r
    <3> QED BY <2>1, <3>1, LeastExists
  <2>4. n \in Nonces /\ n \in 0..MaxNonce
    BY <2>2, <2>3 DEF Nonces
  <2>5. CallerInv(c) /\ opened' = opened /\ closed' = closed /\ settled' = settled
    BY DEF IInv, CallersInv, chain
  <2>6. /\ \A m \in r.todo : m \notin settled[WorkerOf(c)]
        /\ WorkerOf(c) \in Sequential => \A m \in r.todo : m <= closed[WorkerOf(c)] + 1
    BY <2>5 DEF CallerInv, InLoop
  <2>7. caller'[c] = s /\ \A d \in Callers \ {c} : caller'[d] = caller[d]
    BY <2>1, <2>2
  <2> HIDE DEF r, n
  <2>8. s \in Record
    <3>1. r.todo \ {n} \in SUBSET Nonces /\ "predict" \in Stages /\ 0 \in Int
      BY <2>2 DEF Stages
    <3>2. \A a \in Stages, m \in 0..MaxNonce, t \in SUBSET Nonces, g \in Int :
              [r EXCEPT !.at = a, !.nonce = m, !.todo = t, !.gap = g] \in Record
      BY <2>2 DEF Record
    <3> QED BY <2>4, <3>1, <3>2, Zenon
  <2>9. s.at = "predict" /\ s.nonce = n /\ s.todo = r.todo \ {n} /\ s.gap = 0
    <3>1. "at" \in DOMAIN r /\ "nonce" \in DOMAIN r /\ "todo" \in DOMAIN r /\ "gap" \in DOMAIN r
      BY <2>2 DEF Record
    <3>2. s.at = "predict"
      BY <3>1, Zenon
    <3>3. s.nonce = n
      BY <3>1, Zenon
    <3>4. s.todo = r.todo \ {n}
      BY <3>1, Zenon
    <3>5. s.gap = 0
      BY <3>1, Zenon
    <3> QED BY <3>2, <3>3, <3>4, <3>5
  <2> HIDE DEF s
  <2>10. caller' \in [Callers -> Record]
    BY <2>1, <2>2, <2>8
  <2>11. ChainInv'
    BY DEF IInv, ChainInv, chain
  <2>12. AnswersInv'
    BY <2>5, PruneKeeps, WorkerOfCaller DEF IInv
  <2>13. CallerInv(c)'
    BY <2>3, <2>4, <2>5, <2>6, <2>7, <2>9 DEF CallerInv, InLoop, WorkerOf
  <2>14. caller[c].at # "idle" /\ caller'[c].at # "idle" /\ caller[c].at # "waiting"
    BY <2>7, <2>9
  <2> QED BY <2>1, <2>5, <2>7, <2>10, <2>11, <2>12, <2>13, <2>14, CycleKeeps
<1> QED BY <1>1, <1>2

(* The account is answered.                                                *)
LEMMA QueryAccountKeeps ==
    ASSUME IInv, NEW c \in Callers, QueryAccount(c)
    PROVE  IInv'
<1>1. /\ caller[c].at = "account" /\ (Fault \/ UNCHANGED faults)
      /\ UNCHANGED <<phase, submitted, chain, limbo, events, lost, settled>>
  BY DEF QueryAccount
<1>2. StateType'
  BY <1>1, FaultType DEF IInv, StateType, chain
<1>3. CASE NextNonce(c, 0)
  BY <1>1, <1>2, <1>3, NextNonceKeeps
<1>4. CASE Leave(c)
  BY <1>1, <1>2, <1>4, LeaveKeeps DEF chain
<1> QED BY <1>3, <1>4 DEF QueryAccount

(* A nonce is done with, and the next sequence is base_sequence + i.       *)
LEMMA FinishKeeps ==
    ASSUME IInv, NEW c \in Callers, Finish(c)
    PROVE  IInv'
<1>1. /\ caller[c].at = "balance" /\ Prune(WorkerOf(c))
      /\ NextNonce(c, IF caller[c].excused THEN 0 ELSE caller[c].gap + 1)
      /\ UNCHANGED <<phase, chain, limbo, events, lost, settled>>
  BY DEF Finish
<1>2. (IF caller[c].excused THEN 0 ELSE caller[c].gap + 1) = 0
  BY <1>1 DEF IInv, CallersInv, CallerInv
<1>3. NextNonce(c, 0)
  BY <1>1, <1>2
<1>4. Fault \/ UNCHANGED faults
  BY <1>1 DEF Prune
<1>5. StateType'
  <2>1. submitted' \in [Workers -> SUBSET Nonces]
    BY <1>1, PruneKeeps, WorkerOfCaller DEF IInv, chain
  <2> QED BY <1>1, <1>4, <2>1, FaultType DEF IInv, StateType, chain
<1> QED BY <1>1, <1>3, <1>5, NextNonceKeeps

-----------------------------------------------------------------------------
(* Transactions outside the lock, and the whole.                           *)

(* Sequences used up outside the lock excuse whoever is inside.            *)
LEMMA ExcusesKeep ==
    ASSUME IInv, caller' = Consume(caller, 1, TRUE), line' = line,
           UNCHANGED <<opened, closed, settled>>
    PROVE  LockInv' /\ CallersInv'
<1>1. /\ caller' \in [Callers -> Record]
      /\ \A d \in Callers : /\ caller'[d].at = caller[d].at
                            /\ caller'[d].nonce = caller[d].nonce
                            /\ caller'[d].todo = caller[d].todo
                            /\ caller'[d] = caller[d] \/ caller'[d].excused
  BY ConsumeExcuses DEF IInv
<1>2. LockInv'
  <2>1. CallerType'
    BY <1>1 DEF CallerType
  <2> QED BY <1>1, <2>1, StayLock DEF IInv
<1>3. CallersInv'
  <2> SUFFICES ASSUME NEW d \in Callers PROVE CallerInv(d)'
    BY DEF CallersInv
  <2>1. CallerInv(d)
    BY DEF IInv, CallersInv
  <2> QED BY <1>1, <2>1 DEF CallerInv, WorkerOf
<1> QED BY <1>2, <1>3

(* An abandoned transaction lands: a reputer's is for no newer nonce.      *)
LEMMA LimboKeeps ==
    ASSUME IInv, NEW w \in Workers, NEW n \in Nonces, LimboLands(w, n)
    PROVE  IInv'
<1>1. /\ <<w, n>> \in limbo /\ limbo' = limbo \ {<<w, n>>} /\ Execute(w, n)
      /\ caller' = Consume(caller, 1, TRUE)
      /\ UNCHANGED <<line, phase, submitted, events, faults, lost, settled>>
  BY DEF LimboLands
<1>2. /\ ChainInv' /\ opened' = opened /\ closed' = closed
      /\ accepted' \in [Workers -> SUBSET Nonces] /\ slot' \in [Workers -> 0..MaxNonce]
  <2>1. w \in Sequential => n <= closed[w] + 1
    BY <1>1 DEF IInv, ChainInv
  <2> QED BY <1>1, <2>1, ExecuteKeeps DEF IInv
<1>3. LockInv' /\ CallersInv'
  BY <1>1, <1>2, ExcusesKeep
<1>4. StateType'
  BY <1>1, <1>2 DEF IInv, StateType
<1>5. AnswersInv'
  BY <1>1, <1>2 DEF IInv, AnswersInv, Open
<1> QED BY <1>2, <1>3, <1>4, <1>5 DEF IInv

(* A delegation is sent.                                                   *)
LEMMA AutostakeKeeps ==
    ASSUME IInv, NEW w \in Workers, Autostake(w)
    PROVE  IInv'
<1>1. LockInv' /\ CallersInv'
  BY ExcusesKeep DEF Autostake, chain
<1>2. StateType'
  BY FaultType DEF Autostake, IInv, StateType, chain
<1>3. ChainInv' /\ AnswersInv'
  BY ChainKeeps DEF Autostake, IInv
<1> QED BY <1>1, <1>2, <1>3 DEF IInv

(* Nothing happens.                                                        *)
LEMMA StutterKeeps ==
    ASSUME IInv, UNCHANGED vars
    PROVE  IInv'
<1>1. LockInv'
  BY DEF IInv, vars, LockInv, CallerType, LineInv, MutexInv, Holds
<1>2. StateType' /\ ChainInv' /\ AnswersInv'
  BY DEF IInv, vars, chain, StateType, ChainInv, AnswersInv, Open
<1>3. CallersInv'
  BY DEF IInv, vars, chain, CallersInv, CallerInv, WorkerOf
<1> QED BY <1>1, <1>2, <1>3 DEF IInv

(* At the start nobody is in the line.                                     *)
LEMMA InitIInv ==
    ASSUME Init
    PROVE  IInv
<1>1. /\ line = <<>> /\ caller = [c \in Callers |-> Idle] /\ accepted = [w \in Workers |-> {}]
      /\ closed = [w \in Workers |-> 0] /\ limbo = {} /\ lost = {}
      /\ settled = [w \in Workers |-> {}]
  BY DEF Init
<1>2. CallerType
  BY <1>1, IdleRecord DEF CallerType
<1>3. LineInv
  <2>1. line \in Seq(Callers) /\ ToSet(line) = {} /\ IsInjective(line)
    BY <1>1 DEF ToSet, IsInjective
  <2>2. \A c \in Callers : caller[c].at = "idle"
    BY <1>1, IdleRecord
  <2> QED BY <2>1, <2>2 DEF LineInv
<1>4. MutexInv
  BY <1>1, IdleRecord DEF MutexInv
<1>5. StateType
  BY WorkerAssumption DEF Init, StateType
<1>6. ChainInv
  BY <1>1, WorkerAssumption DEF ChainInv
<1>7. AnswersInv
  BY <1>1 DEF AnswersInv
<1>8. CallersInv
  BY <1>1, IdleRecord DEF CallersInv, CallerInv, InLoop
<1> QED BY <1>2, <1>3, <1>4, <1>5, <1>6, <1>7, <1>8 DEF IInv, LockInv

(* Every step preserves the invariant.                                     *)
LEMMA NextKeeps ==
    ASSUME IInv, [Next]_vars
    PROVE  IInv'
<1>1. ASSUME NEW w \in Workers,
             \/ OpenWindow(w) \/ CloseWindow(w)
             \/ Run(w) \/ Initialize(w) \/ PollStart(w) \/ EventStart(w) \/ Stop(w)
             \/ CancelPoller(w) \/ Autostake(w)
             \/ \E n \in Nonces : LimboLands(w, n)
      PROVE  IInv'
  BY <1>1, OpenKeeps, CloseKeeps, RunKeeps, InitializeKeeps, PollKeeps, EventKeeps,
     StopKeeps, CancelKeeps, AutostakeKeeps, LimboKeeps
<1>2. ASSUME NEW c \in Callers, Step(c) PROVE IInv'
  <2>1. ASSUME HoldExpires(c) PROVE IInv'
    BY <2>1, UnwindKeeps DEF HoldExpires
  <2> QED BY <1>2, <2>1, EnterKeeps, QueryNoncesKeeps, QueryAccountKeeps, SendKeeps,
             LandKeeps, FailKeeps, FinishKeeps DEF Step
<1>3. ASSUME NEW c \in Callers,
             NotWhitelisted(c) \/ Hang(c) \/ Raise(c) \/ TimeOut(c)
      PROVE  IInv'
  BY <1>3, NotWhitelistedKeeps, SendKeeps, TimeOutKeeps
<1>4. ASSUME NEW c \in Callers, HoldExpiresEarly(c) PROVE IInv'
  BY <1>4, UnwindKeeps DEF HoldExpiresEarly, InCycle
<1>5. CASE UNCHANGED vars
  BY <1>5, StutterKeeps
<1> QED BY <1>1, <1>2, <1>3, <1>4, <1>5 DEF Next

(* The invariant holds of every behaviour.                                 *)
LEMMA Inductive == Spec => []IInv
<1>1. Init => IInv
  BY InitIInv
<1>2. IInv /\ [Next]_vars => IInv'
  BY NextKeeps
<1> QED BY <1>1, <1>2, PTL DEF Spec

-----------------------------------------------------------------------------
(* The theorems.                                                           *)

(* In every state the variables have their types, and the lock's line      *)
(* holds exactly those that are not idle, each once (_submit_lock).        *)
THEOREM TypeCorrect == Spec => []TypeOK
<1>1. IInv => TypeOK
  BY DEF IInv, LockInv, CallerType, LineInv, StateType, TypeOK, Record
<1> QED BY <1>1, Inductive, PTL

(* No window of a reputer closes on a bundle of another nonce: what was    *)
(* accepted is counted (_select_sequential_nonce).                         *)
THEOREM BundlesAreCounted == Spec => []NoBundleLost
<1>1. IInv => NoBundleLost
  BY DEF IInv, ChainInv, NoBundleLost
<1> QED BY <1>1, Inductive, PTL

(* A nonce that was answered for is not handed over again while its window *)
(* is open (_submit_lock, submitted_nonces and their pruning).             *)
THEOREM AnswersAreFinal == Spec => NeverResubmitted
<1>1. IInv => \A c \in Callers : caller[c].at = "predict"
                  => caller[c].nonce \notin settled[WorkerOf(c)]
  BY DEF IInv, CallersInv, CallerInv
<1>2. IInv => [\A c \in Callers : caller[c].at = "predict" /\ caller'[c].at = "sent"
                  => caller[c].nonce \notin settled[WorkerOf(c)]]_vars
  BY <1>1
<1> QED BY <1>2, Inductive, PTL DEF NeverResubmitted

(* The sequence that is handed over is the account's next, but for what    *)
(* excuses the cycle (base_sequence + i under _submit_lock).               *)
THEOREM SequencesAreFresh == Spec => HandedSequenceFresh
<1>1. IInv => \A c \in Callers : caller[c].at = "predict"
                  => caller[c].gap = 0 \/ caller[c].excused
  BY DEF IInv, CallersInv, CallerInv
<1>2. IInv => [\A c \in Callers : caller[c].at = "predict" /\ caller'[c].at = "sent"
                  => caller[c].gap = 0 \/ caller[c].excused]_vars
  BY <1>1
<1> QED BY <1>2, Inductive, PTL DEF HandedSequenceFresh
=============================================================================
