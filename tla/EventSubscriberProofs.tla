------------------------- MODULE EventSubscriberProofs -------------------------
(***************************************************************************)
(* The subscriber's bookkeeping, for any number of subscriptions, any      *)
(* server cap and any number of faults and events: types, the watchdog,    *)
(* and, when no two subscriptions share a query, the agreement of the      *)
(* flags with the server and the delivery of events.                       *)
(***************************************************************************)
EXTENDS EventSubscriber, SequenceTheorems, FiniteSetTheorems, TLAPS

-----------------------------------------------------------------------------
(* Sequences as sets.                                                      *)

(* An element at the end.                                                  *)
LEMMA AppendSet ==
    ASSUME NEW S, NEW s \in Seq(S), NEW x \in S
    PROVE  /\ Append(s, x) \in Seq(S)
           /\ ToSet(Append(s, x)) = ToSet(s) \cup {x}
           /\ IsInjective(s) /\ x \notin ToSet(s) => IsInjective(Append(s, x))
<1> DEFINE t == Append(s, x)
<1>1. /\ t \in Seq(S) /\ Len(t) = Len(s) + 1 /\ t[Len(s) + 1] = x
      /\ \A i \in 1..Len(s) : t[i] = s[i]
  BY AppendProperties
<1>2. DOMAIN s = 1..Len(s) /\ DOMAIN t = 1..Len(t) /\ Len(s) \in Nat
  BY <1>1
<1> HIDE DEF t
<1>3. \A i \in 1..Len(t) : i \in 1..Len(s) \/ i = Len(s) + 1
  BY <1>1, <1>2
<1>4. Len(s) + 1 \in 1..Len(t) /\ \A i \in 1..Len(s) : i \in 1..Len(t)
  BY <1>1, <1>2
<1>5. ToSet(t) = ToSet(s) \cup {x}
  BY <1>1, <1>2, <1>3, <1>4 DEF ToSet
<1>6. IsInjective(s) /\ x \notin ToSet(s) => IsInjective(t)
  <2> SUFFICES ASSUME IsInjective(s), x \notin ToSet(s),
                      NEW i \in 1..Len(t), NEW j \in 1..Len(t), t[i] = t[j]
               PROVE  i = j
    BY <1>2 DEF IsInjective
  <2>1. \A k \in 1..Len(s) : s[k] # x
    BY <1>2 DEF ToSet
  <2> QED BY <1>1, <1>2, <1>3, <2>1 DEF IsInjective
<1> QED BY <1>1, <1>5, <1>6 DEF t

(* What follows the first element.                                         *)
LEMMA TailSet ==
    ASSUME NEW S, NEW s \in Seq(S), s # <<>>
    PROVE  /\ Tail(s) \in Seq(S) /\ Head(s) \in S /\ Head(s) \in ToSet(s)
           /\ ToSet(Tail(s)) \subseteq ToSet(s)
           /\ IsInjective(s) => IsInjective(Tail(s)) /\ Head(s) \notin ToSet(Tail(s))
<1> DEFINE t == Tail(s)
<1>1. /\ t \in Seq(S) /\ Len(t) = Len(s) - 1 /\ Head(s) = s[1] /\ Head(s) \in S
      /\ \A i \in 1..Len(t) : t[i] = s[i + 1]
  BY HeadTailProperties
<1>2. /\ DOMAIN s = 1..Len(s) /\ DOMAIN t = 1..Len(t) /\ Len(s) \in Nat /\ Len(t) \in Nat
      /\ Len(s) >= 1
  BY <1>1
<1> HIDE DEF t
<1>3. \A i \in 1..Len(t) : i + 1 \in 1..Len(s) /\ i + 1 # 1
  BY <1>1, <1>2
<1>4. 1 \in 1..Len(s)
  BY <1>2
<1>5. ToSet(t) \subseteq ToSet(s) /\ Head(s) \in ToSet(s)
  BY <1>1, <1>2, <1>3, <1>4 DEF ToSet
<1>6. IsInjective(s) => IsInjective(t) /\ Head(s) \notin ToSet(t)
  <2> SUFFICES ASSUME IsInjective(s) PROVE IsInjective(t) /\ Head(s) \notin ToSet(t)
    OBVIOUS
  <2>1. \A i, j \in 1..Len(s) : s[i] = s[j] => i = j
    BY <1>2 DEF IsInjective
  <2>2. ASSUME NEW i \in 1..Len(t), NEW j \in 1..Len(t), t[i] = t[j] PROVE i = j
    <3>1. i + 1 = j + 1
      BY <1>1, <1>3, <2>1, <2>2
    <3> QED BY <3>1
  <2>3. \A i \in 1..Len(t) : t[i] # s[1]
    BY <1>1, <1>3, <1>4, <2>1
  <2> QED BY <1>1, <1>2, <2>2, <2>3 DEF IsInjective, ToSet
<1> QED BY <1>1, <1>5, <1>6 DEF t

(* What RemoveAt leaves.                                                   *)
LEMMA RemoveAtElements ==
    ASSUME NEW S, NEW s \in Seq(S), NEW k \in 1..Len(s)
    PROVE  /\ RemoveAt(s, k) \in Seq(S)
           /\ Len(RemoveAt(s, k)) = Len(s) - 1
           /\ \A i \in 1..(Len(s) - 1) : RemoveAt(s, k)[i] = IF i < k THEN s[i] ELSE s[i + 1]
<1> DEFINE a == SubSeq(s, 1, k - 1)
           b == SubSeq(s, k + 1, Len(s))
<1>1. /\ a \in Seq(S) /\ Len(a) = k - 1
      /\ \A i \in 1..(k - 1) : a[i] = s[i]
  OBVIOUS
<1>2. /\ b \in Seq(S) /\ Len(b) = Len(s) - k
      /\ \A i \in 1..(Len(s) - k) : b[i] = s[k + i]
  OBVIOUS
<1>3. /\ a \o b \in Seq(S) /\ Len(a \o b) = Len(s) - 1
      /\ \A i \in 1..(Len(s) - 1) : (a \o b)[i] = IF i <= k - 1 THEN a[i] ELSE b[i - (k - 1)]
  <2> HIDE DEF a, b
  <2> QED BY <1>1, <1>2, ConcatProperties
<1>4. \A i \in 1..(Len(s) - 1) : (a \o b)[i] = IF i < k THEN s[i] ELSE s[i + 1]
  <2> HIDE DEF a, b
  <2> QED BY <1>1, <1>2, <1>3
<1> QED BY <1>3, <1>4 DEF RemoveAt

(* An element taken out of a sequence that holds each once.                *)
LEMMA RemoveAtSet ==
    ASSUME NEW S, NEW s \in Seq(S), IsInjective(s), NEW k \in DOMAIN s
    PROVE  /\ RemoveAt(s, k) \in Seq(S) /\ IsInjective(RemoveAt(s, k))
           /\ ToSet(RemoveAt(s, k)) = ToSet(s) \ {s[k]}
<1> DEFINE t == RemoveAt(s, k)
<1>1. DOMAIN s = 1..Len(s) /\ Len(s) \in Nat /\ k \in 1..Len(s)
  OBVIOUS
<1>2. /\ t \in Seq(S) /\ Len(t) = Len(s) - 1
      /\ \A i \in 1..(Len(s) - 1) : t[i] = IF i < k THEN s[i] ELSE s[i + 1]
  BY <1>1, RemoveAtElements
<1> HIDE DEF t
<1>3. DOMAIN t = 1..Len(t)
  BY <1>2
<1> DEFINE m(x) == IF x < k THEN x ELSE x + 1
<1>4. \A i \in 1..Len(t) : m(i) \in 1..Len(s) /\ m(i) # k /\ t[i] = s[m(i)]
  BY <1>1, <1>2
<1>5. \A i, j \in 1..Len(t) : m(i) = m(j) => i = j
  BY <1>1, <1>2
<1>6. \A j \in 1..Len(s) : j # k => \E i \in 1..Len(t) : m(i) = j
  <2> SUFFICES ASSUME NEW j \in 1..Len(s), j # k PROVE \E i \in 1..Len(t) : m(i) = j
    OBVIOUS
  <2>1. CASE j < k
    <3>1. j \in 1..Len(t) /\ m(j) = j
      BY <1>1, <1>2, <2>1
    <3> QED BY <3>1
  <2>2. CASE j > k
    <3>1. j - 1 \in 1..Len(t) /\ m(j - 1) = j
      BY <1>1, <1>2, <2>2
    <3> QED BY <3>1
  <2> QED BY <2>1, <2>2, <1>1
<1> HIDE DEF m
<1>7. \A i, j \in 1..Len(s) : s[i] = s[j] => i = j
  BY <1>1 DEF IsInjective
<1>8. IsInjective(t)
  BY <1>3, <1>4, <1>5, <1>7 DEF IsInjective
<1>9. ToSet(t) = ToSet(s) \ {s[k]}
  <2>1. \A x : x \in ToSet(t) <=> \E i \in 1..Len(t) : x = t[i]
    BY <1>3 DEF ToSet
  <2>2. \A x : x \in ToSet(s) <=> \E i \in 1..Len(s) : x = s[i]
    BY <1>1 DEF ToSet
  <2>3. ASSUME NEW i \in 1..Len(t) PROVE t[i] \in ToSet(s) \ {s[k]}
    BY <2>2, <1>1, <1>4, <1>7
  <2>4. ASSUME NEW j \in 1..Len(s), s[j] # s[k] PROVE s[j] \in ToSet(t)
    <3>1. PICK i \in 1..Len(t) : m(i) = j
      BY <1>6, <2>4
    <3> QED BY <1>4, <2>1, <3>1
  <2> QED BY <2>1, <2>2, <2>3, <2>4
<1> QED BY <1>2, <1>8, <1>9 DEF t

-----------------------------------------------------------------------------
(* The invariant.                                                          *)

(* What is sent, registered or on its way is of a subscription that was    *)
(* made, and the heartbeat is never revoked.                               *)
Known ==
    /\ ToSet(toSend) \subseteq issued /\ IsInjective(toSend)
    /\ registered \subseteq issued \cup {HeartbeatId} /\ IsFiniteSet(registered)
    /\ \A i \in DOMAIN inbox : inbox[i].id \in issued
    /\ socket = "open" /\ Heartbeat => HeartbeatId \in registered

(* The i-th frame on its way answers a request of s.                       *)
Reply(i, s) == inbox[i].id = s /\ inbox[i].kind # "event"

(* A request is answered once, and the flag of s will agree with the       *)
(* server when the answer has been read; events of s come behind it.       *)
Settled(s) ==
    /\ \A i, j \in DOMAIN inbox : Reply(i, s) /\ Reply(j, s) => i = j
    /\ \A i \in DOMAIN inbox : Reply(i, s) =>
           ~active[s] /\ (inbox[i].kind = "ok" <=> s \in registered)
    /\ (\A i \in DOMAIN inbox : ~Reply(i, s)) => (active[s] <=> s \in registered)
    /\ \A j \in DOMAIN inbox : inbox[j].id = s /\ inbox[j].kind = "event" =>
           /\ s \in registered
           /\ active[s] \/ \E i \in DOMAIN inbox : i < j /\ Reply(i, s)
    /\ s \in ToSet(toSend) =>
           /\ ~active[s] /\ s \notin registered
           /\ \A i \in DOMAIN inbox : ~Reply(i, s)

AllSettled ==
    socket = "open" /\ ~stopping => \A s \in Held \ leaving : Settled(s)

-----------------------------------------------------------------------------
(* Types.                                                                  *)

Base == TypeOK /\ Known

Frames == [kind : Kinds, id : Subs]

(* The requests.                                                           *)
LEMMA RequestBase ==
    ASSUME Base, NEW s \in Subs, Request(s)
    PROVE  /\ inbox' \in Seq(Frames)
           /\ registered' \subseteq registered \cup {s} /\ registered \subseteq registered'
           /\ IsFiniteSet(registered') /\ Cardinality(registered') <= ServerCap
           /\ \A i \in DOMAIN inbox' : inbox'[i].id \in {inbox[j].id : j \in DOMAIN inbox} \cup {s}
<1>1. inbox \in Seq(Frames) /\ IsFiniteSet(registered) /\ Cardinality(registered) <= ServerCap
      /\ ServerCap \in Nat /\ Cardinality(registered) \in Nat
  BY FS_CardinalityType, SubscriberAssumption DEF Base, TypeOK, Known, Frames
<1>2. PICK k \in {"ok", "error"} : inbox' = Append(inbox, Frame(k, s))
  BY DEF Request
<1>3. Frame(k, s) \in Frames /\ Frame(k, s).id = s
  BY DEF Frame, Frames, Kinds
<1>4. inbox' \in Seq(Frames) /\ ToSet(inbox') = ToSet(inbox) \cup {Frame(k, s)}
  BY <1>1, <1>2, <1>3, AppendSet
<1>5. \A i \in DOMAIN inbox' : inbox'[i].id \in {inbox[j].id : j \in DOMAIN inbox} \cup {s}
  BY <1>3, <1>4 DEF ToSet
<1>6. CASE registered' = registered
  BY <1>1, <1>4, <1>5, <1>6
<1>7. CASE registered' = registered \cup {s} /\ Cardinality(registered) < ServerCap
  <2>1. IsFiniteSet(registered') /\ Cardinality(registered') <= Cardinality(registered) + 1
        /\ Cardinality(registered') \in Nat
    <3>1. /\ IsFiniteSet(registered \cup {s})
          /\ Cardinality(registered \cup {s}) =
                 IF s \in registered THEN Cardinality(registered) ELSE Cardinality(registered) + 1
      BY <1>1, FS_AddElement
    <3> QED BY <1>1, <1>7, <3>1
  <2> QED BY <1>1, <1>4, <1>5, <1>7, <2>1
<1> QED BY <1>6, <1>7 DEF Request

(* Taking one back; the heartbeat's query is not a subscription's.         *)
LEMMA RevokeBase ==
    ASSUME Base, NEW s \in Subs, Revoke(s)
    PROVE  /\ inbox' \in Seq(Frames)
           /\ registered' \subseteq registered
           /\ HeartbeatId \in registered => HeartbeatId \in registered'
           /\ IsFiniteSet(registered') /\ Cardinality(registered') <= ServerCap
           /\ \A i \in DOMAIN inbox' : inbox'[i].id \in {inbox[j].id : j \in DOMAIN inbox} \cup {s}
<1>1. inbox \in Seq(Frames) /\ IsFiniteSet(registered) /\ Cardinality(registered) <= ServerCap
      /\ ServerCap \in Nat /\ Cardinality(registered) \in Nat
  BY FS_CardinalityType, SubscriberAssumption DEF Base, TypeOK, Known, Frames
<1>2. PICK k \in {"ok", "error"} : inbox' = Append(inbox, Frame(k, s))
  BY DEF Revoke
<1>3. Frame(k, s) \in Frames /\ Frame(k, s).id = s
  BY DEF Frame, Frames, Kinds
<1>4. inbox' \in Seq(Frames) /\ ToSet(inbox') = ToSet(inbox) \cup {Frame(k, s)}
  BY <1>1, <1>2, <1>3, AppendSet
<1>5. \A i \in DOMAIN inbox' : inbox'[i].id \in {inbox[j].id : j \in DOMAIN inbox} \cup {s}
  BY <1>3, <1>4 DEF ToSet
<1>6. registered' \in SUBSET registered
  BY DEF Revoke
<1>7. IsFiniteSet(registered') /\ Cardinality(registered') <= Cardinality(registered)
  BY <1>1, <1>6, FS_Subset
<1>8. Cardinality(registered') \in Nat
  BY <1>7, FS_CardinalityType
<1>9. HeartbeatId \in registered => HeartbeatId \in registered'
  BY SubscriberAssumption DEF Revoke, SameQuery
<1> QED BY <1>1, <1>4, <1>5, <1>6, <1>7, <1>8, <1>9

(* No connection, or a new one.                                            *)
LEMMA FreshServer ==
    ASSUME inbox' = <<>>, registered' \in {{}, {HeartbeatId}}
    PROVE  /\ inbox' \in Seq(Frames) /\ \A i \in DOMAIN inbox' : inbox'[i].id \in issued
           /\ IsFiniteSet(registered') /\ Cardinality(registered') <= ServerCap
<1>1. inbox' \in Seq(Frames) /\ DOMAIN inbox' = {}
  OBVIOUS
<1>2. IsFiniteSet(registered') /\ Cardinality(registered') \in {0, 1}
  <2>1. IsFiniteSet({}) /\ Cardinality({}) = 0
    BY FS_EmptySet
  <2>2. IsFiniteSet({HeartbeatId}) /\ Cardinality({HeartbeatId}) = 1
    BY FS_Singleton
  <2> QED BY <2>1, <2>2
<1> QED BY <1>1, <1>2, SubscriberAssumption

(* Flags are cleared.                                                      *)
LEMMA DeactivateType ==
    ASSUME TypeOK, NEW S, Deactivate(S)
    PROVE  /\ active' \in [Subs -> BOOLEAN]
           /\ \A s \in Subs : active'[s] => active[s] /\ s \notin S
           /\ \A s \in Subs \ S : active'[s] <=> active[s]
BY Zenon DEF Deactivate, TypeOK

(* A subscription is forgotten.                                            *)
LEMMA ForgetBase ==
    ASSUME TypeOK, NEW s, Forget(s)
    PROVE  subs' \in Seq(Subs) /\ IsInjective(subs') /\ Held' = Held \ {s}
<1>1. PICK i \in DOMAIN subs : subs[i] = s /\ subs' = RemoveAt(subs, i)
  BY DEF Forget
<1>2. subs \in Seq(Subs) /\ IsInjective(subs)
  BY DEF TypeOK
<1> QED BY <1>1, <1>2, RemoveAtSet DEF Held

(* The loop and its connection.                                            *)
LEMMA LoopBase ==
    ASSUME Base, Reconnect \/ Connect \/ ConnectFails \/ Connected \/ CallbacksReturn \/ Watchdog
    PROVE  Base'
<1> USE DEF subVars, stopVars, server, bounds, history, Held
<1>1. CASE Reconnect \/ Connected \/ CallbacksReturn \/ ConnectFails
  <2>1. /\ UNCHANGED <<subs, issued, active, leaving, toSend, socket, stopping, stopQueue,
                       inbox, registered, deaf, published, refused, dropped>>
        /\ loop' \in {"stopped", "connect", "sending", "recv", "callback"}
        /\ faults' \in 0..MaxFaults
    <3>1. CASE Reconnect \/ Connected \/ CallbacksReturn
      BY <3>1 DEF Reconnect, Connected, CallbacksReturn, Base, TypeOK
    <3>2. CASE ConnectFails
      BY <3>2, SubscriberAssumption DEF ConnectFails, Base, TypeOK
    <3> QED BY <1>1, <3>1, <3>2
  <2>2. TypeOK'
    BY <2>1 DEF Base, TypeOK
  <2>3. Known'
    BY <2>1 DEF Base, Known
  <2> QED BY <2>2, <2>3 DEF Base
<1>2. CASE Connect
  <2>1. /\ UNCHANGED <<subs, issued, leaving, stopping, stopQueue, faults, published, dropped>>
        /\ socket' = "open" /\ deaf' = FALSE /\ toSend' = subs /\ loop' = "sending" /\ refused' = {}
        /\ inbox' = <<>> /\ registered' = IF Heartbeat THEN {HeartbeatId} ELSE {}
    BY <1>2 DEF Connect
  <2>2. /\ active' \in [Subs -> BOOLEAN] /\ \A s \in Subs : active'[s] => active[s]
    BY <1>2, DeactivateType DEF Connect, Base
  <2>3. /\ inbox' \in Seq(Frames) /\ \A i \in DOMAIN inbox' : inbox'[i].id \in issued
        /\ IsFiniteSet(registered') /\ Cardinality(registered') <= ServerCap
    BY <2>1, FreshServer
  <2>4. subs \in Seq(Ids)
    BY DEF Base, TypeOK, Ids
  <2>5. TypeOK'
    BY <2>1, <2>2, <2>3, <2>4 DEF Base, TypeOK, Frames, Ids
  <2>6. Known'
    BY <2>1, <2>3 DEF Base, TypeOK, Known
  <2> QED BY <2>5, <2>6 DEF Base
<1>3. CASE Watchdog
  <2>1. /\ UNCHANGED <<subs, issued, active, leaving, toSend, loop, stopping, stopQueue,
                       faults, published, refused, dropped>>
        /\ socket' = "none" /\ deaf' = FALSE /\ inbox' = <<>> /\ registered' = {}
    BY <1>3 DEF Watchdog
  <2>2. /\ inbox' \in Seq(Frames) /\ \A i \in DOMAIN inbox' : inbox'[i].id \in issued
        /\ IsFiniteSet(registered') /\ Cardinality(registered') <= ServerCap
    BY <2>1, FreshServer
  <2>3. TypeOK'
    BY <2>1, <2>2 DEF Base, TypeOK, Frames
  <2>4. Known'
    BY <2>1, <2>2 DEF Base, Known
  <2> QED BY <2>3, <2>4 DEF Base
<1> QED BY <1>1, <1>2, <1>3

(* The next subscription of the snapshot.                                  *)
LEMMA SendBase ==
    ASSUME Base, SendNext
    PROVE  Base'
<1> USE DEF subVars, stopVars, server, bounds, history, Held
<1> DEFINE s == Head(toSend)
<1>1. /\ UNCHANGED <<subs, issued, active, leaving, loop, socket, stopping, stopQueue, deaf,
                     faults, published, refused, dropped>>
      /\ toSend # <<>> /\ toSend' = Tail(toSend)
      /\ IF socket = "open" THEN Request(s) ELSE UNCHANGED <<inbox, registered>>
  BY DEF SendNext
<1>2. /\ toSend \in Seq(Ids) /\ IsInjective(toSend) /\ ToSet(toSend) \subseteq issued
      /\ issued \subseteq Subs
  BY DEF Base, TypeOK, Known
<1>3. /\ toSend' \in Seq(Ids) /\ IsInjective(toSend') /\ ToSet(toSend') \subseteq issued
      /\ s \in issued
  BY <1>1, <1>2, TailSet
<1> HIDE DEF s
<1>4. /\ inbox' \in Seq(Frames) /\ \A i \in DOMAIN inbox' : inbox'[i].id \in issued
      /\ IsFiniteSet(registered') /\ Cardinality(registered') <= ServerCap
      /\ registered' \subseteq issued \cup {HeartbeatId} /\ registered \subseteq registered'
  <2>1. CASE socket = "open"
    <3>1. s \in Subs /\ Request(s)
      BY <1>1, <1>2, <1>3, <2>1
    <3>2. \A j \in DOMAIN inbox : inbox[j].id \in issued
      BY DEF Base, Known
    <3>3. /\ inbox' \in Seq(Frames)
          /\ registered' \subseteq registered \cup {s} /\ registered \subseteq registered'
          /\ IsFiniteSet(registered') /\ Cardinality(registered') <= ServerCap
          /\ \A i \in DOMAIN inbox' : inbox'[i].id \in {inbox[j].id : j \in DOMAIN inbox} \cup {s}
      BY <3>1, RequestBase
    <3>4. registered \subseteq issued \cup {HeartbeatId}
      BY DEF Base, Known
    <3> QED BY <1>3, <3>2, <3>3, <3>4
  <2>2. CASE socket # "open"
    BY <1>1, <2>2 DEF Base, TypeOK, Known, Frames
  <2> QED BY <2>1, <2>2
<1>5. registered' \subseteq Ids
  BY <1>2, <1>4 DEF Ids
<1>6. TypeOK'
  BY <1>1, <1>3, <1>4, <1>5 DEF Base, TypeOK, Frames
<1>7. Known'
  BY <1>1, <1>3, <1>4 DEF Base, Known
<1> QED BY <1>6, <1>7 DEF Base

(* A frame is read.                                                        *)
LEMMA ReceiveBase ==
    ASSUME Base, Receive
    PROVE  Base'
<1> USE DEF subVars, stopVars, bounds, history, Held
<1> DEFINE f == Head(inbox)
<1>1. /\ UNCHANGED <<subs, issued, leaving, toSend, socket, stopping, stopQueue, registered, deaf,
                     faults, published>>
      /\ loop = "recv" /\ inbox # <<>> /\ inbox' = Tail(inbox)
      /\ Confirmation(f) \/ Dispatch(f)
  BY DEF Receive
<1>2. /\ inbox' \in Seq(Frames) /\ f \in Frames /\ ToSet(inbox') \subseteq ToSet(inbox)
  BY <1>1, TailSet DEF Base, TypeOK, Frames
<1>3. \A i \in DOMAIN inbox' : inbox'[i].id \in issued
  <2>1. \A i \in DOMAIN inbox' : inbox'[i] \in ToSet(inbox)
    BY <1>2 DEF ToSet
  <2> QED BY <2>1 DEF ToSet, Base, Known
<1> HIDE DEF f
<1>4. f.id \in Subs
  BY <1>2 DEF Frames
<1>5. /\ active' \in [Subs -> BOOLEAN] /\ \A s \in Subs : active'[s] => s \in Held
      /\ refused' \subseteq Subs /\ dropped' \in BOOLEAN
      /\ loop' \in {"stopped", "connect", "sending", "recv", "callback"}
  <2>1. CASE Confirmation(f)
    <3>1. /\ loop' = loop /\ dropped' = dropped
          /\ refused' = refused \/ refused' = refused \cup {f.id}
          /\ \/ f.id \in Held /\ active' = [active EXCEPT ![f.id] = (f.kind = "ok")]
             \/ active' = active
      BY <2>1 DEF Confirmation
    <3>2. active' \in [Subs -> BOOLEAN] /\ \A s \in Subs : active'[s] => s \in Held
      BY <3>1, <1>4, Zenon DEF Base, TypeOK
    <3> QED BY <1>4, <3>1, <3>2 DEF Base, TypeOK
  <2>2. CASE Dispatch(f)
    <3>1. active' = active /\ refused' = refused /\ loop' \in {loop, "callback"} /\ dropped' \in BOOLEAN
      BY <2>2 DEF Dispatch, Base, TypeOK
    <3> QED BY <3>1 DEF Base, TypeOK
  <2> QED BY <1>1, <2>1, <2>2
<1>6. TypeOK'
  BY <1>1, <1>2, <1>5 DEF Base, TypeOK, Frames
<1>7. Known'
  BY <1>1, <1>3 DEF Base, Known
<1> QED BY <1>6, <1>7 DEF Base

(* The server's own steps.                                                 *)
LEMMA ServerBase ==
    ASSUME Base, Disconnect \/ GoDeaf \/ \E s \in Subs : Publish(s)
    PROVE  Base'
<1> USE DEF subVars, stopVars, server, history, Held
<1>1. CASE Disconnect
  <2>1. /\ UNCHANGED <<subs, issued, active, leaving, toSend, loop, stopping, stopQueue,
                       published, refused, dropped>>
        /\ socket' = "closed" /\ deaf' = FALSE /\ inbox' = <<>> /\ registered' = {}
        /\ faults < MaxFaults /\ faults' = faults + 1
    BY <1>1 DEF Disconnect
  <2>2. /\ inbox' \in Seq(Frames) /\ \A i \in DOMAIN inbox' : inbox'[i].id \in issued
        /\ IsFiniteSet(registered') /\ Cardinality(registered') <= ServerCap
    BY <2>1, FreshServer
  <2>3. faults' \in 0..MaxFaults
    BY <2>1, SubscriberAssumption DEF Base, TypeOK
  <2>4. TypeOK'
    BY <2>1, <2>2, <2>3 DEF Base, TypeOK, Frames
  <2>5. Known'
    BY <2>1, <2>2 DEF Base, Known
  <2> QED BY <2>4, <2>5 DEF Base
<1>2. CASE GoDeaf
  <2>1. /\ UNCHANGED <<subs, issued, active, leaving, toSend, loop, socket, stopping, stopQueue,
                       inbox, registered, published, refused, dropped>>
        /\ deaf' = TRUE /\ faults < MaxFaults /\ faults' = faults + 1
    BY <1>2 DEF GoDeaf
  <2>2. faults' \in 0..MaxFaults
    BY <2>1, SubscriberAssumption DEF Base, TypeOK
  <2>3. TypeOK'
    BY <2>1, <2>2 DEF Base, TypeOK
  <2>4. Known'
    BY <2>1 DEF Base, Known
  <2> QED BY <2>3, <2>4 DEF Base
<1>3. CASE \E s \in Subs : Publish(s)
  <2>1. PICK s \in Subs :
            /\ s \in registered /\ published < MaxEvents /\ published' = published + 1
            /\ inbox' = Append(inbox, Frame("event", s))
            /\ UNCHANGED <<subs, issued, active, leaving, toSend, loop, socket, stopping, stopQueue,
                           registered, deaf, faults, refused, dropped>>
    BY <1>3 DEF Publish
  <2>2. Frame("event", s) \in Frames /\ Frame("event", s).id = s
    BY DEF Frame, Frames, Kinds
  <2>3. inbox' \in Seq(Frames) /\ ToSet(inbox') = ToSet(inbox) \cup {Frame("event", s)}
    <3>1. inbox \in Seq(Frames)
      BY DEF Base, TypeOK, Frames
    <3> QED BY <2>1, <2>2, <3>1, AppendSet
  <2>4. s \in issued
    BY <2>1, SubscriberAssumption DEF Base, Known
  <2>5. \A i \in DOMAIN inbox' : inbox'[i].id \in issued
    <3>1. \A i \in DOMAIN inbox' : inbox'[i] \in ToSet(inbox) \cup {Frame("event", s)}
      BY <2>3 DEF ToSet
    <3> QED BY <3>1, <2>2, <2>4 DEF ToSet, Base, Known
  <2>6. published' \in 0..MaxEvents
    BY <2>1, SubscriberAssumption DEF Base, TypeOK
  <2>7. TypeOK'
    BY <2>1, <2>3, <2>6 DEF Base, TypeOK, Frames
  <2>8. Known'
    BY <2>1, <2>5 DEF Base, Known
  <2> QED BY <2>7, <2>8 DEF Base
<1> QED BY <1>1, <1>2, <1>3

(* A new subscription.                                                     *)
LEMMA SubscribeBase ==
    ASSUME Base, NEW s \in Subs, SubscribeBlockEvents(s) \/ Subscribe(s)
    PROVE  Base' /\ Held' = Held \cup {s}
<1> USE DEF subVars, stopVars, server, bounds, history
<1>1. /\ UNCHANGED <<active, leaving, toSend, socket, stopping, stopQueue, deaf,
                     faults, published, refused, dropped>>
      /\ s \in Subs \ issued /\ issued' = issued \cup {s} /\ subs' = Append(subs, s)
      /\ loop' \in {loop, "recv"}
  BY DEF SubscribeBlockEvents, Subscribe, NewSubscription, Started
<1>2. Request(s) \/ UNCHANGED <<inbox, registered>>
  BY DEF SubscribeBlockEvents, Subscribe
<1>3. subs \in Seq(Subs) /\ IsInjective(subs) /\ s \notin ToSet(subs)
  BY <1>1 DEF Base, TypeOK, Held
<1>4. subs' \in Seq(Subs) /\ IsInjective(subs') /\ Held' = Held \cup {s}
  BY <1>1, <1>3, AppendSet DEF Held
<1>5. /\ inbox' \in Seq(Frames) /\ \A i \in DOMAIN inbox' : inbox'[i].id \in issued'
      /\ IsFiniteSet(registered') /\ Cardinality(registered') <= ServerCap
      /\ registered' \subseteq issued' \cup {HeartbeatId} /\ registered \subseteq registered'
  <2>1. /\ \A j \in DOMAIN inbox : inbox[j].id \in issued
        /\ registered \subseteq issued \cup {HeartbeatId}
    BY DEF Base, Known
  <2>2. CASE Request(s)
    <3>1. /\ inbox' \in Seq(Frames)
          /\ registered' \subseteq registered \cup {s} /\ registered \subseteq registered'
          /\ IsFiniteSet(registered') /\ Cardinality(registered') <= ServerCap
          /\ \A i \in DOMAIN inbox' : inbox'[i].id \in {inbox[j].id : j \in DOMAIN inbox} \cup {s}
      BY <2>2, RequestBase
    <3> QED BY <1>1, <2>1, <3>1
  <2>3. CASE UNCHANGED <<inbox, registered>>
    BY <1>1, <2>1, <2>3 DEF Base, TypeOK, Known, Frames
  <2> QED BY <1>2, <2>2, <2>3
<1>6. registered' \subseteq Ids
  BY <1>1, <1>5 DEF Ids, Base, TypeOK
<1>7. TypeOK'
  BY <1>1, <1>4, <1>5, <1>6 DEF Base, TypeOK, Frames
<1>8. Known'
  BY <1>1, <1>5 DEF Base, Known
<1> QED BY <1>4, <1>7, <1>8 DEF Base

(* The end of one.                                                         *)
LEMMA UnsubscribeBase ==
    ASSUME Base, NEW s \in Subs, Unsubscribe(s) \/ Unsubscribed(s)
    PROVE  Base'
<1> USE DEF subVars, stopVars, server, bounds, history
<1>1. UNCHANGED <<issued, loop, toSend, socket, stopping, stopQueue, deaf,
                  faults, published, refused, dropped>>
  BY DEF Unsubscribe, Unsubscribed
<1>2. CASE Revoke(s) /\ leaving' = leaving \cup {s} /\ s \in Held /\ UNCHANGED <<subs, active>>
  <2>1. /\ inbox' \in Seq(Frames) /\ registered' \subseteq registered
        /\ HeartbeatId \in registered => HeartbeatId \in registered'
        /\ IsFiniteSet(registered') /\ Cardinality(registered') <= ServerCap
        /\ \A i \in DOMAIN inbox' : inbox'[i].id \in {inbox[j].id : j \in DOMAIN inbox} \cup {s}
    BY <1>2, RevokeBase
  <2>2. s \in issued /\ \A j \in DOMAIN inbox : inbox[j].id \in issued
    BY <1>2 DEF Base, TypeOK, Known
  <2>3. Held' = Held
    BY <1>2 DEF Held
  <2>4. TypeOK'
    BY <1>1, <1>2, <2>1, <2>3 DEF Base, TypeOK, Frames
  <2>5. Known'
    BY <1>1, <2>1, <2>2 DEF Base, Known
  <2> QED BY <2>4, <2>5 DEF Base
<1>3. CASE /\ Forget(s) /\ Deactivate({s}) /\ UNCHANGED <<inbox, registered>>
           /\ leaving' = leaving \ {s}
  <2>1. subs' \in Seq(Subs) /\ IsInjective(subs') /\ Held' = Held \ {s}
    BY <1>3, ForgetBase DEF Base
  <2>2. active' \in [Subs -> BOOLEAN] /\ \A t \in Subs : active'[t] => active[t] /\ t # s
    BY <1>3, DeactivateType DEF Base
  <2>3. TypeOK'
    BY <1>1, <1>3, <2>1, <2>2 DEF Base, TypeOK
  <2>4. Known'
    BY <1>1, <1>3 DEF Base, Known
  <2> QED BY <2>3, <2>4 DEF Base
<1>4. Unsubscribe(s) => leaving' = leaving \cup {s} \/ leaving' = leaving \ {s}
  BY DEF Unsubscribe
<1>5. CASE Unsubscribe(s)
  BY <1>2, <1>3, <1>5 DEF Unsubscribe
<1>6. CASE Unsubscribed(s)
  BY <1>3, <1>6 DEF Unsubscribed
<1> QED BY <1>5, <1>6

(* stop.                                                                   *)
LEMMA StopBase ==
    ASSUME Base, Stop \/ StopProceeds
    PROVE  Base'
<1> USE DEF subVars, stopVars, server, bounds, history
<1>1. CASE Stop
  <2>1. /\ UNCHANGED <<subs, issued, active, leaving, socket, inbox, registered, deaf,
                       faults, published, refused, dropped>>
        /\ toSend' = <<>> /\ stopping' = TRUE /\ stopQueue' = subs /\ loop' = "stopped"
    BY <1>1 DEF Stop
  <2>2. toSend' \in Seq(Ids) /\ ToSet(toSend') = {} /\ IsInjective(toSend')
    BY <2>1 DEF ToSet, IsInjective
  <2>3. TypeOK'
    BY <2>1, <2>2 DEF Base, TypeOK, Held
  <2>4. Known'
    BY <2>1, <2>2 DEF Base, Known
  <2> QED BY <2>3, <2>4 DEF Base
<1>2. CASE StopUnsubscribes
  <2> DEFINE s == Head(stopQueue)
  <2>1. /\ UNCHANGED <<subs, issued, leaving, loop, toSend, socket, stopping, deaf,
                       faults, published, refused, dropped>>
        /\ stopQueue # <<>> /\ stopQueue' = Tail(stopQueue)
        /\ \/ Revoke(s) /\ Deactivate({s}) /\ s \in Held
           \/ UNCHANGED <<active, inbox, registered>>
    BY <1>2 DEF StopUnsubscribes
  <2>2. stopQueue' \in Seq(Subs) /\ s \in Subs
    BY <2>1, TailSet DEF Base, TypeOK
  <2> HIDE DEF s
  <2>3. CASE UNCHANGED <<active, inbox, registered>>
    <3>1. TypeOK'
      BY <2>1, <2>2, <2>3 DEF Base, TypeOK, Held
    <3>2. Known'
      BY <2>1, <2>3 DEF Base, Known
    <3> QED BY <3>1, <3>2 DEF Base
  <2>4. CASE Revoke(s) /\ Deactivate({s}) /\ s \in Held
    <3>1. /\ inbox' \in Seq(Frames) /\ registered' \subseteq registered
          /\ HeartbeatId \in registered => HeartbeatId \in registered'
          /\ IsFiniteSet(registered') /\ Cardinality(registered') <= ServerCap
          /\ \A i \in DOMAIN inbox' : inbox'[i].id \in {inbox[j].id : j \in DOMAIN inbox} \cup {s}
      BY <2>2, <2>4, RevokeBase
    <3>2. s \in issued /\ \A j \in DOMAIN inbox : inbox[j].id \in issued
      BY <2>4 DEF Base, TypeOK, Known
    <3>3. active' \in [Subs -> BOOLEAN] /\ \A t \in Subs : active'[t] => active[t]
      BY <2>4, DeactivateType DEF Base
    <3>4. TypeOK'
      BY <2>1, <2>2, <3>1, <3>3 DEF Base, TypeOK, Frames, Held
    <3>5. Known'
      BY <2>1, <3>1, <3>2 DEF Base, Known
    <3> QED BY <3>4, <3>5 DEF Base
  <2> QED BY <2>1, <2>3, <2>4
<1>3. CASE StopCloses
  <2>1. /\ UNCHANGED <<subs, issued, active, leaving, toSend, loop, stopQueue,
                       faults, published, refused, dropped>>
        /\ stopping' = FALSE
        /\ socket' = "none" /\ deaf' = FALSE /\ inbox' = <<>> /\ registered' = {}
    BY <1>3 DEF StopCloses
  <2>2. /\ inbox' \in Seq(Frames) /\ \A i \in DOMAIN inbox' : inbox'[i].id \in issued
        /\ IsFiniteSet(registered') /\ Cardinality(registered') <= ServerCap
    BY <2>1, FreshServer
  <2>3. TypeOK'
    BY <2>1, <2>2 DEF Base, TypeOK, Frames, Held
  <2>4. Known'
    BY <2>1, <2>2 DEF Base, Known
  <2> QED BY <2>3, <2>4 DEF Base
<1> QED BY <1>1, <1>2, <1>3 DEF StopProceeds

(* Every step.                                                             *)
LEMMA BaseInductive == Spec => []Base
<1>1. Init => Base
  <2> SUFFICES ASSUME Init PROVE Base
    OBVIOUS
  <2>1. /\ IsFiniteSet({}) /\ Cardinality({}) = 0
        /\ \A S : <<>> \in Seq(S) /\ ToSet(<<>>) = {} /\ IsInjective(<<>>)
    BY FS_EmptySet DEF ToSet, IsInjective
  <2>2. TypeOK
    <3>1. active \in [Subs -> BOOLEAN] /\ \A s \in Subs : ~active[s]
      BY Zenon DEF Init
    <3>2. /\ inbox \in Seq([kind : Kinds, id : Subs]) /\ toSend \in Seq(Ids) /\ stopQueue \in Seq(Subs)
          /\ subs \in Seq(Subs) /\ IsInjective(subs) /\ Held = {}
      BY <2>1 DEF Init, Held
    <3>3. registered = {} /\ Cardinality(registered) <= ServerCap
      BY <2>1, SubscriberAssumption DEF Init
    <3>4. faults \in 0..MaxFaults /\ published \in 0..MaxEvents
      BY SubscriberAssumption DEF Init
    <3> QED BY <3>1, <3>2, <3>3, <3>4 DEF Init, TypeOK
  <2>3. Known
    BY <2>1 DEF Init, Known
  <2> QED BY <2>2, <2>3 DEF Base
<1>2. Base /\ [Next]_vars => Base'
  <2> SUFFICES ASSUME Base, [Next]_vars PROVE Base'
    OBVIOUS
  <2>1. CASE EventLoop \/ ConnectFails
    BY <2>1, LoopBase, SendBase, ReceiveBase DEF EventLoop
  <2>2. CASE Stop \/ StopProceeds
    BY <2>2, StopBase
  <2>3. CASE Disconnect \/ GoDeaf \/ \E s \in Subs : Publish(s)
    BY <2>3, ServerBase
  <2>4. CASE \E s \in Subs : Caller(s) \/ Unsubscribed(s)
    BY <2>4, SubscribeBase, UnsubscribeBase DEF Caller
  <2>5. CASE UNCHANGED vars
    BY <2>5 DEF vars, subVars, stopVars, server, bounds, history, Base, TypeOK, Known, Held
  <2> QED BY <2>1, <2>2, <2>3, <2>4, <2>5 DEF Next
<1> QED BY <1>1, <1>2, PTL DEF Spec

(* Types.                                                                  *)
THEOREM TypeCorrect == Spec => []TypeOK
<1>1. Base => TypeOK
  BY DEF Base
<1> QED BY <1>1, BaseInductive, PTL

(* With the heartbeat on, the watchdog only closes a connection whose      *)
(* server has stopped pushing: no request of a caller revokes the          *)
(* heartbeat, and no cap refuses it.                                       *)
THEOREM WatchdogJustified == Heartbeat => (Spec => WatchdogOnlyWhenDeaf)
<1> SUFFICES ASSUME Heartbeat PROVE Spec => WatchdogOnlyWhenDeaf
  OBVIOUS
<1>1. Base /\ [Next]_vars => [Watchdog => deaf]_vars
  BY DEF Base, Known, Watchdog, Silent
<1> QED BY <1>1, BaseInductive, PTL DEF Spec, WatchdogOnlyWhenDeaf

-----------------------------------------------------------------------------
(* The flags and the server, when no two subscriptions share a query: a    *)
(* server that is asked to drop the query of one drops it for both.        *)

Distinct == \A s, t \in Subs : QueryOf[s] = QueryOf[t] => s = t

(* A request is about its own subscription only.                           *)
LEMMA QueryAlone ==
    ASSUME Base, Distinct, NEW s \in Subs
    PROVE  SameQuery(s) = {s} \cap registered
<1>1. registered \subseteq Subs \cup {HeartbeatId}
  BY DEF Base, TypeOK, Ids
<1> QED BY <1>1, SubscriberAssumption DEF SameQuery, Distinct

(* The inbox after a frame has come.                                       *)
LEMMA InboxAppend ==
    ASSUME Base, NEW f \in Frames, inbox' = Append(inbox, f)
    PROVE  \E n \in Nat : /\ DOMAIN inbox = 1..n /\ DOMAIN inbox' = 1..(n + 1)
                          /\ inbox'[n + 1] = f /\ \A i \in 1..n : inbox'[i] = inbox[i]
<1>1. inbox \in Seq(Frames)
  BY DEF Base, TypeOK, Frames
<1>2. /\ inbox' \in Seq(Frames) /\ Len(inbox') = Len(inbox) + 1
      /\ inbox'[Len(inbox) + 1] = f /\ \A i \in 1..Len(inbox) : inbox'[i] = inbox[i]
  BY <1>1, AppendProperties
<1>3. DOMAIN inbox = 1..Len(inbox) /\ DOMAIN inbox' = 1..(Len(inbox) + 1) /\ Len(inbox) \in Nat
  BY <1>1, <1>2
<1> QED BY <1>2, <1>3

(* Nothing of s changes.                                                   *)
LEMMA SettledKept ==
    ASSUME NEW s, Settled(s), UNCHANGED inbox, active'[s] = active[s],
           s \in registered' <=> s \in registered, s \in ToSet(toSend') => s \in ToSet(toSend)
    PROVE  Settled(s)'
<1>1. \A i : Reply(i, s)' <=> Reply(i, s)
  BY DEF Reply
<1> QED BY <1>1 DEF Settled

(* A frame of another subscription comes.                                  *)
LEMMA SettledOther ==
    ASSUME Base, NEW s, Settled(s), NEW f \in Frames, f.id # s, inbox' = Append(inbox, f),
           active'[s] = active[s],
           s \in registered' <=> s \in registered, s \in ToSet(toSend') => s \in ToSet(toSend)
    PROVE  Settled(s)'
<1>1. PICK n \in Nat : /\ DOMAIN inbox = 1..n /\ DOMAIN inbox' = 1..(n + 1)
                       /\ inbox'[n + 1] = f /\ \A i \in 1..n : inbox'[i] = inbox[i]
  BY InboxAppend
<1>2. \A i \in DOMAIN inbox : i \in DOMAIN inbox' /\ inbox'[i] = inbox[i] /\ (Reply(i, s)' <=> Reply(i, s))
  BY <1>1 DEF Reply
<1>3. \A i \in DOMAIN inbox' : i \in DOMAIN inbox \/ (inbox'[i].id # s /\ ~Reply(i, s)')
  BY <1>1 DEF Reply
<1> QED BY <1>2, <1>3 DEF Settled

(* A request of s is answered, for the first time on this connection.      *)
LEMMA SettledAnswer ==
    ASSUME Base, NEW s \in Subs, NEW k \in {"ok", "error"}, inbox' = Append(inbox, Frame(k, s)),
           \A i \in DOMAIN inbox : inbox[i].id # s,
           ~active'[s], k = "ok" <=> s \in registered', s \notin ToSet(toSend')
    PROVE  Settled(s)'
<1>1. Frame(k, s) \in Frames /\ Frame(k, s).id = s /\ Frame(k, s).kind = k
  BY DEF Frame, Frames, Kinds
<1>2. PICK n \in Nat : /\ DOMAIN inbox = 1..n /\ DOMAIN inbox' = 1..(n + 1)
                       /\ inbox'[n + 1] = Frame(k, s) /\ \A i \in 1..n : inbox'[i] = inbox[i]
  BY <1>1, InboxAppend
<1>3. \A i \in DOMAIN inbox' : i # n + 1 => inbox'[i].id # s
  BY <1>2
<1>4. n + 1 \in DOMAIN inbox' /\ Reply(n + 1, s)' /\ inbox'[n + 1].kind = k
  BY <1>1, <1>2 DEF Reply
<1>5. \A i \in DOMAIN inbox' : Reply(i, s)' => i = n + 1
  BY <1>3 DEF Reply
<1>6. \A i \in DOMAIN inbox' : inbox'[i].id = s => inbox'[i].kind # "event"
  BY <1>1, <1>2, <1>3
<1> QED BY <1>4, <1>5, <1>6 DEF Settled

(* An event is pushed.                                                     *)
LEMMA SettledEvent ==
    ASSUME Base, NEW s \in Subs, Settled(s), inbox' = Append(inbox, Frame("event", s)),
           s \in registered, UNCHANGED <<active, registered, toSend>>
    PROVE  Settled(s)'
<1>1. Frame("event", s) \in Frames /\ Frame("event", s).id = s /\ Frame("event", s).kind = "event"
  BY DEF Frame, Frames, Kinds
<1>2. PICK n \in Nat : /\ DOMAIN inbox = 1..n /\ DOMAIN inbox' = 1..(n + 1)
                       /\ inbox'[n + 1] = Frame("event", s) /\ \A i \in 1..n : inbox'[i] = inbox[i]
  BY <1>1, InboxAppend
<1>3. \A i \in DOMAIN inbox : /\ i \in DOMAIN inbox' /\ inbox'[i] = inbox[i]
                              /\ Reply(i, s)' <=> Reply(i, s)
                              /\ i < n + 1
  BY <1>2 DEF Reply
<1>4. \A i \in DOMAIN inbox' : i \in DOMAIN inbox \/ (i = n + 1 /\ ~Reply(i, s)')
  BY <1>1, <1>2 DEF Reply
<1>5. active[s] \/ \E i \in DOMAIN inbox : Reply(i, s)
  BY DEF Settled
<1>6. \A i \in DOMAIN inbox' : Reply(i, s)' => i \in DOMAIN inbox /\ Reply(i, s)
  BY <1>3, <1>4
<1>7. \A i \in DOMAIN inbox : Reply(i, s) => i \in DOMAIN inbox' /\ Reply(i, s)' /\ i < n + 1 /\ inbox'[i] = inbox[i]
  BY <1>3
<1>8. s \notin ToSet(toSend')
  BY DEF Settled
<1>9. ASSUME NEW j \in DOMAIN inbox', inbox'[j].id = s, inbox'[j].kind = "event"
      PROVE  /\ s \in registered'
             /\ active'[s] \/ \E i \in DOMAIN inbox' : i < j /\ Reply(i, s)'
  <2>1. CASE j = n + 1
    BY <1>5, <1>7, <2>1
  <2>2. CASE j \in DOMAIN inbox
    <3>1. inbox[j].id = s /\ inbox[j].kind = "event"
      BY <1>3, <1>9, <2>2
    <3>2. active[s] \/ \E i \in DOMAIN inbox : i < j /\ Reply(i, s)
      BY <2>2, <3>1 DEF Settled
    <3> QED BY <1>7, <3>2
  <2> QED BY <1>4, <2>1, <2>2
<1> QED BY <1>6, <1>7, <1>8, <1>9 DEF Settled

(* The inbox after a frame has been read.                                  *)
LEMMA InboxTail ==
    ASSUME Base, inbox # <<>>, inbox' = Tail(inbox)
    PROVE  \E n \in Nat : /\ DOMAIN inbox = 1..(n + 1) /\ DOMAIN inbox' = 1..n
                          /\ inbox[1] = Head(inbox) /\ \A i \in 1..n : inbox'[i] = inbox[i + 1]
<1>1. inbox \in Seq(Frames)
  BY DEF Base, TypeOK, Frames
<1>2. /\ inbox' \in Seq(Frames) /\ Len(inbox') = Len(inbox) - 1 /\ Head(inbox) = inbox[1]
      /\ \A i \in 1..Len(inbox') : inbox'[i] = inbox[i + 1]
  BY <1>1, HeadTailProperties
<1>3. DOMAIN inbox = 1..(Len(inbox') + 1) /\ DOMAIN inbox' = 1..Len(inbox') /\ Len(inbox') \in Nat
  BY <1>1, <1>2
<1> QED BY <1>2, <1>3

(* A frame is read: the reply to s takes effect, the others leave s alone. *)
LEMMA SettledReceive ==
    ASSUME Base, NEW s \in Subs, Settled(s), inbox # <<>>, inbox' = Tail(inbox),
           Reply(1, s) => (active'[s] <=> inbox[1].kind = "ok"),
           ~Reply(1, s) => active'[s] = active[s], UNCHANGED <<registered, toSend>>
    PROVE  Settled(s)'
<1>1. PICK n \in Nat : /\ DOMAIN inbox = 1..(n + 1) /\ DOMAIN inbox' = 1..n
                       /\ inbox[1] = Head(inbox) /\ \A i \in 1..n : inbox'[i] = inbox[i + 1]
  BY InboxTail
<1>2. \A i \in DOMAIN inbox' : /\ i + 1 \in DOMAIN inbox /\ inbox'[i] = inbox[i + 1] /\ i + 1 # 1
                               /\ Reply(i, s)' <=> Reply(i + 1, s)
  BY <1>1 DEF Reply
<1>3. \A i \in DOMAIN inbox : i # 1 => i - 1 \in DOMAIN inbox' /\ (i - 1) + 1 = i
  BY <1>1
<1>4. 1 \in DOMAIN inbox
  BY <1>1
<1>5. CASE Reply(1, s)
  <2>1. \A i \in DOMAIN inbox' : ~Reply(i, s)'
    BY <1>2, <1>4, <1>5 DEF Settled
  <2>2. active'[s] <=> s \in registered'
    BY <1>4, <1>5 DEF Settled
  <2>3. \A j \in DOMAIN inbox' : inbox'[j].id = s /\ inbox'[j].kind = "event" => s \in registered
    BY <1>2 DEF Settled
  <2>4. s \notin ToSet(toSend')
    BY <1>4, <1>5 DEF Settled
  <2> QED BY <2>1, <2>2, <2>3, <2>4 DEF Settled
<1>6. CASE ~Reply(1, s)
  <2>1. active'[s] = active[s]
    BY <1>6
  <2>2. \A i, j \in DOMAIN inbox' : Reply(i, s)' /\ Reply(j, s)' => i = j
    <3> SUFFICES ASSUME NEW i \in DOMAIN inbox', NEW j \in DOMAIN inbox', Reply(i, s)', Reply(j, s)'
                 PROVE  i = j
      OBVIOUS
    <3>1. i + 1 = j + 1
      BY <1>2 DEF Settled
    <3> QED BY <3>1, <1>1
  <2>3. \A i \in DOMAIN inbox' : Reply(i, s)' =>
            ~active'[s] /\ (inbox'[i].kind = "ok" <=> s \in registered')
    BY <1>2, <2>1 DEF Settled
  <2>4. (\A i \in DOMAIN inbox' : ~Reply(i, s)') => (active'[s] <=> s \in registered')
    <3>1. (\A i \in DOMAIN inbox' : ~Reply(i, s)') => \A i \in DOMAIN inbox : ~Reply(i, s)
      BY <1>2, <1>3, <1>6
    <3> QED BY <2>1, <3>1 DEF Settled
  <2>5. ASSUME NEW j \in DOMAIN inbox', inbox'[j].id = s, inbox'[j].kind = "event"
        PROVE  /\ s \in registered'
               /\ active'[s] \/ \E i \in DOMAIN inbox' : i < j /\ Reply(i, s)'
    <3>1. j + 1 \in DOMAIN inbox /\ inbox[j + 1].id = s /\ inbox[j + 1].kind = "event"
      BY <1>2, <2>5
    <3>2. s \in registered /\ (active[s] \/ \E i \in DOMAIN inbox : i < j + 1 /\ Reply(i, s))
      BY <3>1 DEF Settled
    <3>3. ASSUME NEW i \in DOMAIN inbox, i < j + 1, Reply(i, s)
          PROVE  \E h \in DOMAIN inbox' : h < j /\ Reply(h, s)'
      <4>1. i # 1 /\ i - 1 \in DOMAIN inbox' /\ (i - 1) + 1 = i
        BY <1>3, <1>6, <3>3
      <4>2. i - 1 < j /\ Reply(i - 1, s)'
        BY <1>1, <1>2, <3>3, <4>1
      <4> QED BY <4>1, <4>2
    <3> QED BY <2>1, <3>2, <3>3
  <2>6. s \in ToSet(toSend') => /\ ~active'[s] /\ s \notin registered'
                                /\ \A i \in DOMAIN inbox' : ~Reply(i, s)'
    BY <1>2, <2>1 DEF Settled
  <2> QED BY <2>2, <2>3, <2>4, <2>5, <2>6 DEF Settled
<1> QED BY <1>5, <1>6

(* A subscription of which no frame is on its way asks for its events.     *)
LEMMA SettledRequest ==
    ASSUME Base, Distinct, NEW s \in Subs, Request(s), s \notin registered,
           \A i \in DOMAIN inbox : inbox[i].id # s,
           ~active'[s], s \notin ToSet(toSend')
    PROVE  Settled(s)'
<1>1. SameQuery(s) = {}
  BY QueryAlone
<1>2. PICK k \in {"ok", "error"} : /\ inbox' = Append(inbox, Frame(k, s))
                                   /\ k = "ok" <=> s \in registered'
  BY <1>1 DEF Request
<1> QED BY <1>2, SettledAnswer

(* Another one does.                                                       *)
LEMMA SettledOtherRequest ==
    ASSUME Base, Distinct, NEW s \in Subs, NEW t \in Subs, t # s, Settled(s),
           Request(t) \/ Revoke(t), active'[s] = active[s],
           s \in ToSet(toSend') => s \in ToSet(toSend)
    PROVE  Settled(s)'
<1>1. SameQuery(t) = {t} \cap registered
  BY QueryAlone
<1>2. s \in registered' <=> s \in registered
  BY <1>1 DEF Request, Revoke
<1>3. PICK k \in {"ok", "error"} : inbox' = Append(inbox, Frame(k, t))
  BY DEF Request, Revoke
<1>4. Frame(k, t) \in Frames /\ Frame(k, t).id # s
  BY DEF Frame, Frames, Kinds
<1> QED BY <1>2, <1>3, <1>4, SettledOther

(* Every step keeps the subscriptions settled.                             *)
LEMMA SettledStep ==
    ASSUME Base, Distinct, AllSettled, Next, socket' = "open", ~stopping',
           NEW s \in Subs, s \in Held', s \notin leaving'
    PROVE  Settled(s)'
<1> USE DEF subVars, stopVars, server, bounds, history
<1>1. CASE Connect
  <2>1. /\ s \in Held /\ Deactivate(Held) /\ inbox' = <<>>
        /\ registered' = IF Heartbeat THEN {HeartbeatId} ELSE {}
    BY <1>1 DEF Connect, Held
  <2>2. ~active'[s]
    BY <2>1, DeactivateType DEF Base
  <2>3. s \notin registered' /\ DOMAIN inbox' = {}
    BY <2>1, SubscriberAssumption
  <2> QED BY <2>2, <2>3 DEF Settled
<1>2. CASE Connected \/ CallbacksReturn \/ ConnectFails \/ GoDeaf
  <2>1. UNCHANGED <<subs, leaving, active, toSend, socket, stopping, inbox, registered>>
    BY <1>2 DEF Connected, CallbacksReturn, ConnectFails, GoDeaf
  <2>2. Settled(s)
    BY <2>1 DEF AllSettled, Held
  <2> QED BY <2>1, <2>2, SettledKept
<1>3. CASE SendNext
  <2> DEFINE t == Head(toSend)
  <2>1. /\ UNCHANGED <<subs, leaving, active, socket, stopping>>
        /\ toSend # <<>> /\ toSend' = Tail(toSend) /\ Request(t)
    BY <1>3 DEF SendNext
  <2>2. Settled(s)
    BY <2>1 DEF AllSettled, Held
  <2>3. /\ t \in ToSet(toSend) /\ ToSet(toSend') \subseteq ToSet(toSend) /\ t \notin ToSet(toSend')
        /\ t \in Subs
    <3>1. toSend \in Seq(Ids) /\ IsInjective(toSend) /\ ToSet(toSend) \subseteq Subs
      BY DEF Base, TypeOK, Known
    <3> QED BY <2>1, <3>1, TailSet
  <2> HIDE DEF t
  <2>4. CASE t = s
    <3>1. ~active[s] /\ s \notin registered /\ \A i \in DOMAIN inbox : ~Reply(i, s)
      BY <2>2, <2>3, <2>4 DEF Settled
    <3>2. \A i \in DOMAIN inbox : inbox[i].id # s
      BY <2>2, <3>1 DEF Settled, Reply
    <3> QED BY <2>1, <2>3, <2>4, <3>1, <3>2, SettledRequest
  <2>5. CASE t # s
    BY <2>1, <2>2, <2>3, <2>5, SettledOtherRequest
  <2> QED BY <2>4, <2>5
<1>4. CASE Receive
  <2> DEFINE f == Head(inbox)
  <2>1. /\ UNCHANGED <<subs, leaving, toSend, socket, stopping, registered>>
        /\ inbox # <<>> /\ inbox' = Tail(inbox)
        /\ Confirmation(f) \/ Dispatch(f)
    BY <1>4 DEF Receive
  <2>2. Settled(s) /\ s \in Held
    BY <2>1 DEF AllSettled, Held
  <2>3. inbox[1] = f
    BY <2>1, InboxTail
  <2> HIDE DEF f
  <2>4. active \in [Subs -> BOOLEAN]
    BY DEF Base, TypeOK
  <2>5. Reply(1, s) => (active'[s] <=> inbox[1].kind = "ok")
    <3> SUFFICES ASSUME Reply(1, s) PROVE active'[s] <=> f.kind = "ok"
      BY <2>3
    <3>1. f.id = s /\ f.kind # "event"
      BY <2>3 DEF Reply
    <3>2. active' = [active EXCEPT ![s] = (f.kind = "ok")]
      BY <2>1, <2>2, <3>1 DEF Confirmation, Dispatch
    <3> QED BY <2>4, <3>2, Zenon
  <2>6. ~Reply(1, s) => active'[s] = active[s]
    <3> SUFFICES ASSUME ~Reply(1, s) PROVE active'[s] = active[s]
      OBVIOUS
    <3>1. f.id # s \/ f.kind = "event"
      BY <2>3 DEF Reply
    <3>2. active' = active \/ (f.id # s /\ active' = [active EXCEPT ![f.id] = (f.kind = "ok")])
      BY <2>1, <3>1 DEF Confirmation, Dispatch
    <3> QED BY <2>4, <3>2, Zenon
  <2> QED BY <2>1, <2>2, <2>5, <2>6, SettledReceive
<1>5. CASE \E t \in Subs : Publish(t)
  <2>1. PICK t \in Subs : /\ t \in registered /\ inbox' = Append(inbox, Frame("event", t))
                          /\ UNCHANGED <<subs, leaving, active, toSend, socket, stopping, registered>>
    BY <1>5 DEF Publish
  <2>2. Settled(s)
    BY <2>1 DEF AllSettled, Held
  <2>3. CASE t = s
    BY <2>1, <2>2, <2>3, SettledEvent
  <2>4. CASE t # s
    <3>1. Frame("event", t) \in Frames /\ Frame("event", t).id # s
      BY <2>4 DEF Frame, Frames, Kinds
    <3> QED BY <2>1, <2>2, <3>1, SettledOther
  <2> QED BY <2>3, <2>4
<1>6. CASE \E t \in Subs : SubscribeBlockEvents(t) \/ Subscribe(t)
  <2>1. PICK t \in Subs : SubscribeBlockEvents(t) \/ Subscribe(t)
    BY <1>6
  <2>2. UNCHANGED <<active, leaving, toSend, socket, stopping>> /\ t \notin issued
    BY <2>1 DEF SubscribeBlockEvents, Subscribe, NewSubscription
  <2>3. Request(t) \/ UNCHANGED <<inbox, registered>>
    BY <2>1 DEF SubscribeBlockEvents, Subscribe
  <2>4. Held' = Held \cup {t}
    BY <2>1, SubscribeBase
  <2>5. CASE t = s
    <3>1. /\ ~active[s] /\ s \notin registered /\ s \notin ToSet(toSend)
          /\ \A i \in DOMAIN inbox : inbox[i].id # s
      BY <2>2, <2>5, SubscriberAssumption DEF Base, TypeOK, Known
    <3>2. CASE Request(t)
      BY <2>2, <2>5, <3>1, <3>2, SettledRequest
    <3>3. CASE UNCHANGED <<inbox, registered>>
      BY <2>2, <3>1, <3>3 DEF Settled, Reply
    <3> QED BY <2>3, <3>2, <3>3
  <2>6. CASE t # s
    <3>1. Settled(s)
      BY <2>2, <2>4, <2>6 DEF AllSettled
    <3>2. CASE Request(t)
      BY <2>2, <2>6, <3>1, <3>2, SettledOtherRequest
    <3>3. CASE UNCHANGED <<inbox, registered>>
      BY <2>2, <3>1, <3>3, SettledKept
    <3> QED BY <2>3, <3>2, <3>3
  <2> QED BY <2>5, <2>6
<1>7. CASE \E t \in Subs : Unsubscribe(t)
  <2>1. PICK t \in Subs : Unsubscribe(t)
    BY <1>7
  <2>2. /\ Revoke(t) /\ leaving' = leaving \cup {t}
        /\ UNCHANGED <<subs, active, toSend, socket, stopping>>
    BY <2>1 DEF Unsubscribe
  <2>3. Settled(s) /\ t # s
    BY <2>2 DEF AllSettled, Held
  <2> QED BY <2>2, <2>3, SettledOtherRequest
<1>8. CASE \E t \in Subs : Unsubscribed(t)
  <2>1. PICK t \in Subs : Unsubscribed(t)
    BY <1>8
  <2>2. /\ leaving' = leaving \ {t} /\ Forget(t) /\ Deactivate({t})
        /\ UNCHANGED <<toSend, socket, stopping, inbox, registered>>
    BY <2>1 DEF Unsubscribed
  <2>3. Held' = Held \ {t}
    BY <2>2, ForgetBase DEF Base
  <2>4. Settled(s) /\ s # t
    BY <2>2, <2>3 DEF AllSettled
  <2>5. active'[s] <=> active[s]
    BY <2>2, <2>4, DeactivateType DEF Base
  <2>6. active'[s] \in BOOLEAN /\ active[s] \in BOOLEAN
    BY <2>2, DeactivateType DEF Base, TypeOK
  <2>7. active'[s] = active[s]
    BY <2>5, <2>6
  <2> QED BY <2>2, <2>4, <2>7, SettledKept
<1>9. ~Reconnect /\ ~Watchdog /\ ~Stop /\ ~StopProceeds /\ ~Disconnect
  BY DEF Reconnect, Watchdog, Stop, StopProceeds, StopUnsubscribes, StopCloses, Disconnect
<1> QED
  BY <1>1, <1>2, <1>3, <1>4, <1>5, <1>6, <1>7, <1>8, <1>9 DEF Next, EventLoop, Caller

(* An event of a settled subscription is dispatched.                       *)
LEMMA DroppedStep ==
    ASSUME Base, AllSettled, ~dropped, Next
    PROVE  ~dropped'
<1> USE DEF subVars, stopVars, server, bounds, history
<1>1. CASE Receive
  <2> DEFINE f == Head(inbox)
  <2>1. socket = "open" /\ inbox # <<>> /\ inbox' = Tail(inbox) /\ (Confirmation(f) \/ Dispatch(f))
    BY <1>1 DEF Receive
  <2>2. PICK n \in Nat : DOMAIN inbox = 1..(n + 1) /\ inbox[1] = f
    BY <2>1, InboxTail
  <2> HIDE DEF f
  <2>3. CASE Confirmation(f)
    BY <2>3 DEF Confirmation
  <2>4. CASE Dispatch(f)
    <3>1. \/ dropped' = dropped
          \/ /\ f.kind = "event" /\ ~(f.id \in Held /\ active[f.id])
             /\ dropped' = (dropped \/ (f.id \in Held \ leaving /\ ~stopping))
      BY <2>4 DEF Dispatch
    <3>2. CASE f.kind = "event" /\ f.id \in Held \ leaving /\ ~stopping
      <4>1. Settled(f.id)
        BY <2>1, <3>2 DEF AllSettled
      <4>2. 1 \in DOMAIN inbox /\ \A i \in DOMAIN inbox : ~(i < 1)
        BY <2>2
      <4>3. active[f.id]
        BY <2>2, <3>2, <4>1, <4>2 DEF Settled
      <4> QED BY <3>1, <3>2, <4>3
    <3> QED BY <3>1, <3>2, Zenon
  <2> QED BY <2>1, <2>3, <2>4
<1>2. CASE EventLoop /\ ~Receive
  BY <1>2 DEF EventLoop, Reconnect, Connect, SendNext, Connected, CallbacksReturn, Watchdog
<1>3. CASE ConnectFails \/ Stop \/ StopProceeds \/ Disconnect \/ GoDeaf
  BY <1>3 DEF ConnectFails, Stop, StopProceeds, StopUnsubscribes, StopCloses, Disconnect, GoDeaf
<1>4. CASE \E s \in Subs : Caller(s) \/ Unsubscribed(s) \/ Publish(s)
  BY <1>4 DEF Caller, SubscribeBlockEvents, Subscribe, NewSubscription, Unsubscribe, Unsubscribed, Publish
<1> QED BY <1>1, <1>2, <1>3, <1>4 DEF Next

(* The invariant is inductive.                                             *)
LEMMA SettledInductive == Distinct => (Spec => [](AllSettled /\ ~dropped))
<1> SUFFICES ASSUME Distinct PROVE Spec => [](AllSettled /\ ~dropped)
  OBVIOUS
<1>1. Init => AllSettled /\ ~dropped
  BY DEF Init, AllSettled
<1>2. Base /\ Base' /\ AllSettled /\ ~dropped /\ [Next]_vars => (AllSettled /\ ~dropped)'
  <2> SUFFICES ASSUME Base, Base', AllSettled, ~dropped, [Next]_vars PROVE (AllSettled /\ ~dropped)'
    OBVIOUS
  <2>1. CASE Next
    <3>1. ~dropped'
      BY <2>1, DroppedStep
    <3>2. Held' \subseteq Subs
      BY DEF Base, TypeOK
    <3>3. AllSettled'
      BY <2>1, <3>2, SettledStep DEF AllSettled
    <3> QED BY <3>1, <3>3
  <2>2. CASE UNCHANGED vars
    <3>1. UNCHANGED <<subs, leaving, active, toSend, socket, stopping, inbox, registered, dropped>>
      BY <2>2 DEF vars, subVars, stopVars, server, history
    <3>2. \A s : Settled(s) => Settled(s)'
      BY <3>1, SettledKept
    <3> QED BY <3>1, <3>2 DEF AllSettled, Held
  <2> QED BY <2>1, <2>2
<1> QED BY <1>1, <1>2, BaseInductive, PTL DEF Spec

(* Once the loop has read what the server sent, a subscription's flag says *)
(* whether the server pushes for it.                                       *)
THEOREM FlagsAgree == Distinct => (Spec => []AgreementAtRest)
<1> SUFFICES ASSUME Distinct PROVE Spec => []AgreementAtRest
  OBVIOUS
<1>1. AllSettled => AgreementAtRest
  BY DEF AllSettled, Settled, AgreementAtRest
<1> QED BY <1>1, SettledInductive, PTL

(* No event of a subscription that the caller holds is lost on a           *)
(* connection that survives.                                               *)
THEOREM EventsDelivered == Distinct => (Spec => []NoEventDropped)
<1> SUFFICES ASSUME Distinct PROVE Spec => []NoEventDropped
  OBVIOUS
<1>1. ~dropped => NoEventDropped
  BY DEF NoEventDropped
<1> QED BY <1>1, SettledInductive, PTL

=============================================================================
