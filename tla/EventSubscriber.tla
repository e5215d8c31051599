--------------------------- MODULE EventSubscriber ---------------------------
(***************************************************************************)
(* AlloraWebsocketSubscriber of rpc_client/client_websocket_events.py and  *)
(* the CometBFT server it talks to: the event loop with its reconnects and *)
(* its silence watchdog, the heartbeat, subscribe, unsubscribe and stop.   *)
(*                                                                         *)
(* An action is the code between two suspensions.  _state_lock is held     *)
(* over no await, so acquiring it never suspends and its critical sections *)
(* belong to the action around them.  The server (external) handles a      *)
(* request when it is sent, and frames arrive in order; it knows a         *)
(* subscription by its connection and its query.                           *)
(***************************************************************************)
EXTENDS Integers, Sequences, FiniteSets, SequencesExt

CONSTANTS
    Subs,          \* the subscription ids the subscriber generates
    Generic,       \* those made by subscribe(), the rest are block events
    QueryOf,       \* the query of each subscription
    Heartbeat,     \* is the heartbeat enabled?
    HeartbeatId,   \* _HEARTBEAT_SUBSCRIPTION_ID
    ServerCap,     \* max_subscriptions_per_client of the server
    MaxFaults,     \* bound: faults of the connection
    MaxEvents      \* bound: events published

ASSUME SubscriberAssumption ==
    /\ Generic \subseteq Subs
    /\ Heartbeat \in BOOLEAN /\ HeartbeatId \notin Subs
    /\ HeartbeatId \in DOMAIN QueryOf /\ Subs \subseteq DOMAIN QueryOf
    /\ \A s \in Subs : QueryOf[s] # QueryOf[HeartbeatId]
    /\ ServerCap \in Nat \ {0} /\ MaxFaults \in Nat /\ MaxEvents \in Nat

Ids == Subs \cup {HeartbeatId}

VARIABLES
    (* the subscriber *)
    subs,       \* self.subscriptions, in the order of the dict
    issued,     \* ids handed out
    active,     \* the "active" flag of each subscription
    loop,       \* where the event loop is
    toSend,     \* _connect's snapshot, as far as it is not sent yet
    socket,     \* self.websocket: None, or by its close_code
    leaving,    \* unsubscribe has sent its request
    stopping,   \* stop is on its way
    stopQueue,  \* what stop has still to unsubscribe
    (* the connection and the server *)
    inbox,      \* frames the loop has not received
    registered, \* the ids whose queries the server matches
    deaf,       \* the server has stopped pushing
    faults, published,
    (* history *)
    refused,    \* subscriptions the server of this connection refused
    dropped     \* an event of a subscription that is held was not dispatched

server     == <<inbox, registered>>
bounds     == <<faults, published>>
history    == <<refused, dropped>>
stopVars   == <<stopping, stopQueue>>
subVars    == <<subs, issued, active, leaving>>
vars == <<subVars, loop, toSend, socket, stopVars, server, deaf, bounds, history>>

Held  == ToSet(subs)
Kinds == {"ok", "error", "event"}
Frame(k, s) == [kind |-> k, id |-> s]

TypeOK ==
    /\ subs \in Seq(Subs) /\ IsInjective(subs)
    /\ issued \subseteq Subs /\ Held \subseteq issued
    /\ active \in [Subs -> BOOLEAN] /\ \A s \in Subs : active[s] => s \in Held
    /\ loop \in {"stopped", "connect", "sending", "recv", "callback"}
    /\ toSend \in Seq(Ids) /\ stopQueue \in Seq(Subs)
    /\ socket \in {"none", "open", "closed"}
    /\ leaving \subseteq Held
    /\ stopping \in BOOLEAN
    /\ inbox \in Seq([kind : Kinds, id : Subs])
    /\ registered \subseteq Ids /\ Cardinality(registered) <= ServerCap
    /\ deaf \in BOOLEAN
    /\ faults \in 0..MaxFaults /\ published \in 0..MaxEvents
    /\ refused \subseteq Subs
    /\ dropped \in BOOLEAN

-----------------------------------------------------------------------------
(* The server.                                                             *)

SameQuery(s) == {t \in registered : QueryOf[t] = QueryOf[s]}

(* A subscribe request: a duplicate query, or one too many, is answered by *)
(* an error frame.                                                         *)
Request(s) ==
    IF SameQuery(s) = {} /\ Cardinality(registered) < ServerCap
    THEN /\ registered' = registered \cup {s}
         /\ inbox' = Append(inbox, Frame("ok", s))
    ELSE /\ inbox' = Append(inbox, Frame("error", s))
         /\ UNCHANGED registered

(* An unsubscribe request.                                                 *)
Revoke(s) ==
    /\ registered' = registered \ SameQuery(s)
    /\ inbox' = Append(inbox, Frame(IF SameQuery(s) = {} THEN "error" ELSE "ok", s))

Publish(s) ==
    /\ s \in registered \cap Subs /\ ~deaf /\ published < MaxEvents
    /\ published' = published + 1
    /\ inbox' = Append(inbox, Frame("event", s))
    /\ UNCHANGED <<subVars, loop, toSend, socket, stopVars, registered, deaf,
                   faults, history>>

(* The connection breaks: what was buffered is lost with it.               *)
Disconnect ==
    /\ socket = "open" /\ faults < MaxFaults
    /\ socket' = "closed" /\ inbox' = <<>> /\ registered' = {} /\ deaf' = FALSE
    /\ faults' = faults + 1
    /\ UNCHANGED <<subVars, loop, toSend, stopVars, published, history>>

(* The server stops pushing, heartbeats included, but answers pings.       *)
GoDeaf ==
    /\ socket = "open" /\ ~deaf /\ faults < MaxFaults
    /\ deaf' = TRUE
    /\ faults' = faults + 1
    /\ UNCHANGED <<subVars, loop, toSend, socket, stopVars, server, published,
                   history>>

-----------------------------------------------------------------------------
(* The event loop.                                                         *)

(* The top of the loop, or ConnectionClosed: nothing usable is connected.  *)
Reconnect ==
    /\ loop = "recv" /\ socket # "open"
    /\ loop' = "connect"
    /\ UNCHANGED <<subVars, toSend, socket, stopVars, server, deaf, bounds, history>>

Deactivate(S) == active' = [s \in Subs |-> s \notin S /\ active[s]]

(* Mutant of Connect: the heartbeat is sent after the snapshot.            *)
Connect_HeartbeatLast ==
    /\ loop = "connect"
    /\ socket' = "open" /\ deaf' = FALSE
    /\ toSend' = subs \o (IF Heartbeat THEN <<HeartbeatId>> ELSE <<>>)
    /\ Deactivate(Held)
    /\ inbox' = <<>>
    /\ registered' = {}
    /\ loop' = "sending" /\ refused' = {}
    /\ UNCHANGED <<subs, issued, leaving, stopVars, bounds, dropped>>

(* connect_fn returns: the snapshot is taken, every flag is reset and the  *)
(* heartbeat is sent before another task can run.                          *)
Connect ==
    /\ loop = "connect"
    /\ socket' = "open" /\ deaf' = FALSE
    /\ toSend' = subs /\ Deactivate(Held)
    /\ inbox' = <<>>
    /\ registered' = IF Heartbeat THEN {HeartbeatId} ELSE {}
    /\ loop' = "sending" /\ refused' = {}
    /\ UNCHANGED <<subs, issued, leaving, stopVars, bounds, dropped>>

(* connect_fn raises; after reconnect_delay it is tried again.             *)
ConnectFails ==
    /\ loop = "connect" /\ faults < MaxFaults
    /\ faults' = faults + 1
    /\ UNCHANGED <<subVars, loop, toSend, socket, stopVars, server, deaf,
                   published, history>>

(* The next subscription of the snapshot; on a closed socket nothing is    *)
(* sent and nothing is raised.                                             *)
SendNext ==
    /\ loop = "sending" /\ toSend # <<>>
    /\ toSend' = Tail(toSend)
    /\ IF socket = "open" THEN Request(Head(toSend)) ELSE UNCHANGED server
    /\ UNCHANGED <<subVars, loop, socket, stopVars, deaf, bounds, history>>

Connected ==
    /\ loop = "sending" /\ toSend = <<>>
    /\ loop' = "recv"
    /\ UNCHANGED <<subVars, toSend, socket, stopVars, server, deaf, bounds, history>>

(* Mutants of Confirmation: an error frame is taken for a confirmation;    *)
(* only the first subscription is confirmed; the reply of a subscription   *)
(* that is gone is not ignored.                                            *)
Confirmation_ErrorsConfirm(f) ==
    /\ f.kind \in {"ok", "error"}
    /\ refused' = IF f.kind = "error" THEN refused \cup {f.id} ELSE refused
    /\ active' = IF f.id \in Held THEN [active EXCEPT ![f.id] = TRUE] ELSE active
    /\ UNCHANGED <<loop, dropped>>

Confirmation_OnlyFirst(f) ==
    /\ f.kind \in {"ok", "error"}
    /\ refused' = IF f.kind = "error" THEN refused \cup {f.id} ELSE refused
    /\ active' = IF f.id \in Held /\ f.id = subs[1]
                 THEN [active EXCEPT ![f.id] = (f.kind = "ok")] ELSE active
    /\ UNCHANGED <<loop, dropped>>

Confirmation_UnknownToo(f) ==
    /\ f.kind \in {"ok", "error"}
    /\ refused' = IF f.kind = "error" THEN refused \cup {f.id} ELSE refused
    /\ active' = [s \in Subs |-> IF s = f.id THEN f.kind = "ok" ELSE active[s]]
    /\ UNCHANGED <<loop, dropped>>

(* A reply sets or clears the flag of the subscription, if it is held.     *)
Confirmation(f) ==
    /\ f.kind \in {"ok", "error"}
    /\ refused' = IF f.kind = "error" THEN refused \cup {f.id} ELSE refused
    /\ active' = IF f.id \in Held THEN [active EXCEPT ![f.id] = (f.kind = "ok")]
                 ELSE active
    /\ UNCHANGED <<loop, dropped>>

(* Events of an inactive or unknown subscription are dropped, the others   *)
(* go to its callbacks, for which the loop waits.                          *)
Dispatch(f) ==
    /\ f.kind = "event"
    /\ IF f.id \in Held /\ active[f.id]
       THEN loop' = "callback" /\ UNCHANGED dropped
       ELSE /\ dropped' = (dropped \/ (f.id \in Held \ leaving /\ ~stopping))
            /\ UNCHANGED loop
    /\ UNCHANGED <<active, refused>>

Receive ==
    /\ loop = "recv" /\ socket = "open" /\ inbox # <<>>
    /\ inbox' = Tail(inbox)
    /\ Confirmation(Head(inbox)) \/ Dispatch(Head(inbox))
    /\ UNCHANGED <<subs, issued, leaving, toSend, socket, stopVars, registered,
                   deaf, bounds>>

CallbacksReturn ==
    /\ loop = "callback"
    /\ loop' = "recv"
    /\ UNCHANGED <<subVars, toSend, socket, stopVars, server, deaf, bounds, history>>

(* Nothing comes for max_event_silence_secs, which spans many blocks.      *)
Silent == inbox = <<>> /\ (deaf \/ HeartbeatId \notin registered)

(* The watchdog closes the connection.                                     *)
Watchdog ==
    /\ loop = "recv" /\ socket = "open" /\ Silent
    /\ socket' = "none" /\ inbox' = <<>> /\ registered' = {} /\ deaf' = FALSE
    /\ UNCHANGED <<subVars, loop, toSend, stopVars, bounds, history>>

-----------------------------------------------------------------------------
(* The callers.                                                            *)

Started == loop' = IF loop = "stopped" THEN "recv" ELSE loop

NewSubscription(s) ==
    /\ s \in Subs \ issued
    /\ issued' = issued \cup {s}
    /\ subs' = Append(subs, s)
    /\ Started
    /\ UNCHANGED <<active, leaving, toSend, socket, stopVars, deaf, bounds, history>>

(* Mutant of SubscribeBlockEvents: nothing is sent on a live connection.   *)
SubscribeBlockEvents_NotSent(s) ==
    /\ s \notin Generic
    /\ NewSubscription(s)
    /\ UNCHANGED server

(* subscribe_new_block_events and its typed variant.                       *)
SubscribeBlockEvents(s) ==
    /\ s \notin Generic
    /\ NewSubscription(s)
    /\ IF socket = "open" THEN Request(s) ELSE UNCHANGED server

(* subscribe                                                               *)
Subscribe(s) ==
    /\ s \in Generic
    /\ NewSubscription(s)
    /\ UNCHANGED server

Forget(s) == \E i \in DOMAIN subs : subs[i] = s /\ subs' = RemoveAt(subs, i)

(* unsubscribe up to the send of its request; with no connection it goes   *)
(* on without suspending.                                                  *)
Unsubscribe(s) ==
    /\ s \in Held \ leaving
    /\ IF socket = "open"
       THEN Revoke(s) /\ leaving' = leaving \cup {s} /\ UNCHANGED <<subs, active>>
       ELSE Forget(s) /\ Deactivate({s}) /\ UNCHANGED <<leaving, server>>
    /\ UNCHANGED <<issued, loop, toSend, socket, stopVars, deaf, bounds, history>>

Unsubscribed(s) ==
    /\ s \in leaving
    /\ leaving' = leaving \ {s}
    /\ Forget(s) /\ Deactivate({s})
    /\ UNCHANGED <<issued, loop, toSend, socket, stopVars, server, deaf, bounds,
                   history>>

(* stop cancels the loop; the subscriptions stay in the dict.              *)
Stop ==
    /\ loop # "stopped" /\ ~stopping
    /\ loop' = "stopped" /\ toSend' = <<>>
    /\ stopping' = TRUE /\ stopQueue' = subs
    /\ UNCHANGED <<subVars, socket, server, deaf, bounds, history>>

StopUnsubscribes ==
    /\ stopping /\ stopQueue # <<>>
    /\ stopQueue' = Tail(stopQueue)
    /\ IF socket = "open" /\ Head(stopQueue) \in Held
       THEN Revoke(Head(stopQueue)) /\ Deactivate({Head(stopQueue)})
       ELSE UNCHANGED <<active, server>>
    /\ UNCHANGED <<subs, issued, leaving, loop, toSend, socket, stopping, deaf,
                   bounds, history>>

StopCloses ==
    /\ stopping /\ stopQueue = <<>>
    /\ stopping' = FALSE
    /\ socket' = "none" /\ inbox' = <<>> /\ registered' = {} /\ deaf' = FALSE
    /\ UNCHANGED <<subVars, loop, toSend, stopQueue, bounds, history>>

-----------------------------------------------------------------------------
Init ==
    /\ subs = <<>> /\ issued = {} /\ active = [s \in Subs |-> FALSE]
    /\ loop = "stopped" /\ toSend = <<>> /\ socket = "none"
    /\ leaving = {} /\ stopping = FALSE /\ stopQueue = <<>>
    /\ inbox = <<>> /\ registered = {} /\ deaf = FALSE
    /\ faults = 0 /\ published = 0
    /\ refused = {} /\ dropped = FALSE

EventLoop ==
    \/ Reconnect \/ Connect \/ SendNext \/ Connected \/ Receive
    \/ CallbacksReturn \/ Watchdog

StopProceeds == StopUnsubscribes \/ StopCloses

Caller(s) == SubscribeBlockEvents(s) \/ Subscribe(s) \/ Unsubscribe(s)

Next ==
    \/ EventLoop \/ ConnectFails \/ Stop \/ StopProceeds
    \/ Disconnect \/ GoDeaf
    \/ \E s \in Subs : Caller(s) \/ Unsubscribed(s) \/ Publish(s)

Spec == Init /\ [][Next]_vars

(* The loop never waits without a deadline; callbacks are assumed to       *)
(* return, and a call that has started to finish.                          *)
FairSpec ==
    /\ Spec /\ WF_vars(EventLoop) /\ WF_vars(StopProceeds)
    /\ \A s \in Subs : WF_vars(Unsubscribed(s))

-----------------------------------------------------------------------------
(* Properties.                                                             *)

(* Once the loop has read what the server sent, a subscription's flag says *)
(* whether the server pushes for it, after any sequence of subscribes,     *)
(* unsubscribes, reconnects and rejections.                                *)
AgreementAtRest ==
    loop = "recv" /\ socket = "open" /\ inbox = <<>> /\ ~stopping =>
        \A s \in Held \ leaving : active[s] <=> s \in registered

(* No event of a subscription that the caller holds is lost once the       *)
(* server has pushed it on a connection that survives and is not stopped.  *)
NoEventDropped == ~dropped

(* The watchdog never tears down a connection that still pushes, however   *)
(* many subscriptions compete for the server's cap.                        *)
WatchdogOnlyWhenDeaf == [][Watchdog => deaf]_vars

(* While a subscription stays held, it is active again and again, unless   *)
(* the server of the connection refuses it.                                *)
BecomesActive(s) ==
    <>[](s \in Held /\ loop # "stopped") => []<>(active[s] \/ s \in refused)

(* ... whatever faults, reconnects and rejections come in between.  Not    *)
(* so those of subscribe() and its wrappers: on a live connection nothing  *)
(* is sent for them until it happens to break.                             *)
HeldBecomesActive == \A s \in Subs \ Generic : BecomesActive(s)
=============================================================================
