------------------------------ MODULE Listeners ------------------------------
(***************************************************************************)
(* The listeners of the API (nabto_device_event_handler) and the two that  *)
(* follow the core: connection events and device events. A listener has a  *)
(* queue of events and at most one future that waits for the next one; the *)
(* core notifies, the application listens and stops, all under eventMutex. *)
(***************************************************************************)
EXTENDS Naturals, Sequences, Functions

CONSTANTS
    MaxNotified     \* bound of this model: notifications of the core

ASSUME NotifiedAssumption == MaxNotified \in Nat

VARIABLE lis

Kinds == {"connection", "device"}

\* nc_connection_event, nc_device_event.
CoreEvents == [k \in Kinds |-> IF k = "connection" THEN {"OPENED", "CLOSED", "CHANNEL_CHANGED"}
                               ELSE {"ATTACHED", "DETACHED", "CLOSED"}]

(***************************************************************************)
(* struct nabto_device_listener and the context of its callback.              *)
(*   kind      what it listens to                                          *)
(*   ec        NONE until the listener is initialized                        *)
(*   fut       a future is waiting                                          *)
(*   where     the application gave a place for the event (userEvent)        *)
(*   context   the context is allocated                                     *)
(*   inCore    the core's list of listeners holds a pointer to the context   *)
(* notified and delivered are history: what the core said since the listener *)
(* was added, and what the application has been given; crashed, the core     *)
(* called a context that was freed.                                         *)
(***************************************************************************)
ListenersTypeOK ==
    /\ lis.kind \in Kinds /\ lis.ec \in {"NONE", "OK", "STOPPED", "OUT_OF_MEMORY"}
    /\ \A f \in {"fut", "where", "context", "inCore", "crashed"} : lis[f] \in BOOLEAN
    /\ \A f \in {"queue", "notified", "delivered"} :
         Len(lis[f]) <= MaxNotified /\ Range(lis[f]) \subseteq CoreEvents[lis.kind]

\* nabto_device_listener_new.
ListenersInit ==
    \E k \in Kinds :
        lis = [kind |-> k, ec |-> "NONE", queue |-> << >>, fut |-> FALSE, where |-> FALSE,
               context |-> FALSE, inCore |-> FALSE, notified |-> << >>, delivered |-> << >>,
               crashed |-> FALSE]

\* nabto_device_connection_events_listener_cb: an event, for which the application
\* gave a place, or NABTO_EC_ABORTED, after which the context is gone.
ConnectionEventsListenerCb(l, ec, event) ==
    CASE ec = "OK" /\ l.where -> [l EXCEPT !.where = FALSE, !.delivered = Append(@, event)]
      [] ec = "ABORTED" -> [l EXCEPT !.inCore = FALSE, !.context = FALSE]
      [] OTHER -> l

\* nabto_device_events_listener_cb.
DeviceEventsListenerCb(l, ec, event) ==
    CASE ec = "OK" /\ l.where -> [l EXCEPT !.where = FALSE, !.delivered = Append(@, event)]
      [] ec = "ABORTED" -> [l EXCEPT !.inCore = FALSE, !.context = FALSE]
      [] OTHER -> l

\* listener->cb.
Cb(l, ec, event) ==
    IF l.kind = "connection" THEN ConnectionEventsListenerCb(l, ec, event)
    ELSE DeviceEventsListenerCb(l, ec, event)

\* Mutant of ListenerTryResolve: the newest event is taken.
ListenerTryResolveLast(l) ==
    IF ~l.fut \/ l.queue = << >> THEN l
    ELSE [Cb([l EXCEPT !.queue = SubSeq(@, 1, Len(@) - 1)], "OK", l.queue[Len(l.queue)]) EXCEPT !.fut = FALSE]

\* nabto_device_listener_try_resolve.
ListenerTryResolve(l) ==
    IF ~l.fut \/ l.queue = << >> THEN l
    ELSE [Cb([l EXCEPT !.queue = Tail(@)], "OK", Head(l.queue)) EXCEPT !.fut = FALSE]

\* nabto_device_listener_add_event.
ListenerAddEvent(l, event) ==
    IF l.ec # "OK" THEN l ELSE ListenerTryResolve([l EXCEPT !.queue = Append(@, event)])

\* nabto_device_listener_resolve_error_state: the events are freed, the future is
\* resolved, and the callback is told to clean up.
ResolveErrorState(l) ==
    Cb([l EXCEPT !.queue = << >>, !.fut = FALSE, !.where = FALSE], "ABORTED", "none")

\* nabto_device_listener_set_error_code.
SetErrorCode(l, ec) == ResolveErrorState([l EXCEPT !.ec = ec])

\* nabto_device_listener_init.
ListenerInit(l) == [l EXCEPT !.ec = "OK"]

\* nabto_device_listener_init_future.
ListenerInitFuture(l) == [l EXCEPT !.fut = TRUE]

\* nabto_device_connection_events_init_listener.
ConnectionEventsInitListener ==
    /\ lis.kind = "connection" /\ lis.ec = "NONE"
    /\ lis' = [ListenerInit(lis) EXCEPT !.context = TRUE, !.inCore = TRUE]

\* nabto_device_device_events_init_listener.
DeviceEventsInitListener ==
    /\ lis.kind = "device" /\ lis.ec = "NONE"
    /\ lis' = [ListenerInit(lis) EXCEPT !.context = TRUE, !.inCore = TRUE]

\* nabto_device_connection_events_core_cb: there may be no memory for the event.
ConnectionEventsCoreCb(l, event, memory) ==
    IF ~l.context THEN [l EXCEPT !.crashed = TRUE]
    ELSE IF memory THEN ListenerAddEvent(l, event) ELSE SetErrorCode(l, "OUT_OF_MEMORY")

\* nabto_device_events_core_cb.
DeviceEventsCoreCb(l, event, memory) ==
    IF ~l.context THEN [l EXCEPT !.crashed = TRUE]
    ELSE IF memory THEN ListenerAddEvent(l, event) ELSE SetErrorCode(l, "OUT_OF_MEMORY")

\* nc_device_connection_events_listener_notify.
NotifyConnectionEvent(event, memory) ==
    /\ lis.kind = "connection" /\ lis.inCore /\ Len(lis.notified) < MaxNotified
    /\ lis' = ConnectionEventsCoreCb([lis EXCEPT !.notified = Append(@, event)], event, memory)

\* nc_device_events_listener_notify.
NotifyDeviceEvent(event, memory) ==
    /\ lis.kind = "device" /\ lis.inCore /\ Len(lis.notified) < MaxNotified
    /\ lis' = DeviceEventsCoreCb([lis EXCEPT !.notified = Append(@, event)], event, memory)

\* nabto_device_listener_connection_event.
ListenConnectionEvent ==
    /\ lis.kind = "connection" /\ lis.ec = "OK" /\ ~lis.fut
    /\ lis' = ListenerTryResolve([ListenerInitFuture(lis) EXCEPT !.where = TRUE])

\* nabto_device_listener_device_event.
ListenDeviceEvent ==
    /\ lis.kind = "device" /\ lis.ec = "OK" /\ ~lis.fut
    /\ lis' = ListenerTryResolve([ListenerInitFuture(lis) EXCEPT !.where = TRUE])

\* nabto_device_listener_stop_internal, for the application's
\* nabto_device_listener_stop and for nabto_device_listener_stop_all.
ListenerStop ==
    /\ lis.ec = "OK"
    /\ lis' = SetErrorCode(lis, "STOPPED")

ListenersNext ==
    \/ ConnectionEventsInitListener \/ DeviceEventsInitListener
    \/ ListenConnectionEvent \/ ListenDeviceEvent \/ ListenerStop
    \/ \E event \in CoreEvents[lis.kind], memory \in BOOLEAN :
         NotifyConnectionEvent(event, memory) \/ NotifyDeviceEvent(event, memory)

\* The application is told everything the core said, once and in that order: what
\* it has been given and what is queued is what was notified; after a stop, what it
\* was given is the beginning of it. No future waits while there is an event for it, none
\* waits on a listener that is stopped, and the core never calls back into a context that
\* is gone.
EventsInOrder ==
    /\ ListenersTypeOK
    /\ lis.ec = "OK" => lis.delivered \o lis.queue = lis.notified
    /\ Len(lis.delivered) <= Len(lis.notified)
    /\ SubSeq(lis.notified, 1, Len(lis.delivered)) = lis.delivered
    /\ lis.fut => lis.queue = << >> /\ lis.ec = "OK"
    /\ ~lis.crashed
=============================================================================
