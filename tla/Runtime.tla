------------------------------ MODULE Runtime -------------------------------
(***************************************************************************)
(* The threads of a device: the event queue, the futures and               *)
(* nabto_device_stop (src/api/nabto_device.c), on a select based platform. *)
(*                                                                         *)
(* An operation posts an event, at once or with a delay, whose callback    *)
(* resolves the future.  A timer of the core is posted and cancelled by    *)
(* other threads meanwhile.  nabto_device_stop ends the thread of the      *)
(* futures first and then waits for the queue thread.                      *)
(***************************************************************************)
EXTENDS EventQueue, Futures

CONSTANTS
    Timer,      \* an event of the core that resolves nothing
    MaxTimer    \* number of times it is posted

VARIABLES
    stop,       \* how far nabto_device_stop is
    timerPosts

vars == <<q, clock, ft, stop, timerPosts>>

ASSUME EventsAssumption == Events = FutureSet \cup {Timer} /\ Timer \notin FutureSet

Init == QueueInit /\ FuturesInit /\ stop = "running" /\ timerPosts = 0

\* No operation is started once nabto_device_stop is called.
StartOperation(f) ==
    /\ stop = "running" /\ Start(f)
    /\ Post(f) \/ PostTimed(f, 1)
    /\ UNCHANGED <<clock, stop, timerPosts>>

PostTimer ==
    /\ timerPosts < MaxTimer
    /\ Post(Timer) \/ \E ms \in 1 .. MaxDelay : PostTimed(Timer, ms)
    /\ timerPosts' = timerPosts + 1
    /\ UNCHANGED <<clock, ft, stop>>

CancelTimer == (Listed(Timer) \/ q.event = Timer) /\ Cancel(Timer) /\ UNCHANGED <<clock, ft, stop, timerPosts>>

RunResolver(f) == RunEvent(f) /\ Resolve(f) /\ UNCHANGED <<clock, stop, timerPosts>>

RunTimer == RunEvent(Timer) /\ UNCHANGED <<clock, ft, stop, timerPosts>>

User(f) == UserStep(f) /\ UNCHANGED <<q, clock, stop, timerPosts>>

\* nabto_device_do_stop.
StopFutures ==
    /\ stop = "running" /\ StopFutureQueue /\ stop' = "futures"
    /\ UNCHANGED <<q, clock, timerPosts>>

StopPlatform ==
    /\ stop = "futures" /\ StopQueue /\ stop' = "joining"
    /\ UNCHANGED <<clock, ft, timerPosts>>

Joined ==
    /\ stop = "joining" /\ q.pc = "exited" /\ stop' = "stopped"
    /\ UNCHANGED <<q, clock, ft, timerPosts>>

Time == Tick /\ UNCHANGED <<q, ft, stop, timerPosts>>

Thread == QueueStep /\ UNCHANGED <<clock, ft, stop, timerPosts>>

CallbackThread == ExecutionThread /\ UNCHANGED <<q, clock, stop, timerPosts>>

\* Everything is done and nothing can happen any more.
Finished ==
    /\ stop = "stopped" /\ ft.pc = "exited" /\ q.signals = 0 /\ ft.signals = 0
    /\ UNCHANGED vars

Next ==
    \/ \E f \in FutureSet : StartOperation(f) \/ User(f) \/ RunResolver(f)
    \/ PostTimer \/ CancelTimer \/ RunTimer \/ Time \/ Thread \/ CallbackThread
    \/ StopFutures \/ StopPlatform \/ Joined \/ Finished

\* The threads are scheduled, time passes and a user goes on with its future.
Fairness ==
    /\ WF_vars(Thread) /\ WF_vars(CallbackThread) /\ WF_vars(Time) /\ WF_vars(RunTimer)
    /\ WF_vars(StopPlatform) /\ WF_vars(Joined)
    /\ \A f \in FutureSet : WF_vars(User(f)) /\ WF_vars(RunResolver(f))

Spec == Init /\ [][Next]_vars /\ Fairness

-----------------------------------------------------------------------------
(* Properties *)

TypeOK == q \in Queue /\ ft \in FutureState /\ clock \in Nat

\* Every operation is delivered to the user of its future while the device is
\* not stopped: no signal of the two queues or of a future is lost, and a
\* callback that is set after the operation resolved is called as well; and at
\* all times the queues and futures keep their types.
Delivered ==
    /\ []TypeOK
    /\ \A f \in FutureSet :
         ft.user[f] # "idle" ~> ft.user[f] = "idle" \/ stop # "running"

\* nabto_device_stop returns: the queue thread ends after the events and the
\* timed events it still has.
StopReturns == stop = "futures" ~> stop = "stopped"
=============================================================================
