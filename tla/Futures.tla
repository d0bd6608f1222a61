------------------------------ MODULE Futures -------------------------------
(***************************************************************************)
(* Futures and the thread that runs their callbacks                        *)
(* (src/api/nabto_device_future.c, nabto_device_future_queue.c and the     *)
(* condition variables of src/modules/threads/unix).                       *)
(*                                                                         *)
(* One user thread per future starts an operation and then waits, waits    *)
(* with a timeout, polls or sets a callback, as nabto_device.h describes;  *)
(* the core resolves the operation.  A future is used again only after the *)
(* result was delivered.  The error code of an operation is its number, so *)
(* that the result of an earlier use can be told from the current one.     *)
(***************************************************************************)
EXTENDS Integers, Sequences, Functions

CONSTANTS
    FutureSet,  \* the futures
    MaxUses     \* number of operations started on one future

ASSUME MaxUsesAssumption == MaxUses \in Nat

VARIABLE ft     \* the futures, the queue of resolved futures and its thread

Nobody == "nobody"

\* ready, cb, ec: struct nabto_device_future.  queue, stopped: struct
\* nabto_device_future_queue.  pc, popped, call: its thread.  op: the operation
\* is under way.  user, got: where the user of the future is and what it got.
FutureState ==
    [ready : [FutureSet -> BOOLEAN], cb : [FutureSet -> BOOLEAN],
     ec : [FutureSet -> 0 .. MaxUses], queue : Seq(FutureSet),
     stopped : BOOLEAN, signals : Nat,
     pc : {"loop", "wait", "popped", "calling", "exited"},
     popped : FutureSet \cup {Nobody}, call : BOOLEAN,
     op : [FutureSet -> BOOLEAN], uses : [FutureSet -> 0 .. MaxUses],
     user : [FutureSet -> {"idle", "started", "waiting", "timedWaiting",
                           "woken", "callback"}],
     got : [FutureSet -> 0 .. MaxUses]]

FuturesInit ==
    ft = [ready |-> [f \in FutureSet |-> FALSE], cb |-> [f \in FutureSet |-> FALSE],
          ec |-> [f \in FutureSet |-> 0], queue |-> << >>, stopped |-> FALSE,
          signals |-> 0, pc |-> "loop", popped |-> Nobody, call |-> FALSE,
          op |-> [f \in FutureSet |-> FALSE], uses |-> [f \in FutureSet |-> 0],
          user |-> [f \in FutureSet |-> "idle"], got |-> [f \in FutureSet |-> 0]]

\* nabto_device_future_queue_post; the signal is given after the unlock.
QueuePost(s, f) == [s EXCEPT !.queue = Append(@, f), !.signals = @ + 1]

Deliver(s, f) == [s EXCEPT !.user[f] = "idle", !.got[f] = s.ec[f]]

\* Mutant of Start: the future is not reset before it is used again.
StartNoReset(f) ==
    /\ ft.user[f] = "idle" /\ ft.uses[f] < MaxUses
    /\ ft' = [ft EXCEPT !.op[f] = TRUE, !.uses[f] = @ + 1, !.user[f] = "started"]

\* An asynchronous API function: nabto_device_future_reset, then the operation.
Start(f) ==
    /\ ft.user[f] = "idle" /\ ft.uses[f] < MaxUses
    /\ ft' = [ft EXCEPT !.ready[f] = FALSE, !.cb[f] = FALSE, !.ec[f] = 0,
                        !.op[f] = TRUE, !.uses[f] = @ + 1, !.user[f] = "started"]

\* Mutant of SetCallback: a future that is already resolved is not posted.
SetCallbackLate(f) ==
    /\ ft.user[f] = "started"
    /\ ft' = [ft EXCEPT !.cb[f] = TRUE, !.user[f] = "callback"]

SetCallback(f) ==
    /\ ft.user[f] = "started"
    /\ LET s == [ft EXCEPT !.cb[f] = TRUE, !.user[f] = "callback"]
       IN  ft' = IF ft.ready[f] THEN QueuePost(s, f) ELSE s

\* nabto_device_future_wait up to the condition variable.
Wait(f) ==
    /\ ft.user[f] = "started"
    /\ ft' = IF ft.ready[f] THEN Deliver(ft, f) ELSE [ft EXCEPT !.user[f] = "waiting"]

\* The rest of it: ready is not tested again after the wake up. After one that no signal
\* caused ec of an unresolved future is returned; the user is taken to ask again.
WaitReturns(f) ==
    /\ ft.user[f] = "woken"
    /\ ft' = IF ft.ready[f] THEN Deliver(ft, f) ELSE [ft EXCEPT !.user[f] = "started"]

TimedWait(f) ==
    /\ ft.user[f] = "started"
    /\ ft' = IF ft.ready[f] THEN Deliver(ft, f) ELSE [ft EXCEPT !.user[f] = "timedWaiting"]

\* nabto_device_future_timed_wait tests ready again, after a signal or not.
TimedWaitReturns(f) ==
    /\ ft.user[f] = "timedWaiting"
    /\ ft' = IF ft.ready[f] THEN Deliver(ft, f) ELSE [ft EXCEPT !.user[f] = "started"]

\* nabto_device_future_ready, nabto_device_future_error_code.
Poll(f) == ft.user[f] = "started" /\ ft.ready[f] /\ ft' = Deliver(ft, f)

\* pthread_cond_wait may return without a signal.
SpuriousWakeup(f) == ft.user[f] = "waiting" /\ ft' = [ft EXCEPT !.user[f] = "woken"]

\* nabto_device_future_resolve, called by the core.
Resolve(f) ==
    /\ ft.op[f]
    /\ LET s == [ft EXCEPT !.ec[f] = ft.uses[f], !.ready[f] = TRUE, !.op[f] = FALSE]
       IN ft' = IF ft.cb[f] THEN QueuePost(s, f)
                ELSE [s EXCEPT !.user[f] = IF @ = "waiting" THEN "woken" ELSE @]

StopFutureQueue == ft' = [ft EXCEPT !.stopped = TRUE, !.signals = @ + 1]

FutureSignal ==
    /\ ft.signals > 0
    /\ ft' = [ft EXCEPT !.signals = @ - 1, !.pc = IF @ = "wait" THEN "loop" ELSE @]

\* One round of the loop of execution_thread under its mutex.
Loop ==
    /\ ft.pc = "loop"
    /\ ft' = IF ft.queue # << >>
             THEN [ft EXCEPT !.pc = "popped", !.popped = Head(ft.queue), !.queue = Tail(@)]
             ELSE [ft EXCEPT !.pc = IF ft.stopped THEN "exited" ELSE "wait"]

\* nabto_device_future_popped under the mutex of the future.
TakeCallback ==
    /\ ft.pc = "popped"
    /\ ft' = [ft EXCEPT !.pc = "calling", !.call = ft.cb[ft.popped], !.cb[ft.popped] = FALSE]

\* The call itself reads ec after the mutex is released.
CallCallback ==
    /\ ft.pc = "calling"
    /\ LET s == [ft EXCEPT !.pc = "loop", !.popped = Nobody, !.call = FALSE]
       IN  ft' = IF ft.call THEN Deliver(s, ft.popped) ELSE s

ExecutionThread == FutureSignal \/ Loop \/ TakeCallback \/ CallCallback

UserStep(f) == \/ SetCallback(f) \/ Wait(f) \/ WaitReturns(f) \/ TimedWait(f)
               \/ TimedWaitReturns(f) \/ Poll(f) \/ SpuriousWakeup(f)

-----------------------------------------------------------------------------
(* Properties *)

\* Every use of a future delivers the result of its own operation, after that
\* operation was resolved, by whichever of wait, timed wait, poll and callback
\* the user asks for it; no future is queued for a callback twice. (What a wait returns
\* after a wake up without a signal is no result: see WaitReturns.)
ResultDelivered ==
    /\ \A f \in FutureSet : ft.user[f] = "idle" => ft.got[f] = ft.uses[f] /\ ~ft.op[f]
    /\ IsInjective(ft.queue)
    /\ \A f \in Range(ft.queue) : ft.ready[f] /\ ft.user[f] = "callback"
=============================================================================
