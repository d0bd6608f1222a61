----------------------------- MODULE EventQueue -----------------------------
(***************************************************************************)
(* The event queue of the select based platforms                           *)
(* (src/modules/event_queue/nm_event_queue.c, thread_event_queue.c and the *)
(* timestamps of src/platform/np_timestamp_wrapper.c).                     *)
(*                                                                         *)
(* The queue thread takes one event under queueMutex, releases it, and     *)
(* runs the event later under coreMutex.  Any thread may post, post timed  *)
(* or cancel between two steps of the queue thread; a post appends under   *)
(* queueMutex and signals the condition only after the unlock.  Timestamps *)
(* are the low bits of the clock, compared modulo Modulus (2^32).          *)
(***************************************************************************)
EXTENDS Integers, Sequences, Functions

CONSTANTS
    Events,     \* the struct np_event objects
    Modulus,    \* number of timestamps
    MaxDelay,   \* longest delay given to post_timed_event
    FirstClock, \* the time when the device is started
    MaxClock,   \* latest time given to a timed event
    Folded      \* whether the compiler folds v1 - v2 <= 0 into v1 <= v2

\* Delays stay well inside half of the range of the timestamps.
ASSUME RangeAssumption == /\ Modulus \in Nat /\ Modulus % 2 = 0
                          /\ MaxDelay \in 1 .. (Modulus \div 4)
                          /\ FirstClock \in Nat /\ MaxClock \in Nat /\ Folded \in BOOLEAN

VARIABLES
    q,      \* struct thread_event_queue and the queue thread
    clock   \* the time, not reduced

None == "none"

\* events and timed are the two lists, stamp the expireTimestamps, pc, now,
\* wake and event the queue thread, signals the signals that are not given
\* yet; due (the time an event may run from), from (the same of the taken
\* event) and void (whether the taken event was cancelled) are history.
Queue == [events : Seq(Events), timed : Seq(Events),
          stamp : [Events -> 0 .. Modulus - 1], stopped : BOOLEAN,
          pc : {"loop", "locking", "taken", "wait", "timedWait", "exited"},
          now : 0 .. Modulus - 1, wake : Nat, event : Events \cup {None},
          signals : Nat, due : [Events -> Nat], from : Nat, void : BOOLEAN]

\* The fields that are not read again before they are set are forgotten.
Take(s, e) ==
    [s EXCEPT !.pc = "taken", !.event = e, !.now = 0, !.from = s.due[e],
              !.stamp[e] = 0, !.due[e] = 0]


\* The int32_t that has the bits of t.
Signed(t) == IF t < Modulus \div 2 THEN t ELSE t - Modulus

\* Mutant of LessOrEqual: the unsigned timestamps are compared.
LessOrEqualUnsigned(t1, t2) == t1 <= t2

\* np_timestamp_less_or_equal subtracts two int32_t; where that overflows the
\* compiler may wrap or may compare the operands instead.
LessOrEqual(t1, t2) == IF Folded THEN Signed(t1) <= Signed(t2)
                       ELSE Signed((t1 - t2) % Modulus) <= 0

\* nn_llist_erase_node of the one node of an event.
Without(s, e) ==
    LET at == {i \in 1 .. Len(s) : s[i] = e}
        k == CHOOSE i \in at : TRUE
    IN  IF at = {} THEN s ELSE SubSeq(s, 1, k - 1) \o SubSeq(s, k + 1, Len(s))

\* nn_llist_insert_before.
InsertBefore(s, i, e) == SubSeq(s, 1, i - 1) \o <<e>> \o SubSeq(s, i, Len(s))

Listed(e) == e \in Range(q.events) \cup Range(q.timed)

QueueInit ==
    /\ clock = FirstClock
    /\ q = [events |-> << >>, timed |-> << >>, stamp |-> [e \in Events |-> 0],
            stopped |-> FALSE, pc |-> "loop", now |-> 0, wake |-> 0,
            event |-> None, signals |-> 0, due |-> [e \in Events |-> 0],
            from |-> 0, void |-> FALSE]

\* post_event and post_event_maybe_double: an event that is in one of the two
\* lists stays where it is.
Post(e) ==
    q' = [q EXCEPT !.events = IF Listed(e) THEN @ ELSE Append(@, e),
                   !.due[e] = IF Listed(e) THEN @ ELSE clock,
                   !.signals = @ + 1]

\* The place before the first timed event that does not expire earlier.
Inserted(s, e, t) ==
    LET later == {i \in 1 .. Len(s) : LessOrEqual(t, q.stamp[s[i]])}
        at == CHOOSE i \in later \cup {Len(s) + 1} :
                  \A j \in later : i <= j
    IN  InsertBefore(s, at, e)

PostTimed(e, ms) ==
    LET t == (clock + ms) % Modulus IN
    /\ clock + ms <= MaxClock
    /\ q' = [q EXCEPT !.stamp[e] = t, !.events = Without(@, e),
                      !.timed = Inserted(Without(@, e), e, t),
                      !.due[e] = clock + ms, !.signals = @ + 1]

\* cancel_event, and the cancel of destroy_event.
Cancel(e) ==
    q' = [q EXCEPT !.events = Without(@, e), !.timed = Without(@, e),
                   !.stamp[e] = 0, !.due[e] = 0, !.void = @ \/ q.event = e]

\* thread_event_queue_stop_blocking before the join.
StopQueue == q' = [q EXCEPT !.stopped = TRUE, !.signals = @ + 1]

\* The signal that a post or the stop gives after it has unlocked queueMutex.
Signal ==
    /\ q.signals > 0
    /\ q' = [q EXCEPT !.signals = @ - 1,
                      !.wake = 0,
                      !.pc = IF @ \in {"wait", "timedWait"} THEN "loop" ELSE @]

\* The head of the loop: the time is read before queueMutex is taken.
ReadNow ==
    /\ q.pc = "loop"
    /\ q' = [q EXCEPT !.pc = "locking", !.now = clock % Modulus]

TakeEvent ==
    /\ q.pc = "locking" /\ q.events # << >>
    /\ q' = [Take(q, Head(q.events)) EXCEPT !.events = Tail(@)]

Due == q.timed # << >> /\ LessOrEqual(q.stamp[Head(q.timed)], q.now)

TakeTimedEvent ==
    /\ q.pc = "locking" /\ q.events = << >> /\ Due
    /\ q' = [Take(q, Head(q.timed)) EXCEPT !.timed = Tail(@)]

\* The time until the first timed event, which is given to the timed wait.
Remaining == Signed((q.stamp[Head(q.timed)] - q.now) % Modulus)

\* Mutant of WaitOrExit: the wait for a timed event has no timeout.
WaitOrExitUntimed ==
    /\ q.pc = "locking" /\ q.events = << >> /\ ~Due
    /\ q' = [q EXCEPT !.now = 0, !.pc = IF q.stopped /\ q.timed = << >>
                                      THEN "exited" ELSE "wait"]

\* Nothing can be taken: wait for the next timed event, end, or wait.
WaitOrExit ==
    /\ q.pc = "locking" /\ q.events = << >> /\ ~Due
    /\ LET s == [q EXCEPT !.now = 0] IN
       q' = IF q.timed = << >>
            THEN [s EXCEPT !.pc = IF q.stopped THEN "exited" ELSE "wait"]
            ELSE [s EXCEPT !.pc = "timedWait", !.wake = clock + Remaining]

TimedOut ==
    /\ q.pc = "timedWait" /\ clock >= q.wake
    /\ q' = [q EXCEPT !.pc = "loop", !.wake = 0]

\* The callback of e runs under coreMutex, which the thread takes after it has
\* released queueMutex.  What it posts or cancels are steps of their own.
RunEvent(e) ==
    /\ q.pc = "taken" /\ q.event = e
    /\ q' = [q EXCEPT !.pc = "loop", !.event = None, !.from = 0, !.void = FALSE]

\* A timed event is never left for as long as half of the range, and the
\* thread does not sleep that long between two steps.
Tick ==
    /\ clock < MaxClock + Modulus \div 4 - 1
    /\ \A e \in Range(q.timed) : clock - q.due[e] < Modulus \div 4 - 1
    /\ q.pc = "locking" => (clock - q.now) % Modulus < Modulus \div 4 - 1
    /\ clock' = clock + 1

QueueStep == Signal \/ ReadNow \/ TakeEvent \/ TakeTimedEvent \/ WaitOrExit \/ TimedOut

-----------------------------------------------------------------------------
(* Properties *)

\* Timed events are taken in the order of their expiry, also across a wrap of
\* the timestamps, and no event is run before its time
\* (nm_event_queue_post_timed_event, nm_event_queue_take_timed_event).
TimedInOrder ==
    /\ \A i, j \in 1 .. Len(q.timed) : i < j => q.due[q.timed[i]] <= q.due[q.timed[j]]
    /\ q.pc = "taken" => clock >= q.from
=============================================================================
