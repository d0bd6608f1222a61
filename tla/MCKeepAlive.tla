---------------------------- MODULE MCKeepAlive -----------------------------
(* The instance of KeepAlive that TLC checks.                               *)
EXTENDS KeepAlive

MCDefault == [interval |-> 2, retryInterval |-> 1, maxRetries |-> 1]

\* No retry; an interval below the retry interval (n = 0); a long interval.
MCSettings == {[interval |-> 2, retryInterval |-> 2, maxRetries |-> 0],
               [interval |-> 1, retryInterval |-> 2, maxRetries |-> 2],
               [interval |-> 3, retryInterval |-> 1, maxRetries |-> 1]}
=============================================================================
