------------------------------ MODULE DnsUnix -------------------------------
(**************************************************************************************)
(* The resolver of modules/dns/unix: a thread calls getaddrinfo for the requests that *)
(* the core has put into a list, and resolves their completion events.                *)
(*                                                                                    *)
(* The record dns:                                                                    *)
(*   events  the list, under the mutex; stopped                                       *)
(*   pc      where the thread is; work: the request it resolves                       *)
(*   awake   condition was signalled while the thread waits                           *)
(*   calls   where the core is in async_resolve, for each request: "none", "asked"    *)
(*           (stopped was read), "listed" (the signal is still to come), "made"       *)
(*   done    the code of each request's completion event, or "none"                   *)
(*   late    requests put into the list after the stop (history)                      *)
(*   closer  where nm_unix_dns_resolver_deinit is                                     *)
(**************************************************************************************)
EXTENDS Integers, Sequences

CONSTANT DnsRequests

VARIABLE dns

DnsTypeOK ==
    /\ dns.pc \in {"top", "wait", "resolve", "end"} /\ dns.closer \in {"no", "signal", "join", "done"}
    /\ dns.calls \in [DnsRequests -> {"none", "asked", "listed", "made"}]
    /\ dns.done \in [DnsRequests -> {"none", "OK", "NOT_FOUND", "STOPPED"}]

\* nm_unix_dns_resolver_init, nm_unix_dns_resolver_run.
DnsInit ==
    dns = [events |-> << >>, stopped |-> FALSE, pc |-> "top", work |-> 0, awake |-> FALSE,
           calls |-> [r \in DnsRequests |-> "none"], done |-> [r \in DnsRequests |-> "none"],
           late |-> {}, closer |-> "no"]

\* pthread_cond_signal: nothing when nobody waits.
DnsSignal(s) == [s EXCEPT !.awake = s.pc = "wait"]

\* async_resolve: stopped is read before the mutex is taken, the signal is sent after it is
\* given back.
DnsAsyncResolve(r) ==
    /\ dns.calls[r] = "none" /\ \A q \in DnsRequests : q < r => dns.calls[q] = "made"
    /\ dns' = IF dns.stopped THEN [dns EXCEPT !.calls[r] = "made", !.done[r] = "STOPPED"]
              ELSE [dns EXCEPT !.calls[r] = "asked"]

DnsAppend(r) ==
    /\ dns.calls[r] = "asked"
    /\ dns' = [dns EXCEPT !.calls[r] = "listed", !.events = Append(@, r),
                       !.late = IF dns.stopped THEN @ \cup {r} ELSE @]

DnsNotify(r) ==
    /\ dns.calls[r] = "listed"
    /\ dns' = DnsSignal([dns EXCEPT !.calls[r] = "made"])

\* resolve_thread, one round with the mutex.
ResolveThread ==
    /\ dns.pc = "top"
    /\ dns' = IF dns.stopped THEN [dns EXCEPT !.pc = "end"]
              ELSE IF dns.events = << >> THEN [dns EXCEPT !.pc = "wait", !.awake = FALSE]
              ELSE [dns EXCEPT !.pc = "resolve", !.work = Head(dns.events), !.events = Tail(@)]

\* pthread_cond_wait returns: on a signal, or by itself.
DnsWoken ==
    /\ dns.pc = "wait"
    /\ dns' = [dns EXCEPT !.pc = "top", !.awake = FALSE]

\* resolve_one, resolve_one_ec: getaddrinfo finds addresses or fails. (The addresses are left out;
\* their number is compared with ipsResolved, which is 0 until all of them are stored.)
ResolveOne(ec) ==
    /\ dns.pc = "resolve"
    /\ dns' = [dns EXCEPT !.pc = "top", !.done[dns.work] = ec]

\* Mutant of StopResolver: what is listed is left.
StopResolverKeeps ==
    /\ dns.closer = "no"
    /\ dns' = [dns EXCEPT !.closer = "signal", !.stopped = TRUE]

\* stop_resolver: the list is emptied under the mutex, then the thread is told and joined.
StopResolver ==
    /\ dns.closer = "no"
    /\ dns' = [dns EXCEPT !.closer = "signal", !.stopped = TRUE, !.events = << >>,
                 !.done = [r \in DnsRequests |-> IF \E i \in DOMAIN dns.events : dns.events[i] = r
                                                 THEN "STOPPED" ELSE @[r]]]

DnsStopSignal == dns.closer = "signal" /\ dns' = DnsSignal([dns EXCEPT !.closer = "join"])

DnsJoined == dns.closer = "join" /\ dns.pc = "end" /\ dns' = [dns EXCEPT !.closer = "done"]

DnsThread == ResolveThread \/ (\E ec \in {"OK", "NOT_FOUND"} : ResolveOne(ec))

DnsNext ==
    \/ DnsThread \/ DnsWoken \/ StopResolver \/ DnsStopSignal \/ DnsJoined
    \/ \E r \in DnsRequests : DnsAsyncResolve(r) \/ DnsAppend(r) \/ DnsNotify(r)

\* Every request is answered, before and after a stop, and the stop comes to an end, however the
\* core's append and signal, the thread's wait and the stop interleave: no signal is lost, since
\* the list and stopped are looked at under the mutex before every wait. The one request that
\* gets no answer is one whose core had read stopped before the stop and was put into the list
\* after it.
DnsAnswered ==
    /\ []DnsTypeOK
    /\ \A r \in DnsRequests :
         dns.calls[r] = "made" ~> (dns.done[r] # "none" \/ r \in dns.late)
    /\ (dns.closer = "signal") ~> (dns.closer = "done")
=============================================================================
