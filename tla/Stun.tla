-------------------------------- MODULE Stun --------------------------------
(**********************************************************************************)
(* GET /p2p/endpoints (core/nc_stun_coap.c): a client asks under which endpoints  *)
(* the device can be reached, and the device finds out with a STUN analysis       *)
(* (core/nc_stun.c), for which it looks up the STUN server (core/                 *)
(* nc_dns_multi_resolver.c). libnabto_stun, which makes and reads the packets, is *)
(* external: `stun` is the event it wants handled next.                           *)
(*                                                                                *)
(* The record stu:                                                                *)
(*   sockets, host, state, cbs, toEv   the fields of nc_stun_context; cbs counts  *)
(*           the callbacks, sendEv says that sendCompletionEvent is posted        *)
(*   v4, v6  the resolver's part of each family: the queries under way, the       *)
(*           posted completion event, the result (v4Ec) and the addresses         *)
(*   dnsEv   dnsCompletionEvent, when it is posted; eps: what ctx->eps holds      *)
(*   tries   packets sent in this analysis (bounded by MaxStunSends)              *)
(*   req     nc_stun_coap_context.stunRequest, 0 for NULL; answers: how often a   *)
(*           request has been answered                                            *)
(*   null    the completion was called without a request                          *)
(*   given   an analysis ended and left the state at RUNNING                      *)
(**********************************************************************************)
EXTENDS Integers, Sequences, FiniteSets, Functions

CONSTANTS EndpointRequests, MaxIps, MaxEndpoints, MaxStunSends

VARIABLE stu

StunEvents == {"none", "primary", "secondary", "wait", "completed", "failed"}

Families == {"v4", "v6"}

StunTypeOK ==
    /\ stu.state \in {"NONE", "RUNNING", "DONE", "ABORTED"} /\ stu.stun \in StunEvents
    /\ stu.req \in EndpointRequests \cup {0} /\ stu.tries \in 0..MaxStunSends
    /\ Len(stu.eps) <= MaxEndpoints

\* nc_stun_init, nc_stun_coap_init, nc_dns_multi_resolver_init.
StunInit ==
    stu = [sockets |-> FALSE, host |-> FALSE, state |-> "NONE", cbs |-> 0, toEv |-> FALSE,
           sendEv |-> FALSE, dnsEv |-> "none", eps |-> << >>, stun |-> "none", tries |-> 0,
           dns |-> [f \in Families |-> [under |-> 0, ev |-> "none", ec |-> "OK", size |-> 0]],
           req |-> 0, answers |-> [r \in EndpointRequests |-> 0], null |-> FALSE, given |-> FALSE]

(***************************************************************************)
(* nc_dns_multi_resolver.c                                                 *)
(***************************************************************************)
\* nc_dns_multi_resolver_resolve: both queries start, whatever is under way.
MultiResolve(s) ==
    [s EXCEPT !.dns = [f \in Families |-> [@[f] EXCEPT !.under = @ + 1, !.ec = "IN_PROGRESS", !.size = 0]]]

\* dns_resolved_ec: the array of addresses, given n4 and n6 addresses of the families.
DnsResolvedEc(n4, n6) ==
    LET loop[i \in 0..(n4 + n6)] ==
          IF i = 0 THEN << >>
          ELSE LET a == IF i <= n4 /\ Len(loop[i - 1]) < MaxEndpoints
                        THEN Append(loop[i - 1], <<"v4", i>>) ELSE loop[i - 1]
               IN  IF i <= n6 /\ Len(a) < MaxEndpoints THEN Append(a, <<"v6", i>>) ELSE a
    IN  loop[n4 + n6]

\* dns_resolved: both families are waited for, an error of one is none.
DnsResolved(s) ==
    LET v4 == s.dns["v4"] v6 == s.dns["v6"] IN
    IF "IN_PROGRESS" \in {v4.ec, v6.ec} THEN s
    ELSE IF v4.ec # "OK" /\ v6.ec # "OK" THEN [s EXCEPT !.dnsEv = v4.ec]
    ELSE [s EXCEPT !.dnsEv = "OK", !.eps = DnsResolvedEc(v4.size, v6.size)]

\* The platform ends a query: no address, as many as fit, or an error.
DnsAnswer(f, ec, n) ==
    /\ stu.dns[f].under > 0 /\ stu.state # "ABORTED"
    /\ (ec = "OK") = (n > 0)
    /\ stu' = [stu EXCEPT !.dns[f] = [@ EXCEPT !.under = @ - 1, !.ev = ec, !.size = n]]

\* dns_resolved_callback_v4, dns_resolved_callback_v6.
DnsResolvedCallback(f) ==
    /\ stu.dns[f].ev # "none" /\ stu.state # "ABORTED"
    /\ stu' = DnsResolved([stu EXCEPT !.dns[f].ev = "none", !.dns[f].ec = stu.dns[f].ev])

(***************************************************************************)
(* nc_stun.c, with the completion of the resource.                          *)
(***************************************************************************)
\* nc_rendezvous_endpoints_completed: the addresses are the local ones, and the one STUN
\* found if it worked. The slot is free again.
EndpointsCompleted(s) ==
    IF s.req = 0 THEN [s EXCEPT !.null = TRUE]
    ELSE [s EXCEPT !.answers[s.req] = @ + 1, !.req = 0]

\* nc_stun_resolve_callbacks.
ResolveCallbacks(s) ==
    LET t == [s EXCEPT !.given = @ \/ s.state = "RUNNING", !.cbs = 0] IN
    IF s.cbs = 0 THEN t ELSE EndpointsCompleted(t)

\* The two send cases of nc_stun_event; nabto_stun_get_send_data makes the next event WAIT.
StunSend(s) ==
    IF ~s.sockets \/ s.eps = << >> THEN ResolveCallbacks(s)
    ELSE [s EXCEPT !.stun = "wait", !.sendEv = TRUE]

\* nc_stun_event.
StunEvent(s) ==
    LET t == [s EXCEPT !.toEv = FALSE] IN
    CASE s.stun \in {"primary", "secondary"} -> StunSend(t)
      [] s.stun = "wait" -> [t EXCEPT !.toEv = TRUE]
      [] s.stun = "completed" -> ResolveCallbacks([t EXCEPT !.state = "DONE"])
      [] s.stun = "failed" -> ResolveCallbacks(t)
      [] s.stun = "none" -> t

\* nc_stun_async_analyze: one more callback, and an analysis unless one is running.
AsyncAnalyze(s) ==
    LET t == [s EXCEPT !.cbs = @ + 1] IN
    IF s.state = "RUNNING" THEN t ELSE MultiResolve([t EXCEPT !.state = "RUNNING"])

\* nc_rendezvous_handle_coap_p2p_endpoints: one request at a time. Without a STUN server
\* the answer is the local addresses.
HandleEndpoints(r) ==
    /\ stu.state # "ABORTED" /\ stu.answers[r] = 0 /\ stu.req # r
    /\ \A q \in EndpointRequests : q < r => stu.answers[q] > 0 \/ stu.req = q
    /\ stu' = IF stu.req # 0 THEN [stu EXCEPT !.answers[r] = 1]
              ELSE IF ~stu.host THEN EndpointsCompleted([stu EXCEPT !.req = r])
              ELSE AsyncAnalyze([stu EXCEPT !.req = r])

\* nc_stun_dns_cb, with nc_stun_convert_ep_list and nabto_stun_init.
StunDnsCb ==
    /\ stu.dnsEv # "none" /\ stu.state # "ABORTED"
    /\ LET s == [stu EXCEPT !.dnsEv = "none"] IN
       stu' = IF stu.dnsEv # "OK" THEN ResolveCallbacks([s EXCEPT !.state = "DONE"])
              ELSE StunEvent([s EXCEPT !.stun = "primary", !.tries = 1])

\* Mutant of StunSendToCb: the timer is left to somebody else.
StunSendToCbIdle ==
    /\ stu.sendEv /\ stu.state # "ABORTED"
    /\ stu' = [stu EXCEPT !.sendEv = FALSE]

\* nc_stun_send_to_cb.
StunSendToCb ==
    /\ stu.sendEv /\ stu.state # "ABORTED"
    /\ stu' = StunEvent([stu EXCEPT !.sendEv = FALSE])

\* nc_stun_handle_timeout; nabto_stun_handle_wait_event tries again, or gives up.
StunTimeout ==
    /\ stu.toEv /\ stu.state # "ABORTED"
    /\ stu' = StunEvent(IF stu.tries < MaxStunSends
                        THEN [stu EXCEPT !.toEv = FALSE, !.tries = @ + 1, !.stun = "primary"]
                        ELSE [stu EXCEPT !.toEv = FALSE, !.stun = "failed"])

\* nc_stun_handle_packet: nabto_stun_handle_packet has its result, has the next test, or
\* drops the packet.
StunPacket(next) ==
    /\ stu.sockets /\ stu.state # "ABORTED"
    /\ next # stu.stun => stu.stun = "wait" /\ next \in {"primary", "secondary", "completed"}
    /\ next \in {"primary", "secondary"} => stu.tries < MaxStunSends
    /\ stu' = StunEvent([stu EXCEPT !.stun = next,
                         !.tries = IF next \in {"primary", "secondary"} /\ stu.stun = "wait" THEN @ + 1 ELSE @])

\* nc_stun_set_sockets, when the secondary socket is bound; nc_stun_set_host, when attached.
SetSockets == ~stu.sockets /\ stu.state = "NONE" /\ stu.stun = "none" /\ stu' = [stu EXCEPT !.sockets = TRUE]

SetHost == ~stu.host /\ stu.state # "ABORTED" /\ stu' = [stu EXCEPT !.host = TRUE]

\* nc_stun_remove_sockets in nc_device_stop, then nc_stun_coap_deinit and nc_stun_deinit, which
\* free the request and destroy the events.
RemoveSockets == stu.sockets /\ stu.state # "ABORTED" /\ stu' = [stu EXCEPT !.sockets = FALSE]

StunDeinit ==
    /\ ~stu.sockets /\ stu.state # "ABORTED"
    /\ stu' = [stu EXCEPT !.state = "ABORTED", !.toEv = FALSE, !.sendEv = FALSE, !.dnsEv = "none",
                          !.req = 0, !.cbs = 0]

StunNext ==
    \/ \E r \in EndpointRequests : HandleEndpoints(r)
    \/ \E f \in Families, ec \in {"OK", "ERROR"}, n \in {0, MaxIps} : DnsAnswer(f, ec, n)
    \/ \E f \in Families : DnsResolvedCallback(f)
    \/ StunDnsCb \/ StunSendToCb \/ StunTimeout
    \/ \E next \in StunEvents : StunPacket(next)
    \/ SetSockets \/ SetHost \/ RemoveSockets \/ StunDeinit

(***************************************************************************)
(* Properties                                                              *)
(***************************************************************************)
\* The completion of an analysis finds the request it is for: stunRequest and the registered
\* callback come and go together, whatever late packets, queries and timers of an earlier
\* analysis do in between, and no request is answered twice.
EndpointsHeld ==
    /\ StunTypeOK
    /\ ~stu.null
    /\ stu.cbs = IF stu.req = 0 THEN 0 ELSE 1
    /\ \A r \in EndpointRequests : stu.answers[r] <= 1 /\ (stu.req = r => stu.answers[r] = 0)

\* "an array of the resulting addresses with alternating ipv4 and ipv6 addresses": every
\* address that was found is there once while there is room, those of a family in their
\* order, and the k-th of one family comes next to the k-th of the other.
DnsAlternates ==
    \A n4, n6 \in 0..MaxIps :
        LET ips == DnsResolvedEc(n4, n6)
            Rank(ip) == 2 * ip[2] + IF ip[1] = "v4" THEN 0 ELSE 1
            all == {<<"v4", k>> : k \in 1..n4} \cup {<<"v6", k>> : k \in 1..n6}
        IN  /\ Len(ips) = IF n4 + n6 < MaxEndpoints THEN n4 + n6 ELSE MaxEndpoints
            /\ Range(ips) \subseteq all
            /\ \A i, j \in DOMAIN ips : i < j => Rank(ips[i]) < Rank(ips[j])
            /\ \A x \in all \ Range(ips), i \in DOMAIN ips : Rank(ips[i]) < Rank(x)

\* A client that asks for endpoints is answered, with the local ones if STUN or DNS fails,
\* unless an earlier analysis ended without leaving the state RUNNING (nc_stun_event:
\* STUN_ET_FAILED, no socket, no endpoint), after which no analysis starts again. It is
\* answered once (EndpointsHeld), and with the addresses in the documented order
\* (DnsAlternates).
EndpointsAnswered ==
    /\ [](EndpointsHeld /\ DnsAlternates)
    /\ \A r \in EndpointRequests : (stu.req = r /\ ~stu.given) ~> stu.req # r
=============================================================================
