------------------------------ MODULE Network -------------------------------
(*******************************************************************************************)
(* What the device does with the network: STUN, rendezvous, mDNS and the stream            *)
(* ports of the core; and under them the sockets and the resolver of the platform, checked *)
(* side by side as in Services.                                                            *)
(*******************************************************************************************)
EXTENDS Stun, Rendezvous, SelectUnix, Libevent, DnsUnix, UdpSockets, Mdns, StreamPorts

VARIABLE which

vars == <<which, stu, ren, sel, lev, dns, usk, mdn, spo>>

\* A component that rests has one of its initial states, whichever.
Init ==
    /\ which \in {"stun", "rendezvous", "select_unix", "libevent", "dns", "addresses", "mdns", "ports"}
    /\ StunInit /\ RendezvousInit /\ SelInit /\ LevInit /\ DnsInit /\ UskInit /\ MdnsInit
    /\ PortsInit
    /\ which = "select_unix" \/ sel.use = {"recv", "connect"}
    /\ which = "libevent" \/ lev.use = {"recv"}
    /\ which = "addresses" \/ usk.impl = "select"

Next ==
    \/ which = "stun" /\ StunNext /\ UNCHANGED <<which, ren, sel, lev, dns, usk, mdn, spo>>
    \/ which = "rendezvous" /\ RendezvousNext /\ UNCHANGED <<which, stu, sel, lev, dns, usk, mdn, spo>>
    \/ which = "select_unix" /\ SelNext /\ UNCHANGED <<which, stu, ren, lev, dns, usk, mdn, spo>>
    \/ which = "libevent" /\ LevNext /\ UNCHANGED <<which, stu, ren, sel, dns, usk, mdn, spo>>
    \/ which = "dns" /\ DnsNext /\ UNCHANGED <<which, stu, ren, sel, lev, usk, mdn, spo>>
    \/ which = "addresses" /\ UskNext /\ UNCHANGED <<which, stu, ren, sel, lev, dns, mdn, spo>>
    \/ which = "mdns" /\ MdnsNext /\ UNCHANGED <<which, stu, ren, sel, lev, dns, usk, spo>>
    \/ which = "ports" /\ PortsNext /\ UNCHANGED <<which, stu, ren, sel, lev, dns, usk, mdn>>

\* The platform answers queries, and the event queue runs what is posted.
StunFairness ==
    /\ \A f \in Families : /\ WF_stu(which = "stun" /\ \E ec \in {"OK", "ERROR"}, n \in {0, MaxIps} : DnsAnswer(f, ec, n))
                           /\ WF_stu(which = "stun" /\ DnsResolvedCallback(f))
    /\ WF_stu(which = "stun" /\ StunDnsCb)
    /\ WF_stu(which = "stun" /\ StunSendToCb)
    /\ WF_stu(which = "stun" /\ StunTimeout)

\* The thread runs whenever it can.
SelFairness ==
    /\ WF_sel(which = "select_unix" /\ SelThread)

\* event_base_dispatch runs what is due, every descriptor in its turn.
LevFairness ==
    /\ WF_lev(which = "libevent" /\ UdpReadyCallback)
    /\ WF_lev(which = "libevent" /\ LevResolveHeld)
    /\ SF_lev(which = "libevent" /\ TcpBuffereventEvent)
    /\ SF_lev(which = "libevent" /\ TcpBuffereventEventRead)
    /\ SF_lev(which = "libevent" /\ TcpBuffereventEventWrite)

\* The threads run; the wait is only sure to end when it is signalled.
DnsFairness ==
    /\ WF_dns(which = "dns" /\ DnsThread)
    /\ WF_dns(which = "dns" /\ dns.awake /\ DnsWoken)
    /\ WF_dns(which = "dns" /\ (DnsStopSignal \/ DnsJoined))
    /\ \A r \in DnsRequests : WF_dns(which = "dns" /\ (DnsAppend(r) \/ DnsNotify(r)))

\* The event queue runs what is posted, and the sockets complete what they can.
MdnsFairness ==
    /\ WF_mdn(which = "mdns" /\ MdnsCallbacks)
    /\ WF_mdn(which = "mdns" /\ MdnsSockets)

Spec == Init /\ [][Next]_vars /\ StunFairness /\ SelFairness /\ LevFairness /\ DnsFairness /\ MdnsFairness

\* Both implementations of the platform's sockets keep the contract the core relies on
\* (SocketContract): whatever the order of the core's calls and the network thread's or
\* libevent's steps, an operation completes once, and only a socket that was aborted can see a
\* second completion; and the thread of select_unix never resolves for a socket that is gone.
SocketsKeepContract == SelImplementsContract /\ LevImplementsContract /\ []SelHeldValid

\* And both complete what is due: an operation whose descriptor is ready does not wait for
\* ever, wherever the network thread was, or whatever libevent had seen, when the core started
\* it (SelCompletes, LevCompletes, with the exceptions named there).
SocketsComplete == SelCompletes /\ LevCompletes
=============================================================================
