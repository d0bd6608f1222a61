------------------------------ MODULE Services ------------------------------
(**************************************************************************************)
(* The services of a device that a client's connection reaches, and the listeners     *)
(* that tell the application of them, checked side by side: they share no state, so a *)
(* behaviour is one of one of them, the others resting in their initial states.       *)
(**************************************************************************************)
EXTENDS Streams, Tunnel, CoapServer, CoapClient, Listeners

VARIABLE which

vars == <<which, str, tun, srv, cli, lis>>

\* A component that rests has one of its initial states, whichever.
Init ==
    /\ which \in {"streams", "tunnel", "coap server", "coap client", "listeners"}
    /\ StreamInit /\ TunnelInit /\ CoapServerInit /\ CoapClientInit /\ ListenersInit
    /\ which = "listeners" \/ lis.kind = CHOOSE k \in Kinds : TRUE

Next ==
    \/ which = "streams" /\ StreamNext /\ UNCHANGED <<which, tun, srv, cli, lis>>
    \/ which = "tunnel" /\ TunnelNext /\ UNCHANGED <<which, str, srv, cli, lis>>
    \/ which = "coap server" /\ CoapServerNext /\ UNCHANGED <<which, str, tun, cli, lis>>
    \/ which = "coap client" /\ CoapClientNext /\ UNCHANGED <<which, str, tun, srv, lis>>
    \/ which = "listeners" /\ ListenersNext /\ UNCHANGED <<which, str, tun, srv, cli>>

\* The event queue runs posted and timed events, DTLS sends what it took, and a
\* connection that closes is destroyed (module Device, ConnectionEnds).
StreamFairness ==
    /\ WF_str(which = "streams" /\ StreamEvent)
    /\ WF_str(which = "streams" /\ StreamSent)
    /\ WF_str(which = "streams" /\ ConnectionDestroyed)
    /\ WF_str(which = "streams" /\ \E giveUp \in BOOLEAN : StreamTimeout(giveUp))

\* Events run, a datagram is written, a closing connection is destroyed.
CoapServerFairness ==
    /\ WF_srv(which = "coap server" /\ DatagramSent)
    /\ WF_srv(which = "coap server" /\ NotifyEventCallback)
    /\ WF_srv(which = "coap server" /\ CoapServerTimeout)
    /\ \A p \in Peers : WF_srv(which = "coap server" /\ PeerDestroyed(p))

\* Events run, and timers fire.
CoapClientFairness ==
    /\ WF_cli(which = "coap client" /\ CliEvent)
    /\ WF_cli(which = "coap client" /\ ClientTimeout)

Spec == Init /\ [][Next]_vars /\ StreamFairness /\ CoapServerFairness /\ CoapClientFairness
=============================================================================
