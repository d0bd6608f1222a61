----------------------------- MODULE Rendezvous -----------------------------
(***********************************************************************************)
(* Rendezvous packets (core/nc_rendezvous.c, core/nc_rendezvous_coap.c). A client  *)
(* posts its endpoints to /p2p/rendezvous, and the device sends a packet to each;  *)
(* the client's own rendezvous packets are answered with one. One packet is sent   *)
(* at a time, the others wait in packetList, of which the last is sent first.      *)
(*                                                                                 *)
(* The record ren:                                                                 *)
(*   list, index, sending, udp   packetList, packetIndex, sendingDevReqs and       *)
(*           udpDispatch of nc_rendezvous_context; completed: the completion event *)
(*           of the send is posted                                                 *)
(*   out     the packets given to the socket, in order                             *)
(*   took    the packets put in the list; n: packets made (at most MaxPackets)     *)
(*   code    the answer to the last request                                        *)
(***********************************************************************************)
EXTENDS Integers, Sequences, FiniteSets, Functions

CONSTANTS QueueLength, MaxPackets

ASSUME QueueAssumption == QueueLength \in Nat /\ MaxPackets \in Nat

VARIABLE ren

\* An element of the array a client posts: an endpoint with an IPv4 or an IPv6 address, a map
\* that is no endpoint (of another length, or without Ip or Port), or no map.
Elements == {"ipv4", "ipv6", "other", "nomap"}

Payloads == UNION {[1..n -> Elements] : n \in 0..2}

RendezvousTypeOK ==
    /\ ren.index \in 0..QueueLength /\ ren.n \in 0..MaxPackets /\ ren.code \in {0, 204, 400}
    /\ ren.list \in [1..QueueLength -> 0..MaxPackets]

\* nc_rendezvous_init, nc_rendezvous_coap_init.
RendezvousInit ==
    ren = [list |-> [i \in 1..QueueLength |-> 0], index |-> 0, sending |-> FALSE, udp |-> FALSE,
           completed |-> FALSE, out |-> << >>, took |-> {}, n |-> 0, code |-> 0]

\* nc_rendezvous_send_device_request.
SendDeviceRequest(s) ==
    IF s.sending \/ ~s.udp \/ s.index <= 0 THEN s
    ELSE [s EXCEPT !.index = @ - 1, !.sending = TRUE, !.out = Append(@, s.list[s.index])]

\* nc_rendezvous_send_rendezvous: a full queue drops the packet.
SendRendezvous(s) ==
    LET t == [s EXCEPT !.n = @ + 1] IN
    IF s.index >= QueueLength \/ ~s.udp THEN t
    ELSE SendDeviceRequest([t EXCEPT !.list[s.index + 1] = t.n, !.index = @ + 1, !.took = @ \cup {t.n}])

\* handle_rendezvous_payload: endpoints before an element that is no map are sent to, though
\* the request fails. (An array has at most two elements, see Payloads.)
RendezvousPayload(s, payload) ==
    LET maps == {i \in 1..Len(payload) : \A j \in 1..i : payload[j] # "nomap"}
        element(t, i) == IF i \in maps /\ payload[i] \in {"ipv4", "ipv6"} THEN SendRendezvous(t) ELSE t
    IN  [element(element(s, 1), 2) EXCEPT !.code = IF maps = 1..Len(payload) THEN 204 ELSE 400]

\* nc_rendezvous_handle_coap_p2p_rendezvous, for an array and for anything else.
HandleRendezvous(payload) ==
    /\ ren.n + 2 <= MaxPackets
    /\ ren' = RendezvousPayload(ren, payload)

HandleRendezvousUnread == ren' = [ren EXCEPT !.code = 400]

\* nc_rendezvous_handle_client_request.
HandleClientRequest == ren.n < MaxPackets /\ ren' = SendRendezvous(ren)

\* The platform has sent the packet, or failed to (np_udp_async_send_to).
RendezvousSent == ren.sending /\ ~ren.completed /\ ren' = [ren EXCEPT !.completed = TRUE]

\* Mutant of RendezvousPacketSent: the next request has to start the next packet.
RendezvousPacketSentOnly ==
    ren.completed /\ ren' = [ren EXCEPT !.completed = FALSE, !.sending = FALSE]

\* nc_rendezvous_packet_sent.
RendezvousPacketSent ==
    ren.completed /\ ren' = SendDeviceRequest([ren EXCEPT !.completed = FALSE, !.sending = FALSE])

\* nc_rendezvous_set_udp_dispatch, nc_rendezvous_remove_udp_dispatch: when the socket is bound
\* and when the device stops.
SetUdpDispatch == ~ren.udp /\ ren.took = {} /\ ren' = [ren EXCEPT !.udp = TRUE]

RemoveUdpDispatch == ren.udp /\ ren.took # {} /\ ren' = [ren EXCEPT !.udp = FALSE]

RendezvousNext ==
    \/ \E payload \in Payloads : HandleRendezvous(payload)
    \/ HandleRendezvousUnread \/ HandleClientRequest \/ RendezvousSent \/ RendezvousPacketSent
    \/ SetUdpDispatch \/ RemoveUdpDispatch

(***************************************************************************)
(* Properties                                                              *)
(***************************************************************************)
\* A packet that found room in the queue is sent exactly once, however requests, packets of
\* the client and completed sends interleave over the one array: at any time it is either in
\* the first packetIndex places or has gone out, and while there are some left a send is
\* under way that will take up the next (unless the device was stopped).
RendezvousAllSent ==
    LET waiting == {ren.list[i] : i \in 1..ren.index}
        out == Range(ren.out)
    IN  /\ RendezvousTypeOK
        /\ ren.took = waiting \cup out /\ waiting \cap out = {}
        /\ Len(ren.out) = Cardinality(out) /\ Cardinality(waiting) = ren.index
        /\ ren.index > 0 /\ ren.udp => ren.sending
=============================================================================
