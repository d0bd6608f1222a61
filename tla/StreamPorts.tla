----------------------------- MODULE StreamPorts ----------------------------
(*******************************************************************************************)
(* What nc_stream_manager.c gives out: ports to listeners and segments to streams, and the *)
(* calls of nabto_device_stream.c that ask for ports. A call takes eventMutex; so does the *)
(* core for a packet, in which a stream asks for segments.                                 *)
(*                                                                                         *)
(* The record spo:                                                                         *)
(*   call[u]  what the user thread u waits for eventMutex to do: a sequence                *)
(*   mutex    "free", or the thread that returned with it                                  *)
(*   ports    the port each listener is in the manager's list with, or 0                   *)
(*   isInitialized   listeners that nabto_device_listener_init has set up                  *)
(*   live     the send and receive segments the streams hold                               *)
(*   allocated, max   allocatedSegments and maxSegments                                    *)
(*******************************************************************************************)
EXTENDS Integers, FiniteSets

CONSTANTS PortUsers, PortListeners, FixedPorts, EphemeralPorts, MaxLive

ASSUME MaxLiveAssumption == MaxLive \in Nat

VARIABLE spo

Calls == ({"listen"} \X PortListeners \X FixedPorts) \cup ({"ephemeral", "stop"} \X PortListeners)

PortsTypeOK ==
    /\ \A u \in PortUsers : spo.call[u] = << >> \/ spo.call[u] \in Calls
    /\ spo.mutex \in PortUsers \cup {"free"} /\ spo.isInitialized \subseteq PortListeners
    /\ spo.ports \in [PortListeners -> FixedPorts \cup EphemeralPorts \cup {0}]
    /\ spo.live \in [{"send", "recv"} -> 0..MaxLive] /\ spo.allocated \in 0..(2 * MaxLive)

\* nc_stream_manager_init.
PortsInit ==
    spo = [call |-> [u \in PortUsers |-> << >>], mutex |-> "free", isInitialized |-> {},
           ports |-> [l \in PortListeners |-> 0],
           live |-> [k \in {"send", "recv"} |-> 0], allocated |-> 0, max |-> MaxLive]

\* nc_stream_manager_port_in_use.
PortInUse(p) == \E l \in PortListeners : spo.ports[l] = p

\* nc_stream_manager_get_ephemeral_stream_port: a number that is not in use, or none when all ten
\* tries hit one that is.
EphemeralStreamPort ==
    {p \in EphemeralPorts : ~PortInUse(p)} \cup {p \in {0} : \E q \in EphemeralPorts : PortInUse(q)}

\* Mutant of AddListener: what a port stands for is left to the first listener in the list.
AddListenerTwice(l, p) == IF p = 0 THEN "UNKNOWN" ELSE "OK"

\* nc_stream_manager_add_listener: the code. p is 0 when there was no ephemeral port.
AddListener(l, p) == IF p = 0 THEN "UNKNOWN" ELSE IF PortInUse(p) THEN "OPERATION_IN_PROGRESS" ELSE "OK"

\* The part the two calls below share, with the mutex: nabto_device_listener_init, which never fails,
\* and the listener is added; the error returns without unlocking.
InitListenerWith(u, l, p) ==
    IF AddListener(l, p) # "OK" THEN [spo EXCEPT !.mutex = u, !.isInitialized = @ \cup {l}]
    ELSE [spo EXCEPT !.isInitialized = @ \cup {l}, !.ports[l] = p]

\* The call returns.
Returned(u, s) == [s EXCEPT !.call[u] = << >>]

\* nabto_device_stream_init_listener.
StreamInitListener(u) ==
    /\ spo.mutex = "free" /\ spo.call[u] # << >> /\ spo.call[u][1] = "listen"
    /\ spo' = Returned(u, InitListenerWith(u, spo.call[u][2], spo.call[u][3]))

\* nabto_device_stream_init_listener_ephemeral.
StreamInitListenerEphemeral(u) ==
    /\ spo.mutex = "free" /\ spo.call[u] # << >> /\ spo.call[u][1] = "ephemeral"
    /\ \E p \in EphemeralStreamPort : spo' = Returned(u, InitListenerWith(u, spo.call[u][2], p))

\* nabto_device_listener_stop, which takes the listener out of the manager's list
\* (nc_stream_manager_remove_listener), and the user frees it.
PortListenerStop(u) ==
    /\ spo.mutex = "free" /\ spo.call[u] # << >> /\ spo.call[u][1] = "stop"
    /\ spo' = Returned(u, [spo EXCEPT !.ports[spo.call[u][2]] = 0, !.isInitialized = @ \ {spo.call[u][2]}])

\* A user calls; a listener is one user's at a time, and is initialised once before it is stopped.
PortCall(u, c) ==
    /\ spo.call[u] = << >> /\ (c[1] = "stop") = (c[2] \in spo.isInitialized)
    /\ \A v \in PortUsers : spo.call[v] # << >> => spo.call[v][2] # c[2]
    /\ spo' = [spo EXCEPT !.call[u] = c]

\* nc_stream_manager_alloc_send_segment: no more than the limit, and the memory may be short.
AllocSendSegment(memory) ==
    /\ spo.mutex = "free" /\ spo.live["send"] < MaxLive
    /\ spo' = IF spo.allocated >= spo.max \/ ~memory THEN spo
              ELSE [spo EXCEPT !.allocated = @ + 1, !.live["send"] = @ + 1]

\* nc_stream_manager_free_send_segment.
FreeSendSegment ==
    /\ spo.mutex = "free" /\ spo.live["send"] > 0
    /\ spo' = [spo EXCEPT !.allocated = @ - 1, !.live["send"] = @ - 1]

\* nc_stream_manager_alloc_recv_segment.
AllocRecvSegment(memory) ==
    /\ spo.mutex = "free" /\ spo.live["recv"] < MaxLive
    /\ spo' = IF spo.allocated >= spo.max \/ ~memory THEN spo
              ELSE [spo EXCEPT !.allocated = @ + 1, !.live["recv"] = @ + 1]

\* nc_stream_manager_free_recv_segment.
FreeRecvSegment ==
    /\ spo.mutex = "free" /\ spo.live["recv"] > 0
    /\ spo' = [spo EXCEPT !.allocated = @ - 1, !.live["recv"] = @ - 1]

\* nc_stream_manager_set_max_segments: also below what is allocated.
SetMaxSegments(n) == spo.mutex = "free" /\ spo.max # n /\ spo' = [spo EXCEPT !.max = n]

PortsRun(u) == StreamInitListener(u) \/ StreamInitListenerEphemeral(u) \/ PortListenerStop(u)

PortsNext ==
    \/ \E u \in PortUsers : PortsRun(u) \/ \E c \in Calls : PortCall(u, c)
    \/ \E memory \in BOOLEAN : AllocSendSegment(memory) \/ AllocRecvSegment(memory)
    \/ FreeSendSegment \/ FreeRecvSegment \/ (\E n \in {1, MaxLive} : SetMaxSegments(n))

\* A thread that waits for the mutex gets it when it is free again and again.
PortsSpec == PortsInit /\ [][PortsNext]_spo /\ \A u \in PortUsers : SF_spo(PortsRun(u))

\* A port leads to one listener (nc_stream_manager_ready_for_accept gives a stream to the first one
\* with its port), whatever users ask for fixed and ephemeral ports at the same time; and the
\* count of segments is that of the segments the streams hold, through failed allocations and a
\* limit that is lowered below it.
PortsAndSegments ==
    /\ PortsTypeOK
    /\ \A l, k \in PortListeners : l # k /\ spo.ports[l] # 0 => spo.ports[l] # spo.ports[k]
    /\ spo.allocated = spo.live["send"] + spo.live["recv"]

\* "NABTO_DEVICE_EC_OPERATION_IN_PROGRESS if the port number has an active listener": a caller that
\* is told so goes on, and so does everybody else; every call on the device returns.
PortCallsReturn == \A u \in PortUsers : spo.call[u] # << >> ~> spo.call[u] = << >>
=============================================================================
