--------------------------- MODULE SocketContract ---------------------------
(***********************************************************************************)
(* What the core may rely on in a platform's sockets (platform/interfaces/np_udp.h *)
(* and np_tcp.h), whatever module implements them: an operation that is started    *)
(* completes at most once, with one error code, which its callback gets; abort     *)
(* completes what is outstanding. SelectUnix and Libevent implement it, Tunnel and *)
(* Device are written against it.                                                  *)
(*                                                                                 *)
(*   outstanding   operations that were started and are not completed              *)
(*   result        the code of a completion whose callback has not run, or "none"  *)
(*   aborted       operations of sockets that are aborted or destroyed             *)
(***********************************************************************************)
CONSTANTS SocketOps, ErrorCodes

VARIABLES outstanding, result, aborted

ContractInit ==
    /\ outstanding = {} /\ aborted = {}
    /\ result = [o \in SocketOps |-> "none"]

\* async_...: the operation is under way, or it has completed at once.
StartOp(o) ==
    /\ o \notin outstanding /\ result[o] = "none"
    /\ outstanding' = outstanding \cup {o} /\ UNCHANGED <<result, aborted>>

StartDone(o, ec) ==
    /\ o \notin outstanding /\ result[o] = "none"
    /\ result' = [result EXCEPT ![o] = ec] /\ UNCHANGED <<outstanding, aborted>>

\* Operations under way complete, each once.
CompleteOps(ops, ecs) ==
    /\ ops # {} /\ ops \subseteq outstanding /\ \A o \in ops : result[o] = "none"
    /\ outstanding' = outstanding \ ops
    /\ result' = [o \in SocketOps |-> IF o \in ops THEN ecs[o] ELSE result[o]]
    /\ UNCHANGED aborted

\* The core runs the callback.
CallbackOp(o) ==
    /\ result[o] # "none"
    /\ result' = [result EXCEPT ![o] = "none"] /\ UNCHANGED <<outstanding, aborted>>

\* abort, for the operations of a socket.
AbortOps(ops) ==
    /\ aborted' = aborted \cup ops /\ outstanding' = outstanding \ ops
    /\ result' = [o \in SocketOps |-> IF o \in ops \cap outstanding THEN "ABORTED" ELSE result[o]]

\* A completion that was taken before the abort comes after it.
LateOp(o, ec) ==
    /\ o \in aborted
    /\ result' = [result EXCEPT ![o] = ec] /\ UNCHANGED <<outstanding, aborted>>

\* destroy: nothing of the socket is outstanding or to be called.
DestroyOps(ops) ==
    /\ aborted' = aborted \cup ops /\ outstanding' = outstanding \ ops
    /\ result' = [o \in SocketOps |-> IF o \in ops THEN "none" ELSE result[o]]

ContractNext ==
    \/ \E o \in SocketOps : StartOp(o) \/ CallbackOp(o)
    \/ \E o \in SocketOps, ec \in ErrorCodes : StartDone(o, ec) \/ LateOp(o, ec)
    \/ \E ops \in SUBSET SocketOps : AbortOps(ops) \/ DestroyOps(ops)
    \/ \E ops \in SUBSET outstanding, ec \in ErrorCodes : CompleteOps(ops, [o \in ops |-> ec])

ContractSpec ==
    ContractInit /\ [][ContractNext]_<<outstanding, result, aborted>>
=============================================================================
