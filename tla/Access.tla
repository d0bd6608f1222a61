------------------------------- MODULE Access -------------------------------
(****************************************************************************************)
(* Who may do what: authorization requests, password authentication, policies and       *)
(* the identity and access management of the TCP tunnel application, and the calls that *)
(* configure a device, checked side by side as in Services.                             *)
(****************************************************************************************)
EXTENDS Authorization, Password, Iam, DeviceApi

VARIABLE which

vars == <<which, aut, pwd, pol, iam, api>>

\* A component that rests has one of its initial states, whichever.
Init ==
    /\ which \in {"authorization", "password", "policies", "iam", "device api"}
    /\ AuthorizationInit /\ PasswordInit /\ PoliciesInit /\ IamInit /\ ApiInit
    /\ which = "iam" \/ iam.file["iam"] = [is |-> "none"]

Next ==
    \/ which = "authorization" /\ AuthorizationNext /\ UNCHANGED <<which, pwd, pol, iam, api>>
    \/ which = "password" /\ PasswordNext /\ UNCHANGED <<which, aut, pol, iam, api>>
    \/ which = "policies" /\ PoliciesNext /\ UNCHANGED <<which, aut, pwd, iam, api>>
    \/ which = "iam" /\ IamNext /\ UNCHANGED <<which, aut, pwd, pol, api>>
    \/ which = "device api" /\ ApiNext /\ UNCHANGED <<which, aut, pwd, pol, iam>>

\* Events run; the application listens while it has a listener, and frees what it
\* has been given, as nabto_device.h asks of it.
AuthorizationFairness ==
    /\ \A r \in AuthRequests : /\ WF_aut(which = "authorization" /\ HandleVerdict(r))
                               /\ WF_aut(which = "authorization" /\ AuthRequestFree(r))
    /\ WF_aut(which = "authorization" /\ NewAuthorizationRequest)

Spec == Init /\ [][Next]_vars /\ AuthorizationFairness

\* The numbers that the literals of the policies are read as (strtol).
MCNumericOf == [l \in {"1", "01", "2"} |-> IF l = "2" THEN 2 ELSE 1]

\* Names of two lengths, so that one may be set over the other.
MCAppNames == {<<1>>, <<2, 3>>}
=============================================================================
