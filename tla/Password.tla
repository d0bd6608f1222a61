------------------------------- MODULE Password -------------------------------
(******************************************************************************)
(* Password authentication: the two CoAP resources of nc_spake2_coap, the key *)
(* exchange of nc_spake2 and the listener of                                  *)
(* nabto_device_password_authentication through which the application gives   *)
(* the password of a user. The application answers when it likes, and the     *)
(* connection that asked may be gone by then, its slot taken by another.      *)
(* Keys are not computed: a key is the request it was agreed on with, and     *)
(* the client has it too when both sides used the same password.              *)
(******************************************************************************)
EXTENDS Naturals, Sequences

CONSTANTS
    PasswordRequests,       \* key exchanges, in the order they are made
    MaxAttempts,            \* NC_SPAKE2_MAX_PASSWORD_AUTHENTICATION_REQUESTS
    MaxConnections          \* connections that use the slot one after the other

ASSUME PasswordAssumption ==
    PasswordRequests \subseteq Nat \ {0} /\ MaxAttempts \in Nat /\ MaxConnections \in Nat

VARIABLE pwd

Answers == {"none", "pending", "2.01", "4.00", "4.01", "4.04", "4.29", "5.00"}

(***************************************************************************)
(* The slot of a connection, the listener and the requests.                  *)
(*   conn      the connection in the slot, counted from 1, 0 for none        *)
(*   attempts  passwordAuthenticationRequests (stops at MaxAttempts + 1)     *)
(*   key       the request of spake2Key, 0 while there is none               *)
(*   handler   passwordRequestHandler is set                                *)
(*   req       of each request: its connection (0 once that is removed),     *)
(*             where it is, the answer, whether both sides have the password *)
(* by, proven and authenticated are history: the connection of a request; the *)
(* answers of the connection that told the client if it had the right         *)
(* password; the connections on which it had.                              *)
(***************************************************************************)
PasswordTypeOK ==
    /\ pwd.conn \in 0..MaxConnections /\ pwd.opened \in 0..MaxConnections
    /\ pwd.attempts \in 0..(MaxAttempts + 1) /\ pwd.key \in {0} \cup PasswordRequests
    /\ pwd.handler \in BOOLEAN /\ pwd.fut \in BOOLEAN /\ pwd.queue \in Seq(PasswordRequests)
    /\ pwd.req \in [PasswordRequests ->
         [of: 0..MaxConnections, by: 0..MaxConnections,
          at: {"none", "listed", "app", "handled", "gone"}, answer: Answers, same: BOOLEAN]]
    /\ pwd.proven \in Nat /\ pwd.authenticated \subseteq 1..MaxConnections

\* nc_spake2_init, nc_spake2_coap_init.
PasswordInit ==
    pwd = [conn |-> 0, opened |-> 0, attempts |-> 0, key |-> 0, handler |-> FALSE,
           fut |-> FALSE, queue |-> << >>, proven |-> 0, authenticated |-> {},
           req |-> [r \in PasswordRequests |->
             [of |-> 0, by |-> 0, at |-> "none", answer |-> "none", same |-> FALSE]]]

\* A connection takes the slot (nc_client_connection_open clears it) or leaves it
\* (nc_coap_server_remove_connection).
ConnectionOpens ==
    /\ pwd.conn = 0 /\ pwd.opened < MaxConnections
    /\ pwd' = [pwd EXCEPT !.conn = pwd.opened + 1, !.opened = @ + 1, !.attempts = 0,
                          !.key = 0, !.proven = 0]

ConnectionLeaves ==
    /\ pwd.conn # 0
    /\ pwd' = [pwd EXCEPT !.conn = 0, !.req = [r \in PasswordRequests |->
                 [pwd.req[r] EXCEPT !.of = 0]]]

\* passwordAuthenticationRequests++.
Counted(p) == [p EXCEPT !.attempts = IF @ > MaxAttempts THEN @ ELSE @ + 1]

\* nabto_device_listener_try_resolve of the password listener.
PasswordTryResolve(p) ==
    IF ~p.fut \/ p.queue = << >> THEN p
    ELSE [p EXCEPT !.fut = FALSE, !.queue = Tail(@), !.req[Head(p.queue)].at = "app"]

\* password_request_handler: without memory the request is dropped.
PasswordRequestHandler(p, r, memory) ==
    IF memory THEN PasswordTryResolve([p EXCEPT !.queue = Append(@, r), !.req[r].at = "listed"])
    ELSE [p EXCEPT !.req[r].at = "gone"]

\* nc_spake2_handle_coap_1: readable says if read_username_and_password finds what the
\* resource expects (and there is memory for the request).
HandleCoap1(r, readable, memory) ==
    /\ pwd.conn # 0 /\ pwd.req[r].at = "none"
    /\ \A q \in PasswordRequests : q < r => pwd.req[q].at # "none"
    /\ LET p == [Counted(pwd) EXCEPT !.req[r] =
                    [@ EXCEPT !.of = pwd.conn, !.by = pwd.conn, !.at = "gone", !.answer =
                       IF ~pwd.handler THEN "4.04"
                       ELSE IF Counted(pwd).attempts > MaxAttempts THEN "4.29"
                       ELSE IF ~readable THEN "4.00" ELSE "pending"]]
       IN  pwd' = IF p.req[r].answer = "pending" THEN PasswordRequestHandler(p, r, memory) ELSE p

\* calculateKey overwrites spake2Key, also when it fails. The client has the key too
\* when it works and the passwords are the same; without a password a random one is used.
CalculateKey(p, r, same, works) ==
    [p EXCEPT !.key = IF works \/ @ # 0 THEN r ELSE 0, !.req[r].same = same /\ works]

\* nc_spake2_password_ready: a request whose connection is gone gets an error.
PasswordReady(p, r, same, works) ==
    IF p.req[r].of = 0 THEN [p EXCEPT !.req[r].answer = "5.00", !.req[r].at = "handled"]
    ELSE [CalculateKey(p, r, same, works) EXCEPT
             !.req[r].answer = IF works THEN "2.01" ELSE "5.00", !.req[r].at = "handled"]

\* nabto_device_password_authentication_request_set_password.
SetPassword(r, same, works) ==
    /\ pwd.req[r].at = "app"
    /\ pwd' = PasswordReady(pwd, r, same, works)

\* nabto_device_password_authentication_request_free.
PasswordRequestFree(r, works) ==
    /\ pwd.req[r].at \in {"app", "handled"}
    /\ LET p == IF pwd.req[r].at = "app" THEN PasswordReady(pwd, r, FALSE, works) ELSE pwd IN
       pwd' = [p EXCEPT !.req[r].at = "gone"]

\* Comparison of the client's confirmation of request r with the key.
Confirmed(p, r) ==
    IF ~p.handler \/ p.attempts > MaxAttempts \/ r = 0 \/ p.key = 0 THEN p
    ELSE [p EXCEPT !.proven = @ + 1,
                   !.authenticated = IF p.key = r /\ p.req[r].same THEN @ \cup {p.conn} ELSE @]

\* The client confirms an exchange of its connection, or sends no hash (0).
Confirms(r) == pwd.conn # 0 /\ (r # 0 => pwd.req[r].by = pwd.conn /\ pwd.req[r].answer = "2.01")

\* Mutant of HandleCoap2: a confirmation is not an attempt.
HandleCoap2Uncounted(r) == Confirms(r) /\ pwd.proven <= MaxAttempts /\ pwd' = Confirmed(pwd, r)

\* nc_spake2_handle_coap_2: the client's hash is compared with that of the last key.
HandleCoap2(r) == Confirms(r) /\ pwd' = Confirmed(Counted(pwd), r)

\* nabto_device_password_authentication_request_init_listener.
PasswordInitListener ==
    /\ ~pwd.handler
    /\ pwd' = [pwd EXCEPT !.handler = TRUE]

\* nabto_device_listener_new_password_authentication_request.
NewPasswordRequest ==
    /\ pwd.handler /\ ~pwd.fut
    /\ pwd' = PasswordTryResolve([pwd EXCEPT !.fut = TRUE])

\* nabto_device_listener_stop, with
\* nabto_device_password_authentication_listener_resolve_event: what is queued is
\* forgotten, and the handler is cleared.
PasswordListenerStop ==
    /\ pwd.handler
    /\ pwd' = [pwd EXCEPT !.handler = FALSE, !.fut = FALSE, !.queue = << >>]

PasswordNext ==
    \/ ConnectionOpens \/ ConnectionLeaves
    \/ \E r \in PasswordRequests :
         \/ \E readable, memory \in BOOLEAN : HandleCoap1(r, readable, memory)
         \/ \E same, works \in BOOLEAN : SetPassword(r, same, works)
         \/ \E works \in BOOLEAN : PasswordRequestFree(r, works)
    \/ \E r \in {0} \cup PasswordRequests : HandleCoap2(r)
    \/ PasswordInitListener \/ NewPasswordRequest \/ PasswordListenerStop

\* The key of a connection was agreed on in an exchange of that very connection, though
\* the application may give the password after the connection has left its slot to
\* another one.
KeyOfThisConnection == pwd.conn # 0 /\ pwd.key # 0 => pwd.req[pwd.key].by = pwd.conn

\* A client learns at most MaxAttempts times on one connection whether it has the
\* right password, key exchanges and confirmations counted together, and a key of its
\* connection is its own (KeyOfThisConnection).
AttemptsLimited ==
    /\ PasswordTypeOK /\ KeyOfThisConnection
    /\ pwd.conn # 0 => pwd.proven + (IF pwd.key = 0 THEN 0 ELSE 1) <= MaxAttempts
=============================================================================
