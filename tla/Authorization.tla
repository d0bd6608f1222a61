---------------------------- MODULE Authorization ----------------------------
(*****************************************************************************)
(* Authorization requests (nabto_device_authorization and its listener). The *)
(* core, the platform side, creates a request and asks for access; the       *)
(* application, the API side, gets it from a listener, gives a verdict and   *)
(* frees it. The verdict reaches the core through an event, so that either   *)
(* side may be the last to let go of the request.                            *)
(*****************************************************************************)
EXTENDS Naturals, Sequences

CONSTANT AuthRequests \* the requests

VARIABLE aut

(***************************************************************************)
(* struct nabto_device_authorization_request and the module.                 *)
(*   at        where the request is: "none", "core" (being made), "listed",  *)
(*             "app", or "gone" from the application                         *)
(*   event     verdictEvent is in the event queue                           *)
(* said, heard, called, freed and lost are history: the first verdict given, *)
(* the one the core heard, how often it did, how often the request was freed, *)
(* and that it was in the queue of a listener that was stopped.              *)
(***************************************************************************)
AuthorizationTypeOK ==
    /\ aut.req \in [AuthRequests ->
         [at: {"none", "core", "listed", "app", "gone"}, apiDone: BOOLEAN,
          platformDone: BOOLEAN, verdictDone: BOOLEAN, verdict: BOOLEAN, event: BOOLEAN,
          said: {"nothing", "yes", "no"}, heard: {"nothing", "yes", "no"}, called: 0..2,
          freed: 0..2, lost: BOOLEAN]]
    /\ aut.queue \in Seq(AuthRequests) /\ aut.fut \in BOOLEAN
    /\ aut.listener \in {"none", "open", "stopped"}

\* nabto_device_authorization_init_module.
AuthorizationInit ==
    aut = [queue |-> << >>, fut |-> FALSE, listener |-> "none",
           req |-> [r \in AuthRequests |->
             [at |-> "none", apiDone |-> FALSE, platformDone |-> FALSE, verdictDone |-> FALSE,
              verdict |-> FALSE, event |-> FALSE, said |-> "nothing", heard |-> "nothing",
              called |-> 0, freed |-> 0, lost |-> FALSE]]]

Word(verdict) == IF verdict THEN "yes" ELSE "no"

\* free_request_when_unused.
FreeWhenUnused(q) == [q EXCEPT !.freed = @ + 1, !.event = FALSE]

\* Mutant of DoVerdict: a second verdict replaces the first.
DoVerdictAgain(q, verdict) ==
    [q EXCEPT !.verdict = verdict, !.verdictDone = TRUE, !.event = TRUE,
              !.said = IF @ = "nothing" THEN Word(verdict) ELSE @]

\* do_verdict.
DoVerdict(q, verdict) ==
    IF q.verdictDone THEN q
    ELSE [q EXCEPT !.verdict = verdict, !.verdictDone = TRUE, !.event = TRUE,
                   !.said = Word(verdict)]

\* nabto_device_authorization_listener_callback through
\* nabto_device_listener_try_resolve.
AuthTryResolve(a) ==
    IF ~a.fut \/ a.queue = << >> THEN a
    ELSE [a EXCEPT !.fut = FALSE, !.queue = Tail(@), !.req[Head(a.queue)].at = "app"]

\* create_request.
CreateRequest(r) ==
    /\ aut.req[r].at = "none"
    /\ aut' = [aut EXCEPT !.req[r] = [@ EXCEPT !.at = "core", !.apiDone = TRUE]]

\* discard_request: the core gives up before it asks, for want of memory for the
\* attributes of the request.
DiscardRequest(r) ==
    /\ aut.req[r].at = "core"
    /\ LET q == [aut.req[r] EXCEPT !.at = "gone", !.platformDone = TRUE] IN
       aut' = [aut EXCEPT !.req[r] = IF q.apiDone THEN FreeWhenUnused(q) ELSE q]

\* check_access.
AskAccess(r) ==
    /\ aut.req[r].at = "core"
    /\ LET q == [aut.req[r] EXCEPT !.apiDone = FALSE] IN
       aut' = IF aut.listener = "open"
              THEN AuthTryResolve([aut EXCEPT !.req[r] = [q EXCEPT !.at = "listed"],
                                              !.queue = Append(@, r)])
              ELSE [aut EXCEPT !.req[r] =
                      DoVerdict([q EXCEPT !.at = "gone", !.apiDone = TRUE], FALSE)]

\* handle_verdict.
HandleVerdict(r) ==
    /\ aut.req[r].event
    /\ LET q == [aut.req[r] EXCEPT !.event = FALSE, !.heard = Word(aut.req[r].verdict),
                                   !.called = @ + 1, !.platformDone = TRUE]
       IN  aut' = [aut EXCEPT !.req[r] = IF q.apiDone THEN FreeWhenUnused(q) ELSE q]

\* nabto_device_authorization_request_verdict.
AuthRequestVerdict(r, verdict) ==
    /\ aut.req[r].at = "app"
    /\ aut' = [aut EXCEPT !.req[r] = DoVerdict(@, verdict)]

\* nabto_device_authorization_request_free: a request without a verdict is denied.
AuthRequestFree(r) ==
    /\ aut.req[r].at = "app"
    /\ LET q == [DoVerdict(aut.req[r], FALSE) EXCEPT !.at = "gone", !.apiDone = TRUE] IN
       aut' = [aut EXCEPT !.req[r] = IF q.platformDone THEN FreeWhenUnused(q) ELSE q]

\* nabto_device_authorization_request_init_listener.
AuthInitListener ==
    /\ aut.listener = "none"
    /\ aut' = [aut EXCEPT !.listener = "open"]

\* nabto_device_listener_new_authorization_request.
NewAuthorizationRequest ==
    /\ aut.listener = "open" /\ ~aut.fut
    /\ aut' = AuthTryResolve([aut EXCEPT !.fut = TRUE])

\* nabto_device_listener_stop: the callback does nothing for what is queued.
AuthListenerStop ==
    /\ aut.listener = "open"
    /\ aut' = [aut EXCEPT !.listener = "stopped", !.fut = FALSE, !.queue = << >>,
                          !.req = [r \in AuthRequests |->
                             [aut.req[r] EXCEPT !.lost = @ \/ aut.req[r].at = "listed"]]]

AuthorizationNext ==
    \/ \E r \in AuthRequests :
         \/ CreateRequest(r) \/ DiscardRequest(r) \/ AskAccess(r) \/ HandleVerdict(r)
         \/ \E verdict \in BOOLEAN : AuthRequestVerdict(r, verdict)
         \/ AuthRequestFree(r)
    \/ AuthInitListener \/ NewAuthorizationRequest \/ AuthListenerStop

\* The core hears one verdict at most, and it is the first that was given, though the
\* application may give several before and after the event has run, or free the
\* request in between.
VerdictStands ==
    \A r \in AuthRequests :
        aut.req[r].called <= 1 /\ (aut.req[r].called = 1 => aut.req[r].heard = aut.req[r].said)

\* A request is freed once, when neither the application nor an event still refers to
\* it.
FreedOnceUnused ==
    \A r \in AuthRequests :
        aut.req[r].freed > 0 =>
            aut.req[r].freed = 1 /\ aut.req[r].at = "gone" /\ ~aut.req[r].event

\* Access that was asked for is granted or denied in the end, and the request is
\* freed, unless it was in the queue of a listener that was stopped; the verdict that is
\* heard is the first one given, and nobody is left with a freed request.
AccessAnswered ==
    /\ [](AuthorizationTypeOK /\ VerdictStands /\ FreedOnceUnused)
    /\ \A r \in AuthRequests :
         aut.req[r].at = "listed" ~> aut.req[r].lost \/ (aut.req[r].called = 1 /\ aut.req[r].freed = 1)
=============================================================================
