---------------------------- MODULE ErrorReporting ----------------------------
(***************************************************************************)
(* The middleware of cmd/gateway/main.go that sends the errors of handlers  *)
(* to Sentry.  It assigns the error to the variable err of main, which all  *)
(* requests share, and reads it three times.  The accesses are not          *)
(* synchronised: each read may see the assignment of another request.       *)
(***************************************************************************)
CONSTANT Request   \* requests that are served at the same time

\* What the handler of a request returns: nil, which is the same value for all,
\* or an error of its own: a 404, a broken connection to a backend ("proxy raw,
\* copy body error="), or another one.
Nil        == [kind |-> "none"]
Outcome(p) == {Nil} \cup [of : {p}, kind : {"404", "copy", "error"}]

VARIABLES
    pc,
    own,       \* what the handler of a request returned
    err,       \* the shared variable
    captured,  \* what was sent to Sentry while serving the request
    returned   \* what the middleware returned to its caller

vars == <<pc, own, err, captured, returned>>

Init ==
    /\ pc = [p \in Request |-> "new"]
    /\ own = [p \in Request |-> Nil]
    /\ err = Nil
    /\ captured = [p \in Request |-> {}]
    /\ returned = [p \in Request |-> Nil]

Goto(p, label) == pc' = [pc EXCEPT ![p] = label]

\* The errors that are worth a report.
SendErrorToSentry(e) == e.kind \notin {"none", "404", "copy"}

Arrive(p) ==
    /\ pc[p] = "new"
    /\ Goto(p, "next")
    /\ UNCHANGED <<own, err, captured, returned>>

\* err = next(c)
CallNext(p) ==
    /\ pc[p] = "next"
    /\ \E e \in Outcome(p) :
          /\ own' = [own EXCEPT ![p] = e]
          /\ err' = e
    /\ Goto(p, "send")
    /\ UNCHANGED <<captured, returned>>

CheckSend(p) ==
    /\ pc[p] = "send"
    /\ Goto(p, IF SendErrorToSentry(err) THEN "capture" ELSE "return")
    /\ UNCHANGED <<own, err, captured, returned>>

Capture(p) ==
    /\ pc[p] = "capture"
    /\ captured' = [captured EXCEPT ![p] = @ \cup {err}]
    /\ Goto(p, "return")
    /\ UNCHANGED <<own, err, returned>>

Return(p) ==
    /\ pc[p] = "return"
    /\ returned' = [returned EXCEPT ![p] = err]
    /\ Goto(p, "done")
    /\ UNCHANGED <<own, err, captured>>

Next ==
    \E p \in Request :
        \/ Arrive(p)
        \/ CallNext(p)
        \/ CheckSend(p)
        \/ Capture(p)
        \/ Return(p)

Spec == Init /\ [][Next]_vars

----------------------------------------------------------------------------
(* Properties                                                               *)

\* "We need to manually send errors to Sentry" (cmd/gateway/main.go:90): when a
\* request has been served, an error of its handler that is worth a report was
\* sent to Sentry once, for this request, and went to its caller, who makes the
\* response of it; and nothing else was sent for this request.
OwnErrorReported ==
    \A p \in Request : pc[p] = "done" =>
        IF SendErrorToSentry(own[p]) THEN captured[p] = {own[p]} /\ returned[p] = own[p]
        ELSE captured[p] = {}
=============================================================================
