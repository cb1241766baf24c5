---------------------------- MODULE SoapTransport ----------------------------
(***************************************************************************)
(* onvif/soap_client.cpp and OnvifClient::PostOperation: how one camera's  *)
(* SOAP operations reach it.                                               *)
(*                                                                         *)
(* Worker keeps a SoapPool per camera: one connection, which the threads   *)
(* take in turn, and the authentication mode that each service accepted.   *)
(* An operation of an unknown mode is sent as WS-Security and, when that   *)
(* is rejected, as HTTP Basic; a request that fails on the pooled          *)
(* connection is sent once more on a fresh one.  The operations of the PTZ *)
(* control thread carry an AbortHandle, by which another thread closes the *)
(* request under them.                                                     *)
(*                                                                         *)
(* WinHTTP and the camera are external.  A request handle is a value that  *)
(* WinHTTP gives out again once it is closed; closing a value nobody holds *)
(* does nothing, and a call that uses a handle closed under it fails.      *)
(***************************************************************************)
EXTENDS Naturals, FiniteSets

CONSTANTS
  Threads,     (* those with operations for the camera                       *)
  Control,     (* the PTZ control thread, whose operations can be aborted    *)
  Services,    (* service URLs of the camera                                 *)
  Handles,     (* values of request handles                                  *)
  None,        (* no handle                                                  *)
  AllowBasic,  (* BOOLEAN: allowBasicFallback_                               *)
  MaxCalls,    (* bound on the operations of each thread                     *)
  MaxChanges   (* bound on changes of settings and credentials               *)

ASSUME TransportAssumption ==
  /\ Control \in Threads /\ None \notin Handles \cup Threads
  /\ AllowBasic \in BOOLEAN
  /\ MaxCalls \in Nat /\ MaxChanges \in Nat

Modes == {"wsse", "basic"}

VARIABLES
  keepalive, authCache,  (* SoapPool's settings                              *)
  login,      (* modes in which the camera accepts the credentials it is
                 given                                                       *)
  conn,       (* the pooled connection: open, and in use                     *)
  auth,       (* auth_: the mode remembered for each service                 *)
  met,        (* services that have accepted an operation, with the mode to be
                 remembered (history)                                        *)
  call,       (* the operation of each thread                                *)
  abort,      (* the AbortHandle of the control thread's operation           *)
  closing,    (* handle that Signal has taken and not closed yet             *)
  handles,    (* whose request each handle is                                *)
  calls, changes

settings == <<keepalive, authCache>>
vars == <<settings, login, conn, auth, met, call, abort, closing, handles, calls, changes>>

NoCall ==
  [at |-> "idle", service |-> None, mode |-> "wsse", unknown |-> FALSE,
   attempt |-> 0, pooled |-> FALSE, handle |-> None, answer |-> "none",
   first |-> TRUE, sent |-> 0, served |-> 0, calm |-> TRUE]

\* The handle is a local of PtzController's Dispatch, for one operation.
NoAbort == [signaled |-> FALSE, request |-> None]

Init ==
  /\ keepalive = TRUE /\ authCache = TRUE
  /\ login \in SUBSET Modes
  /\ conn = [open |-> FALSE, inUse |-> FALSE]
  /\ auth = [s \in Services |-> "unknown"] /\ met = {}
  /\ call = [t \in Threads |-> NoCall]
  /\ abort = NoAbort
  /\ closing = None /\ handles = [h \in Handles |-> None]
  /\ calls = [t \in Threads |-> 0] /\ changes = 0

At(t, place) == call[t].at = place
Goes(t, c)   == call' = [call EXCEPT ![t] = c]
Aborted(t)   == t = Control /\ abort.signaled
Owns(t)      == call[t].handle # None /\ handles[call[t].handle] = t

\* A round trip was completed (transportOk), or not.
Answers   == {"ok", "rejected", "refused", "error"}
Delivered(c) == c.answer \in Answers

\* Send: on the pooled connection, or on one of its own (SendPerCall).
Sending(c, mode) ==
  [c EXCEPT !.at = IF keepalive THEN "acquire" ELSE "request",
            !.pooled = keepalive, !.mode = mode, !.attempt = 0,
            !.answer = "none"]

\* Requests and executions are counted as long as nothing disturbs the call.
Disturb(c) == [c EXCEPT !.calm = FALSE, !.sent = 0, !.served = 0]
Fail(c)    == [Disturb(c) EXCEPT !.answer = "failed"]
Sent(c)    == [c EXCEPT !.at = "flight", !.sent = IF c.calm THEN @ + 1 ELSE 0]

-----------------------------------------------------------------------------
(* PostOperation: which mode to send.                                      *)

\* A slip: what was learned is not used.
AuthForNothing(s) == "unknown"

AuthFor(s) == IF authCache THEN auth[s] ELSE "unknown"

\* With a mode known that one is sent, and no other.
Call(t, s) ==
  LET known == AuthFor(s)
  IN  /\ At(t, "idle") /\ calls[t] < MaxCalls
      /\ calls' = [calls EXCEPT ![t] = @ + 1]
      /\ Goes(t, Sending([NoCall EXCEPT !.service = s,
                             !.first = ~authCache \/ s \notin met,
                             !.unknown = AllowBasic /\ known = "unknown"],
                         IF AllowBasic /\ known = "basic" THEN "basic"
                         ELSE "wsse"))
      /\ UNCHANGED <<settings, login, conn, auth, met, abort, closing, handles, changes>>

\* A slip: every answer counts as accepted.
AcceptedAny(c) == Delivered(c)

\* Of the first attempt: neither a 401 nor a fault came back.
Accepted(c) == c.answer \in {"ok", "error"}

\* The mode found, if any, is remembered.
Remember(s, m) == auth' = IF authCache THEN [auth EXCEPT ![s] = m] ELSE auth

\* The operation returns the answer, or throws.
Returns(t) ==
  /\ Goes(t, NoCall)
  /\ met' = IF call[t].calm /\ call[t].answer = "ok" /\ authCache
            THEN met \cup {call[t].service} ELSE met
  /\ abort' = IF t = Control THEN NoAbort ELSE abort

\* Send has returned.
Decide(t) ==
  LET c == call[t]
  IN  /\ At(t, "replied")
      /\ \/ /\ c.unknown /\ c.mode = "wsse" /\ Accepted(c)
            /\ Remember(c.service, "wsse")
            /\ Returns(t)
         \/ /\ c.unknown /\ c.mode = "wsse" /\ ~Accepted(c) /\ ~Aborted(t)
            /\ Goes(t, Sending(c, "basic"))
            /\ UNCHANGED <<auth, met, abort>>
         \/ /\ c.unknown /\ c.mode = "basic" /\ Delivered(c)
            /\ Remember(c.service, "basic")
            /\ Returns(t)
         \/ /\ \/ ~c.unknown
               \/ c.mode = "wsse" /\ ~Accepted(c) /\ Aborted(t)
               \/ c.mode = "basic" /\ ~Delivered(c)
            /\ Returns(t)
            /\ UNCHANGED auth
      /\ UNCHANGED <<settings, login, conn, closing, handles, calls, changes>>

-----------------------------------------------------------------------------
(* Send, SendPooled, SendPerCall: which connection.                        *)

\* A slip: the connection is taken whoever uses it.
AcquireAtOnce(t) ==
  /\ At(t, "acquire")
  /\ conn' = [open |-> TRUE, inUse |-> TRUE]
  /\ Goes(t, [call[t] EXCEPT !.at = "request"])
  /\ UNCHANGED <<settings, login, auth, met, abort, closing, handles, calls, changes>>

\* Acquire, and OpenConnection unless it is open.
Acquire(t) ==
  /\ At(t, "acquire") /\ ~conn.inUse
  /\ conn' = [open |-> TRUE, inUse |-> TRUE]
  /\ Goes(t, [call[t] EXCEPT !.at = "request"])
  /\ UNCHANGED <<settings, login, auth, met, abort, closing, handles, calls, changes>>

\* No connection can be opened: Send gives up at once, with it released.
ConnectFails(t) ==
  /\ At(t, "acquire") /\ ~conn.inUse /\ ~conn.open
  /\ Goes(t, [Fail(call[t]) EXCEPT !.at = "replied"])
  /\ UNCHANGED <<settings, login, conn, auth, met, abort, closing, handles, calls, changes>>

Retries(t) ==
  call[t].pooled /\ ~Delivered(call[t]) /\ ~Aborted(t) /\ call[t].attempt = 0

\* DoRequest has returned, and the connection is left: once more, or done.
GoesOn(t) ==
  /\ At(t, "leave")
  /\ Goes(t, IF Retries(t)
             THEN [call[t] EXCEPT !.at = "acquire", !.attempt = @ + 1, !.answer = "none"]
             ELSE [call[t] EXCEPT !.at = "replied", !.attempt = 0])
  /\ UNCHANGED <<settings, login, auth, met, abort, closing, handles, calls, changes>>

\* A slip: the failed connection is closed and not released.
LeaveInUse(t) ==
  /\ conn' = IF ~call[t].pooled THEN conn
             ELSE IF Delivered(call[t]) THEN [conn EXCEPT !.inUse = FALSE]
             ELSE [conn EXCEPT !.open = FALSE]
  /\ GoesOn(t)

\* Release, after Close if the request failed.
Leave(t) ==
  /\ conn' = IF ~call[t].pooled THEN conn
             ELSE [inUse |-> FALSE, open |-> conn.open /\ Delivered(call[t])]
  /\ GoesOn(t)

-----------------------------------------------------------------------------
(* DoRequest.                                                              *)

OpenRequest(t) ==
  /\ At(t, "request")
  /\ \E h \in Handles :
       /\ handles[h] = None
       /\ handles' = [handles EXCEPT ![h] = t]
       /\ Goes(t, [call[t] EXCEPT !.handle = h,
                     !.at = IF t = Control THEN "attach" ELSE "check"])
  /\ UNCHANGED <<settings, login, conn, auth, met, abort, closing, calls, changes>>

\* There is no request, or no connection of its own.
RequestFails(t) ==
  /\ At(t, "request")
  /\ Goes(t, [Fail(call[t]) EXCEPT !.at = "leave"])
  /\ UNCHANGED <<settings, login, conn, auth, met, abort, closing, handles, calls, changes>>

\* A slip: the handle is not attached.
AttachNothing(t) ==
  /\ At(t, "attach")
  /\ Goes(t, [call[t] EXCEPT !.at = "check"])
  /\ UNCHANGED <<settings, login, conn, auth, met, abort, closing, handles, calls, changes>>

\* An aborted operation attaches nothing.
Attach(t) ==
  /\ At(t, "attach")
  /\ abort' = IF abort.signaled THEN abort
              ELSE [abort EXCEPT !.request = call[t].handle]
  /\ Goes(t, [call[t] EXCEPT !.at = "check"])
  /\ UNCHANGED <<settings, login, conn, auth, met, closing, handles, calls, changes>>

\* An aborted operation sends nothing.
CheckSend(t) ==
  /\ At(t, "check")
  /\ IF Aborted(t)
     THEN Goes(t, [Fail(call[t]) EXCEPT !.at = "ended"])
     ELSE Goes(t, Sent(call[t]))
  /\ UNCHANGED <<settings, login, conn, auth, met, abort, closing, handles, calls, changes>>

\* The camera answers: it carries out the operation, refuses it with a fault,
\* rejects its credentials (a 401 or a fault), or has some other error.
Serve(t, answer) ==
  /\ At(t, "flight") /\ call[t].answer = "none" /\ Owns(t)
  /\ call[t].mode \in login => answer # "rejected"
  /\ call[t].mode \notin login => answer \in {"rejected", "error"}
  /\ LET c == [call[t] EXCEPT !.answer = answer]
     IN  Goes(t, CASE answer = "ok" /\ c.calm -> [c EXCEPT !.served = @ + 1]
                   [] answer \in {"refused", "error"} -> Disturb(c)
                   [] OTHER -> c)
  /\ UNCHANGED <<settings, login, conn, auth, met, abort, closing, handles, calls, changes>>

Receive(t) ==
  /\ At(t, "flight") /\ Delivered(call[t]) /\ Owns(t)
  /\ Goes(t, [call[t] EXCEPT !.at = "ended"])
  /\ UNCHANGED <<settings, login, conn, auth, met, abort, closing, handles, calls, changes>>

\* The request, or its answer, is lost: the connection was stale, or broke,
\* or the camera is silent and the time is up.  So it is, at once, when the
\* handle was closed.
Breaks(t) ==
  /\ At(t, "flight")
  /\ Goes(t, [Fail(call[t]) EXCEPT !.at = "ended"])
  /\ UNCHANGED <<settings, login, conn, auth, met, abort, closing, handles, calls, changes>>
Lost(t)   == Owns(t) /\ Breaks(t)
Closed(t) == ~Owns(t) /\ Breaks(t)

\* Detach, and the handle is closed, whoever has its value by now.
EndRequest(t) ==
  /\ At(t, "ended")
  /\ abort' = IF t = Control THEN [abort EXCEPT !.request = None] ELSE abort
  /\ handles' = [handles EXCEPT ![call[t].handle] = None]
  /\ Goes(t, [call[t] EXCEPT !.at = "leave", !.handle = None])
  /\ UNCHANGED <<settings, login, conn, auth, met, closing, calls, changes>>

-----------------------------------------------------------------------------
(* Other threads.                                                          *)

\* AbortHandle::Signal, under its mutex,
Signal ==
  /\ call[Control].at # "idle" /\ ~abort.signaled /\ closing = None
  /\ abort' = [signaled |-> TRUE, request |-> None]
  /\ closing' = abort.request
  /\ call' = [call EXCEPT ![Control] = Disturb(@)]
  /\ UNCHANGED <<settings, login, conn, auth, met, handles, calls, changes>>

\* and after it.
SignalCloses ==
  /\ closing # None
  /\ handles' = [handles EXCEPT ![closing] = None] /\ closing' = None
  /\ UNCHANGED <<settings, login, conn, auth, met, call, abort, calls, changes>>

Change == changes < MaxChanges /\ changes' = changes + 1

\* Worker::SetPtzTransport.
SetPtzTransport ==
  /\ Change
  /\ keepalive' \in BOOLEAN /\ authCache' \in BOOLEAN
  /\ settings' # settings
  /\ UNCHANGED <<login, conn, auth, met, call, abort, closing, handles, calls>>

\* Credentials become wrong or right, here or in the camera.
LoginChanges ==
  /\ Change
  /\ IF login = {} THEN login' \in SUBSET Modes \ {{}} ELSE login' = {}
  /\ call' = [t \in Threads |->
              IF At(t, "idle") THEN call[t] ELSE Disturb(call[t])]
  /\ UNCHANGED <<settings, conn, auth, met, abort, closing, handles, calls>>

Step(t) ==
  \/ Decide(t) \/ Acquire(t) \/ Leave(t)
  \/ OpenRequest(t) \/ Attach(t) \/ CheckSend(t) \/ Receive(t) \/ Closed(t)
  \/ EndRequest(t)

Next ==
  \/ \E t \in Threads :
       \/ \E s \in Services : Call(t, s)
       \/ Step(t) \/ ConnectFails(t) \/ RequestFails(t) \/ Lost(t)
       \/ \E answer \in Answers : Serve(t, answer)
  \/ Signal \/ SignalCloses \/ SetPtzTransport \/ LoginChanges

Spec == Init /\ [][Next]_vars

\* Threads run; neither an answer nor a timeout is granted.
Fairness == WF_vars(SignalCloses) /\ \A t \in Threads : WF_vars(Step(t))

FairSpec == Spec /\ Fairness

-----------------------------------------------------------------------------
(* Properties.                                                             *)

\* "A connection is handed to exactly one caller at a time", and is free when
\* nobody has it (soap_client.h).
Users == {t \in Threads :
            /\ call[t].pooled
            /\ call[t].at \in {"request", "attach", "check", "flight",
                               "ended", "leave"}}
OneUser == Cardinality(Users) <= 1 /\ (conn.inUse <=> Users # {})

\* Whether the operation's mode, or the negotiation, can end well.
Viable(c) == IF c.unknown THEN login # {} ELSE c.mode \in login

\* An operation that nothing disturbed is carried out, exactly once; after an
\* operation that the same service accepted, that takes one request ("a move costs exactly 1 HTTP request
\* after first contact", IMPLEMENTATION_PLAN.md).
OnceWhenCalm ==
  [][\A t \in Threads :
       LET c == call[t]
       IN  At(t, "replied") /\ call'[t].at = "idle" /\ c.calm /\ Viable(c) =>
             /\ c.answer = "ok" /\ c.served = 1
             /\ c.sent <= IF c.first THEN 2 ELSE 1]_vars

\* What such an operation remembers is a mode that the camera accepts.
LearnsAccepted ==
  [][\A t \in Threads :
       At(t, "replied") /\ call[t].calm /\ Viable(call[t])
         /\ auth' # auth /\ call'[t] # call[t] =>
            auth'[call[t].service] \in login]_vars

\* A request that is under way when its operation is aborted ends, even when
\* the camera never answers and no timeout expires.
AbortEnds ==
  abort.signaled /\ call[Control].at = "flight" ~> call[Control].at # "flight"

\* Every operation returns, if requests do not stay unanswered for ever: the
\* connection is passed on to everybody who waits for it.
CallsReturn ==
  (\A t \in Threads : WF_vars(Lost(t))) =>
    \A t \in Threads : [](call[t].at # "idle" => <>(call[t].at = "idle"))
=============================================================================
