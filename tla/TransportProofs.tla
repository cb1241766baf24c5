--------------------------- MODULE TransportProofs ---------------------------
(***************************************************************************)
(* Theorems about SoapTransport, for any threads, services, handles and    *)
(* number of operations.                                                   *)
(*                                                                         *)
(* The invariant says where the pooled connection is, keeps the books of   *)
(* the operations that nothing has disturbed (what was sent, what the      *)
(* camera carried out and what its answer says of the credentials), and    *)
(* relates what the operations were told of the cached modes to the cache. *)
(***************************************************************************)
EXTENDS SoapTransport, FiniteSetTheorems, TLAPS

Places == {"idle", "acquire", "request", "attach", "check", "flight", "ended",
           "leave", "replied"}
Calls ==
  [at : Places, service : Services \cup {None}, mode : Modes, unknown : BOOLEAN,
   attempt : Nat, pooled : BOOLEAN, handle : Handles \cup {None},
   answer : Answers \cup {"none", "failed"}, first : BOOLEAN, sent : Nat,
   served : Nat, calm : BOOLEAN]

Types ==
  /\ keepalive \in BOOLEAN /\ authCache \in BOOLEAN /\ login \subseteq Modes
  /\ conn \in [open : BOOLEAN, inUse : BOOLEAN]
  /\ auth \in [Services -> Modes \cup {"unknown"}] /\ met \subseteq Services
  /\ call \in [Threads -> Calls]
  /\ abort \in [signaled : BOOLEAN, request : Handles \cup {None}]
  /\ closing \in Handles \cup {None}
  /\ handles \in [Handles -> Threads \cup {None}]
  /\ calls \in [Threads -> 0 .. MaxCalls] /\ changes \in 0 .. MaxChanges

\* Before its request is sent, and after DoRequest has come back.
Before == {"idle", "acquire", "request", "attach", "check"}
After  == {"ended", "leave", "replied"}

\* An undisturbed operation has sent each mode it has tried once, the camera has
\* carried it out if it said so, and an answer tells what the camera accepts.
CalmBooks(c) ==
  c.calm =>
    /\ c.answer \in {"none", "ok", "rejected"}
    /\ c.at \in Before => c.answer = "none"
    /\ c.at \in After => c.answer # "none"
    /\ c.answer = "ok" => c.mode \in login
    /\ c.answer = "rejected" => c.mode \notin login
    /\ c.unknown /\ c.mode = "basic" => "wsse" \notin login
    /\ c.served = IF c.answer = "ok" THEN 1 ELSE 0
    /\ c.sent = (IF c.unknown /\ c.mode = "basic" THEN 1 ELSE 0)
                + (IF c.at \in Before THEN 0 ELSE 1)

\* An operation sent in one mode found it in the cache; one that negotiates was
\* told that its service had accepted none.
Told(c) ==
  /\ c.at # "idle" => c.service \in Services
  /\ c.at # "idle" /\ AllowBasic /\ ~c.unknown => auth[c.service] # "unknown"
  /\ c.unknown => c.at # "idle" /\ c.first /\ AllowBasic

CallInv(c) == CalmBooks(c) /\ Told(c) /\ (c.at = "acquire" => c.pooled)

Using(c) ==
  c.pooled /\ c.at \in {"request", "attach", "check", "flight", "ended", "leave"}

\* The connection is in use by one thread at most, and in use for somebody.
Turn ==
  /\ \A t, u \in Threads : Using(call[t]) /\ Using(call[u]) => t = u
  /\ conn.inUse <=> \E t \in Threads : Using(call[t])

Met        == AllowBasic => \A s \in met : auth[s] # "unknown"
Unsignaled == call[Control].at = "idle" \/ call[Control].calm => ~abort.signaled

IInv ==
  Types /\ (\A t \in Threads : CallInv(call[t])) /\ Turn /\ Met /\ Unsignaled

-----------------------------------------------------------------------------
(* The connection.                                                         *)

LEMMA TurnImplies == Turn => OneUser
<1> SUFFICES ASSUME Turn
             PROVE  OneUser
  OBVIOUS
<1>1. Users = {t \in Threads : Using(call[t])}
  BY DEF Users, Using
<1>2. Users = {} \/ \E t \in Threads : Users = {t}
  BY <1>1 DEF Turn
<1>3. Cardinality(Users) \in {0, 1}
  BY <1>2, FS_EmptySet, FS_Singleton
<1> QED BY <1>1, <1>3 DEF OneUser, Turn

-----------------------------------------------------------------------------
(* What the helpers make of an operation.                                  *)

LEMMA DisturbIs ==
  ASSUME NEW c \in Calls
  PROVE  /\ Disturb(c) \in Calls /\ ~Disturb(c).calm
         /\ Disturb(c).at = c.at /\ Disturb(c).pooled = c.pooled
         /\ Disturb(c).service = c.service /\ Disturb(c).unknown = c.unknown
         /\ Disturb(c).first = c.first /\ Disturb(c).handle = c.handle
BY DEF Disturb, Calls

LEMMA FailIs ==
  ASSUME NEW c \in Calls
  PROVE  /\ Fail(c) \in Calls /\ ~Fail(c).calm
         /\ Fail(c).at = c.at /\ Fail(c).pooled = c.pooled
         /\ Fail(c).service = c.service /\ Fail(c).unknown = c.unknown
         /\ Fail(c).first = c.first /\ Fail(c).handle = c.handle
<1> DEFINE d == Disturb(c)
<1>1. d \in Calls /\ Fail(c) = [d EXCEPT !.answer = "failed"]
  BY DisturbIs DEF Fail
<1> QED BY <1>1, DisturbIs DEF Calls, Answers

LEMMA SentIs ==
  ASSUME NEW c \in Calls
  PROVE  /\ Sent(c) \in Calls /\ Sent(c).at = "flight"
         /\ Sent(c).sent = IF c.calm THEN c.sent + 1 ELSE 0
         /\ Sent(c).pooled = c.pooled /\ Sent(c).calm = c.calm
         /\ Sent(c).service = c.service /\ Sent(c).unknown = c.unknown
         /\ Sent(c).first = c.first /\ Sent(c).mode = c.mode
         /\ Sent(c).answer = c.answer /\ Sent(c).served = c.served
<1>1. (IF c.calm THEN c.sent + 1 ELSE 0) \in Nat
  BY DEF Calls
<1> QED BY <1>1 DEF Sent, Calls, Places

LEMMA SendingIs ==
  ASSUME Types, NEW c \in Calls, NEW mode \in Modes
  PROVE  /\ Sending(c, mode) \in Calls
         /\ Sending(c, mode).at \in {"acquire", "request"}
         /\ Sending(c, mode).pooled <=> Sending(c, mode).at = "acquire"
         /\ Sending(c, mode).mode = mode /\ Sending(c, mode).answer = "none"
         /\ Sending(c, mode).service = c.service
         /\ Sending(c, mode).unknown = c.unknown
         /\ Sending(c, mode).first = c.first /\ Sending(c, mode).calm = c.calm
         /\ Sending(c, mode).sent = c.sent /\ Sending(c, mode).served = c.served
BY DEF Types, Sending, Calls, Places, Answers

\* A step of thread t that leaves the cache, the camera and its hold on the
\* connection as they are.
LEMMA Progress ==
  ASSUME IInv, NEW t \in Threads, NEW c \in Calls, Goes(t, c),
         UNCHANGED <<settings, login, conn, auth, met, changes>>,
         CallInv(c), Using(c) = Using(call[t]),
         abort' \in [signaled : BOOLEAN, request : Handles \cup {None}],
         handles' \in [Handles -> Threads \cup {None}],
         closing' = closing, abort'.signaled = abort.signaled,
         calls' = calls \/ calls' \in [Threads -> 0 .. MaxCalls],
         t = Control /\ abort.signaled => c.at # "idle" /\ ~c.calm
  PROVE  IInv'
<1>1. /\ call' \in [Threads -> Calls] /\ call'[t] = c
      /\ \A u \in Threads \ {t} : call'[u] = call[u]
  BY DEF IInv, Types, Goes
<1>2. Types'
  BY <1>1 DEF IInv, Types, settings
<1>3. \A u \in Threads : CallInv(call[u])'
  BY <1>1 DEF IInv, CallInv, CalmBooks, Told
<1>4. \A u \in Threads : Using(call'[u]) = Using(call[u])
  BY <1>1
<1>5. Turn'
  BY <1>4 DEF IInv, Turn, Using
<1>6. Unsignaled'
  BY <1>1, TransportAssumption DEF IInv, Unsignaled
<1> QED BY <1>2, <1>3, <1>5, <1>6 DEF IInv, Met

-----------------------------------------------------------------------------
(* DoRequest.                                                              *)

LEMMA OpenStep ==
  ASSUME IInv, NEW t \in Threads, OpenRequest(t)
  PROVE  IInv'
<1>1. PICK h \in Handles :
        /\ handles' = [handles EXCEPT ![h] = t]
        /\ Goes(t, [call[t] EXCEPT !.handle = h,
                     !.at = IF t = Control THEN "attach" ELSE "check"])
  BY DEF OpenRequest
<1> DEFINE c == [call[t] EXCEPT !.handle = h,
                   !.at = IF t = Control THEN "attach" ELSE "check"]
<1>2. call[t] \in Calls /\ call[t].at = "request" /\ CallInv(call[t])
  BY DEF IInv, Types, OpenRequest, At
<1>3. /\ c \in Calls /\ c.at \in {"attach", "check"} /\ c.pooled = call[t].pooled
      /\ c.calm = call[t].calm /\ c.answer = call[t].answer
      /\ c.mode = call[t].mode /\ c.unknown = call[t].unknown
      /\ c.served = call[t].served /\ c.sent = call[t].sent
      /\ c.service = call[t].service /\ c.first = call[t].first
  BY <1>2 DEF Calls, Places
<1> HIDE DEF c
<1>4. CallInv(c)
  BY <1>2, <1>3 DEF CallInv, CalmBooks, Told, Before, After
<1>5. Using(c) = Using(call[t])
  BY <1>2, <1>3 DEF Using
<1>6. t = Control /\ abort.signaled => ~c.calm
  BY <1>2, <1>3 DEF IInv, Unsignaled
<1>7. /\ handles' \in [Handles -> Threads \cup {None}]
      /\ abort' \in [signaled : BOOLEAN, request : Handles \cup {None}]
  BY <1>1 DEF IInv, Types, OpenRequest
<1> QED BY <1>1, <1>3, <1>4, <1>5, <1>6, <1>7, Progress DEF OpenRequest, c

\* A request that did not come to be, was not sent or was not answered.
LEMMA FailStep ==
  ASSUME IInv, NEW t \in Threads, NEW place \in {"leave", "ended", "replied"},
         \/ call[t].at \in {"request", "check", "flight"} /\ place # "replied"
         \/ call[t].at = "acquire" /\ place = "replied",
         Goes(t, [Fail(call[t]) EXCEPT !.at = place]),
         UNCHANGED <<settings, login, conn, auth, met, abort, closing, handles,
                     calls, changes>>
  PROVE  IInv'
<1> DEFINE d == Fail(call[t])
           c == [d EXCEPT !.at = place]
<1>1. call[t] \in Calls /\ CallInv(call[t])
  BY DEF IInv, Types
<1>2. /\ d \in Calls /\ ~d.calm /\ d.pooled = call[t].pooled
      /\ d.service = call[t].service /\ d.unknown = call[t].unknown
      /\ d.first = call[t].first
  BY <1>1, FailIs
<1> HIDE DEF d
<1>3. /\ c \in Calls /\ ~c.calm /\ c.pooled = call[t].pooled /\ c.at = place
      /\ c.service = call[t].service /\ c.unknown = call[t].unknown
      /\ c.first = call[t].first
  BY <1>2 DEF Calls, Places
<1>4. Goes(t, c)
  BY DEF c, d
<1> HIDE DEF c
<1>5. CallInv(c) /\ Using(c) = Using(call[t])
  BY <1>1, <1>3 DEF CallInv, CalmBooks, Told, Using
<1>6. /\ handles' \in [Handles -> Threads \cup {None}]
      /\ abort' \in [signaled : BOOLEAN, request : Handles \cup {None}]
  BY DEF IInv, Types
<1> QED BY <1>3, <1>4, <1>5, <1>6, Progress

\* The next of DoRequest's steps.
LEMMA PlaceStep ==
  ASSUME IInv, NEW t \in Threads, NEW place \in {"check", "ended"},
         \/ call[t].at = "attach" /\ place = "check"
         \/ call[t].at = "flight" /\ place = "ended" /\ Delivered(call[t]),
         Goes(t, [call[t] EXCEPT !.at = place]),
         abort' \in [signaled : BOOLEAN, request : Handles \cup {None}],
         abort'.signaled = abort.signaled,
         UNCHANGED <<settings, login, conn, auth, met, closing, handles,
                     calls, changes>>
  PROVE  IInv'
<1> DEFINE c == [call[t] EXCEPT !.at = place]
<1>1. call[t] \in Calls /\ CallInv(call[t])
  BY DEF IInv, Types
<1>2. /\ c \in Calls /\ c.at = place /\ c.pooled = call[t].pooled
      /\ c.calm = call[t].calm /\ c.answer = call[t].answer
      /\ c.mode = call[t].mode /\ c.unknown = call[t].unknown
      /\ c.served = call[t].served /\ c.sent = call[t].sent
      /\ c.service = call[t].service /\ c.first = call[t].first
  BY <1>1 DEF Calls, Places
<1> HIDE DEF c
<1>3. CallInv(c)
  BY <1>1, <1>2 DEF CallInv, CalmBooks, Told, Before, After, Delivered, Answers
<1>4. Using(c) = Using(call[t])
  BY <1>2 DEF Using
<1>5. t = Control /\ abort.signaled => ~c.calm
  BY <1>2 DEF IInv, Unsignaled
<1>6. handles' \in [Handles -> Threads \cup {None}]
  BY DEF IInv, Types
<1> QED BY <1>2, <1>3, <1>4, <1>5, <1>6, Progress DEF c

LEMMA AttachStep ==
  ASSUME IInv, NEW t \in Threads, Attach(t)
  PROVE  IInv'
<1>1. call[t] \in Calls /\ abort \in [signaled : BOOLEAN, request : Handles \cup {None}]
  BY DEF IInv, Types
<1>2. /\ abort' \in [signaled : BOOLEAN, request : Handles \cup {None}]
      /\ abort'.signaled = abort.signaled
  BY <1>1 DEF Attach, Calls
<1>3. /\ call[t].at = "attach" /\ Goes(t, [call[t] EXCEPT !.at = "check"])
      /\ UNCHANGED <<settings, login, conn, auth, met, closing, handles, calls,
                     changes>>
  BY DEF Attach, At
<1> QED BY <1>2, <1>3, PlaceStep

LEMMA CheckStep ==
  ASSUME IInv, NEW t \in Threads, CheckSend(t)
  PROVE  IInv'
<1>1. CASE Aborted(t)
  BY <1>1, FailStep DEF CheckSend, At
<1>2. CASE ~Aborted(t)
  <2> DEFINE c == Sent(call[t])
  <2>1. call[t] \in Calls /\ CallInv(call[t]) /\ call[t].at = "check"
    BY DEF IInv, Types, CheckSend, At
  <2>2. /\ c \in Calls /\ c.at = "flight"
        /\ c.sent = IF call[t].calm THEN call[t].sent + 1 ELSE 0
        /\ c.pooled = call[t].pooled /\ c.calm = call[t].calm
        /\ c.service = call[t].service /\ c.unknown = call[t].unknown
        /\ c.first = call[t].first /\ c.mode = call[t].mode
        /\ c.answer = call[t].answer /\ c.served = call[t].served
    BY <2>1, SentIs
  <2>3. Goes(t, c)
    BY <1>2 DEF CheckSend
  <2> HIDE DEF c
  <2>4. CalmBooks(c)
    BY <2>1, <2>2 DEF CallInv, CalmBooks, Before, After
  <2>5. CallInv(c) /\ Using(c) = Using(call[t])
    BY <2>1, <2>2, <2>4 DEF CallInv, Told, Using
  <2>6. ~(t = Control /\ abort.signaled)
    BY <1>2 DEF Aborted
  <2>7. /\ handles' \in [Handles -> Threads \cup {None}]
        /\ abort' \in [signaled : BOOLEAN, request : Handles \cup {None}]
    BY DEF IInv, Types, CheckSend
  <2> QED BY <2>2, <2>3, <2>5, <2>6, <2>7, Progress DEF CheckSend
<1> QED BY <1>1, <1>2

LEMMA ServeStep ==
  ASSUME IInv, NEW t \in Threads, NEW answer \in Answers, Serve(t, answer)
  PROVE  IInv'
<1> DEFINE b == [call[t] EXCEPT !.answer = answer]
           c == CASE answer = "ok" /\ b.calm -> [b EXCEPT !.served = @ + 1]
                  [] answer \in {"refused", "error"} -> Disturb(b)
                  [] OTHER -> b
<1>1. /\ call[t] \in Calls /\ CallInv(call[t]) /\ call[t].at = "flight"
      /\ call[t].answer = "none"
      /\ call[t].mode \in login => answer # "rejected"
      /\ call[t].mode \notin login => answer \in {"rejected", "error"}
  BY DEF IInv, Types, Serve, At
<1>2. /\ b \in Calls /\ b.at = "flight" /\ b.pooled = call[t].pooled
      /\ b.calm = call[t].calm /\ b.answer = answer
      /\ b.mode = call[t].mode /\ b.unknown = call[t].unknown
      /\ b.served = call[t].served /\ b.sent = call[t].sent
      /\ b.service = call[t].service /\ b.first = call[t].first
  BY <1>1 DEF Calls, Answers
<1>3. Goes(t, c)
  BY DEF Serve
<1> HIDE DEF b
<1>4. /\ c \in Calls /\ c.at = "flight" /\ c.pooled = b.pooled
      /\ c.service = b.service /\ c.first = b.first /\ c.unknown = b.unknown
      /\ c.calm => /\ b.calm /\ c.answer = answer /\ answer \in {"ok", "rejected"}
                   /\ c.mode = b.mode /\ c.sent = b.sent
                   /\ c.served = IF answer = "ok" THEN b.served + 1 ELSE b.served
  <2>1. CASE answer = "ok" /\ b.calm
    <3>1. c = [b EXCEPT !.served = @ + 1]
      BY <2>1
    <3> QED BY <1>2, <2>1, <3>1 DEF Calls
  <2>2. CASE answer \in {"refused", "error"}
    <3>1. c = Disturb(b)
      BY <2>2
    <3> HIDE DEF c
    <3> QED BY <1>2, <3>1, DisturbIs
  <2>3. CASE ~(answer = "ok" /\ b.calm) /\ answer \in {"ok", "rejected"}
    <3>1. c = b
      BY <2>3
    <3> HIDE DEF c
    <3> QED BY <1>2, <2>3, <3>1
  <2> QED BY <2>1, <2>2, <2>3 DEF Answers
<1> HIDE DEF c
<1>5. CalmBooks(c)
  BY <1>1, <1>2, <1>4 DEF CallInv, CalmBooks, Before, After, Calls
<1>6. CallInv(c) /\ Using(c) = Using(call[t])
  BY <1>1, <1>2, <1>4, <1>5 DEF CallInv, Told, Using
<1>7. t = Control /\ abort.signaled => ~c.calm
  BY <1>1, <1>2, <1>4 DEF IInv, Unsignaled
<1>8. /\ handles' \in [Handles -> Threads \cup {None}]
      /\ abort' \in [signaled : BOOLEAN, request : Handles \cup {None}]
  BY DEF IInv, Types, Serve
<1> QED BY <1>3, <1>4, <1>6, <1>7, <1>8, Progress DEF Serve

LEMMA EndStep ==
  ASSUME IInv, NEW t \in Threads, EndRequest(t)
  PROVE  IInv'
<1> DEFINE c == [call[t] EXCEPT !.at = "leave", !.handle = None]
<1>1. /\ call[t] \in Calls /\ CallInv(call[t]) /\ call[t].at = "ended" /\ Goes(t, c)
      /\ abort \in [signaled : BOOLEAN, request : Handles \cup {None}]
  BY DEF IInv, Types, EndRequest, At
<1>2. /\ c \in Calls /\ c.at = "leave" /\ c.pooled = call[t].pooled
      /\ c.calm = call[t].calm /\ c.answer = call[t].answer
      /\ c.mode = call[t].mode /\ c.unknown = call[t].unknown
      /\ c.served = call[t].served /\ c.sent = call[t].sent
      /\ c.service = call[t].service /\ c.first = call[t].first
  BY <1>1 DEF Calls, Places
<1> HIDE DEF c
<1>3. CallInv(c)
  BY <1>1, <1>2 DEF CallInv, CalmBooks, Told, Before, After
<1>4. Using(c) = Using(call[t])
  BY <1>1, <1>2 DEF Using
<1>5. t = Control /\ abort.signaled => ~c.calm
  BY <1>1, <1>2 DEF IInv, Unsignaled
<1>6. handles' \in [Handles -> Threads \cup {None}]
  BY DEF IInv, Types, EndRequest
<1>7. /\ abort' \in [signaled : BOOLEAN, request : Handles \cup {None}]
      /\ abort'.signaled = abort.signaled
  BY <1>1 DEF EndRequest
<1> QED BY <1>1, <1>2, <1>3, <1>4, <1>5, <1>6, <1>7, Progress DEF EndRequest

LEMMA RequestStep ==
  ASSUME IInv, NEW t \in Threads,
         \/ OpenRequest(t) \/ RequestFails(t) \/ Attach(t) \/ CheckSend(t)
         \/ \E answer \in Answers : Serve(t, answer)
         \/ Receive(t) \/ Lost(t) \/ Closed(t) \/ EndRequest(t)
  PROVE  IInv'
<1>1. CASE RequestFails(t)
  BY <1>1, FailStep DEF RequestFails, At
<1>2. CASE Lost(t) \/ Closed(t)
  BY <1>2, FailStep DEF Lost, Closed, Breaks, At
<1>3. CASE Receive(t)
  <2>1. /\ abort' \in [signaled : BOOLEAN, request : Handles \cup {None}]
        /\ abort' = abort
    BY <1>3 DEF IInv, Types, Receive
  <2> QED BY <1>3, <2>1, PlaceStep DEF Receive, At
<1> QED BY <1>1, <1>2, <1>3, OpenStep, AttachStep, CheckStep, ServeStep, EndStep

-----------------------------------------------------------------------------
(* PostOperation.                                                          *)

LEMMA CallStep ==
  ASSUME IInv, NEW t \in Threads, NEW s \in Services, Call(t, s)
  PROVE  IInv'
<1> DEFINE known == AuthFor(s)
           mode  == IF AllowBasic /\ known = "basic" THEN "basic" ELSE "wsse"
           b     == [NoCall EXCEPT !.service = s,
                       !.first = ~authCache \/ s \notin met,
                       !.unknown = AllowBasic /\ known = "unknown"]
           c     == Sending(b, mode)
<1>1. call[t].at = "idle" /\ Goes(t, c) /\ Types /\ mode \in Modes
  BY DEF IInv, Call, At, Modes
<1>2. /\ b \in Calls /\ b.calm /\ b.sent = 0 /\ b.served = 0 /\ b.service = s
      /\ b.first = (~authCache \/ s \notin met)
      /\ b.unknown = (AllowBasic /\ known = "unknown")
  BY TransportAssumption DEF NoCall, Calls, Places, Modes, Answers
<1>3. /\ c \in Calls /\ c.at \in {"acquire", "request"}
      /\ c.pooled <=> c.at = "acquire"
      /\ c.mode = mode /\ c.answer = "none" /\ c.service = s
      /\ c.unknown = b.unknown /\ c.first = b.first /\ c.calm
      /\ c.sent = 0 /\ c.served = 0
  <2> HIDE DEF b, mode
  <2> QED BY <1>1, <1>2, SendingIs
<1>4. known # "unknown" => authCache /\ auth[s] = known
  BY DEF AuthFor
<1>5. authCache => auth[s] = known
  BY DEF AuthFor
<1>6. b.unknown => b.first /\ AllowBasic
  BY <1>1, <1>2, <1>5 DEF IInv, Met
<1>7. b.unknown => mode = "wsse"
  BY <1>2
<1> HIDE DEF c, b, mode, known
<1>8. CalmBooks(c)
  BY <1>3, <1>7 DEF CalmBooks, Before, After
<1>9. Told(c)
  BY <1>2, <1>3, <1>4, <1>6 DEF Told
<1>10. CallInv(c) /\ Using(c) = Using(call[t])
  BY <1>1, <1>3, <1>8, <1>9 DEF CallInv, Using
<1>11. ~(t = Control /\ abort.signaled)
  BY <1>1 DEF IInv, Unsignaled
<1>12. /\ handles' \in [Handles -> Threads \cup {None}]
       /\ abort' \in [signaled : BOOLEAN, request : Handles \cup {None}]
       /\ abort'.signaled = abort.signaled
  BY <1>1 DEF Types, Call
<1>13. calls' \in [Threads -> 0 .. MaxCalls]
  BY <1>1, TransportAssumption DEF Types, Call
<1>14. UNCHANGED <<settings, login, conn, auth, met, changes, closing>>
  BY DEF Call
<1> QED BY <1>1, <1>3, <1>10, <1>11, <1>12, <1>13, <1>14, Progress

\* The operation returns, and its mode may be remembered.
LEMMA ReturnStep ==
  ASSUME IInv, NEW t \in Threads, call[t].at = "replied", Returns(t),
         \/ \E m \in Modes : Remember(call[t].service, m)
         \/ auth' = auth /\ (call[t].unknown => call[t].answer # "ok"),
         UNCHANGED <<settings, login, conn, closing, handles, calls, changes>>
  PROVE  IInv'
<1>1. call[t] \in Calls /\ CallInv(call[t]) /\ Types /\ call[t].service \in Services
  BY DEF IInv, Types, CallInv, Told
<1>2. /\ call' \in [Threads -> Calls] /\ call'[t] = NoCall
      /\ \A u \in Threads \ {t} : call'[u] = call[u]
  <2>1. NoCall \in Calls
    BY DEF NoCall, Calls, Places, Modes, Answers
  <2> QED BY <1>1, <2>1 DEF Returns, Goes, Types
<1>3. /\ auth' \in [Services -> Modes \cup {"unknown"}]
      /\ \A s \in Services : auth[s] # "unknown" => auth'[s] # "unknown"
      /\ authCache /\ call[t].unknown /\ call[t].answer = "ok" =>
           auth'[call[t].service] # "unknown"
  BY <1>1 DEF Remember, Types, Modes
<1>4. /\ met' \subseteq Services
      /\ \A s \in met' : s \in met \/ (s = call[t].service /\ authCache
                                       /\ call[t].answer = "ok")
  BY <1>1 DEF Returns, Types
<1>5. abort' \in [signaled : BOOLEAN, request : Handles \cup {None}]
  BY <1>1 DEF Returns, NoAbort, Types
<1>6. Types'
  BY <1>1, <1>2, <1>3, <1>4, <1>5 DEF Types, settings
<1>7. \A u \in Threads : CallInv(call[u])'
  <2>1. CallInv(NoCall)'
    BY DEF NoCall, CallInv, CalmBooks, Told, Before, After
  <2>2. ASSUME NEW u \in Threads \ {t}
        PROVE  CallInv(call[u])'
    BY <1>2, <1>3 DEF IInv, CallInv, CalmBooks, Told
  <2> QED BY <1>2, <2>1, <2>2
<1>8. \A u \in Threads : Using(call'[u]) = Using(call[u])
  BY <1>2 DEF Using, NoCall
<1>9. Turn'
  BY <1>8 DEF IInv, Turn, Using
<1>10. Met'
  BY <1>1, <1>3, <1>4 DEF IInv, Met, CallInv, Told, Types
<1>11. Unsignaled'
  BY <1>2, TransportAssumption DEF IInv, Unsignaled, Returns, NoAbort, NoCall
<1> QED BY <1>6, <1>7, <1>9, <1>10, <1>11 DEF IInv

\* WS-Security was rejected: the operation is sent as HTTP Basic.
LEMMA FallbackStep ==
  ASSUME IInv, NEW t \in Threads, call[t].at = "replied",
         call[t].unknown, call[t].mode = "wsse", ~Accepted(call[t]), ~Aborted(t),
         Goes(t, Sending(call[t], "basic")),
         UNCHANGED <<settings, login, conn, auth, met, abort, closing, handles,
                     calls, changes>>
  PROVE  IInv'
<1> DEFINE c == Sending(call[t], "basic")
<1>1. call[t] \in Calls /\ CallInv(call[t]) /\ Types
  BY DEF IInv, Types
<1>2. /\ c \in Calls /\ c.at \in {"acquire", "request"}
      /\ c.pooled <=> c.at = "acquire"
      /\ c.mode = "basic" /\ c.answer = "none" /\ c.service = call[t].service
      /\ c.unknown = call[t].unknown /\ c.first = call[t].first
      /\ c.calm = call[t].calm /\ c.sent = call[t].sent /\ c.served = call[t].served
  BY <1>1, SendingIs DEF Modes
<1>3. Goes(t, c)
  OBVIOUS
<1> HIDE DEF c
<1>4. call[t].calm => call[t].answer = "rejected"
  BY <1>1 DEF CallInv, CalmBooks, Accepted, After
<1>5. CalmBooks(c)
  BY <1>1, <1>2, <1>4 DEF CallInv, CalmBooks, Before, After
<1>6. CallInv(c) /\ Using(c) = Using(call[t])
  BY <1>1, <1>2, <1>5 DEF CallInv, Told, Using
<1>7. ~(t = Control /\ abort.signaled)
  BY DEF Aborted
<1>8. /\ handles' \in [Handles -> Threads \cup {None}]
      /\ abort' \in [signaled : BOOLEAN, request : Handles \cup {None}]
  BY <1>1 DEF Types
<1> QED BY <1>2, <1>3, <1>6, <1>7, <1>8, Progress

LEMMA DecideStep ==
  ASSUME IInv, NEW t \in Threads, Decide(t)
  PROVE  IInv'
<1>1. /\ call[t].at = "replied"
      /\ UNCHANGED <<settings, login, conn, closing, handles, calls, changes>>
  BY DEF Decide, At
<1>2. call[t] \in Calls
  BY DEF IInv, Types
<1>3. CASE \E m \in Modes : Remember(call[t].service, m) /\ Returns(t)
  BY <1>1, <1>3, ReturnStep
<1>4. CASE /\ call[t].unknown /\ call[t].mode = "wsse"
           /\ ~Accepted(call[t]) /\ ~Aborted(t)
           /\ Goes(t, Sending(call[t], "basic")) /\ UNCHANGED <<auth, met, abort>>
  BY <1>1, <1>4, FallbackStep
<1>5. CASE /\ \/ ~call[t].unknown
              \/ call[t].mode = "wsse" /\ ~Accepted(call[t]) /\ Aborted(t)
              \/ call[t].mode = "basic" /\ ~Delivered(call[t])
           /\ Returns(t) /\ UNCHANGED auth
  <2>1. call[t].unknown => call[t].answer # "ok"
    BY <1>5 DEF Accepted, Delivered, Answers
  <2> QED BY <1>1, <1>5, <2>1, ReturnStep
<1> QED BY <1>3, <1>4, <1>5 DEF Decide, Modes

-----------------------------------------------------------------------------
(* The pooled connection.                                                  *)

LEMMA AcquireStep ==
  ASSUME IInv, NEW t \in Threads, Acquire(t)
  PROVE  IInv'
<1> DEFINE c == [call[t] EXCEPT !.at = "request"]
<1>1. /\ call[t] \in Calls /\ CallInv(call[t]) /\ Types /\ Goes(t, c)
      /\ call[t].at = "acquire" /\ ~conn.inUse
      /\ conn' = [open |-> TRUE, inUse |-> TRUE]
      /\ UNCHANGED <<settings, login, auth, met, abort, closing, handles, calls, changes>>
  BY DEF IInv, Types, Acquire, At
<1>2. /\ c \in Calls /\ c.at = "request" /\ c.pooled
      /\ c.calm = call[t].calm /\ c.answer = call[t].answer
      /\ c.mode = call[t].mode /\ c.unknown = call[t].unknown
      /\ c.served = call[t].served /\ c.sent = call[t].sent
      /\ c.service = call[t].service /\ c.first = call[t].first
  BY <1>1 DEF CallInv, Calls, Places
<1> HIDE DEF c
<1>3. /\ call' \in [Threads -> Calls] /\ call'[t] = c
      /\ \A u \in Threads \ {t} : call'[u] = call[u]
  BY <1>1, <1>2 DEF Types, Goes
<1>4. Types'
  BY <1>1, <1>3 DEF Types, settings
<1>5. \A u \in Threads : CallInv(call[u])'
  <2>1. CallInv(c)
    BY <1>1, <1>2 DEF CallInv, CalmBooks, Told, Before, After
  <2> QED BY <1>1, <1>3, <2>1 DEF IInv, CallInv, CalmBooks, Told
<1>6. Using(c) /\ \A u \in Threads \ {t} : ~Using(call'[u])
  BY <1>1, <1>2, <1>3 DEF IInv, Turn, Using
<1>7. Turn'
  BY <1>1, <1>3, <1>6 DEF Turn, Using
<1>8. Met' /\ Unsignaled'
  BY <1>1, <1>2, <1>3, TransportAssumption DEF IInv, Met, Unsignaled
<1> QED BY <1>4, <1>5, <1>7, <1>8 DEF IInv

LEMMA LeaveStep ==
  ASSUME IInv, NEW t \in Threads, Leave(t)
  PROVE  IInv'
<1> DEFINE c == IF Retries(t)
                THEN [call[t] EXCEPT !.at = "acquire", !.attempt = @ + 1,
                                     !.answer = "none"]
                ELSE [call[t] EXCEPT !.at = "replied", !.attempt = 0]
<1>1. /\ call[t] \in Calls /\ CallInv(call[t]) /\ Types /\ Goes(t, c)
      /\ call[t].at = "leave"
      /\ conn' = IF ~call[t].pooled THEN conn
                 ELSE [inUse |-> FALSE, open |-> conn.open /\ Delivered(call[t])]
      /\ UNCHANGED <<settings, login, auth, met, abort, closing, handles, calls, changes>>
  BY DEF IInv, Types, Leave, GoesOn, At
<1>2. /\ c \in Calls /\ c.at \in {"acquire", "replied"} /\ c.pooled = call[t].pooled
      /\ c.calm = call[t].calm /\ c.mode = call[t].mode
      /\ c.unknown = call[t].unknown /\ c.first = call[t].first
      /\ c.served = call[t].served /\ c.sent = call[t].sent
      /\ c.service = call[t].service
      /\ c.at = "acquire" <=> Retries(t)
      /\ ~Retries(t) => c.answer = call[t].answer
  <2>1. CASE Retries(t)
    <3>1. c = [call[t] EXCEPT !.at = "acquire", !.attempt = @ + 1, !.answer = "none"]
      BY <2>1
    <3>2. call[t].attempt + 1 \in Nat
      BY <1>1 DEF Calls
    <3> HIDE DEF c
    <3>3. c \in Calls
      BY <1>1, <3>1, <3>2 DEF Calls, Places, Answers
    <3> QED BY <1>1, <2>1, <3>1, <3>3 DEF Calls
  <2>2. CASE ~Retries(t)
    <3>1. c = [call[t] EXCEPT !.at = "replied", !.attempt = 0]
      BY <2>2
    <3> HIDE DEF c
    <3> QED BY <1>1, <2>2, <3>1 DEF Calls, Places
  <2> QED BY <2>1, <2>2
<1>3. Retries(t) => call[t].pooled /\ ~Delivered(call[t])
  BY DEF Retries
<1>4. call[t].calm => Delivered(call[t])
  BY <1>1 DEF CallInv, CalmBooks, After, Delivered, Answers
<1> HIDE DEF c
<1>5. /\ call' \in [Threads -> Calls] /\ call'[t] = c
      /\ \A u \in Threads \ {t} : call'[u] = call[u]
  BY <1>1, <1>2 DEF Types, Goes
<1>6. conn' \in [open : BOOLEAN, inUse : BOOLEAN]
  BY <1>1 DEF Types, Delivered
<1>7. Types'
  BY <1>1, <1>5, <1>6 DEF Types, settings
<1>8. \A u \in Threads : CallInv(call[u])'
  <2>1. CallInv(c)
    BY <1>1, <1>2, <1>3, <1>4 DEF CallInv, CalmBooks, Told, Before, After
  <2> QED BY <1>1, <1>5, <2>1 DEF IInv, CallInv, CalmBooks, Told
<1>9. ~Using(c) /\ \A u \in Threads \ {t} : Using(call'[u]) = Using(call[u])
  BY <1>2, <1>5 DEF Using
<1>10. Turn'
  <2>1. CASE call[t].pooled
    <3>1. Using(call[t])
      BY <1>1, <2>1 DEF Using
    <3>2. \A u \in Threads : ~Using(call'[u])
      BY <1>5, <1>9, <3>1 DEF IInv, Turn
    <3> QED BY <1>1, <2>1, <3>2 DEF Turn, Using
  <2>2. CASE ~call[t].pooled
    <3>1. ~Using(call[t])
      BY <2>2 DEF Using
    <3>2. \A u \in Threads : Using(call'[u]) = Using(call[u])
      BY <1>5, <1>9, <3>1 DEF Using
    <3> QED BY <1>1, <2>2, <3>2 DEF IInv, Turn, Using
  <2> QED BY <2>1, <2>2
<1>11. Met' /\ Unsignaled'
  BY <1>1, <1>2, <1>5, TransportAssumption DEF IInv, Met, Unsignaled
<1> QED BY <1>7, <1>8, <1>10, <1>11 DEF IInv

-----------------------------------------------------------------------------
(* Other threads.                                                          *)

LEMMA SignalStep ==
  ASSUME IInv, Signal
  PROVE  IInv'
<1> DEFINE c == Disturb(call[Control])
<1>1. /\ call[Control] \in Calls /\ CallInv(call[Control]) /\ Types
      /\ call[Control].at # "idle" /\ call' = [call EXCEPT ![Control] = c]
      /\ abort' = [signaled |-> TRUE, request |-> None] /\ closing' = abort.request
      /\ UNCHANGED <<settings, login, conn, auth, met, handles, calls, changes>>
  BY TransportAssumption DEF IInv, Types, Signal
<1>2. /\ c \in Calls /\ ~c.calm /\ c.at = call[Control].at
      /\ c.pooled = call[Control].pooled
      /\ c.service = call[Control].service /\ c.unknown = call[Control].unknown
      /\ c.first = call[Control].first
  BY <1>1, DisturbIs
<1> HIDE DEF c
<1>3. /\ call' \in [Threads -> Calls] /\ call'[Control] = c
      /\ \A u \in Threads \ {Control} : call'[u] = call[u]
  BY <1>1, <1>2, TransportAssumption DEF Types
<1>4. Types'
  BY <1>1, <1>3 DEF Types, settings
<1>5. \A u \in Threads : CallInv(call[u])'
  <2>1. CallInv(c)
    BY <1>1, <1>2 DEF CallInv, CalmBooks, Told
  <2> QED BY <1>1, <1>3, <2>1 DEF IInv, CallInv, CalmBooks, Told
<1>6. \A u \in Threads : Using(call'[u]) = Using(call[u])
  BY <1>2, <1>3 DEF Using
<1>7. Turn'
  BY <1>1, <1>6 DEF IInv, Turn, Using
<1>8. Met' /\ Unsignaled'
  BY <1>1, <1>2, <1>3 DEF IInv, Met, Unsignaled
<1> QED BY <1>4, <1>5, <1>7, <1>8 DEF IInv

\* Wrong or right credentials disturb whatever is under way.
LEMMA LoginStep ==
  ASSUME IInv, LoginChanges
  PROVE  IInv'
<1>1. /\ login' \subseteq Modes /\ changes' \in 0 .. MaxChanges
      /\ call' = [t \in Threads |->
                    IF call[t].at = "idle" THEN call[t] ELSE Disturb(call[t])]
      /\ UNCHANGED <<settings, conn, auth, met, abort, closing, handles, calls>>
  BY TransportAssumption DEF IInv, Types, LoginChanges, Change, At
<1>2. ASSUME NEW t \in Threads
      PROVE  /\ call'[t] \in Calls /\ call'[t].at = call[t].at
             /\ call'[t].pooled = call[t].pooled
             /\ call'[t].calm => call'[t] = call[t] /\ call[t].at = "idle"
             /\ CallInv(call[t])'
  <2>1. call[t] \in Calls /\ CallInv(call[t])
    BY DEF IInv, Types
  <2>2. CASE call[t].at = "idle"
    <3>1. call'[t] = call[t]
      BY <1>1, <2>2
    <3> QED BY <1>1, <2>1, <2>2, <3>1 DEF CallInv, CalmBooks, Told, Before
  <2>3. CASE call[t].at # "idle"
    <3>1. call'[t] = Disturb(call[t])
      BY <1>1, <2>3
    <3>2. /\ call'[t] \in Calls /\ ~call'[t].calm /\ call'[t].at = call[t].at
          /\ call'[t].pooled = call[t].pooled
          /\ call'[t].service = call[t].service
          /\ call'[t].unknown = call[t].unknown /\ call'[t].first = call[t].first
      BY <2>1, <3>1, DisturbIs
    <3> QED BY <1>1, <2>1, <3>2 DEF CallInv, CalmBooks, Told
  <2> QED BY <2>2, <2>3
<1>3. call' \in [Threads -> Calls]
  BY <1>1, <1>2
<1>4. Types'
  BY <1>1, <1>3 DEF IInv, Types, settings
<1>5. \A u \in Threads : Using(call'[u]) = Using(call[u])
  BY <1>2 DEF Using
<1>6. Turn'
  BY <1>1, <1>5 DEF IInv, Turn, Using
<1>7. Met' /\ Unsignaled'
  BY <1>1, <1>2, TransportAssumption DEF IInv, Met, Unsignaled
<1> QED BY <1>2, <1>4, <1>6, <1>7 DEF IInv

\* A step that touches no operation, nor what is known of the camera.
LEMMA AsideStep ==
  ASSUME IInv, Types', UNCHANGED <<login, conn, auth, met, call, abort>>
  PROVE  IInv'
BY DEF IInv, CallInv, CalmBooks, Told, Turn, Using, Met, Unsignaled

-----------------------------------------------------------------------------
(* The invariant.                                                          *)

LEMMA InitInv == Init => IInv
<1> SUFFICES ASSUME Init
             PROVE  IInv
  OBVIOUS
<1>1. NoCall \in Calls /\ NoCall.at = "idle" /\ ~NoCall.pooled /\ CallInv(NoCall)
  BY DEF NoCall, Calls, Places, Modes, Answers, CallInv, CalmBooks, Told, Before, After
<1>2. Types
  BY <1>1, TransportAssumption DEF Init, Types, NoAbort
<1>3. \A t \in Threads : call[t] = NoCall
  BY DEF Init
<1>4. Turn
  BY <1>1, <1>3 DEF Init, Turn, Using
<1> QED BY <1>1, <1>2, <1>3, <1>4 DEF IInv, Init, Met, Unsignaled, NoAbort

LEMMA NextInv == IInv /\ [Next]_vars => IInv'
<1> SUFFICES ASSUME IInv, [Next]_vars
             PROVE  IInv'
  OBVIOUS
<1>1. CASE \E t \in Threads, s \in Services : Call(t, s)
  BY <1>1, CallStep
<1>2. CASE \E t \in Threads : Decide(t) \/ Acquire(t) \/ Leave(t)
  BY <1>2, DecideStep, AcquireStep, LeaveStep
<1>3. CASE \E t \in Threads :
             \/ OpenRequest(t) \/ RequestFails(t) \/ Attach(t) \/ CheckSend(t)
             \/ \E answer \in Answers : Serve(t, answer)
             \/ Receive(t) \/ Lost(t) \/ Closed(t) \/ EndRequest(t)
  BY <1>3, RequestStep
<1>4. CASE \E t \in Threads : ConnectFails(t)
  BY <1>4, FailStep DEF ConnectFails, At
<1>5. CASE Signal \/ LoginChanges
  BY <1>5, SignalStep, LoginStep
<1>6. CASE SignalCloses \/ SetPtzTransport \/ UNCHANGED vars
  <2>1. Types'
    BY <1>6, TransportAssumption
    DEF IInv, Types, SignalCloses, SetPtzTransport, Change, settings, vars
  <2> QED BY <1>6, <2>1, AsideStep DEF SignalCloses, SetPtzTransport, vars
<1> QED BY <1>1, <1>2, <1>3, <1>4, <1>5, <1>6 DEF Next, Step

LEMMA AlwaysInv == Spec => []IInv
BY InitInv, NextInv, PTL DEF Spec

-----------------------------------------------------------------------------
(* How an operation comes to its end.                                      *)

\* Only PostOperation itself returns, and only it writes the cache.
LEMMA OnlyDecides ==
  ASSUME IInv, Next, NEW t \in Threads, call[t].at = "replied",
         call'[t].at = "idle" \/ (auth' # auth /\ call'[t] # call[t])
  PROVE  Decide(t)
<1>1. call \in [Threads -> Calls]
  BY DEF IInv, Types
<1>2. CASE Signal
  <2>1. auth' = auth /\ call'[t].at = call[t].at
    BY <1>1, <1>2, DisturbIs, TransportAssumption DEF Signal
  <2> QED BY <2>1
<1>3. CASE LoginChanges
  <2>1. auth' = auth /\ call'[t].at = call[t].at
    BY <1>1, <1>3, DisturbIs DEF LoginChanges
  <2> QED BY <2>1
<1>4. CASE SignalCloses \/ SetPtzTransport
  BY <1>4 DEF SignalCloses, SetPtzTransport
<1>5. ASSUME NEW u \in Threads, u # t,
             \/ \E s \in Services : Call(u, s)
             \/ Step(u) \/ ConnectFails(u) \/ RequestFails(u) \/ Lost(u)
             \/ \E answer \in Answers : Serve(u, answer)
      PROVE  call'[t] = call[t]
  <2>1. \E c : Goes(u, c)
    BY <1>5 DEF Call, Step, Decide, Acquire, Leave, OpenRequest, Attach, CheckSend,
                Receive, Closed, EndRequest, ConnectFails, RequestFails, Lost, Serve,
                Breaks, GoesOn, Returns
  <2> QED BY <1>1, <1>5, <2>1 DEF Goes
<1>6. ASSUME \/ \E s \in Services : Call(t, s)
             \/ Step(t) \/ ConnectFails(t) \/ RequestFails(t) \/ Lost(t)
             \/ \E answer \in Answers : Serve(t, answer)
      PROVE  Decide(t)
  BY <1>6 DEF Call, Step, Acquire, Leave, OpenRequest, Attach, CheckSend, At,
              Receive, Closed, EndRequest, ConnectFails, RequestFails, Lost, Serve,
              Breaks, GoesOn
<1> QED BY <1>2, <1>3, <1>4, <1>5, <1>6 DEF Next

\* An undisturbed operation that can end well: what its answer says.
LEMMA CalmAnswer ==
  ASSUME IInv, NEW t \in Threads, call[t].at = "replied", call[t].calm,
         Viable(call[t])
  PROVE  /\ call[t].answer \in {"ok", "rejected"} /\ ~Aborted(t)
         /\ call[t].answer = "ok" => call[t].mode \in login
         /\ call[t].answer = "rejected" => call[t].unknown /\ call[t].mode = "wsse"
         /\ call[t].answer = "ok" =>
              /\ call[t].served = 1
              /\ call[t].sent <= IF call[t].first THEN 2 ELSE 1
<1>1. /\ call[t] \in Calls /\ CalmBooks(call[t]) /\ Told(call[t])
      /\ login \subseteq Modes
  BY DEF IInv, Types, CallInv
<1>2. call[t].answer \in {"ok", "rejected"}
  BY <1>1 DEF CalmBooks, After
<1>3. ~Aborted(t)
  BY DEF IInv, Unsignaled, Aborted
<1>4. ASSUME call[t].answer = "rejected"
      PROVE  call[t].unknown /\ call[t].mode = "wsse"
  <2>1. call[t].mode \notin login /\ call[t].mode \in Modes
    BY <1>1, <1>4 DEF CalmBooks, Calls
  <2>2. call[t].unknown /\ login # {}
    BY <2>1 DEF Viable
  <2>3. call[t].mode = "basic" => "wsse" \notin login
    BY <1>1, <2>2 DEF CalmBooks
  <2> QED BY <1>1, <2>1, <2>2, <2>3 DEF Modes
<1>5. call[t].answer = "ok" =>
        /\ call[t].mode \in login /\ call[t].served = 1
        /\ call[t].sent <= IF call[t].first THEN 2 ELSE 1
  BY <1>1 DEF CalmBooks, Told, Before
<1> QED BY <1>2, <1>3, <1>4, <1>5

\* Such an operation returns when it was carried out, and then only.
LEMMA CalmReturn ==
  ASSUME IInv, NEW t \in Threads, Decide(t), call[t].calm, Viable(call[t]),
         call'[t].at = "idle" \/ auth' # auth
  PROVE  call[t].answer = "ok"
<1>1. /\ call[t].at = "replied" /\ call[t] \in Calls /\ Types
  BY DEF Decide, At, IInv, Types
<1>2. SUFFICES ASSUME call[t].unknown, call[t].mode = "wsse",
                      call[t].answer = "rejected"
               PROVE  FALSE
  BY <1>1, CalmAnswer
<1>3. ~Accepted(call[t]) /\ ~Aborted(t)
  BY <1>1, <1>2, CalmAnswer DEF Accepted
<1>4. Goes(t, Sending(call[t], "basic")) /\ auth' = auth
  BY <1>2, <1>3 DEF Decide
<1>5. call'[t] = Sending(call[t], "basic")
  BY <1>1, <1>4 DEF Goes, Types
<1>6. call'[t].at \in {"acquire", "request"}
  BY <1>1, <1>5, SendingIs DEF Modes
<1> QED BY <1>4, <1>6

-----------------------------------------------------------------------------
(* The theorems.                                                           *)

\* SoapPool::Acquire and Release hand the pooled connection to one thread at a
\* time, through retries, failures, aborts and changes of the keep-alive setting,
\* and it is never left in use when nobody has it.
THEOREM OneConnectionOneUser == Spec => []OneUser
<1>1. IInv => OneUser
  BY TurnImplies DEF IInv
<1> QED BY <1>1, AlwaysInv, PTL

\* PostOperation sends an operation that nothing disturbs exactly once in each
\* mode it has to try: the camera carries it out once, and after the service has
\* accepted one before, a single request is enough.
THEOREM ExactlyOnce == Spec => OnceWhenCalm
<1>1. ASSUME IInv, Next, NEW t \in Threads, At(t, "replied"),
             call'[t].at = "idle", call[t].calm, Viable(call[t])
      PROVE  /\ call[t].answer = "ok" /\ call[t].served = 1
             /\ call[t].sent <= IF call[t].first THEN 2 ELSE 1
  <2>1. Decide(t)
    BY <1>1, OnlyDecides DEF At
  <2>2. call[t].answer = "ok"
    BY <1>1, <2>1, CalmReturn
  <2> QED BY <1>1, <2>2, CalmAnswer DEF At
<1>2. IInv /\ [Next]_vars =>
        [\A t \in Threads :
           LET c == call[t]
           IN  At(t, "replied") /\ call'[t].at = "idle" /\ c.calm /\ Viable(c) =>
                 /\ c.answer = "ok" /\ c.served = 1
                 /\ c.sent <= IF c.first THEN 2 ELSE 1]_vars
  BY <1>1
<1> QED BY <1>2, AlwaysInv, PTL DEF Spec, OnceWhenCalm

\* The mode that such an operation leaves in the cache of its service is one in
\* which the camera accepts the credentials, so that later operations do not
\* start with one that fails.
THEOREM CacheLearnsWell == Spec => LearnsAccepted
<1>1. ASSUME IInv, Next, NEW t \in Threads, At(t, "replied"), call[t].calm,
             Viable(call[t]), auth' # auth, call'[t] # call[t]
      PROVE  auth'[call[t].service] \in login
  <2>1. Decide(t) /\ call[t].at = "replied"
    BY <1>1, OnlyDecides DEF At
  <2>2. call[t].answer = "ok" /\ call[t].mode \in login
    BY <1>1, <2>1, CalmReturn, CalmAnswer
  <2>3. Remember(call[t].service, call[t].mode)
    BY <1>1, <2>1, <2>2 DEF Decide
  <2>4. call[t].service \in Services /\ auth \in [Services -> Modes \cup {"unknown"}]
    BY <1>1, <2>1 DEF IInv, Types, CallInv, Told
  <2> QED BY <1>1, <2>2, <2>3, <2>4 DEF Remember
<1>2. IInv /\ [Next]_vars =>
        [\A t \in Threads :
           At(t, "replied") /\ call[t].calm /\ Viable(call[t])
             /\ auth' # auth /\ call'[t] # call[t] =>
                auth'[call[t].service] \in login]_vars
  BY <1>1
<1> QED BY <1>2, AlwaysInv, PTL DEF Spec, LearnsAccepted
=============================================================================
