---------------------------- MODULE PresetsProofs ----------------------------
(***************************************************************************)
(* Theorems about Presets, for any finite set of cameras and any tokens,   *)
(* threads, profiles and number of events.                                 *)
(***************************************************************************)
EXTENDS Presets, FiniteSetTheorems, SequenceTheorems, TLAPS

Works ==
  [at : {"call", "resolve", "store", "send", "remember", "queued"},
   op : {"list", "goto", "save", "rename", "delete"}, cam : Cameras,
   token : Tokens \cup {None}, of : Cameras \cup {None}, raced : BOOLEAN,
   profile : Nat, again : BOOLEAN, got : SUBSET Tokens]
ThreadStates == {Idle} \cup Works
Entries == {None} \cup [profile : Nat, old : BOOLEAN]

Types ==
  /\ table \in Seq(Cameras)
  /\ profile \in [Cameras -> Nat] /\ presets \in [Cameras -> SUBSET Tokens]
  /\ rows \in Seq(Cameras) /\ sel \in Cameras \cup {None}
  /\ list \in [of : Cameras \cup {None}, items : SUBSET Tokens] /\ raced \in BOOLEAN
  /\ thread \in [Threads -> ThreadStates] /\ cache \in [Cameras -> Entries]
  /\ last \in [Cameras -> Tokens \cup {None}] /\ served \in [Cameras -> Tokens \cup {None}]
  /\ known \in [Cameras -> BOOLEAN] /\ events \in 0 .. MaxEvents

\* While the tab is not raced, what is still to be listed is of the selected
\* camera; a list of no camera has nothing that could be sent; nothing but lists
\* is queued.
ListsRight == raced \/ \A t \in Threads : Listing(t) => thread[t].cam = sel
EmptyList  == list.of = None => list.items = {}
OnlyLists  == \A t \in Threads : At(t, "queued") => Listing(t)

\* What is about to be remembered of a camera is what it was served.
Remembers ==
  \A c \in Cameras : known[c] =>
    \A t \in Remembering(c) : thread[t].token = served[c]

TabInv  == RightList /\ ListsRight /\ EmptyList /\ OnlyLists
LastInv == LastIsServed /\ Remembers

IInv == Types /\ TabInv /\ LastInv

-----------------------------------------------------------------------------
(* Threads.                                                                *)

LEMMA NoneIsNoCamera ==
  None \notin Cameras /\ None \notin Tokens
BY PresetsAssumption DEF PresetsAssumption

LEMMA IdleIs ==
  Idle.at = "idle" /\ Idle \notin Works /\ \A th \in Works : th.at # "idle"
BY DEF Idle, Works

LEMMA Working ==
  ASSUME Types, NEW t \in Threads, Active(t)
  PROVE  thread[t] \in Works
BY IdleIs DEF Types, ThreadStates, Active, At

LEMMA CallIs ==
  ASSUME raced \in BOOLEAN,
         NEW op \in {"list", "goto", "save", "rename", "delete"}, NEW c \in Cameras,
         NEW token \in Tokens \cup {None}, NEW of \in Cameras \cup {None}
  PROVE  /\ Call(op, c, token, of) \in Works
         /\ Call(op, c, token, of).at = "call" /\ Call(op, c, token, of).op = op
         /\ Call(op, c, token, of).cam = c /\ Call(op, c, token, of).of = of
         /\ Call(op, c, token, of).raced = raced
BY DEF Call, Works

\* The threads that are to remember something stay as they are.
SameMemory ==
  \A t \in Threads : At(t, "remember") \/ At(t, "remember")' => thread'[t] = thread[t]

LEMMA LastAside ==
  ASSUME LastInv, SameMemory, UNCHANGED <<last, served, known>>
  PROVE  LastInv'
<1>1. \A c \in Cameras : Remembering(c)' = Remembering(c)
  BY DEF SameMemory, Remembering, At
<1>2. \A c \in Cameras : \A t \in Remembering(c) : thread'[t] = thread[t]
  BY DEF SameMemory, Remembering
<1> QED BY <1>1, <1>2 DEF LastInv, LastIsServed, Remembers

LEMMA EventIs ==
  ASSUME Types, NEW n \in 0 .. 1, Event(n)
  PROVE  events' \in 0 .. MaxEvents
BY PresetsAssumption DEF Types, Event, PresetsAssumption

\* A step of a thread: it ends, or goes on with the same call.
Continues(t, th) ==
  th \in Works =>
    /\ th.cam = thread[t].cam /\ th.op = thread[t].op
    /\ th.of = thread[t].of /\ th.raced = thread[t].raced
    /\ th.at = "queued" => th.op = "list"

LEMMA GoesOn ==
  ASSUME Types, TabInv, NEW t \in Threads, Active(t), NEW th \in ThreadStates,
         Continues(t, th), Goes(t, th), UNCHANGED tab
  PROVE  thread' \in [Threads -> ThreadStates] /\ TabInv'
<1>1. thread' \in [Threads -> ThreadStates] /\ thread'[t] = th
      /\ \A u \in Threads \ {t} : thread'[u] = thread[u]
  BY DEF Goes, Types
<1>2. \A u \in Threads : Active(u)' =>
        /\ Active(u) /\ thread'[u].cam = thread[u].cam
        /\ thread'[u].op = thread[u].op /\ thread'[u].of = thread[u].of
        /\ thread'[u].raced = thread[u].raced
  BY <1>1, IdleIs DEF Active, At, Continues, ThreadStates
<1>3. OnlyLists'
  BY <1>1, IdleIs DEF TabInv, OnlyLists, Listing, Active, At, Continues, ThreadStates
<1> QED BY <1>1, <1>2, <1>3 DEF TabInv, RightList, ListsRight, EmptyList, Listing, tab

-----------------------------------------------------------------------------
(* The tab.                                                                *)

\* Threads are started in th, which list nothing.
Joined(th) ==
  /\ th \in [Threads -> ThreadStates]
  /\ \A t \in Threads :
       \/ th[t] = thread[t]
       \/ /\ thread[t] = Idle /\ th[t].at = "call" /\ th[t].op # "list"
          /\ th[t].of = th[t].cam \/ th[t].raced

\* A refreshed tab is raced, or only lists of its camera are on their way.
LEMMA RefreshIs ==
  ASSUME Types, TabInv, NEW c \in Cameras \cup {None}, NEW th, Joined(th),
         RefreshPresets(c, th), sel' = c
  PROVE  /\ thread' \in [Threads -> ThreadStates] /\ raced' \in BOOLEAN
         /\ list' = NoList /\ TabInv' /\ SameMemory
<1>1. /\ raced' = (\E u \in Threads : Listing(u) /\ thread[u].cam # c)
      /\ list' = NoList
      /\ IF c = None THEN thread' = th
         ELSE \E t \in Free(th) : thread' = [th EXCEPT ![t] = Call("list", c, None, c)]
  BY DEF RefreshPresets
<1>2. raced' \in BOOLEAN /\ NoList.of = None /\ NoList.items = {}
  BY <1>1 DEF NoList
<1>3. /\ thread' \in [Threads -> ThreadStates]
      /\ \A t \in Threads :
           \/ thread'[t] = th[t]
           \/ /\ th[t] = Idle /\ c # None
              /\ thread'[t].at = "call" /\ thread'[t].op = "list"
              /\ thread'[t].cam = c /\ thread'[t].of = c
  <2>1. CASE c = None
    BY <1>1, <2>1 DEF Joined
  <2>2. CASE c # None
    <3> DEFINE new == Call("list", c, None, c)
    <3>1. PICK t \in Free(th) : thread' = [th EXCEPT ![t] = new]
      BY <1>1, <2>2
    <3>2. new \in ThreadStates /\ new.at = "call" /\ new.op = "list" /\ new.cam = c
          /\ new.of = c
      <4>1. raced \in BOOLEAN /\ c \in Cameras /\ c \in Cameras \cup {None}
            /\ None \in Tokens \cup {None}
            /\ "list" \in {"list", "goto", "save", "rename", "delete"}
        BY <2>2 DEF Types
      <4>2. new \in Works /\ new.at = "call" /\ new.op = "list" /\ new.cam = c
            /\ new.of = c
        BY <4>1, CallIs
      <4> QED BY <4>2 DEF ThreadStates
    <3> HIDE DEF new
    <3>3. t \in Threads /\ th[t] = Idle
      BY DEF Free
    <3> QED BY <2>2, <3>1, <3>2, <3>3 DEF Joined
  <2> QED BY <2>1, <2>2
<1>4. SameMemory
  BY <1>3, IdleIs DEF SameMemory, Joined, At
<1>5. ListsRight'
  BY <1>1, <1>3, IdleIs DEF ListsRight, Listing, Active, At, Joined
<1>6. \A t \in Threads : Active(t)' => thread'[t].of = thread'[t].cam \/ thread'[t].raced
  BY <1>3, IdleIs DEF TabInv, RightList, Active, At, Joined
<1>7. OnlyLists'
  BY <1>3 DEF TabInv, OnlyLists, Listing, Active, At, Joined
<1> QED BY <1>1, <1>2, <1>3, <1>4, <1>5, <1>6, <1>7 DEF TabInv, RightList, EmptyList

LEMMA JoinedNone ==
  ASSUME Types
  PROVE  Joined(thread)
BY DEF Types, Joined

\* What a button sends is of the selected camera, unless the tab is raced.
LEMMA Picked ==
  ASSUME TabInv, NEW token \in list.items
  PROVE  list.of = sel \/ raced
BY DEF TabInv, RightList, EmptyList

LEMMA JoinedCall ==
  ASSUME Types, NEW t \in Free(thread), NEW op \in {"goto", "save", "rename", "delete"},
         NEW c \in Cameras, NEW token \in Tokens \cup {None},
         NEW of \in Cameras \cup {None}, of = c \/ raced
  PROVE  Joined([thread EXCEPT ![t] = Call(op, c, token, of)])
<1> DEFINE new == Call(op, c, token, of)
<1>1. new \in ThreadStates /\ new.at = "call" /\ new.op = op
      /\ (new.of = new.cam \/ new.raced)
  <2>1. raced \in BOOLEAN /\ op \in {"list", "goto", "save", "rename", "delete"}
    BY DEF Types
  <2>2. /\ new \in Works /\ new.at = "call" /\ new.op = op
        /\ new.cam = c /\ new.of = of /\ new.raced = raced
    BY <2>1, CallIs
  <2> QED BY <2>2 DEF ThreadStates
<1> HIDE DEF new
<1>2. t \in Threads /\ thread[t] = Idle
  BY DEF Free
<1> SUFFICES Joined([thread EXCEPT ![t] = new])
  BY DEF new
<1> QED BY <1>1, <1>2 DEF Joined, Types

LEMMA JoinedGoes ==
  ASSUME Types, NEW t \in Free(thread), NEW c \in Cameras,
         NEW token \in Tokens \cup {None}, NEW of \in Cameras \cup {None}, of = c \/ raced,
         Goes(t, Call("goto", c, token, of))
  PROVE  Joined(thread')
<1> DEFINE started == [thread EXCEPT ![t] = Call("goto", c, token, of)]
<1>1. Joined(started)
  BY JoinedCall
<1>2. thread' = started
  BY DEF Goes
<1> HIDE DEF started
<1> QED BY <1>1, <1>2 DEF Joined

\* One of these threads alone, the tab staying as it is.
LEMMA JoinedAside ==
  ASSUME Types, TabInv, Joined(thread'), UNCHANGED tab
  PROVE  thread' \in [Threads -> ThreadStates] /\ TabInv' /\ SameMemory
<1>1. SameMemory
  BY IdleIs DEF Joined, SameMemory, At
<1>2. TabInv'
  <2>1. OnlyLists'
    BY DEF Joined, TabInv, OnlyLists, Listing, Active, At
  <2> QED BY <2>1, IdleIs
          DEF Joined, TabInv, RightList, ListsRight, EmptyList, Listing, Active, At, tab
<1> QED BY <1>1, <1>2 DEF Joined

-----------------------------------------------------------------------------
(* The user.                                                               *)

LEMMA ReselectedIs ==
  ASSUME Types
  PROVE  Reselected \in Cameras \cup {None}
BY DEF Types, Reselected, Listed, ToSet

\* RefreshPresets alone, of whichever camera is selected then.
LEMMA RefreshInv ==
  ASSUME IInv, NEW c \in Cameras \cup {None}, RefreshPresets(c, thread), sel' = c,
         rows' \in Seq(Cameras), UNCHANGED <<cameras, session, events>>
  PROVE  IInv'
<1>1. /\ thread' \in [Threads -> ThreadStates] /\ raced' \in BOOLEAN
      /\ list' = NoList /\ TabInv' /\ SameMemory
  BY RefreshIs, JoinedNone DEF IInv
<1>2. Types'
  BY <1>1 DEF IInv, Types, NoList, cameras, session
<1>3. LastInv'
  BY <1>1, LastAside DEF IInv, session
<1> QED BY <1>1, <1>2, <1>3 DEF IInv

LEMMA RefreshCamerasInv ==
  ASSUME IInv, RefreshCameras
  PROVE  IInv'
BY ReselectedIs, RefreshInv DEF RefreshCameras, IInv, Types

LEMMA SelectInv ==
  ASSUME IInv, NEW c \in Cameras, Select(c)
  PROVE  IInv'
BY RefreshInv DEF Select, IInv, Types

LEMMA RefreshButtonInv ==
  ASSUME IInv, Refresh
  PROVE  IInv'
BY RefreshInv DEF Refresh, IInv, Types

\* One more thread is all.
LEMMA JoinedInv ==
  ASSUME IInv, Joined(thread'), events' \in 0 .. MaxEvents,
         UNCHANGED <<cameras, tab, session>>
  PROVE  IInv'
<1>1. thread' \in [Threads -> ThreadStates] /\ TabInv' /\ SameMemory
  BY JoinedAside DEF IInv
<1>2. Types'
  BY <1>1 DEF IInv, Types, cameras, tab, session
<1>3. LastInv'
  BY <1>1, LastAside DEF IInv, session
<1> QED BY <1>1, <1>2, <1>3 DEF IInv

LEMMA GotoInv ==
  ASSUME IInv, NEW token \in Tokens, Goto(token)
  PROVE  IInv'
<1>1. PICK t \in Free(thread) : Goes(t, Call("goto", sel, token, list.of))
  BY DEF Goto
<1>2. /\ sel \in Cameras /\ list.of \in Cameras \cup {None}
      /\ list.of = sel \/ raced
  BY Picked DEF IInv, Types, Goto
<1>3. Joined(thread')
  <2>1. token \in Tokens \cup {None}
    OBVIOUS
  <2> QED BY <1>1, <1>2, <2>1, JoinedGoes DEF IInv
<1>4. events' \in 0 .. MaxEvents
  BY EventIs DEF IInv, Goto
<1> QED BY <1>3, <1>4, JoinedInv DEF Goto

LEMMA FireInv ==
  ASSUME IInv, NEW c \in Cameras, NEW token \in Tokens,
         Event(1), \E t \in Free(thread) : Goes(t, Call("goto", c, token, c)),
         UNCHANGED <<cameras, tab, session>>
  PROVE  IInv'
<1>1. Joined(thread')
  <2>1. PICK t \in Free(thread) : Goes(t, Call("goto", c, token, c))
    OBVIOUS
  <2>2. token \in Tokens \cup {None} /\ c \in Cameras \cup {None}
    OBVIOUS
  <2> QED BY <2>1, <2>2, JoinedGoes DEF IInv
<1>2. events' \in 0 .. MaxEvents
  BY EventIs DEF IInv
<1> QED BY <1>1, <1>2, JoinedInv

LEMMA ChangeInv ==
  ASSUME IInv, NEW op \in {"save", "rename", "delete"},
         NEW token \in Tokens \cup {None}, Change(op, token)
  PROVE  IInv'
<1> DEFINE of == IF op = "save" THEN sel ELSE list.of
<1>1. PICK t \in Free(thread) :
        RefreshPresets(sel, [thread EXCEPT ![t] = Call(op, sel, token, of)])
  BY DEF Change
<1>2. /\ sel \in Cameras /\ of \in Cameras \cup {None} /\ (of = sel \/ raced)
      /\ UNCHANGED <<cameras, rows, sel, session>>
  BY Picked DEF IInv, Types, Change
<1> HIDE DEF of
<1>3. Joined([thread EXCEPT ![t] = Call(op, sel, token, of)])
  BY <1>2, JoinedCall DEF IInv
<1>4. events' \in 0 .. MaxEvents
  BY EventIs DEF IInv, Change
<1>5. /\ thread' \in [Threads -> ThreadStates] /\ raced' \in BOOLEAN
      /\ list' = NoList /\ TabInv' /\ SameMemory
  <2>1. sel' = sel /\ sel \in Cameras \cup {None}
    BY <1>2
  <2> QED BY <1>1, <1>3, <2>1, RefreshIs DEF IInv
<1>6. Types'
  BY <1>2, <1>4, <1>5 DEF IInv, Types, NoList, cameras, session
<1>7. LastInv'
  BY <1>2, <1>5, LastAside DEF IInv, session
<1> QED BY <1>5, <1>6, <1>7 DEF IInv

-----------------------------------------------------------------------------
(* A thread.                                                               *)

\* A step up to the request: the thread has nothing to remember.
LEMMA GoesInv ==
  ASSUME IInv, NEW t \in Threads, Active(t), ~At(t, "remember"),
         NEW th \in ThreadStates, Continues(t, th), th.at # "remember", Goes(t, th),
         cache' \in [Cameras -> Entries], events' \in 0 .. MaxEvents,
         UNCHANGED <<cameras, tab, last, served, known>>
  PROVE  IInv'
<1>1. thread' \in [Threads -> ThreadStates] /\ TabInv'
  BY GoesOn DEF IInv
<1>2. Types'
  BY <1>1 DEF IInv, Types, cameras, tab
<1>3. SameMemory
  BY DEF SameMemory, Goes, At, IInv, Types
<1> QED BY <1>1, <1>2, <1>3, LastAside DEF IInv

\* What a thread that goes on may become.
LEMMA NextStates ==
  ASSUME Types, NEW t \in Threads, Active(t),
         NEW at \in {"resolve", "store", "send", "queued"},
         at = "queued" => thread[t].op = "list"
  PROVE  /\ [thread[t] EXCEPT !.at = at] \in ThreadStates
         /\ [thread[t] EXCEPT !.at = at].at = at
         /\ Continues(t, [thread[t] EXCEPT !.at = at])
<1>1. thread[t] \in Works
  BY Working
<1> QED BY <1>1 DEF ThreadStates, Works, Continues

LEMMA NextProfile ==
  ASSUME Types, NEW t \in Threads, Active(t), NEW at \in {"store", "send"},
         NEW p \in Nat
  PROVE  /\ [thread[t] EXCEPT !.at = at, !.profile = p] \in ThreadStates
         /\ [thread[t] EXCEPT !.at = at, !.profile = p].at = at
         /\ Continues(t, [thread[t] EXCEPT !.at = at, !.profile = p])
<1>1. thread[t] \in Works
  BY Working
<1> QED BY <1>1 DEF ThreadStates, Works, Continues

LEMMA FailedIs ==
  ASSUME IInv, NEW t \in Threads, Active(t), ~At(t, "remember"), Failed(t),
         cache' \in [Cameras -> Entries], events' \in 0 .. MaxEvents,
         UNCHANGED <<cameras, tab, last, served, known>>
  PROVE  IInv'
<1> DEFINE th == IF Listing(t) THEN [thread[t] EXCEPT !.at = "queued"] ELSE Idle
<1>1. th \in ThreadStates /\ Continues(t, th) /\ th.at # "remember"
  <2>1. CASE Listing(t)
    BY <2>1, NextStates DEF IInv, Listing
  <2>2. CASE ~Listing(t)
    BY <2>2, IdleIs DEF ThreadStates, Continues
  <2> QED BY <2>1, <2>2
<1>2. Goes(t, th)
  BY DEF Failed
<1> HIDE DEF th
<1> QED BY <1>1, <1>2, GoesInv

LEMMA LookupInv ==
  ASSUME IInv, NEW t \in Threads, Lookup(t)
  PROVE  IInv'
<1> DEFINE c == thread[t].cam
<1>1. Active(t) /\ ~At(t, "remember") /\ c \in Cameras
  BY Working DEF Lookup, Active, At, IInv, Works
<1>2. /\ cache' \in [Cameras -> Entries]
      /\ UNCHANGED <<cameras, tab, last, served, known>>
  BY DEF Lookup, session, IInv, Types
<1>3. CASE Event(IF Listed(c) THEN 1 ELSE 0) /\ Failed(t)
  <2>1. events' \in 0 .. MaxEvents
    BY <1>3, EventIs DEF IInv
  <2> QED BY <1>1, <1>2, <1>3, <2>1, FailedIs
<1>4. CASE UNCHANGED events
           /\ Goes(t, IF Hit(c)
                      THEN [thread[t] EXCEPT !.at = "send", !.profile = cache[c].profile]
                      ELSE [thread[t] EXCEPT !.at = "resolve"])
  <2>1. Hit(c) => cache[c].profile \in Nat
    BY <1>1 DEF Hit, IInv, Types, Entries
  <2>2. CASE Hit(c)
    <3> DEFINE p == cache[c].profile
               th == [thread[t] EXCEPT !.at = "send", !.profile = p]
    <3>1. th \in ThreadStates /\ Continues(t, th) /\ th.at = "send"
      <4>1. p \in Nat
        BY <2>1, <2>2
      <4> HIDE DEF p
      <4> QED BY <1>1, <4>1, NextProfile DEF IInv
    <3>2. Goes(t, th)
      BY <1>4, <2>2
    <3> HIDE DEF th
    <3> QED BY <1>1, <1>2, <1>4, <3>1, <3>2, GoesInv DEF IInv, Types
  <2>3. CASE ~Hit(c)
    <3> DEFINE th == [thread[t] EXCEPT !.at = "resolve"]
    <3>1. th \in ThreadStates /\ Continues(t, th) /\ th.at = "resolve"
      BY <1>1, NextStates DEF IInv
    <3>2. Goes(t, th)
      BY <1>4, <2>3
    <3> HIDE DEF th
    <3> QED BY <1>1, <1>2, <1>4, <3>1, <3>2, GoesInv DEF IInv, Types
  <2> QED BY <2>2, <2>3
<1> QED BY <1>3, <1>4 DEF Lookup

LEMMA ResolveInv ==
  ASSUME IInv, NEW t \in Threads, Resolve(t)
  PROVE  IInv'
<1> DEFINE c == thread[t].cam
<1>1. Active(t) /\ ~At(t, "remember") /\ c \in Cameras /\ thread[t] \in Works
  BY Working DEF Resolve, Active, At, IInv, Works
<1>2. UNCHANGED <<cameras, tab, last, served, known>> /\ cache \in [Cameras -> Entries]
  BY DEF Resolve, IInv, Types
<1>3. CASE GetCapabilitiesFails(t)
  <2>1. events' \in 0 .. MaxEvents
    BY <1>3, EventIs DEF IInv, GetCapabilitiesFails
  <2> QED BY <1>1, <1>2, <1>3, <2>1, FailedIs DEF GetCapabilitiesFails
<1>4. CASE GetProfilesFails(t)
  <2>1. events' \in 0 .. MaxEvents
    BY <1>4, EventIs DEF IInv, GetProfilesFails
  <2>2. CASE Failed(t) /\ UNCHANGED cache
    BY <1>1, <1>2, <2>1, <2>2, FailedIs
  <2>3. CASE /\ Goes(t, [thread[t] EXCEPT !.again = TRUE])
             /\ cache' = [cache EXCEPT ![c] = None]
    <3> DEFINE th == [thread[t] EXCEPT !.again = TRUE]
    <3>1. th \in ThreadStates /\ Continues(t, th) /\ th.at = "resolve"
      BY <1>1 DEF ThreadStates, Works, Continues, Resolve, At
    <3>2. Goes(t, th)
      BY <2>3
    <3>3. cache' \in [Cameras -> Entries]
      BY <1>2, <2>3 DEF Entries
    <3> HIDE DEF th
    <3> QED BY <1>1, <1>2, <2>1, <3>1, <3>2, <3>3, GoesInv
  <2> QED BY <1>4, <2>2, <2>3 DEF GetProfilesFails
<1>5. CASE GetProfiles(t)
  <2> DEFINE p == profile[c]
             th == [thread[t] EXCEPT !.at = "store", !.profile = p]
  <2>1. th \in ThreadStates /\ Continues(t, th) /\ th.at = "store"
    <3>1. p \in Nat
      BY <1>1 DEF IInv, Types
    <3> HIDE DEF p
    <3> QED BY <1>1, <3>1, NextProfile DEF IInv
  <2>2. Goes(t, th) /\ UNCHANGED <<cache, events>>
    BY <1>5 DEF GetProfiles
  <2> HIDE DEF th
  <2> QED BY <1>1, <1>2, <2>1, <2>2, GoesInv DEF IInv, Types
<1> QED BY <1>3, <1>4, <1>5 DEF Resolve

LEMMA StoreCacheInv ==
  ASSUME IInv, NEW t \in Threads, StoreCache(t)
  PROVE  IInv'
<1>1. Active(t) /\ ~At(t, "remember") /\ thread[t] \in Works
  BY Working DEF StoreCache, Active, At, IInv
<1>2. cache' \in [Cameras -> Entries]
  BY <1>1 DEF StoreCache, IInv, Types, Entries, Works
<1> DEFINE th == [thread[t] EXCEPT !.at = "send"]
<1>3. th \in ThreadStates /\ Continues(t, th) /\ th.at = "send"
  BY <1>1, NextStates DEF IInv
<1>4. Goes(t, th) /\ UNCHANGED <<cameras, tab, last, served, known, events>>
  BY DEF StoreCache
<1> HIDE DEF th
<1> QED BY <1>1, <1>2, <1>3, <1>4, GoesInv DEF IInv, Types

\* Fetching and sending: what a request to the camera of t changes.
LEMMA ObeyedIs ==
  ASSUME Types, NEW th \in Works, NEW tk \in Tokens \cup {None}, Obeyed(th, tk)
  PROVE  /\ Kept(th, tk) \in SUBSET Tokens
         /\ Remembered(th) => tk \in Tokens
<1>1. presets[th.cam] \in SUBSET Tokens
  BY DEF Types, Works
<1>2. Remembered(th) => tk \in Tokens
  BY <1>1 DEF Obeyed, GotoPreset, SetPreset, GetPresets, RenamePreset, DeletePreset,
              Named, Remembered
<1>3. Kept(th, tk) \in SUBSET Tokens
  BY <1>1, <1>2 DEF Kept, Remembered
<1> QED BY <1>2, <1>3

LEMMA SentInv ==
  ASSUME IInv, NEW t \in Threads, At(t, "send"), NEW tk \in Tokens \cup {None},
         Sent(t, tk), UNCHANGED <<table, profile, tab, cache, last>>
  PROVE  IInv'
<1> DEFINE th == thread[t]
<1>1. Active(t) /\ ~At(t, "remember") /\ th \in Works /\ th.cam \in Cameras
  BY Working DEF Active, At, IInv, Works
<1>0. PICK c \in Cameras : c = th.cam
  BY <1>1
<1>2. /\ Obeyed(th, tk) /\ presets' = [presets EXCEPT ![c] = Kept(th, tk)]
  BY <1>0 DEF Sent
<1>3. presets' \in [Cameras -> SUBSET Tokens] /\ (Remembered(th) => tk \in Tokens)
  BY <1>0, <1>1, <1>2, ObeyedIs DEF IInv, Types
<1>4. PICK lost \in BOOLEAN :
        /\ Event(IF lost THEN 1 ELSE 0)
        /\ IF Remembered(th)
           THEN /\ served' = [served EXCEPT ![c] = tk]
                /\ known' = [known EXCEPT ![c] = ~lost /\ Remembering(c) = {}]
           ELSE UNCHANGED <<served, known>>
        /\ IF lost THEN Failed(t)
           ELSE Goes(t, CASE th.op = "list" ->
                               [th EXCEPT !.at = "queued", !.got = presets[c]]
                          [] Remembered(th) ->
                               [th EXCEPT !.at = "remember", !.token = tk]
                          [] OTHER -> Idle)
  BY <1>0 DEF Sent
<1>5. events' \in 0 .. MaxEvents
  BY <1>0, <1>4, EventIs DEF IInv
<1>6. served' \in [Cameras -> Tokens \cup {None}] /\ known' \in [Cameras -> BOOLEAN]
  BY <1>0, <1>1, <1>4 DEF IInv, Types
<1>7. PICK new \in ThreadStates :
        /\ Goes(t, new) /\ Continues(t, new)
        /\ new.at = "remember" => /\ ~lost /\ Remembered(th)
                                  /\ new.cam = c /\ new.token = tk
  <2>1. CASE lost
    <3>1. CASE Listing(t)
      <4>1. [th EXCEPT !.at = "queued"] \in ThreadStates
            /\ Continues(t, [th EXCEPT !.at = "queued"])
            /\ [th EXCEPT !.at = "queued"].at = "queued"
        BY <1>0, <1>1, <3>1, NextStates DEF IInv, Listing
      <4> QED BY <1>0, <1>4, <2>1, <3>1, <4>1 DEF Failed
    <3>2. CASE ~Listing(t)
      BY <1>0, <1>4, <2>1, <3>2, IdleIs DEF Failed, ThreadStates, Continues
    <3> QED BY <3>1, <3>2
  <2>2. CASE ~lost /\ th.op = "list"
    <3> DEFINE new == [th EXCEPT !.at = "queued", !.got = presets[c]]
    <3>1. presets[c] \in SUBSET Tokens
      BY <1>0, <1>1 DEF IInv, Types
    <3>2. new \in ThreadStates /\ new.at = "queued" /\ Continues(t, new)
      BY <1>0, <1>1, <2>2, <3>1 DEF ThreadStates, Works, Continues
    <3>3. Goes(t, new)
      <4>1. Goes(t, CASE th.op = "list" -> new
                      [] Remembered(th) ->
                           [th EXCEPT !.at = "remember", !.token = tk]
                      [] OTHER -> Idle)
        BY <1>0, <1>4, <2>2
      <4>2. th.op = "list" /\ ~Remembered(th)
        BY <2>2 DEF Remembered
      <4> HIDE DEF new, th
      <4> QED BY <4>1, <4>2
    <3> HIDE DEF new
    <3> QED BY <3>2, <3>3
  <2>3. CASE ~lost /\ th.op # "list" /\ Remembered(th)
    <3> DEFINE new == [th EXCEPT !.at = "remember", !.token = tk]
    <3>1. /\ new \in ThreadStates /\ new.cam = c /\ new.token = tk
          /\ new.at = "remember" /\ Continues(t, new)
      BY <1>0, <1>1 DEF ThreadStates, Works, Continues
    <3>2. Goes(t, new)
      BY <1>0, <1>4, <2>3
    <3> HIDE DEF new
    <3> QED BY <2>3, <3>1, <3>2
  <2>4. CASE ~lost /\ th.op # "list" /\ ~Remembered(th)
    <3>1. Goes(t, Idle)
      BY <1>0, <1>4, <2>4
    <3> QED BY <3>1, IdleIs DEF ThreadStates, Continues
  <2> QED BY <2>1, <2>2, <2>3, <2>4
<1>8. thread' \in [Threads -> ThreadStates] /\ TabInv'
  BY <1>0, <1>1, <1>7, GoesOn DEF IInv
<1>9. Types'
  BY <1>0, <1>3, <1>5, <1>6, <1>8 DEF IInv, Types, tab
<1>10. thread'[t] = new /\ \A u \in Threads \ {t} : thread'[u] = thread[u]
  BY <1>0, <1>7 DEF Goes, IInv, Types
<1>11. LastInv'
  <2>1. CASE Remembered(th)
    <3>1. \A d \in Cameras \ {c} :
            /\ Remembering(d)' = Remembering(d) /\ known'[d] = known[d]
            /\ served'[d] = served[d] /\ last'[d] = last[d]
            /\ \A u \in Remembering(d) : thread'[u] = thread[u]
      <4> SUFFICES ASSUME NEW d \in Cameras \ {c}
                   PROVE  /\ Remembering(d)' = Remembering(d) /\ known'[d] = known[d]
                          /\ served'[d] = served[d] /\ last'[d] = last[d]
                          /\ \A u \in Remembering(d) : thread'[u] = thread[u]
        OBVIOUS
      <4>1. t \notin Remembering(d) /\ t \notin Remembering(d)'
        <5>1. ~At(t, "remember") /\ thread'[t] = new
          BY <1>0, <1>1, <1>10
        <5>2. new.at = "remember" => new.cam # d
          BY <1>0, <1>7
        <5> QED BY <5>1, <5>2 DEF Remembering, At
      <4>2. \A u \in Threads \ {t} : u \in Remembering(d)' <=> u \in Remembering(d)
        BY <1>0, <1>10 DEF Remembering, At
      <4>3. Remembering(d)' = Remembering(d)
        BY <4>1, <4>2 DEF Remembering
      <4>4. \A u \in Remembering(d) : thread'[u] = thread[u]
        BY <4>1, <1>10 DEF Remembering
      <4>5. known'[d] = known[d] /\ served'[d] = served[d] /\ last'[d] = last[d]
        BY <1>0, <1>4, <2>1 DEF IInv, Types
      <4> QED BY <4>3, <4>4, <4>5
    <3>2. known'[c] => /\ ~lost /\ Remembering(c) = {}
      BY <1>0, <1>1, <1>4, <2>1 DEF IInv, Types
    <3>3. served'[c] = tk
      BY <1>0, <1>1, <1>4, <2>1 DEF IInv, Types
    <3>4. ~lost => new.at = "remember" /\ new.cam = c /\ new.token = tk
      <4>1. ~lost => thread'[t] = [th EXCEPT !.at = "remember", !.token = tk]
        BY <1>0, <1>4, <2>1 DEF Goes, Remembered, IInv, Types
      <4> QED BY <1>0, <1>1, <1>10, <4>1 DEF Works
    <3>5. known'[c] => Remembering(c)' = {t} /\ thread'[t].token = served'[c]
      BY <1>0, <1>10, <3>2, <3>3, <3>4 DEF Remembering, At
    <3>6. \A d \in Cameras : known'[d] =>
            /\ Remembering(d)' = {} => last'[d] = served'[d]
            /\ \A u \in Remembering(d)' : thread'[u].token = served'[d]
      <4> SUFFICES ASSUME NEW d \in Cameras, known'[d]
                   PROVE  /\ Remembering(d)' = {} => last'[d] = served'[d]
                          /\ \A u \in Remembering(d)' : thread'[u].token = served'[d]
        OBVIOUS
      <4>1. CASE d # c
        <5>1. d \in Cameras \ {c}
          BY <4>1
        <5>2. known[d] /\ served'[d] = served[d] /\ last'[d] = last[d]
              /\ Remembering(d)' = Remembering(d)
              /\ \A u \in Remembering(d) : thread'[u] = thread[u]
          BY <3>1, <5>1
        <5>3. Remembering(d) = {} => last[d] = served[d]
          BY <5>1, <5>2 DEF IInv, LastInv, LastIsServed
        <5>4. \A u \in Remembering(d) : thread[u].token = served[d]
          BY <5>1, <5>2 DEF IInv, LastInv, Remembers
        <5>5. Remembering(d)' = {} => last'[d] = served'[d]
          BY <5>2, <5>3
        <5>6. \A u \in Remembering(d)' : thread'[u].token = served'[d]
          BY <5>2, <5>4
        <5> QED BY <5>5, <5>6
      <4>2. CASE d = c
        BY <3>5, <4>2
      <4> QED BY <4>1, <4>2
    <3> QED BY <3>6 DEF LastInv, LastIsServed, Remembers
  <2>2. CASE ~Remembered(th)
    <3>1. SameMemory
      BY <1>0, <1>1, <1>7, <1>10, <2>2 DEF SameMemory, At
    <3> QED BY <1>0, <1>4, <2>2, <3>1, LastAside DEF IInv
  <2> QED BY <2>1, <2>2
<1> QED BY <1>0, <1>8, <1>9, <1>11 DEF IInv

LEMMA SendInv ==
  ASSUME IInv, NEW t \in Threads, Send(t)
  PROVE  IInv'
<1>1. Active(t) /\ ~At(t, "remember") /\ At(t, "send")
  BY DEF Send, Active, At
<1>2. UNCHANGED <<table, profile, tab, cache, last>>
  BY DEF Send
<1>3. CASE \E tk \in Tokens \cup {None} : Sent(t, tk)
  BY <1>1, <1>2, <1>3, SentInv
<1>4. CASE Failed(t) /\ UNCHANGED <<presets, served, known>> /\ events' \in 0 .. MaxEvents
  <2>1. cache' \in [Cameras -> Entries] /\ UNCHANGED cameras
    BY <1>2, <1>4 DEF IInv, Types, cameras
  <2> QED BY <1>1, <1>2, <1>4, <2>1, FailedIs
<1>5. Event(1) => events' \in 0 .. MaxEvents
  BY EventIs DEF IInv
<1>6. UNCHANGED events => events' \in 0 .. MaxEvents
  BY DEF IInv, Types
<1> QED BY <1>3, <1>4, <1>5, <1>6 DEF Send

LEMMA RememberInv ==
  ASSUME IInv, NEW t \in Threads, Remember(t)
  PROVE  IInv'
<1> DEFINE c == thread[t].cam
<1>1. Active(t) /\ thread[t] \in Works /\ c \in Cameras /\ t \in Remembering(c)
  BY Working DEF Remember, Active, At, IInv, Works, Remembering
<1>2. /\ last' = [last EXCEPT ![c] = thread[t].token] /\ Goes(t, Idle)
      /\ UNCHANGED <<cameras, tab, cache, served, known, events>>
  BY DEF Remember
<1>3. thread' \in [Threads -> ThreadStates] /\ TabInv'
  <2>1. Idle \in ThreadStates /\ Continues(t, Idle)
    BY IdleIs DEF ThreadStates, Continues
  <2> QED BY <1>1, <1>2, <2>1, GoesOn DEF IInv
<1>4. last' \in [Cameras -> Tokens \cup {None}]
  BY <1>1, <1>2 DEF IInv, Types, Works
<1>5. Types'
  BY <1>2, <1>3, <1>4 DEF IInv, Types, cameras, tab
<1>6. thread'[t] = Idle /\ \A u \in Threads \ {t} : thread'[u] = thread[u]
  BY <1>2 DEF Goes, IInv, Types
<1>7. \A d \in Cameras : Remembering(d)' = Remembering(d) \ {t}
  BY <1>6, IdleIs DEF Remembering, At
<1>8. Remembers'
  <2>1. \A d \in Cameras : \A u \in Remembering(d)' :
          u \in Remembering(d) /\ thread'[u] = thread[u]
    BY <1>6, <1>7 DEF Remembering
  <2> QED BY <1>2, <2>1 DEF IInv, LastInv, Remembers
<1>9. LastIsServed'
  <2> SUFFICES ASSUME NEW d \in Cameras, known'[d], Remembering(d)' = {}
               PROVE  last'[d] = served'[d]
    BY DEF LastIsServed
  <2>1. CASE d = c
    <3>1. thread[t].token = served[c]
      BY <1>1, <1>2, <2>1 DEF IInv, LastInv, Remembers
    <3> QED BY <1>1, <1>2, <2>1, <3>1 DEF IInv, Types
  <2>2. CASE d # c
    <3>1. t \notin Remembering(d)
      BY <2>2 DEF Remembering
    <3> QED BY <1>1, <1>2, <1>7, <2>2, <3>1 DEF IInv, Types, LastInv, LastIsServed
  <2> QED BY <2>1, <2>2
<1> QED BY <1>3, <1>5, <1>8, <1>9 DEF IInv, LastInv

LEMMA PopulatePresetsInv ==
  ASSUME IInv, NEW t \in Threads, PopulatePresets(t)
  PROVE  IInv'
<1>1. Active(t) /\ thread[t] \in Works /\ Listing(t)
  <2>1. Active(t) /\ Listing(t)
    BY DEF PopulatePresets, Active, At, IInv, TabInv, OnlyLists
  <2> QED BY <2>1, Working DEF IInv
<1>2. /\ list' = [of |-> thread[t].cam, items |-> thread[t].got] /\ Goes(t, Idle)
      /\ UNCHANGED <<cameras, rows, sel, raced, session, events>>
  BY DEF PopulatePresets
<1>3. thread' = [thread EXCEPT ![t] = Idle]
  BY <1>2 DEF Goes
<1>4. thread' \in [Threads -> ThreadStates]
  BY <1>3 DEF IInv, Types, ThreadStates
<1>5. thread'[t] = Idle /\ \A u \in Threads \ {t} : thread'[u] = thread[u]
  BY <1>3 DEF IInv, Types
<1>6. list' \in [of : Cameras \cup {None}, items : SUBSET Tokens]
      /\ list'.of \in Cameras /\ list'.of = thread[t].cam
  BY <1>1, <1>2 DEF Works
<1>7. Types'
  BY <1>2, <1>4, <1>6 DEF IInv, Types, cameras, session
<1>8. RightList'
  BY <1>1, <1>2, <1>5, <1>6, IdleIs DEF IInv, TabInv, RightList, ListsRight, Active, At
<1>9. ListsRight' /\ EmptyList' /\ OnlyLists'
  BY <1>2, <1>5, <1>6, IdleIs, NoneIsNoCamera
     DEF IInv, TabInv, ListsRight, EmptyList, OnlyLists, Listing, Active, At
<1>10. LastInv'
  <2>1. SameMemory
    BY <1>5, IdleIs DEF SameMemory, PopulatePresets, At
  <2> QED BY <1>2, <2>1, LastAside DEF IInv, session
<1> QED BY <1>7, <1>8, <1>9, <1>10 DEF IInv, TabInv

-----------------------------------------------------------------------------
(* Time, cameras and discovery.                                            *)

\* The threads and the tab stay as they are.
LEMMA Aside ==
  ASSUME IInv, Types', UNCHANGED <<tab, thread, last, served, known>>
  PROVE  IInv'
<1>1. TabInv'
  BY DEF IInv, TabInv, RightList, ListsRight, EmptyList, OnlyLists, Listing, Active, At, tab
<1>2. LastInv'
  BY LastAside DEF IInv, SameMemory
<1> QED BY <1>1, <1>2 DEF IInv

LEMMA ExpireInv ==
  ASSUME IInv, NEW c \in Cameras, Expire(c)
  PROVE  IInv'
<1>1. cache' \in [Cameras -> Entries]
  BY DEF Expire, IInv, Types, Entries
<1>2. Types'
  BY <1>1 DEF Expire, IInv, Types, cameras, tab
<1> QED BY <1>2, Aside DEF Expire

LEMMA SetUpAnewInv ==
  ASSUME IInv, NEW c \in Cameras, SetUpAnew(c)
  PROVE  IInv'
<1>1. events' \in 0 .. MaxEvents
  BY EventIs DEF IInv, SetUpAnew
<1>2. profile' \in [Cameras -> Nat]
  BY DEF SetUpAnew, IInv, Types
<1>3. Types'
  BY <1>1, <1>2 DEF SetUpAnew, IInv, Types, tab, session
<1> QED BY <1>3, Aside DEF SetUpAnew, session

LEMMA TableChangeInv ==
  ASSUME IInv, TableChange
  PROVE  IInv'
<1>1. table \in Seq(Cameras)
  BY DEF IInv, Types
<1>2. table' \in Seq(Cameras)
  <2>1. PICK c \in Cameras :
          IF Listed(c)
          THEN \E i \in DOMAIN table : table[i] = c /\ table' = RemoveAt(table, i)
          ELSE table' = Append(table, c)
    BY DEF TableChange
  <2>2. CASE Listed(c)
    <3>1. PICK i \in DOMAIN table : table' = RemoveAt(table, i)
      BY <2>1, <2>2
    <3>2. i \in 1 .. Len(table) /\ Len(table) \in Nat
      BY <1>1, <3>1
    <3>3. SubSeq(table, 1, i - 1) \in Seq(Cameras)
      BY <1>1, <3>2
    <3>4. SubSeq(table, i + 1, Len(table)) \in Seq(Cameras)
      BY <1>1, <3>2
    <3> QED BY <3>1, <3>3, <3>4 DEF RemoveAt
  <2>3. CASE ~Listed(c)
    BY <1>1, <2>1, <2>3
  <2> QED BY <2>2, <2>3
<1>3. events' \in 0 .. MaxEvents
  BY EventIs DEF IInv, TableChange
<1>4. Types'
  BY <1>2, <1>3 DEF TableChange, IInv, Types, tab, session
<1> QED BY <1>4, Aside DEF TableChange, session

-----------------------------------------------------------------------------
(* The theorems.                                                           *)

\* Discovery's table may start with every camera, in some order.
LEMMA StartTable ==
  SetToSeq(Cameras) \in Seq(Cameras)
<1> DEFINE n == Cardinality(Cameras)
           S == {f \in [1 .. n -> Cameras] : IsInjective(f)}
<1>1. n \in Nat /\ \E f : f \in Bijection(1 .. n, Cameras)
  BY FS_CardinalityType, FS_CountingElements, PresetsAssumption DEF PresetsAssumption, ExistsBijection
<1>2. \E f : f \in S
  <2>1. PICK f : f \in Bijection(1 .. n, Cameras)
    BY <1>1
  <2>2. f \in [1 .. n -> Cameras] /\ IsInjective(f)
    BY <2>1 DEF Bijection, Injection, IsInjective
  <2> QED BY <2>2
<1>3. SetToSeq(Cameras) \in S
  BY <1>2 DEF SetToSeq
<1> QED BY <1>1, <1>3

LEMMA InitInv ==
  ASSUME Init
  PROVE  IInv
<1>0. <<>> \in Seq(Cameras)
  OBVIOUS
<1>1. table \in Seq(Cameras)
  <2>1. table = <<>> \/ table = SetToSeq(Cameras)
    BY DEF Init
  <2> QED BY <1>0, <2>1, StartTable
<1>2. /\ profile \in [Cameras -> Nat] /\ presets \in [Cameras -> SUBSET Tokens]
      /\ rows \in Seq(Cameras) /\ sel \in Cameras \cup {None}
      /\ list \in [of : Cameras \cup {None}, items : SUBSET Tokens] /\ raced \in BOOLEAN
      /\ events \in 0 .. MaxEvents
  <2>1. rows \in Seq(Cameras) /\ sel \in Cameras \cup {None} /\ raced \in BOOLEAN
        /\ list \in [of : Cameras \cup {None}, items : SUBSET Tokens]
    BY <1>0 DEF Init, NoList
  <2>2. profile \in [Cameras -> Nat] /\ presets \in [Cameras -> SUBSET Tokens]
    BY PresetsAssumption DEF Init, PresetsAssumption
  <2>3. events \in 0 .. MaxEvents
    BY PresetsAssumption DEF Init, PresetsAssumption
  <2> QED BY <2>1, <2>2, <2>3
<1>3. /\ thread \in [Threads -> ThreadStates] /\ cache \in [Cameras -> Entries]
      /\ last \in [Cameras -> Tokens \cup {None}]
      /\ served \in [Cameras -> Tokens \cup {None}] /\ known \in [Cameras -> BOOLEAN]
  BY DEF Init, ThreadStates, Entries
<1>4. \A t \in Threads : ~Active(t) /\ ~At(t, "remember") /\ ~At(t, "queued")
  BY IdleIs DEF Init, Active, At, Idle
<1>5. TabInv
  BY <1>4 DEF Init, TabInv, RightList, ListsRight, EmptyList, OnlyLists, Listing, NoList
<1>6. LastInv
  BY <1>4 DEF Init, LastInv, LastIsServed, Remembers, Remembering
<1> QED BY <1>1, <1>2, <1>3, <1>5, <1>6 DEF IInv, Types

LEMMA NextInv ==
  ASSUME IInv, [Next]_vars
  PROVE  IInv'
<1>1. CASE User
  BY <1>1, RefreshCamerasInv, RefreshButtonInv, SelectInv, GotoInv, ChangeInv DEF User
<1>2. ASSUME NEW c \in Cameras, NEW token \in Tokens, Fire(c, token)
      PROVE  IInv'
  BY <1>2, FireInv DEF Fire
<1>3. ASSUME NEW t \in Threads, Thread(t)
      PROVE  IInv'
  BY <1>3, LookupInv, ResolveInv, StoreCacheInv, SendInv, RememberInv, PopulatePresetsInv
     DEF Thread
<1>4. CASE UNCHANGED vars
  <2>1. Types'
    BY <1>4 DEF IInv, Types, vars, cameras, tab, session
  <2> QED BY <1>4, <2>1, Aside DEF vars, session
<1> QED BY <1>1, <1>2, <1>3, <1>4, ExpireInv, SetUpAnewInv, TableChangeInv DEF Next

\* The threads' calls, the tab and the Worker's memory agree as IInv says, in every
\* state that the dock, the keys and the detached threads can reach.
THEOREM Invariant ==
  Spec => []IInv
BY InitInv, NextInv, PTL DEF Spec

\* PresetsWidget: whatever cameras come and go, a refresh of the tab that was not
\* raced by a list of another camera shows the presets of the selected camera,
\* and its buttons send a token to the camera that listed it.
THEOREM ButtonsOfCamera ==
  Spec => []RightList
<1>1. IInv => RightList
  BY DEF IInv, TabInv
<1> QED BY Invariant, <1>1, PTL

\* Worker::lastPreset_: however many threads go to and save presets, what is
\* remembered of a camera is the last it obeyed, unless two requests for it
\* overlapped or an answer was lost.
THEOREM LastPresetIsServed ==
  Spec => []LastIsServed
<1>1. IInv => LastIsServed
  BY DEF IInv, LastInv
<1> QED BY Invariant, <1>1, PTL
=============================================================================
