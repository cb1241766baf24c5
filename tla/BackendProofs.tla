---------------------------- MODULE BackendProofs ----------------------------
(***************************************************************************)
(* Theorems about Backend, for any table of cameras and any collections,   *)
(* presets and number of events.                                           *)
(***************************************************************************)
EXTENDS Backend, TLAPS

Files    == [map : Cameras \cup {None}, bind : Presets \cup {None}]
Commands == {"move", "stop"}
Jobs ==
  [at : {"idle", "load", "truncate", "write", "collection", "context", "shutdown",
         "join", "down"},
   op : {"none", "save", "bind"}, arg : Presets \cup {None},
   coll : Collections \cup {None}, cs : Files]
Works == [at : {"execute", "post"}, cam : Cameras, cmd : Commands]
Holds == [at : {"hold"}, cam : Cameras, cmd : {"move"}]
Waits == [at : {"idle", "gone"}, cam : {None}, cmd : {None}]

CallTypes ==
  /\ guard \in {None, "ui", "plugin"}
  /\ backend \in [coll : Collections \cup {None}, cams : BOOLEAN, ptz : BOOLEAN,
                  worker : BOOLEAN]
  /\ job \in [Callers -> Jobs]

StoreTypes ==
  /\ active \in Collections /\ context \in Collections
  /\ files \in [Collections -> Files \cup {Torn}] /\ wanted \in [Collections -> Files]
  /\ rows \in [of : Collections, map : Cameras \cup {None}, edited : BOOLEAN,
               blind : BOOLEAN]
  /\ hurt \in SUBSET Collections

PtzTypes ==
  /\ state \in [Cameras -> {"online", "offline", "gone"}]
  /\ key \in Cameras \cup {None} /\ pending \in [Cameras -> Commands \cup {None}]
  /\ held \in SUBSET Cameras /\ control \in Works \cup Holds \cup Waits
  /\ stopping \in BOOLEAN /\ moving \in SUBSET Cameras /\ strayed \in BOOLEAN

\* Who writes: the other plugin binds only; the Guard is held by who binds.
Working(p) == job[p].at \in {"truncate", "write"}
Turn ==
  /\ \A p \in Callers : Working(p) => /\ job[p].op \in {"save", "bind"}
                                      /\ job[p].coll \in Collections
                                      /\ Guarded(p) => guard = p
  /\ \A p \in Callers : Does(p, "load") => job[p].op \in {"save", "bind"}
  /\ job["plugin"].at \in {"idle", "load", "truncate", "write"}
  /\ ~Does("plugin", "idle") => Guarded("plugin")

\* Between two frontend events the Backend's collection is OBS's.
Synced ==
  /\ job["ui"].at \notin {"collection", "down"} => backend.coll = active
  /\ job["ui"].at \in {"collection", "context"} => job["ui"].coll = active

\* What one caller is to write to the file of c, nobody else at it.
Written(p, c) ==
  /\ \A q \in Callers : Writing(q, c) => q = p
  /\ job[p].cs = wanted[c]
  /\ Does(p, "truncate") /\ Guarded(p) =>
       files[c] \in Files /\ files[c].map = wanted[c].map
  /\ Does(p, "write") => files[c] = Torn

Writes ==
  \A c \in Collections \ hurt : \A p \in Callers : Writing(p, c) => Written(p, c)

\* A row that is shown as it was read is the mapping last saved.
RowsRight ==
  ~rows.edited /\ ~rows.blind /\ rows.of \notin hurt => rows.map = wanted[rows.of].map

StoreInv == StoreTypes /\ Turn /\ Synced /\ Writes /\ RowsRight /\ Kept

\* The control thread is gone before the Backend is.
Ends ==
  /\ ~backend.worker \/ ~backend.cams => control.at = "gone"
  /\ Does("ui", "down") => control.at = "gone"

Driving(c, cmd) ==
  control.at \in {"execute", "post"} /\ control.cam = c /\ control.cmd = cmd

\* Every camera that moves, or will, has its stop before it.
Stops ==
  ~strayed =>
    /\ key # None => FirstOnline(key)
    /\ \A c \in held : key = c
    /\ \A c \in Cameras :
         /\ pending[c] # None \/ Driving(c, "move") \/ Driving(c, "stop")
              => state[c] = "online"
         /\ pending[c] = "move" => key = c
         /\ Driving(c, "move") => key = c \/ pending[c] = "stop"
         /\ c \in moving => key = c \/ pending[c] = "stop" \/ Driving(c, "stop")

PtzInv == PtzTypes /\ Ends /\ Stops

IInv == CallTypes /\ StoreInv /\ PtzInv

-----------------------------------------------------------------------------
(* Values.                                                                 *)

LEMMA Nothing ==
  /\ None \notin Cameras /\ None \notin Presets /\ None \notin Collections
  /\ None \notin Callers /\ None \notin Commands /\ Torn \notin Files
BY BackendAssumption DEF BackendAssumption, Callers, Commands, Files

LEMMA IdleIs ==
  Empty \in Files /\ Idle \in Jobs /\ Idle.at = "idle"
BY DEF Idle, Jobs, Empty, Files

LEMMA RestIs ==
  /\ Rest \in Waits /\ Rest.at = "idle"
  /\ [Rest EXCEPT !.at = "gone"] \in Waits /\ [Rest EXCEPT !.at = "gone"].at = "gone"
BY DEF Rest, Waits

LEMMA UpIs ==
  ASSUME NEW c \in Collections
  PROVE  /\ Up(c).coll = c /\ Up(c).cams /\ Up(c).worker
         /\ Up(c) \in [coll : Collections \cup {None}, cams : BOOLEAN, ptz : BOOLEAN,
                       worker : BOOLEAN]
BY DEF Up

LEMMA LoadIs ==
  ASSUME StoreTypes, NEW c \in Collections
  PROVE  /\ LoadCollection(c) \in Files
         /\ files[c] \in Files => LoadCollection(c) = files[c] /\ files[c] # Torn
         /\ files[c] # Torn => files[c] \in Files
BY Nothing, IdleIs DEF StoreTypes, LoadCollection

\* The rows as they are read are right for a file that is.
LEMMA ShownIs ==
  ASSUME StoreTypes, NEW c \in Collections
  PROVE  /\ Shown(c) \in [of : Collections, map : Cameras \cup {None}, edited : BOOLEAN,
                          blind : BOOLEAN]
         /\ Shown(c).of = c
         /\ ~Shown(c).blind => files[c] \in Files /\ Shown(c).map = files[c].map
<1> DEFINE m == LoadCollection(c).map
           known == m = None \/ state[m] # "gone"
           shown == [of |-> c, map |-> IF known THEN m ELSE None, edited |-> FALSE,
                     blind |-> ~known \/ files[c] = Torn]
<1>1. Shown(c) = shown
  BY DEF Shown
<1>2. m \in Cameras \cup {None}
  BY LoadIs DEF Files
<1>3. known \in BOOLEAN /\ (files[c] = Torn) \in BOOLEAN
  OBVIOUS
<1>4. files[c] # Torn => files[c] \in Files /\ m = files[c].map
  BY LoadIs
<1> HIDE DEF m, known
<1>5. shown \in [of : Collections, map : Cameras \cup {None}, edited : BOOLEAN,
                 blind : BOOLEAN]
  BY <1>2, <1>3
<1>6. ~shown.blind => files[c] \in Files /\ shown.map = files[c].map
  BY <1>4
<1> QED BY <1>1, <1>5, <1>6

\* There is one first camera that is online, if any.
LEMMA FirstIs ==
  /\ FirstOnlineCameraId \in Cameras \cup {None}
  /\ FirstOnlineCameraId # None => FirstOnline(FirstOnlineCameraId)
BY DEF FirstOnlineCameraId

LEMMA FirstUnique ==
  ASSUME NEW c \in Cameras, NEW d \in Cameras, FirstOnline(c), FirstOnline(d)
  PROVE  c = d
<1>1. PICK i \in DOMAIN Table : /\ Table[i] = c /\ state[c] = "online"
                                /\ \A k \in 1 .. (i - 1) : state[Table[k]] # "online"
  BY DEF FirstOnline
<1>2. PICK j \in DOMAIN Table : /\ Table[j] = d /\ state[d] = "online"
                                /\ \A k \in 1 .. (j - 1) : state[Table[k]] # "online"
  BY DEF FirstOnline
<1>3. DOMAIN Table = 1 .. Len(Table) /\ Len(Table) \in Nat
  BY BackendAssumption DEF BackendAssumption
<1> QED BY <1>1, <1>2, <1>3

LEMMA FirstOf ==
  ASSUME NEW c \in Cameras, FirstOnline(c)
  PROVE  FirstOnlineCameraId = c
<1>1. FirstOnlineCameraId \in Cameras /\ FirstOnline(FirstOnlineCameraId)
  BY DEF FirstOnlineCameraId
<1> QED BY <1>1, FirstUnique

LEMMA FirstIsOnline ==
  ASSUME NEW c \in Cameras, FirstOnline(c)
  PROVE  state[c] = "online"
BY DEF FirstOnline

-----------------------------------------------------------------------------
(* What a step may leave aside.                                            *)

SameStore == UNCHANGED <<active, context, files, rows, wanted, hurt>>

\* No file is written and no caller comes to write, or ceases to.
LEMMA StoreAside ==
  ASSUME CallTypes, StoreInv, SameStore, Turn', Synced',
         \A p \in Callers : Working(p) \/ Working(p)' => job'[p] = job[p]
  PROVE  StoreInv'
<1>1. \A p \in Callers : \A c : Writing(p, c)' <=> Writing(p, c)
  BY DEF Writing, Working
<1>2. \A p \in Callers : \A c : Writing(p, c) =>
        job'[p] = job[p] /\ (Guarded(p)' <=> Guarded(p))
  BY DEF Writing, Working, Guarded
<1>3. Writes'
  <2> SUFFICES ASSUME NEW c \in Collections \ hurt, NEW p \in Callers, Writing(p, c)
               PROVE  Written(p, c)'
    BY <1>1 DEF Writes, SameStore
  <2>1. Written(p, c)
    BY DEF StoreInv, Writes
  <2> QED BY <1>1, <1>2, <2>1 DEF Written, SameStore, Does
<1>4. Kept'
  BY <1>1 DEF StoreInv, Kept, SameStore
<1>5. StoreTypes' /\ RowsRight'
  BY DEF StoreInv, StoreTypes, RowsRight, SameStore
<1> QED BY <1>3, <1>4, <1>5 DEF StoreInv

LEMMA StoreStays ==
  ASSUME CallTypes, StoreInv, SameStore, UNCHANGED <<guard, backend, job>>
  PROVE  CallTypes' /\ StoreInv'
<1>1. Turn' /\ Synced'
  BY DEF StoreInv, Turn, Synced, SameStore, Working, Does, Guarded
<1> QED BY <1>1, StoreAside DEF CallTypes

LEMMA PtzAside ==
  ASSUME PtzInv, UNCHANGED ptz, backend'.worker = backend.worker,
         backend'.cams = backend.cams, Does("ui", "down")' => Does("ui", "down")
  PROVE  PtzInv'
<1>1. PtzTypes' /\ Ends'
  BY DEF PtzInv, PtzTypes, Ends, ptz
<1>2. Stops'
  BY DEF PtzInv, Stops, Driving, FirstOnline, ptz
<1> QED BY <1>1, <1>2 DEF PtzInv

\* One caller goes on.
LEMMA GoesIs ==
  ASSUME CallTypes, NEW p \in Callers, NEW j \in Jobs, Goes(p, j)
  PROVE  /\ job' \in [Callers -> Jobs] /\ job'[p] = j
         /\ \A q \in Callers \ {p} : job'[q] = job[q]
BY DEF CallTypes, Goes

LEMMA StepIs ==
  ASSUME CallTypes, NEW p \in Callers,
         NEW at \in {"write", "context", "shutdown", "join", "down"}, Step(p, at)
  PROVE  /\ job' \in [Callers -> Jobs] /\ job'[p] \in Jobs /\ job'[p].at = at
         /\ job'[p].op = job[p].op /\ job'[p].coll = job[p].coll
         /\ job'[p].cs = job[p].cs
         /\ \A q \in Callers \ {p} : job'[q] = job[q]
<1> DEFINE j == [job[p] EXCEPT !.at = at]
<1>1. /\ j \in Jobs /\ j.at = at /\ j.op = job[p].op /\ j.coll = job[p].coll
      /\ j.cs = job[p].cs
  BY DEF CallTypes, Jobs
<1>2. Goes(p, j)
  BY DEF Step
<1> HIDE DEF j
<1> QED BY <1>1, <1>2, GoesIs

-----------------------------------------------------------------------------
(* The collections' files.                                                 *)

LEMMA RefreshInv ==
  ASSUME IInv, Refresh
  PROVE  IInv'
<1>1. /\ context \in Collections /\ rows' = Shown(context)
      /\ Calm /\ UNCHANGED <<guard, backend, job, active, context, files, wanted, hurt, ptz>>
  BY DEF Refresh, IInv, StoreInv, StoreTypes
<1>2. rows'.of = context /\ (~rows'.blind =>
        files[context] \in Files /\ rows'.map = files[context].map)
  BY <1>1, ShownIs DEF IInv, StoreInv
<1>3. StoreTypes' /\ CallTypes'
  BY <1>1, ShownIs DEF IInv, CallTypes, StoreInv, StoreTypes
<1>4. RowsRight'
  <2> SUFFICES ASSUME ~rows'.blind, context \notin hurt
               PROVE  files[context].map = wanted[context].map
    BY <1>1, <1>2 DEF RowsRight
  <2>1. CASE \A p \in Callers : ~Writing(p, context)
    BY <1>1, <2>1 DEF IInv, StoreInv, Kept
  <2>2. CASE \E p \in Callers : Writing(p, context)
    <3>1. PICK p \in Callers : Writing(p, context)
      BY <2>2
    <3>2. Written(p, context)
      BY <1>1, <3>1 DEF IInv, StoreInv, Writes
    <3>3. p = "plugin" /\ Guarded(p)
      BY <1>1, <3>1 DEF IInv, StoreInv, Turn, Writing, Does, Callers, Calm
    <3>4. ~Does(p, "write")
      BY <1>2, <3>2, Nothing DEF Written
    <3> QED BY <3>1, <3>2, <3>3, <3>4 DEF Written, Writing, Does
  <2> QED BY <2>1, <2>2
<1>5. Turn' /\ Synced' /\ Writes' /\ Kept'
  BY <1>1 DEF IInv, StoreInv, Turn, Synced, Writes, Written, Writing, Working, Does, Guarded,
              Kept
<1>6. PtzInv'
  BY <1>1, PtzAside DEF IInv, Does
<1> QED BY <1>3, <1>4, <1>5, <1>6 DEF IInv, StoreInv

LEMMA EditInv ==
  ASSUME IInv, Edit
  PROVE  IInv'
<1>1. PICK m \in Cameras \cup {None} : rows' = [rows EXCEPT !.map = m, !.edited = TRUE]
  BY DEF Edit
<1>2. UNCHANGED <<guard, backend, job, active, context, files, wanted, hurt, ptz>>
  BY DEF Edit
<1>3. StoreTypes' /\ CallTypes' /\ RowsRight'
  BY <1>1, <1>2 DEF IInv, CallTypes, StoreInv, StoreTypes, RowsRight
<1>4. Turn' /\ Synced' /\ Writes' /\ Kept'
  BY <1>2 DEF IInv, StoreInv, Turn, Synced, Writes, Written, Writing, Working, Does, Guarded,
              Kept
<1>5. PtzInv'
  BY <1>2, PtzAside DEF IInv, Does
<1> QED BY <1>3, <1>4, <1>5 DEF IInv, StoreInv

LEMMA AskInv ==
  ASSUME IInv, NEW p \in Callers, NEW op \in {"save", "bind"},
         NEW arg \in Presets \cup {None}, p = "plugin" => op = "bind", Ask(p, op, arg)
  PROVE  IInv'
<1> DEFINE j == [Idle EXCEPT !.at = "load", !.op = op, !.arg = arg]
<1>1. j \in Jobs /\ j.at = "load" /\ j.op = op
  BY IdleIs DEF Idle, Jobs
<1>2. /\ Does(p, "idle") /\ Goes(p, j) /\ UNCHANGED <<guard, backend, store, ptz>>
  BY DEF Ask
<1> HIDE DEF j
<1>3. /\ job' \in [Callers -> Jobs] /\ job'[p] = j
      /\ \A q \in Callers \ {p} : job'[q] = job[q]
  BY <1>1, <1>2, GoesIs DEF IInv
<1>4. CallTypes' /\ SameStore
  BY <1>2, <1>3 DEF IInv, CallTypes, SameStore, store
<1>5. \A q \in Callers : Working(q) \/ Working(q)' => job'[q] = job[q]
  BY <1>1, <1>2, <1>3 DEF Working, Does
<1>6. Turn'
  BY <1>1, <1>2, <1>3 DEF IInv, StoreInv, Turn, Working, Does, Guarded, Callers
<1>7. Synced'
  BY <1>1, <1>2, <1>3 DEF IInv, StoreInv, Synced, Does, Callers, store
<1>8. PtzInv'
  BY <1>1, <1>2, <1>3, PtzAside DEF IInv, Does, Callers
<1> QED BY <1>4, <1>5, <1>6, <1>7, <1>8, StoreAside DEF IInv

\* A caller has read the file, and is about to write what it makes of it.
LEMMA ChangedIs ==
  ASSUME CallTypes, StoreTypes, NEW p \in Callers, NEW c \in Collections
  PROVE  /\ Changed(p, c) \in Files
         /\ files[c] \in Files =>
              Changed(p, c) = IF Guarded(p) THEN [files[c] EXCEPT !.bind = job[p].arg]
                              ELSE [files[c] EXCEPT !.map = rows.map]
<1>1. job[p].arg \in Presets \cup {None} /\ rows.map \in Cameras \cup {None}
  BY DEF CallTypes, StoreTypes, Jobs
<1>2. LoadCollection(c) \in Files /\ (files[c] \in Files => LoadCollection(c) = files[c])
  BY LoadIs
<1>3. Changed(p, c) = IF Guarded(p) THEN [LoadCollection(c) EXCEPT !.bind = job[p].arg]
                      ELSE [LoadCollection(c) EXCEPT !.map = rows.map]
  BY DEF Changed
<1>4. Changed(p, c) \in Files
  BY <1>1, <1>2, <1>3 DEF Files
<1> QED BY <1>2, <1>3, <1>4

LEMMA LoadedInv ==
  ASSUME IInv, NEW p \in Callers, NEW c \in Collections,
         c = IF Guarded(p) THEN backend.coll ELSE context, Load(p)
  PROVE  IInv'
<1> DEFINE new == [job[p] EXCEPT !.at = "truncate", !.coll = c, !.cs = Changed(p, c)]
           wish == IF Guarded(p) THEN [wanted[c] EXCEPT !.bind = job[p].arg]
                   ELSE IF rows.edited THEN [wanted[c] EXCEPT !.map = rows.map]
                   ELSE wanted[c]
<1>1. c # None /\ Does(p, "load") /\ job[p] \in Jobs
  BY Nothing DEF Load, IInv, CallTypes
<1>2. /\ Guarded(p) => guard = None
      /\ guard' = (IF Guarded(p) THEN p ELSE guard) /\ Goes(p, new)
      /\ wanted' = [wanted EXCEPT ![c] = wish]
      /\ hurt' = IF Hurts(p, c) THEN hurt \cup {c} ELSE hurt
      /\ UNCHANGED <<backend, active, context, files, rows, ptz>>
  BY <1>1, Zenon DEF Load
<1>3. /\ new \in Jobs /\ new.at = "truncate" /\ new.coll = c /\ new.cs = Changed(p, c)
      /\ new.op = job[p].op
  <2>1. Changed(p, c) \in Files
    BY ChangedIs DEF IInv, StoreInv
  <2> QED BY <1>1, <2>1 DEF Jobs
<1>4. /\ wish \in Files
      /\ (~Guarded(p) /\ rows.edited) \/ wish.map = wanted[c].map
  <2>1. wanted[c] \in Files /\ job[p].arg \in Presets \cup {None}
        /\ rows.map \in Cameras \cup {None}
    BY <1>1 DEF IInv, StoreInv, StoreTypes, Jobs
  <2> QED BY <2>1 DEF Files
<1> HIDE DEF new
<1>5. /\ job' \in [Callers -> Jobs] /\ job'[p] = new
      /\ \A q \in Callers \ {p} : job'[q] = job[q]
  BY <1>2, <1>3, GoesIs DEF IInv
<1>6. CallTypes'
  BY <1>2, <1>5 DEF IInv, CallTypes, Callers
<1>7. wanted' \in [Collections -> Files] /\ wanted'[c] = wish
      /\ \A d \in Collections \ {c} : wanted'[d] = wanted[d]
  <2> HIDE DEF wish
  <2> QED BY <1>2, <1>4 DEF IInv, StoreInv, StoreTypes
<1>8. StoreTypes'
  BY <1>2, <1>7 DEF IInv, StoreInv, StoreTypes
<1>9. hurt \subseteq hurt'
  BY <1>2
<1>10. Turn'
  <2>1. \A q \in Callers : Guarded(q)' <=> Guarded(q)
    BY <1>3, <1>5 DEF Guarded
  <2>2. ASSUME NEW q \in Callers, Working(q)'
        PROVE  /\ job'[q].op \in {"save", "bind"} /\ job'[q].coll \in Collections
               /\ Guarded(q)' => guard' = q
    <3>1. CASE q = p
      BY <1>1, <1>2, <1>3, <1>5, <2>1, <3>1 DEF IInv, StoreInv, Turn, Does
    <3>2. CASE q # p
      <4>1. job'[q] = job[q] /\ Working(q)
        BY <1>5, <2>2, <3>2 DEF Working
      <4>2. Guarded(q) => guard = q
        BY <4>1 DEF IInv, StoreInv, Turn
      <4>3. Guarded(q) => guard' = q
        BY <1>2, <4>2, Nothing
      <4> QED BY <2>1, <4>1, <4>3 DEF IInv, StoreInv, Turn
    <3> QED BY <3>1, <3>2
  <2>3. \A q \in Callers : Does(q, "load")' => job'[q].op \in {"save", "bind"}
    BY <1>3, <1>5 DEF IInv, StoreInv, Turn, Does
  <2>4. job'["plugin"].at \in {"idle", "load", "truncate", "write"}
    BY <1>3, <1>5 DEF IInv, StoreInv, Turn, Callers
  <2>5. ~Does("plugin", "idle")' => Guarded("plugin")'
    BY <1>1, <1>5, <2>1 DEF IInv, StoreInv, Turn, Does, Callers
  <2> QED BY <2>2, <2>3, <2>4, <2>5 DEF Turn
<1>11. Synced'
  BY <1>1, <1>2, <1>3, <1>5 DEF IInv, StoreInv, Synced, Does, Callers
<1>12. /\ \A q \in Callers \ {p} : \A d : Writing(q, d)' <=> Writing(q, d)
       /\ \A d : Writing(p, d)' <=> d = c
       /\ \A d : ~Writing(p, d)
  BY <1>1, <1>3, <1>5 DEF Writing, Does
<1>13. c \notin hurt' =>
         /\ c \notin hurt /\ \A q \in Callers : ~Writing(q, c)
         /\ files[c] = wanted[c]
         /\ ~Guarded(p) => rows.of = c /\ (~rows.blind \/ rows.edited)
  <2> SUFFICES ASSUME c \notin hurt'
               PROVE  /\ c \notin hurt /\ \A q \in Callers : ~Writing(q, c)
                      /\ files[c] = wanted[c]
                      /\ ~Guarded(p) => rows.of = c /\ (~rows.blind \/ rows.edited)
    OBVIOUS
  <2>1. c \notin hurt /\ ~Hurts(p, c)
    BY <1>2
  <2>2. \A q \in Callers \ {p} : ~Writing(q, c)
    <3> SUFFICES ASSUME NEW q \in Callers \ {p}, Writing(q, c)
                 PROVE  FALSE
      OBVIOUS
    <3>1. Guarded(p) /\ Guarded(q)
      BY <2>1 DEF Hurts
    <3>2. guard = q
      BY <3>1 DEF IInv, StoreInv, Turn, Working, Writing
    <3> QED BY <1>2, <3>1, <3>2, Nothing
  <2>3. \A q \in Callers : ~Writing(q, c)
    BY <1>12, <2>2
  <2>4. files[c] = wanted[c]
    BY <2>1, <2>3 DEF IInv, StoreInv, Kept
  <2> QED BY <2>1, <2>3, <2>4 DEF Hurts
<1>14. Writes'
  <2> SUFFICES ASSUME NEW d \in Collections \ hurt', NEW q \in Callers, Writing(q, d)'
               PROVE  Written(q, d)'
    BY DEF Writes
  <2>1. CASE q = p
    <3>1. d = c
      BY <1>12, <2>1
    <3>2. \A r \in Callers : Writing(r, c)' => r = p
      BY <1>12, <1>13, <3>1
    <3>3. files[c] = wanted[c] /\ files[c] \in Files
      BY <1>13, <3>1 DEF IInv, StoreInv, StoreTypes
    <3>4. Changed(p, c) = IF Guarded(p) THEN [files[c] EXCEPT !.bind = job[p].arg]
                          ELSE [files[c] EXCEPT !.map = rows.map]
      BY <3>3, ChangedIs DEF IInv, StoreInv
    <3>5. Changed(p, c) = wish
      <4>1. CASE Guarded(p)
        BY <3>3, <3>4, <4>1
      <4>2. CASE ~Guarded(p) /\ rows.edited
        BY <3>3, <3>4, <4>2
      <4>3. CASE ~Guarded(p) /\ ~rows.edited
        <5>1. rows.map = wanted[c].map
          BY <1>13, <3>1, <4>3 DEF IInv, StoreInv, RowsRight
        <5>2. [wanted[c] EXCEPT !.map = wanted[c].map] = wanted[c]
          BY <3>3 DEF Files
        <5>3. Changed(p, c) = [wanted[c] EXCEPT !.map = wanted[c].map]
          BY <3>3, <3>4, <4>3, <5>1
        <5> QED BY <4>3, <5>2, <5>3
      <4> QED BY <4>1, <4>2, <4>3
    <3>6. job'[p].cs = wanted'[c]
      BY <1>3, <1>5, <1>7, <3>5
    <3>7. Guarded(p)' => files'[c] \in Files /\ files'[c].map = wanted'[c].map
      BY <1>2, <1>3, <1>4, <1>5, <1>7, <3>3 DEF Guarded
    <3>8. job'[p].at = "truncate"
      BY <1>3, <1>5
    <3> QED BY <2>1, <3>1, <3>2, <3>6, <3>7, <3>8 DEF Written, Does
  <2>2. CASE q # p
    <3>1. Writing(q, d) /\ d # c
      BY <1>12, <1>13, <2>2
    <3>2. Written(q, d) /\ wanted'[d] = wanted[d] /\ job'[q] = job[q]
      BY <1>5, <1>7, <1>9, <2>2, <3>1 DEF IInv, StoreInv, Writes
    <3>3. \A r \in Callers : Writing(r, d)' => Writing(r, d)
      BY <1>12, <3>1
    <3> QED BY <1>2, <3>2, <3>3 DEF Written, Does, Guarded
  <2> QED BY <2>1, <2>2
<1>15. Kept'
  <2> SUFFICES ASSUME NEW d \in Collections \ hurt', \A q \in Callers : ~Writing(q, d)'
               PROVE  files'[d] = wanted'[d]
    BY DEF Kept
  <2>1. d # c /\ \A q \in Callers : ~Writing(q, d)
    BY <1>12
  <2> QED BY <1>2, <1>7, <1>9, <2>1 DEF IInv, StoreInv, Kept
<1>16. RowsRight'
  <2> SUFFICES ASSUME ~rows.edited, ~rows.blind, rows.of \notin hurt'
               PROVE  rows.map = wanted'[rows.of].map
    BY <1>2 DEF RowsRight
  <2>1. rows.map = wanted[rows.of].map /\ rows.of \in Collections
    BY <1>9 DEF IInv, StoreInv, RowsRight, StoreTypes
  <2>2. CASE rows.of = c
    <3>1. wish.map = wanted[c].map
      BY <1>4
    <3> HIDE DEF wish
    <3> QED BY <1>7, <2>1, <2>2, <3>1
  <2>3. CASE rows.of # c
    BY <1>7, <2>1, <2>3
  <2> QED BY <2>2, <2>3
<1>17. PtzInv'
  BY <1>2, <1>3, <1>5, PtzAside DEF IInv, Does, Callers
<1> QED BY <1>6, <1>8, <1>10, <1>11, <1>14, <1>15, <1>16, <1>17 DEF IInv, StoreInv

\* A call of which nothing is left writes no file.
LEMMA EndsInv ==
  ASSUME IInv, NEW p \in Callers, Does(p, "load"), Goes(p, Idle),
         UNCHANGED <<guard, backend, active, context, files, rows, wanted, hurt, ptz>>
  PROVE  IInv'
<1>1. /\ job' \in [Callers -> Jobs] /\ job'[p] = Idle
      /\ \A q \in Callers \ {p} : job'[q] = job[q]
  BY IdleIs, GoesIs DEF IInv
<1>2. CallTypes' /\ SameStore
  BY <1>1 DEF IInv, CallTypes, SameStore
<1>3. \A q \in Callers : Working(q) \/ Working(q)' => job'[q] = job[q]
  BY <1>1, IdleIs DEF Working, Does
<1>4. Turn'
  BY <1>1, IdleIs DEF IInv, StoreInv, Turn, Working, Does, Guarded, Callers
<1>5. Synced'
  BY <1>1, IdleIs DEF IInv, StoreInv, Synced, Does, Callers
<1>6. PtzInv'
  BY <1>1, IdleIs, PtzAside DEF IInv, Does, Callers
<1> QED BY <1>2, <1>3, <1>4, <1>5, <1>6, StoreAside DEF IInv

LEMMA LoadInv ==
  ASSUME IInv, NEW p \in Callers, Load(p)
  PROVE  IInv'
<1> DEFINE c == IF Guarded(p) THEN backend.coll ELSE context
<1>1. c \in Collections \cup {None}
  BY DEF IInv, CallTypes, StoreInv, StoreTypes
<1>2. CASE c \in Collections
  BY <1>2, LoadedInv
<1>3. CASE c = None
  BY <1>3, EndsInv DEF Load
<1> QED BY <1>1, <1>2, <1>3

\* Who is through the whole file of c, from truncating it to the last byte.
LEMMA WriterIs ==
  ASSUME CallTypes, StoreInv, NEW p \in Callers, Working(p)
  PROVE  /\ job[p] \in Jobs /\ job[p].coll \in Collections
         /\ Writing(p, job[p].coll)
         /\ \A c : Writing(p, c) => c = job[p].coll
BY DEF CallTypes, StoreInv, Turn, Working, Writing

LEMMA TruncateInv ==
  ASSUME IInv, NEW p \in Callers, Truncate(p)
  PROVE  IInv'
<1>1. PICK c \in Collections : c = job[p].coll /\ Writing(p, c)
                               /\ \A d : Writing(p, d) => d = c
  BY WriterIs DEF Truncate, Does, Working, IInv
<1>2. /\ files' = [files EXCEPT ![c] = Torn] /\ Does(p, "truncate") /\ Step(p, "write")
      /\ UNCHANGED <<guard, backend, active, context, rows, wanted, hurt, ptz>>
  BY <1>1 DEF Truncate
<1>3. /\ job' \in [Callers -> Jobs] /\ job'[p] \in Jobs /\ job'[p].at = "write"
      /\ job'[p].op = job[p].op /\ job'[p].coll = c
      /\ job'[p].cs = job[p].cs
      /\ \A q \in Callers \ {p} : job'[q] = job[q]
  BY <1>1, <1>2, StepIs DEF IInv
<1>4. /\ files' \in [Collections -> Files \cup {Torn}] /\ files'[c] = Torn
      /\ \A d \in Collections \ {c} : files'[d] = files[d]
  BY <1>2 DEF IInv, StoreInv, StoreTypes
<1>5. CallTypes' /\ StoreTypes' /\ RowsRight'
  BY <1>2, <1>3, <1>4 DEF IInv, CallTypes, StoreInv, StoreTypes, RowsRight
<1>6. Turn'
  BY <1>1, <1>2, <1>3 DEF IInv, StoreInv, Turn, Working, Does, Guarded, Callers
<1>7. Synced'
  BY <1>2, <1>3 DEF IInv, StoreInv, Synced, Does, Callers
<1>8. \A q \in Callers : \A d : Writing(q, d)' <=> Writing(q, d)
  BY <1>1, <1>3 DEF Writing
<1>9. Writes'
  <2> SUFFICES ASSUME NEW d \in Collections \ hurt, NEW q \in Callers, Writing(q, d)
               PROVE  Written(q, d)'
    BY <1>2, <1>8 DEF Writes
  <2>1. Written(q, d)
    BY DEF IInv, StoreInv, Writes
  <2>2. CASE q = p
    <3>1. d = c
      BY <1>1, <2>2
    <3> QED BY <1>2, <1>3, <1>4, <1>8, <2>1, <2>2, <3>1 DEF Written, Does
  <2>3. CASE q # p
    <3>1. d # c
      BY <1>1, <2>1, <2>3 DEF Written
    <3> QED BY <1>2, <1>3, <1>4, <1>8, <2>1, <2>3, <3>1 DEF Written, Does, Guarded
  <2> QED BY <2>2, <2>3
<1>10. Kept'
  BY <1>1, <1>2, <1>4, <1>8 DEF IInv, StoreInv, Kept
<1>11. PtzInv'
  BY <1>2, <1>3, PtzAside DEF IInv, Does, Callers
<1> QED BY <1>5, <1>6, <1>7, <1>9, <1>10, <1>11 DEF IInv, StoreInv

LEMMA WriteInv ==
  ASSUME IInv, NEW p \in Callers, Write(p)
  PROVE  IInv'
<1>1. PICK c \in Collections : c = job[p].coll /\ Writing(p, c)
                               /\ \A d : Writing(p, d) => d = c
  BY WriterIs DEF Write, Does, Working, IInv
<1>2. /\ files' = [files EXCEPT ![c] = job[p].cs] /\ Does(p, "write") /\ Goes(p, Idle)
      /\ guard' = (IF Guarded(p) THEN None ELSE guard)
      /\ UNCHANGED <<backend, active, context, rows, wanted, hurt, ptz>>
  BY <1>1 DEF Write
<1>3. /\ job' \in [Callers -> Jobs] /\ job'[p] = Idle
      /\ \A q \in Callers \ {p} : job'[q] = job[q]
  BY <1>2, IdleIs, GoesIs DEF IInv
<1>4. /\ files' \in [Collections -> Files \cup {Torn}] /\ files'[c] = job[p].cs
      /\ \A d \in Collections \ {c} : files'[d] = files[d]
  <2>1. job[p].cs \in Files
    BY DEF IInv, CallTypes, Jobs
  <2> QED BY <1>2, <2>1 DEF IInv, StoreInv, StoreTypes
<1>5. CallTypes' /\ StoreTypes' /\ RowsRight'
  BY <1>2, <1>3, <1>4 DEF IInv, CallTypes, StoreInv, StoreTypes, RowsRight
<1>6. Turn'
  <2>1. ASSUME NEW q \in Callers, Working(q)'
        PROVE  /\ job'[q].op \in {"save", "bind"} /\ job'[q].coll \in Collections
               /\ Guarded(q)' => guard' = q
    <3>1. q # p /\ job'[q] = job[q] /\ Working(q)
      BY <1>3, <2>1, IdleIs DEF Working
    <3>2. Guarded(q) => guard = q
      BY <3>1 DEF IInv, StoreInv, Turn
    <3>3. Guarded(p) => guard = p
      BY <1>2 DEF IInv, StoreInv, Turn, Working, Does
    <3>4. Guarded(q) => guard' = q
      BY <1>2, <3>1, <3>2, <3>3
    <3> QED BY <3>1, <3>4 DEF IInv, StoreInv, Turn, Guarded
  <2> QED BY <1>3, <2>1, IdleIs DEF IInv, StoreInv, Turn, Does, Guarded, Callers
<1>7. Synced'
  BY <1>2, <1>3, IdleIs DEF IInv, StoreInv, Synced, Does, Callers
<1>8. /\ \A q \in Callers \ {p} : \A d : Writing(q, d)' <=> Writing(q, d)
      /\ \A d : ~Writing(p, d)'
  BY <1>3, IdleIs DEF Writing
<1>9. Writes'
  <2> SUFFICES ASSUME NEW d \in Collections \ hurt, NEW q \in Callers, Writing(q, d)'
               PROVE  Written(q, d)'
    BY <1>2 DEF Writes
  <2>1. q # p /\ Writing(q, d)
    BY <1>8
  <2>2. Written(q, d)
    BY <2>1 DEF IInv, StoreInv, Writes
  <2>3. d # c
    BY <1>1, <2>1, <2>2 DEF Written
  <2>4. \A r \in Callers : Writing(r, d)' => Writing(r, d)
    BY <1>8
  <2> QED BY <1>2, <1>3, <1>4, <2>1, <2>2, <2>3, <2>4 DEF Written, Does, Guarded
<1>10. Kept'
  <2> SUFFICES ASSUME NEW d \in Collections \ hurt, \A q \in Callers : ~Writing(q, d)'
               PROVE  files'[d] = wanted[d]
    BY <1>2 DEF Kept
  <2>1. CASE d = c
    BY <1>1, <1>4, <2>1 DEF IInv, StoreInv, Writes, Written
  <2>2. CASE d # c
    BY <1>1, <1>4, <1>8, <2>2 DEF IInv, StoreInv, Kept
  <2> QED BY <2>1, <2>2
<1>11. PtzInv'
  BY <1>2, <1>3, IdleIs, PtzAside DEF IInv, Does, Callers
<1> QED BY <1>5, <1>6, <1>7, <1>9, <1>10, <1>11 DEF IInv, StoreInv

-----------------------------------------------------------------------------
(* Scene and collection changes.                                           *)

LEMMA SceneChangedInv ==
  ASSUME IInv, SceneChanged
  PROVE  IInv'
<1>1. SameStore /\ UNCHANGED <<guard, backend, job, ptz>>
  BY DEF SceneChanged, FindBinding, GuardFree, SameStore, store, Goes
<1> QED BY <1>1, StoreStays, PtzAside DEF IInv, Does

\* The thread that it starts.
LEMMA RunnerInv ==
  ASSUME IInv, Runner
  PROVE  IInv'
<1>1. /\ SameStore /\ UNCHANGED <<guard, job, ptz>>
      /\ backend' = backend \/ backend' = [backend EXCEPT !.worker = TRUE]
  BY DEF Runner, RunCamera, MakeWorker, GotoPreset, SameStore, store
<1>2. /\ backend' \in [coll : Collections \cup {None}, cams : BOOLEAN, ptz : BOOLEAN,
                       worker : BOOLEAN]
      /\ backend'.coll = backend.coll /\ backend'.cams = backend.cams
      /\ backend.worker => backend'.worker
  BY <1>1 DEF IInv, CallTypes
<1>3. CallTypes' /\ Turn' /\ Synced'
  BY <1>1, <1>2 DEF IInv, CallTypes, StoreInv, Turn, Synced, SameStore, Working, Does, Guarded
<1>4. StoreInv'
  BY <1>1, <1>3, StoreAside DEF IInv
<1>5. PtzTypes' /\ Ends' /\ Stops'
  BY <1>1, <1>2 DEF IInv, PtzInv, PtzTypes, Ends, Stops, Driving, FirstOnline, ptz, Does
<1> QED BY <1>3, <1>4, <1>5 DEF IInv, PtzInv

\* The preset that a change of scene between two frontend events recalls.
LEMMA GotoIs ==
  ASSUME IInv, Calm, SceneChanged
  PROVE  active \in hurt \/ runner'.arg = wanted[active].bind
<1>1. /\ Does("ui", "idle") /\ guard = None
      /\ runner'.arg = LoadCollection(backend.coll).bind
  BY DEF SceneChanged, Calm, FindBinding, GuardFree
<1>2. backend.coll = active /\ active \in Collections
  BY <1>1 DEF IInv, StoreInv, Synced, StoreTypes, Does
<1>3. \A p \in Callers : ~Writing(p, active)
  <2>1. ~Writing("ui", active)
    BY <1>1 DEF Writing, Does
  <2>2. ~Writing("plugin", active)
    BY <1>1, Nothing DEF IInv, StoreInv, Turn, Writing, Working, Does, Callers
  <2> QED BY <2>1, <2>2 DEF Callers
<1>4. active \notin hurt => files[active] = wanted[active] /\ files[active] \in Files
  BY <1>2, <1>3 DEF IInv, StoreInv, Kept, StoreTypes
<1> QED BY <1>1, <1>2, <1>4, LoadIs DEF IInv, StoreInv

LEMMA CollectionChangedInv ==
  ASSUME IInv, NEW c \in Collections, CollectionChanged(c)
  PROVE  IInv'
<1> DEFINE j == [Idle EXCEPT !.at = "collection", !.coll = c]
<1>1. j \in Jobs /\ j.at = "collection" /\ j.coll = c
  BY IdleIs DEF Idle, Jobs
<1>2. /\ Does("ui", "idle") /\ active' = c /\ Goes("ui", j)
      /\ UNCHANGED <<guard, backend, context, files, rows, wanted, hurt, ptz>>
  BY DEF CollectionChanged, Calm
<1> HIDE DEF j
<1>3. /\ job' \in [Callers -> Jobs] /\ job'["ui"] = j
      /\ job'["plugin"] = job["plugin"]
  BY <1>1, <1>2, GoesIs DEF IInv, Callers
<1>4. \A p \in Callers : Working(p) \/ Working(p)' => job'[p] = job[p]
  BY <1>1, <1>2, <1>3 DEF Working, Does, Callers
<1>5. CallTypes' /\ Turn' /\ Synced'
  BY <1>1, <1>2, <1>3
     DEF IInv, CallTypes, StoreInv, Turn, Synced, Working, Does, Guarded, Callers
<1>6. \A p \in Callers : \A d : Writing(p, d)' <=> Writing(p, d)
  BY <1>4 DEF Writing, Working
<1>7. Writes'
  <2> SUFFICES ASSUME NEW d \in Collections \ hurt, NEW p \in Callers, Writing(p, d)
               PROVE  Written(p, d)'
    BY <1>2, <1>6 DEF Writes
  <2>1. Written(p, d) /\ job'[p] = job[p]
    BY <1>4 DEF IInv, StoreInv, Writes, Writing, Working
  <2> QED BY <1>2, <1>6, <2>1 DEF Written, Does, Guarded
<1>8. StoreTypes' /\ RowsRight' /\ Kept'
  BY <1>2, <1>6 DEF IInv, StoreInv, StoreTypes, RowsRight, Kept
<1>9. PtzInv'
  BY <1>1, <1>2, <1>3, PtzAside DEF IInv, Does
<1> QED BY <1>5, <1>7, <1>8, <1>9 DEF IInv, StoreInv

LEMMA SetCollectionInv ==
  ASSUME IInv, SetCollection
  PROVE  IInv'
<1>1. /\ Does("ui", "collection") /\ backend' = [backend EXCEPT !.coll = job["ui"].coll]
      /\ Step("ui", "context") /\ UNCHANGED <<guard, store, ptz>>
  BY DEF SetCollection, GuardFree
<1>2. /\ job' \in [Callers -> Jobs] /\ job'["ui"].at = "context"
      /\ job'["ui"].coll = job["ui"].coll /\ job'["plugin"] = job["plugin"]
  BY <1>1, StepIs DEF IInv, Callers
<1>3. /\ job["ui"].coll = active /\ active \in Collections
  BY <1>1 DEF IInv, StoreInv, StoreTypes, Synced, Does
<1>4. /\ backend' \in [coll : Collections \cup {None}, cams : BOOLEAN, ptz : BOOLEAN,
                       worker : BOOLEAN]
      /\ backend'.coll = active /\ backend'.cams = backend.cams
      /\ backend'.worker = backend.worker
  BY <1>1, <1>3 DEF IInv, CallTypes
<1>5. CallTypes' /\ SameStore
  BY <1>1, <1>2, <1>4 DEF IInv, CallTypes, SameStore, store
<1>6. \A p \in Callers : Working(p) \/ Working(p)' => job'[p] = job[p]
  BY <1>1, <1>2 DEF Working, Does, Callers
<1>7. Turn' /\ Synced'
  BY <1>1, <1>2, <1>3, <1>4
     DEF IInv, StoreInv, Turn, Synced, Working, Does, Guarded, Callers, store
<1>8. PtzInv'
  BY <1>1, <1>2, <1>4, PtzAside DEF IInv, Does
<1> QED BY <1>5, <1>6, <1>7, <1>8, StoreAside DEF IInv

LEMMA SetStoreContextInv ==
  ASSUME IInv, SetStoreContext
  PROVE  IInv'
<1>1. /\ Does("ui", "context") /\ context' = job["ui"].coll /\ Goes("ui", Idle)
      /\ UNCHANGED <<guard, backend, active, files, rows, wanted, hurt, ptz>>
  BY DEF SetStoreContext
<1>2. /\ job' \in [Callers -> Jobs] /\ job'["ui"] = Idle
      /\ job'["plugin"] = job["plugin"]
  BY <1>1, IdleIs, GoesIs DEF IInv, Callers
<1>3. context' \in Collections
  BY <1>1 DEF IInv, StoreInv, StoreTypes, Synced, Does
<1>4. \A p \in Callers : Working(p) \/ Working(p)' => job'[p] = job[p]
  BY <1>1, <1>2, IdleIs DEF Working, Does, Callers
<1>5. CallTypes' /\ Turn' /\ Synced'
  BY <1>1, <1>2, IdleIs
     DEF IInv, CallTypes, StoreInv, Turn, Synced, Working, Does, Guarded, Callers
<1>6. \A p \in Callers : \A d : Writing(p, d)' <=> Writing(p, d)
  BY <1>4 DEF Writing, Working
<1>7. Writes'
  <2> SUFFICES ASSUME NEW d \in Collections \ hurt, NEW p \in Callers, Writing(p, d)
               PROVE  Written(p, d)'
    BY <1>1, <1>6 DEF Writes
  <2>1. Written(p, d) /\ job'[p] = job[p]
    BY <1>4 DEF IInv, StoreInv, Writes, Writing, Working
  <2> QED BY <1>1, <1>6, <2>1 DEF Written, Does, Guarded
<1>8. StoreTypes' /\ RowsRight' /\ Kept'
  BY <1>1, <1>3, <1>6 DEF IInv, StoreInv, StoreTypes, RowsRight, Kept
<1>9. PtzInv'
  BY <1>1, <1>2, IdleIs, PtzAside DEF IInv, Does
<1> QED BY <1>5, <1>7, <1>8, <1>9 DEF IInv, StoreInv

-----------------------------------------------------------------------------
(* Move keys and the control thread.                                       *)

\* The stop goes to the camera that the key has moved.
LEMMA KeyIsFirst ==
  ASSUME PtzInv, ~strayed, key # None
  PROVE  FirstOnlineCameraId = key /\ key \in Cameras
BY FirstOf DEF PtzInv, PtzTypes, Stops

LEMMA PressInv ==
  ASSUME IInv, Press
  PROVE  IInv'
<1> DEFINE f == FirstOnlineCameraId
<1>1. /\ SameStore /\ UNCHANGED <<guard, backend, job, state, control, stopping, moving,
                                  strayed>>
      /\ key = None /\ key' = f /\ Enqueue(f, "move")
  BY DEF Press, GuardFree, SameStore, store
<1>2. f \in Cameras \cup {None} /\ (f # None => FirstOnline(f))
  BY FirstIs
<1> HIDE DEF f
<1>3. /\ pending' \in [Cameras -> Commands \cup {None}]
      /\ f # None => pending'[f] = "move"
      /\ \A c \in Cameras : c # f => pending'[c] = pending[c]
      /\ held' \in SUBSET Cameras /\ \A c \in held' : c = f \/ c \in held
  BY <1>1, <1>2 DEF Enqueue, Commands, IInv, PtzInv, PtzTypes
<1>4. PtzTypes' /\ Ends'
  BY <1>1, <1>2, <1>3 DEF IInv, PtzInv, PtzTypes, Ends, Does
<1>5. Stops'
  <2> SUFFICES ASSUME ~strayed
               PROVE  /\ key' # None => FirstOnline(key)'
                      /\ \A c \in held' : key' = c
                      /\ \A c \in Cameras :
                           /\ pending'[c] # None \/ Driving(c, "move")' \/ Driving(c, "stop")'
                                => state'[c] = "online"
                           /\ pending'[c] = "move" => key' = c
                           /\ Driving(c, "move")' => key' = c \/ pending'[c] = "stop"
                           /\ c \in moving' =>
                                key' = c \/ pending'[c] = "stop" \/ Driving(c, "stop")'
    BY <1>1 DEF Stops
  <2>1. key' # None => FirstOnline(key)'
    BY <1>1, <1>2 DEF FirstOnline
  <2>2. ASSUME NEW c \in Cameras
        PROVE  /\ pending'[c] # None \/ Driving(c, "move")' \/ Driving(c, "stop")'
                    => state'[c] = "online"
               /\ pending'[c] = "move" => key' = c
               /\ Driving(c, "move")' => key' = c \/ pending'[c] = "stop"
               /\ c \in moving' =>
                    key' = c \/ pending'[c] = "stop" \/ Driving(c, "stop")'
    <3>1. /\ pending[c] # None \/ Driving(c, "move") \/ Driving(c, "stop")
               => state[c] = "online"
          /\ pending[c] # "move"
          /\ Driving(c, "move") => pending[c] = "stop"
          /\ c \in moving => pending[c] = "stop" \/ Driving(c, "stop")
      BY <1>1, Nothing DEF IInv, PtzInv, Stops
    <3>2. \A cmd : Driving(c, cmd)' <=> Driving(c, cmd)
      BY <1>1 DEF Driving
    <3>3. CASE c = f
      <4>1. f \in Cameras /\ f # None /\ FirstOnline(f)
        BY <1>2, <3>3, Nothing
      <4>2. state[f] = "online"
        BY <4>1, FirstIsOnline
      <4>3. key' = c /\ pending'[c] = "move" /\ state'[c] = "online"
        BY <1>1, <1>3, <3>3, <4>1, <4>2
      <4> QED BY <4>3
    <3>4. CASE c # f
      <4>1. pending'[c] = pending[c] /\ state'[c] = state[c] /\ moving' = moving
        BY <1>1, <1>3, <3>4
      <4>2. c \in moving' => pending'[c] = "stop" \/ Driving(c, "stop")'
        BY <3>1, <3>2, <4>1
      <4>3. Driving(c, "move")' => pending'[c] = "stop"
        BY <3>1, <3>2, <4>1
      <4>4. pending'[c] # None \/ Driving(c, "move")' \/ Driving(c, "stop")'
              => state'[c] = "online"
        BY <3>1, <3>2, <4>1
      <4> QED BY <3>1, <4>1, <4>2, <4>3, <4>4
    <3> QED BY <3>3, <3>4
  <2>3. \A c \in held' : key' = c
    <3>1. held = {}
      BY <1>1, Nothing DEF IInv, PtzInv, PtzTypes, Stops
    <3> QED BY <1>1, <1>3, <3>1
  <2> QED BY <2>1, <2>2, <2>3
<1> QED BY <1>1, <1>4, <1>5, StoreStays DEF IInv, PtzInv

LEMMA ReleaseKeyInv ==
  ASSUME IInv, ReleaseKey
  PROVE  IInv'
<1> DEFINE f == FirstOnlineCameraId
<1>1. /\ SameStore /\ UNCHANGED <<guard, backend, job, state, control, stopping, moving,
                                  strayed>>
      /\ key # None /\ key' = None /\ Enqueue(f, "stop")
  BY DEF ReleaseKey, Released, GuardFree, SameStore, store
<1>2. f \in Cameras \cup {None} /\ (f # None => FirstOnline(f))
  BY FirstIs
<1>3. ~strayed => f = key
  BY <1>1, KeyIsFirst DEF IInv
<1> HIDE DEF f
<1>4. /\ pending' \in [Cameras -> Commands \cup {None}]
      /\ f # None => pending'[f] = "stop"
      /\ \A c \in Cameras : c # f => pending'[c] = pending[c]
      /\ held' \in SUBSET Cameras
      /\ \A c \in held' : c \in held /\ (f # None => c # f)
  BY <1>1, <1>2 DEF Enqueue, Commands, IInv, PtzInv, PtzTypes
<1>5. PtzTypes' /\ Ends'
  BY <1>1, <1>4 DEF IInv, PtzInv, PtzTypes, Ends, Does
<1>6. Stops'
  <2> SUFFICES ASSUME ~strayed, NEW c \in Cameras
               PROVE  /\ pending'[c] # None \/ Driving(c, "move")' \/ Driving(c, "stop")'
                           => state'[c] = "online"
                      /\ pending'[c] # "move"
                      /\ Driving(c, "move")' => pending'[c] = "stop"
                      /\ c \in moving' => pending'[c] = "stop" \/ Driving(c, "stop")'
    <3>1. ASSUME ~strayed
          PROVE  held' = {}
      BY <1>1, <1>3, <1>4, <3>1 DEF IInv, PtzInv, Stops
    <3> QED BY <1>1, <3>1, Nothing DEF Stops
  <2>1. /\ pending[c] # None \/ Driving(c, "move") \/ Driving(c, "stop")
             => state[c] = "online"
        /\ pending[c] = "move" => key = c
        /\ Driving(c, "move") => key = c \/ pending[c] = "stop"
        /\ c \in moving => key = c \/ pending[c] = "stop" \/ Driving(c, "stop")
    BY DEF IInv, PtzInv, Stops
  <2>2. \A cmd : Driving(c, cmd)' <=> Driving(c, cmd)
    BY <1>1 DEF Driving
  <2>3. CASE c = f
    <3>1. pending'[c] = "stop" /\ state'[c] = "online"
      BY <1>1, <1>2, <1>4, <2>3, Nothing, FirstIsOnline
    <3> QED BY <3>1
  <2>4. CASE c # f
    BY <1>1, <1>3, <1>4, <2>1, <2>2, <2>4
  <2> QED BY <2>3, <2>4
<1> QED BY <1>1, <1>5, <1>6, StoreStays DEF IInv, PtzInv

LEMMA PickInv ==
  ASSUME IInv, Pick
  PROVE  IInv'
<1>1. PICK c \in Cameras :
        /\ pending[c] # None
        /\ control' = [at |-> "execute", cam |-> c, cmd |-> pending[c]]
        /\ pending' = [pending EXCEPT ![c] = None]
  BY DEF Pick
<1>2. /\ SameStore /\ UNCHANGED <<guard, backend, job, state, key, held, stopping, moving, strayed>>
      /\ control.at = "idle"
  BY DEF Pick, SameStore, store
<1>3. /\ pending[c] \in Commands /\ control' \in Works /\ control'.at = "execute"
      /\ control'.cam = c /\ control'.cmd = pending[c]
  BY <1>1 DEF IInv, PtzInv, PtzTypes, Works
<1>4. /\ pending' \in [Cameras -> Commands \cup {None}] /\ pending'[c] = None
      /\ \A d \in Cameras \ {c} : pending'[d] = pending[d]
  BY <1>1 DEF IInv, PtzInv, PtzTypes
<1>5. PtzTypes' /\ Ends'
  BY <1>2, <1>3, <1>4 DEF IInv, PtzInv, PtzTypes, Ends, Does
<1>6. Stops'
  <2> SUFFICES ASSUME ~strayed
               PROVE  /\ key' # None => FirstOnline(key)'
                      /\ \A d \in held' : key' = d
                      /\ \A d \in Cameras :
                           /\ pending'[d] # None \/ Driving(d, "move")' \/ Driving(d, "stop")'
                                => state'[d] = "online"
                           /\ pending'[d] = "move" => key' = d
                           /\ Driving(d, "move")' => key' = d \/ pending'[d] = "stop"
                           /\ d \in moving' =>
                                key' = d \/ pending'[d] = "stop" \/ Driving(d, "stop")'
    BY <1>2 DEF Stops
  <2>1. key' # None => FirstOnline(key)'
    BY <1>2 DEF IInv, PtzInv, Stops, FirstOnline
  <2>2. ASSUME NEW d \in Cameras
        PROVE  /\ pending'[d] # None \/ Driving(d, "move")' \/ Driving(d, "stop")'
                    => state'[d] = "online"
               /\ pending'[d] = "move" => key' = d
               /\ Driving(d, "move")' => key' = d \/ pending'[d] = "stop"
               /\ d \in moving' =>
                    key' = d \/ pending'[d] = "stop" \/ Driving(d, "stop")'
    <3>1. /\ pending[d] # None => state[d] = "online"
          /\ pending[d] = "move" => key = d
          /\ d \in moving => key = d \/ pending[d] = "stop"
      BY <1>2 DEF IInv, PtzInv, Stops, Driving
    <3>2. \A cmd : Driving(d, cmd)' <=> d = c /\ cmd = pending[c]
      BY <1>3 DEF Driving
    <3>3. CASE d = c
      BY <1>1, <1>2, <1>4, <3>1, <3>2, <3>3, Nothing DEF Commands
    <3>4. CASE d # c
      BY <1>2, <1>4, <3>1, <3>2, <3>4
    <3> QED BY <3>3, <3>4
  <2>3. \A d \in held' : key' = d
    BY <1>2 DEF IInv, PtzInv, Stops
  <2> QED BY <2>1, <2>2, <2>3
<1> QED BY <1>2, <1>5, <1>6, StoreStays DEF IInv, PtzInv

\* What Dispatch goes on to.
LEMMA SentIs ==
  ASSUME control \in Works
  PROVE  /\ Sent \subseteq Holds \cup Waits
         /\ \A s \in Sent : s.at \notin {"execute", "post"} /\ s.at # "gone"
BY RestIs DEF Sent, Works, Holds, Waits, Commands, Rest

\* Posting: what was looked up is still there, as it is the Backend that is
\* taken down last.
LEMMA PtzExecutorInv ==
  ASSUME IInv, PtzExecutor
  PROVE  IInv'
<1>1. /\ SameStore /\ UNCHANGED <<guard, backend, job, state, key, pending, held, stopping,
                                  moving, strayed>>
      /\ control.at = "execute" /\ control \in Works
      /\ IF backend.cams /\ backend.worker /\ state[control.cam] = "online"
         THEN control' = [control EXCEPT !.at = "post"] ELSE control' \in Sent
  BY DEF PtzExecutor, GuardFree, SameStore, store, IInv, PtzInv, PtzTypes, Waits, Holds
<1>2. backend.cams /\ backend.worker
  BY <1>1 DEF IInv, CallTypes, PtzInv, Ends
<1>3. /\ [control EXCEPT !.at = "post"] \in Works
      /\ [control EXCEPT !.at = "post"].at = "post"
      /\ [control EXCEPT !.at = "post"].cam = control.cam
      /\ [control EXCEPT !.at = "post"].cmd = control.cmd
  BY <1>1 DEF Works
<1>4. control' \in Works \cup Holds \cup Waits /\ PtzTypes'
  BY <1>1, <1>3, SentIs DEF IInv, PtzInv, PtzTypes
<1>5. Ends'
  BY <1>1, <1>2 DEF IInv, PtzInv, Ends, Does
<1>6. Stops'
  <2> SUFFICES ASSUME ~strayed
               PROVE  Stops'
    BY <1>1 DEF Stops
  <2>1. state[control.cam] = "online"
    <3>1. control.cam \in Cameras /\ control.cmd \in Commands
      BY <1>1 DEF Works
    <3>2. Driving(control.cam, "move") \/ Driving(control.cam, "stop")
      BY <1>1, <3>1 DEF Driving, Commands
    <3> QED BY <3>1, <3>2 DEF IInv, PtzInv, Stops
  <2>2. control'.at = "post" /\ control'.cam = control.cam /\ control'.cmd = control.cmd
    BY <1>1, <1>2, <1>3, <2>1
  <2>3. \A c, cmd : Driving(c, cmd)' <=> Driving(c, cmd)
    BY <1>1, <2>2 DEF Driving
  <2> QED BY <1>1, <2>3 DEF IInv, PtzInv, Stops, FirstOnline
<1> QED BY <1>1, <1>4, <1>5, <1>6, StoreStays DEF IInv, PtzInv

LEMMA PostInv ==
  ASSUME IInv, Post
  PROVE  IInv'
<1>1. PICK lost \in BOOLEAN :
        /\ strayed' = (strayed \/ lost)
        /\ moving' = IF lost THEN moving
                     ELSE IF control.cmd = "move" THEN moving \cup {control.cam}
                     ELSE moving \ {control.cam}
  BY DEF Post
<1>2. /\ SameStore /\ UNCHANGED <<guard, backend, job, state, key, pending, held, stopping>>
      /\ control.at = "post" /\ control \in Works /\ control' \in Sent
  BY DEF Post, SameStore, store, IInv, PtzInv, PtzTypes, Waits, Holds
<1>3. control.cam \in Cameras /\ control.cmd \in Commands
  BY <1>2 DEF Works
<1>4. PtzTypes'
  BY <1>1, <1>2, <1>3, SentIs DEF IInv, PtzInv, PtzTypes
<1>5. Ends'
  BY <1>2, SentIs DEF IInv, PtzInv, Ends, Does
<1>6. Stops'
  <2> SUFFICES ASSUME ~strayed, ~lost
               PROVE  /\ key' # None => FirstOnline(key)'
                      /\ \A c \in held' : key' = c
                      /\ \A c \in Cameras :
                           /\ pending'[c] # None \/ Driving(c, "move")' \/ Driving(c, "stop")'
                                => state'[c] = "online"
                           /\ pending'[c] = "move" => key' = c
                           /\ Driving(c, "move")' => key' = c \/ pending'[c] = "stop"
                           /\ c \in moving' =>
                                key' = c \/ pending'[c] = "stop" \/ Driving(c, "stop")'
    BY <1>1 DEF Stops, IInv, PtzInv, PtzTypes
  <2>1. key' # None => FirstOnline(key)'
    BY <1>2 DEF IInv, PtzInv, Stops, FirstOnline
  <2>2. ASSUME NEW c \in Cameras
        PROVE  /\ pending'[c] # None \/ Driving(c, "move")' \/ Driving(c, "stop")'
                    => state'[c] = "online"
               /\ pending'[c] = "move" => key' = c
               /\ Driving(c, "move")' => key' = c \/ pending'[c] = "stop"
               /\ c \in moving' =>
                    key' = c \/ pending'[c] = "stop" \/ Driving(c, "stop")'
    <3>1. /\ pending[c] # None => state[c] = "online"
          /\ pending[c] = "move" => key = c
          /\ Driving(c, "move") => key = c \/ pending[c] = "stop"
          /\ c \in moving => key = c \/ pending[c] = "stop" \/ Driving(c, "stop")
      BY DEF IInv, PtzInv, Stops
    <3>2. \A cmd : ~Driving(c, cmd)'
      BY <1>2, SentIs DEF Driving
    <3>3. c \in moving' => key = c \/ pending[c] = "stop"
      <4>1. CASE control.cmd = "move"
        BY <1>1, <1>2, <1>3, <3>1, <4>1 DEF Driving
      <4>2. CASE control.cmd = "stop"
        BY <1>1, <1>2, <1>3, <3>1, <4>2 DEF Driving
      <4> QED BY <1>3, <4>1, <4>2 DEF Commands
    <3> QED BY <1>2, <3>1, <3>2, <3>3
  <2>3. \A c \in held' : key' = c
    BY <1>2 DEF IInv, PtzInv, Stops
  <2> QED BY <2>1, <2>2, <2>3
<1> QED BY <1>2, <1>4, <1>5, <1>6, StoreStays DEF IInv, PtzInv

\* A move that is sent again is of the camera whose key is down.
LEMMA RefireInv ==
  ASSUME IInv, Refire
  PROVE  IInv'
<1>1. /\ SameStore /\ UNCHANGED <<guard, backend, job, state, key, pending, held, stopping,
                                  moving, strayed>>
      /\ control.at = "hold" /\ control \in Holds
      /\ control' = IF control.cam \in held THEN [control EXCEPT !.at = "execute"] ELSE Rest
  BY DEF Refire, SameStore, store, IInv, PtzInv, PtzTypes, Waits, Works
<1>2. /\ [control EXCEPT !.at = "execute"] \in Works
      /\ [control EXCEPT !.at = "execute"].at = "execute"
      /\ [control EXCEPT !.at = "execute"].cam = control.cam
      /\ [control EXCEPT !.at = "execute"].cmd = "move"
  BY <1>1 DEF Works, Holds, Commands
<1>3. PtzTypes'
  BY <1>1, <1>2, RestIs DEF IInv, PtzInv, PtzTypes
<1>4. Ends'
  BY <1>1 DEF IInv, PtzInv, Ends, Does
<1>5. Stops'
  <2> SUFFICES ASSUME ~strayed
               PROVE  Stops'
    BY <1>1 DEF Stops
  <2>1. \A c, cmd : ~Driving(c, cmd)
    BY <1>1 DEF Driving
  <2>2. CASE control.cam \notin held
    <3>1. \A c, cmd : ~Driving(c, cmd)'
      BY <1>1, <2>2, RestIs DEF Driving
    <3> QED BY <1>1, <2>1, <3>1 DEF IInv, PtzInv, Stops, FirstOnline
  <2>3. CASE control.cam \in held
    <3>1. key = control.cam /\ key \in Cameras /\ FirstOnline(key)
      BY <1>1, <2>3, Nothing DEF IInv, PtzInv, Stops, Holds
    <3>2. state[key] = "online"
      BY <3>1, FirstIsOnline
    <3>3. \A c, cmd : Driving(c, cmd)' <=> c = key /\ cmd = "move"
      BY <1>1, <1>2, <2>3, <3>1 DEF Driving
    <3> QED BY <1>1, <2>1, <3>1, <3>2, <3>3 DEF IInv, PtzInv, Stops, FirstOnline
  <2> QED BY <2>2, <2>3
<1> QED BY <1>1, <1>3, <1>4, <1>5, StoreStays DEF IInv, PtzInv

LEMMA MoveExpiresInv ==
  ASSUME IInv, MoveExpires
  PROVE  IInv'
<1>1. /\ SameStore /\ UNCHANGED <<guard, backend, job, state, key, pending, held, control,
                                  stopping, strayed>>
      /\ moving' \subseteq moving
  BY DEF MoveExpires, SameStore, store
<1>2. PtzTypes' /\ Ends'
  BY <1>1 DEF IInv, PtzInv, PtzTypes, Ends, Does
<1>3. \A c, cmd : Driving(c, cmd)' <=> Driving(c, cmd)
  BY <1>1 DEF Driving
<1>4. Stops'
  BY <1>1, <1>3 DEF IInv, PtzInv, Stops, FirstOnline
<1> QED BY <1>1, <1>2, <1>4, StoreStays DEF IInv, PtzInv

LEMMA ExitInv ==
  ASSUME IInv, Exit
  PROVE  IInv'
<1>1. /\ SameStore /\ UNCHANGED <<guard, backend, job, state, key, pending, held, stopping,
                                  moving, strayed>>
      /\ control.at = "idle" /\ control' = [Rest EXCEPT !.at = "gone"]
  BY DEF Exit, SameStore, store
<1>2. PtzTypes' /\ Ends'
  BY <1>1, RestIs DEF IInv, PtzInv, PtzTypes, Ends
<1>3. \A c, cmd : Driving(c, cmd)' <=> Driving(c, cmd)
  BY <1>1, RestIs DEF Driving
<1>4. Stops'
  BY <1>1, <1>3 DEF IInv, PtzInv, Stops, FirstOnline
<1> QED BY <1>1, <1>2, <1>4, StoreStays DEF IInv, PtzInv

\* With the key up and nothing on its way, no camera moves.
LEMMA AtRest ==
  ASSUME PtzInv, ~strayed, ~Busy
  PROVE  /\ moving = {} /\ key = None /\ held = {} /\ \A c \in Cameras : pending[c] = None
         /\ control.at \notin {"execute", "post"}
<1>1. /\ key = None /\ \A c \in Cameras : pending[c] = None
      /\ control.at \notin {"execute", "post"}
  BY DEF Busy, HasWork
<1>2. \A c \in Cameras : c \notin moving
  BY <1>1, Nothing DEF PtzInv, Stops, Driving, Commands
<1>3. held = {}
  BY <1>1, Nothing DEF PtzInv, PtzTypes, Stops
<1> QED BY <1>1, <1>2, <1>3 DEF PtzInv, PtzTypes

LEMMA TableChangeInv ==
  ASSUME IInv, TableChange
  PROVE  IInv'
<1>1. /\ SameStore /\ UNCHANGED <<guard, backend, job, key, pending, held, control, stopping,
                                  moving>>
      /\ strayed' = (strayed \/ Busy)
  BY DEF TableChange, SameStore, store
<1>2. state' \in [Cameras -> {"online", "offline", "gone"}]
  BY DEF TableChange, IInv, PtzInv, PtzTypes
<1>3. strayed' \in BOOLEAN
  BY <1>1 DEF IInv, PtzInv, PtzTypes, Busy, HasWork
<1>4. PtzTypes' /\ Ends'
  BY <1>1, <1>2, <1>3 DEF IInv, PtzInv, PtzTypes, Ends, Does
<1>5. Stops'
  <2> SUFFICES ASSUME ~strayed, ~Busy
               PROVE  Stops'
    BY <1>1 DEF Stops
  <2>1. /\ moving' = {} /\ key' = None /\ held' = {} /\ \A c \in Cameras : pending'[c] = None
        /\ control'.at \notin {"execute", "post"}
    BY <1>1, AtRest DEF IInv
  <2> QED BY <2>1, Nothing DEF Stops, Driving, Commands
<1> QED BY <1>1, <1>4, <1>5, StoreStays DEF IInv, PtzInv

-----------------------------------------------------------------------------
(* Unloading and crashes.                                                  *)

\* The UI thread goes on to take the Backend down; it writes nothing.
LEMMA DownInv ==
  ASSUME IInv, NEW at \in {"shutdown", "join", "down"}, ~Working("ui"), ~Working("ui")',
         Step("ui", at), SameStore,
         guard' \in {None, "ui", "plugin"}, guard = "plugin" => guard' = "plugin",
         backend' \in [coll : Collections \cup {None}, cams : BOOLEAN, ptz : BOOLEAN,
                       worker : BOOLEAN],
         at # "down" => backend'.coll = backend.coll /\ ~Does("ui", "collection"),
         ~Does("ui", "down")
  PROVE  CallTypes' /\ StoreInv'
<1>1. /\ job' \in [Callers -> Jobs] /\ job'["ui"].at = at
      /\ job'["plugin"] = job["plugin"]
  BY StepIs DEF IInv, Callers
<1>2. CallTypes'
  BY <1>1 DEF CallTypes
<1>3. \A p \in Callers : Working(p) \/ Working(p)' => job'[p] = job[p]
  BY <1>1 DEF Callers
<1>4. Turn'
  BY <1>1 DEF IInv, StoreInv, Turn, Working, Does, Guarded, Callers
<1>5. Synced'
  BY <1>1 DEF IInv, StoreInv, Synced, Does, SameStore
<1> QED BY <1>2, <1>3, <1>4, <1>5, StoreAside DEF IInv

LEMMA UnloadInv ==
  ASSUME IInv, Unload
  PROVE  IInv'
<1>1. /\ Does("ui", "idle") /\ guard = None /\ guard' = "ui"
      /\ backend' = [backend EXCEPT !.ptz = FALSE] /\ Step("ui", "shutdown")
      /\ SameStore /\ UNCHANGED ptz
  BY DEF Unload, Calm, Take, SameStore, store
<1>2. /\ job'["ui"].at = "shutdown"
  BY <1>1, StepIs DEF IInv, Callers
<1>3. /\ backend' \in [coll : Collections \cup {None}, cams : BOOLEAN, ptz : BOOLEAN,
                       worker : BOOLEAN]
      /\ backend'.coll = backend.coll /\ backend'.cams = backend.cams
      /\ backend'.worker = backend.worker
  BY <1>1 DEF IInv, CallTypes
<1>4. ~Working("ui") /\ ~Working("ui")' /\ ~Does("ui", "down") /\ ~Does("ui", "collection")
  BY <1>1, <1>2 DEF Working, Does
<1>5. CallTypes' /\ StoreInv'
  <2>1. guard = "plugin" => guard' = "plugin"
    BY <1>1, Nothing DEF Callers
  <2> QED BY <1>1, <1>3, <1>4, <2>1, DownInv
<1> QED BY <1>1, <1>2, <1>3, <1>5, PtzAside DEF IInv, Does

LEMMA ShutdownPtzInv ==
  ASSUME IInv, ShutdownPtz
  PROVE  IInv'
<1>1. /\ Does("ui", "shutdown") /\ guard = "ui" /\ guard' = None /\ stopping' = TRUE
      /\ Step("ui", "join") /\ SameStore
      /\ UNCHANGED <<backend, state, key, pending, held, control, moving, strayed>>
  BY DEF ShutdownPtz, LeaveGuard, Release, SameStore, store
<1>2. job'["ui"].at = "join"
  BY <1>1, StepIs DEF IInv, Callers
<1>3. ~Working("ui") /\ ~Working("ui")' /\ ~Does("ui", "down") /\ ~Does("ui", "collection")
  BY <1>1, <1>2 DEF Working, Does
<1>4. CallTypes' /\ StoreInv'
  <2>1. backend' \in [coll : Collections \cup {None}, cams : BOOLEAN, ptz : BOOLEAN,
                      worker : BOOLEAN]
    BY <1>1 DEF IInv, CallTypes
  <2> QED BY <1>1, <1>3, <2>1, DownInv
<1>5. PtzTypes' /\ Ends' /\ Stops'
  BY <1>1, <1>2 DEF IInv, PtzInv, PtzTypes, Ends, Stops, Driving, FirstOnline, Does
<1> QED BY <1>4, <1>5 DEF IInv, PtzInv

LEMMA ResetInv ==
  ASSUME IInv, Reset
  PROVE  IInv'
<1>1. /\ Does("ui", "join") /\ control.at = "gone" /\ guard \in {None, "ui"} /\ guard' = None
      /\ backend' = [coll |-> None, cams |-> FALSE, ptz |-> FALSE, worker |-> FALSE]
      /\ Step("ui", "down") /\ SameStore /\ UNCHANGED ptz
  BY DEF Reset, Joined, SameStore, store
<1>2. job'["ui"].at = "down"
  BY <1>1, StepIs DEF IInv, Callers
<1>3. ~Working("ui") /\ ~Working("ui")' /\ ~Does("ui", "down")
  BY <1>1, <1>2 DEF Working, Does
<1>4. CallTypes' /\ StoreInv'
  <2>1. guard # "plugin"
    BY <1>1, Nothing DEF Callers
  <2>2. backend' \in [coll : Collections \cup {None}, cams : BOOLEAN, ptz : BOOLEAN,
                      worker : BOOLEAN]
    BY <1>1
  <2> QED BY <1>1, <1>3, <2>1, <2>2, DownInv
<1>5. PtzTypes' /\ Ends' /\ Stops'
  BY <1>1 DEF IInv, PtzInv, PtzTypes, Ends, Stops, Driving, FirstOnline, ptz
<1> QED BY <1>4, <1>5 DEF IInv, PtzInv

\* The first state of a process, whatever the files hold.
LEMMA FreshCalls ==
  ASSUME NEW c \in Collections, guard = None, job = [p \in Callers |-> Idle],
         backend = Up(c)
  PROVE  /\ CallTypes /\ \A p \in Callers : ~Working(p) /\ \A d : ~Writing(p, d)
         /\ Turn /\ (active = c => Synced)
         /\ ~Does("ui", "down") /\ backend.worker /\ backend.cams
<1>1. job \in [Callers -> Jobs] /\ \A p \in Callers : job[p].at = "idle"
  BY IdleIs
<1>2. CallTypes /\ backend.coll = c /\ backend.worker /\ backend.cams
  BY <1>1, UpIs DEF CallTypes
<1>3. job["ui"].at = "idle" /\ job["plugin"].at = "idle"
  BY <1>1 DEF Callers
<1>4. \A p \in Callers : ~Working(p) /\ \A d : ~Writing(p, d)
  BY <1>1 DEF Working, Writing
<1>5. Turn /\ (active = c => Synced)
  BY <1>1, <1>2, <1>3, <1>4 DEF Turn, Synced, Does
<1> QED BY <1>2, <1>3, <1>4, <1>5 DEF Does

LEMMA RestartInv ==
  ASSUME IInv, Restart
  PROVE  IInv'
<1>1. PICK c \in Collections :
        /\ active' = c /\ context' = c /\ backend' = Up(c) /\ rows' = Shown(c)
        /\ guard' = None /\ job' = [p \in Callers |-> Idle]
        /\ hurt' = hurt \cup {d \in Collections : \E p \in Callers : Writing(p, d)}
        /\ UNCHANGED <<files, wanted>>
  BY DEF Restart
<1>2. /\ key' = None /\ pending' = [d \in Cameras |-> None] /\ held' = {} /\ control' = Rest
      /\ stopping' = FALSE /\ strayed' = (strayed \/ Busy \/ moving # {})
      /\ UNCHANGED <<state, moving>>
  BY DEF Restart
<1>3. /\ CallTypes' /\ Turn' /\ Synced' /\ \A p \in Callers : \A d : ~Writing(p, d)'
      /\ ~Does("ui", "down")' /\ backend'.worker /\ backend'.cams
  <2>1. job' \in [Callers -> Jobs] /\ \A p \in Callers : job'[p].at = "idle"
    BY <1>1, IdleIs
  <2>2. CallTypes' /\ backend'.coll = c /\ backend'.worker /\ backend'.cams
    BY <1>1, <2>1, UpIs DEF CallTypes
  <2>3. job'["ui"].at = "idle" /\ job'["plugin"].at = "idle"
    BY <2>1 DEF Callers
  <2>4. \A p \in Callers : ~Working(p)' /\ \A d : ~Writing(p, d)'
    BY <2>1 DEF Working, Writing
  <2>5. Turn' /\ Synced'
    BY <1>1, <2>1, <2>2, <2>3, <2>4 DEF Turn, Synced, Does
  <2> QED BY <2>2, <2>3, <2>4, <2>5 DEF Does
<1>4. StoreTypes'
  BY <1>1, ShownIs DEF IInv, StoreInv, StoreTypes
<1>5. Kept' /\ \A d \in Collections \ hurt' : files[d] = wanted[d]
  <2>1. \A d \in Collections \ hurt' : files[d] = wanted[d]
    BY <1>1 DEF IInv, StoreInv, Kept
  <2> QED BY <1>1, <2>1 DEF Kept
<1>6. Writes'
  BY <1>3 DEF Writes
<1>7. RowsRight'
  <2>1. rows'.of = c /\ (~rows'.blind => rows'.map = files[c].map)
    BY <1>1, ShownIs DEF IInv, StoreInv
  <2> QED BY <1>1, <1>5, <2>1 DEF RowsRight
<1>8. PtzTypes'
  BY <1>2, RestIs DEF IInv, PtzInv, PtzTypes, Busy, HasWork
<1>9. Ends'
  BY <1>3 DEF Ends
<1>10. Stops'
  <2> SUFFICES ASSUME moving = {}
               PROVE  Stops'
    BY <1>2 DEF Stops
  <2> QED BY <1>2, RestIs, Nothing DEF Stops, Driving, Commands
<1> QED BY <1>3, <1>4, <1>5, <1>6, <1>7, <1>8, <1>9, <1>10 DEF IInv, StoreInv, PtzInv

-----------------------------------------------------------------------------
(* The theorems.                                                           *)

LEMMA InitInv ==
  ASSUME Init
  PROVE  IInv
<1>1. active \in Collections /\ context = active
  BY DEF Init
<1>2. /\ CallTypes /\ \A p \in Callers : ~Working(p) /\ \A d : ~Writing(p, d)
      /\ Turn /\ Synced
      /\ ~Does("ui", "down") /\ backend.worker /\ backend.cams
  BY <1>1, FreshCalls DEF Init
<1>3. StoreTypes /\ Kept /\ RowsRight
  <2>1. Empty \in Files /\ Empty.map = None
    BY IdleIs DEF Empty
  <2>2. files = [c \in Collections |-> Empty] /\ wanted = files /\ hurt = {}
        /\ rows = [of |-> active, map |-> None, edited |-> FALSE, blind |-> FALSE]
    BY DEF Init
  <2> HIDE DEF Empty
  <2> QED BY <1>1, <2>1, <2>2 DEF StoreTypes, Kept, RowsRight
<1>4. Writes
  BY <1>2 DEF Writes
<1>5. PtzTypes /\ Ends /\ Stops
  <2>1. PtzTypes
    BY RestIs DEF Init, PtzTypes
  <2>2. Stops
    BY RestIs, Nothing DEF Init, Stops, Driving, Commands
  <2> QED BY <1>2, <2>1, <2>2 DEF Ends
<1> QED BY <1>2, <1>3, <1>4, <1>5 DEF IInv, StoreInv, PtzInv

LEMMA NextInv ==
  ASSUME IInv, [Next]_vars
  PROVE  IInv'
<1>1. CASE User
  <2>1. ASSUME NEW b \in Presets \cup {None}, Ask("ui", "bind", b)
        PROVE  IInv'
    BY <2>1, AskInv DEF Callers
  <2>2. CASE Ask("ui", "save", None)
    <3>1. None \in Presets \cup {None} /\ "ui" \in Callers /\ "save" \in {"save", "bind"}
      BY DEF Callers
    <3> QED BY <2>2, <3>1, AskInv
  <2> QED BY <1>1, <2>1, <2>2, RefreshInv, EditInv, SceneChangedInv, PressInv, ReleaseKeyInv,
             UnloadInv, CollectionChangedInv DEF User
<1>2. CASE Plugin
  BY <1>2, AskInv DEF Plugin, Callers
<1>3. ASSUME NEW p \in Callers, Caller(p)
      PROVE  IInv'
  BY <1>3, LoadInv, TruncateInv, WriteInv DEF Caller
<1>4. CASE Frontend
  BY <1>4, SetCollectionInv, SetStoreContextInv, ShutdownPtzInv, ResetInv DEF Frontend
<1>5. CASE Control
  BY <1>5, PickInv, PtzExecutorInv, PostInv, RefireInv, ExitInv DEF Control
<1>6. CASE UNCHANGED vars
  BY <1>6, StoreStays, PtzAside DEF IInv, vars, store, SameStore, Does
<1> QED BY <1>1, <1>2, <1>3, <1>4, <1>5, <1>6, RunnerInv, MoveExpiresInv, TableChangeInv,
           RestartInv DEF Next

\* Calls, files, keys and the control thread agree as IInv says, in every state that
\* the four threads, crashes and restarts can reach.
THEOREM Invariant ==
  Spec => []IInv
BY InitInv, NextInv, PTL DEF Spec

\* collection_<id>.json: whoever binds a scene or saves the mapping, in whatever
\* order, the file holds both as they were last asked for, except where a crash in
\* the middle of a write, or a write without the Guard over another, has hurt it.
THEOREM FilesKept ==
  Spec => []Kept
<1>1. IInv => Kept
  BY DEF IInv, StoreInv
<1> QED BY Invariant, <1>1, PTL

\* OnSceneChanged between two frontend events: it recalls the preset last bound in
\* the collection that OBS shows, unless that collection's file has been hurt.  (While
\* OBS is changing collections it does not: GotoOfActive.)
THEOREM GotoOfCollection ==
  Spec => RightGoto
<1>1. IInv /\ [Next]_vars =>
        [Calm /\ SceneChanged => active \in hurt \/ runner'.arg = wanted[active].bind]_vars
  BY GotoIs
<1> QED BY Invariant, <1>1, PTL DEF Spec, RightGoto

\* OnMoveHotkey: with the key up and nothing on its way no camera moves, for any
\* table, unless a camera came or went in between or a request was lost.
THEOREM ReleaseStops ==
  Spec => []ReleasedStops
<1>1. IInv => ReleasedStops
  BY AtRest DEF IInv, ReleasedStops
<1> QED BY Invariant, <1>1, PTL
=============================================================================
