------------------------------- MODULE Backend -------------------------------
(***************************************************************************)
(* What the plugin's threads share: the ABI's Backend and its Guard()      *)
(* (obs/abi.cpp), the collection_<id>.json files (registry/store.cpp), and *)
(* the cameras that keys and bound scenes drive (obs/hotkeys.cpp,          *)
(* obs/scene_presets.cpp, the Sources tab of obs/dock.cpp, the frontend    *)
(* events and the unloading of obs/glue.cpp).                              *)
(*                                                                         *)
(* Four threads: OBS's UI thread, on which the dock, the hotkeys and the   *)
(* frontend events run; the thread of another plugin that calls the ABI;   *)
(* the detached one that a change of scene starts; and PtzController's,    *)
(* reduced here to one command per camera, the latest.                     *)
(* A collection's file is loaded, changed and saved under Guard() by the   *)
(* ABI, and without it by the Sources tab.  It holds the camera of one     *)
(* source and the preset bound to one scene.                               *)
(***************************************************************************)
EXTENDS Naturals, Sequences, FiniteSets, SequencesExt

CONSTANTS
  Table,        (* the cameras, in the order of discovery's table            *)
  Collections, Presets,
  None,         (* no camera, preset, collection or thread                   *)
  Torn,         (* a file that was truncated and not yet written             *)
  Bounded,      (* whether ptz_move_timeout_s may be > 0, so that a move ends
                   by itself                                                 *)
  MaxEvents     (* bound on what users, cameras and other plugins do         *)

Cameras == ToSet(Table)

ASSUME BackendAssumption ==
  /\ Table \in Seq(Cameras) /\ IsInjective(Table) /\ MaxEvents \in Nat
  /\ Bounded \in BOOLEAN
  /\ None \notin Cameras \cup Collections \cup Presets
               \cup {"ui", "plugin", "move", "stop"}
  /\ Torn \notin [map : Cameras \cup {None}, bind : Presets \cup {None}]
  /\ Cameras # {} /\ Collections # {}

VARIABLES
  guard,        (* the thread that holds Guard()                             *)
  backend,      (* collection, whether cams and worker are set, ptz is set   *)
  job,          (* what the UI thread and the other plugin are at            *)
  active,       (* OBS's scene collection                                    *)
  context,      (* SceneCollection(), the dock's idea of it                  *)
  files,
  rows,         (* the Sources tab: of which collection, the source's camera,
                   whether the user set it, whether its camera was unknown   *)
  runner,       (* the thread of FireGoto and the preset it has been given   *)
  state,        (* each camera: "online", "offline", or not in the table     *)
  key,          (* the camera that the pressed key moves                     *)
  pending, held, control, stopping,   (* PtzController                       *)
  moving,       (* cameras that move                                         *)
  wanted,       (* what users and plugins have asked each file to hold       *)
  hurt,         (* collections that a crash or an unguarded write may have
                   left otherwise                                            *)
  strayed,      (* a camera came or went while a key was down or a command
                   was on its way, or a request was lost                     *)
  events

store   == <<active, context, files, rows, wanted, hurt>>
ptz     == <<state, key, pending, held, control, stopping, moving, strayed>>
vars    == <<guard, backend, job, runner, store, ptz, events>>

Callers == {"ui", "plugin"}
Empty   == [map |-> None, bind |-> None]
Idle    == [at |-> "idle", op |-> "none", arg |-> None, coll |-> None, cs |-> Empty]
Rest    == [at |-> "idle", cam |-> None, cmd |-> None]
NoRunner == [at |-> "idle", arg |-> None]

Event(n) == events' = events + n /\ events' <= MaxEvents

\* abi::Initialize and SetStoreContext, in InitAbi; the dock is built last.
Up(c) == [coll |-> c, cams |-> TRUE, ptz |-> TRUE, worker |-> TRUE]

Init ==
  /\ guard = None /\ job = [p \in Callers |-> Idle]
  /\ active \in Collections /\ context = active /\ backend = Up(active)
  /\ files = [c \in Collections |-> Empty] /\ wanted = files /\ hurt = {}
  /\ rows = [of |-> active, map |-> None, edited |-> FALSE, blind |-> FALSE]
  /\ runner = NoRunner
  /\ state = [c \in Cameras |-> "online"] /\ key = None
  /\ pending = [c \in Cameras |-> None] /\ held = {}
  /\ control = Rest /\ stopping = FALSE
  /\ moving = {} /\ strayed = FALSE
  /\ events = 0

Does(p, at)  == job[p].at = at
Goes(p, j)   == job' = [job EXCEPT ![p] = j]
Step(p, at)  == Goes(p, [job[p] EXCEPT !.at = at])
Take(p)      == guard = None /\ guard' = p
Release(p)   == guard = p /\ guard' = None
\* The UI thread is free for the next event, or the Guard for a short use.
Calm         == Does("ui", "idle")
GuardFree    == guard = None /\ UNCHANGED guard

(***************************************************************************)
(* The collections' files                                                  *)
(***************************************************************************)
\* LoadJson: a file that is not there, or not to be parsed, is an empty one.
LoadCollection(c) == IF c = None \/ files[c] = Torn THEN Empty ELSE files[c]

\* SourcesWidget::Refresh, which reads the file without the Guard.  A camera
\* that is not listed leaves its source "None", and so does a torn file.
Shown(c) ==
  LET m == LoadCollection(c).map  known == m = None \/ state[m] # "gone"
  IN [of |-> c, map |-> IF known THEN m ELSE None, edited |-> FALSE,
      blind |-> ~known \/ files[c] = Torn]

Refresh ==
  /\ Calm /\ rows' = Shown(context) /\ UNCHANGED guard
  /\ UNCHANGED <<backend, job, runner, active, context, files, wanted, hurt, ptz, events>>

Edit ==
  /\ Calm /\ Event(1)
  /\ \E m \in Cameras \cup {None} :
       /\ m # None => state[m] # "gone"
       /\ rows' = [rows EXCEPT !.map = m, !.edited = TRUE]
  /\ UNCHANGED <<guard, backend, job, runner, active, context, files, wanted, hurt, ptz>>

\* SourcesWidget::Save; set_binding and clear_binding (None) of the dock or
\* another plugin.
Ask(p, op, arg) ==
  /\ Does(p, "idle") /\ Event(1)
  /\ Goes(p, [Idle EXCEPT !.at = "load", !.op = op, !.arg = arg])
  /\ UNCHANGED <<guard, backend, runner, store, ptz>>

Guarded(p) == job[p].op = "bind"

\* A slip: the Sources tab writes its mapping alone.
ChangedDrops(p, c) ==
  IF Guarded(p) THEN [LoadCollection(c) EXCEPT !.bind = job[p].arg]
  ELSE [Empty EXCEPT !.map = rows.map]
\* What p makes of the file of c; the Sources tab keeps the bindings.
Changed(p, c) ==
  IF Guarded(p) THEN [LoadCollection(c) EXCEPT !.bind = job[p].arg]
  ELSE [LoadCollection(c) EXCEPT !.map = rows.map]

Writing(p, c) == job[p].at \in {"truncate", "write"} /\ job[p].coll = c

\* Nobody can say what a file holds that two threads write, one without the
\* Guard, that gets the rows of another collection, or a row that was shown
\* empty without being so.
Hurts(p, c) ==
  \/ files[c] = Torn
  \/ \E q \in Callers \ {p} : Writing(q, c) /\ ~(Guarded(p) /\ Guarded(q))
  \/ ~Guarded(p) /\ (rows.of # c \/ (rows.blind /\ ~rows.edited))

Load(p) ==
  LET c == IF Guarded(p) THEN backend.coll ELSE context
  IN /\ Does(p, "load")
     /\ IF Guarded(p) THEN guard = None ELSE TRUE
     /\ IF c = None
        THEN Goes(p, Idle) /\ UNCHANGED <<guard, wanted, hurt>>
        ELSE /\ guard' = IF Guarded(p) THEN p ELSE guard
             /\ Goes(p, [job[p] EXCEPT !.at = "truncate", !.coll = c, !.cs = Changed(p, c)])
             /\ wanted' = [wanted EXCEPT ![c] =
                             IF Guarded(p) THEN [@ EXCEPT !.bind = job[p].arg]
                             ELSE IF rows.edited THEN [@ EXCEPT !.map = rows.map] ELSE @]
             /\ hurt' = IF Hurts(p, c) THEN hurt \cup {c} ELSE hurt
     /\ UNCHANGED <<backend, runner, active, context, files, rows, ptz, events>>

\* SaveJson opens the file and truncates it, then writes.
Truncate(p) ==
  /\ Does(p, "truncate") /\ files' = [files EXCEPT ![job[p].coll] = Torn]
  /\ Step(p, "write")
  /\ UNCHANGED <<guard, backend, runner, active, context, rows, wanted, hurt, ptz, events>>

Write(p) ==
  /\ Does(p, "write") /\ files' = [files EXCEPT ![job[p].coll] = job[p].cs]
  /\ guard' = IF Guarded(p) THEN None ELSE guard
  /\ Goes(p, Idle)
  /\ UNCHANGED <<backend, runner, active, context, rows, wanted, hurt, ptz, events>>

(***************************************************************************)
(* Scene and collection changes                                            *)
(***************************************************************************)
\* A slip: it does not wait for the Guard.
FindBindingUnlocked(b) == b = LoadCollection(backend.coll).bind /\ UNCHANGED guard
\* FindBindingForScene: get_bindings reads the file under the Guard.
FindBinding(b) == b = LoadCollection(backend.coll).bind /\ GuardFree

\* OnSceneChanged, which starts a thread when the scene is bound (one at a time
\* here).  OBS changes the scene of a collection it has just loaded before it says
\* that the collection has changed.
SceneChanged ==
  /\ Calm \/ Does("ui", "collection")
  /\ runner.at = "idle"
  /\ \E b \in Presets \cup {None} :
       /\ FindBinding(b)
       /\ runner' = [at |-> IF b = None THEN "idle" ELSE "look", arg |-> b]
  /\ UNCHANGED <<backend, job, store, ptz, events>>

\* The thread calls goto_preset, which looks the camera up (it may be unknown or
\* offline), makes a Worker if there is none, and has it send the request: all of
\* it without the Guard.
RunCamera ==
  /\ runner.at = "look"
  /\ \E found \in {backend.cams, FALSE} :
       runner' = IF found THEN [runner EXCEPT !.at = "make"] ELSE NoRunner
  /\ UNCHANGED <<guard, backend, job, store, ptz, events>>

MakeWorker ==
  /\ runner.at = "make" /\ backend' = [backend EXCEPT !.worker = TRUE]
  /\ runner' = [runner EXCEPT !.at = "send"]
  /\ UNCHANGED <<guard, job, store, ptz, events>>

GotoPreset ==
  /\ runner.at = "send" /\ runner' = NoRunner
  /\ UNCHANGED <<guard, backend, job, store, ptz, events>>

CollectionChanged(c) ==
  /\ Calm /\ c # active /\ active' = c /\ Event(1)
  /\ Goes("ui", [Idle EXCEPT !.at = "collection", !.coll = c])
  /\ UNCHANGED <<guard, backend, runner, context, files, rows, wanted, hurt, ptz>>

SetCollection ==
  /\ Does("ui", "collection") /\ GuardFree
  /\ backend' = [backend EXCEPT !.coll = job["ui"].coll]
  /\ Step("ui", "context")
  /\ UNCHANGED <<runner, store, ptz, events>>

SetStoreContext ==
  /\ Does("ui", "context") /\ context' = job["ui"].coll /\ Goes("ui", Idle)
  /\ UNCHANGED <<guard, backend, runner, active, files, rows, wanted, hurt, ptz, events>>

(***************************************************************************)
(* Move keys and the control thread                                        *)
(***************************************************************************)
FirstOnline(c) ==
  \E i \in DOMAIN Table : /\ Table[i] = c /\ state[c] = "online"
                          /\ \A j \in 1 .. (i - 1) : state[Table[j]] # "online"
FirstOnlineCameraId ==
  IF \E c \in Cameras : FirstOnline(c) THEN CHOOSE c \in Cameras : FirstOnline(c) ELSE None

Enqueue(c, cmd) ==
  IF c = None THEN UNCHANGED <<pending, held>>
  ELSE /\ pending' = [pending EXCEPT ![c] = cmd]
       /\ held' = (IF cmd = "move" THEN held \cup {c} ELSE held \ {c})

Press ==
  /\ Calm /\ GuardFree /\ key = None /\ Event(1)
  /\ key' = FirstOnlineCameraId /\ Enqueue(FirstOnlineCameraId, "move")
  /\ UNCHANGED <<backend, job, runner, store, state, control, stopping, moving,
                 strayed>>

\* A slip: release purges what is queued, but queues no Stop.
ReleasedPurges(c) == Enqueue(c, None)
\* PtzController::Stop purges the camera's move.
Released(c) == Enqueue(c, "stop")

ReleaseKey ==
  /\ Calm /\ GuardFree /\ key # None /\ key' = None
  /\ Released(FirstOnlineCameraId)
  /\ UNCHANGED <<backend, job, runner, store, state, control, stopping, moving,
                 strayed, events>>

HasWork == \E c \in Cameras : pending[c] # None

\* The control thread takes a Stop before any move ...
Pick ==
  /\ control.at = "idle"
  /\ \E c \in Cameras :
       /\ pending[c] # None
       /\ (\E d \in Cameras : pending[d] = "stop") => pending[c] = "stop"
       /\ control' = [at |-> "execute", cam |-> c, cmd |-> pending[c]]
       /\ pending' = [pending EXCEPT ![c] = None]
  /\ UNCHANGED <<guard, backend, job, runner, store, state, key, held, stopping,
                 moving, strayed, events>>

\* Dispatch returns after a Stop or an unbounded move; with a bounded one it waits
\* whether the camera is still held when the move ends, whatever became of it.  The
\* setting may be changed at any time.
Sent == {Rest} \cup IF Bounded /\ control.cmd = "move"
                    THEN {[control EXCEPT !.at = "hold"]} ELSE {}

\* ... PtzExecutor looks the camera up under the Guard ...
PtzExecutor ==
  /\ control.at = "execute" /\ GuardFree
  /\ IF backend.cams /\ backend.worker /\ state[control.cam] = "online"
     THEN control' = [control EXCEPT !.at = "post"] ELSE control' \in Sent
  /\ UNCHANGED <<backend, job, runner, store, state, key, pending, held, stopping,
                 moving, strayed, events>>

\* ... and the request reaches the camera, or not.
Post ==
  /\ control.at = "post" /\ control' \in Sent
  /\ \E lost \in BOOLEAN :
       /\ Event(IF lost THEN 1 ELSE 0)
       /\ strayed' = (strayed \/ lost)
       /\ moving' = IF lost THEN moving
                    ELSE IF control.cmd = "move" THEN moving \cup {control.cam}
                    ELSE moving \ {control.cam}
  /\ UNCHANGED <<guard, backend, job, runner, store, state, key, pending, held,
                 stopping>>

\* A bounded move that is still held is sent again, and nothing else is until it is
\* released, not even while Shutdown waits.
Refire ==
  /\ control.at = "hold"
  /\ control' = IF control.cam \in held THEN [control EXCEPT !.at = "execute"] ELSE Rest
  /\ UNCHANGED <<guard, backend, job, runner, store, state, key, pending, held,
                 stopping, moving, strayed, events>>

\* The camera ends a bounded move; which of those that move are bounded is left open.
MoveExpires ==
  /\ Bounded /\ \E c \in moving : moving' = moving \ {c}
  /\ UNCHANGED <<guard, backend, job, runner, store, state, key, pending, held,
                 control, stopping, strayed, events>>

Exit ==
  /\ control.at = "idle" /\ stopping /\ ~HasWork
  /\ control' = [Rest EXCEPT !.at = "gone"]
  /\ UNCHANGED <<guard, backend, job, runner, store, state, key, pending, held,
                 stopping, moving, strayed, events>>

Busy == key # None \/ HasWork \/ control.at \notin {"idle", "gone"}

TableChange ==
  /\ Event(1) /\ strayed' = (strayed \/ Busy)
  /\ \E c \in Cameras, s \in {"online", "offline", "gone"} :
       s # state[c] /\ state' = [state EXCEPT ![c] = s]
  /\ UNCHANGED <<guard, backend, job, runner, store, key, pending, held, control,
                 stopping, moving>>

(***************************************************************************)
(* Unloading and crashes                                                   *)
(***************************************************************************)
\* Unload: no more events and hotkeys; the controller leaves the Backend ...
Unload ==
  /\ Calm /\ Take("ui")
  /\ backend' = [backend EXCEPT !.ptz = FALSE]
  /\ Step("ui", "shutdown")
  /\ UNCHANGED <<runner, store, ptz, events>>

\* A slip: the Guard is held while joining.
LeaveGuardLate == UNCHANGED guard
LeaveGuard == Release("ui")

\* ... is told to stop, with the Guard released, ...
ShutdownPtz ==
  /\ Does("ui", "shutdown") /\ LeaveGuard /\ stopping' = TRUE
  /\ Step("ui", "join")
  /\ UNCHANGED <<backend, runner, store, state, key, pending, held, control, moving,
                 strayed, events>>

Joined == control.at = "gone"

\* ... joined, and the rest is taken down under the Guard.
Reset ==
  /\ Does("ui", "join") /\ Joined /\ guard \in {None, "ui"} /\ guard' = None
  /\ backend' = [coll |-> None, cams |-> FALSE, ptz |-> FALSE, worker |-> FALSE]
  /\ Step("ui", "down")
  /\ UNCHANGED <<runner, store, ptz, events>>

\* The process ends, at any moment, and is started again.  Files, cameras and
\* what moves stay as they are.
Restart ==
  /\ Event(1)
  /\ guard' = None /\ job' = [p \in Callers |-> Idle]
  /\ active' \in Collections /\ context' = active' /\ backend' = Up(active')
  /\ rows' = Shown(active')
  /\ runner' = NoRunner
  /\ key' = None /\ pending' = [c \in Cameras |-> None] /\ held' = {}
  /\ control' = Rest /\ stopping' = FALSE
  /\ hurt' = hurt \cup {c \in Collections : \E p \in Callers : Writing(p, c)}
  /\ strayed' = (strayed \/ Busy \/ moving # {})
  /\ UNCHANGED <<files, wanted, state, moving>>

User == \/ Refresh \/ Edit \/ Ask("ui", "save", None)
        \/ \E b \in Presets \cup {None} : Ask("ui", "bind", b)
        \/ SceneChanged \/ Press \/ ReleaseKey \/ Unload
        \/ \E c \in Collections : CollectionChanged(c)

Plugin == \E b \in Presets \cup {None} : Ask("plugin", "bind", b)

Caller(p) == Load(p) \/ Truncate(p) \/ Write(p)
Frontend  == SetCollection \/ SetStoreContext \/ ShutdownPtz \/ Reset
Runner    == RunCamera \/ MakeWorker \/ GotoPreset
Control   == Pick \/ PtzExecutor \/ Post \/ Refire \/ Exit

Next == \/ User \/ Plugin
        \/ \E p \in Callers : Caller(p)
        \/ Frontend \/ Runner \/ Control
        \/ MoveExpires \/ TableChange \/ Restart

Spec == Init /\ [][Next]_vars

\* Threads go on, and requests end in a timeout if nothing else.  The mutex is
\* not fair; the calls that could keep one waiting are bounded here.
FairSpec == /\ Spec
            /\ \A p \in Callers : WF_vars(Caller(p))
            /\ WF_vars(Frontend) /\ WF_vars(Runner) /\ WF_vars(Control)

(***************************************************************************)
(* Properties                                                              *)
(***************************************************************************)
\* A collection's file holds the mapping the user last saved for it and the
\* preset last bound, whoever bound it: the Sources tab and the ABI rewrite the
\* whole file, and neither loses what the other wrote, nor does a crash between
\* two calls, unless Hurts or a crash in the middle of a write says otherwise.
Kept ==
  \A c \in Collections \ hurt :
    (\A p \in Callers : ~Writing(p, c)) => files[c] = wanted[c]

\* A change of scene between two frontend events recalls the preset last bound in
\* OBS's collection, whoever bound it, and is not kept from it by another plugin's
\* write or a crash between two.
RightGoto ==
  [][Calm /\ SceneChanged => active \in hurt \/ runner'.arg = wanted[active].bind]_vars

\* Press = move, release = stop: with the key up and nothing on its way no
\* camera moves, unless one came or went in between, or a request was lost.
ReleasedStops ==
  ~strayed /\ ~Busy /\ Calm => moving = {}

\* Every call into the ABI returns, every frontend event is dealt with, and
\* unloading ends although the thread it joins needs the Guard, unless that thread
\* is in the middle of a bounded move whose release nobody will report any more.
Refiring == Bounded /\ stopping /\ held # {}
CallsReturn ==
  \A p \in Callers : job[p].at # "idle" ~>
                      job[p].at \in {"idle", "down"} \/ (p = "ui" /\ Refiring)

\* "When you switch to a bound scene, the plugin fires that camera's preset.
\* Binding is stored per scene collection." (docs/USER_GUIDE.md:104-105): whenever
\* the scene changes, what is recalled is what OBS's collection binds.  The code
\* breaks it: the scene of a new collection changes before it is told of that.
GotoOfActive ==
  [][SceneChanged => active \in hurt \/ runner'.arg = wanted[active].bind]_vars

\* RunCamera's "caller must hold Guard() while `fn` runs" (obs/abi.cpp:50-51), under
\* which Shutdown drops the Worker: once the plugin is unloaded there is no Worker
\* and no request on its way.  The code breaks it: none of the callers holds it.
NothingAfterUnload == Does("ui", "down") => ~backend.worker /\ runner.at # "send"
=============================================================================
