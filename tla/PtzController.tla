---------------------------- MODULE PtzController ----------------------------
(***************************************************************************)
(* registry/ptz_controller.{h,cpp}: the PTZ dispatch governor.             *)
(*                                                                         *)
(* Any thread records what it wants of a camera with Move and Stop; one    *)
(* control thread (Loop, Dispatch) sends the SOAP requests.  states_,      *)
(* settings_, shutdown_ and dispatching_ are guarded by mu_, so a block    *)
(* that holds mu_ is one step here; activeAbort_ is an atomic read and     *)
(* written outside mu_, so each access to it is a step of its own.         *)
(*                                                                         *)
(* Around it: callers, threads inside Stop between its steps (the ABI's    *)
(* AMove / AStop, the dock's pad, the hotkeys); the executor, PtzExecutor  *)
(* of obs/abi.cpp down to SoapClient::DoRequest; and the cameras, external *)
(* to the program, which obey the requests that reach them.                *)
(*                                                                         *)
(* Time is two flags that FloorElapses raises: floorOpen is the test       *)
(* "now >= lastMove + minIntervalMs", and spaced records whether the       *)
(* interval has passed since exec_ was last called for a movement.         *)
(***************************************************************************)
EXTENDS Integers, FiniteSets

CONSTANTS Cameras,          (* camera ids, in the order of states_'s map     *)
          Velocities,       (* pan / tilt / zoom triples asked for           *)
          Still,            (* what a Stop asks for; not a velocity          *)
          None,             (* no command, no camera                         *)
          Callers,          (* threads that call the controller              *)
          SettingsChoices,  (* the PtzSettings users choose between          *)
          Runtime,          (* BOOLEAN: SetSettings and Shutdown are called  *)
          Reliable,         (* BOOLEAN: cameras are online and answer        *)
          MaxCalls          (* bound on the calls made                       *)

PtzSettings == [bounded : BOOLEAN, stopImmediate : BOOLEAN]
Command     == [vel : Velocities, timed : BOOLEAN]

ASSUME PtzAssumption ==
  /\ Cameras \subseteq Nat /\ IsFiniteSet(Cameras)
  /\ Still \notin Velocities /\ None \notin Velocities \cup {Still}
  /\ None \notin Command
  /\ None \notin Cameras /\ Still \notin Cameras
  /\ SettingsChoices \subseteq PtzSettings
  /\ Runtime \in BOOLEAN /\ Reliable \in BOOLEAN
  /\ MaxCalls \in Nat

VARIABLES
  states,       (* states_: per camera held, heldCmd, stopPending,
                   lastDispatched (None when hasDispatched is false)         *)
  settings,     (* settings_                                                 *)
  shutdown,     (* shutdown_                                                 *)
  dispatching,  (* dispatching_                                              *)
  activeAbort,  (* activeAbort_ points at the abort handle of the dispatch   *)
  signaled,     (* that handle has been signaled                             *)
  resent,       (* the request under way is SendPooled's second attempt      *)
  pc,           (* where the control thread is                               *)
  cmd,          (* the command it dispatches: its locals cameraId and cmd    *)
  snap,         (* its copy of the settings                                  *)
  floorOpen,    (* minIntervalMs has passed since lastMove                   *)
  spaced,       (* minIntervalMs has passed since the last call for a move   *)
  caller,       (* per calling thread, where it is inside Stop               *)
  waiter,       (* a thread inside WaitIdle: "out", "blocked" or "notified"  *)
  motion,       (* what each camera does: [vel, timed]                       *)
  calls         (* calls made, at most MaxCalls                              *)

requested == <<states, settings, shutdown>>
network   == <<signaled, resent, motion>>
vars == <<states, settings, shutdown, dispatching, activeAbort, signaled,
          resent, pc, cmd, snap, floorOpen, spaced, caller, waiter, motion,
          calls>>

CamState == [held : BOOLEAN, heldCmd : Command \cup {None},
             stopPending : BOOLEAN, lastDispatched : Command \cup {None}]
Request  == [cam : Cameras, vel : Velocities \cup {Still}, timed : BOOLEAN]
Resting  == [vel |-> Still, timed |-> FALSE]

\* PtzCommand's == : the timeout a command carries is not compared.
SameVelocity(a, b) == a # None /\ b # None /\ a.vel = b.vel

Fresh(s) == s.held /\ ~SameVelocity(s.heldCmd, s.lastDispatched)
Stopping == {c \in Cameras : states[c].stopPending}
Moving   == {c \in Cameras : Fresh(states[c])}
First(c, S) == c \in S /\ \A d \in S : c <= d

\* A slip: the thread wakes for moves only.
HasWorkMovesOnly == Moving # {}

HasWork == Stopping # {} \/ Moving # {}

Init ==
  /\ states = [c \in Cameras |-> [held |-> FALSE, heldCmd |-> None,
                                  stopPending |-> FALSE,
                                  lastDispatched |-> None]]
  /\ settings \in SettingsChoices
  /\ shutdown = FALSE /\ dispatching = 0
  /\ activeAbort = FALSE /\ signaled = FALSE /\ resent = FALSE
  /\ pc = "wait" /\ cmd = None /\ snap = settings
  /\ floorOpen = TRUE /\ spaced = TRUE
  /\ caller = [t \in Callers |-> [at |-> "out", cam |-> None]]
  /\ waiter = "out"
  /\ motion = [c \in Cameras |-> Resting]
  /\ calls = 0

-----------------------------------------------------------------------------
(* The callers.                                                            *)

Call(t) == caller[t].at = "out" /\ calls < MaxCalls /\ calls' = calls + 1

\* Move: hold a velocity.  An explicit move always re-arms dispatch, and it
\* cancels a Stop that has not been picked yet.
Move(t, c, v) ==
  /\ Call(t)
  /\ states' = [states EXCEPT ![c] =
                  [held |-> TRUE,
                   heldCmd |-> [vel |-> v, timed |-> settings.bounded],
                   stopPending |-> FALSE, lastDispatched |-> None]]
  /\ UNCHANGED <<settings, shutdown, dispatching, activeAbort, pc, cmd, snap,
                 floorOpen, spaced, caller, waiter, network>>

\* A slip: a Stop that finds the move not dispatched yet only purges it.
StopPurgesOnly(t, c) ==
  /\ Call(t)
  /\ states' = [states EXCEPT ![c] =
                  [held |-> FALSE, heldCmd |-> None,
                   stopPending |-> states[c].lastDispatched # None,
                   lastDispatched |-> None]]
  /\ UNCHANGED <<settings, shutdown, dispatching, activeAbort, pc, cmd, snap,
                 floorOpen, spaced, caller, waiter, network>>

\* Stop, the part under mu_: release the camera and queue a Stop.  In
\* immediate mode the thread goes on to abort the dispatch in flight.
Stop(t, c) ==
  /\ Call(t)
  /\ states' = [states EXCEPT ![c] =
                  [held |-> FALSE, heldCmd |-> None,
                   stopPending |-> TRUE, lastDispatched |-> None]]
  /\ caller' = [caller EXCEPT ![t] =
                  IF settings.stopImmediate THEN [at |-> "load", cam |-> c]
                                            ELSE @]
  /\ UNCHANGED <<settings, shutdown, dispatching, activeAbort, pc, cmd, snap,
                 floorOpen, spaced, waiter, network>>

\* Stop, after mu_: read activeAbort_, whichever camera it works for.
LoadAbort(t) ==
  /\ caller[t].at = "load"
  /\ caller' = [caller EXCEPT ![t] =
                  IF activeAbort THEN [@ EXCEPT !.at = "signal"]
                                 ELSE [at |-> "out", cam |-> None]]
  /\ UNCHANGED <<requested, dispatching, activeAbort, pc, cmd, snap,
                 floorOpen, spaced, waiter, network, calls>>

\* Stop, last: AbortHandle::Signal through the pointer just read.  When the
\* dispatch it belonged to has returned, the handle, a local of Dispatch, is
\* gone: nothing happens, or the handle of a later dispatch, which occupies
\* the same stack slot, is signaled.
Signal(t) ==
  /\ \/ caller[t].at = "signal" /\ signaled' = TRUE
     \/ caller[t].at = "dangling" /\ signaled' \in {signaled, TRUE}
  /\ caller' = [caller EXCEPT ![t] = [at |-> "out", cam |-> None]]
  /\ UNCHANGED <<requested, dispatching, activeAbort, pc, cmd, snap,
                 floorOpen, spaced, waiter, resent, motion, calls>>

SetSettings(t, s) ==
  /\ Runtime /\ Call(t) /\ s # settings
  /\ settings' = s
  /\ UNCHANGED <<states, shutdown, dispatching, activeAbort, pc, cmd, snap,
                 floorOpen, spaced, caller, waiter, network>>

\* Shutdown, up to the join.
Shutdown(t) ==
  /\ Runtime /\ Call(t) /\ ~shutdown
  /\ shutdown' = TRUE
  /\ UNCHANGED <<states, settings, dispatching, activeAbort, pc, cmd, snap,
                 floorOpen, spaced, caller, waiter, network>>

Quiet == dispatching = 0 /\ ~HasWork

\* WaitIdle: return at once when there is nothing to wait for, else block
\* on idleCv_, and test again when notified.
WaitIdle ==
  /\ \/ waiter = "out" /\ calls < MaxCalls /\ calls' = calls + 1
        /\ ~Quiet /\ waiter' = "blocked"
     \/ waiter = "notified" /\ UNCHANGED calls
        /\ waiter' = IF Quiet THEN "out" ELSE "blocked"
  /\ UNCHANGED <<requested, dispatching, activeAbort, pc, cmd, snap,
                 floorOpen, spaced, caller, network>>

-----------------------------------------------------------------------------
(* The control thread: Loop.                                               *)

\* A queued Stop preempts the floor.
MayPick == floorOpen \/ Stopping # {}

\* The pick: the first camera with a Stop queued, else the first with a
\* move to send.
PickStop ==
  /\ \E c \in Cameras :
       /\ First(c, Stopping)
       /\ states' = [states EXCEPT ![c] =
                       [held |-> FALSE, heldCmd |-> states[c].heldCmd,
                        stopPending |-> FALSE, lastDispatched |-> None]]
       /\ cmd' = [cam |-> c, vel |-> Still, timed |-> FALSE]
  /\ UNCHANGED <<floorOpen, spaced>>

PickMove ==
  /\ Stopping = {}
  /\ \E c \in Cameras :
       /\ First(c, Moving)
       /\ states' = [states EXCEPT ![c].lastDispatched = states[c].heldCmd]
       /\ cmd' = [cam |-> c, vel |-> states[c].heldCmd.vel,
                  timed |-> states[c].heldCmd.timed]
  /\ floorOpen' = FALSE /\ spaced' = FALSE

Pick ==
  /\ MayPick
  /\ PickStop \/ PickMove
  /\ pc' = "picked" /\ dispatching' = dispatching + 1
  /\ UNCHANGED <<settings, shutdown, activeAbort, caller, waiter, network,
                 calls>>

\* Woken with work to do: copy the settings, then pick or sleep out the floor.
Wake ==
  /\ pc = "wait" /\ HasWork
  /\ snap' = settings
  /\ Pick

FloorWait ==
  /\ pc = "wait" /\ HasWork /\ ~MayPick
  /\ snap' = settings /\ pc' = "floor"
  /\ UNCHANGED <<requested, dispatching, activeAbort, cmd, floorOpen, spaced,
                 caller, waiter, network, calls>>

\* The floor has passed, or a Stop arrived while the thread slept.
FloorOver == pc = "floor" /\ UNCHANGED snap /\ Pick

\* A slip: the thread exits only when every control has been released.
ExitWhenReleased ==
  /\ pc = "wait" /\ shutdown /\ ~HasWork /\ \A c \in Cameras : ~states[c].held
  /\ pc' = "exit"
  /\ UNCHANGED <<requested, dispatching, activeAbort, cmd, snap, floorOpen,
                 spaced, caller, waiter, network, calls>>

Exit ==
  /\ pc = "wait" /\ shutdown /\ ~HasWork
  /\ pc' = "exit"
  /\ UNCHANGED <<requested, dispatching, activeAbort, cmd, snap, floorOpen,
                 spaced, caller, waiter, network, calls>>

\* A slip: only a dispatched move notifies WaitIdle.
FinishAfterMove ==
  /\ pc = "done"
  /\ pc' = "wait" /\ dispatching' = dispatching - 1
  /\ waiter' = IF dispatching' = 0 /\ ~HasWork /\ waiter = "blocked"
                  /\ cmd.vel # Still
               THEN "notified" ELSE waiter
  /\ UNCHANGED <<requested, activeAbort, cmd, snap, floorOpen, spaced, caller,
                 network, calls>>

\* Back in Loop after Dispatch: wake WaitIdle when nothing is left.
Finish ==
  /\ pc = "done"
  /\ pc' = "wait" /\ dispatching' = dispatching - 1
  /\ waiter' = IF dispatching' = 0 /\ ~HasWork /\ waiter = "blocked"
               THEN "notified" ELSE waiter
  /\ UNCHANGED <<requested, activeAbort, cmd, snap, floorOpen, spaced, caller,
                 network, calls>>

-----------------------------------------------------------------------------
(* The control thread: Dispatch and the executor it calls.                 *)

\* A new abort handle, published for Stop in immediate mode only.
BeginDispatch ==
  /\ pc = "picked"
  /\ pc' = "exec" /\ signaled' = FALSE
  /\ activeAbort' = (activeAbort \/ snap.stopImmediate)
  /\ UNCHANGED <<requested, dispatching, cmd, snap, floorOpen, spaced, caller,
                 waiter, resent, motion, calls>>

\* Control returns from exec_, whose result is ignored: a move under a bound
\* stays to fire again, anything else ends the dispatch.
AfterExec == IF cmd.vel # Still /\ snap.bounded THEN "hold" ELSE "clear"

\* The request leaves, unless its handle was signaled before.
ExecSend ==
  /\ pc = "exec" /\ ~signaled
  /\ pc' = "sent"
  /\ UNCHANGED <<requested, dispatching, activeAbort, cmd, snap, floorOpen,
                 spaced, caller, waiter, network, calls>>

\* exec_ fails with nothing done: aborted, or (when the network is not
\* reliable) the camera is unknown, offline or does not answer.
ExecFail ==
  /\ pc \in {"exec", "sent"}
  /\ signaled \/ ~Reliable
  /\ pc' = AfterExec /\ resent' = FALSE
  /\ UNCHANGED <<requested, dispatching, activeAbort, signaled, cmd, snap,
                 floorOpen, spaced, caller, waiter, motion, calls>>

\* The camera does what the request says.
CameraObeys ==
  /\ pc = "sent"
  /\ pc' = "obeyed"
  /\ motion' = [motion EXCEPT ![cmd.cam] =
                  [vel |-> cmd.vel, timed |-> cmd.timed]]
  /\ UNCHANGED <<requested, dispatching, activeAbort, signaled, resent, cmd,
                 snap, floorOpen, spaced, caller, waiter, calls>>

\* No answer came: SendPooled drops the connection and sends the request once
\* more, whether the camera has obeyed it or not, unless it was aborted.
Resend ==
  /\ pc \in {"sent", "obeyed"} /\ ~Reliable
  /\ ~signaled /\ ~resent
  /\ pc' = "exec" /\ resent' = TRUE
  /\ UNCHANGED <<requested, dispatching, activeAbort, signaled, cmd, snap,
                 floorOpen, spaced, caller, waiter, motion, calls>>

\* exec_ returns after the camera obeyed, with or without its answer.
ExecReturn ==
  /\ pc = "obeyed"
  /\ pc' = AfterExec /\ resent' = FALSE
  /\ UNCHANGED <<requested, dispatching, activeAbort, signaled, cmd, snap,
                 floorOpen, spaced, caller, waiter, motion, calls>>

\* Slips: a replaced command, and a released one, is sent again.
StillHeldAny == states[cmd.cam].held /\ ~states[cmd.cam].stopPending
StillHeldUnlessReplaced ==
  LET s == states[cmd.cam]
  IN  s.held => ~s.stopPending /\ SameVelocity(s.heldCmd, cmd)

\* The command under way is still the one its camera's operator holds.
StillHeld ==
  LET s == states[cmd.cam]
  IN  s.held /\ ~s.stopPending /\ SameVelocity(s.heldCmd, cmd)

\* moveTimeoutSeconds passed and the command is still held: send it again,
\* with the abort handle of the first time.  At least a second has passed,
\* and the floor is at most one.
Refire ==
  /\ pc = "hold" /\ StillHeld
  /\ pc' = "exec" /\ floorOpen' = TRUE /\ spaced' = FALSE
  /\ UNCHANGED <<requested, dispatching, activeAbort, cmd, snap, caller,
                 waiter, network, calls>>

\* The command was released or replaced while it was held.
Released ==
  /\ pc = "hold" /\ ~StillHeld
  /\ pc' = "clear"
  /\ UNCHANGED <<requested, dispatching, activeAbort, cmd, snap, floorOpen,
                 spaced, caller, waiter, network, calls>>

\* Slips: the early return after a Stop leaves the handle published, and the
\* dispatch is counted off here as well as in Loop.
EndDispatchOfMove ==
  /\ pc = "clear"
  /\ pc' = "done"
  /\ activeAbort' = (activeAbort /\ (cmd.vel = Still \/ ~snap.stopImmediate))
  /\ UNCHANGED <<requested, dispatching, cmd, snap, floorOpen, spaced, caller,
                 waiter, network, calls>>
EndDispatchCounted ==
  /\ pc = "clear"
  /\ pc' = "done" /\ dispatching' = dispatching - 1
  /\ UNCHANGED <<requested, activeAbort, cmd, snap, floorOpen, spaced, caller,
                 waiter, network, calls>>

\* Dispatch returns: unpublish the handle, which ceases to exist under any
\* thread that has already read the pointer.
EndDispatch ==
  /\ pc = "clear"
  /\ pc' = "done"
  /\ activeAbort' = (activeAbort /\ ~snap.stopImmediate)
  /\ caller' = [t \in Callers |->
                  IF caller[t].at = "signal"
                  THEN [caller[t] EXCEPT !.at = "dangling"] ELSE caller[t]]
  /\ UNCHANGED <<requested, dispatching, cmd, snap, floorOpen, spaced, waiter,
                 network, calls>>

-----------------------------------------------------------------------------
(* Time and the cameras.                                                   *)

FloorElapses ==
  /\ ~(floorOpen /\ spaced)
  /\ floorOpen' = TRUE /\ spaced' = TRUE
  /\ UNCHANGED <<requested, dispatching, activeAbort, pc, cmd, snap, caller,
                 waiter, network, calls>>

\* The Timeout a bounded ContinuousMove carries runs out in the camera.
MoveExpires(c) ==
  /\ motion[c].timed
  /\ motion' = [motion EXCEPT ![c] = Resting]
  /\ UNCHANGED <<requested, dispatching, activeAbort, signaled, resent, pc,
                 cmd, snap, floorOpen, spaced, caller, waiter, calls>>

Loop     == Wake \/ FloorWait \/ FloorOver \/ Exit \/ Finish
Dispatch == BeginDispatch \/ ExecSend \/ ExecFail \/ CameraObeys
            \/ Resend \/ ExecReturn \/ Refire \/ Released \/ EndDispatch

CallerNext(t) ==
  \/ \E c \in Cameras, v \in Velocities : Move(t, c, v)
  \/ \E c \in Cameras : Stop(t, c)
  \/ \E s \in SettingsChoices : SetSettings(t, s)
  \/ Shutdown(t)

Next ==
  \/ \E t \in Callers : CallerNext(t) \/ LoadAbort(t) \/ Signal(t)
  \/ WaitIdle
  \/ Loop \/ Dispatch
  \/ FloorElapses
  \/ \E c \in Cameras : MoveExpires(c)

Spec == Init /\ [][Next]_vars

\* Nobody has to call.  The control thread runs, a request ends (WinHTTP's
\* timeouts), a thread inside Stop or WaitIdle goes on, and time passes.
Fairness ==
  /\ WF_vars(Loop \/ Dispatch)
  /\ \A t \in Callers : WF_vars(LoadAbort(t)) /\ WF_vars(Signal(t))
  /\ WF_vars(waiter = "notified" /\ WaitIdle)
  /\ WF_vars(FloorElapses)
  /\ \A c \in Cameras : WF_vars(MoveExpires(c))

FairSpec == Spec /\ Fairness

-----------------------------------------------------------------------------
(* Types.                                                                  *)

ControlStates == {"wait", "floor", "picked", "exec", "sent", "obeyed", "hold",
                  "clear", "done", "exit"}
CallerStates  == [at : {"out", "load", "signal", "dangling"},
                  cam : Cameras \cup {None}]

\* The type invariant.
TypeOK ==
  /\ states \in [Cameras -> CamState]
  /\ settings \in PtzSettings /\ snap \in PtzSettings
  /\ shutdown \in BOOLEAN /\ dispatching \in Nat
  /\ activeAbort \in BOOLEAN /\ signaled \in BOOLEAN /\ resent \in BOOLEAN
  /\ pc \in ControlStates /\ cmd \in Request \cup {None}
  /\ floorOpen \in BOOLEAN /\ spaced \in BOOLEAN
  /\ caller \in [Callers -> CallerStates]
  /\ waiter \in {"out", "blocked", "notified"}
  /\ motion \in [Cameras -> [vel : Velocities \cup {Still}, timed : BOOLEAN]]
  /\ calls \in 0 .. MaxCalls

-----------------------------------------------------------------------------
(* The promise of the class comment, as a refinement.                      *)

\* What the operator of camera c wants now.
Wish(c) == IF states[c].held THEN states[c].heldCmd.vel ELSE Still

\* From the pick to the return of exec_, the request is under way.
InFlight == pc \in {"picked", "exec", "sent", "obeyed"}

Governor == INSTANCE PtzGovernor WITH
  wish   <- [c \in Cameras |-> Wish(c)],
  flight <- IF InFlight
            THEN [cam |-> cmd.cam, vel |-> cmd.vel]
            ELSE [cam |-> Still, vel |-> Still],
  motion <- [c \in Cameras |-> motion[c].vel]

\* The controller implements the governor: requests never overlap, and each
\* one, a re-fire included, carries what its camera's operator wants when it
\* is issued, so that a move that was released or replaced before it was
\* picked is never sent ("latest-wins coalescing", ptz_controller.h:43).
LatestWins == Governor!Spec

-----------------------------------------------------------------------------
(* Safety.                                                                 *)

\* While the thread sleeps out the movement floor with mu_ released, callers
\* may purge what it woke up for, but never leave it nothing to pick: the
\* branch "if (!have) continue" of Loop is never taken.
FloorHasWork == pc = "floor" => HasWork

\* A thread blocked in WaitIdle is not left behind when the controller is
\* quiet: whatever empties the queue also notifies.
NoLostIdleWakeup == waiter = "blocked" => ~Quiet

\* The control thread is inside Dispatch, or about to leave it.
Dispatching == pc \in {"picked", "exec", "sent", "obeyed", "hold", "clear",
                       "done"}

\* The controller's books agree with where its thread is: one dispatch is
\* counted exactly while there is one, the abort pointer is published only
\* between BeginDispatch and EndDispatch of an immediate-mode dispatch, a
\* camera is never both held and waiting for its Stop, and what is held can
\* be sent.
ControlInv ==
  /\ dispatching = IF Dispatching THEN 1 ELSE 0
  /\ Dispatching => cmd \in Request
  /\ activeAbort => snap.stopImmediate
                    /\ pc \in {"exec", "sent", "obeyed", "hold", "clear"}
  /\ \A c \in Cameras :
       /\ states[c].held => states[c].heldCmd # None
       /\ states[c].stopPending => ~states[c].held
  /\ FloorHasWork

\* A Stop of camera c is under way and can still reach it.
StopUnderWay(c) ==
  /\ pc \in {"picked", "exec", "sent"}
  /\ cmd.cam = c /\ cmd.vel = Still

\* No runaway: a camera that moves without a bound is held by its operator,
\* or a Stop is queued for it or on its way.
NoRunaway ==
  \A c \in Cameras :
    motion[c].vel # Still /\ ~motion[c].timed =>
      states[c].held \/ states[c].stopPending \/ StopUnderWay(c)

\* What makes NoRunaway inductive in queued mode with a network that answers:
\* nothing is ever aborted, and a move still under way when its camera was
\* released has that camera's Stop queued behind it.
QueuedInv ==
  /\ ~signaled /\ ~settings.stopImmediate /\ ~snap.stopImmediate
  /\ \A t \in Callers : caller[t].at = "out"
  /\ InFlight /\ cmd.vel # Still /\ ~states[cmd.cam].held =>
       states[cmd.cam].stopPending
  /\ NoRunaway

\* A movement is handed to the executor for the first time.
MovePicked == pc # "picked" /\ pc' = "picked" /\ cmd'.vel # Still

\* The minimum interval separates a movement from the one handed over before
\* it, whichever camera that was for, and whether it was a new one or a held
\* one fired again (a re-fire itself follows at least a second after).  The
\* code breaks it: a re-fire does not renew lastMove.
MinInterval == [][MovePicked => spaced]_vars

-----------------------------------------------------------------------------
(* Liveness.                                                               *)

\* A Stop that is queued is picked, or withdrawn by a Move of its camera,
\* unless it came after the thread had exited.
StopLands == \A c \in Cameras :
  states[c].stopPending ~> ~states[c].stopPending \/ pc = "exit"

\* Once nobody calls any more, every camera ends up doing what was last asked
\* of it (unless the controller was shut down).
Convergence ==
  <>[](shutdown \/ \A c \in Cameras : motion[c].vel = Wish(c))

\* Shutdown returns: the thread it joins finishes the work queued and exits.
ShutdownReturns == shutdown ~> pc = "exit"

\* With a bound on moves a released camera comes to rest even when its Stop
\* is lost, aborted or starved: the re-fires cease and the bound runs out.
RestsAfterRelease ==
  \A c \in Cameras :
    <>[](~states[c].held) => <>[](motion[c].vel = Still)
=============================================================================
