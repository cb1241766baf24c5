------------------------- MODULE PtzControllerProofs -------------------------
(***************************************************************************)
(* Proofs about PtzController, for any cameras, velocities, callers,       *)
(* settings and number of calls.                                           *)
(***************************************************************************)
EXTENDS PtzController, TLAPS

IInv == TypeOK /\ ControlInv

LEMMA InitInv == Init => IInv
<1> SUFFICES ASSUME Init PROVE IInv
  OBVIOUS
<1> USE PtzAssumption
<1>1. TypeOK
  <2>1. states \in [Cameras -> CamState]
    BY DEF Init, CamState
  <2>2. settings \in PtzSettings /\ snap \in PtzSettings
    BY DEF Init
  <2>3. caller \in [Callers -> CallerStates]
    BY DEF Init, CallerStates
  <2>4. motion \in [Cameras -> [vel : Velocities \cup {Still}, timed : BOOLEAN]]
    BY DEF Init, Resting
  <2>5. calls \in 0 .. MaxCalls
    BY DEF Init
  <2> QED
    BY <2>1, <2>2, <2>3, <2>4, <2>5 DEF Init, TypeOK, ControlStates
<1>2. ControlInv
  BY DEF Init, ControlInv, Dispatching, FloorHasWork
<1> QED BY <1>1, <1>2 DEF IInv

\* What a camera's books say when the invariant holds.
CamOK(s) == (s.held => s.heldCmd # None) /\ (s.stopPending => ~s.held)

-----------------------------------------------------------------------------
(* The callers' steps.                                                     *)

LEMMA MoveInv ==
  ASSUME IInv, NEW t \in Callers, NEW c \in Cameras, NEW v \in Velocities,
         Move(t, c, v)
  PROVE  IInv' /\ HasWork'
<1> USE PtzAssumption DEF IInv, Move, Call, network
<1> DEFINE new == [held |-> TRUE,
                   heldCmd |-> [vel |-> v, timed |-> settings.bounded],
                   stopPending |-> FALSE, lastDispatched |-> None]
<1>1. new \in CamState /\ Fresh(new) /\ CamOK(new)
  <2>1. new.heldCmd \in Command
    BY DEF TypeOK, Command, PtzSettings
  <2>2. new.heldCmd # None
    BY <2>1
  <2>3. new \in CamState
    BY <2>1 DEF CamState
  <2> QED BY <2>2, <2>3 DEF Fresh, SameVelocity, CamOK
<1>2. states' = [states EXCEPT ![c] = new]
  OBVIOUS
<1> HIDE DEF new
<1>3. states' \in [Cameras -> CamState] /\ states'[c] = new
      /\ \A d \in Cameras \ {c} : states'[d] = states[d]
  BY <1>1, <1>2 DEF TypeOK
<1>4. TypeOK'
  BY <1>3 DEF TypeOK
<1>5. HasWork'
  BY <1>1, <1>3 DEF HasWork, Moving
<1>6. \A d \in Cameras : CamOK(states'[d])
  BY <1>1, <1>3 DEF ControlInv, CamOK
<1>7. ControlInv'
  BY <1>5, <1>6 DEF ControlInv, CamOK, Dispatching, FloorHasWork
<1> QED BY <1>4, <1>5, <1>7

LEMMA StopInv ==
  ASSUME IInv, NEW t \in Callers, NEW c \in Cameras, Stop(t, c)
  PROVE  IInv' /\ HasWork'
<1> USE PtzAssumption DEF IInv, Stop, Call, network
<1> DEFINE new == [held |-> FALSE, heldCmd |-> None,
                   stopPending |-> TRUE, lastDispatched |-> None]
<1>1. new \in CamState /\ new.stopPending /\ CamOK(new)
  BY DEF CamState, CamOK
<1>2. states' = [states EXCEPT ![c] = new]
  OBVIOUS
<1>3. caller' \in [Callers -> CallerStates]
  BY DEF TypeOK, CallerStates
<1> HIDE DEF new
<1>4. states' \in [Cameras -> CamState] /\ states'[c] = new
      /\ \A d \in Cameras \ {c} : states'[d] = states[d]
  BY <1>1, <1>2 DEF TypeOK
<1>5. TypeOK'
  BY <1>3, <1>4 DEF TypeOK
<1>6. HasWork'
  BY <1>1, <1>4 DEF HasWork, Stopping
<1>7. \A d \in Cameras : CamOK(states'[d])
  BY <1>1, <1>4 DEF ControlInv, CamOK
<1>8. ControlInv'
  BY <1>6, <1>7 DEF ControlInv, CamOK, Dispatching, FloorHasWork
<1> QED BY <1>5, <1>6, <1>8

\* Steps that leave the queue, the control thread and its request alone.
LEMMA AsideInv ==
  ASSUME IInv,
         \/ \E t \in Callers : LoadAbort(t) \/ Signal(t) \/ Shutdown(t)
         \/ \E t \in Callers, s \in SettingsChoices : SetSettings(t, s)
         \/ WaitIdle
         \/ FloorElapses
         \/ \E c \in Cameras : MoveExpires(c)
  PROVE  IInv'
<1> USE PtzAssumption DEF IInv, network, requested
<1>1. SUFFICES TypeOK' /\ UNCHANGED <<states, dispatching, activeAbort, pc,
                                       cmd, snap>>
  BY DEF ControlInv, Dispatching, FloorHasWork, HasWork, Moving, Stopping
<1>2. CASE \E t \in Callers : LoadAbort(t)
  BY <1>2 DEF TypeOK, LoadAbort, CallerStates
<1>3. CASE \E t \in Callers : Signal(t)
  <2> PICK t \in Callers : Signal(t)
    BY <1>3
  <2>1. signaled' \in BOOLEAN
    BY DEF Signal, TypeOK
  <2>2. caller' \in [Callers -> CallerStates]
    BY DEF Signal, TypeOK, CallerStates
  <2> QED BY <2>1, <2>2 DEF TypeOK, Signal
<1>4. CASE \E t \in Callers : Shutdown(t)
  BY <1>4 DEF TypeOK, Shutdown, Call
<1>5. CASE \E t \in Callers, s \in SettingsChoices : SetSettings(t, s)
  BY <1>5 DEF TypeOK, SetSettings, Call
<1>6. CASE WaitIdle
  BY <1>6 DEF TypeOK, WaitIdle
<1>7. CASE FloorElapses
  BY <1>7 DEF TypeOK, FloorElapses
<1>8. CASE \E c \in Cameras : MoveExpires(c)
  BY <1>8 DEF TypeOK, MoveExpires, Resting
<1> QED
  BY <1>2, <1>3, <1>4, <1>5, <1>6, <1>7, <1>8

-----------------------------------------------------------------------------
(* The control thread's steps.                                             *)

LEMMA PickInv ==
  ASSUME IInv, Pick, pc \in {"wait", "floor"}, snap' \in PtzSettings
  PROVE  IInv'
<1> USE PtzAssumption DEF IInv, Pick, network
<1>1. dispatching = 0 /\ ~activeAbort
  BY DEF ControlInv, Dispatching
<1>2. /\ states' \in [Cameras -> CamState]
      /\ cmd' \in Request
      /\ floorOpen' \in BOOLEAN /\ spaced' \in BOOLEAN
      /\ \A c \in Cameras : CamOK(states'[c])
  <2>1. CASE PickStop
    <3>1. PICK c \in Cameras :
            /\ states' = [states EXCEPT ![c] =
                            [held |-> FALSE, heldCmd |-> states[c].heldCmd,
                             stopPending |-> FALSE, lastDispatched |-> None]]
            /\ cmd' = [cam |-> c, vel |-> Still, timed |-> FALSE]
      BY <2>1 DEF PickStop
    <3> DEFINE new == [held |-> FALSE, heldCmd |-> states[c].heldCmd,
                       stopPending |-> FALSE, lastDispatched |-> None]
    <3>2. cmd' \in Request
      BY <3>1 DEF Request
    <3>3. states[c] \in CamState
      BY DEF TypeOK
    <3>4. new \in CamState
      BY <3>3 DEF CamState
    <3>5. CamOK(new)
      BY DEF CamOK
    <3>6. states' = [states EXCEPT ![c] = new]
      BY <3>1
    <3> HIDE DEF new
    <3>7. states' \in [Cameras -> CamState] /\ states'[c] = new
          /\ \A d \in Cameras \ {c} : states'[d] = states[d]
      BY <3>4, <3>6 DEF TypeOK
    <3>8. \A d \in Cameras : CamOK(states'[d])
      BY <3>5, <3>7 DEF ControlInv, CamOK
    <3> QED BY <2>1, <3>2, <3>7, <3>8 DEF PickStop, TypeOK
  <2>2. CASE PickMove
    <3> PICK c \in Cameras :
          /\ First(c, Moving)
          /\ states' = [states EXCEPT ![c].lastDispatched = states[c].heldCmd]
          /\ cmd' = [cam |-> c, vel |-> states[c].heldCmd.vel,
                     timed |-> states[c].heldCmd.timed]
      BY <2>2 DEF PickMove
    <3>1. states[c] \in CamState /\ states[c].heldCmd \in Command
      BY DEF First, Moving, Fresh, ControlInv, TypeOK, CamState
    <3>2. cmd' \in Request
      BY <3>1 DEF Request, Command
    <3>3. states' \in [Cameras -> CamState]
      BY <3>1 DEF TypeOK, CamState
    <3>4. \A d \in Cameras : CamOK(states'[d])
      BY DEF TypeOK, CamState, ControlInv, CamOK
    <3> QED BY <2>2, <3>2, <3>3, <3>4 DEF PickMove
  <2> QED BY <2>1, <2>2
<1>3. TypeOK'
  BY <1>1, <1>2 DEF TypeOK, ControlStates
<1>4. pc' = "picked" /\ dispatching' = 1 /\ ~activeAbort'
  BY <1>1
<1>5. ControlInv'
  BY <1>2, <1>4 DEF ControlInv, Dispatching, FloorHasWork, CamOK
<1> QED BY <1>3, <1>5

LEMMA LoopInv ==
  ASSUME IInv, Loop
  PROVE  IInv'
<1> USE PtzAssumption DEF IInv, network, requested
<1>1. CASE Wake
  BY <1>1, PickInv DEF Wake, TypeOK
<1>2. CASE FloorOver
  BY <1>2, PickInv DEF FloorOver, TypeOK
<1>3. CASE FloorWait
  <2>1. TypeOK'
    BY <1>3 DEF FloorWait, TypeOK, ControlStates
  <2>2. ControlInv'
    BY <1>3 DEF FloorWait, ControlInv, Dispatching, FloorHasWork, HasWork,
                Moving, Stopping
  <2> QED BY <2>1, <2>2
<1>4. CASE Exit
  <2>1. TypeOK'
    BY <1>4 DEF Exit, TypeOK, ControlStates
  <2>2. ControlInv'
    BY <1>4 DEF Exit, ControlInv, Dispatching, FloorHasWork
  <2> QED BY <2>1, <2>2
<1>5. CASE Finish
  <2>1. dispatching = 1
    BY <1>5 DEF Finish, ControlInv, Dispatching
  <2>2. TypeOK'
    BY <1>5, <2>1 DEF Finish, TypeOK, ControlStates
  <2>3. ControlInv'
    BY <1>5, <2>1 DEF Finish, ControlInv, Dispatching, FloorHasWork
  <2> QED BY <2>2, <2>3
<1> QED
  BY <1>1, <1>2, <1>3, <1>4, <1>5 DEF Loop

LEMMA DispatchInv ==
  ASSUME IInv, Dispatch
  PROVE  IInv'
<1> USE PtzAssumption DEF IInv, network, requested
<1>1. pc \in {"picked", "exec", "sent", "obeyed", "hold", "clear"}
      /\ pc' \in {"exec", "sent", "obeyed", "hold", "clear", "done"}
  BY DEF Dispatch, BeginDispatch, ExecSend, ExecFail, CameraObeys, Resend,
         ExecReturn, Refire, Released, EndDispatch, AfterExec
<1>2. UNCHANGED <<states, settings, shutdown, dispatching, cmd, snap, waiter,
                  calls>>
  BY DEF Dispatch, BeginDispatch, ExecSend, ExecFail, CameraObeys, Resend,
         ExecReturn, Refire, Released, EndDispatch
<1>3. cmd \in Request /\ dispatching = 1
  BY <1>1 DEF ControlInv, Dispatching
<1>4. /\ activeAbort' \in BOOLEAN
      /\ activeAbort' => snap.stopImmediate
                         /\ pc' \in {"exec", "sent", "obeyed", "hold", "clear"}
  <2>1. activeAbort \in BOOLEAN /\ snap.stopImmediate \in BOOLEAN
    BY DEF TypeOK, PtzSettings
  <2>2. activeAbort => snap.stopImmediate
    BY DEF ControlInv
  <2>3. CASE BeginDispatch
    BY <2>1, <2>2, <2>3 DEF BeginDispatch
  <2>4. CASE EndDispatch
    BY <2>1, <2>2, <2>4 DEF EndDispatch
  <2>5. CASE ~BeginDispatch /\ ~EndDispatch
    <3>1. activeAbort' = activeAbort
          /\ pc' \in {"exec", "sent", "obeyed", "hold", "clear"}
      BY <2>5 DEF Dispatch, ExecSend, ExecFail, CameraObeys, Resend,
                  ExecReturn, Refire, Released, AfterExec
    <3> QED BY <2>1, <2>2, <3>1
  <2> QED BY <2>3, <2>4, <2>5
<1>5. /\ signaled' \in BOOLEAN /\ resent' \in BOOLEAN
      /\ floorOpen' \in BOOLEAN /\ spaced' \in BOOLEAN
  BY DEF Dispatch, BeginDispatch, ExecSend, ExecFail, CameraObeys, Resend,
         ExecReturn, Refire, Released, EndDispatch, TypeOK
<1>6. caller' \in [Callers -> CallerStates]
  <2>1. CASE EndDispatch
    BY <2>1 DEF EndDispatch, TypeOK, CallerStates
  <2>2. CASE ~EndDispatch
    BY <2>2 DEF Dispatch, BeginDispatch, ExecSend, ExecFail, CameraObeys,
                Resend, ExecReturn, Refire, Released, TypeOK
  <2> QED BY <2>1, <2>2
<1>7. motion' \in [Cameras -> [vel : Velocities \cup {Still}, timed : BOOLEAN]]
  <2>1. CASE CameraObeys
    BY <1>3, <2>1 DEF CameraObeys, TypeOK, Request
  <2>2. CASE ~CameraObeys
    BY <2>2 DEF Dispatch, BeginDispatch, ExecSend, ExecFail, EndDispatch,
                Resend, ExecReturn, Refire, Released, TypeOK
  <2> QED BY <2>1, <2>2
<1>8. TypeOK'
  BY <1>1, <1>2, <1>4, <1>5, <1>6, <1>7 DEF TypeOK, ControlStates
<1>9. ControlInv'
  BY <1>1, <1>2, <1>3, <1>4 DEF ControlInv, Dispatching, FloorHasWork
<1> QED BY <1>8, <1>9

-----------------------------------------------------------------------------
(* The invariants.                                                         *)

LEMMA NextInv ==
  ASSUME IInv, [Next]_vars
  PROVE  IInv'
<1>1. CASE \E t \in Callers : CallerNext(t)
  BY <1>1, MoveInv, StopInv, AsideInv DEF CallerNext
<1>2. CASE Loop
  BY <1>2, LoopInv
<1>3. CASE Dispatch
  BY <1>3, DispatchInv
<1>4. CASE UNCHANGED vars
  BY <1>4 DEF vars, IInv, TypeOK, ControlInv, Dispatching, FloorHasWork,
              HasWork, Moving, Stopping
<1> QED
  BY <1>1, <1>2, <1>3, <1>4, AsideInv DEF Next

LEMMA AlwaysInv == Spec => []IInv
  BY InitInv, NextInv, PTL DEF Spec

\* Every reachable state is well typed.
THEOREM TypeCorrect == Spec => []TypeOK
  BY AlwaysInv, PTL DEF IInv

\* The controller's books agree with its thread.
THEOREM ControlConsistent == Spec => []ControlInv
  BY AlwaysInv, PTL DEF IInv

\* The thread never leaves the movement floor with nothing to pick.
THEOREM FloorNeverInVain == Spec => []FloorHasWork
<1>1. IInv => FloorHasWork
  BY DEF IInv, ControlInv
<1> QED BY <1>1, AlwaysInv, PTL

-----------------------------------------------------------------------------
(* WaitIdle.                                                               *)

\* The queue empties in Loop only, which counts its dispatch until it has
\* notified: no other step can leave a waiter behind.
LEMMA WakeupStep ==
  ASSUME IInv, NoLostIdleWakeup, [Next]_vars
  PROVE  NoLostIdleWakeup'
<1> USE DEF NoLostIdleWakeup, Quiet
<1>1. CASE \E t \in Callers, c \in Cameras, v \in Velocities : Move(t, c, v)
  BY <1>1, MoveInv
<1>2. CASE \E t \in Callers, c \in Cameras : Stop(t, c)
  BY <1>2, StopInv
<1>3. CASE \/ \E t \in Callers : LoadAbort(t) \/ Signal(t) \/ Shutdown(t)
           \/ \E t \in Callers, s \in SettingsChoices : SetSettings(t, s)
           \/ FloorElapses
           \/ \E c \in Cameras : MoveExpires(c)
           \/ FloorWait \/ Exit
           \/ UNCHANGED vars
  BY <1>3 DEF LoadAbort, Signal, Shutdown, SetSettings, FloorElapses,
              MoveExpires, FloorWait, Exit, vars, requested, HasWork, Moving,
              Stopping
<1>4. CASE Dispatch
  <2>1. UNCHANGED <<states, dispatching, waiter>>
    BY <1>4 DEF Dispatch, BeginDispatch, ExecSend, ExecFail, CameraObeys,
                Resend, ExecReturn, Refire, Released, EndDispatch, requested
  <2> QED BY <2>1 DEF HasWork, Moving, Stopping
<1>5. CASE Wake \/ FloorOver
  BY <1>5 DEF Wake, FloorOver, Pick, IInv, TypeOK
<1>6. CASE Finish
  <2>1. HasWork' <=> HasWork
    BY <1>6 DEF Finish, requested, HasWork, Moving, Stopping
  <2> QED BY <1>6, <2>1 DEF Finish
<1>7. CASE WaitIdle
  <2>1. HasWork' <=> HasWork
    BY <1>7 DEF WaitIdle, requested, HasWork, Moving, Stopping
  <2> QED BY <1>7, <2>1 DEF WaitIdle
<1> QED BY <1>1, <1>2, <1>3, <1>4, <1>5, <1>6, <1>7 DEF Next, CallerNext, Loop

\* A thread in WaitIdle is never left behind by a controller gone quiet.
THEOREM IdleWakeupNotLost == Spec => []NoLostIdleWakeup
<1>1. Init => NoLostIdleWakeup
  BY DEF Init, NoLostIdleWakeup
<1> QED BY <1>1, WakeupStep, AlwaysInv, PTL DEF Spec

-----------------------------------------------------------------------------
(* In queued stop mode, on a network that answers, no camera runs away.    *)

\* Nobody can choose the immediate stop mode, and requests are answered.
QueuedMode == Reliable /\ \A s \in SettingsChoices : ~s.stopImmediate

QInv == IInv /\ QueuedInv

\* The parts of QueuedInv: nothing is aborted, the move under way is held or
\* has its Stop queued, and each camera is under control.
NoAborts ==
  /\ ~signaled /\ ~settings.stopImmediate /\ ~snap.stopImmediate
  /\ \A t \in Callers : caller[t].at = "out"
FlightHeld ==
  InFlight /\ cmd.vel # Still /\ ~states[cmd.cam].held =>
    states[cmd.cam].stopPending
Controlled(c) ==
  motion[c].vel # Still /\ ~motion[c].timed =>
    states[c].held \/ states[c].stopPending \/ StopUnderWay(c)

LEMMA QueuedParts ==
  QueuedInv <=> NoAborts /\ FlightHeld /\ \A c \in Cameras : Controlled(c)
  BY DEF QueuedInv, NoRunaway, NoAborts, FlightHeld, Controlled

LEMMA InitQueued ==
  ASSUME QueuedMode, Init
  PROVE  QueuedInv
<1>1. NoAborts
  BY DEF QueuedMode, Init, NoAborts
<1>2. FlightHeld
  BY DEF Init, FlightHeld, InFlight
<1>3. \A c \in Cameras : Controlled(c)
  BY DEF Init, Controlled, Resting
<1> QED BY <1>1, <1>2, <1>3, QueuedParts

\* A step that touches nothing the invariant speaks of.
LEMMA QueuedAside ==
  ASSUME QueuedInv,
         UNCHANGED <<states, settings, signaled, pc, cmd, snap, caller, motion>>
  PROVE  QueuedInv'
  BY DEF QueuedInv, NoRunaway, StopUnderWay, InFlight

-----------------------------------------------------------------------------
(* The callers.                                                            *)

\* A camera that is called upon is held, or waits for its Stop, afterwards.
LEMMA MoveQueued ==
  ASSUME QInv, NEW t \in Callers, NEW c \in Cameras, NEW v \in Velocities,
         Move(t, c, v)
  PROVE  QueuedInv'
<1> USE DEF QInv, IInv, Move, network
<1>1. states'[c].held /\ \A d \in Cameras \ {c} : states'[d] = states[d]
  BY DEF TypeOK
<1>2. NoAborts' /\ UNCHANGED <<pc, cmd, motion>>
  BY QueuedParts DEF NoAborts
<1>3. FlightHeld'
  <2>1. InFlight => cmd.cam \in Cameras
    BY DEF InFlight, ControlInv, Dispatching, Request
  <2> QED BY <1>1, <1>2, <2>1, QueuedParts DEF FlightHeld, InFlight
<1>4. \A d \in Cameras : Controlled(d)'
  BY <1>1, <1>2, QueuedParts DEF Controlled, StopUnderWay
<1> QED BY <1>2, <1>3, <1>4, QueuedParts DEF QueuedInv, NoAborts, FlightHeld,
                                             NoRunaway, Controlled

LEMMA StopQueued ==
  ASSUME QInv, NEW t \in Callers, NEW c \in Cameras, Stop(t, c)
  PROVE  QueuedInv'
<1> USE DEF QInv, IInv, Stop, network
<1>1. states'[c].stopPending /\ \A d \in Cameras \ {c} : states'[d] = states[d]
  BY DEF TypeOK
<1>2. NoAborts' /\ UNCHANGED <<pc, cmd, motion>>
  BY QueuedParts DEF NoAborts, TypeOK
<1>3. FlightHeld'
  <2>1. InFlight => cmd.cam \in Cameras
    BY DEF InFlight, ControlInv, Dispatching, Request
  <2> QED BY <1>1, <1>2, <2>1, QueuedParts DEF FlightHeld, InFlight
<1>4. \A d \in Cameras : Controlled(d)'
  BY <1>1, <1>2, QueuedParts DEF Controlled, StopUnderWay
<1> QED BY <1>2, <1>3, <1>4, QueuedParts DEF QueuedInv, NoAborts, FlightHeld,
                                             NoRunaway, Controlled

-----------------------------------------------------------------------------
(* The control thread.                                                     *)

\* A Stop that is picked is under way; a move that is picked is held.
LEMMA PickQueued ==
  ASSUME QInv, Pick, pc \in {"wait", "floor"}, ~snap'.stopImmediate
  PROVE  QueuedInv'
<1> USE DEF QInv, IInv, Pick, network
<1>1. NoAborts' /\ UNCHANGED motion
  BY QueuedParts DEF NoAborts
<1>2. \A d \in Cameras : ~StopUnderWay(d)
  BY DEF StopUnderWay
<1>3. CASE PickStop
  <2>1. PICK c \in Cameras :
          /\ states' = [states EXCEPT ![c] =
                          [held |-> FALSE, heldCmd |-> states[c].heldCmd,
                           stopPending |-> FALSE, lastDispatched |-> None]]
          /\ cmd' = [cam |-> c, vel |-> Still, timed |-> FALSE]
    BY <1>3 DEF PickStop
  <2>2. \A d \in Cameras \ {c} : states'[d] = states[d]
    BY <2>1 DEF TypeOK
  <2>3. StopUnderWay(c)'
    BY <2>1 DEF StopUnderWay
  <2>4. FlightHeld'
    BY <2>1 DEF FlightHeld
  <2>5. \A d \in Cameras : Controlled(d)'
    BY <1>1, <1>2, <2>2, <2>3, QueuedParts DEF Controlled
  <2> QED BY <1>1, <2>4, <2>5, QueuedParts DEF QueuedInv, NoAborts, FlightHeld,
                                               NoRunaway, Controlled
<1>4. CASE PickMove
  <2>1. PICK c \in Cameras :
          /\ First(c, Moving)
          /\ states' = [states EXCEPT ![c].lastDispatched = states[c].heldCmd]
          /\ cmd' = [cam |-> c, vel |-> states[c].heldCmd.vel,
                     timed |-> states[c].heldCmd.timed]
    BY <1>4 DEF PickMove
  <2>2. \A d \in Cameras : /\ states'[d].held = states[d].held
                           /\ states'[d].stopPending = states[d].stopPending
    BY <2>1 DEF TypeOK, CamState
  <2>3. states'[cmd'.cam].held
    BY <2>1, <2>2 DEF First, Moving, Fresh
  <2>4. FlightHeld'
    BY <2>3 DEF FlightHeld
  <2>5. \A d \in Cameras : Controlled(d)'
    BY <1>1, <1>2, <2>2, QueuedParts DEF Controlled
  <2> QED BY <1>1, <2>4, <2>5, QueuedParts DEF QueuedInv, NoAborts, FlightHeld,
                                               NoRunaway, Controlled
<1> QED BY <1>3, <1>4

LEMMA LoopQueued ==
  ASSUME QInv, Loop
  PROVE  QueuedInv'
<1> USE DEF network, requested
<1>1. ~settings.stopImmediate /\ ~snap.stopImmediate
  BY DEF QInv, QueuedInv
<1>2. CASE Wake
  BY <1>1, <1>2, PickQueued DEF Wake
<1>3. CASE FloorOver
  BY <1>1, <1>3, PickQueued DEF FloorOver
<1>4. CASE FloorWait \/ Exit \/ Finish
  <2>1. ~InFlight /\ ~InFlight' /\ \A c \in Cameras : ~StopUnderWay(c)
    BY <1>4 DEF InFlight, StopUnderWay, FloorWait, Exit, Finish
  <2>2. /\ UNCHANGED <<states, settings, signaled, caller, motion>>
        /\ ~snap'.stopImmediate
    BY <1>1, <1>4 DEF FloorWait, Exit, Finish
  <2> QED BY <2>1, <2>2 DEF QInv, QueuedInv, NoRunaway
<1> QED BY <1>2, <1>3, <1>4 DEF Loop

\* On this network a request that left is obeyed.
LEMMA DispatchQueued ==
  ASSUME QueuedMode, QInv, Dispatch
  PROVE  QueuedInv'
<1> USE DEF requested, network
<1>1. UNCHANGED <<states, settings, cmd, snap>>
  BY DEF Dispatch, BeginDispatch, ExecSend, ExecFail, CameraObeys, Resend,
         ExecReturn, Refire, Released, EndDispatch
<1>2. cmd.cam \in Cameras
  BY DEF Dispatch, BeginDispatch, ExecSend, ExecFail, CameraObeys, Resend,
         ExecReturn, Refire, Released, EndDispatch, QInv, IInv, ControlInv,
         Dispatching, Request
<1>3. ~ExecFail /\ ~Resend
  BY QueuedParts DEF ExecFail, Resend, QueuedMode, QInv, NoAborts
<1>4. NoAborts'
  <2>1. ~signaled'
    BY <1>3, QueuedParts DEF QInv, NoAborts, Dispatch, BeginDispatch, ExecSend,
       CameraObeys, Resend, ExecReturn, Refire, Released, EndDispatch
  <2>2. CASE EndDispatch
    BY <1>1, <2>1, <2>2, QueuedParts DEF QInv, NoAborts, EndDispatch
  <2>3. CASE ~EndDispatch
    <3>1. UNCHANGED caller
      BY <1>3, <2>3 DEF Dispatch, BeginDispatch, ExecSend, CameraObeys,
                        Resend, ExecReturn, Refire, Released
    <3> QED BY <1>1, <2>1, <3>1, QueuedParts DEF QInv, NoAborts
  <2> QED BY <2>2, <2>3
<1>5. CASE BeginDispatch \/ ExecSend
  <2>1. UNCHANGED motion /\ InFlight
        /\ \A c \in Cameras : StopUnderWay(c)' <=> StopUnderWay(c)
    BY <1>1, <1>5 DEF BeginDispatch, ExecSend, InFlight, StopUnderWay
  <2> QED BY <1>1, <1>4, <2>1 DEF QInv, QueuedInv, NoRunaway, NoAborts
<1>6. CASE ExecReturn \/ Released \/ EndDispatch
  <2>1. UNCHANGED motion /\ ~InFlight' /\ \A c \in Cameras : ~StopUnderWay(c)
    BY <1>6 DEF ExecReturn, Released, EndDispatch, InFlight, StopUnderWay,
                AfterExec
  <2> QED BY <1>1, <1>4, <2>1 DEF QInv, QueuedInv, NoRunaway, NoAborts
<1>7. CASE Refire
  <2>1. UNCHANGED motion /\ states[cmd.cam].held
        /\ \A c \in Cameras : ~StopUnderWay(c)
    BY <1>7 DEF Refire, StillHeld, StopUnderWay
  <2> QED BY <1>1, <1>4, <2>1 DEF QInv, QueuedInv, NoRunaway, NoAborts
<1>8. CASE CameraObeys
  <2>1. InFlight /\ motion'[cmd.cam].vel = cmd.vel
        /\ \A c \in Cameras \ {cmd.cam} : motion'[c] = motion[c]
    BY <1>2, <1>8 DEF CameraObeys, InFlight, QInv, IInv, TypeOK
  <2>2. \A c \in Cameras \ {cmd.cam} : ~StopUnderWay(c)
    BY DEF StopUnderWay
  <2>3. FlightHeld'
    BY <1>1, <2>1, QueuedParts DEF FlightHeld, QInv
  <2>4. \A c \in Cameras : Controlled(c)'
    BY <1>1, <2>1, <2>2, QueuedParts DEF Controlled, FlightHeld, QInv
  <2> QED BY <1>4, <2>3, <2>4 DEF QueuedInv, NoAborts, FlightHeld, NoRunaway,
                                  Controlled
<1> QED BY <1>3, <1>5, <1>6, <1>7, <1>8 DEF Dispatch

-----------------------------------------------------------------------------
(* The invariant.                                                          *)

LEMMA NextQueued ==
  ASSUME QueuedMode, QInv, [Next]_vars
  PROVE  QInv'
<1>1. IInv'
  BY NextInv DEF QInv
<1>2. CASE \E t \in Callers, c \in Cameras, v \in Velocities : Move(t, c, v)
  BY <1>1, <1>2, MoveQueued DEF QInv
<1>3. CASE \E t \in Callers, c \in Cameras : Stop(t, c)
  BY <1>1, <1>3, StopQueued DEF QInv
<1>4. CASE \E t \in Callers, s \in SettingsChoices : SetSettings(t, s)
  BY <1>1, <1>4 DEF SetSettings, QueuedMode, QInv, QueuedInv, NoRunaway,
                    StopUnderWay, InFlight, network
<1>5. CASE \/ \E t \in Callers : Shutdown(t)
           \/ WaitIdle \/ FloorElapses \/ UNCHANGED vars
  BY <1>1, <1>5, QueuedAside DEF Shutdown, WaitIdle, FloorElapses, vars, QInv,
                                 requested, network
<1>6. CASE \E t \in Callers : LoadAbort(t) \/ Signal(t)
  BY <1>6 DEF LoadAbort, Signal, QInv, QueuedInv
<1>7. CASE Loop \/ Dispatch
  BY <1>1, <1>7, LoopQueued, DispatchQueued DEF QInv
<1>8. CASE \E c \in Cameras : MoveExpires(c)
  <2>1. PICK c \in Cameras : MoveExpires(c)
    BY <1>8
  <2>2. motion'[c].vel = Still /\ \A d \in Cameras \ {c} : motion'[d] = motion[d]
    BY <2>1 DEF MoveExpires, Resting, QInv, IInv, TypeOK
  <2> QED BY <1>1, <2>1, <2>2 DEF MoveExpires, requested, QInv, QueuedInv,
                                  NoRunaway, StopUnderWay, InFlight
<1> QED BY <1>2, <1>3, <1>4, <1>5, <1>6, <1>7, <1>8 DEF Next, CallerNext

\* In queued mode, with cameras that answer, a camera that moves without a
\* bound is held, or its Stop is queued or on its way: the Stop of a control
\* released at any moment of a dispatch is never lost.
THEOREM NeverRunsAway ==
  ASSUME QueuedMode
  PROVE  Spec => []NoRunaway
<1>1. Init => QInv
  BY InitInv, InitQueued DEF QInv
<1>2. QInv /\ [Next]_vars => QInv'
  BY NextQueued
<1>3. QInv => NoRunaway
  BY DEF QInv, QueuedInv
<1> QED BY <1>1, <1>2, <1>3, PTL DEF Spec

=============================================================================
