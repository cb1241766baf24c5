-------------------------- MODULE PtzGovernorProofs --------------------------
(***************************************************************************)
(* PtzController implements PtzGovernor, for any cameras, velocities,      *)
(* callers, settings and network.                                          *)
(***************************************************************************)
EXTENDS PtzControllerProofs

\* The refinement mapping of PtzController!Governor, named.
WishMap   == [c \in Cameras |-> Wish(c)]
FlightMap == IF InFlight
             THEN [cam |-> cmd.cam, vel |-> cmd.vel]
             ELSE [cam |-> Still, vel |-> Still]
MotionMap == [c \in Cameras |-> motion[c].vel]
Maps == <<WishMap, FlightMap, MotionMap>>

LEMMA InitRefines == Init => Governor!Init
  BY DEF Init, Governor!Init, Governor!Idle, Wish, InFlight, Resting

\* A step that changes neither what is held, nor the request under way, nor
\* what the cameras do is a stutter.
LEMMA Stutters ==
  ASSUME UNCHANGED Maps
  PROVE  UNCHANGED Governor!vars
  BY DEF Maps, WishMap, FlightMap, MotionMap, Governor!vars

-----------------------------------------------------------------------------
(* The callers.                                                            *)

\* Move and Stop change the wish of their camera and nothing else.
LEMMA CallersRefine ==
  ASSUME IInv, NEW t \in Callers, CallerNext(t)
  PROVE  [Governor!Next]_(Governor!vars)
<1> USE DEF network, Call
<1>1. CASE \E c \in Cameras, v \in Velocities : Move(t, c, v)
  <2>1. PICK c \in Cameras, v \in Velocities : Move(t, c, v)
    BY <1>1
  <2>2. WishMap' = [WishMap EXCEPT ![c] = v]
    BY <2>1 DEF IInv, TypeOK, WishMap, Wish, Move
  <2>3. UNCHANGED <<FlightMap, MotionMap>>
    BY <2>1 DEF FlightMap, MotionMap, InFlight, Move
  <2>4. Governor!Want(c, v)
    BY <2>2, <2>3 DEF WishMap, FlightMap, MotionMap, Governor!Want
  <2> QED BY <2>4 DEF Governor!Next
<1>2. CASE \E c \in Cameras : Stop(t, c)
  <2>1. PICK c \in Cameras : Stop(t, c)
    BY <1>2
  <2>2. WishMap' = [WishMap EXCEPT ![c] = Still]
    BY <2>1 DEF IInv, TypeOK, WishMap, Wish, Stop
  <2>3. UNCHANGED <<FlightMap, MotionMap>>
    BY <2>1 DEF FlightMap, MotionMap, InFlight, Stop
  <2>4. Governor!Want(c, Still)
    BY <2>2, <2>3 DEF WishMap, FlightMap, MotionMap, Governor!Want
  <2> QED BY <2>4 DEF Governor!Next
<1>3. CASE (\E s \in SettingsChoices : SetSettings(t, s)) \/ Shutdown(t)
  <2>1. UNCHANGED Maps
    BY <1>3 DEF Maps, WishMap, FlightMap, MotionMap, Wish, InFlight,
                SetSettings, Shutdown
  <2> QED BY <2>1, Stutters
<1> QED BY <1>1, <1>2, <1>3 DEF CallerNext

-----------------------------------------------------------------------------
(* The control thread.                                                     *)

\* A request that leaves when none is under way, with its camera's wish.
LEMMA IssueRefines ==
  ASSUME NEW c \in Cameras,
         ~InFlight, InFlight',
         cmd'.cam = c, cmd'.vel = Wish(c),
         UNCHANGED WishMap, UNCHANGED motion
  PROVE  Governor!Next
<1>1. FlightMap = [cam |-> Still, vel |-> Still]
  BY DEF FlightMap
<1>2. FlightMap' = [cam |-> c, vel |-> WishMap[c]]
  BY DEF FlightMap, WishMap
<1>3. UNCHANGED MotionMap
  BY DEF MotionMap
<1>4. Governor!Issue(c)
  BY <1>1, <1>2, <1>3 DEF WishMap, FlightMap, MotionMap, Governor!Issue,
                          Governor!Idle
<1> QED BY <1>4 DEF Governor!Next

LEMMA EndRefines ==
  ASSUME IInv, InFlight, ~InFlight', UNCHANGED WishMap, UNCHANGED motion
  PROVE  Governor!Next
<1>1. cmd \in Request
  BY DEF IInv, ControlInv, Dispatching, InFlight
<1>2. FlightMap # [cam |-> Still, vel |-> Still]
  BY <1>1, PtzAssumption DEF FlightMap, Request
<1>3. FlightMap' = [cam |-> Still, vel |-> Still]
  BY DEF FlightMap
<1>4. UNCHANGED MotionMap
  BY DEF MotionMap
<1>5. Governor!End
  BY <1>2, <1>3, <1>4 DEF WishMap, FlightMap, MotionMap, Governor!End,
                          Governor!Idle
<1> QED BY <1>5 DEF Governor!Next

\* The pick issues what is wanted: a queued Stop means nothing is held.
LEMMA PickRefines ==
  ASSUME IInv, Pick, pc \in {"wait", "floor"}
  PROVE  Governor!Next
<1> USE DEF Pick, network
<1>1. ~InFlight /\ InFlight'
  BY DEF InFlight
<1>2. CASE PickStop
  <2>1. PICK c \in Cameras :
          /\ First(c, Stopping)
          /\ states' = [states EXCEPT ![c] =
                          [held |-> FALSE, heldCmd |-> states[c].heldCmd,
                           stopPending |-> FALSE, lastDispatched |-> None]]
          /\ cmd' = [cam |-> c, vel |-> Still, timed |-> FALSE]
    BY <1>2 DEF PickStop
  <2>2. ~states[c].held
    BY <2>1 DEF First, Stopping, IInv, ControlInv
  <2>3. Wish(c) = Still
    BY <2>2 DEF Wish
  <2>4. \A d \in Cameras : Wish(d)' = Wish(d)
    BY <2>1, <2>2 DEF Wish, IInv, TypeOK
  <2>5. UNCHANGED WishMap
    BY <2>4 DEF WishMap
  <2> QED BY <1>1, <2>1, <2>3, <2>5, IssueRefines
<1>3. CASE PickMove
  <2>1. PICK c \in Cameras :
          /\ First(c, Moving)
          /\ states' = [states EXCEPT ![c].lastDispatched = states[c].heldCmd]
          /\ cmd' = [cam |-> c, vel |-> states[c].heldCmd.vel,
                     timed |-> states[c].heldCmd.timed]
    BY <1>3 DEF PickMove
  <2>2. Wish(c) = states[c].heldCmd.vel
    BY <2>1 DEF First, Moving, Fresh, Wish
  <2>3. \A d \in Cameras : Wish(d)' = Wish(d)
    BY <2>1 DEF Wish, IInv, TypeOK, CamState
  <2>4. UNCHANGED WishMap
    BY <2>3 DEF WishMap
  <2> QED BY <1>1, <2>1, <2>2, <2>4, IssueRefines
<1> QED BY <1>2, <1>3

LEMMA LoopRefines ==
  ASSUME IInv, Loop
  PROVE  [Governor!Next]_(Governor!vars)
<1>1. CASE Wake \/ FloorOver
  BY <1>1, PickRefines DEF Wake, FloorOver
<1>2. CASE FloorWait \/ Exit \/ Finish
  <2>1. UNCHANGED Maps
    BY <1>2 DEF Maps, WishMap, FlightMap, MotionMap, Wish, InFlight, requested,
                network, FloorWait, Exit, Finish
  <2> QED BY <2>1, Stutters
<1> QED BY <1>1, <1>2 DEF Loop

\* What is held does not change while the thread is inside Dispatch.
LEMMA DispatchRefines ==
  ASSUME IInv, Dispatch
  PROVE  [Governor!Next]_(Governor!vars)
<1> USE DEF requested, network
<1>1. UNCHANGED <<states, cmd>>
  BY DEF Dispatch, BeginDispatch, ExecSend, ExecFail, CameraObeys, Resend,
         ExecReturn, Refire, Released, EndDispatch
<1>2. UNCHANGED WishMap
  BY <1>1 DEF WishMap, Wish
<1>3. cmd \in Request
  BY DEF Dispatch, BeginDispatch, ExecSend, ExecFail, CameraObeys, Resend,
         ExecReturn, Refire, Released, EndDispatch, IInv, ControlInv,
         Dispatching
<1>4. CASE BeginDispatch \/ ExecSend \/ Resend \/ Released \/ EndDispatch
  <2>1. UNCHANGED Maps
    BY <1>1, <1>2, <1>4 DEF Maps, FlightMap, MotionMap, InFlight, BeginDispatch,
                            ExecSend, Resend, Released, EndDispatch
  <2> QED BY <2>1, Stutters
<1>5. CASE ExecFail \/ ExecReturn
  <2>1. InFlight /\ ~InFlight' /\ UNCHANGED motion
    BY <1>5 DEF InFlight, ExecFail, ExecReturn, AfterExec
  <2> QED BY <1>2, <2>1, EndRefines
<1>6. CASE Refire
  <2>1. ~InFlight /\ InFlight' /\ UNCHANGED motion
    BY <1>6 DEF InFlight, Refire
  <2>2. cmd.vel = Wish(cmd.cam)
    BY <1>6 DEF Refire, StillHeld, SameVelocity, Wish
  <2> QED BY <1>1, <1>2, <1>3, <2>1, <2>2, IssueRefines DEF Request
<1>7. CASE CameraObeys
  <2>1. FlightMap = [cam |-> cmd.cam, vel |-> cmd.vel]
    BY <1>7 DEF FlightMap, InFlight, CameraObeys
  <2>2. UNCHANGED FlightMap
    BY <1>1, <1>7 DEF FlightMap, InFlight, CameraObeys
  <2>3. MotionMap' = [MotionMap EXCEPT ![cmd.cam] = cmd.vel]
    BY <1>3, <1>7 DEF MotionMap, CameraObeys, IInv, TypeOK, Request
  <2>4. FlightMap # [cam |-> Still, vel |-> Still]
    BY <1>3, <2>1, PtzAssumption DEF Request
  <2>5. MotionMap' = [MotionMap EXCEPT ![FlightMap.cam] = FlightMap.vel]
    BY <2>1, <2>3
  <2>6. Governor!Obey
    BY <1>2, <2>2, <2>4, <2>5 DEF WishMap, FlightMap, MotionMap, Governor!Obey,
                                  Governor!Idle
  <2> QED BY <2>6 DEF Governor!Next
<1> QED BY <1>4, <1>5, <1>6, <1>7 DEF Dispatch

-----------------------------------------------------------------------------
(* The refinement.                                                         *)

LEMMA ExpireRefines ==
  ASSUME IInv, NEW c \in Cameras, MoveExpires(c)
  PROVE  Governor!Next
<1>1. MotionMap' = [MotionMap EXCEPT ![c] = Still]
  BY DEF MoveExpires, MotionMap, IInv, TypeOK, Resting
<1>2. UNCHANGED <<WishMap, FlightMap>>
  BY DEF MoveExpires, WishMap, Wish, FlightMap, InFlight, requested
<1>3. Governor!Expire(c)
  BY <1>1, <1>2 DEF WishMap, FlightMap, MotionMap, Governor!Expire
<1> QED BY <1>3 DEF Governor!Next

LEMMA StepRefines ==
  ASSUME IInv, [Next]_vars
  PROVE  [Governor!Next]_(Governor!vars)
<1>1. CASE \E t \in Callers : CallerNext(t)
  BY <1>1, CallersRefine
<1>2. CASE \/ \E t \in Callers : LoadAbort(t) \/ Signal(t)
           \/ WaitIdle \/ FloorElapses \/ UNCHANGED vars
  <2>1. UNCHANGED Maps
    BY <1>2 DEF Maps, WishMap, FlightMap, MotionMap, Wish, InFlight, requested,
                network, LoadAbort, Signal, WaitIdle, FloorElapses, vars
  <2> QED BY <2>1, Stutters
<1>3. CASE Loop \/ Dispatch
  BY <1>3, LoopRefines, DispatchRefines
<1>4. CASE \E c \in Cameras : MoveExpires(c)
  BY <1>4, ExpireRefines
<1> QED BY <1>1, <1>2, <1>3, <1>4 DEF Next

\* The controller implements the governor: one request at a time, each with
\* what its camera's operator wants when it is issued.
THEOREM ImplementsGovernor == Spec => LatestWins
<1>1. Spec => Governor!Spec
  BY InitRefines, AlwaysInv, StepRefines, PTL DEF Spec, Governor!Spec
<1> QED BY <1>1 DEF LatestWins
=============================================================================
