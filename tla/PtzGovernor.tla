----------------------------- MODULE PtzGovernor -----------------------------
(***************************************************************************)
(* What the PTZ dispatch governor promises, without queues, flags, floors  *)
(* or abort handles (the class comment of registry/ptz_controller.h).      *)
(*                                                                         *)
(* Operators keep changing what they want of each camera.  At any moment   *)
(* at most one request is on its way to a camera, it was issued with what  *)
(* its camera's operator wanted when it was issued (latest wins: a         *)
(* superseded wish is never issued afterwards), and a camera changes what  *)
(* it does only by obeying that request or by coming to rest by itself.    *)
(***************************************************************************)
CONSTANTS Cameras,     (* cameras under control                            *)
          Velocities,  (* the pan / tilt / zoom vectors operators ask for  *)
          Still        (* the wish, and the motion, of a released camera   *)

VARIABLES wish,    (* what the operator of each camera wants now           *)
          flight,  (* the one request under way: [cam, vel]                *)
          motion   (* what each camera is doing                            *)

vars == <<wish, flight, motion>>

Idle == [cam |-> Still, vel |-> Still]

Init ==
  /\ wish = [c \in Cameras |-> Still]
  /\ flight = Idle
  /\ motion = [c \in Cameras |-> Still]

\* An operator presses, changes or releases a control.
Want(c, v) ==
  /\ wish' = [wish EXCEPT ![c] = v]
  /\ UNCHANGED <<flight, motion>>

\* A request leaves, carrying the camera's current wish; none is under way.
Issue(c) ==
  /\ flight = Idle
  /\ flight' = [cam |-> c, vel |-> wish[c]]
  /\ UNCHANGED <<wish, motion>>

\* The camera obeys the request that is under way, or a copy of it.
Obey ==
  /\ flight # Idle
  /\ motion' = [motion EXCEPT ![flight.cam] = flight.vel]
  /\ UNCHANGED <<wish, flight>>

\* The request is over: answered, failed, timed out or aborted.
End ==
  /\ flight # Idle
  /\ flight' = Idle
  /\ UNCHANGED <<wish, motion>>

\* A camera comes to rest by itself: the bound of its last move ran out.
Expire(c) ==
  /\ motion' = [motion EXCEPT ![c] = Still]
  /\ UNCHANGED <<wish, flight>>

Next ==
  \/ \E c \in Cameras, v \in Velocities \cup {Still} : Want(c, v)
  \/ \E c \in Cameras : Issue(c) \/ Expire(c)
  \/ Obey
  \/ End

Spec == Init /\ [][Next]_vars
=============================================================================
