----------------------------- MODULE ApplyPolicy -----------------------------
(***************************************************************************)
(* registry/apply.{h,cpp}: class ApplyPolicy, what to do with the media    *)
(* sources of a camera that moved.  It decides; its caller, ApplyPipeline, *)
(* applies, always on the UI thread, so a call is one step.                *)
(*                                                                         *)
(* A stream URL is [cam, n, ui]: the n-th address camera cam has had, with *)
(* userinfo ui.  An incident, a new address and the camera's credentials   *)
(* from the vault, is such a URL too.                                      *)
(***************************************************************************)
EXTENDS Naturals

CONSTANTS Cameras,     (* camera ids                                         *)
          Sources,     (* the OBS media sources                              *)
          Userinfos,   (* "user:password" pairs                              *)
          NoUserinfo,  (* a URL without userinfo                             *)
          None         (* no incident, no camera                             *)

Policies == {"ask", "always", "ignore"}
Mappings == [Sources -> [cam : Cameras \cup {None}, auto : BOOLEAN]]
Urls     == [cam : Cameras, n : Nat, ui : Userinfos \cup {NoUserinfo}]

ASSUME PolicyAssumption ==
  /\ None \notin Cameras /\ None \notin Urls
  /\ NoUserinfo \notin Userinfos

VARIABLES
  defaultPolicy,  (* default_policy_                                         *)
  cameraPolicy,   (* camera_policy_: per camera, or "none"                   *)
  mappings,       (* mappings_                                               *)
  sourceUrls,     (* source_urls_, of which only the userinfo is used        *)
  pending,        (* pending_                                                *)
  deferred        (* deferred_                                               *)

policyVars == <<defaultPolicy, cameraPolicy, mappings, sourceUrls, pending,
                deferred>>

PolicyFor(c) ==
  IF cameraPolicy[c] # "none" THEN cameraPolicy[c] ELSE defaultPolicy

\* The new URL, with its own userinfo if it has some, else the old one's.
RewriteSourceUrl(oldUi, new) ==
  [new EXCEPT !.ui = IF new.ui # NoUserinfo THEN @ ELSE oldUi]

\* A slip: the auto-apply box is not looked at.
RewrittenManual(inc) == {s \in Sources : mappings[s].cam = inc.cam}

\* The sources an incident concerns, and the rewrites it leads to.
Rewritten(inc) ==
  {s \in Sources : mappings[s].cam = inc.cam /\ mappings[s].auto}
BuildRewrites(inc) ==
  [s \in Rewritten(inc) |-> RewriteSourceUrl(sourceUrls[s], inc)]
NoRewrites == [s \in {} |-> None]

\* A slip: "always" asks as well when outputs are live.
DecisionAlwaysAsks(inc, active) ==
  IF PolicyFor(inc.cam) = "ignore" \/ Rewritten(inc) = {} THEN "ignored"
  ELSE IF active THEN "prompted" ELSE "applied"

\* OnIpChange: its decision; one of "prompted" makes the incident pending_,
\* whatever was pending.
Decision(inc, active) ==
  IF PolicyFor(inc.cam) = "ignore" \/ Rewritten(inc) = {} THEN "ignored"
  ELSE IF active /\ PolicyFor(inc.cam) = "ask" THEN "prompted" ELSE "applied"

OnIpChange(inc, active) ==
  /\ pending' = IF Decision(inc, active) = "prompted" THEN inc ELSE pending
  /\ UNCHANGED <<defaultPolicy, cameraPolicy, mappings, sourceUrls, deferred>>

\* ApplyPending: the caller applies BuildRewrites(pending).
ApplyPending ==
  /\ pending' = None
  /\ UNCHANGED <<defaultPolicy, cameraPolicy, mappings, sourceUrls, deferred>>

IgnorePending(remember) ==
  /\ cameraPolicy' = IF pending # None /\ remember
                     THEN [cameraPolicy EXCEPT ![pending.cam] = "ignore"]
                     ELSE cameraPolicy
  /\ pending' = None
  /\ UNCHANGED <<defaultPolicy, mappings, sourceUrls, deferred>>

\* DeferPending, also OnPromptTimeout: an older deferral is forgotten.
DeferPending ==
  /\ deferred' = IF pending # None THEN pending ELSE deferred
  /\ pending' = None
  /\ UNCHANGED <<defaultPolicy, cameraPolicy, mappings, sourceUrls>>

\* OnOutputsIdle: the caller applies IdleRewrites.
IdleRewrites == IF deferred = None THEN NoRewrites ELSE BuildRewrites(deferred)
OnOutputsIdle ==
  /\ deferred' = None
  /\ UNCHANGED <<defaultPolicy, cameraPolicy, mappings, sourceUrls, pending>>

PolicyTypeOK ==
  /\ defaultPolicy \in Policies
  /\ cameraPolicy \in [Cameras -> Policies \cup {"none"}]
  /\ mappings \in Mappings
  /\ sourceUrls \in [Sources -> Userinfos \cup {NoUserinfo}]
  /\ pending \in Urls \cup {None} /\ deferred \in Urls \cup {None}
=============================================================================
