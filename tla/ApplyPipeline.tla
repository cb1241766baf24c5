---------------------------- MODULE ApplyPipeline ----------------------------
(***************************************************************************)
(* obs/obs_apply.cpp, obs/apply_prompt.cpp and the parts of obs/glue.cpp   *)
(* between discovery and the media sources: a camera that moved is         *)
(* reported by the discovery thread, decided upon by ApplyPolicy on the UI *)
(* thread, put to the user in a dialog when outputs are live, and written  *)
(* into the sources mapped to it.                                          *)
(*                                                                         *)
(* The UI thread runs what is posted to it in order: uiTasks holds the     *)
(* tasks of obs_queue_task and Qt's deferred deletion of a closed dialog.  *)
(* A task queued from the UI thread itself may also run at once: that is   *)
(* OBS's choice (inline).                                                  *)
(***************************************************************************)
EXTENDS ApplyPolicy, Sequences, FiniteSets

CONSTANTS Outputs,         (* "streaming" and "recording"                    *)
          Vault,           (* per camera, its credentials or NoUserinfo      *)
          MappingChoices,  (* the mapping tables users save                  *)
          PolicyChoices,   (* the default policies users choose between      *)
          MaxRestarts,     (* bound on the restarts of OBS                   *)
          MaxEvents        (* bound on what cameras, users and outputs do    *)

ASSUME PipelineAssumption ==
  /\ Vault \in [Cameras -> Userinfos \cup {NoUserinfo}]
  /\ MappingChoices \subseteq Mappings /\ PolicyChoices \subseteq Policies
  /\ IsFiniteSet(Outputs) /\ MaxEvents \in Nat
  /\ MaxRestarts \in Nat

VARIABLES
  address,  (* how often each camera has moved, as discovery knows           *)
  sources,  (* the "input" URL of each media source                          *)
  outputs,  (* the outputs that run; OutputCount() is their number           *)
  uiTasks,  (* what is posted to the UI thread                               *)
  prompt,   (* g_prompt: [at, cam], cam being the camera its text names      *)
  inline,   (* whether a task queued from the UI thread runs at once         *)
  events,   (* what cameras, users and outputs did, at most MaxEvents        *)
  restarts  (* how often OBS was restarted                                   *)

vars == <<policyVars, address, sources, outputs, uiTasks, prompt, inline,
          events, restarts>>

NoPrompt == [at |-> "none", cam |-> None]
Moved(inc)      == [kind |-> "moved", url |-> inc]
Rewrite(rws)    == [kind |-> "rewrite", rewrites |-> rws]
ShowPrompt      == [kind |-> "prompt"]
DeletePrompt    == [kind |-> "delete"]

Clear     == [c \in Cameras |-> "none"]

\* What a start of OBS mirrors of the sources: nothing when the plugin is
\* loaded before the scenes.
Mirrors == {[s \in Sources |-> sources[s].ui], [s \in Sources |-> NoUserinfo]}

\* At first the sources that are mapped have the addresses of their cameras.
Init ==
  /\ defaultPolicy \in PolicyChoices /\ mappings \in MappingChoices
  /\ cameraPolicy = Clear
  /\ address = [c \in Cameras |-> 0]
  /\ sources \in [Sources -> [cam : Cameras, n : {0},
                              ui : Userinfos \cup {NoUserinfo}]]
  /\ \A s \in Sources : mappings[s].cam \in {None, sources[s].cam}
  /\ sourceUrls \in Mirrors
  /\ pending = None /\ deferred = None
  /\ outputs = {} /\ uiTasks = <<>> /\ prompt = NoPrompt
  /\ inline \in BOOLEAN /\ events = 0 /\ restarts = 0

Event == events < MaxEvents /\ events' = events + 1

-----------------------------------------------------------------------------
(* Discovery's thread.                                                     *)

\* ApplyContact found a new stream URI: OnDiscoveryMoved posts it.
OnDiscoveryMoved(c) ==
  /\ Event
  /\ address' = [address EXCEPT ![c] = @ + 1]
  /\ uiTasks' = Append(uiTasks, Moved([cam |-> c, n |-> address[c] + 1,
                                       ui |-> Vault[c]]))
  /\ UNCHANGED <<policyVars, sources, outputs, prompt, inline, restarts>>

-----------------------------------------------------------------------------
(* The UI thread's tasks.                                                  *)

\* A slip: the URL is written as it is.
Overwritten(rws) ==
  [s \in Sources |-> IF s \in DOMAIN rws THEN rws[s] ELSE sources[s]]

\* ApplySourceRewrites: what the sources become.
Applied(rws) ==
  [s \in Sources |-> IF s \in DOMAIN rws
                     THEN RewriteSourceUrl(sources[s].ui, rws[s])
                     ELSE sources[s]]

\* ShowApplyPrompt: what the dialog becomes, when inc is pending.
Shown(inc) ==
  IF inc # None /\ prompt.at = "none" THEN [at |-> "open", cam |-> inc.cam]
                                      ELSE prompt

\* The task at the head has run and posted another one.
Post(task) == uiTasks' = Append(Tail(uiTasks), task)
Done       == uiTasks' = Tail(uiTasks)

Running(kind) == uiTasks # <<>> /\ Head(uiTasks).kind = kind

\* OnCameraMoved, by decision.
OnCameraMoved ==
  /\ Running("moved")
  /\ LET inc      == Head(uiTasks).url
         active   == outputs # {}
         decision == Decision(inc, active)
     IN  /\ OnIpChange(inc, active)
         /\ \/ decision = "ignored" /\ Done /\ UNCHANGED <<sources, prompt>>
            \/ /\ decision = "applied" /\ inline
               /\ sources' = Applied(BuildRewrites(inc))
               /\ Done /\ UNCHANGED prompt
            \/ /\ decision = "applied" /\ ~inline
               /\ Post(Rewrite(BuildRewrites(inc)))
               /\ UNCHANGED <<sources, prompt>>
            \/ /\ decision = "prompted" /\ inline
               /\ prompt' = Shown(inc)
               /\ Done /\ UNCHANGED sources
            \/ /\ decision = "prompted" /\ ~inline
               /\ Post(ShowPrompt)
               /\ UNCHANGED <<sources, prompt>>
  /\ UNCHANGED <<address, outputs, inline, events,
                 restarts>>

ApplySourceRewrites ==
  /\ Running("rewrite")
  /\ sources' = Applied(Head(uiTasks).rewrites)
  /\ Done
  /\ UNCHANGED <<policyVars, address, outputs, prompt, inline, events,
                 restarts>>

ShowApplyPrompt ==
  /\ Running("prompt")
  /\ prompt' = Shown(pending)
  /\ Done
  /\ UNCHANGED <<policyVars, address, sources, outputs, inline, events,
                 restarts>>

\* Qt deletes a dialog that was closed, and g_prompt is cleared.
PromptDestroyed ==
  /\ Running("delete")
  /\ prompt' = NoPrompt
  /\ Done
  /\ UNCHANGED <<policyVars, address, sources, outputs, inline, events,
                 restarts>>

-----------------------------------------------------------------------------
(* The dialog.                                                             *)

\* A slip: the dialog stays when its countdown ends.
OnTickStays ==
  /\ prompt.at = "open"
  /\ DeferPending
  /\ UNCHANGED <<address, sources, outputs, uiTasks, prompt, inline, events,
                 restarts>>

\* close(): g_prompt stays set until the deletion that is now posted.
Close ==
  /\ prompt.at = "open"
  /\ prompt' = [prompt EXCEPT !.at = "closing"]
  /\ uiTasks' = Append(uiTasks, DeletePrompt)

OnApply ==
  /\ Close /\ Event
  /\ sources' = IF pending = None THEN sources
                ELSE Applied(BuildRewrites(pending))
  /\ ApplyPending
  /\ UNCHANGED <<address, outputs, inline, restarts>>

OnDefer ==
  /\ Close /\ Event
  /\ DeferPending
  /\ UNCHANGED <<address, sources, outputs, inline, restarts>>

OnIgnore(remember) ==
  /\ Close /\ Event
  /\ IgnorePending(remember)
  /\ UNCHANGED <<address, sources, outputs, inline, restarts>>

\* The countdown reaches zero.
OnTick ==
  /\ Close
  /\ DeferPending
  /\ UNCHANGED <<address, sources, outputs, inline, events,
                 restarts>>

\* Escape, or the close button of the window: the dialog goes, the incident
\* stays.
Reject ==
  /\ Close /\ Event
  /\ UNCHANGED <<policyVars, address, sources, outputs, inline, restarts>>

-----------------------------------------------------------------------------
(* Outputs, settings and sources.                                          *)

OutputStarted(o) ==
  /\ Event /\ o \notin outputs
  /\ outputs' = outputs \cup {o}
  /\ UNCHANGED <<policyVars, address, sources, uiTasks, prompt, inline,
                 restarts>>

\* A slip: any output that stops counts as the last.
OutputStoppedAny(o) ==
  /\ Event /\ o \in outputs
  /\ outputs' = outputs \ {o}
  /\ sources' = Applied(IdleRewrites) /\ OnOutputsIdle
  /\ UNCHANGED <<address, uiTasks, prompt, inline, restarts>>

\* SetOutputActive(FALSE): the last output that stops re-offers the deferral.
OutputStopped(o) ==
  /\ Event /\ o \in outputs
  /\ outputs' = outputs \ {o}
  /\ \/ outputs' = {} /\ sources' = Applied(IdleRewrites) /\ OnOutputsIdle
     \/ outputs' # {} /\ UNCHANGED <<policyVars, sources>>
  /\ UNCHANGED <<address, uiTasks, prompt, inline, restarts>>

\* The dock's policy tab; the dialog, which has no parent window, leaves it
\* usable.
SetDefaultPolicy(p) ==
  /\ Event /\ p # defaultPolicy
  /\ defaultPolicy' = p
  /\ UNCHANGED <<cameraPolicy, mappings, sourceUrls, pending, deferred,
                 address, sources, outputs, uiTasks, prompt, inline, restarts>>

\* The dock saves the mapping table, or the scene collection changes to one
\* with another table: mappings and mirrored URLs are read anew.
ReseedApplyState(m) ==
  /\ Event /\ m # mappings
  /\ mappings' = m
  /\ sourceUrls' = [s \in Sources |-> sources[s].ui]
  /\ UNCHANGED <<defaultPolicy, cameraPolicy, pending, deferred, address,
                 sources, outputs, uiTasks, prompt, inline, restarts>>

\* The user edits the credentials in a source's properties, in OBS.
EditSource(s, ui) ==
  /\ Event /\ ui # sources[s].ui
  /\ sources' = [sources EXCEPT ![s].ui = ui]
  /\ UNCHANGED <<policyVars, address, outputs, uiTasks, prompt, inline,
                 restarts>>

\* OBS exits, or crashes, and starts again: its sources, the mappings, the
\* default policy and the camera table were saved; what was pending, deferred
\* or queued is gone, and so are the remembered policies.
Restart ==
  /\ restarts < MaxRestarts /\ restarts' = restarts + 1
  /\ cameraPolicy' = Clear
  /\ sourceUrls' \in Mirrors
  /\ pending' = None /\ deferred' = None
  /\ outputs' = {} /\ uiTasks' = <<>> /\ prompt' = NoPrompt
  /\ UNCHANGED <<defaultPolicy, mappings, address, sources, inline, events>>

RunTask == OnCameraMoved \/ ApplySourceRewrites \/ ShowApplyPrompt
           \/ PromptDestroyed

Dialog == OnApply \/ OnDefer \/ (\E r \in BOOLEAN : OnIgnore(r)) \/ OnTick
          \/ Reject

Next ==
  \/ \E c \in Cameras : OnDiscoveryMoved(c)
  \/ RunTask
  \/ Dialog
  \/ \E o \in Outputs : OutputStarted(o) \/ OutputStopped(o)
  \/ \E p \in PolicyChoices : SetDefaultPolicy(p)
  \/ \E m \in MappingChoices : ReseedApplyState(m)
  \/ \E s \in Sources, ui \in Userinfos : EditSource(s, ui)
  \/ Restart

Spec == Init /\ [][Next]_vars

\* The UI thread runs its tasks, and the dialog's timer ticks.
Fairness == WF_vars(RunTask) /\ WF_vars(OnTick)

FairSpec == Spec /\ Fairness

-----------------------------------------------------------------------------
(* Properties.                                                             *)

\* The type invariant (of a rewrite task, what it rewrites).
TypeOK ==
  /\ PolicyTypeOK
  /\ address \in [Cameras -> 0 .. MaxEvents]
  /\ sources \in [Sources -> Urls]
  /\ outputs \subseteq Outputs
  /\ \A i \in 1 .. Len(uiTasks) :
       \/ /\ uiTasks[i].kind = "rewrite"
          /\ \A s \in DOMAIN uiTasks[i].rewrites :
               s \in Sources /\ uiTasks[i].rewrites[s] \in Urls
       \/ uiTasks[i].kind = "moved" /\ uiTasks[i].url \in Urls
       \/ uiTasks[i].kind \in {"prompt", "delete"}
  /\ prompt \in [at : {"none", "open", "closing"}, cam : Cameras \cup {None}]
  /\ inline \in BOOLEAN
  /\ events \in 0 .. MaxEvents /\ restarts \in 0 .. MaxRestarts

\* The dialog's buttons act on something: while it is open an incident is
\* pending, and once closed exactly one deletion of it is on its way.
PromptInv ==
  /\ prompt.at = "open" => pending # None
  /\ Cardinality({i \in 1 .. Len(uiTasks) : uiTasks[i].kind = "delete"})
       = IF prompt.at = "closing" THEN 1 ELSE 0

\* The types and the dialog's books.
PipelineInv == TypeOK /\ PromptInv

\* A step that writes another address into source s.
Readdressed(s) ==
  <<sources[s].cam, sources[s].n>> # <<sources'[s].cam, sources'[s].n>>

\* The user presses a button of the dialog, whose text names camera c.
Consents(c) == prompt.at = "open" /\ prompt'.at = "closing" /\ prompt.cam = c

\* Another camera's incident has become the pending one since the dialog was
\* made, and the user presses a button of it.
Supplanted ==
  /\ prompt.at = "open" /\ prompt'.at = "closing"
  /\ pending # None /\ pending.cam # prompt.cam

\* While an output runs, a source is rewritten only when its camera's policy
\* is "always" or the user answers a dialog that names its camera; what a
\* dialog writes for a camera it does not name is ShownConsent's question
\* (when OBS runs tasks of the UI thread at once; else an output may start
\* before the rewrite queued).
ConsentWhenLive ==
  [][inline /\ outputs' # {} /\ ~Supplanted =>
       \A s \in Sources : Readdressed(s) =>
         \/ PolicyFor(mappings[s].cam) = "always"
         \/ Consents(mappings[s].cam)]_vars

\* What "Apply now" writes are sources of the camera that the dialog names.  The
\* code breaks it: a later incident supplants the one that is shown.
ShownConsent ==
  [][prompt.at = "open" /\ prompt'.at = "closing" =>
       \A s \in Sources : Readdressed(s) => Consents(mappings[s].cam)]_vars

\* A source gets an address of the camera it is mapped to, and only when its
\* auto-apply box is checked, although incidents outlive mappings.
RightCamera ==
  [][inline => \A s \in Sources : Readdressed(s) =>
       mappings[s].auto /\ sources'[s].cam = mappings[s].cam]_vars

\* The userinfo mirrored of source s is not the one it has now.
Stale(s) == sourceUrls[s] \notin {NoUserinfo, sources[s].ui}

\* What a rewrite should leave in source s: the credentials the vault has of
\* its camera, else those it has.
OwnUi(s) ==
  IF Vault[mappings[s].cam] # NoUserinfo THEN Vault[mappings[s].cam]
                                         ELSE sources[s].ui

\* A rewrite gives a source its camera's credentials or leaves it its own,
\* never another camera's, another source's or none, unless the policy's
\* mirror of the source's URL is stale (CredentialsStay).
UserinfoKept ==
  [][inline => \A s \in Sources : Readdressed(s) /\ ~Stale(s) =>
       sources'[s].ui = OwnUi(s)]_vars

\* The same of every rewrite, the mirror being up to date or not.  The code breaks
\* it: it splices in the userinfo it mirrored when it was seeded.
CredentialsStay ==
  [][inline => \A s \in Sources : Readdressed(s) =>
       sources'[s].ui = OwnUi(s)]_vars

Current(m) ==
  \A s \in Sources : m[s].auto /\ m[s].cam # None =>
    sources[s].n = address[m[s].cam]

\* Auto-repair: when the policy is "always", or no output ever runs and no
\* camera is ignored, the sources end up at the last address of their cameras
\* (as long as OBS is not restarted and the mappings stay).
AutoRepair ==
  \A m \in MappingChoices :
    [](/\ mappings = m /\ restarts = 0
       /\ \/ defaultPolicy = "always"
          \/ defaultPolicy = "ask" /\ outputs = {}
       /\ \A c \in Cameras : cameraPolicy[c] = "none")
      => <>[]Current(m)

\* A feed that was repaired is not broken again: no rewrite takes a source
\* back to an earlier address of its camera.
NoStaleRewrite ==
  [][\A s \in Sources : sources'[s].cam = sources[s].cam =>
       sources'[s].n >= sources[s].n]_vars
=============================================================================
