----------------------------- MODULE ApplyProofs -----------------------------
(***************************************************************************)
(* Theorems about ApplyPipeline and ApplyPolicy, for any cameras, sources, *)
(* mapping tables, outputs and credentials, and any number of restarts.    *)
(*                                                                         *)
(* The invariant adds three facts to PipelineInv: what is posted to the UI *)
(* thread is a sequence of well-formed tasks, no camera has moved more     *)
(* often than there were events, and when OBS runs the UI thread's own     *)
(* tasks at once no rewrite is ever left waiting.  A second one, Vaulted,  *)
(* says that incidents carry the credentials of their cameras.             *)
(***************************************************************************)
EXTENDS ApplyPipeline, FiniteSetTheorems, SequenceTheorems, TLAPS

RewriteMaps == UNION {[S -> Urls] : S \in SUBSET Sources}
Tasks ==
  [kind : {"moved"}, url : Urls] \cup [kind : {"rewrite"}, rewrites : RewriteMaps]
    \cup [kind : {"prompt", "delete"}]

Counted   == \A c \in Cameras : address[c] <= events
Unwaiting == inline => \A i \in 1 .. Len(uiTasks) : uiTasks[i].kind # "rewrite"

Types ==
  /\ PolicyTypeOK
  /\ address \in [Cameras -> 0 .. MaxEvents]
  /\ sources \in [Sources -> Urls]
  /\ outputs \subseteq Outputs
  /\ prompt \in [at : {"none", "open", "closing"}, cam : Cameras \cup {None}]
  /\ inline \in BOOLEAN
  /\ events \in 0 .. MaxEvents /\ restarts \in 0 .. MaxRestarts
PromptOpen == prompt.at = "open" => pending # None

\* The dialog's deletions, without counting.
Deletes(u)   == {i \in 1 .. Len(u) : u[i].kind = "delete"}
NoDelete(u)  == \A i \in 1 .. Len(u) : u[i].kind # "delete"
OneDelete(u) ==
  \E i \in 1 .. Len(u) :
    u[i].kind = "delete" /\ \A j \in 1 .. Len(u) : u[j].kind = "delete" => j = i
Books(u, at) == IF at = "closing" THEN OneDelete(u) ELSE NoDelete(u)

IInv ==
  /\ Types /\ uiTasks \in Seq(Tasks) /\ Counted /\ Unwaiting
  /\ PromptOpen /\ Books(uiTasks, prompt.at)

\* An incident carries what the vault has of its camera.
Charged(inc) == inc.ui = Vault[inc.cam]
Vaulted ==
  /\ pending # None => Charged(pending)
  /\ deferred # None => Charged(deferred)
  /\ \A i \in 1 .. Len(uiTasks) :
       uiTasks[i].kind = "moved" => Charged(uiTasks[i].url)

-----------------------------------------------------------------------------
(* Tasks of the UI thread.                                                 *)

LEMMA CountDeletes ==
  ASSUME NEW u \in Seq(Tasks)
  PROVE  /\ Cardinality(Deletes(u)) = 0 <=> NoDelete(u)
         /\ Cardinality(Deletes(u)) = 1 <=> OneDelete(u)
<1>1. IsFiniteSet(Deletes(u))
  <2>1. Len(u) \in Nat /\ 0 + 1 = 1
    OBVIOUS
  <2>2. IsFiniteSet(1 .. Len(u))
    BY <2>1, FS_Interval
  <2> QED BY <2>2, FS_Subset DEF Deletes
<1>2. Cardinality(Deletes(u)) = 0 <=> Deletes(u) = {}
  BY <1>1, FS_EmptySet
<1>3. Cardinality(Deletes(u)) = 1 <=> \E i : Deletes(u) = {i}
  BY <1>1, FS_Singleton
<1>4. Deletes(u) = {} <=> NoDelete(u)
  BY DEF Deletes, NoDelete
<1>5. (\E i : Deletes(u) = {i}) <=> OneDelete(u)
  <2>1. ASSUME NEW i, Deletes(u) = {i}
        PROVE  OneDelete(u)
    BY <2>1 DEF Deletes, OneDelete
  <2>2. ASSUME OneDelete(u)
        PROVE  \E i : Deletes(u) = {i}
    BY <2>2 DEF Deletes, OneDelete
  <2> QED BY <2>1, <2>2
<1> QED BY <1>2, <1>3, <1>4, <1>5

LEMMA PromptBooks ==
  ASSUME uiTasks \in Seq(Tasks)
  PROVE  PromptInv <=> /\ prompt.at = "open" => pending # None
                       /\ Books(uiTasks, prompt.at)
BY CountDeletes DEF PromptInv, Books, Deletes

\* What is posted is the last one.
LEMMA AppendTask ==
  ASSUME NEW u \in Seq(Tasks), NEW k \in Tasks
  PROVE  /\ Append(u, k) \in Seq(Tasks)
         /\ \A i \in 1 .. Len(Append(u, k)) :
              Append(u, k)[i] = k \/ \E j \in 1 .. Len(u) : Append(u, k)[i] = u[j]
         /\ k.kind # "delete" /\ NoDelete(u) => NoDelete(Append(u, k))
         /\ k.kind # "delete" /\ OneDelete(u) => OneDelete(Append(u, k))
         /\ k.kind = "delete" /\ NoDelete(u) => OneDelete(Append(u, k))
<1>1. /\ Append(u, k) \in Seq(Tasks) /\ Len(Append(u, k)) = Len(u) + 1
      /\ Append(u, k)[Len(u) + 1] = k
      /\ \A i \in 1 .. Len(u) : Append(u, k)[i] = u[i]
  BY AppendProperties
<1>2. Len(u) \in Nat
  OBVIOUS
<1>3. \A i \in 1 .. Len(Append(u, k)) : i = Len(u) + 1 \/ i \in 1 .. Len(u)
  BY <1>1, <1>2
<1>4. 1 .. Len(u) \subseteq 1 .. Len(Append(u, k)) /\ Len(u) + 1 \in 1 .. Len(Append(u, k))
  BY <1>1, <1>2
<1>5. k.kind # "delete" /\ NoDelete(u) => NoDelete(Append(u, k))
  BY <1>1, <1>3 DEF NoDelete
<1>6. k.kind # "delete" /\ OneDelete(u) => OneDelete(Append(u, k))
  BY <1>1, <1>3, <1>4 DEF OneDelete
<1>7. k.kind = "delete" /\ NoDelete(u) => OneDelete(Append(u, k))
  BY <1>1, <1>3, <1>4 DEF NoDelete, OneDelete
<1> QED BY <1>1, <1>3, <1>5, <1>6, <1>7

\* What has run was the first one.
LEMMA TailTask ==
  ASSUME NEW u \in Seq(Tasks), u # <<>>
  PROVE  /\ Tail(u) \in Seq(Tasks) /\ Head(u) \in Tasks
         /\ \A i \in 1 .. Len(Tail(u)) : \E j \in 1 .. Len(u) : Tail(u)[i] = u[j]
         /\ \E j \in 1 .. Len(u) : Head(u) = u[j]
         /\ NoDelete(u) => NoDelete(Tail(u)) /\ Head(u).kind # "delete"
         /\ Head(u).kind # "delete" /\ OneDelete(u) => OneDelete(Tail(u))
         /\ Head(u).kind = "delete" /\ OneDelete(u) => NoDelete(Tail(u))
<1>1. /\ Head(u) = u[1] /\ Tail(u) \in Seq(Tasks) /\ Len(Tail(u)) = Len(u) - 1
      /\ \A i \in 1 .. Len(Tail(u)) : Tail(u)[i] = u[i + 1]
      /\ Len(u) \in Nat \ {0} /\ 1 \in 1 .. Len(u) /\ Head(u) \in Tasks
  BY HeadTailProperties
<1>2. \A i \in 1 .. Len(Tail(u)) : i + 1 \in 1 .. Len(u) /\ i + 1 # 1
  BY <1>1
<1>3. \A j \in 1 .. Len(u) : j # 1 => j - 1 \in 1 .. Len(Tail(u)) /\ (j - 1) + 1 = j
  BY <1>1
<1>4. NoDelete(u) => NoDelete(Tail(u)) /\ Head(u).kind # "delete"
  BY <1>1, <1>2 DEF NoDelete
<1>5. Head(u).kind # "delete" /\ OneDelete(u) => OneDelete(Tail(u))
  <2> HAVE Head(u).kind # "delete" /\ OneDelete(u)
  <2>1. PICK i \in 1 .. Len(u) :
          u[i].kind = "delete" /\ \A j \in 1 .. Len(u) : u[j].kind = "delete" => j = i
    BY DEF OneDelete
  <2>2. i # 1 /\ i - 1 \in 1 .. Len(Tail(u)) /\ (i - 1) + 1 = i
    BY <1>1, <1>3, <2>1
  <2>3. Tail(u)[i - 1].kind = "delete"
    BY <1>1, <2>1, <2>2
  <2>4. \A j \in 1 .. Len(Tail(u)) : Tail(u)[j].kind = "delete" => j = i - 1
    BY <1>1, <1>2, <2>1
  <2> QED BY <2>2, <2>3, <2>4 DEF OneDelete
<1>6. Head(u).kind = "delete" /\ OneDelete(u) => NoDelete(Tail(u))
  BY <1>1, <1>2 DEF OneDelete, NoDelete
<1> QED BY <1>1, <1>2, <1>4, <1>5, <1>6

-----------------------------------------------------------------------------
(* The policy's operators.                                                 *)

\* A rewrite changes a URL's userinfo only, and never to none when there was
\* one.
LEMMA RewriteUrl ==
  ASSUME NEW old \in Userinfos \cup {NoUserinfo}, NEW new \in Urls
  PROVE  /\ RewriteSourceUrl(old, new) \in Urls
         /\ RewriteSourceUrl(old, new).cam = new.cam
         /\ RewriteSourceUrl(old, new).n = new.n
         /\ old # NoUserinfo => RewriteSourceUrl(old, new).ui # NoUserinfo
BY PolicyAssumption DEF RewriteSourceUrl, Urls

\* The rewrites of an incident: those of its camera's auto-apply sources, with
\* its address.
LEMMA Rewrites ==
  ASSUME PolicyTypeOK, NEW inc \in Urls
  PROVE  /\ BuildRewrites(inc) \in RewriteMaps
         /\ DOMAIN BuildRewrites(inc) = Rewritten(inc)
         /\ \A s \in Rewritten(inc) :
              /\ s \in Sources /\ BuildRewrites(inc)[s] \in Urls
              /\ BuildRewrites(inc)[s].cam = inc.cam
              /\ mappings[s].cam = inc.cam /\ mappings[s].auto
<1>1. Rewritten(inc) \in SUBSET Sources
  BY DEF Rewritten
<1>2. \A s \in Rewritten(inc) :
        /\ RewriteSourceUrl(sourceUrls[s], inc) \in Urls
        /\ RewriteSourceUrl(sourceUrls[s], inc).cam = inc.cam
  BY <1>1, RewriteUrl DEF PolicyTypeOK
<1>3. BuildRewrites(inc) \in [Rewritten(inc) -> Urls]
  BY <1>2 DEF BuildRewrites
<1>4. BuildRewrites(inc) \in RewriteMaps
  BY <1>1, <1>3 DEF RewriteMaps
<1> QED BY <1>1, <1>2, <1>3, <1>4 DEF BuildRewrites, Rewritten

LEMMA RewritesWhenIdle ==
  ASSUME PolicyTypeOK
  PROVE  /\ IdleRewrites \in RewriteMaps
         /\ \A s \in DOMAIN IdleRewrites :
              /\ s \in Sources /\ IdleRewrites[s] \in Urls
              /\ mappings[s].cam = IdleRewrites[s].cam /\ mappings[s].auto
<1>1. CASE deferred = None
  <2>1. NoRewrites \in [{} -> Urls] /\ {} \in SUBSET Sources
    BY DEF NoRewrites
  <2> QED BY <1>1, <2>1 DEF IdleRewrites, RewriteMaps, NoRewrites
<1>2. CASE deferred # None
  <2>1. deferred \in Urls
    BY <1>2 DEF PolicyTypeOK
  <2> QED BY <1>2, <2>1, Rewrites DEF IdleRewrites
<1> QED BY <1>1, <1>2

\* What the sources become: none loses its userinfo, and those not rewritten
\* stay as they are.
LEMMA Sourced ==
  ASSUME sources \in [Sources -> Urls], NEW rws \in RewriteMaps
  PROVE  /\ Applied(rws) \in [Sources -> Urls]
         /\ \A s \in Sources :
              /\ sources[s].ui # NoUserinfo => Applied(rws)[s].ui # NoUserinfo
              /\ s \notin DOMAIN rws => Applied(rws)[s] = sources[s]
              /\ s \in DOMAIN rws => Applied(rws)[s].cam = rws[s].cam
<1>1. \A s \in DOMAIN rws : rws[s] \in Urls
  BY DEF RewriteMaps
<1>2. \A s \in Sources : sources[s].ui \in Userinfos \cup {NoUserinfo}
  BY DEF Urls
<1>3. \A s \in Sources : Applied(rws)[s] = IF s \in DOMAIN rws
                           THEN RewriteSourceUrl(sources[s].ui, rws[s]) ELSE sources[s]
  BY DEF Applied
<1>4. \A s \in Sources : Applied(rws)[s] \in Urls
  BY <1>1, <1>2, <1>3, RewriteUrl
<1>5. Applied(rws) \in [Sources -> Urls]
  BY <1>4 DEF Applied
<1>6. ASSUME NEW s \in Sources
      PROVE  /\ sources[s].ui # NoUserinfo => Applied(rws)[s].ui # NoUserinfo
             /\ s \notin DOMAIN rws => Applied(rws)[s] = sources[s]
             /\ s \in DOMAIN rws => Applied(rws)[s].cam = rws[s].cam
  <2>1. CASE s \in DOMAIN rws
    BY <1>1, <1>2, <1>3, <2>1, RewriteUrl
  <2>2. CASE s \notin DOMAIN rws
    BY <1>3, <2>2
  <2> QED BY <2>1, <2>2
<1> QED BY <1>5, <1>6

LEMMA TaskTypes ==
  ASSUME uiTasks \in Seq(Tasks)
  PROVE  \A i \in 1 .. Len(uiTasks) :
           \/ /\ uiTasks[i].kind = "rewrite"
              /\ \A s \in DOMAIN uiTasks[i].rewrites :
                   s \in Sources /\ uiTasks[i].rewrites[s] \in Urls
           \/ uiTasks[i].kind = "moved" /\ uiTasks[i].url \in Urls
           \/ uiTasks[i].kind \in {"prompt", "delete"}
<1> TAKE i \in 1 .. Len(uiTasks)
<1>1. uiTasks[i] \in Tasks
  BY ElementOfSeq
<1>2. CASE uiTasks[i] \in [kind : {"rewrite"}, rewrites : RewriteMaps]
  <2>1. PICK S \in SUBSET Sources : uiTasks[i].rewrites \in [S -> Urls]
    BY <1>2 DEF RewriteMaps
  <2> QED BY <1>2, <2>1
<1> QED BY <1>1, <1>2 DEF Tasks

-----------------------------------------------------------------------------
(* The steps.                                                              *)

LEMMA InvImplies == IInv => PipelineInv
BY TaskTypes, PromptBooks DEF IInv, PipelineInv, TypeOK, Types, PromptOpen

LEMMA InitInv == Init => IInv
<1> SUFFICES ASSUME Init
             PROVE  IInv
  OBVIOUS
<1> USE PipelineAssumption, PolicyAssumption
<1>1. PolicyTypeOK
  <2>1. sourceUrls \in [Sources -> Userinfos \cup {NoUserinfo}]
    BY DEF Init, Mirrors
  <2>2. defaultPolicy \in Policies /\ mappings \in Mappings
    BY DEF Init
  <2>3. cameraPolicy \in [Cameras -> Policies \cup {"none"}]
    BY DEF Init, Clear
  <2> QED BY <2>1, <2>2, <2>3 DEF Init, PolicyTypeOK
<1>2. sources \in [Sources -> Urls]
  BY DEF Init, Urls
<1>3. Types
  BY <1>1, <1>2 DEF Init, Types, NoPrompt
<1>4. uiTasks \in Seq(Tasks) /\ Len(uiTasks) = 0
  BY EmptySeq DEF Init
<1> QED BY <1>3, <1>4 DEF IInv, Init, Counted, Unwaiting, PromptOpen, Books,
                          NoDelete, NoPrompt

\* A step that leaves the UI thread's tasks and the dialog alone.
LEMMA QuietStep ==
  ASSUME IInv, Types', Counted', UNCHANGED <<uiTasks, prompt, inline>>,
         pending # None => pending' # None
  PROVE  IInv'
BY DEF IInv, Unwaiting, PromptOpen, Books, NoDelete, OneDelete

LEMMA MovedStep ==
  ASSUME IInv, NEW c \in Cameras, OnDiscoveryMoved(c)
  PROVE  IInv'
<1> USE DEF IInv, OnDiscoveryMoved, Event, policyVars
<1>1. events' = events + 1 /\ events' \in 0 .. MaxEvents
  BY PipelineAssumption DEF Types
<1>2. address[c] \in Nat /\ address[c] + 1 \in 0 .. MaxEvents
  BY <1>1, PipelineAssumption DEF Types, Counted
<1>3. address' \in [Cameras -> 0 .. MaxEvents] /\ Counted'
  BY <1>1, <1>2, PipelineAssumption DEF Types, Counted
<1>4. Types'
  BY <1>1, <1>3 DEF Types, PolicyTypeOK
<1> DEFINE task == Moved([cam |-> c, n |-> address[c] + 1, ui |-> Vault[c]])
<1>5. task \in Tasks /\ task.kind = "moved"
  BY <1>2, PipelineAssumption DEF Moved, Tasks, Urls
<1> HIDE DEF task
<1>6. uiTasks' = Append(uiTasks, task)
  BY DEF task
<1>7. uiTasks' \in Seq(Tasks) /\ Unwaiting'
  BY <1>5, <1>6, AppendTask DEF Unwaiting
<1>8. Books(uiTasks', prompt'.at)
  BY <1>5, <1>6, AppendTask DEF Books
<1> QED BY <1>3, <1>4, <1>7, <1>8 DEF PromptOpen

\* What the policy says of an incident becomes pending, or nothing does.
LEMMA IncidentTypes ==
  ASSUME Types, NEW inc \in Urls, NEW active, OnIpChange(inc, active)
  PROVE  /\ PolicyTypeOK' /\ (pending # None => pending' # None)
         /\ Decision(inc, active) = "prompted" => pending' = inc /\ inc # None
BY PolicyAssumption DEF Types, PolicyTypeOK, OnIpChange

\* The task at the head has run.
LEMMA DoneTask ==
  ASSUME IInv, uiTasks # <<>>, Done, inline' = inline
  PROVE  /\ uiTasks' \in Seq(Tasks) /\ Unwaiting'
         /\ Head(uiTasks).kind # "delete" => Books(uiTasks', prompt.at)
         /\ Head(uiTasks).kind = "delete" => NoDelete(uiTasks')
BY TailTask DEF IInv, Done, Unwaiting, Books

\* It has run and posted another.
LEMMA PostTask ==
  ASSUME IInv, uiTasks # <<>>, Head(uiTasks).kind # "delete",
         NEW k \in Tasks, k.kind # "delete", inline => k.kind # "rewrite",
         Post(k), inline' = inline
  PROVE  uiTasks' \in Seq(Tasks) /\ Unwaiting' /\ Books(uiTasks', prompt.at)
<1>1. /\ Tail(uiTasks) \in Seq(Tasks) /\ Books(Tail(uiTasks), prompt.at)
      /\ inline => \A i \in 1 .. Len(Tail(uiTasks)) : Tail(uiTasks)[i].kind # "rewrite"
  BY TailTask DEF IInv, Unwaiting, Books
<1> QED BY <1>1, AppendTask DEF Post, Unwaiting, Books

LEMMA CameraMovedStep ==
  ASSUME IInv, OnCameraMoved
  PROVE  IInv'
<1> USE DEF IInv
<1> DEFINE inc    == Head(uiTasks).url
           active == outputs # {}
<1>1. uiTasks # <<>> /\ Head(uiTasks).kind = "moved" /\ inc \in Urls
  BY TailTask DEF OnCameraMoved, Running, Tasks
<1> HIDE DEF inc, active
<1>2. OnIpChange(inc, active) /\ PolicyTypeOK
  BY DEF OnCameraMoved, inc, active, Types
<1>3. /\ PolicyTypeOK' /\ (pending # None => pending' # None)
      /\ Decision(inc, active) = "prompted" => pending' = inc /\ inc # None
  BY <1>1, <1>2, IncidentTypes
<1>4. /\ \/ Decision(inc, active) = "ignored" /\ Done /\ UNCHANGED <<sources, prompt>>
         \/ /\ Decision(inc, active) = "applied" /\ inline
            /\ sources' = Applied(BuildRewrites(inc))
            /\ Done /\ UNCHANGED prompt
         \/ /\ Decision(inc, active) = "applied" /\ ~inline
            /\ Post(Rewrite(BuildRewrites(inc)))
            /\ UNCHANGED <<sources, prompt>>
         \/ /\ Decision(inc, active) = "prompted" /\ inline
            /\ prompt' = Shown(inc)
            /\ Done /\ UNCHANGED sources
         \/ /\ Decision(inc, active) = "prompted" /\ ~inline
            /\ Post(ShowPrompt)
            /\ UNCHANGED <<sources, prompt>>
      /\ UNCHANGED <<address, outputs, inline, events, restarts>>
  BY DEF OnCameraMoved, inc, active
<1>5. sources' \in [Sources -> Urls]
  <2>1. Applied(BuildRewrites(inc)) \in [Sources -> Urls]
    BY <1>1, Rewrites, Sourced DEF Types
  <2> QED BY <1>4, <2>1 DEF Types
<1>6. /\ prompt' \in [at : {"none", "open", "closing"}, cam : Cameras \cup {None}]
      /\ prompt' = prompt \/ (prompt.at = "none" /\ prompt'.at = "open" /\ pending' # None)
  <2>1. inc.cam \in Cameras
    BY <1>1 DEF Urls
  <2>2. /\ Shown(inc) \in [at : {"none", "open", "closing"}, cam : Cameras \cup {None}]
        /\ Shown(inc) = prompt \/ (prompt.at = "none" /\ Shown(inc).at = "open")
    BY <2>1 DEF Shown, Types
  <2> QED BY <1>3, <1>4, <2>2 DEF Types
<1>7. Types' /\ Counted'
  BY <1>3, <1>4, <1>5, <1>6 DEF Types, Counted
<1>8. uiTasks' \in Seq(Tasks) /\ Unwaiting' /\ Books(uiTasks', prompt.at)
  <2>1. CASE Done
    BY <1>1, <1>4, <2>1, DoneTask
  <2>2. CASE ~inline /\ Post(Rewrite(BuildRewrites(inc)))
    <3>1. Rewrite(BuildRewrites(inc)) \in Tasks
      BY <1>1, <1>2, Rewrites DEF Rewrite, Tasks
    <3> QED BY <1>1, <1>4, <2>2, <3>1, PostTask DEF Rewrite
  <2>3. CASE Post(ShowPrompt)
    <3>1. ShowPrompt \in Tasks
      BY DEF ShowPrompt, Tasks
    <3> QED BY <1>1, <1>4, <2>3, <3>1, PostTask DEF ShowPrompt
  <2> QED BY <1>4, <2>1, <2>2, <2>3
<1>9. PromptOpen' /\ Books(uiTasks', prompt'.at)
  BY <1>3, <1>6, <1>8 DEF PromptOpen, Books
<1> QED BY <1>7, <1>8, <1>9

LEMMA RewriteStep ==
  ASSUME IInv, ApplySourceRewrites
  PROVE  IInv'
<1> USE DEF IInv, ApplySourceRewrites, Running, policyVars
<1>1. Head(uiTasks).rewrites \in RewriteMaps
  BY TailTask DEF Tasks
<1>2. sources' \in [Sources -> Urls]
  BY <1>1, Sourced DEF Types
<1>3. Types' /\ Counted'
  BY <1>2 DEF Types, PolicyTypeOK, Counted
<1> QED BY <1>3, DoneTask DEF PromptOpen

LEMMA ShowStep ==
  ASSUME IInv, ShowApplyPrompt
  PROVE  IInv'
<1> USE DEF IInv, ShowApplyPrompt, Running, policyVars
<1>1. pending # None => pending.cam \in Cameras
  BY DEF Types, PolicyTypeOK, Urls
<1>2. /\ prompt' \in [at : {"none", "open", "closing"}, cam : Cameras \cup {None}]
      /\ prompt' = prompt \/ (prompt.at = "none" /\ prompt'.at = "open" /\ pending # None)
  BY <1>1 DEF Shown, Types
<1>3. Types' /\ Counted'
  BY <1>2 DEF Types, PolicyTypeOK, Counted
<1> QED BY <1>2, <1>3, DoneTask DEF PromptOpen, Books

LEMMA DestroyedStep ==
  ASSUME IInv, PromptDestroyed
  PROVE  IInv'
<1> USE DEF IInv, PromptDestroyed, Running, policyVars
<1>1. prompt'.at = "none" /\ Types' /\ Counted'
  BY DEF Types, PolicyTypeOK, Counted, NoPrompt
<1> QED BY <1>1, DoneTask DEF PromptOpen, Books

-----------------------------------------------------------------------------
(* The dialog, the outputs, the settings.                                  *)

\* The dialog closes: its deletion is the one that is posted.
LEMMA ClosedStep ==
  ASSUME IInv, Close, inline' = inline, Types', Counted'
  PROVE  IInv'
<1>1. DeletePrompt \in Tasks /\ DeletePrompt.kind = "delete"
  BY DEF DeletePrompt, Tasks
<1>2. NoDelete(uiTasks) /\ prompt'.at = "closing"
  BY DEF IInv, Books, Close, Types
<1>3. uiTasks' \in Seq(Tasks) /\ Unwaiting' /\ OneDelete(uiTasks')
  BY <1>1, <1>2, AppendTask DEF IInv, Close, Unwaiting
<1> QED BY <1>2, <1>3 DEF IInv, PromptOpen, Books

LEMMA DialogStep ==
  ASSUME IInv, Dialog
  PROVE  IInv'
<1>1. Close /\ Types /\ PolicyTypeOK
  BY DEF Dialog, OnApply, OnDefer, OnIgnore, OnTick, Reject, IInv, Types
<1>2. prompt' \in [at : {"none", "open", "closing"}, cam : Cameras \cup {None}]
  BY <1>1 DEF Close, Types
<1>3. pending # None => pending \in Urls /\ pending.cam \in Cameras
  BY <1>1 DEF PolicyTypeOK, Urls
<1>4. sources' \in [Sources -> Urls]
  <2>1. CASE sources' = sources
    BY <1>1, <2>1 DEF Types
  <2>2. CASE pending # None /\ sources' = Applied(BuildRewrites(pending))
    BY <1>1, <1>3, <2>2, Rewrites, Sourced DEF Types
  <2> QED BY <2>1, <2>2 DEF Dialog, OnApply, OnDefer, OnIgnore, OnTick, Reject
<1>5. PolicyTypeOK'
  <2>1. CASE ApplyPending \/ DeferPending \/ UNCHANGED policyVars
    BY <1>1, <2>1 DEF ApplyPending, DeferPending, policyVars, PolicyTypeOK
  <2>2. CASE \E r \in BOOLEAN : IgnorePending(r)
    <3>1. cameraPolicy' \in [Cameras -> Policies \cup {"none"}]
      BY <1>1, <2>2 DEF IgnorePending, PolicyTypeOK, Policies
    <3> QED BY <1>1, <2>2, <3>1 DEF IgnorePending, PolicyTypeOK
  <2> QED BY <2>1, <2>2 DEF Dialog, OnApply, OnDefer, OnIgnore, OnTick, Reject
<1>6. /\ events' \in 0 .. MaxEvents /\ events <= events'
      /\ UNCHANGED <<address, outputs, inline, restarts>>
  BY <1>1, PipelineAssumption
  DEF Types, Dialog, OnApply, OnDefer, OnIgnore, OnTick, Reject, Event
<1>7. Types' /\ Counted'
  BY <1>1, <1>2, <1>4, <1>5, <1>6, PipelineAssumption DEF Types, Counted, IInv
<1> QED BY <1>1, <1>6, <1>7, ClosedStep

LEMMA OutputStep ==
  ASSUME IInv, NEW o \in Outputs, OutputStarted(o) \/ OutputStopped(o)
  PROVE  IInv'
<1> USE PipelineAssumption DEF OutputStarted, OutputStopped, Event, policyVars
<1>1. PolicyTypeOK /\ Types /\ Counted
  BY DEF IInv, Types
<1>2. sources' \in [Sources -> Urls]
  <2>1. CASE sources' = sources
    BY <1>1, <2>1 DEF Types
  <2>2. CASE sources' = Applied(IdleRewrites)
    BY <1>1, <2>2, RewritesWhenIdle, Sourced DEF Types
  <2> QED BY <2>1, <2>2
<1>3. PolicyTypeOK' /\ pending' = pending
  BY <1>1 DEF OnOutputsIdle, PolicyTypeOK
<1>4. Types' /\ Counted'
  BY <1>1, <1>2, <1>3 DEF Types, Counted
<1> QED BY <1>3, <1>4, QuietStep

LEMMA SettingsStep ==
  ASSUME IInv,
         \/ \E p \in PolicyChoices : SetDefaultPolicy(p)
         \/ \E m \in MappingChoices : ReseedApplyState(m)
         \/ \E s \in Sources, ui \in Userinfos : EditSource(s, ui)
  PROVE  IInv'
<1> USE PipelineAssumption DEF Event, policyVars
<1>1. PolicyTypeOK /\ Types /\ Counted
  BY DEF IInv, Types
<1>2. CASE \E p \in PolicyChoices : SetDefaultPolicy(p)
  <2>1. Types' /\ Counted'
    BY <1>1, <1>2 DEF SetDefaultPolicy, Types, PolicyTypeOK, Counted
  <2> QED BY <1>2, <2>1, QuietStep DEF SetDefaultPolicy
<1>3. CASE \E m \in MappingChoices : ReseedApplyState(m)
  <2>1. sourceUrls' \in [Sources -> Userinfos \cup {NoUserinfo}]
    BY <1>1, <1>3 DEF ReseedApplyState, Types, Urls
  <2>2. Types' /\ Counted'
    BY <1>1, <1>3, <2>1 DEF ReseedApplyState, Types, PolicyTypeOK, Counted
  <2> QED BY <1>3, <2>2, QuietStep DEF ReseedApplyState
<1>4. CASE \E s \in Sources, ui \in Userinfos : EditSource(s, ui)
  <2>1. sources' \in [Sources -> Urls]
    BY <1>1, <1>4 DEF EditSource, Types, Urls
  <2>2. Types' /\ Counted'
    BY <1>1, <1>4, <2>1 DEF EditSource, Types, PolicyTypeOK, Counted
  <2> QED BY <1>4, <2>2, QuietStep DEF EditSource
<1> QED BY <1>2, <1>3, <1>4

LEMMA RestartStep ==
  ASSUME IInv, Restart
  PROVE  IInv'
<1> USE PipelineAssumption DEF Restart, IInv
<1>1. sourceUrls' \in [Sources -> Userinfos \cup {NoUserinfo}]
  BY DEF Mirrors, Types, Urls
<1>2. Types' /\ Counted'
  BY <1>1 DEF Types, PolicyTypeOK, Counted, Clear, NoPrompt
<1>3. uiTasks' \in Seq(Tasks) /\ Len(uiTasks') = 0
  BY EmptySeq
<1> QED BY <1>2, <1>3 DEF Unwaiting, PromptOpen, Books, NoDelete, NoPrompt

LEMMA NextInv == IInv /\ [Next]_vars => IInv'
<1> SUFFICES ASSUME IInv, [Next]_vars
             PROVE  IInv'
  OBVIOUS
<1>1. CASE \E c \in Cameras : OnDiscoveryMoved(c)
  BY <1>1, MovedStep
<1>2. CASE RunTask
  BY <1>2, CameraMovedStep, RewriteStep, ShowStep, DestroyedStep DEF RunTask
<1>3. CASE Dialog
  BY <1>3, DialogStep
<1>4. CASE \E o \in Outputs : OutputStarted(o) \/ OutputStopped(o)
  BY <1>4, OutputStep
<1>5. CASE \/ \E p \in PolicyChoices : SetDefaultPolicy(p)
           \/ \E m \in MappingChoices : ReseedApplyState(m)
           \/ \E s \in Sources, ui \in Userinfos : EditSource(s, ui)
  BY <1>5, SettingsStep
<1>6. CASE Restart
  BY <1>6, RestartStep
<1>7. CASE UNCHANGED vars
  BY <1>7 DEF vars, policyVars, IInv, Types, PolicyTypeOK, Counted, Unwaiting,
              PromptOpen, Books, NoDelete, OneDelete
<1> QED BY <1>1, <1>2, <1>3, <1>4, <1>5, <1>6, <1>7 DEF Next

-----------------------------------------------------------------------------
(* Incidents carry their cameras' credentials.                             *)

LEMMA VaultedMoved ==
  ASSUME IInv, Vaulted, \E c \in Cameras : OnDiscoveryMoved(c)
  PROVE  Vaulted'
<1> PICK c \in Cameras : OnDiscoveryMoved(c)
  OBVIOUS
<1> DEFINE task == Moved([cam |-> c, n |-> address[c] + 1, ui |-> Vault[c]])
<1>1. address[c] + 1 \in Nat
  BY DEF IInv, Types
<1>2. task \in Tasks /\ Charged(task.url)
  BY <1>1, PipelineAssumption DEF Moved, Tasks, Urls, Charged
<1>3. uiTasks' = Append(uiTasks, task) /\ pending' = pending /\ deferred' = deferred
  BY DEF OnDiscoveryMoved, policyVars
<1> HIDE DEF task
<1>4. \A i \in 1 .. Len(uiTasks') :
        uiTasks'[i] = task \/ \E j \in 1 .. Len(uiTasks) : uiTasks'[i] = uiTasks[j]
  BY <1>2, <1>3, AppendTask DEF IInv
<1> QED BY <1>2, <1>3, <1>4 DEF Vaulted, Charged

LEMMA VaultedTask ==
  ASSUME IInv, Vaulted, RunTask
  PROVE  Vaulted'
<1>1. uiTasks # <<>> /\ uiTasks \in Seq(Tasks)
  BY DEF RunTask, OnCameraMoved, ApplySourceRewrites, ShowApplyPrompt,
         PromptDestroyed, Running, IInv
<1>2. /\ Tail(uiTasks) \in Seq(Tasks)
      /\ \A i \in 1 .. Len(Tail(uiTasks)) :
           \E j \in 1 .. Len(uiTasks) : Tail(uiTasks)[i] = uiTasks[j]
      /\ \E j \in 1 .. Len(uiTasks) : Head(uiTasks) = uiTasks[j]
      /\ Head(uiTasks) \in Tasks
  BY <1>1, TailTask
<1>3. ASSUME Done
      PROVE  \A i \in 1 .. Len(uiTasks') :
               uiTasks'[i].kind = "moved" => Charged(uiTasks'[i].url)
  BY <1>2, <1>3 DEF Done, Vaulted
<1>4. ASSUME NEW k \in Tasks, k.kind # "moved", Post(k)
      PROVE  \A i \in 1 .. Len(uiTasks') :
               uiTasks'[i].kind = "moved" => Charged(uiTasks'[i].url)
  <2>1. \A i \in 1 .. Len(uiTasks') :
          uiTasks'[i] = k \/ \E j \in 1 .. Len(Tail(uiTasks)) : uiTasks'[i] = Tail(uiTasks)[j]
    BY <1>2, <1>4, AppendTask DEF Post
  <2> QED BY <1>2, <1>4, <2>1 DEF Vaulted
<1>5. CASE OnCameraMoved
  <2> DEFINE inc    == Head(uiTasks).url
             active == outputs # {}
  <2>1. Head(uiTasks).kind = "moved" /\ inc \in Urls /\ OnIpChange(inc, active)
    BY <1>2, <1>5 DEF OnCameraMoved, Running, Tasks
  <2>2. Charged(inc)
    BY <1>2, <2>1 DEF Vaulted
  <2>3. pending' \in {inc, pending} /\ deferred' = deferred
    BY <2>1 DEF OnIpChange
  <2>4. Rewrite(BuildRewrites(inc)) \in Tasks /\ Rewrite(BuildRewrites(inc)).kind # "moved"
    BY <2>1, Rewrites DEF Rewrite, Tasks, IInv, Types
  <2>5. ShowPrompt \in Tasks /\ ShowPrompt.kind # "moved"
    BY DEF ShowPrompt, Tasks
  <2>6. Done \/ Post(Rewrite(BuildRewrites(inc))) \/ Post(ShowPrompt)
    BY <1>5 DEF OnCameraMoved
  <2> HIDE DEF inc
  <2>7. \A i \in 1 .. Len(uiTasks') :
          uiTasks'[i].kind = "moved" => Charged(uiTasks'[i].url)
    BY <1>3, <1>4, <2>4, <2>5, <2>6
  <2> QED BY <2>2, <2>3, <2>7 DEF Vaulted, Charged
<1>6. CASE ApplySourceRewrites \/ ShowApplyPrompt \/ PromptDestroyed
  <2>1. Done /\ UNCHANGED <<pending, deferred>>
    BY <1>6 DEF ApplySourceRewrites, ShowApplyPrompt, PromptDestroyed, policyVars
  <2> QED BY <1>3, <2>1 DEF Vaulted, Charged
<1> QED BY <1>5, <1>6 DEF RunTask

LEMMA VaultedDialog ==
  ASSUME IInv, Vaulted, Dialog
  PROVE  Vaulted'
<1>1. DeletePrompt \in Tasks /\ DeletePrompt.kind # "moved"
  BY DEF DeletePrompt, Tasks
<1>2. uiTasks' = Append(uiTasks, DeletePrompt)
  BY DEF Dialog, OnApply, OnDefer, OnIgnore, OnTick, Reject, Close
<1>3. \A i \in 1 .. Len(uiTasks') :
        uiTasks'[i] = DeletePrompt \/ \E j \in 1 .. Len(uiTasks) : uiTasks'[i] = uiTasks[j]
  BY <1>1, <1>2, AppendTask DEF IInv
<1>4. pending' \in {pending, None} /\ (deferred' = deferred \/ deferred' = pending)
  BY DEF Dialog, OnApply, OnDefer, OnIgnore, OnTick, Reject, ApplyPending,
         DeferPending, IgnorePending, policyVars
<1> QED BY <1>1, <1>3, <1>4 DEF Vaulted, Charged

LEMMA VaultedNext == IInv /\ Vaulted /\ [Next]_vars => Vaulted'
<1> SUFFICES ASSUME IInv, Vaulted, [Next]_vars
             PROVE  Vaulted'
  OBVIOUS
<1>1. CASE \E o \in Outputs : OutputStarted(o) \/ OutputStopped(o)
  <2>1. UNCHANGED <<uiTasks, pending>> /\ deferred' \in {deferred, None}
    BY <1>1 DEF OutputStarted, OutputStopped, OnOutputsIdle, policyVars
  <2> QED BY <2>1 DEF Vaulted, Charged
<1>2. CASE \/ \E p \in PolicyChoices : SetDefaultPolicy(p)
           \/ \E m \in MappingChoices : ReseedApplyState(m)
           \/ \E s \in Sources, ui \in Userinfos : EditSource(s, ui)
           \/ UNCHANGED vars
  <2>1. UNCHANGED <<uiTasks, pending, deferred>>
    BY <1>2 DEF SetDefaultPolicy, ReseedApplyState, EditSource, vars, policyVars
  <2> QED BY <2>1 DEF Vaulted, Charged
<1>3. CASE Restart
  <2>1. uiTasks' = <<>> /\ pending' = None /\ deferred' = None
    BY <1>3 DEF Restart
  <2>2. 1 .. Len(uiTasks') = {}
    BY <2>1, EmptySeq
  <2> QED BY <2>1, <2>2 DEF Vaulted
<1> QED BY <1>1, <1>2, <1>3, VaultedMoved, VaultedTask, VaultedDialog DEF Next

LEMMA AlwaysInv == Spec => [](IInv /\ Vaulted)
<1>1. Init => Vaulted
  <2> SUFFICES ASSUME Init
               PROVE  Vaulted
    OBVIOUS
  <2>1. uiTasks = <<>> /\ 1 .. Len(uiTasks) = {} /\ pending = None /\ deferred = None
    BY EmptySeq DEF Init
  <2> QED BY <2>1 DEF Vaulted
<1> QED BY <1>1, InitInv, NextInv, VaultedNext, PTL DEF Spec

-----------------------------------------------------------------------------
(* What a step does to the sources.                                        *)

\* The incident carries its camera's credentials and may be applied: no output
\* runs, or its policy is "always", or the user has answered the dialog, be it
\* another camera's.
Allowed(inc) ==
  /\ Charged(inc)
  /\ outputs' = {} \/ PolicyFor(inc.cam) = "always" \/ Consents(inc.cam)
       \/ Supplanted

LEMMA MovedWrites ==
  ASSUME IInv, Vaulted, OnCameraMoved
  PROVE  \/ sources' = sources
         \/ \E inc \in Urls :
              sources' = Applied(BuildRewrites(inc)) /\ Allowed(inc)
<1> DEFINE inc    == Head(uiTasks).url
           active == outputs # {}
<1>1. inc \in Urls /\ inc.cam \in Cameras /\ Charged(inc)
  <2>1. uiTasks # <<>> /\ Head(uiTasks).kind = "moved" /\ uiTasks \in Seq(Tasks)
    BY DEF OnCameraMoved, Running, IInv
  <2>2. inc \in Urls /\ \E j \in 1 .. Len(uiTasks) : Head(uiTasks) = uiTasks[j]
    BY <2>1, TailTask DEF Tasks
  <2> QED BY <2>1, <2>2 DEF Vaulted, Urls
<1> HIDE DEF inc, active
<1>2. ASSUME Decision(inc, active) = "applied", active
      PROVE  PolicyFor(inc.cam) = "always"
  <2>1. PolicyFor(inc.cam) \in Policies
    BY <1>1 DEF PolicyFor, IInv, Types, PolicyTypeOK
  <2> QED BY <1>2, <2>1 DEF Decision, Policies
<1>3. \/ sources' = sources
      \/ /\ Decision(inc, active) = "applied"
         /\ sources' = Applied(BuildRewrites(inc))
  BY DEF OnCameraMoved, inc, active
<1>4. outputs' = outputs
  BY DEF OnCameraMoved
<1> QED BY <1>1, <1>2, <1>3, <1>4 DEF Allowed, active

LEMMA ApplyWrites ==
  ASSUME IInv, Vaulted, OnApply
  PROVE  \/ sources' = sources
         \/ \E inc \in Urls :
              sources' = Applied(BuildRewrites(inc)) /\ Allowed(inc)
<1>1. CASE pending = None
  BY <1>1 DEF OnApply
<1>2. CASE pending # None
  <2>1. pending \in Urls /\ sources' = Applied(BuildRewrites(pending))
    BY <1>2 DEF OnApply, IInv, Types, PolicyTypeOK
  <2>2. prompt.at = "open" /\ prompt'.at = "closing"
    BY DEF OnApply, Close, IInv, Types
  <2>3. Consents(pending.cam) \/ Supplanted
    BY <1>2, <2>2 DEF Consents, Supplanted
  <2> QED BY <1>2, <2>1, <2>3 DEF Allowed, Vaulted
<1> QED BY <1>1, <1>2

LEMMA StopWrites ==
  ASSUME IInv, Vaulted, NEW o \in Outputs, OutputStopped(o)
  PROVE  \/ sources' = sources
         \/ \E inc \in Urls :
              sources' = Applied(BuildRewrites(inc)) /\ Allowed(inc)
<1>1. CASE outputs' # {}
  BY <1>1 DEF OutputStopped
<1>2. CASE outputs' = {} /\ deferred = None
  <2>1. sources' = Applied(NoRewrites) /\ DOMAIN NoRewrites = {}
    BY <1>2 DEF OutputStopped, IdleRewrites, NoRewrites
  <2> QED BY <2>1 DEF Applied, IInv, Types
<1>3. CASE outputs' = {} /\ deferred # None
  <2>1. deferred \in Urls /\ sources' = Applied(BuildRewrites(deferred))
    BY <1>3 DEF OutputStopped, IdleRewrites, IInv, Types, PolicyTypeOK
  <2> QED BY <1>3, <2>1 DEF Allowed, Vaulted
<1> QED BY <1>1, <1>2, <1>3

\* A step leaves the sources alone, or the user edits one, or the rewrites of
\* an incident are applied with good reason, or those of a task that waited.
LEMMA Writes ==
  ASSUME IInv, Vaulted, Next
  PROVE  \/ sources' = sources
         \/ \E t \in Sources, ui \in Userinfos : sources' = [sources EXCEPT ![t].ui = ui]
         \/ \E inc \in Urls :
              sources' = Applied(BuildRewrites(inc)) /\ Allowed(inc)
         \/ ~inline /\ \E rws \in RewriteMaps : sources' = Applied(rws)
<1>1. CASE ApplySourceRewrites
  <2>1. /\ Head(uiTasks).rewrites \in RewriteMaps
        /\ sources' = Applied(Head(uiTasks).rewrites)
        /\ Head(uiTasks).kind = "rewrite"
    BY <1>1, TailTask DEF ApplySourceRewrites, Running, Tasks, IInv
  <2>2. ~inline
    BY <1>1, <2>1, TailTask DEF ApplySourceRewrites, Running, IInv, Unwaiting
  <2> QED BY <2>1, <2>2
<1>2. CASE OnCameraMoved \/ OnApply \/ \E o \in Outputs : OutputStopped(o)
  BY <1>2, MovedWrites, ApplyWrites, StopWrites
<1>3. CASE \E s \in Sources, ui \in Userinfos : EditSource(s, ui)
  BY <1>3 DEF EditSource
<1>4. CASE \/ \E c \in Cameras : OnDiscoveryMoved(c)
           \/ ShowApplyPrompt \/ PromptDestroyed
           \/ OnDefer \/ (\E r \in BOOLEAN : OnIgnore(r)) \/ OnTick \/ Reject
           \/ \E o \in Outputs : OutputStarted(o)
           \/ \E p \in PolicyChoices : SetDefaultPolicy(p)
           \/ \E m \in MappingChoices : ReseedApplyState(m)
           \/ Restart
  BY <1>4 DEF OnDiscoveryMoved, ShowApplyPrompt, PromptDestroyed, OnDefer, OnIgnore,
              OnTick, Reject, OutputStarted, SetDefaultPolicy, ReseedApplyState, Restart
<1> QED BY <1>1, <1>2, <1>3, <1>4 DEF Next, RunTask, Dialog

\* The userinfo of a rewrite, spliced twice, is the camera's or the source's
\* own when the mirror is not stale.
LEMMA Spliced ==
  ASSUME IInv, NEW inc \in Urls, Charged(inc), NEW s \in Rewritten(inc), ~Stale(s)
  PROVE  Applied(BuildRewrites(inc))[s].ui = OwnUi(s)
<1>1. s \in Sources /\ mappings[s].cam = inc.cam
  BY DEF Rewritten
<1>2. /\ sources[s] \in Urls /\ sourceUrls[s] \in Userinfos \cup {NoUserinfo}
      /\ inc.ui = Vault[mappings[s].cam]
  BY <1>1 DEF IInv, Types, PolicyTypeOK, Charged
<1>3. Applied(BuildRewrites(inc))[s]
        = RewriteSourceUrl(sources[s].ui, RewriteSourceUrl(sourceUrls[s], inc))
  BY <1>1 DEF Applied, BuildRewrites
<1>4. /\ RewriteSourceUrl(sourceUrls[s], inc) \in Urls
      /\ RewriteSourceUrl(sourceUrls[s], inc).ui
           = IF inc.ui # NoUserinfo THEN inc.ui ELSE sourceUrls[s]
  BY <1>2, RewriteUrl DEF RewriteSourceUrl, Urls
<1>5. Applied(BuildRewrites(inc))[s].ui
        = IF RewriteSourceUrl(sourceUrls[s], inc).ui # NoUserinfo
          THEN RewriteSourceUrl(sourceUrls[s], inc).ui ELSE sources[s].ui
  BY <1>3, <1>4 DEF RewriteSourceUrl, Urls
<1> QED BY <1>2, <1>4, <1>5 DEF OwnUi, Stale

\* Another address in a source comes from the rewrites of its camera.
LEMMA Readdressing ==
  ASSUME IInv, Vaulted, Next, inline, NEW s \in Sources, Readdressed(s)
  PROVE  /\ mappings[s].auto /\ sources'[s].cam = mappings[s].cam
         /\ ~Stale(s) => sources'[s].ui = OwnUi(s)
         /\ \E inc \in Urls : inc.cam = mappings[s].cam /\ Allowed(inc)
<1>1. sources \in [Sources -> Urls] /\ PolicyTypeOK
  BY DEF IInv, Types
<1>2. ASSUME NEW t \in Sources, NEW ui \in Userinfos,
             sources' = [sources EXCEPT ![t].ui = ui]
      PROVE  FALSE
  BY <1>1, <1>2 DEF Readdressed, Urls
<1>3. PICK inc \in Urls : sources' = Applied(BuildRewrites(inc)) /\ Allowed(inc)
  BY <1>2, Writes DEF Readdressed
<1>4. s \in Rewritten(inc)
  BY <1>1, <1>3, Rewrites, Sourced DEF Readdressed
<1>5. ~Stale(s) => sources'[s].ui = OwnUi(s)
  BY <1>3, <1>4, Spliced DEF Allowed
<1> QED BY <1>1, <1>3, <1>4, <1>5, Rewrites, Sourced

-----------------------------------------------------------------------------
(* The theorems.                                                           *)

\* Every variable keeps its type; while the dialog is open an incident is
\* pending, so that Apply, Later and Ignore act on something; and a closed
\* dialog has exactly one deletion on its way (ShowApplyPrompt and g_prompt of
\* obs/apply_prompt.cpp), across any restarts.
THEOREM DialogConsistent == Spec => []PipelineInv
BY InvImplies, AlwaysInv, PTL

\* While an output runs, a source is rewritten only when its camera's policy is
\* "always" or the user answers a dialog that names its camera
\* (ApplyPolicy::OnIpChange, the dialog's buttons, SetOutputActive), when OBS
\* runs tasks of the UI thread at once and the incident shown was not supplanted
\* by another camera's.
THEOREM NeverUnasked == Spec => ConsentWhenLive
<1>1. ASSUME IInv, Vaulted, Next, inline, outputs' # {}, ~Supplanted,
             NEW s \in Sources, Readdressed(s)
      PROVE  PolicyFor(mappings[s].cam) = "always" \/ Consents(mappings[s].cam)
  BY <1>1, Readdressing DEF Allowed
<1>2. ASSUME IInv, Vaulted, UNCHANGED vars, NEW s \in Sources, Readdressed(s)
      PROVE  FALSE
  BY <1>2 DEF vars, Readdressed
<1>3. IInv /\ Vaulted /\ [Next]_vars =>
        [inline /\ outputs' # {} /\ ~Supplanted =>
           \A s \in Sources : Readdressed(s) =>
             \/ PolicyFor(mappings[s].cam) = "always"
             \/ Consents(mappings[s].cam)]_vars
  BY <1>1, <1>2
<1> QED BY <1>3, AlwaysInv, PTL DEF Spec, ConsentWhenLive

\* BuildRewrites looks at the mappings when it is called: an incident that was
\* pending or deferred while they changed still reaches only the sources mapped
\* to its camera by then, and those whose auto-apply box is checked.
THEOREM OnlyMapped == Spec => RightCamera
<1>1. ASSUME IInv, Vaulted, Next, inline, NEW s \in Sources, Readdressed(s)
      PROVE  mappings[s].auto /\ sources'[s].cam = mappings[s].cam
  BY <1>1, Readdressing
<1>2. IInv /\ Vaulted /\ [Next]_vars =>
        [inline => \A s \in Sources : Readdressed(s) =>
           mappings[s].auto /\ sources'[s].cam = mappings[s].cam]_vars
  BY <1>1
<1> QED BY <1>2, AlwaysInv, PTL DEF Spec, RightCamera

\* Userinfo is spliced twice, from the policy's mirror and from the source:
\* whatever incident is applied, at once, from the dialog or after a deferral, a
\* source gets its camera's credentials from the vault or else keeps its own,
\* unless the user has edited it since it was mirrored (ApplyPolicy::
\* BuildRewrites, glue::RewriteSourceUrl), when OBS runs tasks of the UI thread
\* at once.
THEOREM CredentialsKept == Spec => UserinfoKept
<1>1. ASSUME IInv, Vaulted, Next, inline, NEW s \in Sources, Readdressed(s), ~Stale(s)
      PROVE  sources'[s].ui = OwnUi(s)
  BY <1>1, Readdressing
<1>2. IInv /\ Vaulted /\ [Next]_vars =>
        [inline => \A s \in Sources : Readdressed(s) /\ ~Stale(s) =>
           sources'[s].ui = OwnUi(s)]_vars
  BY <1>1
<1> QED BY <1>2, AlwaysInv, PTL DEF Spec, UserinfoKept
=============================================================================
