------------------------------- MODULE Presets -------------------------------
(***************************************************************************)
(* The dock's Presets tab (PresetsWidget of obs/dock.cpp), the ABI's       *)
(* preset calls, and Worker's profile cache and memory of the last preset  *)
(* (registry/worker.cpp).                                                  *)
(*                                                                         *)
(* Every press of a button, every refresh of the list and every hotkey or  *)
(* bound scene starts a detached thread.  It finds the camera in the       *)
(* table, takes its first profile from the cache or asks for it, and sends *)
(* one request.  A list is queued for the UI thread, which shows it        *)
(* whatever camera is selected by then.                                    *)
(*                                                                         *)
(* Tokens of presets are the same on every camera ("1", "2", ...), so one  *)
(* that was listed by camera A names a preset of camera B as well.  A      *)
(* profile is a number, which changes when the camera is set up anew.      *)
(***************************************************************************)
EXTENDS Naturals, Sequences, FiniteSets, SequencesExt

CONSTANTS
  Cameras,
  None,         (* no camera, no preset, no cache entry                      *)
  Tokens,       (* tokens of presets                                         *)
  StartPresets, (* those a camera has at first                               *)
  Threads,      (* detached threads at work at the same time (bound)         *)
  MaxProfile,   (* bound on how often a camera is set up anew                *)
  MaxEvents     (* bound on failing calls, changes of table and cameras, and
                   uses of the buttons but Refresh, together                 *)

ASSUME PresetsAssumption ==
  /\ IsFiniteSet(Cameras) /\ None \notin Cameras \cup Tokens /\ StartPresets \subseteq Tokens
  /\ Threads \subseteq Nat /\ MaxProfile \in Nat /\ MaxEvents \in Nat

VARIABLES
  table,            (* discovery's table                                     *)
  profile, presets, (* of each camera                                        *)
  rows, sel, list,  (* the tab: cameras, the selected one, presets shown     *)
  thread,
  cache,            (* profileCache_                                         *)
  last,             (* lastPreset_                                           *)
  served, known,    (* the preset each camera was last asked for and has
                       obeyed; whether no other request was on its way then,
                       nor the answer lost (history)                         *)
  raced,            (* the last refresh was started while a list of another
                       camera was still to come (history)                    *)
  events

cameras == <<table, profile, presets>>
tab     == <<rows, sel, list, raced>>
session == <<cache, last, served, known>>
vars    == <<cameras, tab, session, thread, events>>

Idle   == [at |-> "idle"]
NoList == [of |-> None, items |-> {}]

Event(n) == events' = events + n /\ events' <= MaxEvents

Init ==
  /\ table \in {<<>>, SetToSeq(Cameras)}
  /\ profile = [c \in Cameras |-> 0] /\ presets = [c \in Cameras |-> StartPresets]
  /\ rows = <<>> /\ sel = None /\ list = NoList /\ raced = FALSE
  /\ thread = [t \in Threads |-> Idle]
  /\ cache = [c \in Cameras |-> None] /\ last = [c \in Cameras |-> None]
  /\ served = last /\ known = [c \in Cameras |-> TRUE]
  /\ events = 0

Listed(c)  == c \in ToSet(table)
At(t, at)  == thread[t].at = at
Active(t)  == ~At(t, "idle")
\* The thread to start next: which one it is makes no difference.
Free(th)   == {t \in Threads : th[t] = Idle /\ \A u \in Threads : th[u] = Idle => t <= u}
Listing(t) == Active(t) /\ thread[t].op = "list"
Goes(t, th) == thread' = [thread EXCEPT ![t] = th]

Call(op, c, token, of) ==
  [at |-> "call", op |-> op, cam |-> c, token |-> token, of |-> of,
   raced |-> raced, profile |-> 0, again |-> FALSE, got |-> {}]

(***************************************************************************)
(* The tab, on the UI thread                                               *)
(***************************************************************************)
\* RefreshPresets with camera c selected, after the threads th were started.
\* A slip: the list is not cleared.
RefreshPresetsKeeps(c, th) ==
  /\ raced' = (\E u \in Threads : Listing(u) /\ thread[u].cam # c)
  /\ UNCHANGED list
  /\ IF c = None THEN thread' = th
     ELSE \E t \in Free(th) :
            thread' = [th EXCEPT ![t] = Call("list", c, None, c)]
RefreshPresets(c, th) ==
  /\ raced' = (\E u \in Threads : Listing(u) /\ thread[u].cam # c)
  /\ list' = NoList
  /\ IF c = None THEN thread' = th
     ELSE \E t \in Free(th) :
            thread' = [th EXCEPT ![t] = Call("list", c, None, c)]

\* The combo box filled again: what was selected before, else its first row.
Reselected == IF Listed(sel) THEN sel ELSE IF table = <<>> THEN None ELSE Head(table)

\* RefreshCameras, when the dock is built and on every change of its tab.
RefreshCameras ==
  /\ rows' = table /\ sel' = Reselected
  /\ RefreshPresets(Reselected, thread)
  /\ UNCHANGED <<cameras, session, events>>

Select(c) ==
  /\ c \in ToSet(rows) \ {sel} /\ sel' = c
  /\ RefreshPresets(c, thread)
  /\ UNCHANGED <<cameras, rows, session, events>>

Refresh ==
  /\ RefreshPresets(sel, thread)
  /\ UNCHANGED <<cameras, rows, sel, session, events>>

\* GotoSelected: the thread is all.
Goto(token) ==
  /\ sel # None /\ token \in list.items /\ Event(1)
  /\ \E t \in Free(thread) : Goes(t, Call("goto", sel, token, list.of))
  /\ UNCHANGED <<cameras, tab, session>>

\* SaveCurrent, RenameSelected, DeleteSelected: the list is refreshed at once,
\* not when the thread is through.  Camera and token are taken before the
\* dialog that asks for a name, which keeps the user from everything else.
Change(op, token) ==
  /\ sel # None /\ Event(1)
  /\ (op = "save" /\ token = None) \/ (op \in {"rename", "delete"} /\ token \in list.items)
  /\ \E t \in Free(thread) :
       RefreshPresets(sel, [thread EXCEPT ![t] =
         Call(op, sel, token, IF op = "save" THEN sel ELSE list.of)])
  /\ UNCHANGED <<cameras, rows, sel, session>>

\* A preset hotkey, a bound scene or another plugin.
Fire(c, token) ==
  /\ Event(1)
  /\ \E t \in Free(thread) : Goes(t, Call("goto", c, token, c))
  /\ UNCHANGED <<cameras, tab, session>>

(***************************************************************************)
(* One thread: the ABI call through Worker to the camera                   *)
(***************************************************************************)
\* A call that fails: a list comes out empty, the others leave no trace.
Failed(t) == Goes(t, IF Listing(t) THEN [thread[t] EXCEPT !.at = "queued"] ELSE Idle)

\* A slip: the age is not looked at.
HitAny(c) == cache[c] # None
\* FirstProfileCached: younger than the TTL.
Hit(c) == cache[c] # None /\ ~cache[c].old

Lookup(t) ==
  /\ At(t, "call")
  /\ LET c == thread[t].cam
     IN \/ /\ Event(IF Listed(c) THEN 1 ELSE 0)   \* or found offline
           /\ Failed(t)
        \/ /\ Listed(c) /\ UNCHANGED events
           /\ Goes(t, IF Hit(c)
                      THEN [thread[t] EXCEPT !.at = "send", !.profile = cache[c].profile]
                      ELSE [thread[t] EXCEPT !.at = "resolve"])
  /\ UNCHANGED <<cameras, tab, session>>

\* GetCapabilities fails: there is nothing to try again with.
GetCapabilitiesFails(t) == Event(1) /\ Failed(t) /\ UNCHANGED cache

\* GetProfiles fails, or there is none: the cache entry is dropped, which may
\* be one that another thread has just stored, and both are asked once more.
GetProfilesFails(t) ==
  /\ Event(1)
  /\ IF thread[t].again THEN Failed(t) /\ UNCHANGED cache
     ELSE /\ Goes(t, [thread[t] EXCEPT !.again = TRUE])
          /\ cache' = [cache EXCEPT ![thread[t].cam] = None]

\* The first of them, of Media2 (GetProfiles2) if that service has any.
GetProfiles(t) ==
  /\ Goes(t, [thread[t] EXCEPT !.at = "store", !.profile = profile[thread[t].cam]])
  /\ UNCHANGED <<cache, events>>

\* ResolveProfile
Resolve(t) ==
  /\ At(t, "resolve")
  /\ GetCapabilitiesFails(t) \/ GetProfilesFails(t) \/ GetProfiles(t)
  /\ UNCHANGED <<cameras, tab, last, served, known>>

StoreCache(t) ==
  /\ At(t, "store")
  /\ cache' = [cache EXCEPT ![thread[t].cam] =
                 [profile |-> thread[t].profile, old |-> FALSE]]
  /\ Goes(t, [thread[t] EXCEPT !.at = "send"])
  /\ UNCHANGED <<cameras, tab, last, served, known, events>>

\* What the camera needs to obey a request about preset tk, None for its list.
Named(th, tk)        == tk = th.token /\ tk \in presets[th.cam]
GotoPreset(th, tk)   == th.op = "goto" /\ Named(th, tk)
SetPreset(th, tk)    == th.op = "save" /\ tk \in Tokens \ presets[th.cam]
GetPresets(th, tk)   == th.op = "list" /\ tk = None
RenamePreset(th, tk) == th.op = "rename" /\ Named(th, tk)
DeletePreset(th, tk) == th.op = "delete" /\ Named(th, tk)

Obeyed(th, tk) ==
  /\ th.profile = profile[th.cam]
  /\ \/ GotoPreset(th, tk) \/ SetPreset(th, tk) \/ GetPresets(th, tk)
     \/ RenamePreset(th, tk) \/ DeletePreset(th, tk)

Refused(th) == \A tk \in Tokens \cup {None} : ~Obeyed(th, tk)

Kept(th, tk) ==
  CASE th.op = "save"   -> presets[th.cam] \cup {tk}
    [] th.op = "delete" -> presets[th.cam] \ {tk}
    [] OTHER            -> presets[th.cam]

Remembering(c) == {t \in Threads : At(t, "remember") /\ thread[t].cam = c}
Remembered(th) == th.op \in {"goto", "save"}

\* The request reaches the camera, whose answer may be lost.
Sent(t, tk) ==
  LET th == thread[t]  c == th.cam
  IN /\ Obeyed(th, tk)
     /\ presets' = [presets EXCEPT ![c] = Kept(th, tk)]
     /\ \E lost \in BOOLEAN :
          /\ Event(IF lost THEN 1 ELSE 0)
          /\ IF Remembered(th)
             THEN /\ served' = [served EXCEPT ![c] = tk]
                  /\ known' = [known EXCEPT ![c] = ~lost /\ Remembering(c) = {}]
             ELSE UNCHANGED <<served, known>>
          /\ IF lost THEN Failed(t)
             ELSE Goes(t, CASE th.op = "list" ->
                                 [th EXCEPT !.at = "queued", !.got = presets[c]]
                            [] Remembered(th) ->
                                 [th EXCEPT !.at = "remember", !.token = tk]
                            [] OTHER -> Idle)

Send(t) ==
  /\ At(t, "send")
  /\ \/ \E tk \in Tokens \cup {None} : Sent(t, tk)
     \/ /\ Refused(thread[t]) /\ Failed(t)
        /\ UNCHANGED <<presets, served, known, events>>
     \/ Event(1) /\ Failed(t) /\ UNCHANGED <<presets, served, known>>
  /\ UNCHANGED <<table, profile, tab, cache, last>>

\* A slip: only the first is remembered.
RememberOnce(t) ==
  /\ At(t, "remember")
  /\ last' = [last EXCEPT ![thread[t].cam] = IF @ = None THEN thread[t].token ELSE @]
  /\ Goes(t, Idle)
  /\ UNCHANGED <<cameras, tab, cache, served, known, events>>
\* lastPreset_, under another lock and after the call.
Remember(t) ==
  /\ At(t, "remember")
  /\ last' = [last EXCEPT ![thread[t].cam] = thread[t].token]
  /\ Goes(t, Idle)
  /\ UNCHANGED <<cameras, tab, cache, served, known, events>>

\* PopulatePresets, on the UI thread: no question of the selected camera.
PopulatePresets(t) ==
  /\ At(t, "queued")
  /\ list' = [of |-> thread[t].cam, items |-> thread[t].got]
  /\ Goes(t, Idle)
  /\ UNCHANGED <<cameras, rows, sel, raced, session, events>>

(***************************************************************************)
(* Time, cameras and discovery                                             *)
(***************************************************************************)
\* kProfileCacheTtl, 60 s.
Expire(c) ==
  /\ cache[c] # None /\ ~cache[c].old
  /\ cache' = [cache EXCEPT ![c].old = TRUE]
  /\ UNCHANGED <<cameras, tab, last, served, known, thread, events>>

SetUpAnew(c) ==
  /\ profile[c] < MaxProfile /\ profile' = [profile EXCEPT ![c] = @ + 1]
  /\ Event(1)
  /\ UNCHANGED <<table, presets, tab, session, thread>>

TableChange ==
  /\ Event(1)
  /\ \E c \in Cameras :
       IF Listed(c)
       THEN \E i \in DOMAIN table : table[i] = c /\ table' = RemoveAt(table, i)
       ELSE table' = Append(table, c)
  /\ UNCHANGED <<profile, presets, tab, session, thread>>

Thread(t) == Lookup(t) \/ Resolve(t) \/ StoreCache(t) \/ Send(t) \/ Remember(t)
             \/ PopulatePresets(t)

User == \/ RefreshCameras \/ Refresh
        \/ \E c \in Cameras : Select(c)
        \/ \E token \in Tokens : Goto(token)
        \/ \E op \in {"save", "rename", "delete"}, token \in Tokens \cup {None} :
             Change(op, token)

Next == \/ User
        \/ \E c \in Cameras, token \in Tokens : Fire(c, token)
        \/ \E t \in Threads : Thread(t)
        \/ \E c \in Cameras : Expire(c) \/ SetUpAnew(c)
        \/ TableChange

Spec == Init /\ [][Next]_vars

\* A detached thread goes on, its network calls end (they have a timeout), the
\* UI thread takes what is queued for it, and the clock runs.
FairSpec == /\ Spec
            /\ \A t \in Threads : WF_vars(Thread(t))
            /\ \A c \in Cameras : WF_vars(Expire(c))

(***************************************************************************)
(* Properties                                                              *)
(***************************************************************************)
\* The presets shown are those of the selected camera, and the token a button
\* sends was listed by the camera it is sent to, as long as the tab was not
\* refreshed while a list of another camera was still on its way: clearing the
\* list at once is all that keeps a token of one camera from being sent to,
\* renamed on or deleted from another.
RightList ==
  /\ raced \/ list.of \in {None, sel}
  /\ \A t \in Threads : Active(t) => thread[t].of = thread[t].cam \/ thread[t].raced

\* What Worker remembers as a camera's last preset, and shows when nothing is
\* on its way, is the last one the camera has gone to or saved, unless its
\* answer was lost or two requests for it overlapped.
LastIsServed ==
  \A c \in Cameras : known[c] /\ Remembering(c) = {} => last[c] = served[c]

\* A profile that the cache holds after the camera was set up anew does not
\* keep its presets out of reach: if its list is asked for again and again,
\* and it stays in the table, it is asked again and again with its own profile.
Heals ==
  \A c \in Cameras :
    []<>(\E t \in Threads : At(t, "call") /\ Listing(t) /\ thread[t].cam = c)
      /\ <>[]Listed(c)
    => []<>(\E t \in Threads : At(t, "queued") /\ thread[t].cam = c
                               /\ thread[t].profile = profile[c])
=============================================================================
