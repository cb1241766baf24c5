----------------------------- MODULE ConfigPanel -----------------------------
(***************************************************************************)
(* The dock's Config tab (ConfigWidget of obs/dock.cpp) with the ABI,      *)
(* Worker and OnvifClient calls it makes.                                  *)
(*                                                                         *)
(* Selecting a camera starts a detached thread that reads its settings,    *)
(* one SOAP call after another; the result is queued for the UI thread,    *)
(* which fills the form unless a later selection has bumped loadGen_.      *)
(* "Apply Changes" takes the whole form to another thread, which writes    *)
(* every part that could be read, in order and whatever fails; its         *)
(* completion loads the selected camera again.  Meanwhile discovery        *)
(* changes the camera table, and every change of tab refills the selector  *)
(* with its signals blocked.                                               *)
(*                                                                         *)
(* A setting is abstracted to where it comes from: c, what camera c was    *)
(* set to; Near, that as nearly as a widget can show it; Typed, what the   *)
(* user typed; Blank, what an empty form holds (0x0, zeros, "", NTP from   *)
(* DHCP); Off, no overlay; Fixed, a constant of the request.  The list of  *)
(* NTP servers, which is sent beside FromDHCP, is left out.                *)
(***************************************************************************)
EXTENDS Sequences, FiniteSets, Naturals, SequencesExt

CONSTANTS
  Cameras,
  None,                 (* no camera                                         *)
  Typed, Blank, Off, Near, Fixed,    (* settings                             *)
  Fail,                 (* a call that did not return 0, a part not shown    *)
  Services,             (* [Cameras -> SUBSET Parts]: what each one exposes  *)
  Media2,               (* cameras whose first profile is a Media2 one       *)
  Fast, LongList,       (* cameras set to more than 30 frames per second, or
                           to a size after the 16th of those they offer      *)
  Bare,                 (* cameras without an overlay                        *)
  Inexact,              (* [Cameras -> SUBSET Reads]: the parts that a widget
                           shows other than the camera is set to: a rate or an
                           imaging value of two decimals, an overlay that is
                           disabled, a text longer than the ABI's field      *)
  StartTables,          (* discovery's tables when the dock is built (bound) *)
  Loads, Jobs,          (* detached threads at work at the same time (bound) *)
  EditParts,            (* parts of the form the user may edit (bound)       *)
  MaxEvents             (* bound on calls that fail on the network, changes
                           of the table and uses of the button, together     *)

\* The order in which a job writes the parts, and in which a load reads them,
\* the first two followed by the range of their widgets; NTP is not read.
WriteOrder == <<"stream", "image", "net", "host", "ntp", "osd">>
ReadOrder  == <<"stream", "image", "net", "osd", "host">>
Parts      == ToSet(WriteOrder)
Reads      == ToSet(ReadOrder)
Ranged     == {"stream", "image"}
\* What the requests also set and the form does not show: the encoder's quality
\* (with EncodingInterval and SessionTimeout), whether the interface has IPv4,
\* the overlay's type and position.
Unshown    == {"quality", "ipv4", "place"}
Settings   == Cameras \cup {Typed, Blank, Off, Near, Fixed}

ASSUME PanelAssumption ==
  /\ {None, Typed, Blank, Off, Near, Fixed, Fail} \cap Cameras = {}
  /\ Cardinality({Typed, Blank, Off, Near, Fixed, Fail}) = 6
  /\ Services \in [Cameras -> SUBSET Parts] /\ Inexact \in [Cameras -> SUBSET Reads]
  /\ UNION {Media2, Fast, LongList, Bare} \subseteq Cameras
  /\ StartTables \subseteq Seq(Cameras) /\ \A tb \in StartTables : IsInjective(tb)
  /\ EditParts \subseteq Parts /\ MaxEvents \in Nat

VARIABLES
  table, online,  (* discovery's table, and who is online in it              *)
  device,         (* what each camera is set to                              *)
  rows, sel,      (* the selector: its entries and the current one           *)
  silent,         (* the current one was changed with the signals blocked
                     since the last load was started (history)               *)
  form,           (* the widgets and what Populate keeps beside them         *)
  applyOn, status,
  load, job,      (* the threads                                             *)
  events

panel == <<rows, sel, silent, form, applyOn, status>>
vars  == <<table, online, device, panel, load, job, events>>

Idle    == [on |-> FALSE]
NoForm  == [of |-> None, val |-> [p \in Parts |-> Fail], token |-> FALSE,
            edited |-> {}, lossy |-> {}]
Nothing == [val |-> [r \in Reads |-> Fail],
            range |-> [r \in Ranged |-> {}]]

Event(n) == events' = events + n /\ events' <= MaxEvents

\* ConfigWidget's constructor fills the selector before any load.
Init ==
  /\ table \in StartTables /\ online = Cameras
  /\ device = [c \in Cameras |-> [p \in Parts \cup Unshown |->
                 IF p = "osd" /\ c \in Bare THEN Off ELSE c]]
  /\ rows = table /\ sel = (IF table = <<>> THEN None ELSE Head(table))
  /\ silent = TRUE /\ form = NoForm /\ applyOn = FALSE /\ status = "none"
  /\ load = [l \in Loads |-> Idle] /\ job = [j \in Jobs |-> Idle]
  /\ events = 0

(***************************************************************************)
(* What the calls return, for a camera that is reached and answers.        *)
(***************************************************************************)
\* RunCamera: -1 for a camera not in the table, -2 for one offline.
Reached(c) == c \in ToSet(table) /\ c \in online

\* The encoder of the profile is looked up among those its service lists.
GetVideoEncoderConfigurations(c)  == device[c]["stream"]
GetVideoEncoderConfigurations2(c) == device[c]["stream"]
EncoderConfig(c) ==
  IF c \in Media2 THEN GetVideoEncoderConfigurations2(c)
  ELSE GetVideoEncoderConfigurations(c)

\* The stream settings that the widgets can show.  Media2 options have no range
\* of rates, for which the form takes 1 to 30; the ABI passes 16 sizes on.
GetVideoEncoderConfigurationOptions(c)  == Settings \ {Blank}
GetVideoEncoderConfigurationOptions2(c) == Settings \ ({Blank} \cup (Fast \cap {c}))
EncoderOptions(c) ==
  IF c \in Media2 THEN GetVideoEncoderConfigurationOptions2(c)
  ELSE GetVideoEncoderConfigurationOptions(c)
AGetEncoderOptions(c) == EncoderOptions(c) \ (LongList \cap {c})

GetImagingSettings(c)   == device[c]["image"]
GetImagingOptions(c)    == Settings
GetNetworkInterfaces(c) == device[c]["net"]
GetHostname(c)          == device[c]["host"]
\* The answer is a list: a camera without an overlay answers with none.
GetOSDs(c)              == device[c]["osd"]

Answer(c, r) ==
  CASE r = "stream" -> EncoderConfig(c)
    [] r = "image"  -> GetImagingSettings(c)
    [] r = "net"    -> GetNetworkInterfaces(c)
    [] r = "osd"    -> GetOSDs(c)
    [] r = "host"   -> GetHostname(c)

Options(c, r) == IF r = "stream" THEN AGetEncoderOptions(c) ELSE GetImagingOptions(c)

\* A call the camera has no service for fails and changes nothing: the calls
\* of a thread are those of the others, and one of those left is next.
Answered(c, parts)    == parts \cap Services[c]
Foremost(order, todo) ==
  {p \in todo : \E i \in DOMAIN order :
                  order[i] = p /\ \A k \in 1 .. (i - 1) : order[k] \notin todo}

(***************************************************************************)
(* Loading                                                                 *)
(***************************************************************************)
Free(threads) == {t \in DOMAIN threads : ~threads[t].on}

\* A slip: a later load does not supersede it.
SupersededNever(th) == th
\* A thread whose load is superseded only reads, and what it reads is dropped:
\* it is taken to have come to its end.
Superseded(th) ==
  IF th.on THEN [th EXCEPT !.fresh = FALSE, !.todo = {}, !.got = Nothing] ELSE th

\* LoadCurrent with camera c selected, threads as in th.
LoadCurrent(c, th) ==
  /\ applyOn' = FALSE /\ status' = "none"
  /\ IF c = None
     THEN load' = th /\ UNCHANGED silent
     ELSE /\ silent' = FALSE
          /\ \E l \in Free(th) :
               load' = [[k \in Loads |-> Superseded(th[k])] EXCEPT ![l] =
                          [on |-> TRUE, cam |-> c, fresh |-> TRUE,
                           todo |-> Answered(c, Reads), got |-> Nothing]]

\* One setting of LoadSnapshot.  The options are asked for right after it,
\* whatever it returned; they depend on nothing that changes, so the two calls
\* make one step, of which either may fail.
LoadStep(l) ==
  /\ load[l].on
  /\ \E r \in Foremost(ReadOrder, load[l].todo) :
       LET c == load[l].cam  can == Reached(c)
       IN \E ok \in {can, FALSE}, more \in {can /\ r \in Ranged, FALSE} :
            /\ Event((IF ok # can THEN 1 ELSE 0)
                     + (IF more # (can /\ r \in Ranged) THEN 1 ELSE 0))
            /\ load' = [load EXCEPT ![l].todo = @ \ {r}, ![l].got =
                 [val   |-> [@.val EXCEPT ![r] = IF ok THEN Answer(c, r) ELSE Fail],
                  range |-> IF more THEN [@.range EXCEPT ![r] = Options(c, r)]
                            ELSE @.range]]
  /\ UNCHANGED <<table, online, device, panel, job>>

\* What the widgets hold after each Populate function: a value they cannot
\* take is replaced by one they can, the spin boxes have one decimal (MakeDouble)
\* and an overlay is shown as enabled whenever there is one.
Altered(p, v) == \E c \in Cameras : v = c /\ p \in Inexact[c]
AsShown(p, v) == IF Altered(p, v) THEN Near ELSE v
PopulateStream(got) ==
  IF got.val["stream"] \in got.range["stream"] THEN AsShown("stream", got.val["stream"])
  ELSE Blank
PopulateImage(got) ==
  IF got.val["image"] \in got.range["image"] THEN AsShown("image", got.val["image"])
  ELSE Blank
\* A slip: the hostname read is not shown.
PopulateNetworkBlank(got) ==
  [net |-> AsShown("net", got.val["net"]), host |-> Blank, ntp |-> Blank]
PopulateNetwork(got) ==
  [net |-> AsShown("net", got.val["net"]), ntp |-> Blank,
   host |-> IF got.val["host"] = Fail THEN Blank ELSE AsShown("host", got.val["host"])]
PopulateOsd(got) == AsShown("osd", got.val["osd"])

\* The part whose answer says whether part p is shown.
Shows(p) == IF p \in {"host", "ntp"} THEN "net" ELSE p

Widgets(got) ==
  [p \in Parts |->
     IF got.val[Shows(p)] = Fail THEN Fail
     ELSE CASE p = "stream" -> PopulateStream(got)
            [] p = "image"  -> PopulateImage(got)
            [] p = "osd"    -> PopulateOsd(got)
            [] OTHER        -> PopulateNetwork(got)[p]]

\* "lossy" (history): the parts that cannot be shown as they were read.
Populated(c, got) ==
  [of |-> c, val |-> Widgets(got),
   token |-> got.val["osd"] \notin {Fail, Off},
   edited |-> {},
   lossy |-> {p \in Ranged : got.val[p] \notin got.range[p]} \cup
             {p \in Reads : Altered(p, got.val[p])} \cup
             {p \in {"host"} : got.val[p] = Fail}]

\* Populate, on the UI thread, after the last call of the load.
Populate(l) ==
  /\ load[l].on /\ load[l].todo = {}
  /\ load' = [load EXCEPT ![l] = Idle]
  /\ LET got == load[l].got
         any == \E p \in {"stream", "image", "net", "osd"} : got.val[p] # Fail
     IN IF load[l].fresh
        THEN /\ applyOn' = any
             /\ status' = (IF any THEN "none" ELSE "unsupported")
             /\ form' = (IF any THEN Populated(load[l].cam, got)
                         ELSE [form EXCEPT !.val = NoForm.val])
        ELSE UNCHANGED <<applyOn, status, form>>
  /\ UNCHANGED <<table, online, device, rows, sel, silent, job, events>>

(***************************************************************************)
(* The user: the selector, the widgets, the button, another tab.           *)
(***************************************************************************)
Select(c) ==
  /\ c \in ToSet(rows) \ {sel}
  /\ sel' = c
  /\ LoadCurrent(c, load)
  /\ UNCHANGED <<table, online, device, rows, form, job, events>>

Edit(p, v) ==
  /\ p \in EditParts /\ form.val[p] \notin {Fail, v}
  /\ v = Typed \/ (p = "osd" /\ v = Off)
  /\ form' = [form EXCEPT !.val[p] = v, !.edited = @ \cup {p}]
  /\ UNCHANGED <<table, online, device, rows, sel, silent, applyOn, status,
                 load, job, events>>

\* PopulateCameraCombo: the entries are the table's; when the selected camera
\* is not among them any more, the first one is current, without a signal.
TabChange ==
  LET now == IF sel \in ToSet(table) THEN sel
             ELSE IF table = <<>> THEN None ELSE Head(table)
  IN /\ rows # table
     /\ rows' = table /\ sel' = now /\ silent' = (silent \/ now # sel)
     /\ UNCHANGED <<table, online, device, form, applyOn, status, load, job, events>>

Shown(f)     == {p \in Parts : f.val[p] # Fail}
OfCamera(c)  == {j \in Jobs : job[j].on /\ job[j].cam = c}

\* The job has what the form shows; "shared" (history) says whether another
\* job of that camera was at work at the same time.
ApplyChanges ==
  /\ applyOn /\ sel # None
  /\ Event(1)
  /\ applyOn' = FALSE /\ status' = "applying" /\ form' = [form EXCEPT !.edited = {}]
  /\ \E j \in Free(job) :
       job' = [[k \in Jobs |-> IF k \in OfCamera(sel)
                               THEN [job[k] EXCEPT !.shared = TRUE] ELSE job[k]]
               EXCEPT ![j] =
                 [on |-> TRUE, cam |-> sel, form |-> form, silent |-> silent,
                  todo |-> Answered(sel, Shown(form)),
                  shared |-> OfCamera(sel) # {}]]
  /\ UNCHANGED <<table, online, device, rows, sel, silent, load>>

(***************************************************************************)
(* Applying                                                                *)
(***************************************************************************)
\* What the call for a part sets, and to what.  The encoder is always the one of
\* the camera's own profile, whichever the form was read from; interface and
\* overlay are those of the form, and a camera may refuse another one's tokens.
SetVideoEncoderConfiguration(f)  == [stream |-> f.val["stream"], quality |-> Fixed]
SetVideoEncoderConfiguration2(f) == [stream |-> f.val["stream"], quality |-> Fixed]
SetEncoderConfig(c, f) ==
  IF c \in Media2 THEN SetVideoEncoderConfiguration2(f) ELSE SetVideoEncoderConfiguration(f)
SetImagingSettings(f)  == [image |-> f.val["image"]]
SetNetworkInterface(f) == [net |-> f.val["net"], ipv4 |-> Fixed]
SetHostname(f)         == [host |-> f.val["host"]]
SetNTP(f)              == [ntp |-> f.val["ntp"]]
SetOSD(f)              == [osd |-> f.val["osd"], place |-> Fixed]
DeleteOSD              == [osd |-> Off]

Setting(c, p, f) ==
  CASE p = "stream" -> SetEncoderConfig(c, f)
    [] p = "image"  -> SetImagingSettings(f)
    [] p = "net"    -> SetNetworkInterface(f)
    [] p = "host"   -> SetHostname(f)
    [] p = "ntp"    -> SetNTP(f)
    [] p = "osd"    -> IF f.val[p] = Off THEN DeleteOSD ELSE SetOSD(f)

\* The camera's settings with those of a call in their place.
With(old, new) == [p \in DOMAIN old |-> IF p \in DOMAIN new THEN new[p] ELSE old[p]]

\* ADeleteOSD refuses an empty token, a camera the token of no overlay.
Deletable(c, f) == f.token /\ device[c]["osd"] # Off
CanSet(c, p, f) ==
  Reached(c) /\ ((p = "osd" /\ f.val[p] = Off) => Deletable(c, f))

\* One call of the job; the next follows whatever this one returned.  A call
\* may fail although the camera has carried it out.
JobStep(j) ==
  /\ job[j].on
  /\ \E p \in Foremost(WriteOrder, job[j].todo) :
       LET c == job[j].cam  f == job[j].form
           can     == CanSet(c, p, f)
           refused == f.of # c /\ p \in {"net", "osd"}
       IN \E ok \in {can, FALSE}, done \in {can, FALSE} :
            /\ ok => done
            /\ Event(IF ok = can \/ (refused /\ ~done) THEN 0 ELSE 1)
            /\ device' = (IF done THEN [device EXCEPT ![c] = With(@, Setting(c, p, f))]
                          ELSE device)
            /\ job' = [job EXCEPT ![j].todo = @ \ {p}]
  /\ UNCHANGED <<table, online, panel, load>>

\* A slip: the button is enabled without loading again.
JobDoneKeeps(j) ==
  /\ job[j].on /\ job[j].todo = {}
  /\ job' = [job EXCEPT ![j] = Idle]
  /\ applyOn' = TRUE /\ status' = "none"
  /\ UNCHANGED <<table, online, device, rows, sel, silent, form, load, events>>
\* A slip: nothing happens at the end.
JobDoneQuiet(j) ==
  /\ job[j].on /\ job[j].todo = {}
  /\ job' = [job EXCEPT ![j] = Idle]
  /\ UNCHANGED <<table, online, device, panel, load, events>>
\* The completion on the UI thread enables the button and shows the result;
\* LoadCurrent, which it calls, takes both back at once.
JobDone(j) ==
  /\ job[j].on /\ job[j].todo = {}
  /\ job' = [job EXCEPT ![j] = Idle]
  /\ LoadCurrent(sel, load)
  /\ UNCHANGED <<table, online, device, rows, sel, form, events>>

(***************************************************************************)
(* Discovery and the Cameras tab                                           *)
(***************************************************************************)
Appears(c) ==
  /\ c \notin ToSet(table) /\ table' = Append(table, c)
  /\ UNCHANGED <<online, device, panel, load, job>>

Removed(c) ==
  /\ \E i \in DOMAIN table : table[i] = c /\ table' = RemoveAt(table, i)
  /\ UNCHANGED <<online, device, panel, load, job>>

GoesOffline(c) ==
  /\ online' = (IF c \in online THEN online \ {c} ELSE online \cup {c})
  /\ UNCHANGED <<table, device, panel, load, job>>

User == \/ \E c \in Cameras : Select(c)
        \/ \E p \in EditParts, v \in {Typed, Off} : Edit(p, v)
        \/ TabChange
        \/ ApplyChanges

Table == /\ Event(1)
         /\ \E c \in Cameras : Appears(c) \/ Removed(c) \/ GoesOffline(c)

LoadThread(l) == LoadStep(l) \/ Populate(l)
JobThread(j)  == JobStep(j) \/ JobDone(j)

Next == \/ User
        \/ Table
        \/ \E l \in Loads : LoadThread(l)
        \/ \E j \in Jobs : JobThread(j)

Spec == Init /\ [][Next]_vars

\* Threads run and the UI thread handles what is queued for it; the user and
\* the cameras do as they like.
Fairness == /\ \A l \in Loads : WF_vars(LoadThread(l))
            /\ \A j \in Jobs : WF_vars(JobThread(j))

FairSpec == Spec /\ Fairness

(***************************************************************************)
(* Properties                                                              *)
(***************************************************************************)
\* The button is never enabled on a form that was loaded from another camera
\* than the selected one, however loads, jobs and selections overtake each other
\* (loadGen_), unless the selector has lost its camera in a change of tab.
RightForm == applyOn /\ ~silent => form.of = sel

\* While it is enabled and no job is at work on that camera, the form shows what
\* the camera is set to, in every part that the user has not edited since and
\* that could be read and shown: a load begun before the last write to the
\* camera never decides.
FormCurrent ==
  applyOn /\ ~silent /\ OfCamera(sel) = {} =>
    \A p \in Shown(form) \ (form.edited \cup form.lossy \cup {"ntp"}) :
      form.val[p] = device[sel][p]

\* Apply writes the whole form, but leaves a part that the user has not touched
\* as it was on the camera.  What breaks this: NTP, which is never read and set
\* to "from DHCP"; a part that could not be read, or that its widget does not show
\* exactly (out of its range, rounded to one decimal, a disabled overlay); the
\* settings the form does not show, which the requests overwrite with constants;
\* a selector that changed silently; another job of the camera at the same time.
Overwritten(f) == f.edited \cup f.lossy \cup {"ntp"} \cup Unshown
UntouchedKept ==
  [][\A j \in Jobs : job[j].on /\ JobStep(j) =>
       \A p \in Parts \cup Unshown : device'[job[j].cam][p] # device[job[j].cam][p] =>
         \/ p \in Overwritten(job[j].form)
         \/ job[j].silent
         \/ job[j].shared]_vars

\* Once the user and the table rest, a selected camera is shown with the button
\* enabled, or as unsupported, whatever is in flight and whatever fails (unless
\* its load was never started, the selector having changed silently).
Settles ==
  <>[][~(User \/ Table)]_vars =>
    <>[](sel = None \/ silent \/ applyOn \/ status = "unsupported")

\* The Config tab "loads the current values [...] from the camera, then applies
\* your edits" (docs/USER_GUIDE.md:112-113): what a job writes to a camera was
\* loaded from that camera.
OwnForm == \A j \in Jobs : job[j].on => job[j].form.of = job[j].cam

\* It "applies your edits" (docs/USER_GUIDE.md:113): a job that is alone on its
\* camera, with a form that was loaded from it, changes nothing that the user has
\* not edited.  The code breaks it: the exceptions of UntouchedKept.
OnlyEdits ==
  [][\A j \in Jobs : job[j].on /\ JobStep(j) /\ ~job[j].silent /\ ~job[j].shared =>
       \A p \in Parts \cup Unshown : device'[job[j].cam][p] # device[job[j].cam][p] =>
         p \in job[j].form.edited]_vars
=============================================================================
