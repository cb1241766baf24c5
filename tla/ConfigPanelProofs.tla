-------------------------- MODULE ConfigPanelProofs --------------------------
(***************************************************************************)
(* Theorems about ConfigPanel, for any cameras, services, tables, threads  *)
(* and number of events.                                                   *)
(*                                                                         *)
(* What the form shows is as good as the load that filled it, and what a   *)
(* job writes as good as the form it was given.  So the invariant follows  *)
(* the camera's settings through all three: into a load that is not        *)
(* superseded, into the form while the button is enabled, and into a job   *)
(* that shares its camera with no other.                                   *)
(***************************************************************************)
EXTENDS ConfigPanel, SequenceTheorems, TLAPS

Values == Settings \cup {Fail}
Forms ==
  [of : Cameras \cup {None}, val : [Parts -> Values], token : BOOLEAN,
   edited : SUBSET Parts, lossy : SUBSET Parts]
Gots == [val : [Reads -> Values], range : [Ranged -> SUBSET Settings]]
LoadThreads ==
  {Idle} \cup [on : {TRUE}, cam : Cameras, fresh : BOOLEAN, todo : SUBSET Reads,
               got : Gots]
JobThreads ==
  {Idle} \cup [on : {TRUE}, cam : Cameras, form : Forms, silent : BOOLEAN,
               todo : SUBSET Parts, shared : BOOLEAN]

Types ==
  /\ table \in Seq(Cameras) /\ online \subseteq Cameras
  /\ device \in [Cameras -> [Parts \cup Unshown -> Settings]]
  /\ rows \in Seq(Cameras) /\ sel \in Cameras \cup {None} /\ silent \in BOOLEAN
  /\ form \in Forms /\ applyOn \in BOOLEAN
  /\ status \in {"none", "unsupported", "applying"}
  /\ load \in [Loads -> LoadThreads] /\ job \in [Jobs -> JobThreads]
  /\ events \in 0 .. MaxEvents

\* The parts that must agree with the camera: shown, read as they are, not
\* edited.
Faithful(f) == Shown(f) \ (f.edited \cup f.lossy \cup {"ntp"})

\* The button is never enabled on a form of no camera.
FormOfCamera == applyOn => form.of # None

\* A load that will be shown is of the selected camera, and what it has read is
\* what the camera is set to, unless a job is at work there.
Wanted(l) == load[l].on /\ load[l].fresh /\ ~silent
LoadsRight == \A l \in Loads : Wanted(l) => load[l].cam = sel
LoadsCurrent ==
  \A l \in Loads : Wanted(l) /\ OfCamera(load[l].cam) = {} =>
    \A r \in Reads : load[l].got.val[r] # Fail =>
      load[l].got.val[r] = device[load[l].cam][r]

\* Two jobs of a camera know of each other; a job that is alone writes back what
\* the camera is set to, in the parts it should leave alone.
JobsShare ==
  \A j, k \in Jobs : job[j].on /\ job[k].on /\ job[j].cam = job[k].cam /\ j # k =>
    job[j].shared
JobsFaithful ==
  \A j \in Jobs : job[j].on /\ ~job[j].silent /\ ~job[j].shared =>
    \A p \in Faithful(job[j].form) : job[j].form.val[p] = device[job[j].cam][p]
JobsShown == \A j \in Jobs : job[j].on => job[j].todo \subseteq Shown(job[j].form)

IInv ==
  /\ Types /\ RightForm /\ FormCurrent /\ FormOfCamera /\ LoadsRight /\ LoadsCurrent
  /\ JobsShare /\ JobsFaithful /\ JobsShown

-----------------------------------------------------------------------------
(* The parts, and what is read and shown of them.                          *)

LEMMA PartsAre ==
  /\ Parts = {"stream", "image", "net", "host", "ntp", "osd"}
  /\ Reads = Parts \ {"ntp"} /\ Ranged \subseteq Reads
  /\ Unshown \cap Parts = {}
BY DEF Parts, Reads, Ranged, ToSet, WriteOrder, ReadOrder, Unshown

LEMMA AnswerIs ==
  ASSUME NEW c \in Cameras, NEW r \in Reads
  PROVE  Answer(c, r) = device[c][r]
BY PartsAre DEF Answer, EncoderConfig, GetVideoEncoderConfigurations,
  GetVideoEncoderConfigurations2, GetImagingSettings, GetNetworkInterfaces,
  GetHostname, GetOSDs

LEMMA OptionsAre ==
  ASSUME NEW c \in Cameras, NEW r \in Ranged
  PROVE  Options(c, r) \subseteq Settings
BY DEF Options, AGetEncoderOptions, EncoderOptions, GetImagingOptions,
  GetVideoEncoderConfigurationOptions, GetVideoEncoderConfigurationOptions2

\* A call sets its part to what the form holds, and beside it only what the form
\* does not show.
LEMMA SettingIs ==
  ASSUME NEW c \in Cameras, NEW p \in Parts, NEW f
  PROVE  /\ p \in DOMAIN Setting(c, p, f) /\ Setting(c, p, f)[p] = f.val[p]
         /\ \A q \in DOMAIN Setting(c, p, f) \ {p} :
              q \in Unshown /\ Setting(c, p, f)[q] = Fixed
<1>1. CASE p = "stream"
  <2>1. Setting(c, p, f) = [stream |-> f.val["stream"], quality |-> Fixed]
    BY <1>1 DEF Setting, SetEncoderConfig, SetVideoEncoderConfiguration,
                SetVideoEncoderConfiguration2
  <2> QED BY <1>1, <2>1 DEF Unshown
<1>2. CASE p = "net"
  <2>1. Setting(c, p, f) = [net |-> f.val["net"], ipv4 |-> Fixed]
    BY <1>2 DEF Setting, SetNetworkInterface
  <2> QED BY <1>2, <2>1 DEF Unshown
<1>3. CASE p = "osd" /\ f.val["osd"] # Off
  <2>1. Setting(c, p, f) = [osd |-> f.val["osd"], place |-> Fixed]
    BY <1>3 DEF Setting, SetOSD
  <2> QED BY <1>3, <2>1 DEF Unshown
<1>4. CASE p = "osd" /\ f.val["osd"] = Off
  <2>1. Setting(c, p, f) = [osd |-> Off]
    BY <1>4 DEF Setting, DeleteOSD
  <2> QED BY <1>4, <2>1
<1>5. CASE p = "image"
  <2>1. Setting(c, p, f) = [image |-> f.val["image"]]
    BY <1>5 DEF Setting, SetImagingSettings
  <2> QED BY <1>5, <2>1
<1>6. CASE p = "host"
  <2>1. Setting(c, p, f) = [host |-> f.val["host"]]
    BY <1>6 DEF Setting, SetHostname
  <2> QED BY <1>6, <2>1
<1>7. CASE p = "ntp"
  <2>1. Setting(c, p, f) = [ntp |-> f.val["ntp"]]
    BY <1>7 DEF Setting, SetNTP
  <2> QED BY <1>7, <2>1
<1> QED BY <1>1, <1>2, <1>3, <1>4, <1>5, <1>6, <1>7, PartsAre

LEMMA AsShownIs ==
  ASSUME NEW p, NEW v \in Values
  PROVE  AsShown(p, v) \in Values /\ (~Altered(p, v) => AsShown(p, v) = v)
BY DEF AsShown, Values, Settings

\* A part that is shown and not lossy is shown as it was read.
LEMMA WidgetsAre ==
  ASSUME NEW c \in Cameras, NEW got \in Gots
  PROVE  /\ Populated(c, got) \in Forms
         /\ Populated(c, got).of = c
         /\ \A p \in Faithful(Populated(c, got)) :
              /\ p \in Reads /\ got.val[p] # Fail
              /\ Populated(c, got).val[p] = got.val[p]
<1>1. \A r \in Reads : got.val[r] \in Values
  BY DEF Gots
<1>2. ASSUME NEW p \in Parts
      PROVE  /\ Widgets(got)[p] \in Values
             /\ Widgets(got)[p] # Fail /\ p # "ntp" =>
                  \/ got.val[p] # Fail /\ Widgets(got)[p] = got.val[p]
                  \/ p \in Populated(c, got).lossy
  <2>1. CASE p = "stream"
    <3>1. got.val["stream"] \in Values
      BY <1>1, <2>1, PartsAre
    <3> QED BY <2>1, <3>1, AsShownIs, PartsAre
            DEF Widgets, Shows, PopulateStream, Values, Settings, Populated, Ranged
  <2>2. CASE p = "image"
    <3>1. got.val["image"] \in Values
      BY <1>1, <2>2, PartsAre
    <3> QED BY <2>2, <3>1, AsShownIs, PartsAre
            DEF Widgets, Shows, PopulateImage, Values, Settings, Populated, Ranged
  <2>3. CASE p = "osd"
    <3>1. got.val["osd"] \in Values
      BY <1>1, <2>3, PartsAre
    <3> QED BY <2>3, <3>1, AsShownIs, PartsAre
            DEF Widgets, Shows, PopulateOsd, Values, Populated
  <2>4. CASE p \in {"net", "ntp", "host"}
    <3>1. got.val["net"] \in Values /\ got.val["host"] \in Values
      BY <1>1, PartsAre
    <3> QED BY <2>4, <3>1, AsShownIs, PartsAre
            DEF Widgets, Shows, PopulateNetwork, Values, Settings, Populated
  <2> QED BY <2>1, <2>2, <2>3, <2>4, PartsAre
<1>3. Populated(c, got) \in Forms
  <2>1. Widgets(got) \in [Parts -> Values]
    BY <1>2 DEF Widgets
  <2>2. (got.val["osd"] \notin {Fail, Off}) \in BOOLEAN
    OBVIOUS
  <2>3. {p \in Ranged : got.val[p] \notin got.range[p]} \cup
          {p \in Reads : Altered(p, got.val[p])} \cup
          {p \in {"host"} : got.val[p] = Fail} \subseteq Parts
    BY PartsAre
  <2> QED BY <2>1, <2>2, <2>3 DEF Populated, Forms
<1> QED BY <1>2, <1>3, PartsAre DEF Populated, Faithful, Shown

-----------------------------------------------------------------------------
(* What the invariant speaks of, and the steps that leave it alone.        *)

LEMMA NoneIsNoCamera ==
  None \notin Cameras
BY PanelAssumption DEF PanelAssumption

\* A thread that is at work has all its fields.
LEMMA Loading ==
  ASSUME Types, NEW l \in Loads, load[l].on
  PROVE  /\ load[l] \in [on : {TRUE}, cam : Cameras, fresh : BOOLEAN,
                         todo : SUBSET Reads, got : Gots]
         /\ load[l].got \in Gots
<1>1. load[l] \in LoadThreads /\ load[l] # Idle
  BY DEF Types, Idle
<1> QED BY <1>1 DEF LoadThreads

LEMMA Working ==
  ASSUME Types, NEW j \in Jobs, job[j].on
  PROVE  /\ job[j] \in [on : {TRUE}, cam : Cameras, form : Forms, silent : BOOLEAN,
                        todo : SUBSET Parts, shared : BOOLEAN]
         /\ job[j].form \in Forms
<1>1. job[j] \in JobThreads /\ job[j] # Idle
  BY DEF Types, Idle
<1> QED BY <1>1 DEF JobThreads

LEMMA NothingIs ==
  Nothing \in Gots /\ \A r \in Reads : Nothing.val[r] = Fail
BY DEF Nothing, Gots, Values

\* The rows and the table change without the rest.
LEMMA Aside ==
  ASSUME IInv, Types',
         UNCHANGED <<device, sel, silent, form, applyOn, load, job>>
  PROVE  IInv'
BY DEF IInv, RightForm, FormCurrent, FormOfCamera, LoadsRight, LoadsCurrent, Wanted, JobsShare,
       JobsFaithful, JobsShown, OfCamera, Shown, Faithful

LEMMA JobsAside ==
  ASSUME JobsShare, JobsFaithful, JobsShown, UNCHANGED <<device, job>>
  PROVE  JobsShare' /\ JobsFaithful' /\ JobsShown'
BY DEF JobsShare, JobsFaithful, JobsShown, Shown, Faithful

LEMMA LoadsAside ==
  ASSUME LoadsRight, LoadsCurrent, UNCHANGED <<device, load, job, sel, silent>>
  PROVE  LoadsRight' /\ LoadsCurrent'
BY DEF LoadsRight, LoadsCurrent, Wanted, OfCamera

\* LoadCurrent leaves one load that is not superseded, of the camera selected
\* now, which has read nothing.
LEMMA LoadCurrentIs ==
  ASSUME Types, NEW c \in Cameras \cup {None}, LoadCurrent(c, load)
  PROVE  /\ applyOn' = FALSE /\ status' = "none" /\ silent' \in BOOLEAN
         /\ load' \in [Loads -> LoadThreads]
         /\ c = None => UNCHANGED <<load, silent>>
         /\ c # None =>
              /\ ~silent'
              /\ \A l \in Loads : load'[l].on /\ load'[l].fresh =>
                   /\ load'[l].cam = c
                   /\ \A r \in Reads : load'[l].got.val[r] = Fail
<1>1. CASE c = None
  BY <1>1 DEF LoadCurrent, Types
<1>2. CASE c # None
  <2> DEFINE new == [on |-> TRUE, cam |-> c, fresh |-> TRUE,
                     todo |-> Answered(c, Reads), got |-> Nothing]
  <2>1. PICK l \in Free(load) :
          load' = [[k \in Loads |-> Superseded(load[k])] EXCEPT ![l] = new]
    BY <1>2 DEF LoadCurrent
  <2>2. l \in Loads
    BY DEF Free, Types
  <2>3. new \in LoadThreads
    BY <1>2, NothingIs DEF LoadThreads, Answered
  <2>4. ASSUME NEW k \in Loads
        PROVE  /\ Superseded(load[k]) \in LoadThreads
               /\ ~(Superseded(load[k]).on /\ Superseded(load[k]).fresh)
    <3>1. CASE load[k] = Idle
      BY <3>1 DEF Idle, Superseded, LoadThreads
    <3>2. CASE load[k] # Idle
      <4>1. load[k] \in [on : {TRUE}, cam : Cameras, fresh : BOOLEAN,
                         todo : SUBSET Reads, got : Gots]
        BY <3>2 DEF Types, LoadThreads
      <4> QED BY <4>1, NothingIs DEF Superseded, LoadThreads
    <3> QED BY <3>1, <3>2
  <2>5. load'[l] = new /\ \A k \in Loads \ {l} : load'[k] = Superseded(load[k])
    BY <2>1, <2>2
  <2>6. load' \in [Loads -> LoadThreads]
    BY <2>1, <2>2, <2>3, <2>4
  <2>7. \A k \in Loads : load'[k].on /\ load'[k].fresh =>
          /\ load'[k].cam = c
          /\ \A r \in Reads : load'[k].got.val[r] = Fail
    <3>1. new.cam = c /\ new.got = Nothing
      OBVIOUS
    <3> HIDE DEF new
    <3> QED BY <2>4, <2>5, <3>1, NothingIs
  <2> QED BY <1>2, <2>6, <2>7 DEF LoadCurrent
<1> QED BY <1>1, <1>2

-----------------------------------------------------------------------------
(* Loading.                                                                *)

LEMMA LoadStepInv ==
  ASSUME IInv, NEW l \in Loads, LoadStep(l)
  PROVE  IInv'
<1> USE DEF panel
<1>1. PICK r \in Foremost(ReadOrder, load[l].todo), ok \in BOOLEAN,
           more \in BOOLEAN :
        /\ more => r \in Ranged
        /\ events' \in 0 .. MaxEvents
        /\ load' = [load EXCEPT ![l].todo = @ \ {r}, ![l].got =
               [val   |-> [@.val EXCEPT ![r] = IF ok THEN Answer(load[l].cam, r) ELSE Fail],
                range |-> IF more THEN [@.range EXCEPT ![r] = Options(load[l].cam, r)]
                          ELSE @.range]]
  <2> DEFINE can == Reached(load[l].cam)
  <2>1. PICK r \in Foremost(ReadOrder, load[l].todo) :
          \E ok \in {can, FALSE}, more \in {can /\ r \in Ranged, FALSE} :
            /\ Event((IF ok # can THEN 1 ELSE 0)
                     + (IF more # (can /\ r \in Ranged) THEN 1 ELSE 0))
            /\ load' = [load EXCEPT ![l].todo = @ \ {r}, ![l].got =
               [val   |-> [@.val EXCEPT ![r] = IF ok THEN Answer(load[l].cam, r) ELSE Fail],
                range |-> IF more THEN [@.range EXCEPT ![r] = Options(load[l].cam, r)]
                          ELSE @.range]]
    BY DEF LoadStep
  <2>2. PICK ok \in {can, FALSE}, more \in {can /\ r \in Ranged, FALSE} :
          /\ Event((IF ok # can THEN 1 ELSE 0)
                   + (IF more # (can /\ r \in Ranged) THEN 1 ELSE 0))
          /\ load' = [load EXCEPT ![l].todo = @ \ {r}, ![l].got =
               [val   |-> [@.val EXCEPT ![r] = IF ok THEN Answer(load[l].cam, r) ELSE Fail],
                range |-> IF more THEN [@.range EXCEPT ![r] = Options(load[l].cam, r)]
                          ELSE @.range]]
    BY <2>1
  <2>3. events' \in 0 .. MaxEvents
    <3> DEFINE x == IF ok # can THEN 1 ELSE 0
               y == IF more # (can /\ r \in Ranged) THEN 1 ELSE 0
    <3>1. x \in 0 .. 1 /\ y \in 0 .. 1 /\ Event(x + y)
      BY <2>2
    <3> HIDE DEF x, y
    <3> QED BY <3>1, PanelAssumption DEF Event, IInv, Types, PanelAssumption
  <2>4. can \in BOOLEAN
    BY DEF Reached
  <2> HIDE DEF can
  <2>5. ok \in BOOLEAN /\ more \in BOOLEAN /\ (more => r \in Ranged)
    BY <2>2, <2>4
  <2> QED BY <2>2, <2>3, <2>5
<1>2. /\ load[l] \in [on : {TRUE}, cam : Cameras, fresh : BOOLEAN,
                      todo : SUBSET Reads, got : Gots]
      /\ load[l].got \in Gots
  BY Loading DEF IInv, LoadStep
<1>3. r \in Reads
  BY <1>2 DEF Foremost
<1> DEFINE c == load[l].cam
           val == [load[l].got.val EXCEPT ![r] = IF ok THEN device[c][r] ELSE Fail]
           range == IF more THEN [load[l].got.range EXCEPT ![r] = Options(c, r)]
                    ELSE load[l].got.range
           got == [val |-> val, range |-> range]
           new == [load[l] EXCEPT !.todo = load[l].todo \ {r}, !.got = got]
<1>4. c \in Cameras /\ Answer(c, r) = device[c][r]
  BY <1>2, <1>3, AnswerIs
<1>5. load' = [load EXCEPT ![l] = new]
  <2>1. load' = [load EXCEPT ![l].todo = load[l].todo \ {r},
                             ![l].got = got]
    BY <1>1, <1>4
  <2> HIDE DEF got
  <2>2. load \in [Loads -> LoadThreads]
    BY DEF IInv, Types
  <2> QED BY <2>1, <2>2
<1>6. val \in [Reads -> Values]
  BY <1>2, <1>3, <1>4, PartsAre DEF Gots, IInv, Types, Values
<1>7. range \in [Ranged -> SUBSET Settings]
  BY <1>1, <1>2, <1>4, OptionsAre DEF Gots
<1>8. new \in LoadThreads
  <2>1. got \in Gots
    BY <1>6, <1>7 DEF Gots
  <2> HIDE DEF got
  <2> QED BY <1>2, <2>1 DEF LoadThreads
<1>9. Types'
  <2>1. load' \in [Loads -> LoadThreads] /\ events' \in 0 .. MaxEvents
    <3> HIDE DEF new
    <3> QED BY <1>1, <1>5, <1>8 DEF IInv, Types
  <2> QED BY <2>1 DEF IInv, Types, LoadStep
<1>10. UNCHANGED <<device, job, sel, silent, form, applyOn>>
  BY DEF LoadStep
<1>11. /\ load'[l].on /\ load'[l].fresh = load[l].fresh /\ load'[l].cam = c
       /\ load'[l].got.val = val
       /\ \A k \in Loads \ {l} : load'[k] = load[k]
  <2>1. /\ new.on /\ new.fresh = load[l].fresh /\ new.cam = c /\ new.got = got
        /\ got.val = val
    <3>1. got.val = val
      OBVIOUS
    <3> HIDE DEF got
    <3> QED BY <1>2, <3>1
  <2> HIDE DEF new, got
  <2> QED BY <1>5, <2>1 DEF IInv, Types
<1>12. LoadsRight'
  BY <1>2, <1>10, <1>11 DEF IInv, LoadsRight, Wanted
<1>13. LoadsCurrent'
  <2>1. \A q \in Reads : val[q] = load[l].got.val[q] \/ val[q] \in {Fail, device[c][q]}
    BY <1>2, <1>3 DEF Gots
  <2> HIDE DEF val
  <2>2. \A k \in Loads : OfCamera(load[k].cam)' = OfCamera(load[k].cam)
    BY <1>10, <1>11 DEF OfCamera
  <2>3. ASSUME NEW k \in Loads, Wanted(k)', OfCamera(load[k].cam)' = {},
               NEW q \in Reads, load'[k].got.val[q] # Fail
        PROVE  load'[k].got.val[q] = device'[load'[k].cam][q]
    <3>1. Wanted(k) /\ OfCamera(load[k].cam) = {}
      BY <1>2, <1>10, <1>11, <2>2, <2>3 DEF Wanted
    <3>2. \A p \in Reads : load[k].got.val[p] # Fail =>
            load[k].got.val[p] = device[load[k].cam][p]
      BY <3>1 DEF IInv, LoadsCurrent
    <3>3. CASE k = l
      BY <1>10, <1>11, <2>1, <2>3, <3>2, <3>3
    <3>4. CASE k # l
      BY <1>10, <1>11, <2>3, <3>2, <3>4
    <3> QED BY <3>3, <3>4
  <2> QED BY <2>3 DEF LoadsCurrent
<1>14. RightForm' /\ FormCurrent' /\ FormOfCamera'
  BY <1>10 DEF IInv, RightForm, FormCurrent, FormOfCamera, OfCamera, Shown
<1> QED BY <1>9, <1>10, <1>12, <1>13, <1>14, JobsAside DEF IInv

LEMMA PopulateInv ==
  ASSUME IInv, NEW l \in Loads, Populate(l)
  PROVE  IInv'
<1> DEFINE got == load[l].got  c == load[l].cam
           any == \E p \in {"stream", "image", "net", "osd"} : got.val[p] # Fail
<1>1. c \in Cameras /\ got \in Gots
  BY Loading DEF IInv, Populate
<1>2. load' = [load EXCEPT ![l] = Idle]
      /\ UNCHANGED <<table, online, device, rows, sel, silent, job, events>>
  BY DEF Populate
<1>3. load' \in [Loads -> LoadThreads]
  BY <1>2 DEF IInv, Types, LoadThreads
<1>4. LoadsRight' /\ LoadsCurrent'
  <2>1. \A k \in Loads : ~load'[k].on \/ load'[k] = load[k]
    BY <1>2 DEF IInv, Types, Idle
  <2> QED BY <1>2, <2>1 DEF IInv, LoadsRight, LoadsCurrent, Wanted, OfCamera
<1>5. CASE load[l].fresh /\ any
  <2>1. applyOn' = any /\ status' = "none" /\ form' = Populated(c, got)
    BY <1>5 DEF Populate
  <2>2. Types'
    BY <1>1, <1>2, <1>3, <1>5, <2>1, WidgetsAre DEF IInv, Types
  <2>3. RightForm' /\ FormCurrent'
    <3>1. ASSUME ~silent
          PROVE  /\ form'.of = sel
                 /\ OfCamera(sel) = {} =>
                      \A p \in Faithful(form') : form'.val[p] = device[sel][p]
      <4>1. Wanted(l)
        BY <1>5, <3>1 DEF Wanted, Populate
      <4>2. c = sel
        BY <4>1 DEF IInv, LoadsRight
      <4> QED BY <1>1, <2>1, <4>1, <4>2, WidgetsAre DEF IInv, LoadsCurrent
    <3>2. OfCamera(sel)' = OfCamera(sel)
      BY <1>2 DEF OfCamera
    <3> QED BY <1>2, <3>1, <3>2 DEF RightForm, FormCurrent, Faithful, Shown
  <2>4. FormOfCamera'
    BY <1>1, <2>1, WidgetsAre, NoneIsNoCamera DEF FormOfCamera
  <2> QED BY <1>2, <1>4, <2>2, <2>3, <2>4, JobsAside DEF IInv
<1>6. CASE load[l].fresh /\ ~any
  <2>1. ~applyOn' /\ status' = "unsupported"
        /\ form' = [form EXCEPT !.val = NoForm.val]
    BY <1>6 DEF Populate
  <2>2. applyOn' \in BOOLEAN
    BY <1>6 DEF Populate
  <2>3. NoForm.val \in [Parts -> Values]
    BY DEF NoForm, Values
  <2>4. Types'
    BY <1>2, <1>3, <2>1, <2>2, <2>3 DEF IInv, Types, Forms
  <2> QED BY <1>2, <1>4, <2>1, <2>4, JobsAside
         DEF IInv, RightForm, FormCurrent, FormOfCamera
<1>7. CASE ~load[l].fresh
  <2>1. UNCHANGED <<applyOn, status, form>>
    BY <1>7 DEF Populate
  <2>2. Types'
    BY <1>2, <1>3, <2>1 DEF IInv, Types
  <2>3. RightForm' /\ FormCurrent' /\ FormOfCamera'
    BY <1>2, <2>1 DEF IInv, RightForm, FormCurrent, FormOfCamera, OfCamera, Shown
  <2> QED BY <1>2, <1>4, <2>2, <2>3, JobsAside DEF IInv
<1> QED BY <1>5, <1>6, <1>7

-----------------------------------------------------------------------------
(* The user.                                                               *)

LEMMA SelectInv ==
  ASSUME IInv, NEW c \in Cameras, Select(c)
  PROVE  IInv'
<1>1. /\ sel' = c /\ c # None /\ LoadCurrent(c, load)
      /\ UNCHANGED <<table, online, device, rows, form, job, events>>
  BY NoneIsNoCamera DEF Select
<1>2. /\ applyOn' = FALSE /\ status' = "none" /\ ~silent' /\ silent' \in BOOLEAN
      /\ load' \in [Loads -> LoadThreads]
      /\ \A l \in Loads : load'[l].on /\ load'[l].fresh =>
           load'[l].cam = c /\ \A r \in Reads : load'[l].got.val[r] = Fail
  <2>1. Types /\ c \in Cameras \cup {None}
    BY DEF IInv
  <2> QED BY <1>1, <2>1, LoadCurrentIs
<1>3. Types'
  BY <1>1, <1>2 DEF IInv, Types
<1>4. LoadsRight' /\ LoadsCurrent'
  BY <1>1, <1>2 DEF LoadsRight, LoadsCurrent, Wanted
<1> QED BY <1>1, <1>2, <1>3, <1>4, JobsAside
         DEF IInv, RightForm, FormCurrent, FormOfCamera

LEMMA EditInv ==
  ASSUME IInv, NEW p \in EditParts, NEW v \in {Typed, Off}, Edit(p, v)
  PROVE  IInv'
<1>1. /\ form' = [form EXCEPT !.val[p] = v, !.edited = @ \cup {p}]
      /\ UNCHANGED <<table, online, device, rows, sel, silent, applyOn, status,
                     load, job, events>>
  BY DEF Edit
<1>2. form \in Forms /\ form.val \in [Parts -> Values] /\ form.edited \subseteq Parts
  BY DEF IInv, Types, Forms
<1>3. p \in Parts /\ v \in Values
  BY PanelAssumption DEF PanelAssumption, Values, Settings
<1>4. /\ form'.of = form.of /\ form'.lossy = form.lossy
      /\ form'.edited = form.edited \cup {p}
      /\ form'.val = [form.val EXCEPT ![p] = v]
  BY <1>1, <1>2 DEF Forms
<1>5. form' \in Forms
  <2> DEFINE val == [form.val EXCEPT ![p] = v]  edited == form.edited \cup {p}
  <2>1. val \in [Parts -> Values] /\ edited \subseteq Parts
    BY <1>2, <1>3
  <2>2. form' = [form EXCEPT !.val = val, !.edited = edited]
    BY <1>1
  <2> HIDE DEF val, edited
  <2> QED BY <1>2, <2>1, <2>2 DEF Forms
<1>6. Types'
  BY <1>1, <1>5 DEF IInv, Types
<1>7. RightForm' /\ FormCurrent'
  <2>1. \A q \in Faithful(form') : q \in Faithful(form) /\ form'.val[q] = form.val[q]
    BY <1>2, <1>3, <1>4 DEF Faithful, Shown
  <2>2. OfCamera(sel)' = OfCamera(sel)
    BY <1>1 DEF OfCamera
  <2> QED BY <1>1, <1>4, <2>1, <2>2
          DEF IInv, RightForm, FormCurrent, Faithful, Shown
<1>8. FormOfCamera'
  BY <1>1, <1>4 DEF IInv, FormOfCamera
<1> QED BY <1>1, <1>6, <1>7, <1>8, LoadsAside, JobsAside DEF IInv

LEMMA TabChangeInv ==
  ASSUME IInv, TabChange
  PROVE  IInv'
<1> DEFINE now == IF sel \in ToSet(table) THEN sel
                  ELSE IF table = <<>> THEN None ELSE Head(table)
<1>1. /\ rows' = table /\ sel' = now /\ silent' = (silent \/ now # sel)
      /\ UNCHANGED <<table, online, device, form, applyOn, status, load, job, events>>
  BY DEF TabChange
<1>2. now \in Cameras \cup {None}
  BY DEF IInv, Types, ToSet
<1> HIDE DEF now
<1>3. Types'
  BY <1>1, <1>2 DEF IInv, Types
<1>4. CASE now = sel
  <2>1. UNCHANGED silent
    BY <1>1, <1>4 DEF IInv, Types
  <2> QED BY <1>1, <1>3, <1>4, <2>1, Aside
<1>5. CASE now # sel
  <2>1. silent'
    BY <1>1, <1>5
  <2> QED BY <1>1, <1>3, <2>1, JobsAside
          DEF IInv, RightForm, FormCurrent, FormOfCamera, LoadsRight, LoadsCurrent, Wanted
<1> QED BY <1>4, <1>5

\* A job is given the form as it is; jobs of the same camera are shared.
LEMMA ApplyChangesInv ==
  ASSUME IInv, ApplyChanges
  PROVE  IInv'
<1> DEFINE new == [on |-> TRUE, cam |-> sel, form |-> form, silent |-> silent,
                   todo |-> Answered(sel, Shown(form)),
                   shared |-> OfCamera(sel) # {}]
           others == [k \in Jobs |-> IF k \in OfCamera(sel)
                                     THEN [job[k] EXCEPT !.shared = TRUE] ELSE job[k]]
<1>1. PICK j \in Free(job) : job' = [others EXCEPT ![j] = new]
  BY DEF ApplyChanges
<1>2. /\ applyOn /\ applyOn' = FALSE /\ status' = "applying"
      /\ form' = [form EXCEPT !.edited = {}] /\ events' \in 0 .. MaxEvents
      /\ sel \in Cameras
      /\ UNCHANGED <<table, online, device, rows, sel, silent, load>>
  BY PanelAssumption DEF ApplyChanges, Event, IInv, Types, PanelAssumption
<1>3. j \in Jobs /\ ~job[j].on
  BY DEF Free, IInv, Types
<1>4. new \in JobThreads
  <2>1. form \in Forms /\ silent \in BOOLEAN /\ Answered(sel, Shown(form)) \subseteq Parts
        /\ (OfCamera(sel) # {}) \in BOOLEAN
    BY DEF IInv, Types, Answered, Shown
  <2> QED BY <1>2, <2>1 DEF JobThreads
<1>5. ASSUME NEW k \in Jobs
      PROVE  /\ others[k] \in JobThreads /\ others[k].on = job[k].on
             /\ job[k].on =>
                  /\ others[k].cam = job[k].cam /\ others[k].form = job[k].form
                  /\ others[k].silent = job[k].silent /\ others[k].todo = job[k].todo
                  /\ job[k].shared => others[k].shared
                  /\ job[k].cam = sel => others[k].shared
  <2>1. CASE k \in OfCamera(sel)
    <3>1. job[k] \in [on : {TRUE}, cam : Cameras, form : Forms, silent : BOOLEAN,
                      todo : SUBSET Parts, shared : BOOLEAN]
      BY <2>1, Working DEF OfCamera, IInv
    <3>2. others[k] = [job[k] EXCEPT !.shared = TRUE]
      BY <2>1
    <3> HIDE DEF others
    <3> QED BY <3>1, <3>2 DEF JobThreads
  <2>2. CASE k \notin OfCamera(sel)
    BY <2>2 DEF OfCamera, IInv, Types
  <2> QED BY <2>1, <2>2
<1>6. /\ job'[j] = new /\ \A k \in Jobs \ {j} : job'[k] = others[k]
      /\ job' \in [Jobs -> JobThreads]
  <2>1. others \in [Jobs -> JobThreads]
    BY <1>5
  <2> HIDE DEF new, others
  <2> QED BY <1>1, <1>3, <1>4, <2>1
<1>7. /\ new.on /\ new.cam = sel /\ new.form = form /\ new.silent = silent
      /\ new.todo \subseteq Shown(form) /\ (new.shared <=> OfCamera(sel) # {})
  BY DEF Answered
<1> HIDE DEF new, others
<1>8. Types'
  <2>1. form' \in Forms
    BY <1>2 DEF IInv, Types, Forms
  <2> QED BY <1>2, <1>6, <2>1 DEF IInv, Types
<1>9. LoadsRight' /\ LoadsCurrent'
  <2>1. \A d : OfCamera(d) \subseteq OfCamera(d)'
    BY <1>3, <1>5, <1>6 DEF OfCamera
  <2>2. LoadsRight'
    BY <1>2 DEF IInv, LoadsRight, Wanted
  <2>3. ASSUME NEW l \in Loads, Wanted(l)', OfCamera(load[l].cam)' = {}
        PROVE  Wanted(l) /\ OfCamera(load[l].cam) = {}
    <3>1. OfCamera(load[l].cam) \subseteq OfCamera(load[l].cam)'
      BY <1>2, <1>3, <1>5, <1>6 DEF OfCamera
    <3> QED BY <1>2, <2>3, <3>1 DEF Wanted
  <2> QED BY <1>2, <2>2, <2>3 DEF IInv, LoadsCurrent, OfCamera
<1>10. JobsShare'
  BY <1>3, <1>5, <1>6, <1>7 DEF IInv, JobsShare, OfCamera
<1>11. JobsFaithful'
  <2>1. ASSUME NEW k \in Jobs, job'[k].on, ~job'[k].silent, ~job'[k].shared,
               NEW p \in Faithful(job'[k].form)
        PROVE  job'[k].form.val[p] = device[job'[k].cam][p]
    <3>1. CASE k = j
      BY <1>2, <1>6, <1>7, <2>1, <3>1 DEF IInv, FormCurrent, Faithful
    <3>2. CASE k # j
      BY <1>5, <1>6, <2>1, <3>2 DEF IInv, JobsFaithful
    <3> QED BY <3>1, <3>2
  <2> QED BY <1>2, <2>1 DEF JobsFaithful, Faithful, Shown
<1>12. JobsShown'
  BY <1>5, <1>6, <1>7 DEF IInv, JobsShown, Shown
<1> QED BY <1>2, <1>8, <1>9, <1>10, <1>11, <1>12
        DEF IInv, RightForm, FormCurrent, FormOfCamera

-----------------------------------------------------------------------------
(* Applying.                                                               *)

\* What a job's step writes, and where.
LEMMA JobStepIs ==
  ASSUME IInv, NEW j \in Jobs, JobStep(j)
  PROVE  \E p \in job[j].todo :
           /\ p \in Shown(job[j].form) /\ p \in Parts
           /\ device' \in [Cameras -> [Parts \cup Unshown -> Settings]]
           /\ \A d \in Cameras \ {job[j].cam} : device'[d] = device[d]
           /\ \A q \in Parts \cup Unshown :
                \/ device'[job[j].cam][q] = device[job[j].cam][q]
                \/ q = p /\ device'[job[j].cam][q] = job[j].form.val[p]
                \/ q \in Unshown
           /\ job' = [job EXCEPT ![j].todo = @ \ {p}]
           /\ events' \in 0 .. MaxEvents
<1> DEFINE c == job[j].cam  f == job[j].form
<1>1. /\ c \in Cameras /\ f \in Forms /\ job[j].todo \subseteq Shown(f)
      /\ job[j].todo \subseteq Parts
  BY Working DEF JobStep, IInv, JobsShown
<1>2. PICK p \in job[j].todo :
        /\ \/ device' = device
           \/ device' = [device EXCEPT ![c] = With(@, Setting(c, p, f))]
        /\ job' = [job EXCEPT ![j].todo = @ \ {p}]
        /\ Event(1) \/ Event(0)
  BY DEF JobStep, Foremost
<1>3. f.val[p] # Fail /\ f.val[p] \in Values /\ p \in Parts
  BY <1>1 DEF Shown, Forms
<1>4. events' \in 0 .. MaxEvents
  BY <1>2, PanelAssumption DEF Event, IInv, Types, PanelAssumption
<1>5. device \in [Cameras -> [Parts \cup Unshown -> Settings]]
  BY DEF IInv, Types
<1>6. CASE device' = [device EXCEPT ![c] = With(@, Setting(c, p, f))]
  <2> DEFINE new == Setting(c, p, f)
  <2>1. /\ p \in DOMAIN new /\ new[p] = f.val[p]
        /\ \A q \in DOMAIN new \ {p} : q \in Unshown /\ new[q] = Fixed
    BY <1>1, <1>3, SettingIs
  <2>2. DOMAIN device[c] = Parts \cup Unshown
    BY <1>1, <1>5
  <2> HIDE DEF new
  <2>3. With(device[c], new) =
          [q \in Parts \cup Unshown |-> IF q \in DOMAIN new THEN new[q] ELSE device[c][q]]
    BY <2>2 DEF With
  <2>4. /\ device'[c] = With(device[c], new) /\ \A d \in Cameras \ {c} : device'[d] = device[d]
        /\ device' = [d \in Cameras |-> device'[d]]
    BY <1>1, <1>5, <1>6 DEF new
  <2>5. \A q \in Parts \cup Unshown :
          /\ \/ device'[c][q] = device[c][q]
             \/ q = p /\ device'[c][q] = f.val[p]
             \/ q \in Unshown
          /\ device'[c][q] \in Settings
    <3>1. Fixed \in Settings /\ f.val[p] \in Settings
      BY <1>3 DEF Settings, Values
    <3> QED BY <1>1, <1>5, <2>1, <2>3, <2>4, <3>1
  <2>6. device'[c] \in [Parts \cup Unshown -> Settings]
    BY <2>3, <2>4, <2>5
  <2>7. device' \in [Cameras -> [Parts \cup Unshown -> Settings]]
    BY <1>5, <2>4, <2>6
  <2> QED BY <1>1, <1>2, <1>3, <1>4, <2>4, <2>5, <2>7
<1> QED BY <1>1, <1>2, <1>3, <1>4, <1>5, <1>6

LEMMA JobStepInv ==
  ASSUME IInv, NEW j \in Jobs, JobStep(j)
  PROVE  IInv'
<1> DEFINE c == job[j].cam  f == job[j].form
<1>1. PICK p \in job[j].todo :
        /\ p \in Shown(f) /\ p \in Parts
        /\ device' \in [Cameras -> [Parts \cup Unshown -> Settings]]
        /\ \A d \in Cameras \ {c} : device'[d] = device[d]
        /\ \A q \in Parts \cup Unshown :
             \/ device'[c][q] = device[c][q]
             \/ q = p /\ device'[c][q] = f.val[p]
             \/ q \in Unshown
        /\ job' = [job EXCEPT ![j].todo = @ \ {p}]
        /\ events' \in 0 .. MaxEvents
  BY JobStepIs
<1>2. /\ job[j].on /\ UNCHANGED <<table, online, rows, sel, silent, form, applyOn, status, load>>
  BY DEF JobStep, panel
<1>3. /\ job[j] \in [on : {TRUE}, cam : Cameras, form : Forms, silent : BOOLEAN,
                     todo : SUBSET Parts, shared : BOOLEAN]
      /\ c \in Cameras /\ p \in Parts
  BY <1>1, <1>2, Working DEF IInv
<1>4. /\ job'[j].on /\ job'[j].cam = c /\ job'[j].form = f
      /\ job'[j].silent = job[j].silent /\ job'[j].shared = job[j].shared
      /\ job'[j].todo \subseteq job[j].todo
      /\ \A k \in Jobs \ {j} : job'[k] = job[k]
      /\ job' \in [Jobs -> JobThreads]
  <2> DEFINE new == [job[j] EXCEPT !.todo = job[j].todo \ {p}]
  <2>1. job' = [job EXCEPT ![j] = new]
    BY <1>1
  <2>2. /\ new.on /\ new.cam = c /\ new.form = f
        /\ new.silent = job[j].silent /\ new.shared = job[j].shared
        /\ new.todo \subseteq job[j].todo /\ new \in JobThreads
    BY <1>3 DEF JobThreads
  <2> HIDE DEF new
  <2> QED BY <2>1, <2>2 DEF IInv, Types
<1>5. /\ device' \in [Cameras -> [Parts \cup Unshown -> Settings]]
      /\ \A d \in Cameras \ {c} : device'[d] = device[d]
      /\ \A q \in Parts : device'[c][q] = device[c][q] \/ (q = p /\ device'[c][q] = f.val[p])
  BY <1>1, <1>3, PartsAre
<1>6. Types'
  BY <1>1, <1>2, <1>4, <1>5 DEF IInv, Types
<1>7. \A d : OfCamera(d)' = OfCamera(d)
  BY <1>2, <1>4 DEF OfCamera
<1>8. j \in OfCamera(c)
  BY <1>2 DEF OfCamera
<1>9. RightForm' /\ FormCurrent'
  <2>1. ASSUME applyOn, ~silent, OfCamera(sel)' = {}
        PROVE  device'[sel] = device[sel] /\ OfCamera(sel) = {}
    <3>1. OfCamera(sel) = {} /\ sel # c
      BY <1>2, <1>4, <1>8, <2>1 DEF OfCamera
    <3>2. sel \in Cameras
      BY <2>1 DEF IInv, RightForm, FormOfCamera, Types
    <3> QED BY <1>5, <3>1, <3>2
  <2> QED BY <1>2, <2>1 DEF IInv, RightForm, FormCurrent, Shown, OfCamera
<1>10. LoadsRight' /\ LoadsCurrent'
  <2>1. LoadsRight'
    BY <1>2 DEF IInv, LoadsRight, Wanted
  <2>2. ASSUME NEW l \in Loads, Wanted(l)', OfCamera(load[l].cam)' = {}
        PROVE  /\ Wanted(l) /\ OfCamera(load[l].cam) = {}
               /\ device'[load[l].cam] = device[load[l].cam]
    <3>1. Wanted(l) /\ OfCamera(load[l].cam) = {} /\ load[l].cam # c
      BY <1>2, <1>4, <1>8, <2>2 DEF OfCamera, Wanted
    <3>2. load[l].cam \in Cameras
      BY <3>1, Loading DEF Wanted, IInv
    <3> QED BY <1>5, <3>1, <3>2
  <2> QED BY <1>2, <2>1, <2>2 DEF IInv, LoadsCurrent, OfCamera
<1>11. JobsShare' /\ JobsShown'
  <2>1. JobsShare'
    BY <1>2, <1>4 DEF IInv, JobsShare
  <2> QED BY <1>2, <1>4, <2>1 DEF IInv, JobsShown, Shown
<1>12. JobsFaithful'
  <2>1. ASSUME NEW k \in Jobs, job'[k].on, ~job'[k].silent, ~job'[k].shared,
               NEW q \in Faithful(job'[k].form)
        PROVE  job'[k].form.val[q] = device'[job'[k].cam][q]
    <3>1. CASE k = j
      BY <1>2, <1>4, <1>5, <2>1, <3>1 DEF IInv, JobsFaithful, Faithful, Shown
    <3>2. CASE k # j
      <4>1. job[k].on /\ ~job[k].silent /\ ~job[k].shared /\ job'[k] = job[k]
        BY <1>4, <2>1, <3>2
      <4>2. job[k].cam \in Cameras \ {c}
        BY <1>2, <3>2, <4>1, Working DEF IInv, JobsShare
      <4> QED BY <1>5, <2>1, <4>1, <4>2 DEF IInv, JobsFaithful
    <3> QED BY <3>1, <3>2
  <2> QED BY <2>1 DEF JobsFaithful, Faithful, Shown
<1>13. FormOfCamera'
  BY <1>2 DEF IInv, FormOfCamera
<1> QED BY <1>6, <1>9, <1>10, <1>11, <1>12, <1>13 DEF IInv

LEMMA JobDoneInv ==
  ASSUME IInv, NEW j \in Jobs, JobDone(j)
  PROVE  IInv'
<1>1. /\ job' = [job EXCEPT ![j] = Idle] /\ LoadCurrent(sel, load)
      /\ UNCHANGED <<table, online, device, rows, sel, form, events>>
  BY DEF JobDone
<1>2. /\ applyOn' = FALSE /\ status' = "none" /\ silent' \in BOOLEAN
      /\ load' \in [Loads -> LoadThreads]
      /\ sel = None => UNCHANGED <<load, silent>>
      /\ sel # None =>
           \A l \in Loads : load'[l].on /\ load'[l].fresh =>
             load'[l].cam = sel /\ \A r \in Reads : load'[l].got.val[r] = Fail
  <2>1. Types /\ sel \in Cameras \cup {None}
    BY DEF IInv, Types
  <2> QED BY <1>1, <2>1, LoadCurrentIs
<1>3. /\ job' \in [Jobs -> JobThreads]
      /\ \A k \in Jobs : job'[k].on => job'[k] = job[k]
  BY <1>1 DEF IInv, Types, JobThreads, Idle
<1>4. Types'
  BY <1>1, <1>2, <1>3 DEF IInv, Types
<1>5. LoadsRight' /\ LoadsCurrent'
  <2>1. CASE sel # None
    BY <1>1, <1>2, <2>1 DEF LoadsRight, LoadsCurrent, Wanted
  <2>2. CASE sel = None
    <3>1. \A l \in Loads : ~Wanted(l)
      <4>1. SUFFICES ASSUME NEW l \in Loads, Wanted(l)
                     PROVE  FALSE
        OBVIOUS
      <4>2. load[l].cam \in Cameras /\ load[l].cam = None
        BY <2>2, <4>1, Loading DEF Wanted, IInv, LoadsRight
      <4> QED BY <4>2, NoneIsNoCamera
    <3>2. \A l \in Loads : ~Wanted(l)'
      BY <1>2, <2>2, <3>1 DEF Wanted
    <3> QED BY <3>2 DEF LoadsRight, LoadsCurrent
  <2> QED BY <2>1, <2>2
<1>6. JobsShare'
  BY <1>3 DEF IInv, JobsShare
<1>7. JobsFaithful'
  BY <1>1, <1>3 DEF IInv, JobsFaithful, Faithful, Shown
<1>8. JobsShown'
  BY <1>3 DEF IInv, JobsShown, Shown
<1> QED BY <1>2, <1>4, <1>5, <1>6, <1>7, <1>8
        DEF IInv, RightForm, FormCurrent, FormOfCamera

-----------------------------------------------------------------------------
(* Discovery.                                                              *)

LEMMA TableInv ==
  ASSUME IInv, Table
  PROVE  IInv'
<1>1. events' \in 0 .. MaxEvents
  BY PanelAssumption DEF Table, Event, IInv, Types, PanelAssumption
<1>2. /\ UNCHANGED <<device, panel, load, job>>
      /\ table' \in Seq(Cameras) /\ online' \subseteq Cameras
  <2>1. PICK c \in Cameras : Appears(c) \/ Removed(c) \/ GoesOffline(c)
    BY DEF Table
  <2>2. CASE Appears(c)
    BY <2>2 DEF Appears, IInv, Types
  <2>3. CASE Removed(c)
    <3>1. PICK i \in DOMAIN table : table' = RemoveAt(table, i)
      BY <2>3 DEF Removed
    <3>2. /\ table \in Seq(Cameras) /\ i \in 1 .. Len(table)
      BY <3>1 DEF IInv, Types
    <3>3. SubSeq(table, 1, i - 1) \in Seq(Cameras)
      BY <3>2
    <3>4. SubSeq(table, i + 1, Len(table)) \in Seq(Cameras)
      BY <3>2
    <3>5. table' \in Seq(Cameras)
      BY <3>1, <3>3, <3>4 DEF RemoveAt
    <3> QED BY <2>3, <3>5 DEF Removed, IInv, Types
  <2>4. CASE GoesOffline(c)
    BY <2>4 DEF GoesOffline, IInv, Types
  <2> QED BY <2>1, <2>2, <2>3, <2>4
<1>3. Types'
  BY <1>1, <1>2 DEF IInv, Types, panel
<1> QED BY <1>2, <1>3, Aside DEF panel

-----------------------------------------------------------------------------
(* The invariant.                                                          *)

LEMMA InitInv ==
  ASSUME Init
  PROVE  IInv
<1>1. table \in Seq(Cameras) /\ sel \in Cameras \cup {None}
  BY PanelAssumption DEF PanelAssumption, Init
<1>2. device \in [Cameras -> [Parts \cup Unshown -> Settings]]
  BY DEF Init, Settings
<1>3. NoForm \in Forms
  BY DEF NoForm, Forms, Values
<1>4. load \in [Loads -> LoadThreads] /\ job \in [Jobs -> JobThreads]
  BY DEF Init, LoadThreads, JobThreads
<1>5. Types
  <2>1. events \in 0 .. MaxEvents
    BY PanelAssumption DEF PanelAssumption, Init
  <2>2. silent \in BOOLEAN /\ applyOn \in BOOLEAN
    BY DEF Init
  <2> QED BY <1>1, <1>2, <1>3, <1>4, <2>1, <2>2 DEF Init, Types
<1>6. \A j \in Jobs : ~job[j].on
  BY DEF Init, Idle
<1> QED BY <1>5, <1>6 DEF Init, IInv, RightForm, FormCurrent, FormOfCamera,
           LoadsRight, LoadsCurrent, Wanted, JobsShare, JobsFaithful, JobsShown

LEMMA NextInv ==
  ASSUME IInv, [Next]_vars
  PROVE  IInv'
<1>1. CASE User
  BY <1>1, SelectInv, EditInv, TabChangeInv, ApplyChangesInv DEF User
<1>2. CASE Table
  BY <1>2, TableInv
<1>3. CASE \E l \in Loads : LoadThread(l)
  BY <1>3, LoadStepInv, PopulateInv DEF LoadThread
<1>4. CASE \E j \in Jobs : JobThread(j)
  BY <1>4, JobStepInv, JobDoneInv DEF JobThread
<1>5. CASE UNCHANGED vars
  <2>1. Types'
    BY <1>5 DEF vars, panel, IInv, Types
  <2> QED BY <1>5, <2>1, Aside DEF vars, panel
<1> QED BY <1>1, <1>2, <1>3, <1>4, <1>5 DEF Next

LEMMA Invariant == Spec => []IInv
<1>1. Init => IInv
  BY InitInv
<1>2. IInv /\ [Next]_vars => IInv'
  BY NextInv
<1> QED BY <1>1, <1>2, PTL DEF Spec

\* The button is never enabled on a form that was loaded from another camera
\* than the selected one (loadGen_ in ConfigWidget), however loads, jobs and
\* selections overtake each other, unless the selector changed silently.
THEOREM RightCamerasForm == Spec => []RightForm
<1>1. IInv => RightForm
  BY DEF IInv
<1> QED BY <1>1, Invariant, PTL

\* While it is enabled and no job writes to the camera, the form shows what the
\* camera is set to, in every part that was read, can be shown and is not edited.
THEOREM FormIsCurrent == Spec => []FormCurrent
<1>1. IInv => FormCurrent
  BY DEF IInv
<1> QED BY <1>1, Invariant, PTL

\* A job leaves what the user has not touched as it was on the camera, except
\* for NTP, what could not be read or is not shown exactly, the settings that the
\* requests overwrite unseen (Unshown), a selector that changed silently and a
\* second job of the same camera.
THEOREM UntouchedStays == Spec => UntouchedKept
<1> DEFINE
  Kept(j) ==
    job[j].on /\ JobStep(j) =>
       \A p \in Parts \cup Unshown : device'[job[j].cam][p] # device[job[j].cam][p] =>
         \/ p \in Overwritten(job[j].form)
         \/ job[j].silent
         \/ job[j].shared
<1>1. IInv /\ [Next]_vars => [\A j \in Jobs : Kept(j)]_vars
  <2>1. SUFFICES ASSUME IInv, NEW j \in Jobs, job[j].on, JobStep(j),
                        NEW p \in Parts \cup Unshown,
                        device'[job[j].cam][p] # device[job[j].cam][p],
                        ~job[j].silent, ~job[j].shared, p \notin Unshown
                 PROVE  p \in Overwritten(job[j].form)
    BY DEF Kept, Overwritten
  <2>2. PICK q \in job[j].todo :
          /\ q \in Shown(job[j].form)
          /\ p = q /\ device'[job[j].cam][p] = job[j].form.val[q]
    BY <2>1, JobStepIs
  <2>3. job[j].form.val[p] # device[job[j].cam][p]
    BY <2>1, <2>2
  <2>4. p \notin Faithful(job[j].form)
    BY <2>1, <2>3 DEF IInv, JobsFaithful
  <2> QED BY <2>2, <2>4 DEF Faithful, Overwritten
<1> QED BY <1>1, Invariant, PTL DEF Spec, UntouchedKept, Kept
=============================================================================
