------------------------------ MODULE Discovery ------------------------------
(***************************************************************************)
(* obs/discovery.cpp: which cameras there are, where they are, and who is  *)
(* told when one moves.                                                    *)
(*                                                                         *)
(* The loop thread probes, and hears ProbeMatches, Hellos and Byes; the    *)
(* dock starts a detached thread for each camera added or removed by hand. *)
(* All of them resolve addresses by SOAP, fold what they learn into the    *)
(* live table under its mutex, and then, the mutex released, save the      *)
(* table and report the move.  Every block under the mutex, every SOAP     *)
(* call, every access to cameras.json and every report is a step.          *)
(*                                                                         *)
(* Devices and the network are external: a device has an address or is     *)
(* gone, answers probes, and announces itself; datagrams are lost, delayed *)
(* and reordered (net is a set, and nothing has to be received).           *)
(***************************************************************************)
EXTENDS Naturals, FiniteSets

CONSTANTS
  Devices,     (* the cameras on the network                                 *)
  Addrs,       (* device-service addresses                                   *)
  Ids,         (* fingerprints                                               *)
  FoundAs,     (* per device, its fingerprint when a datagram led to it      *)
  AddedAs,     (* per device, its fingerprint when its address was typed in:
                  without scopes, its MAC address is not known               *)
  MacNamed,    (* devices whose fingerprint is the MAC address they announce *)
  None,        (* no address, no camera, no URI                              *)
  Loop,        (* the discovery thread                                       *)
  Workers,     (* the dock's detached threads                                *)
  StaleBeats,  (* heartbeats after which a silent camera is stale            *)
  Multicast,   (* BOOLEAN: the method is not "sweep"                         *)
  Directed,    (* BOOLEAN: the method is not "multicast"                     *)
  Firewall,    (* BOOLEAN: only answers to directed probes get through       *)
  MaxNet,      (* bound on the datagrams under way                           *)
  MaxEvents,   (* bound on what devices and users do                         *)
  MaxRestarts  (* bound on the restarts of OBS                               *)

Threads == Workers \cup {Loop}

Uris   == [dev : Devices, addr : Addrs]
Camera == [addr : Addrs, uri : Uris \cup {None}, online : BOOLEAN,
           manual : BOOLEAN, age : 0 .. StaleBeats]
Saved  == [addr : Addrs, uri : Uris \cup {None}, manual : BOOLEAN]
Datagrams == [type : {"match", "hello", "bye"}, dev : Devices, addr : Addrs]

ASSUME DiscoveryAssumption ==
  /\ FoundAs \in [Devices -> Ids] /\ AddedAs \in [Devices -> Ids]
  /\ MacNamed \subseteq Devices
  /\ None \notin Addrs /\ None \notin Ids
  /\ None \notin Uris /\ None \notin Camera /\ None \notin Saved
  /\ Loop \notin Workers
  /\ StaleBeats \in Nat \ {0} /\ MaxNet \in Nat
  /\ Multicast \in BOOLEAN /\ Directed \in BOOLEAN /\ Firewall \in BOOLEAN
  /\ MaxEvents \in Nat /\ MaxRestarts \in Nat

VARIABLES
  location,  (* where each device is, or None                                *)
  asked,     (* devices that got a probe whose answer can get through        *)
  net,       (* datagrams on their way                                       *)
  live,      (* Live(): the table, per fingerprint                           *)
  disk,      (* cameras.json                                                 *)
  feeds,     (* the address in the OBS source mapped to a camera, or None    *)
  work,      (* what each thread is doing                                    *)
  disturbed, (* history: work of two threads overlapped, or a crash cut some
                short                                                        *)
  lost,      (* history: cameras whose row was removed under a mapped source
                and whose source nobody has set since                        *)
  byHand,    (* history: cameras added by hand, as "new" ones (or at a new
                address), or "found" in the table as they are                *)
  events, restarts

outside == <<location, asked, net>>
others  == <<disk, feeds, lost, byHand>>
table   == <<live, others>>
control == <<events, restarts>>
vars == <<outside, table, work, disturbed, control>>

Empty == [id \in Ids |-> None]
Idle  == [at |-> "idle", manual |-> FALSE, addr |-> None, id |-> None,
          uri |-> None, moved |-> FALSE, copy |-> Empty]

Present(d) == location[d] # None
Answering  == {d \in Devices : Present(d)}

\* A slip: the file does not say which cameras were added by hand.
SeededForgets(file) ==
  [id \in Ids |->
     IF file[id] = None THEN None
     ELSE [addr |-> file[id].addr, uri |-> file[id].uri,
           online |-> FALSE, manual |-> FALSE, age |-> 0]]

\* What a start reads from the file: a camera added by hand counts as
\* online, any other is offline until seen.
Seeded(file) ==
  [id \in Ids |->
     IF file[id] = None THEN None
     ELSE [addr |-> file[id].addr, uri |-> file[id].uri,
           online |-> file[id].manual, manual |-> file[id].manual, age |-> 0]]

\* Whose answers a batch of probes can bring.
Probed(directed) ==
  IF directed \/ (Multicast /\ ~Firewall) THEN Answering ELSE {}

Init ==
  /\ location \in [Devices -> Addrs \cup {None}]
  /\ \A d, e \in Devices : d # e /\ Present(d) => location[d] # location[e]
  /\ asked = Probed(Directed) /\ net = {}
  /\ disk = Empty /\ live = Seeded(disk) /\ feeds = Empty
  /\ lost = {} /\ byHand = [id \in Ids |-> "no"]
  /\ work = [t \in Threads |-> Idle]
  /\ disturbed = FALSE /\ events = 0 /\ restarts = 0

Event == events < MaxEvents /\ events' = events + 1

-----------------------------------------------------------------------------
(* The devices and the network.                                            *)

Heard(type, d, a) == [type |-> type, dev |-> d, addr |-> a]

\* It is under way; when that makes more than MaxNet, another one is lost.
Send(m) == IF Cardinality(net \cup {m}) <= MaxNet THEN net' = net \cup {m}
           ELSE \E n \in net : net' = (net \ {n}) \cup {m}

\* A device appears, or gets another address, and says Hello.
DeviceMoves(d, a) ==
  /\ Event /\ \A e \in Devices : location[e] # a
  /\ location' = [location EXCEPT ![d] = a]
  /\ IF Firewall THEN UNCHANGED net ELSE Send(Heard("hello", d, a))
  /\ UNCHANGED <<asked, table, work, disturbed, restarts>>

\* A device goes, with a Bye.
DeviceLeaves(d) ==
  /\ Event /\ Present(d)
  /\ location' = [location EXCEPT ![d] = None]
  /\ IF Firewall THEN UNCHANGED net ELSE Send(Heard("bye", d, location[d]))
  /\ asked' = asked \ {d}
  /\ UNCHANGED <<table, work, disturbed, restarts>>

\* A device answers a probe.
Answer(d) ==
  /\ d \in asked /\ Present(d)
  /\ asked' = asked \ {d}
  /\ Send(Heard("match", d, location[d]))
  /\ UNCHANGED <<location, table, work, disturbed, control>>

-----------------------------------------------------------------------------
(* The loop: what it hears, and what it sends.                             *)

\* A thread starts work; overlapping another thread's is recorded.
Begin(t, w) ==
  /\ work[t] = Idle
  /\ work' = [work EXCEPT ![t] = w]
  /\ disturbed' = (disturbed \/ \E u \in Threads \ {t} : work[u] # Idle)

Resolving(a, manual) == [Idle EXCEPT !.at = "identify", !.addr = a,
                                     !.manual = manual]
Persisting == [Idle EXCEPT !.at = "persist"]

\* ProcessContact: resolve the address.
ReceiveMatch(d) ==
  \E m \in net :
    /\ m.type = "match" /\ m.dev = d
    /\ net' = net \ {m}
    /\ Begin(Loop, Resolving(m.addr, FALSE))
    /\ UNCHANGED <<location, asked, table, control>>

\* ProcessHello: a camera known by its MAC address, and still there, is only
\* refreshed.
Refreshes(m) ==
  LET c == live[FoundAs[m.dev]]
  IN  m.dev \in MacNamed /\ c # None /\ c.addr = m.addr

ReceiveHello ==
  \E m \in net :
    /\ m.type = "hello" /\ work[Loop] = Idle
    /\ net' = net \ {m}
    /\ \/ /\ Refreshes(m)
          /\ live' = [live EXCEPT ![FoundAs[m.dev]] =
                        [@ EXCEPT !.online = TRUE, !.age = 0]]
          /\ UNCHANGED <<work, disturbed>>
       \/ /\ ~Refreshes(m)
          /\ Begin(Loop, Resolving(m.addr, FALSE))
          /\ UNCHANGED live
    /\ UNCHANGED <<location, asked, others, control>>

\* ProcessBye: whoever the table has at that address, cameras added by hand
\* excepted, is offline.
Leaving(m) ==
  {id \in Ids : /\ live[id] # None /\ live[id].online /\ ~live[id].manual
                /\ live[id].addr = m.addr}
ReceiveBye ==
  \E m \in net :
    /\ m.type = "bye" /\ work[Loop] = Idle
    /\ net' = net \ {m}
    /\ live' = [id \in Ids |->
                  IF id \in Leaving(m)
                  THEN [live[id] EXCEPT !.online = FALSE, !.age = 0]
                  ELSE live[id]]
    /\ IF Leaving(m) # {} THEN Begin(Loop, Persisting)
                          ELSE UNCHANGED <<work, disturbed>>
    /\ UNCHANGED <<location, asked, others, control>>

\* SweepStale: at the StaleBeats-th heartbeat since it was seen a camera may
\* be stale (three intervals, give or take the loop's delays), after it it is.
Aged(c) == IF c.online /\ ~c.manual THEN [c EXCEPT !.age = @ + 1] ELSE c

\* A slip: nothing is swept.
SweptNever(c, late) == c

Swept(c, late) ==
  IF ~c.manual /\ (c.age > StaleBeats \/ (late /\ c.age = StaleBeats))
  THEN [c EXCEPT !.online = FALSE, !.age = 0] ELSE c

\* A slip: the probe goes out and nothing is swept.
HeartbeatSweepsNot ==
  /\ Multicast /\ work[Loop] = Idle
  /\ asked' = asked \cup Probed(FALSE)
  /\ UNCHANGED <<location, net, table, work, disturbed, control>>

Heartbeat ==
  /\ Multicast /\ work[Loop] = Idle
  /\ asked' = asked \cup Probed(FALSE)
  /\ \E late \in BOOLEAN :
       live' = [id \in Ids |->
                  IF live[id] = None THEN None
                  ELSE Swept(Aged(live[id]), late)]
  /\ UNCHANGED <<location, net, others, work, disturbed, control>>

-----------------------------------------------------------------------------
(* The dock.                                                               *)

\* RequestScan, and the loop that sees the flag.
RequestScan ==
  /\ Event /\ work[Loop] = Idle
  /\ asked' = asked \cup Probed(Directed)
  /\ UNCHANGED <<location, net, table, work, disturbed, restarts>>

AddManual(t, a) ==
  /\ Event
  /\ Begin(t, Resolving(a, TRUE))
  /\ UNCHANGED <<outside, table, restarts>>

\* The row of a camera was selected.  A source mapped to the camera keeps both
\* its mapping and its address.
RemoveManual(t, id) ==
  /\ Event /\ live[id] # None
  /\ Begin(t, Persisting)
  /\ live' = [live EXCEPT ![id] = None]
  /\ lost' = IF feeds[id] = None THEN lost ELSE lost \cup {id}
  /\ byHand' = [byHand EXCEPT ![id] = "no"]
  /\ UNCHANGED <<outside, disk, feeds, restarts>>

\* SourcesWidget::Save, for a source that the user has given the stream of the
\* camera as it is now.
MapSource(id) ==
  /\ Event /\ live[id] # None /\ live[id].uri # None
  /\ feeds' = [feeds EXCEPT ![id] = live[id].uri]
  /\ lost' = lost \ {id}
  /\ UNCHANGED <<outside, live, disk, byHand, work, disturbed, restarts>>

-----------------------------------------------------------------------------
(* ResolveContact: who is at the address, and its stream.                  *)

At(t, place) == work[t].at = place
Goes(t, w)   == work' = [work EXCEPT ![t] = w]

\* GetDeviceInformation is answered by whoever has the address now.
Identify(t, d) ==
  /\ At(t, "identify") /\ location[d] = work[t].addr
  /\ Goes(t, [work[t] EXCEPT !.at = "media",
                !.id = IF work[t].manual THEN AddedAs[d] ELSE FoundAs[d]])
  /\ UNCHANGED <<outside, table, disturbed, control>>

\* It is not: nobody is there, or the device refuses.
Unresolved(t) ==
  /\ At(t, "identify")
  /\ Goes(t, Idle)
  /\ UNCHANGED <<outside, table, disturbed, control>>

\* GetStreamUri, likewise.
Media(t, d) ==
  /\ At(t, "media") /\ location[d] = work[t].addr
  /\ Goes(t, [work[t] EXCEPT !.at = "apply",
                             !.uri = [dev |-> d, addr |-> work[t].addr]])
  /\ UNCHANGED <<outside, table, disturbed, control>>

NoMedia(t) ==
  /\ At(t, "media")
  /\ Goes(t, [work[t] EXCEPT !.at = "apply"])
  /\ UNCHANGED <<outside, table, disturbed, control>>

-----------------------------------------------------------------------------
(* ApplyContact, PersistAll and the report.                                *)

\* Slips: a move is told by the address alone; a camera that comes back has
\* not moved.
MovedByAddress(c, w) == c # None /\ w.uri # None /\ c.addr # w.addr
MovedOnline(c, w) ==
  /\ c # None /\ w.uri # None /\ c.online
  /\ c.addr # w.addr \/ c.uri # w.uri

\* A known camera whose address or stream is not what the table has moved;
\* without a stream to rewrite to, that waits for the next contact.
HasMoved(c, w) ==
  c # None /\ w.uri # None /\ (c.addr # w.addr \/ c.uri # w.uri)

\* A slip: the address of a known camera is not updated.
FoldedInPlace(c, w) ==
  [addr |-> IF c = None THEN w.addr ELSE c.addr,
   uri    |-> IF w.uri # None \/ c = None THEN w.uri ELSE c.uri,
   online |-> TRUE, age |-> 0,
   manual |-> w.manual \/ (c # None /\ c.manual)]

\* The row after the contact.
Folded(c, w) ==
  [addr |-> w.addr,
   uri    |-> IF w.uri # None \/ c = None THEN w.uri ELSE c.uri,
   online |-> TRUE, age |-> 0,
   manual |-> w.manual \/ (c # None /\ c.manual)]

\* A slip: only new cameras are saved.
AfterContactSavesNew(c, w) ==
  IF c = None THEN Persisting
  ELSE IF HasMoved(c, w) THEN [w EXCEPT !.at = "report", !.moved = TRUE]
  ELSE Idle

\* New and moved cameras are saved, moves are reported.
AfterContact(c, w) ==
  IF c = None THEN Persisting
  ELSE IF HasMoved(c, w)
  THEN [Persisting EXCEPT !.moved = TRUE, !.id = w.id, !.uri = w.uri]
  ELSE Idle

\* What a contact made by hand adds to the history.
Marked(c, w) ==
  IF ~w.manual THEN byHand
  ELSE [byHand EXCEPT ![w.id] =
          IF c = None \/ HasMoved(c, w) \/ @ = "new" THEN "new" ELSE "found"]

\* ApplyContact, under the mutex.  A camera that is not in the table has not
\* moved, whether sources are mapped to it or not.
ApplyContact(t) ==
  LET w == work[t]
      c == live[w.id]
  IN  /\ At(t, "apply")
      /\ live' = [live EXCEPT ![w.id] = Folded(c, w)]
      /\ byHand' = Marked(c, w)
      /\ Goes(t, AfterContact(c, w))
      /\ UNCHANGED <<outside, disk, feeds, lost, disturbed, control>>

\* PersistAll copies the table under the mutex; then SaveJson opens
\* cameras.json, which empties it,
PersistAll(t) ==
  /\ At(t, "persist")
  /\ disk' = Empty
  /\ Goes(t, [work[t] EXCEPT !.at = "write",
       !.copy = [id \in Ids |->
                   IF live[id] = None THEN None
                   ELSE [addr |-> live[id].addr, uri |-> live[id].uri,
                         manual |-> live[id].manual]]])
  /\ UNCHANGED <<outside, live, feeds, lost, byHand, disturbed, control>>

\* and writes the copy.
Write(t) ==
  /\ At(t, "write")
  /\ disk' = work[t].copy
  /\ Goes(t, IF work[t].moved THEN [work[t] EXCEPT !.at = "report"] ELSE Idle)
  /\ UNCHANGED <<outside, live, feeds, lost, byHand, disturbed, control>>

\* OnMoved: the apply pipeline (ApplyPipeline; here it applies at once) sets
\* the source mapped to the camera, if there is one.
Report(t) ==
  /\ At(t, "report")
  /\ feeds' = [feeds EXCEPT ![work[t].id] =
                  IF @ = None THEN None ELSE work[t].uri]
  /\ lost' = lost \ {work[t].id}
  /\ Goes(t, Idle)
  /\ UNCHANGED <<outside, live, disk, byHand, disturbed, control>>

-----------------------------------------------------------------------------

\* OBS ends, or crashes, and starts again.  Unload waits for the loop; the
\* dock's threads, and in a crash the loop as well, stop where they are.
Restart ==
  /\ restarts < MaxRestarts /\ restarts' = restarts + 1
  /\ live' = Seeded(disk)
  /\ work' = [t \in Threads |-> Idle]
  /\ disturbed' = (disturbed \/ \E t \in Threads : work[t] # Idle)
  /\ asked' = asked \cup Probed(Directed)
  /\ UNCHANGED <<location, net, others, events>>

Step(t) ==
  \/ \E d \in Devices : Identify(t, d) \/ Media(t, d)
  \/ Unresolved(t) \/ NoMedia(t)
  \/ ApplyContact(t) \/ PersistAll(t) \/ Write(t) \/ Report(t)

LoopBody ==
  \/ \E d \in Devices : ReceiveMatch(d)
  \/ ReceiveHello \/ ReceiveBye
  \/ Heartbeat

Next ==
  \/ \E d \in Devices, a \in Addrs : DeviceMoves(d, a)
  \/ \E d \in Devices : DeviceLeaves(d) \/ Answer(d)
  \/ LoopBody
  \/ \E t \in Workers :
       \/ \E a \in Addrs : AddManual(t, a)
       \/ \E id \in Ids : RemoveManual(t, id)
  \/ \E id \in Ids : MapSource(id)
  \/ RequestScan
  \/ \E t \in Threads : Step(t)
  \/ Restart

Spec == Init /\ [][Next]_vars

\* Threads run, SOAP calls end, the loop's timer fires.  A device that is
\* probed again and again is heard and answers the calls made to it again
\* and again.
Fairness ==
  /\ \A t \in Threads : WF_vars(Step(t))
  /\ SF_vars(Heartbeat)
  /\ \A d \in Devices :
       /\ WF_vars(Answer(d))
       /\ SF_vars(ReceiveMatch(d))
       /\ SF_vars(Identify(Loop, d))
       /\ SF_vars(Media(Loop, d))

FairSpec == Spec /\ Fairness

-----------------------------------------------------------------------------
(* Properties.                                                             *)

Places == {"idle", "identify", "media", "apply", "persist", "write",
           "report"}
Work == [at : Places, manual : BOOLEAN, addr : Addrs \cup {None},
         id : Ids \cup {None}, uri : Uris \cup {None}, moved : BOOLEAN,
         copy : [Ids -> Saved \cup {None}]]

\* The type invariant.
TypeOK ==
  /\ location \in [Devices -> Addrs \cup {None}]
  /\ asked \subseteq Devices /\ net \subseteq Datagrams
  /\ live \in [Ids -> Camera \cup {None}]
  /\ disk \in [Ids -> Saved \cup {None}]
  /\ feeds \in [Ids -> Uris \cup {None}]
  /\ work \in [Threads -> Work]
  /\ disturbed \in BOOLEAN
  /\ lost \subseteq Ids /\ byHand \in [Ids -> {"no", "found", "new"}]
  /\ events \in 0 .. MaxEvents /\ restarts \in 0 .. MaxRestarts

\* A camera added by hand stays selectable ("regardless of multicast liveness",
\* camera.h): no Bye and no sweep puts it offline while the table has it as
\* manual.  One that was new when it was added, or had moved, has it so for
\* good, through later contacts, saves and restarts, unless work overlapped or
\* was cut short.  Not so one that discovery had found before: see
\* AddedStaysOnline.
ManualStaysOnline ==
  \A id \in Ids :
    live[id] # None /\ (live[id].manual \/ (~disturbed /\ byHand[id] = "new")) =>
      live[id].online

\* The same of every camera added by hand.  The code breaks it: a camera that
\* is in the table already becomes manual there, and that is not saved.
AddedStaysOnline ==
  \A id \in Ids :
    live[id] # None /\ ~disturbed /\ byHand[id] # "no" => live[id].online

\* Thread t has folded a move of camera id and not reported it yet.
Owes(t, id) == work[t].moved /\ work[t].id = id

\* The source mapped to a camera has the stream the table has, or is about to
\* be given it.
Current(id) ==
  live[id] # None /\ feeds[id] # None /\ (\A t \in Threads : ~Owes(t, id)) =>
    feeds[id] = live[id].uri

\* So it is of every camera, those excepted whose row was removed meanwhile.
MovesReported == \A id \in Ids \ lost : Current(id)

\* The same of those, once the table has them and their streams again.  The code
\* breaks it: a camera that comes back at another address has not moved, it is
\* new.
RemovedToo ==
  ~disturbed =>
    \A id \in Ids : live[id] # None /\ live[id].uri # None => Current(id)

\* When nothing is under way the file has the cameras of the table, and
\* their streams.
FileCurrent ==
  (\A t \in Threads : work[t] = Idle) =>
    \A id \in Ids :
      /\ disk[id] = None <=> live[id] = None
      /\ live[id] # None => disk[id].uri = live[id].uri

\* Both hold as long as work does not overlap and is not cut short: a contact
\* whose media call fails defers the move, it does not lose it.
TableTold  == ~disturbed => MovesReported
TableSaved == ~disturbed => FileCurrent

\* A camera that stays at an address is found there, whatever was lost before
\* and whoever had that address, and is online again and again.
Tracked ==
  \A d \in Devices, a \in Addrs :
    <>[](location[d] = a) =>
      /\ <>[](live[FoundAs[d]] # None /\ live[FoundAs[d]].addr = a)
      /\ []<>(live[FoundAs[d]] # None /\ live[FoundAs[d]].online)

\* The source mapped to it, if any, then has its stream, unless the camera was
\* removed from the table and its source not set since.
Repaired(d, a) ==
  \/ feeds[FoundAs[d]] \in {None, [dev |-> d, addr |-> a]}
  \/ FoundAs[d] \in lost
FeedFollows ==
  \A d \in Devices, a \in Addrs :
    [](~disturbed) /\ <>[](location[d] = a) => <>[]Repaired(d, a)

\* A camera that has gone is not shown online for ever.
GoneGoesOffline ==
  \A d \in Devices :
    <>[](location[d] = None) =>
      <>[](LET c == live[FoundAs[d]]
           IN  c # None => c.manual \/ ~c.online)
=============================================================================
