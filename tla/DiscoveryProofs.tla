--------------------------- MODULE DiscoveryProofs ---------------------------
(***************************************************************************)
(* Proofs about Discovery, for any devices, addresses, fingerprints, dock  *)
(* threads, networks, firewalls and numbers of restarts.                   *)
(***************************************************************************)
EXTENDS Discovery, TLAPS

\* What a thread knows by when.
WorkOK(w) ==
  /\ w.at \in {"identify", "media", "apply"} => w.addr \in Addrs
  /\ w.at \in {"media", "apply"} => w.id \in Ids
  /\ w.at = "report" => w.moved
  /\ w.moved => w.id \in Ids /\ w.at \in {"persist", "write", "report"}
WorkInv == \A t \in Threads : WorkOK(work[t])

\* The types of the parts of the state.
OutsideOK ==
  /\ location \in [Devices -> Addrs \cup {None}]
  /\ asked \subseteq Devices /\ net \subseteq Datagrams
LiveOK == live \in [Ids -> Camera \cup {None}]
FileOK == disk \in [Ids -> Saved \cup {None}]
FeedOK == /\ feeds \in [Ids -> Uris \cup {None}] /\ lost \subseteq Ids
          /\ byHand \in [Ids -> {"no", "found", "new"}]
ThreadsOK == work \in [Threads -> Work]
ControlOK ==
  /\ disturbed \in BOOLEAN
  /\ events \in 0 .. MaxEvents /\ restarts \in 0 .. MaxRestarts

IInv ==
  OutsideOK /\ LiveOK /\ FileOK /\ FeedOK /\ ThreadsOK /\ ControlOK /\ WorkInv

LEMMA PartsType == IInv => TypeOK
  BY DEF IInv, TypeOK, OutsideOK, LiveOK, FileOK, FeedOK, ThreadsOK, ControlOK

LEMMA EmptyFacts ==
  /\ Empty \in [Ids -> Saved \cup {None}]
  /\ Empty \in [Ids -> Uris \cup {None}]
  /\ \A id \in Ids : Empty[id] = None
  BY DEF Empty

\* The records a thread can be given.
LEMMA StartFacts ==
  /\ Idle \in Work /\ WorkOK(Idle) /\ Idle.at = "idle" /\ ~Idle.moved
  /\ Persisting \in Work /\ WorkOK(Persisting)
  /\ Persisting.at = "persist" /\ ~Persisting.moved
  /\ \A a \in Addrs, m \in BOOLEAN :
       /\ Resolving(a, m) \in Work /\ WorkOK(Resolving(a, m))
       /\ Resolving(a, m).at = "identify" /\ ~Resolving(a, m).moved
<1>1. Idle \in Work /\ WorkOK(Idle) /\ Idle.at = "idle" /\ ~Idle.moved
  BY EmptyFacts DEF Idle, Work, Places, WorkOK
<1>2. /\ Persisting \in Work /\ WorkOK(Persisting)
      /\ Persisting.at = "persist" /\ ~Persisting.moved
  BY EmptyFacts DEF Persisting, Idle, Work, Places, WorkOK
<1>3. ASSUME NEW a \in Addrs, NEW m \in BOOLEAN
      PROVE  /\ Resolving(a, m) \in Work /\ WorkOK(Resolving(a, m))
             /\ Resolving(a, m).at = "identify" /\ ~Resolving(a, m).moved
  BY EmptyFacts DEF Resolving, Idle, Work, Places, WorkOK
<1> QED BY <1>1, <1>2, <1>3

LEMMA SeededType ==
  ASSUME FileOK
  PROVE  /\ Seeded(disk) \in [Ids -> Camera \cup {None}]
         /\ \A id \in Ids :
              /\ Seeded(disk)[id] = None <=> disk[id] = None
              /\ disk[id] # None => /\ Seeded(disk)[id].uri = disk[id].uri
                                    /\ Seeded(disk)[id].manual =
                                         disk[id].manual
                                    /\ Seeded(disk)[id].online =
                                         Seeded(disk)[id].manual
<1> SUFFICES ASSUME NEW id \in Ids
             PROVE  /\ Seeded(disk)[id] \in Camera \cup {None}
                    /\ Seeded(disk)[id] = None <=> disk[id] = None
                    /\ disk[id] # None =>
                         /\ Seeded(disk)[id].uri = disk[id].uri
                         /\ Seeded(disk)[id].manual = disk[id].manual
                         /\ Seeded(disk)[id].online = Seeded(disk)[id].manual
  BY DEF Seeded
<1>1. CASE disk[id] = None
  BY <1>1 DEF Seeded
<1>2. CASE disk[id] # None
  <2>1. disk[id] \in Saved
    BY <1>2 DEF FileOK
  <2>2. Seeded(disk)[id] =
          [addr |-> disk[id].addr, uri |-> disk[id].uri,
           online |-> disk[id].manual, manual |-> disk[id].manual, age |-> 0]
    BY <1>2 DEF Seeded
  <2>3. Seeded(disk)[id] \in Camera
    BY <2>1, <2>2, DiscoveryAssumption DEF Saved, Camera
  <2> QED BY <1>2, <2>2, <2>3, DiscoveryAssumption
<1> QED BY <1>1, <1>2

LEMMA InitInv == Init => IInv
<1> SUFFICES ASSUME Init PROVE IInv
  OBVIOUS
<1>1. OutsideOK
  BY DEF Init, OutsideOK, Probed, Answering
<1>2. FileOK /\ FeedOK
  BY EmptyFacts DEF Init, FileOK, FeedOK
<1>3. LiveOK
  BY <1>2, SeededType DEF Init, LiveOK
<1>4. ThreadsOK /\ WorkInv
  BY StartFacts DEF Init, ThreadsOK, WorkInv
<1>5. ControlOK
  <2>1. disturbed \in BOOLEAN
    BY DEF Init
  <2>2. 0 \in 0 .. MaxEvents /\ 0 \in 0 .. MaxRestarts
    BY DiscoveryAssumption
  <2> QED BY <2>1, <2>2 DEF Init, ControlOK
<1> QED BY <1>1, <1>2, <1>3, <1>4, <1>5 DEF IInv

-----------------------------------------------------------------------------
(* Types.                                                                  *)

\* What Send may do to the datagrams under way.
LEMMA SendType ==
  ASSUME net \subseteq Datagrams, NEW m \in Datagrams, Send(m)
  PROVE  net' \subseteq Datagrams
  BY DEF Send

LEMMA EventType ==
  ASSUME events \in 0 .. MaxEvents, Event
  PROVE  events' \in 0 .. MaxEvents
  BY DiscoveryAssumption DEF Event

LEMMA ProbedType == Probed(TRUE) \subseteq Devices /\ Probed(FALSE) \subseteq Devices
  BY DEF Probed, Answering

\* A row, before it is swept.
AgedCamera == [addr : Addrs, uri : Uris \cup {None}, online : BOOLEAN,
               manual : BOOLEAN, age : Nat]

LEMMA RowsAge == Camera \subseteq AgedCamera
  BY DiscoveryAssumption DEF Camera, AgedCamera

\* A row that is seen, or goes offline, is a row.
LEMMA RowType ==
  ASSUME NEW c \in AgedCamera, NEW o \in BOOLEAN
  PROVE  /\ [c EXCEPT !.online = o, !.age = 0] \in Camera
         /\ [c EXCEPT !.online = o, !.age = 0].uri = c.uri
         /\ [c EXCEPT !.online = o, !.age = 0].manual = c.manual
         /\ [c EXCEPT !.online = o, !.age = 0].online = o
<1> DEFINE r == [c EXCEPT !.online = o, !.age = 0]
<1>1. 0 \in 0 .. StaleBeats
  BY DiscoveryAssumption
<1>2. /\ r.uri = c.uri /\ r.manual = c.manual /\ r.online = o
  BY DEF AgedCamera
<1>3. [c EXCEPT !.online = o] \in AgedCamera
  BY DEF AgedCamera
<1>4. [[c EXCEPT !.online = o] EXCEPT !.age = 0] \in Camera
  BY <1>1, <1>3 DEF AgedCamera, Camera
<1>5. r = [[c EXCEPT !.online = o] EXCEPT !.age = 0]
  OBVIOUS
<1> QED BY <1>2, <1>4, <1>5

\* A thread is given w.
LEMMA WorkStep ==
  ASSUME ThreadsOK, WorkInv, NEW t \in Threads, NEW w \in Work, WorkOK(w),
         work' = [work EXCEPT ![t] = w]
  PROVE  ThreadsOK' /\ WorkInv'
  BY DEF ThreadsOK, WorkInv

LEMMA OutsideTypes ==
  ASSUME IInv,
         \/ \E d \in Devices, a \in Addrs : DeviceMoves(d, a)
         \/ \E d \in Devices : DeviceLeaves(d) \/ Answer(d)
  PROVE  OutsideOK' /\ ControlOK'
         /\ UNCHANGED <<live, others, work, disturbed>>
<1> USE DEF IInv, OutsideOK, ControlOK, table, others, control
<1>1. CASE \E d \in Devices, a \in Addrs : DeviceMoves(d, a)
  <2> PICK d \in Devices, a \in Addrs : DeviceMoves(d, a)
    BY <1>1
  <2>1. Heard("hello", d, a) \in Datagrams
    BY DEF Heard, Datagrams
  <2>2. net' \subseteq Datagrams
    BY <2>1, SendType DEF DeviceMoves
  <2>3. events' \in 0 .. MaxEvents
    BY EventType DEF DeviceMoves
  <2> QED BY <2>2, <2>3 DEF DeviceMoves
<1>2. CASE \E d \in Devices : DeviceLeaves(d)
  <2> PICK d \in Devices : DeviceLeaves(d)
    BY <1>2
  <2>1. location[d] \in Addrs
    BY DEF DeviceLeaves, Present
  <2>2. Heard("bye", d, location[d]) \in Datagrams
    BY <2>1 DEF Heard, Datagrams
  <2>3. net' \subseteq Datagrams
    BY <2>2, SendType DEF DeviceLeaves
  <2>4. events' \in 0 .. MaxEvents
    BY EventType DEF DeviceLeaves
  <2> QED BY <2>3, <2>4 DEF DeviceLeaves
<1>3. CASE \E d \in Devices : Answer(d)
  <2> PICK d \in Devices : Answer(d)
    BY <1>3
  <2>1. location[d] \in Addrs
    BY DEF Answer, Present
  <2>2. Heard("match", d, location[d]) \in Datagrams
    BY <2>1 DEF Heard, Datagrams
  <2>3. net' \subseteq Datagrams
    BY <2>2, SendType DEF Answer
  <2> QED BY <2>3 DEF Answer
<1> QED BY <1>1, <1>2, <1>3

\* Online or not, a row keeps its address, its stream and its origin.
SameRows(rows) ==
  \A id \in Ids :
    /\ rows[id] = None <=> live[id] = None
    /\ live[id] # None => /\ rows[id].uri = live[id].uri
                          /\ rows[id].manual = live[id].manual
                          /\ live[id].manual /\ live[id].online =>
                               rows[id].online

LEMMA HelloTable ==
  ASSUME LiveOK, NEW m \in Datagrams, Refreshes(m),
         live' = [live EXCEPT ![FoundAs[m.dev]] =
                    [@ EXCEPT !.online = TRUE, !.age = 0]]
  PROVE  LiveOK' /\ SameRows(live')
<1> DEFINE i == FoundAs[m.dev]
           c == [live[i] EXCEPT !.online = TRUE, !.age = 0]
<1>1. i \in Ids
  BY DiscoveryAssumption DEF Datagrams
<1>2. live[i] \in Camera
  BY <1>1 DEF Refreshes, LiveOK
<1>3. c \in Camera /\ c.uri = live[i].uri /\ c.manual = live[i].manual
      /\ c.online
  BY <1>2, RowType, RowsAge
<1>4. live' = [live EXCEPT ![i] = c]
  OBVIOUS
<1> HIDE DEF c
<1>5. LiveOK'
  BY <1>1, <1>3, <1>4 DEF LiveOK
<1>6. live'[i] = c /\ \A id \in Ids \ {i} : live'[id] = live[id]
  BY <1>1, <1>4 DEF LiveOK
<1>7. c # None /\ live[i] # None
  BY <1>2, <1>3, DiscoveryAssumption
<1>8. SameRows(live')
  BY <1>1, <1>3, <1>6, <1>7 DEF SameRows
<1> QED BY <1>5, <1>8

LEMMA ByeTable ==
  ASSUME LiveOK, NEW m \in Datagrams,
         live' = [id \in Ids |->
                    IF id \in Leaving(m)
                    THEN [live[id] EXCEPT !.online = FALSE, !.age = 0]
                    ELSE live[id]]
  PROVE  LiveOK' /\ SameRows(live')
<1>1. ASSUME NEW id \in Ids
      PROVE  /\ live'[id] \in Camera \cup {None}
             /\ live'[id] = None <=> live[id] = None
             /\ live[id] # None => /\ live'[id].uri = live[id].uri
                                   /\ live'[id].manual = live[id].manual
                                   /\ live[id].manual => live'[id] = live[id]
  <2>1. CASE id \in Leaving(m)
    <3>1. live[id] \in Camera /\ ~live[id].manual
      BY <2>1 DEF Leaving, LiveOK
    <3>2. live'[id] = [live[id] EXCEPT !.online = FALSE, !.age = 0]
      BY <2>1
    <3>3. /\ live'[id] \in Camera /\ live'[id].uri = live[id].uri
          /\ live'[id].manual = live[id].manual
      BY <3>1, <3>2, RowType, RowsAge
    <3> QED BY <3>1, <3>3, DiscoveryAssumption
  <2>2. CASE id \notin Leaving(m)
    <3>1. live'[id] = live[id]
      BY <2>2
    <3> QED BY <3>1 DEF LiveOK
  <2> QED BY <2>1, <2>2
<1> QED BY <1>1 DEF LiveOK, SameRows

LEMMA HeartbeatTable ==
  ASSUME LiveOK, Heartbeat
  PROVE  LiveOK' /\ SameRows(live')
<1> PICK late \in BOOLEAN :
      live' = [id \in Ids |-> IF live[id] = None THEN None
                              ELSE Swept(Aged(live[id]), late)]
  BY DEF Heartbeat
<1>1. ASSUME NEW id \in Ids, live[id] # None
      PROVE  /\ live'[id] \in Camera
             /\ live'[id].uri = live[id].uri
             /\ live'[id].manual = live[id].manual
             /\ live[id].manual => live'[id] = live[id]
  <2> DEFINE c == live[id]
             g == Aged(c)
  <2>1. c \in Camera
    BY <1>1 DEF LiveOK
  <2>2. /\ g \in AgedCamera
        /\ g.uri = c.uri /\ g.manual = c.manual
        /\ c.manual => g = c
        /\ g.manual => g.age <= StaleBeats
    BY <2>1, DiscoveryAssumption DEF Aged, Camera, AgedCamera
  <2>3. live'[id] = Swept(g, late)
    BY <1>1
  <2> HIDE DEF g
  <2>4. CASE ~g.manual /\ (g.age > StaleBeats \/ (late /\ g.age = StaleBeats))
    <3>1. live'[id] = [g EXCEPT !.online = FALSE, !.age = 0]
      BY <2>3, <2>4 DEF Swept
    <3> QED BY <2>2, <2>4, <3>1, RowType
  <2>5. CASE ~(~g.manual /\ (g.age > StaleBeats
                             \/ (late /\ g.age = StaleBeats)))
    <3>1. live'[id] = g
      BY <2>3, <2>5 DEF Swept
    <3>2. g.age \in Nat /\ StaleBeats \in Nat
      BY <2>2, DiscoveryAssumption DEF AgedCamera
    <3>3. g.manual \in BOOLEAN /\ (g.manual \/ g.age <= StaleBeats)
      BY <2>2, <2>5, <3>2 DEF AgedCamera
    <3>4. g.age \in 0 .. StaleBeats
      BY <2>2, <3>2, <3>3
    <3> QED BY <2>2, <3>1, <3>4 DEF Camera, AgedCamera
  <2> QED BY <2>4, <2>5
<1>2. ASSUME NEW id \in Ids, live[id] = None
      PROVE  live'[id] = None
  BY <1>2
<1>3. LiveOK'
  BY <1>1, <1>2 DEF LiveOK
<1>4. \A id \in Ids : live[id] # None => live'[id] # None
  BY <1>1, DiscoveryAssumption
<1> QED BY <1>1, <1>2, <1>3, <1>4 DEF SameRows

-----------------------------------------------------------------------------
(* Types: threads.                                                         *)

\* What a thread does before it touches the table.
LEMMA ResolveInv ==
  ASSUME IInv, NEW t \in Threads,
         \/ \E d \in Devices : Identify(t, d) \/ Media(t, d)
         \/ Unresolved(t) \/ NoMedia(t)
  PROVE  /\ ThreadsOK' /\ WorkInv'
         /\ \E w \in Work :
              /\ work' = [work EXCEPT ![t] = w]
              /\ ~w.moved /\ w.at \notin {"persist", "write"}
         /\ ~work[t].moved /\ work[t].at \in {"identify", "media"}
         /\ UNCHANGED <<outside, table, disturbed, control>>
<1> USE DEF IInv, At, Goes
<1>1. work[t] \in Work /\ WorkOK(work[t])
  BY DEF ThreadsOK, WorkInv
<1>2. ~work[t].moved /\ work[t].at \in {"identify", "media"}
  BY <1>1 DEF WorkOK, Identify, Media, Unresolved, NoMedia
<1>3. UNCHANGED <<outside, table, disturbed, control>>
  BY DEF Identify, Media, Unresolved, NoMedia
<1>4. \E w \in Work : /\ work' = [work EXCEPT ![t] = w] /\ WorkOK(w)
                      /\ ~w.moved /\ w.at \notin {"persist", "write"}
  <2>1. CASE \E d \in Devices : Identify(t, d)
    <3> PICK d \in Devices : Identify(t, d)
      BY <2>1
    <3> DEFINE i == IF work[t].manual THEN AddedAs[d] ELSE FoundAs[d]
               w == [work[t] EXCEPT !.at = "media", !.id = i]
    <3>1. i \in Ids
      BY DiscoveryAssumption
    <3>2. work' = [work EXCEPT ![t] = w]
      BY DEF Identify
    <3> HIDE DEF i
    <3>3. work[t].addr \in Addrs /\ ~work[t].moved
      BY <1>1 DEF Identify, WorkOK
    <3>4. w \in Work /\ w.at = "media" /\ w.id = i /\ ~w.moved
          /\ w.addr = work[t].addr
      BY <1>1, <3>1, <3>3 DEF Work, Places
    <3>5. WorkOK(w)
      BY <3>1, <3>3, <3>4 DEF WorkOK
    <3> QED BY <3>2, <3>4, <3>5
  <2>2. CASE \E d \in Devices : Media(t, d)
    <3> PICK d \in Devices : Media(t, d)
      BY <2>2
    <3> DEFINE w == [work[t] EXCEPT !.at = "apply",
                                    !.uri = [dev |-> d, addr |-> work[t].addr]]
    <3>1. work[t].addr \in Addrs /\ work[t].id \in Ids /\ ~work[t].moved
      BY <1>1 DEF Media, WorkOK
    <3>2. [dev |-> d, addr |-> work[t].addr] \in Uris
      BY <3>1 DEF Uris
    <3>3. w \in Work /\ w.at = "apply" /\ ~w.moved
          /\ w.addr = work[t].addr /\ w.id = work[t].id
      BY <1>1, <3>1, <3>2 DEF Work, Places
    <3>4. WorkOK(w)
      BY <3>1, <3>3 DEF WorkOK
    <3> QED BY <3>3, <3>4 DEF Media
  <2>3. CASE Unresolved(t)
    BY <2>3, StartFacts DEF Unresolved
  <2>4. CASE NoMedia(t)
    <3> DEFINE w == [work[t] EXCEPT !.at = "apply"]
    <3>1. work[t].addr \in Addrs /\ work[t].id \in Ids /\ ~work[t].moved
      BY <1>1, <2>4 DEF NoMedia, WorkOK
    <3>2. w \in Work /\ w.at = "apply" /\ ~w.moved
          /\ w.addr = work[t].addr /\ w.id = work[t].id
      BY <1>1, <3>1 DEF Work, Places
    <3>3. WorkOK(w)
      BY <3>1, <3>2 DEF WorkOK
    <3> QED BY <2>4, <3>2, <3>3 DEF NoMedia
  <2> QED BY <2>1, <2>2, <2>3, <2>4
<1>5. ThreadsOK' /\ WorkInv'
  BY <1>4, WorkStep
<1> QED BY <1>2, <1>3, <1>4, <1>5

\* ApplyContact: the row of the contact, and what is left to do.
LEMMA FoldInv ==
  ASSUME IInv, NEW t \in Threads, ApplyContact(t)
  PROVE  /\ LiveOK' /\ FeedOK' /\ ThreadsOK' /\ WorkInv'
         /\ work[t].id \in Ids /\ live'[work[t].id] \in Camera
         /\ live'[work[t].id].online
         /\ \A id \in Ids \ {work[t].id} : live'[id] = live[id]
<1> USE DEF IInv, At, Goes
<1> DEFINE w == work[t]
           c == live[w.id]
<1>1. w \in Work /\ w.addr \in Addrs /\ w.id \in Ids /\ ~w.moved
  BY DEF ThreadsOK, WorkInv, WorkOK, ApplyContact
<1>2. w.uri \in Uris \cup {None} /\ w.manual \in BOOLEAN
  BY <1>1 DEF Work
<1>3. c \in Camera \cup {None}
  BY <1>1 DEF LiveOK
<1>4. Folded(c, w) \in Camera /\ Folded(c, w).online
  <2>1. 0 \in 0 .. StaleBeats
    BY DiscoveryAssumption
  <2>2. CASE c = None
    BY <1>1, <1>2, <2>1, <2>2 DEF Folded, Camera
  <2>3. CASE c # None
    <3>1. c \in Camera
      BY <1>3, <2>3
    <3> HIDE DEF w, c
    <3>2. c.uri \in Uris \cup {None} /\ c.manual \in BOOLEAN
      BY <3>1 DEF Camera
    <3>3. (IF w.uri # None \/ c = None THEN w.uri ELSE c.uri)
            \in Uris \cup {None}
      BY <1>2, <3>2
    <3>4. (w.manual \/ (c # None /\ c.manual)) \in BOOLEAN
      OBVIOUS
    <3> QED BY <1>1, <2>1, <3>3, <3>4 DEF Folded, Camera
  <2> QED BY <2>2, <2>3
<1>5. live' = [live EXCEPT ![w.id] = Folded(c, w)]
  BY DEF ApplyContact
<1>6. LiveOK' /\ live'[w.id] = Folded(c, w)
      /\ \A id \in Ids \ {w.id} : live'[id] = live[id]
  BY <1>1, <1>4, <1>5 DEF LiveOK
<1>7. FeedOK'
  BY <1>1 DEF ApplyContact, FeedOK, Marked
<1>8. AfterContact(c, w) \in Work /\ WorkOK(AfterContact(c, w))
  <2>1. CASE AfterContact(c, w) \in {Persisting, Idle}
    BY <2>1, StartFacts
  <2>2. CASE AfterContact(c, w) =
               [Persisting EXCEPT !.moved = TRUE, !.id = w.id, !.uri = w.uri]
    <3> DEFINE n == [Persisting EXCEPT !.moved = TRUE, !.id = w.id,
                                       !.uri = w.uri]
    <3> HIDE DEF w
    <3>1. n \in Work /\ n.at = "persist" /\ n.id = w.id
      BY <1>1, <1>2, StartFacts DEF Work
    <3> QED BY <1>1, <2>2, <3>1 DEF WorkOK
  <2> QED BY <2>1, <2>2 DEF AfterContact
<1>9. ThreadsOK' /\ WorkInv'
  BY <1>8, WorkStep DEF ApplyContact
<1> QED BY <1>1, <1>4, <1>6, <1>7, <1>9

\* The copy PersistAll takes of the table.
TableCopy ==
  [id \in Ids |-> IF live[id] = None THEN None
                  ELSE [addr |-> live[id].addr, uri |-> live[id].uri,
                        manual |-> live[id].manual]]

LEMMA CopyFacts ==
  ASSUME LiveOK
  PROVE  /\ TableCopy \in [Ids -> Saved \cup {None}]
         /\ \A id \in Ids :
              /\ TableCopy[id] = None <=> live[id] = None
              /\ live[id] # None => /\ TableCopy[id].uri = live[id].uri
                                    /\ TableCopy[id].manual = live[id].manual
<1> SUFFICES ASSUME NEW id \in Ids
             PROVE  /\ TableCopy[id] \in Saved \cup {None}
                    /\ TableCopy[id] = None <=> live[id] = None
                    /\ live[id] # None =>
                         /\ TableCopy[id].uri = live[id].uri
                         /\ TableCopy[id].manual = live[id].manual
  BY DEF TableCopy
<1>1. CASE live[id] = None
  BY <1>1 DEF TableCopy
<1>2. CASE live[id] # None
  <2>1. live[id] \in Camera
    BY <1>2 DEF LiveOK
  <2>2. TableCopy[id] = [addr |-> live[id].addr, uri |-> live[id].uri,
                         manual |-> live[id].manual]
    BY <1>2 DEF TableCopy
  <2>3. TableCopy[id] \in Saved
    BY <2>1, <2>2 DEF Camera, Saved
  <2> QED BY <1>2, <2>2, <2>3, DiscoveryAssumption
<1> QED BY <1>1, <1>2

LEMMA SaveInv ==
  ASSUME IInv, NEW t \in Threads, PersistAll(t) \/ Write(t) \/ Report(t)
  PROVE  FileOK' /\ FeedOK' /\ ThreadsOK' /\ WorkInv'
         /\ UNCHANGED <<outside, live, disturbed, control>>
<1> USE DEF IInv, At, Goes
<1>1. work[t] \in Work /\ WorkOK(work[t])
  BY DEF ThreadsOK, WorkInv
<1>2. CASE PersistAll(t)
  <2> DEFINE w == [work[t] EXCEPT !.at = "write", !.copy = TableCopy]
  <2>1. work' = [work EXCEPT ![t] = w] /\ disk' = Empty
    BY <1>2 DEF PersistAll, TableCopy
  <2>2. TableCopy \in [Ids -> Saved \cup {None}]
    BY CopyFacts
  <2>3. w \in Work /\ w.at = "write" /\ w.moved = work[t].moved
        /\ w.id = work[t].id
    BY <1>1, <2>2 DEF Work, Places
  <2>4. WorkOK(w)
    BY <1>1, <2>3 DEF WorkOK
  <2>5. ThreadsOK' /\ WorkInv'
    BY <2>1, <2>3, <2>4, WorkStep
  <2> QED BY <1>2, <2>1, <2>5, EmptyFacts DEF PersistAll, FileOK, FeedOK
<1>3. CASE Write(t)
  <2>1. disk' \in [Ids -> Saved \cup {None}]
    BY <1>1, <1>3 DEF Write, Work
  <2>2. CASE work[t].moved
    <3> DEFINE w == [work[t] EXCEPT !.at = "report"]
    <3>1. w \in Work /\ w.at = "report" /\ w.moved /\ w.id = work[t].id
      BY <1>1, <2>2 DEF Work, Places
    <3>2. WorkOK(w)
      BY <1>1, <2>2, <3>1 DEF WorkOK
    <3>3. work' = [work EXCEPT ![t] = w]
      BY <1>3, <2>2 DEF Write
    <3>4. ThreadsOK' /\ WorkInv'
      BY <3>1, <3>2, <3>3, WorkStep
    <3> QED BY <1>3, <2>1, <3>4 DEF Write, FileOK, FeedOK
  <2>3. CASE ~work[t].moved
    <3>1. work' = [work EXCEPT ![t] = Idle]
      BY <1>3, <2>3 DEF Write
    <3>2. ThreadsOK' /\ WorkInv'
      BY <3>1, StartFacts, WorkStep
    <3> QED BY <1>3, <2>1, <3>2 DEF Write, FileOK, FeedOK
  <2> QED BY <2>2, <2>3
<1>4. CASE Report(t)
  <2>1. work[t].id \in Ids /\ work[t].uri \in Uris \cup {None}
    BY <1>1, <1>4 DEF Report, WorkOK, Work
  <2>2. FeedOK'
    BY <1>4, <2>1 DEF Report, FeedOK
  <2>3. ThreadsOK' /\ WorkInv'
    BY <1>4, StartFacts, WorkStep DEF Report
  <2> QED BY <1>4, <2>2, <2>3 DEF Report, FileOK
<1> QED BY <1>2, <1>3, <1>4

LEMMA StepInv ==
  ASSUME IInv, NEW t \in Threads, Step(t)
  PROVE  IInv'
<1> USE DEF IInv
<1>1. CASE \/ \E d \in Devices : Identify(t, d) \/ Media(t, d)
           \/ Unresolved(t) \/ NoMedia(t)
  BY <1>1, ResolveInv DEF OutsideOK, LiveOK, FileOK, FeedOK, ControlOK,
                          outside, table, others, control
<1>2. CASE ApplyContact(t)
  BY <1>2, FoldInv DEF ApplyContact, OutsideOK, FileOK, ControlOK, outside,
                       control
<1>3. CASE PersistAll(t) \/ Write(t) \/ Report(t)
  BY <1>3, SaveInv DEF OutsideOK, LiveOK, ControlOK, outside, control
<1> QED BY <1>1, <1>2, <1>3 DEF Step

\* A thread starts work.
LEMMA BeginInv ==
  ASSUME IInv, NEW t \in Threads, NEW w \in Work, WorkOK(w), Begin(t, w)
  PROVE  ThreadsOK' /\ WorkInv' /\ disturbed' \in BOOLEAN
<1> USE DEF IInv
<1>1. ThreadsOK' /\ WorkInv'
  BY WorkStep DEF Begin
<1>2. disturbed' \in BOOLEAN
  BY DEF Begin, ControlOK
<1> QED BY <1>1, <1>2

LEMMA LoopInv ==
  ASSUME IInv, LoopBody
  PROVE  IInv'
<1> USE DEF IInv, Threads
<1>1. CASE \E d \in Devices : ReceiveMatch(d)
  <2> PICK d \in Devices, m \in net :
        /\ net' = net \ {m}
        /\ Begin(Loop, Resolving(m.addr, FALSE))
        /\ UNCHANGED <<location, asked, table, control>>
    BY <1>1 DEF ReceiveMatch
  <2>1. m.addr \in Addrs
    BY DEF OutsideOK, Datagrams
  <2>2. ThreadsOK' /\ WorkInv' /\ disturbed' \in BOOLEAN
    BY <2>1, StartFacts, BeginInv
  <2> QED BY <2>2 DEF table, others, control, OutsideOK, LiveOK, FileOK, FeedOK,
                      ControlOK
<1>2. CASE ReceiveHello
  <2> PICK m \in net :
        /\ net' = net \ {m}
        /\ \/ /\ Refreshes(m)
              /\ live' = [live EXCEPT ![FoundAs[m.dev]] =
                            [@ EXCEPT !.online = TRUE, !.age = 0]]
              /\ UNCHANGED <<work, disturbed>>
           \/ /\ ~Refreshes(m)
              /\ Begin(Loop, Resolving(m.addr, FALSE))
              /\ UNCHANGED live
        /\ UNCHANGED <<location, asked, others, control>>
    BY <1>2 DEF ReceiveHello
  <2>1. m \in Datagrams /\ m.addr \in Addrs
    BY DEF OutsideOK, Datagrams
  <2>2. CASE Refreshes(m) /\ UNCHANGED <<work, disturbed>>
             /\ live' = [live EXCEPT ![FoundAs[m.dev]] =
                           [@ EXCEPT !.online = TRUE, !.age = 0]]
    <3>1. LiveOK'
      BY <2>1, <2>2, HelloTable
    <3> QED BY <2>2, <3>1 DEF control, others, OutsideOK, FileOK, FeedOK,
                              ControlOK, ThreadsOK, WorkInv
  <2>3. CASE Begin(Loop, Resolving(m.addr, FALSE)) /\ UNCHANGED live
    <3>1. ThreadsOK' /\ WorkInv' /\ disturbed' \in BOOLEAN
      BY <2>1, <2>3, StartFacts, BeginInv
    <3> QED BY <2>3, <3>1 DEF control, others, OutsideOK, LiveOK, FileOK,
                              FeedOK, ControlOK
  <2> QED BY <2>2, <2>3
<1>3. CASE ReceiveBye
  <2> PICK m \in net :
        /\ net' = net \ {m}
        /\ live' = [id \in Ids |->
                      IF id \in Leaving(m)
                      THEN [live[id] EXCEPT !.online = FALSE, !.age = 0]
                      ELSE live[id]]
        /\ IF Leaving(m) # {} THEN Begin(Loop, Persisting)
                              ELSE UNCHANGED <<work, disturbed>>
        /\ UNCHANGED <<location, asked, others, control>>
    BY <1>3 DEF ReceiveBye
  <2>1. LiveOK'
    BY ByeTable DEF OutsideOK
  <2>2. ThreadsOK' /\ WorkInv' /\ disturbed' \in BOOLEAN
    <3>1. CASE Begin(Loop, Persisting)
      BY <3>1, StartFacts, BeginInv
    <3>2. CASE UNCHANGED <<work, disturbed>>
      BY <3>2 DEF ThreadsOK, WorkInv, ControlOK
    <3> QED BY <3>1, <3>2
  <2> QED BY <2>1, <2>2 DEF control, others, OutsideOK, FileOK, FeedOK, ControlOK
<1>4. CASE Heartbeat
  BY <1>4, HeartbeatTable, ProbedType DEF Heartbeat, control, others, OutsideOK, FileOK,
     FeedOK, ThreadsOK, WorkInv, ControlOK
<1> QED BY <1>1, <1>2, <1>3, <1>4 DEF LoopBody

LEMMA DockInv ==
  ASSUME IInv,
         \/ RequestScan
         \/ \E t \in Workers, a \in Addrs : AddManual(t, a)
         \/ \E t \in Workers, id \in Ids : RemoveManual(t, id)
         \/ \E id \in Ids : MapSource(id)
  PROVE  IInv'
<1> USE DEF IInv, Threads
<1>1. CASE RequestScan
  <2>1. Probed(Directed) \subseteq Devices
    BY ProbedType, DiscoveryAssumption
  <2> QED BY <1>1, <2>1, EventType DEF RequestScan, table, others, OutsideOK, LiveOK,
             FileOK, FeedOK, ThreadsOK, WorkInv, ControlOK
<1>2. CASE \E t \in Workers, a \in Addrs : AddManual(t, a)
  <2> PICK t \in Workers, a \in Addrs : AddManual(t, a)
    BY <1>2
  <2>1. ThreadsOK' /\ WorkInv' /\ disturbed' \in BOOLEAN
    BY StartFacts, BeginInv DEF AddManual
  <2> QED BY <2>1, EventType DEF AddManual, outside, table, others, OutsideOK, LiveOK,
             FileOK, FeedOK, ControlOK
<1>3. CASE \E t \in Workers, id \in Ids : RemoveManual(t, id)
  <2> PICK t \in Workers, id \in Ids : RemoveManual(t, id)
    BY <1>3
  <2>1. ThreadsOK' /\ WorkInv' /\ disturbed' \in BOOLEAN
    BY StartFacts, BeginInv DEF RemoveManual
  <2>2. LiveOK' /\ FeedOK'
    BY DEF RemoveManual, LiveOK, FeedOK
  <2> QED BY <2>1, <2>2, EventType DEF RemoveManual, outside, OutsideOK, FileOK,
             ControlOK
<1>4. CASE \E id \in Ids : MapSource(id)
  <2> PICK id \in Ids : MapSource(id)
    BY <1>4
  <2>1. live[id].uri \in Uris
    BY DEF MapSource, LiveOK, Camera
  <2>2. FeedOK'
    BY <2>1 DEF MapSource, FeedOK
  <2> QED BY <2>2, EventType DEF MapSource, outside, OutsideOK, LiveOK, FileOK,
             ThreadsOK, WorkInv, ControlOK
<1> QED BY <1>1, <1>2, <1>3, <1>4

LEMMA RestartInv ==
  ASSUME IInv, Restart
  PROVE  IInv'
<1> USE DEF IInv, Restart
<1>1. LiveOK'
  BY SeededType DEF LiveOK
<1>2. ThreadsOK' /\ WorkInv'
  BY StartFacts DEF ThreadsOK, WorkInv
<1>3. OutsideOK'
  BY ProbedType, DiscoveryAssumption DEF OutsideOK
<1>4. restarts' \in 0 .. MaxRestarts
  BY DiscoveryAssumption DEF ControlOK
<1> QED BY <1>1, <1>2, <1>3, <1>4 DEF others, FileOK, FeedOK, ControlOK

LEMMA NextInv ==
  ASSUME IInv, [Next]_vars
  PROVE  IInv'
<1>1. CASE \/ \E d \in Devices, a \in Addrs : DeviceMoves(d, a)
           \/ \E d \in Devices : DeviceLeaves(d) \/ Answer(d)
  BY <1>1, OutsideTypes DEF IInv, others, LiveOK, FileOK, FeedOK, ThreadsOK,
                                       WorkInv
<1>2. CASE UNCHANGED vars
  BY <1>2 DEF vars, outside, table, others, control, IInv, OutsideOK, LiveOK,
                         FileOK, FeedOK, ThreadsOK, WorkInv, ControlOK
<1> QED BY <1>1, <1>2, LoopInv, DockInv, StepInv, RestartInv DEF Next

LEMMA AlwaysInv == Spec => []IInv
  BY InitInv, NextInv, PTL DEF Spec

\* Every reachable state is well typed.
THEOREM TypeCorrect == Spec => []TypeOK
  BY AlwaysInv, PartsType, PTL

-----------------------------------------------------------------------------
(* Cameras added by hand.                                                  *)

\* As long as the table has them as manual.
ManualOnline ==
  \A id \in Ids : live[id] # None /\ live[id].manual => live[id].online

LEMMA ManualStep ==
  ASSUME IInv, ManualOnline, [Next]_vars
  PROVE  ManualOnline'
<1> USE DEF IInv, ManualOnline
<1>1. CASE UNCHANGED live
  BY <1>1
<1>2. CASE SameRows(live')
  BY <1>2 DEF SameRows
<1>3. ASSUME NEW t \in Threads, Step(t) PROVE ManualOnline'
  <2>1. CASE ApplyContact(t)
    BY <2>1, FoldInv
  <2>2. CASE ~ApplyContact(t)
    BY <1>1, <1>3, <2>2, ResolveInv, SaveInv DEF Step, table, others
  <2> QED BY <2>1, <2>2
<1>4. CASE LoopBody
  <2>1. UNCHANGED live \/ SameRows(live')
    BY <1>4, HelloTable, ByeTable, HeartbeatTable
       DEF LoopBody, ReceiveMatch, ReceiveHello, ReceiveBye, table, OutsideOK
  <2> QED BY <1>1, <1>2, <2>1
<1>5. CASE \E t \in Workers, id \in Ids : RemoveManual(t, id)
  BY <1>5 DEF RemoveManual, LiveOK
<1>6. CASE Restart
  BY <1>6, SeededType DEF Restart
<1>7. CASE \/ \E d \in Devices, a \in Addrs : DeviceMoves(d, a)
           \/ \E d \in Devices : DeviceLeaves(d) \/ Answer(d)
           \/ RequestScan \/ UNCHANGED vars
           \/ \E t \in Workers, a \in Addrs : AddManual(t, a)
           \/ \E id \in Ids : MapSource(id)
  BY <1>1, <1>7 DEF DeviceMoves, DeviceLeaves, Answer, RequestScan, AddManual,
                    MapSource, vars, table, others
<1> QED BY <1>3, <1>4, <1>5, <1>6, <1>7 DEF Next

LEMMA AlwaysManual == Spec => []ManualOnline
<1>1. Init => ManualOnline
  BY EmptyFacts, SeededType DEF Init, ManualOnline, FileOK
<1> QED BY <1>1, ManualStep, AlwaysInv, PTL DEF Spec

-----------------------------------------------------------------------------
(* As long as nothing overlaps, the table is told and saved.               *)

Matches(file) ==
  \A id \in Ids : /\ file[id] = None <=> live[id] = None
                  /\ live[id] # None => file[id].uri = live[id].uri
                  /\ byHand[id] = "new" => file[id].manual

\* What a mapped source has, up to the move that w owes.
Fed(w) ==
  \A id \in Ids \ lost :
    \/ feeds[id] = None
    \/ live[id] # None /\ ((w.moved /\ w.id = id) \/ feeds[id] = live[id].uri)

\* What was added by hand is so in the table.
Marks == \A id \in Ids : byHand[id] = "new" => live[id] # None /\ live[id].manual

\* The table is told and saved, up to what is left of the work w.
Settled(w) ==
  /\ Fed(w) /\ Marks
  /\ w.moved => live[w.id] # None /\ live[w.id].uri = w.uri
  /\ w.at \notin {"persist", "write"} => Matches(disk)
  /\ w.at = "write" => Matches(w.copy)

\* One thread at most is at work.
Alone(t) == \A u \in Threads \ {t} : work[u] = Idle
Calm == \E t \in Threads : Alone(t) /\ Settled(work[t])

CalmInv == ~disturbed => Calm

LEMMA CalmMeans ==
  ASSUME CalmInv
  PROVE  TableTold /\ TableSaved /\ (~disturbed => Marks)
<1> SUFFICES ASSUME ~disturbed PROVE MovesReported /\ FileCurrent /\ Marks
  BY DEF TableTold, TableSaved
<1> PICK t \in Threads : Alone(t) /\ Settled(work[t])
  BY DEF CalmInv, Calm
<1>1. MovesReported
  BY DEF Settled, Fed, MovesReported, Current, Owes
<1>2. FileCurrent
  BY StartFacts DEF Settled, FileCurrent, Matches
<1> QED BY <1>1, <1>2 DEF Settled

\* The thread that takes a step is the one.
LEMMA StepAlone ==
  ASSUME Calm, NEW t \in Threads, work[t].at # "idle"
  PROVE  Alone(t) /\ Settled(work[t])
  BY StartFacts DEF Calm, Alone

\* With no thread at work nothing is left to do.
LEMMA IdleSettled ==
  ASSUME Calm, \A t \in Threads : work[t] = Idle
  PROVE  Matches(disk) /\ Fed(Idle) /\ Marks
  BY StartFacts DEF Calm, Settled

\* A thread that starts, undisturbed, starts alone.
LEMMA BeginAlone ==
  ASSUME IInv, NEW t \in Threads, NEW w, Begin(t, w), ~disturbed'
  PROVE  /\ ~disturbed /\ \A u \in Threads : work[u] = Idle
         /\ work'[t] = w /\ Alone(t)'
  BY DEF IInv, ThreadsOK, ControlOK, Begin, Alone

LEMMA StillRows == SameRows(live)
  BY DEF SameRows

LEMMA RowsCalm ==
  ASSUME IInv, Calm, SameRows(live'), UNCHANGED <<others, work>>
  PROVE  Calm'
<1> PICK t \in Threads : Alone(t) /\ Settled(work[t])
  BY DEF Calm
<1>1. WorkOK(work[t])
  BY DEF IInv, WorkInv
<1>2. Settled(work[t])'
  BY <1>1 DEF Settled, Matches, Fed, Marks, SameRows, WorkOK, others
<1> QED BY <1>2 DEF Calm, Alone

LEMMA BeginCalm ==
  ASSUME IInv, CalmInv, ~disturbed', NEW t \in Threads, NEW w, Begin(t, w),
         ~w.moved, w.at # "write", SameRows(live'), UNCHANGED others
  PROVE  Calm'
<1>1. /\ ~disturbed /\ \A u \in Threads : work[u] = Idle
      /\ work'[t] = w /\ Alone(t)'
  BY BeginAlone
<1>2. Matches(disk) /\ Fed(Idle) /\ Marks /\ ~Idle.moved
  BY <1>1, IdleSettled, StartFacts DEF CalmInv
<1>3. Settled(work[t])'
  BY <1>1, <1>2 DEF Settled, Matches, Fed, Marks, SameRows, others
<1> QED BY <1>1, <1>3 DEF Calm

\* While it resolves, a thread changes nothing that was told or saved.
LEMMA ResolveCalm ==
  ASSUME IInv, Calm, NEW t \in Threads,
         work[t].at \in {"identify", "media"},
         \A u \in Threads \ {t} : work'[u] = work[u],
         ~work'[t].moved, work'[t].at \notin {"persist", "write"},
         UNCHANGED <<live, others>>
  PROVE  Calm'
<1>1. Alone(t) /\ Settled(work[t]) /\ ~work[t].moved
  BY StepAlone DEF IInv, WorkInv, WorkOK
<1>2. Alone(t)'
  BY <1>1 DEF Alone
<1>3. Settled(work[t])'
  BY <1>1 DEF Settled, Matches, Fed, Marks, others
<1> QED BY <1>2, <1>3 DEF Calm

LEMMA FoldCalm ==
  ASSUME IInv, Calm, NEW t \in Threads, ApplyContact(t)
  PROVE  Calm'
<1> DEFINE w == work[t]
           c == live[w.id]
<1>1. Alone(t) /\ Settled(w) /\ ~w.moved /\ w.id \in Ids /\ w.at = "apply"
  BY StepAlone DEF IInv, WorkInv, WorkOK, ApplyContact, At
<1>2. /\ Matches(disk) /\ Marks
      /\ \A id \in Ids \ lost :
           feeds[id] = None \/ (live[id] # None /\ feeds[id] = live[id].uri)
  BY <1>1 DEF Settled, Fed
<1>3. live' = [live EXCEPT ![w.id] = Folded(c, w)] /\ byHand' = Marked(c, w)
      /\ work' = [work EXCEPT ![t] = AfterContact(c, w)]
      /\ UNCHANGED <<disk, feeds, lost>>
  BY DEF ApplyContact, Goes
<1>4. /\ live'[w.id] = Folded(c, w) /\ live'[w.id] # None
      /\ \A id \in Ids \ {w.id} : live'[id] = live[id]
  BY <1>1, <1>3, FoldInv, DiscoveryAssumption DEF IInv, LiveOK
<1>5. work'[t] = AfterContact(c, w) /\ Alone(t)'
  BY <1>1, <1>3 DEF IInv, ThreadsOK, Alone
<1>6. /\ live'[w.id].uri = IF w.uri # None \/ c = None THEN w.uri ELSE c.uri
      /\ live'[w.id].manual = (w.manual \/ (c # None /\ c.manual))
  BY <1>4 DEF Folded
<1>7. /\ \A id \in Ids \ {w.id} : byHand'[id] = byHand[id]
      /\ byHand'[w.id] = "new" =>
           \/ byHand[w.id] = "new"
           \/ w.manual /\ (c = None \/ HasMoved(c, w))
  <2> HIDE DEF c
  <2> QED BY <1>1, <1>3 DEF Marked, IInv, FeedOK
<1>8. Marks'
  BY <1>2, <1>4, <1>6, <1>7 DEF Marks
<1>9. CASE c = None
  <2>1. work'[t].at = "persist" /\ ~work'[t].moved
    BY <1>5, <1>9, StartFacts DEF AfterContact
  <2>2. Fed(work[t])'
    BY <1>2, <1>3, <1>4, <1>9 DEF Fed
  <2>3. Settled(work[t])'
    BY <1>8, <2>1, <2>2 DEF Settled
  <2> QED BY <1>5, <2>3 DEF Calm
<1>10. CASE c # None /\ HasMoved(c, w)
  <2>1. /\ work'[t].at = "persist" /\ work'[t].moved
        /\ work'[t].id = w.id /\ work'[t].uri = w.uri
    BY <1>5, <1>10 DEF AfterContact, Persisting, Idle
  <2>2. w.uri # None
    BY <1>10 DEF HasMoved
  <2>3. Fed(work[t])'
    BY <1>2, <1>3, <1>4, <2>1 DEF Fed
  <2>4. Settled(work[t])'
    BY <1>4, <1>6, <1>8, <2>1, <2>2, <2>3 DEF Settled
  <2> QED BY <1>5, <2>4 DEF Calm
<1>11. CASE c # None /\ ~HasMoved(c, w)
  <2>1. work'[t] = Idle /\ work'[t].at = "idle" /\ ~work'[t].moved
    BY <1>5, <1>11, StartFacts DEF AfterContact
  <2>2. live'[w.id].uri = c.uri
    BY <1>6, <1>11 DEF HasMoved
  <2>3. Matches(disk)'
    BY <1>1, <1>2, <1>3, <1>4, <1>7, <1>11, <2>2 DEF Matches
  <2>4. Fed(work[t])'
    BY <1>2, <1>3, <1>4, <2>2 DEF Fed
  <2>5. Settled(work[t])'
    BY <1>8, <2>1, <2>3, <2>4 DEF Settled
  <2> QED BY <1>5, <2>5 DEF Calm
<1> QED BY <1>9, <1>10, <1>11

LEMMA SaveCalm ==
  ASSUME IInv, Calm, NEW t \in Threads, PersistAll(t) \/ Write(t) \/ Report(t)
  PROVE  Calm'
<1> USE DEF At, Goes
<1>1. /\ Alone(t) /\ Settled(work[t]) /\ work[t] \in Work /\ WorkOK(work[t])
      /\ work \in [Threads -> Work]
  BY StepAlone DEF PersistAll, Write, Report, IInv, ThreadsOK, WorkInv
<1>2. CASE PersistAll(t)
  <2>1. work' = [work EXCEPT ![t] = [@ EXCEPT !.at = "write", !.copy = TableCopy]]
    BY <1>2 DEF PersistAll, TableCopy
  <2>2. /\ work'[t].at = "write" /\ work'[t].moved = work[t].moved
        /\ work'[t].id = work[t].id /\ work'[t].uri = work[t].uri
        /\ work'[t].copy = TableCopy /\ Alone(t)'
    BY <1>1, <2>1 DEF Work, Alone
  <2>3. UNCHANGED <<live, feeds, lost, byHand>>
    BY <1>2 DEF PersistAll
  <2>4. Matches(work[t].copy)'
    BY <1>1, <2>2, <2>3, CopyFacts DEF IInv, Matches, Settled, Marks
  <2>5. Settled(work[t])'
    BY <1>1, <2>2, <2>3, <2>4 DEF Settled, Fed, Marks
  <2> QED BY <2>2, <2>5 DEF Calm
<1>3. CASE Write(t)
  <2>1. /\ UNCHANGED <<live, feeds, lost, byHand>> /\ disk' = work[t].copy
        /\ work[t].at = "write"
    BY <1>3 DEF Write
  <2>2. Matches(disk)'
    BY <1>1, <2>1 DEF Settled, Matches
  <2>3. CASE work[t].moved
    <3>1. work' = [work EXCEPT ![t] = [@ EXCEPT !.at = "report"]]
      BY <1>3, <2>3 DEF Write
    <3>2. /\ work'[t].at = "report" /\ work'[t].moved = work[t].moved
          /\ work'[t].id = work[t].id /\ work'[t].uri = work[t].uri
          /\ Alone(t)'
      BY <1>1, <3>1 DEF Work, Alone
    <3>3. Settled(work[t])'
      BY <1>1, <2>1, <2>2, <3>2 DEF Settled, Fed, Marks
    <3> QED BY <3>2, <3>3 DEF Calm
  <2>4. CASE ~work[t].moved
    <3>1. work' = [work EXCEPT ![t] = Idle]
      BY <1>3, <2>4 DEF Write
    <3>2. work'[t].at = "idle" /\ ~work'[t].moved /\ Alone(t)'
      BY <1>1, <3>1, StartFacts DEF Alone
    <3>3. Settled(work[t])'
      BY <1>1, <2>1, <2>2, <2>4, <3>2 DEF Settled, Fed, Marks
    <3> QED BY <3>2, <3>3 DEF Calm
  <2> QED BY <2>3, <2>4
<1>4. CASE Report(t)
  <2>1. /\ work' = [work EXCEPT ![t] = Idle] /\ UNCHANGED <<live, disk, byHand>>
        /\ feeds' = [feeds EXCEPT ![work[t].id] =
                        IF @ = None THEN None ELSE work[t].uri]
        /\ lost' = lost \ {work[t].id} /\ work[t].at = "report"
    BY <1>4 DEF Report
  <2>2. work'[t].at = "idle" /\ ~work'[t].moved /\ Alone(t)'
    BY <1>1, <2>1, StartFacts DEF Alone
  <2>3. /\ work[t].moved /\ work[t].id \in Ids
        /\ live[work[t].id] # None /\ live[work[t].id].uri = work[t].uri
    BY <1>1, <2>1 DEF WorkOK, Settled
  <2>4. /\ feeds'[work[t].id] \in {None, live'[work[t].id].uri}
        /\ \A id \in Ids \ {work[t].id} : feeds'[id] = feeds[id]
    BY <2>1, <2>3 DEF IInv, FeedOK
  <2>5. Fed(work[t])'
    BY <1>1, <2>1, <2>3, <2>4 DEF Settled, Fed
  <2>6. Matches(disk)' /\ Marks'
    BY <1>1, <2>1 DEF Settled, Matches, Marks
  <2>7. Settled(work[t])'
    BY <2>2, <2>5, <2>6 DEF Settled
  <2> QED BY <2>2, <2>7 DEF Calm
<1> QED BY <1>2, <1>3, <1>4

LEMMA StepCalm ==
  ASSUME IInv, CalmInv, NEW t \in Threads, Step(t)
  PROVE  CalmInv'
<1> SUFFICES ASSUME ~disturbed' PROVE Calm'
  BY DEF CalmInv
<1>1. ASSUME NEW d \in Devices, Identify(t, d) PROVE Calm'
  <2> DEFINE w == [work[t] EXCEPT !.at = "media",
                     !.id = IF work[t].manual THEN AddedAs[d] ELSE FoundAs[d]]
  <2>1. /\ work' = [work EXCEPT ![t] = w] /\ work[t].at = "identify"
        /\ UNCHANGED <<live, others, disturbed>>
    BY <1>1 DEF Identify, At, Goes, table, others
  <2>2. ~w.moved /\ w.at = "media"
    BY <2>1 DEF IInv, ThreadsOK, WorkInv, Work, WorkOK
  <2> HIDE DEF w
  <2>3. work'[t] = w /\ \A u \in Threads \ {t} : work'[u] = work[u]
    BY <2>1 DEF IInv, ThreadsOK
  <2>4. Calm
    BY <2>1 DEF CalmInv
  <2> QED BY <2>1, <2>2, <2>3, <2>4, ResolveCalm
<1>2. ASSUME NEW d \in Devices, Media(t, d) PROVE Calm'
  <2> DEFINE w == [work[t] EXCEPT !.at = "apply",
                                  !.uri = [dev |-> d, addr |-> work[t].addr]]
  <2>1. /\ work' = [work EXCEPT ![t] = w] /\ work[t].at = "media"
        /\ UNCHANGED <<live, others, disturbed>>
    BY <1>2 DEF Media, At, Goes, table, others
  <2>2. ~w.moved /\ w.at = "apply"
    BY <2>1 DEF IInv, ThreadsOK, WorkInv, Work, WorkOK
  <2> HIDE DEF w
  <2>3. work'[t] = w /\ \A u \in Threads \ {t} : work'[u] = work[u]
    BY <2>1 DEF IInv, ThreadsOK
  <2>4. Calm
    BY <2>1 DEF CalmInv
  <2> QED BY <2>1, <2>2, <2>3, <2>4, ResolveCalm
<1>3. CASE Unresolved(t)
  <2>1. /\ work' = [work EXCEPT ![t] = Idle] /\ work[t].at = "identify"
        /\ UNCHANGED <<live, others, disturbed>>
    BY <1>3 DEF Unresolved, At, Goes, table, others
  <2>2. work'[t] = Idle /\ \A u \in Threads \ {t} : work'[u] = work[u]
    BY <2>1 DEF IInv, ThreadsOK
  <2>3. Calm
    BY <2>1 DEF CalmInv
  <2> QED BY <2>1, <2>2, <2>3, StartFacts, ResolveCalm
<1>4. CASE NoMedia(t)
  <2> DEFINE w == [work[t] EXCEPT !.at = "apply"]
  <2>1. /\ work' = [work EXCEPT ![t] = w] /\ work[t].at = "media"
        /\ UNCHANGED <<live, others, disturbed>>
    BY <1>4 DEF NoMedia, At, Goes, table, others
  <2>2. ~w.moved /\ w.at = "apply"
    BY <2>1 DEF IInv, ThreadsOK, WorkInv, Work, WorkOK
  <2> HIDE DEF w
  <2>3. work'[t] = w /\ \A u \in Threads \ {t} : work'[u] = work[u]
    BY <2>1 DEF IInv, ThreadsOK
  <2>4. Calm
    BY <2>1 DEF CalmInv
  <2> QED BY <2>1, <2>2, <2>3, <2>4, ResolveCalm
<1>5. CASE ApplyContact(t)
  BY <1>5, FoldCalm DEF ApplyContact, CalmInv
<1>6. CASE PersistAll(t) \/ Write(t) \/ Report(t)
  BY <1>6, SaveCalm, SaveInv DEF CalmInv
<1> QED BY <1>1, <1>2, <1>3, <1>4, <1>5, <1>6 DEF Step

LEMMA LoopCalm ==
  ASSUME IInv, CalmInv, LoopBody
  PROVE  CalmInv'
<1> SUFFICES ASSUME ~disturbed' PROVE Calm'
  BY DEF CalmInv
<1> USE DEF Threads
<1>1. CASE \E d \in Devices : ReceiveMatch(d)
  <2> PICK d \in Devices, m \in net :
        /\ Begin(Loop, Resolving(m.addr, FALSE)) /\ UNCHANGED table
    BY <1>1 DEF ReceiveMatch
  <2>1. m.addr \in Addrs
    BY DEF IInv, OutsideOK, Datagrams
  <2> QED BY <2>1, StartFacts, StillRows, BeginCalm DEF table, others
<1>2. CASE ReceiveHello
  <2> PICK m \in net :
        /\ \/ /\ Refreshes(m)
              /\ live' = [live EXCEPT ![FoundAs[m.dev]] =
                            [@ EXCEPT !.online = TRUE, !.age = 0]]
              /\ UNCHANGED <<work, disturbed>>
           \/ /\ Begin(Loop, Resolving(m.addr, FALSE))
              /\ UNCHANGED live
        /\ UNCHANGED others
    BY <1>2 DEF ReceiveHello
  <2>1. m \in Datagrams /\ m.addr \in Addrs
    BY DEF IInv, OutsideOK, Datagrams
  <2>2. CASE Refreshes(m) /\ UNCHANGED <<work, disturbed>>
             /\ live' = [live EXCEPT ![FoundAs[m.dev]] =
                           [@ EXCEPT !.online = TRUE, !.age = 0]]
    <3>1. SameRows(live')
      BY <2>1, <2>2, HelloTable DEF IInv
    <3> QED BY <2>2, <3>1, RowsCalm DEF CalmInv
  <2>3. CASE Begin(Loop, Resolving(m.addr, FALSE)) /\ UNCHANGED live
    BY <2>1, <2>3, StartFacts, StillRows, BeginCalm
  <2> QED BY <2>2, <2>3
<1>3. CASE ReceiveBye
  <2> PICK m \in net :
        /\ live' = [id \in Ids |->
                      IF id \in Leaving(m)
                      THEN [live[id] EXCEPT !.online = FALSE, !.age = 0]
                      ELSE live[id]]
        /\ IF Leaving(m) # {} THEN Begin(Loop, Persisting)
                              ELSE UNCHANGED <<work, disturbed>>
        /\ UNCHANGED others
    BY <1>3 DEF ReceiveBye
  <2>1. SameRows(live')
    BY ByeTable DEF IInv, OutsideOK
  <2>2. CASE Begin(Loop, Persisting)
    BY <2>1, <2>2, StartFacts, BeginCalm
  <2>3. CASE UNCHANGED <<work, disturbed>>
    BY <2>1, <2>3, RowsCalm DEF CalmInv
  <2> QED BY <2>2, <2>3
<1>4. CASE Heartbeat
  BY <1>4, HeartbeatTable, RowsCalm DEF Heartbeat, IInv, CalmInv
<1> QED BY <1>1, <1>2, <1>3, <1>4 DEF LoopBody

LEMMA DockCalm ==
  ASSUME IInv, CalmInv, NEW t \in Workers,
         \/ \E a \in Addrs : AddManual(t, a)
         \/ \E id \in Ids : RemoveManual(t, id)
  PROVE  CalmInv'
<1> SUFFICES ASSUME ~disturbed' PROVE Calm'
  BY DEF CalmInv
<1>1. t \in Threads
  BY DEF Threads
<1>2. CASE \E a \in Addrs : AddManual(t, a)
  <2> PICK a \in Addrs : AddManual(t, a)
    BY <1>2
  <2> QED BY <1>1, StartFacts, StillRows, BeginCalm DEF AddManual, table, others
<1>3. CASE \E id \in Ids : RemoveManual(t, id)
  <2> PICK id \in Ids : RemoveManual(t, id)
    BY <1>3
  <2>1. /\ ~disturbed /\ \A u \in Threads : work[u] = Idle
        /\ work'[t] = Persisting /\ Alone(t)'
    BY <1>1, BeginAlone DEF RemoveManual
  <2>2. Fed(Idle) /\ Marks /\ ~Idle.moved
    BY <2>1, IdleSettled, StartFacts DEF CalmInv
  <2>3. /\ live'[id] = None /\ byHand'[id] = "no" /\ UNCHANGED feeds
        /\ \A i \in Ids \ {id} : live'[i] = live[i] /\ byHand'[i] = byHand[i]
        /\ lost \subseteq lost' /\ (feeds[id] # None => id \in lost')
    BY DEF RemoveManual, IInv, LiveOK, FeedOK
  <2>4. work'[t].at = "persist" /\ ~work'[t].moved
    BY <2>1, StartFacts
  <2>5. Fed(work[t])'
    BY <2>2, <2>3 DEF Fed
  <2>6. Marks'
    BY <2>2, <2>3 DEF Marks
  <2>7. Settled(work[t])'
    BY <2>4, <2>5, <2>6 DEF Settled
  <2> QED BY <1>1, <2>1, <2>7 DEF Calm
<1> QED BY <1>2, <1>3

\* A source that is mapped is given what the table has.
LEMMA MapCalm ==
  ASSUME IInv, CalmInv, NEW id \in Ids, MapSource(id)
  PROVE  CalmInv'
<1> SUFFICES ASSUME ~disturbed' PROVE Calm'
  BY DEF CalmInv
<1>1. /\ UNCHANGED <<live, disk, byHand, work>> /\ live[id] # None
      /\ feeds' = [feeds EXCEPT ![id] = live[id].uri] /\ lost' = lost \ {id}
  BY DEF MapSource
<1>2. PICK t \in Threads : Alone(t) /\ Settled(work[t])
  BY DEF MapSource, CalmInv, Calm
<1>3. Fed(work[t])'
  BY <1>1, <1>2 DEF Settled, Fed, IInv, FeedOK
<1>4. Settled(work[t])'
  BY <1>1, <1>2, <1>3 DEF Settled, Matches, Marks
<1> QED BY <1>1, <1>2, <1>4 DEF Calm, Alone

LEMMA RestartCalm ==
  ASSUME IInv, CalmInv, Restart
  PROVE  CalmInv'
<1> SUFFICES ASSUME ~disturbed' PROVE Calm'
  BY DEF CalmInv
<1>1. ~disturbed /\ \A t \in Threads : work[t] = Idle
  BY DEF Restart
<1>2. Matches(disk) /\ Fed(Idle) /\ Marks /\ ~Idle.moved
  BY <1>1, IdleSettled, StartFacts DEF CalmInv
<1>3. /\ live' = Seeded(disk) /\ UNCHANGED others
      /\ work' = [t \in Threads |-> Idle]
  BY DEF Restart
<1>4. /\ \A id \in Ids :
           /\ live'[id] = None <=> live[id] = None
           /\ live[id] # None => live'[id].uri = live[id].uri
           /\ byHand[id] = "new" => live'[id].manual
  BY <1>2, <1>3, SeededType DEF IInv, Matches, Marks
<1>5. PICK t \in Threads : TRUE
  BY DEF Threads
<1>6. work'[t].at = "idle" /\ ~work'[t].moved /\ Alone(t)'
  BY <1>3, StartFacts DEF Alone
<1>7. Matches(disk)' /\ Marks' /\ Fed(work[t])'
  BY <1>2, <1>3, <1>4 DEF Matches, Marks, Fed, others
<1>8. Settled(work[t])'
  BY <1>6, <1>7 DEF Settled
<1> QED BY <1>6, <1>8 DEF Calm

LEMMA CalmStep ==
  ASSUME IInv, CalmInv, [Next]_vars
  PROVE  CalmInv'
<1>1. CASE \/ \E d \in Devices, a \in Addrs : DeviceMoves(d, a)
           \/ \E d \in Devices : DeviceLeaves(d) \/ Answer(d)
           \/ RequestScan \/ UNCHANGED vars
  <2>1. UNCHANGED <<live, others, work, disturbed>>
    BY <1>1 DEF DeviceMoves, DeviceLeaves, Answer, RequestScan, vars, table, others
  <2> QED BY <2>1, StillRows, RowsCalm DEF CalmInv
<1> QED BY <1>1, LoopCalm, DockCalm, MapCalm, StepCalm, RestartCalm DEF Next

LEMMA AlwaysCalm ==
  Spec => [](TableTold /\ TableSaved /\ (~disturbed => Marks))
<1>1. Init => CalmInv
  <2> SUFFICES ASSUME Init PROVE Calm
    BY DEF CalmInv
  <2>1. /\ live = Seeded(disk) /\ disk = Empty
        /\ work = [t \in Threads |-> Idle]
    BY DEF Init
  <2>2. \A id \in Ids : /\ disk[id] = None /\ live[id] = None
                        /\ feeds[id] = None /\ byHand[id] = "no"
    BY <2>1, EmptyFacts, SeededType DEF Init, FileOK
  <2>3. PICK t \in Threads : TRUE
    BY DEF Threads
  <2>4. Alone(t) /\ work[t].at = "idle" /\ ~work[t].moved
    BY <2>1, StartFacts DEF Alone
  <2>5. Settled(work[t])
    BY <2>2, <2>4 DEF Settled, Matches, Fed, Marks
  <2> QED BY <2>4, <2>5 DEF Calm
<1> QED BY <1>1, CalmStep, CalmMeans, AlwaysInv, PTL DEF Spec

\* A camera that the table has as manual is online, whatever Byes, sweeps and
\* contacts come.  One that was new when it was added by hand, or was found at
\* a new address, is so through restarts too, as long as the work of two threads
\* has not overlapped and no restart has cut any short.
THEOREM ManualStays == Spec => []ManualStaysOnline
<1>1. ManualOnline /\ (~disturbed => Marks) => ManualStaysOnline
  BY DEF ManualOnline, Marks, ManualStaysOnline
<1> QED BY <1>1, AlwaysManual, AlwaysCalm, PTL

\* As long as that is so, the source mapped to a camera has the stream the table
\* has, unless a thread still owes the report, or the camera was removed from
\* the table after the source was mapped and the source not set since.
THEOREM TableIsTold == Spec => []TableTold
  BY AlwaysCalm, PTL

\* As long as that is so, cameras.json has the cameras of the table, and their
\* streams, whenever no thread is at work: a restart then loses nothing.
THEOREM TableIsSaved == Spec => []TableSaved
  BY AlwaysCalm, PTL
=============================================================================
