# A TLA+ verification project for the OBS ONVIF plugin

The plugin (C++, Windows, inside OBS Studio) finds ONVIF cameras on the
network, follows them when their address changes and rewrites the OBS media
sources that show them, and drives their pan / tilt / zoom from the dock,
hotkeys, scene changes and a C interface. This directory holds TLA+ modules
translated from that code, configurations that model-check them with TLC, and
proofs that TLAPS checks. Line numbers below are those of the repository
(`src/...`).

Contents: [inventory](#inventory), [modules](#modules), [runs](#runs),
[counterexamples](#counterexamples-kept-as-configurations),
[fairness](#fairness), [proofs](#proofs), [findings](#findings),
[known limits](#known-limits-of-the-code), [what is not modelled](#not-modelled),
[plan](#plan).

## Inventory

### Components

| component | state | operations | who calls it |
|---|---|---|---|
| PTZ dispatch governor, `registry/ptz_controller` | per camera: held command, Stop pending, last dispatched; settings; shutdown flag; count of dispatches; published abort handle | `Move`, `Stop`, `SetSettings`, `WaitIdle`, `Shutdown`; one control thread (`Loop`, `Dispatch`) | ABI (`AMove`, `AStop`), from UI thread, hotkey thread and other plugins |
| PTZ executor and abort handle, `obs/abi.cpp`, `registry/worker`, `onvif/soap_client` | request handle, signaled flag | `PtzExecutor`, `MoveAbortable`, `StopAbortable`, `SendPooled`, `DoRequest`, `AbortHandle::Attach / Detach / Signal` | the control thread; `Signal` by any thread in `Stop` |
| Apply policy, `registry/apply` | default and remembered policies, mappings, mirrored source URLs, one pending and one deferred incident | `OnIpChange`, `ApplyPending`, `IgnorePending`, `DeferPending`, `OnOutputsIdle`, setters | apply pipeline, UI thread only |
| Apply pipeline and prompt, `obs/obs_apply`, `obs/apply_prompt`, `obs/glue` | UI task queue (of OBS and Qt), `g_prompt`, output counter, the sources' settings | `OnDiscoveryMoved`, `OnCameraMoved`, `ApplySourceRewrites`, the dialog's buttons and countdown, `SetOutputActive`, `ReseedApplyState` | discovery's thread, OBS frontend events, the user |
| Discovery bridge, `obs/discovery` | live camera table (under a mutex), scan flag, socket, unresolved contacts | `LoopBody`, `HandleDiscoveryDatagram`, `ProcessContact / Hello / Bye`, `ResolveContact`, `ApplyContact`, `SweepStale`, `PersistAll`, `AddManual`, `RemoveManual`, `RequestScan` | its own thread; detached threads of the dock |
| Fingerprint and datagrams, `onvif/identity`, `onvif/ws_discovery` | none | `FingerprintFor`, `BuildProbe`, `ParseDatagram` | discovery |
| Stores, `registry/store` | `cameras.json`, `config.json`, `collection_<id>.json`, credential vault | load and save of each, truncate-then-write | discovery, dock, ABI, glue; no lock between them |
| Camera registry, `registry/registry` | camera map, mapping list | `SeenDevice`, mapping functions | unit tests only |
| Session worker, `registry/worker` | profile cache (60 s), last preset per camera | presets, moves, camera settings | ABI, from the threads below |
| SOAP transport, `onvif/soap_client`, `onvif/onvif_client` | connection pool per host, authentication cache | `Acquire`, `Release`, `Close`, `Send...`, `PostOperation` | worker, discovery |
| C ABI, `obs/abi` | `Backend` (collection, camera provider, worker, controller) under `Guard()`; table of function pointers | `Initialize`, `Shutdown`, `SetCollection`, camera / preset / binding / configuration calls | other plugins, dock, hotkeys, scene changes, glue |
| Dock, `obs/dock`: tabs Cameras, Sources, Presets, Config, PTZ, policy, diagnostics | widgets, `loadGen_`, what a form was read from | the user's clicks; detached threads, whose results are queued for the UI thread | the user, OBS |
| Hotkeys, scene presets | none | `OnMoveHotkey`, `OnPresetHotkey`, `OnSceneChanged` | OBS |
| Settings dialog | none | a form over `config.json` | the user |
| Plugin entry and OBS glue | | `Load`, `Unload`, frontend events | OBS |
| SHA-1, base64, XML helpers | none | pure functions | transport |
| Vendored code, schemas, tools | | | |

### How they interact

    datagrams --> Discovery loop --+            dock threads (add, remove)
                      |            |                 |
                      |       live table (mutex) <---+
                      |            |
                 cameras.json      | OnMoved, mutex released
                                   v
                     UI task queue --> ApplyPolicy --> media sources
                                   ^       |
                     outputs, user +--- dialog (30 s)

    dock pad, move keys, plugins --> ABI --> PtzController (mu_)
                                      |          |  control thread
                                      |      PtzExecutor --> Worker --> SOAP --> camera
                                      |                        ^
    Presets and Config tabs, preset --+-- detached threads ----'
    keys, bound scenes                |
                                      '--> Backend (Guard) --> collection_<id>.json
    Sources tab ------------------------------- no lock -------^

### What is hard here, and what correct means

* **PTZ governor.** Callers change the wish of a camera while one thread may be
  asleep, be picking, or be blocked in a request for another camera; `Stop`
  reaches over to the request in flight after it has released the mutex. Correct:
  what is sent is what is wanted when it is sent; a released camera stops; Stops
  are not starved; `WaitIdle` and `Shutdown` return; moves keep their interval.
* **Apply.** An incident is recorded, decided, prompted, deferred and applied at
  different times; in between, outputs start and stop, mappings change, the
  camera moves again, the dialog is closed but not yet deleted. Correct: nothing
  is rewritten while live without consent, nor to another camera's address, nor
  back to a dead one; nothing deferred is forgotten; with "always", or nothing
  running, sources follow their cameras.
* **Discovery.** Datagrams are lost, late and reordered; an address may pass to
  another camera between two SOAP calls; loop and dock threads fold into one
  table and then save and report without the mutex; OBS may crash in between.
  Correct: a camera that stays somewhere is found there, saved, and reported; a
  gone camera goes offline; one added by hand stays selectable.
* **Transport.** Threads share a connection and a cache; a request may be closed
  under its thread, lost after the camera has carried it out, or sent on a
  connection the camera has dropped. Correct: one user per connection, nothing
  sent after an abort, an undisturbed operation carried out once, everybody gets
  the connection in the end.
* **Config tab.** Reading a camera takes ten calls, writing it six, each in a
  thread of its own, while the user selects other cameras and discovery changes
  the table. Correct: a form is shown, and written, for the camera it was read
  from; what the user did not touch stays as it was; the tab comes to rest.
* **Presets tab and worker.** Lists, recalls and changes run at the same time,
  and tokens mean something on every camera. Correct: a button acts on the
  camera whose preset it shows; a cached profile that has become wrong does not
  last; the last preset is the one the camera obeyed.
* **Backend.** UI thread, other plugins and the control thread meet in `Guard()`;
  whole files are read, changed and written; scene collections change; the plugin
  is unloaded or OBS crashes. Correct: a file holds what was last asked of it, a
  scene recalls the preset of the active collection, a key's release stops what
  its press moved, unloading waits for the thread that needs the Guard, and for
  nothing else.

`PROJECT.json` lists each hazard at the line where it bites, with the properties
that cover it, and what they leave open or why none does.

## Modules

| module | models |
|---|---|
| `PtzGovernor` | abstract specification: wishes, the one request under way, motions |
| `PtzController` | `registry/ptz_controller`, with its callers, its executor and the cameras |
| `MCPtz` | instances of it |
| `PtzControllerProofs`, `PtzGovernorProofs` | theorems |
| `ApplyPolicy` | `registry/apply`: the policy's state and operations |
| `ApplyPipeline` | extends it with the UI thread, dialog, outputs, sources, restart |
| `MCApply` | instances of it |
| `ApplyProofs` | theorems about both |
| `Discovery` | `obs/discovery` with `SaveJson`, the dock's threads, the network and the devices |
| `MCDiscovery` | instances of it |
| `DiscoveryProofs` | theorems |
| `SoapTransport` | `onvif/soap_client` and `PostOperation` of `onvif/onvif_client`: pool, abort handle, authentication |
| `MCSoapTransport` | instance of it |
| `TransportProofs` | theorems |
| `ConfigPanel` | the dock's `ConfigWidget` with the calls of ABI, `Worker` and `OnvifClient` it makes |
| `Presets` | the dock's `PresetsWidget`, preset keys and scenes, `Worker`'s profile cache and last preset |
| `Backend` | `obs/abi`'s shared state and Guard, collection files, the Sources tab, scene and collection changes, move keys, unloading |
| `MCConfigPanel`, `MCPresets`, `MCBackend` | instances of them |
| `ConfigPanelProofs`, `PresetsProofs`, `BackendProofs` | theorems |

### PtzController

Everything under `mu_` is one step; `activeAbort_`, an atomic outside `mu_`, is
read and written in steps of its own. `pc` is the place of the control thread:

    wait --Wake--> picked --BeginDispatch--> exec --ExecSend--> sent --CameraObeys--> obeyed
     |  \-FloorWait-> floor -FloorOver-^      ^   \--------ExecFail---.        ExecReturn |
     |                                        |<-----Resend (once)-----\---------------- |
     Exit                                     '---Refire--- hold <------------------------'
     v                                                       | Released
    exit                      wait <--Finish-- done <--EndDispatch-- clear

* `states` is `states_` (an entry per camera from the start: an absent one and a
  released one behave alike). `hasDispatched` false is `lastDispatched = None`.
  Comparison of commands ignores the timeout, as `operator==` does.
* `Wake` needs no notification: every change that makes the predicate true is
  followed by one, and condition variables may wake spuriously. `WaitIdle` does,
  because the question there is exactly whether it is notified.
* `caller` is where a thread is between `Stop`'s unlock and its return: about to
  read `activeAbort_` (`load`), about to call `Signal` through it (`signal`), or
  holding a pointer whose target, a local of `Dispatch`, is gone (`dangling`).
  That last case is undefined behaviour: `Signal` then has no effect or hits the
  next dispatch's handle, which lives in the same stack slot.
* `ExecFail` is `exec_` returning with nothing done: aborted (`DoRequest` tests
  the flag before sending), or, unless `Reliable`, camera unknown, offline or
  silent. `Resend` is `SendPooled`'s single second attempt, which may repeat a
  request the camera has carried out. The executor's profile lookup, which no
  handle can abort, is part of `exec`.
* Time is two flags. `floorOpen` is `now >= lastMove + minIntervalMs`; picks of
  moves set `lastMove`, re-fires do not. `spaced` (history) is whether an interval
  has passed since a movement was last handed to `exec_`, re-fires included. A
  re-fire comes after at least one second, and the floor is taken to be at most
  one. The floor and the timeout are otherwise not numbers.
* `Shutdown` does not refuse later calls: what is queued after the thread has
  exited stays queued, as in the code.

### ApplyPolicy, ApplyPipeline

A URL is `[cam, n, ui]`, the `n`-th address of a camera with some userinfo, of
which there are two. Of `source_urls_` only the userinfo is ever used, so it is
what `sourceUrls` keeps; the user may edit a source in OBS (`EditSource`), after
which the mirror is stale (`Stale`).
`uiTasks` is the UI thread's queue: tasks of `obs_queue_task` and Qt's deferred
deletion of the closed dialog (`WA_DeleteOnClose`), after which `g_prompt` is
cleared. A task that is queued from the UI thread itself may run at once or
later; which, is OBS's choice and the constant-per-behaviour variable `inline`.
`prompt` has the camera that the text of the dialog names, which need not be that
of the pending incident: a later one replaces `pending_` and leaves the dialog.
`Reject` is Escape or the close button, which the dialog does not override:
it disappears and the incident stays pending. The dialog has no parent and is
window-modal (`apply_prompt.cpp:175-177`), so that the dock stays usable while it
is open. A change of scene collection is `ReseedApplyState` with
another table. `Restart` keeps what is saved (sources, mappings, default policy,
discovery's addresses) and loses the rest; remembered policies are never loaded
again by this code. Sources are not created or deleted, and the profile token of
a mapping, which the pipeline does not look at, is left out.

### Discovery

A stream URI is `[dev, addr]`: the stream of a device at an address. Threads are
the loop and the dock's detached threads; `work[t]` is what one is doing:
`identify` (GetDeviceInformation), `media` (GetProfiles, GetStreamUri), `apply`
(under the mutex), `persist` (copy under the mutex, then open the file, which
truncates it), `write`, `report`. `live` is the table, `disk` the file, `feeds`
the stream in the OBS source that is mapped to each camera, `None` if there is none.
It is set by `MapSource` (the Sources tab, from the table) and by each report, and
nothing else: a camera that is removed keeps its mapping and its source, and one
that is registered again is new, so that nobody is told where it is now.
History: `lost` has the cameras that were removed under a mapped source and
neither mapped nor reported since, `byHand` those added by hand, and whether they
were new, or at a new address, then; `disturbed` becomes true when work of two
threads overlaps, or a crash cuts work short.

* SOAP calls are answered by whoever has the address when they are made.
  A fingerprint is abstracted to what contact gave rise to it: `FoundAs` by a
  datagram (scopes known), `AddedAs` by hand (no scopes, `AddManual`, 837-841; `identity.cpp:41-48`).
  They are the same for a camera with a serial number (`MCDiscoverySerial.cfg`);
  one without is named by the MAC address in its scopes when it is found and by its
  hardware when it is added by hand, and then is in the table twice (`MCDiscovery.cfg`).
* `net` is a set with at most `MaxNet` datagrams: they are lost, delayed and
  reordered. The Hello listener switched off is every Hello and Bye lost.
* `age` counts heartbeats since an online camera was seen; it is stale after
  three intervals (`StaleBeats`; 544-552), and whether the third already counts
  depends on the loop's delays. The method is `Multicast` / `Directed`;
  `Firewall` is a firewall that passes answers to directed probes only, the case
  lines 599-601 describe.
* `RequestScan` and the loop that sees the flag are one step, and the startup's
  repeated probing is one probe that stays asked until it is answered.
  Credentials, the list of unresolved contacts, counters and the scan window
  are left out, and the socket is assumed to open (578-585: if it does not, the
  thread ends for good).

### SoapTransport

One camera, one host, so one pooled connection (`conn`); the threads that have
operations for it, one of which, the PTZ control thread, passes an abort handle.
`call[t].at` is the place of an operation:

    idle -Call-> acquire -Acquire-> request -OpenRequest-> attach -Attach-> check
      ^          ^   |  \-------------->|   (per call)      (control only)    | CheckSend
      |          |   |ConnectFails      |RequestFails                         v
    Decide       |   v                  v                                   flight
      '-------- replied <---------- leave <--EndRequest-- ended <-Receive, Lost, Closed
                 ^                    |
                 '--------------------' Leave (or once more: acquire)

* An answer is `ok`, `refused` (a fault of the operation), `rejected` (a 401 or
  a fault of the security header) or `error` (another status); the code cannot
  tell a refusal from a rejection, and neither does `Accepted`. What the camera
  accepts is `login`: a set of modes, empty when the credentials are wrong.
* Handles are values that WinHTTP gives out again. `Signal` takes the handle
  under its mutex and closes it afterwards (`SignalCloses`), and `EndRequest`
  closes the value it opened, whoever has it by then: the second close of one
  value may end a request of another thread, which is then sent again.
* `ConnectFails` stands for a host that WinHTTP will not connect to, `Lost` for
  a stale or broken connection, a silent camera and a timeout alike.
* `met` and `calm`, `first`, `sent`, `served` of an operation are history. An
  operation is `calm` while it is not aborted, nothing of it is lost or refused
  for another reason than its credentials, and those do not change.

`PtzController` has its own, coarser view of the same requests (`exec`, `sent`,
`obeyed`, `Resend`); that it is implemented by this module is planned.

### ConfigPanel

The widgets are the UI thread's: `rows` and `sel` (the selector), `form`,
`applyOn`, `status`. Threads are `load[l]`, which runs `LoadSnapshot`, and `job[j]`,
which runs the lambda of `ApplyChanges`; what is left of their calls is `todo`.

    Select, JobDone --LoadCurrent--> load: LoadStep*, Populate --> form, applyOn
                                     (dropped unless loadGen_ is still its own)
    ApplyChanges --> job: JobStep* (stream, image, net, host, ntp, osd), JobDone

* A setting is where its value comes from: camera `c`'s own, that as nearly as a
  widget can show it (`Near`), typed by the user, blank, off, or a constant of the
  request (`Fixed`). So a value that travels from one camera to another is visible,
  and numbers, texts and the structs of the ABI are not needed.
* `Unshown` are settings that the form does not have and the requests write all the
  same: Quality, EncodingInterval and SessionTimeout (`onvif_client.cpp:809-816`,
  947), whether the interface has IPv4 (1132), the type and position of an overlay
  (1250).
  `Inexact[c]` are the parts of camera `c` that a widget shows as another value: a
  rate or an imaging value of two decimals (`dock.cpp:1045-1052`), a disabled overlay
  (1349), a text that is longer than its field.
* `Services[c]` is what the camera exposes: calls for the rest fail and change
  nothing, so a thread's `todo` has the others only. `Media2`, `Fast`, `LongList`
  and `Bare` say how a camera's stream settings are read and where they do not
  fit the widgets (`form.lossy`): a Media2 camera has no range of rates, for which
  the form takes 1 to 30 (`PopulateStream`), and the ABI passes 16 sizes on.
* A superseded load only reads and is then dropped, so it is taken to have ended
  (`Superseded`). Options do not change, so they are one step with their setting.
* A write may be lost on its way or on its way back: `ok` implies `done`.
* `silent`, `form.edited`, `form.lossy`, and `shared` and `silent` of a job are
  history: what the properties have to except.

### Presets

`thread[t]` is a detached thread of the tab, of a preset key or of a bound scene:

    call --Lookup--> resolve --Resolve--> store --StoreCache--> send --Send--> remember | queued
           \---------- hit in profileCache_ -------------------^        --Remember, PopulatePresets--> idle

* `Lookup` is `RunCamera` and the fast path of `FirstProfileCached`, `Resolve`
  its two attempts with the erasure between them. A profile is a number that
  changes when the camera is set up anew (`SetUpAnew`); a request with another
  one is refused. `Expire` is the time to live running out, after which the entry
  is as good as none.
* `Sent` is the camera carrying out a request, its answer arriving or lost;
  `Remember` the second lock, after it.
* `RefreshPresets` clears the list before the new one arrives, and
  `PopulatePresets` does not ask which camera is selected: `raced` (history) is
  whether a list of another camera was on its way when the last refresh began.
* `of` of a thread (history) is the camera that listed its token; `served` and
  `known` are what a camera has obeyed and whether that can be known.

### Backend

`guard` is the holder of `Guard()` where a step is not short (a load, change and
save by the ABI, the start of `Shutdown`); `GuardFree` is a short use. `job[p]` is
a caller: the UI thread, on which the dock, the keys, the frontend events and
`Unload` run, or another plugin. Files are written in two steps, `Truncate` and
`Write`, and a file between them reads as empty (`LoadJson`). The Sources tab
(`op = "save"`) loads and writes without the Guard. A collection's file is reduced
to the camera of one source and the preset bound to one scene.

OBS's switch to another collection (`CollectionChanged`) and the frontend event for
it (`SetCollection`, `SetStoreContext`) are steps of their own, and the scene may
change in between: OBS raises `SCENE_CHANGED` for the new collection's scene before
`SCENE_COLLECTION_CHANGED`. That is a fact about OBS, taken as given; nothing
else of the UI thread's comes between. A bound scene starts a detached thread
(`runner`; one at a time is a bound), whose `RunCamera`, `MakeWorker` and
`GotoPreset` use the Backend without the Guard, as the code does.

PtzController is one pending command per camera here, and the hold and re-fire of
`Dispatch`: after a bounded move the control thread waits while the camera is
`held` and fires it again (`Refire`), even when `stopping`. `Bounded` is whether the
setting may make moves bounded; since it may be changed at any time, whether a
given move is one is left open (`Sent`, `MoveExpires`). The rest is in its own
module. `ReleaseKey` asks for the first online camera again, as `OnMoveHotkey` does.
`Unload` takes the controller out under the Guard, joins it without, and takes the
Guard again to drop the rest. `Restart` may come at any moment: after an unload, or
as a crash. `wanted`, `hurt` and `strayed` are history.

## Runs

All bounds are constants of the cfg files. Deadlock is not checked: callers,
devices and users stop at their bounds, and the control thread may exit.

| run | expects | states | question |
|---|---|---|---|
| `ptz_safety` | pass | 1 047 457 | Two callers, two cameras, four calls, all settings, changed at run time, a network that fails, shutdown at any time: books consistent, no wakeup lost, implements `PtzGovernor` |
| `ptz_queued` | pass | 23 920 | Queued stop, unbounded moves, cameras that answer: no runaway; Stops land, motions converge, `Shutdown` returns |
| `ptz_bounded` | pass | 47 740 | Bounded moves, both stop modes, a failing network: a released camera comes to rest |
| `ptz_immediate` | violation of `NoRunaway` | | the default settings, cameras that answer |
| `apply` | pass | 637 812 | Two cameras, sources and userinfos, two outputs, two tables and policies, a dialog answered in every way, edits of a source, one restart: consent by a dialog that names the camera, right camera, own credentials, auto-repair |
| `apply_stale` | violation of `NoStaleRewrite` | | one pending or deferred incident outlived by a newer one |
| `discovery` | pass | 195 208 | A camera that moves, goes and comes back, the dock adding, mapping and removing it, a restart or crash: tracked, saved, reported, offline when gone, added ones online |
| `transport` | pass | 720 840 | The control thread and another one, an operation each for one service, an abort, one change of credentials or settings: one user per connection, calm operations carried out once, accepted modes learned, aborted requests and all operations end |
| `config` | pass | 749 690 | Two cameras with different services (one of Media2), two loads and two jobs at a time, two events (calls that fail, changes of table, uses of the button): the right form, current, what was untouched kept as far as it is shown exactly, and rest at last |
| `config_wrong` | violation of `OwnForm` | | the same without the exception for a selector that changed silently |
| `presets` | pass | 1 085 413 | Two cameras with equal tokens, two threads, two events: unless a refresh was raced by another camera's list, the list is the selected camera's; the last preset is the one obeyed; a stale profile is replaced |
| `backend` | pass | 924 558 | Two cameras, two collections, two callers, a scene's thread and the control thread, moves bounded or not, four events (clicks, presses, plugin calls, table changes, lost requests, restarts): files keep, scenes recall, keys stop, calls return, unloading ends unless a bounded move is held |

Why the bounds suffice. The controller's hazards are between the control thread
and at most two callers (one that has read the handle, one that changes the
wish), and between two cameras (one in flight, one waiting); four calls
are two presses and two releases. Its invariants are
proved for every bound. In `apply` four events are, for
instance, a start, two moves and a stop; answers and the timer are free.
The code has one pending and one deferred incident, one dialog and one counter,
so two cameras and two outputs exercise every overwriting. In `discovery`
the pair of loop and one dock thread, two addresses and one stale datagram give
every overlap of two contacts; devices do not interact except by taking over an
address (safety was also explored with two devices, without a restart). Two
events, for instance leaving and returning elsewhere, and one restart, are the
shortest history in which file, table and network disagree; the camera has two
fingerprints. `MCDiscoverySerial.cfg` has four events, a restart and a camera with
one fingerprint, and checks the safety properties (1 299 237 states). `StaleBeats` is 1
instead of 3: only the order of heartbeat and answer matters. In `transport` an
operation is up to four requests (two modes, two attempts), so that one for
each thread already is a long history; two handles are what two threads hold at most.
In `config` and `presets` a race needs two threads and one event between them; the
two cameras differ in everything that decides what is shown, and every selection,
edit, refresh and reading is free of charge. In `backend` four events are, for
instance, a binding, a save, a change of collection and a crash, or a press, two
table changes and a restart.

Each property of a passing run has a mutant in `PROJECT.json`: a plausible slip
in a definition (they stand next to it, marked "a slip") for which the same run
fails.

## Counterexamples kept as configurations

Beside the runs above, nine configurations show that statements close to a checked
property are false of the code. Each names one property, which TLC violates within a
minute; in the module it stands next to the one that holds, whose exception it explains.
They are to be checked again when the code changes.

| configuration | statement | why the code breaks it |
|---|---|---|
| `MCPtzInterval` | `MinInterval`: an interval separates a movement from the one handed to `exec_` before it; `docs/USER_GUIDE.md:93` "a hard floor between movement commands", `IMPLEMENTATION_PLAN.md:815` | `lastMove` is set when a move is picked (`ptz_controller.cpp:165`), not when it is fired again (203-232): the next move may follow a re-fire at once |
| `MCPtzShutdown` | `ShutdownReturns` with bounded moves; `ptz_controller.h:76` "Stops accepting new work and joins the worker thread" | the loop of re-fires (211) ends when the camera is released, and does not look at `shutdown_` |
| `MCApplyDialog` | `ShownConsent`: "Apply now" writes sources of the camera the dialog names; `data/locale/en-US.ini:120` "Camera '%1' changed network address" | a second incident replaces `pending_` (`apply.cpp:182`) under an open dialog, whose text stays (`apply_prompt.cpp:95-116`) |
| `MCApplyCredentials` | `CredentialsStay`: a rewrite keeps the source's own credentials; `obs/obs_apply.h:15-16` "preserving embedded credentials from the source's current URL" | `BuildRewrites` splices in those mirrored when the state was seeded (`apply.cpp:157`), and they win (`obs_apply.cpp:93-95`) over what the user typed since |
| `MCDiscoveryManual` | `AddedStaysOnline`: so does every camera added by hand; `registry/camera.h:29-31` "stays \"online\" [...] regardless of multicast liveness" | one that discovery had found before becomes manual in the table only (`discovery.cpp:496-518`): it is saved if it also moved, so a restart forgets it |
| `MCDiscoveryReadded` | `RemovedToo`: a mapped source follows its camera, removed meanwhile or not; `PLAN.md:9` "rewrites the `input` URL of the existing OBS Media Source" | removal leaves mapping and source (`dock.cpp:310-327`, `discovery.cpp:866-881`); a camera found again is new, not moved (`discovery.cpp:480-493`, 525) |
| `MCConfigPanelEdits` | `OnlyEdits`: Apply changes what was edited; `docs/USER_GUIDE.md:113` "then applies your edits" | NTP, constants of the requests (`onvif_client.cpp:809-816`, 947, 1132, 1250), rounding (`dock.cpp:1045-1052`), a disabled overlay (1349) |
| `MCBackendScene` | `GotoOfActive`: every change of scene recalls the active collection's binding; `docs/USER_GUIDE.md:104-105` | the scene of a new collection changes (`glue.cpp:66-67`) before the ABI is told of it (77-81): the preset bound in the previous collection is recalled |
| `MCBackendDetached` | `NothingAfterUnload`: no Worker and no request after unloading; `obs/abi.cpp:50-51` "The caller must hold Guard()" | no caller does (72 against 185-191): a thread at work then uses a Worker that is dropped, or makes another |

## Fairness

* `PtzController`: the control thread runs and requests end (WinHTTP has a
  timeout on each phase), a thread inside `Stop` or `WaitIdle` goes on, time
  passes, a camera's own timeout expires. Never that anybody calls, that a
  camera answers, or that a button is released.
* `ApplyPipeline`: the UI thread runs what is posted, the dialog's timer ticks.
  Not that the user answers, or that outputs ever stop.
* `Discovery`: threads run and calls end; the heartbeat fires again and again
  (strongly: the loop is often busy); a device that is asked answers; of the
  matches and calls repeated for ever some get through (strong fairness of
  `ReceiveMatch`, `Identify`, `Media` of the loop). Nothing about Hellos, Byes,
  the dock or a manual scan.
* `SoapTransport`: threads go on (this includes that a thread whose turn it is
  gets the connection, and that WinHTTP fails a request whose handle is closed)
  and `Signal` closes what it took. No answer and no timeout is granted, so that
  `AbortEnds` is due to the closed handle alone; `CallsReturn` takes as its
  premise that requests do not stay unanswered for ever.
* `ConfigPanel`, `Presets`: detached threads go on, their calls end (each has a
  timeout), the UI thread handles what is queued for it; in `Presets` time passes
  (`Expire`). Not that the user does anything: `Settles` and `Heals` have that in
  their premises.
* `Backend`: callers, the frontend's events, a scene's thread and the control thread go on.
  `std::mutex` is not fair; weak fairness is enough because those who could keep
  somebody waiting are bounded. Not that keys are released or plugins call.

## Proofs

Every safety property that a passing run checks is also a theorem, for every value
of the constants that satisfies the module's `ASSUME`. These assumptions are:

| assumption | what it asks |
|---|---|
| `PtzAssumption` | camera ids are a finite set of naturals (the order of `states_`); commands, wishes and `None` are told apart |
| `PolicyAssumption`, `PipelineAssumption` | `None` is no camera or URL; the vault holds userinfos; finitely many outputs (they are counted) |
| `DiscoveryAssumption` | every device has a fingerprint of each kind; `None` is no address, fingerprint, URI or row; the loop is not a dock thread. No set is assumed finite |
| `TransportAssumption` | the control thread is one of the threads; `None` is none of them and no handle |
| `PanelAssumption` | the six values that are no camera's own setting differ; a table lists no camera twice |
| `PresetsAssumption` | finitely many cameras (so that a table may list them all); `None` is no camera and no token |
| `BackendAssumption` | the table lists no camera twice; `None` and `Torn` are no values of something else; `Bounded` is a Boolean |

Bounds are naturals everywhere. The pattern is the same throughout: an invariant
`IInv` that TLC has checked on the run's instance, one lemma for each action that it
preserves it, and the theorems from it. What `IInv` adds to the property is
the argument why the code is right:

* **`PtzControllerProofs`**. `IInv == TypeOK /\ ControlInv` is inductive.
  `TypeOK` alone is not: that `dispatching` stays a natural number needs that one
  dispatch is counted when `Finish` counts down, and that a picked command is a
  request needs that what is held has a command. From it `TypeCorrect`,
  `ControlConsistent`, `FloorNeverInVain` (the branch `if (!have) continue` is
  dead code: callers replace work under the sleeping thread but never take it
  away without leaving a Stop), and `IdleWakeupNotLost`: relative to `IInv`,
  `NoLostIdleWakeup` is preserved because only `Loop` empties the queue, and it
  keeps its dispatch counted until it notifies.
  `NeverRunsAway`: if nobody can choose immediate mode and
  requests are answered, `Spec => []NoRunaway`. `NoRunaway` is not inductive: it
  needs that nothing is ever aborted and that a move still in flight when its
  camera is released has that camera's Stop queued behind it (`QueuedInv`). Both
  conditions are needed: `ptz_immediate` drops the first, and a network that
  loses one Stop breaks it at once, since nothing repeats a Stop.
* **`PtzGovernorProofs`**: `ImplementsGovernor`, `Spec => LatestWins`. `Move` and
  `Stop` map to `Want`, a pick and a re-fire to `Issue`, `CameraObeys` to `Obey`,
  the return of `exec_` to `End`, everything else to a stutter. The heart is that
  a picked command equals the wish: a queued Stop means nothing is held
  (`ControlInv`), and a re-fire compares under the lock. A resent request is still
  the one that was issued: the governor does not promise that it is obeyed once,
  nor that it is still wanted by then.
* **`DiscoveryProofs`**. `IInv` is `TypeOK`, in parts, and what a thread knows by
  when: an address from the start, a fingerprint after `identify`, a move only
  between the fold and the report. It gives `TypeCorrect`. `ManualStays` is two facts:
  a row that is manual is online (`ManualOnline`: Hellos, Byes, sweeps and the loading
  of the file leave it so), and, undisturbed, a camera that was new or had moved when
  it was added by hand is still manual (`Marks`), restarts included, because it was
  saved as such.
  `TableIsTold` and `TableIsSaved` are proved together, since a restart rebuilds
  the table from the file and keeps it told only if it was saved. Neither says
  anything of a thread half way; the strengthening `CalmInv` does: undisturbed,
  one thread at most is at work, and the table is told and saved up to what is
  left of that thread's work (`Settled`): the stream that a source lacks is owed by
  that thread (`Fed`), the copy it is about to write matches the table (`Matches`), and
  before and after the save the file does; `Marks` holds all along. Without the condition both are false (see the known limits).
* **`ApplyProofs`**: `DialogConsistent`, `NeverUnasked`, `OnlyMapped`,
  `CredentialsKept`. `PipelineInv` is not inductive: that an address stays within its
  type needs that no camera has moved more often than there were events (`Counted`).
  Its clause on the dialog counts deletions in a queue, which is proved as "there is
  exactly one, if the dialog is closing" (`Books`) and turned into a number by one
  lemma (`CountDeletes`). `NeverUnasked` needs that no rewrite waits in the queue
  where tasks run at once (`Unwaiting`); it says that a button pressed is a button of
  the dialog that names the camera, and excepts a dialog whose camera is no longer the
  pending one (`Supplanted`). `CredentialsKept` says which credentials a rewritten
  source has: the vault's of its camera, else its own. It needs that every incident,
  queued, pending or deferred, carries the vault's credentials of its camera
  (`Vaulted`), and excepts sources whose mirror is stale.
* **`TransportProofs`**: `OneConnectionOneUser`, `ExactlyOnce`, `CacheLearnsWell`. One
  user per connection is inductive with "the flag is set for somebody" (`Turn`). For
  the other two every undisturbed operation keeps books (`CalmBooks`): what was sent,
  what the camera carried out, and that its answers tell what it accepts. `Told` says
  what an operation was told of the cache when it began, `Met` that a service that
  has answered once is in it, `Unsignaled` that an undisturbed operation is not aborted.
* **`ConfigPanelProofs`**: `RightCamerasForm`, `FormIsCurrent`, `UntouchedStays`. What the
  form shows is as good as the load that filled it, and what a job writes as good as
  the form it was given; the invariant follows the camera's settings through load,
  form and job. Between them stands `loadGen_`: a load that is not superseded is of
  the selected camera (`LoadsRight`) and has read what the camera is set to, unless a
  job is at work there (`LoadsCurrent`); two jobs of one camera know of each other
  (`JobsShare`). `UntouchedStays` is about parts that are read, shown exactly and not
  overwritten by a constant of a request (`Overwritten`), and about a job that is alone
  on its camera, with a form of it. `FormOfCamera`, that the button is not enabled on a form of no
  camera, turned out to be needed: otherwise an empty selector could have one.
* **`PresetsProofs`**: `ButtonsOfCamera`, `LastPresetIsServed`. `RightList` needs that, while
  the tab is not raced, every list on its way is the selected camera's (`ListsRight`)
  and that nothing but lists is queued for it (`OnlyLists`); `LastIsServed` that what a
  thread is about to store is what its camera last obeyed (`Remembers`).
* **`BackendProofs`**: `FilesKept`, `GotoOfCollection`, `ReleaseStops`.
  For the files: who binds holds the Guard until the last byte (`Turn`), at most one
  caller is at a file that is not hurt, and has in hand what was asked for (`Writes`),
  and rows that were read, not edited, are the mapping last saved (`RowsRight`), which
  is why a save of untouched rows is harmless even while another plugin's binding is
  being written. `GotoOfCollection` adds that the Backend's collection is OBS's between two
  frontend events (`Synced`), and is about scenes that change then. For the keys: unless something strayed, a pressed key's
  camera is still the first that is online, so that its release finds the same one,
  and whatever moves has its key down or its Stop queued or on its way (`Stops`); a
  move that is fired again after a hold is of a camera that is still held.
  A Stop that was picked is not dropped, as the Worker outlives the thread (`Ends`).

Only model-checked: the liveness properties (`StopLands`, `Convergence`, `ShutdownReturns`,
`RestsAfterRelease`, `AutoRepair`, `Tracked`, `FeedFollows`, `GoneGoesOffline`, `AbortEnds`,
`CallsReturn`, `Settles`, `Heals`), which need fairness and are out of the prover's reach,
and what the violation runs show.

## Findings

Details, with the quoted lines, are in `PROJECT.json`.

1. `ptz_immediate`: `Stop` queues its request, then signals whichever dispatch is
   current. If the control thread has picked that very Stop by then, the Stop
   aborts itself; its result is ignored and it is not retried: with the default
   settings the camera goes on moving with nothing queued.
2. `apply_stale`: a pending or deferred incident is written even after a newer
   one of the same camera was, and takes the source to a dead address.
3. `config_wrong`: a change of dock tab refills the Config tab's selector with its
   signals blocked; when the selected camera has left the table, another one is
   current, and Apply writes the first camera's form to it.

## Known limits of the code

Met while modelling. The properties except them, as named. Where a configuration is
named, it shows the limit ([above](#counterexamples-kept-as-configurations)).

PTZ. With bounded moves the next move may follow a re-fire at once
(`MCPtzInterval.cfg`), and `Shutdown`, and with it unloading, waits as long as a bounded
move is held, which is for ever when its release can no longer arrive: the hotkeys are
gone, or the camera is offline (`MCPtzShutdown.cfg`; `CallsReturn` excepts it). While one camera's bounded move is held, the control thread never leaves
`Dispatch` and other cameras' Stops wait (`ptz_controller.cpp:211`): `StopLands` is
claimed for unbounded moves. A Stop that waits in `Acquire` behind another thread's
request is out of reach of its abort handle. A Stop is not sent to a camera marked
offline since (`abi.cpp:123`), and a key's release looks for the first online
camera again (`hotkeys.cpp:103`), although the guide says "Press = move, release =
stop": `ReleasedStops` excepts tables that change in between. Unloading with a key
down leaves the camera moving.

Apply. A dialog that names one camera may write the sources of another
(`MCApplyDialog.cfg`), and a rewrite may undo an edit of the source's credentials
(`MCApplyCredentials.cfg`). A deferral made after the outputs have stopped is not re-offered until
another one has started and stopped (`apply_prompt.cpp:155`). An incident that is
queued, shown or deferred is lost by a restart (`glue.cpp:119`).

Discovery. Loop and dock thread may report two moves of one camera in the opposite
order of folding them (`discovery.cpp:526`): `TableTold` and `FeedFollows` speak of
work that did not overlap. Heartbeats are multicast only, so behind a firewall that
passes directed probes alone, later moves are not found (662): the run of `Tracked`
has no such firewall. A discovered camera that is added by hand becomes manual in
the table but is not saved as such unless it also moved (`MCDiscoveryManual.cfg`). A
camera that is removed and found again elsewhere leaves its source where it was
(`MCDiscoveryReadded.cfg`). A camera without a serial number has another fingerprint
when added by hand (840). The sweep's cutoff is
unsigned (546). When port 3702 does not open the thread ends for good (578).

Transport. The authentication mode is remembered after any delivered answer to the
second attempt (`onvif_client.cpp:247-250`), so that one refused operation or a
wrong password decides it until OBS restarts: `LearnsAccepted` speaks of
undisturbed operations. `SendWithAuthFallback`, which only tests call, is said to
fall back on a transport failure (`soap_client.h:136`) and does not.

Config tab. NTP is never read and always written, as "from DHCP" unless typed. The
constructor makes the first camera current without a signal, so nothing is loaded
until another one is selected: a single camera never is. Edits typed during a load or an
Apply are overwritten. "Applied" and "failed" are cleared at once by the load that
follows (`dock.cpp:1460-1466`). A camera without an overlay is sent a deletion that
fails, so every Apply on it counts as failed. Rates are cut to 30 where the camera
gives no range, the 17th and later sizes are lost on the way, widgets round to one
decimal, and a disabled overlay is shown as enabled: Apply then writes another value
(`lossy`). It also overwrites what the form does not show (`Unshown`;
`MCConfigPanelEdits.cfg`). Two Applies of one camera may interleave (`shared`).

Presets. A list that arrives after another camera was selected is shown for it
(`dock.cpp:643`, `raced`). Save, rename and delete refresh the list before their
thread is through. A failing operation leaves the cached profile in place for the
rest of its 60 s, where `IMPLEMENTATION_PLAN.md:810` has "refresh on SOAP error or
TTL". The last preset survives its deletion. `GetStreamUri2` has no fall-back to
the classic service.

Backend. `RunCamera` asks its caller to hold `Guard()` (`abi.cpp:50-51`); none does,
so that a detached thread may use a `Worker` while `Shutdown` drops it, or make a
new one (`MCBackendDetached.cfg`). The first scene of a new collection recalls what the
previous collection binds to a scene of that name (`MCBackendScene.cfg`). The Sources tab's save without the Guard loses a binding made at that
moment, writes the rows of the collection that was shown, and drops the mapping of
a camera that is not listed or a source that does not exist just then (`Hurts`). A
file torn by a crash is read as empty, and the next save makes it so. Two changes of
scene start two threads, which may arrive in either order. Dock threads capture
`this` and may outlive their widget.

## Not modelled

Registry (the running plugin does not use it), `SoapPool::Shutdown` (which closes
connections at unload), several hosts per camera, the settings dialog and
`config.json`, the credential vault, the diagnostics tab and the layout of the others,
the firewall rule, sockets and the building of probes (`onvif/ws_discovery`, whose
effect is in `Discovery`), and pure functions with unit tests (SHA-1, base64, XML,
envelopes, parsing). Reading and writing XML and JSON is data; where it matters (an
empty file, a missing scope, a value that does not fit) the model has its effect.
The thread of a bound scene is composed with unloading (`Backend`); those of the
Presets and Config tabs, which may outlive the Worker in the same way, or the dock,
are not.

## Plan

In order of importance.

1. Done: PTZ governor with its refinement and proofs; apply policy and pipeline;
   discovery with its proofs; SOAP transport; Config tab; Presets tab with the
   worker's caches; ABI, collection files, keys and unloading.
2. Done: a theorem for every safety property that a passing run checks.
3. `Incident`, the composition of `Discovery`'s table and `ApplyPipeline` with
   restarts: an abstract specification "every source follows its camera" and the
   loss of an incident between save and apply.
4. `SoapTransport` further: `PtzController`'s executor shown to be its client.
5. The registry, sequentially, against a reference definition.
