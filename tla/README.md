# ExternalPeepSight: TLA+ specification, model checking and proofs

ExternalPeepSight draws a crosshair overlay on one or several monitors. Two processes share the
work: a native **Host** (C++, Windows) owns the overlay windows, the input hooks and the Lua
scripts, and a settings **UI** (C#, Avalonia) edits the configuration and talks to the Host over
a named pipe. What makes the program hard is not what it draws but that six threads and two
processes keep one configuration in step: edits race with the Host's own changes, the Host
crashes and returns, input arrives twice or not at all, applying a configuration fails half
way, the graphics device is lost while a window waits for it, a save is interrupted, and the
rules of a script are written down twice, in two languages.

This directory models those parts, checks them with TLC on small instances and proves the
invariants of the central ones with TLAPS for every value of the constants.

Contents: [1 Components](#1-components) · [2 Modules](#2-modules) · [3 Runs](#3-runs) ·
[4 Proofs](#4-proofs) · [5 Known disagreements](#5-known-disagreements) ·
[6 Not modelled](#6-what-is-not-modelled) · [7 Possible extensions](#7-possible-extensions) ·
[8 How to run](#8-how-to-run)

Paths below leave out the leading `src/`; `Host/`, `UI/` and `Core/` stand for
`src/ExternalPeepSight.Host/`, `.UI/` and `.Core/`.

## 1 Components

| Component | Source | State | Operations | Module |
|---|---|---|---|---|
| Snapshot batcher | `UI/Services/SnapshotApplyBatcher.cs` | batch being collected, batch being sent, worker task, newest version | queue, 16 ms window, send, answer, dispose | `SnapshotBatcher` |
| Configuration workspace | `UI/Services/ConfigurationWorkspace.cs` | document, last document the Host accepted, next version, selection | edit, adopt Host state, observe an answer, revert | `ConfigSync` (versions and order), `Profiles` (contents and selection), `ConfigStore` (saves) |
| Host client | `UI/Services/HostClient.cs` | stream, registered requests, connection and receive loop, elevation mode | connect, Hello, GetState, request, receive, reconnect, restart the Host, dispose | `ConfigSync`, `ProcessLifecycle` (finding and restarting Hosts) |
| Pipe server, IPC state, session | `Host/named_pipe_server.cpp`, `Host/ipc_protocol.cpp` | version, snapshot, revision; one session per connection | serve, authenticate, apply, publish, notify, restart | `ConfigSync` |
| Input thread | `Host/input_system.cpp` | keys down per source, switches, holds, bindings, registered hotkeys, published state | hook, Raw Input, WM_HOTKEY, poll, reset, apply with roll-back | `InputSystem`; which documents have a plan: `InputPlan` |
| Script coordinator | `Host/script_coordinator.cpp` | task queue, active runtime, prepared runtimes | prepare, commit, discard, dispatch input, stop; parse a candidate | `ScriptCoordinator`, `ScriptCandidate` |
| Lua runtime | `Host/script_runtime.cpp` | Lua state, declarations, values | load, merge values, call back, interrupt | `ScriptDeclarations` (loading) |
| Window thread: applying | `Host/prototype_app.cpp` | render and input configuration, current snapshot, visibility of switches and scripts | apply a snapshot of the UI or of a script, roll back, publish, close | `HostWindow` |
| Window thread: overlays | `Host/prototype_app.cpp` | overlay windows, toast timer, published host snapshot | start, rebuild_overlays, toasts, display change, shutdown | `OverlayWindows` |
| Render thread | `Host/prototype_app.cpp`, `Host/render_state.cpp` | request and its generation, device, decoded image, surfaces, recovery state | prepare, release, rebuild, recover, stop | `RenderThread` |
| Worker threads | `Host/host_threads.cpp` | state, stop token, failure | start, request_stop, join, run | `HostWorker` |
| Toast queue | `Host/render_state.cpp` | active toast, pending toasts | push, advance | `ToastQueue` |
| Script editor | `UI/ViewModels/ScriptEditorViewModels.cs` | target and script being edited, validation under way | validate, merge declarations, store, disable, delete; values, keys, switches | `ScriptEditor` |
| Document validation | `Core/ConfigurationValidation.cs` | none | accept or refuse a document | `DocumentValidation`; profiles and sets: `Profiles` |
| Configuration store | `Core/AtomicConfigurationStore.cs` | configuration, backup and temporary file, debounced saves | load, save, debounced save | `ConfigStore` |
| Process lifecycle | `UI/Services/HostProcessManager.cs`, `HostEndpoint.cs`, `Host/single_instance.cpp`, `ipc_endpoint.cpp`, `process_lifecycle.cpp` | endpoint file, graceful-exit marker, instance mutex, processes | find or start, elevate, restart, exit, crash | `ProcessLifecycle` |
| Profiles and sets | `UI/Services/ConfigurationWorkspace.cs`, `Host/script_command_configuration.cpp` | profiles, sets, assignments, selection | add, delete, assign, activate, select, switch by script | `Profiles` |
| Packages | `Core/EpsxArchive.cs`, `UI/ViewModels/ViewModels.cs` | preview of an import | merge, preview, confirm, cancel | `Profiles` |

`PROJECT.json` lists the remaining parts (monitors, tray, view models, themes, entry points,
vendored Lua) with the reason each is left out.

### How they interact

```
 UI process                                     Host process
 ----------                                     ------------
 UI thread: ConfigurationWorkspace              IPC thread: named_pipe_server, session
   | QueueSnapshotAsync      ^ posts              | holds IpcHostState's mutex while it waits
   v                         |                    v           ^ notification thread
 SnapshotApplyBatcher (pool) |   named pipe     window thread: OverlayApplication
   | send                    |  <-------->        | apply/rollback   | request+wait     ^ posted
   v                         |                    v                  v                  | updates
 HostClient: connection loop, receive loop      input thread      render thread     script thread

 on disk: configuration and backup (UI), endpoint file and exit marker (Host writes, UI reads)
```

* The UI never waits for the Host on its own thread; everything returns as a post to it.
* The IPC thread waits for the window thread with the mutex held; the window thread needs that
  mutex to publish what a script switched to. The waits are bounded by time-outs.
* The window thread waits for the input, script and render threads without a time-out. None of
  them waits for the window thread: they post messages to it.
* The two processes find each other only through the endpoint file; the exit marker is how the
  UI tells an exit its user asked for from a crash.

### What makes each part correct

* *Batcher*: every call is answered exactly once, nothing queued is stranded, versions go out
  in order, whatever interleaving of callers, worker and disposal.
* *Synchronisation*: an acknowledgement means the configuration is in force; answers reach the
  batch that asked; versions never repeat; the client comes back; an empty Host is filled.
* *Input*: the merger and the two state machines agree on the keys that are down although each
  keeps its own record; the hotkeys the system holds are those of the plan even when a roll-back
  fails; each press told to a script is followed by its release.
* *Applying*: scripts, render configuration and reported state are of one configuration
  whenever the window thread is between two messages.
* *Overlays*: the render thread never draws to a window that is gone, for a snapshot that is
  replaced, or with a device that is lost; nobody waits for good.
* *Scripts*: what the UI's validator lets into the document is what the Host's parser, script
  loader and binding plan take, however scripts were merged, changed and disabled.
* *Store*: a crash leaves the last completed save to be loaded; the last edit stays saved.
* *Lifecycle*: one Host serves and the endpoint file names it; an exit is told from a crash; the
  client ends with a Host of the mode last asked for.
* *Profiles*: what the scripts of the Host make of a document is one the UI takes; a merge loses
  neither side; the selection exists.

What is hardest to test is listed, with its line, under `hazards` in `PROJECT.json`. Section 5
lists where the code does not do what a document says.

## 2 Modules

```
SnapshotDelivery   <--refines--  SnapshotBatcher   <--extends--  ConfigSync
ScriptCoordinator  <--extends--  HostWindow
HostWorker  <--extends--  RenderThread  <--extends--  OverlayWindows  --extends-->  ToastQueue
ScriptDeclarations <-- ScriptCandidate <-- InputPlan <-- DocumentValidation <-- ScriptEditor
InputSystem      ConfigStore      ProcessLifecycle      Profiles
```

Data is abstracted to what the properties tell apart: a configuration is a model value or a
number, a message a record of the fields its handler reads, a key a model value. Control is
kept: each action is one handler, or the part of it between two places where other threads run
(a lock taken, an `await`, a wait on a condition variable, a message posted or sent, an operation
of the file system).

**`SnapshotDelivery`** says what the batcher promises: callers offer increasing versions, some
are delivered in order, a delivery answers every call it supersedes with one outcome. It has no
worker, window or queue.

**`SnapshotBatcher`** (`SnapshotApplyBatcher.cs`). `pending`, `inflight`, `worker` and
`highestVersion` are the fields; `results` is the state of each caller's completion source. The
sections under the lock are the actions `QueueAsync`, `TakeBatch`, `Recheck`, `AbandonBatch`;
`Complete` is the send, with any outcome; the 16 ms delay is the worker state `"window"`.

**`ConfigSync`** composes the batcher with everything a snapshot passes through. Sending is
refined to a request over the pipe (`SendApply`, `ReceiveAnswer`, `SendFails`): these actions are
the batcher's own with what the client adds, so that the batcher's invariant carries over.
`Edit` and `HandlePost` are the UI thread; `Observe...` and `Revert` the continuations on the
thread pool, which read `Document` and write it in two steps; `Connect` ... `LoopRestarts` the
connection loop; `Receive`, `ReceiveEnds` the receive loop; `HandleRequest`, `WriteReply` the
IPC thread, `NotifyRead`, `NotifyWrite` the notification thread, which reads the state under one
mutex and writes to the pipe under another; `Publish` a change a script made; `Crash` the Host.
A document has a content and whether it was made in the UI or parsed from the Host, because the
code tells documents apart by reference.

**`InputSystem`** (`input_system.cpp`) is the input thread and the system around it. `Press` and
`Release` are the physical event: the hooks run and post at once, Raw Input is queued, the
registered hotkeys fire; each source may miss an event (bounded). `HandlePosted`, `HandleRaw`,
`PollStart` and `PollStep` are the thread, in the order in which `GetMessage` delivers. `Apply`
is `apply_configuration_on_thread` with its four ends: refused, replaced, rolled back because a
hotkey could not be registered, lost because the roll-back failed too. `DeviceOrSessionChanges`
and `RawInputFails` reset the pressed keys or one source. `build_input_binding_plan` and
`rebuild_visibility` are operators (`PlanOf`, `RawBindings`, `PlanFails`, `Visible`).

**`ScriptCoordinator`** (`script_coordinator.cpp`) is the script thread: one queue, `prepare`,
`commit` (which drops *all* prepared candidates), `discard` and input events. What Lua computes
is open: any script may fail to load, hide the overlay, or ask for another profile.

**`HostWindow`** (`OverlayApplication` in `prototype_app.cpp`, `IpcHostState::apply`). `win` and
`ipc` are the program counters of the window and IPC threads together with what they hold on
their stacks. `HandleSnapshot`, `Rebuild`, `CommitDone` / `CommitFailed`, `RollBack`,
`DiscardDone` are `apply_snapshot`, cut where it waits for another thread; `CommandsPrepared` and
`PublishSnapshot` are `apply_script_commands`. The IPC thread keeps the mutex of `IpcHostState`
from `ReceiveSnapshot` to the answer, so `PublishSnapshot` is guarded by `MutexFree`. `TimeOut`
is the end of `SendMessageTimeout` before the answer, `InputTimedOut` that of the call to the
input thread; both leave a handler with a reference to a dead stack frame. Using it is undefined
behaviour: the process may go on or die (`DieOfDangling`).

**`HostWorker`** (`host_threads.cpp`) models `start`, `run`, `request_stop` and `join`. In
`start` the predicate and the falling asleep are two steps (`CheckStarted`, `FallAsleep`),
because `run` announces the state without the mutex. **`RenderThread`** is the body of the
worker that draws: one request at a time with its generation, preparation, drawing, recovery of
the device in four steps (`FindLost`, `ReleaseLost`, `Recreate` or `RecoveryFails`), death.
**`ToastQueue`** is `ToastQueue` of `render_state.cpp`: one active toast, pending ones by
priority and arrival, replacement by key. **`OverlayWindows`** is the window thread over the
three: `rebuild_overlays` is `Rebuild` (ask to prepare) -> `Prepared` (ask to release) ->
`Replaced` (new windows, publish, ask to draw) -> `RebuildDone`, each with its failure; `Apply`,
`DisplayChanged`, `ShowToast`, `AdvanceToasts` start it; `Close` -> `ReleaseLast` ->
`DestroyWindows` -> `StopWorker` -> `JoinWorker` is `shutdown`.

The next five are one chain, from the Host's view of a script to the editor that makes it. They
hold no state but the last; a Lua value is a record with its type, so that what the C++ code
reads field by field is an operator on values.

**`ScriptDeclarations`** (`script_runtime.cpp`): the readers of a descriptor (API version,
bindings and default keys, settings with ranges and options, the layout with its sections,
controls and conditions), each as a pair of "is accepted" and "what is read", and the merge of
stored values. **`ScriptCandidate`** (`script_coordinator.cpp`): the answer to a validation
request, the parsing of stored scripts, their comparison with what the source declares now, and
the stack of a configuration. **`InputPlan`** (`input_system.cpp`): which switches and script
bindings have a binding plan: keys that parse, are not reserved, are used once, can be registered
or polled. **`DocumentValidation`** (`ConfigurationValidation.cs`): the same rules as the UI
states them, on the stored document and with its own limits. Where both programs state the same
rule of two declarations the operator is shared; everywhere else each has its own.
**`ScriptEditor`** (`ScriptEditorViewModels.cs`): `Validate` sends a source and remembers the
script as it is; `StoreValidated` merges the answer into that remembered script and stores it in
the document of *now* (`MergeDeclarations`, `Upsert`, `ApplyStack`); `DisableAssignment`,
`DeleteAssignment` and the edits of values, keys, switches and profiles go on in between. Every
change passes `UpdateDocument`, that is the validator. `StoredScript` and the operators around it
translate no code: they say which scripts an earlier session may have left.

**`ConfigStore`** (`AtomicConfigurationStore.cs`, saves of `ConfigurationWorkspace`): a save is
`DelayEnds` (300 ms, then the token is looked at), `EnterGate`, `WriteTemporary`, `Flush` and then
`MoveFirst`, or `KeepOld` and `ReplaceOld`, the two renames of `File.Replace`. Several saves
overlap until the gate; `Publish` and `Dispose` cancel the older ones. `Killed`, `PowerFails`
(loses what was not flushed), `SaveFails` (an exception at any step) and `Damage` share one bound.

**`ProcessLifecycle`**: `hosts` maps each process identifier to the phase of the Host that has
it, from `Acquire` (mutex) over `Clear` (old marker), `Publish` (endpoint file) and `Serve` to
`ShutDown` (marker, pipe, file, in that order) and `Release`; a second Host ends at `Acquire`.
`CheckMarker`, `FindHost`, `FindNone`, `Launch`, `Connect`, `SendHello`, `AfterHello`,
`LoseConnection` and `Delay` are the loop of `HostClient` with the decisions of
`HostProcessManager`. The stream is there from `Connect` on, so `SetMode` may write a RestartHost
before Hello. What a UI that ends has written stays in the pipe; the Host reads it in vain, since
it restarts only after the answer is written (`ClientGone`). `Crash` leaves
the endpoint file, and `OtherProgram` may get the identifier it names. The pipe carries Hello and
RestartHost only.

**`Profiles`**: every operation of the workspace on profiles and sets that the UI calls, the
merge of a package, its preview and confirmation, `Run` for the switches of a script
(`script_command_configuration.cpp`), and the documents both sides then take from each other.
The selection is kept apart from the document, as in the code. Of keys the module holds which ones
the switches and scripts of a profile (`KeysOf`), the scripts of a set and the global ones bind:
no key may be bound twice in what is active. Two programs see to that: `Valid` is the UI's
validator (`ValidateActiveInputConflicts`), `HostMayRun` the Host's binding plan, which refuses a
switch before it is published. A refused edit leaves document and selection alone
(`EnsureSelection`), except where the code goes on to set the selection: after the refused
deletion of a profile, the one that would have replaced it is shown. A package brings no global
scripts and is validated with those of the document (`Imported`), and the merge once more.

Operators named `Mut...` (and `EarlyReturned`) are mutated forms of the definitions next to them;
no specification uses them. They are what `PROJECT.json` "mutants" puts in place of the definition
to see that the property notices.

The MC modules only name an instance; the constants are in the `.cfg` files. `MCInputSystem`
also defines the four configurations of its instance, `MCProfiles` the first document, the
packages and the commands, `MCScriptEditor` the descriptors: five that scripts are made of and
one for each rule a declaration can break, with `ASSUME`s that those are refused.

## 3 Runs

| Run | Configuration | States | Checks |
|---|---|---|---|
| `batcher` | `MCSnapshotBatcher.cfg` | 1 371 | 3 |
| `sync` | `MCConfigSync.cfg` | 563 484 | 5 |
| `input` | `MCInputSystem.cfg` | 197 707 | 5 |
| `window` | `MCHostWindow.cfg` | 496 324 | 6 |
| `render` | `MCOverlayWindows.cfg` | 396 204 | 7 |
| `scripts` | `MCScriptEditor.cfg` | 28 264 | 2 |
| `process` | `MCProcessLifecycle.cfg` | 191 287 | 4 |
| `store` | `MCConfigStore.cfg` | 18 488 | 3 |
| `profiles` | `MCProfiles.cfg` | 246 968 | 4 |
| `start_hangs` | `OverlayWindows_StartReturns.cfg` | violation | 1 |
| `restart_loses_host` | `ProcessLifecycle_RestartBringsHost.cfg` | violation | 1 |
| `import_loses_edit` | `Profiles_ImportKeepsProfiles.cfg` | violation | 1 |

### What they show, and the bounds

**batcher.** `WaitingCallsAreOwned` (each waiting call is in exactly one of the two batches),
`EveryCallAnswered` (liveness, disposal included) and `DeliverySpec` (refinement). Bounds: 4
versions, 2 snapshots: enough for a batch of two behind a batch in flight and one call after it,
which is every shape the lock can meet.

**sync.** `SyncInv` is the type invariant and three facts: the UI's counter never collides with
versions the Host made, so the exception on the UI thread is not thrown (`NextVersionIsFresh`); a
refused snapshot is not what the Host runs (`RefusedLeavesNoTrace`); what is in the pipe belongs
to the batch being sent, across reconnects (`AnswersMatchBatch`). `AckedIsInForce`: an
acknowledged call is in force or superseded in the Host that acknowledged. `EveryEditAnswered`,
`EmptyHostIsConfigured` and `AlwaysReconnects` are the liveness, under `FairSyncSpec`. Bounds: 4 versions, 3 contents, one crash, one change by a script. One crash
and one foreign version each already overlap with an edit in flight and one in the next batch.

**input.** `PressedAgree`, `HoldDrivesSwitch`, `ScriptsArePaired`, `HotkeysMatchPlan` and
`HoldsEnd` (a hold ends when the key is up, unless a release missed a source). Bounds: an
ordinary key, a modifier and a mouse button; 2 presses, one lost event, one reset, two applied
configurations out of four (a hotkey with a hold; a hold with a switch that has one key to enable
and one to disable; everything through the hooks; a conflict that is refused). Each configuration
has bindings of another kind on the same keys, so that replacing one by another finds every
machine with something to forget.

**window.** `PartsAgree` (between two messages the render and input configuration the window
thread keeps, its current snapshot and the running scripts are of one configuration), `StateIsCurrent` (so is the state reported over IPC),
`WindowInv` (types, and no prepared script is left behind), `ShownAsDecided`,
`SnapshotIsAnswered`, `WindowReturns`. Bounds: a plain configuration and one Lua controls and
hides; 2 snapshots from the UI, 1 switch by a script, 1 input event, 3 preparations: a switch
between, before and during two snapshots.

**render.** `SurfacesHaveWindows`, `DeviceOutlivesSurfaces`, `OverlayInv` (types, and what is on
the screen is the current snapshot's), `NewestIsKept`, and the liveness `RequestsReturn`,
`ShutdownEnds`, `ToastGoes`. Bounds: three configurations (no image, an image, an image that
cannot be decoded), one monitor or an unknown one, two keys and two priorities for two toasts,
three rebuilds and one loss of the device. Three rebuilds are the first one, one that fails and
one after it.

**scripts.** `HostTakesDocument`: whatever is edited, and whatever changes while a source is being
validated, the Host takes the document the UI accepts, with either capture backend, but for four
refusals the property names one by one (section 5), a modifier key only under the backend that has
to register it. `StoredScriptsLoad`: that also holds of every
stored script that is not active. Bounds: one profile, so the three kinds of target; one script
stored by the editor besides a global one the document may come with, which share the key Ctrl+X
in one start; five sources that rename, retype and narrow each other's declarations; a text that
has more bytes than characters, a number at the upper limit of one range and outside the other,
switches of every mode, with a modifier
key that is registered and one that is held, a bare key and a mouse button. A second stored script adds states and no new pair of rules.

**process.** `EndpointNamesServer`, `MarkerMeansExited` (no UI takes an earlier exit for the exit
of the Host that serves), `ExitEndsUi` (a UI whose Host its user exits ends, and starts no
other), `Converges` (it comes to rest with a Host of the elevation asked for, or in one of the
named states in which it may not). Bounds: three process identifiers, so that an old Host, a new
one and a third that finds the mutex taken overlap; two disturbances among exits, failures,
crashes, reused identifiers, refused prompts, changes of mode, and starts and ends of the UI.

**store.** `CrashKeepsLastSave` (at every step of every interleaving a start would load what the
last completed save stored), `DamageCostsOneSave` (the backup stands in for a damaged file),
`LastEditStaysSaved` (liveness). Bounds: three documents and the save at exit, two faults: one
save waiting, one past its test and one in the gate, and a fault after a start from the backup.

**profiles.** `CommandsKeepDocument` (the UI takes what a script's switches make of a document,
because the Host's plan has refused those that bind a key twice), `MergeKeepsBoth`,
`RepairsRefusedForKeysOnly` (deleting a profile or set, or taking a profile out of a set, is
refused only when it makes another profile or set active and a key of that is taken) and
`SelectionLostByRefusedAddition` (only a refused addition leaves a selection that does not
exist). Bounds: three profiles in three sets, two contents with a key each, which scripts of the
sets and global ones may bind as well; three edits, three new identifiers, one switch by a
script out of five lists (one names an identifier that is gone or not yet made, after a command
that succeeded), two packages (one of strangers, one made from an earlier state of the document).
Three edits are enough to fill the sets to their limit, empty one, or preview, change and confirm;
all three kinds of deletion, activations, imports and switches are refused for a key in some state.

Type invariants are a part of what the runs check in `SyncInv`, `WindowInv` and `OverlayInv`, and a
part of the inductive invariants that are proved elsewhere (`BatcherTypeOK`, `WorldTypeOK`,
`MachineTypeOK`, `BindingTypeOK`, `StoreTypeOK`, `HostsTypeOK`).

**start_hangs**, **restart_loses_host** and **import_loses_edit** end in a violation of something
a header or document states: section 5.

### Fairness and deadlock

Fairness is weak everywhere, and given to threads, not to the environment:

* `SnapshotBatcher`: the worker task goes on. Its delay ends, and so does the send, because a
  request ends with its answer, with the connection or with shutdown; in `ConfigSync` the end of
  a send is derived from the pipe instead of assumed.
* `ConfigSync`: the UI thread, pool continuations, both loops of the client and the two threads
  of the Host. The user, scripts and crashes owe nothing. `ReceiveEnds` is fair because a broken
  pipe is reported.
* `InputSystem`: the message loop, and its timer while polling.
* `HostWindow`: the window, IPC and script threads, while the process lives. No fairness is given
  to any time-out by itself: it is one of the ways the IPC thread can go on, and the only one
  when the window thread waits for the mutex.
* `OverlayWindows`: the window thread, the render thread, the two sides of the worker hand-over,
  the passing of a toast's time and its timer if one is set. *Not* the spurious wake-up of a
  condition variable, and not the loss of the device.
* `ConfigStore`: the pool runs each save on; nobody must edit or close anything.
* `ProcessLifecycle`: each Host, the loop, the report of a broken pipe and the two seconds between
  starts. A prompt for elevation is answered one way or the other; what users do owes nothing.
* `ScriptEditor` and `Profiles` state safety only and assume none.

`CHECK_DEADLOCK FALSE` is set in the runs of `SnapshotBatcher`, `ConfigSync`, `InputSystem`,
`HostWindow`, `ConfigStore`, `ProcessLifecycle` and `Profiles`: their bounds on versions, crashes,
presses, faults and edits are reached, or the component has ended, and nothing remains to be done.
`OverlayWindows` is checked for deadlock; its end is the explicit step `Ended`. So is
`ScriptEditor`, in which something can always be edited.

## 4 Proofs

Eight modules hold theorems; one of them, `SequenceFacts`, says what `Append` and `Tail` do to
the elements of a queue, how many there are of a kind, and what holds after all steps of a loop over
a list. Everything in them is proved from the `ASSUME`s of the component's module (bounds are naturals, special values are not ordinary ones,
process identifiers are finitely many), for every value of the constants.

**`ConfigSyncProofs`** first proves, of the batcher alone, `BatcherSpec => []BatcherInv`, and from it
`WaitingCallsAreOwned`, `NoStrandedBatch` (a queued batch has a worker), `SentOnlyIncreases` and
the refinement `BatcherSpec => DeliverySpec`. The two ownership properties are not inductive: that
a batch is answered once needs to know that the version of a batch is its newest call and that
everything in `pending` is newer than everything in `inflight` (`NewestWins`), and that the worker
has a batch in flight exactly while it sends (`WorkerHoldsBatch`). For the refinement each action
is shown to be a step of `SnapshotDelivery` or a stutter.

Then it composes the batcher with the client, the pipe and the Host, and proves that
`BatcherInv` holds here too, since every step of `ConfigSync` is one of the batcher or leaves it
alone by its definition (`StepsAreBatcherSteps`), and with it `SyncSpec => []SyncInv` (types,
`NextVersionIsFresh`, `RefusedLeavesNoTrace`, `AnswersMatchBatch`) and `SyncSpec => AckedIsInForce`,
for any number of versions, configurations, crashes and changes by scripts. The strengthening has
two halves. `PipeInv`: of the batch being sent at most one message is under way while a client is
served, in one of the two directions or in the hands of the IPC thread (`OneAnswer`); it names the
batch (`Matched`); and an acknowledgement under way is true, which it stays because the Host's
version only grows until it dies. `HostInv`: the contents of a batch are those of its newest call
(`Numbered`); a Host that is ahead of the user interface runs what a script published, which nobody
else has and whose announcements carry that version (`Foreign`, over `Made`: whatever there is has
been made), so a version handed out later never meets its own content there; and a configuration in
force under its own version was acknowledged, or nothing that could refuse it is under way
(`Trace`), which is what makes `RefusedLeavesNoTrace` inductive.

**`HostWindowProofs`** proves `WindowSpec => []WindowInv`, `PartsAgree`, `StateIsCurrent`
and `ShownAsDecided`, for
any configurations and any number of snapshots, callbacks and inputs. `HostInv` follows each
configuration through the three threads. `CallsInv`: a thread has at most one call in the queue of
the script thread, the one it waits for, and an answer only where it waits. `Names`: a token names
one configuration wherever a thread holds it, so a commit makes the scripts run what the window
thread has rendered. `Claims`: each prepared configuration has a thread that still has to commit or
discard it, or a call in the queue that discards it; two threads may both hold the claim, as after a
time-out, and the second discard finds nothing. `Answering`: the request the window thread works on
is the one the IPC thread waits for, until that gives up. `Parts`: what agrees at each place of the
window thread, and that `previous_render` and `previous_input` are what a roll-back must bring back.
`Reports`: the reported state lags only until the answer is taken or published, which the mutex
orders. The last three parts tie what is shown to the messages still posted. `Switches`: the last
switch message of the input thread says what the input thread has, and without one the window
thread has it already. `Scripts`: tokens only grow along the scripts that run, the messages and the
candidates, so the last update of the running token says what these scripts decided, and without one
the window thread, or the commit it is at, has it. `ShownInv`: what is shown follows the flags of
the window thread, except while nothing is drawn yet and a switch message is awaited, which is what
a failed roll-back leaves behind. `LastAppended` and `LastTaken` of `SequenceFacts` carry "the last
message of a kind" over a queue that grows at one end and shrinks at the other.

**`InputSystemProofs`** proves `InputSpec => []InputInv` and from it `PressedAgree`,
`HoldDrivesSwitch`, `ScriptsArePaired`, `HotkeysMatchPlan` and `PublishedIsCurrent` (the state last
published shows the switches and visibility as they are), for any keys, modifiers and set of
configurations. `InputInv` adds to them `OnePlan` (raw bindings and hotkey plan come from one
configuration, or the plan was lost), without which nothing is known of the bindings an event
meets, and `HoldsAreBound` (each active hold has its binding), without which a hold could survive
the binding that ends it. The proof is by what each handler disturbs: steps that leave the
bindings alone, transitions of a key (`Transition`, through `HandleSwitchKey` and
`HandleScriptKey`), resets, and the four ends of `Apply`.

**`OverlayProofs`** proves three invariants of `Spec`. `ToastInv`, for `NewestIsKept`: pending
messages have different keys, and what is pending under the key of the active message is older
than it, which is why replacing a pending message never drops the newest. `RenderInv`, for
`SurfacesHaveWindows`, `DeviceOutlivesSurfaces` and `RequestMatchesSnapshot` (the render thread
never meets a snapshot other than the one it was asked to draw): as long as the render thread
lives at most one request is under way, the window thread waits for it, and what is being served
is that request (`Handshake`, `RightRequest`). That is what lets each of the two threads change
its part alone. `ScreenInv`, which with the types makes `OverlayInv` inductive: at each place of
`rebuild_overlays`, what the windows already are (`WindowsRight`) and, once the render thread has
completed the rebuild, what it has drawn (`Drawn`), across devices that are lost and made again in
the middle of it.

**`DocumentProofs`** holds the proofs of two modules. Of `ScriptEditor` it proves
`HostTakesDocument` and `StoredScriptsLoad`. Neither is inductive: what is missing is that each
stored script carries the declarations of its own source (`StoredScript`). `MergedIsStored` shows that the merge establishes it whatever was stored before,
`ValueSet`, `SlotSet`, `EnabledSet`, `Upserted` and `Removed` that every edit keeps it.
`ValidatorsAgree` then compares the two programs on one document: what `UiAccepts` asks, with
`StoredScript`, is what `CandidateAccepted` and `PlanAccepted` ask. Assumed (`EditorAssumption`) is
that the scripts a document comes with were stored by an earlier session of the editor, and that
switches have a mode; a document edited by hand may have a hash that is not its source's, which
the Host refuses and the user interface does not look at.

Of `Profiles` it proves `ProfilesSpec => []ProfilesInv` and from it `CommandsKeepDocument`,
`MergeKeepsBoth`, `RepairsRefusedForKeysOnly` and `SelectionLostByRefusedAddition`, for any
documents, keys, packages, lists of commands and limits. `ProfilesInv` says that every document that
is kept or under way (of the workspace, accepted, in the preview, at the Host and both ways between)
is `Good`: well-formed and within the limits, with identifiers below the next one made (`Sound`), and
without a key twice in what is active. It holds because each edit asks the validator. That it is
refused for keys only is because a deletion repairs what it takes apart (`Rest`, `RestById`,
`ReselectedFits`), and where what is active stays, so do its keys (`KeysStay`). A switch can only
name what `MaySelect` and `Neighbour` let it (`RunKeeps`), which keeps `Sound`; that its keys are
distinct comes from the Host's plan. A callback's commands
and a merge are loops over lists; both are written as recursive functions. `StepsExist` gives such
a function and `EveryStep` carries what each round keeps to the end, from the least round that would
break it. For commands that is `Sound` (`CommandsKeep`). For the merge it is `ProfilesMerged` and
`SetsMerged`: what was there stays where it was, identifiers stay unique and below the next, each
profile met so far has a copy with its content under the name `renamed` gives it, and each set met
so far has a copy with its profiles renamed (`MergeProfileStep`, `MergeSetStep`); `CopyShown` then
follows a set of the package to its copy. Assumed (`ProfilesAssumption`) is that documents at the
start have been validated, that packages are well-formed and within the limits (their keys are
checked when they are read), and that a new identifier is in none of them.

**`ConfigStoreProofs`** proves `StoreInv` and `DamageInv`, and from them `CrashKeepsLastSave` and
`DamageCostsOneSave`, for any number of documents and faults. What is missing in the properties
themselves is what each step of a save leaves behind: at most one save is in the gate, the
temporary file holds its document and is on the disk once flushed, and between the two renames
the backup holds what was saved last, on the disk. For damage, that a file damaged since the last
save leaves a readable backup until the first further fault.

**`ProcessLifecycleProofs`** proves `ProcessInv`, and from it `EndpointNamesServer` and
`MarkerMeansExited`, for any identifiers and number of disturbances. The invariant follows a Host
through its phases: at most one holds the mutex; from the removal of the old marker to its own
exit there is no marker; from publishing to the closing of its pipe the endpoint file is its own, because
nobody without the mutex writes or removes it.

Only model-checked: all liveness (`EveryCallAnswered`, `EveryEditAnswered`,
`EmptyHostIsConfigured`, `AlwaysReconnects`, `HoldsEnd`, `SnapshotIsAnswered`, `WindowReturns`,
`RequestsReturn`, `ShutdownEnds`, `ToastGoes`, `ExitEndsUi`, `Converges`, `LastEditStaysSaved`),
which is out of the prover's reach. Every invariant and every other action property the passing
runs check is also proved, and so is the refinement.

## 5 Known disagreements

Three runs end in a violation of something a document, comment or header states (`findings` in
`PROJECT.json` quotes it):

| Run | What happens |
|---|---|
| `start_hangs` | `run()` announces its state between the owner's check and its falling asleep; `start()` never returns (`host_threads.cpp:117`). |
| `restart_loses_host` | A UI opened from the tray asks the Host to restart, but may not start Hosts: none follows (`HostProcessManager.cs:34`). |
| `import_loses_edit` | An import is merged when it is previewed and put in place of the document when it is confirmed: what changed in between is lost (`ViewModels.cs:1614`). |

Further disagreements met while modelling. The models contain these behaviours (a property that
would be broken names the exception) and no run singles them out:

*Synchronisation.* An older state of the Host is adopted over a newer acknowledgement: the answer
to GetState is posted by the loop's continuation and a notification is written outside the mutex
of the state, so both can be overtaken (`HostClient.cs:328`; `docs/技术实现方案.md:78`). An edit made
while the Host was away is replaced by the Host's older state after the reconnect:
`OnHostStateChanged` compares no versions (`ConfigurationWorkspace.cs:557`). A revert restores the
document accepted when the observer ran, not always the latest one confirmed
(`ConfigurationWorkspace.cs:484`). Not only refusals revert: a request that opens the session
before Hello is answered with a handshake error, which reverts too (`HostClient.cs:303`).

*Input.* The hooks' messages for a short tap may both be handled before its Raw Input, which then
acts a second time (`input_system.cpp:1358`; `docs/项目实施计划.md:272`). A release that one source
misses leaves the key down in the captured set, and a hold with it, until the next reset
(`input_system.cpp:787`, `:800`; `docs/项目实施计划.md:273`); `HoldsEnd` excepts it. Hotkey numbers are
reused by the next plan, so a WM_HOTKEY posted under the old one acts as another binding (`:1406`).
After a configuration or reset, the next poll presses again a key that is still down (`:1549`). A
failed roll-back leaves the input unconfigured without publishing it, unless a hold ended (`:1531`;
`docs/阶段5验证记录.md:45`).

*Applying.* An update posted by the scripts of the previous configuration is handled after the
commit of the new ones and shows the overlay they hide (`prototype_app.cpp:1868`;
`docs/需求文档.md:531`). If the overlays of a new configuration cannot be built it is refused, but its
bindings may stay active, and with a first configuration they do (`prototype_app.cpp:1718`;
`docs/脚本编写帮助.md:624`). The window and IPC threads wait behind whatever Lua runs
(`script_coordinator.cpp:977`; `docs/需求文档.md:471`). The window thread publishes under the mutex
the IPC thread holds while it waits for the window thread: nothing moves until the ten seconds of
`SendMessageTimeout` are over, and the UI's snapshot is refused (`prototype_app.cpp:1754`). An
answer that times out in the middle of the handler leaves a running configuration that is not the
reported one (`:1351`); `StateIsCurrent` excepts it (`torn`). A call to the input thread that
times out is rolled back by the window thread while the input thread may still apply it
(`input_system.cpp:1044`).

*Rendering.* A render thread that fails wakes its waiters before it releases its surfaces, and
shutdown destroys the windows under them (`prototype_app.cpp:860`; `docs/阶段3验证记录.md:32`);
`SurfacesHaveWindows` therefore speaks of a living render thread. A drawing failure that is not a
lost device ends the render thread after the old resources were released
(`docs/技术实现方案.md:537` says they are kept). A device lost while an image is prepared is reported
as a failed preparation (`:823`). A toast with the key of the active one replaces only that one:
an older pending one of the same key is shown afterwards (`render_state.cpp:96`;
`docs/技术实现方案.md:567`), and a replacement of lower priority stays in front. A toast that was
refused because the rebuild failed appears with a later rebuild (`:1774`). If `SetTimer` fails, a
toast stays until the next one.

*Scripts.* The UI accepts documents the Host refuses (`UnforeseenRefusal`, the exceptions of
`HostTakesDocument`): a text is counted in characters there and in bytes here; validation never
runs `on_start`, which may fail when the document is applied; a modifier key with modifiers of its own is
taken as a toggling key though it would have to be registered (`input_system.cpp:345`); a key may have no virtual
key in the current layout (`:322`). A key or value changed while a source is being validated is
replaced by the merge into the script as it was when it was sent (`ScriptEditorViewModels.cs:1038`;
`docs/脚本编写帮助.md:249`).

*Store.* The token of a save is tested before `Save` and not after. A save that is past the test
when the workspace is disposed may enter the gate after the last one and replace it with an older
document (`AtomicConfigurationStore.cs:208`, `ConfigurationWorkspace.cs:434`;
`docs/技术实现方案.md:450`); `LastEditStaysSaved` excepts it. After a start from the backup the next
save moves the damaged file over the backup before the new file is in place; a second fault there
loses the configuration, and `DamageCostsOneSave` allows one.

*Lifecycle.* While another program runs under the identifier a crashed Host left in the endpoint
file, the UI waits for it and starts no Host (`HostEndpoint.cs:11`; `Mistaken` in `Converges`). A
Host that is only starting, or a restart asked for during an exit, keeps the UI open after the exit
(`ExitEndsUi` excepts both).

*Profiles.* A refused addition or duplication (limit reached, or the two characters added to the
name make it too long) still selects the new identifier, after which `SelectedProfile` throws
(`ConfigurationWorkspace.cs:211`, `:71`; named by `SelectionLostByRefusedAddition`). A set whose
`selectedProfileId` is null is accepted by the UI and by the input parser and refused by
`script_coordinator.cpp:784`. A deletion that makes a profile active whose key a script has is
refused, and after that of a profile the replacement is shown all the same
(`ConfigurationWorkspace.cs:248`). `IsActiveSet` compares with the first set (`ViewModels.cs:1481`).

*Files.* An imported image whose identifier is taken gets a new one but keeps its file name and
overwrites the other image (`EpsxArchive.cs:538`); an import that fails half way deletes the files
it has overwritten (`ConfigurationWorkspace.cs:382`). A script library that cannot be read is
loaded as empty and the next save replaces it (`ScriptLibraryStore.cs:52`).

## 6 What is not modelled

* Parsing and formatting (JSON, key names, render configurations), geometry and drawing: no
  state of their own. Their failures are choices of the handlers that call them, except for
  scripts, settings, switches and keys, whose rules are modelled.
* What Lua computes, its instruction and memory limits, and the effects of its callbacks; any
  outcome is allowed.
* `ConfigSync`: authentication failures, toasts and validation requests, cancellation of single
  requests. The connection loop therefore meets no error answer; in the code one would end it for
  good (`HostClient.cs:306`). The response cache: the client gives each request an identifier of
  its own (`HostClient.cs:401`), so no answer is ever taken from it. Elevation, restart and exit
  are in `ProcessLifecycle`.
* `ProcessLifecycle`: two UIs at once, a Host started by hand, file errors of the Host. Token and
  pipe name are random for each Host and read from the file that names it, so Hello is never
  refused for an old token. The mutex is released with the last handle, in one step. `restart_host`
  throws without a window, which can only be while that Host ends.
* `InputSystem`: the Win32 calls behind the sources, except that each may miss an event or fail.
* `OverlayWindows`: the message box of a fatal error (not shown when dialogs are suppressed),
  window styles, DPI, keeping windows topmost. `clear()` of the toast queue and
  `RenderUpdateCoalescer` are used by tests only.
* `HostWindow` holds what `OverlayWindows` and `InputSystem` show of their threads as choices:
  a rebuild that works or leaves the overlays as they were or empty; bindings that are applied,
  refused, lost or late.
* `ScriptEditor`: names, the script library, the list of assignments; layers, geometry, images and
  presets of the validator. A number that Lua would convert to a text is not used as one, and
  SHA-256 is taken to have no collisions.
* `ConfigStore`: `TryRestoreBackup`, which nothing calls. **`Profiles`**: renaming (nothing calls
  it), images and the archive format; documents and packages without a set, which the validator takes
(no edit makes one); the rules the validator has for each profile by itself and for assets and names; which keys overlap is asked only of what is active, as in the
code; names are reduced to whether the name of a duplicate fits;
  the order in which documents and answers travel is in `ConfigSync`, here a document replaces the
  one under way and its answer comes back in one step; the Host runs the document at the start.
* The components `PROJECT.json` lists as `not_modelled`, each with its reason.

## 7 Possible extensions

* The effects of Lua callbacks and the limits they run under.
* Two UIs, and validation requests, toasts and error answers on the pipe of `ConfigSync`.
* The files of images in an import.

## 8 How to run

```
tlc -workers 2 -config MCSnapshotBatcher.cfg MCSnapshotBatcher      # and likewise the others
tlapm ConfigSyncProofs.tla                                          # and likewise
# HostWindowProofs, SequenceFacts, InputSystemProofs, OverlayProofs, DocumentProofs,
# ConfigStoreProofs, ProcessLifecycleProofs
```

Every run ends within five minutes with two workers; `sync` and `profiles` are the longest.
