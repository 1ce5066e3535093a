# A TLA+ verification of waybright

waybright sets the brightness of Linux outputs. A daemon combines two controls
per output, a hardware one (a kernel backlight through logind, or a monitor's
DDC/CI register) and a software one (a black overlay of variable opacity drawn
through the layer-shell protocol), into one virtual scale of 0..100 percent,
and serves it to clients over a Unix socket. This directory holds a model of
the program in TLA+, the TLC configurations that check it on small instances,
and TLAPS proofs of its properties for every instance.

## 1. The system

| Part | State it keeps | Operations |
| --- | --- | --- |
| **brightness model** `waybright/src/brightness.rs` | none | `parse_percent_change`, `apply_percent_change`, `split_brightness`, `effective_brightness`, `validate_hardware_min` |
| **daemon** `waybright/src/daemon.rs`, `protocol.rs` | device map, cached hardware level per device, the overlay manager if there is one, time of the last attempt to connect it | `LIST`, `GET`, `SET`, `REFRESH`; dispatch of the overlays; reconnection every 5 s; the accept loop with 1 s read and write timeouts |
| **waydark** `waydark/src/lib.rs` | per output: brightness, layer surface, configured size, dim buffer; a closed flag; the Wayland connection with its unflushed requests | `connect`, `set_brightness` (one output or `@all`), `dispatch`, the handlers of `configure` and `closed` |
| **waydim** `waydim/src/*.rs` | a handle per device (its maximum, and how to reach it) | discovery by sysfs, DRM connector and EDID; read; write through logind or DDC/CI |
| **client and CLI** `waybright/src/client.rs`, `main.rs` | none | one connection per request; `@focused` resolved through wayfocus before the request is sent |
| **wayfocus** `wayfocus/src/*.rs` | none | asks the compositor (Hyprland, Sway, Niri, KWin) for the focused output |
| **slider example** `waybright/examples/brightness-slider.rs` | the displayed level | a GUI client of the daemon |
| **packaging** `nix/module.nix`, `flake.nix` | - | systemd socket activation, restart on failure |

How they interact. The daemon is one thread. It calls waydark's `dispatch`,
then accepts and serves every client that waits, one at a time, then sleeps
20 ms and goes round. Clients share nothing but its socket. The daemon's cache
is the only place where a hardware level lives inside the program: it is read
from the device on start and on `REFRESH`, and otherwise follows the daemon's
own writes. waydark talks to the compositor asynchronously: requests are
buffered until a `dispatch` flushes them, and events wait until a `dispatch`
reads them.

What is hard about it, and the property that makes each part correct:

* **brightness model**: two roundings between the level a user asks for and
  the level that is reported. Correct when every percentage survives the
  split and the recombination, when factors close to 1 still move the level,
  and when the split never orders two levels the other way round.
* **daemon**: a `SET` is several writes, each of which may fail or time out,
  over a cache that other programs, function keys and late writes make stale;
  outputs and devices come and go between any two writes; one stalled client
  delays all others. Correct when a `SET` changes exactly what was asked in
  order and stops cleanly, when the cache differs from a device only if someone
  else wrote the device, and when everybody is answered.
* **waydark**: `configure`, `closed`, `set_brightness` and failed drawing
  interleave over several dispatches. Correct when what `brightness()` reports
  is what was drawn, when no buffer precedes the acknowledgement of its size,
  when a recorded brightness reaches the screen and a closed overlay reaches
  the caller.
* **waydim**: two devices compete for a connector or share an output name in
  directory order, while cables move. Correct when no output is driven by
  another's device and no device is lost.
* **client**: an answer lost after the `SET` was applied; arguments that shift
  others; a focus that moves between resolution and execution. Correct when a
  call does what was asked once, and says `Ok` only then.
* **wayfocus, slider, packaging**: a chain of fallbacks; a selection that must
  survive changing lists; a display that lags the answer; daemons that contend
  for the socket path. Correct when the session's compositor decides, the slider
  keeps to its output, and clients reach a daemon.

`PROJECT.json` lists these hazards one by one at the lines where they bite.

## 2. The modules

| Module | What it is |
| --- | --- |
| `Brightness` | The pure functions of `brightness.rs`, `combined_brightness` of the daemon and the percent/register conversions of waydim, as operators. `i16` arithmetic wraps, as in a release build. |
| `BrightnessDial` | A dial: any minimum, any level of the backlight, any sequence of changes a user may type. |
| `BrightnessProofs` | Ranges of every operator, the round trips of the split and of registers. |
| `BrightnessDialProofs` | The properties of the dial, for every minimum. |
| `SoftwareDimming` | Abstract: what the overlays promise the daemon. They appear together at 100, are adjusted one by one, and are lost together. |
| `Waydark` | `OverlayManager`, its Wayland connection and the compositor's side of it. Implements `SoftwareDimming`. |
| `Daemon` | The daemon's thread, cache and queue, the devices, other programs and the compositor's outputs. Uses the actions of `SoftwareDimming` for the overlays. |
| `DaemonProofs` | Types, what a `SET` does, the honesty of the cache and the reconnection, for every instance. |
| `System` | The loop of `run` over the real overlay manager: EXTENDS `Waydark` and gives it the daemon as its caller. |
| `WaydarkProofs` | The safety properties of `Waydark`, its refinement of `SoftwareDimming`, and the property of `System`, for every instance. |
| `Listener`, `ListenerProofs` | `daemon_listener`: several daemons, with and without systemd, that contend for the socket path; its properties for every set of daemons. |
| `RemoteCall` | Abstract: what a call of the client library promises. |
| `Client` | The client library, its connections, and the daemon's accept loop as they see it. Implements `RemoteCall`. |
| `ClientProofs` | The types of `Client` and its refinement of `RemoteCall`, for every instance. |
| `Waydim` | Discovery: which backlight or DDC/CI device is found under which output name. |
| `WaydimProofs` | The properties of a discovery, for every set of connectors and panels. |
| `Focus`, `FocusProofs` | wayfocus' detection of the compositor and its chain of fallbacks; its properties for every environment. |
| `MC*` | Constants for TLC. |

### Daemon

One action per step of the thread that another actor can observe or interrupt.
`at` is the program counter.

| `at` | Code | Actions |
| --- | --- | --- |
| `"down"` | the process is not running, or is in `DaemonState::new` | `Start` |
| `"dispatch"` | head of the outer loop of `run` | `DispatchOk`, `DispatchFails`, `reconnect_overlay_if_due` |
| `"connect"` | `OverlayManager::connect`, for the outer loop or for a `REFRESH` | `reconnect_overlay`, `ConnectFails` |
| `"accept"` | the inner loop | `Accept`, `NobodyWaits` (`WouldBlock`, the 20 ms sleep) |
| `"serve"` | `handle_client`, reading and parsing | `ReadTimesOut`, `List`, `Get`, `Bad`, `Refresh`, `RefreshFails`, `BeginSet` |
| `"set"` | the loop over the names in `set` | `set_one`, `SetDone` |
| `"write"` | `set_one` before its hardware write | `set_hardware`, `NoHardwareWrite`, `HardwareFails`, `HardwareTimesOut` |
| `"dim"` | `set_one` before its software write | `set_software`, `SoftwareFails` |
| `"reply"` | `write_all` of the answer | `Reply` |

`hardware` and `hardware_brightness` are the two maps of `discover_hardware`
(a device that cannot be read is in the first only). `software` is what
`OverlayManager::brightness` returns for each name; it is all `None` when
`overlays` is `None`. `overlay_due` abstracts `last_overlay_attempt.elapsed() >=
5 s`. `todo` and `job` are the local variables of `set` and `set_one`. `before`
and `drifted` are history variables that only the properties read. A `REFRESH`
that finds no overlays goes by way of `"connect"`, as the main loop does; a
daemon that is starting connects within `Start`. Output names
are numbers, since only their order (that of the `BTreeMap`) matters. The
answers are `OK`, `ERR` and, apart from the other errors, `NotFound`.

The world may, between any two steps: write a register (`ForeignWrite`), carry
out a write that logind had been too slow for (`LateWrite`), plug and unplug
devices, add and remove outputs (which closes an overlay on an output that
went, `alive`), break the connection to the compositor (`ConnectionBreaks`),
queue a request (`Ask`), end one that trickled in (`TrickleEnds`: a client that
sends a little within every second is never timed out), and kill the daemon
(`Crash`). With `SocketActivated`
the queue survives the crash, as `nix/module.nix` has it.

### Waydark

`bound`, `brightness`, `size`, `buffer` and `closed` are the fields of
`OutputInfo`, `Overlay` and `State`. `outgoing`, `wire` and `incoming` are the
three places a message can be: in the client's buffer, in the socket on its way
to the compositor, and on its way back. A `dispatch` is `DispatchBegin` (it
reads what has arrived), one `Configure`, `ConfigureEmpty` or `LayerClosed` per
event, and `DispatchEnd` (flush) or `DispatchFails` (the caller drops the
manager). `set_brightness("@all")` is one step per output. A frame is its size
and its level. `undrawn` is a history variable.

External, modelled from how the code uses them: the compositor's side
(`TakeRequest`, `SendConfigure`, `RemoveScreen`, `AddScreen`,
`CompositorExits`).

### System

`Daemon` uses the abstract overlays, so that nothing between a `set_brightness`
and the screen exists in it. `System` composes the real ones with the thread:
`at` is `"dispatch"` or `"accept"`, `DispatchBegin` is guarded by it, and the
two ends of a dispatch lead to `"accept"`. `ServeSet` is a `SET` of an output
that has only an overlay, and its `OK`; `told` is the history of those. An `OK`
that was given is not taken back: `LoseOverlays` keeps `told` and enters in the
history `lost` whose overlays went since. `ServeOther` is any other request.
Nothing is said about a thread that comes back to `dispatch`: this is what
clients decide.

### Client

`pc` is the place of each program in `send`: `"call"` (before `connect`),
`"write"`, `"shut"`, `"read"`. `words`, `shut`, `answer` and `end` are the two
directions of its connection as the kernel keeps them; an argument is its
sequence of words, since the protocol splits at whitespace. The daemon is
`accept`, read to the end, `handle_request` (which parses the words it got), and
write. `quiet` is a second in which nothing came. Programs and the daemon may be
killed between any two steps; what a program then finds on its connection is an
end or a reset. `done` is the history of what the daemon did for the call.
`activated` says whether systemd holds the listening socket, so that connections
in its queue survive the daemon. `calling` of `RemoteCall` is the resolved
request of a call that has not returned.

### Listener

`path` is whose socket the file is, `listener` what each daemon accepts from,
`fds` its `LISTEN_FDS`. `exists`, `remove_file` and `bind` are steps of
their own (`Exists`, `Remove`, `Bind`), because others start in between.
`UnitStarts` and `UnitStops` are systemd (`RemoveOnStop` of
`nix/module.nix`). `contested`, `killed` and `outsiders` are history variables.

### Waydim

`brightness_devices` in the order of its I/O: `map_backlights_to_connectors`,
one `discover_ddcci_device` per bus (a fraction of a second each, during which
cables move: `Replug`), then `map_ddcci_to_outputs`. The matching itself is
operators over sequences, because the orders of directories decide who is
inserted last. `DrmEntries`, `Linked` and `BusOf` are sysfs. An EDID is a value
that two monitors may share, and any file may be unreadable or link unresolved.
`InsertAll` is the loop of `map.insert`: what is inserted last stays.

### Focus

One action per question to a compositor's tool, and tools that start, stop and
refocus between two questions.

## 3. What TLC checks

| Run | Question | Instance |
| --- | --- | --- |
| `dial` | Does the virtual scale keep every percentage, under every minimum, from every level? | all minimums 1..99, one-point deltas (so that every level is reached), saturating deltas, factors on both sides of 1, texts the parser must refuse |
| `dial_edge` | **violated**: a delta moves the level in its direction | deltas at the edge of `i16` |
| `waydark` | Do report, frame and acknowledged size stay together? | one output, the empty and two other sizes, one level besides 100 |
| `waydark_live` | Does the manager implement `SoftwareDimming`, and does a recorded brightness reach the screen, and a close the caller? | two outputs under one name, one size |
| `daemon` | Does a `SET` do what it says, and is the cache right? | one output, a device with 8 positions, minimum 50 |
| `daemon_all` | Does `SET @all` go in order and stop cleanly? | two outputs, devices with one position, minimum 30 |
| `daemon_live` | Is everybody served, and do lost overlays come back? | two clients, every kind of request, also one that stalls and one that trickles; connects that fail or hang; a systemd socket |
| `system` | Is every level that was answered `OK` reported and in a frame on its way, or given up in the report where the manager was lost with it? Is it shown if clients let the accept loop end again and again? | one output, the empty and one other size, two levels besides 100 |
| `client` | Does the library do what `RemoteCall` promises, and does every call return? | two programs, one of which trickles; arguments of none, one and two words; with and without systemd |
| `listener` | Who can be reached when daemons start over each other? | three daemons and the unit |
| `waydim` | Does what is set under an output's name arrive there, and is every device reachable? | a laptop panel with two backlights, two monitors alike, three connectors |
| `focus` | Whose answer is taken, and when is there none? | every environment, four compositors |

Bounds. `MaxOutgoing`, `MaxIncoming` and `MaxWire` cap the three message queues
of Waydark: a caller that sets faster than it dispatches, a compositor that
configures faster than the client reads, and the socket buffer. They leave room
for a set between two dispatches and, in `waydark`, for two events in one batch
(one of which then draws nothing), which is what the interleavings need; a full
wire is a case of its own (`DispatchFails`). `waydark_live` trades sizes for a
second output under the same name and `system` has two levels to set over each
other. That a `SET` and a `GET` mean the same one of several outputs under a
name is what `OksAreOnTheirWay` proves for any number of them (section 4); with
two outputs and both sizes `system` is too large for a run. `HardwareTimesOut`
keeps one late write per device: a second one would replace the value of the
first, and the properties only ask whether there is one. Eight positions of a
device are enough for `daemon` because what matters is that several percentages
share a register value (`percent_to_value` rounds up and `percent` rounds down);
`Resolution` 0 is the smallest device, on which every level does. Each client
has one request at a time, as `client.rs` does, and asks again at will. Three
daemons are the fewest for a removal, a bind and a bystander; two alike monitors
and one connector to spare are the fewest for a swap during discovery. Two
programs are enough for `Client`: the daemon serves one at a time, so that a
program knows others only as a delay. In `system` `MaxOutgoing` also bounds the
sets between two dispatches. In `daemon` the minimum 50 puts the requested
levels 20 and 80 on either side of the floor, in `daemon_all` 30 does so with 20
and the changes that start above it. `dial` covers all minimums.

Deadlock is checked in every run.

### Safety

* `Brightness`/`BrightnessDial`: `ReportsWhatWasAsked` (what is reported after a
  set through both controls is what was asked), `FactorsMove`,
  `SplitIsMonotone`.
* `Waydark`: `ReportMatchesFrame`, `FramesFollowAcks` (the layer-shell rule; a
  breach kills the connection), `ClosedNeverSurvivesDispatch`, and the
  refinement `ImplementsSoftwareDimming`.
* `Daemon`: `CacheHonest`, `SetLands`, `NoOvershoot`, `NotFoundIsUnlisted`,
  `ReconnectNeverDims`, `RefreshNeverDims`.
* `System`: `OkIsOnItsWay`: the answer is ahead of the screen. What was answered
  `OK` is what `GET` reports and what the last frame has that is under way to the
  output of that name, or shown there. The manager may be lost before
  that frame is flushed, and then the frame never comes; the property asks that
  `GET` does not go on claiming it (no overlay, or one at 100, until the next `OK`).
* `Client`: the refinement `ImplementsRemoteCall`: the daemon executes exactly
  what the user asked, at most once, never after the call returned, and `Ok` is only
  returned for what was done. `LIST` is excepted (`Unsure`), see below.
* `Listener`: `SomebodyAnswers`, `UndisturbedStartsServe`,
  `SystemdKeepsItsPath`.
* `Waydim`: `OutputsReachThemselves`, `OrderDoesNotMatter`, `NothingIsLost`.
  The first two speak of discoveries without doubt: no connector changed while
  it ran, and no unreadable EDID hid that a monitor has a double. In these two cases
  the code does pair a device with the wrong output. `NothingIsLost` speaks of
  all: where output names are unique no monitor that answered is left out, and no
  output with a mapped backlight is without a device.
* `Focus`: `AnswerIsTheSessions`, `FailsOnlyWithoutFocus`. A compositor that had a
  focused output throughout is never passed over for one after it in the chain,
  but one before it may end the search with a focus of a moment, or, Sway,
  with an empty name.

### Liveness and fairness

* `Daemon`: `WF(Thread)`: a thread that can go on does. Two of its waits have no
  bound in the code, and for these nothing is assumed: the read timeout bounds
  one read and not the request, so that a client which sends a little within
  every second is served for as long as it likes (`TrickleEnds` is not fair);
  and `OverlayManager::connect` waits for the compositor's answer without a
  timeout (`reconnect_overlay` and `ConnectFails` are not fair). Reads of a
  silent client, writes and logind calls do end. `WF(FiveSecondsPass)`: time
  passes. Neither `Start` nor anything of the world is fair.
  `EveryRequestAnswered` has what the code leaves to others as its hypotheses:
  nobody trickles for ever, and no connect hangs; without either it fails.
  `OverlaysComeBack` says that living overlays are had again and again, however often
  the connection breaks. Its hypotheses are outputs that have settled, connects
  that fail no more, and `[]<>(at = "dispatch")`. The last is a fact about the
  code: the inner loop accepts until nobody waits, so that clients which always
  arrive before the next `accept` keep the thread from ever dispatching the
  overlays, and so do one that trickles and a connect that hangs.
* `Waydark`: `SF(DispatchBegin)`: `run` comes back to `dispatch` after any
  finite number of sets; it is strong because a running set disables it for a
  moment. `WF(Running)`: a call that has begun returns. `WF(TakeRequest)`: the
  compositor reads its socket. Events are not promised.
* `System`: `WF(Dispatching)` and `WF(TakeRequest)`: a dispatch that can begin
  or go on does, as it waits for nobody, and the compositor reads. Serving is
  not fair: who is served may keep the thread. Waydark's `SF(DispatchBegin)` is
  not assumed here: `PausesSuffice` shows that `[]<>(at = "dispatch")`, the
  hypothesis of `OverlaysComeBack` too, is enough for `EventuallyShown`.
* `Client`: `WF(Program(c))` for the programs that do not trickle, `WF(Serving)`,
  `WF(SecondPasses)` (time passes) and `WF(activated /\ Start)`: systemd starts
  the daemon for the connections in its queue, and without it nobody does.
  `CallsReturn` assumes in its hypothesis that from some time on nobody kills the
  daemon and nobody trickles, as the read timeout bounds the silence of a client
  and not its request. A call may also end in `"gone"`: the program was killed.

### A disagreement with the tests

`dial_edge`: `apply_percent_change` adds in `i16` before it clamps, so that
`+32767%`, which the parser accepts, wraps at any level above 0. The trace is a
single `Turn`: from level 1, under the minimum 1 (from level 2 with several
workers), to 0. A release build goes to 0 instead of 100; a build with overflow
checks panics. The unit tests of `brightness.rs` state what a delta does with
`+5%` and `-60%`.

### Mistakes the properties catch

A definition named `f_Mistake` stands before `f` and is `f` with a plausible
bug. No specification uses it. Put in the place of `f` it breaks the property
named here.

| Mistake | Breaks (run) |
| --- | --- |
| `parse_percent_change_NoRange`: an absolute percentage up to 255 is accepted | `TypeOK` (`dial`) |
| `Nearest_Truncates`: the split rounds down | `ReportsWhatWasAsked` (`dial`) |
| `rounded_scaled_NoNudge`: a factor that rounds to the same level does nothing | `FactorsMove` (`dial`) |
| `Nearest_InU8`: the product is taken in 8 bits | `SplitIsMonotone` (`dial`) |
| `Clamp_NoFloor`: a delta below 0 is not clamped | `TypeOK` (`daemon`) |
| `split_brightness_Unscaled`: above the floor the hardware takes the level itself | `NoOvershoot` (`daemon`) |
| `effective_brightness_NoFloor`: above the floor the minimum is not added to the hardware's part | `ReconnectNeverDims` (`daemon`) |
| `percent_to_value_RoundsDown`: the register is rounded down | `RefreshNeverDims` (`daemon`) |
| `HardwareFails_Caches`: the cache is updated before the write is known to have worked | `CacheHonest` (`daemon`) |
| `Targets_AlwaysSplit`: the split is used without an overlay, too | `SetLands` (`daemon`) |
| `Discover_KeepsLevels`: refresh merges into the cache instead of replacing it | `NotFoundIsUnlisted` (`daemon`) |
| `HardwareFails_GoesOn`: `@all` goes on after a failure | `SetLands` (`daemon_all`) |
| `Selected_Devices`: `@all` iterates over the devices instead of the readable ones | `NotFoundIsUnlisted` (`daemon_all`) |
| `ReadTimesOut_Never`: no read timeout | `EveryRequestAnswered` (`daemon_live`) |
| `DispatchFails_KeepsOverlays`: the manager is not dropped on an error | `OverlaysComeBack` (`daemon_live`) |
| `Record_Unsized`: an overlay is drawn before it has a size | `TypeOK` (`waydark`) |
| `SetAllFails_RecordsFirst`: the brightness is recorded before drawing | `ReportMatchesFrame` (`waydark`) |
| `Configure_AcksLast`: the frame goes before the acknowledgement | `FramesFollowAcks` (`waydark`) |
| `DispatchEnd_IgnoresClosed`: the closed flag is not looked at | `ClosedNeverSurvivesDispatch` (`waydark`) |
| `Record_DrawsLater`: a set is recorded and left to the next configure to draw | `EventuallyShown` (`waydark_live`) |
| `LayerClosed_Ignored`: the event is not recorded | `ClosedIsNoticed` (`waydark_live`) |
| `FreshOutputs_KeepsBrightness`: a new connection inherits brightness | `ImplementsSoftwareDimming` (`waydark_live`) |
| `Record_DrawsLater`, once more | `OkIsOnItsWay`, `PausesSuffice` (`system`) |
| `ReadTimesOut_KeepsStream`: a stalled connection stays open | `TypeOK` (`client`) |
| `validate_argument_Never`: arguments are not looked at | `ImplementsRemoteCall` (`client`) |
| `Reply_KeepsOpen`: the daemon does not close after its answer | `CallsReturn` (`client`) |
| `Exists_AnyFds`: a `LISTEN_FDS` that is no number is ignored | `TypeOK` (`listener`) |
| `Bind_CleansUp`: a bind that fails removes the file | `SomebodyAnswers` (`listener`) |
| `Exists_NoRemove`: the file of a killed daemon is left there | `UndisturbedStartsServe` (`listener`) |
| `inherits_listener_Never`: the unit's socket is not taken over | `SystemdKeepsItsPath` (`listener`) |
| `connector_output_name_Bus`: a connector goes by its bus | `TypeOK` (`waydim`) |
| `unique_edids_First`: of two equal EDIDs the first counts | `OutputsReachThemselves`, `OrderDoesNotMatter` (`waydim`) |
| `DdcCiDevices_MatchedOnly`: monitors without a connector are dropped | `NothingIsLost` (`waydim`) |
| `Accepted_AnyName`: empty names are taken | `TypeOK` (`focus`) |
| `Asked_FallsThrough`: after the detected compositor the others are asked | `AnswerIsTheSessions` (`focus`) |
| `Ask_StopsWithoutFocus`: an empty name ends the search | `FailsOnlyWithoutFocus` (`focus`) |

## 4. What is proved

Every safety invariant, action property and refinement that a passing run
checks is also a theorem, for every instance: every set of outputs, clients,
programs, daemons and connectors, every device, every request and every
hardware minimum 1..99. Nor do the theorems need the bounds of the runs: the
queues of Waydark are as long as `MaxOutgoing`, `MaxIncoming` and `MaxWire`
let them, whatever these are.

The assumptions are those the modules name, and TLC evaluates them on every
run. Most say that a constant has its type and that `None` is none of the
values it stands beside. The others are facts of the code or its surroundings:

* `HardwareMinAssumption`: the minimum passed `validate_hardware_min`.
* `OutputsAssumption` (Waydark): an output is a number, its place in the
  `Vec`, and there are finitely many.
* `AskedAssumption` (Client): a request has as many arguments as the functions
  of `client.rs` and `main.rs` give it. The arguments are any words.
* `BusOfAssumption`, `ParentAssumption`, `PanelsAssumption` (Waydim): a
  connector has a bus of its own, buses are not named like outputs, a
  backlight has one connector, and there are finitely many.

| Theorem | Module | Shows |
| --- | --- | --- |
| `SplitRoundTrips` | `BrightnessProofs` | every percentage survives the split and the recombination |
| `WrittenIsReadBack` | `BrightnessProofs` | a level written to a device with more than one position is read back as no less, as itself from a hundred steps on, and, on every device, as one that leads to the same register value |
| `DialTypes`, `AskedIsReported`, `FactorsAlwaysMove`, `TurningUpLowersNothing` | `BrightnessDialProofs` | `TypeOK`, `ReportsWhatWasAsked`, `FactorsMove`, `SplitIsMonotone` of `BrightnessDial` |
| `WaydarkTypes`, `ReportsMatchFrames`, `ClosedEndsInDispatch`, `FramesComeAfterAcks` | `WaydarkProofs` | `TypeOK`, `ReportMatchesFrame`, `ClosedNeverSurvivesDispatch`, `FramesFollowAcks` of `Waydark` |
| `WaydarkImplementsDimming` | `WaydarkProofs` | the refinement `ImplementsSoftwareDimming` |
| `OksAreOnTheirWay` | `WaydarkProofs` | `OkIsOnItsWay` of `System` |
| `TypeInvariance` | `DaemonProofs` | `TypeOK` of `Daemon` |
| `SetsLand`, `NeverOvershoots`, `NotFoundsAreUnlisted` | `DaemonProofs` | `SetLands`, `NoOvershoot`, `NotFoundIsUnlisted` |
| `CacheStaysHonest` | `DaemonProofs` | `CacheHonest` |
| `ReconnectsNeverDim` | `DaemonProofs` | the action property `ReconnectNeverDims` |
| `RefreshesNeverDim` | `DaemonProofs` | the action property `RefreshNeverDims` |
| `ClientTypes`, `ClientImplementsRemoteCall` | `ClientProofs` | `TypeOK` of `Client` and its refinement `ImplementsRemoteCall` |
| `WaydimTypes`, `OutputsAreDriven`, `OrdersAreEqual` | `WaydimProofs` | `TypeOK`, `OutputsReachThemselves`, `OrderDoesNotMatter` of `Waydim` |
| `DiscoveriesLoseNothing` | `WaydimProofs` | the action property `NothingIsLost` |
| `FocusTypes`, `TheSessionAnswers`, `FailuresAreExcused` | `FocusProofs` | `TypeOK`, `AnswerIsTheSessions`, `FailsOnlyWithoutFocus` of `Focus` |
| `ListenerTypes`, `StartsLeaveOneAnswering`, `UndisturbedStartsSucceed`, `HeirsLeaveThePath` | `ListenerProofs` | `TypeOK`, `SomebodyAnswers`, `UndisturbedStartsServe`, `SystemdKeepsItsPath` of `Listener` |

The arguments:

* `SplitRoundTrips` rests on `RoundingInverts`: dividing by `d < 100` to the
  nearest integer makes an error of at most `d/2`, and scaling back over 100
  makes that error less than one half. It is why the code may round twice.
* `WrittenIsReadBack` follows from `LeastRegister`: `percent_to_value(p, max) <= v`
  exactly if `p <= percent_of(v, max)`, so that rounding up and rounding down
  belong together. `ProductsFit` says that the `u32` products are exact as long as
  a hundred times the maximum fits.
* **The dial.** Inductive is `Split`: the two controls are the split of the last
  level asked for. `FactorsMove` is `ScalingMoves`: when the rounded product is
  the level itself, the nudge by one is in the direction of the factor.
  `SplitIsMonotone` is the monotonicity of a quotient, once on each side of the
  minimum, and the two sides meet at a dark backlight and a clear overlay.
* **Waydark.** `ReportMatchesFrame` is inductive given the types. The frames
  need to know the order of requests on their way to the compositor, and the
  two queues `wire` and `outgoing` are one, `Pending`. `CreatesComeFirst`: a
  surface yet to be created belongs to an output without a size and has nothing
  else in the queue, which is why no frame precedes its first
  acknowledgement. `RequestsInOrder`: each frame has the size acknowledged
  last before it in the queue, or, with no such acknowledgement in it, by the
  compositor; and so will the next frame have the recorded size. Taking the
  first request, adding an acknowledgement with its frame and losing everything
  with the connection each keep this, by a lemma each.
* **`WaydarkImplementsDimming`**: several outputs may share a name, and
  `brightness(name)` finds the first. A step of `@all` that records a later
  output of the name is a stutter, one that records the first (`FirstOutput`
  says there is one) an `Adjust`.
* **`OksAreOnTheirWay`**: `DrawnIsOnItsWay` says that the last frame of an
  output in `Pending`, or else the one its surface shows, is its dim buffer;
  `ToldIsRecorded` that what was answered is what the first output of the name
  has recorded, and that a name whose overlays were lost since has none, or one
  at 100, as `Connect` gives it. `ReportMatchesFrame` connects the two.
* **Daemon, types.** `TypeOK` is not inductive. That a `SET` in progress has a
  change to apply needs the current client to have a request (`WaitingOnce`),
  and that it is a `SET` needs the thread's place (`ThreadOK`). `TypeInv` is the
  conjunction of the three; the other two are the proof's own and no run checks
  them.
* **Daemon, `SET`.** `SetsLand` and its two companions share one invariant,
  `Inv`, which is `TypeInv` with `SetInv`. `SetLands` alone does not say what
  the local variables of `set_one` hold: `BeforeWrites` says that before the
  hardware write the output is untouched and the job holds the two targets,
  `BetweenWrites` that before the software write the hardware is where it should
  be. Both speak of the targets of the *goal*, not of the current level, which
  has already moved by then. `CachedHere` (a cached level belongs to a device in
  the map) makes `set_hardware` find its device. The arithmetic is in
  `TargetsReportTheGoal` (a consequence of `SplitRoundTrips`) and
  `HalfwayIsBetween`.
* `CacheHonest` is inductive given the types. `ReconnectsNeverDim` is
  `OwnScaleIsLower`, `m + h (100 - m) / 100 >= h`. `RefreshesNeverDim`
  puts `CacheHonest`, `LeastRegister` and the monotonicity of
  `combined_brightness` together. The attempt to prove it without a condition on
  `Resolution` showed that a device with a single position, which reads as 0 whatever
  was set, is an exception.
* **Client.** `WordsComeBack`: what `parse_request` makes of the words of a
  request whose arguments passed `validate_argument` is that request. Without
  the validation it is false, and this is where. `Open`: an open connection is
  the one being served or stands in the queue, as `TypeOK` says, and there
  exactly once. `Told`: as long as
  the daemon can still act for a call it has not, an `OK` on the connection or
  about to be written means that it has, and what it did is what was asked. Each
  step is then one of `RemoteCall` or none (`StepsCall`).
* **Waydim.** `Answers`: a bus answers once, and while no cable moved, with the
  EDID of the monitor that is connected. If one connector alone shows this EDID,
  it is the monitor's (`MatchedToTheirOwn`), unless an unreadable one hides a
  double (`Blurs`). `NobodyCompetes` is why order does not matter: two monitors
  with one EDID make their connectors not unique, so that none of them takes
  one. For `NothingIsLost`, a bus is no output's name, so that a monitor under
  its bus is never replaced, and who replaces a device under an output's name
  drives an output of that name (`AnswersAreKept`, `LightsAreKept`). Where names
  are unique nobody replaces a monitor, in a sound discovery or any other, as no
  connector is taken by two answers (`TakenOnce`, `AnswersAreIn`).
* **Focus.** The call is behind a prefix of `Asked`, and everybody in this
  prefix has had no focus at some time of the call (`BehindCall`); an empty name
  comes from Sway alone, and while it has no focused output.
* **Listener.** Its four theorems share one invariant, in three parts that do not
  depend on each other. `LookStillHolds`: what `exists` saw is still so when
  `remove_file` comes, unless somebody touched the path. `OnlyHeirsStart` and
  `HeirsStayOut`: daemons with the unit's descriptor never remove or bind. And
  until somebody is killed, a file at the path is answered and a missing one
  is about to be bound (`FileAnswered`, `MissingIsBound`), which together give
  `SomebodyAnswers`; alone it is not inductive, as a `bind` that fails relies on the
  file it fails over.

Only model-checked: the liveness properties `EventuallyShown`,
`ClosedIsNoticed`, `EveryRequestAnswered`, `OverlaysComeBack`, `CallsReturn` and
`PausesSuffice`. They rest on fairness, hence on `ENABLED`, which the prover
does not handle.

`Daemon` changes its overlays only by the actions of `SoftwareDimming`, and
`Waydark` implements these; that the two put together, the cache and the queue of the one
over the frames of the other, are the program is not a theorem. `System` covers the part
of it in which they interleave.

## 5. What is not modelled

* The text of requests and answers beyond what the parser distinguishes; log
  output.
* Arithmetic of waydim on devices whose maximum exceeds 42 949 672, where
  `percent * max` overflows `u32`: these values are outside TLC's integers. Below it
  the products are exact (`ProductsFit`).
* The range of factors: `parse_percent_change` takes any number other than 0
  after `*` and `/`, of which the code refuses those above `u32::MAX`. This is a
  superset, and TLC's integers end below it.
* Labels of outputs, and what `main.rs` prints.
* The release of buffers: `draw_dim_buffer` attaches a new `WlBuffer` without
  destroying the old one, which costs memory in the compositor and nothing the
  models have.
* The choice between writing sysfs and asking logind (`backlight.rs`): in
  `Daemon` either is one write that works, fails or times out.
* The maximum a DDC/CI device keeps from discovery, which is wrong after
  another kind of monitor has taken its bus: `Resolution` is a constant.
* A tool of a compositor that never ends: `command_output` has no timeout. In
  `Client` a call begins when its selector is resolved.
* How `connect` learns the names of its outputs (`wl_output` events before a
  roundtrip ends): `NameOf` is given.
* The slider example: a window over the client library, whose list, selection
  and level are assigned from the answers of one call at a time.
* The build (`flake.nix`) and the unit files beyond the socket.

Behaviours that the models show and no property forbids:

* A logind call that takes longer than 2 s is an error to the daemon, yet may
  still change the device. The cache then holds the old level, and a `SET` back
  to that level is skipped as already done, so that the answer is `OK` and the
  device stays at the other level until `REFRESH`. `drifted` in `CacheHonest` is
  this exception.
* A client that trickles, or a connect the compositor does not answer, keeps
  everybody waiting, without a bound. Clients that arrive one before the next
  `accept` are all served, and the overlays are not dispatched meanwhile.
* When the overlays are lost, what an output reports jumps from the common scale
  to that of its hardware, up or down. `ReconnectNeverDims` speaks of the way back only.
* A level that was answered `OK` is not shown if the manager is lost with its
  frame still in the buffer. `GET` says so afterwards; nobody is told.
* An output's name that Sway gives as empty ends the search for the focused
  output, although another compositor of the chain had one.
* Two connectors of different cards may share a name, and the later device then
  has the place of the earlier.
* Once a daemon has been killed, two starts over its file can end with one daemon
  listening where nobody connects: `SomebodyAnswers` says that another one is
  there only while nobody is killed.
* A connection the daemon closes without an answer, being killed or after a read
  timeout, is an empty response, and a `LIST` that succeeds with no outputs:
  `Unsure` in `Client`. The slider then says "The daemon reported no outputs"
  (`examples/brightness-slider.rs:79`).
* The `OK` is written before the frame is flushed, and the thread serves all
  other waiting clients before it dispatches. The slider says "Every slider
  change waits for the daemon and display update."
  (`examples/brightness-slider.rs:120`). `OkIsOnItsWay` and `PausesSuffice` are
  what holds instead.

## 6. Plan

1. The slider's selection over changing lists, and the names of outputs from
   `wl_output` events, as models of their own.
2. `SET` over a device of few steps: how far the register is from the level that
   was asked, after any number of sets and refreshes.
