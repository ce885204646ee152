# A formal model of UltraDisplayOS

UltraDisplayOS turns a machine booted from a small Linux image (the *client*) into a
display of a Windows machine (the *server*). The server captures its desktop, encodes
it and sends it over UDP; the client receives, decodes and presents it. Both find
each other by mDNS. This directory holds TLA+ modules of the parts of the code whose
correctness depends on interleaving, failure or order, the configurations under which
TLC checks them, and proofs checked by TLAPS.

The repository is at an early stage: `server/main.cpp` starts only the Windows service
or the tray application, `client/main.cpp` only the text interface, and no code connects
capture, encoder, transport, decoder and display yet. Where a module needs the code
that will drive a component, it models the use its header asks for and says so.
Sections 1 and 2 say what there is and which module models it, 3 what TLC checks, 4 what
was found, 5 what is proved, 6 and 7 what is left.

Paths below are relative to `src/`.

## 1. The system: inventory

| component | state it keeps | operations | what is hard | what makes it correct |
|---|---|---|---|---|
| `RingBuffer<T>` `shared/util/ring_buffer.hpp` | power-of-two array, atomic `head_`, `tail_` | `try_push`, `try_pop`, `push_overwrite`, `size` | two threads without a lock; `push_overwrite` also writes `tail_` | a linearisable bounded queue; no slot is accessed by both threads at once; `size` stays true for the thread that asked |
| `Pool<T>`, `PoolPtr<T>` `shared/util/pool.hpp` | lock-free free list threaded through the blocks | `alloc`, `free`, move, destruction | compare-exchange retries, ABA, link and object share bytes | no block owned twice, none lost, failure only when empty |
| `ServerTransport` `server/network/server_transport.cpp` | socket, completion port, `IoContext`s, worker thread, receive queue, `running_` | `init`, `send`, `receive`, worker loop, destructor | asynchronous completions that fail or are empty, a worker that waits without limit, shutdown | every request has one context; answers in order, none twice; reception goes on; the destructor returns |
| `ClientTransport` `client/network/client_transport.cpp` | socket, one io_uring, one receive buffer, poll thread, receive queue | `init`, `send`, `receive`, poll loop, destructor | two threads submit on one ring without a lock; completions are not told apart | as above, and the buffer is not overwritten while it is read |
| `Discovery` `server/gui/discovery.cpp` | list of clients with last-seen times, callback, `running_`, scan thread | `start_scan`, `stop_scan`, `get_clients`, `set_callback`, scan loop | lost answers against time-outs; a callback that runs with the mutex held; joining a thread that polls | every change is reported; a client that answers stays listed, a silent one is dropped; calls return |
| `TrayApp` `server/gui/tray_app.cpp` | window, current tab, visible controls, list rows, tray icon | `init`, messages, Scan button, refresh timer, tab change, exit | calls into Discovery that block the message loop | exactly one page shown; no thread outlives the window; rows follow the list |
| `DxgiCapture` `server/capture/dxgi_capture.cpp` | device, duplication, staging texture kept from frame to frame, size | `init`, `acquire_next_frame`, `release_frame` | the duplication or the device is lost at any moment; each call can fail | the texture answered holds the frame; frames are given back; capture recovers |
| `D3D11ColorConverter` `server/encoder/d3d11_color_convert.cpp` | video processor, enumerator, one output texture per range, size | `init`, `convert` | several objects replaced one after the other, each call can fail; caches | output made from this input, in its size; recovery after a failure |
| encoders and `EncoderFactory` `server/encoder/*.cpp` | session, NVENC registered texture and bitstream buffer, AMF queue | `create`, `init`, `reconfigure`, `encode` | cached registration, asynchronous AMF, failures | encodes the texture it is given; goes on delivering |
| `AdaptiveController`, `SceneAnalyzer` | current configuration, last statistics, frames since keyframe | `init`, `update_network_stats`, `evaluate_frame`, `analyze` | requests set by one call and cleared by another; 32-bit rates | a keyframe comes in time; the codec is one the client decodes; merged rectangles are disjoint and cover the input |
| `FecEncoder`, `FecDecoder` `shared/transport/fec.cpp` | level, current block, group id | `set_level`, `encode`, `decode` | level changed in mid-group | as many losses as there are parity packets are determined by the rest of the block, and the decoder recovers them |
| `PacketPacer` `shared/transport/pacer.cpp` | tokens, rate, last refill | `set_rate`, `can_send`, `record_send`, `wait_until_can_send` | integer rounding of time, packets larger than the bucket | bursts are bounded; waits for packets that fit in the bucket end |
| `GoogleCongestionControl` `shared/transport/congestion_gcc.cpp` | target, bounds, history of packets, delay trend, loss counters | `on_packet_sent/acked/lost`, setters | a stale trend applied again by every event; bounds that cross | a path that works again is used again: the target climbs back |
| `MultipathManager` `shared/transport/multipath.cpp` | paths with statistics, active path | `add_path`, `evaluate_paths`, `send`, `receive` | paths without measurements, several receive queues | a payload on any path is found |
| `WasapiCapture`, `AlsaPlayback`, audio pipeline | client objects, event, buffers | `init`, `start`, `stop`, `read_frames`, `write_frames` | one event for several packets, underruns, suspension | what is buffered is read; writes end |
| `VaapiDecoder`, DRM display, `SyncEngine`, `ClockSync` | driver resources, smoothed offset | `init`, `submit_packet`, `get_frame`, destructor; `update` | calls that fail half-way, unsigned arithmetic | the driver gets back what it gave; the offset is right to half the longest way |
| `TuiApp` and screens | overlay flag, current screen, lists and selections | keys, scans, servers found | a selection into a list that is replaced; a screen dropped while its component lives; two variables that say what is shown | what is acted on exists; the two agree |
| `InputForwarder`, `VirtualInput` | grabbed devices, poll loop | `start`, `stop`, injection | `start` runs the loop on its caller | `stop` ends it, devices are given back |
| `WinService` | service status | control handler, `service_main` | an event nobody sets | STOPPED is reported |
| OTA updater `scripts/ota_updater.py` | A/B partitions, boot variables | download, verify, write, switch | crash between steps | the system boots one good partition |
| system tuning, logging, results, SIMD, protocol headers, build files | none over time | | | |

How they interact. `ServerTransport` and `ClientTransport` share the design of their
receive side: an I/O thread queues payloads under a mutex and signals a condition
variable, `receive` waits for it. `TrayApp` calls `start_scan`, `stop_scan` and
`get_clients` of `Discovery` from its message loop; `Discovery` answers through a list
under `mutex_` and a callback made with that mutex held. Capture, converter and encoder
share a Direct3D device and hand textures on, in the order acquire, convert, encode,
release. The ring and the pool are libraries that callers embed.

## 2. Modules

| module | what it is | how it corresponds to the code |
|---|---|---|
| `BoundedFifo` | abstract: a bounded queue with atomic operations | what users of a ring rely on |
| `SpscRing` | `try_push`, `try_pop`, `size` | one step per shared access: test and load, slot access, index store |
| `OverwriteRing` | EXTENDS `SpscRing`; `push_overwrite` and a `try_pop` that loads `tail_` itself | here `tail_` has two writers, so loaded values are kept in locals |
| `RingBuffer` | composition: the callers choose one of the two disciplines | `overwrites` is that choice |
| `FixedPool` | abstract: blocks available or given out | what callers of a pool rely on |
| `Pool` | `alloc`, `free`, `PoolPtr` moves and destruction | one step per access to `head_` or to a link; a block in use has a garbage link |
| `MCContainers` | the instance of both: a ring asked to hold 3 items, a pool of 3 threads | `container` chooses which of them runs |
| `DatagramStream` | abstract: numbered datagrams, answered in order, at most once | `ITransport::receive` |
| `ReceiveQueue` | the receive side both transports share | queue, condition variable, `receive` with time-out |
| `ServerTransport` | EXTENDS `ReceiveQueue`; owner, worker, sender, kernel | worker program counter follows `worker_loop`; the completion port is a sequence |
| `ClientTransport` | EXTENDS `ReceiveQueue`; owner, poll thread, sender, kernel | get-submission-slot, fill and submit are separate steps of both threads, as in liburing |
| `Discovery` | scan thread, application thread, network, time | scan program counter follows `scan_thread_func`; the list maps addresses to profiles |
| `TrayApp` | EXTENDS `Discovery`; the window procedure | one action per message, two when the handler blocks in Discovery |
| `DxgiCapture` | capture over a model of DXGI | one action per outcome of `init` and of `acquire_next_frame` |
| `ColorConverter` | EXTENDS `DxgiCapture`; the converter | one action per outcome of `convert`, with the objects left null by each failure |
| `Encoder` | EXTENDS `ColorConverter`; factory and the three encoders | what they keep from call to call |
| `VideoPath` | EXTENDS `Encoder`; the loop around them | external: init, acquire, convert, reconfigure, encode, release, as the headers say |
| `SceneAnalyzer` | `analyze` with `merge_rects` | one step per rectangle of the first pass, one per pair compared later; areas are exact |
| `AdaptiveController` | `init`, `update_network_stats`, `evaluate_frame` | `config` is `current_config_`; history variables count what the client waits for |
| `CongestionControl` | `GoogleCongestionControl` | one action per packet event and setter; the slope is one of three sides of its thresholds |
| `PacketPacer` | the token bucket over discrete time | `elapsed` is now minus `last_update_us_`; a sleep may last longer than asked |
| `FecEncoder` | `set_level`, `encode`, `decode` | a packet is one bit; `sent` and `covered` remember what parity stands for |
| `MultipathManager` | `add_path`, `evaluate_paths`, `receive` | a transport is a number of payloads and a delay; `receive` is two steps |
| `WasapiCapture` | `init`, `start`, `stop`, `read_frames` over a model of the engine | the auto-reset event is `signalled`; a read takes packets one by one |
| `AlsaPlayback` | `init`, `write_frames` over a model of a PCM device | one action per result of `snd_pcm_writei`, of `snd_pcm_resume` and of `snd_pcm_prepare`, whose failure the code does not see |
| `ClockSync` | `update` in modular arithmetic | `Unsigned` and `Signed` are the conversions between stamps and durations |
| `VaapiDecoder` | `init`, `submit_packet`, `get_frame`, destructor over a model of VA-API | `members` is what the object believes it owns, `driver` what the driver holds, `buffers` the slice buffers nothing names |
| `Screens` | `TuiApp`, `WifiScreen`, `DiscoveryScreen` | one action per key or call that changes state; `wifi` says whether the `WifiScreen` is held by its user or dropped |
| `MCParts` | composition of the eleven modules above | `part` chooses which of them runs: they share nothing in the code |
| `RingBuffer_proofs`, `Pool_proofs`, `ServerTransport_proofs`, `ClientTransport_proofs`, `VideoPath_proofs` | theorems about the module they are named after | section 5 |
| `TrayApp_proofs` | theorems about `Discovery` and `TrayApp` | section 5 |
| `SendParts_proofs`, `ClientParts_proofs` | theorems about `SceneAnalyzer`, `AdaptiveController`, `PacketPacer` and `FecEncoder`; about `VaapiDecoder`, `Screens` and `ClockSync` | section 5 |

Names of actions and variables follow the functions and members they stand for;
`PROJECT.json` gives the lines of each definition. Definitions named `Bug_...` are
deliberately wrong variants of the definition that follows them: replaced by it, the
property listed with it is violated. They are not part of any specification.

Abstractions used throughout: payloads are numbers of datagrams or model values; bytes,
statistics, logging and texts are left out; a texture's content is one bit, whether it
shows the frame acquired last; a call into the operating system that may fail is a
choice, and a named bound keeps failures finite. Memory accesses of the ring and of the
pool are sequentially consistent, which the acquire and release orders of the code
justify for what is modelled.

## 3. What the runs check

All passing runs end with the complete state space explored.

| run | states, time | what it shows |
|---|---|---|
| `Containers` | 184 000, 16 s | In either discipline the ring is a linearisable queue of capacity - 1 items that drops only the oldest and only when full (`LinearisableQueue`, a refinement of `BoundedFifo`); no slot is touched by both threads (`NoSlotRace`); a thread's `size` cannot be invalidated by the other (`SizeStaysTrue`). With one allocating thread and two that release, no block of the pool has two owners (`UniqueOwner`), none is lost (`NoLeak`) and the pool implements `FixedPool` (`ImplementsFixedPool`). |
| `RingBufferOverlap` | violated | `push_overwrite` beside a concurrent `try_pop`: `NoOverwriteRace` fails. |
| `ServerTransport` | 143 000, 15 s | Contexts are neither leaked nor freed twice until the worker ends (`ContextsAccounted`), `receive` implements `DatagramStream`, everything is answered until a read fails or is empty (`SoundReception`), the destructor returns. |
| `ServerTransportEmpty` | violated | After one empty datagram nothing is received any more (`EveryPayloadReceived`). |
| `ClientTransport` | 142 000, 15 s | Until something is sent, answers are complete and in order although reads fail (`InOrderUntilSend`, `EveryPayloadReceived`) and the buffer is not overwritten while it is copied (`BufferStable`); with sends, whatever the race on the ring does, answers never go back (`NeverGoesBack`) and the destructor returns, unless the ring it takes down was never set up (`DestructorReturns`). |
| `ClientTransportPhantom` | violated | The completion of a send is queued as a datagram (`ImplementsStream`). |
| `ClientTransportLostRead` | violated | A send beside the poll thread loses the read, and reception ends (`ReceptionSurvivesSends`). |
| `Discovery` | 222 000, 50 s | A callback hears of every change (`NotifiedOfEveryChange`), a client whose answers are lost now and then stays (`SteadyClientKept`), one that went away is dropped (`SilentClientForgotten`), calls return (`CallsReturn`). |
| `TrayApp` | 18 000, 3 s | No scan thread survives the window (`NoThreadAfterExit`), the Scan button always leaves a live scan, also after one that died (`ScanButtonSpawns`), rows of clients that went away disappear while the list is looked at (`RowsForgetSilent`). |
| `VideoPath` | 435 000, 20 s | See below. |
| `Parts` | 118 000, 30 s | The parts that no code calls yet, one at a time: see below. |
| `VideoPathReinit` | violated | After a re-initialisation in the same mode the texture answered does not hold the frame (`AcquireCopies`). |

`VideoPath` lets the desktop change mode, be taken by the secure desktop or lose its
device, lets any call fail, and changes the range the client asks for, with every set of
installed encoders. It shows that sizes agree whatever was kept from the mode before
(`SizesAgree`); that a frame stays acquired out of turn only where the code leaks it,
after a staging texture that could not be created, and that the reset on the resulting
invalid call repairs this (`HeldInTurn`, `StreamRecovers`); that the picture encoded is
the frame acquired last, unless NVENC was given another texture than its first
(`PictureIsFresh`); and that pictures are delivered again and again unless the loop is
`Stuck` for one of exactly three reasons. Each of the three is needed for the run to
pass: they are flaws of the code, described in section 4.

`Parts` asks one or two questions of each part:

* `SceneAnalyzer`: what is left after merging covers all that is dirty and overlaps
  nowhere, although a merged pair may grow into a rectangle compared before
  (`MergedSound`); areas counted of it justify both verdicts with the bounds the code draws
  (`VerdictSound`), which are not those of the header (`IdleOnlyIfClean`,
  `KeyframeOnlyAbove`).
* `AdaptiveController`: a client waits less than a GOP for each keyframe it misses
  (`KeyframeInTime`), which is all it can rely on as the IDR of a codec switch is lost
  (`CodecSwitchForcesIdr`); codec and losslessness fit the present client whatever the estimate
  was made for (`ClientCanDecode`).
* `CongestionControl`: if the disturbance of a path ends, the target climbs to the maximum
  again (`RateRecovers`), whatever cuts stale slopes and old losses have made.
* `PacketPacer`: no interval carries more than its length times the rate and one burst
  (`BurstBounded`); a packet that fits in the bucket is not waited for without end, though
  sleep and refill both round down (`WaitEnds`).
* `FecEncoder`: one packet lost of those a parity packet stands for is determined by the
  others and the parity, through changes of level (`OneLossDetermined`). That is what the
  header says of Low and less than it says of the other levels (`LossesDetermined`), and no
  code does the computation (`LossRecovered`).
* `MultipathManager`: what arrives on any path is received (`EveryPathHeard`).
* `WasapiCapture`: buffered packets are read, whatever the order of packets, events and
  reads (`AudioFlows`). `AlsaPlayback`: a write ends although the device runs dry, is
  suspended, breaks or cannot be prepared at any moment (`WriteReturns`). Two devices are
  excepted by name, since the code loops for ever on them: one that stays suspended, and
  one that answers -EPIPE or -ESTRPIPE to every write and cannot be prepared again.
* `ClockSync`: the offset to a peer that is ahead by half the longest way or more is right
  to half that way and the rounding, with counters that wrap, and the round trip is never
  estimated too long for any peer (`OffsetClose`). For the others it may be wrong
  (`OffsetAlwaysClose`).
* `VaapiDecoder`: wherever init and submissions fail, the destructor gives back config,
  surfaces and context, and no picture stays begun that the driver would have ended
  (`DecoderBalanced`). The slice buffers of the packets are counted in `buffers`, are
  destroyed by nothing, and are not part of that property.
* `Screens`: what is acted on exists, as long as the `WifiScreen` is held
  (`EntriesExist`); in the program it is not (`ConnectsToListed`). While the overlay is on it
  is the current screen; `navigate_to(Overlay)` makes it so with the flag off.

Seven properties named above are promises of comments that the code does not keep:
`IdleOnlyIfClean`, `KeyframeOnlyAbove`, `CodecSwitchForcesIdr`, `LossesDetermined`,
`LossRecovered`, `OffsetAlwaysClose` and `ConnectsToListed`. They stand beside the
properties that hold, marked "promised and false", and no configuration lists them. `Parts.cfg`
with one of them in the place of its properties (`CodecSwitchForcesIdr` as a PROPERTY, the
others as INVARIANT) makes TLC print a counterexample of at most a few steps; section 4
describes each.

Each module also defines a type invariant. Those of the modules with proofs are parts of
the inductive invariants of section 5; the others serve as documentation of the state
and are not repeated in the configurations.

### Bounds

| bound | value | why it is enough |
|---|---|---|
| ring capacity | 4 (3 asked for) | full, empty, wrap-around and rounding all happen; two item values tell order and duplication apart; the proofs hold for every capacity |
| pool | 3 blocks, 3 threads | exhaustion with all threads holding a block, and every three-way interference on `head_` |
| server datagrams, sends, failed reads, empty ones | 3, 2, 1, 1 | a datagram before, between and after each disturbance |
| client ring entries, datagrams, sends, faults | 2 slots, 2, 1, 1 (4 slots for the violations, 3 datagrams and no fault for the lost read) | the ring fills and wraps; one send and one resubmission race for a slot. More only repeats these cases |
| discovery | one client that comes and goes, one steady one, two names, `QueryInterval` 2, `StaleTimeout` 6, one lost answer in a row, one start | the ratio keeps the code's case "an answer may be lost without being dropped". With the code's 2 s and 10 s, two lost answers and one name the same properties hold in a separate, longer check |
| tray application | one client, `QueryInterval` and `StaleTimeout` 1, two starts | the window adds the restart of a scan; timing is the matter of the `Discovery` run |
| video path | 2 modes, 2 losses, 2 other failed calls, 2 changes of range, AMF input of 2 | there and back between two modes and between two ranges, and a failure during the recovery from a loss |
| scene | frame of 3 x 2, all lists of up to two rectangles and of four that begin with two cells | all orders in which a merged rectangle meets one kept apart before; a threshold of 50% and an idle bound of a quarter are reached exactly, just missed and exceeded, where 80% of 6 cells is never reached exactly; the proof holds for every frame |
| controller | GOP 3, estimates 0, 7, 8, 2400 and 5400 Mbit/s, a word of 4295, three agreed sets, two missed keyframes | both sides of the lossless threshold, of the 1 Mbit/s dead band and of the 32-bit overflow |
| congestion | targets 20 to 26, window 10, history 2, 3 sequence numbers | the history overflows, numbers wrap, a loss window ends in and after a disturbance |
| pacer | rates 0, 3, 8, 20, sizes 1, 3, 12, bucket of 10 ticks, sleeps up to 2 too long | rates that divide the token unit and that do not, packets below, at and above the bucket |
| FEC | block sizes 3, 4, 2, two parity packets and group ids | a level changed at every point of a block, to a smaller and a larger one |
| paths | 3 paths, 2 payloads each, 3 delays | the active path changes to each side of a waiting payload |
| audio | 3 packets and inits; writes of 0, 1, 3 frames, 3 mishaps | a packet before, during and after a read; a mishap between two partial writes, another before the recovery from it and a third in it |
| clock | width 1024, clock ahead by -40, 2, 3, 20, 51, ways up to 6 | a peer behind; just below, at and above half the longest way; the most the assumption allows; every wrap of a counter |
| decoder, screens | 3 packets, 3 networks, 3 servers | lists that shrink below, to and above a selection; a `WifiScreen` held and dropped |

Deadlock is not checked where the system may stop for good: transports after their
destructor, the tray application after its exit, and the video path, whose loop never
ends but whose check for progress is `StreamRecovers`, and the parts, of which some have
a last packet. The ring, the pool and discovery
are checked for deadlock.

### Fairness

* transports: threads that are runnable run (weak fairness of the worker, the poll
  thread, a send that was begun), the kernel completes the requests it accepted, and the
  receiving thread keeps calling `receive`. Nothing has to arrive, be sent or be
  destroyed. A wait of `receive` may time out at any moment.
* discovery: the scan thread runs, time passes (strongly fair, since a `recvfrom` that
  keeps getting datagrams would otherwise stop the clock), and an answer of a steady
  client arrives or is one of the losses; mutexes are granted to a caller that asks again
  and again (strong fairness of `GetReturns`).
* tray application: the message loop runs the handler it is in, and the timer keeps
  firing.
* video path: the loop goes on, and a desktop watched again and again eventually shows a
  new frame (strong fairness of `Acquire`, which time-outs disable and re-enable).
* parts (stated in `MCParts`): the pacer's loop goes on, and a thread is not for ever woken
  to the microsecond (strong fairness of `Oversleeps`; no operating system promises exact
  sleeps); callers of `MultipathManager` and of `WasapiCapture` call again and again and
  their calls return; the loop of `write_frames` runs on (nothing is assumed of the
  device: whether a suspended one is ever woken, `WriteReturns` leaves open).
  `RateRecovers` assumes in its own hypothesis that acknowledgements go on.

No property assumes that a failure stops by itself; failures are finite by their bound.

## 4. What was found

* **`push_overwrite` beside `try_pop`** (`ring_buffer.hpp:66`): the class comment promises
  one producer and one consumer, but an overwriting producer stores `head_` and bumps
  `tail_` in two steps; a consumer in between reads the slot that is being written.
* **An empty datagram ends reception of the server** (`server_transport.cpp:140`): the
  next read is posted only after a completion that carried bytes.
* **Sends come back as datagrams on the client** (`client_transport.cpp:150`): the
  completion of a send has a positive result and is taken for a received datagram, made of
  whatever the receive buffer holds.
* **A send loses the client's read** (`client_transport.cpp:171`): `send` and the poll
  thread use the submission ring without a lock. A send that loads the tail, and stores it
  after the poll thread has published one read and taken the slot of the next, puts it
  back: the submit of that read publishes nothing. No read is outstanding then, and every
  wait of the poll thread times out. Were only one of the two requests lost, as when both
  take the same slot, the completion of the other would make the poll thread read again.
* **A texture of the old device is taken again** (`dxgi_capture.cpp:170`): `init` replaces
  the device and a loss of access keeps the staging texture, which is reused when the
  mode is the same (a UAC prompt). Copies into it do nothing, and the converter of the new
  device refuses it: no picture is delivered until the mode changes.

Promises of the parts that nothing calls yet, false by the seven properties named at the
end of section 3:

* **No IDR after a codec switch** (`CodecSwitchForcesIdr`, `adaptive_controller.cpp:31`): `adapt_codec` asks for it
  (`:91`, "Force IDR on codec switch"), `evaluate_frame` clears the request before it
  returns the configuration. The client waits for the limit of the group.
* **Two bounds of the scene analyzer** are not those of its header (`IdleOnlyIfClean`,
  `KeyframeOnlyAbove`): a frame is idle below
  0.01% (`scene_analyzer.cpp:29`; `scene_analyzer.hpp:14` says at 0), and calls for a
  keyframe at the threshold (`:30`; `.hpp:13` says above 80%).
* **FEC protects from one loss** (`LossesDetermined`, `fec.cpp:106`): the coefficients of the "Reed-Solomon"
  levels are all 1, so their four parity packets are equal and tell one loss, where
  `fec.hpp:12-13` names the codes (20,16) and (10,6).
* **The FEC decoder decodes nothing** (`LossRecovered`, `fec.cpp:132`): it returns an empty list, where
  `fec.hpp:40` says "Returns recovered data packets if any."
* **Clocks that are behind** (`OffsetAlwaysClose`, `clock.hpp:32`): the sum of the differences is halved as an
  unsigned number, so a negative one gives an offset near 2^63. It is negative for every peer
  behind by more than half the longest way, and sometimes for one ahead by less than that.
* **The WiFi screen of the program is gone** (`ConnectsToListed`, `app.cpp:20-25`): `TuiApp::init` keeps the
  component of its `WifiScreen` and destroys the object its functions work on, so that
  `connect_to_network` ("Try connecting to the selected network", `wifi_screen.hpp:17`) may
  be passed anything.

Met on the way, excepted by name in a property that holds otherwise:

* NVENC registers the texture of its first `encode` for good (`nvenc_encoder.cpp:104`), so
  after a change of range it goes on encoding the old one (exception of
  `PictureIsFresh`).
* A failed change of range replaces the processor or its enumerator by null, and the
  cached texture of the range before keeps it from being made again
  (`d3d11_color_convert.cpp:27`, second case of `Stuck`).
* Once AMF answers that its input is full, `encode` returns before it retrieves anything
  (`amf_encoder.cpp:84`, third case of `Stuck`).
* A callback of `Discovery` that calls `get_clients` waits for the mutex its own thread
  holds; with `Callbacks = {"reads"}` `CallsReturn` is violated.
* With two allocating threads the pool suffers from ABA: `UniqueOwner` and `NoLeak` are
  violated; one allocating thread is the use under which it is correct.

Noted besides, where no line of the repository says what should happen:

* A client transport whose `init` failed early, or was never called, is destroyed with a
  `ring_` that nothing has initialised (`client_transport.cpp:59`, `.hpp:30`), which is
  undefined; `DestructorReturns` excepts it.
* A FEC block that has outgrown a level made smaller never closes (`fec.cpp:49`).
* A bandwidth of more than 5.4 Gbit/s does not fit the 32 bits its 80% are converted to
  (`adaptive_controller.cpp:56`).
* A packet larger than the bucket of the pacer is waited for without end
  (`pacer.cpp:39`); `WaitEnds` excepts it.
* The result of `snd_pcm_prepare` is thrown away (`alsa_playback.cpp:86`, `:92`): a device
  that cannot be prepared keeps `write_frames` spinning. So does one that answers -EAGAIN
  to `snd_pcm_resume`, in a loop that holds only the comment "sleep a bit" (`:89`).
  `WriteReturns` excepts both.
* The slice buffer of every packet is created and never destroyed
  (`vaapi_decoder.cpp:86`), also when `vaRenderPicture` fails; `DecoderBalanced` excepts it.
* `navigate_to(Overlay)` sets the overlay's screen and not its flag (`app.cpp:48`), so F1
  then turns it on instead of off.
* `WasapiCapture::start` after `stop` has no event any more, and a read that breaks off
  leaves packets that no event announces; `AudioFlows` excepts both. Samples of 24 bits
  pass `init` and are dropped by `read_frames`.
* `drm_scanout_dmabuf` fills no atomic request: nothing is ever shown.

Known hazards without a property: the bytes of a send that the kernel reads after `send`
has returned (`client_transport.cpp:176`, the caller's matter); slice buffers that pile up
(`vaapi_decoder.cpp:86`, see above); messages of buttons that are children of the tab control (`tray_app.cpp:439`); an empty list of dirty rectangles
after a failed query (`dxgi_capture.cpp:145`); the colour matrix that stays after a change
of range (`d3d11_color_convert.cpp:96`); an encoder whose library loads and whose
constructor throws (`encoder_factory.cpp:14`); the service that ends its process without
having reported that it stopped (`win_service.cpp:75`); a stop of the input forwarder that
comes before its start (`input_forwarder.cpp:58`).

## 5. What is proved

Eight modules hold theorems. Each holds for every value of the constants that satisfies
the named assumption of the module it is about; the few that assume more say so in an
ASSUME of their own, listed below. A theorem `Spec => []P` follows from an inductive
invariant, whose step proof has one case per action; TLC agreed with each property before
it was proved. Every safety property of the passing runs is stated by a theorem. Where a
theorem covers less than a comment of the code promises, the table says so, and the rest
is false (section 4).

| theorem | says | rests on |
|---|---|---|
| `RingBuffer_proofs`: `TypeCorrect`, `SlotsNeverRace`, `SizesStayTrue` | of `SpscRing`: `[]TypeOK`, `[]NoSlotRace`, `[]SizeStaysTrue` | `Inv`: what each thread learnt in its test still holds when it acts |
| `RingBuffer_proofs`: `RingIsFifo` | of `SpscRing`: `ImplementsFifo`, the refinement of `BoundedFifo` | `Inv` and `PushStands`: a written item stays in its slot until it is published |
| `RingBuffer_proofs`: `RingStaysSafe`, `RingIsLinearisable` | of `RingBuffer`, both disciplines: `[](NoSlotRace /\ SizeStaysTrue)`, `LinearisableQueue` | `RingInv`: `Inv` and `PushStands`, or `OverwriteInv` when the producer overwrites |
| `Pool_proofs`: `BlocksHaveOneOwner`, `BlocksAreKept` | `[]UniqueOwner`, `[]NoLeak` | `PoolInv`: the free list has no cycle, and what `alloc` and `free` know between their steps |
| `Pool_proofs`: `PoolIsFixedPool` | `ImplementsFixedPool`, the refinement of `FixedPool` | `PoolInv` |
| `ServerTransport_proofs`: `TransportIsStream` | `ImplementsStream`, the refinement of `DatagramStream` | `StreamInv`: payloads in the queue, with the worker, in the port and in the socket follow each other and the answer given last |
| `ServerTransport_proofs`: `ContextsAlwaysAccounted` | `[]ContextsAccounted` | `ContextsInv`: nothing exists before `init`, and the worker runs until it has seen `running_` cleared |
| `ClientTransport_proofs`: `BufferIsStable` | `[]BufferStable` | `OneRead`: until something is sent the one read is with the poll thread, published, requested or completed |
| `ClientTransport_proofs`: `NothingSkippedUntilSend` | `InOrderUntilSend` | `OneRead` and `EachOnce`: queue, buffer and socket hold consecutive datagrams |
| `ClientTransport_proofs`: `NeverAnOlderPayload` | `NeverGoesBack` | `NoneOlder`: the same order without "consecutive", which survives sends |
| `TrayApp_proofs`: `CallbackHearsAll` | of `Discovery`: `[]NotifiedOfEveryChange` | `ToldInv`: what was told last is the list, except between a change and its report |
| `TrayApp_proofs`: `SteadyStaysListed` | of `Discovery`: `SteadyClientKept` | `SteadyInv`: a steady client's age is excused by the query under way and the answers lost in a row |
| `TrayApp_proofs`: `TrayUsesDiscovery` | `TraySpec => Spec`: the window procedure is an application `Discovery` allows | its actions one by one |
| `TrayApp_proofs`: `ExitLeavesNoThread`, `ScanButtonAlwaysSpawns` | of `TrayApp`: `[]NoThreadAfterExit`, `ScanButtonSpawns` | `TrayInv`: which handler waits in which call of Discovery, and that a thread not being joined has `running_` set |
| `VideoPath_proofs`: `SizesAlwaysAgree`, `FramesHeldInTurn` | `[]SizesAgree`, `[]HeldInTurn` | `PathInv`: the staging texture and every cached output have the described mode while a frame is under way |
| `VideoPath_proofs`: `PicturesAreFresh` | `PictureIsFresh` | `FreshInv` with `PathInv`: within a turn a staging texture of the present device, and what was converted of it, show the frame |
| `SendParts_proofs`: `MergeIsSound` | of `SceneAnalyzer`: `[]MergedSound` | `SceneInv`: what an uninterrupted pass has compared so far is disjoint |
| `SendParts_proofs`: `VerdictsAreSound` | of `SceneAnalyzer`: `[]VerdictSound`, with the bounds of the code, not the header's | `SceneInv`, `VerdictInv` and the areas of disjoint rectangles |
| `SendParts_proofs`: `KeyframesComeInTime`, `StreamsAreDecodable` | of `AdaptiveController`: `[]KeyframeInTime`, `[]ClientCanDecode` | `WaitExplained`: the client's wait is bounded by the counter and the keyframes it missed |
| `SendParts_proofs`: `BurstsAreBounded` | of `PacketPacer`: `[]BurstBounded` | `PacerInv`: tokens and what the time since the refill will add are never more than allowed |
| `SendParts_proofs`: `OneLossIsDetermined` | of `FecEncoder`: `[]OneLossDetermined`, one loss at every level, not the four of Medium and High | `FecInv`: the parity at hand is that of the packets it stands for, and the block is what was sent since |
| `ClientParts_proofs`: `DecoderIsBalanced` | of `VaapiDecoder`: `[]DecoderBalanced`, without the slice buffers | members name all the driver holds of config, surfaces and context |
| `ClientParts_proofs`: `EntriesAlwaysExist` | of `Screens`: `[]EntriesExist`, of a `WifiScreen` that is held, as in no program yet | a selection stays within its list |
| `ClientParts_proofs`: `OffsetIsClose` | of `ClockSync`: `[]OffsetClose`, the offset of a peer ahead by half a way or more, the round trip of every peer | `ClockInv`: the same bounds, and for such a peer an offset that is no negative number |

Assumed beyond the constants' types:

* The theorems about the pool assume `OneAllocator`: with two allocating threads they are
  false (ABA, section 4).
* Those about `RingBuffer` assume `Exclusive`: callers that overwrite keep the calls of the
  two threads apart. Without it `RingBufferOverlap` is the counterexample. The discipline
  without overwriting needs no such care, and its theorems do not assume it.
* `SteadyStaysListed` assumes one scan and
  `QueryInterval * (MaxLosses + 1) + 1 <= StaleTimeout`: with the 2 s and 10 s of the code,
  three answers in a row may be lost. A second scan finds the entries as old as the pause
  made them, and may drop a steady client before its first answer comes; with
  `MaxStarts = 2` the property is false.
* `ClockAssumption` bounds the offset, to both sides, by a sixteenth of the width less two
  of the longest ways and one: the sums of one update, eight times as large, then fit in
  the width. That a peer is ahead is not assumed but a condition of `OffsetClose`; nothing
  in the code ensures it, and without it the second half of the property is false.

The arguments in brief.

*Ring.* The producer decides in one step that there is room and writes in another, while
the consumer moves. `Inv` adds what each knows between its steps (`RoomWhilePushing`,
`ItemWhilePopping`); both are stable because each index is written by one thread, which
only moves it in the direction that helps the other. Were both at the same slot, the
distance would be 0 and the consumer would have no item. For the refinement, `Contents`
reads the queue off the buffer; lemmas on `At`, the slot of the i-th item, say that the
write of a push touches none of them, that the next item published is the last, and that
a release moves the others up by one. The abstract push takes effect at the store of
`head_`, the abstract pop at the store of `tail_`.

With `push_overwrite` a full ring looks empty between the store of `head_` and the bump
of `tail_`. `LossyContents` then reads the queue from the slot after `tail_`, so the store
of `head_` is the abstract push that drops the oldest (`ListedOverflows`: the contents lose
their first item and gain one at the end) and the bump changes nothing abstract. It is
sound because no pop begins in between: `OverwriteInv` says that one of the two threads
is idle and that each local copy of `tail_` is `tail_`.

*Pool.* The free list is the set of blocks linked from `head_`, the least set closed under
the links. A block pushed or popped changes it by that block alone as long as the list has
no cycle (`Acyclic`), which is why no block of it may come back while an allocator
stands between reading a link and exchanging `head_`: only an allocator removes blocks, so
with one of them the block it looks at stays in the list and its link stays what was read
(`AllocKnows`). That is all `compare_exchange` needs; with two allocators it fails, as TLC
finds. The exchanges are the linearisation points, and an `alloc` that fails has just
found the list empty.

*Transports.* A payload passes from the socket through completion and I/O thread to the
queue. On the server every stage has its own copy, so order alone is the invariant. On the
client all reads share one buffer: that a datagram is not overwritten needs that only one
read is under way, which `OneRead` follows through ring, kernel and thread. It holds until
`send` touches the ring. What survives sends is that the kernel fills the buffer in order,
so a repeated payload is never older than the last. Contexts are counted: each action
moves a request from one place to the next, and lemmas on the positions of requests in the
completion port say what appending and taking the first one does to their number.

*Discovery.* `ToldInv` names the steps during which the callback is behind the list.
Pruning is noticed by the size alone; it only takes entries away, and a proper subset of a
finite set is smaller (`PruningShows`). For a steady client `Excused` says why its entry is
not too old: the thread is about to update it, or it is at most as old as the query under
way and one interval for each answer lost in a row and for one on its way.

*Tray application.* `TrayInv` ties the handler under way to the call of Discovery it
waits in. A thread that no call is joining has `running_` set, so the exit joins it, and a
window destroyed handles nothing more.

*Video path.* The textures kept from frame to frame are compared with the described mode
before they are used again, and every path that changes the description passes through
the release of the textures or through a comparison. A staging texture of a device given
up is the one that misses the copy of a frame, and the converter cannot blit from it:
every picture that reaches an encoder therefore shows the frame.

*Merging.* A pass that has merged nothing has compared all pairs of earlier rows; a merge
sets `changed` and another pass follows, so analyze ends only with all pairs disjoint.
Covering holds because a union contains both its parts. For the verdict, the area of a
list is a sum and the reference a number of pixels: disjoint rectangles have disjoint
cells, so the sum over the merged ones is the number of pixels they cover, which is at
least the dirty and at most all there are.

*Pacer.* Rounding down makes tokens at most what real-valued refills would give; the
lemmas on products and quotients carry this through `set_rate`, sleep and refill.

*FEC.* Parity adds up the packets modulo 2. A packet that is lost counts 0 and the parity
packet takes its place at the end, so what is missing is the lost bit: it is determined by
what arrives, which is all that is claimed. `FecInv` holds
through changes of level because the parity packets are counted from `block`, and `block`
is what was sent since the last ones.

*Clock.* For a peer ahead by half the longest way or more, the sum of the differences is
not negative, and one update measures the difference of the clocks to half the difference
of the ways, whatever counter has wrapped (`StampsMeasure`); smoothing is a mean rounded down
(`SmoothOf`), and an offset within the bounds stays within them (`RoundingStays`): what
rounding has lost is never more than 7. Most lemmas say that the sums fit in the width, so
that the conversions between signed and unsigned change nothing. The round trip needs no
such condition.

*Sums.* The areas and the parities are recursive functions over a list. What such a
definition says can be used only when a function exists that satisfies it, and the
library's theorems on induction take an operator as a parameter. Three lemmas of
`SendParts_proofs` (the first also serves the free list in `Pool_proofs`) stand in for them, about sets in the place of predicates: a set of
numbers has a least one (`LeastNumber`, from the well-foundedness of inclusion of finite
sets), what holds of 0 and passes from each number to the next holds up to any bound
(`InductionUpto`), and a recursion over an interval has a solution (`RecursionExists`).

Only model-checked: all liveness properties, which rest on fairness, out of the prover's
reach (`SoundReception`, `EveryPayloadReceived`, `DestructorReturns`, `CallsReturn`,
`SilentClientForgotten`, `RowsForgetSilent`, `StreamRecovers`, `RateRecovers`, `WaitEnds`,
`EveryPathHeard`, `AudioFlows`, `WriteReturns`). What the code violates is shown by the
counterexamples of section 3.

## 6. Plan

Done: ring, pool, transports, discovery, tray application and video path; then the scene
analyzer, the controller, the send path's pacer, FEC, congestion control and paths, the
clock, audio, decoder and screens; then the proofs of section 5. Left, most important
first:

1. Inductive invariants of the parts of which only liveness is checked (congestion control,
   paths, audio), where a safety property worth stating turns up.
2. Composition of the send path (controller, encoder, FEC, pacer, transport) and of the
   client's receive path, when the repository connects them: today no code says in which
   order and on which threads they run.

## 7. What is not modelled, and why

* Contents: bytes of packets, mDNS parsing, codec parameters, colour matrices, pixels. No
  property here depends on them.
* Encoders are fixed to 1920x1080 whatever the capture delivers (`nvenc_encoder.cpp:55`,
  `amf_encoder.cpp:59`, `qsv_encoder.cpp:42`); sizes inside the encoder are left out.
* Counters of statistics, socket options, settings, notifications and the look of windows.
* `size()` of a ring called by a third thread; a pool of capacity 0; a `PoolPtr` that
  outlives its pool; calls of a transport during its destructor.
* Sequences of system calls without state (system and network tuning), wrappers of Opus,
  logging, result values, vector helpers, protocol declarations, image and build files.
* `send` of `MultipathManager`, the audio pipeline, `SyncEngine`, `InputForwarder`,
  `VirtualInput`, `WinService`, DRM display and the updater: each is stateless or a loop
  over one flag; `PROJECT.json` gives the reason for each.
