# TLA+ specifications of ARStream

ARStream streams a phone's camera, IMU, poses and point clouds to a server. The
native phone side (`mobile/native/src`, C++) encodes and sends; the server
(`server/src/arstream_server`, Python, asyncio) records and shows a dashboard.
This directory holds TLA+ models of both sides, TLC configurations that check
them on small instances, and TLAPS proofs about every component and about the
composition of both sides.

Paths below are relative to the repository. `PROJECT.json` maps every definition
that models code to its lines, and lists runs, mutants, findings, hazards and
theorems.

## 1. The system

```
 Main.gd --calls--> ArCapture --owns--> CaptureController --> Camera2 | ARCore session
 (buttons)          (main thread)       H264Encoder      (drain thread)
                        |               SensorSampler    (sensor thread)
                        | callbacks of the three threads: if (sink_) sink_->write_*()
                        v
                    OutputSink = FileSink | StreamSink
                                             | memory queue -> spool file -> sender thread
                                             v
                                          StreamClient (blocking TCP)
 ============================================ network =========================
                                          ClientSession (one task per connection)
                                             | PluginManager: Recorder, Stats, external
                                             v
                  files of the recording     EventBus -> ws_live -> dashboard tab
```

| Component (code) | State | Operations | What is hard | What makes it correct |
|---|---|---|---|---|
| **StreamSink / StreamClient** (`sink/stream_sink.*`, `net/stream_client.*`) | per-type counters, cached VIDEO_CONFIG, memory queue and its byte count, overflow flag, spool file and its two positions, connection, shutdown flag and deadline | `write_*`, `open`, `close`, `sender_loop`, `enqueue`, `pop_next_to_send`, `requeue_front` | several writers and one sender that takes the lock three times per turn; reconnection; disk that refuses; shutdown racing the drain | FIFO across memory, disk and failed sends; nothing lost; memory bounded; config first on a connection; drain and shutdown terminate |
| **FileSink** (`sink/file_sink.*`) | the open files | `write_*`, `open`, `close` | called from three threads | no call after it is closed |
| **ArCapture** (`ar_capture.*`) with the **capture backends**, **ARCore availability**, **encoder** and **sampler** (`capture/android`, `encode`, `sensors/android`) | `capturing_`, the component pointers, `sensor_orientation_`, the cached availability, the threads | `start_capture`, `stop_capture`, `set_preview_enabled`, callbacks | three threads test `sink_` without a lock; every start can fail half way | all components or none; no call into a closed sink; each capture's frames have a config with the right rotation; the preview button tells the truth |
| **ARCore session and GL renderer** (`capture_controller.cpp`, `arcore_capture_session.*`, `gl_blit_renderer.*`) | the session, its frame and render thread, the EGL display, context, window and pbuffer, the framebuffer | `start`, `stop`, `render_loop`, `init`, `bind_window`, the two blits, the fallback to Camera2 | each step of the set-up may fail, on the other thread, and an `eglMakeCurrent` later without anyone asking; the encoder's Surface changes its producer | one producer per Surface; nothing used after it is destroyed; no single failure costs the encoder a frame; everything released; start and stop return |
| **Main.gd** (`mobile/scripts/Main.gd`) | `_is_capturing`, the buttons | button handlers, signal handlers | preview restored over captures | agrees with ArCapture |
| **Wire protocol** (`net/protocol.*`, `protocol.py`) | none | encode, decode, `next_message` | framing over arbitrary reads; truncated fields | what one side writes the other reads |
| **Ingest server** (`ingest.py`, `session.py`, `cli.py`) | buffer, `Session` | `run`, `_consume`, `_handle` | cut streams, resets, undecodable payloads | every whole message handled once; the session ends however the connection does |
| **Plugin manager** (`plugins/__init__.py`) | the plugin list | `dispatch_*`, `_call_safely` | plugin errors in mid-dispatch | one plugin's error is no one else's |
| **Recorder** (`plugins/recorder.py`) | files, `_video_offset` | `on_*` | writes that fail half way; order against Stats | index and video agree; the last meta.json is final |
| **Stats** (`plugins/stats.py`) | counters | `on_*` | publishes every N frames only | the end event is last and final |
| **Event bus** (`events.py`, `context.py`) | bounded queue per subscriber | `subscribe`, `publish` | drop-oldest | newest kept, order kept |
| **Web app and page** (`web/app.py`, `static/dashboard.html`) | subscriptions; the tab's table | `/api/sessions`, `/ws/live`; `loadInitial`, `connectWs`, `upsert` | list, subscription and reconnection are separate steps | rows never go back; the live table is right |
| JNI bootstrap, fixtures and build files | | | | see "Not modelled" |

The capture threads and the sender share only what `mutex_` guards; the ingest
connections share only the bus and `ctx.sessions`. That is why one sink, one
connection and one bus are separate modules.

## 2. The modules

**`FifoChannel`** is what `stream_sink.h` promises: a message gets the next number
of its kind and joins one queue; the head of the queue is delivered. `MayLose`
allows a message to be numbered and dropped, which the code does only when the
disk refuses the spool.

**`StreamSink`** is `stream_sink.cpp` with `stream_client.cpp`. A step is one
section under `mutex_` or one socket call. The variables keep the members' names.
`pc` is the point `sender_loop` has reached; `shutting_down`, `config_sent`,
`config_copy` and `message` are its locals (`message` also keeps the message that a
failed send is about to put back). `Write` is any of the five data writers;
`VIDEO_CHUNK` needs a config first, as MediaCodec gives its codec config first.
`OpenSpool` chooses among the outcomes of the two `fopen` calls. `stalled` is a peer
whose receive window stays full: `send` then never returns. `wire`, `taken` and
`cached_at_connect` are history for the properties. `Fifo` maps it to
`FifoChannel`: the abstract queue is `message \o memory_queue_ \o spool`.

**`Protocol`** is `protocol.cpp` and `protocol.py`: how a message is laid out and how it
is read back, over *cells*. A cell is one field, or one byte of a payload whose bytes matter; a
field of 16 or 32 bits is cut to its width, `U16Values` and `U32Values` being the number
of values it has. `wrap` and `next_message` are there with the header's length field,
so a stream whose cells are shifted by one is read as it would be: as wrong lengths and
types.

**`SpoolFile`** is the spool of `stream_sink.cpp` cell by cell, with the file's two positions,
which are kept apart from what is in it: a write cut short by the disk advances
`spool_write_pos_` by the full size. `at_eof` is the reader's end-of-file state. The disk may also
refuse to open a file (`refusals` counts the calls of `enqueue` it does that to): without one to
write to the message is dropped and the next call tries again (`SpoolRefused`); without one to read
from what is written is never read, and the two positions never meet.

**`EndToEnd`** composes both with connections and server sessions. It is the system seen
from the capture: `Script` is what the sink keeps of it, in order, `Dropped` messages that it
drops between them when the spool's file is refused (`WriteDropped`), anywhere in the capture and
any number of times within the bound; the properties number the messages that are kept, and
a dropped one must leave no trace in the queue, under way or in a session. That it is lost at all,
and only for want of a file, is `StreamSink`'s `LostOnlyWithoutSpool`. `connections` is what each TCP
connection has under way and what the session of it has buffered and recorded. A connection
can be cut at any cell; what is then under way is gone and the session ends on its
own time, also after the phone's next connection has begun. One turn of `sender_loop` is
one step: its interleavings inside a turn are in `StreamSink`. `damage`, `sent` and `first` are
history: the first message the disk cut short, how many messages have gone out, and how many had when
each connection was opened. **`MCEndToEnd`** gives the capture for TLC.

**`ShutdownTiming`** is `sender_loop` and `close()` again, with what each blocking call may
take on a clock, and with messages only counted. `Tick` lets a unit pass
unless the call in progress must end. `LongestClose` is the bound in terms of the code's times.

**`IngestServer`** is one connection of the server. Bytes are counted, not valued, but
each byte of `video.h264` carries the number of its message, so that the index in
`frames.jsonl` can be compared with what is in the file. A callback of a plugin is
one step; `PluginEscapes` is a callback that is no coroutine function and raises
before `_call_safely` is entered. Disk errors leave any prefix of a write.

**`Dashboard`** is the bus, `/api/sessions`, `/ws/live` and the page. A step runs
from one await that suspends to the next. Sessions here are what Stats makes of
them. `link` separates a connection both ends know closed from one that the server
still believes in. `newest` and `owed` are history.

**`ArCapture`** is the life of a capture, with the backend forced by the system property
or chosen by the cached availability, whose check answers when it likes: a step is what the main thread does to one
component; a callback is two steps, the test of `sink_` and the call. `StopOrder`
is the order of `stop_capture`. `config_when` records when the codec gave its
config relative to the opening of the sink and to the choice of the backend.

**`RenderSession`** is one backend seen from inside: `main` is where the caller's thread is in
`start`, `stop` or a destructor, `render` where `render_loop` is, `init_result` the promise
between them, `egl` the EGL objects that exist, `current` the thread and surface
the context is current on. A preview is a session without `encoder_surface`. In the loop an
`eglMakeCurrent` may fail unnoticed ("switch"): then what was current stays current and is drawn to.
`slips` is history: the calls that have failed since the window was last current. That the end of
a thread releases its context, and that a failing `eglMakeCurrent` changes nothing, is EGL's behaviour.

**`StreamSinkProofs`, `ShutdownTimingProofs`, `RenderSessionProofs`, `ProtocolProofs`,
`IngestServerProofs`, `DashboardProofs`, `ArCaptureProofs` and `EndToEndProofs`** hold the theorems.

Definitions marked "Faulty variant" are not used by the specifications: they are
plausible mistakes, listed under "mutants" in `PROJECT.json`, one or more per
property. Substituted for the definition they name, they break that property.

## 3. The runs

| Run | Shows |
|---|---|
| `StreamSink.cfg` (1.8 million states) | safety of the sink under connection failures, a stalling peer and every outcome of opening the spool: implements `FifoChannel`, loses only at a refused disk, memory bounded, wire ascending per type, config first when cached |
| `StreamSinkLive.cfg` (44 000) | a disk that works and a peer that reads: overflow mode lasts exactly as long as the spool, everything accepted is sent once failures stop, a connection ends up configured, `close()` returns, and gives up only for a reason |
| `EndToEnd.cfg` (758 000) | with a spool whose files the disk may refuse: the server records what the sink kept, every field, in order and once, over two sessions that may live together; of that, messages are missing only where a connection was cut; the queue is always the exact rest of it, in memory and file, also around a message dropped at a refused file; a short write to the spool spoils nothing older, in the queue, under way or recorded; once breaks stop, all that was kept is sent and read to its last cell, also when a file was refused |
| `ShutdownTiming.cfg` (73 000) | `close()` ends within `LongestClose`, 11 s with these times (one address, a send of at most 1 s); a server that is back is connected to within two attempts and the longest backoff |
| `IngestServer.cfg` (305 000) | every cut of the stream into reads, FIN and reset at every point, one failing write, a raising plugin: framing, isolation, index, final metadata, end of the session |
| `Dashboard.cfg` (122 000) | two sessions, a tab that connects twice, overflowing queue: views only go forward, the newest arrives, dead subscriptions go |
| `ArCapture.cfg` (49 000) | both backends, forced or chosen, both modes, every failure, preview toggled, any number of captures: all or nothing, no call into a closed sink, frames have their config, preview survives |
| `RenderSession.cfg` (688) | the ARCore backend failing at every step, previews, `eglMakeCurrent` failing in the loop, stop at any time: one producer for the encoder's Surface, the render thread never without its session, no frame drawn to the pbuffer unless two calls in a row fail, everything released, calls return |
| `StreamSinkConfigOrder.cfg` | *violation*: config cached between the sender's two locked sections; a chunk goes first |
| `EndToEndLoss.cfg` | *violation*: what the socket had taken when the connection was cut is lost; the docs say no loss |
| `ShutdownCap.cfg` | *violation*: `close()` takes longer than the 5 s the docs call its cap: neither backoff nor connect looks at `running_` |
| `DashboardStaleRow.cfg` | *violation*: what happens between the list and the subscription is never shown |

Each violation contradicts a sentence of the repository, quoted under "findings".

**Some properties leave a weakness out by name.** What they exclude is what the code
does there; each is listed under "hazards".

- `CallsFindAnOpenSink` excludes the two steps of `start_capture`'s error path in which the
  sink is closed and deleted while the drain thread still runs (`ar_capture.cpp:347`).
- `FramesHaveTheirConfig` excludes the ARCore config turned by an orientation not yet
  corrected (`ar_capture.cpp:90`), and the config that comes before `sink_` is
  assigned, which is dropped (`ar_capture.cpp:89`).
- `PreviewSurvivesCaptures` speaks of starts that succeed: a failed start leaves the preview
  off and its button pressed.
- `LostOnlyWithoutSpool` allows losses without a spool file. `overflowing_` is set
  before `fopen` is tried, so a refused file leaves the sink overflowing, and dropping until the disk
  lets an `fopen` of a later `enqueue` succeed: a hole in the middle of an unbroken session.
- `QueueIsTheRest`, `RecordedAsWritten`, `LossOnlyAtDrops` and `DamageIsLocal` therefore speak of
  the messages that the sink has kept. Those dropped at a refused file are missing on the server too.
- `EverythingArrives` excludes a spool that was opened to write and not to read (`stream_sink.cpp:112`,
  `140`): it is never read, what is written to it never goes out, and overflow mode never ends. It also
  speaks of what the sink has kept, of a phone that is not closed, and of a spool without a short write.
- `OneFailureLosesNoFrame` allows the frame that two failing calls of `eglMakeCurrent` in a row cost: the
  code looks at neither result.
- `PluginsIsolated` speaks of callbacks that are coroutines. A plain function that raises does
  so outside `_call_safely`'s `try` and ends the connection.
- `CloseReturns` and `CloseIsBounded` assume a peer that reads. Behind one that does not,
  `send` and so `close()` never return.
- `RecordedAsWritten` and `LossOnlyAtDrops` stop where a message that the disk cut short goes out
  (`Sound`): behind it the reader is lost, and payload cells are sent as messages, which may by chance
  be read as earlier ones. What is promised then is `DamageIsLocal`: what was written
  before the short write is recorded as if it had not happened.

`gl_blit_renderer.h:22-24` says all calls are confined to the render thread; `stop()` and the
destructor call `unbind_window` on the caller's. The model has them there, and shows
that it is after the join.

**Bounds and why they are enough.** `StreamSink`: two kinds (one that needs a
config, one that does not) with two messages each, of sizes 1 and 2, against a
memory cap of 3: this reaches memory full, spooling, drain, a message put back over the cap and
a second overflow after the first has ended. Two faults allow a failure
while the first one is being repaired. The theorems remove these bounds for what
they cover. `EndToEnd`: three messages of three layouts, of five to seven cells, against a memory
of six: the first always goes to the spool, the second to memory or behind it, and the third to
either, so that a message that overtakes, a spool that is drained and opened again and a put-back
past the cap are all there. A fourth may be dropped between any two of them when a file is refused, once, for
writing or for reading; two connections and one break are one
reconnection with the older session still alive; one short write of two cells cuts a message inside its
header, and later reads then start inside others. 16 and 64 field values are more than any
field of the capture but small enough that misread cells are valid lengths. `ShutdownTiming`: a unit of 500 ms,
so that the code's times are 6, 16, 1 and 10 units; two queued messages are one that is
sent before and one after `close()`; the theorems hold for any times. `RenderSession` needs no bound. `IngestServer`: two messages of six kinds, so that every pair meets;
a header of one byte and payloads of one or two can be cut inside the header,
between header and payload and inside the payload; the second disk fault would only
repeat the first, since no code looks at earlier ones. `Dashboard`: a queue of two and a socket that
takes one event overflow with the five events two sessions can make; two connections show
what outlives a reconnection. With one tab nothing is lost: tabs share no
state but the sessions they only read. `ArCapture` needs no bounds on its length.

**Fairness.** `StreamSink!FairSpec`: the sender thread is scheduled, `wait_for` returns
(it has a timeout), and five seconds pass. The failures that may happen are
bounded by `MaxFaults`, which says "once failures stop"; nothing forces a write, a
config, a failure or a shutdown. A stalled `send` is not enabled, so fairness does not rescue it.
`IngestServer`: the event loop runs the connection's task when it
can run; the peer need not do anything. `Dashboard`: server and browser run what
is ready, keepalive finds a lost link; sessions need not go on and links need not fail.
`EndToEnd`: the sender turns, and the server reads and handles what has come; breaks
are bounded, writes are not forced. `RenderSession`: the thread that is inside `start`, `stop` or a destructor
goes on when it is not waiting, and so does the render thread; nobody has to call
anything. `ArCapture` and `ShutdownTiming` have no liveness property: the latter's are bounds on a clock.

**Deadlock** is checked where a stop would be an error. It is off in two kinds of run: in
`StreamSink.cfg`, where a stalled `send` really blocks, and in the `Dashboard` runs, which
end when all sessions have.

## 4. What is proved

`StreamSinkProofs` proves for **every** value of the constants (any subset of
the five kinds, any positive sizes, any cap, any disk, any number of messages and faults):

| Theorem | Statement |
|---|---|
| `TypeCorrect` | `Spec => []TypeOK` |
| `SpoolCorrect` | messages on disk only in overflow mode and behind an open write file |
| `SinkIsFifo` | `Spec => FifoSpec`: every step is a step of `FifoChannel` or a stutter |
| `LossOnlyAtRefusedSpool` | a message is dropped only at `write_*`, and only when there is no spool file to go to |
| `MemoryStaysBounded` | memory exceeds the cap by at most the one message put back |
| `ConfigGoesFirst` | a connection opened with a cached config starts with it |
| `WireIsAscending` | numbers ascend per type over each connection |
| `OverflowCorrect` | if the disk always opens the spool, overflow mode is exactly "spool not empty" |
| `SenderGivesUpOnlyForCause` | if the disk always opens the spool, the loop ends only after `close()`, and with unsent messages only past the deadline or unconnected |

Assumptions: those named in `StreamSink` (kinds are data kinds, sizes are positive,
the other constants have their types), which TLC evaluates in every run, and for the last two the working disk.

Argument. `StructInv` (types, a message is in hand exactly at
"send" and "requeue", nothing on disk outside overflow mode) is inductive. It is
what makes the FIFO step go through: `EnqueueMemory` appends at the end of `Pending` only
because the spool is empty when the sink is not overflowing, and `RequeueFront`
leaves `Pending` alone only because the message in hand is its head. `MemoryBounded` is not
inductive: after a put-back the sink is over the cap, and the next pop must bring it
back under; `MemoryInv` adds that the count without the head is under the cap,
and under the cap itself while a message is out. `ConfigInv` ties the
config flag to the empty wire and to the sender's position. `WireInv` orders wire and
`Pending` together (everything on the wire is below everything pending of its kind,
both ascend, both are below the counters): `WireAscending` alone says nothing about
a message that was put back. `ShutdownInv` adds that `shutting_down` implies not `running_`.

`ShutdownTimingProofs` proves for **every** connect time, send time, backoffs, wait time, deadline
and number of queued messages, with the assumption `TimesAssumption` (natural numbers,
`MinBackoff <= MaxBackoff`):

| Theorem | Statement |
|---|---|
| `TimingTypeCorrect` | `Spec => []TypeOK` |
| `CloseBounded` | from `close()` to the end of the sender no more than `LongestClose` passes |
| `ReconnectsWithinBound` | a sender without a connection does not stay so longer than two attempts and the longest backoff after the server is back |

Neither bound is inductive. `CloseInv` adds to the time since `close()` what the call in progress
may still take and what the turn must still do at each label: connect, then at most a backoff, a
config and a message, since the deadline is looked at only at the head of the loop.
`LoopInv` says what the locals are at each label, `ReconnectInv` does for the
reconnection what `CloseInv` does for `close()`. What is assumed and not in the code is `SendTime`: the
peer takes a message within it.

`RenderSessionProofs` proves for **every** set of steps that may fail:

| Theorem | Statement |
|---|---|
| `SessionTypeCorrect` | `Spec => []TypeOK` |
| `SurfaceHasOneProducer` | `Spec => []OneProducer` |
| `LoopIsSafe` | `Spec => []LoopKeepsItsSession` |
| `FramesSurviveOneFailure` | `Spec => []OneFailureLosesNoFrame` |
| `NothingLeaks` | `Spec => []EverythingReleased` |

None of them is inductive. `ThreadsInv` says where each thread may be while the other is at a given
point, and what exists there: while the render thread sets up, main awaits the promise
(`SetUpInv`); in the loop the promise was kept and everything is there (`LoopInv`); once it
has ended its context is released (`EndedInv`); and what main may conclude at each point of
`start` and `stop` (`MainInv`). `NothingLeft` outside a session is what a fallback needs. `SlipInv` follows
the surface round the loop: wherever the loop is, if the window is not current a call has failed since it was,
and when a frame has just been drawn a second one.

`ProtocolProofs` proves for every width of the fields (`WidthAssumption`):

| Theorem | Statement |
|---|---|
| `FramingRoundTrip` | `next_message` on a wrapped message followed by anything gives the message and leaves what followed |
| `TornMessageWaits` | on a proper prefix of a wrapped message it waits |
| `ImuBatchCutToItsCount` | an `IMU_BATCH` of any number of samples decodes to the first of them, as many as its 16-bit count says, and the next message is found behind it |
| `ImuBatchRoundTrip` | an `IMU_BATCH` decodes to its samples whenever their number fits the 16-bit count |

They rest on what concatenation and `SubSeq` do at a seam (`CutAtSeam`, `CutMiddle`, `CutBehindSeam`) and on fields that
keep what is within their width (`FieldKeeps`).

`IngestServerProofs` proves for **every** header size, set of payload sizes, number of messages and number
of failing writes, with or without plain callbacks:

| Theorem | Statement |
|---|---|
| `IngestTypeCorrect` | `Spec => []TypeOK` |
| `IndexNamesItsFrames` | `Spec => []IndexMatchesVideo` |
| `PluginsAreIsolated` | `Spec => []PluginsIsolated` |
| `FinalMetaIsTheSession` | `Spec => []MetaIsFinal` |
| `NoMessageWaitsInTheBuffer` | `Spec => []NothingWholeWaits` |

`PlaceInv` says where the dispatch loop can be. The others hold between messages only, so each is
extended to the middle of a dispatch: `SeenInv` and `CountInv` say which plugins had the message already,
`RecorderInv` adds to the index that the files are open and `_video_offset` is the length of the video,
without which the next line would be wrong, and `MetaInv` that the session has ended before Recorder
writes it. `NothingWholeWaits` needs to know that a new message cannot already be in the buffer when it is sent:
`BytesInv` says, by the positions at which messages end in the stream, that what was sent and not handled is
exactly what is in the buffer and on its way.

`DashboardProofs` proves for **every** number of sessions, tabs, connections and frames, and every queue
and socket size:

| Theorem | Statement |
|---|---|
| `DashboardTypeCorrect` | `Spec => []TypeOK`, with the bound of the queues |
| `RowsNeverGoBack` | `Spec => ViewsNeverGoBack`, an action property |

A row can only be replaced by what waits for the tab, so the invariant orders everything that waits: the
queue and the socket of a connection hold later snapshots behind earlier ones and all of the socket before
all of the queue (`EventsInv`), nothing in them is newer than the sessions, and nothing
in the newest connection is older than the tab's table (`ViewInv`). That holds when a connection opens because
it opens after `loadInitial` is done and with an empty queue (`LoadInv`, `ConnectionsInv`).

`ArCaptureProofs` proves for **every** orientation of the sensor, every override and answer of the
availability check, and every set of components that may fail:

| Theorem | Statement |
|---|---|
| `CaptureTypeCorrect` | `Spec => []TypeOK` |
| `CaptureIsAllOrNothing` | `Spec => []AllOrNothing` |
| `ThreadsCallAnOpenSink` | `Spec => []CallsFindAnOpenSink` |
| `ConfigPrecedesItsFrames` | `Spec => []FramesHaveTheirConfig` |
| `PreviewFollowsItsButton` | `Spec => []PreviewSurvivesCaptures` |

`ComponentsInv` says for each point of `start_capture`, its error path and `stop_capture` which components
exist; `ThreadsInv` ties each thread to the component it belongs to, and the two give `AllOrNothing`
and `CallsInv`. `ConfigInv` follows a config from the drain thread into the sink, so that it says where it is while a
frame could overtake it, and `OrientationInv` gives the rotation it carries. `PreviewInv` says what the
restored preview is at each point between the button and the end of the start.

`EndToEndProofs` proves for **every** capture and config, cap of the memory, number of connections and
breaks, every short write to the spool and every file the disk refuses:

| Theorem | Statement |
|---|---|
| `EndToEndTypeCorrect` | `Spec => []TypeOK` |
| `QueueStaysInOrder` | `Spec => []QueueIsTheRest` |
| `ServerRecordsWhatWasWritten` | `Spec => []RecordedAsWritten` |
| `LossNeedsADrop` | `Spec => []LossOnlyAtDrops` |
| `DamageStaysLocal` | `Spec => []DamageIsLocal` |

Assumptions, besides the types of the constants: every message fits its length field, the samples of a batch,
the points of a cloud and the bytes of the config's JSON fit their counts, poses and intrinsics have all their fields
(`ScriptFits`, `ConfigFits`), and no two messages of one type have one number (`NumberingAssumption`): each type has a
counter of its own that only goes up, short of 2^32 messages (`stream_sink.cpp:47-52, 68-98`). A batch of more samples than its count can say
would not be read back (`ImuBatchCutToItsCount`); one of 75 ms of sensor events stays far below. Short writes to the spool are covered: `ServerRecordsWhatWasWritten`
and `LossNeedsADrop` hold until a message that was cut short goes out (`Sound`), and `DamageStaysLocal` says what
holds of everything older for ever after.

The argument has four parts.

- *The queue.* `QueueInv`: memory holds the messages after the first `sent` ones up to `g`,
  the file the cells of the rest (`Holds`), also when a message was dropped in between, since nothing of it is
  in either; its positions differ by the length of that rest (`SpoolCounts`), and
  `memory_bytes_` is the size of what memory holds (`MemoryCounts`). `QueueIsTheRest` alone does not say where memory ends
  and the file begins, which decides whether a pop takes the right message. After a short write the same is true up to the
  message it cut (`Whole`), with what the disk took of later ones behind, until all older messages
  are sent (`InOrder`). Also then memory holds nothing but cells of the length their header says
  (`MemoryWhole`), since that is how the reader cuts them: whatever is sent is a whole message for the server's framing.
  The list of messages is flattened to cells by a fold; what it gives is proved by induction over sets of numbers and
  sequences (`Chain`).
- *The wire.* Every message that fits its fields is decoded to what was written (`ItemReads`, type by type), and if a stream of
  whole messages is cut anywhere, whole messages remain and less than one behind them, in which
  `next_message` finds nothing (`FirstPart`, `Torn`).
- *The sessions.* Each connection has a story: the number of the last message sent before it, and how many items, the config one of
  them, were sent on it. `Carries` says that what its session recorded are the first of these items, and what is
  buffered and under way are the cells of the next ones, whole; on a cut connection they may be fewer, and less than a message may
  follow. `Tells` says that the stories follow each other in the capture, that the current one, unless it was cut,
  goes up to `sent`, and `CutsCounted` that there are as many cuts as breaks. A message put back after a failed send is therefore
  in no story before it is sent again, which is why nothing is recorded twice although two sessions may be alive.
- *What is sent from the damaged message on.* No story can be told of it: its cells are not those of any message written.
  `Begins` says that a connection begins with its story, whatever is sent behind it. When the damaged message goes
  out the current story ends just before it, and from then on every connection that began before it still carries its
  story or, if it was the current one, begins with it (`Strays`). `Delivered` joins the two: `Tells` while `Sound`, then `Strays`.

Only model-checked: all liveness, which is outside the prover's reach. Every invariant and action property of a passing
run is stated by a theorem.

## 5. What is not modelled

- *`HELLO`, `CLOCK_SYNC`, `STATUS` and `GOODBYE`*, which are defined and never sent.
- *VIDEO_CONFIG replaced in mid-stream* is written but not resent by the code; the
  encoder never does it.
- *What is drawn*, the preview image's content, and whether the EGL display stays initialised when no
  context was made. *eglSwapBuffers*, whose result nobody looks at: a frame drawn to the window may still
  not reach the encoder.
- *FileSink's lines*, statistics, labels, permissions, batching of the sampler, frames left
  in the codec at stop, the download of a recording, loading of external plugins, and the text
  of JSON and log lines: formatting, or state no other component reads.
- *The NDK objects of Camera2* are one unit that starts or does not.
- *JNI bootstrap, fixtures, build files, CI*: one call at start-up, data and builds.

## 6. Plan

Modelled first was the sender, where threads, failures and persistence meet; then the server's
handling of one connection, the dashboard, and the capture around the sink; then what runs across
them: the wire format, the spool's bytes, the way to the server, the shutdown's times and the render
thread. Left:

1. `SensorBatches`: the sampler's loop, its flush interval and the batch it drops at stop.
2. The server's start-up and stop (`cli.py`), where open sessions are cancelled.

Runs stay small (one question each); where two questions share an instance, they share a run.
