---------------------------- MODULE IngestServer ----------------------------
(***************************************************************************)
(* One connection of the server (src/server/src/arstream_server):          *)
(* ClientSession (ingest.py) cuts the TCP stream into messages and hands   *)
(* each to the plugins in order (plugins/__init__.py): RecorderPlugin,     *)
(* StatsPlugin and one external plugin.                                    *)
(*                                                                         *)
(* Connections share no state but the event bus (Dashboard.tla): plugins   *)
(* key theirs by session.id.  Within one, everything is in one task; a     *)
(* step is one read, one cut of the buffer or one plugin callback.  Bytes  *)
(* are counted; in video.h264 each byte carries the number of the message  *)
(* it came from.  A disk write may fail, which raises OSError.             *)
(***************************************************************************)
EXTENDS Integers, Sequences, FiniteSets

CONSTANTS
    HeaderSize,     \* protocol.HEADER_SIZE
    PayloadSizes,   \* payload lengths of the peer's messages
    PublishEvery,   \* _PUBLISH_EVERY_N_FRAMES
    PlainCallbacks, \* TRUE if the external plugin may have callbacks that
                    \* are no coroutine functions
    MaxMessages,    \* bound: messages the peer sends
    MaxDiskFaults   \* bound: writes that fail

ASSUME ServerAssumption ==
    /\ HeaderSize \in Nat \ {0} /\ PayloadSizes \subseteq Nat \ {0}
    /\ PublishEvery \in Nat \ {0}
    /\ PlainCallbacks \in BOOLEAN
    /\ MaxMessages \in Nat /\ MaxDiskFaults \in Nat

\* "bad": a payload the decoder rejects; "unknown": an unknown msg_type;
\* "sample": IMU_BATCH, POSE_SAMPLE and POINT_CLOUD
MessageKinds == {"config", "chunk", "sample", "intrinsics", "unknown", "bad"}

Plugins == 1 .. 3   \* cli.py's order
Recorder == 1
Stats == 2
External == 3

VARIABLES
    sent,           \* what the peer sent, a sequence of messages
    stream,         \* bytes that reached the StreamReader and were not read
    peer,           \* "open", "eof" (FIN) or "reset"
    pc,             \* where ClientSession.run is
    buffer,         \* length of run's buffer
    handled,        \* messages cut from the buffer
    plugin,         \* the plugin whose callback is next
    seen,           \* per plugin: messages its callback was given
    session,        \* the Session object
    recording,      \* which of the Recorder's files are open
    video,          \* bytes of video.h264, as message numbers
    frames,         \* lines of frames.jsonl
    video_offset,   \* _video_offset
    rows,           \* lines of imu/poses/points.jsonl, as message numbers
    intrinsics,     \* intrinsics.json, 0 when absent
    meta,           \* meta.json, a snapshot of session, NoMeta when absent
                    \* or cut short
    events,         \* what StatsPlugin published
    disk_faults     \* failed writes, for MaxDiskFaults

netVars == <<sent, stream, peer>>
readVars == <<buffer, handled>>
recorderVars == <<recording, video, frames, video_offset, rows, intrinsics, meta>>
statsVars == <<session, events>>
vars == <<netVars, pc, readVars, plugin, seen, recorderVars, statsVars, disk_faults>>

Size(m) == HeaderSize + m.size
NoMeta == [ended |-> FALSE, video_config |-> 0, frame_count |-> 0, byte_count |-> -1]

Init ==
    /\ sent = <<>> /\ stream = 0 /\ peer = "open"
    /\ pc = "start" /\ buffer = 0 /\ handled = 0
    /\ plugin = 1 /\ seen = [p \in Plugins |-> 0]
    /\ session = [ended |-> FALSE, video_config |-> 0, frame_count |-> 0, byte_count |-> 0]
    /\ recording = {} /\ video = <<>> /\ frames = <<>> /\ video_offset = 0
    /\ rows = <<>> /\ intrinsics = 0 /\ meta = NoMeta
    /\ events = <<>> /\ disk_faults = 0

-----------------------------------------------------------------------------
(* The peer and the network.                                               *)

PeerSend(m) ==
    /\ peer = "open" /\ Len(sent) < MaxMessages
    /\ sent' = Append(sent, m)
    /\ stream' = stream + Size(m)
    /\ UNCHANGED <<peer, pc, readVars, plugin, seen, recorderVars, statsVars, disk_faults>>

(* The connection ends; the last bytes may be missing, in mid-message too. *)
(* "reset" also stands for the task being cancelled when the server stops: *)
(* both raise in read(), the only await here that suspends.                *)
PeerGone(how) ==
    /\ peer = "open"
    /\ peer' = how
    /\ \E n \in 0 .. stream : stream' = n
    /\ UNCHANGED <<sent, pc, readVars, plugin, seen, recorderVars, statsVars, disk_faults>>

-----------------------------------------------------------------------------
(* RecorderPlugin.  A callback that raises is cut short where it raises.   *)

DiskFault == disk_faults < MaxDiskFaults /\ disk_faults' = disk_faults + 1
DiskOk == disk_faults' = disk_faults

(* write_text truncates first: a failure may leave less than there was.    *)
WriteMeta == DiskOk /\ meta' = session
MetaFails == DiskFault /\ meta' \in {meta, NoMeta}

RecorderSessionStart ==
    /\ \/ WriteMeta /\ recording' = {"video", "frames", "rows"}
       \/ MetaFails /\ recording' = {"video", "frames", "rows"}
       \/ \* mkdir or a later open() raises
          DiskFault /\ recording' \in {{}, {"video"}, {"video", "frames"}} /\ UNCHANGED meta
    /\ UNCHANGED <<video, frames, video_offset, rows, intrinsics>>

Bytes(n) == [i \in 1 .. n |-> handled]

(* A write of n bytes to video.h264 that raises after some of them are in  *)
(* the file, or in its buffer for the next flush.                          *)
VideoWriteFails(n) ==
    /\ "video" \in recording
    /\ DiskFault
    /\ \E k \in 0 .. n : video' = video \o Bytes(k)
    /\ UNCHANGED video_offset

(* Faulty variant: SPS/PPS are not counted.                                *)
ConfigUncounted(m) == video_offset
ConfigOffset(m) == video_offset + m.size

RecorderVideoConfig(m) ==
    /\ \/ /\ WriteMeta \/ MetaFails
          /\ video' = IF "video" \in recording THEN video \o Bytes(m.size) ELSE video
          /\ video_offset' = ConfigOffset(m)
       \/ VideoWriteFails(m.size) /\ UNCHANGED meta
    /\ UNCHANGED <<recording, frames, rows, intrinsics>>

FrameLine(m) == [frame |-> handled, byte_offset |-> video_offset, size |-> m.size]

(* The index line goes out before the frame, the offset moves after it.    *)
RecorderVideoChunk(m) ==
    /\ \/ /\ DiskOk
          /\ frames' = IF "frames" \in recording THEN Append(frames, FrameLine(m)) ELSE frames
          /\ video' = IF "video" \in recording THEN video \o Bytes(m.size) ELSE video
          /\ video_offset' = video_offset + m.size
       \/ /\ VideoWriteFails(m.size)
          /\ frames' = IF "frames" \in recording THEN Append(frames, FrameLine(m)) ELSE frames
       \/ \* the index line itself fails; it may still be in the file's buffer
          /\ "frames" \in recording /\ DiskFault
          /\ frames' \in {frames, Append(frames, FrameLine(m))}
          /\ UNCHANGED <<video, video_offset>>
    /\ UNCHANGED <<recording, rows, intrinsics, meta>>

RecorderSample ==
    /\ \/ DiskOk /\ rows' = IF "rows" \in recording THEN Append(rows, handled) ELSE rows
       \/ "rows" \in recording /\ DiskFault /\ rows' \in {rows, Append(rows, handled)}
    /\ UNCHANGED <<recording, video, frames, video_offset, intrinsics, meta>>

RecorderIntrinsics ==
    /\ \/ DiskOk /\ intrinsics' = handled
       \/ DiskFault /\ UNCHANGED intrinsics
    /\ UNCHANGED <<recording, video, frames, video_offset, rows, meta>>

(* Closes the files, forgets the offset, writes the final meta.json.  A    *)
(* close() that raises leaves the files after it open.                     *)
RecorderSessionEnd ==
    /\ \/ /\ WriteMeta \/ MetaFails
          /\ recording' = {} /\ video_offset' = 0
       \/ /\ DiskFault
          /\ recording' \in {recording \ {"video"}, recording \cap {"rows"}, {}}
          /\ UNCHANGED <<video_offset, meta>>
    /\ UNCHANGED <<video, frames, rows, intrinsics>>

-----------------------------------------------------------------------------
(* StatsPlugin.                                                            *)

Publish(type) == events' = Append(events, [type |-> type, session |-> session'])

StatsSessionStart == UNCHANGED session /\ Publish("session_start")

StatsVideoConfig ==
    /\ session' = [session EXCEPT !.video_config = handled]
    /\ Publish("session_update")

StatsVideoChunk(m) ==
    /\ session' = [session EXCEPT !.frame_count = @ + 1, !.byte_count = @ + m.size]
    /\ IF session'.frame_count % PublishEvery = 0
       THEN Publish("session_update")
       ELSE UNCHANGED events

StatsSessionEnd == UNCHANGED session /\ Publish("session_end")

-----------------------------------------------------------------------------
(* PluginManager: each plugin in turn; an exception raised while its       *)
(* coroutine runs is logged (_call_safely), the next plugin follows.       *)

(* Faulty variant: an error ends the dispatch.                             *)
NextPluginUnlessRaised == IF disk_faults' > disk_faults THEN 4 ELSE plugin + 1
NextPlugin == plugin + 1

Dispatched(then) ==
    IF NextPlugin \in Plugins
    THEN plugin' = NextPlugin /\ UNCHANGED pc
    ELSE plugin' = 1 /\ pc' = then

DispatchSessionStart ==
    /\ pc = "start"
    /\ CASE plugin = Recorder -> RecorderSessionStart /\ UNCHANGED statsVars
         [] plugin = Stats -> StatsSessionStart /\ UNCHANGED <<recorderVars, disk_faults>>
         [] OTHER -> UNCHANGED <<recorderVars, statsVars, disk_faults>>
    /\ Dispatched("read")
    /\ UNCHANGED <<netVars, readVars, seen>>

Record(m) ==
    CASE m.kind = "config" -> RecorderVideoConfig(m)
      [] m.kind = "chunk" -> RecorderVideoChunk(m)
      [] m.kind = "sample" -> RecorderSample
      [] m.kind = "intrinsics" -> RecorderIntrinsics

Count(m) ==
    CASE m.kind = "config" -> StatsVideoConfig
      [] m.kind = "chunk" -> StatsVideoChunk(m)
      [] OTHER -> UNCHANGED statsVars

DispatchMessage ==
    /\ pc = "dispatch"
    /\ LET m == sent[handled]
       IN  CASE plugin = Recorder -> Record(m) /\ UNCHANGED statsVars
             [] plugin = Stats -> Count(m) /\ UNCHANGED <<recorderVars, disk_faults>>
             [] OTHER -> UNCHANGED <<recorderVars, statsVars, disk_faults>>
    /\ seen' = [seen EXCEPT ![plugin] = @ + 1]
    /\ Dispatched("consume")
    /\ UNCHANGED <<netVars, readVars>>

DispatchSessionEnd ==
    /\ pc = "end"
    /\ CASE plugin = Recorder -> RecorderSessionEnd /\ UNCHANGED statsVars
         [] plugin = Stats -> StatsSessionEnd /\ UNCHANGED <<recorderVars, disk_faults>>
         [] OTHER -> UNCHANGED <<recorderVars, statsVars, disk_faults>>
    /\ Dispatched("done")
    /\ UNCHANGED <<netVars, readVars, seen>>

-----------------------------------------------------------------------------
(* ClientSession.run and _consume.                                         *)

ReadChunk ==
    /\ pc = "read" /\ peer # "reset"
    /\ \E n \in 1 .. stream : stream' = stream - n /\ buffer' = buffer + n
    /\ pc' = "consume"
    /\ UNCHANGED <<sent, peer, handled, plugin, seen, recorderVars, statsVars, disk_faults>>

(* Faulty variant: ended_at is set once the plugins have been told.        *)
StillLive == session.ended
EndedNow == TRUE

(* The finally clause: ended_at first, then the plugins.                   *)
Finally ==
    /\ pc' = "end"
    /\ session' = [session EXCEPT !.ended = EndedNow]

(* Faulty variant: an empty read is just another chunk.                    *)
StopsOnNothing == pc' = "consume" /\ UNCHANGED session
StopsOnEof == Finally

(* A callback that is no coroutine function runs, and may raise, while     *)
(* dispatch_* evaluates the argument of _call_safely, outside its try.     *)
(* The exception leaves run: through its finally clause, or, from          *)
(* on_session_start, before the try statement is reached.                  *)
PluginEscapes ==
    /\ PlainCallbacks /\ plugin = External
    /\ \/ pc = "start" /\ pc' = "abandoned" /\ UNCHANGED <<session, seen>>
       \/ pc = "dispatch" /\ Finally /\ seen' = [seen EXCEPT ![External] = @ + 1]
       \/ pc = "end" /\ pc' = "done" /\ UNCHANGED <<session, seen>>
    /\ plugin' = 1
    /\ UNCHANGED <<netVars, readVars, recorderVars, events, disk_faults>>

(* read() returns nothing at EOF, or raises: the StreamReader then gives   *)
(* up what it had received.                                                *)
ReadEof ==
    /\ pc = "read"
    /\ peer = "eof" /\ stream = 0
    /\ StopsOnEof
    /\ UNCHANGED <<netVars, readVars, plugin, seen, recorderVars, events, disk_faults>>

ReadReset ==
    /\ pc = "read"
    /\ peer = "reset"
    /\ Finally
    /\ UNCHANGED <<netVars, readVars, plugin, seen, recorderVars, events, disk_faults>>

(* next_message: a header, then the whole message it announces.            *)
(* Faulty variant: needs one byte more.                                    *)
MoreThanAMessage ==
    handled < Len(sent) /\ buffer > Size(sent[handled + 1])
(* Faulty variant: a header is enough.                                     *)
HeaderOnly == handled < Len(sent) /\ buffer >= HeaderSize
HasMessage ==
    handled < Len(sent) /\ buffer >= HeaderSize /\ buffer >= Size(sent[handled + 1])

ConsumeNothing ==
    /\ pc = "consume" /\ ~HasMessage
    /\ pc' = "read"
    /\ UNCHANGED <<netVars, readVars, plugin, seen, recorderVars, statsVars, disk_faults>>

(* _handle: an unknown type is skipped; a payload that does not decode     *)
(* raises through run, whose finally clause ends the session.              *)
Consume ==
    /\ pc = "consume" /\ HasMessage
    /\ handled' = handled + 1
    /\ buffer' = buffer - Size(sent[handled'])
    /\ \/ sent[handled'].kind = "bad" /\ Finally
       \/ sent[handled'].kind = "unknown" /\ UNCHANGED <<pc, session>>
       \/ /\ sent[handled'].kind \notin {"bad", "unknown"}
          /\ pc' = "dispatch" /\ UNCHANGED session
    /\ UNCHANGED <<netVars, plugin, seen, recorderVars, events, disk_faults>>

Terminated == pc \in {"done", "abandoned"} /\ UNCHANGED vars

-----------------------------------------------------------------------------
Peer ==
    \/ \E k \in MessageKinds, s \in PayloadSizes : PeerSend([kind |-> k, size |-> s])
    \/ \E how \in {"eof", "reset"} : PeerGone(how)

Handler ==
    \/ DispatchSessionStart \/ DispatchMessage \/ DispatchSessionEnd
    \/ PluginEscapes
    \/ ReadChunk \/ ReadEof \/ ReadReset \/ ConsumeNothing \/ Consume

Next == Peer \/ Handler \/ Terminated

(* The event loop runs the connection's task whenever it can run.          *)
Spec == Init /\ [][Next]_vars /\ WF_vars(Handler)

-----------------------------------------------------------------------------
Snapshot == [ended : BOOLEAN, video_config : Nat, frame_count : Nat, byte_count : Nat]

(* Types; the buffer is never negative and nothing is handled that was not *)
(* sent (next_message cuts no more than there is).                         *)
TypeOK ==
    /\ sent \in Seq([kind : MessageKinds, size : PayloadSizes])
    /\ stream \in Nat /\ peer \in {"open", "eof", "reset"}
    /\ pc \in {"start", "read", "consume", "dispatch", "end", "done",
               "abandoned"}
    /\ buffer \in Nat /\ handled \in 0 .. Len(sent)
    /\ plugin \in Plugins /\ seen \in [Plugins -> Nat]
    /\ session \in Snapshot /\ meta \in Snapshot \cup {NoMeta}
    /\ recording \subseteq {"video", "frames", "rows"}
    /\ video \in Seq(Nat) /\ rows \in Seq(Nat) /\ intrinsics \in Nat
    /\ frames \in Seq([frame : Nat, byte_offset : Nat, size : Nat])
    /\ video_offset \in Nat
    /\ events \in Seq([type : {"session_start", "session_update", "session_end"},
                       session : Snapshot])
    /\ disk_faults \in 0 .. MaxDiskFaults

IndexIsRight ==
    \A i \in 1 .. Len(frames) :
        LET f == frames[i]
        IN  /\ f.byte_offset + f.size <= Len(video)
            /\ \A b \in 1 .. f.size : video[f.byte_offset + b] = f.frame

(* frames.jsonl: each line names the bytes of its own frame in video.h264, *)
(* across configs sent in mid-stream, as long as no write has failed.      *)
IndexMatchesVideo == disk_faults = 0 => IndexIsRight

(* An error in one plugin keeps no message from another: at rest every     *)
(* plugin was given every message, and Stats has counted every chunk.      *)
PluginsIsolated ==
    pc \in {"read", "consume"} =>
        /\ \A p, q \in Plugins : seen[p] = seen[q]
        /\ session.frame_count = Cardinality({i \in 1 .. handled : sent[i].kind = "chunk"})

(* The meta.json a finished recording is left with is the final state of   *)
(* the session, though Recorder runs before Stats.                         *)
MetaIsFinal == pc = "done" /\ disk_faults = 0 => meta = session /\ meta.ended

(* However the stream is cut into reads, run never awaits the network with *)
(* a whole message in its buffer: FIN leaves only a torn one undispatched. *)
NothingWholeWaits ==
    pc = "read" => handled = Len(sent) \/ buffer < Size(sent[handled + 1])

(* A connection that is lost ends the session and, unless closing them     *)
(* fails, closes its files; the one way out is a plugin that stopped the   *)
(* handler before it began to read.                                        *)
SessionEnds ==
    peer # "open" ~>
        \/ pc = "done" /\ (disk_faults = 0 => recording = {})
        \/ pc = "abandoned" /\ PlainCallbacks
=============================================================================
