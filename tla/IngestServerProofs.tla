------------------------ MODULE IngestServerProofs ------------------------
(* Theorems about IngestServer: its safety properties, for messages of any *)
(* size, cut into reads in any way, in any number, with any number of disk *)
(* writes that fail and with or without plain callbacks.                   *)
EXTENDS IngestServer, FiniteSetTheorems, TLAPS

Kinds == {"config", "chunk", "sample", "intrinsics"}
Message == [kind : MessageKinds, size : PayloadSizes]
AllFiles == {"video", "frames", "rows"}

(* The first n messages that are frames.                                   *)
Chunks(n) == {i \in 1 .. n : sent[i].kind = "chunk"}

(* Where run and the dispatch loop are.                                    *)
PlaceInv ==
    /\ pc \notin {"start", "dispatch", "end"} => plugin = 1
    /\ pc = "start" => handled = 0 /\ buffer = 0
    /\ pc = "dispatch" => handled > 0 /\ sent[handled].kind \in Kinds

(* What each plugin was given: in the middle of a dispatch those before    *)
(* plugin one message more than the others.                                *)
Given(p) == IF pc = "dispatch" /\ p < plugin THEN seen[External] + 1 ELSE seen[External]

SeenInv == pc \in {"start", "read", "consume", "dispatch"} =>
               \A p \in Plugins : seen[p] = Given(p)

CountInv ==
    pc \in {"start", "read", "consume", "dispatch"} =>
        session.frame_count =
            Cardinality(Chunks(IF pc = "dispatch" /\ plugin <= Stats THEN handled - 1 ELSE handled))

(* The recorder's files while nothing has gone wrong.                      *)
RecorderInv ==
    disk_faults = 0 =>
        IF pc = "start" /\ plugin = Recorder THEN frames = <<>> /\ video = <<>> /\ video_offset = 0
        ELSE /\ IndexIsRight
             /\ pc \in {"start", "read", "consume", "dispatch"} =>
                   recording = AllFiles /\ video_offset = Len(video)

MetaInv ==
    /\ pc \in {"end", "done"} => session.ended
    /\ disk_faults = 0 /\ (pc = "done" \/ (pc = "end" /\ plugin > Recorder)) => meta = session

(* The ends of the messages in the stream: what was sent and not handled   *)
(* is in the buffer or on its way, while the peer is there.                *)
BytesInv ==
    peer = "open" =>
        \E end \in [Nat -> Nat] :
            /\ \A i \in 1 .. Len(sent) : end[i] = end[i - 1] + Size(sent[i])
            /\ end[Len(sent)] = end[handled] + buffer + stream

IInv == /\ TypeOK /\ PlaceInv /\ SeenInv /\ CountInv /\ RecorderInv /\ MetaInv
        /\ BytesInv /\ NothingWholeWaits

-----------------------------------------------------------------------------
LEMMA MessageFields ==
  ASSUME NEW m \in Message
  PROVE  /\ m.kind \in MessageKinds /\ m.size \in Nat \ {0}
         /\ Size(m) \in Nat /\ Size(m) > HeaderSize
<1>1. m.kind \in MessageKinds /\ m.size \in PayloadSizes
  BY DEF Message
<1>2. m.size \in Nat \ {0} /\ HeaderSize \in Nat
  BY <1>1, ServerAssumption
<1>3. Size(m) = HeaderSize + m.size
  BY DEF Size
<1>. QED BY <1>1, <1>2, <1>3

LEMMA SentMessages ==
  ASSUME sent \in Seq(Message), NEW i \in 1 .. Len(sent)
  PROVE  sent[i] \in Message
OBVIOUS

(* The steps, with the messages of the peer as one set.                    *)
LEMMA NextShape ==
  ASSUME [Next]_vars
  PROVE  \/ \E m \in Message : PeerSend(m)
         \/ \E how \in {"eof", "reset"} : PeerGone(how)
         \/ DispatchSessionStart \/ DispatchMessage \/ DispatchSessionEnd
         \/ PluginEscapes
         \/ ReadChunk \/ ReadEof \/ ReadReset \/ ConsumeNothing \/ Consume
         \/ UNCHANGED vars
<1>1. ASSUME NEW k \in MessageKinds, NEW s \in PayloadSizes
      PROVE  [kind |-> k, size |-> s] \in Message
  BY DEF Message
<1>2. (\E k \in MessageKinds, s \in PayloadSizes : PeerSend([kind |-> k, size |-> s]))
         => \E m \in Message : PeerSend(m)
  BY <1>1, Zenon
<1>. QED BY <1>2 DEF Next, Peer, Handler, Terminated

(* One turn of the dispatch loop.                                          *)
LEMMA DispatchedShape ==
  ASSUME plugin \in Plugins, NEW then, Dispatched(then)
  PROVE  \/ plugin < 3 /\ plugin' = plugin + 1 /\ pc' = pc
         \/ plugin = 3 /\ plugin' = 1 /\ pc' = then
BY DEF Dispatched, NextPlugin, Plugins

LEMMA StartShape ==
  ASSUME plugin \in Plugins, DispatchSessionStart
  PROVE  /\ pc = "start" /\ Dispatched("read") /\ UNCHANGED <<netVars, readVars, seen>>
         /\ \/ plugin = 1 /\ RecorderSessionStart /\ UNCHANGED statsVars
            \/ plugin = 2 /\ StatsSessionStart /\ UNCHANGED <<recorderVars, disk_faults>>
            \/ plugin = 3 /\ UNCHANGED <<recorderVars, statsVars, disk_faults>>
BY DEF DispatchSessionStart, Plugins, Recorder, Stats

LEMMA EndShape ==
  ASSUME plugin \in Plugins, DispatchSessionEnd
  PROVE  /\ pc = "end" /\ Dispatched("done") /\ UNCHANGED <<netVars, readVars, seen>>
         /\ \/ plugin = 1 /\ RecorderSessionEnd /\ UNCHANGED statsVars
            \/ plugin = 2 /\ StatsSessionEnd /\ UNCHANGED <<recorderVars, disk_faults>>
            \/ plugin = 3 /\ UNCHANGED <<recorderVars, statsVars, disk_faults>>
BY DEF DispatchSessionEnd, Plugins, Recorder, Stats

LEMMA MessageShape ==
  ASSUME plugin \in Plugins, DispatchMessage, sent[handled].kind \in Kinds
  PROVE  LET m == sent[handled]
         IN  /\ pc = "dispatch" /\ Dispatched("consume") /\ UNCHANGED <<netVars, readVars>>
             /\ seen' = [seen EXCEPT ![plugin] = @ + 1]
             /\ \/ /\ plugin = 1 /\ UNCHANGED statsVars
                   /\ \/ m.kind = "config" /\ RecorderVideoConfig(m)
                      \/ m.kind = "chunk" /\ RecorderVideoChunk(m)
                      \/ m.kind = "sample" /\ RecorderSample
                      \/ m.kind = "intrinsics" /\ RecorderIntrinsics
                \/ /\ plugin = 2 /\ UNCHANGED <<recorderVars, disk_faults>>
                   /\ \/ m.kind = "config" /\ StatsVideoConfig
                      \/ m.kind = "chunk" /\ StatsVideoChunk(m)
                      \/ m.kind \notin {"config", "chunk"} /\ UNCHANGED statsVars
                \/ plugin = 3 /\ UNCHANGED <<recorderVars, statsVars, disk_faults>>
<1>. DEFINE m == sent[handled]
<1>1. /\ pc = "dispatch" /\ Dispatched("consume") /\ UNCHANGED <<netVars, readVars>>
      /\ seen' = [seen EXCEPT ![plugin] = @ + 1]
      /\ \/ plugin = 1 /\ Record(m) /\ UNCHANGED statsVars
         \/ plugin = 2 /\ Count(m) /\ UNCHANGED <<recorderVars, disk_faults>>
         \/ plugin = 3 /\ UNCHANGED <<recorderVars, statsVars, disk_faults>>
  BY DEF DispatchMessage, Plugins, Recorder, Stats
<1>2. Record(m) => \/ m.kind = "config" /\ RecorderVideoConfig(m)
                   \/ m.kind = "chunk" /\ RecorderVideoChunk(m)
                   \/ m.kind = "sample" /\ RecorderSample
                   \/ m.kind = "intrinsics" /\ RecorderIntrinsics
  BY DEF Record, Kinds
<1>3. Count(m) => \/ m.kind = "config" /\ StatsVideoConfig
                  \/ m.kind = "chunk" /\ StatsVideoChunk(m)
                  \/ m.kind \notin {"config", "chunk"} /\ UNCHANGED statsVars
  BY DEF Count
<1>. HIDE DEF m
<1>. QED BY <1>1, <1>2, <1>3 DEF m


-----------------------------------------------------------------------------
(* Type correctness, a group of variables at a time.                       *)
NetTypes ==
    sent \in Seq(Message) /\ stream \in Nat /\ peer \in {"open", "eof", "reset"}

Places == {"start", "read", "consume", "dispatch", "end", "done", "abandoned"}
RunTypes == pc \in Places /\ plugin \in Plugins /\ seen \in [Plugins -> Nat]

ReadTypes == buffer \in Nat /\ handled \in 0 .. Len(sent)

Line == [frame : Nat, byte_offset : Nat, size : Nat]
FileTypes ==
    /\ recording \subseteq AllFiles
    /\ video \in Seq(Nat) /\ rows \in Seq(Nat) /\ intrinsics \in Nat
    /\ frames \in Seq(Line) /\ video_offset \in Nat

MetaTypes == meta \in Snapshot \cup {NoMeta} /\ disk_faults \in 0 .. MaxDiskFaults

EventTypes == {"session_start", "session_update", "session_end"}
StatsTypes ==
    session \in Snapshot /\ events \in Seq([type : EventTypes, session : Snapshot])

LEMMA Grouped ==
  TypeOK <=> NetTypes /\ RunTypes /\ ReadTypes /\ FileTypes /\ MetaTypes /\ StatsTypes
BY DEF TypeOK, NetTypes, RunTypes, ReadTypes, FileTypes, MetaTypes, StatsTypes,
       Message, Places, Line, AllFiles, EventTypes

LEMMA GroupedNext ==
  TypeOK' <=> NetTypes' /\ RunTypes' /\ ReadTypes' /\ FileTypes' /\ MetaTypes' /\ StatsTypes'
BY DEF TypeOK, NetTypes, RunTypes, ReadTypes, FileTypes, MetaTypes, StatsTypes,
       Message, Places, Line, AllFiles, EventTypes

LEMMA InitTypes == Init => TypeOK
<1>. SUFFICES ASSUME Init PROVE TypeOK
  OBVIOUS
<1>1. NetTypes /\ RunTypes /\ ReadTypes
  BY DEF Init, NetTypes, RunTypes, ReadTypes, Plugins, Places
<1>2. FileTypes /\ MetaTypes
  BY ServerAssumption DEF Init, FileTypes, MetaTypes
<1>3. StatsTypes
  BY DEF Init, StatsTypes, Snapshot
<1>. QED BY <1>1, <1>2, <1>3, Grouped

(* The message a dispatch or a cut is about is one that was sent.          *)
LEMMA HandledMessage ==
  ASSUME TypeOK, PlaceInv, pc = "dispatch"
  PROVE  handled \in 1 .. Len(sent) /\ sent[handled] \in Message
<1>1. handled \in 1 .. Len(sent)
  BY DEF TypeOK, PlaceInv
<1>. QED BY <1>1, SentMessages, Grouped DEF NetTypes

LEMMA NextMessage ==
  ASSUME TypeOK, handled < Len(sent)
  PROVE  handled + 1 \in 1 .. Len(sent) /\ sent[handled + 1] \in Message
<1>1. handled + 1 \in 1 .. Len(sent)
  BY DEF TypeOK
<1>. QED BY <1>1, SentMessages, Grouped DEF NetTypes

(* A run of n bytes of the message handled, behind what the file holds.    *)
LEMMA BytesAppended ==
  ASSUME video \in Seq(Nat), handled \in Nat, NEW n \in Nat
  PROVE  /\ video \o Bytes(n) \in Seq(Nat)
         /\ Len(video \o Bytes(n)) = Len(video) + n
         /\ \A i \in 1 .. Len(video) : (video \o Bytes(n))[i] = video[i]
         /\ \A i \in 1 .. n : (video \o Bytes(n))[Len(video) + i] = handled
<1>1. Bytes(n) \in Seq(Nat) /\ Len(Bytes(n)) = n /\ \A i \in 1 .. n : Bytes(n)[i] = handled
  BY DEF Bytes
<1>. DEFINE b == Bytes(n)
<1>. HIDE DEF b
<1>2. b \in Seq(Nat) /\ Len(b) = n /\ \A i \in 1 .. n : b[i] = handled
  BY <1>1 DEF b
<1>3. video \o b \in Seq(Nat) /\ Len(video \o b) = Len(video) + n
  BY <1>2
<1>4. \A i \in 1 .. Len(video) : (video \o b)[i] = video[i]
  BY <1>2
<1>5. ASSUME NEW i \in 1 .. n PROVE (video \o b)[Len(video) + i] = handled
  <2>1. Len(video) + i \in 1 .. Len(video) + Len(b) /\ ~(Len(video) + i <= Len(video))
    BY <1>2
  <2>2. (video \o b)[Len(video) + i] = b[Len(video) + i - Len(video)]
    BY <2>1, <1>2
  <2>3. Len(video) + i - Len(video) = i
    OBVIOUS
  <2>. QED BY <1>2, <2>2, <2>3
<1>. QED BY <1>3, <1>4, <1>5 DEF b

LEMMA DiskTypes ==
  ASSUME MetaTypes
  PROVE  /\ DiskFault \/ DiskOk => disk_faults' \in 0 .. MaxDiskFaults
         /\ WriteMeta /\ session \in Snapshot => MetaTypes'
         /\ MetaFails => MetaTypes'
         /\ (DiskFault \/ DiskOk) /\ UNCHANGED meta => MetaTypes'
<1>1. DiskFault \/ DiskOk => disk_faults' \in 0 .. MaxDiskFaults
  BY ServerAssumption DEF MetaTypes, DiskFault, DiskOk
<1>2. WriteMeta /\ session \in Snapshot => meta' \in Snapshot \cup {NoMeta}
  BY DEF WriteMeta
<1>3. MetaFails => meta' \in Snapshot \cup {NoMeta}
  BY DEF MetaFails, MetaTypes
<1>. QED BY <1>1, <1>2, <1>3 DEF WriteMeta, MetaFails, MetaTypes

LEMMA SessionStartTypes ==
  ASSUME FileTypes, MetaTypes, session \in Snapshot, RecorderSessionStart
  PROVE  FileTypes' /\ MetaTypes'
<1>1. MetaTypes'
  BY DiskTypes DEF RecorderSessionStart
<1>2. recording' \subseteq AllFiles
  BY DEF RecorderSessionStart, AllFiles
<1>. QED BY <1>1, <1>2 DEF RecorderSessionStart, FileTypes

LEMMA SessionEndTypes ==
  ASSUME FileTypes, MetaTypes, session \in Snapshot, RecorderSessionEnd
  PROVE  FileTypes' /\ MetaTypes'
<1>1. MetaTypes'
  BY DiskTypes DEF RecorderSessionEnd
<1>2. recording' \subseteq recording \/ recording' = {}
  BY DEF RecorderSessionEnd
<1>3. recording' \subseteq AllFiles
  BY <1>2 DEF FileTypes
<1>4. video_offset' = 0 \/ video_offset' = video_offset
  BY DEF RecorderSessionEnd
<1>. QED BY <1>1, <1>3, <1>4 DEF RecorderSessionEnd, FileTypes

LEMMA VideoFailTypes ==
  ASSUME FileTypes, handled \in Nat, NEW n \in Nat, VideoWriteFails(n)
  PROVE  video' \in Seq(Nat) /\ video_offset' \in Nat /\ DiskFault
<1>1. PICK k \in 0 .. n : video' = video \o Bytes(k)
  BY DEF VideoWriteFails
<1>2. video' \in Seq(Nat)
  BY <1>1, BytesAppended DEF FileTypes
<1>. QED BY <1>2 DEF VideoWriteFails, FileTypes

LEMMA VideoConfigTypes ==
  ASSUME FileTypes, MetaTypes, session \in Snapshot, handled \in Nat,
         NEW m \in Message, RecorderVideoConfig(m)
  PROVE  FileTypes' /\ MetaTypes'
<1>0. m.size \in Nat
  BY MessageFields
<1>1. MetaTypes'
  BY DiskTypes DEF RecorderVideoConfig, VideoWriteFails
<1>2. video' \in Seq(Nat) /\ video_offset' \in Nat
  <2>1. CASE VideoWriteFails(m.size)
    BY <1>0, <2>1, VideoFailTypes
  <2>2. CASE /\ video' = IF "video" \in recording THEN video \o Bytes(m.size) ELSE video
             /\ video_offset' = ConfigOffset(m)
    <3>1. video \o Bytes(m.size) \in Seq(Nat) /\ video \in Seq(Nat)
      BY <1>0, BytesAppended DEF FileTypes
    <3>2. video_offset' \in Nat
      BY <1>0, <2>2 DEF ConfigOffset, FileTypes
    <3>. QED BY <2>2, <3>1, <3>2
  <2>. QED BY <2>1, <2>2 DEF RecorderVideoConfig
<1>. QED BY <1>1, <1>2 DEF RecorderVideoConfig, FileTypes

LEMMA FrameLineType ==
  ASSUME handled \in Nat, video_offset \in Nat, NEW m \in Message
  PROVE  FrameLine(m) \in Line
BY MessageFields DEF FrameLine, Line

LEMMA VideoChunkTypes ==
  ASSUME FileTypes, MetaTypes, handled \in Nat, NEW m \in Message, RecorderVideoChunk(m)
  PROVE  FileTypes' /\ MetaTypes'
<1>0. m.size \in Nat
  BY MessageFields
<1>1. MetaTypes'
  BY DiskTypes DEF RecorderVideoChunk, VideoWriteFails
<1>2. video' \in Seq(Nat) /\ video_offset' \in Nat
  <2>1. CASE VideoWriteFails(m.size)
    BY <1>0, <2>1, VideoFailTypes
  <2>2. CASE /\ video' = IF "video" \in recording THEN video \o Bytes(m.size) ELSE video
             /\ video_offset' = video_offset + m.size
    <3>1. video \o Bytes(m.size) \in Seq(Nat) /\ video \in Seq(Nat)
      BY <1>0, BytesAppended DEF FileTypes
    <3>2. video_offset' \in Nat
      BY <1>0, <2>2 DEF FileTypes
    <3>. QED BY <2>2, <3>1, <3>2
  <2>3. CASE UNCHANGED <<video, video_offset>>
    BY <2>3 DEF FileTypes
  <2>. QED BY <2>1, <2>2, <2>3 DEF RecorderVideoChunk
<1>3. frames' \in Seq(Line)
  <2>1. frames' = frames \/ frames' = Append(frames, FrameLine(m))
    BY DEF RecorderVideoChunk
  <2>2. Append(frames, FrameLine(m)) \in Seq(Line) /\ frames \in Seq(Line)
    BY FrameLineType DEF FileTypes
  <2>. QED BY <2>1, <2>2
<1>. QED BY <1>1, <1>2, <1>3 DEF RecorderVideoChunk, FileTypes

LEMMA SampleTypes ==
  ASSUME FileTypes, MetaTypes, handled \in Nat, RecorderSample
  PROVE  FileTypes' /\ MetaTypes'
<1>1. MetaTypes'
  BY DiskTypes DEF RecorderSample
<1>2. rows' \in Seq(Nat)
  <2>1. rows' = rows \/ rows' = Append(rows, handled)
    BY DEF RecorderSample
  <2>2. rows \in Seq(Nat) /\ Append(rows, handled) \in Seq(Nat)
    BY DEF FileTypes
  <2>. QED BY <2>1, <2>2
<1>. QED BY <1>1, <1>2 DEF RecorderSample, FileTypes

LEMMA IntrinsicsTypes ==
  ASSUME FileTypes, MetaTypes, handled \in Nat, RecorderIntrinsics
  PROVE  FileTypes' /\ MetaTypes'
<1>1. MetaTypes'
  BY DiskTypes DEF RecorderIntrinsics
<1>. QED BY <1>1 DEF RecorderIntrinsics, FileTypes

(* StatsPlugin: what it publishes is a snapshot of the session it leaves.  *)
LEMMA PublishTypes ==
  ASSUME events \in Seq([type : EventTypes, session : Snapshot]), session' \in Snapshot,
         NEW t \in EventTypes, Publish(t)
  PROVE  events' \in Seq([type : EventTypes, session : Snapshot])
<1>1. [type |-> t, session |-> session'] \in [type : EventTypes, session : Snapshot]
  OBVIOUS
<1>. QED BY <1>1 DEF Publish

LEMMA CountTypes ==
  ASSUME StatsTypes, handled \in Nat, NEW m \in Message,
         \/ StatsVideoConfig
         \/ StatsVideoChunk(m)
         \/ StatsSessionStart
         \/ StatsSessionEnd
  PROVE  StatsTypes'
<1>0. m.size \in Nat
  BY MessageFields
<1>1. CASE StatsVideoConfig
  <2>1. session' \in Snapshot
    BY <1>1 DEF StatsVideoConfig, Snapshot, StatsTypes
  <2>. QED BY <1>1, <2>1, PublishTypes DEF StatsVideoConfig, StatsTypes, EventTypes
<1>2. CASE StatsVideoChunk(m)
  <2>1. session' \in Snapshot
    <3>1. session' = [session EXCEPT !.frame_count = session.frame_count + 1,
                                     !.byte_count = session.byte_count + m.size]
      BY <1>2, Zenon DEF StatsVideoChunk
    <3>. DEFINE counted == [session EXCEPT !.frame_count = session.frame_count + 1]
    <3>0. session \in Snapshot /\ session.frame_count + 1 \in Nat
      BY DEF Snapshot, StatsTypes
    <3>2. counted \in Snapshot /\ counted.byte_count = session.byte_count
      BY <3>0 DEF Snapshot
    <3>3. session' = [counted EXCEPT !.byte_count = session.byte_count + m.size]
      BY <3>1, Zenon
    <3>4. session.byte_count + m.size \in Nat
      BY <1>0 DEF Snapshot, StatsTypes
    <3>. HIDE DEF counted
    <3>. QED BY <3>2, <3>3, <3>4 DEF Snapshot
  <2>2. Publish("session_update") \/ UNCHANGED events
    BY <1>2, Zenon DEF StatsVideoChunk
  <2>. QED BY <2>1, <2>2, PublishTypes DEF StatsTypes, EventTypes
<1>3. CASE StatsSessionStart
  BY <1>3, PublishTypes DEF StatsSessionStart, StatsTypes, EventTypes
<1>4. CASE StatsSessionEnd
  BY <1>4, PublishTypes DEF StatsSessionEnd, StatsTypes, EventTypes
<1>. QED BY <1>1, <1>2, <1>3, <1>4

-----------------------------------------------------------------------------
LEMMA RunTypesKept ==
  ASSUME RunTypes, NEW then \in Places, Dispatched(then),
         UNCHANGED seen \/ seen' = [seen EXCEPT ![plugin] = @ + 1]
  PROVE  RunTypes'
<1>1. plugin' \in Plugins /\ pc' \in Places
  BY DispatchedShape DEF RunTypes, Plugins
<1>2. seen' \in [Plugins -> Nat]
  <2>1. seen[plugin] + 1 \in Nat /\ seen \in [Plugins -> Nat]
    BY DEF RunTypes
  <2>. QED BY <2>1
<1>. QED BY <1>1, <1>2 DEF RunTypes

LEMMA FinallyTypes ==
  ASSUME StatsTypes, Finally
  PROVE  session' \in Snapshot /\ pc' = "end"
BY DEF Finally, EndedNow, StatsTypes, Snapshot

LEMMA TypeStep == TypeOK /\ PlaceInv /\ [Next]_vars => TypeOK'
<1>. SUFFICES ASSUME TypeOK, PlaceInv, [Next]_vars PROVE TypeOK'
  OBVIOUS
<1>0. /\ NetTypes /\ RunTypes /\ ReadTypes /\ FileTypes /\ MetaTypes /\ StatsTypes
      /\ plugin \in Plugins /\ session \in Snapshot /\ handled \in Nat
  BY Grouped DEF RunTypes, ReadTypes, StatsTypes
<1>1. ASSUME NEW m \in Message, PeerSend(m) PROVE TypeOK'
  <2>1. NetTypes'
    <3>1. sent' = Append(sent, m) /\ peer' = peer /\ stream' = stream + Size(m)
      BY <1>1 DEF PeerSend
    <3>2. sent \in Seq(Message) /\ stream \in Nat /\ Size(m) \in Nat
      BY <1>0, MessageFields DEF NetTypes
    <3>3. Append(sent, m) \in Seq(Message) /\ stream + Size(m) \in Nat
      BY <3>2
    <3>. QED BY <1>0, <3>1, <3>3 DEF NetTypes
  <2>2. ReadTypes'
    <3>1. sent \in Seq(Message)
      BY <1>0 DEF NetTypes
    <3>. QED BY <1>0, <1>1, <3>1 DEF ReadTypes, PeerSend, readVars
  <2>3. RunTypes' /\ FileTypes' /\ MetaTypes' /\ StatsTypes'
    BY <1>0, <1>1 DEF PeerSend, RunTypes, FileTypes, MetaTypes, StatsTypes,
                      recorderVars, statsVars
  <2>. QED BY <2>1, <2>2, <2>3, GroupedNext
<1>2. ASSUME NEW how \in {"eof", "reset"}, PeerGone(how) PROVE TypeOK'
  <2>1. NetTypes'
    BY <1>0, <1>2 DEF PeerGone, NetTypes
  <2>2. RunTypes' /\ ReadTypes' /\ FileTypes' /\ MetaTypes' /\ StatsTypes'
    BY <1>0, <1>2 DEF PeerGone, RunTypes, ReadTypes, FileTypes, MetaTypes, StatsTypes,
                      readVars, recorderVars, statsVars
  <2>. QED BY <2>1, <2>2, GroupedNext
<1>3. CASE DispatchSessionStart
  <2>1. NetTypes' /\ ReadTypes'
    BY <1>0, <1>3, StartShape DEF NetTypes, ReadTypes, netVars, readVars
  <2>2. RunTypes'
    BY <1>0, <1>3, StartShape, RunTypesKept DEF Places
  <2>3. FileTypes' /\ MetaTypes'
    BY <1>0, <1>3, StartShape, SessionStartTypes DEF FileTypes, MetaTypes, recorderVars
  <2>4. StatsTypes'
    <3>1. StatsSessionStart \/ UNCHANGED statsVars
      BY <1>0, <1>3, StartShape
    <3>. QED BY <1>0, <3>1, PublishTypes DEF StatsSessionStart, StatsTypes, statsVars, EventTypes
  <2>. QED BY <2>1, <2>2, <2>3, <2>4, GroupedNext
<1>4. CASE DispatchSessionEnd
  <2>1. NetTypes' /\ ReadTypes'
    BY <1>0, <1>4, EndShape DEF NetTypes, ReadTypes, netVars, readVars
  <2>2. RunTypes'
    BY <1>0, <1>4, EndShape, RunTypesKept DEF Places
  <2>3. FileTypes' /\ MetaTypes'
    BY <1>0, <1>4, EndShape, SessionEndTypes DEF FileTypes, MetaTypes, recorderVars
  <2>4. StatsTypes'
    <3>1. StatsSessionEnd \/ UNCHANGED statsVars
      BY <1>0, <1>4, EndShape
    <3>. QED BY <1>0, <3>1, PublishTypes DEF StatsSessionEnd, StatsTypes, statsVars, EventTypes
  <2>. QED BY <2>1, <2>2, <2>3, <2>4, GroupedNext
<1>5. CASE DispatchMessage
  <2>. DEFINE m == sent[handled]
  <2>0. pc = "dispatch" /\ m \in Message /\ m.kind \in Kinds
    <3>1. pc = "dispatch"
      BY <1>5 DEF DispatchMessage
    <3>. QED BY <3>1, HandledMessage DEF PlaceInv
  <2>. HIDE DEF m
  <2>1. /\ Dispatched("consume") /\ UNCHANGED <<netVars, readVars>>
        /\ seen' = [seen EXCEPT ![plugin] = @ + 1]
        /\ \/ /\ plugin = 1 /\ UNCHANGED statsVars
              /\ \/ m.kind = "config" /\ RecorderVideoConfig(m)
                 \/ m.kind = "chunk" /\ RecorderVideoChunk(m)
                 \/ m.kind = "sample" /\ RecorderSample
                 \/ m.kind = "intrinsics" /\ RecorderIntrinsics
           \/ /\ plugin = 2 /\ UNCHANGED <<recorderVars, disk_faults>>
              /\ \/ m.kind = "config" /\ StatsVideoConfig
                 \/ m.kind = "chunk" /\ StatsVideoChunk(m)
                 \/ m.kind \notin {"config", "chunk"} /\ UNCHANGED statsVars
           \/ plugin = 3 /\ UNCHANGED <<recorderVars, statsVars, disk_faults>>
    BY <1>0, <1>5, <2>0, MessageShape DEF m
  <2>2. NetTypes' /\ ReadTypes'
    BY <1>0, <2>1 DEF NetTypes, ReadTypes, netVars, readVars
  <2>3. RunTypes'
    BY <1>0, <2>1, RunTypesKept DEF Places
  <2>4. FileTypes' /\ MetaTypes'
    <3>1. CASE UNCHANGED <<recorderVars, disk_faults>>
      BY <1>0, <3>1 DEF FileTypes, MetaTypes, recorderVars
    <3>2. CASE RecorderVideoConfig(m)
      BY <1>0, <2>0, <3>2, VideoConfigTypes
    <3>3. CASE RecorderVideoChunk(m)
      BY <1>0, <2>0, <3>3, VideoChunkTypes
    <3>4. CASE RecorderSample \/ RecorderIntrinsics
      BY <1>0, <3>4, SampleTypes, IntrinsicsTypes
    <3>. QED BY <2>1, <3>1, <3>2, <3>3, <3>4
  <2>5. StatsTypes'
    <3>1. CASE UNCHANGED statsVars
      BY <1>0, <3>1 DEF StatsTypes, statsVars
    <3>2. CASE StatsVideoConfig \/ StatsVideoChunk(m)
      BY <1>0, <2>0, <3>2, CountTypes
    <3>. QED BY <2>1, <3>1, <3>2
  <2>. QED BY <2>2, <2>3, <2>4, <2>5, GroupedNext
<1>6. CASE PluginEscapes
  <2>1. NetTypes' /\ ReadTypes' /\ FileTypes' /\ MetaTypes'
    BY <1>0, <1>6 DEF PluginEscapes, NetTypes, ReadTypes, FileTypes, MetaTypes,
                      netVars, readVars, recorderVars
  <2>2. StatsTypes'
    <3>1. session' \in Snapshot /\ events' = events
      BY <1>0, <1>6, FinallyTypes DEF PluginEscapes
    <3>. QED BY <1>0, <3>1 DEF StatsTypes
  <2>3. RunTypes'
    <3>1. pc' \in Places /\ plugin' = 1
      BY <1>0, <1>6 DEF PluginEscapes, Finally, Places
    <3>2. seen' = seen \/ seen' = [seen EXCEPT ![External] = seen[External] + 1]
      BY <1>6 DEF PluginEscapes
    <3>3. seen \in [Plugins -> Nat] /\ seen[External] + 1 \in Nat
      BY <1>0 DEF RunTypes, Plugins, External
    <3>4. seen' \in [Plugins -> Nat]
      BY <3>2, <3>3
    <3>. QED BY <3>1, <3>4 DEF RunTypes, Plugins
  <2>. QED BY <2>1, <2>2, <2>3, GroupedNext
<1>7. CASE ReadChunk
  <2>1. NetTypes' /\ ReadTypes'
    <3>1. PICK n \in 1 .. stream : stream' = stream - n /\ buffer' = buffer + n
      BY <1>7 DEF ReadChunk
    <3>2. stream' \in Nat /\ buffer' \in Nat
      BY <1>0, <3>1 DEF NetTypes, ReadTypes
    <3>. QED BY <1>0, <1>7, <3>2 DEF ReadChunk, NetTypes, ReadTypes
  <2>2. RunTypes' /\ FileTypes' /\ MetaTypes' /\ StatsTypes'
    BY <1>0, <1>7 DEF ReadChunk, RunTypes, Places, FileTypes, MetaTypes, StatsTypes,
                      recorderVars, statsVars
  <2>. QED BY <2>1, <2>2, GroupedNext
<1>8. CASE ReadEof \/ ReadReset
  <2>1. /\ Finally /\ UNCHANGED <<netVars, readVars, plugin, seen, recorderVars, events>>
        /\ UNCHANGED disk_faults
    BY <1>8 DEF ReadEof, ReadReset, StopsOnEof
  <2>2. NetTypes' /\ RunTypes' /\ ReadTypes' /\ FileTypes' /\ MetaTypes'
    BY <1>0, <2>1 DEF Finally, NetTypes, RunTypes, Places, ReadTypes, FileTypes, MetaTypes,
                      netVars, readVars, recorderVars
  <2>3. session' \in Snapshot /\ events' = events
    BY <1>0, <2>1, FinallyTypes
  <2>4. StatsTypes'
    BY <1>0, <2>3 DEF StatsTypes
  <2>. QED BY <2>2, <2>4, GroupedNext
<1>9. CASE ConsumeNothing
  <2>1. NetTypes' /\ RunTypes' /\ ReadTypes' /\ FileTypes' /\ MetaTypes' /\ StatsTypes'
    BY <1>0, <1>9 DEF ConsumeNothing, NetTypes, RunTypes, Places, ReadTypes, FileTypes,
         MetaTypes, StatsTypes, netVars, readVars, recorderVars, statsVars
  <2>. QED BY <2>1, GroupedNext
<1>10. CASE Consume
  <2>1. /\ handled < Len(sent) /\ buffer >= Size(sent[handled + 1])
        /\ handled' = handled + 1 /\ buffer' = buffer - Size(sent[handled + 1])
        /\ UNCHANGED <<netVars, plugin, seen, recorderVars, events, disk_faults>>
        /\ Finally \/ (pc' \in {pc, "dispatch"} /\ UNCHANGED session)
    BY <1>10 DEF Consume, HasMessage
  <2>2. NetTypes' /\ ReadTypes'
    <3>1. Size(sent[handled + 1]) \in Nat
      BY <2>1, NextMessage, MessageFields
    <3>. QED BY <1>0, <2>1, <3>1 DEF NetTypes, ReadTypes, netVars
  <2>3. RunTypes' /\ FileTypes' /\ MetaTypes'
    BY <1>0, <2>1 DEF RunTypes, Places, Finally, FileTypes, MetaTypes, recorderVars
  <2>4. session' \in Snapshot /\ events' = events
    BY <1>0, <2>1, FinallyTypes
  <2>5. StatsTypes'
    BY <1>0, <2>4 DEF StatsTypes
  <2>. QED BY <2>2, <2>3, <2>5, GroupedNext
<1>11. CASE UNCHANGED vars
  <2>1. NetTypes' /\ RunTypes' /\ ReadTypes' /\ FileTypes' /\ MetaTypes' /\ StatsTypes'
    BY <1>0, <1>11 DEF vars, NetTypes, RunTypes, ReadTypes, FileTypes, MetaTypes, StatsTypes,
         netVars, readVars, recorderVars, statsVars
  <2>. QED BY <2>1, GroupedNext
<1>. QED BY <1>1, <1>2, <1>3, <1>4, <1>5, <1>6, <1>7, <1>8, <1>9, <1>10, <1>11, NextShape

-----------------------------------------------------------------------------
(* Where the handler is, and what each plugin was given.                   *)
LEMMA KnownKind ==
  ASSUME NEW m \in Message, m.kind \notin {"bad", "unknown"}
  PROVE  m.kind \in Kinds
BY MessageFields DEF Kinds, MessageKinds

LEMMA ConsumeShape ==
  ASSUME TypeOK, Consume
  PROVE  LET m == sent[handled + 1]
         IN  /\ pc = "consume" /\ handled < Len(sent) /\ buffer >= Size(m)
             /\ handled' = handled + 1 /\ buffer' = buffer - Size(m)
             /\ m \in Message
             /\ \/ Finally
                \/ m.kind = "unknown" /\ UNCHANGED <<pc, session>>
                \/ m.kind \in Kinds /\ pc' = "dispatch" /\ UNCHANGED session
             /\ UNCHANGED <<netVars, plugin, seen, recorderVars, events, disk_faults>>
<1>1. /\ pc = "consume" /\ handled < Len(sent) /\ buffer >= Size(sent[handled + 1])
      /\ handled' = handled + 1 /\ buffer' = buffer - Size(sent[handled + 1])
      /\ UNCHANGED <<netVars, plugin, seen, recorderVars, events, disk_faults>>
  BY DEF Consume, HasMessage
<1>2. sent[handled + 1] \in Message
  BY <1>1, NextMessage
<1>3. \/ Finally
      \/ sent[handled + 1].kind = "unknown" /\ UNCHANGED <<pc, session>>
      \/ sent[handled + 1].kind \in Kinds /\ pc' = "dispatch" /\ UNCHANGED session
  BY <1>1, <1>2, KnownKind DEF Consume
<1>. QED BY <1>1, <1>2, <1>3

LEMMA SentKept ==
  ASSUME TypeOK, NEW m \in Message, PeerSend(m)
  PROVE  /\ sent' \in Seq(Message) /\ Len(sent') = Len(sent) + 1
         /\ \A i \in 1 .. Len(sent) : sent'[i] = sent[i]
         /\ sent'[Len(sent) + 1] = m
<1>1. sent \in Seq(Message) /\ sent' = Append(sent, m)
  BY Grouped DEF NetTypes, PeerSend
<1>. QED BY <1>1

LEMMA PlaceStep == TypeOK /\ PlaceInv /\ [Next]_vars => PlaceInv'
<1>. SUFFICES ASSUME TypeOK, PlaceInv, [Next]_vars PROVE PlaceInv'
  OBVIOUS
<1>0. /\ plugin \in Plugins /\ handled \in 0 .. Len(sent) /\ buffer \in Nat
      /\ pc = "dispatch" => sent[handled].kind \in Kinds
  BY Grouped DEF RunTypes, ReadTypes, PlaceInv
<1>1. ASSUME NEW m \in Message, PeerSend(m) PROVE PlaceInv'
  <2>1. UNCHANGED <<pc, plugin, handled, buffer>>
    BY <1>1 DEF PeerSend, readVars
  <2>2. pc = "dispatch" => sent'[handled] = sent[handled]
    BY <1>1, SentKept, HandledMessage
  <2>. QED BY <2>1, <2>2 DEF PlaceInv
<1>2. ASSUME NEW how \in {"eof", "reset"}, PeerGone(how) PROVE PlaceInv'
  BY <1>2 DEF PeerGone, readVars, PlaceInv
<1>3. CASE DispatchSessionStart
  <2>1. UNCHANGED <<sent, handled, buffer>> /\ pc = "start"
    BY <1>0, <1>3, StartShape DEF netVars, readVars
  <2>2. (pc' = "start") \/ (pc' = "read" /\ plugin' = 1)
    BY <1>0, <1>3, StartShape, DispatchedShape
  <2>. QED BY <2>1, <2>2 DEF PlaceInv
<1>4. CASE DispatchSessionEnd
  <2>1. UNCHANGED <<sent, handled, buffer>> /\ pc = "end"
    BY <1>0, <1>4, EndShape DEF netVars, readVars
  <2>2. (pc' = "end") \/ (pc' = "done" /\ plugin' = 1)
    BY <1>0, <1>4, EndShape, DispatchedShape
  <2>. QED BY <2>1, <2>2 DEF PlaceInv
<1>5. CASE DispatchMessage
  <2>1. UNCHANGED <<sent, handled, buffer>> /\ pc = "dispatch" /\ Dispatched("consume")
    BY <1>5 DEF DispatchMessage, netVars, readVars
  <2>2. (pc' = "dispatch") \/ (pc' = "consume" /\ plugin' = 1)
    BY <1>0, <2>1, DispatchedShape
  <2>. QED BY <2>1, <2>2 DEF PlaceInv
<1>6. CASE PluginEscapes
  <2>1. UNCHANGED <<sent, handled, buffer>> /\ plugin' = 1
        /\ pc' \in {"abandoned", "end", "done"}
    BY <1>6 DEF PluginEscapes, Finally, netVars, readVars
  <2>. QED BY <2>1 DEF PlaceInv
<1>7. CASE ReadChunk
  <2>1. UNCHANGED plugin /\ pc = "read" /\ pc' = "consume"
    BY <1>7 DEF ReadChunk
  <2>. QED BY <2>1 DEF PlaceInv
<1>8. CASE ReadEof \/ ReadReset
  <2>1. UNCHANGED plugin /\ pc = "read" /\ pc' = "end"
    BY <1>8 DEF ReadEof, ReadReset, StopsOnEof, Finally
  <2>. QED BY <2>1 DEF PlaceInv
<1>9. CASE ConsumeNothing
  <2>1. UNCHANGED plugin /\ pc = "consume" /\ pc' = "read"
    BY <1>9 DEF ConsumeNothing
  <2>. QED BY <2>1 DEF PlaceInv
<1>10. CASE Consume
  <2>1. /\ UNCHANGED <<plugin, sent>> /\ handled' = handled + 1 /\ pc = "consume"
        /\ pc' \in {"end", "consume", "dispatch"}
        /\ pc' = "dispatch" => sent[handled + 1].kind \in Kinds
    BY <1>10, ConsumeShape DEF netVars, Finally
  <2>. QED BY <1>0, <2>1 DEF PlaceInv
<1>11. CASE UNCHANGED vars
  BY <1>11 DEF vars, netVars, readVars, PlaceInv
<1>. QED BY <1>1, <1>2, <1>3, <1>4, <1>5, <1>6, <1>7, <1>8, <1>9, <1>10, <1>11, NextShape

LEMMA SeenStep == TypeOK /\ PlaceInv /\ SeenInv /\ [Next]_vars => SeenInv'
<1>. SUFFICES ASSUME TypeOK, PlaceInv, SeenInv, [Next]_vars PROVE SeenInv'
  OBVIOUS
<1>. DEFINE Live == {"start", "read", "consume", "dispatch"}
<1>0. plugin \in Plugins /\ seen \in [Plugins -> Nat]
  BY Grouped DEF RunTypes
<1>1. ASSUME UNCHANGED <<seen, pc, plugin>> PROVE SeenInv'
  BY <1>1 DEF SeenInv, Given
<1>2. ASSUME UNCHANGED seen, plugin' = 1, pc \in Live, pc # "dispatch" PROVE SeenInv'
  <2>1. \A p \in Plugins : seen[p] = seen[External]
    BY <1>2 DEF SeenInv, Given
  <2>. QED BY <1>2, <2>1 DEF SeenInv, Given, Plugins
<1>3. ASSUME pc' \notin Live PROVE SeenInv'
  BY <1>3 DEF SeenInv
<1>4. CASE DispatchMessage
  <2>1. /\ pc = "dispatch" /\ seen' = [seen EXCEPT ![plugin] = seen[plugin] + 1]
        /\ \/ plugin < 3 /\ plugin' = plugin + 1 /\ pc' = "dispatch"
           \/ plugin = 3 /\ plugin' = 1 /\ pc' = "consume"
    BY <1>0, <1>4, DispatchedShape DEF DispatchMessage
  <2>2. \A p \in Plugins :
            /\ seen[p] = IF p < plugin THEN seen[External] + 1 ELSE seen[External]
            /\ seen'[p] = IF p = plugin THEN seen[p] + 1 ELSE seen[p]
    BY <1>0, <2>1 DEF SeenInv, Given
  <2>3. plugin = 1 \/ plugin = 2 \/ plugin = 3
    BY <1>0 DEF Plugins
  <2>4. seen[1] \in Nat /\ seen[2] \in Nat /\ seen[3] \in Nat
    BY <1>0 DEF Plugins
  <2>5. ASSUME NEW p \in Plugins PROVE seen'[p] = Given(p)'
    BY <2>1, <2>2, <2>3, <2>4 DEF Given, Plugins, External
  <2>. QED BY <2>5 DEF SeenInv
<1>5. CASE DispatchSessionStart
  <2>1. pc = "start" /\ UNCHANGED seen /\ pc' \in {"start", "read"}
    BY <1>0, <1>5, StartShape, DispatchedShape
  <2>2. \A p \in Plugins : seen[p] = seen[External]
    BY <2>1 DEF SeenInv, Given
  <2>. QED BY <2>1, <2>2 DEF SeenInv, Given
<1>6. CASE Consume
  <2>1. pc = "consume" /\ UNCHANGED <<plugin, seen>> /\ plugin = 1
    BY <1>6, ConsumeShape DEF PlaceInv
  <2>. QED BY <2>1, <1>2
<1>7. CASE ReadChunk \/ ConsumeNothing
  <2>1. pc \in {"read", "consume"} /\ UNCHANGED <<plugin, seen>> /\ plugin = 1
    BY <1>7 DEF ReadChunk, ConsumeNothing, PlaceInv
  <2>. QED BY <2>1, <1>2
<1>8. CASE DispatchSessionEnd
  <2>1. pc' \in {"end", "done"}
    BY <1>0, <1>8, EndShape, DispatchedShape
  <2>. QED BY <2>1, <1>3
<1>9. CASE PluginEscapes \/ ReadEof \/ ReadReset
  <2>1. pc' \in {"abandoned", "end", "done"}
    BY <1>9 DEF PluginEscapes, ReadEof, ReadReset, StopsOnEof, Finally
  <2>. QED BY <2>1, <1>3
<1>10. CASE (\E m \in Message : PeerSend(m)) \/ (\E how \in {"eof", "reset"} : PeerGone(how))
  BY <1>1, <1>10 DEF PeerSend, PeerGone
<1>11. CASE UNCHANGED vars
  BY <1>1, <1>11 DEF vars
<1>. QED BY <1>4, <1>5, <1>6, <1>7, <1>8, <1>9, <1>10, <1>11, NextShape

-----------------------------------------------------------------------------
(* The frames Stats has counted.                                           *)
Counted == IF pc = "dispatch" /\ plugin <= Stats THEN handled - 1 ELSE handled

LEMMA OneMoreChunk ==
  ASSUME NEW n \in Nat
  PROVE  /\ Cardinality(Chunks(n)) \in Nat
         /\ Cardinality(Chunks(n + 1)) =
               IF sent[n + 1].kind = "chunk" THEN Cardinality(Chunks(n)) + 1
               ELSE Cardinality(Chunks(n))
<1>1. IsFiniteSet(1 .. n)
  BY FS_Interval
<1>2. Chunks(n) \subseteq 1 .. n
  BY DEF Chunks
<1>3. IsFiniteSet(Chunks(n))
  BY <1>1, <1>2, FS_Subset
<1>4. Cardinality(Chunks(n)) \in Nat
  BY <1>3, FS_CardinalityType
<1>5. CASE sent[n + 1].kind = "chunk"
  <2>1. Chunks(n + 1) = Chunks(n) \cup {n + 1} /\ n + 1 \notin Chunks(n)
    BY <1>5 DEF Chunks
  <2>2. Cardinality(Chunks(n) \cup {n + 1}) = Cardinality(Chunks(n)) + 1
    BY <1>3, <2>1, FS_AddElement
  <2>. QED BY <1>4, <1>5, <2>1, <2>2
<1>6. CASE sent[n + 1].kind # "chunk"
  <2>1. Chunks(n + 1) = Chunks(n)
    BY <1>6 DEF Chunks
  <2>. QED BY <1>4, <1>6, <2>1
<1>. QED BY <1>5, <1>6

LEMMA NoChunks == Cardinality(Chunks(0)) = 0
<1>1. Chunks(0) = {}
  BY DEF Chunks
<1>. QED BY <1>1, FS_EmptySet

LEMMA CountStep == TypeOK /\ PlaceInv /\ CountInv /\ [Next]_vars => CountInv'
<1>. SUFFICES ASSUME TypeOK, PlaceInv, CountInv, [Next]_vars PROVE CountInv'
  OBVIOUS
<1>. DEFINE Live == {"start", "read", "consume", "dispatch"}
<1>0. /\ plugin \in Plugins /\ handled \in 0 .. Len(sent) /\ handled \in Nat
      /\ session \in Snapshot
  BY Grouped DEF RunTypes, ReadTypes, StatsTypes
<1>1. CountInv <=> (pc \in Live => session.frame_count = Cardinality(Chunks(Counted)))
  BY DEF CountInv, Counted
<1>2. CountInv' <=> (pc' \in Live => session'.frame_count = Cardinality(Chunks(Counted)'))
  BY DEF CountInv, Counted, Chunks
<1>3. ASSUME sent' = sent PROVE Chunks(Counted)' = Chunks(Counted')
  BY <1>3 DEF Chunks
<1>4. ASSUME UNCHANGED <<sent, session>>, pc \in Live, Counted' = Counted PROVE CountInv'
  BY <1>1, <1>2, <1>3, <1>4
<1>5. ASSUME pc' \notin Live PROVE CountInv'
  BY <1>2, <1>5
<1>6. ASSUME NEW m \in Message, PeerSend(m) PROVE CountInv'
  <2>1. UNCHANGED <<pc, plugin, handled, session>>
    BY <1>6 DEF PeerSend, readVars, statsVars
  <2>2. Counted' = Counted /\ Counted <= Len(sent)
    BY <1>0, <2>1 DEF Counted
  <2>3. \A i \in 1 .. Counted : sent'[i] = sent[i]
    BY <1>0, <1>6, <2>2, SentKept DEF Counted
  <2>4. Chunks(Counted)' = Chunks(Counted)
    BY <2>2, <2>3 DEF Chunks
  <2>. QED BY <1>1, <1>2, <2>1, <2>4
<1>7. ASSUME NEW how \in {"eof", "reset"}, PeerGone(how) PROVE CountInv'
  <2>1. UNCHANGED <<sent, session, pc, plugin, handled>>
    BY <1>7 DEF PeerGone, readVars, statsVars
  <2>. QED BY <1>4, <1>5, <2>1 DEF Counted
<1>8. CASE DispatchSessionStart
  <2>1. UNCHANGED <<sent, handled, session>> /\ pc = "start" /\ pc' \in {"start", "read"}
    BY <1>0, <1>8, StartShape, DispatchedShape DEF netVars, readVars, statsVars,
       StatsSessionStart
  <2>2. Counted' = Counted
    BY <2>1 DEF Counted
  <2>. QED BY <1>4, <2>1, <2>2
<1>9. CASE DispatchMessage
  <2>. DEFINE m == sent[handled]
  <2>1. pc = "dispatch" /\ m.kind \in Kinds /\ m \in Message /\ handled > 0
    <3>1. pc = "dispatch"
      BY <1>9 DEF DispatchMessage
    <3>. QED BY <3>1, HandledMessage DEF PlaceInv
  <2>2. /\ UNCHANGED <<sent, handled>>
        /\ \/ plugin < 3 /\ plugin' = plugin + 1 /\ pc' = "dispatch"
           \/ plugin = 3 /\ plugin' = 1 /\ pc' = "consume"
    BY <1>0, <1>9, <2>1, DispatchedShape DEF DispatchMessage, netVars, readVars
  <2>3. CASE plugin = 2
    <3>1. \/ m.kind = "config" /\ StatsVideoConfig
          \/ m.kind = "chunk" /\ StatsVideoChunk(m)
          \/ m.kind \notin {"config", "chunk"} /\ UNCHANGED statsVars
      BY <1>0, <1>9, <2>1, <2>3, MessageShape
    <3>. HIDE DEF m
    <3>2. session'.frame_count =
              IF m.kind = "chunk" THEN session.frame_count + 1 ELSE session.frame_count
      <4>1. CASE m.kind = "chunk" /\ StatsVideoChunk(m)
        <5>1. session' = [session EXCEPT !.frame_count = session.frame_count + 1,
                                         !.byte_count = session.byte_count + m.size]
          BY <4>1, Zenon DEF StatsVideoChunk
        <5>. DEFINE counted == [session EXCEPT !.frame_count = session.frame_count + 1]
        <5>2. counted \in [ended : BOOLEAN, video_config : Nat, frame_count : Nat, byte_count : Nat]
          <6>1. session \in Snapshot /\ session.frame_count + 1 \in Nat
            BY <1>0 DEF Snapshot
          <6>. QED BY <6>1 DEF Snapshot
        <5>3. counted.frame_count = session.frame_count + 1
          BY <1>0 DEF Snapshot
        <5>4. session' = [counted EXCEPT !.byte_count = session.byte_count + m.size]
          BY <5>1, Zenon
        <5>. HIDE DEF counted
        <5>5. session'.frame_count = counted.frame_count
          BY <5>2, <5>4
        <5>. QED BY <4>1, <5>3, <5>5
      <4>2. CASE m.kind = "config" /\ StatsVideoConfig
        BY <1>0, <4>2 DEF StatsVideoConfig, Snapshot
      <4>3. CASE m.kind \notin {"config", "chunk"} /\ UNCHANGED statsVars
        BY <4>3 DEF statsVars
      <4>. QED BY <3>1, <4>1, <4>2, <4>3
    <3>3. Counted = handled - 1 /\ Counted' = handled /\ pc' \in Live
      BY <2>1, <2>2, <2>3 DEF Counted, Stats
    <3>4. session.frame_count = Cardinality(Chunks(handled - 1))
      BY <1>1, <2>1, <3>3
    <3>5. handled - 1 \in Nat /\ handled - 1 + 1 = handled
      BY <1>0, <2>1
    <3>6. Cardinality(Chunks(handled)) =
              IF m.kind = "chunk" THEN Cardinality(Chunks(handled - 1)) + 1
              ELSE Cardinality(Chunks(handled - 1))
      BY <3>5, OneMoreChunk DEF m
    <3>. QED BY <1>2, <1>3, <2>2, <3>2, <3>3, <3>4, <3>6
  <2>4. CASE plugin # 2
    <3>1. UNCHANGED session
      BY <1>0, <1>9, <2>1, <2>4, MessageShape DEF statsVars
    <3>2. Counted' = Counted
      BY <1>0, <2>1, <2>2, <2>4 DEF Counted, Stats, Plugins
    <3>. QED BY <1>4, <2>1, <2>2, <3>1, <3>2
  <2>. QED BY <2>3, <2>4
<1>10. CASE Consume
  <2>. DEFINE m == sent[handled + 1]
  <2>1. /\ pc = "consume" /\ handled' = handled + 1 /\ UNCHANGED <<sent, plugin>>
        /\ \/ Finally
           \/ m.kind = "unknown" /\ UNCHANGED <<pc, session>>
           \/ m.kind \in Kinds /\ pc' = "dispatch" /\ UNCHANGED session
    BY <1>10, ConsumeShape DEF netVars
  <2>2. CASE Finally
    BY <1>5, <2>2 DEF Finally
  <2>3. CASE m.kind = "unknown" /\ UNCHANGED <<pc, session>>
    <3>1. Counted = handled /\ Counted' = handled + 1
      BY <2>1, <2>3 DEF Counted
    <3>2. Cardinality(Chunks(handled + 1)) = Cardinality(Chunks(handled))
      BY <1>0, <2>3, OneMoreChunk
    <3>. QED BY <1>1, <1>2, <1>3, <2>1, <2>3, <3>1, <3>2
  <2>4. CASE m.kind \in Kinds /\ pc' = "dispatch" /\ UNCHANGED session
    <3>1. plugin = 1
      BY <2>1 DEF PlaceInv
    <3>2. Counted = handled /\ Counted' = handled
      BY <1>0, <2>1, <2>4, <3>1 DEF Counted, Stats
    <3>. QED BY <1>4, <2>1, <2>4, <3>2
  <2>. QED BY <2>1, <2>2, <2>3, <2>4
<1>11. CASE ReadChunk \/ ConsumeNothing
  <2>1. UNCHANGED <<sent, session, handled>> /\ pc \in {"read", "consume"}
        /\ pc' \in {"read", "consume"}
    BY <1>11 DEF ReadChunk, ConsumeNothing, statsVars, netVars, readVars
  <2>. QED BY <1>4, <2>1 DEF Counted
<1>12. CASE DispatchSessionEnd
  <2>1. pc' \in {"end", "done"}
    BY <1>0, <1>12, EndShape, DispatchedShape
  <2>. QED BY <1>5, <2>1
<1>13. CASE PluginEscapes \/ ReadEof \/ ReadReset
  <2>1. pc' \in {"abandoned", "end", "done"}
    BY <1>13 DEF PluginEscapes, ReadEof, ReadReset, StopsOnEof, Finally
  <2>. QED BY <1>5, <2>1
<1>14. CASE UNCHANGED vars
  <2>1. UNCHANGED <<sent, session, pc, plugin, handled>>
    BY <1>14 DEF vars, netVars, readVars, statsVars
  <2>. QED BY <1>4, <1>5, <2>1 DEF Counted
<1>. QED BY <1>6, <1>7, <1>8, <1>9, <1>10, <1>11, <1>12, <1>13, <1>14, NextShape

-----------------------------------------------------------------------------
(* The recorder's files.  A line of the index stays right when the video   *)
(* grows behind it.                                                        *)
Right(f, bytes) ==
    /\ f.byte_offset + f.size <= Len(bytes)
    /\ \A b \in 1 .. f.size : bytes[f.byte_offset + b] = f.frame

LEMMA IndexByLine ==
  /\ IndexIsRight <=> \A i \in 1 .. Len(frames) : Right(frames[i], video)
  /\ IndexIsRight' <=> \A i \in 1 .. Len(frames') : Right(frames'[i], video')
BY DEF IndexIsRight, Right

LEMMA RightKept ==
  ASSUME video \in Seq(Nat), handled \in Nat, NEW n \in Nat, NEW f \in Line, Right(f, video)
  PROVE  Right(f, video \o Bytes(n))
<1>. DEFINE grown == video \o Bytes(n)
<1>1. Len(grown) = Len(video) + n /\ \A i \in 1 .. Len(video) : grown[i] = video[i]
  BY BytesAppended
<1>2. f.byte_offset \in Nat /\ f.size \in Nat
  BY DEF Line
<1>. HIDE DEF grown
<1>3. Len(video) \in Nat
  OBVIOUS
<1>4. /\ f.byte_offset + f.size <= Len(video)
      /\ \A b \in 1 .. f.size : video[f.byte_offset + b] = f.frame
  BY DEF Right
<1>5. f.byte_offset + f.size <= Len(grown)
  BY <1>1, <1>2, <1>3, <1>4
<1>6. ASSUME NEW b \in 1 .. f.size PROVE grown[f.byte_offset + b] = f.frame
  <2>1. f.byte_offset + b \in 1 .. Len(video)
    BY <1>2, <1>3, <1>4
  <2>. QED BY <1>1, <1>4, <2>1
<1>. QED BY <1>5, <1>6 DEF Right, grown

LEMMA NewLineRight ==
  ASSUME video \in Seq(Nat), handled \in Nat, NEW m \in Message, video_offset = Len(video)
  PROVE  Right(FrameLine(m), video \o Bytes(m.size))
<1>. DEFINE grown == video \o Bytes(m.size)
<1>0. m.size \in Nat
  BY MessageFields
<1>1. /\ Len(grown) = Len(video) + m.size
      /\ \A i \in 1 .. m.size : grown[Len(video) + i] = handled
  BY <1>0, BytesAppended
<1>. HIDE DEF grown
<1>2. Len(video) \in Nat
  OBVIOUS
<1>3. Right(FrameLine(m), grown)
  BY <1>0, <1>1, <1>2 DEF Right, FrameLine
<1>. QED BY <1>3 DEF grown

LEMMA NoFault ==
  ASSUME MetaTypes, disk_faults' = 0
  PROVE  ~DiskFault /\ ~MetaFails /\ \A n \in Nat : ~VideoWriteFails(n)
<1>1. ~DiskFault
  BY DEF MetaTypes, DiskFault
<1>. QED BY <1>1 DEF MetaFails, VideoWriteFails

(* While every write has worked, the three files are open and the offset   *)
(* is the length of the video.                                             *)
Recorded == IndexIsRight /\ recording = AllFiles /\ video_offset = Len(video)

LEMMA ConfigRecorded ==
  ASSUME FileTypes, MetaTypes, handled \in Nat, disk_faults' = 0, Recorded,
         NEW m \in Message, RecorderVideoConfig(m)
  PROVE  Recorded'
<1>0. m.size \in Nat /\ video \in Seq(Nat) /\ frames \in Seq(Line)
  BY MessageFields DEF FileTypes
<1>1. /\ video' = video \o Bytes(m.size) /\ video_offset' = video_offset + m.size
      /\ UNCHANGED <<recording, frames>>
  BY <1>0, NoFault DEF RecorderVideoConfig, ConfigOffset, Recorded, AllFiles
<1>2. Len(video') = Len(video) + m.size
  BY <1>0, <1>1, BytesAppended
<1>3. ASSUME NEW i \in 1 .. Len(frames) PROVE Right(frames[i], video')
  <2>1. frames[i] \in Line /\ Right(frames[i], video)
    BY <1>0, IndexByLine DEF Recorded
  <2>. QED BY <1>0, <1>1, <2>1, RightKept
<1>. QED BY <1>1, <1>2, <1>3, IndexByLine DEF Recorded

LEMMA ChunkRecorded ==
  ASSUME FileTypes, MetaTypes, handled \in Nat, disk_faults' = 0, Recorded,
         NEW m \in Message, RecorderVideoChunk(m)
  PROVE  Recorded'
<1>0. m.size \in Nat /\ video \in Seq(Nat) /\ frames \in Seq(Line) /\ FrameLine(m) \in Line
  BY MessageFields, FrameLineType DEF FileTypes
<1>1. /\ video' = video \o Bytes(m.size) /\ video_offset' = video_offset + m.size
      /\ frames' = Append(frames, FrameLine(m)) /\ UNCHANGED recording
  BY <1>0, NoFault DEF RecorderVideoChunk, Recorded, AllFiles
<1>2. Len(video') = Len(video) + m.size
  BY <1>0, <1>1, BytesAppended
<1>3. ASSUME NEW i \in 1 .. Len(frames') PROVE Right(frames'[i], video')
  <2>1. CASE i <= Len(frames)
    <3>1. i \in 1 .. Len(frames) /\ frames'[i] = frames[i]
      BY <1>0, <1>1, <2>1
    <3>2. frames[i] \in Line /\ Right(frames[i], video)
      BY <1>0, <3>1, IndexByLine DEF Recorded
    <3>. QED BY <1>0, <1>1, <3>1, <3>2, RightKept
  <2>2. CASE ~(i <= Len(frames))
    <3>1. frames'[i] = FrameLine(m)
      BY <1>0, <1>1, <2>2
    <3>2. video_offset = Len(video)
      BY DEF Recorded
    <3>. QED BY <1>0, <1>1, <3>1, <3>2, NewLineRight
  <2>. QED BY <2>1, <2>2
<1>. QED BY <1>1, <1>2, <1>3, IndexByLine DEF Recorded

LEMMA RecorderStep == TypeOK /\ PlaceInv /\ RecorderInv /\ [Next]_vars => RecorderInv'
<1>. SUFFICES ASSUME TypeOK, PlaceInv, RecorderInv, [Next]_vars, disk_faults' = 0
              PROVE  RecorderInv'
  BY DEF RecorderInv
<1>. DEFINE Live == {"start", "read", "consume", "dispatch"}
            Begun == ~(pc = "start" /\ plugin = Recorder)
            Untouched == frames = <<>> /\ video = <<>> /\ video_offset = 0
<1>0. /\ plugin \in Plugins /\ handled \in Nat /\ FileTypes /\ MetaTypes
      /\ session \in Snapshot
  BY Grouped DEF RunTypes, ReadTypes, StatsTypes
<1>1. RecorderInv <=> (disk_faults = 0 =>
          IF Begun THEN IndexIsRight /\ (pc \in Live => Recorded) ELSE Untouched)
  BY DEF RecorderInv, Recorded
<1>2. RecorderInv' <=> (disk_faults' = 0 =>
          IF Begun' THEN IndexIsRight' /\ (pc' \in Live => Recorded') ELSE Untouched')
  BY DEF RecorderInv, Recorded
<1>. HIDE DEF Begun, Untouched
<1>3. ASSUME UNCHANGED recorderVars PROVE /\ IndexIsRight' <=> IndexIsRight
                                          /\ Recorded' <=> Recorded
                                          /\ Untouched' <=> Untouched
  BY <1>3 DEF recorderVars, IndexIsRight, Recorded, Untouched
<1>4. ASSUME UNCHANGED <<recorderVars, disk_faults>>, Begun' <=> Begun,
             pc' \in Live => pc \in Live
      PROVE  RecorderInv'
  BY <1>1, <1>2, <1>3, <1>4
<1>5. ASSUME NEW m \in Message, PeerSend(m) PROVE RecorderInv'
  BY <1>4, <1>5 DEF PeerSend, Begun
<1>6. ASSUME NEW how \in {"eof", "reset"}, PeerGone(how) PROVE RecorderInv'
  BY <1>4, <1>6 DEF PeerGone, Begun
<1>7. CASE DispatchSessionStart
  <2>1. /\ pc = "start"
        /\ \/ plugin = 1 /\ RecorderSessionStart
           \/ plugin # 1 /\ UNCHANGED <<recorderVars, disk_faults>>
    BY <1>0, <1>7, StartShape
  <2>2. Begun'
    BY <1>0, <1>7, StartShape, DispatchedShape DEF Begun, Recorder, Plugins
  <2>3. CASE plugin = 1 /\ RecorderSessionStart
    <3>1. recording' = AllFiles /\ UNCHANGED <<video, frames, video_offset>> /\ DiskOk
      BY <1>0, <2>3, NoFault DEF RecorderSessionStart, WriteMeta, AllFiles
    <3>2. Untouched
      BY <1>1, <2>1, <2>3, <3>1 DEF Begun, Recorder, DiskOk
    <3>3. Recorded'
      BY <3>1, <3>2 DEF Untouched, Recorded, IndexIsRight
    <3>. QED BY <1>2, <2>2, <3>3 DEF Recorded
  <2>4. CASE plugin # 1 /\ UNCHANGED <<recorderVars, disk_faults>>
    <3>1. Begun
      BY <2>4 DEF Begun, Recorder
    <3>. QED BY <1>4, <2>1, <2>2, <2>4, <3>1
  <2>. QED BY <2>1, <2>3, <2>4
<1>8. CASE DispatchMessage
  <2>. DEFINE m == sent[handled]
  <2>1. pc = "dispatch" /\ m.kind \in Kinds /\ m \in Message
    <3>1. pc = "dispatch"
      BY <1>8 DEF DispatchMessage
    <3>. QED BY <3>1, HandledMessage DEF PlaceInv
  <2>2. pc' \in {"dispatch", "consume"}
    BY <1>0, <1>8, <2>1, MessageShape, DispatchedShape
  <2>3. Begun /\ Begun'
    BY <2>1, <2>2 DEF Begun
  <2>4. \/ RecorderVideoConfig(m)
        \/ RecorderVideoChunk(m)
        \/ RecorderSample \/ RecorderIntrinsics
        \/ UNCHANGED <<recorderVars, disk_faults>>
    BY <1>0, <1>8, <2>1, MessageShape
  <2>. HIDE DEF m
  <2>5. disk_faults = 0
    BY <1>0, <2>4, NoFault, MessageFields, <2>1 DEF RecorderVideoConfig, RecorderVideoChunk,
       RecorderSample, RecorderIntrinsics, WriteMeta, DiskOk
  <2>6. Recorded
    BY <1>1, <2>1, <2>3, <2>5
  <2>7. Recorded'
    <3>1. CASE RecorderVideoConfig(m)
      BY <1>0, <2>1, <2>6, <3>1, ConfigRecorded
    <3>2. CASE RecorderVideoChunk(m)
      BY <1>0, <2>1, <2>6, <3>2, ChunkRecorded
    <3>3. CASE RecorderSample \/ RecorderIntrinsics
      <4>1. UNCHANGED <<recording, video, frames, video_offset>>
        BY <3>3 DEF RecorderSample, RecorderIntrinsics
      <4>. QED BY <2>6, <4>1 DEF Recorded, IndexIsRight
    <3>4. CASE UNCHANGED <<recorderVars, disk_faults>>
      BY <1>3, <2>6, <3>4
    <3>. QED BY <2>4, <3>1, <3>2, <3>3, <3>4
  <2>. QED BY <1>2, <2>3, <2>7 DEF Recorded
<1>9. CASE DispatchSessionEnd
  <2>1. pc = "end" /\ pc' \in {"end", "done"} /\ UNCHANGED <<video, frames>> /\ disk_faults = 0
    BY <1>0, <1>9, EndShape, DispatchedShape, NoFault DEF RecorderSessionEnd, WriteMeta, DiskOk,
       recorderVars
  <2>2. IndexIsRight
    BY <1>1, <2>1 DEF Begun
  <2>3. IndexIsRight'
    BY <2>1, <2>2 DEF IndexIsRight
  <2>. QED BY <1>2, <2>1, <2>3 DEF Begun
<1>10. CASE PluginEscapes
  <2>1. /\ UNCHANGED <<recorderVars, disk_faults>> /\ plugin = 3
        /\ pc' \in {"abandoned", "end", "done"}
    BY <1>10 DEF PluginEscapes, Finally, External
  <2>2. Begun /\ Begun'
    BY <2>1 DEF Begun, Recorder
  <2>. QED BY <1>4, <2>1, <2>2
<1>11. CASE ReadEof \/ ReadReset
  <2>1. UNCHANGED <<recorderVars, disk_faults>> /\ pc = "read" /\ pc' = "end"
    BY <1>11 DEF ReadEof, ReadReset, StopsOnEof, Finally
  <2>2. Begun /\ Begun'
    BY <2>1 DEF Begun
  <2>. QED BY <1>4, <2>1, <2>2
<1>12. CASE ReadChunk \/ ConsumeNothing
  <2>1. UNCHANGED <<recorderVars, disk_faults>> /\ pc \in {"read", "consume"}
        /\ pc' \in {"read", "consume"}
    BY <1>12 DEF ReadChunk, ConsumeNothing
  <2>2. Begun /\ Begun'
    BY <2>1 DEF Begun
  <2>. QED BY <1>4, <2>1, <2>2
<1>13. CASE Consume
  <2>1. UNCHANGED <<recorderVars, disk_faults>> /\ pc = "consume"
        /\ pc' \in {"end", "consume", "dispatch"}
    BY <1>13, ConsumeShape DEF Finally
  <2>2. Begun /\ Begun'
    BY <2>1 DEF Begun
  <2>. QED BY <1>4, <2>1, <2>2
<1>14. CASE UNCHANGED vars
  <2>1. UNCHANGED <<recorderVars, disk_faults, pc, plugin>>
    BY <1>14 DEF vars
  <2>. QED BY <1>4, <2>1 DEF Begun
<1>. QED BY <1>5, <1>6, <1>7, <1>8, <1>9, <1>10, <1>11, <1>12, <1>13, <1>14, NextShape

-----------------------------------------------------------------------------
(* The end of the session.                                                 *)
LEMMA MetaStep == TypeOK /\ PlaceInv /\ MetaInv /\ [Next]_vars => MetaInv'
<1>. SUFFICES ASSUME TypeOK, PlaceInv, MetaInv, [Next]_vars PROVE MetaInv'
  OBVIOUS
<1>0. plugin \in Plugins /\ MetaTypes /\ session \in Snapshot
  BY Grouped DEF RunTypes, StatsTypes
<1>1. ASSUME UNCHANGED <<session, meta, pc, plugin, disk_faults>> PROVE MetaInv'
  BY <1>1 DEF MetaInv
<1>2. ASSUME pc' \notin {"end", "done"} PROVE MetaInv'
  BY <1>2 DEF MetaInv
<1>3. ASSUME Finally, plugin' = 1 PROVE MetaInv'
  BY <1>0, <1>3 DEF Finally, EndedNow, Snapshot, MetaInv, Recorder
<1>4. CASE DispatchSessionEnd
  <2>1. pc = "end" /\ session' = session
    BY <1>0, <1>4, EndShape DEF statsVars, StatsSessionEnd
  <2>2. \/ pc' = "end" /\ plugin < 3
        \/ pc' = "done" /\ plugin = 3
    BY <1>0, <1>4, EndShape, DispatchedShape
  <2>3. session'.ended
    BY <2>1 DEF MetaInv
  <2>4. ASSUME disk_faults' = 0 PROVE meta' = session'
    <3>1. CASE plugin = 1
      BY <1>0, <1>4, <2>1, <2>4, <3>1, EndShape, NoFault DEF RecorderSessionEnd, WriteMeta
    <3>2. CASE plugin # 1
      <4>1. UNCHANGED <<meta, disk_faults>>
        BY <1>0, <1>4, <3>2, EndShape DEF recorderVars
      <4>. QED BY <1>0, <2>1, <2>4, <3>2, <4>1 DEF MetaInv, Recorder, Plugins
    <3>. QED BY <3>1, <3>2
  <2>. QED BY <2>3, <2>4 DEF MetaInv
<1>5. CASE PluginEscapes
  <2>1. \/ pc' = "abandoned"
        \/ Finally /\ plugin' = 1
        \/ /\ pc = "end" /\ plugin = 3 /\ pc' = "done"
           /\ UNCHANGED <<session, meta, disk_faults>>
    BY <1>5 DEF PluginEscapes, External, recorderVars
  <2>2. CASE /\ pc = "end" /\ plugin = 3 /\ pc' = "done"
             /\ UNCHANGED <<session, meta, disk_faults>>
    BY <2>2 DEF MetaInv, Recorder
  <2>. QED BY <1>2, <1>3, <2>1, <2>2
<1>6. CASE ReadEof \/ ReadReset
  <2>1. Finally /\ plugin' = 1
    BY <1>6 DEF ReadEof, ReadReset, StopsOnEof, PlaceInv
  <2>. QED BY <1>3, <2>1
<1>7. CASE Consume
  <2>1. \/ Finally /\ plugin' = 1
        \/ pc' \in {"consume", "dispatch"}
    BY <1>7, ConsumeShape DEF PlaceInv
  <2>. QED BY <1>2, <1>3, <2>1
<1>8. CASE DispatchSessionStart \/ DispatchMessage \/ ReadChunk \/ ConsumeNothing
  <2>1. CASE DispatchSessionStart
    BY <1>0, <1>2, <2>1, StartShape, DispatchedShape
  <2>2. CASE DispatchMessage
    <3>1. pc = "dispatch" /\ Dispatched("consume")
      BY <2>2 DEF DispatchMessage
    <3>. QED BY <1>0, <1>2, <3>1, DispatchedShape
  <2>3. CASE ReadChunk \/ ConsumeNothing
    BY <1>2, <2>3 DEF ReadChunk, ConsumeNothing
  <2>. QED BY <1>8, <2>1, <2>2, <2>3
<1>9. CASE (\E m \in Message : PeerSend(m)) \/ (\E how \in {"eof", "reset"} : PeerGone(how))
  BY <1>1, <1>9 DEF PeerSend, PeerGone, recorderVars, statsVars
<1>10. CASE UNCHANGED vars
  BY <1>1, <1>10 DEF vars, recorderVars, statsVars
<1>. QED BY <1>4, <1>5, <1>6, <1>7, <1>8, <1>9, <1>10, NextShape

-----------------------------------------------------------------------------
(* The bytes of the stream.                                                *)
Ends(end) ==
    /\ \A i \in 1 .. Len(sent) : end[i] = end[i - 1] + Size(sent[i])
    /\ end[Len(sent)] = end[handled] + buffer + stream

LEMMA BytesByEnds ==
  /\ BytesInv <=> (peer = "open" => \E end \in [Nat -> Nat] : Ends(end))
  /\ BytesInv' <=> (peer' = "open" => \E end \in [Nat -> Nat] : Ends(end)')
BY DEF BytesInv, Ends

LEMMA BytesStep == TypeOK /\ BytesInv /\ [Next]_vars => BytesInv'
<1>. SUFFICES ASSUME TypeOK, BytesInv, [Next]_vars, peer' = "open" PROVE BytesInv'
  BY BytesByEnds
<1>0. /\ sent \in Seq(Message) /\ stream \in Nat /\ buffer \in Nat
      /\ handled \in 0 .. Len(sent) /\ Len(sent) \in Nat
  BY Grouped DEF NetTypes, ReadTypes
<1>00. stream \in Nat /\ buffer \in Nat
  BY <1>0
<1>1. CASE \E m \in Message : PeerSend(m)
  <2>1. PICK m \in Message : PeerSend(m)
    BY <1>1
  <2>2. peer = "open" /\ stream' = stream + Size(m) /\ UNCHANGED <<buffer, handled>>
    BY <2>1 DEF PeerSend, readVars
  <2>3. PICK end \in [Nat -> Nat] : Ends(end)
    BY <2>2, BytesByEnds
  <2>. DEFINE n == Len(sent)
  <2>. HIDE DEF n
  <2>4. /\ Size(m) \in Nat /\ n \in Nat /\ n + 1 \in Nat /\ end[n] \in Nat
        /\ end[n] + Size(m) \in Nat
    <3>1. Size(m) \in Nat /\ n \in Nat
      BY <1>0, MessageFields DEF n
    <3>2. end[n] \in Nat
      BY <3>1
    <3>. QED BY <3>1, <3>2
  <2>5. PICK longer \in [Nat -> Nat] : longer = [end EXCEPT ![n + 1] = end[n] + Size(m)]
    BY <2>4
  <2>6. longer[n + 1] = end[n] + Size(m) /\ \A i \in 0 .. n : longer[i] = end[i]
    BY <2>4, <2>5
  <2>7. Len(sent') = n + 1 /\ sent'[n + 1] = m /\ \A i \in 1 .. n : sent'[i] = sent[i]
    BY <2>1, SentKept DEF n
  <2>8. ASSUME NEW i \in 1 .. n + 1 PROVE longer[i] = longer[i - 1] + Size(sent'[i])
    <3>1. CASE i \in 1 .. n
      <4>1. i \in 0 .. n /\ i - 1 \in 0 .. n
        BY <2>4, <3>1
      <4>2. end[i] = end[i - 1] + Size(sent[i])
        BY <2>3, <3>1 DEF Ends, n
      <4>. QED BY <2>6, <2>7, <3>1, <4>1, <4>2
    <3>2. CASE i = n + 1
      <4>1. i - 1 = n /\ n \in 0 .. n
        BY <2>4, <3>2
      <4>. QED BY <2>6, <2>7, <3>2, <4>1
    <3>. QED BY <2>4, <3>1, <3>2
  <2>9. longer[n + 1] = longer[handled] + buffer + stream'
    <3>1. longer[handled] = end[handled] /\ end[handled] \in Nat
      BY <1>0, <2>6 DEF n
    <3>2. end[n] = end[handled] + buffer + stream
      BY <2>3 DEF Ends, n
    <3>3. longer[n + 1] = end[n] + Size(m) /\ stream' = stream + Size(m)
      BY <2>2, <2>6
    <3>. QED BY ONLY <1>00, <2>4, <3>1, <3>2, <3>3
  <2>10. Ends(longer)'
    <3>1. Ends(longer)' <=> /\ \A i \in 1 .. Len(sent') : longer[i] = longer[i - 1] + Size(sent'[i])
                            /\ longer[Len(sent')] = longer[handled'] + buffer' + stream'
      BY DEF Ends, Size
    <3>. QED BY <2>2, <2>7, <2>8, <2>9, <3>1
  <2>. QED BY <2>10, BytesByEnds
<1>2. CASE UNCHANGED <<sent, stream, peer, buffer, handled>>
  <2>1. PICK end \in [Nat -> Nat] : Ends(end)
    BY <1>2, BytesByEnds
  <2>2. Ends(end)'
    BY <1>2, <2>1 DEF Ends, Size
  <2>. QED BY <2>2, BytesByEnds
<1>3. CASE ReadChunk
  <2>1. PICK n \in 1 .. stream : stream' = stream - n /\ buffer' = buffer + n
    BY <1>3 DEF ReadChunk
  <2>2. UNCHANGED <<sent, peer, handled>>
    BY <1>3 DEF ReadChunk
  <2>3. PICK end \in [Nat -> Nat] : Ends(end)
    BY <2>2, BytesByEnds
  <2>4. end[handled] \in Nat
    BY <1>0
  <2>5. end[Len(sent)] = end[handled] + buffer' + stream'
    <3>1. end[Len(sent)] = end[handled] + buffer + stream
      BY <2>3 DEF Ends
    <3>2. end[handled] + buffer + stream = end[handled] + buffer' + stream'
      <4>1. end[handled] + buffer + stream = end[handled] + (buffer + n) + (stream - n)
        BY <1>00, <2>4
      <4>. QED BY <2>1, <4>1
    <3>. QED BY <3>1, <3>2
  <2>6. Ends(end)'
    BY <2>2, <2>3, <2>5 DEF Ends, Size
  <2>. QED BY <2>6, BytesByEnds
<1>4. CASE Consume
  <2>1. /\ handled < Len(sent) /\ handled' = handled + 1 /\ UNCHANGED <<sent, stream, peer>>
        /\ buffer' = buffer - Size(sent[handled + 1]) /\ buffer >= Size(sent[handled + 1])
        /\ sent[handled + 1] \in Message
    BY <1>4, ConsumeShape DEF netVars
  <2>2. PICK end \in [Nat -> Nat] : Ends(end)
    BY <2>1, BytesByEnds
  <2>3. Size(sent[handled + 1]) \in Nat
    BY <2>1, MessageFields
  <2>4. end[handled + 1] = end[handled] + Size(sent[handled + 1])
    <3>1. PICK i \in 1 .. Len(sent) : i = handled + 1
      BY <1>0, <2>1
    <3>2. i - 1 = handled
      BY <1>0, <3>1
    <3>3. end[i] = end[i - 1] + Size(sent[i])
      BY <2>2 DEF Ends
    <3>. QED BY <3>1, <3>2, <3>3
  <2>5. end[handled] \in Nat
    BY <1>0
  <2>6. end[Len(sent)] = end[handled'] + buffer' + stream'
    BY <1>0, <2>1, <2>2, <2>3, <2>4, <2>5 DEF Ends
  <2>7. Ends(end)'
    BY <2>1, <2>2, <2>6 DEF Ends, Size
  <2>. QED BY <2>7, BytesByEnds
<1>5. ASSUME NEW how \in {"eof", "reset"}, PeerGone(how) PROVE FALSE
  BY <1>5 DEF PeerGone
<1>6. CASE DispatchSessionStart \/ DispatchMessage \/ DispatchSessionEnd
  BY <1>2, <1>6 DEF DispatchSessionStart, DispatchMessage, DispatchSessionEnd, netVars, readVars
<1>7. CASE PluginEscapes \/ ReadEof \/ ReadReset \/ ConsumeNothing
  BY <1>2, <1>7 DEF PluginEscapes, ReadEof, ReadReset, ConsumeNothing, netVars, readVars
<1>8. CASE UNCHANGED vars
  BY <1>2, <1>8 DEF vars, netVars, readVars
<1>. QED BY <1>1, <1>3, <1>4, <1>5, <1>6, <1>7, <1>8, NextShape

Torn == buffer < Size(sent[handled + 1])

LEMMA WaitsStep ==
  TypeOK /\ PlaceInv /\ BytesInv /\ NothingWholeWaits /\ [Next]_vars => NothingWholeWaits'
<1>. SUFFICES ASSUME TypeOK, PlaceInv, BytesInv, NothingWholeWaits, [Next]_vars,
                     pc' = "read", handled' # Len(sent')
              PROVE  Torn'
  BY DEF NothingWholeWaits, Torn
<1>0. /\ sent \in Seq(Message) /\ stream \in Nat /\ buffer \in Nat
      /\ handled \in 0 .. Len(sent) /\ Len(sent) \in Nat /\ plugin \in Plugins
  BY Grouped DEF NetTypes, ReadTypes, RunTypes
<1>1. ASSUME handled < Len(sent)
      PROVE  Size(sent[handled + 1]) \in Nat /\ Size(sent[handled + 1]) > HeaderSize
  BY <1>1, NextMessage, MessageFields
<1>2. HeaderSize \in Nat /\ HeaderSize > 0
  BY ServerAssumption
<1>3. ASSUME NEW m \in Message, PeerSend(m) PROVE Torn'
  <2>1. UNCHANGED <<pc, buffer, handled>> /\ peer = "open"
    BY <1>3 DEF PeerSend, readVars
  <2>2. /\ \A i \in 1 .. Len(sent) : sent'[i] = sent[i]
        /\ sent'[Len(sent) + 1] = m
    BY <1>3, SentKept
  <2>3. CASE handled = Len(sent)
    <3>1. PICK end \in [Nat -> Nat] : Ends(end)
      BY <2>1, BytesByEnds
    <3>2. end[handled] = end[handled] + buffer + stream /\ end[handled] \in Nat
      BY <1>0, <2>3, <3>1 DEF Ends
    <3>3. buffer = 0
      BY <1>0, <3>2
    <3>4. Size(m) \in Nat /\ Size(m) > HeaderSize
      BY MessageFields
    <3>5. Size(sent'[handled' + 1]) = Size(m)
      BY <2>1, <2>2, <2>3 DEF Size
    <3>. QED BY <1>2, <2>1, <3>3, <3>4, <3>5 DEF Torn
  <2>4. CASE handled # Len(sent)
    <3>1. handled < Len(sent) /\ handled + 1 \in 1 .. Len(sent)
      BY <1>0, <2>4
    <3>2. Size(sent'[handled' + 1]) = Size(sent[handled + 1])
      BY <2>1, <2>2, <3>1 DEF Size
    <3>3. Torn
      BY <2>1, <2>4 DEF NothingWholeWaits, Torn
    <3>. QED BY <2>1, <3>2, <3>3 DEF Torn
  <2>. QED BY <2>3, <2>4
<1>4. ASSUME UNCHANGED <<sent, buffer, handled>>, Torn
      PROVE  Torn'
  BY <1>4 DEF Torn, Size
<1>5. ASSUME UNCHANGED <<sent, buffer, handled, pc>> PROVE Torn'
  BY <1>4, <1>5 DEF NothingWholeWaits, Torn
<1>6. CASE DispatchSessionStart
  <2>1. UNCHANGED <<sent, buffer, handled>> /\ handled = 0 /\ buffer = 0
    BY <1>0, <1>6, StartShape DEF netVars, readVars, PlaceInv
  <2>2. handled < Len(sent)
    BY <1>0, <2>1
  <2>3. Torn
    BY <1>1, <1>2, <2>1, <2>2 DEF Torn
  <2>. QED BY <1>4, <2>1, <2>3
<1>7. CASE ConsumeNothing
  <2>1. UNCHANGED <<sent, buffer, handled>> /\ ~HasMessage
    BY <1>7 DEF ConsumeNothing, netVars, readVars
  <2>2. handled < Len(sent)
    BY <1>0, <2>1
  <2>3. ~(buffer >= HeaderSize) \/ ~(buffer >= Size(sent[handled + 1]))
    BY <2>1, <2>2 DEF HasMessage
  <2>4. Torn
    BY <1>0, <1>1, <1>2, <2>2, <2>3 DEF Torn
  <2>. QED BY <1>4, <2>1, <2>4
<1>8. ~(DispatchMessage \/ DispatchSessionEnd)
  <2>1. ASSUME DispatchMessage PROVE FALSE
    <3>1. pc = "dispatch" /\ Dispatched("consume")
      BY <2>1 DEF DispatchMessage
    <3>. QED BY <1>0, <3>1, DispatchedShape
  <2>2. ASSUME DispatchSessionEnd PROVE FALSE
    BY <1>0, <2>2, EndShape, DispatchedShape
  <2>. QED BY <2>1, <2>2
<1>9. ~(PluginEscapes \/ ReadChunk \/ ReadEof \/ ReadReset)
  BY DEF PluginEscapes, ReadChunk, ReadEof, ReadReset, StopsOnEof, Finally
<1>10. ~Consume
  BY ConsumeShape DEF Finally
<1>11. CASE (\E how \in {"eof", "reset"} : PeerGone(how)) \/ UNCHANGED vars
  BY <1>5, <1>11 DEF PeerGone, vars, netVars, readVars
<1>. QED BY <1>3, <1>6, <1>7, <1>8, <1>9, <1>10, <1>11, NextShape

-----------------------------------------------------------------------------
LEMMA InitIInv == Init => IInv
<1>. SUFFICES ASSUME Init PROVE IInv
  OBVIOUS
<1>1. TypeOK
  BY InitTypes
<1>2. PlaceInv /\ MetaInv /\ NothingWholeWaits
  BY DEF Init, PlaceInv, MetaInv, NothingWholeWaits, Recorder
<1>3. SeenInv
  BY DEF Init, SeenInv, Given, Plugins, External
<1>4. CountInv
  BY NoChunks DEF Init, CountInv
<1>5. RecorderInv
  BY DEF Init, RecorderInv, Recorder
<1>6. BytesInv
  <2>1. PICK end \in [Nat -> Nat] : \A i \in Nat : end[i] = 0
    <3>1. [i \in Nat |-> 0] \in [Nat -> Nat]
      OBVIOUS
    <3>. QED BY <3>1
  <2>2. Ends(end)
    BY <2>1 DEF Init, Ends
  <2>. QED BY <2>2, BytesByEnds
<1>. QED BY <1>1, <1>2, <1>3, <1>4, <1>5, <1>6 DEF IInv

LEMMA IInvStep == IInv /\ [Next]_vars => IInv'
BY TypeStep, PlaceStep, SeenStep, CountStep, RecorderStep, MetaStep, BytesStep, WaitsStep
   DEF IInv

LEMMA Inductive == Spec => []IInv
<1>1. Init => IInv
  BY InitIInv
<1>2. IInv /\ [Next]_vars => IInv'
  BY IInvStep
<1>. QED BY <1>1, <1>2, PTL DEF Spec

-----------------------------------------------------------------------------
(* Every variable keeps its type: in particular run's buffer (ingest.py)   *)
(* never becomes negative and no message is handled that was not sent.     *)
THEOREM IngestTypeCorrect == Spec => []TypeOK
<1>1. IInv => TypeOK
  BY DEF IInv
<1>. QED BY <1>1, Inductive, PTL

(* As long as no write failed, every line of frames.jsonl names exactly    *)
(* the bytes of its own frame in video.h264, whatever configs came in      *)
(* between (RecorderPlugin.on_video_config, on_video_chunk).               *)
THEOREM IndexNamesItsFrames == Spec => []IndexMatchesVideo
<1>1. IInv => IndexMatchesVideo
  <2>. SUFFICES ASSUME RecorderInv, disk_faults = 0 PROVE IndexIsRight
    BY DEF IInv, IndexMatchesVideo
  <2>1. CASE pc = "start" /\ plugin = Recorder
    BY <2>1 DEF RecorderInv, IndexIsRight
  <2>2. CASE ~(pc = "start" /\ plugin = Recorder)
    BY <2>2 DEF RecorderInv
  <2>. QED BY <2>1, <2>2
<1>. QED BY <1>1, Inductive, PTL

(* A plugin that raises costs no other plugin a message: between messages  *)
(* all were given the same, and Stats has counted every chunk              *)
(* (PluginManager._call_safely).                                           *)
THEOREM PluginsAreIsolated == Spec => []PluginsIsolated
<1>1. IInv => PluginsIsolated
  <2>. SUFFICES ASSUME IInv, pc \in {"read", "consume"}
                PROVE  /\ \A p, q \in Plugins : seen[p] = seen[q]
                       /\ session.frame_count =
                             Cardinality({i \in 1 .. handled : sent[i].kind = "chunk"})
    BY DEF PluginsIsolated
  <2>1. \A p \in Plugins : seen[p] = seen[External]
    BY DEF IInv, SeenInv, Given
  <2>2. session.frame_count = Cardinality(Chunks(handled))
    BY DEF IInv, CountInv
  <2>. QED BY <2>1, <2>2 DEF Chunks
<1>. QED BY <1>1, Inductive, PTL

(* The last meta.json of a recording without failed writes is the final    *)
(* state of the session, ended_at included (ClientSession.run sets it      *)
(* before RecorderPlugin.on_session_end writes the file).                  *)
THEOREM FinalMetaIsTheSession == Spec => []MetaIsFinal
<1>1. IInv => MetaIsFinal
  BY DEF IInv, MetaInv, MetaIsFinal
<1>. QED BY <1>1, Inductive, PTL

(* run awaits the network only when its buffer holds no whole message,     *)
(* however the stream was cut (_consume drains it before the next read).   *)
THEOREM NoMessageWaitsInTheBuffer == Spec => []NothingWholeWaits
<1>1. IInv => NothingWholeWaits
  BY DEF IInv
<1>. QED BY <1>1, Inductive, PTL
=============================================================================
