------------------------------ MODULE EndToEnd ------------------------------
(***************************************************************************)
(* A streamed capture from end to end: the phone's StreamSink encodes,     *)
(* queues, spools and sends; TCP connections carry cells and break; the    *)
(* server opens a session per connection (ClientSession.run), cuts its     *)
(* stream into messages again and decodes them for the recorder.           *)
(*                                                                         *)
(* StreamSink.tla has the sender's every step; here one turn of its loop is*)
(* one action, and what it sends is followed to the other side.            *)
(***************************************************************************)
EXTENDS SpoolFile, FiniteSets, SequencesExt

CONSTANTS
    Script,             \* the messages of the capture that the sink keeps, in order
    Dropped,            \* messages between them that it drops for want of a file
    Config,             \* json and SPS/PPS of its VIDEO_CONFIG
    MaxMemoryCells,     \* max_memory_bytes_
    MaxConnections,     \* bound: connections the phone makes
    MaxBreaks           \* bound: connections that break

Bodies ==
    [type : {VideoChunk}, seq : Nat, timestamp : Nat, is_keyframe : BOOLEAN, nal : Seq(Nat)]
    \cup [type : {ImuBatch}, seq : Nat, samples : Seq(Nat)]
    \cup [type : {PoseSample}, seq : Nat, timestamp : Nat, tracking_state : Nat, pose : Seq(Nat)]
    \cup [type : {PointCloud}, seq : Nat, timestamp : Nat, points : Seq(Nat)]
    \cup [type : {CameraIntrinsics}, seq : Nat, intrinsics : Seq(Nat)]

ASSUME ScriptAssumption == Script \in Seq(Bodies)
ASSUME DroppedAssumption == Dropped \subseteq Bodies
ASSUME ConfigAssumption == Config \in [json : Seq(Nat), sps_pps : Seq(Nat)]
ASSUME CapAssumption == MaxMemoryCells \in Nat
ASSUME ConnectionBounds == MaxConnections \in Nat /\ MaxBreaks \in Nat

VARIABLES
    written,            \* how many messages of Script have been written
    config_cached,      \* cached_video_config_ is not empty
    memory_queue_,
    memory_bytes_,
    overflowing_,
    running_,
    sender,             \* sender_loop: "off" without a connection, "on", "done"
    config_sent,
    connections,        \* every connection so far with the server's session of it
    damage,             \* history: the first message cut short on disk, or 0
    breaks,             \* connections broken so far
    sent,               \* history: messages popped and not put back again
    first               \* history: what sent was when each connection was opened

phoneVars == <<written, config_cached, running_>>
memoryVars == <<memory_queue_, memory_bytes_>>
queueVars == <<memoryVars, overflowing_, spoolFileVars, damage>>
historyVars == <<sent, first>>
vars == <<phoneVars, queueVars, sender, config_sent, connections, breaks, historyVars>>

(* A connection: cells under way, whether it is cut, whether the phone has *)
(* closed it; the session's buffer and what its plugins have been given.   *)
NewConnection ==
    [flight |-> <<>>, cut |-> FALSE, closed |-> FALSE,
     live |-> TRUE, buffer |-> <<>>, recorded |-> <<>>]

Current == Len(connections)

Init ==
    /\ written = 0 /\ config_cached = FALSE /\ running_ = TRUE
    /\ memory_queue_ = <<>> /\ memory_bytes_ = 0 /\ overflowing_ = FALSE
    /\ SpoolFileInit
    /\ sender = "off" /\ config_sent = FALSE
    /\ connections = <<>>
    /\ damage = 0 /\ breaks = 0 /\ sent = 0 /\ first = <<>>

-----------------------------------------------------------------------------
(* The phone: the capture threads.                                         *)

(* write_chunk and the other write_*: the encoded message.                 *)
Encoded(b) ==
    CASE b.type = VideoChunk -> EncodeVideoChunk(b.seq, b.timestamp, b.is_keyframe, b.nal)
      [] b.type = ImuBatch -> EncodeImuBatch(b.seq, b.samples)
      [] b.type = PoseSample -> EncodePoseSample(b.seq, b.timestamp, b.tracking_state, b.pose)
      [] b.type = PointCloud -> EncodePointCloud(b.seq, b.timestamp, b.points)
      [] b.type = CameraIntrinsics -> EncodeCameraIntrinsics(b.seq, b.intrinsics)

EncodedConfig == EncodeVideoConfig(1, Config.json, Config.sps_pps)

(* No message is longer than its length field can say, or has a number or  *)
(* a count that its field would wrap; a pose and the intrinsics have all   *)
(* their fields.  Each type numbers its messages, from 1.                  *)
Fits(b) ==
    /\ b.seq < U32Values /\ Len(Encoded(b)) < HeaderSize + U32Values
    /\ b.type = ImuBatch => Len(b.samples) < U16Values
    /\ b.type = PointCloud => Len(b.points) < U32Values
    /\ b.type = PoseSample => Len(b.pose) = PoseSize
    /\ b.type = CameraIntrinsics => Len(b.intrinsics) = IntrinsicsSize
ASSUME ScriptFits == \A i \in DOMAIN Script : Fits(Script[i])
ASSUME ConfigFits ==
    Len(EncodedConfig) < HeaderSize + U32Values /\ Len(Config.json) < U16Values
ASSUME NumberingAssumption ==
    \A i, j \in DOMAIN Script :
        Script[i].type = Script[j].type /\ Script[i].seq = Script[j].seq => i = j

(* Faulty variant: memory is used again as soon as it has room.            *)
FitsPastSpool(message) == memory_bytes_ + Len(message) <= MaxMemoryCells
FitsInMemory(message) == ~overflowing_ /\ memory_bytes_ + Len(message) <= MaxMemoryCells

EnqueueMemory(message) ==
    /\ FitsInMemory(message)
    /\ memory_queue_' = Append(memory_queue_, message)
    /\ memory_bytes_' = memory_bytes_ + Len(message)
    /\ UNCHANGED <<overflowing_, spoolFileVars, damage>>

EnqueueSpool(message) ==
    /\ ~FitsInMemory(message)
    /\ overflowing_' = TRUE
    /\ \E n \in 0 .. Len(message) :
          /\ SpoolAppend(message, n)
          /\ damage' = IF n < Len(message) /\ damage = 0 THEN written + 1 ELSE damage
    /\ UNCHANGED memoryVars

(* The encoder's config comes before the first frame.                      *)
MayWrite(b) == running_ /\ (b.type = VideoChunk => config_cached)

Write ==
    /\ written < Len(Script) /\ MayWrite(Script[written + 1])
    /\ written' = written + 1
    /\ \/ EnqueueMemory(Encoded(Script[written + 1]))
       \/ EnqueueSpool(Encoded(Script[written + 1]))
    /\ UNCHANGED <<config_cached, running_, sender, config_sent, connections, breaks,
                   historyVars>>

(* The message is lost at enqueue; overflow mode stays, and the next       *)
(* message's call tries to open the file again.                            *)
WriteDropped ==
    /\ \E b \in Dropped : MayWrite(b) /\ ~FitsInMemory(Encoded(b))
    /\ overflowing_' = TRUE
    /\ SpoolRefused
    /\ UNCHANGED <<phoneVars, memoryVars, damage, sender, config_sent, connections, breaks,
                   historyVars>>

WriteVideoConfig ==
    /\ running_ /\ ~config_cached
    /\ config_cached' = TRUE
    /\ UNCHANGED <<written, running_, queueVars, sender, config_sent, connections, breaks,
                   historyVars>>

Close ==
    /\ running_ /\ running_' = FALSE
    /\ UNCHANGED <<written, config_cached, queueVars, sender, config_sent, connections, breaks,
                   historyVars>>

-----------------------------------------------------------------------------
(* The phone: turns of sender_loop.                                        *)

HasQueuedData == memory_queue_ # <<>> \/ overflowing_

Connect ==
    /\ sender = "off" /\ running_
    /\ Current < MaxConnections
    /\ connections' = Append(connections, NewConnection)
    /\ first' = Append(first, sent)
    /\ sender' = "on" /\ config_sent' = FALSE
    /\ UNCHANGED <<phoneVars, queueVars, breaks, sent>>

(* pop_next_to_send: from memory, then from disk.                          *)
HasNext == memory_queue_ # <<>> \/ (overflowing_ /\ SpoolReadable)
NextToSend == IF memory_queue_ # <<>> THEN Head(memory_queue_) ELSE SpoolMessage

PopMemory ==
    /\ memory_queue_ # <<>>
    /\ UNCHANGED <<overflowing_, spoolFileVars, damage>>

PopSpool ==
    /\ memory_queue_ = <<>> /\ overflowing_
    /\ SpoolPop
    /\ overflowing_' = spool_write_file_'
    /\ UNCHANGED damage

PopShort ==
    /\ sender = "on" /\ (config_cached => config_sent)
    /\ memory_queue_ = <<>> /\ overflowing_
    /\ SpoolPopShort
    /\ UNCHANGED <<phoneVars, memoryVars, overflowing_, damage, sender, config_sent,
                   connections, breaks, historyVars>>

(* Every cell is taken by the socket.  On a connection that is cut they    *)
(* may be taken too, and go nowhere.                                       *)
SendAll(cells) ==
    connections' = IF connections[Current].cut THEN connections
                   ELSE [connections EXCEPT ![Current].flight = @ \o cells]

SendConfig ==
    /\ sender = "on" /\ config_cached /\ ~config_sent
    /\ SendAll(EncodedConfig)
    /\ config_sent' = TRUE
    /\ UNCHANGED <<phoneVars, queueVars, sender, breaks, historyVars>>

(* What is popped goes out, and is forgotten.                              *)
SendNext ==
    /\ sender = "on" /\ (config_cached => config_sent) /\ HasNext
    /\ SendAll(NextToSend)
    /\ PopMemory \/ PopSpool
    /\ memory_queue_' = IF memory_queue_ = <<>> THEN <<>> ELSE Tail(memory_queue_)
    /\ memory_bytes_' = IF memory_queue_ = <<>> THEN memory_bytes_
                        ELSE memory_bytes_ - Len(NextToSend)
    /\ sent' = sent + 1
    /\ UNCHANGED <<phoneVars, sender, config_sent, breaks, first>>

(* Faulty variant: the message had not been taken out of the queue.        *)
SentAgainTwice(message) == <<message, message>>
(* requeue_front: the message, from its first byte.                        *)
SentAgain(message) == <<message>>

Requeue ==
    LET again == SentAgain(NextToSend) IN
    /\ PopMemory \/ PopSpool
    /\ memory_queue_' = again \o (IF memory_queue_ = <<>> THEN <<>> ELSE Tail(memory_queue_))
    /\ memory_bytes_' = memory_bytes_ + IF memory_queue_ = <<>> THEN Len(NextToSend) ELSE 0

(* The connection is cut: a part of what was under way arrives.            *)
CutOff(flight) ==
    /\ ~connections[Current].cut
    /\ breaks < MaxBreaks /\ breaks' = breaks + 1
    /\ \E n \in 0 .. Len(flight) :
          connections' = [connections EXCEPT ![Current].cut = TRUE,
                                             ![Current].flight = SubSeq(flight, 1, n)]

(* send_all fails after the socket took a part; the message is put back.   *)
(* The config is simply sent again on the next connection.                 *)
SendFails ==
    /\ sender = "on"
    /\ LET config_due == config_cached /\ ~config_sent
           cells == IF config_due THEN EncodedConfig ELSE NextToSend
       IN /\ config_due \/ HasNext
          /\ IF config_due THEN UNCHANGED queueVars ELSE Requeue
          /\ \/ connections[Current].cut /\ UNCHANGED <<connections, breaks>>
             \/ \E k \in 0 .. Len(cells) - 1 :
                   CutOff(connections[Current].flight \o SubSeq(cells, 1, k))
    /\ sender' = "off"
    /\ UNCHANGED <<phoneVars, config_sent, historyVars>>

(* The loop is left on shutdown, at the latest when the deadline passes:   *)
(* what the socket has taken still goes out.                               *)
Exit ==
    /\ sender # "done" /\ ~running_
    /\ sender' = "done"
    /\ connections' = IF sender = "on" THEN [connections EXCEPT ![Current].closed = TRUE]
                      ELSE connections
    /\ UNCHANGED <<phoneVars, queueVars, config_sent, breaks, historyVars>>

-----------------------------------------------------------------------------
(* The network: between two sends.                                         *)

Break ==
    /\ connections # <<>> /\ CutOff(connections[Current].flight)
    /\ UNCHANGED <<phoneVars, queueVars, sender, config_sent, historyVars>>

-----------------------------------------------------------------------------
(* The server: ClientSession.run for one connection.                       *)

(* reader.read gives what has arrived: all of it.  IngestServer.tla cuts a *)
(* stream into reads in every way.                                         *)
Read(c) ==
    /\ connections[c].live /\ ~HasMessage(connections[c].buffer)
    /\ connections[c].flight # <<>>
    /\ connections' = [connections EXCEPT ![c].buffer = @ \o connections[c].flight,
                                          ![c].flight = <<>>]
    /\ UNCHANGED <<phoneVars, queueVars, sender, config_sent, breaks, historyVars>>

(* json.loads takes nothing but the json that was sent.                    *)
Decoded(m) == {body \in Decode(m) : m.type = VideoConfig => body.json = Config.json}

(* _consume: the message goes to its dispatcher; an unknown one is skipped.*)
Handle(c) ==
    LET m == NextMessage(connections[c].buffer) IN
    /\ connections[c].live /\ HasMessage(connections[c].buffer)
    /\ \/ /\ m.type \in Known
          /\ \E body \in Decoded(m) :
                connections' = [connections EXCEPT
                    ![c].buffer = AfterMessage(@),
                    ![c].recorded = Append(@, [type |-> m.type, seq |-> m.seq, body |-> body])]
       \/ /\ m.type \notin Known
          /\ connections' = [connections EXCEPT ![c].buffer = AfterMessage(@)]
       \/ /\ m.type \in Known /\ Decoded(m) = {}
          /\ connections' = [connections EXCEPT ![c].live = FALSE, ![c].cut = TRUE,
                                                ![c].flight = <<>>]
    /\ UNCHANGED <<phoneVars, queueVars, sender, config_sent, breaks, historyVars>>

(* The end of the stream, or a reset.  A phone that vanished may never be  *)
(* noticed, and its session stay live beside the next one.                 *)
EndSession(c) ==
    /\ connections[c].live /\ connections[c].flight = <<>>
    /\ ~HasMessage(connections[c].buffer)
    /\ connections[c].cut \/ connections[c].closed
    /\ connections' = [connections EXCEPT ![c].live = FALSE]
    /\ UNCHANGED <<phoneVars, queueVars, sender, config_sent, breaks, historyVars>>

-----------------------------------------------------------------------------
Terminated ==
    /\ sender = "done" /\ \A c \in DOMAIN connections : ~connections[c].live
    /\ UNCHANGED vars

Capture == Write \/ WriteDropped \/ WriteVideoConfig \/ Close
Sender == Connect \/ SendConfig \/ SendNext \/ SendFails \/ PopShort \/ Exit
Session(c) == Read(c) \/ Handle(c) \/ EndSession(c)
Sessions == \E c \in DOMAIN connections : Session(c)

Next == Capture \/ Sender \/ Break \/ Sessions \/ Terminated

Spec == Init /\ [][Next]_vars

(* The sender thread is scheduled, and so is the server's event loop.      *)
FairSpec == Spec /\ WF_vars(Sender)
                 /\ \A c \in 1 .. MaxConnections :
                       WF_vars(c \in DOMAIN connections /\ (Read(c) \/ Handle(c)))

-----------------------------------------------------------------------------
(* Properties.                                                             *)

(* Which message of the capture a record is, 0 if none: it has the type,   *)
(* the number and every field that was written.                            *)
Same(m, b) ==
    m.type = b.type /\ m.seq = b.seq /\ \A field \in DOMAIN m.body : m.body[field] = b[field]
IndexOf(m) ==
    IF \E i \in DOMAIN Script : Same(m, Script[i])
    THEN CHOOSE i \in DOMAIN Script : Same(m, Script[i])
    ELSE 0

(* The messages of the capture a session has recorded, config left out.    *)
Data(m) == IF m.type = VideoConfig THEN <<>> ELSE <<IndexOf(m)>>
RecordedBy(c) ==
    LET recorded == connections[c].recorded
    IN FlattenSeq([k \in DOMAIN recorded |-> Data(recorded[k])])
Recorded == FlattenSeq([c \in DOMAIN connections |-> RecordedBy(c)])

(* What the phone still has, and the messages of the capture after the     *)
(* f-th, up to the w-th, as cells.                                         *)
Pending == FlattenSeq(memory_queue_) \o unread
Cells(f, w) == FlattenSeq([i \in 1 .. w - f |-> Encoded(Script[f + i])])

(* No message that the disk has cut short, or that was read behind one, has*)
(* gone out.                                                               *)
Sound == damage = 0 \/ sent < damage

Arrived(c) == connections[c].flight = <<>> /\ ~HasMessage(connections[c].buffer)

(* Types of the phone's state and of each connection's session; the spool  *)
(* has a file as long as its positions say that something is unread, and   *)
(* only in overflow mode, which has none only where the disk refused one.  *)
TypeOK ==
    /\ written \in 0 .. Len(Script)
    /\ config_cached \in BOOLEAN /\ running_ \in BOOLEAN /\ config_sent \in BOOLEAN
    /\ memory_queue_ \in Seq(Seq(Nat)) /\ memory_bytes_ \in Nat
    /\ overflowing_ \in BOOLEAN /\ unread \in Seq(Nat)
    /\ spool_write_file_ \in BOOLEAN /\ spool_read_file_ \in BOOLEAN
    /\ at_eof \in BOOLEAN /\ (at_eof => damage # 0)
    /\ spool_read_pos_ \in Nat /\ spool_write_pos_ \in Nat
    /\ spool_read_file_ => spool_write_file_
    /\ spool_write_file_ = (spool_read_pos_ < spool_write_pos_)
    /\ spool_write_file_ => overflowing_
    /\ overflowing_ /\ ~(spool_write_file_ /\ spool_read_file_) => refusals > 0
    /\ sender \in {"off", "on", "done"}
    /\ damage \in 0 .. written /\ breaks \in 0 .. MaxBreaks
    /\ sent \in Nat /\ first \in Seq(Nat) /\ Len(first) = Len(connections)
    /\ \A c \in DOMAIN connections :
          /\ connections[c].flight \in Seq(Nat) /\ connections[c].buffer \in Seq(Nat)
          /\ \A k \in DOMAIN connections[c].recorded :
                connections[c].recorded[k].type \in Known

(* The queue is the rest of what the sink has kept, message by message and *)
(* cell by cell, in memory and then in the file, through requeues, reopened*)
(* spools and refused ones: a message dropped for want of a file leaves    *)
(* nothing behind.  The two positions say how much of it is in the file,   *)
(* and the memory counter, kept by hand in four places, how much is not.   *)
(* When the disk has cut a message short, all queued before it is whole.   *)
QueueIsTheRest ==
    /\ memory_bytes_ = Len(FlattenSeq(memory_queue_))
    /\ IF damage = 0
       THEN /\ sent <= written /\ Pending = Cells(sent, written)
            /\ spool_write_pos_ - spool_read_pos_ = Len(unread)
            /\ spool_write_file_ = (unread # <<>>)
       ELSE sent < damage - 1 => IsPrefix(Cells(sent, damage - 1), Pending)

(* Over all sessions the server records what the sink kept, nothing else,  *)
(* in its order and nothing twice: a message that a broken send put back   *)
(* was not whole on the other side, also when two sessions of one phone    *)
(* live at once.  No session is stopped by a message it cannot decode.     *)
RecordedAsWritten ==
    Sound =>
        /\ LET recorded == Recorded IN
           /\ \A i \in DOMAIN recorded : recorded[i] > 0
           /\ \A i, j \in DOMAIN recorded : i < j => recorded[i] < recorded[j]
        /\ Cardinality({c \in DOMAIN connections : connections[c].cut}) = breaks

(* Of what the sink has kept, messages are missing only where a connection *)
(* was cut: inside a session there is no gap, and an uncut connection has  *)
(* brought everything sent.  The messages the sink itself drops, with a    *)
(* spool that the disk refuses to open, are the only others it loses.      *)
LossOnlyAtDrops ==
    Sound =>
        /\ \A c \in DOMAIN connections :
              LET recorded == RecordedBy(c) IN
              \A k \in 2 .. Len(recorded) : recorded[k] = recorded[k - 1] + 1
        /\ breaks = 0 /\ connections # <<>> /\ Arrived(Current) =>
              LET recorded == Recorded IN
              Len(recorded) = sent /\ \A k \in DOMAIN recorded : recorded[k] = k

(* A write that the disk cut short spoils nothing that was kept before it, *)
(* neither in the queue nor under way, whatever is sent afterwards: of what*)
(* the sink kept before it a session records exactly the messages from     *)
(* where its connection began, first of all and in order, and no session   *)
(* records one that a later connection began with.                         *)
DamageIsLocal ==
    damage # 0 =>
        \A c \in DOMAIN connections :
            LET recorded == RecordedBy(c) IN
            /\ \A k \in DOMAIN recorded : first[c] + k < damage => recorded[k] = first[c] + k
            /\ \A d \in c + 1 .. Current :
                  first[d] < damage => first[c] + Len(recorded) <= first[d]

(* Once breaks stop, what the sink of a running phone has kept is all sent,*)
(* and the session of the connection that is left takes the last cell of   *)
(* it: the stream does not lose its place.  That is so whatever the disk   *)
(* refused, but for a spool that it opened for writing only: such a spool  *)
(* is never read, and overflow mode never ends.                            *)
EverythingArrives ==
    <>[](\/ ~running_ \/ damage # 0
         \/ spool_write_file_ /\ ~spool_read_file_
         \/ /\ sent = written /\ connections # <<>>
            /\ ~connections[Current].cut =>
                  connections[Current].flight = <<>> /\ connections[Current].buffer = <<>>)

(* README.md and ROADMAP.md of a streamed capture whose connection drops:  *)
(* no loss.                                                                *)
NothingLost ==
    damage = 0 /\ running_ /\ connections # <<>> /\ Arrived(Current) /\ sent = written =>
        Len(Recorded) = written
=============================================================================
