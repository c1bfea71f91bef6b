----------------------------- MODULE StreamSink -----------------------------
(***************************************************************************)
(* src/mobile/native/src/sink/stream_sink.{h,cpp}: the phone's sender.     *)
(* The capture threads hand encoded messages to write_*; they go to a      *)
(* bounded memory queue and, once that is full, to a spool file.  One      *)
(* sender thread (sender_loop) connects, sends the cached VIDEO_CONFIG,    *)
(* and drains memory first, disk second, through a blocking TCP socket.    *)
(*                                                                         *)
(* Every section under mutex_ is one step; so is every socket call.  The   *)
(* threads interleave between them.  A message keeps its type, its         *)
(* per-type sequence number and its encoded size.                          *)
(***************************************************************************)
EXTENDS Integers, Sequences

CONSTANTS
    Kinds,              \* data message types this capture produces
    Sizes,              \* sizes of the encoded messages
    MaxMemoryBytes,     \* max_memory_bytes_
    SpoolOpenOutcomes,  \* what fopen(spool_path_) may give, see OpenSpool
    PeerStalls,         \* TRUE if the peer may stop reading without closing
    MaxMessages,        \* bound: messages written per kind
    MaxConfigs,         \* bound: calls of write_video_config
    MaxFaults           \* bound: failed connects and failed sends

AllKinds == {"video_chunk", "imu_batch", "pose_sample", "point_cloud",
             "camera_intrinsics"}

ASSUME KindsAssumption == Kinds \subseteq AllKinds
ASSUME SizesAssumption == Sizes \subseteq Nat \ {0}
ASSUME MaxMemoryBytesAssumption == MaxMemoryBytes \in Nat
ASSUME SpoolAssumption == /\ SpoolOpenOutcomes \subseteq {"both", "write_only", "neither"}
                          /\ SpoolOpenOutcomes # {}
ASSUME StallAssumption == PeerStalls \in BOOLEAN
ASSUME BoundsAssumption == /\ MaxMessages \in Nat
                           /\ MaxConfigs \in Nat
                           /\ MaxFaults \in Nat

VARIABLES
    seq_,                   \* the video_chunk_seq_, imu_batch_seq_, ... counters
    cached_video_config_,   \* seq of the cached VIDEO_CONFIG, 0 when empty
    memory_queue_,
    memory_bytes_,
    overflowing_,
    spool,                  \* messages between spool_read_pos_ and spool_write_pos_
    spool_write_file_,      \* is the FILE* non-null?
    spool_read_file_,
    running_,
    deadline_passed,        \* steady_clock::now() >= shutdown_deadline_
    pc,                     \* where sender_loop is
    shutting_down,          \* its locals
    connected,
    config_sent,            \* config_sent_to_current_connection
    config_copy,
    message,                \* <<m>> when a message is popped and not yet sent
    stalled,                \* the peer of this connection has stopped reading
    faults,                 \* failures so far, for MaxFaults
    wire,                   \* history: messages sent whole on this connection
    cached_at_connect,      \* history: was a VIDEO_CONFIG cached at connect?
    taken                   \* history: data messages sent, over all connections

queueVars  == <<memory_queue_, memory_bytes_, overflowing_>>
spoolVars  == <<spool, spool_write_file_, spool_read_file_>>
writerVars == <<seq_, cached_video_config_>>
closeVars  == <<running_, deadline_passed>>
netVars    == <<connected, stalled, faults, wire, cached_at_connect>>
localVars  == <<shutting_down, config_sent, config_copy>>
senderVars == <<pc, localVars, message, netVars, taken>>
vars == <<queueVars, spoolVars, writerVars, closeVars, senderVars>>

Message == [kind : Kinds, seq : Nat, size : Sizes]
ConfigMessages == [kind : {"video_config"}, seq : Nat, size : {1}]
ConfigMessage(v) == [kind |-> "video_config", seq |-> v, size |-> 1]

(* Everything accepted and not yet sent, in the order it will be sent.     *)
Pending == message \o memory_queue_ \o spool

-----------------------------------------------------------------------------
(* Faulty variant: counters from 0.                                        *)
FirstSeqZero == 0
FirstSeq == 1

(* The state open() leaves: queues cleared, spool file removed, counters   *)
(* at 1, the sender thread about to enter its loop.                        *)
Init ==
    /\ seq_ = [k \in Kinds |-> FirstSeq]
    /\ cached_video_config_ = 0
    /\ memory_queue_ = <<>> /\ memory_bytes_ = 0 /\ overflowing_ = FALSE
    /\ spool = <<>> /\ spool_write_file_ = FALSE /\ spool_read_file_ = FALSE
    /\ running_ = TRUE /\ deadline_passed = FALSE
    /\ pc = "top" /\ shutting_down = FALSE
    /\ config_sent = FALSE /\ config_copy = 0
    /\ message = <<>>
    /\ connected = FALSE /\ stalled = FALSE /\ faults = 0
    /\ wire = <<>> /\ cached_at_connect = FALSE
    /\ taken = <<>>

-----------------------------------------------------------------------------
(* The capture threads.  stop_capture joins them before close(), so they   *)
(* write only while running_.                                              *)

(* Faulty variant: tests the cap without the message.                      *)
FitsTooLate(m) == ~overflowing_ /\ memory_bytes_ <= MaxMemoryBytes
(* Faulty variant: memory is used again as soon as it has room.            *)
FitsPastSpool(m) == memory_bytes_ + m.size <= MaxMemoryBytes
FitsInMemory(m) == ~overflowing_ /\ memory_bytes_ + m.size <= MaxMemoryBytes

(* fopen "wb" then "rb", only when the write file is not open: both work,  *)
(* only the first does, or neither.                                        *)
OpenSpool ==
    IF spool_write_file_
    THEN UNCHANGED <<spool_write_file_, spool_read_file_>>
    ELSE \E outcome \in SpoolOpenOutcomes :
            /\ spool_write_file_' = (outcome # "neither")
            /\ spool_read_file_' = (outcome = "both")

EnqueueMemory(m) ==
    /\ FitsInMemory(m)
    /\ memory_queue_' = Append(memory_queue_, m)
    /\ memory_bytes_' = memory_bytes_ + m.size
    /\ UNCHANGED <<overflowing_, spoolVars>>

(* Faulty variant: tests the wrong FILE*.                                  *)
SpoolsIfReader == spool_read_file_'
SpoolsIfWriter == spool_write_file_'

(* Once overflowing_, everything goes to disk.  A message that finds no    *)
(* open file is dropped.                                                   *)
EnqueueSpool(m) ==
    /\ ~FitsInMemory(m)
    /\ overflowing_' = TRUE
    /\ OpenSpool
    /\ spool' = IF SpoolsIfWriter THEN Append(spool, m) ELSE spool
    /\ UNCHANGED <<memory_queue_, memory_bytes_>>

Enqueue(m) == EnqueueMemory(m) \/ EnqueueSpool(m)

(* write_chunk, write_imu_batch, write_pose_sample, write_point_cloud and  *)
(* write_camera_intrinsics: number the message, queue it.  MediaCodec      *)
(* delivers its codec config before the first coded frame.                 *)
Write(k, s) ==
    /\ running_
    /\ seq_[k] <= MaxMessages
    /\ k = "video_chunk" => cached_video_config_ # 0
    /\ seq_' = [seq_ EXCEPT ![k] = @ + 1]
    /\ Enqueue([kind |-> k, seq |-> seq_[k], size |-> s])
    /\ UNCHANGED <<cached_video_config_, closeVars, senderVars>>

(* Replaces the cached message; it never enters the queue.                 *)
WriteVideoConfig ==
    /\ running_
    /\ cached_video_config_ < MaxConfigs
    /\ cached_video_config_' = cached_video_config_ + 1
    /\ UNCHANGED <<seq_, queueVars, spoolVars, closeVars, senderVars>>

(* close(): set the deadline, clear running_, then join the sender.        *)
Close ==
    /\ running_
    /\ running_' = FALSE
    /\ UNCHANGED <<deadline_passed, writerVars, queueVars, spoolVars, senderVars>>

(* Five seconds after close().                                             *)
DeadlinePasses ==
    /\ ~running_ /\ ~deadline_passed
    /\ deadline_passed' = TRUE
    /\ UNCHANGED <<running_, writerVars, queueVars, spoolVars, senderVars>>

-----------------------------------------------------------------------------
(* sender_loop.                                                            *)

(* Faulty variant: forgets what is on disk.                                *)
HasQueuedMemory == memory_queue_ # <<>>
HasQueuedData == memory_queue_ # <<>> \/ overflowing_

(* Faulty variant: running_ is not atomic, its load leaves the loop.       *)
ShuttingDownHoisted == FALSE
ShuttingDown == ~running_

(* The head of the loop: the three ways to give up on shutdown.            *)
LoopTop ==
    /\ pc = "top"
    /\ shutting_down' = ShuttingDown
    /\ pc' = IF ShuttingDown /\ (~HasQueuedData \/ deadline_passed \/ ~connected)
             THEN "exit"
             ELSE IF connected THEN "config" ELSE "connect"
    /\ UNCHANGED <<config_sent, config_copy, message, netVars, taken,
                   writerVars, closeVars, queueVars, spoolVars>>

(* Faulty variant: the flag outlives the connection.                       *)
ConfigSentBefore == config_sent
ConfigSentToNew == FALSE

ConnectOk ==
    /\ pc = "connect"
    /\ connected' = TRUE /\ stalled' = FALSE
    /\ config_sent' = ConfigSentToNew
    /\ wire' = <<>> /\ cached_at_connect' = (cached_video_config_ # 0)
    /\ pc' = "config"
    /\ UNCHANGED <<shutting_down, config_copy, message, faults, taken,
                   writerVars, closeVars, queueVars, spoolVars>>

(* Timed out or refused: back off, then start over.                        *)
ConnectFail ==
    /\ pc = "connect"
    /\ faults < MaxFaults
    /\ faults' = faults + 1
    /\ pc' = "top"
    /\ UNCHANGED <<localVars, message, connected, stalled, wire,
                   cached_at_connect, taken, writerVars, closeVars, queueVars,
                   spoolVars>>

(* Faulty variant: the cache is only looked at when connecting.            *)
ConfigDueAtConnect == ~config_sent /\ cached_at_connect
ConfigDue == ~config_sent /\ cached_video_config_ # 0

(* Copies the cached VIDEO_CONFIG under the lock if this connection has    *)
(* not had one.                                                            *)
CheckConfig ==
    /\ pc = "config"
    /\ IF ConfigDue
       THEN pc' = "send_config" /\ config_copy' = cached_video_config_
       ELSE pc' = "pop" /\ UNCHANGED config_copy
    /\ UNCHANGED <<shutting_down, config_sent, message, netVars, taken,
                   writerVars, closeVars, queueVars, spoolVars>>

SendConfigOk ==
    /\ pc = "send_config" /\ ~stalled
    /\ wire' = Append(wire, ConfigMessage(config_copy))
    /\ config_sent' = TRUE /\ config_copy' = 0
    /\ pc' = "pop"
    /\ UNCHANGED <<shutting_down, message, connected, stalled, faults,
                   cached_at_connect, taken, writerVars, closeVars, queueVars,
                   spoolVars>>

(* A failed send_all closes the socket.                                    *)
Disconnect ==
    /\ faults < MaxFaults
    /\ faults' = faults + 1
    /\ connected' = FALSE
    /\ UNCHANGED <<stalled, wire, cached_at_connect>>

SendConfigFail ==
    /\ pc = "send_config" /\ ~stalled
    /\ Disconnect
    /\ config_copy' = 0
    /\ pc' = "top"
    /\ UNCHANGED <<shutting_down, config_sent, message, taken,
                   writerVars, closeVars, queueVars, spoolVars>>

(* pop_next_to_send: memory holds the older end of the queue.              *)
PopMemory ==
    /\ pc = "pop"
    /\ memory_queue_ # <<>>
    /\ message' = <<Head(memory_queue_)>>
    /\ memory_queue_' = Tail(memory_queue_)
    /\ memory_bytes_' = memory_bytes_ - Head(memory_queue_).size
    /\ pc' = "send"
    /\ UNCHANGED <<overflowing_, spoolVars, localVars, netVars, taken,
                   writerVars, closeVars>>

(* Faulty variant: misses the last message.                                *)
SpoolReadableShort == overflowing_ /\ spool_read_file_ /\ Len(spool) > 1
SpoolReadable == overflowing_ /\ spool_read_file_ /\ spool # <<>>

(* Faulty variant: overflow mode goes on.                                  *)
CloseSpoolOnly ==
    spool_write_file_' = FALSE /\ spool_read_file_' = FALSE /\ UNCHANGED overflowing_
(* Faulty variant: the write file stays open.                              *)
CloseReader ==
    overflowing_' = FALSE /\ spool_read_file_' = FALSE /\ UNCHANGED spool_write_file_
CloseSpool ==
    overflowing_' = FALSE /\ spool_write_file_' = FALSE /\ spool_read_file_' = FALSE

(* The last spooled message closes and removes the file and ends overflow. *)
PopSpool ==
    /\ pc = "pop"
    /\ memory_queue_ = <<>> /\ SpoolReadable
    /\ message' = <<Head(spool)>>
    /\ spool' = Tail(spool)
    /\ IF Tail(spool) = <<>>
       THEN CloseSpool
       ELSE UNCHANGED <<overflowing_, spool_write_file_, spool_read_file_>>
    /\ pc' = "send"
    /\ UNCHANGED <<memory_queue_, memory_bytes_, localVars, netVars, taken,
                   writerVars, closeVars>>

PopNothing ==
    /\ pc = "pop"
    /\ memory_queue_ = <<>> /\ ~SpoolReadable
    /\ pc' = IF shutting_down THEN "exit" ELSE "wait"
    /\ UNCHANGED <<localVars, message, netVars, taken, writerVars, closeVars,
                   queueVars, spoolVars>>

(* cv_.wait_for returns on a notify, spuriously, or after 500 ms.          *)
WaitReturns ==
    /\ pc = "wait"
    /\ pc' = "top"
    /\ UNCHANGED <<localVars, message, netVars, taken, writerVars, closeVars,
                   queueVars, spoolVars>>

SendOk ==
    /\ pc = "send" /\ ~stalled
    /\ wire' = wire \o message
    /\ taken' = taken \o message
    /\ message' = <<>>
    /\ pc' = "top"
    /\ UNCHANGED <<localVars, connected, stalled, faults, cached_at_connect,
                   writerVars, closeVars, queueVars, spoolVars>>

AfterSendFail == "requeue"

SendFail ==
    /\ pc = "send" /\ ~stalled
    /\ Disconnect
    /\ pc' = AfterSendFail
    /\ UNCHANGED <<localVars, message, taken, writerVars, closeVars, queueVars,
                   spoolVars>>

Requeue(queue, bytes) ==
    /\ pc = "requeue"
    /\ memory_queue_' = queue /\ memory_bytes_' = bytes
    /\ message' = <<>>
    /\ pc' = "top"
    /\ UNCHANGED <<overflowing_, spoolVars, localVars, netVars, taken,
                   writerVars, closeVars>>

(* Faulty variant: at the back.                                            *)
RequeueBack == Requeue(memory_queue_ \o message, memory_bytes_ + message[1].size)
(* requeue_front: no check of the memory bound.                            *)
RequeueFront == Requeue(message \o memory_queue_, memory_bytes_ + message[1].size)

(* The loop is left: disconnect, and close()'s join returns.               *)
Exit ==
    /\ pc = "exit"
    /\ connected' = FALSE
    /\ pc' = "done"
    /\ UNCHANGED <<localVars, message, stalled, faults, wire, cached_at_connect,
                   taken, writerVars, closeVars, queueVars, spoolVars>>

(* The peer's receive window stays full and its host stays reachable:      *)
(* ::send blocks.  There is no send timeout on the socket.                 *)
PeerStall ==
    /\ PeerStalls /\ connected /\ ~stalled
    /\ stalled' = TRUE
    /\ UNCHANGED <<pc, localVars, message, connected, faults, wire,
                   cached_at_connect, taken, writerVars, closeVars, queueVars,
                   spoolVars>>

Terminated == pc = "done" /\ UNCHANGED vars

-----------------------------------------------------------------------------
Writers == (\E k \in Kinds, s \in Sizes : Write(k, s)) \/ WriteVideoConfig

Sender ==
    \/ LoopTop \/ ConnectOk \/ ConnectFail
    \/ CheckConfig \/ SendConfigOk \/ SendConfigFail
    \/ PopMemory \/ PopSpool \/ PopNothing \/ WaitReturns
    \/ SendOk \/ SendFail \/ RequeueFront \/ Exit

Next == Writers \/ Close \/ DeadlinePasses \/ Sender \/ PeerStall \/ Terminated

Spec == Init /\ [][Next]_vars

(* The sender thread is scheduled, its waits end, and time passes.         *)
FairSpec == Spec /\ WF_vars(Sender) /\ WF_vars(DeadlinePasses)

-----------------------------------------------------------------------------
(* Properties.                                                             *)

(* The types of the sink's members and of the sender's locals; at most one *)
(* message is out of the queue.                                            *)
TypeOK ==
    /\ seq_ \in [Kinds -> Nat \ {0}]
    /\ cached_video_config_ \in Nat
    /\ memory_queue_ \in Seq(Message)
    /\ memory_bytes_ \in Int
    /\ overflowing_ \in BOOLEAN
    /\ spool \in Seq(Message)
    /\ spool_write_file_ \in BOOLEAN /\ spool_read_file_ \in BOOLEAN
    /\ running_ \in BOOLEAN /\ deadline_passed \in BOOLEAN
    /\ pc \in {"top", "connect", "config", "send_config", "pop", "send",
               "requeue", "wait", "exit", "done"}
    /\ shutting_down \in BOOLEAN /\ connected \in BOOLEAN
    /\ config_sent \in BOOLEAN /\ config_copy \in Nat
    /\ message \in Seq(Message) /\ Len(message) <= 1
    /\ stalled \in BOOLEAN /\ faults \in Nat
    /\ wire \in Seq(Message \cup ConfigMessages)
    /\ cached_at_connect \in BOOLEAN
    /\ taken \in Seq(Message)

(* Messages are on disk only in overflow mode and only behind an open      *)
(* write file; so a queue that is not overflowing_ may take a message into *)
(* memory without overtaking an older one (enqueue, pop_next_to_send).     *)
SpoolOnlyInOverflow ==
    /\ spool # <<>> => overflowing_ /\ spool_write_file_
    /\ spool_read_file_ => spool_write_file_
    /\ spool_write_file_ => overflowing_

(* With a working disk the sink overflows exactly while messages are on    *)
(* disk: the spool is read, drained and removed, and memory is used again. *)
OverflowIffSpooled ==
    /\ overflowing_ <=> spool # <<>>
    /\ overflowing_ <=> spool_read_file_

(* requeue_front ignores the cap, yet memory exceeds max_memory_bytes_ by  *)
(* at most the one message that was put back.                              *)
MemoryBounded ==
    /\ message # <<>> => memory_bytes_ <= MaxMemoryBytes
    /\ memory_queue_ # <<>> =>
         memory_bytes_ - Head(memory_queue_).size <= MaxMemoryBytes

(* PROTOCOL.md: seq grows per message type over one connection, through    *)
(* requeues, spooling and reconnections.  VIDEO_CONFIG goes out at most    *)
(* once per connection.                                                    *)
WireAscending ==
    \A i, j \in 1 .. Len(wire) :
        i < j /\ wire[i].kind = wire[j].kind => wire[i].seq < wire[j].seq

(* A connection opened when a VIDEO_CONFIG was cached starts with it, also *)
(* when the first thing to send is a message an earlier connection lost.   *)
ConfigFirstIfCached ==
    cached_at_connect /\ wire # <<>> => wire[1].kind = "video_config"

(* The stronger statement of the comment in sender_loop.                   *)
ConfigBeforeChunks ==
    \A i \in 1 .. Len(wire) :
        wire[i].kind = "video_chunk" => \E j \in 1 .. i : wire[j].kind = "video_config"

(* The sender leaves its loop with unsent messages only on shutdown, and   *)
(* then only when the deadline has passed or the connection is lost.       *)
GivesUpOnlyForCause ==
    [][pc # "exit" /\ pc' = "exit" =>
         /\ ~running_
         /\ Pending = <<>> \/ deadline_passed \/ ~connected]_vars

Fifo == INSTANCE FifoChannel WITH
            next <- seq_, queue <- Pending, delivered <- taken,
            MayLose <- SpoolOpenOutcomes # {"both"}

(* The sink is a FIFO channel over all types: nothing is lost, doubled or  *)
(* reordered between write_* and the socket.  With a disk that may refuse  *)
(* to open the spool, messages may be lost at write_*, nowhere else.       *)
FifoSpec == Fifo!Spec

(* The only message write_* drops is one that finds no spool file to go to.*)
LostOnlyWithoutSpool ==
    [][seq_' # seq_ /\ Pending' = Pending => ~spool_write_file_']_vars

(* Once failures stop, a running sink sends everything it has accepted.    *)
EventuallyDrained == Pending # <<>> ~> (Pending = <<>> \/ ~running_)

(* ... and settles on a connection that has had a VIDEO_CONFIG, if the     *)
(* encoder ever gave one.                                                  *)
SettlesConfigured ==
    \/ <>~running_
    \/ [](cached_video_config_ = 0)
    \/ <>[](connected /\ config_sent)

(* close() returns: its join is never for ever.                            *)
CloseReturns == ~running_ ~> pc = "done"
=============================================================================
