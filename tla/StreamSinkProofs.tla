-------------------------- MODULE StreamSinkProofs --------------------------
(***************************************************************************)
(* Theorems about StreamSink for every value of its constants.             *)
(***************************************************************************)
EXTENDS StreamSink, SequenceTheorems, TLAPS

USE DEF queueVars, spoolVars, writerVars, closeVars, netVars, localVars,
        senderVars, FirstSeq, SpoolsIfWriter, ShuttingDown, ConfigSentToNew, ConfigDue,
        CloseSpool, AfterSendFail, Requeue

-----------------------------------------------------------------------------
LEMMA EmptySequence == ASSUME NEW S PROVE <<>> \in Seq(S)
  OBVIOUS

LEMMA TypeInit == Init => TypeOK
<1>. SUFFICES ASSUME Init PROVE TypeOK
  OBVIOUS
<1>1. seq_ \in [Kinds -> Nat \ {0}]
  BY DEF Init
<1>2. /\ overflowing_ \in BOOLEAN /\ spool_write_file_ \in BOOLEAN
      /\ spool_read_file_ \in BOOLEAN /\ deadline_passed \in BOOLEAN
      /\ shutting_down \in BOOLEAN /\ config_sent \in BOOLEAN
      /\ connected \in BOOLEAN /\ stalled \in BOOLEAN
      /\ cached_at_connect \in BOOLEAN
  BY DEF Init
<1>. QED BY <1>1, <1>2, EmptySequence DEF Init, TypeOK

LEMMA TypeWrite ==
  ASSUME TypeOK, NEW k \in Kinds, NEW s \in Sizes, Write(k, s)
  PROVE  TypeOK'
<1>. DEFINE m == [kind |-> k, seq |-> seq_[k], size |-> s]
<1>1. m \in Message /\ seq_' \in [Kinds -> Nat \ {0}]
  BY DEF TypeOK, Write, Message
<1>2. CASE EnqueueMemory(m)
  <2>1. memory_queue_' \in Seq(Message) /\ memory_bytes_' \in Int
    BY <1>1, <1>2, SizesAssumption DEF TypeOK, EnqueueMemory, Message
  <2>. QED BY <1>1, <1>2, <2>1 DEF TypeOK, EnqueueMemory, Write
<1>3. CASE EnqueueSpool(m)
  <2>1. spool' \in Seq(Message)
    BY <1>1, <1>3 DEF TypeOK, EnqueueSpool
  <2>2. spool_write_file_' \in BOOLEAN /\ spool_read_file_' \in BOOLEAN
    BY <1>3 DEF TypeOK, EnqueueSpool, OpenSpool
  <2>. QED BY <1>1, <1>3, <2>1, <2>2 DEF TypeOK, EnqueueSpool, Write
<1>. QED BY <1>2, <1>3 DEF Write, Enqueue

LEMMA TypeStep == TypeOK /\ [Next]_vars => TypeOK'
<1>. SUFFICES ASSUME TypeOK, [Next]_vars PROVE TypeOK'
  OBVIOUS
<1>1. CASE \E k \in Kinds, s \in Sizes : Write(k, s)
  BY <1>1, TypeWrite
<1>2. CASE WriteVideoConfig
  BY <1>2 DEF WriteVideoConfig, TypeOK
<1>3. CASE Close
  <2>1. running_' \in BOOLEAN
    BY <1>3 DEF Close
  <2>. QED BY <1>3, <2>1 DEF Close, TypeOK
<1>4. CASE DeadlinePasses
  BY <1>4 DEF DeadlinePasses, TypeOK
<1>5. CASE LoopTop
  BY <1>5 DEF LoopTop, TypeOK
<1>6. CASE ConnectOk
  <2>1. /\ connected' \in BOOLEAN /\ stalled' \in BOOLEAN
        /\ config_sent' \in BOOLEAN /\ cached_at_connect' \in BOOLEAN
    BY <1>6 DEF ConnectOk
  <2>. QED BY <1>6, <2>1, EmptySequence DEF ConnectOk, TypeOK
<1>7. CASE ConnectFail
  BY <1>7 DEF ConnectFail, TypeOK
<1>8. CASE CheckConfig
  BY <1>8 DEF CheckConfig, TypeOK
<1>9. CASE SendConfigOk
  <2>1. ConfigMessage(config_copy) \in ConfigMessages
    BY DEF TypeOK, ConfigMessage, ConfigMessages
  <2>2. wire' \in Seq(Message \cup ConfigMessages)
    BY <1>9, <2>1, AppendProperties DEF SendConfigOk, TypeOK
  <2>. QED BY <1>9, <2>2 DEF SendConfigOk, TypeOK
<1>10. CASE SendConfigFail
  <2>1. connected' \in BOOLEAN
    BY <1>10 DEF SendConfigFail, Disconnect
  <2>. QED BY <1>10, <2>1 DEF SendConfigFail, Disconnect, TypeOK
<1>11. CASE PopMemory
  <2>1. Head(memory_queue_) \in Message /\ memory_queue_' \in Seq(Message)
    BY <1>11, HeadTailProperties DEF PopMemory, TypeOK
  <2>2. memory_bytes_' \in Int
    BY <1>11, <2>1, SizesAssumption DEF PopMemory, TypeOK, Message
  <2>. QED BY <1>11, <2>1, <2>2 DEF PopMemory, TypeOK
<1>12. CASE PopSpool
  <2>1. /\ overflowing_' \in BOOLEAN /\ spool_write_file_' \in BOOLEAN
        /\ spool_read_file_' \in BOOLEAN
    BY <1>12 DEF PopSpool, TypeOK
  <2>2. Head(spool) \in Message /\ spool' \in Seq(Message)
    BY <1>12, HeadTailProperties DEF PopSpool, SpoolReadable, TypeOK
  <2>. QED BY <1>12, <2>1, <2>2 DEF PopSpool, TypeOK
<1>13. CASE PopNothing
  BY <1>13 DEF PopNothing, TypeOK
<1>14. CASE WaitReturns
  BY <1>14 DEF WaitReturns, TypeOK
<1>15. CASE SendOk
  <2>1. taken' \in Seq(Message)
    BY <1>15, ConcatProperties DEF SendOk, TypeOK
  <2>2. message \in Seq(Message \cup ConfigMessages)
    BY DEF TypeOK
  <2>3. wire' \in Seq(Message \cup ConfigMessages)
    BY <1>15, <2>2, ConcatProperties DEF SendOk, TypeOK
  <2>. QED BY <1>15, <2>1, <2>3, EmptySequence DEF SendOk, TypeOK
<1>16. CASE SendFail
  <2>1. connected' \in BOOLEAN
    BY <1>16 DEF SendFail, Disconnect
  <2>. QED BY <1>16, <2>1 DEF SendFail, Disconnect, TypeOK
<1>17. CASE RequeueFront
  BY <1>17, ConcatProperties DEF RequeueFront, TypeOK, Message
<1>18. CASE Exit
  BY <1>18 DEF Exit, TypeOK
<1>19. CASE PeerStall
  BY <1>19 DEF PeerStall, TypeOK
<1>20. CASE UNCHANGED vars
  BY <1>20 DEF vars, TypeOK
<1>. QED
  BY <1>1, <1>2, <1>3, <1>4, <1>5, <1>6, <1>7, <1>8, <1>9, <1>10, <1>11, <1>12,
     <1>13, <1>14, <1>15, <1>16, <1>17, <1>18, <1>19, <1>20
     DEF Next, Writers, Sender, Terminated

(* The types of the sink's state, in every reachable state.                *)
THEOREM TypeCorrect == Spec => []TypeOK
  BY TypeInit, TypeStep, PTL DEF Spec

-----------------------------------------------------------------------------
(* The structural invariant: where messages can be, given pc and the state *)
(* of the spool.  A message is in the sender's hand exactly while it is    *)
(* being sent or put back.                                                 *)
HandMatchesPc == message # <<>> <=> pc \in {"send", "requeue"}

StructInv == TypeOK /\ HandMatchesPc /\ SpoolOnlyInOverflow

LEMMA StructInit == Init => HandMatchesPc /\ SpoolOnlyInOverflow
  BY DEF Init, HandMatchesPc, SpoolOnlyInOverflow

LEMMA HandStep ==
  ASSUME TypeOK, HandMatchesPc, [Next]_vars
  PROVE  HandMatchesPc'
<1>1. CASE Writers \/ Close \/ DeadlinePasses \/ PeerStall \/ UNCHANGED vars
  BY <1>1 DEF Writers, Write, WriteVideoConfig, Close, DeadlinePasses,
              PeerStall, vars, HandMatchesPc
<1>2. CASE LoopTop \/ ConnectOk \/ ConnectFail \/ CheckConfig \/ SendConfigOk
           \/ SendConfigFail \/ PopNothing \/ WaitReturns \/ Exit
  BY <1>2 DEF LoopTop, ConnectOk, ConnectFail, CheckConfig, SendConfigOk,
              SendConfigFail, PopNothing, WaitReturns, Exit, HandMatchesPc
<1>3. CASE PopMemory \/ PopSpool
  BY <1>3 DEF PopMemory, PopSpool, HandMatchesPc
<1>4. CASE SendOk \/ SendFail \/ RequeueFront
  BY <1>4 DEF SendOk, SendFail, RequeueFront, HandMatchesPc
<1>. QED BY <1>1, <1>2, <1>3, <1>4 DEF Next, Sender, Terminated

LEMMA SpoolStep ==
  ASSUME TypeOK, SpoolOnlyInOverflow, [Next]_vars
  PROVE  SpoolOnlyInOverflow'
<1>1. CASE \E k \in Kinds, s \in Sizes : Write(k, s)
  <2>1. PICK k \in Kinds, s \in Sizes : Write(k, s)
    BY <1>1
  <2>. DEFINE m == [kind |-> k, seq |-> seq_[k], size |-> s]
  <2>2. CASE EnqueueMemory(m)
    BY <2>2 DEF EnqueueMemory, SpoolOnlyInOverflow
  <2>3. CASE EnqueueSpool(m)
    BY <2>3 DEF EnqueueSpool, OpenSpool, SpoolOnlyInOverflow
  <2>. QED BY <2>1, <2>2, <2>3 DEF Write, Enqueue
<1>2. CASE PopSpool
  BY <1>2 DEF PopSpool, SpoolOnlyInOverflow
<1>3. CASE UNCHANGED <<overflowing_, spool, spool_write_file_, spool_read_file_>>
  BY <1>3 DEF SpoolOnlyInOverflow
<1>. QED
  BY <1>1, <1>2, <1>3
     DEF Next, Writers, WriteVideoConfig, Close, DeadlinePasses, PeerStall,
         Terminated, vars, Sender, LoopTop, ConnectOk, ConnectFail, CheckConfig,
         SendConfigOk, SendConfigFail, PopMemory, PopNothing, WaitReturns,
         SendOk, SendFail, RequeueFront, Exit

LEMMA StructCorrect == Spec => []StructInv
<1>1. Init => StructInv
  BY TypeInit, StructInit DEF StructInv
<1>2. StructInv /\ [Next]_vars => StructInv'
  BY TypeStep, HandStep, SpoolStep DEF StructInv
<1>. QED BY <1>1, <1>2, PTL DEF Spec

(* Messages are on disk only in overflow mode, behind an open write file:  *)
(* a queue that takes messages into memory again has none older on disk    *)
(* (enqueue, pop_next_to_send).  It holds whatever the disk does.          *)
THEOREM SpoolCorrect == Spec => []SpoolOnlyInOverflow
  BY StructCorrect, PTL DEF StructInv

-----------------------------------------------------------------------------
(* Sequence facts used below.                                              *)

LEMMA SingletonConcat ==
  ASSUME NEW S, NEW m \in S, NEW s \in Seq(S)
  PROVE  /\ <<m>> \o s \in Seq(S)
         /\ <<m>> \o s # <<>>
         /\ Head(<<m>> \o s) = m
         /\ Tail(<<m>> \o s) = s
<1>1. <<m>> \in Seq(S) /\ Len(<<m>>) = 1 /\ <<m>>[1] = m
  OBVIOUS
<1>. DEFINE c == <<m>> \o s
<1>2. c \in Seq(S) /\ Len(c) = 1 + Len(s) /\ c[1] = m
      /\ \A i \in 1 .. Len(s) : c[i + 1] = s[i]
  BY <1>1, ConcatProperties
<1>3. Tail(c) \in Seq(S) /\ Len(Tail(c)) = Len(s)
  BY <1>2, HeadTailProperties
<1>4. \A i \in 1 .. Len(s) : Tail(c)[i] = s[i]
  BY <1>2, HeadTailProperties
<1>5. Tail(c) = s
  BY <1>3, <1>4, SeqEqual
<1>. HIDE DEF c
<1>. QED BY <1>2, <1>5, HeadTailProperties

LEMMA HeadTailConcat ==
  ASSUME NEW S, NEW s \in Seq(S), s # <<>>
  PROVE  <<Head(s)>> \o Tail(s) = s
<1>1. Head(s) \in S /\ Tail(s) \in Seq(S) /\ Len(Tail(s)) = Len(s) - 1
      /\ Len(s) \in Nat /\ Len(s) > 0 /\ s[1] = Head(s)
      /\ \A i \in 1 .. Len(Tail(s)) : Tail(s)[i] = s[i + 1]
  BY HeadTailProperties
<1>. DEFINE c == <<Head(s)>> \o Tail(s)
<1>2. <<Head(s)>> \in Seq(S) /\ Len(<<Head(s)>>) = 1 /\ <<Head(s)>>[1] = Head(s)
  BY <1>1
<1>3. c \in Seq(S) /\ Len(c) = Len(s)
      /\ \A i \in 1 .. Len(c) : c[i] = IF i <= 1 THEN <<Head(s)>>[i] ELSE Tail(s)[i - 1]
  BY <1>1, <1>2, ConcatProperties
<1>4. \A i \in 1 .. Len(c) : c[i] = s[i]
  BY <1>1, <1>2, <1>3
<1>. HIDE DEF c
<1>5. c = s
  BY <1>3, <1>4, SeqEqual
<1>. QED BY <1>5 DEF c

LEMMA ConcatAppend ==
  ASSUME NEW S, NEW s \in Seq(S), NEW t \in Seq(S), NEW m \in S
  PROVE  s \o Append(t, m) = Append(s \o t, m)
<1>1. Append(t, m) = t \o <<m>> /\ s \o t \in Seq(S)
  BY AppendIsConcat, ConcatProperties
<1>2. Append(s \o t, m) = (s \o t) \o <<m>>
  BY <1>1, AppendIsConcat
<1>3. (s \o t) \o <<m>> = s \o (t \o <<m>>)
  BY ConcatAssociative
<1>. QED BY <1>1, <1>2, <1>3

(* The hand, when full, is a one-element sequence.                         *)
LEMMA MessageInHand ==
  ASSUME TypeOK, message # <<>>
  PROVE  message[1] \in Message /\ message = <<message[1]>>
<1>1. Len(message) \in Nat /\ Len(message) # 0
  BY EmptySeq, LenProperties DEF TypeOK
<1>2. Len(message) <= 1 /\ message \in Seq(Message)
  BY DEF TypeOK
<1>. DEFINE n == Len(message)
<1>3. n = 1
  <2>1. n \in Nat /\ n # 0 /\ n <= 1
    BY <1>1, <1>2
  <2>. HIDE DEF n
  <2>. QED BY <2>1
<1>. QED BY <1>2, <1>3, SeqEqual DEF n

-----------------------------------------------------------------------------
(* Refinement: StreamSink implements FifoChannel.                          *)

LEMMA FifoInit == Init => Fifo!Init
  BY EmptySequence, ConcatEmptySeq DEF Init, Fifo!Init, Pending

(* A write appends its message to what is pending, or finds no open spool  *)
(* file, which a working disk excludes, and leaves what is pending alone.  *)
LEMMA PendingAfterWrite ==
  ASSUME StructInv, NEW k \in Kinds, NEW s \in Sizes, Write(k, s)
  PROVE  \/ Pending' = Append(Pending, [kind |-> k, seq |-> seq_[k], size |-> s])
         \/ ~spool_write_file_' /\ Pending' = Pending /\ SpoolOpenOutcomes # {"both"}
<1>. DEFINE m == [kind |-> k, seq |-> seq_[k], size |-> s]
<1>1. m \in Message
  BY DEF StructInv, TypeOK, Message
<1>2. message' = message
  BY DEF Write
<1>3. /\ message \in Seq(Message) /\ memory_queue_ \in Seq(Message)
      /\ spool \in Seq(Message)
  BY DEF StructInv, TypeOK
<1>4. message \o memory_queue_ \in Seq(Message)
  BY <1>3, ConcatProperties
<1>5. CASE EnqueueMemory(m)
  <2>1. spool = <<>> /\ spool' = <<>> /\ memory_queue_' = Append(memory_queue_, m)
    BY <1>5 DEF StructInv, SpoolOnlyInOverflow, EnqueueMemory, FitsInMemory
  <2>2. message \o memory_queue_' = Append(message \o memory_queue_, m)
    BY <1>1, <1>3, <2>1, ConcatAppend
  <2>3. Append(message \o memory_queue_, m) \in Seq(Message)
    BY <1>1, <1>4, AppendProperties
  <2>. QED BY <1>2, <1>4, <2>1, <2>2, <2>3, ConcatEmptySeq DEF Pending
<1>6. CASE EnqueueSpool(m)
  <2>1. CASE spool_write_file_'
    <3>1. spool' = Append(spool, m) /\ memory_queue_' = memory_queue_
      BY <1>6, <2>1 DEF EnqueueSpool
    <3>. QED BY <1>1, <1>2, <1>3, <1>4, <3>1, ConcatAppend DEF Pending
  <2>2. CASE ~spool_write_file_'
    <3>1. spool' = spool /\ memory_queue_' = memory_queue_
      BY <1>6, <2>2 DEF EnqueueSpool
    <3>2. SpoolOpenOutcomes # {"both"}
      BY <1>6, <2>2 DEF EnqueueSpool, OpenSpool
    <3>. QED BY <1>2, <2>2, <3>1, <3>2 DEF Pending
  <2>. QED BY <2>1, <2>2
<1>. QED BY <1>5, <1>6 DEF Write, Enqueue

LEMMA FifoWrite ==
  ASSUME StructInv, NEW k \in Kinds, NEW s \in Sizes, Write(k, s)
  PROVE  Fifo!Put(k, s) \/ Fifo!Lose(k)
<1>1. seq_' = [seq_ EXCEPT ![k] = @ + 1] /\ taken' = taken
  BY DEF Write
<1>. QED BY <1>1, PendingAfterWrite DEF Fifo!Put, Fifo!Lose

LEMMA FifoPop ==
  ASSUME StructInv, PopMemory \/ PopSpool
  PROVE  UNCHANGED <<seq_, Pending, taken>>
<1>1. /\ memory_queue_ \in Seq(Message) /\ spool \in Seq(Message)
      /\ message = <<>>
  BY DEF StructInv, TypeOK, HandMatchesPc, PopMemory, PopSpool
<1>2. Pending = memory_queue_ \o spool
  BY <1>1, ConcatEmptySeq DEF Pending
<1>3. CASE PopMemory
  <2>1. /\ message' = <<Head(memory_queue_)>> /\ memory_queue_ # <<>>
        /\ memory_queue_' = Tail(memory_queue_) /\ spool' = spool
    BY <1>3 DEF PopMemory
  <2>2. message' \o memory_queue_' = memory_queue_
    BY <1>1, <2>1, HeadTailConcat
  <2>. QED BY <1>2, <1>3, <2>1, <2>2 DEF Pending, PopMemory
<1>4. CASE PopSpool
  <2>1. /\ message' = <<Head(spool)>> /\ spool # <<>>
        /\ memory_queue_ = <<>> /\ memory_queue_' = <<>> /\ spool' = Tail(spool)
    BY <1>4 DEF PopSpool, SpoolReadable
  <2>2. Head(spool) \in Message
    BY <1>1, <2>1, HeadTailProperties
  <2>3. message' \o memory_queue_' = message'
    BY <2>1, <2>2, ConcatEmptySeq
  <2>4. Pending' = spool
    BY <1>1, <2>1, <2>3, HeadTailConcat DEF Pending
  <2>5. Pending = spool
    BY <1>1, <1>2, <2>1, ConcatEmptySeq
  <2>. QED BY <1>4, <2>4, <2>5 DEF PopSpool
<1>. QED BY <1>3, <1>4

LEMMA FifoSend ==
  ASSUME StructInv, SendOk
  PROVE  Fifo!Take
<1>1. /\ message # <<>> /\ memory_queue_ \in Seq(Message) /\ spool \in Seq(Message)
      /\ taken \in Seq(Message) /\ TypeOK
  BY DEF StructInv, TypeOK, HandMatchesPc, SendOk
<1>. DEFINE m == message[1]
            rest == memory_queue_ \o spool
<1>2. m \in Message /\ message = <<m>>
  BY <1>1, MessageInHand
<1>3. rest \in Seq(Message)
  BY <1>1, ConcatProperties
<1>4. Pending = <<m>> \o rest
  <2>1. message \in Seq(Message)
    BY <1>1 DEF TypeOK
  <2>2. Pending = message \o rest
    BY <1>1, <2>1, ConcatAssociative DEF Pending
  <2>. QED BY <1>2, <2>2
<1>5. Pending # <<>> /\ Head(Pending) = m /\ Tail(Pending) = rest
  BY <1>2, <1>3, <1>4, SingletonConcat
<1>6. Pending' = rest
  BY <1>1, <1>3, ConcatEmptySeq DEF SendOk, Pending
<1>7. taken' = Append(taken, m)
  BY <1>1, <1>2, AppendIsConcat DEF SendOk
<1>. QED BY <1>5, <1>6, <1>7 DEF Fifo!Take, SendOk

LEMMA FifoRequeue ==
  ASSUME StructInv, RequeueFront
  PROVE  UNCHANGED <<seq_, Pending, taken>>
<1>1. /\ message \in Seq(Message) /\ memory_queue_ \in Seq(Message)
      /\ spool \in Seq(Message)
  BY DEF StructInv, TypeOK
<1>2. message \o memory_queue_ \in Seq(Message)
  BY <1>1, ConcatProperties
<1>3. Pending' = Pending
  BY <1>1, <1>2, ConcatEmptySeq DEF RequeueFront, Pending
<1>. QED BY <1>3 DEF RequeueFront

LEMMA FifoStep ==
  ASSUME StructInv, [Next]_vars
  PROVE  [Fifo!Next]_<<seq_, Pending, taken>>
<1>1. CASE \E k \in Kinds, s \in Sizes : Write(k, s)
  BY <1>1, FifoWrite DEF Fifo!Next
<1>2. CASE SendOk
  BY <1>2, FifoSend DEF Fifo!Next
<1>3. CASE PopMemory \/ PopSpool
  BY <1>3, FifoPop
<1>4. CASE RequeueFront
  BY <1>4, FifoRequeue
<1>5. CASE UNCHANGED <<seq_, message, memory_queue_, spool, taken>>
  BY <1>5 DEF Pending
<1>. QED
  BY <1>1, <1>2, <1>3, <1>4, <1>5
     DEF Next, Writers, WriteVideoConfig, Close, DeadlinePasses, PeerStall,
         Terminated, vars, Sender, LoopTop, ConnectOk, ConnectFail, CheckConfig,
         SendConfigOk, SendConfigFail, PopNothing, WaitReturns, SendFail,
         Disconnect, Exit

(* For any message types, sizes, memory cap and number of failures, the    *)
(* sink is a FIFO channel: what write_* accepted reaches the socket in the *)
(* order of the calls, once, across requeues, spooling and reconnections;  *)
(* nothing is lost unless the spool file cannot be opened.                 *)
THEOREM SinkIsFifo == Spec => FifoSpec
<1>1. Init => Fifo!Init
  BY FifoInit
<1>2. StructInv /\ [Next]_vars => [Fifo!Next]_(Fifo!vars)
  BY FifoStep DEF Fifo!vars
<1>. QED
  BY <1>1, <1>2, StructCorrect, PTL DEF Spec, FifoSpec, Fifo!Spec

LEMMA LossNeedsClosedFile ==
  ASSUME StructInv, [Next]_vars, seq_' # seq_, Pending' = Pending
  PROVE  ~spool_write_file_'
<1>1. PICK k \in Kinds, s \in Sizes : Write(k, s)
  BY DEF Next, Writers, WriteVideoConfig, Close, DeadlinePasses, PeerStall,
         Terminated, vars, Sender, LoopTop, ConnectOk, ConnectFail, CheckConfig,
         SendConfigOk, SendConfigFail, PopMemory, PopSpool, PopNothing,
         WaitReturns, SendOk, SendFail, RequeueFront, Exit
<1>. DEFINE m == [kind |-> k, seq |-> seq_[k], size |-> s]
<1>2. m \in Message /\ Pending \in Seq(Message)
  BY ConcatProperties DEF StructInv, TypeOK, Message, Pending
<1>3. Append(Pending, m) # Pending
  <2>1. Len(Pending) \in Nat /\ Len(Append(Pending, m)) = Len(Pending) + 1
    BY <1>2, AppendProperties, LenProperties
  <2>. QED BY <2>1
<1>. QED BY <1>1, <1>3, PendingAfterWrite

(* A message is dropped only at write_*, and only when there is no spool   *)
(* file it could go to: never because memory is full, never by the sender. *)
THEOREM LossOnlyAtRefusedSpool == Spec => LostOnlyWithoutSpool
<1>1. StructInv /\ [Next]_vars =>
        [seq_' # seq_ /\ Pending' = Pending => ~spool_write_file_']_vars
  BY LossNeedsClosedFile
<1>. QED BY <1>1, StructCorrect, PTL DEF Spec, LostOnlyWithoutSpool

-----------------------------------------------------------------------------
(* The memory bound.  A message in the sender's hand has left the count,   *)
(* and while it is out nothing is taken beyond the cap; so putting it back *)
(* exceeds the cap by that message alone.                                  *)
MemoryInv ==
    /\ message # <<>> \/ memory_queue_ = <<>> => memory_bytes_ <= MaxMemoryBytes
    /\ memory_queue_ # <<>> =>
         memory_bytes_ - Head(memory_queue_).size <= MaxMemoryBytes

LEMMA MessageSize == ASSUME NEW m \in Message PROVE m.size \in Nat /\ m.size > 0
<1>1. m.size \in Sizes
  BY DEF Message
<1>2. m.size \in Nat \ {0}
  BY <1>1, SizesAssumption
<1>. QED BY <1>2

LEMMA MemoryStep ==
  ASSUME StructInv, MemoryInv, [Next]_vars
  PROVE  MemoryInv'
<1>. USE MaxMemoryBytesAssumption
<1>0. /\ memory_queue_ \in Seq(Message) /\ memory_bytes_ \in Int
      /\ HandMatchesPc /\ TypeOK
  BY DEF StructInv, TypeOK
<1>1. CASE \E k \in Kinds, s \in Sizes : Write(k, s)
  <2>1. PICK k \in Kinds, s \in Sizes : Write(k, s)
    BY <1>1
  <2>. DEFINE m == [kind |-> k, seq |-> seq_[k], size |-> s]
  <2>2. m \in Message /\ message' = message
    BY <1>0, <2>1 DEF Write, TypeOK, Message
  <2>3. CASE EnqueueMemory(m)
    <3>1. /\ memory_queue_' = Append(memory_queue_, m)
          /\ memory_bytes_' \in Int /\ memory_bytes_' <= MaxMemoryBytes
      BY <1>0, <2>2, <2>3, MessageSize DEF EnqueueMemory, FitsInMemory
    <3>2. memory_queue_' \in Seq(Message) /\ memory_queue_' # <<>>
      BY <1>0, <2>2, <3>1, AppendProperties
    <3>3. Head(memory_queue_').size \in Nat
      BY <3>2, HeadTailProperties, MessageSize
    <3>. QED BY <3>1, <3>2, <3>3 DEF MemoryInv
  <2>4. CASE EnqueueSpool(m)
    BY <2>2, <2>4 DEF EnqueueSpool, MemoryInv
  <2>. QED BY <2>1, <2>3, <2>4 DEF Write, Enqueue
<1>2. CASE PopMemory
  <2>1. /\ memory_queue_ # <<>> /\ memory_queue_' = Tail(memory_queue_)
        /\ memory_bytes_' = memory_bytes_ - Head(memory_queue_).size
    BY <1>2 DEF PopMemory
  <2>2. Head(memory_queue_) \in Message /\ memory_queue_' \in Seq(Message)
    BY <1>0, <2>1, HeadTailProperties
  <2>3. memory_bytes_' \in Int /\ memory_bytes_' <= MaxMemoryBytes
    BY <1>0, <2>1, <2>2, MessageSize DEF MemoryInv
  <2>4. memory_queue_' # <<>> => Head(memory_queue_').size \in Nat
    BY <2>2, HeadTailProperties, MessageSize
  <2>. QED BY <2>3, <2>4 DEF MemoryInv
<1>3. CASE PopSpool
  BY <1>3 DEF PopSpool, MemoryInv
<1>4. CASE RequeueFront
  <2>1. message # <<>>
    BY <1>0, <1>4 DEF RequeueFront, HandMatchesPc
  <2>2. message[1] \in Message /\ message = <<message[1]>>
    BY <1>0, <2>1, MessageInHand
  <2>3. /\ memory_queue_' # <<>> /\ Head(memory_queue_') = message[1]
    BY <1>0, <1>4, <2>2, SingletonConcat DEF RequeueFront
  <2>4. /\ message' = <<>> /\ memory_bytes_' = memory_bytes_ + message[1].size
    BY <1>4 DEF RequeueFront
  <2>. QED BY <1>0, <2>1, <2>2, <2>3, <2>4, MessageSize DEF MemoryInv
<1>5. CASE SendOk
  <2>1. memory_queue_ # <<>> => Head(memory_queue_).size \in Nat
    BY <1>0, HeadTailProperties, MessageSize
  <2>. QED BY <1>0, <1>5, <2>1 DEF SendOk, MemoryInv, HandMatchesPc
<1>6. CASE UNCHANGED <<message, memory_queue_, memory_bytes_>>
  BY <1>6 DEF MemoryInv
<1>. QED
  BY <1>1, <1>2, <1>3, <1>4, <1>5, <1>6
     DEF Next, Writers, WriteVideoConfig, Close, DeadlinePasses, PeerStall,
         Terminated, vars, Sender, LoopTop, ConnectOk, ConnectFail, CheckConfig,
         SendConfigOk, SendConfigFail, PopNothing, WaitReturns, SendFail, Exit

(* The memory queue never exceeds max_memory_bytes_ by more than the one   *)
(* message that requeue_front put back.                                    *)
THEOREM MemoryStaysBounded == Spec => []MemoryBounded
<1>1. Init => MemoryInv
  BY MaxMemoryBytesAssumption DEF Init, MemoryInv
<1>2. StructInv /\ MemoryInv /\ [Next]_vars => MemoryInv'
  BY MemoryStep
<1>3. MemoryInv => MemoryBounded
  BY DEF MemoryInv, MemoryBounded
<1>. QED BY <1>1, <1>2, <1>3, StructCorrect, PTL DEF Spec

-----------------------------------------------------------------------------
(* VIDEO_CONFIG first.  A connection opened with a cached VIDEO_CONFIG     *)
(* gets past the config check only after sending it, and its wire is empty *)
(* until then.                                                             *)
ConfigInv ==
    /\ cached_at_connect => cached_video_config_ # 0
    /\ cached_at_connect /\ ~config_sent => wire = <<>>
    /\ cached_at_connect /\ pc \in {"pop", "send"} => config_sent
    /\ config_sent => wire # <<>>
    /\ ConfigFirstIfCached

LEMMA ConfigStep ==
  ASSUME StructInv, ConfigInv, [Next]_vars
  PROVE  ConfigInv'
<1>0. /\ wire \in Seq(Message \cup ConfigMessages)
      /\ message \in Seq(Message \cup ConfigMessages)
      /\ cached_video_config_ \in Nat
  BY DEF StructInv, TypeOK
<1>1. CASE Writers
  <2>1. UNCHANGED <<pc, config_sent, wire, cached_at_connect>>
    BY <1>1 DEF Writers, Write, WriteVideoConfig
  <2>2. cached_video_config_ # 0 => cached_video_config_' # 0
    <3>1. CASE WriteVideoConfig
      BY <1>0, <3>1 DEF WriteVideoConfig
    <3>2. CASE cached_video_config_' = cached_video_config_
      BY <3>2
    <3>. QED BY <1>1, <3>1, <3>2 DEF Writers, Write
  <2>. QED BY <2>1, <2>2 DEF ConfigInv, ConfigFirstIfCached
<1>2. CASE LoopTop \/ ConnectFail \/ SendConfigFail \/ PopNothing \/ WaitReturns
           \/ SendFail \/ RequeueFront \/ Exit
  <2>1. /\ UNCHANGED <<config_sent, wire, cached_at_connect, cached_video_config_>>
        /\ pc' \notin {"pop", "send"}
    BY <1>2 DEF LoopTop, ConnectFail, SendConfigFail, PopNothing, WaitReturns,
                SendFail, Disconnect, RequeueFront, Exit
  <2>. QED BY <2>1 DEF ConfigInv, ConfigFirstIfCached
<1>6. CASE ConnectOk
  BY <1>6 DEF ConnectOk, ConfigInv, ConfigFirstIfCached
<1>7. CASE CheckConfig
  BY <1>7 DEF CheckConfig, ConfigInv, ConfigFirstIfCached
<1>8. CASE PopMemory \/ PopSpool
  BY <1>8 DEF PopMemory, PopSpool, ConfigInv, ConfigFirstIfCached
<1>3. CASE SendConfigOk
  <2>. DEFINE c == ConfigMessage(config_copy)
  <2>1. c.kind = "video_config" /\ c \in Message \cup ConfigMessages
    BY DEF ConfigMessage, ConfigMessages, StructInv, TypeOK
  <2>2. /\ wire' = Append(wire, c) /\ config_sent' = TRUE /\ pc' = "pop"
        /\ cached_at_connect' = cached_at_connect
        /\ cached_video_config_' = cached_video_config_
    BY <1>3 DEF SendConfigOk
  <2>. HIDE DEF c
  <2>3. wire' # <<>>
    BY <1>0, <2>1, <2>2, AppendProperties
  <2>4. wire = <<>> => wire'[1].kind = "video_config"
    BY <2>1, <2>2
  <2>5. wire # <<>> => wire'[1] = wire[1]
    <3>1. wire # <<>> => Len(wire) \in Nat /\ 1 <= Len(wire)
      BY <1>0, EmptySeq, LenProperties
    <3>. QED BY <1>0, <2>1, <2>2, <3>1, AppendProperties
  <2>. QED BY <2>2, <2>3, <2>4, <2>5 DEF ConfigInv, ConfigFirstIfCached
<1>4. CASE SendOk
  <2>1. /\ wire' = wire \o message /\ pc = "send" /\ pc' = "top"
        /\ UNCHANGED <<cached_at_connect, cached_video_config_, config_sent>>
    BY <1>4 DEF SendOk
  <2>2. wire # <<>> => wire' # <<>> /\ wire'[1] = wire[1]
    <3>1. wire # <<>> => Len(wire) \in Nat /\ 1 <= Len(wire)
      BY <1>0, EmptySeq, LenProperties
    <3>. QED BY <1>0, <2>1, <3>1, ConcatProperties, EmptySeq
  <2>3. cached_at_connect => config_sent /\ wire # <<>>
    BY <2>1 DEF ConfigInv
  <2>. QED BY <2>1, <2>2, <2>3 DEF ConfigInv, ConfigFirstIfCached
<1>5. CASE Close \/ DeadlinePasses \/ PeerStall \/ UNCHANGED vars
  BY <1>5 DEF Close, DeadlinePasses, PeerStall, vars, ConfigInv, ConfigFirstIfCached
<1>. QED
  BY <1>1, <1>2, <1>3, <1>4, <1>5, <1>6, <1>7, <1>8 DEF Next, Sender, Terminated

(* A connection opened when a VIDEO_CONFIG was cached starts with it,      *)
(* whatever was requeued or spooled before.                                *)
THEOREM ConfigGoesFirst == Spec => []ConfigFirstIfCached
<1>1. Init => ConfigInv
  BY DEF Init, ConfigInv, ConfigFirstIfCached
<1>2. StructInv /\ ConfigInv /\ [Next]_vars => ConfigInv'
  BY ConfigStep
<1>3. ConfigInv => ConfigFirstIfCached
  BY DEF ConfigInv
<1>. QED BY <1>1, <1>2, <1>3, StructCorrect, PTL DEF Spec

-----------------------------------------------------------------------------
(* Overflow mode.                                                          *)

LEMMA OverflowStep ==
  ASSUME SpoolOpenOutcomes = {"both"}, StructInv, OverflowIffSpooled, [Next]_vars
  PROVE  OverflowIffSpooled'
<1>0. spool \in Seq(Message) /\ SpoolOnlyInOverflow
  BY DEF StructInv, TypeOK
<1>1. CASE \E k \in Kinds, s \in Sizes : Write(k, s)
  <2>1. PICK k \in Kinds, s \in Sizes : Write(k, s)
    BY <1>1
  <2>. DEFINE m == [kind |-> k, seq |-> seq_[k], size |-> s]
  <2>2. m \in Message
    BY <2>1 DEF StructInv, TypeOK, Message
  <2>3. CASE EnqueueMemory(m)
    BY <2>3 DEF EnqueueMemory, OverflowIffSpooled
  <2>4. CASE EnqueueSpool(m)
    <3>1. overflowing_' /\ spool_write_file_' /\ spool_read_file_'
      BY <1>0, <2>4 DEF EnqueueSpool, OpenSpool, OverflowIffSpooled, SpoolOnlyInOverflow
    <3>2. spool' = Append(spool, m)
      BY <2>4, <3>1 DEF EnqueueSpool
    <3>3. spool' # <<>>
      BY <1>0, <2>2, <3>2, AppendProperties
    <3>. QED BY <3>1, <3>3 DEF OverflowIffSpooled
  <2>. QED BY <2>1, <2>3, <2>4 DEF Write, Enqueue
<1>2. CASE PopSpool
  BY <1>2 DEF PopSpool, SpoolReadable, OverflowIffSpooled
<1>3. CASE UNCHANGED <<overflowing_, spool, spool_read_file_>>
  BY <1>3 DEF OverflowIffSpooled
<1>. QED
  BY <1>1, <1>2, <1>3
     DEF Next, Writers, WriteVideoConfig, Close, DeadlinePasses, PeerStall,
         Terminated, vars, Sender, LoopTop, ConnectOk, ConnectFail, CheckConfig,
         SendConfigOk, SendConfigFail, PopMemory, PopNothing, WaitReturns,
         SendOk, SendFail, RequeueFront, Exit

(* With a disk that opens the spool, overflow mode lasts exactly while     *)
(* messages are on disk and readable: the sink does not stay in overflow   *)
(* mode after the spool has been drained.                                  *)
THEOREM OverflowCorrect ==
  ASSUME SpoolOpenOutcomes = {"both"}
  PROVE  Spec => []OverflowIffSpooled
<1>1. Init => OverflowIffSpooled
  BY DEF Init, OverflowIffSpooled
<1>2. StructInv /\ OverflowIffSpooled /\ [Next]_vars => OverflowIffSpooled'
  BY OverflowStep
<1>. QED BY <1>1, <1>2, StructCorrect, PTL DEF Spec

-----------------------------------------------------------------------------
(* Sequence numbers on the wire.  What is on the wire is older than what   *)
(* is pending, which is ascending and below the counters; a VIDEO_CONFIG   *)
(* is on the wire only if this connection has had one.                     *)
Ascending(s) ==
    \A i, j \in 1 .. Len(s) :
        i < j /\ s[i].kind = s[j].kind => s[i].seq < s[j].seq

Below(s, t) ==
    \A i \in 1 .. Len(s), j \in 1 .. Len(t) :
        s[i].kind = t[j].kind => s[i].seq < t[j].seq

Numbered(s) == \A i \in 1 .. Len(s) : s[i].kind \in Kinds => s[i].seq < seq_[s[i].kind]

NoConfig(s) == \A i \in 1 .. Len(s) : s[i].kind # "video_config"

WireInv ==
    /\ Ascending(wire) /\ Ascending(Pending) /\ Below(wire, Pending)
    /\ Numbered(wire) /\ Numbered(Pending)
    /\ ~config_sent => NoConfig(wire)
    /\ pc = "send_config" => ~config_sent

LEMMA VideoConfigIsNoKind == "video_config" \notin Kinds
  BY KindsAssumption DEF AllKinds

WireItem == [kind : Kinds \cup {"video_config"}, seq : Nat, size : Nat]

LEMMA WireTypes ==
  ASSUME TypeOK
  PROVE  /\ Message \subseteq WireItem
         /\ wire \in Seq(WireItem)
         /\ Pending \in Seq(Message) /\ Pending \in Seq(WireItem)
         /\ seq_ \in [Kinds -> Nat]
<1>1. Message \subseteq WireItem /\ ConfigMessages \subseteq WireItem
  <2>1. Sizes \subseteq Nat /\ 1 \in Nat
    BY SizesAssumption
  <2>. QED BY <2>1 DEF Message, WireItem, ConfigMessages
<1>2. wire \in Seq(WireItem)
  BY <1>1 DEF TypeOK
<1>3. Pending \in Seq(Message)
  BY ConcatProperties DEF TypeOK, Pending
<1>4. seq_ \in [Kinds -> Nat]
  BY DEF TypeOK
<1>. QED BY <1>1, <1>2, <1>3, <1>4

LEMMA AscendingAppend ==
  ASSUME NEW s \in Seq(WireItem), Ascending(s), NEW m \in WireItem,
         \A i \in 1 .. Len(s) : s[i].kind = m.kind => s[i].seq < m.seq
  PROVE  Ascending(Append(s, m))
<1>. DEFINE t == Append(s, m)
<1>1. /\ Len(s) \in Nat /\ Len(t) = Len(s) + 1 /\ t[Len(s) + 1] = m
      /\ \A i \in 1 .. Len(s) : t[i] = s[i]
  BY AppendProperties, LenProperties
<1>. HIDE DEF t
<1>2. ASSUME NEW i \in 1 .. Len(t), NEW j \in 1 .. Len(t), i < j, t[i].kind = t[j].kind
      PROVE  t[i].seq < t[j].seq
  <2>1. i \in 1 .. Len(s) /\ (j \in 1 .. Len(s) \/ j = Len(s) + 1)
    BY <1>1, <1>2
  <2>2. CASE j \in 1 .. Len(s)
    BY <1>1, <1>2, <2>1, <2>2 DEF Ascending
  <2>3. CASE j = Len(s) + 1
    BY <1>1, <1>2, <2>1, <2>3
  <2>. QED BY <2>1, <2>2, <2>3
<1>. QED BY <1>2 DEF Ascending, t

LEMMA WireWrite ==
  ASSUME TypeOK, WireInv, NEW k \in Kinds, NEW s \in Sizes,
         UNCHANGED <<wire, config_sent, pc>>, Fifo!Put(k, s) \/ Fifo!Lose(k)
  PROVE  WireInv'
<1>. DEFINE m == [kind |-> k, seq |-> seq_[k], size |-> s]
<1>1. /\ wire \in Seq(WireItem) /\ Pending \in Seq(WireItem)
      /\ seq_ \in [Kinds -> Nat] /\ m \in Message /\ m \in WireItem
      /\ m.kind = k /\ m.seq = seq_[k]
  BY WireTypes DEF TypeOK, Message
<1>2. seq_' = [seq_ EXCEPT ![k] = @ + 1]
  BY DEF Fifo!Put, Fifo!Lose
<1>3. \A q \in Kinds : seq_'[q] \in Nat /\ seq_[q] <= seq_'[q]
  BY <1>1, <1>2
<1>4. \A t \in Seq(WireItem) : Numbered(t) =>
        \A i \in 1 .. Len(t) : t[i].kind \in Kinds => t[i].seq < seq_'[t[i].kind]
  <2>1. SUFFICES ASSUME NEW t \in Seq(WireItem), Numbered(t),
                        NEW i \in 1 .. Len(t), t[i].kind \in Kinds
                 PROVE  t[i].seq < seq_'[t[i].kind]
    OBVIOUS
  <2>2. t[i].seq \in Nat /\ t[i].seq < seq_[t[i].kind] /\ seq_[t[i].kind] \in Nat
    <3>1. t[i] \in WireItem
      BY <2>1
    <3>2. t[i].seq \in Nat
      BY <3>1 DEF WireItem
    <3>. QED BY <1>1, <2>1, <3>2 DEF Numbered
  <2>. QED BY <1>3, <2>1, <2>2
<1>5. Numbered(wire)'
  BY <1>1, <1>4 DEF WireInv, Numbered
<1>6. CASE Fifo!Lose(k)
  <2>1. Pending' = Pending
    BY <1>6 DEF Fifo!Lose
  <2>2. Numbered(Pending)'
    BY <1>1, <1>4, <2>1 DEF WireInv, Numbered
  <2>. QED BY <1>5, <2>1, <2>2 DEF WireInv, Ascending, Below, NoConfig
<1>7. CASE Fifo!Put(k, s)
  <2>1. Pending' = Append(Pending, m)
    BY <1>7 DEF Fifo!Put
  <2>2. /\ Len(Pending) \in Nat /\ Len(Pending') = Len(Pending) + 1
        /\ Pending'[Len(Pending) + 1] = m
        /\ \A i \in 1 .. Len(Pending) : Pending'[i] = Pending[i]
    BY <1>1, <2>1, AppendProperties, LenProperties
  <2>3. \A j \in 1 .. Len(Pending') : j \in 1 .. Len(Pending) \/ j = Len(Pending) + 1
    BY <2>2
  <2>4. Ascending(Pending')
    BY <1>1, <2>1, AscendingAppend DEF WireInv, Numbered
  <2>5. Below(wire, Pending')
    BY <1>1, <2>2, <2>3 DEF WireInv, Below, Numbered
  <2>6. Numbered(Pending)'
    <3>1. SUFFICES ASSUME NEW j \in 1 .. Len(Pending'), Pending'[j].kind \in Kinds
                   PROVE  Pending'[j].seq < seq_'[Pending'[j].kind]
      BY DEF Numbered
    <3>2. CASE j \in 1 .. Len(Pending)
      BY <1>1, <1>4, <2>2, <3>1, <3>2 DEF WireInv
    <3>3. CASE j = Len(Pending) + 1
      BY <1>1, <1>2, <2>2, <3>1, <3>3
    <3>. QED BY <2>3, <3>1, <3>2, <3>3
  <2>. QED BY <1>5, <2>4, <2>5, <2>6 DEF WireInv, Ascending, Below, NoConfig
<1>. QED BY <1>6, <1>7

LEMMA WireSend ==
  ASSUME StructInv, WireInv, SendOk
  PROVE  WireInv'
<1>0. TypeOK /\ Fifo!Take /\ seq_' = seq_ /\ config_sent' = config_sent /\ pc' = "top"
  BY FifoSend DEF StructInv, SendOk
<1>1. wire \in Seq(WireItem) /\ Pending \in Seq(Message) /\ Pending # <<>>
  BY <1>0, WireTypes DEF Fifo!Take
<1>. DEFINE m == Head(Pending)
<1>2. /\ m \in Message /\ m = Pending[1]
      /\ Len(Pending) \in Nat /\ Len(Pending) > 0
      /\ Pending' \in Seq(Message) /\ Len(Pending') = Len(Pending) - 1
      /\ \A i \in 1 .. Len(Pending') : Pending'[i] = Pending[i + 1]
  BY <1>0, <1>1, HeadTailProperties DEF Fifo!Take
<1>3. wire' = Append(wire, m)
  <2>1. message # <<>>
    BY DEF StructInv, HandMatchesPc, SendOk
  <2>2. message[1] \in Message /\ message = <<message[1]>>
    BY <1>0, <2>1, MessageInHand
  <2>3. message \o memory_queue_ \in Seq(Message) /\ memory_queue_ \o spool \in Seq(Message)
    BY <1>0, ConcatProperties DEF TypeOK
  <2>4. Pending = message \o (memory_queue_ \o spool)
    <3>1. /\ message \in Seq(Message) /\ memory_queue_ \in Seq(Message)
          /\ spool \in Seq(Message)
      BY <1>0 DEF TypeOK
    <3>. QED BY ONLY <3>1, ConcatAssociative DEF Pending
  <2>5. m = message[1]
    BY <2>2, <2>3, <2>4, SingletonConcat
  <2>6. message[1] \in WireItem /\ wire' = wire \o <<message[1]>>
    BY <1>0, <2>2, WireTypes DEF SendOk
  <2>. QED BY <1>1, <2>5, <2>6, AppendIsConcat
<1>. HIDE DEF m
<1>4. m \in WireItem /\ m.kind \in Kinds /\ m.kind # "video_config"
  BY <1>0, <1>2, WireTypes, VideoConfigIsNoKind DEF Message
<1>5. /\ Len(wire) \in Nat /\ Len(wire') = Len(wire) + 1 /\ wire'[Len(wire) + 1] = m
      /\ \A i \in 1 .. Len(wire) : wire'[i] = wire[i]
  BY <1>1, <1>3, <1>4, AppendProperties, LenProperties
<1>6. \A i \in 1 .. Len(wire') : i \in 1 .. Len(wire) \/ i = Len(wire) + 1
  BY <1>5
<1>7. 1 \in 1 .. Len(Pending) /\ \A j \in 1 .. Len(Pending') : j + 1 \in 1 .. Len(Pending) /\ 1 < j + 1
  BY <1>2
<1>8. Ascending(wire')
  BY <1>1, <1>2, <1>3, <1>4, <1>7, AscendingAppend DEF WireInv, Below
<1>9. Ascending(Pending')
  <2>1. \A i, j \in 1 .. Len(Pending') : i < j => i + 1 < j + 1
    BY <1>2
  <2>. QED BY <1>2, <1>7, <2>1 DEF WireInv, Ascending
<1>10. Below(wire', Pending')
  <2>1. SUFFICES ASSUME NEW i \in 1 .. Len(wire'), NEW j \in 1 .. Len(Pending'),
                        wire'[i].kind = Pending'[j].kind
                 PROVE  wire'[i].seq < Pending'[j].seq
    BY DEF Below
  <2>2. CASE i \in 1 .. Len(wire)
    BY <1>2, <1>5, <1>7, <2>1, <2>2 DEF WireInv, Below
  <2>3. CASE i = Len(wire) + 1
    BY <1>2, <1>5, <1>7, <2>1, <2>3 DEF WireInv, Ascending
  <2>. QED BY <1>6, <2>2, <2>3
<1>11. Numbered(wire)'
  BY <1>0, <1>2, <1>5, <1>6, <1>7 DEF WireInv, Numbered
<1>12. Numbered(Pending)'
  BY <1>0, <1>2, <1>7 DEF WireInv, Numbered
<1>13. ~config_sent => NoConfig(wire')
  BY <1>4, <1>5, <1>6 DEF WireInv, NoConfig
<1>. QED BY <1>0, <1>8, <1>9, <1>10, <1>11, <1>12, <1>13 DEF WireInv

LEMMA WireConfig ==
  ASSUME TypeOK, WireInv, SendConfigOk
  PROVE  WireInv'
<1>. DEFINE c == ConfigMessage(config_copy)
<1>1. /\ wire \in Seq(WireItem) /\ Pending \in Seq(Message)
      /\ c \in WireItem /\ c.kind = "video_config" /\ c.kind \notin Kinds
  BY WireTypes, VideoConfigIsNoKind DEF TypeOK, ConfigMessage, WireItem
<1>2. /\ wire' = Append(wire, c) /\ NoConfig(wire) /\ pc' = "pop" /\ config_sent' = TRUE
      /\ seq_' = seq_ /\ Pending' = Pending
  BY DEF SendConfigOk, WireInv, Pending
<1>. HIDE DEF c
<1>3. /\ Len(wire) \in Nat /\ Len(wire') = Len(wire) + 1 /\ wire'[Len(wire) + 1] = c
      /\ \A i \in 1 .. Len(wire) : wire'[i] = wire[i]
  BY <1>1, <1>2, AppendProperties, LenProperties
<1>4. \A i \in 1 .. Len(wire') : i \in 1 .. Len(wire) \/ i = Len(wire) + 1
  BY <1>3
<1>5. Ascending(wire')
  BY <1>1, <1>2, AscendingAppend DEF WireInv, NoConfig
<1>6. \A j \in 1 .. Len(Pending) : Pending[j].kind # c.kind
  <2>1. SUFFICES ASSUME NEW j \in 1 .. Len(Pending)
                 PROVE  Pending[j].kind \in Kinds
    BY <1>1
  <2>2. Pending[j] \in Message
    BY <1>1
  <2>. QED BY <2>2 DEF Message
<1>7. Below(wire', Pending')
  <2>1. SUFFICES ASSUME NEW i \in 1 .. Len(wire'), NEW j \in 1 .. Len(Pending),
                        wire'[i].kind = Pending[j].kind
                 PROVE  wire'[i].seq < Pending[j].seq
    BY <1>2 DEF Below
  <2>2. i \in 1 .. Len(wire) /\ wire'[i] = wire[i]
    BY <1>3, <1>4, <1>6, <2>1
  <2>. QED BY <2>1, <2>2 DEF WireInv, Below
<1>8. Numbered(wire)'
  BY <1>1, <1>2, <1>3, <1>4 DEF WireInv, Numbered
<1>. QED BY <1>2, <1>5, <1>7, <1>8 DEF WireInv, Ascending, Numbered

LEMMA WireStep ==
  ASSUME StructInv, WireInv, [Next]_vars
  PROVE  WireInv'
<1>0. TypeOK
  BY DEF StructInv
<1>1. CASE \E k \in Kinds, s \in Sizes : Write(k, s)
  <2>1. PICK k \in Kinds, s \in Sizes : Write(k, s)
    BY <1>1
  <2>2. UNCHANGED <<wire, config_sent, pc>> /\ (Fifo!Put(k, s) \/ Fifo!Lose(k))
    BY <2>1, FifoWrite DEF Write
  <2>. QED BY <1>0, <2>2, WireWrite
<1>2. CASE SendOk
  BY <1>2, WireSend
<1>3. CASE SendConfigOk
  BY <1>0, <1>3, WireConfig
<1>4. CASE ConnectOk
  <2>1. wire' = <<>> /\ pc' = "config" /\ Pending' = Pending /\ seq_' = seq_
    BY <1>4 DEF ConnectOk, Pending
  <2>2. \A i \in 1 .. Len(wire') : FALSE
    BY <2>1
  <2>3. Ascending(wire') /\ Below(wire', Pending') /\ NoConfig(wire')
    BY <2>2 DEF Ascending, Below, NoConfig
  <2>4. Numbered(wire)' /\ Numbered(Pending)'
    BY <2>1, <2>2 DEF Numbered, WireInv
  <2>. QED BY <2>1, <2>3, <2>4 DEF WireInv, Ascending
<1>5. ASSUME UNCHANGED <<seq_, Pending, wire, config_sent>>,
             pc' = "send_config" => ~config_sent
      PROVE  WireInv'
  BY <1>5 DEF WireInv, Ascending, Below, Numbered, NoConfig
<1>6. CASE PopMemory \/ PopSpool \/ RequeueFront
  <2>1. UNCHANGED <<seq_, Pending, wire, config_sent>> /\ pc' # "send_config"
    BY <1>6, FifoPop, FifoRequeue DEF PopMemory, PopSpool, RequeueFront
  <2>. QED BY <1>5, <2>1
<1>7. CASE CheckConfig
  BY <1>5, <1>7 DEF CheckConfig, Pending
<1>8. CASE LoopTop \/ ConnectFail \/ SendConfigFail \/ PopNothing
           \/ WaitReturns \/ SendFail \/ Exit
  <2>1. UNCHANGED <<seq_, Pending, wire, config_sent>> /\ pc' # "send_config"
    BY <1>8 DEF LoopTop, ConnectFail, SendConfigFail, PopNothing, WaitReturns,
                SendFail, Disconnect, Exit, Pending
  <2>. QED BY <1>5, <2>1
<1>9. CASE WriteVideoConfig \/ Close \/ DeadlinePasses \/ PeerStall \/ UNCHANGED vars
  <2>1. UNCHANGED <<seq_, Pending, wire, config_sent, pc>>
    BY <1>9 DEF WriteVideoConfig, Close, DeadlinePasses, PeerStall, vars, Pending
  <2>. QED BY <1>5, <2>1 DEF WireInv
<1>. QED
  BY <1>1, <1>2, <1>3, <1>4, <1>6, <1>7, <1>8, <1>9
     DEF Next, Writers, Sender, Terminated

(* On every connection the sequence numbers of each message type ascend,   *)
(* and VIDEO_CONFIG is sent at most once (PROTOCOL.md, seq).               *)
THEOREM WireIsAscending == Spec => []WireAscending
<1>1. Init => WireInv
  <2>1. SUFFICES ASSUME Init PROVE WireInv
    OBVIOUS
  <2>2. wire = <<>> /\ Pending = <<>> /\ pc = "top"
    BY <2>1, EmptySequence, ConcatEmptySeq DEF Init, Pending
  <2>. QED BY <2>2 DEF WireInv, Ascending, Below, Numbered, NoConfig
<1>2. StructInv /\ WireInv /\ [Next]_vars => WireInv'
  BY WireStep
<1>3. WireInv => WireAscending
  BY DEF WireInv, Ascending, WireAscending
<1>. QED BY <1>1, <1>2, <1>3, StructCorrect, PTL DEF Spec

-----------------------------------------------------------------------------
(* Shutdown.                                                               *)

ShutdownInv == OverflowIffSpooled /\ (shutting_down => ~running_)

LEMMA ShutdownStep ==
  ASSUME SpoolOpenOutcomes = {"both"}, StructInv, ShutdownInv, [Next]_vars
  PROVE  ShutdownInv'
<1>1. OverflowIffSpooled'
  BY OverflowStep DEF ShutdownInv
<1>2. CASE LoopTop
  BY <1>1, <1>2 DEF ShutdownInv, LoopTop
<1>3. CASE shutting_down' = shutting_down /\ (running_' = running_ \/ running_' = FALSE)
  BY <1>1, <1>3 DEF ShutdownInv
<1>. QED
  BY <1>2, <1>3
     DEF Next, Writers, Write, WriteVideoConfig, Close, DeadlinePasses, PeerStall,
         Terminated, vars, Sender, ConnectOk, ConnectFail, CheckConfig,
         SendConfigOk, SendConfigFail, PopMemory, PopSpool, PopNothing,
         WaitReturns, SendOk, SendFail, RequeueFront, Exit

LEMMA ExitForCause ==
  ASSUME SpoolOpenOutcomes = {"both"}, StructInv, ShutdownInv, [Next]_vars,
         pc # "exit", pc' = "exit"
  PROVE  ~running_ /\ (Pending = <<>> \/ deadline_passed \/ ~connected)
<1>1. LoopTop \/ PopNothing
  BY DEF Next, Writers, Write, WriteVideoConfig, Close, DeadlinePasses, PeerStall,
         Terminated, vars, Sender, ConnectOk, ConnectFail, CheckConfig,
         SendConfigOk, SendConfigFail, PopMemory, PopSpool,
         WaitReturns, SendOk, SendFail, RequeueFront, Exit
<1>2. message = <<>>
  BY <1>1 DEF StructInv, HandMatchesPc, LoopTop, PopNothing
<1>3. ASSUME memory_queue_ = <<>>, spool = <<>> PROVE Pending = <<>>
  BY <1>2, <1>3, EmptySequence, ConcatEmptySeq DEF Pending
<1>4. CASE LoopTop
  BY <1>3, <1>4 DEF LoopTop, HasQueuedData, ShutdownInv, OverflowIffSpooled
<1>5. CASE PopNothing
  BY <1>3, <1>5 DEF PopNothing, SpoolReadable, ShutdownInv, OverflowIffSpooled
<1>. QED BY <1>1, <1>4, <1>5

(* With a disk that opens the spool, the sender leaves its loop only after *)
(* close(), and with messages unsent only if the five seconds are over or  *)
(* the connection is down.                                                 *)
THEOREM SenderGivesUpOnlyForCause ==
  ASSUME SpoolOpenOutcomes = {"both"}
  PROVE  Spec => GivesUpOnlyForCause
<1>1. Init => ShutdownInv
  BY DEF Init, ShutdownInv, OverflowIffSpooled
<1>2. StructInv /\ ShutdownInv /\ [Next]_vars => ShutdownInv'
  BY ShutdownStep
<1>3. StructInv /\ ShutdownInv /\ [Next]_vars =>
        [pc # "exit" /\ pc' = "exit" =>
           /\ ~running_
           /\ Pending = <<>> \/ deadline_passed \/ ~connected]_vars
  BY ExitForCause
<1>. QED BY <1>1, <1>2, <1>3, StructCorrect, PTL DEF Spec, GivesUpOnlyForCause
=============================================================================
