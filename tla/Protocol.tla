------------------------------ MODULE Protocol ------------------------------
(***************************************************************************)
(* The wire protocol as the phone encodes it (mobile/native/src/net/       *)
(* protocol.cpp) and as the server takes it apart again                    *)
(* (arstream_server/protocol.py): operators only.                          *)
(*                                                                         *)
(* The unit is the field, not the byte: put_u16be, put_f32be and the others*)
(* each append one cell, a number cut to the width of its type, and a      *)
(* sample or a point is one cell.  flags and protocol_version, which are   *)
(* constant, are left out of the header.                                   *)
(***************************************************************************)
EXTENDS Naturals, Sequences

CONSTANTS
    U16Values,      \* 2^16: what a uint16 field wraps at
    U32Values       \* 2^32

ASSUME WidthAssumption ==
    U16Values \in Nat \ {0} /\ U32Values \in Nat \ {0} /\ U16Values <= U32Values

VideoConfig == 5
VideoChunk == 16
ImuBatch == 32
PoseSample == 48
PointCloud == 49
CameraIntrinsics == 50

HeaderSize == 3
PoseSize == 7           \* x, y, z, qx, qy, qz, qw
IntrinsicsSize == 6     \* fx, fy, cx, cy, width, height

Cut(s, from) == SubSeq(s, from, Len(s))

-----------------------------------------------------------------------------
(* Encoding.                                                               *)

Put16(n) == <<n % U16Values>>
Put32(n) == <<n % U32Values>>

(* Faulty variant: the length counts the header.                           *)
WrapCountsHeader(type, seq, payload) ==
    Put32(HeaderSize + Len(payload)) \o <<type>> \o Put32(seq) \o payload
(* Header, then payload.                                                   *)
Wrap(type, seq, payload) == Put32(Len(payload)) \o <<type>> \o Put32(seq) \o payload

EncodeVideoConfig(seq, json, sps_pps) ==
    Wrap(VideoConfig, seq, Put16(Len(json)) \o json \o sps_pps)

EncodeVideoChunk(seq, timestamp, is_keyframe, nal) ==
    Wrap(VideoChunk, seq, <<timestamp, IF is_keyframe THEN 1 ELSE 0>> \o nal)

(* All samples are appended; their count keeps 16 bits.                    *)
EncodeImuBatch(seq, samples) == Wrap(ImuBatch, seq, Put16(Len(samples)) \o samples)

EncodePoseSample(seq, timestamp, tracking_state, pose) ==
    Wrap(PoseSample, seq, <<timestamp, tracking_state>> \o pose)

EncodePointCloud(seq, timestamp, points) ==
    Wrap(PointCloud, seq, <<timestamp>> \o Put32(Len(points)) \o points)

EncodeCameraIntrinsics(seq, intrinsics) == Wrap(CameraIntrinsics, seq, intrinsics)

-----------------------------------------------------------------------------
(* Framing.  Fewer cells than a header, or than the header announces: no   *)
(* message yet.                                                            *)

HasHeader(buffer) == Len(buffer) >= HeaderSize
Total(buffer) == HeaderSize + buffer[1]
HasMessage(buffer) == HasHeader(buffer) /\ Len(buffer) >= Total(buffer)

(* next_message: the message at the head of a buffer that has one, and     *)
(* what is left.                                                           *)
NextMessage(buffer) ==
    [type |-> buffer[2], seq |-> buffer[3],
     payload |-> SubSeq(buffer, HeaderSize + 1, Total(buffer))]
AfterMessage(buffer) == Cut(buffer, Total(buffer) + 1)

-----------------------------------------------------------------------------
(* Decoding.  A set of at most one value: empty when unpack_from would read*)
(* past the end (the C++ decoders return false on the same payloads).      *)

Unless(short, value) == IF short THEN {} ELSE {value}

(* Slices do not fail: a short json part does, when it is parsed.          *)
DecodeVideoConfig(p) ==
    Unless(Len(p) < 1 \/ Len(p) < 1 + p[1],
           [json |-> SubSeq(p, 2, 1 + p[1]), sps_pps |-> Cut(p, 2 + p[1])])

DecodeVideoChunk(p) ==
    Unless(Len(p) < 2, [timestamp |-> p[1], is_keyframe |-> p[2] % 2 = 1, nal |-> Cut(p, 3)])

(* Faulty variant: the count is taken to include the timestamp.            *)
DecodePointCloudShort(p) ==
    Unless(Len(p) < 2 \/ Len(p) < 2 + p[2],
           [timestamp |-> p[1], points |-> SubSeq(p, 3, 1 + p[2])])
DecodePointCloud(p) ==
    Unless(Len(p) < 2 \/ Len(p) < 2 + p[2],
           [timestamp |-> p[1], points |-> SubSeq(p, 3, 2 + p[2])])

DecodeImuBatch(p) == Unless(Len(p) < 1 \/ Len(p) < 1 + p[1], [samples |-> SubSeq(p, 2, 1 + p[1])])

DecodePoseSample(p) ==
    Unless(Len(p) < 2 + PoseSize,
           [timestamp |-> p[1], tracking_state |-> p[2], pose |-> SubSeq(p, 3, 2 + PoseSize)])

DecodeCameraIntrinsics(p) ==
    Unless(Len(p) < IntrinsicsSize, [intrinsics |-> SubSeq(p, 1, IntrinsicsSize)])

(* ClientSession._handle: the decoder of each type it knows.               *)
Known == {VideoConfig, VideoChunk, ImuBatch, PoseSample, PointCloud, CameraIntrinsics}
Decode(m) ==
    CASE m.type = VideoConfig -> DecodeVideoConfig(m.payload)
      [] m.type = VideoChunk -> DecodeVideoChunk(m.payload)
      [] m.type = ImuBatch -> DecodeImuBatch(m.payload)
      [] m.type = PoseSample -> DecodePoseSample(m.payload)
      [] m.type = PointCloud -> DecodePointCloud(m.payload)
      [] m.type = CameraIntrinsics -> DecodeCameraIntrinsics(m.payload)
=============================================================================
