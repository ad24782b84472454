------------------------------ MODULE PacketPb ------------------------------
(***************************************************************************)
(* The codec of load-test/packet_pb.js, generated from load-test's copy of *)
(* packet.proto: how the JavaScript client holds a Packet, a Message, an   *)
(* Event and a Data, reads them from the wire and writes them.             *)
(*                                                                         *)
(* An object is the array jspb.Message keeps its fields in: field number   *)
(* -> value, Null where nothing is set; a sub-message is the array of its  *)
(* wrapper.  Bytes are the sequence of their fields <<number, value>>, the *)
(* value of a sub-message being such a sequence itself.  Varints, tags and *)
(* UTF-8 are left out, and so is a field whose wire type is not the one    *)
(* the reader expects: both sides are generated from the same types.  What *)
(* a number loses on its way into JavaScript is not left out.              *)
(***************************************************************************)
EXTENDS Integers, Sequences

CONSTANTS Null,        \* JavaScript's null and undefined
          Exact        \* integers up to here are numbers of JavaScript: 2^53

ASSUME ExactAssumption == Exact \in Nat \ {0}

-----------------------------------------------------------------------------
(* google-protobuf.js, jspb.Message: a scalar that is set to its default is    *)
(* stored as null.                                                             *)

GetFieldWithDefault(m, n, default) == IF m[n] = Null THEN default ELSE m[n]

SetFieldIgnoringDefault(m, n, v, default) ==
    [m EXCEPT ![n] = IF v = default THEN Null ELSE v]

SetProto3IntField(m, n, v)    == SetFieldIgnoringDefault(m, n, v, 0)
SetProto3StringField(m, n, v) == SetFieldIgnoringDefault(m, n, v, "")
SetProto3EnumField(m, n, v)   == SetFieldIgnoringDefault(m, n, v, 0)

GetWrapperField(m, n)    == m[n]
SetWrapperField(m, n, w) == [m EXCEPT ![n] = w]

(* jspb.BinaryWriter: one field; the generated code writes it only when it     *)
(* differs from `default`.                                                     *)
Written(n, v, default) == IF v = default THEN <<>> ELSE << <<n, v>> >>

-----------------------------------------------------------------------------
(* google-protobuf.js, the 64-bit integers.  joinInt64 makes a double of the   *)
(* two halves, so that an integer beyond Exact becomes the nearest multiple of *)
(* the distance doubles have there, an even multiple when two are as near.     *)
Int64 == -(1024 * Exact) .. 1024 * Exact - 1

Spacings   == {1, 2, 4, 8, 16, 32, 64, 128, 256, 512, 1024}
Spacing(m) == CHOOSE s \in Spacings: m =< Exact * s /\ (s = 1 \/ Exact * s < 2 * m)

Nearest(m) ==
    LET s == Spacing(m)
        q == m \div s
        r == m % s
    IN  IF 2 * r > s \/ (2 * r = s /\ q % 2 = 1) THEN (q + 1) * s ELSE q * s

ReadInt64(v) == IF v < 0 THEN -Nearest(-v) ELSE Nearest(v)

(* writeInt64 asserts that the number is in the range, which is one short of   *)
(* what ReadInt64 may give, and throws.                                        *)
CanWriteInt64(v) == v \in Int64

-----------------------------------------------------------------------------
(* proto.Message *)

NewMessage == [n \in 1 .. 3 |-> Null]

MessageGetType(m)         == GetFieldWithDefault(m, 1, 0)
MessageSetType(m, v)      == SetProto3EnumField(m, 1, v)
MessageGetContent(m)      == GetFieldWithDefault(m, 2, "")
MessageSetContent(m, v)   == SetProto3StringField(m, 2, v)
MessageGetTimestamp(m)    == GetFieldWithDefault(m, 3, 0)
MessageSetTimestamp(m, v) == SetProto3IntField(m, 3, v)

MessageToObject(m) == [type      |-> GetFieldWithDefault(m, 1, 0),
                       content   |-> GetFieldWithDefault(m, 2, ""),
                       timestamp |-> GetFieldWithDefault(m, 3, 0)]

(* One turn of the reader's loop; OTHER is reader.skipField.  Of the loop,      *)
(* read[n] is the object after n fields.                                       *)
MessageReadField(m, f) ==
    CASE f[1] = 1 -> MessageSetType(m, f[2])
      [] f[1] = 2 -> MessageSetContent(m, f[2])
      [] f[1] = 3 -> MessageSetTimestamp(m, ReadInt64(f[2]))
      [] OTHER    -> m

MessageFromReader(bytes) ==
    LET read[n \in 0 .. Len(bytes)] ==
          IF n = 0 THEN NewMessage ELSE MessageReadField(read[n - 1], bytes[n])
    IN  read[Len(bytes)]

(* Mutant: the timestamp is compared with an unset field, not with zero. *)
MessageToWriterEager(m) ==
    Written(1, MessageGetType(m), 0)
      \o Written(2, MessageGetContent(m), "")
      \o Written(3, MessageGetTimestamp(m), Null)

MessageToWriter(m) ==
    Written(1, MessageGetType(m), 0)
      \o Written(2, MessageGetContent(m), "")
      \o Written(3, MessageGetTimestamp(m), 0)

-----------------------------------------------------------------------------
(* proto.Event *)

NewEvent == [n \in 1 .. 4 |-> Null]

EventGetChannelid(e)    == GetFieldWithDefault(e, 1, "")
EventSetChannelid(e, v) == SetProto3StringField(e, 1, v)
EventGetUserid(e)       == GetFieldWithDefault(e, 2, "")
EventSetUserid(e, v)    == SetProto3StringField(e, 2, v)
EventGetType(e)         == GetFieldWithDefault(e, 3, 0)
EventSetType(e, v)      == SetProto3EnumField(e, 3, v)
EventGetTimestamp(e)    == GetFieldWithDefault(e, 4, 0)
EventSetTimestamp(e, v) == SetProto3IntField(e, 4, v)

EventToObject(e) == [channelid |-> GetFieldWithDefault(e, 1, ""),
                     userid    |-> GetFieldWithDefault(e, 2, ""),
                     type      |-> GetFieldWithDefault(e, 3, 0),
                     timestamp |-> GetFieldWithDefault(e, 4, 0)]

EventReadField(e, f) ==
    CASE f[1] = 1 -> EventSetChannelid(e, f[2])
      [] f[1] = 2 -> EventSetUserid(e, f[2])
      [] f[1] = 3 -> EventSetType(e, f[2])
      [] f[1] = 4 -> EventSetTimestamp(e, ReadInt64(f[2]))
      [] OTHER    -> e

EventFromReader(bytes) ==
    LET read[n \in 0 .. Len(bytes)] ==
          IF n = 0 THEN NewEvent ELSE EventReadField(read[n - 1], bytes[n])
    IN  read[Len(bytes)]

EventToWriter(e) ==
    Written(1, EventGetChannelid(e), "")
      \o Written(2, EventGetUserid(e), "")
      \o Written(3, EventGetType(e), 0)
      \o Written(4, EventGetTimestamp(e), 0)

-----------------------------------------------------------------------------
(* proto.Data *)

NewData == [n \in 1 .. 4 |-> Null]

DataGetChannelid(d)    == GetFieldWithDefault(d, 1, "")
DataSetChannelid(d, v) == SetProto3StringField(d, 1, v)
DataGetContent(d)      == GetFieldWithDefault(d, 2, "")
DataSetContent(d, v)   == SetProto3StringField(d, 2, v)
DataGetMessageid(d)    == GetFieldWithDefault(d, 3, "")
DataSetMessageid(d, v) == SetProto3StringField(d, 3, v)
DataGetTimestamp(d)    == GetFieldWithDefault(d, 4, 0)
DataSetTimestamp(d, v) == SetProto3IntField(d, 4, v)

DataToObject(d) == [channelid |-> GetFieldWithDefault(d, 1, ""),
                    content   |-> GetFieldWithDefault(d, 2, ""),
                    messageid |-> GetFieldWithDefault(d, 3, ""),
                    timestamp |-> GetFieldWithDefault(d, 4, 0)]

DataReadField(d, f) ==
    CASE f[1] = 1 -> DataSetChannelid(d, f[2])
      [] f[1] = 2 -> DataSetContent(d, f[2])
      [] f[1] = 3 -> DataSetMessageid(d, f[2])
      [] f[1] = 4 -> DataSetTimestamp(d, ReadInt64(f[2]))
      [] OTHER    -> d

DataFromReader(bytes) ==
    LET read[n \in 0 .. Len(bytes)] ==
          IF n = 0 THEN NewData ELSE DataReadField(read[n - 1], bytes[n])
    IN  read[Len(bytes)]

DataToWriter(d) ==
    Written(1, DataGetChannelid(d), "")
      \o Written(2, DataGetContent(d), "")
      \o Written(3, DataGetMessageid(d), "")
      \o Written(4, DataGetTimestamp(d), 0)

-----------------------------------------------------------------------------
(* proto.Packet *)

NewPacket == [n \in 1 .. 4 |-> Null]

PacketGetDatatype(p)     == GetFieldWithDefault(p, 1, 0)
PacketSetDatatype(p, v)  == SetProto3EnumField(p, 1, v)
PacketGetTimestamp(p)    == GetFieldWithDefault(p, 2, 0)
PacketSetTimestamp(p, v) == SetProto3IntField(p, 2, v)
PacketGetMessage(p)      == GetWrapperField(p, 3)
PacketSetMessage(p, m)   == SetWrapperField(p, 3, m)
PacketGetEvent(p)        == GetWrapperField(p, 4)
PacketSetEvent(p, e)     == SetWrapperField(p, 4, e)

PacketToObject(p) ==
    LET m == PacketGetMessage(p)
        e == PacketGetEvent(p)
    IN  [datatype  |-> GetFieldWithDefault(p, 1, 0),
         timestamp |-> GetFieldWithDefault(p, 2, 0),
         message   |-> IF m = Null THEN Null ELSE MessageToObject(m),
         event     |-> IF e = Null THEN Null ELSE EventToObject(e)]

(* Mutant: generated from an older proto file, which had no message. *)
PacketReadFieldStale(p, f) ==
    CASE f[1] = 1 -> PacketSetDatatype(p, f[2])
      [] f[1] = 2 -> PacketSetTimestamp(p, ReadInt64(f[2]))
      [] f[1] = 4 -> PacketSetEvent(p, EventFromReader(f[2]))
      [] OTHER    -> p

PacketReadField(p, f) ==
    CASE f[1] = 1 -> PacketSetDatatype(p, f[2])
      [] f[1] = 2 -> PacketSetTimestamp(p, ReadInt64(f[2]))
      [] f[1] = 3 -> PacketSetMessage(p, MessageFromReader(f[2]))
      [] f[1] = 4 -> PacketSetEvent(p, EventFromReader(f[2]))
      [] OTHER    -> p

PacketFromReader(bytes) ==
    LET read[n \in 0 .. Len(bytes)] ==
          IF n = 0 THEN NewPacket ELSE PacketReadField(read[n - 1], bytes[n])
    IN  read[Len(bytes)]

PacketToWriter(p) ==
    LET m == PacketGetMessage(p)
        e == PacketGetEvent(p)
    IN  Written(1, PacketGetDatatype(p), 0)
          \o Written(2, PacketGetTimestamp(p), 0)
          \o (IF m = Null THEN <<>> ELSE << <<3, MessageToWriter(m)>> >>)
          \o (IF e = Null THEN <<>> ELSE << <<4, EventToWriter(e)>> >>)
=============================================================================
