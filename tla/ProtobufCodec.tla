----------------------------- MODULE ProtobufCodec -----------------------------
(***************************************************************************)
(* ProtobufCodec (src/ai/2048/codec.cc, codec.h): messages as frames of a  *)
(* byte stream. Each field of the frame is one unit here: its length, the  *)
(* length of the type name, the name, the data and the check sum, which is *)
(* abstracted to whether it is the one of the units before it.             *)
(***************************************************************************)
EXTENDS Naturals, Sequences

CONSTANTS kMaxMessageLen,  \* 64 MB
          KnownTypes       \* the names createMessage finds

kHeaderLen == 1
kMinMessageLen == 2 * kHeaderLen + 1   \* nameLen, typeName and checkSum

Unit(field, value) == [field |-> field, value |-> value]

\* A frame of the stream, field by field.
Frame(len, nameLen, typeName, data, checkSum) ==
  <<Unit("len", len), Unit("nameLen", nameLen), Unit("typeName", typeName),
    Unit("data", data), Unit("checkSum", checkSum)>>

fillEmptyBuffer(message) == Frame(4, 1, message.type, message, TRUE)

\* A faulty parse: the check sum is not compared.
parseNoCheckSum(frame) ==
  LET len == Len(frame) IN
  IF ~(frame[1].value \in 1..(len - 2 * kHeaderLen)) THEN "kInvalidNameLen"
  ELSE IF frame[2].value \notin KnownTypes THEN "kUnknownMessageType"
  ELSE IF frame[3].value.type # frame[2].value THEN "kParseError"
  ELSE "kNoError"

\* parse: the check sum, which ends the frame, then the name's length, then the type, then the data
\* (which protobuf refuses if it is not a message of that type).
parse(frame) ==
  LET len == Len(frame) IN
  IF ~(frame[len].field = "checkSum" /\ frame[len].value) THEN "kCheckSumError"
  ELSE IF ~(frame[1].value \in 1..(len - 2 * kHeaderLen)) THEN "kInvalidNameLen"
  ELSE IF frame[2].value \notin KnownTypes THEN "kUnknownMessageType"
  ELSE IF frame[3].value.type # frame[2].value THEN "kParseError"
  ELSE "kNoError"

\* A faulty onMessage: the frame of a message is handed on and not retrieved.
onMessageKeepsFrame(buf) ==
  IF Len(buf) < kMinMessageLen + kHeaderLen \/ Len(buf) < buf[1].value + kHeaderLen
  THEN [result |-> "wait", rest |-> buf]
  ELSE [result |-> "message", message |-> buf[kHeaderLen + 3].value, rest |-> buf]

\* One turn of onMessage's loop: wait for more, stop with an error, or hand on
\* a message and retrieve its frame.
onMessage(buf) ==
  LET len == buf[1].value
      error == parse(SubSeq(buf, kHeaderLen + 1, kHeaderLen + len)) IN
  IF Len(buf) < kMinMessageLen + kHeaderLen THEN [result |-> "wait", rest |-> buf]
  ELSE IF len > kMaxMessageLen \/ len < kMinMessageLen
  THEN [result |-> "kInvalidLength", rest |-> buf]
  ELSE IF Len(buf) < len + kHeaderLen THEN [result |-> "wait", rest |-> buf]
  ELSE IF error # "kNoError" THEN [result |-> error, rest |-> buf]
  ELSE [result |-> "message", message |-> buf[kHeaderLen + 3].value,
        rest |-> SubSeq(buf, kHeaderLen + len + 1, Len(buf))]
===============================================================================
