----------------------------- MODULE WireFormat -----------------------------
(***************************************************************************)
(* The wire formats of src/wire.rs and src/glue/mod.rs, byte for byte, and  *)
(* the WireFormatDecoder of src/decoder.rs that takes a record apart.  One  *)
(* record at a time is framed (or comes from a stranger), may be cut short  *)
(* on its way, and is decoded.                                              *)
(*                                                                         *)
(* The widths are parameters, so that the same arithmetic is explored on    *)
(* small numbers: a byte has GroupBits + 1 bits (7 + 1 in the code), a raw  *)
(* varint WordBits (64), an index ValueBits (32), a schema ID IdLen bytes   *)
(* (4) and a GUID or Glue version ID GuidLen bytes (16).                    *)
(***************************************************************************)
EXTENDS Integers, SequencesExt, Powers

CONSTANTS GroupBits, WordBits, ValueBits, IdLen, GuidLen,
          MaxIndexCount,      \* MAX_MESSAGE_INDEX_COUNT
          MaxDecompressed,    \* MAX_DECOMPRESSED_SIZE
          Keys,               \* schema keys, [kind, bytes]
          TypeOf,             \* what the registry answers: Keys -> types
          Descriptors,        \* descriptor paths of the messages, FileDescriptorProto's
          Explicit,           \* message indexes given to the encoder's builder instead
          Payloads,           \* payloads it frames
          ForeignLen          \* the longest record of a stranger

ASSUME WidthsAssumption ==
    /\ {GroupBits, WordBits, ValueBits, IdLen, GuidLen, MaxIndexCount,
        MaxDecompressed, ForeignLen} \subseteq Nat
    /\ GroupBits >= 2                         \* 0, 1, 3 and 5 are bytes
    /\ ValueBits + 1 <= WordBits              \* zigzag_encode fits its u64
    /\ MaxIndexCount >= 1 /\ MaxIndexCount < Pow2[ValueBits]

\* The continuation bit of a varint byte, and the values of a byte, a raw varint
\* and a message index.
More == Pow2[GroupBits]
Byte == 0..(2 * More - 1)
Word == 0..(Pow2[WordBits] - 1)
Index == 0..(Pow2[ValueBits] - 1)

ASSUME ShapesAssumption ==
    /\ Keys \subseteq [kind : {"Id", "Guid"}, bytes : Seq(Byte)]
    /\ \A k \in Keys : Len(k.bytes) = (IF k.kind = "Id" THEN IdLen ELSE GuidLen)
    /\ Payloads \subseteq Seq(Byte)
    /\ Explicit \subseteq Seq(Index)
    /\ \A d \in Descriptors : /\ d \in Seq(Int)
                             /\ \A i \in DOMAIN d : d[i] < Pow2[ValueBits]
    /\ \A p \in Descriptors \cup Explicit : Len(p) < Pow2[ValueBits]

VARIABLES decoder,    \* the backends attached to the WireFormatDecoder
          sent,       \* what was framed, or NoRecord
          frame,      \* the bytes under way
          expected,   \* the path a ProtobufSchemaDecoder was built for, or Anyone
          got         \* what the decoder made of them, or NoRecord

wireVars == <<decoder, sent, frame, expected, got>>

NoRecord == [kind |-> "none"]

\* No ProtobufSchemaDecoder was asked: the WireFormatDecoder takes every message.
Anyone == <<-2>>

MAGIC_BYTE_V0 == 0
MAGIC_BYTE_V1 == 1
GLUE_HEADER_VERSION_BYTE == 3
GLUE_COMPRESSION_NONE_BYTE == 0
GLUE_COMPRESSION_ZLIB_BYTE == 5
GLUE_HEADER_SIZE == 2 + GuidLen

\* Every error of this module is SchemaRegError::wire_format: one value.
Err == [ok |-> FALSE]

After(s, n) == SubSeq(s, n + 1, Len(s))

-----------------------------------------------------------------------------
(***************************************************************************)
(* Varints and ZigZag.                                                      *)
(***************************************************************************)
\* The groups whose shift is below the word's width, and what a group's shift is worth.
MaxGroups == (WordBits + GroupBits - 1) \div GroupBits

Weight[n \in Nat] == IF n = 0 THEN 1 ELSE More * Weight[n - 1]

\* write_varint leaves its loop with the last group that is not zero.
VarintLen(v) == Min({n \in 1..MaxGroups : v < Weight[n]})

writeVarint(v) ==
    [i \in 1..VarintLen(v) |-> ((v \div Weight[i - 1]) % More)
                               + (IF i < VarintLen(v) THEN More ELSE 0)]

ZigzagEncode(n) == 2 * n

\* Odd raw values are negative numbers; the rest must fit the index type.
ZigzagDecode(raw) ==
    IF raw % 2 = 1 \/ raw \div 2 >= Pow2[ValueBits] THEN Err
    ELSE [ok |-> TRUE, value |-> raw \div 2]

\* The group of one byte of the data; there is none past its end.
Group(data, i) == IF i \in DOMAIN data THEN data[i] % More ELSE 0

\* The number the first n bytes after offset spell, least significant first.
Spelled(data, offset) ==
    LET sum[n \in Nat] ==
            IF n = 0 THEN 0 ELSE sum[n - 1] + Group(data, offset + n) * Weight[n - 1]
    IN  sum

\* Mutant of ReadVarint: a varint the data ends in is taken as far as it goes.
ReadsWhatIsThere(data, offset) ==
    LET n == CHOOSE m \in 0..MaxGroups :
                 /\ \A i \in 1..(m - 1) : offset + i <= Len(data) /\ data[offset + i] >= More
                 /\ \/ offset + m = Len(data) /\ (m > 0 => data[offset + m] >= More)
                    \/ m > 0 /\ offset + m <= Len(data) /\ (data[offset + m] < More \/ m = MaxGroups)
    IN  [ok |-> TRUE, consumed |-> n, value |-> Spelled(data, offset)[n] % Pow2[WordBits]]

\* Mutant of ReadVarint: the continuation bit stays in the number.
KeepsContinuation(data, offset) ==
    LET ends == {n \in 1..MaxGroups : /\ offset + n <= Len(data)
                                      /\ data[offset + n] < More}
    IN  IF ends = {} THEN Err
        ELSE [ok |-> TRUE, consumed |-> Min(ends),
              value |-> MapThenSumSet(LAMBDA i : data[offset + i] * Weight[i - 1],
                                      1..Min(ends)) % Pow2[WordBits]]

\* Bits shifted out of the word are lost without an error.
ReadVarint(data, offset) ==
    LET ends == {n \in 1..MaxGroups : /\ offset + n <= Len(data)
                                      /\ data[offset + n] < More}
    IN  IF ends = {} THEN Err      \* truncated, or more groups than the word has
        ELSE [ok |-> TRUE, consumed |-> Min(ends),
              value |-> Spelled(data, offset)[Min(ends)] % Pow2[WordBits]]

-----------------------------------------------------------------------------
(***************************************************************************)
(* The Confluent prefix, the message-index array and the schema-id header.  *)
(***************************************************************************)
EncodedLen(key) == 1 + (IF key.kind = "Id" THEN IdLen ELSE GuidLen)

PutPrefix(key) ==
    <<IF key.kind = "Id" THEN MAGIC_BYTE_V0 ELSE MAGIC_BYTE_V1>> \o key.bytes

DecodeWirePrefix(data) ==
    LET key(kind, n) == IF Len(data) < 1 + n THEN Err
                        ELSE [ok |-> TRUE, consumed |-> 1 + n,
                              key |-> [kind |-> kind, bytes |-> SubSeq(data, 2, 1 + n)]]
        magic == IF data = <<>> THEN -1 ELSE data[1]
    IN  CASE magic = MAGIC_BYTE_V0 -> key("Id", IdLen)
          [] magic = MAGIC_BYTE_V1 -> key("Guid", GuidLen)
          [] OTHER                 -> Err

IsDefault(path) == path \in {<<>>, <<0>>}

\* The bytes of the first k of a sequence of numbers.
Written(numbers) ==
    LET bytes[k \in 0..Len(numbers)] ==
            IF k = 0 THEN <<>> ELSE bytes[k - 1] \o writeVarint(ZigzagEncode(numbers[k]))
    IN  bytes

\* Mutant of PutMessageIndexes: the count is written as it is, only the indexes in ZigZag.
PlainCount(path) ==
    IF IsDefault(path) THEN <<0>>
    ELSE writeVarint(Len(path)) \o Written(path)[Len(path)]

\* Paths are shorter than 2^ValueBits: saturating_count is their length.
PutMessageIndexes(path) ==
    IF IsDefault(path) THEN <<0>> ELSE Written(<<Len(path)>> \o path)[1 + Len(path)]

\* One ZigZag varint.
IndexAt(rest, offset) ==
    LET raw == ReadVarint(rest, offset)
        n   == IF raw.ok THEN ZigzagDecode(raw.value) ELSE Err
    IN  IF n.ok THEN [ok |-> TRUE, value |-> n.value, end |-> offset + raw.consumed] ELSE Err

\* The loop over the indexes, after k turns.
IndexesFrom(rest, start) ==
    LET read[k \in Nat] ==
            IF k = 0 THEN [ok |-> TRUE, path |-> <<>>, end |-> start]
            ELSE LET next == IF read[k - 1].ok THEN IndexAt(rest, read[k - 1].end) ELSE Err
                 IN  IF next.ok
                     THEN [ok |-> TRUE, path |-> Append(read[k - 1].path, next.value),
                           end |-> next.end]
                     ELSE Err
    IN  read

DecodeMessageIndexes(rest) ==
    LET count == IndexAt(rest, 0)
    IN  IF ~count.ok THEN Err
        ELSE IF count.value = 0 THEN [ok |-> TRUE, path |-> <<0>>, end |-> count.end]
        ELSE IF count.value > MaxIndexCount THEN Err
        ELSE IndexesFrom(rest, count.end)[count.value]

\* message_index_path: a descriptor path alternates a field number (4 for a message
\* of the file, 3 for one nested in it) and a position; anything else is refused.
MessageIndexPath(descriptor) ==
    LET half  == Len(descriptor) \div 2
        field(level) == IF level = 1 THEN 4 ELSE 3
    IN  IF /\ half >= 1 /\ Len(descriptor) = 2 * half
           /\ \A level \in 1..half : /\ descriptor[2 * level - 1] = field(level)
                                     /\ descriptor[2 * level] >= 0
        THEN [ok |-> TRUE, path |-> [level \in 1..half |-> descriptor[2 * level]]]
        ELSE Err

\* A path is absent (NoPath) when the header ends with its prefix.
NoPath == <<-1>>

EncodeSchemaIdHeader(key, path) ==
    PutPrefix(key) \o (IF path = NoPath THEN <<>> ELSE PutMessageIndexes(path))

\* The header holds the identifier, the path if any, and nothing else.
DecodeSchemaIdHeader(value) ==
    LET prefix == DecodeWirePrefix(value)
        rest   == After(value, prefix.consumed)
        path   == DecodeMessageIndexes(rest)
    IN  CASE ~prefix.ok -> Err
          [] prefix.ok /\ rest = <<>> -> [ok |-> TRUE, key |-> prefix.key, path |-> NoPath]
          [] prefix.ok /\ rest # <<>> /\ path.ok /\ path.end = Len(rest) ->
                [ok |-> TRUE, key |-> prefix.key, path |-> path.path]
          [] OTHER -> Err

-----------------------------------------------------------------------------
(***************************************************************************)
(* The Glue header.  Zlib is external: a stream is marked, inflates to what *)
(* it was made from, to a prefix of it when it was cut, and anything else   *)
(* is corrupt.                                                              *)
(***************************************************************************)
ZlibMark == 7

Compress(payload) == <<ZlibMark>> \o payload

Inflate(raw) ==
    CASE raw = <<>>                         -> [ok |-> TRUE, bytes |-> <<>>]
      [] raw # <<>> /\ Head(raw) = ZlibMark -> [ok |-> TRUE, bytes |-> Tail(raw)]
      [] OTHER                              -> Err

DecompressZlib(raw) ==
    LET out == Inflate(raw)
    IN  IF out.ok /\ Len(out.bytes) <= MaxDecompressed THEN out ELSE Err

EncodeGlue(id, payload, compression) ==
    <<GLUE_HEADER_VERSION_BYTE,
      IF compression = "None" THEN GLUE_COMPRESSION_NONE_BYTE ELSE GLUE_COMPRESSION_ZLIB_BYTE>>
    \o id \o (IF compression = "None" THEN payload ELSE Compress(payload))

\* Mutant of ValidateGlueHeader: a header with nothing after it is too short.
WantsPayload(data) ==
    IF \/ Len(data) <= GLUE_HEADER_SIZE
       \/ data[1] # GLUE_HEADER_VERSION_BYTE
       \/ data[2] \notin {GLUE_COMPRESSION_NONE_BYTE, GLUE_COMPRESSION_ZLIB_BYTE}
    THEN Err
    ELSE [ok |-> TRUE, id |-> SubSeq(data, 3, GLUE_HEADER_SIZE),
          compression |-> IF data[2] = GLUE_COMPRESSION_NONE_BYTE THEN "None" ELSE "Zlib"]

\* validate_glue_wire_header, used by the strict decoders of glue/mod.rs.
ValidateGlueHeader(data) ==
    IF \/ Len(data) < GLUE_HEADER_SIZE
       \/ data[1] # GLUE_HEADER_VERSION_BYTE
       \/ data[2] \notin {GLUE_COMPRESSION_NONE_BYTE, GLUE_COMPRESSION_ZLIB_BYTE}
    THEN Err
    ELSE [ok |-> TRUE, id |-> SubSeq(data, 3, GLUE_HEADER_SIZE),
          compression |-> IF data[2] = GLUE_COMPRESSION_NONE_BYTE THEN "None" ELSE "Zlib"]

DecodeGlue(data) ==
    LET header  == ValidateGlueHeader(data)
        raw     == After(data, GLUE_HEADER_SIZE)
        payload == IF header.compression = "None" THEN [ok |-> TRUE, bytes |-> raw]
                   ELSE DecompressZlib(raw)
    IN  IF header.ok /\ payload.ok
        THEN [ok |-> TRUE, id |-> header.id, payload |-> payload.bytes]
        ELSE Err

-----------------------------------------------------------------------------
(***************************************************************************)
(* Detection by the first byte, and WireFormatDecoder::decode.              *)
(***************************************************************************)
DetectWireFormat(data) ==
    LET first  == IF data = <<>> THEN -1 ELSE data[1]
        prefix == DecodeWirePrefix(data)
    IN  CASE first \in {MAGIC_BYTE_V0, MAGIC_BYTE_V1} ->
               IF prefix.ok
               THEN [format |-> "Confluent", key |-> prefix.key, offset |-> prefix.consumed]
               ELSE [format |-> "InvalidConfluent"]
          [] first = GLUE_HEADER_VERSION_BYTE ->
               IF /\ Len(data) >= GLUE_HEADER_SIZE
                  /\ data[2] \in {GLUE_COMPRESSION_NONE_BYTE, GLUE_COMPRESSION_ZLIB_BYTE}
               THEN [format |-> "Glue", id |-> SubSeq(data, 3, GLUE_HEADER_SIZE),
                     compression |-> IF data[2] = GLUE_COMPRESSION_NONE_BYTE
                                     THEN "None" ELSE "Zlib",
                     offset |-> GLUE_HEADER_SIZE]
               ELSE [format |-> "InvalidGlue"]
          [] OTHER -> [format |-> "Unknown"]

Message(key, path, payload) ==
    [kind |-> "message", key |-> key, path |-> path, payload |-> payload]

Failed == [kind |-> "error"]

\* Bytes no format claims are handed on as they came.
PassThrough(data) == [kind |-> "raw", payload |-> data]

\* The registry is asked before the indexes are read; a key it does not know is an error.
DecodeConfluent(key, rest) ==
    LET path == DecodeMessageIndexes(rest)
    IN  CASE "Confluent" \notin decoder \/ key \notin Keys -> Failed
          [] "Confluent" \in decoder /\ key \in Keys /\ TypeOf[key] # "Protobuf" ->
                Message(key, NoPath, rest)
          [] OTHER -> IF path.ok THEN Message(key, path.path, After(rest, path.end)) ELSE Failed

\* The Glue backend is looked at before the payload is inflated.
DecodeGlueFrame(detected, raw) ==
    LET key     == [kind |-> "Guid", bytes |-> detected.id]
        payload == IF detected.compression = "None" THEN [ok |-> TRUE, bytes |-> raw]
                   ELSE DecompressZlib(raw)
    IN  IF "Glue" \in decoder /\ payload.ok /\ key \in Keys
        THEN Message(key, NoPath, payload.bytes) ELSE Failed

Decode(data) ==
    LET detected == DetectWireFormat(data)
    IN  CASE detected.format = "Confluent" ->
               DecodeConfluent(detected.key, After(data, detected.offset))
          [] detected.format = "Glue" ->
               DecodeGlueFrame(detected, After(data, detected.offset))
          [] OTHER -> PassThrough(data)

\* ProtobufSchemaDecoder::unframe, which asks no registry.  A decoder built for one
\* descriptor refuses every other message.
Unframe(data, wanted) ==
    LET prefix == DecodeWirePrefix(data)
        rest   == After(data, prefix.consumed)
        path   == IF prefix.ok THEN DecodeMessageIndexes(rest) ELSE Err
    IN  IF prefix.ok /\ path.ok /\ wanted \in {NoPath, path.path}
        THEN Message(prefix.key, path.path, After(rest, path.end)) ELSE Failed

-----------------------------------------------------------------------------
(***************************************************************************)
(* The life of a record.                                                    *)
(***************************************************************************)
EncodeWireFormat(key, payload) == PutPrefix(key) \o payload

EncodeProtobufWireFormat(key, path, payload) ==
    PutPrefix(key) \o PutMessageIndexes(path) \o payload

\* A producer frames with the encoder of its schema's type.
Confluent(key, path, payload) ==
    [kind |-> "frame", key |-> key, path |-> path, payload |-> payload,
     whole |-> IF path = NoPath THEN EncodeWireFormat(key, payload)
               ELSE EncodeProtobufWireFormat(key, path, payload)]

HeaderFramed(key, path) ==
    [kind |-> "header", key |-> key, path |-> path, payload |-> <<>>,
     whole |-> EncodeSchemaIdHeader(key, path)]

Glue(key, payload, compression) ==
    [kind |-> "glue", key |-> key, path |-> NoPath, payload |-> payload,
     compression |-> compression, whole |-> EncodeGlue(key.bytes, payload, compression)]

\* ProtobufSchemaEncoderBuilder::build: the indexes given, or the descriptor's; no
\* encoder is built for a descriptor without a path.
DescriptorPaths == {MessageIndexPath(d).path : d \in {x \in Descriptors : MessageIndexPath(x).ok}}

PathsOf(key) == IF TypeOf[key] = "Protobuf" THEN Explicit \cup DescriptorPaths ELSE {NoPath}

Records ==
    (UNION { {Confluent(k, p, b) : p \in PathsOf(k), b \in Payloads}
             \cup {HeaderFramed(k, p) : p \in PathsOf(k)} : k \in Keys })
    \cup {Glue(k, b, c) : k \in {x \in Keys : x.kind = "Guid"}, b \in Payloads,
                          c \in {"None", "Zlib"}}

WireInit == decoder = {} /\ sent = NoRecord /\ frame = <<>>
        /\ expected = Anyone /\ got = NoRecord

\* WireFormatDecoder::with_confluent and with_glue.
Attach(backend) ==
    /\ sent = NoRecord
    /\ backend \notin decoder
    /\ decoder' = decoder \cup {backend}
    /\ UNCHANGED <<sent, frame, expected, got>>

Produce(record) ==
    /\ sent = NoRecord
    /\ sent' = record /\ frame' = record.whole
    /\ UNCHANGED <<decoder, expected, got>>

\* A record some other program wrote to the topic.
Foreign ==
    /\ sent = NoRecord
    /\ \E n \in 0..ForeignLen : frame' \in SeqOf(Byte, n)
    /\ sent' = [kind |-> "foreign"]
    /\ UNCHANGED <<decoder, expected, got>>

\* The record loses its end on the way.
Cut(n) ==
    /\ sent.kind \in {"frame", "header", "glue"} /\ got = NoRecord
    /\ frame = sent.whole
    /\ frame' = SubSeq(frame, 1, n)
    /\ UNCHANGED <<decoder, sent, expected, got>>

Consume ==
    /\ sent # NoRecord /\ sent.kind # "header" /\ got = NoRecord
    /\ got' = Decode(frame)
    /\ UNCHANGED <<decoder, sent, frame, expected>>

ConsumeHeader ==
    /\ sent.kind = "header" /\ got = NoRecord
    /\ got' = LET h == DecodeSchemaIdHeader(frame)
              IN  IF h.ok THEN Message(h.key, h.path, <<>>) ELSE Failed
    /\ UNCHANGED <<decoder, sent, frame, expected>>

\* with_expected_descriptor, or none.
ConsumeProtobuf ==
    /\ sent # NoRecord /\ sent.kind # "header" /\ got = NoRecord
    /\ expected' \in DescriptorPaths \cup {NoPath}
    /\ got' = Unframe(frame, expected')
    /\ UNCHANGED <<decoder, sent, frame>>

WireNext ==
    \/ \E b \in {"Confluent", "Glue"} : Attach(b)
    \/ \E r \in Records : Produce(r)
    \/ Foreign
    \/ \E n \in 0..(Len(frame) - 1) : Cut(n)
    \/ Consume \/ ConsumeHeader \/ ConsumeProtobuf

WireSpec == WireInit /\ [][WireNext]_wireVars

-----------------------------------------------------------------------------
(***************************************************************************)
(* Properties.                                                              *)
(***************************************************************************)
\* The path a decoder reports for the one that was written: [] is written as [0].
Reported(path) == IF path = <<>> THEN <<0>> ELSE path

\* The limits only the decoding side has: longer paths and larger payloads are
\* framed without an error and refused by every consumer.
Unreadable(r) ==
    \/ r.path # NoPath /\ Len(r.path) > MaxIndexCount
    \/ r.kind = "glue" /\ r.compression = "Zlib" /\ Len(r.payload) > MaxDecompressed

\* What the consumer was set up for: a decoder with the backend, or a
\* ProtobufSchemaDecoder for any message or for this one.
Wanted(r) ==
    \/ r.kind = "header"
    \/ expected = Anyone /\ r.kind = "frame" /\ "Confluent" \in decoder
    \/ expected = Anyone /\ r.kind = "glue" /\ "Glue" \in decoder
    \/ r.kind = "frame" /\ r.path # NoPath /\ expected \in {NoPath, Reported(r.path)}

\* A record that arrives whole is decoded to the key, path and payload it was framed
\* with by every consumer set up for it (encode_* against WireFormatDecoder::decode,
\* ProtobufSchemaDecoder::unframe and decode_schema_id_header), except for what exceeds
\* the decoders' own limits, and that is refused, not misread.
RoundTrip ==
    /\ got # NoRecord /\ sent.kind # "foreign" /\ frame = sent.whole
    /\ Wanted(sent)
    => got = IF Unreadable(sent) THEN Failed
             ELSE Message(sent.key, Reported(sent.path), sent.payload)

\* A Protobuf or header-framed record, whole or cut short, is never taken for another
\* one: the consumer reports an error, hands the bytes on undecoded, or decodes the
\* schema key and the path that were sent with a payload that is a prefix of the one
\* sent; a decoder built for another message refuses it.  Only a header cut at the end
\* of its prefix loses the path unnoticed (decode_schema_id_header reads it as absent).
NeverAnotherMessage ==
    /\ got.kind = "message" /\ sent.kind # "foreign"
    /\ sent.kind = "frame" => sent.path # NoPath
    =>
        /\ got.key = sent.key
        /\ IsPrefix(got.payload, sent.payload)
        /\ expected \in {Anyone, NoPath, Reported(sent.path)}
        /\ \/ got.path = Reported(sent.path)
           \/ sent.kind = "header" /\ Len(frame) = EncodedLen(sent.key) /\ got.path = NoPath

\* Detection by the first byte (detect_wire_format, which parses the Glue header
\* itself) claims exactly the records the strict decoders accept
\* (decode_wire_prefix, validate_glue_wire_header), with the same key, compression
\* and payload.
DetectionAgrees ==
    LET d == DetectWireFormat(frame)
        c == DecodeWirePrefix(frame)
        g == ValidateGlueHeader(frame)
    IN  /\ (d.format = "Confluent") <=> c.ok
        /\ (d.format = "Glue") <=> g.ok
        /\ c.ok => d.key = c.key /\ d.offset = c.consumed
        /\ g.ok => d.id = g.id /\ d.compression = g.compression
        /\ got.kind = "message" /\ expected = Anyone /\ d.format = "Glue" =>
               DecodeGlue(frame) = [ok |-> TRUE, id |-> got.key.bytes, payload |-> got.payload]

\* Reading a varint undoes writing it: whatever bytes arrive, a number of the word's
\* width that read_varint accepts writes back to the same bytes, unless they were
\* padded with zero groups.  Of a wider one it drops bits: see OverflowIsAnError.
ReadUndoesWrite ==
    LET r == ReadVarint(frame, 0)
        n == r.consumed
    IN  r.ok /\ Spelled(frame, 0)[n] < Pow2[WordBits] =>
            \/ writeVarint(r.value) = SubSeq(frame, 1, n)
            \/ n > 1 /\ frame[n] = 0

\* The comment on decode_protobuf_message_indexes: the decoder "returns a wire-format
\* error ... if a value overflows the 32-bit ZigZag domain".  So the count of a message
\* that was decoded is spelled by a number of that domain.  It is not always: see
\* ReadVarint.
OverflowIsAnError ==
    got.kind = "message" /\ got.path # NoPath =>
        LET rest == After(frame, EncodedLen(got.key))
        IN  Spelled(rest, 0)[ReadVarint(rest, 0).consumed] < 2 * Pow2[ValueBits]
=============================================================================
