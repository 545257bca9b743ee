---------------------------- MODULE MCWireFormat ----------------------------
(***************************************************************************)
(* Three-bit bytes, a five-bit word (its third group keeps one bit, as the  *)
(* tenth of the code's does), three-bit indexes.                            *)
(***************************************************************************)
EXTENDS WireFormat

Avro == [kind |-> "Id", bytes |-> <<1>>]
Proto == [kind |-> "Id", bytes |-> <<0>>]
ProtoGuid == [kind |-> "Guid", bytes |-> <<3, 0>>]
MCKeys == {Avro, Proto, ProtoGuid}
MCTypeOf == [k \in MCKeys |-> IF k = Avro THEN "Avro" ELSE "Protobuf"]
\* Messages of the file and nested ones; the last three are no message's path.
MCDescriptors == {<<4, 0>>, <<4, 1>>, <<4, 0, 3, 2>>, <<4, 1, 3, 0, 3, 0>>,
                  <<4>>, <<5, 0>>, <<4, 0, 4, 1>>}
MCExplicit == {<<>>, <<7>>, <<7, 0>>}
MCPayloads == {<<>>, <<0>>, <<1, 4>>, <<7, 7, 2>>}
=============================================================================
