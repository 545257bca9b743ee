--------------------------- MODULE MCSerdePipeline ---------------------------
(***************************************************************************)
(* Every resolution with every framing, and every codec and strategy with  *)
(* some of them, against registries with and without GUIDs.                *)
(***************************************************************************)
EXTENDS SerdePipeline, TLC

Some(codec, resolution, framing, strategy, guids) ==
  [codec |-> codec, resolution |-> resolution, framing |-> framing, strategy |-> strategy,
   name |-> "record", guids |-> guids, validate |-> TRUE]

SomeConfigs ==
  {Some("avro", "LookupOnly", "SchemaId", "TopicName", FALSE),
   Some("raw", "AutoRegister", "SchemaGuid", "RecordName", FALSE),
   Some("protobuf", "AutoRegister", "SchemaGuid", "TopicRecordName", TRUE),
   Some("json", "AutoRegister", "SchemaId", "ApicurioGroupRecordName", TRUE),
   Some("avro", "LookupOnly", "SchemaGuid", "RecordName", TRUE),
   Some("json", "UseLatestVersion", "SchemaId", "RecordName", TRUE),
   Some("avro", "UseLatestVersion", "SchemaGuid", "RecordName", FALSE),
   [Some("raw", "AutoRegister", "SchemaId", "RecordName", FALSE) EXCEPT !.name = None]}

TaskSymmetry == Permutations(Task)
==============================================================================
