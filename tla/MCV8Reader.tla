---------------------------- MODULE MCV8Reader ----------------------------
(* Bounds under which TLC checks V8Reader, and what the documents say of    *)
(* the reader that the code does not do.                                   *)
EXTENDS V8Ledger

SetTags == {"primitive", "set", "reference"}
BufferTags == {"buffer", "dense", "reference"}

(* V8Limits.max_depth: "Maximum nesting depth of arrays/objects/maps/sets",*)
(* src/src/v8_value.rs:146, read as a bound on the decoded value.          *)
NestingWithinMaxDepth ==
  phase = "done" => \A l \in ret.levels : l <= MaxDepth

(* read_reference: "charge it so N references to a large object cannot     *)
(* amplify memory past the cap", src/src/v8_value.rs:761-762: the value    *)
(* carries no more array buffers (the run reads no text) than the input    *)
(* read, or than the cap.                                                  *)
PayloadWithinCap ==
  phase = "done" => ret.bytes <= pos \/ ret.bytes <= MaxNodes
=============================================================================
