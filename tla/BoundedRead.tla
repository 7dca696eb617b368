----------------------------- MODULE BoundedRead -----------------------------
(***************************************************************************)
(* The decompression-bomb guard of src/src/identify.rs: bounded_read takes *)
(* max_output + 1 bytes from a decoder, to keep max_output of them and to  *)
(* know whether there were more.  A decoder gives its stream piece by      *)
(* piece, and finds out whether the stream is sound, its checksum          *)
(* included, only when it is asked for more than there is.                 *)
(***************************************************************************)
EXTENDS Integers

CONSTANTS
  MaxOutput,   \* Limits.max_output
  Width        \* usize and u64 are the numbers below it (2^64)

ASSUME BoundedReadAssumption ==
  Width \in Nat \ {0} /\ MaxOutput \in 0 .. Width - 1

VARIABLES
  stream,   \* what is compressed: its length, and whether it is sound
  read      \* bounded_read: its state, the bytes held, whether it was capped

readVars == <<stream, read>>

Stream == [len : Nat, sound : BOOLEAN]

Read(state, held, capped) == [state |-> state, held |-> held, capped |-> capped]
Idle == Read("idle", 0, FALSE)
Failed == Read("failed", 0, FALSE)

(* Fault: as many bytes as are kept. *)
TakeLimitExact == MaxOutput

(* r.take(cap as u64 + 1), in a build without overflow checks. *)
TakeLimit == (MaxOutput + 1) % Width

-----------------------------------------------------------------------------
Open == read.state = "idle" /\ read' = Read("reading", 0, FALSE) /\ UNCHANGED stream

(* Take asks its reader only while the limit is not reached. *)
Asks == read.state = "reading" /\ read.held < TakeLimit

(* Fault: the decoder's pieces are not counted before they are kept. *)
ReadPieceWhole ==
  /\ Asks /\ read.held < stream.len
  /\ read' = [read EXCEPT !.held = stream.len] /\ UNCHANGED stream

ReadPiece ==
  /\ Asks
  /\ \E n \in 1 .. TakeLimit - read.held :
       /\ read.held + n <= stream.len
       /\ read' = [read EXCEPT !.held = @ + n]
  /\ UNCHANGED stream

(* read_to_end()?: what was read is dropped. *)
ReadFails == /\ Asks /\ read.held = stream.len /\ ~stream.sound
             /\ read' = Failed /\ UNCHANGED stream

(* The decoder, or Take, says that there is no more. *)
ReadEnds ==
  /\ read.state = "reading"
  /\ Asks => read.held = stream.len /\ stream.sound
  /\ read' = IF read.held > MaxOutput THEN Read("ok", MaxOutput, TRUE)
                                      ELSE Read("ok", read.held, FALSE)
  /\ UNCHANGED stream

ReadNext == Open \/ ReadPiece \/ ReadFails \/ ReadEnds

ReadSpec == stream \in Stream /\ read = Idle /\ [][ReadNext]_readVars

-----------------------------------------------------------------------------
(* Properties *)

(* Streams and results keep their types, and while it reads, bounded_read  *)
(* holds one byte more than the cap at most, however long the stream is.   *)
ReadTypeOK ==
  /\ stream \in Stream
  /\ read \in [state : {"idle", "reading", "ok", "failed"}, held : 0 .. MaxOutput + 1,
               capped : BOOLEAN]

(* The result is the beginning of the stream, as much as the cap allows,   *)
(* and capped tells whether there was more.  A result that is not capped   *)
(* was read to its sound end, checksum included; a corrupt stream is       *)
(* refused unless the cap hides it.                                        *)
ReadTruthful ==
  /\ read.state = "ok" =>
       IF stream.len > MaxOutput THEN read = Read("ok", MaxOutput, TRUE)
       ELSE read = Read("ok", stream.len, FALSE) /\ stream.sound
  /\ read.state = "failed" => stream.len <= MaxOutput /\ ~stream.sound
=============================================================================
