-------------------------- MODULE BoundedReadProofs --------------------------
(***************************************************************************)
(* Proofs about BoundedRead, for every cap, width and length of stream.    *)
(* What bounded_read tells is true exactly below the largest cap: with     *)
(* max_output = usize::MAX the limit cap + 1 is 0 (run unlimited_output),  *)
(* so the truth of its result is proved from MaxOutput + 1 < Width.        *)
(***************************************************************************)
EXTENDS BoundedRead, TLAPS

(* What the decoder was asked for is never more than there is, nor than    *)
(* the limit, and nothing is held before the call or after a failure.      *)
HeldBounded ==
  /\ read.state \in {"idle", "failed"} => read.held = 0
  /\ read.state = "reading" =>
       read.held <= stream.len /\ read.held <= TakeLimit /\ read.capped = FALSE

IInv == ReadTypeOK /\ HeldBounded

(* The limit of take is never above the cap and one.                       *)
LEMMA TakeLimitBounded == TakeLimit \in 0 .. MaxOutput + 1
<1>1. MaxOutput \in Nat /\ Width \in Nat \ {0} /\ MaxOutput + 1 <= Width
  BY BoundedReadAssumption
<1>2. CASE MaxOutput + 1 < Width
  BY <1>1, <1>2 DEF TakeLimit
<1>3. CASE MaxOutput + 1 = Width
  BY <1>1, <1>3 DEF TakeLimit
<1>4. QED
  BY <1>1, <1>2, <1>3

(* A read begins in the invariant.                                         *)
LEMMA IInvInit == stream \in Stream /\ read = Idle => IInv
BY BoundedReadAssumption, TakeLimitBounded DEF IInv, ReadTypeOK, HeldBounded, Idle, Read

(* Every piece, failure and end keeps the invariant.                       *)
LEMMA IInvNext == IInv /\ [ReadNext]_readVars => IInv'
<1> SUFFICES ASSUME IInv, [ReadNext]_readVars
             PROVE  IInv'
  OBVIOUS
<1> USE BoundedReadAssumption, TakeLimitBounded
<1>1. CASE Open
  BY <1>1 DEF Open, IInv, ReadTypeOK, HeldBounded, Read, Stream, TakeLimit
<1>2. CASE ReadPiece
  <2> PICK n \in 1 .. TakeLimit - read.held :
        /\ read.held + n <= stream.len
        /\ read' = [read EXCEPT !.held = @ + n]
    BY <1>2 DEF ReadPiece
  <2>1. stream' = stream /\ read.state = "reading"
    BY <1>2 DEF ReadPiece, Asks
  <2>2. TakeLimit' = TakeLimit
    BY DEF TakeLimit
  <2>3. QED
    BY <2>1, <2>2 DEF IInv, ReadTypeOK, HeldBounded, Stream
<1>3. CASE ReadFails
  BY <1>3 DEF ReadFails, Failed, IInv, ReadTypeOK, HeldBounded, Read
<1>4. CASE ReadEnds
  BY <1>4 DEF ReadEnds, IInv, ReadTypeOK, HeldBounded, Read
<1>5. CASE UNCHANGED readVars
  BY <1>5 DEF readVars, IInv, ReadTypeOK, HeldBounded, TakeLimit
<1>6. QED
  BY <1>1, <1>2, <1>3, <1>4, <1>5 DEF ReadNext

(* The types of bounded_read, and that it never holds more than the cap    *)
(* and one byte, whatever the length of the stream.                        *)
THEOREM HeldWithinCap == ReadSpec => []ReadTypeOK
<1>1. IInv => ReadTypeOK
  BY DEF IInv
<1>2. QED
  BY IInvInit, IInvNext, <1>1, PTL DEF ReadSpec

(* A corrupt or longer stream is never passed on as a whole one, by any    *)
(* split of the stream into pieces.                                        *)
LEMMA TruthfulNext ==
  ASSUME MaxOutput + 1 < Width, IInv, ReadTruthful, [ReadNext]_readVars
  PROVE  ReadTruthful'
<1> USE BoundedReadAssumption
<1>0. TakeLimit = MaxOutput + 1
  BY DEF TakeLimit
<1>1. CASE Open
  BY <1>1 DEF Open, ReadTruthful, Read
<1>2. CASE ReadPiece
  BY <1>2 DEF ReadPiece, Asks, ReadTruthful, IInv, ReadTypeOK
<1>3. CASE ReadFails
  BY <1>0, <1>3 DEF ReadFails, Asks, Failed, ReadTruthful, Read, IInv, ReadTypeOK, Stream
<1>4. CASE ReadEnds
  <2>1. /\ stream.len \in Nat /\ stream.sound \in BOOLEAN /\ read.held \in Nat
        /\ read.held <= stream.len /\ read.held <= MaxOutput + 1
    BY <1>0, <1>4 DEF ReadEnds, IInv, ReadTypeOK, HeldBounded, Stream
  <2>2. read.held < MaxOutput + 1 => read.held = stream.len /\ stream.sound
    BY <1>0, <1>4 DEF ReadEnds, Asks
  <2>3. CASE read.held > MaxOutput
    <3>1. stream.len > MaxOutput
      BY <2>1, <2>3
    <3>2. stream' = stream /\ read' = [state |-> "ok", held |-> MaxOutput, capped |-> TRUE]
      BY <1>4, <2>3 DEF ReadEnds, Read
    <3>3. read'.state = "ok"
      BY <3>2
    <3>4. QED
      BY <3>1, <3>2, <3>3 DEF ReadTruthful, Read
  <2>4. CASE read.held <= MaxOutput
    <3>1. read.held = stream.len /\ stream.sound
      BY <2>1, <2>2, <2>4
    <3>2. ~(stream.len > MaxOutput) /\ ~(read.held > MaxOutput)
      BY <2>1, <2>4, <3>1
    <3>3. stream' = stream /\ read' = [state |-> "ok", held |-> stream.len, capped |-> FALSE]
      BY <1>4, <3>1, <3>2 DEF ReadEnds, Read
    <3>4. read'.state = "ok"
      BY <3>3
    <3>5. QED
      BY <3>1, <3>2, <3>3, <3>4 DEF ReadTruthful, Read
  <2>5. QED
    BY <2>1, <2>3, <2>4
<1>5. CASE UNCHANGED readVars
  BY <1>5 DEF readVars, ReadTruthful
<1>6. QED
  BY <1>1, <1>2, <1>3, <1>4, <1>5 DEF ReadNext

(* Below the largest cap, bounded_read returns the beginning of the        *)
(* stream, says capped exactly when there was more, and refuses a corrupt  *)
(* stream that the cap does not cut.                                       *)
THEOREM ReadTellsTheTruth == MaxOutput + 1 < Width => (ReadSpec => []ReadTruthful)
<1> SUFFICES ASSUME MaxOutput + 1 < Width
             PROVE  ReadSpec => []ReadTruthful
  OBVIOUS
<1>1. stream \in Stream /\ read = Idle => ReadTruthful
  BY DEF Idle, Read, ReadTruthful
<1>2. IInv /\ ReadTruthful /\ [ReadNext]_readVars => ReadTruthful'
  BY TruthfulNext
<1>3. QED
  BY IInvInit, IInvNext, <1>1, <1>2, PTL DEF ReadSpec
=============================================================================
