--------------------------- MODULE V8LedgerProofs ---------------------------
(***************************************************************************)
(* The reader implements Ledger's Safety: its initial states map to the    *)
(* ledger's, and every step of every handler to a step of the ledger or to *)
(* none.  The invariant of V8ReaderProofs supplies what a step needs to    *)
(* know of the state it starts in.                                         *)
(***************************************************************************)
EXTENDS V8Ledger, V8ReaderProofs

(* What a handler is allowed to do to the ledger in one step. *)
Step == [L!Next]_L!vars

Open == phase \notin {"done", "error"}

(* A call that has not ended runs in the ledger. *)
LEMMA OpenRuns == Open => Outcome = L!Running
BY DEF Open, Outcome, L!Running, L!Ended

(* The types the mapping needs. *)
LEMMA MappingTypes ==
  ASSUME IInv
  PROVE  /\ MaxNodes \in Nat /\ budget \in 0 .. MaxNodes /\ Spent \in 0 .. MaxNodes
         /\ id_map \in Seq(Value \cup {None}) /\ stack \in Seq(Frame)
         /\ Len(id_map) \in Nat /\ Len(Ids) = Len(id_map) /\ DOMAIN Ids = DOMAIN id_map
         /\ Len(stack) \in Nat /\ Len(Calls) = Len(stack) /\ DOMAIN Calls = DOMAIN stack
         /\ Ids \in Seq(Nat \cup {None}) /\ Calls \in Seq([id : Nat, since : Int])
         /\ None \notin Value /\ None \notin Nat
<1>1. /\ MaxNodes \in Nat /\ budget \in 0 .. MaxNodes
      /\ id_map \in Seq(Value \cup {None}) /\ stack \in Seq(Frame)
      /\ None \notin Value /\ None \notin Nat
  BY ReaderAssumption, NoneAssumption DEF IInv, TypeOK
<1>2. Len(id_map) \in Nat /\ Len(stack) \in Nat
  BY <1>1
<1>3. Len(Ids) = Len(id_map) /\ DOMAIN Ids = DOMAIN id_map
  BY <1>1, <1>2 DEF Ids
<1>4. Len(Calls) = Len(stack) /\ DOMAIN Calls = DOMAIN stack
  BY <1>1, <1>2 DEF Calls
<1>5. Spent \in 0 .. MaxNodes
  BY <1>1 DEF Spent
<1>6. Ids \in Seq(Nat \cup {None})
  <2>1. \A i \in 1 .. Len(id_map) : id_map[i] \in Value \cup {None}
    BY <1>1
  <2>2. \A i \in 1 .. Len(id_map) :
          (IF id_map[i] = None THEN None ELSE id_map[i].nodes) \in Nat \cup {None}
    BY <2>1 DEF Value
  <2> QED
    BY <1>2, <2>2 DEF Ids
<1>7. Calls \in Seq([id : Nat, since : Int])
  <2>1. \A d \in 1 .. Len(stack) : stack[d].id \in Nat /\ stack[d].base \in 0 .. MaxNodes
    <3>1. \A d \in 1 .. Len(stack) : stack[d] \in Frame
      BY <1>1
    <3> QED
      BY <3>1 DEF Frame
  <2>2. \A d \in 1 .. Len(stack) : MaxNodes - stack[d].base \in Int
    BY <1>1, <2>1
  <2> QED
    BY <1>2, <2>1, <2>2 DEF Calls
<1> QED
  BY <1>1, <1>2, <1>3, <1>4, <1>5, <1>6, <1>7

(* A sequence with one element more. *)
LEMMA Appended ==
  ASSUME NEW S, NEW s \in Seq(S), NEW x \in S
  PROVE  Append(s, x) = [i \in 1 .. Len(s) + 1 |-> IF i = Len(s) + 1 THEN x ELSE s[i]]
<1>1. /\ Append(s, x) \in Seq(S) /\ Len(Append(s, x)) = Len(s) + 1 /\ Len(s) \in Nat
      /\ \A i \in 1 .. Len(s) : Append(s, x)[i] = s[i]
      /\ Append(s, x)[Len(s) + 1] = x
  BY AppendProperties
<1>2. Append(s, x) = [i \in 1 .. Len(Append(s, x)) |-> Append(s, x)[i]]
  <2>1. Append(s, x) \in [1 .. Len(Append(s, x)) -> S]
    BY <1>1, LenProperties
  <2> QED
    BY <2>1
<1>3. \A i \in 1 .. Len(s) + 1 : i # Len(s) + 1 => i \in 1 .. Len(s)
  BY <1>1
<1> QED
  BY <1>1, <1>2, <1>3

(* An error is a refusal, and the ledger stays as it is. *)
LEMMA FailRefuses ==
  ASSUME Open, NEW e \in Errors, Fail(e)
  PROVE  Step
<1>1. Spent' = Spent /\ Ids' = Ids /\ Calls' = Calls
  BY DEF Fail, Spent, Ids, Calls
<1>2. Outcome' = L!Ended("refused", 0)
  BY DEF Fail, Outcome, L!Ended
<1> QED
  BY <1>1, <1>2, OpenRuns DEF Step, L!Next, L!Refuse

(* A step that charges nothing and touches neither ids nor the start of a  *)
(* call is none of the ledger's.                                           *)
LEMMA KeepsStutters ==
  ASSUME Open, Open', UNCHANGED <<budget, id_map>>, Calls' = Calls
  PROVE  Step
<1>1. Spent' = Spent /\ Ids' = Ids
  BY DEF Spent, Ids
<1>2. Outcome' = Outcome
  BY DEF Open, Outcome
<1> QED
  BY <1>1, <1>2 DEF Step, L!vars

(* A value without an id costs one node. *)
LEMMA ReturnsPlain ==
  ASSUME IInv, Open, NEW t, Reads(t), NEW n \in Nat, NEW v, Returns(n, 1, v), UNCHANGED id_map
  PROVE  Step
<1>1. Spent' = Spent + 1 /\ Spent + 1 <= MaxNodes
  BY MappingTypes, ReadsFacts DEF Returns, Spent
<1>2. Ids' = Ids /\ Calls' = Calls
  BY DEF Ids, Calls, Returns
<1>3. Outcome = L!Running /\ Outcome' = L!Running
  BY OpenRuns DEF Outcome, Returns, L!Running, L!Ended
<1> QED
  BY <1>1, <1>2, <1>3 DEF Step, L!Next, L!Plain, L!Pay

(* An object without parts is one node, and its id is filled at once. *)
LEMMA ReturnsWhole ==
  ASSUME IInv, Open, NEW t, Reads(t), NEW n \in Nat, NEW v \in Value, v.nodes = 1,
         Returns(n, 1, v), id_map' = Append(id_map, v)
  PROVE  Step
<1>1. Spent' = Spent + 1 /\ Spent + 1 <= MaxNodes
  BY MappingTypes, ReadsFacts DEF Returns, Spent
<1>2. Ids' = Append(Ids, 1)
  <2>1. /\ Len(id_map') = Len(id_map) + 1 /\ id_map'[Len(id_map) + 1] = v /\ v # None
        /\ \A i \in 1 .. Len(id_map) : id_map'[i] = id_map[i]
    BY MappingTypes
  <2>2. Ids' = [i \in 1 .. Len(id_map) + 1 |->
                  IF i = Len(id_map) + 1 THEN 1 ELSE Ids[i]]
    BY <2>1, MappingTypes DEF Ids
  <2>3. 1 \in Nat \cup {None}
    OBVIOUS
  <2>4. Len(Ids) = Len(id_map) /\ Ids \in Seq(Nat \cup {None})
    BY MappingTypes
  <2> QED
    BY <2>2, <2>3, <2>4, Appended
<1>3. Calls' = Calls
  BY DEF Calls, Returns
<1>4. Outcome = L!Running /\ Outcome' = L!Running
  BY OpenRuns DEF Outcome, Returns, L!Running, L!Ended
<1> QED
  BY <1>1, <1>2, <1>3, <1>4 DEF Step, L!Next, L!Whole, L!Pay

(* A reference pays for itself and for all of what it brings in. *)
LEMMA ReferenceShares ==
  ASSUME IInv, Open, NEW u \in Varints, NEW w \in Widths, ReadReference(u, w)
  PROVE  Step
<1>1. CASE Fail("NodeCap") \/ Fail("BadReference")
  BY <1>1, FailRefuses DEF Errors
<1>2. CASE /\ u + 1 \in DOMAIN id_map /\ id_map[u + 1] # None
           /\ ReferenceCost(id_map[u + 1]) <= budget
           /\ Returns(1 + w, ReferenceCost(id_map[u + 1]),
                      [id_map[u + 1] EXCEPT !.shared = TRUE])
           /\ UNCHANGED id_map
  <2>1. PICK i \in DOMAIN id_map : i = u + 1
    BY <1>2
  <2>2. id_map[i] \in Value /\ id_map[i].nodes \in Nat
    BY <1>2, <2>1, MappingTypes DEF Value
  <2>3. i \in DOMAIN Ids /\ Ids[i] = id_map[i].nodes /\ Ids[i] # None
    BY <1>2, <2>1, <2>2, MappingTypes DEF Ids
  <2>4. Spent' = Spent + (1 + Ids[i]) /\ Spent + (1 + Ids[i]) <= MaxNodes
    <3>1. budget' = budget - (1 + Ids[i]) /\ 1 + Ids[i] <= budget /\ Ids[i] \in Nat
      BY <1>2, <2>1, <2>2, <2>3 DEF Returns, ReferenceCost
    <3>2. MaxNodes \in Nat /\ budget \in 0 .. MaxNodes
      BY MappingTypes
    <3> QED
      BY <3>1, <3>2 DEF Spent
  <2>5. Ids' = Ids /\ Calls' = Calls
    BY <1>2 DEF Ids, Calls, Returns
  <2>6. Outcome = L!Running /\ Outcome' = L!Running
    BY <1>2, OpenRuns DEF Outcome, Returns, L!Running, L!Ended
  <2> QED
    BY <2>3, <2>4, <2>5, <2>6 DEF Step, L!Next, L!Share, L!Pay
<1> QED
  BY <1>1, <1>2 DEF ReadReference

(* A frame begins with what its tag charges, and takes the next id. *)
LEMMA OpensOpens ==
  ASSUME IInv, Open, NEW t, Reads(t), NEW n \in Nat, NEW c \in 1 .. budget, NEW f,
         NEW next \in {"call", "loop"}, Opens(n, c, f, next),
         f.id = Len(id_map) + 1, f.base = budget
  PROVE  Step
<1>0. MaxNodes \in Nat /\ budget \in 0 .. MaxNodes /\ c \in 1 .. MaxNodes
  BY MappingTypes
<1>1. Spent' = Spent + c /\ Spent + c <= MaxNodes
  BY <1>0 DEF Opens, Spent
<1>2. Ids' = Append(Ids, None)
  <2>1. /\ Len(id_map') = Len(id_map) + 1 /\ id_map'[Len(id_map) + 1] = None
        /\ \A i \in 1 .. Len(id_map) : id_map'[i] = id_map[i]
    BY MappingTypes DEF Opens
  <2>2. Ids' = [i \in 1 .. Len(id_map) + 1 |->
                  IF i = Len(id_map) + 1 THEN None ELSE Ids[i]]
    <3>1. \A i \in 1 .. Len(id_map) :
            Ids[i] = IF id_map[i] = None THEN None ELSE id_map[i].nodes
      BY DEF Ids
    <3>2. \A i \in 1 .. Len(id_map) + 1 :
            (IF id_map'[i] = None THEN None ELSE id_map'[i].nodes)
              = IF i = Len(id_map) + 1 THEN None ELSE Ids[i]
      BY <2>1, <3>1, MappingTypes
    <3> QED
      BY <2>1, <3>2 DEF Ids
  <2>3. None \in Nat \cup {None}
    OBVIOUS
  <2>4. Len(Ids) = Len(id_map) /\ Ids \in Seq(Nat \cup {None})
    BY MappingTypes
  <2> QED
    BY <2>2, <2>3, <2>4, Appended
<1>3. Calls' = Append(Calls, [id |-> Len(Ids) + 1, since |-> Spent])
  <2>1. /\ Len(stack') = Len(stack) + 1 /\ stack'[Len(stack) + 1] = f
        /\ \A d \in 1 .. Len(stack) : stack'[d] = stack[d]
    BY MappingTypes DEF Opens
  <2>2. [id |-> f.id, since |-> MaxNodes - f.base] = [id |-> Len(Ids) + 1, since |-> Spent]
    BY MappingTypes DEF Spent
  <2>3. Calls' = [d \in 1 .. Len(stack) + 1 |->
                    IF d = Len(stack) + 1 THEN [id |-> Len(Ids) + 1, since |-> Spent]
                    ELSE Calls[d]]
    BY <2>1, <2>2, MappingTypes DEF Calls
  <2>4. [id |-> Len(Ids) + 1, since |-> Spent] \in [id : Nat, since : Int]
    BY MappingTypes
  <2>5. Len(Calls) = Len(stack) /\ Calls \in Seq([id : Nat, since : Int])
    BY MappingTypes
  <2> QED
    BY <2>3, <2>4, <2>5, Appended
<1>4. Outcome = L!Running /\ Outcome' = L!Running
  BY OpenRuns DEF Outcome, Opens, L!Running, L!Ended
<1> QED
  BY <1>0, <1>1, <1>2, <1>3, <1>4 DEF Step, L!Next, L!Open, L!Pay

(* A new frame knows its id and the budget it began with. *)
LEMMA NewFrameFacts ==
  ASSUME NEW kind, NEW want, NEW left, NEW length
  PROVE  LET f == NewFrame(kind, want, left, length)
         IN f.id = Len(id_map) + 1 /\ f.base = budget
BY DEF NewFrame

(* The frame on top ends with no more nodes than were paid since its id    *)
(* was reserved: that is NodesPaid, and the value that is being returned   *)
(* to it may be among them.                                                *)
LEMMA ClosesCloses ==
  ASSUME IInv, Open, stack # <<>>, NEW n \in Nat, NEW f \in Frame, Closes(n, f), f.id = Top.id,
         SumsUp(f), NestsAt(f, Len(stack)),
         NodesOf(f) <= NodesOf(Top) + (IF phase = "return" THEN ret.nodes ELSE 0)
  PROVE  Step
<1> DEFINE v == ValueOf(f)
           last == Len(stack)
<1>0. /\ last \in DOMAIN stack /\ last \in Nat \ {0} /\ Top = stack[last]
      /\ budget \in 0 .. MaxNodes /\ MaxNodes \in Nat
      /\ Top.base \in 0 .. MaxNodes /\ NodesOf(Top) \in Nat
      /\ (IF phase = "return" THEN ret.nodes ELSE 0) \in Nat
      /\ NodesOf(f) \in Nat \ {0}
  BY MappingTypes, TopFacts, NodesOfFrame DEF Top
<1>1. v \in Value /\ v.nodes = NodesOf(f) /\ v # None
  BY <1>0, ValueOfIsValue, MappingTypes
<1>2. NodesOf(f) <= Top.base - budget
  <2>1. NodesOf(Top) + (IF phase = "return" THEN ret.nodes ELSE 0) <= Top.base - budget
    BY <1>0 DEF IInv, NodesPaid
  <2> QED
    BY <1>0, <2>1
<1>3. /\ Calls # <<>> /\ Len(Calls) = last
      /\ Calls[last].id = f.id /\ Calls[last].since = MaxNodes - Top.base
  BY <1>0, MappingTypes DEF Calls
<1>4. v.nodes \in 1 .. MaxNodes /\ v.nodes <= Spent - Calls[Len(Calls)].since
  BY <1>0, <1>1, <1>2, <1>3 DEF Spent
<1> HIDE DEF v
<1>5. Ids' = [Ids EXCEPT ![Calls[Len(Calls)].id] = v.nodes]
  <2>1. id_map' = [id_map EXCEPT ![f.id] = v]
    BY DEF Closes, v
  <2>2. Len(id_map') = Len(id_map)
        /\ \A i \in 1 .. Len(id_map) : id_map'[i] = IF i = f.id THEN v ELSE id_map[i]
    BY <2>1, MappingTypes
  <2>3. Ids' = [i \in 1 .. Len(id_map) |-> IF i = f.id THEN v.nodes ELSE Ids[i]]
    BY <1>1, <2>2, MappingTypes DEF Ids
  <2>4. DOMAIN Ids = 1 .. Len(id_map) /\ Calls[Len(Calls)].id = f.id
    BY <1>3, MappingTypes DEF Ids
  <2> QED
    BY <2>3, <2>4
<1>6. Calls' = SubSeq(Calls, 1, Len(Calls) - 1)
  <2> DEFINE S == [id : Nat, since : Int]
  <2>1. Calls \in Seq(S) /\ Len(Calls) \in Nat \ {0}
    BY <1>0, <1>3, MappingTypes
  <2>2. /\ Len(SubSeq(Calls, 1, Len(Calls) - 1)) = last - 1
        /\ SubSeq(Calls, 1, Len(Calls) - 1) \in Seq(S)
        /\ \A d \in 1 .. last - 1 : SubSeq(Calls, 1, Len(Calls) - 1)[d] = Calls[d]
    BY <1>3, <2>1, Popped
  <2>3. /\ Len(stack') = last - 1
        /\ \A d \in 1 .. last - 1 : stack'[d] = stack[d]
    BY <1>0, MappingTypes, Popped DEF Closes
  <2>4. Calls' = [d \in 1 .. last - 1 |-> Calls[d]]
    <3>1. \A d \in 1 .. last - 1 : d \in 1 .. Len(stack)
      BY <1>0
    <3>2. \A d \in 1 .. last - 1 :
            Calls[d] = [id |-> stack'[d].id, since |-> MaxNodes - stack'[d].base]
      BY <2>3, <3>1 DEF Calls
    <3> QED
      BY <2>3, <3>2 DEF Calls
  <2>5. SubSeq(Calls, 1, Len(Calls) - 1)
          = [d \in 1 .. last - 1 |-> SubSeq(Calls, 1, Len(Calls) - 1)[d]]
    BY <1>0, <2>2
  <2> QED
    BY <2>2, <2>4, <2>5
<1>7. Spent' = Spent /\ Outcome = L!Running /\ Outcome' = Outcome
  BY OpenRuns DEF Outcome, Closes, Spent, L!Running, L!Ended
<1> QED
  BY <1>3, <1>4, <1>5, <1>6, <1>7 DEF Step, L!Next, L!Close

(* Each action of the reader, as a step of the ledger. *)
LEMMA LeavesStep ==
  ASSUME IInv,
         \/ ReadPrimitive \/ ReadDouble \/ ReadDate \/ ReadBooleanObject
         \/ \E u \in Varints, w \in Widths :
              \/ \E t \in {"int32", "uint32"} : ReadInt(t, u, w)
              \/ \E t \in {"string", "utf16"} : ReadString(t, u, w)
              \/ ReadBigInt(u, w) \/ ReadBigIntObject(u, w) \/ ReadArrayBuffer(u, w)
  PROVE  Step
<1>0. Varints \subseteq Nat /\ Widths \subseteq Nat /\ DoubleLen \in Nat
  BY ReaderAssumption DEF Widths
<1>1. ASSUME NEW t, Reads(t), NEW n \in Nat, NEW v, Returns(n, 1, v), UNCHANGED id_map
      PROVE  Step
  BY <1>1, ReturnsPlain DEF Reads, Open
<1>2. ASSUME NEW t, Reads(t), NEW n \in Nat, NEW b \in Int, ReturnsObject(n, Leaf("Other", -1, b))
      PROVE  Step
  <2>1. Leaf("Other", -1, b) \in Value /\ Leaf("Other", -1, b).nodes = 1
    BY LeafIsValue
  <2> QED
    BY <1>2, <2>1, ReturnsWhole DEF Reads, Open, ReturnsObject
<1>3. CASE ReadPrimitive
  BY <1>1, <1>3 DEF ReadPrimitive
<1>4. CASE ReadDouble
  BY <1>0, <1>1, <1>4 DEF ReadDouble
<1>5. CASE ReadDate
  BY <1>0, <1>2, <1>5 DEF ReadDate, Primitive
<1>6. CASE ReadBooleanObject
  BY <1>2, <1>6 DEF ReadBooleanObject, Primitive
<1>7. ASSUME NEW u \in Varints, NEW w \in Widths, NEW t \in {"int32", "uint32"}, ReadInt(t, u, w)
      PROVE  Step
  <2>1. 1 + w \in Nat
    BY <1>0
  <2> QED
    BY <1>1, <1>7, <2>1 DEF ReadInt
<1>8. ASSUME NEW u \in Varints, NEW w \in Widths, NEW t \in {"string", "utf16"}, ReadString(t, u, w)
      PROVE  Step
  <2>1. 1 + w + u \in Nat
    BY <1>0
  <2> QED
    BY <1>1, <1>8, <2>1 DEF ReadString
<1>9. ASSUME NEW u \in Varints, NEW w \in Widths,
             ReadBigInt(u, w) \/ ReadBigIntObject(u, w) \/ ReadArrayBuffer(u, w)
      PROVE  Step
  <2>1. DeclaredLen("bigint", u) \in Nat /\ DeclaredLen("bigintobj", u) \in Nat /\ u \in Int
    BY <1>0 DEF DeclaredLen
  <2>2. /\ 1 + w + u \in Nat /\ 1 + w + DeclaredLen("bigint", u) \in Nat
        /\ 1 + w + DeclaredLen("bigintobj", u) \in Nat
    BY <1>0, <2>1
  <2>3. CASE ReadBigInt(u, w)
    BY <1>1, <2>2, <2>3 DEF ReadBigInt
  <2>4. CASE ReadBigIntObject(u, w)
    <3>1. PICK b \in BigIntText(DeclaredLen("bigintobj", u)) :
            /\ Reads("bigintobj")
            /\ ReturnsObject(1 + w + DeclaredLen("bigintobj", u), Leaf("Other", -1, b))
      BY <2>4 DEF ReadBigIntObject
    <3>2. b \in Int
      BY <2>1, BigIntBounds
    <3> QED
      BY <1>2, <2>2, <3>1, <3>2
  <2>5. CASE ReadArrayBuffer(u, w)
    BY <1>2, <2>1, <2>2, <2>5 DEF ReadArrayBuffer
  <2> QED
    BY <1>9, <2>3, <2>4, <2>5
<1> QED
  BY <1>3, <1>4, <1>5, <1>6, <1>7, <1>8, <1>9

(* The tags that begin an object. *)
LEMMA BeginsStep ==
  ASSUME IInv,
         \/ BeginLoop \/ BeginWrapper
         \/ \E u \in Varints, w \in Widths : BeginDenseArray(u, w) \/ BeginSparseArray(u, w)
  PROVE  Step
<1>0. Varints \subseteq Nat /\ Widths \subseteq Nat
  BY ReaderAssumption DEF Widths
<1>1. ASSUME NEW t, Reads(t), NEW n \in Nat, NEW c \in Nat \ {0}, c <= budget,
             NEW kind, NEW want, NEW left, NEW length, NEW next \in {"call", "loop"},
             Opens(n, c, NewFrame(kind, want, left, length), next)
      PROVE  Step
  <2>1. c \in 1 .. budget
    BY <1>1, MappingTypes
  <2> QED
    BY <1>1, <2>1, NewFrameFacts, OpensOpens DEF Reads, Open
<1>2. ASSUME NEW t, Reads(t)
      PROVE  1 <= budget
  BY <1>2, ReadsFacts
<1>3. CASE BeginLoop
  BY <1>1, <1>2, <1>3 DEF BeginLoop
<1>4. CASE BeginWrapper
  BY <1>1, <1>2, <1>4 DEF BeginWrapper
<1>5. ASSUME NEW u \in Varints, NEW w \in Widths, BeginDenseArray(u, w) \/ BeginSparseArray(u, w)
      PROVE  Step
  <2>1. 1 + w \in Nat /\ 1 + u \in Nat \ {0} /\ 1 \in Nat \ {0}
    BY <1>0
  <2>2. CASE BeginDenseArray(u, w)
    BY <1>1, <1>2, <2>1, <2>2 DEF BeginDenseArray
  <2>3. CASE BeginSparseArray(u, w)
    BY <1>1, <2>1, <2>3, FailRefuses DEF BeginSparseArray, Errors, Reads, Open
  <2> QED
    BY <1>5, <2>2, <2>3
<1> QED
  BY <1>3, <1>4, <1>5

(* A new value of the frame on top, with its id and its start, is nothing  *)
(* to the ledger.                                                          *)
LEMMA UpdatesStutters ==
  ASSUME IInv, Open, stack # <<>>, NEW n, NEW f \in Frame, NEW next \in {"call", "loop"},
         Updates(n, f, next), f.id = Top.id, f.base = Top.base
  PROVE  Step
<1>1. Len(stack) \in DOMAIN stack /\ Len(stack) \in Nat
  BY MappingTypes
<1>2. /\ Len(stack') = Len(stack)
      /\ \A d \in 1 .. Len(stack) : stack'[d].id = stack[d].id /\ stack'[d].base = stack[d].base
  <2>1. /\ stack' = [stack EXCEPT ![Len(stack)] = f]
        /\ f.id = stack[Len(stack)].id /\ f.base = stack[Len(stack)].base
    BY DEF Updates, Top
  <2>2. Len(stack) \in 1 .. Len(stack) /\ stack \in Seq(Frame)
    BY <1>1, MappingTypes
  <2>3. /\ Len(stack') = Len(stack)
        /\ \A d \in 1 .. Len(stack) : stack'[d] = IF d = Len(stack) THEN f ELSE stack[d]
    BY <2>1, <2>2, ExceptSeq
  <2> QED
    BY <2>1, <2>3
<1>3. Calls' = Calls
  BY <1>2 DEF Calls
<1> QED
  BY <1>3, KeepsStutters DEF Updates, Open

(* The rounds of the loops and the parts of a frame. *)
LEMMA LoopsStep ==
  ASSUME IInv,
         \/ Continue \/ EndLoop \/ EndTruncated \/ DenseTruncated
         \/ \E w \in Widths : EndDenseArray(w) \/ \E u \in Varints : EndElements(u, w)
  PROVE  Step
<1>0. /\ Varints \subseteq Nat /\ Widths \subseteq Nat /\ phase = "loop" /\ Open
      /\ stack # <<>>
  <2>1. phase = "loop"
    BY DEF Continue, EndLoop, EndTruncated, DenseTruncated, EndDenseArray, EndElements, Looping
  <2>2. Varints \subseteq Nat /\ Widths \subseteq Nat
    BY ReaderAssumption DEF Widths
  <2> QED
    BY <2>1, <2>2 DEF Open, IInv, ControlInv
<1>1. Top \in Frame /\ SumsUp(Top) /\ NestsAt(Top, Len(stack)) /\ NodesOf(Top) \in Nat
  BY <1>0, TopFacts
<1>2. CASE \E e \in Errors : Fail(e)
  BY <1>0, <1>2, FailRefuses
<1>3. ASSUME NEW n \in Nat, Closes(n, Top)
      PROVE  Step
  <2>1. NodesOf(Top) <= NodesOf(Top) + (IF phase = "return" THEN ret.nodes ELSE 0)
    BY <1>0, <1>1
  <2> QED
    BY <1>0, <1>1, <1>3, <2>1, ClosesCloses
<1>4. CASE Continue
  BY <1>0, <1>4, KeepsStutters DEF Continue, Open, Calls
<1>5. CASE EndLoop
  <2>1. \A w1, w2 \in Widths : 1 + w1 \in Nat /\ 1 + w1 + w2 \in Nat
    BY <1>0
  <2> QED
    BY <1>2, <1>3, <1>5, <2>1 DEF EndLoop, BadVarint, Errors
<1>6. CASE EndTruncated \/ DenseTruncated
  BY <1>2, <1>6 DEF EndTruncated, DenseTruncated, Errors
<1>7. ASSUME NEW w \in Widths, EndDenseArray(w)
      PROVE  Step
  BY <1>0, <1>2, <1>3, <1>7 DEF EndDenseArray, BadVarint, Errors
<1>8. ASSUME NEW w \in Widths, NEW u \in Varints, EndElements(u, w)
      PROVE  Step
  <2>1. CASE Updates(1 + w, [Top EXCEPT !.want = "propkey", !.left = u], "loop")
    <3> DEFINE f == [Top EXCEPT !.want = "propkey", !.left = u]
    <3>1. u \in Nat
      BY <1>0
    <3>2. f \in Frame /\ f.id = Top.id /\ f.base = Top.base
      BY <1>1, <3>1 DEF Frame
    <3>3. Updates(1 + w, f, "loop")
      BY <2>1
    <3> HIDE DEF f
    <3> QED
      BY <1>0, <3>2, <3>3, UpdatesStutters
  <2> QED
    BY <1>2, <1>8, <2>1 DEF EndElements, BadVarint, Errors
<1> QED
  BY <1>4, <1>5, <1>6, <1>7, <1>8

(* What a frame takes leaves its id and its start. *)
LEMMA TakesStep ==
  ASSUME IInv, TakeElement \/ TakeKey \/ TakeValue \/ TakePropertyKey \/ TakeProperty
  PROVE  Step
<1> DEFINE Kept == {Adopt(Top, ret), Store(Top, ret), Top} \cup {AdoptText(Top, m) : m \in KeyText(ret)}
<1>1. /\ Returning({"elem", "key", "value", "propkey", "propval"})
      /\ Open /\ stack # <<>> /\ Top \in Frame
  <2>1. Returning({"elem", "key", "value", "propkey", "propval"})
    BY DEF TakeElement, TakeKey, TakeValue, TakePropertyKey, TakeProperty, Returning
  <2>2. phase = "return" /\ stack # <<>>
    BY <2>1, ReturningFacts
  <2> QED
    BY <2>1, <2>2, TopFacts DEF Open
<1>2. ASSUME NEW f \in Kept
      PROVE  f \in Frame /\ f.id = Top.id /\ f.base = Top.base /\ f.kind = Top.kind
             /\ f.left = Top.left
  <2>1. CASE f \in {Adopt(Top, ret), Store(Top, ret), Top}
    BY <1>1, <2>1, TopTakes
  <2>2. ASSUME NEW m \in KeyText(ret), f = AdoptText(Top, m)
        PROVE  f \in Frame /\ f.id = Top.id /\ f.base = Top.base /\ f.kind = Top.kind
               /\ f.left = Top.left
    <3>1. m \in Int
      BY <1>1, <2>2, ReturningFacts, KeyTextIsInt
    <3> QED
      BY <1>1, <2>2, <3>1, TopTakesText
  <2> QED
    BY <1>2, <2>1, <2>2
<1> HIDE DEF Kept
<1>3. ASSUME NEW f \in Kept, NEW g \in Frame, g.id = f.id, g.base = f.base,
             NEW next \in {"call", "loop"}, Updates(0, g, next)
      PROVE  Step
  BY <1>1, <1>2, <1>3, UpdatesStutters
<1>w. ASSUME NEW f \in Kept, NEW want \in {"elem", "key", "value", "propkey", "propval"},
             NEW next \in {"call", "loop"}, Updates(0, [f EXCEPT !.want = want], next)
      PROVE  Step
  <2>1. f \in Frame
    BY <1>2, <1>w
  <2>2. PICK g : g = [f EXCEPT !.want = want]
    OBVIOUS
  <2>3. g \in Frame /\ g.id = f.id /\ g.base = f.base
    BY <1>w, <2>1, <2>2 DEF Frame
  <2> QED
    BY <1>3, <1>w, <2>2, <2>3
<1>k. ASSUME NEW f \in Kept, NEW want \in {"elem", "key", "value", "propkey", "propval"},
             NEW key \in Int, NEW next \in {"call", "loop"},
             Updates(0, [f EXCEPT !.want = want, !.key = key], next)
      PROVE  Step
  <2>1. f \in Frame
    BY <1>2, <1>k
  <2>2. PICK g : g = [f EXCEPT !.want = want, !.key = key]
    OBVIOUS
  <2>3. g \in Frame /\ g.id = f.id /\ g.base = f.base
    BY <1>k, <2>1, <2>2 DEF Frame
  <2> QED
    BY <1>3, <1>k, <2>2, <2>3
<1>l. ASSUME NEW f \in Kept, NEW left \in Nat, NEW h, h = [f EXCEPT !.left = left]
      PROVE  h \in Frame /\ h.id = f.id /\ h.base = f.base
  <2>1. f \in Frame
    BY <1>2, <1>l
  <2> QED
    BY <1>l, <2>1 DEF Frame
<1>4. CASE TakeElement
  <2> DEFINE f == Adopt(Top, ret)
  <2>1. /\ Returning({"elem"})
        /\ Updates(0, [f EXCEPT !.left = IF Top.kind = "dense" THEN @ - 1 ELSE @], "loop")
    BY <1>4 DEF TakeElement
  <2>2. f \in Kept
    BY DEF Kept
  <2>3. (IF Top.kind = "dense" THEN f.left - 1 ELSE f.left) \in Nat
    BY <1>1, <1>2, <2>1, <2>2, ReturningFacts, TopFacts DEF Frame
  <2> HIDE DEF f
  <2>4. PICK left \in Nat : left = IF Top.kind = "dense" THEN f.left - 1 ELSE f.left
    BY <2>3
  <2>5. PICK h : h = [f EXCEPT !.left = left]
    OBVIOUS
  <2>6. Updates(0, h, "loop")
    BY <2>1, <2>4, <2>5
  <2> QED
    BY <1>3, <1>l, <2>2, <2>5, <2>6
<1>5. CASE TakeKey
  <2>1. ret.number \in Int
    BY <1>1, ReturningFacts
  <2>2. Adopt(Top, ret) \in Kept /\ Top \in Kept
    BY DEF Kept
  <2>3. CASE Top.kind = "map"
    <3>1. Updates(0, [Adopt(Top, ret) EXCEPT !.want = "value"], "call")
      BY <1>5, <2>3 DEF TakeKey
    <3> QED
      BY <1>w, <2>2, <3>1
  <2>4. CASE Top.kind # "map"
    <3>1. Updates(0, [Top EXCEPT !.want = "value", !.key = ret.number], "call")
      BY <1>5, <2>4 DEF TakeKey
    <3> QED
      BY <1>k, <2>1, <2>2, <3>1
  <2> QED
    BY <2>3, <2>4
<1>6. CASE TakeValue
  <2>1. Adopt(Top, ret) \in Kept /\ Store(Top, ret) \in Kept /\ -1 \in Int
    BY DEF Kept
  <2>2. PICK f : f = IF Top.kind = "map" THEN Adopt(Top, ret) ELSE Store(Top, ret)
    OBVIOUS
  <2>3. Updates(0, [f EXCEPT !.want = "key", !.key = -1], "loop")
    BY <1>6, <2>2 DEF TakeValue
  <2>4. f \in Kept
    BY <2>1, <2>2
  <2> QED
    BY <1>k, <2>1, <2>3, <2>4
<1>7. CASE TakePropertyKey
  <2>1. CASE Fail("BadKey")
    BY <1>1, <2>1, FailRefuses DEF Errors
  <2>2. ASSUME NEW m \in KeyText(ret),
               Updates(0, [IF Top.kind = "object" THEN AdoptText(Top, m) ELSE Top
                             EXCEPT !.want = "propval"], "call")
        PROVE  Step
    <3>1. AdoptText(Top, m) \in Kept /\ Top \in Kept
      BY DEF Kept
    <3>2. PICK f : f = IF Top.kind = "object" THEN AdoptText(Top, m) ELSE Top
      OBVIOUS
    <3>3. f \in Kept /\ Updates(0, [f EXCEPT !.want = "propval"], "call")
      BY <2>2, <3>1, <3>2
    <3> QED
      BY <1>w, <3>3
  <2> QED
    BY <1>7, <2>1, <2>2 DEF TakePropertyKey
<1>8. CASE TakeProperty
  <2>1. Adopt(Top, ret) \in Kept /\ Top \in Kept
    BY DEF Kept
  <2>2. Top.kind # "object" => Top.left - 1 \in Nat
    <3>1. Returning({"propval"})
      BY <1>8 DEF TakeProperty
    <3>2. Top.kind # "object" => Top.kind = "dense" /\ Top.left > 0
      BY <3>1, ReturningFacts, TopFacts
    <3> QED
      BY <1>1, <3>2 DEF Frame
  <2>3. CASE Top.kind = "object"
    <3>1. Updates(0, [Adopt(Top, ret) EXCEPT !.want = "propkey"], "loop")
      BY <1>8, <2>3 DEF TakeProperty
    <3> QED
      BY <1>w, <2>1, <3>1
  <2>4. CASE Top.kind # "object"
    <3>1. PICK left \in Nat : left = Top.left - 1
      BY <2>2, <2>4
    <3>2. PICK h : h = [Top EXCEPT !.left = left]
      OBVIOUS
    <3>3. PICK g : g = [h EXCEPT !.want = "propkey"]
      OBVIOUS
    <3>4. Updates(0, g, "loop")
      BY <1>8, <2>4, <3>1, <3>2, <3>3 DEF TakeProperty
    <3>5. h \in Frame /\ h.id = Top.id /\ h.base = Top.base
      BY <1>l, <2>1, <3>1, <3>2
    <3>6. g \in Frame /\ g.id = Top.id /\ g.base = Top.base
      BY <3>3, <3>5 DEF Frame
    <3> QED
      BY <1>3, <2>1, <3>4, <3>6
  <2> QED
    BY <2>3, <2>4
<1> QED
  BY <1>4, <1>5, <1>6, <1>7, <1>8

(* Regexps and String objects end with the text they waited for. *)
LEMMA WrappersStep ==
  ASSUME IInv, TakeSource \/ TakeInner
  PROVE  Step
<1>0. Returning({"source", "inner"}) /\ Open
  BY DEF TakeSource, TakeInner, Returning, Open
<1>1. CASE \E e \in Errors : Fail(e)
  BY <1>0, <1>1, FailRefuses
<1>2. ASSUME NEW n \in Nat, Closes(n, AdoptText(Top, ret.bytes))
      PROVE  Step
  <2> DEFINE f == AdoptText(Top, ret.bytes)
  <2>1. /\ f \in Frame /\ SumsUp(f) /\ NestsAt(f, Len(stack))
        /\ f.id = Top.id /\ NodesOf(f) <= NodesOf(Top) + ret.nodes
    <3>1. ret.bytes \in Int
      BY <1>0, ReturningFacts DEF Value
    <3> QED
      BY <1>0, <3>1, TopTakesText
  <2>2. Closes(n, f)
    BY <1>2
  <2> HIDE DEF f
  <2>3. /\ NodesOf(f) <= NodesOf(Top) + (IF phase = "return" THEN ret.nodes ELSE 0)
        /\ stack # <<>>
    BY <1>0, <2>1, ReturningFacts
  <2> QED
    BY <1>0, <2>1, <2>2, <2>3, ClosesCloses
<1>3. CASE TakeSource
  BY <1>1, <1>2, <1>3, ReaderAssumption DEF TakeSource, BadVarint, Errors, Widths
<1>4. CASE TakeInner
  BY <1>0, <1>1, <1>2, <1>4, ReturningFacts DEF TakeInner, Errors
<1> QED
  BY <1>3, <1>4

(* The version header and the envelope, and what read_value refuses. *)
LEMMA FramingStep ==
  ASSUME \/ ReadEnvelope \/ ReadTrailers \/ ReadVersionHeader
         \/ DepthCapped \/ NodeCapped \/ CallTruncated \/ TagVarintBad
         \/ UnsupportedTag \/ HostObject \/ LengthCapped \/ OddUtf16
  PROVE  Step
<1>1. CASE \E e \in Errors : Fail(e)
  <2>1. Open
    BY <1>1 DEF ReadEnvelope, ReadTrailers, ReadVersionHeader, DepthCapped, NodeCapped,
       CallTruncated, TagVarintBad, UnsupportedTag, HostObject, LengthCapped, OddUtf16, Reads, Open
  <2> QED
    BY <1>1, <2>1, FailRefuses
<1>2. ASSUME NEW n, NEW next \in {"trailers", "header", "call"}, Consumes(n, next),
             phase \in {"envelope", "trailers", "header"}
      PROVE  Step
  BY <1>2, KeepsStutters DEF Consumes, Open, Calls
<1>3. CASE ReadEnvelope \/ ReadTrailers \/ ReadVersionHeader
  BY <1>1, <1>2, <1>3 DEF ReadEnvelope, ReadTrailers, ReadVersionHeader, BadVarint, Errors
<1>4. CASE \/ DepthCapped \/ NodeCapped \/ CallTruncated \/ TagVarintBad
           \/ UnsupportedTag \/ HostObject \/ LengthCapped \/ OddUtf16
  BY <1>1, <1>4 DEF DepthCapped, NodeCapped, CallTruncated, TagVarintBad, UnsupportedTag,
     HostObject, LengthCapped, OddUtf16, BadVarint, Errors
<1> QED
  BY <1>3, <1>4

(* Every step of the reader is a step of the ledger, or none. *)
LEMMA NextKeepsLedger == IInv /\ [Next]_vars => Step
<1> SUFFICES ASSUME IInv, [Next]_vars PROVE Step
  OBVIOUS
<1>1. CASE \/ ReadEnvelope \/ ReadTrailers \/ ReadVersionHeader
           \/ DepthCapped \/ NodeCapped \/ CallTruncated \/ TagVarintBad
           \/ UnsupportedTag \/ HostObject \/ LengthCapped \/ OddUtf16
  BY <1>1, FramingStep
<1>2. CASE ReadPrimitive \/ ReadDouble \/ ReadDate \/ ReadBooleanObject
  BY <1>2, LeavesStep
<1>3. CASE BeginLoop \/ BeginWrapper
  BY <1>3, BeginsStep
<1>4. ASSUME NEW u \in Varints, NEW w \in Widths, ReadsVarint(u, w)
      PROVE  Step
  <2>1. CASE \/ \E t \in {"int32", "uint32"} : ReadInt(t, u, w)
             \/ \E t \in {"string", "utf16"} : ReadString(t, u, w)
             \/ ReadBigInt(u, w) \/ ReadBigIntObject(u, w) \/ ReadArrayBuffer(u, w)
    BY <2>1, LeavesStep
  <2>2. CASE ReadReference(u, w)
    BY <2>2, ReferenceShares DEF ReadReference, Reads, Open
  <2>3. CASE BeginDenseArray(u, w) \/ BeginSparseArray(u, w)
    BY <2>3, BeginsStep
  <2>4. CASE EndElements(u, w)
    BY <2>4, LoopsStep
  <2> QED
    BY <1>4, <2>1, <2>2, <2>3, <2>4 DEF ReadsVarint
<1>5. CASE \/ Continue \/ EndLoop \/ EndTruncated \/ DenseTruncated
           \/ \E w \in Widths : EndDenseArray(w)
  BY <1>5, LoopsStep
<1>6. CASE TakeElement \/ TakeKey \/ TakeValue \/ TakePropertyKey \/ TakeProperty
  BY <1>6, TakesStep
<1>7. CASE TakeSource \/ TakeInner
  BY <1>7, WrappersStep
<1>8. CASE Finish
  <2>1. /\ ret \in Value /\ ret # None /\ ret.nodes \in Nat \ {0} /\ ret.nodes <= MaxNodes - budget
        /\ MaxNodes \in Nat /\ budget \in 0 .. MaxNodes
    BY <1>8, ReaderAssumption DEF Finish, IInv, TypeOK, NodesCapped, Value
  <2>2. ret.nodes \in 1 .. MaxNodes /\ ret.nodes <= Spent
    BY <2>1 DEF Spent
  <2>3. Calls = <<>> /\ UNCHANGED <<Spent, Ids, Calls>>
    BY <1>8 DEF Finish, Calls, Spent, Ids
  <2>4. Outcome = L!Running /\ Outcome' = L!Ended("returned", ret.nodes)
    BY <1>8, OpenRuns DEF Finish, Outcome, Open, L!Ended
  <2> QED
    BY <2>2, <2>3, <2>4 DEF Step, L!Next, L!Return
<1>9. CASE UNCHANGED vars
  BY <1>9 DEF vars, Step, L!vars, Spent, Ids, Calls, Outcome
<1> QED
  BY <1>1, <1>2, <1>3, <1>4, <1>5, <1>6, <1>7, <1>8, <1>9 DEF Next, Returned

(* The reader keeps the promises of Ledger for every limit and every       *)
(* input: nodes are paid before they exist, ids end in the opposite order  *)
(* of their beginning, a share pays for all it brings in.                  *)
THEOREM LedgerKept == Spec => L!Safety
<1>1. Init => L!Init
  BY ReaderAssumption DEF Init, L!Init, Spent, Ids, Calls, Outcome, L!Running, L!Ended
<1>2. IInv /\ [Next]_vars => [L!Next]_L!vars
  BY NextKeepsLedger DEF Step
<1> QED
  BY <1>1, <1>2, Invariance, PTL DEF Spec, L!Safety
=============================================================================
