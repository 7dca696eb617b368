---------------------------- MODULE CallersProofs ----------------------------
(***************************************************************************)
(* What IdentifyProofs shows of a call of identify_with_limits holds of    *)
(* the calls that the command line and the programs make; the report and   *)
(* the exit code tell the first places of the sort; and the work of all    *)
(* the nested calls is bounded.                                            *)
(***************************************************************************)
EXTENDS Callers, IdentifyProofs, FiniteSetTheorems

(* The order of the candidates, by the number that sort before each.       *)
Candidacy(S) == (\A c \in S : Chain(c)) /\ Distinct(S)
Before(c, S) == {d \in S : SortsBefore(d, c)}
Place(c, S) == Cardinality(Before(c, S))

(* A blob has at most as many candidates as there are kinds.               *)
LEMMA CandidatesFinite == ASSUME NEW S, Candidacy(S) PROVE IsFiniteSet(S)
<1> DEFINE position == [c \in S |-> LabelPosition(Kind(c))]
<1>1. \A c \in S : Kind(c) \in Kinds
  BY Heads DEF Candidacy
<1>2. position \in [S -> 1 .. 15]
  BY <1>1, LabelPositions
<1>3. ASSUME NEW a \in S, NEW b \in S, position[a] = position[b] PROVE a = b
  <2>1. LabelPosition(Kind(a)) = LabelPosition(Kind(b))
    BY <1>3
  <2>2. Kind(a) = Kind(b)
    BY <1>1, <2>1, LabelsDistinct
  <2> QED
    BY <2>2 DEF Candidacy, Distinct
<1>4. position \in Injection(S, 1 .. 15)
  BY <1>2, <1>3, Zenon DEF Injection, IsInjective
<1>5. IsFiniteSet(1 .. 15)
  <2>1. 1 \in Int /\ 15 \in Int
    OBVIOUS
  <2> QED
    BY <2>1, FS_Interval
<1> HIDE DEF position
<1> QED
  BY <1>4, <1>5, FS_Injection

(* A candidate sorts before another when fewer sort before it; no two have *)
(* the same place.                                                         *)
LEMMA PlacesOrder ==
  ASSUME NEW S, Candidacy(S), NEW a \in S, NEW b \in S
  PROVE  /\ Place(a, S) \in 0 .. Cardinality(S) - 1
         /\ SortsBefore(a, b) <=> Place(a, S) < Place(b, S)
         /\ Place(a, S) = Place(b, S) => a = b
<1>1. IsFiniteSet(S)
  BY CandidatesFinite
<1>2. \A c \in S : Chain(c) /\ Key(c) \in Nat
  BY Keys DEF Candidacy
<1>3. \A c, d \in S : SortsBefore(c, d) <=> Key(c) < Key(d)
  BY <1>2, KeysOrder
<1>4. ASSUME NEW c \in S
      PROVE  IsFiniteSet(Before(c, S)) /\ Place(c, S) \in 0 .. Cardinality(S) - 1
  <2>1. IsFiniteSet(S \ {c}) /\ Cardinality(S \ {c}) = Cardinality(S) - 1
    BY <1>1, FS_RemoveElement
  <2>2. Before(c, S) \in SUBSET (S \ {c})
    BY <1>2, <1>3 DEF Before
  <2>3. IsFiniteSet(Before(c, S)) /\ Place(c, S) <= Cardinality(S) - 1
    BY <2>1, <2>2, FS_Subset DEF Place
  <2>4. Place(c, S) \in Nat /\ Cardinality(S) \in Nat
    BY <1>1, <2>3, FS_CardinalityType DEF Place
  <2> QED
    BY <2>3, <2>4
<1>5. ASSUME NEW c \in S, NEW d \in S, SortsBefore(c, d) PROVE Place(c, S) < Place(d, S)
  <2>1. Before(c, S) \in SUBSET Before(d, S) /\ Before(c, S) # Before(d, S)
    BY <1>2, <1>3, <1>5 DEF Before
  <2>2. Place(c, S) <= Place(d, S) /\ Place(c, S) # Place(d, S)
    BY <1>4, <2>1, FS_Subset DEF Place
  <2> QED
    BY <1>4, <2>2
<1>6. a = b \/ SortsBefore(a, b) \/ SortsBefore(b, a)
  BY <1>2, DistinctSort DEF Candidacy, Distinct
<1>7. ~SortsBefore(a, a)
  BY <1>2, <1>3
<1> QED
  BY <1>4, <1>5, <1>6, <1>7

(* Every place is taken.                                                   *)
LEMMA PlacesTaken ==
  ASSUME NEW S, Candidacy(S), NEW k \in 0 .. Cardinality(S) - 1
  PROVE  \E c \in S : Place(c, S) = k
<1> DEFINE n == Cardinality(S)  place == [c \in S |-> Place(c, S)]
<1>1. IsFiniteSet(S) /\ n \in Nat
  BY CandidatesFinite, FS_CardinalityType
<1>2. IsFiniteSet(0 .. n - 1) /\ Cardinality(0 .. n - 1) = n
  BY <1>1, FS_Interval
<1>3. place \in [S -> 0 .. n - 1]
  BY PlacesOrder
<1>4. \A c, d \in S : place[c] = place[d] => c = d
  BY PlacesOrder
<1>5. place \in Injection(S, 0 .. n - 1)
  BY <1>3, <1>4, Zenon DEF Injection, IsInjective
<1>6. place \in Surjection(S, 0 .. n - 1)
  <2> HIDE DEF place
  <2> QED
    BY <1>1, <1>2, <1>5, FS_Injection
<1> QED
  BY <1>6 DEF Surjection

(* sort_by: the sorted candidates are all of them, each at its place.      *)
LEMMA SortedPlaces ==
  ASSUME ResultInv(result)
  PROVE  /\ Candidacy(result) /\ Cardinality(result) \in Nat
         /\ Sorted \in Seq(result) /\ Len(Sorted) = Cardinality(result)
         /\ \A i \in 1 .. Len(Sorted) : Sorted[i] \in result /\ Place(Sorted[i], result) = i - 1
<1> DEFINE n == Cardinality(result)
<1>1. Candidacy(result)
  BY DEF ResultInv, Candidacy
<1>2. n \in Nat
  BY <1>1, CandidatesFinite, FS_CardinalityType
<1>3. ASSUME NEW i \in 1 .. n PROVE Sorted[i] \in result /\ Place(Sorted[i], result) = i - 1
  <2>1. i - 1 \in 0 .. n - 1
    BY <1>2
  <2>2. PICK c \in result : Place(c, result) = i - 1
    BY <1>1, <2>1, PlacesTaken
  <2>3. Sorted[i] = CHOOSE d \in result : Place(d, result) = i - 1
    BY DEF Sorted, Place, Before
  <2> QED
    BY <2>2, <2>3
<1>4. Sorted \in [1 .. n -> result]
  BY <1>3 DEF Sorted
<1> QED
  BY <1>1, <1>2, <1>3, <1>4, LenProperties

(* Before the command line has loaded its input, there is no call.         *)
CallsInv ==
  /\ StackInv(stack) /\ ResultInv(result) /\ calls \in Nat
  /\ calls = 0 => stack = <<>>
  /\ stack = <<>> /\ calls # 0 => result # {}

(* The command line and a program's call begin in the invariant.           *)
LEMMA CallsInvInit == CallersInit => CallsInv
<1>1. ASSUME CliStarts PROVE CallsInv
  <2>1. StackInv(<<>>)
    BY DEF StackInv
  <2> QED
    BY <1>1, <2>1 DEF CliStarts, CallsInv, ResultInv, Distinct, Yields
<1> QED
  BY <1>1, IInvInit DEF CallersInit, CallsInv, IInv

(* A step of the identifier is a step of a call in progress.               *)
LEMMA StepRuns == ASSUME Step PROVE stack # <<>>
<1>1. Len(stack) > 0 \/ Len(stack) > 1 \/ Len(stack) = 1
  BY DEF Step, NoReading, LeafReading, ProtobufReading, UnwrapCapped, Unwrap,
     Running, SkipHeuristics, Return, Finish
<1>2. Len(<<>>) = 0
  OBVIOUS
<1> QED
  BY <1>1, <1>2

(* Every step of the callers keeps it: load begins a call, what follows a  *)
(* call leaves it alone.                                                   *)
LEMMA CallsInvNext == CallsInv /\ [CallersNext]_<<vars, callerVars>> => CallsInv'
<1> SUFFICES ASSUME CallsInv, [CallersNext]_<<vars, callerVars>> PROVE CallsInv'
  OBVIOUS
<1>1. CASE Load
  <2>1. PICK s \in Sizes, l \in Leads : s >= LeadMin[l] /\ stack' = <<Enter(s, l, 0)>>
    BY <1>1 DEF Load
  <2>2. s \in Nat /\ 0 \in 0 .. Width - 1 /\ Held(s, s)
    BY IdentifyAssumption DEF Held
  <2>3. FrameInv(Enter(s, l, 0), s)
    BY <2>1, <2>2, EnterFits
  <2>4. StackInv(stack') /\ stack' # <<>>
    BY <2>1, <2>3, FirstCall DEF Enter
  <2> QED
    BY <1>1, <2>4 DEF Load, CallsInv
<1>2. CASE Identifying
  <2>1. stack # <<>> /\ Step
    BY <1>2, StepRuns DEF Identifying
  <2>2. IInv
    BY <2>1 DEF CallsInv, IInv
  <2>3. IInv'
    BY <2>1, <2>2, IInvNext DEF Next
  <2> QED
    BY <2>3 DEF CallsInv, IInv
<1>3. CASE \/ Usage \/ Parse \/ LoadFails \/ Truncate \/ Write \/ WriteFails \/ Exit \/ Over
           \/ UNCHANGED <<vars, callerVars>>
  <2>1. UNCHANGED <<stack, result, calls>>
    BY <1>3 DEF Usage, Parse, LoadFails, Truncate, Write, WriteFails, Exit, Exits, Over, vars
  <2> QED
    BY <2>1 DEF CallsInv
<1> QED
  BY <1>1, <1>2, <1>3 DEF CallersNext

(* The invariant holds of every call that is made.                         *)
LEMMA CallsInvariance == CallersSpec => []CallsInv
BY CallsInvInit, CallsInvNext, PTL DEF CallersSpec


-----------------------------------------------------------------------------
(* What is reported, and the exit code                                     *)

(* The report is a beginning of the sorted candidates: what is left out    *)
(* has a place after it.                                                   *)
ReportsFirst(k) == k \in 0 .. Len(Sorted) /\ report = SubSeq(Sorted, 1, k)

(* No candidate that is left out sorts before one that is reported.        *)
LEMMA FirstAreBest ==
  ASSUME ResultInv(result), NEW k, ReportsFirst(k)
  PROVE  ReportsBest /\ Len(report) = k /\ report \in Seq(result)
<1>1. /\ Sorted \in Seq(result) /\ Len(Sorted) \in Nat /\ k \in Nat /\ k <= Len(Sorted)
      /\ \A i \in 1 .. Len(Sorted) : Sorted[i] \in result /\ Place(Sorted[i], result) = i - 1
  BY SortedPlaces DEF ReportsFirst
<1>2. /\ report \in Seq(result) /\ Len(report) = k /\ DOMAIN report = 1 .. k
      /\ \A i \in 1 .. k : report[i] = Sorted[i]
  BY <1>1, SubSeqProperties DEF ReportsFirst
<1>3. ASSUME NEW i \in 1 .. k, NEW c \in result \ {report[j] : j \in 1 .. i}
      PROVE  SortsBefore(report[i], c)
  <2>1. Place(c, result) \in Nat /\ Place(c, result) < Len(Sorted)
    BY SortedPlaces, PlacesOrder
  <2>2. ASSUME Place(c, result) < i PROVE FALSE
    <3>1. PICK j \in 1 .. i : Place(c, result) = j - 1
      <4>1. Place(c, result) + 1 \in 1 .. i
        BY <2>1, <2>2
      <4> QED
        BY <2>1, <4>1
    <3>2. j \in 1 .. k
      BY <1>1
    <3>3. Place(report[j], result) = Place(c, result) /\ report[j] \in result
      BY <1>1, <1>2, <3>1, <3>2
    <3>4. report[j] = c
      BY <3>3, SortedPlaces, PlacesOrder
    <3> QED
      BY <3>1, <3>4
  <2>3. Place(report[i], result) < Place(c, result) /\ report[i] \in result
    BY <1>1, <1>2, <2>1, <2>2
  <2> QED
    BY <2>3, SortedPlaces, PlacesOrder
<1> QED
  BY <1>1, <1>2, <1>3 DEF ReportsBest

(* Unknown is the least of readings: one that reports another kind does    *)
(* not begin with it.                                                      *)
UnknownIsLow(out) == \A c \in out : Kind(c) = "Unknown" => Score(c) = Low

(* What Unknown sorts before is Unknown.                                   *)
LEMMA UnknownIsLast ==
  ASSUME NEW c, NEW d, Chain(c), Chain(d), UnknownIsLow({c, d}),
         Kind(c) = "Unknown", SortsBefore(c, d)
  PROVE  Kind(d) = "Unknown"
<1>1. Kind(d) \in Kinds /\ Score(d) \in 1 .. 3 /\ Score(c) = 1
  BY Heads DEF Scores, Low, Medium, High, UnknownIsLow
<1>2. KindRank("Unknown") = 0
  BY DEF KindRank
<1>3. KindRank(Kind(d)) = 0
  BY <1>1, <1>2, Ranks DEF SortsBefore
<1> QED
  BY <1>1, <1>3 DEF KindRank

(* What a call returns holds Unknown only at low confidence.               *)
LEMMA UnknownReturned ==
  ASSUME NEW f, NEW size, FrameInv(f, size)
  PROVE  UnknownIsLow(Candidates(f))
<1>1. "Unknown" \in Kinds /\ Low \in Scores
  BY DEF Kinds, Scores
<1>2. Score(Unknown) = Low
  BY <1>1, LeafChain DEF Unknown
<1>3. ASSUME NEW c \in f.out PROVE Kind(c) # "Unknown"
  <2>1. Slot(Kind(c)) < f.next /\ f.next \in 1 .. 15
    BY DEF FrameInv, InTurn, Frame, Done, Detectors
  <2>2. Slot("Unknown") = 15
    BY DEF Slot
  <2> QED
    BY <2>1, <2>2
<1> QED
  BY <1>2, <1>3 DEF UnknownIsLow, Candidates

(* The rest of the invariant follows the caller's phases: nothing is       *)
(* identified before the input is loaded, the report is cut from a result  *)
(* that no longer changes, and only a caller that wrote all of it exits    *)
(* with the report's code.                                                 *)
CallerInv ==
  /\ CallsInv /\ UnknownIsLow(result)
  /\ phase \in Sources \cup {"parse", "identify", "library", "human", "json"}
  /\ phase \in Sources \cup {"parse"} => calls = 0
  /\ phase \notin Sources \cup {"parse"} => calls # 0
  /\ IF phase \in {"human", "json"}
       THEN stack = <<>> /\ \E k \in 0 .. Len(Sorted) : ReportsFirst(k)
       ELSE report = <<>> /\ written = 0
  /\ written \in 0 .. Writes
  /\ exit \in {NoCode, 0, 1, 2, Panicked}
  /\ exit = 1 => calls = 0
  /\ exit \in {0, 2} /\ calls # 0 => written = Writes /\ exit = ExitCode(report)

(* Callers begin with nothing reported and nothing written.                *)
LEMMA CallerInvInit == CallersInit => CallerInv
<1> SUFFICES ASSUME CallersInit PROVE CallerInv
  OBVIOUS
<1>1. /\ result = {} /\ phase \in {"parse", "library"}
      /\ calls = IF phase = "parse" THEN 0 ELSE 1
  <2>1. CliStarts => result = {} /\ phase = "parse" /\ calls = 0
    BY DEF CliStarts
  <2>2. Init => result = {} /\ calls = 1
    BY Zenon DEF Init
  <2> QED
    BY <2>1, <2>2 DEF CallersInit
<1>2. report = <<>> /\ written = 0 /\ exit = NoCode /\ Writes = 1
  BY <1>1 DEF CallersInit, Writes
<1> QED
  BY <1>1, <1>2, CallsInvInit DEF CallerInv, UnknownIsLow, Sources, NoCode, Panicked

(* Parsing and loading report nothing.                                     *)
LEMMA LoadingKeeps ==
  ASSUME CallerInv, CallsInv', Parse \/ Load
  PROVE  CallerInv'
<1>1. /\ phase \in Sources \cup {"parse"} /\ exit = NoCode
      /\ UNCHANGED <<result, report, written, exit>>
  BY DEF Parse, Load, At, vars
<1>2. \/ phase' \in Sources /\ calls' = calls
      \/ phase' = "identify" /\ calls' = 1
  BY DEF Parse, Load, vars
<1>3. UnknownIsLow(result')
  BY <1>1 DEF CallerInv
<1>4. Writes' = 1 + Len(report) /\ report = <<>> /\ written = 0
  BY <1>1, <1>2 DEF CallerInv, Writes, Sources
<1>5. CallerInv => calls = 0
  BY <1>1 DEF CallerInv
<1> QED
  BY <1>1, <1>2, <1>3, <1>4, <1>5 DEF CallerInv, Sources, NoCode

(* A call runs before anything is reported; what it returns names Unknown  *)
(* only at low confidence.                                                 *)
LEMMA IdentifyingKeeps ==
  ASSUME CallerInv, CallsInv', Identifying
  PROVE  CallerInv'
<1>1. phase \in {"identify", "library"} /\ Step /\ UNCHANGED <<phase, report, written, exit>>
  BY DEF Identifying, callerVars
<1>2. calls' # 0 /\ calls # 0
  <2>1. calls \in Nat /\ calls # 0
    BY <1>1 DEF CallerInv, CallsInv, Sources
  <2>2. calls' = calls \/ calls' = calls + 1
    BY <1>1 DEF Step, NoReading, LeafReading, ProtobufReading, UnwrapCapped, Unwrap,
       SkipHeuristics, Return, Finish, Pushes
  <2> QED
    BY <2>1, <2>2
<1>3. UnknownIsLow(result')
  <2>1. CASE Finish
    <3>1. stack # <<>> /\ StackInv(stack)
      BY <2>1 DEF Finish, CallerInv, CallsInv
    <3>2. FrameInv(Top, stack[1].size)
      BY <3>1, StackTop DEF Top
    <3> QED
      BY <2>1, <3>2, UnknownReturned DEF Finish
  <2>2. CASE ~Finish
    <3>1. result' = result
      BY <1>1, <2>2 DEF Step, NoReading, LeafReading, ProtobufReading, UnwrapCapped, Unwrap,
         SkipHeuristics, Return, Pushes
    <3> QED
      BY <3>1 DEF CallerInv
  <2> QED
    BY <2>1, <2>2
<1>4. Writes' = Writes /\ report = <<>> /\ written = 0
  BY <1>1 DEF CallerInv, Writes
<1>5. exit # 1 /\ (exit \in {0, 2} => written = Writes /\ exit = ExitCode(report))
  BY <1>2 DEF CallerInv
<1> QED
  BY <1>1, <1>2, <1>3, <1>4, <1>5 DEF CallerInv, Sources, ExitCode

(* truncate: the first n of the sorted candidates, n at most their number. *)
LEMMA TruncateKeeps ==
  ASSUME CallerInv, CallsInv', Truncate
  PROVE  CallerInv'
<1>1. /\ phase = "identify" /\ exit = NoCode /\ stack = <<>> /\ phase' \in {"human", "json"}
      /\ UNCHANGED <<stack, result, calls, written, exit>>
  BY DEF Truncate, At, vars
<1>2. report = <<>> /\ written = 0 /\ calls # 0
  BY <1>1 DEF CallerInv, Sources
<1>3. ResultInv(result) /\ ResultInv(result')
  BY DEF CallerInv, CallsInv
<1>4. Sorted' = Sorted /\ Len(Sorted) \in Nat
  BY <1>1, <1>3, SortedPlaces DEF Sorted
<1>5. \E k \in 0 .. Len(Sorted) : report' = SubSeq(Sorted, 1, k)
  <2>1. PICK n \in Tops \cup {Len(Sorted)} :
          report' = SubSeq(Sorted, 1, Min({n, Len(Sorted)}))
    BY DEF Truncate
  <2>2. n \in Nat
    BY <1>4, <2>1, CallersAssumption
  <2>3. Min({n, Len(Sorted)}) = IF n <= Len(Sorted) THEN n ELSE Len(Sorted)
    BY <1>4, <2>2 DEF Min
  <2>4. Min({n, Len(Sorted)}) \in 0 .. Len(Sorted)
    BY <1>4, <2>2, <2>3
  <2> QED
    BY <2>1, <2>4
<1>6. \E k \in 0 .. Len(Sorted') : ReportsFirst(k)'
  BY <1>4, <1>5 DEF ReportsFirst
<1>7. Writes' \in Nat \ {0}
  <2>1. PICK k \in 0 .. Len(Sorted) : report' = SubSeq(Sorted, 1, k)
    BY <1>5
  <2>2. Len(report') = k
    BY <1>3, <1>4, <2>1, SortedPlaces, SubSeqProperties
  <2> QED
    BY <1>4, <2>1, <2>2 DEF Writes
<1>8. UnknownIsLow(result')
  BY <1>1 DEF CallerInv
<1> QED
  BY <1>1, <1>2, <1>6, <1>7, <1>8 DEF CallerInv, Sources, NoCode

(* Writing and exiting leave the report alone.                             *)
LEMMA EndingKeeps ==
  ASSUME CallerInv, CallsInv', UNCHANGED <<stack, result, calls, phase, report>>,
         \/ /\ written' = written + 1 /\ written < Writes /\ phase \in {"human", "json"}
            /\ UNCHANGED exit /\ exit = NoCode
         \/ /\ UNCHANGED written /\ exit = NoCode
            /\ \/ exit' = 1 /\ calls = 0
               \/ exit' \in {0, 2} /\ calls = 0
               \/ exit' = Panicked
               \/ written = Writes /\ exit' = ExitCode(report)
         \/ UNCHANGED <<written, exit>>
  PROVE  CallerInv'
<1>1. Sorted' = Sorted /\ Writes' = Writes
  BY DEF Sorted, Writes
<1>2. \A k : ReportsFirst(k)' <=> ReportsFirst(k)
  BY <1>1 DEF ReportsFirst
<1>3. Writes \in Nat
  <2>1. CASE phase \in {"human", "json"}
    BY <2>1, FirstAreBest, SortedPlaces DEF CallerInv, CallsInv, Writes
  <2>2. CASE phase \notin {"human", "json"}
    BY <2>2 DEF CallerInv, Writes
  <2> QED
    BY <2>1, <2>2
<1>4. written' \in 0 .. Writes
  BY <1>3 DEF CallerInv
<1>5. ExitCode(report) \in {0, 2}
  BY DEF ExitCode
<1>6. /\ exit' \in {NoCode, 0, 1, 2, Panicked}
      /\ exit' = 1 => calls = 0
      /\ exit' \in {0, 2} /\ calls # 0 => written' = Writes /\ exit' = ExitCode(report)
  BY <1>5 DEF CallerInv, NoCode, Panicked
<1>7. phase \notin {"human", "json"} => written' = 0
  BY DEF CallerInv
<1> QED
  BY <1>1, <1>2, <1>4, <1>6, <1>7 DEF CallerInv, ExitCode

(* Every step of the callers keeps it.                                     *)
LEMMA CallerInvNext == CallerInv /\ [CallersNext]_<<vars, callerVars>> => CallerInv'
<1> SUFFICES ASSUME CallerInv, [CallersNext]_<<vars, callerVars>> PROVE CallerInv'
  OBVIOUS
<1>1. CallsInv'
  BY CallsInvNext DEF CallerInv
<1>2. CASE Parse \/ Load
  BY <1>1, <1>2, LoadingKeeps
<1>3. CASE Identifying
  BY <1>1, <1>3, IdentifyingKeeps
<1>4. CASE Truncate
  BY <1>1, <1>4, TruncateKeeps
<1>5. CASE Usage \/ LoadFails
  <2>1. calls = 0
    BY <1>5 DEF Usage, LoadFails, At, CallerInv
  <2> QED
    BY <1>1, <1>5, <2>1, EndingKeeps DEF Usage, LoadFails, At, Exits, vars
<1>6. CASE Write \/ WriteFails \/ Exit
  BY <1>1, <1>6, EndingKeeps DEF Write, WriteFails, Exit, At, Exits, vars
<1>7. CASE Over \/ UNCHANGED <<vars, callerVars>>
  BY <1>1, <1>7, EndingKeeps DEF Over, vars, callerVars
<1> QED
  BY <1>2, <1>3, <1>4, <1>5, <1>6, <1>7 DEF CallersNext

(* It holds of the command line and of every program that calls.           *)
LEMMA CallerInvariance == CallersSpec => []CallerInv
BY CallerInvInit, CallerInvNext, PTL DEF CallersSpec

(* What the callers hold has its types.                                    *)
LEMMA CallersTyped == ASSUME CallerInv PROVE CallersTypeOK
<1>1. TypeOK
  BY DEF CallerInv, CallsInv, StackInv, ResultInv, Chain, TypeOK
<1>2. report \in Seq(Seq(Link))
  <2>1. result \in SUBSET Seq(Link) /\ ResultInv(result)
    BY DEF CallerInv, CallsInv, ResultInv, Chain
  <2>2. CASE phase \in {"human", "json"}
    <3>1. PICK k \in 0 .. Len(Sorted) : ReportsFirst(k)
      BY <2>2 DEF CallerInv
    <3>2. report \in Seq(result)
      BY <2>1, <3>1, FirstAreBest
    <3> QED
      BY <2>1, <3>2
  <2>3. CASE phase \notin {"human", "json"}
    BY <2>3 DEF CallerInv
  <2> QED
    BY <2>2, <2>3
<1> QED
  BY <1>1, <1>2 DEF CallerInv, CallersTypeOK

(* Nothing is reported, or the first of the sorted candidates.             *)
LEMMA CallersReport == ASSUME CallerInv PROVE ReportsBest
<1>1. CASE phase \in {"human", "json"}
  BY <1>1, FirstAreBest DEF CallerInv, CallsInv
<1>2. CASE phase \notin {"human", "json"}
  BY <1>2 DEF CallerInv, ReportsBest
<1> QED
  BY <1>1, <1>2

(* The first of a report is Unknown only when there is no other kind.      *)
LEMMA CallersExit == ASSUME CallerInv PROVE ExitTells
<1>1. ASSUME report # <<>>
      PROVE  Kind(report[1]) # "Unknown" <=> \E c \in result : Kind(c) # "Unknown"
  <2>1. ReportsBest /\ report \in Seq(Seq(Link))
    BY CallersReport, CallersTyped DEF CallersTypeOK
  <2>2. 1 \in DOMAIN report
    BY <1>1, <2>1
  <2>3. /\ report[1] \in result
        /\ \A c \in result \ {report[j] : j \in 1 .. 1} : SortsBefore(report[1], c)
    BY <2>1, <2>2 DEF ReportsBest
  <2>4. \A c \in result : c = report[1] \/ SortsBefore(report[1], c)
    BY <2>3
  <2>5. (\A c \in result : Chain(c)) /\ UnknownIsLow(result)
    BY DEF CallerInv, CallsInv, ResultInv
  <2>6. ASSUME Kind(report[1]) = "Unknown", NEW d \in result PROVE Kind(d) = "Unknown"
    <3>1. UnknownIsLow({report[1], d})
      BY <2>3, <2>5 DEF UnknownIsLow
    <3> QED
      BY <2>3, <2>4, <2>5, <2>6, <3>1, UnknownIsLast
  <2> QED
    BY <2>3, <2>6
<1>2. ExitCode(report) = 0 <=> report # <<>> /\ Kind(report[1]) # "Unknown"
  BY DEF ExitCode
<1>3. exit \in {0, 2} /\ calls > 0 => written = Writes /\ exit = ExitCode(report)
  BY DEF CallerInv, CallsInv
<1>4. exit = 1 => calls = 0
  BY DEF CallerInv
<1> QED
  BY <1>1, <1>2, <1>3, <1>4 DEF ExitTells

(* main, identify_with_limits: arguments, calls, candidates, report and    *)
(* exit code keep their types, and no more is written than there is to     *)
(* report.                                                                 *)
THEOREM CallersTypeCorrect == CallersSpec => []CallersTypeOK
BY CallerInvariance, CallersTyped, PTL

(* main: a call that identified a blob exits with 0 or 2 only after all of *)
(* its output, with 0 exactly when the blob has a reading other than       *)
(* Unknown and something was reported, and 1 is never the code of a call   *)
(* that identified anything.                                               *)
THEOREM ExitTellsCorrect == CallersSpec => []ExitTells
BY CallerInvariance, CallersExit, PTL

(* main, sort_by: whatever --top is, what is reported is the best of the   *)
(* candidates, best first.                                                 *)
THEOREM ReportsBestCorrect == CallersSpec => []ReportsBest
BY CallerInvariance, CallersReport, PTL

(* build_chain, bounded_read: of every call that the command line and      *)
(* programs make, at any depth, the chains stay within max_depth and the   *)
(* payloads within max_output or the outermost blob.                       *)
THEOREM CallersBounded == CallersSpec => [](ChainBounded /\ PayloadsBounded)
<1>1. CallsInv => ChainBounded /\ PayloadsBounded
  BY StackChains, StackPayloads DEF CallsInv
<1> QED
  BY <1>1, CallsInvariance, PTL

(* sort_by, detect_protobuf: what main truncates and prints is ordered     *)
(* strictly, and protobuf has yielded to every High reading in it.         *)
THEOREM CallersOrdered == CallersSpec => [](StrictlySorted /\ ProtobufYields)
<1>1. CallsInv => StrictlySorted /\ ProtobufYields
  BY ResultSorted, ResultYields DEF CallsInv
<1> QED
  BY <1>1, CallsInvariance, PTL

-----------------------------------------------------------------------------
(* The work of the callers' calls                                          *)

(* A call begins with what it owes within its tree.                        *)
LEMMA EnterOwes ==
  ASSUME NEW s \in Nat, NEW l \in Leads, NEW d \in 0 .. Width - 1, s >= LeadMin[l]
  PROVE  WorkInv(<<Enter(s, l, d)>>, 1)
<1>1. Held(s, s)
  BY DEF Held
<1>2. FrameInv(Enter(s, l, d), s)
  BY <1>1, EnterFits
<1>3. Enter(s, l, d) \in Frame /\ Enter(s, l, d).next = 1
  BY <1>2 DEF FrameInv, Enter
<1> QED
  BY <1>3, WorkFirst

(* The first call of a program or of the command line.                     *)
LEMMA CallersWorkInit == CallersInit => WorkInv(stack, calls)
<1>1. ASSUME CliStarts PROVE WorkInv(stack, calls)
  BY <1>1 DEF CliStarts, WorkInv
<1>2. ASSUME Init PROVE WorkInv(stack, calls)
  <2>1. PICK s \in Sizes, l \in Leads, d \in Depths :
          s >= LeadMin[l] /\ stack = <<Enter(s, l, d)>> /\ calls = 1
    BY <1>2, Zenon DEF Init
  <2>2. s \in Nat /\ d \in 0 .. Width - 1
    BY IdentifyAssumption
  <2> QED
    BY <2>1, <2>2, EnterOwes
<1> QED
  BY <1>1, <1>2 DEF CallersInit

(* Load makes the first call; nothing but the identifier makes more.       *)
LEMMA CallersWorkNext ==
  CallsInv /\ WorkInv(stack, calls) /\ [CallersNext]_<<vars, callerVars>>
    => WorkInv(stack', calls')
<1> SUFFICES ASSUME CallsInv, WorkInv(stack, calls), [CallersNext]_<<vars, callerVars>>
             PROVE  WorkInv(stack', calls')
  OBVIOUS
<1>1. CASE Load
  <2>1. PICK s \in Sizes, l \in Leads : s >= LeadMin[l] /\ stack' = <<Enter(s, l, 0)>>
    BY <1>1 DEF Load
  <2>2. s \in Nat /\ 0 \in 0 .. Width - 1 /\ calls' = 1
    BY <1>1, IdentifyAssumption DEF Load
  <2> QED
    BY <2>1, <2>2, EnterOwes
<1>2. CASE Identifying
  <2>1. Step /\ stack # <<>>
    BY <1>2, StepRuns DEF Identifying
  <2>2. IInv
    BY <2>1 DEF CallsInv, IInv
  <2> QED
    BY <2>1, <2>2, WorkNext DEF Next
<1>3. CASE \/ Usage \/ Parse \/ LoadFails \/ Truncate \/ Write \/ WriteFails \/ Exit \/ Over
           \/ UNCHANGED <<vars, callerVars>>
  <2>1. UNCHANGED <<stack, calls>>
    BY <1>3 DEF Usage, Parse, LoadFails, Truncate, Write, WriteFails, Exit, Exits, Over, vars
  <2> QED
    BY <2>1
<1> QED
  BY <1>1, <1>2, <1>3 DEF CallersNext

(* identify_with_limits, build_chain: whatever a blob unwraps to and       *)
(* however its payloads nest, the calls that identify it are at most a     *)
(* ternary tree that is as deep as its chains may be long.                 *)
THEOREM WorkBoundedCorrect == CallersSpec => []WorkBounded
<1>1. CallersInit => CallsInv /\ WorkInv(stack, calls)
  BY CallsInvInit, CallersWorkInit
<1>2. CallsInv /\ WorkInv(stack, calls) /\ [CallersNext]_<<vars, callerVars>>
        => CallsInv' /\ WorkInv(stack, calls)'
  BY CallsInvNext, CallersWorkNext
<1>3. CallsInv /\ WorkInv(stack, calls) => WorkBounded
  <2>1. CASE stack = <<>>
    BY <2>1 DEF WorkBounded
  <2>2. CASE stack # <<>>
    BY <2>2, WorkFits DEF CallsInv, IInv
  <2> QED
    BY <2>1, <2>2
<1> QED
  BY <1>1, <1>2, <1>3, PTL DEF CallersSpec
=============================================================================
