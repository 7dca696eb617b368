------------------------------ MODULE Callers ------------------------------
(***************************************************************************)
(* The callers of the identifier: the command line of src/src/main.rs,     *)
(* from its arguments to its exit code, and programs that call the public  *)
(* identify_with_limits at a depth of their own, as the fuzz target does.  *)
(***************************************************************************)
EXTENDS Identify, SequencesExt, FiniteSetsExt

CONSTANTS
  Tops    \* bound: the values of --top

ASSUME CallersAssumption == Tops \subseteq Nat

Sources == {"string", "hex", "base64", "stdin", "file"}

VARIABLES
  phase,    \* what the caller does, or did when it ended
  report,   \* the candidates to print
  written,  \* the writes that were made of it
  exit      \* the exit code of the command line, NoCode before

callerVars == <<phase, report, written, exit>>

NoCode == -1
Panicked == 101

CliStarts == phase = "parse" /\ stack = <<>> /\ result = {} /\ calls = 0

CallersInit == /\ CliStarts \/ (phase = "library" /\ Init)
               /\ report = <<>> /\ written = 0 /\ exit = NoCode

At(phases) == exit = NoCode /\ phase \in phases

Exits(code) == exit' = code /\ UNCHANGED <<vars, phase, report, written>>

-----------------------------------------------------------------------------
(* The command line *)

(* Cli::parse: clap prints and exits, for --help or for wrong arguments.   *)
Usage == At({"parse"}) /\ \E code \in {0, 2} : Exits(code)

(* conflicts_with_all: at most one source, stdin when there is none. *)
Parse == /\ At({"parse"}) /\ phase' \in Sources
         /\ UNCHANGED <<vars, report, written, exit>>

(* load: any blob, but --string gives UTF-8. *)
Load ==
  /\ At(Sources)
  /\ \E s \in Sizes, l \in Leads :
       /\ s >= LeadMin[l]
       /\ phase = "string" => l \notin {"gzip", "snappy", "v8", "blink", "bom"}
       /\ stack' = <<Enter(s, l, 0)>>
  /\ calls' = 1 /\ phase' = "identify" /\ UNCHANGED <<result, report, written, exit>>

(* Text that does not decode, input that cannot be read. *)
LoadFails == At(Sources \ {"string"}) /\ Exits(1)

Identifying == phase \in {"identify", "library"} /\ Step /\ UNCHANGED callerVars

(* Fault: the worst of the candidates first. *)
SortedBackwards ==
  [i \in 1 .. Cardinality(result) |->
     CHOOSE c \in result : Cardinality({d \in result : SortsBefore(c, d)}) = i - 1]

(* The candidates in the order of sort_by: the i-th is the one that i - 1  *)
(* of them sort before.                                                    *)
Sorted == [i \in 1 .. Cardinality(result) |->
             CHOOSE c \in result : Cardinality({d \in result : SortsBefore(d, c)}) = i - 1]

(* cands.truncate(n), or all. *)
Truncate ==
  /\ At({"identify"}) /\ stack = <<>>
  /\ \E n \in Tops \cup {Len(Sorted)} : report' = SubSeq(Sorted, 1, Min({n, Len(Sorted)}))
  /\ phase' \in {"human", "json"} /\ UNCHANGED <<vars, written, exit>>

(* print_human: a headline, then candidate by candidate; --json: all at    *)
(* once.                                                                   *)
Writes == IF phase = "json" THEN 1 ELSE 1 + Len(report)

(* Fault: the headline is not counted. *)
WriteHeadless == /\ At({"human", "json"})
                 /\ written' = written + 1 /\ UNCHANGED <<vars, phase, report, exit>>

Write == /\ At({"human", "json"}) /\ written < Writes
         /\ written' = written + 1 /\ UNCHANGED <<vars, phase, report, exit>>

(* println! panics when nobody reads the output any more. *)
WriteFails == At({"human", "json"}) /\ written < Writes /\ Exits(Panicked)

(* Fault: the kind of the innermost payload decides. *)
ExitCodeInnermost(list) ==
  IF list = <<>> \/ Last(list[1]).kind = "Unknown" THEN 2 ELSE 0

ExitCode(list) == IF list = <<>> \/ Kind(list[1]) = "Unknown" THEN 2 ELSE 0

Exit == At({"human", "json"}) /\ written = Writes /\ Exits(ExitCode(report))

Ended == exit # NoCode \/ (phase = "library" /\ stack = <<>>)

Over == Ended /\ UNCHANGED <<vars, callerVars>>

CallersNext == \/ Usage \/ Parse \/ Load \/ LoadFails \/ Identifying
               \/ Truncate \/ Write \/ WriteFails \/ Exit \/ Over

CallersSpec == CallersInit /\ [][CallersNext]_<<vars, callerVars>>

-----------------------------------------------------------------------------
(* Properties *)

(* The callers keep their types and write no more than there is to report. *)
CallersTypeOK ==
  /\ TypeOK
  /\ phase \in Sources \cup {"parse", "identify", "library", "human", "json"}
  /\ report \in Seq(Seq(Link)) /\ written \in 0 .. Writes
  /\ exit \in {NoCode, 0, 1, 2, Panicked}

(* main: a call that identified a blob exits with 0 or 2 only after all of *)
(* its output was written; 0 tells that the blob has a reading other than  *)
(* Unknown, 2 that it has none or that --top 0 was asked for; 1 tells that *)
(* nothing was identified at all.                                          *)
ExitTells ==
  LET concrete == \E c \in result : Kind(c) # "Unknown"
  IN /\ exit \in {0, 2} /\ calls > 0 =>
          written = Writes /\ (exit = 0 <=> concrete /\ report # <<>>)
     /\ exit = 1 => calls = 0

(* What is reported is the best of the candidates, best first: none that   *)
(* is left out sorts before one that is in.                                *)
ReportsBest ==
  \A i \in DOMAIN report :
    /\ report[i] \in result
    /\ \A c \in result \ {report[j] : j \in 1 .. i} : SortsBefore(report[i], c)
=============================================================================
