------------------------------ MODULE MCCallers ------------------------------
(* Bounds under which TLC checks the identifier and its callers, and what   *)
(* the documents say of sizes and exit codes that the code does not do.     *)
EXTENDS Callers

TextLeads == {"ascii", "binary", "text"}
NestingLeads == {"ascii", "zlib", "binary"}

(* Limits.max_output, "Maximum bytes to hold from a single                 *)
(* decompression/decode step", src/src/lib.rs:201-203.                     *)
DecodedWithinMaxOutput == \A c \in result : \A i \in DOMAIN c : c[i].len <= MaxOutput

(* "`2` nothing matched (Unknown)", src/src/main.rs:6: a blob that was     *)
(* identified has no reading but Unknown.                                  *)
ExitTwoMeansUnknown == exit = 2 /\ calls > 0 => result = {Unknown}
=============================================================================
