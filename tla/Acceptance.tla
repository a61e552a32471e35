----------------------------- MODULE Acceptance -----------------------------
(***************************************************************************)
(* Which programs the compiler accepts.                                    *)
(***************************************************************************)
EXTENDS Recovery

Language == INSTANCE Grammar WITH Value <- DOMAIN Literal

\* compile() fails for exactly the programs that break a rule of the language or a
\* limit of the code: no error is forgotten on the way, and no legal program gets one.
Accepts ==
  todo = <<>> =>
    (hadError <=> \/ ~ Language!IsProgram(scanned)
                  \/ Len(script.constants) > ByteCount)
============================================================================
