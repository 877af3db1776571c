----------------------------- MODULE CommandLine -----------------------------
(***************************************************************************)
(* The option loops of app/main.cpp, which the collect, generate and       *)
(* replay commands share in shape: --help ends the loop, a flag stands for *)
(* itself, and any other argument is an option that takes the next one as  *)
(* its value, known or not.                                                *)
(*                                                                         *)
(* An argument is its text and the number parse_integer makes of it, which *)
(* is NotANumber when from_chars does not take all of it.                  *)
(***************************************************************************)
EXTENDS Integers, SequencesExt

CONSTANT NotANumber

Scanning == [outcome |-> "scanning", option |-> <<>>, values |-> << >>]

\* Later values of an option replace earlier ones.
With(values, option, argument) ==
    [o \in DOMAIN values \cup {option} |-> IF o = option THEN argument ELSE values[o]]

\* One argument, in the state of the loop it is met in; accepts has the values
\* each option takes.  "--output --help" is a file name.
Scanned(s, argument, flags, accepts) ==
    IF s.outcome # "scanning" THEN s
    ELSE IF s.option # <<>> THEN
      IF s.option[1] \in DOMAIN accepts /\ argument \in accepts[s.option[1]]
        THEN [s EXCEPT !.option = <<>>, !.values = With(@, s.option[1], argument)]
        ELSE [s EXCEPT !.outcome = "error"]
    ELSE IF argument.text \in {"--help", "-h"} THEN [s EXCEPT !.outcome = "help"]
    ELSE IF argument.text \in flags
      THEN [s EXCEPT !.values = With(@, argument.text, argument)]
    ELSE [s EXCEPT !.option = <<argument.text>>]

\* The state of the loop after n arguments.
Scans(arguments, flags, accepts) ==
    LET scan[n \in 0 .. Len(arguments)] ==
          IF n = 0 THEN Scanning ELSE Scanned(scan[n - 1], arguments[n], flags, accepts)
    IN  scan

\* The loop: "help", "error" (an unknown option, an unusable or a missing
\* value), or "run" with the last value of every option given.
ReadArguments(arguments, flags, accepts) ==
    LET s == Scans(arguments, flags, accepts)[Len(arguments)]
    IN  [outcome |-> IF s.outcome # "scanning" THEN s.outcome
                     ELSE IF s.option # <<>> THEN "error" ELSE "run",
         values |-> s.values]

Given(line, option) == option \in DOMAIN line.values
NumberOr(line, option, default) ==
    IF Given(line, option) THEN line.values[option].number ELSE default

\* The values of an option that is parsed, and of one that is taken as it is.
NumberIn(numbers) == [text : STRING, number : numbers]
AnyText == NumberIn(Int \cup {NotANumber})
=============================================================================
