------------------------- MODULE MCCollectorProcess -------------------------
(* The collector process for TLC: a counting and a recording collector, a   *)
(* value that looks like an option, and what is refused.                    *)
EXTENDS CollectorProcess

Text(s) == [text |-> s, number |-> NotANumber]
Number(n) == [text |-> "number", number |-> n]

MCArgumentLists ==
    {<<>>,
     <<Text("--consumer-delay-us"), Number(1), Text("--queue-capacity"), Number(1)>>,
     <<Text("--output"), Text("--help"), Text("--flush-every"), Number(1)>>,
     <<Text("--output"), Text("file"), Text("--help")>>,
     <<Text("--output"), Text("file"), Text("--consumer-delay-us"), Number(1)>>,
     <<Text("--output"), Text("file"), Text("--queue-capacity"), Number(0)>>,
     <<Text("--output"), Text("file"), Text("--listen")>>,
     <<Text("--unknown"), Text("--help")>>}
=============================================================================
