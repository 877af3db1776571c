----------------------------- MODULE MCReaders -----------------------------
(* The two commands that work through a recording for TLC, replay and       *)
(* analyze.  A process of traceforge runs one of them, so a behaviour is    *)
(* one of either: a part takes steps while the other has not begun, and the *)
(* states of the two add up instead of multiplying.                         *)
EXTENDS Replay, Analyzer

-----------------------------------------------------------------------------
(* Replay: events of one and two bytes, two with the same arrival timestamp, *)
(* in any order in the file; windows open and closed at each end.            *)

MCEvents == {"a", "b", "c"}
MCPayloadSize == [e \in MCEvents |-> IF e = "b" THEN 2 ELSE 1]
MCArrival == [e \in MCEvents |-> IF e = "c" THEN 2 ELSE 1]
MCLibraryOptions ==
    {[from |-> from, until |-> until, speed |-> 0] : from \in {Unset, 2}, until \in {Unset, 2}}
      \cup {[from |-> Unset, until |-> Unset, speed |-> -1]}

Text(s) == [text |-> s, number |-> NotANumber]
Number(n) == [text |-> "number", number |-> n]

\* Whole recordings and windows, a repeated option, and what is refused.
MCArgumentLists ==
    {<<>>,
     <<Text("file")>>,
     <<Text("file"), Text("--from-ns"), Number(1), Text("--print-events"),
       Text("--from-ns"), Number(2)>>,
     <<Text("file"), Text("--until-ns"), Number(2), Text("--speed"), Number(1)>>,
     <<Text("file"), Text("--from-ns"), Number(2), Text("--until-ns"), Number(2)>>,
     <<Text("file"), Text("--from-ns"), Text("--help")>>,
     <<Text("file"), Text("--speed"), Number(-1)>>,
     <<Text("file"), Text("--speed")>>,
     <<Text("file"), Text("--help")>>}

-----------------------------------------------------------------------------
(* Analyze *)

\* Two producers and all numbers of a two-bit word; one sends faults.
SequenceRecords ==
    [producer : {"p"}, number : 0 .. 3, payload : {"gps"}, clock : {"UTC"},
     source : {0}, arrival : {0}, severity : {"none"}]
      \cup {[producer |-> "q", number |-> n, payload |-> "fault", clock |-> "UTC",
             source |-> 0, arrival |-> 0,
             severity |-> IF n = 0 THEN "unspecified" ELSE
                          IF n = 1 THEN "warning" ELSE IF n = 2 THEN "error" ELSE "critical"] :
               n \in 0 .. 3}

\* One producer with two payloads and two clocks, arrivals out of order.
TimingRecords ==
    [producer : {"p"}, number : {0}, payload : {"gps"}, clock : {"UTC", "DEVICE"},
     source : {1, 2}, arrival : {0, 1, 3}, severity : {"none"}]
      \cup [producer : {"p"}, number : {0}, payload : {"imu"}, clock : {"DEVICE"},
            source : {1}, arrival : {1}, severity : {"none"}]

MCRecords == SequenceRecords \cup TimingRecords

-----------------------------------------------------------------------------

readerCommandVars == <<logVars, replayVars, analyzerVars>>

ReplayIdle == writer = "none" /\ caller = "start"
AnalyzerIdle == log = <<>> /\ ~finished

ReadersInit == ReplayInit /\ AnalyzerInit

ReadersNext ==
    \/ AnalyzerIdle /\ ReplayNext /\ UNCHANGED analyzerVars
    \/ ReplayIdle /\ AnalyzerNext /\ UNCHANGED <<logVars, replayVars>>

ReadersSpec == ReadersInit /\ [][ReadersNext]_readerCommandVars
=============================================================================
