------------------------- MODULE MCGenerateCommand -------------------------
(* The generate command for TLC.  A second has eight units of time and a    *)
(* probability four.                                                        *)
EXTENDS GenerateCommand

Rates(accelerometer, gps, fault) ==
    [s \in Sensors |-> IF s = "sim-accelerometer" THEN accelerometer
                              ELSE IF s = "sim-gps" THEN gps
                              ELSE IF s = "sim-fault" THEN fault ELSE 0]

MCRates == Rates(0, 2, 0)

Text(s) == [text |-> s, number |-> NotANumber]
Number(n) == [text |-> "number", number |-> n]
To == <<Text("--target"), Text("collector")>>

\* Published: in order, with drops, duplicates or swaps, with jitter.
\* Not published: no address, a repeated option, and what is refused.
MCArgumentLists ==
    {To,
     To \o <<Text("--duration-ms"), Number(4), Text("--drop-per-million"), Number(1)>>,
     To \o <<Text("--duration-ms"), Number(1), Text("--duplicate-per-million"), Number(1)>>,
     To \o <<Text("--duration-ms"), Number(1), Text("--jitter-us"), Number(1)>>,
     To \o <<Text("--duration-ms"), Number(4), Text("--print-events"),
            Text("--reorder-per-million"), Number(2)>>,
     To \o <<Text("--target"), Text("")>>,
     <<Text("--help"), Text("--unknown")>>,
     <<Text("--unknown"), Text("--help")>>,
     To \o <<Text("--seed")>>,
     To \o <<Text("--duration-ms"), Number(0)>>,
     To \o <<Text("--connect-timeout-ms"), Text("soon")>>,
     To \o <<Text("--drop-per-million"), Number(5)>>}

\* Durations that end inside a second and inside a period, extreme drifts,
\* certain and impossible faults, and configurations at and over the limits.
Clean(duration, drift, rates) ==
    [duration |-> duration, max_jitter |-> 0, clock_drift |-> drift, rates |-> rates,
     drop |-> 0, duplicate |-> 0, reorder |-> 0]

MCLibraryConfigs ==
    {Clean(duration, drift, rates) :
       duration \in {0, 1, 2, 7, 8, 15, 23, 24}, drift \in {-5, -4, -3, -1, 0, 3, 4},
       rates \in {Rates(0, 0, 0), Rates(1, 3, 2), Rates(2, 0, 1), Rates(5, 0, 0)}}
      \cup {[Clean(8, 0, Rates(0, 1, 0)) EXCEPT
               !.drop = drop, !.duplicate = duplicate, !.reorder = reorder] :
              drop \in {0, 1, 4}, duplicate \in {0, 2, 4}, reorder \in {0, 1, 4}}
      \cup {[Clean(5, -3, Rates(2, 0, 0)) EXCEPT !.max_jitter = jitter] : jitter \in {-1, 1}}
=============================================================================
