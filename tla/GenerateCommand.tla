--------------------------- MODULE GenerateCommand ---------------------------
(***************************************************************************)
(* traceforge generate: run_generator in app/main.cpp, which reads its     *)
(* options, generates a workload (WorkloadGenerator) and publishes it if a *)
(* target is given (WorkloadPublisher).  The generator is also called as a *)
(* library, with rates the command cannot set.                             *)
(*                                                                         *)
(* Durations and jitter are given in the generator's unit of time.  Seed   *)
(* and connect timeout choose among behaviours that are all there.  What   *)
(* is printed is left out.                                                 *)
(***************************************************************************)
EXTENDS WorkloadGenerator, WorkloadPublisher, CommandLine

CONSTANTS
    ArgumentLists,      \* the arguments of the command
    LibraryConfigs,     \* the configurations of other callers
    DefaultRates,       \* SensorRates{}
    MaxConnectTimeout   \* 60 s

\* The rates of a configuration are unsigned.
ASSUME RatesAssumption ==
    /\ DefaultRates \in [Sensors -> Nat]
    /\ \A c \in LibraryConfigs : c.rates \in [Sensors -> Nat]

VARIABLES
    command,        \* where run_generator is
    target,         \* the target is not empty
    exit_code       \* its result, "none" before

commandVars == <<command, target, exit_code>>
allVars == <<generatorVars, publishVars, commandVars>>

DefaultConfig ==
    [duration |-> Second, max_jitter |-> 0, clock_drift |-> 0, rates |-> DefaultRates,
     drop |-> 0, duplicate |-> 0, reorder |-> 0]

CommandInit ==
    /\ GeneratorInit
    /\ PublishInit
    /\ config = DefaultConfig
    /\ command = "start"
    /\ target = FALSE
    /\ exit_code = "none"

\* What run_generator checks of an option's value.  A probability that does
\* not fit 32 bits is refused here and not by validate_config; drift and
\* probabilities are otherwise left to it.
GeneratorOptions ==
    ("--target" :> AnyText)
      @@ ("--clock-drift-ppm" :> NumberIn(Int))
      @@ [option \in {"--seed", "--drop-per-million", "--duplicate-per-million",
                      "--reorder-per-million"} |-> NumberIn(Nat)]
      @@ ("--duration-ms" :> NumberIn(1 .. MaxDuration))
      @@ ("--jitter-us" :> NumberIn(0 .. MaxDuration))
      @@ ("--connect-timeout-ms" :> NumberIn(1 .. MaxConnectTimeout))

ConfigOf(line) ==
    [duration |-> NumberOr(line, "--duration-ms", Second),
     max_jitter |-> NumberOr(line, "--jitter-us", 0),
     clock_drift |-> NumberOr(line, "--clock-drift-ppm", 0),
     rates |-> DefaultRates,
     drop |-> NumberOr(line, "--drop-per-million", 0),
     duplicate |-> NumberOr(line, "--duplicate-per-million", 0),
     reorder |-> NumberOr(line, "--reorder-per-million", 0)]

Exit(code) ==
    /\ command' = "exited"
    /\ exit_code' = code

\* The option loop, then the constructor of the generator.
ReadOptions(arguments) ==
    /\ command = "start"
    /\ LET line == ReadArguments(arguments, {"--print-events"}, GeneratorOptions)
       IN  \/ line.outcome = "help" /\ Exit("0") /\ UNCHANGED <<target, generatorVars>>
           \/ line.outcome = "error" /\ Exit("2") /\ UNCHANGED <<target, generatorVars>>
           \/ /\ line.outcome = "run"
              /\ Construct(ConfigOf(line))
              /\ command' = "generating"
              /\ target' = (Given(line, "--target") /\ line.values["--target"].text # "")
              /\ UNCHANGED exit_code
    /\ UNCHANGED publishVars

CallLibrary(c) ==
    /\ command = "start"
    /\ Construct(c)
    /\ command' = "library"
    /\ UNCHANGED <<target, exit_code, publishVars>>

\* The exception of an invalid configuration.
ConfigRefused ==
    /\ command = "generating"
    /\ generator = "thrown"
    /\ Exit("2")
    /\ UNCHANGED <<target, generatorVars, publishVars>>

\* The workload is reported; without a target that is all.
EndOfGeneration ==
    /\ command = "generating"
    /\ generator = "returned"
    /\ \/ ~target /\ Exit("0") /\ UNCHANGED publishVars
       \/ /\ target
          /\ Publish(events)
          /\ command' = "publishing"
          /\ UNCHANGED exit_code
    /\ UNCHANGED <<target, generatorVars>>

\* Mutant: one stream that succeeds is enough.
PublishStatusAny == IF \E p \in Producers : ProducerSucceeded(p) THEN "0" ELSE "3"

PublishStatus == IF Succeeded THEN "0" ELSE "3"

EndOfPublish ==
    /\ command = "publishing"
    /\ main = "returned"
    /\ Exit(PublishStatus)
    /\ UNCHANGED <<target, generatorVars, publishVars>>

Command ==
    \/ \E arguments \in ArgumentLists : ReadOptions(arguments)
    \/ \E c \in LibraryConfigs : CallLibrary(c)
    \/ Generate /\ UNCHANGED <<publishVars, commandVars>>
    \/ ConfigRefused \/ EndOfGeneration \/ EndOfPublish

CommandNext == Command \/ (PublishNext /\ UNCHANGED <<generatorVars, commandVars>>)

CommandSpec ==
    /\ CommandInit
    /\ [][CommandNext]_allVars
    /\ WF_allVars(Command)
    /\ PublishFairness

-----------------------------------------------------------------------------
(* Properties *)

\* The numbers of p that were dropped between its first and its last event.
DroppedInside(p) ==
    LET sent == {e.number : e \in ToSet(EventsOf(p))}
    IN  {i \in OfProducer(p) :
           LET n == base_events[i].number
           IN  n \notin sent /\ (\E m \in sent : m < n) /\ (\E m \in sent : n < m)}

\* "It exits unsuccessfully if any stream is rejected, including intentional
\* validation faults or queue overload" (README.md).  Exit status 0 after a
\* publish means that the collector finished every stream with OK and has every
\* event; status 2, and 0 without a target, mean that nothing was sent.
ExitMeansDelivered ==
    /\ exit_code = "2" => main = "idle"
    /\ exit_code = "0" =>
         /\ target => main = "returned"
         /\ \A p \in Producers : outcome[p] = "OK" /\ accepted[p] = EventsOf(p)

\* Beyond that, the gaps the collector reports are exactly the drops the
\* generator injected inside a stream, and a workload without jitter, duplicates
\* and swaps is never refused as out of order.
ExitStatusTruthful ==
    /\ ExitMeansDelivered
    /\ exit_code = "0" =>
         \A p \in Producers : report[p].gaps = Cardinality(DroppedInside(p))
    /\ config.max_jitter = 0 /\ config.duplicate = 0 /\ config.reorder = 0 =>
         \A p \in Producers : outcome[p] # "INVALID_ARGUMENT"

\* The command ends: every option list is read, and publish returns also when a
\* stream is refused while its thread still writes, when buffers are full, and
\* when the connection breaks, although no RPC has a deadline.
GenerateReturns ==
    <>(command = "exited" \/ (command = "library" /\ generator \in {"returned", "thrown"}))
=============================================================================
