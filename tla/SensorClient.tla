---------------------------- MODULE SensorClient ----------------------------
(***************************************************************************)
(* The Flutter client: TelemetryController with its GrpcTelemetryPublisher *)
(* (clients/flutter_sensor/lib/src).  Dart runs one piece of code at a     *)
(* time, and other code may run at every await: an action is the stretch   *)
(* of start(), stop() or dispose() from one await to the next, or one      *)
(* sample callback.  Several calls may be suspended at once, since start   *)
(* and stop only look at _isRunning.                                       *)
(*                                                                         *)
(* Objects are named after the start() call that made them: the channel    *)
(* and event stream of call k are session k, its sensor subscriptions and  *)
(* its refresh timer are <<"motion", k>>, <<"location", k>> and            *)
(* <<"timer", k>>.  The accelerometer and gyroscope subscriptions are made *)
(* and cancelled together and are one.                                     *)
(*                                                                         *)
(* Elapsing of a timeout is a choice that is open while the awaited thing  *)
(* has not happened.  The status texts, the sample statistics and a        *)
(* controller without publisher are left out; notifyListeners on a         *)
(* disposed controller does nothing, as in a release build.                *)
(***************************************************************************)
EXTENDS Naturals, Sequences, FiniteSets

CONSTANTS
    MaxStarts,          \* bound: number of start() calls that do something
    MaxStops,           \* bound: number of stop() calls that do something
    MaxSamples          \* bound: value of _nextSequenceNumber

ASSUME BoundsAssumption == MaxStarts \in Nat /\ MaxStops \in Nat /\ MaxSamples \in Nat

Starts == 1 .. MaxStarts
Stops == 1 .. MaxStops
Disposal == 0               \* the publisher.stop() that dispose() does not await
None == 0                   \* null

VARIABLES
    isRunning,          \* _isRunning
    publisherStarted,   \* _publisherStarted
    disposed,           \* dispose() has been called
    overlapped,         \* history: a call was made while another was suspended
    held,               \* the subscriptions and the timer the controller refers to
    active,             \* the subscriptions and timers that are not cancelled
    start,              \* where each start() call is
    stop,               \* where each stop() call is
    closing,            \* the session each stop() call is closing
    session,            \* each channel with its event stream
    events,             \* the session _events, _channel and _completion refer to
    nextSequenceNumber, \* _nextSequenceNumber
    sent                \* the sequence numbers added to each event stream

controllerVars == <<isRunning, publisherStarted, disposed, overlapped, held, active>>
streamVars == <<events, nextSequenceNumber, sent>>
publisherVars == <<session, streamVars>>
clientVars == <<controllerVars, publisherVars, start, stop, closing>>

Kinds == {"motion", "location", "timer"}

ClientInit ==
    /\ isRunning = FALSE /\ publisherStarted = FALSE
    /\ disposed = FALSE /\ overlapped = FALSE
    /\ held = [kind \in Kinds |-> None]
    /\ active = {}
    /\ start = [k \in Starts |-> "none"]
    /\ stop = [j \in Stops \cup {Disposal} |-> "none"]
    /\ closing = [j \in Stops \cup {Disposal} |-> None]
    /\ session = [k \in Starts |-> "none"]
    /\ events = None
    /\ nextSequenceNumber = 0
    /\ sent = [k \in Starts |-> <<>>]

Quiet ==
    /\ \A k \in Starts : start[k] \in {"none", "done"}
    /\ \A j \in Stops \cup {Disposal} : stop[j] \in {"none", "done"}

\* start(), stop() or dispose() is called, whether or not another is suspended.
Call ==
    /\ ~disposed
    /\ overlapped' = (overlapped \/ ~Quiet)

Goto(k, where) == start' = [start EXCEPT ![k] = where]

\* Calls are numbered in the order they are made.
Fresh(calls, k) == \A i \in DOMAIN calls \ {Disposal} : calls[i] = "none" <=> i >= k

-----------------------------------------------------------------------------
(* start() *)

\* publisher.start() up to its first await: it opens a channel and starts the
\* RPC, unless the publisher already has an event stream.
PublisherStart(k) ==
    \/ events # None /\ Goto(k, "returned") /\ UNCHANGED session
    \/ /\ events = None
       /\ Goto(k, "connecting")
       /\ session' = [session EXCEPT ![k] = "connecting"]

StartCall(k) ==
    /\ Call
    /\ ~isRunning
    /\ Fresh(start, k)
    /\ isRunning' = TRUE
    /\ PublisherStart(k)
    /\ UNCHANGED <<publisherStarted, disposed, held, active, stop, closing, streamVars>>

\* The channel becomes ready in time; the state subscription is cancelled.
ConnectionReady(k) ==
    /\ start[k] = "connecting"
    /\ Goto(k, "committing")
    /\ session' = [session EXCEPT ![k] = "ready"]
    /\ UNCHANGED <<controllerVars, stop, closing, streamVars>>

\* Mutant: the sequence number of the previous stream is kept.
FirstSequenceNumberKept == nextSequenceNumber

FirstSequenceNumber == 0

\* The end of publisher.start().
Commit(k) ==
    /\ start[k] = "committing"
    /\ events' = k
    /\ nextSequenceNumber' = FirstSequenceNumber
    /\ session' = [session EXCEPT ![k] = "open"]
    /\ Goto(k, "returned")
    /\ UNCHANGED <<controllerVars, stop, closing, sent>>

\* The connection timeout elapses, or the channel reports an error or closes:
\* the channel is terminated, and the close of the event stream is awaited.
ConnectionFails(k) ==
    /\ start[k] = "connecting"
    /\ Goto(k, "cleanup")
    /\ session' = [session EXCEPT ![k] = "terminated"]
    /\ UNCHANGED <<controllerVars, stop, closing, streamVars>>

\* StreamController.close() completes when a listener has seen the end, so
\* never if gRPC did not listen to the stream before it was connected: this
\* step may or may not come.
CleanupDone(k) ==
    /\ start[k] = "cleanup"
    /\ Goto(k, "failed")
    /\ UNCHANGED <<controllerVars, publisherVars, stop, closing>>

\* After publisher.start() returned or threw: the motion sensors and the timer.
ContinueStart(k) ==
    /\ start[k] \in {"returned", "failed"}
    /\ publisherStarted' = (start[k] = "returned")
    /\ held' = [held EXCEPT !["motion"] = k, !["timer"] = k]
    /\ active' = active \cup {<<"motion", k>>, <<"timer", k>>}
    /\ Goto(k, "locating")
    /\ UNCHANGED <<isRunning, disposed, overlapped, publisherVars, stop, closing>>

\* After prepareLocation(), which may wait for the permission dialog as long as
\* the user likes: location is subscribed to if it is ready.
Located(k) ==
    /\ start[k] = "locating"
    /\ Goto(k, "done")
    /\ \/ /\ isRunning
          /\ held' = [held EXCEPT !["location"] = k]
          /\ active' = active \cup {<<"location", k>>}
       \/ UNCHANGED <<held, active>>
    /\ UNCHANGED <<isRunning, publisherStarted, disposed, overlapped, publisherVars, stop, closing>>

-----------------------------------------------------------------------------
(* stop() and dispose() *)

HeldObjects == {o \in active : o[2] = held[o[1]]}

\* Up to the await of the cancellations; a cancelled subscription delivers
\* nothing more.
StopCall(j) ==
    /\ Call
    /\ isRunning
    /\ Fresh(stop, j)
    /\ isRunning' = FALSE
    /\ active' = active \ HeldObjects
    /\ held' = [held EXCEPT !["timer"] = None]
    /\ stop' = [stop EXCEPT ![j] = "cancelling"]
    /\ UNCHANGED <<publisherStarted, disposed, publisherVars, start, closing>>

\* publisher.stop() up to its first await: it takes the stream away from the
\* publisher and closes it; without a stream it returns at once.
StopPublisher(j) ==
    /\ publisherStarted' = FALSE
    /\ \/ /\ events = None
          /\ stop' = [stop EXCEPT ![j] = "done"]
          /\ UNCHANGED <<closing, session, events>>
       \/ /\ events # None
          /\ stop' = [stop EXCEPT ![j] = "closing"]
          /\ closing' = [closing EXCEPT ![j] = events]
          /\ session' = [session EXCEPT ![events] = "closing"]
          /\ events' = None

\* Mutant: stop() stops the sensors only.
HasStreamNever == FALSE

HasStream == publisherStarted

\* After the cancellations.
SubscriptionsCancelled(j) ==
    /\ stop[j] = "cancelling"
    /\ held' = [held EXCEPT !["motion"] = None, !["location"] = None]
    /\ \/ HasStream /\ StopPublisher(j)
       \/ /\ ~HasStream
          /\ stop' = [stop EXCEPT ![j] = "done"]
          /\ UNCHANGED <<publisherStarted, closing, session, events>>
    /\ UNCHANGED <<isRunning, disposed, overlapped, active, nextSequenceNumber, sent, start>>

\* The collector acknowledges the stream in time and the channel is shut down.
StreamAcknowledged(j) ==
    /\ stop[j] = "closing"
    /\ session' = [session EXCEPT ![closing[j]] = "shut"]
    /\ stop' = [stop EXCEPT ![j] = "done"]
    /\ UNCHANGED <<controllerVars, streamVars, start, closing>>

\* Mutant: the acknowledgement is awaited without a timeout.
StreamNotAcknowledgedNever(j) == FALSE /\ UNCHANGED clientVars

\* The RPC fails, or the stop timeout elapses before the acknowledgement or
\* the end of the channel's shutdown: the channel is terminated.
StreamNotAcknowledged(j) ==
    /\ stop[j] = "closing"
    /\ session' = [session EXCEPT ![closing[j]] = "terminated"]
    /\ stop' = [stop EXCEPT ![j] = "done"]
    /\ UNCHANGED <<controllerVars, streamVars, start, closing>>

\* dispose(): the widget goes away.
Dispose ==
    /\ Call
    /\ disposed' = TRUE
    /\ active' = active \ HeldObjects
    /\ \/ HasStream /\ StopPublisher(Disposal)
       \/ ~HasStream /\ UNCHANGED <<publisherStarted, stop, closing, session, events>>
    /\ UNCHANGED <<isRunning, held, nextSequenceNumber, sent, start>>

-----------------------------------------------------------------------------
(* Samples *)

\* _add: without a stream it throws, and the sample is lost.
Add(number) ==
    sent' = [k \in Starts |-> IF k = events THEN Append(sent[k], number) ELSE sent[k]]

\* publishMotion and publishLocation take the number before they add the event.
Publish ==
    /\ nextSequenceNumber' = nextSequenceNumber + 1
    /\ Add(nextSequenceNumber)

\* A sensor callback.
Sample(o) ==
    /\ o \in active /\ o[1] # "timer"
    /\ nextSequenceNumber < MaxSamples
    /\ Publish
    /\ UNCHANGED <<controllerVars, session, events, start, stop, closing>>

-----------------------------------------------------------------------------

StartStep(k) ==
    \/ ConnectionReady(k) \/ Commit(k) \/ ConnectionFails(k) \/ CleanupDone(k)
    \/ ContinueStart(k) \/ Located(k)

StopStep(j) == StreamAcknowledged(j) \/ StreamNotAcknowledged(j)

ClientNext ==
    \/ \E k \in Starts : StartCall(k) \/ StartStep(k)
    \/ \E j \in Stops : StopCall(j) \/ SubscriptionsCancelled(j)
    \/ \E j \in Stops \cup {Disposal} : StopStep(j)
    \/ Dispose
    \/ \E o \in Kinds \X Starts : Sample(o)

\* Suspended calls go on: the connection is ready or its timeout elapses, the
\* operating system answers the cancellations, and the stop timeout elapses.
\* Not assumed are a ready connection, the collector's acknowledgement, a
\* listener on the stream of a failed connection, and an answer to the location
\* request, none of which the code can force.
ClientFairness ==
    /\ \A k \in Starts :
         WF_clientVars(ConnectionFails(k) \/ Commit(k) \/ ContinueStart(k))
    /\ \A j \in Stops : WF_clientVars(SubscriptionsCancelled(j))
    /\ \A j \in Stops \cup {Disposal} : WF_clientVars(StreamNotAcknowledged(j))

ClientSpec == ClientInit /\ [][ClientNext]_clientVars
FairClientSpec == ClientSpec /\ ClientFairness

-----------------------------------------------------------------------------
(* Properties *)

\* The events on every stream are numbered 0, 1, 2, ... without gap or
\* repetition, whatever start, stop and dispose do meanwhile; the collector
\* would answer a repeated number with INVALID_ARGUMENT and count a gap.
\* "The phone should report the collector-accepted count and zero sequence
\* gaps" (docs/demo.md).
ContiguousNumbers ==
    \A k \in Starts : \A i \in 1 .. Len(sent[k]) : sent[k][i] = i - 1

Released ==
    /\ active = {}
    /\ \A k \in Starts : session[k] \notin {"connecting", "ready", "open", "closing"}

\* When the controller is stopped or disposed of and no call is suspended,
\* nothing that start() made is left behind: no sensor subscription, no timer,
\* no open stream, through reconnects and refused connections, as long as no
\* call was made while another was suspended.
StopReleasesAll == ~overlapped /\ Quiet /\ (~isRunning \/ disposed) => Released

\* "Close the stream. Tap Stop and show the accepted-event and zero-gap
\* acknowledgement" (docs/demo.md), for a Stop tapped at any time the dashboard
\* offers it, so also while start() is still connecting.
StopClosesStream == Quiet /\ ~isRunning /\ ~disposed => Released

\* A collector that never answers cannot keep stop() waiting: every stop() comes
\* to its end, also the publisher.stop() that dispose() does not await, whatever
\* calls overlap it.
StopReturns ==
    \A j \in Stops \cup {Disposal} :
      stop[j] \in {"cancelling", "closing"} ~> stop[j] = "done"

\* "Connection attempts [...] are bounded by five-second timeouts so an
\* unreachable collector cannot leave Start [...] waiting indefinitely"
\* (clients/flutter_sensor/README.md): a start() that is connecting gets past
\* the connection, ready or failed.  It does not: after the timeout it awaits
\* the close of a stream that nobody may listen to.
StartGivesUp ==
    \A k \in Starts :
      start[k] \in {"connecting", "cleanup"} ~> start[k] \notin {"connecting", "cleanup"}
=============================================================================
