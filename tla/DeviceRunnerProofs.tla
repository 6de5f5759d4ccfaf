------------------------- MODULE DeviceRunnerProofs -------------------------
(***************************************************************************)
(* Proofs about DeviceRunner, for every duration, limit, queue size and    *)
(* number of reconnects.                                                   *)
(***************************************************************************)
EXTENDS DeviceRunner, TLAPS

-----------------------------------------------------------------------------
(* The journal and the flow of control.                                    *)

(* The journal of one kind may have changed, no other.                     *)
OnlyIn(kind) ==
  events' \in [Kinds -> Seq(Event)] /\ \A k \in Kinds \ {kind} : events'[k] = events[k]

(* An entry goes to the end of its own kind.                               *)
LEMMA Journaled ==
  ASSUME TypeOK, NEW e \in Event, Journal(e)
  PROVE  OnlyIn(e.kind) /\ events'[e.kind] = Append(events[e.kind], e)
<1>1. e.kind \in Kinds
  BY DEF Event
<1>2. events[e.kind] \in Seq(Event)
  BY <1>1 DEF TypeOK
<1>3. Append(events[e.kind], e) \in Seq(Event)
  BY <1>2
<1>4. QED
  BY <1>1, <1>3 DEF TypeOK, Journal, OnlyIn

(* So do marks and the events of the meter.                                *)
LEMMA MarkJournaled ==
  ASSUME TypeOK, NEW kind \in Kinds, NEW ok \in BOOLEAN,
         Journal(Mark(kind, ok)) \/ Journal(MeterEvent(kind, ok))
  PROVE  /\ OnlyIn(kind)
         /\ \E e \in Event : e.ok = ok /\ events'[kind] = Append(events[kind], e)
<1>1. PICK e \in Event : e.kind = kind /\ e.ok = ok /\ Journal(e)
  <2>1. CASE Journal(Mark(kind, ok))
    <3>1. Mark(kind, ok) \in Event /\ Mark(kind, ok).kind = kind /\ Mark(kind, ok).ok = ok
      BY DEF Mark, Entry, Event, Reports
    <3>2. QED
      BY <2>1, <3>1
  <2>2. CASE Journal(MeterEvent(kind, ok))
    <3>1. MeterEvent(kind, ok) \in Event /\ MeterEvent(kind, ok).kind = kind /\ MeterEvent(kind, ok).ok = ok
      BY DEF TypeOK, MeterEvent, Entry, Event, Reports
    <3>2. QED
      BY <2>2, <3>1
  <2>3. QED
    BY <2>1, <2>2
<1>2. QED
  BY <1>1, Journaled

(* An exception goes where Python takes it.                                *)
LEMMA Raised ==
  ASSUME pc \in Labels, Raise
  PROVE  /\ pc \in Body => pc' = "handler" /\ UNCHANGED <<pending, code>>
         /\ pc \in Restoring => pc' = "cleanupError" /\ UNCHANGED <<pending, code>>
         /\ pc = "handler" => pc' = "finally" /\ pending' = "raise" /\ code' = code
         /\ pc = "cleanupError" => pc' = "close" /\ pending' = "raise" /\ code' = code
         /\ pc = "close" => pc' = "verify" /\ pending' = "raise" /\ code' = code
         /\ pc \in {"start", "finally", "verify", "evaluate", "exit"} =>
              pc' = "exit" /\ pending' = "raise" /\ code' = 1
  BY DEF Raise, Handler, Labels, Body, Collecting, Restoring, Cleaning

(* Which step journals which kind: one entry at a time, but for the two of *)
(* a preflight only.                                                       *)
LEMMA StepJournal ==
  ASSUME TypeOK, Next
  PROVE  /\ events' \in [Kinds -> Seq(Event)]
         /\ ~GetSample => UNCHANGED Samples
         /\ ~Fault => UNCHANGED Faults
         /\ ~(PollUp \/ PollExpires) => UNCHANGED Cleanups
         /\ ~Reconnect => UNCHANGED events["reconnect"]
         /\ UNCHANGED events["error"] \/ events["error"]' # <<>>
<1> DEFINE Goal == /\ events' \in [Kinds -> Seq(Event)]
                   /\ ~GetSample => UNCHANGED Samples
                   /\ ~Fault => UNCHANGED Faults
                   /\ ~(PollUp \/ PollExpires) => UNCHANGED Cleanups
                   /\ ~Reconnect => UNCHANGED events["reconnect"]
                   /\ UNCHANGED events["error"] \/ events["error"]' # <<>>
<1>1. ASSUME UNCHANGED events PROVE Goal
  BY <1>1 DEF TypeOK, Samples, Faults, Cleanups
<1>2. ASSUME NEW kind \in {"preflight", "cleanup_error"}, OnlyIn(kind) PROVE Goal
  BY <1>2 DEF OnlyIn, Kinds, Samples, Faults, Cleanups
<1>3. CASE Observe
  <2>1. CASE preflight
    <3>1. Mark("preflight", TRUE) \in Event /\ Mark("preflight_only", FALSE) \in Event
      BY DEF Mark, Entry, Event, Reports, Kinds
    <3>2. /\ \A e \in Event : <<e>> \in Seq(Event)
          /\ \A e \in Event, q \in Seq(Event) : Append(q, e) \in Seq(Event)
          /\ events["preflight"] \in Seq(Event)
      BY DEF TypeOK, Kinds
    <3>3. /\ <<Mark("preflight_only", FALSE)>> \in Seq(Event)
          /\ Append(events["preflight"], Mark("preflight", TRUE)) \in Seq(Event)
      BY <3>1, <3>2, Zenon
    <3>4. QED
      BY <1>3, <2>1, <3>2, <3>3 DEF Observe, TypeOK, Kinds, Samples, Faults, Cleanups
  <2>2. CASE ~preflight
    <3>1. "preflight" \in Kinds /\ TRUE \in BOOLEAN /\ Journal(Mark("preflight", TRUE))
      BY <1>3, <2>2 DEF Observe, Emit, Kinds
    <3>2. OnlyIn("preflight")
      BY <3>1, MarkJournaled
    <3>3. QED
      BY <1>2, <3>2
  <2>3. QED
    BY <2>1, <2>2 DEF TypeOK
<1>4. CASE GetSample
  <2>1. ASSUME ~UNCHANGED events PROVE OnlyIn("sample")
    <3>1. Head(queue) \in Message
      BY <1>4 DEF GetSample, TypeOK
    <3>2. Entry("sample", Head(queue).t, TRUE, Head(queue).report) \in Event
          /\ Entry("sample", Head(queue).t, TRUE, Head(queue).report).kind = "sample"
      BY <3>1 DEF Message, Entry, Event, Kinds
    <3>3. Journal(Entry("sample", Head(queue).t, TRUE, Head(queue).report))
      BY <1>4, <2>1 DEF GetSample, Emit
    <3>4. QED
      BY <3>2, <3>3, Journaled
  <2>2. QED
    BY <1>1, <1>4, <2>1 DEF OnlyIn, Kinds, Faults, Cleanups
<1>5. CASE Fault
  <2>1. UNCHANGED events \/ Journal(MeterEvent("meter_down", TRUE))
    BY <1>5 DEF Fault, Emit
  <2>2. "meter_down" \in Kinds /\ TRUE \in BOOLEAN
    BY DEF Kinds
  <2>3. UNCHANGED events \/ OnlyIn("meter_down")
    BY <2>1, <2>2, MarkJournaled
  <2>4. QED
    BY <1>1, <1>5, <2>3 DEF OnlyIn, Kinds, Samples, Cleanups
<1>6. CASE PollUp \/ PollExpires
  <2>1. PICK ok \in BOOLEAN : Journal(MeterEvent("meter_restored", ok))
    BY <1>6 DEF PollUp, PollExpires, Emit
  <2>2. "meter_restored" \in Kinds
    BY DEF Kinds
  <2>3. OnlyIn("meter_restored")
    BY <2>1, <2>2, MarkJournaled
  <2>4. QED
    BY <1>6, <2>3 DEF OnlyIn, Kinds, Samples, Faults
<1>7. CASE Reconnect
  <2>1. PICK ok \in BOOLEAN : Journal(Mark("reconnect", ok))
    BY <1>7 DEF Reconnect
  <2>2. "reconnect" \in Kinds
    BY DEF Kinds
  <2>3. OnlyIn("reconnect")
    BY <2>1, <2>2, MarkJournaled
  <2>4. QED
    BY <1>7, <2>3 DEF OnlyIn, Kinds, Samples, Faults, Cleanups
<1>8. CASE Except \/ Close \/ Verify
  <2>1. UNCHANGED events \/ Journal(Mark("error", FALSE))
    BY <1>8 DEF Except, Close, Verify, Emit
  <2>2. "error" \in Kinds /\ FALSE \in BOOLEAN
    BY DEF Kinds
  <2>3. ASSUME ~UNCHANGED events PROVE OnlyIn("error") /\ events'["error"] # <<>>
    <3>1. PICK e \in Event : OnlyIn("error") /\ events'["error"] = Append(events["error"], e)
      BY <2>1, <2>2, <2>3, MarkJournaled
    <3>2. events["error"] \in Seq(Event)
      BY <2>2 DEF TypeOK
    <3>3. QED
      BY <3>1, <3>2
  <2>4. QED
    BY <1>1, <2>3 DEF OnlyIn, Kinds, Samples, Faults, Cleanups
<1>9. CASE CleanupError
  <2>1. "cleanup_error" \in Kinds /\ FALSE \in BOOLEAN /\ Journal(Mark("cleanup_error", FALSE))
    BY <1>9 DEF CleanupError, Emit, Kinds
  <2>2. OnlyIn("cleanup_error")
    BY <2>1, MarkJournaled
  <2>3. QED
    BY <1>2, <2>2
<1>10. CASE ~(Observe \/ GetSample \/ Fault \/ PollUp \/ PollExpires \/ Reconnect \/ Except
              \/ CleanupError \/ Close \/ Verify)
  <2>1. UNCHANGED events
    BY <1>10 DEF Next, Main, Admit, Connect, BodyFails, LoopEnds, Receive, GetTimesOut, GetStale,
         SkipFault, SvcDown, SkipRestore, Restore, Release, Join, SvcUp, Finally,
         CleanupPollFails, Evaluate, OnMessage, Silence, ProbeBreaks, Supervise, Controller,
         PipeBreaks, Signal
  <2>2. QED
    BY <1>1, <2>1
<1>11. QED
  BY <1>3, <1>4, <1>5, <1>6, <1>7, <1>8, <1>9, <1>10

-----------------------------------------------------------------------------
(* Types.                                                                  *)

(* The probe starts with the first sample, and until it ends it has        *)
(* connections left to make.                                               *)
ProbeLeft ==
  /\ Samples = <<>> => worker = "none"
  /\ worker # "done" => probes < ReconnectCount

(* Every step of the main thread ends at a label.                          *)
LEMMA StepControl ==
  ASSUME TypeOK, Next
  PROVE  pc' \in Labels /\ pending' \in {"none", "return", "raise"} /\ code' \in {0, 1}
<1> DEFINE Goal == pc' \in Labels /\ pending' \in {"none", "return", "raise"} /\ code' \in {0, 1}
<1>1. ASSUME Raise PROVE Goal
  BY <1>1 DEF TypeOK, Raise, Handler, Labels, Body, Collecting, Restoring, Cleaning
<1>2. ASSUME NEW label \in Labels, Go(label) PROVE Goal
  BY <1>2 DEF TypeOK, Go
<1>3. ASSUME UNCHANGED control PROVE Goal
  BY <1>3 DEF TypeOK, control
<1>4. Raise \/ UNCHANGED control \/ (\E label \in Labels : Go(label)) \/ Observe \/ Verify \/ Evaluate
  BY DEF Next, Main, Admit, Connect, BodyFails, LoopEnds, Receive, GetTimesOut, GetStale, GetSample,
     SkipFault, Fault, SvcDown, SkipRestore, Restore, Release, Join, SvcUp, PollUp, PollExpires,
     Except, Finally, CleanupPollFails, CleanupError, Close, OnMessage, Silence, Reconnect,
     ProbeBreaks, Supervise, Controller, PipeBreaks, Signal, Emit, Labels, Body, Collecting,
     Restoring, Cleaning
<1>5. Observe \/ Verify \/ Evaluate => Goal
  <2>1. {"connect", "finally", "evaluate", "exit"} \subseteq Labels
    BY DEF Labels, Body, Cleaning
  <2>2. Observe => Goal
    BY <1>1, <2>1 DEF TypeOK, Observe, Emit, Go
  <2>3. Verify => Goal
    BY <1>1, <2>1 DEF TypeOK, Verify, Emit, Go
  <2>4. Evaluate => Goal
    BY <1>1, <2>1 DEF TypeOK, Evaluate
  <2>5. QED
    BY <2>2, <2>3, <2>4
<1>6. QED
  BY <1>1, <1>2, <1>3, <1>4, <1>5

(* Which step touches which of the other variables.                        *)
LEMMA StepFrame ==
  ASSUME Next
  PROVE  /\ preflight' = preflight
         /\ clock' = clock \/ clock' = clock + 1
         /\ queue' = queue \/ (queue # <<>> /\ queue' = Tail(queue)) \/ OnMessage
         /\ ~(Reconnect \/ ProbeBreaks \/ GetSample) => UNCHANGED probe
         /\ ~(Fault \/ Release) => UNCHANGED owned
         /\ ~(SvcDown \/ SvcUp) => UNCHANGED want
         /\ ~Controller => UNCHANGED <<controller, zeroed>>
         /\ ~(SvcUp \/ PollExpires \/ CleanupPollFails) => UNCHANGED restartFailed
         /\ running' = running \/ running' = (want = "up")
         /\ pipe' = pipe \/ pipe' = FALSE
         /\ stop' = stop \/ stop' = TRUE \/ stop' = (stop \/ pipe)
         /\ lostAt' = lostAt \/ lostAt' = clock + 1
<1> USE DEF Next, Main, Admit, Observe, Connect, BodyFails, LoopEnds, Receive, GetTimesOut,
        GetStale, GetSample, SkipFault, Fault, SvcDown, SkipRestore, Restore, Release, Join, SvcUp,
        PollUp, PollExpires, Except, Finally, CleanupPollFails, CleanupError, Close, Verify,
        Evaluate, Silence, Reconnect, ProbeBreaks, Supervise, Controller, PipeBreaks,
        Signal, Tick, device, feed, probe, history
<1>1. preflight' = preflight
  BY DEF OnMessage
<1>2. clock' = clock \/ clock' = clock + 1
  BY DEF OnMessage
<1>3. queue' = queue \/ (queue # <<>> /\ queue' = Tail(queue)) \/ OnMessage
  OBVIOUS
<1>4. /\ ~(Reconnect \/ ProbeBreaks \/ GetSample) => UNCHANGED probe
      /\ ~(Fault \/ Release) => UNCHANGED owned
  BY DEF OnMessage
<1>5. /\ ~(SvcDown \/ SvcUp) => UNCHANGED want
      /\ ~Controller => UNCHANGED <<controller, zeroed>>
      /\ ~(SvcUp \/ PollExpires \/ CleanupPollFails) => UNCHANGED restartFailed
  BY DEF OnMessage
<1>6. running' = running \/ running' = (want = "up")
  BY DEF OnMessage
<1>7. pipe' = pipe \/ pipe' = FALSE
  BY DEF OnMessage
<1>8. stop' = stop \/ stop' = TRUE \/ stop' = (stop \/ pipe)
  BY DEF OnMessage
<1>9. lostAt' = lostAt \/ lostAt' = clock + 1
  BY DEF OnMessage
<1>10. QED
  BY <1>1, <1>2, <1>3, <1>4, <1>5, <1>6, <1>7, <1>8, <1>9

(* Messages are queued whole, and the queue keeps its size.                *)
LEMMA StepFeed ==
  ASSUME TypeOK, Next
  PROVE  clock' \in Nat /\ lostAt' \in Nat /\ queue' \in Seq(Message) /\ Len(queue') <= QueueSize
<1>1. clock' \in Nat /\ lostAt' \in Nat
  BY StepFrame DEF TypeOK
<1>2. ASSUME OnMessage PROVE queue' \in Seq(Message) /\ Len(queue') <= QueueSize
  <2>1. PICK msg \in Message : (queue' = Append(queue, msg) /\ Room) \/ queue' = queue
    <3>1. [t |-> clock + 1, report |-> controller] \in Message
      BY DEF TypeOK, Message
    <3>2. QED
      BY <1>2, <3>1 DEF OnMessage
  <2>2. QueueSize \in Nat /\ queue \in Seq(Message) /\ Len(queue) \in Nat
    BY RunnerAssumption DEF TypeOK
  <2>3. QED
    BY <2>1, <2>2 DEF Room, TypeOK
<1>3. ASSUME queue # <<>>, queue' = Tail(queue)
      PROVE  queue' \in Seq(Message) /\ Len(queue') <= QueueSize
  <2>1. QueueSize \in Nat /\ queue \in Seq(Message)
    BY RunnerAssumption DEF TypeOK
  <2>2. queue' \in Seq(Message) /\ Len(queue') = Len(queue) - 1 /\ Len(queue) \in Nat
    BY <1>3, <2>1
  <2>3. QED
    BY <2>1, <2>2 DEF TypeOK
<1>4. QED
  BY <1>1, <1>2, <1>3, StepFrame DEF TypeOK

(* The probe makes at most its number of connections.                      *)
LEMMA StepProbe ==
  ASSUME TypeOK, ProbeLeft, Next
  PROVE  /\ worker' \in {"none", "probing", "wedged", "done"} /\ probes' \in 0..ReconnectCount
         /\ ProbeLeft'
<1>1. ReconnectCount \in Nat /\ probes \in 0..ReconnectCount
  BY RunnerAssumption DEF TypeOK
<1>2. CASE Reconnect
  <2>1. Samples # <<>> /\ Samples' # <<>>
    <3>1. ~GetSample
      BY <1>2 DEF Reconnect, control, GetSample, Emit, Go, Raise, Handler, Body, Collecting
    <3>2. QED
      BY <1>2, <3>1, StepJournal DEF Reconnect, ProbeLeft
  <2>2. CASE probes' = probes
    BY <1>1, <1>2, <2>1, <2>2 DEF Reconnect, ProbeLeft
  <2>3. CASE probes' = probes + 1 /\ worker' = IF pipe /\ probes' < ReconnectCount THEN "probing" ELSE "done"
    BY <1>1, <1>2, <2>1, <2>3 DEF Reconnect, ProbeLeft
  <2>4. QED
    BY <1>2, <2>2, <2>3 DEF Reconnect
<1>3. CASE ProbeBreaks
  BY <1>1, <1>3, StepJournal DEF ProbeBreaks, ProbeLeft, TypeOK, GetSample
<1>4. CASE GetSample
  <2>1. UNCHANGED <<Samples, worker>> \/ Samples' # <<>>
    <3>1. Samples \in Seq(Event)
      BY DEF TypeOK, Samples, Kinds
    <3>2. UNCHANGED <<events, worker>>
          \/ (\E e : events' = [events EXCEPT !["sample"] = Append(@, e)])
      BY <1>4 DEF GetSample, Emit, Journal, Entry
    <3>3. ASSUME NEW e, events' = [events EXCEPT !["sample"] = Append(@, e)] PROVE Samples' # <<>>
      <4>1. Samples' = Append(Samples, e)
        BY <3>3 DEF TypeOK, Samples, Kinds
      <4>2. QED
        BY <3>1, <4>1
    <3>4. QED
      BY <3>2, <3>3 DEF Samples
  <2>2. probes' = probes /\ (worker' = worker \/ (Samples = <<>> /\ worker' = "probing"))
    BY <1>4 DEF GetSample
  <2>3. QED
    BY <1>1, <2>1, <2>2 DEF ProbeLeft, TypeOK
<1>5. CASE ~(Reconnect \/ ProbeBreaks \/ GetSample)
  BY <1>5, StepFrame, StepJournal DEF probe, TypeOK, ProbeLeft
<1>6. QED
  BY <1>2, <1>3, <1>4, <1>5

(* The types and what is left of the probe are kept.                       *)
LEMMA StepTypeOK == ASSUME TypeOK, ProbeLeft, Next PROVE TypeOK' /\ ProbeLeft'
<1>1. preflight' \in BOOLEAN /\ stop' \in BOOLEAN /\ pipe' \in BOOLEAN /\ running' \in BOOLEAN
  BY StepFrame DEF TypeOK
<1>2. owned' \in BOOLEAN /\ want' \in {"up", "down"}
  BY StepFrame DEF TypeOK, Fault, Release, SvcDown, SvcUp
<1>3. controller' \in Reports /\ zeroed' \in BOOLEAN
  BY StepFrame DEF TypeOK, Controller, Reports
<1>4. restartFailed' \in BOOLEAN
  BY StepFrame DEF TypeOK, SvcUp, PollExpires, CleanupPollFails
<1>5. QED
  BY <1>1, <1>2, <1>3, <1>4, StepControl, StepFeed, StepProbe, StepJournal DEF TypeOK

-----------------------------------------------------------------------------
(* The invariant.                                                          *)

(* Where the main thread is, what it owns and what it was asked to restore. *)
Owns ==
  /\ JournaledStop
  /\ owned => Faults # <<>>
  /\ pc \in {"start", "observe", "connect"} => want = "up" /\ ~owned /\ Cleanups = <<>>
  /\ pc = "svcDown" => owned /\ Cleanups = <<>>
  /\ pc \in {"svcUp", "poll", "release"} => Faults # <<>>
  /\ pc \in Restoring => owned
  /\ pc \in {"poll", "release", "cleanupPoll"} => want = "up"

(* The body restores once, and a restoration in the cleanup of a scenario  *)
(* that had restored already follows an error.                             *)
Failing == events["error"] # <<>> \/ pending = "raise"
Refused == \E i \in 1..Len(Cleanups) : ~Cleanups[i].ok

Restored ==
  /\ Cleanups # <<>> => Faults # <<>> /\ want = "up"
  /\ pc \in {"svcUp", "poll"} => Cleanups = <<>>
  /\ pc \in Body \ {"release"} /\ owned => Cleanups = <<>>
  /\ pc \in {"finally"} \cup Restoring /\ owned /\ Cleanups # <<>> => Failing
  /\ restartFailed =>
       /\ pc \in {"cleanupError", "close", "verify", "evaluate", "exit"}
       /\ Cleanups = <<>> \/ Failing \/ Refused

(* A reconnect is counted for each one journaled, unless one failed.       *)
Counted ==
  \/ Len(events["reconnect"]) = probes
  \/ \E i \in 1..Len(events["reconnect"]) : ~events["reconnect"][i].ok

(* No message reports a zero that the controller did not accept.           *)
Heard ==
  /\ controller = "zero" => zeroed
  /\ \A i \in 1..Len(queue) : queue[i].report = "zero" => zeroed
  /\ \A i \in 1..Len(Samples) : Samples[i].report = "zero" => zeroed

(* The run succeeds at its exit only, and a full run by its evaluation.    *)
Judged ==
  /\ pending = "return" => preflight
  /\ pc \in {"start", "observe", "evaluate"} => pending = "none"
  /\ code = 0 => pc = "exit"
  /\ PassIsSound

IInv == TypeOK /\ ProbeLeft /\ Owns /\ Restored /\ Counted /\ Heard /\ Judged

(* Without a signal in the cleanup: a meter that is not owned runs, a full *)
(* restoration is journaled before it is given up, and past the cleanup a  *)
(* meter that is down is one whose restart failed.                         *)
Past == {"cleanupError", "close", "verify", "evaluate", "exit"}

Kept ==
  /\ ~owned => running /\ (Faults = <<>> \/ Cleanups # <<>>)
  /\ pc = "release" => owned /\ running /\ Cleanups # <<>>
  /\ restartFailed => owned
  /\ pc \in Past => restartFailed \/ (running /\ want = "up")

-----------------------------------------------------------------------------
(* The steps of the main thread that neither journal nor command anything  *)
(* about the meter, by the labels they connect.                            *)

AboutMeter == Fault \/ SvcDown \/ Release \/ SvcUp \/ PollUp \/ PollExpires

(* Where such a step takes the main thread, and what it knows there.       *)
Moves ==
  \/ UNCHANGED control
  \/ pc \in Body /\ pc' = "handler"
  \/ pc = "start" /\ pc' = "observe" /\ pending' = pending
  \/ pc = "observe" /\ pc' = "connect"
  \/ pc \in {"connect", "receive", "get", "fault", "restore"}
       /\ pc' \in {"receive", "get", "fault", "restore", "join"}
  \/ pc = "restore" /\ pc' = "svcUp" /\ RestoreDue
  \/ pc = "join" /\ pc' = "finally"
  \/ pc = "observe" /\ pc' = "finally" /\ preflight
  \/ pc = "handler" /\ pc' = "finally" /\ Failing'
  \/ pc = "finally" /\ pc' = (IF owned THEN "cleanupUp" ELSE "close")
  \/ pc \in Restoring /\ pc' = "cleanupError" /\ (CleanupPollFails \/ Signal)
  \/ pc = "cleanupError" /\ pc' = "close"
  \/ pc = "close" /\ pc' = "verify"
  \/ pc = "verify" /\ pc' = "evaluate" /\ pending' = "none"
  \/ pc \in {"start", "verify", "evaluate"} /\ pc' = "exit"
  \/ pc = "finally" /\ pc' = "exit" /\ Signal

LEMMA StepMoves == ASSUME TypeOK, Next, ~AboutMeter PROVE Moves
<1> USE DEF Moves
<1>1. pc \in Labels
  BY DEF TypeOK
<1>2. CASE Signal
  <2>1. Raise /\ pc # "exit"
    BY <1>2 DEF Signal, Cleaning, Restoring
  <2>2. QED
    BY <1>1, <1>2, <2>1, Raised DEF Labels, Cleaning, Failing
<1>3. CASE Admit \/ Connect \/ LoopEnds \/ Receive \/ GetTimesOut \/ GetStale \/ SkipFault
           \/ SkipRestore \/ Restore \/ Join \/ BodyFails
  BY <1>1, <1>3, Raised DEF Admit, Connect, LoopEnds, Receive, GetTimesOut, GetStale, SkipFault,
     SkipRestore, Restore, Join, BodyFails, Go, Body, Collecting
<1>4. CASE GetSample
  BY <1>1, <1>4, Raised DEF GetSample, Emit, Go, Body, Collecting
<1>5. CASE Observe
  BY <1>1, <1>5, Raised DEF Observe, Emit, Go, Body, Collecting
<1>6. CASE Except
  <2>1. Journal(Mark("error", FALSE)) /\ "error" \in Kinds /\ FALSE \in BOOLEAN
    BY <1>6 DEF Except, Emit, Kinds
  <2>2. events["error"] \in Seq(Event)
    BY <2>1 DEF TypeOK
  <2>3. PICK e \in Event : events'["error"] = Append(events["error"], e)
    BY <2>1, MarkJournaled
  <2>4. events'["error"] # <<>>
    BY <2>2, <2>3
  <2>5. QED
    BY <1>1, <1>6, <2>4, Raised DEF Except, Emit, Go, Failing
<1>7. CASE Finally
  BY <1>7 DEF Finally, Go
<1>8. CASE CleanupPollFails \/ CleanupError \/ Close
  BY <1>1, <1>8, Raised DEF CleanupPollFails, CleanupError, Close, Emit, Go, Restoring
<1>9. CASE Verify \/ Evaluate
  BY <1>1, <1>9, Raised DEF Verify, Evaluate, Emit, Go
<1>10. CASE OnMessage \/ Silence \/ Reconnect \/ ProbeBreaks \/ Supervise \/ Controller \/ PipeBreaks
  BY <1>10 DEF OnMessage, Silence, Reconnect, ProbeBreaks, Supervise, Controller, PipeBreaks
<1>11. QED
  BY <1>2, <1>3, <1>4, <1>5, <1>6, <1>7, <1>8, <1>9, <1>10 DEF Next, Main, AboutMeter

(* A step that is not about the meter leaves its service and its events.   *)
LEMMA StepMeter == ASSUME TypeOK, Next, ~AboutMeter PROVE UNCHANGED <<owned, want, Faults, Cleanups>>
  BY StepFrame, StepJournal DEF AboutMeter

(* The steps about the meter, by the labels they connect: each may raise.  *)
Raises ==
  /\ pending' = pending /\ code' = code
  /\ pc' = IF pc \in Body THEN "handler" ELSE "cleanupError"

Stays(label) == pc' = label /\ pending' = pending /\ code' = code

LEMMA FaultStep ==
  ASSUME TypeOK, Next, Fault
  PROVE  /\ pc = "fault" /\ Faults = <<>> /\ UNCHANGED <<want, Cleanups, restartFailed>>
         /\ \/ Raises /\ UNCHANGED <<owned, Faults>>
            \/ (Raises \/ Stays("svcDown")) /\ owned' = TRUE /\ Faults' # <<>>
<1>1. pc \in Labels /\ pc \in Body /\ pc = "fault"
  BY DEF TypeOK, Fault, Body, Collecting
<1>2. Raise => Raises
  BY <1>1, Raised DEF Raises
<1>3. pc = "fault" /\ Faults = <<>> /\ UNCHANGED <<want, Cleanups, restartFailed>>
  BY StepJournal DEF Fault, FaultDue, PollUp, PollExpires, device, history
<1>4. CASE Raise /\ UNCHANGED <<owned, events>>
  BY <1>2, <1>3, <1>4 DEF Faults
<1>5. CASE owned' = TRUE /\ Emit(MeterEvent("meter_down", TRUE), "svcDown")
  <2>1. "meter_down" \in Kinds /\ TRUE \in BOOLEAN /\ Journal(MeterEvent("meter_down", TRUE))
    BY <1>5 DEF Emit, Kinds
  <2>2. PICK e \in Event : Faults' = Append(Faults, e)
    BY <2>1, MarkJournaled DEF Faults
  <2>3. Faults \in Seq(Event)
    BY DEF TypeOK, Faults, Kinds
  <2>4. Faults' # <<>>
    BY <2>2, <2>3
  <2>5. Raises \/ Stays("svcDown")
    BY <1>2, <1>5 DEF Emit, Go, Stays
  <2>6. QED
    BY <1>3, <1>5, <2>4, <2>5
<1>6. QED
  BY <1>4, <1>5 DEF Fault

LEMMA ServiceStep ==
  ASSUME TypeOK, Next, SvcDown \/ SvcUp \/ Release
  PROVE  /\ UNCHANGED <<Faults, Cleanups>>
         /\ \/ /\ pc = "svcDown" /\ UNCHANGED <<owned, restartFailed>>
               /\ Stays("restore") \/ Raises
            \/ /\ pc = "release" /\ owned' = FALSE /\ UNCHANGED <<want, restartFailed>>
               /\ Stays("receive")
            \/ /\ pc \in {"svcUp", "cleanupUp"} /\ UNCHANGED owned
               /\ \/ /\ want' = "up" /\ UNCHANGED restartFailed
                     /\ Stays(IF pc = "svcUp" THEN "poll" ELSE "cleanupPoll")
                  \/ want' \in {want, "up"} /\ restartFailed' = (pc = "cleanupUp") /\ Raises
<1>1. UNCHANGED events
  BY DEF SvcDown, SvcUp, Release
<1>2. UNCHANGED <<Faults, Cleanups>>
  BY <1>1 DEF Faults, Cleanups
<1>3. pc \in Labels
  BY DEF TypeOK
<1>4. ASSUME Raise, pc \in {"svcDown", "svcUp", "cleanupUp"} PROVE Raises
  BY <1>3, <1>4, Raised DEF Raises, Restoring, Body, Collecting
<1>5. CASE SvcDown
  BY <1>2, <1>4, <1>5 DEF SvcDown, Go, Stays, history
<1>6. CASE Release
  BY <1>2, <1>6 DEF Release, Go, Stays, history, device
<1>7. CASE SvcUp
  BY <1>2, <1>4, <1>7 DEF SvcUp, Go, Stays
<1>8. QED
  BY <1>5, <1>6, <1>7

LEMMA PollStep ==
  ASSUME TypeOK, Next, PollUp \/ PollExpires
  PROVE  /\ pc \in {"poll", "cleanupPoll"} /\ UNCHANGED <<owned, want, Faults>>
         /\ Raises \/ Stays(IF pc = "poll" THEN "release" ELSE "close")
         /\ Cleanups' # <<>>
         /\ UNCHANGED restartFailed
            \/ (pc = "cleanupPoll" /\ Refused')
<1>1. pc \in Labels
  BY DEF TypeOK
<1>2. pc \in {"poll", "cleanupPoll"} /\ UNCHANGED <<owned, want, Faults>>
  BY StepJournal DEF PollUp, PollExpires, device, Fault
<1>3. Raise => Raises
  BY <1>1, <1>2, Raised DEF Raises, Restoring, Body, Collecting
<1>4. Raises \/ Stays(IF pc = "poll" THEN "release" ELSE "close")
  BY <1>3 DEF PollUp, PollExpires, Emit, Go, Stays
<1>5. PICK ok \in BOOLEAN : /\ Journal(MeterEvent("meter_restored", ok))
                            /\ ok => UNCHANGED restartFailed
                            /\ pc = "poll" => UNCHANGED restartFailed
  BY DEF PollUp, PollExpires, Emit, history
<1>6. "meter_restored" \in Kinds
  BY DEF Kinds
<1>7. PICK e \in Event : e.ok = ok /\ Cleanups' = Append(Cleanups, e)
  BY <1>5, <1>6, MarkJournaled DEF Cleanups
<1>8. Cleanups \in Seq(Event)
  BY DEF TypeOK, Cleanups, Kinds
<1>9. /\ Cleanups' # <<>>
      /\ Len(Cleanups) + 1 \in 1..Len(Cleanups') /\ Cleanups'[Len(Cleanups) + 1] = e
  BY <1>7, <1>8
<1>10. QED
  BY <1>2, <1>4, <1>5, <1>7, <1>9 DEF Refused

(* What the main thread owns, it keeps until the meter is up.              *)
LEMMA StepOwns == ASSUME IInv, Next PROVE Owns'
<1>1. TypeOK /\ Owns
  BY DEF IInv
<1> USE DEF Owns, JournaledStop, Restoring, Body, Collecting
<1>2. CASE ~AboutMeter
  BY <1>1, <1>2, StepMoves, StepMeter DEF Moves, control, RestoreDue
<1>3. CASE Fault
  <2>1. Cleanups = <<>> /\ owned \in BOOLEAN
    BY <1>1, <1>3, FaultStep DEF IInv, Restored, TypeOK
  <2>2. CASE Raises /\ UNCHANGED <<owned, Faults>>
    BY <1>1, <1>3, <2>1, <2>2, FaultStep DEF Raises
  <2>3. CASE (Raises \/ Stays("svcDown")) /\ owned' = TRUE /\ Faults' # <<>>
    BY <1>1, <1>3, <2>1, <2>3, FaultStep DEF Raises, Stays
  <2>4. QED
    BY <1>1, <1>3, <2>2, <2>3, FaultStep
<1>4. CASE SvcDown \/ SvcUp \/ Release
  BY <1>1, <1>4, ServiceStep, StepTypeOK DEF Raises, Stays, IInv, TypeOK
<1>5. CASE PollUp \/ PollExpires
  BY <1>1, <1>5, PollStep DEF Raises, Stays
<1>6. QED
  BY <1>2, <1>3, <1>4, <1>5 DEF AboutMeter

(* A pending outcome is replaced by an exception only.                     *)
LEMMA StepPending ==
  ASSUME TypeOK, Next
  PROVE  \/ pending' = pending \/ pending' = "raise"
         \/ pc = "observe" /\ pc' = "finally" /\ pending' = "return" /\ preflight
<1>1. pc \in Labels
  BY DEF TypeOK
<1>2. Raise => pending' = pending \/ pending' = "raise"
  BY DEF Raise
<1>3. QED
  BY <1>2 DEF Next, Main, Admit, Observe, Connect, BodyFails, LoopEnds, Receive, GetTimesOut,
     GetStale, GetSample, SkipFault, Fault, SvcDown, SkipRestore, Restore, Release, Join, SvcUp,
     PollUp, PollExpires, Except, Finally, CleanupPollFails, CleanupError, Close, Verify, Evaluate,
     OnMessage, Silence, Reconnect, ProbeBreaks, Supervise, Controller, PipeBreaks, Signal,
     Emit, Go, control

(* An error is never forgotten.                                            *)
LEMMA StepFailing == ASSUME IInv, Next, Failing PROVE Failing'
<1>1. TypeOK /\ Judged
  BY DEF IInv
<1>2. events["error"] # <<>> => events["error"]' # <<>>
  BY <1>1, StepJournal
<1>3. pending = "raise" => pending' = "raise"
  BY <1>1, StepPending DEF Judged
<1>4. QED
  BY <1>2, <1>3 DEF Failing

(* A restoration that failed is journaled, or the run has failed already.  *)
LEMMA StepRestored == ASSUME IInv, Next PROVE Restored'
<1>1. TypeOK /\ Owns /\ Restored /\ restartFailed \in BOOLEAN
  BY DEF IInv, TypeOK
<1>2. Failing => Failing'
  BY StepFailing
<1>3. UNCHANGED Cleanups => Refused' = Refused
  BY DEF Refused
<1> USE DEF Owns, Restored, Restoring, Body, Collecting
<1>4. CASE ~AboutMeter
  <2>1. ~CleanupPollFails => UNCHANGED restartFailed
    BY <1>4, StepFrame DEF AboutMeter
  <2>2. CleanupPollFails => pc = "cleanupPoll" /\ pc' = "cleanupError"
    BY <1>1, Raised DEF CleanupPollFails, TypeOK
  <2>3. Moves /\ UNCHANGED <<owned, want, Faults, Cleanups>>
    BY <1>1, <1>4, StepMoves, StepMeter
  <2>4. /\ Cleanups' # <<>> => Faults' # <<>> /\ want' = "up"
        /\ pc' \in {"svcUp", "poll"} => Cleanups' = <<>>
    BY <1>1, <2>3 DEF Moves, control, RestoreDue
  <2>5. pc' \in Body \ {"release"} /\ owned' => Cleanups' = <<>>
    BY <1>1, <2>3 DEF Moves, control, RestoreDue
  <2>6. pc' \in {"finally"} \cup Restoring /\ owned' /\ Cleanups' # <<>> => Failing'
    BY <1>1, <1>2, <2>3 DEF Moves, control
  <2>7. restartFailed' => pc' \in {"cleanupError", "close", "verify", "evaluate", "exit"}
    BY <1>1, <2>1, <2>2, <2>3 DEF Moves, control
  <2>8. restartFailed' => Cleanups' = <<>> \/ Failing' \/ Refused'
    BY <1>1, <1>2, <1>3, <2>1, <2>2, <2>3
  <2>9. QED
    BY <2>4, <2>5, <2>6, <2>7, <2>8
<1>5. CASE Fault
  BY <1>1, <1>2, <1>3, <1>5, FaultStep DEF Raises, Stays
<1>6. CASE SvcDown \/ SvcUp \/ Release
  <2>1. UNCHANGED <<Faults, Cleanups>>
    BY <1>1, <1>6, ServiceStep
  <2>2. CASE pc \in {"svcDown", "release"} /\ UNCHANGED restartFailed
    <3>1. ~restartFailed /\ (Cleanups = <<>> \/ (want' = want /\ owned' = FALSE))
      BY <1>1, <1>6, <2>2, ServiceStep
    <3>2. Raises \/ Stays("restore") \/ Stays("receive")
      BY <1>1, <1>6, <2>2, ServiceStep
    <3>3. QED
      BY <1>1, <2>1, <2>2, <3>1, <3>2 DEF Raises, Stays
  <2>3. CASE pc \in {"svcUp", "cleanupUp"} /\ UNCHANGED owned /\ want' \in {want, "up"}
    <3>1. \/ UNCHANGED restartFailed /\ Stays(IF pc = "svcUp" THEN "poll" ELSE "cleanupPoll")
          \/ restartFailed' = (pc = "cleanupUp") /\ Raises
      BY <1>1, <1>6, <2>3, ServiceStep
    <3>2. QED
      BY <1>1, <1>2, <1>3, <2>1, <2>3, <3>1 DEF Raises, Stays
  <2>4. QED
    BY <1>1, <1>6, <2>2, <2>3, ServiceStep
<1>7. CASE PollUp \/ PollExpires
  BY <1>1, <1>2, <1>7, PollStep DEF Raises, Stays
<1>8. QED
  BY <1>4, <1>5, <1>6, <1>7 DEF AboutMeter

(* The probe thread counts the connections it journals.                    *)
LEMMA StepCounted == ASSUME IInv, Next PROVE Counted'
<1> DEFINE Tries == events["reconnect"]
<1>1. TypeOK /\ Counted /\ Tries \in Seq(Event) /\ probes \in Nat
  BY RunnerAssumption DEF IInv, TypeOK, Kinds
<1>2. CASE Reconnect
  <2>1. PICK ok \in BOOLEAN : Journal(Mark("reconnect", ok)) /\ probes' = IF ok THEN probes + 1 ELSE probes
    BY <1>2 DEF Reconnect
  <2>2. "reconnect" \in Kinds
    BY DEF Kinds
  <2>3. PICK e \in Event : e.ok = ok /\ Tries' = Append(Tries, e)
    BY <1>1, <2>1, <2>2, MarkJournaled
  <2>4. /\ Len(Tries') = Len(Tries) + 1 /\ Tries'[Len(Tries) + 1] = e
        /\ \A i \in 1..Len(Tries) : Tries'[i] = Tries[i]
    BY <1>1, <2>3
  <2>5. QED
    BY <1>1, <2>1, <2>3, <2>4 DEF Counted
<1>3. CASE ~Reconnect
  <2>1. UNCHANGED Tries
    BY <1>1, <1>3, StepJournal
  <2>2. probes' = probes
    BY <1>3, StepFrame DEF probe, ProbeBreaks, GetSample
  <2>3. QED
    BY <1>1, <2>1, <2>2 DEF Counted
<1>4. QED
  BY <1>2, <1>3

(* A zero is heard after it was accepted.                                  *)
LEMMA StepHeard == ASSUME IInv, Next PROVE Heard'
<1>1. TypeOK /\ Heard /\ queue \in Seq(Message) /\ Samples \in Seq(Event)
  BY DEF IInv, TypeOK, Samples, Kinds
<1>2. (zeroed => zeroed') /\ (controller' = "zero" => zeroed')
  BY <1>1, StepFrame DEF Heard, Controller
<1>3. \A i \in 1..Len(queue') : queue'[i].report = "zero" => zeroed'
  <2>1. CASE queue' = queue
    BY <1>1, <1>2, <2>1 DEF Heard
  <2>2. CASE queue # <<>> /\ queue' = Tail(queue)
    BY <1>1, <1>2, <2>2 DEF Heard
  <2>3. CASE OnMessage
    <3>1. PICK msg : msg.report = controller /\ (queue' = queue \/ queue' = Append(queue, msg))
      BY <2>3 DEF OnMessage
    <3>2. QED
      BY <1>1, <1>2, <3>1 DEF Heard
  <2>4. QED
    BY <2>1, <2>2, <2>3, StepFrame
<1>4. \A i \in 1..Len(Samples') : Samples'[i].report = "zero" => zeroed'
  <2>1. CASE UNCHANGED Samples
    BY <1>1, <1>2, <2>1 DEF Heard
  <2>2. CASE GetSample /\ ~UNCHANGED events
    <3>1. Head(queue) = queue[1] /\ 1 \in 1..Len(queue) /\ Head(queue) \in Message
      BY <1>1, <2>2 DEF GetSample
    <3>2. PICK e \in Event : e.kind = "sample" /\ e.report = Head(queue).report /\ Journal(e)
      BY <2>2, <3>1 DEF GetSample, Emit, Entry, Event, Kinds, Message
    <3>3. Samples' = Append(Samples, e)
      BY <1>1, <3>2, Journaled DEF Samples
    <3>4. QED
      BY <1>1, <1>2, <3>1, <3>2, <3>3 DEF Heard
  <2>3. QED
    BY <1>1, <2>1, <2>2, StepJournal DEF Samples
<1>5. QED
  BY <1>2, <1>3, <1>4 DEF Heard

(* The exit status is decided once.                                        *)
LEMMA StepCode ==
  ASSUME TypeOK, Next
  PROVE  \/ UNCHANGED code /\ (pc # "evaluate" \/ pc' # "exit" \/ code' = 1)
         \/ code' = 1
         \/ pc = "verify" /\ pc' = "exit" /\ pending = "return"
         \/ pc = "evaluate" /\ pc' = "exit" /\ Passed
              /\ UNCHANGED <<owned, events, probe, device, history>>
<1>1. pc \in Labels
  BY DEF TypeOK
<1>2. Raise => (code' = code /\ pc' # "exit") \/ code' = 1
  BY <1>1, Raised DEF Labels, Cleaning
<1>3. Evaluate => \/ Raise \/ code' = 1
                  \/ pc = "evaluate" /\ pc' = "exit" /\ Passed
                       /\ UNCHANGED <<owned, events, probe, device, history>>
  BY DEF Evaluate
<1>4. Verify => \/ Raise
                \/ UNCHANGED code /\ pc # "evaluate"
                \/ pc = "verify" /\ pc' = "exit" /\ pending = "return"
  BY DEF Verify, Emit, Go
<1>5. ~(Evaluate \/ Verify) =>
        Raise \/ (UNCHANGED code /\ pc # "evaluate") \/ UNCHANGED <<pc, code>>
  BY DEF Next, Main, Admit, Observe, Connect, BodyFails, LoopEnds, Receive, GetTimesOut,
     GetStale, GetSample, SkipFault, Fault, SvcDown, SkipRestore, Restore, Release, Join, SvcUp,
     PollUp, PollExpires, Except, Finally, CleanupPollFails, CleanupError, Close,
     OnMessage, Silence, Reconnect, ProbeBreaks, Supervise, Controller, PipeBreaks, Signal,
     Emit, Go, control
<1>6. QED
  BY <1>2, <1>3, <1>4, <1>5

(* Nothing the verdict was about changes after the exit.                   *)
LEMMA AtExit ==
  ASSUME TypeOK, Next, pc = "exit"
  PROVE  UNCHANGED <<control, want, restartFailed, probe>>
<1>1. ~AboutMeter
  BY DEF AboutMeter, Fault, SvcDown, Release, SvcUp, PollUp, PollExpires
<1>2. UNCHANGED control
  BY <1>1, StepMoves DEF Moves, Body, Collecting, Restoring
<1>3. UNCHANGED want
  BY <1>1, StepMeter
<1>4. UNCHANGED <<restartFailed, probe>>
  BY StepFrame DEF SvcUp, PollExpires, CleanupPollFails, Reconnect, ProbeBreaks, GetSample
<1>5. QED
  BY <1>2, <1>3, <1>4

(* What evaluate requires is true of the run, not of its events only.      *)
LEMMA PassedRun ==
  ASSUME IInv, Passed, pending = "none"
  PROVE  zeroed /\ want = "up" /\ ~restartFailed
<1>1. /\ Len(Cleanups) = 1 /\ Cleanups[1].ok /\ events["error"] = <<>>
      /\ \E i \in 1..Len(Samples) : Samples[i].report = "zero"
  BY DEF Passed, MeterLossHolds, RecoveryHolds
<1>2. Cleanups # <<>> /\ ~Refused
  BY <1>1 DEF Refused
<1>3. zeroed
  BY <1>1 DEF IInv, Heard
<1>4. want = "up" /\ (restartFailed => Failing)
  BY <1>2 DEF IInv, Restored
<1>5. QED
  BY <1>1, <1>3, <1>4 DEF Failing, IInv, TypeOK

LEMMA PassedProbe ==
  ASSUME IInv, Passed
  PROVE  probes = ReconnectCount /\ worker = "done"
<1>1. probes = ReconnectCount
  BY DEF Passed, ReconnectsHold, IInv, Counted
<1>2. ReconnectCount \in Nat
  BY RunnerAssumption
<1>3. QED
  BY <1>1, <1>2 DEF IInv, ProbeLeft

LEMMA StepJudged == ASSUME IInv, Next PROVE Judged'
<1>1. TypeOK /\ Judged /\ preflight' = preflight
  BY StepFrame DEF IInv
<1>2. pending' = "return" => preflight'
  BY <1>1, StepPending DEF Judged
<1>3. pc' \in {"start", "observe", "evaluate"} => pending' = "none"
  <2>1. CASE ~AboutMeter
    BY <1>1, <2>1, StepMoves DEF Moves, control, Judged
  <2>2. CASE Fault
    BY <1>1, <2>2, FaultStep DEF Raises, Stays
  <2>3. CASE SvcDown \/ SvcUp \/ Release
    BY <1>1, <2>3, ServiceStep DEF Raises, Stays
  <2>4. CASE PollUp \/ PollExpires
    BY <1>1, <2>4, PollStep DEF Raises, Stays
  <2>5. QED
    BY <2>1, <2>2, <2>3, <2>4 DEF AboutMeter
<1>4. CASE pc = "exit"
  <2>1. UNCHANGED <<control, want, restartFailed, probe>>
    BY <1>1, <1>4, AtExit
  <2>2. zeroed => zeroed'
    BY StepFrame DEF Controller
  <2>3. (code' = 0 => pc' = "exit") /\ PassIsSound'
    BY <1>1, <2>1, <2>2 DEF Judged, PassIsSound, control, probe
  <2>4. QED
    BY <1>2, <1>3, <2>3 DEF Judged
<1>5. CASE pc = "evaluate" /\ pc' = "exit" /\ Passed /\ UNCHANGED <<owned, events, probe, device, history>>
  <2>1. pending = "none" /\ IInv
    BY <1>1, <1>5 DEF Judged
  <2>2. zeroed /\ want = "up" /\ ~restartFailed /\ probes = ReconnectCount /\ worker = "done"
    BY <1>5, <2>1, PassedRun, PassedProbe
  <2>3. PassIsSound'
    BY <1>5, <2>2 DEF PassIsSound, probe, device, history
  <2>4. QED
    BY <1>2, <1>3, <1>5, <2>3 DEF Judged
<1>6. CASE pc = "verify" /\ pc' = "exit" /\ pending = "return"
  BY <1>1, <1>2, <1>3, <1>6 DEF Judged, PassIsSound
<1>7. CASE pc # "exit" /\ (UNCHANGED code \/ code' = 1)
  BY <1>1, <1>2, <1>3, <1>7 DEF Judged, PassIsSound
<1>8. QED
  BY <1>1, <1>4, <1>5, <1>6, <1>7, StepCode

LEMMA Inductive == ASSUME IInv, [Next]_vars PROVE IInv'
<1>1. CASE Next
  BY <1>1, StepTypeOK, StepOwns, StepRestored, StepCounted, StepHeard, StepJudged DEF IInv
<1>2. CASE UNCHANGED vars
  BY <1>2 DEF vars, control, feed, probe, device, history, IInv, TypeOK, ProbeLeft, Owns,
     JournaledStop, Restored, Failing, Refused, Counted, Heard, Judged, PassIsSound, Samples,
     Faults, Cleanups
<1>3. QED
  BY <1>1, <1>2

LEMMA Initially == Init => IInv
<1> SUFFICES ASSUME Init PROVE IInv
  OBVIOUS
<1>1. \A k \in Kinds : events[k] = <<>> /\ events[k] \in Seq(Event)
  BY DEF Init
<1>2. Samples = <<>> /\ Faults = <<>> /\ Cleanups = <<>> /\ events["reconnect"] = <<>>
  BY <1>1 DEF Samples, Faults, Cleanups, Kinds
<1>3. /\ QueueSize \in Nat /\ ReconnectCount \in Nat \ {0}
  BY RunnerAssumption
<1>4. events \in [Kinds -> Seq(Event)]
  BY <1>1 DEF Init
<1>5. TypeOK
  <2>1. queue \in Seq(Message) /\ Len(queue) = 0
    BY DEF Init
  <2>2. Len(queue) <= QueueSize /\ probes \in 0..ReconnectCount /\ clock \in Nat /\ lostAt \in Nat
    BY <1>3, <2>1 DEF Init
  <2>3. pc \in Labels /\ controller \in Reports
    BY DEF Init, Labels, Reports
  <2>4. QED
    BY <1>4, <2>1, <2>2, <2>3 DEF Init, TypeOK
<1>6. ProbeLeft /\ Owns /\ Restored
  BY <1>2, <1>3 DEF Init, ProbeLeft, Owns, JournaledStop, Restored, Body, Collecting, Restoring
<1>7. Counted /\ Heard /\ Judged
  BY <1>2 DEF Init, Counted, Heard, Judged, PassIsSound
<1>8. QED
  BY <1>5, <1>6, <1>7 DEF IInv

(* At each label of run_device: what the handlers owe to the meter, what   *)
(* the evaluation counts on, and what the probe has left behind.           *)
THEOREM Invariant == Spec => []IInv
<1>1. QED
  BY Initially, Inductive, PTL DEF Spec

-----------------------------------------------------------------------------
(* The theorems.                                                           *)

(* Types are kept, and so is the size of the evidence queue                *)
(* (queue.Queue(maxsize=10_000)), whatever the lengths and the limits.     *)
THEOREM TypeCorrect == Spec => []TypeOK
<1>1. IInv => TypeOK
  BY DEF IInv
<1>2. QED
  BY <1>1, Invariant, PTL

(* While the meter is told to be down, the stop is owned and journaled:    *)
(* the collector journals before it runs the command, and gives the        *)
(* ownership up after the restoration only.                                *)
THEOREM StopJournaled == Spec => []JournaledStop
<1>1. IInv => JournaledStop
  BY DEF IInv, Owns
<1>2. QED
  BY <1>1, Invariant, PTL

(* Exit status 0 of a full run means a meter lost, its loss accepted as    *)
(* zero, the service up again and every reconnection made, whatever breaks *)
(* and whenever a signal comes.                                            *)
THEOREM PassSound == Spec => []PassIsSound
<1>1. IInv => PassIsSound
  BY DEF IInv, Judged
<1>2. QED
  BY <1>1, Invariant, PTL

-----------------------------------------------------------------------------
(* The meter is restored, when no signal interrupts the cleanup itself.    *)

(* A meter that is told to be up goes on running.                          *)
LEMMA StepRunning ==
  ASSUME TypeOK, Next
  PROVE  /\ running /\ want = "up" => running'
         /\ running' # running => Supervise
<1>1. running' # running => Supervise
  BY DEF Next, Main, Admit, Observe, Connect, BodyFails, LoopEnds, Receive, GetTimesOut,
     GetStale, GetSample, SkipFault, Fault, SvcDown, SkipRestore, Restore, Release, Join, SvcUp,
     PollUp, PollExpires, Except, Finally, CleanupPollFails, CleanupError, Close, Verify,
     Evaluate, OnMessage, Silence, Reconnect, ProbeBreaks, Controller, PipeBreaks, Signal, device
<1>2. CASE Supervise
  BY <1>1, <1>2 DEF Supervise
<1>3. CASE running' = running
  BY <1>1, <1>3
<1>4. QED
  BY <1>1, <1>2, <1>3

(* The restart failed or did not.                                          *)
LEMMA StepFlag ==
  ASSUME IInv, Next PROVE restartFailed \in BOOLEAN /\ restartFailed' \in BOOLEAN
BY StepTypeOK DEF IInv, TypeOK

(* What is not owned runs, and was restored if it was stopped.             *)
LEMMA StepUnowned ==
  ASSUME IInv, Kept, Next
  PROVE  /\ ~owned' => running' /\ (Faults' = <<>> \/ Cleanups' # <<>>)
         /\ pc' = "release" => owned' /\ running' /\ Cleanups' # <<>>
         /\ restartFailed' => owned'
<1>1. TypeOK /\ Owns /\ Restored
  BY DEF IInv
<1>2. ~owned => want = "up"
  BY <1>1 DEF Owns, JournaledStop, TypeOK
<1>3. CASE ~AboutMeter
  <2>1. Moves /\ UNCHANGED <<owned, want, Faults, Cleanups>>
    BY <1>1, <1>3, StepMoves, StepMeter
  <2>2. pc' = "release" => pc = "release" /\ want = "up"
    BY <1>1, <2>1 DEF Moves, control, Owns
  <2>3. restartFailed' => restartFailed \/ pc \in Restoring
    BY <1>3, StepFrame DEF AboutMeter, CleanupPollFails, Restoring
  <2>4. QED
    BY <1>1, <1>2, <2>1, <2>2, <2>3, StepRunning DEF Kept, Owns
<1>4. CASE Fault
  <2>1. pc' # "release" /\ UNCHANGED <<want, Cleanups, restartFailed>>
    BY <1>1, <1>4, FaultStep DEF Raises, Stays, Body, Collecting
  <2>2. owned' = TRUE \/ UNCHANGED <<owned, Faults>>
    BY <1>1, <1>4, FaultStep
  <2>3. QED
    BY <1>1, <1>2, <2>1, <2>2, StepRunning DEF Kept
<1>5. CASE SvcDown \/ SvcUp \/ Release
  <2>1. pc = "release" => want = "up" /\ ~restartFailed
    BY <1>1 DEF Owns, Restored
  <2>2. pc = "cleanupUp" => owned
    BY <1>1 DEF Owns, Restoring
  <2>3. pc = "svcDown" => owned
    BY <1>1 DEF Owns
  <2>4. UNCHANGED <<Faults, Cleanups>>
    BY <1>1, <1>5, ServiceStep
  <2>5. pc' # "release"
    BY <1>1, <1>5, ServiceStep DEF Raises, Stays
  <2>6. CASE pc = "release"
    <3>1. UNCHANGED <<running, restartFailed>>
      BY <1>5, <2>6 DEF SvcDown, SvcUp, Release, device, history
    <3>2. QED
      BY <2>1, <2>4, <2>5, <2>6, <3>1 DEF Kept
  <2>7. CASE pc # "release"
    <3>1. UNCHANGED owned /\ (restartFailed' => restartFailed \/ owned)
      <4>1. UNCHANGED owned
        BY <1>5, <2>7 DEF SvcDown, SvcUp, Release
      <4>2. restartFailed' = restartFailed \/ restartFailed' = (pc = "cleanupUp")
        BY <1>5 DEF SvcDown, SvcUp, Release, history
      <4>3. CASE pc = "cleanupUp"
        BY <2>2, <4>1, <4>3
      <4>4. CASE pc # "cleanupUp"
        BY <1>1, <4>1, <4>2, <4>4, StepFlag
      <4>5. QED
        BY <4>3, <4>4
    <3>2. QED
      BY <1>1, <1>2, <2>4, <2>5, <3>1, StepRunning DEF Kept
  <2>8. QED
    BY <2>6, <2>7
<1>6. CASE PollUp \/ PollExpires
  <2>1. pc = "poll" => Faults # <<>> /\ Cleanups = <<>> /\ want = "up"
    BY <1>1 DEF Owns, Restored
  <2>2. pc = "poll" => owned
    BY <2>1 DEF Kept
  <2>3. pc = "cleanupPoll" => owned
    BY <1>1 DEF Owns, Restoring
  <2>4. pc' = "release" => pc = "poll" /\ running
    <3>1. pc \in Labels
      BY <1>1 DEF TypeOK
    <3>2. Raise => pc' # "release"
      BY <1>6, <3>1, Raised DEF PollUp, PollExpires, Body, Collecting, Restoring
    <3>3. QED
      BY <1>6, <3>2 DEF PollUp, PollExpires, Emit, Go
  <2>5. /\ Cleanups' # <<>> /\ UNCHANGED owned
        /\ restartFailed' => restartFailed \/ pc = "cleanupPoll"
    BY <1>1, <1>6, PollStep
  <2>6. QED
    BY <1>1, <1>2, <2>1, <2>2, <2>3, <2>4, <2>5, StepRunning DEF Kept
<1>7. QED
  BY <1>3, <1>4, <1>5, <1>6 DEF AboutMeter

(* Past the cleanup, the meter runs or its restart failed.                 *)
LEMMA StepPast ==
  ASSUME IInv, Kept, Next, "lateSignal" \notin Disturbances
  PROVE  pc' \in Past => restartFailed' \/ (running' /\ want' = "up")
<1>1. TypeOK /\ Owns /\ Restored
  BY DEF IInv
<1>2. pc \in Labels /\ want \in {"up", "down"}
  BY <1>1 DEF TypeOK
<1>3. ~owned => running /\ want = "up"
  BY <1>1, <1>2 DEF Kept, Owns, JournaledStop
<1>4. CASE ~AboutMeter
  <2>1. Moves /\ UNCHANGED <<owned, want>>
    BY <1>1, <1>4, StepMoves, StepMeter
  <2>2. Signal => pc \notin Cleaning
    BY DEF Signal
  <2>3. IF CleanupPollFails THEN restartFailed' ELSE UNCHANGED restartFailed
    BY <1>4, StepFrame DEF AboutMeter, CleanupPollFails
  <2>4. pc' \in Past =>
          \/ pc \in Past
          \/ pc \in {"start", "finally"} /\ ~owned
          \/ CleanupPollFails
    BY <1>1, <1>2, <2>1, <2>2
       DEF Moves, control, Past, Owns, Labels, Cleaning, Restoring, Body, Collecting
  <2>5. QED
    <3>1. CASE restartFailed'
      BY <3>1
    <3>2. CASE ~restartFailed' /\ pc' \in Past
      <4>1. ~restartFailed /\ ~CleanupPollFails
        BY <1>1, <2>3, <3>2, StepFlag
      <4>2. running /\ want = "up"
        BY <1>3, <2>4, <3>2, <4>1 DEF Kept
      <4>3. QED
        BY <1>1, <2>1, <4>2, StepRunning
    <3>3. QED
      BY <3>1, <3>2
<1>5. CASE Fault
  BY <1>1, <1>5, FaultStep DEF Raises, Stays, Past, Body, Collecting
<1>6. CASE SvcDown \/ SvcUp \/ Release
  BY <1>1, <1>2, <1>6, ServiceStep DEF Raises, Stays, Past, Body, Collecting
<1>7. CASE PollUp \/ PollExpires
  <2>1. pc = "cleanupPoll" => want = "up"
    BY <1>1 DEF Owns
  <2>2. pc' \in Past => pc = "cleanupPoll"
    BY <1>1, <1>7, PollStep DEF Raises, Stays, Past, Body, Collecting
  <2>3. restartFailed' \/ running \/ pc = "poll"
    BY <1>7 DEF PollUp, PollExpires, history
  <2>4. UNCHANGED <<want, running>>
    BY <1>7 DEF PollUp, PollExpires, device
  <2>5. QED
    BY <2>1, <2>2, <2>3, <2>4
<1>8. QED
  BY <1>4, <1>5, <1>6, <1>7 DEF AboutMeter

(* At each label, what holds of the meter when no signal comes in the      *)
(* cleanup: whoever does not own it finds it running.                      *)
THEOREM KeptInvariant ==
  ASSUME "lateSignal" \notin Disturbances
  PROVE  Spec => []Kept
<1>1. Init => Kept
  <2> SUFFICES ASSUME Init PROVE Kept
    OBVIOUS
  <2>1. Faults = <<>>
    BY DEF Init, Faults, Kinds
  <2>2. QED
    BY <2>1 DEF Init, Kept, Past
<1>2. ASSUME IInv, Kept, [Next]_vars PROVE Kept'
  <2>1. CASE Next
    BY <1>2, <2>1, StepUnowned, StepPast DEF Kept
  <2>2. CASE UNCHANGED vars
    BY <1>2, <2>2 DEF vars, control, device, history, Kept, Faults, Cleanups
  <2>3. QED
    BY <1>2, <2>1, <2>2
<1>3. QED
  BY <1>1, <1>2, Invariant, PTL DEF Spec

(* However the scenario ends, the meter is told to be up at exit, or its   *)
(* restart itself failed: the finally block of run_device. A signal inside *)
(* that block is excluded, and does break it.                              *)
THEOREM MeterIsRestored ==
  ASSUME "lateSignal" \notin Disturbances
  PROVE  Spec => []MeterRestored
<1>1. Kept => MeterRestored
  BY DEF Kept, Past, MeterRestored
<1>2. QED
  BY <1>1, KeptInvariant, PTL

-----------------------------------------------------------------------------
(* The run as MeterCustody sees it.                                        *)

(* A step that is not about the meter is the supervisor's, or a failure    *)
(* before the stop, or the end.                                            *)
LEMMA CustodyMoves ==
  ASSUME IInv, Kept, Kept', Next, ~AboutMeter, "lateSignal" \notin Disturbances
  PROVE  [Meter!Next]_(Meter!vars)
<1>1. TypeOK /\ Owns /\ Restored
  BY DEF IInv
<1>2. Moves /\ UNCHANGED <<owned, want, Faults, Cleanups>>
  BY <1>1, StepMoves, StepMeter
<1>3. CASE running' # running
  <2>1. Supervise
    BY <1>1, <1>3, StepRunning
  <2>2. UNCHANGED Custody /\ running' = (want = "up")
    BY <1>2, <2>1 DEF Supervise, control, history, Custody
  <2>3. QED
    BY <1>2, <2>2 DEF Meter!Next, Meter!Supervise
<1>4. CASE UNCHANGED running /\ pc = "svcDown" /\ pc' = "handler"
  <2>1. owned
    BY <1>1, <1>4 DEF Owns
  <2>2. Custody = "announced" /\ Custody' = "held"
    BY <1>2, <1>4, <2>1 DEF Custody
  <2>3. QED
    BY <1>2, <1>4, <2>2 DEF Meter!Next, Meter!Stop
<1>5. CASE UNCHANGED running /\ pc \in {"start", "verify", "evaluate"} /\ pc' = "exit"
  <2>1. Custody \in {"none", "held", "returned"} /\ (owned => Custody = "held")
    BY <1>5 DEF Custody
  <2>2. CASE restartFailed'
    BY <1>2, <1>5, <2>1, <2>2 DEF Custody, Kept, Meter!Next, Meter!Break
  <2>3. CASE ~restartFailed'
    <3>1. running' /\ want' = "up"
      BY <1>5, <2>3 DEF Kept, Past
    <3>2. QED
      BY <1>2, <1>5, <2>1, <2>3, <3>1 DEF Custody, Meter!Next, Meter!End
  <2>4. QED
    BY <2>2, <2>3
<1>6. CASE UNCHANGED <<running, pc>>
  <2>1. pc = "exit" => UNCHANGED restartFailed
    BY StepFrame DEF AboutMeter, CleanupPollFails
  <2>2. UNCHANGED Custody
    BY <1>2, <1>6, <2>1 DEF Custody
  <2>3. QED
    BY <1>2, <1>6, <2>2 DEF Meter!vars
<1>7. CASE UNCHANGED running /\ pc \notin {"svcDown", "exit"} /\ pc' \notin {"svcDown", "exit"}
  <2>1. UNCHANGED Custody
    BY <1>2, <1>7 DEF Custody
  <2>2. QED
    BY <1>2, <1>7, <2>1 DEF Meter!vars
<1>8. QED
  <2>1. Signal => pc \notin Cleaning
    BY DEF Signal
  <2>2. QED
    BY <1>2, <1>3, <1>4, <1>5, <1>6, <1>7, <2>1 DEF Moves, control, Cleaning, Body, Collecting, Restoring

(* The steps about the meter: the announcement, the stop, each start and   *)
(* the return.                                                             *)
LEMMA CustodyService ==
  ASSUME IInv, Kept, Next, AboutMeter
  PROVE  [Meter!Next]_(Meter!vars)
<1>1. TypeOK /\ Owns /\ Restored
  BY DEF IInv
<1>2. UNCHANGED running
  BY DEF AboutMeter, Fault, SvcDown, Release, SvcUp, PollUp, PollExpires, device
<1>3. CASE Fault
  <2>1. ~owned /\ Custody = "none"
    BY <1>1, <1>3, FaultStep DEF Owns, Custody
  <2>2. CASE UNCHANGED <<owned, Faults>>
    <3>1. UNCHANGED Custody /\ UNCHANGED want
      BY <1>1, <1>3, <2>1, <2>2, FaultStep DEF Raises, Stays, Body, Collecting, Custody
    <3>2. QED
      BY <1>2, <3>1 DEF Meter!vars
  <2>3. CASE owned' = TRUE
    <3>1. Custody' \in {"announced", "held"} /\ UNCHANGED want
      BY <1>1, <1>3, <2>3, FaultStep DEF Raises, Stays, Body, Collecting, Custody
    <3>2. QED
      BY <1>2, <2>1, <3>1 DEF Meter!Next, Meter!Announce
  <2>4. QED
    BY <1>1, <1>3, <2>2, <2>3, FaultStep
<1>4. CASE SvcDown
  <2>1. pc = "svcDown" /\ want' \in {want, "down"} /\ UNCHANGED owned
    BY <1>4 DEF SvcDown
  <2>2. Custody = "announced" /\ Custody' = "held"
    BY <1>1, <1>4, <2>1, ServiceStep DEF Owns, Raises, Stays, Body, Collecting, Custody
  <2>3. QED
    BY <1>2, <2>1, <2>2 DEF Meter!Next, Meter!Stop
<1>5. CASE Release
  <2>1. pc = "release" /\ pc' = "receive" /\ owned' = FALSE /\ UNCHANGED <<want, Faults>>
    BY <1>5 DEF Release, Go, device, Faults
  <2>2. owned /\ running /\ want = "up" /\ Faults # <<>>
    BY <1>1, <2>1 DEF Kept, Owns
  <2>3. Custody = "held" /\ Custody' = "returned"
    BY <2>1, <2>2 DEF Custody
  <2>4. QED
    BY <1>2, <2>1, <2>2, <2>3 DEF Meter!Next, Meter!Return
<1>6. CASE SvcUp \/ PollUp \/ PollExpires
  <2>1. pc \in {"svcUp", "poll"} \cup Restoring
    BY <1>6 DEF SvcUp, PollUp, PollExpires, Restoring
  <2>2. pc \in {"svcUp", "poll"} => Faults # <<>> /\ Cleanups = <<>>
    BY <1>1 DEF Owns, Restored
  <2>3. owned /\ UNCHANGED owned
    BY <1>1, <1>6, <2>1, <2>2 DEF Kept, Owns, SvcUp, PollUp, PollExpires
  <2>4. pc' \in {"poll", "cleanupPoll", "release", "close", "handler", "cleanupError"}
    <3>1. SvcUp => pc' \in {"poll", "cleanupPoll", "handler", "cleanupError"}
      BY <1>1, ServiceStep DEF SvcUp, Raises, Stays
    <3>2. PollUp \/ PollExpires => pc' \in {"release", "close", "handler", "cleanupError"}
      BY <1>1, PollStep DEF Raises, Stays
    <3>3. QED
      BY <1>6, <3>1, <3>2
  <2>5. Custody = "held" /\ Custody' = "held"
    BY <2>1, <2>3, <2>4 DEF Custody, Restoring
  <2>6. want' = want \/ want' = "up"
    BY <1>6 DEF SvcUp, PollUp, PollExpires, device
  <2>7. QED
    BY <1>2, <2>5, <2>6 DEF Meter!Next, Meter!Start, Meter!vars
<1>7. QED
  BY <1>3, <1>4, <1>5, <1>6 DEF AboutMeter

(* run_device keeps the promise of MeterCustody at every step, whatever    *)
(* fails, unless a signal comes inside its finally block.                  *)
THEOREM CustodyRefinement ==
  ASSUME "lateSignal" \notin Disturbances
  PROVE  Spec => ImplementsCustody
<1>1. Init => Meter!Init
  <2> SUFFICES ASSUME Init PROVE Meter!Init
    OBVIOUS
  <2>1. Faults = <<>>
    BY DEF Init, Faults, Kinds
  <2>2. QED
    BY <2>1 DEF Init, Custody, Meter!Init
<1>2. ASSUME IInv, Kept, Kept', [Next]_vars PROVE [Meter!Next]_(Meter!vars)
  <2>1. CASE Next
    BY <1>2, <2>1, CustodyMoves, CustodyService
  <2>2. CASE UNCHANGED vars
    <3>1. UNCHANGED <<want, running, Custody>>
      BY <2>2 DEF vars, control, device, history, Custody, Faults
    <3>2. QED
      BY <3>1 DEF Meter!vars
  <2>3. QED
    BY <1>2, <2>1, <2>2
<1>3. QED
  BY <1>1, <1>2, Invariant, KeptInvariant, PTL DEF Spec, ImplementsCustody, Meter!Spec
=============================================================================
