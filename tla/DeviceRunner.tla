---------------------------- MODULE DeviceRunner ----------------------------
(***************************************************************************)
(* The attended lab qualification run (hardware/device_runner.py, function *)
(* run_device): it soaks a live controller, disconnects a probe client,    *)
(* stops the lab's meter service, waits for the controller to accept zero, *)
(* restores the service and evaluates the events it journaled.             *)
(*                                                                         *)
(* The main thread is a program counter over the try, except and finally   *)
(* blocks; an exception, and a signal, which raises InterruptedError at    *)
(* any point, follow Python's rules. The MQTT callback, the probe thread,  *)
(* the supervised meter service, the controller and the output pipe        *)
(* interleave with it.                                                     *)
(*                                                                         *)
(* Time is a clock that ticks with each second of the state topic and with *)
(* each meter event, so timestamps are strictly ordered where the code     *)
(* compares them. Latency, RSS, uptime and identity values are one choice  *)
(* in Evaluate; messages less than a second apart, which the collector     *)
(* discards, do not occur.                                                 *)
(***************************************************************************)
EXTENDS Integers, Sequences

CONSTANTS
  Duration,        \* duration_seconds, in ticks
  CollectFor,      \* the collector's own duration: one second more
  MinSamples,      \* fresh samples evaluate requires (100)
  Gap,             \* limits.sample_gap_seconds
  ZeroLimit,       \* limits.accepted_zero_seconds
  RestoreAfter,    \* the collector's own wait for zero: two seconds more
  ProbeDeadline,   \* the collector's probe_deadline
  ReconnectCount,  \* reconnect_count
  QueueSize,       \* size of the evidence queue (10000)
  MaxClock,        \* bound: seconds of the state topic
  Disturbances     \* of the run from outside: a reader that goes, a signal, one in the cleanup

ASSUME RunnerAssumption ==
  /\ {Duration, MinSamples, Gap, ZeroLimit, ReconnectCount, QueueSize} \subseteq Nat \ {0}
  /\ ProbeDeadline \in Nat /\ MaxClock \in Nat
  /\ RestoreAfter \in Nat /\ RestoreAfter >= ZeroLimit
  /\ CollectFor \in Nat /\ CollectFor >= Duration
  /\ Disturbances \subseteq {"pipe", "signal", "lateSignal"}

Collecting == {"receive", "get", "fault", "svcDown", "restore", "svcUp", "poll", "release"}
Body       == {"observe", "connect", "join"} \cup Collecting
Restoring  == {"cleanupUp", "cleanupPoll"}
Cleaning   == {"finally", "cleanupError"} \cup Restoring
Labels     == {"start", "handler", "close", "verify", "evaluate", "exit"} \cup Body \cup Cleaning

(* What the controller reports: a valid meter; a lost one; a lost one with *)
(* zero accepted.                                                          *)
Reports == {"valid", "lost", "zero"}
Kinds   == {"preflight", "preflight_only", "sample", "reconnect", "meter_down",
            "meter_restored", "error", "cleanup_error"}
Event   == [kind : Kinds, t : Nat, ok : BOOLEAN, report : Reports]
Message == [t : Nat, report : Reports]

VARIABLES
  preflight,      \* argument preflight_only
  pc,             \* what the main thread does next
  pending,        \* how the try statement completes
  code,           \* exit status
  owned,          \* ownership["attempted"]
  events,         \* the journal, by kind: evaluate compares times, not positions
  stop,           \* the stop flag shared by the three threads
  queue,          \* messages the callback queued
  clock,
  worker,         \* the probe thread
  probes,         \* successful reconnects
  want,           \* what the supervisor was last told about the meter
  running,        \* the meter process is up
  controller,     \* what the controller reports now
  pipe,           \* standard output still has a reader
  lostAt,         \* history: when the first message was dropped, or 0
  restartFailed,  \* history: the last attempt to restart the meter failed
  zeroed          \* history: the controller accepted zero

control == <<pc, pending, code>>
device  == <<want, running, controller>>
feed    == <<queue, clock>>
probe   == <<worker, probes>>
history == <<lostAt, restartFailed, zeroed>>
vars    == <<preflight, control, owned, events, stop, feed, probe, device, pipe, history>>

Init ==
  /\ preflight \in BOOLEAN
  /\ pc = "start" /\ pending = "none" /\ code = 1
  /\ owned = FALSE /\ events = [k \in Kinds |-> <<>>] /\ stop = FALSE
  /\ queue = <<>> /\ clock = 0
  /\ worker = "none" /\ probes = 0
  /\ want = "up" /\ running = TRUE /\ controller = "valid"
  /\ pipe = TRUE
  /\ lostAt = 0 /\ restartFailed = FALSE /\ zeroed = FALSE

-----------------------------------------------------------------------------
(* Control flow and the journal.                                           *)

Go(label) == pc' = label /\ UNCHANGED <<pending, code>>

(* An exception at a label: the scenario's are caught by the handler and   *)
(* the restoration's by its own; any other one completes the statement.    *)
Handler(label) ==
  CASE label \in Body            -> "handler"
    [] label = "handler"         -> "finally"
    [] label \in Restoring       -> "cleanupError"
    [] label = "cleanupError"    -> "close"
    [] label = "close"           -> "verify"
    [] OTHER                     -> "exit"

Raise ==
  /\ pc' = Handler(pc)
  /\ pending' = IF pc \in Body \cup Restoring THEN pending ELSE "raise"
  /\ code' = IF Handler(pc) = "exit" THEN 1 ELSE code

Entry(kind, t, ok, report) == [kind |-> kind, t |-> t, ok |-> ok, report |-> report]

(* emit appends before it prints, and print raises without a reader.       *)
Journal(e)      == events' = [events EXCEPT ![e.kind] = Append(@, e)]
Emit(e, label)  == Journal(e) /\ (IF pipe THEN Go(label) ELSE Raise)

(* Only the times of samples and meter events, and the reports of samples, *)
(* are ever compared. A meter event takes its own instant.                 *)
Mark(kind, ok)       == Entry(kind, 0, ok, "valid")
MeterEvent(kind, ok) == Entry(kind, clock + 1, ok, "valid")
Tick == clock' = clock + 1

Samples  == events["sample"]
Faults   == events["meter_down"]
Cleanups == events["meter_restored"]
Last(s)  == s[Len(s)]

-----------------------------------------------------------------------------
(* The main thread, up to the collector.                                   *)

Admit ==
  /\ pc = "start"
  /\ Go("observe") \/ Raise
  /\ UNCHANGED <<preflight, owned, events, stop, feed, probe, device, pipe, history>>

Observe ==
  /\ pc = "observe" /\ running
  /\ IF ~preflight THEN Emit(Mark("preflight", TRUE), "connect")
     ELSE /\ events' = [events EXCEPT !["preflight"] = Append(@, Mark("preflight", TRUE)),
                                      !["preflight_only"] = <<Mark("preflight_only", FALSE)>>]
          /\ IF pipe THEN pc' = "finally" /\ pending' = "return" /\ code' = code ELSE Raise
  /\ UNCHANGED <<preflight, owned, stop, feed, probe, device, pipe, history>>

Connect ==
  /\ pc = "connect"
  /\ Go("receive")
  /\ UNCHANGED <<preflight, owned, events, stop, feed, probe, device, pipe, history>>

(* A read, a comparison or a call of the body fails or times out.          *)
BodyFails ==
  /\ \/ pc \in {"observe", "connect", "poll"}
     \/ pc = "join" /\ worker \in {"probing", "wedged"}
  /\ Raise
  /\ UNCHANGED <<preflight, owned, events, stop, feed, probe, device, pipe, history>>

-----------------------------------------------------------------------------
(* The collector.                                                          *)

Expired == Samples # <<>> /\ clock - Samples[1].t > CollectFor

LoopEnds ==
  /\ pc = "receive" /\ Expired
  /\ Go("join")
  /\ UNCHANGED <<preflight, owned, events, stop, feed, probe, device, pipe, history>>

Receive ==
  /\ pc = "receive" /\ ~Expired
  /\ IF stop \/ (worker \in {"probing", "wedged"} /\ clock > ProbeDeadline)
     THEN Raise ELSE Go("get")
  /\ UNCHANGED <<preflight, owned, events, stop, feed, probe, device, pipe, history>>

GetTimesOut ==
  /\ pc = "get" /\ queue = <<>>
  /\ Raise
  /\ UNCHANGED <<preflight, owned, events, stop, feed, probe, device, pipe, history>>

GetStale ==
  /\ pc = "get" /\ queue # <<>> /\ clock - Head(queue).t > Gap
  /\ Raise /\ queue' = Tail(queue)
  /\ UNCHANGED <<preflight, owned, events, stop, clock, probe, device, pipe, history>>

(* The first sample must be of a healthy controller, and starts the probe. *)
GetSample ==
  /\ pc = "get" /\ queue # <<>> /\ clock - Head(queue).t <= Gap
  /\ queue' = Tail(queue)
  /\ LET msg == Head(queue) IN
     IF Samples = <<>> /\ msg.report # "valid"
     THEN Raise /\ UNCHANGED <<events, worker>>
     ELSE /\ Emit(Entry("sample", msg.t, TRUE, msg.report), "fault")
          /\ worker' = IF Samples = <<>> THEN "probing" ELSE worker
  /\ UNCHANGED <<preflight, owned, stop, clock, probes, device, pipe, history>>

FaultDue == Faults = <<>> /\ 2 * Last(Samples).t >= Duration

SkipFault ==
  /\ pc = "fault" /\ ~FaultDue
  /\ Go("restore")
  /\ UNCHANGED <<preflight, owned, events, stop, feed, probe, device, pipe, history>>

(* Plausible bug: the stop is journaled but not owned before the command.  *)
FaultUnowned ==
  /\ pc = "fault" /\ FaultDue
  /\ IF Last(Samples).report # "valid"
     THEN Raise /\ UNCHANGED <<owned, events, clock>>
     ELSE UNCHANGED owned /\ Emit(MeterEvent("meter_down", TRUE), "svcDown") /\ Tick
  /\ UNCHANGED <<preflight, stop, queue, probe, device, pipe, history>>

Fault ==
  /\ pc = "fault" /\ FaultDue
  /\ IF Last(Samples).report # "valid"
     THEN Raise /\ UNCHANGED <<owned, events, clock>>
     ELSE owned' = TRUE /\ Emit(MeterEvent("meter_down", TRUE), "svcDown") /\ Tick
  /\ UNCHANGED <<preflight, stop, queue, probe, device, pipe, history>>

SvcDown ==
  /\ pc = "svcDown"
  /\ \/ want' = "down" /\ Go("restore")
     \/ want' \in {want, "down"} /\ Raise
  /\ UNCHANGED <<preflight, owned, events, stop, feed, probe, running, controller, pipe, history>>

RestoreDue ==
  /\ Faults # <<>> /\ Cleanups = <<>>
  /\ Last(Samples).report = "zero" \/ clock - Faults[1].t > RestoreAfter

SkipRestore ==
  /\ pc = "restore" /\ ~RestoreDue
  /\ Go("receive")
  /\ UNCHANGED <<preflight, owned, events, stop, feed, probe, device, pipe, history>>

(* Plausible bug: ownership is released before the service is restored.    *)
RestoreReleasing ==
  /\ pc = "restore" /\ RestoreDue
  /\ owned' = FALSE
  /\ Go("svcUp")
  /\ UNCHANGED <<preflight, events, stop, feed, probe, device, pipe, history>>

Restore ==
  /\ pc = "restore" /\ RestoreDue
  /\ Go("svcUp")
  /\ UNCHANGED <<preflight, owned, events, stop, feed, probe, device, pipe, history>>

Release ==
  /\ pc = "release"
  /\ owned' = FALSE
  /\ Go("receive")
  /\ UNCHANGED <<preflight, events, stop, feed, probe, device, pipe, history>>

Join ==
  /\ pc = "join" /\ worker = "done"
  /\ Go("finally")
  /\ UNCHANGED <<preflight, owned, events, stop, feed, probe, device, pipe, history>>

-----------------------------------------------------------------------------
(* restore_meter, called by the collector and by the cleanup.              *)

SvcUp ==
  /\ \/ pc = "svcUp"     /\ want' = "up" /\ Go("poll")      /\ UNCHANGED restartFailed
     \/ pc = "cleanupUp" /\ want' = "up" /\ Go("cleanupPoll") /\ UNCHANGED restartFailed
     \/ /\ pc \in {"svcUp", "cleanupUp"}
        /\ want' \in {want, "up"} /\ Raise
        /\ restartFailed' = (pc = "cleanupUp")
  /\ UNCHANGED <<preflight, owned, events, stop, feed, probe, running, controller, pipe,
                 lostAt, zeroed>>

PollUp ==
  /\ \/ pc = "poll"        /\ running /\ Emit(MeterEvent("meter_restored", TRUE), "release")
     \/ pc = "cleanupPoll" /\ running /\ Emit(MeterEvent("meter_restored", TRUE), "close")
  /\ Tick
  /\ UNCHANGED <<preflight, owned, stop, queue, probe, device, pipe, history>>

(* Ten seconds pass: the collector raises, the cleanup goes on.            *)
PollExpires ==
  /\ ~running
  /\ \/ pc = "poll" /\ Journal(MeterEvent("meter_restored", FALSE)) /\ Raise
        /\ UNCHANGED restartFailed
     \/ pc = "cleanupPoll" /\ Emit(MeterEvent("meter_restored", FALSE), "close")
        /\ restartFailed' = TRUE
  /\ Tick
  /\ UNCHANGED <<preflight, owned, stop, queue, probe, device, pipe, lostAt, zeroed>>

-----------------------------------------------------------------------------
(* The handler, the finally block and the verdict.                         *)

Except ==
  /\ pc = "handler"
  /\ Emit(Mark("error", FALSE), "finally")
  /\ UNCHANGED <<preflight, owned, stop, feed, probe, device, pipe, history>>

Finally ==
  /\ pc = "finally"
  /\ stop' = TRUE
  /\ Go(IF owned THEN "cleanupUp" ELSE "close")
  /\ UNCHANGED <<preflight, owned, events, feed, probe, device, pipe, history>>

CleanupPollFails ==
  /\ pc = "cleanupPoll"
  /\ Raise
  /\ restartFailed' = TRUE
  /\ UNCHANGED <<preflight, owned, events, stop, feed, probe, device, pipe, lostAt, zeroed>>

CleanupError ==
  /\ pc = "cleanupError"
  /\ Emit(Mark("cleanup_error", FALSE), "close")
  /\ UNCHANGED <<preflight, owned, stop, feed, probe, device, pipe, history>>

(* Plausible bug: the close is awaited without a timeout.                  *)
CloseUnbounded ==
  /\ pc = "close" /\ worker # "wedged"
  /\ Go("verify")
  /\ UNCHANGED <<preflight, owned, events, stop, feed, probe, device, pipe, history>>

(* Disconnecting the broker may raise; bounded_close follows all the same, *)
(* and a client that does not close in time is journaled.                  *)
Close ==
  /\ pc = "close"
  /\ \/ (Go("verify") \/ Raise) /\ worker # "wedged" /\ UNCHANGED events
     \/ (Go("verify") \/ Raise) /\ Journal(Mark("error", FALSE)) /\ pipe
     \/ Raise /\ Journal(Mark("error", FALSE)) /\ ~pipe
  /\ UNCHANGED <<preflight, owned, stop, feed, probe, device, pipe, history>>

(* The statement completes; a full run verifies the installed files again. *)
Verify ==
  /\ pc = "verify"
  /\ \/ pending = "raise" /\ Raise /\ UNCHANGED events
     \/ pending = "return" /\ pc' = "exit" /\ code' = 0 /\ UNCHANGED <<pending, events>>
     \/ pending = "none" /\ Go("evaluate") /\ UNCHANGED events
     \/ pending = "none" /\ Emit(Mark("error", FALSE), "evaluate")
  /\ UNCHANGED <<preflight, owned, stop, feed, probe, device, pipe, history>>

TimingHolds ==
  /\ Len(Samples) >= MinSamples
  /\ Last(Samples).t - Samples[1].t >= Duration
  /\ \A i \in 1..Len(Samples) - 1 : Samples[i + 1].t - Samples[i].t \in 1..Gap

ReconnectsHold ==
  LET tries == events["reconnect"] IN
  Len(tries) = ReconnectCount /\ \A i \in 1..Len(tries) : tries[i].ok

(* Plausible bug: recovery is required, an accepted zero is not.           *)
RecoveryHoldsNoZero(fault, restored) ==
  \E i \in 1..Len(Samples) : Samples[i].t > restored /\ Samples[i].report = "valid"

(* The last sample before the fault is healthy, the first accepted zero is *)
(* in time, and a sample after the restoration is healthy.                 *)
RecoveryHolds(fault, restored) ==
  LET Before   == {i \in 1..Len(Samples) : Samples[i].t < fault}
      Accepted == {i \in 1..Len(Samples) : /\ fault <= Samples[i].t /\ Samples[i].t < restored
                                           /\ Samples[i].report = "zero"}
  IN /\ \E i \in Before : (\A j \in Before : j <= i) /\ Samples[i].report = "valid"
     /\ \E i \in Accepted : (\A j \in Accepted : i <= j) /\ Samples[i].t - fault <= ZeroLimit
     /\ \E i \in 1..Len(Samples) : Samples[i].t > restored /\ Samples[i].report = "valid"

MeterLossHolds ==
  /\ Len(Faults) = 1 /\ Len(Cleanups) = 1 /\ Cleanups[1].ok
  /\ RecoveryHolds(Faults[1].t, Cleanups[1].t)

Passed ==
  /\ TimingHolds /\ ReconnectsHold /\ MeterLossHolds
  /\ Len(events["preflight"]) = 1
  /\ events["error"] = <<>>

Evaluate ==
  /\ pc = "evaluate"
  /\ IF pipe THEN /\ pc' = "exit" /\ UNCHANGED pending
                  /\ \E measured \in BOOLEAN : code' = IF measured /\ Passed THEN 0 ELSE 1
     ELSE Raise
  /\ UNCHANGED <<preflight, owned, events, stop, feed, probe, device, pipe, history>>

-----------------------------------------------------------------------------
(* The other threads and the environment.                                  *)

(* Plausible bug: the evidence queue is never full.                        *)
RoomAlways == TRUE

Room == Len(queue) < QueueSize

(* The MQTT callback; nobody reads the queue outside the collector.        *)
OnMessage ==
  /\ pc \in Collecting /\ clock < MaxClock
  /\ Tick
  /\ \/ /\ Room
        /\ queue' = Append(queue, [t |-> clock + 1, report |-> controller])
        /\ UNCHANGED <<stop, lostAt>>
     \/ /\ stop' = TRUE                                  \* malformed, or no room
        /\ lostAt' = IF lostAt = 0 THEN clock + 1 ELSE lostAt
        /\ UNCHANGED queue
  /\ UNCHANGED <<preflight, control, owned, events, probe, device, pipe,
                 restartFailed, zeroed>>

(* A second without a message.                                             *)
Silence ==
  /\ pc \in Collecting /\ clock < MaxClock
  /\ Tick
  /\ UNCHANGED <<preflight, control, owned, events, stop, queue, probe, device, pipe, history>>

(* The probe thread dies in emit when nobody reads its output.             *)
Reconnect ==
  /\ worker = "probing" /\ pc # "exit"
  /\ \/ /\ ~stop
        /\ Journal(Mark("reconnect", TRUE))
        /\ probes' = probes + 1
        /\ worker' = IF pipe /\ probes' < ReconnectCount THEN "probing" ELSE "done"
        /\ UNCHANGED stop
     \/ /\ Journal(Mark("reconnect", FALSE))
        /\ worker' = "done"
        /\ stop' = (stop \/ pipe)
        /\ UNCHANGED probes
  /\ UNCHANGED <<preflight, control, owned, feed, device, pipe, history>>

(* The client blocks forever, or raises and ends its thread.               *)
ProbeBreaks ==
  /\ worker = "probing" /\ pc # "exit"
  /\ worker' \in {"wedged", "done"}
  /\ UNCHANGED <<preflight, control, owned, events, stop, feed, probes, device, pipe, history>>

Supervise ==
  /\ running # (want = "up")
  /\ running' = (want = "up")
  /\ UNCHANGED <<preflight, control, owned, events, stop, feed, probe, want, controller, pipe,
                 history>>

(* Its reports are read while collecting.                                  *)
Controller ==
  /\ pc \in Collecting
  /\ controller' = IF running THEN "valid" ELSE IF controller = "valid" THEN "lost" ELSE "zero"
  /\ controller' # controller
  /\ zeroed' = (zeroed \/ controller' = "zero")
  /\ UNCHANGED <<preflight, control, owned, events, stop, feed, probe, want, running, pipe,
                 lostAt, restartFailed>>

PipeBreaks ==
  /\ pipe /\ pc # "exit" /\ "pipe" \in Disturbances
  /\ pipe' = FALSE
  /\ UNCHANGED <<preflight, control, owned, events, stop, feed, probe, device, history>>

(* SIGTERM or SIGINT: terminate raises InterruptedError where main is. One *)
(* inside verify_release_files is caught there: Verify journals an error.  *)
Signal ==
  /\ IF pc \in Cleaning THEN "lateSignal" \in Disturbances
     ELSE pc # "exit" /\ "signal" \in Disturbances
  /\ Raise
  /\ UNCHANGED <<preflight, owned, events, stop, feed, probe, device, pipe, history>>

Main ==
  \/ Admit \/ Observe \/ Connect \/ BodyFails
  \/ LoopEnds \/ Receive \/ GetTimesOut \/ GetStale \/ GetSample
  \/ SkipFault \/ Fault \/ SvcDown \/ SkipRestore \/ Restore \/ Release \/ Join
  \/ SvcUp \/ PollUp \/ PollExpires
  \/ Except \/ Finally \/ CleanupPollFails \/ CleanupError
  \/ Close \/ Verify \/ Evaluate

Next ==
  \/ Main
  \/ OnMessage \/ Silence \/ Reconnect \/ ProbeBreaks
  \/ Supervise \/ Controller \/ PipeBreaks \/ Signal

(* Every call of the main thread has a timeout, so it always goes on.      *)
Spec == Init /\ [][Next]_vars /\ WF_vars(Main)

-----------------------------------------------------------------------------
(* Properties.                                                             *)

(* Every variable has its type and the evidence queue keeps its size.      *)
TypeOK ==
  /\ preflight \in BOOLEAN
  /\ pc \in Labels /\ pending \in {"none", "return", "raise"} /\ code \in {0, 1}
  /\ owned \in BOOLEAN /\ stop \in BOOLEAN /\ pipe \in BOOLEAN
  /\ events \in [Kinds -> Seq(Event)]
  /\ queue \in Seq(Message) /\ Len(queue) <= QueueSize
  /\ clock \in Nat
  /\ worker \in {"none", "probing", "wedged", "done"} /\ probes \in 0..ReconnectCount
  /\ want \in {"up", "down"} /\ running \in BOOLEAN /\ controller \in Reports
  /\ lostAt \in Nat /\ restartFailed \in BOOLEAN /\ zeroed \in BOOLEAN

(* While the meter is told to be down, this process owns the stop and has  *)
(* journaled it, whatever failed in between ("Journal before the command").*)
JournaledStop == want = "down" => owned /\ Faults # <<>>

(* However the scenario ends - failure, timeout, signal, no reader - the   *)
(* meter is told to be up at exit, unless its own restart command failed   *)
(* ("Failures, timeouts and signals enter finally").                       *)
MeterRestored == (pc = "exit" /\ ~restartFailed) => want = "up"

(* The run keeps the promise of MeterCustody: it stops the meter at most   *)
(* once, announced, returns it only while it runs, leaves it alone before  *)
(* and after, and ends with a meter that runs or with a failed restart     *)
(* ("ownership" and the finally block of run_device).                      *)
Custody ==
  CASE pc = "exit"     -> IF restartFailed THEN "broken" ELSE "ended"
    [] pc = "svcDown"  -> "announced"
    [] OTHER           -> IF owned THEN "held" ELSE IF Faults # <<>> THEN "returned" ELSE "none"

Meter == INSTANCE MeterCustody WITH told <- want, up <- running, custody <- Custody
ImplementsCustody == Meter!Spec

(* A passed qualification really lost the meter, had zero accepted, left   *)
(* the meter up, and reconnected the probe every time.                     *)
PassIsSound ==
  (code = 0 /\ ~preflight)
    => zeroed /\ want = "up" /\ ~restartFailed /\ probes = ReconnectCount /\ worker = "done"

(* A message dropped before the last sample fails the qualification        *)
(* ("Lost evidence is a gate failure, not a silently skipped sample").     *)
LostEvidenceFails ==
  (code = 0 /\ ~preflight /\ lostAt # 0) => lostAt > Last(Samples).t

(* The run ends, even with the probe client wedged for good ("A wedged     *)
(* probe lock must not wedge the observer's cleanup/evidence path").       *)
Termination == <>(pc = "exit")
=============================================================================
