---------------------------- MODULE ReadProcess ----------------------------
(***************************************************************************)
(* The preflight's download (runner_preflight.py, read_process): a gh      *)
(* process writes to two pipes, two threads drain them up to a limit, and  *)
(* the main thread waits for the threads and the process under one         *)
(* deadline, which may pass at any moment.                                 *)
(*                                                                         *)
(* gh starts no process that would keep a pipe open after it.              *)
(***************************************************************************)
EXTENDS Integers

CONSTANTS
  Limit,    \* bytes a reader accepts; it reads one more to notice an excess
  Capacity, \* of a pipe
  MaxBytes  \* bound: bytes the process writes to a pipe

(* What the parameters must be; the instances assume it.                   *)
ReadProcessAssumption ==
  Limit \in Nat /\ Capacity \in Nat \ {0} /\ MaxBytes \in Nat

Pipes == {"stdout", "stderr"}

VARIABLES
  pc,       \* of the main thread
  process,  \* "writing", "silent" (its pipes closed), or how it ended
  waited,   \* the main thread has collected it
  written,  \* bytes it wrote to each pipe
  captured, \* bytes each reader took
  reader,   \* "reads" or "done"
  late,     \* the deadline has passed
  stalled   \* what the main thread saw of the readers

vars == <<pc, process, waited, written, captured, reader, late, stalled>>

Ended   == {"returned", "failed"}
Running == process \in {"writing", "silent"}

Init ==
  /\ pc = "stdout" /\ process = "writing" /\ waited = FALSE
  /\ written = [s \in Pipes |-> 0] /\ captured = written
  /\ reader = [s \in Pipes |-> "reads"]
  /\ late = FALSE /\ stalled = FALSE

-----------------------------------------------------------------------------
(* The process, which may also hang, and time.                             *)

Write(s) ==
  /\ process = "writing"
  /\ written[s] < MaxBytes /\ written[s] - captured[s] < Capacity
  /\ written' = [written EXCEPT ![s] = @ + 1]
  /\ UNCHANGED <<pc, process, waited, captured, reader, late, stalled>>

ClosePipes ==
  /\ process = "writing" /\ process' = "silent"
  /\ UNCHANGED <<pc, waited, written, captured, reader, late, stalled>>

Exit ==
  /\ Running /\ process' \in {"succeeded", "failed"}
  /\ UNCHANGED <<pc, waited, written, captured, reader, late, stalled>>

Tick ==
  /\ pc \notin Ended /\ ~late /\ late' = TRUE
  /\ UNCHANGED <<pc, process, waited, written, captured, reader, stalled>>

-----------------------------------------------------------------------------
(* The readers: read(limit + 1) returns with that many bytes or at the end *)
(* of the file, which is when the pipe is closed and empty.                *)

(* Plausible bug: one more byte than the one that tells it is too long.    *)
ReadBeyond(s) ==
  /\ reader[s] = "reads"
  /\ \/ /\ captured[s] < written[s]
        /\ captured' = [captured EXCEPT ![s] = @ + 1]
        /\ reader' = [reader EXCEPT ![s] = IF captured[s] = Limit + 1 THEN "done" ELSE @]
     \/ /\ captured[s] = written[s] /\ process # "writing"
        /\ reader' = [reader EXCEPT ![s] = "done"]
        /\ UNCHANGED captured
  /\ UNCHANGED <<pc, process, waited, written, late, stalled>>

(* It may take each byte before the next is written.                       *)
Read(s) ==
  /\ reader[s] = "reads"
  /\ \/ /\ captured[s] < written[s]
        /\ captured' = [captured EXCEPT ![s] = @ + 1]
        /\ reader' = [reader EXCEPT ![s] = IF captured[s] = Limit THEN "done" ELSE @]
     \/ /\ captured[s] = written[s] /\ process # "writing"
        /\ reader' = [reader EXCEPT ![s] = "done"]
        /\ UNCHANGED captured
  /\ UNCHANGED <<pc, process, waited, written, late, stalled>>

-----------------------------------------------------------------------------
(* The main thread.                                                        *)

(* reader.join(what is left of the time)                                   *)
Join(s) ==
  /\ pc = s /\ (reader[s] = "done" \/ late)
  /\ pc' = IF s = "stdout" THEN "stderr" ELSE "alive"
  /\ UNCHANGED <<process, waited, written, captured, reader, late, stalled>>

(* Plausible bug: only the reader of the output is asked.                  *)
AliveOutput ==
  /\ pc = "alive" /\ pc' = "judge"
  /\ stalled' = FALSE
  /\ UNCHANGED <<process, waited, written, captured, reader, late>>

Alive ==
  /\ pc = "alive" /\ pc' = "judge"
  /\ stalled' = (\E s \in Pipes : reader[s] = "reads")
  /\ UNCHANGED <<process, waited, written, captured, reader, late>>

Oversized == \E s \in Pipes : reader[s] = "done" /\ captured[s] > Limit

Judge ==
  /\ pc = "judge" /\ pc' = IF stalled \/ Oversized THEN "kill" ELSE "wait"
  /\ UNCHANGED <<process, waited, written, captured, reader, late, stalled>>

Killed == IF Running THEN "killed" ELSE process

(* Plausible bug: the readers are joined first.                            *)
KillAfterJoins ==
  /\ pc = "kill" /\ \A s \in Pipes : reader[s] = "done"
  /\ process' = Killed /\ waited' = TRUE /\ pc' = "drain"
  /\ UNCHANGED <<written, captured, reader, late, stalled>>

(* kill and wait, then both joins without a timeout.                       *)
Kill ==
  /\ pc = "kill"
  /\ process' = Killed /\ waited' = TRUE /\ pc' = "drain"
  /\ UNCHANGED <<written, captured, reader, late, stalled>>

Drain ==
  /\ pc = "drain" /\ (\A s \in Pipes : reader[s] = "done") /\ pc' = "failed"
  /\ UNCHANGED <<process, waited, written, captured, reader, late, stalled>>

(* wait_process, and the verdict on the exit status, with which that of    *)
(* the HTTP header must agree; the wait ends at the deadline by a kill.    *)
Collect ==
  /\ pc = "wait" /\ waited' = TRUE
  /\ \/ ~Running /\ UNCHANGED process
        /\ pc' = IF process = "succeeded" THEN "returned" ELSE "failed"
     \/ Running /\ late /\ process' = "killed" /\ pc' = "failed"
  /\ UNCHANGED <<written, captured, reader, late, stalled>>

Main == (\E s \in Pipes : Join(s)) \/ Alive \/ Judge \/ Kill \/ Drain \/ Collect

Next == Main \/ ClosePipes \/ Exit \/ Tick \/ \E s \in Pipes : Write(s) \/ Read(s)

(* The threads are scheduled and time passes; nothing is asked of gh.      *)
Spec ==
  /\ Init /\ [][Next]_vars
  /\ WF_vars(Main) /\ WF_vars(Tick) /\ \A s \in Pipes : WF_vars(Read(s))

-----------------------------------------------------------------------------
(* Properties.                                                             *)

TypeOK ==
  /\ pc \in Pipes \cup {"alive", "judge", "kill", "drain", "wait"} \cup Ended
  /\ process \in {"writing", "silent", "succeeded", "failed", "killed"}
  /\ \A s \in Pipes : captured[s] \in 0..written[s] /\ written[s] \in 0..MaxBytes
  /\ \A s \in Pipes : captured[s] \in 0..Limit+1 /\ reader[s] \in {"reads", "done"}
  /\ waited \in BOOLEAN /\ late \in BOOLEAN /\ stalled \in BOOLEAN

(* What the download returns is all that a process wrote which succeeded,  *)
(* within the limit; and when it ends, in whatever way, no process and no  *)
(* reader is left.                                                         *)
CompleteOrNothing ==
  /\ pc = "returned" =>
       process = "succeeded" /\ \A s \in Pipes : captured[s] = written[s] /\ captured[s] <= Limit
  /\ pc \in Ended => waited /\ ~Running /\ \A s \in Pipes : reader[s] = "done"

(* It ends, also when gh hangs, or when the pipe of an excess is full.     *)
Ends == <>(pc \in Ended)
=============================================================================
