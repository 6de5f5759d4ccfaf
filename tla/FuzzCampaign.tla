--------------------------- MODULE FuzzCampaign ---------------------------
(***************************************************************************)
(* The fuzzing of a release candidate (release_fuzz.py, campaign and       *)
(* run_preflight): commands that set up, commands that replay fixed seeds  *)
(* within a common budget, and the targets, one after the other, each with *)
(* a timeout; and the report, which the publishing job verifies            *)
(* (verify_report) next to the state of the campaign's job                 *)
(* (check_run_jobs).                                                       *)
(***************************************************************************)
EXTENDS Integers, Sequences

CONSTANTS
  Setups,    \* setup commands
  Replays,   \* preflight commands
  Targets    \* fuzz targets

(* What the parameters must be; the instances assume it.                   *)
FuzzCampaignAssumption ==
  Setups \in Nat /\ Replays \in Nat /\ Targets \in Nat \ {0}

Steps == 1..(Setups + Replays + Targets)
Phase(i) ==
  CASE i <= Setups           -> "setup"
    [] i > Setups + Replays  -> "target"
    [] OTHER                 -> "preflight"

VARIABLES
  pc,      \* "start", "running", "kill", "over" (the process), "finally" or "ended"
  at,      \* the step
  code,    \* its exit code
  worked,  \* it reported executions
  alive,   \* steps whose process runs
  results, \* the targets' entries of the report, in order
  preflight, \* the report has the preflight's evidence
  status,  \* of the report
  report,  \* "none", "written", or "accepted" or "rejected" by its reader
  job,     \* conclusion of the job
  overlap, \* history: a step began while another's process ran
  passed   \* history: steps that ended by themselves, with 0

vars == <<pc, at, code, worked, alive, results, preflight, status, report, job, overlap, passed>>

Result == [target : Steps, code : {0, 1, 124, 125}, worked : BOOLEAN]

Init ==
  /\ pc = "start" /\ at = 1 /\ code = 0 /\ worked = FALSE
  /\ alive = {} /\ results = <<>> /\ preflight = (Setups + Replays = 0)
  /\ status = "failed" /\ report = "none" /\ job = "running"
  /\ overlap = FALSE /\ passed = {}

-----------------------------------------------------------------------------
(* execute.                                                                *)

Begin ==
  /\ pc = "start"
  /\ pc' = "running" /\ alive' = alive \cup {at}
  /\ overlap' = (overlap \/ alive # {})
  /\ UNCHANGED <<at, code, worked, results, preflight, status, report, job, passed>>

Exit ==
  /\ pc = "running" /\ pc' = "over" /\ alive' = alive \ {at}
  /\ code' \in {0, 1} /\ worked' \in BOOLEAN
  /\ passed' = IF code' = 0 THEN passed \cup {at} ELSE passed
  /\ UNCHANGED <<at, results, preflight, status, report, job, overlap>>

Expire ==
  /\ pc = "running" /\ pc' = "kill"
  /\ UNCHANGED <<at, code, worked, alive, results, preflight, status, report, job, overlap, passed>>

(* Plausible bug: an error of killpg is ignored.                           *)
KillIgnored ==
  /\ pc = "kill" /\ pc' = "over"
  /\ code' = 124 /\ worked' \in BOOLEAN
  /\ UNCHANGED <<at, alive, results, preflight, status, report, job, overlap, passed>>

Kill ==
  /\ pc = "kill" /\ pc' = "over" /\ alive' = alive \ {at}
  /\ code' = 124 /\ worked' \in BOOLEAN
  /\ UNCHANGED <<at, results, preflight, status, report, job, overlap, passed>>

(* No member of the process group may be signalled: the exception ends the *)
(* campaign, and the process runs on.                                      *)
KillDenied ==
  /\ pc = "kill" /\ pc' = "finally"
  /\ UNCHANGED <<at, code, worked, alive, results, preflight, status, report, job, overlap, passed>>

-----------------------------------------------------------------------------
(* campaign.                                                               *)

Proceed == /\ at' = IF at = Setups + Replays + Targets THEN at ELSE at + 1
           /\ pc' = IF at = Setups + Replays + Targets THEN "judge" ELSE "start"

(* A setup or a preflight command must exit with 0.                        *)
Continue ==
  /\ pc = "over" /\ Phase(at) # "target" /\ code = 0
  /\ preflight' = (at >= Setups + Replays)
  /\ Proceed
  /\ UNCHANGED <<code, worked, alive, results, status, report, job, overlap, passed>>

(* Plausible bug: no executions are no failure.                            *)
RecordExit ==
  /\ pc = "over" /\ Phase(at) = "target"
  /\ results' = Append(results, [target |-> at, code |-> code, worked |-> worked])
  /\ Proceed
  /\ UNCHANGED <<code, worked, alive, preflight, status, report, job, overlap, passed>>

(* run_target: a target that found nothing to execute failed (125).        *)
Record ==
  /\ pc = "over" /\ Phase(at) = "target"
  /\ results' = Append(results, [target |-> at,
                                 code |-> IF code = 0 /\ ~worked THEN 125 ELSE code,
                                 worked |-> worked])
  /\ Proceed
  /\ UNCHANGED <<code, worked, alive, preflight, status, report, job, overlap, passed>>

Judge ==
  /\ pc = "judge" /\ pc' = "finally"
  /\ status' = IF \A i \in DOMAIN results : results[i].code = 0 THEN "passed" ELSE "failed"
  /\ UNCHANGED <<at, code, worked, alive, results, preflight, report, job, overlap, passed>>

(* A command failed, the preflight's four minutes are over, a replay       *)
(* executed nothing, or something else is raised: by a corpus, or by the   *)
(* diagnostics of a target.                                                *)
Raise ==
  /\ pc \in {"start", "over"} /\ pc' = "finally"
  /\ UNCHANGED <<at, code, worked, alive, results, preflight, status, report, job, overlap, passed>>

(* The finally clause writes the report whatever happened.                 *)
Report ==
  /\ pc = "finally" /\ pc' = "ended"
  /\ report' = "written" /\ job' = IF status = "passed" THEN "success" ELSE "failure"
  /\ UNCHANGED <<at, code, worked, alive, results, preflight, status, overlap, passed>>

(* The job is cancelled or its runner dies.                                *)
Cancel ==
  /\ pc \notin {"ended"} /\ pc' = "ended" /\ job' = "failure"
  /\ UNCHANGED <<at, code, worked, alive, results, preflight, status, report, overlap, passed>>

-----------------------------------------------------------------------------
(* The reader.                                                             *)

(* verify_target_inventory and verify_preflight_evidence.                  *)
Inventory ==
  /\ [i \in DOMAIN results |-> results[i].target]
       = [i \in 1..Targets |-> Setups + Replays + i]
  /\ \A i \in DOMAIN results : results[i].code = 0 /\ results[i].worked
  /\ preflight

Verify ==
  /\ report = "written"
  /\ report' = IF job = "success" /\ status = "passed" /\ Inventory THEN "accepted" ELSE "rejected"
  /\ UNCHANGED <<pc, at, code, worked, alive, results, preflight, status, job, overlap, passed>>

Work ==
  \/ Begin \/ Exit \/ Expire \/ Kill \/ KillDenied
  \/ Continue \/ Record \/ Judge \/ Raise \/ Report \/ Verify

Next == Work \/ Cancel

(* A process ends, or its timeout does.                                    *)
Spec == Init /\ [][Next]_vars /\ WF_vars(Work)

-----------------------------------------------------------------------------
(* Properties.                                                             *)

TypeOK ==
  /\ pc \in {"start", "running", "kill", "over", "judge", "finally", "ended"}
  /\ at \in Steps /\ code \in {0, 1, 124} /\ worked \in BOOLEAN
  /\ alive \subseteq Steps /\ passed \subseteq Steps
  /\ results \in Seq(Result) /\ preflight \in BOOLEAN /\ overlap \in BOOLEAN
  /\ status \in {"failed", "passed"} /\ job \in {"running", "success", "failure"}
  /\ report \in {"none", "written", "accepted", "rejected"}

(* No command begins while the process of an earlier one runs on. A report *)
(* that says passed means that every setup, replay and target ran and      *)
(* ended by itself with 0, the targets with executions, and that nothing   *)
(* of the campaign still runs; and its reader accepts no other.            *)
CampaignSound ==
  /\ ~overlap
  /\ status = "passed" =>
       /\ passed = Steps /\ alive = {}
       /\ Len(results) = Targets /\ \A i \in 1..Targets : results[i].worked
       /\ report # "rejected"
  /\ report = "accepted" => status = "passed"

(* The campaign ends, and its reader decides.                              *)
Ends == <>(pc = "ended" /\ report # "written")
=============================================================================
