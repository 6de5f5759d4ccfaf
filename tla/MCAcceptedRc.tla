---------------------------- MODULE MCAcceptedRc ----------------------------
(***************************************************************************)
(* The jobs that act on an accepted candidate, and what they take as       *)
(* single steps: the read of a GitHub resource with its retries, the       *)
(* bounded download of the preflight, and the fuzzing campaign whose       *)
(* report is part of the evidence. A behaviour is one of a single          *)
(* component, which part names; the others' variables do not change.       *)
(***************************************************************************)
EXTENDS AcceptedRc

CONSTANTS
  Pages, Attempts, MaxChanges, \* GitHubReads
  Limit, Capacity, MaxBytes,   \* ReadProcess
  Setups, Replays, Targets     \* FuzzCampaign

VARIABLES
  part, label,
  attempt, revision, capture, answer, denied, missing,
  process, waited, written, captured, reader, late, stalled,
  step, code, worked, alive, results, preflight, status, report, conclusion, overlap, passed

Reads    == INSTANCE GitHubReads WITH pc <- label
Download == INSTANCE ReadProcess WITH pc <- label
Campaign == INSTANCE FuzzCampaign WITH pc <- label, at <- step, job <- conclusion

ASSUME InstancesAssumption ==
  /\ Reads!GitHubReadsAssumption /\ Download!ReadProcessAssumption
  /\ Campaign!FuzzCampaignAssumption

OfReads    == <<attempt, revision, capture, answer, denied, missing>>
OfDownload == <<process, waited, written, captured, reader, late, stalled>>
OfCampaign ==
  <<step, code, worked, alive, results, preflight, status, report, conclusion, overlap, passed>>
partVars   == <<part, label, vars, OfReads, OfDownload, OfCampaign>>

Idle == <<>>

(* One of the jobs, before its first step.                                 *)
NoJob ==
  /\ Init /\ kind = "promote" /\ rebuild = FALSE /\ head = "source"
  /\ own = [run |-> "queued", gate |-> "pending", stale |-> FALSE]
NoReads ==
  /\ attempt = Idle /\ revision = Idle /\ capture = Idle /\ answer = Idle
  /\ denied = Idle /\ missing = Idle
NoDownload ==
  /\ process = Idle /\ waited = Idle /\ written = Idle /\ captured = Idle
  /\ reader = Idle /\ late = Idle /\ stalled = Idle
NoCampaign ==
  /\ step = Idle /\ code = Idle /\ worked = Idle /\ alive = Idle /\ results = Idle
  /\ preflight = Idle /\ status = Idle /\ report = Idle /\ conclusion = Idle
  /\ overlap = Idle /\ passed = Idle

PartInit ==
  \/ part = "job" /\ Init /\ label = Idle /\ NoReads /\ NoDownload /\ NoCampaign
  \/ part = "reads" /\ Reads!Init /\ NoJob /\ NoDownload /\ NoCampaign
  \/ part = "download" /\ Download!Init /\ NoJob /\ NoReads /\ NoCampaign
  \/ part = "campaign" /\ Campaign!Init /\ NoJob /\ NoReads /\ NoDownload

ForJob      == part = "job" /\ UNCHANGED <<part, label, OfReads, OfDownload, OfCampaign>>
ForReads    == part = "reads" /\ UNCHANGED <<part, vars, OfDownload, OfCampaign>>
ForDownload == part = "download" /\ UNCHANGED <<part, vars, OfReads, OfCampaign>>
ForCampaign == part = "campaign" /\ UNCHANGED <<part, vars, OfReads, OfDownload>>

PartNext ==
  \/ ForJob /\ Next
  \/ ForReads /\ Reads!Next
  \/ ForDownload /\ Download!Next
  \/ ForCampaign /\ Campaign!Next

(* The fairness of each module; part never changes, so that a disjunction  *)
(* over the parts is that of one of them.                                  *)
Working ==
  \/ ForJob /\ Job
  \/ ForReads /\ Reads!Step
  \/ ForDownload /\ Download!Main
  \/ ForCampaign /\ Campaign!Work

PartSpec ==
  /\ PartInit /\ [][PartNext]_partVars
  /\ WF_partVars(Working)
  /\ WF_partVars(ForDownload /\ Download!Tick)
  /\ \A s \in {"stdout", "stderr"} : WF_partVars(ForDownload /\ Download!Read(s))

-----------------------------------------------------------------------------
(* The properties of AcceptedRc are checked as they are; these are the     *)
(* others', each of its own component.                                     *)

(* The state of a job, a read, a download and a campaign has its type.     *)
PartTypeOK ==
  /\ TypeOK
  /\ part = "reads" => Reads!TypeOK
  /\ part = "download" => Download!TypeOK
  /\ part = "campaign" => Campaign!TypeOK

(* GitHubReads and ReadProcess: a read returns everything that was asked   *)
(* for, from one attempt or one successful process, or it fails.           *)
ReadsWhole ==
  /\ part = "reads" => Reads!WholeOrNothing
  /\ part = "download" => Download!CompleteOrNothing

(* FuzzCampaign: a report that passed means that every target ran.         *)
CampaignSound == part = "campaign" => Campaign!CampaignSound

(* Every job, read, download and campaign ends, whatever GitHub, gh and    *)
(* the targets do.                                                         *)
Ends ==
  <>(\/ part = "job" /\ pc \in Ended
     \/ part = "reads" /\ label \in Reads!Ended
     \/ part = "download" /\ label \in Download!Ended
     \/ part = "campaign" /\ label = "ended" /\ report # "written")
=============================================================================
