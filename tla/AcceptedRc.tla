---------------------------- MODULE AcceptedRc ----------------------------
(***************************************************************************)
(* The four jobs that act on an accepted release candidate: the promotion  *)
(* of its bytes (release_control.py, promote), the final rebuild           *)
(* (release_versioned.py, publish_versioned and verified_rc), the runner   *)
(* preflight (runner_preflight.py, verify_context and fetch_receipt) and   *)
(* the reuse of a published candidate by a nightly (scheduled_reuse).      *)
(*                                                                         *)
(* Each is a sequence of requests to GitHub that ends in an acceptance or  *)
(* a refusal, before anything is written. Between any two requests others  *)
(* may move the tag, edit the release or its assets, re-run the source     *)
(* run, remove the reviewers or push to the default branch.                *)
(***************************************************************************)
EXTENDS Integers, Sequences, FiniteSets

CONSTANTS
  Payload,   \* names of the assets the manifest declares
  Receipt,   \* the one a preflight and a final build read
  Manifest,  \* the name of the manifest asset
  Stray,     \* a name the manifest does not declare
  Wait,      \* EXECUTING_RUN_WAIT_SECONDS, in polling intervals
  MaxEdits   \* bound: changes by others

ASSUME AcceptedRcAssumption ==
  /\ Receipt \in Payload
  /\ {Manifest, Stray} \cap Payload = {} /\ Manifest # Stray
  /\ Wait \in Nat \ {0} /\ MaxEdits \in Nat

Kinds   == {"promote", "final", "preflight", "reuse"}
Edits   == 0..MaxEdits
(* An asset: its ID, and whether its bytes are those the evidence names.   *)
(* GitHub never changes the bytes of an ID.                                *)
Asset   == [name : Payload \cup {Manifest, Stray}, id : Edits, genuine : BOOLEAN]
Release == [revision : Edits, public : BOOLEAN]
Tags    == {"source", "moved"}
Nothing == [tag |-> "source", release |-> [revision |-> 0, public |-> FALSE], assets |-> {}]

VARIABLES
  kind,      \* which job this is
  pc,        \* the wait, the checks, or the outcome
  at,        \* the check of Checks(kind) it is at
  clock,     \* polling intervals since the wait began
  rc,        \* the candidate: its tag, its release and its assets
  rebuild,   \* its policy's promotion is final-build
  sourceRun, \* its run: "accepted" as the manifest says, or "rerun"
  evidence,  \* the run's evidence artifact has not expired
  reviewers, \* the release environment has reviewers
  head,      \* the default branch, relative to the candidate's source
  own,       \* what GitHub reports of this job's own run and gate
  seen,      \* the candidate as the first snapshot read it
  manifest,  \* the manifest in hand: "none", "genuine" or "forged"
  bytes,     \* assets whose bytes, or digests, were compared
  edits,     \* changes by others so far
  void       \* history: what was revoked when the last byte was read

job    == <<pc, at, clock, seen, manifest, bytes, void>>
github == <<rc, sourceRun, evidence, reviewers, head, own, edits>>
vars   == <<kind, rebuild, job, github>>

(* The checks of each job, in the order of its requests. The ledger's own  *)
(* checks and writes between them are VersionLedger's.                     *)
PromoteChecks ==
  <<"reviewers", "tag", "release", "assets", "manifest", "sourceRun", "ancestry", "evidence",
    "inventory", "workflow", "payload", "tag", "release", "assets", "sourceRun", "reviewers",
    "workflow">>

(* From its tag to its second assets, the final build is in verified_rc.   *)
FinalChecks ==
  <<"reviewers", "tag", "release", "assets", "manifest", "sourceRun", "ancestry", "evidence",
    "inventory", "payload", "tag", "release", "assets", "toolchain", "reviewers", "workflow">>

PreflightChecks ==
  <<"ownRun", "head", "tag", "release", "assets", "manifest", "sourceRun", "evidence",
    "inventory", "receipt", "tag", "release", "assets">>

ReuseChecks ==
  <<"head", "tag", "release", "assets", "manifest", "inventory", "digests", "sourceRun",
    "evidence", "tag", "release", "assets", "head">>

Checks(k) ==
  CASE k = "promote"   -> PromoteChecks
    [] k = "final"     -> FinalChecks
    [] k = "preflight" -> PreflightChecks
    [] k = "reuse"     -> ReuseChecks

(* The check that reads the last byte.                                     *)
LastRead(k) ==
  CASE k \in {"promote", "final"} -> "payload"
    [] k = "preflight"            -> "receipt"
    [] k = "reuse"                -> "evidence"

Waiting == {"run", "gate", "ready", "sleep"}
Ended   == {"accepted", "refused"}
Gated   == kind \in {"final", "reuse"}

Init ==
  /\ kind \in Kinds
  /\ rebuild \in BOOLEAN
  /\ pc = IF kind = "preflight" THEN "checks" ELSE "run"
  /\ at = 1 /\ clock = 0
  /\ rc = [tag |-> "source", release |-> [revision |-> 0, public |-> TRUE],
           assets |-> [name : Payload \cup {Manifest}, id : {0}, genuine : {TRUE}]]
  /\ sourceRun = "accepted" /\ evidence = TRUE /\ reviewers = TRUE
  /\ head \in {"source", "ahead"}
  /\ own \in [run : {"queued", "in_progress"}, gate : {"pending", "success"}, stale : BOOLEAN]
  /\ ~Gated => own.gate = "pending" /\ ~own.stale
  /\ seen = Nothing /\ manifest = "none" /\ bytes = {}
  /\ edits = 0 /\ void = {}

-----------------------------------------------------------------------------
(* wait_for_executing_run: poll the run, then the gate, until both are     *)
(* ready or the deadline has passed.                                       *)

Goto(label) == pc' = label /\ UNCHANGED <<at, seen, manifest, bytes, void>>

(* check_execution and the run's provenance: every answer names this very  *)
(* execution, and none that has ended is waited for.                       *)
Active == own.run # "ended"

(* The first response that reports a running run; without a gate to wait   *)
(* for, it decides.                                                        *)
PollRun ==
  /\ pc = "run" /\ Active
  /\ Goto(CASE own.run = "queued" -> "sleep" [] Gated -> "gate" [] OTHER -> "ready")
  /\ UNCHANGED <<kind, rebuild, clock, github>>

(* require_current_attempt_jobs: in a re-run, a success whose job or steps *)
(* ran before this attempt began, a clone, is refused.                     *)
FreshSuccess == own.gate = "success" /\ ~own.stale

(* release_gate_ready, where an unfinished gate is waited for.             *)
PollGate ==
  /\ pc = "gate"
  /\ \/ own.gate = "pending" /\ Goto("sleep")
     \/ FreshSuccess /\ Goto("ready")
  /\ UNCHANGED <<kind, rebuild, clock, github>>

(* Plausible bug: an answer that came after the deadline still counts.     *)
ReadyLate ==
  /\ pc = "ready" /\ Goto("checks")
  /\ UNCHANGED <<kind, rebuild, clock, github>>

Ready ==
  /\ pc = "ready" /\ clock < Wait /\ Goto("checks")
  /\ UNCHANGED <<kind, rebuild, clock, github>>

(* Plausible bug: the deadline is taken anew for every poll.               *)
SleepRenewed ==
  /\ pc = "sleep" /\ clock < Wait
  /\ clock' = 0 /\ Goto("run")
  /\ UNCHANGED <<kind, rebuild, github>>

Sleep ==
  /\ pc = "sleep" /\ clock < Wait
  /\ clock' = clock + 1 /\ Goto("run")
  /\ UNCHANGED <<kind, rebuild, github>>

(* An answer takes its time.                                               *)
SlowAnswer ==
  /\ pc \in Waiting \ {"sleep"} /\ clock < Wait
  /\ clock' = clock + 1
  /\ UNCHANGED <<kind, rebuild, pc, at, seen, manifest, bytes, void, github>>

-----------------------------------------------------------------------------
(* The checks, one request per action.                                     *)

Doing(check) == pc = "checks" /\ Checks(kind)[at] = check
Before(check) == \A i \in 1..at - 1 : Checks(kind)[i] # check
Named(assets, names) == {a \in assets : a.name \in names}
SeenNames == {a.name : a \in seen.assets}

(* What a job relies on, and whether it still holds. A piece of the        *)
(* candidate holds while it is what the first snapshot read.               *)
Needed(k) ==
  {"tag", "release", "assets"} \cup
  CASE k = "promote"   -> {"sourceRun", "reviewers", "workflow"}
    [] k = "final"     -> {"reviewers", "workflow"}
    [] k = "preflight" -> {}
    [] k = "reuse"     -> {"head"}

Holds(what) ==
  CASE what = "sourceRun" -> sourceRun = "accepted"
    [] what = "reviewers" -> reviewers
    [] what = "workflow"  -> head # "workflows"
    [] what = "head"      -> head = "source"
    [] OTHER              -> rc[what] = seen[what]

Revoked == {w \in Needed(kind) : ~Holds(w)}

(* Plausible bug: the check after the last one is taken for a check.       *)
AdvancePastEnd ==
  /\ at' = at + 1
  /\ pc' = IF at > Len(Checks(kind)) THEN "accepted" ELSE "checks"
  /\ void' = IF Doing(LastRead(kind)) THEN Revoked ELSE void

Advance ==
  /\ at' = IF at = Len(Checks(kind)) THEN at ELSE at + 1
  /\ pc' = IF at = Len(Checks(kind)) THEN "accepted" ELSE "checks"
  /\ void' = IF Doing(LastRead(kind)) THEN Revoked ELSE void

Keep == UNCHANGED <<kind, rebuild, clock, github>>

(* Plausible bug: the second snapshot replaces the first.                  *)
ReadPieceAnew(piece) ==
  /\ Doing(piece)
  /\ seen' = [seen EXCEPT ![piece] = rc[piece]]
  /\ Advance /\ UNCHANGED <<manifest, bytes>> /\ Keep

(* snapshot_identity: the ID, the update time and every field of an asset  *)
(* count, its download counter does not.                                   *)
Same(piece) == rc[piece] = seen[piece]

(* published_plan_snapshot and release_snapshot: a release is published.   *)
Published(piece) == piece = "release" => rc.release.public

(* One request of a snapshot; the second time, the piece is what the first *)
(* snapshot read.                                                          *)
ReadPiece(piece) ==
  /\ Doing(piece)
  /\ Published(piece)
  /\ IF Before(piece) THEN seen' = [seen EXCEPT ![piece] = rc[piece]]
                      ELSE Same(piece) /\ UNCHANGED seen
  /\ Advance /\ UNCHANGED <<manifest, bytes>> /\ Keep

(* An RC is promoted as it is, or rebuilt: never what its policy at the    *)
(* source commit does not say.                                             *)
Permitted == kind # "reuse" => rebuild = (kind # "promote")

(* The manifest is downloaded by its ID of the snapshot and parsed. A      *)
(* forged one may declare anything; the preflight's reservation holds the  *)
(* digest of the genuine one.                                              *)
ReadManifest ==
  /\ Doing("manifest") /\ seen.tag = "source"
  /\ \E a \in Named(seen.assets, {Manifest}) :
        /\ a \in rc.assets
        /\ kind = "preflight" => a.genuine
        /\ manifest' = IF a.genuine THEN "genuine" ELSE "forged"
  /\ Permitted
  /\ Advance /\ UNCHANGED <<seen, bytes>> /\ Keep

(* validate_run_provenance: the manifest's attempt is still the latest.    *)
LatestAttempt == sourceRun = "accepted"

(* validate_run: the attempt is completed and successful, and so are its   *)
(* gates (validate_validation_run).                                        *)
CheckSourceRun ==
  /\ Doing("sourceRun") /\ LatestAttempt
  /\ Advance /\ UNCHANGED <<seen, manifest, bytes>> /\ Keep

CheckAncestry ==
  /\ Doing("ancestry") /\ head # "diverged"
  /\ Advance /\ UNCHANGED <<seen, manifest, bytes>> /\ Keep

(* Plausible bug: the artifact has to exist, not to equal the manifest.    *)
VerifyEvidencePresent ==
  /\ Doing("evidence") /\ evidence
  /\ Advance /\ UNCHANGED <<seen, manifest, bytes>> /\ Keep

(* verify_evidence: the run's unexpired artifact is this manifest.         *)
VerifyEvidence ==
  /\ Doing("evidence") /\ evidence /\ manifest = "genuine"
  /\ Advance /\ UNCHANGED <<seen, manifest, bytes>> /\ Keep

(* The snapshot names what the manifest declares.                          *)
CheckInventory ==
  /\ Doing("inventory")
  /\ manifest = "genuine" => SeenNames = Payload \cup {Manifest}
  /\ Advance /\ UNCHANGED <<seen, manifest, bytes>> /\ Keep

Matches(a) == manifest = "genuine" => a.genuine

(* One asset is downloaded by its ID of the snapshot and hashed.           *)
VerifyAsset ==
  /\ Doing("payload")
  /\ \E a \in Named(seen.assets, Payload \cup {Stray}) \ bytes :
        a \in rc.assets /\ Matches(a) /\ bytes' = bytes \cup {a}
  /\ IF Named(seen.assets, Payload \cup {Stray}) = bytes'
     THEN Advance ELSE UNCHANGED <<pc, at, void>>
  /\ UNCHANGED <<seen, manifest>> /\ Keep

(* The nightly compares the digests GitHub lists, and downloads nothing.   *)
CompareDigests ==
  /\ Doing("digests")
  /\ bytes' = Named(seen.assets, Payload \cup {Stray})
  /\ \A a \in bytes' : Matches(a)
  /\ Advance /\ UNCHANGED <<seen, manifest>> /\ Keep

(* The preflight reads one receipt by its ID of the snapshot.              *)
VerifyReceipt ==
  /\ Doing("receipt")
  /\ \E a \in Named(seen.assets, {Receipt}) :
        a \in rc.assets /\ Matches(a) /\ bytes' = bytes \cup {a}
  /\ Advance /\ UNCHANGED <<seen, manifest>> /\ Keep

(* verify_final_toolchains: the receipt is read by the ID a new snapshot   *)
(* lists.                                                                  *)
VerifyToolchain ==
  /\ Doing("toolchain") /\ rc.release.public
  /\ \E a \in Named(rc.assets, {Receipt}) : Matches(a) /\ bytes' = bytes \cup {a}
  /\ Advance /\ UNCHANGED <<seen, manifest>> /\ Keep

RequireReviewers ==
  /\ Doing("reviewers") /\ reviewers
  /\ Advance /\ UNCHANGED <<seen, manifest, bytes>> /\ Keep

(* workflow_tree: the default branch has the source's workflows.           *)
SameWorkflows == head # "workflows"

CheckWorkflow ==
  /\ Doing("workflow") /\ SameWorkflows
  /\ Advance /\ UNCHANGED <<seen, manifest, bytes>> /\ Keep

(* The preflight reads its own run once, and never waits for it.           *)
CheckOwnRun ==
  /\ Doing("ownRun") /\ own.run = "in_progress"
  /\ Advance /\ UNCHANGED <<seen, manifest, bytes>> /\ Keep

CheckHead ==
  /\ Doing("head") /\ head = "source"
  /\ Advance /\ UNCHANGED <<seen, manifest, bytes>> /\ Keep

(* A require fails, or a request is refused or times out.                  *)
Refuse ==
  /\ pc \notin Ended /\ pc' = "refused"
  /\ UNCHANGED <<at, seen, manifest, bytes, void>> /\ Keep

Job ==
  \/ PollRun \/ PollGate \/ Ready \/ Sleep
  \/ \E piece \in {"tag", "release", "assets"} : ReadPiece(piece)
  \/ ReadManifest \/ CheckSourceRun \/ CheckAncestry \/ VerifyEvidence
  \/ CheckInventory \/ VerifyAsset \/ CompareDigests \/ VerifyReceipt
  \/ VerifyToolchain \/ RequireReviewers \/ CheckWorkflow \/ CheckOwnRun \/ CheckHead
  \/ Refuse

-----------------------------------------------------------------------------
(* Others.                                                                 *)

(* GitHub's reports of this job's own run catch up, or it is cancelled.    *)
Report ==
  /\ pc \in Waiting \/ (kind = "preflight" /\ Doing("ownRun"))
  /\ \/ own.run = "queued" /\ own' = [own EXCEPT !.run = "in_progress"]
     \/ own.run # "ended" /\ own' = [own EXCEPT !.run = "ended"]
     \/ Gated /\ own.gate = "pending" /\ own' \in {[own EXCEPT !.gate = g] : g \in {"success", "failure"}}
  /\ UNCHANGED <<kind, rebuild, job, rc, sourceRun, evidence, reviewers, head, edits>>

(* A change during the wait is one before the first check. What is revoked *)
(* stays so for the history until it holds again.                          *)
MayEdit == pc = "checks" /\ edits < MaxEdits
Edited  ==
  /\ edits' = edits + 1
  /\ UNCHANGED <<kind, rebuild, pc, at, clock, seen, manifest, bytes, own>>
  /\ void' = {w \in void : ~Holds(w)'}

MoveTag ==
  /\ MayEdit /\ \E t \in Tags \ {rc.tag} : rc' = [rc EXCEPT !.tag = t]
  /\ UNCHANGED <<sourceRun, evidence, reviewers, head>> /\ Edited

EditRelease ==
  /\ MayEdit
  /\ \E p \in BOOLEAN :
        rc' = [rc EXCEPT !.release = [revision |-> edits + 1, public |-> p]]
  /\ UNCHANGED <<sourceRun, evidence, reviewers, head>> /\ Edited

(* An asset is deleted, uploaded, or both under the same name.             *)
New == [name : Payload \cup {Manifest}, id : {edits + 1}, genuine : BOOLEAN]
       \cup {[name |-> Stray, id |-> edits + 1, genuine |-> FALSE]}

EditAssets ==
  /\ MayEdit
  /\ \E gone \in {{}} \cup {{a} : a \in rc.assets}, new \in {{}} \cup {{a} : a \in New} :
        /\ gone \cup new # {}
        /\ \A a \in new : \A b \in rc.assets \ gone : a.name # b.name
        /\ rc' = [rc EXCEPT !.assets = (@ \ gone) \cup new]
  /\ UNCHANGED <<sourceRun, evidence, reviewers, head>> /\ Edited

RerunSource ==
  /\ MayEdit /\ sourceRun' = "rerun"
  /\ UNCHANGED <<rc, evidence, reviewers, head>> /\ Edited

ExpireEvidence ==
  /\ MayEdit /\ evidence' = FALSE
  /\ UNCHANGED <<rc, sourceRun, reviewers, head>> /\ Edited

EditReviewers ==
  /\ MayEdit /\ reviewers' = ~reviewers
  /\ UNCHANGED <<rc, sourceRun, evidence, head>> /\ Edited

(* A push: to a descendant with the source's workflows or with others, or  *)
(* forced, so that the source is no ancestor any more.                     *)
Push ==
  /\ MayEdit /\ head' \in {"ahead", "workflows", "diverged"}
  /\ UNCHANGED <<rc, sourceRun, evidence, reviewers>> /\ Edited

Others == Report \/ MoveTag \/ EditRelease \/ EditAssets \/ RerunSource \/ ExpireEvidence
          \/ EditReviewers \/ Push

Next == Job \/ SlowAnswer \/ Others

(* Every request is bounded by a timeout (_read_get, download_asset), so   *)
(* the job always takes its next step.                                     *)
Spec == Init /\ [][Next]_vars /\ WF_vars(Job)

-----------------------------------------------------------------------------
(* Properties.                                                             *)

TypeOK ==
  /\ kind \in Kinds /\ rebuild \in BOOLEAN
  /\ pc \in Waiting \cup {"checks"} \cup Ended
  /\ at \in 1..Len(Checks(kind))
  /\ clock \in 0..Wait
  /\ rc \in [tag : Tags, release : Release, assets : SUBSET Asset]
  /\ seen \in [tag : Tags, release : Release, assets : SUBSET Asset]
  /\ sourceRun \in {"accepted", "rerun"}
  /\ evidence \in BOOLEAN /\ reviewers \in BOOLEAN
  /\ head \in {"source", "ahead", "workflows", "diverged"}
  /\ own \in [run : {"queued", "in_progress", "ended"},
              gate : {"pending", "success", "failure"}, stale : BOOLEAN]
  /\ manifest \in {"none", "genuine", "forged"}
  /\ bytes \subseteq Asset
  /\ edits \in Edits /\ void \subseteq Needed(kind)

(* Whatever is done to the assets of the release, and whenever, a job that *)
(* accepts the candidate compared bytes of the source run only: those of   *)
(* every payload, and for a preflight those of its receipt. Candidate and  *)
(* manifest forged together do not pass.                                   *)
AcceptsGenuine ==
  pc = "accepted" =>
    /\ manifest = "genuine"
    /\ \A a \in bytes : a.genuine
    /\ (IF kind = "preflight" THEN {Receipt} ELSE Payload) \subseteq {a.name : a \in bytes}

(* No job accepts a candidate after what it relies on was revoked: a tag,  *)
(* a release or an asset that is not the one the first snapshot read, a    *)
(* source run, reviewers, a branch or workflows that did not hold any more *)
(* when the last byte was read, and were not restored later.               *)
AcceptsUnrevoked == pc = "accepted" => void = {}

(* A job leaves the wait only before its deadline, however late an answer  *)
(* comes, and one that waits for the Release gate only on a success of its *)
(* own attempt.                                                            *)
ReadyInTime ==
  pc = "checks" /\ kind # "preflight" =>
    clock < Wait /\ (Gated => own.gate = "success" /\ ~own.stale)

(* Whatever GitHub reports, and if it never reports anything new, the job  *)
(* ends: no wait outlives its deadline.                                    *)
Decides == <>(pc \in Ended)
=============================================================================
