---------------------------- MODULE VersionSync ----------------------------
(***************************************************************************)
(* One build target (version_plan.py sync, stage_release_assets.py,        *)
(* version_receipt.py): the frozen plan's version is written into the      *)
(* declared files of a checkout, the packages are built, and they are      *)
(* staged with a receipt of the inputs they were built from.               *)
(*                                                                         *)
(* The files are read and replaced one at a time, while somebody edits     *)
(* them; the job may fail or be killed at any step and be run again, in    *)
(* the same checkout or in a fresh one.                                    *)
(***************************************************************************)
EXTENDS Integers, FiniteSets

CONSTANTS
  Files,     \* declared version inputs
  NoFile,
  MaxEdits,  \* bound: edits by others
  MaxFaults  \* bound: failures and kills

(* What the parameters must be; the instances assume it.                   *)
VersionSyncAssumption ==
  Files # {} /\ NoFile \notin Files /\ MaxEdits \in Nat /\ MaxFaults \in Nat

(* A file: its version fields, and the revision of everything else; 0 is   *)
(* what the commit holds, and no edit brings a revision back.              *)
Content   == [version : {"committed", "planned", "torn"}, revision : 0..MaxEdits]
Committed == [version |-> "committed", revision |-> 0]

(* The loops over the files, and the single steps between them.            *)
Loops == {"verify", "read", "recheck", "replace", "build", "check", "pin", "receipt"}
Steps == {"evidence", "mkdir"}
Ended == {"staged", "failed", "killed"}

VARIABLES
  content,  \* the files of the checkout
  pc,
  todo,     \* files the current loop has not reached
  original, \* the files as sync read them
  ready,    \* the file found unchanged, about to be replaced
  evidence, \* .release-inputs.json: what the files must be, or nothing
  built,    \* the files as the build read them
  staging,  \* the target's directory: "absent", "partial" or "complete"
  orphan,   \* history: the target's directory is what a killed run left
  late,     \* history: ready was edited after that
  lost,     \* history: files whose edit a replacement discarded, though not late
  edits, faults

sync == <<original, ready, evidence>>
hist == <<orphan, late, lost>>
vars == <<content, pc, todo, sync, built, staging, hist, edits, faults>>

NoEvidence == [f \in {} |-> Committed]

Init ==
  /\ content = [f \in Files |-> Committed]
  /\ pc = "verify" /\ todo = Files
  /\ original = content /\ ready = NoFile /\ evidence = NoEvidence
  /\ built = content /\ staging = "absent"
  /\ orphan = FALSE /\ late = FALSE /\ lost = {} /\ edits = 0 /\ faults = 0

-----------------------------------------------------------------------------
(* What each loop asks of a file.                                          *)

(* verify_checkout: nothing but the version fields differs from the        *)
(* commit, and they are the commit's or the plan's.                        *)
Declared(f) == content[f].revision = 0 /\ content[f].version # "torn"

Unchanged(f) == content[f] = original[f]

(* sync_versions --check: applying the plan changes nothing.               *)
Planned(f) == content[f].version = "planned"

(* Plausible bug: the version fields are compared, not the digest.         *)
PinnedFields(f) == f \in DOMAIN evidence /\ content[f].version = evidence[f].version

(* verify_staged_inputs and verify_current_inputs: the evidence covers the *)
(* file, and it still has the digest of the evidence.                      *)
Pinned(f) == f \in DOMAIN evidence /\ content[f] = evidence[f]

Passes(f) ==
  CASE pc = "verify"               -> Declared(f)
    [] pc \in {"recheck", "replace"} -> Unchanged(f)
    [] pc = "check"                -> Planned(f)
    [] pc \in {"pin", "receipt"}   -> Pinned(f)
    [] OTHER                       -> content[f].version # "torn"

(* Where each loop leads, and over which files the next one runs.          *)
After ==
  CASE pc = "verify"  -> "read"
    [] pc = "read"    -> "recheck"
    [] pc = "recheck" -> "replace"
    [] pc = "replace" -> "evidence"
    [] pc = "build"   -> "check"
    [] pc = "check"   -> "pin"
    [] pc = "pin"     -> "mkdir"
    [] pc = "receipt" -> "staged"

Drift == {f \in Files : original[f].version # "planned"}

(* A loop ends when no file is left; the replacements are of those that    *)
(* differ from the plan.                                                   *)
Done ==
  /\ pc \in Loops /\ todo = {}
  /\ pc' = After
  /\ todo' = IF pc = "recheck" THEN Drift ELSE Files
  /\ staging' = IF pc = "receipt" THEN "complete" ELSE staging
  /\ UNCHANGED <<content, sync, built, hist, edits, faults>>

-----------------------------------------------------------------------------
(* sync_versions.                                                          *)

CheckFile(f) ==
  /\ pc \in {"verify", "recheck", "check", "pin", "receipt"} /\ f \in todo /\ Passes(f)
  /\ todo' = todo \ {f}
  /\ UNCHANGED <<content, pc, sync, built, staging, hist, edits, faults>>

ReadFile(f) ==
  /\ pc = "read" /\ f \in todo /\ Passes(f)
  /\ original' = [original EXCEPT ![f] = content[f]]
  /\ todo' = todo \ {f}
  /\ UNCHANGED <<content, pc, ready, evidence, built, staging, hist, edits, faults>>

(* Plausible bug: the check before the first replacement is enough.        *)
CompareNothing(f) ==
  /\ pc = "replace" /\ f \in todo /\ ready = NoFile
  /\ ready' = f
  /\ UNCHANGED <<content, pc, todo, original, evidence, built, staging, hist, edits, faults>>

(* _apply_version_edits compares each file once more ...                   *)
Compare(f) ==
  /\ pc = "replace" /\ f \in todo /\ ready = NoFile /\ Passes(f)
  /\ ready' = f
  /\ UNCHANGED <<content, pc, todo, original, evidence, built, staging, hist, edits, faults>>

(* Plausible bug: the file is written in place.                            *)
WriteInPlace ==
  /\ pc = "replace" /\ ready # NoFile
  /\ IF content[ready].version = "torn"
     THEN /\ content' = [content EXCEPT ![ready].version = "planned"]
          /\ todo' = todo \ {ready} /\ ready' = NoFile
     ELSE /\ content' = [content EXCEPT ![ready].version = "torn"]
          /\ UNCHANGED <<todo, ready>>
  /\ UNCHANGED <<pc, original, evidence, built, staging, hist, edits, faults>>

(* ... and renames the prepared file over it.                              *)
Replace ==
  /\ pc = "replace" /\ ready # NoFile
  /\ content' = [content EXCEPT ![ready] = [original[ready] EXCEPT !.version = "planned"]]
  /\ lost' = IF content[ready] # original[ready] /\ ~late THEN lost \cup {ready} ELSE lost
  /\ todo' = todo \ {ready} /\ ready' = NoFile /\ late' = FALSE
  /\ UNCHANGED <<pc, original, evidence, built, staging, orphan, edits, faults>>

(* _write_input_evidence, atomically.                                      *)
WriteEvidence ==
  /\ pc = "evidence" /\ pc' = "build"
  /\ evidence' = [f \in Files |-> [original[f] EXCEPT !.version = "planned"]]
  /\ UNCHANGED <<content, todo, original, ready, built, staging, hist, edits, faults>>

-----------------------------------------------------------------------------
(* The build and the staging.                                              *)

Build(f) ==
  /\ pc = "build" /\ f \in todo
  /\ built' = [built EXCEPT ![f] = content[f]]
  /\ todo' = todo \ {f}
  /\ UNCHANGED <<content, pc, sync, staging, hist, edits, faults>>

(* stage: a new directory, never one that exists; the payloads are copied  *)
(* into it.                                                                *)
Mkdir ==
  /\ pc = "mkdir" /\ staging = "absent"
  /\ pc' = "receipt" /\ staging' = "partial"
  /\ UNCHANGED <<content, todo, sync, built, hist, edits, faults>>

(* Plausible bug: the directory is removed after some exceptions only.     *)
CleanupForgotten(label) ==
  /\ pc' = label /\ UNCHANGED staging

(* A failure, an interrupt included, removes the directory it made.        *)
Cleanup(label) ==
  /\ pc' = label /\ staging' = IF pc = "receipt" /\ label = "failed" THEN "absent" ELSE staging

Refuse ==
  /\ \/ pc \in Loops /\ \E f \in todo : ~Passes(f) /\ (pc = "replace" => ready = NoFile)
     \/ pc = "mkdir" /\ staging # "absent"
  /\ Cleanup("failed")
  /\ UNCHANGED <<content, todo, sync, built, hist, edits, faults>>

(* Any call fails, or the process is killed.                               *)
Fault ==
  /\ pc \notin Ended /\ faults < MaxFaults /\ faults' = faults + 1
  /\ \E label \in {"failed", "killed"} :
       /\ Cleanup(label)
       /\ orphan' = (orphan \/ (pc = "receipt" /\ label = "killed"))
  /\ ready' = NoFile /\ late' = FALSE
  /\ UNCHANGED <<content, todo, original, evidence, built, lost, edits>>

-----------------------------------------------------------------------------
(* Others.                                                                 *)

(* The job is run again in the same checkout.                              *)
RerunHere ==
  /\ pc \in {"failed", "killed"} /\ pc' = "verify" /\ todo' = Files
  /\ UNCHANGED <<content, sync, built, staging, hist, edits, faults>>

(* The job is run again on a new runner.                                   *)
RerunFresh ==
  /\ pc \in {"failed", "killed"} /\ pc' = "verify" /\ todo' = Files
  /\ content' = [f \in Files |-> Committed]
  /\ evidence' = NoEvidence /\ staging' = "absent"
  /\ orphan' = FALSE
  /\ UNCHANGED <<original, ready, built, late, lost, edits, faults>>

EditFile(f) ==
  /\ pc \notin Ended /\ edits < MaxEdits /\ edits' = edits + 1
  /\ content' = [content EXCEPT ![f].revision = edits + 1]
  /\ late' = (late \/ f = ready)
  /\ UNCHANGED <<pc, todo, sync, built, staging, orphan, lost, faults>>

Step ==
  \/ Done \/ Replace \/ WriteEvidence \/ Mkdir \/ Refuse
  \/ \E f \in Files : CheckFile(f) \/ ReadFile(f) \/ Compare(f) \/ Build(f)

Next == Step \/ Fault \/ RerunHere \/ RerunFresh \/ \E f \in Files : EditFile(f)

Spec == Init /\ [][Next]_vars

-----------------------------------------------------------------------------
(* Properties.                                                             *)

TypeOK ==
  /\ content \in [Files -> Content] /\ original \in [Files -> Content]
  /\ built \in [Files -> Content]
  /\ evidence = NoEvidence \/ evidence \in [Files -> Content]
  /\ pc \in Loops \cup Steps \cup Ended
  /\ todo \subseteq Files /\ late \in BOOLEAN /\ lost \subseteq Files
  /\ ready \in Files \cup {NoFile}
  /\ staging \in {"absent", "partial", "complete"} /\ orphan \in BOOLEAN
  /\ edits \in 0..MaxEdits /\ faults \in 0..MaxFaults

(* An edit somebody makes before sync compares a file for the last time is *)
(* never overwritten: the sync fails instead.                              *)
EditsKept == lost = {}

(* However far a run came before it failed or was killed, and as long as   *)
(* nobody else edits, the next one in the same checkout is not refused by  *)
(* verify_checkout.                                                        *)
Resumable == edits = 0 => \A f \in Files : Declared(f)

(* What is staged was built from the very bytes its receipt lists, each    *)
(* with the plan's version, whoever edited the checkout and whenever,      *)
(* unless an edit was taken back before the next look, which no digest     *)
(* tells from no edit and the model leaves out.                            *)
BuiltAsReceipted ==
  pc = "staged" =>
    \A f \in Files : f \in DOMAIN evidence /\ built[f] = evidence[f]
                     /\ built[f].version = "planned"

(* A directory without a receipt is left by a kill only, and no later run  *)
(* completes one that another run began.                                   *)
CleanTarget ==
  /\ staging = "partial" => pc = "receipt" \/ orphan
  /\ staging = "complete" => ~orphan
=============================================================================
