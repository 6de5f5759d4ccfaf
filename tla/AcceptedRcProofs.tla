-------------------------- MODULE AcceptedRcProofs --------------------------
(***************************************************************************)
(* Proofs about AcceptedRc, for any assets, any wait and any number of     *)
(* changes by others.                                                      *)
(***************************************************************************)
EXTENDS AcceptedRc, TLAPS

Pieces == {"tag", "release", "assets"}

(* The check that reads the payload, or the digests, or the one receipt.   *)
Reading(k) ==
  CASE k \in {"promote", "final"} -> "payload"
    [] k = "preflight"            -> "receipt"
    [] k = "reuse"                -> "digests"

-----------------------------------------------------------------------------
(* The order of the checks.                                                *)

(* Lists whose facts hold of each job hold of every job.                   *)
LEMMA ChecksAre ==
  /\ Checks("promote") = PromoteChecks /\ Checks("final") = FinalChecks
  /\ Checks("preflight") = PreflightChecks /\ Checks("reuse") = ReuseChecks
  /\ LastRead("promote") = "payload" /\ LastRead("final") = "payload"
  /\ LastRead("preflight") = "receipt" /\ LastRead("reuse") = "evidence"
  /\ Reading("promote") = "payload" /\ Reading("final") = "payload"
  /\ Reading("preflight") = "receipt" /\ Reading("reuse") = "digests"
  BY DEF Checks, LastRead, Reading

(* The manifest is read once, after the first snapshot and before anything *)
(* is compared with it.                                                    *)
Compared == {"evidence", "inventory", "payload", "digests", "receipt", "toolchain"}

ManifestOnce(s) ==
  \A j \in 1..Len(s) : s[j] = "manifest" =>
    j < Len(s) /\ \A i \in 1..j - 1 : s[i] \notin Compared \cup {"manifest"}

ManifestFirst(s) ==
  \A j \in 1..Len(s) : s[j] \in Compared => \E i \in 1..j - 1 : s[i] = "manifest"

SnapshotFirst(s) ==
  \A j \in 1..Len(s) : s[j] \in Compared => \A p \in Pieces : \E i \in 1..j - 1 : s[i] = p

(* The last byte is read once, and whatever a job relies on is checked     *)
(* after it; the other comparisons precede the last check.                 *)
LastOnce(s, last) ==
  /\ last \in Compared
  /\ \A j \in 1..Len(s) : s[j] = last => j < Len(s) /\ \A i \in 1..j - 1 : s[i] # last

Recheck(s, last, needed) ==
  \A w \in needed : \E i \in 1..Len(s) : s[i] = w /\ \E j \in 1..i - 1 : s[j] = last

Complete(s, reading) ==
  /\ Len(s) \in Nat /\ Len(s) > 1
  /\ reading = "receipt" => \A i \in 1..Len(s) : s[i] # "digests"
  /\ \A c \in {"manifest", "evidence", "inventory", reading} : \E i \in 1..Len(s) - 1 : s[i] = c

Ordered(s, last, reading, needed) ==
  /\ ManifestOnce(s) /\ ManifestFirst(s) /\ SnapshotFirst(s)
  /\ LastOnce(s, last) /\ Recheck(s, last, needed) /\ Complete(s, reading)

LEMMA PromoteOrdered ==
  Ordered(PromoteChecks, "payload", "payload", Pieces \cup {"sourceRun", "reviewers", "workflow"})
<1> USE DEF PromoteChecks, Compared, Pieces
<1>1. ManifestOnce(PromoteChecks)
  BY DEF ManifestOnce
<1>2. ManifestFirst(PromoteChecks)
  BY DEF ManifestFirst
<1>3. SnapshotFirst(PromoteChecks)
  BY DEF SnapshotFirst
<1>4. LastOnce(PromoteChecks, "payload")
  BY DEF LastOnce
<1>5. Recheck(PromoteChecks, "payload", Pieces \cup {"sourceRun", "reviewers", "workflow"})
  BY DEF Recheck
<1>6. Complete(PromoteChecks, "payload")
  BY DEF Complete
<1>7. QED
  BY <1>1, <1>2, <1>3, <1>4, <1>5, <1>6 DEF Ordered

LEMMA FinalOrdered ==
  Ordered(FinalChecks, "payload", "payload", Pieces \cup {"reviewers", "workflow"})
<1> USE DEF FinalChecks, Compared, Pieces
<1>1. ManifestOnce(FinalChecks)
  BY DEF ManifestOnce
<1>2. ManifestFirst(FinalChecks)
  BY DEF ManifestFirst
<1>3. SnapshotFirst(FinalChecks)
  BY DEF SnapshotFirst
<1>4. LastOnce(FinalChecks, "payload")
  BY DEF LastOnce
<1>5. Recheck(FinalChecks, "payload", Pieces \cup {"reviewers", "workflow"})
  BY DEF Recheck
<1>6. Complete(FinalChecks, "payload")
  BY DEF Complete
<1>7. QED
  BY <1>1, <1>2, <1>3, <1>4, <1>5, <1>6 DEF Ordered

LEMMA PreflightOrdered ==
  Ordered(PreflightChecks, "receipt", "receipt", Pieces \cup {})
<1> USE DEF PreflightChecks, Compared, Pieces
<1>1. ManifestOnce(PreflightChecks)
  BY DEF ManifestOnce
<1>2. ManifestFirst(PreflightChecks)
  BY DEF ManifestFirst
<1>3. SnapshotFirst(PreflightChecks)
  BY DEF SnapshotFirst
<1>4. LastOnce(PreflightChecks, "receipt")
  BY DEF LastOnce
<1>5. Recheck(PreflightChecks, "receipt", Pieces \cup {})
  BY DEF Recheck
<1>6. Complete(PreflightChecks, "receipt")
  BY DEF Complete
<1>7. QED
  BY <1>1, <1>2, <1>3, <1>4, <1>5, <1>6 DEF Ordered

LEMMA ReuseOrdered ==
  Ordered(ReuseChecks, "evidence", "digests", Pieces \cup {"head"})
<1> USE DEF ReuseChecks, Compared, Pieces
<1>1. ManifestOnce(ReuseChecks)
  BY DEF ManifestOnce
<1>2. ManifestFirst(ReuseChecks)
  BY DEF ManifestFirst
<1>3. SnapshotFirst(ReuseChecks)
  BY DEF SnapshotFirst
<1>4. LastOnce(ReuseChecks, "evidence")
  BY DEF LastOnce
<1>5. Recheck(ReuseChecks, "evidence", Pieces \cup {"head"})
  BY DEF Recheck
<1>6. Complete(ReuseChecks, "digests")
  BY DEF Complete
<1>7. QED
  BY <1>1, <1>2, <1>3, <1>4, <1>5, <1>6 DEF Ordered

LEMMA NeededAre ==
  /\ Needed("promote") = Pieces \cup {"sourceRun", "reviewers", "workflow"}
  /\ Needed("final") = Pieces \cup {"reviewers", "workflow"}
  /\ Needed("preflight") = Pieces \cup {}
  /\ Needed("reuse") = Pieces \cup {"head"}
  BY DEF Needed, Pieces

LEMMA Order == \A k \in Kinds : Ordered(Checks(k), LastRead(k), Reading(k), Needed(k))
<1>1. Ordered(Checks("promote"), LastRead("promote"), Reading("promote"), Needed("promote"))
  BY ChecksAre, NeededAre, PromoteOrdered
<1>2. Ordered(Checks("final"), LastRead("final"), Reading("final"), Needed("final"))
  BY ChecksAre, NeededAre, FinalOrdered
<1>3. Ordered(Checks("preflight"), LastRead("preflight"), Reading("preflight"), Needed("preflight"))
  BY ChecksAre, NeededAre, PreflightOrdered
<1>4. Ordered(Checks("reuse"), LastRead("reuse"), Reading("reuse"), Needed("reuse"))
  BY ChecksAre, NeededAre, ReuseOrdered
<1>5. QED
  BY <1>1, <1>2, <1>3, <1>4 DEF Kinds

-----------------------------------------------------------------------------
(* What a step of the job does.                                            *)

Done(check) == \E i \in 1..at - 1 : Checks(kind)[i] = check

(* Every asset the manifest could declare was read, or the one receipt.    *)
Covered(assets) ==
  IF kind = "preflight" THEN \E a \in bytes : a.name = Receipt
  ELSE Named(assets, Payload \cup {Stray}) \subseteq bytes

(* The step of a check that passes, by what it compares and what it reads. *)
Passes(check) ==
  /\ Doing(check) /\ Advance /\ UNCHANGED <<kind, rebuild, clock, github>>
  /\ IF check \in Pieces /\ Before(check) THEN seen' = [seen EXCEPT ![check] = rc[check]]
     ELSE seen' = seen /\ (check \in Needed(kind) => Holds(check))
  /\ IF check = "manifest" THEN manifest' \in {"genuine", "forged"} ELSE manifest' = manifest
  /\ check = "evidence" => manifest = "genuine"
  /\ check = "inventory" /\ manifest = "genuine" => SeenNames = Payload \cup {Manifest}
  /\ bytes' \subseteq Asset
  /\ manifest = "genuine" => \A a \in bytes' \ bytes : a.genuine
  /\ bytes' = bytes \/ check \in Compared \ {"evidence", "inventory"}
  /\ bytes \subseteq bytes' \/ (check = "digests" /\ Named(seen.assets, Payload \cup {Stray}) \subseteq bytes')
  /\ check = Reading(kind) => Covered(seen.assets)'

(* The other steps of the job: it waits, refuses, or reads one more asset. *)
Waits ==
  /\ pc' \in Waiting \cup {"checks", "refused"} /\ clock' \in 0..Wait
  /\ pc' = "ready" /\ Gated => pc = "ready" \/ (own.gate = "success" /\ ~own.stale)
  /\ pc' = "checks" => pc = "ready" /\ clock' < Wait
  /\ UNCHANGED <<kind, rebuild, at, seen, manifest, bytes, void, github>>

ReadsOne ==
  /\ Doing("payload") /\ UNCHANGED <<kind, rebuild, pc, at, clock, seen, manifest, void, github>>
  /\ bytes \subseteq bytes' /\ bytes' \subseteq Asset
  /\ manifest = "genuine" => \A a \in bytes' \ bytes : a.genuine

LEMMA StepPiece ==
  ASSUME TypeOK, NEW piece \in Pieces, ReadPiece(piece)
  PROVE  Passes(piece)
<1>1. Doing(piece) /\ Advance /\ UNCHANGED <<kind, rebuild, clock, github>> /\ UNCHANGED <<manifest, bytes>>
  BY DEF ReadPiece, Keep
<1>2. IF Before(piece) THEN seen' = [seen EXCEPT ![piece] = rc[piece]] ELSE seen' = seen /\ Holds(piece)
  <2>1. CASE Before(piece)
    BY <2>1 DEF ReadPiece
  <2>2. CASE ~Before(piece)
    <3>1. rc[piece] = seen[piece] /\ seen' = seen
      BY <2>2 DEF ReadPiece, Same
    <3>2. Holds(piece)
      BY <3>1 DEF Holds, Pieces
    <3>3. QED
      BY <2>2, <3>1, <3>2
  <2>3. QED
    BY <2>1, <2>2
<1>3. piece \notin {"manifest", "evidence", "inventory"} /\ piece # Reading(kind)
  BY DEF Pieces, Reading, TypeOK, Kinds
<1>4. QED
  BY <1>1, <1>2, <1>3 DEF Passes, TypeOK

LEMMA Condition ==
  ASSUME TypeOK, NEW check \in {"manifest", "sourceRun", "ancestry", "evidence", "inventory",
                                "reviewers", "workflow", "ownRun", "head"},
         Doing(check), Advance, UNCHANGED <<seen, bytes>>, UNCHANGED <<kind, rebuild, clock, github>>,
         IF check = "manifest" THEN manifest' \in {"genuine", "forged"} ELSE manifest' = manifest,
         check = "evidence" => manifest = "genuine",
         check = "inventory" /\ manifest = "genuine" => SeenNames = Payload \cup {Manifest},
         check \in {"sourceRun", "reviewers", "workflow", "head"} => Holds(check)
  PROVE  Passes(check)
<1>1. check \notin Pieces /\ check # Reading(kind)
  BY DEF Pieces, Reading, TypeOK, Kinds
<1>2. check \in Needed(kind) => check \in {"sourceRun", "reviewers", "workflow", "head"}
  BY <1>1, NeededAre DEF TypeOK, Kinds, Pieces
<1>3. QED
  BY <1>1, <1>2 DEF Passes, TypeOK

LEMMA StepReads ==
  ASSUME TypeOK, VerifyAsset \/ CompareDigests \/ VerifyReceipt \/ VerifyToolchain
  PROVE  ReadsOne \/ \E check \in {"payload", "digests", "receipt", "toolchain"} : Passes(check)
<1>1. /\ seen.assets \subseteq Asset /\ rc.assets \subseteq Asset /\ bytes \subseteq Asset
      /\ kind \in Kinds
  BY DEF TypeOK
<1>2. \A check \in {"payload", "digests", "receipt", "toolchain"} :
        /\ check \notin Pieces \cup Needed(kind) \cup {"manifest", "evidence", "inventory"}
        /\ check \in Compared
        /\ check = Reading(kind) => (kind = "preflight" <=> check = "receipt")
  BY <1>1, NeededAre, ChecksAre DEF Pieces, Compared, Kinds
<1>3. CASE VerifyAsset
  <2>1. PICK a \in Named(seen.assets, Payload \cup {Stray}) \ bytes :
          Matches(a) /\ bytes' = bytes \cup {a}
    BY <1>3 DEF VerifyAsset
  <2>2. a \in Asset /\ (manifest = "genuine" => a.genuine)
    BY <1>1, <2>1 DEF Named, Matches
  <2>3. CASE Named(seen.assets, Payload \cup {Stray}) = bytes' /\ Advance
    <3>1. Doing("payload") /\ UNCHANGED <<seen, manifest>> /\ UNCHANGED <<kind, rebuild, clock, github>>
      BY <1>3 DEF VerifyAsset, Keep
    <3>2. "payload" = Reading(kind) => Covered(seen.assets)'
      BY <1>2, <2>3, <3>1 DEF Covered, Named
    <3>3. Passes("payload")
      BY <1>1, <1>2, <2>1, <2>2, <2>3, <3>1, <3>2 DEF Passes
    <3>4. QED
      BY <3>3
  <2>4. CASE UNCHANGED <<pc, at, void>>
    BY <1>1, <1>3, <2>1, <2>2, <2>4 DEF ReadsOne, VerifyAsset, Keep
  <2>5. QED
    BY <1>3, <2>3, <2>4 DEF VerifyAsset
<1>4. CASE CompareDigests
  <2>1. /\ Doing("digests") /\ Advance /\ UNCHANGED <<seen, manifest>>
        /\ UNCHANGED <<kind, rebuild, clock, github>>
        /\ bytes' = Named(seen.assets, Payload \cup {Stray})
        /\ \A a \in bytes' : manifest = "genuine" => a.genuine
    BY <1>4 DEF CompareDigests, Keep, Matches
  <2>2. bytes' \subseteq Asset
    BY <1>1, <2>1 DEF Named
  <2>3. "digests" = Reading(kind) => Covered(seen.assets)'
    BY <1>2, <2>1 DEF Covered, Named
  <2>4. Passes("digests")
    BY <1>2, <2>1, <2>2, <2>3 DEF Passes
  <2>5. QED
    BY <2>4
<1>5. CASE VerifyReceipt
  <2>1. PICK a \in Named(seen.assets, {Receipt}) : Matches(a) /\ bytes' = bytes \cup {a}
    BY <1>5 DEF VerifyReceipt
  <2>2. a \in Asset /\ a.name = Receipt /\ (manifest = "genuine" => a.genuine)
    BY <1>1, <2>1 DEF Named, Matches
  <2>3. /\ Doing("receipt") /\ Advance /\ UNCHANGED <<seen, manifest>>
        /\ UNCHANGED <<kind, rebuild, clock, github>>
    BY <1>5 DEF VerifyReceipt, Keep
  <2>4. "receipt" = Reading(kind) => Covered(seen.assets)'
    BY <1>2, <2>1, <2>2, <2>3 DEF Covered
  <2>5. Passes("receipt")
    BY <1>1, <1>2, <2>1, <2>2, <2>3, <2>4 DEF Passes
  <2>6. QED
    BY <2>5
<1>6. CASE VerifyToolchain
  <2>1. PICK a \in Named(rc.assets, {Receipt}) : Matches(a) /\ bytes' = bytes \cup {a}
    BY <1>6 DEF VerifyToolchain
  <2>2. a \in Asset /\ (manifest = "genuine" => a.genuine)
    BY <1>1, <2>1 DEF Named, Matches
  <2>3. /\ Doing("toolchain") /\ Advance /\ UNCHANGED <<seen, manifest>>
        /\ UNCHANGED <<kind, rebuild, clock, github>>
    BY <1>6 DEF VerifyToolchain, Keep
  <2>4. "toolchain" # Reading(kind)
    BY <1>1, ChecksAre DEF Kinds
  <2>5. Passes("toolchain")
    BY <1>1, <1>2, <2>1, <2>2, <2>3, <2>4 DEF Passes
  <2>6. QED
    BY <2>5
<1>7. QED
  BY <1>3, <1>4, <1>5, <1>6

LEMMA StepWaits ==
  ASSUME TypeOK, PollRun \/ PollGate \/ Ready \/ Sleep \/ Refuse \/ SlowAnswer
  PROVE  Waits
<1>1. clock \in 0..Wait /\ Wait \in Nat /\ pc \in Waiting \cup {"checks"} \cup Ended
  BY AcceptedRcAssumption DEF TypeOK
<1>2. PollRun \/ PollGate \/ Ready \/ Refuse => clock' \in 0..Wait
  BY <1>1 DEF PollRun, PollGate, Ready, Refuse, Keep
<1>3. Sleep \/ SlowAnswer => clock' \in 0..Wait
  BY <1>1 DEF Sleep, SlowAnswer
<1>4. CASE PollRun \/ PollGate
  BY <1>2, <1>4 DEF PollRun, PollGate, Goto, FreshSuccess, Waits, Waiting
<1>5. CASE Ready \/ Refuse
  BY <1>2, <1>5 DEF Ready, Refuse, Keep, Goto, Waits, Waiting
<1>6. CASE Sleep \/ SlowAnswer
  BY <1>3, <1>6 DEF Sleep, SlowAnswer, Goto, Waits, Waiting
<1>7. QED
  BY <1>4, <1>5, <1>6

LEMMA StepJob ==
  ASSUME TypeOK, Job \/ SlowAnswer
  PROVE  Waits \/ ReadsOne \/ \E check : Passes(check)
<1>1. CASE \E piece \in Pieces : ReadPiece(piece)
  BY <1>1, StepPiece
<1>2. CASE ReadManifest
  <2>1. manifest' \in {"genuine", "forged"}
    BY <1>2 DEF ReadManifest
  <2>2. Doing("manifest") /\ Advance /\ UNCHANGED <<seen, bytes>> /\ UNCHANGED <<kind, rebuild, clock, github>>
    BY <1>2 DEF ReadManifest, Keep
  <2>3. Passes("manifest")
    BY <2>1, <2>2, Condition
  <2>4. QED
    BY <2>3
<1>3. CASE CheckSourceRun
  <2>1. Passes("sourceRun")
    BY <1>3, Condition DEF CheckSourceRun, LatestAttempt, Keep, Holds
  <2>2. QED
    BY <2>1
<1>4. CASE RequireReviewers
  <2>1. Passes("reviewers")
    BY <1>4, Condition DEF RequireReviewers, Keep, Holds
  <2>2. QED
    BY <2>1
<1>5. CASE CheckWorkflow
  <2>1. Passes("workflow")
    BY <1>5, Condition DEF CheckWorkflow, SameWorkflows, Keep, Holds
  <2>2. QED
    BY <2>1
<1>6. CASE CheckHead
  <2>1. Passes("head")
    BY <1>6, Condition DEF CheckHead, Keep, Holds
  <2>2. QED
    BY <2>1
<1>7. CASE CheckAncestry \/ CheckOwnRun
  <2>1. CheckAncestry => Passes("ancestry")
    BY Condition DEF CheckAncestry, Keep
  <2>2. CheckOwnRun => Passes("ownRun")
    BY Condition DEF CheckOwnRun, Keep
  <2>3. QED
    BY <1>7, <2>1, <2>2
<1>8. CASE VerifyEvidence \/ CheckInventory
  <2>1. VerifyEvidence => Passes("evidence")
    BY Condition DEF VerifyEvidence, Keep
  <2>2. CheckInventory => Passes("inventory")
    BY Condition DEF CheckInventory, Keep
  <2>3. QED
    BY <1>8, <2>1, <2>2
<1>9. CASE VerifyAsset \/ CompareDigests \/ VerifyReceipt \/ VerifyToolchain
  BY <1>9, StepReads
<1>10. CASE PollRun \/ PollGate \/ Ready \/ Sleep \/ Refuse \/ SlowAnswer
  BY <1>10, StepWaits
<1>11. QED
  BY <1>1, <1>2, <1>3, <1>4, <1>5, <1>6, <1>7, <1>8, <1>9, <1>10 DEF Job, Pieces

-----------------------------------------------------------------------------
(* What others do.                                                         *)

Candidates == [tag : Tags, release : Release, assets : SUBSET Asset]

LEMMA StepOthers ==
  ASSUME TypeOK, Others
  PROVE  /\ UNCHANGED <<kind, rebuild, pc, at, clock, seen, manifest, bytes>>
         /\ (Report /\ void' = void) \/ (own' = own /\ void' = {w \in void : ~Holds(w)'})
<1>1. Report => UNCHANGED job /\ UNCHANGED <<kind, rebuild>>
  BY DEF Report
<1>2. ~Report => Edited
  BY DEF Others, MoveTag, EditRelease, EditAssets, RerunSource, ExpireEvidence, EditReviewers, Push
<1>3. QED
  BY <1>1, <1>2 DEF Edited, job

LEMMA OthersType ==
  ASSUME TypeOK, Others
  PROVE  /\ rc' \in Candidates /\ edits' \in Edits
         /\ sourceRun' \in {"accepted", "rerun"} /\ evidence' \in BOOLEAN /\ reviewers' \in BOOLEAN
         /\ head' \in {"source", "ahead", "workflows", "diverged"}
         /\ own' \in [run : {"queued", "in_progress", "ended"},
                      gate : {"pending", "success", "failure"}, stale : BOOLEAN]
<1>1. rc \in Candidates /\ edits \in 0..MaxEdits /\ MaxEdits \in Nat
  BY AcceptedRcAssumption DEF TypeOK, Candidates, Edits
<1>2. MayEdit /\ Edited => edits' \in Edits /\ edits + 1 \in Edits
  BY <1>1 DEF MayEdit, Edited, Edits
<1>3. Report \/ MoveTag \/ EditRelease \/ EditAssets => UNCHANGED <<sourceRun, evidence, reviewers, head>>
  BY DEF Report, MoveTag, EditRelease, EditAssets
<1>4. CASE Report
  <2>1. UNCHANGED <<rc, edits, sourceRun, evidence, reviewers, head>>
    BY <1>4 DEF Report
  <2>2. own' \in [run : {"queued", "in_progress", "ended"},
                  gate : {"pending", "success", "failure"}, stale : BOOLEAN]
    BY <1>4 DEF Report, TypeOK
  <2>3. QED
    BY <1>1, <2>1, <2>2 DEF TypeOK
<1>5. CASE MoveTag
  <2>1. rc' \in Candidates
    BY <1>1, <1>5 DEF MoveTag, Candidates, Tags
  <2>2. QED
    BY <1>2, <1>3, <1>5, <2>1 DEF MoveTag, Edited, TypeOK
<1>6. CASE EditRelease
  <2>1. PICK p \in BOOLEAN : rc' = [rc EXCEPT !.release = [revision |-> edits + 1, public |-> p]]
    BY <1>6 DEF EditRelease
  <2>2. [revision |-> edits + 1, public |-> p] \in Release
    BY <1>2, <1>6, <2>1 DEF EditRelease, Release
  <2>3. rc' \in Candidates
    BY <1>1, <2>1, <2>2 DEF Candidates
  <2>4. QED
    BY <1>2, <1>3, <1>6, <2>3 DEF EditRelease, Edited, TypeOK
<1>7. CASE EditAssets
  <2>1. PICK gone, new : /\ new = {} \/ \E a \in New : new = {a}
                         /\ rc' = [rc EXCEPT !.assets = (rc.assets \ gone) \cup new]
    BY <1>7 DEF EditAssets
  <2>2. New \subseteq Asset
    <3>1. edits + 1 \in Edits
      BY <1>2, <1>7 DEF EditAssets
    <3>2. [name : Payload \cup {Manifest}, id : {edits + 1}, genuine : BOOLEAN] \subseteq Asset
      BY <3>1 DEF Asset
    <3>3. [name |-> Stray, id |-> edits + 1, genuine |-> FALSE] \in Asset
      BY <3>1 DEF Asset
    <3>4. QED
      BY <3>2, <3>3 DEF New
  <2>3. (rc.assets \ gone) \cup new \in SUBSET Asset
    BY <1>1, <2>1, <2>2 DEF Candidates
  <2>4. rc' \in Candidates
    BY <1>1, <2>1, <2>3 DEF Candidates
  <2>5. QED
    BY <1>2, <1>3, <1>7, <2>4 DEF EditAssets, Edited, TypeOK
<1>8. CASE RerunSource \/ ExpireEvidence \/ EditReviewers \/ Push
  BY <1>1, <1>2, <1>8 DEF RerunSource, ExpireEvidence, EditReviewers, Push, Edited, TypeOK
<1>9. QED
  BY <1>4, <1>5, <1>6, <1>7, <1>8 DEF Others

-----------------------------------------------------------------------------
(* Types.                                                                  *)

(* A check that passes advances to the next, or accepts.                   *)
LEMMA Advanced ==
  ASSUME TypeOK, NEW check, Passes(check)
  PROVE  /\ pc = "checks" /\ Checks(kind)[at] = check /\ kind' = kind
         /\ \/ at < Len(Checks(kind)) /\ at' = at + 1 /\ pc' = "checks"
            \/ at = Len(Checks(kind)) /\ at' = at /\ pc' = "accepted"
         /\ at' \in 1..Len(Checks(kind))
         /\ void' = IF check = LastRead(kind) THEN Revoked ELSE void
<1>1. at \in 1..Len(Checks(kind)) /\ Len(Checks(kind)) \in Nat /\ kind \in Kinds
  BY Order DEF TypeOK, Ordered, Complete
<1>2. pc = "checks" /\ Checks(kind)[at] = check /\ kind' = kind /\ Advance
  BY DEF Passes, Doing
<1>3. Doing(LastRead(kind)) <=> check = LastRead(kind)
  BY <1>2 DEF Doing
<1>4. QED
  BY <1>1, <1>2, <1>3 DEF Advance

LEMMA StepTypeOK == ASSUME TypeOK, Next PROVE TypeOK'
<1>1. CASE Others
  <2>1. void' \subseteq Needed(kind)
    BY <1>1, StepOthers DEF TypeOK
  <2>2. QED
    BY <1>1, <2>1, StepOthers, OthersType DEF TypeOK, Candidates
<1>2. CASE Waits
  BY <1>2 DEF Waits, TypeOK, github, Waiting, Ended
<1>3. CASE ReadsOne
  BY <1>3 DEF ReadsOne, TypeOK, github
<1>4. ASSUME NEW check, Passes(check) PROVE TypeOK'
  <2>1. /\ at' \in 1..Len(Checks(kind)) /\ pc' \in {"checks", "accepted"} /\ kind' = kind
    BY <1>4, Advanced
  <2>2. void' \subseteq Needed(kind)
    BY <1>4, Advanced DEF Revoked, TypeOK
  <2>3. rc \in Candidates /\ seen \in Candidates
    BY DEF TypeOK, Candidates
  <2>4. seen' \in Candidates
    <3>1. CASE check \in Pieces /\ seen' = [seen EXCEPT ![check] = rc[check]]
      BY <2>3, <3>1 DEF Pieces, Candidates
    <3>2. CASE seen' = seen
      BY <2>3, <3>2
    <3>3. QED
      BY <1>4, <3>1, <3>2 DEF Passes
  <2>5. manifest' \in {"none", "genuine", "forged"} /\ bytes' \subseteq Asset
        /\ UNCHANGED <<kind, rebuild, clock, github>>
    BY <1>4 DEF Passes, TypeOK
  <2>6. QED
    BY <2>1, <2>2, <2>4, <2>5 DEF TypeOK, Candidates, github, Ended
<1>5. QED
  BY <1>1, <1>2, <1>3, <1>4, StepJob DEF Next

-----------------------------------------------------------------------------
(* The invariant.                                                          *)

(* A job that is ready was told so of its own attempt.                     *)
Timely ==
  /\ ReadyInTime
  /\ pc = "ready" /\ Gated => own.gate = "success" /\ ~own.stale

(* What is in hand follows from the checks that were done.                 *)
InHand ==
  /\ Done("manifest") <=> manifest # "none"
  /\ Done("evidence") => manifest = "genuine"
  /\ manifest = "none" => bytes = {}
  /\ manifest = "genuine" => \A a \in bytes : a.genuine

Inventoried ==
  Done("inventory") /\ manifest = "genuine" => SeenNames = Payload \cup {Manifest}

AllRead == Done(Reading(kind)) => Covered(seen.assets)

(* What is revoked does not hold, and was not checked again.               *)
StillVoid ==
  /\ void # {} => Done(LastRead(kind))
  /\ \A w \in void : ~Holds(w)
  /\ \A w \in void : \A i \in 1..at - 1 : \A j \in 1..i - 1 :
       ~(Checks(kind)[i] = w /\ Checks(kind)[j] = LastRead(kind))

Accepting == pc = "accepted" => at = Len(Checks(kind)) /\ void = {}

IInv == TypeOK /\ Timely /\ InHand /\ Inventoried /\ AllRead /\ StillVoid /\ Accepting

(* A check that passes is done unless it was the last, and no other is.    *)
LEMMA DoneBy ==
  ASSUME TypeOK, NEW check, Passes(check), NEW c
  PROVE  /\ Done(c)' => Done(c) \/ c = check
         /\ Done(c) => Done(c)'
         /\ Done(check)' \/ at = Len(Checks(kind))
<1>1. at \in Nat /\ at >= 1 /\ kind' = kind /\ Checks(kind)[at] = check
  BY Advanced, Order DEF TypeOK, Ordered, Complete
<1>2. (at < Len(Checks(kind)) /\ at' = at + 1) \/ (at = Len(Checks(kind)) /\ at' = at)
  BY Advanced
<1>3. \A i \in 1..at' - 1 : i \in 1..at - 1 \/ i = at
  BY <1>1, <1>2
<1>4. \A i \in 1..at - 1 : i \in 1..at' - 1
  BY <1>1, <1>2
<1>5. at' = at + 1 => at \in 1..at' - 1
  BY <1>1
<1>6. QED
  BY <1>1, <1>2, <1>3, <1>4, <1>5 DEF Done

(* What was done before a check, by the order of the checks.               *)
LEMMA DoneBefore ==
  ASSUME TypeOK, NEW check, Passes(check)
  PROVE  /\ check = "manifest" =>
              at < Len(Checks(kind)) /\ ~Done("manifest") /\ \A c \in Compared : ~Done(c)
         /\ check \in Compared => Done("manifest") /\ \A p \in Pieces : Done(p)
         /\ check = LastRead(kind) => at < Len(Checks(kind)) /\ ~Done(LastRead(kind))
<1>1. at \in 1..Len(Checks(kind)) /\ Checks(kind)[at] = check
  BY Advanced DEF TypeOK
<1>2. ManifestOnce(Checks(kind)) /\ ManifestFirst(Checks(kind)) /\ SnapshotFirst(Checks(kind))
      /\ LastOnce(Checks(kind), LastRead(kind))
  BY Order DEF TypeOK, Ordered
<1>3. check = "manifest" =>
              at < Len(Checks(kind)) /\ ~Done("manifest") /\ \A c \in Compared : ~Done(c)
  BY <1>1, <1>2 DEF ManifestOnce, Done
<1>4. check \in Compared => Done("manifest") /\ \A p \in Pieces : Done(p)
  BY <1>1, <1>2 DEF ManifestFirst, SnapshotFirst, Done
<1>5. check = LastRead(kind) => at < Len(Checks(kind)) /\ ~Done(LastRead(kind))
  BY <1>1, <1>2 DEF LastOnce, Done
<1>6. QED
  BY <1>3, <1>4, <1>5

(* After a comparison the snapshot does not change.                        *)
LEMMA DoneAfter ==
  ASSUME TypeOK, NEW c \in Compared, Done(c)
  PROVE  Done("manifest") /\ \A p \in Pieces : Done(p)
<1>1. PICK j \in 1..at - 1 : Checks(kind)[j] = c
  BY DEF Done
<1>2. at \in 1..Len(Checks(kind)) /\ Len(Checks(kind)) \in Nat
  BY Order DEF TypeOK, Ordered, Complete
<1>3. j \in 1..Len(Checks(kind)) /\ \A i \in 1..j - 1 : i \in 1..at - 1
  BY <1>1, <1>2
<1>4. ManifestFirst(Checks(kind)) /\ SnapshotFirst(Checks(kind))
  BY Order DEF TypeOK, Ordered
<1>5. QED
  BY <1>1, <1>3, <1>4 DEF ManifestFirst, SnapshotFirst, Done

LEMMA SeenFixed ==
  ASSUME TypeOK, NEW check, Passes(check), NEW c \in Compared, Done(c)
  PROVE  seen' = seen /\ (check \in Needed(kind) => Holds(check))
<1>1. \A p \in Pieces : ~Before(p)
  BY DoneAfter DEF Done, Before
<1>2. QED
  BY <1>1 DEF Passes

LEMMA ReadingCompared == \A k \in Kinds : Reading(k) \in Compared /\ LastRead(k) \in Compared
  BY ChecksAre DEF Kinds, Compared

-----------------------------------------------------------------------------
(* The invariant is kept.                                                  *)

LEMMA StepTimely == ASSUME IInv, Next PROVE Timely'
<1>1. TypeOK /\ Timely
  BY DEF IInv
<1>2. CASE Report
  <2>1. /\ UNCHANGED <<kind, pc, clock>> /\ own'.stale = own.stale
        /\ own'.gate = own.gate \/ own.gate = "pending"
        /\ pc \in Waiting \/ kind = "preflight"
    BY <1>1, <1>2 DEF Report, TypeOK, job
  <2>2. QED
    BY <1>1, <2>1 DEF Timely, ReadyInTime, Waiting, Gated
<1>3. CASE Others /\ ~Report
  BY <1>1, <1>3, StepOthers DEF Timely, ReadyInTime, Gated
<1>4. CASE Waits
  BY <1>1, <1>4 DEF Waits, Timely, ReadyInTime, Gated, github
<1>5. CASE ReadsOne
  BY <1>1, <1>5 DEF ReadsOne, Timely, ReadyInTime, Gated, github
<1>6. ASSUME NEW check, Passes(check) PROVE Timely'
  <2>1. pc = "checks" /\ pc' \in {"checks", "accepted"} /\ UNCHANGED <<kind, clock, own>>
    BY <1>1, <1>6, Advanced DEF Passes, github
  <2>2. QED
    BY <1>1, <2>1 DEF Timely, ReadyInTime, Gated
<1>7. QED
  BY <1>1, <1>3, <1>2, <1>4, <1>5, <1>6, StepJob DEF Next

(* Nothing in hand changes but by a check, or one more asset read.         *)
LEMMA OtherSteps ==
  ASSUME IInv, Next
  PROVE  \/ Others \/ Waits
         \/ ReadsOne
         \/ \E check : Passes(check)
  BY StepJob DEF Next, IInv

LEMMA StepInHand == ASSUME IInv, Next PROVE InHand'
<1>1. TypeOK /\ InHand
  BY DEF IInv
<1>2. CASE Others \/ Waits
  <2>1. UNCHANGED <<kind, at, manifest, bytes>>
    BY <1>1, <1>2, StepOthers DEF Waits
  <2>2. QED
    BY <1>1, <2>1 DEF InHand, Done
<1>3. CASE ReadsOne
  <2>1. Checks(kind)[at] = "payload" /\ UNCHANGED <<kind, at, manifest>>
        /\ (manifest = "genuine" => \A a \in bytes' \ bytes : a.genuine)
    BY <1>3 DEF ReadsOne, Doing
  <2>2. Done("manifest")
    BY <1>1, <2>1, Order DEF TypeOK, Ordered, ManifestFirst, Compared, Done
  <2>3. QED
    BY <1>1, <2>1, <2>2 DEF InHand, Done
<1>4. ASSUME NEW check, Passes(check) PROVE InHand'
  <2>1. CASE check = "manifest"
    <3>1. manifest' \in {"genuine", "forged"} /\ bytes' = bytes
      BY <1>4, <2>1 DEF Passes, Compared
    <3>2. bytes = {} /\ ~Done("evidence") /\ at < Len(Checks(kind))
      BY <1>1, <1>4, <2>1, DoneBefore DEF InHand, Compared
    <3>3. Done("manifest")' /\ ~Done("evidence")'
      BY <1>1, <1>4, <2>1, <3>2, DoneBy DEF TypeOK
    <3>4. QED
      BY <3>1, <3>2, <3>3 DEF InHand
  <2>2. CASE check # "manifest"
    <3>1. /\ manifest' = manifest /\ (check = "evidence" => manifest = "genuine")
          /\ manifest = "genuine" => \A a \in bytes' \ bytes : a.genuine
          /\ bytes' = bytes \/ check \in Compared
      BY <1>4, <2>2 DEF Passes
    <3>2. check \in Compared => Done("manifest")
      BY <1>1, <1>4, DoneBefore
    <3>3. Done("manifest")' <=> Done("manifest")
      BY <1>1, <1>4, <2>2, DoneBy
    <3>4. Done("evidence")' => Done("evidence") \/ check = "evidence"
      BY <1>1, <1>4, DoneBy
    <3>5. QED
      BY <1>1, <3>1, <3>2, <3>3, <3>4 DEF InHand
  <2>3. QED
    BY <2>1, <2>2
<1>5. QED
  BY <1>2, <1>3, <1>4, OtherSteps

LEMMA StepInventoried == ASSUME IInv, Next PROVE Inventoried'
<1>1. TypeOK /\ Inventoried
  BY DEF IInv
<1>2. CASE Others \/ Waits \/ ReadsOne
  <2>1. UNCHANGED <<kind, at, manifest, seen>>
    BY <1>1, <1>2, StepOthers DEF Waits, ReadsOne
  <2>2. QED
    BY <1>1, <2>1 DEF Inventoried, Done, SeenNames
<1>3. ASSUME NEW check, Passes(check) PROVE Inventoried'
  <2>1. Done("inventory")' => Done("inventory") \/ check = "inventory"
    BY <1>1, <1>3, DoneBy
  <2>2. check = "manifest" => ~Done("inventory")
    BY <1>1, <1>3, DoneBefore DEF Compared
  <2>3. Done("inventory") => seen' = seen
    BY <1>1, <1>3, SeenFixed DEF Compared
  <2>4. check = "inventory" => seen' = seen
    BY <1>3 DEF Passes, Pieces
  <2>5. check # "manifest" => manifest' = manifest
    BY <1>3 DEF Passes
  <2>6. CASE Done("inventory")
    BY <1>1, <2>2, <2>3, <2>5, <2>6 DEF Inventoried, SeenNames
  <2>7. CASE check = "inventory"
    <3>1. manifest = "genuine" => SeenNames = Payload \cup {Manifest}
      BY <1>3, <2>7 DEF Passes
    <3>2. QED
      BY <2>4, <2>5, <2>7, <3>1 DEF Inventoried, SeenNames
  <2>8. QED
    BY <2>1, <2>6, <2>7 DEF Inventoried
<1>4. QED
  BY <1>2, <1>3, OtherSteps

LEMMA StepAllRead == ASSUME IInv, Next PROVE AllRead'
<1>1. TypeOK /\ AllRead /\ kind \in Kinds
  BY DEF IInv, TypeOK
<1>2. Reading(kind) \in Compared
  BY <1>1, ReadingCompared
<1>3. CASE Others \/ Waits
  <2>1. UNCHANGED <<kind, at, bytes, seen>>
    BY <1>1, <1>3, StepOthers DEF Waits
  <2>2. Reading(kind)' = Reading(kind)
    BY <2>1
  <2>3. QED
    BY <1>1, <2>1, <2>2 DEF AllRead, Done, Covered
<1>4. CASE ReadsOne
  <2>1. UNCHANGED <<kind, at, seen>> /\ bytes \subseteq bytes'
    BY <1>4 DEF ReadsOne
  <2>2. Reading(kind)' = Reading(kind)
    BY <2>1
  <2>3. QED
    BY <1>1, <2>1, <2>2 DEF AllRead, Done, Covered
<1>5. ASSUME NEW check, Passes(check) PROVE AllRead'
  <2>1. kind' = kind /\ Reading(kind)' = Reading(kind)
    BY <1>5 DEF Passes
  <2>2. Done(Reading(kind))' => Done(Reading(kind)) \/ check = Reading(kind)
    <3>1. PICK r : r = Reading(kind)
      OBVIOUS
    <3>2. Done(r)' => Done(r) \/ check = r
      BY <1>1, <1>5, DoneBy
    <3>3. Done(Reading(kind))' <=> Done(r)'
      BY <2>1, <3>1 DEF Done
    <3>4. QED
      BY <3>1, <3>2, <3>3
  <2>3. CASE Done(Reading(kind))
    <3>1. seen' = seen
      BY <1>1, <1>2, <1>5, <2>3, SeenFixed
    <3>2. kind = "preflight" => check # "digests"
      BY <1>1, <1>5, Advanced, ChecksAre, Order DEF TypeOK, Ordered, Complete
    <3>3. /\ bytes \subseteq bytes'
             \/ (check = "digests" /\ Named(seen.assets, Payload \cup {Stray}) \subseteq bytes')
      BY <1>5 DEF Passes
    <3>4. QED
      BY <1>1, <2>1, <2>3, <3>1, <3>2, <3>3 DEF AllRead, Covered
  <2>4. CASE check = Reading(kind)
    BY <1>5, <2>4 DEF Passes, AllRead
  <2>5. QED
    BY <2>2, <2>3, <2>4 DEF AllRead
<1>6. QED
  BY <1>3, <1>4, <1>5, OtherSteps

LEMMA HoldsSame ==
  ASSUME UNCHANGED <<sourceRun, reviewers, head, rc, seen>>
  PROVE  \A w : Holds(w)' = Holds(w)
  BY DEF Holds

LEMMA StepStillVoid == ASSUME IInv, Next PROVE StillVoid'
<1>1. TypeOK /\ StillVoid /\ kind \in Kinds /\ at \in Nat /\ void \subseteq Needed(kind)
  BY Order DEF IInv, TypeOK, Ordered, Complete
<1>2. CASE Others
  <2>1. UNCHANGED <<kind, at>> /\ LastRead(kind)' = LastRead(kind)
    BY <1>1, <1>2, StepOthers
  <2>2. void' \subseteq void /\ \A w \in void' : ~Holds(w)'
    <3>1. CASE Report /\ void' = void
      <4>1. \A w : Holds(w)' = Holds(w)
        BY <3>1, HoldsSame DEF Report, job
      <4>2. QED
        BY <1>1, <3>1, <4>1 DEF StillVoid
    <3>2. CASE void' = {w \in void : ~Holds(w)'}
      BY <3>2
    <3>3. QED
      BY <1>1, <1>2, <3>1, <3>2, StepOthers
  <2>3. QED
    BY <1>1, <2>1, <2>2 DEF StillVoid, Done
<1>3. CASE Waits \/ ReadsOne
  <2>1. UNCHANGED <<kind, at, void>> /\ UNCHANGED <<sourceRun, reviewers, head, rc, seen>>
        /\ LastRead(kind)' = LastRead(kind)
    BY <1>3 DEF Waits, ReadsOne, github
  <2>2. \A w : Holds(w)' = Holds(w)
    BY <2>1, HoldsSame
  <2>3. QED
    BY <1>1, <2>1, <2>2 DEF StillVoid, Done
<1>4. ASSUME NEW check, Passes(check) PROVE StillVoid'
  <2>1. /\ kind' = kind /\ Checks(kind)[at] = check /\ LastRead(kind)' = LastRead(kind)
        /\ at' = at \/ at' = at + 1
        /\ void' = IF check = LastRead(kind) THEN Revoked ELSE void
        /\ UNCHANGED <<sourceRun, reviewers, head, rc>>
    BY <1>1, <1>4, Advanced DEF Passes, github
  <2>2. \A i \in 1..at' - 1 : i \in 1..at - 1 \/ i = at
    BY <1>1, <2>1
  <2>3. CASE check = LastRead(kind)
    <3>1. seen' = seen
      BY <1>1, <1>4, <2>3, ReadingCompared DEF Passes, Pieces, Compared
    <3>2. \A w : Holds(w)' = Holds(w)
      BY <2>1, <3>1, HoldsSame
    <3>3. at < Len(Checks(kind)) /\ ~Done(LastRead(kind))
      BY <1>1, <1>4, <2>3, DoneBefore
    <3>4. Done(check)'
      BY <1>1, <1>4, <3>3, DoneBy DEF TypeOK
    <3>5. \A i \in 1..at' - 1 : \A j \in 1..i - 1 : Checks(kind)[j] # LastRead(kind)
      <4>1. \A i \in 1..at' - 1 : \A j \in 1..i - 1 : j \in 1..at - 1
        BY <1>1, <2>1
      <4>2. QED
        BY <3>3, <4>1 DEF Done
    <3>6. \A w \in void' : ~Holds(w)'
      BY <2>1, <2>3, <3>2 DEF Revoked
    <3>7. Done(LastRead(kind))'
      BY <2>1, <2>3, <3>4 DEF Done
    <3>8. QED
      BY <2>1, <3>5, <3>6, <3>7 DEF StillVoid
  <2>4. CASE check # LastRead(kind) /\ void # {}
    <3>1. Done(LastRead(kind)) /\ LastRead(kind) \in Compared
      BY <1>1, <2>4, ReadingCompared DEF StillVoid
    <3>2. seen' = seen /\ (check \in Needed(kind) => Holds(check))
      BY <1>1, <1>4, <3>1, SeenFixed
    <3>3. \A w : Holds(w)' = Holds(w)
      BY <2>1, <3>2, HoldsSame
    <3>4. check \notin void
      BY <1>1, <3>2 DEF StillVoid
    <3>5. \A w \in void : \A i \in 1..at' - 1 : \A j \in 1..i - 1 :
            ~(Checks(kind)[i] = w /\ Checks(kind)[j] = LastRead(kind))
      BY <1>1, <2>1, <2>2, <3>4 DEF StillVoid
    <3>6. Done(LastRead(kind))'
      <4>1. \A i \in 1..at - 1 : i \in 1..at' - 1
        BY <1>1, <2>1
      <4>2. QED
        BY <2>1, <3>1, <4>1 DEF Done
    <3>7. QED
      BY <1>1, <2>1, <2>4, <3>3, <3>5, <3>6 DEF StillVoid
  <2>5. CASE check # LastRead(kind) /\ void = {}
    BY <2>1, <2>5 DEF StillVoid
  <2>6. QED
    BY <2>3, <2>4, <2>5
<1>5. QED
  BY <1>2, <1>3, <1>4, OtherSteps

LEMMA StepAccepting == ASSUME IInv, Next PROVE Accepting'
<1>1. TypeOK /\ StillVoid /\ Accepting /\ kind \in Kinds /\ void \subseteq Needed(kind)
  BY DEF IInv, TypeOK
<1>2. CASE Others
  <2>1. UNCHANGED <<kind, pc, at>> /\ void' \subseteq void
    BY <1>1, <1>2, StepOthers
  <2>2. QED
    BY <1>1, <2>1 DEF Accepting
<1>3. CASE Waits
  BY <1>3 DEF Waits, Accepting, Waiting
<1>4. CASE ReadsOne
  BY <1>4 DEF ReadsOne, Accepting, Doing
<1>5. ASSUME NEW check, Passes(check), pc' = "accepted"
      PROVE  at' = Len(Checks(kind)') /\ void' = {}
  <2>1. /\ at = Len(Checks(kind)) /\ at' = at /\ kind' = kind /\ Checks(kind)[at] = check
        /\ void' = IF check = LastRead(kind) THEN Revoked ELSE void
    BY <1>1, <1>5, Advanced
  <2>2. check # LastRead(kind) /\ at \in Nat
    BY <1>1, <1>5, <2>1, DoneBefore DEF TypeOK
  <2>3. ASSUME NEW w \in void PROVE FALSE
    <3>1. Done(LastRead(kind)) /\ LastRead(kind) \in Compared /\ w \in Needed(kind) /\ ~Holds(w)
      BY <1>1, <2>3, ReadingCompared DEF StillVoid
    <3>2. PICK i \in 1..Len(Checks(kind)) : /\ Checks(kind)[i] = w
                                            /\ \E j \in 1..i - 1 : Checks(kind)[j] = LastRead(kind)
      BY <1>1, <3>1, Order DEF Ordered, Recheck
    <3>3. i \in 1..at - 1 \/ i = at
      BY <2>1, <2>2, <3>2
    <3>4. i = at
      BY <1>1, <2>3, <3>2, <3>3 DEF StillVoid
    <3>5. check \in Needed(kind) => Holds(check)
      BY <1>1, <1>5, <3>1, SeenFixed
    <3>6. QED
      BY <2>1, <3>1, <3>2, <3>4, <3>5
  <2>4. QED
    BY <2>1, <2>2, <2>3
<1>6. QED
  BY <1>2, <1>3, <1>4, <1>5, OtherSteps DEF Accepting

LEMMA Inductive == ASSUME IInv, [Next]_vars PROVE IInv'
<1>1. CASE Next
  <2>1. TypeOK'
    BY <1>1, StepTypeOK DEF IInv
  <2>2. QED
    BY <1>1, <2>1, StepTimely, StepInHand, StepInventoried, StepAllRead, StepStillVoid, StepAccepting
       DEF IInv
<1>2. CASE UNCHANGED vars
  <2>1. UNCHANGED <<kind, rebuild, pc, at, clock, seen, manifest, bytes, void, rc, sourceRun,
                    evidence, reviewers, head, own, edits>>
    BY <1>2 DEF vars, job, github
  <2>2. \A w : Holds(w)' = Holds(w)
    BY <2>1, HoldsSame
  <2>3. TypeOK' /\ Timely' /\ InHand' /\ Inventoried' /\ Accepting'
    BY <2>1 DEF IInv, TypeOK, Timely, ReadyInTime, Gated, InHand, Inventoried, SeenNames, Accepting, Done
  <2>4. AllRead'
    <3>1. Reading(kind)' = Reading(kind)
      BY <2>1
    <3>2. QED
      BY <2>1, <3>1 DEF IInv, AllRead, Covered, Done
  <2>5. StillVoid'
    <3>1. LastRead(kind)' = LastRead(kind)
      BY <2>1
    <3>2. QED
      BY <2>1, <2>2, <3>1 DEF IInv, StillVoid, Done
  <2>6. QED
    BY <2>3, <2>4, <2>5 DEF IInv
<1>3. QED
  BY <1>1, <1>2

LEMMA Initially == ASSUME Init PROVE IInv
<1>1. /\ kind \in Kinds /\ rebuild \in BOOLEAN /\ at = 1 /\ clock = 0
      /\ pc = IF kind = "preflight" THEN "checks" ELSE "run"
      /\ seen = Nothing /\ manifest = "none" /\ bytes = {} /\ edits = 0 /\ void = {}
  BY DEF Init
<1>2. 1..at - 1 = {} /\ \A c : ~Done(c)
  BY <1>1 DEF Done
<1>3. TypeOK
  <2>1. at \in 1..Len(Checks(kind))
    BY <1>1, Order DEF Ordered, Complete
  <2>2. 0 \in Edits /\ clock \in 0..Wait
    BY <1>1, AcceptedRcAssumption DEF Edits
  <2>3. seen \in [tag : Tags, release : Release, assets : SUBSET Asset]
    BY <1>1, <2>2 DEF Nothing, Tags, Release
  <2>4. rc \in [tag : Tags, release : Release, assets : SUBSET Asset]
    BY <2>2 DEF Init, Tags, Release, Asset
  <2>5. QED
    BY <1>1, <2>1, <2>2, <2>3, <2>4 DEF Init, TypeOK, Waiting
<1>4. Timely
  BY <1>1 DEF Timely, ReadyInTime
<1>5. InHand /\ Inventoried /\ AllRead /\ StillVoid /\ Accepting
  BY <1>1, <1>2 DEF InHand, Inventoried, AllRead, StillVoid, Accepting
<1>6. QED
  BY <1>3, <1>4, <1>5 DEF IInv

-----------------------------------------------------------------------------
(* The theorems.                                                           *)

(* What has been checked once a job accepts makes its bytes the run's.     *)
LEMMA AcceptedBytes == ASSUME IInv PROVE AcceptsGenuine
<1>1. ASSUME pc = "accepted"
      PROVE  /\ manifest = "genuine" /\ \A a \in bytes : a.genuine
             /\ (IF kind = "preflight" THEN {Receipt} ELSE Payload) \subseteq {a.name : a \in bytes}
  <2>1. kind \in Kinds /\ at = Len(Checks(kind)) /\ Complete(Checks(kind), Reading(kind))
    BY <1>1, Order DEF IInv, TypeOK, Accepting, Ordered
  <2>2. Done("evidence") /\ Done("inventory") /\ Done(Reading(kind))
    BY <2>1 DEF Complete, Done
  <2>3. manifest = "genuine" /\ \A a \in bytes : a.genuine
    BY <1>1, <2>2 DEF IInv, InHand
  <2>4. SeenNames = Payload \cup {Manifest} /\ Covered(seen.assets)
    BY <1>1, <2>2, <2>3 DEF IInv, Inventoried, AllRead
  <2>5. CASE kind = "preflight"
    BY <2>3, <2>4, <2>5 DEF Covered
  <2>6. CASE kind # "preflight"
    <3>1. ASSUME NEW n \in Payload PROVE n \in {a.name : a \in bytes}
      <4>1. PICK a \in seen.assets : a.name = n
        BY <2>4 DEF SeenNames
      <4>2. a \in bytes
        BY <2>4, <2>6, <4>1 DEF Covered, Named
      <4>3. QED
        BY <4>1, <4>2
    <3>2. QED
      BY <2>3, <2>6, <3>1
  <2>7. QED
    BY <2>5, <2>6
<1>2. QED
  BY <1>1 DEF AcceptsGenuine

(* What promote, publish_versioned, fetch_receipt and scheduled_reuse have *)
(* in hand between two requests follows from the checks they have done.    *)
THEOREM Invariant == Spec => []IInv
  BY Initially, Inductive, PTL DEF Spec

(* The four jobs keep to their types: no job is past its last check, and   *)
(* wait_for_executing_run never counts past its deadline.                  *)
THEOREM TypeCorrect == Spec => []TypeOK
<1>1. IInv => TypeOK
  BY DEF IInv
<1>2. QED
  BY <1>1, Invariant, PTL

(* wait_for_executing_run lets a job go on before its deadline only, and   *)
(* only on a success of its own attempt.                                   *)
THEOREM LeavesInTime == Spec => []ReadyInTime
<1>1. IInv => ReadyInTime
  BY DEF IInv, Timely
<1>2. QED
  BY <1>1, Invariant, PTL

(* promote, publish_versioned, fetch_receipt and scheduled_reuse check     *)
(* again, after the last byte was read, all that they rely on.             *)
THEOREM AcceptsWhatHolds == Spec => []AcceptsUnrevoked
<1>1. IInv => AcceptsUnrevoked
  BY DEF IInv, Accepting, AcceptsUnrevoked
<1>2. QED
  BY <1>1, Invariant, PTL

(* verify_evidence binds the manifest to the source run, the inventory and *)
(* the digests bind the assets to the manifest: whatever is uploaded,      *)
(* deleted or replaced meanwhile, the bytes a job accepts are that run's.  *)
THEOREM AcceptsTheRunsBytes == Spec => []AcceptsGenuine
  BY AcceptedBytes, Invariant, PTL
=============================================================================
