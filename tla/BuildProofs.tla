----------------------------- MODULE BuildProofs -----------------------------
(***************************************************************************)
(* Proofs about the build side, for any files, jobs and targets and any    *)
(* number of edits and faults: the inductive invariants of VersionSync and *)
(* OciPair, and with those of OciGraph and BuildReceipts the properties    *)
(* that MCBuild checks.                                                    *)
(***************************************************************************)
EXTENDS BuildChecksProofs

-----------------------------------------------------------------------------
(* VersionSync.                                                            *)

(* The file about to be replaced is what sync read, or was edited later.   *)
Comparing ==
  /\ ready # NoFile => pc = "replace" /\ ready \in todo
  /\ ready # NoFile /\ ~late => content[ready] = original[ready]

(* A revision is no newer than the edits so far, and no file is ever torn. *)
Dated ==
  \A f \in Files :
    /\ content[f].revision <= edits /\ content[f].version # "torn"
    /\ original[f].revision <= edits
    /\ f \in DOMAIN evidence => evidence[f].revision <= edits /\ evidence[f].version = "planned"

(* A file the build has read is as it was read, or has a revision that     *)
(* nothing written before it has; from the pin on it is the evidence's.    *)
BuildRead(f)  == (pc = "build" /\ f \notin todo) \/ pc \in {"check", "pin"}
PinnedRead(f) == (pc = "pin" /\ f \notin todo) \/ pc \in {"mkdir", "receipt", "staged"}

Evident ==
  /\ pc = "evidence" => todo = Files
  /\ pc \in {"build", "check", "pin", "mkdir", "receipt", "staged"} => evidence \in [Files -> Sync!Content]
  /\ \A f \in Files : BuildRead(f) =>
       built[f] = content[f] \/ content[f].revision > evidence[f].revision
  /\ \A f \in Files : PinnedRead(f) => built[f] = evidence[f]

(* Only a killed run leaves a directory, and it stays as it was left.      *)
Targeted ==
  /\ pc = "receipt" => staging = "partial" /\ ~orphan
  /\ staging = "partial" => pc = "receipt" \/ orphan
  /\ orphan => staging = "partial"

SyncInv == Sync!TypeOK /\ Comparing /\ lost = {} /\ Dated /\ Evident /\ Targeted

LEMMA SyncInit == ASSUME Sync!Init PROVE SyncInv
<1>1. 0 \in 0..SyncEdits /\ 0 \in 0..MaxFaults
  BY InstancesAssumption DEF Sync!VersionSyncAssumption
<1>2. Sync!Committed \in Sync!Content
  BY <1>1 DEF Sync!Committed, Sync!Content
<1>3. Sync!TypeOK
  BY <1>1, <1>2 DEF Sync!Init, Sync!TypeOK, Sync!Loops
<1>4. Comparing /\ Evident /\ Targeted
  BY DEF Sync!Init, Comparing, Evident, Targeted, BuildRead, PinnedRead
<1>5. Dated
  BY DEF Sync!Init, Dated, Sync!NoEvidence, Sync!Committed
<1>6. QED
  BY <1>3, <1>4, <1>5 DEF SyncInv, Sync!Init

(* Where a loop that is over leads.                                        *)
LEMMA SyncAfter ==
  ASSUME Sync!Done
  PROVE  /\ pc \in Sync!Loops /\ todo = {}
         /\ UNCHANGED <<content, original, ready, evidence, built, orphan, late, lost, edits, faults>>
         /\ <<pc, pc'>> \in {<<"verify", "read">>, <<"read", "recheck">>, <<"recheck", "replace">>,
                             <<"replace", "evidence">>, <<"build", "check">>, <<"check", "pin">>,
                             <<"pin", "mkdir">>, <<"receipt", "staged">>}
         /\ todo' \subseteq Files /\ (pc # "recheck" => todo' = Files)
         /\ staging' = IF pc = "receipt" THEN "complete" ELSE staging
  BY DEF Sync!Done, Sync!After, Sync!Loops, Sync!sync, Sync!hist, Sync!Drift

LEMMA SyncDone == ASSUME SyncInv, Sync!Done PROVE SyncInv'
<1>1. Sync!TypeOK /\ Comparing /\ lost = {} /\ Dated /\ Evident /\ Targeted
  BY DEF SyncInv
<1>2. /\ pc \in Sync!Loops /\ todo = {}
      /\ UNCHANGED <<content, original, ready, evidence, built, orphan, late, lost, edits, faults>>
      /\ todo' \subseteq Files /\ (pc # "recheck" => todo' = Files)
      /\ staging' = IF pc = "receipt" THEN "complete" ELSE staging
  BY SyncAfter
<1>3. <<pc, pc'>> \in {<<"verify", "read">>, <<"read", "recheck">>, <<"recheck", "replace">>,
                       <<"replace", "evidence">>, <<"build", "check">>, <<"check", "pin">>,
                       <<"pin", "mkdir">>, <<"receipt", "staged">>}
  BY SyncAfter
<1>4. Sync!TypeOK'
  BY <1>1, <1>2, <1>3 DEF Sync!TypeOK, Sync!Steps, Sync!Loops, Sync!Ended
<1>5. ready = NoFile
  BY <1>1, <1>2 DEF Comparing
<1>6. Comparing' /\ lost' = {} /\ Dated'
  BY <1>1, <1>2, <1>5 DEF Comparing, Dated
<1>7. Evident'
  <2>1. pc' = "evidence" => todo' = Files
    BY <1>2, <1>3
  <2>2. \A f \in Files : BuildRead(f)' => BuildRead(f)
    BY <1>2, <1>3 DEF BuildRead
  <2>3. \A f \in Files : PinnedRead(f)' => PinnedRead(f)
    BY <1>2, <1>3 DEF PinnedRead
  <2>4. pc' \in {"build", "check", "pin", "mkdir", "receipt", "staged"}
        => pc \in {"build", "check", "pin", "mkdir", "receipt", "staged"}
    BY <1>3
  <2>5. QED
    BY <1>1, <1>2, <2>1, <2>2, <2>3, <2>4 DEF Evident
<1>8. Targeted'
  BY <1>1, <1>2, <1>3 DEF Targeted
<1>9. QED
  BY <1>4, <1>6, <1>7, <1>8 DEF SyncInv

(* What a file passes says what it is.                                     *)
LEMMA SyncPinned ==
  ASSUME SyncInv, NEW f \in Files, pc \in {"pin", "receipt"}, Sync!Passes(f)
  PROVE  built[f] = evidence[f]
<1>1. content[f] = evidence[f] /\ evidence[f].revision <= edits /\ edits \in Nat
      /\ content[f].revision \in Nat
  BY DEF Sync!Passes, Sync!Pinned, SyncInv, Dated, Sync!TypeOK, Sync!Content
<1>2. CASE pc = "pin"
  <2>1. built[f] = content[f] \/ content[f].revision > evidence[f].revision
    BY <1>2 DEF SyncInv, Evident, BuildRead
  <2>2. QED
    BY <1>1, <2>1
<1>3. CASE pc = "receipt"
  BY <1>3 DEF SyncInv, Evident, PinnedRead
<1>4. QED
  BY <1>2, <1>3

LEMMA SyncCheckFile == ASSUME SyncInv, NEW f \in Files, Sync!CheckFile(f) PROVE SyncInv'
<1> USE DEF SyncInv
<1>1. /\ pc \in {"verify", "recheck", "check", "pin", "receipt"} /\ Sync!Passes(f)
      /\ todo' = todo \ {f}
      /\ UNCHANGED <<content, pc, original, ready, evidence, built, staging, orphan, late, lost, edits, faults>>
  BY DEF Sync!CheckFile, Sync!sync, Sync!hist
<1>2. Sync!TypeOK' /\ Comparing' /\ lost' = {} /\ Dated' /\ Targeted'
  BY <1>1 DEF Sync!TypeOK, Comparing, Dated, Targeted
<1>3. pc = "pin" => built[f] = evidence[f]
  BY <1>1, SyncPinned
<1>4. Evident'
  BY <1>1, <1>3 DEF Evident, BuildRead, PinnedRead
<1>5. QED
  BY <1>2, <1>4

LEMMA SyncReadFile == ASSUME SyncInv, NEW f \in Files, Sync!ReadFile(f) PROVE SyncInv'
<1> USE DEF SyncInv
<1>1. /\ pc = "read" /\ todo' = todo \ {f} /\ original' = [original EXCEPT ![f] = content[f]]
      /\ UNCHANGED <<content, pc, ready, evidence, built, staging, orphan, late, lost, edits, faults>>
  BY DEF Sync!ReadFile, Sync!hist
<1>2. Sync!TypeOK'
  BY <1>1 DEF Sync!TypeOK
<1>3. Comparing' /\ lost' = {} /\ Dated' /\ Targeted' /\ Evident'
  BY <1>1 DEF Sync!TypeOK, Comparing, Dated, Targeted, Evident, BuildRead, PinnedRead
<1>4. QED
  BY <1>2, <1>3

LEMMA SyncCompare == ASSUME SyncInv, NEW f \in Files, Sync!Compare(f) PROVE SyncInv'
<1> USE DEF SyncInv
<1>1. /\ pc = "replace" /\ f \in todo /\ ready' = f /\ content[f] = original[f]
      /\ UNCHANGED <<content, pc, todo, original, evidence, built, staging, orphan, late, lost, edits, faults>>
  BY DEF Sync!Compare, Sync!Passes, Sync!Unchanged, Sync!hist
<1>2. QED
  BY <1>1 DEF Sync!TypeOK, Comparing, Dated, Targeted, Evident, BuildRead, PinnedRead

LEMMA SyncReplace == ASSUME SyncInv, Sync!Replace PROVE SyncInv'
<1> USE DEF SyncInv
<1>1. /\ pc = "replace" /\ ready \in Files /\ ready # NoFile
      /\ content' = [content EXCEPT ![ready] = [original[ready] EXCEPT !.version = "planned"]]
      /\ lost' = IF content[ready] # original[ready] /\ ~late THEN lost \cup {ready} ELSE lost
      /\ todo' = todo \ {ready} /\ ready' = NoFile /\ late' = FALSE
      /\ UNCHANGED <<pc, original, evidence, built, staging, orphan, edits, faults>>
  BY DEF Sync!Replace, Sync!TypeOK
<1>2. lost' = {}
  BY <1>1 DEF Comparing
<1>3. [original[ready] EXCEPT !.version = "planned"] \in Sync!Content
  BY <1>1 DEF Sync!TypeOK, Sync!Content
<1>4. Sync!TypeOK'
  BY <1>1, <1>2, <1>3 DEF Sync!TypeOK
<1>5. Dated'
  <2>1. [original[ready] EXCEPT !.version = "planned"].revision = original[ready].revision
        /\ [original[ready] EXCEPT !.version = "planned"].version = "planned"
    BY <1>1 DEF Sync!TypeOK, Sync!Content
  <2>2. QED
    BY <1>1, <2>1 DEF Dated, Sync!TypeOK
<1>6. Comparing' /\ Targeted' /\ Evident'
  BY <1>1 DEF Comparing, Targeted, Evident, BuildRead, PinnedRead
<1>7. QED
  BY <1>2, <1>4, <1>5, <1>6

LEMMA SyncWriteEvidence == ASSUME SyncInv, Sync!WriteEvidence PROVE SyncInv'
<1> USE DEF SyncInv
<1>1. /\ pc = "evidence" /\ pc' = "build"
      /\ evidence' = [f \in Files |-> [original[f] EXCEPT !.version = "planned"]]
      /\ UNCHANGED <<content, todo, original, ready, built, staging, orphan, late, lost, edits, faults>>
  BY DEF Sync!WriteEvidence, Sync!hist
<1>2. \A f \in Files : /\ [original[f] EXCEPT !.version = "planned"] \in Sync!Content
                       /\ [original[f] EXCEPT !.version = "planned"].revision = original[f].revision
                       /\ [original[f] EXCEPT !.version = "planned"].version = "planned"
  BY DEF Sync!TypeOK, Sync!Content
<1>3. evidence' \in [Files -> Sync!Content]
  BY <1>1, <1>2
<1>4. todo = Files
  BY <1>1 DEF Evident
<1>5. Evident'
  BY <1>1, <1>3, <1>4 DEF Evident, BuildRead, PinnedRead
<1>6. Sync!TypeOK' /\ Comparing' /\ lost' = {} /\ Targeted'
  BY <1>1, <1>3 DEF Sync!TypeOK, Sync!Loops, Comparing, Targeted
<1>7. Dated'
  BY <1>1, <1>2 DEF Dated
<1>8. QED
  BY <1>5, <1>6, <1>7

LEMMA SyncBuild == ASSUME SyncInv, NEW f \in Files, Sync!Build(f) PROVE SyncInv'
<1> USE DEF SyncInv
<1>1. /\ pc = "build" /\ built' = [built EXCEPT ![f] = content[f]] /\ todo' = todo \ {f}
      /\ UNCHANGED <<content, pc, original, ready, evidence, staging, orphan, late, lost, edits, faults>>
  BY DEF Sync!Build, Sync!sync, Sync!hist
<1>2. QED
  BY <1>1 DEF Sync!TypeOK, Comparing, Dated, Targeted, Evident, BuildRead, PinnedRead

LEMMA SyncMkdir == ASSUME SyncInv, Sync!Mkdir PROVE SyncInv'
<1> USE DEF SyncInv
<1>1. /\ pc = "mkdir" /\ pc' = "receipt" /\ staging = "absent" /\ staging' = "partial"
      /\ UNCHANGED <<content, todo, original, ready, evidence, built, orphan, late, lost, edits, faults>>
  BY DEF Sync!Mkdir, Sync!sync, Sync!hist
<1>2. QED
  BY <1>1 DEF Sync!TypeOK, Sync!Loops, Comparing, Dated, Targeted, Evident, BuildRead, PinnedRead

(* A refusal, a failure or a kill.                                         *)
LEMMA SyncStops ==
  ASSUME SyncInv, Sync!Refuse \/ Sync!Fault
  PROVE  SyncInv'
<1> USE DEF SyncInv
<1>1. /\ pc' \in {"failed", "killed"} /\ ready' = NoFile
      /\ staging' = IF pc = "receipt" /\ pc' = "failed" THEN "absent" ELSE staging
      /\ orphan' = (orphan \/ (pc = "receipt" /\ pc' = "killed"))
      /\ faults' \in 0..MaxFaults /\ late' \in BOOLEAN
      /\ UNCHANGED <<content, todo, original, evidence, built, lost, edits>>
  <2>1. CASE Sync!Refuse
    <3>1. ready = NoFile
      BY <2>1 DEF Sync!Refuse, Comparing
    <3>2. QED
      BY <2>1, <3>1 DEF Sync!Refuse, Sync!Cleanup, Sync!sync, Sync!hist, Sync!TypeOK
  <2>2. CASE Sync!Fault
    <3>1. faults' \in 0..MaxFaults
      BY <2>2, InstancesAssumption DEF Sync!Fault, Sync!TypeOK, Sync!VersionSyncAssumption
    <3>2. QED
      BY <2>2, <3>1 DEF Sync!Fault, Sync!Cleanup
  <2>3. QED
    BY <2>1, <2>2
<1>2. Sync!TypeOK' /\ lost' = {}
  BY <1>1 DEF Sync!TypeOK, Sync!Ended
<1>3. Comparing' /\ Dated' /\ Evident'
  BY <1>1 DEF Comparing, Dated, Evident, BuildRead, PinnedRead
<1>4. Targeted'
  BY <1>1 DEF Targeted, Sync!TypeOK
<1>5. QED
  BY <1>2, <1>3, <1>4

LEMMA SyncRerun == ASSUME SyncInv, Sync!RerunHere \/ Sync!RerunFresh PROVE SyncInv'
<1> USE DEF SyncInv
<1>1. /\ pc \in {"failed", "killed"} /\ pc' = "verify" /\ todo' = Files
      /\ UNCHANGED <<original, ready, built, late, lost, edits, faults>>
  BY DEF Sync!RerunHere, Sync!RerunFresh, Sync!sync, Sync!hist
<1>2. \/ UNCHANGED <<content, evidence, staging, orphan>>
      \/ /\ content' = [f \in Files |-> Sync!Committed]
         /\ evidence' = Sync!NoEvidence /\ staging' = "absent" /\ orphan' = FALSE
  BY DEF Sync!RerunHere, Sync!RerunFresh, Sync!sync, Sync!hist
<1>3. Sync!Committed \in Sync!Content /\ edits \in Nat
  BY InstancesAssumption
     DEF Sync!Committed, Sync!Content, Sync!VersionSyncAssumption, Sync!TypeOK
<1>4. Sync!TypeOK' /\ lost' = {}
  BY <1>1, <1>2, <1>3 DEF Sync!TypeOK, Sync!Loops
<1>5. Comparing'
  BY <1>1 DEF Comparing
<1>6. Dated'
  BY <1>1, <1>2, <1>3 DEF Dated, Sync!Committed, Sync!NoEvidence
<1>7. Evident' /\ Targeted'
  BY <1>1, <1>2 DEF Evident, BuildRead, PinnedRead, Targeted
<1>8. QED
  BY <1>4, <1>5, <1>6, <1>7

LEMMA SyncEditFile == ASSUME SyncInv, NEW f \in Files, Sync!EditFile(f) PROVE SyncInv'
<1> USE DEF SyncInv
<1>1. /\ edits < SyncEdits /\ edits' = edits + 1
      /\ content' = [content EXCEPT ![f].revision = edits + 1] /\ late' = (late \/ f = ready)
      /\ UNCHANGED <<pc, todo, original, ready, evidence, built, staging, orphan, lost, faults>>
  BY DEF Sync!EditFile, Sync!sync
<1>2. edits \in Nat /\ edits + 1 \in 0..SyncEdits
  BY <1>1, InstancesAssumption DEF Sync!TypeOK, Sync!VersionSyncAssumption
<1>3. \A g \in Files : /\ content[g].revision \in Nat /\ original[g].revision \in Nat
                       /\ g \in DOMAIN evidence => evidence[g].revision \in Nat
  BY DEF Sync!TypeOK, Sync!Content, Sync!NoEvidence
<1>4. /\ content' \in [Files -> Sync!Content] /\ content'[f].revision = edits + 1
      /\ content'[f].version = content[f].version
      /\ \A g \in Files \ {f} : content'[g] = content[g]
  BY <1>1, <1>2 DEF Sync!TypeOK, Sync!Content
<1>5. Sync!TypeOK'
  BY <1>1, <1>2, <1>4 DEF Sync!TypeOK
<1>6. Dated'
  BY <1>1, <1>2, <1>3, <1>4 DEF Dated
<1>7. Comparing' /\ lost' = {} /\ Targeted'
  BY <1>1, <1>4 DEF Comparing, Targeted, Sync!TypeOK
<1>8. Evident'
  <2>1. ASSUME NEW g \in Files, BuildRead(g), evidence \in [Files -> Sync!Content]
        PROVE  built[g] = content'[g] \/ content'[g].revision > evidence[g].revision
    <3>1. evidence[g].revision <= edits /\ evidence[g].revision \in Nat
      BY <2>1, <1>3 DEF Dated
    <3>2. QED
      BY <1>2, <1>4, <2>1, <3>1 DEF Evident
  <2>2. QED
    BY <1>1, <2>1 DEF Evident, BuildRead, PinnedRead
<1>9. QED
  BY <1>5, <1>6, <1>7, <1>8

LEMMA SyncNext == ASSUME SyncInv, Sync!Next PROVE SyncInv'
  BY SyncDone, SyncCheckFile, SyncReadFile, SyncCompare, SyncReplace, SyncWriteEvidence, SyncBuild,
     SyncMkdir, SyncStops, SyncRerun, SyncEditFile
     DEF Sync!Next, Sync!Step

-----------------------------------------------------------------------------
(* OciPair.                                                                *)

(* The step of each platform's first and last pass, and of its last        *)
(* comparison.                                                             *)
Opens(p)   == IF p = "amd64" THEN 2 ELSE 6
Settles(p) == IF p = "amd64" THEN 12 ELSE 13

(* Whatever a job has read of an input is no older than what it opened,    *)
(* and no newer than what is there; it read one revision once it settled.  *)
Settled(j, p) == at[j] > Settles(p) \/ pc[j] \in Pair!Labels \ {"read", "failed"}

InOrder(j, p) ==
  /\ at[j] > Opens(p) =>
       /\ stat[j][p] <= revision[p][fd[j][p]]
       /\ \A r \in used[j][p] : stat[j][p] <= r /\ r <= revision[p][fd[j][p]]
  /\ at[j] > Opens(p) + 1 => used[j][p] # {}
  /\ at[j] <= Opens(p) => used[j][p] = {}
  /\ Settled(j, p) => used[j][p] = {stat[j][p]}

ReadInOrder == \A j \in Jobs, p \in Pair!Platforms : InOrder(j, p)

(* Every revision is one of the edits so far, of a file that was made.     *)
Revised == \A p \in Pair!Platforms : \A f \in Pair!Edits : revision[p][f] <= edits

(* A job's file is at an output only if the job got so far.                *)
Linking ==
  \A j \in Jobs :
    /\ pc[j] \in {"read", "link"} => linked[j] < Len(Pair!Outputs)
    /\ pc[j] = "read" => linked[j] = 0
    /\ out["image"] = j => linked[j] > 0 /\ pc[j] # "failed"
    /\ out["sidecar"] = j => pc[j] = "done"
    /\ \A n \in Pair!Names : staged[n] = j => pc[j] # "read"

PairInv == Pair!TypeOK /\ ReadInOrder /\ Revised /\ Linking /\ Pair!StagedWhole

LEMMA PairSteps ==
  /\ Len(Pair!Steps) = 13
  /\ \A i \in 1..13 :
       /\ Pair!Steps[i] = "absent" => i = 1
       /\ Pair!Steps[i] = "open" => i \in {2, 6}
       /\ Pair!Steps[i] \in {"hash", "walk", "copy"} => i \in {3, 4, 7, 8, 10, 11}
       /\ Pair!Steps[i] = "settle" => i \in {5, 9, 12, 13}
  BY DEF Pair!Steps

LEMMA PairPlatform ==
  \A j \in Jobs : Pair!Platform(j) \in Pair!Platforms
                  /\ (Pair!Platform(j) = "arm64" <=> at[j] \in {6, 7, 8, 9, 11, 13})
  BY DEF Pair!Platform, Pair!Platforms, Pair!Order, Pair!Second

LEMMA PairInit == ASSUME Pair!Init PROVE PairInv
<1>1. PairEdits \in Nat /\ Other \notin Jobs /\ Missing \notin Jobs \cup {Other}
  BY InstancesAssumption DEF Pair!OciPairAssumption
<1>2. 0 \in Pair!Edits /\ Len(Pair!Outputs) \in Nat /\ Len(Pair!Outputs) > 0
  BY <1>1 DEF Pair!Edits, Pair!Outputs
<1>3. Pair!TypeOK
  BY <1>1, <1>2, PairSteps DEF Pair!Init, Pair!TypeOK, Pair!Labels
<1>4. ReadInOrder
  BY DEF Pair!Init, ReadInOrder, InOrder, Opens, Settles, Settled
<1>5. Revised
  BY <1>1 DEF Pair!Init, Revised, Pair!Edits
<1>6. Linking
  BY <1>1, <1>2 DEF Pair!Init, Linking, Pair!Names
<1>7. Pair!StagedWhole
  BY DEF Pair!Init, Pair!StagedWhole
<1>8. QED
  BY <1>3, <1>4, <1>5, <1>6, <1>7 DEF PairInv

(* A step of reading: which step it is, and what it leaves alone.          *)
PairReads(j) ==
  Pair!CheckAbsent(j) \/ Pair!Open(j) \/ Pair!Read(j) \/ Pair!Settle(j)

LEMMA PairReading ==
  ASSUME PairInv, NEW j \in Jobs, PairReads(j)
  PROVE  /\ pc[j] = "read" /\ at[j] \in 1..13
         /\ \/ at[j] < 13 /\ at' = [at EXCEPT ![j] = at[j] + 1] /\ pc' = [pc EXCEPT ![j] = "read"]
            \/ at[j] = 13 /\ at' = [at EXCEPT ![j] = at[j]] /\ pc' = [pc EXCEPT ![j] = "link"]
         /\ UNCHANGED <<op, path, revision, linked, out, stager, staged, edits>>
<1>1. at \in [Jobs -> 1..13] /\ pc[j] = "read"
  BY PairSteps DEF PairInv, Pair!TypeOK, PairReads, Pair!CheckAbsent, Pair!Open, Pair!Read,
                   Pair!Settle, Pair!Doing
<1>2. Pair!Advance(j)
  BY DEF PairReads, Pair!CheckAbsent, Pair!Open, Pair!Read, Pair!Settle
<1>3. UNCHANGED <<op, path, revision, linked, out, stager, staged, edits>>
  BY DEF PairReads, Pair!CheckAbsent, Pair!Open, Pair!Read, Pair!Settle, Pair!Keep, Pair!inputs,
         Pair!staging
<1>4. CASE at[j] = 13
  <2>1. at' = [at EXCEPT ![j] = at[j]] /\ pc' = [pc EXCEPT ![j] = "link"]
    BY <1>2, <1>4, PairSteps DEF Pair!Advance, Pair!Goto
  <2>2. QED
    BY <1>1, <1>3, <1>4, <2>1
<1>5. CASE at[j] # 13
  <2>1. at' = [at EXCEPT ![j] = at[j] + 1] /\ pc' = [pc EXCEPT ![j] = "read"]
    BY <1>2, <1>5, PairSteps DEF Pair!Advance, Pair!Goto
  <2>2. QED
    BY <1>1, <1>3, <1>5, <2>1
<1>6. QED
  BY <1>4, <1>5

(* What of the invariant does not depend on what a step of reading reads.  *)
LEMMA PairReadKeeps ==
  ASSUME PairInv, NEW j \in Jobs, PairReads(j),
         \A k \in Jobs \ {j} : fd'[k] = fd[k] /\ stat'[k] = stat[k]
  PROVE  /\ at' \in [Jobs -> 1..13] /\ pc' \in [Jobs -> Pair!Labels]
         /\ Linking' /\ Revised' /\ Pair!StagedWhole'
<1>1. /\ pc[j] = "read" /\ at[j] \in 1..13
      /\ \/ at[j] < 13 /\ at' = [at EXCEPT ![j] = at[j] + 1] /\ pc' = [pc EXCEPT ![j] = "read"]
         \/ at[j] = 13 /\ at' = [at EXCEPT ![j] = at[j]] /\ pc' = [pc EXCEPT ![j] = "link"]
      /\ UNCHANGED <<op, path, revision, linked, out, stager, staged, edits>>
  BY PairReading
<1>2. at \in [Jobs -> 1..13] /\ pc \in [Jobs -> Pair!Labels]
  BY PairSteps DEF PairInv, Pair!TypeOK
<1>3. at' \in [Jobs -> 1..13] /\ pc' \in [Jobs -> Pair!Labels]
  BY <1>1, <1>2 DEF Pair!Labels
<1>4. Linking' /\ Revised'
  BY <1>1, <1>2 DEF PairInv, Linking, Revised, Pair!Outputs
<1>5. Pair!StagedWhole'
  <2>1. \A n \in Pair!Names : staged[n] # j
    BY <1>1 DEF PairInv, Linking
  <2>2. QED
    BY <1>1, <2>1 DEF PairInv, Pair!StagedWhole, Pair!Names, Pair!Bytes
<1>6. QED
  BY <1>3, <1>4, <1>5

(* A step that reads or compares one input says nothing of any other.      *)
LEMMA PairOthersInOrder ==
  ASSUME PairInv, NEW j \in Jobs, PairReads(j),
         NEW k \in Jobs, NEW p \in Pair!Platforms,
         fd'[k][p] = fd[k][p], stat'[k][p] = stat[k][p], used'[k][p] = used[k][p],
         k = j => at[j] \notin {Opens(p), Opens(p) + 1, Settles(p)}
  PROVE  InOrder(k, p)'
<1>1. /\ pc[j] = "read" /\ at[j] \in 1..13
      /\ \/ at[j] < 13 /\ at' = [at EXCEPT ![j] = at[j] + 1] /\ pc' = [pc EXCEPT ![j] = "read"]
         \/ at[j] = 13 /\ at' = [at EXCEPT ![j] = at[j]] /\ pc' = [pc EXCEPT ![j] = "link"]
      /\ UNCHANGED <<op, path, revision, linked, out, stager, staged, edits>>
  BY PairReading
<1>2. at \in [Jobs -> 1..13] /\ pc \in [Jobs -> Pair!Labels] /\ InOrder(k, p)
  BY PairSteps DEF PairInv, Pair!TypeOK, ReadInOrder, InOrder
<1>3. CASE k # j
  <2>1. at'[k] = at[k] /\ pc'[k] = pc[k]
    BY <1>1, <1>2, <1>3
  <2>2. QED
    BY <1>1, <1>2, <2>1 DEF InOrder, Settled
<1>4. CASE k = j
  <2>1. at[k] > Opens(p) <=> at'[k] > Opens(p)
    BY <1>1, <1>2, <1>4 DEF Opens
  <2>2. at[k] > Opens(p) + 1 <=> at'[k] > Opens(p) + 1
    BY <1>1, <1>2, <1>4 DEF Opens
  <2>3. Settled(k, p)' => Settled(k, p)
    BY <1>1, <1>2, <1>4 DEF Settled, Settles
  <2>4. at[k] <= Opens(p) <=> at'[k] <= Opens(p)
    BY <1>1, <1>2, <1>4 DEF Opens
  <2>5. QED
    BY <1>1, <1>2, <2>1, <2>2, <2>3, <2>4 DEF InOrder
<1>5. QED
  BY <1>3, <1>4

LEMMA PairCheckAbsent == ASSUME PairInv, NEW j \in Jobs, Pair!CheckAbsent(j) PROVE PairInv'
<1>1. PairReads(j) /\ UNCHANGED <<fd, stat, used>> /\ at[j] = 1
  BY PairReading, PairSteps DEF PairReads, Pair!CheckAbsent, Pair!Doing
<1>2. ReadInOrder'
  BY <1>1, PairOthersInOrder DEF ReadInOrder, Opens, Settles
<1>3. Pair!TypeOK'
  BY <1>1, PairReading, PairReadKeeps, PairSteps DEF PairInv, Pair!TypeOK, Pair!Outputs
<1>4. QED
  BY <1>1, <1>2, <1>3, PairReadKeeps DEF PairInv

LEMMA PairOpen == ASSUME PairInv, NEW j \in Jobs, Pair!Open(j) PROVE PairInv'
<1>0. PICK p \in Pair!Platforms : p = Pair!Platform(j)
  BY PairPlatform
<1>1. /\ PairReads(j) /\ at[j] \in {2, 6} /\ p \in Pair!Platforms /\ Opens(p) = at[j]
      /\ fd' = [fd EXCEPT ![j][p] = path[p]]
      /\ stat' = [stat EXCEPT ![j][p] = revision[p][path[p]]]
      /\ used' = used
  <2>1. PairReads(j) /\ Pair!Steps[at[j]] = "open"
    BY DEF PairReads, Pair!Open, Pair!Doing
  <2>2. at[j] \in {2, 6}
    BY <2>1, PairReading, PairSteps
  <2>3. Opens(p) = at[j]
    BY <1>0, <2>2, PairPlatform DEF Opens, Pair!Platforms
  <2>4. QED
    BY <1>0, <2>1, <2>2, <2>3 DEF Pair!Open
<1>2. /\ path[p] \in Pair!Edits /\ revision[p][path[p]] \in Pair!Edits
      /\ fd \in [Jobs -> [Pair!Platforms -> Pair!Edits]]
      /\ stat \in [Jobs -> [Pair!Platforms -> Pair!Edits]]
  BY <1>1 DEF PairInv, Pair!TypeOK
<1>3. /\ fd' \in [Jobs -> [Pair!Platforms -> Pair!Edits]]
      /\ stat' \in [Jobs -> [Pair!Platforms -> Pair!Edits]]
      /\ fd'[j][p] = path[p] /\ stat'[j][p] = revision[p][path[p]]
      /\ \A k \in Jobs, q \in Pair!Platforms :
           k # j \/ q # p => fd'[k][q] = fd[k][q] /\ stat'[k][q] = stat[k][q]
      /\ \A k \in Jobs \ {j} : fd'[k] = fd[k] /\ stat'[k] = stat[k]
  BY <1>1, <1>2
<1>4. Pair!TypeOK'
  BY <1>1, <1>3, PairReading, PairReadKeeps, PairSteps DEF PairInv, Pair!TypeOK, Pair!Outputs
<1>5. InOrder(j, p)'
  <2>1. used[j][p] = {} /\ pc[j] = "read" /\ at[j] < 13
    BY <1>1, PairReading DEF PairInv, ReadInOrder, InOrder
  <2>2. at'[j] = Opens(p) + 1 /\ pc'[j] = "read" /\ revision' = revision
    BY <1>1, <2>1, PairReading, PairSteps DEF PairInv, Pair!TypeOK
  <2>3. stat'[j][p] <= revision'[p][fd'[j][p]]
    BY <1>1, <1>2, <1>3, <2>2 DEF Pair!Edits
  <2>4. QED
    BY <1>1, <2>1, <2>2, <2>3 DEF InOrder, Settled, Opens, Settles
<1>6. ASSUME NEW k \in Jobs, NEW q \in Pair!Platforms, k # j \/ q # p
      PROVE  InOrder(k, q)'
  <2>1. k = j => at[j] \notin {Opens(q), Opens(q) + 1, Settles(q)}
    BY <1>1, <1>6 DEF Opens, Settles, Pair!Platforms
  <2>2. fd'[k][q] = fd[k][q] /\ stat'[k][q] = stat[k][q] /\ used'[k][q] = used[k][q]
    BY <1>1, <1>3, <1>6
  <2>3. QED
    BY <1>1, <2>1, <2>2, PairOthersInOrder
<1>7. ReadInOrder'
  BY <1>5, <1>6 DEF ReadInOrder
<1>8. QED
  BY <1>1, <1>3, <1>4, <1>7, PairReadKeeps DEF PairInv

LEMMA PairRead == ASSUME PairInv, NEW j \in Jobs, Pair!Read(j) PROVE PairInv'
<1>0. PICK p \in Pair!Platforms : p = Pair!Platform(j)
  BY PairPlatform
<1>r. PICK r : r = revision[p][fd[j][p]]
  OBVIOUS
<1>1. /\ PairReads(j) /\ at[j] \in {3, 4, 7, 8, 10, 11} /\ p \in Pair!Platforms
      /\ p = "arm64" <=> at[j] \in {7, 8, 11}
      /\ used' = [used EXCEPT ![j][p] = used[j][p] \cup {r}]
      /\ UNCHANGED <<fd, stat>>
  <2>1. PairReads(j) /\ Pair!Steps[at[j]] \in {"hash", "walk", "copy"}
    BY DEF PairReads, Pair!Read, Pair!Doing
  <2>2. at[j] \in {3, 4, 7, 8, 10, 11}
    BY <2>1, PairReading, PairSteps
  <2>3. p = "arm64" <=> at[j] \in {7, 8, 11}
    BY <1>0, <2>2, PairPlatform DEF Pair!Platforms
  <2>4. QED
    BY <1>0, <1>r, <2>1, <2>2, <2>3 DEF Pair!Read
<1>2. r \in Pair!Edits /\ stat[j][p] \in Pair!Edits
      /\ used \in [Jobs -> [Pair!Platforms -> SUBSET Pair!Edits]]
  BY <1>1, <1>r DEF PairInv, Pair!TypeOK
<1>3. /\ used' \in [Jobs -> [Pair!Platforms -> SUBSET Pair!Edits]]
      /\ used'[j][p] = used[j][p] \cup {r}
      /\ \A k \in Jobs, q \in Pair!Platforms : k # j \/ q # p => used'[k][q] = used[k][q]
  BY <1>1, <1>2
<1>4. Pair!TypeOK'
  BY <1>1, <1>3, PairReading, PairReadKeeps, PairSteps DEF PairInv, Pair!TypeOK, Pair!Outputs
<1>5. InOrder(j, p)'
  <2>1. InOrder(j, p) /\ at[j] > Opens(p) /\ at[j] < Settles(p)
    BY <1>1 DEF PairInv, ReadInOrder, Opens, Settles, Pair!Platforms
  <2>2. at'[j] = at[j] + 1 /\ pc'[j] = "read" /\ revision' = revision /\ at[j] \in Nat
    BY <1>1, PairReading, PairSteps DEF PairInv, Pair!TypeOK
  <2>3. stat[j][p] <= r
    BY <1>r, <2>1 DEF InOrder
  <2>4. \A x \in used'[j][p] : stat[j][p] <= x /\ x <= r
    <3>1. \A x \in used[j][p] : stat[j][p] <= x /\ x <= r
      BY <1>r, <2>1 DEF InOrder
    <3>2. r <= r
      BY <1>2 DEF Pair!Edits
    <3>3. QED
      BY <1>3, <2>3, <3>1, <3>2
  <2>5. ~Settled(j, p)' /\ at'[j] > Opens(p)
    BY <1>1, <2>1, <2>2 DEF Settled, Settles, Opens
  <2>6. revision'[p][fd'[j][p]] = r /\ stat'[j][p] = stat[j][p]
    BY <1>1, <1>r, <2>2
  <2>7. used'[j][p] # {} /\ ~(at'[j] <= Opens(p))
    BY <1>3, <2>1, <2>2 DEF Opens
  <2>8. QED
    BY <2>3, <2>4, <2>5, <2>6, <2>7 DEF InOrder
<1>6. ASSUME NEW k \in Jobs, NEW q \in Pair!Platforms, k # j \/ q # p
      PROVE  InOrder(k, q)'
  <2>1. k = j => at[j] \notin {Opens(q), Opens(q) + 1, Settles(q)}
    BY <1>1, <1>6 DEF Opens, Settles, Pair!Platforms
  <2>2. fd'[k][q] = fd[k][q] /\ stat'[k][q] = stat[k][q] /\ used'[k][q] = used[k][q]
    BY <1>1, <1>3, <1>6
  <2>3. QED
    BY <1>1, <2>1, <2>2, PairOthersInOrder
<1>7. ReadInOrder'
  BY <1>5, <1>6 DEF ReadInOrder
<1>8. QED
  BY <1>1, <1>4, <1>7, PairReadKeeps DEF PairInv

LEMMA PairSettle == ASSUME PairInv, NEW j \in Jobs, Pair!Settle(j) PROVE PairInv'
<1>0. PICK p \in Pair!Platforms : p = Pair!Platform(j)
  BY PairPlatform
<1>1. /\ PairReads(j) /\ at[j] \in {5, 9, 12, 13} /\ p \in Pair!Platforms
      /\ p = "arm64" <=> at[j] \in {9, 13}
      /\ revision[p][fd[j][p]] = stat[j][p] /\ UNCHANGED <<fd, stat, used>>
  <2>1. PairReads(j) /\ Pair!Steps[at[j]] = "settle"
    BY DEF PairReads, Pair!Settle, Pair!Doing
  <2>2. at[j] \in {5, 9, 12, 13}
    BY <2>1, PairReading, PairSteps
  <2>3. p = "arm64" <=> at[j] \in {9, 13}
    BY <1>0, <2>2, PairPlatform DEF Pair!Platforms
  <2>4. QED
    BY <1>0, <2>1, <2>2, <2>3 DEF Pair!Settle
<1>2. Pair!TypeOK'
  BY <1>1, PairReading, PairReadKeeps, PairSteps DEF PairInv, Pair!TypeOK, Pair!Outputs
<1>3. ASSUME NEW k \in Jobs, NEW q \in Pair!Platforms, k # j \/ at[j] # Settles(q)
      PROVE  InOrder(k, q)'
  <2>1. k = j => at[j] \notin {Opens(q), Opens(q) + 1, Settles(q)}
    BY <1>1, <1>3 DEF Opens, Settles, Pair!Platforms
  <2>2. QED
    BY <1>1, <2>1, PairOthersInOrder
<1>4. ASSUME NEW q \in Pair!Platforms, at[j] = Settles(q)
      PROVE  InOrder(j, q)'
  <2>1. q = p /\ at[j] > Opens(q) + 1
    BY <1>1, <1>4 DEF Settles, Opens, Pair!Platforms
  <2>2. InOrder(j, q) /\ used[j][q] \subseteq Pair!Edits /\ stat[j][q] \in Pair!Edits
    BY DEF PairInv, ReadInOrder, Pair!TypeOK
  <2>3. used[j][q] # {} /\ \A r \in used[j][q] : stat[j][q] <= r /\ r <= stat[j][q]
    BY <1>1, <2>1, <2>2 DEF InOrder, Opens
  <2>4. \A r \in used[j][q] : r = stat[j][q]
    BY <2>2, <2>3 DEF Pair!Edits
  <2>5. used[j][q] = {stat[j][q]}
    BY <2>3, <2>4
  <2>6. at'[j] \in {at[j], at[j] + 1} /\ revision' = revision
    BY <1>1, PairReading, PairSteps DEF PairInv, Pair!TypeOK
  <2>7. QED
    BY <1>1, <2>1, <2>2, <2>5, <2>6 DEF InOrder, Opens
<1>5. ReadInOrder'
  BY <1>3, <1>4 DEF ReadInOrder
<1>6. QED
  BY <1>1, <1>2, <1>5, PairReadKeeps DEF PairInv

(* A step that neither reads nor edits an input leaves what was read.      *)
LEMMA PairKeepsRead ==
  ASSUME PairInv, UNCHANGED <<at, fd, stat, used, revision>>,
         \A k \in Jobs : pc'[k] = pc[k] \/ pc'[k] = "failed" \/ pc[k] \in {"link", "undo", "unlink"}
  PROVE  ReadInOrder'
<1>1. ASSUME NEW k \in Jobs, NEW p \in Pair!Platforms PROVE InOrder(k, p)'
  <2>1. InOrder(k, p)
    BY DEF PairInv, ReadInOrder
  <2>2. Settled(k, p)' => Settled(k, p)
    BY DEF Settled, Pair!Labels
  <2>3. QED
    BY <2>1, <2>2 DEF InOrder
<1>2. QED
  BY <1>1 DEF ReadInOrder

LEMMA PairOutputs ==
  /\ Len(Pair!Outputs) \in {1, 2} /\ Pair!Outputs[1] = "image"
  /\ Len(Pair!Outputs) = 2 => Pair!Outputs[2] = "sidecar"
  BY DEF Pair!Outputs

LEMMA PairNames == Pair!Names = {"image", "sidecar"} /\ \A j \in Jobs : j \notin {Other, Missing}
  BY InstancesAssumption DEF Pair!OciPairAssumption, Pair!Names

LEMMA PairLink == ASSUME PairInv, NEW j \in Jobs, Pair!Link(j) PROVE PairInv'
<1>1. PICK n \in Pair!Names : n = Pair!NextOutput(j)
                              /\ n = IF linked[j] = 0 THEN "image" ELSE "sidecar"
  <2>1. linked[j] \in 0..1 /\ linked[j] < Len(Pair!Outputs)
    <3>1. linked[j] \in 0..Len(Pair!Outputs)
      BY DEF PairInv, Pair!TypeOK
    <3>2. linked[j] < Len(Pair!Outputs)
      BY DEF PairInv, Linking, Pair!Link
    <3>3. PICK length \in 1..2 : length = Len(Pair!Outputs)
      BY PairOutputs
    <3>4. QED
      BY <3>1, <3>2, <3>3
  <2>2. QED
    BY <2>1, PairOutputs, PairNames DEF Pair!NextOutput
<1>2. /\ pc[j] = "link" /\ out[n] = Missing /\ linked[j] \in Nat /\ linked[j] < Len(Pair!Outputs)
      /\ out' = [out EXCEPT ![n] = j]
      /\ linked' = [linked EXCEPT ![j] = linked[j] + 1]
      /\ pc' = [pc EXCEPT ![j] = IF linked[j] + 1 = Len(Pair!Outputs) THEN "done" ELSE "link"]
      /\ UNCHANGED <<op, path, revision, at, fd, stat, used, stager, staged, edits>>
  BY <1>1 DEF Pair!Link, Pair!Goto, Pair!inputs, Pair!reading, Pair!staging, PairInv, Linking,
              Pair!TypeOK
<1>3. /\ pc' \in [Jobs -> Pair!Labels] /\ out' \in [Pair!Names -> Jobs \cup {Other, Missing}]
      /\ linked' \in [Jobs -> 0..Len(Pair!Outputs)]
  BY <1>2, PairOutputs DEF PairInv, Pair!TypeOK, Pair!Labels
<1>4. Pair!TypeOK'
  <2>1. Len(Pair!Outputs)' = Len(Pair!Outputs)
    BY <1>2 DEF Pair!Outputs
  <2>2. QED
    BY <1>2, <1>3, <2>1 DEF PairInv, Pair!TypeOK
<1>5. ReadInOrder'
  <2>1. \A k \in Jobs \ {j} : pc'[k] = pc[k]
    BY <1>2 DEF PairInv, Pair!TypeOK
  <2>2. QED
    BY <1>2, <2>1, PairKeepsRead
<1>6. Revised' /\ Pair!StagedWhole'
  BY <1>2 DEF PairInv, Revised, Pair!StagedWhole, Pair!Bytes
<1>7. ASSUME NEW k \in Jobs
      PROVE  /\ pc'[k] \in {"read", "link"} => linked'[k] < Len(Pair!Outputs)
             /\ pc'[k] = "read" => linked'[k] = 0
             /\ out'["image"] = k => linked'[k] > 0 /\ pc'[k] # "failed"
             /\ out'["sidecar"] = k => pc'[k] = "done"
             /\ \A m \in Pair!Names : staged'[m] = k => pc'[k] # "read"
  <2>1. CASE k # j
    BY <1>1, <1>2, <2>1, PairNames DEF PairInv, Pair!TypeOK, Linking
  <2>2. CASE k = j
    <3>1. linked'[j] = linked[j] + 1 /\ pc'[j] \in {"link", "done"}
          /\ (pc'[j] = "done" <=> linked[j] + 1 = Len(Pair!Outputs))
      BY <1>2 DEF PairInv, Pair!TypeOK
    <3>2. out'["sidecar"] = j => n = "sidecar"
      BY <1>2, PairNames DEF PairInv, Pair!TypeOK, Linking
    <3>3. n = "sidecar" => pc'[j] = "done"
      <4>1. n = "sidecar" => linked[j] # 0
        BY <1>1
      <4>2. PICK length \in 1..2 : length = Len(Pair!Outputs)
        BY PairOutputs
      <4>3. linked[j] # 0 => linked[j] + 1 = length
        BY <1>2, <4>2
      <4>4. QED
        BY <3>1, <4>1, <4>2, <4>3
    <3>4. QED
      BY <1>2, <2>2, <3>1, <3>2, <3>3, PairOutputs
  <2>3. QED
    BY <2>1, <2>2
<1>8. Linking'
  BY <1>2, <1>7 DEF Linking, Pair!Outputs
<1>9. QED
  BY <1>4, <1>5, <1>6, <1>8 DEF PairInv

(* The steps after a link failed, a rejection and a kill.                  *)
LEMMA PairEnds ==
  ASSUME PairInv, NEW j \in Jobs,
         Pair!LinkFails(j) \/ Pair!Undo(j) \/ Pair!Unlink(j) \/ Pair!Reject(j) \/ Pair!Kill(j)
  PROVE  PairInv'
<1>1. PICK label \in {"failed", "undo", "unlink", "left", "killed"} :
        /\ pc' = [pc EXCEPT ![j] = label]
        /\ pc[j] \in {"link", "undo", "unlink"} \/ label = "failed"
        /\ label # "failed" => pc[j] \in {"link", "undo", "unlink"}
        /\ out' = out \/ (label = "failed" /\ out' = [out EXCEPT !["image"] = Missing])
        /\ label = "failed" => out'["image"] # j
        /\ pc[j] # "done"
  <2>1. CASE Pair!LinkFails(j)
    <3>1. pc[j] = "link" /\ out' = out
          /\ pc' = [pc EXCEPT ![j] = IF linked[j] = 0 THEN "failed" ELSE "undo"]
      BY <2>1 DEF Pair!LinkFails, Pair!Goto
    <3>2. CASE linked[j] = 0
      <4>1. out["image"] # j
        BY <3>2 DEF PairInv, Linking
      <4>2. QED
        BY <3>1, <3>2, <4>1
    <3>3. CASE linked[j] # 0
      BY <3>1, <3>3
    <3>4. QED
      BY <3>2, <3>3
  <2>2. CASE Pair!Undo(j)
    BY <2>2 DEF Pair!Undo, Pair!Goto
  <2>3. CASE Pair!Unlink(j)
    BY <2>3, PairNames DEF Pair!Unlink, Pair!Goto, PairInv, Pair!TypeOK
  <2>4. CASE Pair!Reject(j)
    BY <2>4 DEF Pair!Reject, Pair!Goto, PairInv, Linking
  <2>5. CASE Pair!Kill(j)
    BY <2>5 DEF Pair!Kill, Pair!Goto
  <2>6. QED
    BY <2>1, <2>2, <2>3, <2>4, <2>5
<1>2. UNCHANGED <<op, path, revision, at, fd, stat, used, linked, stager, staged, edits>>
  BY DEF Pair!LinkFails, Pair!Undo, Pair!Unlink, Pair!Reject, Pair!Kill, Pair!inputs, Pair!reading,
         Pair!staging
<1>3. Pair!TypeOK'
  <2>1. pc' \in [Jobs -> Pair!Labels] /\ out' \in [Pair!Names -> Jobs \cup {Other, Missing}]
    BY <1>1 DEF PairInv, Pair!TypeOK, Pair!Labels
  <2>2. QED
    BY <1>2, <2>1 DEF PairInv, Pair!TypeOK, Pair!Outputs
<1>4. pc'[j] = label /\ \A k \in Jobs \ {j} : pc'[k] = pc[k]
  BY <1>1 DEF PairInv, Pair!TypeOK
<1>5. ReadInOrder'
  BY <1>1, <1>2, <1>4, PairKeepsRead
<1>6. Revised' /\ Pair!StagedWhole'
  BY <1>2 DEF PairInv, Revised, Pair!StagedWhole, Pair!Bytes
<1>7. \A k \in Jobs, n \in Pair!Names : out'[n] = k => out[n] = k
  BY <1>1, PairNames DEF PairInv, Pair!TypeOK
<1>8. Linking'
  BY <1>1, <1>2, <1>4, <1>7, PairNames DEF PairInv, Linking, Pair!Outputs
<1>9. QED
  BY <1>3, <1>5, <1>6, <1>8 DEF PairInv

LEMMA PairStaging ==
  ASSUME PairInv, Pair!Collect \/ Pair!VerifyStaged \/ Pair!Unstage
  PROVE  PairInv'
<1>1. /\ UNCHANGED <<op, pc, path, revision, at, fd, stat, used, linked, out, edits>>
      /\ stager' \in {"copy", "verify", "staged", "refused"}
      /\ \A n \in Pair!Names : staged'[n] \in {staged[n], out[n], Missing}
      /\ staged' \in [Pair!Names -> Jobs \cup {Other, Missing}]
  BY PairNames DEF Pair!Collect, Pair!VerifyStaged, Pair!Unstage, Pair!inputs, Pair!reading,
                   PairInv, Pair!TypeOK
<1>2. Pair!TypeOK' /\ Revised'
  BY <1>1 DEF PairInv, Pair!TypeOK, Pair!Outputs, Revised
<1>3. ReadInOrder'
  BY <1>1, PairKeepsRead
<1>4. Linking'
  BY <1>1, PairNames DEF PairInv, Linking, Pair!Outputs
<1>5. Pair!StagedWhole'
  <2>1. ASSUME Pair!VerifyStaged, op = "detach", \E n \in Pair!Names : staged[n] # Missing
        PROVE  Pair!Binds(staged["image"], staged["sidecar"]) /\ staged' = staged
    BY <2>1 DEF Pair!VerifyStaged
  <2>2. CASE Pair!VerifyStaged
    BY <1>1, <2>1, <2>2, PairNames DEF Pair!StagedWhole, Pair!Binds, Pair!Bytes, Pair!VerifyStaged
  <2>3. CASE ~Pair!VerifyStaged
    <3>1. stager' # "staged"
      BY <2>3 DEF Pair!Collect, Pair!Unstage
    <3>2. QED
      BY <3>1 DEF Pair!StagedWhole
  <2>4. QED
    BY <2>2, <2>3
<1>6. QED
  BY <1>2, <1>3, <1>4, <1>5 DEF PairInv

LEMMA PairEditInput == ASSUME PairInv, NEW p \in Pair!Platforms, Pair!EditInput(p) PROVE PairInv'
<1>1. /\ edits' = edits + 1 /\ edits < PairEdits
      /\ UNCHANGED <<op, pc, at, fd, stat, used, linked, out, stager, staged>>
      /\ \/ revision' = [revision EXCEPT ![p][path[p]] = edits + 1] /\ path' = path
         \/ path' = [path EXCEPT ![p] = edits + 1] /\ revision' = revision
  BY DEF Pair!EditInput, Pair!Edited, Pair!reading, Pair!staging
<1>2. edits \in Nat /\ edits + 1 \in Pair!Edits /\ edits \in Pair!Edits
  BY <1>1, InstancesAssumption DEF PairInv, Pair!TypeOK, Pair!Edits, Pair!OciPairAssumption
<1>3. /\ path' \in [Pair!Platforms -> Pair!Edits]
      /\ revision' \in [Pair!Platforms -> [Pair!Edits -> Pair!Edits]]
      /\ \A q \in Pair!Platforms, f \in Pair!Edits : revision'[q][f] \in {revision[q][f], edits + 1}
  <2>1. path \in [Pair!Platforms -> Pair!Edits]
        /\ revision \in [Pair!Platforms -> [Pair!Edits -> Pair!Edits]]
    BY DEF PairInv, Pair!TypeOK
  <2>2. CASE revision' = [revision EXCEPT ![p][path[p]] = edits + 1] /\ path' = path
    BY <1>2, <2>1, <2>2
  <2>3. CASE path' = [path EXCEPT ![p] = edits + 1] /\ revision' = revision
    BY <1>2, <2>1, <2>3
  <2>4. QED
    BY <1>1, <2>2, <2>3
<1>4. Pair!TypeOK'
  BY <1>1, <1>2, <1>3 DEF PairInv, Pair!TypeOK, Pair!Outputs
<1>5. \A q \in Pair!Platforms, f \in Pair!Edits :
        /\ revision[q][f] \in Nat /\ revision[q][f] <= edits
        /\ revision[q][f] <= revision'[q][f] /\ revision'[q][f] <= edits'
  <2>1. \A q \in Pair!Platforms, f \in Pair!Edits :
          revision[q][f] \in Pair!Edits /\ revision[q][f] <= edits
    BY DEF PairInv, Pair!TypeOK, Revised
  <2>2. \A r \in Pair!Edits : r \in Nat
    BY DEF Pair!Edits
  <2>3. QED
    BY <1>1, <1>2, <1>3, <2>1, <2>2
<1>6. ASSUME NEW k \in Jobs, NEW q \in Pair!Platforms PROVE InOrder(k, q)'
  <2>1. /\ InOrder(k, q) /\ fd[k][q] \in Pair!Edits /\ stat[k][q] \in Nat
        /\ used[k][q] \subseteq Nat
    BY DEF PairInv, ReadInOrder, Pair!TypeOK, Pair!Edits
  <2>2. revision[q][fd[k][q]] <= revision'[q][fd[k][q]]
        /\ revision[q][fd[k][q]] \in Nat /\ revision'[q][fd[k][q]] \in Nat
    <3>1. \A f \in Pair!Edits : revision'[q][f] \in Pair!Edits
      BY <1>3
    <3>2. \A r \in Pair!Edits : r \in Nat
      BY DEF Pair!Edits
    <3>3. QED
      BY <1>5, <2>1, <3>1, <3>2
  <2>3. Settled(k, q)' <=> Settled(k, q)
    BY <1>1 DEF Settled
  <2>4. QED
    BY <1>1, <2>1, <2>2, <2>3 DEF InOrder
<1>7. ReadInOrder' /\ Revised'
  BY <1>5, <1>6 DEF ReadInOrder, Revised
<1>8. Linking' /\ Pair!StagedWhole'
  BY <1>1 DEF PairInv, Linking, Pair!Outputs, Pair!StagedWhole, Pair!Bytes
<1>9. QED
  BY <1>4, <1>7, <1>8 DEF PairInv

LEMMA PairEditOutput == ASSUME PairInv, NEW n \in Pair!Names, Pair!EditOutput(n) PROVE PairInv'
<1>1. /\ edits' = edits + 1 /\ edits < PairEdits
      /\ UNCHANGED <<op, pc, path, revision, at, fd, stat, used, linked, stager, staged>>
      /\ \E file \in {Missing, Other} : out' = [out EXCEPT ![n] = file]
  BY DEF Pair!EditOutput, Pair!Edited, Pair!reading, Pair!staging, Pair!inputs
<1>2. edits \in Nat /\ edits + 1 \in Pair!Edits
  BY <1>1, InstancesAssumption DEF PairInv, Pair!TypeOK, Pair!Edits, Pair!OciPairAssumption
<1>3. Pair!TypeOK'
  BY <1>1, <1>2 DEF PairInv, Pair!TypeOK, Pair!Outputs
<1>4. ReadInOrder'
  BY <1>1, PairKeepsRead
<1>5. Revised'
  <2>1. \A q \in Pair!Platforms, f \in Pair!Edits :
          revision[q][f] \in Pair!Edits /\ revision[q][f] <= edits
    BY DEF PairInv, Pair!TypeOK, Revised
  <2>2. \A r \in Pair!Edits : r \in Nat
    BY DEF Pair!Edits
  <2>3. QED
    BY <1>1, <1>2, <2>1, <2>2 DEF Revised
<1>6. \A k \in Jobs, m \in Pair!Names : out'[m] = k => out[m] = k
  BY <1>1, PairNames DEF PairInv, Pair!TypeOK
<1>7. Linking' /\ Pair!StagedWhole'
  BY <1>1, <1>6, PairNames DEF PairInv, Linking, Pair!Outputs, Pair!StagedWhole, Pair!Bytes
<1>8. QED
  BY <1>3, <1>4, <1>5, <1>7 DEF PairInv

LEMMA PairNext == ASSUME PairInv, Pair!Next PROVE PairInv'
  BY PairCheckAbsent, PairOpen, PairRead, PairSettle, PairLink, PairEnds, PairStaging, PairEditInput,
     PairEditOutput
     DEF Pair!Next, Pair!Job

-----------------------------------------------------------------------------
(* The build side.                                                         *)

BuildInv ==
  /\ part \in {"pair", "graph", "sync", "receipts"}
  /\ part = "pair" => PairInv
  /\ part = "graph" => GraphInv
  /\ part = "sync" => SyncInv
  /\ part = "receipts" => ReceiptsInv

LEMMA BuildStutters == ASSUME BuildInv, UNCHANGED vars PROVE BuildInv'
<1>1. /\ UNCHANGED <<part, pc, edits, todo, at, verdict>>
      /\ UNCHANGED <<op, path, revision, fd, stat, used, linked, out, stager, staged>>
      /\ UNCHANGED <<limit, archive, root, stack, visited, leaves>>
      /\ UNCHANGED <<content, original, ready, evidence, built, staging, orphan, late, lost, faults>>
      /\ UNCHANGED <<rc, artifact, covered>>
  BY DEF vars, OfPair, OfGraph, OfSync, OfReceipts
<1>2. PairInv' <=> PairInv
  BY <1>1 DEF PairInv, Pair!TypeOK, ReadInOrder, InOrder, Settled, Revised, Linking, Pair!StagedWhole, Pair!Bytes,
              Pair!Outputs
<1>3. GraphInv => GraphInv'
  BY <1>1, GraphStays
<1>4. SyncInv' <=> SyncInv
  BY <1>1 DEF SyncInv, Sync!TypeOK, Comparing, Dated, Evident, Targeted, BuildRead, PinnedRead
<1>5. ReceiptsInv' <=> ReceiptsInv
  BY <1>1 DEF ReceiptsInv, Receipts!TypeOK, ArtifactOK, OrderOK, CoveredOK, Read, Pending,
              Uploads, Positions, Listing, Receipts!Complete, Receipts!FuzzEvidence,
              Receipts!Packages, Receipts!Distinct, Receipts!Names, Receipts!Bytes,
              Receipts!Uploaded, Receipts!Sound, Receipts!Vouched, Receipts!Inventory,
              Receipts!Genuine, Receipts!Vouches
<1>6. QED
  BY <1>1, <1>2, <1>3, <1>4, <1>5 DEF BuildInv

LEMMA BuildStep == ASSUME BuildInv, [Next]_vars PROVE BuildInv'
<1>1. CASE Next
  <2>1. part' = part
    BY <1>1 DEF Next
  <2>2. CASE part = "pair"
    BY <1>1, <2>1, <2>2, PairNext DEF BuildInv, Next
  <2>3. CASE part = "graph"
    BY <1>1, <2>1, <2>3, GraphNext DEF BuildInv, Next
  <2>4. CASE part = "sync"
    BY <1>1, <2>1, <2>4, SyncNext DEF BuildInv, Next
  <2>5. CASE part = "receipts"
    BY <1>1, <2>1, <2>5, ReceiptsNext DEF BuildInv, Next
  <2>6. QED
    BY <2>2, <2>3, <2>4, <2>5 DEF BuildInv
<1>2. CASE UNCHANGED vars
  BY <1>2, BuildStutters
<1>3. QED
  BY <1>1, <1>2

(* The inductive invariant of the four modules: a behaviour is one of a    *)
(* single module, and in it the module's own invariant holds.              *)
THEOREM Invariant == Spec => []BuildInv
<1>1. ASSUME Init PROVE BuildInv
  BY <1>1, PairInit, GraphInit, SyncInit, ReceiptsInit DEF Init, BuildInv
<1>2. QED
  BY <1>1, BuildStep, PTL DEF Spec

-----------------------------------------------------------------------------
(* The properties.                                                         *)

(* Every component's state keeps its type, whatever the files, the jobs    *)
(* and the targets.                                                        *)
THEOREM TypeCorrect == Spec => []TypeOK
<1>1. BuildInv => TypeOK
  BY DEF BuildInv, PairInv, GraphInv, SyncInv, ReceiptsInv, TypeOK
<1>2. QED
  BY <1>1, Invariant, PTL

(* merge_oci_archives.py compares each input's state with the one it       *)
(* opened before it publishes: what a job links was verified and copied    *)
(* from one revision of each input, however often the inputs are rewritten.*)
THEOREM ReadsOneRevision == Spec => []OneRevision
<1>1. ASSUME PairInv PROVE Pair!OneRevision
  <2>1. ASSUME NEW j \in Jobs, pc[j] \in {"link", "undo", "unlink", "done", "left"}
        PROVE  pc[j] \in Pair!Labels \ {"read", "failed"}
    BY <2>1 DEF Pair!Labels
  <2>2. QED
    BY <1>1, <2>1 DEF PairInv, ReadInOrder, InOrder, Settled, Pair!OneRevision
<1>2. BuildInv => OneRevision
  BY <1>1 DEF BuildInv, OneRevision
<1>3. QED
  BY <1>2, Invariant, PTL

(* Of any number of merges and detachments to the same outputs, one that   *)
(* fails has left neither file, and what stage_release_assets.py stages is *)
(* a pair from the same bytes or neither file, also after kills.           *)
THEOREM PairsAreWhole == Spec => []WholePairs
<1>1. ASSUME PairInv PROVE Pair!AllOrNothing /\ Pair!StagedWhole
  BY <1>1, PairNames DEF PairInv, Linking, Pair!AllOrNothing
<1>2. BuildInv => WholePairs
  BY <1>1 DEF BuildInv, WholePairs
<1>3. QED
  BY <1>2, Invariant, PTL

(* Every step of a job is recognised as its own: the label, the position   *)
(* of the reading or the number of its links changes, so that NoClobber    *)
(* leaves out none, and none of others' steps changes them.                *)
LEMMA JobActs ==
  ASSUME PairInv, NEW j \in Jobs, Pair!Job(j)
  PROVE  Pair!Acts(j) /\ \A k \in Jobs \ {j} : ~Pair!Acts(k)
<1>1. /\ pc \in [Jobs -> Pair!Labels] /\ at \in [Jobs -> 1..Len(Pair!Steps)]
      /\ linked \in [Jobs -> 0..Len(Pair!Outputs)]
  BY DEF PairInv, Pair!TypeOK
<1>2. CASE PairReads(j)
  <2>1. /\ at[j] \in 1..13 /\ pc[j] = "read" /\ UNCHANGED linked
        /\ \/ at[j] < 13 /\ at' = [at EXCEPT ![j] = at[j] + 1] /\ pc' = [pc EXCEPT ![j] = "read"]
           \/ at[j] = 13 /\ at' = [at EXCEPT ![j] = at[j]] /\ pc' = [pc EXCEPT ![j] = "link"]
    BY <1>2, PairReading
  <2>2. at'[j] # at[j] \/ pc'[j] # pc[j]
    BY <1>1, <2>1
  <2>3. \A k \in Jobs \ {j} : at'[k] = at[k] /\ pc'[k] = pc[k] /\ linked'[k] = linked[k]
    BY <1>1, <2>1
  <2>4. QED
    BY <2>2, <2>3 DEF Pair!Acts
<1>3. CASE Pair!Link(j)
  <2>1. /\ linked' = [linked EXCEPT ![j] = linked[j] + 1] /\ UNCHANGED at
        /\ \E label : pc' = [pc EXCEPT ![j] = label]
    BY <1>3 DEF Pair!Link, Pair!Goto, Pair!reading
  <2>2. linked[j] \in Nat /\ linked'[j] # linked[j]
    BY <1>1, <2>1, PairOutputs
  <2>3. \A k \in Jobs \ {j} : at'[k] = at[k] /\ pc'[k] = pc[k] /\ linked'[k] = linked[k]
    BY <1>1, <2>1
  <2>4. QED
    BY <2>2, <2>3 DEF Pair!Acts
<1>4. CASE \/ Pair!LinkFails(j) \/ Pair!Undo(j) \/ Pair!Unlink(j) \/ Pair!Reject(j) \/ Pair!Kill(j)
  <2>1. /\ UNCHANGED <<at, linked>>
        /\ \E label : label # pc[j] /\ pc' = [pc EXCEPT ![j] = label]
    BY <1>4 DEF Pair!LinkFails, Pair!Undo, Pair!Unlink, Pair!Reject, Pair!Kill, Pair!Goto, Pair!reading
  <2>2. pc'[j] # pc[j] /\ \A k \in Jobs \ {j} : pc'[k] = pc[k]
    BY <1>1, <2>1
  <2>3. QED
    BY <2>1, <2>2 DEF Pair!Acts
<1>5. QED
  BY <1>2, <1>3, <1>4 DEF Pair!Job, PairReads

(* No step of a job, not the first link of a pair either, changes a file   *)
(* that somebody else has at an output, but for the unlink of an image     *)
(* after the samestat that found it the job's own; there may be any number *)
(* of jobs.                                                                *)
THEOREM JobsClobberNothing == Spec => NoClobber
<1>1. ASSUME BuildInv, part = "pair", Pair!Next, NEW j \in Jobs, Pair!Acts(j)
      PROVE  Pair!Job(j)
  <2>1. PICK k \in Jobs : Pair!Job(k)
    <3>1. ASSUME UNCHANGED <<pc, Pair!reading, linked>> PROVE FALSE
      BY <1>1, <3>1 DEF Pair!Acts, Pair!reading
    <3>2. QED
      BY <1>1, <3>1 DEF Pair!Next, Pair!Collect, Pair!VerifyStaged, Pair!Unstage, Pair!EditInput,
                        Pair!EditOutput
  <2>2. QED
    BY <1>1, <2>1, JobActs DEF BuildInv
<1>2. ASSUME BuildInv, part = "pair", NEW j \in Jobs, Pair!Job(j), NEW n \in Pair!Names,
             out[n] \notin {Missing, j}, out'[n] # out[n]
      PROVE  pc[j] = "unlink" /\ n = "image" /\ out'[n] = Missing
  <2>1. pc \in [Jobs -> Pair!Labels] /\ out \in [Pair!Names -> Jobs \cup {Other, Missing}]
    BY <1>2 DEF BuildInv, PairInv, Pair!TypeOK
  <2>2. Pair!Link(j) \/ Pair!Unlink(j)
    BY <1>2 DEF Pair!Job, Pair!CheckAbsent, Pair!Open, Pair!Read, Pair!Settle, Pair!Keep,
                Pair!LinkFails, Pair!Undo, Pair!Reject, Pair!Kill
  <2>3. ~Pair!Link(j)
    <3>1. ASSUME Pair!Link(j)
          PROVE  out[Pair!NextOutput(j)] = Missing /\ out' = [out EXCEPT ![Pair!NextOutput(j)] = j]
      BY <3>1 DEF Pair!Link
    <3>2. QED
      BY <1>2, <2>1, <3>1
  <2>4. pc[j] = "unlink" /\ (out' = [out EXCEPT !["image"] = Missing] \/ out' = out)
    BY <2>2, <2>3 DEF Pair!Unlink
  <2>5. QED
    BY <1>2, <2>1, <2>4
<1>3. ASSUME BuildInv, part = "pair", NEW j \in Jobs, Pair!Job(j), pc'[j] = "unlink"
      PROVE  out["image"] = j
  <2>1. pc \in [Jobs -> Pair!Labels] /\ \E label : pc' = [pc EXCEPT ![j] = label]
    BY <1>3 DEF BuildInv, PairInv, Pair!TypeOK, Pair!Job, Pair!CheckAbsent, Pair!Open, Pair!Read,
                Pair!Settle, Pair!Advance, Pair!Link, Pair!LinkFails, Pair!Undo, Pair!Unlink,
                Pair!Reject, Pair!Kill, Pair!Goto
  <2>2. pc' = [pc EXCEPT ![j] = "unlink"]
    BY <1>3, <2>1
  <2>3. ASSUME NEW label, Pair!Goto(j, label) PROVE label = "unlink"
    BY <2>1, <2>2, <2>3 DEF Pair!Goto
  <2>4. Pair!Undo(j)
    BY <1>3, <2>3 DEF Pair!Job, Pair!CheckAbsent, Pair!Open, Pair!Read, Pair!Settle, Pair!Advance,
                      Pair!Link, Pair!LinkFails, Pair!Unlink, Pair!Reject, Pair!Kill
  <2>5. QED
    BY <2>3, <2>4 DEF Pair!Undo
<1>4. BuildInv /\ [Next]_vars => [part = "pair" => Pair!LeavesOthersFiles]_vars
  BY <1>1, <1>2, <1>3 DEF Next, Pair!LeavesOthersFiles
<1>5. QED
  BY <1>4, Invariant, PTL DEF Spec, NoClobber

(* version_plan.py sync compares each file once more before it renames the *)
(* new one over it: an edit before that is never lost.                     *)
THEOREM SyncKeepsEdits == Spec => []EditsKept
<1>1. BuildInv => EditsKept
  BY DEF BuildInv, SyncInv, EditsKept, Sync!EditsKept
<1>2. QED
  BY <1>1, Invariant, PTL

(* However a run failed or was killed, and after any number of them: while *)
(* nobody edits, verify_checkout accepts what it left, and a directory     *)
(* without a receipt is a killed run's, which no later run completes.      *)
THEOREM RunsFailClean == Spec => []FailsClean
<1>1. ASSUME SyncInv, edits = 0, NEW f \in Files PROVE Sync!Declared(f)
  <2>1. /\ content[f] \in Sync!Content /\ content[f].revision <= 0 /\ content[f].version # "torn"
        /\ SyncEdits \in Nat
    BY <1>1, InstancesAssumption DEF SyncInv, Sync!TypeOK, Dated, Sync!VersionSyncAssumption
  <2>2. content[f].revision \in 0..SyncEdits
    BY <2>1 DEF Sync!Content
  <2>3. QED
    BY <2>1, <2>2 DEF Sync!Declared
<1>2. SyncInv => Sync!CleanTarget
  BY DEF SyncInv, Targeted, Sync!CleanTarget
<1>3. BuildInv => FailsClean
  BY <1>1, <1>2 DEF BuildInv, FailsClean, Sync!Resumable
<1>4. QED
  BY <1>3, Invariant, PTL

(* The receipt that version_receipt.py writes lists the bytes the build    *)
(* read, although the build and the checks around it read the files at     *)
(* different times, and whatever is edited but not taken back.             *)
THEOREM StagesWhatWasBuilt == Spec => []BuiltAsReceipted
<1>1. ASSUME SyncInv, pc = "staged", NEW f \in Files
      PROVE  f \in DOMAIN evidence /\ built[f] = evidence[f] /\ built[f].version = "planned"
  BY <1>1 DEF SyncInv, Evident, PinnedRead, Dated
<1>2. BuildInv => BuiltAsReceipted
  BY <1>1 DEF BuildInv, BuiltAsReceipted, Sync!BuiltAsReceipted
<1>3. QED
  BY <1>2, Invariant, PTL

(* The depth-first walk of merge_oci_archives.py, with the limits it checks*)
(* on the way, accepts exactly the archives in which each manifest has one *)
(* route and is fit, one of them an image and the others attested of it.   *)
THEOREM WalkIsExact == Spec => []WalkExact
<1>1. BuildInv => WalkExact
  BY DEF BuildInv, GraphInv, WalkInv, WalkExact
<1>2. QED
  BY <1>1, Invariant, PTL

(* The loops of verify_receipts, in whatever order of the receipts, accept *)
(* exactly the artifacts that the receipts together cover, for any number  *)
(* of targets and files.                                                   *)
THEOREM AcceptsWhatIsCovered == Spec => []CoverageExact
<1>1. BuildInv => CoverageExact
  BY ReceiptsExact DEF BuildInv, CoverageExact
<1>2. QED
  BY <1>1, Invariant, PTL
=============================================================================
