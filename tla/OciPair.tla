------------------------------ MODULE OciPair ------------------------------
(***************************************************************************)
(* Two single-platform OCI archives become one image: merged into one      *)
(* archive (merge_oci_archives.py, merge_archives), or into a runnable     *)
(* archive and the sidecar of its provenance (release_provenance.py,       *)
(* detach), which are then staged together or not at all (verify_staged).  *)
(*                                                                         *)
(* The inputs may be rewritten in place or replaced while they are read,   *)
(* two jobs may write the same outputs, others may create or remove them,  *)
(* and a job may be killed. What a graph of manifests must look like is    *)
(* OciGraph's.                                                             *)
(***************************************************************************)
EXTENDS Integers, Sequences

CONSTANTS
  Jobs,     \* concurrent jobs with the same outputs
  Other,    \* whoever else writes in the output directory
  Missing,  \* no file
  MaxEdits  \* bound: changes by others

(* What the parameters must be; the instances assume it.                   *)
OciPairAssumption == Other \notin Jobs /\ Missing \notin Jobs \cup {Other} /\ MaxEdits \in Nat

Platforms == {"amd64", "arm64"}
Order     == <<"amd64", "arm64">>
Names     == {"image", "sidecar"}
Edits     == 0..MaxEdits

(* The steps of a job before it links: each archive is opened, hashed,     *)
(* walked and found unchanged before the next one is opened; both are      *)
(* copied, then found unchanged again.                                     *)
Steps == <<"absent",
           "open", "hash", "walk", "settle", "open", "hash", "walk", "settle",
           "copy", "copy", "settle", "settle">>
Second == {6, 7, 8, 9, 11, 13}

VARIABLES
  op,       \* "merge" or "detach"
  pc,       \* what each job does next
  at,       \* its step of Steps
  path,     \* the file each input path names
  revision, \* the revision of each input file, and its status change time
  fd,       \* the file each job opened for each platform
  stat,     \* the revision it had then
  used,     \* history: the revisions it read
  linked,   \* how many outputs the job has linked
  out,      \* who wrote the file of each output name
  stager,   \* what the staging of the output directory does next
  staged,   \* who wrote the files it copied
  edits     \* changes by others so far

inputs  == <<path, revision>>
reading == <<at, fd, stat, used>>
staging == <<stager, staged>>
vars    == <<op, pc, inputs, reading, linked, out, staging, edits>>

Outputs == IF op = "merge" THEN <<"image">> ELSE <<"image", "sidecar">>
Labels  == {"read", "link", "undo", "unlink", "done", "failed", "left", "killed"}

Init ==
  /\ op \in {"merge", "detach"}
  /\ pc = [j \in Jobs |-> "read"]
  /\ at = [j \in Jobs |-> 1]
  /\ path = [p \in Platforms |-> 0]
  /\ revision = [p \in Platforms |-> [f \in Edits |-> 0]]
  /\ fd = [j \in Jobs |-> [p \in Platforms |-> 0]]
  /\ stat = fd
  /\ used = [j \in Jobs |-> [p \in Platforms |-> {}]]
  /\ linked = [j \in Jobs |-> 0]
  /\ out = [n \in Names |-> Missing]
  /\ stager = "list" /\ staged = [n \in Names |-> Missing]
  /\ edits = 0

-----------------------------------------------------------------------------
(* Reading.                                                                *)

Goto(j, label) == pc' = [pc EXCEPT ![j] = label]
Doing(j, step) == pc[j] = "read" /\ Steps[at[j]] = step
Platform(j)    == Order[IF at[j] \in Second THEN 2 ELSE 1]
Advance(j) ==
  /\ at' = [at EXCEPT ![j] = IF @ = Len(Steps) THEN @ ELSE @ + 1]
  /\ Goto(j, IF at[j] = Len(Steps) THEN "link" ELSE "read")

Keep == UNCHANGED <<op, inputs, linked, out, staging, edits>>

(* Neither output exists yet.                                              *)
CheckAbsent(j) ==
  /\ Doing(j, "absent")
  /\ \A i \in DOMAIN Outputs : out[Outputs[i]] = Missing
  /\ Advance(j) /\ UNCHANGED <<fd, stat, used>> /\ Keep

Open(j) ==
  LET p == Platform(j) IN
  /\ Doing(j, "open")
  /\ fd' = [fd EXCEPT ![j][p] = path[p]]
  /\ stat' = [stat EXCEPT ![j][p] = revision[p][path[p]]]
  /\ Advance(j) /\ UNCHANGED used /\ Keep

(* One pass over the open file: its hash, its graph, or the copy of its    *)
(* blobs into the temporary output.                                        *)
Read(j) ==
  LET p == Platform(j) IN
  /\ \E step \in {"hash", "walk", "copy"} : Doing(j, step)
  /\ used' = [used EXCEPT ![j][p] = @ \cup {revision[p][fd[j][p]]}]
  /\ Advance(j) /\ UNCHANGED <<fd, stat>> /\ Keep

(* Plausible bug: the size alone is compared, and it is the same.          *)
SettleBySize(j) ==
  /\ Doing(j, "settle")
  /\ Advance(j) /\ UNCHANGED <<fd, stat, used>> /\ Keep

(* unchanged: size, modification and status change time of the open file   *)
(* are those it was opened with.                                           *)
Settle(j) ==
  LET p == Platform(j) IN
  /\ Doing(j, "settle")
  /\ revision[p][fd[j][p]] = stat[j][p]
  /\ Advance(j) /\ UNCHANGED <<fd, stat, used>> /\ Keep

-----------------------------------------------------------------------------
(* Publishing.                                                             *)

NextOutput(j) == Outputs[linked[j] + 1]

(* Plausible bug: the image of a pair is renamed into place.               *)
LinkImageByRename(j) ==
  /\ pc[j] = "link" /\ ((op = "detach" /\ linked[j] = 0) \/ out[NextOutput(j)] = Missing)
  /\ out' = [out EXCEPT ![NextOutput(j)] = j]
  /\ linked' = [linked EXCEPT ![j] = @ + 1]
  /\ Goto(j, IF linked[j] + 1 = Len(Outputs) THEN "done" ELSE "link")
  /\ UNCHANGED <<op, inputs, reading, staging, edits>>

(* os.link: never over a file that exists.                                 *)
Link(j) ==
  /\ pc[j] = "link" /\ out[NextOutput(j)] = Missing
  /\ out' = [out EXCEPT ![NextOutput(j)] = j]
  /\ linked' = [linked EXCEPT ![j] = @ + 1]
  /\ Goto(j, IF linked[j] + 1 = Len(Outputs) THEN "done" ELSE "link")
  /\ UNCHANGED <<op, inputs, reading, staging, edits>>

(* Plausible bug: the first link stays when the second one fails.          *)
LinkFailsPlainly(j) ==
  /\ pc[j] = "link" /\ Goto(j, "failed")
  /\ UNCHANGED <<op, inputs, reading, linked, out, staging, edits>>

(* The name is taken, or the link fails otherwise.                         *)
LinkFails(j) ==
  /\ pc[j] = "link" /\ Goto(j, IF linked[j] = 0 THEN "failed" ELSE "undo")
  /\ UNCHANGED <<op, inputs, reading, linked, out, staging, edits>>

(* Plausible bug: the first output is taken back whoever wrote it.         *)
UndoUncompared(j) ==
  /\ pc[j] = "undo" /\ Goto(j, "unlink")
  /\ UNCHANGED <<op, inputs, reading, linked, out, staging, edits>>

(* The first output is taken back if the file there is still this job's    *)
(* (os.path.samestat); the unlink is another system call.                  *)
Undo(j) ==
  /\ pc[j] = "undo"
  /\ Goto(j, IF out["image"] = j THEN "unlink" ELSE "failed")
  /\ UNCHANGED <<op, inputs, reading, linked, out, staging, edits>>

(* An error of the unlink is suppressed.                                   *)
Unlink(j) ==
  /\ pc[j] = "unlink"
  /\ \/ Goto(j, "failed") /\ out' = [out EXCEPT !["image"] = Missing]
     \/ Goto(j, "left") /\ UNCHANGED out
  /\ UNCHANGED <<op, inputs, reading, linked, staging, edits>>

(* A require fails or a read does, before any output exists.               *)
Reject(j) ==
  /\ pc[j] = "read" /\ Goto(j, "failed")
  /\ UNCHANGED <<op, inputs, reading, linked, out, staging, edits>>

(* Before the first link a kill leaves what a rejection leaves.            *)
Kill(j) ==
  /\ pc[j] \in {"link", "undo", "unlink"} /\ linked[j] > 0 /\ Goto(j, "killed")
  /\ UNCHANGED <<op, inputs, reading, linked, out, staging, edits>>

-----------------------------------------------------------------------------
(* Staging.                                                                *)

(* The outputs present are copied one after the other.                     *)
Collect ==
  /\ \/ stager = "list" /\ stager' = "copy"
        /\ staged' = [staged EXCEPT !["image"] = out["image"]]
     \/ stager = "copy" /\ stager' = "verify"
        /\ staged' = [staged EXCEPT !["sidecar"] = out["sidecar"]]
  /\ UNCHANGED <<op, pc, inputs, reading, linked, out, edits>>

(* A sidecar holds the digest of its image. The output is deterministic,   *)
(* so a pair of two jobs matches if they read the same bytes.              *)
Bytes(j) == <<fd[j], stat[j]>>
Binds(i, s) == {i, s} \subseteq Jobs /\ Bytes(i) = Bytes(s)

(* Plausible bug: an image without its sidecar is taken.                   *)
VerifyStagedIfBoth ==
  /\ stager = "verify"
  /\ op = "detach" /\ (\A n \in Names : staged[n] # Missing)
     => Binds(staged["image"], staged["sidecar"])
  /\ stager' = "staged"
  /\ UNCHANGED <<op, pc, inputs, reading, linked, out, staged, edits>>

(* verify_staged and verify_pair: both files of a pair, that match, or     *)
(* neither.                                                                *)
VerifyStaged ==
  /\ stager = "verify"
  /\ op = "detach" =>
       \/ \A n \in Names : staged[n] = Missing
       \/ Binds(staged["image"], staged["sidecar"])
  /\ stager' = "staged"
  /\ UNCHANGED <<op, pc, inputs, reading, linked, out, staged, edits>>

Unstage ==
  /\ stager = "verify" /\ stager' = "refused"
  /\ staged' = [n \in Names |-> Missing]
  /\ UNCHANGED <<op, pc, inputs, reading, linked, out, edits>>

-----------------------------------------------------------------------------
(* Others.                                                                 *)

Edited == edits < MaxEdits /\ edits' = edits + 1

(* An input is rewritten in place, or another file takes its path.         *)
EditInput(p) ==
  /\ Edited
  /\ \/ revision' = [revision EXCEPT ![p][path[p]] = edits + 1] /\ UNCHANGED path
     \/ path' = [path EXCEPT ![p] = edits + 1] /\ UNCHANGED revision
  /\ UNCHANGED <<op, pc, reading, linked, out, staging>>

EditOutput(n) ==
  /\ Edited
  /\ \E file \in {Missing, Other} \ {out[n]} : out' = [out EXCEPT ![n] = file]
  /\ UNCHANGED <<op, pc, inputs, reading, linked, staging>>

Job(j) ==
  \/ CheckAbsent(j) \/ Open(j) \/ Read(j) \/ Settle(j)
  \/ Link(j) \/ LinkFails(j) \/ Undo(j) \/ Unlink(j) \/ Reject(j) \/ Kill(j)

Next ==
  \/ \E j \in Jobs : Job(j)
  \/ Collect \/ VerifyStaged \/ Unstage
  \/ \E p \in Platforms : EditInput(p)
  \/ \E n \in Names : EditOutput(n)

Spec == Init /\ [][Next]_vars

-----------------------------------------------------------------------------
(* Properties.                                                             *)

TypeOK ==
  /\ op \in {"merge", "detach"}
  /\ pc \in [Jobs -> Labels]
  /\ at \in [Jobs -> 1..Len(Steps)]
  /\ path \in [Platforms -> Edits]
  /\ revision \in [Platforms -> [Edits -> Edits]]
  /\ fd \in [Jobs -> [Platforms -> Edits]] /\ stat \in [Jobs -> [Platforms -> Edits]]
  /\ used \in [Jobs -> [Platforms -> SUBSET Edits]]
  /\ linked \in [Jobs -> 0..Len(Outputs)]
  /\ out \in [Names -> Jobs \cup {Other, Missing}]
  /\ staged \in [Names -> Jobs \cup {Other, Missing}]
  /\ stager \in {"list", "copy", "verify", "staged", "refused"}
  /\ edits \in Edits

(* Whenever an input is rewritten or replaced, a job that reaches its      *)
(* first link verified and copied one revision of each input, the one it   *)
(* opened: no output mixes the bytes of two.                               *)
OneRevision ==
  \A j \in Jobs : pc[j] \in {"link", "undo", "unlink", "done", "left"} =>
    \A p \in Platforms : used[j][p] = {stat[j][p]}

(* Whose step it is: each step of a job is a step of its program, also the *)
(* first link of a pair, which leaves the label. One of others is none.    *)
Acts(j) == <<pc[j], at[j], linked[j]>>' # <<pc[j], at[j], linked[j]>>

(* No step of a job, the first link of a pair included, replaces or        *)
(* removes a file of another job or of anybody else, except an image that  *)
(* takes the place of its own between the comparison, which found its own, *)
(* and the unlink: two system calls.                                       *)
LeavesOthersFiles ==
  \A j \in Jobs : Acts(j) =>
    /\ \A n \in Names : out[n] \notin {Missing, j} /\ out'[n] # out[n]
                        => pc[j] = "unlink" /\ n = "image" /\ out'[n] = Missing
    /\ pc'[j] = "unlink" => out["image"] = j
NoClobber == [][LeavesOthersFiles]_vars

(* A job that fails, and could remove what it linked, leaves no half pair. *)
AllOrNothing ==
  \A j \in Jobs : pc[j] = "failed" => \A n \in Names : out[n] # j

(* What is staged of a pair is both files, from the same input bytes, or   *)
(* neither: also after a kill between the two links, or when the pair was  *)
(* written by two jobs.                                                    *)
StagedWhole ==
  stager = "staged" /\ op = "detach" =>
    \/ \A n \in Names : staged[n] = Missing
    \/ /\ \A n \in Names : staged[n] \in Jobs
       /\ Bytes(staged["image"]) = Bytes(staged["sidecar"])
=============================================================================
