--------------------------- MODULE BuildReceipts ---------------------------
(***************************************************************************)
(* What the publishing job accepts of the build jobs' artifacts: it        *)
(* flattens their directories (release.py, collect_assets), and each       *)
(* receipt must cover files of this plan and attempt, together all of      *)
(* them once (version_receipt.py, verify_receipts). The fuzzing receipt of *)
(* a candidate is set apart (release_fuzz.py, split_receipts), and the     *)
(* others are those the policy requires.                                   *)
(*                                                                         *)
(* The artifacts are arbitrary: a build may leave out a file, add one, or  *)
(* take a name that another one has. Each has one receipt, the one that    *)
(* stage writes into it, and the policy declares the receipts it requires, *)
(* as this repository's does; the code requires none of one that does not. *)
(***************************************************************************)
EXTENDS Integers, Sequences, FiniteSets, SequencesExt

CONSTANTS
  Targets,  \* build jobs; the receipt of one is named after it
  Required, \* targets whose receipts the policy requires
  Fuzz,     \* the target of the fuzzing report
  Payloads, \* names of other files
  Report,   \* the name of the report
  MaxList   \* bound: files listed by one receipt

(* What the parameters must be; the instances assume it.                   *)
BuildReceiptsAssumption ==
  /\ IsFiniteSet(Targets) /\ Fuzz \in Targets \ Required /\ Required \subseteq Targets
  /\ Report \in Payloads /\ Payloads \cap Targets = {} /\ MaxList \in Nat

(* Builds differ: the bytes of a file are those of the target it is from.  *)
(* A receipt lists files, and could list a receipt.                        *)
Entry    == [name : Payloads, bytes : Targets] \cup {[name |-> Fuzz, bytes |-> Fuzz]}
Lists    == UNION {[1..k -> Entry] : k \in 0..MaxList}
Artifact == [files : SUBSET Payloads, bound : BOOLEAN, lists : Lists]

VARIABLES
  rc,       \* the channel is rc, with a fuzzing policy
  artifact, \* what each target that has uploaded an artifact uploaded
  todo,     \* receipts to verify, and first the one being verified
  at,       \* files of it that are covered
  covered,
  verdict

vars == <<rc, artifact, todo, at, covered, verdict>>

(* bound stands for a receipt's plan, attempt, source, toolchain and       *)
(* inputs, each of which verify_receipt_evidence requires.                 *)
Init ==
  /\ rc \in BOOLEAN
  /\ artifact \in UNION {[uploaded -> Artifact] : uploaded \in SUBSET Targets}
  /\ todo = <<>> /\ at = 0 /\ covered = {} /\ verdict = "collect"

Uploaded == DOMAIN artifact
Names    == UNION {artifact[t].files : t \in Uploaded}

Reject == verdict' = "rejected" /\ UNCHANGED <<rc, artifact, todo, at, covered>>

(* collect_assets: no basename twice, and something to publish.            *)
Distinct == \A s, t \in Uploaded : s # t => artifact[s].files \cap artifact[t].files = {}

Collect ==
  /\ verdict = "collect" /\ Distinct /\ Uploaded # {}
  /\ \E order \in SetToSeqs(Uploaded) : todo' = order
  /\ verdict' = "verify"
  /\ UNCHANGED <<rc, artifact, at, covered>>

(* The bytes of a file of the flat directory.                              *)
Bytes(name) == CHOOSE t \in Uploaded : name \in artifact[t].files

Receipt == artifact[todo[1]]
Listed  == Receipt.lists[at + 1]

(* verify_receipt_evidence, once, before the list.                         *)
Evidence == at = 0 => Receipt.bound /\ Receipt.lists # <<>>

(* Plausible bug: a file listed twice is covered.                          *)
CoverAgain ==
  /\ verdict = "verify" /\ todo # <<>> /\ Evidence
  /\ at < Len(Receipt.lists)
  /\ Listed.name \in Names /\ Bytes(Listed.name) = Listed.bytes
  /\ covered' = covered \cup {Listed.name} /\ at' = at + 1
  /\ UNCHANGED <<rc, artifact, todo, verdict>>

(* cover_receipt_artifacts: neither covered yet nor a receipt, and exactly *)
(* the file of that name.                                                  *)
Coverable ==
  /\ Listed.name \notin covered /\ Listed.name \notin Targets
  /\ Listed.name \in Names /\ Bytes(Listed.name) = Listed.bytes

Cover ==
  /\ verdict = "verify" /\ todo # <<>> /\ Evidence
  /\ at < Len(Receipt.lists) /\ Coverable
  /\ covered' = covered \cup {Listed.name} /\ at' = at + 1
  /\ UNCHANGED <<rc, artifact, todo, verdict>>

NextReceipt ==
  /\ verdict = "verify" /\ todo # <<>> /\ Evidence /\ at = Len(Receipt.lists)
  /\ todo' = Tail(todo) /\ at' = 0
  /\ UNCHANGED <<rc, artifact, covered, verdict>>

(* split_receipts: exactly the report, by exactly that receipt.            *)
FuzzEvidence == Fuzz \in Uploaded /\ [i \in DOMAIN artifact[Fuzz].lists |-> artifact[Fuzz].lists[i].name] = <<Report>>

(* verify_required_build_receipts.                                         *)
Packages == IF rc THEN Uploaded \ {Fuzz} ELSE Uploaded

Complete ==
  /\ covered = Names
  /\ rc => FuzzEvidence
  /\ Packages = Required

Accept ==
  /\ verdict = "verify" /\ todo = <<>> /\ Complete
  /\ verdict' = "accepted"
  /\ UNCHANGED <<rc, artifact, todo, at, covered>>

Refuse ==
  /\ \/ verdict = "collect" /\ ~(Distinct /\ Uploaded # {})
     \/ verdict = "verify" /\ todo = <<>> /\ ~Complete
     \/ verdict = "verify" /\ todo # <<>> /\ ~Evidence
     \/ verdict = "verify" /\ todo # <<>> /\ Evidence /\ at < Len(Receipt.lists) /\ ~Coverable
  /\ Reject

Next == Collect \/ Cover \/ NextReceipt \/ Accept \/ Refuse

Spec == Init /\ [][Next]_vars

-----------------------------------------------------------------------------
(* Properties.                                                             *)

TypeOK ==
  /\ verdict \in {"collect", "verify", "accepted", "rejected"}
  /\ todo \in Seq(Targets) /\ covered \subseteq Payloads /\ at \in 0..MaxList

(* Who vouches for a file: the receipts and positions that list it.        *)
Vouches(name) ==
  {v \in Uploaded \X (1..MaxList) :
     v[2] \in DOMAIN artifact[v[1]].lists /\ artifact[v[1]].lists[v[2]].name = name}

(* Each file has one source and is listed once, with the bytes it has      *)
(* there; nothing else is listed.                                          *)
Vouched ==
  /\ \A name \in Names : \E t \in Uploaded, v \in Uploaded \X (1..MaxList) :
       /\ \A s \in Uploaded : name \in artifact[s].files <=> s = t
       /\ Vouches(name) = {v} /\ artifact[v[1]].lists[v[2]].bytes = t
  /\ \A name \in Targets \cup (Payloads \ Names) : Vouches(name) = {}

(* The receipts are those required and, of a candidate, one of the report. *)
Inventory ==
  /\ Uploaded = Required \cup (IF rc THEN {Fuzz} ELSE {})
  /\ rc => /\ Vouches(Report) = {<<Fuzz, 1>>}
           /\ \A name \in Payloads \ {Report} : \A w \in Vouches(name) : w[1] # Fuzz

Genuine == \A t \in Uploaded : artifact[t].bound /\ artifact[t].lists # <<>>

Sound == Uploaded # {} /\ Vouched /\ Inventory /\ Genuine

(* In whatever order the receipts are read, the job accepts exactly those  *)
(* artifacts in which every file has one source and is listed once, with   *)
(* its bytes, by a receipt of this plan and attempt, nothing else is       *)
(* listed, and the receipts are the required ones and, of a candidate, one *)
(* of the report alone.                                                    *)
CoverageExact ==
  /\ verdict = "accepted" => Sound
  /\ verdict = "rejected" => ~Sound
=============================================================================
