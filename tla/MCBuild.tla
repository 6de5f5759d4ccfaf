------------------------------ MODULE MCBuild ------------------------------
(***************************************************************************)
(* One instance of each module of the build side, side by side: a          *)
(* behaviour is one of a single component, which part names, and the       *)
(* variables of the others are idle.                                       *)
(***************************************************************************)
EXTENDS Integers, Sequences, FiniteSets, TLC

CONSTANTS
  Jobs, Other, Missing, PairEdits,             \* OciPair
  Size, MaxList, MaxDepth, Limits,             \* OciGraph
  Files, NoFile, SyncEdits, MaxFaults,         \* VersionSync
  Targets, Required, Fuzz, Payloads, Report, ReceiptList \* BuildReceipts

VARIABLES
  part,
  op, pc, at, path, revision, fd, stat, used, linked, out, stager, staged, edits,
  limit, archive, root, stack, visited, leaves, verdict,
  content, todo, original, ready, evidence, built, staging, orphan, late, lost, faults,
  rc, artifact, covered

Pair     == INSTANCE OciPair WITH MaxEdits <- PairEdits
Graph    == INSTANCE OciGraph
Sync     == INSTANCE VersionSync WITH MaxEdits <- SyncEdits
Receipts == INSTANCE BuildReceipts WITH MaxList <- ReceiptList

ASSUME InstancesAssumption ==
  /\ Pair!OciPairAssumption /\ Graph!OciGraphAssumption
  /\ Sync!VersionSyncAssumption /\ Receipts!BuildReceiptsAssumption

OfPair     == <<op, path, revision, fd, stat, used, linked, out, stager, staged>>
OfGraph    == <<limit, archive, root, stack, visited, leaves>>
OfSync     == <<content, original, ready, evidence, built, staging, orphan, late, lost, faults>>
OfReceipts == <<rc, artifact, covered>>
vars == <<part, pc, edits, todo, at, verdict, OfPair, OfGraph, OfSync, OfReceipts>>

Idle == <<>>

NoPair ==
  /\ op = Idle /\ path = Idle /\ revision = Idle /\ fd = Idle /\ stat = Idle /\ used = Idle
  /\ linked = Idle /\ out = Idle /\ stager = Idle /\ staged = Idle
NoGraph ==
  limit = Idle /\ archive = Idle /\ root = Idle /\ stack = Idle /\ visited = Idle /\ leaves = Idle
NoSync ==
  /\ content = Idle /\ original = Idle /\ ready = Idle /\ evidence = Idle /\ built = Idle
  /\ staging = Idle /\ orphan = Idle /\ late = Idle /\ lost = Idle /\ faults = Idle
NoReceipts == rc = Idle /\ artifact = Idle /\ covered = Idle

Init ==
  \/ /\ part = "pair" /\ Pair!Init /\ NoGraph /\ NoSync /\ NoReceipts
     /\ todo = Idle /\ verdict = Idle
  \/ /\ part = "graph" /\ Graph!Init /\ NoPair /\ NoSync /\ NoReceipts
     /\ pc = Idle /\ edits = Idle /\ todo = Idle /\ at = Idle
  \/ /\ part = "sync" /\ Sync!Init /\ NoPair /\ NoGraph /\ NoReceipts
     /\ at = Idle /\ verdict = Idle
  \/ /\ part = "receipts" /\ Receipts!Init /\ NoPair /\ NoGraph /\ NoSync
     /\ pc = Idle /\ edits = Idle

Next ==
  \/ part = "pair" /\ Pair!Next /\ UNCHANGED <<part, todo, verdict, OfGraph, OfSync, OfReceipts>>
  \/ part = "graph" /\ Graph!Next
     /\ UNCHANGED <<part, pc, edits, todo, at, OfPair, OfSync, OfReceipts>>
  \/ part = "sync" /\ Sync!Next
     /\ UNCHANGED <<part, at, verdict, OfPair, OfGraph, OfReceipts>>
  \/ part = "receipts" /\ Receipts!Next
     /\ UNCHANGED <<part, pc, edits, OfPair, OfGraph, OfSync>>

Spec == Init /\ [][Next]_vars

(* No definition tells two jobs, or two files, apart.                      *)
Symmetric == Permutations(Jobs) \cup Permutations(Files)

-----------------------------------------------------------------------------
(* The properties of the four modules, each of its own component.          *)

(* Every component's state has its type.                                   *)
TypeOK ==
  /\ part = "pair" => Pair!TypeOK
  /\ part = "graph" => Graph!TypeOK
  /\ part = "sync" => Sync!TypeOK
  /\ part = "receipts" => Receipts!TypeOK

(* OciPair: an output mixes no two revisions of an input.                  *)
OneRevision == part = "pair" => Pair!OneRevision

(* OciPair: a job that fails leaves no half pair, and what is staged is a   *)
(* matching pair or neither file.                                          *)
WholePairs == part = "pair" => Pair!AllOrNothing /\ Pair!StagedWhole

(* OciPair: no job replaces or removes a file of anybody else, but for the *)
(* window between its comparison and its unlink.                           *)
NoClobber == [][part = "pair" => Pair!LeavesOthersFiles]_vars

(* OciGraph: the walk accepts exactly the single-image graphs.             *)
WalkExact == part = "graph" => Graph!WalkExact

(* VersionSync: no edit made before the last comparison is overwritten.    *)
EditsKept == part = "sync" => Sync!EditsKept

(* VersionSync: a run that failed or was killed can be repeated in its     *)
(* checkout, and only a kill leaves a partial directory, which stays one.  *)
FailsClean == part = "sync" => Sync!Resumable /\ Sync!CleanTarget

(* VersionSync: what is staged was built from what its receipt lists,      *)
(* whatever edits come in between, but for one that is taken back.         *)
BuiltAsReceipted == part = "sync" => Sync!BuiltAsReceipted

(* BuildReceipts: the job accepts exactly the artifacts that are covered.  *)
CoverageExact == part = "receipts" => Receipts!CoverageExact
=============================================================================
