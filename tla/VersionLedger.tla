--------------------------- MODULE VersionLedger ---------------------------
(***************************************************************************)
(* The durable version ledger of the release pipeline                      *)
(* (scripts/release_state.py) and the two programs that use it:            *)
(* release_versioned.py (prepare, publish) and the promote command of      *)
(* release_control.py.                                                     *)
(*                                                                         *)
(* The ledger is one JSON file on a branch of its own. A run of the        *)
(* release workflow reads it with a GET and replaces it with a PUT that    *)
(* carries the blob SHA it read; GitHub refuses the PUT when the file has  *)
(* another SHA. A blob SHA is a hash of the content, so the model compares *)
(* contents. Each GET, POST, PUT or PATCH whose order matters is an action *)
(* of its own; several workflow runs interleave, and a run may end between *)
(* any two requests and be re-run later under the same run ID.             *)
(*                                                                         *)
(* Not represented: policy and source digests of a plan, and the parent    *)
(* record of a final build (fixed by the run's commit and inputs, so a     *)
(* re-run presents the same ones), and the upload of assets, which module  *)
(* Publication refines.                                                    *)
(***************************************************************************)
EXTENDS Naturals, FiniteSets

CONSTANTS
  Runs,          \* workflow run IDs
  Bases,         \* base versions X.Y.Z
  Requests,      \* what a run may be asked to release
  Promotion,     \* versioning.promotion of the policy
  PolicyFloor,   \* versioning.build_number_floor of the policy
  MaxBuild,      \* largest build number create_plan accepts (2100000000)
  MaxPlans,      \* reservations that fit in the 4 MB read_state accepts
  MaxAttempts,   \* bound: attempts of one run
  Serialized,    \* the workflow's concurrency group is in force
  NoPlan         \* a run that holds no plan

Channels == {"nightly", "beta", "rc", "stable"}

(* rc is the N of the rc_tag input vX.Y.Z-rc.N, 0 when there is none.      *)
Request == [channel : Channels, base : Bases, rc : Nat]

(* A tag vX.Y.Z[-channel.id]: id is the sequence of a beta or rc, and the  *)
(* run ID with the attempt for a nightly, whose timestamp adds nothing.    *)
Tag == [base : Bases, channel : Channels, seq : Nat, owner : SUBSET Runs]

_identity(base, channel, seq, r) ==
  [base |-> base, channel |-> channel, seq |-> seq,
   owner |-> IF channel = "nightly" THEN {r} ELSE {}]

StableTag(base) == [base |-> base, channel |-> "stable", seq |-> 0, owner |-> {}]
RcTag(q)        == [base |-> q.base, channel |-> "rc", seq |-> q.rc, owner |-> {}]

(* A plan whose tag validate_plan accepts for its version fields.          *)
Plan ==
  {p \in [run : Runs, base : Bases, channel : Channels, tag : Tag, number : 1..MaxBuild] :
     p.tag = _identity(p.base, p.channel, p.tag.seq, p.run)}

(* The state branch's file. No file is the empty ledger with exists FALSE, *)
(* which is also what read_state returns for it.                           *)
Ledger == [exists : BOOLEAN, counter : Nat, floor : Nat, plans : SUBSET Plan]
Empty  == [exists |-> FALSE, counter |-> 0, floor |-> 0, plans |-> {}]

(* A tag reference or a release, with the run, the attempt and the build   *)
(* number it came from. GitHub keeps the tag only; the rest is history.    *)
Entry == [tag : Tag, run : Runs, attempt : 1..MaxAttempts, number : 1..MaxBuild]

Reserving  == {"checkTag", "getRef", "createRef", "put"}
Preparing  == {"prepare", "read", "checkRef", "allocate", "promote"} \cup Reserving
Publishing == {"built", "staged", "verified", "check", "consume", "tag", "release"}
Active     == Preparing \cup Publishing
Ended      == {"failed", "skipped", "done"}

ASSUME ConstantsAssumption ==
  /\ PolicyFloor \in Nat /\ MaxBuild \in Nat /\ MaxPlans \in Nat
  /\ MaxAttempts \in Nat \ {0}
  /\ Serialized \in BOOLEAN
  /\ Promotion \in {"promote-bytes", "final-build"}
  /\ Requests \subseteq Request
  /\ NoPlan \notin Plan

VARIABLES
  pc,        \* what each run does next
  attempt,   \* its attempt number
  request,   \* its inputs, frozen with the run ID
  plan,      \* the plan it allocates, or carries to publication
  snap,      \* the ledger its last read returned
  branch,    \* the branch release-version-state exists
  store,     \* the ledger file on that branch
  tags,      \* tag references of the repository
  releases,  \* published releases (draft false)
  issued,    \* history: every plan ever handed to a build
  tagged,    \* history: every release tag ever created
  shipped    \* history: every release ever published

local   == <<attempt, request, plan, snap>>
remote  == <<branch, store, tags, releases>>
history == <<issued, tagged, shipped>>
vars    == <<pc, local, remote, history>>

Published == {e.tag : e \in releases}

Goto(r, label)   == pc' = [pc EXCEPT ![r] = label]
Remember(r, led) == snap' = [snap EXCEPT ![r] = led]
Hold(r, p)       == plan' = [plan EXCEPT ![r] = p]
Effect(r)        == [tag     |-> IF request[r].channel = "stable"
                                 THEN StableTag(request[r].base) ELSE plan[r].tag,
                     run     |-> r,
                     attempt |-> attempt[r],
                     number  |-> plan[r].number]

Init ==
  /\ pc = [r \in Runs |-> "queued"]
  /\ attempt = [r \in Runs |-> 1]
  /\ request \in [Runs -> Requests]
  /\ plan = [r \in Runs |-> NoPlan]
  /\ snap = [r \in Runs |-> Empty]
  /\ branch = FALSE
  /\ store = Empty
  /\ tags = {} /\ releases = {}
  /\ issued = {} /\ tagged = {} /\ shipped = {}

-----------------------------------------------------------------------------
(* Decisions taken from one ledger and one inventory of the repository.    *)

Readable(led) == Cardinality(led.plans) <= MaxPlans

(* Plausible bug: reserved but unpublished sequences are not counted.      *)
UsedSequencesTagsOnly(base, channel, led) ==
  {t.seq : t \in {u \in tags : u.base = base /\ u.channel = channel}}

(* The least sequence above every one that a tag of the repository or a    *)
(* reservation of the ledger uses for this base and channel. Every release *)
(* has a tag, created before it, so the tags stand for both inventories.   *)
UsedSequences(base, channel, led) ==
  {t.seq : t \in {u \in tags \cup {p.tag : p \in led.plans} :
                    u.base = base /\ u.channel = channel}}

NextSequence(base, channel, led) ==
  LET used == UsedSequences(base, channel, led) IN
  {n \in {u + 1 : u \in used \cup {0}} : \A u \in used : u < n}

Sequence(r) ==
  LET q == request[r] IN
  CASE q.channel = "nightly" -> {attempt[r]}
    [] q.channel = "stable"  -> {0}
    [] OTHER                 -> NextSequence(q.base, q.channel, snap[r])

NextNumber(led) == (IF led.counter >= PolicyFloor THEN led.counter ELSE PolicyFloor) + 1

NumberAccepted(n) == n <= MaxBuild

(* Plausible bug: a number is refused below the floor, not at it.          *)
ReservationCurrentAtFloor(p, led) ==
  /\ p \in led.plans
  /\ p.number >= led.floor
  /\ ~\E q \in led.plans : q.tag \in Published /\ q.number >= p.number

(* Plausible bug: only what is published now is compared, not the floor.   *)
ReservationCurrentNoFloor(p, led) ==
  /\ p \in led.plans
  /\ ~\E q \in led.plans : q.tag \in Published /\ q.number >= p.number

(* _verify_reservation: p is the ledger's, its number is above the floor,  *)
(* and nothing published has this number or a greater one.                 *)
ReservationCurrent(p, led) ==
  /\ p \in led.plans
  /\ p.number > led.floor
  /\ ~\E q \in led.plans : q.tag \in Published /\ q.number >= p.number

(* Plausible bug: a consumed number that was never published is ignored.   *)
PromotionCurrentNoFloor(p, led) ==
  /\ p \in led.plans
  /\ p.tag \in Published
  /\ ~\E q \in led.plans :
        q.tag # p.tag /\ q.tag \in Published /\ q.number > p.number

(* _verify_promotion_order: the accepted RC is reserved, not below the     *)
(* floor, still published, and nothing newer is published.                 *)
PromotionCurrent(p, led) ==
  /\ p \in led.plans
  /\ p.number >= led.floor
  /\ p.tag \in Published
  /\ ~\E q \in led.plans :
        q.tag # p.tag /\ q.tag \in Published /\ q.number > p.number

Promotes(r) == request[r].channel = "stable" /\ Promotion = "promote-bytes"

Publishable(r, led) ==
  IF Promotes(r) THEN PromotionCurrent(plan[r], led) ELSE ReservationCurrent(plan[r], led)

(* Plausible bug: the closed cycle stops automatic betas only.             *)
CycleOpenBetaOnly(r) == request[r].channel = "beta" => StableTag(request[r].base) \notin tags

(* A candidate or a final build of a base whose stable tag exists is       *)
(* refused; a nightly is not tied to the cycle.                            *)
CycleOpen(r) == request[r].channel # "nightly" => StableTag(request[r].base) \notin tags

-----------------------------------------------------------------------------
(* prepare: reserve one plan, or find the plan this run already reserved.  *)

Start(r) ==
  /\ pc[r] = "queued"
  /\ Serialized => \A o \in Runs : pc[o] \notin Active
  /\ Goto(r, "prepare")
  /\ UNCHANGED <<local, remote, history>>

Prepare(r) ==
  /\ pc[r] = "prepare"
  /\ request[r].channel = "stable" => RcTag(request[r]) \in Published
  /\ Promotes(r) \/ CycleOpen(r)
  /\ Goto(r, IF Promotes(r) THEN "promote" ELSE "read")
  /\ UNCHANGED <<local, remote, history>>

ReadMissing(r) ==
  /\ pc[r] = "read" /\ ~store.exists
  /\ Goto(r, "checkRef")
  /\ UNCHANGED <<local, remote, history>>

(* The file is missing: the ledger is new only if its branch is too.       *)
CheckRef(r) ==
  /\ pc[r] = "checkRef" /\ ~branch
  /\ Remember(r, Empty)
  /\ Goto(r, "allocate")
  /\ UNCHANGED <<attempt, request, plan, remote, history>>

(* A re-run finds its reservation, and gets the same plan again.           *)
ReuseReservation(r) ==
  /\ pc[r] = "read" /\ store.exists /\ Readable(store)
  /\ \E p \in store.plans : p.run = r /\ Hold(r, p)
  /\ Goto(r, "built")
  /\ UNCHANGED <<attempt, request, snap, remote, history>>

ReadLedger(r) ==
  /\ pc[r] = "read" /\ store.exists /\ Readable(store)
  /\ \A p \in store.plans : p.run # r
  /\ Remember(r, store)
  /\ Goto(r, "allocate")
  /\ UNCHANGED <<attempt, request, plan, remote, history>>

Allocate(r) ==
  /\ pc[r] = "allocate"
  /\ NumberAccepted(NextNumber(snap[r]))
  /\ LET q == request[r] IN
     \E n \in Sequence(r) :
       Hold(r, [run |-> r, base |-> q.base, channel |-> q.channel,
                tag |-> _identity(q.base, q.channel, n, r), number |-> NextNumber(snap[r])])
  /\ Goto(r, "checkTag")
  /\ UNCHANGED <<attempt, request, snap, remote, history>>

EnsureAbsent(r) ==
  /\ pc[r] = "checkTag"
  /\ plan[r].tag \notin tags
  /\ Goto(r, "getRef")
  /\ UNCHANGED <<local, remote, history>>

GetRef(r) ==
  /\ pc[r] = "getRef"
  /\ Goto(r, IF branch THEN "put" ELSE "createRef")
  /\ UNCHANGED <<local, remote, history>>

CreateRef(r) ==
  /\ pc[r] = "createRef" /\ ~branch
  /\ branch' = TRUE
  /\ Goto(r, "put")
  /\ UNCHANGED <<local, store, tags, releases, history>>

(* Plausible bug: the PUT carries whatever SHA the file has now.           *)
UnchangedUnconditional(r) == branch

(* GitHub accepts a PUT only over the content its blob SHA names, or over  *)
(* no file when the request carries no SHA.                                *)
Unchanged(r) == branch /\ store = snap[r]

PutReservation(r) ==
  /\ pc[r] = "put" /\ Unchanged(r)
  /\ store' = [exists |-> TRUE, counter |-> plan[r].number, floor |-> snap[r].floor,
               plans |-> snap[r].plans \cup {plan[r]}]
  /\ issued' = issued \cup {plan[r]}
  /\ Remember(r, Empty)
  /\ Goto(r, "built")
  /\ UNCHANGED <<attempt, request, plan, branch, tags, releases, tagged, shipped>>

-----------------------------------------------------------------------------
(* publish and promote: verify, consume the number, then touch the tag.    *)

(* The promotion picks the RC its rc_tag input names.                      *)
PickRc(r) ==
  /\ pc[r] = "promote" /\ Readable(store)
  /\ \E p \in store.plans :
       p.tag = RcTag(request[r]) /\ PromotionCurrent(p, store) /\ Hold(r, p)
  /\ StableTag(request[r].base) \notin tags
  /\ Goto(r, "staged")
  /\ UNCHANGED <<attempt, request, snap, remote, history>>

Verify(r) ==
  /\ pc[r] = "built" /\ Readable(store)
  /\ ReservationCurrent(plan[r], store)
  /\ request[r].channel = "stable" => RcTag(request[r]) \in Published
  /\ plan[r].tag \notin tags
  /\ CycleOpen(r)
  /\ Goto(r, "staged")
  /\ UNCHANGED <<local, remote, history>>

Recheck(r) ==
  /\ pc[r] = "staged" /\ Readable(store)
  /\ Publishable(r, store)
  /\ Goto(r, "verified")
  /\ UNCHANGED <<local, remote, history>>

(* An automatic candidate ends without publishing when a newer push has    *)
(* superseded it, or a scheduled one when a qualified release is reused.   *)
Skip(r) ==
  /\ pc[r] \in {"staged", "verified"}
  /\ request[r].channel \in {"nightly", "beta"}
  /\ Goto(r, "skipped")
  /\ UNCHANGED <<local, remote, history>>

(* begin_publication: read, check the inventory, write.                    *)
BeginRead(r) ==
  /\ pc[r] = "verified" /\ store.exists /\ Readable(store)
  /\ Remember(r, store)
  /\ Goto(r, "check")
  /\ UNCHANGED <<attempt, request, plan, remote, history>>

(* Plausible bug: the publication goes on without the ledger write.        *)
BeginCheckNoWrite(r) ==
  /\ pc[r] = "check" /\ Publishable(r, snap[r])
  /\ Goto(r, "tag")
  /\ UNCHANGED <<local, remote, history>>

BeginCheck(r) ==
  /\ pc[r] = "check" /\ Publishable(r, snap[r])
  /\ Goto(r, "consume")
  /\ UNCHANGED <<local, remote, history>>

Consume(r) ==
  /\ pc[r] = "consume" /\ Unchanged(r)
  /\ store' = [exists |-> TRUE, counter |-> snap[r].counter, floor |-> plan[r].number,
               plans |-> snap[r].plans]
  /\ Remember(r, Empty)
  /\ Goto(r, "tag")
  /\ UNCHANGED <<attempt, request, plan, branch, tags, releases, history>>

(* _publish_prepared: ensure_absent, then POST git/refs, which also fails  *)
(* when the tag exists.                                                    *)
CreateTag(r) ==
  /\ pc[r] = "tag" /\ Effect(r).tag \notin tags
  /\ tags' = tags \cup {Effect(r).tag}
  /\ tagged' = tagged \cup {Effect(r)}
  /\ Goto(r, "release")
  /\ UNCHANGED <<local, branch, store, releases, issued, shipped>>

(* The draft's upload and the PATCH that makes it public, the tag still    *)
(* being there.                                                            *)
Release(r) ==
  /\ pc[r] = "release" /\ Effect(r).tag \in tags
  /\ releases' = releases \cup {Effect(r)}
  /\ shipped' = shipped \cup {Effect(r)}
  /\ Goto(r, "done")
  /\ UNCHANGED <<local, branch, store, tags, issued, tagged>>

-----------------------------------------------------------------------------
(* The environment.                                                        *)

(* A require fails, a request is refused, its response is lost after the   *)
(* effect, or the runner dies: the run ends where it is.                   *)
Abort(r) ==
  /\ pc[r] \in Active
  /\ Goto(r, "failed")
  /\ Remember(r, Empty)
  /\ UNCHANGED <<attempt, request, plan, remote, history>>

(* Plausible bug: a re-run enters its publish job without a prepared plan. *)
RerunPublishOnly(r) ==
  /\ pc[r] \in Ended /\ attempt[r] < MaxAttempts
  /\ attempt' = [attempt EXCEPT ![r] = @ + 1]
  /\ Hold(r, NoPlan)
  /\ Goto(r, "built")
  /\ Remember(r, Empty)
  /\ UNCHANGED <<request, remote, history>>

(* Any ended run can be re-run, from its first job.                        *)
Rerun(r) ==
  /\ pc[r] \in Ended /\ attempt[r] < MaxAttempts
  /\ attempt' = [attempt EXCEPT ![r] = @ + 1]
  /\ Hold(r, NoPlan)
  /\ Goto(r, "queued")
  /\ Remember(r, Empty)
  /\ UNCHANGED <<request, remote, history>>

(* An administrator deletes a release, with or without its tag.            *)
DeleteRelease(e) ==
  /\ releases' = releases \ {e}
  /\ tags' \in {tags, tags \ {e.tag}}
  /\ UNCHANGED <<pc, local, branch, store, history>>

Step(r) ==
  \/ Start(r) \/ Prepare(r) \/ ReadMissing(r) \/ CheckRef(r) \/ ReuseReservation(r)
  \/ ReadLedger(r) \/ Allocate(r) \/ EnsureAbsent(r) \/ GetRef(r) \/ CreateRef(r)
  \/ PutReservation(r) \/ PickRc(r) \/ Verify(r) \/ Recheck(r) \/ Skip(r)
  \/ BeginRead(r) \/ BeginCheck(r) \/ Consume(r) \/ CreateTag(r) \/ Release(r)
  \/ Abort(r) \/ Rerun(r)

Next ==
  \/ \E r \in Runs : Step(r)
  \/ \E e \in releases : DeleteRelease(e)

Spec == Init /\ [][Next]_vars

-----------------------------------------------------------------------------
(* Properties.                                                             *)

(* Every variable has its type, a number is one create_plan accepts, and a *)
(* run that reserves or publishes holds a plan.                            *)
TypeOK ==
  /\ pc \in [Runs -> Active \cup Ended \cup {"queued"}]
  /\ attempt \in [Runs -> 1..MaxAttempts]
  /\ request \in [Runs -> Requests]
  /\ plan \in [Runs -> Plan \cup {NoPlan}]
  /\ \A r \in Runs : pc[r] \in Reserving \cup Publishing => plan[r] \in Plan
  /\ snap \in [Runs -> Ledger]
  /\ branch \in BOOLEAN
  /\ store \in Ledger
  /\ tags \subseteq Tag /\ releases \subseteq Entry
  /\ issued \subseteq Plan /\ tagged \subseteq Entry /\ shipped \subseteq Entry

(* However the reads and writes of concurrent runs interleave, no run has  *)
(* two reservations, no two reservations share a build number, and none    *)
(* share the tag of a candidate (reserve_plan with write_state's CAS).     *)
ReservationsUnique ==
  \A p, q \in store.plans :
    p # q => /\ p.run # q.run
             /\ p.number # q.number
             /\ p.channel # "stable" => p.tag # q.tag

(* A plan handed to a build stays in the ledger forever, whatever other    *)
(* runs write afterwards: a re-run of its run will get the same plan.      *)
IssuedDurable == issued \subseteq store.plans

(* No tag is ever created before the ledger durably records its number as  *)
(* consumed (begin_publication precedes "the first public tag mutation").  *)
ConsumedBeforeTag == \A e \in tagged : e.number <= store.floor

(* A build number backs one attempt of one run to create one tag. The only *)
(* other tag it can ever name is the stable tag its RC is promoted to.     *)
NumberBacksOneTag ==
  \A d, e \in tagged :
    (d.number = e.number /\ d # e)
      => /\ Promotion = "promote-bytes"
         /\ d.tag = StableTag(d.tag.base) \/ e.tag = StableTag(e.tag.base)

(* The tag of a nightly, beta or RC is created for one build only, even    *)
(* when an administrator deletes the release and its tag in between.       *)
CandidateTagNeverReused ==
  \A d, e \in tagged : (d.tag = e.tag /\ d.tag.channel # "stable") => d = e

(* The ledger file behaves as the atomic ledger of LedgerSpec.             *)
Abstract == INSTANCE LedgerSpec WITH
              counter <- store.counter, publication_floor <- store.floor,
              plans <- store.plans
ImplementsLedger == Abstract!Spec

(* With the concurrency group in force, a release never carries a smaller  *)
(* build number than one published before it, deleted or not.              *)
NoDowngrade ==
  [][\A e \in shipped' \ shipped, d \in shipped : d.number <= e.number]_shipped

(* With the concurrency group in force, no beta or RC of a base becomes    *)
(* public while the base's stable tag exists.                              *)
CycleClosed ==
  [][\A e \in shipped' \ shipped :
       e.tag.channel \in {"beta", "rc"} => StableTag(e.tag.base) \notin tags]_shipped

(* release_state.py:106 tells the operator of a run that finds the branch  *)
(* without the file to "restore it from history": there must be a history. *)
MissingLedgerHasHistory == \A r \in Runs : (pc[r] = "checkRef" /\ branch) => store.exists
=============================================================================
