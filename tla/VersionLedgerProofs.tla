------------------------ MODULE VersionLedgerProofs ------------------------
(***************************************************************************)
(* Proofs about VersionLedger, for every set of runs, every request, every *)
(* bound and with or without the workflow's concurrency group.             *)
(***************************************************************************)
EXTENDS VersionLedger, TLAPS

(* The file passes read_state's own checks, no reservation collides and    *)
(* every plan handed out is still there.                                   *)
LedgerInv ==
  /\ ~store.exists => store = Empty
  /\ store.floor <= store.counter
  /\ \A p \in store.plans : p.number <= store.counter
  /\ ReservationsUnique
  /\ IssuedDurable

(* Only a promotion skips the reservation.                                 *)
RouteInv ==
  \A r \in Runs :
    /\ pc[r] \in {"read", "checkRef", "allocate"} \cup Reserving => ~Promotes(r)
    /\ pc[r] = "promote" => Promotes(r)

(* A run that is allocating holds a plan that is new to the ledger it read. *)
AllocInv ==
  \A r \in Runs :
    /\ pc[r] \in Reserving \cup {"allocate"} => \A q \in snap[r].plans : q.run # r
    /\ pc[r] \in Reserving =>
         /\ plan[r].run = r
         /\ plan[r].number > snap[r].counter
         /\ \A q \in snap[r].plans : plan[r].channel # "stable" => q.tag # plan[r].tag

(* A run that is publishing holds a reserved plan: its own, or, for a      *)
(* promotion, that of an RC whose tag was created with its number.         *)
HeldInv ==
  \A r \in Runs :
    pc[r] \in Publishing =>
      /\ plan[r] \in store.plans
      /\ ~Promotes(r) => plan[r].run = r
      /\ Promotes(r) => \E e \in tagged : e.tag = plan[r].tag /\ e.number = plan[r].number

(* The number a run is about to consume passed the floor of what it read.  *)
ConsumeInv ==
  \A r \in Runs :
    pc[r] = "consume" =>
      IF Promotes(r) THEN plan[r].number >= snap[r].floor ELSE plan[r].number > snap[r].floor

(* A tag has a consumed number and, unless stable, the plan that names it. *)
TagInv ==
  /\ releases \subseteq tagged
  /\ ConsumedBeforeTag
  /\ \A e \in tagged : e.tag.channel # "stable" =>
        \E p \in store.plans : p.tag = e.tag /\ p.number = e.number
  /\ NumberBacksOneTag

(* A run past the ledger write has consumed its number, and only a         *)
(* promotion shares that number with a tag.                                *)
TaggingInv ==
  \A r \in Runs :
    /\ pc[r] \in {"tag", "release"} => plan[r].number <= store.floor
    /\ pc[r] = "tag" /\ ~Promotes(r) => \A e \in tagged : e.number # plan[r].number
    /\ pc[r] = "release" => Effect(r) \in tagged

IInv ==
  /\ TypeOK /\ LedgerInv /\ RouteInv /\ AllocInv /\ HeldInv /\ ConsumeInv
  /\ TagInv /\ TaggingInv

-----------------------------------------------------------------------------
(* Type correctness.                                                       *)

LEMMA EmptyType == Empty \in Ledger
  BY DEF Empty, Ledger

LEMMA IdentityType ==
  ASSUME NEW base \in Bases, NEW channel \in Channels, NEW n \in Nat, NEW r \in Runs
  PROVE  /\ _identity(base, channel, n, r) \in Tag
         /\ _identity(base, channel, n, r).seq = n
         /\ _identity(base, channel, n, r).base = base
         /\ _identity(base, channel, n, r).channel = channel
  BY DEF _identity, Tag

LEMMA PlanType ==
  ASSUME NEW p \in Plan
  PROVE  /\ p.number \in Nat /\ p.run \in Runs /\ p.tag \in Tag
         /\ p.base = p.tag.base /\ p.channel = p.tag.channel /\ p.channel \in Channels
         /\ p.channel = "nightly" => p.tag.owner = {p.run}
<1>1. p.tag = _identity(p.base, p.channel, p.tag.seq, p.run)
  BY DEF Plan
<1>2. /\ p.tag.base = p.base /\ p.tag.channel = p.channel
      /\ p.channel = "nightly" => p.tag.owner = {p.run}
  BY <1>1 DEF _identity
<1> QED
  BY <1>2, ConstantsAssumption DEF Plan

(* What a run creates or publishes is typed once it holds a plan.          *)
LEMMA EffectType ==
  ASSUME TypeOK, NEW r \in Runs, plan[r] \in Plan
  PROVE  Effect(r) \in Entry
<1>1. request[r] \in Request
  BY ConstantsAssumption DEF TypeOK
<1>2. StableTag(request[r].base) \in Tag
  BY <1>1 DEF StableTag, Tag, Request, Channels
<1> QED
  BY <1>1, <1>2 DEF Effect, Entry, Plan, TypeOK

LEMMA SequenceType ==
  ASSUME TypeOK, NEW r \in Runs
  PROVE  Sequence(r) \subseteq Nat
<1>1. UsedSequences(request[r].base, request[r].channel, snap[r]) \subseteq Nat
  BY DEF UsedSequences, TypeOK, Ledger, Plan, Tag
<1>2. NextSequence(request[r].base, request[r].channel, snap[r]) \subseteq Nat
  BY <1>1 DEF NextSequence
<1> QED
  BY <1>2 DEF Sequence, TypeOK

LEMMA NextNumberType ==
  ASSUME NEW led \in Ledger
  PROVE  /\ NextNumber(led) \in Nat
         /\ NextNumber(led) > led.counter
         /\ NextNumber(led) > 0
  BY ConstantsAssumption DEF NextNumber, Ledger

(* The steps that only move a run, and change nothing it reserves with.    *)
Quiet(r) ==
  Start(r) \/ Prepare(r) \/ ReadMissing(r) \/ EnsureAbsent(r) \/ GetRef(r) \/ Verify(r)
    \/ Recheck(r) \/ Skip(r) \/ BeginCheck(r)

LEMMA QuietEffect ==
  ASSUME TypeOK, NEW r \in Runs, Quiet(r)
  PROVE  /\ UNCHANGED <<local, remote, history>>
         /\ \E label \in (Active \cup Ended) : pc' = [pc EXCEPT ![r] = label]
         /\ pc'[r] \in Reserving \cup Publishing => pc[r] \in Reserving \cup Publishing
  BY DEF Quiet, Start, Prepare, ReadMissing, EnsureAbsent, GetRef, Verify, Recheck, Skip,
         BeginCheck, Goto, Active, Ended, Preparing, Reserving, Publishing, TypeOK

LEMMA TypeStep ==
  ASSUME TypeOK, Next
  PROVE  TypeOK'
<1> USE DEF TypeOK, local, remote, history, Goto, Remember, Hold
<1>1. ASSUME NEW r \in Runs, Quiet(r) PROVE TypeOK'
  BY <1>1, QuietEffect
<1>2. ASSUME NEW r \in Runs, CheckRef(r) PROVE TypeOK'
  BY <1>2, EmptyType DEF CheckRef, Active, Preparing, Publishing, Reserving
<1>3. ASSUME NEW r \in Runs, ReuseReservation(r) PROVE TypeOK'
  BY <1>3 DEF ReuseReservation, Ledger, Active, Preparing, Publishing, Reserving
<1>4. ASSUME NEW r \in Runs, ReadLedger(r) PROVE TypeOK'
  BY <1>4 DEF ReadLedger, Active, Preparing, Publishing, Reserving
<1>5. ASSUME NEW r \in Runs, Allocate(r) PROVE TypeOK'
  <2>1. request[r].base \in Bases /\ request[r].channel \in Channels
    BY ConstantsAssumption DEF Request
  <2>2. NextNumber(snap[r]) \in 1..MaxBuild
    BY <1>5, NextNumberType, ConstantsAssumption DEF Allocate, NumberAccepted
  <2>3. PICK n \in Sequence(r) :
          Hold(r, [run |-> r, base |-> request[r].base, channel |-> request[r].channel,
                   tag |-> _identity(request[r].base, request[r].channel, n, r),
                   number |-> NextNumber(snap[r])])
    BY <1>5 DEF Allocate
  <2> DEFINE p == [run |-> r, base |-> request[r].base, channel |-> request[r].channel,
                   tag |-> _identity(request[r].base, request[r].channel, n, r),
                   number |-> NextNumber(snap[r])]
  <2>4. p \in Plan
    BY <2>1, <2>2, <2>3, SequenceType, IdentityType DEF Plan
  <2> HIDE DEF p
  <2>5. plan' = [plan EXCEPT ![r] = p]
    BY <2>3 DEF p
  <2> QED
    BY <1>5, <2>4, <2>5 DEF Allocate, Active, Preparing, Publishing, Reserving
<1>6. ASSUME NEW r \in Runs, CreateRef(r) PROVE TypeOK'
  BY <1>6 DEF CreateRef, Active, Preparing, Publishing, Reserving
<1>7. ASSUME NEW r \in Runs, PutReservation(r) PROVE TypeOK'
  <2>1. plan[r] \in Plan /\ plan[r].number \in Nat
    BY <1>7, ConstantsAssumption DEF PutReservation, Reserving, Plan
  <2>2. store' \in Ledger /\ issued' \subseteq Plan
    BY <1>7, <2>1 DEF PutReservation, Ledger
  <2> QED
    BY <1>7, <2>1, <2>2, EmptyType
       DEF PutReservation, Active, Preparing, Publishing, Reserving
<1>8. ASSUME NEW r \in Runs, PickRc(r) PROVE TypeOK'
  BY <1>8 DEF PickRc, Ledger, Active, Preparing, Publishing, Reserving
<1>9. ASSUME NEW r \in Runs, BeginRead(r) PROVE TypeOK'
  BY <1>9 DEF BeginRead, Active, Preparing, Publishing, Reserving
<1>10. ASSUME NEW r \in Runs, Consume(r) PROVE TypeOK'
  <2>1. plan[r] \in Plan /\ plan[r].number \in Nat
    BY <1>10, ConstantsAssumption DEF Consume, Publishing, Plan
  <2>2. store' \in Ledger
    BY <1>10, <2>1 DEF Consume, Ledger
  <2> QED
    BY <1>10, <2>2, EmptyType DEF Consume, Active, Preparing, Publishing, Reserving
<1>11. ASSUME NEW r \in Runs, CreateTag(r) PROVE TypeOK'
  <2>1. Effect(r) \in Entry /\ Effect(r).tag \in Tag
    BY <1>11, EffectType DEF CreateTag, Publishing, Entry
  <2> QED
    BY <1>11, <2>1 DEF CreateTag, Active, Preparing, Publishing, Reserving
<1>12. ASSUME NEW r \in Runs, Release(r) PROVE TypeOK'
  <2>1. Effect(r) \in Entry
    BY <1>12, EffectType DEF Release, Publishing
  <2> QED
    BY <1>12, <2>1 DEF Release, Active, Ended, Preparing, Publishing, Reserving
<1>13. ASSUME NEW r \in Runs, Abort(r) PROVE TypeOK'
  BY <1>13, EmptyType DEF Abort, Active, Ended, Preparing, Publishing, Reserving
<1>14. ASSUME NEW r \in Runs, Rerun(r) PROVE TypeOK'
  BY <1>14, EmptyType, ConstantsAssumption
     DEF Rerun, Active, Ended, Preparing, Publishing, Reserving
<1>15. ASSUME NEW e \in releases, DeleteRelease(e) PROVE TypeOK'
  BY <1>15 DEF DeleteRelease
<1> QED
  BY <1>1, <1>2, <1>3, <1>4, <1>5, <1>6, <1>7, <1>8, <1>9, <1>10, <1>11, <1>12, <1>13,
     <1>14, <1>15 DEF Next, Step, Quiet

(* Every variable keeps its type, and a number never passes the limit.     *)
THEOREM TypeCorrect == Spec => []TypeOK
<1>1. Init => TypeOK
  <2>1. 1 \in 1..MaxAttempts
    BY ConstantsAssumption
  <2> QED
    BY <2>1, EmptyType DEF Init, TypeOK, Reserving, Publishing
<1>2. TypeOK /\ [Next]_vars => TypeOK'
  <2>1. CASE Next
    BY <2>1, TypeStep
  <2>2. CASE UNCHANGED vars
    BY <2>2 DEF TypeOK, vars, local, remote, history
  <2> QED
    BY <2>1, <2>2
<1> QED
  BY <1>1, <1>2, PTL DEF Spec

-----------------------------------------------------------------------------
(* What a step leaves alone.                                               *)

(* A step of one run changes nothing another run holds.                    *)
LEMMA OthersKeep ==
  ASSUME TypeOK, NEW r \in Runs, Step(r), NEW o \in Runs, o # r
  PROVE  /\ pc'[o] = pc[o] /\ plan'[o] = plan[o] /\ snap'[o] = snap[o]
         /\ attempt'[o] = attempt[o]
  BY DEF Step, Quiet, Start, Prepare, ReadMissing, CheckRef, ReuseReservation, ReadLedger, Allocate,
         EnsureAbsent, GetRef, CreateRef, PutReservation, PickRc, Verify, Recheck, Skip,
         BeginRead, BeginCheck, Consume, CreateTag, Release, Abort, Rerun, TypeOK, Goto, Remember, Hold, local, remote, history

LEMMA RequestsKept ==
  ASSUME Next
  PROVE  request' = request
  BY DEF Next, Step, Quiet, Start, Prepare, ReadMissing, CheckRef, ReuseReservation, ReadLedger, Allocate,
         EnsureAbsent, GetRef, CreateRef, PutReservation, PickRc, Verify, Recheck, Skip,
         BeginRead, BeginCheck, Consume, CreateTag, Release, Abort, Rerun, DeleteRelease, Goto, Remember, Hold, local, remote, history

LEMMA PromotesKept ==
  ASSUME Next, NEW o \in Runs
  PROVE  Promotes(o)' = Promotes(o)
  BY RequestsKept DEF Promotes

(* Only two steps write the file, and only one of them issues a plan.      *)
LEMMA StoreKept ==
  ASSUME Next, \A r \in Runs : ~PutReservation(r) /\ ~Consume(r)
  PROVE  store' = store /\ issued' = issued
  BY DEF Next, Step, Quiet, Start, Prepare, ReadMissing, CheckRef, ReuseReservation, ReadLedger, Allocate,
         EnsureAbsent, GetRef, CreateRef, PutReservation, PickRc, Verify, Recheck, Skip,
         BeginRead, BeginCheck, Consume, CreateTag, Release, Abort, Rerun, DeleteRelease, Goto, Remember, Hold, local, remote, history

LEMMA TaggedKept ==
  ASSUME Next, \A r \in Runs : ~CreateTag(r)
  PROVE  tagged' = tagged
  BY DEF Next, Step, Quiet, Start, Prepare, ReadMissing, CheckRef, ReuseReservation, ReadLedger, Allocate,
         EnsureAbsent, GetRef, CreateRef, PutReservation, PickRc, Verify, Recheck, Skip,
         BeginRead, BeginCheck, Consume, CreateTag, Release, Abort, Rerun, DeleteRelease, Goto, Remember, Hold, local, remote, history

-----------------------------------------------------------------------------
(* The ledger file.                                                        *)

LEMMA LedgerStep ==
  ASSUME TypeOK, LedgerInv, RouteInv, AllocInv, HeldInv, ConsumeInv, Next
  PROVE  LedgerInv'
<1>1. ASSUME NEW r \in Runs, PutReservation(r) PROVE LedgerInv'
  <2> DEFINE new == plan[r]
  <2>1. /\ store = snap[r] /\ new \in Plan /\ store \in Ledger
        /\ store'.exists = TRUE /\ store'.counter = new.number /\ store'.floor = store.floor
        /\ store'.plans = store.plans \cup {new} /\ issued' = issued \cup {new}
    BY <1>1 DEF PutReservation, Unchanged, TypeOK, Reserving
  <2>2. /\ new.run = r /\ new.number > store.counter
        /\ \A q \in store.plans : q.run # r /\ (new.channel # "stable" => q.tag # new.tag)
    BY <1>1, <2>1 DEF AllocInv, PutReservation, Reserving
  <2> HIDE DEF new
  <2>3. /\ new.number \in Nat /\ new.channel = new.tag.channel
        /\ \A q \in store.plans : q.number \in Nat /\ q.channel = q.tag.channel
        /\ store.counter \in Nat /\ store.floor \in Nat
    BY <2>1, PlanType DEF Ledger
  <2>4. store'.floor <= store'.counter
    BY <2>1, <2>2, <2>3 DEF LedgerInv
  <2>5. \A p \in store'.plans : p.number <= store'.counter
    BY <2>1, <2>2, <2>3 DEF LedgerInv
  <2>6. \A q \in store.plans : q.number # new.number
    BY <2>2, <2>3 DEF LedgerInv
  <2>7. ReservationsUnique'
    BY <2>1, <2>2, <2>3, <2>6 DEF LedgerInv, ReservationsUnique
  <2>8. IssuedDurable'
    BY <2>1 DEF LedgerInv, IssuedDurable
  <2> QED
    BY <2>1, <2>4, <2>5, <2>7, <2>8 DEF LedgerInv
<1>2. ASSUME NEW r \in Runs, Consume(r) PROVE LedgerInv'
  <2>1. /\ store = snap[r] /\ plan[r] \in store.plans
        /\ store'.exists = TRUE /\ store'.counter = store.counter
        /\ store'.floor = plan[r].number /\ store'.plans = store.plans /\ issued' = issued
    BY <1>2 DEF Consume, Unchanged, HeldInv, Publishing, history
  <2> QED
    BY <2>1 DEF LedgerInv, ReservationsUnique, IssuedDurable
<1>3. CASE \A r \in Runs : ~PutReservation(r) /\ ~Consume(r)
  BY <1>3, StoreKept DEF LedgerInv, ReservationsUnique, IssuedDurable
<1> QED
  BY <1>1, <1>2, <1>3

(* No plan is ever lost and the floor never falls.                         *)
LEMMA LedgerGrows ==
  ASSUME TypeOK, LedgerInv, HeldInv, ConsumeInv, Next
  PROVE  store.plans \subseteq store'.plans /\ store.floor <= store'.floor
<1>1. ASSUME NEW r \in Runs, PutReservation(r)
      PROVE store.plans \subseteq store'.plans /\ store.floor <= store'.floor
  BY <1>1 DEF PutReservation, Unchanged, TypeOK, Ledger
<1>2. ASSUME NEW r \in Runs, Consume(r)
      PROVE store.plans \subseteq store'.plans /\ store.floor <= store'.floor
  <2>1. store = snap[r] /\ store'.floor = plan[r].number /\ store'.plans = store.plans
    BY <1>2 DEF Consume, Unchanged
  <2>2. plan[r].number \in Nat /\ store.floor \in Nat
    BY <1>2, ConstantsAssumption DEF TypeOK, Consume, Publishing, Plan, Ledger
  <2> QED
    BY <1>2, <2>1, <2>2 DEF ConsumeInv, Consume
<1>3. CASE \A r \in Runs : ~PutReservation(r) /\ ~Consume(r)
  BY <1>3, StoreKept DEF TypeOK, Ledger
<1> QED
  BY <1>1, <1>2, <1>3

LEMMA TaggedGrows ==
  ASSUME Next
  PROVE  tagged \subseteq tagged'
<1>1. ASSUME NEW r \in Runs, CreateTag(r) PROVE tagged \subseteq tagged'
  BY <1>1 DEF CreateTag
<1> QED
  BY <1>1, TaggedKept

-----------------------------------------------------------------------------
(* What the runs hold. A step of the run itself is the interesting case;   *)
(* other runs keep what they hold, and the ledger only grows under them.   *)

LEMMA RouteStep ==
  ASSUME TypeOK, RouteInv, Next
  PROVE  RouteInv'
<1>1. ASSUME NEW r \in Runs, Step(r), NEW o \in Runs
      PROVE  /\ pc'[o] \in {"read", "checkRef", "allocate"} \cup Reserving => ~Promotes(o)
             /\ pc'[o] = "promote" => Promotes(o)
  <2>1. CASE o # r
    BY <1>1, <2>1, OthersKeep DEF RouteInv
  <2>2. CASE o = r
    BY <1>1, <2>2 DEF Step, Quiet, Start, Prepare, ReadMissing, CheckRef, ReuseReservation, ReadLedger, Allocate,
         EnsureAbsent, GetRef, CreateRef, PutReservation, PickRc, Verify, Recheck, Skip,
         BeginRead, BeginCheck, Consume, CreateTag, Release, Abort, Rerun, RouteInv, Reserving, TypeOK, Goto, Remember, Hold, local, remote, history
  <2> QED
    BY <2>1, <2>2
<1>2. ASSUME NEW e \in releases, DeleteRelease(e) PROVE RouteInv'
  BY <1>2, PromotesKept DEF DeleteRelease, RouteInv
<1> QED
  BY <1>1, <1>2, PromotesKept DEF Next, RouteInv

(* The plan Allocate builds is new to the ledger it was built from.        *)
LEMMA AllocateNew ==
  ASSUME TypeOK, TypeOK', RouteInv, AllocInv, NEW r \in Runs, Allocate(r)
  PROVE  /\ plan'[r].run = r
         /\ plan'[r].number > snap[r].counter
         /\ \A q \in snap[r].plans : plan'[r].channel # "stable" => q.tag # plan'[r].tag
<1>1. PICK n \in Sequence(r) :
        plan'[r] = [run |-> r, base |-> request[r].base, channel |-> request[r].channel,
                    tag |-> _identity(request[r].base, request[r].channel, n, r),
                    number |-> NextNumber(snap[r])]
  BY DEF Allocate, Hold, TypeOK
<1>2. request[r].base \in Bases /\ request[r].channel \in Channels
  BY ConstantsAssumption DEF TypeOK, Request
<1>3. n \in Nat /\ snap[r] \in Ledger
  BY SequenceType DEF TypeOK
<1>4. /\ plan'[r].run = r /\ plan'[r].number = NextNumber(snap[r])
      /\ plan'[r].channel = request[r].channel
      /\ plan'[r].tag = _identity(request[r].base, request[r].channel, n, r)
  BY <1>1
<1>5. ASSUME NEW q \in snap[r].plans, request[r].channel # "stable", q.tag = plan'[r].tag
      PROVE  FALSE
  <2>1. q \in Plan /\ q.run # r
    BY <1>3 DEF Ledger, AllocInv, Allocate
  <2>2. /\ q.tag.base = request[r].base /\ q.tag.channel = request[r].channel
        /\ q.tag.seq = n
    BY <1>2, <1>3, <1>4, <1>5, IdentityType
  <2>3. CASE request[r].channel = "nightly"
    <3>1. q.tag.owner = {r}
      BY <1>4, <1>5, <2>3 DEF _identity
    <3> QED
      BY <2>1, <2>2, <2>3, <3>1, PlanType
  <2>4. CASE request[r].channel # "nightly"
    <3>1. n \in NextSequence(request[r].base, request[r].channel, snap[r])
      BY <1>5, <2>4 DEF Sequence
    <3>2. \A u \in UsedSequences(request[r].base, request[r].channel, snap[r]) : u < n
      BY <3>1 DEF NextSequence
    <3>3. n \in UsedSequences(request[r].base, request[r].channel, snap[r])
      BY <2>2 DEF UsedSequences
    <3> QED
      BY <1>3, <3>2, <3>3
  <2> QED
    BY <2>3, <2>4
<1> QED
  BY <1>3, <1>4, <1>5, NextNumberType

LEMMA AllocStep ==
  ASSUME TypeOK, TypeOK', RouteInv, AllocInv, Next
  PROVE  AllocInv'
<1> DEFINE
  Unreserved(o) == \A q \in snap[o].plans : q.run # o
  Fresh(o) == /\ plan[o].run = o
              /\ plan[o].number > snap[o].counter
              /\ \A q \in snap[o].plans :
                    plan[o].channel # "stable" => q.tag # plan[o].tag
  Good(o) == /\ pc[o] \in Reserving \cup {"allocate"} => Unreserved(o)
             /\ pc[o] \in Reserving => Fresh(o)
<1>1. ASSUME NEW r \in Runs, Step(r) PROVE Good(r)'
  <2>1. CASE CheckRef(r)
    BY <2>1 DEF CheckRef, Reserving, Empty, TypeOK, Goto, Remember
  <2>2. CASE ReadLedger(r)
    BY <2>2 DEF ReadLedger, Reserving, TypeOK, Goto, Remember
  <2>3. CASE Allocate(r)
    <3>1. snap' = snap /\ pc[r] = "allocate"
      BY <2>3 DEF Allocate
    <3> QED
      BY <2>3, <3>1, AllocateNew DEF AllocInv
  <2>4. CASE EnsureAbsent(r) \/ GetRef(r) \/ CreateRef(r)
    BY <2>4 DEF EnsureAbsent, GetRef, CreateRef, AllocInv, Reserving, TypeOK, Goto, Remember, Hold, local, remote, history
  <2>5. CASE ~(CheckRef(r) \/ ReadLedger(r) \/ Allocate(r) \/ EnsureAbsent(r) \/ GetRef(r)
                 \/ CreateRef(r))
    <3>1. pc'[r] \notin Reserving \cup {"allocate"}
      BY <1>1, <2>5 DEF Step, Quiet, Start, Prepare, ReadMissing, ReuseReservation,
         PutReservation, PickRc, Verify, Recheck, Skip, BeginRead, BeginCheck, Consume,
         CreateTag, Release, Abort, Rerun, Reserving, TypeOK, Goto
    <3> QED
      BY <3>1
  <2> QED
    BY <2>1, <2>2, <2>3, <2>4, <2>5
<1>2. ASSUME NEW r \in Runs, Step(r), NEW o \in Runs, o # r PROVE Good(o)'
  BY <1>2, OthersKeep DEF AllocInv
<1>3. ASSUME NEW e \in releases, DeleteRelease(e) PROVE AllocInv'
  BY <1>3 DEF DeleteRelease, AllocInv, local
<1> QED
  BY <1>1, <1>2, <1>3 DEF Next, AllocInv

(* The RC a promotion picks is the one whose tag was created with its      *)
(* number.                                                                 *)
LEMMA PickedRcTagged ==
  ASSUME TypeOK, LedgerInv, TagInv, NEW r \in Runs, PickRc(r)
  PROVE  /\ plan'[r] \in store.plans
         /\ \E e \in tagged : e.tag = plan'[r].tag /\ e.number = plan'[r].number
<1>1. PICK p \in store.plans :
        p.tag = RcTag(request[r]) /\ PromotionCurrent(p, store) /\ plan'[r] = p
  BY DEF PickRc, Hold, TypeOK
<1>2. PICK e \in tagged : e.tag = p.tag
  BY <1>1 DEF PromotionCurrent, Published, TagInv
<1>3. p.tag.channel = "rc"
  BY <1>1 DEF RcTag
<1>4. PICK q \in store.plans : q.tag = e.tag /\ q.number = e.number
  BY <1>2, <1>3 DEF TagInv
<1>5. p.channel # "stable"
  BY <1>3, PlanType DEF TypeOK, Ledger
<1>6. p = q
  BY <1>2, <1>4, <1>5 DEF LedgerInv, ReservationsUnique
<1> QED
  BY <1>1, <1>2, <1>4, <1>6

LEMMA HeldStep ==
  ASSUME TypeOK, LedgerInv, RouteInv, AllocInv, HeldInv, ConsumeInv, TagInv, Next
  PROVE  HeldInv'
<1> DEFINE
  Good(o) == pc[o] \in Publishing =>
               /\ plan[o] \in store.plans
               /\ ~Promotes(o) => plan[o].run = o
               /\ Promotes(o) =>
                    \E e \in tagged : e.tag = plan[o].tag /\ e.number = plan[o].number
<1>1. store.plans \subseteq store'.plans /\ tagged \subseteq tagged'
  BY LedgerGrows, TaggedGrows
<1>2. ASSUME NEW r \in Runs, Step(r) PROVE Good(r)'
  <2>1. CASE ReuseReservation(r)
    <3>1. plan'[r] \in store.plans /\ plan'[r].run = r /\ ~Promotes(r)
      BY <2>1 DEF ReuseReservation, Hold, TypeOK, RouteInv
    <3> QED
      BY <1>1, <3>1, PromotesKept
  <2>2. CASE PutReservation(r)
    <3>1. plan' = plan /\ plan[r] \in store'.plans /\ plan[r].run = r /\ ~Promotes(r)
      BY <2>2 DEF PutReservation, AllocInv, RouteInv, Reserving
    <3> QED
      BY <3>1, PromotesKept
  <2>3. CASE PickRc(r)
    <3>1. Promotes(r)
      BY <2>3 DEF PickRc, RouteInv
    <3> QED
      BY <1>1, <2>3, <3>1, PickedRcTagged, PromotesKept
  <2>4. CASE ~(ReuseReservation(r) \/ PutReservation(r) \/ PickRc(r))
    <3>1. pc'[r] \in Publishing => pc[r] \in Publishing /\ plan'[r] = plan[r]
      BY <1>2, <2>4 DEF Step, Start, Prepare, ReadMissing, CheckRef, ReadLedger, Allocate,
         EnsureAbsent, GetRef, CreateRef, Verify, Recheck, Skip, BeginRead, BeginCheck,
         Consume, CreateTag, Release, Abort, Rerun, Publishing, TypeOK, Goto, local
    <3> QED
      BY <1>1, <3>1, PromotesKept DEF HeldInv
  <2> QED
    BY <2>1, <2>2, <2>3, <2>4
<1>3. ASSUME NEW r \in Runs, Step(r), NEW o \in Runs, o # r PROVE Good(o)'
  BY <1>1, <1>3, OthersKeep, PromotesKept DEF HeldInv
<1>4. ASSUME NEW e \in releases, DeleteRelease(e) PROVE HeldInv'
  BY <1>4, PromotesKept DEF DeleteRelease, HeldInv, local, history
<1> QED
  BY <1>2, <1>3, <1>4 DEF Next, HeldInv

LEMMA ConsumeStep ==
  ASSUME TypeOK, ConsumeInv, Next
  PROVE  ConsumeInv'
<1> DEFINE
  Good(o) == pc[o] = "consume" =>
               IF Promotes(o) THEN plan[o].number >= snap[o].floor
                              ELSE plan[o].number > snap[o].floor
<1>1. ASSUME NEW r \in Runs, Step(r) PROVE Good(r)'
  <2>1. CASE BeginCheck(r)
    <3>1. plan' = plan /\ snap' = snap /\ Publishable(r, snap[r])
      BY <2>1 DEF BeginCheck, local
    <3> QED
      BY <3>1, PromotesKept DEF Publishable, PromotionCurrent, ReservationCurrent
  <2>2. CASE ~BeginCheck(r)
    <3>1. pc'[r] # "consume"
      BY <1>1, <2>2 DEF Step, Start, Prepare, ReadMissing, CheckRef, ReuseReservation,
         ReadLedger, Allocate, EnsureAbsent, GetRef, CreateRef, PutReservation, PickRc, Verify,
         Recheck, Skip, BeginRead, Consume, CreateTag, Release, Abort, Rerun, TypeOK, Goto
    <3> QED
      BY <3>1
  <2> QED
    BY <2>1, <2>2
<1>2. ASSUME NEW r \in Runs, Step(r), NEW o \in Runs, o # r PROVE Good(o)'
  BY <1>2, OthersKeep, PromotesKept DEF ConsumeInv
<1>3. ASSUME NEW e \in releases, DeleteRelease(e) PROVE ConsumeInv'
  BY <1>3, PromotesKept DEF DeleteRelease, ConsumeInv, local
<1> QED
  BY <1>1, <1>2, <1>3 DEF Next, ConsumeInv

-----------------------------------------------------------------------------
(* Tags and releases.                                                      *)

LEMMA EffectTag ==
  ASSUME NEW r \in Runs
  PROVE  /\ Effect(r).number = plan[r].number
         /\ Effect(r).tag.channel # "stable" => Effect(r).tag = plan[r].tag
         /\ Promotes(r) => /\ Promotion = "promote-bytes"
                           /\ Effect(r).tag = StableTag(Effect(r).tag.base)
  BY DEF Effect, StableTag, Promotes

LEMMA TagStep ==
  ASSUME TypeOK, LedgerInv, HeldInv, ConsumeInv, TagInv, TaggingInv, Next
  PROVE  TagInv'
<1>1. store.plans \subseteq store'.plans /\ store.floor <= store'.floor
  BY LedgerGrows
<1>2. store.floor \in Nat /\ store'.floor \in Nat /\ \A e \in tagged : e.number \in Nat
  BY TypeStep, ConstantsAssumption DEF TypeOK, Ledger, Entry
<1>3. releases' \subseteq tagged'
  <2>1. ASSUME NEW r \in Runs, Release(r) PROVE releases' \subseteq tagged'
    BY <2>1 DEF Release, TagInv, TaggingInv
  <2>2. CASE \A r \in Runs : ~Release(r)
    <3>1. releases' \subseteq releases
      BY <2>2 DEF Next, Step, Start, Prepare, ReadMissing, CheckRef, ReuseReservation,
         ReadLedger, Allocate, EnsureAbsent, GetRef, CreateRef, PutReservation, PickRc, Verify,
         Recheck, Skip, BeginRead, BeginCheck, Consume, CreateTag, Abort, Rerun,
         DeleteRelease, remote
    <3> QED
      BY <3>1, TaggedGrows DEF TagInv
  <2> QED
    BY <2>1, <2>2
<1>4. ASSUME NEW r \in Runs, CreateTag(r)
      PROVE  /\ ConsumedBeforeTag'
             /\ \A e \in tagged' : e.tag.channel # "stable" =>
                   \E p \in store'.plans : p.tag = e.tag /\ p.number = e.number
             /\ NumberBacksOneTag'
  <2>1. /\ tagged' = tagged \cup {Effect(r)} /\ store' = store
        /\ plan[r].number <= store.floor /\ plan[r] \in store.plans
    BY <1>4 DEF CreateTag, TaggingInv, HeldInv, Publishing
  <2>2. ConsumedBeforeTag'
    BY <2>1, EffectTag DEF ConsumedBeforeTag, TagInv
  <2>3. \A e \in tagged' : e.tag.channel # "stable" =>
          \E p \in store'.plans : p.tag = e.tag /\ p.number = e.number
    BY <2>1, EffectTag DEF TagInv
  <2>4. CASE Promotes(r)
    BY <2>1, <2>2, <2>3, <2>4, EffectTag DEF NumberBacksOneTag, TagInv
  <2>5. CASE ~Promotes(r)
    <3>1. \A e \in tagged : e.number # Effect(r).number
      BY <1>4, <2>5, EffectTag DEF CreateTag, TaggingInv
    <3> QED
      BY <2>1, <2>2, <2>3, <3>1 DEF NumberBacksOneTag, TagInv
  <2> QED
    BY <2>4, <2>5
<1>5. CASE \A r \in Runs : ~CreateTag(r)
  <2>1. tagged' = tagged
    BY <1>5, TaggedKept
  <2>2. ConsumedBeforeTag'
    BY <1>1, <1>2, <2>1 DEF ConsumedBeforeTag, TagInv
  <2> QED
    BY <1>1, <1>3, <2>1, <2>2 DEF NumberBacksOneTag, TagInv
<1> QED
  BY <1>3, <1>4, <1>5 DEF TagInv

(* No tag has the number that a run which publishes its own plan is about  *)
(* to create a tag with.                                                   *)
LEMMA OthersTag ==
  ASSUME TypeOK, LedgerInv, HeldInv, TaggingInv,
         NEW r \in Runs, pc[r] = "tag", ~Promotes(r), NEW o \in Runs, o # r, CreateTag(o)
  PROVE  Effect(o).number # plan[r].number
<1>1. SUFFICES ASSUME plan[o].number = plan[r].number PROVE FALSE
  BY EffectTag
<1>2. /\ plan[o] \in store.plans /\ plan[r] \in store.plans
      /\ plan[r].run = r
      /\ ~Promotes(o) => plan[o].run = o
  BY DEF HeldInv, CreateTag, Publishing
<1>3. CASE Promotes(o)
  <2>1. PICK e \in tagged : e.number = plan[o].number
    BY <1>3 DEF HeldInv, CreateTag, Publishing
  <2>2. e.number # plan[r].number
    BY DEF TaggingInv
  <2> QED
    BY <1>1, <2>1, <2>2
<1>4. CASE ~Promotes(o)
  BY <1>1, <1>2, <1>4 DEF LedgerInv, ReservationsUnique
<1> QED
  BY <1>3, <1>4

LEMMA TaggingStep ==
  ASSUME TypeOK, LedgerInv, HeldInv, ConsumeInv, TagInv, TaggingInv, Next
  PROVE  TaggingInv'
<1> DEFINE
  Good(o) == /\ pc[o] \in {"tag", "release"} => plan[o].number <= store.floor
             /\ pc[o] = "tag" /\ ~Promotes(o) => \A e \in tagged : e.number # plan[o].number
             /\ pc[o] = "release" => Effect(o) \in tagged
<1>1. /\ store.floor <= store'.floor /\ store.floor \in Nat /\ store'.floor \in Nat
      /\ \A e \in tagged : e.number \in Nat
      /\ \A o \in Runs : pc[o] \in Publishing => plan[o].number \in Nat
  BY LedgerGrows, TypeStep, PlanType, ConstantsAssumption DEF TypeOK, Ledger, Entry
<1>2. ASSUME NEW r \in Runs, Step(r) PROVE Good(r)'
  <2>1. CASE Consume(r)
    <3>1. /\ store = snap[r] /\ store'.floor = plan[r].number /\ plan' = plan
          /\ tagged' = tagged /\ pc'[r] = "tag" /\ plan[r].number \in Nat
      BY <1>1, <2>1 DEF Consume, Unchanged, Goto, TypeOK, history, Publishing
    <3>2. ~Promotes(r) => \A e \in tagged : e.number # plan[r].number
      BY <1>1, <2>1, <3>1 DEF ConsumeInv, Consume, ConsumedBeforeTag, TagInv
    <3> QED
      BY <3>1, <3>2, PromotesKept
  <2>2. CASE CreateTag(r)
    <3>1. /\ tagged' = tagged \cup {Effect(r)} /\ store' = store /\ plan' = plan
          /\ pc'[r] = "release" /\ Effect(r)' = Effect(r) /\ plan[r].number <= store.floor
      BY <2>2 DEF CreateTag, Goto, TypeOK, local, Effect, TaggingInv
    <3> QED
      BY <3>1
  <2>3. CASE ~(Consume(r) \/ CreateTag(r))
    <3>1. pc'[r] \notin {"tag", "release"}
      BY <1>2, <2>3 DEF Step, Start, Prepare, ReadMissing, CheckRef, ReuseReservation,
         ReadLedger, Allocate, EnsureAbsent, GetRef, CreateRef, PutReservation, PickRc, Verify,
         Recheck, Skip, BeginRead, BeginCheck, Release, Abort, Rerun, TypeOK, Goto
    <3> QED
      BY <3>1
  <2> QED
    BY <2>1, <2>2, <2>3
<1>3. ASSUME NEW r \in Runs, Step(r), NEW o \in Runs, o # r PROVE Good(o)'
  <2>1. /\ pc'[o] = pc[o] /\ plan'[o] = plan[o] /\ Promotes(o)' = Promotes(o)
        /\ Effect(o)' = Effect(o)
    BY <1>3, OthersKeep, PromotesKept, RequestsKept DEF Effect
  <2>2. pc[o] \in {"tag", "release"} => plan[o].number <= store'.floor
    BY <1>1 DEF TaggingInv, Publishing
  <2>3. ASSUME pc[o] = "tag", ~Promotes(o)
        PROVE  \A e \in tagged' : e.number # plan[o].number
    <3>1. CASE CreateTag(r)
      BY <1>3, <2>3, <3>1, OthersTag DEF CreateTag, TaggingInv
    <3>2. CASE ~CreateTag(r)
      <4>1. tagged' = tagged
        BY <1>3, <3>2 DEF Step, Start, Prepare, ReadMissing, CheckRef, ReuseReservation,
           ReadLedger, Allocate, EnsureAbsent, GetRef, CreateRef, PutReservation, PickRc,
           Verify, Recheck, Skip, BeginRead, BeginCheck, Consume, Release, Abort, Rerun, history
      <4> QED
        BY <2>3, <4>1 DEF TaggingInv
    <3> QED
      BY <3>1, <3>2
  <2> QED
    BY <2>1, <2>2, <2>3, TaggedGrows DEF TaggingInv
<1>4. ASSUME NEW e \in releases, DeleteRelease(e) PROVE TaggingInv'
  BY <1>4, PromotesKept DEF DeleteRelease, TaggingInv, Effect, local, history
<1> QED
  BY <1>2, <1>3, <1>4 DEF Next, TaggingInv

-----------------------------------------------------------------------------
(* The theorems.                                                           *)

LEMMA IInvInit == Init => IInv
<1> SUFFICES ASSUME Init PROVE IInv
  OBVIOUS
<1>1. TypeOK
  <2>1. 1 \in 1..MaxAttempts
    BY ConstantsAssumption
  <2> QED
    BY <2>1, EmptyType DEF Init, TypeOK, Reserving, Publishing
<1>2. LedgerInv
  BY DEF Init, Empty, LedgerInv, ReservationsUnique, IssuedDurable
<1>3. RouteInv /\ AllocInv /\ HeldInv /\ ConsumeInv /\ TaggingInv
  BY DEF Init, RouteInv, AllocInv, HeldInv, ConsumeInv, TaggingInv, Reserving, Publishing
<1>4. TagInv
  BY DEF Init, TagInv, ConsumedBeforeTag, NumberBacksOneTag
<1> QED
  BY <1>1, <1>2, <1>3, <1>4 DEF IInv

LEMMA IInvStep == IInv /\ [Next]_vars => IInv'
<1>1. CASE IInv /\ Next
  <2>1. TypeOK'
    BY <1>1, TypeStep DEF IInv
  <2>2. LedgerInv'
    BY <1>1, LedgerStep DEF IInv
  <2>3. RouteInv'
    BY <1>1, RouteStep DEF IInv
  <2>4. AllocInv'
    BY <1>1, <2>1, AllocStep DEF IInv
  <2>5. HeldInv'
    BY <1>1, HeldStep DEF IInv
  <2>6. ConsumeInv'
    BY <1>1, ConsumeStep DEF IInv
  <2>7. TagInv'
    BY <1>1, TagStep DEF IInv
  <2>8. TaggingInv'
    BY <1>1, TaggingStep DEF IInv
  <2> QED
    BY <2>1, <2>2, <2>3, <2>4, <2>5, <2>6, <2>7, <2>8 DEF IInv
<1>2. CASE IInv /\ UNCHANGED vars
  <2> USE <1>2 DEF vars, local, remote, history
  <2>1. TypeOK'
    BY DEF IInv, TypeOK
  <2>2. LedgerInv'
    BY DEF IInv, LedgerInv, ReservationsUnique, IssuedDurable
  <2>3. RouteInv' /\ AllocInv' /\ HeldInv' /\ ConsumeInv'
    BY DEF IInv, RouteInv, AllocInv, HeldInv, ConsumeInv, Promotes
  <2>4. TagInv'
    BY DEF IInv, TagInv, ConsumedBeforeTag, NumberBacksOneTag
  <2>5. TaggingInv'
    BY DEF IInv, TaggingInv, Promotes, Effect
  <2> QED
    BY <2>1, <2>2, <2>3, <2>4, <2>5 DEF IInv
<1> QED
  BY <1>1, <1>2

(* The inductive invariant holds in every reachable state.                 *)
THEOREM LedgerInvariant == Spec => []IInv
  BY IInvInit, IInvStep, PTL DEF Spec

(* No two reservations collide, however many runs race for the ledger.     *)
THEOREM UniqueReservations == Spec => []ReservationsUnique
<1>1. IInv => ReservationsUnique
  BY DEF IInv, LedgerInv
<1> QED
  BY <1>1, LedgerInvariant, PTL

(* A plan handed to a build stays reserved.                                *)
THEOREM DurableIssue == Spec => []IssuedDurable
<1>1. IInv => IssuedDurable
  BY DEF IInv, LedgerInv
<1> QED
  BY <1>1, LedgerInvariant, PTL

(* A tag is created only after its number is durably consumed.             *)
THEOREM ConsumptionFirst == Spec => []ConsumedBeforeTag
<1>1. IInv => ConsumedBeforeTag
  BY DEF IInv, TagInv
<1> QED
  BY <1>1, LedgerInvariant, PTL

(* A build number names one tag, or an RC and the stable tag promoted      *)
(* from it.                                                                *)
THEOREM OneTagPerNumber == Spec => []NumberBacksOneTag
<1>1. IInv => NumberBacksOneTag
  BY DEF IInv, TagInv
<1> QED
  BY <1>1, LedgerInvariant, PTL

(* A candidate tag is created once, also when tags and releases are        *)
(* deleted: equal tags have the same plan, so the same number.             *)
THEOREM CandidateTagsUnique == Spec => []CandidateTagNeverReused
<1>1. IInv => CandidateTagNeverReused
  <2> SUFFICES ASSUME IInv, NEW d \in tagged, NEW e \in tagged,
                      d.tag = e.tag, d.tag.channel # "stable"
               PROVE  d = e
    BY DEF CandidateTagNeverReused
  <2>1. PICK p \in store.plans : p.tag = d.tag /\ p.number = d.number
    BY DEF IInv, TagInv
  <2>2. PICK q \in store.plans : q.tag = e.tag /\ q.number = e.number
    BY DEF IInv, TagInv
  <2>3. p.channel # "stable"
    BY <2>1, PlanType DEF IInv, TypeOK, Ledger
  <2>4. d.number = e.number
    BY <2>1, <2>2, <2>3 DEF IInv, LedgerInv, ReservationsUnique
  <2>5. d.tag # StableTag(d.tag.base) /\ e.tag # StableTag(e.tag.base)
    BY DEF StableTag
  <2> QED
    BY <2>4, <2>5 DEF IInv, TagInv, NumberBacksOneTag
<1> QED
  BY <1>1, LedgerInvariant, PTL

(* A promotion writes the floor it found: its RC's number is consumed.     *)
LEMMA PromotionStutters ==
  ASSUME IInv, NEW r \in Runs, Consume(r), Promotes(r)
  PROVE  plan[r].number = store.floor
<1>1. plan[r].number >= store.floor
  BY DEF IInv, ConsumeInv, Consume, Unchanged
<1>2. PICK e \in tagged : e.number = plan[r].number
  BY DEF IInv, HeldInv, Consume, Publishing
<1>3. e.number <= store.floor
  BY DEF IInv, TagInv, ConsumedBeforeTag
<1>4. e.number \in Nat /\ store.floor \in Nat
  BY ConstantsAssumption DEF IInv, TypeOK, Entry, Ledger
<1> QED
  BY <1>1, <1>2, <1>3, <1>4

(* Reads, retries, crashes and conditional writes implement the atomic     *)
(* ledger of LedgerSpec.                                                   *)
THEOREM LedgerRefinement == Spec => ImplementsLedger
<1>1. Init => Abstract!Init
  BY DEF Init, Abstract!Init, Empty
<1>2. IInv /\ [Next]_vars => [Abstract!Next]_(Abstract!vars)
  <2> SUFFICES ASSUME IInv, [Next]_vars PROVE [Abstract!Next]_(Abstract!vars)
    OBVIOUS
  <2>1. ASSUME NEW r \in Runs, PutReservation(r) PROVE Abstract!Next
    <3> DEFINE new == plan[r]
    <3>1. /\ store = snap[r] /\ new \in Plan
          /\ store'.counter = new.number /\ store'.floor = store.floor
          /\ store'.plans = store.plans \cup {new}
      BY <2>1 DEF PutReservation, Unchanged, IInv, TypeOK, Reserving
    <3>2. /\ new.run = r /\ new.number > store.counter
          /\ \A q \in store.plans : q.run # r /\ (new.channel # "stable" => q.tag # new.tag)
      BY <2>1, <3>1 DEF IInv, AllocInv, PutReservation, Reserving
    <3> HIDE DEF new
    <3>3. Abstract!Reserve(new)
      BY <3>1, <3>2 DEF Abstract!Reserve
    <3> QED
      BY <3>1, <3>3 DEF Abstract!Next
  <2>2. ASSUME NEW r \in Runs, Consume(r) PROVE [Abstract!Next]_(Abstract!vars)
    <3>1. /\ store = snap[r] /\ plan[r] \in store.plans
          /\ store'.counter = store.counter /\ store'.floor = plan[r].number
          /\ store'.plans = store.plans
      BY <2>2 DEF Consume, Unchanged, IInv, HeldInv, Publishing
    <3>2. CASE Promotes(r)
      BY <2>2, <3>1, <3>2, PromotionStutters DEF Abstract!vars
    <3>3. CASE ~Promotes(r)
      <4>1. plan[r].number > store.floor
        BY <2>2, <3>1, <3>3 DEF IInv, ConsumeInv, Consume
      <4> QED
        BY <3>1, <4>1 DEF Abstract!Next, Abstract!Consume
    <3> QED
      BY <3>2, <3>3
  <2>3. CASE Next /\ \A r \in Runs : ~PutReservation(r) /\ ~Consume(r)
    BY <2>3, StoreKept DEF Abstract!vars
  <2>4. CASE UNCHANGED vars
    BY <2>4 DEF vars, remote, Abstract!vars
  <2> QED
    BY <2>1, <2>2, <2>3, <2>4
<1> QED
  BY <1>1, <1>2, LedgerInvariant, PTL DEF Spec, ImplementsLedger, Abstract!Spec

-----------------------------------------------------------------------------
(* Under the concurrency group.                                            *)

(* The plans of the ledger, and a plan about to enter it, are for the base *)
(* and the channel that their run was asked for.                           *)
RequestedInv ==
  /\ \A p \in store.plans : /\ p.base = request[p.run].base
                            /\ p.channel = request[p.run].channel
  /\ \A r \in Runs : pc[r] \in Reserving =>
        plan[r].base = request[r].base /\ plan[r].channel = request[r].channel

(* One run at a time is between its first job and its last.                *)
AloneInv == \A r, o \in Runs : (pc[r] \in Active /\ pc[o] \in Active) => r = o

(* The floor is the number of the run that wrote it, for as long as that   *)
(* run has something to publish.                                           *)
FloorInv == \A r \in Runs : pc[r] \in {"tag", "release"} => plan[r].number = store.floor

(* A candidate found its cycle open when it was prepared, and it still is. *)
CycleInv ==
  \A r \in Runs :
    (pc[r] \in Active \ {"prepare"} /\ request[r].channel \in {"beta", "rc"})
      => StableTag(request[r].base) \notin tags

(* Everything public was tagged.                                           *)
ShippedInv == shipped \subseteq tagged

GroupInv == Serialized => AloneInv /\ FloorInv /\ CycleInv

SerialInv == IInv /\ RequestedInv /\ ShippedInv /\ GroupInv

(* What a run holds stays what it was asked for.                           *)
LEMMA RequestedStep ==
  ASSUME IInv, RequestedInv, Next
  PROVE  RequestedInv'
<1> DEFINE Good(o) == pc[o] \in Reserving =>
                        plan[o].base = request[o].base /\ plan[o].channel = request[o].channel
<1>1. request' = request /\ TypeOK
  BY RequestsKept DEF IInv
<1>2. ASSUME NEW r \in Runs, PutReservation(r)
      PROVE  \A p \in store'.plans : /\ p.base = request[p.run].base
                                     /\ p.channel = request[p.run].channel
  <2>1. plan[r].run = r /\ store'.plans = store.plans \cup {plan[r]}
    BY <1>2 DEF PutReservation, Unchanged, IInv, AllocInv, Reserving
  <2>2. Good(r)
    BY DEF RequestedInv
  <2> QED
    BY <1>2, <2>1, <2>2 DEF RequestedInv, PutReservation, Reserving
<1>3. ASSUME NEW r \in Runs, Consume(r) PROVE store'.plans = store.plans
  BY <1>3 DEF Consume, Unchanged
<1>4. \A p \in store'.plans : /\ p.base = request[p.run].base
                              /\ p.channel = request[p.run].channel
  BY <1>2, <1>3, StoreKept DEF RequestedInv
<1>5. ASSUME NEW r \in Runs, Step(r) PROVE Good(r)'
  <2>1. CASE Allocate(r)
    BY <1>1, <2>1 DEF Allocate, Hold, TypeOK
  <2>2. CASE EnsureAbsent(r) \/ GetRef(r) \/ CreateRef(r)
    BY <1>1, <2>2 DEF EnsureAbsent, GetRef, CreateRef, RequestedInv, Reserving, local
  <2>3. CASE ~(Allocate(r) \/ EnsureAbsent(r) \/ GetRef(r) \/ CreateRef(r))
    <3>1. pc'[r] \notin Reserving
      BY <1>1, <1>5, <2>3 DEF Step, Start, Prepare, ReadMissing, CheckRef, ReuseReservation,
         ReadLedger, PutReservation, PickRc, Verify, Recheck, Skip, BeginRead, BeginCheck,
         Consume, CreateTag, Release, Abort, Rerun, Reserving, TypeOK, Goto
    <3> QED
      BY <3>1
  <2> QED
    BY <2>1, <2>2, <2>3
<1>6. ASSUME NEW r \in Runs, Step(r), NEW o \in Runs, o # r PROVE Good(o)'
  BY <1>1, <1>6, OthersKeep DEF RequestedInv
<1>7. ASSUME NEW e \in releases, DeleteRelease(e), NEW o \in Runs PROVE Good(o)'
  BY <1>1, <1>7 DEF DeleteRelease, RequestedInv, local
<1>8. \A o \in Runs : Good(o)'
  BY <1>5, <1>6, <1>7 DEF Next
<1> QED
  BY <1>1, <1>4, <1>8 DEF RequestedInv

LEMMA ShippedStep ==
  ASSUME IInv, ShippedInv, Next
  PROVE  ShippedInv'
<1>1. ASSUME NEW r \in Runs, Release(r) PROVE shipped' \subseteq tagged
  BY <1>1 DEF Release, IInv, TaggingInv, ShippedInv
<1>2. CASE \A r \in Runs : ~Release(r)
  <2>1. shipped' = shipped
    BY <1>2 DEF Next, Step, Start, Prepare, ReadMissing, CheckRef, ReuseReservation,
       ReadLedger, Allocate, EnsureAbsent, GetRef, CreateRef, PutReservation, PickRc, Verify,
       Recheck, Skip, BeginRead, BeginCheck, Consume, CreateTag, Abort, Rerun,
       DeleteRelease, history
  <2> QED
    BY <2>1, TaggedGrows DEF ShippedInv
<1> QED
  BY <1>1, <1>2, TaggedGrows DEF ShippedInv

(* A run that starts was alone, and every other step is that of a run      *)
(* already under way.                                                      *)
LEMMA StepsAlone ==
  ASSUME TypeOK, Serialized, AloneInv, NEW r \in Runs, Step(r)
  PROVE  /\ pc'[r] \in Active /\ pc[r] \notin Active =>
              pc'[r] = "prepare" /\ \A o \in Runs : pc[o] \notin Active
         /\ ~(Start(r) \/ Rerun(r)) => pc[r] \in Active
  BY DEF Step, Start, Prepare, ReadMissing, CheckRef, ReuseReservation, ReadLedger, Allocate,
         EnsureAbsent, GetRef, CreateRef, PutReservation, PickRc, Verify, Recheck, Skip,
         BeginRead, BeginCheck, Consume, CreateTag, Release, Abort, Rerun, TypeOK, Goto,
         Active, Preparing, Publishing, Reserving, Ended

LEMMA AloneStep ==
  ASSUME TypeOK, Serialized, AloneInv, Next
  PROVE  AloneInv'
<1>1. ASSUME NEW r \in Runs, Step(r) PROVE AloneInv'
  <2>1. \A o \in Runs : o # r => pc'[o] = pc[o]
    BY <1>1, OthersKeep
  <2>2. pc'[r] \in Active => (pc[r] \in Active \/ \A o \in Runs : pc[o] \notin Active)
    BY <1>1, StepsAlone
  <2> QED
    BY <2>1, <2>2 DEF AloneInv
<1>2. ASSUME NEW e \in releases, DeleteRelease(e) PROVE AloneInv'
  BY <1>2 DEF DeleteRelease, AloneInv
<1> QED
  BY <1>1, <1>2 DEF Next

LEMMA FloorStep ==
  ASSUME IInv, Serialized, AloneInv, FloorInv, Next
  PROVE  FloorInv'
<1> DEFINE Good(o) == pc[o] \in {"tag", "release"} => plan[o].number = store.floor
<1>1. TypeOK
  BY DEF IInv
<1>2. ASSUME NEW r \in Runs, Step(r) PROVE Good(r)'
  <2>1. CASE Consume(r)
    BY <2>1 DEF Consume
  <2>2. CASE CreateTag(r)
    <3>1. pc[r] = "tag" /\ plan' = plan /\ store' = store
      BY <2>2 DEF CreateTag, local
    <3> QED
      BY <3>1 DEF FloorInv
  <2>3. CASE ~(Consume(r) \/ CreateTag(r))
    <3>1. pc'[r] \notin {"tag", "release"}
      BY <1>1, <1>2, <2>3 DEF Step, Start, Prepare, ReadMissing, CheckRef, ReuseReservation,
         ReadLedger, Allocate, EnsureAbsent, GetRef, CreateRef, PutReservation, PickRc, Verify,
         Recheck, Skip, BeginRead, BeginCheck, Release, Abort, Rerun, TypeOK, Goto
    <3> QED
      BY <3>1
  <2> QED
    BY <2>1, <2>2, <2>3
<1>3. ASSUME NEW r \in Runs, Step(r), NEW o \in Runs, o # r PROVE Good(o)'
  <2>1. SUFFICES ASSUME pc[o] \in {"tag", "release"} PROVE plan'[o].number = store'.floor
    BY <1>1, <1>3, OthersKeep
  <2>2. pc[r] \notin Active
    BY <1>3, <2>1 DEF AloneInv, Active, Publishing
  <2>3. store' = store
    BY <1>1, <1>3, <2>2, StepsAlone DEF Start, Rerun, remote
  <2> QED
    BY <1>1, <1>3, <2>1, <2>3, OthersKeep DEF FloorInv
<1>4. ASSUME NEW e \in releases, DeleteRelease(e) PROVE FloorInv'
  BY <1>4 DEF DeleteRelease, FloorInv, local
<1> QED
  BY <1>2, <1>3, <1>4 DEF Next, FloorInv

(* The only tag created while a candidate is under way is its own.         *)
LEMMA CycleStep ==
  ASSUME IInv, RequestedInv, Serialized, AloneInv, CycleInv, Next
  PROVE  CycleInv'
<1> DEFINE
  Good(o) == (pc[o] \in Active \ {"prepare"} /\ request[o].channel \in {"beta", "rc"})
               => StableTag(request[o].base) \notin tags
<1>1. TypeOK /\ request' = request
  BY RequestsKept DEF IInv
<1>2. ASSUME NEW r \in Runs, Step(r) PROVE Good(r)'
  <2>1. CASE Prepare(r)
    BY <1>1, <2>1 DEF Prepare, CycleOpen, Promotes, remote
  <2>2. CASE CreateTag(r)
    <3>1. SUFFICES ASSUME request[r].channel \in {"beta", "rc"}
                   PROVE  StableTag(request[r].base) \notin tags'
      BY <1>1
    <3>2. plan[r] \in store.plans /\ plan[r] \in Plan /\ plan[r].run = r
      BY <1>1, <2>2, <3>1 DEF CreateTag, IInv, HeldInv, Publishing, Promotes, TypeOK
    <3>3. Effect(r).tag.channel = request[r].channel
      BY <3>1, <3>2, PlanType DEF Effect, RequestedInv
    <3>4. StableTag(request[r].base) # Effect(r).tag
      BY <3>1, <3>3 DEF StableTag
    <3>5. StableTag(request[r].base) \notin tags
      BY <2>2, <3>1 DEF CreateTag, CycleInv, Active, Publishing
    <3> QED
      BY <2>2, <3>4, <3>5 DEF CreateTag
  <2>3. CASE ~(Prepare(r) \/ CreateTag(r))
    <3>1. tags' = tags
      BY <1>2, <2>3 DEF Step, Start, ReadMissing, CheckRef, ReuseReservation,
         ReadLedger, Allocate, EnsureAbsent, GetRef, CreateRef, PutReservation, PickRc, Verify,
         Recheck, Skip, BeginRead, BeginCheck, Consume, Release, Abort, Rerun, remote
    <3>2. pc'[r] \in Active \ {"prepare"} => pc[r] \in Active \ {"prepare"}
      BY <1>1, <1>2, <2>3 DEF Step, Start, ReadMissing, CheckRef, ReuseReservation,
         ReadLedger, Allocate, EnsureAbsent, GetRef, CreateRef, PutReservation, PickRc, Verify,
         Recheck, Skip, BeginRead, BeginCheck, Consume, Release, Abort, Rerun, TypeOK, Goto,
         Active, Preparing, Publishing, Reserving, Ended
    <3> QED
      BY <1>1, <3>1, <3>2 DEF CycleInv
  <2> QED
    BY <2>1, <2>2, <2>3
<1>3. ASSUME NEW r \in Runs, Step(r), NEW o \in Runs, o # r PROVE Good(o)'
  <2>1. SUFFICES ASSUME pc[o] \in Active \ {"prepare"}, request[o].channel \in {"beta", "rc"}
                 PROVE  StableTag(request[o].base) \notin tags'
    BY <1>1, <1>3, OthersKeep
  <2>2. pc[r] \notin Active
    BY <1>3, <2>1 DEF AloneInv
  <2>3. tags' = tags
    BY <1>1, <1>3, <2>2, StepsAlone DEF Start, Rerun, remote
  <2> QED
    BY <2>1, <2>3 DEF CycleInv
<1>4. ASSUME NEW e \in releases, DeleteRelease(e) PROVE CycleInv'
  BY <1>1, <1>4 DEF DeleteRelease, CycleInv
<1> QED
  BY <1>2, <1>3, <1>4 DEF Next, CycleInv

LEMMA SerialStep == SerialInv /\ [Next]_vars => SerialInv'
<1>1. CASE SerialInv /\ Next
  <2>1. IInv' /\ RequestedInv' /\ ShippedInv'
    BY <1>1, IInvStep, RequestedStep, ShippedStep DEF SerialInv
  <2>2. GroupInv'
    BY <1>1, AloneStep, FloorStep, CycleStep DEF SerialInv, GroupInv, IInv
  <2> QED
    BY <2>1, <2>2 DEF SerialInv
<1>2. CASE SerialInv /\ UNCHANGED vars
  <2>1. IInv'
    BY <1>2, IInvStep DEF SerialInv
  <2> QED
    BY <1>2, <2>1 DEF SerialInv, GroupInv, RequestedInv, ShippedInv, AloneInv, FloorInv,
       CycleInv, vars, local, remote, history
<1> QED
  BY <1>1, <1>2

(* With or without the concurrency group, runs hold what they were asked   *)
(* for; with it, one run at a time reserves and publishes.                 *)
THEOREM SerialInvariant == Spec => []SerialInv
<1>1. Init => SerialInv
  <2>1. ASSUME Init PROVE RequestedInv /\ ShippedInv /\ GroupInv
    BY <2>1 DEF Init, Empty, RequestedInv, ShippedInv, GroupInv, AloneInv, FloorInv, CycleInv,
       Active, Preparing, Publishing, Reserving
  <2> QED
    BY <2>1, IInvInit DEF SerialInv
<1> QED
  BY <1>1, SerialStep, PTL DEF Spec

LEMMA ReleaseShips ==
  ASSUME Next, NEW e \in shipped' \ shipped
  PROVE  \E r \in Runs : Release(r) /\ e = Effect(r)
<1>1. ASSUME NEW r \in Runs, Release(r) PROVE e = Effect(r)
  BY <1>1 DEF Release
<1>2. CASE \A r \in Runs : ~Release(r)
  <2>1. shipped' = shipped
    BY <1>2 DEF Next, Step, Start, Prepare, ReadMissing, CheckRef, ReuseReservation,
       ReadLedger, Allocate, EnsureAbsent, GetRef, CreateRef, PutReservation, PickRc, Verify,
       Recheck, Skip, BeginRead, BeginCheck, Consume, CreateTag, Abort, Rerun,
       DeleteRelease, history
  <2> QED
    BY <2>1
<1> QED
  BY <1>1, <1>2

(* While the concurrency group is in force, a release never has a smaller  *)
(* build number than one before it: what was published is not above the    *)
(* floor, and the floor is the number of the run that publishes.           *)
THEOREM ReleasesOnlyRise ==
  ASSUME Serialized
  PROVE  Spec => NoDowngrade
<1>1. SerialInv /\ [Next]_vars =>
        [\A e \in shipped' \ shipped, d \in shipped : d.number <= e.number]_shipped
  <2> SUFFICES ASSUME SerialInv, Next, NEW e \in shipped' \ shipped, NEW d \in shipped
               PROVE  d.number <= e.number
    BY DEF vars, history
  <2>1. PICK r \in Runs : Release(r) /\ e = Effect(r)
    BY ReleaseShips
  <2>2. d.number <= store.floor
    BY DEF SerialInv, ShippedInv, IInv, TagInv, ConsumedBeforeTag
  <2>3. e.number = store.floor
    BY <2>1, EffectTag DEF Release, SerialInv, GroupInv, FloorInv
  <2> QED
    BY <2>2, <2>3
<1> QED
  BY <1>1, SerialInvariant, PTL DEF Spec, NoDowngrade

(* While the concurrency group is in force, a candidate is published only  *)
(* while its base has no stable tag: it saw none, and nobody else tags.    *)
THEOREM ClosedCycleStaysClosed ==
  ASSUME Serialized
  PROVE  Spec => CycleClosed
<1>1. SerialInv /\ [Next]_vars =>
        [\A e \in shipped' \ shipped :
           e.tag.channel \in {"beta", "rc"} => StableTag(e.tag.base) \notin tags]_shipped
  <2> SUFFICES ASSUME SerialInv, Next, NEW e \in shipped' \ shipped,
                      e.tag.channel \in {"beta", "rc"}
               PROVE  StableTag(e.tag.base) \notin tags
    BY DEF vars, history
  <2>1. PICK r \in Runs : Release(r) /\ e = Effect(r)
    BY ReleaseShips
  <2>2. e.tag = plan[r].tag /\ request[r].channel # "stable"
    BY <2>1 DEF Effect, StableTag
  <2>3. plan[r] \in store.plans /\ plan[r] \in Plan /\ plan[r].run = r
    BY <2>1, <2>2 DEF Release, SerialInv, IInv, TypeOK, HeldInv, Publishing, Promotes
  <2>4. e.tag.base = request[r].base /\ e.tag.channel = request[r].channel
    BY <2>2, <2>3, PlanType DEF SerialInv, RequestedInv
  <2> QED
    BY <2>1, <2>4 DEF Release, SerialInv, GroupInv, CycleInv, Active, Publishing
<1> QED
  BY <1>1, SerialInvariant, PTL DEF Spec, CycleClosed
=============================================================================
