------------------------- MODULE PublicationProofs -------------------------
(***************************************************************************)
(* Proofs about Publication, for every set of assets and release IDs.      *)
(***************************************************************************)
EXTENDS Publication, TLAPS

(* The release in hand was assigned, so its ID is not assigned again, and  *)
(* it was this call's.                                                     *)
HandInv == mine \in used \cup {NoRelease} /\ OnlyOwnDraft

(* There is nothing of this call's before it creates, and one draft after. *)
CreateInv ==
  /\ pc \in {"tag", "create"} => Own = {} /\ ~inflight
  /\ CreatedOnce

(* No release has two assets of one name.                                  *)
Distinct(assets) == \A a, b \in assets : a.name = b.name => a = b
NamesInv == \A i \in Present : Distinct(releases[i].assets)

(* Every staged asset is either not compared yet or there with its bytes,  *)
(* and there is no other.                                                  *)
Covered(assets) ==
  /\ \A b \in unverified : b.name \in Staged
  /\ \A a \in assets : a.name \in Staged
  /\ \A n \in Staged :
       (\E b \in unverified : b.name = n) \/ [name |-> n, exact |-> TRUE] \in assets
AssetsInv ==
  /\ AfterInventory /\ mine \in Present /\ "assets" \notin late => Covered(releases[mine].assets)
  /\ pc \in {"checkTag", "confirmSource", "patch"} => unverified = {}

(* What the last checks saw still holds, but for later changes.            *)
ChecksInv ==
  /\ pc \in {"confirmSource", "patch"} => tag = "source" \/ "tag" \in late
  /\ pc = "patch" /\ mode = "automatic" => source \/ "source" \in late

IInv == TypeOK /\ HandInv /\ CreateInv /\ NamesInv /\ AssetsInv /\ ChecksInv

-----------------------------------------------------------------------------
(* The steps, by what they do to the releases.                             *)

(* Steps of the transaction that read only.                                *)
Reading ==
  \/ Confirm \/ ListFirst \/ ListSecond \/ GetRelease \/ GetTag \/ Uploaded
  \/ Inventory \/ VerifyAsset \/ Verified \/ CheckTag \/ ConfirmSource \/ Fail

(* Steps that open a draft.                                                *)
Opening == CreateDraft \/ Ambiguous \/ CommitLate \/ ForeignDraft

(* Steps that change one release.                                          *)
Changing == Upload \/ Publish \/ DeleteDraft \/ Tamper

(* Steps that change the tag, the branch or the ledger.                    *)
Elsewhere == CreateTag \/ MoveTag \/ PushHead \/ WriteLedger

(* Every step is of one of the four kinds.                                 *)
LEMMA StepKinds == Next => Reading \/ Opening \/ Changing \/ Elsewhere
  BY DEF Next, Reading, Opening, Changing, Elsewhere

(* A new draft takes an unused ID and has no assets.                       *)
LEMMA OpenDraft ==
  ASSUME TypeOK, NEW i \in Ids, NEW own \in BOOLEAN, Open(i, own)
  PROVE  /\ i \notin Present /\ used' = used \cup {i}
         /\ releases' \in [Ids -> Release \cup {NoRelease}]
         /\ releases'[i] = [own |-> own, draft |-> TRUE, assets |-> {}]
         /\ \A j \in Ids \ {i} : releases'[j] = releases[j]
         /\ Present' \subseteq Present \cup {i} /\ Present' \subseteq used'
         /\ Present \subseteq Present'
  BY DEF TypeOK, Open, Put, Draft, Present, Release

(* The empty transaction satisfies the invariant.                          *)
LEMMA InitIInv == ASSUME Init PROVE IInv
  BY DEF Init, IInv, TypeOK, HandInv, OnlyOwnDraft, CreateInv, CreatedOnce, NamesInv, AssetsInv,
         ChecksInv, Present, Own, AfterInventory, Modes, Labels, Readback, Asset, Release

-----------------------------------------------------------------------------
(* Types.                                                                  *)

(* A step that only reads leaves the repository alone, and the release in  *)
(* hand is kept, or becomes a draft of this call's.                        *)
LEMMA ReadingKeeps ==
  ASSUME Reading
  PROVE  UNCHANGED <<mode, remote, late>> /\ Present' = Present /\ Own' = Own /\ (mine' = mine \/ mine' \in Own)
<1>1. UNCHANGED <<mode, remote, late>> /\ (mine' = mine \/ mine' \in Own)
  BY DEF Reading, Confirm, ListFirst, ListSecond, GetRelease, GetTag, Uploaded, Inventory,
         VerifyAsset, Verified, CheckTag, ConfirmSource, Fail, local, remote, Requested
<1>2. QED
  BY <1>1 DEF remote, Present, Own

(* Steps that read keep the types.                                         *)
LEMMA ReadingTypeOK == ASSUME TypeOK, Reading PROVE TypeOK'
<1>1. UNCHANGED <<mode, remote, late>> /\ Present' = Present
  BY ReadingKeeps
<1>2. pc' \in Labels
  BY DEF TypeOK, Labels, Readback, Reading, Confirm, ListFirst, ListSecond, GetRelease, GetTag,
         Uploaded, Inventory, VerifyAsset, Verified, CheckTag, ConfirmSource, Fail
<1>3. mine' \in Ids \cup {NoRelease} /\ (pc' \in Labels \ (Readback \cup {"tag", "create", "failed"}) => mine' \in Ids)
  BY DEF TypeOK, Labels, Readback, Reading, Confirm, ListFirst, ListSecond, GetRelease, GetTag,
         Uploaded, Inventory, VerifyAsset, Verified, CheckTag, ConfirmSource, Fail, local, Requested,
         Own, Present
<1>4. todo' \subseteq Staged /\ listed' \subseteq Ids
  BY DEF TypeOK, Reading, Confirm, ListFirst, ListSecond, GetRelease, GetTag,
         Uploaded, Inventory, VerifyAsset, Verified, CheckTag, ConfirmSource, Fail, local, Present
<1>5. unverified' \subseteq Asset
  <2>1. CASE Inventory
    BY <2>1 DEF Inventory, TypeOK, Present, Release
  <2>2. CASE ~Inventory
    BY <2>2 DEF TypeOK, Reading, Confirm, ListFirst, ListSecond, GetRelease, GetTag,
           Uploaded, VerifyAsset, Verified, CheckTag, ConfirmSource, Fail, local
  <2>3. QED
    BY <2>1, <2>2
<1>6. QED
  BY <1>1, <1>2, <1>3, <1>4, <1>5 DEF TypeOK, remote

(* Steps that open a draft keep the types.                                 *)
LEMMA OpeningTypeOK == ASSUME TypeOK, Opening PROVE TypeOK'
<1>1. releases' \in [Ids -> Release \cup {NoRelease}] /\ Present' \subseteq used' /\ used' \subseteq Ids
  <2>1. CASE UNCHANGED <<releases, used>>
    BY <2>1 DEF TypeOK, Present
  <2>2. ASSUME NEW i \in Ids, NEW own \in BOOLEAN, Open(i, own)
        PROVE  releases' \in [Ids -> Release \cup {NoRelease}] /\ Present' \subseteq used' /\ used' \subseteq Ids
    <3>1. used' = used \cup {i} /\ releases' \in [Ids -> Release \cup {NoRelease}] /\ Present' \subseteq used'
      BY <2>2, OpenDraft
    <3>2. QED
      BY <3>1 DEF TypeOK
  <2>3. QED
    BY <2>1, <2>2 DEF Opening, CreateDraft, Ambiguous, CommitLate, ForeignDraft
<1>2. /\ mode' = mode /\ todo' = todo /\ unverified' = unverified /\ listed' = listed
      /\ UNCHANGED <<tag, source, ledger, late>> /\ inflight' \in BOOLEAN
  BY DEF TypeOK, Opening, CreateDraft, Ambiguous, CommitLate, ForeignDraft, local
<1>3. /\ pc' \in Labels /\ mine' \in Ids \cup {NoRelease}
      /\ pc' \in Labels \ (Readback \cup {"tag", "create", "failed"}) => mine' \in Ids
  BY DEF TypeOK, Opening, CreateDraft, Ambiguous, CommitLate, ForeignDraft, local, Labels, Readback
<1>4. QED
  BY <1>1, <1>2, <1>3 DEF TypeOK

(* Steps that change one release keep the types.                           *)
LEMMA ChangingTypeOK == ASSUME TypeOK, Changing PROVE TypeOK'
<1>1. releases' \in [Ids -> Release \cup {NoRelease}] /\ Present' \subseteq Present
  <2>1. CASE Upload
    <3>1. PICK name \in todo, exact \in BOOLEAN :
             Put(mine, WithAssets(mine, releases[mine].assets \cup {[name |-> name, exact |-> exact]}))
      BY <2>1 DEF Upload
    <3>2. mine \in Present /\ releases[mine] \in Release /\ [name |-> name, exact |-> exact] \in Asset
      BY <2>1 DEF Upload, TypeOK, Present, Release, Asset
    <3>3. WithAssets(mine, releases[mine].assets \cup {[name |-> name, exact |-> exact]}) \in Release
      BY <3>2 DEF WithAssets, Release
    <3>4. QED
      BY <3>1, <3>2, <3>3 DEF TypeOK, Put, Present
  <2>2. CASE Publish
    <3>1. mine \in Present /\ releases[mine] \in Release
      BY <2>2 DEF Publish, TypeOK, Present
    <3>2. [own |-> releases[mine].own, draft |-> FALSE, assets |-> releases[mine].assets] \in Release
      BY <3>1 DEF Release
    <3>3. QED
      BY <2>2, <3>1, <3>2 DEF Publish, TypeOK, Put, Present
  <2>3. CASE DeleteDraft
    BY <2>3 DEF DeleteDraft, TypeOK, Put, Present
  <2>4. CASE Tamper
    <3>1. PICK i \in Own, s \in SUBSET Asset : Put(i, WithAssets(i, s))
      <4>1. PICK i \in Own, a \in Asset :
               \/ Put(i, WithAssets(i, {b \in releases[i].assets : b.name # a.name} \cup {a}))
               \/ Put(i, WithAssets(i, releases[i].assets \ {a}))
        BY <2>4 DEF Tamper
      <4>2. releases[i].assets \subseteq Asset
        BY DEF TypeOK, Own, Present, Release
      <4>3. QED
        BY <4>1, <4>2
    <3>2. releases[i] \in Release
      BY DEF TypeOK, Own, Present
    <3>3. WithAssets(i, s) \in Release
      BY <3>2 DEF WithAssets, Release
    <3>4. QED
      BY <3>1, <3>3 DEF TypeOK, Put, Present, Own
  <2>5. QED
    BY <2>1, <2>2, <2>3, <2>4 DEF Changing
<1>2. /\ UNCHANGED <<mode, mine, unverified, listed, tag, used, source, ledger, inflight>>
      /\ todo' \subseteq Staged /\ late' \subseteq {"assets", "tag", "source"}
  BY DEF TypeOK, Changing, Upload, Publish, DeleteDraft, Tamper, local
<1>3. /\ pc' \in Labels
      /\ pc' \in Labels \ (Readback \cup {"tag", "create", "failed"}) => mine' \in Ids
  BY DEF TypeOK, Changing, Upload, Publish, DeleteDraft, Tamper, local, Labels, Readback, Present
<1>4. QED
  BY <1>1, <1>2, <1>3 DEF TypeOK

(* Steps elsewhere keep the types.                                         *)
LEMMA ElsewhereTypeOK == ASSUME TypeOK, Elsewhere PROVE TypeOK'
  BY DEF TypeOK, Elsewhere, CreateTag, MoveTag, PushHead, WriteLedger, local, Labels, Readback, Present

-----------------------------------------------------------------------------
(* Whose draft it is, and how many there are.                              *)

(* Steps that read keep the release in hand this call's, and its number.   *)
LEMMA ReadingHand ==
  ASSUME TypeOK, HandInv, CreateInv, Reading
  PROVE  HandInv' /\ CreateInv'
<1>1. /\ UNCHANGED <<mode, remote, late>> /\ Present' = Present /\ Own' = Own
      /\ mine' = mine \/ mine' \in Own
  BY ReadingKeeps
<1>2. pc' \notin {"tag", "create"}
  BY DEF Reading, Confirm, ListFirst, ListSecond, GetRelease, GetTag, Uploaded, Inventory,
         VerifyAsset, Verified, CheckTag, ConfirmSource, Fail
<1>3. Own \subseteq Present /\ Present \subseteq used
  BY DEF Own, Present, TypeOK
<1>4. QED
  BY <1>1, <1>2, <1>3 DEF HandInv, OnlyOwnDraft, CreateInv, CreatedOnce, remote

(* A draft is opened as this call's only where there is none and none may  *)
(* still come, and never under the ID in hand.                             *)
LEMMA OpeningHand ==
  ASSUME TypeOK, HandInv, CreateInv, Opening
  PROVE  HandInv' /\ CreateInv'
<1>1. ASSUME NEW i \in Ids, NEW own \in BOOLEAN, Open(i, own)
      PROVE  /\ i \in Present => FALSE
             /\ used' = used \cup {i} /\ Present' \subseteq Present \cup {i}
             /\ Own' \ {i} = Own /\ (own = FALSE => Own' = Own)
             /\ mine # i
  <2>1. /\ i \notin Present /\ used' = used \cup {i}
        /\ releases'[i] = [own |-> own, draft |-> TRUE, assets |-> {}]
        /\ \A j \in Ids \ {i} : releases'[j] = releases[j]
        /\ Present' \subseteq Present \cup {i}
    BY <1>1, OpenDraft
  <2>2. mine # i
    BY <1>1, PublicationAssumption DEF HandInv, Open
  <2>3. QED
    BY <2>1, <2>2 DEF Own, Present
<1>2. CASE CreateDraft
  <2>1. PICK i \in Ids : Open(i, TRUE) /\ mine' = i
    BY <1>2 DEF CreateDraft
  <2>2. used' = used \cup {i} /\ Own' \ {i} = Own
    BY <1>1, <2>1
  <2>3. Own = {} /\ ~inflight' /\ pc' = "upload"
    BY <1>2 DEF CreateDraft, CreateInv
  <2>4. i \in Present' => i \in Own'
    <3>1. releases'[i] = [own |-> TRUE, draft |-> TRUE, assets |-> {}]
      BY <2>1, OpenDraft
    <3>2. QED
      BY <3>1 DEF Own
  <2>5. QED
    BY <2>1, <2>2, <2>3, <2>4 DEF HandInv, OnlyOwnDraft, CreateInv, CreatedOnce
<1>3. CASE Ambiguous
  <2>1. Own = {} /\ ~inflight /\ pc' \notin {"tag", "create"} /\ mine' = mine
    BY <1>3 DEF Ambiguous, CreateInv, local
  <2>2. CASE UNCHANGED <<releases, used>>
    BY <2>1, <2>2 DEF HandInv, OnlyOwnDraft, CreateInv, CreatedOnce, Own, Present
  <2>3. CASE (\E i \in Ids : Open(i, TRUE)) /\ UNCHANGED inflight
    <3>1. PICK i \in Ids : Open(i, TRUE)
      BY <2>3
    <3>2. /\ used' = used \cup {i} /\ Present' \subseteq Present \cup {i} /\ Own' \ {i} = Own /\ mine # i
      BY <1>1, <3>1
    <3>3. QED
      BY <2>1, <2>3, <3>2 DEF HandInv, OnlyOwnDraft, CreateInv, CreatedOnce
  <2>4. QED
    BY <1>3, <2>2, <2>3 DEF Ambiguous
<1>4. CASE CommitLate
  <2>1. PICK i \in Ids : Open(i, TRUE)
    BY <1>4 DEF CommitLate
  <2>2. /\ used' = used \cup {i} /\ Present' \subseteq Present \cup {i} /\ Own' \ {i} = Own /\ mine # i
    BY <1>1, <2>1
  <2>3. Own = {} /\ ~inflight' /\ pc' = pc /\ mine' = mine /\ inflight
    BY <1>4 DEF CommitLate, CreateInv, CreatedOnce, local
  <2>4. QED
    BY <2>2, <2>3 DEF HandInv, OnlyOwnDraft, CreateInv, CreatedOnce
<1>5. CASE ForeignDraft
  <2>1. PICK i \in Ids : Open(i, FALSE)
    BY <1>5 DEF ForeignDraft
  <2>2. /\ used' = used \cup {i} /\ Present' \subseteq Present \cup {i} /\ Own' = Own /\ mine # i
    BY <1>1, <2>1
  <2>3. pc' = pc /\ mine' = mine /\ inflight' = inflight
    BY <1>5 DEF ForeignDraft, local
  <2>4. QED
    BY <2>2, <2>3 DEF HandInv, OnlyOwnDraft, CreateInv, CreatedOnce
<1>6. QED
  BY <1>2, <1>3, <1>4, <1>5 DEF Opening

(* Changing or deleting a release adds none and leaves it whose it was.    *)
LEMMA ChangingHand ==
  ASSUME TypeOK, HandInv, CreateInv, Changing
  PROVE  HandInv' /\ CreateInv'
<1>1. Present' \subseteq Present /\ \A i \in Present' : i \in Own <=> i \in Own'
  BY DEF Changing, Upload, Publish, DeleteDraft, Tamper, Put, WithAssets, TypeOK, Own, Present
<1>2. UNCHANGED <<mine, used, inflight>> /\ (pc' = pc \/ pc' \notin {"tag", "create"})
  BY DEF Changing, Upload, Publish, DeleteDraft, Tamper, local
<1>3. Own' \subseteq Own
  BY <1>1 DEF Own
<1>4. QED
  BY <1>1, <1>2, <1>3 DEF HandInv, OnlyOwnDraft, CreateInv, CreatedOnce

(* Steps elsewhere leave every release alone.                              *)
LEMMA ElsewhereHand ==
  ASSUME HandInv, CreateInv, Elsewhere
  PROVE  HandInv' /\ CreateInv'
<1>1. UNCHANGED <<mine, used, releases, inflight>> /\ (pc' \in {"tag", "create"} => pc \in {"tag", "create"})
  BY DEF Elsewhere, CreateTag, MoveTag, PushHead, WriteLedger, local
<1>2. QED
  BY <1>1 DEF HandInv, OnlyOwnDraft, CreateInv, CreatedOnce, Own, Present

-----------------------------------------------------------------------------
(* The assets of the release that is made public.                          *)

(* A release keeps at most one asset of each name: an upload needs the     *)
(* name free, and a replacement takes the old asset's place.               *)
LEMMA StepNames == ASSUME TypeOK, NamesInv, Next PROVE NamesInv'
<1>1. CASE Reading
  BY <1>1, ReadingKeeps DEF NamesInv, remote
<1>2. CASE Opening
  <2>1. CASE UNCHANGED <<releases, used>>
    BY <2>1 DEF NamesInv, Present
  <2>2. ASSUME NEW i \in Ids, NEW own \in BOOLEAN, Open(i, own)
        PROVE  NamesInv'
    <3>1. releases'[i].assets = {} /\ \A j \in Ids \ {i} : releases'[j] = releases[j]
      <4>1. releases'[i] = [own |-> own, draft |-> TRUE, assets |-> {}] /\ \A j \in Ids \ {i} : releases'[j] = releases[j]
        BY <2>2, OpenDraft
      <4>2. QED
        BY <4>1
    <3>2. QED
      BY <3>1 DEF NamesInv, Present, Distinct
  <2>3. QED
    BY <1>2, <2>1, <2>2 DEF Opening, CreateDraft, Ambiguous, CommitLate, ForeignDraft
<1>3. CASE Upload
  <2>1. PICK name \in todo, exact \in BOOLEAN :
           /\ \A a \in releases[mine].assets : a.name # name
           /\ Put(mine, WithAssets(mine, releases[mine].assets \cup {[name |-> name, exact |-> exact]}))
    BY <1>3 DEF Upload
  <2>2. mine \in Present
    BY <1>3 DEF Upload
  <2>3. Distinct(releases[mine].assets \cup {[name |-> name, exact |-> exact]})
    BY <2>1, <2>2 DEF NamesInv, Distinct
  <2>4. QED
    BY <2>1, <2>2, <2>3 DEF NamesInv, TypeOK, Put, WithAssets, Present
<1>4. CASE Publish
  BY <1>4 DEF Publish, NamesInv, TypeOK, Put, Present
<1>5. CASE DeleteDraft
  BY <1>5 DEF DeleteDraft, NamesInv, TypeOK, Put, Present
<1>6. CASE Tamper
  <2>1. PICK i \in Own, a \in Asset :
           \/ Put(i, WithAssets(i, {b \in releases[i].assets : b.name # a.name} \cup {a}))
           \/ Put(i, WithAssets(i, releases[i].assets \ {a}))
    BY <1>6 DEF Tamper
  <2>2. /\ Distinct({b \in releases[i].assets : b.name # a.name} \cup {a})
        /\ Distinct(releases[i].assets \ {a})
    BY DEF NamesInv, Distinct, Own
  <2>3. PICK s : Distinct(s) /\ Put(i, WithAssets(i, s))
    BY <2>1, <2>2
  <2>4. QED
    BY <2>3 DEF NamesInv, TypeOK, Put, WithAssets, Present, Own
<1>7. CASE Elsewhere
  BY <1>7 DEF Elsewhere, CreateTag, MoveTag, PushHead, WriteLedger, NamesInv, Present
<1>8. QED
  BY <1>1, <1>2, <1>3, <1>4, <1>5, <1>6, <1>7, StepKinds DEF Changing

(* The first listing covers every staged asset, each comparison settles    *)
(* one, and nothing else the transaction does after that touches them.     *)
LEMMA ReadingAssets == ASSUME TypeOK, NamesInv, AssetsInv, Reading PROVE AssetsInv'
<1>1. /\ UNCHANGED <<mode, remote, late>> /\ Present' = Present /\ releases' = releases
  BY ReadingKeeps DEF remote
<1>2. CASE Inventory
  <2>1. /\ mine' = mine /\ mine \in Present /\ pc' = "verify" /\ unverified' = releases[mine].assets
        /\ {a.name : a \in releases[mine].assets} = Staged
    BY <1>2 DEF Inventory, InventoryMatches
  <2>2. QED
    BY <1>1, <2>1 DEF AssetsInv, Covered
<1>3. CASE VerifyAsset
  <2>1. PICK a \in unverified :
           mine \in Present /\ a \in releases[mine].assets /\ a.exact /\ unverified' = unverified \ {a}
    BY <1>3 DEF VerifyAsset
  <2>2. pc = "verify" /\ pc' = "verify" /\ mine' = mine
    BY <1>3 DEF VerifyAsset
  <2>3. ASSUME "assets" \notin late PROVE Covered(releases[mine].assets)'
    <3>1. Covered(releases[mine].assets)
      BY <2>1, <2>2, <2>3 DEF AssetsInv, AfterInventory
    <3>2. a = [name |-> a.name, exact |-> TRUE]
      <4>1. a.name \in Staged /\ a \in Asset
        BY <2>1, <3>1 DEF Covered, TypeOK
      <4>2. QED
        BY <2>1, <4>1 DEF Asset
    <3>3. QED
      BY <1>1, <2>1, <2>2, <3>1, <3>2 DEF Covered
  <2>4. QED
    BY <1>1, <2>2, <2>3 DEF AssetsInv
<1>4. CASE ~(Inventory \/ VerifyAsset)
  <2>1. /\ AfterInventory' => AfterInventory /\ mine' = mine
        /\ pc' \in {"checkTag", "confirmSource", "patch"} => unverified' = {}
        /\ unverified' = unverified
    BY <1>4 DEF Reading, Confirm, ListFirst, ListSecond, GetRelease, GetTag, Uploaded,
         Verified, CheckTag, ConfirmSource, Fail, local, AfterInventory, AssetsInv
  <2>2. QED
    BY <1>1, <2>1 DEF AssetsInv, Covered
<1>5. QED
  BY <1>2, <1>3, <1>4

(* A draft is opened before anything is uploaded, or under an ID that is   *)
(* not in hand.                                                            *)
LEMMA OpeningAssets ==
  ASSUME TypeOK, HandInv, AssetsInv, Opening
  PROVE  AssetsInv'
<1>1. CASE CreateDraft \/ Ambiguous
  <2>1. pc' \notin {"verify", "checkTag", "confirmSource", "patch"}
    BY <1>1 DEF CreateDraft, Ambiguous
  <2>2. QED
    BY <2>1 DEF AssetsInv, AfterInventory
<1>2. CASE CommitLate \/ ForeignDraft
  <2>1. UNCHANGED <<pc, mine, unverified, late>>
    BY <1>2 DEF CommitLate, ForeignDraft, local
  <2>2. PICK i \in Ids, own \in BOOLEAN : Open(i, own)
    BY <1>2 DEF CommitLate, ForeignDraft
  <2>3. mine # i
    BY <2>2, PublicationAssumption DEF HandInv, Open
  <2>4. mine \in Present' => mine \in Present /\ releases'[mine] = releases[mine]
    BY <2>2, <2>3, OpenDraft DEF Present
  <2>5. QED
    BY <2>1, <2>4 DEF AssetsInv, AfterInventory, Covered
<1>3. QED
  BY <1>1, <1>2 DEF Opening

(* What somebody does to the draft's assets unnoticed is recorded; what is *)
(* left keeps the staged assets covered.                                   *)
LEMMA TamperCovered ==
  ASSUME NEW old, NEW a, NEW new, Covered(old), a.name \in {b.name : b \in unverified},
         \/ new = {b \in old : b.name # a.name} \cup {a}
         \/ new = old \ {a}
  PROVE  Covered(new)
<1>1. a.name \in Staged
  BY DEF Covered
<1>2. \A n \in Staged : [name |-> n, exact |-> TRUE] \in old /\ n # a.name => [name |-> n, exact |-> TRUE] \in new
  OBVIOUS
<1>3. \E b \in unverified : b.name = a.name
  OBVIOUS
<1>4. QED
  BY <1>1, <1>2, <1>3 DEF Covered

(* An upload and the PATCH end the checks; deleting and tampering keep    *)
(* what they are about.                                                    *)
LEMMA ChangingAssets == ASSUME TypeOK, HandInv, AssetsInv, Changing PROVE AssetsInv'
<1>1. CASE Upload \/ Publish
  <2>1. pc' \notin {"verify", "checkTag", "confirmSource", "patch"}
    BY <1>1 DEF Upload, Publish
  <2>2. QED
    BY <2>1 DEF AssetsInv, AfterInventory
<1>2. CASE DeleteDraft
  <2>1. PICK i \in Present : Put(i, NoRelease)
    BY <1>2 DEF DeleteDraft
  <2>2. UNCHANGED <<pc, mine, unverified, late>>
    BY <1>2 DEF DeleteDraft, local
  <2>3. mine \in Present' => mine \in Present /\ releases'[mine] = releases[mine]
    BY <2>1 DEF Put, Present, TypeOK
  <2>4. QED
    BY <2>2, <2>3 DEF AssetsInv, AfterInventory, Covered
<1>3. CASE Tamper
  <2>1. PICK i \in Own, a \in Asset :
           /\ \/ Put(i, WithAssets(i, {b \in releases[i].assets : b.name # a.name} \cup {a}))
              \/ a \in releases[i].assets /\ Put(i, WithAssets(i, releases[i].assets \ {a}))
           /\ late' = late \cup (IF /\ AfterInventory /\ i = mine
                                  /\ a.name \notin {b.name : b \in unverified}
                               THEN {"assets"} ELSE {})
    BY <1>3 DEF Tamper
  <2>2. UNCHANGED <<pc, mine, unverified>> /\ (AfterInventory' <=> AfterInventory)
    BY <1>3 DEF Tamper, local, AfterInventory
  <2>3. Present' \subseteq Present /\ \A j \in Ids \ {i} : releases'[j] = releases[j]
    <3>1. PICK release : Put(i, release)
      BY <2>1
    <3>2. QED
      BY <3>1 DEF Put, Present, Own, TypeOK
  <2>4. CASE i # mine
    BY <2>1, <2>2, <2>3, <2>4 DEF AssetsInv, Covered, Present
  <2>5. CASE i = mine
    <3>1. SUFFICES ASSUME AfterInventory, mine \in Present, "assets" \notin late'
                   PROVE  Covered(releases'[mine].assets)
      BY <2>2, <2>3 DEF AssetsInv, Covered
    <3>2. a.name \in {b.name : b \in unverified} /\ Covered(releases[mine].assets)
      BY <2>1, <2>5, <3>1 DEF AssetsInv
    <3>3. \/ releases'[mine].assets = {b \in releases[mine].assets : b.name # a.name} \cup {a}
          \/ releases'[mine].assets = releases[mine].assets \ {a}
      BY <2>1, <2>5 DEF Put, WithAssets, TypeOK, Present, Own
    <3>4. QED
      BY <3>2, <3>3, TamperCovered
  <2>6. QED
    BY <2>4, <2>5
<1>4. QED
  BY <1>1, <1>2, <1>3 DEF Changing

(* Steps elsewhere leave the assets alone.                                 *)
LEMMA ElsewhereAssets == ASSUME AssetsInv, Elsewhere PROVE AssetsInv'
<1>1. /\ UNCHANGED <<mine, unverified, releases>> /\ late \subseteq late' /\ Present' = Present
      /\ pc' = pc \/ pc' \in {"create", "failed"}
  BY DEF Elsewhere, CreateTag, MoveTag, PushHead, WriteLedger, local, Present
<1>2. QED
  BY <1>1 DEF AssetsInv, AfterInventory, Covered

-----------------------------------------------------------------------------
(* The tag and the default branch.                                         *)

(* The tag was at the source when it was checked, the default branch when  *)
(* it was; who changes either afterwards is recorded.                      *)
LEMMA StepChecks == ASSUME ChecksInv, Next PROVE ChecksInv'
<1>1. CASE CheckTag
  BY <1>1 DEF CheckTag, ChecksInv, remote
<1>2. CASE ConfirmSource
  BY <1>2 DEF ConfirmSource, ChecksInv, remote
<1>3. CASE MoveTag
  BY <1>3 DEF MoveTag, ChecksInv
<1>4. CASE PushHead
  BY <1>4 DEF PushHead, ChecksInv
<1>5. CASE Tamper
  BY <1>5 DEF Tamper, ChecksInv
<1>6. CASE ~(CheckTag \/ ConfirmSource \/ MoveTag \/ PushHead \/ Tamper)
  <2>1. pc' = pc \/ pc' \notin {"confirmSource", "patch"}
    BY <1>6 DEF Next, CreateTag, CreateDraft, Ambiguous, Confirm, ListFirst, ListSecond, GetRelease,
           GetTag, Upload, Uploaded, Inventory, VerifyAsset, Verified, Publish, Fail, CommitLate,
           ForeignDraft, DeleteDraft, WriteLedger
  <2>2. UNCHANGED <<mode, late, source>> /\ (tag' = tag \/ pc' \in {"create", "failed"})
    BY <1>6 DEF Next, CreateTag, CreateDraft, Ambiguous, Confirm, ListFirst, ListSecond, GetRelease,
           GetTag, Upload, Uploaded, Inventory, VerifyAsset, Verified, Publish, Fail, CommitLate,
           ForeignDraft, DeleteDraft, WriteLedger, remote
  <2>3. QED
    BY <2>1, <2>2 DEF ChecksInv
<1>7. QED
  BY <1>1, <1>2, <1>3, <1>4, <1>5, <1>6

-----------------------------------------------------------------------------
(* The invariant and what follows from it.                                 *)

(* Stuttering keeps everything.                                            *)
LEMMA StutterIInv == ASSUME IInv, UNCHANGED vars PROVE IInv'
  BY DEF IInv, vars, local, remote, TypeOK, HandInv, OnlyOwnDraft, CreateInv, CreatedOnce, NamesInv,
         AssetsInv, ChecksInv, Present, Own, AfterInventory, Covered, Distinct

(* Every step keeps the invariant.                                         *)
LEMMA StepIInv == ASSUME IInv, [Next]_vars PROVE IInv'
<1>1. CASE UNCHANGED vars
  BY <1>1, StutterIInv
<1>2. CASE Next
  <2>1. NamesInv' /\ ChecksInv'
    BY <1>2, StepNames, StepChecks DEF IInv
  <2>2. CASE Reading
    BY <2>1, <2>2, ReadingTypeOK, ReadingHand, ReadingAssets DEF IInv
  <2>3. CASE Opening
    BY <2>1, <2>3, OpeningTypeOK, OpeningHand, OpeningAssets DEF IInv
  <2>4. CASE Changing
    BY <2>1, <2>4, ChangingTypeOK, ChangingHand, ChangingAssets DEF IInv
  <2>5. CASE Elsewhere
    BY <2>1, <2>5, ElsewhereTypeOK, ElsewhereHand, ElsewhereAssets DEF IInv
  <2>6. QED
    BY <1>2, <2>2, <2>3, <2>4, <2>5, StepKinds
<1>3. QED
  BY <1>1, <1>2

(* The inductive invariant holds throughout.                               *)
LEMMA Inductive == Spec => []IInv
<1>1. Init => IInv
  BY InitIInv
<1>2. IInv /\ [Next]_vars => IInv'
  BY StepIInv
<1>3. QED
  BY <1>1, <1>2, PTL DEF Spec

(* TypeOK for every set of assets and IDs: a transaction that uploads has  *)
(* a release ID.                                                           *)
THEOREM TypeCorrect == Spec => []TypeOK
<1>1. IInv => TypeOK
  BY DEF IInv
<1>2. QED
  BY <1>1, Inductive, PTL

(* OnlyOwnDraft for every set of IDs: however a create's response is lost  *)
(* and whatever others open, _publish_prepared uploads to its own draft.   *)
THEOREM UploadsOwn == Spec => []OnlyOwnDraft
<1>1. IInv => OnlyOwnDraft
  BY DEF IInv, HandInv
<1>2. QED
  BY <1>1, Inductive, PTL

(* CreatedOnce for every set of IDs: one run makes at most one draft, also *)
(* when GitHub commits a create late.                                      *)
THEOREM OneDraft == Spec => []CreatedOnce
<1>1. IInv => CreatedOnce
  BY DEF IInv, CreateInv
<1>2. QED
  BY <1>1, Inductive, PTL

(* Assets of one name each that cover the staged ones, with nothing left   *)
(* to compare, are the staged ones.                                        *)
LEMMA CoveredExact ==
  ASSUME NEW assets \in SUBSET Asset, Distinct(assets), Covered(assets), unverified = {}
  PROVE  assets = Exact
<1>1. ASSUME NEW a \in assets PROVE a \in Exact
  <2>1. a.name \in Staged /\ [name |-> a.name, exact |-> TRUE] \in assets
    BY DEF Covered
  <2>2. a = [name |-> a.name, exact |-> TRUE]
    BY <2>1 DEF Distinct
  <2>3. [name |-> a.name, exact |-> TRUE] \in Exact
    BY <2>1 DEF Exact
  <2>4. QED
    BY <2>2, <2>3, Zenon
<1>2. ASSUME NEW e \in Exact PROVE e \in assets
  <2>1. e.name \in Staged /\ e = [name |-> e.name, exact |-> TRUE]
    BY DEF Exact
  <2>2. QED
    BY <2>1 DEF Covered
<1>3. QED
  BY <1>1, <1>2

(* Only the PATCH makes a draft public, and it finds it as it was checked. *)
LEMMA StepPublishes == ASSUME IInv, [Next]_vars PROVE PublishesChecked
<1>1. SUFFICES ASSUME NEW i \in Ids, releases[i] # NoRelease, releases'[i] # NoRelease,
                      releases[i].draft, ~releases'[i].draft
               PROVE  /\ "assets" \in late \/ releases[i].assets = Exact
                      /\ "tag" \in late \/ tag = "source"
                      /\ "source" \in late \/ mode # "automatic" \/ source
  BY DEF PublishesChecked
<1>2. CASE Publish
  <2>1. pc = "patch" /\ mine \in Present /\ i = mine
    BY <1>1, <1>2 DEF Publish, Put, IInv, TypeOK
  <2>2. unverified = {} /\ ("assets" \notin late => Covered(releases[i].assets))
    BY <2>1 DEF IInv, AssetsInv, AfterInventory
  <2>3. Distinct(releases[i].assets) /\ releases[i].assets \subseteq Asset
    BY <2>1 DEF IInv, NamesInv, TypeOK, Present, Release
  <2>4. "assets" \in late \/ releases[i].assets = Exact
    BY <2>2, <2>3, CoveredExact
  <2>5. QED
    BY <2>1, <2>4 DEF IInv, ChecksInv
<1>3. CASE ~Publish
  <2>1. FALSE
    <3>1. CASE Reading \/ Elsewhere \/ UNCHANGED vars
      <4>1. releases' = releases
        BY <3>1, ReadingKeeps DEF remote, Elsewhere, CreateTag, MoveTag, PushHead, WriteLedger, vars
      <4>2. QED
        BY <1>1, <4>1
    <3>2. CASE Opening
      <4>1. CASE UNCHANGED releases
        BY <1>1, <4>1
      <4>2. ASSUME NEW j \in Ids, NEW own \in BOOLEAN, Open(j, own) PROVE FALSE
        BY <4>2, <1>1, OpenDraft DEF IInv, Present
      <4>3. QED
        BY <3>2, <4>1, <4>2 DEF Opening, CreateDraft, Ambiguous, CommitLate, ForeignDraft
    <3>3. CASE Upload
      <4>1. PICK s : Put(mine, WithAssets(mine, s))
        BY <3>3 DEF Upload
      <4>2. QED
        BY <4>1, <1>1 DEF Put, WithAssets, IInv, TypeOK
    <3>4. CASE DeleteDraft
      BY <3>4, <1>1 DEF DeleteDraft, Put, IInv, TypeOK
    <3>5. CASE Tamper
      <4>1. PICK j \in Own : \E s : Put(j, WithAssets(j, s))
        BY <3>5 DEF Tamper
      <4>2. QED
        BY <4>1, <1>1 DEF Put, WithAssets, IInv, TypeOK
    <3>6. QED
      BY <1>3, <3>1, <3>2, <3>3, <3>4, <3>5, StepKinds DEF Changing
  <2>2. QED
    BY <1>1, <2>1
<1>4. QED
  BY <1>2, <1>3

(* PublishesExactly for every set of assets: what _publish_prepared makes  *)
(* public is what was staged, at its tag, but for changes after the check. *)
THEOREM Publishes == Spec => PublishesExactly
<1>1. IInv /\ [Next]_vars => PublishesChecked
  BY StepPublishes
<1>2. QED
  BY <1>1, Inductive, PTL DEF Spec, PublishesExactly

-----------------------------------------------------------------------------
(* What the transaction is from outside.                                   *)

(* While it runs, there are drafts only, and the tag is its own.           *)
DraftsInv ==
  /\ Running => \A i \in Present : releases[i].draft
  /\ pc = "tag" => tag = "absent"

(* What a step does to the public releases: nothing, but for the PATCH.    *)
LEMMA StepPublic ==
  ASSUME IInv, DraftsInv, Next
  PROVE  /\ ~Publish => \A i \in Ids :
              (i \in Present' /\ ~releases'[i].draft)
                <=> (i \in Present /\ ~releases[i].draft)
         /\ ~Publish => \A i \in Present :
              ~releases[i].draft => releases'[i].assets = releases[i].assets
<1>1. TypeOK /\ OnlyOwnDraft
  BY DEF IInv, HandInv
<1>2. CASE Reading \/ Elsewhere
  <2>1. releases' = releases
    BY <1>2, ReadingKeeps DEF remote, Elsewhere, CreateTag, MoveTag, PushHead, WriteLedger
  <2>2. QED
    BY <2>1 DEF Present
<1>3. CASE Opening
  <2>1. CASE UNCHANGED releases
    BY <2>1 DEF Present
  <2>2. ASSUME NEW j \in Ids, NEW own \in BOOLEAN, Open(j, own)
        PROVE  /\ j \notin Present /\ releases'[j].draft
               /\ \A i \in Ids \ {j} : releases'[i] = releases[i]
    <3>1. /\ j \notin Present
          /\ releases'[j] = [own |-> own, draft |-> TRUE, assets |-> {}]
          /\ \A i \in Ids \ {j} : releases'[i] = releases[i]
      BY <1>1, <2>2, OpenDraft
    <3>2. QED
      BY <3>1
  <2>3. CASE \E j \in Ids, own \in BOOLEAN : Open(j, own)
    BY <2>2, <2>3 DEF Present
  <2>4. QED
    BY <1>3, <2>1, <2>3 DEF Opening, CreateDraft, Ambiguous, CommitLate, ForeignDraft
<1>4. ASSUME NEW j \in Present, releases[j].draft,
             \/ Put(j, NoRelease)
             \/ \E s : Put(j, WithAssets(j, s))
      PROVE  \A i \in Ids :
               /\ (i \in Present' /\ ~releases'[i].draft) <=> (i \in Present /\ ~releases[i].draft)
               /\ i \in Present /\ ~releases[i].draft => releases'[i].assets = releases[i].assets
  <2>1. /\ \A i \in Ids \ {j} : releases'[i] = releases[i]
        /\ releases'[j] = NoRelease \/ releases'[j].draft
    BY <1>1, <1>4 DEF TypeOK, Put, WithAssets, Present
  <2>2. QED
    BY <1>4, <2>1 DEF Present
<1>5. CASE Upload
  <2>1. mine \in Present /\ Running /\ \E s : Put(mine, WithAssets(mine, s))
    BY <1>5 DEF Upload, Running
  <2>2. QED
    BY <1>4, <2>1 DEF DraftsInv, Present
<1>6. CASE DeleteDraft
  <2>1. PICK j \in Present : releases[j].draft /\ Put(j, NoRelease)
    BY <1>6 DEF DeleteDraft
  <2>2. QED
    BY <1>4, <2>1 DEF Present
<1>7. CASE Tamper
  <2>1. PICK j \in Own : releases[j].draft /\ \E s : Put(j, WithAssets(j, s))
    BY <1>7 DEF Tamper
  <2>2. QED
    BY <1>4, <2>1 DEF Present, Own
<1>8. QED
  BY <1>2, <1>3, <1>5, <1>6, <1>7, StepKinds DEF Changing

(* So nothing is public before it.                                         *)
LEMMA StepDrafts == ASSUME IInv, DraftsInv, [Next]_vars PROVE DraftsInv'
<1>1. CASE UNCHANGED vars
  BY <1>1 DEF vars, remote, DraftsInv, Running, Present
<1>2. CASE Publish
  BY <1>2 DEF Publish, DraftsInv, Running
<1>3. CASE Next /\ ~Publish
  <2>1. /\ Running' => Running
        /\ pc' = "tag" => pc = "tag" /\ (tag' = tag \/ tag # "absent")
    BY <1>3 DEF Running, Next, CreateTag, CreateDraft, Ambiguous, Confirm, ListFirst, ListSecond,
           GetRelease, GetTag, Upload, Uploaded, Inventory, VerifyAsset, Verified, CheckTag,
           ConfirmSource, Fail, CommitLate, ForeignDraft, DeleteDraft, Tamper, MoveTag, PushHead,
           WriteLedger
  <2>2. Present' \subseteq Ids /\ Present \subseteq Ids
    BY DEF Present
  <2>3. QED
    BY <1>3, <2>1, <2>2, StepPublic DEF DraftsInv
<1>4. QED
  BY <1>1, <1>2, <1>3

(* Nothing becomes public, and nothing public changes, but by the PATCH.   *)
LEMMA PublicStays == ASSUME IInv, DraftsInv, Next, ~Publish PROVE UNCHANGED Public
<1>1. Present' \subseteq Ids /\ Present \subseteq Ids
  BY DEF Present
<1>2. {j \in Present' : ~releases'[j].draft} = {j \in Present : ~releases[j].draft}
  BY <1>1, StepPublic
<1>3. \A i \in {j \in Present : ~releases[j].draft} : releases'[i].assets = releases[i].assets
  BY StepPublic
<1>4. QED
  BY <1>2, <1>3 DEF Public

(* The PATCH makes public what was checked, and ends the transaction.      *)
LEMMA PublishOutside == ASSUME IInv, DraftsInv, Publish PROVE Outside!Publish
<1>1. TypeOK /\ mine \in Present /\ pc = "patch" /\ Running
  BY DEF IInv, Publish, Running
<1>2. Run = "release" /\ Run' \in {"done", "failed"}
  BY <1>1 DEF Run, Publish
<1>3. Public = {}
  BY <1>1 DEF DraftsInv, Public
<1>4. /\ releases'[mine].assets = releases[mine].assets
      /\ releases'[mine] # NoRelease /\ ~releases'[mine].draft
      /\ \A j \in Ids \ {mine} : releases'[j] = releases[j]
  <2>1. releases' \in [Ids -> Release \cup {NoRelease}]
    BY <1>1, ChangingTypeOK DEF Changing, TypeOK
  <2>2. releases'[mine] = [own |-> releases[mine].own, draft |-> FALSE, assets |-> releases[mine].assets]
    BY <1>1 DEF Publish, Put, TypeOK, Present
  <2>3. mine \in Present'
    <3>1. releases[mine] \in Release
      BY <1>1 DEF TypeOK, Present
    <3>2. releases'[mine] \in Release
      BY <2>2, <3>1 DEF Release
    <3>3. QED
      BY <1>1, <3>2, PublicationAssumption DEF Present
  <2>4. QED
    BY <1>1, <2>2, <2>3 DEF Publish, Put, TypeOK, Present
<1>5. {j \in Present' : ~releases'[j].draft} = {mine}
  BY <1>1, <1>4 DEF DraftsInv, Present
<1>6. Public' = {releases[mine].assets}
  BY <1>4, <1>5 DEF Public
<1>7. /\ "assets" \in late \/ releases[mine].assets = Exact
      /\ "tag" \in late \/ tag = "source"
      /\ "source" \in late \/ mode # "automatic" \/ source
  <2>1. PublishesChecked
    BY StepPublishes DEF Next
  <2>2. QED
    BY <1>1, <1>4, <2>1 DEF DraftsInv, PublishesChecked, Present
<1>8. QED
  BY <1>2, <1>3, <1>6, <1>7 DEF Publish, Outside!Publish

(* Every other step is one of the environment, the tag, a failure, or      *)
(* cannot be seen.                                                         *)
LEMMA OtherOutside ==
  ASSUME IInv, DraftsInv, Next, ~Publish
  PROVE  [Outside!Next]_(Outside!vars)
<1>1. UNCHANGED Public
  BY PublicStays
<1>2. CASE CreateTag
  BY <1>1, <1>2 DEF CreateTag, Run, Outside!CreateTag, Outside!Next
<1>3. CASE Fail
  <2>1. Run \in {"tag", "release"} /\ Run' = "failed"
    BY <1>3 DEF Fail, Run
  <2>2. QED
    BY <1>1, <1>3, <2>1 DEF Fail, remote, Outside!Fail, Outside!Next
<1>4. CASE MoveTag \/ PushHead \/ Tamper
  <2>1. UNCHANGED <<mode, Run>> /\ Running /\ Run \in {"tag", "release"}
    BY <1>4 DEF MoveTag, PushHead, Tamper, Running, Run
  <2>2. MoveTag \/ Tamper => Run = "release"
    BY <2>1 DEF MoveTag, Tamper, Run, DraftsInv, IInv, CreateInv
  <2>3. CASE MoveTag
    BY <1>1, <2>1, <2>2, <2>3 DEF MoveTag, Outside!Unseen, Outside!MoveTag, Outside!Next
  <2>4. CASE PushHead
    BY <1>1, <2>1, <2>4 DEF PushHead, Outside!Unseen, Outside!PushHead, Outside!Next
  <2>5. CASE Tamper
    BY <1>1, <2>1, <2>2, <2>5 DEF Tamper, Outside!Unseen, Outside!Tamper, Outside!Next
  <2>6. QED
    BY <1>4, <2>3, <2>4, <2>5
<1>5. CASE Upload /\ pc' = "failed"
  <2>1. Run = "release" /\ Run' = "failed"
    BY <1>5 DEF Upload, Run
  <2>2. QED
    BY <1>1, <1>5, <2>1 DEF Upload, Outside!Fail, Outside!Next
<1>6. CASE Ambiguous /\ pc' = "failed"
  <2>1. Run = "release" /\ Run' = "failed"
    BY <1>6 DEF Ambiguous, Run
  <2>2. QED
    BY <1>1, <1>6, <2>1 DEF Ambiguous, Outside!Fail, Outside!Next
<1>7. CASE ~(CreateTag \/ Fail \/ MoveTag \/ PushHead \/ Tamper)
           /\ ~((Upload \/ Ambiguous) /\ pc' = "failed")
  <2>1. /\ UNCHANGED <<mode, tag, source, late>>
        /\ pc' = pc \/ {pc, pc'} \cap {"tag", "published", "failed"} = {}
    BY <1>7 DEF Next, CreateDraft, Ambiguous, Confirm, ListFirst, ListSecond,
           GetRelease, GetTag, Upload, Uploaded, Inventory, VerifyAsset, Verified, CheckTag,
           ConfirmSource, CommitLate, ForeignDraft, DeleteDraft, WriteLedger, remote
  <2>2. UNCHANGED Run
    BY <2>1 DEF Run
  <2>3. QED
    BY <1>1, <2>1, <2>2 DEF Outside!vars
<1>8. QED
  BY <1>2, <1>3, <1>4, <1>5, <1>6, <1>7

(* Drafts, readbacks, uploads, downloads and lost responses implement one  *)
(* tag and one atomic publication: what _publish_prepared is from outside, *)
(* for every set of assets and release IDs and whatever others do.         *)
THEOREM ReleaseRefinement == Spec => ImplementsRelease
<1>1. Init => DraftsInv /\ Outside!Init
  BY DEF Init, Modes, DraftsInv, Present, Run, Public, Outside!Init
<1>2. IInv /\ DraftsInv /\ [Next]_vars => DraftsInv'
  BY StepDrafts
<1>3. IInv /\ DraftsInv /\ [Next]_vars => [Outside!Next]_(Outside!vars)
  <2> SUFFICES ASSUME IInv, DraftsInv, [Next]_vars PROVE [Outside!Next]_(Outside!vars)
    OBVIOUS
  <2>1. CASE UNCHANGED vars
    BY <2>1 DEF vars, remote, Run, Public, Present, Outside!vars
  <2>2. CASE Publish
    BY <2>2, PublishOutside DEF Outside!Next
  <2>3. CASE Next /\ ~Publish
    BY <2>3, OtherOutside
  <2>4. QED
    BY <2>1, <2>2, <2>3
<1>4. QED
  BY <1>1, <1>2, <1>3, Inductive, PTL DEF Spec, ImplementsRelease, Outside!Spec
=============================================================================
