---------------------------- MODULE Publication ----------------------------
(***************************************************************************)
(* One publication transaction against GitHub (release_control.py,         *)
(* _publish_prepared): create the tag, create a draft release, upload the  *)
(* staged assets, download every byte again, check the tag and, for an     *)
(* automatic candidate, the default branch, and make the draft public.     *)
(* From outside it is ReleaseSpec: VersionLedger's CreateTag and Release.  *)
(*                                                                         *)
(* A request may be refused, or its response lost with or without its      *)
(* effect. Only the creation of a versioned draft has a way back: a        *)
(* read-only search for the draft this call may have created               *)
(* (_reconcile_created_release), one request per action. Meanwhile others  *)
(* change the repository: a second draft of the same tag, the assets, the  *)
(* tag, the default branch, the ledger.                                    *)
(***************************************************************************)

CONSTANTS
  Staged,   \* names of the staged assets
  Stray,    \* a name of no staged asset
  Ids,      \* release IDs GitHub may assign
  NoRelease

(* candidate and automatic publications are versioned; a promotion is not  *)
(* bound to a create confirmation.                                         *)
Modes == {"candidate", "automatic", "promotion"}

(* An uploaded asset: its name, and whether its bytes are the staged ones. *)
Asset == [name : Staged, exact : BOOLEAN] \cup {[name |-> Stray, exact |-> FALSE]}
Exact == [name : Staged, exact : {TRUE}]

(* A release of this tag. own: it has the body, with the nonce, that this  *)
(* call posted.                                                            *)
Release == [own : BOOLEAN, draft : BOOLEAN, assets : SUBSET Asset]

ASSUME PublicationAssumption ==
  /\ Stray \notin Staged
  /\ NoRelease \notin Ids \cup Release

Readback == {"confirm", "listFirst", "listSecond", "getRelease", "getTag", "reconfirm", "getFinal"}
Labels   == {"tag", "create", "upload", "inventory", "verify", "checkTag", "confirmSource",
             "patch", "published", "failed"} \cup Readback

VARIABLES
  mode,      \* which publication this is
  pc,        \* what the transaction does next
  mine,      \* the release it uploads to, once known
  todo,      \* staged assets not uploaded yet
  unverified,\* listed assets not downloaded yet
  listed,    \* the first inventory's releases of this tag
  tag,       \* the tag reference: absent, at the source, or elsewhere
  releases,  \* releases of this tag, by ID
  used,      \* release IDs ever assigned
  source,    \* the default branch is still at the captured commit
  ledger,    \* the ledger is still what this run wrote
  inflight,  \* GitHub may still commit a create whose response was lost
  late       \* history: what others changed after its check

local  == <<mine, todo, unverified, listed>>
remote == <<tag, releases, used, source, ledger, inflight>>
vars   == <<mode, pc, local, remote, late>>

Present == {i \in Ids : releases[i] # NoRelease}
Own     == {i \in Present : releases[i].own}

Init ==
  /\ mode \in Modes
  /\ pc = "tag"
  /\ mine = NoRelease /\ todo = Staged /\ unverified = {} /\ listed = {}
  /\ tag = "absent"
  /\ releases = [i \in Ids |-> NoRelease] /\ used = {}
  /\ source = TRUE /\ ledger = TRUE
  /\ inflight = FALSE
  /\ late = {}

Put(i, release)  == releases' = [releases EXCEPT ![i] = release]
Draft(own)       == [own |-> own, draft |-> TRUE, assets |-> {}]
Open(i, own)     == i \notin used /\ used' = used \cup {i} /\ Put(i, Draft(own))
WithAssets(i, s) == [own |-> releases[i].own, draft |-> releases[i].draft, assets |-> s]

-----------------------------------------------------------------------------
(* The tag and the draft.                                                  *)

(* ensure_absent and POST git/refs.                                        *)
CreateTag ==
  /\ pc = "tag" /\ tag = "absent" /\ Present = {}
  /\ tag' = "source"
  /\ pc' \in {"create", "failed"}
  /\ UNCHANGED <<mode, local, releases, used, source, ledger, inflight, late>>

(* POST releases, answered.                                                *)
CreateDraft ==
  /\ pc = "create"
  /\ \E i \in Ids : Open(i, TRUE) /\ mine' = i
  /\ pc' = "upload"
  /\ UNCHANGED <<mode, todo, unverified, listed, tag, source, ledger, inflight, late>>

(* Plausible bug: an ambiguous create is sent again.                       *)
AmbiguousReplayed ==
  /\ pc = "create"
  /\ \/ \E i \in Ids : Open(i, TRUE)
     \/ UNCHANGED <<releases, used>>
  /\ pc' = IF mode = "promotion" THEN "failed" ELSE "create"
  /\ UNCHANGED <<mode, local, tag, source, ledger, inflight, late>>

(* Plausible bug: a lost response is taken for success.                    *)
AmbiguousAccepted ==
  /\ pc = "create"
  /\ \/ \E i \in Ids : Open(i, TRUE)
     \/ UNCHANGED <<releases, used>>
  /\ pc' = "upload"
  /\ UNCHANGED <<mode, local, tag, source, ledger, inflight, late>>

(* POST releases, its response lost: the draft exists, or may still come.  *)
(* Only a versioned publication looks for it.                              *)
Ambiguous ==
  /\ pc = "create"
  /\ \/ \E i \in Ids : Open(i, TRUE) /\ UNCHANGED inflight
     \/ UNCHANGED <<releases, used>> /\ inflight' \in BOOLEAN
  /\ pc' = IF mode = "promotion" THEN "failed" ELSE "confirm"
  /\ UNCHANGED <<mode, local, tag, source, ledger, late>>

-----------------------------------------------------------------------------
(* The readback: one request per action, none of them a write.             *)

(* create_confirmation: the source and the ledger are what they were.      *)
Confirm ==
  /\ \/ pc = "confirm"   /\ pc' = "listFirst"
     \/ pc = "reconfirm" /\ pc' = "getFinal"
  /\ source /\ ledger
  /\ UNCHANGED <<mode, local, remote, late>>

(* Plausible bug: any empty draft of the tag is taken for this call's.     *)
RequestedAnyBody(i) == i \in Present /\ releases[i].draft /\ releases[i].assets = {}

(* checked_release: an empty, never published draft with the request's     *)
(* exact payload.                                                          *)
Requested(i) == i \in Own /\ releases[i].draft /\ releases[i].assets = {}

ListFirst ==
  /\ pc = "listFirst"
  /\ listed' = Present
  /\ \A i \in Present : Requested(i)
  /\ pc' = "listSecond"
  /\ UNCHANGED <<mode, mine, todo, unverified, remote, late>>

ListSecond ==
  /\ pc = "listSecond"
  /\ Present = listed
  /\ \E i \in Ids : Present = {i} /\ Requested(i) /\ mine' = i
  /\ pc' = "getRelease"
  /\ UNCHANGED <<mode, todo, unverified, listed, remote, late>>

GetRelease ==
  /\ \/ pc = "getRelease" /\ pc' = "getTag"
     \/ pc = "getFinal"   /\ pc' = "upload"
  /\ Requested(mine)
  /\ UNCHANGED <<mode, local, remote, late>>

GetTag ==
  /\ pc = "getTag" /\ tag = "source"
  /\ pc' = "reconfirm"
  /\ UNCHANGED <<mode, local, remote, late>>

-----------------------------------------------------------------------------
(* The assets and the publication.                                         *)

(* An upload, in name order in the code; its bytes may arrive wrong.       *)
Upload ==
  /\ pc = "upload" /\ mine \in Present
  /\ \E name \in todo, exact \in BOOLEAN :
       /\ \A a \in releases[mine].assets : a.name # name
       /\ Put(mine, WithAssets(mine, releases[mine].assets \cup {[name |-> name, exact |-> exact]}))
       /\ todo' = todo \ {name}
  /\ pc' \in {"upload", "failed"}
  /\ UNCHANGED <<mode, mine, unverified, listed, tag, used, source, ledger, inflight, late>>

Uploaded ==
  /\ pc = "upload" /\ todo = {}
  /\ pc' = "inventory"
  /\ UNCHANGED <<mode, local, remote, late>>

InventoryMatches(assets) == {a.name : a \in assets} = Staged

Inventory ==
  /\ pc = "inventory" /\ mine \in Present
  /\ InventoryMatches(releases[mine].assets)
  /\ unverified' = releases[mine].assets
  /\ pc' = "verify"
  /\ UNCHANGED <<mode, mine, todo, listed, remote, late>>

(* Plausible bug: a listed asset is looked up, its bytes not compared.     *)
VerifyAssetListed ==
  /\ pc = "verify"
  /\ \E a \in unverified :
       /\ mine \in Present /\ a \in releases[mine].assets
       /\ unverified' = unverified \ {a}
  /\ UNCHANGED <<mode, pc, mine, todo, listed, remote, late>>

(* verify_uploaded_asset: the listed asset still exists and its bytes are  *)
(* the staged ones.                                                        *)
VerifyAsset ==
  /\ pc = "verify"
  /\ \E a \in unverified :
       /\ mine \in Present /\ a \in releases[mine].assets /\ a.exact
       /\ unverified' = unverified \ {a}
  /\ UNCHANGED <<mode, pc, mine, todo, listed, remote, late>>

Verified ==
  /\ pc = "verify" /\ unverified = {}
  /\ pc' = "checkTag"
  /\ UNCHANGED <<mode, local, remote, late>>

CheckTag ==
  /\ pc = "checkTag" /\ tag = "source"
  /\ pc' = IF mode = "automatic" THEN "confirmSource" ELSE "patch"
  /\ UNCHANGED <<mode, local, remote, late>>

ConfirmSource ==
  /\ pc = "confirmSource" /\ source
  /\ pc' = "patch"
  /\ UNCHANGED <<mode, local, remote, late>>

(* Plausible bug: a PATCH whose response is lost is sent again.            *)
PublishReplayed ==
  /\ pc = "patch" /\ mine \in Present
  /\ Put(mine, [own |-> releases[mine].own, draft |-> FALSE, assets |-> releases[mine].assets])
  /\ pc' \in {"published", "patch"}
  /\ UNCHANGED <<mode, local, tag, used, source, ledger, inflight, late>>

(* PATCH draft FALSE: a lost response fails the run after the effect.      *)
Publish ==
  /\ pc = "patch" /\ mine \in Present
  /\ Put(mine, [own |-> releases[mine].own, draft |-> FALSE, assets |-> releases[mine].assets])
  /\ pc' \in {"published", "failed"}
  /\ UNCHANGED <<mode, local, tag, used, source, ledger, inflight, late>>

(* Every require that fails and every request that is refused end the run. *)
Fail ==
  /\ pc \notin {"published", "failed"}
  /\ pc' = "failed"
  /\ UNCHANGED <<mode, local, remote, late>>

-----------------------------------------------------------------------------
(* The rest of the world, until the transaction ends.                      *)

Running == pc \notin {"published", "failed"}

(* GitHub commits the lost create after all.                               *)
CommitLate ==
  /\ inflight
  /\ \E i \in Ids : Open(i, TRUE)
  /\ inflight' = FALSE
  /\ UNCHANGED <<mode, pc, local, tag, source, ledger, late>>

(* Somebody else opens a draft for the tag.                                *)
ForeignDraft ==
  /\ Running /\ tag # "absent"
  /\ \E i \in Ids : Open(i, FALSE)
  /\ UNCHANGED <<mode, pc, local, tag, source, ledger, inflight, late>>

DeleteDraft ==
  /\ Running
  /\ \E i \in Present : releases[i].draft /\ Put(i, NoRelease)
  /\ UNCHANGED <<mode, pc, local, tag, used, source, ledger, inflight, late>>

AfterInventory == pc \in {"verify", "checkTag", "confirmSource", "patch"}

(* Somebody adds, replaces or deletes an asset of this call's draft. It    *)
(* goes unnoticed if the asset is new, or was downloaded already.          *)
Tamper ==
  /\ Running
  /\ \E i \in Own, a \in Asset :
       /\ releases[i].draft
       /\ \/ Put(i, WithAssets(i, {b \in releases[i].assets : b.name # a.name} \cup {a}))
          \/ a \in releases[i].assets /\ Put(i, WithAssets(i, releases[i].assets \ {a}))
       /\ late' = late \cup (IF /\ AfterInventory /\ i = mine
                                /\ a.name \notin {b.name : b \in unverified}
                             THEN {"assets"} ELSE {})
  /\ UNCHANGED <<mode, pc, local, tag, used, source, ledger, inflight>>

MoveTag ==
  /\ Running /\ tag = "source"
  /\ tag' = "elsewhere"
  /\ late' = late \cup (IF pc \in {"confirmSource", "patch"} THEN {"tag"} ELSE {})
  /\ UNCHANGED <<mode, pc, local, releases, used, source, ledger, inflight>>

PushHead ==
  /\ Running /\ source
  /\ source' = FALSE
  /\ late' = late \cup (IF pc = "patch" THEN {"source"} ELSE {})
  /\ UNCHANGED <<mode, pc, local, tag, releases, used, ledger, inflight>>

WriteLedger ==
  /\ Running /\ ledger
  /\ ledger' = FALSE
  /\ UNCHANGED <<mode, pc, local, tag, releases, used, source, inflight, late>>

Next ==
  \/ CreateTag \/ CreateDraft \/ Ambiguous
  \/ Confirm \/ ListFirst \/ ListSecond \/ GetRelease \/ GetTag
  \/ Upload \/ Uploaded \/ Inventory \/ VerifyAsset \/ Verified
  \/ CheckTag \/ ConfirmSource \/ Publish \/ Fail
  \/ CommitLate \/ ForeignDraft \/ DeleteDraft \/ Tamper \/ MoveTag \/ PushHead \/ WriteLedger

Spec == Init /\ [][Next]_vars

-----------------------------------------------------------------------------
(* Properties.                                                             *)

(* Every variable has its type, and a transaction that uploads knows its   *)
(* release.                                                                *)
TypeOK ==
  /\ mode \in Modes /\ pc \in Labels
  /\ mine \in Ids \cup {NoRelease}
  /\ pc \in Labels \ (Readback \cup {"tag", "create", "failed"}) => mine \in Ids
  /\ todo \subseteq Staged /\ unverified \subseteq Asset /\ listed \subseteq Ids
  /\ tag \in {"absent", "source", "elsewhere"}
  /\ releases \in [Ids -> Release \cup {NoRelease}] /\ Present \subseteq used /\ used \subseteq Ids
  /\ source \in BOOLEAN /\ ledger \in BOOLEAN /\ inflight \in BOOLEAN
  /\ late \subseteq {"assets", "tag", "source"}

(* The transaction only ever uploads to, or publishes, a draft its own     *)
(* create call made, whatever drafts of the same tag others open ("Return  *)
(* only this invocation's empty draft to the ordinary upload path").       *)
OnlyOwnDraft == mine \in Present => mine \in Own

(* A create is never replayed: however its response is lost, one run makes *)
(* at most one draft ("never replay the POST").                            *)
CreatedOnce == (\A i, j \in Own : i = j) /\ (inflight => Own = {})

(* A draft becomes public only with exactly the staged assets and bytes,   *)
(* its tag at the source and, for an automatic candidate, the source still *)
(* the default branch - but for what somebody changes after its own check. *)
PublishesChecked ==
  \A i \in Ids :
    (releases[i] # NoRelease /\ releases'[i] # NoRelease
       /\ releases[i].draft /\ ~releases'[i].draft)
      => /\ "assets" \in late \/ releases[i].assets = Exact
         /\ "tag" \in late \/ tag = "source"
         /\ "source" \in late \/ mode # "automatic" \/ source
PublishesExactly == [][PublishesChecked]_vars

(* From outside, the transaction is the one of ReleaseSpec: one tag, then  *)
(* one public release in a single step that ends it, and a success that    *)
(* has published, whatever drafts, uploads and responses come in between.  *)
Run ==
  CASE pc = "tag"       -> "tag"
    [] pc = "published" -> "done"
    [] pc = "failed"    -> "failed"
    [] OTHER            -> "release"
Public == {releases[i].assets : i \in {j \in Present : ~releases[j].draft}}

Outside == INSTANCE ReleaseSpec WITH run <- Run, public <- Public
ImplementsRelease == Outside!Spec
=============================================================================
