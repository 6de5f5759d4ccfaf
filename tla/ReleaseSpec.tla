----------------------------- MODULE ReleaseSpec -----------------------------
(***************************************************************************)
(* What one publication promises to whoever looks at the repository        *)
(* (docs/VERSIONING.md, "Existing public tags/assets are never             *)
(* overwritten"), with no drafts, uploads, readbacks or lost               *)
(* responses: it creates the tag once, then it makes one release public in *)
(* one step, with exactly the staged bytes, and ends, or it fails and      *)
(* makes none public any more. Publication implements this specification,  *)
(* and run has the labels of VersionLedger's CreateTag and Release.        *)
(***************************************************************************)

CONSTANT Exact  \* the staged assets with their bytes

VARIABLES
  mode,    \* which publication this is
  run,     \* the next step: "tag", "release", or the end, "done" or "failed"
  tag,     \* the tag reference: absent, at the source, or elsewhere
  source,  \* the default branch is still at the captured commit
  public,  \* the public releases of the tag, by their assets
  late     \* what others changed after this run had looked at it

vars == <<mode, run, tag, source, public, late>>

Init ==
  /\ mode \in {"candidate", "automatic", "promotion"}
  /\ run = "tag" /\ tag = "absent" /\ source = TRUE /\ public = {} /\ late = {}

(* The reference, with its response lost or not.                           *)
CreateTag ==
  /\ run = "tag" /\ run' \in {"release", "failed"}
  /\ tag = "absent" /\ tag' = "source"
  /\ UNCHANGED <<mode, source, public, late>>

(* The one visible step, its response lost or not.                         *)
Publish ==
  /\ run = "release" /\ run' \in {"done", "failed"}
  /\ "tag" \in late \/ tag = "source"
  /\ "source" \in late \/ mode # "automatic" \/ source
  /\ public = {}
  /\ \E assets \in public' : public' = {assets} /\ ("assets" \in late \/ assets = Exact)
  /\ UNCHANGED <<mode, tag, source, late>>

Fail ==
  /\ run \in {"tag", "release"} /\ run' = "failed"
  /\ UNCHANGED <<mode, tag, source, public, late>>

(* Others move the tag, push to the branch, or edit the assets.            *)
Unseen(what) == late' \in {late, late \cup {what}}

MoveTag ==
  /\ run = "release" /\ tag = "source" /\ tag' = "elsewhere" /\ Unseen("tag")
  /\ UNCHANGED <<mode, run, source, public>>

PushHead ==
  /\ run \in {"tag", "release"} /\ source /\ source' = FALSE /\ Unseen("source")
  /\ UNCHANGED <<mode, run, tag, public>>

Tamper ==
  /\ run = "release" /\ Unseen("assets")
  /\ UNCHANGED <<mode, run, tag, source, public>>

Next == CreateTag \/ Publish \/ Fail \/ MoveTag \/ PushHead \/ Tamper

Spec == Init /\ [][Next]_vars
=============================================================================
