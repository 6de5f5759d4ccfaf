----------------------------- MODULE OciGraph -----------------------------
(***************************************************************************)
(* What the OCI merger accepts as a single-platform image                  *)
(* (merge_oci_archives.py, Archive): it walks the graph of descriptors     *)
(* from index.json, depth first, rejects a manifest it meets twice, and    *)
(* ends with one runnable image and the attestations of it.                *)
(*                                                                         *)
(* A descriptor names its content by digest, so a graph has no cycle: node *)
(* n refers to nodes above n only. The archive is one variable, chosen at  *)
(* the start; blobs nobody refers to are allowed.                          *)
(***************************************************************************)
EXTENDS Integers, Sequences, FiniteSets, SequencesExt

CONSTANTS
  Size,       \* manifests and indexes of the archive
  MaxList,    \* bound: entries of one index
  MaxDepth,   \* nested indexes accepted (8)
  Limits      \* limits on the descriptors visited (the code has one, 1024)

(* What the parameters must be; the instances assume it.                   *)
OciGraphAssumption ==
  /\ Size \in Nat \ {0} /\ MaxList \in Nat \ {0} /\ MaxDepth \in Nat /\ Limits \subseteq Nat

Nodes == 1..Size

(* What a descriptor of node n leads to: an index, an image, which may be  *)
(* unfit (another platform, a wrong label, a layer that is not what the    *)
(* configuration says), or an attestation of the node its statements name, *)
(* which may be unfit too (no statements, or another subject in one).      *)
Lists(from)   == UNION {[1..k -> from] : k \in 1..MaxList}
Above(n)      == {m \in Nodes : m > n}
Index(n)      == [type : {"index"}, manifests : Lists(Above(n))]
Image         == [type : {"image"}, fit : BOOLEAN]
Attestation(n) == [type : {"attestation"}, fit : BOOLEAN, subject : Above(n)]
Content(n)    == Index(n) \cup Image \cup Attestation(n)

VARIABLES
  limit,
  archive, \* the content of each node
  root,    \* the manifests of index.json
  stack,   \* descriptors to visit, each with its depth
  visited, \* how many were
  leaves,  \* manifests met, in order
  verdict

vars == <<limit, archive, root, stack, visited, leaves, verdict>>

At(manifests, depth) == [i \in DOMAIN manifests |-> [node |-> manifests[i], depth |-> depth]]

Init ==
  /\ archive \in {a \in [Nodes -> Content(1)] : \A n \in Nodes : a[n] \in Content(n)}
  /\ root \in Lists(Nodes)
  /\ limit \in Limits
  /\ stack = At(root, 0)
  /\ visited = 0 /\ leaves = <<>> /\ verdict = "open"

Reject == verdict' = "rejected" /\ UNCHANGED <<limit, archive, root, stack, visited, leaves>>

(* Plausible bug: off by one.                                              *)
WithinLimitsOffByOne == stack[1].depth <= MaxDepth /\ visited <= limit

WithinLimits == stack[1].depth <= MaxDepth /\ visited < limit

(* walk_index: the entries of a nested index are visited next.             *)
WalkIndex ==
  LET d == stack[1] IN
  /\ archive[d.node].type = "index"
  /\ stack' = At(archive[d.node].manifests, d.depth + 1) \o Tail(stack)
  /\ visited' = visited + 1
  /\ UNCHANGED <<limit, archive, root, leaves, verdict>>

(* Plausible bug: attestations may be listed twice.                        *)
NewImage(n) == archive[n].type = "image" => n \notin Range(leaves)

(* No manifest is listed twice, directly or through nested indexes.        *)
NewLeaf(n) == n \notin Range(leaves)

(* A manifest is checked when it is met: platform, labels and layers of an *)
(* image, form and statements of an attestation.                           *)
FitLeaf(n) == archive[n].fit

WalkLeaf ==
  LET d == stack[1] IN
  /\ archive[d.node].type # "index"
  /\ FitLeaf(d.node) /\ NewLeaf(d.node)
  /\ leaves' = Append(leaves, d.node)
  /\ stack' = Tail(stack)
  /\ visited' = visited + 1
  /\ UNCHANGED <<limit, archive, root, verdict>>

Step == WithinLimits /\ (WalkIndex \/ WalkLeaf)

Walk == verdict = "open" /\ stack # <<>> /\ Step

Fail ==
  /\ verdict = "open" /\ stack # <<>>
  /\ ~WithinLimits \/ (archive[stack[1].node].type # "index"
                       /\ ~(FitLeaf(stack[1].node) /\ NewLeaf(stack[1].node)))
  /\ Reject

(* validate_complete_graph: one image, and attestations of that image.     *)
Images       == {n \in Range(leaves) : archive[n].type = "image"}
Attestations == {n \in Range(leaves) : archive[n].type = "attestation"}
Complete ==
  /\ Cardinality(Images) = 1
  /\ \A a \in Attestations : archive[a].subject \in Images

Finish ==
  /\ verdict = "open" /\ stack = <<>>
  /\ verdict' = IF Complete THEN "accepted" ELSE "rejected"
  /\ UNCHANGED <<limit, archive, root, stack, visited, leaves>>

Next == Walk \/ Fail \/ Finish

Spec == Init /\ [][Next]_vars /\ WF_vars(Next)

-----------------------------------------------------------------------------
(* A definition that does not walk. A route to a node is a way along the   *)
(* lists from index.json: the nodes on it, which ascend, each with its     *)
(* place in the list that names it. A node is met once for each route.     *)

Names(list, i, n) == i \in DOMAIN list /\ list[i] = n

Entered(r, n) ==
  LET before == {m \in DOMAIN r : m < n} IN
  \/ before = {} /\ Names(root, r[n], n)
  \/ \E m \in before :
       /\ \A k \in before : k <= m
       /\ archive[m].type = "index" /\ Names(archive[m].manifests, r[n], n)

Ways   == UNION {[on -> 1..MaxList] : on \in (SUBSET Nodes) \ {{}}}
Routes == {r \in Ways : \A n \in DOMAIN r : Entered(r, n)}

Ends(r, n) == n \in DOMAIN r /\ \A m \in DOMAIN r : m <= n
RoutesTo(n) == {r \in Routes : Ends(r, n)}

Reached(types) == {n \in Nodes : archive[n].type \in types /\ RoutesTo(n) # {}}

(* The limits of the walk; every manifest is fit and listed once; there is *)
(* one image, and the attestations are of that image.                      *)
SingleImage ==
  /\ Cardinality(Routes) <= limit
  /\ \A r \in Routes : Cardinality(DOMAIN r) <= MaxDepth + 1
  /\ \A n \in Reached({"image", "attestation"}) : archive[n].fit
  /\ \A n \in Reached({"image", "attestation"}) : \A r, s \in RoutesTo(n) : r = s
  /\ \E i \in Reached({"image"}) :
       /\ Reached({"image"}) = {i}
       /\ \A a \in Reached({"attestation"}) : archive[a].subject = i

-----------------------------------------------------------------------------
(* Properties.                                                             *)

TypeOK ==
  /\ limit \in Limits /\ visited \in 0..limit
  /\ leaves \in Seq(Nodes)
  /\ \A i \in DOMAIN stack : stack[i].node \in Nodes /\ stack[i].depth \in Nat
  /\ verdict \in {"open", "accepted", "rejected"}

(* The walk accepts the graphs in which each manifest is reached along one *)
(* path and fit, one of them an image and the others attestations of it,   *)
(* within the limits, and rejects all others; each leaf is kept once.      *)
WalkExact ==
  /\ verdict = "accepted" => SingleImage /\ Len(leaves) = Cardinality(Range(leaves))
  /\ verdict = "rejected" => ~SingleImage
=============================================================================
