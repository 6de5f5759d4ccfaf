-------------------------- MODULE BuildChecksProofs --------------------------
(***************************************************************************)
(* Proofs about the two checks of the build side that a definition without *)
(* a loop says all of. BuildReceipts, for any targets, files and length of *)
(* a receipt: the verification, one file after the other and in any order  *)
(* of the receipts, accepts exactly what Sound says of all of them         *)
(* together. OciGraph, for any number of nodes, length of a list, depth    *)
(* and limit: the walk accepts exactly the archives of SingleImage.        *)
(***************************************************************************)
EXTENDS MCBuild, FiniteSetTheorems, SequenceTheorems, WellFoundedInduction, TLAPS

-----------------------------------------------------------------------------
(* BuildReceipts.                                                          *)

Uploads     == DOMAIN artifact
Positions(t) == DOMAIN artifact[t].lists
Listing(t, i) == artifact[t].lists[i]
Pending     == {todo[k] : k \in 1..Len(todo)}

(* Whether a position of a receipt has been covered.                       *)
Read(t, i) ==
  /\ t \in Uploads /\ i \in Positions(t)
  /\ t \notin Pending \/ (t = todo[1] /\ i <= at)

(* What was uploaded does not change.                                      *)
ArtifactOK ==
  /\ Uploads \subseteq Targets /\ rc \in BOOLEAN
  /\ \A t \in Uploads :
       /\ artifact[t].files \subseteq Payloads
       /\ \E n \in 0..ReceiptList : Positions(t) = 1..n /\ Len(artifact[t].lists) = n
       /\ \A i \in Positions(t) : Listing(t, i).name \in Payloads \cup {Fuzz}
       /\ artifact[t].lists = <<>> <=> Positions(t) = {}

(* The receipts to come are different ones, and the current one is read up *)
(* to at.                                                                  *)
OrderOK ==
  /\ todo \in Seq(Uploads)
  /\ \A k, l \in 1..Len(todo) : todo[k] = todo[l] => k = l
  /\ at \in Nat
  /\ todo = <<>> => at = 0
  /\ todo # <<>> => at <= Len(artifact[todo[1]].lists)

(* What is covered is what was read, each file once and as it is.          *)
CoveredOK ==
  /\ Receipts!Distinct /\ Uploads # {}
  /\ \A t, i : Read(t, i) => Listing(t, i).name \in covered
  /\ \A name \in covered : \E t \in Uploads : \E i \in Positions(t) :
       Read(t, i) /\ Listing(t, i).name = name
  /\ \A t, i, s, j : Read(t, i) /\ Read(s, j) /\ Listing(t, i).name = Listing(s, j).name
       => t = s /\ i = j
  /\ \A t, i : Read(t, i) =>
       /\ Listing(t, i).name \notin Targets /\ Listing(t, i).name \in Receipts!Names
       /\ Receipts!Bytes(Listing(t, i).name) = Listing(t, i).bytes
  /\ \A t \in Uploads : t \notin Pending \/ (t = todo[1] /\ at > 0) =>
       artifact[t].bound /\ artifact[t].lists # <<>>

ReceiptsInv ==
  /\ Receipts!TypeOK /\ ArtifactOK /\ OrderOK
  /\ verdict = "collect" => todo = <<>> /\ at = 0 /\ covered = {}
  /\ verdict \in {"verify", "accepted"} => CoveredOK
  /\ verdict = "accepted" => todo = <<>> /\ Receipts!Complete
  /\ verdict = "rejected" => ~Receipts!Sound

-----------------------------------------------------------------------------
(* The order in which the receipts are read.                               *)

(* The instance of the module counts as the module does.                   *)
LEMMA SameSets ==
  \A S : Receipts!Cardinality(S) = Cardinality(S) /\ Receipts!IsFiniteSet(S) = IsFiniteSet(S)
<1>1. \A S : Receipts!Cardinality(S) = Cardinality(S)
  BY DEF Receipts!Cardinality, Cardinality
<1>2. \A S : Receipts!IsFiniteSet(S) = IsFiniteSet(S)
  BY DEF Receipts!IsFiniteSet, IsFiniteSet
<1>3. QED
  BY <1>1, <1>2

LEMMA OrderIsComplete ==
  ASSUME NEW S, IsFiniteSet(S), NEW f \in Receipts!SetToSeqs(S)
  PROVE  /\ f \in Seq(S)
         /\ \A k, l \in 1..Len(f) : f[k] = f[l] => k = l
         /\ \A s \in S : \E k \in 1..Len(f) : f[k] = s
<1>1. f \in [1..Cardinality(S) -> S] /\ Cardinality(S) \in Nat
      /\ \A k, l \in 1..Cardinality(S) : k # l => f[k] # f[l]
  BY FS_CardinalityType, SameSets DEF Receipts!SetToSeqs
<1>2. f \in Seq(S) /\ Len(f) = Cardinality(S)
  BY <1>1
<1>3. f \in Injection(1..Cardinality(S), S)
  BY <1>1 DEF Injection, IsInjective
<1>4. IsFiniteSet(1..Cardinality(S)) /\ Cardinality(1..Cardinality(S)) = Cardinality(S)
  BY <1>1, FS_Interval
<1>5. f \in Surjection(1..Cardinality(S), S)
  BY <1>3, <1>4, FS_Injection
<1>6. \A s \in S : \E k \in 1..Cardinality(S) : f[k] = s
  BY <1>5 DEF Surjection
<1>7. QED
  BY <1>1, <1>2, <1>6

(* What a receipt's list is, position by position.                         *)
LEMMA ListOf ==
  ASSUME ReceiptsInv, NEW t \in Uploads
  PROVE  /\ Len(artifact[t].lists) \in 0..ReceiptList
         /\ Positions(t) = 1..Len(artifact[t].lists)
         /\ artifact[t].lists = <<>> <=> Len(artifact[t].lists) = 0
         /\ ReceiptList \in Nat
<1>1. PICK n \in 0..ReceiptList : Positions(t) = 1..n /\ Len(artifact[t].lists) = n
  BY DEF ReceiptsInv, ArtifactOK
<1>2. artifact[t].lists = <<>> <=> Positions(t) = {}
  BY DEF ReceiptsInv, ArtifactOK
<1>3. ReceiptList \in Nat
  BY InstancesAssumption DEF Receipts!BuildReceiptsAssumption
<1>4. QED
  BY <1>1, <1>2, <1>3

-----------------------------------------------------------------------------
(* The steps.                                                              *)

LEMMA ReceiptsInit == ASSUME Receipts!Init PROVE ReceiptsInv
<1>1. ReceiptList \in Nat
  BY InstancesAssumption DEF Receipts!BuildReceiptsAssumption
<1>2. /\ rc \in BOOLEAN /\ todo = <<>> /\ at = 0 /\ covered = {} /\ verdict = "collect"
  BY DEF Receipts!Init
<1>3. PICK uploaded \in SUBSET Targets : artifact \in [uploaded -> Receipts!Artifact]
  BY DEF Receipts!Init
<1>4. ASSUME NEW t \in Uploads
      PROVE  /\ artifact[t].files \subseteq Payloads
             /\ \E n \in 0..ReceiptList : Positions(t) = 1..n /\ Len(artifact[t].lists) = n
             /\ \A i \in Positions(t) : Listing(t, i).name \in Payloads \cup {Fuzz}
             /\ artifact[t].lists = <<>> <=> Positions(t) = {}
  <2>1. artifact[t].files \subseteq Payloads /\ artifact[t].lists \in Receipts!Lists
    BY <1>3, <1>4 DEF Uploads, Receipts!Artifact
  <2>2. PICK n \in 0..ReceiptList : artifact[t].lists \in [1..n -> Receipts!Entry]
    BY <2>1 DEF Receipts!Lists
  <2>3. PICK list : list = artifact[t].lists
    OBVIOUS
  <2>4. list \in Seq(Receipts!Entry) /\ Len(list) = n /\ DOMAIN list = 1..n /\ n \in Nat
    BY <1>1, <2>2, <2>3
  <2>5. list = <<>> <=> n = 0
    BY <2>4
  <2>6. \A i \in 1..n : list[i].name \in Payloads \cup {Fuzz}
    BY <2>2, <2>3 DEF Receipts!Entry
  <2>7. QED
    BY <2>1, <2>3, <2>4, <2>5, <2>6 DEF Positions, Listing
<1>5. ArtifactOK
  BY <1>2, <1>3, <1>4 DEF ArtifactOK, Uploads
<1>6. Receipts!TypeOK /\ OrderOK
  BY <1>1, <1>2 DEF Receipts!TypeOK, OrderOK
<1>7. QED
  BY <1>2, <1>5, <1>6 DEF ReceiptsInv

LEMMA ReceiptsCollect == ASSUME ReceiptsInv, Receipts!Collect PROVE ReceiptsInv'
<1>1. /\ verdict = "collect" /\ verdict' = "verify" /\ Receipts!Distinct /\ Uploads # {}
      /\ todo' \in Receipts!SetToSeqs(Uploads) /\ UNCHANGED <<rc, artifact, at, covered>>
  BY DEF Receipts!Collect, Receipts!Uploaded, Uploads
<1>2. at = 0 /\ covered = {} /\ Uploads \subseteq Targets
  BY <1>1 DEF ReceiptsInv, ArtifactOK
<1>3. IsFiniteSet(Uploads)
  BY <1>2, FS_Subset, SameSets, InstancesAssumption DEF Receipts!BuildReceiptsAssumption
<1>4. /\ todo' \in Seq(Uploads)
      /\ \A k, l \in 1..Len(todo') : todo'[k] = todo'[l] => k = l
      /\ \A t \in Uploads : t \in Pending'
  BY <1>1, <1>3, OrderIsComplete DEF Pending
<1>5. Uploads' = Uploads /\ ArtifactOK'
  BY <1>1 DEF ReceiptsInv, ArtifactOK, Uploads, Positions, Listing
<1>6. Receipts!TypeOK'
  <2>1. todo' \in Seq(Targets)
    BY <1>2, <1>4
  <2>2. QED
    BY <1>1, <2>1 DEF ReceiptsInv, Receipts!TypeOK
<1>7. OrderOK'
  <2>1. todo' # <<>> => todo'[1] \in Uploads
    BY <1>4
  <2>2. todo' # <<>> => 0 <= Len(artifact[todo'[1]].lists)
    BY <2>1, ListOf
  <2>3. QED
    BY <1>1, <1>2, <1>4, <1>5, <2>2 DEF OrderOK
<1>8. CoveredOK'
  <2>1. \A t, i : ~Read(t, i)'
    BY <1>1, <1>2, <1>4, <1>5, ListOf DEF Read, Positions
  <2>2. \A t \in Uploads : ~(t \notin Pending \/ (t = todo[1] /\ at > 0))'
    BY <1>1, <1>2, <1>4
  <2>3. Receipts!Distinct' /\ Uploads' # {}
    BY <1>1, <1>5 DEF Receipts!Distinct, Receipts!Uploaded
  <2>4. QED
    BY <1>1, <1>2, <1>5, <2>1, <2>2, <2>3 DEF CoveredOK
<1>9. QED
  BY <1>1, <1>5, <1>6, <1>7, <1>8 DEF ReceiptsInv

(* The receipt being verified is one of those uploaded.                    *)
LEMMA CurrentReceipt ==
  ASSUME ReceiptsInv, todo # <<>>
  PROVE  /\ todo[1] \in Uploads /\ Len(todo) \in Nat \ {0} /\ todo[1] \in Pending
         /\ at \in 0..Len(artifact[todo[1]].lists)
         /\ Tail(todo) \in Seq(Uploads) /\ Len(Tail(todo)) = Len(todo) - 1
         /\ \A k \in 1..Len(Tail(todo)) : Tail(todo)[k] = todo[k + 1]
<1>1. todo \in Seq(Uploads) /\ at \in Nat /\ at <= Len(artifact[todo[1]].lists)
  BY DEF ReceiptsInv, OrderOK
<1>2. /\ Len(todo) \in Nat \ {0} /\ todo[1] \in Uploads
      /\ Tail(todo) \in Seq(Uploads) /\ Len(Tail(todo)) = Len(todo) - 1
      /\ \A k \in 1..Len(Tail(todo)) : Tail(todo)[k] = todo[k + 1]
  BY <1>1
<1>3. Len(artifact[todo[1]].lists) \in Nat
  BY <1>2, ListOf
<1>4. QED
  BY <1>1, <1>2, <1>3 DEF Pending

LEMMA ReceiptsCover == ASSUME ReceiptsInv, Receipts!Cover PROVE ReceiptsInv'
<1>1. /\ verdict = "verify" /\ todo # <<>> /\ Receipts!Evidence
      /\ at < Len(artifact[todo[1]].lists) /\ at' = at + 1
      /\ UNCHANGED <<rc, artifact, todo, verdict>>
  BY DEF Receipts!Cover, Receipts!Receipt
<1>2. PICK u : u = todo[1]
  OBVIOUS
<1>3. PICK n : n = Listing(u, at + 1).name
  OBVIOUS
<1>4. /\ covered' = covered \cup {n} /\ n \notin covered /\ n \notin Targets
      /\ n \in Receipts!Names /\ Receipts!Bytes(n) = Listing(u, at + 1).bytes
  BY <1>2, <1>3 DEF Receipts!Cover, Receipts!Coverable, Receipts!Listed, Receipts!Receipt, Listing
<1>5. /\ u \in Uploads /\ u \in Pending /\ at \in Nat /\ at + 1 \in Positions(u)
      /\ at + 1 <= Len(artifact[u].lists) /\ at + 1 \in 0..ReceiptList
  <2>1. u \in Uploads /\ u \in Pending /\ at \in 0..Len(artifact[u].lists)
    BY <1>1, <1>2, CurrentReceipt
  <2>2. Len(artifact[u].lists) \in 0..ReceiptList /\ Positions(u) = 1..Len(artifact[u].lists) /\ ReceiptList \in Nat
    BY <2>1, ListOf
  <2>3. QED
    BY <1>1, <1>2, <2>1, <2>2
<1>6. at = 0 => artifact[u].bound /\ artifact[u].lists # <<>>
  BY <1>1, <1>2 DEF Receipts!Evidence, Receipts!Receipt
<1>7. CoveredOK /\ ArtifactOK /\ OrderOK
  BY <1>1 DEF ReceiptsInv
<1>8. /\ Uploads' = Uploads /\ Pending' = Pending /\ Receipts!Names' = Receipts!Names
      /\ \A t : Positions(t)' = Positions(t) /\ \A i : Listing(t, i)' = Listing(t, i)
      /\ \A name : Receipts!Bytes(name)' = Receipts!Bytes(name)
  BY <1>1 DEF Uploads, Pending, Positions, Listing, Receipts!Names, Receipts!Uploaded, Receipts!Bytes
<1>9. \A t, i : Read(t, i)' <=> Read(t, i) \/ (t = u /\ i = at + 1)
  <2>1. ASSUME NEW t, NEW i, Read(t, i)' PROVE Read(t, i) \/ (t = u /\ i = at + 1)
    <3>1. t \in Uploads /\ i \in Positions(t) /\ (t \notin Pending \/ (t = u /\ i <= at + 1))
      BY <1>1, <1>2, <1>8, <2>1 DEF Read
    <3>2. i \in Nat
      BY <3>1, ListOf
    <3>3. QED
      BY <1>2, <1>5, <3>1, <3>2 DEF Read
  <2>2. ASSUME NEW t, NEW i, Read(t, i) PROVE Read(t, i)'
    <3>1. t \in Uploads /\ i \in Positions(t) /\ (t \notin Pending \/ (t = u /\ i <= at))
      BY <1>2, <2>2 DEF Read
    <3>2. i \in Nat
      BY <3>1, ListOf
    <3>3. QED
      BY <1>1, <1>2, <1>5, <1>8, <3>1, <3>2 DEF Read
  <2>3. \A i : i = at + 1 => Read(u, i)'
    BY <1>1, <1>2, <1>5, <1>8 DEF Read
  <2>4. QED
    BY <2>1, <2>2, <2>3
<1>10. \A t, i : Read(t, i) => Listing(t, i).name \in covered
  BY <1>7 DEF CoveredOK
<1>11. CoveredOK'
  <2>1. Receipts!Distinct' /\ Uploads' # {}
    BY <1>1, <1>7, <1>8 DEF CoveredOK, Receipts!Distinct, Receipts!Uploaded
  <2>2. \A t, i : Read(t, i)' => Listing(t, i)'.name \in covered'
    BY <1>3, <1>4, <1>8, <1>9, <1>10
  <2>3. \A name \in covered' : \E t \in Uploads' : \E i \in Positions(t)' :
          Read(t, i)' /\ Listing(t, i)'.name = name
    <3>1. ASSUME NEW name \in covered
          PROVE  \E t \in Uploads' : \E i \in Positions(t)' : Read(t, i)' /\ Listing(t, i)'.name = name
      <4>1. PICK t \in Uploads : \E i \in Positions(t) : Read(t, i) /\ Listing(t, i).name = name
        BY <1>7, <3>1 DEF CoveredOK
      <4>2. PICK i \in Positions(t) : Read(t, i) /\ Listing(t, i).name = name
        BY <4>1
      <4>3. QED
        BY <1>8, <1>9, <4>2
    <3>2. PICK i : i = at + 1
      OBVIOUS
    <3>3. u \in Uploads' /\ i \in Positions(u)' /\ Read(u, i)' /\ Listing(u, i)'.name = n
      BY <1>3, <1>5, <1>8, <1>9, <3>2
    <3>4. QED
      BY <1>4, <3>1, <3>3
  <2>4. ASSUME NEW t, NEW i, NEW s, NEW j, Read(t, i)', Read(s, j)',
               Listing(t, i)'.name = Listing(s, j)'.name
        PROVE  t = s /\ i = j
    <3>1. Listing(t, i).name = Listing(s, j).name
      BY <1>8, <2>4
    <3>2. CASE Read(t, i) /\ Read(s, j)
      BY <1>7, <3>1, <3>2 DEF CoveredOK
    <3>3. CASE ~Read(t, i)
      <4>1. Listing(t, i).name = n /\ t = u /\ i = at + 1
        BY <1>3, <1>9, <2>4, <3>3
      <4>2. ~Read(s, j)
        BY <1>4, <1>10, <3>1, <4>1
      <4>3. QED
        BY <1>9, <2>4, <4>1, <4>2
    <3>4. CASE ~Read(s, j)
      <4>1. Listing(s, j).name = n /\ s = u /\ j = at + 1
        BY <1>3, <1>9, <2>4, <3>4
      <4>2. ~Read(t, i)
        BY <1>4, <1>10, <3>1, <4>1
      <4>3. QED
        BY <1>9, <2>4, <4>1, <4>2
    <3>5. QED
      BY <3>2, <3>3, <3>4
  <2>5. \A t, i : Read(t, i)' =>
          /\ Listing(t, i)'.name \notin Targets /\ Listing(t, i)'.name \in Receipts!Names'
          /\ Receipts!Bytes(Listing(t, i).name)' = Listing(t, i)'.bytes
    <3>1. ASSUME NEW t, NEW i, Read(t, i)'
          PROVE  /\ Listing(t, i).name \notin Targets /\ Listing(t, i).name \in Receipts!Names
                 /\ Receipts!Bytes(Listing(t, i).name) = Listing(t, i).bytes
      <4>1. CASE Read(t, i)
        BY <1>7, <4>1 DEF CoveredOK
      <4>2. CASE t = u /\ i = at + 1
        BY <1>3, <1>4, <4>2
      <4>3. QED
        BY <1>9, <3>1, <4>1, <4>2
    <3>2. \A t, i : Receipts!Bytes(Listing(t, i).name)' = Receipts!Bytes(Listing(t, i).name)
      BY <1>1 DEF Listing, Receipts!Bytes, Receipts!Uploaded
    <3>3. QED
      BY <1>8, <3>1, <3>2
  <2>6. \A t \in Uploads : t \notin Pending \/ (t = u /\ at + 1 > 0) =>
          artifact[t].bound /\ artifact[t].lists # <<>>
    <3>1. at # 0 => at > 0
      BY <1>5
    <3>2. QED
      BY <1>2, <1>6, <1>7, <3>1 DEF CoveredOK
  <2>7. QED
    BY <1>1, <1>2, <1>8, <2>1, <2>2, <2>3, <2>4, <2>5, <2>6 DEF CoveredOK
<1>12. ArtifactOK'
  BY <1>1, <1>7, <1>8 DEF ArtifactOK
<1>13. OrderOK'
  BY <1>1, <1>2, <1>5, <1>7, <1>8 DEF OrderOK
<1>14. Receipts!TypeOK'
  <2>1. n \in Payloads
    BY <1>4, <1>7 DEF Receipts!Names, Receipts!Uploaded, ArtifactOK, Uploads
  <2>2. QED
    BY <1>1, <1>4, <1>5, <2>1 DEF ReceiptsInv, Receipts!TypeOK
<1>15. QED
  BY <1>1, <1>11, <1>12, <1>13, <1>14 DEF ReceiptsInv

LEMMA ReceiptsNextReceipt == ASSUME ReceiptsInv, Receipts!NextReceipt PROVE ReceiptsInv'
<1>1. /\ verdict = "verify" /\ todo # <<>> /\ Receipts!Evidence
      /\ at = Len(artifact[todo[1]].lists) /\ todo' = Tail(todo) /\ at' = 0
      /\ UNCHANGED <<rc, artifact, covered, verdict>>
  BY DEF Receipts!NextReceipt, Receipts!Receipt
<1>2. PICK u : u = todo[1]
  OBVIOUS
<1>3. /\ u \in Uploads /\ Len(todo) \in Nat \ {0} /\ u \in Pending
      /\ todo' \in Seq(Uploads) /\ Len(todo') = Len(todo) - 1
      /\ \A k \in 1..Len(todo') : todo'[k] = todo[k + 1]
  BY <1>1, <1>2, CurrentReceipt
<1>4. /\ Len(artifact[u].lists) \in 0..ReceiptList /\ ReceiptList \in Nat
      /\ Positions(u) = 1..Len(artifact[u].lists)
  BY <1>3, ListOf
<1>5. CoveredOK /\ ArtifactOK /\ OrderOK
  BY <1>1 DEF ReceiptsInv
<1>6. /\ Uploads' = Uploads /\ Receipts!Names' = Receipts!Names
      /\ \A t : Positions(t)' = Positions(t) /\ \A i : Listing(t, i)' = Listing(t, i)
  BY <1>1 DEF Uploads, Positions, Listing, Receipts!Names, Receipts!Uploaded
<1>7. \A k, l \in 1..Len(todo) : todo[k] = todo[l] => k = l
  BY <1>5 DEF OrderOK
<1>8. Pending' = Pending \ {u}
  <2>1. ASSUME NEW k \in 1..Len(todo') PROVE todo'[k] \in Pending /\ todo'[k] # u
    <3>1. k + 1 \in 1..Len(todo) /\ k + 1 # 1 /\ 1 \in 1..Len(todo) /\ todo'[k] = todo[k + 1]
      BY <1>3
    <3>2. QED
      BY <1>2, <1>7, <3>1 DEF Pending
  <2>2. ASSUME NEW k \in 1..Len(todo), todo[k] # u PROVE todo[k] \in Pending'
    <3>1. k # 1
      BY <1>2, <2>2
    <3>2. k - 1 \in 1..Len(todo') /\ (k - 1) + 1 = k
      BY <1>3, <3>1
    <3>3. todo'[k - 1] = todo[k]
      BY <1>3, <3>2
    <3>4. QED
      BY <3>2, <3>3 DEF Pending
  <2>3. QED
    BY <2>1, <2>2 DEF Pending
<1>9. \A t, i : Read(t, i)' <=> Read(t, i)
  <2>1. ASSUME NEW t \in Uploads, NEW i \in Positions(t)
        PROVE  /\ i \in Nat \ {0} /\ i <= Len(artifact[t].lists)
    BY ListOf
  <2>2. ASSUME NEW t, NEW i, Read(t, i)' PROVE Read(t, i)
    <3>1. t \in Uploads /\ i \in Positions(t) /\ (t \notin Pending' \/ i <= 0)
      BY <1>1, <1>6, <2>2 DEF Read
    <3>2. t \notin Pending \/ t = u
      BY <1>8, <2>1, <3>1
    <3>3. t = u => i <= at
      BY <1>1, <1>2, <2>1, <3>1
    <3>4. QED
      BY <1>2, <3>1, <3>2, <3>3 DEF Read
  <2>3. ASSUME NEW t, NEW i, Read(t, i) PROVE Read(t, i)'
    BY <1>2, <1>6, <1>8, <2>3 DEF Read
  <2>4. QED
    BY <2>2, <2>3
<1>10. CoveredOK'
  <2>1. Receipts!Distinct' /\ Uploads' # {}
    BY <1>1, <1>5, <1>6 DEF CoveredOK, Receipts!Distinct, Receipts!Uploaded
  <2>2. \A t, i : Read(t, i)' => Listing(t, i)'.name \in covered'
    BY <1>1, <1>5, <1>6, <1>9 DEF CoveredOK
  <2>3. \A name \in covered' : \E t \in Uploads' : \E i \in Positions(t)' :
          Read(t, i)' /\ Listing(t, i)'.name = name
    BY <1>1, <1>5, <1>6, <1>9 DEF CoveredOK
  <2>4. \A t, i, s, j : Read(t, i)' /\ Read(s, j)' /\ Listing(t, i)'.name = Listing(s, j)'.name
          => t = s /\ i = j
    BY <1>5, <1>6, <1>9 DEF CoveredOK
  <2>5. \A t, i : Read(t, i)' =>
          /\ Listing(t, i)'.name \notin Targets /\ Listing(t, i)'.name \in Receipts!Names'
          /\ Receipts!Bytes(Listing(t, i).name)' = Listing(t, i)'.bytes
    <3>1. \A t, i : Receipts!Bytes(Listing(t, i).name)' = Receipts!Bytes(Listing(t, i).name)
      BY <1>1 DEF Listing, Receipts!Bytes, Receipts!Uploaded
    <3>2. QED
      BY <1>5, <1>6, <1>9, <3>1 DEF CoveredOK
  <2>6. \A t \in Uploads : t \notin Pending' => artifact[t].bound /\ artifact[t].lists # <<>>
    <3>1. artifact[u].bound /\ artifact[u].lists # <<>>
      <4>1. CASE at = 0
        BY <1>1, <1>2, <4>1 DEF Receipts!Evidence, Receipts!Receipt
      <4>2. CASE at # 0
        <5>1. at > 0
          BY <1>1, <1>2, <1>4, <4>2
        <5>2. QED
          BY <1>2, <1>3, <1>5, <5>1 DEF CoveredOK
      <4>3. QED
        BY <4>1, <4>2
    <3>2. \A t \in Uploads : t \notin Pending => artifact[t].bound /\ artifact[t].lists # <<>>
      BY <1>5 DEF CoveredOK
    <3>3. QED
      BY <1>8, <3>1, <3>2
  <2>7. ~(at' > 0)
    BY <1>1
  <2>8. QED
    BY <1>1, <1>6, <2>1, <2>2, <2>3, <2>4, <2>5, <2>6, <2>7 DEF CoveredOK
<1>11. ArtifactOK'
  BY <1>1, <1>5, <1>6 DEF ArtifactOK
<1>12. OrderOK'
  <2>1. ASSUME NEW k \in 1..Len(todo'), NEW l \in 1..Len(todo'), todo'[k] = todo'[l] PROVE k = l
    <3>1. k + 1 \in 1..Len(todo) /\ l + 1 \in 1..Len(todo) /\ todo[k + 1] = todo[l + 1]
      BY <1>3, <2>1
    <3>2. k + 1 = l + 1
      BY <1>7, <3>1
    <3>3. QED
      BY <3>2
  <2>2. todo' # <<>> => 0 <= Len(artifact[todo'[1]].lists)
    <3>1. todo' # <<>> => todo'[1] \in Uploads
      BY <1>3
    <3>2. QED
      BY <3>1, ListOf
  <2>3. QED
    BY <1>1, <1>3, <1>6, <2>1, <2>2 DEF OrderOK
<1>13. Receipts!TypeOK'
  <2>1. todo' \in Seq(Targets)
    BY <1>3, <1>5 DEF ArtifactOK
  <2>2. QED
    BY <1>1, <1>4, <2>1 DEF ReceiptsInv, Receipts!TypeOK
<1>14. QED
  BY <1>1, <1>10, <1>11, <1>12, <1>13 DEF ReceiptsInv

LEMMA ReceiptsAccept == ASSUME ReceiptsInv, Receipts!Accept PROVE ReceiptsInv'
<1>1. /\ verdict = "verify" /\ verdict' = "accepted" /\ todo = <<>> /\ Receipts!Complete
      /\ UNCHANGED <<rc, artifact, todo, at, covered>>
  BY DEF Receipts!Accept
<1>2. ArtifactOK' /\ OrderOK' /\ Receipts!TypeOK'
  BY <1>1 DEF ReceiptsInv, ArtifactOK, OrderOK, Uploads, Positions, Listing, Receipts!TypeOK
<1>3. CoveredOK'
  BY <1>1 DEF ReceiptsInv, CoveredOK, Read, Uploads, Positions, Listing, Pending,
              Receipts!Distinct, Receipts!Names, Receipts!Uploaded, Receipts!Bytes
<1>4. Receipts!Complete'
  BY <1>1 DEF Receipts!Complete, Receipts!Names, Receipts!Uploaded, Receipts!FuzzEvidence,
              Receipts!Packages
<1>5. QED
  BY <1>1, <1>2, <1>3, <1>4 DEF ReceiptsInv

-----------------------------------------------------------------------------
(* Sound, and the verdict.                                                 *)

(* What vouches for a name is the listings of it.                          *)
LEMMA VouchedBy ==
  ASSUME ReceiptsInv, NEW name
  PROVE  \A v : v \in Receipts!Vouches(name) <=>
           \E t \in Uploads : \E i \in Positions(t) : v = <<t, i>> /\ Listing(t, i).name = name
<1>1. ASSUME NEW v \in Receipts!Vouches(name)
      PROVE  \E t \in Uploads : \E i \in Positions(t) : v = <<t, i>> /\ Listing(t, i).name = name
  <2>1. /\ v \in Uploads \X (1..ReceiptList) /\ v[2] \in Positions(v[1])
        /\ Listing(v[1], v[2]).name = name
    BY <1>1 DEF Receipts!Vouches, Receipts!Uploaded, Uploads, Positions, Listing
  <2>2. v[1] \in Uploads /\ v = <<v[1], v[2]>>
    BY <2>1
  <2>3. QED
    BY <2>1, <2>2
<1>2. ASSUME NEW t \in Uploads, NEW i \in Positions(t), Listing(t, i).name = name
      PROVE  <<t, i>> \in Receipts!Vouches(name)
  <2>1. i \in 1..ReceiptList
    BY ListOf
  <2>2. QED
    BY <1>2, <2>1 DEF Receipts!Vouches, Receipts!Uploaded, Uploads, Positions, Listing
<1>3. QED
  BY <1>1, <1>2

(* The bytes of a file with one source are those of the source.            *)
LEMMA BytesOf ==
  ASSUME NEW name, NEW t \in Uploads, \A s \in Uploads : name \in artifact[s].files <=> s = t
  PROVE  Receipts!Bytes(name) = t
BY DEF Receipts!Bytes, Receipts!Uploaded, Uploads

(* What Sound says of the directories is what collect_assets checks.       *)
LEMMA DirectoriesSound ==
  ASSUME ReceiptsInv, Receipts!Sound PROVE Receipts!Distinct /\ Receipts!Uploaded # {}
<1>1. ASSUME NEW s \in Uploads, NEW t \in Uploads, NEW name, name \in artifact[s].files,
             name \in artifact[t].files
      PROVE  s = t
  <2>1. name \in Receipts!Names
    BY <1>1 DEF Receipts!Names, Receipts!Uploaded, Uploads
  <2>2. \E o \in Uploads : \A r \in Uploads : name \in artifact[r].files <=> r = o
    BY <2>1 DEF Receipts!Sound, Receipts!Vouched, Receipts!Uploaded, Uploads
  <2>3. QED
    BY <1>1, <2>2
<1>2. QED
  BY <1>1 DEF Receipts!Sound, Receipts!Distinct, Receipts!Uploaded, Uploads

(* Once all receipts are read, Sound implies the final checks.             *)
LEMMA ChecksSound ==
  ASSUME ReceiptsInv, CoveredOK, todo = <<>>, Receipts!Sound PROVE Receipts!Complete
<1>1. \A t, i : Read(t, i) <=> t \in Uploads /\ i \in Positions(t)
  BY DEF Read, Pending
<1>2. covered = Receipts!Names
  <2>1. ASSUME NEW name \in covered PROVE name \in Receipts!Names
    BY <2>1 DEF CoveredOK
  <2>2. ASSUME NEW name \in Receipts!Names PROVE name \in covered
    <3>1. PICK v : v \in Receipts!Vouches(name)
      BY <2>2 DEF Receipts!Sound, Receipts!Vouched
    <3>2. PICK t \in Uploads : \E i \in Positions(t) : v = <<t, i>> /\ Listing(t, i).name = name
      BY <3>1, VouchedBy
    <3>3. QED
      BY <1>1, <3>2 DEF CoveredOK
  <2>3. QED
    BY <2>1, <2>2
<1>3. rc => Receipts!FuzzEvidence
  <2>1. SUFFICES ASSUME rc PROVE Receipts!FuzzEvidence
    OBVIOUS
  <2>2. /\ Fuzz \in Uploads /\ Receipts!Vouches(Report) = {<<Fuzz, 1>>}
        /\ \A name \in Payloads \ {Report} : \A w \in Receipts!Vouches(name) : w[1] # Fuzz
    BY <2>1 DEF Receipts!Sound, Receipts!Inventory, Receipts!Uploaded, Uploads
  <2>3. 1 \in Positions(Fuzz) /\ Listing(Fuzz, 1).name = Report
    <3>1. PICK t \in Uploads : \E i \in Positions(t) : <<Fuzz, 1>> = <<t, i>> /\ Listing(t, i).name = Report
      BY <2>2, VouchedBy
    <3>2. QED
      BY <3>1
  <2>4. ASSUME NEW i \in Positions(Fuzz) PROVE i = 1
    <3>1. PICK name : name = Listing(Fuzz, i).name
      OBVIOUS
    <3>2. <<Fuzz, i>> \in Receipts!Vouches(name)
      BY <2>2, <2>4, <3>1, VouchedBy
    <3>3. name \notin Targets /\ Fuzz \in Targets
      BY <3>2, InstancesAssumption
         DEF Receipts!Sound, Receipts!Vouched, Receipts!BuildReceiptsAssumption
    <3>4. name \in Payloads
      BY <2>2, <2>4, <3>1, <3>3 DEF ReceiptsInv, ArtifactOK
    <3>5. name = Report
      BY <2>2, <3>2, <3>4
    <3>6. QED
      BY <2>2, <3>2, <3>5
  <2>5. Positions(Fuzz) = {1}
    BY <2>3, <2>4
  <2>6. [i \in {1} |-> Report] = <<Report>>
    OBVIOUS
  <2>7. [i \in DOMAIN artifact[Fuzz].lists |-> artifact[Fuzz].lists[i].name] = [i \in {1} |-> Report]
    BY <2>3, <2>5 DEF Positions, Listing
  <2>8. QED
    BY <2>2, <2>6, <2>7 DEF Receipts!FuzzEvidence, Receipts!Uploaded, Uploads
<1>4. Receipts!Packages = Required
  <2>1. Fuzz \notin Required
    BY InstancesAssumption DEF Receipts!BuildReceiptsAssumption
  <2>2. Receipts!Uploaded = Required \cup (IF rc THEN {Fuzz} ELSE {})
    BY DEF Receipts!Sound, Receipts!Inventory
  <2>3. QED
    BY <2>1, <2>2 DEF Receipts!Packages
<1>5. QED
  BY <1>2, <1>3, <1>4 DEF Receipts!Complete

(* Whatever receipt is being verified, Sound implies its evidence.         *)
LEMMA EvidenceSound ==
  ASSUME ReceiptsInv, todo # <<>>, Receipts!Sound PROVE Receipts!Evidence
BY CurrentReceipt
   DEF Receipts!Sound, Receipts!Genuine, Receipts!Evidence, Receipts!Receipt, Receipts!Uploaded, Uploads

(* Whatever file of it is next, Sound implies that it can be covered.      *)
LEMMA CoverSound ==
  ASSUME ReceiptsInv, CoveredOK, todo # <<>>, at < Len(Receipts!Receipt.lists), Receipts!Sound
  PROVE  Receipts!Coverable
<1>1. PICK u : u = todo[1]
  OBVIOUS
<1>2. PICK p : p = at + 1
  OBVIOUS
<1>3. PICK name : name = Listing(u, p).name
  OBVIOUS
<1>4. u \in Uploads /\ u \in Pending /\ at \in Nat /\ p \in Positions(u)
  <2>1. u \in Uploads /\ u \in Pending /\ at \in 0..Len(artifact[u].lists)
    BY <1>1, CurrentReceipt
  <2>2. Len(artifact[u].lists) \in Nat /\ Positions(u) = 1..Len(artifact[u].lists)
    BY <2>1, ListOf
  <2>3. QED
    BY <1>1, <1>2, <2>1, <2>2 DEF Receipts!Receipt
<1>5. <<u, p>> \in Receipts!Vouches(name)
  BY <1>3, <1>4, VouchedBy
<1>6. name \notin Targets /\ name \in Receipts!Names
  <2>1. name \notin Targets /\ name \notin Payloads \ Receipts!Names /\ Fuzz \in Targets
    BY <1>5, InstancesAssumption
       DEF Receipts!Sound, Receipts!Vouched, Receipts!BuildReceiptsAssumption
  <2>2. name \in Payloads \cup {Fuzz}
    BY <1>3, <1>4 DEF ReceiptsInv, ArtifactOK
  <2>3. QED
    BY <2>1, <2>2
<1>7. PICK t \in Uploads, v \in Uploads \X (1..ReceiptList) :
        /\ \A s \in Uploads : name \in artifact[s].files <=> s = t
        /\ Receipts!Vouches(name) = {v} /\ artifact[v[1]].lists[v[2]].bytes = t
  BY <1>6 DEF Receipts!Sound, Receipts!Vouched, Receipts!Uploaded, Uploads
<1>8. v = <<u, p>> /\ Listing(u, p).bytes = t
  BY <1>5, <1>7 DEF Listing
<1>9. Receipts!Bytes(name) = Listing(u, p).bytes
  BY <1>7, <1>8, BytesOf
<1>10. name \notin covered
  <2>1. SUFFICES ASSUME name \in covered PROVE FALSE
    OBVIOUS
  <2>2. PICK s \in Uploads : \E j \in Positions(s) : Read(s, j) /\ Listing(s, j).name = name
    BY <2>1 DEF CoveredOK
  <2>3. PICK j \in Positions(s) : Read(s, j) /\ Listing(s, j).name = name
    BY <2>2
  <2>4. <<s, j>> \in Receipts!Vouches(name)
    BY <2>3, VouchedBy
  <2>5. s = u /\ j = p
    BY <1>7, <1>8, <2>4
  <2>6. QED
    BY <1>1, <1>2, <1>4, <2>3, <2>5 DEF Read
<1>11. QED
  BY <1>1, <1>2, <1>3, <1>6, <1>9, <1>10 DEF Receipts!Coverable, Receipts!Listed, Receipts!Receipt, Listing

LEMMA ReceiptsRefuse == ASSUME ReceiptsInv, Receipts!Refuse PROVE ReceiptsInv'
<1>1. verdict' = "rejected" /\ UNCHANGED <<rc, artifact, todo, at, covered>>
  BY DEF Receipts!Refuse, Receipts!Reject
<1>2. ~Receipts!Sound
  BY DirectoriesSound, ChecksSound, EvidenceSound, CoverSound DEF Receipts!Refuse, ReceiptsInv
<1>3. ArtifactOK' /\ OrderOK' /\ Receipts!TypeOK'
  BY <1>1 DEF ReceiptsInv, ArtifactOK, OrderOK, Uploads, Positions, Listing, Receipts!TypeOK
<1>4. Receipts!Sound' <=> Receipts!Sound
  BY <1>1 DEF Receipts!Sound, Receipts!Vouched, Receipts!Inventory, Receipts!Genuine,
              Receipts!Vouches, Receipts!Names, Receipts!Uploaded
<1>5. QED
  BY <1>1, <1>2, <1>3, <1>4 DEF ReceiptsInv

(* Once all receipts are read, what has been checked implies Sound.        *)
LEMMA AcceptedSound ==
  ASSUME ReceiptsInv, verdict = "accepted" PROVE Receipts!Sound
<1>1. CoveredOK /\ todo = <<>> /\ Receipts!Complete /\ ArtifactOK
  BY DEF ReceiptsInv
<1>2. \A t, i : Read(t, i) <=> t \in Uploads /\ i \in Positions(t)
  BY <1>1 DEF Read, Pending
<1>3. ASSUME NEW name \in Receipts!Names
      PROVE  \E t \in Uploads, v \in Uploads \X (1..ReceiptList) :
               /\ \A s \in Uploads : name \in artifact[s].files <=> s = t
               /\ Receipts!Vouches(name) = {v} /\ artifact[v[1]].lists[v[2]].bytes = t
  <2>1. PICK t \in Uploads : name \in artifact[t].files
    BY <1>3 DEF Receipts!Names, Receipts!Uploaded, Uploads
  <2>2. \A s \in Uploads : name \in artifact[s].files <=> s = t
    BY <1>1, <2>1 DEF CoveredOK, Receipts!Distinct, Receipts!Uploaded, Uploads
  <2>3. PICK u \in Uploads : \E i \in Positions(u) : Read(u, i) /\ Listing(u, i).name = name
    BY <1>1, <1>3 DEF CoveredOK, Receipts!Complete
  <2>4. PICK p \in Positions(u) : Read(u, p) /\ Listing(u, p).name = name
    BY <2>3
  <2>5. Listing(u, p).bytes = t
    BY <1>1, <2>2, <2>4, BytesOf DEF CoveredOK
  <2>6. Receipts!Vouches(name) = {<<u, p>>}
    <3>1. <<u, p>> \in Receipts!Vouches(name)
      BY <2>4, VouchedBy
    <3>2. ASSUME NEW w \in Receipts!Vouches(name) PROVE w = <<u, p>>
      <4>1. PICK s \in Uploads : \E j \in Positions(s) : w = <<s, j>> /\ Listing(s, j).name = name
        BY <3>2, VouchedBy
      <4>2. PICK j \in Positions(s) : w = <<s, j>> /\ Listing(s, j).name = name
        BY <4>1
      <4>3. s = u /\ j = p
        BY <1>1, <1>2, <2>4, <4>2 DEF CoveredOK
      <4>4. QED
        BY <4>2, <4>3
    <3>3. QED
      BY <3>1, <3>2
  <2>7. <<u, p>> \in Uploads \X (1..ReceiptList)
    BY ListOf
  <2>8. QED
    BY <2>2, <2>5, <2>6, <2>7 DEF Listing
<1>4. ASSUME NEW name \in Targets \cup (Payloads \ Receipts!Names), NEW w \in Receipts!Vouches(name)
      PROVE  FALSE
  <2>1. PICK s \in Uploads : \E j \in Positions(s) : w = <<s, j>> /\ Listing(s, j).name = name
    BY <1>4, VouchedBy
  <2>2. QED
    BY <1>1, <1>2, <2>1 DEF CoveredOK
<1>5. Receipts!Vouched
  BY <1>3, <1>4 DEF Receipts!Vouched, Receipts!Uploaded, Uploads
<1>6. Receipts!Inventory
  <2>1. ASSUME rc
        PROVE  /\ Fuzz \in Uploads /\ Positions(Fuzz) = {1} /\ Listing(Fuzz, 1).name = Report
    <3>1. /\ Fuzz \in Uploads
          /\ [i \in DOMAIN artifact[Fuzz].lists |-> artifact[Fuzz].lists[i].name] = <<Report>>
      BY <1>1, <2>1 DEF Receipts!Complete, Receipts!FuzzEvidence, Receipts!Uploaded, Uploads
    <3>2. PICK names : names = [i \in DOMAIN artifact[Fuzz].lists |-> artifact[Fuzz].lists[i].name]
      OBVIOUS
    <3>3. DOMAIN names = DOMAIN artifact[Fuzz].lists
          /\ \A i \in DOMAIN artifact[Fuzz].lists : names[i] = artifact[Fuzz].lists[i].name
      BY <3>2
    <3>4. DOMAIN names = {1} /\ names[1] = Report
      BY <3>1, <3>2
    <3>5. QED
      BY <3>1, <3>3, <3>4 DEF Positions, Listing
  <2>2. Receipts!Uploaded = Required \cup (IF rc THEN {Fuzz} ELSE {})
    BY <1>1, <2>1 DEF Receipts!Complete, Receipts!Packages, Receipts!Uploaded, Uploads
  <2>3. ASSUME rc PROVE Receipts!Vouches(Report) = {<<Fuzz, 1>>}
    <3>1. <<Fuzz, 1>> \in Receipts!Vouches(Report)
      BY <2>1, <2>3, VouchedBy
    <3>2. ASSUME NEW w \in Receipts!Vouches(Report) PROVE w = <<Fuzz, 1>>
      <4>1. PICK s \in Uploads : \E j \in Positions(s) : w = <<s, j>> /\ Listing(s, j).name = Report
        BY <3>2, VouchedBy
      <4>2. PICK j \in Positions(s) : w = <<s, j>> /\ Listing(s, j).name = Report
        BY <4>1
      <4>3. Read(s, j) /\ Read(Fuzz, 1) /\ Listing(s, j).name = Listing(Fuzz, 1).name
        BY <1>2, <2>1, <2>3, <4>2
      <4>4. s = Fuzz /\ j = 1
        BY <1>1, <4>3 DEF CoveredOK
      <4>5. QED
        BY <4>2, <4>4
    <3>3. QED
      BY <3>1, <3>2
  <2>4. ASSUME rc, NEW name \in Payloads \ {Report}, NEW w \in Receipts!Vouches(name)
        PROVE  w[1] # Fuzz
    <3>1. PICK s \in Uploads : \E j \in Positions(s) : w = <<s, j>> /\ Listing(s, j).name = name
      BY <2>4, VouchedBy
    <3>2. QED
      BY <2>1, <2>4, <3>1
  <2>5. QED
    BY <2>2, <2>3, <2>4 DEF Receipts!Inventory
<1>7. Receipts!Genuine
  BY <1>1 DEF CoveredOK, Pending, Receipts!Genuine, Receipts!Uploaded, Uploads
<1>8. QED
  BY <1>1, <1>5, <1>6, <1>7 DEF Receipts!Sound, CoveredOK, Receipts!Uploaded, Uploads

(* Every step keeps the invariant, and it says what the verdict means.     *)
LEMMA ReceiptsNext == ASSUME ReceiptsInv, Receipts!Next PROVE ReceiptsInv'
BY ReceiptsCollect, ReceiptsCover, ReceiptsNextReceipt, ReceiptsAccept, ReceiptsRefuse
   DEF Receipts!Next

LEMMA ReceiptsExact == ASSUME ReceiptsInv PROVE Receipts!TypeOK /\ Receipts!CoverageExact
BY AcceptedSound DEF ReceiptsInv, Receipts!CoverageExact

-----------------------------------------------------------------------------
(* OciGraph. What the walk has visited and has still to visit is a matter  *)
(* of routes: route on[i] leads to the i-th descriptor of the stack, the   *)
(* routes that go on from none of these are those visited, and one step    *)
(* moves one route from the first to the second.                           *)

Descriptors == [node : Graph!Nodes, depth : Nat]

(* The archive is a graph without a cycle.                                 *)
GraphShape ==
  /\ root \in Graph!Lists(Graph!Nodes)
  /\ \A n \in Graph!Nodes :
       /\ archive[n].type \in {"index", "image", "attestation"}
       /\ archive[n].type = "index" => archive[n].manifests \in Graph!Lists(Graph!Above(n))

(* A route p goes on from where r ends.                                    *)
Extends(p, r) ==
  /\ \A n \in DOMAIN r : n \in DOMAIN p /\ p[n] = r[n]
  /\ \A n \in DOMAIN p \ DOMAIN r : \A m \in DOMAIN r : m < n

(* The first step of a route, and one step more.                           *)
First(n, i)     == [m \in {n} |-> i]
Longer(r, n, i) == [m \in DOMAIN r \cup {n} |-> IF m = n THEN i ELSE r[m]]

(* The descriptors of a list are descriptors.                              *)
LEMMA GraphAt ==
  ASSUME NEW manifests \in Seq(Graph!Nodes), NEW depth \in Nat
  PROVE  Graph!At(manifests, depth) \in Seq(Descriptors)
<1>1. PICK n \in Nat : manifests \in [1..n -> Graph!Nodes]
  <2>1. manifests \in [1..Len(manifests) -> Graph!Nodes] /\ Len(manifests) \in Nat
    OBVIOUS
  <2>2. QED
    BY <2>1
<1>2. Graph!At(manifests, depth) \in [1..n -> Descriptors]
  BY <1>1 DEF Graph!At, Descriptors
<1>3. QED
  BY <1>2

LEMMA GraphLists ==
  ASSUME NEW from, from \subseteq Graph!Nodes, NEW list \in Graph!Lists(from)
  PROVE  list \in Seq(Graph!Nodes)
<1>1. PICK k \in 1..MaxList : list \in [1..k -> from]
  BY DEF Graph!Lists
<1>2. k \in Nat /\ list \in [1..k -> Graph!Nodes]
  BY <1>1, InstancesAssumption DEF Graph!OciGraphAssumption
<1>3. QED
  BY <1>2

(* A set of naturals has a least element: the induction along a route.     *)
LEMMA Least ==
  ASSUME NEW T, T \subseteq Nat, T # {}
  PROVE  \E n \in T : \A m \in T : n <= m
<1> DEFINE R == OpToRel(<, Nat)
<1>1. IsWellFoundedOn(R, Nat)
  BY NatLessThanWellFounded
<1>2. PICK n \in T : \A m \in T : ~(<<m, n>> \in R)
  <2> HIDE DEF R
  <2>1. QED
    BY <1>1, WFMin
<1>3. \A m \in T : ~(m < n)
  <2>1. \A m \in T : m < n => <<m, n>> \in R
    BY DEF OpToRel
  <2>2. QED
    BY <1>2, <2>1
<1>4. n \in Nat /\ \A m \in T : m \in Nat
  OBVIOUS
<1>5. QED
  BY <1>3, <1>4

LEMMA ListEntry ==
  ASSUME NEW from, NEW list \in Graph!Lists(from)
  PROVE  /\ \A i \in DOMAIN list : i \in 1..MaxList /\ i \in Nat /\ list[i] \in from
         /\ \E k \in Nat : DOMAIN list = 1..k /\ k <= MaxList
BY InstancesAssumption DEF Graph!Lists, Graph!OciGraphAssumption

LEMMA NodesFinite == Graph!Nodes \subseteq Nat /\ IsFiniteSet(Graph!Nodes)
<1>1. Size \in Nat
  BY InstancesAssumption DEF Graph!OciGraphAssumption
<1>2. QED
  BY <1>1, FS_Interval DEF Graph!Nodes

LEMMA RouteType ==
  ASSUME NEW r \in Graph!Routes
  PROVE  /\ r = [n \in DOMAIN r |-> r[n]]
         /\ DOMAIN r \subseteq Graph!Nodes /\ DOMAIN r \subseteq Nat /\ DOMAIN r # {}
         /\ \A n \in DOMAIN r : r[n] \in 1..MaxList
         /\ IsFiniteSet(DOMAIN r)
<1>1. PICK on \in (SUBSET Graph!Nodes) \ {{}} : r \in [on -> 1..MaxList]
  BY DEF Graph!Routes, Graph!Ways
<1>2. IsFiniteSet(on)
  BY <1>1, NodesFinite, FS_Subset
<1>3. QED
  BY <1>1, <1>2, NodesFinite

LEMMA RoutesFinite == IsFiniteSet(Graph!Routes)
<1> DEFINE Entries == Graph!Nodes \X (1..MaxList)
           picture == [r \in Graph!Routes |-> {e \in Entries : e[1] \in DOMAIN r /\ e[2] = r[e[1]]}]
<1>1. IsFiniteSet(SUBSET Entries)
  <2>1. MaxList \in Int
    BY InstancesAssumption DEF Graph!OciGraphAssumption
  <2>2. IsFiniteSet(1..MaxList)
    BY <2>1, FS_Interval
  <2>3. QED
    BY <2>2, NodesFinite, FS_Product, FS_SUBSET
<1>2. ASSUME NEW r \in Graph!Routes, NEW s \in Graph!Routes, picture[r] = picture[s] PROVE r = s
  <2>1. \A n \in DOMAIN r : <<n, r[n]>> \in picture[r]
    BY RouteType
  <2>2. \A n \in DOMAIN s : <<n, s[n]>> \in picture[s]
    BY RouteType
  <2>3. DOMAIN r = DOMAIN s /\ \A n \in DOMAIN r : r[n] = s[n]
    BY <1>2, <2>1, <2>2
  <2>4. QED
    BY <2>3, RouteType, Zenon
<1>3. picture \in Injection(Graph!Routes, SUBSET Entries)
  BY <1>2 DEF Injection, IsInjective
<1>4. QED
  BY <1>1, <1>3, FS_Injection

(* An entry of index.json is a route; an entry of an index where a route   *)
(* ends is a longer one.                                                   *)
LEMMA FirstRoute ==
  ASSUME GraphShape, NEW i \in DOMAIN root
  PROVE  /\ First(root[i], i) \in Graph!Routes
         /\ Graph!Ends(First(root[i], i), root[i])
         /\ Cardinality(DOMAIN First(root[i], i)) = 1
<1> DEFINE n == root[i]
           r == First(n, i)
<1>1. n \in Graph!Nodes /\ i \in 1..MaxList /\ n \in Nat
  BY ListEntry, InstancesAssumption DEF GraphShape, Graph!Nodes, Graph!OciGraphAssumption
<1>2. DOMAIN r = {n} /\ r[n] = i
  BY DEF First
<1>3. r \in Graph!Ways
  <2>1. r \in [{n} -> 1..MaxList] /\ {n} \in (SUBSET Graph!Nodes) \ {{}}
    BY <1>1 DEF First
  <2>2. QED
    BY <2>1 DEF Graph!Ways
<1>4. Graph!Entered(r, n)
  BY <1>1, <1>2 DEF Graph!Entered, Graph!Names
<1>5. QED
  BY <1>1, <1>2, <1>3, <1>4, FS_Singleton DEF Graph!Routes, Graph!Ends

LEMMA LongerRoute ==
  ASSUME GraphShape, NEW r \in Graph!Routes, NEW n, Graph!Ends(r, n),
         archive[n].type = "index", NEW i \in DOMAIN archive[n].manifests
  PROVE  LET m == archive[n].manifests[i] IN
         /\ Longer(r, m, i) \in Graph!Routes
         /\ Graph!Ends(Longer(r, m, i), m)
         /\ Cardinality(DOMAIN Longer(r, m, i)) = Cardinality(DOMAIN r) + 1
         /\ \A k \in DOMAIN r : k < m
<1> DEFINE m == archive[n].manifests[i]
           q == Longer(r, m, i)
<1>1. n \in Graph!Nodes /\ n \in DOMAIN r /\ \A k \in DOMAIN r : k \in Nat /\ k <= n
  BY RouteType DEF Graph!Ends
<1>2. m \in Graph!Nodes /\ m > n /\ i \in 1..MaxList /\ m \in Nat /\ n \in Nat
  <2>1. archive[n].manifests \in Graph!Lists(Graph!Above(n))
    BY <1>1 DEF GraphShape
  <2>2. i \in 1..MaxList /\ m \in Graph!Above(n)
    BY <2>1, ListEntry
  <2>3. QED
    BY <1>1, <2>2, InstancesAssumption DEF Graph!Above, Graph!Nodes, Graph!OciGraphAssumption
<1>3. /\ DOMAIN q = DOMAIN r \cup {m} /\ m \notin DOMAIN r /\ q[m] = i
      /\ \A k \in DOMAIN r : q[k] = r[k] /\ k < m
  BY <1>1, <1>2 DEF Longer
<1> HIDE DEF q, m
<1>4. q \in Graph!Ways
  <2>1. q \in [DOMAIN r \cup {m} -> 1..MaxList] /\ DOMAIN r \cup {m} \in (SUBSET Graph!Nodes) \ {{}}
    BY <1>1, <1>2, <1>3, RouteType DEF Longer, q
  <2>2. QED
    BY <2>1 DEF Graph!Ways
<1>5. ASSUME NEW k \in DOMAIN r PROVE Graph!Entered(q, k)
  <2>1. {x \in DOMAIN q : x < k} = {x \in DOMAIN r : x < k}
    BY <1>1, <1>2, <1>3
  <2>2. Graph!Entered(r, k)
    BY DEF Graph!Routes
  <2>3. q[k] = r[k]
    BY <1>3
  <2>4. QED
    BY <2>1, <2>2, <2>3 DEF Graph!Entered
<1>6. Graph!Entered(q, m)
  <2>1. {x \in DOMAIN q : x < m} = DOMAIN r
    BY <1>1, <1>2, <1>3
  <2>2. Graph!Names(archive[n].manifests, q[m], m)
    BY <1>3 DEF Graph!Names, m
  <2>3. QED
    BY <1>1, <2>1, <2>2 DEF Graph!Entered
<1>7. q \in Graph!Routes
  BY <1>3, <1>4, <1>5, <1>6 DEF Graph!Routes
<1>8. Cardinality(DOMAIN q) = Cardinality(DOMAIN r) + 1
  BY <1>3, RouteType, FS_AddElement
<1>9. Graph!Ends(q, m)
  BY <1>1, <1>2, <1>3 DEF Graph!Ends
<1>10. QED
  BY <1>3, <1>7, <1>8, <1>9 DEF q, m

(* Every route goes on from exactly one entry of index.json.               *)
LEMMA RouteStarts ==
  ASSUME GraphShape, NEW p \in Graph!Routes
  PROVE  /\ \E i \in DOMAIN root : Extends(p, First(root[i], i))
         /\ \A i, j \in DOMAIN root :
              Extends(p, First(root[i], i)) /\ Extends(p, First(root[j], j)) => i = j
<1>1. \E i \in DOMAIN root : Extends(p, First(root[i], i))
  <2>1. PICK n \in DOMAIN p : \A m \in DOMAIN p : n <= m
    BY RouteType, Least
  <2>2. \A m \in DOMAIN p : m \in Nat
    BY RouteType
  <2>3. {m \in DOMAIN p : m < n} = {}
    BY <2>1, <2>2
  <2>4. Graph!Names(root, p[n], n)
    BY <2>3 DEF Graph!Routes, Graph!Entered
  <2>5. Extends(p, First(root[p[n]], p[n]))
    BY <2>1, <2>2, <2>4 DEF Graph!Names, Extends, First
  <2>6. QED
    BY <2>4, <2>5 DEF Graph!Names
<1>2. ASSUME NEW i \in DOMAIN root, NEW j \in DOMAIN root,
             Extends(p, First(root[i], i)), Extends(p, First(root[j], j))
      PROVE  i = j
  <2>1. root[i] \in DOMAIN p /\ p[root[i]] = i /\ root[j] \in DOMAIN p /\ p[root[j]] = j
    BY <1>2 DEF Extends, First
  <2>2. root[i] # root[j] => root[i] < root[j] /\ root[j] < root[i]
    BY <1>2, <2>1 DEF Extends, First
  <2>3. root[i] \in Nat /\ root[j] \in Nat
    BY <2>1, RouteType
  <2>4. QED
    BY <2>1, <2>2, <2>3
<1>3. QED
  BY <1>1, <1>2

(* A route that goes on from r is r, or r ends in an index and the route   *)
(* goes on from an entry of it,                                            *)
LEMMA RouteGoesOn ==
  ASSUME GraphShape, NEW r \in Graph!Routes, NEW n, Graph!Ends(r, n), NEW p \in Graph!Routes, p # r,
         Extends(p, r)
  PROVE  /\ archive[n].type = "index"
         /\ \E i \in DOMAIN archive[n].manifests : Extends(p, Longer(r, archive[n].manifests[i], i))
<1>1. /\ \A m \in DOMAIN p : m \in Nat
      /\ \A m \in DOMAIN r : m \in Nat /\ m \in DOMAIN p /\ p[m] = r[m]
      /\ \A m \in DOMAIN p \ DOMAIN r : \A k \in DOMAIN r : k < m
      /\ n \in DOMAIN r /\ \A k \in DOMAIN r : k <= n
  BY RouteType DEF Extends, Graph!Ends
<1>2. DOMAIN p \ DOMAIN r # {}
  <2>1. ASSUME DOMAIN p = DOMAIN r PROVE p = r
    <3>1. \A m \in DOMAIN p : p[m] = r[m]
      BY <1>1, <2>1
    <3>2. p = [m \in DOMAIN p |-> p[m]] /\ r = [m \in DOMAIN r |-> r[m]]
      BY RouteType
    <3>3. QED
      BY <2>1, <3>1, <3>2, Zenon
  <2>2. QED
    BY <1>1, <2>1
<1>3. PICK m \in DOMAIN p \ DOMAIN r : \A k \in DOMAIN p \ DOMAIN r : m <= k
  <2>1. DOMAIN p \ DOMAIN r \subseteq Nat
    BY <1>1
  <2>2. QED
    BY <1>2, <2>1, Least
<1>4. {k \in DOMAIN p : k < m} = DOMAIN r
  BY <1>1, <1>3
<1>5. archive[n].type = "index" /\ Graph!Names(archive[n].manifests, p[m], m)
  <2>1. Graph!Entered(p, m)
    BY DEF Graph!Routes
  <2>2. PICK k \in DOMAIN r : /\ \A x \in DOMAIN r : x <= k
                             /\ archive[k].type = "index" /\ Graph!Names(archive[k].manifests, p[m], m)
    BY <1>1, <1>4, <2>1 DEF Graph!Entered
  <2>3. k = n
    BY <1>1, <2>2
  <2>4. QED
    BY <2>2, <2>3
<1>6. Extends(p, Longer(r, m, p[m]))
  BY <1>1, <1>3 DEF Extends, Longer
<1>7. QED
  BY <1>5, <1>6 DEF Graph!Names

(* and then from no other entry.                                           *)
LEMMA RouteBranches ==
  ASSUME GraphShape, NEW r \in Graph!Routes, NEW n, Graph!Ends(r, n), NEW p \in Graph!Routes,
         archive[n].type = "index", NEW i \in DOMAIN archive[n].manifests,
         Extends(p, Longer(r, archive[n].manifests[i], i))
  PROVE  /\ p # r /\ Extends(p, r)
         /\ \A j \in DOMAIN archive[n].manifests :
              Extends(p, Longer(r, archive[n].manifests[j], j)) => i = j
<1> DEFINE m(j) == archive[n].manifests[j]
<1>1. \A j \in DOMAIN archive[n].manifests : \A k \in DOMAIN r : k < m(j) /\ k \in Nat
  BY LongerRoute, RouteType
<1>2. \A j \in DOMAIN archive[n].manifests : m(j) \notin DOMAIN r
  BY <1>1
<1>3. ASSUME NEW j \in DOMAIN archive[n].manifests, Extends(p, Longer(r, m(j), j))
      PROVE  /\ m(j) \in DOMAIN p /\ p[m(j)] = j
             /\ \A k \in DOMAIN p : k \notin DOMAIN r /\ k # m(j) => m(j) < k
             /\ \A k \in DOMAIN r : k \in DOMAIN p /\ p[k] = r[k]
  BY <1>2, <1>3 DEF Extends, Longer
<1> HIDE DEF m
<1>4. p # r
  BY <1>2, <1>3 DEF m
<1>5. Extends(p, r)
  <2>1. \A k \in DOMAIN p : k \in Nat
    BY RouteType
  <2>2. ASSUME NEW k \in DOMAIN p \ DOMAIN r, NEW x \in DOMAIN r PROVE x < k
    <3>1. x < m(i) /\ (k = m(i) \/ m(i) < k) /\ m(i) \in Nat /\ x \in Nat /\ k \in Nat
      BY <1>1, <1>3, <2>1 DEF m
    <3>2. QED
      BY <3>1
  <2>3. QED
    BY <1>3, <2>2 DEF Extends, m
<1>6. ASSUME NEW j \in DOMAIN archive[n].manifests, Extends(p, Longer(r, m(j), j))
      PROVE  i = j
  <2>1. m(i) \in DOMAIN p /\ m(j) \in DOMAIN p /\ p[m(i)] = i /\ p[m(j)] = j
    BY <1>3, <1>6 DEF m
  <2>2. m(i) # m(j) => m(i) < m(j) /\ m(j) < m(i)
    BY <1>2, <1>3, <1>6, <2>1 DEF m
  <2>3. m(i) \in Nat /\ m(j) \in Nat
    BY <2>1, RouteType
  <2>4. QED
    BY <2>1, <2>2, <2>3
<1>7. QED
  BY <1>4, <1>5, <1>6 DEF m

-----------------------------------------------------------------------------
(* The walk: route on[i] leads to the i-th descriptor to visit, and the    *)
(* routes that go on from none of these are those visited.                 *)

Seen(on) == {p \in Graph!Routes : \A i \in DOMAIN on : ~Extends(p, on[i])}

Leaf(n) == archive[n].type # "index"

Ahead(on, ahead) ==
  /\ DOMAIN on = DOMAIN ahead
  /\ \A i \in DOMAIN on :
       /\ on[i] \in Graph!Routes
       /\ Graph!Ends(on[i], ahead[i].node)
       /\ Cardinality(DOMAIN on[i]) = ahead[i].depth + 1
  /\ \A i, j \in DOMAIN on : \A p \in Graph!Routes :
       Extends(p, on[i]) /\ Extends(p, on[j]) => i = j

Behind(passed, count, kept) ==
  /\ Cardinality(passed) = count
  /\ \A p \in passed : Cardinality(DOMAIN p) <= MaxDepth + 1
  /\ \A p \in passed : \A n \in Graph!Nodes :
       Graph!Ends(p, n) /\ Leaf(n) => n \in Graph!Range(kept) /\ Graph!FitLeaf(n)
  /\ \A n \in Graph!Range(kept) : Leaf(n) /\ \E p \in passed : Graph!Ends(p, n)
  /\ \A p, q \in passed : \A n \in Graph!Nodes :
       Graph!Ends(p, n) /\ Graph!Ends(q, n) /\ Leaf(n) => p = q

Walked(ahead, count, kept) == \E on : Ahead(on, ahead) /\ Behind(Seen(on), count, kept)

LEMMA ExtendsItself == ASSUME NEW r PROVE Extends(r, r)
BY DEF Extends

LEMMA WalkStarts == ASSUME GraphShape PROVE Walked(Graph!At(root, 0), 0, <<>>)
<1> DEFINE on == [i \in DOMAIN root |-> First(root[i], i)]
<1>1. Seen(on) = {}
  BY RouteStarts DEF Seen
<1>2. Ahead(on, Graph!At(root, 0))
  BY FirstRoute, RouteStarts DEF Ahead, Graph!At
<1>3. Behind(Seen(on), 0, <<>>)
  BY <1>1, FS_EmptySet DEF Behind, Graph!Range
<1>4. QED
  BY <1>2, <1>3 DEF Walked

(* What the visit of the first descriptor adds.                            *)
LEMMA SeenOneMore ==
  ASSUME NEW passed, passed \subseteq Graph!Routes, NEW r \in Graph!Routes, r \notin passed,
         NEW count \in Nat, Cardinality(passed) = count
  PROVE  /\ Cardinality(passed \cup {r}) = count + 1
         /\ count + 1 <= Cardinality(Graph!Routes)
<1>1. IsFiniteSet(passed)
  BY RoutesFinite, FS_Subset
<1>2. Cardinality(passed \cup {r}) = count + 1
  BY <1>1, FS_AddElement
<1>3. passed \cup {r} \in SUBSET Graph!Routes
  OBVIOUS
<1>4. QED
  BY <1>2, <1>3, RoutesFinite, FS_Subset

(* The first descriptor's route is none of those visited.                  *)
LEMMA NextRoute ==
  ASSUME NEW ahead \in Seq(Descriptors), ahead # <<>>, NEW on, Ahead(on, ahead)
  PROVE  /\ 1 \in DOMAIN on /\ on[1] \in Graph!Routes /\ on[1] \notin Seen(on)
         /\ Graph!Ends(on[1], ahead[1].node) /\ ahead[1].node \in Graph!Nodes
         /\ \A n : Graph!Ends(on[1], n) => n = ahead[1].node
         /\ Cardinality(DOMAIN on[1]) = ahead[1].depth + 1 /\ ahead[1].depth \in Nat
<1>1. 1 \in DOMAIN ahead /\ ahead[1] \in Descriptors
  OBVIOUS
<1>2. /\ 1 \in DOMAIN on /\ on[1] \in Graph!Routes /\ on[1] \notin Seen(on)
      /\ Graph!Ends(on[1], ahead[1].node) /\ Cardinality(DOMAIN on[1]) = ahead[1].depth + 1
  BY <1>1, ExtendsItself DEF Ahead, Seen
<1>3. ahead[1].node \in Graph!Nodes /\ ahead[1].depth \in Nat
  BY <1>1 DEF Descriptors
<1>4. \A n : Graph!Ends(on[1], n) => n = ahead[1].node
  <2>1. DOMAIN on[1] \subseteq Nat
    BY <1>2, RouteType
  <2>2. QED
    BY <1>2, <2>1 DEF Graph!Ends
<1>5. QED
  BY <1>2, <1>3, <1>4

LEMMA SequenceTail ==
  ASSUME NEW S, NEW s \in Seq(S), s # <<>>
  PROVE  /\ DOMAIN s = 1..Len(s) /\ Len(s) \in Nat /\ Len(s) >= 1
         /\ Tail(s) \in Seq(S) /\ Len(Tail(s)) = Len(s) - 1 /\ DOMAIN Tail(s) = 1..(Len(s) - 1)
         /\ \A i \in 1..(Len(s) - 1) : Tail(s)[i] = s[i + 1]
<1>1. DOMAIN s = 1..Len(s) /\ Len(s) \in Nat \ {0}
  BY LenProperties, EmptySeq
<1>2. Tail(s) \in Seq(S) /\ Len(Tail(s)) = Len(s) - 1 /\ \A i \in 1..Len(Tail(s)) : Tail(s)[i] = s[i + 1]
  BY HeadTailProperties
<1>3. DOMAIN Tail(s) = 1..(Len(s) - 1)
  BY <1>2, LenProperties
<1>4. QED
  BY <1>1, <1>2, <1>3

(* A visit moves the first route from those ahead to those behind, and     *)
(* keeps its manifest.                                                     *)
LEMMA WalkOn ==
  ASSUME GraphShape, NEW ahead \in Seq(Descriptors), ahead # <<>>, NEW on, Ahead(on, ahead),
         NEW on2, NEW ahead2, Ahead(on2, ahead2), Seen(on2) = Seen(on) \cup {on[1]},
         NEW count \in Nat, NEW kept, Behind(Seen(on), count, kept),
         NEW kept2, ahead[1].depth <= MaxDepth,
         IF Leaf(ahead[1].node)
         THEN /\ Graph!FitLeaf(ahead[1].node) /\ ahead[1].node \notin Graph!Range(kept)
              /\ Graph!Range(kept2) = Graph!Range(kept) \cup {ahead[1].node}
         ELSE kept2 = kept
  PROVE  Walked(ahead2, count + 1, kept2)
<1> DEFINE r == on[1]
           n == ahead[1].node
           new == Seen(on) \cup {r}
<1>1. /\ r \in Graph!Routes /\ r \notin Seen(on) /\ Graph!Ends(r, n) /\ n \in Graph!Nodes
      /\ \A m : Graph!Ends(r, m) => m = n
      /\ Cardinality(DOMAIN r) = ahead[1].depth + 1
  BY NextRoute
<1>2. Cardinality(new) = count + 1
  <2>1. Seen(on) \subseteq Graph!Routes /\ Cardinality(Seen(on)) = count
    BY DEF Seen, Behind
  <2>2. QED
    BY <1>1, <2>1, SeenOneMore
<1>3. Cardinality(DOMAIN r) <= MaxDepth + 1
  <2>1. ahead[1].depth \in Nat /\ MaxDepth \in Nat
    BY NextRoute, InstancesAssumption DEF Graph!OciGraphAssumption
  <2>2. QED
    BY <1>1, <2>1
<1> HIDE DEF r, n
<1>4. Graph!Range(kept) \subseteq Graph!Range(kept2)
  BY DEF n
<1>5. Leaf(n) => n \in Graph!Range(kept2) /\ Graph!FitLeaf(n)
  BY DEF n
<1>6. \A m \in Graph!Range(kept2) : m \in Graph!Range(kept) \/ (m = n /\ Leaf(n))
  BY DEF n
<1>7. \A q \in Seen(on) : ~(Graph!Ends(q, n) /\ Leaf(n))
  BY <1>1 DEF Behind, n
<1>8. Behind(new, count + 1, kept2)
  BY <1>1, <1>2, <1>3, <1>4, <1>5, <1>6, <1>7 DEF Behind
<1>9. QED
  BY <1>8 DEF Walked, r

(* Nothing goes on from a manifest: its route leaves the stack.            *)
LEMMA WalkLeafOn ==
  ASSUME GraphShape, NEW ahead \in Seq(Descriptors), ahead # <<>>, NEW on, Ahead(on, ahead),
         Leaf(ahead[1].node)
  PROVE  \E on2 : Ahead(on2, Tail(ahead)) /\ Seen(on2) = Seen(on) \cup {on[1]}
<1> DEFINE on2 == [i \in 1..(Len(ahead) - 1) |-> on[i + 1]]
<1>1. /\ DOMAIN Tail(ahead) = 1..(Len(ahead) - 1)
      /\ \A i \in 1..(Len(ahead) - 1) : Tail(ahead)[i] = ahead[i + 1]
      /\ DOMAIN ahead = 1..Len(ahead) /\ Len(ahead) \in Nat /\ Len(ahead) >= 1
  BY SequenceTail
<1>2. /\ DOMAIN on = 1..Len(ahead) /\ \A i \in 1..(Len(ahead) - 1) : i + 1 \in DOMAIN on
      /\ \A i \in DOMAIN on : i = 1 \/ (i - 1 \in 1..(Len(ahead) - 1) /\ on2[i - 1] = on[i])
  BY <1>1 DEF Ahead
<1>3. Ahead(on2, Tail(ahead))
  <2>1. ASSUME NEW i \in DOMAIN on2, NEW j \in DOMAIN on2, NEW p \in Graph!Routes,
               Extends(p, on2[i]), Extends(p, on2[j])
        PROVE  i = j
    <3>1. i + 1 = j + 1
      BY <1>2, <2>1 DEF Ahead
    <3>2. QED
      BY <3>1
  <2>2. \A i \in DOMAIN on2 : /\ on2[i] = on[i + 1] /\ i + 1 \in DOMAIN on
                              /\ Tail(ahead)[i] = ahead[i + 1]
    BY <1>1, <1>2
  <2>3. DOMAIN on2 = DOMAIN Tail(ahead)
    BY <1>1
  <2> HIDE DEF on2
  <2>4. QED
    BY <2>1, <2>2, <2>3 DEF Ahead
<1>4. \A p \in Graph!Routes : Extends(p, on[1]) <=> p = on[1]
  BY NextRoute, RouteGoesOn, ExtendsItself DEF Leaf
<1>5. Seen(on2) = Seen(on) \cup {on[1]}
  <2>1. ASSUME NEW p \in Seen(on) PROVE p \in Seen(on2)
    BY <1>2 DEF Seen
  <2>2. on[1] \in Seen(on2)
    <3>1. on[1] \in Graph!Routes /\ 1 \in DOMAIN on
      BY NextRoute
    <3>2. ASSUME NEW i \in DOMAIN on2, Extends(on[1], on2[i]) PROVE FALSE
      <4>1. i + 1 = 1
        BY <1>2, <3>1, <3>2, ExtendsItself DEF Ahead
      <4>2. QED
        BY <4>1
    <3>3. QED
      BY <3>1, <3>2 DEF Seen
  <2>3. ASSUME NEW p \in Seen(on2), p # on[1] PROVE p \in Seen(on)
    <3>1. p \in Graph!Routes /\ ~Extends(p, on[1])
      BY <1>4, <2>3 DEF Seen
    <3>2. \A i \in DOMAIN on : ~Extends(p, on[i])
      BY <1>2, <3>1 DEF Seen
    <3>3. QED
      BY <3>1, <3>2 DEF Seen
  <2>4. QED
    BY <2>1, <2>2, <2>3
<1>6. QED
  BY <1>3, <1>5

(* Each route that goes on from an index goes on from one of the entries,  *)
(* whose descriptors take its place on the stack.                          *)
LEMMA WalkIndexOn ==
  ASSUME GraphShape, NEW ahead \in Seq(Descriptors), ahead # <<>>, NEW on, Ahead(on, ahead),
         ~Leaf(ahead[1].node)
  PROVE  \E on2 :
           /\ Ahead(on2, Graph!At(archive[ahead[1].node].manifests, ahead[1].depth + 1) \o Tail(ahead))
           /\ Seen(on2) = Seen(on) \cup {on[1]}
<1> DEFINE r    == on[1]
           n    == ahead[1].node
           list == archive[n].manifests
           next == Graph!At(list, ahead[1].depth + 1) \o Tail(ahead)
<1>1. /\ r \in Graph!Routes /\ r \notin Seen(on) /\ Graph!Ends(r, n) /\ n \in Graph!Nodes
      /\ archive[n].type = "index" /\ 1 \in DOMAIN on
      /\ Cardinality(DOMAIN r) = ahead[1].depth + 1 /\ ahead[1].depth \in Nat
  BY NextRoute DEF Leaf
<1>2. PICK k \in Nat : DOMAIN list = 1..k
  BY <1>1, ListEntry DEF GraphShape
<1> DEFINE on2 == [i \in 1..(k + Len(ahead) - 1) |->
                    IF i <= k THEN Longer(r, list[i], i) ELSE on[i - k + 1]]
<1>3. /\ Len(ahead) \in Nat /\ Len(ahead) >= 1 /\ DOMAIN on = 1..Len(ahead)
  BY SequenceTail DEF Ahead
<1>4. /\ DOMAIN next = 1..(k + Len(ahead) - 1)
      /\ \A i \in 1..k : next[i].node = list[i] /\ next[i].depth = ahead[1].depth + 1
      /\ \A i \in 1..(k + Len(ahead) - 1) : ~(i <= k) => next[i] = ahead[i - k + 1]
  <2> DEFINE entries == Graph!At(list, ahead[1].depth + 1)
             rest    == Tail(ahead)
  <2>1. entries \in Seq(Descriptors) /\ rest \in Seq(Descriptors)
    <3>1. list \in Graph!Lists(Graph!Above(n)) /\ Graph!Above(n) \subseteq Graph!Nodes
      BY <1>1 DEF GraphShape, Graph!Above
    <3>2. list \in Seq(Graph!Nodes) /\ ahead[1].depth + 1 \in Nat
      BY <1>1, <3>1, GraphLists
    <3>3. QED
      BY <3>2, GraphAt, SequenceTail
  <2>2. DOMAIN entries = 1..k
    BY <1>2 DEF Graph!At
  <2>3. \A i \in 1..k : entries[i].node = list[i] /\ entries[i].depth = ahead[1].depth + 1
    BY <1>2 DEF Graph!At
  <2>4. /\ Len(rest) = Len(ahead) - 1
        /\ \A i \in 1..(Len(ahead) - 1) : rest[i] = ahead[i + 1]
    BY <1>3, SequenceTail
  <2> HIDE DEF entries, rest
  <2>5. Len(entries) = k
    BY <2>1, <2>2, LenProperties
  <2>6. /\ DOMAIN (entries \o rest) = 1..(k + Len(ahead) - 1)
        /\ \A i \in 1..k : (entries \o rest)[i] = entries[i]
        /\ \A i \in 1..(k + Len(ahead) - 1) : ~(i <= k) => (entries \o rest)[i] = rest[i - k]
    <3>1. /\ entries \o rest \in Seq(Descriptors) /\ Len(entries \o rest) = k + (Len(ahead) - 1)
          /\ \A i \in 1..(k + (Len(ahead) - 1)) :
               (entries \o rest)[i] = IF i <= k THEN entries[i] ELSE rest[i - k]
      <4>1. /\ entries \o rest \in Seq(Descriptors)
            /\ Len(entries \o rest) = Len(entries) + Len(rest)
            /\ \A i \in 1..Len(entries) + Len(rest) :
                 (entries \o rest)[i] = IF i <= Len(entries) THEN entries[i] ELSE rest[i - Len(entries)]
        BY <2>1, ConcatProperties
      <4>2. QED
        BY <2>4, <2>5, <4>1
    <3>2. DOMAIN (entries \o rest) = 1..(k + (Len(ahead) - 1))
      BY <3>1, LenProperties
    <3>3. k + (Len(ahead) - 1) = k + Len(ahead) - 1 /\ 1..k \subseteq 1..(k + (Len(ahead) - 1))
      BY <1>3
    <3>4. QED
      BY <3>1, <3>2, <3>3
  <2>7. \A i \in 1..(k + Len(ahead) - 1) : ~(i <= k) => rest[i - k] = ahead[i - k + 1]
    BY <1>3, <2>4
  <2>8. QED
    BY <2>3, <2>6, <2>7 DEF entries, rest
<1> HIDE DEF next
<1>5. \A i \in 1..k : /\ i \in DOMAIN on2 /\ on2[i] = Longer(r, list[i], i)
                      /\ on2[i] \in Graph!Routes /\ Graph!Ends(on2[i], list[i])
                      /\ Cardinality(DOMAIN on2[i]) = Cardinality(DOMAIN r) + 1
  <2>1. \A i \in 1..k : i \in DOMAIN on2 /\ on2[i] = Longer(r, list[i], i)
    BY <1>3
  <2>2. QED
    BY <1>1, <1>2, <2>1, LongerRoute
<1>6. \A i \in DOMAIN on2 : i \notin 1..k =>
        on2[i] = on[i - k + 1] /\ i - k + 1 \in DOMAIN on \ {1} /\ ~(i <= k)
  BY <1>3
<1>7. \A i \in DOMAIN on \ {1} : i + k - 1 \in DOMAIN on2 \ 1..k /\ on2[i + k - 1] = on[i]
  BY <1>3
<1>8. DOMAIN on2 = 1..(k + Len(ahead) - 1) /\ DOMAIN on2 \subseteq Int
  OBVIOUS
<1> HIDE DEF on2
<1>9. \A p \in Graph!Routes : \A i \in 1..k : Extends(p, on2[i]) =>
        Extends(p, r) /\ p # r /\ \A j \in 1..k : Extends(p, on2[j]) => i = j
  BY <1>1, <1>2, <1>5, RouteBranches
<1>10. \A p \in Graph!Routes : Extends(p, r) /\ p # r => \E i \in 1..k : Extends(p, on2[i])
  BY <1>1, <1>2, <1>5, RouteGoesOn
<1>11. ASSUME NEW p \in Graph!Routes, Extends(p, r), NEW i \in DOMAIN on \ {1}, Extends(p, on[i])
       PROVE  FALSE
  BY <1>1, <1>11 DEF Ahead
<1>12. Ahead(on2, next)
  <2>1. ASSUME NEW i \in DOMAIN on2
        PROVE  /\ on2[i] \in Graph!Routes /\ Graph!Ends(on2[i], next[i].node)
               /\ Cardinality(DOMAIN on2[i]) = next[i].depth + 1
    <3>1. CASE i \in 1..k
      <4>1. next[i].node = list[i] /\ next[i].depth = ahead[1].depth + 1
        BY <1>4, <3>1, Zenon
      <4>2. QED
        BY <1>1, <1>5, <3>1, <4>1
    <3>2. CASE i \notin 1..k
      <4>1. next[i] = ahead[i - k + 1] /\ on2[i] = on[i - k + 1] /\ i - k + 1 \in DOMAIN on
        BY <1>4, <1>6, <1>8, <3>2
      <4>2. QED
        BY <4>1 DEF Ahead
    <3>3. QED
      BY <3>1, <3>2
  <2>2. ASSUME NEW i \in DOMAIN on2, NEW j \in DOMAIN on2, NEW p \in Graph!Routes,
               Extends(p, on2[i]), Extends(p, on2[j])
        PROVE  i = j
    <3>1. CASE i \in 1..k /\ j \in 1..k
      BY <1>9, <2>2, <3>1
    <3>2. CASE i \in 1..k /\ j \notin 1..k
      BY <1>6, <1>9, <1>11, <2>2, <3>2
    <3>3. CASE i \notin 1..k /\ j \in 1..k
      BY <1>6, <1>9, <1>11, <2>2, <3>3
    <3>4. CASE i \notin 1..k /\ j \notin 1..k
      <4>1. i - k + 1 = j - k + 1
        BY <1>6, <2>2, <3>4 DEF Ahead
      <4>2. QED
        BY <1>8, <4>1
    <3>5. QED
      BY <3>1, <3>2, <3>3, <3>4
  <2>3. QED
    BY <1>4, <1>8, <2>1, <2>2 DEF Ahead
<1>13. Seen(on2) = Seen(on) \cup {r}
  <2>1. ASSUME NEW p \in Seen(on), NEW i \in DOMAIN on2 PROVE ~Extends(p, on2[i])
    <3>1. p \in Graph!Routes /\ \A j \in DOMAIN on : ~Extends(p, on[j])
      BY DEF Seen
    <3>2. QED
      BY <1>1, <1>6, <1>9, <3>1
  <2>2. ASSUME NEW i \in DOMAIN on2 PROVE ~Extends(r, on2[i])
    BY <1>1, <1>6, <1>9, <1>11, ExtendsItself
  <2>3. ASSUME NEW p \in Seen(on2), p # r, NEW i \in DOMAIN on PROVE ~Extends(p, on[i])
    <3>1. p \in Graph!Routes /\ \A j \in DOMAIN on2 : ~Extends(p, on2[j])
      BY DEF Seen
    <3>2. CASE i = 1
      BY <1>5, <1>10, <2>3, <3>1, <3>2
    <3>3. CASE i # 1
      BY <1>7, <3>1, <3>3
    <3>4. QED
      BY <3>2, <3>3
  <2>4. Seen(on) \subseteq Seen(on2)
    BY <2>1 DEF Seen
  <2>5. r \in Seen(on2)
    BY <1>1, <2>2 DEF Seen
  <2>6. Seen(on2) \subseteq Seen(on) \cup {r}
    BY <2>3 DEF Seen
  <2>7. QED
    BY <2>4, <2>5, <2>6
<1>14. QED
  BY <1>12, <1>13 DEF next

-----------------------------------------------------------------------------

(* The instance of the module counts as the module does.                   *)
LEMMA GraphCounts == \A S : Graph!Cardinality(S) = Cardinality(S)
BY DEF Graph!Cardinality, Cardinality

(* The inductive invariant: the walk is between its two ends, or has said  *)
(* what is so.                                                             *)
WalkInv ==
  /\ Cardinality(Graph!Range(leaves)) = Len(leaves)
  /\ verdict = "open" => Walked(stack, visited, leaves)
  /\ Graph!WalkExact

GraphInv ==
  /\ Graph!TypeOK /\ stack \in Seq(Descriptors)
  /\ GraphShape /\ WalkInv

(* What the walk has when nothing is left to visit.                        *)
LEMMA AllVisited ==
  ASSUME GraphInv, verdict = "open", stack = <<>>
  PROVE  Behind(Graph!Routes, visited, leaves)
<1>1. PICK on : Ahead(on, <<>>) /\ Behind(Seen(on), visited, leaves)
  BY DEF GraphInv, WalkInv, Walked
<1>2. Seen(on) = Graph!Routes
  BY <1>1 DEF Ahead, Seen
<1>3. QED
  BY <1>1, <1>2

(* With every route behind, what is left to decide is validate_complete_   *)
(* graph's: the limits and the leaves hold already.                        *)
LEMMA GraphFinish ==
  ASSUME GraphInv, Graph!Finish
  PROVE  /\ verdict' = "accepted" => Graph!SingleImage
         /\ verdict' = "rejected" => ~Graph!SingleImage
<1>1. Behind(Graph!Routes, visited, leaves) /\ visited <= limit
  BY AllVisited, InstancesAssumption DEF Graph!Finish, GraphInv, Graph!TypeOK, Graph!OciGraphAssumption
<1>2. Graph!Range(leaves) \subseteq Graph!Nodes /\ IsFiniteSet(Graph!Range(leaves))
  <2>1. Graph!Range(leaves) \subseteq Graph!Nodes
    BY DEF GraphInv, Graph!TypeOK, Graph!Range
  <2>2. QED
    BY <2>1, NodesFinite, FS_Subset
<1>3. \A n \in Graph!Nodes : n \in Graph!Range(leaves) <=> Leaf(n) /\ Graph!RoutesTo(n) # {}
  BY <1>1, <1>2 DEF Behind, Graph!RoutesTo
<1>4. Graph!Images = Graph!Reached({"image"}) /\ Graph!Attestations = Graph!Reached({"attestation"})
  BY <1>2, <1>3 DEF Graph!Images, Graph!Attestations, Graph!Reached, Leaf
<1>5. Cardinality(Graph!Images) = 1 <=> \E i : Graph!Images = {i}
  <2>1. IsFiniteSet(Graph!Images)
    BY <1>2, FS_Subset DEF Graph!Images
  <2>2. QED
    BY <2>1, FS_Singleton
<1>6. Graph!Complete <=>
        \E i \in Graph!Reached({"image"}) :
          /\ Graph!Reached({"image"}) = {i}
          /\ \A a \in Graph!Reached({"attestation"}) : archive[a].subject = i
  <2>1. ASSUME NEW i, Graph!Images = {i}
        PROVE  (\A a \in Graph!Attestations : archive[a].subject \in Graph!Images)
                 <=> \A a \in Graph!Attestations : archive[a].subject = i
    BY <2>1
  <2>2. Graph!Complete <=>
          \E i \in Graph!Images :
            Graph!Images = {i} /\ \A a \in Graph!Attestations : archive[a].subject = i
    <3>1. CASE \E i : Graph!Images = {i}
      <4>1. PICK i : Graph!Images = {i}
        BY <3>1
      <4>2. i \in Graph!Images /\ \A j : Graph!Images = {j} => j = i
        BY <4>1
      <4>3. QED
        BY <1>5, <2>1, <4>1, <4>2, GraphCounts DEF Graph!Complete
    <3>2. CASE ~\E i : Graph!Images = {i}
      BY <1>5, <3>2, GraphCounts, Zenon DEF Graph!Complete
    <3>3. QED
      BY <3>1, <3>2
  <2>3. QED
    BY <1>4, <2>2, Zenon
<1>7. Cardinality(Graph!Routes) <= limit /\ \A r \in Graph!Routes : Cardinality(DOMAIN r) <= MaxDepth + 1
  BY <1>1 DEF Behind
<1>8. \A n \in Graph!Reached({"image", "attestation"}) : \A r, s \in Graph!RoutesTo(n) : r = s
  BY <1>1 DEF Behind, Graph!Reached, Graph!RoutesTo, Leaf
<1>9. \A n \in Graph!Reached({"image", "attestation"}) : archive[n].fit
  BY <1>1 DEF Behind, Graph!Reached, Graph!RoutesTo, Leaf, Graph!FitLeaf
<1>10. Graph!SingleImage <=> Graph!Complete
  BY <1>6, <1>7, <1>8, <1>9, GraphCounts, Zenon DEF Graph!SingleImage
<1>11. QED
  BY <1>10 DEF Graph!Finish

(* Each refusal names what is wrong with the graph: a route too long, one  *)
(* route more than the limit, an unfit manifest, one with two routes.  *)
LEMMA GraphFail == ASSUME GraphInv, Graph!Fail PROVE ~Graph!SingleImage
<1> DEFINE n == stack[1].node
<1>1. PICK on : Ahead(on, stack) /\ Behind(Seen(on), visited, leaves)
  BY DEF GraphInv, WalkInv, Walked, Graph!Fail
<1> DEFINE r == on[1]
<1>2. /\ r \in Graph!Routes /\ r \notin Seen(on) /\ Graph!Ends(r, n) /\ n \in Graph!Nodes
      /\ Cardinality(DOMAIN r) = stack[1].depth + 1 /\ stack[1].depth \in Nat
  BY <1>1, NextRoute DEF GraphInv, Graph!Fail
<1>3. limit \in Nat /\ visited \in Nat /\ MaxDepth \in Nat
  BY InstancesAssumption DEF GraphInv, Graph!TypeOK, Graph!OciGraphAssumption
<1>4. CASE ~(stack[1].depth <= MaxDepth)
  <2>1. Graph!SingleImage => Cardinality(DOMAIN r) <= MaxDepth + 1
    BY <1>2, GraphCounts DEF Graph!SingleImage
  <2>2. QED
    BY <1>2, <1>3, <1>4, <2>1
<1>5. CASE ~(visited < limit)
  <2>1. Seen(on) \subseteq Graph!Routes /\ Cardinality(Seen(on)) = visited
    BY <1>1 DEF Seen, Behind
  <2>2. visited + 1 <= Cardinality(Graph!Routes)
    BY <1>2, <1>3, <2>1, SeenOneMore
  <2>3. Cardinality(Graph!Routes) \in Nat
    BY RoutesFinite, FS_CardinalityType
  <2>4. Graph!SingleImage => Cardinality(Graph!Routes) <= limit
    BY GraphCounts DEF Graph!SingleImage
  <2>5. QED
    BY <1>3, <1>5, <2>2, <2>3, <2>4
<1>6. CASE Leaf(n) /\ ~Graph!FitLeaf(n)
  <2>1. r \in Graph!RoutesTo(n)
    BY <1>2 DEF Graph!RoutesTo
  <2>2. n \in Graph!Reached({"image", "attestation"}) /\ ~archive[n].fit
    BY <1>2, <1>6, <2>1 DEF Graph!Reached, GraphInv, GraphShape, Leaf, Graph!FitLeaf
  <2>3. QED
    BY <2>2 DEF Graph!SingleImage
<1>7. CASE Leaf(n) /\ ~Graph!NewLeaf(n)
  <2>1. PICK p \in Seen(on) : Graph!Ends(p, n)
    BY <1>1, <1>7 DEF Behind, Graph!NewLeaf
  <2>2. p \in Graph!RoutesTo(n) /\ r \in Graph!RoutesTo(n) /\ p # r
    BY <1>2, <2>1 DEF Seen, Graph!RoutesTo
  <2>3. n \in Graph!Reached({"image", "attestation"})
    BY <1>2, <1>7, <2>2 DEF Graph!Reached, GraphInv, GraphShape, Leaf
  <2>4. QED
    BY <2>2, <2>3 DEF Graph!SingleImage
<1>8. QED
  BY <1>4, <1>5, <1>6, <1>7 DEF Graph!Fail, Graph!WithinLimits, Leaf

LEMMA GraphInit == ASSUME Graph!Init PROVE GraphInv
<1>1. /\ limit \in Limits /\ Limits \subseteq Nat /\ visited = 0 /\ leaves = <<>> /\ verdict = "open"
      /\ stack = Graph!At(root, 0) /\ root \in Graph!Lists(Graph!Nodes)
  BY InstancesAssumption DEF Graph!Init, Graph!OciGraphAssumption
<1>2. stack \in Seq(Descriptors)
  BY <1>1, GraphLists, GraphAt
<1>3. GraphShape
  <2>1. \A n \in Graph!Nodes : archive[n] \in Graph!Content(n)
    BY DEF Graph!Init
  <2>2. ASSUME NEW n \in Graph!Nodes
        PROVE  /\ archive[n].type \in {"index", "image", "attestation"}
               /\ archive[n].type = "index" => archive[n].manifests \in Graph!Lists(Graph!Above(n))
    BY <2>1 DEF Graph!Content, Graph!Index, Graph!Image, Graph!Attestation
  <2>3. QED
    BY <1>1, <2>2 DEF GraphShape
<1>4. Graph!TypeOK
  <2>1. \A i \in DOMAIN stack : stack[i] \in Descriptors
    BY <1>2
  <2>2. QED
    BY <1>1, <2>1 DEF Graph!TypeOK, Descriptors
<1>5. WalkInv
  <2>1. Walked(stack, visited, leaves)
    BY <1>1, <1>3, WalkStarts
  <2>2. Graph!Range(leaves) = {}
    BY <1>1 DEF Graph!Range
  <2>3. QED
    BY <1>1, <2>1, <2>2, FS_EmptySet DEF WalkInv, Graph!WalkExact
<1>6. QED
  BY <1>2, <1>3, <1>4, <1>5 DEF GraphInv

(* The archive is read only: what it is does not change along the walk.    *)
LEMMA ArchiveStays ==
  ASSUME UNCHANGED <<limit, archive, root>>
  PROVE  /\ GraphShape' <=> GraphShape
         /\ Graph!SingleImage' <=> Graph!SingleImage
         /\ Walked(stack', visited', leaves') => Walked(stack, visited, leaves)'
<1>1. Graph!Routes' = Graph!Routes
  BY DEF Graph!Routes, Graph!Entered, Graph!Names, Graph!Ways
<1>2. GraphShape' <=> GraphShape
  BY DEF GraphShape
<1>3. Graph!SingleImage' <=> Graph!SingleImage
  BY <1>1 DEF Graph!SingleImage, Graph!Reached, Graph!RoutesTo
<1>4. Walked(stack', visited', leaves') => Walked(stack, visited, leaves)'
  BY <1>1 DEF Walked, Ahead, Behind, Seen, Leaf, Graph!FitLeaf
<1>5. QED
  BY <1>2, <1>3, <1>4

LEMMA GraphTypes ==
  ASSUME GraphInv, Graph!Next
  PROVE  /\ Graph!TypeOK' /\ stack' \in Seq(Descriptors)
         /\ UNCHANGED <<limit, archive, root>>
<1>1. /\ limit \in Limits /\ Limits \subseteq Nat /\ visited \in 0..limit /\ leaves \in Seq(Graph!Nodes)
      /\ stack \in Seq(Descriptors)
  BY InstancesAssumption DEF GraphInv, Graph!TypeOK, Graph!OciGraphAssumption
<1>2. UNCHANGED <<limit, archive, root>> /\ verdict' \in {"open", "accepted", "rejected"}
  BY DEF GraphInv, Graph!TypeOK, Graph!Next, Graph!Walk, Graph!Step, Graph!WalkIndex,
         Graph!WalkLeaf, Graph!Fail, Graph!Reject, Graph!Finish
<1>3. /\ visited' \in 0..limit /\ leaves' \in Seq(Graph!Nodes) /\ stack' \in Seq(Descriptors)
  <2>1. CASE Graph!Walk
    <3>1. stack # <<>> /\ visited < limit
      BY <2>1 DEF Graph!Walk, Graph!Step, Graph!WithinLimits
    <3>2. PICK d : d = stack[1]
      OBVIOUS
    <3>3. d \in Descriptors /\ d.node \in Graph!Nodes /\ d.depth + 1 \in Nat /\ Tail(stack) \in Seq(Descriptors)
      <4>1. stack[1] \in Descriptors /\ Tail(stack) \in Seq(Descriptors)
        BY <1>1, <3>1
      <4>2. QED
        BY <3>2, <4>1 DEF Descriptors
    <3>4. CASE Graph!WalkIndex
      <4>1. /\ archive[d.node].type = "index" /\ visited' = visited + 1 /\ leaves' = leaves
            /\ stack' = Graph!At(archive[d.node].manifests, d.depth + 1) \o Tail(stack)
        BY <3>2, <3>4 DEF Graph!WalkIndex
      <4>2. Graph!At(archive[d.node].manifests, d.depth + 1) \in Seq(Descriptors)
        <5>1. /\ archive[d.node].manifests \in Graph!Lists(Graph!Above(d.node))
              /\ Graph!Above(d.node) \subseteq Graph!Nodes
          BY <3>3, <4>1 DEF GraphInv, GraphShape, Graph!Above
        <5>2. QED
          BY <3>3, <5>1, GraphLists, GraphAt
      <4>3. QED
        BY <1>1, <3>1, <3>3, <4>1, <4>2
    <3>5. CASE Graph!WalkLeaf
      <4>1. leaves' = Append(leaves, d.node) /\ stack' = Tail(stack) /\ visited' = visited + 1
        BY <3>2, <3>5 DEF Graph!WalkLeaf
      <4>2. QED
        BY <1>1, <3>1, <3>3, <4>1
    <3>6. QED
      BY <2>1, <3>4, <3>5 DEF Graph!Walk, Graph!Step
  <2>2. CASE Graph!Fail \/ Graph!Finish
    BY <1>1, <2>2 DEF Graph!Fail, Graph!Reject, Graph!Finish
  <2>3. QED
    BY <2>1, <2>2 DEF Graph!Next
<1>4. \A i \in DOMAIN stack' : stack'[i].node \in Graph!Nodes /\ stack'[i].depth \in Nat
  <2>1. \A i \in DOMAIN stack' : stack'[i] \in Descriptors
    BY <1>3
  <2>2. QED
    BY <2>1 DEF Descriptors
<1>5. QED
  BY <1>1, <1>2, <1>3, <1>4 DEF Graph!TypeOK

LEMMA GraphWalk ==
  ASSUME GraphInv, Graph!Walk
  PROVE  /\ Walked(stack', visited', leaves') /\ verdict' = "open"
         /\ Cardinality(Graph!Range(leaves')) = Len(leaves')
<1> DEFINE n == stack[1].node
<1>1. /\ stack \in Seq(Descriptors) /\ stack # <<>> /\ GraphShape /\ visited \in Nat
      /\ stack[1].depth <= MaxDepth /\ verdict = "open" /\ leaves \in Seq(Graph!Nodes)
      /\ Cardinality(Graph!Range(leaves)) = Len(leaves)
  BY InstancesAssumption DEF GraphInv, WalkInv, Graph!TypeOK, Graph!OciGraphAssumption, Graph!Walk, Graph!Step,
     Graph!WithinLimits
<1>2. PICK on : Ahead(on, stack) /\ Behind(Seen(on), visited, leaves)
  BY <1>1 DEF GraphInv, WalkInv, Walked
<1>3. CASE Graph!WalkIndex
  <2>1. /\ ~Leaf(n) /\ visited' = visited + 1 /\ leaves' = leaves /\ verdict' = verdict
        /\ stack' = Graph!At(archive[n].manifests, stack[1].depth + 1) \o Tail(stack)
    BY <1>3 DEF Graph!WalkIndex, Leaf
  <2>2. PICK on2 : Ahead(on2, stack') /\ Seen(on2) = Seen(on) \cup {on[1]}
    BY <1>1, <1>2, <2>1, WalkIndexOn
  <2>3. QED
    BY <1>1, <1>2, <2>1, <2>2, WalkOn
<1>4. CASE Graph!WalkLeaf
  <2>1. /\ Leaf(n) /\ Graph!FitLeaf(n) /\ n \notin Graph!Range(leaves)
        /\ leaves' = Append(leaves, n) /\ stack' = Tail(stack) /\ visited' = visited + 1
        /\ verdict' = verdict
    BY <1>4 DEF Graph!WalkLeaf, Graph!NewLeaf, Leaf
  <2>2. PICK on2 : Ahead(on2, stack') /\ Seen(on2) = Seen(on) \cup {on[1]}
    BY <1>1, <1>2, <2>1, WalkLeafOn
  <2>3. Graph!Range(leaves') = Graph!Range(leaves) \cup {n} /\ Len(leaves') = Len(leaves) + 1
    <3>1. n \in Graph!Nodes
      BY <1>1, <1>2, NextRoute
    <3>2. /\ Len(leaves') = Len(leaves) + 1 /\ DOMAIN leaves' = 1..(Len(leaves) + 1)
          /\ DOMAIN leaves = 1..Len(leaves) /\ Len(leaves) \in Nat
          /\ \A i \in 1..Len(leaves) : leaves'[i] = leaves[i]
          /\ leaves'[Len(leaves) + 1] = n
      BY <1>1, <2>1, <3>1
    <3>3. QED
      BY <3>2 DEF Graph!Range
  <2>4. Cardinality(Graph!Range(leaves')) = Len(leaves')
    <3>1. Graph!Range(leaves) \subseteq Graph!Nodes
      BY <1>1 DEF Graph!Range
    <3>2. IsFiniteSet(Graph!Range(leaves))
      BY <3>1, NodesFinite, FS_Subset
    <3>3. QED
      BY <1>1, <2>1, <2>3, <3>2, FS_AddElement
  <2>5. QED
    BY <1>1, <1>2, <2>1, <2>2, <2>3, <2>4, WalkOn
<1>5. QED
  BY <1>3, <1>4 DEF Graph!Walk, Graph!Step

LEMMA GraphNext == ASSUME GraphInv, Graph!Next PROVE GraphInv'
<1>1. /\ Graph!TypeOK' /\ stack' \in Seq(Descriptors) /\ GraphShape'
      /\ (Graph!SingleImage' <=> Graph!SingleImage)
  BY GraphTypes, ArchiveStays DEF GraphInv
<1>2. WalkInv'
  <2>1. CASE Graph!Walk
    BY <2>1, GraphWalk, GraphTypes, ArchiveStays DEF WalkInv, Graph!WalkExact
  <2>2. CASE Graph!Fail
    BY <1>1, <2>2, GraphFail DEF GraphInv, WalkInv, Graph!WalkExact, Graph!Fail, Graph!Reject
  <2>3. CASE Graph!Finish
    BY <1>1, <2>3, GraphFinish, GraphCounts DEF GraphInv, WalkInv, Graph!WalkExact, Graph!Finish
  <2>4. QED
    BY <2>1, <2>2, <2>3 DEF Graph!Next
<1>3. QED
  BY <1>1, <1>2 DEF GraphInv

LEMMA GraphStays ==
  ASSUME GraphInv, UNCHANGED <<limit, archive, root, stack, visited, leaves, verdict>>
  PROVE  GraphInv'
<1>1. Walked(stack', visited', leaves') <=> Walked(stack, visited, leaves)
  OBVIOUS
<1>2. WalkInv'
  BY <1>1, ArchiveStays DEF GraphInv, WalkInv, Graph!WalkExact
<1>3. QED
  BY <1>2, ArchiveStays DEF GraphInv, Graph!TypeOK
=============================================================================
