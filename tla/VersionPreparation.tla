------------------------ MODULE VersionPreparation ------------------------
(***************************************************************************)
(* Preparing the next base version through a pull request                  *)
(* (scripts/prepare_version.py, prepare with pull_request): choose the     *)
(* version from the tags, find and verify the topic branch and the pull    *)
(* request of an earlier attempt, commit the synchronized version files on *)
(* top of both the topic and the default branch, push without force and    *)
(* open the pull request unless there is one.                              *)
(*                                                                         *)
(* Operators run it at the same time, on their own clones; each can fail   *)
(* between any two requests and start again. People commit to the topic,   *)
(* merge or close the pull request, and push to the default branch. A      *)
(* merge squashes and deletes the topic. X.Y.Z is a number; the version    *)
(* files are one line of one file, merged by Git's three-way rule; no tag  *)
(* is added, since a release could only add that of the base, which        *)
(* excludes no version above it.                                           *)
(***************************************************************************)
EXTENDS Naturals, FiniteSets, Sequences, SequencesExt

CONSTANTS
  Operators,   \* people who run prepare-version
  Human,       \* anybody else who commits
  Occupied,    \* versions with a stable tag, in whatever history
  MaxVersion,  \* bound: base versions
  MaxRev,      \* bound: contents of the default branch, version files aside
  MaxEdits     \* bound: commits of other people that topics hold at a time

ASSUME PreparationAssumption ==
  /\ Human \notin Operators
  /\ Occupied \subseteq 1..MaxVersion
  /\ MaxVersion \in Nat \ {0} /\ MaxRev \in Nat \ {0} /\ MaxEdits \in Nat

Versions == 1..MaxVersion

(* A commit of a topic: who made it, and the content and the base version  *)
(* of the default branch's commit that it descends from. The command only  *)
(* changes the version line of that commit, to the topic's version; a      *)
(* person's commit also edits something else.                              *)
Commit == [by : Operators \cup {Human}, onto : 1..MaxRev, from : Versions]
Topic  == Seq(Commit)

(* What an operator has read: the default branch; then the version it      *)
(* prepares, whether that has an open pull request and at which head, and  *)
(* the topic.                                                              *)
View  == [rev : 1..MaxRev, base : Versions, target : Versions,
          open : BOOLEAN, head : Topic, topic : Topic]
Blank == [rev |-> 1, base |-> 1, target |-> 1, open |-> FALSE, head |-> <<>>, topic |-> <<>>]
Steps == {"start", "tags", "pulls", "topic", "build", "push", "create"}

VARIABLES
  pc,      \* what each operator does next
  view,    \* what it has read and still needs
  rev,     \* content of the default branch, a counter
  base,    \* its base version
  topics,  \* the branch release/version-V of each version, <<>> if none
  pulls    \* versions with an open pull request

remote == <<rev, base, topics, pulls>>
vars   == <<pc, view, remote>>

Init ==
  /\ pc = [o \in Operators |-> "start"]
  /\ view = [o \in Operators |-> Blank]
  /\ rev = 1 /\ base = 1
  /\ topics = [v \in Versions |-> <<>>]
  /\ pulls = {}

Goto(o, label) == pc' = [pc EXCEPT ![o] = label]
See(o, v)      == view' = [view EXCEPT ![o] = v]

-----------------------------------------------------------------------------
(* The version.                                                            *)

(* The checkout is at the default branch as it is fetched.                 *)
Fetch(o) ==
  /\ pc[o] = "start"
  /\ See(o, [Blank EXCEPT !.rev = rev, !.base = base])
  /\ Goto(o, "tags")
  /\ UNCHANGED remote

(* Plausible bug: the choice is not compared with the base.                *)
AnyUntagged(v) == Versions \ Occupied

(* Whether requested or bumped, the choice is not a downgrade, and no tag  *)
(* occupies it; next-patch keeps the base or passes over the tags.         *)
Eligible(v) == {n \in Versions \ Occupied : n >= v.base}

ChooseVersion(o) ==
  /\ pc[o] = "tags"
  /\ \E n \in Eligible(view[o]) : See(o, [view[o] EXCEPT !.target = n])
  /\ Goto(o, "pulls")
  /\ UNCHANGED remote

-----------------------------------------------------------------------------
(* The topic of an earlier attempt.                                        *)

ListPulls(o) ==
  /\ pc[o] = "pulls"
  /\ LET n == view[o].target IN
     See(o, [view[o] EXCEPT !.open = n \in pulls, !.head = topics[n]])
  /\ Goto(o, "topic")
  /\ UNCHANGED remote

(* Plausible bug: the topic's content is not compared with its base.       *)
OwnedByName(topic, v) == Last(topic).onto <= v.rev

(* Plausible bug: the topic is compared with its own base, not with the    *)
(* one it shares with the checkout.                                        *)
OwnedByItself(topic, v) == Last(topic).by # Human

(* verify_owned_topic: but for the version line, the topic is the commit   *)
(* that the checkout and it both descend from.                             *)
Owned(topic, v) == Last(topic).by # Human /\ Last(topic).onto <= v.rev

ReadTopic(o) ==
  /\ pc[o] = "topic"
  /\ LET v == view[o]
         topic == topics[v.target]
     IN /\ v.open => topic # <<>> /\ topic = v.head
        /\ topic # <<>> => Owned(topic, v)
        /\ See(o, [v EXCEPT !.head = <<>>, !.topic = topic])
  /\ Goto(o, "build")
  /\ UNCHANGED remote

-----------------------------------------------------------------------------
(* The commit and the pull request.                                        *)

(* Without an open pull request, a base that is prepared is left alone.    *)
Unchanged(v) == ~v.open /\ v.base = v.target

(* The new tree, the checkout's with the version line written, is not the  *)
(* topic's.                                                                *)
Updated(v) == v.topic = <<>> \/ Last(v.topic).onto # v.rev

Finish(o, ended) ==
  IF ended THEN Goto(o, "start") /\ See(o, Blank)
           ELSE Goto(o, "create") /\ See(o, [Blank EXCEPT !.target = view[o].target])

Build(o) ==
  /\ pc[o] = "build"
  /\ LET v == view[o] IN
     IF ~Unchanged(v) /\ Updated(v)
     THEN Goto(o, "push") /\ UNCHANGED view
     ELSE Finish(o, v.open \/ Unchanged(v))
  /\ UNCHANGED remote

Prepared(o) ==
  Append(view[o].topic, [by |-> o, onto |-> view[o].rev, from |-> view[o].base])

(* Plausible bug: the push is forced.                                      *)
FastForwardForced(o) == TRUE

(* Git refuses a push that is not a descendant of the remote branch.       *)
FastForward(o) == IsPrefix(topics[view[o].target], Prepared(o))

Push(o) ==
  /\ pc[o] = "push"
  /\ FastForward(o)
  /\ topics' = [topics EXCEPT ![view[o].target] = Prepared(o)]
  /\ Finish(o, view[o].open)
  /\ UNCHANGED <<rev, base, pulls>>

(* GitHub refuses a second pull request of the same branches.              *)
CreatePull(o) ==
  /\ pc[o] = "create"
  /\ view[o].target \notin pulls /\ topics[view[o].target] # <<>>
  /\ pulls' = pulls \cup {view[o].target}
  /\ Finish(o, TRUE)
  /\ UNCHANGED <<rev, base, topics>>

(* The command fails between two requests; its worktree is removed, and it *)
(* can be run again.                                                       *)
Fail(o) ==
  /\ pc[o] # "start"
  /\ Goto(o, "start") /\ See(o, Blank)
  /\ UNCHANGED remote

-----------------------------------------------------------------------------
(* Other people.                                                           *)

PushMain ==
  /\ rev < MaxRev /\ rev' = rev + 1
  /\ UNCHANGED <<pc, view, base, topics, pulls>>

Edits == {e \in Versions \X (1..MaxEdits + MaxRev) :
            e[2] \in DOMAIN topics[e[1]] /\ topics[e[1]][e[2]].by = Human}

(* A person commits to a topic, or opens one, above the base.              *)
PushTopic(n) ==
  /\ Cardinality(Edits) < MaxEdits
  /\ topics[n] = <<>> => n > base
  /\ LET on == IF topics[n] = <<>> THEN [onto |-> rev, from |-> base] ELSE Last(topics[n])
     IN topics' = [topics EXCEPT
                     ![n] = Append(@, [by |-> Human, onto |-> on.onto, from |-> on.from])]
  /\ UNCHANGED <<pc, view, rev, base, pulls>>

(* Git merges a line that one side has not changed, or both alike.         *)
Mergeable(n) == Last(topics[n]).from \in {base, n} \/ base = n

Merge(n) ==
  /\ n \in pulls /\ topics[n] # <<>> /\ Mergeable(n)
  /\ base' = IF Last(topics[n]).from = base THEN n ELSE base
  /\ IF Last(topics[n]).by = Human THEN rev < MaxRev /\ rev' = rev + 1 ELSE rev' = rev
  /\ pulls' = pulls \ {n}
  /\ topics' = [topics EXCEPT ![n] = <<>>]
  /\ UNCHANGED <<pc, view>>

Close(n) ==
  /\ n \in pulls
  /\ pulls' = pulls \ {n}
  /\ UNCHANGED <<pc, view, rev, base, topics>>

Prepare(o) ==
  \/ Fetch(o) \/ ChooseVersion(o) \/ ListPulls(o) \/ ReadTopic(o)
  \/ Build(o) \/ Push(o) \/ CreatePull(o) \/ Fail(o)

Next ==
  \/ \E o \in Operators : Prepare(o)
  \/ PushMain
  \/ \E n \in Versions : PushTopic(n) \/ Merge(n) \/ Close(n)

Spec == Init /\ [][Next]_vars

-----------------------------------------------------------------------------
(* Properties.                                                             *)

(* Every variable has its type, and an operator prepares no version below  *)
(* the base it has read.                                                   *)
TypeOK ==
  /\ pc \in [Operators -> Steps]
  /\ view \in [Operators -> View]
  /\ \A o \in Operators : pc[o] \notin {"start", "tags"} => view[o].target >= view[o].base
  /\ rev \in 1..MaxRev /\ base \in Versions
  /\ topics \in [Versions -> Topic]
  /\ pulls \subseteq Versions

(* A topic is never rewritten, whoever pushes to it while the command runs *)
(* (test_racing_human_push_is_never_force_overwritten).                    *)
TopicsOnlyGrow ==
  [][\A n \in Versions : topics'[n] = <<>> \/ IsPrefix(topics[n], topics'[n])]_topics

(* The command never commits on top of somebody's edits, which its tree    *)
(* would undo ("Reject any existing branch content beyond its declared     *)
(* version inputs"), not even when the topic is edited, deleted or opened  *)
(* while it runs.                                                          *)
EditsNotUndone ==
  \A n \in Versions : \A i \in 1..Len(topics[n]) - 1 :
    topics[n][i].by = Human => topics[n][i + 1].by = Human

(* Nor does a checkout that is behind take back what a topic already has   *)
(* of the default branch (test_existing_pr_advances_with_main_and_new_     *)
(* policy_owned_field).                                                    *)
MainNotUndone ==
  \A n \in Versions : \A i \in 1..Len(topics[n]) - 1 :
    topics[n][i].onto <= topics[n][i + 1].onto

(* Whatever versions are prepared at the same time and merged in whatever  *)
(* order, the base version of the default branch never decreases           *)
(* ("Preparation must not downgrade the active release base").             *)
BaseNeverDecreases == [][base' >= base]_base

(* A command that finds an open pull request, and everything as it has     *)
(* read it when it ends, leaves a pull request that merges ("uses the      *)
(* current main tree plus the same typed projection, avoiding textual      *)
(* conflicts in shared manifests").                                        *)
RefreshedMerges ==
  [][\A o \in Operators, n \in pulls :
       /\ pc[o] \in {"build", "push"} /\ pc'[o] = "start"
       /\ view[o] = [rev |-> rev, base |-> base, target |-> n, open |-> TRUE,
                     head |-> <<>>, topic |-> topics[n]]
       /\ Updated(view[o]) => topics'[n] # topics[n]
       => Mergeable(n)']_vars
=============================================================================
