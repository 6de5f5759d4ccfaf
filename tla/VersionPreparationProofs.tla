---------------------- MODULE VersionPreparationProofs ----------------------
(***************************************************************************)
(* Proofs about VersionPreparation, for any set of operators, any versions *)
(* and any occupied tags.                                                  *)
(***************************************************************************)
EXTENDS VersionPreparation, TLAPS

(* Along a topic no edit is undone, nor what it has of the default branch. *)
Kept(s) ==
  \A i \in 1..Len(s) - 1 :
    /\ s[i].by = Human => s[i + 1].by = Human
    /\ s[i].onto <= s[i + 1].onto

(* The topic of version n raises the base that its last commit is from.    *)
TopicOK(n, s) == s \in Topic /\ Kept(s) /\ (s # <<>> => Last(s).from <= n)

(* An operator that is about to commit has read a topic it owns.           *)
ViewOK(label, v) ==
  /\ label \in Steps /\ v \in View /\ Kept(v.topic)
  /\ label \notin {"start", "tags"} => v.target >= v.base
  /\ label \in {"build", "push"} /\ v.topic # <<>> => Owned(v.topic, v)

Inv ==
  /\ TypeOK
  /\ \A o \in Operators : ViewOK(pc[o], view[o])
  /\ \A n \in Versions : TopicOK(n, topics[n])

-----------------------------------------------------------------------------
(* Sequences.                                                              *)

(* A sequence is a prefix of itself, and of itself with one element more.  *)
LEMMA Grows ==
  ASSUME NEW S, NEW s \in Seq(S), NEW e \in S
  PROVE  IsPrefix(s, s) /\ IsPrefix(s, Append(s, e))
<1>1. Len(s) \in Nat /\ Len(Append(s, e)) = Len(s) + 1
  OBVIOUS
<1>2. SubSeq(Append(s, e), 1, Len(s)) = SubSeq(s, 1, Len(s))
  OBVIOUS
<1>3. QED
  BY <1>1, <1>2 DEF IsPrefix

(* A commit on top of a topic keeps what the last commit keeps.            *)
LEMMA KeptAppend ==
  ASSUME NEW s \in Topic, Kept(s), NEW c \in Commit,
         s # <<>> => (Last(s).by = Human => c.by = Human) /\ Last(s).onto <= c.onto
  PROVE  Append(s, c) \in Topic /\ Kept(Append(s, c)) /\ Last(Append(s, c)) = c
<1> DEFINE t == Append(s, c)
<1>1. /\ t \in Topic /\ Len(s) \in Nat /\ Len(t) = Len(s) + 1 /\ t[Len(s) + 1] = c
      /\ \A i \in 1..Len(s) : t[i] = s[i]
  BY DEF Topic
<1>2. ASSUME NEW i \in 1..Len(t) - 1
      PROVE  (t[i].by = Human => t[i + 1].by = Human) /\ t[i].onto <= t[i + 1].onto
  <2>1. CASE i = Len(s)
    <3>1. t[i] = Last(s) /\ t[i + 1] = c /\ s # <<>>
      BY <1>1, <1>2, <2>1 DEF Last
    <3>2. QED
      BY <3>1
  <2>2. CASE i # Len(s)
    <3>1. i \in 1..Len(s) - 1 /\ t[i] = s[i] /\ t[i + 1] = s[i + 1]
      BY <1>1, <1>2, <2>2
    <3>2. QED
      BY <3>1 DEF Kept
  <2>3. QED
    BY <2>1, <2>2
<1>3. Kept(t) /\ Last(t) = c
  BY <1>1, <1>2 DEF Kept, Last
<1>4. QED
  BY <1>1, <1>3

LEMMA KeptEmpty == <<>> \in Topic /\ Kept(<<>>)
  BY DEF Topic, Kept

-----------------------------------------------------------------------------
(* What an operator's step does to its own view.                           *)

LEMMA BlankOK ==
  /\ Blank \in View /\ Blank.topic = <<>>
  /\ ViewOK("start", Blank)
  /\ \A n \in Versions : ViewOK("create", [Blank EXCEPT !.target = n])
<1>1. 1 \in Versions /\ 1 \in 1..MaxRev
  BY PreparationAssumption DEF Versions
<1>2. Blank \in View /\ Blank.topic = <<>>
  BY <1>1, KeptEmpty DEF Blank, View
<1>3. ViewOK("start", Blank)
  BY <1>2, KeptEmpty DEF ViewOK, Steps
<1>4. ASSUME NEW n \in Versions PROVE ViewOK("create", [Blank EXCEPT !.target = n])
  <2>1. n >= 1
    BY DEF Versions
  <2>2. [Blank EXCEPT !.target = n] \in View
    BY <1>1, KeptEmpty DEF Blank, View
  <2>3. QED
    BY <2>1, <2>2, KeptEmpty DEF ViewOK, Steps, Blank
<1>5. QED
  BY <1>2, <1>3, <1>4

(* However the command ends or goes on to create, its view is in order.    *)
LEMMA FinishOK ==
  ASSUME Inv, NEW o \in Operators, NEW ended \in BOOLEAN, Finish(o, ended)
  PROVE  \E label \in Steps, w \in View : Goto(o, label) /\ See(o, w) /\ ViewOK(label, w)
<1>1. view[o].target \in Versions
  BY DEF Inv, ViewOK, View
<1>2. QED
  BY <1>1, BlankOK DEF Finish, ViewOK

LEMMA OperatorStep ==
  ASSUME Inv, NEW o \in Operators, Prepare(o)
  PROVE  \E label \in Steps, w \in View : Goto(o, label) /\ See(o, w) /\ ViewOK(label, w)
<1> DEFINE v == view[o]
<1>1. /\ v \in View /\ ViewOK(pc[o], v) /\ rev \in 1..MaxRev /\ base \in Versions
      /\ pc \in [Operators -> Steps] /\ view \in [Operators -> View]
      /\ topics \in [Versions -> Topic] /\ \A n \in Versions : Kept(topics[n])
  BY DEF Inv, TypeOK, ViewOK, TopicOK
<1>2. CASE Fetch(o)
  <2>1. [Blank EXCEPT !.rev = rev, !.base = base] \in View
    BY <1>1, BlankOK DEF View
  <2>2. ViewOK("tags", [Blank EXCEPT !.rev = rev, !.base = base])
    BY <2>1, KeptEmpty DEF ViewOK, Steps, Blank
  <2>3. QED
    BY <1>2, <2>1, <2>2 DEF Fetch, Steps
<1>3. CASE ChooseVersion(o)
  <2>1. PICK n \in Eligible(v) : See(o, [v EXCEPT !.target = n])
    BY <1>3 DEF ChooseVersion
  <2>2. n \in Versions /\ n >= v.base
    BY <2>1 DEF Eligible
  <2>3. [v EXCEPT !.target = n] \in View
    BY <1>1, <2>2 DEF View
  <2>4. ViewOK("pulls", [v EXCEPT !.target = n])
    BY <1>1, <2>2, <2>3 DEF ViewOK, Steps, View
  <2>5. QED
    BY <1>3, <2>1, <2>3, <2>4 DEF ChooseVersion, Steps
<1>4. CASE ListPulls(o)
  <2> DEFINE w == [v EXCEPT !.open = v.target \in pulls, !.head = topics[v.target]]
  <2>1. v.target \in Versions /\ topics[v.target] \in Topic
    BY <1>1 DEF View
  <2>2. w \in View
    <3>1. \A b \in BOOLEAN, t \in Topic : [v EXCEPT !.open = b, !.head = t] \in View
      BY <1>1 DEF View
    <3>2. (v.target \in pulls) \in BOOLEAN
      OBVIOUS
    <3>3. QED
      BY <2>1, <3>1, <3>2, Zenon
  <2>3. w.topic = v.topic /\ w.target = v.target /\ w.base = v.base
    BY <1>1 DEF View
  <2>4. ViewOK("topic", w)
    BY <1>1, <1>4, <2>2, <2>3 DEF ViewOK, Steps, ListPulls
  <2>5. QED
    BY <1>4, <2>2, <2>4 DEF ListPulls, Steps
<1>5. CASE ReadTopic(o)
  <2> DEFINE w == [v EXCEPT !.head = <<>>, !.topic = topics[v.target]]
  <2>1. v.target \in Versions /\ topics[v.target] \in Topic /\ Kept(topics[v.target])
    BY <1>1 DEF View
  <2>2. w \in View
    BY <1>1, <2>1, KeptEmpty DEF View
  <2>3. /\ w.topic = topics[v.target] /\ w.target = v.target /\ w.base = v.base /\ w.rev = v.rev
    BY <1>1 DEF View
  <2>4. w.topic # <<>> => Owned(w.topic, w)
    BY <1>5, <2>3 DEF ReadTopic, Owned
  <2>5. v.target >= v.base
    BY <1>1, <1>5 DEF ViewOK, ReadTopic
  <2>6. ViewOK("build", w)
    BY <2>1, <2>2, <2>3, <2>4, <2>5 DEF ViewOK, Steps
  <2>7. QED
    BY <1>5, <2>2, <2>6 DEF ReadTopic, Steps
<1>6. CASE Build(o)
  <2>1. CASE Goto(o, "push") /\ UNCHANGED view
    <3>1. See(o, v)
      BY <1>1, <2>1 DEF See
    <3>2. ViewOK("push", v)
      BY <1>1, <1>6 DEF ViewOK, Build, Steps
    <3>3. QED
      BY <1>1, <2>1, <3>1, <3>2 DEF Steps
  <2>2. CASE Finish(o, v.open \/ Unchanged(v))
    BY <2>2, FinishOK
  <2>3. QED
    BY <1>6, <2>1, <2>2 DEF Build
<1>7. CASE Push(o)
  <2>1. v.open \in BOOLEAN /\ Finish(o, v.open)
    BY <1>1, <1>7 DEF Push, View
  <2>2. QED
    BY <2>1, FinishOK
<1>8. CASE CreatePull(o)
  <2>1. Finish(o, TRUE)
    BY <1>8 DEF CreatePull
  <2>2. QED
    BY <2>1, FinishOK
<1>9. CASE Fail(o)
  BY <1>9, BlankOK DEF Fail, Steps
<1>10. QED
  BY <1>2, <1>3, <1>4, <1>5, <1>6, <1>7, <1>8, <1>9 DEF Prepare

-----------------------------------------------------------------------------
(* What a step does to the topics and to the default branch.               *)

(* A push of an operator puts one commit on top of the topic.              *)
LEMMA PreparedOK ==
  ASSUME Inv, NEW o \in Operators, pc[o] = "push"
  PROVE  view[o].target \in Versions /\ TopicOK(view[o].target, Prepared(o))
<1> DEFINE v == view[o]
           c == [by |-> o, onto |-> v.rev, from |-> v.base]
<1>1. /\ v \in View /\ Kept(v.topic) /\ v.target >= v.base
      /\ v.topic # <<>> => Last(v.topic).by # Human /\ Last(v.topic).onto <= v.rev
  BY DEF Inv, ViewOK, Owned
<1>2. c \in Commit /\ c.onto = v.rev /\ c.from = v.base /\ v.topic \in Topic /\ v.target \in Versions
  BY <1>1 DEF Commit, View
<1>3. Prepared(o) \in Topic /\ Kept(Prepared(o)) /\ Last(Prepared(o)) = c
  BY <1>1, <1>2, KeptAppend DEF Prepared
<1>4. QED
  BY <1>1, <1>2, <1>3 DEF TopicOK

(* So does another person's.                                               *)
LEMMA PersonOK ==
  ASSUME Inv, NEW n \in Versions, PushTopic(n)
  PROVE  \E c \in Commit : /\ topics' = [topics EXCEPT ![n] = Append(topics[n], c)]
                           /\ TopicOK(n, Append(topics[n], c))
<1> DEFINE s == topics[n]
<1>1. s \in Topic /\ Kept(s) /\ (s # <<>> => Last(s).from <= n) /\ topics \in [Versions -> Topic]
  BY DEF Inv, TypeOK, TopicOK
<1>2. rev \in 1..MaxRev /\ base \in Versions
  BY DEF Inv, TypeOK
<1>3. CASE s = <<>>
  <2> DEFINE c == [by |-> Human, onto |-> rev, from |-> base]
  <2>1. c \in Commit /\ c.from = base /\ base <= n
    BY <1>2, <1>3 DEF Commit, PushTopic, Versions
  <2>2. topics' = [topics EXCEPT ![n] = Append(topics[n], c)]
    BY <1>3 DEF PushTopic
  <2>3. Append(s, c) \in Topic /\ Kept(Append(s, c)) /\ Last(Append(s, c)) = c
    BY <1>1, <1>3, <2>1, KeptAppend
  <2>4. QED
    BY <2>1, <2>2, <2>3 DEF TopicOK
<1>4. CASE s # <<>>
  <2> DEFINE c == [by |-> Human, onto |-> Last(s).onto, from |-> Last(s).from]
  <2>1. Last(s) \in Commit
    BY <1>1, <1>4 DEF Topic, Last
  <2>2. c \in Commit /\ c.by = Human /\ c.onto = Last(s).onto /\ c.from = Last(s).from
        /\ c.onto <= c.onto
    BY <2>1 DEF Commit
  <2>3. topics' = [topics EXCEPT ![n] = Append(topics[n], c)]
    BY <1>4 DEF PushTopic
  <2>4. Append(s, c) \in Topic /\ Kept(Append(s, c)) /\ Last(Append(s, c)) = c
    BY <1>1, <2>2, KeptAppend
  <2>5. QED
    BY <1>1, <1>4, <2>2, <2>3, <2>4 DEF TopicOK
<1>5. QED
  BY <1>3, <1>4

(* A topic grows by a commit, is deleted, or stays, whatever the step.     *)
LEMMA StepTopics ==
  ASSUME Inv, Next
  PROVE  /\ topics' \in [Versions -> Topic]
         /\ \A n \in Versions : TopicOK(n, topics'[n])
         /\ \A n \in Versions : topics'[n] = <<>> \/ IsPrefix(topics[n], topics'[n])
<1>1. topics \in [Versions -> Topic] /\ \A n \in Versions : TopicOK(n, topics[n])
  BY DEF Inv, TypeOK
<1>2. \A n \in Versions : IsPrefix(topics[n], topics[n])
  BY <1>1, Grows, PreparationAssumption DEF Topic
<1>3. ASSUME NEW n \in Versions, NEW s \in Topic, topics' = [topics EXCEPT ![n] = s],
             TopicOK(n, s), s = <<>> \/ IsPrefix(topics[n], s)
      PROVE  /\ topics' \in [Versions -> Topic]
             /\ \A m \in Versions : TopicOK(m, topics'[m])
             /\ \A m \in Versions : topics'[m] = <<>> \/ IsPrefix(topics[m], topics'[m])
  BY <1>1, <1>2, <1>3
<1>4. ASSUME NEW o \in Operators, Push(o)
      PROVE  \E n \in Versions, s \in Topic : /\ topics' = [topics EXCEPT ![n] = s] /\ TopicOK(n, s)
                                              /\ s = <<>> \/ IsPrefix(topics[n], s)
  BY <1>4, PreparedOK DEF Push, FastForward, TopicOK
<1>5. ASSUME NEW n \in Versions, PushTopic(n)
      PROVE  \E s \in Topic : /\ topics' = [topics EXCEPT ![n] = s] /\ TopicOK(n, s)
                              /\ s = <<>> \/ IsPrefix(topics[n], s)
  <2>1. PICK c \in Commit : /\ topics' = [topics EXCEPT ![n] = Append(topics[n], c)]
                            /\ TopicOK(n, Append(topics[n], c))
    BY <1>5, PersonOK
  <2>2. IsPrefix(topics[n], Append(topics[n], c))
    BY <1>1, Grows DEF Topic
  <2>3. QED
    BY <2>1, <2>2 DEF TopicOK
<1>6. ASSUME NEW n \in Versions, Merge(n)
      PROVE  \E s \in Topic : /\ topics' = [topics EXCEPT ![n] = s] /\ TopicOK(n, s)
                              /\ s = <<>> \/ IsPrefix(topics[n], s)
  BY <1>6, KeptEmpty DEF Merge, TopicOK
<1>7. CASE UNCHANGED topics
  BY <1>1, <1>2, <1>7
<1>8. QED
  BY <1>3, <1>4, <1>5, <1>6, <1>7 DEF Next, Prepare, Fetch, ChooseVersion, ListPulls, ReadTopic,
     Build, CreatePull, Fail, PushMain, Close, remote

(* A merge raises the base, to the version of the topic it merges.         *)
LEMMA StepMain ==
  ASSUME Inv, Next
  PROVE  rev' \in 1..MaxRev /\ base' \in Versions /\ base' >= base /\ pulls' \subseteq Versions
<1>1. rev \in 1..MaxRev /\ base \in Versions /\ pulls \subseteq Versions /\ MaxRev \in Nat
  BY PreparationAssumption DEF Inv, TypeOK
<1>2. base >= base
  BY <1>1 DEF Versions
<1>3. ASSUME NEW n \in Versions, Merge(n)
      PROVE  rev' \in 1..MaxRev /\ base' \in Versions /\ base' >= base /\ pulls' \subseteq Versions
  <2>1. Last(topics[n]).from <= n
    BY <1>3 DEF Inv, TopicOK, Merge
  <2>2. rev' \in 1..MaxRev
    BY <1>1, <1>3 DEF Merge
  <2>3. base' \in Versions /\ base' >= base
    BY <1>1, <1>2, <1>3, <2>1 DEF Merge, Versions
  <2>4. QED
    BY <1>1, <1>3, <2>2, <2>3 DEF Merge
<1>4. ASSUME NEW o \in Operators, Prepare(o)
      PROVE  rev' \in 1..MaxRev /\ base' \in Versions /\ base' >= base /\ pulls' \subseteq Versions
  <2>1. view[o].target \in Versions
    BY <1>4 DEF Inv, ViewOK, View
  <2>2. UNCHANGED <<rev, base>> /\ pulls' \in {pulls, pulls \cup {view[o].target}}
    BY <1>4 DEF Prepare, Fetch, ChooseVersion, ListPulls, ReadTopic, Build, Push, CreatePull,
       Fail, remote
  <2>3. QED
    BY <1>1, <1>2, <2>1, <2>2
<1>5. ASSUME NEW n \in Versions, PushTopic(n) \/ Close(n)
      PROVE  rev' \in 1..MaxRev /\ base' \in Versions /\ base' >= base /\ pulls' \subseteq Versions
  BY <1>1, <1>2, <1>5 DEF PushTopic, Close
<1>6. CASE PushMain
  BY <1>1, <1>2, <1>6 DEF PushMain
<1>7. QED
  BY <1>3, <1>4, <1>5, <1>6 DEF Next

(* Each operator's view stays in order.                                    *)
LEMMA StepViews ==
  ASSUME Inv, Next
  PROVE  /\ pc' \in [Operators -> Steps] /\ view' \in [Operators -> View]
         /\ \A o \in Operators : ViewOK(pc'[o], view'[o])
<1>1. /\ pc \in [Operators -> Steps] /\ view \in [Operators -> View]
      /\ \A o \in Operators : ViewOK(pc[o], view[o])
  BY DEF Inv, TypeOK
<1>2. ASSUME NEW o \in Operators, Prepare(o)
      PROVE  /\ pc' \in [Operators -> Steps] /\ view' \in [Operators -> View]
             /\ \A p \in Operators : ViewOK(pc'[p], view'[p])
  <2>1. PICK label \in Steps, w \in View : Goto(o, label) /\ See(o, w) /\ ViewOK(label, w)
    BY <1>2, OperatorStep
  <2>2. pc' = [pc EXCEPT ![o] = label] /\ view' = [view EXCEPT ![o] = w]
    BY <2>1 DEF Goto, See
  <2>3. QED
    BY <1>1, <2>1, <2>2
<1>3. CASE UNCHANGED <<pc, view>>
  BY <1>1, <1>3
<1>4. QED
  BY <1>2, <1>3 DEF Next, PushMain, PushTopic, Merge, Close

LEMMA Inductive == ASSUME Inv, [Next]_vars PROVE Inv'
<1>1. CASE Next
  <2>1. \A o \in Operators : pc'[o] \notin {"start", "tags"} => view'[o].target >= view'[o].base
    BY <1>1, StepViews DEF ViewOK
  <2>2. QED
    BY <1>1, <2>1, StepViews, StepTopics, StepMain DEF Inv, TypeOK
<1>2. CASE UNCHANGED vars
  BY <1>2 DEF vars, remote, Inv, TypeOK
<1>3. QED
  BY <1>1, <1>2

LEMMA Initially == Init => Inv
<1> SUFFICES ASSUME Init PROVE Inv
  OBVIOUS
<1>1. 1 \in Versions /\ 1 \in 1..MaxRev /\ Blank.base = 1 /\ Blank.target = 1
  BY PreparationAssumption DEF Versions, Blank
<1>2. \A n \in Versions : TopicOK(n, <<>>)
  BY KeptEmpty DEF TopicOK
<1>3. topics \in [Versions -> Topic] /\ \A n \in Versions : TopicOK(n, topics[n])
  BY <1>2, KeptEmpty DEF Init
<1>4. \A o \in Operators : pc[o] = "start" /\ view[o] = Blank
  BY DEF Init
<1>5. pc \in [Operators -> Steps] /\ view \in [Operators -> View]
  BY BlankOK DEF Init, Steps
<1>6. QED
  BY <1>1, <1>3, <1>4, <1>5, BlankOK DEF Init, Inv, TypeOK

-----------------------------------------------------------------------------
(* The theorems.                                                           *)

(* Whatever operators and other people do, the invariant holds: types, the *)
(* versions operators prepare, what they have read, and the topics.        *)
THEOREM Invariant == Spec => []Inv
<1>1. QED
  BY Initially, Inductive, PTL DEF Spec

(* No operator prepares a version below the base it has read               *)
(* (choose_version refuses a downgrade).                                   *)
THEOREM TypeCorrect == Spec => []TypeOK
<1>1. Inv => TypeOK
  BY DEF Inv
<1>2. QED
  BY <1>1, Invariant, PTL

(* No commit of the command follows a person's: verify_owned_topic refuses *)
(* such a topic, and the push one that was edited after it was read.       *)
THEOREM EditsSurvive == Spec => []EditsNotUndone
<1>1. Inv => EditsNotUndone
  BY DEF Inv, TopicOK, Kept, EditsNotUndone
<1>2. QED
  BY <1>1, Invariant, PTL

(* Along a topic, what it has of the default branch never shrinks, however *)
(* old the checkout is that a commit of the command was made from.         *)
THEOREM MainSurvives == Spec => []MainNotUndone
<1>1. Inv => MainNotUndone
  BY DEF Inv, TopicOK, Kept, MainNotUndone
<1>2. QED
  BY <1>1, Invariant, PTL

(* A topic is extended or deleted, never rewritten: git push without force *)
(* is refused whenever somebody else has pushed.                           *)
THEOREM TopicsExtended == Spec => TopicsOnlyGrow
<1>1. ASSUME Inv, [Next]_vars
      PROVE  [\A n \in Versions : topics'[n] = <<>> \/ IsPrefix(topics[n], topics'[n])]_topics
  BY <1>1, StepTopics DEF vars, remote
<1>2. QED
  BY <1>1, Invariant, PTL DEF Spec, TopicsOnlyGrow

(* The base version of the default branch never decreases, whatever is     *)
(* prepared at the same time and merged in whatever order.                 *)
THEOREM BaseIncreases == Spec => BaseNeverDecreases
<1>1. ASSUME Inv, [Next]_vars PROVE [base' >= base]_base
  BY <1>1, StepMain DEF vars, remote
<1>2. QED
  BY <1>1, Invariant, PTL DEF Spec, BaseNeverDecreases
=============================================================================
