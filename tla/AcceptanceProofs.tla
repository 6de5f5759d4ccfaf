-------------------------- MODULE AcceptanceProofs --------------------------
(***************************************************************************)
(* Proofs about what the jobs of an accepted candidate take as single      *)
(* steps, for any bounds: the read of a GitHub resource (GitHubReads), the *)
(* bounded download (ReadProcess) and the fuzzing campaign (FuzzCampaign). *)
(***************************************************************************)
EXTENDS MCAcceptedRc, AcceptedRcProofs

-----------------------------------------------------------------------------
(* GitHubReads.                                                            *)

(* A request is made only if an attempt is left and nothing was denied;    *)
(* while an answer is judged, what it denies is all that was denied; and   *)
(* the capture is a prefix of the pages.                                   *)
ReadsInv ==
  /\ Reads!TypeOK
  /\ label \in {"ask", "sleep"} => attempt < Attempts
  /\ Len(capture) <= Pages /\ \A i \in DOMAIN capture : capture[i].page = i
  /\ label \in {"ask", "receive", "sleep"} => ~denied
  /\ label = "judge" =>
       /\ Reads!Possible(answer)
       /\ denied = (answer.denial \/ answer.stderr = "denied")
       /\ answer.status = 404 /\ answer.how = "exit" => missing
  /\ Reads!WholeOrNothing

LEMMA ReadsBounds == Pages \in Nat \ {0} /\ Attempts \in Nat \ {0} /\ MaxChanges \in Nat
BY InstancesAssumption DEF Reads!GitHubReadsAssumption

LEMMA ReadsInit == ASSUME Reads!Init PROVE ReadsInv
<1>1. /\ label = "ask" /\ attempt = 0 /\ revision = 0 /\ capture = <<>>
      /\ answer = Reads!Whole /\ denied = FALSE /\ missing = FALSE
  BY DEF Reads!Init
<1>2. answer \in Reads!Answer
  BY <1>1 DEF Reads!Whole, Reads!Answer, Reads!Statuses, Reads!Diagnoses
<1>3. Reads!TypeOK
  <2>1. capture \in Seq([page : 1..Pages, revision : 0..MaxChanges])
    BY <1>1
  <2>2. 0 \in 0..Attempts /\ 0 \in 0..MaxChanges
    BY ReadsBounds
  <2>3. QED
    BY <1>1, <1>2, <2>1, <2>2 DEF Reads!TypeOK
<1>4. QED
  BY <1>1, <1>3, ReadsBounds DEF ReadsInv, Reads!WholeOrNothing

LEMMA ReadsReceive == ASSUME ReadsInv, Reads!Receive PROVE ReadsInv'
<1>1. /\ label = "receive" /\ Len(capture) < Pages
      /\ UNCHANGED <<label, attempt, revision, answer, denied, missing>>
  BY DEF Reads!Receive
<1>2. PICK entry : entry = [page |-> Len(capture) + 1, revision |-> revision]
  OBVIOUS
<1>3. capture' = Append(capture, entry)
  BY <1>2 DEF Reads!Receive
<1>4. /\ capture \in Seq([page : 1..Pages, revision : 0..MaxChanges])
      /\ \A i \in DOMAIN capture : capture[i].page = i
  BY DEF ReadsInv, Reads!TypeOK
<1>5. entry \in [page : 1..Pages, revision : 0..MaxChanges] /\ entry.page = Len(capture) + 1
  <2>1. Len(capture) + 1 \in 1..Pages
    BY <1>1, <1>4, ReadsBounds
  <2>2. QED
    BY <1>2, <2>1 DEF ReadsInv, Reads!TypeOK
<1>6. capture' \in Seq([page : 1..Pages, revision : 0..MaxChanges]) /\ Len(capture') <= Pages
  BY <1>1, <1>3, <1>4, <1>5, ReadsBounds
<1>7. \A i \in DOMAIN capture' : capture'[i].page = i
  BY <1>3, <1>4, <1>5
<1>8. Reads!TypeOK'
  BY <1>1, <1>6 DEF ReadsInv, Reads!TypeOK
<1>9. QED
  BY <1>1, <1>6, <1>7, <1>8 DEF ReadsInv, Reads!WholeOrNothing

LEMMA ReadsGhEnds == ASSUME ReadsInv, Reads!GhEnds PROVE ReadsInv'
<1>1. /\ label = "receive" /\ label' = "judge" /\ UNCHANGED <<attempt, revision, capture>>
  BY DEF Reads!GhEnds
<1>2. /\ answer' \in Reads!Answer /\ Reads!Possible(answer')
      /\ denied' = (denied \/ answer'.denial \/ answer'.stderr = "denied")
      /\ missing' = (missing \/ (answer'.status = 404 /\ answer'.how = "exit"))
  BY DEF Reads!GhEnds
<1>3. ~denied
  BY <1>1 DEF ReadsInv
<1>4. Reads!TypeOK'
  BY <1>1, <1>2, <1>3 DEF ReadsInv, Reads!TypeOK, Reads!Answer
<1>5. Reads!Possible(answer)'
  BY <1>1, <1>2 DEF Reads!Possible
<1>6. QED
  BY <1>1, <1>2, <1>3, <1>4, <1>5 DEF ReadsInv, Reads!WholeOrNothing

(* An answer that is asked for again denied nothing.                       *)
LEMMA TransientDeniesNothing ==
  ASSUME ReadsInv, label = "judge", Reads!Transient PROVE ~denied
<1>1. /\ Reads!Possible(answer) /\ denied = (answer.denial \/ answer.stderr = "denied")
  BY DEF ReadsInv
<1>2. CASE answer.how = "timeout" \/ answer.status = 0
  BY <1>1, <1>2 DEF Reads!Transient, Reads!DeniedPartial
<1>3. CASE ~(answer.how = "timeout" \/ answer.status = 0)
  <2>1. answer.stderr # "denied" /\ answer.status \in Reads!Gateway \cup {200}
    BY <1>3 DEF Reads!Transient, Reads!Transport
  <2>2. answer.status \notin Reads!Denials \cup {0}
    BY <2>1 DEF Reads!Gateway, Reads!Denials
  <2>3. QED
    BY <1>1, <2>1, <2>2 DEF Reads!Possible
<1>4. QED
  BY <1>2, <1>3

LEMMA ReadsJudge ==
  ASSUME ReadsInv, Reads!Retry \/ Reads!Return \/ Reads!GiveUp PROVE ReadsInv'
<1>1. /\ label = "judge" /\ UNCHANGED <<attempt, revision, capture, answer, denied, missing>>
      /\ label' \in {"sleep", "returned", "absent", "failed"}
  BY DEF Reads!Retry, Reads!Return, Reads!GiveUp
<1>2. /\ Reads!Possible(answer) /\ denied = (answer.denial \/ answer.stderr = "denied")
      /\ answer.status = 404 /\ answer.how = "exit" => missing
  BY <1>1 DEF ReadsInv
<1>3. label' = "sleep" => ~denied /\ attempt < Attempts
  <2>1. ASSUME label' = "sleep" PROVE Reads!Retry
    BY <2>1 DEF Reads!Return, Reads!GiveUp
  <2>2. ASSUME Reads!Retry PROVE attempt < Attempts
    BY <2>2, ReadsBounds DEF Reads!Retry, Reads!Final, ReadsInv, Reads!TypeOK
  <2>3. QED
    BY <1>1, <2>1, <2>2, TransientDeniesNothing DEF Reads!Retry
<1>4. label' = "returned" => ~denied /\ Len(capture) = Pages
  <2>1. ASSUME label' = "returned" PROVE answer = Reads!Whole
    BY <2>1 DEF Reads!Retry, Reads!Return, Reads!GiveUp
  <2>2. ASSUME answer = Reads!Whole PROVE ~answer.denial /\ answer.stderr # "denied"
    BY <2>2 DEF Reads!Whole
  <2>3. QED
    BY <1>2, <2>1, <2>2 DEF Reads!Possible
<1>5. label' = "absent" => missing /\ denied
  <2>1. ASSUME label' = "absent" PROVE answer.status = 404 /\ answer.how = "exit"
    BY <2>1 DEF Reads!Retry, Reads!Return, Reads!GiveUp
  <2>2. answer.status = 404 => answer.denial
    BY <1>2 DEF Reads!Possible, Reads!Denials
  <2>3. QED
    BY <1>2, <2>1, <2>2
<1>6. Reads!TypeOK'
  BY <1>1 DEF ReadsInv, Reads!TypeOK, Reads!Ended
<1>7. QED
  BY <1>1, <1>3, <1>4, <1>5, <1>6 DEF ReadsInv, Reads!WholeOrNothing

LEMMA ReadsAsk == ASSUME ReadsInv, Reads!Ask \/ Reads!Sleep PROVE ReadsInv'
<1>1. CASE Reads!Ask
  <2>1. /\ label = "ask" /\ label' = "receive" /\ attempt' = attempt + 1 /\ capture' = <<>>
        /\ UNCHANGED <<revision, answer, denied, missing>>
    BY <1>1 DEF Reads!Ask
  <2>2. attempt' \in 0..Attempts
    BY <2>1, ReadsBounds DEF ReadsInv, Reads!TypeOK
  <2>3. Reads!TypeOK'
    BY <2>1, <2>2 DEF ReadsInv, Reads!TypeOK
  <2>4. QED
    BY <2>1, <2>3, ReadsBounds DEF ReadsInv, Reads!WholeOrNothing
<1>2. CASE Reads!Sleep
  BY <1>2 DEF Reads!Sleep, ReadsInv, Reads!TypeOK, Reads!WholeOrNothing
<1>3. QED
  BY <1>1, <1>2

LEMMA ReadsChange == ASSUME ReadsInv, Reads!Change PROVE ReadsInv'
<1>1. /\ UNCHANGED <<label, attempt, capture, answer, denied, missing>>
      /\ revision < MaxChanges /\ revision' = revision + 1
  BY DEF Reads!Change
<1>2. revision' \in 0..MaxChanges
  BY <1>1, ReadsBounds DEF ReadsInv, Reads!TypeOK
<1>3. Reads!TypeOK'
  BY <1>1, <1>2 DEF ReadsInv, Reads!TypeOK
<1>4. Reads!Possible(answer)' <=> Reads!Possible(answer)
  BY <1>1 DEF Reads!Possible
<1>5. QED
  BY <1>1, <1>3, <1>4 DEF ReadsInv, Reads!WholeOrNothing

LEMMA ReadsNext == ASSUME ReadsInv, Reads!Next PROVE ReadsInv'
BY ReadsReceive, ReadsGhEnds, ReadsJudge, ReadsAsk, ReadsChange DEF Reads!Next, Reads!Step

-----------------------------------------------------------------------------
(* ReadProcess.                                                            *)

(* A reader is done at the end of the file or one byte over the limit; the *)
(* main thread passes the judgement, or ends, only once both are done.     *)
Finished(s) ==
  reader[s] = "done" /\ (captured[s] > Limit \/ (captured[s] = written[s] /\ process # "writing"))

DownloadInv ==
  /\ Download!TypeOK
  /\ written \in [Download!Pipes -> Nat] /\ captured \in [Download!Pipes -> Nat]
  /\ reader \in [Download!Pipes -> {"reads", "done"}]
  /\ \A s \in Download!Pipes : reader[s] = "reads" => captured[s] <= Limit
  /\ \A s \in Download!Pipes : reader[s] = "done" => Finished(s)
  /\ label = "judge" /\ ~stalled => \A s \in Download!Pipes : reader[s] = "done"
  /\ label \in {"wait", "returned", "failed"} => \A s \in Download!Pipes : reader[s] = "done"
  /\ label \in {"wait", "returned"} => \A s \in Download!Pipes : captured[s] <= Limit
  /\ label \in {"drain", "returned", "failed"} => waited /\ ~Download!Running
  /\ label = "returned" => process = "succeeded"

LEMMA DownloadBounds == Limit \in Nat /\ Capacity \in Nat \ {0} /\ MaxBytes \in Nat
BY InstancesAssumption DEF Download!ReadProcessAssumption

LEMMA DownloadInit == ASSUME Download!Init PROVE DownloadInv
<1>1. /\ label = "stdout" /\ process = "writing" /\ waited = FALSE
      /\ written = [s \in Download!Pipes |-> 0] /\ captured = written
      /\ reader = [s \in Download!Pipes |-> "reads"] /\ late = FALSE /\ stalled = FALSE
  BY DEF Download!Init
<1>2. Download!TypeOK
  <2>1. \A s \in Download!Pipes : written[s] = 0 /\ captured[s] = 0 /\ reader[s] = "reads"
    BY <1>1
  <2>2. 0 \in 0..MaxBytes /\ 0 \in 0..Limit + 1 /\ 0 \in 0..0
    BY DownloadBounds
  <2>3. QED
    BY <1>1, <2>1, <2>2 DEF Download!TypeOK, Download!Pipes
<1>3. QED
  BY <1>1, <1>2, DownloadBounds DEF DownloadInv

LEMMA DownloadProcess ==
  ASSUME DownloadInv,
         \/ \E s \in Download!Pipes : Download!Write(s)
         \/ Download!ClosePipes \/ Download!Exit \/ Download!Tick
  PROVE  DownloadInv'
<1>1. UNCHANGED <<label, waited, captured, reader, stalled>> /\ late' \in BOOLEAN
  BY DEF Download!Write, Download!ClosePipes, Download!Exit, Download!Tick, DownloadInv, Download!TypeOK
<1>2. /\ process' = process \/ Download!Running
      /\ process' \in {"writing", "silent", "succeeded", "failed", "killed"}
      /\ process' = "writing" => process = "writing"
  BY DEF Download!Write, Download!ClosePipes, Download!Exit, Download!Tick, DownloadInv,
         Download!TypeOK, Download!Running
<1>3. /\ written' \in [Download!Pipes -> Nat]
      /\ \A s \in Download!Pipes :
           /\ written'[s] \in 0..MaxBytes /\ captured[s] \in 0..written'[s]
           /\ process # "writing" => written'[s] = written[s]
  <2>1. CASE \E s \in Download!Pipes : Download!Write(s)
    <3>1. PICK s \in Download!Pipes : Download!Write(s)
      BY <2>1
    <3>2. /\ process = "writing" /\ written[s] < MaxBytes
          /\ written' = [written EXCEPT ![s] = written[s] + 1]
      BY <3>1 DEF Download!Write
    <3>3. QED
      BY <3>2, DownloadBounds DEF DownloadInv, Download!TypeOK
  <2>2. CASE Download!ClosePipes \/ Download!Exit \/ Download!Tick
    BY <2>2 DEF Download!ClosePipes, Download!Exit, Download!Tick, DownloadInv, Download!TypeOK
  <2>3. QED
    BY <2>1, <2>2
<1>4. Download!TypeOK'
  BY <1>1, <1>2, <1>3 DEF DownloadInv, Download!TypeOK
<1>5. \A s \in Download!Pipes : reader[s] = "done" => Finished(s)'
  BY <1>1, <1>2, <1>3 DEF DownloadInv, Finished
<1>6. label \in {"drain", "returned", "failed"} => process' = process
  BY <1>2 DEF DownloadInv
<1>7. QED
  BY <1>1, <1>2, <1>3, <1>4, <1>5, <1>6 DEF DownloadInv, Download!Running

LEMMA DownloadRead ==
  ASSUME DownloadInv, NEW s \in Download!Pipes, Download!Read(s) PROVE DownloadInv'
<1>1. /\ reader[s] = "reads" /\ UNCHANGED <<label, process, waited, written, late, stalled>>
  BY DEF Download!Read
<1>2. captured[s] \in Nat /\ captured[s] <= Limit /\ captured[s] <= written[s] /\ written[s] \in Nat
  BY <1>1, DownloadBounds DEF DownloadInv, Download!TypeOK
<1>3. PICK n \in {captured[s], captured[s] + 1}, r \in {"reads", "done"} :
        /\ captured' = [captured EXCEPT ![s] = n] /\ reader' = [reader EXCEPT ![s] = r]
        /\ n <= written[s] /\ n <= Limit + 1 /\ (r = "reads" => n <= Limit)
        /\ r = "done" => n > Limit \/ (n = written[s] /\ process # "writing")
  <2>1. CASE captured[s] < written[s]
    <3>1. PICK r \in {"reads", "done"} : r = IF captured[s] = Limit THEN "done" ELSE "reads"
      OBVIOUS
    <3>2. /\ captured' = [captured EXCEPT ![s] = captured[s] + 1]
          /\ reader' = [reader EXCEPT ![s] = r]
      <4>1. /\ captured' = [captured EXCEPT ![s] = captured[s] + 1]
            /\ reader' = [reader EXCEPT ![s] = IF captured[s] = Limit THEN "done" ELSE reader[s]]
        BY <1>2, <2>1 DEF Download!Read
      <4>2. QED
        BY <1>1, <3>1, <4>1
    <3>3. PICK n : n = captured[s] + 1
      OBVIOUS
    <3>4. /\ n <= written[s] /\ n <= Limit + 1 /\ (r = "reads" => n <= Limit)
          /\ r = "done" => n > Limit
      BY <1>2, <2>1, <3>1, <3>3, DownloadBounds
    <3>5. QED
      BY <3>2, <3>3, <3>4
  <2>2. CASE ~(captured[s] < written[s])
    <3>1. /\ captured[s] = written[s] /\ process # "writing"
          /\ captured' = captured /\ reader' = [reader EXCEPT ![s] = "done"]
      BY <2>2 DEF Download!Read
    <3>2. captured = [captured EXCEPT ![s] = captured[s]]
      BY DEF DownloadInv
    <3>3. QED
      BY <1>2, <3>1, <3>2, DownloadBounds
  <2>3. QED
    BY <2>1, <2>2
<1>4. n \in Nat
  BY <1>2
<1>5. /\ captured' \in [Download!Pipes -> Nat] /\ reader' \in [Download!Pipes -> {"reads", "done"}]
      /\ captured'[s] = n /\ reader'[s] = r
      /\ \A o \in Download!Pipes \ {s} : captured'[o] = captured[o] /\ reader'[o] = reader[o]
  BY <1>3, <1>4 DEF DownloadInv
<1>6. Download!TypeOK'
  <2>1. \A o \in Download!Pipes : captured'[o] \in 0..written[o] /\ captured'[o] \in 0..Limit + 1
    BY <1>2, <1>3, <1>4, <1>5, DownloadBounds DEF DownloadInv, Download!TypeOK
  <2>2. QED
    BY <1>1, <1>5, <2>1 DEF DownloadInv, Download!TypeOK
<1>7. \A o \in Download!Pipes :
        /\ reader'[o] = "reads" => captured'[o] <= Limit
        /\ reader'[o] = "done" => Finished(o)'
  BY <1>1, <1>3, <1>5 DEF DownloadInv, Finished
<1>8. /\ label \notin {"wait", "returned", "failed"} /\ ~(label = "judge" /\ ~stalled)
  BY <1>1 DEF DownloadInv
<1>9. QED
  BY <1>1, <1>5, <1>6, <1>7, <1>8 DEF DownloadInv, Download!Running

LEMMA DownloadMain == ASSUME DownloadInv, Download!Main PROVE DownloadInv'
<1>1. UNCHANGED <<written, captured, reader, late>>
  BY DEF Download!Main, Download!Join, Download!Alive, Download!Judge, Download!Kill,
         Download!Drain, Download!Collect
<1>2. CASE (\E s \in Download!Pipes : Download!Join(s)) \/ Download!Alive \/ Download!Judge \/ Download!Drain
  <2>1. UNCHANGED <<process, waited>> /\ stalled' \in BOOLEAN
    BY <1>2 DEF Download!Join, Download!Alive, Download!Judge, Download!Drain, DownloadInv, Download!TypeOK
  <2>2. <<label, label'>> \in {<<"stdout", "stderr">>, <<"stderr", "alive">>, <<"alive", "judge">>,
                               <<"judge", "kill">>, <<"judge", "wait">>, <<"drain", "failed">>}
    BY <1>2 DEF Download!Join, Download!Alive, Download!Judge, Download!Drain, Download!Pipes
  <2>3. label' = "judge" /\ ~stalled' => \A s \in Download!Pipes : reader[s] = "done"
    <3>1. label' = "judge" => stalled' = (\E s \in Download!Pipes : reader[s] = "reads")
      BY <1>2, <2>2 DEF Download!Join, Download!Alive, Download!Judge, Download!Drain
    <3>2. QED
      BY <3>1 DEF DownloadInv
  <2>4. label' = "wait" => \A s \in Download!Pipes : reader[s] = "done" /\ captured[s] <= Limit
    <3>1. label' = "wait" => label = "judge" /\ ~stalled /\ ~Download!Oversized
      BY <1>2, <2>2 DEF Download!Join, Download!Alive, Download!Judge, Download!Drain
    <3>2. QED
      BY <3>1, DownloadBounds DEF DownloadInv, Download!Oversized
  <2>5. label' = "failed" => label = "drain" /\ \A s \in Download!Pipes : reader[s] = "done"
    BY <1>2, <2>2 DEF Download!Join, Download!Alive, Download!Judge, Download!Drain
  <2>6. Download!TypeOK'
    BY <1>1, <2>1, <2>2 DEF DownloadInv, Download!TypeOK, Download!Pipes, Download!Ended
  <2>7. QED
    BY <1>1, <2>1, <2>2, <2>3, <2>4, <2>5, <2>6 DEF DownloadInv, Download!Running, Finished
<1>3. CASE Download!Kill
  <2>1. /\ label = "kill" /\ label' = "drain" /\ waited' /\ stalled' = stalled
        /\ process' = Download!Killed /\ waited' = TRUE
    BY <1>3 DEF Download!Kill
  <2>2. process' \in {"succeeded", "failed", "killed"}
    BY <2>1 DEF Download!Killed, Download!Running, DownloadInv, Download!TypeOK
  <2>3. Download!TypeOK'
    BY <1>1, <2>1, <2>2 DEF DownloadInv, Download!TypeOK
  <2>4. QED
    BY <1>1, <2>1, <2>2, <2>3 DEF DownloadInv, Download!Running, Finished
<1>4. CASE Download!Collect
  <2>1. /\ label = "wait" /\ label' \in {"returned", "failed"} /\ waited' = TRUE /\ stalled' = stalled
        /\ process' \in {"succeeded", "failed", "killed"}
        /\ label' = "returned" => process' = "succeeded"
    BY <1>4 DEF Download!Collect, Download!Running, DownloadInv, Download!TypeOK
  <2>2. Download!TypeOK'
    BY <1>1, <2>1 DEF DownloadInv, Download!TypeOK, Download!Ended
  <2>3. QED
    BY <1>1, <2>1, <2>2 DEF DownloadInv, Download!Running, Finished
<1>5. QED
  BY <1>2, <1>3, <1>4 DEF Download!Main

LEMMA DownloadNext == ASSUME DownloadInv, Download!Next PROVE DownloadInv'
BY DownloadProcess, DownloadRead, DownloadMain DEF Download!Next

(* What is returned is all that was written.                               *)
LEMMA DownloadComplete == ASSUME DownloadInv PROVE Download!CompleteOrNothing
BY DownloadBounds
   DEF DownloadInv, Finished, Download!CompleteOrNothing, Download!Ended, Download!TypeOK

-----------------------------------------------------------------------------
(* FuzzCampaign.                                                           *)

Commands == Setups + Replays
Stepping == {"start", "running", "kill", "over"}

(* A process runs only while its step does, unless the kill was denied.    *)
Alone ==
  /\ label \in {"running", "kill"} => alive = {step}
  /\ label \in {"start", "over", "judge"} => alive = {}
  /\ ~overlap

(* What has passed so far: each command before this step, and each target  *)
(* whose entry says so; the entries are those of the targets so far.       *)
Progress ==
  /\ label \in Stepping \cup {"judge"} =>
       /\ \A i \in 1..step - 1 : i <= Commands => i \in passed
       /\ step > Commands => preflight
  /\ label = "over" /\ code = 0 => step \in passed
  /\ label \in Stepping => Len(results) = IF step > Commands THEN step - Commands - 1 ELSE 0
  /\ label = "judge" => step = Commands + Targets /\ Len(results) = Targets
  /\ \A i \in DOMAIN results :
       /\ results[i].target = Commands + i
       /\ results[i].code = 0 => results[i].worked /\ Commands + i \in passed

(* A status that says passed was judged on all of them; the report is      *)
(* written once, and with it the conclusion of the job.                    *)
Reported ==
  /\ label \notin {"finally", "ended"} => status = "failed"
  /\ report # "none" => label = "ended" /\ (conclusion = "success" <=> status = "passed")
  /\ status = "passed" =>
       /\ passed = Campaign!Steps /\ alive = {} /\ preflight
       /\ Len(results) = Targets /\ \A i \in DOMAIN results : results[i].code = 0
       /\ report # "rejected"
  /\ report = "accepted" => status = "passed"

CampaignInv == Campaign!TypeOK /\ Alone /\ Progress /\ Reported

LEMMA CampaignBounds ==
  /\ Setups \in Nat /\ Replays \in Nat /\ Targets \in Nat \ {0} /\ Commands \in Nat
  /\ Campaign!Steps = 1..Commands + Targets
  /\ \A i \in Nat : Campaign!Phase(i) = "target" <=> i > Commands
<1>1. Setups \in Nat /\ Replays \in Nat /\ Targets \in Nat \ {0}
  BY InstancesAssumption DEF Campaign!FuzzCampaignAssumption
<1>2. \A i \in Nat : Campaign!Phase(i) = "target" <=> i > Setups + Replays
  BY <1>1 DEF Campaign!Phase
<1>3. QED
  BY <1>1, <1>2 DEF Commands, Campaign!Steps

LEMMA CampaignInit == ASSUME Campaign!Init PROVE CampaignInv
<1>1. /\ label = "start" /\ step = 1 /\ code = 0 /\ worked = FALSE /\ alive = {} /\ results = <<>>
      /\ preflight = (Commands = 0) /\ status = "failed" /\ report = "none"
      /\ conclusion = "running" /\ overlap = FALSE /\ passed = {}
  BY DEF Campaign!Init, Commands
<1>2. Campaign!TypeOK
  <2>1. 1 \in Campaign!Steps /\ results \in Seq(Campaign!Result)
    BY <1>1, CampaignBounds
  <2>2. QED
    BY <1>1, <2>1 DEF Campaign!TypeOK
<1>3. Alone /\ Reported
  BY <1>1 DEF Alone, Reported
<1>4. Progress
  <2>1. DOMAIN results = {} /\ Len(results) = 0
    BY <1>1
  <2>2. step > Commands => Commands = 0
    BY <1>1, CampaignBounds
  <2>3. \A i \in 1..step - 1 : FALSE
    BY <1>1
  <2>4. Len(results) = IF step > Commands THEN step - Commands - 1 ELSE 0
    BY <1>1, <2>1, <2>2, CampaignBounds
  <2>5. QED
    BY <1>1, <2>1, <2>2, <2>3, <2>4 DEF Progress
<1>5. QED
  BY <1>2, <1>3, <1>4 DEF CampaignInv

(* The process of a step: it begins, ends, expires and is killed.          *)
LEMMA CampaignExecute ==
  ASSUME CampaignInv,
         Campaign!Begin \/ Campaign!Exit \/ Campaign!Expire \/ Campaign!Kill \/ Campaign!KillDenied
  PROVE  CampaignInv'
<1>1. /\ UNCHANGED <<step, results, preflight, status, report, conclusion>>
      /\ <<label, label'>> \in {<<"start", "running">>, <<"running", "over">>, <<"running", "kill">>,
                                <<"kill", "over">>, <<"kill", "finally">>}
  BY DEF Campaign!Begin, Campaign!Exit, Campaign!Expire, Campaign!Kill, Campaign!KillDenied
<1>2. /\ alive' = IF label = "start" THEN alive \cup {step}
                  ELSE IF label' = "over" THEN alive \ {step} ELSE alive
      /\ passed' = IF label = "running" /\ label' = "over" /\ code' = 0
                   THEN passed \cup {step} ELSE passed
  BY DEF Campaign!Begin, Campaign!Exit, Campaign!Expire, Campaign!Kill, Campaign!KillDenied
<1>3. /\ code' \in {0, 1, 124} /\ worked' \in BOOLEAN
      /\ label = "kill" /\ label' = "over" => code' = 124
  BY DEF Campaign!Begin, Campaign!Exit, Campaign!Expire, Campaign!Kill, Campaign!KillDenied,
         CampaignInv, Campaign!TypeOK
<1>4. step \in Campaign!Steps /\ alive \subseteq Campaign!Steps /\ passed \subseteq Campaign!Steps
      /\ overlap = FALSE /\ (label = "start" => alive = {})
  BY DEF CampaignInv, Campaign!TypeOK, Alone
<1>5. overlap' = FALSE
  BY <1>4 DEF Campaign!Begin, Campaign!Exit, Campaign!Expire, Campaign!Kill, Campaign!KillDenied
<1>6. Campaign!TypeOK'
  <2>1. /\ alive' \subseteq Campaign!Steps /\ passed' \subseteq Campaign!Steps
        /\ label' \in {"running", "kill", "over", "finally"}
    BY <1>1, <1>2, <1>4
  <2>2. QED
    BY <1>1, <1>3, <1>5, <2>1 DEF CampaignInv, Campaign!TypeOK
<1>7. Alone'
  BY <1>1, <1>2, <1>5 DEF CampaignInv, Alone
<1>8. Progress'
  <2>1. passed \subseteq passed' /\ label \in Stepping
    BY <1>1, <1>2 DEF Stepping
  <2>2. label' = "over" /\ code' = 0 => step \in passed'
    BY <1>1, <1>2, <1>3
  <2>3. QED
    BY <1>1, <2>1, <2>2 DEF CampaignInv, Progress, Stepping
<1>9. Reported'
  BY <1>1 DEF CampaignInv, Reported
<1>10. QED
  BY <1>6, <1>7, <1>8, <1>9 DEF CampaignInv

LEMMA CampaignContinue == ASSUME CampaignInv, Campaign!Continue PROVE CampaignInv'
<1>1. /\ label = "over" /\ Campaign!Phase(step) # "target" /\ code = 0
      /\ preflight' = (step >= Commands)
      /\ UNCHANGED <<code, worked, alive, results, status, report, conclusion, overlap, passed>>
  BY DEF Campaign!Continue, Commands
<1>2. step \in Nat \ {0} /\ step <= Commands /\ step + 1 \in Campaign!Steps
  BY <1>1, CampaignBounds DEF CampaignInv, Campaign!TypeOK
<1>3. step' = step + 1 /\ label' = "start"
  <2>1. step # Setups + Replays + Targets
    BY <1>2, CampaignBounds DEF Commands
  <2>2. QED
    BY <2>1 DEF Campaign!Continue, Campaign!Proceed
<1>4. Campaign!TypeOK' /\ Alone' /\ Reported'
  BY <1>1, <1>2, <1>3 DEF CampaignInv, Campaign!TypeOK, Alone, Reported
<1>5. Progress'
  <2>1. \A i \in 1..step : i <= Commands => i \in passed
    <3>1. step \in passed /\ \A i \in 1..step - 1 : i <= Commands => i \in passed
      BY <1>1 DEF CampaignInv, Progress, Stepping
    <3>2. \A i \in 1..step : i = step \/ i \in 1..step - 1
      BY <1>2
    <3>3. QED
      BY <3>1, <3>2
  <2>2. step + 1 > Commands => preflight'
    <3>1. step + 1 > Commands => step >= Commands
      BY <1>2, CampaignBounds
    <3>2. QED
      BY <1>1, <3>1
  <2>3. Len(results) = IF step + 1 > Commands THEN (step + 1) - Commands - 1 ELSE 0
    <3>1. Len(results) = IF step > Commands THEN step - Commands - 1 ELSE 0
      BY <1>1 DEF CampaignInv, Progress, Stepping
    <3>2. QED
      BY <1>2, <3>1, CampaignBounds
  <2>4. (step + 1) - 1 = step
    BY <1>2
  <2>5. QED
    BY <1>1, <1>3, <2>1, <2>2, <2>3, <2>4 DEF CampaignInv, Progress
<1>6. QED
  BY <1>4, <1>5 DEF CampaignInv

LEMMA CampaignRecord == ASSUME CampaignInv, Campaign!Record PROVE CampaignInv'
<1>1. /\ label = "over" /\ Campaign!Phase(step) = "target"
      /\ UNCHANGED <<code, worked, alive, preflight, status, report, conclusion, overlap, passed>>
  BY DEF Campaign!Record
<1>2. PICK entry : entry = [target |-> step, code |-> IF code = 0 /\ ~worked THEN 125 ELSE code,
                            worked |-> worked]
  OBVIOUS
<1>3. results' = Append(results, entry)
  BY <1>2 DEF Campaign!Record
<1>4. /\ step \in Nat /\ step > Commands /\ step <= Commands + Targets /\ step \in Campaign!Steps
      /\ results \in Seq(Campaign!Result) /\ code \in {0, 1, 124} /\ worked \in BOOLEAN
  BY <1>1, CampaignBounds DEF CampaignInv, Campaign!TypeOK
<1>5. Len(results) = step - Commands - 1 /\ (code = 0 => step \in passed)
      /\ preflight /\ \A i \in 1..step - 1 : i <= Commands => i \in passed
  BY <1>1, <1>4 DEF CampaignInv, Progress, Stepping
<1>6. /\ entry \in Campaign!Result /\ entry.target = step
      /\ entry.code = 0 => entry.worked /\ step \in passed
  BY <1>2, <1>4, <1>5 DEF Campaign!Result
<1>7. /\ results' \in Seq(Campaign!Result) /\ Len(results') = step - Commands
      /\ \A i \in DOMAIN results' : IF i \in DOMAIN results THEN results'[i] = results[i]
                                    ELSE i = step - Commands /\ results'[i] = entry
  BY <1>3, <1>4, <1>5, <1>6, CampaignBounds
<1>8. \A i \in DOMAIN results' :
        /\ results'[i].target = Commands + i
        /\ results'[i].code = 0 => results'[i].worked /\ Commands + i \in passed
  <2>1. \A i \in DOMAIN results :
          /\ results[i].target = Commands + i
          /\ results[i].code = 0 => results[i].worked /\ Commands + i \in passed
    BY DEF CampaignInv, Progress
  <2>2. Commands + (step - Commands) = step
    BY <1>4, CampaignBounds
  <2>3. QED
    BY <1>6, <1>7, <2>1, <2>2
<1>9. IF step = Commands + Targets THEN step' = step /\ label' = "judge"
      ELSE step' = step + 1 /\ label' = "start"
  BY DEF Campaign!Record, Campaign!Proceed, Commands
<1>10. CASE step = Commands + Targets
  <2>1. Len(results') = Targets
    BY <1>4, <1>7, <1>10, CampaignBounds
  <2>2. Campaign!TypeOK' /\ Alone' /\ Reported'
    BY <1>1, <1>7, <1>9, <1>10 DEF CampaignInv, Campaign!TypeOK, Alone, Reported
  <2>3. Progress'
    BY <1>1, <1>5, <1>8, <1>9, <1>10, <2>1 DEF Progress, Stepping
  <2>4. QED
    BY <2>2, <2>3 DEF CampaignInv
<1>11. CASE step # Commands + Targets
  <2>1. step + 1 \in Campaign!Steps
    BY <1>4, <1>11, CampaignBounds
  <2>2. Campaign!TypeOK' /\ Alone' /\ Reported'
    BY <1>1, <1>7, <1>9, <1>11, <2>1 DEF CampaignInv, Campaign!TypeOK, Alone, Reported
  <2>3. Len(results') = (step + 1) - Commands - 1 /\ step + 1 > Commands
    BY <1>4, <1>7, CampaignBounds
  <2>4. \A i \in 1..(step + 1) - 1 : i <= Commands => i \in 1..step - 1
    BY <1>4, CampaignBounds
  <2>5. Progress'
    BY <1>1, <1>5, <1>8, <1>9, <1>11, <2>3, <2>4 DEF Progress, Stepping
  <2>6. QED
    BY <2>2, <2>5 DEF CampaignInv
<1>12. QED
  BY <1>10, <1>11

(* The judgement sees an entry of every target.                            *)
LEMMA CampaignJudge == ASSUME CampaignInv, Campaign!Judge PROVE CampaignInv'
<1>1. /\ label = "judge" /\ label' = "finally"
      /\ status' = IF \A i \in DOMAIN results : results[i].code = 0 THEN "passed" ELSE "failed"
      /\ UNCHANGED <<step, code, worked, alive, results, preflight, report, conclusion, overlap, passed>>
  BY DEF Campaign!Judge
<1>2. Campaign!TypeOK' /\ Alone'
  BY <1>1 DEF CampaignInv, Campaign!TypeOK, Alone
<1>3. Progress'
  BY <1>1 DEF CampaignInv, Progress, Stepping
<1>4. /\ step = Commands + Targets /\ Len(results) = Targets /\ preflight /\ alive = {} /\ report = "none"
  <2>1. step = Commands + Targets /\ Len(results) = Targets /\ alive = {} /\ report = "none"
    BY <1>1 DEF CampaignInv, Progress, Alone, Reported
  <2>2. step > Commands
    BY <2>1, CampaignBounds
  <2>3. QED
    BY <1>1, <2>1, <2>2 DEF CampaignInv, Progress
<1>5. ASSUME \A i \in DOMAIN results : results[i].code = 0 PROVE passed = Campaign!Steps
  <2>1. DOMAIN results = 1..Targets
    BY <1>4 DEF CampaignInv, Campaign!TypeOK
  <2>2. ASSUME NEW i \in Campaign!Steps PROVE i \in passed
    <3>1. CASE i <= Commands
      <4>1. i \in 1..step - 1
        BY <1>4, <3>1, CampaignBounds
      <4>2. QED
        BY <1>1, <3>1, <4>1 DEF CampaignInv, Progress
    <3>2. CASE ~(i <= Commands)
      <4>1. i - Commands \in 1..Targets /\ Commands + (i - Commands) = i
        BY <3>2, CampaignBounds
      <4>2. Commands + (i - Commands) \in passed
        BY <1>5, <2>1, <4>1 DEF CampaignInv, Progress
      <4>3. QED
        BY <4>1, <4>2
    <3>3. QED
      BY <3>1, <3>2
  <2>3. QED
    BY <2>2 DEF CampaignInv, Campaign!TypeOK
<1>6. Reported'
  BY <1>1, <1>4, <1>5 DEF CampaignInv, Reported
<1>7. QED
  BY <1>2, <1>3, <1>6 DEF CampaignInv

(* What ends the campaign early, and the report.                           *)
LEMMA CampaignEnds ==
  ASSUME CampaignInv, Campaign!Raise \/ Campaign!Report \/ Campaign!Cancel PROVE CampaignInv'
<1>1. /\ UNCHANGED <<step, code, worked, alive, results, preflight, status, overlap, passed>>
      /\ <<label, label', report'>> \in
           ({"start", "over"} \X {"finally"} \X {report}) \cup {<<"finally", "ended", "written">>}
             \cup (({"start", "running", "kill", "over", "judge", "finally"}) \X {"ended"} \X {report})
      /\ conclusion' \in {conclusion, "success", "failure"}
  BY DEF Campaign!Raise, Campaign!Report, Campaign!Cancel, CampaignInv, Campaign!TypeOK
<1>2. report = "none"
  BY <1>1 DEF CampaignInv, Reported
<1>3. report' # "none" => (conclusion' = "success" <=> status = "passed")
  BY <1>2 DEF Campaign!Raise, Campaign!Report, Campaign!Cancel
<1>4. Campaign!TypeOK' /\ Alone'
  BY <1>1 DEF CampaignInv, Campaign!TypeOK, Alone
<1>5. Progress'
  BY <1>1 DEF CampaignInv, Progress, Stepping
<1>6. Reported'
  BY <1>1, <1>2, <1>3 DEF CampaignInv, Reported
<1>7. QED
  BY <1>4, <1>5, <1>6 DEF CampaignInv

(* The reader finds in a report that passed what it asks for.              *)
LEMMA CampaignVerify == ASSUME CampaignInv, Campaign!Verify PROVE CampaignInv'
<1>1. /\ report = "written"
      /\ report' = IF conclusion = "success" /\ status = "passed" /\ Campaign!Inventory
                   THEN "accepted" ELSE "rejected"
      /\ UNCHANGED <<label, step, code, worked, alive, results, preflight, status, conclusion, overlap, passed>>
  BY DEF Campaign!Verify
<1>2. ASSUME status = "passed" PROVE conclusion = "success" /\ Campaign!Inventory
  <2>1. /\ conclusion = "success" /\ Len(results) = Targets /\ preflight
        /\ \A i \in DOMAIN results : results[i].code = 0
    BY <1>1, <1>2 DEF CampaignInv, Reported
  <2>2. \A i \in DOMAIN results : results[i].target = Commands + i /\ results[i].worked
    BY <2>1 DEF CampaignInv, Progress
  <2>3. DOMAIN results = 1..Targets
    BY <2>1 DEF CampaignInv, Campaign!TypeOK
  <2>4. [i \in DOMAIN results |-> results[i].target] = [i \in 1..Targets |-> Setups + Replays + i]
    BY <2>2, <2>3 DEF Commands
  <2>5. QED
    BY <2>1, <2>2, <2>4 DEF Campaign!Inventory
<1>3. Campaign!TypeOK' /\ Alone'
  BY <1>1 DEF CampaignInv, Campaign!TypeOK, Alone
<1>4. Progress'
  BY <1>1 DEF CampaignInv, Progress, Stepping
<1>5. Reported'
  BY <1>1, <1>2 DEF CampaignInv, Reported
<1>6. QED
  BY <1>3, <1>4, <1>5 DEF CampaignInv

LEMMA CampaignNext == ASSUME CampaignInv, Campaign!Next PROVE CampaignInv'
BY CampaignExecute, CampaignContinue, CampaignRecord, CampaignJudge, CampaignEnds, CampaignVerify
   DEF Campaign!Next, Campaign!Work

(* A report that passed has an entry of each target, which executed.       *)
LEMMA CampaignIsSound == ASSUME CampaignInv PROVE Campaign!CampaignSound
<1>1. ASSUME status = "passed", NEW i \in 1..Targets PROVE results[i].worked
  <2>1. i \in DOMAIN results
    BY <1>1 DEF CampaignInv, Reported, Campaign!TypeOK
  <2>2. QED
    BY <1>1, <2>1 DEF CampaignInv, Reported, Progress
<1>2. QED
  BY <1>1 DEF CampaignInv, Alone, Reported, Campaign!CampaignSound

-----------------------------------------------------------------------------
(* The parts.                                                              *)

PartInv ==
  /\ part \in {"job", "reads", "download", "campaign"}
  /\ part = "reads" => ReadsInv
  /\ part = "download" => DownloadInv
  /\ part = "campaign" => CampaignInv
  /\ IInv

LEMMA PartStutters == ASSUME PartInv, UNCHANGED partVars PROVE PartInv'
<1>1. /\ UNCHANGED <<part, label, vars>>
      /\ UNCHANGED <<attempt, revision, capture, answer, denied, missing>>
      /\ UNCHANGED <<process, waited, written, captured, reader, late, stalled>>
      /\ UNCHANGED <<step, code, worked, alive, results, preflight, status, report, conclusion, overlap, passed>>
  BY DEF partVars, OfReads, OfDownload, OfCampaign
<1>2. ReadsInv' <=> ReadsInv
  BY <1>1 DEF ReadsInv, Reads!TypeOK, Reads!Possible, Reads!WholeOrNothing
<1>3. DownloadInv' <=> DownloadInv
  BY <1>1 DEF DownloadInv, Download!TypeOK, Download!Running, Finished
<1>4. CampaignInv' <=> CampaignInv
  BY <1>1 DEF CampaignInv, Campaign!TypeOK, Alone, Progress, Reported
<1>5. IInv'
  BY <1>1, Inductive DEF PartInv
<1>6. QED
  BY <1>1, <1>2, <1>3, <1>4, <1>5 DEF PartInv

LEMMA PartStep == ASSUME PartInv, [PartNext]_partVars PROVE PartInv'
<1>1. CASE PartNext
  <2>1. part' = part /\ [Next]_vars
    BY <1>1 DEF PartNext, ForJob, ForReads, ForDownload, ForCampaign
  <2>2. IInv'
    BY <2>1, Inductive DEF PartInv
  <2>3. part = "reads" => ReadsInv'
    BY <1>1, ReadsNext DEF PartInv, PartNext, ForJob, ForReads, ForDownload, ForCampaign
  <2>4. part = "download" => DownloadInv'
    BY <1>1, DownloadNext DEF PartInv, PartNext, ForJob, ForReads, ForDownload, ForCampaign
  <2>5. part = "campaign" => CampaignInv'
    BY <1>1, CampaignNext DEF PartInv, PartNext, ForJob, ForReads, ForDownload, ForCampaign
  <2>6. QED
    BY <2>1, <2>2, <2>3, <2>4, <2>5 DEF PartInv
<1>2. CASE UNCHANGED partVars
  BY <1>2, PartStutters
<1>3. QED
  BY <1>1, <1>2

(* The inductive invariant of the four parts: a behaviour is one of a      *)
(* single part, and its own invariant holds in it; the others, the jobs'   *)
(* included, stay as they began.                                           *)
THEOREM PartInvariant == PartSpec => []PartInv
<1>1. ASSUME PartInit PROVE PartInv
  BY <1>1, Initially, ReadsInit, DownloadInit, CampaignInit DEF PartInit, PartInv, NoJob
<1>2. QED
  BY <1>1, PartStep, PTL DEF PartSpec

(* The state of the four jobs, of _read_get, of read_process and of a      *)
(* campaign keeps its type, whatever the bounds.                           *)
THEOREM PartsTypeCorrect == PartSpec => []PartTypeOK
<1>1. PartInv => PartTypeOK
  BY DEF PartInv, IInv, ReadsInv, DownloadInv, CampaignInv, PartTypeOK
<1>2. QED
  BY <1>1, PartInvariant, PTL

(* _read_get returns every page of one attempt and asks nothing again that *)
(* was denied; read_process returns all that gh wrote or nothing, and      *)
(* leaves neither the process nor a thread behind.                         *)
THEOREM ReadsAreWhole == PartSpec => []ReadsWhole
<1>1. PartInv => ReadsWhole
  BY DownloadComplete DEF PartInv, ReadsInv, ReadsWhole
<1>2. QED
  BY <1>1, PartInvariant, PTL

(* The report of release_fuzz.py says passed only if every command ended   *)
(* by itself with 0 and every target executed, with no process left; and   *)
(* verify_report accepts exactly such reports.                             *)
THEOREM CampaignsAreSound == PartSpec => []CampaignSound
<1>1. PartInv => CampaignSound
  BY CampaignIsSound DEF PartInv, CampaignSound
<1>2. QED
  BY <1>1, PartInvariant, PTL

(* The jobs beside which the other parts are checked are those of          *)
(* AcceptedRc: what is proved of them holds of these too.                  *)
THEOREM JobsHere == PartSpec => [](TypeOK /\ ReadyInTime /\ AcceptsUnrevoked /\ AcceptsGenuine)
<1>1. PartInv => TypeOK /\ ReadyInTime /\ AcceptsUnrevoked /\ AcceptsGenuine
  BY AcceptedBytes DEF PartInv, IInv, Timely, ReadyInTime, Accepting, AcceptsUnrevoked
<1>2. QED
  BY <1>1, PartInvariant, PTL
-----------------------------------------------------------------------------
(* Progress: what a job, a read, a download or a campaign has still to do. *)

(* The wait polls a run, then its gate, and sleeps; then come the checks.  *)
JobRank ==
  CASE pc = "run"               -> 4
    [] pc = "gate"              -> 3
    [] pc \in {"ready", "sleep"} -> 2
    [] pc = "checks"            -> 1
    [] OTHER                    -> 0

(* Time passes, or the wait or the checks go on, or one more asset of the  *)
(* snapshot is read.                                                       *)
JobOnward ==
  \/ clock' > clock
  \/ clock' = clock /\ JobRank' < JobRank
  \/ clock' = clock /\ JobRank' = JobRank /\ at' > at
  \/ /\ clock' = clock /\ JobRank' = JobRank /\ at' = at
     /\ \E a \in seen.assets \ bytes : bytes' = bytes \cup {a}

(* A request reads its pages, is judged, and the next attempt waits.       *)
ReadsRank ==
  CASE label = "receive" -> 3 + (Pages - Len(capture))
    [] label = "judge"   -> 2
    [] label = "sleep"   -> 1
    [] OTHER             -> 0

ReadsOnward ==
  \/ attempt' > attempt
  \/ attempt' = attempt /\ ReadsRank' < ReadsRank

DownloadRank ==
  CASE label = "stdout" -> 6 [] label = "stderr" -> 5 [] label = "alive" -> 4
    [] label = "judge"  -> 3 [] label = "kill"   -> 2 [] label \in {"drain", "wait"} -> 1
    [] OTHER            -> 0

(* The steps of a command, then the verdict, the report and its reader.    *)
CampaignRank ==
  CASE label = "start" -> 7 [] label = "running" -> 6 [] label = "kill" -> 5
    [] label = "over"  -> 4 [] label = "judge"   -> 3 [] label = "finally" -> 2
    [] label = "ended" /\ report = "written" -> 1
    [] OTHER           -> 0

CampaignOnward ==
  \/ step' > step
  \/ step' = step /\ CampaignRank' < CampaignRank

(* The part that runs comes nearer to its end, or is where it was.         *)
Onward ==
  CASE part = "job"      -> JobOnward
    [] part = "reads"    -> ReadsOnward
    [] part = "download" -> DownloadRank' < DownloadRank
    [] part = "campaign" -> CampaignOnward

Rests ==
  CASE part = "job"      -> UNCHANGED <<pc, at, clock, bytes>>
    [] part = "reads"    -> UNCHANGED <<label, attempt, capture>>
    [] part = "download" -> UNCHANGED label
    [] part = "campaign" -> UNCHANGED <<label, step, report>>

MovesOn == (Working => Onward) /\ (Onward \/ Rests)

LEMMA JobMoves == ASSUME TypeOK, Job PROVE JobOnward
<1>1. clock \in Nat /\ at \in Nat
  BY Order, AcceptedRcAssumption DEF TypeOK, Ordered, Complete
<1>2. ASSUME pc = "checks", clock' = clock, Advance PROVE JobOnward
  <2>1. (at' = at + 1 /\ pc' = "checks") \/ pc' = "accepted"
    BY <1>2 DEF Advance
  <2>2. QED
    BY <1>1, <1>2, <2>1 DEF JobOnward, JobRank
<1>3. CASE VerifyAsset
  <2>1. PICK a \in Named(seen.assets, Payload \cup {Stray}) \ bytes : bytes' = bytes \cup {a}
    BY <1>3 DEF VerifyAsset
  <2>2. a \in seen.assets \ bytes /\ clock' = clock /\ pc = "checks"
    BY <1>3, <2>1 DEF Named, VerifyAsset, Keep, Doing
  <2>3. CASE UNCHANGED <<pc, at, void>>
    BY <2>1, <2>2, <2>3 DEF JobOnward, JobRank
  <2>4. QED
    BY <1>2, <1>3, <2>2, <2>3 DEF VerifyAsset
<1>4. CASE PollRun \/ PollGate \/ Ready \/ Sleep \/ Refuse
  <2>1. PollRun \/ PollGate \/ Ready =>
          /\ clock' = clock
          /\ <<pc, pc'>> \in {<<"run", "sleep">>, <<"run", "gate">>, <<"run", "ready">>,
                              <<"gate", "sleep">>, <<"gate", "ready">>, <<"ready", "checks">>}
    BY DEF PollRun, PollGate, Ready, Goto
  <2>2. Sleep => clock' > clock
    BY <1>1 DEF Sleep
  <2>3. Refuse => clock' = clock /\ pc' = "refused" /\ pc \in Waiting \cup {"checks"}
    BY DEF Refuse, Keep, TypeOK
  <2>4. QED
    BY <1>4, <2>1, <2>2, <2>3 DEF JobOnward, JobRank, Waiting
<1>5. CASE ~(VerifyAsset \/ PollRun \/ PollGate \/ Ready \/ Sleep \/ Refuse)
  <2>1. pc = "checks" /\ clock' = clock /\ Advance
    BY <1>5 DEF Job, ReadPiece, ReadManifest, CheckSourceRun, CheckAncestry, VerifyEvidence,
       CheckInventory, CompareDigests, VerifyReceipt, VerifyToolchain, RequireReviewers,
       CheckWorkflow, CheckOwnRun, CheckHead, Doing, Keep
  <2>2. QED
    BY <1>2, <2>1
<1>6. QED
  BY <1>3, <1>4, <1>5

LEMMA JobOnwardOrRests == ASSUME TypeOK, Next PROVE JobOnward \/ UNCHANGED <<pc, at, clock, bytes>>
<1>1. CASE Others
  BY <1>1, StepOthers
<1>2. CASE SlowAnswer
  <2>1. clock \in Nat /\ clock' = clock + 1
    BY <1>2, AcceptedRcAssumption DEF TypeOK, SlowAnswer
  <2>2. QED
    BY <2>1 DEF JobOnward
<1>3. QED
  BY <1>1, <1>2, JobMoves DEF Next

LEMMA ReadsMove ==
  ASSUME ReadsInv, Reads!Next
  PROVE  /\ Reads!Step => ReadsOnward
         /\ ReadsOnward \/ UNCHANGED <<label, attempt, capture>>
<1>1. attempt \in Nat /\ Len(capture) \in Nat /\ Pages \in Nat /\ Len(capture) <= Pages
  BY ReadsBounds DEF ReadsInv, Reads!TypeOK
<1>2. CASE Reads!Receive
  <2>1. /\ label = "receive" /\ label' = "receive" /\ attempt' = attempt
        /\ Len(capture') = Len(capture) + 1
    BY <1>2 DEF Reads!Receive, ReadsInv, Reads!TypeOK
  <2>2. QED
    BY <1>1, <2>1 DEF ReadsOnward, ReadsRank
<1>3. CASE Reads!GhEnds
  <2>1. label = "receive" /\ label' = "judge" /\ attempt' = attempt
    BY <1>3 DEF Reads!GhEnds
  <2>2. QED
    BY <1>1, <2>1 DEF ReadsOnward, ReadsRank
<1>4. CASE Reads!Ask
  BY <1>1, <1>4 DEF Reads!Ask, ReadsOnward
<1>5. CASE Reads!Retry \/ Reads!Return \/ Reads!GiveUp
  <2>1. label = "judge" /\ label' \in {"sleep", "returned", "absent", "failed"} /\ attempt' = attempt
    BY <1>5 DEF Reads!Retry, Reads!Return, Reads!GiveUp
  <2>2. QED
    BY <2>1 DEF ReadsOnward, ReadsRank
<1>6. CASE Reads!Sleep
  <2>1. label = "sleep" /\ label' = "ask" /\ attempt' = attempt
    BY <1>6 DEF Reads!Sleep
  <2>2. QED
    BY <2>1 DEF ReadsOnward, ReadsRank
<1>7. Reads!Step => ReadsOnward
  BY <1>2, <1>3, <1>4, <1>5, <1>6 DEF Reads!Step
<1>8. Reads!Change => UNCHANGED <<label, attempt, capture>>
  BY DEF Reads!Change
<1>9. QED
  BY <1>7, <1>8 DEF Reads!Next

LEMMA DownloadMoves ==
  ASSUME Download!Next
  PROVE  /\ Download!Main => DownloadRank' < DownloadRank
         /\ DownloadRank' < DownloadRank \/ UNCHANGED label
<1>1. ASSUME Download!Main PROVE DownloadRank' < DownloadRank
  <2>1. <<label, label'>> \in
          {<<"stdout", "stderr">>, <<"stderr", "alive">>, <<"alive", "judge">>, <<"judge", "kill">>,
           <<"judge", "wait">>, <<"kill", "drain">>, <<"drain", "failed">>, <<"wait", "returned">>,
           <<"wait", "failed">>}
    BY <1>1 DEF Download!Main, Download!Join, Download!Alive, Download!Judge, Download!Kill,
       Download!Drain, Download!Collect, Download!Pipes
  <2>2. QED
    BY <2>1 DEF DownloadRank
<1>2. ~Download!Main => UNCHANGED label
  BY DEF Download!Next, Download!ClosePipes, Download!Exit, Download!Tick, Download!Write, Download!Read
<1>3. QED
  BY <1>1, <1>2

LEMMA CampaignMoves ==
  ASSUME CampaignInv, Campaign!Next
  PROVE  CampaignOnward
<1>1. step \in Nat
  BY CampaignBounds DEF CampaignInv, Campaign!TypeOK
<1>2. CASE Campaign!Continue \/ Campaign!Record
  <2>1. label = "over" /\ ((step' = step /\ label' = "judge") \/ step' = step + 1)
    BY <1>2 DEF Campaign!Continue, Campaign!Record, Campaign!Proceed
  <2>2. QED
    BY <1>1, <2>1 DEF CampaignOnward, CampaignRank
<1>3. CASE Campaign!Begin \/ Campaign!Exit \/ Campaign!Expire \/ Campaign!Kill \/ Campaign!KillDenied
           \/ Campaign!Judge \/ Campaign!Raise
  <2>1. /\ step' = step
        /\ <<label, label'>> \in
             {<<"start", "running">>, <<"running", "over">>, <<"running", "kill">>, <<"kill", "over">>,
              <<"kill", "finally">>, <<"judge", "finally">>, <<"start", "finally">>,
              <<"over", "finally">>}
    BY <1>3 DEF Campaign!Begin, Campaign!Exit, Campaign!Expire, Campaign!Kill, Campaign!KillDenied,
       Campaign!Judge, Campaign!Raise
  <2>2. QED
    BY <2>1 DEF CampaignOnward, CampaignRank
<1>4. CASE Campaign!Report \/ Campaign!Cancel
  <2>1. /\ step' = step /\ label' = "ended"
        /\ label \in {"start", "running", "kill", "over", "judge", "finally"}
    BY <1>4 DEF Campaign!Report, Campaign!Cancel, CampaignInv, Campaign!TypeOK
  <2>2. QED
    BY <2>1 DEF CampaignOnward, CampaignRank
<1>5. CASE Campaign!Verify
  <2>1. /\ step' = step /\ label = "ended" /\ label' = "ended"
        /\ report = "written" /\ report' # "written"
    BY <1>5 DEF Campaign!Verify, CampaignInv, Reported
  <2>2. QED
    BY <2>1 DEF CampaignOnward, CampaignRank
<1>6. QED
  BY <1>2, <1>3, <1>4, <1>5 DEF Campaign!Next, Campaign!Work

(* Nothing runs for ever: every step of a job that waits for its run or    *)
(* checks a candidate, of _read_get, of read_process' main thread and of a *)
(* campaign brings it nearer to its end, and nobody else's step takes that *)
(* back. The bounds are those of the types: the deadline of the wait, the  *)
(* number of checks, of attempts and of commands.                          *)
THEOREM WorkMovesOn == PartSpec => [][MovesOn]_partVars
<1>1. ASSUME PartInv, PartNext PROVE MovesOn
  <2>1. CASE part = "job"
    <3>1. ForJob /\ Next /\ (Working => Job) /\ TypeOK
      BY <1>1, <2>1 DEF PartNext, ForJob, ForReads, ForDownload, ForCampaign, Working, PartInv, IInv
    <3>2. QED
      BY <2>1, <3>1, JobMoves, JobOnwardOrRests DEF MovesOn, Onward, Rests
  <2>2. CASE part = "reads"
    <3>1. ReadsInv /\ Reads!Next /\ (Working => Reads!Step)
      BY <1>1, <2>2 DEF PartNext, ForJob, ForReads, ForDownload, ForCampaign, Working, PartInv
    <3>2. QED
      BY <2>2, <3>1, ReadsMove DEF MovesOn, Onward, Rests
  <2>3. CASE part = "download"
    <3>1. Download!Next /\ (Working => Download!Main)
      BY <1>1, <2>3 DEF PartNext, ForJob, ForReads, ForDownload, ForCampaign, Working
    <3>2. QED
      BY <2>3, <3>1, DownloadMoves DEF MovesOn, Onward, Rests
  <2>4. CASE part = "campaign"
    <3>1. CampaignInv /\ Campaign!Next
      BY <1>1, <2>4 DEF PartNext, ForJob, ForReads, ForDownload, ForCampaign, PartInv
    <3>2. QED
      BY <2>4, <3>1, CampaignMoves DEF MovesOn, Onward
  <2>5. QED
    BY <1>1, <2>1, <2>2, <2>3, <2>4 DEF PartInv
<1>2. PartInv /\ [PartNext]_partVars => [MovesOn]_partVars
  BY <1>1
<1>3. QED
  BY <1>2, PartInvariant, PTL DEF PartSpec
=============================================================================
