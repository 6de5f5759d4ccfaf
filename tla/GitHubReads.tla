---------------------------- MODULE GitHubReads ----------------------------
(***************************************************************************)
(* One GET through gh (release_control.py, GitHub._read_get): at most      *)
(* three whole reads. An answer that was lost on the way, or a gateway's   *)
(* 5xx, is asked for again; a denial, and whatever the code does not       *)
(* recognise, ends the read.                                               *)
(*                                                                         *)
(* A resource is a list of pages (one, unless paginated). It may change    *)
(* between two pages, of one attempt or of two.                            *)
(***************************************************************************)
EXTENDS Integers, Sequences

CONSTANTS
  Pages,      \* pages of the resource
  Attempts,   \* API_READ_ATTEMPTS
  MaxChanges  \* bound: changes of the resource

(* What the parameters must be; the instances assume it.                   *)
GitHubReadsAssumption ==
  Pages \in Nat \ {0} /\ Attempts \in Nat \ {0} /\ MaxChanges \in Nat

(* The status of the last header in the output; 0 if none is framed.       *)
Denials   == {401, 403, 404, 429}
Gateway   == {500, 502, 503, 504}
Statuses  == {0, 200, 403, 404, 502}
(* What gh says on its standard error.                                     *)
Diagnoses == {"none", "transport", "denied"}

Answer == [how : {"exit", "timeout"}, status : Statuses, code : {0, 1},
           stderr : Diagnoses, denial : BOOLEAN]

VARIABLES
  pc,      \* "ask", "receive", "judge", "sleep", "returned", "absent" or "failed"
  attempt, \* reads begun
  revision,\* of the resource
  capture, \* the pages in gh's output
  answer,  \* how the read ended
  denied,  \* history: some answer denied the request
  missing  \* history: some answer was a complete 404

vars == <<pc, attempt, revision, capture, answer, denied, missing>>

Ended == {"returned", "absent", "failed"}
Final == attempt = Attempts
Whole == [how |-> "exit", status |-> 200, code |-> 0, stderr |-> "none", denial |-> FALSE]

Init ==
  /\ pc = "ask" /\ attempt = 0 /\ revision = 0 /\ capture = <<>>
  /\ answer = Whole /\ denied = FALSE /\ missing = FALSE

-----------------------------------------------------------------------------
(* gh and GitHub.                                                          *)

Receive ==
  /\ pc = "receive" /\ Len(capture) < Pages
  /\ capture' = Append(capture, [page |-> Len(capture) + 1, revision |-> revision])
  /\ UNCHANGED <<pc, attempt, revision, answer, denied, missing>>

(* gh exits with 0 if and only if every page came; a page that failed      *)
(* leaves its status and its prose; a denial may be in an output that ends *)
(* in the middle of a header, which has no status then.                    *)
Possible(a) ==
  /\ a.code = 0 <=> a = Whole
  /\ a = Whole => Len(capture) = Pages
  /\ a.status \in Denials => a.denial
  /\ a.denial => a.status \in Denials \cup {0}

GhEnds ==
  /\ pc = "receive"
  /\ \E a \in Answer :
       /\ Possible(a)
       /\ answer' = a
       /\ denied' = (denied \/ a.denial \/ a.stderr = "denied")
       /\ missing' = (missing \/ (a.status = 404 /\ a.how = "exit"))
  /\ pc' = "judge"
  /\ UNCHANGED <<attempt, revision, capture>>

Change ==
  /\ pc \notin Ended /\ revision < MaxChanges /\ revision' = revision + 1
  /\ UNCHANGED <<pc, attempt, capture, answer, denied, missing>>

-----------------------------------------------------------------------------
(* _read_get.                                                              *)

Ask ==
  /\ pc = "ask" /\ pc' = "receive"
  /\ attempt' = attempt + 1 /\ capture' = <<>>
  /\ UNCHANGED <<revision, answer, denied, missing>>

(* _transient_read_failure.                                                *)
Transport == answer.code = 1 /\ answer.stderr = "transport"

(* Plausible bug: only the diagnostics are searched for a denial.          *)
DeniedByDiagnosis == answer.stderr = "denied"

(* _denied_partial_read: in the diagnostics or in a status line.           *)
DeniedPartial == answer.stderr = "denied" \/ answer.denial

(* _completed_read, and the handler of a timeout.                          *)
Transient ==
  IF answer.how = "timeout" \/ answer.status = 0
  THEN (answer.how = "timeout" \/ Transport) /\ ~DeniedPartial
  ELSE answer.code = 1 /\ ( \/ answer.status \in Gateway /\ answer.stderr # "denied"
                            \/ answer.status = 200 /\ Transport )

Retry ==
  /\ pc = "judge" /\ Transient /\ ~Final
  /\ pc' = "sleep"
  /\ UNCHANGED <<attempt, revision, capture, answer, denied, missing>>

(* response: the status and the exit code agree; only a framed 404 of a    *)
(* process that exited means that the resource does not exist.             *)
Return ==
  /\ pc = "judge" /\ answer.how = "exit" /\ ~(Transient /\ ~Final)
  /\ pc' = CASE answer = Whole       -> "returned"
             [] answer.status = 404  -> "absent"
             [] OTHER                -> "failed"
  /\ UNCHANGED <<attempt, revision, capture, answer, denied, missing>>

GiveUp ==
  /\ pc = "judge" /\ answer.how = "timeout" /\ ~(Transient /\ ~Final)
  /\ pc' = "failed"
  /\ UNCHANGED <<attempt, revision, capture, answer, denied, missing>>

Sleep ==
  /\ pc = "sleep" /\ pc' = "ask"
  /\ UNCHANGED <<attempt, revision, capture, answer, denied, missing>>

Step == Receive \/ GhEnds \/ Ask \/ Retry \/ Return \/ GiveUp \/ Sleep

Next == Step \/ Change

(* gh ends, by itself or at the timeout of subprocess.run.                 *)
Spec == Init /\ [][Next]_vars /\ WF_vars(Step)

-----------------------------------------------------------------------------
(* Properties.                                                             *)

TypeOK ==
  /\ pc \in {"ask", "receive", "judge", "sleep"} \cup Ended
  /\ attempt \in 0..Attempts /\ revision \in 0..MaxChanges
  /\ capture \in Seq([page : 1..Pages, revision : 0..MaxChanges])
  /\ answer \in Answer /\ denied \in BOOLEAN /\ missing \in BOOLEAN

(* What a read returns is every page once, in order, all of them of the    *)
(* last attempt; no request follows an answer that denied one, and only a  *)
(* complete 404 means that there is nothing.                               *)
WholeOrNothing ==
  /\ pc = "returned" => /\ Len(capture) = Pages
                        /\ \A i \in DOMAIN capture : capture[i].page = i
  /\ pc \in {"sleep", "ask", "receive", "returned"} => ~denied
  /\ pc = "absent" => missing /\ denied

(* Every read ends.                                                        *)
Ends == <>(pc \in Ended)
=============================================================================
