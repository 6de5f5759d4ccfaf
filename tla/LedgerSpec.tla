---------------------------- MODULE LedgerSpec ----------------------------
(***************************************************************************)
(* What the version ledger promises (docs/VERSIONING.md, "Durable          *)
(* allocation and retries"), with no API requests, retries or crashes:     *)
(* a reservation appends one plan with a number above every number ever    *)
(* allocated, a publication consumes the number of one reserved plan, and  *)
(* nothing else ever happens to the counter, the floor or the plans.       *)
(* VersionLedger implements this specification.                            *)
(***************************************************************************)
EXTENDS Naturals

VARIABLES
  counter,            \* largest build number ever allocated
  publication_floor,  \* largest build number ever consumed by a publication
  plans               \* every reservation ever made

vars == <<counter, publication_floor, plans>>

Init ==
  /\ counter = 0
  /\ publication_floor = 0
  /\ plans = {}

(* One atomic allocation: the run has none yet, its number is above the    *)
(* counter, and a candidate's tag is reserved by nobody else. A stable tag *)
(* has no sequence: two runs may reserve it, one can create it.            *)
Reserve(p) ==
  /\ p.number > counter
  /\ \A q \in plans : q.run # p.run /\ (q.tag = p.tag => p.channel = "stable")
  /\ counter' = p.number
  /\ plans' = plans \cup {p}
  /\ UNCHANGED publication_floor

(* One publication: the number is reserved and above every consumed one.   *)
Consume(p) ==
  /\ p \in plans
  /\ p.number > publication_floor
  /\ publication_floor' = p.number
  /\ UNCHANGED <<counter, plans>>

Next == \E p \in plans' : Reserve(p) \/ Consume(p)

Spec == Init /\ [][Next]_vars
=============================================================================
