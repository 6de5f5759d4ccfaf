---------------------------- MODULE MeterCustody ----------------------------
(***************************************************************************)
(* What a qualification run promises of the lab's meter service            *)
(* (hardware/README.md, "Qualification"), with no collector, journal,      *)
(* exceptions or cleanup: the run announces a stop before it stops, stops  *)
(* at most once, gives the meter back only while it runs, does not touch   *)
(* it before or after, and ends with a meter that runs, unless a restart   *)
(* failed. DeviceRunner implements this specification.                     *)
(***************************************************************************)

VARIABLES
  told,    \* what the supervisor was last told: "up" or "down"
  up,      \* the meter runs
  custody  \* how far the run got: "none", "announced", "held", "returned",
           \* and at its end "ended" or, after a failed restart, "broken"

vars == <<told, up, custody>>

Init == told = "up" /\ up = TRUE /\ custody = "none"

(* The run takes the meter over, and goes on to stop it or fails.          *)
Announce ==
  /\ custody = "none" /\ custody' \in {"announced", "held"}
  /\ UNCHANGED <<told, up>>

(* The one stop; a command that fails may have taken effect.               *)
Stop ==
  /\ custody = "announced" /\ custody' = "held"
  /\ told' \in {told, "down"}
  /\ UNCHANGED up

(* Starting it may be repeated.                                            *)
Start ==
  /\ custody = "held" /\ told' = "up"
  /\ UNCHANGED <<up, custody>>

Return ==
  /\ custody = "held" /\ custody' = "returned"
  /\ told = "up" /\ up
  /\ UNCHANGED <<told, up>>

End ==
  /\ custody \in {"none", "held", "returned"} /\ custody' = "ended"
  /\ told = "up" /\ up
  /\ UNCHANGED <<told, up>>

Break ==
  /\ custody = "held" /\ custody' = "broken"
  /\ UNCHANGED <<told, up>>

(* The supervisor does what it was told.                                   *)
Supervise ==
  /\ up' = (told = "up")
  /\ UNCHANGED <<told, custody>>

Next == Announce \/ Stop \/ Start \/ Return \/ End \/ Break \/ Supervise

Spec == Init /\ [][Next]_vars
=============================================================================
