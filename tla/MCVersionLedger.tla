-------------------------- MODULE MCVersionLedger --------------------------
(* Instances of VersionLedger for TLC. *)
EXTENDS VersionLedger, TLC

CONSTANTS r1, r2, r3, b1

(* A nightly, two RCs or an RC and the stable release of the first RC.     *)
CandidateRequests ==
  {[channel |-> "nightly", base |-> b1, rc |-> 0],
   [channel |-> "rc",      base |-> b1, rc |-> 0],
   [channel |-> "stable",  base |-> b1, rc |-> 1]}

AllRequests == CandidateRequests \cup {[channel |-> "beta", base |-> b1, rc |-> 0]}

RunSymmetry == Permutations(Runs)
=============================================================================
