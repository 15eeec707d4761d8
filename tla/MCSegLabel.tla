----------------------------- MODULE MCSegLabel -----------------------------
(***************************************************************************)
(* Small instances of SegLabel for TLC.  Two workloads, two identities of  *)
(* which one may reach the one service, and the workload that is the other *)
(* one's peer.                                                             *)
(***************************************************************************)
EXTENDS SegLabel, TLC

CONSTANTS web, pay,          \* workloads
          payment, unknown,  \* identities
          database,          \* service
          t1, t2             \* threads

\* A clock that advances between any two readings.
FineClock == {1}

\* A clock that is also stepped back between two readings (NTP, an operator).
SteppingClock == {-1, 1}

DefaultForm == {[status |-> "DEFAULT", confirmed |-> None]}
ConfirmedForm == DefaultForm \cup {[status |-> "CONFIRMED", confirmed |-> None]}

PaymentReachesDatabase == {<<payment, database>>}

ThreadSymmetry == Permutations(Procs)

=============================================================================
