------------------------------- MODULE MCSignIn -------------------------------
(* A small instance of SignIn for TLC. *)
EXTENDS SignIn, TLC

\* An installation with a local administrator and accounts of the provider.
BackupTables ==
  {[a \in Accounts |->
      [role |-> IF a \in Locals THEN "admin" ELSE "viewer", disabled |-> FALSE,
       password |-> a \in Locals, recheck |-> FALSE, epoch |-> 1]]}

Symmetry ==
  Permutations(Browsers) \cup Permutations(Persons) \cup Permutations(SessionIds)
=============================================================================
