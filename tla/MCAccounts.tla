----------------------------- MODULE MCAccounts -----------------------------
(* Two people and two requests at once; two trips to the provider. *)
EXTENDS Accounts, TLC

CONSTANTS p1, p2, r1, r2, n1, n2

MCLimits == [csrf |-> 2, user |-> 2, token |-> 2, aircraft |-> 2]

Symmetric == Permutations(Person) \cup Permutations(Request)
             \cup Permutations(Registration)
=============================================================================
