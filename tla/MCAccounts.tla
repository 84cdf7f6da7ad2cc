----------------------------- MODULE MCAccounts -----------------------------
(* Accounts for TLC.                                                       *)
EXTENDS Accounts, TLC
CONSTANTS T1, T2, p1, p2, e1, e2, s1, s2, r1, r2

(* Requests and emails are interchangeable; ids and tokens are not, they   *)
(* are chosen.                                                             *)
Symmetry == Permutations(Requests) \cup Permutations(Emails)
=============================================================================
