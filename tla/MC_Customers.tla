------------------------------- MODULE MC_Customers ------------------------------
(* Small instances of CustomerDirectory for TLC. *)
EXTENDS CustomerDirectory, TLC

\* Goroutines, payments and emails are interchangeable; customer rows are not,
\* the migration orders them.
Symmetry == Permutations(Requests) \cup Permutations(Payments) \cup Permutations(Emails)
================================================================================
