------------------------------ MODULE MCFees ------------------------------
(* Fees on small instances. *)
EXTENDS Fees

\* The requests are interchangeable, so one of them stands for all.
AnyRequestIsAnswered == Answered(CHOOSE r \in Requests : TRUE)
=============================================================================
