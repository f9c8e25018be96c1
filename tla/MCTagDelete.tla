---------------------------- MODULE MCTagDelete -----------------------------
(* A small instance of TagDelete for TLC.                                  *)
EXTENDS TagDelete

\* The first tag outlasts the three verification attempts, and with the second
\* deleted the job is at 99.5 % while the third is untouched.
LongAndShort == <<4000, 1000, 10>>
=============================================================================
