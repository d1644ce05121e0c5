---------------------------- MODULE MCSubmission ----------------------------
(* Small instances of Submission: one or two applicants of one account.    *)
EXTENDS Submission

CONSTANTS p1, p2
=============================================================================
