------------------------------ MODULE MCEnrolment ------------------------------
\* A small instance of Enrolment for TLC.
EXTENDS Enrolment
=============================================================================
