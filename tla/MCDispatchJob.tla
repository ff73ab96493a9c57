---------------------------- MODULE MCDispatchJob ----------------------------
(* A small instance of DispatchJob for TLC. *)
EXTENDS DispatchJob

CONSTANTS j1, j2, linkedin, pod1, pod2

TwoJobs == {j1, j2}
OnePlatform == {linkedin}
TwoPods == {pod1, pod2}
=============================================================================
