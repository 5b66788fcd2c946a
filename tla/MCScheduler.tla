---------------------------- MODULE MCScheduler -----------------------------
(* Four lines of exec.txt: two of them share a number, and one has a lower  *)
(* number than all, that of a program without tickets.                      *)
EXTENDS Scheduler

Numbers == <<2, 1, 2, 0>>

=============================================================================
