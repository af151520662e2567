------------------------------- MODULE Deadlines -------------------------------
(***************************************************************************)
(* The firmware keeps every deadline as an absolute millis() value, with 0 *)
(* meaning "none", and polls it from loop() as                              *)
(*                                                                          *)
(*       if (deadline && millis() > deadline) ...                           *)
(*                                                                          *)
(* The models keep the distance instead: a deadline of now+n is n+1 ticks   *)
(* away from being passed, the clock brings every armed deadline one tick   *)
(* nearer, and a deadline stays passed until the code clears it.  The       *)
(* wrap-around of the 32-bit millis() counter is left out here.             *)
(***************************************************************************)
EXTENDS Integers

\* No deadline: the 0 of the code.
Off == -1

\* millis() + n.
After(n) == n + 1

\* deadline != 0
Armed(d) == d # Off

\* deadline && millis() > deadline
Passed(d) == d = 0

\* The same deadline one tick later.
Ticked(d) == IF d > 0 THEN d - 1 ELSE d

\* Deadlines at most max ticks ahead.
Deadline(max) == Off .. After(max)
================================================================================
