------------------------------- MODULE Countdown -------------------------------
(***************************************************************************)
(* What a dead-man's deadline promises, with no calendar in it: it is      *)
(* armed with a number of minutes, they pass one by one, and it fires when *)
(* none is left.  This is the timer the module DeadMan takes for granted,  *)
(* except that it follows a wall clock: put back by an hour, that postpones *)
(* it, and put forward it brings it nearer, or passes it over.             *)
(***************************************************************************)
EXTENDS Integers

CONSTANT Longest    \* the longest window

VARIABLE left       \* minutes left, or Off

Off == -1

Init == left = Off
Start == left = Off /\ left' \in 1..Longest
Pass == left > 0 /\ left' = left - 1
Fire == left = 0 /\ left' = Off
Abandon == left # Off /\ left' = Off
Postpone == left > 0 /\ left' = left - 1 + 60
Hasten == left > 0 /\ \E by \in 1..60 : left' = left - 1 - by /\ left' >= 0

Next == Start \/ Pass \/ Fire \/ Abandon \/ Postpone \/ Hasten
Spec == Init /\ [][Next]_left
=============================================================================
