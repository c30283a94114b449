--------------------------- MODULE MCDeadManDeadline ---------------------------
(***************************************************************************)
(* A small instance of DeadManDeadline: clocks shortly before the ends of  *)
(* a day, of months of every length and of a year, and in the small hours. *)
(***************************************************************************)
EXTENDS DeadManDeadline

At(year, month, day, hour, minute) ==
    [year |-> year, month |-> month, day |-> day,
     hour |-> hour, minute |-> minute, second |-> 59]

MCInitClocks ==
    { At(2026, 12, 31, 23, 58), At(2026, 7, 13, 23, 1), At(2026, 7, 13, 14, 42),
      At(2027, 1, 31, 23, 59), At(2026, 9, 30, 23, 30), At(2026, 10, 25, 1, 30) }
    \cup {At(year, 2, 28, 23, 58) : year \in {2000, 2026, 2028, 2100}}
    \cup {At(2028, 2, 29, 23, 57), At(1970, 1, 2, 0, 0), At(2026, 10, 25, 2, 58)}

\* The end of summer time in Europe.
MCSummerTimeEnds == At(2026, 10, 25, 3, 0)
=============================================================================
