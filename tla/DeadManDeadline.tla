---------------------------- MODULE DeadManDeadline ----------------------------
(***************************************************************************)
(* When a dead-man fires.  arm_dead_man reads the device's clock, in       *)
(* whichever form the device renders it, adds the minutes and writes a     *)
(* start-date and a start-time; the scheduler fires when the device's      *)
(* clock reads them.  The clock shows local time: it is put back at the    *)
(* end of summer time and put forward at its start, or when NTP corrects   *)
(* it.                                                                     *)
(***************************************************************************)
EXTENDS RosDateTime

CONSTANTS
    InitClocks,     \* what the clock may read when arm_dead_man is called
    Minutes,        \* the windows asked for
    SummerTimeEnds, \* the clock reading that becomes one of an hour before
    Forward,        \* the minutes it may be put forward by, at any time
    Horizon         \* bounds the minutes that pass

ASSUME DeadManDeadlineConstants ==
    /\ \A d \in InitClocks : IsDateTime(d) /\ d.year < 9998   \* no deadline overflows
    /\ Minutes \subseteq 1..60      \* validate_dead_man_minutes
    /\ IsDateTime(SummerTimeEnds) /\ SummerTimeEnds.hour >= 1
    /\ Forward \subseteq 1..60
    /\ Horizon \in Nat

VARIABLES
    clock,          \* the date and time of /system/clock
    form,           \* how it renders them
    pc,             \* the request that comes next, or "ended"
    minutes,        \* the window
    start,          \* start-date and start-time: computed, then the entry's
    armed,          \* the entry is in /system/scheduler and going to run
    shift,          \* the minutes the clock was put forward by since the call
    elapsed,        \* history: minutes since the clock was read
    fired           \* history: the entry has fired

vars == <<clock, form, pc, minutes, start, armed, shift, elapsed, fired>>

NoStart == Rendered(NotADate, "other")

\* RouterOS accepts the traditional form whatever form it displays.
Due(entry) == ParseRosDateTime(entry[1], entry[2])

TypeOK ==
    /\ IsDateTime(clock)
    /\ form \in Forms
    /\ pc \in {"clock", "add", "ended"}
    /\ minutes \in Minutes
    /\ start = NoStart \/ IsDateTime(Due(start))
    /\ armed \in BOOLEAN
    /\ shift \in Forward \cup {0, -60}
    /\ elapsed \in 0..Horizon
    /\ fired \in BOOLEAN

Init ==
    /\ clock \in InitClocks
    /\ form \in Forms
    /\ pc = "clock"
    /\ minutes \in Minutes
    /\ start = NoStart
    /\ armed = FALSE
    /\ shift = 0
    /\ elapsed = 0
    /\ fired = FALSE

\* Mutant: minutes and hours carry, the date does not.
DeadlineToday(now, window) == [PlusMinutes(now, window) EXCEPT
    !.year = now.year, !.month = now.month, !.day = now.day]
\* Mutant: the minutes are lost.
DeadlineNow(now, window) == now
Deadline(now, window) == PlusMinutes(now, window)

\* Mutant: a clock that cannot be parsed is taken for the first second of 1970.
EpochUnlessParsed(shown) ==
    LET parsed == ParseRosDateTime(shown[1], shown[2])
    IN  IF parsed # NotADate THEN parsed
        ELSE [NotADate EXCEPT !.year = 1970, !.month = 1, !.day = 1]
Now(shown) == ParseRosDateTime(shown[1], shown[2])

\* _dead_man_deadline: a clock it cannot parse ends the call in an error.
ReadClock ==
    LET now == Now(Rendered(clock, form))
    IN  /\ pc = "clock"
        /\ \/ /\ now = NotADate
              /\ pc' = "ended"
              /\ UNCHANGED start
           \/ /\ now # NotADate
              /\ pc' = "add"
              /\ start' = FormatRosDateTime(Deadline(now, minutes))
        /\ UNCHANGED <<clock, form, minutes, armed, shift, elapsed, fired>>

\* The add of arm_dead_man.
Add ==
    /\ pc = "add"
    /\ pc' = "ended"
    /\ armed' = TRUE
    /\ UNCHANGED <<clock, form, minutes, start, shift, elapsed, fired>>

\* A preview ends here, and so does an add that does not reach the device.
NoAdd ==
    /\ pc = "add"
    /\ pc' = "ended"
    /\ start' = NoStart
    /\ UNCHANGED <<clock, form, minutes, armed, shift, elapsed, fired>>

\* The scheduler runs the entry, which removes itself, in the minute it is due.
Fire ==
    /\ armed
    /\ Due(start) = clock
    /\ armed' = FALSE
    /\ fired' = TRUE
    /\ start' = NoStart
    /\ UNCHANGED <<clock, form, pc, minutes, shift, elapsed>>

\* A minute passes, with no call in flight: one takes less than that.
MinutePasses ==
    /\ pc = "ended"
    /\ armed /\ Due(start) # clock
    /\ elapsed < Horizon
    /\ elapsed' = elapsed + 1
    /\ UNCHANGED <<form, pc, minutes>>

SummerEnds == shift = 0 /\ NextMinute(clock) = SummerTimeEnds

Tick ==
    /\ MinutePasses
    /\ ~SummerEnds
    /\ clock' = NextMinute(clock)
    /\ UNCHANGED <<start, armed, shift, fired>>

\* The clock is put back an hour at the end of summer time.
PutBack ==
    /\ MinutePasses
    /\ SummerEnds
    /\ clock' = [NextMinute(clock) EXCEPT !.hour = @ - 1]
    /\ shift' = -60
    /\ UNCHANGED <<start, armed, fired>>

\* The clock is put forward.  RouterOS, of an entry whose start it jumps over:
\* it runs at once or never.
PutForward(by) ==
    /\ MinutePasses
    /\ ~SummerEnds /\ shift = 0 /\ NextMinute(clock).year < 9998
    /\ clock' = PlusMinutes(NextMinute(clock), by)
    /\ shift' = by
    /\ \/ /\ MinutesBetween(clock', Due(start)) >= 0
          /\ UNCHANGED <<start, armed, fired>>
       \/ /\ MinutesBetween(clock', Due(start)) < 0
          /\ start' = NoStart
          /\ armed' = FALSE
          /\ fired' \in BOOLEAN

Moves == PutBack \/ \E by \in Forward : PutForward(by)

Next == ReadClock \/ Add \/ NoAdd \/ Fire \/ Tick \/ Moves

Spec == Init /\ [][Next]_vars

\* The device's clock runs, and so does its scheduler.
FairSpec == Spec /\ WF_vars(Tick \/ Moves) /\ WF_vars(Fire)

-----------------------------------------------------------------------------
(* Properties.                                                              *)

\* "Fires exactly ONCE, `minutes` after being armed" (arm_dead_man).
FiresOnTime ==
    /\ armed => elapsed <= minutes
    /\ fired => elapsed = minutes

\* It does, across midnight and the ends of months and years and whatever form
\* the clock is rendered in, unless the clock is moved meanwhile.
FiresOnTimeOtherwise == shift = 0 => FiresOnTime

\* "arm_dead_man must never guess a deadline from a clock it couldn't actually
\* read" (_dead_man_deadline): what it writes is later than the clock by the
\* minutes asked for, as the calendar counts them.
NeverAGuess ==
    start # NoStart =>
        MinutesBetween(clock, Due(start)) = minutes - elapsed - shift

\* A dead-man that was armed fires, unless the clock jumps over its start.
ArmedFires == armed ~> (fired \/ (shift > 0 /\ ~armed))

\* The minutes a countdown would show.
Left == IF pc = "clock" \/ start = NoStart THEN -1 ELSE MinutesBetween(clock, Due(start))

Timer == INSTANCE Countdown WITH Longest <- 60, left <- Left

\* The date and time arm_dead_man computes make a countdown of the minutes it
\* was asked for, which only a clock that is moved prolongs or cuts short.
CountsDown == Timer!Spec
=============================================================================
