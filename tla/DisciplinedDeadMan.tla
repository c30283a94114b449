--------------------------- MODULE DisciplinedDeadMan ---------------------------
(***************************************************************************)
(* DeadMan as guard.py's docstrings ask the operator to use it: one        *)
(* protected change at a time, nobody else editing the row, and a window   *)
(* that outlasts the channel check.  What the dead-man then promises as a  *)
(* whole is SafeChange.                                                    *)
(***************************************************************************)
EXTENDS DeadMan

CONSTANT Settings   \* the rows this use can lead to

\* The operator waits for one dead-man to fire or be cancelled before the next
\* change, the tools compose the revert themselves, and the row is theirs alone.
ASSUME OneTrialAtATime ==
    /\ OneAtATime
    /\ Edits = {}
    /\ \A q \in Requests : q.tool # "arm_dead_man"

\* What set_wireless_tuning documents as unable to drop an associated link:
\* noise immunity, and a distance the device manages itself.
Innocuous(fields) ==
    {f \in Given(fields) :
        f \in Harmless \/ (f = "distance" /\ fields[f] \notin Kilometres)}

\* Nobody opts out of the dead-man, and it is true of the link what
\* set_wireless_tuning documents.
ASSUME ProtectedChanges ==
    /\ InitRows \subseteq Settings
    /\ Settings \subseteq Rows
    /\ \A q \in Requests, r \in Settings :
         /\ q.arm
         /\ Override(r, q.fields) \in Settings
         /\ Override(r, Only(q.fields, Innocuous(q.fields))) \in Settings
         /\ LinkUp(r) => LinkUp(Override(r, Only(q.fields, Innocuous(q.fields))))

\* A call is over within the shortest window (a timeout of 20 seconds or less on
\* each of its three requests; devices.yaml may set more).
ASSUME CallsAreShort == CallLimit \in 0..59

\* A window long enough for the channel check is long enough for it and the
\* call as well: the check starts with the write, the window with the clock.
ASSUME WindowsOutlastCalls ==
    \A q \in Requests, r \in Settings :
        (/\ q.tool = "set_wireless_channel"
         /\ DfsCacSeconds(Override(r, q.fields)) <= q.minutes * 60) =>
            DfsCacSeconds(Override(r, q.fields)) + CallLimit <= q.minutes * 60

\* The configuration: the fields that could cut the link.
Risky(r) == Without(r, Harmless)

\* What firing would restore; with nothing on trial, the row as it is.
Saved ==
    IF armed = {} THEN Risky(row)
    ELSE Risky(Override(row, onEvent[CHOOSE n \in armed : TRUE]))

Abs == INSTANCE SafeChange WITH
    Config <- Rows,
    config <- Risky(row),
    onTrial <- armed # {},
    saved <- Saved

\* Used one at a time, the dead-man is a transaction: a protected change is
\* kept as written, or undone exactly (arm_dead_man, cancel_dead_man and the
\* on-event script of _build_dead_man_script).
CommitsOrRollsBack == Abs!Spec
=============================================================================
