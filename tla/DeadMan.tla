------------------------------- MODULE DeadMan -------------------------------
(***************************************************************************)
(* The dead-man of guard.py: a risky write to the radio link that carries  *)
(* the management session is preceded by a one-shot scheduler entry, local *)
(* to the device, that restores the fields read before the write.          *)
(*                                                                         *)
(* Three actors interleave: the server (one tool call in flight, since the *)
(* tools are synchronous functions of one event loop), the device (its     *)
(* scheduler and its DFS channel check) and an administrator working on    *)
(* the device behind the server's back.  Each API request of a call is one *)
(* step; between two steps the device and the clock may move.  Time is in  *)
(* seconds and advances by Granule.                                        *)
(***************************************************************************)
EXTENDS Integers, FiniteSets

CONSTANTS
    Value,          \* field values, as the API sends them
    Mhz,            \* Mhz[v]: the frequency value v as a number
    Kilometres,     \* the values of distance that are a number of km
    LinkUp(_),      \* LinkUp(r): the management link works when the row is r
    InitRows,       \* the rows the device may start with
    Requests,       \* the tool calls the operator may make
    Edits,          \* what an administrator may set behind the server's back
    Name,           \* dead-man names (uuid4 hex): bounds those armed at once
    Granule,        \* seconds per step of the clock
    CallLimit,      \* seconds from reading the clock to the end of the write
    Lossy,          \* requests and replies may be lost while the link works
    OneAtATime      \* the operator lets one dead-man resolve before the next

\* The fields of a /interface/wireless row that the tools read or set.
Field == {"frequency", "channel-width", "frequency-mode", "tx-power",
          "tx-power-mode", "distance", "adaptive-noise-immunity"}

\* A row, or the fields a command sets.  Absent: not in the row.
Absent == "absent"
Rows == [Field -> Value \cup {Absent}]
NoFields == [f \in Field |-> Absent]

\* `f \in Given(row)` is the code's `"f" in row`.
Given(r) == {f \in Field : r[f] # Absent}

Tools == {"set_wireless_channel", "set_wireless_tx_power",
          "set_wireless_tuning", "arm_dead_man"}

NoRequest == [tool |-> "none", fields |-> NoFields, arm |-> FALSE,
              minutes |-> 0, confirm |-> FALSE]

\* validate_dead_man_minutes: 1 to 60.
DeadManMinutes == 1..60

\* The arguments each tool accepts, after its validators.
WellFormed(r) ==
    /\ r \in [tool : Tools, fields : Rows, arm : BOOLEAN,
              minutes : DeadManMinutes, confirm : BOOLEAN]
    /\ r.tool = "set_wireless_channel" =>
         /\ "frequency" \in Given(r.fields)
         /\ Given(r.fields) \subseteq {"frequency", "channel-width"}
    /\ r.tool = "set_wireless_tx_power" =>
         /\ Given(r.fields) = {"tx-power-mode", "tx-power"}
         /\ r.fields["tx-power-mode"] = "all-rates-fixed"
    /\ r.tool = "set_wireless_tuning" =>
         Given(r.fields) \subseteq {"distance", "adaptive-noise-immunity"}
    /\ Given(r.fields) # {}

NoName == "no dead-man"

\* The countdown of an entry that is never going to run.
Never == -1

ASSUME DeadManConstants ==
    /\ NoName \notin Name
    /\ InitRows \subseteq Rows
    /\ Edits \subseteq Rows
    /\ Absent \notin Value
    /\ Mhz \in [DOMAIN Mhz -> Nat]
    /\ \A r \in Requests : WellFormed(r)
    /\ Granule \in Nat \ {0}
    /\ CallLimit \in Nat
    /\ Lossy \in BOOLEAN
    /\ OneAtATime \in BOOLEAN

VARIABLES
    row,        \* the device's /interface/wireless row
    cac,        \* seconds left of its DFS channel availability check
    armed,      \* the dead-men in /system/scheduler
    onEvent,    \* onEvent[n]: the fields n's script restores
    left,       \* left[n]: seconds until n fires, or Never
    pc,         \* the next API request of the call in flight
    req,        \* its arguments
    before,     \* its BEFORE row
    name,       \* the dead-man it arms or cancels
    age,        \* seconds since it read the clock
    atRisk,     \* history: <<f, n>> when f was changed under n, not settled
    confirmed,  \* history: fields, with values, the operator confirmed
    told        \* history: the dead-men armed that a reply named

device == <<row, cac, armed, onEvent, left>>
call == <<pc, req, before, name, age>>
history == <<atRisk, confirmed, told>>
vars == <<device, call, history>>

Steps == {"idle", "read", "clock", "add", "write", "find", "remove"}

-----------------------------------------------------------------------------
(* Rows, and the DFS channel availability check.                            *)

\* RouterOS `set`: the given fields change, the others stay.
Override(r, fields) ==
    [f \in Field |-> IF f \in Given(fields) THEN fields[f] ELSE r[f]]

Only(r, S) == [f \in Field |-> IF f \in S THEN r[f] ELSE Absent]
Without(r, S) == [f \in Field |-> IF f \in S THEN Absent ELSE r[f]]

\* _dfs_cac_seconds, of a row's frequency under its frequency-mode.
DfsCacSeconds(r) ==
    IF r["frequency-mode"] = "superchannel" \/ r["frequency"] \notin DOMAIN Mhz
    THEN 0
    ELSE IF Mhz[r["frequency"]] \in 5600..5650 THEN 600
    ELSE IF Mhz[r["frequency"]] \in 5250..5725 THEN 60
    ELSE 0

\* The device checks a channel when it moves to it.
CacAfter(old, new) ==
    IF new["frequency"] = old["frequency"]
    THEN cac ELSE DfsCacSeconds(new)

Reachable == LinkUp(row) /\ cac = 0

-----------------------------------------------------------------------------
(* What a request asks for.                                                 *)

\* Mutant: a numeric distance counts as safe.
ChannelOrPower(r) == r.tool \in {"set_wireless_channel", "set_wireless_tx_power"}
LockoutRisk(r) ==
    \/ r.tool \in {"set_wireless_channel", "set_wireless_tx_power"}
    \/ /\ r.tool = "set_wireless_tuning"
       /\ "distance" \in Given(r.fields)
       /\ r.fields["distance"] \in Kilometres

Arms(r) == r.arm /\ LockoutRisk(r)

\* What guard.py documents as unable to drop an associated link.
Harmless == {"adaptive-noise-immunity"}

\* The fields whose change could cut the link, and that the revert restores.
RevertFields(r) ==
    IF r.tool = "set_wireless_tuning" THEN {"distance"} ELSE Given(r.fields)

\* Mutant: the revert restores the frequency and forgets the width.
PartialRevert(r, b) == Only(b, RevertFields(r) \ {"channel-width"})
\* _arm_wireless_revert; arm_dead_man itself takes the caller's commands.
Revert(r, b) ==
    IF r.tool = "arm_dead_man" THEN r.fields ELSE Only(b, RevertFields(r))

\* Mutant: the minutes are taken for seconds.
DeadlineInSeconds(r) == r.minutes
\* _dead_man_deadline, relative to the clock it read.
Deadline(r) == r.minutes * 60

\* The seconds asked for have not passed since the clock was read.
InTime(r) == age < r.minutes * 60

\* Mutant: the window check is dropped.
AnyWindow(r, b) == RevertFields(r) \subseteq Given(b)
\* The checks made before arming; when one fails the call ends in an error.
CanArm(r, b) ==
    /\ r.tool = "set_wireless_channel" =>
         DfsCacSeconds(Override(b, r.fields)) <= r.minutes * 60
    /\ RevertFields(r) \subseteq Given(b)

TypeOK ==
    /\ row \in Rows
    /\ cac \in Nat
    /\ armed \subseteq Name
    /\ onEvent \in [Name -> Rows]
    /\ left \in [Name -> Nat \cup {Never}]
    /\ pc \in Steps
    /\ req \in Requests \cup {NoRequest}
    /\ before \in Rows
    /\ name \in Name \cup {NoName}
    /\ pc \in {"add", "find", "remove"} => name \in Name
    /\ (pc = "write" /\ Arms(req)) => name \in Name
    /\ age \in Nat
    /\ atRisk \subseteq Field \X Name
    /\ confirmed \in Rows
    /\ told \subseteq armed

-----------------------------------------------------------------------------
(* The server's tool calls.                                                 *)

\* The call ends, with a result or an error.
Return ==
    /\ pc' = "idle"
    /\ req' = NoRequest
    /\ before' = NoFields
    /\ name' = NoName
    /\ age' = 0

GoTo(step) == pc' = step /\ UNCHANGED <<req, before, name, age>>

Init ==
    /\ row \in InitRows
    /\ LinkUp(row)
    /\ cac = 0
    /\ armed = {}
    /\ onEvent = [n \in Name |-> NoFields]
    /\ left = [n \in Name |-> 0]
    /\ pc = "idle"
    /\ req = NoRequest
    /\ before = NoFields
    /\ name = NoName
    /\ age = 0
    /\ atRisk = {}
    /\ confirmed = NoFields
    /\ told = {}

FreshNames == Name \ armed

Begin(r) ==
    /\ pc = "idle"
    /\ OneAtATime => armed = {}
    /\ FreshNames # {}
    /\ pc' = IF r.tool = "arm_dead_man" THEN "clock" ELSE "read"
    /\ req' = r
    /\ UNCHANGED <<before, name, age, device, history>>

\* _resolve_wireless_interface reads the BEFORE row.  A preview ends here; so
\* does a call whose dead-man could not restore what the write changes.
ReadRow ==
    /\ pc = "read"
    /\ Reachable
    /\ \/ /\ \/ ~req.confirm
             \/ Arms(req) /\ ~CanArm(req, row)
          /\ Return
       \/ /\ req.confirm
          /\ Arms(req) => CanArm(req, row)
          /\ pc' = IF Arms(req) THEN "clock" ELSE "write"
          /\ before' = row
          /\ UNCHANGED <<req, name, age>>
    /\ UNCHANGED <<device, history>>

\* _dead_man_deadline reads the device's clock (one it cannot parse ends the
\* call, as in Fail); the name is drawn.
ReadClock ==
    /\ pc = "clock"
    /\ Reachable
    /\ \/ ~req.confirm /\ Return
       \/ /\ req.confirm
          /\ pc' = "add"
          /\ name' \in FreshNames
          /\ UNCHANGED <<req, before, age>>
    /\ UNCHANGED <<device, history>>

\* RouterOS, of a one-shot entry: one that comes after its own start runs at
\* once or never.
Countdowns == IF age < Deadline(req) THEN {Deadline(req) - age} ELSE {0, Never}

\* arm_dead_man adds the one-shot entry and journals its name.  When the reply
\* is lost the call ends in an error, with the entry armed.
AddScheduler ==
    /\ pc = "add"
    /\ Reachable
    /\ armed' = armed \cup {name}
    /\ onEvent' = [onEvent EXCEPT ![name] = Revert(req, before)]
    /\ \E seconds \in Countdowns : left' = [left EXCEPT ![name] = seconds]
    /\ \/ /\ req.tool = "arm_dead_man"
          /\ told' = told \cup {name}
          /\ Return
       \/ /\ req.tool # "arm_dead_man"
          /\ GoTo("write")
          /\ UNCHANGED told
       \/ /\ Lossy
          /\ Return
          /\ UNCHANGED told
    /\ UNCHANGED <<row, cac, atRisk, confirmed>>

\* The write itself, however long ago the clock was read.  It may cut the link
\* that its reply, with the dead-man's name, comes back on.
WriteRow ==
    /\ pc = "write"
    /\ Reachable
    /\ row' = Override(row, req.fields)
    /\ cac' = CacAfter(row, row')
    /\ \/ told' = told \cup ({name} \cap armed)
       \/ (Lossy \/ ~Reachable') /\ UNCHANGED told
    /\ Return
    /\ atRisk' = IF Arms(req) /\ InTime(req)
                 THEN atRisk \cup ((Given(req.fields) \ Harmless) \X {name})
                 ELSE atRisk
    /\ confirmed' = Without(confirmed, Given(req.fields))
    /\ UNCHANGED <<armed, onEvent, left>>

\* cancel_dead_man takes any name of that shape: the reply's, the journal's, one
\* that the scheduler tool lists, or one that is no longer there.
BeginCancel(n) ==
    /\ pc = "idle"
    /\ pc' = "find"
    /\ name' = n
    /\ UNCHANGED <<req, before, age, device, history>>

\* Found, which ends a preview, or ResourceNotFoundError: fired already, or
\* cancelled.
FindScheduler ==
    /\ pc = "find"
    /\ Reachable
    /\ \/ name \in armed /\ GoTo("remove")
       \/ Return
    /\ UNCHANGED <<device, history>>

\* Mutant: the remove names no row.
KeepEntry(n) == UNCHANGED <<armed, onEvent, left, told>>
\* Takes n out of /system/scheduler.
Drop(n) ==
    /\ armed' = armed \ {n}
    /\ onEvent' = [onEvent EXCEPT ![n] = NoFields]
    /\ left' = [left EXCEPT ![n] = 0]
    /\ told' = told \ {n}

\* The remove, by the .id found: it fails when the entry fired in between.  Who
\* cancels the last dead-man it was told of confirms what that one covered.
RemoveScheduler ==
    /\ pc = "remove"
    /\ Reachable
    /\ \/ /\ name \in armed
          /\ Drop(name)
          /\ atRisk' = atRisk \ (Field \X {name})
          /\ confirmed' = IF told \subseteq {name}
                          THEN Override(confirmed, Only(row, Given(onEvent[name])))
                          ELSE confirmed
       \/ /\ name \notin armed
          /\ UNCHANGED <<armed, onEvent, left, history>>
    /\ Return
    /\ UNCHANGED <<row, cac>>

\* A request that never reaches the device ends the call in an error.
Fail ==
    /\ pc # "idle"
    /\ Lossy \/ ~Reachable
    /\ Return
    /\ UNCHANGED <<device, history>>

CallStep ==
    \/ ReadRow
    \/ ReadClock
    \/ AddScheduler
    \/ WriteRow
    \/ FindScheduler
    \/ RemoveScheduler
    \/ Fail

-----------------------------------------------------------------------------
(* The device, the administrator and the clock.                             *)

\* The on-event script: restore the fields, remove the entry.
Fire(n) ==
    /\ n \in armed
    /\ left[n] = 0
    /\ row' = Override(row, onEvent[n])
    /\ cac' = CacAfter(row, row')
    /\ Drop(n)
    /\ atRisk' = atRisk \ (Field \X {n})
    /\ UNCHANGED <<call, confirmed>>

Edit(fields) ==
    /\ row' = Override(row, fields)
    /\ cac' = CacAfter(row, row')
    /\ confirmed' = Without(confirmed, Given(fields))
    /\ UNCHANGED <<armed, onEvent, left, call, atRisk, told>>

Minus(seconds) == IF seconds > Granule THEN seconds - Granule ELSE 0

\* A call that arms a dead-man is between reading the clock and its last write.
Arming == pc \in {"add", "write"} /\ name # NoName

\* A due entry fires before the clock moves on, and a call that has read the
\* clock ends within CallLimit of it (client.py's socket timeouts).
Tick ==
    /\ \A n \in armed : left[n] # 0
    /\ Arming => age + Granule <= CallLimit
    /\ cac' = Minus(cac)
    /\ left' = [n \in Name |-> IF left[n] = Never THEN Never ELSE Minus(left[n])]
    /\ age' = IF Arming THEN age + Granule ELSE age
    /\ UNCHANGED <<row, armed, onEvent, pc, req, before, name, history>>

Next ==
    \/ \E r \in Requests : Begin(r)
    \/ \E n \in Name : BeginCancel(n)
    \/ CallStep
    \/ \E n \in Name : Fire(n)
    \/ \E fields \in Edits : Edit(fields)
    \/ Tick

Spec == Init /\ [][Next]_vars

\* The device runs its scheduler and its clock; a call ends, if only by its
\* timeouts.  Nothing obliges the operator to call again.
Fairness ==
    /\ WF_vars(CallStep)
    /\ WF_vars(\E n \in Name : Fire(n))
    /\ WF_vars(Tick)

FairSpec == Spec /\ Fairness

-----------------------------------------------------------------------------
(* Properties that hold whatever the operator, the administrator and the    *)
(* network do.                                                              *)

\* A risky write that leaves the server before its window is over does so while
\* the dead-man armed for it is in the device's scheduler, restores every field
\* the write changes from the row read before, and is not due yet
\* (set_wireless_channel, _tx_power and _tuning, through _arm_wireless_revert).
ArmedBeforeWrite ==
    (pc = "write" /\ Arms(req) /\ InTime(req)) =>
        /\ name \in armed
        /\ left[name] > 0
        /\ Given(req.fields) \ Harmless \subseteq Given(onEvent[name])
        /\ \A f \in Given(onEvent[name]) : onEvent[name][f] = before[f]

\* Every field such a write changed stays covered by that call's own dead-man
\* until it fires or the operator cancels it by name, however many calls,
\* lost replies, firings and edits come in between.
NothingUnprotected ==
    \A f \in Field, n \in Name :
        <<f, n>> \in atRisk => n \in armed /\ f \in Given(onEvent[n])

-----------------------------------------------------------------------------
(* Properties that need the operator to let one dead-man resolve before the *)
(* next change, and nobody else editing the row.                            *)

\* "The device heals itself": the link works with the row as it is, or some
\* dead-man in the scheduler restores a row with which it does.
Recoverable ==
    LinkUp(row) \/ \E n \in armed : LinkUp(Override(row, onEvent[n]))

\* "The change stays": what the operator confirmed, by cancelling every dead-man
\* a reply named, keeps its value until somebody sets it anew.
ConfirmedChangeStays ==
    \A f \in Given(confirmed) : row[f] = confirmed[f]

\* A dead-man never fires while the interface is still in the channel check
\* its own write started (the window check of set_wireless_channel).
NeverFiresMidCac ==
    \A n \in armed : left[n] = 0 => cac = 0

\* A device that a change made unreachable becomes reachable again.
SelfHeals == ~Reachable ~> Reachable
=============================================================================
