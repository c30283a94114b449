# A formal model of mcp-mikrotik

mcp-mikrotik is an MCP server that lets a language-model client read and,
behind a gate, change MikroTik routers over the RouterOS API. These TLA+
modules model what is hard to test in it: writes that may cut the link they
travel on, a connection layer with retries and a circuit breaker, guarded writes
that read first and write some requests later, and an audit that goes on when its
reads fail. TLC checks the modules on
small instances; TLAPS proves every safety property that holds and both refinements,
for every value of the constants.

Paths below are relative to the repository (`src/mcp_mikrotik/` is written
without its prefix).

## The system

| Part | State it keeps | Operations | What is hard |
|---|---|---|---|
| Dead-man writes (`guard.py` 3698-4452) | a one-shot entry in the device's `/system/scheduler`; a `/interface/wireless` row; nothing in the server | `arm_dead_man`, `cancel_dead_man`, `set_wireless_channel`, `set_wireless_tx_power`, `set_wireless_tuning` | the write can cut its own reply; entry, channel check (DFS CAC), operator and network race; the device must heal without anybody |
| Device client (`client.py`) | cached connection, breaker count and opening time | reads with retries, writes once, close | half-open breaker, lost replies, dead cached sessions, concurrency |
| Guarded writes on a menu's rows (`guard.py`) | the device's menus; the journal | some forty tools of one shape: gate, validate, read, resolve, preview or write, journal | another administrator between read and write; ambiguous identifiers; duplicates; errors after the write was made |
| Reordering rules (`move_firewall_rule`) | the order of `/ip/firewall/filter` | move in front of a rule, or to a position | positions that shift; repeating a lost call |
| Other writes (`guard.py`) | the device | `set_ntp_servers`, `set_wifi_ssid`, `add_wireguard_peer`, `clear_dns_cache`, `wake_on_lan`, `set_identity` | an SSID kept in one of three menus, found by reads that may fail; two NTP slots for any list of servers |
| Journal (`audit.py`, `correlation.py`) | an append-only file | `record` | every call must leave one entry, also those that fail |
| Server (`server.py`), pool (`client.py`) | one client per device | `get`, `close_all`; about 150 tool wrappers | little: the tools are synchronous functions, run one at a time |
| Security audit (`security.py`) | none | `security_audit`: eight checks that read nine menus; `security_events` | menus a device does not have, reads that are lost, rows that change in between |
| Formatting, validation (`formatting.py`, `validation.py`) | none | pure conversions and checks | dates in every form RouterOS shows them |
| Configuration, errors | read once at start; none | | |

A tool wrapper of `server.py` takes the device's client from the pool and calls
a function of `guard.py` (writes) or a primitive of `client.py` (reads).
`guard.py` asks the gate (`allow_write`), reads the menu it is about to change
through the client, and ends in exactly one write primitive; the wireless
writes first call `arm_dead_man`, itself a guarded write with its own journal
entry. The client connects on first use, through the breaker, and keeps the
connection until the server ends. The device acts on its own too: its
scheduler fires the dead-man, its radio checks a DFS channel before using it,
and its administrators use other clients.

What makes each part correct:

- **Dead-man**: no risky write without complete protection; protection lasts
  until it fires or is cancelled; what was confirmed stays; what was not
  confirmed is undone exactly; the device comes back.
- **Client**: a write at most once; calls end; failing fast, but never longer
  than the cooldown; recovery after an outage.
- **Guarded writes**: only the row the caller named, only with the gate open
  and `confirm`; ambiguity refused; no duplicates; a journal that tells what
  happened.
- **Reordering**: one rule moves, to where it was asked to, once.
- **Other writes**: the part of the device the caller named ends as asked, nothing
  else changes, and what could not be done is said.
- **Audit**: every menu is asked for; what was read is reported, all of it and
  nothing else, the worst first.
- **Dates**: the deadline written is the minutes asked for after the clock read.

## The modules

### DeadMan, with MCDeadMan and DeadMan_proof

`DeadMan` has the wireless row (`row`), the channel check (`cac`, seconds left)
and the scheduler (`armed`, `onEvent`, `left`) of the device, and the call in flight
of the server (`pc`, `req`, `before`, `name`, and `age`, the seconds since it read the
clock). `atRisk`, `confirmed` and `told` (the armed dead-men that a reply named) are
history. Each API request is an action, so that the clock, the scheduler, an administrator's edit or a lost
message can come between any two:

| Action | Code |
|---|---|
| `Begin`, `ReadRow` | entry of a wireless write; `_resolve_wireless_interface`, the preview, and the checks made before arming (`CanArm`: the window against the CAC of the target channel, every field to restore is in the row) |
| `ReadClock`, `AddScheduler` | `_dead_man_deadline`, then the add of `arm_dead_man` |
| `WriteRow` | the write, whose reply carries the name |
| `BeginCancel`, `FindScheduler`, `RemoveScheduler` | `cancel_dead_man`, of any name: the reply's, the one `arm_dead_man` journals (`guard.py` 4009), one the `scheduler` tool lists (`server.py` 341-348), or one that is gone |
| `Fail` | a request that never arrives |
| `Fire` | the on-event script built by `_build_dead_man_script` |
| `Edit`, `Tick` | an administrator; time |

Abstracted: the script's text (to the fields it restores), names (to model values)
and the deadline (to the seconds left; `DeadManDeadline` has its calendar). A
reboot of the device is not modelled. Which rows
keep the link alive is the constant operator `LinkUp`: the properties do not
depend on radio physics. An operator confirms a change by cancelling the last
dead-man that a reply named; one that no reply named may be cancelled too, but nothing
obliges anybody to look for it.

`CallLimit` is the longest a call takes from reading the clock to writing. Socket
timeouts bound it and the default ones keep it below a minute, but `devices.yaml` may
set any timeout (`config.py` 127-135), so `DeadMan` assumes nothing of it. In a call
slower than its window the entry fires before the write it should protect, or is
added after its own start (`Countdowns`: RouterOS then runs it at once or never).
`ArmedBeforeWrite` and `NothingUnprotected` speak of the writes sent while their
window is open (`InTime`); one that is sent later is unprotected, in the model as in
the code, which compares the two times nowhere.

### DisciplinedDeadMan, with SafeChange, MCDisciplinedDeadMan and DisciplinedDeadMan_proof

`DeadMan` as the docstrings ask the operator to use it. `SafeChange` is what it then
promises: a transaction that starts by saving the configuration, changes it, and
commits or rolls back. `DisciplinedDeadMan` maps `DeadMan` to it (`Abs`): a trial is a
non-empty scheduler; the configuration is the row without the one field that cannot
cut the link (`Risky`); what is saved is the row as the armed entry would leave it
(`Saved`). The discipline is four named assumptions on the constants:

- `OneTrialAtATime`: the next change waits until the dead-man of the last one fired
  or was cancelled, reverts are composed by the tools, nobody else edits the row. The
  docstrings say what to do with a dead-man (`cancel_dead_man` once the change is
  confirmed good, or let it revert) and nothing says what two of them do together;
  `DeadManOrphan` shows what goes wrong.
- `ProtectedChanges`: nobody passes `arm_deadman=False` (documented as accepting the
  risk), and what `set_wireless_tuning` documents as unable to drop a link (noise
  immunity; a distance the device manages itself) does not drop it. `Settings` are
  the rows that such changes lead to, from the initial ones.
- `CallsAreShort`: a call is over within the shortest window, a minute, which a timeout
  of 20 seconds or less on each of its three requests gives.
- `WindowsOutlastCalls`: a window that is long enough for the channel check is longer
  by the time a call takes. The code compares the window with the check alone; the
  windows it excludes are those of `DeadManTie`.

### DeadManDeadline, with RosDateTime, Countdown, MCDeadManDeadline and DeadManDeadline_proof

`RosDateTime` has the conversions of `formatting.py`: `ParseRosDateTime` for the
two forms `parse_ros_datetime` knows (and a third it does not), and
`FormatRosDateTime`, which always writes the traditional one. A rendering is a
record of its parts, not a string. `PlusMinutes` is Python's `datetime + timedelta`
and `NextMinute` the device's own clock, both external; `MinutesBetween` counts
days by a closed formula, independently of either, and is what the properties
measure with.

`DeadManDeadline` is one life of a dead-man at the calendar's level: `ReadClock`
(`_dead_man_deadline`), `Add` or `NoAdd` (the end of `arm_dead_man`), and the
device: `Tick`, `Fire`, `PutBack` (the end of summer time, when the local time that
`/system/clock` shows goes back an hour) and `PutForward` (its start, or NTP, at any
minute). A clock put forward over the entry's start leaves it to RouterOS whether the
entry runs at once or never; the model has both. `shift` is how far the clock was moved,
once in a behaviour. It implements `Countdown`,
the timer that `DeadMan` takes for granted: `CountsDown` maps `left` to the minutes
between the clock and the entry's start. The clocks it starts from are before the
year 9998, so that no deadline is past Python's last year.

### DeviceClient, with MCDeviceClient and DeviceClient_proof

One `MikrotikClient`: the cached `conn`, the breaker (`failures`, `opened`,
`sinceOpened`), and for each caller the step it is at, its attempt, its sleep and
the session it uses. `Check` and `Connected`/`ConnectFails`/`TlsSetupFails` are
`_connect_guarded` and `_connect`; `Admit`, `Record` and the counting in
`ConnectFails` are the three locked regions of `CircuitBreaker`;
`Reply`/`Trap`/`Lost` are the outcomes of `_execute_once`; `RetryOrRaise` and
`Wake` are the loop of `_run_read`; `Close` is `ClientPool.close_all`. `quiet` is
history: how long ago a connection attempt last failed.

Several callers are modelled because `CircuitBreaker` documents that several
calls may be in flight; the server as it stands runs its tools one at a time,
which the model includes.

### GuardedWrite, with MCGuardedWrite and GuardedWrite_proof

The one shape of most guarded writes, with a table (`Tool`, one named entry per
tool) for what they differ in: the menu, set / remove / add, which fields
identify a row, and whether several matches are refused or the first is taken.
Rows have two identifying fields, `name` and `detail`; the comments of the table
say which RouterOS fields they are. `Begin` is the gate and the validators,
`Read` the read with everything decided from it, `Write` the one write,
`ReadBack` the second read of `add_wireguard_interface`, `Fails` a lost or
rejected request, `Edit` an administrator. The IPv6, NAT and mangle variants of
a tool run the same code with another menu and are one entry of the table. A
validator's verdict is the request's `valid`. `Numeric` are the texts of digits alone:
the API hands them over as an int, `row.get(field) == value` compares that with a str,
and the row is not found (`Equals`). So a set or remove of a VLAN named `7` ends in not
found, and the duplicate check of an add does not see it. `Carry` is RouterOS: an add
makes a row, except that `/system/backup/save` writes over a file of its name
(`Overwritten`) if one was made since `create_backup` looked.

A call leaves its entry in the journal when the journal can be written: `audit.py`
takes a failure to write it as no reason to fail the call, and the model leaves such
failures out.

### FirewallMove, with MCFirewallMove and FirewallMove_proof

`move_firewall_rule`: `Read` resolves the rule and its destination (`Target`,
`Remaining`, `NewIndex`, `Destination` follow the code line by line), `Move` is
the device's `move`, and an administrator adds and deletes rules in between.
RouterOS's own `move` (in front of the destination, or to the end) is external.

### OtherWrites, with MCOtherWrites and OtherWrites_proof

The six guarded writes that are not of `GuardedWrite`'s shape. The device is a
function from the menus it has to their rows, and a row a record of the fields it
has, because these tools decide by which menus and fields are there. What a tool
does next is an operator of the call and the answers it has so far (`Step`, one
named operator per tool, with the code's own names): ask for a menu, raise, or
send. `Begin`, `Read` and `Write` carry that out one request at a time, an
administrator's `Edit` comes between any two, and `Accepts` is what RouterOS takes.
A preview is a `send` without `confirm`. `set_wifi_ssid` is the only one that goes
on when a read fails (`Survives`). The tools return from the first case that holds,
hence the chains of IF in their operators.

`IsDevice` is what RouterOS keeps true of its menus and these tools rely on: a setting
is one row; names are unique, those of interfaces over both wireless menus; menus of
one package come together; a row has fields of its menu. Initial devices satisfy it
by assumption, and the administrator's edits and the tools' writes are proved to keep
it.

A wifi interface that refers to a configuration nobody has raises
`ResourceNotFoundError` (`guard.py` 960-961), where the docstring of
`_resolve_wifi_ssid_target` (938-945) says `DeviceCommandError`. The model follows the
code.

### SecurityAudit, with MCSecurityAudit and SecurityAudit_proof

`run_security_audit` with its eight checks as operators on a menu's rows
(`ServiceSeverity` ... `CertificateSeverity`, `Check`), its nine reads as steps
(`ReadMenu`, `ReadFails`), the connection they need (`Connects`, `ConnectFails`) and
the sort and the summary (`Finish`); and `security_events` (`FilterSecurityEvents`).
A finding is its menu, row and severity; its texts are left out. `Warrants` is the
reference for `Check`: what README lists as warranting a finding, written with sets
and without following the code. A list comprehension with a condition is `Filtered`:
the places that meet it, counted off in order (`Place`). What a menu may hold is a
parameter, `Contents`, of which `SecurityAuditConstants` assumes what RouterOS
guarantees: rows have the fields the checks look at, a boolean is spelt as RouterOS
does or is missing (`Flag`), and the DNS and the update settings are one row at most
(`Settings`). The code needs that of `disabled`, `remote` and `expired`: `ros_bool`
takes any other text for true, which README's list does not speak of.

`NotText` are the names that arrive as an int or a boolean. A community (`security.py`
223) or a privileged user (398-411) so named raises an `AttributeError` or a
`TypeError` (`CheckRaises`), which is no `DeviceCommandError`, so the audit ends
without a report. This contradicts `security.py` 23 and the repository's README 1161
("One check being unavailable never stops the rest"); `AsksForEverything` states it
as the one exception, beside a device that cannot be connected to.

## What is checked

| Run (cfg) | Question | Result |
|---|---|---|
| `DeadManAnyUse` | Whatever the operator does - several dead-men, arming by hand, declining protection, windows that are too short - and with edits, lost messages, calls slower than a window and rows that lack a field: is every risky write sent in time protected, completely, until it is settled? | holds |
| `DeadManDisciplined` | One dead-man at a time, risky changes protected, nobody else editing: does the dead-man implement `SafeChange` (`CommitsOrRollsBack`), do confirmed changes stay, can the device always be recovered, and does it recover? | holds |
| `DeadManOrphan` | Does a change stay when the dead-man its reply named is cancelled, after an earlier attempt lost its reply? | violated |
| `DeadManTie` | Does the window check keep the revert out of the channel check, at equality? | violated |
| `DeadManDeadline` | Around midnight, the ends of months and years, and with a clock put back or forward: is what is written the time asked for, does the entry fire then, and is it a `Countdown`? | holds |
| `DeviceClient` | Two callers, all failures: writes at most once, fail fast, no refusal beyond the cooldown; calls end; the client recovers when outages spare its session | holds |
| `DeviceClientDropped` | Does it recover when an outage drops the session? | violated |
| `GuardedWriteRaces` | Only the named row, ambiguity refused where the tool refuses it, no duplicate but of a row made meanwhile, a truthful journal, under concurrent edits | holds |
| `FirewallMove` | One rule moves, lands where asked, and moves once if the call is repeated | holds |
| `OtherWrites` | Each of the other writes changes what it was asked to and nothing else, sends nothing the device rejects, accounts for every server, and adds no peer twice | holds |
| `SecurityAudit` | Whatever menus are missing and requests lost: every menu is asked for, the report is what the rows warrant, ranked; the latest events of the whole log | holds |
| `SecurityAuditBlind` | Is a check silent only about a menu the device does not have? | violated |

### What the violated runs show

- `DeadManOrphan`: a move to a DFS channel cuts the link that the reply of its write
  comes back on. The call ends in an error that does not say its dead-man stays armed.
  The operator makes the change again, cancels the dead-man that the second reply names,
  as README 680-681 has it, and the first reverts the change. The first one's name is in
  the journal entry of `arm_dead_man`, and the `scheduler` tool lists it: who looks there
  can cancel both, but no reply says so.
- `DeadManTie`: the check is `required_cac_seconds > deadman_minutes * 60`; at
  equality the countdown, which starts first, ends first.
- `DeviceClientDropped`: `_connect_guarded` returns whatever connection it has;
  nothing clears one that died, so retries and later calls use it for ever.
- `SecurityAuditBlind`: the client raises the same `DeviceCommandError` for a menu
  RouterOS does not know and for a request that got no answer, and the checks take
  both for a missing menu. With the dead session of `DeviceClientDropped` every read
  fails, and the report is that of a device with nothing wrong.

The passing runs show limits too, in what their properties leave out:

- `CommitsOrRollsBack` and `Recoverable` need one dead-man at a time. A dead-man
  restores only its own tool's fields; of two pending ones, one cancelled and one
  fired leave a combination nobody tried.
- `FailFast` says when attempts start, not how many: `before_connect` closes the
  circuit to let the trial through, so a concurrent caller gets through as well.
- `OnlyTheNamedRow` allows any of several rows of one name where the tool takes the
  first (`_find_row_by_field`), and lets `create_backup` strike a file that got its name
  after the check: the docstring promises to refuse one that exists, and the check is a
  request earlier than the save.
- `AddsNoDuplicate` allows a second row when the first was made after the read, does not
  speak of `add_route`, which looks for none, and excepts names of digits alone.
- `FiresOnTimeOtherwise` excepts a clock that is moved: put back at the end of summer
  time, it keeps the change in force for an hour longer than its window; put forward, it
  cuts the window short. `NeverAGuess` bounds it by the minutes the clock was moved.
- `ArmedFires` excepts an entry whose start the clock jumps over.
- `ArmedBeforeWrite` excepts a write sent after its own window.
- `AsksForEverything` excepts names that are not text.
- `NotFoundIsTrue` excepts lost reads, after which "not found" may only mean not read,
  and a wifi configuration that is missing. The properties of `OtherWrites` say nothing
  of calls that an edit came into, except `OnlyItsOwnPart`, which holds of those too.
- `ServersAccountedFor` speaks of the servers, not of a client left at `enabled=no`; that
  a client never configured takes `servers` is assumed in `Accepts`.

### Bounds

- *DeadMan*: one interface; three frequencies (none, one and the other DFS band),
  two widths, two powers, three values of distance; two names, so two dead-men
  overlap, which is all the interplay there is between them (one in the disciplined run,
  which lets one resolve before the next); the clock advances
  by 30 seconds, which divides all windows and checks, so that every order of
  deadline, check and call occurs. Windows of 1, 2, 3 and 11 minutes are shorter
  than, equal to and longer than the checks of 1 and 10. The disciplined run has
  no window equal to a check (`DeadManTie` has) and no edits, since an edit by a
  third party is, rightly, reverted or lost; its `Settings` are all combinations of
  the fields its changes write, which contains every row they lead to. `CallLimit` is 60
  seconds where any use is made of the tools, so that a call may outlast the shortest
  window, and 30 in the other runs.
- *DeviceClient*: two callers; the defaults of three failures and two retries;
  a cooldown of four ticks, longer than any back-off (two ticks), so that
  retries fall inside and outside it. Ages stop at the cooldown, the only value
  they are compared with, and the count one beyond the threshold, past which the
  code does not tell counts apart.
- *GuardedWrite*: at most four rows ever made; tools of every kind of
  identification and of both treatments of ambiguity; the run ends when the ids
  are used up, hence no deadlock check. Five initial devices: two routes to one
  destination; a route that was learned, beside a lease; two records of one DNS name;
  a netwatch and a queue of the name that is asked for, and of another; a VLAN named in
  digits. Edits make, change and remove rows of the names asked for, a file among them.
- *FirewallMove*: five rules on two chains, with comments shared on one chain and
  across chains.
- *DeadManDeadline*: clocks a few minutes before the end of a year, of months of 30
  and 31 days, of February in common, leap and century years of both kinds, and
  before the end of summer time in Europe; every form of rendering; windows of 1, 3,
  59 and 60 minutes, the ends of what the validator lets through and two that
  cross the boundary from some of the clocks. Seconds are carried along and never
  change. The clock is put forward by 5 minutes or an hour, less and more than some of
  the windows. The horizon of 120 minutes is the longest window and the hour of summer
  time. The run ends once the entry fired or was never armed, hence no deadlock
  check.
- *OtherWrites*: one part of a device at a time, since no tool looks at two: wifi
  interfaces with a configuration, with an SSID of their own and of the older menu
  side by side; a device with the older menu only; NTP clients of both generations,
  with and without a field for names, and one never configured; a tunnel with a
  peer; a name and a DNS cache. Lists of one to three servers with addresses and
  names in every place of the first two. Two edits, which is enough to change both
  menus a tool resolves through. An administrator makes no two interfaces of one
  name, as RouterOS does not let him.
- *SecurityAudit*: for every menu, rows on both sides of each line its check draws
  (services by name, address and both spellings of `disabled`; a drop that is
  disabled, or in another chain; certificates a minute before and after each
  limit). Three generations of devices; any read may be lost and any may be the
  last one that gets through. Logs of up to three rows of four kinds, limits 1 and 2.

### Fairness

Safety runs assume none. `DeadMan` assumes that the device runs its scheduler and
its clock and that a call in flight goes on or fails (socket timeouts end every
request); the operator is never obliged to do anything, which is the point of
the dead-man. `DeviceClient` assumes that each call in flight takes its next step
(same reason) and that time passes. `Recovers` itself assumes that calls keep
coming and that the device stays up in the end. Its run has `Flaky` FALSE: a
network that loses every login keeps any client from recovering.
`RecoversIfSessionLives`, in a run where logins may fail, assumes in its place that
they stop failing, and that the session the client holds is not one the outage
ended. `DeadManDeadline` assumes that the device's clock runs and that its
scheduler runs an entry that is due. `OtherWrites` and `SecurityAudit` have safety
properties only: that their calls end is `CallsEnd`, one request at a time.

## What is proved

All proofs are for every value of the constants allowed by the modules' assumptions: any
rows, requests, edits and numbers of dead-men and callers, any threshold, cooldown and
number of retries, lossy network or not.

- `DeadMan_proof`: `TypeCorrect`, `ArmedAlways`, `NothingUnprotectedAlways`. The
  inductive invariant is `TypeOK /\ CallInv /\ NothingUnprotected`. `CallInv` says what
  the call in flight has established at each step: from `add` on, the row it read can be
  restored completely; at `write`, while its window is open, its own entry is in the
  scheduler, restores exactly that row, and has as many seconds left as the window has
  (`left[name] = Deadline(req) - age`), so it is not due. The step that needs an argument
  is `Tick`, which moves both sides alike; nothing is assumed of how long a call takes.
  `NothingUnprotected` then follows because
  `Fire` and `RemoveScheduler` settle what they take out of the scheduler, and a fresh
  name is never one in use.
- `DisciplinedDeadMan_proof`: `ConfirmedChangeStaysAlways`, `RecoverableAlways`,
  `NeverFiresMidCacAlways`, and `Transaction`, that `DeadMan` so used implements
  `SafeChange`, under the four assumptions above. It builds on the invariant of
  `DeadMan_proof` and adds three, each on the last. `QuietInv`: nothing is in the
  scheduler while a change is prepared, nor anything but its own entry when it is
  written, and the row is as it was read. `StayInv`: no entry restores a confirmed field
  to another value. `TrialInv`: what an entry would leave is a row with the link up, and
  the channel check ends no later than the entry's time; without an entry the row itself
  has the link up. The refinement then goes by actions: `AddScheduler` starts a trial,
  whose entry would restore the row as it is (`RestoreIsIdle`); a protected `WriteRow`
  changes the configuration and not what is saved (`WriteKeepsSaved`); `RemoveScheduler`
  commits and `Fire` rolls back.
- `DeadManDeadline_proof`: `TypeCorrect`, `NeverAGuessAlways`,
  `FiresOnTimeOtherwiseAlways`, `ParseInvertsFormat` (what `_dead_man_deadline` writes
  reads back as the same time) and `CountsDownAlways`, the refinement of `Countdown`.
  The lemmas are about the calendar: the day after is one more in the day count, in
  every month of every year (`NextDayIsNext`), so Python's sum and the device's minutes
  agree with `MinutesBetween` (`PlusMinutesAreAsMany`, `NextMinuteIsNext`), and two
  times no minutes apart are one time. A clock that is moved, once, back or forward, shifts
  what is left of the entry by just as much, which `NeverAGuess` says. The invariant is `TypeOK /\ EntryInv /\
  NeverAGuess`: `EntryInv` says that the entry's start is a time as the code writes
  them, not past, to the second, and that there is one exactly while and after the entry
  is armed.
- `DeviceClient_proof`: `TypeCorrect`, `WritesOnce`, `FailsFast`,
  `RefusesOnlyWhileCooling`. The invariant adds to `TypeOK` what the breaker knows (open
  means the failures reached the threshold; the time since opening is the time since the
  last failure) and what each call has done (a write that is not over has not been
  carried out; it has made one attempt). The two action properties follow from it at
  `Admit`, the only action they constrain.
- `GuardedWrite_proof`: `TypeCorrect`, `JournalTellsAlways`, `RefusesAmbiguityAlways`,
  `OnlyTheNamedRowAlways`, `AddsNoDuplicateAlways`. The invariant is `TypeOK /\ CallInv
  /\ JournalTells`. `CallInv` ties the command about to be sent to the rows that were
  read: it is the one the tool decides on from them, which carried the name asked for,
  and alone where the tool refuses several, or had nothing like what is added. An edit since
  may have changed any of them, so the two action properties compare the row struck, or
  doubled, with the row of its id that was read. The one step in which they differ is a
  save over a file made meanwhile.
  That the first of several matches is one of them (`LeastIsIn`) takes well-founded
  induction on the ids, through initial segments that hold no match.
- `FirewallMove_proof`: `TypeCorrect`, `KeepsTheOthersAlways`, `LandsWhereAskedAlways`,
  `RepeatableAlways`. Half of it is about orders: where each rule is after one was taken
  out or put in (`RemoveAtPlaces`, `InsertAtPlaces`), that `Moved` leaves the others in
  their order (`MoveKeeps`), and that the index the code computes is where the rule ends up. The
  invariant says that an unedited menu still gives the answers the call computed.
  `Repeatable` rests on `Settled`: in the menu that a move leaves, the same request
  still resolves, and making its move again changes nothing.
- `OtherWrites_proof`: `TypeCorrect`, `OnlyItsOwnPartAlways`, `AddsNoPeerTwiceAlways`,
  `NeverRefusedAlways`, `NotFoundIsTrueAlways`, `BroadcastsItAlways`,
  `ServersAccountedForAlways`. The invariant is `TypeOK /\ CallInv`: the answers of a
  call are what the device said and, unless it was edited, still has (`Honest`); the
  command about to be sent is the one its tool derives from them (`Sent`, one disjunct
  per way to send). Above it, one group of lemmas shows that a row put, set or removed
  leaves a device RouterOS could have; one computes what an interface broadcasts by
  where its SSID is kept (`BroadcastOfOwn`, `BroadcastOfConfiguration`,
  `BroadcastOfOlder`); one is about the first two of a list and its host names.
- `SecurityAudit_proof`: `TypeCorrect`, `AsksForEverythingAlways`, `WarrantedAlways`,
  `RankedAlways`, `LatestMatchesAlways`, for any contents of the menus, any device and
  any log. Below all of them is what a comprehension keeps (`PlacesInOrder`,
  `FilteredIs`): the number of places up to a place grows with the place, so it maps the
  places kept one to one onto their ranks. Then each check finds what README says its
  rows warrant (`ChecksAreRight`, a lemma for each of the nine menus), in the order of
  the rows. The invariant is `TypeOK /\ AskedInOrder /\ FoundSoFar /\ LatestMatches`.
  `AskedInOrder`: the menus that have been answered for are the first `asked`, and
  without a connection there are none, which is the only state an error gets out of.
  `FoundSoFar`: what was found is what the rows of the menus heard so far warrant, in
  the order of menus and rows; a menu's findings are appended to those of menus before
  it, so no finding is there twice. Sorting joins the findings of each severity, which
  keeps them all and that order within a severity (`SortedIs`). For the events,
  `LastPlaces`: a place of rank k has as many kept places after it as there are ranks
  above k.

The type invariants of `DeadMan`, `GuardedWrite`, `FirewallMove` and `OtherWrites` are
proved and no property of a run: every step keeps them, and a bug in the code would show
in the other properties.

TLC agrees with each inductive invariant on the run of its module; with `TrialInv` and
`StayInv` on the disciplined run with five of its requests, to be done in minutes.

Only model-checked: the liveness properties `SelfHeals`, `CallsEnd`,
`RecoversIfSessionLives` and `ArmedFires`: the prover does not reason about fairness or
ENABLED.

## Not modelled, and why

- Texts, redaction and validation of single arguments: unit tests reach them.
- `server.py`'s registration of tools and `config.py`: declarations and one read
  at start.
- `formatting.py` beyond dates, booleans and days: `split_address_port`, number
  coercion and row filters are pure and a line or two each.
- The read tools of `server.py`: one read, filtered and returned. What can go wrong
  in a read is in `DeviceClient`.
- Texts that arrive as an int outside `GuardedWrite` and `SecurityAudit`: `FirewallMove`
  and `OtherWrites` take comments, names and SSIDs as text. A rule or an interface named
  in digits alone is not found there either.
- A failure to write the journal, which `audit.py` swallows.
- A reply to an abandoned request that arrives on the kept connection, a jump of the
  server's clock, a device clock moved by more than an hour or twice, a reboot of the device: what
  follows is decided by librouteros or RouterOS, not by this code; see the hazards
  in `PROJECT.json`.

## Plan

Done, in the order of importance: `DeadMan`, `DeviceClient`, `GuardedWrite`,
`FirewallMove`, `DeadManDeadline` with `RosDateTime` and `Countdown`, `SecurityAudit`,
`OtherWrites`, recovery of `DeviceClient` with failing logins; the safety properties of
all of them, and the refinements of `SafeChange` and `Countdown`, are proved.

Next to model: a composition of `DeadMan`'s operator with `DeviceClient`
(cancelling a dead-man after the change cut the session the cancellation would
use), and a reboot with both outcomes for a missed one-shot entry.
