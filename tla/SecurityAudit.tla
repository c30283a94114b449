----------------------------- MODULE SecurityAudit -----------------------------
(***************************************************************************)
(* The read-only tools of security.py: the audit, which reads nine menus   *)
(* of a device one request after the other and reports what it finds wrong *)
(* in them, and the security events, filtered out of the device's log.     *)
(*                                                                         *)
(* What a menu holds is chosen when it is read, so an administrator may    *)
(* have changed anything since the last request.  A row keeps the fields   *)
(* the checks look at; a field the row does not have is Absent, which the  *)
(* code reads like an empty one.  A read stands for all its retries        *)
(* (DeviceClient).                                                         *)
(***************************************************************************)
EXTENDS Integers, Sequences, FiniteSets, SequencesExt

CONSTANTS
    Contents,       \* Contents[m]: what menu m may hold when it is read
    Generations,    \* the sets of menus a device may have
    NotText,        \* names the API hands over as an int or as True
    Logs,           \* what its log may hold, oldest row first
    Limits          \* the limits a caller of security_events may ask for

\* The menus in the order of _CHECKS; the wireless check reads two.
MenuOrder == <<"service", "filter", "community", "dns", "update",
               "security-profiles", "wifi security", "user", "certificate">>

Menus == Range(MenuOrder)

Absent == ""

\* A boolean, under the names RouterOS has for it; librouteros hands over bools.
Flag == {Absent, "true", "yes", "false", "no"}

\* The fields the checks look at; left has the minutes until a certificate's
\* invalid-after, or nothing when that cannot be read.
Row(m) ==
    CASE m = "service" -> [name : STRING, disabled : Flag, address : STRING]
      [] m = "filter" -> [chain : STRING, disabled : Flag, action : STRING]
      [] m = "community" -> [name : STRING, addresses : STRING]
      [] m = "dns" -> [remote : Flag]
      [] m = "update" -> [installed : STRING, latest : STRING]
      [] m = "security-profiles" -> [mode : STRING]
      [] m = "wifi security" -> [passphrase : STRING, authentication : STRING]
      [] m = "user" -> [name : STRING, group : STRING]
      [] m = "certificate" -> [expired : Flag, left : Seq(Int)]

\* The DNS and the update settings of a device are one row each.
Settings == {"dns", "update"}
IsContent(m, rows) == rows \in Seq(Row(m)) /\ (m \in Settings => Len(rows) <= 1)

LogRow == [topics : SUBSET STRING, login : BOOLEAN]

ASSUME SecurityAuditConstants ==
    /\ DOMAIN Contents = Menus
    /\ \A m \in Menus : \A rows \in Contents[m] : IsContent(m, rows)
    /\ Generations \subseteq SUBSET Menus
    /\ NotText \subseteq STRING
    /\ Logs \subseteq Seq(LogRow)
    /\ Limits \subseteq Nat \ {0}

Severities == <<"high", "medium", "low", "info">>

Findings == [menu : Menus, row : Nat, severity : Range(Severities)]

\* A whole menu's finding has row 0.
Finding(m, i, severity) == [menu |-> m, row |-> i, severity |-> severity]

\* What a list comprehension keeps of s: what it has at the places S, in order.
Place(S, k) == CHOOSE i \in S : Cardinality({j \in S : j <= i}) = k
Filtered(s, S) == [k \in 1..Cardinality(S) |-> s[Place(S, k)]]

-----------------------------------------------------------------------------
(* The checks.                                                              *)

\* ros_bool.
RosBool(v) == v \notin {Absent, "false", "no"}

OpenToAny(address) == address \in {Absent, "0.0.0.0/0"}

\* One finding for each row that the check finds fault with; severity[i] is what
\* it makes of row i.
PerRow(m, severity) ==
    Filtered([i \in DOMAIN severity |-> Finding(m, i, severity[i])],
             {i \in DOMAIN severity : severity[i] # "none"})

WholeMenu(m, wrong, severity) ==
    IF wrong THEN <<Finding(m, 0, severity)>> ELSE <<>>

ServiceSeverity(row) ==
    IF RosBool(row.disabled) THEN "none"
    ELSE IF row.name \in {"telnet", "ftp"}
         THEN IF OpenToAny(row.address) THEN "high" ELSE "low"
    ELSE IF row.name \in {"www", "api"}
         THEN IF OpenToAny(row.address) THEN "medium" ELSE "low"
    ELSE IF row.name = "winbox" /\ OpenToAny(row.address) THEN "medium"
    ELSE "none"

InputRules(rows) ==
    Filtered(rows,
             {i \in DOMAIN rows : rows[i].chain = "input" /\ ~RosBool(rows[i].disabled)})

NoFinalDrop(rows) ==
    \/ InputRules(rows) = <<>>
    \/ Last(InputRules(rows)).action \notin {"drop", "reject"}

CommunitySeverity(row) ==
    IF row.name = "public" \/ OpenToAny(row.addresses) THEN "medium" ELSE "none"

OpenResolver(rows) == rows # <<>> /\ RosBool(Head(rows).remote)

Outdated(rows) ==
    /\ rows # <<>>
    /\ Absent \notin {Head(rows).installed, Head(rows).latest}
    /\ Head(rows).installed # Head(rows).latest

ProfileSeverity(row) == IF row.mode = "none" THEN "high" ELSE "none"

WifiSeverity(row) ==
    IF row.passphrase = Absent /\ row.authentication = Absent
    THEN "high" ELSE "none"

Sensitive(rows) == \E i \in DOMAIN rows : rows[i].group \in {"full", "write"}

\* Mutant: int() of the quotient, as of a certificate that expires today.
DaysTowardsZero(minutes) ==
    IF minutes < 0 THEN -((-minutes) \div 1440) ELSE minutes \div 1440
\* days_until: timedelta.days rounds down, so one minute late is a day late.
DaysUntil(minutes) == minutes \div 1440

CERT_EXPIRY_WARNING_DAYS == 30

CertificateSeverity(row) ==
    IF RosBool(row.expired) THEN "high"
    ELSE IF row.left = <<>> THEN "none"
    ELSE IF DaysUntil(row.left[1]) < 0 THEN "high"
    ELSE IF DaysUntil(row.left[1]) <= CERT_EXPIRY_WARNING_DAYS THEN "medium"
    ELSE "none"

Check(m, rows) ==
    CASE m = "service" -> PerRow(m, [i \in DOMAIN rows |-> ServiceSeverity(rows[i])])
      [] m = "filter" -> WholeMenu(m, NoFinalDrop(rows), "medium")
      [] m = "community" -> PerRow(m, [i \in DOMAIN rows |-> CommunitySeverity(rows[i])])
      [] m = "dns" -> WholeMenu(m, OpenResolver(rows), "medium")
      [] m = "update" -> WholeMenu(m, Outdated(rows), "low")
      [] m = "security-profiles" -> PerRow(m, [i \in DOMAIN rows |-> ProfileSeverity(rows[i])])
      [] m = "wifi security" -> PerRow(m, [i \in DOMAIN rows |-> WifiSeverity(rows[i])])
      [] m = "user" -> WholeMenu(m, Sensitive(rows), "info")
      [] m = "certificate" -> PerRow(m, [i \in DOMAIN rows |-> CertificateSeverity(rows[i])])

\* strip, sorted or join of a name that is no str: an AttributeError or a
\* TypeError.
CheckRaises(m, rows) ==
    \/ m = "community" /\ \E i \in DOMAIN rows : rows[i].name \in NotText
    \/ m = "user" /\ \E i \in DOMAIN rows :
          \/ rows[i].group \in NotText
          \/ rows[i].group \in {"full", "write"} /\ rows[i].name \in NotText

OfSeverity(found, severity) ==
    Filtered(found, {i \in DOMAIN found : found[i].severity = severity})

\* Mutant: the severities in alphabetical order.
SortedByName(found) ==
    OfSeverity(found, "high") \o OfSeverity(found, "info")
      \o OfSeverity(found, "low") \o OfSeverity(found, "medium")
\* list.sort is stable.
Sorted(found) ==
    OfSeverity(found, "high") \o OfSeverity(found, "medium")
      \o OfSeverity(found, "low") \o OfSeverity(found, "info")

Summary(found) ==
    [severity \in Range(Severities) |-> Len(OfSeverity(found, severity))]

-----------------------------------------------------------------------------
(* The security events.                                                     *)

IsSecurityEvent(row) ==
    \/ row.topics \cap {"account", "critical", "error"} # {}
    \/ {"system", "info"} \subseteq row.topics /\ row.login

LastRows(rows, n) == SubSeq(rows, IF Len(rows) > n THEN Len(rows) - n + 1 ELSE 1, Len(rows))

SecurityRows(rows) == Filtered(rows, {i \in DOMAIN rows : IsSecurityEvent(rows[i])})

\* Mutant: the last rows of the log, and of these the matching ones.
CutThenFilter(rows, limit) == SecurityRows(LastRows(rows, limit))
FilterSecurityEvents(rows, limit) == LastRows(SecurityRows(rows), limit)

-----------------------------------------------------------------------------

VARIABLES
    menus,      \* the menus the device has
    conn,       \* the cached connection: none, or a session live or dead
    pc,         \* idle, auditing, done, or raised
    asked,      \* how many menus the audit has read
    found,      \* findings so far
    report,     \* what the audit returned
    heard,      \* history: how the device answered for each menu
    rowsOf,     \* history: the rows it answered with
    log,        \* history: the log as security_events read it
    limit,      \* its limit
    events      \* what it returned

audit == <<asked, found, report, heard, rowsOf>>
seen == <<log, limit, events>>
vars == <<menus, conn, pc, audit, seen>>

NoReport == [findings |-> <<>>, summary |-> [s \in Range(Severities) |-> 0]]

Answers == {"not asked", "rows", "no such menu", "lost"}

TypeOK ==
    /\ menus \in Generations
    /\ conn \in {"none", "live", "dead"}
    /\ pc \in {"idle", "auditing", "done", "raised"}
    /\ asked \in 0..Len(MenuOrder)
    /\ found \in Seq(Findings)
    /\ report \in [findings : Seq(Findings), summary : [Range(Severities) -> Nat]]
    /\ heard \in [Menus -> Answers]
    /\ \A m \in Menus : heard[m] = "rows" => m \in menus /\ rowsOf[m] \in Contents[m]
    /\ pc = "done" => asked = Len(MenuOrder)
    /\ log \in Seq(LogRow)
    /\ limit \in Limits \cup {0}
    /\ events \in Seq(LogRow)

\* The client may have been used before, and its session be gone.
Init ==
    /\ menus \in Generations
    /\ conn \in {"none", "live", "dead"}
    /\ pc = "idle"
    /\ asked = 0
    /\ found = <<>>
    /\ report = NoReport
    /\ heard = [m \in Menus |-> "not asked"]
    /\ rowsOf = [m \in Menus |-> <<>>]
    /\ log = <<>>
    /\ limit = 0
    /\ events = <<>>

Begin ==
    /\ pc # "auditing"
    /\ pc' = "auditing"
    /\ asked' = 0
    /\ found' = <<>>
    /\ report' = NoReport
    /\ heard' = [m \in Menus |-> "not asked"]
    /\ rowsOf' = [m \in Menus |-> <<>>]
    /\ log' = <<>>
    /\ limit' = 0
    /\ events' = <<>>
    /\ UNCHANGED <<menus, conn>>

\* The next request is the audit's, and there is a connection for it.
Asking == pc = "auditing" /\ asked < Len(MenuOrder) /\ conn # "none"

NextMenu == MenuOrder[asked + 1]

\* Mutant: a failure costs the next menu too.
SkipsNext == asked + 2
\* Mutant: one try around both reads of the wireless check.
SkipsWifi == IF NextMenu = "security-profiles" THEN asked + 2 ELSE asked + 1
AfterFailure == asked + 1

Connects ==
    /\ pc = "auditing"
    /\ conn = "none"
    /\ conn' = "live"
    /\ UNCHANGED <<menus, pc, audit, seen>>

\* DeviceConnectionError, CircuitOpenError or an error of the TLS set-up: no
\* check and not the backstop catches it.
ConnectFails ==
    /\ pc = "auditing"
    /\ conn = "none"
    /\ pc' = "raised"
    /\ UNCHANGED <<menus, conn, audit, seen>>

ReadMenu ==
    /\ Asking
    /\ conn = "live"
    /\ NextMenu \in menus
    /\ heard' = [heard EXCEPT ![NextMenu] = "rows"]
    /\ asked' = asked + 1
    /\ \E rows \in Contents[NextMenu] :
         /\ rowsOf' = [rowsOf EXCEPT ![NextMenu] = rows]
         /\ \/ /\ ~CheckRaises(NextMenu, rows)
               /\ found' = found \o Check(NextMenu, rows)
               /\ UNCHANGED pc
            \/ /\ CheckRaises(NextMenu, rows)
               /\ pc' = "raised"
               /\ UNCHANGED found
    /\ UNCHANGED <<menus, conn, report, seen>>

\* DeviceCommandError: RouterOS knows no such menu, or nothing comes back.
\* Either way the check has nothing to report.
ReadFails ==
    /\ Asking
    /\ \/ /\ conn = "live" /\ NextMenu \notin menus
          /\ heard' = [heard EXCEPT ![NextMenu] = "no such menu"]
          /\ UNCHANGED conn
       \/ /\ heard' = [heard EXCEPT ![NextMenu] = "lost"]
          /\ conn' \in {conn, "dead"}
    /\ asked' = AfterFailure
    /\ UNCHANGED <<menus, pc, found, report, rowsOf, seen>>

Finish ==
    /\ pc = "auditing"
    /\ asked = Len(MenuOrder)
    /\ pc' = "done"
    /\ report' = [findings |-> Sorted(found), summary |-> Summary(found)]
    /\ UNCHANGED <<menus, conn, asked, found, heard, rowsOf, seen>>

\* security_events, when its read succeeds.
SecurityEvents(rows, n) ==
    /\ pc = "idle"
    /\ log' = rows
    /\ limit' = n
    /\ events' = FilterSecurityEvents(rows, n)
    /\ UNCHANGED <<menus, conn, pc, audit>>

Next ==
    \/ Begin
    \/ Connects
    \/ ConnectFails
    \/ ReadMenu
    \/ ReadFails
    \/ Finish
    \/ \E rows \in Logs, n \in Limits : SecurityEvents(rows, n)

Spec == Init /\ [][Next]_vars

-----------------------------------------------------------------------------
(* Properties.                                                              *)

On(m, severity, rows, P(_)) ==
    {Finding(m, i, severity) : i \in {j \in DOMAIN rows : P(rows[j])}}

Enabled(row) == row.disabled \in {Absent, "no", "false"}

\* README's list of the eight checks, of the rows the audit was given.
Warrants(m, rows) ==
    CASE m = "service" ->
           LET Exposed(row) == Enabled(row) /\ row.address \in {"", "0.0.0.0/0"}
               Restricted(row) == Enabled(row) /\ row.address \notin {"", "0.0.0.0/0"}
           IN  On(m, "high", rows, LAMBDA row : Exposed(row) /\ row.name \in {"telnet", "ftp"})
               \cup On(m, "medium", rows,
                       LAMBDA row : Exposed(row) /\ row.name \in {"www", "api", "winbox"})
               \cup On(m, "low", rows,
                       LAMBDA row : Restricted(row) /\ row.name \in {"telnet", "ftp", "www", "api"})
      [] m = "filter" ->
           LET Rule(i) == rows[i].chain = "input" /\ Enabled(rows[i])
               Closed == \E i \in DOMAIN rows :
                           /\ Rule(i) /\ rows[i].action \in {"drop", "reject"}
                           /\ \A j \in DOMAIN rows : j > i => ~Rule(j)
           IN  IF Closed THEN {} ELSE {Finding(m, 0, "medium")}
      [] m = "community" ->
           On(m, "medium", rows, LAMBDA row : row.name = "public")
           \cup On(m, "medium", rows, LAMBDA row : row.addresses \in {"", "0.0.0.0/0"})
      [] m = "dns" ->
           {Finding(m, 0, "medium") : i \in {j \in DOMAIN rows : rows[j].remote \in {"yes", "true"}}}
      [] m = "update" ->
           {Finding(m, 0, "low") : i \in {j \in DOMAIN rows :
               /\ Cardinality({rows[j].installed, rows[j].latest}) = 2
               /\ Absent \notin {rows[j].installed, rows[j].latest}}}
      [] m = "security-profiles" -> On(m, "high", rows, LAMBDA row : row.mode = "none")
      [] m = "wifi security" ->
           On(m, "high", rows, LAMBDA row : row.passphrase = "" /\ row.authentication = "")
      [] m = "user" ->
           {Finding(m, 0, "info") : i \in {j \in DOMAIN rows : rows[j].group \in {"full", "write"}}}
      [] m = "certificate" ->
           LET Expired(row) == \/ row.expired \in {"yes", "true"}
                               \/ row.left # <<>> /\ row.left[1] < 0
               Soon(row) == ~Expired(row) /\ row.left # <<>> /\ row.left[1] < 31 * 24 * 60
           IN  On(m, "high", rows, Expired) \cup On(m, "medium", rows, Soon)

\* Whatever menus the device lacks and whatever requests are lost, the audit
\* reports what README promises for each menu it could read, all of it and
\* nothing else, once, and counts it right (run_security_audit).
Warranted ==
    pc = "done" =>
        /\ Range(report.findings) =
             UNION {Warrants(m, rowsOf[m]) : m \in {n \in Menus : heard[n] = "rows"}}
        /\ IsInjective(report.findings)
        /\ \A s \in Range(Severities) :
             report.summary[s] = Cardinality({f \in Range(report.findings) : f.severity = s})

Position(m) == CHOOSE k \in DOMAIN MenuOrder : MenuOrder[k] = m

\* The worst comes first; findings of one severity keep the order of the
\* checks and of the rows.
Ranked ==
    LET Rank(s) == CHOOSE k \in DOMAIN Severities : Severities[k] = s
        f == report.findings
    IN  \A i, j \in DOMAIN f : i < j =>
          \/ Rank(f[i].severity) < Rank(f[j].severity)
          \/ /\ f[i].severity = f[j].severity
             /\ \/ Position(f[i].menu) < Position(f[j].menu)
                \/ f[i].menu = f[j].menu /\ f[i].row < f[j].row

\* "One check being unavailable never stops the rest of the audit": an audit
\* that returns has asked for every menu, and one that raises has asked for
\* none, because the only errors it lets through are those of connecting; or it
\* was given a community or a user with a name, or a group, that is not text.
AsksForEverything ==
    /\ pc = "done" => \A m \in Menus : heard[m] # "not asked"
    /\ pc = "raised" =>
         \/ \A m \in Menus : heard[m] = "not asked"
         \/ \E m \in {"community", "user"} :
              /\ heard[m] = "rows"
              /\ \E i \in DOMAIN rowsOf[m] : Range(rowsOf[m][i]) \cap NotText # {}

\* A check contributes nothing only "if that menu doesn't exist on this device".
SilentOnlyWithoutMenu ==
    pc = "done" => \A m \in Menus : heard[m] # "rows" => m \notin menus

\* The most recent matching rows of the whole log, however much else it holds:
\* a match is left out only when there are limit later ones.
LatestMatches ==
    limit > 0 =>
        LET Match(i) == IsSecurityEvent(log[i])
            Later(i) == {j \in DOMAIN log : j > i /\ Match(j)}
            Kept == {i \in DOMAIN log : Match(i) /\ Cardinality(Later(i)) < limit}
        IN  /\ Len(events) = Cardinality(Kept)
            /\ \A i \in Kept : events[Len(events) - Cardinality(Later(i))] = log[i]
=============================================================================
