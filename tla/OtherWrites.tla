----------------------------- MODULE OtherWrites -----------------------------
(***************************************************************************)
(* The guarded writes of guard.py that do not look up one row of one menu: *)
(* settings a device has once, commands without a row, a peer that needs   *)
(* its interface in another menu, NTP servers that are fitted into what    *)
(* the RouterOS generation has room for, and the SSID, which is in one of  *)
(* three menus.                                                            *)
(*                                                                         *)
(* A row is a record of the fields it has; the code asks which.  A call    *)
(* reads its menus one request after the other, and an administrator may   *)
(* edit between any two requests.                                          *)
(***************************************************************************)
EXTENDS Integers, Sequences, FiniteSets, SequencesExt

CONSTANTS
    Literals,       \* the NTP servers that are literal IP addresses
    InitDevices,    \* the devices to start with
    Requests,       \* the tool calls the operator may make
    Edits,          \* what an administrator may do to a row: [menu, row]
    MaxId,          \* bounds the rows ever made
    MaxEdits,       \* bounds the edits
    Lossy           \* requests and replies may be lost

Menus == {"identity", "dns cache", "ntp", "wireguard", "peers", "wifi",
          "configuration", "wireless"}

Tools == {"set_identity", "clear_dns_cache", "wake_on_lan",
          "add_wireguard_peer", "set_ntp_servers", "set_wifi_ssid"}

NoRow == [none |-> TRUE]

-----------------------------------------------------------------------------
(* What RouterOS keeps true of a device, whoever edits it.                  *)

IsFcn(f) == f = [x \in DOMAIN f |-> f[x]]

Field(row, f) == f \in DOMAIN row

Refers(row) == Field(row, "configuration") /\ row.configuration # ""

\* An interface of the older menu and a configuration have an SSID, an interface
\* that refers to a configuration has none of its own
\* (_resolve_wifi_ssid_target); the older NTP client has both of its slots.
IsRow(m, row) ==
    /\ IsFcn(row)
    /\ m \in {"configuration", "wireless"} => Field(row, "ssid")
    /\ m = "wifi" /\ Refers(row) => ~Field(row, "ssid")
    /\ m = "ntp" /\ Field(row, "primary") => Field(row, "secondary")

SameName(a, b) == Field(a, "name") /\ Field(b, "name") /\ a.name = b.name

\* Settings, of which a device has one row for good.
Settings == {"identity", "ntp"}

IsMenu(m, rs) ==
    /\ IsFcn(rs)
    /\ DOMAIN rs \subseteq 1..MaxId
    /\ \A i \in DOMAIN rs : IsRow(m, rs[i])
    /\ \A i, j \in DOMAIN rs : SameName(rs[i], rs[j]) => i = j
    /\ m \in Settings => \E i \in 1..MaxId : DOMAIN rs = {i}

\* Ids and names of interfaces are unique across menus; a package brings all of
\* its menus.
IsDevice(d) ==
    /\ IsFcn(d)
    /\ DOMAIN d \subseteq Menus
    /\ \A m \in DOMAIN d : IsMenu(m, d[m])
    /\ \A m, n \in DOMAIN d : m # n => DOMAIN d[m] \cap DOMAIN d[n] = {}
    /\ {"wifi", "wireless"} \subseteq DOMAIN d =>
         \A i \in DOMAIN d["wifi"], j \in DOMAIN d["wireless"] :
            ~SameName(d["wifi"][i], d["wireless"][j])
    /\ "wifi" \in DOMAIN d <=> "configuration" \in DOMAIN d
    /\ "wireguard" \in DOMAIN d <=> "peers" \in DOMAIN d

\* The validators want a server at least.
WellFormed(r) ==
    /\ r.tool \in Tools
    /\ r.confirm \in BOOLEAN
    /\ r.valid \in BOOLEAN
    /\ r.tool = "set_ntp_servers" =>
         r.servers \in Seq(Range(r.servers)) /\ r.servers # <<>>

ASSUME OtherWritesConstants ==
    /\ MaxId \in Nat
    /\ \A d \in InitDevices :
         /\ IsDevice(d)
         /\ \E n \in 0..MaxId : UNION {DOMAIN d[m] : m \in DOMAIN d} = 1..n
    /\ \A r \in Requests : WellFormed(r)
    /\ \A e \in Edits :
         /\ e.menu \in Menus
         /\ IF e.row = NoRow THEN e.menu \notin Settings ELSE IsRow(e.menu, e.row)
    /\ MaxEdits \in Nat
    /\ Lossy \in BOOLEAN

VARIABLES
    allowWrite, \* MIKROTIK_ALLOW_WRITE, as the server was started with
    device,     \* device[m][i]: row i of menu m; its domain is what it has
    next,       \* the next .id
    pc,         \* idle, reading, or writing
    req,        \* the call's arguments
    seen,       \* the answers to its reads, by menu
    cmd,        \* the command it is about to send
    warned,     \* the servers its warning names
    raised,     \* what the last call raised
    outcome,    \* what the journal says of the last call
    wrote,      \* history: the device carried out the call's command
    edited,     \* history: there was an edit since the call began
    edits       \* how many there were at all

call == <<req, seen, cmd, warned, raised, outcome>>
vars == <<allowWrite, device, next, pc, call, wrote, edited, edits>>

-----------------------------------------------------------------------------
(* What a tool does next, of what it has read so far.                       *)

Least(S) == CHOOSE i \in S : \A j \in S : i <= j

NoRows == [i \in {} |-> NoRow]
Failed == [ok |-> FALSE, rows |-> NoRows]
Answer(rs) == [ok |-> TRUE, rows |-> rs]

\* _find_row_by_field: the first row of that name.
Named(rs, name) == {i \in DOMAIN rs : Field(rs[i], "name") /\ rs[i].name = name}

NoCommand == [action |-> "none"]

Ask(m) == [do |-> "ask", menu |-> m]
Raise(error) == [do |-> "raise", error |-> error]
Send(command, dropped) == [do |-> "send", cmd |-> command, warned |-> dropped]

SetRow(m, i, fields) ==
    [action |-> "set", menu |-> m, id |-> i, fields |-> fields]
AddRow(m, fields) == [action |-> "add", menu |-> m, fields |-> fields]

\* The only row of a menu that has just one.
Only(rs) == Least(DOMAIN rs)

set_identity(r, s) ==
    IF "identity" \notin DOMAIN s THEN Ask("identity")
    ELSE Send(SetRow("identity", Only(s["identity"].rows), [name |-> r.name]), {})

clear_dns_cache(r, s) ==
    IF "dns cache" \notin DOMAIN s THEN Ask("dns cache")
    ELSE Send([action |-> "flush", menu |-> "dns cache"], {})

\* Reads nothing and knows no outcome but that the frame was sent.
wake_on_lan(r, s) == Send([action |-> "wake"], {})

\* Mutant: what is there already is no obstacle.
NoObstacle(rs, r) == {}
Duplicates(rs, r) ==
    {i \in DOMAIN rs : rs[i].interface = r.name /\ rs[i].key = r.key}

add_wireguard_peer(r, s) ==
    IF "wireguard" \notin DOMAIN s THEN Ask("wireguard")
    ELSE IF Named(s["wireguard"].rows, r.name) = {} THEN Raise("not found")
    ELSE IF "peers" \notin DOMAIN s THEN Ask("peers")
    ELSE IF Duplicates(s["peers"].rows, r) # {} THEN Raise("already exists")
    ELSE Send(AddRow("peers", [interface |-> r.name, key |-> r.key]), {})

\* The newer RouterOS has one list; so, by assumption, has a client that was
\* never configured.
OldGeneration(row) == ~Field(row, "servers") /\ Field(row, "primary")

FirstTwo(servers) == SubSeq(servers, 1, IF Len(servers) < 2 THEN 1 ELSE 2)

\* Mutant: a host name is sent to its slot like an address.
SlotAnyway(row, servers, k) == k \in DOMAIN FirstTwo(servers)
\* The slots take addresses only.
TakesSlot(row, servers, k) ==
    k \in DOMAIN FirstTwo(servers) /\ servers[k] \in Literals

Folds(row) == Field(row, "dnsNames")

HostNames(servers) ==
    LET host(k) == IF k \in DOMAIN FirstTwo(servers) /\ servers[k] \notin Literals
                   THEN <<servers[k]>> ELSE <<>>
    IN  host(1) \o host(2)

OldFields(row, servers) ==
    [f \in (IF TakesSlot(row, servers, 1) THEN {"primary"} ELSE {})
           \cup (IF TakesSlot(row, servers, 2) THEN {"secondary"} ELSE {})
           \cup (IF Folds(row) /\ HostNames(servers) # <<>>
                 THEN {"dnsNames"} ELSE {}) |->
      CASE f = "primary" -> servers[1]
        [] f = "secondary" -> servers[2]
        [] f = "dnsNames" -> HostNames(servers)]

\* Mutant: the extra servers are dropped in silence.
DropsInSilence(row, servers) ==
    IF Folds(row) THEN {} ELSE Range(HostNames(servers))
\* What the warnings name: the servers from the third on, and host names that
\* the device has no field for.
Ignored(row, servers) ==
    {servers[k] : k \in {j \in DOMAIN servers : j > 2}}
      \cup (IF Folds(row) THEN {} ELSE Range(HostNames(servers)))

set_ntp_servers(r, s) ==
    LET rs == s["ntp"].rows
        row == rs[Only(rs)]
        old == OldGeneration(row)
    IN  IF "ntp" \notin DOMAIN s THEN Ask("ntp")
        ELSE IF ~old THEN Send(SetRow("ntp", Only(rs), [servers |-> r.servers]), {})
        ELSE IF DOMAIN OldFields(row, r.servers) = {} THEN Raise("invalid")
        ELSE Send(SetRow("ntp", Only(rs), OldFields(row, r.servers)),
                  Ignored(row, r.servers))

\* Mutant: the first configuration will do.
AnyConfiguration(rs, name) == DOMAIN rs
ConfigurationOf(rs, name) == Named(rs, name)

\* _resolve_wifi_ssid_target: where the SSID of a wifi interface is.
WifiTarget(r, s, i) ==
    LET row == s["wifi"].rows[i]
        found == ConfigurationOf(s["configuration"].rows, row.configuration)
    IN  IF ~Refers(row)
        THEN IF Field(row, "ssid") THEN Send(SetRow("wifi", i, [ssid |-> r.ssid]), {})
             ELSE Raise("command failed")
        ELSE IF "configuration" \notin DOMAIN s THEN Ask("configuration")
        ELSE IF ~s["configuration"].ok THEN Raise("command failed")
        ELSE IF found = {} THEN Raise("not found")
        ELSE Send(SetRow("configuration", Least(found), [ssid |-> r.ssid]), {})

\* Mutant: the older menu is never asked.
NeverOlder(s) == FALSE
OlderMenuNext(s) == "wireless" \notin DOMAIN s

RowsRead(s, m) == IF m \in DOMAIN s THEN s[m].rows ELSE NoRows

\* A menu that cannot be read is one where the interface is not.
set_wifi_ssid(r, s) ==
    LET here == Named(RowsRead(s, "wifi"), r.name)
        there == Named(RowsRead(s, "wireless"), r.name)
    IN  IF "wifi" \notin DOMAIN s THEN Ask("wifi")
        ELSE IF here # {} THEN WifiTarget(r, s, Least(here))
        ELSE IF OlderMenuNext(s) THEN Ask("wireless")
        ELSE IF there # {} THEN Send(SetRow("wireless", Least(there), [ssid |-> r.ssid]), {})
        ELSE Raise("not found")

\* The other tools let a read that failed end the call.
Survives(r) == r.tool = "set_wifi_ssid"

Step(r, s) ==
    IF ~Survives(r) /\ \E m \in DOMAIN s : ~s[m].ok
    THEN Raise("command failed")
    ELSE CASE r.tool = "set_identity" -> set_identity(r, s)
           [] r.tool = "clear_dns_cache" -> clear_dns_cache(r, s)
           [] r.tool = "wake_on_lan" -> wake_on_lan(r, s)
           [] r.tool = "add_wireguard_peer" -> add_wireguard_peer(r, s)
           [] r.tool = "set_ntp_servers" -> set_ntp_servers(r, s)
           [] r.tool = "set_wifi_ssid" -> set_wifi_ssid(r, s)

-----------------------------------------------------------------------------
(* A call.                                                                  *)

Outcomes == {"none", "preview", "applied", "error"}
Errors == {"none", "disabled", "invalid", "not found", "already exists",
           "command failed"}

NoRequest == [tool |-> "none"]

TypeOK ==
    /\ allowWrite \in BOOLEAN
    /\ IsDevice(device)
    /\ \A m \in DOMAIN device : \A i \in DOMAIN device[m] : i < next
    /\ next \in 1..(MaxId + 1)
    /\ DOMAIN seen \subseteq Menus
    /\ pc \in {"idle", "reading", "writing"}
    /\ req \in Requests \cup {NoRequest}
    /\ pc = "idle" => cmd = NoCommand
    /\ pc = "reading" => Step(req, seen).do = "ask"
    /\ pc = "writing" => cmd = Step(req, seen).cmd /\ cmd # NoCommand
    /\ raised \in Errors
    /\ outcome \in Outcomes
    /\ outcome = "error" <=> raised # "none"
    /\ wrote \in BOOLEAN
    /\ edited \in BOOLEAN
    /\ edits \in 0..MaxEdits

Init ==
    /\ allowWrite \in BOOLEAN
    /\ device \in InitDevices
    /\ next = 1 + Cardinality(UNION {DOMAIN device[m] : m \in DOMAIN device})
    /\ pc = "idle"
    /\ req = NoRequest
    /\ seen = [m \in {} |-> Failed]
    /\ cmd = NoCommand
    /\ warned = {}
    /\ raised = "none"
    /\ outcome = "none"
    /\ wrote = FALSE
    /\ edited = FALSE
    /\ edits = 0

\* _audited: the outcome is journaled as the call returns or raises.
Ends(how, error) ==
    /\ pc' = "idle"
    /\ cmd' = NoCommand
    /\ outcome' = how
    /\ raised' = error

\* The call goes on by itself to its next request, or to its end.
GoesOn(r, s) ==
    LET step == Step(r, s)
    IN  /\ req' = r
        /\ seen' = s
        /\ warned' = IF step.do = "send" THEN step.warned ELSE {}
        /\ \/ /\ step.do = "ask"
              /\ pc' = "reading"
              /\ cmd' = NoCommand
              /\ outcome' = "none" /\ raised' = "none"
           \/ step.do = "raise" /\ Ends("error", step.error)
           \/ step.do = "send" /\ ~r.confirm /\ Ends("preview", "none")
           \/ /\ step.do = "send" /\ r.confirm
              /\ pc' = "writing"
              /\ cmd' = step.cmd
              /\ outcome' = "none" /\ raised' = "none"

Refused(r, error) ==
    /\ Ends("error", error)
    /\ req' = r
    /\ seen' = [m \in {} |-> Failed]
    /\ warned' = {}

\* Mutant: the gate is not asked.
AlwaysOpen == TRUE
\* _require_allowed.
GateOpen == allowWrite

Begin(r) ==
    /\ pc = "idle"
    /\ \/ ~GateOpen /\ Refused(r, "disabled")
       \/ GateOpen /\ ~r.valid /\ Refused(r, "invalid")
       \/ GateOpen /\ r.valid /\ GoesOn(r, [m \in {} |-> Failed])
    /\ wrote' = FALSE
    /\ edited' = FALSE
    /\ UNCHANGED <<allowWrite, device, next, edits>>

\* DeviceCommandError: RouterOS has no such menu, or the request is lost.
Read ==
    /\ pc = "reading"
    /\ LET m == Step(req, seen).menu
           Hears(answer) ==
             GoesOn(req, [n \in DOMAIN seen \cup {m} |->
                            IF n = m THEN answer ELSE seen[n]])
       IN  \/ m \in DOMAIN device /\ Hears(Answer(device[m]))
           \/ (m \notin DOMAIN device \/ Lossy) /\ Hears(Failed)
    /\ UNCHANGED <<allowWrite, device, next, wrote, edited, edits>>

\* What RouterOS takes: a row that is there, fields that the row has where that
\* is not given, addresses in the slots, a peer of an interface it has.
Accepts(d, c) ==
    CASE c.action = "set" ->
           /\ c.menu \in DOMAIN d /\ c.id \in DOMAIN d[c.menu]
           /\ DOMAIN c.fields \cap {"ssid", "primary", "secondary", "dnsNames"}
                \subseteq DOMAIN d[c.menu][c.id]
           /\ \A f \in DOMAIN c.fields \cap {"primary", "secondary"} :
                c.fields[f] \in Literals
      [] c.action = "add" -> Named(d["wireguard"], c.fields.interface) # {}
      [] OTHER -> TRUE

Put(rs, i, row) == [j \in DOMAIN rs \cup {i} |-> IF j = i THEN row ELSE rs[j]]

\* The given fields change, the others stay.
Override(row, fields) ==
    [f \in DOMAIN row \cup DOMAIN fields |->
       IF f \in DOMAIN fields THEN fields[f] ELSE row[f]]

Carry ==
    \/ /\ cmd.action = "set"
       /\ device' = [device EXCEPT ![cmd.menu] =
                       Put(@, cmd.id, Override(@[cmd.id], cmd.fields))]
       /\ UNCHANGED next
    \/ /\ cmd.action = "add"
       /\ device' = [device EXCEPT ![cmd.menu] = Put(@, next, cmd.fields)]
       /\ next' = next + 1
    \/ /\ cmd.action = "flush"
       /\ device' = [device EXCEPT ![cmd.menu] = NoRows]
       /\ UNCHANGED next
    \/ cmd.action = "wake" /\ UNCHANGED <<device, next>>

\* The write, once; its reply may be lost.
Write ==
    /\ pc = "writing"
    /\ cmd.action = "add" => next <= MaxId
    /\ Accepts(device, cmd)
    /\ Carry
    /\ wrote' = TRUE
    /\ Ends("applied", "none") \/ (Lossy /\ Ends("error", "command failed"))
    /\ UNCHANGED <<allowWrite, req, seen, warned, edited, edits>>

\* A command that is lost, or that RouterOS rejects.
WriteFails ==
    /\ pc = "writing"
    /\ Lossy \/ ~Accepts(device, cmd)
    /\ Ends("error", "command failed")
    /\ UNCHANGED <<allowWrite, device, next, req, seen, warned, wrote, edited, edits>>

\* RouterOS lets no two interfaces, nor two configurations, have one name.
NameFree(m, i, row) ==
    \A n \in DOMAIN device :
      (n = m \/ {n, m} = {"wifi", "wireless"}) =>
        \A j \in DOMAIN device[n] \ {i} :
          Field(row, "name") => j \notin Named(device[n], row.name)

\* An administrator changes, adds or removes a row.  An edit between two calls
\* is one between the begin of the second and its first request.
Edit(e, i) ==
    /\ pc # "idle"
    /\ edits < MaxEdits
    /\ e.menu \in DOMAIN device
    /\ NameFree(e.menu, i, e.row)
    /\ \/ /\ i \in DOMAIN device[e.menu]
          /\ device' = [device EXCEPT ![e.menu] =
               IF e.row = NoRow THEN Restrict(@, DOMAIN @ \ {i}) ELSE Put(@, i, e.row)]
          /\ UNCHANGED next
       \/ /\ i = next /\ next < MaxId /\ e.menu = "peers" /\ e.row # NoRow
          /\ device' = [device EXCEPT ![e.menu] = Put(@, i, e.row)]
          /\ next' = next + 1
    /\ edited' = TRUE
    /\ edits' = edits + 1
    /\ UNCHANGED <<allowWrite, pc, call, wrote>>

Next ==
    \/ \E r \in Requests : Begin(r)
    \/ Read
    \/ Write
    \/ WriteFails
    \/ \E e \in Edits, i \in 1..MaxId : Edit(e, i)

Spec == Init /\ [][Next]_vars

-----------------------------------------------------------------------------
(* Properties.                                                              *)

\* The row was the caller's when the call read it.
WasNamed(m, i) ==
    \/ m \in {"wifi", "wireless"} /\ i \in Named(seen[m].rows, req.name)
    \/ /\ m = "configuration"
       /\ \E j \in Named(seen["wifi"].rows, req.name) :
            /\ Refers(seen["wifi"].rows[j])
            /\ seen["wifi"].rows[j].configuration = seen[m].rows[i].name

\* A menu changes only if it is the tool's own, and then only as the tool says.
OwnPart ==
    \A m \in DOMAIN device : device'[m] # device[m] =>
      CASE req.tool = "set_identity" -> m = "identity"
        [] req.tool = "clear_dns_cache" -> m = "dns cache"
        [] req.tool = "set_ntp_servers" -> m = "ntp"
        [] req.tool = "add_wireguard_peer" ->
             m = "peers" /\ DOMAIN device'[m] = DOMAIN device[m] \cup {next}
        [] req.tool = "set_wifi_ssid" ->
             \E i \in DOMAIN device[m] :
               /\ WasNamed(m, i)
               /\ device'[m] = [device[m] EXCEPT ![i].ssid = req.ssid]
        [] OTHER -> FALSE

\* Whatever is edited in between and whichever of the three menus it is in,
\* set_wifi_ssid changes one SSID, that of the row which was the interface's
\* when the call read it; the other tools change only their own menu; and
\* none does without the gate, the validators and confirm.
OnlyItsOwnPart ==
    [][(pc' # pc /\ device' # device) =>
         allowWrite /\ req.valid /\ req.confirm /\ OwnPart]_vars

\* "Never a device command RouterOS would itself reject": unless something was
\* edited since, the command fits the device's generation and its rows
\* (_resolve_wifi_ssid_target, set_ntp_servers, add_wireguard_peer).
NeverRefused == (pc = "writing" /\ ~edited) => Accepts(device, cmd)

Applied(tool) ==
    pc = "idle" /\ req.tool = tool /\ outcome = "applied" /\ ~edited

InForce(row) ==
    IF Field(row, "servers") THEN Range(row.servers)
    ELSE {row.primary, row.secondary} \cup
           (IF Field(row, "dnsNames") THEN Range(row.dnsNames) ELSE {})

\* Every server that was given is one the device now uses, or the warning
\* names it; some server is; and what else the device uses it used before
\* (set_ntp_servers on either generation).
ServersAccountedFor ==
    Applied("set_ntp_servers") =>
        LET before == seen["ntp"].rows[Only(seen["ntp"].rows)]
            after == device["ntp"][Only(device["ntp"])]
            given == Range(req.servers)
        IN  /\ given \subseteq InForce(after) \cup warned
            /\ given \cap InForce(after) # {}
            /\ Field(before, "servers") \/ Field(before, "primary") =>
                 InForce(after) \subseteq InForce(before) \cup given

\* What the interface of that name broadcasts, if anything: its own SSID, or that
\* of the configuration it refers to.
OwnSsids(rs, name) == {rs[i].ssid : i \in {j \in Named(rs, name) : Field(rs[j], "ssid")}}

ConfiguredSsids(d, name) ==
    {d["configuration"][k].ssid :
       k \in UNION {Named(d["configuration"], d["wifi"][i].configuration) :
                      i \in {j \in Named(d["wifi"], name) : Refers(d["wifi"][j])}}}

Broadcast(d, name) ==
    (UNION {OwnSsids(d[m], name) : m \in DOMAIN d \cap {"wifi", "wireless"}})
      \cup (IF "configuration" \in DOMAIN d THEN ConfiguredSsids(d, name) ELSE {})

\* Wherever its SSID is kept, the interface the caller named broadcasts the new
\* one once set_wifi_ssid says it is applied.
BroadcastsIt ==
    Applied("set_wifi_ssid") => Broadcast(device, req.name) = {req.ssid}

\* "Only a clear not-found once both candidates are exhausted": nothing of that
\* name is there, or the read that would have shown it was lost.
NotFoundIsTrue ==
    (raised = "not found" /\ ~edited) =>
        \/ \E m \in DOMAIN seen \cap DOMAIN device : ~seen[m].ok
        \/ /\ req.tool = "add_wireguard_peer"
           /\ Named(device["wireguard"], req.name) = {}
        \/ req.tool = "set_wifi_ssid" /\ Broadcast(device, req.name) = {}

\* A peer is added once, also when the reply of the call that added it was lost
\* and the call is made again: only an edit between the two reads and the
\* write can bring a second one.
AddsNoPeerTwice ==
    [][(pc' # pc /\ next' # next /\ ~edited) =>
         \A i \in DOMAIN device["peers"] :
            device'["peers"][next] # device["peers"][i]]_vars
=============================================================================
