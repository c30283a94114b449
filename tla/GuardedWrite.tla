----------------------------- MODULE GuardedWrite -----------------------------
(***************************************************************************)
(* The guarded writes of guard.py that act on the rows of a menu: gate,    *)
(* validation, reading the menu, resolving the caller's identifiers to one *)
(* row, preview or write, journal.  Every such tool follows this shape;    *)
(* what they differ in is one line of the table Tool.                      *)
(*                                                                         *)
(* One call runs at a time; between its read and its write, two requests,  *)
(* an administrator may edit the same menu.  A row is told apart by two of *)
(* its fields, name and detail (dst-address and gateway of a route,        *)
(* mac-address and address of a lease); value stands for the others.  A    *)
(* menu lists its rows in the order of their .id, never used again.        *)
(***************************************************************************)
EXTENDS Integers, Sequences, FiniteSets

CONSTANTS
    MaxId,          \* bounds the rows ever made
    Text,           \* what name, detail and value may be
    Numeric,        \* those of digits alone: read back as an int, not a str
    InitRows,       \* the contents the device may start with
    Requests,       \* the tool calls the operator may make
    Edits,          \* what an administrator may make of a row, NoRow included
    Lossy           \* requests and replies may be lost

Ids == 1..MaxId
NotGiven == "not given"

Menus == {"interface", "port", "queue", "lease", "address-list", "container",
          "route", "netwatch", "dns", "filter", "wireguard", "peer", "hotspot",
          "file", "vlan", "secret"}

NoRow == [menu |-> "none", name |-> NotGiven, detail |-> NotGiven,
          value |-> NotGiven, dynamic |-> FALSE]

Rows == [menu : Menus, name : Text, detail : Text, value : Text,
         dynamic : BOOLEAN]

NoRows == [i \in Ids |-> NoRow]

-----------------------------------------------------------------------------
(* The tools: the menu, what becomes of the row, which fields identify it   *)
(* and what happens when several rows match.                                *)

Sets(menu, by, several) ==
    [menu |-> menu, action |-> "set", by |-> by, several |-> several]
Removes(menu, by, several) ==
    [menu |-> menu, action |-> "remove", by |-> by, several |-> several]
\* Refused when some row agrees with the new one already.
Adds(menu, by) ==
    [menu |-> menu, action |-> "add", by |-> by, several |-> "refuse"]
SetsOrAdds(menu, by) ==
    [menu |-> menu, action |-> "set or add", by |-> by, several |-> "first"]

\* enable_interface and disable_interface, by name; set_poe_out, among the
\* rows that have a poe-out.
set_interface_disabled == Sets("interface", "name", "first")
set_poe_out == Sets("port", "name", "first")

\* By target; the name of a new queue is derived from it.
set_client_bandwidth == SetsOrAdds("queue", "detail")
\* By name, else by target.
remove_simple_queue == Removes("queue", "either", "first")

\* Name is the MAC address, detail the IP address.
add_static_dhcp_lease == Adds("lease", "name")
remove_dhcp_lease == Removes("lease", "either", "first")

\* The list and the address, of IPv4 and of IPv6.
add_to_address_list == Adds("address-list", "both")
remove_from_address_list == Removes("address-list", "both", "first")

\* start_container and stop_container: one identifier, a name or else a tag.
set_container_running == Sets("container", "either", "first")

\* Name is the dst-address, detail the gateway (or the comment, where
\* enable_route and disable_route take it); add_route compares with nothing.
set_route_distance == Sets("route", "both", "refuse")
set_route_disabled == Sets("route", "narrowed", "refuse")
add_route == Adds("route", "nothing")
remove_route == Removes("route", "narrowed", "refuse")

\* The host, else the comment.
add_netwatch == Adds("netwatch", "name")
remove_netwatch == Removes("netwatch", "either", "refuse")

\* Detail is the record type.
add_static_dns == Adds("dns", "both")
remove_static_dns == Removes("dns", "narrowed", "refuse")

\* The comment, narrowed by the chain; of the filter, NAT and mangle menus.
set_firewall_rule_disabled == Sets("filter", "narrowed", "refuse")

\* A peer: its interface, with its public key or else its comment.
add_wireguard_interface == Adds("wireguard", "name")
remove_wireguard_peer == Removes("peer", "both", "refuse")

add_hotspot_user == Adds("hotspot", "name")

\* Compares the file name with its .backup suffix.
create_backup == Adds("file", "name")

add_vlan == Adds("vlan", "name")
remove_vlan == Removes("vlan", "name", "first")

add_ppp_secret == Adds("secret", "name")
remove_ppp_secret == Removes("secret", "name", "refuse")

Tool == [
    set_interface_disabled |-> set_interface_disabled,
    set_poe_out |-> set_poe_out,
    set_client_bandwidth |-> set_client_bandwidth,
    remove_simple_queue |-> remove_simple_queue,
    add_static_dhcp_lease |-> add_static_dhcp_lease,
    remove_dhcp_lease |-> remove_dhcp_lease,
    add_to_address_list |-> add_to_address_list,
    remove_from_address_list |-> remove_from_address_list,
    set_container_running |-> set_container_running,
    set_route_distance |-> set_route_distance,
    set_route_disabled |-> set_route_disabled,
    add_route |-> add_route,
    remove_route |-> remove_route,
    add_netwatch |-> add_netwatch,
    remove_netwatch |-> remove_netwatch,
    add_static_dns |-> add_static_dns,
    remove_static_dns |-> remove_static_dns,
    set_firewall_rule_disabled |-> set_firewall_rule_disabled,
    add_wireguard_interface |-> add_wireguard_interface,
    remove_wireguard_peer |-> remove_wireguard_peer,
    add_hotspot_user |-> add_hotspot_user,
    create_backup |-> create_backup,
    add_vlan |-> add_vlan,
    remove_vlan |-> remove_vlan,
    add_ppp_secret |-> add_ppp_secret,
    remove_ppp_secret |-> remove_ppp_secret]

\* What the validators let through; `valid` is their verdict on the rest.
WellFormed(r) ==
    /\ r \in [tool : DOMAIN Tool, name : Text \cup {NotGiven},
              detail : Text \cup {NotGiven}, value : Text,
              confirm : BOOLEAN, valid : BOOLEAN]
    /\ Tool[r.tool].by \in {"name", "both", "narrowed"} => r.name # NotGiven
    /\ Tool[r.tool].by \in {"detail", "both"} => r.detail # NotGiven
    /\ Tool[r.tool].by = "either" => r.name # NotGiven \/ r.detail # NotGiven
    /\ r.tool = "set_container_running" => r.name = r.detail
    /\ r.tool = "create_backup" => r.name \notin Numeric        \* its suffix
    /\ Tool[r.tool].menu = "netwatch" => r.name \notin Numeric  \* an address
    /\ Tool[r.tool].action \in {"add", "set or add"} =>
         r.name # NotGiven /\ r.detail # NotGiven

ASSUME GuardedWriteConstants ==
    /\ MaxId \in Nat
    /\ NotGiven \notin Text /\ Numeric \subseteq Text
    /\ InitRows \subseteq [Ids -> Rows \cup {NoRow}]
    /\ \A r \in Requests : WellFormed(r)
    /\ Edits \subseteq Rows \cup {NoRow}
    /\ Lossy \in BOOLEAN

VARIABLES
    allowWrite, \* MIKROTIK_ALLOW_WRITE, as the server was started with
    rows,       \* the device's rows, by .id
    next,       \* the next .id
    pc,         \* the next request of the call in flight
    req,        \* its arguments
    seen,       \* the rows it read
    cmd,        \* the command it is about to send
    journal,    \* the outcomes journaled since the call began
    wrote       \* history: the device carried out the call's write

vars == <<allowWrite, rows, next, pc, req, seen, cmd, journal, wrote>>

NoRequest == [tool |-> "none", name |-> NotGiven, detail |-> NotGiven,
              value |-> NotGiven, confirm |-> FALSE, valid |-> FALSE]

\* The three commands name a row by its .id; an add carries the row instead.
NoCommand == [action |-> "none", id |-> 0, row |-> NoRow]
Commands == [action : {"set", "remove"}, id : Ids, row : {NoRow}]
              \cup [action : {"add"}, id : {0}, row : Rows]

TypeOK ==
    /\ allowWrite \in BOOLEAN
    /\ rows \in [Ids -> Rows \cup {NoRow}]
    /\ next \in 1..(MaxId + 1)
    /\ \A i \in Ids : i >= next => rows[i] = NoRow
    /\ pc \in {"idle", "read", "write", "read back"}
    /\ req \in Requests \cup {NoRequest}
    /\ seen \in [Ids -> Rows \cup {NoRow}]
    /\ cmd \in Commands \cup {NoCommand}
    /\ pc = "write" <=> cmd # NoCommand
    /\ journal \in Seq({"preview", "applied", "error"})
    /\ wrote \in BOOLEAN

-----------------------------------------------------------------------------
(* Which row.                                                               *)

Least(S) == CHOOSE i \in S : \A j \in S : i <= j

On(rs, menu) == {i \in Ids : rs[i].menu = menu}
\* row.get(field) == value, of a row as the API reads it: an int equals no str.
Equals(field, value) == field = value /\ value \notin Numeric
Named(rs, r) == {i \in On(rs, Tool[r.tool].menu) : Equals(rs[i].name, r.name)}
Detailed(rs, r) == {i \in On(rs, Tool[r.tool].menu) : Equals(rs[i].detail, r.detail)}

\* The rows that match.  `either`: by name when it is given and found, else by
\* detail; `narrowed`: by name, and by detail too when it is given.
Candidates(rs, r) ==
    LET by == Tool[r.tool].by
    IN  {i \in On(rs, Tool[r.tool].menu) :
          /\ by # "nothing"
          /\ by \in {"name", "narrowed", "both"} => i \in Named(rs, r)
          /\ by \in {"detail", "both"} => i \in Detailed(rs, r)
          /\ by = "narrowed" => r.detail = NotGiven \/ i \in Detailed(rs, r)
          /\ by = "either" =>
               \/ i \in Named(rs, r)
               \/ Named(rs, r) = {} /\ i \in Detailed(rs, r)}

\* Mutant: several match, and the first is taken.
FirstOfMany(rs, r) == Candidates(rs, r) # {}
\* The candidates settle on one row.
Resolves(rs, r) ==
    /\ Candidates(rs, r) # {}
    /\ Tool[r.tool].several = "refuse" => Cardinality(Candidates(rs, r)) = 1

\* remove_route refuses a route the router installed itself.
Protected(r, row) == r.tool = "remove_route" /\ row.dynamic

MayChange(rs, r) ==
    /\ Tool[r.tool].action \in {"set", "remove", "set or add"}
    /\ Resolves(rs, r)
    /\ ~Protected(r, rs[Least(Candidates(rs, r))])

\* Mutant: a row that is there already is no obstacle.
AddsAnyway(rs, r) == Tool[r.tool].action \in {"add", "set or add"}
MayAdd(rs, r) ==
    /\ Tool[r.tool].action \in {"add", "set or add"}
    /\ Candidates(rs, r) = {}

\* Mutant: the row's place in the listing is sent for its .id.
ByPosition(rs, r) ==
    Cardinality({j \in On(rs, Tool[r.tool].menu) : j <= Least(Candidates(rs, r))})
Target(rs, r) == Least(Candidates(rs, r))

NewRow(r) == [menu |-> Tool[r.tool].menu, name |-> r.name, detail |-> r.detail,
              value |-> r.value, dynamic |-> FALSE]

Command(rs, r) ==
    IF MayAdd(rs, r)
    THEN [action |-> "add", id |-> 0, row |-> NewRow(r)]
    ELSE [action |-> IF Tool[r.tool].action = "remove" THEN "remove" ELSE "set",
          id |-> Target(rs, r),
          row |-> NoRow]

-----------------------------------------------------------------------------
(* A call.                                                                  *)

Init ==
    /\ allowWrite \in BOOLEAN
    /\ rows \in InitRows
    /\ next = Cardinality({i \in Ids : rows[i] # NoRow}) + 1
    /\ \A i \in Ids : i >= next => rows[i] = NoRow
    /\ pc = "idle"
    /\ req = NoRequest
    /\ seen = NoRows
    /\ cmd = NoCommand
    /\ journal = <<>>
    /\ wrote = FALSE

\* Mutant: a call that raises is not journaled.
ResultsOnly(entries, outcome) ==
    IF outcome = "error" THEN entries ELSE Append(entries, outcome)
\* _audited: one entry, however the call ends.
Journaled(entries, outcome) == Append(entries, outcome)

Ends(entries, outcome) ==
    /\ pc' = "idle"
    /\ journal' = Journaled(entries, outcome)
    /\ cmd' = NoCommand

\* What a call does with the rows it read: raise, preview, or write.
Decides(r, rs, entries) ==
    \/ /\ ~MayAdd(rs, r) /\ ~MayChange(rs, r)
       /\ Ends(entries, "error")
    \/ /\ MayAdd(rs, r) \/ MayChange(rs, r)
       /\ ~r.confirm
       /\ Ends(entries, "preview")
    \/ /\ MayAdd(rs, r) \/ MayChange(rs, r)
       /\ r.confirm
       /\ pc' = "write"
       /\ cmd' = Command(rs, r)
       /\ journal' = entries

\* Mutant: the gate is not asked.
AlwaysOpen(r) == r.valid
\* _require_allowed, then the validators, before the device hears anything.
Allowed(r) == allowWrite /\ r.valid

\* add_route reads nothing.
Begin(r) ==
    /\ pc = "idle"
    /\ next <= MaxId
    /\ req' = r
    /\ seen' = NoRows
    /\ wrote' = FALSE
    /\ \/ ~Allowed(r) /\ Ends(<<>>, "error")
       \/ Allowed(r) /\ Tool[r.tool].by = "nothing" /\ Decides(r, NoRows, <<>>)
       \/ /\ Allowed(r)
          /\ Tool[r.tool].by # "nothing"
          /\ pc' = "read"
          /\ journal' = <<>>
          /\ UNCHANGED cmd
    /\ UNCHANGED <<allowWrite, rows, next>>

Read ==
    /\ pc = "read"
    /\ seen' = rows
    /\ Decides(req, rows, journal)
    /\ UNCHANGED <<allowWrite, rows, next, req, wrote>>

\* A request that is lost, or that the device rejects.
Fails ==
    /\ pc # "idle"
    /\ \/ Lossy
       \/ pc = "write" /\ cmd.id # 0 /\ rows[cmd.id] = NoRow
    /\ Ends(journal, "error")
    /\ UNCHANGED <<allowWrite, rows, next, req, seen, wrote>>

\* RouterOS: /system/backup/save writes over a file of that name, made since
\* create_backup looked for one.
Overwritten == {i \in On(rows, "file") : cmd.row.menu = "file" /\ rows[i].name = cmd.row.name}

\* The device carries out the command.
Carry ==
    \/ /\ cmd.action = "add"
       /\ Overwritten = {}
       /\ rows' = [rows EXCEPT ![next] = cmd.row]
       /\ next' = next + 1
    \/ /\ cmd.action = "add"
       /\ \E i \in Overwritten : rows' = [rows EXCEPT ![i] = cmd.row]
       /\ UNCHANGED next
    \/ /\ cmd.action = "set"
       /\ rows[cmd.id] # NoRow
       /\ rows' = [rows EXCEPT ![cmd.id].value = req.value]
       /\ UNCHANGED next
    \/ /\ cmd.action = "remove"
       /\ rows[cmd.id] # NoRow
       /\ rows' = [rows EXCEPT ![cmd.id] = NoRow]
       /\ UNCHANGED next

\* The write, once.  add_wireguard_interface reads the menu again before it
\* returns; a reply that is lost makes an error of a write that was made.
Write ==
    /\ pc = "write"
    /\ Carry
    /\ wrote' = TRUE
    /\ \/ /\ req.tool = "add_wireguard_interface"
          /\ pc' = "read back"
          /\ cmd' = NoCommand
          /\ UNCHANGED journal
       \/ req.tool # "add_wireguard_interface" /\ Ends(journal, "applied")
       \/ Lossy /\ Ends(journal, "error")
    /\ UNCHANGED <<allowWrite, req, seen>>

ReadBack ==
    /\ pc = "read back"
    /\ Ends(journal, "applied")
    /\ UNCHANGED <<allowWrite, rows, next, req, seen, wrote>>

\* An administrator adds a row, or changes or removes one.
Edit(i, row) ==
    /\ \/ i = next /\ next < MaxId /\ row # NoRow /\ next' = next + 1
       \/ /\ rows[i] # NoRow
          /\ row.menu \in {rows[i].menu, "none"}
          /\ UNCHANGED next
    /\ rows' = [rows EXCEPT ![i] = row]
    /\ UNCHANGED <<allowWrite, pc, req, seen, cmd, journal, wrote>>

Next ==
    \/ \E r \in Requests : Begin(r)
    \/ Read
    \/ Write
    \/ ReadBack
    \/ Fails
    \/ \E i \in Ids, row \in Edits : Edit(i, row)

Spec == Init /\ [][Next]_vars

-----------------------------------------------------------------------------
(* Properties.                                                              *)

\* What the caller named, judged by the row alone.
Carries(r, row) ==
    /\ row.menu = Tool[r.tool].menu
    /\ \/ Tool[r.tool].by # "detail" /\ row.name = r.name
       \/ Tool[r.tool].by \in {"either", "detail"} /\ row.detail = r.detail
    /\ (Tool[r.tool].by = "both" \/ (Tool[r.tool].by = "narrowed" /\ r.detail # NotGiven))
          => row.detail = r.detail

\* Whatever an administrator does to the menu between the read and the write, a
\* call makes at most one change, with the gate open and confirm given: a new
\* row, or the row that carried what the caller named when the call read it.
\* Only create_backup may strike another: a file that got its name since.
OnlyTheNamedRow ==
    [][(pc' # pc /\ rows' # rows) =>
         /\ allowWrite /\ req.confirm /\ req.valid
         /\ \E i \in Ids :
              /\ \A j \in Ids \ {i} : rows'[j] = rows[j]
              /\ \/ i = next /\ rows[i] = NoRow
                 \/ rows[i] # NoRow /\ Carries(req, seen[i])
                 \/ /\ req.tool = "create_backup"
                    /\ Carries(req, rows[i]) /\ ~Carries(req, seen[i])]_vars

\* Two rows that carry what the caller named equally well.
Alike(r, a, b) ==
    Carries(r, a) /\ Carries(r, b) /\ (a.name = r.name <=> b.name = r.name)

\* A tool that refuses ambiguity (AmbiguousResourceError) acts on a row only
\* if no other row read carried what the caller named equally well.
RefusesAmbiguity ==
    (pc = "write" /\ cmd.id # 0 /\ Tool[req.tool].several = "refuse") =>
        \A i \in Ids \ {cmd.id} : ~Alike(req, seen[cmd.id], seen[i])

\* An add makes a second row for what the caller named only if the first was
\* made, or changed into one, after the call read the menu.  A name of digits
\* alone is not found, and add_route does not look.
AddsNoDuplicate ==
    [][(pc' # pc /\ next' # next /\ Tool[req.tool].by # "nothing"
          /\ {req.name, req.detail} \cap Numeric = {}) =>
         \A i \in Ids : Carries(req, rows[i]) => rows[i] # seen[i]]_vars

\* The journal has one entry for a call that has ended, and none before: it
\* says "applied" only of a change the device made, "preview" only when it made
\* none, and a refusal by the gate is in it too.
JournalTells ==
    /\ Len(journal) = IF pc = "idle" /\ req # NoRequest THEN 1 ELSE 0
    /\ \A k \in DOMAIN journal :
         /\ journal[k] = "applied" => wrote
         /\ journal[k] = "preview" => ~wrote /\ ~req.confirm
         /\ ~allowWrite => journal[k] = "error" /\ ~wrote
=============================================================================
