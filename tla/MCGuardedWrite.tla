---------------------------- MODULE MCGuardedWrite ----------------------------
(***************************************************************************)
(* Small instances of GuardedWrite: two routes to one destination, a lease *)
(* and a DNS name with two records, and calls that identify them fully,    *)
(* partly and wrongly; a backup, and a name of digits alone.               *)
(***************************************************************************)
EXTENDS GuardedWrite

MCText == {"a", "b", "x", "y", "7"}
MCNumeric == {"7"}

Row(menu, name, detail) ==
    [menu |-> menu, name |-> name, detail |-> detail, value |-> "x", dynamic |-> FALSE]
Installed(row) == [row EXCEPT !.dynamic = TRUE]

From(rowsInOrder) ==
    [i \in Ids |-> IF i \in DOMAIN rowsInOrder THEN rowsInOrder[i] ELSE NoRow]

MCInitRows == {
    From(<<Row("route", "a", "x"), Row("route", "a", "y")>>),
    From(<<Installed(Row("route", "a", "x")), Row("lease", "a", "x")>>),
    From(<<Row("dns", "a", "x"), Row("dns", "a", "y"), Row("lease", "b", "y")>>),
    From(<<Row("netwatch", "b", "y"), Row("queue", "a", "x")>>),
    From(<<Row("queue", "b", "y"), Row("vlan", "7", "x")>>) }

Call(tool, name, detail, confirm) ==
    [tool |-> tool, name |-> name, detail |-> detail, value |-> "y",
     confirm |-> confirm, valid |-> TRUE]

MCRequests == {
    Call("remove_route", "a", NotGiven, TRUE),
    Call("remove_route", "a", "x", TRUE),
    Call("set_route_disabled", "a", "y", TRUE),
    Call("set_route_disabled", "a", "y", FALSE),
    Call("add_route", "a", "x", TRUE),
    Call("add_route", "a", "x", FALSE),
    Call("add_static_dhcp_lease", "a", "y", TRUE),
    [Call("add_static_dhcp_lease", "a", "y", TRUE) EXCEPT !.valid = FALSE],
    Call("remove_dhcp_lease", "a", "y", TRUE),
    Call("remove_static_dns", "a", NotGiven, TRUE),
    Call("add_static_dns", "a", "x", TRUE),
    Call("remove_netwatch", "a", "y", TRUE),
    Call("set_client_bandwidth", "b", "x", TRUE),
    Call("add_wireguard_interface", "a", "x", TRUE),
    Call("create_backup", "a", "y", TRUE),
    Call("add_vlan", "7", "y", TRUE),
    Call("remove_vlan", "7", NotGiven, TRUE) }

MCEdits == {NoRow, Row("route", "a", "x"), Row("lease", "a", "y"), Row("dns", "b", "x"),
            Row("file", "a", "x")}
=============================================================================
