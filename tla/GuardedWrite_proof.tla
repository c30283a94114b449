--------------------------- MODULE GuardedWrite_proof ---------------------------
(***************************************************************************)
(* Proofs about GuardedWrite for every device, every set of well-formed    *)
(* calls and of edits, lossy network or not.                               *)
(***************************************************************************)
EXTENDS GuardedWrite, FiniteSetTheorems, SequenceTheorems, TLAPS

-----------------------------------------------------------------------------
(* The tools.                                                               *)

\* Of the tools that fall back from one field to another, only that of netwatch
\* refuses several matches.
Entries ==
    {e \in [menu : Menus, action : {"set", "remove", "add", "set or add"},
            by : {"name", "detail", "both", "either", "narrowed", "nothing"},
            several : {"first", "refuse"}] :
        e.by = "either" /\ e.several = "refuse" => e.menu = "netwatch"}

LEMMA EntryType ==
    ASSUME NEW menu \in Menus, NEW several \in {"first", "refuse"},
           NEW by \in {"name", "detail", "both", "either", "narrowed", "nothing"},
           by # "either" \/ several = "first" \/ menu = "netwatch"
    PROVE  /\ Sets(menu, by, several) \in Entries
           /\ Removes(menu, by, several) \in Entries
           /\ by # "either" => Adds(menu, by) \in Entries
           /\ SetsOrAdds(menu, by) \in Entries
  BY DEF Entries, Sets, Removes, Adds, SetsOrAdds

LEMMA ToolTable == \A t \in DOMAIN Tool : Tool[t] \in Entries
<1>1. /\ set_interface_disabled \in Entries /\ set_poe_out \in Entries
      /\ set_client_bandwidth \in Entries /\ remove_simple_queue \in Entries
      /\ add_static_dhcp_lease \in Entries /\ remove_dhcp_lease \in Entries
      /\ add_to_address_list \in Entries /\ remove_from_address_list \in Entries
      /\ set_container_running \in Entries
  BY EntryType DEF set_interface_disabled, set_poe_out, set_client_bandwidth,
         remove_simple_queue, add_static_dhcp_lease, remove_dhcp_lease,
         add_to_address_list, remove_from_address_list, set_container_running, Menus
<1>2. /\ set_route_distance \in Entries /\ set_route_disabled \in Entries
      /\ add_route \in Entries /\ remove_route \in Entries
      /\ add_netwatch \in Entries /\ remove_netwatch \in Entries
      /\ add_static_dns \in Entries /\ remove_static_dns \in Entries
  BY EntryType DEF set_route_distance, set_route_disabled, add_route, remove_route,
         add_netwatch, remove_netwatch, add_static_dns, remove_static_dns, Menus
<1>3. /\ set_firewall_rule_disabled \in Entries /\ add_wireguard_interface \in Entries
      /\ remove_wireguard_peer \in Entries /\ add_hotspot_user \in Entries
      /\ create_backup \in Entries /\ add_vlan \in Entries /\ remove_vlan \in Entries
      /\ add_ppp_secret \in Entries /\ remove_ppp_secret \in Entries
  BY EntryType DEF set_firewall_rule_disabled, add_wireguard_interface,
         remove_wireguard_peer, add_hotspot_user, create_backup, add_vlan,
         remove_vlan, add_ppp_secret, remove_ppp_secret, Menus
<1>. QED
  BY <1>1, <1>2, <1>3 DEF Tool

\* Only create_backup makes files.
LEMMA FilesAreBackups ==
    ASSUME NEW t \in DOMAIN Tool, Tool[t].menu = "file"
    PROVE  t = "create_backup"
<1> USE DEF Sets, Removes, Adds, SetsOrAdds
<1>1. /\ set_interface_disabled.menu # "file" /\ set_poe_out.menu # "file"
      /\ set_client_bandwidth.menu # "file" /\ remove_simple_queue.menu # "file"
      /\ add_static_dhcp_lease.menu # "file" /\ remove_dhcp_lease.menu # "file"
      /\ add_to_address_list.menu # "file" /\ remove_from_address_list.menu # "file"
      /\ set_container_running.menu # "file"
  BY DEF set_interface_disabled, set_poe_out, set_client_bandwidth,
         remove_simple_queue, add_static_dhcp_lease, remove_dhcp_lease,
         add_to_address_list, remove_from_address_list, set_container_running
<1>2. /\ set_route_distance.menu # "file" /\ set_route_disabled.menu # "file"
      /\ add_route.menu # "file" /\ remove_route.menu # "file"
      /\ add_netwatch.menu # "file" /\ remove_netwatch.menu # "file"
      /\ add_static_dns.menu # "file" /\ remove_static_dns.menu # "file"
  BY DEF set_route_distance, set_route_disabled, add_route, remove_route,
         add_netwatch, remove_netwatch, add_static_dns, remove_static_dns
<1>3. /\ set_firewall_rule_disabled.menu # "file" /\ add_wireguard_interface.menu # "file"
      /\ remove_wireguard_peer.menu # "file" /\ add_hotspot_user.menu # "file"
      /\ add_vlan.menu # "file" /\ remove_vlan.menu # "file"
      /\ add_ppp_secret.menu # "file" /\ remove_ppp_secret.menu # "file"
  BY DEF set_firewall_rule_disabled, add_wireguard_interface, remove_wireguard_peer,
         add_hotspot_user, add_vlan, remove_vlan, add_ppp_secret, remove_ppp_secret
<1>. QED
  BY <1>1, <1>2, <1>3 DEF Tool

LEMMA NoneIsNothing == "none" \notin DOMAIN Tool /\ "none" \notin Menus
  BY DEF Tool, Menus

LEMMA RequestType ==
    ASSUME NEW r \in Requests
    PROVE  /\ r # NoRequest
           /\ r.tool \in DOMAIN Tool
           /\ Tool[r.tool] \in Entries
           /\ r.tool = "create_backup" => r.name \notin Numeric
           /\ Tool[r.tool].menu = "netwatch" => r.name \notin Numeric
           /\ r.value \in Text
           /\ r.confirm \in BOOLEAN
           /\ r.valid \in BOOLEAN
           /\ Tool[r.tool].action \in {"add", "set or add"} => NewRow(r) \in Rows
<1>1. WellFormed(r)
  BY GuardedWriteConstants
<1>2. /\ r.tool \in DOMAIN Tool
      /\ r.name \in Text \cup {NotGiven} /\ r.detail \in Text \cup {NotGiven}
      /\ r.value \in Text /\ r.confirm \in BOOLEAN /\ r.valid \in BOOLEAN
      /\ r.tool = "create_backup" => r.name \notin Numeric
      /\ Tool[r.tool].menu = "netwatch" => r.name \notin Numeric
  BY <1>1 DEF WellFormed
<1>3. r # NoRequest
  BY <1>2, NoneIsNothing DEF NoRequest
<1>4. Tool[r.tool] \in Entries
  BY <1>2, ToolTable
<1>5. ASSUME Tool[r.tool].action \in {"add", "set or add"}
      PROVE  NewRow(r) \in Rows
  <2>1. r.name \in Text /\ r.detail \in Text
    BY <1>1, <1>2, <1>5 DEF WellFormed
  <2>. QED
    BY <1>2, <1>4, <2>1 DEF NewRow, Rows, Entries
<1>. QED
  BY <1>2, <1>3, <1>4, <1>5

-----------------------------------------------------------------------------
(* The row a call settles on.                                               *)

\* The least of some ids is one of them: a strictly decreasing chain of the
\* ids up to one would be one of finite sets.
LEMMA LeastIsIn ==
    ASSUME NEW S \in SUBSET Ids, S # {}
    PROVE  Least(S) \in S
<1> DEFINE UpTo(i) == {k \in S : k <= i}
           Segments == {UpTo(i) : i \in S}
<1>1. MaxId \in Nat /\ IsFiniteSet(Ids)
  BY GuardedWriteConstants, FS_Interval DEF Ids
<1>2. IsFiniteSet(S)
  BY <1>1, FS_Subset
<1>3. IsWellFoundedOn(StrictSubsetOrdering(S), FiniteSubsetsOf(S))
  BY FS_StrictSubsetOrderingWellFounded
<1>4. Segments # {} /\ \A T \in Segments : T \in SUBSET S
  OBVIOUS
<1>5. Segments \subseteq FiniteSubsetsOf(S)
  BY <1>2, <1>4, FS_Subset DEF FiniteSubsetsOf
<1>6. PICK T \in Segments : \A U \in Segments : <<U, T>> \notin StrictSubsetOrdering(S)
  BY <1>3, <1>4, <1>5, WFMin
<1>7. PICK i \in S : T = UpTo(i)
  OBVIOUS
<1>8. \A j \in S : i <= j
  <2> SUFFICES ASSUME NEW j \in S, j < i
               PROVE  FALSE
    BY <1>1 DEF Ids
  <2>1. i \in T /\ i \notin UpTo(j)
    BY <1>1, <1>7 DEF Ids
  <2>2. UpTo(j) \subseteq T
    <3>1. \A k \in S : k <= j => k <= i
      BY <1>1 DEF Ids
    <3>. QED
      BY <1>7, <3>1
  <2>3. UpTo(j) \in Segments
    OBVIOUS
  <2> HIDE DEF UpTo, Segments
  <2>4. UpTo(j) \in SUBSET S /\ T \in SUBSET S
    BY <1>4, <2>3
  <2>5. <<UpTo(j), T>> \in StrictSubsetOrdering(S)
    BY <2>1, <2>2, <2>4 DEF StrictSubsetOrdering
  <2>. QED
    BY <1>6, <2>3, <2>5
<1>. QED
  BY <1>8 DEF Least

LEMMA TargetIsCandidate ==
    ASSUME NEW rs, NEW r, Resolves(rs, r)
    PROVE  /\ Target(rs, r) \in Candidates(rs, r)
           /\ Target(rs, r) \in Ids
<1>1. Candidates(rs, r) \in SUBSET Ids /\ Candidates(rs, r) # {}
  BY DEF Resolves, Candidates, On
<1>. QED
  BY <1>1, LeastIsIn DEF Target

\* Where ambiguity is refused, the row a call settles on is the only candidate.
LEMMA TargetIsTheOne ==
    ASSUME NEW rs, NEW r, Resolves(rs, r), Tool[r.tool].several = "refuse"
    PROVE  Candidates(rs, r) = {Target(rs, r)}
<1>1. Candidates(rs, r) \in SUBSET Ids /\ IsFiniteSet(Ids)
  BY GuardedWriteConstants, FS_Interval DEF Candidates, On, Ids
<1>2. Cardinality(Candidates(rs, r)) = 1 /\ IsFiniteSet(Candidates(rs, r))
  BY <1>1, FS_Subset DEF Resolves
<1>3. PICK i : Candidates(rs, r) = {i}
  BY <1>2, FS_Singleton
<1>. QED
  BY <1>3, TargetIsCandidate

LEMMA CandidateCarries ==
    ASSUME NEW rs, NEW r, Tool[r.tool] \in Entries, NEW i \in Candidates(rs, r)
    PROVE  Carries(r, rs[i])
  BY DEF Candidates, Carries, Named, Detailed, Equals, On, Entries

\* A row that carries what the caller named is a candidate, unless the caller
\* named others more closely, or in digits alone.
LEMMA CarrierIsCandidate ==
    ASSUME NEW rs, NEW r, Tool[r.tool] \in Entries, Tool[r.tool].by # "nothing",
           r.name \notin Numeric, r.detail \notin Numeric \/ Tool[r.tool].by = "name",
           NEW i \in Ids, Carries(r, rs[i])
    PROVE  \/ i \in Candidates(rs, r)
           \/ Tool[r.tool].by = "either" /\ Named(rs, r) # {} /\ rs[i].name # r.name
  BY DEF Candidates, Carries, Named, Detailed, Equals, On, Entries

LEMMA NoCandidateNoCarrier ==
    ASSUME NEW rs, NEW r, Tool[r.tool] \in Entries, Tool[r.tool].by # "nothing",
           r.name \notin Numeric, r.detail \notin Numeric \/ Tool[r.tool].by = "name",
           Candidates(rs, r) = {}, NEW i \in Ids
    PROVE  ~Carries(r, rs[i])
<1> SUFFICES ASSUME Carries(r, rs[i]), Tool[r.tool].by = "either", Named(rs, r) # {}
             PROVE  FALSE
  BY CarrierIsCandidate
<1>1. PICK j \in Ids : j \in Named(rs, r)
  BY DEF Named, On
<1>2. j \in Candidates(rs, r)
  BY <1>1 DEF Candidates, Named
<1>. QED
  BY <1>2

\* Also where the caller named in digits: what a tool found, it found by others.
LEMMA NoOtherAlike ==
    ASSUME NEW rs, NEW r \in Requests,
           Resolves(rs, r), Tool[r.tool].several = "refuse",
           NEW i \in Ids, i # Target(rs, r)
    PROVE  ~Alike(r, rs[Target(rs, r)], rs[i])
<1> DEFINE t == Target(rs, r)
<1> SUFFICES ASSUME Carries(r, rs[i]), rs[t].name = r.name <=> rs[i].name = r.name
             PROVE  FALSE
  BY DEF Alike
<1>1. t \in Candidates(rs, r) /\ i \notin Candidates(rs, r)
  BY TargetIsCandidate, TargetIsTheOne
<1>2. Tool[r.tool] \in Entries /\ i \in On(rs, Tool[r.tool].menu)
  BY RequestType DEF Carries, On
<1>3. CASE Tool[r.tool].by = "either"
  <2>1. r.name \notin Numeric
    BY <1>2, <1>3, RequestType DEF Entries
  <2>2. Named(rs, r) = {} /\ t \in Detailed(rs, r) /\ rs[i].name # r.name
    <3>1. rs[i].name = r.name => i \in Named(rs, r)
      BY <1>2, <2>1 DEF Named, Equals
    <3>2. i \notin Named(rs, r)
      BY <1>1, <1>2, <1>3 DEF Candidates
    <3>3. t \notin Named(rs, r)
      BY <3>1, <3>2 DEF Named, Equals
    <3> QED
      BY <1>1, <1>3, <3>1, <3>2, <3>3 DEF Candidates
  <2>3. rs[i].detail = r.detail
    BY <1>3, <2>2 DEF Carries
  <2>4. i \in Detailed(rs, r)
    BY <1>2, <2>2, <2>3 DEF Detailed, Equals
  <2>. QED
    BY <1>1, <1>2, <1>3, <2>2, <2>4 DEF Candidates
<1>4. CASE Tool[r.tool].by # "either"
  BY <1>1, <1>2, <1>4 DEF Candidates, Carries, Named, Detailed, Equals, Entries
<1>. QED
  BY <1>3, <1>4

-----------------------------------------------------------------------------
(* Types, and what a call in flight has established.                        *)

Outcomes == {"preview", "applied", "error"}

\* The command a call sends: an add only where no row matched, a set or remove
\* only of the row it settled on.
LEMMA CommandType ==
    ASSUME NEW rs, NEW r \in Requests, MayAdd(rs, r) \/ MayChange(rs, r)
    PROVE  /\ Command(rs, r) \in Commands
           /\ Command(rs, r) # NoCommand
           /\ Command(rs, r).action = "add" =>
                MayAdd(rs, r) /\ Command(rs, r).id = 0
           /\ Command(rs, r).action # "add" =>
                MayChange(rs, r) /\ Command(rs, r).id = Target(rs, r)
<1>1. CASE MayAdd(rs, r)
  <2>1. NewRow(r) \in Rows
    BY <1>1, RequestType DEF MayAdd
  <2>. QED
    BY <1>1, <2>1 DEF Command, Commands, NoCommand
<1>2. CASE ~MayAdd(rs, r) /\ MayChange(rs, r)
  <2>1. Target(rs, r) \in Ids
    BY <1>2, TargetIsCandidate DEF MayChange
  <2>. QED
    BY <1>2, <2>1 DEF Command, Commands, NoCommand
<1>. QED
  BY <1>1, <1>2

LEMMA OneOutcome ==
    ASSUME NEW o \in Outcomes
    PROVE  /\ Append(<<>>, o) \in Seq(Outcomes)
           /\ Len(Append(<<>>, o)) = 1
           /\ \A k \in DOMAIN Append(<<>>, o) : Append(<<>>, o)[k] = o
  OBVIOUS

\* A call in flight was let through by the gate and the validators and has
\* journaled nothing; its command is the one for the rows it read.
CallInv ==
    /\ pc # "idle" =>
         allowWrite /\ req \in Requests /\ req.valid /\ journal = <<>>
    /\ pc \in {"read", "write"} => ~wrote /\ next <= MaxId
    /\ pc = "read back" => wrote
    /\ wrote => allowWrite
    /\ pc = "write" =>
         /\ req.confirm
         /\ MayAdd(seen, req) \/ MayChange(seen, req)
         /\ cmd = Command(seen, req)

IInv == TypeOK /\ CallInv /\ JournalTells

LEMMA IInvInit == Init => IInv
<1> SUFFICES ASSUME Init
             PROVE  IInv
  OBVIOUS
<1>1. rows \in [Ids -> Rows \cup {NoRow}] /\ NoRows \in [Ids -> Rows \cup {NoRow}]
  BY GuardedWriteConstants DEF Init, NoRows
<1>2. next \in 1..(MaxId + 1)
  <2> DEFINE used == {i \in Ids : rows[i] # NoRow}
  <2>1. MaxId \in Nat /\ IsFiniteSet(Ids) /\ Cardinality(Ids) = MaxId
    BY GuardedWriteConstants, FS_Interval DEF Ids
  <2>2. used \in SUBSET Ids
    OBVIOUS
  <2>3. Cardinality(used) \in Nat /\ Cardinality(used) <= MaxId
    BY <2>1, <2>2, FS_Subset, FS_CardinalityType
  <2>. QED
    BY <2>1, <2>3 DEF Init
<1>3. TypeOK
  <2>1. journal \in Seq({"preview", "applied", "error"})
    BY DEF Init
  <2>2. pc = "idle" /\ cmd = NoCommand /\ req = NoRequest /\ seen = NoRows
        /\ wrote = FALSE /\ allowWrite \in BOOLEAN
        /\ \A i \in Ids : i >= next => rows[i] = NoRow
    BY DEF Init
  <2>. QED
    BY <1>1, <1>2, <2>1, <2>2 DEF TypeOK
<1>4. CallInv /\ JournalTells
  BY DEF Init, CallInv, JournalTells
<1>. QED
  BY <1>3, <1>4 DEF IInv

DeviceOK ==
    /\ rows \in [Ids -> Rows \cup {NoRow}]
    /\ next \in 1..(MaxId + 1)
    /\ \A i \in Ids : i >= next => rows[i] = NoRow

\* A call that ends leaves the invariant, if its outcome is the truth.
LEMMA EndsTruly ==
    ASSUME NEW o \in Outcomes, Ends(<<>>, o), DeviceOK',
           allowWrite' \in BOOLEAN, req' \in Requests,
           seen' \in [Ids -> Rows \cup {NoRow}],
           wrote' \in BOOLEAN,
           wrote' => allowWrite',
           ~allowWrite' => o = "error",
           o = "applied" => wrote',
           o = "preview" => ~wrote' /\ ~req'.confirm
    PROVE  IInv'
<1>1. pc' = "idle" /\ cmd' = NoCommand /\ journal' = Append(<<>>, o)
  BY DEF Ends, Journaled
<1>2. /\ journal' \in Seq(Outcomes) /\ Len(journal') = 1
      /\ \A k \in DOMAIN journal' : journal'[k] = o
  BY <1>1, OneOutcome
<1>3. req' # NoRequest
  BY RequestType
<1>4. TypeOK'
  BY <1>1, <1>2 DEF TypeOK, DeviceOK, Outcomes
<1>5. CallInv'
  BY <1>1 DEF CallInv
<1>6. JournalTells'
  BY <1>1, <1>2, <1>3 DEF JournalTells
<1>. QED
  BY <1>4, <1>5, <1>6 DEF IInv

\* What a call let through does with the rows it read.
LEMMA DecidesTruly ==
    ASSUME NEW r \in Requests, NEW rs \in [Ids -> Rows \cup {NoRow}],
           Decides(r, rs, <<>>), DeviceOK', next' <= MaxId,
           allowWrite' = TRUE, r.valid, req' = r, seen' = rs,
           wrote' = FALSE
    PROVE  IInv'
<1>1. CASE Ends(<<>>, "error")
  BY <1>1, EndsTruly DEF Outcomes
<1>2. CASE ~r.confirm /\ Ends(<<>>, "preview")
  BY <1>2, EndsTruly DEF Outcomes
<1>3. CASE /\ MayAdd(rs, r) \/ MayChange(rs, r)
           /\ r.confirm
           /\ pc' = "write"
           /\ cmd' = Command(rs, r)
           /\ journal' = <<>>
  <2>1. cmd' \in Commands /\ cmd' # NoCommand
    BY <1>3, CommandType
  <2>2. journal' \in Seq({"preview", "applied", "error"})
    BY <1>3
  <2>3. TypeOK'
    BY <1>3, <2>1, <2>2 DEF TypeOK, DeviceOK
  <2>4. CallInv'
    <3>1. /\ MayAdd(seen, req)' <=> MayAdd(rs, r)
          /\ MayChange(seen, req)' <=> MayChange(rs, r)
          /\ Command(seen, req)' = Command(rs, r)
      BY DEF MayAdd, MayChange, Command, Candidates, Named, Detailed, Equals, On,
             Resolves, Protected, Target, NewRow
    <3>. QED
      BY <1>3, <3>1 DEF CallInv
  <2>5. JournalTells'
    BY <1>3 DEF JournalTells
  <2>. QED
    BY <2>3, <2>4, <2>5 DEF IInv
<1>. QED
  BY <1>1, <1>2, <1>3 DEF Decides

\* The write changes the row it names, or fills the next .id, or writes over a
\* file.
LEMMA CarryType ==
    ASSUME IInv, pc = "write", Carry
    PROVE  /\ DeviceOK'
           /\ req \in Requests
           /\ cmd.action = "add" =>
                \/ /\ next \in Ids /\ rows[next] = NoRow
                   /\ \A j \in Ids \ {next} : rows'[j] = rows[j]
                \/ /\ next' = next
                   /\ \E i \in Ids :
                        /\ cmd.row.menu = "file" /\ rows[i].menu = "file"
                        /\ rows[i].name = cmd.row.name
                        /\ \A j \in Ids \ {i} : rows'[j] = rows[j]
           /\ cmd.action # "add" =>
                /\ cmd.id \in Ids /\ rows[cmd.id] # NoRow /\ next' = next
                /\ \A j \in Ids \ {cmd.id} : rows'[j] = rows[j]
<1>1. /\ MaxId \in Nat /\ req \in Requests /\ next \in Ids /\ next \in 1..MaxId
      /\ cmd \in Commands
      /\ rows \in [Ids -> Rows \cup {NoRow}]
      /\ \A i \in Ids : i >= next => rows[i] = NoRow
  BY GuardedWriteConstants DEF IInv, TypeOK, CallInv, Ids
<1>2. CASE /\ cmd.action = "add"
           /\ rows' = [rows EXCEPT ![next] = cmd.row]
           /\ next' = next + 1
  <2>1. cmd.row \in Rows
    BY <1>1, <1>2 DEF Commands
  <2>2. rows' \in [Ids -> Rows \cup {NoRow}] /\ rows[next] = NoRow
    BY <1>1, <1>2, <2>1
  <2>3. \A j \in Ids \ {next} : rows'[j] = rows[j]
    BY <1>1, <1>2
  <2>4. next' \in 1..(MaxId + 1) /\ \A i \in Ids : i >= next' => i >= next /\ i # next
    BY <1>1, <1>2 DEF Ids
  <2>. QED
    BY <1>1, <1>2, <2>2, <2>3, <2>4 DEF DeviceOK
<1>4. CASE /\ cmd.action = "add"
           /\ \E i \in Overwritten : rows' = [rows EXCEPT ![i] = cmd.row]
           /\ UNCHANGED next
  <2>1. PICK i \in Overwritten : rows' = [rows EXCEPT ![i] = cmd.row]
    BY <1>4
  <2>2. /\ i \in Ids /\ rows[i].menu = "file" /\ cmd.row.menu = "file"
        /\ rows[i].name = cmd.row.name
    BY <2>1 DEF Overwritten, On
  <2>3. cmd.row \in Rows /\ rows[i] # NoRow
    BY <1>1, <1>4, <2>2 DEF Commands, NoRow
  <2>4. rows' \in [Ids -> Rows \cup {NoRow}] /\ \A j \in Ids \ {i} : rows'[j] = rows[j]
    BY <1>1, <2>1, <2>2, <2>3
  <2>5. \A k \in Ids : k >= next => rows'[k] = NoRow
    BY <1>1, <2>2, <2>3, <2>4
  <2>6. DeviceOK'
    BY <1>4, <2>4, <2>5 DEF DeviceOK, IInv, TypeOK
  <2>. QED
    BY <1>1, <1>4, <2>2, <2>4, <2>6
<1>3. CASE /\ cmd.action \in {"set", "remove"}
           /\ rows[cmd.id] # NoRow
           /\ \/ rows' = [rows EXCEPT ![cmd.id].value = req.value]
              \/ rows' = [rows EXCEPT ![cmd.id] = NoRow]
           /\ UNCHANGED next
  <2>1. cmd.id \in Ids /\ req.value \in Text
    BY <1>1, <1>3, RequestType DEF Commands
  <2>2. rows[cmd.id] \in Rows
    BY <1>1, <1>3, <2>1
  <2>3. [rows[cmd.id] EXCEPT !.value = req.value] \in Rows
    BY <2>1, <2>2 DEF Rows
  <2>4. rows' \in [Ids -> Rows \cup {NoRow}] /\ \A j \in Ids \ {cmd.id} : rows'[j] = rows[j]
    BY <1>1, <1>3, <2>1, <2>3
  <2>5. \A i \in Ids : i >= next => rows'[i] = NoRow
    BY <1>1, <1>3, <2>1, <2>4
  <2>. QED
    BY <1>1, <1>3, <2>1, <2>4, <2>5 DEF DeviceOK, IInv, TypeOK
<1>. QED
  BY <1>2, <1>3, <1>4 DEF Carry

LEMMA SameTarget ==
    ASSUME UNCHANGED <<seen, req>>
    PROVE  /\ Command(seen, req)' = Command(seen, req)
           /\ (MayAdd(seen, req) \/ MayChange(seen, req))'
                 <=> (MayAdd(seen, req) \/ MayChange(seen, req))
  BY DEF MayAdd, MayChange, Command, Candidates, Named, Detailed, Equals, On,
         Resolves, Protected, Target, NewRow

LEMMA IInvStep == IInv /\ [Next]_vars => IInv'
<1> SUFFICES ASSUME IInv, [Next]_vars
             PROVE  IInv'
  OBVIOUS
<1>0. TypeOK /\ CallInv /\ JournalTells /\ DeviceOK
  BY DEF IInv, TypeOK, DeviceOK
<1>1. ASSUME NEW r \in Requests, Begin(r)
      PROVE  IInv'
  <2>1. /\ DeviceOK' /\ next' <= MaxId /\ req' = r /\ seen' = NoRows
        /\ wrote' = FALSE
        /\ allowWrite' = allowWrite /\ allowWrite \in BOOLEAN /\ r.valid \in BOOLEAN
    BY <1>0, <1>1, RequestType DEF Begin, DeviceOK, TypeOK
  <2>2. NoRows \in [Ids -> Rows \cup {NoRow}]
    BY DEF NoRows
  <2>3. CASE Ends(<<>>, "error")
    BY <2>1, <2>2, <2>3, EndsTruly DEF Outcomes
  <2>4. CASE Allowed(r) /\ Tool[r.tool].by = "nothing" /\ Decides(r, NoRows, <<>>)
    <3>1. allowWrite' = TRUE /\ r.valid
      BY <2>1, <2>4 DEF Allowed
    <3>. QED
      BY <2>1, <2>2, <2>4, <3>1, DecidesTruly
  <2>5. CASE Allowed(r) /\ pc' = "read" /\ journal' = <<>> /\ UNCHANGED cmd
    <3>1. cmd' = NoCommand /\ journal' \in Seq({"preview", "applied", "error"})
      BY <1>0, <1>1, <2>5 DEF Begin, TypeOK
    <3>2. allowWrite' /\ r.valid
      BY <2>1, <2>5 DEF Allowed
    <3>3. TypeOK'
      BY <2>1, <2>2, <2>5, <3>1 DEF TypeOK, DeviceOK
    <3>4. CallInv'
      BY <2>1, <2>5, <3>2 DEF CallInv
    <3>5. JournalTells'
      BY <2>5 DEF JournalTells
    <3>. QED
      BY <3>3, <3>4, <3>5 DEF IInv
  <2>. QED
    BY <1>1, <2>3, <2>4, <2>5 DEF Begin
<1>2. CASE Read
  <2>1. /\ journal = <<>> /\ req \in Requests /\ req.valid /\ next <= MaxId
        /\ allowWrite = TRUE /\ wrote = FALSE
    BY <1>0, <1>2 DEF Read, CallInv, TypeOK
  <2>2. /\ DeviceOK' /\ next' <= MaxId /\ allowWrite' = TRUE
        /\ req' = req /\ seen' = rows /\ wrote' = FALSE
    BY <1>0, <1>2, <2>1 DEF Read, DeviceOK
  <2>. QED
    BY <1>0, <1>2, <2>1, <2>2, DecidesTruly DEF Read, DeviceOK
<1>3. CASE Write
  <2>1. /\ pc = "write" /\ journal = <<>> /\ req \in Requests /\ req.valid
        /\ allowWrite = TRUE /\ DeviceOK' /\ wrote' = TRUE
        /\ UNCHANGED <<allowWrite, req, seen>>
    BY <1>0, <1>3, CarryType DEF Write, CallInv, TypeOK
  <2>2. CASE pc' = "read back" /\ cmd' = NoCommand /\ UNCHANGED journal
    <3>1. TypeOK'
      BY <1>0, <2>1, <2>2 DEF TypeOK, DeviceOK
    <3>. QED
      BY <2>1, <2>2, <3>1 DEF IInv, CallInv, JournalTells
  <2>3. CASE Ends(journal, "applied")
    BY <1>0, <2>1, <2>3, EndsTruly DEF Outcomes, TypeOK
  <2>4. CASE Ends(journal, "error")
    BY <1>0, <2>1, <2>4, EndsTruly DEF Outcomes, TypeOK
  <2>. QED
    BY <1>3, <2>2, <2>3, <2>4 DEF Write
<1>4. CASE ReadBack
  <2>1. /\ journal = <<>> /\ req \in Requests /\ allowWrite = TRUE /\ wrote = TRUE
        /\ Ends(journal, "applied") /\ DeviceOK'
        /\ UNCHANGED <<allowWrite, req, seen, wrote>>
    BY <1>0, <1>4 DEF ReadBack, CallInv, TypeOK, DeviceOK
  <2>. QED
    BY <1>0, <2>1, EndsTruly DEF Outcomes, TypeOK
<1>5. CASE Fails
  <2>1. /\ journal = <<>> /\ req \in Requests /\ allowWrite = TRUE
        /\ Ends(journal, "error") /\ DeviceOK'
        /\ UNCHANGED <<allowWrite, req, seen, wrote>>
    BY <1>0, <1>5 DEF Fails, CallInv, TypeOK, DeviceOK
  <2>. QED
    BY <1>0, <2>1, EndsTruly DEF Outcomes, TypeOK
<1>6. ASSUME NEW i \in Ids, NEW row \in Edits, Edit(i, row)
      PROVE  IInv'
  <2>1. /\ row \in Rows \cup {NoRow} /\ rows' = [rows EXCEPT ![i] = row]
        /\ UNCHANGED <<allowWrite, pc, req, seen, cmd, journal, wrote>>
        /\ MaxId \in Nat /\ next \in 1..(MaxId + 1)
        /\ rows \in [Ids -> Rows \cup {NoRow}]
        /\ \A k \in Ids : k >= next => rows[k] = NoRow
    BY <1>0, <1>6, GuardedWriteConstants DEF Edit, TypeOK
  <2>2. next' \in 1..(MaxId + 1) /\ (next <= MaxId => next' <= MaxId)
    BY <1>6, <2>1 DEF Edit
  <2>3. next <= next' /\ i < next'
    BY <1>6, <2>1 DEF Edit, Ids
  <2>4. \A k \in Ids : k >= next' => rows'[k] = NoRow
    BY <2>1, <2>2, <2>3 DEF Ids
  <2>5. TypeOK'
    BY <1>0, <2>1, <2>2, <2>4 DEF TypeOK
  <2>6. CallInv' /\ JournalTells'
    BY <1>0, <2>1, <2>2, SameTarget DEF CallInv, JournalTells
  <2>. QED
    BY <2>5, <2>6 DEF IInv
<1>7. CASE UNCHANGED vars
  <2>1. TypeOK' /\ JournalTells'
    BY <1>0, <1>7 DEF vars, TypeOK, JournalTells
  <2>2. CallInv'
    BY <1>0, <1>7, SameTarget DEF vars, CallInv
  <2>. QED
    BY <2>1, <2>2 DEF IInv
<1>. QED
  BY <1>1, <1>2, <1>3, <1>4, <1>5, <1>6, <1>7 DEF Next

LEMMA IInvAlways == Spec => []IInv
  BY IInvInit, IInvStep, PTL DEF Spec

\* Every variable keeps its type; a call has a command exactly while its write is
\* outstanding, and ids are never used twice.
THEOREM TypeCorrect == Spec => []TypeOK
<1>1. IInv => TypeOK
  BY DEF IInv
<1>. QED
  BY <1>1, IInvAlways, PTL

\* A call that has ended is in the journal once, a refused one too, and what the
\* journal says of it is what the device did.
THEOREM JournalTellsAlways == Spec => []JournalTells
<1>1. IInv => JournalTells
  BY DEF IInv
<1>. QED
  BY <1>1, IInvAlways, PTL

\* A tool that refuses ambiguity never acts on one of several rows that carry
\* what the caller named equally well.
THEOREM RefusesAmbiguityAlways == Spec => []RefusesAmbiguity
<1>1. IInv => RefusesAmbiguity
  <2> SUFFICES ASSUME IInv, pc = "write", cmd.id # 0, Tool[req.tool].several = "refuse",
                      NEW i \in Ids \ {cmd.id}
               PROVE  ~Alike(req, seen[cmd.id], seen[i])
    BY DEF RefusesAmbiguity
  <2>1. /\ req \in Requests /\ cmd = Command(seen, req)
        /\ MayAdd(seen, req) \/ MayChange(seen, req)
    BY DEF IInv, CallInv
  <2>2. Resolves(seen, req) /\ cmd.id = Target(seen, req)
    BY <2>1, CommandType DEF MayChange
  <2>. QED
    BY <2>1, <2>2, NoOtherAlike
<1>. QED
  BY <1>1, IInvAlways, PTL

\* Only a write touches the device during a call, and it touches one row: a new
\* one, or one that carried what the caller named; or, of create_backup, a file
\* that was not of that name when it looked.
THEOREM OnlyTheNamedRowAlways == Spec => OnlyTheNamedRow
<1>1. ASSUME IInv, [Next]_vars, pc' # pc, rows' # rows
      PROVE  /\ allowWrite /\ req.confirm /\ req.valid
             /\ \E i \in Ids :
                  /\ \A j \in Ids \ {i} : rows'[j] = rows[j]
                  /\ \/ i = next /\ rows[i] = NoRow
                     \/ rows[i] # NoRow /\ Carries(req, seen[i])
                     \/ /\ req.tool = "create_backup"
                        /\ Carries(req, rows[i]) /\ ~Carries(req, seen[i])
  <2>1. Write
    BY <1>1 DEF Next, Begin, Read, ReadBack, Fails, Edit, vars
  <2>2. /\ pc = "write" /\ allowWrite /\ req \in Requests /\ req.confirm /\ req.valid
        /\ MayAdd(seen, req) \/ MayChange(seen, req)
        /\ cmd = Command(seen, req)
    BY <1>1, <2>1 DEF Write, IInv, CallInv
  <2>3. CASE cmd.action = "add"
    <3>1. CASE next \in Ids /\ rows[next] = NoRow /\ \A j \in Ids \ {next} : rows'[j] = rows[j]
      BY <2>2, <3>1
    <3>2. ASSUME NEW i \in Ids, cmd.row.menu = "file", rows[i].menu = "file",
                 rows[i].name = cmd.row.name, \A j \in Ids \ {i} : rows'[j] = rows[j]
          PROVE  req.tool = "create_backup" /\ Carries(req, rows[i]) /\ ~Carries(req, seen[i])
      <4>1. MayAdd(seen, req) /\ cmd.row = NewRow(req)
        BY <2>2, <2>3, CommandType DEF Command
      <4>2. Tool[req.tool].menu = "file" /\ rows[i].name = req.name
        BY <3>2, <4>1 DEF NewRow
      <4>3. req.tool = "create_backup" /\ req.name \notin Numeric
        BY <2>2, <4>2, RequestType, FilesAreBackups
      <4>4. Tool[req.tool].by = "name"
        BY <4>3 DEF Tool, create_backup, Adds
      <4>5. Carries(req, rows[i])
        BY <3>2, <4>2, <4>4 DEF Carries
      <4>6. ~Carries(req, seen[i])
        BY <2>2, <4>1, <4>3, <4>4, RequestType, NoCandidateNoCarrier DEF MayAdd
      <4>. QED
        BY <4>3, <4>5, <4>6
    <3>. QED
      BY <1>1, <2>1, <2>2, <2>3, <3>1, <3>2, CarryType DEF Write
  <2>4. CASE cmd.action # "add"
    <3>1. Resolves(seen, req) /\ cmd.id = Target(seen, req)
      BY <2>2, <2>4, CommandType DEF MayChange
    <3>2. Carries(req, seen[cmd.id])
      BY <2>2, <3>1, TargetIsCandidate, CandidateCarries, RequestType
    <3>. QED
      BY <1>1, <2>1, <2>2, <2>4, <3>2, CarryType DEF Write
  <2>. QED
    BY <2>3, <2>4
<1>. QED
  BY <1>1, IInvAlways, PTL DEF Spec, OnlyTheNamedRow

\* A row is added only to a menu that, when the call read it, had none that
\* carried what the caller named.
THEOREM AddsNoDuplicateAlways == Spec => AddsNoDuplicate
<1>1. ASSUME IInv, [Next]_vars, pc' # pc, next' # next,
             Tool[req.tool].by # "nothing", {req.name, req.detail} \cap Numeric = {}
      PROVE  \A i \in Ids : Carries(req, rows[i]) => rows[i] # seen[i]
  <2>1. Write
    BY <1>1 DEF Next, Begin, Read, ReadBack, Fails, Edit, vars
  <2>2. /\ pc = "write" /\ req \in Requests
        /\ MayAdd(seen, req) \/ MayChange(seen, req)
        /\ cmd = Command(seen, req)
    BY <1>1, <2>1 DEF Write, IInv, CallInv
  <2>3. cmd.action = "add"
    BY <1>1, <2>1, <2>2, CarryType DEF Write
  <2>4. Candidates(seen, req) = {}
    BY <2>2, <2>3, CommandType DEF MayAdd
  <2>5. req.name \notin Numeric /\ req.detail \notin Numeric
    BY <1>1
  <2>. QED
    BY <1>1, <2>2, <2>4, <2>5, RequestType, NoCandidateNoCarrier
<1>. QED
  BY <1>1, IInvAlways, PTL DEF Spec, AddsNoDuplicate
=============================================================================
