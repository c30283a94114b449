--------------------------- MODULE OtherWrites_proof ---------------------------
(***************************************************************************)
(* Proofs about OtherWrites: what a write and an administrator may do to a *)
(* device, what each tool sends of what it has read, and from that the     *)
(* properties of the calls.                                                *)
(***************************************************************************)
EXTENDS OtherWrites, FiniteSetTheorems, SequenceTheorems, TLAPS

-----------------------------------------------------------------------------
(* Rows, menus and devices.                                                 *)

LEMMA MenuIs ==
    ASSUME NEW m, NEW rs, IsMenu(m, rs)
    PROVE  /\ rs = [i \in DOMAIN rs |-> rs[i]]
           /\ DOMAIN rs \subseteq 1..MaxId
           /\ \A i \in DOMAIN rs : IsRow(m, rs[i])
           /\ \A i, j \in DOMAIN rs : SameName(rs[i], rs[j]) => i = j
           /\ m \in Settings => \E i \in 1..MaxId : DOMAIN rs = {i}
BY DEF IsMenu, IsFcn

LEMMA NoRowsIsMenu ==
    ASSUME NEW m, m \notin Settings
    PROVE  IsMenu(m, NoRows) /\ DOMAIN NoRows = {}
BY DEF NoRows, IsMenu, IsFcn

LEMMA PutIs ==
    ASSUME NEW rs, NEW i, NEW row
    PROVE  /\ DOMAIN Put(rs, i, row) = DOMAIN rs \cup {i}
           /\ Put(rs, i, row)[i] = row
           /\ \A j \in DOMAIN rs \ {i} : Put(rs, i, row)[j] = rs[j]
           /\ IsFcn(Put(rs, i, row))
BY DEF Put, IsFcn

LEMMA PutKeepsMenu ==
    ASSUME NEW m, NEW rs, IsMenu(m, rs),
           NEW i \in 1..MaxId, m \in Settings => i \in DOMAIN rs,
           NEW row, IsRow(m, row),
           \A j \in DOMAIN rs \ {i} : ~SameName(row, rs[j])
    PROVE  IsMenu(m, Put(rs, i, row))
<1> DEFINE s == Put(rs, i, row)
<1>1. /\ DOMAIN s = DOMAIN rs \cup {i} /\ s[i] = row /\ IsFcn(s)
      /\ \A j \in DOMAIN rs \ {i} : s[j] = rs[j]
  BY DEF Put, IsFcn
<1> HIDE DEF s
<1>2. \A j \in DOMAIN s : IsRow(m, s[j])
  BY <1>1, MenuIs
<1>3. ASSUME NEW j \in DOMAIN s, NEW k \in DOMAIN s, SameName(s[j], s[k])
      PROVE  j = k
  <2>1. SameName(s[k], s[j])
    BY <1>3 DEF SameName
  <2>2. CASE j = i \/ k = i
    BY <1>1, <1>3, <2>1, <2>2
  <2>3. CASE j # i /\ k # i
    BY <1>1, <1>3, <2>3, MenuIs
  <2> QED  BY <2>2, <2>3
<1>4. DOMAIN s \subseteq 1..MaxId
  BY <1>1, MenuIs
<1>5. m \in Settings => \E j \in 1..MaxId : DOMAIN s = {j}
  <2> SUFFICES ASSUME m \in Settings PROVE \E j \in 1..MaxId : DOMAIN s = {j}
    OBVIOUS
  <2>1. i \in DOMAIN rs /\ \E j \in 1..MaxId : DOMAIN rs = {j}
    BY DEF IsMenu
  <2> QED  BY <1>1, <2>1
<1> QED
  BY <1>1, <1>2, <1>3, <1>4, <1>5 DEF IsMenu, s

Without(rs, i) == Restrict(rs, DOMAIN rs \ {i})

LEMMA RemoveKeepsMenu ==
    ASSUME NEW m, m \notin Settings, NEW rs, IsMenu(m, rs), NEW i
    PROVE  /\ IsMenu(m, Without(rs, i))
           /\ DOMAIN Without(rs, i) \subseteq DOMAIN rs
           /\ \A j \in DOMAIN Without(rs, i) : Without(rs, i)[j] = rs[j]
<1> DEFINE s == Without(rs, i)
<1>1. /\ DOMAIN s = DOMAIN rs \ {i} /\ IsFcn(s)
      /\ \A j \in DOMAIN rs \ {i} : s[j] = rs[j]
  BY DEF Without, Restrict, IsFcn
<1> HIDE DEF s
<1>2. IsMenu(m, s)
  BY <1>1 DEF IsMenu
<1> QED
  BY <1>1, <1>2 DEF s

LEMMA OverrideIs ==
    ASSUME NEW row, NEW fields
    PROVE  /\ DOMAIN Override(row, fields) = DOMAIN row \cup DOMAIN fields
           /\ \A f \in DOMAIN fields : Override(row, fields)[f] = fields[f]
           /\ \A f \in DOMAIN row \ DOMAIN fields : Override(row, fields)[f] = row[f]
           /\ IsFcn(Override(row, fields))
BY DEF Override, IsFcn

\* One menu is replaced by another that fits the rest of the device.
LEMMA ReplaceKeepsDevice ==
    ASSUME NEW d, IsDevice(d), NEW m \in DOMAIN d, NEW rs, IsMenu(m, rs),
           \A n \in DOMAIN d \ {m} : DOMAIN rs \cap DOMAIN d[n] = {},
           \A n \in DOMAIN d : {m, n} = {"wifi", "wireless"} =>
              \A i \in DOMAIN rs, j \in DOMAIN d[n] : ~SameName(rs[i], d[n][j]),
           NEW e, e = [d EXCEPT ![m] = rs]
    PROVE  /\ IsDevice(e) /\ DOMAIN e = DOMAIN d
           /\ e[m] = rs
           /\ \A n \in DOMAIN d \ {m} : e[n] = d[n]
<1>1. /\ DOMAIN e = DOMAIN d /\ e[m] = rs /\ IsFcn(e)
      /\ \A n \in DOMAIN d \ {m} : e[n] = d[n]
  BY DEF IsFcn
<1>2. \A n \in DOMAIN e : IsMenu(n, e[n])
  BY <1>1 DEF IsDevice
<1>3. \A n, k \in DOMAIN e : n # k => DOMAIN e[n] \cap DOMAIN e[k] = {}
  BY <1>1 DEF IsDevice
<1>4. ASSUME {"wifi", "wireless"} \subseteq DOMAIN e,
             NEW i \in DOMAIN e["wifi"], NEW j \in DOMAIN e["wireless"]
      PROVE  ~SameName(e["wifi"][i], e["wireless"][j])
  <2>1. CASE m = "wifi"
    BY <1>1, <1>4, <2>1
  <2>2. CASE m = "wireless"
    <3>1. ~SameName(e["wireless"][j], e["wifi"][i])
      BY <1>1, <1>4, <2>2
    <3> QED  BY <3>1 DEF SameName
  <2>3. CASE m # "wifi" /\ m # "wireless"
    BY <1>1, <1>4, <2>3 DEF IsDevice
  <2> QED  BY <2>1, <2>2, <2>3
<1> QED
  BY <1>1, <1>2, <1>3, <1>4 DEF IsDevice

-----------------------------------------------------------------------------
(* What each tool does next, of the answers it has.                         *)

IsAnswers(s) ==
    /\ DOMAIN s \subseteq Menus
    /\ \A m \in DOMAIN s :
         \/ s[m].ok = TRUE /\ IsMenu(m, s[m].rows)
         \/ s[m].ok = FALSE /\ s[m].rows = NoRows

AllHeard(s) == \A m \in DOMAIN s : s[m].ok = TRUE

LEMMA GivesUp ==
    ASSUME NEW r, NEW s, IsAnswers(s), r.tool # "set_wifi_ssid", ~AllHeard(s)
    PROVE  Step(r, s) = Raise("command failed")
BY DEF Step, Survives, AllHeard, IsAnswers

LEMMA IdentityStep ==
    ASSUME NEW r, NEW s, r.tool = "set_identity", AllHeard(s)
    PROVE  \/ "identity" \notin DOMAIN s /\ Step(r, s) = Ask("identity")
           \/ /\ "identity" \in DOMAIN s
              /\ Step(r, s) = Send(SetRow("identity", Only(s["identity"].rows),
                                          [name |-> r.name]), {})
<1>1. Step(r, s) = set_identity(r, s)
  BY DEF Step, Survives, AllHeard
<1> QED
  BY <1>1 DEF set_identity

LEMMA FlushStep ==
    ASSUME NEW r, NEW s, r.tool = "clear_dns_cache", AllHeard(s)
    PROVE  \/ "dns cache" \notin DOMAIN s /\ Step(r, s) = Ask("dns cache")
           \/ /\ "dns cache" \in DOMAIN s
              /\ Step(r, s) = Send([action |-> "flush", menu |-> "dns cache"], {})
<1>1. Step(r, s) = clear_dns_cache(r, s)
  BY DEF Step, Survives, AllHeard
<1> QED
  BY <1>1 DEF clear_dns_cache

LEMMA WakeStep ==
    ASSUME NEW r, NEW s, r.tool = "wake_on_lan", AllHeard(s)
    PROVE  Step(r, s) = Send([action |-> "wake"], {})
BY DEF Step, Survives, AllHeard, wake_on_lan

LEMMA PeerStep ==
    ASSUME NEW r, NEW s, r.tool = "add_wireguard_peer", AllHeard(s)
    PROVE  \/ "wireguard" \notin DOMAIN s /\ Step(r, s) = Ask("wireguard")
           \/ /\ "wireguard" \in DOMAIN s /\ Named(s["wireguard"].rows, r.name) = {}
              /\ Step(r, s) = Raise("not found")
           \/ "peers" \notin DOMAIN s /\ Step(r, s) = Ask("peers")
           \/ Step(r, s) = Raise("already exists")
           \/ /\ "wireguard" \in DOMAIN s /\ Named(s["wireguard"].rows, r.name) # {}
              /\ "peers" \in DOMAIN s /\ Duplicates(s["peers"].rows, r) = {}
              /\ Step(r, s) = Send(AddRow("peers", [interface |-> r.name, key |-> r.key]), {})
<1>1. Step(r, s) = add_wireguard_peer(r, s)
  BY DEF Step, Survives, AllHeard
<1> QED
  BY <1>1 DEF add_wireguard_peer

TheRow(rs) == rs[Only(rs)]

LEMMA NtpStep ==
    ASSUME NEW r, NEW s, r.tool = "set_ntp_servers", AllHeard(s)
    PROVE  \/ "ntp" \notin DOMAIN s /\ Step(r, s) = Ask("ntp")
           \/ Step(r, s) = Raise("invalid")
           \/ /\ "ntp" \in DOMAIN s /\ OldGeneration(TheRow(s["ntp"].rows))
              /\ DOMAIN OldFields(TheRow(s["ntp"].rows), r.servers) # {}
              /\ Step(r, s) = Send(SetRow("ntp", Only(s["ntp"].rows),
                                          OldFields(TheRow(s["ntp"].rows), r.servers)),
                                   Ignored(TheRow(s["ntp"].rows), r.servers))
           \/ /\ "ntp" \in DOMAIN s /\ ~OldGeneration(TheRow(s["ntp"].rows))
              /\ Step(r, s) = Send(SetRow("ntp", Only(s["ntp"].rows),
                                          [servers |-> r.servers]), {})
<1>1. Step(r, s) = set_ntp_servers(r, s)
  BY DEF Step, Survives, AllHeard
<1> QED
  BY <1>1 DEF set_ntp_servers, TheRow

WifiHere(r, s) == Named(RowsRead(s, "wifi"), r.name)
OlderHere(r, s) == Named(RowsRead(s, "wireless"), r.name)
WifiRow(r, s) == s["wifi"].rows[Least(WifiHere(r, s))]
ItsConfigurations(r, s) ==
    Named(s["configuration"].rows, WifiRow(r, s).configuration)

LEMMA WifiStep ==
    ASSUME NEW r, NEW s, r.tool = "set_wifi_ssid"
    PROVE  \/ "wifi" \notin DOMAIN s /\ Step(r, s) = Ask("wifi")
           \/ /\ "wifi" \in DOMAIN s /\ WifiHere(r, s) # {}
              /\ ~Refers(WifiRow(r, s)) /\ Field(WifiRow(r, s), "ssid")
              /\ Step(r, s) = Send(SetRow("wifi", Least(WifiHere(r, s)),
                                          [ssid |-> r.ssid]), {})
           \/ Step(r, s) = Raise("command failed")
           \/ "configuration" \notin DOMAIN s /\ Step(r, s) = Ask("configuration")
           \/ /\ "wifi" \in DOMAIN s /\ WifiHere(r, s) # {} /\ Refers(WifiRow(r, s))
              /\ "configuration" \in DOMAIN s /\ s["configuration"].ok
              /\ ItsConfigurations(r, s) = {}
              /\ Step(r, s) = Raise("not found")
           \/ /\ "wifi" \in DOMAIN s /\ WifiHere(r, s) # {} /\ Refers(WifiRow(r, s))
              /\ "configuration" \in DOMAIN s /\ s["configuration"].ok
              /\ ItsConfigurations(r, s) # {}
              /\ Step(r, s) = Send(SetRow("configuration", Least(ItsConfigurations(r, s)),
                                          [ssid |-> r.ssid]), {})
           \/ "wireless" \notin DOMAIN s /\ Step(r, s) = Ask("wireless")
           \/ /\ "wifi" \in DOMAIN s /\ WifiHere(r, s) = {}
              /\ "wireless" \in DOMAIN s /\ OlderHere(r, s) # {}
              /\ Step(r, s) = Send(SetRow("wireless", Least(OlderHere(r, s)),
                                          [ssid |-> r.ssid]), {})
           \/ /\ "wifi" \in DOMAIN s /\ WifiHere(r, s) = {}
              /\ "wireless" \in DOMAIN s /\ OlderHere(r, s) = {}
              /\ Step(r, s) = Raise("not found")
<1>1. Step(r, s) = set_wifi_ssid(r, s)
  BY DEF Step, Survives
<1>2. CASE "wifi" \in DOMAIN s /\ WifiHere(r, s) # {}
  <2>1. Step(r, s) = WifiTarget(r, s, Least(WifiHere(r, s)))
    BY <1>1, <1>2 DEF set_wifi_ssid, WifiHere
  <2> QED
    BY <1>2, <2>1 DEF WifiTarget, WifiRow, ItsConfigurations, ConfigurationOf
<1>3. CASE ~("wifi" \in DOMAIN s /\ WifiHere(r, s) # {})
  BY <1>1, <1>3 DEF set_wifi_ssid, WifiHere, OlderHere, OlderMenuNext
<1> QED
  BY <1>2, <1>3

LEMMA StepsAre ==
    ASSUME NEW a, NEW c, NEW w
    PROVE  /\ Ask(a).do = "ask" /\ Ask(a).menu = a
           /\ Raise(a).do = "raise" /\ Raise(a).error = a
           /\ Send(c, w).do = "send" /\ Send(c, w).cmd = c /\ Send(c, w).warned = w
BY DEF Ask, Raise, Send

Heard(s, m) == m \in DOMAIN s /\ s[m].ok = TRUE

\* What a tool has sent, and what it had read by then.
Sent(r, s, c) ==
    \/ /\ r.tool = "set_identity" /\ Heard(s, "identity")
       /\ c = SetRow("identity", Only(s["identity"].rows), [name |-> r.name])
    \/ /\ r.tool = "clear_dns_cache" /\ Heard(s, "dns cache")
       /\ c = [action |-> "flush", menu |-> "dns cache"]
    \/ r.tool = "wake_on_lan" /\ c = [action |-> "wake"]
    \/ /\ r.tool = "add_wireguard_peer" /\ Heard(s, "wireguard") /\ Heard(s, "peers")
       /\ Named(s["wireguard"].rows, r.name) # {}
       /\ Duplicates(s["peers"].rows, r) = {}
       /\ c = AddRow("peers", [interface |-> r.name, key |-> r.key])
    \/ /\ r.tool = "set_ntp_servers" /\ Heard(s, "ntp")
       /\ \/ /\ OldGeneration(TheRow(s["ntp"].rows))
             /\ DOMAIN OldFields(TheRow(s["ntp"].rows), r.servers) # {}
             /\ c = SetRow("ntp", Only(s["ntp"].rows),
                           OldFields(TheRow(s["ntp"].rows), r.servers))
          \/ /\ ~OldGeneration(TheRow(s["ntp"].rows))
             /\ c = SetRow("ntp", Only(s["ntp"].rows), [servers |-> r.servers])
    \/ /\ r.tool = "set_wifi_ssid" /\ Heard(s, "wifi") /\ WifiHere(r, s) # {}
       /\ ~Refers(WifiRow(r, s)) /\ Field(WifiRow(r, s), "ssid")
       /\ c = SetRow("wifi", Least(WifiHere(r, s)), [ssid |-> r.ssid])
    \/ /\ r.tool = "set_wifi_ssid" /\ Heard(s, "wifi") /\ WifiHere(r, s) # {}
       /\ Refers(WifiRow(r, s)) /\ Heard(s, "configuration")
       /\ ItsConfigurations(r, s) # {}
       /\ c = SetRow("configuration", Least(ItsConfigurations(r, s)), [ssid |-> r.ssid])
    \/ /\ r.tool = "set_wifi_ssid" /\ "wifi" \in DOMAIN s /\ WifiHere(r, s) = {}
       /\ Heard(s, "wireless") /\ OlderHere(r, s) # {}
       /\ c = SetRow("wireless", Least(OlderHere(r, s)), [ssid |-> r.ssid])

\* Where it found a row, it has heard the menu.
LEMMA WifiHeard ==
    ASSUME NEW r, NEW s, IsAnswers(s)
    PROVE  /\ "wifi" \in DOMAIN s /\ WifiHere(r, s) # {} => Heard(s, "wifi")
           /\ "wireless" \in DOMAIN s /\ OlderHere(r, s) # {} => Heard(s, "wireless")
           /\ "configuration" \in DOMAIN s /\ s["configuration"].ok
                => Heard(s, "configuration")
BY DEF IsAnswers, WifiHere, OlderHere, RowsRead, Named, NoRows, Heard

\* The next step of a call asks for a menu it has not asked for, ends it with an
\* error, or sends what was just listed.
Proceeds(r, s) ==
    \/ Step(r, s).do = "ask" /\ Step(r, s).menu \in Menus \ DOMAIN s
    \/ Step(r, s).do = "raise" /\ Step(r, s).error \in Errors \ {"none"}
    \/ Step(r, s).do = "send" /\ Sent(r, s, Step(r, s).cmd)

LEMMA Asks ==
    ASSUME NEW r, NEW s, NEW m, m \in Menus, m \notin DOMAIN s, Step(r, s) = Ask(m)
    PROVE  Proceeds(r, s)
BY StepsAre DEF Proceeds

LEMMA Raises ==
    ASSUME NEW r, NEW s, NEW e,
           e \in {"command failed", "not found", "already exists", "invalid"},
           Step(r, s) = Raise(e)
    PROVE  Proceeds(r, s)
<1>1. e \in Errors \ {"none"}
  BY DEF Errors
<1>2. Step(r, s).do = "raise" /\ Step(r, s).error = e
  BY StepsAre
<1> QED
  BY <1>1, <1>2 DEF Proceeds

LEMMA Sends ==
    ASSUME NEW r, NEW s, NEW c, NEW w, Sent(r, s, c), Step(r, s) = Send(c, w)
    PROVE  Proceeds(r, s)
BY StepsAre DEF Proceeds

LEMMA MenusAre ==
    /\ "identity" \in Menus /\ "dns cache" \in Menus /\ "ntp" \in Menus
    /\ "wireguard" \in Menus /\ "peers" \in Menus /\ "wifi" \in Menus
    /\ "configuration" \in Menus /\ "wireless" \in Menus
BY DEF Menus

LEMMA WifiProceeds ==
    ASSUME NEW r, NEW s, IsAnswers(s), r.tool = "set_wifi_ssid"
    PROVE  Proceeds(r, s)
<1> USE MenusAre
<1>1. CASE "wifi" \notin DOMAIN s /\ Step(r, s) = Ask("wifi")
  BY <1>1, Asks
<1>2. CASE "configuration" \notin DOMAIN s /\ Step(r, s) = Ask("configuration")
  BY <1>2, Asks
<1>3. CASE "wireless" \notin DOMAIN s /\ Step(r, s) = Ask("wireless")
  BY <1>3, Asks
<1>4. CASE Step(r, s) = Raise("command failed")
  BY <1>4, Raises
<1>5. CASE Step(r, s) = Raise("not found")
  BY <1>5, Raises
<1>6. CASE /\ "wifi" \in DOMAIN s /\ WifiHere(r, s) # {}
           /\ ~Refers(WifiRow(r, s)) /\ Field(WifiRow(r, s), "ssid")
           /\ Step(r, s) = Send(SetRow("wifi", Least(WifiHere(r, s)), [ssid |-> r.ssid]), {})
  <2>1. Sent(r, s, SetRow("wifi", Least(WifiHere(r, s)), [ssid |-> r.ssid]))
    BY <1>6, WifiHeard DEF Sent
  <2> QED  BY <1>6, <2>1, Sends
<1>7. CASE /\ "wifi" \in DOMAIN s /\ WifiHere(r, s) # {} /\ Refers(WifiRow(r, s))
           /\ "configuration" \in DOMAIN s /\ s["configuration"].ok
           /\ ItsConfigurations(r, s) # {}
           /\ Step(r, s) = Send(SetRow("configuration", Least(ItsConfigurations(r, s)),
                                       [ssid |-> r.ssid]), {})
  <2>1. Sent(r, s, SetRow("configuration", Least(ItsConfigurations(r, s)), [ssid |-> r.ssid]))
    BY <1>7, WifiHeard DEF Sent
  <2> QED  BY <1>7, <2>1, Sends
<1>8. CASE /\ "wifi" \in DOMAIN s /\ WifiHere(r, s) = {}
           /\ "wireless" \in DOMAIN s /\ OlderHere(r, s) # {}
           /\ Step(r, s) = Send(SetRow("wireless", Least(OlderHere(r, s)), [ssid |-> r.ssid]), {})
  <2>1. Sent(r, s, SetRow("wireless", Least(OlderHere(r, s)), [ssid |-> r.ssid]))
    BY <1>8, WifiHeard DEF Sent
  <2> QED  BY <1>8, <2>1, Sends
<1> QED
  BY <1>1, <1>2, <1>3, <1>4, <1>5, <1>6, <1>7, <1>8, WifiStep

LEMMA PeerProceeds ==
    ASSUME NEW r, NEW s, r.tool = "add_wireguard_peer", AllHeard(s)
    PROVE  Proceeds(r, s)
<1> USE MenusAre
<1> DEFINE c == AddRow("peers", [interface |-> r.name, key |-> r.key])
<1>1. CASE "wireguard" \notin DOMAIN s /\ Step(r, s) = Ask("wireguard")
  BY <1>1, Asks
<1>2. CASE "peers" \notin DOMAIN s /\ Step(r, s) = Ask("peers")
  BY <1>2, Asks
<1>3. CASE Step(r, s) = Raise("not found") \/ Step(r, s) = Raise("already exists")
  BY <1>3, Raises
<1>4. CASE /\ "wireguard" \in DOMAIN s /\ Named(s["wireguard"].rows, r.name) # {}
           /\ "peers" \in DOMAIN s /\ Duplicates(s["peers"].rows, r) = {}
           /\ Step(r, s) = Send(c, {})
  <2>1. Sent(r, s, c)
    BY <1>4 DEF Sent, Heard, AllHeard
  <2> QED  BY <1>4, <2>1, Sends
<1> QED
  BY <1>1, <1>2, <1>3, <1>4, PeerStep

LEMMA NtpProceeds ==
    ASSUME NEW r, NEW s, r.tool = "set_ntp_servers", AllHeard(s)
    PROVE  Proceeds(r, s)
<1> USE MenusAre
<1> DEFINE row == TheRow(s["ntp"].rows)
           old == SetRow("ntp", Only(s["ntp"].rows), OldFields(row, r.servers))
           new == SetRow("ntp", Only(s["ntp"].rows), [servers |-> r.servers])
<1>1. CASE "ntp" \notin DOMAIN s /\ Step(r, s) = Ask("ntp")
  BY <1>1, Asks
<1>2. CASE Step(r, s) = Raise("invalid")
  BY <1>2, Raises
<1>3. CASE /\ "ntp" \in DOMAIN s /\ OldGeneration(row)
           /\ DOMAIN OldFields(row, r.servers) # {}
           /\ Step(r, s) = Send(old, Ignored(row, r.servers))
  <2>1. Sent(r, s, old)
    BY <1>3 DEF Sent, Heard, AllHeard
  <2> QED  BY <1>3, <2>1, Sends
<1>4. CASE /\ "ntp" \in DOMAIN s /\ ~OldGeneration(row)
           /\ Step(r, s) = Send(new, {})
  <2>1. Sent(r, s, new)
    BY <1>4 DEF Sent, Heard, AllHeard
  <2> QED  BY <1>4, <2>1, Sends
<1> QED
  BY <1>1, <1>2, <1>3, <1>4, NtpStep

LEMMA StepIs ==
    ASSUME NEW r, WellFormed(r), NEW s, IsAnswers(s)
    PROVE  Proceeds(r, s)
<1> USE MenusAre
<1>1. CASE r.tool = "set_wifi_ssid"
  BY <1>1, WifiProceeds
<1>2. CASE r.tool # "set_wifi_ssid" /\ ~AllHeard(s)
  BY <1>2, GivesUp, Raises
<1>3. CASE r.tool # "set_wifi_ssid" /\ AllHeard(s)
  <2>1. CASE r.tool = "set_identity"
    <3>1. CASE "identity" \notin DOMAIN s
      BY <1>3, <2>1, <3>1, IdentityStep, Asks
    <3>2. CASE "identity" \in DOMAIN s
      <4> DEFINE c == SetRow("identity", Only(s["identity"].rows), [name |-> r.name])
      <4>1. Step(r, s) = Send(c, {})
        BY <1>3, <2>1, <3>2, IdentityStep
      <4>2. Sent(r, s, c)
        BY <1>3, <2>1, <3>2 DEF Sent, Heard, AllHeard
      <4> QED  BY <4>1, <4>2, Sends
    <3> QED  BY <3>1, <3>2
  <2>2. CASE r.tool = "clear_dns_cache"
    <3>1. CASE "dns cache" \notin DOMAIN s
      BY <1>3, <2>2, <3>1, FlushStep, Asks
    <3>2. CASE "dns cache" \in DOMAIN s
      <4> DEFINE c == [action |-> "flush", menu |-> "dns cache"]
      <4>1. Step(r, s) = Send(c, {})
        BY <1>3, <2>2, <3>2, FlushStep
      <4>2. Sent(r, s, c)
        BY <1>3, <2>2, <3>2 DEF Sent, Heard, AllHeard
      <4> QED  BY <4>1, <4>2, Sends
    <3> QED  BY <3>1, <3>2
  <2>3. CASE r.tool = "wake_on_lan"
    <3>1. Sent(r, s, [action |-> "wake"])
      BY <2>3 DEF Sent
    <3> QED  BY <1>3, <2>3, <3>1, WakeStep, Sends
  <2>4. CASE r.tool = "add_wireguard_peer"
    BY <1>3, <2>4, PeerProceeds
  <2>5. CASE r.tool = "set_ntp_servers"
    BY <1>3, <2>5, NtpProceeds
  <2> QED
    BY <1>3, <2>1, <2>2, <2>3, <2>4, <2>5 DEF WellFormed, Tools
<1> QED
  BY <1>1, <1>2, <1>3

LEMMA SendIs ==
    ASSUME NEW r, WellFormed(r), NEW s, IsAnswers(s), Step(r, s).do = "send"
    PROVE  Sent(r, s, Step(r, s).cmd)
BY StepIs DEF Proceeds

LEMMA CommandIs ==
    ASSUME NEW r, NEW s, NEW c, Sent(r, s, c)
    PROVE  c # NoCommand /\ c.action \in {"set", "flush", "wake", "add"}
<1>1. \/ \E m, i, f : c = SetRow(m, i, f)
      \/ \E m, f : c = AddRow(m, f)
      \/ c = [action |-> "flush", menu |-> "dns cache"]
      \/ c = [action |-> "wake"]
  BY Zenon DEF Sent
<1>2. c.action \in {"set", "flush", "wake", "add"}
  <2>1. CASE \E m, i, f : c = SetRow(m, i, f)
    BY <2>1 DEF SetRow
  <2>2. CASE \E m, f : c = AddRow(m, f)
    BY <2>2 DEF AddRow
  <2>3. CASE c = [action |-> "flush", menu |-> "dns cache"]
    BY <2>3
  <2>4. CASE c = [action |-> "wake"]
    BY <2>4
  <2> QED  BY <1>1, <2>1, <2>2, <2>3, <2>4
<1> QED
  BY <1>2 DEF NoCommand

-----------------------------------------------------------------------------
(* The one row of a name, or of a menu.                                     *)

LEMMA NamedIs ==
    ASSUME NEW m, NEW rs, IsMenu(m, rs), NEW name
    PROVE  /\ Named(rs, name) \subseteq DOMAIN rs
           /\ \A i \in Named(rs, name), j \in Named(rs, name) : i = j
           /\ Named(rs, name) # {} =>
                Least(Named(rs, name)) \in Named(rs, name)
<1> DEFINE S == Named(rs, name)
<1>1. S \subseteq DOMAIN rs /\ S \subseteq 1..MaxId
  BY MenuIs DEF Named
<1>2. ASSUME NEW i \in S, NEW j \in S
      PROVE  i = j
  <2>1. SameName(rs[i], rs[j])
    BY DEF Named, SameName
  <2> QED  BY <1>1, <2>1, MenuIs
<1> HIDE DEF S
<1>3. S # {} => Least(S) \in S
  <2> SUFFICES ASSUME NEW i \in S PROVE Least(S) \in S
    OBVIOUS
  <2>1. \A j \in S : i <= j
    BY <1>1, <1>2, OtherWritesConstants
  <2> QED  BY <2>1 DEF Least
<1> QED
  BY <1>1, <1>2, <1>3 DEF S

LEMMA OnlyIs ==
    ASSUME NEW m \in Settings, NEW rs, IsMenu(m, rs)
    PROVE  Only(rs) \in 1..MaxId /\ DOMAIN rs = {Only(rs)}
<1>1. PICK i \in 1..MaxId : DOMAIN rs = {i}
  BY MenuIs
<1>2. Least({i}) = i
  BY OtherWritesConstants DEF Least
<1> QED
  BY <1>1, <1>2 DEF Only

-----------------------------------------------------------------------------
(* What may happen to a device.                                             *)

\* A row is put where there is one, or under an id that no row has.
LEMMA PutKeepsDevice ==
    ASSUME NEW d, IsDevice(d), NEW m \in DOMAIN d, NEW i \in 1..MaxId,
           \/ i \in DOMAIN d[m]
           \/ m \notin Settings /\ \A n \in DOMAIN d : i \notin DOMAIN d[n],
           NEW row, IsRow(m, row),
           \A n \in DOMAIN d : (n = m \/ {n, m} = {"wifi", "wireless"}) =>
              \A j \in DOMAIN d[n] \ {i} : ~SameName(row, d[n][j]),
           NEW e, e = [d EXCEPT ![m] = Put(d[m], i, row)]
    PROVE  /\ IsDevice(e) /\ DOMAIN e = DOMAIN d
           /\ e[m] = Put(d[m], i, row)
           /\ \A n \in DOMAIN d \ {m} : e[n] = d[n]
<1> DEFINE rs == Put(d[m], i, row)
<1>1. IsMenu(m, d[m])
  BY DEF IsDevice
<1>2. /\ DOMAIN rs = DOMAIN d[m] \cup {i} /\ rs[i] = row
      /\ \A j \in DOMAIN d[m] \ {i} : rs[j] = d[m][j]
  BY DEF Put
<1>3. IsMenu(m, rs)
  BY <1>1, PutKeepsMenu
<1> HIDE DEF rs
<1>4. \A n \in DOMAIN d \ {m} : DOMAIN rs \cap DOMAIN d[n] = {} /\ i \notin DOMAIN d[n]
  BY <1>2 DEF IsDevice
<1>5. ASSUME NEW n \in DOMAIN d, {m, n} = {"wifi", "wireless"},
             NEW j \in DOMAIN rs, NEW k \in DOMAIN d[n]
      PROVE  ~SameName(rs[j], d[n][k])
  <2>1. n # m
    BY <1>5
  <2>2. k # i
    BY <1>4, <2>1
  <2>3. CASE j = i
    BY <1>2, <1>5, <2>2, <2>3
  <2>4. CASE j # i
    <3>1. rs[j] = d[m][j] /\ j \in DOMAIN d[m]
      BY <1>2, <2>4
    <3>2. CASE m = "wifi"
      BY <1>5, <2>1, <3>1, <3>2 DEF IsDevice
    <3>3. CASE m = "wireless"
      <4>1. ~SameName(d[n][k], d[m][j])
        BY <1>5, <2>1, <3>1, <3>3 DEF IsDevice
      <4> QED  BY <3>1, <4>1 DEF SameName
    <3> QED  BY <1>5, <3>2, <3>3
  <2> QED  BY <2>3, <2>4
<1>6. e = [d EXCEPT ![m] = rs]
  BY DEF rs
<1>7. \A n \in DOMAIN d : {m, n} = {"wifi", "wireless"} =>
         \A j \in DOMAIN rs, k \in DOMAIN d[n] : ~SameName(rs[j], d[n][k])
  BY <1>5
<1>8. /\ IsDevice(e) /\ DOMAIN e = DOMAIN d /\ e[m] = rs
      /\ \A n \in DOMAIN d \ {m} : e[n] = d[n]
  BY <1>3, <1>4, <1>6, <1>7, ReplaceKeepsDevice
<1> QED
  BY <1>8 DEF rs

\* A row whose name stays may change what else it has.
LEMMA SetKeepsDevice ==
    ASSUME NEW d, IsDevice(d), NEW m \in DOMAIN d, NEW i \in DOMAIN d[m],
           NEW row, IsRow(m, row),
           m \in Settings \/ ~Field(row, "name")
             \/ (Field(d[m][i], "name") /\ row.name = d[m][i].name),
           NEW e, e = [d EXCEPT ![m] = Put(d[m], i, row)]
    PROVE  /\ IsDevice(e) /\ DOMAIN e = DOMAIN d
           /\ e[m] = Put(d[m], i, row)
           /\ \A n \in DOMAIN d \ {m} : e[n] = d[n]
<1>1. IsMenu(m, d[m]) /\ i \in 1..MaxId
  BY MenuIs DEF IsDevice
<1>2. ASSUME NEW n \in DOMAIN d, n = m \/ {n, m} = {"wifi", "wireless"},
             NEW j \in DOMAIN d[n] \ {i}, SameName(row, d[n][j])
      PROVE  FALSE
  <2>1. CASE m \in Settings
    <3>1. n = m
      BY <1>2, <2>1 DEF Settings
    <3>2. \E k \in 1..MaxId : DOMAIN d[m] = {k}
      BY <1>1, <2>1, MenuIs
    <3> QED  BY <1>2, <3>1, <3>2
  <2>2. CASE m \notin Settings
    <3>1. SameName(d[m][i], d[n][j])
      BY <1>2, <2>2 DEF SameName
    <3>2. CASE n = m
      BY <1>1, <1>2, <3>1, <3>2, MenuIs
    <3>3. CASE n # m
      <4>1. SameName(d[n][j], d[m][i])
        BY <3>1 DEF SameName
      <4>2. {n, m} = {"wifi", "wireless"}
        BY <1>2, <3>3
      <4>3. (n = "wifi" /\ m = "wireless") \/ (n = "wireless" /\ m = "wifi")
        BY <3>3, <4>2
      <4> QED  BY <1>2, <3>1, <4>1, <4>3 DEF IsDevice
    <3> QED  BY <3>2, <3>3
  <2> QED  BY <2>1, <2>2
<1> QED
  BY <1>1, <1>2, PutKeepsDevice

\* Rows may go.
LEMMA FewerKeepsDevice ==
    ASSUME NEW d, IsDevice(d), NEW m \in DOMAIN d,
           NEW rs, IsMenu(m, rs), DOMAIN rs \subseteq DOMAIN d[m],
           \A j \in DOMAIN rs : rs[j] = d[m][j],
           NEW e, e = [d EXCEPT ![m] = rs]
    PROVE  /\ IsDevice(e) /\ DOMAIN e = DOMAIN d
           /\ e[m] = rs
           /\ \A n \in DOMAIN d \ {m} : e[n] = d[n]
<1>1. \A n \in DOMAIN d \ {m} : DOMAIN rs \cap DOMAIN d[n] = {}
  BY DEF IsDevice
<1>2. ASSUME NEW n \in DOMAIN d, {m, n} = {"wifi", "wireless"},
             NEW j \in DOMAIN rs, NEW k \in DOMAIN d[n]
      PROVE  ~SameName(rs[j], d[n][k])
  <2>1. rs[j] = d[m][j] /\ j \in DOMAIN d[m]
    OBVIOUS
  <2>2. CASE m = "wifi" /\ n = "wireless"
    BY <2>1, <2>2 DEF IsDevice
  <2>3. CASE m = "wireless" /\ n = "wifi"
    <3>1. ~SameName(d[n][k], d[m][j])
      BY <2>1, <2>3 DEF IsDevice
    <3> QED  BY <2>1, <3>1 DEF SameName
  <2> QED  BY <1>2, <2>2, <2>3
<1> QED
  BY <1>1, <1>2, ReplaceKeepsDevice

-----------------------------------------------------------------------------
(* What a command does to the device that carries it out.                   *)

LEMMA CarrySet ==
    ASSUME NEW m, NEW i, NEW fields, cmd = SetRow(m, i, fields),
           Accepts(device, cmd), Carry
    PROVE  /\ m \in DOMAIN device /\ i \in DOMAIN device[m]
           /\ DOMAIN fields \cap {"ssid", "primary", "secondary", "dnsNames"}
                \subseteq DOMAIN device[m][i]
           /\ device' = [device EXCEPT ![m] =
                           Put(device[m], i, Override(device[m][i], fields))]
           /\ next' = next
<1>1. cmd.action = "set" /\ cmd.menu = m /\ cmd.id = i /\ cmd.fields = fields
  BY DEF SetRow
<1>2. /\ m \in DOMAIN device /\ i \in DOMAIN device[m]
      /\ DOMAIN fields \cap {"ssid", "primary", "secondary", "dnsNames"}
           \subseteq DOMAIN device[m][i]
  BY <1>1 DEF Accepts
<1> QED
  BY <1>1, <1>2 DEF Carry

LEMMA CarryAdd ==
    ASSUME NEW m, NEW fields, cmd = AddRow(m, fields),
           Accepts(device, cmd), Carry
    PROVE  /\ device' = [device EXCEPT ![m] = Put(device[m], next, fields)]
           /\ next' = next + 1
           /\ Named(device["wireguard"], fields.interface) # {}
<1>1. cmd.action = "add" /\ cmd.menu = m /\ cmd.fields = fields
  BY DEF AddRow
<1> QED
  BY <1>1 DEF Carry, Accepts

LEMMA CarryFlush ==
    ASSUME NEW m, cmd = [action |-> "flush", menu |-> m], Carry
    PROVE  device' = [device EXCEPT ![m] = NoRows] /\ next' = next
BY DEF Carry

LEMMA CarryWake ==
    ASSUME cmd = [action |-> "wake"], Carry
    PROVE  device' = device /\ next' = next
BY DEF Carry

\* Every field but the new one stays as it was.
LEMMA SetSsid ==
    ASSUME NEW m \in {"wifi", "configuration", "wireless"}, NEW row, IsRow(m, row),
           Field(row, "ssid"), NEW x
    PROVE  LET new == Override(row, [ssid |-> x])
           IN  /\ IsRow(m, new)
               /\ new = [row EXCEPT !.ssid = x]
               /\ DOMAIN new = DOMAIN row /\ new.ssid = x
               /\ \A f \in DOMAIN row \ {"ssid"} : new[f] = row[f]
<1> DEFINE new == Override(row, [ssid |-> x])
<1>1. /\ DOMAIN new = DOMAIN row /\ new.ssid = x /\ IsFcn(new)
      /\ \A f \in DOMAIN row \ {"ssid"} : new[f] = row[f]
  BY DEF Override, Field, IsFcn
<1>2. new = [row EXCEPT !.ssid = x]
  BY DEF Override, Field
<1> HIDE DEF new
<1>3. IsRow(m, new)
  <2>1. Refers(new) => Refers(row)
    BY <1>1 DEF Refers, Field
  <2>2. \A f : Field(new, f) <=> Field(row, f)
    BY <1>1 DEF Field
  <2> QED  BY <1>1, <2>1, <2>2 DEF IsRow
<1> QED
  BY <1>1, <1>2, <1>3 DEF new

WithSsid(rs, i, x) == [rs EXCEPT ![i].ssid = x]

LEMMA WriteSsid ==
    ASSUME IsDevice(device), NEW m \in {"wifi", "configuration", "wireless"},
           NEW i, NEW x, cmd = SetRow(m, i, [ssid |-> x]),
           Accepts(device, cmd), Carry
    PROVE  /\ IsDevice(device') /\ DOMAIN device' = DOMAIN device /\ next' = next
           /\ m \in DOMAIN device /\ i \in DOMAIN device[m]
           /\ device'[m] = WithSsid(device[m], i, x)
           /\ DOMAIN device'[m] = DOMAIN device[m]
           /\ \A n \in DOMAIN device \ {m} : device'[n] = device[n]
<1> DEFINE row == device[m][i]
           new == Override(row, [ssid |-> x])
<1>1. /\ m \in DOMAIN device /\ i \in DOMAIN device[m]
      /\ "ssid" \in DOMAIN row
      /\ device' = [device EXCEPT ![m] = Put(device[m], i, new)]
      /\ next' = next
  BY CarrySet
<1>2. IsMenu(m, device[m])
  BY <1>1 DEF IsDevice
<1>3. IsRow(m, row)
  BY <1>1, <1>2, MenuIs
<1>4. /\ IsRow(m, new) /\ new = [row EXCEPT !.ssid = x]
      /\ DOMAIN new = DOMAIN row
      /\ \A f \in DOMAIN row \ {"ssid"} : new[f] = row[f]
  BY <1>1, <1>3, SetSsid DEF Field
<1> HIDE DEF new
<1>5. ~Field(new, "name") \/ (Field(row, "name") /\ new.name = row.name)
  BY <1>4 DEF Field
<1>6. /\ IsDevice(device') /\ DOMAIN device' = DOMAIN device
      /\ device'[m] = Put(device[m], i, new)
      /\ \A n \in DOMAIN device \ {m} : device'[n] = device[n]
  BY <1>1, <1>4, <1>5, SetKeepsDevice
<1>7. /\ DOMAIN Put(device[m], i, new) = DOMAIN device[m]
      /\ Put(device[m], i, new) = [device[m] EXCEPT ![i] = new]
  BY <1>1, <1>2, MenuIs DEF Put
<1>8. WithSsid(device[m], i, x) = [device[m] EXCEPT ![i] = new]
  BY <1>1, <1>4 DEF WithSsid
<1> QED
  BY <1>1, <1>6, <1>7, <1>8

LEMMA WriteSetting ==
    ASSUME IsDevice(device), NEW m \in Settings, NEW i, NEW fields,
           cmd = SetRow(m, i, fields), Accepts(device, cmd), Carry
    PROVE  /\ IsDevice(device') /\ DOMAIN device' = DOMAIN device /\ next' = next
           /\ m \in DOMAIN device /\ i \in DOMAIN device[m]
           /\ device'[m] = Put(device[m], i, Override(device[m][i], fields))
           /\ DOMAIN device'[m] = DOMAIN device[m]
           /\ \A n \in DOMAIN device \ {m} : device'[n] = device[n]
<1> DEFINE row == device[m][i]
           new == Override(row, fields)
<1>1. /\ m \in DOMAIN device /\ i \in DOMAIN device[m]
      /\ DOMAIN fields \cap {"ssid", "primary", "secondary", "dnsNames"} \subseteq DOMAIN row
      /\ device' = [device EXCEPT ![m] = Put(device[m], i, new)]
      /\ next' = next
  BY CarrySet
<1>2. IsMenu(m, device[m])
  BY <1>1 DEF IsDevice
<1>3. IsRow(m, row)
  BY <1>1, <1>2, MenuIs
<1>4. /\ DOMAIN new = DOMAIN row \cup DOMAIN fields /\ IsFcn(new)
  BY OverrideIs
<1> HIDE DEF new
<1>5. IsRow(m, new)
  BY <1>1, <1>3, <1>4 DEF IsRow, Field, Settings
<1>6. /\ IsDevice(device') /\ DOMAIN device' = DOMAIN device
      /\ device'[m] = Put(device[m], i, new)
      /\ \A n \in DOMAIN device \ {m} : device'[n] = device[n]
  BY <1>1, <1>5, SetKeepsDevice
<1>7. DOMAIN Put(device[m], i, new) = DOMAIN device[m]
  BY <1>1 DEF Put
<1> QED
  BY <1>1, <1>6, <1>7 DEF new

LEMMA WriteAdd ==
    ASSUME IsDevice(device), "peers" \in DOMAIN device, next \in 1..MaxId,
           \A n \in DOMAIN device : next \notin DOMAIN device[n],
           NEW x, NEW k, cmd = AddRow("peers", [interface |-> x, key |-> k]),
           Accepts(device, cmd), Carry
    PROVE  /\ IsDevice(device') /\ DOMAIN device' = DOMAIN device
           /\ next' = next + 1
           /\ device'["peers"] = Put(device["peers"], next, [interface |-> x, key |-> k])
           /\ DOMAIN device'["peers"] = DOMAIN device["peers"] \cup {next}
           /\ \A n \in DOMAIN device \ {"peers"} : device'[n] = device[n]
<1> DEFINE row == [interface |-> x, key |-> k]
<1>1. /\ device' = [device EXCEPT !["peers"] = Put(device["peers"], next, row)]
      /\ next' = next + 1
  BY CarryAdd
<1>2. ~Field(row, "name") /\ IsRow("peers", row)
  BY DEF Field, IsRow, IsFcn
<1> HIDE DEF row
<1>3. \A n, j : ~SameName(row, device[n][j])
  BY <1>2 DEF SameName
<1>4. "peers" \notin Settings
  BY DEF Settings
<1>5. /\ IsDevice(device') /\ DOMAIN device' = DOMAIN device
      /\ device'["peers"] = Put(device["peers"], next, row)
      /\ \A n \in DOMAIN device \ {"peers"} : device'[n] = device[n]
  BY <1>1, <1>2, <1>3, <1>4, PutKeepsDevice
<1>6. DOMAIN Put(device["peers"], next, row) = DOMAIN device["peers"] \cup {next}
  BY DEF Put
<1> QED
  BY <1>1, <1>5, <1>6 DEF row

LEMMA WriteFlush ==
    ASSUME IsDevice(device), "dns cache" \in DOMAIN device,
           cmd = [action |-> "flush", menu |-> "dns cache"], Carry
    PROVE  /\ IsDevice(device') /\ DOMAIN device' = DOMAIN device
           /\ next' = next
           /\ DOMAIN device'["dns cache"] = {}
           /\ \A n \in DOMAIN device \ {"dns cache"} : device'[n] = device[n]
<1>1. device' = [device EXCEPT !["dns cache"] = NoRows] /\ next' = next
  BY CarryFlush
<1>2. "dns cache" \notin Settings
  BY DEF Settings
<1>3. IsMenu("dns cache", NoRows) /\ DOMAIN NoRows = {}
  BY <1>2, NoRowsIsMenu
<1> QED
  BY <1>1, <1>3, FewerKeepsDevice

-----------------------------------------------------------------------------
(* The inductive invariant: what a call has heard is what RouterOS told it, *)
(* and as long as nobody edits it is what the device still has.             *)

Honest(s, d) == \A m \in DOMAIN s : s[m].ok = TRUE => s[m].rows = d[m]

CallInv ==
    /\ IsAnswers(seen)
    /\ \A m \in DOMAIN seen : seen[m].ok = TRUE => m \in DOMAIN device
    /\ pc # "idle" =>
         /\ allowWrite = TRUE /\ req \in Requests /\ req.valid = TRUE
         /\ ~edited => Honest(seen, device)
    /\ pc = "writing" =>
         /\ req.confirm = TRUE
         /\ Step(req, seen).do = "send" /\ Sent(req, seen, cmd)
         /\ warned = Step(req, seen).warned

\* What the command of a call does to the device.
GoodWrite ==
    /\ IsDevice(device') /\ DOMAIN device' = DOMAIN device
    /\ next' \in {next, next + 1} /\ next' \in 1..(MaxId + 1)
    /\ \A n \in DOMAIN device : \A i \in DOMAIN device'[n] : i < next'
    /\ OwnPart
    /\ next' # next /\ ~edited =>
         \A i \in DOMAIN device["peers"] : device'["peers"][next] # device["peers"][i]

LEMMA IdentityWritten ==
    ASSUME TypeOK, CallInv, Write, req.tool = "set_identity",
           cmd = SetRow("identity", Only(seen["identity"].rows), [name |-> req.name])
    PROVE  GoodWrite
<1>1. Accepts(device, cmd) /\ Carry /\ IsDevice(device)
  BY DEF Write, TypeOK
<1>2. "identity" \in Settings
  BY DEF Settings
<1>3. /\ IsDevice(device') /\ DOMAIN device' = DOMAIN device /\ next' = next
      /\ DOMAIN device'["identity"] = DOMAIN device["identity"]
      /\ \A n \in DOMAIN device \ {"identity"} : device'[n] = device[n]
  BY <1>1, <1>2, WriteSetting
<1>4. OwnPart
  BY <1>3 DEF OwnPart
<1>5. \A n \in DOMAIN device : DOMAIN device'[n] = DOMAIN device[n]
  BY <1>3
<1> QED
  BY <1>3, <1>4, <1>5 DEF GoodWrite, TypeOK

LEMMA NtpWritten ==
    ASSUME TypeOK, CallInv, Write, req.tool = "set_ntp_servers", NEW fields,
           cmd = SetRow("ntp", Only(seen["ntp"].rows), fields)
    PROVE  GoodWrite
<1>1. Accepts(device, cmd) /\ Carry /\ IsDevice(device)
  BY DEF Write, TypeOK
<1>2. "ntp" \in Settings
  BY DEF Settings
<1>3. /\ IsDevice(device') /\ DOMAIN device' = DOMAIN device /\ next' = next
      /\ DOMAIN device'["ntp"] = DOMAIN device["ntp"]
      /\ \A n \in DOMAIN device \ {"ntp"} : device'[n] = device[n]
  BY <1>1, <1>2, WriteSetting
<1>4. OwnPart
  BY <1>3 DEF OwnPart
<1>5. \A n \in DOMAIN device : DOMAIN device'[n] = DOMAIN device[n]
  BY <1>3
<1> QED
  BY <1>3, <1>4, <1>5 DEF GoodWrite, TypeOK

LEMMA FlushWritten ==
    ASSUME TypeOK, CallInv, Write, req.tool = "clear_dns_cache",
           Heard(seen, "dns cache"), cmd = [action |-> "flush", menu |-> "dns cache"]
    PROVE  GoodWrite
<1>1. Carry /\ IsDevice(device) /\ "dns cache" \in DOMAIN device
  BY DEF Write, TypeOK, CallInv, Heard
<1>2. /\ IsDevice(device') /\ DOMAIN device' = DOMAIN device
      /\ next' = next
      /\ DOMAIN device'["dns cache"] = {}
      /\ \A n \in DOMAIN device \ {"dns cache"} : device'[n] = device[n]
  BY <1>1, WriteFlush
<1>3. OwnPart
  BY <1>2 DEF OwnPart
<1>4. \A n \in DOMAIN device : DOMAIN device'[n] \subseteq DOMAIN device[n]
  BY <1>2
<1> QED
  BY <1>2, <1>3, <1>4 DEF GoodWrite, TypeOK

LEMMA WakeWritten ==
    ASSUME TypeOK, CallInv, Write, cmd = [action |-> "wake"]
    PROVE  GoodWrite
<1>1. device' = device /\ next' = next
  BY CarryWake DEF Write
<1>2. OwnPart
  BY <1>1 DEF OwnPart
<1> QED
  BY <1>1, <1>2 DEF GoodWrite, TypeOK

LEMMA PeerWritten ==
    ASSUME TypeOK, CallInv, Write, req.tool = "add_wireguard_peer", pc = "writing",
           Heard(seen, "peers"), Duplicates(seen["peers"].rows, req) = {},
           cmd = AddRow("peers", [interface |-> req.name, key |-> req.key])
    PROVE  GoodWrite
<1> DEFINE row == [interface |-> req.name, key |-> req.key]
<1>1. /\ Accepts(device, cmd) /\ Carry /\ IsDevice(device)
      /\ "peers" \in DOMAIN device
  BY DEF Write, TypeOK, CallInv, Heard
<1>2. next \in 1..MaxId
  <2>1. cmd.action = "add"
    BY DEF AddRow
  <2>2. next <= MaxId
    BY <2>1 DEF Write
  <2>3. next \in 1..(MaxId + 1)
    BY DEF TypeOK
  <2> QED  BY <2>2, <2>3, OtherWritesConstants
<1>3. \A n \in DOMAIN device : next \notin DOMAIN device[n]
  BY <1>2 DEF TypeOK
<1>4. /\ IsDevice(device') /\ DOMAIN device' = DOMAIN device
      /\ next' = next + 1
      /\ device'["peers"] = Put(device["peers"], next, row)
      /\ DOMAIN device'["peers"] = DOMAIN device["peers"] \cup {next}
      /\ \A n \in DOMAIN device \ {"peers"} : device'[n] = device[n]
  BY <1>1, <1>2, <1>3, WriteAdd
<1>5. OwnPart
  BY <1>4 DEF OwnPart
<1>6. ASSUME NEW n \in DOMAIN device, NEW i \in DOMAIN device'[n]
      PROVE  i < next'
  <2>1. i = next \/ i \in DOMAIN device[n]
    BY <1>4
  <2>2. i \in 1..MaxId
    BY <1>4, MenuIs DEF IsDevice
  <2> QED  BY <1>2, <1>4, <2>1, <2>2 DEF TypeOK
<1>7. ASSUME ~edited, NEW i \in DOMAIN device["peers"]
      PROVE  device'["peers"][next] # device["peers"][i]
  <2>1. seen["peers"].rows = device["peers"]
    BY <1>7 DEF CallInv, Honest, Heard
  <2>2. ~(/\ device["peers"][i].interface = req.name
          /\ device["peers"][i].key = req.key)
    BY <2>1 DEF Duplicates
  <2>3. device'["peers"][next] = row
    BY <1>4 DEF Put
  <2> QED  BY <2>2, <2>3
<1> QED
  BY <1>2, <1>4, <1>5, <1>6, <1>7, OtherWritesConstants DEF GoodWrite

LEMMA SsidWritten ==
    ASSUME TypeOK, CallInv, Write, req.tool = "set_wifi_ssid",
           NEW m \in {"wifi", "configuration", "wireless"}, NEW i,
           WasNamed(m, i), cmd = SetRow(m, i, [ssid |-> req.ssid])
    PROVE  GoodWrite
<1>1. Accepts(device, cmd) /\ Carry /\ IsDevice(device)
  BY DEF Write, TypeOK
<1>2. /\ IsDevice(device') /\ DOMAIN device' = DOMAIN device /\ next' = next
      /\ i \in DOMAIN device[m]
      /\ device'[m] = WithSsid(device[m], i, req.ssid)
      /\ DOMAIN device'[m] = DOMAIN device[m]
      /\ \A n \in DOMAIN device \ {m} : device'[n] = device[n]
  BY <1>1, WriteSsid
<1>3. OwnPart
  BY <1>2 DEF OwnPart, WithSsid
<1>4. \A n \in DOMAIN device : DOMAIN device'[n] = DOMAIN device[n]
  BY <1>2
<1> QED
  BY <1>2, <1>3, <1>4 DEF GoodWrite, TypeOK

\* The row that set_wifi_ssid found is the interface's, or its configuration.
LEMMA FoundIsNamed ==
    ASSUME CallInv
    PROVE  /\ Heard(seen, "wifi") /\ WifiHere(req, seen) # {} =>
                WasNamed("wifi", Least(WifiHere(req, seen)))
           /\ Heard(seen, "wireless") /\ OlderHere(req, seen) # {} =>
                WasNamed("wireless", Least(OlderHere(req, seen)))
           /\ (/\ Heard(seen, "wifi") /\ WifiHere(req, seen) # {}
               /\ Refers(WifiRow(req, seen)) /\ Heard(seen, "configuration")
               /\ ItsConfigurations(req, seen) # {}) =>
                WasNamed("configuration", Least(ItsConfigurations(req, seen)))
<1>1. \A m : Heard(seen, m) => IsMenu(m, seen[m].rows) /\ RowsRead(seen, m) = seen[m].rows
  BY DEF CallInv, IsAnswers, Heard, RowsRead
<1>2. ASSUME Heard(seen, "wifi"), WifiHere(req, seen) # {}
      PROVE  Least(WifiHere(req, seen)) \in Named(seen["wifi"].rows, req.name)
  BY <1>1, <1>2, NamedIs DEF WifiHere
<1>3. ASSUME Heard(seen, "wireless"), OlderHere(req, seen) # {}
      PROVE  Least(OlderHere(req, seen)) \in Named(seen["wireless"].rows, req.name)
  BY <1>1, <1>3, NamedIs DEF OlderHere
<1>4. ASSUME Heard(seen, "wifi"), WifiHere(req, seen) # {},
             Refers(WifiRow(req, seen)), Heard(seen, "configuration"),
             ItsConfigurations(req, seen) # {}
      PROVE  WasNamed("configuration", Least(ItsConfigurations(req, seen)))
  <2> DEFINE k == Least(ItsConfigurations(req, seen))
  <2>1. k \in ItsConfigurations(req, seen)
    BY <1>1, <1>4, NamedIs DEF ItsConfigurations
  <2>2. seen["configuration"].rows[k].name = WifiRow(req, seen).configuration
    BY <2>1 DEF ItsConfigurations, Named
  <2> QED  BY <1>2, <1>4, <2>2 DEF WasNamed, WifiRow
<1> QED
  BY <1>2, <1>3, <1>4 DEF WasNamed

LEMMA Written ==
    ASSUME TypeOK, CallInv, Write
    PROVE  GoodWrite
<1>1. pc = "writing" /\ Sent(req, seen, cmd)
  BY DEF Write, CallInv
<1>2. CASE req.tool = "set_identity"
  BY <1>1, <1>2, IdentityWritten DEF Sent
<1>3. CASE req.tool = "clear_dns_cache"
  BY <1>1, <1>3, FlushWritten DEF Sent
<1>4. CASE req.tool = "wake_on_lan"
  BY <1>1, <1>4, WakeWritten DEF Sent
<1>5. CASE req.tool = "add_wireguard_peer"
  BY <1>1, <1>5, PeerWritten DEF Sent
<1>6. CASE req.tool = "set_ntp_servers"
  BY <1>1, <1>6, NtpWritten DEF Sent
<1>7. CASE req.tool = "set_wifi_ssid"
  <2>1. \E m \in {"wifi", "configuration", "wireless"} : \E i :
           WasNamed(m, i) /\ cmd = SetRow(m, i, [ssid |-> req.ssid])
    BY <1>1, <1>7, FoundIsNamed DEF Sent
  <2> QED  BY <1>7, <2>1, SsidWritten
<1> QED
  BY <1>1, <1>2, <1>3, <1>4, <1>5, <1>6, <1>7 DEF Sent

-----------------------------------------------------------------------------
(* The steps of a call.                                                     *)

IInv == TypeOK /\ CallInv

\* What holds of a call that went on with the answers s.
WentOn(r, s) ==
    /\ req' = r /\ seen' = s
    /\ pc' \in {"idle", "reading", "writing"}
    /\ pc' = "idle" => cmd' = NoCommand
    /\ pc' = "reading" => Step(r, s).do = "ask"
    /\ pc' = "writing" =>
         /\ r.confirm = TRUE
         /\ Step(r, s).do = "send" /\ Sent(r, s, cmd')
         /\ cmd' = Step(r, s).cmd /\ cmd' # NoCommand
         /\ warned' = Step(r, s).warned
    /\ raised' \in Errors /\ outcome' \in Outcomes
    /\ outcome' = "error" <=> raised' # "none"
    /\ outcome' # "applied"
    /\ raised' # "none" => Step(r, s).do = "raise" /\ raised' = Step(r, s).error

LEMMA RequestsAre ==
    ASSUME NEW r \in Requests
    PROVE  WellFormed(r)
BY OtherWritesConstants

LEMMA GoesOnIs ==
    ASSUME NEW r \in Requests, NEW s, IsAnswers(s), GoesOn(r, s)
    PROVE  WentOn(r, s)
<1>1. Proceeds(r, s) /\ r.confirm \in BOOLEAN
  BY RequestsAre, StepIs DEF WellFormed
<1>2. CASE Step(r, s).do = "ask" /\ pc' = "reading"
  BY <1>2 DEF GoesOn, WentOn, Errors, Outcomes
<1>3. CASE Step(r, s).do = "raise" /\ Ends("error", Step(r, s).error)
  <2>1. Step(r, s).error \in Errors \ {"none"}
    BY <1>1, <1>3 DEF Proceeds
  <2> QED  BY <1>3, <2>1 DEF GoesOn, Ends, WentOn, Outcomes
<1>4. CASE Step(r, s).do = "send" /\ Ends("preview", "none")
  BY <1>4 DEF GoesOn, Ends, WentOn, Errors, Outcomes
<1>5. CASE Step(r, s).do = "send" /\ r.confirm /\ pc' = "writing" /\ GoesOn(r, s)
  <2>1. Sent(r, s, Step(r, s).cmd)
    BY <1>1, <1>5 DEF Proceeds
  <2>2. /\ cmd' = Step(r, s).cmd /\ warned' = Step(r, s).warned
        /\ outcome' = "none" /\ raised' = "none" /\ req' = r /\ seen' = s
    BY <1>5 DEF GoesOn, Ends
  <2>3. cmd' # NoCommand
    BY <2>1, <2>2, CommandIs
  <2> QED  BY <1>1, <1>5, <2>1, <2>2, <2>3 DEF WentOn, Errors, Outcomes
<1> QED
  BY <1>2, <1>3, <1>4, <1>5 DEF GoesOn

\* A call that went on keeps the invariant, if what it heard is the device's.
LEMMA WentOnKeeps ==
    ASSUME IInv, NEW r \in Requests, NEW s, WentOn(r, s), IsAnswers(s),
           allowWrite = TRUE, r.valid = TRUE,
           \A m \in DOMAIN s : s[m].ok = TRUE => m \in DOMAIN device,
           UNCHANGED <<allowWrite, device, next, edits>>,
           wrote' \in BOOLEAN, edited' \in BOOLEAN,
           ~edited' => Honest(s, device)
    PROVE  IInv'
<1>1. IsDevice(device)' /\ IsAnswers(seen)' /\ Honest(seen, device)' = Honest(s, device)
  BY DEF IInv, TypeOK, WentOn
<1>2. /\ Step(req, seen)' = Step(r, s)
      /\ Sent(req, seen, cmd)' = Sent(r, s, cmd')
  BY DEF WentOn
<1>3. TypeOK'
  <2>1. DOMAIN seen' \subseteq Menus
    BY DEF IsAnswers, WentOn
  <2> QED  BY <1>1, <1>2, <2>1 DEF IInv, TypeOK, WentOn
<1>4. CallInv'
  BY <1>1, <1>2 DEF CallInv, WentOn
<1> QED
  BY <1>3, <1>4 DEF IInv

LEMMA NothingHeard ==
    LET none == [m \in {} |-> Failed]
    IN  IsAnswers(none) /\ DOMAIN none = {} /\ Honest(none, device)
BY DEF IsAnswers, Honest

LEMMA BeginKeeps ==
    ASSUME IInv, NEW r \in Requests, Begin(r)
    PROVE  IInv'
<1> DEFINE none == [m \in {} |-> Failed]
<1>1. IsAnswers(none) /\ DOMAIN none = {} /\ Honest(none, device)
  BY NothingHeard
<1> HIDE DEF none
<1>2. /\ UNCHANGED <<allowWrite, device, next, edits>>
      /\ wrote' = FALSE /\ edited' = FALSE
  BY DEF Begin
<1>3. CASE GateOpen /\ r.valid /\ GoesOn(r, none)
  <2>1. allowWrite = TRUE /\ r.valid = TRUE
    BY <1>3, RequestsAre DEF GateOpen, WellFormed, IInv, TypeOK
  <2> QED  BY <1>1, <1>2, <1>3, <2>1, GoesOnIs, WentOnKeeps
<1>4. CASE \E error \in {"disabled", "invalid"} : Refused(r, error)
  <2>1. PICK error \in {"disabled", "invalid"} : Refused(r, error)
    BY <1>4
  <2>2. /\ pc' = "idle" /\ cmd' = NoCommand /\ outcome' = "error" /\ raised' = error
        /\ req' = r /\ seen' = none
    BY <2>1 DEF Refused, Ends, none
  <2>3. TypeOK'
    BY <1>1, <1>2, <2>2 DEF IInv, TypeOK, Errors, Outcomes
  <2>4. CallInv'
    BY <1>1, <2>2 DEF CallInv
  <2> QED  BY <2>3, <2>4 DEF IInv
<1> QED
  BY <1>3, <1>4 DEF Begin, none

LEMMA ReadKeeps ==
    ASSUME IInv, Read
    PROVE  /\ IInv'
           /\ \E s : /\ IsAnswers(s) /\ WentOn(req, s)
                     /\ ~edited => Honest(s, device)
<1> DEFINE m == Step(req, seen).menu
           Now(answer) == [n \in DOMAIN seen \cup {m} |->
                             IF n = m THEN answer ELSE seen[n]]
<1>1. /\ pc = "reading" /\ req \in Requests /\ req.valid = TRUE /\ allowWrite = TRUE
      /\ IsAnswers(seen) /\ Step(req, seen).do = "ask" /\ IsDevice(device)
      /\ ~edited => Honest(seen, device)
  BY DEF Read, IInv, TypeOK, CallInv
<1>2. m \in Menus \ DOMAIN seen
  BY <1>1, RequestsAre, StepIs DEF Proceeds
<1>3. UNCHANGED <<allowWrite, device, next, wrote, edited, edits>>
  BY DEF Read
<1> HIDE DEF m
<1>4. \E answer :
        /\ GoesOn(req, Now(answer))
        /\ \/ m \in DOMAIN device /\ answer = Answer(device[m])
           \/ answer = Failed
  BY DEF Read, m
<1>5. PICK answer :
        /\ GoesOn(req, Now(answer))
        /\ \/ m \in DOMAIN device /\ answer = Answer(device[m])
           \/ answer = Failed
  BY <1>4
<1> DEFINE s == Now(answer)
<1>6. DOMAIN s = DOMAIN seen \cup {m} /\ s[m] = answer /\ \A n \in DOMAIN seen : s[n] = seen[n]
  BY <1>2
<1> HIDE DEF s
<1>7. \/ answer.ok = TRUE /\ m \in DOMAIN device /\ answer.rows = device[m]
      \/ answer.ok = FALSE /\ answer.rows = NoRows
  BY <1>5 DEF Answer, Failed
<1>8. IsAnswers(s)
  BY <1>1, <1>2, <1>6, <1>7 DEF IsAnswers, IsDevice
<1>9. \A n \in DOMAIN s : s[n].ok = TRUE => n \in DOMAIN device
  BY <1>6, <1>7 DEF IInv, CallInv
<1>10. ~edited => Honest(s, device)
  BY <1>1, <1>6, <1>7 DEF Honest
<1>11. WentOn(req, s)
  BY <1>1, <1>5, <1>8, GoesOnIs DEF s
<1>12. /\ UNCHANGED <<allowWrite, device, next, edits>>
       /\ wrote' \in BOOLEAN /\ edited' \in BOOLEAN
       /\ ~edited' => Honest(s, device)
  BY <1>3, <1>10 DEF IInv, TypeOK
<1>13. IInv'
  BY <1>1, <1>8, <1>9, <1>11, <1>12, WentOnKeeps
<1> QED
  BY <1>8, <1>10, <1>11, <1>13

LEMMA WriteKeeps ==
    ASSUME IInv, Write
    PROVE  IInv' /\ GoodWrite
<1>1. GoodWrite
  BY Written DEF IInv
<1>2. /\ pc' = "idle" /\ cmd' = NoCommand /\ wrote' = TRUE
      /\ UNCHANGED <<allowWrite, req, seen, warned, edited, edits>>
      /\ \/ outcome' = "applied" /\ raised' = "none"
         \/ outcome' = "error" /\ raised' = "command failed"
  BY DEF Write, Ends
<1>3. TypeOK'
  BY <1>1, <1>2 DEF GoodWrite, IInv, TypeOK, Errors, Outcomes
<1>4. CallInv'
  BY <1>1, <1>2 DEF GoodWrite, IInv, CallInv
<1> QED
  BY <1>1, <1>3, <1>4 DEF IInv

LEMMA FailsKeeps ==
    ASSUME IInv, WriteFails
    PROVE  IInv'
<1>1. /\ pc' = "idle" /\ cmd' = NoCommand
      /\ outcome' = "error" /\ raised' = "command failed"
      /\ UNCHANGED <<allowWrite, device, next, req, seen, warned, wrote, edited, edits>>
  BY DEF WriteFails, Ends
<1>2. TypeOK'
  BY <1>1 DEF IInv, TypeOK, Errors, Outcomes
<1>3. CallInv'
  BY <1>1 DEF IInv, CallInv
<1> QED
  BY <1>2, <1>3 DEF IInv

\* An edit leaves a device that RouterOS could have.
LEMMA EditKeepsDevice ==
    ASSUME TypeOK, NEW e \in Edits, NEW i \in 1..MaxId, Edit(e, i)
    PROVE  /\ IsDevice(device') /\ DOMAIN device' = DOMAIN device
           /\ next' \in 1..(MaxId + 1)
           /\ \A n \in DOMAIN device : \A j \in DOMAIN device'[n] : j < next'
<1> DEFINE m == e.menu
           row == e.row
<1>1. /\ IsDevice(device) /\ m \in DOMAIN device /\ NameFree(m, i, row)
      /\ IF row = NoRow THEN m \notin Settings ELSE IsRow(m, row)
  BY OtherWritesConstants DEF TypeOK, Edit
<1>2. IsMenu(m, device[m])
  BY <1>1 DEF IsDevice
<1>3. \A n \in DOMAIN device : (n = m \/ {n, m} = {"wifi", "wireless"}) =>
         \A j \in DOMAIN device[n] \ {i} : ~SameName(row, device[n][j])
  BY <1>1 DEF NameFree, Named, SameName
<1>4. next \in 1..(MaxId + 1) /\ \A n \in DOMAIN device : \A j \in DOMAIN device[n] : j < next
  BY DEF TypeOK
<1> HIDE DEF m, row
<1>5. CASE /\ row = NoRow /\ next' = next
           /\ device' = [device EXCEPT ![m] = Restrict(@, DOMAIN @ \ {i})]
  <2> DEFINE rs == Without(device[m], i)
  <2>1. m \notin Settings
    BY <1>1, <1>5
  <2>2. /\ IsMenu(m, rs) /\ DOMAIN rs \subseteq DOMAIN device[m]
        /\ \A j \in DOMAIN rs : rs[j] = device[m][j]
    BY <1>2, <2>1, RemoveKeepsMenu
  <2>3. device' = [device EXCEPT ![m] = rs]
    BY <1>5 DEF Without
  <2> HIDE DEF rs
  <2>4. /\ IsDevice(device') /\ DOMAIN device' = DOMAIN device /\ device'[m] = rs
        /\ \A n \in DOMAIN device \ {m} : device'[n] = device[n]
    BY <1>1, <2>2, <2>3, FewerKeepsDevice
  <2>5. \A n \in DOMAIN device : DOMAIN device'[n] \subseteq DOMAIN device[n]
    BY <2>2, <2>4
  <2> QED  BY <1>4, <1>5, <2>4, <2>5
<1>6. CASE /\ row # NoRow /\ i \in DOMAIN device[m] /\ next' = next
           /\ device' = [device EXCEPT ![m] = Put(@, i, row)]
  <2>1. IsRow(m, row) /\ i \in DOMAIN device[m]
    BY <1>1, <1>6
  <2>2. device' = [device EXCEPT ![m] = Put(device[m], i, row)]
    BY <1>6
  <2>3. /\ IsDevice(device') /\ DOMAIN device' = DOMAIN device
        /\ device'[m] = Put(device[m], i, row)
        /\ \A n \in DOMAIN device \ {m} : device'[n] = device[n]
    BY <1>1, <1>3, <2>1, <2>2, PutKeepsDevice
  <2>4. DOMAIN Put(device[m], i, row) = DOMAIN device[m]
    BY <1>6 DEF Put
  <2> QED  BY <1>4, <1>6, <2>3, <2>4
<1>7. CASE /\ row # NoRow /\ i = next /\ next < MaxId /\ m = "peers" /\ next' = next + 1
           /\ device' = [device EXCEPT ![m] = Put(@, i, row)]
  <2>1. IsRow(m, row) /\ m \notin Settings
    BY <1>1, <1>7 DEF Settings
  <2>2. device' = [device EXCEPT ![m] = Put(device[m], i, row)]
    BY <1>7
  <2>3. \A n \in DOMAIN device : i \notin DOMAIN device[n]
    BY <1>4, <1>7
  <2>4. /\ IsDevice(device') /\ DOMAIN device' = DOMAIN device
        /\ device'[m] = Put(device[m], i, row)
        /\ \A n \in DOMAIN device \ {m} : device'[n] = device[n]
    BY <1>1, <1>3, <2>1, <2>2, <2>3, PutKeepsDevice
  <2>5. DOMAIN Put(device[m], i, row) = DOMAIN device[m] \cup {i}
    BY DEF Put
  <2>6. ASSUME NEW n \in DOMAIN device, NEW j \in DOMAIN device'[n]
        PROVE  j < next'
    <3>1. j = next \/ j \in DOMAIN device[n]
      BY <1>7, <2>4, <2>5
    <3>2. j \in 1..MaxId
      BY <2>4, MenuIs DEF IsDevice
    <3> QED  BY <1>4, <1>7, <3>1, <3>2
  <2>7. next' \in 1..(MaxId + 1)
    BY <1>4, <1>7, OtherWritesConstants
  <2> QED  BY <2>4, <2>6, <2>7
<1> QED
  BY <1>5, <1>6, <1>7 DEF Edit, m, row

LEMMA EditKeeps ==
    ASSUME IInv, NEW e \in Edits, NEW i \in 1..MaxId, Edit(e, i)
    PROVE  IInv'
<1>1. /\ IsDevice(device') /\ DOMAIN device' = DOMAIN device
      /\ next' \in 1..(MaxId + 1)
      /\ \A n \in DOMAIN device : \A j \in DOMAIN device'[n] : j < next'
  BY EditKeepsDevice DEF IInv
<1>2. /\ edited' = TRUE /\ edits' = edits + 1 /\ edits < MaxEdits
      /\ UNCHANGED <<allowWrite, pc, req, seen, cmd, warned, raised, outcome, wrote>>
  BY DEF Edit, call
<1>3. edits' \in 0..MaxEdits
  BY <1>2, OtherWritesConstants DEF IInv, TypeOK
<1>4. TypeOK'
  BY <1>1, <1>2, <1>3 DEF IInv, TypeOK
<1>5. CallInv'
  BY <1>1, <1>2 DEF IInv, CallInv
<1> QED
  BY <1>4, <1>5 DEF IInv

LEMMA InitHolds ==
    ASSUME Init
    PROVE  IInv
<1> DEFINE ids == UNION {DOMAIN device[m] : m \in DOMAIN device}
<1>1. PICK n \in 0..MaxId : ids = 1..n
  BY OtherWritesConstants DEF Init
<1>2. IsDevice(device)
  BY OtherWritesConstants DEF Init
<1>3. Cardinality(1..n) = n
  BY FS_Interval, OtherWritesConstants
<1>4. next = 1 + n
  BY <1>1, <1>3 DEF Init
<1>5. next \in 1..(MaxId + 1)
  BY <1>4, OtherWritesConstants
<1>6. \A m \in DOMAIN device : \A i \in DOMAIN device[m] : i < next
  <2> SUFFICES ASSUME NEW m \in DOMAIN device, NEW i \in DOMAIN device[m]
               PROVE  i < next
    OBVIOUS
  <2>1. i \in 1..n
    BY <1>1
  <2> QED  BY <1>4, <2>1
<1>7. TypeOK
  <2>1. 0 \in 0..MaxEdits
    BY OtherWritesConstants
  <2>2. DOMAIN seen = {} /\ pc = "idle" /\ cmd = NoCommand /\ req = NoRequest
    BY DEF Init
  <2> QED  BY <1>2, <1>5, <1>6, <2>1, <2>2 DEF Init, TypeOK, Errors, Outcomes
<1>8. CallInv
  BY DEF Init, CallInv, IsAnswers
<1> QED
  BY <1>7, <1>8 DEF IInv

LEMMA NextKeeps ==
    ASSUME IInv, [Next]_vars
    PROVE  IInv'
<1>1. CASE \E r \in Requests : Begin(r)
  BY <1>1, BeginKeeps
<1>2. CASE Read
  BY <1>2, ReadKeeps
<1>3. CASE Write
  BY <1>3, WriteKeeps
<1>4. CASE WriteFails
  BY <1>4, FailsKeeps
<1>5. CASE \E e \in Edits, i \in 1..MaxId : Edit(e, i)
  BY <1>5, EditKeeps
<1>6. CASE UNCHANGED vars
  BY <1>6 DEF vars, call, IInv, TypeOK, CallInv
<1> QED
  BY <1>1, <1>2, <1>3, <1>4, <1>5, <1>6 DEF Next

\* Every reachable state satisfies the inductive invariant.
THEOREM Invariant == Spec => []IInv
<1>1. Init => IInv
  BY InitHolds
<1>2. IInv /\ [Next]_vars => IInv'
  BY NextKeeps
<1> QED
  BY <1>1, <1>2, PTL DEF Spec

\* The device stays one that RouterOS could have, and each phase of a call the one
\* its answers lead to.
THEOREM TypeCorrect == Spec => []TypeOK
<1>1. IInv => TypeOK
  BY DEF IInv
<1> QED
  BY <1>1, Invariant, PTL

\* A device only changes without an edit where a call writes: gated, validated,
\* confirmed, and only the tool's own part.
THEOREM OnlyItsOwnPartAlways == Spec => OnlyItsOwnPart
<1>1. ASSUME IInv, [Next]_vars, pc' # pc, device' # device
      PROVE  allowWrite /\ req.valid /\ req.confirm /\ OwnPart
  <2>1. CASE \E r \in Requests : Begin(r)
    BY <1>1, <2>1 DEF Begin
  <2>2. CASE Read
    BY <1>1, <2>2 DEF Read
  <2>3. CASE Write
    <3>1. OwnPart
      BY <1>1, <2>3, WriteKeeps DEF GoodWrite
    <3>2. allowWrite = TRUE /\ req.valid = TRUE /\ req.confirm = TRUE
      BY <1>1, <2>3 DEF Write, IInv, CallInv
    <3> QED  BY <3>1, <3>2
  <2>4. CASE WriteFails
    BY <1>1, <2>4 DEF WriteFails
  <2>5. CASE \E e \in Edits, i \in 1..MaxId : Edit(e, i)
    BY <1>1, <2>5 DEF Edit
  <2>6. CASE UNCHANGED vars
    BY <1>1, <2>6 DEF vars
  <2> QED  BY <1>1, <2>1, <2>2, <2>3, <2>4, <2>5, <2>6 DEF Next
<1>2. IInv /\ [Next]_vars =>
        ((pc' # pc /\ device' # device) =>
           allowWrite /\ req.valid /\ req.confirm /\ OwnPart)
  BY <1>1
<1> QED
  BY <1>2, Invariant, PTL DEF Spec, OnlyItsOwnPart

\* A call whose reads nobody outdates adds no peer that is there.
THEOREM AddsNoPeerTwiceAlways == Spec => AddsNoPeerTwice
<1>1. ASSUME IInv, [Next]_vars, pc' # pc, next' # next, ~edited
      PROVE  \A i \in DOMAIN device["peers"] :
                device'["peers"][next] # device["peers"][i]
  <2>1. CASE \E r \in Requests : Begin(r)
    BY <1>1, <2>1 DEF Begin
  <2>2. CASE Read
    BY <1>1, <2>2 DEF Read
  <2>3. CASE Write
    BY <1>1, <2>3, WriteKeeps DEF GoodWrite
  <2>4. CASE WriteFails
    BY <1>1, <2>4 DEF WriteFails
  <2>5. CASE \E e \in Edits, i \in 1..MaxId : Edit(e, i)
    BY <1>1, <2>5 DEF Edit
  <2>6. CASE UNCHANGED vars
    BY <1>1, <2>6 DEF vars
  <2> QED  BY <1>1, <2>1, <2>2, <2>3, <2>4, <2>5, <2>6 DEF Next
<1>2. IInv /\ [Next]_vars =>
        ((pc' # pc /\ next' # next /\ ~edited) =>
           \A i \in DOMAIN device["peers"] :
              device'["peers"][next] # device["peers"][i])
  BY <1>1
<1> QED
  BY <1>2, Invariant, PTL DEF Spec, AddsNoPeerTwice

-----------------------------------------------------------------------------
(* What RouterOS accepts.                                                   *)

LEMMA AcceptsSet ==
    ASSUME NEW m, NEW i, NEW fields, m \in DOMAIN device, i \in DOMAIN device[m],
           DOMAIN fields \cap {"ssid", "primary", "secondary", "dnsNames"}
             \subseteq DOMAIN device[m][i],
           \A f \in DOMAIN fields \cap {"primary", "secondary"} : fields[f] \in Literals
    PROVE  Accepts(device, SetRow(m, i, fields))
BY DEF Accepts, SetRow

\* Whatever fields the older client is sent, it has them, and they are literals.
LEMMA OldFieldsFit ==
    ASSUME NEW row, IsRow("ntp", row), OldGeneration(row), NEW servers
    PROVE  /\ DOMAIN OldFields(row, servers) \subseteq
                {"primary", "secondary", "dnsNames"} \cap DOMAIN row
           /\ \A f \in DOMAIN OldFields(row, servers) \cap {"primary", "secondary"} :
                OldFields(row, servers)[f] \in Literals
<1>1. "primary" \in DOMAIN row /\ "secondary" \in DOMAIN row
  BY DEF IsRow, OldGeneration, Field
<1>2. DOMAIN OldFields(row, servers) =
        (IF TakesSlot(row, servers, 1) THEN {"primary"} ELSE {})
          \cup (IF TakesSlot(row, servers, 2) THEN {"secondary"} ELSE {})
          \cup (IF Folds(row) /\ HostNames(servers) # <<>> THEN {"dnsNames"} ELSE {})
  BY DEF OldFields
<1>3. /\ "primary" \in DOMAIN OldFields(row, servers) =>
           OldFields(row, servers).primary = servers[1]
      /\ "secondary" \in DOMAIN OldFields(row, servers) =>
           OldFields(row, servers).secondary = servers[2]
      /\ "dnsNames" \in DOMAIN OldFields(row, servers) =>
           OldFields(row, servers).dnsNames = HostNames(servers)
  BY DEF OldFields
<1> QED
  BY <1>1, <1>2, <1>3 DEF TakesSlot, Folds, Field

LEMMA Fits ==
    ASSUME IInv
    PROVE  NeverRefused
<1> SUFFICES ASSUME pc = "writing", ~edited PROVE Accepts(device, cmd)
  BY DEF NeverRefused
<1>1. Sent(req, seen, cmd) /\ IsAnswers(seen) /\ IsDevice(device)
  BY DEF IInv, TypeOK, CallInv
<1>2. \A m : Heard(seen, m) =>
         /\ m \in DOMAIN device /\ seen[m].rows = device[m] /\ IsMenu(m, device[m])
         /\ RowsRead(seen, m) = device[m]
  <2> SUFFICES ASSUME NEW m, Heard(seen, m)
               PROVE  /\ m \in DOMAIN device /\ seen[m].rows = device[m]
                      /\ IsMenu(m, device[m]) /\ RowsRead(seen, m) = device[m]
    OBVIOUS
  <2>1. m \in DOMAIN seen /\ seen[m].ok = TRUE
    BY DEF Heard
  <2>2. Honest(seen, device) /\ m \in DOMAIN device
    BY <2>1 DEF IInv, CallInv
  <2>3. seen[m].rows = device[m]
    BY <2>1, <2>2 DEF Honest
  <2> QED  BY <1>1, <2>1, <2>2, <2>3 DEF IsDevice, RowsRead
<1>3. CASE req.tool = "set_identity"
  <2>1. /\ Heard(seen, "identity")
        /\ cmd = SetRow("identity", Only(seen["identity"].rows), [name |-> req.name])
    BY <1>1, <1>3 DEF Sent
  <2>2. "identity" \in Settings
    BY DEF Settings
  <2>3. Only(device["identity"]) \in DOMAIN device["identity"]
    BY <1>2, <2>1, <2>2, OnlyIs
  <2> QED  BY <1>2, <2>1, <2>3, AcceptsSet
<1>4. CASE req.tool = "clear_dns_cache" \/ req.tool = "wake_on_lan"
  <2>1. cmd = [action |-> "wake"] \/ cmd = [action |-> "flush", menu |-> "dns cache"]
    BY <1>1, <1>4 DEF Sent
  <2>2. CASE cmd = [action |-> "wake"]
    BY <2>2 DEF Accepts
  <2>3. CASE cmd = [action |-> "flush", menu |-> "dns cache"]
    BY <2>3 DEF Accepts
  <2> QED  BY <2>1, <2>2, <2>3
<1>5. CASE req.tool = "add_wireguard_peer"
  <2>1. /\ Heard(seen, "wireguard") /\ Named(seen["wireguard"].rows, req.name) # {}
        /\ cmd = AddRow("peers", [interface |-> req.name, key |-> req.key])
    BY <1>1, <1>5 DEF Sent
  <2>2. cmd.action = "add" /\ cmd.fields.interface = req.name
    BY <2>1 DEF AddRow
  <2> QED  BY <1>2, <2>1, <2>2 DEF Accepts
<1>6. CASE req.tool = "set_ntp_servers"
  <2> DEFINE row == TheRow(seen["ntp"].rows)
  <2>1. "ntp" \in Settings /\ Heard(seen, "ntp")
    BY <1>1, <1>6 DEF Sent, Settings
  <2>2. /\ Only(seen["ntp"].rows) \in DOMAIN device["ntp"] /\ IsRow("ntp", row)
        /\ row = device["ntp"][Only(seen["ntp"].rows)] /\ "ntp" \in DOMAIN device
    <3>1. "ntp" \in DOMAIN device /\ seen["ntp"].rows = device["ntp"] /\ IsMenu("ntp", device["ntp"])
      BY <1>2, <2>1
    <3>2. Only(device["ntp"]) \in DOMAIN device["ntp"]
      BY <2>1, <3>1, OnlyIs
    <3>3. IsRow("ntp", device["ntp"][Only(device["ntp"])])
      BY <3>1, <3>2, MenuIs
    <3> QED  BY <3>1, <3>2, <3>3 DEF TheRow
  <2>3. CASE cmd = SetRow("ntp", Only(seen["ntp"].rows), [servers |-> req.servers])
    BY <2>2, <2>3, AcceptsSet
  <2>4. CASE OldGeneration(row) /\ cmd = SetRow("ntp", Only(seen["ntp"].rows),
                                                OldFields(row, req.servers))
    <3> HIDE DEF row
    <3>1. /\ DOMAIN OldFields(row, req.servers) \subseteq
               {"primary", "secondary", "dnsNames"} \cap DOMAIN row
          /\ \A f \in DOMAIN OldFields(row, req.servers) \cap {"primary", "secondary"} :
               OldFields(row, req.servers)[f] \in Literals
      BY <2>2, <2>4, OldFieldsFit
    <3> QED  BY <2>2, <2>4, <3>1, AcceptsSet
  <2> QED  BY <1>1, <1>6, <2>3, <2>4 DEF Sent
<1>7. CASE req.tool = "set_wifi_ssid"
  <2>1. \E m \in {"wifi", "configuration", "wireless"} : \E i :
           /\ cmd = SetRow(m, i, [ssid |-> req.ssid]) /\ m \in DOMAIN device
           /\ i \in DOMAIN device[m] /\ Field(device[m][i], "ssid")
    <3>1. CASE /\ Heard(seen, "wifi") /\ WifiHere(req, seen) # {}
               /\ Field(WifiRow(req, seen), "ssid")
               /\ cmd = SetRow("wifi", Least(WifiHere(req, seen)), [ssid |-> req.ssid])
      <4>1. Least(WifiHere(req, seen)) \in DOMAIN device["wifi"]
        BY <1>2, <3>1, NamedIs DEF WifiHere
      <4> QED  BY <1>2, <3>1, <4>1 DEF WifiRow
    <3>2. CASE /\ Heard(seen, "configuration") /\ ItsConfigurations(req, seen) # {}
               /\ cmd = SetRow("configuration", Least(ItsConfigurations(req, seen)),
                               [ssid |-> req.ssid])
      <4>1. Least(ItsConfigurations(req, seen)) \in DOMAIN device["configuration"]
        BY <1>2, <3>2, NamedIs DEF ItsConfigurations
      <4>2. Field(device["configuration"][Least(ItsConfigurations(req, seen))], "ssid")
        BY <1>2, <3>2, <4>1, MenuIs DEF IsRow
      <4> QED  BY <1>2, <3>2, <4>1, <4>2
    <3>3. CASE /\ Heard(seen, "wireless") /\ OlderHere(req, seen) # {}
               /\ cmd = SetRow("wireless", Least(OlderHere(req, seen)), [ssid |-> req.ssid])
      <4>1. Least(OlderHere(req, seen)) \in DOMAIN device["wireless"]
        BY <1>2, <3>3, NamedIs DEF OlderHere
      <4>2. Field(device["wireless"][Least(OlderHere(req, seen))], "ssid")
        BY <1>2, <3>3, <4>1, MenuIs DEF IsRow
      <4> QED  BY <1>2, <3>3, <4>1, <4>2
    <3> QED  BY <1>1, <1>7, <3>1, <3>2, <3>3 DEF Sent
  <2>2. DOMAIN [ssid |-> req.ssid] = {"ssid"}
    OBVIOUS
  <2> QED  BY <2>1, <2>2, AcceptsSet DEF Field
<1> QED
  BY <1>1, <1>3, <1>4, <1>5, <1>6, <1>7 DEF Sent

\* RouterOS takes every command that is sent of answers nobody outdated.
THEOREM NeverRefusedAlways == Spec => []NeverRefused
<1>1. IInv => NeverRefused
  BY Fits
<1> QED
  BY <1>1, Invariant, PTL

-----------------------------------------------------------------------------
(* What an interface broadcasts.                                            *)

LEMMA BroadcastIs ==
    ASSUME NEW d, NEW name, NEW x
    PROVE  x \in Broadcast(d, name) <=>
             \/ \E m \in DOMAIN d \cap {"wifi", "wireless"} : \E i \in Named(d[m], name) :
                   Field(d[m][i], "ssid") /\ x = d[m][i].ssid
             \/ /\ "configuration" \in DOMAIN d
                /\ \E i \in Named(d["wifi"], name) :
                     /\ Refers(d["wifi"][i])
                     /\ \E k \in Named(d["configuration"], d["wifi"][i].configuration) :
                          x = d["configuration"][k].ssid
<1>1. \A m : x \in OwnSsids(d[m], name) <=>
               \E i \in Named(d[m], name) : Field(d[m][i], "ssid") /\ x = d[m][i].ssid
  BY DEF OwnSsids
<1>2. x \in ConfiguredSsids(d, name) <=>
        \E i \in Named(d["wifi"], name) :
          /\ Refers(d["wifi"][i])
          /\ \E k \in Named(d["configuration"], d["wifi"][i].configuration) :
               x = d["configuration"][k].ssid
  BY DEF ConfiguredSsids
<1>3. x \in Broadcast(d, name) <=>
        \/ \E m \in DOMAIN d \cap {"wifi", "wireless"} : x \in OwnSsids(d[m], name)
        \/ "configuration" \in DOMAIN d /\ x \in ConfiguredSsids(d, name)
  <2> DEFINE M == DOMAIN d \cap {"wifi", "wireless"}
             own == UNION {OwnSsids(d[m], name) : m \in M}
             configured == IF "configuration" \in DOMAIN d THEN ConfiguredSsids(d, name) ELSE {}
  <2>1. x \in own <=> \E m \in M : x \in OwnSsids(d[m], name)
    <3> HIDE DEF M
    <3> QED  OBVIOUS
  <2>2. x \in configured <=> "configuration" \in DOMAIN d /\ x \in ConfiguredSsids(d, name)
    OBVIOUS
  <2>3. Broadcast(d, name) = own \cup configured
    BY DEF Broadcast
  <2> HIDE DEF own, configured
  <2> QED  BY <2>1, <2>2, <2>3
<1> QED
  BY <1>1, <1>2, <1>3, Zenon

\* No row of an older interface has the name of one that is there.
LEMMA OneInterface ==
    ASSUME NEW d, IsDevice(d), NEW name, "wifi" \in DOMAIN d,
           Named(d["wifi"], name) # {}, "wireless" \in DOMAIN d
    PROVE  Named(d["wireless"], name) = {}
<1> SUFFICES ASSUME NEW j \in Named(d["wireless"], name) PROVE FALSE
  OBVIOUS
<1>1. PICK i \in Named(d["wifi"], name) : TRUE
  OBVIOUS
<1>2. SameName(d["wifi"][i], d["wireless"][j])
  BY DEF Named, SameName
<1>3. i \in DOMAIN d["wifi"] /\ j \in DOMAIN d["wireless"]
  BY DEF Named
<1> QED
  BY <1>2, <1>3 DEF IsDevice

LEMMA BroadcastOfOwn ==
    ASSUME NEW d, IsDevice(d), NEW name, "wifi" \in DOMAIN d,
           NEW i \in Named(d["wifi"], name),
           ~Refers(d["wifi"][i]), Field(d["wifi"][i], "ssid")
    PROVE  Broadcast(d, name) = {d["wifi"][i].ssid}
<1>1. \A j \in Named(d["wifi"], name) : j = i
  BY NamedIs DEF IsDevice
<1>2. "wireless" \in DOMAIN d => Named(d["wireless"], name) = {}
  BY OneInterface
<1>3. \A x : x \in Broadcast(d, name) <=> x = d["wifi"][i].ssid
  BY <1>1, <1>2, BroadcastIs
<1> QED
  BY <1>3

LEMMA BroadcastOfConfiguration ==
    ASSUME NEW d, IsDevice(d), NEW name, "wifi" \in DOMAIN d,
           NEW i \in Named(d["wifi"], name), Refers(d["wifi"][i])
    PROVE  LET found == Named(d["configuration"], d["wifi"][i].configuration)
           IN  /\ found = {} => Broadcast(d, name) = {}
               /\ \A k \in found : Broadcast(d, name) = {d["configuration"][k].ssid}
<1> DEFINE found == Named(d["configuration"], d["wifi"][i].configuration)
<1>1. IsMenu("wifi", d["wifi"]) /\ "configuration" \in DOMAIN d
      /\ IsMenu("configuration", d["configuration"])
  BY DEF IsDevice
<1>2. \A j \in Named(d["wifi"], name) : j = i
  BY <1>1, NamedIs
<1>3. ~Field(d["wifi"][i], "ssid")
  <2>1. i \in DOMAIN d["wifi"]
    BY DEF Named
  <2> QED  BY <1>1, <2>1, MenuIs DEF IsRow
<1>4. "wireless" \in DOMAIN d => Named(d["wireless"], name) = {}
  BY OneInterface
<1>5. \A x : x \in Broadcast(d, name) <=> \E k \in found : x = d["configuration"][k].ssid
  BY <1>1, <1>2, <1>3, <1>4, BroadcastIs
<1>6. \A k, l \in found : k = l
  BY <1>1, NamedIs
<1> HIDE DEF found
<1>7. found = {} => Broadcast(d, name) = {}
  BY <1>5
<1>8. \A k \in found : Broadcast(d, name) = {d["configuration"][k].ssid}
  BY <1>5, <1>6
<1> QED
  BY <1>7, <1>8 DEF found

LEMMA BroadcastOfOlder ==
    ASSUME NEW d, IsDevice(d), NEW name, "wireless" \in DOMAIN d,
           NEW i \in Named(d["wireless"], name)
    PROVE  Broadcast(d, name) = {d["wireless"][i].ssid}
<1>1. IsMenu("wireless", d["wireless"]) /\ i \in DOMAIN d["wireless"]
  BY DEF IsDevice, Named
<1>2. \A j \in Named(d["wireless"], name) : j = i
  BY <1>1, NamedIs
<1>3. Field(d["wireless"][i], "ssid")
  BY <1>1, MenuIs DEF IsRow
<1>4. "wifi" \in DOMAIN d => Named(d["wifi"], name) = {}
  BY OneInterface
<1>5. "configuration" \in DOMAIN d => "wifi" \in DOMAIN d
  BY DEF IsDevice
<1>6. \A x : x \in Broadcast(d, name) <=> x = d["wireless"][i].ssid
  BY <1>2, <1>3, <1>4, <1>5, BroadcastIs
<1> QED
  BY <1>6

LEMMA BroadcastOfNone ==
    ASSUME NEW d, IsDevice(d), NEW name,
           "wifi" \in DOMAIN d => Named(d["wifi"], name) = {},
           "wireless" \in DOMAIN d => Named(d["wireless"], name) = {}
    PROVE  Broadcast(d, name) = {}
<1>1. "configuration" \in DOMAIN d => "wifi" \in DOMAIN d
  BY DEF IsDevice
<1>2. \A x : x \notin Broadcast(d, name)
  BY <1>1, BroadcastIs
<1> QED
  BY <1>2

\* What "not found" means of the device that answered.
NotThere(r, s) ==
    \/ \E m \in DOMAIN s \cap DOMAIN device : ~s[m].ok
    \/ r.tool = "add_wireguard_peer" /\ Named(device["wireguard"], r.name) = {}
    \/ r.tool = "set_wifi_ssid" /\ Broadcast(device, r.name) = {}

\* A menu that was asked for and is there was heard, or its answer was lost.
LEMMA HeardOrLost ==
    ASSUME NEW s, IsAnswers(s), Honest(s, device),
           ~\E m \in DOMAIN s \cap DOMAIN device : ~s[m].ok
    PROVE  \A m \in DOMAIN s \cap DOMAIN device :
              Heard(s, m) /\ RowsRead(s, m) = device[m] /\ s[m].rows = device[m]
<1> SUFFICES ASSUME NEW m \in DOMAIN s \cap DOMAIN device
             PROVE  Heard(s, m) /\ RowsRead(s, m) = device[m] /\ s[m].rows = device[m]
  OBVIOUS
<1>1. s[m].ok = TRUE
  BY DEF IsAnswers
<1>2. s[m].rows = device[m]
  BY <1>1 DEF Honest
<1> QED
  BY <1>1, <1>2 DEF Heard, RowsRead

LEMMA NothingElse ==
    ASSUME NEW step, NEW error, step.do = "raise", step.error = error
    PROVE  /\ \A m : step # Ask(m)
           /\ \A c, w : step # Send(c, w)
           /\ \A e : step = Raise(e) => e = error
BY DEF Ask, Raise, Send

LEMMA SsidNotFound ==
    ASSUME IsDevice(device), NEW r, r.tool = "set_wifi_ssid", NEW s, IsAnswers(s),
           Honest(s, device), \A m \in DOMAIN s : s[m].ok = TRUE => m \in DOMAIN device,
           Step(r, s) = Raise("not found")
    PROVE  NotThere(r, s)
<1> SUFFICES ASSUME ~\E m \in DOMAIN s \cap DOMAIN device : ~s[m].ok
             PROVE  Broadcast(device, r.name) = {}
  BY DEF NotThere
<1>1. \A m \in DOMAIN s \cap DOMAIN device :
         Heard(s, m) /\ RowsRead(s, m) = device[m] /\ s[m].rows = device[m]
  BY HeardOrLost
<1>2. CASE /\ "wifi" \in DOMAIN s /\ WifiHere(r, s) # {} /\ Refers(WifiRow(r, s))
           /\ "configuration" \in DOMAIN s /\ s["configuration"].ok
           /\ ItsConfigurations(r, s) = {}
  <2>1. Heard(s, "wifi") /\ Heard(s, "configuration")
    BY <1>2, WifiHeard
  <2>2. /\ "wifi" \in DOMAIN device /\ "configuration" \in DOMAIN device
        /\ s["wifi"].rows = device["wifi"] /\ RowsRead(s, "wifi") = device["wifi"]
        /\ s["configuration"].rows = device["configuration"]
    BY <1>1, <2>1 DEF Heard
  <2> DEFINE i == Least(WifiHere(r, s))
  <2>3. i \in Named(device["wifi"], r.name)
    <3>1. IsMenu("wifi", device["wifi"])
      BY <2>2 DEF IsDevice
    <3> QED  BY <1>2, <2>2, <3>1, NamedIs DEF WifiHere
  <2>4. /\ Refers(device["wifi"][i])
        /\ Named(device["configuration"], device["wifi"][i].configuration) = {}
    BY <1>2, <2>2 DEF WifiRow, ItsConfigurations
  <2> HIDE DEF i
  <2> QED  BY <2>2, <2>3, <2>4, BroadcastOfConfiguration
<1>3. CASE /\ "wifi" \in DOMAIN s /\ WifiHere(r, s) = {}
           /\ "wireless" \in DOMAIN s /\ OlderHere(r, s) = {}
  <2>1. "wifi" \in DOMAIN device => Named(device["wifi"], r.name) = {}
    BY <1>1, <1>3 DEF WifiHere
  <2>2. "wireless" \in DOMAIN device => Named(device["wireless"], r.name) = {}
    BY <1>1, <1>3 DEF OlderHere
  <2> QED  BY <2>1, <2>2, BroadcastOfNone
<1>4. Step(r, s).do = "raise" /\ Step(r, s).error = "not found"
  <2>1. Raise("not found").do = "raise" /\ Raise("not found").error = "not found"
    BY DEF Raise
  <2> QED  BY <2>1
<1>5. /\ \A m : Step(r, s) # Ask(m)
      /\ \A c, w : Step(r, s) # Send(c, w)
      /\ \A e : Step(r, s) = Raise(e) => e = "not found"
  BY <1>4, NothingElse
<1> QED
  BY <1>2, <1>3, <1>5, WifiStep

LEMMA NotFoundMeans ==
    ASSUME IsDevice(device), NEW r, WellFormed(r), NEW s, IsAnswers(s),
           Honest(s, device), \A m \in DOMAIN s : s[m].ok = TRUE => m \in DOMAIN device,
           Step(r, s).do = "raise", Step(r, s).error = "not found"
    PROVE  NotThere(r, s)
<1>1. \A m : Step(r, s) # Ask(m)
  BY NothingElse
<1>2. \A c, w : Step(r, s) # Send(c, w)
  BY NothingElse
<1>3. \A e : Step(r, s) = Raise(e) => e = "not found"
  BY NothingElse
<1>4. CASE r.tool # "set_wifi_ssid" /\ ~AllHeard(s)
  BY <1>3, <1>4, GivesUp
<1>5. CASE r.tool = "set_wifi_ssid"
  <2>1. Step(r, s) = Raise("not found")
    <3>1. \/ \E m : Step(r, s) = Ask(m)
          \/ \E c, w : Step(r, s) = Send(c, w)
          \/ Step(r, s) = Raise("command failed")
          \/ Step(r, s) = Raise("not found")
      BY <1>5, WifiStep, Zenon
    <3> QED  BY <1>1, <1>2, <1>3, <3>1
  <2> QED  BY <1>5, <2>1, SsidNotFound
<1>6. CASE r.tool = "add_wireguard_peer" /\ AllHeard(s)
  <2>1. "wireguard" \in DOMAIN s /\ Named(s["wireguard"].rows, r.name) = {}
    BY <1>1, <1>2, <1>3, <1>6, PeerStep
  <2>2. s["wireguard"].rows = device["wireguard"]
    BY <1>6, <2>1 DEF Honest, AllHeard
  <2> QED  BY <1>6, <2>1, <2>2 DEF NotThere
<1>7. CASE r.tool = "set_identity" /\ AllHeard(s)
  BY <1>1, <1>2, <1>7, IdentityStep
<1>8. CASE r.tool = "clear_dns_cache" /\ AllHeard(s)
  BY <1>1, <1>2, <1>8, FlushStep
<1>9. CASE r.tool = "wake_on_lan" /\ AllHeard(s)
  BY <1>2, <1>9, WakeStep
<1>10. CASE r.tool = "set_ntp_servers" /\ AllHeard(s)
  BY <1>1, <1>2, <1>3, <1>10, NtpStep
<1> QED
  BY <1>4, <1>5, <1>6, <1>7, <1>8, <1>9, <1>10 DEF WellFormed, Tools

LEMMA WentOnNotFound ==
    ASSUME IInv, IInv', NEW r \in Requests, NEW s, IsAnswers(s), WentOn(r, s),
           device' = device, ~edited' => Honest(s, device)
    PROVE  NotFoundIsTrue'
<1> SUFFICES ASSUME raised' = "not found", ~edited'
             PROVE  NotThere(r, s)
  BY DEF NotFoundIsTrue, NotThere, WentOn
<1>1. Step(r, s).do = "raise" /\ Step(r, s).error = "not found"
  BY DEF WentOn
<1>2. \A m \in DOMAIN s : s[m].ok = TRUE => m \in DOMAIN device
  BY DEF IInv, CallInv, WentOn
<1>3. IsDevice(device)
  BY DEF IInv, TypeOK
<1> QED
  BY <1>1, <1>2, <1>3, RequestsAre, NotFoundMeans

LEMMA NotFoundKept ==
    ASSUME IInv, NotFoundIsTrue, [Next]_vars
    PROVE  NotFoundIsTrue'
<1>1. IInv'
  BY NextKeeps
<1>2. CASE \E r \in Requests : Begin(r)
  <2> DEFINE none == [m \in {} |-> Failed]
  <2>1. PICK r \in Requests : Begin(r)
    BY <1>2
  <2>2. IsAnswers(none) /\ Honest(none, device)
    BY NothingHeard
  <2> HIDE DEF none
  <2>3. CASE GoesOn(r, none)
    <3>1. device' = device
      BY <2>1 DEF Begin
    <3> QED  BY <1>1, <2>2, <2>3, <3>1, GoesOnIs, WentOnNotFound
  <2>4. CASE Refused(r, "disabled") \/ Refused(r, "invalid")
    BY <2>4 DEF Refused, Ends, NotFoundIsTrue
  <2> QED  BY <2>1, <2>3, <2>4 DEF Begin, none
<1>3. CASE Read
  <2>1. PICK s : IsAnswers(s) /\ WentOn(req, s) /\ (~edited => Honest(s, device))
    BY <1>3, ReadKeeps
  <2>2. req \in Requests /\ device' = device /\ edited' = edited
    BY <1>3 DEF Read, IInv, CallInv
  <2> QED  BY <1>1, <2>1, <2>2, WentOnNotFound
<1>4. CASE Write
  BY <1>4 DEF Write, Ends, NotFoundIsTrue
<1>5. CASE WriteFails
  BY <1>5 DEF WriteFails, Ends, NotFoundIsTrue
<1>6. CASE \E e \in Edits, i \in 1..MaxId : Edit(e, i)
  BY <1>6 DEF Edit, NotFoundIsTrue
<1>7. CASE UNCHANGED vars
  BY <1>7 DEF vars, call, NotFoundIsTrue
<1> QED
  BY <1>2, <1>3, <1>4, <1>5, <1>6, <1>7 DEF Next

\* "Not found" is said of what is not there, of no answer that was lost.
THEOREM NotFoundIsTrueAlways == Spec => []NotFoundIsTrue
<1>1. Init => IInv /\ NotFoundIsTrue
  BY InitHolds DEF Init, NotFoundIsTrue
<1>2. IInv /\ NotFoundIsTrue /\ [Next]_vars => (IInv /\ NotFoundIsTrue)'
  BY NextKeeps, NotFoundKept
<1> QED
  BY <1>1, <1>2, PTL DEF Spec

-----------------------------------------------------------------------------
(* The SSID that was asked for is the one that is broadcast.                *)

\* A row keeps its name whatever its SSID becomes.
LEMMA SsidKeepsNames ==
    ASSUME NEW m, NEW rs, IsMenu(m, rs), NEW i \in DOMAIN rs, Field(rs[i], "ssid"),
           NEW x, NEW name
    PROVE  /\ Named(WithSsid(rs, i, x), name) = Named(rs, name)
           /\ WithSsid(rs, i, x)[i].ssid = x /\ Field(WithSsid(rs, i, x)[i], "ssid")
           /\ \A j \in DOMAIN rs : /\ Refers(WithSsid(rs, i, x)[j]) <=> Refers(rs[j])
                                   /\ Refers(rs[j]) => WithSsid(rs, i, x)[j].configuration
                                                         = rs[j].configuration
<1> DEFINE ws == WithSsid(rs, i, x)
<1>1. /\ DOMAIN ws = DOMAIN rs /\ ws[i] = [rs[i] EXCEPT !.ssid = x]
      /\ \A j \in DOMAIN rs \ {i} : ws[j] = rs[j]
  BY DEF WithSsid
<1>2. /\ DOMAIN ws[i] = DOMAIN rs[i] /\ ws[i].ssid = x
      /\ \A f \in DOMAIN rs[i] \ {"ssid"} : ws[i][f] = rs[i][f]
  BY <1>1 DEF Field
<1> HIDE DEF ws
<1>3. \A j \in DOMAIN rs : /\ DOMAIN ws[j] = DOMAIN rs[j]
                           /\ \A f \in DOMAIN rs[j] \ {"ssid"} : ws[j][f] = rs[j][f]
  BY <1>1, <1>2
<1>4. \A j \in DOMAIN rs : (Field(ws[j], "name") /\ ws[j].name = name) <=>
                           (Field(rs[j], "name") /\ rs[j].name = name)
  BY <1>3 DEF Field
<1>5. Named(ws, name) = Named(rs, name)
  BY <1>1, <1>4 DEF Named
<1>6. \A j \in DOMAIN rs : /\ Refers(ws[j]) <=> Refers(rs[j])
                           /\ Refers(rs[j]) => ws[j].configuration = rs[j].configuration
  BY <1>3 DEF Refers, Field
<1> QED
  BY <1>2, <1>5, <1>6 DEF ws, Field

LEMMA SsidBroadcast ==
    ASSUME IInv, Write, req.tool = "set_wifi_ssid", ~edited
    PROVE  Broadcast(device', req.name) = {req.ssid}
<1>1. Sent(req, seen, cmd) /\ IsAnswers(seen) /\ IsDevice(device)
      /\ Accepts(device, cmd) /\ Carry
  BY DEF IInv, TypeOK, CallInv, Write
<1>2. ASSUME NEW m, Heard(seen, m)
      PROVE  /\ m \in DOMAIN device /\ seen[m].rows = device[m] /\ IsMenu(m, device[m])
             /\ RowsRead(seen, m) = device[m]
  <2>1. m \in DOMAIN seen /\ seen[m].ok = TRUE
    BY <1>2 DEF Heard
  <2>2. Honest(seen, device) /\ m \in DOMAIN device
    BY <2>1 DEF IInv, CallInv, Write
  <2>3. seen[m].rows = device[m]
    BY <2>1, <2>2 DEF Honest
  <2> QED  BY <1>1, <2>1, <2>2, <2>3 DEF IsDevice, RowsRead
<1>3. CASE /\ Heard(seen, "wifi") /\ WifiHere(req, seen) # {}
           /\ ~Refers(WifiRow(req, seen)) /\ Field(WifiRow(req, seen), "ssid")
           /\ cmd = SetRow("wifi", Least(WifiHere(req, seen)), [ssid |-> req.ssid])
  <2> DEFINE i == Least(WifiHere(req, seen))
  <2>1. i \in Named(device["wifi"], req.name) /\ IsMenu("wifi", device["wifi"])
    BY <1>2, <1>3, NamedIs DEF WifiHere
  <2>2. ~Refers(device["wifi"][i]) /\ Field(device["wifi"][i], "ssid") /\ i \in DOMAIN device["wifi"]
    BY <1>2, <1>3, <2>1 DEF WifiRow, Named
  <2> HIDE DEF i
  <2>3. /\ IsDevice(device') /\ DOMAIN device' = DOMAIN device /\ "wifi" \in DOMAIN device
        /\ device'["wifi"] = WithSsid(device["wifi"], i, req.ssid)
    BY <1>1, <1>3, WriteSsid DEF i
  <2>4. /\ i \in Named(device'["wifi"], req.name)
        /\ device'["wifi"][i].ssid = req.ssid /\ Field(device'["wifi"][i], "ssid")
        /\ ~Refers(device'["wifi"][i])
    BY <2>1, <2>2, <2>3, SsidKeepsNames
  <2> QED  BY <2>3, <2>4, BroadcastOfOwn
<1>4. CASE /\ Heard(seen, "wifi") /\ WifiHere(req, seen) # {}
           /\ Refers(WifiRow(req, seen)) /\ Heard(seen, "configuration")
           /\ ItsConfigurations(req, seen) # {}
           /\ cmd = SetRow("configuration", Least(ItsConfigurations(req, seen)),
                           [ssid |-> req.ssid])
  <2> DEFINE i == Least(WifiHere(req, seen))
             k == Least(ItsConfigurations(req, seen))
  <2>1. i \in Named(device["wifi"], req.name) /\ "wifi" \in DOMAIN device
    BY <1>2, <1>4, NamedIs DEF WifiHere
  <2>2. Refers(device["wifi"][i])
    BY <1>2, <1>4 DEF WifiRow
  <2>3. /\ k \in Named(device["configuration"], device["wifi"][i].configuration)
        /\ IsMenu("configuration", device["configuration"])
    BY <1>2, <1>4, NamedIs DEF ItsConfigurations, WifiRow
  <2>4. k \in DOMAIN device["configuration"] /\ Field(device["configuration"][k], "ssid")
    BY <2>3, MenuIs DEF Named, IsRow
  <2> HIDE DEF i, k
  <2>5. /\ IsDevice(device') /\ DOMAIN device' = DOMAIN device
        /\ device'["configuration"] = WithSsid(device["configuration"], k, req.ssid)
        /\ device'["wifi"] = device["wifi"]
    BY <1>1, <1>4, <2>1, WriteSsid DEF k
  <2>6. /\ k \in Named(device'["configuration"], device'["wifi"][i].configuration)
        /\ device'["configuration"][k].ssid = req.ssid
    BY <2>3, <2>4, <2>5, SsidKeepsNames
  <2> QED  BY <2>1, <2>2, <2>5, <2>6, BroadcastOfConfiguration
<1>5. CASE /\ Heard(seen, "wireless") /\ OlderHere(req, seen) # {}
           /\ cmd = SetRow("wireless", Least(OlderHere(req, seen)), [ssid |-> req.ssid])
  <2> DEFINE i == Least(OlderHere(req, seen))
  <2>1. i \in Named(device["wireless"], req.name) /\ IsMenu("wireless", device["wireless"])
    BY <1>2, <1>5, NamedIs DEF OlderHere
  <2>2. i \in DOMAIN device["wireless"] /\ Field(device["wireless"][i], "ssid")
    BY <2>1, MenuIs DEF Named, IsRow
  <2> HIDE DEF i
  <2>3. /\ IsDevice(device') /\ DOMAIN device' = DOMAIN device /\ "wireless" \in DOMAIN device
        /\ device'["wireless"] = WithSsid(device["wireless"], i, req.ssid)
    BY <1>1, <1>5, WriteSsid DEF i
  <2>4. /\ i \in Named(device'["wireless"], req.name)
        /\ device'["wireless"][i].ssid = req.ssid
    BY <2>1, <2>2, <2>3, SsidKeepsNames
  <2> QED  BY <2>3, <2>4, BroadcastOfOlder
<1> QED
  BY <1>1, <1>3, <1>4, <1>5 DEF Sent

LEMMA NotApplied ==
    ASSUME IInv, (\E r \in Requests : Begin(r)) \/ Read
    PROVE  outcome' # "applied"
<1>1. CASE Read
  BY <1>1, ReadKeeps DEF WentOn
<1>2. CASE \E r \in Requests : Begin(r)
  <2> DEFINE none == [m \in {} |-> Failed]
  <2>1. PICK r \in Requests : Begin(r)
    BY <1>2
  <2>2. CASE GoesOn(r, none)
    <3>1. IsAnswers(none)
      BY NothingHeard
    <3> HIDE DEF none
    <3> QED  BY <2>2, <3>1, GoesOnIs DEF WentOn
  <2>3. CASE Refused(r, "disabled") \/ Refused(r, "invalid")
    BY <2>3 DEF Refused, Ends
  <2> QED  BY <2>1, <2>2, <2>3 DEF Begin
<1> QED
  BY <1>1, <1>2

LEMMA BroadcastKept ==
    ASSUME IInv, BroadcastsIt, [Next]_vars
    PROVE  BroadcastsIt'
<1>1. CASE \E r \in Requests : Begin(r)
  BY <1>1, NotApplied DEF BroadcastsIt, Applied
<1>2. CASE Read
  BY <1>2, NotApplied DEF BroadcastsIt, Applied
<1>3. CASE Write
  <2>1. req' = req /\ edited' = edited
    BY <1>3 DEF Write
  <2> QED  BY <1>3, <2>1, SsidBroadcast DEF BroadcastsIt, Applied
<1>4. CASE WriteFails
  BY <1>4 DEF WriteFails, Ends, BroadcastsIt, Applied
<1>5. CASE \E e \in Edits, i \in 1..MaxId : Edit(e, i)
  BY <1>5 DEF Edit, BroadcastsIt, Applied
<1>6. CASE UNCHANGED vars
  BY <1>6 DEF vars, call, BroadcastsIt, Applied
<1> QED
  BY <1>1, <1>2, <1>3, <1>4, <1>5, <1>6 DEF Next

\* After a set_wifi_ssid that was applied the interface broadcasts the new SSID
\* and no other, whichever menu it is in.
THEOREM BroadcastsItAlways == Spec => []BroadcastsIt
<1>1. Init => IInv /\ BroadcastsIt
  BY InitHolds DEF Init, BroadcastsIt, Applied
<1>2. IInv /\ BroadcastsIt /\ [Next]_vars => (IInv /\ BroadcastsIt)'
  BY NextKeeps, BroadcastKept
<1> QED
  BY <1>1, <1>2, PTL DEF Spec

-----------------------------------------------------------------------------
(* Where the NTP servers go.                                                *)

LEMMA FirstTwoIs ==
    ASSUME NEW S, NEW servers \in Seq(S), servers # <<>>
    PROVE  /\ DOMAIN FirstTwo(servers) = {1, 2} \cap DOMAIN servers
           /\ 1 \in DOMAIN servers
<1>1. Len(servers) \in Nat \ {0} /\ DOMAIN servers = 1..Len(servers)
  BY EmptySeq, LenProperties
<1> DEFINE n == IF Len(servers) < 2 THEN 1 ELSE 2
<1>2. n \in 1..Len(servers) /\ DOMAIN SubSeq(servers, 1, n) = 1..n
  <2>1. n \in 1..Len(servers)
    BY <1>1
  <2>2. Len(SubSeq(servers, 1, n)) = n /\ SubSeq(servers, 1, n) \in Seq(S)
    BY <1>1, <2>1, SubSeqProperties
  <2> QED  BY <2>1, <2>2, LenProperties
<1>3. 1..n = {1, 2} \cap DOMAIN servers
  BY <1>1
<1> QED
  BY <1>1, <1>2, <1>3 DEF FirstTwo

LEMMA ConcatSingles ==
    ASSUME NEW x, NEW y
    PROVE  /\ <<x>> \o <<y>> = <<x, y>>
           /\ <<x>> \o <<>> = <<x>>
           /\ <<>> \o <<x>> = <<x>>
<1>1. <<x>> \in Seq({x, y}) /\ <<y>> \in Seq({x, y}) /\ <<x, y>> \in Seq({x, y})
  OBVIOUS
<1>2. <<x>> \o <<y>> \in Seq({x, y}) /\ Len(<<x>> \o <<y>>) = 2
  BY <1>1, ConcatProperties
<1>3. (<<x>> \o <<y>>)[1] = x /\ (<<x>> \o <<y>>)[2] = y
  BY <1>1, ConcatProperties
<1>4. <<x>> \o <<y>> = <<x, y>>
  <2> DEFINE s == <<x>> \o <<y>>
             u == <<x, y>>
  <2>1. s \in Seq({x, y}) /\ u \in Seq({x, y}) /\ Len(s) = 2 /\ Len(u) = 2
    BY <1>1, <1>2
  <2>2. s[1] = u[1] /\ s[2] = u[2]
    BY <1>3
  <2> HIDE DEF s, u
  <2>3. \A i \in 1..Len(s) : s[i] = u[i]
    BY <2>1, <2>2
  <2>4. s = u
    BY <2>1, <2>3, SeqEqual
  <2> QED  BY <2>4 DEF s, u
<1> QED
  BY <1>1, <1>4, ConcatEmptySeq

\* A server of the first two that is a name.
IsHost(servers, k) == k \in {1, 2} \cap DOMAIN servers /\ servers[k] \notin Literals

LEMMA HostNamesAre ==
    ASSUME NEW S, NEW servers \in Seq(S), servers # <<>>
    PROVE  /\ Range(HostNames(servers)) = {servers[k] : k \in {j \in {1, 2} : IsHost(servers, j)}}
           /\ HostNames(servers) # <<>> <=> \E k \in {1, 2} : IsHost(servers, k)
<1> DEFINE host(k) == IF k \in DOMAIN FirstTwo(servers) /\ servers[k] \notin Literals
                      THEN <<servers[k]>> ELSE <<>>
<1>1. HostNames(servers) = host(1) \o host(2)
  BY DEF HostNames
<1>2. /\ host(1) = IF IsHost(servers, 1) THEN <<servers[1]>> ELSE <<>>
      /\ host(2) = IF IsHost(servers, 2) THEN <<servers[2]>> ELSE <<>>
  BY FirstTwoIs DEF IsHost
<1>3. \A k \in {1, 2} : IsHost(servers, k) => servers[k] \in S
  BY ElementOfSeq, LenProperties DEF IsHost
<1> HIDE DEF host
<1>4. CASE IsHost(servers, 1) /\ IsHost(servers, 2)
  <2>1. HostNames(servers) = <<servers[1], servers[2]>>
    BY <1>1, <1>2, <1>4, ConcatSingles
  <2>2. Range(<<servers[1], servers[2]>>) = {servers[1], servers[2]}
    BY DEF Range
  <2> QED  BY <1>4, <2>1, <2>2
<1>5. CASE IsHost(servers, 1) /\ ~IsHost(servers, 2)
  <2>1. HostNames(servers) = <<servers[1]>>
    BY <1>1, <1>2, <1>5, ConcatSingles
  <2>2. Range(<<servers[1]>>) = {servers[1]}
    BY DEF Range
  <2> QED  BY <1>5, <2>1, <2>2
<1>6. CASE ~IsHost(servers, 1) /\ IsHost(servers, 2)
  <2>1. HostNames(servers) = <<servers[2]>>
    BY <1>1, <1>2, <1>6, ConcatSingles
  <2>2. Range(<<servers[2]>>) = {servers[2]}
    BY DEF Range
  <2> QED  BY <1>6, <2>1, <2>2
<1>7. CASE ~IsHost(servers, 1) /\ ~IsHost(servers, 2)
  <2>1. HostNames(servers) = <<>>
    BY <1>1, <1>2, <1>7
  <2>2. Range(<<>>) = {}
    BY DEF Range
  <2> QED  BY <1>7, <2>1, <2>2
<1> QED
  BY <1>4, <1>5, <1>6, <1>7

\* What set_ntp_servers promises of the row that was, the row that is now, the
\* servers that were given and those that were warned of.
Accounted(before, after, given, names) ==
    /\ given \subseteq InForce(after) \cup names
    /\ given \cap InForce(after) # {}
    /\ Field(before, "servers") \/ Field(before, "primary") =>
         InForce(after) \subseteq InForce(before) \cup given

LEMMA NewServersAccounted ==
    ASSUME NEW S, NEW servers \in Seq(S), servers # <<>>, NEW row
    PROVE  Accounted(row, Override(row, [servers |-> servers]), Range(servers), {})
<1> DEFINE after == Override(row, [servers |-> servers])
<1>1. Field(after, "servers") /\ after.servers = servers
  BY DEF Override, Field
<1> HIDE DEF after
<1>2. InForce(after) = Range(servers)
  BY <1>1 DEF InForce
<1>3. servers[1] \in Range(servers)
  BY FirstTwoIs DEF Range
<1> QED
  BY <1>2, <1>3 DEF Accounted, after

LEMMA OldFieldsAre ==
    ASSUME NEW row, NEW servers
    PROVE  LET fields == OldFields(row, servers)
           IN  /\ "primary" \in DOMAIN fields <=> TakesSlot(row, servers, 1)
               /\ "secondary" \in DOMAIN fields <=> TakesSlot(row, servers, 2)
               /\ "dnsNames" \in DOMAIN fields <=> Folds(row) /\ HostNames(servers) # <<>>
               /\ DOMAIN fields \subseteq {"primary", "secondary", "dnsNames"}
               /\ "primary" \in DOMAIN fields => fields.primary = servers[1]
               /\ "secondary" \in DOMAIN fields => fields.secondary = servers[2]
               /\ "dnsNames" \in DOMAIN fields => fields.dnsNames = HostNames(servers)
<1> DEFINE fields == OldFields(row, servers)
<1>1. DOMAIN fields =
        (IF TakesSlot(row, servers, 1) THEN {"primary"} ELSE {})
          \cup (IF TakesSlot(row, servers, 2) THEN {"secondary"} ELSE {})
          \cup (IF Folds(row) /\ HostNames(servers) # <<>> THEN {"dnsNames"} ELSE {})
  BY DEF OldFields
<1>2. /\ "primary" \in DOMAIN fields => fields.primary = servers[1]
      /\ "secondary" \in DOMAIN fields => fields.secondary = servers[2]
      /\ "dnsNames" \in DOMAIN fields => fields.dnsNames = HostNames(servers)
  BY DEF OldFields
<1> HIDE DEF fields
<1>3. /\ "primary" \in DOMAIN fields <=> TakesSlot(row, servers, 1)
      /\ "secondary" \in DOMAIN fields <=> TakesSlot(row, servers, 2)
      /\ "dnsNames" \in DOMAIN fields <=> Folds(row) /\ HostNames(servers) # <<>>
      /\ DOMAIN fields \subseteq {"primary", "secondary", "dnsNames"}
  BY <1>1
<1> QED
  BY <1>2, <1>3 DEF fields

LEMMA OldServersAccounted ==
    ASSUME NEW S, NEW servers \in Seq(S), servers # <<>>,
           NEW row, IsRow("ntp", row), OldGeneration(row), DOMAIN OldFields(row, servers) # {}
    PROVE  Accounted(row, Override(row, OldFields(row, servers)), Range(servers),
                     Ignored(row, servers))
<1> DEFINE fields == OldFields(row, servers)
           after == Override(row, fields)
           given == Range(servers)
           names == Range(HostNames(servers))
<1>1. /\ "primary" \in DOMAIN fields <=> TakesSlot(row, servers, 1)
      /\ "secondary" \in DOMAIN fields <=> TakesSlot(row, servers, 2)
      /\ "dnsNames" \in DOMAIN fields <=> Folds(row) /\ HostNames(servers) # <<>>
      /\ DOMAIN fields \subseteq {"primary", "secondary", "dnsNames"}
      /\ "primary" \in DOMAIN fields => fields.primary = servers[1]
      /\ "secondary" \in DOMAIN fields => fields.secondary = servers[2]
      /\ "dnsNames" \in DOMAIN fields => fields.dnsNames = HostNames(servers)
  BY OldFieldsAre
<1>2. \A k \in {1, 2} : TakesSlot(row, servers, k) <=> k \in DOMAIN servers /\ servers[k] \in Literals
  BY FirstTwoIs DEF TakesSlot
<1>3. /\ names = {servers[k] : k \in {j \in {1, 2} : IsHost(servers, j)}}
      /\ HostNames(servers) # <<>> <=> \E k \in {1, 2} : IsHost(servers, k)
  BY HostNamesAre
<1>4. /\ DOMAIN after = DOMAIN row \cup DOMAIN fields
      /\ \A f \in DOMAIN fields : after[f] = fields[f]
      /\ \A f \in DOMAIN row \ DOMAIN fields : after[f] = row[f]
  BY OverrideIs
<1>5. given = {servers[k] : k \in DOMAIN servers} /\ names \subseteq given
  BY <1>3 DEF Range, IsHost
<1>6. ~Field(after, "servers") /\ ~Field(row, "servers") /\ Field(row, "primary")
  BY <1>1, <1>4 DEF OldGeneration, Field
<1>7. Ignored(row, servers) =
        {servers[k] : k \in {j \in DOMAIN servers : j > 2}}
          \cup (IF Folds(row) THEN {} ELSE names)
  BY DEF Ignored
<1> HIDE DEF fields, after, given, names
<1>8. InForce(after) = {after.primary, after.secondary} \cup
        (IF Field(after, "dnsNames") THEN Range(after.dnsNames) ELSE {})
  BY <1>6 DEF InForce
<1>9. ASSUME NEW k \in DOMAIN servers, k \in {1, 2}, servers[k] \in Literals
      PROVE  servers[k] \in InForce(after)
  BY <1>1, <1>2, <1>4, <1>8, <1>9
<1>10. ASSUME Folds(row), HostNames(servers) # <<>>
       PROVE  names \subseteq InForce(after)
  <2>1. Field(after, "dnsNames") /\ after.dnsNames = HostNames(servers)
    BY <1>1, <1>4, <1>10 DEF Field
  <2> QED  BY <1>8, <2>1 DEF names
<1>11. given \subseteq InForce(after) \cup Ignored(row, servers)
  <2> SUFFICES ASSUME NEW k \in DOMAIN servers
               PROVE  servers[k] \in InForce(after) \cup Ignored(row, servers)
    BY <1>5
  <2>1. CASE k > 2
    BY <1>7, <2>1
  <2>2. CASE k \in {1, 2} /\ servers[k] \in Literals
    BY <1>9, <2>2
  <2>3. CASE k \in {1, 2} /\ servers[k] \notin Literals
    <3>1. servers[k] \in names /\ HostNames(servers) # <<>>
      BY <1>3, <2>3 DEF IsHost
    <3> QED  BY <1>7, <1>10, <3>1
  <2>4. k \in Nat /\ k >= 1
    BY LenProperties
  <2> QED  BY <2>1, <2>2, <2>3, <2>4
<1>12. given \cap InForce(after) # {}
  <2>1. CASE "primary" \in DOMAIN fields \/ "secondary" \in DOMAIN fields
    <3>1. PICK k \in {1, 2} : k \in DOMAIN servers /\ servers[k] \in Literals
      BY <1>1, <1>2, <2>1
    <3> QED  BY <1>5, <1>9, <3>1
  <2>2. CASE "dnsNames" \in DOMAIN fields
    <3>1. names # {} /\ names \subseteq InForce(after)
      BY <1>1, <1>3, <1>10, <2>2
    <3> QED  BY <1>5, <3>1
  <2>3. DOMAIN fields # {}
    BY DEF fields
  <2> QED  BY <1>1, <2>1, <2>2, <2>3
<1>13. InForce(after) \subseteq InForce(row) \cup given
  <2>1. InForce(row) = {row.primary, row.secondary} \cup
          (IF Field(row, "dnsNames") THEN Range(row.dnsNames) ELSE {})
    BY <1>6 DEF InForce
  <2>2. after.primary \in InForce(row) \cup given
    <3>1. CASE "primary" \in DOMAIN fields
      BY <1>1, <1>2, <1>4, <1>5, <3>1
    <3>2. CASE "primary" \notin DOMAIN fields
      BY <1>4, <1>6, <2>1, <3>2 DEF Field
    <3> QED  BY <3>1, <3>2
  <2>3. after.secondary \in InForce(row) \cup given
    <3>1. CASE "secondary" \in DOMAIN fields
      BY <1>1, <1>2, <1>4, <1>5, <3>1
    <3>2. CASE "secondary" \notin DOMAIN fields
      <4>1. "secondary" \in DOMAIN row
        BY <1>6 DEF IsRow, Field
      <4> QED  BY <1>4, <2>1, <3>2, <4>1
    <3> QED  BY <3>1, <3>2
  <2>4. ASSUME Field(after, "dnsNames")
        PROVE  Range(after.dnsNames) \subseteq InForce(row) \cup given
    <3>1. CASE "dnsNames" \in DOMAIN fields
      <4>1. Range(after.dnsNames) = names
        BY <1>1, <1>4, <3>1 DEF names
      <4> QED  BY <1>5, <4>1
    <3>2. CASE "dnsNames" \notin DOMAIN fields
      <4>1. Field(row, "dnsNames") /\ after.dnsNames = row.dnsNames
        BY <1>4, <2>4, <3>2 DEF Field
      <4> QED  BY <2>1, <4>1
    <3> QED  BY <3>1, <3>2
  <2> QED  BY <1>8, <2>2, <2>3, <2>4
<1>14. Accounted(row, after, given, Ignored(row, servers))
  BY <1>11, <1>12, <1>13 DEF Accounted
<1> QED
  BY <1>14 DEF after, fields, given

LEMMA NtpWriteAccounted ==
    ASSUME IInv, Write, req.tool = "set_ntp_servers", ~edited
    PROVE  Accounted(TheRow(seen["ntp"].rows), TheRow(device'["ntp"]),
                     Range(req.servers), warned)
<1> DEFINE row == TheRow(seen["ntp"].rows)
           i == Only(seen["ntp"].rows)
<1>1. /\ Sent(req, seen, cmd) /\ IsAnswers(seen) /\ IsDevice(device)
      /\ Accepts(device, cmd) /\ Carry /\ Honest(seen, device)
      /\ Step(req, seen).do = "send" /\ req \in Requests
      /\ cmd = Step(req, seen).cmd /\ warned = Step(req, seen).warned
  BY DEF IInv, TypeOK, CallInv, Write
<1>2. "ntp" \in Settings /\ Heard(seen, "ntp")
  BY <1>1 DEF Sent, Settings
<1>3. seen["ntp"].rows = device["ntp"] /\ "ntp" \in DOMAIN device
  BY <1>1, <1>2 DEF Honest, Heard, IInv, CallInv
<1>4. /\ IsMenu("ntp", device["ntp"]) /\ DOMAIN device["ntp"] = {i}
      /\ IsRow("ntp", row) /\ row = device["ntp"][i]
  <2>1. IsMenu("ntp", device["ntp"])
    BY <1>1, <1>3 DEF IsDevice
  <2>2. DOMAIN device["ntp"] = {i}
    BY <1>2, <1>3, <2>1, OnlyIs
  <2>3. row = device["ntp"][i]
    BY <1>3 DEF TheRow
  <2> QED  BY <2>1, <2>2, <2>3, MenuIs
<1>5. req.servers \in Seq(Range(req.servers)) /\ req.servers # <<>>
  BY <1>1, RequestsAre DEF WellFormed
<1>6. AllHeard(seen)
  <2> SUFFICES ASSUME ~AllHeard(seen) PROVE FALSE
    OBVIOUS
  <2>1. Step(req, seen) = Raise("command failed")
    BY <1>1, GivesUp
  <2>2. Raise("command failed").do = "raise"
    BY DEF Raise
  <2> QED  BY <1>1, <2>1, <2>2
<1>7. ASSUME NEW fields, cmd = SetRow("ntp", i, fields)
      PROVE  TheRow(device'["ntp"]) = Override(row, fields)
  <2>1. /\ IsDevice(device') /\ DOMAIN device' = DOMAIN device
        /\ device'["ntp"] = Put(device["ntp"], i, Override(device["ntp"][i], fields))
    BY <1>1, <1>2, <1>7, WriteSetting
  <2>2. /\ DOMAIN device'["ntp"] = {i}
        /\ device'["ntp"][i] = Override(device["ntp"][i], fields)
    BY <1>4, <2>1 DEF Put
  <2>3. Only(device'["ntp"]) = i
    <3>1. IsMenu("ntp", device'["ntp"])
      BY <1>3, <2>1 DEF IsDevice
    <3> QED  BY <1>2, <2>2, <3>1, OnlyIs
  <2> QED  BY <1>4, <2>2, <2>3 DEF TheRow
<1> HIDE DEF row, i
<1>8. CASE /\ OldGeneration(row) /\ DOMAIN OldFields(row, req.servers) # {}
           /\ Step(req, seen) = Send(SetRow("ntp", i, OldFields(row, req.servers)),
                                     Ignored(row, req.servers))
  <2>1. /\ cmd = SetRow("ntp", i, OldFields(row, req.servers))
        /\ warned = Ignored(row, req.servers)
    BY <1>1, <1>8, StepsAre
  <2>2. TheRow(device'["ntp"]) = Override(row, OldFields(row, req.servers))
    BY <1>7, <2>1
  <2> QED  BY <1>4, <1>5, <1>8, <2>1, <2>2, OldServersAccounted DEF row
<1>9. CASE Step(req, seen) = Send(SetRow("ntp", i, [servers |-> req.servers]), {})
  <2>1. cmd = SetRow("ntp", i, [servers |-> req.servers]) /\ warned = {}
    BY <1>1, <1>9, StepsAre
  <2>2. TheRow(device'["ntp"]) = Override(row, [servers |-> req.servers])
    BY <1>7, <2>1
  <2> QED  BY <1>5, <2>1, <2>2, NewServersAccounted DEF row
<1>10. /\ \A m : Step(req, seen) # Ask(m)
       /\ \A e : Step(req, seen) # Raise(e)
  BY <1>1 DEF Ask, Raise
<1> QED
  BY <1>6, <1>8, <1>9, <1>10, NtpStep DEF row, i

LEMMA ServersKept ==
    ASSUME IInv, ServersAccountedFor, [Next]_vars
    PROVE  ServersAccountedFor'
<1>1. CASE \E r \in Requests : Begin(r)
  BY <1>1, NotApplied DEF ServersAccountedFor, Applied
<1>2. CASE Read
  BY <1>2, NotApplied DEF ServersAccountedFor, Applied
<1>3. CASE Write
  <2>1. req' = req /\ edited' = edited /\ seen' = seen /\ warned' = warned
    BY <1>3 DEF Write
  <2>2. CASE req.tool = "set_ntp_servers" /\ ~edited
    BY <1>3, <2>1, <2>2, NtpWriteAccounted
      DEF ServersAccountedFor, Accounted, TheRow
  <2>3. CASE ~(req.tool = "set_ntp_servers" /\ ~edited)
    BY <2>1, <2>3 DEF ServersAccountedFor, Applied
  <2> QED  BY <2>2, <2>3
<1>4. CASE WriteFails
  BY <1>4 DEF WriteFails, Ends, ServersAccountedFor, Applied
<1>5. CASE \E e \in Edits, i \in 1..MaxId : Edit(e, i)
  BY <1>5 DEF Edit, ServersAccountedFor, Applied
<1>6. CASE UNCHANGED vars
  BY <1>6 DEF vars, call, ServersAccountedFor, Applied
<1> QED
  BY <1>1, <1>2, <1>3, <1>4, <1>5, <1>6 DEF Next

\* After a set_ntp_servers that was applied every server is in use or named by
\* the warning, some server is in use, and nothing came that was not asked for.
THEOREM ServersAccountedForAlways == Spec => []ServersAccountedFor
<1>1. Init => IInv /\ ServersAccountedFor
  BY InitHolds DEF Init, ServersAccountedFor, Applied
<1>2. IInv /\ ServersAccountedFor /\ [Next]_vars => (IInv /\ ServersAccountedFor)'
  BY NextKeeps, ServersKept
<1> QED
  BY <1>1, <1>2, PTL DEF Spec
=============================================================================
