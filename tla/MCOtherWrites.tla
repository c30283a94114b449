---------------------------- MODULE MCOtherWrites ----------------------------
(* Parts of a device, one at a time: interfaces with a configuration, with    *)
(* their own SSID, and of the older menu; NTP clients of both generations,    *)
(* with and without a field for names; a tunnel that has a peer already.      *)
EXTENDS OtherWrites, TLC

Wifi == [
    wifi |-> (1 :> [name |-> "wlan1", configuration |-> "cfg1"])
          @@ (2 :> [name |-> "wlan2", configuration |-> "", ssid |-> "home"]),
    configuration |-> (3 :> [name |-> "cfg2", ssid |-> "guests"])
                   @@ (4 :> [name |-> "cfg1", ssid |-> "home"]),
    wireless |-> 5 :> [name |-> "wlan3", ssid |-> "home"]]

Wireless == [wireless |-> 1 :> [name |-> "wlan1", ssid |-> "home"]]

Newer == [ntp |-> 1 :> [servers |-> <<"ip1">>]]
NeverSet == [ntp |-> 1 :> [enabled |-> "no"]]
Older(names) ==
    [ntp |-> 1 :> (names @@ [primary |-> "ip1", secondary |-> "ip3"])]

NoNames == [f \in {} |-> <<>>]

Tunnel == [wireguard |-> 1 :> [name |-> "wg1"],
           peers |-> 2 :> [interface |-> "wg1", key |-> "k1"]]

Router == ("identity" :> (1 :> [name |-> "router"]))
       @@ ("dns cache" :> (2 :> [name |-> "example"]))

MCInitDevices == {Wifi, Wireless, Newer, NeverSet, Older(NoNames),
                  Older([dnsNames |-> <<"host2">>]), Tunnel, Router}

Asks(r) == {r @@ [confirm |-> c, valid |-> TRUE] : c \in BOOLEAN}

MCRequests ==
    UNION {Asks(r) : r \in
        {[tool |-> "set_identity", name |-> "gateway"],
         [tool |-> "clear_dns_cache"],
         [tool |-> "wake_on_lan"]}
        \cup {[tool |-> "add_wireguard_peer", name |-> n, key |-> "k2"] :
                n \in {"wg1", "wg2"}}
        \cup {[tool |-> "set_ntp_servers", servers |-> v] :
                v \in {<<"ip2">>, <<"host1">>, <<"ip2", "host1">>,
                       <<"host1", "ip2">>, <<"host1", "ip2", "ip1">>}}
        \cup {[tool |-> "set_wifi_ssid", name |-> n, ssid |-> "new"] :
                n \in {"wlan1", "wlan2", "wlan3"}}}
    \cup {[tool |-> "set_ntp_servers", servers |-> <<"ip2">>,
           confirm |-> TRUE, valid |-> FALSE]}

MCEdits ==
    {[menu |-> m, row |-> NoRow] :
        m \in {"wifi", "configuration", "wireless", "wireguard", "peers"}}
    \cup {[menu |-> "wifi", row |-> [name |-> "wlan1", configuration |-> "cfg2"]],
          [menu |-> "wifi", row |-> [name |-> "wlan1", ssid |-> "home"]],
          [menu |-> "wifi", row |-> [name |-> "wlan2"]],
          [menu |-> "configuration", row |-> [name |-> "cfg1", ssid |-> "guests"]],
          [menu |-> "wireless", row |-> [name |-> "wlan2", ssid |-> "home"]],
          [menu |-> "peers", row |-> [interface |-> "wg1", key |-> "k2"]]}
=============================================================================
