---------------------------- MODULE MCSecurityAudit ----------------------------
(* The audit on small menus: for each, rows on both sides of every line its *)
(* check draws.                                                             *)
EXTENDS SecurityAudit

Service(name, disabled, address) ==
    [name |-> name, disabled |-> disabled, address |-> address]
Rule(chain, disabled, action) ==
    [chain |-> chain, disabled |-> disabled, action |-> action]
Certificate(expired, left) == [expired |-> expired, left |-> left]

Day == 24 * 60

MCContents == [m \in Menus |->
    CASE m = "service" ->
           {<<Service("telnet", "no", ""), Service("api", "false", "10.0.0.0/8"),
              Service("winbox", "no", "0.0.0.0/0")>>,
            <<Service("ftp", "true", ""), Service("www", "", "0.0.0.0/0"),
              Service("ssh", "no", "")>>,
            <<Service("winbox", "no", "10.0.0.0/8"), Service("telnet", "yes", "")>>}
      [] m = "filter" ->
           {<<>>,
            <<Rule("input", "no", "accept"), Rule("input", "false", "drop"),
              Rule("forward", "no", "accept")>>,
            <<Rule("input", "no", "accept"), Rule("input", "true", "drop"),
              Rule("forward", "no", "drop")>>}
      [] m = "community" ->
           {<<[name |-> "public", addresses |-> "10.0.0.0/8"],
              [name |-> "monitor", addresses |-> ""]>>,
            <<[name |-> "monitor", addresses |-> "10.0.0.0/8"]>>,
            <<[name |-> "public", addresses |-> ""], [name |-> "7", addresses |-> ""]>>}
      [] m = "dns" -> {<<[remote |-> "true"]>>, <<[remote |-> "no"]>>}
      [] m = "update" ->
           {<<[installed |-> "7.1", latest |-> "7.2"]>>,
            <<[installed |-> "7.1", latest |-> ""]>>}
      [] m = "security-profiles" ->
           {<<[mode |-> "dynamic-keys"], [mode |-> "none"]>>}
      [] m = "wifi security" ->
           {<<[passphrase |-> "", authentication |-> ""],
              [passphrase |-> "", authentication |-> "wpa3-eap"]>>}
      [] m = "user" ->
           {<<[name |-> "a", group |-> "read"], [name |-> "b", group |-> "full"]>>,
            <<[name |-> "7", group |-> "read"]>>,
            <<[name |-> "7", group |-> "full"]>>}
      [] m = "certificate" ->
           {<<Certificate("", <<-1>>), Certificate("", <<31 * Day - 1>>),
              Certificate("", <<31 * Day>>)>>,
            <<Certificate("true", <<>>), Certificate("no", <<0>>),
              Certificate("", <<>>)>>}]

MCGenerations == {Menus \ {"wifi security"},
                  Menus \ {"security-profiles"},
                  Menus \ {"security-profiles", "wifi security", "community"}}

Entry(topics, login) == [topics |-> topics, login |-> login]
Entries == {Entry({"system", "info", "account"}, TRUE),
            Entry({"system", "info"}, TRUE),
            Entry({"system", "error"}, FALSE),
            Entry({"dhcp", "info"}, FALSE)}

MCLogs == {<<>>} \cup [1..2 -> Entries] \cup [1..3 -> Entries]
=============================================================================
