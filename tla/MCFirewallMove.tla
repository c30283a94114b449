---------------------------- MODULE MCFirewallMove ----------------------------
(***************************************************************************)
(* A small instance of FirewallMove: five rules on two chains, two of them *)
(* with the same comment on different chains and two with the same comment *)
(* on one.                                                                 *)
(***************************************************************************)
EXTENDS FirewallMove, TLC

MCRule == {"allow-in", "allow-fwd", "drop-1", "drop-2", "log"}

MCCommentOf == "allow-in" :> "allow" @@ "allow-fwd" :> "allow"
                @@ "drop-1" :> "drop" @@ "drop-2" :> "drop" @@ "log" :> "log"

MCChainOf == [r \in MCRule |-> IF r = "allow-fwd" THEN "forward" ELSE "input"]

MCInitMenus == {
    <<"allow-in", "allow-fwd", "drop-1", "log">>,
    <<"log", "drop-1", "drop-2", "allow-in">> }

To(comment, chain, position) ==
    [comment |-> comment, chain |-> chain, before |-> NotGiven,
     position |-> position, confirm |-> TRUE]
InFrontOf(comment, chain, before) ==
    [comment |-> comment, chain |-> chain, before |-> before,
     position |-> NoPosition, confirm |-> TRUE]

MCRequests == {
    To("log", NotGiven, 0), To("log", NotGiven, 1), To("log", NotGiven, 9),
    To("allow", "forward", 2), To("allow", NotGiven, 2),
    To("drop", "input", 0),
    InFrontOf("log", NotGiven, "drop"), InFrontOf("drop", "input", "allow"),
    InFrontOf("allow", "input", "log"), InFrontOf("log", NotGiven, "allow"),
    [To("log", NotGiven, 1) EXCEPT !.confirm = FALSE] }
=============================================================================
