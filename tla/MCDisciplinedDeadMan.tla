-------------------------- MODULE MCDisciplinedDeadMan --------------------------
(***************************************************************************)
(* The disciplined use of one interface: every change that could cut the   *)
(* link is protected, by a window longer than its channel check (three     *)
(* minutes on 5620 MHz are too few, and refused).                          *)
(***************************************************************************)
EXTENDS MCDeadMan, DisciplinedDeadMan

SafeRequests == {
    Channel("5300", 2, TRUE, TRUE),
    Channel("5620", 11, TRUE, TRUE),
    Channel("5180", 1, TRUE, TRUE),
    Channel("5300", 2, TRUE, FALSE),
    Channel("5620", 3, TRUE, TRUE),
    ChannelAndWidth("5300", "40mhz", 2),
    ChannelAndWidth("5620", "40mhz", 11),
    TxPower("17", 1),
    Tuning("distance" :> "9" @@ "adaptive-noise-immunity" :> "client-mode", 1),
    Tuning("distance" :> "1", 1),
    Tuning("distance" :> "dynamic", 1) }

MCSettings == {
    Override(r, Fields("frequency" :> f @@ "channel-width" :> w @@ "tx-power" :> p[1]
                  @@ "tx-power-mode" :> p[2] @@ "distance" :> d
                  @@ "adaptive-noise-immunity" :> a)) :
        r \in MCInitRows,
        f \in {"5180", "5300", "5620"},
        w \in {"20mhz", "40mhz"},
        p \in {<<"30", "default">>, <<"17", "all-rates-fixed">>},
        d \in {"dynamic", "9", "1"},
        a \in {"none", "client-mode"} }
=============================================================================
