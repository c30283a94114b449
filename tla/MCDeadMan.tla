------------------------------ MODULE MCDeadMan ------------------------------
(***************************************************************************)
(* Small instances of DeadMan.  One wireless interface; two or three       *)
(* frequencies outside and inside the DFS ranges, two widths, two powers,  *)
(* three distances.                                                        *)
(***************************************************************************)
EXTENDS DeadMan, TLC

MCValue == {"5180", "5300", "5620", "20mhz", "40mhz", "regulatory-domain",
            "superchannel", "17", "30", "default", "all-rates-fixed",
            "dynamic", "1", "9", "none", "client-mode"}

MCMhz == "5180" :> 5180 @@ "5300" :> 5300 @@ "5620" :> 5620

MCKilometres == {"1", "9"}

\* A row from the fields it has.
Fields(p) == [f \in Field |-> IF f \in DOMAIN p THEN p[f] ELSE Absent]

FullRow(mode) == Fields(
    "frequency" :> "5180" @@ "channel-width" :> "20mhz"
        @@ "frequency-mode" :> mode @@ "tx-power" :> "30"
        @@ "tx-power-mode" :> "default" @@ "distance" :> "dynamic"
        @@ "adaptive-noise-immunity" :> "none")

MCInitRows == {FullRow("regulatory-domain"), FullRow("superchannel")}

\* A row that shows no channel-width: what the device does not report cannot
\* be restored.
PartialInitRows ==
    {FullRow("regulatory-domain"),
     Without(FullRow("regulatory-domain"), {"channel-width"})}

RegulatoryOnly == {FullRow("regulatory-domain")}

\* The far end is too far for 40 MHz on 5620, for a 1 km acknowledgement
\* timeout, and for the low power on 5180.
MCLinkUp(r) ==
    /\ ~(r["frequency"] = "5620" /\ r["channel-width"] = "40mhz")
    /\ r["distance"] # "1"
    /\ ~(r["tx-power"] = "17" /\ r["frequency"] = "5180")

Channel(f, minutes, arm, confirm) ==
    [tool |-> "set_wireless_channel", fields |-> Fields("frequency" :> f),
     arm |-> arm, minutes |-> minutes, confirm |-> confirm]
ChannelAndWidth(f, w, minutes) ==
    [tool |-> "set_wireless_channel",
     fields |-> Fields("frequency" :> f @@ "channel-width" :> w),
     arm |-> TRUE, minutes |-> minutes, confirm |-> TRUE]
TxPower(p, minutes) ==
    [tool |-> "set_wireless_tx_power",
     fields |-> Fields("tx-power" :> p @@ "tx-power-mode" :> "all-rates-fixed"),
     arm |-> TRUE, minutes |-> minutes, confirm |-> TRUE]
Tuning(fields, minutes) ==
    [tool |-> "set_wireless_tuning", fields |-> Fields(fields),
     arm |-> TRUE, minutes |-> minutes, confirm |-> TRUE]
Arm(fields, minutes, confirm) ==
    [tool |-> "arm_dead_man", fields |-> Fields(fields),
     arm |-> TRUE, minutes |-> minutes, confirm |-> confirm]

\* Any use of the tools: windows too short for the target's check, opted-out
\* changes, previews, a caller's own revert commands.
AnyRequests == {
    Channel("5300", 1, FALSE, TRUE),
    ChannelAndWidth("5620", "40mhz", 2),
    ChannelAndWidth("5300", "40mhz", 2),
    Tuning("distance" :> "1" @@ "adaptive-noise-immunity" :> "client-mode", 1),
    Arm("frequency" :> "5180", 1, TRUE),
    Arm("frequency" :> "5180", 1, FALSE) }

AnyEdits == {Fields("frequency" :> "5180")}

NoEdits == {}

\* A window exactly as long as the check of 5300 MHz.
TiedRequests == {Channel("5300", 1, TRUE, FALSE), Channel("5300", 1, TRUE, TRUE)}

\* One change, good and with a window twice its check, that the operator may
\* make again.
RetriedRequests == {Channel("5300", 2, TRUE, FALSE), Channel("5300", 2, TRUE, TRUE)}

NameSymmetry == Permutations(Name)
=============================================================================
