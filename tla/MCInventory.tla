---------------------------- MODULE MCInventory ----------------------------
EXTENDS Inventory, TLC

CONSTANT m1

O(ip, mac, kind, name, ports) == [ip |-> ip, mac |-> mac, kind |-> kind, name |-> name, ports |-> ports]

MCInScope == [s \in Scopes |-> IF s = "lan" THEN {1, 2} ELSE {3}]
MCObservations ==
    {O(1, m1, "pc", "", {80}), O(1, NoMac, "pc", "", {80}),
     O(2, NoMac, "cam", "b", {}), O(3, m1, "pc", "", {})}
MCPrints == {[ip |-> 1, port |-> 443, tcp |-> TRUE, version |-> 1]}
MCLinkFiles == {{[src |-> {<<"ip", 1>>}, dst |-> {<<"ip", 2>>}, strong |-> TRUE]}}

Old(x, mac, first, online) ==
    [scope |-> "lan", ip |-> 1, mac |-> mac, kind |-> "pc", name |-> "n", ports |-> {}, prints |-> {},
     first |-> first, last |-> 2, change |-> 2, online |-> online]

\* Before identities were reconciled, a scan that learned the MAC of a host added an asset
\* and put the one known by its address offline.
MCLegacy ==
    {[assets |-> <<"ip", 1>> :> Old(1, NoMac, 1, FALSE) @@ <<"mac", m1>> :> Old(1, m1, 2, TRUE),
      events |-> {Event(<<"ip", 1>>, "lan", 1, "new_device"), Event(<<"mac", m1>>, "lan", 2, "new_device"),
                  Event(<<"ip", 1>>, "lan", 2, "device_disappeared")},
      links |-> {Link("lan", Lan, <<"ip", 1>>, "lan", "UNKNOWN"), Link("lan", Lan, <<"mac", m1>>, "lan", "CONFIRMED")}]}
=============================================================================
