--------------------------- MODULE MCToolWindows ---------------------------
(* The instances of the windows for TLC. *)
EXTENDS ToolWindows, Integers, Sequences, TLC

-----------------------------------------------------------------------------
(* The cleaner. *)

Home == <<"C:", "u">>
Local == <<"C:", "u", "Local">>
Temp == <<"C:", "u", "Local", "Temp">>
Real == {Home, Local, Temp, <<"C:", "Windows">>, <<"C:", "Windows", "Temp">>, Local \o <<"Chrome">>,
         <<"C:", "u", "cache">>, <<"C:", "u", "cache", "Chrome">>, Local \o <<"Firefox", "p", "cache2">>, <<"C:", "u", "docs">>,
         <<"D:">>}
MCMachines ==
    {[windows |-> w, home |-> Home, local |-> l, root |-> IF w THEN <<"C:", "Windows">> ELSE None, temp |-> t, tmp |-> u,
      real |-> Real, through |-> {<<"C:", "u", "Junction">>}] :
        w \in BOOLEAN, l \in {None, Local, Home}, t \in {None, Temp, Home, Local, <<"D:">>},
        u \in {Temp, <<"C:", "u", "Junction">>, <<"C:", "u", "docs">>}}

Node(in, name, kind, to, locked, kept) == [in |-> in, name |-> name, kind |-> kind, to |-> to, locked |-> locked, kept |-> kept]
MCDisks ==
    {0 :> Node(None, "", "dir", None, FALSE, TRUE)
     @@ 1 :> Node(0, "temp", "dir", None, FALSE, FALSE)
     @@ 2 :> Node(1, "f", "file", None, locked, FALSE)
     @@ 3 :> Node(1, "d", "dir", None, closed, FALSE)
     @@ 4 :> Node(3, "f", "file", None, FALSE, FALSE)
     @@ 5 :> Node(0, "docs", "dir", None, FALSE, TRUE)
     @@ 6 :> Node(5, "f", "file", None, FALSE, TRUE)
     @@ 10 :> Node(5, "d", "dir", None, FALSE, TRUE)
     @@ 11 :> Node(10, "g", "file", None, FALSE, TRUE)
     @@ 7 :> Node(3, "l", "link", 5, FALSE, FALSE)
     @@ 8 :> Node(None, "s", "link", 5, FALSE, FALSE)
     @@ 9 :> Node(None, "n", "file", None, FALSE, FALSE) : locked, closed \in BOOLEAN}

-----------------------------------------------------------------------------
(* The event viewer. *)

MCEvents ==
    {[id |-> 1, log |-> "System", level |-> 1, kind |-> "other", at |-> 3],
     [id |-> 2, log |-> "System", level |-> 3, kind |-> "disk", at |-> 1],
     [id |-> 3, log |-> "System", level |-> 2, kind |-> "other", at |-> 1],
     [id |-> 4, log |-> "Application", level |-> 3, kind |-> "other", at |-> 0],
     [id |-> 5, log |-> "Application", level |-> 4, kind |-> "other", at |-> 0],
     [id |-> 6, log |-> "Application", level |-> 2, kind |-> "service", at |-> 2]}

-----------------------------------------------------------------------------
(* The network monitor. *)

MCConnections ==
    {[key |-> "a", process |-> "p", listens |-> 80, remote |-> None, public |-> FALSE, common |-> FALSE, asset |-> None],
     [key |-> "b", process |-> "p", listens |-> 0, remote |-> "x", public |-> TRUE, common |-> FALSE, asset |-> None],
     [key |-> "c", process |-> "q", listens |-> 0, remote |-> "y", public |-> FALSE, common |-> TRUE, asset |-> "n"]}

-----------------------------------------------------------------------------
(* The network explorer. *)

MCItems == [hosts |-> 1, ports |-> 3]
MCTargets == [hosts |-> {"net"}, ports |-> {"a", "b"}]
MCHits == [net |-> {1}, a |-> {1, 3}, b |-> {}]
MCCameras == {[ip |-> 1, byMac |-> TRUE, same |-> TRUE], [ip |-> 1, byMac |-> TRUE, same |-> FALSE]}

-----------------------------------------------------------------------------
(* The archive tools. *)

ZipFile(key, declared, packed, actual) ==
    [key |-> key, safe |-> TRUE, kind |-> "file", declared |-> declared, packed |-> packed, actual |-> actual]
Zip(members) == [size |-> Len(members), members |-> members]
MCArchives ==
    {Zip(<<ZipFile("a", 2, 1, 2), [ZipFile("b", 0, 0, 0) EXCEPT !.kind = "dir"], ZipFile("c", 1, None, 1)>>),
     Zip(<<ZipFile("a", 1, 1, 2)>>), Zip(<<ZipFile("a", 2, 1, 1)>>),        \* more, and less, than it declares
     Zip(<<ZipFile("a", 1, 1, 1), ZipFile("a", 1, 1, 1)>>),                 \* the same name twice
     Zip(<<[ZipFile("a", 1, 1, 1) EXCEPT !.kind = "link"]>>), Zip(<<[ZipFile("a", 1, 1, 1) EXCEPT !.safe = FALSE]>>),
     Zip(<<ZipFile("a", 2, 0, 2)>>), Zip(<<ZipFile("a", 2, 1, 2), ZipFile("b", 2, 1, 2)>>),
     Zip(<<ZipFile("a", 0, 0, 0)>>), Zip(<<>>)}
MCSources == <<1, 0, 2>>

-----------------------------------------------------------------------------
(* The analysis.  A risk is 0, 1 or 2; 0 and 1000 are the synthetic nodes. *)

MCHosts ==
    {h \in [ports : SUBSET {53, 80, 445, 554, 9100, 5000}, name : {"", "camera", "printer", "nas", "router"},
            owners : SUBSET {"camera", "nas"}, global : BOOLEAN, onvif : BOOLEAN, probed : {None, 0, 2}, gatewayIp : BOOLEAN] :
        /\ h.global \/ h.owners = {"nas"}
        /\ h.onvif => h.probed # None
        /\ h.probed # None => h.onvif \/ 554 \in h.ports}

Asset(id, kind, risk, up, findings) ==
    [id |-> id, kind |-> kind, risk |-> risk, online |-> up, http |-> risk = 2, rtsp |-> TRUE,
     new |-> TRUE, findings |-> findings]
Linked(src, dst, kind, confidence) == [src |-> src, dst |-> dst, kind |-> kind, by |-> None, confidence |-> confidence]
Through(ends, link) == [link EXCEPT !.by = ends]

MCInventories ==
    {[assets |-> {Asset(1, k, r, u, <<>>), Asset(2, l, s, v, f)}, links |-> links] :
        k \in {"router", "camera"}, l \in {"nas", "unknown"}, r, s \in {0, 2}, u, v \in BOOLEAN,
        f \in {<<>>, <<"critical", "high", "low">>},
        links \in SUBSET {Linked(0, 1, "gateway", "CONFIRMED"), Linked(1, 2, "physical", "CONFIRMED"),
                          Through("lldp", Linked(1, 2, "physical", "INFERRED")),
                          Linked(2, 1, "physical", "INFERRED"), Linked(1000, 3, "lan", "CONFIRMED")}}

Entry(id, state, ports, confidence) ==
    [id |-> id, inScope |-> id # 9, state |-> state, ports |-> ports, services |-> {}, confidence |-> confidence]
ReportEntries == {Entry(1, "up", {80}, 5), Entry(1, "up", {22, 80}, None), Entry(1, "down", {80}, 6),
            Entry(2, "up", {}, 5), Entry(9, "up", {}, 5)}
File(path, when, scope, score, entries, links, findings) ==
    [path |-> path, readable |-> TRUE,
     report |-> [schema |-> 2, scope |-> scope, at |-> when, score |-> score, assets |-> entries,
                 links |-> links, findings |-> findings]]
Physical(confidence) == [Linked(1, 2, "physical", confidence) EXCEPT !.kind = "physical"] @@ [evidence |-> {}]
MCReports ==
    {File("a", 1, "lan", 50, entries, links, findings) :
        entries \in UNION {[1..n -> ReportEntries] : n \in 0..2},
        links \in {<<>>, <<Physical("CONFIRMED")>>, <<Physical("INFERRED")>>,
                  <<Physical("CONFIRMED"), Through("lldp", Physical("CONFIRMED"))>>}, findings \in {{}, {"f"}}}
    \cup {File("a", 1, "lab", 50, <<>>, <<>>, {}), File("a", 1, "lan", 101, <<>>, <<>>, {})}

MCSelections ==
    UNION {[1..n -> {File("a", 1, "lan", 50, <<>>, <<>>, {"f"}), File("b", 2, "lan", 70, <<>>, <<>>, {}),
                     File("c", 3, "lan", 40, <<>>, <<>>, {"f", "g"}), File("d", 3, "lan", 30, <<>>, <<>>, {}),
                     File("e", 4, "lab", 30, <<>>, <<>>, {})}] : n \in 1..4}
=============================================================================
