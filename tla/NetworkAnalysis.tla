-------------------------- MODULE NetworkAnalysis --------------------------
(***************************************************************************)
(* What Network Intelligence derives from the inventory: the classification *)
(* of a device, the security score, the drawn topology, the report, the     *)
(* comparison of two reports and the history of the score.                  *)
(*                                                                          *)
(* Each is a function.  The module asks one question at a time: question is *)
(* the input, answer what the function of the code returns, and the         *)
(* properties compare the answer with what it promises.  An error that the  *)
(* code raises is the answer Error.                                         *)
(***************************************************************************)
EXTENDS Integers, FiniteSets, Sequences, FiniteSetsExt, SequencesExt, Ranking

CONSTANTS
    Hosts,        \* what a scan may learn of a host
    Inventories,  \* [assets, links] of a scope, an asset as in Asset below
    Reports,      \* snapshot files: what validate_network_report may be given
    Selections,   \* sequences of snapshot files chosen for the history
    None, Error

VARIABLES question, answer

vars == <<question, answer>>

When(condition, x) == IF condition THEN {x} ELSE {}

Low == 0
Medium == 1
High == 2
Internet == 0  \* the synthetic nodes; an asset is a number between them
Lan == 1000

-----------------------------------------------------------------------------
(* The kind of a device and how sure it is (service.py, classification.py).     *)
(* A host is [ports, name, owners, global, onvif, probed, gatewayIp]: name is the *)
(* kind the host name hints at, owners those of the owners of its MAC prefix,    *)
(* global is whether the MAC is globally administered, probed is the risk the    *)
(* camera probe reports, None when the host was not probed as a camera.          *)

\* The vendor hint: a prefix with several owners, or a randomized MAC, hints at nothing.
lookup_mac_vendor(h) == IF h.global THEN h.owners ELSE {}
Vendor(h, kind) == lookup_mac_vendor(h) = {kind}

gateway_signature(h) == h.gatewayIp /\ 53 \in h.ports /\ h.ports \cap {80, 443} # {}

Kind(h) ==
    LET camera == h.probed # None \/ 554 \in h.ports \/ h.name = "camera" \/ Vendor(h, "camera")
        printer == h.ports \cap {515, 631, 9100} # {} \/ h.name = "printer"
        nas == h.ports \cap {2049, 5000, 5001} # {} \/ h.name = "nas" \/ Vendor(h, "nas")
        router == h.name = "router" \/ gateway_signature(h)
        pc == h.ports \cap {22, 3389, 445} # {}
    IN  IF camera THEN "camera" ELSE IF printer THEN "printer" ELSE IF nas THEN "nas"
        ELSE IF router THEN "router" ELSE IF pc THEN "pc" ELSE "unknown"

Cleartext == [camera |-> {554}, printer |-> {515, 9100}, nas |-> {5000, 2049},
              router |-> {80}, pc |-> {}, unknown |-> {}]

Risk(h) == IF h.probed # None THEN h.probed
           ELSE IF h.ports \cap Cleartext[Kind(h)] # {} THEN Medium ELSE Low

\* The weights of the signals that were observed, in sum, for each role.
Signals(h) ==
    LET Port(p, w) == IF p \in h.ports THEN w ELSE 0
        Name(kind, w) == IF h.name = kind THEN w ELSE 0
        Owner(kind, w) == IF Vendor(h, kind) THEN w ELSE 0
    IN  [camera |-> (IF h.onvif THEN 45 ELSE 0) + Port(554, 30) + Owner("camera", 25) + Name("camera", 15),
         printer |-> Port(9100, 45) + Port(631, 35) + Port(515, 30) + Name("printer", 25),
         nas |-> Port(2049, 40) + (IF h.ports \cap {5000, 5001} # {} THEN 35 ELSE 0) + Owner("nas", 40) + Name("nas", 25),
         router |-> (IF gateway_signature(h) THEN 65 ELSE 0) + Name("router", 35),
         pc |-> Port(3389, 50) + Port(22, 30) + Port(445, 30),
         unknown |-> 0]

score_device_classification(kind, h) == Min({100, Signals(h)[kind]})

classification_confidence_level(score) ==
    CASE score >= 70 -> High [] score >= 40 /\ score < 70 -> Medium [] OTHER -> Low

classify_device(h) ==
    [kind |-> Kind(h), risk |-> Risk(h), confidence |-> score_device_classification(Kind(h), h)]

-----------------------------------------------------------------------------
(* The security score (score.py).  An asset is [id, kind, risk, online, http,   *)
(* rtsp, new, findings]: findings are the severities its fingerprints found.    *)

\* The sum of the weights w, counted point by point.
Sum(w) == Cardinality(UNION {{x} \X (1..w[x]) : x \in DOMAIN w})
online(assets) == {a \in assets : a.online}

Weighted(risk, high, medium) == IF risk = High THEN high ELSE IF risk = Medium THEN medium ELSE 0
\* What the risks of assets deduct.
Risks(assets, high, medium) == Sum([a \in assets |-> Weighted(a.risk, high, medium)])

confirmed_gateways(assets, links) ==
    {a \in online(assets) : \E l \in links : l.kind = "gateway" /\ l.confidence = "CONFIRMED" /\ l.dst = a.id}

_contextual_deductions(assets, links) ==
    LET up == online(assets)
        gateways == confirmed_gateways(assets, links)
        infrastructure == {a \in up : a.kind = "router"} \cup gateways
        linked == {a \in up : \E l \in links, i \in infrastructure \ {a} :
                      l.kind = "physical" /\ l.confidence = "CONFIRMED" /\ {l.src, l.dst} = {i.id, a.id}}
    IN  Risks({a \in up : a.kind = "router"}, 4, 2) + Risks({a \in up : a.kind = "nas"}, 3, 1)
        + Risks(gateways, 4, 2) + Risks(linked, 2, 1)

_service_security_deductions(assets) ==
    LET Deduction == [critical |-> 12, high |-> 8, medium |-> 4, low |-> 1, info |-> 0, unknown |-> 0]
        Bounded(a) == Min({20, Sum([i \in DOMAIN a.findings |-> Deduction[a.findings[i]]])})
    IN  Sum([a \in online(assets) |-> Bounded(a)])

\* Mutant: the context is looked for among all the assets, historical ones included.
calculate_security_score_Historical(assets, links) ==
    LET all == {[a EXCEPT !.online = TRUE] : a \in assets}
        deductions == Risks(online(assets), 15, 6)
                      + _service_security_deductions(assets) + _contextual_deductions(all, links)
    IN  Max({0, 100 - deductions})

calculate_security_score(assets, links) ==
    LET up == online(assets)
        unknown == {a \in up : a.kind = "unknown"}
        deductions == Risks(up, 15, 6)
                      + 4 * Cardinality(unknown)
                      + 4 * Cardinality({a \in up : a.kind = "camera" /\ a.rtsp})
                      + 2 * Cardinality({a \in up : a.http})
                      + 3 * Cardinality({a \in unknown : a.new})
                      + _service_security_deductions(assets) + _contextual_deductions(assets, links)
    IN  Max({0, 100 - deductions})

\* What a device audit finds (auditors.py): the severities, and the highest of them.
_findings(kind, ports, http, rtsp) ==
    LET remote == Cardinality(ports \cap {22, 3389, 445})
        Of == [router |-> When(53 \in ports, Low) \cup When(22 \in ports, Medium),
               nas |-> When(2049 \in ports, Medium) \cup When(445 \in ports, Low)
                       \cup When(5000 \in ports /\ 5001 \notin ports, Medium),
               printer |-> When(ports \cap {9100, 515} # {}, Medium),
               pc |-> When(remote >= 2, Medium) \cup When(remote = 1, Low),
               camera |-> When(554 \in ports \/ rtsp, Medium) \cup {Low},
               unknown |-> {}]
    IN  When(http, Medium) \cup When(kind = "unknown", Medium) \cup Of[kind]

build_device_audit(kind, ports) == Max({Low} \cup _findings(kind, ports, 80 \in ports, 554 \in ports))

-----------------------------------------------------------------------------
(* The topology that is drawn (topology.py).                                *)

\* by is the protocol with the ports at its ends; a relationship that is only suggested has none.
Edge(src, dst, kind, confidence) == [src |-> src, dst |-> dst, kind |-> kind, by |-> None, confidence |-> confidence]

\* Without a stored relationship the inventory alone suggests some; id stands for the address.
_fallback_relationships(assets) ==
    LET routers == {a \in online(assets) : a.kind = "router"}
        primary == {a \in routers : \A b \in routers : a.id <= b.id}
    IN  (IF primary # {} THEN UNION {{Edge(Internet, a.id, "gateway", "INFERRED"), Edge(a.id, Lan, "lan", "INFERRED")} : a \in primary}
         ELSE IF assets # {} THEN {Edge(Internet, Lan, "gateway", "UNKNOWN")} ELSE {})
        \cup {Edge(Lan, a.id, "scope", IF a.online THEN "INFERRED" ELSE "UNKNOWN") : a \in assets \ primary}

build_logical_topology(assets, links) ==
    LET active == IF links # {} THEN links ELSE _fallback_relationships(assets)
        nodes == {a.id : a \in assets} \cup {Internet, Lan}
        gateways == {l.dst : l \in {k \in active : k.kind = "gateway" /\ k.confidence \in {"CONFIRMED", "INFERRED"}}}
                    \cap {a.id : a \in assets}
    IN  [nodes |-> nodes,
         edges |-> {l \in active : {l.src, l.dst} \subseteq nodes},
         gateway |-> IF gateways = {} THEN Lan ELSE CHOOSE g \in gateways : TRUE,
         physical |-> \E l \in active : l.kind = "physical" /\ l.confidence = "CONFIRMED"]

-----------------------------------------------------------------------------
(* Snapshot files (comparison.py).  A report is [schema, scope, at, assets,      *)
(* links, score, findings]; its assets and links are sequences, for a file may   *)
(* hold an identity twice.  Asset fields: id, inScope, fields, ports, services,  *)
(* confidence (None in the first schema).                                       *)

_relationship_key(l) == <<l.kind, l.src, l.dst, l.by>>

Ports == 1..65535

validate_network_report(r) ==
    /\ r.schema \in {1, 2} /\ r.at \in Int
    /\ IsInjective([i \in DOMAIN r.assets |-> r.assets[i].id])
    /\ \A i \in DOMAIN r.assets : r.assets[i].inScope /\ r.assets[i].ports \subseteq Ports
    /\ IsInjective([i \in DOMAIN r.links |-> _relationship_key(r.links[i])])
    /\ r.score \in 0..100

Keyed(seq, Key(_)) == [k \in {Key(seq[i]) : i \in DOMAIN seq} |-> CHOOSE x \in ToSet(seq) : Key(x) = k]

\* Mutant: ports that were closed are not told.
_asset_details_Opened(a, b) ==
    When(a.state # b.state, "state") \cup When(b.ports \ a.ports # {}, "opened")
    \cup When(b.services # a.services, "services")

\* The confidence is compared where both schemas have one.
_asset_details(a, b) ==
    When(a.state # b.state, "state")
    \cup When(None \notin {a.confidence, b.confidence} /\ a.confidence # b.confidence, "confidence")
    \cup When(b.ports \ a.ports # {}, "opened") \cup When(a.ports \ b.ports # {}, "closed")
    \cup When(b.services # a.services, "services")

_relationship_details(l, m) == When(l.confidence # m.confidence, "confidence") \cup When(l.evidence # m.evidence, "evidence")

Delta(before, after, Details(_, _)) ==
    LET common == DOMAIN before \cap DOMAIN after
        changed == {k \in common : Details(before[k], after[k]) # {}}
    IN  [added |-> DOMAIN after \ DOMAIN before, removed |-> DOMAIN before \ DOMAIN after,
         changed |-> changed, unchanged |-> common \ changed]

Assets(r) == Keyed(r.assets, LAMBDA a : a.id)
Links(r) == Keyed(r.links, _relationship_key)

\* A file is [path, readable, report]: its suffix, size, encryption and encoding make it readable.
load_network_report(file) ==
    IF file.readable /\ validate_network_report(file.report) THEN file.report ELSE Error

compare_network_reports(b, c) ==
    IF Error \in {b, c} THEN Error ELSE
    IF b.scope # c.scope THEN Error ELSE
    [assets |-> Delta(Assets(b), Assets(c), _asset_details),
     links |-> Delta(Links(b), Links(c), _relationship_details),
     delta |-> c.score - b.score,
     new |-> c.findings \ b.findings, resolved |-> b.findings \ c.findings]

\* The report of an inventory (reporting.py).
build_network_report(assets, links) ==
    [schema |-> 2, scope |-> "lan", at |-> 1, score |-> calculate_security_score(assets, links),
     assets |-> SetToSeq({[id |-> a.id, inScope |-> TRUE, state |-> <<a.kind, a.risk, a.online>>, ports |-> {},
                           services |-> {}, confidence |-> 0] : a \in assets}),
     links |-> SetToSeq({[kind |-> l.kind, src |-> l.src, dst |-> l.dst, by |-> l.by, confidence |-> l.confidence,
                          evidence |-> {}] : l \in links}),
     findings |-> {}]

-----------------------------------------------------------------------------
(* The history of the score (history.py).                                   *)

\* snapshots is a set of files, as of load_score_history, and no two are of the same moment.
build_score_history(snapshots) ==
    LET earlier == {p \in snapshots \X snapshots : p[1].report.at < p[2].report.at}
        sorted == Ranked(snapshots, earlier)
        Before(i) == IF i = 1 THEN sorted[1].report ELSE sorted[i - 1].report
    IN  IF \E f, g \in snapshots : (f # g /\ f.report.at = g.report.at) \/ f.report.scope # g.report.scope
        THEN Error
        ELSE [i \in 1..Cardinality(snapshots) |->
                 [at |-> sorted[i].report.at, score |-> sorted[i].report.score,
                  delta |-> sorted[i].report.score - Before(i).score,
                  new |-> sorted[i].report.findings \ Before(i).findings,
                  resolved |-> Before(i).findings \ sorted[i].report.findings]]

\* A file that was chosen twice counts once: its path names it.
load_score_history(files) ==
    LET unique == ToSet(files)
    IN  IF Cardinality(unique) < 2 \/ \E f \in unique : load_network_report(f) = Error
        THEN Error ELSE build_score_history(unique)

-----------------------------------------------------------------------------
\* What the constants stand for.  A host is probed as a camera when it answered a discovery or has the
\* port of a camera (service.py).  The keys of the database tell its assets and its relationships
\* apart.
HostConstants ==
    \A h \in Hosts :
        /\ h = [ports |-> h.ports, name |-> h.name, owners |-> h.owners, global |-> h.global,
                onvif |-> h.onvif, probed |-> h.probed, gatewayIp |-> h.gatewayIp]
        /\ h.onvif \in BOOLEAN /\ h.probed \in {None, Low, Medium, High}
        /\ h.probed # None => h.onvif \/ 554 \in h.ports

InventoryConstants ==
    \A i \in Inventories :
        /\ IsFiniteSet(i.assets) /\ IsFiniteSet(i.links)
        /\ \A a \in i.assets :
              /\ a = [id |-> a.id, kind |-> a.kind, risk |-> a.risk, online |-> a.online, http |-> a.http,
                      rtsp |-> a.rtsp, new |-> a.new, findings |-> a.findings]
              /\ a.findings \in Seq({"critical", "high", "medium", "low", "info", "unknown"})
        /\ \A a, b \in i.assets : a.id = b.id => a = b
        /\ \A l, m \in i.links : _relationship_key(l) = _relationship_key(m) => l = m
        /\ build_network_report(i.assets, i.links) # Error

FileConstants == \A s \in Selections : s \in Seq(ToSet(s))

AnalysisConstants == HostConstants /\ InventoryConstants /\ FileConstants

Ask(kind, of) == question = [kind |-> kind, of |-> of] /\ answer = None

Init ==
    \/ \E h \in Hosts : Ask("classify", h) \/ Ask("audit", h)
    \/ \E i \in Inventories : Ask("score", i) \/ Ask("topology", i) \/ Ask("report", i)
    \/ \E b, c \in Reports : Ask("compare", <<b, c>>)
    \/ \E s \in Selections : Ask("history", s)

Answer(kind, value(_)) ==
    /\ question.kind = kind /\ answer = None
    /\ answer' = value(question.of)
    /\ UNCHANGED question

Next ==
    \/ Answer("classify", LAMBDA h : classify_device(h))
    \/ Answer("audit", LAMBDA h : build_device_audit(Kind(h), h.ports))
    \/ Answer("score", LAMBDA i : calculate_security_score(i.assets, i.links))
    \/ Answer("topology", LAMBDA i : build_logical_topology(i.assets, i.links))
    \/ Answer("report", LAMBDA i : load_network_report([readable |-> TRUE, report |-> build_network_report(i.assets, i.links)]))
    \/ Answer("compare", LAMBDA p : compare_network_reports(load_network_report(p[1]), load_network_report(p[2])))
    \/ Answer("history", LAMBDA s : load_score_history(s))

Spec == Init /\ [][Next]_vars

-----------------------------------------------------------------------------
(* What the answers promise.                                                *)

Answered(kind) == question.kind = kind /\ answer # None

\* A role is given only on observed evidence, whatever the precedence of the roles, and its
\* confidence is positive.
ClassificationIsSupported ==
    Answered("classify") =>
        LET h == question.of
        IN  /\ (answer.kind = "unknown") <=> (answer.confidence = 0)
            /\ answer.confidence \in 0..100
            /\ \A p \in h.ports : \* one port less never makes the same role surer
                   LET less == classify_device([h EXCEPT !.ports = @ \ {p}])
                   IN  less.kind = answer.kind => less.confidence <= answer.confidence

\* The audit of a device finds every exposure for which its risk was raised, a NAS that also
\* offers TLS apart.
AuditFindsExposure ==
    Answered("audit") =>
        LET h == question.of
        IN  h.probed = None /\ Risk(h) = Medium /\ ~(Kind(h) = "nas" /\ {5000, 5001} \subseteq h.ports)
            => answer >= Medium

\* The score depends on the online assets and the confirmed relationships alone, and an asset
\* that goes offline never lowers it.
ScoreIsJustified ==
    Answered("score") =>
        LET i == question.of
            confirmed == {l \in i.links : l.confidence = "CONFIRMED"}
            without(a) == (i.assets \ {a}) \cup {[a EXCEPT !.online = FALSE]}
        IN  /\ answer = calculate_security_score(online(i.assets), confirmed)
            /\ \A a \in online(i.assets) : calculate_security_score(without(a), i.links) >= answer
            /\ \A l \in i.links : calculate_security_score(i.assets, i.links \ {l}) >= answer

\* Every edge that is drawn joins two drawn nodes, the gateway is one of them, an inventory
\* without relationships claims nothing as confirmed and leaves no asset unconnected.
TopologyIsSound ==
    Answered("topology") =>
        /\ answer.gateway \in answer.nodes
        /\ \A l \in answer.edges : {l.src, l.dst} \subseteq answer.nodes
        /\ question.of.links = {} =>
              /\ \A l \in answer.edges : l.confidence # "CONFIRMED"
              /\ \A a \in question.of.assets : \E l \in answer.edges : a.id \in {l.src, l.dst}

\* The program accepts every report it writes, with the score and assets it was written from.
ReportIsReadable ==
    Answered("report") =>
        /\ answer # Error
        /\ Len(answer.assets) = Cardinality(question.of.assets)

\* Two snapshots are told apart exactly: nothing is both kept and changed, the baseline and
\* the changes give the assets and relationships of the second, and comparing them the
\* other way round tells the opposite.
ComparisonIsExact ==
    Answered("compare") /\ answer # Error =>
        LET b == question.of[1].report
            c == question.of[2].report
            mirror == compare_network_reports(c, b)
            Exact(d, m, before, after) ==
                /\ (DOMAIN before \ d.removed) \cup d.added = DOMAIN after
                /\ d.changed \cap d.unchanged = {}
                /\ d.added = m.removed /\ d.removed = m.added /\ d.changed = m.changed
        IN  /\ Exact(answer.assets, mirror.assets, Assets(b), Assets(c))
            /\ Exact(answer.links, mirror.links, Links(b), Links(c))
            /\ \A k \in answer.assets.unchanged :
                  \A field \in {"state", "ports", "services"} : Assets(b)[k][field] = Assets(c)[k][field]
            /\ (b.findings \ answer.resolved) \cup answer.new = c.findings
            /\ answer.delta = 0 - mirror.delta

\* The points of a history lead from the first snapshot to the last, each to the next, whatever
\* the order in which the files were chosen.
HistoryIsExact ==
    Answered("history") /\ answer # Error =>
        LET reports == {f.report : f \in ToSet(question.of)}
            Of(p) == CHOOSE r \in reports : r.at = p.at
        IN  /\ {p.at : p \in ToSet(answer)} = {r.at : r \in reports}
            /\ \A i \in 1..Len(answer) : answer[i].score = Of(answer[i]).score
            /\ \A i \in 2..Len(answer) :
                  /\ answer[i - 1].at < answer[i].at
                  /\ answer[i - 1].score + answer[i].delta = answer[i].score
                  /\ (Of(answer[i - 1]).findings \ answer[i].resolved) \cup answer[i].new = Of(answer[i]).findings
            /\ load_score_history(Reverse(question.of)) = answer

AnalysisIsSound ==
    ClassificationIsSupported /\ AuditFindsExposure /\ ScoreIsJustified /\ TopologyIsSound

ReportsAreExact ==
    ReportIsReadable /\ ComparisonIsExact /\ HistoryIsExact
=============================================================================
