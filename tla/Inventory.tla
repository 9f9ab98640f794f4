----------------------------- MODULE Inventory -----------------------------
(***************************************************************************)
(* The asset inventory of Network Intelligence: one SQLite database with the     *)
(* assets, their timeline and the relationships, and the window that records      *)
(* scans, fingerprints and imported physical evidence in it.                      *)
(*                                                                         *)
(* db is the database.  Every operation is one transaction, written here as a     *)
(* function from a database to a database; a failed transaction changes nothing.   *)
(* An asset is known by its MAC address, or by its IP while no MAC is known; the   *)
(* second identity is merged into the first when both are seen to be one device.   *)
(* "kind" stands for the classification and the risk, "name" for the host name     *)
(* and the vendor ("" when generic), "prints" for the services that a fingerprint  *)
(* identified.                                                                *)
(***************************************************************************)
EXTENDS Integers, FiniteSets, Ranking

CONSTANTS
    Scopes,        \* networks that are audited
    InScope,       \* the addresses (numbers) of each scope
    Colon,         \* the MACs the operating system prints with colons
    Observations,  \* what a host may look like: [ip, mac, kind, name, ports]
    Prints,        \* fingerprints: [ip, port, tcp, version]
    LinkFiles,     \* snapshots an administrator may import: sets of [src, dst, strong]
    Legacy,        \* databases left by older versions
    MaxTime,       \* transactions that are given a time
    NoMac, NoScan, NoTime

VARIABLES
    db,    \* [assets, events, links]
    now,
    scan,  \* NoScan, or [scope, found, todo]: the scan of the window
    picked, \* assets listed for fingerprinting and not yet probed: a set of [id, scope, ip]
    held,  \* assets read and not yet written with their fingerprints: a set of [by, id, row, prints, at]
    timely \* history: no fingerprints were written with a time that other entries had already passed

vars == <<db, now, scan, picked, held, timely>>

ASSUME InventoryAssumption ==
    /\ InScope \in [Scopes -> SUBSET Nat]
    /\ \A s \in Scopes : IsFiniteSet(InScope[s])
    /\ \A file \in LinkFiles : IsFiniteSet(file)
    /\ NoMac \notin Colon
    /\ MaxTime \in Nat /\ NoTime \notin Nat

Internet == <<"synthetic", 0>>
Lan == <<"synthetic", 1>>
Empty == [assets |-> <<>>, events |-> {}, links |-> {}]

-----------------------------------------------------------------------------
(* Identity. *)

_normalize_mac(mac) == IF mac \in Colon THEN mac ELSE NoMac

asset_identity(o) == IF _normalize_mac(o.mac) # NoMac THEN <<"mac", o.mac>> ELSE <<"ip", o.ip>>

Event(id, s, at, type) == [asset |-> id, scope |-> s, at |-> at, type |-> type]

With(f, id, row) == [x \in DOMAIN f \cup {id} |-> IF x = id THEN row ELSE f[x]]
Without(f, id) == [x \in DOMAIN f \ {id} |-> f[x]]
Substitute(id, old, new) == IF id = old THEN new ELSE id
Least(a, b) == IF a <= b THEN a ELSE b
Greatest(a, b) == IF a >= b THEN a ELSE b

Moved(l, old, new) == [l EXCEPT !.src = Substitute(@, old, new), !.dst = Substitute(@, old, new)]
SameKey(l, m) == l.scope = m.scope /\ l.src = m.src /\ l.dst = m.dst /\ l.kind = m.kind

\* Mutant: an edge whose place is taken is left at the obsolete identity.
_repoint_relationships_Leaves(links, s, old, new) ==
    LET touched == {l \in links : l.scope = s /\ old \in {l.src, l.dst}}
        kept == links \ touched
    IN  {l \in kept : ~(l.scope = s /\ l.src = new /\ l.dst = new)}
        \cup {IF \E m \in kept : SameKey(m, Moved(l, old, new)) THEN l ELSE Moved(l, old, new) : l \in touched}

\* The edges of old become edges of new, unless new has the same edge already; an
\* edge between the two disappears.
_repoint_relationships(links, s, old, new) ==
    LET touched == {l \in links : l.scope = s /\ old \in {l.src, l.dst}}
        kept == links \ touched
        moved == {Moved(l, old, new) : l \in touched}
    IN  {l \in kept \cup {m \in moved : \A k \in kept : ~SameKey(k, m)} :
            ~(l.scope = s /\ l.src = new /\ l.dst = new)}

\* The later of two first sightings of one device was not a new device.
_deduplicate_new_device_event(events, fallback, canonical, old, id) ==
    IF fallback.scope # canonical.scope
    THEN events
    ELSE LET later == IF fallback.first <= canonical.first
                      THEN Event(id, fallback.scope, canonical.first, "new_device")
                      ELSE Event(old, fallback.scope, fallback.first, "new_device")
         IN  events \ {later}

\* Mutant: the merged asset keeps the first sighting of the stronger identity.
_merge_identity_Forgets(d, old, id, at, removeFalse) ==
    LET fallback == d.assets[old]
        s == fallback.scope
        known == id \in DOMAIN d.assets
        merged == IF known
                  THEN [d.assets[id] EXCEPT !.change = at, !.online = @ \/ fallback.online]
                  ELSE [fallback EXCEPT !.mac = id[2], !.change = at]
    IN  [assets |-> With(Without(d.assets, old), id, merged),
         events |-> {[e EXCEPT !.asset = IF e.scope = s THEN Substitute(@, old, id) ELSE @] : e \in d.events}
                    \cup {Event(id, s, at, "reconciled")},
         links |-> _repoint_relationships(d.links, s, old, id)]

_merge_identity(d, old, id, at, removeFalse) ==
    LET fallback == d.assets[old]
        s == fallback.scope
        known == id \in DOMAIN d.assets
        merged == IF known
                  THEN [d.assets[id] EXCEPT !.first = Least(@, fallback.first),
                                            !.last = Greatest(@, fallback.last),
                                            !.change = at, !.online = @ \/ fallback.online]
                  ELSE [fallback EXCEPT !.mac = id[2], !.change = at]
        deduplicated ==
            IF ~known THEN d.events
            ELSE _deduplicate_new_device_event(d.events, fallback, d.assets[id], old, id)
                 \ (IF removeFalse THEN {Event(old, s, fallback.change, "device_disappeared")} ELSE {})
    IN  [assets |-> With(Without(d.assets, old), id, merged),
         events |-> {[e EXCEPT !.asset = IF e.scope = s THEN Substitute(@, old, id) ELSE @] : e \in deduplicated}
                    \cup {Event(id, s, at, "reconciled")},
         links |-> _repoint_relationships(d.links, s, old, id)]

_profile_corrobates_identity(a, b) ==
    /\ a.kind = b.kind
    /\ \/ a.name = b.name /\ a.name # ""
       \/ a.ports = b.ports /\ a.ports # {}

\* The traces of an older version: the fallback went offline in the scan that first saw the MAC.
_legacy_fingerprint_matches(fallback, canonical) ==
    /\ ~fallback.online
    /\ fallback.scope = canonical.scope /\ fallback.ip = canonical.ip
    /\ fallback.first < canonical.first /\ fallback.change = canonical.first
    /\ _profile_corrobates_identity(fallback, canonical)

reconcile_observation_identity(d, s, ip, id, at) ==
    LET old == <<"ip", ip>>
        repair == id \in DOMAIN d.assets /\ _legacy_fingerprint_matches(d.assets[old], d.assets[id])
    IN  IF id[1] = "mac" /\ old \in DOMAIN d.assets /\ d.assets[old].scope = s
           /\ (d.assets[old].online \/ repair)
        THEN _merge_identity(d, old, id, at, repair)
        ELSE d

Fallbacks(d) == {x \in DOMAIN d.assets : x[1] = "ip" /\ ~d.assets[x].online}

\* The row of the fallback old, as the query listed it, is merged into the one that matches it in d.
Repaired(d, old, row, at) ==
    LET matches == {x \in DOMAIN d.assets : x[1] = "mac" /\ _legacy_fingerprint_matches(row, d.assets[x])}
    IN  IF Cardinality(matches) = 1
        THEN _merge_identity(d, old, CHOOSE x \in matches : TRUE, at, TRUE)
        ELSE d

\* The fallbacks as the query lists them, from the first seen to the last.
BySighting(d) ==
    Ranked(Fallbacks(d), {p \in Fallbacks(d) \X Fallbacks(d) :
        \/ d.assets[p[1]].first < d.assets[p[2]].first
        \/ d.assets[p[1]].first = d.assets[p[2]].first /\ p[1][2] < p[2][2]})

\* On opening the store: the duplicates of older versions.
repair_legacy_identity_duplicates(d, at) ==
    LET after[n \in 0..Cardinality(Fallbacks(d))] ==
            IF n = 0 THEN d
            ELSE Repaired(after[n - 1], BySighting(d)[n], d.assets[BySighting(d)[n]], at)
    IN  after[Cardinality(Fallbacks(d))]

-----------------------------------------------------------------------------
(* Recording an observation. *)

Changes(row, o, ports) ==
    {t \in {"device_returned", "ip_changed", "type_changed", "port_opened", "port_closed"} :
        CASE t = "device_returned" -> ~row.online
          [] t = "ip_changed" -> row.ip # o.ip
          [] t = "type_changed" -> row.kind # o.kind
          [] t = "port_opened" -> ~(ports \subseteq row.ports)
          [] t = "port_closed" -> ~(row.ports \subseteq ports)}

Row(s, o, prints, at) ==
    [scope |-> s, ip |-> o.ip, mac |-> o.mac, kind |-> o.kind, name |-> o.name,
     ports |-> o.ports, prints |-> prints, first |-> at, last |-> at, change |-> at, online |-> TRUE]

\* The transaction of one observation.
_upsert_device(d, s, o, prints, at) ==
    LET id == asset_identity(o)
        r == reconcile_observation_identity(d, s, o.ip, id, at)
        row == r.assets[id]
        types == Changes(row, o, o.ports)
    IN  IF id \notin DOMAIN r.assets
        THEN [r EXCEPT !.assets = With(@, id, Row(s, o, prints, at)),
                       !.events = @ \cup {Event(id, s, at, "new_device")}]
        ELSE [r EXCEPT !.assets[id] = [Row(s, o, prints, at) EXCEPT
                           !.first = row.first, !.change = IF types # {} THEN at ELSE row.change],
                       !.events = @ \cup {Event(id, s, at, t) : t \in types}]

ByAddress(found) == Ranked(found, {p \in found \X found : p[1].ip < p[2].ip})

\* One observation after the other.
Upserted(d, s, found, at) ==
    LET after[n \in 0..Cardinality(found)] ==
            IF n = 0 THEN d ELSE _upsert_device(after[n - 1], s, ByAddress(found)[n], {}, at)
    IN  after[Cardinality(found)]

\* Mutant: the identities of the scan are those the window listed, before the merge.
record_scan_Early(d, s, found, at) ==
    LET seen == {IF <<"ip", o.ip>> \in DOMAIN d.assets THEN <<"ip", o.ip>> ELSE asset_identity(o) : o \in found}
        r == Upserted(d, s, found, at)
        gone == {x \in DOMAIN r.assets : r.assets[x].scope = s /\ r.assets[x].online /\ x \notin seen}
    IN  [r EXCEPT !.assets = [x \in DOMAIN @ |->
                      IF x \in gone THEN [@[x] EXCEPT !.online = FALSE, !.change = at] ELSE @[x]],
                  !.events = @ \cup {Event(x, s, at, "device_disappeared") : x \in gone}]

\* A complete scan: every device, and then the assets of the scope it did not see.
record_scan(d, s, found, at) ==
    LET seen == {asset_identity(o) : o \in found}
        r == Upserted(d, s, found, at)
        gone == {x \in DOMAIN r.assets : r.assets[x].scope = s /\ r.assets[x].online /\ x \notin seen}
    IN  [r EXCEPT !.assets = [x \in DOMAIN @ |->
                      IF x \in gone THEN [@[x] EXCEPT !.online = FALSE, !.change = at] ELSE @[x]],
                  !.events = @ \cup {Event(x, s, at, "device_disappeared") : x \in gone}]

-----------------------------------------------------------------------------
(* Relationships. *)

list_assets(d, s) == {x \in DOMAIN d.assets : d.assets[x].scope = s}

Link(s, src, dst, kind, confidence) ==
    [scope |-> s, src |-> src, dst |-> dst, kind |-> kind, confidence |-> confidence]

\* gateway is the address of the default route, 0 when it is not known.
build_relationships(d, s, gateway) ==
    LET scoped == {x \in list_assets(d, s) : d.assets[x].ip \in InScope[s]}
        gateways == {x \in scoped : d.assets[x].online /\ d.assets[x].ip = gateway}
        Confidence(x) == CASE ~d.assets[x].online -> "UNKNOWN"
                           [] _normalize_mac(d.assets[x].mac) # NoMac -> "CONFIRMED"
                           [] OTHER -> "INFERRED"
        members(others) == {Link(s, Lan, x, "lan", Confidence(x)) : x \in others}
    IN  IF gateways = {}
        THEN {members(scoped) \cup {Link(s, Internet, Lan, "gateway", "UNKNOWN")}}
        ELSE {members(scoped \ {g}) \cup {Link(s, Internet, g, "gateway", "CONFIRMED"),
                                          Link(s, g, Lan, "lan", "CONFIRMED")} : g \in gateways}

Physical(l) == l.kind = "physical"

replace_logical(d, s, links) ==
    [d EXCEPT !.links = {l \in @ : l.scope # s \/ Physical(l)} \cup links]

replace_physical(d, s, links) ==
    [d EXCEPT !.links = {l \in @ : l.scope # s \/ ~Physical(l)} \cup links]

\* The assets that the identifiers of an endpoint (ids, addresses, MACs) stand for.  Of the
\* assets with one address or MAC, the index holds the last that is listed.
_resolve_endpoint(d, s, endpoint) ==
    LET LaterListed(x, y) ==
            LET a == d.assets[x]
                b == d.assets[y]
            IN  (b.online /\ ~a.online) \/ (a.online = b.online /\ a.last <= b.last)
        Alike(i) == {x \in list_assets(d, s) : i = CASE i[1] = "asset_id" -> <<i[1], x>>
                                                   [] i[1] = "ip" -> <<i[1], d.assets[x].ip>>
                                                   [] i[1] = "mac" -> <<i[1], d.assets[x].mac>>}
    IN  {x \in list_assets(d, s) : \A i \in endpoint :
            x \in Alike(i) /\ \A y \in Alike(i) : LaterListed(x, y)}

\* The relationships a link of a snapshot may stand for.
Resolved(d, s, l) ==
    {Link(s, a, b, "physical", IF l.strong THEN "CONFIRMED" ELSE "INFERRED") :
        a \in _resolve_endpoint(d, s, l.src), b \in _resolve_endpoint(d, s, l.dst)}

\* A snapshot is imported when every link of it can be validated.
import_physical_snapshot(d, s, file) ==
    {links \in SUBSET UNION {Resolved(d, s, l) : l \in file} :
        /\ \A l \in file : Cardinality(links \cap Resolved(d, s, l)) = 1
        /\ \A l \in links : l.src # l.dst
        /\ Cardinality({<<l.src, l.dst>> : l \in links}) = Cardinality(file)}

-----------------------------------------------------------------------------
(* Fingerprints. *)

\* The identified services of an asset after new fingerprints: of a TCP port the last one,
\* of the other transports every one.
enrich_asset_with_fingerprints(row, prints) ==
    LET tcp == {p.port : p \in {q \in prints : q.tcp}}
    IN  [ports |-> row.ports \cup tcp,
         prints |-> {p \in row.prints : ~(p.tcp /\ p.port \in tcp)} \cup prints]

\* The asset is read, and there is something to write when its fingerprints bring news.
Reading(by, id, row, prints, at) ==
    LET matching == {p \in prints : p.ip = row.ip}
        rich == enrich_asset_with_fingerprints(row, matching)
    IN  IF rich.ports = row.ports /\ rich.prints = row.prints THEN {}
        ELSE {[by |-> by, id |-> id, row |-> row, prints |-> matching, at |-> at]}

\* A second transaction writes the row that was read, whatever became of the asset since.
persist_asset_fingerprints(d, h, at) ==
    LET row == h.row
        rich == enrich_asset_with_fingerprints(row, h.prints)
        o == [ip |-> row.ip, mac |-> row.mac, kind |-> row.kind, name |-> row.name, ports |-> rich.ports]
        changed == h.prints \ row.prints
        types == {IF p.tcp THEN "service_changed" ELSE "service_observed" : p \in
                     {q \in changed : ~q.tcp \/ q.port \in row.ports}}
        r == _upsert_device(d, row.scope, o, rich.prints, at)
    IN  [r EXCEPT !.events = @ \cup {Event(h.id, row.scope, at, u) : u \in types},
                  !.assets[h.id].change = IF types # {} THEN at ELSE @]

\* The online assets a fingerprinting run probes, with what it has to find again when it applies them.
_selected_assets(d, s, changedSince) ==
    {[id |-> x, scope |-> s, ip |-> d.assets[x].ip] : x \in
        {y \in list_assets(d, s) : /\ d.assets[y].online /\ d.assets[y].ports # {}
                                   /\ d.assets[y].change >= changedSince}}

-----------------------------------------------------------------------------
(* The windows.  Every transaction gets the next time; it may fail, and then   *)
(* the window goes on.  The windows share one thread; a fingerprinting run has   *)
(* a thread of its own.                                                        *)

Init ==
    /\ db \in {Empty} \cup Legacy
    /\ now = 2
    /\ scan = NoScan
    /\ picked = {}
    /\ held = {}
    /\ timely = TRUE

\* Whether the thread of the windows, or the run, is not between reading an asset and writing it.
Free(by) == \A h \in held : h.by # by

Tick == now < MaxTime /\ now' = now + 1

\* The worker finds hosts, one for each address, and tells each of them when it is classified.
start_scan(s, found) ==
    /\ scan = NoScan /\ Free("windows")
    /\ \A o \in found : o.ip \in InScope[s]
    /\ \A o, p \in found : o.ip = p.ip => o = p
    /\ scan' = [scope |-> s, found |-> found, todo |-> found]
    /\ UNCHANGED <<db, now, picked, held, timely>>

_handle_progress(o) ==
    /\ scan # NoScan /\ o \in scan.todo /\ Free("windows")
    /\ scan' = [scan EXCEPT !.todo = @ \ {o}]
    /\ \/ Tick /\ db' = _upsert_device(db, scan.scope, o, {}, now')
       \/ UNCHANGED <<db, now>>
    /\ UNCHANGED <<picked, held, timely>>

\* The inventory first, and only then the relationships built from it.
_scan_finished ==
    /\ scan # NoScan /\ scan.todo = {} /\ Free("windows")
    /\ scan' = NoScan
    /\ \/ /\ Tick
          /\ LET d == record_scan(db, scan.scope, scan.found, now')
             IN  db' \in {d} \cup {replace_logical(d, scan.scope, links) :
                            links \in UNION {build_relationships(d, scan.scope, gateway) :
                                                gateway \in InScope[scan.scope] \cup {0}}}
       \/ UNCHANGED <<db, now>>
    /\ UNCHANGED <<picked, held, timely>>

\* Stopped by the user or failed: what was told stays, nothing has disappeared.
_scan_cancelled ==
    /\ scan # NoScan /\ Free("windows")
    /\ scan' = NoScan
    /\ UNCHANGED <<db, now, picked, held, timely>>

import_physical_evidence(s, file) ==
    /\ scan = NoScan /\ Free("windows")
    /\ \E links \in import_physical_snapshot(db, s, file) : db' = replace_physical(db, s, links)
    /\ UNCHANGED <<now, scan, picked, held, timely>>

\* A new run; the one before has ended, wherever it was.
run_scheduled_fingerprinting(s, changedSince) ==
    /\ Free("run")
    /\ picked' = _selected_assets(db, s, changedSince)
    /\ picked' # {}
    /\ UNCHANGED <<db, now, scan, held, timely>>

\* The time of the write is taken with the row, or not before it is written.
Read(by, id, prints) ==
    /\ Free(by)
    /\ \/ Tick /\ held' = held \cup Reading(by, id, db.assets[id], prints, now')
       \/ UNCHANGED now /\ held' = held \cup Reading(by, id, db.assets[id], prints, NoTime)
    /\ UNCHANGED <<db, scan, timely>>

\* One asset was probed, and is read again.
ApplyPrints(pick, prints) ==
    /\ pick.id \in DOMAIN db.assets
    /\ db.assets[pick.id].scope = pick.scope /\ db.assets[pick.id].ip = pick.ip
    /\ Read("run", pick.id, prints)
    /\ picked' = picked \ {pick}

\* An asset that is gone or has moved, or a store that cannot be read, ends the run with an error.
FailRun ==
    /\ picked # {} /\ Free("run")
    /\ picked' = {}
    /\ UNCHANGED <<db, now, scan, held, timely>>

\* The Network Explorer applies what it found to the one online asset at that address.
apply_fingerprints_to_inventory(p) ==
    /\ \E x \in DOMAIN db.assets :
          /\ {x} = {y \in DOMAIN db.assets : db.assets[y].online /\ db.assets[y].ip = p.ip}
          /\ Read("windows", x, {p})
    /\ UNCHANGED picked

\* What was read is written; a run ends when it is not, or when the asset is merged into
\* another before it is read back.
WritePrints(h) ==
    LET ended == IF h.by = "run" THEN {} ELSE picked
    IN  /\ held' = held \ {h}
        /\ \/ /\ IF h.at = NoTime THEN Tick ELSE UNCHANGED now
              /\ LET at == IF h.at = NoTime THEN now' ELSE h.at
                 IN  /\ db' = persist_asset_fingerprints(db, h, at)
                     /\ IF \A e \in db.events : e.at < at THEN UNCHANGED timely ELSE timely' = FALSE
              /\ picked' \in {picked, ended}
           \/ picked' = ended /\ UNCHANGED <<db, now, timely>>
        /\ UNCHANGED scan

\* The program ends at any point, and opening the store repairs it.
Restart ==
    /\ Tick
    /\ db' = repair_legacy_identity_duplicates(db, now')
    /\ scan' = NoScan /\ picked' = {} /\ held' = {}
    /\ UNCHANGED timely

Hosts(s) == {o \in Observations : o.ip \in InScope[s]}

Next ==
    \/ \E s \in Scopes : \E found \in SUBSET Hosts(s) : start_scan(s, found)
    \/ \E o \in Observations : _handle_progress(o)
    \/ _scan_finished \/ _scan_cancelled
    \/ \E s \in Scopes, file \in LinkFiles : import_physical_evidence(s, file)
    \/ \E s \in Scopes, t \in {0, now} : run_scheduled_fingerprinting(s, t)
    \/ \E pick \in picked, p \in Prints : ApplyPrints(pick, {p})
    \/ FailRun
    \/ \E p \in Prints : apply_fingerprints_to_inventory(p)
    \/ \E h \in held : WritePrints(h)
    \/ Restart

Spec == Init /\ [][Next]_vars

-----------------------------------------------------------------------------
(* Properties. *)

Told(d, x) == {e \in d.events : e.asset = x}
Arrived(d, x) == {e \in Told(d, x) : e.type \in {"new_device", "device_returned"}}
Left(d, x) == {e \in Told(d, x) : e.type = "device_disappeared"}

\* The timeline explains the state of every asset: it has a first sighting, which is that
\* of its row; an asset is offline only when a disappearance is its last word, and one that
\* is online after a disappearance has returned or was merged since (inventory.py, identity.py).
TimelineExplainsPresence(d) ==
    \A x \in DOMAIN d.assets :
        LET row == d.assets[x]
        IN  /\ \E e \in Arrived(d, x) : e.at = row.first
            /\ ~row.online => \E e \in Left(d, x) : \A a \in Arrived(d, x) : a.at < e.at
            /\ row.online => \A e \in Left(d, x) :
                   \E a \in Told(d, x) : a.type \in {"device_returned", "reconciled"} /\ a.at > e.at
            /\ row.first <= row.last

\* Whatever is merged, moved or imported, an entry of the timeline is about an asset of the
\* inventory, a relationship is between two of them or the synthetic nodes, and never
\* from an asset to itself (identity.py, relationship_store.py).
ReferencesExist(d) ==
    /\ \A e \in d.events : e.asset \in DOMAIN d.assets
    /\ \A l \in d.links :
           /\ {l.src, l.dst} \subseteq DOMAIN d.assets \cup {Internet, Lan}
           /\ l.src # l.dst
    /\ \A l, m \in d.links : SameKey(l, m) => l = m

\* A row is filed under its identity, in a scope that has its address.
RowFiled(x, r) ==
    /\ r = [scope |-> r.scope, ip |-> r.ip, mac |-> r.mac, kind |-> r.kind, name |-> r.name,
            ports |-> r.ports, prints |-> r.prints, first |-> r.first, last |-> r.last,
            change |-> r.change, online |-> r.online]
    /\ x = asset_identity(r)
    /\ r.scope \in Scopes /\ r.ip \in InScope[r.scope]
    /\ {r.first, r.last, r.change} \subseteq Nat /\ r.online \in BOOLEAN

\* What is told of an asset that is known by its address, or linked to it, is of its scope.
Filed(d) ==
    /\ d = [assets |-> [x \in DOMAIN d.assets |-> d.assets[x]], events |-> d.events, links |-> d.links]
    /\ IsFiniteSet(DOMAIN d.assets)
    /\ \A x \in DOMAIN d.assets : RowFiled(x, d.assets[x])
    /\ \A e \in d.events : /\ e = Event(e.asset, e.scope, e.at, e.type) /\ e.at \in Nat
                           /\ e.asset[1] = "ip" => e.scope = d.assets[e.asset].scope
    /\ \A l \in d.links : /\ l = Link(l.scope, l.src, l.dst, l.kind, l.confidence)
                          /\ \A x \in {l.src, l.dst} : x[1] = "ip" => d.assets[x].scope = l.scope

\* Besides, an arrival is a change.
Explains(d) ==
    /\ TimelineExplainsPresence(d)
    /\ \A x \in DOMAIN d.assets : \A a \in Arrived(d, x) : a.at <= d.assets[x].change

\* A database that this program, or one before it, may have left at time t; ok says whether
\* everything in it was written in time.
Sound(d, t, ok) ==
    /\ ReferencesExist(d) /\ Filed(d)
    /\ \A e \in d.events : e.at <= t
    /\ ok => Explains(d)

\* What an older version left was stored the same way, duplicates included.
ASSUME LegacyAssumption == \A d \in Legacy : Sound(d, 2, TRUE)

\* Both, at every moment.  Only fingerprints that are written with a time which other entries have
\* passed since it was taken can leave a timeline that does not explain the state any more.
Consistent ==
    /\ ReferencesExist(db)
    /\ timely => TimelineExplainsPresence(db)

\* A complete scan leaves online, of its scope, exactly what it found; and a device that was
\* already told as it was found is not told again (window.py, inventory.py).
ScanIsExact ==
    [][_scan_finished /\ now' # now =>
        LET s == scan.scope
            added == {e \in db'.events : e.at = now'}
            Steady(x) == x \in DOMAIN db.assets /\ \A o \in scan.found :
                            asset_identity(o) = x => /\ db.assets[x].online /\ db.assets[x].scope = s
                                                     /\ db.assets[x].ip = o.ip /\ db.assets[x].kind = o.kind
                                                     /\ db.assets[x].ports = o.ports
        IN  /\ {x \in DOMAIN db'.assets : db'.assets[x].scope = s /\ db'.assets[x].online}
               = {asset_identity(o) : o \in scan.found}
            /\ \A e \in added : Steady(e.asset) => e.type \in {"device_disappeared", "reconciled"}]_vars

\* An asset leaves the inventory only by becoming the asset of the MAC at its address, which
\* keeps the earlier sighting and the physical links to the assets that stay.  One enters it
\* only as a host of the running scan, or when fingerprints of it are written after
\* it was merged into another (identity.py, fingerprints.py).
NothingForgotten ==
    [][/\ \A x \in DOMAIN db.assets \ DOMAIN db'.assets :
            /\ x[1] = "ip"
            /\ \E y \in DOMAIN db'.assets :
                  /\ y[1] = "mac" /\ db'.assets[y].scope = db.assets[x].scope
                  /\ db'.assets[y].first <= db.assets[x].first
                  /\ \A l \in db.links : Physical(l) /\ x \in {l.src, l.dst}
                        /\ {l.src, l.dst} \ {x} \subseteq DOMAIN db'.assets \ {y} =>
                        \E m \in db'.links : SameKey(m, Moved(l, x, y))
       /\ \A x \in DOMAIN db.assets \cap DOMAIN db'.assets : db'.assets[x].first <= db.assets[x].first
       /\ \A x \in DOMAIN db'.assets \ DOMAIN db.assets :
            \/ scan # NoScan /\ \E o \in scan.found : x = asset_identity(o)
            \/ \E h \in held \ held' : x = h.id]_vars
=============================================================================
