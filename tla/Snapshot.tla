------------------------------ MODULE Snapshot ------------------------------
(***************************************************************************)
(* One poll cycle's worth of data: Poller.poll asks the sources of the      *)
(* router's mode one after the other, assemble.go and parse.go turn the     *)
(* replies into a Snapshot, record publishes it with the failures of the    *)
(* cycle, and a scrape (Collector.Collect) serves what it holds until it is *)
(* too old.  A reply is known by what its parsers make of it, a section of  *)
(* the snapshot by whether it holds a reading, a metric by its family.      *)
(*                                                                          *)
(* Logins, and a cycle the signal cuts short, which publishes nothing, are  *)
(* in Poller.                                                               *)
(***************************************************************************)
EXTENDS Integers, Sequences, FiniteSets

CONSTANTS
    maxAge,         \* Collector.maxAge, staleAfter intervals; never 0 in main
    MaxCycles,      \* bound on cycles
    MaxFaults,      \* bound on what goes wrong over all of them
    MaxTime         \* bound on the clock

ASSUME SnapshotAssumption ==
    maxAge \in Nat \ {0} /\ MaxCycles \in Nat /\ MaxFaults \in Nat /\ MaxTime \in Nat

VARIABLES
    pc, now,
    asked,          \* how many sources the cycle has asked
    replies,        \* poll's replies: the shape of each, and when it was asked for
    snap,           \* the Snapshot the cycle is filling
    reachable,      \* the router answers at all
    Snap,           \* State.Snapshot
    EndpointErrors, \* State.EndpointErrors
    origin,         \* history: the replies behind State.Snapshot
    faults, cycles  \* counters behind MaxFaults and MaxCycles

vars == <<pc, now, asked, replies, snap, reachable, Snap, EndpointErrors, origin,
          faults, cycles>>

apSources == <<"clients", "clientTimes", "leases", "reservation", "dhcp", "statusAll",
               "ports", "internet", "firmware", "clock", "mesh">>
sources   == <<"clients", "clientTimes", "leases", "reservation", "dhcp", "statusAll",
               "ports", "internet", "wanSpeed", "tunnels", "vpnUsers", "vpnServer",
               "firmware", "clock", "remote", "upnpEnable", "upnpService", "natVS",
               "natPT", "dmz", "firewall", "arp", "mesh">>

\* "router" stands for every mode that is not "ap", a nameless one included.
modes == {"router", "ap"}
sourcesFor(mode) == IF mode = "ap" THEN apSources ELSE sources

Sources == {sources[i] : i \in DOMAIN sources}
\* Those decoded row by row, where one malformed row costs that row.
Lists   == {"clients", "clientTimes", "leases", "reservation", "ports", "tunnels",
            "vpnUsers", "arp", "mesh"}

\* What a parser may meet: a good reply, one that is not of the shape it decodes,
\* a list with a bad row, and a status?form=all without one of its fields.
Shapes(source) == {"good", "bad"} \cup (IF source \in Lists THEN {"rows"} ELSE {})
                  \cup (IF source = "statusAll" THEN {"noUsage", "noUptime"} ELSE {})

\* The sections of a Snapshot, each filled by one parser from one source.
sourceOf == [Clients |-> "clients", ClientRadio |-> "clients", ClientTimes |-> "clientTimes",
             Leases |-> "leases", Reservations |-> "reservation", DHCP |-> "dhcp",
             Ports |-> "ports", Perf |-> "statusAll", Wireless |-> "statusAll",
             Firmware |-> "firmware", Router |-> "clock", Tunnels |-> "tunnels",
             VPNServer |-> "vpnServer", VPNUsers |-> "vpnUsers", ARP |-> "arp",
             Mesh |-> "mesh", WANUptime |-> "statusAll", WANStatus |-> "internet",
             WANSpeed |-> "wanSpeed", RemoteManagement |-> "remote",
             UPnPEnabled |-> "upnpEnable", UPnPMappings |-> "upnpService",
             VirtualServers |-> "natVS", PortTriggers |-> "natPT", DMZ |-> "dmz",
             Ping |-> "firewall", GuestNetworks |-> "statusAll", IoTNetworks |-> "statusAll"]
Sections     == DOMAIN sourceOf
sectionsFrom == [source \in Sources |-> {x \in Sections : sourceOf[x] = source}]

-----------------------------------------------------------------------------
(* assemble and its parsers.                                                *)

\* The parser of a section returns a value.
parses(section, shape) ==
    /\ shape # "bad"
    /\ ~(shape = "noUsage" /\ section = "Perf")
    /\ ~(shape = "noUptime" /\ section = "WANUptime")

\* Slip: a row that does not decode is skipped, and nobody is told.
RowsDroppedInSilence(section, shape) == ~parses(section, shape)

\* It returns an error, and for a list with a bad row the other rows as well.
\* Only parseClientRadio passes over such a row in silence.
complains(section, shape) ==
    ~parses(section, shape) \/ (shape = "rows" /\ section # "ClientRadio")

\* An access point's status?form=all has no uptime to parse.
sectionsOf(mode) == Sections \ (IF mode = "ap" THEN {"WANUptime"} ELSE {})

answered(section) == sourceOf[section] \in DOMAIN replies

\* Slip: an error kept by section, not by path.
AssembleBySection ==
    LET due == {section \in sectionsOf(snap.Mode) : answered(section)}
        shape(section) == replies[sourceOf[section]].shape IN
    [snap EXCEPT
       !.sections = {section \in due : parses(section, shape(section))},
       !.Errors   = @ \cup {x \in due : complains(x, shape(x))}]

\* assemble: every section whose reply its parser read, and against every path
\* whose parser complained, or that failed before, an error.
assemble ==
    LET due == {section \in sectionsOf(snap.Mode) : answered(section)}
        shape(section) == replies[sourceOf[section]].shape IN
    [snap EXCEPT
       !.sections = {section \in due : parses(section, shape(section))},
       !.Errors   = @ \cup {sourceOf[section] : section \in
                               {x \in due : complains(x, shape(x))}}]

-----------------------------------------------------------------------------
(* Collector.Collect.                                                       *)

\* The sections each family of metrics is read from.
families == Sections \cup {"ClientTraffic", "WANLink"}
needs == [family \in families |->
    CASE family \in {"Clients", "ClientTraffic"} -> {"Clients"}
      [] family = "ClientTimes" -> {"Clients", "ClientTimes"}
      [] family = "ClientRadio" -> {"Clients", "ClientRadio"}
      [] family = "WANLink"     -> {"WANStatus"}
      [] OTHER                  -> {family}]

\* Slip: the link of an access point published with the rest.
LinkOfAnyMode(mode) == families \ (IF mode = "ap" THEN {"ClientTraffic"} ELSE {})

\* What an access point reads as zero is not published for one.
familiesOf(mode) == families \ (IF mode = "ap" THEN {"ClientTraffic", "WANLink"} ELSE {})

NoSnapshot == [TakenAt |-> -1, Mode |-> "router", sections |-> {}, Errors |-> {}]

fresh == Snap # NoSnapshot /\ now - Snap.TakenAt <= maxAge

\* The router's metrics on a scrape made now, beside the exporter's own health.
served == IF fresh THEN {family \in familiesOf(Snap.Mode) : needs[family] \subseteq Snap.sections}
          ELSE {}
endpointsFailed == Cardinality(Snap.Errors)

-----------------------------------------------------------------------------
(* poll and record.                                                         *)

Init ==
    /\ pc = "idle" /\ now = 0 /\ asked = 0 /\ replies = <<>> /\ snap = NoSnapshot
    /\ reachable = TRUE /\ Snap = NoSnapshot /\ origin = <<>>
    /\ EndpointErrors = [source \in Sources |-> 0]
    /\ faults = 0 /\ cycles = 0

Fault == faults < MaxFaults /\ faults' = faults + 1

BeginCycle ==
    /\ pc = "idle" /\ cycles < MaxCycles
    /\ pc' = "polling" /\ cycles' = cycles + 1 /\ asked' = 0 /\ replies' = <<>>
    /\ \E mode \in modes : snap' = [NoSnapshot EXCEPT !.TakenAt = now, !.Mode = mode]
    /\ UNCHANGED <<now, reachable, Snap, EndpointErrors, origin, faults>>

source == sourcesFor(snap.Mode)[asked + 1]
Asking == pc = "polling" /\ asked < Len(sourcesFor(snap.Mode))

\* Call returned a reply, of some shape.
CallAnswers ==
    /\ Asking /\ reachable
    /\ \E shape \in Shapes(source) :
         /\ IF shape = "good" THEN UNCHANGED faults ELSE Fault
         /\ replies' = [s \in DOMAIN replies \cup {source} |->
                          IF s = source THEN [shape |-> shape, at |-> now] ELSE replies[s]]
    /\ asked' = asked + 1
    /\ UNCHANGED <<pc, now, snap, reachable, Snap, EndpointErrors, origin, cycles>>

\* Call returned an error other than a dead session; the cycle carries on.
CallFails ==
    /\ Asking
    /\ IF reachable THEN Fault ELSE UNCHANGED faults
    /\ snap' = [snap EXCEPT !.Errors = @ \cup {source}]
    /\ asked' = asked + 1
    /\ UNCHANGED <<pc, now, replies, reachable, Snap, EndpointErrors, origin, cycles>>

\* Slip: stamped when it is published.
StampedAtTheEnd(cycle) == IF replies = <<>> THEN Snap ELSE [cycle EXCEPT !.TakenAt = now]

\* A cycle that reached nothing leaves the last snapshot in place.
Published(cycle) == IF replies = <<>> THEN Snap ELSE cycle

\* record: the failures are counted, the snapshot replaced, in one step.
record(cycle) ==
    /\ EndpointErrors' = [s \in Sources |-> EndpointErrors[s] + (IF s \in cycle.Errors THEN 1 ELSE 0)]
    /\ Snap' = Published(cycle)
    /\ origin' = IF replies = <<>> THEN origin ELSE replies
    /\ pc' = "idle" /\ asked' = 0 /\ replies' = <<>> /\ snap' = NoSnapshot

\* Call says the session is dead: nobody asks the rest.
CallExpired ==
    /\ Asking /\ reachable /\ Fault
    /\ record([assemble EXCEPT !.Errors = @ \cup {source}])
    /\ UNCHANGED <<now, reachable, cycles>>

PollEnds ==
    /\ pc = "polling" /\ ~Asking
    /\ record(assemble)
    /\ UNCHANGED <<now, reachable, faults, cycles>>

\* Time passes between cycles, or in one slow request.  It starts with the first.
Tick ==
    /\ cycles > 0 /\ now < MaxTime /\ now' = now + 1
    /\ IF pc = "idle" THEN UNCHANGED faults ELSE Fault
    /\ UNCHANGED <<pc, asked, replies, snap, reachable, Snap, EndpointErrors, origin, cycles>>

\* The router stops answering, and comes back between two cycles.
Unreachable ==
    /\ pc = "polling" /\ reachable /\ Fault
    /\ reachable' = FALSE
    /\ UNCHANGED <<pc, now, asked, replies, snap, Snap, EndpointErrors, origin, cycles>>

Back ==
    /\ pc = "idle" /\ ~reachable
    /\ reachable' = TRUE
    /\ UNCHANGED <<pc, now, asked, replies, snap, Snap, EndpointErrors, origin, faults, cycles>>

Next == BeginCycle \/ CallAnswers \/ CallFails \/ CallExpired \/ PollEnds
        \/ Tick \/ Unreachable \/ Back

Spec == Init /\ [][Next]_vars
-----------------------------------------------------------------------------
(* Properties.                                                              *)

\* The snapshot being filled and the one being served are Snapshots, the second
\* of a time that has been, and every path has a count.
TypeOK ==
    /\ pc \in {"idle", "polling"} /\ now \in 0..MaxTime /\ asked \in 0..Len(sources)
    /\ \A cycle \in {snap, Snap} :
         /\ DOMAIN cycle = {"TakenAt", "Mode", "sections", "Errors"}
         /\ cycle.TakenAt \in -1..now /\ cycle.Mode \in modes
         /\ cycle.sections \subseteq Sections /\ cycle.Errors \subseteq Sources
    /\ DOMAIN replies \subseteq Sources /\ DOMAIN EndpointErrors = Sources

\* poll, assemble, Collect: whatever a scrape reads comes from replies to the
\* cycle behind the snapshot, all of them, and none asked longer ago than
\* maxAge; an outage of the router's is never a frozen or an invented reading.
ReadingsWereTaken ==
    \A family \in served : \A section \in needs[family] :
        /\ sourceOf[section] \in DOMAIN origin
        /\ parses(section, origin[sourceOf[section]].shape)
        /\ now - origin[sourceOf[section]].at <= maxAge

\* assembleWAN, collectRouter, collectClients: on an access point nothing is
\* published that an access point reads as zero, whatever it was before.
NoZeroesOfAnAccessPoint ==
    Snap.Mode = "ap" => served \cap {"WANUptime", "WANSpeed", "WANLink", "ClientTraffic"} = {}

\* snapError, fill, record: of a source that was asked, either every reading is
\* in the snapshot and every row of it, or its failure is in Errors and counted.
EveryFailureIsCharged ==
    \A path \in DOMAIN origin :
        \/ path \in Snap.Errors /\ EndpointErrors[path] > 0
        \/ /\ origin[path].shape \notin {"bad", "rows"}
           /\ sectionsFrom[path] \cap sectionsOf(Snap.Mode) \subseteq Snap.sections

-----------------------------------------------------------------------------
(* What the documentation says and the code does not do.                    *)

\* README.md:239: tplink_endpoints_failed is the endpoints missing from the
\* snapshot being served.  Missing is one of which it has no section at all.
EndpointsFailedCountsTheMissing ==
    LET polled == {sourcesFor(Snap.Mode)[i] : i \in DOMAIN sourcesFor(Snap.Mode)} IN
    fresh => endpointsFailed >=
               Cardinality({path \in polled : sectionsFrom[path] \cap Snap.sections = {}})
=============================================================================
