------------------------------- MODULE Tables -------------------------------
(***************************************************************************)
(* The tables of one snapshot, from the rows of a reply to the series that  *)
(* are served: parse.go's list parsers, mac.go, the joins of assemble.go,   *)
(* collector.go, and the gathering both modes put behind it.                *)
(*                                                                          *)
(* A row is a record of the fields read from it, and ok says which of the   *)
(* structs it decodes into: "all", "radio" (a field only parseClientRadio   *)
(* skips is spoilt) or "none".  An address is a pair of a device and how    *)
(* the reply spells it; "junk" is no address at all.  A number that may be  *)
(* missing, or a word, is a sequence of at most one.  A reply that is one   *)
(* object is a row too: the endpoint's path and the fields it carries.      *)
(***************************************************************************)
EXTENDS Integers, Sequences, FiniteSets, SequencesExt

CONSTANTS
    ClientRows, TimeRows, LeaseRows, PortRows, MeshRows,   \* what the router may send
    ReservationRows, TunnelRows, UserRows, ARPRows, Objects,
    MaxRows                                                \* bound on the rows in all

Addresses == STRING \X {"dashes", "colons", "junk"}
Decodes   == {"all", "radio", "none"}

ASSUME TablesAssumption == MaxRows \in Nat

\* The wire structs, and that encoding/json fills them or fails: a number is one
\* or is missing, a word is a string.  An object is a map from its fields' names.
ASSUME RowsAssumption ==
    /\ ClientRows \subseteq [mac : Addresses, ok : Decodes, iface : STRING,
                             signal : Seq(Int), txrate : Seq(Int)]
    /\ TimeRows \subseteq [mac : Addresses, ok : Decodes, access_time : Int]
    /\ LeaseRows \subseteq [mac : Addresses, ok : Decodes, ip : STRING, leasetime : Seq(Int)]
    /\ PortRows \subseteq [name : STRING, ok : Decodes, up : BOOLEAN, speed : STRING]
    /\ MeshRows \subseteq [mac : Addresses, ok : Decodes, up : BOOLEAN]
    /\ ReservationRows \subseteq [mac : Addresses, ok : Decodes, ip : STRING, enable : STRING]
    /\ TunnelRows \subseteq [des : STRING, ok : Decodes, endpoint : STRING, up : BOOLEAN]
    /\ UserRows \subseteq [mac : Addresses, ok : Decodes, access : STRING]
    /\ ARPRows \subseteq [mac : Addresses, ok : Decodes, ip : STRING]
    /\ \A w \in Objects : w.path = "wan_speed" /\ "test_time" \in DOMAIN w.fields =>
                          w.fields.test_time \in Int

VARIABLE replies    \* the rows of each endpoint's reply in this cycle

Tabled == {"clients", "times", "leases", "ports", "mesh", "reservations", "tunnels",
           "users", "arp", "objects"}

Init == replies = [t \in Tabled |-> <<>>]

Rows == FoldFunction(LAMBDA rows, n : Len(rows) + n, 0, replies)

\* The router has one row more to report, whatever it reported before.
Report(table, row) == Rows < MaxRows /\ replies' = [replies EXCEPT ![table] = Append(@, row)]

\* An endpoint answers once a cycle.
Answer(w) == (\A i \in DOMAIN replies.objects : replies.objects[i].path # w.path)
             /\ Report("objects", w)

Next ==
    \/ \E w \in ClientRows : Report("clients", w)
    \/ \E w \in TimeRows : Report("times", w)
    \/ \E w \in LeaseRows : Report("leases", w)
    \/ \E w \in PortRows : Report("ports", w)
    \/ \E w \in MeshRows : Report("mesh", w)
    \/ \E w \in ReservationRows : Report("reservations", w)
    \/ \E w \in TunnelRows : Report("tunnels", w)
    \/ \E w \in UserRows : Report("users", w)
    \/ \E w \in ARPRows : Report("arp", w)
    \/ \E w \in Objects : Answer(w)

Spec == Init /\ [][Next]_replies

-----------------------------------------------------------------------------
(* The parsers.                                                             *)

flagged(b) == IF b THEN 1 ELSE 0

NormalizeNothing(mac) == mac
NormalizeMAC(mac) == IF mac[2] = "junk" THEN mac ELSE <<mac[1], "colons">>

\* The loops that skip: what is good of the rows, in their order.
kept(rows, good) == FoldLeft(LAMBDA out, w : IF w \in good THEN Append(out, w) ELSE out,
                             <<>>, rows)

\* One malformed row costs that row.
decodeList(rows) == kept(rows, {w \in Range(rows) : w.ok = "all"})

\* A repeat of a client's address, in whatever spelling; the first one stays.
RepeatsVerbatim(out, w) == \E i \in DOMAIN out : out[i].MAC = w.mac
Repeats(out, w) == \E i \in DOMAIN out : out[i].MAC = NormalizeMAC(w.mac)

parseClients(rows) ==
    FoldLeft(LAMBDA out, w :
               IF Repeats(out, w) THEN out
               ELSE Append(out, [MAC |-> NormalizeMAC(w.mac), Iface |-> w.iface,
                                 ConnectedAt |-> 0]),
             <<>>, decodeList(rows))

\* radioSignal, radioRate: 0 and -1 stand for no value, each for its own.
radioSignalOfZero(raw) == IF raw = <<>> \/ raw[1] > 0 THEN <<>> ELSE raw
radioSignal(raw) == IF raw = <<>> \/ raw[1] >= 0 THEN <<>> ELSE raw
\* A rate is divided as a float: the fraction, of which none but 0 rounds to 0.
radioRate(raw)   == IF raw = <<>> \/ raw[1] <= 0 THEN <<>> ELSE <<<<raw[1], 1000>>>>

\* The first row of each address that decodes here, if it holds any reading.
parseClientRadio(rows) ==
    LET in == kept(rows, {w \in Range(rows) : w.ok # "none"})
        mac(i) == NormalizeMAC(in[i].mac)
        reading(i) == [SignalDBm |-> radioSignal(in[i].signal),
                       TxMbits   |-> radioRate(in[i].txrate)]
        firsts == {i \in DOMAIN in : \A j \in 1..(i - 1) : mac(j) # mac(i)}
        some == {i \in firsts : reading(i) # [SignalDBm |-> <<>>, TxMbits |-> <<>>]}
    IN [m \in {mac(i) : i \in some} |-> reading(CHOOSE i \in some : mac(i) = m)]

\* Here the last row of an address stays.
parseClientTimes(rows) ==
    LET in == decodeList(rows)
        mac(i) == NormalizeMAC(in[i].mac)
        lasts == {i \in DOMAIN in : \A j \in (i + 1)..Len(in) : mac(j) # mac(i)}
    IN [m \in {mac(i) : i \in lasts} |-> Max({0, in[CHOOSE i \in lasts : mac(i) = m].access_time})]

mergeClientTimes(clients, times) ==
    [i \in DOMAIN clients |->
       IF clients[i].MAC \in DOMAIN times
       THEN [clients[i] EXCEPT !.ConnectedAt = times[clients[i].MAC]] ELSE clients[i]]

\* A leasetime is Permanent, <<-1>> here, or hours, minutes and seconds.
Permanent == <<-1>>
leaseReads(t) == \/ t = Permanent
                 \/ Len(t) = 3 /\ (\A i \in 1..3 : t[i] >= 0) /\ t[2] <= 59 /\ t[3] <= 59
Remaining(t)  == 3600 * t[1] + 60 * t[2] + t[3]

parseLeases(rows) ==
    LET in == kept(decodeList(rows), {w \in Range(rows) : leaseReads(w.leasetime)})
    IN [i \in DOMAIN in |-> [MAC |-> NormalizeMAC(in[i].mac), IP |-> in[i].ip,
                             left |-> in[i].leasetime]]

\* portSpeed: an empty string, the dark port's, reads 0; another word is an error.
portReads(speed) == speed # "word"
portSpeed(speed) == IF speed = "" THEN 0 ELSE 1000

parsePorts(rows) ==
    LET in == kept(decodeList(rows), {w \in Range(rows) : portReads(w.speed)})
    IN [i \in DOMAIN in |-> [Name |-> in[i].name, Up |-> in[i].up,
                             SpeedMbits |-> portSpeed(in[i].speed)]]

parseMeshNodes(rows) ==
    LET in == decodeList(rows)
    IN [i \in DOMAIN in |-> [MAC |-> NormalizeMAC(in[i].mac), Up |-> in[i].up]]

\* onOff of a decoded value: the firmware's words, and the JSON booleans.
onOff(v) == v \in {"on", "true"}

parseReservations(rows) ==
    LET in == decodeList(rows)
    IN [i \in DOMAIN in |-> [MAC |-> NormalizeMAC(in[i].mac), IP |-> in[i].ip,
                             Enabled |-> onOff(in[i].enable)]]

parseTunnels(rows) ==
    LET in == decodeList(rows)
    IN [i \in DOMAIN in |-> [Name |-> in[i].des, Endpoint |-> in[i].endpoint, Up |-> in[i].up]]

parseVPNUsers(rows) ==
    LET in == decodeList(rows)
    IN [i \in DOMAIN in |-> [MAC |-> NormalizeMAC(in[i].mac), Access |-> onOff(in[i].access)]]

parseARP(rows) ==
    LET in == decodeList(rows)
    IN [i \in DOMAIN in |-> [MAC |-> NormalizeMAC(in[i].mac), IP |-> in[i].ip]]

\* The reply of one endpoint, <<>> if it has none that can be read.
reply(path) == kept(replies.objects,
                    {w \in Range(replies.objects) : w.path = path /\ w.ok = "all"})

\* A field that is not there is no reading.
text(path, field) ==
    IF reply(path) = <<>> \/ field \notin DOMAIN reply(path)[1].fields THEN <<>>
    ELSE <<reply(path)[1].fields[field]>>

\* SecuritySources.flag decodes the field; in status?form=all its text is read, of
\* which only the word is "on".
mapped(v, op(_)) == [i \in DOMAIN v |-> op(v[i])]
flag(path, field) == mapped(text(path, field), LAMBDA v : flagged(onOff(v)))
bandFlag(field)   == mapped(text("all", field), LAMBDA v : flagged(v = "on"))

\* SecuritySources.count: the rows, whatever is in them.
count(path) == text(path, "rows")

Bands == {"2g", "5g"}
wireless_enable(b)  == IF b = "2g" THEN "wireless_2g_enable" ELSE "wireless_5g_enable"
wireless_channel(b) == IF b = "2g" THEN "wireless_2g_current_channel"
                                   ELSE "wireless_5g_current_channel"
guest_enable(b)     == IF b = "2g" THEN "guest_2g_enable" ELSE "guest_5g_enable"
iot_enable(b)       == IF b = "2g" THEN "iot_2g_enable" ELSE "iot_5g_enable"

\* A channel that is no number leaves the channel unknown.
channel(v) == IF v = <<"auto">> THEN <<>> ELSE v
parseWireless ==
    [b \in Bands |-> [Enabled |-> bandFlag(wireless_enable(b)),
                      Channel |-> channel(text("all", wireless_channel(b)))]]

\* A test_time of 0, or before it, is no stamp; a speed left out is a speed of 0.
stamped(at) == IF at = <<>> \/ at[1] <= 0 THEN <<>> ELSE at
parseWANSpeed ==
    [Down |-> mapped(reply("wan_speed"), LAMBDA w : IF "down_speed" \in DOMAIN w.fields
                                                    THEN w.fields.down_speed ELSE 0),
     SpeedTakenAt |-> stamped(text("wan_speed", "test_time"))]

\* One endpoint that fails costs its own fields and no others.
parseSecurity ==
    [RemoteManagement |-> flag("remote", "enable"), UPnPEnabled |-> flag("upnp", "enable"),
     DMZ |-> flag("dmz", "enable"), LANPing |-> flag("firewall", "lan_ping"),
     WANPing |-> flag("firewall", "wan_ping"), UPnPMappings |-> count("upnp_service"),
     PortForwards |-> [vs |-> count("vs"), pt |-> count("pt")],
     GuestNetworks |-> [b \in Bands |-> bandFlag(guest_enable(b))],
     IoTNetworks |-> [b \in Bands |-> bandFlag(iot_enable(b))]]

-----------------------------------------------------------------------------
(* The collector: each function the series it sends, in order.              *)

gauge(desc, labels, v) == <<[desc |-> desc, labels |-> labels, value |-> v]>>
reading(desc, labels, v) == IF v = <<>> THEN <<>> ELSE gauge(desc, labels, v[1])
each(entries, op(_)) == FlattenSeq([i \in DOMAIN entries |-> op(entries[i])])

collectClient(c, radio) ==
    gauge("client_info", <<c.MAC, c.Iface>>, 1)
      \o (IF c.ConnectedAt = 0 THEN <<>> ELSE gauge("connected_since", <<c.MAC>>, c.ConnectedAt))
      \o (IF c.MAC \notin DOMAIN radio THEN <<>>
          ELSE reading("signal_dbm", <<c.MAC>>, radio[c.MAC].SignalDBm)
               \o reading("tx_rate", <<c.MAC>>, radio[c.MAC].TxMbits))

collectClients(clients, radio) ==
    LET on(iface) == Cardinality({i \in DOMAIN clients : clients[i].Iface = iface})
        ifaces == SetToSeq({clients[i].Iface : i \in DOMAIN clients})
    IN each(clients, LAMBDA c : collectClient(c, radio))
         \o each(ifaces, LAMBDA iface : gauge("clients", <<iface>>, on(iface)))

\* A permanent lease has no expiry; the others count from the snapshot's time, 0.
collectDHCP(leases, reservations) ==
    each(leases, LAMBDA l :
           gauge("lease_permanent", <<l.MAC, l.IP>>, flagged(l.left = Permanent))
             \o (IF l.left = Permanent THEN <<>>
                 ELSE gauge("lease_expiry", <<l.MAC, l.IP>>, Remaining(l.left))))
      \o each(reservations, LAMBDA r : gauge("reservation", <<r.MAC, r.IP>>, flagged(r.Enabled)))

collectPorts(ports) ==
    each(ports, LAMBDA p : gauge("port_link", <<p.Name>>, flagged(p.Up))
                             \o gauge("port_speed", <<p.Name>>, p.SpeedMbits))

collectWAN(w) == reading("wan_speed", <<"rx">>, w.Down)
                   \o reading("wan_speed_at", <<>>, w.SpeedTakenAt)

collectWireless(radio) ==
    each(SetToSeq(Bands), LAMBDA b : reading("wifi_radio", <<b>>, radio[b].Enabled)
                                       \o reading("wifi_channel", <<b>>, radio[b].Channel))

\* A tunnel's state is known by its name alone.
collectVPN(tunnels, users) ==
    each(tunnels, LAMBDA t : gauge("tunnel_info", <<t.Name, t.Endpoint>>, 1)
                               \o gauge("tunnel_up", <<t.Name>>, flagged(t.Up)))
      \o each(users, LAMBDA u : gauge("vpn_user_access", <<u.MAC>>, flagged(u.Access)))

collectSecurity(s) ==
    reading("remote_management", <<>>, s.RemoteManagement)
      \o reading("upnp_enabled", <<>>, s.UPnPEnabled)
      \o reading("dmz", <<>>, s.DMZ)
      \o reading("firewall_ping", <<"lan">>, s.LANPing)
      \o reading("firewall_ping", <<"wan">>, s.WANPing)
      \o reading("upnp_mappings", <<>>, s.UPnPMappings)
      \o reading("port_forwards", <<"vs">>, s.PortForwards.vs)
      \o reading("port_forwards", <<"pt">>, s.PortForwards.pt)
      \o each(SetToSeq(Bands), LAMBDA b : reading("guest_network", <<b>>, s.GuestNetworks[b])
                                           \o reading("iot_network", <<b>>, s.IoTNetworks[b]))

collectNeighbours(arp, mesh) ==
    each(arp, LAMBDA e : gauge("arp_entry", <<e.MAC, e.IP>>, 1))
      \o each(mesh, LAMBDA n : gauge("mesh_node_up", <<n.MAC>>, flagged(n.Up)))

\* assemble, then Collect.
Collected ==
    collectWAN(parseWANSpeed)
      \o collectPorts(parsePorts(replies.ports)) \o collectWireless(parseWireless)
      \o collectClients(mergeClientTimes(parseClients(replies.clients),
                                         parseClientTimes(replies.times)),
                        parseClientRadio(replies.clients))
      \o collectDHCP(parseLeases(replies.leases), parseReservations(replies.reservations))
      \o collectVPN(parseTunnels(replies.tunnels), parseVPNUsers(replies.users))
      \o collectSecurity(parseSecurity)
      \o collectNeighbours(parseARP(replies.arp), parseMeshNodes(replies.mesh))

Series(s) == <<s.desc, s.labels>>

\* The registry reports a second value of a series as an error; and a gatherer may
\* answer an error with nothing, or go on with the rest.
Unrepeated(sent) ==
    FoldLeft(LAMBDA out, s : IF \E i \in DOMAIN out : Series(out[i]) = Series(s) THEN out
                             ELSE Append(out, s), <<>>, sent)
NothingOnError(sent) == IF Unrepeated(sent) = sent THEN sent ELSE <<>>
continueOnError(sent) == Unrepeated(sent)

Served == continueOnError(Collected)

-----------------------------------------------------------------------------
(* Properties.                                                              *)

\* Two rows are of one device: the same address however it is spelled, or the
\* same junk.
SameDevice(v, w) == v.mac[1] = w.mac[1] /\ (v.mac[2] = "junk" <=> w.mac[2] = "junk")

All(s, desc) == kept(s, {x \in Range(s) : x.desc = desc})
ValuesOf(s, desc, labels) == {s[i].value : i \in {j \in DOMAIN s : Series(s[j]) = <<desc, labels>>}}
Decoded(table) == Range(decodeList(replies[table]))

\* parseClients, NormalizeMAC: a device is one client and is counted once, however
\* many rows it has and however they are spelled, and no client's series collide.
OneClientPerDevice ==
    LET sent == Collected
        clients == All(sent, "client_info")
        counted == All(sent, "clients")
        devices == {{w \in Decoded("clients") : SameDevice(v, w)} : v \in Decoded("clients")}
    IN /\ Len(clients) = Cardinality(devices)
       /\ FoldLeft(LAMBDA n, s : n + s.value, 0, counted) = Cardinality(devices)
       /\ \A desc \in {"connected_since", "signal_dbm", "tx_rate"} :
            LET s == All(sent, desc)
            IN Cardinality({Series(s[i]) : i \in DOMAIN s}) = Len(s)

\* mergeClientTimes, collectClients: a reading is served under the address of the
\* device that had it, and a device known to two endpoints under two spellings is
\* one; nobody is served another's time, signal or rate.
JoinedByAddress ==
    LET served == Served
    IN \A c \in Decoded("clients") :
         LET mine(rows) == {w \in rows : SameDevice(c, w)}
             since == ValuesOf(served, "connected_since", <<NormalizeMAC(c.mac)>>)
             signal == ValuesOf(served, "signal_dbm", <<NormalizeMAC(c.mac)>>)
             times == {w.access_time : w \in mine(Decoded("times"))}
         IN /\ since \subseteq times
            /\ times # {} /\ (\A t \in times : t > 0) => since # {}
            /\ signal \subseteq {w.signal[1] : w \in {v \in mine(Range(replies.clients)) : v.signal # <<>>}}

\* The switches, each with its endpoint, its field and its series.
Switches ==
    {<<"remote", "enable", "remote_management", <<>>>>, <<"upnp", "enable", "upnp_enabled", <<>>>>,
     <<"dmz", "enable", "dmz", <<>>>>, <<"firewall", "lan_ping", "firewall_ping", <<"lan">>>>,
     <<"firewall", "wan_ping", "firewall_ping", <<"wan">>>>,
     <<"all", "wireless_2g_enable", "wifi_radio", <<"2g">>>>,
     <<"all", "guest_2g_enable", "guest_network", <<"2g">>>>,
     <<"all", "guest_5g_enable", "guest_network", <<"5g">>>>,
     <<"all", "iot_2g_enable", "iot_network", <<"2g">>>>,
     <<"all", "iot_5g_enable", "iot_network", <<"5g">>>>}

\* radioSignal, radioRate, parseLeaseRemaining, portSpeed, parseWireless,
\* parseWANSpeed, mergeClientTimes: what the firmware uses for "no value" is never
\* served as one, and a dark port reads 0 instead of going.  parseSecurity,
\* parseBandFlags, collectSecurity: a switch is served of the router's own word for it
\* and of nothing else, on of the words for on and off of any other, and no endpoint
\* that failed takes the switch of another with it.
NoReadingIsInvented ==
    LET served == Served
    IN /\ \A i \in DOMAIN served :
            LET s == served[i]
            IN /\ s.desc = "signal_dbm" => s.value < 0
               /\ s.desc \in {"connected_since", "wan_speed_at"} => s.value > 0
               /\ s.desc = "tx_rate" => s.value[1] > 0
               /\ s.desc = "wifi_channel" => s.value # "auto"
               /\ s.desc = "lease_expiry" =>
                    \E w \in Decoded("leases") :
                       /\ s.labels = <<NormalizeMAC(w.mac), w.ip>> /\ Len(w.leasetime) = 3
                       /\ w.leasetime[2] \in 0..59 /\ w.leasetime[3] \in 0..59
                       /\ s.value \div 3600 = w.leasetime[1]
       /\ \A w \in Decoded("ports") :
            w.speed = "" => ValuesOf(served, "port_speed", <<w.name>>) # {}
       /\ \A x \in Switches :
            LET said == {w.fields[x[2]] : w \in {v \in Decoded("objects") :
                                                v.path = x[1] /\ x[2] \in DOMAIN v.fields}}
                shown == ValuesOf(served, x[3], x[4])
                on == IF x[1] = "all" THEN {"on"} ELSE {"on", "true"}
            IN /\ 1 \in shown <=> said \cap on # {}
               /\ 0 \in shown <=> said \ on # {}

\* continueOnError, metricsServer: a repeated row of a table nobody deduplicates, a
\* lease, a reservation, a port, a tunnel or a mesh node, costs the repeat and no
\* other series.
RepeatCostsOnlyItself ==
    LET served == Served
        sent == Collected
    IN {Series(served[i]) : i \in DOMAIN served} = {Series(sent[i]) : i \in DOMAIN sent}
=============================================================================
