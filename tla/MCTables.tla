------------------------------ MODULE MCTables ------------------------------
(* Two devices and one row of junk, spelled as the replies spell them, with   *)
(* the values the parsers tell apart.                                        *)
EXTENDS Tables

Dashes == <<"a", "dashes">>
Colons == <<"a", "colons">>
Other  == <<"b", "colons">>
Junk   == <<"a", "junk">>

Clients ==
    [mac : {Dashes, Colons, Junk}, ok : {"all"}, iface : {"2.4G"},
     signal : {<<0>>, <<-40>>}, txrate : {<<866>>}]
    \cup [mac : {Dashes, Colons, Junk}, ok : {"all"}, iface : {"wired"}, signal : {<<>>},
          txrate : {<<>>}]
    \cup [mac : {Dashes}, ok : {"radio", "none"}, iface : {"wired"}, signal : {<<-50>>},
          txrate : {<<-1>>, <<>>}]
    \cup [mac : {Other}, ok : {"all"}, iface : {"2.4G"}, signal : {<<-60>>}, txrate : {<<0>>}]

Times == [mac : {Dashes, Colons, Other}, ok : {"all"}, access_time : {0, 5}]
         \cup [mac : {Colons}, ok : {"all", "none"}, access_time : {7}]

Leases == [mac : {Dashes, Other}, ok : {"all"}, ip : {"x"}, leasetime : {Permanent, <<1, 2, 59>>}]
          \cup [mac : {Colons}, ok : {"all"}, ip : {"x"},
                leasetime : {<<0, 60, 0>>, <<1, 2>>, <<2146, 15, 35>>, <<1, 2, -1>>}]
          \cup [mac : {Colons}, ok : {"all", "none"}, ip : {"y"}, leasetime : {<<0, 0, 5>>}]

Ports == [name : {"wan"}, ok : {"all"}, up : BOOLEAN, speed : {"", "1000"}]
         \cup [name : {"lan1"}, ok : {"all"}, up : {TRUE}, speed : {"1000", "word"}]
         \cup [name : {"lan1"}, ok : {"none"}, up : {TRUE}, speed : {""}]

Nodes == [mac : {Dashes, Colons, Other}, ok : {"all"}, up : {TRUE}]
         \cup [mac : {Colons}, ok : {"all"}, up : {FALSE}]

Reservations == [mac : {Dashes, Colons}, ok : {"all"}, ip : {"x"}, enable : {"on", "off"}]
Tunnels == [des : {"home"}, ok : {"all"}, endpoint : {"p", "q"}, up : BOOLEAN]
           \cup [des : {"home"}, ok : {"none"}, endpoint : {"q"}, up : {FALSE}]
Users   == [mac : {Dashes, Colons}, ok : {"all"}, access : {"true"}]
ARPs    == [mac : {Dashes, Colons}, ok : {"all"}, ip : {"x"}]

Object(path, ok, fields) == [path |-> path, ok |-> ok, fields |-> fields]
Endpoints ==
    {Object("remote", "all", [enable |-> v]) : v \in {"on", "off", "true", "null"}}
    \cup {Object("remote", "all", [remote |-> "false"]),
          Object("remote", "none", [enable |-> "on"]),
          Object("upnp", "all", [enable |-> "on"]), Object("dmz", "all", [enable |-> "off"]),
          Object("firewall", "all", [lan_ping |-> "on", wan_ping |-> "off"]),
          Object("firewall", "all", [wan_ping |-> "on"]),
          Object("upnp_service", "all", [rows |-> 2]), Object("upnp_service", "none", [rows |-> 2]),
          Object("vs", "all", [rows |-> 1]), Object("pt", "all", [rows |-> 0]),
          Object("wan_speed", "all", [down_speed |-> 0, test_time |-> 0]),
          Object("wan_speed", "all", [down_speed |-> 7, test_time |-> 5]),
          Object("wan_speed", "all", [test_time |-> -1]),
          Object("all", "all", [wireless_2g_enable |-> "off",
                                wireless_2g_current_channel |-> "auto"]),
          Object("all", "all", [guest_2g_enable |-> "on", iot_5g_enable |-> "off",
                                wireless_2g_current_channel |-> "11"])}
=============================================================================
