--------------------------- MODULE SnapshotProofs ---------------------------
(***************************************************************************)
(* What a scrape may rely on, for every maximum age, every number of cycles *)
(* and every run of good, malformed and missing replies: the readings it is *)
(* served are of one recent cycle, and what the cycle could not read is     *)
(* charged to the endpoint that owed it.                                    *)
(***************************************************************************)
EXTENDS Snapshot, TLAPS, SequenceTheorems

-----------------------------------------------------------------------------
(* The inductive invariant, in parts.                                       *)

CycleFields  == {"TakenAt", "Mode", "sections", "Errors"}
Polled(mode) == {sourcesFor(mode)[i] : i \in DOMAIN sourcesFor(mode)}

Counts == EndpointErrors \in [Sources -> Nat] /\ DOMAIN origin \subseteq Sources

\* The replies of the cycle under way are to requests of its mode, made since
\* it began; between two cycles there are none.
Gathering ==
    /\ pc = "idle" => replies = <<>>
    /\ \A path \in DOMAIN replies :
         path \in Polled(snap.Mode) /\ replies[path].at \in Int /\ replies[path].at >= snap.TakenAt

\* A reading of the snapshot was parsed from a reply to its cycle, one that a
\* device of its mode is asked for.
Based ==
    \A section \in Snap.sections :
        /\ section \in sectionsOf(Snap.Mode)
        /\ sourceOf[section] \in DOMAIN origin \cap Polled(Snap.Mode)
        /\ parses(section, origin[sourceOf[section]].shape)
        /\ origin[sourceOf[section]].at \in Int
        /\ origin[sourceOf[section]].at >= Snap.TakenAt

IInv == TypeOK /\ Counts /\ Gathering /\ Based /\ EveryFailureIsCharged

-----------------------------------------------------------------------------
(* The sources and the sections.                                            *)

LEMMA ListsAreLong == Len(sources) = 23 /\ Len(apSources) = 11
BY DEF sources, apSources

LEMMA SourcesAre ==
  Sources = {"clients", "clientTimes", "leases", "reservation", "dhcp", "statusAll",
             "ports", "internet", "wanSpeed", "tunnels", "vpnUsers", "vpnServer",
             "firmware", "clock", "remote", "upnpEnable", "upnpService", "natVS",
             "natPT", "dmz", "firewall", "arp", "mesh"}
<1>1. DOMAIN sources = 1..23
  BY DEF sources
<1>2. /\ sources[1] = "clients" /\ sources[2] = "clientTimes" /\ sources[3] = "leases"
      /\ sources[4] = "reservation" /\ sources[5] = "dhcp" /\ sources[6] = "statusAll"
      /\ sources[7] = "ports" /\ sources[8] = "internet" /\ sources[9] = "wanSpeed"
      /\ sources[10] = "tunnels" /\ sources[11] = "vpnUsers" /\ sources[12] = "vpnServer"
      /\ sources[13] = "firmware" /\ sources[14] = "clock" /\ sources[15] = "remote"
      /\ sources[16] = "upnpEnable" /\ sources[17] = "upnpService" /\ sources[18] = "natVS"
      /\ sources[19] = "natPT" /\ sources[20] = "dmz" /\ sources[21] = "firewall"
      /\ sources[22] = "arp" /\ sources[23] = "mesh"
  BY DEF sources
<1>3. 1..23 = {1, 2, 3, 4, 5, 6, 7, 8, 9, 10, 11, 12, 13, 14, 15, 16, 17, 18, 19, 20, 21, 22, 23}
  OBVIOUS
<1> QED BY <1>1, <1>2, <1>3 DEF Sources

LEMMA PolledAreSources ==
  /\ \A mode \in modes : Polled(mode) \subseteq Sources
  /\ "wanSpeed" \notin Polled("ap")
<1>1. \A mode : mode # "ap" => Polled(mode) \subseteq Sources
  BY DEF Polled, sourcesFor, Sources
<1>2. Polled("ap") = {"clients", "clientTimes", "leases", "reservation", "dhcp", "statusAll",
                      "ports", "internet", "firmware", "clock", "mesh"}
  <2>1. DOMAIN apSources = 1..11
    BY DEF apSources
  <2>2. /\ apSources[1] = "clients" /\ apSources[2] = "clientTimes" /\ apSources[3] = "leases"
        /\ apSources[4] = "reservation" /\ apSources[5] = "dhcp" /\ apSources[6] = "statusAll"
        /\ apSources[7] = "ports" /\ apSources[8] = "internet" /\ apSources[9] = "firmware"
        /\ apSources[10] = "clock" /\ apSources[11] = "mesh"
    BY DEF apSources
  <2>3. 1..11 = {1, 2, 3, 4, 5, 6, 7, 8, 9, 10, 11}
    OBVIOUS
  <2> QED BY <2>1, <2>2, <2>3 DEF Polled, sourcesFor
<1> QED BY <1>1, <1>2, SourcesAre

LEMMA SectionsAre ==
  /\ {"Clients", "WANUptime", "WANSpeed"} \subseteq Sections
  /\ \A section \in Sections : sourceOf[section] \in Sources
  /\ sourceOf["WANSpeed"] = "wanSpeed"
BY SourcesAre DEF Sections, sourceOf

\* Every source feeds a section that reports its malformed rows, in either mode.
LEMMA EverySourceHasAReporter ==
  \A path \in Sources, mode \in modes :
    \E section \in sectionsOf(mode) : sourceOf[section] = path /\ section # "ClientRadio"
BY SourcesAre DEF sectionsOf, Sections, sourceOf

-----------------------------------------------------------------------------
(* assemble and record.                                                     *)

\* The sections whose reply there is, and those of them that are read or failed.
Due    == {section \in sectionsOf(snap.Mode) : answered(section)}
Read   == {section \in Due : parses(section, replies[sourceOf[section]].shape)}
Failed == {sourceOf[section] : section \in
             {x \in Due : complains(x, replies[sourceOf[x]].shape)}}

\* What poll hands to record: the assembled cycle, and maybe one more failure.
Complete(cycle) ==
    /\ DOMAIN cycle = CycleFields
    /\ cycle.Mode = snap.Mode /\ cycle.TakenAt = snap.TakenAt
    /\ cycle.sections = Read /\ Failed \subseteq cycle.Errors /\ cycle.Errors \subseteq Sources

LEMMA SnapFields ==
  TypeOK => /\ DOMAIN snap = CycleFields /\ DOMAIN Snap = CycleFields
            /\ snap.Mode \in modes /\ Snap.Mode \in modes
            /\ snap.TakenAt \in -1..now /\ now \in 0..MaxTime /\ MaxTime \in Nat
            /\ snap.Errors \subseteq Sources
BY SnapshotAssumption DEF TypeOK, CycleFields

LEMMA AssembleCompletes ==
  ASSUME TypeOK
  PROVE  /\ Complete(assemble)
         /\ \A path \in Sources : Complete([assemble EXCEPT !.Errors = @ \cup {path}])
<1>1. Failed \subseteq Sources
  BY SectionsAre DEF Failed, Due, sectionsOf
<1>2. assemble = [snap EXCEPT !.sections = Read, !.Errors = @ \cup Failed]
  BY DEF assemble, Read, Failed, Due
<1>3. /\ DOMAIN assemble = CycleFields
      /\ assemble.Mode = snap.Mode /\ assemble.TakenAt = snap.TakenAt
      /\ assemble.sections = Read /\ assemble.Errors = snap.Errors \cup Failed
  BY <1>2, SnapFields DEF CycleFields
<1>4. ASSUME NEW path \in Sources
      PROVE  LET cycle == [assemble EXCEPT !.Errors = @ \cup {path}] IN
             /\ DOMAIN cycle = CycleFields
             /\ cycle.Mode = assemble.Mode /\ cycle.TakenAt = assemble.TakenAt
             /\ cycle.sections = assemble.sections
             /\ cycle.Errors = assemble.Errors \cup {path}
  BY <1>3 DEF CycleFields
<1>5. snap.Errors \subseteq Sources
  BY SnapFields
<1> QED BY <1>1, <1>3, <1>4, <1>5 DEF Complete

\* A reply of which something could not be read is charged by some section.
LEMMA CompleteCharges ==
  ASSUME TypeOK, Gathering, NEW path \in DOMAIN replies
  PROVE  \/ path \in Failed
         \/ /\ replies[path].shape \notin {"bad", "rows"}
            /\ sectionsFrom[path] \cap sectionsOf(snap.Mode) \subseteq Read
<1>1. path \in Sources /\ snap.Mode \in modes
  BY SnapFields, PolledAreSources DEF Gathering
<1>2. SUFFICES ASSUME path \notin Failed
               PROVE  /\ replies[path].shape \notin {"bad", "rows"}
                      /\ sectionsFrom[path] \cap sectionsOf(snap.Mode) \subseteq Read
  OBVIOUS
<1>3. \A section \in sectionsOf(snap.Mode) : sourceOf[section] = path =>
        section \in Due /\ ~complains(section, replies[path].shape)
  BY <1>2 DEF Failed, Due, answered
<1>4. replies[path].shape \notin {"bad", "rows"}
  <2>1. PICK section \in sectionsOf(snap.Mode) : sourceOf[section] = path /\ section # "ClientRadio"
    BY <1>1, EverySourceHasAReporter
  <2> QED BY <1>3, <2>1 DEF complains, parses
<1>5. \A section \in sectionsFrom[path] : sourceOf[section] = path
  BY <1>1 DEF sectionsFrom
<1> QED BY <1>3, <1>4, <1>5 DEF complains, Read

LEMMA RecordStep ==
  ASSUME IInv, pc = "polling", NEW cycle, Complete(cycle), record(cycle), UNCHANGED now
  PROVE  IInv'
<1>0. /\ TypeOK /\ Counts /\ Gathering /\ Based /\ EveryFailureIsCharged
      /\ DOMAIN replies \subseteq Sources /\ EndpointErrors \in [Sources -> Nat]
  BY DEF IInv, TypeOK, Counts
<1>1. /\ pc' = "idle" /\ asked' = 0 /\ replies' = <<>> /\ snap' = NoSnapshot
      /\ Snap' = IF replies = <<>> THEN Snap ELSE cycle
      /\ origin' = IF replies = <<>> THEN origin ELSE replies
      /\ EndpointErrors' = [s \in Sources |->
                              EndpointErrors[s] + (IF s \in cycle.Errors THEN 1 ELSE 0)]
  BY DEF record, Published
<1>2. \A s \in Sources : /\ EndpointErrors'[s] \in Nat
                         /\ EndpointErrors'[s] >= EndpointErrors[s]
                         /\ s \in cycle.Errors => EndpointErrors'[s] > 0
  BY <1>0, <1>1
<1>3. Counts'
  <2>1. EndpointErrors' \in [Sources -> Nat]
    BY <1>1, <1>2
  <2> QED BY <1>0, <1>1, <2>1 DEF Counts
<1>4. Gathering'
  <2>1. DOMAIN replies' = {}
    BY <1>1
  <2> QED BY <1>1, <2>1 DEF Gathering
<1>5. TypeOK'
  <2>1. /\ DOMAIN NoSnapshot = CycleFields /\ NoSnapshot.TakenAt = -1 /\ NoSnapshot.Mode \in modes
        /\ NoSnapshot.sections = {} /\ NoSnapshot.Errors = {}
    BY DEF NoSnapshot, CycleFields, modes
  <2>2. Read \subseteq Sections
    BY DEF Read, Due, sectionsOf
  <2>3. \A c \in {cycle, Snap, NoSnapshot} :
          /\ DOMAIN c = CycleFields /\ c.TakenAt \in -1..now /\ c.Mode \in modes
          /\ c.sections \subseteq Sections /\ c.Errors \subseteq Sources
    BY <1>0, <2>1, <2>2, SnapFields DEF Complete, TypeOK, CycleFields
  <2>4. DOMAIN replies' \subseteq Sources /\ DOMAIN EndpointErrors' = Sources
    BY <1>1
  <2>5. asked' \in 0..Len(sources)
    BY <1>1, ListsAreLong
  <2>6. Snap' \in {cycle, Snap} /\ now' = now /\ now \in 0..MaxTime
    BY <1>1, SnapFields, <1>0
  <2> QED BY <1>1, <2>3, <2>4, <2>5, <2>6 DEF TypeOK, CycleFields
<1>6. CASE replies = <<>>
  <2>1. Snap' = Snap /\ origin' = origin
    BY <1>1, <1>6
  <2>2. Based'
    BY <1>0, <2>1 DEF Based
  <2>3. EveryFailureIsCharged'
    <3>1. \A path \in DOMAIN origin : path \in Sources
      BY <1>0 DEF Counts
    <3>2. \A path \in DOMAIN origin : EndpointErrors[path] > 0 => EndpointErrors'[path] > 0
      BY <1>0, <1>2, <3>1
    <3> QED BY <1>0, <2>1, <3>2 DEF EveryFailureIsCharged
  <2> QED BY <1>3, <1>4, <1>5, <2>2, <2>3 DEF IInv
<1>7. CASE replies # <<>>
  <2>1. Snap' = cycle /\ origin' = replies
    BY <1>1, <1>7
  <2>2. Based'
    <3>1. \A section \in Read : /\ section \in sectionsOf(snap.Mode)
                                /\ sourceOf[section] \in DOMAIN replies
                                /\ parses(section, replies[sourceOf[section]].shape)
      BY DEF Read, Due, answered
    <3> QED BY <1>0, <2>1, <3>1 DEF Based, Gathering, Complete
  <2>3. EveryFailureIsCharged'
    <3>1. \A path \in DOMAIN replies :
            \/ path \in cycle.Errors /\ EndpointErrors'[path] > 0
            \/ /\ replies[path].shape \notin {"bad", "rows"}
               /\ sectionsFrom[path] \cap sectionsOf(cycle.Mode) \subseteq cycle.sections
      BY <1>0, <1>2, CompleteCharges DEF Complete
    <3> QED BY <2>1, <3>1 DEF EveryFailureIsCharged
  <2> QED BY <1>3, <1>4, <1>5, <2>2, <2>3 DEF IInv
<1> QED BY <1>6, <1>7

-----------------------------------------------------------------------------
(* Induction.                                                               *)

LEMMA InvInit == Init => IInv
<1> SUFFICES ASSUME Init PROVE IInv
  OBVIOUS
<1>1. /\ pc = "idle" /\ now = 0 /\ asked = 0 /\ replies = <<>> /\ snap = NoSnapshot
      /\ Snap = NoSnapshot /\ origin = <<>>
      /\ EndpointErrors = [path \in Sources |-> 0]
  BY DEF Init
<1>2. /\ DOMAIN NoSnapshot = CycleFields /\ NoSnapshot.TakenAt = -1 /\ NoSnapshot.Mode \in modes
      /\ NoSnapshot.sections = {} /\ NoSnapshot.Errors = {}
  BY DEF NoSnapshot, CycleFields, modes
<1>3. DOMAIN replies = {} /\ DOMAIN origin = {}
  BY <1>1
<1>4. TypeOK
  BY <1>1, <1>2, <1>3, ListsAreLong, SnapshotAssumption DEF TypeOK, CycleFields
<1>5. Counts
  BY <1>1, <1>3 DEF Counts
<1>6. Gathering /\ Based /\ EveryFailureIsCharged
  BY <1>1, <1>2, <1>3 DEF Gathering, Based, EveryFailureIsCharged
<1> QED BY <1>4, <1>5, <1>6 DEF IInv

\* The steps that gather leave alone what is published.
Publishes == UNCHANGED <<Snap, EndpointErrors, origin>>

LEMMA GatherStep ==
  ASSUME IInv, Publishes, TypeOK', Gathering'
  PROVE  IInv'
BY DEF IInv, Publishes, Counts, Based, EveryFailureIsCharged

\* The source that is asked next is one of the mode's.
LEMMA SourceAsked ==
  ASSUME TypeOK, Asking
  PROVE  /\ source \in Polled(snap.Mode) /\ source \in Sources
         /\ asked \in Nat /\ asked + 1 \in 0..Len(sources)
<1>1. /\ Len(sources) = 23 /\ DOMAIN sources = 1..23
      /\ Len(apSources) = 11 /\ DOMAIN apSources = 1..11
  BY DEF sources, apSources
<1>2. PICK n \in {11, 23} : /\ Len(sourcesFor(snap.Mode)) = n
                            /\ DOMAIN sourcesFor(snap.Mode) = 1..n
  <2>1. sourcesFor(snap.Mode) \in {sources, apSources}
    BY DEF sourcesFor
  <2> QED BY <1>1, <2>1
<1>3. asked \in 0..23 /\ asked < n
  BY <1>1, <1>2 DEF TypeOK, Asking
<1>4. asked + 1 \in DOMAIN sourcesFor(snap.Mode) /\ asked + 1 \in 0..Len(sources)
  BY <1>1, <1>2, <1>3
<1>5. source \in Polled(snap.Mode)
  BY <1>4 DEF source, Polled
<1>6. source \in Sources
  BY <1>5, PolledAreSources, SnapFields
<1> QED BY <1>3, <1>4, <1>5, <1>6

LEMMA BeginStep == ASSUME IInv, BeginCycle PROVE IInv'
<1>1. PICK mode \in modes : snap' = [NoSnapshot EXCEPT !.TakenAt = now, !.Mode = mode]
  BY DEF BeginCycle
<1>2. /\ pc' = "polling" /\ asked' = 0 /\ replies' = <<>> /\ UNCHANGED <<now, Snap>> /\ Publishes
      /\ TypeOK
  BY DEF BeginCycle, Publishes, IInv
<1>3. /\ DOMAIN snap' = CycleFields /\ snap'.TakenAt = now /\ snap'.Mode = mode
      /\ snap'.sections = {} /\ snap'.Errors = {}
  BY <1>1 DEF NoSnapshot, CycleFields
<1>4. DOMAIN replies' = {}
  BY <1>2
<1>5. now \in -1..now
  BY <1>2, SnapFields
<1>6. TypeOK'
  BY <1>2, <1>3, <1>4, <1>5, ListsAreLong DEF TypeOK, CycleFields, Publishes
<1>7. Gathering'
  BY <1>2, <1>4 DEF Gathering
<1> QED BY <1>2, <1>6, <1>7, GatherStep

LEMMA AnswerStep == ASSUME IInv, CallAnswers PROVE IInv'
<1>0. TypeOK /\ Gathering
  BY DEF IInv
<1>1. PICK shape : replies' = [s \in DOMAIN replies \cup {source} |->
                               IF s = source THEN [shape |-> shape, at |-> now] ELSE replies[s]]
  BY DEF CallAnswers
<1>2. /\ Asking /\ asked' = asked + 1 /\ UNCHANGED <<pc, now, snap>> /\ Publishes /\ pc = "polling"
  BY DEF CallAnswers, Publishes, Asking
<1>3. source \in Polled(snap.Mode) /\ source \in Sources /\ asked + 1 \in 0..Len(sources)
  BY <1>0, <1>2, SourceAsked
<1>4. DOMAIN replies' = DOMAIN replies \cup {source}
  BY <1>1
<1>5. TypeOK'
  BY <1>0, <1>2, <1>3, <1>4 DEF TypeOK, Publishes
<1>6. Gathering'
  <2>1. replies'[source].at = now
    BY <1>1
  <2>2. \A path \in DOMAIN replies : path # source => replies'[path] = replies[path]
    BY <1>1
  <2>3. now \in Int /\ now >= snap.TakenAt
    BY <1>0, SnapFields
  <2> QED BY <1>0, <1>2, <1>3, <1>4, <2>1, <2>2, <2>3 DEF Gathering
<1> QED BY <1>2, <1>5, <1>6, GatherStep

LEMMA FailStep == ASSUME IInv, CallFails PROVE IInv'
<1>0. TypeOK /\ Gathering
  BY DEF IInv
<1>1. /\ Asking /\ asked' = asked + 1 /\ UNCHANGED <<pc, now, replies>> /\ Publishes
      /\ snap' = [snap EXCEPT !.Errors = @ \cup {source}]
  BY DEF CallFails, Publishes
<1>2. source \in Sources /\ asked + 1 \in 0..Len(sources)
  BY <1>0, <1>1, SourceAsked
<1>3. /\ DOMAIN snap' = CycleFields /\ snap'.TakenAt = snap.TakenAt /\ snap'.Mode = snap.Mode
      /\ snap'.sections = snap.sections /\ snap'.Errors = snap.Errors \cup {source}
  BY <1>0, <1>1, SnapFields DEF CycleFields
<1>4. TypeOK'
  BY <1>0, <1>1, <1>2, <1>3 DEF TypeOK, CycleFields, Publishes
<1>5. Gathering'
  BY <1>0, <1>1, <1>3 DEF Gathering
<1> QED BY <1>1, <1>4, <1>5, GatherStep

LEMMA TickStep == ASSUME IInv, Tick PROVE IInv'
<1>0. TypeOK /\ Gathering
  BY DEF IInv
<1>1. /\ now < MaxTime /\ now' = now + 1 /\ UNCHANGED <<pc, asked, replies, snap>> /\ Publishes
  BY DEF Tick, Publishes
<1>2. now' \in 0..MaxTime /\ \A t \in -1..now : t \in -1..now'
  BY <1>0, <1>1, SnapFields
<1>3. TypeOK'
  BY <1>0, <1>1, <1>2 DEF TypeOK, Publishes
<1>4. Gathering'
  BY <1>0, <1>1 DEF Gathering
<1> QED BY <1>1, <1>3, <1>4, GatherStep

LEMMA InvStep == IInv /\ [Next]_vars => IInv'
<1> SUFFICES ASSUME IInv, [Next]_vars PROVE IInv'
  OBVIOUS
<1>1. CASE BeginCycle
  BY <1>1, BeginStep
<1>2. CASE CallAnswers
  BY <1>2, AnswerStep
<1>3. CASE CallFails
  BY <1>3, FailStep
<1>4. CASE CallExpired
  <2>1. /\ pc = "polling" /\ UNCHANGED now /\ record([assemble EXCEPT !.Errors = @ \cup {source}])
        /\ Asking /\ TypeOK
    BY <1>4 DEF CallExpired, Asking, IInv
  <2>2. Complete([assemble EXCEPT !.Errors = @ \cup {source}])
    BY <2>1, SourceAsked, AssembleCompletes
  <2> QED BY <2>1, <2>2, RecordStep
<1>5. CASE PollEnds
  <2>1. pc = "polling" /\ UNCHANGED now /\ record(assemble) /\ TypeOK
    BY <1>5 DEF PollEnds, IInv
  <2> QED BY <2>1, AssembleCompletes, RecordStep
<1>6. CASE Tick
  BY <1>6, TickStep
<1>7. CASE Unreachable \/ Back \/ UNCHANGED vars
  <2>1. UNCHANGED <<pc, now, asked, replies, snap>> /\ Publishes
    BY <1>7 DEF Unreachable, Back, vars, Publishes
  <2>2. TypeOK' /\ Gathering'
    BY <2>1 DEF IInv, TypeOK, Gathering, Publishes
  <2> QED BY <2>1, <2>2, GatherStep
<1> QED BY <1>1, <1>2, <1>3, <1>4, <1>5, <1>6, <1>7 DEF Next

LEMMA Invariance == Spec => []IInv
BY InvInit, InvStep, PTL DEF Spec

-----------------------------------------------------------------------------
(* What a scrape may rely on.                                               *)

\* The snapshot being filled and the one being served are Snapshots, the second of
\* a time that has been.
THEOREM SnapshotTypeCorrect == Spec => []TypeOK
<1>1. IInv => TypeOK
  BY DEF IInv
<1> QED BY <1>1, Invariance, PTL

\* snapError, fill, record: what was asked for and could not be read is in Errors and
\* counted, whatever the shape of the replies.
THEOREM EveryFailureIsChargedHolds == Spec => []EveryFailureIsCharged
<1>1. IInv => EveryFailureIsCharged
  BY DEF IInv
<1> QED BY <1>1, Invariance, PTL

LEMMA ServedIsRecent == IInv => ReadingsWereTaken
<1> SUFFICES ASSUME IInv, NEW family \in served, NEW section \in needs[family]
             PROVE  /\ sourceOf[section] \in DOMAIN origin
                    /\ parses(section, origin[sourceOf[section]].shape)
                    /\ now - origin[sourceOf[section]].at <= maxAge
  BY DEF ReadingsWereTaken
<1>1. section \in Snap.sections /\ now - Snap.TakenAt <= maxAge
  BY DEF served, fresh
<1>2. /\ sourceOf[section] \in DOMAIN origin
      /\ parses(section, origin[sourceOf[section]].shape)
      /\ origin[sourceOf[section]].at \in Int /\ origin[sourceOf[section]].at >= Snap.TakenAt
  BY <1>1 DEF IInv, Based
<1>3. Snap.TakenAt \in Int /\ now \in Int /\ maxAge \in Int
  BY SnapshotAssumption DEF IInv, TypeOK
<1> QED BY <1>1, <1>2, <1>3

\* poll, assemble, Collect: whatever a scrape reads was parsed from replies to one cycle,
\* none asked longer ago than maxAge.
THEOREM ReadingsWereTakenHolds == Spec => []ReadingsWereTaken
BY ServedIsRecent, Invariance, PTL

LEMMA NothingOfARouter == IInv => NoZeroesOfAnAccessPoint
<1> SUFFICES ASSUME IInv, Snap.Mode = "ap"
             PROVE  served \cap {"WANUptime", "WANSpeed", "WANLink", "ClientTraffic"} = {}
  BY DEF NoZeroesOfAnAccessPoint
<1>1. "WANUptime" \notin Snap.sections
  BY DEF IInv, Based, sectionsOf
<1>2. "WANSpeed" \notin Snap.sections
  BY SectionsAre, PolledAreSources DEF IInv, Based
<1>3. needs["WANUptime"] = {"WANUptime"} /\ needs["WANSpeed"] = {"WANSpeed"}
  BY SectionsAre DEF needs, families
<1>4. served \subseteq familiesOf("ap") /\ \A family \in served : needs[family] \subseteq Snap.sections
  BY DEF served
<1> QED BY <1>1, <1>2, <1>3, <1>4 DEF familiesOf

\* assembleWAN, collectRouter, collectClients: an access point's zeroes are not published,
\* whichever mode the device was in before.
THEOREM NoZeroesHolds == Spec => []NoZeroesOfAnAccessPoint
BY NothingOfARouter, Invariance, PTL

=============================================================================
