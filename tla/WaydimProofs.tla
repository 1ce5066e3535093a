----------------------------- MODULE WaydimProofs -----------------------------
(***************************************************************************)
(* Theorems about Waydim.tla, for every set of connectors, backlights,     *)
(* panels and monitors, however many of them share an EDID: the types,     *)
(* that an output is driven by its own device, that nothing is lost, and   *)
(* that the order of the answers does not matter.                          *)
(***************************************************************************)
EXTENDS Waydim, FiniteSetTheorems, SequenceTheorems, WellFoundedInduction, TLAPS

-----------------------------------------------------------------------------
(* Maps filled in order                                                    *)

(* Of finitely many positions one is the last.                             *)
LEMMA LastOne ==
    ASSUME NEW k \in Nat, NEW some \in SUBSET (1 .. k), some # {}
    PROVE  Max(some) \in some
<1> DEFINE back == {k - i : i \in some}
<1>1. back \in SUBSET Nat /\ back # {}
  <2>1. \A i \in some : k - i \in Nat
    OBVIOUS
  <2> QED
    BY <2>1
<1>2. PICK b \in back : \A d \in back : <<d, b>> \notin OpToRel(<, Nat)
  <2>1. IsWellFoundedOn(OpToRel(<, Nat), Nat)
    BY NatLessThanWellFounded, Zenon
  <2> HIDE DEF back
  <2> QED
    BY <1>1, <2>1, WFMin, Zenon
<1>3. \A d \in back : ~ (d < b)
  <2> HIDE DEF back
  <2> QED
    BY <1>1, <1>2 DEF OpToRel
<1>4. PICK last \in some : b = k - last
  BY <1>2
<1>5. \A i \in some : last >= i
  <2> TAKE i \in some
  <2>1. ~ (k - i < k - last)
    BY <1>3, <1>4
  <2>2. i \in 1 .. k /\ last \in 1 .. k
    OBVIOUS
  <2> QED
    BY <2>1, <2>2
<1> QED
  BY <1>4, <1>5 DEF Max

(* Every name but None is in the map, with the device of one that has it.  *)
LEMMA Named ==
    ASSUME NEW k \in Nat, NEW m, DOMAIN m = 1 .. k
    PROVE  /\ DOMAIN ByName(m) = {m[i].name : i \in 1 .. k} \ {None}
           /\ \A n \in DOMAIN ByName(m) :
                 \E i \in 1 .. k : m[i].name = n /\ ByName(m)[n] = m[i].device
<1>1. DOMAIN ByName(m) = {m[i].name : i \in 1 .. k} \ {None}
  BY DEF ByName
<1>2. ASSUME NEW n \in DOMAIN ByName(m)
      PROVE  \E i \in 1 .. k : m[i].name = n /\ ByName(m)[n] = m[i].device
  <2> DEFINE some == {i \in 1 .. k : m[i].name = n}
  <2>1. some \in SUBSET (1 .. k) /\ some # {}
    BY <1>1, <1>2
  <2>2. ByName(m)[n] = m[Max(some)].device
    BY <1>1, <1>2 DEF ByName
  <2>3. Max(some) \in some
    <3> HIDE DEF some
    <3> QED
      BY <2>1, LastOne
  <2> QED
    BY <2>2, <2>3
<1> QED
  BY <1>1, <1>2

-----------------------------------------------------------------------------
(* Connectors and their EDIDs                                              *)

(* Connectors and buses are one to one; their names are distinct.          *)
LEMMA Buses ==
    /\ \A c \in drm_connectors : BusOf[c] \in BusNames /\ ConnectorOf(BusOf[c]) = c
    /\ \A bus \in BusNames : ConnectorOf(bus) \in drm_connectors /\ BusOf[ConnectorOf(bus)] = bus
    /\ \A c \in drm_connectors : c.connector \in OutputNames /\ c.connector # None
<1>1. \A c \in drm_connectors : c.connector \in OutputNames /\ c.connector # None
  BY DEF drm_connectors, OutputNames, is_connector_name
<1>2. ASSUME NEW bus \in BusNames
      PROVE  ConnectorOf(bus) \in drm_connectors /\ BusOf[ConnectorOf(bus)] = bus
  <2>1. \E c \in drm_connectors : BusOf[c] = bus
    BY DEF BusNames
  <2> QED
    BY <2>1 DEF ConnectorOf
<1>3. ASSUME NEW c \in drm_connectors
      PROVE  BusOf[c] \in BusNames /\ ConnectorOf(BusOf[c]) = c
  <2>1. BusOf[c] \in BusNames
    BY DEF BusNames
  <2> QED
    BY <1>2, <2>1, BusOfAssumption
<1> QED
  BY <1>1, <1>2, <1>3

(* A connector that is taken is the only one that can be read and has the  *)
(* EDID.                                                                   *)
LEMMA TakenIsTheOne ==
    ASSUME NEW edids, NEW order, NEW i, NEW c \in Taken(order, i, edids)
    PROVE  /\ c \in DOMAIN edids /\ edids[c] = order[i].edid /\ edids[c] # None
           /\ \A d \in DOMAIN edids : edids[d] = edids[c] => d = c
BY DEF Taken, unique_edids

-----------------------------------------------------------------------------
(* The devices of a discovery                                              *)

(* A backlight goes by the connector of its panel or by none.              *)
LEMMA LightsReachThemselves ==
    ASSUME NEW order \in SetToSeqs(Backlights), NEW edids, DOMAIN edids = drm_connectors,
           NEW linked
    PROVE  \A n \in DOMAIN BacklightDevices(order, edids, linked) :
              /\ BacklightDevices(order, edids, linked)[n] \in Device
              /\ n = Reached(BacklightDevices(order, edids, linked)[n]).connector
              /\ n \in OutputNames
<1> DEFINE k == Cardinality(Backlights)
           entries == [i \in DOMAIN order |->
                          [edid |-> IF order[i] \in linked THEN None
                                    ELSE edids[Parent[order[i]]]]]
           connector(i) == IF order[i] \in linked THEN {Parent[order[i]]}
                           ELSE Taken(entries, i, edids)
           m == [i \in DOMAIN order |->
                   [name   |-> IF connector(i) = {} THEN None
                               ELSE connector_output_name(CHOOSE c \in connector(i) : TRUE),
                    device |-> [kind |-> "Backlight", backlight |-> order[i]]]]
<1>1. k \in Nat /\ order \in [1 .. k -> Backlights]
  BY FS_CardinalityType, ParentAssumption DEF SetToSeqs
<1>2. BacklightDevices(order, edids, linked) = ByName(m)
  BY DEF BacklightDevices
<1>3. ASSUME NEW i \in 1 .. k, m[i].name # None
      PROVE  /\ m[i].device \in Device /\ m[i].name \in OutputNames
             /\ m[i].name = Reached(m[i].device).connector
  <2>1. order[i] \in Backlights /\ Parent[order[i]] \in drm_connectors
    BY <1>1, ParentAssumption
  <2>2. m[i].device = [kind |-> "Backlight", backlight |-> order[i]]
    BY <1>1
  <2>3. connector(i) # {} /\ m[i].name = (CHOOSE c \in connector(i) : TRUE).connector
    BY <1>1, <1>3 DEF connector_output_name
  <2>4. \A c \in connector(i) : c = Parent[order[i]]
    <3>1. CASE order[i] \in linked
      BY <3>1
    <3>2. CASE order[i] \notin linked
      <4> SUFFICES ASSUME NEW c \in Taken(entries, i, edids) PROVE c = Parent[order[i]]
        BY <3>2
      <4>1. entries[i].edid = edids[Parent[order[i]]]
        BY <1>1, <3>2
      <4> HIDE DEF entries
      <4> QED
        BY <2>1, <4>1, TakenIsTheOne
    <3> QED
      BY <3>1, <3>2
  <2>5. m[i].name = Parent[order[i]].connector
    <3> HIDE DEF connector, m
    <3> QED
      BY <2>3, <2>4
  <2>6. m[i].device \in Device /\ Reached(m[i].device) = Parent[order[i]]
    <3> HIDE DEF m
    <3> QED
      BY <2>1, <2>2 DEF Device, Reached
  <2> QED
    BY <2>1, <2>5, <2>6, Buses
<1>4. DOMAIN m = 1 .. k
  BY <1>1
<1> HIDE DEF m, k
<1> SUFFICES ASSUME NEW n \in DOMAIN ByName(m)
             PROVE  /\ ByName(m)[n] \in Device /\ n \in OutputNames
                    /\ n = Reached(ByName(m)[n]).connector
  BY <1>2
<1>5. /\ DOMAIN ByName(m) = {m[i].name : i \in 1 .. k} \ {None}
      /\ \A name \in DOMAIN ByName(m) :
            \E i \in 1 .. k : m[i].name = name /\ ByName(m)[name] = m[i].device
  BY <1>1, <1>4, Named, Zenon
<1>6. n # None /\ \E i \in 1 .. k : m[i].name = n /\ ByName(m)[n] = m[i].device
  BY <1>5
<1> QED
  BY <1>3, <1>6

(* What the i-th answer is called.                                         *)
NameOf(order, i, edids) ==
    IF Taken(order, i, edids) = {} THEN order[i].bus
    ELSE connector_output_name(CHOOSE c \in Taken(order, i, edids) : TRUE)

DdcCi(bus) == [kind |-> "DdcCi", bus |-> bus]

(* A name is a connector's that was taken, or else the bus.                *)
LEMMA NamesAreTaken ==
    ASSUME NEW order, NEW i, NEW edids, DOMAIN edids = drm_connectors,
           order[i].bus \in BusNames
    PROVE  /\ NameOf(order, i, edids) # None
           /\ \/ /\ Taken(order, i, edids) = {} /\ NameOf(order, i, edids) = order[i].bus
                 /\ NameOf(order, i, edids) \notin OutputNames
              \/ \E c \in Taken(order, i, edids) :
                    c \in drm_connectors /\ NameOf(order, i, edids) = c.connector
<1>1. CASE Taken(order, i, edids) = {}
  BY <1>1, BusOfAssumption DEF NameOf
<1>2. CASE Taken(order, i, edids) # {}
  <2> DEFINE c == CHOOSE c \in Taken(order, i, edids) : TRUE
  <2>1. c \in Taken(order, i, edids) /\ NameOf(order, i, edids) = c.connector
    BY <1>2 DEF NameOf, connector_output_name
  <2> HIDE DEF c
  <2>2. c \in drm_connectors
    BY <2>1, TakenIsTheOne
  <2> QED
    BY <2>1, <2>2, Buses
<1> QED
  BY <1>1, <1>2

(* Every answer has a place in the map, under the name of the connector    *)
(* it took or of its bus, and every place is one answer's.                 *)
LEMMA AnswersAreNamed ==
    ASSUME NEW S, NEW order \in Seq(S), NEW edids, DOMAIN edids = drm_connectors,
           \A i \in 1 .. Len(order) : order[i].bus \in BusNames
    PROVE  /\ \A i \in 1 .. Len(order) : NameOf(order, i, edids) \in DOMAIN DdcCiDevices(order, edids)
           /\ \A n \in DOMAIN DdcCiDevices(order, edids) :
                 \E i \in 1 .. Len(order) :
                    /\ n = NameOf(order, i, edids)
                    /\ DdcCiDevices(order, edids)[n] = DdcCi(order[i].bus)
<1> DEFINE m == [i \in DOMAIN order |->
                   [name   |-> NameOf(order, i, edids),
                    device |-> [kind |-> "DdcCi", bus |-> order[i].bus]]]
           k == Len(order)
<1>1. k \in Nat /\ DOMAIN m = 1 .. k
  OBVIOUS
<1>2. DdcCiDevices(order, edids) = ByName(m)
  BY DEF DdcCiDevices, NameOf
<1>3. \A i \in 1 .. k : /\ m[i].name = NameOf(order, i, edids)
                        /\ m[i].device = DdcCi(order[i].bus)
  BY <1>1 DEF DdcCi
<1> HIDE DEF m
<1>4. /\ DOMAIN ByName(m) = {m[i].name : i \in 1 .. k} \ {None}
      /\ \A n \in DOMAIN ByName(m) :
            \E i \in 1 .. k : m[i].name = n /\ ByName(m)[n] = m[i].device
  <2> HIDE DEF k
  <2> QED
    BY <1>1, Named, Zenon
<1>5. \A i \in 1 .. k : NameOf(order, i, edids) # None
  BY NamesAreTaken
<1>6. \A i \in 1 .. k : m[i].name \in DOMAIN ByName(m)
  BY <1>3, <1>4, <1>5
<1> SUFFICES /\ \A i \in 1 .. k : NameOf(order, i, edids) \in DOMAIN ByName(m)
             /\ \A n \in DOMAIN ByName(m) :
                   \E i \in 1 .. k : /\ n = NameOf(order, i, edids)
                                    /\ ByName(m)[n] = DdcCi(order[i].bus)
  BY <1>2
<1>7. \A i \in 1 .. k : NameOf(order, i, edids) \in DOMAIN ByName(m)
  BY <1>3, <1>6
<1>8. ASSUME NEW n \in DOMAIN ByName(m)
      PROVE  \E i \in 1 .. k : n = NameOf(order, i, edids) /\ ByName(m)[n] = DdcCi(order[i].bus)
  <2>1. PICK i \in 1 .. k : m[i].name = n /\ ByName(m)[n] = m[i].device
    BY <1>4, <1>8
  <2>2. m[i].name = NameOf(order, i, edids) /\ m[i].device = DdcCi(order[i].bus)
    BY <1>3
  <2> QED
    BY <2>1, <2>2
<1> QED
  BY <1>7, <1>8

-----------------------------------------------------------------------------
(* The inductive invariant                                                 *)

Edids == {EdidOf[p] : p \in Panels}

Entry == [bus : BusNames, edid : Edids \cup {None}]

(* What was answered by the monitor that is (still) there.                 *)
Answered(entry, plugged) ==
    /\ plugged[ConnectorOf(entry.bus)] # None
    /\ entry.edid \in {None, EdidOf[plugged[ConnectorOf(entry.bus)]]}

(* Each bus has answered at most once, and, if nothing moved, with what is *)
(* connected to it.                                                        *)
Answers ==
    /\ found \in Seq(Entry)
    /\ at = "idle" => found = <<>>
    /\ \A i \in 1 .. Len(found) : found[i].bus \notin buses
    /\ \A i, j \in 1 .. Len(found) : found[i].bus = found[j].bus => i = j
    /\ ~doubt => \A i \in 1 .. Len(found) : Answered(found[i], attached)

LightsReach ==
    \A n \in DOMAIN lights :
        /\ n \in OutputNames /\ lights[n] \in Device
        /\ n = Reached(lights[n]).connector

Inv == TypeOK /\ Answers /\ LightsReach /\ OutputsReachThemselves

(* Of a device that answered and whose EDID one connector alone has, that  *)
(* connector is its own, unless a dark one hides the double.               *)
LEMMA MatchedToTheirOwn ==
    ASSUME TypeOK, Answers, ~doubt, NEW dark \in SUBSET Attached, ~Blurs(dark),
           NEW i \in 1 .. Len(found), NEW c \in Taken(found, i, ConnectorEdids(dark))
    PROVE  c = ConnectorOf(found[i].bus)
<1> DEFINE edids == ConnectorEdids(dark)
           own == ConnectorOf(found[i].bus)
<1>1. found[i] \in Entry /\ found[i].bus \in BusNames
  <2>1. found \in Seq(Entry)
    BY DEF Answers
  <2>2. found[i] \in Entry
    BY <2>1, ElementOfSeq
  <2> QED
    BY <2>2 DEF Entry
<1>2. own \in drm_connectors /\ attached[own] # None
  BY <1>1, Buses DEF Answers, Answered
<1>3. /\ c \in drm_connectors /\ edids[c] = found[i].edid /\ edids[c] # None
      /\ \A d \in drm_connectors : edids[d] = edids[c] => d = c
  <2>1. DOMAIN edids = drm_connectors
    BY DEF ConnectorEdids
  <2> QED
    BY <2>1, TakenIsTheOne
<1>4. found[i].edid = EdidOf[attached[own]]
  <2>1. found[i].edid \in {None, EdidOf[attached[own]]}
    BY DEF Answers, Answered
  <2> QED
    BY <1>3, <2>1
<1>5. c \notin dark /\ attached[c] # None /\ edids[c] = EdidOf[attached[c]]
  BY <1>3 DEF ConnectorEdids
<1>6. CASE own \in dark
  <2>1. own = c
    BY <1>2, <1>3, <1>4, <1>5, <1>6 DEF Blurs, Attached
  <2> QED
    BY <2>1
<1>7. CASE own \notin dark
  <2>1. edids[own] = EdidOf[attached[own]]
    BY <1>2, <1>7 DEF ConnectorEdids
  <2> QED
    BY <1>2, <1>3, <1>4, <2>1
<1> QED
  BY <1>6, <1>7

(* What a discovery that found the monitors leads to, with some connectors *)
(* dark at its end.                                                        *)
Discovered(dark) == InsertAll(lights, DdcCiDevices(found, ConnectorEdids(dark)))

(* Each name of it leads to a backlight that was mapped or to the bus of   *)
(* an answer, which has that name.                                         *)
LEMMA DiscoveredNames ==
    ASSUME Inv, NEW dark \in SUBSET Attached, NEW n \in DOMAIN Discovered(dark)
    PROVE  \/ /\ n \in DOMAIN lights /\ Discovered(dark)[n] = lights[n]
           \/ \E i \in 1 .. Len(found) :
                 /\ found[i].bus \in BusNames
                 /\ n = NameOf(found, i, ConnectorEdids(dark))
                 /\ Discovered(dark)[n] = DdcCi(found[i].bus)
<1> DEFINE edids == ConnectorEdids(dark)
           more == DdcCiDevices(found, edids)
<1>1. found \in Seq(Entry) /\ DOMAIN edids = drm_connectors
  BY DEF Inv, Answers, ConnectorEdids
<1>2. \A i \in 1 .. Len(found) : found[i].bus \in BusNames
  <2>1. \A i \in 1 .. Len(found) : found[i] \in Entry
    BY <1>1, ElementOfSeq
  <2> QED
    BY <2>1 DEF Entry
<1> HIDE DEF edids
<1>3. CASE n \in DOMAIN more
  <2>1. Discovered(dark)[n] = more[n]
    BY <1>3 DEF Discovered, InsertAll, edids
  <2>2. \E i \in 1 .. Len(found) :
           n = NameOf(found, i, edids) /\ more[n] = DdcCi(found[i].bus)
    BY <1>1, <1>2, <1>3, AnswersAreNamed
  <2> QED
    BY <1>2, <2>1, <2>2 DEF edids
<1>4. CASE n \notin DOMAIN more
  BY <1>4 DEF Discovered, InsertAll, edids
<1> QED
  BY <1>3, <1>4

(* All of it are devices, and none is known by anything but an output's or *)
(* a bus' name.                                                            *)
LEMMA DiscoveredTypes ==
    ASSUME Inv, NEW dark \in SUBSET Attached, NEW n \in DOMAIN Discovered(dark)
    PROVE  n \in OutputNames \cup BusNames /\ Discovered(dark)[n] \in Device
<1>1. CASE n \in DOMAIN lights /\ Discovered(dark)[n] = lights[n]
  BY <1>1 DEF Inv, LightsReach
<1>2. ASSUME NEW i \in 1 .. Len(found), found[i].bus \in BusNames,
             n = NameOf(found, i, ConnectorEdids(dark)),
             Discovered(dark)[n] = DdcCi(found[i].bus)
      PROVE  n \in OutputNames \cup BusNames /\ Discovered(dark)[n] \in Device
  <2>1. DOMAIN ConnectorEdids(dark) = drm_connectors
    BY DEF ConnectorEdids
  <2>2. n \in OutputNames \cup BusNames
    BY <1>2, <2>1, NamesAreTaken, Buses
  <2>3. DdcCi(found[i].bus) \in Device
    BY <1>2 DEF DdcCi, Device
  <2> QED
    BY <1>2, <2>2, <2>3
<1> QED
  BY <1>1, <1>2, DiscoveredNames

(* Without doubt, every output name in it leads to a connector of it.      *)
LEMMA DiscoveredReach ==
    ASSUME Inv, ~doubt, NEW dark \in SUBSET Attached, ~Blurs(dark),
           NEW n \in DOMAIN Discovered(dark), n \in OutputNames
    PROVE  Reached(Discovered(dark)[n]).connector = n
<1>1. CASE n \in DOMAIN lights /\ Discovered(dark)[n] = lights[n]
  BY <1>1 DEF Inv, LightsReach
<1>2. ASSUME NEW i \in 1 .. Len(found), found[i].bus \in BusNames,
             n = NameOf(found, i, ConnectorEdids(dark)),
             Discovered(dark)[n] = DdcCi(found[i].bus)
      PROVE  Reached(Discovered(dark)[n]).connector = n
  <2>1. DOMAIN ConnectorEdids(dark) = drm_connectors
    BY DEF ConnectorEdids
  <2>2. PICK c \in Taken(found, i, ConnectorEdids(dark)) : n = c.connector
    BY <1>2, <2>1, NamesAreTaken
  <2>3. c = ConnectorOf(found[i].bus)
    BY MatchedToTheirOwn DEF Inv
  <2>4. Reached(DdcCi(found[i].bus)) = ConnectorOf(found[i].bus)
    BY DEF Reached, DdcCi
  <2> QED
    BY <1>2, <2>2, <2>3, <2>4
<1> QED
  BY <1>1, <1>2, DiscoveredNames

-----------------------------------------------------------------------------
(* Every step keeps the invariant                                          *)

(* There is nothing at the start.                                          *)
LEMMA InitInv == Init => Inv
<1> SUFFICES ASSUME Init PROVE Inv
  OBVIOUS
<1> USE DEF Init, NoDevices
<1>1. TypeOK
  BY DEF TypeOK
<1>2. Answers
  BY EmptySeq DEF Answers
<1>3. LightsReach /\ OutputsReachThemselves
  BY DEF LightsReach, OutputsReachThemselves
<1> QED
  BY <1>1, <1>2, <1>3 DEF Inv

(* The first half of a discovery: nothing has answered yet.                *)
LEMMA StepLights == Inv /\ map_backlights_to_connectors => Inv'
<1> SUFFICES ASSUME Inv, map_backlights_to_connectors PROVE Inv'
  OBVIOUS
<1> USE DEF map_backlights_to_connectors
<1>1. PICK dark \in SUBSET Attached, order \in SetToSeqs(Backlights),
           linked \in SUBSET {b \in Backlights : Parent[b] \in Linked} :
           /\ lights' = BacklightDevices(order, ConnectorEdids(dark), linked)
           /\ doubt' = Blurs(dark)
  OBVIOUS
<1>2. LightsReach'
  <2>1. DOMAIN ConnectorEdids(dark) = drm_connectors
    BY DEF ConnectorEdids
  <2> QED
    BY <1>1, <2>1, LightsReachThemselves DEF LightsReach
<1>3. TypeOK'
  <2>1. DOMAIN lights' \subseteq OutputNames
    BY <1>2 DEF LightsReach
  <2>2. doubt' \in BOOLEAN
    BY <1>1 DEF Blurs
  <2> QED
    BY <2>1, <2>2 DEF Inv, TypeOK
<1>4. Answers'
  <2>1. found' = <<>> /\ at' = "probe"
    BY DEF Inv, Answers
  <2> QED
    BY <2>1, EmptySeq DEF Answers
<1>5. OutputsReachThemselves'
  BY DEF Inv, OutputsReachThemselves
<1> QED
  BY <1>2, <1>3, <1>4, <1>5 DEF Inv

(* A bus answers with what is on it, for its last time in this discovery.  *)
LEMMA StepAnswer ==
    ASSUME Inv, NEW bus \in BusNames, discover_ddcci_device(bus)
    PROVE  Inv'
<1> DEFINE panel == attached[ConnectorOf(bus)]
<1>1. /\ at = "probe" /\ bus \in buses /\ buses' = buses \ {bus}
      /\ UNCHANGED <<attached, at, lights, doubt, devices, sound>>
  BY DEF discover_ddcci_device
<1>2. TypeOK' /\ LightsReach' /\ OutputsReachThemselves'
  BY <1>1 DEF Inv, TypeOK, LightsReach, OutputsReachThemselves
<1>3. CASE found' = found
  <2>1. Answers'
    BY <1>1, <1>3 DEF Inv, Answers
  <2> QED
    BY <1>2, <2>1 DEF Inv
<1>4. CASE \E edid \in {EdidOf[panel], None} :
              panel \in Monitors /\ found' = Append(found, [bus |-> bus, edid |-> edid])
  <2>1. PICK edid \in {EdidOf[panel], None} :
             panel \in Monitors /\ found' = Append(found, [bus |-> bus, edid |-> edid])
    BY <1>4
  <2> DEFINE entry == [bus |-> bus, edid |-> edid]
  <2>2. panel \in Panels /\ panel # None /\ edid \in Edids \cup {None}
    BY <2>1, PanelsAssumption DEF Edids
  <2>3. entry \in Entry /\ entry.bus = bus /\ Answered(entry, attached)
    BY <2>1, <2>2 DEF Entry, Answered
  <2> HIDE DEF entry
  <2>4. /\ found \in Seq(Entry) /\ found' \in Seq(Entry) /\ Len(found) \in Nat
        /\ Len(found') = Len(found) + 1
        /\ \A i \in 1 .. Len(found) : found'[i] = found[i]
        /\ found'[Len(found) + 1] = entry
    <3>1. found \in Seq(Entry) /\ found' = Append(found, entry)
      BY <2>1 DEF Inv, Answers, entry
    <3> QED
      BY <2>3, <3>1, AppendProperties
  <2>5. \A i \in 1 .. Len(found') : i \in 1 .. Len(found) \/ (i = Len(found) + 1 /\ found'[i] = entry)
    BY <2>4
  <2>6. \A i \in 1 .. Len(found') : found'[i].bus \notin buses'
    BY <1>1, <2>3, <2>4, <2>5 DEF Inv, Answers
  <2>7. \A i, j \in 1 .. Len(found') : found'[i].bus = found'[j].bus => i = j
    BY <1>1, <2>3, <2>4, <2>5 DEF Inv, Answers
  <2>8. ~doubt' => \A i \in 1 .. Len(found') : Answered(found'[i], attached')
    BY <1>1, <2>3, <2>4, <2>5 DEF Inv, Answers
  <2> QED
    BY <1>1, <1>2, <2>4, <2>6, <2>7, <2>8 DEF Inv, Answers
<1> QED
  BY <1>2, <1>3, <1>4 DEF discover_ddcci_device, Inv

(* The end of a discovery, with or without its result.                     *)
LEMMA StepEnd ==
    ASSUME Inv, EndDiscovery, TypeOK', OutputsReachThemselves'
    PROVE  Inv'
<1>1. Answers' /\ LightsReach'
  BY EmptySeq DEF EndDiscovery, NoDevices, Answers, LightsReach
<1> QED
  BY <1>1 DEF Inv

(* The map is replaced by what was discovered.                             *)
LEMMA StepDevices == Inv /\ map_ddcci_to_outputs => Inv'
<1> SUFFICES ASSUME Inv, map_ddcci_to_outputs PROVE Inv'
  OBVIOUS
<1>1. PICK dark \in SUBSET Attached :
           devices' = Discovered(dark) /\ sound' = (~doubt /\ ~Blurs(dark))
  BY DEF map_ddcci_to_outputs, Discovered
<1>2. EndDiscovery
  BY DEF map_ddcci_to_outputs
<1>3. TypeOK'
  <2>1. /\ DOMAIN devices' \subseteq OutputNames \cup BusNames
        /\ \A n \in DOMAIN devices' : devices'[n] \in Device
    BY <1>1, DiscoveredTypes
  <2>2. sound' \in BOOLEAN
    BY <1>1
  <2> QED
    BY <1>2, <2>1, <2>2 DEF EndDiscovery, NoDevices, Inv, TypeOK
<1>4. OutputsReachThemselves'
  BY <1>1, DiscoveredReach DEF OutputsReachThemselves, connector_output_name
<1> QED
  BY <1>2, <1>3, <1>4, StepEnd

(* The map stays when a directory cannot be read.                          *)
LEMMA StepFails == Inv /\ DiscoveryFails => Inv'
<1> SUFFICES ASSUME Inv, DiscoveryFails PROVE Inv'
  OBVIOUS
<1>1. EndDiscovery /\ UNCHANGED <<devices, sound>>
  BY DEF DiscoveryFails
<1>2. TypeOK' /\ OutputsReachThemselves'
  BY <1>1 DEF EndDiscovery, NoDevices, Inv, TypeOK, OutputsReachThemselves
<1> QED
  BY <1>1, <1>2, StepEnd

(* What moves during a discovery puts it in doubt.                         *)
LEMMA StepReplug ==
    ASSUME Inv, NEW c \in drm_connectors, NEW panel \in Monitors \cup {None}, Replug(c, panel)
    PROVE  Inv'
<1> USE DEF Replug, Inv
<1>1. TypeOK'
  BY PanelsAssumption DEF TypeOK
<1>2. LightsReach' /\ OutputsReachThemselves'
  BY DEF LightsReach, OutputsReachThemselves
<1>3. Answers'
  <2>1. found' = found /\ at' = at /\ buses' = buses /\ doubt' = (at = "probe")
    OBVIOUS
  <2>2. CASE at = "probe"
    BY <2>1, <2>2 DEF Answers
  <2>3. CASE at # "probe"
    <3>1. found = <<>>
      BY <2>3 DEF Answers, TypeOK
    <3> QED
      BY <2>1, <3>1, EmptySeq DEF Answers
  <2> QED
    BY <2>2, <2>3
<1> QED
  BY <1>1, <1>2, <1>3

(* In every reachable state.                                               *)
LEMMA Invariance == Spec => []Inv
<1>1. ASSUME Inv, [Next]_vars PROVE Inv'
  <2>1. CASE UNCHANGED vars
    BY <1>1, <2>1
    DEF vars, discovery, Inv, TypeOK, Answers, LightsReach, OutputsReachThemselves
  <2> QED
    BY <1>1, <2>1, StepLights, StepAnswer, StepDevices, StepFails, StepReplug DEF Next
<1> QED
  BY <1>1, InitInv, PTL DEF Spec

(***************************************************************************)
(* The types hold: whatever answers, the map leads from names of outputs   *)
(* and of buses to devices.                                                *)
(***************************************************************************)
THEOREM WaydimTypes == Spec => []TypeOK
<1>1. Inv => TypeOK
  BY DEF Inv
<1> QED
  BY <1>1, Invariance, PTL

(***************************************************************************)
(* An output is driven by its own device (OutputsReachThemselves), however *)
(* many monitors share an EDID and whatever is swapped afterwards.         *)
(***************************************************************************)
THEOREM OutputsAreDriven == Spec => []OutputsReachThemselves
<1>1. Inv => OutputsReachThemselves
  BY DEF Inv
<1> QED
  BY <1>1, Invariance, PTL

-----------------------------------------------------------------------------
(* What a discovery keeps                                                  *)

(* Whoever answered has a name in the result, and that name leads to a     *)
(* connector of its own connector's name.                                  *)
LEMMA AnswersAreKept ==
    ASSUME Inv, ~doubt, NEW dark \in SUBSET Attached, ~Blurs(dark),
           NEW i \in 1 .. Len(found)
    PROVE  NamesakeDriven(Discovered(dark), ConnectorOf(found[i].bus))
<1> DEFINE edids == ConnectorEdids(dark)
           n == NameOf(found, i, edids)
           own == ConnectorOf(found[i].bus)
<1>1. found \in Seq(Entry) /\ DOMAIN edids = drm_connectors
  BY DEF Inv, Answers, ConnectorEdids
<1>2. \A j \in 1 .. Len(found) : found[j].bus \in BusNames
  <2>1. \A j \in 1 .. Len(found) : found[j] \in Entry
    BY <1>1, ElementOfSeq
  <2> QED
    BY <2>1 DEF Entry
<1>3. own \in drm_connectors /\ BusOf[own] = found[i].bus
  BY <1>2, Buses
<1>4. n \in DOMAIN Discovered(dark)
  <2> HIDE DEF edids
  <2>1. n \in DOMAIN DdcCiDevices(found, edids)
    BY <1>1, <1>2, AnswersAreNamed
  <2> QED
    BY <2>1 DEF Discovered, InsertAll, edids
<1>5. CASE Taken(found, i, edids) = {}
  <2>1. n = found[i].bus /\ n \notin OutputNames
    BY <1>2, <1>5, BusOfAssumption DEF NameOf
  <2>2. n \notin DOMAIN lights
    BY <2>1 DEF Inv, LightsReach
  <2>3. PICK j \in 1 .. Len(found) :
             n = NameOf(found, j, edids) /\ Discovered(dark)[n] = DdcCi(found[j].bus)
    BY <1>4, <2>2, DiscoveredNames
  <2>4. n = found[j].bus
    BY <1>1, <1>2, <2>1, <2>3, NamesAreTaken, Buses
  <2>5. Reached(Discovered(dark)[n]) = own
    BY <2>1, <2>3, <2>4 DEF Reached, DdcCi
  <2> QED
    BY <1>4, <2>5 DEF NamesakeDriven
<1>6. CASE Taken(found, i, edids) # {}
  <2>1. PICK c \in Taken(found, i, edids) : c \in drm_connectors /\ n = c.connector
    BY <1>1, <1>2, <1>6, NamesAreTaken
  <2>2. c = own
    BY MatchedToTheirOwn DEF Inv
  <2>3. n \in OutputNames /\ n = own.connector
    BY <2>1, <2>2, Buses
  <2>4. Reached(Discovered(dark)[n]).connector = own.connector
    BY <1>4, <2>3, DiscoveredReach
  <2> QED
    BY <1>4, <2>4 DEF NamesakeDriven
<1> QED
  BY <1>5, <1>6

(* So does the name of every backlight that was mapped.                    *)
LEMMA LightsAreKept ==
    ASSUME Inv, ~doubt, NEW dark \in SUBSET Attached, ~Blurs(dark), NEW n \in DOMAIN lights
    PROVE  NamesakeDriven(Discovered(dark), Reached(lights[n]))
<1>1. n \in OutputNames /\ n = Reached(lights[n]).connector
  BY DEF Inv, LightsReach
<1>2. n \in DOMAIN Discovered(dark)
  BY DEF Discovered, InsertAll
<1>3. Reached(Discovered(dark)[n]).connector = n
  BY <1>1, <1>2, DiscoveredReach
<1> QED
  BY <1>1, <1>2, <1>3 DEF NamesakeDriven

(* Two answers never take one connector: the first with its EDID does.     *)
LEMMA TakenOnce ==
    ASSUME NEW k \in Nat, NEW order, NEW edids, NEW i \in 1 .. k, NEW j \in 1 .. k,
           NEW c, c \in Taken(order, i, edids), c \in Taken(order, j, edids)
    PROVE  i = j
<1>1. edids[c] = order[i].edid /\ edids[c] = order[j].edid
  BY DEF Taken
<1>2. /\ \A h \in 1 .. i - 1 : order[h].edid # edids[c]
      /\ \A h \in 1 .. j - 1 : order[h].edid # edids[c]
  BY DEF Taken
<1>3. ~ (i \in 1 .. j - 1) /\ ~ (j \in 1 .. i - 1)
  BY <1>1, <1>2
<1>4. i \in Nat /\ j \in Nat /\ 1 <= i /\ 1 <= j
  OBVIOUS
<1> QED
  BY <1>3, <1>4

(* Where output names are unique no two answers have one name, so that     *)
(* none is overwritten.                                                    *)
LEMMA AnswersAreIn ==
    ASSUME Inv, UniqueNames, NEW dark \in SUBSET Attached, NEW i \in 1 .. Len(found)
    PROVE  IsIn(Discovered(dark), found[i].bus)
<1> DEFINE edids == ConnectorEdids(dark)
           more == DdcCiDevices(found, edids)
           n == NameOf(found, i, edids)
<1>1. found \in Seq(Entry) /\ DOMAIN edids = drm_connectors /\ Len(found) \in Nat
  BY DEF Inv, Answers, ConnectorEdids
<1>2. \A j \in 1 .. Len(found) : found[j].bus \in BusNames
  <2>1. \A j \in 1 .. Len(found) : found[j] \in Entry
    BY <1>1, ElementOfSeq
  <2> QED
    BY <2>1 DEF Entry
<1>3. \A j, h \in 1 .. Len(found) : found[j].bus = found[h].bus => j = h
  BY DEF Inv, Answers
<1> HIDE DEF edids
<1>4. n \in DOMAIN more
  BY <1>1, <1>2, AnswersAreNamed
<1>5. PICK j \in 1 .. Len(found) :
           n = NameOf(found, j, edids) /\ more[n] = DdcCi(found[j].bus)
  BY <1>1, <1>2, <1>4, AnswersAreNamed
<1>6. n \in DOMAIN Discovered(dark) /\ Discovered(dark)[n] = more[n]
  BY <1>4 DEF Discovered, InsertAll, edids
<1> HIDE DEF more
<1>7. \A h \in 1 .. Len(found) :
         \/ NameOf(found, h, edids) = found[h].bus /\ NameOf(found, h, edids) \notin OutputNames
         \/ \E c \in Taken(found, h, edids) :
               c \in drm_connectors /\ NameOf(found, h, edids) = c.connector
  BY <1>1, <1>2, NamesAreTaken
<1>8. j = i
  <2>1. CASE n = found[i].bus /\ n \notin OutputNames
    <3>1. n = found[j].bus
      BY <1>5, <1>7, <2>1, Buses
    <3> QED
      BY <1>3, <2>1, <3>1
  <2>2. ASSUME NEW c \in Taken(found, i, edids), c \in drm_connectors, n = c.connector
        PROVE  j = i
    <3>1. n \in OutputNames
      BY <2>2, Buses
    <3>2. n # found[j].bus
      BY <1>2, <3>1, BusOfAssumption
    <3>3. PICK d \in Taken(found, j, edids) : d \in drm_connectors /\ n = d.connector
      BY <1>5, <1>7, <3>2
    <3>4. d = c
      BY <2>2, <3>3 DEF UniqueNames
    <3> QED
      BY <1>1, <2>2, <3>3, <3>4, TakenOnce
  <2> QED
    BY <1>7, <2>1, <2>2
<1> QED
  BY <1>5, <1>6, <1>8 DEF IsIn, DdcCi

(***************************************************************************)
(* Nothing that can be dimmed is lost when a discovery ends                *)
(* (NothingIsLost: the fallback to the bus name in map_ddcci_to_outputs    *)
(* and the insertion over the backlights in brightness_devices).           *)
(***************************************************************************)
THEOREM DiscoveriesLoseNothing == Spec => NothingIsLost
<1>1. ASSUME Inv, map_ddcci_to_outputs
      PROVE  /\ UniqueNames => \A i \in DOMAIN found : IsIn(devices', found[i].bus)
             /\ DOMAIN lights \subseteq DOMAIN devices'
             /\ sound' =>
                   /\ \A i \in DOMAIN found : NamesakeDriven(devices', ConnectorOf(found[i].bus))
                   /\ \A n \in DOMAIN lights : NamesakeDriven(devices', Reached(lights[n]))
  <2>1. PICK dark \in SUBSET Attached :
             devices' = Discovered(dark) /\ sound' = (~doubt /\ ~Blurs(dark))
    BY <1>1 DEF map_ddcci_to_outputs, Discovered
  <2>2. DOMAIN found = 1 .. Len(found)
    BY <1>1 DEF Inv, Answers
  <2>3. UniqueNames => \A i \in 1 .. Len(found) : IsIn(Discovered(dark), found[i].bus)
    BY <1>1, AnswersAreIn
  <2>4. DOMAIN lights \subseteq DOMAIN Discovered(dark)
    BY DEF Discovered, InsertAll
  <2>5. ASSUME sound'
        PROVE  /\ \A i \in 1 .. Len(found) :
                     NamesakeDriven(Discovered(dark), ConnectorOf(found[i].bus))
               /\ \A n \in DOMAIN lights : NamesakeDriven(Discovered(dark), Reached(lights[n]))
    <3>1. ~doubt /\ ~Blurs(dark)
      BY <2>1, <2>5
    <3> QED
      BY <1>1, <3>1, AnswersAreKept, LightsAreKept
  <2> QED
    BY <2>1, <2>2, <2>3, <2>4, <2>5
<1> QED
  BY <1>1, Invariance, PTL DEF NothingIsLost

-----------------------------------------------------------------------------
(* The order of the answers                                                *)

(* The connectors as they are read when none is dark.                      *)
Readable == ConnectorEdids({})

(* What a monitor goes by, whoever answered before it.                     *)
OwnName(entry) ==
    IF /\ ConnectorOf(entry.bus) \in unique_edids(Readable)
       /\ entry.edid = Readable[ConnectorOf(entry.bus)]
    THEN ConnectorOf(entry.bus).connector
    ELSE entry.bus

(* Answers of monitors that are there, from a bus each.                    *)
AreAnswers(q) ==
    /\ q \in Seq(Entry)
    /\ \A i \in 1 .. Len(q) : Answered(q[i], attached)
    /\ \A i, j \in 1 .. Len(q) : q[i].bus = q[j].bus => i = j

(* Of two monitors with one EDID neither has a connector that is unique,   *)
(* so that nobody takes what another could have.                           *)
LEMMA NobodyCompetes ==
    ASSUME NEW q, AreAnswers(q), NEW i \in 1 .. Len(q)
    PROVE  NameOf(q, i, Readable) = OwnName(q[i])
<1> DEFINE own(j) == ConnectorOf(q[j].bus)
<1>1. \A j \in 1 .. Len(q) : q[j] \in Entry
  BY ElementOfSeq DEF AreAnswers
<1>2. \A j \in 1 .. Len(q) :
         /\ q[j].bus \in BusNames /\ own(j) \in drm_connectors /\ BusOf[own(j)] = q[j].bus
  <2>1. \A j \in 1 .. Len(q) : q[j].bus \in BusNames
    BY <1>1 DEF Entry
  <2> QED
    BY <2>1, Buses
<1>3. /\ DOMAIN Readable = drm_connectors
      /\ \A c \in drm_connectors :
            Readable[c] = IF attached[c] = None THEN None ELSE EdidOf[attached[c]]
  BY DEF Readable, ConnectorEdids
<1>4. \A j \in 1 .. Len(q) : q[j].edid \in {None, Readable[own(j)]}
  BY <1>2, <1>3 DEF AreAnswers, Answered
<1>5. ASSUME NEW j \in 1 .. Len(q), NEW c \in unique_edids(Readable), q[j].edid = Readable[c]
      PROVE  c = own(j)
  BY <1>2, <1>3, <1>4, <1>5 DEF unique_edids
<1>6. Taken(q, i, Readable) =
        IF own(i) \in unique_edids(Readable) /\ q[i].edid = Readable[own(i)]
        THEN {own(i)} ELSE {}
  <2>1. ASSUME NEW c \in Taken(q, i, Readable)
        PROVE  c = own(i) /\ c \in unique_edids(Readable) /\ q[i].edid = Readable[c]
    <3>1. c \in unique_edids(Readable) /\ q[i].edid = Readable[c]
      BY <2>1 DEF Taken
    <3> QED
      BY <1>5, <3>1
  <2>2. ASSUME own(i) \in unique_edids(Readable), q[i].edid = Readable[own(i)]
        PROVE  own(i) \in Taken(q, i, Readable)
    <3>1. ASSUME NEW j \in 1 .. i - 1, q[j].edid = Readable[own(i)] PROVE FALSE
      <4>1. j \in 1 .. Len(q) /\ j # i
        BY DEF AreAnswers
      <4>2. own(i) = own(j)
        BY <1>5, <2>2, <3>1, <4>1
      <4>3. q[i].bus = q[j].bus
        BY <1>2, <4>1, <4>2
      <4> QED
        BY <4>1, <4>3 DEF AreAnswers
    <3> QED
      BY <2>2, <3>1 DEF Taken
  <2> HIDE DEF own
  <2>3. CASE own(i) \in unique_edids(Readable) /\ q[i].edid = Readable[own(i)]
    BY <2>1, <2>2, <2>3
  <2>4. CASE ~(own(i) \in unique_edids(Readable) /\ q[i].edid = Readable[own(i)])
    BY <2>1, <2>4
  <2> QED
    BY <2>3, <2>4
<1>7. CASE own(i) \in unique_edids(Readable) /\ q[i].edid = Readable[own(i)]
  <2>1. Taken(q, i, Readable) = {own(i)}
    BY <1>6, <1>7
  <2>2. (CHOOSE c \in {own(i)} : TRUE) = own(i)
    OBVIOUS
  <2>3. NameOf(q, i, Readable) = own(i).connector
    BY <2>1, <2>2 DEF NameOf, connector_output_name
  <2> QED
    BY <1>7, <2>3 DEF OwnName
<1>8. CASE ~(own(i) \in unique_edids(Readable) /\ q[i].edid = Readable[own(i)])
  BY <1>6, <1>8 DEF NameOf, OwnName
<1> QED
  BY <1>7, <1>8

(* The map is a matter of the answers alone.                               *)
LEMMA MapOfAnswers ==
    ASSUME NEW q, AreAnswers(q), UniqueNames
    PROVE  /\ DOMAIN DdcCiDevices(q, Readable) = {OwnName(q[i]) : i \in 1 .. Len(q)}
           /\ \A i \in 1 .. Len(q) :
                 DdcCiDevices(q, Readable)[OwnName(q[i])] = DdcCi(q[i].bus)
<1> DEFINE map == DdcCiDevices(q, Readable)
<1>1. q \in Seq(Entry) /\ DOMAIN Readable = drm_connectors
  BY DEF AreAnswers, Readable, ConnectorEdids
<1>2. \A i \in 1 .. Len(q) : q[i].bus \in BusNames
  <2>1. \A i \in 1 .. Len(q) : q[i] \in Entry
    BY <1>1, ElementOfSeq
  <2> QED
    BY <2>1 DEF Entry
<1>3. \A i \in 1 .. Len(q) : NameOf(q, i, Readable) = OwnName(q[i])
  BY NobodyCompetes
<1> HIDE DEF map
<1>4. /\ \A i \in 1 .. Len(q) : OwnName(q[i]) \in DOMAIN map
      /\ \A n \in DOMAIN map :
            \E i \in 1 .. Len(q) : n = OwnName(q[i]) /\ map[n] = DdcCi(q[i].bus)
  <2>1. /\ \A i \in 1 .. Len(q) : NameOf(q, i, Readable) \in DOMAIN DdcCiDevices(q, Readable)
        /\ \A n \in DOMAIN DdcCiDevices(q, Readable) :
              \E i \in 1 .. Len(q) :
                 /\ n = NameOf(q, i, Readable)
                 /\ DdcCiDevices(q, Readable)[n] = DdcCi(q[i].bus)
    BY <1>1, <1>2, AnswersAreNamed
  <2> QED
    BY <1>3, <2>1 DEF map
<1>5. ASSUME NEW i \in 1 .. Len(q), NEW j \in 1 .. Len(q), OwnName(q[i]) = OwnName(q[j])
      PROVE  q[i].bus = q[j].bus
  <2>1. \A k \in {i, j} :
           /\ q[k].bus \in BusNames /\ ConnectorOf(q[k].bus) \in drm_connectors
           /\ BusOf[ConnectorOf(q[k].bus)] = q[k].bus
           /\ ConnectorOf(q[k].bus).connector \in OutputNames
           /\ OwnName(q[k]) \in {q[k].bus, ConnectorOf(q[k].bus).connector}
    BY <1>2, Buses DEF OwnName
  <2> QED
    BY <1>5, <2>1, BusOfAssumption DEF UniqueNames
<1>6. \A i \in 1 .. Len(q) : map[OwnName(q[i])] = DdcCi(q[i].bus)
  <2> TAKE i \in 1 .. Len(q)
  <2>1. PICK j \in 1 .. Len(q) :
             OwnName(q[i]) = OwnName(q[j]) /\ map[OwnName(q[i])] = DdcCi(q[j].bus)
    BY <1>4
  <2> QED
    BY <1>5, <2>1
<1>7. DOMAIN map = {OwnName(q[i]) : i \in 1 .. Len(q)}
  BY <1>4
<1> QED
  BY <1>6, <1>7 DEF map

(* The same elements, each once.                                           *)
IsOrderOf(order, q) ==
    /\ \A i \in 1 .. Len(order) : \E j \in 1 .. Len(q) : order[i] = q[j]
    /\ \A j \in 1 .. Len(q) : \E i \in 1 .. Len(order) : order[i] = q[j]
    /\ \A i, j \in 1 .. Len(order) : order[i] = order[j] => i = j

(* An enumeration of a sequence's elements is a sequence of all of them.   *)
LEMMA EnumerationsHaveAll ==
    ASSUME NEW S, NEW q \in Seq(S), NEW order \in SetToSeqs(ToSet(q))
    PROVE  order \in Seq(S) /\ IsOrderOf(order, q)
<1> DEFINE T == ToSet(q)
           k == Cardinality(T)
<1>1. T = {q[i] : i \in 1 .. Len(q)} /\ T \subseteq S /\ Len(q) \in Nat
  BY ElementOfSeq DEF ToSet
<1>2. IsFiniteSet(T) /\ k \in Nat
  <2>1. q \in Surjection(1 .. Len(q), T)
    BY <1>1 DEF Surjection
  <2>2. IsFiniteSet(1 .. Len(q))
    BY <1>1, FS_Interval
  <2> HIDE DEF T
  <2> QED
    BY <2>1, <2>2, FS_Surjection, FS_CardinalityType
<1>3. order \in [1 .. k -> T] /\ \A i, j \in 1 .. k : order[i] = order[j] => i = j
  BY DEF SetToSeqs
<1>4. \A t \in T : \E i \in 1 .. k : order[i] = t
  <2>1. order \in Injection(1 .. k, T)
    BY <1>3 DEF Injection, IsInjective
  <2>2. Cardinality(1 .. k) = k
    BY <1>2, FS_Interval
  <2> HIDE DEF T
  <2>3. order \in Surjection(1 .. k, T)
    BY <1>2, <2>1, <2>2, FS_Injection
  <2> QED
    BY <2>3 DEF Surjection
<1>5. order \in Seq(S) /\ Len(order) = k
  <2> HIDE DEF k, T
  <2> QED
    BY <1>1, <1>2, <1>3
<1> HIDE DEF k, T
<1>6. \A i \in 1 .. Len(order) : \E j \in 1 .. Len(q) : order[i] = q[j]
  <2> TAKE i \in 1 .. Len(order)
  <2>1. order[i] \in T
    BY <1>3, <1>5
  <2> QED
    BY <1>1, <2>1
<1>7. \A j \in 1 .. Len(q) : \E i \in 1 .. Len(order) : order[i] = q[j]
  <2> TAKE j \in 1 .. Len(q)
  <2>1. q[j] \in T
    BY <1>1
  <2> QED
    BY <1>4, <1>5, <2>1
<1> QED
  BY <1>3, <1>5, <1>6, <1>7 DEF IsOrderOf

(***************************************************************************)
(* The order in which the buses answer does not matter (OrderDoesNotMatter:*)
(* unique_edids leaves no EDID that two answers could compete for).        *)
(***************************************************************************)
THEOREM OrdersAreEqual == Spec => []OrderDoesNotMatter
<1>1. ASSUME Inv PROVE OrderDoesNotMatter
  <2> SUFFICES ASSUME ~doubt,
                      UniqueNames, NEW order \in SetToSeqs(ToSet(found))
               PROVE  DdcCiDevices(order, Readable) = DdcCiDevices(found, Readable)
    BY DEF OrderDoesNotMatter, Readable
  <2>1. AreAnswers(found)
    BY <1>1 DEF Inv, Answers, AreAnswers
  <2>2. found \in Seq(Entry)
    BY <2>1 DEF AreAnswers
  <2>3. order \in Seq(Entry) /\ IsOrderOf(order, found)
    BY <2>2, EnumerationsHaveAll
  <2>4. AreAnswers(order)
    <3>1. \A i \in 1 .. Len(order) : Answered(order[i], attached)
      BY <2>1, <2>3 DEF AreAnswers, IsOrderOf
    <3>2. \A i, j \in 1 .. Len(order) : order[i].bus = order[j].bus => i = j
      <4> TAKE i, j \in 1 .. Len(order)
      <4>1. PICK a, b \in 1 .. Len(found) : order[i] = found[a] /\ order[j] = found[b]
        BY <2>3 DEF IsOrderOf
      <4>2. found[a].bus = found[b].bus => a = b
        BY <2>1 DEF AreAnswers
      <4> QED
        BY <2>3, <4>1, <4>2 DEF IsOrderOf
    <3> QED
      BY <2>3, <3>1, <3>2 DEF AreAnswers
  <2>5. DOMAIN DdcCiDevices(order, Readable) = DOMAIN DdcCiDevices(found, Readable)
    <3>1. {OwnName(order[i]) : i \in 1 .. Len(order)} = {OwnName(found[i]) : i \in 1 .. Len(found)}
      BY <2>3 DEF IsOrderOf
    <3> QED
      BY <2>1, <2>4, <3>1, MapOfAnswers
  <2>6. ASSUME NEW n \in DOMAIN DdcCiDevices(order, Readable)
        PROVE  DdcCiDevices(order, Readable)[n] = DdcCiDevices(found, Readable)[n]
    <3>1. PICK i \in 1 .. Len(order) : n = OwnName(order[i])
      <4>1. DOMAIN DdcCiDevices(order, Readable) = {OwnName(order[i]) : i \in 1 .. Len(order)}
        BY <2>4, MapOfAnswers
      <4> QED
        BY <2>6, <4>1
    <3>2. PICK j \in 1 .. Len(found) : order[i] = found[j]
      BY <2>3 DEF IsOrderOf
    <3>3. DdcCiDevices(order, Readable)[n] = DdcCi(order[i].bus)
      BY <2>4, <3>1, MapOfAnswers
    <3>4. DdcCiDevices(found, Readable)[n] = DdcCi(found[j].bus)
      BY <2>1, <3>1, <3>2, MapOfAnswers
    <3> QED
      BY <3>2, <3>3, <3>4
  <2>7. \A q : DdcCiDevices(q, Readable) =
                 [n \in DOMAIN DdcCiDevices(q, Readable) |-> DdcCiDevices(q, Readable)[n]]
    BY DEF DdcCiDevices, ByName
  <2> QED
    BY <2>5, <2>6, <2>7
<1> QED
  BY <1>1, Invariance, PTL

=============================================================================
