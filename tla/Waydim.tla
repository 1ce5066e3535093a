-------------------------------- MODULE Waydim --------------------------------
(***************************************************************************)
(* waydim: which device drives which output.  Discovery lists the          *)
(* backlights, asks every i2c bus for a DDC/CI monitor, and matches both   *)
(* to DRM connectors, by the bus or by the EDID.  DDC/CI takes a fraction  *)
(* of a second per bus, and cables are pulled and plugged meanwhile; the   *)
(* devices found are used until the next discovery.                        *)
(*                                                                         *)
(* An EDID is a value that monitors of one model may share.  Directories   *)
(* are read in any order, and any file may be unreadable.                  *)
(***************************************************************************)
EXTENDS Integers, SequencesExt

CONSTANTS
    DrmEntries,     (* /sys/class/drm: [card, connector], either or None   *)
    BusOf,          (* the i2c bus of each connector                       *)
    Linked,         (* those that have a "ddc" link to their bus           *)
    Backlights,     (* /sys/class/backlight                                *)
    Parent,         (* the connector behind each backlight                 *)
    Panels,         (* laptop panels and monitors                          *)
    EdidOf,         (* their base EDIDs                                    *)
    Monitors,       (* those that have a cable                             *)
    None            (* Option::None                                        *)

is_connector_name(entry) == entry.card # None /\ entry.connector # None

drm_connectors == {entry \in DrmEntries : is_connector_name(entry)}

connector_output_name_Bus(c) == BusOf[c]

(* "card1-DP-2" is the output "DP-2", whatever the card.                   *)
connector_output_name(c) == c.connector

OutputNames == {c.connector : c \in drm_connectors}
BusNames == {BusOf[c] : c \in drm_connectors}

ASSUME BusOfAssumption ==
    /\ DOMAIN BusOf = drm_connectors
    /\ \A c, d \in drm_connectors : BusOf[c] = BusOf[d] => c = d
    /\ OutputNames \cap BusNames = {} /\ None \notin BusNames
ASSUME ParentAssumption ==
    Parent \in [Backlights -> drm_connectors] /\ IsFiniteSet(Backlights)
ASSUME PanelsAssumption ==
    /\ None \notin Panels /\ Monitors \subseteq Panels
    /\ DOMAIN EdidOf = Panels /\ None \notin {EdidOf[p] : p \in Panels}

Device ==
    [kind : {"Backlight"}, backlight : Backlights]
        \cup [kind : {"DdcCi"}, bus : BusNames]

VARIABLES
    attached,       (* the panel on each connector, or None                *)
    at,             (* "idle", or "probe" while discovery asks the buses   *)
    lights,         (* the backlights the running discovery has mapped     *)
    buses,          (* buses it has not asked yet                          *)
    found,          (* its DdcCiDevices, in the order they answered        *)
    devices,        (* brightness_devices: output or bus name -> device    *)
    doubt,          (* history: in it a connector changed, or could not be *)
                    (* read and hid that its monitor has a double          *)
    sound           (* history: the discovery of devices had no doubt      *)

discovery == <<at, lights, buses, found, doubt>>
vars == <<attached, discovery, devices, sound>>

ConnectorOf(bus) == CHOOSE c \in drm_connectors : BusOf[c] = bus

Attached == {c \in drm_connectors : attached[c] # None}

Builtin == {Parent[b] : b \in Backlights}

NoDevices == [n \in {} |-> None]

-----------------------------------------------------------------------------
(* Matching                                                                *)

unique_edids_First(edids) ==
    {c \in DOMAIN edids : /\ edids[c] # None
                          /\ c = CHOOSE d \in DOMAIN edids : edids[d] = edids[c]}

(* Connectors whose EDID no other readable connector has.                  *)
unique_edids(edids) ==
    {c \in DOMAIN edids :
        edids[c] # None /\ \A d \in DOMAIN edids \ {c} : edids[d] # edids[c]}

(* read_base_edid of every connector; the dark ones cannot be read.        *)
ConnectorEdids(dark) ==
    [c \in drm_connectors |->
        IF c \in dark \/ attached[c] = None THEN None ELSE EdidOf[attached[c]]]

(* connectors_by_edid.remove: the connector (at most one) that the i-th    *)
(* device takes; the first device with its EDID does.                      *)
Taken(order, i, edids) ==
    {c \in unique_edids(edids) :
        /\ edids[c] = order[i].edid
        /\ \A j \in 1 .. i - 1 : order[j].edid # edids[c]}

(* BTreeMap::insert in order: the last device of a name stays, and those   *)
(* without a name are skipped.                                             *)
ByName(mappings) ==
    [n \in {mappings[i].name : i \in DOMAIN mappings} \ {None} |->
        mappings[Max({i \in DOMAIN mappings : mappings[i].name = n})].device]

(* devices.insert, for each of more.                                       *)
InsertAll(map, more) ==
    [n \in DOMAIN map \cup DOMAIN more |-> IF n \in DOMAIN more THEN more[n] ELSE map[n]]

(* map_backlights_to_connectors: by the ddc link where it resolves, else   *)
(* by EDID; a backlight with neither is left out.                          *)
BacklightDevices(order, edids, linked) ==
    LET entries == [i \in DOMAIN order |->
                      [edid |-> IF order[i] \in linked THEN None
                                ELSE edids[Parent[order[i]]]]]
        connector(i) == IF order[i] \in linked THEN {Parent[order[i]]}
                        ELSE Taken(entries, i, edids)
    IN  ByName([i \in DOMAIN order |->
            [name   |-> IF connector(i) = {} THEN None
                        ELSE connector_output_name(CHOOSE c \in connector(i) : TRUE),
             device |-> [kind |-> "Backlight", backlight |-> order[i]]]])

DdcCiDevices_MatchedOnly(order, edids) ==
    ByName([i \in DOMAIN order |->
        [name   |-> IF Taken(order, i, edids) = {} THEN None
                    ELSE connector_output_name(CHOOSE c \in Taken(order, i, edids) : TRUE),
         device |-> [kind |-> "DdcCi", bus |-> order[i].bus]]])

(* map_ddcci_to_outputs: a monitor without a connector goes by its bus.    *)
DdcCiDevices(order, edids) ==
    ByName([i \in DOMAIN order |->
        [name   |-> IF Taken(order, i, edids) = {} THEN order[i].bus
                    ELSE connector_output_name(CHOOSE c \in Taken(order, i, edids) : TRUE),
         device |-> [kind |-> "DdcCi", bus |-> order[i].bus]]])

-----------------------------------------------------------------------------
Init ==
    /\ attached \in [drm_connectors -> Panels \cup {None}]
    /\ \A c, d \in drm_connectors : attached[c] = attached[d] => c = d \/ attached[c] = None
    /\ \A c \in Attached : attached[c] \in Monitors <=> c \notin Builtin
    /\ at = "idle" /\ lights = NoDevices /\ buses = {} /\ found = <<>>
    /\ devices = NoDevices
    /\ doubt = FALSE /\ sound = TRUE

(* A dark connector hides that its monitor has a double.                   *)
Blurs(dark) ==
    \E c \in dark : \E d \in Attached \ {c} : EdidOf[attached[c]] = EdidOf[attached[d]]

(* The first half of brightness_devices; the panels behind backlights do   *)
(* not move, so that it is one step.                                       *)
map_backlights_to_connectors ==
    /\ at = "idle"
    /\ \E dark \in SUBSET Attached, order \in SetToSeqs(Backlights),
          linked \in SUBSET {b \in Backlights : Parent[b] \in Linked} :
          /\ lights' = BacklightDevices(order, ConnectorEdids(dark), linked)
          /\ doubt' = Blurs(dark)
    /\ at' = "probe" /\ buses' = BusNames
    /\ UNCHANGED <<attached, found, devices, sound>>

(* discover_ddcci_devices, one bus: nobody answers (or not in time), or a  *)
(* monitor does, with or without its EDID.                                 *)
discover_ddcci_device(bus) ==
    LET panel == attached[ConnectorOf(bus)]
    IN  /\ at = "probe" /\ bus \in buses
        /\ buses' = buses \ {bus}
        /\ \/ UNCHANGED found
           \/ /\ panel \in Monitors
              /\ \E edid \in {EdidOf[panel], None} :
                    found' = Append(found, [bus |-> bus, edid |-> edid])
        /\ UNCHANGED <<attached, at, lights, doubt, devices, sound>>

EndDiscovery ==
    /\ at' = "idle" /\ lights' = NoDevices /\ buses' = {} /\ found' = <<>>
    /\ doubt' = FALSE
    /\ UNCHANGED attached

(* The second half: read the connectors, match, insert over the backlights.*)
map_ddcci_to_outputs ==
    /\ at = "probe" /\ buses = {}
    /\ \E dark \in SUBSET Attached :
          /\ devices' = InsertAll(lights, DdcCiDevices(found, ConnectorEdids(dark)))
          /\ sound' = (~doubt /\ ~Blurs(dark))
    /\ EndDiscovery

(* A directory cannot be read: refresh keeps the devices it has.           *)
DiscoveryFails ==
    /\ at = "probe"
    /\ EndDiscovery
    /\ UNCHANGED <<devices, sound>>

(* Monitors come, go and change places.                                    *)
Replug(c, panel) ==
    /\ c \notin Builtin
    /\ panel # attached[c]
    /\ panel = None \/ \A d \in drm_connectors : attached[d] # panel
    /\ attached' = [attached EXCEPT ![c] = panel]
    /\ doubt' = (at = "probe")
    /\ UNCHANGED <<at, lights, buses, found, devices, sound>>

Next ==
    \/ map_backlights_to_connectors
    \/ \E bus \in BusNames : discover_ddcci_device(bus)
    \/ map_ddcci_to_outputs
    \/ DiscoveryFails
    \/ \E c \in drm_connectors, panel \in Monitors \cup {None} : Replug(c, panel)

Spec == Init /\ [][Next]_vars

-----------------------------------------------------------------------------
TypeOK ==
    /\ attached \in [drm_connectors -> Panels \cup {None}]
    /\ at \in {"idle", "probe"}
    /\ DOMAIN lights \subseteq OutputNames
    /\ DOMAIN devices \subseteq OutputNames \cup BusNames
    /\ \A n \in DOMAIN devices : devices[n] \in Device
    /\ buses \subseteq BusNames
    /\ doubt \in BOOLEAN /\ sound \in BOOLEAN

(* The connector at which what is written to a device arrives.             *)
Reached(device) ==
    IF device.kind = "Backlight" THEN Parent[device.backlight] ELSE ConnectorOf(device.bus)

(***************************************************************************)
(* An output is driven by its own device: what is set under the name of an *)
(* output goes to a connector of that name, whatever monitors are alike,   *)
(* however the directories are ordered and whatever cables are swapped     *)
(* afterwards, unless the hardware changed in the middle of discovery or a *)
(* double was hidden from it (unique_edids drops EDIDs that occur twice).  *)
(***************************************************************************)
OutputsReachThemselves ==
    sound => \A n \in DOMAIN devices \cap OutputNames :
                connector_output_name(Reached(devices[n])) = n

UniqueNames == \A c, d \in drm_connectors : c.connector = d.connector => c = d

(***************************************************************************)
(* Nothing that can be dimmed is lost when discovery ends.  Where output   *)
(* names are unique every monitor that answered is in the map, under an    *)
(* output's name or its bus', whatever was unreadable or moved (the        *)
(* fallback in map_ddcci_to_outputs).  Every output with a mapped          *)
(* backlight has a device, though a monitor taken for that output may have *)
(* the place (insert in brightness_devices).  Where names are not unique   *)
(* and discovery was sound, only a device of an output of the same name    *)
(* has the place of another.                                               *)
(***************************************************************************)
NamesakeDriven(map, c) ==
    \E n \in DOMAIN map : Reached(map[n]).connector = c.connector

IsIn(map, bus) == \E n \in DOMAIN map : map[n] = [kind |-> "DdcCi", bus |-> bus]

NothingIsLost ==
    [][map_ddcci_to_outputs =>
          /\ UniqueNames => \A i \in DOMAIN found : IsIn(devices', found[i].bus)
          /\ DOMAIN lights \subseteq DOMAIN devices'
          /\ sound' =>
                /\ \A i \in DOMAIN found : NamesakeDriven(devices', ConnectorOf(found[i].bus))
                /\ \A n \in DOMAIN lights : NamesakeDriven(devices', Reached(lights[n]))]_vars

(***************************************************************************)
(* The order in which the buses answer does not matter, where output names *)
(* are unique and nothing was unreadable or moved (the competition of      *)
(* equal EDIDs in map_ddcci_to_outputs has no winner).                     *)
(***************************************************************************)
OrderDoesNotMatter ==
    at = "probe" /\ buses = {} /\ ~doubt /\ UniqueNames =>
        \A order \in SetToSeqs(ToSet(found)) :
            DdcCiDevices(order, ConnectorEdids({})) = DdcCiDevices(found, ConnectorEdids({}))

=============================================================================
