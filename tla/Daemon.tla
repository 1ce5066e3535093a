-------------------------------- MODULE Daemon --------------------------------
(***************************************************************************)
(* waybright/src/daemon.rs: the daemon's one thread, the cache it keeps of *)
(* the hardware levels, its use of the overlays and its clients.           *)
(*                                                                         *)
(* The thread dispatches the overlays, then serves every waiting client    *)
(* before it dispatches again.  While a SET is under way nothing else of   *)
(* the daemon runs, but each device and overlay is written by a step of    *)
(* its own, which may fail, and between two steps the world moves: other   *)
(* programs write the same devices, devices and outputs come and go, a     *)
(* write that timed out is still carried out, the daemon is killed.        *)
(*                                                                         *)
(* The overlays are seen through the interface in SoftwareDimming.tla,     *)
(* which Waydark.tla implements.  Output names are numbers, in the order   *)
(* of the strings they stand for (the order of BTreeMap and BTreeSet).     *)
(***************************************************************************)
EXTENDS Brightness, Sequences

CONSTANTS
    Names,              (* output names                                    *)
    All,                (* the selector "@all"                             *)
    HardwareMin,        (* Config::hardware_min                            *)
    Resolution,         (* largest register value of each output's device  *)
    Clients,            (* connections, each with one request at a time    *)
    Requests,           (* what they may ask                               *)
    Foreign,            (* register values other programs write            *)
    SocketActivated     (* systemd holds the listening socket              *)

ASSUME NamesAssumption == Names \subseteq Nat
ASSUME AllAssumption == All \notin Names
ASSUME HardwareMinAssumption == validate_hardware_min(HardwareMin)
ASSUME ResolutionAssumption == Resolution \in [Names -> Nat]
ASSUME ForeignAssumption == Foreign \subseteq Nat
ASSUME SocketActivatedAssumption == SocketActivated \in BOOLEAN

Levels == Percents \cup {None}

Selectors == Names \cup {All}

(* What parse_request makes of a request; a SET whose change does not      *)
(* parse counts as Bad, a Stalled client sends nothing more and keeps its  *)
(* side open, and a Trickling one sends a little within every second.      *)
Request ==
    [kind : {"List", "Refresh", "Bad", "Stalled", "Trickling"}]
        \cup [kind : {"Get"}, selector : Selectors]
        \cup [kind : {"Set"}, selector : Selectors, change : PercentChange]

(* An output being set, and the levels to write to its two controls.       *)
Job == [name : Names, hardware : Levels, software : Levels]

Outcomes == {"OK", "ERR", "NotFound"}

ASSUME RequestsAssumption == Requests \subseteq Request
ASSUME NoneOfAssumption == None \notin Clients \cup Requests \cup Job \cup Outcomes

VARIABLES
    (* DaemonState                                                         *)
    hardware,               (* names in the device map                     *)
    hardware_brightness,    (* the cached level of each device, or None    *)
    software,               (* brightness() of each overlay, or None       *)
    overlay_due,            (* 5 s have passed since last_overlay_attempt  *)
    (* the thread                                                          *)
    at,                     (* where it is                                 *)
    client,                 (* the connection being handled                *)
    todo,                   (* outputs a running SET has not finished      *)
    job,                    (* set_one's name and the writes it has to do  *)
    outcome,                (* of handle_request                           *)
    before,                 (* history: LIST when the running SET began    *)
    (* clients                                                             *)
    request,                (* what each waits for, or None                *)
    backlog,                (* connections not accepted yet, oldest first  *)
    (* the world                                                           *)
    plugged,                (* outputs with a device                       *)
    panel,                  (* the register of each device                 *)
    late,                   (* a value whose write timed out, or None      *)
    drifted,                (* history: devices last written by others     *)
    screens,                (* outputs the compositor has                  *)
    alive                   (* the overlays' connection and surfaces are   *)

state   == <<hardware, hardware_brightness, software, overlay_due>>
serving == <<client, todo, job, outcome, before>>
clients == <<request, backlog>>
devices == <<plugged, panel, late, drifted>>
desktop == <<screens, alive>>
vars == <<state, at, serving, clients, devices, desktop>>

Dimming == INSTANCE SoftwareDimming

NoLevels == [n \in Names |-> None]
Registers(n) == 0 .. Resolution[n]
Places == {"down", "dispatch", "connect", "accept", "serve", "set", "write", "dim", "reply"}

Overlays == Dimming!Dimmed # {}

(* combined_brightness of an output, as get, outputs and set_one see it.   *)
Reported(n) ==
    combined_brightness(hardware_brightness[n], software[n], HardwareMin)

(* DaemonState::outputs                                                    *)
Listed == {n \in Names : hardware_brightness[n] # None \/ software[n] # None}

Selected_Devices(selector) ==
    IF selector = All THEN hardware \cup Dimming!Dimmed ELSE {selector}

Selected(selector) == IF selector = All THEN Listed ELSE {selector}

-----------------------------------------------------------------------------
Init ==
    /\ hardware = {} /\ hardware_brightness = NoLevels
    /\ Dimming!Init /\ overlay_due = FALSE
    /\ at = "down" /\ client = None
    /\ todo = {} /\ job = None /\ outcome = None /\ before = NoLevels
    /\ request = [c \in Clients |-> None] /\ backlog = <<>>
    /\ plugged \in SUBSET Names
    /\ panel \in [Names -> Foreign] /\ \A n \in Names : panel[n] \in Registers(n)
    /\ late = NoLevels /\ drifted = {}
    /\ screens \in SUBSET Names /\ alive = FALSE

-----------------------------------------------------------------------------
Answer(result) == at' = "reply" /\ outcome' = result

(* Discovery and overlays                                                  *)

Discover_KeepsLevels ==
    \E found \in SUBSET plugged : \E readable \in SUBSET found :
        /\ hardware' = found
        /\ hardware_brightness' =
              [n \in Names |-> IF n \in readable
                               THEN percent_of(panel[n], Resolution[n])
                               ELSE hardware_brightness[n]]
        /\ drifted' = drifted \ readable

(* discover_hardware: some of the devices there are found, and some of     *)
(* those can be read.                                                      *)
Discover ==
    \E found \in SUBSET plugged : \E readable \in SUBSET found :
        /\ hardware' = found
        /\ hardware_brightness' =
              [n \in Names |-> IF n \in readable
                               THEN percent_of(panel[n], Resolution[n]) ELSE None]
        /\ drifted' = {}

(* The outcome of OverlayManager::connect, which needs an output.          *)
connect ==
    IF screens # {}
    THEN Dimming!Appear(screens) /\ alive' = TRUE
    ELSE UNCHANGED <<software, alive>>

(* DaemonState::new; the daemon exits again when it has found nothing.     *)
Start ==
    /\ at = "down"
    /\ Discover
    /\ connect \/ UNCHANGED <<software, alive>>
    /\ overlay_due' = FALSE
    /\ hardware_brightness' # NoLevels \/ software' # NoLevels
    /\ at' = "dispatch"
    /\ UNCHANGED <<serving, clients, plugged, panel, late, screens>>

DispatchOk ==
    /\ at = "dispatch"
    /\ Overlays => alive
    /\ ~(~Overlays /\ overlay_due)
    /\ at' = "accept"
    /\ UNCHANGED <<state, serving, clients, devices, desktop>>

DispatchFails_KeepsOverlays ==
    /\ at = "dispatch"
    /\ Overlays /\ ~alive
    /\ overlay_due' = FALSE
    /\ at' = "accept"
    /\ UNCHANGED <<hardware, hardware_brightness, software, serving, clients, devices, desktop>>

(* The overlays are gone; the next attempt is 5 s away.                    *)
DispatchFails ==
    /\ at = "dispatch"
    /\ Overlays /\ ~alive
    /\ Dimming!Lose
    /\ overlay_due' = FALSE
    /\ at' = "accept"
    /\ UNCHANGED <<hardware, hardware_brightness, serving, clients, devices, desktop>>

reconnect_overlay_if_due ==
    /\ at = "dispatch"
    /\ ~Overlays /\ overlay_due
    /\ overlay_due' = FALSE
    /\ at' = "connect"
    /\ UNCHANGED <<hardware, hardware_brightness, software, serving, clients, devices, desktop>>

(* reconnect_overlay returns, to the main loop or to a REFRESH.            *)
Continue ==
    IF client = None THEN at' = "accept" /\ UNCHANGED outcome ELSE Answer("OK")

(* The connection is made; it waits for the compositor without a timeout.  *)
reconnect_overlay ==
    /\ at = "connect"
    /\ connect
    /\ Continue
    /\ UNCHANGED <<hardware, hardware_brightness, overlay_due, client, todo, job, before, clients,
                   devices, screens>>

ConnectFails ==
    /\ at = "connect"
    /\ Continue
    /\ UNCHANGED <<state, client, todo, job, before, clients, devices, desktop>>

-----------------------------------------------------------------------------
(* The inner loop of run, and handle_client                                *)

Accept ==
    /\ at = "accept" /\ backlog # <<>>
    /\ client' = Head(backlog)
    /\ backlog' = Tail(backlog)
    /\ at' = "serve"
    /\ UNCHANGED <<state, todo, job, outcome, before, request, devices, desktop>>

(* WouldBlock: sleep 20 ms and go round.                                   *)
NobodyWaits ==
    /\ at = "accept" /\ backlog = <<>>
    /\ at' = "dispatch"
    /\ UNCHANGED <<state, serving, clients, devices, desktop>>

Serve(kind) == at = "serve" /\ request[client].kind = kind

ReadTimesOut_Never == Serve("Stalled") /\ UNCHANGED vars

(* A client that does not finish its request within a second is dropped    *)
(* without an answer.                                                      *)
ReadTimesOut ==
    /\ Serve("Stalled")
    /\ request' = [request EXCEPT ![client] = None]
    /\ client' = None
    /\ at' = "accept"
    /\ UNCHANGED <<state, todo, job, outcome, before, backlog, devices, desktop>>

List ==
    /\ Serve("List")
    /\ Answer("OK")
    /\ UNCHANGED <<state, client, todo, job, before, clients, devices, desktop>>

Get ==
    /\ Serve("Get")
    /\ LET selector == request[client].selector
       IN  Answer(CASE selector = All    -> "ERR"
                    [] selector \in Listed -> "OK"
                    [] OTHER               -> "NotFound")
    /\ UNCHANGED <<state, client, todo, job, before, clients, devices, desktop>>

Bad ==
    /\ Serve("Bad")
    /\ Answer("ERR")
    /\ UNCHANGED <<state, client, todo, job, before, clients, devices, desktop>>

(* DaemonState::refresh: overlays that are there stay as they are.         *)
Refresh ==
    /\ Serve("Refresh")
    /\ Discover
    /\ IF Overlays
       THEN Answer("OK") /\ UNCHANGED overlay_due
       ELSE at' = "connect" /\ overlay_due' = FALSE /\ UNCHANGED outcome
    /\ UNCHANGED <<software, client, todo, job, before, clients, plugged, panel, late, desktop>>

RefreshFails ==
    /\ Serve("Refresh")
    /\ Answer("ERR")
    /\ UNCHANGED <<state, client, todo, job, before, clients, devices, desktop>>

(* The answer is written, or the client has gone; the stream is closed.    *)
Reply ==
    /\ at = "reply"
    /\ request' = [request EXCEPT ![client] = None]
    /\ client' = None
    /\ todo' = {} /\ job' = None /\ outcome' = None /\ before' = NoLevels
    /\ at' = "accept"
    /\ UNCHANGED <<state, backlog, devices, desktop>>

-----------------------------------------------------------------------------
(* DaemonState::set and set_one                                            *)

BeginSet ==
    /\ Serve("Set")
    /\ todo' = Selected(request[client].selector)
    /\ before' = [n \in Names |-> Reported(n)]
    /\ at' = "set"
    /\ UNCHANGED <<state, client, job, outcome, clients, devices, desktop>>

SetDone ==
    /\ at = "set" /\ todo = {}
    /\ Answer("OK")
    /\ UNCHANGED <<state, client, todo, job, before, clients, devices, desktop>>

Targets_AlwaysSplit(h, s, target) ==
    LET split == split_brightness(target, HardwareMin)
    IN  [hardware |-> IF h = None THEN None ELSE split.hardware,
         software |-> IF s = None THEN None ELSE split.software]

(* The levels set_one wants of an output's two controls, which are at h    *)
(* and s.                                                                  *)
Targets(h, s, target) ==
    CASE h # None /\ s # None -> split_brightness(target, HardwareMin)
      [] h # None /\ s = None -> [hardware |-> target, software |-> None]
      [] OTHER                -> [hardware |-> None, software |-> target]

(* A control already at its target is left alone.                          *)
Unless(target, current) == IF target = current THEN None ELSE target

set_one ==
    /\ at = "set"
    /\ \E n \in todo :
          /\ \A m \in todo : n <= m
          /\ IF n \in Listed
             THEN LET target  == apply_percent_change(Reported(n), request[client].change)
                      targets == Targets(hardware_brightness[n], software[n], target)
                  IN  /\ job' = [name |-> n,
                                 hardware |-> Unless(targets.hardware, hardware_brightness[n]),
                                 software |-> Unless(targets.software, software[n])]
                      /\ at' = "write"
                      /\ UNCHANGED outcome
             ELSE Answer("NotFound") /\ UNCHANGED job
    /\ UNCHANGED <<state, client, todo, before, clients, devices, desktop>>

NoHardwareWrite ==
    /\ at = "write" /\ job.hardware = None
    /\ at' = "dim"
    /\ UNCHANGED <<state, serving, clients, devices, desktop>>

(* DaemonState::set_hardware: the cache follows a write that worked.       *)
set_hardware ==
    /\ at = "write" /\ job.hardware # None
    /\ job.name \in hardware \cap plugged
    /\ panel' = [panel EXCEPT ![job.name] =
                    percent_to_value(job.hardware, Resolution[job.name])]
    /\ late' = [late EXCEPT ![job.name] = None]
    /\ drifted' = drifted \ {job.name}
    /\ hardware_brightness' = [hardware_brightness EXCEPT ![job.name] = job.hardware]
    /\ at' = "dim"
    /\ UNCHANGED <<hardware, software, overlay_due, serving, clients, plugged, desktop>>

HardwareFails_Caches ==
    /\ at = "write" /\ job.hardware # None
    /\ hardware_brightness' = [hardware_brightness EXCEPT ![job.name] = job.hardware]
    /\ Answer("ERR")
    /\ UNCHANGED <<hardware, software, overlay_due, client, todo, job, before, clients, devices,
                   desktop>>

HardwareFails_GoesOn ==
    /\ at = "write" /\ job.hardware # None
    /\ todo' = todo \ {job.name}
    /\ job' = None
    /\ at' = "set"
    /\ UNCHANGED <<state, client, outcome, before, clients, devices, desktop>>

HardwareFails ==
    /\ at = "write" /\ job.hardware # None
    /\ Answer(IF job.name \in hardware THEN "ERR" ELSE "NotFound")
    /\ UNCHANGED <<state, client, todo, job, before, clients, devices, desktop>>

(* logind does not answer within 2 s; it may still get to the write.  (One *)
(* such write per device is kept.)                                         *)
HardwareTimesOut ==
    /\ at = "write" /\ job.hardware # None
    /\ job.name \in hardware \cap plugged
    /\ late[job.name] = None
    /\ late' = [late EXCEPT ![job.name] =
                    percent_to_value(job.hardware, Resolution[job.name])]
    /\ Answer("ERR")
    /\ UNCHANGED <<state, client, todo, job, before, clients, plugged, panel, drifted, desktop>>

(* DaemonState::set_software, and on to the next output.  A dead           *)
(* connection takes the requests all the same.                             *)
set_software ==
    /\ at = "dim"
    /\ IF job.software = None THEN UNCHANGED software
       ELSE Dimming!Adjust(job.name, job.software)
    /\ todo' = todo \ {job.name}
    /\ job' = None
    /\ at' = "set"
    /\ UNCHANGED <<hardware, hardware_brightness, overlay_due, client, outcome, before,
                   clients, devices, desktop>>

(* The dim buffer cannot be drawn.                                         *)
SoftwareFails ==
    /\ at = "dim" /\ job.software # None
    /\ Answer("ERR")
    /\ UNCHANGED <<state, client, todo, job, before, clients, devices, desktop>>

-----------------------------------------------------------------------------
(* The daemon is killed or exits, and is started again by Start.  Waiting  *)
(* connections survive in a socket that systemd holds.                     *)
Crash ==
    /\ at # "down"
    /\ at' = "down"
    /\ hardware' = {} /\ hardware_brightness' = NoLevels
    /\ Dimming!Lose /\ overlay_due' = FALSE /\ alive' = FALSE
    /\ client' = None /\ todo' = {} /\ job' = None /\ outcome' = None
    /\ before' = NoLevels /\ drifted' = {}
    /\ backlog' = IF SocketActivated THEN backlog ELSE <<>>
    /\ request' = [c \in Clients |-> IF SocketActivated /\ c # client
                                     THEN request[c] ELSE None]
    /\ UNCHANGED <<plugged, panel, late, screens>>

-----------------------------------------------------------------------------
(* The world                                                               *)

Ask(c, r) ==
    /\ request[c] = None
    /\ at # "down" \/ SocketActivated
    /\ request' = [request EXCEPT ![c] = r]
    /\ backlog' = Append(backlog, c)
    /\ UNCHANGED <<state, at, serving, devices, desktop>>

(* Who trickles ends its request at last, or stops sending.  Nothing makes *)
(* it: a read times out only if nothing comes.                             *)
TrickleEnds(r) ==
    /\ Serve("Trickling")
    /\ request' = [request EXCEPT ![client] = r]
    /\ UNCHANGED <<state, at, serving, backlog, devices, desktop>>

FiveSecondsPass ==
    /\ at # "down" /\ ~Overlays /\ ~overlay_due
    /\ overlay_due' = TRUE
    /\ UNCHANGED <<hardware, hardware_brightness, software, at, serving, clients, devices,
                   desktop>>

(* Function keys, another tool, the monitor's own buttons.                 *)
ForeignWrite(n, value) ==
    /\ n \in plugged /\ value \in Registers(n)
    /\ panel' = [panel EXCEPT ![n] = value]
    /\ drifted' = drifted \cup {n}
    /\ UNCHANGED <<state, at, serving, clients, plugged, late, desktop>>

LateWrite(n) ==
    /\ late[n] # None
    /\ panel' = [panel EXCEPT ![n] = late[n]]
    /\ late' = [late EXCEPT ![n] = None]
    /\ drifted' = drifted \cup {n}
    /\ UNCHANGED <<state, at, serving, clients, plugged, desktop>>

Unplug(n) ==
    /\ n \in plugged
    /\ plugged' = plugged \ {n}
    /\ late' = [late EXCEPT ![n] = None]
    /\ UNCHANGED <<state, at, serving, clients, panel, drifted, desktop>>

Plug(n, value) ==
    /\ n \in Names \ plugged /\ value \in Registers(n)
    /\ plugged' = plugged \cup {n}
    /\ panel' = [panel EXCEPT ![n] = value]
    /\ drifted' = drifted \cup {n}
    /\ UNCHANGED <<state, at, serving, clients, late, desktop>>

(* Outputs come and go, or the compositor does; an overlay whose output    *)
(* went is closed, and with it the manager fails.                          *)
ScreensChange(offered) ==
    /\ offered # screens
    /\ screens' = offered
    /\ alive' = (alive /\ Dimming!Dimmed \subseteq offered)
    /\ UNCHANGED <<state, at, serving, clients, devices>>

(* The connection breaks with every output still there: a flush would have *)
(* blocked, or the compositor ended it.                                    *)
ConnectionBreaks ==
    /\ alive
    /\ alive' = FALSE
    /\ UNCHANGED <<state, at, serving, clients, devices, screens>>

-----------------------------------------------------------------------------
Thread ==
    \/ DispatchOk \/ DispatchFails \/ reconnect_overlay_if_due
    \/ Accept \/ NobodyWaits \/ ReadTimesOut
    \/ List \/ Get \/ Bad \/ Refresh \/ RefreshFails \/ Reply
    \/ BeginSet \/ SetDone \/ set_one
    \/ NoHardwareWrite \/ set_hardware \/ HardwareFails \/ HardwareTimesOut
    \/ set_software \/ SoftwareFails

World ==
    \/ \E c \in Clients, r \in Requests : Ask(c, r)
    \/ \E r \in Requests : TrickleEnds(r)
    \/ \E n \in Names, value \in Foreign : ForeignWrite(n, value) \/ Plug(n, value)
    \/ \E n \in Names : LateWrite(n) \/ Unplug(n)
    \/ \E offered \in SUBSET Names : ScreensChange(offered)
    \/ ConnectionBreaks

Connecting == reconnect_overlay \/ ConnectFails

Next == Start \/ Thread \/ Connecting \/ Crash \/ FiveSecondsPass \/ World

(* A thread that runs goes on, and time passes.  Its two waits without a   *)
(* bound are not promised to end, that for a client that trickles and that *)
(* for the compositor in connect.  Nobody promises to start the daemon,    *)
(* and the world does what it likes.                                       *)
Fairness == WF_vars(Thread) /\ WF_vars(FiveSecondsPass)

Spec == Init /\ [][Next]_vars /\ Fairness

-----------------------------------------------------------------------------
TypeOK ==
    /\ hardware \subseteq Names
    /\ hardware_brightness \in [Names -> Levels]
    /\ software \in [Names -> Levels]
    /\ overlay_due \in BOOLEAN
    /\ at \in Places
    /\ client \in Clients \cup {None}
    /\ todo \subseteq Names
    /\ job \in Job \cup {None}
    /\ outcome \in Outcomes \cup {None}
    /\ before \in [Names -> Levels]
    /\ request \in [Clients -> Requests \cup {None}]
    /\ backlog \in Seq(Clients)
    /\ plugged \subseteq Names
    /\ panel \in [Names -> Nat] /\ \A n \in Names : panel[n] \in Registers(n)
    /\ late \in [Names -> Nat \cup {None}]
    /\ \A n \in Names : late[n] # None => late[n] \in Registers(n)
    /\ drifted \subseteq Names
    /\ screens \subseteq Names
    /\ alive \in BOOLEAN

(***************************************************************************)
(* The cache is honest: the level the daemon works with is the device's,   *)
(* unless somebody else wrote the device since the daemon last read or     *)
(* wrote it.  A device with fewer than 100 steps reads back higher than it *)
(* was set, hence the two cases (set_hardware caches after the write,      *)
(* refresh replaces the whole cache).                                      *)
(***************************************************************************)
CacheHonest ==
    \A n \in Names \ drifted :
        hardware_brightness[n] # None =>
            \/ hardware_brightness[n] = percent_of(panel[n], Resolution[n])
            \/ panel[n] = percent_to_value(hardware_brightness[n], Resolution[n])

SetRuns ==
    at \in {"set", "write", "dim"} \/ (at = "reply" /\ request[client].kind = "Set")

Goal(n) == apply_percent_change(before[n], request[client].change)

Busy(n) == job # None /\ job.name = n

(***************************************************************************)
(* A SET changes what was asked and nothing else, output after output:     *)
(* those it is done with report exactly the asked change of what they      *)
(* reported when it began, through the split over two controls, rounding   *)
(* and skipped writes; all others report what they did, also when it stops *)
(* at an output that fails; OK means that none is left.                    *)
(***************************************************************************)
SetLands ==
    SetRuns =>
        /\ \A n \in Selected(request[client].selector) \ todo : Reported(n) = Goal(n)
        /\ \A n \in Names \ Selected(request[client].selector) : Reported(n) = before[n]
        /\ \A n \in todo : Busy(n) \/ Reported(n) = before[n]
        /\ outcome = "OK" => todo = {}

(***************************************************************************)
(* Between its two writes, and where it stays when the second one fails,   *)
(* an output reports a level between the old and the asked one: the order  *)
(* of the writes in set_one never shows a level outside that range.        *)
(***************************************************************************)
NoOvershoot ==
    \A n \in todo :
        SetRuns /\ Busy(n) =>
            \/ before[n] <= Reported(n) /\ Reported(n) <= Goal(n)
            \/ Goal(n) <= Reported(n) /\ Reported(n) <= before[n]

(***************************************************************************)
(* NotFound is only said of a name that LIST does not show: a SET never    *)
(* loses an output it has begun with, "@all" never names one that set_one  *)
(* or set_hardware does not know (the two maps of discover_hardware).      *)
(***************************************************************************)
NotFoundIsUnlisted ==
    outcome = "NotFound" => request[client].selector \in Names \ Listed

(***************************************************************************)
(* Coming back never dims: when the overlays are connected again, by the   *)
(* main loop or by a REFRESH, every output reports at least what it did    *)
(* without them (the fallback to the plain hardware scale in               *)
(* combined_brightness and set_one).                                       *)
(***************************************************************************)
ReconnectNeverDims ==
    [][at = "connect" /\ ~Overlays /\ Overlays' =>
          \A n \in Listed : Reported(n)' >= Reported(n)]_vars

(***************************************************************************)
(* Looking again never dims: a REFRESH that finds an output's device as    *)
(* the daemon left it shows no less than the cache did, with the overlays  *)
(* or without (percent_to_value rounds up what percent() rounds down; a    *)
(* device with few steps reads back higher).  One with a single position   *)
(* is excepted: whatever was set, it reads as 0.                           *)
(***************************************************************************)
RefreshNeverDims ==
    [][Refresh =>
          \A n \in Names \ drifted :
              /\ hardware_brightness[n] # None /\ hardware_brightness'[n] # None
              /\ Resolution[n] # 0
              => Reported(n)' >= Reported(n)]_vars

(***************************************************************************)
(* Every client is answered or dropped unless the daemon goes down,        *)
(* whatever the others ask, stall or fail at (accept in order, the timeout *)
(* of a read, one answer per request), on two conditions that the code     *)
(* leaves to others: no client trickles for ever, as each read is timed    *)
(* and not the request, and the compositor always answers a connect.       *)
(***************************************************************************)
EveryRequestAnswered ==
    []<>~Serve("Trickling") /\ []<>(at # "connect") =>
        \A c \in Clients :
            (request[c] # None /\ at # "down") ~> (request[c] = None \/ at = "down")

(***************************************************************************)
(* The overlays come back: with the compositor's outputs settled and no    *)
(* connect failing any more, a daemon that keeps running and again and     *)
(* again gets out of the inner accept loop has living overlays again and   *)
(* again, however often the connection breaks (dispatch, the 5 s attempts, *)
(* refresh).  The condition on dispatch is needed: clients that keep       *)
(* coming, each before the next accept, or one that trickles, keep the     *)
(* thread from ever dispatching, and so does a connect that hangs.         *)
(***************************************************************************)
Settled == screens = Names /\ at # "down"

OverlaysComeBack ==
    <>[]Settled /\ <>[][~ConnectFails]_vars /\ []<>(at = "dispatch") =>
        []<>(Overlays /\ alive)

=============================================================================
