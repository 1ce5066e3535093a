-------------------------------- MODULE Waydark --------------------------------
(***************************************************************************)
(* waydark/src/lib.rs: one OverlayManager, its Wayland connection and the  *)
(* part of the compositor it talks to.  The caller (the daemon's thread)   *)
(* alternates set_brightness and dispatch in any order and drops the       *)
(* manager when dispatch fails, as daemon::run does.                       *)
(*                                                                         *)
(* Requests are buffered in the client and only leave it when dispatch     *)
(* flushes; events arrive while the caller is elsewhere and are handled,   *)
(* in order, by the next dispatch that read them.  A dim buffer may fail   *)
(* to be drawn (temporary file, size overflow) whenever one is drawn.      *)
(***************************************************************************)
EXTENDS Integers, Sequences, SequencesExt

CONSTANTS
    Outputs,        (* indices of the compositor's wl_outputs              *)
    Names,          (* output names                                        *)
    NameOf,         (* name of each output; two outputs may share one      *)
    Offered,        (* surface sizes the compositor configures; 0 is empty *)
    Levels,         (* brightnesses the caller asks for                    *)
    None,           (* Option::None                                        *)
    MaxOutgoing,    (* bound: requests buffered by the caller              *)
    MaxIncoming,    (* bound: events on their way to the client            *)
    MaxWire         (* bound: requests the compositor has not read         *)

ASSUME OutputsAssumption == Outputs \subseteq Nat /\ IsFiniteSet(Outputs)
ASSUME NameOfAssumption == NameOf \in [Outputs -> Names]
ASSUME OfferedAssumption == Offered \subseteq Nat
ASSUME LevelsAssumption == Levels \subseteq 0 .. 100

VARIABLES
    (* the manager                                                         *)
    bound,          (* outputs it has overlays for; {} when there is none  *)
    brightness,     (* OutputInfo::brightness                              *)
    size,           (* Overlay::width and height, 0 before a configure     *)
    buffer,         (* Overlay::buffer: the last frame drawn, or None      *)
    closed,         (* State::closed                                       *)
    batch,          (* events left in the running dispatch, None outside   *)
    sweep,          (* the rest of a running set_brightness("@all"), None  *)
    undrawn,        (* history: outputs whose last configure was not drawn *)
    (* the connection                                                      *)
    outgoing,       (* requests the client has not flushed                 *)
    wire,           (* requests flushed, not yet seen by the compositor    *)
    incoming,       (* events sent, not yet dispatched                     *)
    broken,         (* the connection is gone                              *)
    (* the compositor                                                      *)
    screens,        (* outputs it has                                      *)
    surface         (* per output: its layer surface, as it sees it        *)

manager    == <<bound, brightness, size, buffer, closed, undrawn>>
caller     == <<batch, sweep>>
connection == <<outgoing, wire, incoming, broken>>
compositor == <<screens, surface>>
vars == <<manager, caller, connection, compositor>>

Sizes == Offered \ {0}

Frame == [size : Sizes, level : 0 .. 100]

ASSUME NoneAssumption == None \notin Int /\ None \notin Frame

Request ==
    [kind : {"Create"}, output : Outputs]
        \cup [kind : {"Ack"}, output : Outputs, size : Sizes \cup {0}]
        \cup [kind : {"Frame"}, output : Outputs, frame : Frame]

Event ==
    [kind : {"Configure"}, output : Outputs, size : Sizes \cup {0}]
        \cup [kind : {"Closed"}, output : Outputs]

NoSurface == [exists |-> FALSE, acked |-> None, shown |-> None]

(* State::output_index: the first overlay with that name.                  *)
IsIndexOf(o, n) ==
    /\ o \in bound
    /\ NameOf[o] = n
    /\ \A p \in bound : NameOf[p] = n => o <= p

-----------------------------------------------------------------------------
Init ==
    /\ bound = {}
    /\ brightness = [o \in Outputs |-> 100]
    /\ size = [o \in Outputs |-> 0]
    /\ buffer = [o \in Outputs |-> None]
    /\ closed = FALSE
    /\ batch = None /\ sweep = None
    /\ undrawn = {}
    /\ outgoing = <<>> /\ wire = <<>> /\ incoming = <<>>
    /\ broken = FALSE
    /\ screens \in SUBSET Outputs
    /\ surface = [o \in Outputs |-> NoSurface]

(* The caller may start a call: no other is running.                       *)
Idle == bound # {} /\ batch = None /\ sweep = None

-----------------------------------------------------------------------------
(* OverlayManager::connect                                                 *)

FreshOutputs_KeepsBrightness ==
    /\ UNCHANGED brightness
    /\ size' = [o \in Outputs |-> 0]
    /\ buffer' = [o \in Outputs |-> None]
    /\ closed' = FALSE
    /\ undrawn' = {}

(* bind_outputs and Overlay's initial fields.                              *)
FreshOutputs ==
    /\ brightness' = [o \in Outputs |-> 100]
    /\ size' = [o \in Outputs |-> 0]
    /\ buffer' = [o \in Outputs |-> None]
    /\ closed' = FALSE
    /\ undrawn' = {}

(* Every wl_output of the moment gets an OutputInfo at full brightness and *)
(* a layer surface; the surfaces' requests stay in the buffer until the    *)
(* first dispatch.  Without outputs, or without a compositor, connect      *)
(* fails and leaves nothing.                                               *)
Connect ==
    /\ bound = {} /\ screens # {}
    /\ bound' = screens
    /\ FreshOutputs
    /\ \E indices \in SetToSeqs(screens) :
          /\ \A i, j \in DOMAIN indices : i < j => indices[i] < indices[j]
          /\ outgoing' = [i \in DOMAIN indices |-> [kind |-> "Create", output |-> indices[i]]]
    /\ UNCHANGED <<caller, wire, incoming, broken, compositor>>

(* daemon::run and Drop: the manager and its connection go, and with the   *)
(* connection the compositor drops the client's surfaces.                  *)
Drop ==
    /\ bound' = {}
    /\ FreshOutputs
    /\ batch' = None /\ sweep' = None
    /\ outgoing' = <<>> /\ wire' = <<>> /\ incoming' = <<>>
    /\ broken' = FALSE
    /\ surface' = [o \in Outputs |-> NoSurface]
    /\ UNCHANGED screens

-----------------------------------------------------------------------------
(* OverlayManager::set_brightness                                          *)

FrameRequest(o, frame) == [kind |-> "Frame", output |-> o, frame |-> frame]

(* draw_dim_buffer: attach, damage and commit a buffer of that frame.      *)
Draw(o, frame, requests) ==
    /\ buffer' = [buffer EXCEPT ![o] = frame]
    /\ undrawn' = undrawn \ {o}
    /\ outgoing' = outgoing \o requests \o <<FrameRequest(o, frame)>>

Record_Unsized(o, level) ==
    /\ Draw(o, [size |-> size[o], level |-> level], <<>>)
    /\ brightness' = [brightness EXCEPT ![o] = level]
    /\ UNCHANGED <<bound, size, closed>>

Record_DrawsLater(o, level) ==
    /\ brightness' = [brightness EXCEPT ![o] = level]
    /\ UNCHANGED <<bound, size, closed, buffer, undrawn, outgoing>>

(* State::set_brightness_by_index: a configured overlay is drawn first and *)
(* the brightness recorded only when that worked; one that has no size yet *)
(* is recorded for the configure to draw.                                  *)
Record(o, level) ==
    /\ IF size[o] # 0
       THEN Draw(o, [size |-> size[o], level |-> level], <<>>)
       ELSE UNCHANGED <<buffer, undrawn, outgoing>>
    /\ brightness' = [brightness EXCEPT ![o] = level]
    /\ UNCHANGED <<bound, size, closed>>

SetBrightness(n, level) ==
    /\ Idle
    /\ Len(outgoing) < MaxOutgoing
    /\ \E o \in bound :
          /\ IsIndexOf(o, n)
          /\ brightness[o] # level
          /\ Record(o, level)
    /\ UNCHANGED <<caller, wire, incoming, broken, compositor>>

(* "@all" redraws every output in turn, equal brightness or not, up to the *)
(* first that cannot be drawn.                                             *)
SetAllBegin(level) ==
    /\ Idle
    /\ Len(outgoing) + Cardinality(bound) <= MaxOutgoing
    /\ sweep' = [level |-> level, rest |-> bound]
    /\ UNCHANGED <<manager, batch, connection, compositor>>

SetAllNext ==
    /\ sweep # None
    /\ \E o \in sweep.rest :
          /\ \A p \in sweep.rest : o <= p
          /\ Record(o, sweep.level)
          /\ sweep' = IF sweep.rest = {o} THEN None
                      ELSE [sweep EXCEPT !.rest = @ \ {o}]
    /\ UNCHANGED <<batch, wire, incoming, broken, compositor>>

SetAllFails_RecordsFirst ==
    /\ sweep # None
    /\ \E o \in sweep.rest :
          /\ size[o] # 0 /\ \A p \in sweep.rest : o <= p
          /\ brightness' = [brightness EXCEPT ![o] = sweep.level]
    /\ sweep' = None
    /\ UNCHANGED <<bound, size, buffer, closed, undrawn, batch, connection, compositor>>

(* The draw fails: the error is returned and "@all" goes no further.       *)
SetAllFails ==
    /\ sweep # None
    /\ \E o \in sweep.rest : size[o] # 0 /\ \A p \in sweep.rest : o <= p
    /\ sweep' = None
    /\ UNCHANGED <<manager, batch, connection, compositor>>

-----------------------------------------------------------------------------
(* OverlayManager::dispatch                                                *)

(* The events that have arrived by now are read; later ones wait.          *)
DispatchBegin ==
    /\ Idle
    /\ batch' = Len(incoming)
    /\ UNCHANGED <<manager, sweep, connection, compositor>>

NextEvent(kind) ==
    /\ batch # None /\ batch > 0
    /\ Head(incoming).kind = kind
    /\ incoming' = Tail(incoming)
    /\ batch' = batch - 1
    /\ UNCHANGED <<sweep, wire, broken, compositor>>

AckRequest(event) == [kind |-> "Ack", output |-> event.output, size |-> event.size]

(* Configure with an empty size is acknowledged and otherwise ignored.     *)
ConfigureEmpty ==
    /\ NextEvent("Configure")
    /\ Head(incoming).size = 0
    /\ outgoing' = Append(outgoing, AckRequest(Head(incoming)))
    /\ UNCHANGED manager

Configure_AcksLast(drawn) ==
    LET event == Head(incoming)
        o     == event.output
    IN  /\ NextEvent("Configure")
        /\ event.size # 0 /\ drawn
        /\ LET frame == [size |-> event.size, level |-> brightness[o]]
           IN  /\ buffer' = [buffer EXCEPT ![o] = frame]
               /\ outgoing' = outgoing \o <<FrameRequest(o, frame), AckRequest(event)>>
        /\ size' = [size EXCEPT ![o] = event.size]
        /\ undrawn' = undrawn \ {o}
        /\ UNCHANGED <<bound, brightness, closed>>

(* The overlay takes the size and is redrawn at the recorded brightness;   *)
(* when the drawing fails the size stays taken and the error is printed.   *)
Configure(drawn) ==
    LET event == Head(incoming)
        o     == event.output
    IN  /\ NextEvent("Configure")
        /\ event.size # 0
        /\ size' = [size EXCEPT ![o] = event.size]
        /\ IF drawn
           THEN Draw(o, [size |-> event.size, level |-> brightness[o]], <<AckRequest(event)>>)
           ELSE /\ outgoing' = Append(outgoing, AckRequest(event))
                /\ undrawn' = undrawn \cup {o}
                /\ UNCHANGED buffer
        /\ UNCHANGED <<bound, brightness, closed>>

LayerClosed_Ignored ==
    /\ NextEvent("Closed")
    /\ UNCHANGED <<manager, outgoing>>

LayerClosed ==
    /\ NextEvent("Closed")
    /\ closed' = TRUE
    /\ UNCHANGED <<bound, brightness, size, buffer, undrawn, outgoing>>

DispatchEnd_IgnoresClosed ==
    /\ batch = 0 /\ ~broken
    /\ Len(wire) + Len(outgoing) <= MaxWire
    /\ batch' = None
    /\ wire' = wire \o outgoing
    /\ outgoing' = <<>>
    /\ UNCHANGED <<manager, sweep, incoming, broken, compositor>>

(* dispatch returned Ok: the requests are flushed.  (Past MaxWire the      *)
(* socket is full and the flush fails.)                                    *)
DispatchEnd ==
    /\ batch = 0 /\ ~closed /\ ~broken
    /\ Len(wire) + Len(outgoing) <= MaxWire
    /\ batch' = None
    /\ wire' = wire \o outgoing
    /\ outgoing' = <<>>
    /\ UNCHANGED <<manager, sweep, incoming, broken, compositor>>

(* dispatch returned an error: an overlay was closed, the connection is    *)
(* gone, or there were requests and the socket would not take them.        *)
DispatchFails ==
    /\ batch = 0
    /\ closed \/ broken \/ outgoing # <<>>
    /\ Drop

-----------------------------------------------------------------------------
(* The compositor                                                          *)

(* It takes the client's requests in order.  A surface on an output that   *)
(* has gone meanwhile is closed at once; requests to a closed one do       *)
(* nothing.                                                                *)
TakeRequest ==
    /\ wire # <<>>
    /\ wire' = Tail(wire)
    /\ LET request == Head(wire)
           o == request.output
       IN  CASE request.kind = "Create" ->
                  /\ surface' = [surface EXCEPT ![o].exists = o \in screens]
                  /\ incoming' = IF o \in screens THEN incoming
                                 ELSE Append(incoming, [kind |-> "Closed", output |-> o])
             [] request.kind = "Ack" /\ surface[o].exists ->
                  /\ surface' = [surface EXCEPT ![o].acked = request.size]
                  /\ UNCHANGED incoming
             [] request.kind = "Frame" /\ surface[o].exists ->
                  /\ surface' = [surface EXCEPT ![o].shown = request.frame]
                  /\ UNCHANGED incoming
             [] OTHER -> UNCHANGED <<surface, incoming>>
    /\ UNCHANGED <<manager, caller, outgoing, broken, screens>>

SendConfigure(o, s) ==
    /\ surface[o].exists
    /\ Len(incoming) < MaxIncoming
    /\ incoming' = Append(incoming, [kind |-> "Configure", output |-> o, size |-> s])
    /\ UNCHANGED <<manager, caller, outgoing, wire, broken, compositor>>

(* An output goes; its layer surface is closed.                            *)
RemoveScreen(o) ==
    /\ o \in screens
    /\ screens' = screens \ {o}
    /\ surface' = [surface EXCEPT ![o] = NoSurface]
    /\ incoming' = IF surface[o].exists
                   THEN Append(incoming, [kind |-> "Closed", output |-> o])
                   ELSE incoming
    /\ UNCHANGED <<manager, caller, outgoing, wire, broken>>

(* A new output is announced on the registry, whose events are ignored.    *)
AddScreen(o) ==
    /\ o \in Outputs \ screens
    /\ screens' = screens \cup {o}
    /\ UNCHANGED <<manager, caller, connection, surface>>

(* The compositor exits: only what the running dispatch has already read   *)
(* is still delivered.                                                     *)
CompositorExits ==
    /\ screens # {}
    /\ screens' = {}
    /\ broken' = (bound # {})
    /\ wire' = <<>>
    /\ incoming' = IF batch = None THEN <<>> ELSE SubSeq(incoming, 1, batch)
    /\ surface' = [o \in Outputs |-> NoSurface]
    /\ UNCHANGED <<manager, caller, outgoing>>

-----------------------------------------------------------------------------
Caller ==
    \/ Connect
    \/ \E n \in Names, level \in Levels : SetBrightness(n, level)
    \/ \E level \in Levels : SetAllBegin(level)

Running ==
    \/ SetAllNext
    \/ SetAllFails
    \/ ConfigureEmpty
    \/ \E drawn \in BOOLEAN : Configure(drawn)
    \/ LayerClosed
    \/ DispatchEnd
    \/ DispatchFails

Environment ==
    \/ \E o \in Outputs, s \in Offered : SendConfigure(o, s)
    \/ \E o \in Outputs : RemoveScreen(o) \/ AddScreen(o)
    \/ CompositorExits

Next == Caller \/ DispatchBegin \/ Running \/ TakeRequest \/ Environment

(* The caller comes back to dispatch again and again, whatever it sets in  *)
(* between; a call once begun returns, and the compositor reads its        *)
(* socket.  Nothing else is promised.                                      *)
Fairness ==
    /\ SF_vars(DispatchBegin) /\ WF_vars(Running)
    /\ WF_vars(TakeRequest)

Spec == Init /\ [][Next]_vars /\ Fairness

-----------------------------------------------------------------------------
TypeOK ==
    /\ bound \subseteq Outputs
    /\ brightness \in [Outputs -> 0 .. 100]
    /\ size \in [Outputs -> Sizes \cup {0}]
    /\ buffer \in [Outputs -> Frame \cup {None}]
    /\ closed \in BOOLEAN
    /\ batch \in Nat \cup {None}
    /\ sweep \in [level : 0 .. 100, rest : SUBSET Outputs] \cup {None}
    /\ undrawn \subseteq Outputs
    /\ outgoing \in Seq(Request) /\ wire \in Seq(Request) /\ incoming \in Seq(Event)
    /\ broken \in BOOLEAN
    /\ screens \subseteq Outputs
    /\ surface \in [Outputs -> [exists : BOOLEAN, acked : Sizes \cup {0, None},
                                shown : Frame \cup {None}]]

(***************************************************************************)
(* What brightness() reports of an overlay with a size is what its last    *)
(* frame shows at that size, unless the drawing failed in the Configure    *)
(* handler itself.  A failed set_brightness leaves report and frame        *)
(* agreeing (set_brightness_by_index records after drawing); a set before  *)
(* the first configure is caught up by that configure.                     *)
(***************************************************************************)
ReportMatchesFrame ==
    \A o \in bound \ undrawn :
        size[o] # 0 => buffer[o] = [size |-> size[o], level |-> brightness[o]]

(***************************************************************************)
(* The layer-shell rule: no buffer reaches a surface before a configure of *)
(* it was acknowledged, and a buffer has the size acknowledged last,       *)
(* whatever was set, configured or not drawn in between (the width > 0     *)
(* guard of set_brightness_by_index, ack_configure before drawing and the  *)
(* size taken even when drawing fails).                                    *)
(***************************************************************************)
FramesFollowAcks ==
    wire # <<>> /\ Head(wire).kind = "Frame" =>
        LET s == surface[Head(wire).output]
        IN  s.exists => s.acked \in {0, Head(wire).frame.size}

(***************************************************************************)
(* A closed overlay is noticed by the dispatch that reads the event: no    *)
(* call of the caller ever works on a manager with the closed flag set.    *)
(***************************************************************************)
ClosedNeverSurvivesDispatch == closed => batch # None

(***************************************************************************)
(* An acknowledged brightness gets to the screen: what an overlay with a   *)
(* size is set to is eventually shown there, unless it is set again, the   *)
(* Configure handler could not draw it or the manager is dropped           *)
(* (commit in draw_dim_buffer, flush in dispatch).                         *)
(***************************************************************************)
EventuallyShown ==
    \A o \in Outputs, level \in Levels :
        (o \in bound /\ size[o] # 0 /\ brightness[o] = level) ~>
            \/ surface[o].shown # None /\ surface[o].shown.level = level
            \/ brightness[o] # level \/ o \in undrawn \/ o \notin bound

(***************************************************************************)
(* The Closed event of any overlay ends in the manager being dropped, so   *)
(* that the caller reconnects (State::closed, dispatch's last check).      *)
(***************************************************************************)
ClosedIsNoticed ==
    (\E i \in DOMAIN incoming : incoming[i].kind = "Closed") ~> bound = {}

(***************************************************************************)
(* OverlayManager::brightness under a name, and the interface it           *)
(* implements: every step of the connection, the handlers and the          *)
(* compositor is an adjustment, an appearance, a loss or nothing to it.    *)
(***************************************************************************)
software ==
    [n \in Names |-> IF \E o \in bound : NameOf[o] = n
                     THEN brightness[CHOOSE o \in bound : IsIndexOf(o, n)]
                     ELSE None]

Dimming == INSTANCE SoftwareDimming WITH software <- software

ImplementsSoftwareDimming == Dimming!Spec

=============================================================================
