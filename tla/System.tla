-------------------------------- MODULE System --------------------------------
(***************************************************************************)
(* The daemon's thread and its overlays together: Waydark.tla with the     *)
(* caller that daemon::run is in the place of one that does anything.  The *)
(* thread dispatches, serves every client that waits, and dispatches       *)
(* again; a client has its OK before the frame has left the process.       *)
(*                                                                         *)
(* Outputs have overlays only, so that a SET is one write, and a SET of    *)
(* what an output already has is none.                                     *)
(***************************************************************************)
EXTENDS Waydark

VARIABLES
    at,             (* the thread: "dispatch" or "accept"                  *)
    waiting,        (* a client waits to be accepted                       *)
    told,           (* the level each name was last set to with an OK      *)
    lost            (* history: names whose overlays were lost since       *)

thread == <<at, waiting, told, lost>>
all == <<vars, thread>>

NobodyTold == [n \in Names |-> None]

InitSystem ==
    Init /\ at = "dispatch" /\ waiting = FALSE /\ told = NobodyTold /\ lost = {}

-----------------------------------------------------------------------------
BeginDispatch == at = "dispatch" /\ DispatchBegin /\ UNCHANGED thread

HandleEvent ==
    /\ ConfigureEmpty \/ (\E drawn \in BOOLEAN : Configure(drawn)) \/ LayerClosed
    /\ UNCHANGED thread

EndDispatch == DispatchEnd /\ at' = "accept" /\ UNCHANGED <<waiting, told, lost>>

(* An OK that was given is given, whatever was still to be flushed.        *)
LoseOverlays ==
    /\ DispatchFails
    /\ lost' = {n \in Names : told[n] # None}
    /\ at' = "accept" /\ UNCHANGED <<waiting, told>>

(* reconnect_overlay_if_due: not due, failed or connected.                 *)
Reconnect ==
    /\ at = "dispatch" /\ bound = {}
    /\ Connect \/ UNCHANGED vars
    /\ at' = "accept" /\ UNCHANGED <<waiting, told, lost>>

Served ==
    at = "accept" /\ waiting /\ waiting' = FALSE /\ UNCHANGED at

(* set_one writes what differs, and handle_client answers OK.              *)
ServeSet(n, level) ==
    /\ Served
    /\ software[n] # None
    /\ IF software[n] = level THEN UNCHANGED vars ELSE SetBrightness(n, level)
    /\ told' = [told EXCEPT ![n] = level]
    /\ lost' = lost \ {n}

(* Any other request, or one that fails; REFRESH connects lost overlays.   *)
ServeOther ==
    /\ Served
    /\ (bound = {} /\ Connect) \/ UNCHANGED vars
    /\ UNCHANGED <<told, lost>>

(* The inner loop ends when nobody waits.                                  *)
NobodyWaits ==
    /\ at = "accept" /\ ~waiting
    /\ at' = "dispatch"
    /\ UNCHANGED <<vars, waiting, told, lost>>

(* (MaxOutgoing bounds the sets between two dispatches.)                   *)
Arrive ==
    /\ ~waiting /\ Len(outgoing) < MaxOutgoing
    /\ waiting' = TRUE
    /\ UNCHANGED <<vars, at, told, lost>>

Dispatching == BeginDispatch \/ HandleEvent \/ EndDispatch \/ LoseOverlays

Daemon ==
    \/ Dispatching \/ Reconnect
    \/ \E n \in Names, level \in Levels : ServeSet(n, level)
    \/ ServeOther \/ NobodyWaits

NextSystem ==
    \/ Daemon \/ Arrive
    \/ (TakeRequest \/ Environment) /\ UNCHANGED thread

(* A dispatch waits for nobody, and the compositor reads.  That the thread *)
(* gets back to dispatch is not assumed.                                   *)
SystemSpec ==
    /\ InitSystem /\ [][NextSystem]_all
    /\ WF_all(Dispatching) /\ WF_all(TakeRequest /\ UNCHANGED thread)

-----------------------------------------------------------------------------
(* The requests between the daemon and the compositor, and the frames of   *)
(* an output among them.                                                   *)
InFlight == wire \o outgoing

FramesTo(o) ==
    {i \in DOMAIN InFlight : InFlight[i].kind = "Frame" /\ InFlight[i].output = o}

(* The level of the last of them, or of the frame that is shown if there   *)
(* is none.                                                                *)
LastFrameHas(o, level) ==
    /\ \A i \in FramesTo(o) :
          (\A j \in FramesTo(o) : j <= i) => InFlight[i].frame.level = level
    /\ FramesTo(o) = {} => surface[o].shown # None /\ surface[o].shown.level = level

(***************************************************************************)
(* What was answered OK is on its way or lost with its manager: GET says   *)
(* what the last OK was about, and of the output it means, once it has a   *)
(* size, the last frame between the daemon and the compositor's surface,   *)
(* or the one that is shown if there is none, has that level, whatever was *)
(* configured in between.  If the overlays were lost since, the frame may  *)
(* never have left the process; then GET no longer says so: until the next *)
(* OK the output has no overlay or one at 100.  (The frame is not promised *)
(* where the configure handler could not draw it or the surface has gone.) *)
(***************************************************************************)
OkIsOnItsWay ==
    \A n \in Names : told[n] # None =>
        IF n \in lost THEN software[n] \in {None, 100}
        ELSE /\ software[n] = told[n]
             /\ \A o \in bound \ undrawn :
                   IsIndexOf(o, n) /\ size[o] # 0 /\ surface[o].exists =>
                       LastFrameHas(o, told[n])

(***************************************************************************)
(* Clients that leave the thread to dispatch again and again see what they *)
(* were told: under this the daemon is a caller that Waydark's fairness    *)
(* asks for.  Without it the inner accept loop never ends.                 *)
(***************************************************************************)
PausesSuffice == []<>(at = "dispatch") => EventuallyShown

=============================================================================
