---------------------------- MODULE SoftwareDimming ----------------------------
(***************************************************************************)
(* What software dimming promises the daemon: the interface of             *)
(* waydark::OverlayManager as DaemonState uses it, without surfaces,       *)
(* buffers or the Wayland connection.  The outputs appear together, at     *)
(* full brightness; each is adjusted by itself and keeps what it was set   *)
(* to; they are lost together, and what they were set to is lost too.      *)
(*                                                                         *)
(* Waydark.tla implements this specification; Daemon.tla uses its actions. *)
(***************************************************************************)
EXTENDS Integers

CONSTANTS
    Names,          (* output names                                        *)
    None            (* the name has no overlay                             *)

VARIABLE software   (* OverlayManager::brightness of each name             *)

Dimmed == {n \in Names : software[n] # None}

TypeOK == software \in [Names -> (0 .. 100) \cup {None}]

Init == software = [n \in Names |-> None]

(* OverlayManager::connect succeeded; it refuses a compositor without      *)
(* outputs.                                                                *)
Appear(outputs) ==
    /\ Dimmed = {}
    /\ outputs # {}
    /\ software' = [n \in Names |-> IF n \in outputs THEN 100 ELSE None]

(* OverlayManager::set_brightness returned Ok.                             *)
Adjust(n, percent) ==
    /\ n \in Dimmed
    /\ software' = [software EXCEPT ![n] = percent]

(* The manager was dropped.                                                *)
Lose == software' = [n \in Names |-> None]

(* The arguments are read off the next state: nothing else can have been   *)
(* meant by it.                                                            *)
Next ==
    \/ Appear(Dimmed')
    \/ \E n \in Dimmed : software'[n] \in 0 .. 100 /\ Adjust(n, software'[n])
    \/ Lose

Spec == Init /\ [][Next]_software

=============================================================================
