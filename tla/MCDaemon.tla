------------------------------- MODULE MCDaemon -------------------------------
(***************************************************************************)
(* Instances of Daemon.tla for TLC.                                        *)
(***************************************************************************)
EXTENDS Daemon

Absolute(percent) == [kind |-> "Absolute", amount |-> percent]
Delta(points) == [kind |-> "Delta", amount |-> points]

Plain(kind) == [kind |-> kind]
GetOf(selector) == [kind |-> "Get", selector |-> selector]
SetOf(selector, change) == [kind |-> "Set", selector |-> selector, change |-> change]

(* One output, levels on both sides of the floor, a coarse device.         *)
OneNames == {1}
OneResolution == [n \in OneNames |-> 7]
OneForeign == {1, 6}
OneRequests ==
    {Plain("Refresh"), Plain("Stalled"), GetOf(1)}
        \cup {SetOf(1, Absolute(20)), SetOf(1, Absolute(80)), SetOf(All, Delta(-45))}

(* Two outputs, "@all" over any mix of hardware and overlays.  The devices *)
(* have one position: what is checked here is the loop over the outputs.   *)
PairNames == {1, 2}
PairResolution == [n \in PairNames |-> 0]
PairForeign == {0}
PairRequests == {SetOf(All, Absolute(20)), SetOf(2, Delta(45))}

(* Liveness: two clients, overlays only, every kind of request.            *)
LiveResolution == [n \in OneNames |-> 0]
LiveForeign == {0}
LiveRequests ==
    {Plain("List"), Plain("Refresh"), Plain("Bad"), Plain("Stalled"), Plain("Trickling"),
     GetOf(All), SetOf(1, Absolute(20))}

=============================================================================
