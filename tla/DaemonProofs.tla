----------------------------- MODULE DaemonProofs -----------------------------
(***************************************************************************)
(* Theorems about Daemon.tla, for every set of outputs, clients and        *)
(* requests, every mix of devices and overlays, every change and every     *)
(* hardware minimum, with failures and the world's moves between any two   *)
(* steps: its types and queue, what a SET does, the honesty of the cache,  *)
(* and what a reconnection may do.                                         *)
(***************************************************************************)
EXTENDS Daemon, BrightnessProofs

Queued(c) == \E i \in DOMAIN backlog : backlog[i] = c

(* Whoever waits is being handled or is in the queue, and there once;      *)
(* nobody else is.                                                         *)
WaitingOnce ==
    /\ \A c \in Clients : request[c] # None <=> c = client \/ Queued(c)
    /\ ~Queued(client)
    /\ \A i, j \in DOMAIN backlog : backlog[i] = backlog[j] => i = j

(* Where the thread is says what it holds: a client from accept to reply,  *)
(* whose request is a SET while set runs, and a job while set_one does.    *)
ThreadOK ==
    /\ at \in {"down", "dispatch", "accept"} => client = None
    /\ at \in {"serve", "set", "write", "dim", "reply"} => client # None
    /\ at = "connect" /\ client # None => request[client].kind = "Refresh"
    /\ at \in {"set", "write", "dim"} => request[client].kind = "Set"
    /\ at \in {"write", "dim"} => job # None

TypeInv == TypeOK /\ WaitingOnce /\ ThreadOK

USE DEF Levels, Outcomes

(* What is reported of an output is a level, and of a listed one a         *)
(* percentage.                                                             *)
LEMMA ReportedIsLevel ==
    ASSUME TypeOK, NEW n \in Names
    PROVE  Reported(n) \in Levels /\ (n \in Listed => Reported(n) \in Percents)
<1>1. hardware_brightness[n] \in Levels /\ software[n] \in Levels
  BY DEF TypeOK
<1>2. HardwareMin \in 1 .. 99
  BY HardwareMinAssumption DEF validate_hardware_min
<1> QED
  BY <1>1, <1>2, CombinedIsLevel DEF Reported, Listed

(* The targets of set_one are levels.                                      *)
LEMMA TargetsAreLevels ==
    ASSUME NEW h, NEW s, NEW target \in Percents
    PROVE  Targets(h, s, target).hardware \in Levels /\ Targets(h, s, target).software \in Levels
<1>1. CASE h # None /\ s # None
  <2>1. Targets(h, s, target) = split_brightness(target, HardwareMin)
    BY <1>1 DEF Targets
  <2> QED
    BY <2>1, SplitRoundTrips, HardwareMinAssumption
<1>2. CASE h # None /\ s = None
  <2>1. Targets(h, s, target) = [hardware |-> target, software |-> None]
    BY <1>2 DEF Targets
  <2> QED
    BY <2>1
<1>3. CASE h = None
  <2>1. Targets(h, s, target) = [hardware |-> None, software |-> target]
    BY <1>3 DEF Targets
  <2> QED
    BY <2>1
<1> QED
  BY <1>1, <1>2, <1>3

(* Discovery fills the cache with percentages.                             *)
LEMMA DiscoverKeepsTypes ==
    ASSUME TypeOK, Discover
    PROVE  /\ hardware' \subseteq Names
           /\ hardware_brightness' \in [Names -> Levels]
           /\ drifted' \subseteq Names
<1>1. PICK found \in SUBSET plugged : \E readable \in SUBSET found :
        /\ hardware' = found
        /\ hardware_brightness' =
              [n \in Names |-> IF n \in readable
                               THEN percent_of(panel[n], Resolution[n]) ELSE None]
        /\ drifted' = {}
  BY DEF Discover
<1>2. PICK readable \in SUBSET found :
        /\ hardware' = found
        /\ hardware_brightness' =
              [n \in Names |-> IF n \in readable
                               THEN percent_of(panel[n], Resolution[n]) ELSE None]
        /\ drifted' = {}
  BY <1>1
<1>3. \A n \in Names : percent_of(panel[n], Resolution[n]) \in Percents
  BY RegisterIsPercent, ResolutionAssumption DEF TypeOK, Registers
<1> QED
  BY <1>2, <1>3 DEF TypeOK

(* An overlay that (re)appears starts at 100, or is lost again.            *)
LEMMA ConnectKeepsTypes ==
    ASSUME TypeOK, connect \/ UNCHANGED <<software, alive>>
    PROVE  software' \in [Names -> Levels] /\ alive' \in BOOLEAN
<1>1. CASE connect /\ screens # {}
  <2>1. software' = [n \in Names |-> IF n \in screens THEN 100 ELSE None]
    BY <1>1 DEF connect, Dimming!Appear
  <2>2. 100 \in Percents
    BY DEF Percents
  <2> QED
    BY <1>1, <2>1, <2>2 DEF connect
<1>2. CASE UNCHANGED <<software, alive>>
  BY <1>2 DEF TypeOK
<1> QED
  BY <1>1, <1>2 DEF connect

-----------------------------------------------------------------------------
(* The initial states have the types.                                      *)
LEMMA InitTypeInv == Init => TypeInv
<1> SUFFICES ASSUME Init PROVE TypeInv
  OBVIOUS
<1>1. TypeOK
  <2>1. panel \in [Names -> Nat] /\ \A n \in Names : panel[n] \in Registers(n)
    BY ForeignAssumption DEF Init
  <2>2. request \in [Clients -> Requests \cup {None}] /\ backlog \in Seq(Clients)
    BY DEF Init
  <2>3. /\ hardware_brightness \in [Names -> Levels] /\ before \in [Names -> Levels]
        /\ late \in [Names -> Nat \cup {None}] /\ \A n \in Names : late[n] = None
    BY DEF Init, NoLevels
  <2>4. software \in [Names -> Levels]
    BY DEF Init, Dimming!Init
  <2> QED
    BY <2>1, <2>2, <2>3, <2>4 DEF Init, TypeOK, Places
<1>2. WaitingOnce
  BY NoneOfAssumption DEF Init, WaitingOnce, Queued
<1>3. ThreadOK
  BY DEF Init, ThreadOK
<1> QED
  BY <1>1, <1>2, <1>3 DEF TypeInv

-----------------------------------------------------------------------------
(* A SET being run is a request of the current client.                     *)
LEMMA CurrentSet ==
    ASSUME TypeInv, at \in {"set", "write", "dim"}
    PROVE  /\ client \in Clients
           /\ request[client] \in Requests
           /\ request[client].change \in PercentChange
           /\ request[client].selector \in Selectors
<1>1. client \in Clients /\ client # None
  BY DEF TypeInv, TypeOK, ThreadOK
<1>2. request[client] \in Requests
  BY <1>1 DEF TypeInv, TypeOK, WaitingOnce
<1>3. request[client] \in Request /\ request[client].kind = "Set"
  BY <1>2, RequestsAssumption DEF TypeInv, ThreadOK
<1>4. request[client] \in [kind : {"Set"}, selector : Selectors, change : PercentChange]
  BY <1>3 DEF Request
<1> QED
  BY <1>1, <1>2, <1>4

(* Whom the thread serves has asked for something.                         *)
LEMMA ServedRequest ==
    ASSUME TypeInv, at = "serve"
    PROVE  /\ client \in Clients /\ request[client] \in Requests
           /\ request[client].kind \in {"Get", "Set"} => request[client].selector \in Selectors
<1>1. client \in Clients /\ client # None
  BY DEF TypeInv, TypeOK, ThreadOK
<1>2. request[client] \in Requests
  BY <1>1 DEF TypeInv, TypeOK, WaitingOnce
<1>3. request[client] \in Request
  BY <1>2, RequestsAssumption
<1> QED
  BY <1>1, <1>2, <1>3 DEF Request

(* set_one ends in a job of the right kind or in NotFound.                 *)
LEMMA SetOneOutcome ==
    ASSUME TypeInv, set_one
    PROVE  \/ at' = "write" /\ job' \in Job /\ outcome' = outcome
           \/ at' = "reply" /\ job' = job /\ outcome' = "NotFound"
<1>1. PICK n \in todo :
        IF n \in Listed
        THEN LET target  == apply_percent_change(Reported(n), request[client].change)
                 targets == Targets(hardware_brightness[n], software[n], target)
             IN  /\ job' = [name |-> n,
                            hardware |-> Unless(targets.hardware, hardware_brightness[n]),
                            software |-> Unless(targets.software, software[n])]
                 /\ at' = "write"
                 /\ UNCHANGED outcome
        ELSE Answer("NotFound") /\ UNCHANGED job
  BY DEF set_one
<1>2. n \in Names
  BY DEF TypeInv, TypeOK
<1>3. CASE n \in Listed
  <2> DEFINE target  == apply_percent_change(Reported(n), request[client].change)
             targets == Targets(hardware_brightness[n], software[n], target)
  <2>1. target \in Percents
    BY <1>2, <1>3, ReportedIsLevel, CurrentSet, ChangedIsPercent DEF set_one, TypeInv
  <2> HIDE DEF target
  <2>2. targets.hardware \in Levels /\ targets.software \in Levels
    BY <1>2, <2>1, TargetsAreLevels
  <2>3. job' = [name |-> n,
                hardware |-> Unless(targets.hardware, hardware_brightness[n]),
                software |-> Unless(targets.software, software[n])]
    BY <1>1, <1>3 DEF target
  <2> HIDE DEF targets
  <2>4. job' \in Job
    BY <1>2, <2>2, <2>3 DEF Job, Unless
  <2>5. at' = "write" /\ outcome' = outcome
    BY <1>1, <1>3
  <2> QED
    BY <2>4, <2>5
<1>4. CASE n \notin Listed
  BY <1>1, <1>4 DEF Answer
<1> QED
  BY <1>3, <1>4

(* Every step keeps the types.                                             *)
LEMMA StepTypeOK == TypeInv /\ [Next]_vars => TypeOK'
<1> SUFFICES ASSUME TypeInv, [Next]_vars PROVE TypeOK'
  OBVIOUS
<1> USE DEF TypeInv, state, serving, clients, devices, desktop, Places
<1>1. CASE Start
  <2>1. /\ hardware' \subseteq Names /\ hardware_brightness' \in [Names -> Levels]
        /\ drifted' \subseteq Names
    BY <1>1, DiscoverKeepsTypes DEF Start
  <2>2. software' \in [Names -> Levels] /\ overlay_due' \in BOOLEAN /\ alive' \in BOOLEAN
    BY <1>1, ConnectKeepsTypes DEF Start
  <2> QED
    BY <1>1, <2>1, <2>2 DEF Start, TypeOK, Registers
<1>2. CASE DispatchOk \/ NobodyWaits \/ NoHardwareWrite
  BY <1>2 DEF DispatchOk, NobodyWaits, NoHardwareWrite, TypeOK, Registers
<1>3. CASE DispatchFails
  <2>1. software' \in [Names -> Levels]
    BY <1>3 DEF DispatchFails, Dimming!Lose
  <2> QED
    BY <1>3, <2>1 DEF DispatchFails, TypeOK, Registers
<1>4. CASE reconnect_overlay_if_due
  BY <1>4 DEF reconnect_overlay_if_due, TypeOK, Registers
<1>5. CASE Accept
  <2>1. Head(backlog) \in Clients /\ Tail(backlog) \in Seq(Clients)
    BY <1>5 DEF Accept, TypeOK
  <2> QED
    BY <1>5, <2>1 DEF Accept, TypeOK, Registers
<1>6. CASE ReadTimesOut
  BY <1>6 DEF ReadTimesOut, TypeOK, Registers
<1>7. CASE List \/ Get \/ Bad \/ RefreshFails \/ SetDone \/ HardwareFails \/ SoftwareFails
  <2>1. outcome' \in {"OK", "ERR", "NotFound"} /\ at' = "reply"
    BY <1>7 DEF List, Get, Bad, RefreshFails, SetDone, HardwareFails, SoftwareFails, Answer
  <2>2. UNCHANGED <<state, client, todo, job, before, clients, devices, desktop>>
    BY <1>7 DEF List, Get, Bad, RefreshFails, SetDone, HardwareFails, SoftwareFails
  <2> QED
    BY <2>1, <2>2 DEF TypeOK, Registers
<1>8. CASE Refresh
  <2>1. /\ hardware' \subseteq Names /\ hardware_brightness' \in [Names -> Levels]
        /\ drifted' \subseteq Names
    BY <1>8, DiscoverKeepsTypes DEF Refresh
  <2>2. /\ at' \in {"connect", "reply"} /\ outcome' \in Outcomes \cup {None}
        /\ overlay_due' \in BOOLEAN
    BY <1>8 DEF Refresh, Answer, TypeOK
  <2> QED
    BY <1>8, <2>1, <2>2 DEF Refresh, TypeOK, Registers
<1>9. CASE Reply
  BY <1>9 DEF Reply, NoLevels, TypeOK, Registers
<1>10. CASE BeginSet
  <2>1. before' \in [Names -> Levels]
    BY <1>10, ReportedIsLevel DEF BeginSet
  <2>2. todo' \subseteq Names
    BY <1>10, ServedRequest DEF BeginSet, Serve, Selected, Listed, Selectors
  <2> QED
    BY <1>10, <2>1, <2>2 DEF BeginSet, TypeOK, Registers
<1>11. CASE set_one
  BY <1>11, SetOneOutcome DEF set_one, TypeOK, Registers
<1>12. CASE set_hardware
  <2>1. job \in Job /\ job.name \in Names /\ job.hardware \in Percents
    BY <1>12 DEF set_hardware, TypeOK, ThreadOK, Job
  <2>2. percent_to_value(job.hardware, Resolution[job.name]) \in Registers(job.name)
    BY <2>1, ValueIsRegister, ResolutionAssumption DEF Registers
  <2>3. percent_to_value(job.hardware, Resolution[job.name]) \in Nat
    BY <2>1, <2>2, ResolutionAssumption DEF Registers
  <2>4. panel' \in [Names -> Nat] /\ \A n \in Names : panel'[n] \in Registers(n)
    BY <1>12, <2>1, <2>2, <2>3 DEF set_hardware, TypeOK
  <2>5. late' \in [Names -> Nat \cup {None}]
    BY <1>12 DEF set_hardware, TypeOK
  <2>6. \A n \in Names : late'[n] # None => late'[n] \in Registers(n)
    BY <1>12, <2>1 DEF set_hardware, TypeOK
  <2>7. hardware_brightness' \in [Names -> Levels]
    BY <1>12, <2>1 DEF set_hardware, TypeOK
  <2> QED
    BY <1>12, <2>4, <2>5, <2>6, <2>7 DEF set_hardware, TypeOK, Registers
<1>13. CASE HardwareTimesOut
  <2>1. job \in Job /\ job.name \in Names /\ job.hardware \in Percents
    BY <1>13 DEF HardwareTimesOut, TypeOK, ThreadOK, Job
  <2>2. percent_to_value(job.hardware, Resolution[job.name]) \in Registers(job.name)
    BY <2>1, ValueIsRegister, ResolutionAssumption DEF Registers
  <2>3. percent_to_value(job.hardware, Resolution[job.name]) \in Nat
    BY <2>1, <2>2, ResolutionAssumption DEF Registers
  <2>4. /\ late' \in [Names -> Nat \cup {None}]
        /\ \A n \in Names : late'[n] # None => late'[n] \in Registers(n)
    BY <1>13, <2>1, <2>2, <2>3 DEF HardwareTimesOut, TypeOK
  <2> QED
    BY <1>13, <2>4 DEF HardwareTimesOut, Answer, TypeOK, Registers
<1>14. CASE set_software
  <2>1. job \in Job
    BY <1>14 DEF set_software, TypeOK, ThreadOK
  <2>2. software' \in [Names -> Levels]
    BY <1>14, <2>1 DEF set_software, Dimming!Adjust, TypeOK, Job
  <2> QED
    BY <1>14, <2>2 DEF set_software, TypeOK, Registers
<1>15. CASE Crash
  <2>1. software' \in [Names -> Levels]
    BY <1>15 DEF Crash, Dimming!Lose
  <2>2. hardware_brightness' \in [Names -> Levels] /\ before' \in [Names -> Levels]
    BY <1>15 DEF Crash, NoLevels
  <2>3. backlog' \in Seq(Clients)
    BY <1>15 DEF Crash, TypeOK
  <2>4. request' \in [Clients -> Requests \cup {None}]
    BY <1>15 DEF Crash, TypeOK
  <2> QED
    BY <1>15, <2>1, <2>2, <2>3, <2>4 DEF Crash, TypeOK, Registers
<1>16. CASE FiveSecondsPass
  BY <1>16 DEF FiveSecondsPass, TypeOK, Registers
<1>17. CASE \E c \in Clients, r \in Requests : Ask(c, r)
  BY <1>17 DEF Ask, TypeOK, Registers
<1>18. CASE \E n \in Names, value \in Foreign : ForeignWrite(n, value) \/ Plug(n, value)
  <2>1. PICK n \in Names, value \in Foreign : ForeignWrite(n, value) \/ Plug(n, value)
    BY <1>18
  <2>2. value \in Nat /\ value \in Registers(n)
    <3>1. value \in Registers(n)
      BY <2>1 DEF ForeignWrite, Plug
    <3> QED
      BY <3>1, ForeignAssumption
  <2>3. panel' \in [Names -> Nat] /\ \A k \in Names : panel'[k] \in Registers(k)
    <3>1. panel' = [panel EXCEPT ![n] = value]
      BY <2>1 DEF ForeignWrite, Plug
    <3> QED
      BY <2>2, <3>1 DEF TypeOK
  <2>4. plugged' \subseteq Names /\ drifted' \subseteq Names
    BY <2>1 DEF ForeignWrite, Plug, TypeOK
  <2>5. UNCHANGED <<state, at, serving, clients, late, desktop>>
    BY <2>1 DEF ForeignWrite, Plug
  <2> QED
    BY <2>3, <2>4, <2>5 DEF TypeOK, Registers
<1>19. CASE \E n \in Names : LateWrite(n) \/ Unplug(n)
  <2>1. PICK n \in Names : LateWrite(n) \/ Unplug(n)
    BY <1>19
  <2>2. panel' \in [Names -> Nat] /\ \A k \in Names : panel'[k] \in Registers(k)
    BY <2>1 DEF LateWrite, Unplug, TypeOK
  <2>3. /\ late' \in [Names -> Nat \cup {None}]
        /\ \A k \in Names : late'[k] # None => late'[k] \in Registers(k)
    BY <2>1 DEF LateWrite, Unplug, TypeOK
  <2> QED
    BY <2>1, <2>2, <2>3 DEF LateWrite, Unplug, TypeOK, Registers
<1>20. CASE (\E offered \in SUBSET Names : ScreensChange(offered)) \/ ConnectionBreaks
  BY <1>20 DEF ScreensChange, ConnectionBreaks, TypeOK, Registers
<1>21. CASE Connecting
  <2>1. software' \in [Names -> Levels] /\ alive' \in BOOLEAN
    BY <1>21, ConnectKeepsTypes DEF Connecting, reconnect_overlay, ConnectFails
  <2>2. at' \in {"accept", "reply"} /\ outcome' \in Outcomes \cup {None}
    BY <1>21 DEF Connecting, reconnect_overlay, ConnectFails, Continue, Answer, TypeOK
  <2>3. UNCHANGED <<hardware, hardware_brightness, overlay_due, client, todo, job, before, clients,
                    devices, screens>>
    BY <1>21 DEF Connecting, reconnect_overlay, ConnectFails
  <2> QED
    BY <2>1, <2>2, <2>3 DEF TypeOK, Registers
<1>22. CASE \E r \in Requests : TrickleEnds(r)
  <2>1. client \in Clients
    BY <1>22, ServedRequest DEF TrickleEnds, Serve
  <2> QED
    BY <1>22, <2>1 DEF TrickleEnds, TypeOK, Registers
<1>23. CASE UNCHANGED vars
  BY <1>23 DEF vars, TypeOK, Registers
<1> QED
  BY <1>1, <1>2, <1>3, <1>4, <1>5, <1>6, <1>7, <1>8, <1>9, <1>10, <1>11, <1>12, <1>13, <1>14,
     <1>15, <1>16, <1>17, <1>18, <1>19, <1>20, <1>21, <1>22, <1>23 DEF Next, Thread, World

(* Every step leaves the thread holding what its place says.               *)
LEMMA StepThreadOK == TypeInv /\ [Next]_vars => ThreadOK'
<1> SUFFICES ASSUME TypeInv, [Next]_vars PROVE ThreadOK'
  OBVIOUS
<1> USE DEF TypeInv, ThreadOK, state, serving, clients, devices, desktop, Answer
<1>1. CASE Start
  BY <1>1 DEF Start
<1>2. CASE DispatchOk \/ DispatchFails \/ reconnect_overlay_if_due
  BY <1>2 DEF DispatchOk, DispatchFails, reconnect_overlay_if_due
<1>3. CASE Accept
  <2>1. Head(backlog) \in Clients
    BY <1>3 DEF Accept, TypeOK
  <2> QED
    BY <1>3, <2>1, NoneOfAssumption DEF Accept
<1>4. CASE NobodyWaits \/ ReadTimesOut
  BY <1>4 DEF NobodyWaits, ReadTimesOut, Serve
<1>5. CASE List \/ Get \/ Bad \/ Refresh \/ RefreshFails
  BY <1>5 DEF List, Get, Bad, Refresh, RefreshFails, Serve
<1>6. CASE BeginSet
  BY <1>6 DEF BeginSet, Serve
<1>7. CASE set_one
  <2>1. client' = client /\ request' = request
    BY <1>7 DEF set_one
  <2>2. at = "set" /\ at' \in {"write", "reply"} /\ (at' = "write" => job' # None)
    BY <1>7, SetOneOutcome, NoneOfAssumption DEF set_one
  <2> QED
    BY <2>1, <2>2
<1>8. CASE SetDone \/ HardwareFails \/ HardwareTimesOut \/ SoftwareFails
  BY <1>8 DEF SetDone, HardwareFails, HardwareTimesOut, SoftwareFails
<1>9. CASE NoHardwareWrite \/ set_hardware \/ set_software
  BY <1>9 DEF NoHardwareWrite, set_hardware, set_software
<1>10. CASE Reply \/ Crash
  BY <1>10 DEF Reply, Crash
<1>17. CASE Connecting
  BY <1>17 DEF Connecting, reconnect_overlay, ConnectFails, Continue
<1>18. CASE \E r \in Requests : TrickleEnds(r)
  BY <1>18 DEF TrickleEnds, Serve
<1>11. CASE \E c \in Clients, r \in Requests : Ask(c, r)
  <2>1. PICK c \in Clients, r \in Requests : Ask(c, r)
    BY <1>11
  <2>2. client # None => client \in Clients /\ request[client] # None
    BY DEF TypeOK, WaitingOnce
  <2>3. client # None => request'[client] = request[client]
    BY <2>1, <2>2 DEF Ask, TypeOK
  <2> QED
    BY <2>1, <2>3 DEF Ask
<1>12. CASE FiveSecondsPass
  BY <1>12 DEF FiveSecondsPass
<1>13. CASE \E n \in Names, value \in Foreign : ForeignWrite(n, value) \/ Plug(n, value)
  BY <1>13 DEF ForeignWrite, Plug
<1>14. CASE \E n \in Names : LateWrite(n) \/ Unplug(n)
  BY <1>14 DEF LateWrite, Unplug
<1>15. CASE (\E offered \in SUBSET Names : ScreensChange(offered)) \/ ConnectionBreaks
  BY <1>15 DEF ScreensChange, ConnectionBreaks
<1>16. CASE UNCHANGED vars
  BY <1>16 DEF vars
<1> QED
  BY <1>1, <1>2, <1>3, <1>4, <1>5, <1>6, <1>7, <1>8, <1>9, <1>10, <1>11, <1>12, <1>13, <1>14,
     <1>15, <1>16, <1>17, <1>18 DEF Next, Thread, World

(* Every step keeps every waiting client in one place.                     *)
LEMMA StepWaitingOnce == TypeInv /\ [Next]_vars => WaitingOnce'
<1> SUFFICES ASSUME TypeInv, [Next]_vars PROVE WaitingOnce'
  OBVIOUS
<1> USE DEF TypeInv, TypeOK, ThreadOK, WaitingOnce, Queued, clients, serving
<1>1. CASE UNCHANGED <<client, request, backlog>>
  BY <1>1
<1>2. CASE Accept
  <2>1. /\ backlog # <<>> /\ client = None
        /\ client' = Head(backlog) /\ backlog' = Tail(backlog) /\ request' = request
    BY <1>2 DEF Accept
  <2>2. /\ Len(backlog) \in Nat \ {0} /\ Head(backlog) = backlog[1]
        /\ DOMAIN backlog = 1 .. Len(backlog)
        /\ DOMAIN Tail(backlog) = 1 .. (Len(backlog) - 1)
        /\ \A i \in 1 .. (Len(backlog) - 1) : Tail(backlog)[i] = backlog[i + 1]
    BY <2>1
  <2>3. ASSUME NEW j \in DOMAIN backlog'
        PROVE  j + 1 \in DOMAIN backlog /\ backlog[j + 1] = backlog'[j] /\ j + 1 # 1
    BY <2>1, <2>2
  <2>4. ASSUME NEW i \in DOMAIN backlog, i # 1
        PROVE  i - 1 \in DOMAIN backlog' /\ backlog'[i - 1] = backlog[i]
    BY <2>1, <2>2, <2>4
  <2>5. 1 \in DOMAIN backlog /\ backlog[1] = client'
    BY <2>1, <2>2
  <2>6. ASSUME NEW c PROVE Queued(c) <=> c = client' \/ Queued(c)'
    <3>1. ASSUME NEW i \in DOMAIN backlog, backlog[i] = c PROVE c = client' \/ Queued(c)'
      <4>1. CASE i = 1
        BY <2>5, <3>1, <4>1
      <4>2. CASE i # 1
        <5>1. i - 1 \in DOMAIN backlog' /\ backlog'[i - 1] = c
          BY <2>4, <3>1, <4>2
        <5> QED
          BY <5>1
      <4> QED
        BY <4>1, <4>2
    <3>2. ASSUME c = client' PROVE Queued(c)
      BY <2>5, <3>2
    <3>3. ASSUME NEW j \in DOMAIN backlog', backlog'[j] = c PROVE Queued(c)
      BY <2>3, <3>3
    <3> QED
      BY <3>1, <3>2, <3>3
  <2>7. ~Queued(client)'
    BY <2>3, <2>5
  <2>8. \A i, j \in DOMAIN backlog' : backlog'[i] = backlog'[j] => i = j
    <3>1. \A i \in DOMAIN backlog' : i \in Int
      BY <2>1, <2>2
    <3> QED
      BY <2>3, <3>1
  <2>9. \A c \in Clients : c # client
    BY <2>1, NoneOfAssumption
  <2>10. \A c \in Clients : request'[c] # None <=> c = client' \/ Queued(c)'
    BY <2>1, <2>6, <2>9
  <2> QED
    BY <2>7, <2>8, <2>10
<1>3. CASE ReadTimesOut \/ Reply
  <2>1. /\ client \in Clients /\ client' = None /\ backlog' = backlog
        /\ request' = [request EXCEPT ![client] = None]
    BY <1>3 DEF ReadTimesOut, Reply, Serve
  <2>2. \A i \in DOMAIN backlog : backlog[i] \in Clients
    OBVIOUS
  <2> QED
    BY <2>1, <2>2, NoneOfAssumption
<1>4. CASE Crash
  <2>1. client' = None
    BY <1>4 DEF Crash
  <2>2. CASE SocketActivated
    <3>1. backlog' = backlog /\ request' = [c \in Clients |-> IF c # client THEN request[c] ELSE None]
      BY <1>4, <2>2 DEF Crash
    <3>2. \A i \in DOMAIN backlog : backlog[i] \in Clients
      OBVIOUS
    <3> QED
      BY <2>1, <3>1, <3>2, NoneOfAssumption
  <2>3. CASE ~SocketActivated
    <3>1. backlog' = <<>> /\ request' = [c \in Clients |-> None]
      BY <1>4, <2>3 DEF Crash
    <3> QED
      BY <2>1, <3>1, NoneOfAssumption
  <2> QED
    BY <2>2, <2>3
<1>5. CASE \E c \in Clients, r \in Requests : Ask(c, r)
  <2>1. PICK c \in Clients, r \in Requests : Ask(c, r)
    BY <1>5
  <2>2. /\ request[c] = None /\ client' = client
        /\ request' = [request EXCEPT ![c] = r] /\ backlog' = Append(backlog, c)
    BY <2>1 DEF Ask
  <2>3. /\ Len(backlog) \in Nat
        /\ DOMAIN backlog = 1 .. Len(backlog)
        /\ DOMAIN backlog' = 1 .. (Len(backlog) + 1)
        /\ backlog'[Len(backlog) + 1] = c
        /\ \A i \in DOMAIN backlog : backlog'[i] = backlog[i]
    BY <2>2
  <2>4. r # None /\ ~Queued(c) /\ c # client
    BY <2>2, NoneOfAssumption
  <2>5. ASSUME NEW d PROVE Queued(d)' <=> d = c \/ Queued(d)
    <3>1. ASSUME NEW i \in DOMAIN backlog', backlog'[i] = d PROVE d = c \/ Queued(d)
      BY <2>3, <3>1
    <3>2. ASSUME d = c PROVE Queued(d)'
      <4>1. Len(backlog) + 1 \in DOMAIN backlog' /\ backlog'[Len(backlog) + 1] = d
        BY <2>3, <3>2
      <4> QED
        BY <4>1
    <3>3. ASSUME NEW i \in DOMAIN backlog, backlog[i] = d PROVE Queued(d)'
      BY <2>3, <3>3
    <3> QED
      BY <3>1, <3>2, <3>3
  <2>6. \A d \in Clients : request'[d] # None <=> d = client' \/ Queued(d)'
    <3> HIDE DEF Queued
    <3>1. ASSUME NEW d \in Clients, d = c PROVE request'[d] # None /\ Queued(d)'
      <4>1. request'[d] = r
        BY <2>2, <3>1
      <4>2. Queued(d)'
        BY <2>5, <3>1
      <4> QED
        BY <2>4, <4>1, <4>2
    <3>2. ASSUME NEW d \in Clients, d # c
          PROVE  request'[d] = request[d] /\ (Queued(d)' <=> Queued(d)) /\ client' = client
      BY <2>2, <2>5, <3>2
    <3>3. \A d \in Clients : request[d] # None <=> d = client \/ Queued(d)
      OBVIOUS
    <3> QED
      BY <3>1, <3>2, <3>3
  <2>7. ~Queued(client)'
    <3>1. ~(client = c \/ Queued(client))
      BY <2>4
    <3> QED
      BY <2>2, <2>5, <3>1
  <2>8. \A i, j \in DOMAIN backlog' : backlog'[i] = backlog'[j] => i = j
    <3>1. \A i \in DOMAIN backlog' : i \in DOMAIN backlog \/ i = Len(backlog) + 1
      BY <2>3
    <3>2. \A i \in DOMAIN backlog : backlog[i] # c
      BY <2>4
    <3> QED
      BY <2>3, <3>1, <3>2
  <2> QED
    BY <2>6, <2>7, <2>8
<1>6. CASE \E r \in Requests : TrickleEnds(r)
  <2>1. PICK r \in Requests : TrickleEnds(r)
    BY <1>6
  <2>2. /\ client' = client /\ backlog' = backlog /\ r # None
        /\ request' = [request EXCEPT ![client] = r]
    BY <2>1, NoneOfAssumption DEF TrickleEnds
  <2>3. client \in Clients
    BY <2>1 DEF TrickleEnds, Serve
  <2> QED
    BY <2>2, <2>3
<1> QED
  BY <1>1, <1>2, <1>3, <1>4, <1>5, <1>6
  DEF Next, Thread, Connecting, World, Start, DispatchOk, DispatchFails, reconnect_overlay_if_due,
      reconnect_overlay, ConnectFails, NobodyWaits, List, Get, Bad, Refresh, RefreshFails, BeginSet, SetDone, set_one,
      NoHardwareWrite, set_hardware, HardwareFails, HardwareTimesOut, set_software,
      SoftwareFails, FiveSecondsPass, ForeignWrite, Plug, LateWrite, Unplug, ScreensChange,
      ConnectionBreaks, vars

(***************************************************************************)
(* In every reachable state the daemon's maps, its job and its requests    *)
(* have their types.  The types are not inductive: the proof carries       *)
(* WaitingOnce and ThreadOK along, which say of whom the queue consists    *)
(* and what the thread holds at each place.                                *)
(***************************************************************************)
THEOREM TypeInvariance == Spec => []TypeOK
<1>1. Init => TypeInv
  BY InitTypeInv
<1>2. TypeInv /\ [Next]_vars => TypeInv'
  BY StepTypeOK, StepThreadOK, StepWaitingOnce DEF TypeInv
<1>3. TypeInv => TypeOK
  BY DEF TypeInv
<1> QED
  BY <1>1, <1>2, <1>3, PTL DEF Spec

-----------------------------------------------------------------------------
(* The two controls of one output, by value                                *)

(* set_one gives a level to exactly the controls that are there, and with  *)
(* both written the output reports the target.                             *)
LEMMA TargetsReportTheGoal ==
    ASSUME NEW h \in Levels, NEW s \in Levels, h # None \/ s # None, NEW goal \in Percents
    PROVE  LET targets == Targets(h, s, goal)
           IN  /\ targets.hardware = None <=> h = None
               /\ targets.software = None <=> s = None
               /\ combined_brightness(targets.hardware, targets.software, HardwareMin) = goal
<1>1. None \notin Percents
  BY NoneAssumption DEF Percents
<1>2. CASE h # None /\ s # None
  <2> DEFINE parts == split_brightness(goal, HardwareMin)
  <2>1. Targets(h, s, goal) = parts
    BY <1>2 DEF Targets
  <2>2. /\ parts.hardware \in Percents /\ parts.software \in Percents
        /\ effective_brightness(parts.hardware, parts.software, HardwareMin) = goal
    BY SplitRoundTrips, HardwareMinAssumption
  <2>3. combined_brightness(parts.hardware, parts.software, HardwareMin) =
            effective_brightness(parts.hardware, parts.software, HardwareMin)
    BY <1>1, <2>2 DEF combined_brightness
  <2> QED
    BY <1>1, <1>2, <2>1, <2>2, <2>3
<1>3. CASE h # None /\ s = None
  <2>1. Targets(h, s, goal) = [hardware |-> goal, software |-> None]
    BY <1>3 DEF Targets
  <2>2. combined_brightness(goal, None, HardwareMin) = Clamp(goal)
    BY <1>1 DEF combined_brightness
  <2>3. Clamp(goal) = goal
    BY DEF Clamp, Percents
  <2> QED
    BY <1>1, <1>3, <2>1, <2>2, <2>3
<1>4. CASE h = None /\ s # None
  <2>1. Targets(h, s, goal) = [hardware |-> None, software |-> goal]
    BY <1>4 DEF Targets
  <2>2. combined_brightness(None, goal, HardwareMin) = goal
    BY <1>1 DEF combined_brightness
  <2> QED
    BY <1>1, <1>4, <2>1, <2>2
<1> QED
  BY <1>2, <1>3, <1>4

(* The targets depend on which controls are there, not on their levels.    *)
LEMMA TargetsStay ==
    ASSUME NEW h, NEW s, NEW h2, NEW s2, NEW goal,
           h = None <=> h2 = None, s = None <=> s2 = None
    PROVE  Targets(h, s, goal) = Targets(h2, s2, goal)
<1>1. CASE h # None /\ s # None
  BY <1>1, Zenon DEF Targets
<1>2. CASE h # None /\ s = None
  BY <1>2, Zenon DEF Targets
<1>3. CASE h = None
  BY <1>3, Zenon DEF Targets
<1> QED
  BY <1>1, <1>2, <1>3

Between(x, y, z) == (x <= y /\ y <= z) \/ (z <= y /\ y <= x)

(* With the hardware written and the overlay not, the level is between the *)
(* old one and the target: the overlay's level decides alone below the     *)
(* floor; above it the new hardware level is the target or the floor.      *)
LEMMA HalfwayIsBetween ==
    ASSUME NEW h \in Levels, NEW s \in Levels, h # None \/ s # None, NEW goal \in Percents
    PROVE  Between(combined_brightness(h, s, HardwareMin),
                   combined_brightness(Targets(h, s, goal).hardware, s, HardwareMin),
                   goal)
<1> DEFINE m == HardwareMin
           new == Targets(h, s, goal).hardware
           before_ == combined_brightness(h, s, m)
           halfway == combined_brightness(new, s, m)
<1>1. None \notin Percents /\ m \in 1 .. 99
  BY NoneAssumption, HardwareMinAssumption DEF Percents, validate_hardware_min
<1>2. before_ \in Percents
  BY <1>1, CombinedIsLevel
<1>3. ASSUME halfway = before_ \/ halfway = goal PROVE Between(before_, halfway, goal)
  <2> HIDE DEF halfway, before_
  <2> QED
    BY <1>2, <1>3 DEF Between, Percents
<1>4. CASE h = None
  <2>1. new = None
    BY <1>4, TargetsReportTheGoal
  <2> QED
    BY <1>3, <1>4, <2>1
<1>5. CASE h # None /\ s = None
  <2>1. Targets(h, s, goal).software = None
        /\ combined_brightness(new, Targets(h, s, goal).software, m) = goal
    BY <1>5, TargetsReportTheGoal
  <2> QED
    BY <1>3, <1>5, <2>1
<1>6. CASE h # None /\ s # None
  <2> DEFINE parts == split_brightness(goal, m)
  <2>1. new = parts.hardware
    BY <1>6, Zenon DEF Targets
  <2>2. /\ parts.hardware \in Percents /\ parts.software \in Percents
        /\ effective_brightness(parts.hardware, parts.software, m) = goal
    BY SplitRoundTrips, HardwareMinAssumption
  <2>3. before_ = effective_brightness(h, s, m) /\ halfway = effective_brightness(new, s, m)
    <3>1. new # None
      BY <1>1, <2>1, <2>2
    <3> QED
      BY <1>6, <3>1, Zenon DEF combined_brightness
  <2>4. s \in Percents /\ h \in Percents
    BY <1>6
  <2>5. CASE s < 100
    <3>1. before_ = halfway
      BY <2>3, <2>5, Zenon DEF effective_brightness
    <3> QED
      BY <1>3, <3>1
  <2>6. CASE s = 100 /\ goal >= m
    <3>1. parts.software = 100
      BY <2>6 DEF split_brightness
    <3> QED
      BY <1>3, <2>1, <2>2, <2>3, <2>6, <3>1
  <2>7. CASE s = 100 /\ ~(goal >= m)
    <3>1. new = 0
      BY <2>1, <2>7 DEF split_brightness
    <3>2. halfway = m
      <4>1. effective_brightness(0, 100, m) = Clamp(m + (Clamp(0) * (100 - m) + 50) \div 100)
        BY DEF effective_brightness
      <4>2. Clamp(0) = 0 /\ Clamp(m) = m
        BY <1>1 DEF Clamp
      <4>3. (0 * (100 - m) + 50) \div 100 = 0
        BY <1>1
      <4> QED
        BY <1>1, <2>3, <2>7, <3>1, <4>1, <4>2, <4>3
    <3>3. before_ >= m
      <4> DEFINE gain == (Clamp(h) * (100 - m) + 50) \div 100
      <4>1. Clamp(h) = h
        BY <2>4 DEF Clamp, Percents
      <4>2. h * (100 - m) \in Nat
        BY <1>1, <2>4 DEF Percents
      <4>3. gain \in Nat
        <5> DEFINE product == h * (100 - m)
        <5>1. gain = (product + 50) \div 100
          BY <4>1
        <5> HIDE DEF product
        <5>2. product \in Nat
          BY <4>2 DEF product
        <5> QED
          BY <5>1, <5>2
      <4>4. before_ = Clamp(m + gain)
        BY <2>3, <2>7 DEF effective_brightness
      <4> HIDE DEF gain
      <4> QED
        BY <1>1, <4>3, <4>4 DEF Clamp
    <3>4. Between(before_, halfway, goal)
      <4> HIDE DEF halfway, before_
      <4> QED
        BY <1>1, <1>2, <2>7, <3>2, <3>3 DEF Between, Percents
    <3> QED
      BY <3>4
  <2> QED
    BY <2>4, <2>5, <2>6, <2>7 DEF Percents
<1> QED
  BY <1>4, <1>5, <1>6

-----------------------------------------------------------------------------
(* The inductive invariant                                                 *)

Wanted(n) == Targets(hardware_brightness[n], software[n], Goal(n))

(* Only a SET holds a job, only an answer an outcome.                      *)
Held ==
    /\ job # None => at \in {"write", "dim", "reply"}
    /\ outcome # None => at = "reply"

(* A level is only cached for a device that is in the map.                 *)
CachedHere == \A n \in Names : hardware_brightness[n] # None => n \in hardware

TodoSelected == SetRuns => todo \subseteq Selected(request[client].selector)

(* Before the first write of set_one the output is as it was ...           *)
BeforeWrites ==
    \A n \in Names : at = "write" /\ Busy(n) =>
        /\ n \in todo /\ n \in Listed
        /\ Reported(n) = before[n]
        /\ job.hardware = Unless(Wanted(n).hardware, hardware_brightness[n])
        /\ job.software = Unless(Wanted(n).software, software[n])

(* ... and before the second its hardware is where it should be.           *)
BetweenWrites ==
    \A n \in Names : at = "dim" /\ Busy(n) =>
        /\ n \in todo /\ n \in Listed /\ before[n] \in Percents
        /\ hardware_brightness[n] = Wanted(n).hardware
        /\ job.software = Unless(Wanted(n).software, software[n])

Halfway ==
    \A n \in todo : SetRuns /\ Busy(n) => Between(before[n], Reported(n), Goal(n))

SetInv ==
    /\ Held /\ CachedHere /\ TodoSelected
    /\ BeforeWrites /\ BetweenWrites
    /\ SetLands /\ Halfway /\ NotFoundIsUnlisted

Inv == TypeInv /\ SetInv

(* The operators of a SET that goes on or stops mean the same before and   *)
(* after a step that leaves levels, client and history alone.              *)
LEMMA NothingMoved ==
    ASSUME UNCHANGED <<hardware_brightness, software, before, client, job>>,
           request'[client'] = request[client]
    PROVE  /\ \A n : Reported(n)' = Reported(n)
           /\ \A n : Goal(n)' = Goal(n)
           /\ \A n : Wanted(n)' = Wanted(n)
           /\ \A n : Busy(n)' <=> Busy(n)
           /\ Listed' = Listed
           /\ Selected(request[client].selector)' = Selected(request[client].selector)
<1>1. \A n : Reported(n)' = Reported(n)
  BY DEF Reported
<1>2. \A n : Goal(n)' = Goal(n)
  BY DEF Goal
<1>3. \A n : Wanted(n)' = Wanted(n)
  BY <1>2 DEF Wanted, Targets
<1>4. \A n : Busy(n)' <=> Busy(n)
  BY DEF Busy
<1>5. Listed' = Listed
  BY DEF Listed
<1>6. Selected(request[client].selector)' = Selected(request[client].selector)
  BY <1>5 DEF Selected
<1> QED
  BY <1>1, <1>2, <1>3, <1>4, <1>5, <1>6

(* A SET that stops where it is, for whatever reason, leaves what it has   *)
(* done and nothing half done but the output it was at.                    *)
LEMMA StoppedKeeps ==
    ASSUME Inv, at \in {"set", "write", "dim"}, at' = "reply",
           UNCHANGED <<hardware, hardware_brightness, software, client, todo, job, before, request>>,
           outcome' \in {"OK", "ERR", "NotFound"},
           outcome' = "OK" => todo = {},
           outcome' = "NotFound" => request[client].selector \in Names \ Listed
    PROVE  SetInv'
<1> USE DEF Inv, SetInv
<1>1. /\ \A n : Reported(n)' = Reported(n)
      /\ \A n : Goal(n)' = Goal(n)
      /\ \A n : Busy(n)' <=> Busy(n)
      /\ Listed' = Listed
      /\ Selected(request[client].selector)' = Selected(request[client].selector)
  BY NothingMoved
<1>2. SetRuns /\ SetRuns'
  BY DEF SetRuns, TypeInv, ThreadOK
<1>3. Held' /\ BeforeWrites' /\ BetweenWrites'
  BY DEF Held, BeforeWrites, BetweenWrites
<1>4. CachedHere'
  BY DEF CachedHere
<1>5. TodoSelected'
  BY <1>1, <1>2 DEF TodoSelected
<1>6. SetLands'
  BY <1>1, <1>2 DEF SetLands
<1>7. Halfway'
  BY <1>1, <1>2 DEF Halfway
<1>8. NotFoundIsUnlisted'
  BY <1>1 DEF NotFoundIsUnlisted
<1> QED
  BY <1>3, <1>4, <1>5, <1>6, <1>7, <1>8

(* Outside a SET there is little to keep.                                  *)
LEMMA NoSetKeeps ==
    ASSUME ~SetRuns', job' = None, CachedHere',
           outcome' # None => at' = "reply",
           outcome' = "NotFound" => (request[client].selector \in Names \ Listed)'
    PROVE  SetInv'
BY DEF SetInv, Held, TodoSelected, BeforeWrites, BetweenWrites, SetLands, Halfway, SetRuns, Busy,
       NotFoundIsUnlisted

(* Whatever the world does, it does not touch a running SET.               *)
LEMMA UndisturbedKeeps ==
    ASSUME Inv,
           UNCHANGED <<hardware, hardware_brightness, software, at, client, todo, job, outcome,
                       before>>,
           client # None => request'[client] = request[client]
    PROVE  SetInv'
<1> USE DEF Inv, SetInv
<1>1. CASE client = None
  <2>1. at \in {"down", "dispatch", "connect", "accept"}
    BY <1>1 DEF TypeInv, TypeOK, Places, ThreadOK
  <2>2. ~SetRuns' /\ job' = None /\ outcome' = None
    BY <2>1 DEF SetRuns, Held
  <2>3. CachedHere'
    BY DEF CachedHere
  <2> QED
    BY <2>2, <2>3, NoSetKeeps, NoneOfAssumption
<1>2. CASE client # None
  <2>1. /\ \A n : Reported(n)' = Reported(n)
        /\ \A n : Goal(n)' = Goal(n)
        /\ \A n : Wanted(n)' = Wanted(n)
        /\ \A n : Busy(n)' <=> Busy(n)
        /\ Listed' = Listed
        /\ Selected(request[client].selector)' = Selected(request[client].selector)
    BY <1>2, NothingMoved
  <2>2. SetRuns' <=> SetRuns
    BY <1>2 DEF SetRuns
  <2>3. Held' /\ CachedHere'
    BY DEF Held, CachedHere
  <2>4. TodoSelected'
    BY <2>1, <2>2 DEF TodoSelected
  <2>5. BeforeWrites' /\ BetweenWrites'
    BY <2>1 DEF BeforeWrites, BetweenWrites, Unless
  <2>6. SetLands'
    BY <2>1, <2>2 DEF SetLands
  <2>7. Halfway'
    BY <2>1, <2>2 DEF Halfway
  <2>8. NotFoundIsUnlisted'
    BY <1>2, <2>1 DEF NotFoundIsUnlisted
  <2> QED
    BY <2>3, <2>4, <2>5, <2>6, <2>7, <2>8
<1> QED
  BY <1>1, <1>2

-----------------------------------------------------------------------------
(* The steps                                                               *)

(* A discovery caches levels of devices it found, and of no others.        *)
LEMMA DiscoverCachesHere ==
    ASSUME TypeInv, Discover
    PROVE  CachedHere'
<1>1. PICK found \in SUBSET plugged : \E readable \in SUBSET found :
        /\ hardware' = found
        /\ hardware_brightness' =
              [n \in Names |-> IF n \in readable
                               THEN percent_of(panel[n], Resolution[n]) ELSE None]
  BY DEF Discover
<1>2. PICK readable \in SUBSET found :
        /\ hardware' = found
        /\ hardware_brightness' =
              [n \in Names |-> IF n \in readable
                               THEN percent_of(panel[n], Resolution[n]) ELSE None]
  BY <1>1
<1> QED
  BY <1>2 DEF CachedHere

(* A SET begins with all of its outputs still to do.                       *)
LEMMA BeginSetKeeps ==
    ASSUME Inv, BeginSet
    PROVE  SetInv'
<1> USE DEF Inv, SetInv, BeginSet, Serve, state, clients, devices, desktop
<1>1. SetRuns' /\ at' = "set" /\ job' = None /\ outcome' = None
  BY DEF SetRuns, Held
<1>2. /\ \A n \in Names : Reported(n)' = before'[n]
      /\ Selected(request[client].selector)' = todo'
  BY DEF Reported, Selected, Listed
<1>3. todo' \subseteq Names
  BY ServedRequest DEF Selected, Listed, Selectors
<1>4. SetLands'
  BY <1>1, <1>2, <1>3, NoneOfAssumption DEF SetLands
<1>5. TodoSelected'
  BY <1>2 DEF TodoSelected
<1>6. Halfway'
  BY <1>1 DEF Halfway, Busy
<1>7. Held' /\ BeforeWrites' /\ BetweenWrites' /\ NotFoundIsUnlisted'
  BY <1>1, NoneOfAssumption DEF Held, BeforeWrites, BetweenWrites, NotFoundIsUnlisted
<1>8. CachedHere'
  BY DEF CachedHere
<1> QED
  BY <1>4, <1>5, <1>6, <1>7, <1>8

(* set_one takes an output from the list, and nothing is written yet.      *)
LEMMA SetOneKeeps ==
    ASSUME Inv, set_one
    PROVE  SetInv'
<1> USE DEF Inv, SetInv
<1>1. /\ at = "set" /\ SetRuns /\ job = None
      /\ UNCHANGED <<hardware, hardware_brightness, software, client, todo, before, request>>
  BY DEF set_one, state, clients, SetRuns, Held
<1>2. PICK n \in todo :
        IF n \in Listed
        THEN LET target  == apply_percent_change(Reported(n), request[client].change)
                 targets == Targets(hardware_brightness[n], software[n], target)
             IN  /\ job' = [name |-> n,
                            hardware |-> Unless(targets.hardware, hardware_brightness[n]),
                            software |-> Unless(targets.software, software[n])]
                 /\ at' = "write"
                 /\ UNCHANGED outcome
        ELSE Answer("NotFound") /\ UNCHANGED job
  BY DEF set_one
<1>3. n \in Names /\ n \in Selected(request[client].selector)
  BY <1>1 DEF TypeInv, TypeOK, TodoSelected
<1>4. CASE n \notin Listed
  <2>1. at' = "reply" /\ outcome' = "NotFound" /\ job' = job
    BY <1>2, <1>4 DEF Answer
  <2>2. request[client].selector \in Names \ Listed
    BY <1>3, <1>4 DEF Selected
  <2> QED
    BY <1>1, <2>1, <2>2, StoppedKeeps
<1>5. CASE n \in Listed
  <2>1. Reported(n) = before[n]
    BY <1>1 DEF SetLands, Busy
  <2>2. before[n] \in Percents /\ Goal(n) \in Percents
    <3>1. Reported(n) \in Percents
      BY <1>3, <1>5, ReportedIsLevel DEF TypeInv
    <3> QED
      BY <1>1, <2>1, <3>1, CurrentSet, ChangedIsPercent DEF Goal
  <2>3. /\ job' = [name |-> n,
                   hardware |-> Unless(Wanted(n).hardware, hardware_brightness[n]),
                   software |-> Unless(Wanted(n).software, software[n])]
        /\ at' = "write" /\ outcome' = outcome
    BY <1>2, <1>5, <2>1 DEF Wanted, Goal
  <2>4. /\ \A k : Reported(k)' = Reported(k)
        /\ Listed' = Listed
        /\ Selected(request[client].selector)' = Selected(request[client].selector)
    BY <1>1 DEF Reported, Listed, Selected
  <2>5. \A k : Goal(k)' = Goal(k)
    BY <1>1 DEF Goal
  <2>6. \A k : Wanted(k)' = Wanted(k)
    BY <1>1, <2>5 DEF Wanted
  <2>7. job' # None /\ job'.name = n
    <3>1. job' \in Job
      BY <2>3, SetOneOutcome
    <3> QED
      BY <2>3, <3>1, NoneOfAssumption
  <2>8. \A k : Busy(k)' <=> k = n
    BY <2>7 DEF Busy
  <2>9. SetRuns'
    BY <2>3 DEF SetRuns
  <2>10. Held' /\ BetweenWrites' /\ NotFoundIsUnlisted'
    BY <1>1, <2>3, NoneOfAssumption DEF Held, BetweenWrites, NotFoundIsUnlisted
  <2>11. BeforeWrites'
    BY <1>1, <1>5, <2>1, <2>3, <2>4, <2>6, <2>8 DEF BeforeWrites
  <2>12. SetLands'
    BY <1>1, <2>3, <2>4, <2>5, <2>9 DEF SetLands, Busy, Held
  <2>13. Halfway'
    <3>1. Between(before[n], before[n], Goal(n))
      BY <2>2 DEF Between, Percents
    <3> QED
      BY <1>1, <2>1, <2>4, <2>5, <2>8, <3>1 DEF Halfway
  <2>14. CachedHere' /\ TodoSelected'
    BY <1>1, <2>4 DEF CachedHere, TodoSelected
  <2> QED
    BY <2>10, <2>11, <2>12, <2>13, <2>14
<1> QED
  BY <1>4, <1>5

(* What is known of the output whose writes are under way.                 *)
LEMMA BusyOutput ==
    ASSUME Inv, at \in {"write", "dim"}
    PROVE  /\ SetRuns /\ job \in Job /\ job.name \in Names /\ Busy(job.name)
           /\ job.name \in todo /\ job.name \in Listed
           /\ job.name \in Selected(request[client].selector)
           /\ before[job.name] \in Percents /\ Goal(job.name) \in Percents
           /\ hardware_brightness[job.name] \in Levels /\ software[job.name] \in Levels
           /\ hardware_brightness[job.name] # None \/ software[job.name] # None
<1> USE DEF Inv, SetInv
<1>1. job \in Job /\ job # None /\ job.name \in Names
  BY DEF TypeInv, TypeOK, ThreadOK, Job
<1>2. SetRuns /\ Busy(job.name)
  BY <1>1 DEF SetRuns, Busy
<1>3. job.name \in todo /\ job.name \in Listed
  BY <1>1, <1>2 DEF BeforeWrites, BetweenWrites
<1>4. before[job.name] \in Percents
  <2>1. CASE at = "write"
    <3>1. Reported(job.name) = before[job.name]
      BY <1>1, <1>2, <2>1 DEF BeforeWrites
    <3> QED
      BY <1>1, <1>3, <3>1, ReportedIsLevel DEF TypeInv
  <2>2. CASE at = "dim"
    BY <1>1, <1>2, <2>2 DEF BetweenWrites
  <2> QED
    BY <2>1, <2>2
<1>5. Goal(job.name) \in Percents
  BY <1>4, CurrentSet, ChangedIsPercent DEF Goal
<1>6. hardware_brightness[job.name] \in Levels /\ software[job.name] \in Levels
  BY <1>1 DEF TypeInv, TypeOK
<1>7. job.name \in Selected(request[client].selector)
  BY <1>2, <1>3 DEF TodoSelected
<1> QED
  BY <1>1, <1>2, <1>3, <1>4, <1>5, <1>6, <1>7 DEF Listed

(* Without a device the hardware step changes nothing.                     *)
LEMMA NoHardwareWriteKeeps ==
    ASSUME Inv, NoHardwareWrite
    PROVE  SetInv'
<1> USE DEF Inv, SetInv
<1>1. /\ at = "write" /\ at' = "dim" /\ job.hardware = None
      /\ UNCHANGED <<hardware, hardware_brightness, software, client, todo, job, outcome, before,
                     request>>
  BY DEF NoHardwareWrite, state, serving, clients
<1>2. /\ \A n : Reported(n)' = Reported(n)
      /\ \A n : Goal(n)' = Goal(n)
      /\ \A n : Wanted(n)' = Wanted(n)
      /\ \A n : Busy(n)' <=> Busy(n)
      /\ Listed' = Listed
      /\ Selected(request[client].selector)' = Selected(request[client].selector)
  BY <1>1, NothingMoved
<1>3. SetRuns /\ SetRuns'
  BY <1>1, BusyOutput DEF SetRuns
<1>4. BetweenWrites'
  <2> SUFFICES ASSUME NEW n \in Names, Busy(n)
               PROVE  /\ n \in todo /\ n \in Listed /\ before[n] \in Percents
                      /\ hardware_brightness[n] = Wanted(n).hardware
                      /\ job.software = Unless(Wanted(n).software, software[n])
    BY <1>1, <1>2 DEF BetweenWrites, Unless
  <2>1. n = job.name
    BY DEF Busy
  <2>2. /\ Unless(Wanted(n).hardware, hardware_brightness[n]) = None
        /\ job.software = Unless(Wanted(n).software, software[n])
    BY <1>1 DEF BeforeWrites
  <2>3. Wanted(n).hardware = None <=> hardware_brightness[n] = None
    <3>1. /\ hardware_brightness[n] \in Levels /\ software[n] \in Levels
          /\ hardware_brightness[n] # None \/ software[n] # None
          /\ Goal(n) \in Percents
      BY <1>1, <2>1, BusyOutput
    <3> QED
      BY <3>1, TargetsReportTheGoal DEF Wanted
  <2> QED
    BY <1>1, <2>1, <2>2, <2>3, BusyOutput DEF Unless
<1>5. Held' /\ CachedHere' /\ BeforeWrites' /\ NotFoundIsUnlisted'
  BY <1>1, NoneOfAssumption DEF Held, CachedHere, BeforeWrites, NotFoundIsUnlisted
<1>6. TodoSelected' /\ SetLands' /\ Halfway'
  <2>1. TodoSelected'
    BY <1>1, <1>2, <1>3 DEF TodoSelected
  <2>2. SetLands'
    BY <1>1, <1>2, <1>3 DEF SetLands
  <2>3. Halfway'
    BY <1>1, <1>2, <1>3 DEF Halfway
  <2> QED
    BY <2>1, <2>2, <2>3
<1> QED
  BY <1>4, <1>5, <1>6

(* The hardware write puts the output halfway.                             *)
LEMMA HardwareKeeps ==
    ASSUME Inv, set_hardware
    PROVE  SetInv'
<1> USE DEF Inv, SetInv
<1> DEFINE n == job.name
<1>1. /\ at = "write" /\ at' = "dim" /\ job.hardware # None /\ n \in hardware
      /\ UNCHANGED <<hardware, software, client, todo, job, outcome, before, request>>
      /\ hardware_brightness' = [hardware_brightness EXCEPT ![n] = job.hardware]
  BY DEF set_hardware, serving, clients
<1>2. /\ SetRuns /\ n \in Names /\ Busy(n) /\ n \in todo /\ n \in Listed
      /\ n \in Selected(request[client].selector)
      /\ before[n] \in Percents /\ Goal(n) \in Percents
      /\ hardware_brightness[n] \in Levels /\ software[n] \in Levels
      /\ hardware_brightness[n] # None \/ software[n] # None
  BY <1>1, BusyOutput
<1>3. /\ Reported(n) = before[n]
      /\ job.hardware = Unless(Wanted(n).hardware, hardware_brightness[n])
      /\ job.software = Unless(Wanted(n).software, software[n])
  BY <1>1, <1>2 DEF BeforeWrites
<1>4. job.hardware = Wanted(n).hardware
  BY <1>1, <1>3 DEF Unless
<1>5. hardware_brightness[n] # None
  BY <1>1, <1>2, <1>4, TargetsReportTheGoal DEF Wanted
<1>6. hardware_brightness \in [Names -> Levels]
  BY DEF TypeInv, TypeOK
<1>7. hardware_brightness'[n] = job.hardware /\ \A k \in Names : k # n =>
        hardware_brightness'[k] = hardware_brightness[k]
  BY <1>1, <1>2, <1>6
<1>8. \A k \in Names : hardware_brightness'[k] = None <=> hardware_brightness[k] = None
  BY <1>1, <1>5, <1>7
<1>9. /\ \A k : Goal(k)' = Goal(k)
      /\ \A k : Busy(k)' <=> k = n
      /\ Listed' = Listed
      /\ Selected(request[client].selector)' = Selected(request[client].selector)
  <2>1. Listed' = Listed
    BY <1>1, <1>8 DEF Listed
  <2>2. \A k : Goal(k)' = Goal(k)
    BY <1>1 DEF Goal
  <2>3. \A k : Busy(k)' <=> k = n
    BY <1>1, <1>2 DEF Busy
  <2> QED
    BY <1>1, <2>1, <2>2, <2>3 DEF Selected
<1>10. \A k \in Names : k # n => Reported(k)' = Reported(k)
  BY <1>1, <1>7 DEF Reported
<1>11. Wanted(n)' = Wanted(n)
  <2>1. Wanted(n)' = Targets(hardware_brightness'[n], software[n], Goal(n))
    BY <1>1, <1>9 DEF Wanted
  <2> QED
    BY <1>2, <1>8, <2>1, TargetsStay DEF Wanted
<1>12. SetRuns'
  BY <1>1 DEF SetRuns
<1>13. BetweenWrites'
  BY <1>1, <1>2, <1>3, <1>4, <1>7, <1>9, <1>11 DEF BetweenWrites
<1>14. Halfway'
  <2>1. Reported(n)' = combined_brightness(Wanted(n).hardware, software[n], HardwareMin)
    BY <1>1, <1>4, <1>7 DEF Reported
  <2>2. Between(before[n], Reported(n)', Goal(n))
    BY <1>2, <1>3, <2>1, HalfwayIsBetween DEF Reported, Wanted
  <2> QED
    BY <1>1, <1>9, <2>2 DEF Halfway
<1>15. SetLands'
  <2>1. todo \subseteq Names /\ Selected(request[client].selector) \subseteq Names
    BY <1>1, CurrentSet DEF TypeInv, TypeOK, Selected, Listed, Selectors
  <2> QED
    BY <1>1, <1>2, <1>9, <1>10, <1>12, <2>1, NoneOfAssumption DEF SetLands, Held, Busy
<1>16. Held' /\ BeforeWrites' /\ NotFoundIsUnlisted'
  BY <1>1, NoneOfAssumption DEF Held, BeforeWrites, NotFoundIsUnlisted
<1>17. CachedHere' /\ TodoSelected'
  BY <1>1, <1>2, <1>7, <1>9, <1>12 DEF CachedHere, TodoSelected
<1> QED
  BY <1>13, <1>14, <1>15, <1>16, <1>17

(* The software write ends the job of the output.                          *)
LEMMA SoftwareKeeps ==
    ASSUME Inv, set_software
    PROVE  SetInv'
<1> USE DEF Inv, SetInv
<1>0. PICK n \in Names : n = job.name
  BY BusyOutput DEF set_software
<1>1. /\ at = "dim" /\ at' = "set" /\ todo' = todo \ {n} /\ job' = None
      /\ UNCHANGED <<hardware, hardware_brightness, client, outcome, before, request>>
      /\ software' = IF job.software = None THEN software
                     ELSE [software EXCEPT ![n] = job.software]
  BY <1>0 DEF set_software, clients, Dimming!Adjust
<1>2. /\ SetRuns /\ n \in Names /\ Busy(n) /\ n \in todo /\ n \in Listed
      /\ n \in Selected(request[client].selector)
      /\ before[n] \in Percents /\ Goal(n) \in Percents
      /\ hardware_brightness[n] \in Levels /\ software[n] \in Levels
      /\ hardware_brightness[n] # None \/ software[n] # None
  BY <1>0, <1>1, BusyOutput
<1>3. /\ hardware_brightness[n] = Wanted(n).hardware
      /\ job.software = Unless(Wanted(n).software, software[n])
  BY <1>1, <1>2 DEF BetweenWrites
<1>4. /\ Wanted(n).software = None <=> software[n] = None
      /\ combined_brightness(Wanted(n).hardware, Wanted(n).software, HardwareMin) = Goal(n)
  <2> DEFINE h == hardware_brightness[n]
             s == software[n]
             goal == Goal(n)
  <2>1. h \in Levels /\ s \in Levels /\ (h # None \/ s # None) /\ goal \in Percents
    BY <1>2
  <2>2. Wanted(n) = Targets(h, s, goal)
    BY DEF Wanted
  <2> HIDE DEF h, s, goal
  <2>3. /\ Targets(h, s, goal).software = None <=> s = None
        /\ combined_brightness(Targets(h, s, goal).hardware, Targets(h, s, goal).software,
                               HardwareMin) = goal
    BY <2>1, TargetsReportTheGoal
  <2> QED
    BY <2>2, <2>3 DEF h, s, goal
<1>5. software \in [Names -> Levels]
  BY DEF TypeInv, TypeOK
<1>6. software'[n] = Wanted(n).software /\ \A k \in Names : k # n => software'[k] = software[k]
  <2>1. CASE job.software = None
    BY <1>1, <1>3, <1>4, <2>1 DEF Unless
  <2>2. CASE job.software # None
    BY <1>1, <1>2, <1>3, <1>5, <2>2 DEF Unless
  <2> QED
    BY <2>1, <2>2
<1>7. \A k \in Names : software'[k] = None <=> software[k] = None
  BY <1>4, <1>6
<1>8. /\ Reported(n)' = Goal(n)
      /\ \A k \in Names : k # n => Reported(k)' = Reported(k)
  BY <1>1, <1>3, <1>4, <1>6 DEF Reported
<1>9. /\ \A k : Goal(k)' = Goal(k)
      /\ Listed' = Listed
      /\ Selected(request[client].selector)' = Selected(request[client].selector)
  <2>1. Listed' = Listed
    BY <1>1, <1>7 DEF Listed
  <2>2. \A k : Goal(k)' = Goal(k)
    BY <1>1 DEF Goal
  <2> QED
    BY <1>1, <2>1, <2>2 DEF Selected
<1>10. SetRuns'
  BY <1>1 DEF SetRuns
<1>11. SetLands'
  <2>1. todo \subseteq Names /\ Selected(request[client].selector) \subseteq Names
    BY <1>1, CurrentSet DEF TypeInv, TypeOK, Selected, Listed, Selectors
  <2> QED
    BY <1>1, <1>2, <1>8, <1>9, <1>10, <2>1, NoneOfAssumption DEF SetLands, Held, Busy
<1>12. Held' /\ BeforeWrites' /\ BetweenWrites' /\ NotFoundIsUnlisted'
  BY <1>1, NoneOfAssumption DEF Held, BeforeWrites, BetweenWrites, NotFoundIsUnlisted
<1>13. CachedHere' /\ TodoSelected'
  BY <1>1, <1>2, <1>9, <1>10 DEF CachedHere, TodoSelected
<1>14. Halfway'
  BY <1>1 DEF Halfway, Busy
<1> QED
  BY <1>11, <1>12, <1>13, <1>14

(* No SET runs at the start.                                               *)
LEMMA InitSetInv == Init => SetInv
<1> SUFFICES ASSUME Init PROVE SetInv
  OBVIOUS
<1> QED
  BY NoneOfAssumption
  DEF Init, NoLevels, SetInv, Held, CachedHere, TodoSelected, BeforeWrites, BetweenWrites, SetLands,
      Halfway, NotFoundIsUnlisted, SetRuns

(* Every step keeps the invariant: one case per action that moves a SET,   *)
(* the others by where they leave the thread.                              *)
LEMMA StepSetInv == Inv /\ [Next]_vars => SetInv'
<1> SUFFICES ASSUME Inv, [Next]_vars PROVE SetInv'
  OBVIOUS
<1> USE DEF Inv, SetInv, state, serving, clients, devices, desktop
<1>1. CASE Start
  <2>1. CachedHere'
    BY <1>1, DiscoverCachesHere DEF Start
  <2>2. ~SetRuns' /\ job' = None /\ outcome' = None
    BY <1>1 DEF Start, SetRuns, Held
  <2> QED
    BY <2>1, <2>2, NoSetKeeps, NoneOfAssumption
<1>2. CASE DispatchOk \/ DispatchFails \/ reconnect_overlay_if_due \/ NobodyWaits \/ Accept
  <2>1. at \in {"dispatch", "accept"} /\ at' \in {"dispatch", "connect", "accept", "serve"}
    BY <1>2 DEF DispatchOk, DispatchFails, reconnect_overlay_if_due, NobodyWaits, Accept
  <2>2. UNCHANGED <<hardware, hardware_brightness, job, outcome>>
    BY <1>2 DEF DispatchOk, DispatchFails, reconnect_overlay_if_due, NobodyWaits, Accept
  <2>3. ~SetRuns' /\ job' = None /\ outcome' = None
    BY <2>1, <2>2 DEF SetRuns, Held
  <2>4. CachedHere'
    BY <2>2 DEF CachedHere
  <2> QED
    BY <2>3, <2>4, NoSetKeeps, NoneOfAssumption
<1>3. CASE ReadTimesOut \/ Reply
  <2>1. at \in {"serve", "reply"} /\ at' = "accept"
        /\ (at = "serve" => UNCHANGED <<job, outcome>>)
        /\ (at = "reply" => job' = None /\ outcome' = None)
        /\ UNCHANGED <<hardware, hardware_brightness>>
    BY <1>3 DEF ReadTimesOut, Reply, Serve
  <2>2. ~SetRuns' /\ job' = None /\ outcome' = None
    BY <2>1 DEF SetRuns, Held
  <2>3. CachedHere'
    BY <2>1 DEF CachedHere
  <2> QED
    BY <2>2, <2>3, NoSetKeeps, NoneOfAssumption
<1>4. CASE List \/ Bad \/ RefreshFails
  <2>1. /\ at = "serve" /\ at' = "reply" /\ request[client].kind # "Set"
        /\ outcome' \in {"OK", "ERR"}
        /\ UNCHANGED <<hardware, hardware_brightness, client, job, request>>
    BY <1>4 DEF List, Bad, RefreshFails, Serve, Answer
  <2>2. ~SetRuns' /\ job' = None
    BY <2>1 DEF SetRuns, Held
  <2>3. CachedHere'
    BY <2>1 DEF CachedHere
  <2> QED
    BY <2>1, <2>2, <2>3, NoSetKeeps
<1>5. CASE Get
  <2>1. /\ at = "serve" /\ at' = "reply" /\ request[client].kind = "Get"
        /\ UNCHANGED <<hardware, hardware_brightness, software, client, job, request>>
    BY <1>5 DEF Get, Serve, Answer
  <2>2. outcome' = "NotFound" => request[client].selector \in Names \ Listed
    <3>1. request[client].selector \in Selectors
      BY <2>1, ServedRequest
    <3>2. CASE request[client].selector = All
      <4>1. request[client].selector \notin Listed
        BY <3>2, AllAssumption DEF Listed
      <4>2. outcome' = "ERR"
        BY <1>5, <3>2, <4>1, Zenon DEF Get, Answer
      <4> QED
        BY <4>2
    <3>3. CASE request[client].selector \in Listed
      <4>1. request[client].selector # All
        BY <3>3, AllAssumption DEF Listed
      <4>2. outcome' = "OK"
        BY <1>5, <3>3, <4>1, Zenon DEF Get, Answer
      <4> QED
        BY <4>2
    <3>4. CASE request[client].selector \notin Listed /\ request[client].selector # All
      BY <3>1, <3>4 DEF Selectors
    <3> QED
      BY <3>2, <3>3, <3>4
  <2>3. ~SetRuns' /\ job' = None
    BY <2>1 DEF SetRuns, Held
  <2>4. CachedHere'
    BY <2>1 DEF CachedHere
  <2>5. (request[client].selector \in Names \ Listed)' <=>
            request[client].selector \in Names \ Listed
    BY <2>1 DEF Listed
  <2> QED
    BY <2>1, <2>2, <2>3, <2>4, <2>5, NoSetKeeps
<1>6. CASE Refresh
  <2>1. /\ at = "serve" /\ request[client].kind = "Refresh" /\ UNCHANGED <<client, job, request>>
        /\ \/ at' = "reply" /\ outcome' = "OK"
           \/ at' = "connect" /\ outcome' = outcome
    BY <1>6 DEF Refresh, Serve, Answer
  <2>2. ~SetRuns' /\ job' = None /\ outcome = None
    BY <2>1 DEF SetRuns, Held
  <2>3. CachedHere'
    BY <1>6, DiscoverCachesHere DEF Refresh
  <2> QED
    BY <2>1, <2>2, <2>3, NoSetKeeps, NoneOfAssumption
<1>18. CASE Connecting
  <2>1. /\ at = "connect" /\ UNCHANGED <<hardware, hardware_brightness, client, job, request>>
        /\ \/ client = None /\ at' = "accept" /\ outcome' = outcome
           \/ client # None /\ at' = "reply" /\ outcome' = "OK"
    BY <1>18 DEF Connecting, reconnect_overlay, ConnectFails, Continue, Answer
  <2>2. client # None => request[client].kind = "Refresh"
    BY <2>1 DEF TypeInv, ThreadOK
  <2>3. ~SetRuns' /\ job' = None /\ outcome = None
    BY <2>1, <2>2 DEF SetRuns, Held
  <2>4. CachedHere'
    BY <2>1 DEF CachedHere
  <2> QED
    BY <2>1, <2>3, <2>4, NoSetKeeps, NoneOfAssumption
<1>19. CASE \E r \in Requests : TrickleEnds(r)
  <2>1. /\ at = "serve" /\ at' = "serve"
        /\ UNCHANGED <<hardware, hardware_brightness, job, outcome>>
    BY <1>19 DEF TrickleEnds, Serve
  <2>2. ~SetRuns' /\ job' = None /\ outcome' = None
    BY <2>1 DEF SetRuns, Held
  <2>3. CachedHere'
    BY <2>1 DEF CachedHere
  <2> QED
    BY <2>2, <2>3, NoSetKeeps, NoneOfAssumption
<1>7. CASE BeginSet
  BY <1>7, BeginSetKeeps
<1>8. CASE SetDone
  <2>1. at = "set" /\ at' = "reply" /\ todo = {} /\ outcome' = "OK"
        /\ UNCHANGED <<hardware, hardware_brightness, software, client, todo, job, before, request>>
    BY <1>8 DEF SetDone, Answer
  <2> QED
    BY <2>1, StoppedKeeps
<1>9. CASE set_one
  BY <1>9, SetOneKeeps
<1>10. CASE NoHardwareWrite
  BY <1>10, NoHardwareWriteKeeps
<1>11. CASE set_hardware
  BY <1>11, HardwareKeeps
<1>12. CASE HardwareFails
  <2>1. /\ at = "write" /\ job.hardware # None /\ at' = "reply"
        /\ outcome' = IF job.name \in hardware THEN "ERR" ELSE "NotFound"
        /\ UNCHANGED <<hardware, hardware_brightness, software, client, todo, job, before, request>>
    BY <1>12 DEF HardwareFails, Answer
  <2>2. job.name \in hardware
    <3>1. /\ job.name \in Names /\ Busy(job.name)
          /\ hardware_brightness[job.name] \in Levels /\ software[job.name] \in Levels
          /\ hardware_brightness[job.name] # None \/ software[job.name] # None
          /\ Goal(job.name) \in Percents
      BY <2>1, BusyOutput
    <3>2. job.hardware = Unless(Wanted(job.name).hardware, hardware_brightness[job.name])
      BY <2>1, <3>1 DEF BeforeWrites
    <3>3. Wanted(job.name).hardware # None
      BY <2>1, <3>2 DEF Unless
    <3>4. hardware_brightness[job.name] # None
      BY <3>1, <3>3, TargetsReportTheGoal DEF Wanted
    <3> QED
      BY <3>1, <3>4 DEF CachedHere
  <2> QED
    BY <2>1, <2>2, StoppedKeeps
<1>13. CASE HardwareTimesOut \/ SoftwareFails
  <2>1. at \in {"write", "dim"} /\ at' = "reply" /\ outcome' = "ERR"
        /\ UNCHANGED <<hardware, hardware_brightness, software, client, todo, job, before, request>>
    BY <1>13 DEF HardwareTimesOut, SoftwareFails, Answer
  <2> QED
    BY <2>1, StoppedKeeps
<1>14. CASE set_software
  BY <1>14, SoftwareKeeps
<1>15. CASE Crash
  <2>1. ~SetRuns' /\ job' = None /\ outcome' = None /\ CachedHere'
    BY <1>15 DEF Crash, SetRuns, CachedHere, NoLevels
  <2> QED
    BY <2>1, NoSetKeeps, NoneOfAssumption
<1>16. CASE \E c \in Clients, r \in Requests : Ask(c, r)
  <2>1. PICK c \in Clients, r \in Requests : Ask(c, r)
    BY <1>16
  <2>2. client # None => client \in Clients /\ request[client] # None
    BY DEF TypeInv, TypeOK, WaitingOnce
  <2>3. client # None => request'[client] = request[client]
    BY <2>1, <2>2 DEF Ask, TypeInv, TypeOK
  <2>4. UNCHANGED <<hardware, hardware_brightness, software, at, client, todo, job, outcome, before>>
    BY <2>1 DEF Ask
  <2> QED
    BY <2>3, <2>4, UndisturbedKeeps
<1>17. CASE \/ FiveSecondsPass
            \/ \E n \in Names, value \in Foreign : ForeignWrite(n, value) \/ Plug(n, value)
            \/ \E n \in Names : LateWrite(n) \/ Unplug(n)
            \/ \E offered \in SUBSET Names : ScreensChange(offered)
            \/ ConnectionBreaks
            \/ UNCHANGED vars
  <2>1. UNCHANGED <<hardware, hardware_brightness, software, at, client, todo, job, outcome, before,
                    request>>
    BY <1>17 DEF FiveSecondsPass, ForeignWrite, Plug, LateWrite, Unplug, ScreensChange,
                  ConnectionBreaks, vars
  <2> QED
    BY <2>1, UndisturbedKeeps
<1> QED
  BY <1>1, <1>2, <1>3, <1>4, <1>5, <1>6, <1>7, <1>8, <1>9, <1>10, <1>11, <1>12, <1>13, <1>14,
     <1>15, <1>16, <1>17, <1>18, <1>19 DEF Next, Thread, World

(* In every reachable state.                                               *)
LEMMA InvIsInvariant == Spec => []Inv
<1>1. Init => Inv
  BY InitTypeInv, InitSetInv DEF Inv
<1>2. Inv /\ [Next]_vars => Inv'
  BY StepTypeOK, StepThreadOK, StepWaitingOnce, StepSetInv DEF Inv, TypeInv
<1> QED
  BY <1>1, <1>2, PTL DEF Spec

(***************************************************************************)
(* A SET lands: the outputs it is done with report exactly what was asked  *)
(* of what they reported before, all others what they did, wherever it     *)
(* stops (DaemonState::set and set_one).                                   *)
(***************************************************************************)
THEOREM SetsLand == Spec => []SetLands
<1>1. Inv => SetLands
  BY DEF Inv, SetInv
<1> QED
  BY <1>1, InvIsInvariant, PTL

(***************************************************************************)
(* Between its two writes, or after the first when the second fails, an    *)
(* output is never outside the range from its old to its asked level (the  *)
(* order of the writes in set_one).                                        *)
(***************************************************************************)
THEOREM NeverOvershoots == Spec => []NoOvershoot
<1>1. Inv => NoOvershoot
  BY DEF Inv, SetInv, Halfway, Between, NoOvershoot
<1> QED
  BY <1>1, InvIsInvariant, PTL

(***************************************************************************)
(* NotFound is only said of a name that LIST does not show (the two maps   *)
(* of discover_hardware agree on what "@all" and set_hardware need).       *)
(***************************************************************************)
THEOREM NotFoundsAreUnlisted == Spec => []NotFoundIsUnlisted
<1>1. Inv => NotFoundIsUnlisted
  BY DEF Inv, SetInv
<1> QED
  BY <1>1, InvIsInvariant, PTL

-----------------------------------------------------------------------------
(* Discovery reads what it caches.                                         *)
LEMMA DiscoverIsHonest ==
    ASSUME Discover, panel' = panel
    PROVE  CacheHonest'
<1>1. PICK found \in SUBSET plugged : \E readable \in SUBSET found :
        hardware_brightness' =
              [n \in Names |-> IF n \in readable
                               THEN percent_of(panel[n], Resolution[n]) ELSE None]
  BY DEF Discover
<1>2. PICK readable \in SUBSET found :
        hardware_brightness' =
              [n \in Names |-> IF n \in readable
                               THEN percent_of(panel[n], Resolution[n]) ELSE None]
  BY <1>1
<1>3. \A n \in Names : hardware_brightness'[n] # None =>
          hardware_brightness'[n] = percent_of(panel[n], Resolution[n])
  BY <1>2
<1> QED
  BY <1>3 DEF CacheHonest

(* The output being written is one of the names.                           *)
LEMMA BusyName ==
    ASSUME TypeInv, at = "write"
    PROVE  job.name \in Names
BY DEF TypeInv, TypeOK, ThreadOK, Job

(* A step writes cache and device alike, or says who else wrote.           *)
LEMMA StepCacheHonest == TypeInv /\ CacheHonest /\ [Next]_vars => CacheHonest'
<1> SUFFICES ASSUME TypeInv, CacheHonest, [Next]_vars PROVE CacheHonest'
  OBVIOUS
<1> USE DEF state, devices
<1>1. CASE Start \/ Refresh
  BY <1>1, DiscoverIsHonest DEF Start, Refresh
<1>2. CASE set_hardware
  <2> DEFINE n == job.name
             value == percent_to_value(job.hardware, Resolution[n])
  <2>1. /\ panel' = [panel EXCEPT ![n] = value]
        /\ hardware_brightness' = [hardware_brightness EXCEPT ![n] = job.hardware]
        /\ drifted' = drifted \ {n} /\ n \in Names
    BY <1>2, BusyName DEF set_hardware
  <2>2. /\ panel \in [Names -> Nat] /\ hardware_brightness \in [Names -> Levels]
    BY DEF TypeInv, TypeOK
  <2>3. panel'[n] = percent_to_value(hardware_brightness'[n], Resolution[n])
    BY <2>1, <2>2
  <2>4. ASSUME NEW k \in Names, k # n
        PROVE  /\ panel'[k] = panel[k] /\ hardware_brightness'[k] = hardware_brightness[k]
               /\ k \in drifted' <=> k \in drifted
    BY <2>1, <2>2, <2>4
  <2> HIDE DEF value
  <2>5. ASSUME NEW k \in Names \ drifted', hardware_brightness'[k] # None
        PROVE  \/ hardware_brightness'[k] = percent_of(panel'[k], Resolution[k])
               \/ panel'[k] = percent_to_value(hardware_brightness'[k], Resolution[k])
    <3>1. CASE k = n
      BY <2>3, <3>1
    <3>2. CASE k # n
      BY <2>4, <2>5, <3>2 DEF CacheHonest
    <3> QED
      BY <3>1, <3>2
  <2> QED
    BY <2>5 DEF CacheHonest
<1>3. CASE Crash
  BY <1>3 DEF Crash, CacheHonest, NoLevels
<1>4. CASE \E n \in Names, value \in Foreign : ForeignWrite(n, value) \/ Plug(n, value)
  <2>1. PICK n \in Names, value \in Foreign : ForeignWrite(n, value) \/ Plug(n, value)
    BY <1>4
  <2>2. /\ panel' = [panel EXCEPT ![n] = value] /\ drifted' = drifted \cup {n}
        /\ hardware_brightness' = hardware_brightness
    BY <2>1 DEF ForeignWrite, Plug
  <2>3. \A k \in Names \ drifted' : k \in Names \ drifted /\ panel'[k] = panel[k]
    BY <2>2 DEF TypeInv, TypeOK
  <2> QED
    BY <2>2, <2>3 DEF CacheHonest
<1>5. CASE \E n \in Names : LateWrite(n) \/ Unplug(n)
  <2>1. PICK n \in Names : LateWrite(n) \/ Unplug(n)
    BY <1>5
  <2>2. \A k \in Names \ drifted' : k \in Names \ drifted /\ panel'[k] = panel[k]
    BY <2>1 DEF LateWrite, Unplug, TypeInv, TypeOK
  <2>3. hardware_brightness' = hardware_brightness
    BY <2>1 DEF LateWrite, Unplug
  <2> QED
    BY <2>2, <2>3 DEF CacheHonest
<1>6. CASE UNCHANGED <<hardware_brightness, panel, drifted>>
  BY <1>6 DEF CacheHonest
<1> QED
  BY <1>1, <1>2, <1>3, <1>4, <1>5, <1>6
  DEF Next, Thread, Connecting, World, DispatchOk, DispatchFails, reconnect_overlay_if_due,
      reconnect_overlay, ConnectFails, Accept, NobodyWaits, ReadTimesOut, List, Get, Bad,
      RefreshFails, Reply, BeginSet, SetDone, set_one, NoHardwareWrite, HardwareFails,
      HardwareTimesOut, set_software, SoftwareFails, Ask, TrickleEnds,
      FiveSecondsPass, ScreensChange, ConnectionBreaks, vars

(***************************************************************************)
(* The cache is honest: what the daemon believes of a device is what it    *)
(* last read from it or wrote to it, unless somebody else wrote it since   *)
(* (set_hardware, refresh, and every failure in between).                  *)
(***************************************************************************)
THEOREM CacheStaysHonest == Spec => []CacheHonest
<1>1. Init => CacheHonest
  BY DEF Init, CacheHonest, NoLevels
<1>2. Init => TypeInv
  BY InitTypeInv
<1>3. TypeInv /\ [Next]_vars => TypeInv'
  BY StepTypeOK, StepThreadOK, StepWaitingOnce DEF TypeInv
<1> QED
  BY <1>1, <1>2, <1>3, StepCacheHonest, PTL DEF Spec

-----------------------------------------------------------------------------
(* An output's level on the virtual scale, the overlay transparent, is no  *)
(* lower than on the device's own: the scale is squeezed up towards 100.   *)
LEMMA OwnScaleIsLower ==
    ASSUME NEW h \in Percents, NEW m \in 1 .. 99
    PROVE  effective_brightness(h, 100, m) >= h
<1> DEFINE product == h * m
           gain == (100 * h - product + 50) \div 100
<1>1. product \in Nat /\ product <= 100 * m
  BY DEF Percents
<1>2. h * (100 - m) = 100 * h - product
  BY DEF Percents
<1>3. Clamp(h) = h
  BY DEF Clamp, Percents
<1>4. effective_brightness(h, 100, m) = Clamp(m + gain)
  BY <1>2, <1>3 DEF effective_brightness
<1> HIDE DEF product
<1>5. gain \in Int /\ gain >= h - m
  BY <1>1 DEF Percents
<1> HIDE DEF gain
<1> QED
  BY <1>4, <1>5 DEF Clamp, Percents

(* A listed output without an overlay gets one that is not dimmed.         *)
LEMMA ReconnectRaises ==
    ASSUME TypeInv, ~Overlays, reconnect_overlay
    PROVE  \A n \in Listed : Reported(n)' >= Reported(n)
<1> SUFFICES ASSUME NEW n \in Listed PROVE Reported(n)' >= Reported(n)
  OBVIOUS
<1>1. software[n] = None /\ hardware_brightness[n] \in Percents /\ n \in Names
  BY DEF Overlays, Dimming!Dimmed, Listed, TypeInv, TypeOK
<1>2. hardware_brightness' = hardware_brightness
      /\ (software'[n] = 100 \/ software'[n] = None)
  <2>1. CASE screens # {}
    BY <1>1, <2>1 DEF reconnect_overlay, connect, Dimming!Appear
  <2>2. CASE screens = {}
    BY <1>1, <2>2 DEF reconnect_overlay, connect
  <2> QED
    BY <2>1, <2>2
<1> DEFINE h == hardware_brightness[n]
<1>3. None \notin Percents /\ 100 \in Percents /\ HardwareMin \in 1 .. 99
  BY NoneAssumption, HardwareMinAssumption DEF Percents, validate_hardware_min
<1>4. combined_brightness(h, None, HardwareMin) = h
  <2>1. combined_brightness(h, None, HardwareMin) = Clamp(h)
    BY <1>1, <1>3 DEF combined_brightness
  <2> QED
    BY <1>1, <2>1 DEF Clamp, Percents
<1>5. combined_brightness(h, 100, HardwareMin) >= h
  <2>1. combined_brightness(h, 100, HardwareMin) = effective_brightness(h, 100, HardwareMin)
    BY <1>1, <1>3, Zenon DEF combined_brightness
  <2> QED
    BY <1>1, <1>3, <2>1, OwnScaleIsLower
<1>6. Reported(n) = h
  BY <1>1, <1>4 DEF Reported
<1>7. Reported(n)' = combined_brightness(h, software'[n], HardwareMin)
  BY <1>2 DEF Reported
<1>8. h >= h
  BY <1>1 DEF Percents
<1> HIDE DEF h
<1> QED
  BY <1>2, <1>4, <1>5, <1>6, <1>7, <1>8

(***************************************************************************)
(* Reconnected overlays never dim: every listed output reports at least    *)
(* what it did on the plain hardware scale (reconnect_overlay and the      *)
(* fallback in combined_brightness), for every hardware minimum.           *)
(***************************************************************************)
THEOREM ReconnectsNeverDim == Spec => ReconnectNeverDims
<1>1. TypeInv /\ [Next]_vars =>
        [at = "connect" /\ ~Overlays /\ Overlays' =>
            \A n \in Listed : Reported(n)' >= Reported(n)]_vars
  <2> SUFFICES ASSUME TypeInv, Next, at = "connect", ~Overlays, Overlays'
               PROVE  \A n \in Listed : Reported(n)' >= Reported(n)
    OBVIOUS
  <2>1. software' # software
    BY DEF Overlays, Dimming!Dimmed
  <2>2. ~Crash
    BY DEF Crash, Dimming!Lose, Overlays, Dimming!Dimmed
  <2>3. reconnect_overlay
    BY <2>1, <2>2
    DEF Next, Thread, Connecting, World, Start, DispatchOk, DispatchFails, reconnect_overlay_if_due,
        ConnectFails, Accept, NobodyWaits, ReadTimesOut, List, Get, Bad, Refresh, RefreshFails,
        Reply, BeginSet, SetDone, set_one, NoHardwareWrite, set_hardware, HardwareFails,
        HardwareTimesOut, set_software, SoftwareFails, Ask, TrickleEnds, Serve, FiveSecondsPass,
        ForeignWrite, Plug, LateWrite, Unplug, ScreensChange, ConnectionBreaks, state
  <2> QED
    BY <2>3, ReconnectRaises
<1>2. Init => TypeInv
  BY InitTypeInv
<1>3. TypeInv /\ [Next]_vars => TypeInv'
  BY StepTypeOK, StepThreadOK, StepWaitingOnce DEF TypeInv
<1> QED
  BY <1>1, <1>2, <1>3, PTL DEF Spec, ReconnectNeverDims

-----------------------------------------------------------------------------
(* A device that nobody else wrote reads as the cached level or more.      *)
LEMMA ReadsNoLess ==
    ASSUME TypeInv, CacheHonest, NEW n \in Names \ drifted,
           hardware_brightness[n] # None, Resolution[n] # 0
    PROVE  LET read == percent_of(panel[n], Resolution[n])
           IN  read \in Percents /\ hardware_brightness[n] <= read
<1> DEFINE h == hardware_brightness[n]
           max == Resolution[n]
           read == percent_of(panel[n], max)
<1>1. h \in Percents /\ max \in Nat \ {0} /\ panel[n] \in 0 .. max
  BY ResolutionAssumption DEF TypeInv, TypeOK, Registers
<1>2. read \in Percents
  BY <1>1, RegisterIsPercent
<1>3. CASE h = read
  BY <1>2, <1>3 DEF Percents
<1>4. CASE panel[n] = percent_to_value(h, max)
  <2>1. panel[n] <= panel[n]
    BY <1>1
  <2> QED
    BY <1>1, <1>2, <1>4, <2>1, LeastRegister
<1>5. h = read \/ panel[n] = percent_to_value(h, max)
  BY DEF CacheHonest
<1> QED
  BY <1>3, <1>4, <1>5

(***************************************************************************)
(* A REFRESH never lowers what is shown of an output whose device nobody   *)
(* else wrote (DaemonState::refresh over discover_hardware, and the two    *)
(* roundings between percentages and registers), for every device with     *)
(* more than one position and every hardware minimum.                      *)
(***************************************************************************)
THEOREM RefreshesNeverDim == Spec => RefreshNeverDims
<1>1. ASSUME TypeInv, CacheHonest, Refresh, NEW n \in Names \ drifted,
             hardware_brightness[n] # None, hardware_brightness'[n] # None, Resolution[n] # 0
      PROVE  Reported(n)' >= Reported(n)
  <2> DEFINE read == percent_of(panel[n], Resolution[n])
  <2>1. hardware_brightness'[n] = read
    <3>1. PICK readable \in SUBSET plugged :
            hardware_brightness' =
                [k \in Names |-> IF k \in readable
                                 THEN percent_of(panel[k], Resolution[k]) ELSE None]
      BY <1>1 DEF Refresh, Discover
    <3> QED
      BY <1>1, <3>1
  <2>2. software \in [Names -> Levels] /\ hardware_brightness[n] \in Percents
    BY <1>1 DEF TypeInv, TypeOK
  <2>3. software' = software
    BY <1>1 DEF Refresh
  <2>4. read \in Percents /\ hardware_brightness[n] <= read
    BY <1>1, ReadsNoLess
  <2> HIDE DEF read
  <2> DEFINE shown == combined_brightness(hardware_brightness[n], software[n], HardwareMin)
             seen == combined_brightness(read, software[n], HardwareMin)
  <2>5. None \notin Percents /\ HardwareMin \in 1 .. 99
    BY NoneAssumption, HardwareMinAssumption DEF Percents, validate_hardware_min
  <2>6. shown \in Percents /\ seen \in Percents
    BY <2>2, <2>4, <2>5, CombinedIsLevel
  <2>7. shown <= seen
    BY <2>2, <2>4, HardwareMinAssumption, CombinedGrows
  <2>8. Reported(n) = shown /\ Reported(n)' = seen
    BY <2>1, <2>3 DEF Reported
  <2> HIDE DEF shown, seen
  <2> QED
    BY <2>6, <2>7, <2>8 DEF Percents
<1>2. TypeInv /\ CacheHonest /\ [Next]_vars =>
        [Refresh =>
            \A n \in Names \ drifted :
                /\ hardware_brightness[n] # None /\ hardware_brightness'[n] # None
                /\ Resolution[n] # 0
                => Reported(n)' >= Reported(n)]_vars
  BY <1>1
<1>3. Init => TypeInv
  BY InitTypeInv
<1>4. TypeInv /\ [Next]_vars => TypeInv'
  BY StepTypeOK, StepThreadOK, StepWaitingOnce DEF TypeInv
<1> QED
  BY <1>2, <1>3, <1>4, CacheStaysHonest, PTL DEF Spec, RefreshNeverDims

=============================================================================
