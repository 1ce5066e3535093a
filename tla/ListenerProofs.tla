---------------------------- MODULE ListenerProofs ----------------------------
(***************************************************************************)
(* The properties of Listener.tla for every set of daemons, with their     *)
(* proofs.                                                                 *)
(***************************************************************************)
EXTENDS Listener, TLAPS

(* What the types do not say: a daemon with the unit's descriptor neither  *)
(* removes nor binds.                                                      *)
HeirsStayOut == \A d \in Daemons : at[d] \in {"remove", "bind"} => fds[d] # 1

(* What a start that nobody disturbed saw when it looked is still so.      *)
LookStillHolds ==
    \A d \in Daemons :
        at[d] = "remove" /\ d \notin contested => path # None

(* While the unit is active and nobody binds beside it, all that start     *)
(* are heirs.                                                              *)
OnlyHeirsStart == unit /\ ~outsiders => \A d \in Starting : fds[d] = 1

(* Until somebody is killed, a file at the path is answered, one that is   *)
(* missing is about to be bound, and an heir has a unit to inherit from.   *)
FileAnswered == path # None => Answered
MissingIsBound ==
    path = None /\ (unit \/ Serving # {}) => \E d \in Daemons : at[d] = "bind"
HeirsHaveUnit == \A d \in Daemons : at[d] = "listen" /\ fds[d] = 1 => unit

Inv ==
    /\ TypeOK
    /\ HeirsStayOut
    /\ UndisturbedStartsServe
    /\ LookStillHolds
    /\ OnlyHeirsStart
    /\ SystemdKeepsItsPath
    /\ ~killed => FileAnswered /\ MissingIsBound /\ HeirsHaveUnit

-----------------------------------------------------------------------------
(* Every step of a daemon or of systemd keeps the types.                   *)
LEMMA TypesKept ==
    ASSUME TypeOK, [Next]_vars
    PROVE  TypeOK'
<1>1. CASE UNCHANGED vars
  BY <1>1 DEF vars, history, TypeOK, Starting
<1>2. ASSUME NEW d \in Daemons, NEW n \in {0, 1, 2, None}, Launch(d, n)
     PROVE  TypeOK'
  BY <1>2, SystemdAssumption DEF Launch, Goto, history, TypeOK, Starting
<1>3. ASSUME NEW d \in Daemons, Inherit(d)
     PROVE  TypeOK'
  BY <1>3, SystemdAssumption
  DEF Inherit, inherits_listener, Serve, Goto, history, TypeOK, Starting
<1>4. ASSUME NEW d \in Daemons, BadFds(d)
     PROVE  TypeOK'
  BY <1>4, SystemdAssumption DEF BadFds, Goto, history, TypeOK, Starting
<1>5. ASSUME NEW d \in Daemons, Exists(d)
     PROVE  TypeOK'
  BY <1>5, SystemdAssumption
  DEF Exists, inherits_listener, Goto, history, TypeOK, Starting
<1>6. ASSUME NEW d \in Daemons, Remove(d)
     PROVE  TypeOK'
  BY <1>6, SystemdAssumption DEF Remove, Goto, Touch, history, TypeOK, Starting
<1>7. ASSUME NEW d \in Daemons, Bind(d)
     PROVE  TypeOK'
  BY <1>7, SystemdAssumption
  DEF Bind, Serve, Goto, Touch, history, TypeOK, Starting
<1>8. ASSUME NEW d \in Daemons, Kill(d)
     PROVE  TypeOK'
  BY <1>8, SystemdAssumption DEF Kill, Goto, history, TypeOK, Starting
<1>9. CASE UnitStarts
  BY <1>9, SystemdAssumption DEF UnitStarts, history, TypeOK, Starting
<1>10. CASE UnitStops
  BY <1>10, SystemdAssumption DEF UnitStops, history, TypeOK, Starting
<1> QED
  BY <1>1, <1>2, <1>3, <1>4, <1>5, <1>6, <1>7, <1>8, <1>9, <1>10 DEF Next

(* A start is marked as disturbed by whatever spoils what it saw.          *)
LEMMA StartsKept ==
    ASSUME TypeOK, HeirsStayOut, UndisturbedStartsServe, LookStillHolds, [Next]_vars
    PROVE  (HeirsStayOut /\ UndisturbedStartsServe /\ LookStillHolds)'
<1>1. CASE UNCHANGED vars
  BY <1>1
  DEF vars, history, TypeOK, HeirsStayOut, UndisturbedStartsServe,
      LookStillHolds, Starting
<1>2. ASSUME NEW d \in Daemons, NEW n \in {0, 1, 2, None}, Launch(d, n)
     PROVE  (HeirsStayOut /\ UndisturbedStartsServe /\ LookStillHolds)'
  BY <1>2, SystemdAssumption
  DEF Launch, Goto, history, TypeOK, HeirsStayOut, UndisturbedStartsServe,
      LookStillHolds, Starting
<1>3. ASSUME NEW d \in Daemons, Inherit(d)
     PROVE  (HeirsStayOut /\ UndisturbedStartsServe /\ LookStillHolds)'
  BY <1>3, SystemdAssumption
  DEF Inherit, inherits_listener, Serve, Goto, history, TypeOK, HeirsStayOut,
      UndisturbedStartsServe, LookStillHolds, Starting
<1>4. ASSUME NEW d \in Daemons, BadFds(d)
     PROVE  (HeirsStayOut /\ UndisturbedStartsServe /\ LookStillHolds)'
  BY <1>4, SystemdAssumption
  DEF BadFds, Goto, history, TypeOK, HeirsStayOut, UndisturbedStartsServe,
      LookStillHolds, Starting
<1>5. ASSUME NEW d \in Daemons, Exists(d)
     PROVE  (HeirsStayOut /\ UndisturbedStartsServe /\ LookStillHolds)'
  BY <1>5, SystemdAssumption
  DEF Exists, inherits_listener, Goto, history, TypeOK, HeirsStayOut,
      UndisturbedStartsServe, LookStillHolds, Starting
<1>6. ASSUME NEW d \in Daemons, Remove(d)
     PROVE  (HeirsStayOut /\ UndisturbedStartsServe /\ LookStillHolds)'
  BY <1>6, SystemdAssumption
  DEF Remove, Goto, Touch, history, TypeOK, HeirsStayOut,
      UndisturbedStartsServe, LookStillHolds, Starting
<1>7. ASSUME NEW d \in Daemons, Bind(d)
     PROVE  (HeirsStayOut /\ UndisturbedStartsServe /\ LookStillHolds)'
  BY <1>7, SystemdAssumption
  DEF Bind, Serve, Goto, Touch, history, TypeOK, HeirsStayOut,
      UndisturbedStartsServe, LookStillHolds, Starting
<1>8. ASSUME NEW d \in Daemons, Kill(d)
     PROVE  (HeirsStayOut /\ UndisturbedStartsServe /\ LookStillHolds)'
  BY <1>8, SystemdAssumption
  DEF Kill, Goto, history, TypeOK, HeirsStayOut, UndisturbedStartsServe,
      LookStillHolds, Starting
<1>9. CASE UnitStarts
  BY <1>9, SystemdAssumption
  DEF UnitStarts, history, TypeOK, HeirsStayOut, UndisturbedStartsServe,
      LookStillHolds, Starting
<1>10. CASE UnitStops
  BY <1>10, SystemdAssumption
  DEF UnitStops, history, TypeOK, HeirsStayOut, UndisturbedStartsServe,
      LookStillHolds, Starting
<1> QED
  BY <1>1, <1>2, <1>3, <1>4, <1>5, <1>6, <1>7, <1>8, <1>9, <1>10 DEF Next

(* Only a daemon that is not an heir takes systemd's path.                 *)
LEMMA PathKept ==
    ASSUME TypeOK, HeirsStayOut, OnlyHeirsStart, SystemdKeepsItsPath, [Next]_vars
    PROVE  (OnlyHeirsStart /\ SystemdKeepsItsPath)'
<1>1. CASE UNCHANGED vars
  BY <1>1
  DEF vars, history, TypeOK, HeirsStayOut, OnlyHeirsStart, SystemdKeepsItsPath,
      Starting
<1>2. ASSUME NEW d \in Daemons, NEW n \in {0, 1, 2, None}, Launch(d, n)
     PROVE  (OnlyHeirsStart /\ SystemdKeepsItsPath)'
  BY <1>2, SystemdAssumption
  DEF Launch, Goto, history, TypeOK, HeirsStayOut, OnlyHeirsStart,
      SystemdKeepsItsPath, Starting
<1>3. ASSUME NEW d \in Daemons, Inherit(d)
     PROVE  (OnlyHeirsStart /\ SystemdKeepsItsPath)'
  BY <1>3, SystemdAssumption
  DEF Inherit, inherits_listener, Serve, Goto, history, TypeOK, HeirsStayOut,
      OnlyHeirsStart, SystemdKeepsItsPath, Starting
<1>4. ASSUME NEW d \in Daemons, BadFds(d)
     PROVE  (OnlyHeirsStart /\ SystemdKeepsItsPath)'
  BY <1>4, SystemdAssumption
  DEF BadFds, Goto, history, TypeOK, HeirsStayOut, OnlyHeirsStart,
      SystemdKeepsItsPath, Starting
<1>5. ASSUME NEW d \in Daemons, Exists(d)
     PROVE  (OnlyHeirsStart /\ SystemdKeepsItsPath)'
  BY <1>5, SystemdAssumption
  DEF Exists, inherits_listener, Goto, history, TypeOK, HeirsStayOut,
      OnlyHeirsStart, SystemdKeepsItsPath, Starting
<1>6. ASSUME NEW d \in Daemons, Remove(d)
     PROVE  (OnlyHeirsStart /\ SystemdKeepsItsPath)'
  BY <1>6, SystemdAssumption
  DEF Remove, Goto, Touch, history, TypeOK, HeirsStayOut, OnlyHeirsStart,
      SystemdKeepsItsPath, Starting
<1>7. ASSUME NEW d \in Daemons, Bind(d)
     PROVE  (OnlyHeirsStart /\ SystemdKeepsItsPath)'
  BY <1>7, SystemdAssumption
  DEF Bind, Serve, Goto, Touch, history, TypeOK, HeirsStayOut, OnlyHeirsStart,
      SystemdKeepsItsPath, Starting
<1>8. ASSUME NEW d \in Daemons, Kill(d)
     PROVE  (OnlyHeirsStart /\ SystemdKeepsItsPath)'
  BY <1>8, SystemdAssumption
  DEF Kill, Goto, history, TypeOK, HeirsStayOut, OnlyHeirsStart,
      SystemdKeepsItsPath, Starting
<1>9. CASE UnitStarts
  BY <1>9, SystemdAssumption
  DEF UnitStarts, history, TypeOK, HeirsStayOut, OnlyHeirsStart,
      SystemdKeepsItsPath, Starting
<1>10. CASE UnitStops
  BY <1>10, SystemdAssumption
  DEF UnitStops, history, TypeOK, HeirsStayOut, OnlyHeirsStart,
      SystemdKeepsItsPath, Starting
<1> QED
  BY <1>1, <1>2, <1>3, <1>4, <1>5, <1>6, <1>7, <1>8, <1>9, <1>10 DEF Next

(* Removing a file is followed by a bind, and a bind is answered.          *)
LEMMA AnswersKept ==
    ASSUME TypeOK, TypeOK', HeirsStayOut,
           ~killed => FileAnswered /\ MissingIsBound /\ HeirsHaveUnit, [Next]_vars
    PROVE  (~killed => FileAnswered /\ MissingIsBound /\ HeirsHaveUnit)'
<1>1. CASE UNCHANGED vars
  BY <1>1
  DEF vars, history, TypeOK, HeirsStayOut, FileAnswered, MissingIsBound,
      HeirsHaveUnit, Answered, Serving
<1>2. ASSUME NEW d \in Daemons, NEW n \in {0, 1, 2, None}, Launch(d, n)
     PROVE  (~killed => FileAnswered /\ MissingIsBound /\ HeirsHaveUnit)'
  BY <1>2, SystemdAssumption
  DEF Launch, Goto, history, TypeOK, HeirsStayOut, FileAnswered,
      MissingIsBound, HeirsHaveUnit, Answered, Serving
<1>3. ASSUME NEW d \in Daemons, Inherit(d)
     PROVE  (~killed => FileAnswered /\ MissingIsBound /\ HeirsHaveUnit)'
  BY <1>3, SystemdAssumption
  DEF Inherit, inherits_listener, Serve, Goto, history, TypeOK, HeirsStayOut,
      FileAnswered, MissingIsBound, HeirsHaveUnit, Answered, Serving
<1>4. ASSUME NEW d \in Daemons, BadFds(d)
     PROVE  (~killed => FileAnswered /\ MissingIsBound /\ HeirsHaveUnit)'
  BY <1>4, SystemdAssumption
  DEF BadFds, Goto, history, TypeOK, HeirsStayOut, FileAnswered,
      MissingIsBound, HeirsHaveUnit, Answered, Serving
<1>5. ASSUME NEW d \in Daemons, Exists(d)
     PROVE  (~killed => FileAnswered /\ MissingIsBound /\ HeirsHaveUnit)'
  BY <1>5, SystemdAssumption
  DEF Exists, inherits_listener, Goto, history, TypeOK, HeirsStayOut,
      FileAnswered, MissingIsBound, HeirsHaveUnit, Answered, Serving
<1>6. ASSUME NEW d \in Daemons, Remove(d)
     PROVE  (~killed => FileAnswered /\ MissingIsBound /\ HeirsHaveUnit)'
  BY <1>6, SystemdAssumption
  DEF Remove, Goto, Touch, history, TypeOK, HeirsStayOut, FileAnswered,
      MissingIsBound, HeirsHaveUnit, Answered, Serving
<1>7. ASSUME NEW d \in Daemons, Bind(d)
     PROVE  (~killed => FileAnswered /\ MissingIsBound /\ HeirsHaveUnit)'
  BY <1>7, SystemdAssumption
  DEF Bind, Serve, Goto, Touch, history, TypeOK, HeirsStayOut, FileAnswered,
      MissingIsBound, HeirsHaveUnit, Answered, Serving
<1>8. ASSUME NEW d \in Daemons, Kill(d)
     PROVE  (~killed => FileAnswered /\ MissingIsBound /\ HeirsHaveUnit)'
  BY <1>8, SystemdAssumption
  DEF Kill, Goto, history, TypeOK, HeirsStayOut, FileAnswered, MissingIsBound,
      HeirsHaveUnit, Answered, Serving
<1>9. CASE UnitStarts
  BY <1>9, SystemdAssumption
  DEF UnitStarts, history, TypeOK, HeirsStayOut, FileAnswered, MissingIsBound,
      HeirsHaveUnit, Answered, Serving
<1>10. CASE UnitStops
  BY <1>10, SystemdAssumption
  DEF UnitStops, history, TypeOK, HeirsStayOut, FileAnswered, MissingIsBound,
      HeirsHaveUnit, Answered, Serving
<1> QED
  BY <1>1, <1>2, <1>3, <1>4, <1>5, <1>6, <1>7, <1>8, <1>9, <1>10 DEF Next

(* The invariant holds in every state.                                     *)
LEMMA Invariance == Spec => []Inv
<1>1. Init => Inv
  BY SystemdAssumption
  DEF Init, Inv, TypeOK, HeirsStayOut, UndisturbedStartsServe, LookStillHolds,
      OnlyHeirsStart, SystemdKeepsItsPath, FileAnswered, MissingIsBound,
      HeirsHaveUnit, Starting, Serving
<1>2. Inv /\ [Next]_vars => Inv'
  <2> SUFFICES ASSUME Inv, [Next]_vars
               PROVE  Inv'
    OBVIOUS
  <2>1. TypeOK'
    BY TypesKept DEF Inv
  <2>2. (HeirsStayOut /\ UndisturbedStartsServe /\ LookStillHolds)'
    BY StartsKept DEF Inv
  <2>3. (OnlyHeirsStart /\ SystemdKeepsItsPath)'
    BY PathKept DEF Inv
  <2>4. (~killed => FileAnswered /\ MissingIsBound /\ HeirsHaveUnit)'
    BY <2>1, AnswersKept DEF Inv
  <2> QED
    BY <2>1, <2>2, <2>3, <2>4 DEF Inv
<1> QED
  BY <1>1, <1>2, PTL DEF Spec

-----------------------------------------------------------------------------
(* A daemon accepts from the unit's socket or its own, exactly while it    *)
(* serves (the listener daemon_listener returns).                          *)
THEOREM ListenerTypes == Spec => []TypeOK
<1>1. Inv => TypeOK
  BY DEF Inv
<1> QED
  BY <1>1, Invariance, PTL

(* However many daemons start over each other, one can be reached while    *)
(* nobody is killed (remove_file and bind of daemon_listener).             *)
THEOREM StartsLeaveOneAnswering == Spec => []SomebodyAnswers
<1>1. Inv => SomebodyAnswers
  BY DEF Inv, FileAnswered, MissingIsBound, SomebodyAnswers
<1> QED
  BY <1>1, Invariance, PTL

(* A start that nobody disturbs succeeds, whatever was left at the path    *)
(* (the exists check of daemon_listener).                                  *)
THEOREM UndisturbedStartsSucceed == Spec => []UndisturbedStartsServe
<1>1. Inv => UndisturbedStartsServe
  BY DEF Inv
<1> QED
  BY <1>1, Invariance, PTL

(* Heirs never take systemd's path (LISTEN_FDS of daemon_listener).        *)
THEOREM HeirsLeaveThePath == Spec => []SystemdKeepsItsPath
<1>1. Inv => SystemdKeepsItsPath
  BY DEF Inv
<1> QED
  BY <1>1, Invariance, PTL

=============================================================================
