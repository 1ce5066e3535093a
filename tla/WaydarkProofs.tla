----------------------------- MODULE WaydarkProofs -----------------------------
(***************************************************************************)
(* The safety properties of Waydark.tla for every set of outputs and sizes *)
(* and every bound, with their proofs; the proof that it implements        *)
(* SoftwareDimming.tla; and what it and the daemon's thread, as System.tla *)
(* composes them, keep together.                                           *)
(***************************************************************************)
EXTENDS System, SequenceTheorems, FiniteSetTheorems, TLAPS

(* The running dispatch has read no more events than there are.            *)
BatchHasArrived == batch # None => batch <= Len(incoming)

TypeInv == TypeOK /\ BatchHasArrived

(* Without a manager there is no connection and no call.                   *)
Disconnected ==
    bound = {} =>
        /\ batch = None /\ sweep = None
        /\ wire = <<>> /\ outgoing = <<>> /\ incoming = <<>>
        /\ \A o \in Outputs : ~surface[o].exists

(* The requests the compositor has not seen, in its order.                 *)
Pending == wire \o outgoing

Unconfigured(events, o) ==
    \A i \in 1 .. Len(events) : events[i].kind = "Configure" => events[i].output # o

(* Outputs of which the compositor has no surface and the client no size,  *)
(* nor will it find one in an event.                                       *)
Fresh ==
    {o \in Outputs : ~surface[o].exists /\ size[o] = 0 /\ Unconfigured(incoming, o)}

(* A surface still to be created is one of a fresh output, and no other    *)
(* request is about that.                                                  *)
CreatesFirst(q, fresh) ==
    \A i \in 1 .. Len(q) :
        q[i].kind = "Create" =>
            /\ q[i].output \in fresh
            /\ \A j \in 1 .. Len(q) : q[j].output = q[i].output => j = i

CreatesComeFirst == CreatesFirst(Pending, Fresh)

AcksOf(q, o) == {i \in 1 .. Len(q) : q[i].kind = "Ack" /\ q[i].output = o}

(* The size last acknowledged for o before the i-th request of q is s or   *)
(* empty: by the last acknowledgement among those before it, or by what is *)
(* acked when q begins.                                                    *)
AckedBefore(q, i, o, s, acked) ==
    /\ \A j \in AcksOf(q, o) :
          j < i /\ (\A k \in AcksOf(q, o) : k < i => k <= j) => q[j].size \in {0, s}
    /\ (\A j \in AcksOf(q, o) : j >= i) => acked \in {0, s}

(* An output without a surface takes anything.                             *)
Settled(q, i, o, s, surfaces) ==
    AckedBefore(q, i, o, s, IF surfaces[o].exists THEN surfaces[o].acked ELSE s)

(* Every frame in q has the size acknowledged last when it is its turn,    *)
(* and the next frame of an output will have it too.                       *)
Orderly(q, surfaces, sizes) ==
    /\ \A i \in 1 .. Len(q) :
          q[i].kind = "Frame" => Settled(q, i, q[i].output, q[i].frame.size, surfaces)
    /\ \A o \in Outputs : sizes[o] # 0 => Settled(q, Len(q) + 1, o, sizes[o], surfaces)

RequestsInOrder == Orderly(Pending, surface, size)

QueueInv == Disconnected /\ CreatesComeFirst /\ RequestsInOrder

-----------------------------------------------------------------------------
(* Types                                                                   *)

(* The requests and frames the client makes are of their types.            *)
LEMMA RequestTypes ==
    /\ \A o \in Outputs : [kind |-> "Create", output |-> o] \in Request
    /\ \A o \in Outputs, frame \in Frame : FrameRequest(o, frame) \in Request
    /\ \A event \in Event : event.kind = "Configure" => AckRequest(event) \in Request
BY DEF Request, Event, FrameRequest, AckRequest, Frame

(* An overlay is in the manager or nothing of it changes its types.        *)
LEMMA RecordTypes ==
    ASSUME TypeOK, NEW o \in Outputs, NEW level \in 0 .. 100, Record(o, level)
    PROVE  /\ bound' \subseteq Outputs
           /\ brightness' \in [Outputs -> 0 .. 100]
           /\ size' \in [Outputs -> Sizes \cup {0}]
           /\ buffer' \in [Outputs -> Frame \cup {None}]
           /\ closed' \in BOOLEAN
           /\ undrawn' \subseteq Outputs
           /\ outgoing' \in Seq(Request)
<1> DEFINE frame == [size |-> size[o], level |-> level]
<1>1. /\ bound' \subseteq Outputs
      /\ brightness' \in [Outputs -> 0 .. 100]
      /\ size' \in [Outputs -> Sizes \cup {0}]
      /\ closed' \in BOOLEAN
  BY DEF Record, TypeOK
<1>2. CASE size[o] = 0
  BY <1>1, <1>2 DEF Record, TypeOK
<1>3. CASE size[o] # 0
  <2>1. frame \in Frame
    BY <1>3 DEF Frame, TypeOK
  <2>2. Draw(o, frame, <<>>)
    BY <1>3 DEF Record
  <2>3. FrameRequest(o, frame) \in Request
    BY <2>1, RequestTypes
  <2> HIDE DEF frame
  <2>4. outgoing' \in Seq(Request)
    BY <2>2, <2>3 DEF Draw, TypeOK
  <2>5. buffer' \in [Outputs -> Frame \cup {None}] /\ undrawn' \subseteq Outputs
    BY <2>1, <2>2 DEF Draw, TypeOK
  <2> QED
    BY <1>1, <2>4, <2>5
<1> QED
  BY <1>2, <1>3

(* The event a handler takes is one that had arrived.                      *)
LEMMA EventTypes ==
    ASSUME TypeInv, NEW kind, NextEvent(kind)
    PROVE  /\ incoming # <<>> /\ Head(incoming) \in Event
           /\ Head(incoming).kind = kind
           /\ Head(incoming).output \in Outputs
           /\ kind = "Configure" => Head(incoming).size \in Sizes \cup {0}
           /\ incoming' \in Seq(Event)
           /\ Len(incoming') = Len(incoming) - 1
           /\ batch \in Nat /\ batch' \in Nat /\ batch' # None
           /\ batch' <= Len(incoming')
<1>1. batch \in Nat /\ batch > 0 /\ incoming \in Seq(Event) /\ Len(incoming) >= batch
  BY NoneAssumption DEF NextEvent, TypeInv, TypeOK, BatchHasArrived
<1>2. incoming # <<>> /\ Len(incoming) \in Nat
  BY <1>1
<1>3. /\ Head(incoming) \in Event /\ Tail(incoming) \in Seq(Event)
      /\ Len(Tail(incoming)) = Len(incoming) - 1
  BY <1>1, <1>2, HeadTailProperties
<1>4. batch' = batch - 1 /\ batch' \in Nat
  BY <1>1 DEF NextEvent
<1>5. batch' # None
  BY <1>4, NoneAssumption
<1>6. Head(incoming).kind = kind /\ incoming' = Tail(incoming)
  BY DEF NextEvent
<1>7. Head(incoming).output \in Outputs /\ (kind = "Configure" => Head(incoming).size \in Sizes \cup {0})
  BY <1>3, <1>6 DEF Event
<1> QED
  BY <1>1, <1>2, <1>3, <1>4, <1>5, <1>6, <1>7

(* What connect buffers: one request for each output.                      *)
LEMMA CreateTypes ==
    ASSUME TypeOK, NEW indices \in SetToSeqs(screens)
    PROVE  /\ DOMAIN indices = 1 .. Cardinality(screens)
           /\ Cardinality(screens) \in Nat
           /\ \A i \in DOMAIN indices : indices[i] \in Outputs
           /\ [i \in DOMAIN indices |-> [kind |-> "Create", output |-> indices[i]]] \in Seq(Request)
<1>1. Cardinality(screens) \in Nat
  BY OutputsAssumption, FS_Subset, FS_CardinalityType DEF TypeOK
<1>2. indices \in [1 .. Cardinality(screens) -> screens]
  BY DEF SetToSeqs
<1>3. \A i \in DOMAIN indices : indices[i] \in Outputs
  BY <1>2 DEF TypeOK
<1>4. \A i \in DOMAIN indices : [kind |-> "Create", output |-> indices[i]] \in Request
  BY <1>3, RequestTypes
<1> QED
  BY <1>1, <1>2, <1>3, <1>4

(* What a new manager holds, and what the compositor has of none.          *)
LEMMA FreshTypes ==
    /\ FreshOutputs =>
          /\ brightness' \in [Outputs -> 0 .. 100]
          /\ size' \in [Outputs -> Sizes \cup {0}]
          /\ buffer' \in [Outputs -> Frame \cup {None}]
          /\ closed' \in BOOLEAN
          /\ undrawn' \subseteq Outputs
    /\ [o \in Outputs |-> NoSurface] \in
          [Outputs -> [exists : BOOLEAN, acked : Sizes \cup {0, None},
                       shown : Frame \cup {None}]]
<1>1. NoSurface \in [exists : BOOLEAN, acked : Sizes \cup {0, None},
                     shown : Frame \cup {None}]
  BY DEF NoSurface
<1>2. ASSUME NEW S, NEW x \in S
      PROVE  [o \in Outputs |-> x] \in [Outputs -> S]
  OBVIOUS
<1>3. [o \in Outputs |-> NoSurface] \in
          [Outputs -> [exists : BOOLEAN, acked : Sizes \cup {0, None},
                       shown : Frame \cup {None}]]
  BY <1>1, <1>2
<1>4. ASSUME FreshOutputs
      PROVE  /\ brightness' \in [Outputs -> 0 .. 100]
             /\ size' \in [Outputs -> Sizes \cup {0}]
             /\ buffer' \in [Outputs -> Frame \cup {None}]
             /\ closed' \in BOOLEAN
             /\ undrawn' \subseteq Outputs
  <2>1. brightness' \in [Outputs -> 0 .. 100]
    BY <1>4 DEF FreshOutputs
  <2>2. size' \in [Outputs -> Sizes \cup {0}]
    BY <1>4 DEF FreshOutputs
  <2>3. buffer' \in [Outputs -> Frame \cup {None}]
    BY <1>4 DEF FreshOutputs
  <2>4. closed' \in BOOLEAN /\ undrawn' \subseteq Outputs
    BY <1>4 DEF FreshOutputs
  <2> QED
    BY <2>1, <2>2, <2>3, <2>4
<1> QED
  BY <1>3, <1>4

(* A dropped manager has no events left to be handled.                     *)
LEMMA DropTypes ==
    ASSUME TypeInv, Drop
    PROVE  TypeInv'
<1>1. FreshOutputs /\ surface' = [o \in Outputs |-> NoSurface]
  BY DEF Drop
<1>2. UNCHANGED screens /\ bound' = {} /\ batch' = None /\ sweep' = None
  BY DEF Drop
<1>3. outgoing' = <<>> /\ wire' = <<>> /\ incoming' = <<>> /\ broken' = FALSE
  BY DEF Drop
<1>4. incoming' \in Seq(Event) /\ outgoing' \in Seq(Request) /\ wire' \in Seq(Request)
  BY <1>3, EmptySeq
<1>5. broken' \in BOOLEAN
  BY <1>3
<1>6. surface' \in [Outputs -> [exists : BOOLEAN, acked : Sizes \cup {0, None},
                                shown : Frame \cup {None}]]
  BY <1>1, FreshTypes
<1> QED
  BY <1>1, <1>2, <1>4, <1>5, <1>6, FreshTypes DEF TypeInv, TypeOK, BatchHasArrived

(* Every step of the manager, the connection and the compositor keeps the  *)
(* types, and handles no event before it has arrived.                      *)
LEMMA TypesKept ==
    ASSUME TypeInv, [Next]_vars
    PROVE  TypeInv'
<1> USE DEF TypeInv
<1>1. CASE UNCHANGED vars
  BY <1>1
  DEF vars, manager, caller, connection, compositor, TypeOK, BatchHasArrived
<1>2. CASE Connect
  <2>1. PICK indices \in SetToSeqs(screens) :
          outgoing' = [i \in DOMAIN indices |-> [kind |-> "Create", output |-> indices[i]]]
    BY <1>2 DEF Connect
  <2>2. outgoing' \in Seq(Request)
    BY <2>1, CreateTypes
  <2> QED
    BY <1>2, <2>2, FreshTypes
    DEF Connect, caller, compositor, TypeOK, BatchHasArrived
<1>3. ASSUME NEW n \in Names, NEW level \in Levels, SetBrightness(n, level)
     PROVE  TypeInv'
  <2>1. PICK o \in bound : Record(o, level)
    BY <1>3 DEF SetBrightness
  <2> QED
    BY <1>3, <2>1, RecordTypes, LevelsAssumption
    DEF SetBrightness, caller, compositor, TypeOK, BatchHasArrived
<1>4. ASSUME NEW level \in Levels, SetAllBegin(level)
     PROVE  TypeInv'
  BY <1>4, LevelsAssumption
  DEF SetAllBegin, manager, connection, compositor, TypeOK, BatchHasArrived
<1>5. CASE DispatchBegin
  BY <1>5
  DEF DispatchBegin, manager, connection, compositor, TypeOK, BatchHasArrived
<1>6. CASE SetAllNext
  <2>1. sweep \in [level : 0 .. 100, rest : SUBSET Outputs]
    BY <1>6 DEF SetAllNext, TypeOK
  <2>2. PICK o \in sweep.rest :
          /\ Record(o, sweep.level)
          /\ sweep' = IF sweep.rest = {o} THEN None
                      ELSE [sweep EXCEPT !.rest = @ \ {o}]
    BY <1>6 DEF SetAllNext
  <2>3. sweep' \in [level : 0 .. 100, rest : SUBSET Outputs] \cup {None}
    BY <2>1, <2>2
  <2> QED
    BY <1>6, <2>1, <2>2, <2>3, RecordTypes
    DEF SetAllNext, compositor, TypeOK, BatchHasArrived
<1>7. CASE SetAllFails
  BY <1>7
  DEF SetAllFails, manager, connection, compositor, TypeOK, BatchHasArrived
<1>8. CASE ConfigureEmpty
  <2>1. NextEvent("Configure")
    BY <1>8 DEF ConfigureEmpty
  <2>2. AckRequest(Head(incoming)) \in Request
    BY <2>1, EventTypes, RequestTypes
  <2>3. outgoing' \in Seq(Request)
    BY <1>8, <2>2 DEF ConfigureEmpty, TypeOK
  <2> QED
    BY <1>8, <2>1, <2>3, EventTypes
    DEF ConfigureEmpty, NextEvent, manager, compositor, TypeOK, BatchHasArrived
<1>9. ASSUME NEW drawn \in BOOLEAN, Configure(drawn)
     PROVE  TypeInv'
  <2> DEFINE event == Head(incoming)
             frame == [size |-> event.size, level |-> brightness[event.output]]
  <2>1. NextEvent("Configure")
    BY <1>9 DEF Configure
  <2>2. AckRequest(event) \in Request /\ event.output \in Outputs
    BY <2>1, EventTypes, RequestTypes
  <2>3. event.size \in Sizes /\ frame \in Frame
    BY <1>9, <2>1, <2>2, EventTypes DEF Configure, TypeOK, Frame
  <2>4. FrameRequest(event.output, frame) \in Request
    BY <2>2, <2>3, RequestTypes
  <2>5. size' = [size EXCEPT ![event.output] = event.size]
    BY <1>9 DEF Configure
  <2>6. IF drawn
        THEN Draw(event.output, frame, <<AckRequest(event)>>)
        ELSE /\ outgoing' = Append(outgoing, AckRequest(event))
             /\ undrawn' = undrawn \cup {event.output}
             /\ UNCHANGED buffer
    BY <1>9 DEF Configure
  <2>7. UNCHANGED <<bound, brightness, closed>>
    BY <1>9 DEF Configure
  <2>8. incoming' \in Seq(Event) /\ batch' \in Nat /\ batch' <= Len(incoming')
    BY <2>1, EventTypes
  <2>9. UNCHANGED <<sweep, wire, broken, compositor>>
    BY <2>1 DEF NextEvent
  <2> HIDE DEF event, frame
  <2>10. outgoing' \in Seq(Request)
    <3>1. CASE drawn
      <4>1. outgoing' = outgoing \o <<AckRequest(event)>> \o <<FrameRequest(event.output, frame)>>
        BY <2>6, <3>1 DEF Draw
      <4>2. <<AckRequest(event)>> \in Seq(Request) /\ <<FrameRequest(event.output, frame)>> \in Seq(Request)
        BY <2>2, <2>4
      <4>3. outgoing \o <<AckRequest(event)>> \in Seq(Request)
        BY <4>2, ConcatProperties DEF TypeOK
      <4> QED
        BY <4>1, <4>2, <4>3, ConcatProperties
    <3>2. CASE ~drawn
      <4>1. outgoing' = Append(outgoing, AckRequest(event))
        BY <2>6, <3>2
      <4> QED
        BY <2>2, <4>1, AppendProperties DEF TypeOK
    <3> QED
      BY <3>1, <3>2
  <2>11. buffer' \in [Outputs -> Frame \cup {None}] /\ undrawn' \subseteq Outputs
    BY <2>2, <2>3, <2>6 DEF Draw, TypeOK
  <2> QED
    BY <2>2, <2>3, <2>5, <2>7, <2>8, <2>9, <2>10, <2>11
    DEF compositor, TypeOK, BatchHasArrived
<1>10. CASE LayerClosed
  <2>1. NextEvent("Closed")
    BY <1>10 DEF LayerClosed
  <2> QED
    BY <1>10, <2>1, EventTypes
    DEF LayerClosed, NextEvent, compositor, TypeOK, BatchHasArrived
<1>11. CASE DispatchEnd
  BY <1>11 DEF DispatchEnd, manager, compositor, TypeOK, BatchHasArrived
<1>12. CASE DispatchFails
  BY <1>12, DropTypes DEF DispatchFails
<1>13. CASE TakeRequest
  <2>1. Head(wire) \in Request /\ wire' \in Seq(Request)
    BY <1>13, HeadTailProperties DEF TakeRequest, TypeOK
  <2> DEFINE request == Head(wire)
             o == request.output
  <2>2. o \in Outputs
    BY <2>1 DEF Request
  <2>3. /\ incoming' \in Seq(Event)
        /\ Len(incoming') \in Nat /\ Len(incoming') >= Len(incoming)
    <3>1. incoming' = incoming \/ incoming' = Append(incoming, [kind |-> "Closed", output |-> o])
      BY <1>13 DEF TakeRequest
    <3>2. [kind |-> "Closed", output |-> o] \in Event
      BY <2>2 DEF Event
    <3>3. incoming \in Seq(Event)
      BY DEF TypeOK
    <3> HIDE DEF o
    <3> QED
      BY <3>1, <3>2, <3>3, AppendProperties, LenProperties
  <2>4. surface' \in [Outputs -> [exists : BOOLEAN, acked : Sizes \cup {0, None},
                                  shown : Frame \cup {None}]]
    <3>1. \/ surface' = surface
          \/ surface' = [surface EXCEPT ![o].exists = o \in screens]
          \/ request.kind = "Ack" /\ surface' = [surface EXCEPT ![o].acked = request.size]
          \/ request.kind = "Frame" /\ surface' = [surface EXCEPT ![o].shown = request.frame]
      BY <1>13 DEF TakeRequest
    <3>2. request.kind = "Ack" => request.size \in Sizes \cup {0}
      BY <2>1 DEF Request
    <3>3. request.kind = "Frame" => request.frame \in Frame
      BY <2>1 DEF Request
    <3>4. surface[o] \in [exists : BOOLEAN, acked : Sizes \cup {0, None},
                         shown : Frame \cup {None}]
      BY <2>2 DEF TypeOK
    <3> HIDE DEF request, o
    <3>5. CASE surface' = surface
      BY <3>5 DEF TypeOK
    <3>6. CASE surface' = [surface EXCEPT ![o].exists = o \in screens]
      <4>1. CASE o \in screens
        <5>1. surface' = [surface EXCEPT ![o].exists = TRUE]
          BY <3>6, <4>1
        <5> QED
          BY <2>2, <3>4, <5>1 DEF TypeOK
      <4>2. CASE o \notin screens
        <5>1. (o \in screens) = FALSE
          BY <4>2
        <5>2. surface' = [surface EXCEPT ![o].exists = FALSE]
          BY <3>6, <5>1
        <5> QED
          BY <2>2, <3>4, <5>2 DEF TypeOK
      <4> QED
        BY <4>1, <4>2
    <3>7. CASE request.kind = "Ack" /\ surface' = [surface EXCEPT ![o].acked = request.size]
      BY <2>2, <3>2, <3>4, <3>7 DEF TypeOK
    <3>8. CASE request.kind = "Frame" /\ surface' = [surface EXCEPT ![o].shown = request.frame]
      BY <2>2, <3>3, <3>4, <3>8 DEF TypeOK
    <3> QED
      BY <3>1, <3>5, <3>6, <3>7, <3>8
  <2>5. UNCHANGED <<manager, caller, outgoing, broken, screens>>
    BY <1>13 DEF TakeRequest
  <2> QED
    BY <2>1, <2>3, <2>4, <2>5 DEF manager, caller, TypeOK, BatchHasArrived
<1>14. ASSUME NEW o \in Outputs, NEW s \in Offered, SendConfigure(o, s)
     PROVE  TypeInv'
  <2>1. [kind |-> "Configure", output |-> o, size |-> s] \in Event
    BY DEF Event, Sizes
  <2>2. incoming' \in Seq(Event) /\ Len(incoming') = Len(incoming) + 1
    BY <1>14, <2>1 DEF SendConfigure, TypeOK
  <2>3. UNCHANGED <<manager, caller, outgoing, wire, broken, compositor>>
    BY <1>14 DEF SendConfigure
  <2>4. batch # None => batch \in Nat /\ batch <= Len(incoming) /\ Len(incoming) \in Nat
    BY DEF TypeOK, BatchHasArrived
  <2> QED
    BY <2>2, <2>3, <2>4 DEF manager, caller, compositor, TypeOK, BatchHasArrived
<1>15. ASSUME NEW o \in Outputs, RemoveScreen(o)
     PROVE  TypeInv'
  <2>1. [kind |-> "Closed", output |-> o] \in Event
    BY DEF Event
  <2>2. incoming' \in Seq(Event) /\ Len(incoming') \in Nat /\ Len(incoming') >= Len(incoming)
    BY <1>15, <2>1 DEF RemoveScreen, TypeOK
  <2>3. UNCHANGED <<manager, caller, outgoing, wire, broken>> /\ screens' \subseteq Outputs
    BY <1>15 DEF RemoveScreen, TypeOK
  <2>4. batch # None => batch \in Nat /\ batch <= Len(incoming) /\ Len(incoming) \in Nat
    BY DEF TypeOK, BatchHasArrived
  <2>5. surface' = [surface EXCEPT ![o] = [p \in Outputs |-> NoSurface][o]]
    BY <1>15 DEF RemoveScreen
  <2>6. surface' \in [Outputs -> [exists : BOOLEAN, acked : Sizes \cup {0, None},
                                  shown : Frame \cup {None}]]
    BY <2>5, FreshTypes DEF TypeOK
  <2> QED
    BY <2>2, <2>3, <2>4, <2>6 DEF manager, caller, TypeOK, BatchHasArrived
<1>16. ASSUME NEW o \in Outputs, AddScreen(o)
     PROVE  TypeInv'
  BY <1>16
  DEF AddScreen, manager, caller, connection, TypeOK, BatchHasArrived
<1>17. CASE CompositorExits
  <2>1. incoming' \in Seq(Event) /\ (batch # None => batch <= Len(incoming'))
    <3>1. CASE batch = None
      BY <1>17, <3>1 DEF CompositorExits
    <3>2. CASE batch # None
      <4>1. batch \in Nat /\ batch <= Len(incoming) /\ incoming \in Seq(Event)
        BY <3>2 DEF TypeOK, BatchHasArrived
      <4>2. SubSeq(incoming, 1, batch) \in Seq(Event) /\ Len(SubSeq(incoming, 1, batch)) = batch
        BY <4>1, SubSeqProperties
      <4> QED
        BY <1>17, <3>2, <4>1, <4>2 DEF CompositorExits
    <3> QED
      BY <3>1, <3>2
  <2>2. broken' \in BOOLEAN
    BY <1>17 DEF CompositorExits
  <2> QED
    BY <1>17, <2>1, <2>2, FreshTypes
    DEF CompositorExits, manager, caller, TypeOK, BatchHasArrived
<1> QED
  BY <1>1, <1>2, <1>3, <1>4, <1>5, <1>6, <1>7, <1>8, <1>9, <1>10, <1>11, <1>12,
     <1>13, <1>14, <1>15, <1>16, <1>17
  DEF Next, Caller, Running, Environment

-----------------------------------------------------------------------------
(* Acknowledgements and frames in a queue of requests                      *)

(* What is appended to a queue does not matter to the requests in it.      *)
LEMMA AppendKeepsAcks ==
    ASSUME NEW q \in Seq(Request), NEW r \in Request, NEW i \in 1 .. Len(q) + 1,
           NEW o, NEW s, NEW acked, AckedBefore(q, i, o, s, acked)
    PROVE  AckedBefore(Append(q, r), i, o, s, acked)
<1> DEFINE p == Append(q, r)
<1>1. /\ Len(q) \in Nat /\ Len(p) = Len(q) + 1
      /\ \A j \in 1 .. Len(q) : p[j] = q[j]
  BY AppendProperties
<1> HIDE DEF p
<1>2. \A j \in 1 .. Len(q) : j \in AcksOf(p, o) <=> j \in AcksOf(q, o)
  BY <1>1 DEF AcksOf
<1>3. \A j \in AcksOf(p, o) : j \in 1 .. Len(p) /\ (j < i => j \in 1 .. Len(q))
  BY <1>1 DEF AcksOf
<1>4. \A j \in AcksOf(q, o) : j \in 1 .. Len(q)
  BY DEF AcksOf
<1>5. AckedBefore(p, i, o, s, acked)
  <2>1. ASSUME NEW j \in AcksOf(p, o), j < i,
               \A k \in AcksOf(p, o) : k < i => k <= j
        PROVE  p[j].size \in {0, s}
    <3>1. j \in AcksOf(q, o) /\ p[j] = q[j]
      BY <1>1, <1>2, <1>3, <2>1
    <3>2. \A k \in AcksOf(q, o) : k < i => k <= j
      BY <1>2, <1>4, <2>1
    <3> QED
      BY <2>1, <3>1, <3>2 DEF AckedBefore
  <2>2. ASSUME \A j \in AcksOf(p, o) : j >= i
        PROVE  acked \in {0, s}
    <3>1. \A j \in AcksOf(q, o) : j >= i
      BY <1>2, <1>4, <2>2
    <3> QED
      BY <3>1 DEF AckedBefore
  <2> QED
    BY <2>1, <2>2 DEF AckedBefore
<1> QED
  BY <1>5 DEF p

(* After a request that is no acknowledgement of another size, what was    *)
(* acknowledged last is the same.                                          *)
LEMMA OthersKeepAcks ==
    ASSUME NEW q \in Seq(Request), NEW r \in Request, NEW o, NEW s, NEW acked,
           AckedBefore(q, Len(q) + 1, o, s, acked),
           ~(r.kind = "Ack" /\ r.output = o)
    PROVE  AckedBefore(Append(q, r), Len(q) + 2, o, s, acked)
<1> DEFINE p == Append(q, r)
<1>1. /\ Len(q) \in Nat /\ Len(p) = Len(q) + 1
      /\ \A j \in 1 .. Len(q) : p[j] = q[j]
      /\ p[Len(q) + 1] = r
  BY AppendProperties
<1> HIDE DEF p
<1>2. AcksOf(p, o) = AcksOf(q, o)
  BY <1>1 DEF AcksOf
<1>3. \A j \in AcksOf(q, o) : j \in 1 .. Len(q) /\ j \in Int /\ p[j] = q[j] /\ j < Len(q) + 1 /\ j < Len(q) + 2
  BY <1>1 DEF AcksOf
<1> QED
  BY <1>1, <1>2, <1>3 DEF AckedBefore, p

(* After an acknowledgement it is the last.                                *)
LEMMA AckIsLast ==
    ASSUME NEW q \in Seq(Request), NEW r \in Request, NEW o, NEW s, NEW acked,
           r.kind = "Ack", r.output = o, r.size \in {0, s}
    PROVE  AckedBefore(Append(q, r), Len(q) + 2, o, s, acked)
<1> DEFINE p == Append(q, r)
<1>1. /\ Len(q) \in Nat /\ Len(p) = Len(q) + 1
      /\ p[Len(q) + 1] = r
  BY AppendProperties
<1> HIDE DEF p
<1>2. Len(q) + 1 \in AcksOf(p, o)
  BY <1>1 DEF AcksOf
<1>3. \A j \in AcksOf(p, o) : j \in Nat /\ j <= Len(q) + 1
  BY <1>1 DEF AcksOf
<1> QED
  BY <1>1, <1>2, <1>3 DEF AckedBefore, p

(* When the first request is taken, an acknowledgement among the rest is   *)
(* still the last, and if there is none it is what the surface has.        *)
LEMMA TakingKeepsAcks ==
    ASSUME NEW q \in Seq(Request), q # <<>>, NEW i \in 1 .. Len(q),
           NEW o, NEW s, NEW acked, AckedBefore(q, i + 1, o, s, acked),
           NEW acked2,
           \/ acked2 \in {0, s}
           \/ 1 \in AcksOf(q, o) /\ acked2 = q[1].size
           \/ 1 \notin AcksOf(q, o) /\ acked2 = acked
    PROVE  AckedBefore(Tail(q), i, o, s, acked2)
<1> DEFINE p == Tail(q)
<1>1. /\ Len(q) \in Nat /\ Len(q) > 0 /\ Len(p) = Len(q) - 1
      /\ \A j \in 1 .. Len(p) : p[j] = q[j + 1]
  BY HeadTailProperties
<1> HIDE DEF p
<1>2. \A j \in AcksOf(p, o) : j \in Nat /\ j + 1 \in AcksOf(q, o) /\ p[j] = q[j + 1]
  BY <1>1 DEF AcksOf
<1>3. \A k \in AcksOf(q, o) : k \in Nat /\ (k = 1 \/ (k > 1 /\ k - 1 \in AcksOf(p, o)))
  BY <1>1 DEF AcksOf
<1>4. ASSUME NEW j \in AcksOf(p, o), j < i,
             \A k \in AcksOf(p, o) : k < i => k <= j
      PROVE  p[j].size \in {0, s}
  <2>1. j + 1 \in AcksOf(q, o) /\ j + 1 < i + 1 /\ p[j] = q[j + 1] /\ j \in Nat
    BY <1>2, <1>4
  <2>2. ASSUME NEW k \in AcksOf(q, o), k < i + 1
        PROVE  k <= j + 1
    BY <1>3, <1>4, <2>1, <2>2
  <2> QED
    BY <2>1, <2>2 DEF AckedBefore
<1>5. ASSUME \A j \in AcksOf(p, o) : j >= i
      PROVE  acked2 \in {0, s}
  <2>1. \A k \in AcksOf(q, o) : k \in Nat /\ (k = 1 \/ k >= i + 1)
    BY <1>3, <1>5
  <2>2. CASE 1 \in AcksOf(q, o)
    <3>1. q[1].size \in {0, s}
      BY <2>1, <2>2 DEF AckedBefore
    <3> QED
      BY <2>2, <3>1
  <2>3. CASE 1 \notin AcksOf(q, o)
    <3>1. acked \in {0, s}
      BY <2>1, <2>3 DEF AckedBefore
    <3> QED
      BY <2>3, <3>1
  <2> QED
    BY <2>2, <2>3
<1>6. AckedBefore(p, i, o, s, acked2)
  BY <1>4, <1>5 DEF AckedBefore
<1> QED
  BY <1>6 DEF p

(* When the requests of the wire are lost and the surfaces with them, the  *)
(* buffered ones are as they were.                                         *)
LEMMA LosingKeepsAcks ==
    ASSUME NEW w \in Seq(Request), NEW q \in Seq(Request), NEW i \in 1 .. Len(q) + 1,
           NEW o, NEW s, NEW acked, AckedBefore(w \o q, Len(w) + i, o, s, acked)
    PROVE  AckedBefore(q, i, o, s, s)
<1> DEFINE p == w \o q
           n == Len(w)
<1>1. /\ n \in Nat /\ Len(q) \in Nat /\ Len(p) = n + Len(q)
      /\ \A j \in 1 .. Len(q) : p[n + j] = q[j]
  BY ConcatProperties
<1> HIDE DEF p, n
<1>2. \A j \in AcksOf(q, o) : j \in Nat /\ n + j \in AcksOf(p, o) /\ q[j] = p[n + j]
  BY <1>1 DEF AcksOf
<1>3. \A k \in AcksOf(p, o) : k \in Nat /\ (k <= n \/ (k > n /\ k - n \in AcksOf(q, o)))
  <2> SUFFICES ASSUME NEW k \in AcksOf(p, o), k > n
               PROVE  k - n \in AcksOf(q, o)
    BY <1>1 DEF AcksOf
  <2>1. k \in Nat /\ k - n \in 1 .. Len(q) /\ n + (k - n) = k
    BY <1>1 DEF AcksOf
  <2>2. p[k] = q[k - n]
    BY <1>1, <2>1
  <2> QED
    BY <2>1, <2>2 DEF AcksOf
<1>4. ASSUME NEW j \in AcksOf(q, o), j < i,
             \A k \in AcksOf(q, o) : k < i => k <= j
      PROVE  q[j].size \in {0, s}
  <2>1. n + j \in AcksOf(p, o) /\ n + j < n + i /\ q[j] = p[n + j] /\ j \in Nat
    BY <1>1, <1>2, <1>4
  <2>2. ASSUME NEW k \in AcksOf(p, o), k < n + i
        PROVE  k <= n + j
    BY <1>1, <1>3, <1>4, <2>1, <2>2
  <2>3. AckedBefore(p, n + i, o, s, acked)
    BY DEF p, n
  <2> QED
    BY <2>1, <2>2, <2>3 DEF AckedBefore
<1> QED
  BY <1>4 DEF AckedBefore

(* A configure is acknowledged and its size taken, unless it is empty.     *)
LEMMA AckingIsOrderly ==
    ASSUME NEW q \in Seq(Request), NEW r \in Request, NEW surfaces, NEW sizes,
           Orderly(q, surfaces, sizes), r.kind = "Ack",
           NEW sizes2,
           \A o \in Outputs :
              sizes2[o] = IF o = r.output /\ r.size # 0 THEN r.size ELSE sizes[o]
    PROVE  Orderly(Append(q, r), surfaces, sizes2)
<1> DEFINE p == Append(q, r)
<1>1. /\ Len(q) \in Nat /\ Len(p) = Len(q) + 1
      /\ \A j \in 1 .. Len(q) : p[j] = q[j]
      /\ p[Len(q) + 1] = r
  BY AppendProperties
<1>2. ASSUME NEW i \in 1 .. Len(p), p[i].kind = "Frame"
      PROVE  Settled(p, i, p[i].output, p[i].frame.size, surfaces)
  <2>1. i \in 1 .. Len(q) /\ p[i] = q[i]
    BY <1>1, <1>2
  <2>2. Settled(q, i, q[i].output, q[i].frame.size, surfaces)
    BY <1>2, <2>1 DEF Orderly
  <2>3. i \in 1 .. Len(q) + 1
    BY <1>1, <2>1
  <2> HIDE DEF p
  <2> QED
    BY <2>1, <2>2, <2>3, AppendKeepsAcks DEF Settled, p
<1>3. ASSUME NEW o \in Outputs, sizes2[o] # 0
      PROVE  Settled(p, Len(p) + 1, o, sizes2[o], surfaces)
  <2>1. Len(p) + 1 = Len(q) + 2
    BY <1>1
  <2>2. CASE o = r.output
    <3>1. r.size \in {0, sizes2[o]}
      BY <2>2
    <3> QED
      BY <2>1, <2>2, <3>1, AckIsLast DEF Settled
  <2>3. CASE o # r.output
    <3>1. sizes2[o] = sizes[o] /\ Settled(q, Len(q) + 1, o, sizes[o], surfaces)
      BY <1>3, <2>3 DEF Orderly
    <3> QED
      BY <2>1, <2>3, <3>1, OthersKeepAcks DEF Settled
  <2> QED
    BY <2>2, <2>3
<1> HIDE DEF p
<1>4. Orderly(p, surfaces, sizes2)
  BY <1>2, <1>3 DEF Orderly
<1> QED
  BY <1>4 DEF p

(* A frame is drawn at the size that was taken.                            *)
LEMMA DrawingIsOrderly ==
    ASSUME NEW q \in Seq(Request), NEW r \in Request, NEW surfaces, NEW sizes,
           Orderly(q, surfaces, sizes), r.kind = "Frame", r.output \in Outputs,
           sizes[r.output] # 0, r.frame.size = sizes[r.output]
    PROVE  Orderly(Append(q, r), surfaces, sizes)
<1> DEFINE p == Append(q, r)
<1>1. /\ Len(q) \in Nat /\ Len(p) = Len(q) + 1
      /\ \A j \in 1 .. Len(q) : p[j] = q[j]
      /\ p[Len(q) + 1] = r
  BY AppendProperties
<1>2. ASSUME NEW i \in 1 .. Len(p), p[i].kind = "Frame"
      PROVE  Settled(p, i, p[i].output, p[i].frame.size, surfaces)
  <2>1. i \in 1 .. Len(q) + 1
    BY <1>1
  <2>2. CASE i = Len(q) + 1
    <3>1. p[i] = r /\ Settled(q, i, r.output, r.frame.size, surfaces)
      BY <1>1, <2>2 DEF Orderly
    <3> QED
      BY <2>1, <3>1, AppendKeepsAcks DEF Settled
  <2>3. CASE i # Len(q) + 1
    <3>1. i \in 1 .. Len(q) /\ p[i] = q[i]
      BY <1>1, <2>1, <2>3
    <3>2. Settled(q, i, q[i].output, q[i].frame.size, surfaces)
      BY <1>2, <3>1 DEF Orderly
    <3> HIDE DEF p
    <3> QED
      BY <2>1, <3>1, <3>2, AppendKeepsAcks DEF Settled, p
  <2> QED
    BY <2>2, <2>3
<1>3. ASSUME NEW o \in Outputs, sizes[o] # 0
      PROVE  Settled(p, Len(p) + 1, o, sizes[o], surfaces)
  <2>1. Len(p) + 1 = Len(q) + 2
    BY <1>1
  <2>2. Settled(q, Len(q) + 1, o, sizes[o], surfaces)
    BY <1>3 DEF Orderly
  <2>3. ~(r.kind = "Ack" /\ r.output = o)
    OBVIOUS
  <2> QED
    BY <2>1, <2>2, <2>3, OthersKeepAcks DEF Settled
<1> HIDE DEF p
<1>4. Orderly(p, surfaces, sizes)
  BY <1>2, <1>3 DEF Orderly
<1> QED
  BY <1>4 DEF p

(* The compositor takes a request: of each output it keeps what it has     *)
(* acknowledged, or takes the acknowledgement, or has no surface; or the   *)
(* output has neither a size nor a frame on its way.                       *)
LEMMA TakingIsOrderly ==
    ASSUME NEW q \in Seq(Request), q # <<>>, NEW surfaces, NEW surfaces2, NEW sizes,
           Orderly(q, surfaces, sizes),
           \A o \in Outputs :
              \/ ~surfaces2[o].exists
              \/ /\ surfaces[o].exists
                 /\ surfaces2[o].acked = IF 1 \in AcksOf(q, o) THEN q[1].size
                                         ELSE surfaces[o].acked
              \/ /\ sizes[o] = 0
                 /\ \A i \in 1 .. Len(q) : q[i].kind = "Frame" => q[i].output # o
    PROVE  Orderly(Tail(q), surfaces2, sizes)
<1> DEFINE p == Tail(q)
<1>1. /\ Len(q) \in Nat /\ Len(q) > 0 /\ Len(p) = Len(q) - 1
      /\ \A j \in 1 .. Len(p) : p[j] = q[j + 1] /\ q[j + 1] \in Request
  BY HeadTailProperties
<1> HIDE DEF p
<1>2. ASSUME NEW i \in 1 .. Len(q), NEW o \in Outputs, NEW s,
             Settled(q, i + 1, o, s, surfaces),
             \/ ~surfaces2[o].exists
             \/ /\ surfaces[o].exists
                /\ surfaces2[o].acked = IF 1 \in AcksOf(q, o) THEN q[1].size
                                        ELSE surfaces[o].acked
      PROVE  Settled(p, i, o, s, surfaces2)
  <2> DEFINE acked  == IF surfaces[o].exists THEN surfaces[o].acked ELSE s
             acked2 == IF surfaces2[o].exists THEN surfaces2[o].acked ELSE s
  <2>1. AckedBefore(q, i + 1, o, s, acked)
    BY <1>2 DEF Settled
  <2>2. \/ acked2 \in {0, s}
        \/ 1 \in AcksOf(q, o) /\ acked2 = q[1].size
        \/ 1 \notin AcksOf(q, o) /\ acked2 = acked
    BY <1>2
  <2> HIDE DEF acked, acked2
  <2>3. AckedBefore(p, i, o, s, acked2)
    BY <2>1, <2>2, TakingKeepsAcks DEF p
  <2> QED
    BY <2>3 DEF Settled, acked2
<1>3. ASSUME NEW i \in 1 .. Len(p), p[i].kind = "Frame"
      PROVE  Settled(p, i, p[i].output, p[i].frame.size, surfaces2)
  <2>1. i \in 1 .. Len(q) /\ i + 1 \in 1 .. Len(q) /\ p[i] = q[i + 1]
    BY <1>1
  <2>2. Settled(q, i + 1, p[i].output, p[i].frame.size, surfaces)
    BY <1>3, <2>1 DEF Orderly
  <2>3. p[i].output \in Outputs
    BY <1>1 DEF Request
  <2> QED
    BY <1>2, <1>3, <2>1, <2>2, <2>3
<1>4. ASSUME NEW o \in Outputs, sizes[o] # 0
      PROVE  Settled(p, Len(p) + 1, o, sizes[o], surfaces2)
  <2>1. Len(p) + 1 = Len(q) /\ Len(q) \in 1 .. Len(q)
    BY <1>1
  <2>2. Settled(q, Len(q) + 1, o, sizes[o], surfaces)
    BY <1>4 DEF Orderly
  <2> QED
    BY <1>2, <1>4, <2>1, <2>2
<1>5. Orderly(p, surfaces2, sizes)
  BY <1>3, <1>4 DEF Orderly
<1> QED
  BY <1>5 DEF p

(* A surface that has gone takes anything.                                 *)
LEMMA RemovingIsOrderly ==
    ASSUME NEW q \in Seq(Request), NEW surfaces, NEW surfaces2, NEW sizes,
           Orderly(q, surfaces, sizes),
           \A o \in Outputs : surfaces2[o] = surfaces[o] \/ ~surfaces2[o].exists
    PROVE  Orderly(q, surfaces2, sizes)
<1>1. ASSUME NEW i, NEW o \in Outputs, NEW s, Settled(q, i, o, s, surfaces)
      PROVE  Settled(q, i, o, s, surfaces2)
  BY <1>1 DEF Settled, AckedBefore
<1>2. \A i \in 1 .. Len(q) : q[i].output \in Outputs
  BY DEF Request
<1> QED
  BY <1>1, <1>2 DEF Orderly

(* The wire and the surfaces are lost; the client has not noticed.         *)
LEMMA LosingIsOrderly ==
    ASSUME NEW w \in Seq(Request), NEW q \in Seq(Request), NEW surfaces, NEW surfaces2,
           NEW sizes, Orderly(w \o q, surfaces, sizes),
           \A o \in Outputs : ~surfaces2[o].exists
    PROVE  Orderly(q, surfaces2, sizes)
<1> DEFINE p == w \o q
           n == Len(w)
<1>1. /\ n \in Nat /\ Len(q) \in Nat /\ Len(p) = n + Len(q)
      /\ \A j \in 1 .. Len(q) : p[n + j] = q[j]
  BY ConcatProperties
<1>2. ASSUME NEW i \in 1 .. Len(q) + 1, NEW o \in Outputs, NEW s,
             Settled(p, n + i, o, s, surfaces)
      PROVE  Settled(q, i, o, s, surfaces2)
  BY <1>2, LosingKeepsAcks DEF Settled
<1> HIDE DEF p, n
<1>3. \A i \in 1 .. Len(q) : q[i].output \in Outputs
  BY DEF Request
<1>4. ASSUME NEW i \in 1 .. Len(q), q[i].kind = "Frame"
      PROVE  Settled(q, i, q[i].output, q[i].frame.size, surfaces2)
  <2>1. p[n + i] = q[i] /\ n + i \in 1 .. Len(p) /\ i \in 1 .. Len(q) + 1
    BY <1>1
  <2>2. Settled(p, n + i, q[i].output, q[i].frame.size, surfaces)
    BY <1>4, <2>1 DEF Orderly, p
  <2> QED
    BY <1>2, <1>3, <2>1, <2>2
<1>5. ASSUME NEW o \in Outputs, sizes[o] # 0
      PROVE  Settled(q, Len(q) + 1, o, sizes[o], surfaces2)
  <2>1. Len(p) + 1 = n + (Len(q) + 1) /\ Len(q) + 1 \in 1 .. Len(q) + 1
    BY <1>1
  <2>2. Settled(p, Len(p) + 1, o, sizes[o], surfaces)
    BY <1>5 DEF Orderly, p
  <2> QED
    BY <1>2, <2>1, <2>2
<1> QED
  BY <1>4, <1>5 DEF Orderly

-----------------------------------------------------------------------------
(* Surfaces still to be created                                            *)

(* A request about an output with a surface does not disturb the creates   *)
(* before it.                                                              *)
LEMMA AppendKeepsCreates ==
    ASSUME NEW q \in Seq(Request), NEW r \in Request, NEW fresh, NEW fresh2,
           CreatesFirst(q, fresh), r.kind # "Create", r.output \notin fresh,
           \A o \in fresh : o \in fresh2
    PROVE  CreatesFirst(Append(q, r), fresh2)
<1> DEFINE p == Append(q, r)
<1>1. /\ Len(q) \in Nat /\ Len(p) = Len(q) + 1
      /\ \A j \in 1 .. Len(q) : p[j] = q[j]
      /\ p[Len(q) + 1] = r
  BY AppendProperties
<1> HIDE DEF p
<1>2. CreatesFirst(p, fresh2)
  BY <1>1 DEF CreatesFirst
<1> QED
  BY <1>2 DEF p

(* Taking the first request leaves the creates behind it first.            *)
LEMMA TakingKeepsCreates ==
    ASSUME NEW q \in Seq(Request), q # <<>>, NEW fresh, NEW fresh2,
           CreatesFirst(q, fresh),
           \A o \in fresh : o \in fresh2 \/ o = q[1].output
    PROVE  CreatesFirst(Tail(q), fresh2)
<1> DEFINE p == Tail(q)
<1>1. /\ Len(q) \in Nat /\ Len(q) > 0 /\ Len(p) = Len(q) - 1
      /\ \A j \in 1 .. Len(p) : p[j] = q[j + 1]
  BY HeadTailProperties
<1> HIDE DEF p
<1>2. ASSUME NEW i \in 1 .. Len(p), p[i].kind = "Create"
      PROVE  /\ p[i].output \in fresh2
             /\ \A j \in 1 .. Len(p) : p[j].output = p[i].output => j = i
  <2>1. i + 1 \in 1 .. Len(q) /\ q[i + 1] = p[i] /\ 1 \in 1 .. Len(q) /\ i + 1 # 1
    BY <1>1
  <2>2. /\ q[i + 1].output \in fresh
        /\ \A j \in 1 .. Len(q) : q[j].output = q[i + 1].output => j = i + 1
    BY <1>2, <2>1 DEF CreatesFirst
  <2>3. q[1].output # q[i + 1].output
    BY <2>1, <2>2
  <2>4. \A j \in 1 .. Len(p) : j + 1 \in 1 .. Len(q) /\ q[j + 1] = p[j] /\ (j + 1 = i + 1 => j = i)
    BY <1>1
  <2> QED
    BY <2>1, <2>2, <2>3, <2>4
<1>3. CreatesFirst(p, fresh2)
  BY <1>2 DEF CreatesFirst
<1> QED
  BY <1>3 DEF p

(* So does losing the requests on the wire.                                *)
LEMMA LosingKeepsCreates ==
    ASSUME NEW w \in Seq(Request), NEW q \in Seq(Request), NEW fresh, NEW fresh2,
           CreatesFirst(w \o q, fresh), \A o \in fresh : o \in fresh2
    PROVE  CreatesFirst(q, fresh2)
<1> DEFINE p == w \o q
           n == Len(w)
<1>1. /\ n \in Nat /\ Len(q) \in Nat /\ Len(p) = n + Len(q)
      /\ \A j \in 1 .. Len(q) : p[n + j] = q[j]
  BY ConcatProperties
<1>2. CreatesFirst(p, fresh)
  OBVIOUS
<1> HIDE DEF p, n
<1>3. \A j \in 1 .. Len(q) : n + j \in 1 .. Len(p)
  BY <1>1
<1>4. \A i, j \in 1 .. Len(q) : n + j = n + i => j = i
  BY <1>1
<1> QED
  BY <1>1, <1>2, <1>3, <1>4 DEF CreatesFirst

-----------------------------------------------------------------------------
(* What the steps do to the requests on their way                          *)

(* The requests on their way are requests.                                 *)
LEMMA PendingTypes ==
    ASSUME TypeOK
    PROVE  /\ Pending \in Seq(Request)
           /\ \A i \in 1 .. Len(Pending) : Pending[i] \in Request
BY ConcatProperties, ElementOfSeq DEF Pending, TypeOK

(* What the client buffers comes last.                                     *)
LEMMA PendingGrows ==
    ASSUME TypeOK, NEW r \in Request, wire' = wire, outgoing' = Append(outgoing, r)
    PROVE  Pending' = Append(Pending, r)
<1>1. outgoing' = outgoing \o <<r>> /\ <<r>> \in Seq(Request)
  BY AppendIsConcat DEF TypeOK
<1>2. wire \o (outgoing \o <<r>>) = (wire \o outgoing) \o <<r>>
  BY <1>1, ConcatAssociative DEF TypeOK
<1>3. (wire \o outgoing) \o <<r>> = Append(wire \o outgoing, r)
  BY PendingTypes, AppendIsConcat DEF Pending
<1> QED
  BY <1>1, <1>2, <1>3 DEF Pending

(* What the compositor takes came first.                                   *)
LEMMA PendingShrinks ==
    ASSUME TypeOK, wire # <<>>, wire' = Tail(wire), outgoing' = outgoing
    PROVE  /\ Pending # <<>> /\ Pending[1] = Head(wire)
           /\ Pending' = Tail(Pending)
<1>1. /\ Len(wire) \in Nat /\ Len(wire) > 0
      /\ Len(Tail(wire)) = Len(wire) - 1 /\ Tail(wire) \in Seq(Request)
      /\ \A i \in 1 .. Len(Tail(wire)) : Tail(wire)[i] = wire[i + 1]
  BY HeadTailProperties DEF TypeOK
<1> DEFINE p == wire \o outgoing
           t == Tail(wire) \o outgoing
<1>2. /\ p \in Seq(Request) /\ Len(p) = Len(wire) + Len(outgoing) /\ Len(outgoing) \in Nat
      /\ \A i \in 1 .. Len(wire) + Len(outgoing) :
            p[i] = IF i <= Len(wire) THEN wire[i] ELSE outgoing[i - Len(wire)]
  BY ConcatProperties DEF TypeOK
<1>3. /\ t \in Seq(Request) /\ Len(t) = Len(Tail(wire)) + Len(outgoing)
      /\ \A i \in 1 .. Len(Tail(wire)) + Len(outgoing) :
            t[i] = IF i <= Len(Tail(wire)) THEN Tail(wire)[i] ELSE outgoing[i - Len(Tail(wire))]
  BY <1>1, ConcatProperties DEF TypeOK
<1>4. Head(wire) = wire[1]
  BY <1>1 DEF TypeOK
<1> HIDE DEF p, t
<1>5. p # <<>> /\ p[1] = Head(wire)
  BY <1>1, <1>2, <1>4
<1>6. /\ Tail(p) \in Seq(Request) /\ Len(Tail(p)) = Len(p) - 1
      /\ \A i \in 1 .. Len(Tail(p)) : Tail(p)[i] = p[i + 1]
  BY <1>2, <1>5, HeadTailProperties
<1>7. Len(t) = Len(Tail(p))
  BY <1>1, <1>2, <1>3, <1>6
<1>8. \A i \in 1 .. Len(t) : t[i] = Tail(p)[i]
  BY <1>1, <1>2, <1>3, <1>6
<1>9. t = Tail(p)
  BY <1>3, <1>6, <1>7, <1>8, SeqEqual
<1> QED
  BY <1>5, <1>9 DEF Pending, p, t

-----------------------------------------------------------------------------
(* What the steps do to the events on their way                            *)

(* No step but a configure of it makes a configure of an output arrive.    *)
LEMMA EventsKept ==
    ASSUME NEW events \in Seq(Event), NEW o, Unconfigured(events, o)
    PROVE  /\ events # <<>> => Unconfigured(Tail(events), o)
           /\ \A e \in Event : e.kind # "Configure" \/ e.output # o =>
                 Unconfigured(Append(events, e), o)
           /\ \A n \in 0 .. Len(events) : Unconfigured(SubSeq(events, 1, n), o)
<1>1. ASSUME events # <<>>
      PROVE  Unconfigured(Tail(events), o)
  <2>1. /\ Len(events) \in Nat /\ Len(Tail(events)) = Len(events) - 1
        /\ \A i \in 1 .. Len(Tail(events)) : Tail(events)[i] = events[i + 1]
    BY <1>1, HeadTailProperties
  <2> QED
    BY <2>1 DEF Unconfigured
<1>2. ASSUME NEW e \in Event, e.kind # "Configure" \/ e.output # o
      PROVE  Unconfigured(Append(events, e), o)
  <2> DEFINE longer == Append(events, e)
  <2>1. /\ Len(events) \in Nat /\ Len(longer) = Len(events) + 1
        /\ \A i \in 1 .. Len(events) : longer[i] = events[i]
        /\ longer[Len(events) + 1] = e
    BY AppendProperties
  <2> HIDE DEF longer
  <2>2. Unconfigured(longer, o)
    BY <1>2, <2>1 DEF Unconfigured
  <2> QED
    BY <2>2 DEF longer
<1>3. ASSUME NEW n \in 0 .. Len(events)
      PROVE  Unconfigured(SubSeq(events, 1, n), o)
  <2> DEFINE prefix == SubSeq(events, 1, n)
  <2>1. Len(events) \in Nat /\ n \in Nat /\ \A i \in 1 .. n : events[i] \in Event
    BY ElementOfSeq
  <2>2. Len(prefix) = n /\ \A i \in 1 .. n : prefix[i] = events[i]
    BY <2>1
  <2> HIDE DEF prefix
  <2>3. Unconfigured(prefix, o)
    BY <2>1, <2>2 DEF Unconfigured
  <2> QED
    BY <2>3 DEF prefix
<1> QED
  BY <1>1, <1>2, <1>3

(* The output of a configure that has arrived is not a fresh one.          *)
LEMMA ConfiguredIsNotFresh ==
    ASSUME TypeInv, NextEvent("Configure")
    PROVE  Head(incoming).output \notin Fresh
<1>1. incoming # <<>> /\ Head(incoming).kind = "Configure" /\ incoming \in Seq(Event)
  BY EventTypes DEF TypeInv, TypeOK
<1>2. Head(incoming) = incoming[1] /\ 1 \in 1 .. Len(incoming)
  BY <1>1
<1> QED
  BY <1>1, <1>2 DEF Fresh, Unconfigured

-----------------------------------------------------------------------------
(* The queue, step by step                                                 *)

(* Setting a brightness draws only what has a size.                        *)
LEMMA RecordKeepsQueue ==
    ASSUME TypeInv, QueueInv, NEW o \in Outputs, NEW level \in 0 .. 100,
           Record(o, level), UNCHANGED <<wire, incoming, surface>>
    PROVE  (CreatesComeFirst /\ RequestsInOrder)'
<1>1. size' = size
  BY DEF Record, TypeInv, TypeOK, Draw
<1>2. Fresh' = Fresh
  BY <1>1 DEF Fresh, Unconfigured
<1>3. CASE size[o] = 0
  <2>1. outgoing' = outgoing
    BY <1>3 DEF Record
  <2>2. Pending' = Pending
    BY <2>1 DEF Pending
  <2> QED
    BY <1>1, <1>2, <2>2 DEF QueueInv, CreatesComeFirst, RequestsInOrder
<1>4. CASE size[o] # 0
  <2> DEFINE frame == [size |-> size[o], level |-> level]
             r == FrameRequest(o, frame)
  <2>1. frame \in Frame
    BY <1>4 DEF Frame, TypeInv, TypeOK
  <2>2. /\ r \in Request /\ r.kind = "Frame" /\ r.output = o
        /\ r.frame.size = size[o]
    BY <2>1, RequestTypes DEF FrameRequest
  <2>3. outgoing' = outgoing \o <<>> \o <<r>>
    BY <1>4 DEF Record, Draw
  <2> HIDE DEF frame, r
  <2>4. outgoing' = Append(outgoing, r)
    BY <2>2, <2>3, ConcatEmptySeq, AppendIsConcat DEF TypeInv, TypeOK
  <2>5. Pending' = Append(Pending, r)
    BY <2>2, <2>4, PendingGrows DEF TypeInv
  <2>6. CreatesFirst(Append(Pending, r), Fresh)
    <3>1. r.output \notin Fresh /\ r.kind # "Create"
      BY <1>4, <2>2 DEF Fresh
    <3> QED
      BY <2>2, <3>1, PendingTypes, AppendKeepsCreates
      DEF QueueInv, CreatesComeFirst, TypeInv
  <2>7. Orderly(Append(Pending, r), surface, size)
    BY <1>4, <2>2, PendingTypes, DrawingIsOrderly
    DEF QueueInv, RequestsInOrder, TypeInv
  <2> QED
    BY <1>1, <1>2, <2>5, <2>6, <2>7 DEF CreatesComeFirst, RequestsInOrder
<1> QED
  BY <1>3, <1>4

(* A configure is acknowledged before anything is drawn at its size.       *)
LEMMA AckKeepsQueue ==
    ASSUME TypeInv, QueueInv, NextEvent("Configure"),
           size' = IF Head(incoming).size = 0 THEN size
                   ELSE [size EXCEPT ![Head(incoming).output] = Head(incoming).size]
    PROVE  /\ AckRequest(Head(incoming)) \in Request
           /\ CreatesFirst(Append(Pending, AckRequest(Head(incoming))), Fresh')
           /\ Orderly(Append(Pending, AckRequest(Head(incoming))), surface, size')
<1> DEFINE event == Head(incoming)
           r == AckRequest(event)
<1>1. r \in Request /\ r.kind = "Ack" /\ r.output = event.output /\ r.size = event.size
  BY EventTypes, RequestTypes DEF AckRequest
<1>2. event.output \in Outputs /\ event.output \notin Fresh
  BY EventTypes, ConfiguredIsNotFresh
<1>3. \A o \in Outputs :
         size'[o] = IF o = r.output /\ r.size # 0 THEN r.size ELSE size[o]
  BY <1>1, <1>2 DEF TypeInv, TypeOK
<1>4. \A o \in Fresh : o \in Fresh'
  <2> SUFFICES ASSUME NEW o \in Fresh
               PROVE  o \in Fresh'
    OBVIOUS
  <2>1. o \in Outputs /\ o # r.output /\ Unconfigured(incoming, o)
    BY <1>1, <1>2 DEF Fresh
  <2>2. incoming' = Tail(incoming) /\ incoming # <<>> /\ surface' = surface
    BY EventTypes DEF NextEvent, compositor
  <2>3. Unconfigured(incoming', o)
    BY <2>1, <2>2, EventsKept DEF TypeInv, TypeOK
  <2>4. size'[o] = size[o]
    BY <1>3, <2>1
  <2> QED
    BY <2>1, <2>2, <2>3, <2>4 DEF Fresh
<1> HIDE DEF event, r
<1>5. CreatesFirst(Append(Pending, r), Fresh')
  BY <1>1, <1>2, <1>4, PendingTypes, AppendKeepsCreates
  DEF QueueInv, CreatesComeFirst, TypeInv
<1>6. Orderly(Append(Pending, r), surface, size')
  BY <1>1, <1>3, PendingTypes, AckingIsOrderly DEF QueueInv, RequestsInOrder, TypeInv
<1> QED
  BY <1>1, <1>5, <1>6 DEF r, event

(* A new connection has one request for each surface and nothing else.     *)
LEMMA ConnectStartsQueue ==
    ASSUME TypeInv, QueueInv, Connect
    PROVE  QueueInv'
<1>1. /\ bound' = screens /\ screens # {} /\ wire' = <<>> /\ incoming' = <<>>
      /\ surface' = surface /\ \A o \in Outputs : ~surface[o].exists
  BY DEF Connect, QueueInv, Disconnected, compositor
<1>2. \A o \in Outputs : size'[o] = 0
  BY DEF Connect, FreshOutputs
<1>3. PICK indices \in SetToSeqs(screens) :
         /\ \A i, j \in DOMAIN indices : i < j => indices[i] < indices[j]
         /\ outgoing' = [i \in DOMAIN indices |-> [kind |-> "Create", output |-> indices[i]]]
  BY DEF Connect
<1> DEFINE n == Cardinality(screens)
<1>4. /\ DOMAIN indices = 1 .. n /\ n \in Nat
      /\ \A i \in DOMAIN indices : indices[i] \in Outputs /\ indices[i] \in Nat
      /\ outgoing' \in Seq(Request)
  BY <1>3, CreateTypes, OutputsAssumption DEF TypeInv
<1>5. Pending' = outgoing'
  BY <1>1, <1>4, ConcatEmptySeq DEF Pending
<1> HIDE DEF n
<1>6. /\ Len(Pending') = n
      /\ \A i \in 1 .. n : /\ Pending'[i].kind = "Create"
                           /\ Pending'[i].output = indices[i]
  BY <1>3, <1>4, <1>5
<1>7. \A o \in Outputs : o \in Fresh'
  BY <1>1, <1>2 DEF Fresh, Unconfigured
<1>8. \A i, j \in 1 .. n : indices[i] = indices[j] => i = j
  BY <1>3, <1>4
<1>9. CreatesComeFirst'
  BY <1>4, <1>6, <1>7, <1>8 DEF CreatesComeFirst, CreatesFirst
<1>10. RequestsInOrder'
  BY <1>2, <1>6 DEF RequestsInOrder, Orderly
<1> QED
  BY <1>1, <1>9, <1>10 DEF QueueInv, Disconnected

(* Nothing is left of a connection that is dropped.                        *)
LEMMA DropEndsQueue ==
    ASSUME Drop
    PROVE  QueueInv'
<1>1. wire' = <<>> /\ outgoing' = <<>> /\ incoming' = <<>> /\ batch' = None /\ sweep' = None
  BY DEF Drop
<1>2. \A o \in Outputs : size'[o] = 0 /\ ~surface'[o].exists
  BY DEF Drop, FreshOutputs, NoSurface
<1>3. Len(Pending') = 0
  BY <1>1 DEF Pending
<1> QED
  BY <1>1, <1>2, <1>3
  DEF QueueInv, Disconnected, CreatesComeFirst, CreatesFirst, RequestsInOrder, Orderly

(* The compositor takes a request.                                         *)
LEMMA TakeKeepsQueue ==
    ASSUME TypeInv, QueueInv, TakeRequest
    PROVE  QueueInv'
<1> DEFINE request == Head(wire)
           o == request.output
<1>1. wire # <<>> /\ wire' = Tail(wire) /\ UNCHANGED <<manager, caller, outgoing, broken, screens>>
  BY DEF TakeRequest
<1>2. Pending # <<>> /\ Pending[1] = request /\ Pending' = Tail(Pending)
  BY <1>1, PendingShrinks DEF TypeInv
<1>3. request \in Request /\ o \in Outputs /\ Pending \in Seq(Request) /\ 1 \in 1 .. Len(Pending)
  BY <1>2, PendingTypes, HeadTailProperties DEF TypeInv, Request
<1>4. \/ /\ request.kind = "Create"
         /\ surface' = [surface EXCEPT ![o].exists = o \in screens]
      \/ /\ request.kind = "Ack" /\ surface[o].exists
         /\ surface' = [surface EXCEPT ![o].acked = request.size]
      \/ /\ request.kind = "Frame" /\ surface[o].exists
         /\ surface' = [surface EXCEPT ![o].shown = request.frame]
      \/ request.kind # "Create" /\ surface' = surface
         /\ (request.kind = "Ack" => ~surface[o].exists)
  BY DEF TakeRequest
<1>5. \/ incoming' = incoming
      \/ incoming' = Append(incoming, [kind |-> "Closed", output |-> o])
  BY DEF TakeRequest
<1>6. \A p \in Outputs : Unconfigured(incoming, p) => Unconfigured(incoming', p)
  <2> DEFINE e == [kind |-> "Closed", output |-> o]
  <2>1. e \in Event /\ e.kind # "Configure"
    BY <1>3 DEF Event
  <2>2. incoming' = incoming \/ incoming' = Append(incoming, e)
    BY <1>5
  <2>3. incoming \in Seq(Event)
    BY DEF TypeInv, TypeOK
  <2> HIDE DEF e
  <2> QED
    BY <2>1, <2>2, <2>3, EventsKept
<1>7. size' = size /\ bound' = bound /\ batch' = batch /\ sweep' = sweep
  BY <1>1 DEF manager, caller
<1> HIDE DEF request, o
<1>8. \A p \in Outputs : surface[p].exists \in BOOLEAN
  BY DEF TypeInv, TypeOK
<1>9. \A p \in Outputs :
         /\ p # o => surface'[p] = surface[p]
         /\ request.kind # "Create" => surface'[p].exists = surface[p].exists
         /\ request.kind # "Ack" => surface'[p].acked = surface[p].acked
         /\ request.kind = "Ack" /\ surface[o].exists => surface'[o].acked = request.size
  <2> SUFFICES ASSUME NEW p \in Outputs
               PROVE  /\ p # o => surface'[p] = surface[p]
                      /\ request.kind # "Create" => surface'[p].exists = surface[p].exists
                      /\ request.kind # "Ack" => surface'[p].acked = surface[p].acked
                      /\ request.kind = "Ack" /\ surface[o].exists => surface'[o].acked = request.size
    OBVIOUS
  <2>1. surface \in [Outputs -> [exists : BOOLEAN, acked : Sizes \cup {0, None},
                                 shown : Frame \cup {None}]]
    BY DEF TypeInv, TypeOK
  <2>2. CASE request.kind = "Create"
    <3>1. surface' = [surface EXCEPT ![o].exists = o \in screens]
      BY <1>4, <2>2
    <3>2. (p # o => surface'[p] = surface[p]) /\ surface'[p].acked = surface[p].acked
      BY <1>3, <2>1, <3>1
    <3> QED
      BY <2>2, <3>2
  <2>3. CASE request.kind = "Ack"
    <3>1. CASE surface[o].exists
      <4>1. surface' = [surface EXCEPT ![o].acked = request.size]
        BY <1>4, <2>3, <3>1
      <4> QED
        BY <1>3, <2>1, <2>3, <4>1
    <3>2. CASE ~surface[o].exists
      <4>1. surface' = surface
        BY <1>4, <2>3, <3>2
      <4> QED
        BY <2>3, <3>2, <4>1
    <3> QED
      BY <3>1, <3>2
  <2>4. CASE request.kind \notin {"Create", "Ack"}
    <3>1. surface' = surface \/ surface' = [surface EXCEPT ![o].shown = request.frame]
      BY <1>4, <2>4
    <3> QED
      BY <1>3, <2>1, <2>4, <3>1
  <2> QED
    BY <2>2, <2>3, <2>4
<1>10. CreatesComeFirst'
  <2>1. \A p \in Fresh : p \in Fresh' \/ p = Pending[1].output
    BY <1>2, <1>6, <1>7, <1>9 DEF Fresh, o
  <2> QED
    BY <1>2, <1>3, <2>1, TakingKeepsCreates DEF QueueInv, CreatesComeFirst
<1>11. RequestsInOrder'
  <2>1. ASSUME NEW p \in Outputs
        PROVE  \/ ~surface'[p].exists
               \/ /\ surface[p].exists
                  /\ surface'[p].acked = IF 1 \in AcksOf(Pending, p) THEN Pending[1].size
                                         ELSE surface[p].acked
               \/ /\ size[p] = 0
                  /\ \A i \in 1 .. Len(Pending) : Pending[i].kind = "Frame" => Pending[i].output # p
    <3>1. 1 \in AcksOf(Pending, p) <=> request.kind = "Ack" /\ o = p
      BY <1>2, <1>3 DEF AcksOf, o
    <3>2. CASE request.kind = "Create" /\ p = o
      <4>1. /\ p \in Fresh
            /\ \A j \in 1 .. Len(Pending) : Pending[j].output = p => j = 1
        BY <1>2, <1>3, <3>2 DEF QueueInv, CreatesComeFirst, CreatesFirst, o
      <4> QED
        BY <1>2, <3>2, <4>1 DEF Fresh
    <3>3. CASE request.kind # "Create"
      BY <1>2, <1>9, <3>1, <3>3
    <3>4. CASE p # o
      BY <1>9, <3>1, <3>4
    <3> QED
      BY <3>2, <3>3, <3>4
  <2>2. Orderly(Tail(Pending), surface', size)
    BY <1>2, <1>3, <2>1, TakingIsOrderly DEF QueueInv, RequestsInOrder
  <2> QED
    BY <1>2, <1>7, <2>2 DEF RequestsInOrder
<1>12. Disconnected'
  BY <1>1, <1>7 DEF QueueInv, Disconnected
<1> QED
  BY <1>10, <1>11, <1>12 DEF QueueInv

(* Whatever leaves the queue, the surfaces, the sizes and the events as    *)
(* they are keeps the queue in order.                                      *)
LEMMA StutterKeepsQueue ==
    ASSUME QueueInv, Pending' = Pending, UNCHANGED <<surface, size, incoming>>
    PROVE  (CreatesComeFirst /\ RequestsInOrder)'
BY DEF QueueInv, CreatesComeFirst, RequestsInOrder, Fresh, Unconfigured

(* Every step keeps the requests and events of a connection in order.      *)
LEMMA QueueKept ==
    ASSUME TypeInv, QueueInv, [Next]_vars
    PROVE  QueueInv'
<1> USE DEF QueueInv
<1>1. CASE UNCHANGED vars
  <2>1. UNCHANGED <<bound, batch, sweep, size, outgoing, wire, incoming, surface>>
    BY <1>1 DEF vars, manager, caller, connection, compositor
  <2> QED
    BY <2>1, StutterKeepsQueue DEF Disconnected, Pending
<1>2. CASE Connect
  BY <1>2, ConnectStartsQueue
<1>3. ASSUME NEW n \in Names, NEW level \in Levels, SetBrightness(n, level)
     PROVE  QueueInv'
  <2>1. PICK o \in bound : Record(o, level)
    BY <1>3 DEF SetBrightness
  <2>2. /\ UNCHANGED <<caller, wire, incoming, broken, compositor>>
        /\ bound # {}
    BY <1>3 DEF SetBrightness, Idle
  <2>3. o \in Outputs /\ level \in 0 .. 100 /\ bound' = bound
    BY <2>1, LevelsAssumption DEF TypeInv, TypeOK, Record
  <2>4. (CreatesComeFirst /\ RequestsInOrder)'
    BY <2>1, <2>2, <2>3, RecordKeepsQueue DEF compositor
  <2> QED
    BY <2>2, <2>3, <2>4 DEF Disconnected
<1>4. ASSUME NEW level \in Levels, SetAllBegin(level)
     PROVE  QueueInv'
  <2>1. UNCHANGED <<manager, connection, compositor>> /\ bound # {}
    BY <1>4 DEF SetAllBegin, Idle
  <2> QED
    BY <2>1, StutterKeepsQueue
    DEF manager, connection, compositor, Disconnected, Pending
<1>5. CASE DispatchBegin
  <2>1. UNCHANGED <<manager, connection, compositor>> /\ bound # {}
    BY <1>5 DEF DispatchBegin, Idle
  <2> QED
    BY <2>1, StutterKeepsQueue
    DEF manager, connection, compositor, Disconnected, Pending
<1>6. CASE SetAllNext
  <2>1. sweep \in [level : 0 .. 100, rest : SUBSET Outputs] /\ bound # {}
    BY <1>6 DEF SetAllNext, Disconnected, TypeInv, TypeOK
  <2>2. PICK o \in sweep.rest : Record(o, sweep.level)
    BY <1>6 DEF SetAllNext
  <2>3. UNCHANGED <<batch, wire, incoming, broken, compositor>> /\ bound' = bound
    BY <1>6, <2>2 DEF SetAllNext, Record
  <2>4. (CreatesComeFirst /\ RequestsInOrder)'
    BY <2>1, <2>2, <2>3, RecordKeepsQueue DEF compositor
  <2> QED
    BY <2>1, <2>3, <2>4 DEF Disconnected
<1>7. CASE SetAllFails
  <2>1. UNCHANGED <<manager, connection, compositor>> /\ bound # {}
    BY <1>7 DEF SetAllFails, Disconnected
  <2> QED
    BY <2>1, StutterKeepsQueue
    DEF manager, connection, compositor, Disconnected, Pending
<1>8. CASE ConfigureEmpty
  <2> DEFINE r == AckRequest(Head(incoming))
  <2>1. NextEvent("Configure") /\ Head(incoming).size = 0
    BY <1>8 DEF ConfigureEmpty
  <2>2. UNCHANGED manager /\ outgoing' = Append(outgoing, r)
    BY <1>8 DEF ConfigureEmpty
  <2>3. UNCHANGED <<sweep, wire, broken, compositor>> /\ bound # {}
    BY <2>1, EventTypes DEF NextEvent, Disconnected
  <2>4. /\ r \in Request
        /\ CreatesFirst(Append(Pending, r), Fresh')
        /\ Orderly(Append(Pending, r), surface, size')
    BY <2>1, <2>2, AckKeepsQueue DEF manager
  <2> HIDE DEF r
  <2>5. Pending' = Append(Pending, r)
    BY <2>2, <2>3, <2>4, PendingGrows DEF TypeInv
  <2> QED
    BY <2>2, <2>3, <2>4, <2>5
    DEF manager, compositor, Disconnected, CreatesComeFirst, RequestsInOrder
<1>9. ASSUME NEW drawn \in BOOLEAN, Configure(drawn)
     PROVE  QueueInv'
  <2> DEFINE event == Head(incoming)
             r == AckRequest(event)
             frame == [size |-> event.size, level |-> brightness[event.output]]
             f == FrameRequest(event.output, frame)
  <2>1. NextEvent("Configure") /\ event.size # 0
    BY <1>9 DEF Configure
  <2>2. /\ size' = [size EXCEPT ![event.output] = event.size]
        /\ bound' = bound
        /\ IF drawn
           THEN Draw(event.output, frame, <<r>>)
           ELSE outgoing' = Append(outgoing, r)
    BY <1>9 DEF Configure
  <2>3. UNCHANGED <<sweep, wire, broken, compositor>> /\ bound # {}
    BY <2>1, EventTypes DEF NextEvent, Disconnected
  <2>4. /\ r \in Request
        /\ CreatesFirst(Append(Pending, r), Fresh')
        /\ Orderly(Append(Pending, r), surface, size')
    BY <2>1, <2>2, AckKeepsQueue
  <2>5. /\ event.output \in Outputs /\ event.size \in Sizes
        /\ r.output = event.output
    BY <2>1, EventTypes DEF AckRequest
  <2>6. f \in Request /\ f.kind = "Frame" /\ f.output = event.output /\ f.frame.size = event.size
    <3>1. frame \in Frame
      BY <2>5 DEF Frame, TypeInv, TypeOK
    <3> QED
      BY <2>5, <3>1, RequestTypes DEF FrameRequest
  <2>7. drawn => outgoing' = (outgoing \o <<r>>) \o <<f>>
    BY <2>2 DEF Draw
  <2>8. size'[event.output] = event.size
    BY <2>2, <2>5 DEF TypeInv, TypeOK
  <2>9. ~drawn => outgoing' = Append(outgoing, r)
    BY <2>2
  <2> HIDE DEF event, r, frame, f
  <2>10. CASE ~drawn
    <3>1. Pending' = Append(Pending, r)
      BY <2>3, <2>4, <2>9, <2>10, PendingGrows DEF TypeInv
    <3> QED
      BY <2>2, <2>3, <2>4, <3>1
      DEF compositor, Disconnected, CreatesComeFirst, RequestsInOrder
  <2>11. CASE drawn
    <3>1. /\ outgoing \in Seq(Request) /\ wire \in Seq(Request)
          /\ <<r>> \in Seq(Request) /\ <<f>> \in Seq(Request)
      BY <2>4, <2>6 DEF TypeInv, TypeOK
    <3>2. outgoing \o <<r>> \in Seq(Request)
      BY <3>1, ConcatProperties
    <3>3. wire \o ((outgoing \o <<r>>) \o <<f>>) = ((wire \o outgoing) \o <<r>>) \o <<f>>
      <4>1. wire \o ((outgoing \o <<r>>) \o <<f>>) = (wire \o (outgoing \o <<r>>)) \o <<f>>
        BY <3>1, <3>2, ConcatAssociative
      <4>2. wire \o (outgoing \o <<r>>) = (wire \o outgoing) \o <<r>>
        BY <3>1, ConcatAssociative
      <4> QED
        BY <4>1, <4>2
    <3>4. /\ Append(Pending, r) = Pending \o <<r>> /\ Append(Pending, r) \in Seq(Request)
          /\ Append(Append(Pending, r), f) = Append(Pending, r) \o <<f>>
      BY <2>4, <2>6, PendingTypes, AppendIsConcat, AppendProperties DEF TypeInv
    <3>5. Pending' = Append(Append(Pending, r), f)
      BY <2>3, <2>7, <2>11, <3>3, <3>4 DEF Pending
    <3>6. CreatesFirst(Append(Append(Pending, r), f), Fresh')
      <4>1. f.output \notin Fresh' /\ f.kind # "Create"
        BY <2>5, <2>6, <2>8 DEF Fresh, Sizes
      <4> QED
        BY <2>4, <2>6, <3>4, <4>1, AppendKeepsCreates
    <3>7. Orderly(Append(Append(Pending, r), f), surface, size')
      <4>1. size'[f.output] # 0 /\ f.frame.size = size'[f.output] /\ f.output \in Outputs
        BY <2>5, <2>6, <2>8 DEF Sizes
      <4> QED
        BY <2>4, <2>6, <3>4, <4>1, DrawingIsOrderly
    <3> QED
      BY <2>2, <2>3, <3>5, <3>6, <3>7
      DEF compositor, Disconnected, CreatesComeFirst, RequestsInOrder
  <2> QED
    BY <2>10, <2>11
<1>10. CASE LayerClosed
  <2>1. NextEvent("Closed")
    BY <1>10 DEF LayerClosed
  <2>2. /\ UNCHANGED <<bound, brightness, size, buffer, undrawn, outgoing>>
        /\ UNCHANGED <<sweep, wire, broken, compositor>>
        /\ incoming # <<>> /\ incoming' = Tail(incoming) /\ bound # {}
    BY <1>10, <2>1, EventTypes DEF LayerClosed, NextEvent, Disconnected
  <2>3. \A o \in Fresh : o \in Fresh'
    BY <2>2, EventsKept DEF Fresh, compositor, TypeInv, TypeOK
  <2>4. CreatesComeFirst'
    BY <2>2, <2>3 DEF CreatesComeFirst, CreatesFirst, Pending
  <2> QED
    BY <2>2, <2>4 DEF Disconnected, RequestsInOrder, Pending, compositor
<1>11. CASE DispatchEnd
  <2>1. /\ UNCHANGED <<manager, sweep, incoming, broken, compositor>>
        /\ wire' = wire \o outgoing /\ outgoing' = <<>> /\ batch # None
    BY <1>11, NoneAssumption DEF DispatchEnd
  <2>2. Pending' = Pending
    BY <2>1, PendingTypes, ConcatEmptySeq DEF Pending, TypeInv
  <2> QED
    BY <2>1, <2>2, StutterKeepsQueue DEF manager, compositor, Disconnected
<1>12. CASE DispatchFails
  BY <1>12, DropEndsQueue DEF DispatchFails
<1>13. CASE TakeRequest
  BY <1>13, TakeKeepsQueue
<1>14. ASSUME NEW o \in Outputs, NEW s \in Offered, SendConfigure(o, s)
     PROVE  QueueInv'
  <2> DEFINE e == [kind |-> "Configure", output |-> o, size |-> s]
  <2>1. e \in Event /\ e.output = o
    BY DEF Event, Sizes
  <2>2. /\ UNCHANGED <<manager, caller, outgoing, wire, broken, compositor>>
        /\ surface[o].exists /\ incoming' = Append(incoming, e)
    BY <1>14 DEF SendConfigure
  <2> HIDE DEF e
  <2>3. \A p \in Fresh : p \in Fresh'
    BY <2>1, <2>2, EventsKept DEF Fresh, compositor, manager, TypeInv, TypeOK
  <2>4. CreatesComeFirst'
    BY <2>2, <2>3 DEF CreatesComeFirst, CreatesFirst, Pending
  <2> QED
    BY <2>2, <2>4 DEF Disconnected, RequestsInOrder, Pending, compositor, manager
<1>15. ASSUME NEW o \in Outputs, RemoveScreen(o)
     PROVE  QueueInv'
  <2> DEFINE e == [kind |-> "Closed", output |-> o]
  <2>1. e \in Event /\ e.kind # "Configure"
    BY DEF Event
  <2>2. /\ UNCHANGED <<manager, caller, outgoing, wire, broken>>
        /\ surface' = [surface EXCEPT ![o] = NoSurface]
        /\ incoming' = IF surface[o].exists THEN Append(incoming, e) ELSE incoming
    BY <1>15 DEF RemoveScreen
  <2> HIDE DEF e
  <2>3. \A p \in Outputs : surface'[p] = surface[p] \/ ~surface'[p].exists
    BY <2>2 DEF NoSurface, TypeInv, TypeOK
  <2>4. \A p \in Outputs : Unconfigured(incoming, p) => Unconfigured(incoming', p)
    BY <2>1, <2>2, EventsKept DEF TypeInv, TypeOK
  <2>5. \A p \in Fresh : p \in Fresh'
    BY <2>2, <2>3, <2>4 DEF Fresh, manager
  <2>6. CreatesComeFirst'
    BY <2>2, <2>5 DEF CreatesComeFirst, CreatesFirst, Pending
  <2>7. RequestsInOrder'
    BY <2>2, <2>3, PendingTypes, RemovingIsOrderly
    DEF RequestsInOrder, Pending, manager, TypeInv
  <2>8. Disconnected'
    BY <2>2, <2>3 DEF Disconnected, manager, caller
  <2> QED
    BY <2>6, <2>7, <2>8
<1>16. ASSUME NEW o \in Outputs, AddScreen(o)
     PROVE  QueueInv'
  <2>1. UNCHANGED <<manager, caller, connection, surface>>
    BY <1>16 DEF AddScreen
  <2> QED
    BY <2>1, StutterKeepsQueue DEF manager, caller, connection, Disconnected, Pending
<1>17. CASE CompositorExits
  <2>1. /\ wire' = <<>> /\ surface' = [o \in Outputs |-> NoSurface]
        /\ incoming' = IF batch = None THEN <<>> ELSE SubSeq(incoming, 1, batch)
        /\ UNCHANGED <<manager, caller, outgoing>>
    BY <1>17 DEF CompositorExits
  <2>2. \A p \in Outputs : ~surface'[p].exists
    BY <2>1 DEF NoSurface
  <2>3. \A p \in Outputs : Unconfigured(incoming, p) => Unconfigured(incoming', p)
    <3>1. CASE batch = None
      BY <2>1, <3>1 DEF Unconfigured
    <3>2. CASE batch # None
      <4>1. batch \in 0 .. Len(incoming) /\ incoming \in Seq(Event)
        BY <3>2 DEF TypeInv, TypeOK, BatchHasArrived
      <4> QED
        BY <2>1, <3>2, <4>1, EventsKept
    <3> QED
      BY <3>1, <3>2
  <2>4. \A p \in Fresh : p \in Fresh'
    BY <2>1, <2>2, <2>3 DEF Fresh, manager
  <2>5. Pending' = outgoing
    BY <2>1, ConcatEmptySeq DEF Pending, TypeInv, TypeOK
  <2>6. CreatesComeFirst'
    BY <2>4, <2>5, LosingKeepsCreates DEF CreatesComeFirst, Pending, TypeInv, TypeOK
  <2>7. RequestsInOrder'
    BY <2>1, <2>2, <2>5, LosingIsOrderly
    DEF RequestsInOrder, Pending, manager, TypeInv, TypeOK
  <2>8. Disconnected'
    BY <2>1, <2>2 DEF Disconnected, manager, caller
  <2> QED
    BY <2>6, <2>7, <2>8
<1> QED
  BY <1>1, <1>2, <1>3, <1>4, <1>5, <1>6, <1>7, <1>8, <1>9, <1>10, <1>11, <1>12,
     <1>13, <1>14, <1>15, <1>16, <1>17
  DEF Next, Caller, Running, Environment

-----------------------------------------------------------------------------
(* Reports, frames and the closed flag                                     *)

(* Drawing or not, a recorded brightness agrees with the frame.            *)
LEMMA RecordKeepsReport ==
    ASSUME TypeInv, ReportMatchesFrame, NEW o \in Outputs, NEW level, Record(o, level)
    PROVE  ReportMatchesFrame'
<1>1. /\ brightness' = [brightness EXCEPT ![o] = level]
      /\ UNCHANGED <<bound, size>> /\ bound \subseteq Outputs
  BY DEF Record, TypeInv, TypeOK
<1>2. \/ size[o] = 0 /\ UNCHANGED <<buffer, undrawn>>
      \/ /\ buffer' = [buffer EXCEPT ![o] = [size |-> size[o], level |-> level]]
         /\ undrawn' = undrawn \ {o}
  BY DEF Record, Draw
<1> QED
  BY <1>1, <1>2 DEF ReportMatchesFrame, TypeInv, TypeOK

(* What is reported stays what is drawn, and the flag is raised only while *)
(* a dispatch is running.                                                  *)
LEMMA ReportKept ==
    ASSUME TypeInv, ReportMatchesFrame, ClosedNeverSurvivesDispatch, Disconnected,
           [Next]_vars
    PROVE  (ReportMatchesFrame /\ ClosedNeverSurvivesDispatch)'
<1>0. UNCHANGED manager /\ UNCHANGED caller =>
         (ReportMatchesFrame /\ ClosedNeverSurvivesDispatch)'
  BY DEF manager, caller, ReportMatchesFrame, ClosedNeverSurvivesDispatch
<1>1. CASE UNCHANGED vars
  BY <1>0, <1>1 DEF vars
<1>2. CASE Connect
  <2>1. \A o \in Outputs : size'[o] = 0
    BY <1>2 DEF Connect, FreshOutputs
  <2>2. closed' = FALSE /\ bound' \subseteq Outputs
    BY <1>2 DEF Connect, FreshOutputs, TypeInv, TypeOK
  <2> QED
    BY <2>1, <2>2 DEF ReportMatchesFrame, ClosedNeverSurvivesDispatch
<1>3. ASSUME NEW n \in Names, NEW level \in Levels, SetBrightness(n, level)
     PROVE  (ReportMatchesFrame /\ ClosedNeverSurvivesDispatch)'
  <2>1. PICK o \in bound : Record(o, level)
    BY <1>3 DEF SetBrightness
  <2>2. closed' = closed /\ batch' = batch /\ o \in Outputs
    BY <1>3, <2>1 DEF SetBrightness, Record, caller, TypeInv, TypeOK
  <2> QED
    BY <2>1, <2>2, RecordKeepsReport DEF ClosedNeverSurvivesDispatch
<1>4. ASSUME NEW level \in Levels, SetAllBegin(level)
     PROVE  (ReportMatchesFrame /\ ClosedNeverSurvivesDispatch)'
  BY <1>4 DEF SetAllBegin, manager, ReportMatchesFrame, ClosedNeverSurvivesDispatch
<1>5. CASE DispatchBegin
  <2>1. UNCHANGED manager /\ batch' # None
    BY <1>5, NoneAssumption DEF DispatchBegin, TypeInv, TypeOK
  <2> QED
    BY <2>1 DEF manager, ReportMatchesFrame, ClosedNeverSurvivesDispatch
<1>6. CASE SetAllNext
  <2>1. sweep \in [level : 0 .. 100, rest : SUBSET Outputs]
    BY <1>6 DEF SetAllNext, TypeInv, TypeOK
  <2>2. PICK o \in sweep.rest : Record(o, sweep.level)
    BY <1>6 DEF SetAllNext
  <2>3. closed' = closed /\ batch' = batch /\ o \in Outputs
    BY <1>6, <2>1, <2>2 DEF SetAllNext, Record
  <2> QED
    BY <2>2, <2>3, RecordKeepsReport DEF ClosedNeverSurvivesDispatch
<1>7. CASE SetAllFails
  BY <1>7 DEF SetAllFails, manager, ReportMatchesFrame, ClosedNeverSurvivesDispatch
<1>8. CASE ConfigureEmpty
  <2>1. NextEvent("Configure") /\ UNCHANGED manager
    BY <1>8 DEF ConfigureEmpty
  <2>2. batch' # None
    BY <2>1, EventTypes
  <2> QED
    BY <2>1, <2>2 DEF manager, ReportMatchesFrame, ClosedNeverSurvivesDispatch
<1>9. ASSUME NEW drawn \in BOOLEAN, Configure(drawn)
     PROVE  (ReportMatchesFrame /\ ClosedNeverSurvivesDispatch)'
  <2> DEFINE event == Head(incoming)
             o == event.output
  <2>1. NextEvent("Configure") /\ event.size # 0
    BY <1>9 DEF Configure
  <2>2. o \in Outputs /\ batch' # None
    BY <2>1, EventTypes
  <2>3. size' = [size EXCEPT ![o] = event.size] /\ UNCHANGED <<bound, brightness>>
    BY <1>9 DEF Configure
  <2>4. \/ undrawn' = undrawn \cup {o} /\ buffer' = buffer
        \/ /\ undrawn' = undrawn \ {o}
           /\ buffer' = [buffer EXCEPT ![o] = [size |-> event.size, level |-> brightness[o]]]
    BY <1>9 DEF Configure, Draw
  <2> HIDE DEF event, o
  <2> QED
    BY <2>2, <2>3, <2>4
    DEF ReportMatchesFrame, ClosedNeverSurvivesDispatch, TypeInv, TypeOK
<1>10. CASE LayerClosed
  <2>1. batch' # None
    BY <1>10, EventTypes DEF LayerClosed
  <2> QED
    BY <1>10, <2>1 DEF LayerClosed, ReportMatchesFrame, ClosedNeverSurvivesDispatch
<1>11. CASE DispatchEnd
  BY <1>11 DEF DispatchEnd, manager, ReportMatchesFrame, ClosedNeverSurvivesDispatch
<1>12. CASE DispatchFails
  BY <1>12
  DEF DispatchFails, Drop, FreshOutputs, ReportMatchesFrame, ClosedNeverSurvivesDispatch
<1>13. CASE TakeRequest
  BY <1>0, <1>13 DEF TakeRequest
<1>14. ASSUME NEW o \in Outputs, NEW s \in Offered, SendConfigure(o, s)
     PROVE  (ReportMatchesFrame /\ ClosedNeverSurvivesDispatch)'
  BY <1>0, <1>14 DEF SendConfigure
<1>15. ASSUME NEW o \in Outputs, RemoveScreen(o)
     PROVE  (ReportMatchesFrame /\ ClosedNeverSurvivesDispatch)'
  BY <1>0, <1>15 DEF RemoveScreen
<1>16. ASSUME NEW o \in Outputs, AddScreen(o)
     PROVE  (ReportMatchesFrame /\ ClosedNeverSurvivesDispatch)'
  BY <1>0, <1>16 DEF AddScreen
<1>17. CASE CompositorExits
  BY <1>0, <1>17 DEF CompositorExits
<1> QED
  BY <1>1, <1>2, <1>3, <1>4, <1>5, <1>6, <1>7, <1>8, <1>9, <1>10, <1>11, <1>12,
     <1>13, <1>14, <1>15, <1>16, <1>17
  DEF Next, Caller, Running, Environment

-----------------------------------------------------------------------------
(* The invariant                                                           *)

Inv ==
    /\ TypeInv /\ QueueInv
    /\ ReportMatchesFrame /\ ClosedNeverSurvivesDispatch

(* It holds before anything was connected.                                 *)
LEMMA Initially == Init => Inv
<1> SUFFICES ASSUME Init PROVE Inv
  OBVIOUS
<1>1. /\ bound = {} /\ closed = FALSE /\ batch = None /\ sweep = None /\ undrawn = {}
      /\ outgoing = <<>> /\ wire = <<>> /\ incoming = <<>>
      /\ broken = FALSE /\ screens \subseteq Outputs
      /\ brightness = [o \in Outputs |-> 100] /\ size = [o \in Outputs |-> 0]
      /\ buffer = [o \in Outputs |-> None] /\ surface = [o \in Outputs |-> NoSurface]
  BY DEF Init
<1>2. TypeInv
  <2>1. brightness \in [Outputs -> 0 .. 100] /\ size \in [Outputs -> Sizes \cup {0}]
    BY <1>1
  <2>2. buffer \in [Outputs -> Frame \cup {None}]
    BY <1>1
  <2>3. surface \in [Outputs -> [exists : BOOLEAN, acked : Sizes \cup {0, None},
                                 shown : Frame \cup {None}]]
    BY <1>1, FreshTypes
  <2>4. outgoing \in Seq(Request) /\ wire \in Seq(Request) /\ incoming \in Seq(Event)
    BY <1>1, EmptySeq
  <2>5. closed \in BOOLEAN /\ broken \in BOOLEAN
    BY <1>1
  <2> QED
    BY <1>1, <2>1, <2>2, <2>3, <2>4, <2>5 DEF TypeInv, TypeOK, BatchHasArrived
<1>3. \A o \in Outputs : size[o] = 0 /\ ~surface[o].exists
  BY <1>1 DEF NoSurface
<1>4. Len(Pending) = 0
  BY <1>1 DEF Pending
<1>5. QueueInv
  BY <1>1, <1>3, <1>4
  DEF QueueInv, Disconnected, CreatesComeFirst, CreatesFirst, RequestsInOrder, Orderly
<1> QED
  BY <1>1, <1>2, <1>5 DEF Inv, ReportMatchesFrame, ClosedNeverSurvivesDispatch

(* Every step keeps it.                                                    *)
LEMMA InvKept ==
    ASSUME Inv, [Next]_vars
    PROVE  Inv'
BY TypesKept, QueueKept, ReportKept DEF Inv, QueueInv

(***************************************************************************)
(* The strengthened invariant of the manager, its connection and the       *)
(* compositor holds in every reachable state.                              *)
(***************************************************************************)
THEOREM Invariance == Spec => []Inv
<1>1. Inv /\ [Next]_vars => Inv'
  BY InvKept
<1> QED
  BY <1>1, Initially, PTL DEF Spec

(***************************************************************************)
(* The state of the manager, its connection and the compositor is what     *)
(* TypeOK says, for every set of outputs, sizes and levels.                *)
(***************************************************************************)
THEOREM WaydarkTypes == Spec => []TypeOK
<1>1. Inv => TypeOK
  BY DEF Inv, TypeInv
<1> QED
  BY <1>1, Invariance, PTL

(***************************************************************************)
(* brightness() reports what was drawn last: ReportMatchesFrame            *)
(* (set_brightness_by_index and the Configure handler of waydark).         *)
(***************************************************************************)
THEOREM ReportsMatchFrames == Spec => []ReportMatchesFrame
<1>1. Inv => ReportMatchesFrame
  BY DEF Inv
<1> QED
  BY <1>1, Invariance, PTL

(***************************************************************************)
(* No call of the caller works on a manager whose overlay was closed:      *)
(* ClosedNeverSurvivesDispatch (the last check of dispatch).               *)
(***************************************************************************)
THEOREM ClosedEndsInDispatch == Spec => []ClosedNeverSurvivesDispatch
<1>1. Inv => ClosedNeverSurvivesDispatch
  BY DEF Inv
<1> QED
  BY <1>1, Invariance, PTL

(***************************************************************************)
(* The layer-shell rule holds of every frame the compositor takes:         *)
(* FramesFollowAcks, however many requests are buffered and on the wire.   *)
(***************************************************************************)
THEOREM FramesComeAfterAcks == Spec => []FramesFollowAcks
<1>1. Inv => FramesFollowAcks
  <2> SUFFICES ASSUME Inv, wire # <<>>, Head(wire).kind = "Frame",
                      surface[Head(wire).output].exists
               PROVE  surface[Head(wire).output].acked \in {0, Head(wire).frame.size}
    BY DEF FramesFollowAcks
  <2>1. Pending[1] = Head(wire) /\ 1 \in 1 .. Len(Pending)
    <3>1. /\ Len(wire) \in Nat /\ Len(wire) > 0 /\ Head(wire) = wire[1]
          /\ Len(outgoing) \in Nat /\ Len(Pending) = Len(wire) + Len(outgoing)
          /\ Pending[1] = wire[1]
      BY ConcatProperties DEF Inv, TypeInv, TypeOK, Pending
    <3> QED
      BY <3>1
  <2>2. Settled(Pending, 1, Head(wire).output, Head(wire).frame.size, surface)
    BY <2>1 DEF Inv, QueueInv, RequestsInOrder, Orderly
  <2>3. \A j \in AcksOf(Pending, Head(wire).output) : j >= 1
    BY DEF AcksOf
  <2> QED
    BY <2>2, <2>3 DEF Settled, AckedBefore
<1> QED
  BY <1>1, Invariance, PTL

-----------------------------------------------------------------------------
(* The interface OverlayManager offers                                     *)

(* A set of outputs has a first one.                                       *)
LEMMA FirstOutput ==
    ASSUME NEW some \in SUBSET Nat, some # {}
    PROVE  \E o \in some : \A p \in some : o <= p
<1>1. PICK o \in some : \A p \in some : <<p, o>> \notin OpToRel(<, Nat)
  <2>1. IsWellFoundedOn(OpToRel(<, Nat), Nat)
    BY NatLessThanWellFounded, Zenon
  <2> QED
    BY <2>1, WFMin, Zenon
<1>2. \A p \in some : ~ (p < o)
  BY <1>1 DEF OpToRel
<1> QED
  BY <1>2

(* o is the first of the outputs with that name.                           *)
FirstOf(outputs, o, n) ==
    /\ o \in outputs
    /\ NameOf[o] = n
    /\ \A p \in outputs : NameOf[p] = n => o <= p

(* What a name reports: nothing when no overlay has it, and the brightness *)
(* of the first overlay that has it otherwise.                             *)
Reported ==
    \A n \in Names :
        /\ (\A o \in bound : NameOf[o] # n) => software[n] = None
        /\ (\E o \in bound : NameOf[o] = n) => \E o \in bound : FirstOf(bound, o, n)
        /\ \A o \in bound : FirstOf(bound, o, n) => software[n] = brightness[o]

(* output_index finds the first overlay of a name, and brightness() reads  *)
(* that one.                                                               *)
LEMMA NamesReportTheirFirst == TypeOK => Reported
<1> SUFFICES ASSUME TypeOK, NEW n \in Names
             PROVE  /\ (\A o \in bound : NameOf[o] # n) => software[n] = None
                    /\ (\E o \in bound : NameOf[o] = n) => \E o \in bound : FirstOf(bound, o, n)
                    /\ \A o \in bound : FirstOf(bound, o, n) => software[n] = brightness[o]
  BY DEF Reported
<1> DEFINE named == {o \in bound : NameOf[o] = n}
           first == CHOOSE o \in bound : IsIndexOf(o, n)
<1>1. bound \subseteq Nat
  BY OutputsAssumption DEF TypeOK
<1>2. software[n] = IF \E o \in bound : NameOf[o] = n THEN brightness[first] ELSE None
  BY DEF software, IsIndexOf
<1>3. ASSUME NEW o \in bound, FirstOf(bound, o, n)
      PROVE  software[n] = brightness[o]
  <2>1. IsIndexOf(first, n) /\ first \in bound
    BY <1>3 DEF IsIndexOf, FirstOf
  <2> HIDE DEF first
  <2>2. first <= o /\ o <= first
    BY <1>3, <2>1 DEF IsIndexOf, FirstOf
  <2>3. first = o
    BY <1>1, <2>1, <2>2
  <2> QED
    BY <1>2, <1>3, <2>3 DEF FirstOf
<1>4. ASSUME NEW p \in bound, NameOf[p] = n
      PROVE  \E o \in bound : FirstOf(bound, o, n)
  <2>1. named \in SUBSET Nat /\ named # {}
    BY <1>1, <1>4
  <2>2. PICK o \in named : \A q \in named : o <= q
    BY <2>1, FirstOutput
  <2> QED
    BY <2>2 DEF FirstOf
<1> QED
  BY <1>2, <1>3, <1>4

(* Recording a brightness adjusts the name of the overlay, or nothing when *)
(* the overlay is not the first of its name.                               *)
LEMMA RecordAdjusts ==
    ASSUME TypeOK, Reported, Reported', NEW o \in Outputs, NEW level \in 0 .. 100,
           Record(o, level)
    PROVE  Dimming!Next \/ software' = software
<1> DEFINE n == NameOf[o]
<1>1. /\ bound' = bound /\ brightness' = [brightness EXCEPT ![o] = level]
      /\ brightness \in [Outputs -> 0 .. 100] /\ bound \subseteq Outputs /\ n \in Names
  BY NameOfAssumption DEF Record, TypeOK
<1>2. software \in [Names -> {software[m] : m \in Names}]
      /\ software' \in [Names -> {software'[m] : m \in Names}]
  BY DEF software, IsIndexOf
<1>3. ASSUME NEW m \in Names, ~ FirstOf(bound, o, m)
      PROVE  software'[m] = software[m]
  <2>1. CASE \A p \in bound : NameOf[p] # m
    BY <1>1, <2>1 DEF Reported
  <2>2. CASE \E p \in bound : NameOf[p] = m
    <3>1. PICK p \in bound : FirstOf(bound, p, m)
      BY <2>2 DEF Reported
    <3>2. p # o /\ brightness'[p] = brightness[p]
      BY <1>1, <1>3, <3>1
    <3>3. software[m] = brightness[p]
      BY <3>1 DEF Reported
    <3>4. software'[m] = brightness'[p]
      BY <1>1, <3>1 DEF Reported
    <3> QED
      BY <3>2, <3>3, <3>4
  <2> QED
    BY <2>1, <2>2
<1>4. CASE FirstOf(bound, o, n)
  <2>1. o \in bound /\ software[n] = brightness[o] /\ brightness[o] \in 0 .. 100
    BY <1>1, <1>4 DEF Reported, FirstOf
  <2>2. software'[n] = level
    BY <1>1, <1>4, <2>1 DEF Reported
  <2>3. \A m \in Names \ {n} : software'[m] = software[m]
    BY <1>3 DEF FirstOf
  <2>4. software' = [software EXCEPT ![n] = level]
    BY <1>2, <2>2, <2>3
  <2>5. n \in Dimming!Dimmed
    BY <1>1, <2>1, NoneAssumption DEF Dimming!Dimmed
  <2>6. software'[n] \in 0 .. 100 /\ Dimming!Adjust(n, software'[n])
    BY <2>2, <2>4, <2>5 DEF Dimming!Adjust
  <2> QED
    BY <2>5, <2>6 DEF Dimming!Next
<1>5. CASE ~ FirstOf(bound, o, n)
  <2>1. \A m \in Names : ~ FirstOf(bound, o, m)
    BY <1>5 DEF FirstOf
  <2>2. software' = software
    BY <1>2, <1>3, <2>1
  <2> QED
    BY <2>2
<1> QED
  BY <1>4, <1>5

(* Whatever leaves overlays and brightnesses alone is nothing to the       *)
(* interface.                                                              *)
LEMMA SoftwareKept ==
    ASSUME bound' = bound, brightness' = brightness
    PROVE  software' = software
BY DEF software, IsIndexOf

(* Dropping the manager loses every name.                                  *)
LEMMA DropLoses ==
    ASSUME Drop
    PROVE  Dimming!Next
<1>1. bound' = {}
  BY DEF Drop
<1>2. software' = [n \in Names |-> None]
  BY <1>1 DEF software, IsIndexOf
<1> QED
  BY <1>2 DEF Dimming!Next, Dimming!Lose

(* Connecting makes the names of the screens appear at full brightness.    *)
LEMMA ConnectAppears ==
    ASSUME TypeOK, Reported, Reported', Connect
    PROVE  Dimming!Next
<1>1. /\ bound = {} /\ screens # {} /\ screens \subseteq Outputs /\ bound' = screens
      /\ brightness' = [o \in Outputs |-> 100]
  BY DEF Connect, FreshOutputs, TypeOK
<1>2. Dimming!Dimmed = {}
  BY <1>1 DEF Dimming!Dimmed, software, IsIndexOf
<1>3. ASSUME NEW n \in Names
      PROVE  /\ (\E o \in screens : NameOf[o] = n) => software'[n] = 100
             /\ (\A o \in screens : NameOf[o] # n) => software'[n] = None
  BY <1>1 DEF Reported
<1>4. \A n \in Names : n \in (Dimming!Dimmed)' <=> \E o \in screens : NameOf[o] = n
  BY <1>3, NoneAssumption DEF Dimming!Dimmed
<1>5. (Dimming!Dimmed)' # {}
  BY <1>1, <1>4, NameOfAssumption
<1>6. software' = [n \in Names |-> IF n \in (Dimming!Dimmed)' THEN 100 ELSE None]
  <2>1. software' \in [Names -> {software'[m] : m \in Names}]
    BY DEF software, IsIndexOf
  <2> QED
    BY <1>3, <1>4, <2>1
<1> QED
  BY <1>2, <1>5, <1>6 DEF Dimming!Next, Dimming!Appear

(* Every step of the manager, its connection and the compositor is a step  *)
(* of the interface or nothing to it.                                      *)
LEMMA StepsDim ==
    ASSUME TypeOK, TypeOK', Reported, Reported', [Next]_vars
    PROVE  [Dimming!Next]_software
<1>1. CASE Connect
  BY <1>1, ConnectAppears
<1>2. ASSUME NEW n \in Names, NEW level \in Levels, SetBrightness(n, level)
      PROVE  [Dimming!Next]_software
  <2>1. PICK o \in bound : Record(o, level)
    BY <1>2 DEF SetBrightness
  <2>2. o \in Outputs /\ level \in 0 .. 100
    BY LevelsAssumption DEF TypeOK
  <2> QED
    BY <2>1, <2>2, RecordAdjusts
<1>3. CASE SetAllNext
  <2>1. sweep \in [level : 0 .. 100, rest : SUBSET Outputs]
    BY <1>3 DEF SetAllNext, TypeOK
  <2>2. PICK o \in sweep.rest : Record(o, sweep.level)
    BY <1>3 DEF SetAllNext
  <2> QED
    BY <2>1, <2>2, RecordAdjusts
<1>4. CASE DispatchFails
  BY <1>4, DropLoses DEF DispatchFails
<1>5. ASSUME bound' = bound, brightness' = brightness
      PROVE  [Dimming!Next]_software
  BY <1>5, SoftwareKept
<1>6. ASSUME NEW drawn \in BOOLEAN, Configure(drawn)
      PROVE  [Dimming!Next]_software
  BY <1>5, <1>6 DEF Configure
<1>7. CASE \/ \E level \in Levels : SetAllBegin(level)
          \/ SetAllFails \/ ConfigureEmpty \/ LayerClosed \/ DispatchEnd
          \/ DispatchBegin \/ TakeRequest
  BY <1>5, <1>7 DEF SetAllBegin, SetAllFails, ConfigureEmpty, LayerClosed, DispatchEnd,
     DispatchBegin, TakeRequest, manager
<1>8. CASE Environment
  BY <1>5, <1>8 DEF Environment, SendConfigure, RemoveScreen, AddScreen, CompositorExits, manager
<1>9. CASE UNCHANGED vars
  BY <1>5, <1>9 DEF vars, manager
<1> QED
  BY <1>1, <1>2, <1>3, <1>4, <1>6, <1>7, <1>8, <1>9 DEF Next, Caller, Running

(***************************************************************************)
(* Waydark implements SoftwareDimming: under the names of its overlays     *)
(* OverlayManager never reports anything but an appearance of all of them, *)
(* an adjustment of one or the loss of all (ImplementsSoftwareDimming),    *)
(* whichever events, failures and losses come in between and however many  *)
(* outputs share a name.                                                   *)
(***************************************************************************)
THEOREM WaydarkImplementsDimming == Spec => ImplementsSoftwareDimming
<1>1. Init => Dimming!Init
  BY DEF Init, Dimming!Init, software, IsIndexOf
<1>2. Inv => TypeOK /\ Reported
  BY NamesReportTheirFirst DEF Inv, TypeInv
<1>3. Inv /\ Inv' /\ [Next]_vars => [Dimming!Next]_software
  <2>1. Inv' => TypeOK' /\ Reported'
    BY <1>2, PTL
  <2> QED
    BY <1>2, <2>1, StepsDim
<1> QED
  BY <1>1, <1>3, Invariance, PTL DEF Spec, ImplementsSoftwareDimming, Dimming!Spec

-----------------------------------------------------------------------------
(* Under the daemon's thread                                               *)

IsFrameTo(r, o) == r.kind = "Frame" /\ r.output = o

(* The last frame of q to o has that level, or the one shown if q has none.*)
Latest(q, o, level, shown) ==
    /\ \A i \in 1 .. Len(q) :
          IsFrameTo(q[i], o) /\ (\A j \in 1 .. Len(q) : IsFrameTo(q[j], o) => j <= i) =>
              q[i].frame.level = level
    /\ (\A i \in 1 .. Len(q) : ~IsFrameTo(q[i], o)) => shown # None /\ shown.level = level

(* The frame an overlay drew last gets to its surface last.                *)
DrawnIsOnItsWay ==
    \A o \in bound \ undrawn :
        size[o] # 0 /\ surface[o].exists =>
            Latest(Pending, o, buffer[o].level, surface[o].shown)

(* What a name was told is recorded of the overlay that answers for it,    *)
(* and there is one, unless the overlays were lost since: then the one     *)
(* there may be is as connect made it.                                     *)
ToldIsRecorded ==
    /\ told \in [Names -> Levels \cup {None}]
    /\ \A n \in Names :
          told[n] # None =>
             /\ n \in lost \/ \E o \in bound : NameOf[o] = n
             /\ \A o \in bound :
                   FirstOf(bound, o, n) =>
                      brightness[o] = IF n \in lost THEN 100 ELSE told[n]

SystemInv == Inv /\ DrawnIsOnItsWay /\ ToldIsRecorded

-----------------------------------------------------------------------------
(* Frames in a queue                                                       *)

(* A request that is no frame of the output changes nothing.               *)
LEMMA AppendingOthers ==
    ASSUME NEW q \in Seq(Request), NEW r \in Request, NEW o, NEW level, NEW shown,
           Latest(q, o, level, shown), ~IsFrameTo(r, o)
    PROVE  Latest(Append(q, r), o, level, shown)
<1> DEFINE p == Append(q, r)
<1>1. /\ Len(q) \in Nat /\ Len(p) = Len(q) + 1
      /\ \A i \in 1 .. Len(q) : p[i] = q[i]
      /\ p[Len(q) + 1] = r
  BY AppendProperties
<1> HIDE DEF p
<1>2. \A i \in 1 .. Len(p) : IsFrameTo(p[i], o) => i \in 1 .. Len(q)
  BY <1>1
<1>3. ASSUME NEW i \in 1 .. Len(p), IsFrameTo(p[i], o),
             \A j \in 1 .. Len(p) : IsFrameTo(p[j], o) => j <= i
      PROVE  p[i].frame.level = level
  <2>1. i \in 1 .. Len(q) /\ IsFrameTo(q[i], o)
    BY <1>1, <1>2, <1>3
  <2>2. \A j \in 1 .. Len(q) : IsFrameTo(q[j], o) => j <= i
    BY <1>1, <1>3
  <2> QED
    BY <1>1, <2>1, <2>2 DEF Latest
<1>4. ASSUME \A i \in 1 .. Len(p) : ~IsFrameTo(p[i], o)
      PROVE  shown # None /\ shown.level = level
  <2>1. \A i \in 1 .. Len(q) : ~IsFrameTo(q[i], o)
    BY <1>1, <1>4
  <2> QED
    BY <2>1 DEF Latest
<1>5. Latest(p, o, level, shown)
  BY <1>3, <1>4 DEF Latest
<1> QED
  BY <1>5 DEF p

(* A frame of the output becomes its last.                                 *)
LEMMA AppendingFrame ==
    ASSUME NEW q \in Seq(Request), NEW r \in Request, NEW o, NEW shown, IsFrameTo(r, o)
    PROVE  Latest(Append(q, r), o, r.frame.level, shown)
<1> DEFINE p == Append(q, r)
<1>1. Len(q) \in Nat /\ Len(p) = Len(q) + 1 /\ p[Len(q) + 1] = r
  BY AppendProperties
<1> HIDE DEF p
<1>2. Len(p) \in 1 .. Len(p) /\ p[Len(p)] = r /\ IsFrameTo(p[Len(p)], o)
  BY <1>1
<1>3. \A i \in 1 .. Len(p) : Len(p) <= i => i = Len(p)
  BY <1>1
<1>4. Latest(p, o, r.frame.level, shown)
  BY <1>2, <1>3 DEF Latest
<1> QED
  BY <1>4 DEF p

(* Neither does taking another request from the front; taking a frame of   *)
(* the output shows it.                                                    *)
LEMMA TakingFirst ==
    ASSUME NEW q \in Seq(Request), q # <<>>, NEW o, NEW level, NEW shown, NEW next,
           Latest(q, o, level, shown),
           IF IsFrameTo(q[1], o) THEN next = q[1].frame /\ next # None ELSE next = shown
    PROVE  Latest(Tail(q), o, level, next)
<1> DEFINE p == Tail(q)
<1>1. /\ Len(q) \in Nat /\ Len(q) > 0 /\ Len(p) = Len(q) - 1
      /\ \A i \in 1 .. Len(p) : p[i] = q[i + 1]
  BY HeadTailProperties
<1> HIDE DEF p
<1>2. \A j \in 1 .. Len(q) : j = 1 \/ (j - 1 \in 1 .. Len(p) /\ q[j] = p[j - 1])
  <2> SUFFICES ASSUME NEW j \in 1 .. Len(q), j # 1
               PROVE  j - 1 \in 1 .. Len(p) /\ q[j] = p[j - 1]
    OBVIOUS
  <2>1. j - 1 \in 1 .. Len(p) /\ (j - 1) + 1 = j
    BY <1>1
  <2> QED
    BY <1>1, <2>1
<1>3. ASSUME NEW i \in 1 .. Len(p), IsFrameTo(p[i], o),
             \A j \in 1 .. Len(p) : IsFrameTo(p[j], o) => j <= i
      PROVE  p[i].frame.level = level
  <2>1. i + 1 \in 1 .. Len(q) /\ q[i + 1] = p[i]
    BY <1>1
  <2>2. ASSUME NEW j \in 1 .. Len(q), IsFrameTo(q[j], o)
        PROVE  j <= i + 1
    BY <1>2, <1>3, <2>2
  <2> QED
    BY <1>3, <2>1, <2>2 DEF Latest
<1>4. ASSUME \A i \in 1 .. Len(p) : ~IsFrameTo(p[i], o)
      PROVE  next # None /\ next.level = level
  <2>1. CASE IsFrameTo(q[1], o)
    <3>1. 1 \in 1 .. Len(q)
      BY <1>1
    <3>2. \A j \in 1 .. Len(q) : IsFrameTo(q[j], o) => j <= 1
      BY <1>2, <1>4
    <3>3. q[1].frame.level = level
      BY <2>1, <3>1, <3>2 DEF Latest
    <3> QED
      BY <2>1, <3>3
  <2>2. CASE ~IsFrameTo(q[1], o)
    <3>1. \A j \in 1 .. Len(q) : ~IsFrameTo(q[j], o)
      BY <1>2, <1>4, <2>2
    <3> QED
      BY <2>2, <3>1 DEF Latest
  <2> QED
    BY <2>1, <2>2
<1>5. Latest(p, o, level, next)
  BY <1>3, <1>4 DEF Latest
<1> QED
  BY <1>5 DEF p

-----------------------------------------------------------------------------
(* The steps of the overlays                                               *)

(* Recording a brightness draws it last, where there is a size.            *)
LEMMA RecordIsOnItsWay ==
    ASSUME TypeInv, DrawnIsOnItsWay, NEW o \in Outputs, NEW level \in 0 .. 100,
           Record(o, level), UNCHANGED <<wire, surface>>
    PROVE  DrawnIsOnItsWay'
<1>1. UNCHANGED <<bound, size>> /\ bound \subseteq Outputs
  BY DEF Record, TypeInv, TypeOK
<1>2. CASE size[o] = 0
  <2>1. UNCHANGED <<buffer, undrawn, outgoing>>
    BY <1>2 DEF Record
  <2> QED
    BY <1>1, <2>1 DEF DrawnIsOnItsWay, Pending
<1>3. CASE size[o] # 0
  <2> DEFINE frame == [size |-> size[o], level |-> level]
             r == FrameRequest(o, frame)
  <2>1. frame \in Frame
    BY <1>3 DEF Frame, TypeInv, TypeOK
  <2>2. r \in Request /\ r.kind = "Frame" /\ r.output = o /\ r.frame = frame
    BY <2>1, RequestTypes DEF FrameRequest
  <2>3. /\ outgoing' = outgoing \o <<>> \o <<r>>
        /\ buffer' = [buffer EXCEPT ![o] = frame] /\ undrawn' = undrawn \ {o}
    BY <1>3 DEF Record, Draw
  <2> HIDE DEF r, frame
  <2>4. outgoing' = Append(outgoing, r)
    BY <2>2, <2>3, ConcatEmptySeq, AppendIsConcat DEF TypeInv, TypeOK
  <2>5. Pending' = Append(Pending, r) /\ Pending \in Seq(Request)
    BY <2>2, <2>4, PendingGrows, PendingTypes DEF TypeInv
  <2>6. ASSUME NEW p \in bound' \ undrawn', size'[p] # 0, surface'[p].exists
        PROVE  Latest(Pending', p, buffer'[p].level, surface'[p].shown)
    <3>1. CASE p = o
      <4>1. buffer'[p] = r.frame /\ IsFrameTo(r, p)
        BY <2>2, <2>3, <3>1 DEF IsFrameTo, TypeInv, TypeOK
      <4> QED
        BY <2>2, <2>5, <4>1, AppendingFrame
    <3>2. CASE p # o
      <4>1. buffer'[p] = buffer[p] /\ ~IsFrameTo(r, p)
        BY <1>1, <2>2, <2>3, <2>6, <3>2 DEF IsFrameTo, TypeInv, TypeOK
      <4>2. Latest(Pending, p, buffer[p].level, surface[p].shown)
        BY <1>1, <2>3, <2>6, <3>2 DEF DrawnIsOnItsWay
      <4> QED
        BY <2>2, <2>5, <4>1, <4>2, AppendingOthers
    <3> QED
      BY <3>1, <3>2
  <2> QED
    BY <2>6 DEF DrawnIsOnItsWay
<1> QED
  BY <1>2, <1>3

(* An acknowledgement comes before the frame that follows it, if it could  *)
(* be drawn.                                                               *)
LEMMA ConfigureIsOnItsWay ==
    ASSUME TypeInv, DrawnIsOnItsWay, NEW drawn \in BOOLEAN, Configure(drawn)
    PROVE  DrawnIsOnItsWay'
<1> DEFINE event == Head(incoming)
           o == event.output
           a == AckRequest(event)
           frame == [size |-> event.size, level |-> brightness[o]]
           f == FrameRequest(o, frame)
<1>1. NextEvent("Configure") /\ event.size # 0
  BY DEF Configure
<1>2. o \in Outputs /\ event.size \in Sizes
  BY <1>1, EventTypes
<1>3. frame \in Frame
  BY <1>2 DEF Frame, TypeInv, TypeOK
<1>4. /\ a \in Request /\ f \in Request /\ a.kind = "Ack"
      /\ f.kind = "Frame" /\ f.output = o /\ f.frame = frame
  BY <1>1, <1>2, <1>3, EventTypes, RequestTypes DEF FrameRequest, AckRequest
<1>5. /\ UNCHANGED <<bound, wire, surface>>
      /\ size' = [size EXCEPT ![o] = event.size]
  BY <1>1 DEF Configure, NextEvent, compositor
<1>6. IF drawn
      THEN /\ outgoing' = outgoing \o <<a>> \o <<f>>
           /\ buffer' = [buffer EXCEPT ![o] = frame] /\ undrawn' = undrawn \ {o}
      ELSE /\ outgoing' = Append(outgoing, a)
           /\ buffer' = buffer /\ undrawn' = undrawn \cup {o}
  BY DEF Configure, Draw
<1> HIDE DEF event, o, a, frame, f
<1>7. /\ Append(Pending, a) \in Seq(Request)
      /\ \A p : Latest(Pending, p, buffer[p].level, surface[p].shown) =>
                   Latest(Append(Pending, a), p, buffer[p].level, surface[p].shown)
  <2>1. Pending \in Seq(Request) /\ \A p : ~IsFrameTo(a, p)
    BY <1>4, PendingTypes DEF TypeInv, IsFrameTo
  <2> QED
    BY <1>4, <2>1, AppendingOthers, AppendProperties
<1>8. CASE ~drawn
  <2>1. Pending' = Append(Pending, a)
    BY <1>4, <1>5, <1>6, <1>8, PendingGrows DEF TypeInv
  <2>2. ASSUME NEW p \in bound' \ undrawn', size'[p] # 0, surface'[p].exists
        PROVE  Latest(Pending', p, buffer'[p].level, surface'[p].shown)
    <3>1. p \in bound \ undrawn /\ size[p] # 0 /\ buffer' = buffer /\ surface[p].exists
      BY <1>5, <1>6, <1>8, <2>2 DEF TypeInv, TypeOK
    <3> QED
      BY <1>5, <1>7, <2>1, <3>1 DEF DrawnIsOnItsWay
  <2> QED
    BY <2>2 DEF DrawnIsOnItsWay
<1>9. CASE drawn
  <2>1. Pending' = Append(Append(Pending, a), f)
    <3>1. outgoing \in Seq(Request) /\ wire \in Seq(Request)
      BY DEF TypeInv, TypeOK
    <3>2. outgoing \o <<a>> = Append(outgoing, a) /\ Append(outgoing, a) \in Seq(Request)
      BY <1>4, <3>1, AppendIsConcat, AppendProperties
    <3>3. outgoing' = Append(Append(outgoing, a), f)
      BY <1>4, <1>6, <1>9, <3>2, AppendIsConcat
    <3>4. \A s \in Seq(Request), r \in Request : wire \o Append(s, r) = Append(wire \o s, r)
      <4> TAKE s \in Seq(Request), r \in Request
      <4>1. <<r>> \in Seq(Request) /\ wire \o s \in Seq(Request)
        BY <3>1, ConcatProperties
      <4>2. Append(s, r) = s \o <<r>> /\ Append(wire \o s, r) = (wire \o s) \o <<r>>
        BY <4>1, AppendIsConcat
      <4>3. wire \o (s \o <<r>>) = (wire \o s) \o <<r>>
        BY <3>1, <4>1, ConcatAssociative
      <4> QED
        BY <4>2, <4>3
    <3> QED
      BY <1>4, <1>5, <3>1, <3>2, <3>3, <3>4 DEF Pending
  <2>2. ASSUME NEW p \in bound' \ undrawn', size'[p] # 0, surface'[p].exists
        PROVE  Latest(Pending', p, buffer'[p].level, surface'[p].shown)
    <3>1. CASE p = o
      <4>1. buffer'[p] = f.frame /\ IsFrameTo(f, p)
        BY <1>2, <1>4, <1>6, <1>9, <3>1 DEF IsFrameTo, TypeInv, TypeOK
      <4> QED
        BY <1>4, <1>7, <2>1, <4>1, AppendingFrame
    <3>2. CASE p # o
      <4>1. buffer'[p] = buffer[p] /\ ~IsFrameTo(f, p) /\ surface' = surface
        BY <1>2, <1>4, <1>5, <1>6, <1>9, <2>2, <3>2 DEF IsFrameTo, TypeInv, TypeOK
      <4>2. p \in bound \ undrawn /\ size[p] # 0 /\ surface[p].exists
        BY <1>2, <1>5, <1>6, <1>9, <2>2, <3>2 DEF TypeInv, TypeOK
      <4>3. Latest(Append(Pending, a), p, buffer[p].level, surface[p].shown)
        BY <1>7, <4>2 DEF DrawnIsOnItsWay
      <4> QED
        BY <1>4, <1>7, <2>1, <4>1, <4>3, AppendingOthers
    <3> QED
      BY <3>1, <3>2
  <2> QED
    BY <2>2 DEF DrawnIsOnItsWay
<1> QED
  BY <1>8, <1>9

(* The compositor shows what it takes; a surface it creates is one of an   *)
(* overlay without a size.                                                 *)
LEMMA TakeIsOnItsWay ==
    ASSUME TypeInv, CreatesComeFirst, DrawnIsOnItsWay, TakeRequest
    PROVE  DrawnIsOnItsWay'
<1> DEFINE r == Head(wire)
           o == r.output
<1>1. wire # <<>> /\ wire' = Tail(wire) /\ UNCHANGED <<manager, outgoing>>
  BY DEF TakeRequest
<1>2. UNCHANGED <<bound, size, buffer, undrawn>> /\ bound \subseteq Outputs
  BY <1>1 DEF manager, TypeInv, TypeOK
<1>3. /\ Pending \in Seq(Request) /\ Pending # <<>> /\ Pending[1] = r
      /\ Pending' = Tail(Pending) /\ 1 \in 1 .. Len(Pending)
  BY <1>1, PendingShrinks, PendingTypes DEF TypeInv
<1>4. r \in Request
  BY <1>3, PendingTypes DEF TypeInv
<1>5. o \in Outputs /\ r.kind \in {"Create", "Ack", "Frame"} /\ (r.kind = "Frame" => r.frame \in Frame)
  BY <1>4 DEF Request
<1>6. \/ r.kind = "Create" /\ surface' = [surface EXCEPT ![o].exists = o \in screens]
      \/ r.kind = "Ack" /\ surface[o].exists /\ surface' = [surface EXCEPT ![o].acked = r.size]
      \/ r.kind = "Frame" /\ surface[o].exists /\ surface' = [surface EXCEPT ![o].shown = r.frame]
      \/ r.kind \in {"Ack", "Frame"} /\ ~surface[o].exists /\ surface' = surface
  BY <1>5 DEF TakeRequest
<1>7. r.kind = "Create" => size[o] = 0
  BY <1>3 DEF CreatesComeFirst, CreatesFirst, Fresh
<1> HIDE DEF r, o
<1>8. ASSUME NEW p \in bound' \ undrawn', size'[p] # 0, surface'[p].exists
      PROVE  Latest(Pending', p, buffer'[p].level, surface'[p].shown)
  <2>1. p \in bound \ undrawn /\ size[p] # 0 /\ buffer'[p] = buffer[p] /\ p \in Outputs
    BY <1>2, <1>8
  <2>2. /\ surface[p].exists
        /\ IF r.kind = "Frame" /\ o = p THEN surface'[p].shown = r.frame
                                        ELSE surface'[p].shown = surface[p].shown
    BY <1>5, <1>6, <1>7, <1>8, <2>1 DEF TypeInv, TypeOK
  <2>3. IsFrameTo(r, p) <=> r.kind = "Frame" /\ o = p
    BY DEF IsFrameTo, o
  <2>4. Latest(Pending, p, buffer[p].level, surface[p].shown)
    BY <2>1, <2>2 DEF DrawnIsOnItsWay
  <2>5. IsFrameTo(Pending[1], p) => surface'[p].shown = Pending[1].frame /\ surface'[p].shown # None
    BY <1>3, <1>5, <2>2, <2>3, NoneAssumption
  <2> QED
    BY <1>3, <2>1, <2>2, <2>3, <2>4, <2>5, TakingFirst
<1> QED
  BY <1>8 DEF DrawnIsOnItsWay

(* Every step of the overlays keeps what was drawn last on its way.        *)
LEMMA DrawnStaysOnItsWay ==
    ASSUME Inv, DrawnIsOnItsWay, [Next]_vars
    PROVE  DrawnIsOnItsWay'
<1>1. UNCHANGED <<bound, undrawn, size, buffer, surface>> /\ Pending' = Pending
         => DrawnIsOnItsWay'
  BY DEF DrawnIsOnItsWay
<1>2. TypeInv /\ CreatesComeFirst
  BY DEF Inv, QueueInv
<1>3. ASSUME NEW n \in Names, NEW level \in Levels, SetBrightness(n, level)
      PROVE  DrawnIsOnItsWay'
  <2>1. PICK o \in bound : Record(o, level)
    BY <1>3 DEF SetBrightness
  <2>2. o \in Outputs /\ level \in 0 .. 100 /\ UNCHANGED <<wire, surface>>
    BY <1>2, <1>3, LevelsAssumption DEF SetBrightness, TypeInv, TypeOK, compositor
  <2> QED
    BY <1>2, <2>1, <2>2, RecordIsOnItsWay
<1>4. CASE SetAllNext
  <2>1. sweep \in [level : 0 .. 100, rest : SUBSET Outputs]
    BY <1>2, <1>4 DEF SetAllNext, TypeInv, TypeOK
  <2>2. PICK o \in sweep.rest : Record(o, sweep.level)
    BY <1>4 DEF SetAllNext
  <2>3. UNCHANGED <<wire, surface>>
    BY <1>4 DEF SetAllNext, compositor
  <2> QED
    BY <1>2, <2>1, <2>2, <2>3, RecordIsOnItsWay
<1>5. CASE Connect \/ DispatchFails
  <2>1. \A o \in bound' : size'[o] = 0
    BY <1>2, <1>5 DEF Connect, DispatchFails, Drop, FreshOutputs, TypeInv, TypeOK
  <2> QED
    BY <2>1 DEF DrawnIsOnItsWay
<1>6. CASE ConfigureEmpty
  <2> DEFINE a == AckRequest(Head(incoming))
  <2>1. NextEvent("Configure") /\ UNCHANGED manager /\ outgoing' = Append(outgoing, a)
    BY <1>6 DEF ConfigureEmpty
  <2>2. UNCHANGED <<wire, surface>>
    BY <2>1 DEF NextEvent, compositor
  <2>3. a \in Request /\ a.kind = "Ack"
    BY <1>2, <2>1, EventTypes, RequestTypes DEF AckRequest
  <2> HIDE DEF a
  <2>4. Pending' = Append(Pending, a) /\ Pending \in Seq(Request)
    BY <1>2, <2>1, <2>2, <2>3, PendingGrows, PendingTypes DEF TypeInv
  <2>5. \A p : ~IsFrameTo(a, p)
    BY <2>3 DEF IsFrameTo
  <2> QED
    BY <2>1, <2>2, <2>3, <2>4, <2>5, AppendingOthers DEF manager, DrawnIsOnItsWay
<1>7. ASSUME NEW drawn \in BOOLEAN, Configure(drawn)
      PROVE  DrawnIsOnItsWay'
  BY <1>2, <1>7, ConfigureIsOnItsWay
<1>8. CASE TakeRequest
  BY <1>2, <1>8, TakeIsOnItsWay
<1>9. CASE DispatchEnd
  <2>1. /\ UNCHANGED <<manager, compositor>>
        /\ wire' = wire \o outgoing /\ outgoing' = <<>>
    BY <1>9 DEF DispatchEnd
  <2>2. Pending' = Pending
    BY <1>2, <2>1, PendingTypes, ConcatEmptySeq DEF Pending, TypeInv
  <2> QED
    BY <1>1, <2>1, <2>2 DEF manager, compositor
<1>10. CASE \/ \E level \in Levels : SetAllBegin(level)
           \/ SetAllFails \/ DispatchBegin \/ UNCHANGED vars
  <2>1. UNCHANGED <<manager, connection, compositor>>
    BY <1>10 DEF SetAllBegin, SetAllFails, DispatchBegin, vars
  <2> QED
    BY <1>1, <2>1 DEF manager, connection, compositor, Pending
<1>11. CASE LayerClosed
  BY <1>1, <1>11 DEF LayerClosed, NextEvent, compositor, Pending
<1>12. CASE \/ \E o \in Outputs, s \in Offered : SendConfigure(o, s)
            \/ \E o \in Outputs : AddScreen(o)
  BY <1>1, <1>12 DEF SendConfigure, AddScreen, manager, connection, compositor, Pending
<1>13. ASSUME NEW o \in Outputs, RemoveScreen(o)
       PROVE  DrawnIsOnItsWay'
  <2>1. /\ surface' = [surface EXCEPT ![o] = NoSurface]
        /\ UNCHANGED <<manager, outgoing, wire>>
    BY <1>13 DEF RemoveScreen
  <2>2. \A p \in Outputs : surface'[p].exists => surface'[p] = surface[p]
    BY <1>2, <2>1 DEF NoSurface, TypeInv, TypeOK
  <2>3. bound \subseteq Outputs
    BY <1>2 DEF TypeInv, TypeOK
  <2> QED
    BY <2>1, <2>2, <2>3 DEF manager, Pending, DrawnIsOnItsWay
<1>14. CASE CompositorExits
  <2>1. \A p \in Outputs : ~surface'[p].exists
    BY <1>14 DEF CompositorExits, NoSurface
  <2>2. bound' \subseteq Outputs
    BY <1>2, <1>14 DEF CompositorExits, manager, TypeInv, TypeOK
  <2> QED
    BY <2>1, <2>2 DEF DrawnIsOnItsWay
<1> QED
  BY <1>3, <1>4, <1>5, <1>6, <1>7, <1>8, <1>9, <1>10, <1>11, <1>12, <1>13, <1>14
  DEF Next, Caller, Running, Environment

-----------------------------------------------------------------------------
(* The thread                                                              *)

(* To the overlays the daemon's thread is a caller like any other.         *)
LEMMA ThreadIsACaller ==
    ASSUME [NextSystem]_all
    PROVE  [Next]_vars
<1>1. CASE UNCHANGED all
  BY <1>1 DEF all
<1>2. CASE Daemon
  BY <1>2
  DEF Daemon, Dispatching, BeginDispatch, HandleEvent, EndDispatch, LoseOverlays, Reconnect,
      ServeSet, ServeOther, NobodyWaits, Next, Caller, Running
<1>3. CASE Arrive \/ ((TakeRequest \/ Environment) /\ UNCHANGED thread)
  BY <1>3 DEF Arrive, Next
<1> QED
  BY <1>1, <1>2, <1>3 DEF NextSystem

(* What is recorded under a name changes only by a SET that tells it and   *)
(* by losing the overlays, which leaves every name that was told lost.     *)
LEMMA ToldStaysRecorded ==
    ASSUME Inv, Reported, ToldIsRecorded, [NextSystem]_all
    PROVE  ToldIsRecorded'
<1>1. UNCHANGED <<bound, brightness, told, lost>> => ToldIsRecorded'
  BY DEF ToldIsRecorded, FirstOf
<1>2. ASSUME NEW n \in Names, NEW level \in Levels, ServeSet(n, level)
      PROVE  ToldIsRecorded'
  <2>1. told' = [told EXCEPT ![n] = level] /\ lost' = lost \ {n} /\ software[n] # None
    BY <1>2 DEF ServeSet
  <2>2. told' \in [Names -> Levels \cup {None}]
    BY <2>1 DEF ToldIsRecorded
  <2>3. PICK o \in bound : NameOf[o] = n
    BY <2>1 DEF Reported
  <2>4. PICK first \in bound : FirstOf(bound, first, n)
    BY <2>3 DEF Reported
  <2>5. ASSUME NEW m \in Names, told'[m] # None
        PROVE  m \in lost' \/ \E p \in bound : NameOf[p] = m
    BY <2>1, <2>3, <2>5 DEF ToldIsRecorded
  <2>6. \A p \in bound : FirstOf(bound, p, n) => p = first
    <3>1. bound \subseteq Nat
      BY OutputsAssumption DEF Inv, TypeInv, TypeOK
    <3>2. \A p \in bound : FirstOf(bound, p, n) => p <= first /\ first <= p
      BY <2>4 DEF FirstOf
    <3> QED
      BY <3>1, <3>2
  <2>7. CASE software[n] = level
    <3>1. UNCHANGED <<bound, brightness>>
      BY <1>2, <2>7 DEF ServeSet, vars, manager
    <3>2. brightness[first] = level
      BY <2>4, <2>7 DEF Reported
    <3>3. ASSUME NEW m \in Names, NEW p \in bound, told'[m] # None, FirstOf(bound, p, m)
          PROVE  brightness'[p] = IF m \in lost' THEN 100 ELSE told'[m]
      <4>1. CASE m = n
        BY <2>1, <2>6, <3>1, <3>2, <3>3, <4>1 DEF ToldIsRecorded
      <4>2. CASE m # n
        BY <2>1, <3>1, <3>3, <4>2 DEF ToldIsRecorded
      <4> QED
        BY <4>1, <4>2
    <3> QED
      BY <2>2, <2>5, <3>1, <3>3 DEF ToldIsRecorded, FirstOf
  <2>8. CASE software[n] # level
    <3>1. PICK o2 \in bound : IsIndexOf(o2, n) /\ Record(o2, level)
      BY <1>2, <2>8 DEF ServeSet, SetBrightness
    <3>2. o2 = first
      BY <2>6, <3>1 DEF IsIndexOf, FirstOf
    <3>3. bound' = bound /\ brightness' = [brightness EXCEPT ![first] = level] /\ first \in Outputs
      BY <3>1, <3>2 DEF Record, Inv, TypeInv, TypeOK
    <3>4. ASSUME NEW m \in Names, NEW p \in bound, told'[m] # None, FirstOf(bound, p, m)
          PROVE  brightness'[p] = IF m \in lost' THEN 100 ELSE told'[m]
      <4>1. CASE m = n
        BY <2>1, <2>6, <3>3, <3>4, <4>1 DEF ToldIsRecorded, Inv, TypeInv, TypeOK
      <4>2. CASE m # n
        <5>1. p # first
          BY <2>4, <3>4, <4>2 DEF FirstOf
        <5> QED
          BY <2>1, <3>3, <3>4, <4>2, <5>1 DEF ToldIsRecorded, Inv, TypeInv, TypeOK
      <4> QED
        BY <4>1, <4>2
    <3> QED
      BY <2>2, <2>5, <3>3, <3>4 DEF ToldIsRecorded, FirstOf
  <2> QED
    BY <2>7, <2>8
<1>3. CASE LoseOverlays
  <2>1. bound' = {} /\ told' = told /\ lost' = {n \in Names : told[n] # None}
    BY <1>3 DEF LoseOverlays, DispatchFails, Drop
  <2> QED
    BY <2>1 DEF ToldIsRecorded
<1>4. ASSUME Connect, told' = told, lost' = lost
      PROVE  ToldIsRecorded'
  <2>1. \A n \in Names : told[n] # None => n \in lost
    BY <1>4 DEF Connect, ToldIsRecorded
  <2>2. \A o \in Outputs : brightness'[o] = 100
    BY <1>4 DEF Connect, FreshOutputs
  <2>3. bound' \subseteq Outputs
    BY <1>4 DEF Connect, Inv, TypeInv, TypeOK
  <2> QED
    BY <1>4, <2>1, <2>2, <2>3 DEF ToldIsRecorded
<1>5. CASE Reconnect
  BY <1>1, <1>4, <1>5 DEF Reconnect, vars, manager
<1>6. CASE ServeOther
  BY <1>1, <1>4, <1>6 DEF ServeOther, vars, manager
<1>7. CASE BeginDispatch \/ EndDispatch \/ NobodyWaits \/ Arrive \/ UNCHANGED all
  BY <1>1, <1>7
  DEF BeginDispatch, DispatchBegin, EndDispatch, DispatchEnd, NobodyWaits, Arrive, all, vars,
      thread, manager
<1>8. CASE HandleEvent
  BY <1>1, <1>8 DEF HandleEvent, ConfigureEmpty, Configure, LayerClosed, thread, manager
<1>9. CASE (TakeRequest \/ Environment) /\ UNCHANGED thread
  BY <1>1, <1>9
  DEF TakeRequest, Environment, SendConfigure, RemoveScreen, AddScreen, CompositorExits,
      thread, manager
<1> QED
  BY <1>2, <1>3, <1>5, <1>6, <1>7, <1>8, <1>9 DEF NextSystem, Daemon, Dispatching

(***************************************************************************)
(* Overlays, connection, compositor and thread keep their invariant        *)
(* together.                                                               *)
(***************************************************************************)
THEOREM SystemInvariance == SystemSpec => []SystemInv
<1>1. InitSystem => SystemInv
  <2> SUFFICES ASSUME InitSystem PROVE SystemInv
    OBVIOUS
  <2>1. Inv
    BY Initially DEF InitSystem
  <2>2. bound = {} /\ told = NobodyTold /\ lost = {}
    BY DEF InitSystem, Init
  <2> QED
    BY <2>1, <2>2 DEF SystemInv, DrawnIsOnItsWay, ToldIsRecorded, NobodyTold
<1>2. SystemInv /\ [NextSystem]_all => SystemInv'
  <2> SUFFICES ASSUME SystemInv, [NextSystem]_all PROVE SystemInv'
    OBVIOUS
  <2>1. [Next]_vars /\ Inv /\ TypeOK
    BY ThreadIsACaller DEF SystemInv, Inv, TypeInv
  <2>2. Inv' /\ DrawnIsOnItsWay'
    BY <2>1, InvKept, DrawnStaysOnItsWay DEF SystemInv
  <2>3. ToldIsRecorded'
    BY <2>1, NamesReportTheirFirst, ToldStaysRecorded DEF SystemInv
  <2> QED
    BY <2>2, <2>3 DEF SystemInv
<1> QED
  BY <1>1, <1>2, PTL DEF SystemSpec

(***************************************************************************)
(* OkIsOnItsWay: what a client was told OK about is reported and is, of    *)
(* the overlay it means, the level of the last frame on its way to the     *)
(* screen, unless the manager was lost with it, and then the name reports  *)
(* nothing or 100 until it is set again: for every set of outputs, however *)
(* many of them share a name, and any number of requests, frames and       *)
(* configures under way.                                                   *)
(***************************************************************************)
THEOREM OksAreOnTheirWay == SystemSpec => []OkIsOnItsWay
<1>1. SystemInv => OkIsOnItsWay
  <2> SUFFICES ASSUME SystemInv, NEW n \in Names, told[n] # None
               PROVE  IF n \in lost THEN software[n] \in {None, 100}
                      ELSE /\ software[n] = told[n]
                           /\ \A o \in bound \ undrawn :
                                 IsIndexOf(o, n) /\ size[o] # 0 /\ surface[o].exists =>
                                     LastFrameHas(o, told[n])
    BY DEF OkIsOnItsWay
  <2>1. Reported
    BY NamesReportTheirFirst DEF SystemInv, Inv, TypeInv
  <2>2. \A o \in bound : FirstOf(bound, o, n) =>
           brightness[o] = IF n \in lost THEN 100 ELSE told[n]
    BY DEF SystemInv, ToldIsRecorded
  <2>3. CASE n \in lost
    <3>1. software[n] \in {None, 100}
      BY <2>1, <2>2, <2>3 DEF Reported
    <3> QED
      BY <2>3, <3>1
  <2>4. CASE n \notin lost
    <3>1. software[n] = told[n]
      <4>1. \E o \in bound : NameOf[o] = n
        BY <2>4 DEF SystemInv, ToldIsRecorded
      <4> QED
        BY <2>1, <2>2, <2>4, <4>1 DEF Reported
    <3>2. ASSUME NEW o \in bound \ undrawn, IsIndexOf(o, n), size[o] # 0, surface[o].exists
          PROVE  LastFrameHas(o, told[n])
      <4>1. brightness[o] = told[n]
        BY <2>2, <2>4, <3>2 DEF IsIndexOf, FirstOf
      <4>2. buffer[o].level = told[n]
        <5>1. buffer[o] = [size |-> size[o], level |-> brightness[o]]
          BY <3>2 DEF SystemInv, Inv, ReportMatchesFrame
        <5> QED
          BY <4>1, <5>1
      <4>3. Latest(Pending, o, told[n], surface[o].shown)
        BY <3>2, <4>2 DEF SystemInv, DrawnIsOnItsWay
      <4>4. InFlight = Pending /\ DOMAIN InFlight = 1 .. Len(Pending)
        BY PendingTypes DEF InFlight, Pending, SystemInv, Inv, TypeInv
      <4> QED
        BY <4>3, <4>4 DEF LastFrameHas, FramesTo, Latest, IsFrameTo
    <3> QED
      BY <2>4, <3>1, <3>2
  <2> QED
    BY <2>3, <2>4
<1> QED
  BY <1>1, SystemInvariance, PTL

=============================================================================
