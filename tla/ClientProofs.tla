----------------------------- MODULE ClientProofs -----------------------------
(***************************************************************************)
(* Theorems about Client.tla, for every set of programs, everything users  *)
(* may ask and every answer of wayfocus: the types, and that the calls     *)
(* keep the promise of RemoteCall.tla.                                     *)
(***************************************************************************)
EXTENDS Client, SequenceTheorems, TLAPS

-----------------------------------------------------------------------------
(* Requests and their words                                                *)

(* The commands there are.                                                 *)
LEMMA Commands == DOMAIN Arity = {"LIST", "GET", "SET", "REFRESH"}
BY DEF Arity

(* Whatever wayfocus answers, a request has as many arguments as its       *)
(* command takes.                                                          *)
LEMMA RequestsFit ==
    \A request \in Requests : request \in Request /\ Len(request.args) = Arity[request.command]
<1> SUFFICES ASSUME NEW ask \in Asked, NEW request \in Resolved(ask)
             PROVE  request \in Request /\ Len(request.args) = Arity[request.command]
  BY DEF Requests
<1>1. ask \in Request /\ Len(ask.args) = Arity[ask.command]
  BY AskedAssumption
<1>2. CASE ask.args = <<>>
  BY <1>1, <1>2 DEF Resolved
<1>3. CASE ask.args # <<>>
  <2>1. PICK s \in resolve_selector(ask.args[1]) : request = [ask EXCEPT !.args[1] = s]
    BY <1>3 DEF Resolved
  <2>2. ask.args \in Seq(Seq(Word)) /\ 1 \in 1 .. Len(ask.args)
    BY <1>1, <1>3, EmptySeq DEF Request
  <2>3. s \in Seq(Word)
    <3>1. ask.args[1] \in Seq(Word)
      BY <2>2
    <3>2. Outputs \subseteq Seq(Word) /\ <<>> \in Seq(Word)
      BY AskedAssumption, EmptySeq, Zenon
    <3> QED
      BY <2>1, <3>1, <3>2 DEF resolve_selector
  <2>4. request.command = ask.command /\ request.args = [ask.args EXCEPT ![1] = s]
    BY <1>1, <2>1 DEF Request
  <2>5. request.args \in Seq(Seq(Word)) /\ Len(request.args) = Len(ask.args)
    BY <2>2, <2>3, <2>4
  <2>6. request = [command |-> request.command, args |-> request.args]
    BY <1>1, <2>1 DEF Request
  <2> QED
    BY <1>1, <2>4, <2>5, <2>6 DEF Request
<1> QED
  BY <1>2, <1>3

(* A short sequence is the tuple of its elements.                          *)
LEMMA ShortSequences ==
    ASSUME NEW S, NEW s \in Seq(S)
    PROVE  /\ Len(s) = 2 => s = <<s[1], s[2]>>
           /\ Len(s) = 3 => s = <<s[1], s[2], s[3]>>
OBVIOUS

(* A word or two after a command.                                          *)
LEMMA MoreWords ==
    ASSUME NEW a, NEW b, NEW c
    PROVE  <<a>> \o <<b>> = <<a, b>> /\ <<a>> \o <<b>> \o <<c>> = <<a, b, c>>
<1> DEFINE S == {a, b, c}
<1>1. <<a>> \in Seq(S) /\ <<b>> \in Seq(S) /\ <<c>> \in Seq(S) /\ <<a, b>> \in Seq(S)
  OBVIOUS
<1>2. <<a>> \o <<b>> = <<a, b>>
  <2> DEFINE w == <<a>> \o <<b>>
  <2>1. w \in Seq(S) /\ Len(w) = 2 /\ w[1] = a /\ w[2] = b
    BY <1>1, ConcatProperties
  <2> HIDE DEF S, w
  <2>2. w = <<a, b>>
    BY <2>1, ShortSequences
  <2> QED
    BY <2>2 DEF w
<1>3. <<a, b>> \o <<c>> = <<a, b, c>>
  <2> DEFINE w == <<a, b>> \o <<c>>
  <2>1. w \in Seq(S) /\ Len(w) = 3 /\ w[1] = a /\ w[2] = b /\ w[3] = c
    BY <1>1, ConcatProperties
  <2> HIDE DEF S, w
  <2>2. w = <<a, b, c>>
    BY <2>1, ShortSequences
  <2> QED
    BY <2>2 DEF w
<1> QED
  BY <1>2, <1>3

(* What the client accepts, the daemon reads back as it was asked: no      *)
(* argument is lost, split or moved.                                       *)
LEMMA WordsComeBack ==
    ASSUME NEW request \in Requests, Sound(request)
    PROVE  /\ Words(request) \in Seq(Word \cup DOMAIN Arity)
           /\ parse_request(Words(request)) = request
<1> DEFINE args == request.args
           All == Word \cup DOMAIN Arity
<1>1. /\ request \in Request /\ Len(args) = Arity[request.command]
      /\ args \in Seq(Seq(Word)) /\ request.command \in {"LIST", "GET", "SET", "REFRESH"}
      /\ request = [command |-> request.command, args |-> args]
  BY RequestsFit, Commands DEF Request
<1>2. \A i \in 1 .. Len(args) : args[i] \in Seq(Word) /\ args[i] = <<args[i][1]>> /\ args[i][1] \in Word
  <2> SUFFICES ASSUME NEW i \in 1 .. Len(args)
               PROVE  args[i] \in Seq(Word) /\ args[i] = <<args[i][1]>> /\ args[i][1] \in Word
    OBVIOUS
  <2>1. args[i] \in Seq(Word) /\ Len(args[i]) = 1
    BY <1>1 DEF Sound, validate_argument
  <2> QED
    BY <2>1
<1>3. CASE request.command \in {"LIST", "REFRESH"}
  <2>1. args = <<>>
    BY <1>1, <1>3, EmptySeq DEF Arity
  <2>2. Words(request) = <<request.command>>
    BY <1>3 DEF Words
  <2>3. [i \in 1 .. Len(<<request.command>>) - 1 |-> <<<<request.command>>[i + 1]>>] = <<>>
    OBVIOUS
  <2>4. parse_request(<<request.command>>) = [command |-> request.command, args |-> <<>>]
    BY <1>3, <2>3, Commands DEF parse_request, Arity
  <2> QED
    BY <1>1, <2>1, <2>2, <2>4, Commands
<1>4. CASE request.command = "GET"
  <2>1. Len(args) = 1
    BY <1>1, <1>4 DEF Arity
  <2> DEFINE a == args[1][1]
             w == <<"GET", a>>
  <2>2. args[1] = <<a>> /\ args = <<<<a>>>> /\ a \in Word
    <3>1. args[1] = <<a>> /\ a \in Word
      BY <1>2, <2>1
    <3> QED
      BY <1>1, <2>1, <3>1
  <2>3. Words(request) = w
    <3>1. Words(request) = <<"GET">> \o args[1]
      BY <1>4 DEF Words
    <3>2. <<"GET">> \o <<a>> = w
      BY MoreWords
    <3> QED
      BY <2>2, <3>1, <3>2
  <2>4. [i \in 1 .. Len(w) - 1 |-> <<w[i + 1]>>] = <<<<a>>>>
    OBVIOUS
  <2>5. parse_request(w) = [command |-> "GET", args |-> <<<<a>>>>]
    BY <2>4, Commands DEF parse_request, Arity
  <2> QED
    BY <1>1, <1>4, <2>2, <2>3, <2>5, Commands
<1>5. CASE request.command = "SET"
  <2>1. Len(args) = 2
    BY <1>1, <1>5 DEF Arity
  <2> DEFINE a == args[1][1]
             b == args[2][1]
             w == <<"SET", a, b>>
  <2>2. /\ args[1] = <<a>> /\ a \in Word
        /\ args[2] = <<b>> /\ b \in Word
        /\ args = <<<<a>>, <<b>>>>
    <3>1. args[1] = <<a>> /\ a \in Word
      BY <1>2, <2>1
    <3>2. args[2] = <<b>> /\ b \in Word
      BY <1>2, <2>1
    <3> HIDE DEF a, b
    <3>3. args = <<args[1], args[2]>>
      <4> HIDE DEF args
      <4> QED
        BY <1>1, <2>1, ShortSequences
    <3> QED
      BY <3>1, <3>2, <3>3
  <2>3. Words(request) = w
    <3>1. Words(request) = <<"SET">> \o args[1] \o args[2]
      BY <1>5 DEF Words
    <3>2. <<"SET">> \o <<a>> \o <<b>> = w
      BY MoreWords
    <3> QED
      BY <2>2, <3>1, <3>2
  <2>4. [i \in 1 .. Len(w) - 1 |-> <<w[i + 1]>>] = <<<<a>>, <<b>>>>
    OBVIOUS
  <2>5. parse_request(w) = [command |-> "SET", args |-> <<<<a>>, <<b>>>>]
    BY <2>4, Commands DEF parse_request, Arity
  <2> QED
    <3>1. w \in Seq(Word \cup DOMAIN Arity)
      BY <2>2, Commands
    <3> QED
      BY <1>1, <1>5, <2>2, <2>3, <2>5, <3>1
<1> QED
  BY <1>1, <1>3, <1>4, <1>5

-----------------------------------------------------------------------------
(* The inductive invariant                                                 *)

Connected == {"write", "shut", "read", "gone"}

Shape ==
    /\ pc \in [Clients -> {"idle", "call"} \cup Connected]
    /\ asked \in [Clients -> Requests \cup {None}]
    /\ result \in [Clients -> {"Ok", "Err", None}]
    /\ words \in [Clients -> Seq(Word \cup DOMAIN Arity) \cup {None}]
    /\ shut \in [Clients -> BOOLEAN]
    /\ answer \in [Clients -> {"OK", "ERR", None}]
    /\ end \in [Clients -> {"open", "eof", "reset"}]
    /\ done \in [Clients -> Requests \cup {None}]
    /\ activated \in BOOLEAN /\ backlog \in Seq(Clients)
    /\ at \in {"down", "accept", "read", "write"}
    /\ serving \in Clients \cup {None} /\ reply \in {"OK", "ERR", None}

InLine(c, line) == \E i \in 1 .. Len(line) : line[i] = c

(* An open connection is served or waits, in one place, and its program    *)
(* has not returned from the call that opened it.                          *)
Open ==
    /\ \A c \in Clients : end[c] = "open" <=> c = serving \/ InLine(c, backlog)
    /\ ~InLine(serving, backlog)
    /\ \A i, j \in 1 .. Len(backlog) : backlog[i] = backlog[j] => i = j
    /\ \A c \in Clients : end[c] = "open" => pc[c] \in Connected
    /\ at \in {"read", "write"} <=> serving \in Clients
    /\ at = "write" <=> reply # None

(* The daemon can still act for c's call, and has not.                     *)
Unread(c) == pc[c] = "call" \/ (end[c] = "open" /\ ~(c = serving /\ at = "write"))

(* What was sent is what was asked; what was done is, too; who may still   *)
(* be served has not been; and who is told OK has.                         *)
ToldTrue(c) ==
    /\ pc[c] # "idle" => asked[c] \in Requests
    /\ pc[c] \in Connected => Sound(asked[c])
    /\ words[c] # None =>
          asked[c] \in Requests /\ Sound(asked[c]) /\ words[c] = Words(asked[c])
    /\ done[c] # None => done[c] = asked[c]
    /\ Unread(c) => done[c] = None /\ answer[c] = None
    /\ answer[c] = "OK" => done[c] = asked[c]
    /\ reply = "OK" /\ c = serving => done[c] = asked[c]

Told == \A c \in Clients : ToldTrue(c)

Inv == Shape /\ Open /\ Told

(* None is no program, request, message or answer.                         *)
LEMMA Nones ==
    /\ None \notin Clients /\ None \notin Requests
    /\ None \notin Seq(Word \cup DOMAIN Arity) /\ None # "OK" /\ None # "ERR"
BY ClientsAssumption, NoneAssumption, RequestsFit

(* Init has no call, no connection and no daemon.                          *)
LEMMA InitInv == Init => Inv
<1> SUFFICES ASSUME Init PROVE Inv
  OBVIOUS
<1> USE Nones DEF Init
<1>1. Shape
  BY EmptySeq DEF Shape
<1>2. Open
  BY DEF Open, InLine
<1>3. Told
  BY DEF Told, ToldTrue, Unread, Connected
<1> QED
  BY <1>1, <1>2, <1>3 DEF Inv

(* A line grows at its end and shrinks at its head.                        *)
LEMMA LineGrows ==
    ASSUME NEW line \in Seq(Clients), NEW d \in Clients, NEW new, new = Append(line, d)
    PROVE  /\ new \in Seq(Clients)
           /\ \A c : InLine(c, new) <=> InLine(c, line) \/ c = d
           /\ (/\ ~InLine(d, line)
               /\ \A i, j \in 1 .. Len(line) : line[i] = line[j] => i = j)
                 => \A i, j \in 1 .. Len(new) : new[i] = new[j] => i = j
<1>1. /\ new \in Seq(Clients) /\ Len(new) = Len(line) + 1 /\ Len(line) \in Nat
      /\ \A i \in 1 .. Len(line) : new[i] = line[i]
      /\ new[Len(line) + 1] = d
  BY AppendProperties
<1> QED
  BY <1>1 DEF InLine

(* Accept takes the head, and the rest keep their order.                   *)
LEMMA LineShrinks ==
    ASSUME NEW line \in Seq(Clients), line # <<>>, NEW new, new = Tail(line),
           \A i, j \in 1 .. Len(line) : line[i] = line[j] => i = j
    PROVE  /\ new \in Seq(Clients) /\ Head(line) \in Clients
           /\ \A c : InLine(c, line) <=> InLine(c, new) \/ c = Head(line)
           /\ ~InLine(Head(line), new)
           /\ \A i, j \in 1 .. Len(new) : new[i] = new[j] => i = j
<1>1. /\ new \in Seq(Clients) /\ Len(new) = Len(line) - 1
      /\ Head(line) = line[1] /\ Head(line) \in Clients
      /\ Len(line) \in Nat /\ Len(line) >= 1
      /\ \A i \in 1 .. Len(new) : new[i] = line[i + 1]
  BY HeadTailProperties, EmptySeq
<1>2. \A i \in 2 .. Len(line) : i - 1 \in 1 .. Len(new) /\ new[i - 1] = line[i]
  BY <1>1
<1>3. \A c : InLine(c, line) <=> InLine(c, new) \/ c = Head(line)
  BY <1>1, <1>2 DEF InLine
<1> QED
  BY <1>1, <1>3 DEF InLine

-----------------------------------------------------------------------------
(* Every step keeps it                                                     *)

(* The words sent are a sequence of words, and what is parsed out of them  *)
(* is what was asked.                                                      *)
LEMMA WhatArrives ==
    ASSUME Inv, NEW c \in Clients, words[c] # None
    PROVE  /\ Words(asked[c]) \in Seq(Word \cup DOMAIN Arity)
           /\ words[c] \in Seq(Word \cup DOMAIN Arity)
           /\ parse_request(words[c]) = asked[c] /\ asked[c] \in Requests
BY WordsComeBack DEF Inv, Told, ToldTrue

(* No step leaves the types.                                               *)
LEMMA StepShape == Inv /\ [Next]_vars => Shape'
<1> SUFFICES ASSUME Inv, [Next]_vars PROVE Shape'
  OBVIOUS
<1> USE DEF Inv, Shape, Connected
<1>1. ASSUME NEW c \in Clients, NEW request \in Requests, Call(c, request) PROVE Shape'
  BY <1>1 DEF Call, Goto, queue, daemon
<1>2. ASSUME NEW c \in Clients, Refused(c) \/ Read(c) PROVE Shape'
  BY <1>2 DEF Refused, Read, Return, Goto, stream, queue, daemon
<1>3. ASSUME NEW c \in Clients, Connect(c) PROVE Shape'
  <2>1. backlog' \in Seq(Clients)
    BY <1>3, LineGrows DEF Connect
  <2> QED
    BY <1>3, <2>1 DEF Connect, Goto, daemon
<1>4. ASSUME NEW c \in Clients, Write(c) PROVE Shape'
  <2>1. Words(asked[c]) \in Seq(Word \cup DOMAIN Arity)
    BY <1>4, WordsComeBack DEF Write, Told, ToldTrue
  <2>2. words' \in [Clients -> Seq(Word \cup DOMAIN Arity) \cup {None}]
    BY <1>4, <2>1 DEF Write
  <2>3. pc' \in [Clients -> {"idle", "call"} \cup Connected]
    BY <1>4 DEF Write, Return, Goto
  <2>4. result' \in [Clients -> {"Ok", "Err", None}] /\ asked' = asked
    BY <1>4 DEF Write, Return
  <2> QED
    BY <1>4, <2>2, <2>3, <2>4 DEF Write, queue
<1>5. ASSUME NEW c \in Clients, Shutdown(c) \/ Killed(c) \/ Again(c) PROVE Shape'
  BY <1>5 DEF Shutdown, Killed, Again, Goto, stream, queue, daemon
<1>6. ASSUME NEW c \in Tricklers, Trickle(c) PROVE Shape'
  BY <1>6 DEF Trickle, program, stream, queue
<1>7. CASE Start \/ SecondPasses
  BY <1>7 DEF Start, SecondPasses, program, stream, queue
<1>8. CASE Accept
  <2>1. backlog' \in Seq(Clients) /\ serving' \in Clients
    BY <1>8, LineShrinks DEF Accept, Open
  <2> QED
    BY <1>8, <2>1 DEF Accept, program, stream
<1>9. CASE ReadTimesOut
  BY <1>9 DEF ReadTimesOut, Close, program, queue
<1>10. CASE Reply
  BY <1>10 DEF Reply, Close, program, queue
<1>11. CASE Handle
  <2>1. serving \in Clients
    BY <1>11 DEF Handle, Open
  <2>2. done' \in [Clients -> Requests \cup {None}] /\ reply' \in {"OK", "ERR"}
    <3>1. CASE words[serving] = None
      <4>1. parse_request(<<>>) = None
        BY DEF parse_request
      <4> QED
        BY <1>11, <3>1, <4>1 DEF Handle
    <3>2. CASE words[serving] # None
      <4>1. parse_request(words[serving]) \in Requests
        BY <2>1, <3>2, WhatArrives
      <4> QED
        BY <1>11, <3>2, <4>1 DEF Handle
    <3> QED
      BY <3>1, <3>2
  <2> QED
    BY <1>11, <2>2 DEF Handle, program, stream, queue
<1>12. CASE Crash
  <2>1. end' \in [Clients -> {"open", "eof", "reset"}]
    BY <1>12 DEF Crash
  <2>2. backlog' \in Seq(Clients)
    BY <1>12, EmptySeq DEF Crash
  <2> QED
    BY <1>12, <2>1, <2>2 DEF Crash, program
<1>13. CASE UNCHANGED vars
  BY <1>13 DEF vars, program, stream, queue, daemon
<1> QED
  BY <1>1, <1>2, <1>3, <1>4, <1>5, <1>6, <1>7, <1>8, <1>9, <1>10, <1>11, <1>12, <1>13
  DEF Next, Program, Serving

(* Connect puts a new connection at the end of the line, Accept takes the  *)
(* first out of it; who is served or waits is closed by nobody else.       *)
LEMMA StepOpen == Inv /\ [Next]_vars => Open'
<1> SUFFICES ASSUME Inv, [Next]_vars PROVE Open'
  OBVIOUS
<1> USE DEF Inv, Open
<1>s. Shape
  OBVIOUS
<1>a. ASSUME end' = end, backlog' = backlog, serving' = serving, at' = at, reply' = reply,
             \A c \in Clients : end[c] = "open" => pc'[c] \in Connected
      PROVE  Open'
  BY <1>a
<1>1. ASSUME NEW c \in Clients, NEW request \in Requests, Call(c, request) PROVE Open'
  <2>1. \A d \in Clients : end[d] = "open" => d # c
    BY <1>1 DEF Call, Connected
  <2> QED
    BY <1>1, <1>a, <1>s, <2>1 DEF Call, Goto, queue, daemon, Shape
<1>2. ASSUME NEW c \in Clients, Refused(c) \/ Read(c) \/ Again(c) PROVE Open'
  <2>1. \A d \in Clients : end[d] = "open" => d # c
    BY <1>2 DEF Refused, Read, Again, Connected
  <2> QED
    BY <1>2, <1>a, <1>s, <2>1
    DEF Refused, Read, Again, Return, Goto, stream, queue, daemon, Shape
<1>3. ASSUME NEW c \in Clients, Connect(c) PROVE Open'
  <2>1. end[c] # "open" /\ c # serving /\ ~InLine(c, backlog)
    BY <1>3 DEF Connect, Connected
  <2>2. /\ backlog' = Append(backlog, c) /\ end' = [end EXCEPT ![c] = "open"]
        /\ pc' = [pc EXCEPT ![c] = "write"]
        /\ serving' = serving /\ at' = at /\ reply' = reply
    BY <1>3 DEF Connect, Goto, daemon
  <2>3. /\ \A d : InLine(d, backlog') <=> InLine(d, backlog) \/ d = c
        /\ \A i, j \in 1 .. Len(backlog') : backlog'[i] = backlog'[j] => i = j
    <3>1. /\ backlog \in Seq(Clients)
          /\ \A i, j \in 1 .. Len(backlog) : backlog[i] = backlog[j] => i = j
      BY <1>s DEF Shape
    <3> HIDE DEF Inv, Open
    <3>2. \A new : new = Append(backlog, c) =>
             /\ \A d : InLine(d, new) <=> InLine(d, backlog) \/ d = c
             /\ \A i, j \in 1 .. Len(new) : new[i] = new[j] => i = j
      BY <2>1, <3>1, LineGrows
    <3> QED
      BY <2>2, <3>2
  <2> QED
    BY <1>s, <2>1, <2>2, <2>3 DEF Shape, Connected
<1>4. ASSUME NEW c \in Clients, Write(c) PROVE Open'
  <2>1. \A d \in Clients : end[d] = "open" => pc'[d] \in Connected
    BY <1>4, <1>s DEF Write, Return, Goto, Shape, Connected
  <2> QED
    BY <1>4, <1>a, <2>1 DEF Write, queue
<1>5. ASSUME NEW c \in Clients, Shutdown(c) \/ Killed(c) PROVE Open'
  <2>1. \A d \in Clients : end[d] = "open" => pc'[d] \in Connected
    BY <1>5, <1>s DEF Shutdown, Killed, Goto, Shape, Connected
  <2> QED
    BY <1>5, <1>a, <2>1 DEF Shutdown, Killed, queue, daemon
<1>6. ASSUME NEW c \in Tricklers, Trickle(c) PROVE Open'
  BY <1>6, <1>a DEF Trickle, program, stream, queue
<1>7. CASE Start
  BY <1>7, Nones DEF Start, program, stream, queue
<1>8. CASE SecondPasses
  BY <1>8, <1>a DEF SecondPasses, program, stream, queue
<1>9. CASE Accept
  <2>1. serving = None /\ reply = None
    BY <1>9, <1>s DEF Accept, Shape
  <2>2. /\ backlog # <<>> /\ backlog' = Tail(backlog) /\ serving' = Head(backlog)
        /\ at' = "read" /\ reply' = reply /\ end' = end /\ pc' = pc
    BY <1>9 DEF Accept, program, stream
  <2>3. /\ Head(backlog) \in Clients
        /\ \A c : InLine(c, backlog) <=> InLine(c, backlog') \/ c = Head(backlog)
        /\ ~InLine(Head(backlog), backlog')
        /\ \A i, j \in 1 .. Len(backlog') : backlog'[i] = backlog'[j] => i = j
    <3>1. /\ backlog \in Seq(Clients)
          /\ \A i, j \in 1 .. Len(backlog) : backlog[i] = backlog[j] => i = j
      BY <1>s DEF Shape
    <3> HIDE DEF Inv, Open
    <3>2. \A new : new = Tail(backlog) =>
             /\ Head(backlog) \in Clients
             /\ \A c : InLine(c, backlog) <=> InLine(c, new) \/ c = Head(backlog)
             /\ ~InLine(Head(backlog), new)
             /\ \A i, j \in 1 .. Len(new) : new[i] = new[j] => i = j
      BY <2>2, <3>1, LineShrinks
    <3> QED
      BY <2>2, <3>2
  <2> QED
    BY <2>1, <2>2, <2>3, Nones
<1>10. CASE ReadTimesOut \/ Reply
  <2>1. /\ serving \in Clients /\ end' = [end EXCEPT ![serving] = "eof"]
        /\ serving' = None /\ reply' = None /\ at' = "accept"
        /\ backlog' = backlog /\ pc' = pc
    BY <1>10 DEF ReadTimesOut, Reply, Close, program, queue
  <2>2. \A c \in Clients : end'[c] = "open" <=> end[c] = "open" /\ c # serving
    BY <1>s, <2>1 DEF Shape
  <2>3. ~InLine(None, backlog)
    BY <1>s, Nones, ElementOfSeq DEF InLine, Shape
  <2> QED
    BY <2>1, <2>2, <2>3, Nones
<1>11. CASE Handle
  <2>1. /\ at = "read" /\ at' = "write" /\ reply' \in {"OK", "ERR"}
        /\ end' = end /\ pc' = pc /\ serving' = serving /\ backlog' = backlog
    BY <1>11 DEF Handle, program, stream, queue
  <2> QED
    BY <2>1, Nones
<1>12. CASE Crash
  <2>1. /\ at' = "down" /\ serving' = None /\ reply' = None /\ pc' = pc
        /\ backlog' = IF activated THEN backlog ELSE <<>>
    BY <1>12 DEF Crash, program
  <2>2. /\ \A c \in Clients : end'[c] = "open" => end[c] = "open" /\ c # serving
        /\ \A c \in Clients : end[c] = "open" /\ c # serving =>
              (end'[c] = "open" <=> ~(InLine(c, backlog) /\ ~activated))
    <3>1. PICK how \in {"eof", "reset"} :
             end' = [c \in Clients |->
                        IF c = serving THEN how
                        ELSE IF c \in ToSet(backlog) /\ ~activated THEN "reset"
                        ELSE end[c]]
      BY <1>12 DEF Crash
    <3>2. \A c : c \in ToSet(backlog) <=> InLine(c, backlog)
      BY <1>s DEF ToSet, InLine, Shape
    <3> QED
      BY <3>1, <3>2
  <2>3. ~InLine(None, backlog) /\ \A c : ~InLine(c, <<>>)
    BY <1>s, Nones, ElementOfSeq DEF InLine, Shape
  <2>4. CASE activated
    BY <2>1, <2>2, <2>3, <2>4, Nones
  <2>5. CASE ~activated
    BY <2>1, <2>2, <2>3, <2>5, Nones
  <2> QED
    BY <2>4, <2>5
<1>13. CASE UNCHANGED vars
  BY <1>13 DEF vars, program, stream, queue, daemon
<1> QED
  BY <1>1, <1>2, <1>3, <1>4, <1>5, <1>6, <1>7, <1>8, <1>9, <1>10, <1>11, <1>12, <1>13
  DEF Next, Program, Serving

(* A program's step is about its own call, and the daemon's about the call *)
(* it serves.                                                              *)
LEMMA StepTold == Inv /\ [Next]_vars => Told'
<1> SUFFICES ASSUME Inv, [Next]_vars, NEW d \in Clients PROVE ToldTrue(d)'
  BY DEF Told
<1>s. Shape /\ Open /\ ToldTrue(d)
  BY DEF Inv, Told
<1> USE DEF ToldTrue, Unread, Shape, Connected
<1>1. ASSUME NEW c \in Clients, NEW request \in Requests, Call(c, request) PROVE ToldTrue(d)'
  <2>1. end[c] # "open" /\ c # serving
    BY <1>1, <1>s DEF Call, Open
  <2> QED
    BY <1>1, <1>s, <2>1, Nones DEF Call, Goto, queue, daemon
<1>2. ASSUME NEW c \in Clients, Refused(c) \/ Read(c) \/ Again(c) PROVE ToldTrue(d)'
  BY <1>2, <1>s DEF Refused, Read, Again, Return, Goto, stream, queue, daemon
<1>3. ASSUME NEW c \in Clients, Connect(c) PROVE ToldTrue(d)'
  BY <1>3, <1>s DEF Connect, Goto, daemon
<1>4. ASSUME NEW c \in Clients, Write(c) PROVE ToldTrue(d)'
  <2>1. /\ end' = end /\ serving' = serving /\ at' = at /\ reply' = reply
        /\ done' = done /\ answer' = answer /\ asked' = asked
        /\ pc' = [pc EXCEPT ![c] = IF end[c] = "open" THEN "shut" ELSE "idle"]
        /\ words' = words \/ words' = [words EXCEPT ![c] = Words(asked[c])]
        /\ pc[c] = "write"
    BY <1>4 DEF Write, Return, Goto, queue
  <2>2. CASE d # c
    BY <1>s, <2>1, <2>2
  <2>3. CASE d = c
    BY <1>s, <2>1, <2>3
  <2> QED
    BY <2>2, <2>3
<1>5. ASSUME NEW c \in Clients, Shutdown(c) \/ Killed(c) PROVE ToldTrue(d)'
  BY <1>5, <1>s DEF Shutdown, Killed, Goto, queue, daemon
<1>6. ASSUME NEW c \in Tricklers, Trickle(c) PROVE ToldTrue(d)'
  BY <1>6, <1>s DEF Trickle, program, stream, queue
<1>7. CASE Start \/ SecondPasses
  BY <1>7, <1>s DEF Start, SecondPasses, program, stream, queue
<1>9. CASE Accept
  <2>1. /\ at = "accept" /\ at' = "read" /\ serving = None /\ reply = None /\ reply' = reply
        /\ UNCHANGED <<pc, asked, words, answer, end, done>>
    BY <1>9, <1>s DEF Accept, Open, program, stream
  <2>2. reply # "OK" /\ d # None
    BY <2>1, Nones
  <2> QED
    BY <1>s, <2>1, <2>2
<1>10. CASE ReadTimesOut
  BY <1>10, <1>s, Nones DEF ReadTimesOut, Close, program
<1>11. CASE Reply
  <2>1. /\ serving \in Clients /\ at = "write" /\ at' = "accept"
        /\ serving' = None /\ reply' = None
        /\ answer' = [answer EXCEPT ![serving] = reply]
        /\ end' = [end EXCEPT ![serving] = "eof"]
        /\ UNCHANGED <<pc, asked, words, done>>
    BY <1>11, <1>s DEF Reply, Close, program, Open
  <2>2. CASE d # serving
    BY <1>s, <2>1, <2>2, Nones
  <2>3. CASE d = serving
    <3>1. end[d] = "open" /\ pc[d] # "call"
      BY <1>s, <2>3 DEF Open
    <3> QED
      BY <1>s, <2>1, <2>3, <3>1, Nones
  <2> QED
    BY <2>2, <2>3
<1>12. CASE Handle
  <2>1. /\ serving \in Clients /\ at = "read" /\ at' = "write" /\ serving' = serving
        /\ UNCHANGED <<pc, asked, words, answer, end>>
    BY <1>12, <1>s DEF Handle, Open, program, stream
  <2>2. \/ reply' = "ERR" /\ done' = done
        \/ /\ asked[serving] \in Requests
           /\ done' = [done EXCEPT ![serving] = asked[serving]]
    <3>1. CASE words[serving] = None
      <4>1. parse_request(<<>>) = None
        BY DEF parse_request
      <4> QED
        BY <1>12, <3>1, <4>1 DEF Handle
    <3>2. CASE words[serving] # None
      <4>1. /\ parse_request(words[serving]) = asked[serving]
            /\ asked[serving] \in Requests /\ asked[serving] # None
        BY <2>1, <3>2, WhatArrives, Nones
      <4> QED
        BY <1>12, <3>2, <4>1 DEF Handle
    <3> QED
      BY <3>1, <3>2
  <2>3. CASE d # serving
    BY <1>s, <2>1, <2>2, <2>3
  <2>4. CASE d = serving
    <3>1. /\ end[d] = "open" /\ pc[d] \in Connected /\ Unread(d)
          /\ done[d] = None /\ answer[d] = None
      BY <1>s, <2>1, <2>4 DEF Open
    <3>2. done'[d] \in {None, asked[d]} /\ (reply' = "OK" => done'[d] = asked[d])
      BY <1>s, <2>1, <2>2, <2>4, <3>1, Nones
    <3> QED
      BY <1>s, <2>1, <2>4, <3>1, <3>2, Nones
  <2> QED
    BY <2>3, <2>4
<1>13. CASE Crash
  <2>1. /\ serving' = None /\ reply' = None /\ at' = "down"
        /\ UNCHANGED <<pc, asked, words, answer, done>>
    BY <1>13 DEF Crash, program
  <2>2. end'[d] = "open" => end[d] = "open" /\ d # serving
    BY <1>13, <1>s DEF Crash
  <2> QED
    BY <1>s, <2>1, <2>2, Nones
<1>14. CASE UNCHANGED vars
  BY <1>14, <1>s DEF vars, program, stream, queue, daemon
<1> QED
  BY <1>1, <1>2, <1>3, <1>4, <1>5, <1>6, <1>7, <1>9, <1>10, <1>11, <1>12, <1>13, <1>14
  DEF Next, Program, Serving

(* In every reachable state.                                               *)
LEMMA Invariance == Spec => []Inv
<1>1. Inv /\ [Next]_vars => Inv'
  BY StepShape, StepOpen, StepTold DEF Inv
<1> QED
  BY InitInv, <1>1, PTL DEF Spec

(***************************************************************************)
(* The types hold: a connection is open as long as it is served or waits,  *)
(* once; what was written is what the program asked.                       *)
(***************************************************************************)
THEOREM ClientTypes == Spec => []TypeOK
<1>1. ASSUME Inv PROVE TypeOK
  <2> USE DEF Inv, Shape, Connected
  <2>1. \A c \in Clients :
          /\ pc[c] \in {"idle", "call", "write", "shut", "read", "gone"}
          /\ asked[c] \in Requests \cup {None} /\ result[c] \in {"Ok", "Err", None}
          /\ words[c] = None \/ words[c] = Words(asked[c])
          /\ shut[c] \in BOOLEAN /\ answer[c] \in {"OK", "ERR", None}
          /\ end[c] \in {"open", "eof", "reset"}
          /\ pc[c] = "call" => end[c] # "open"
    BY <1>1 DEF Told, ToldTrue, Open
  <2>2. backlog \in Seq(Clients) /\ IsInjective(backlog)
    BY <1>1 DEF Open, IsInjective
  <2>3. \A c : c \in ToSet(backlog) <=> InLine(c, backlog)
    BY <2>2 DEF ToSet, InLine
  <2>4. /\ serving \notin ToSet(backlog)
        /\ \A c \in Clients : end[c] = "open" <=> c = serving \/ c \in ToSet(backlog)
    BY <1>1, <2>3 DEF Open
  <2> QED
    BY <1>1, <2>1, <2>2, <2>4 DEF TypeOK, Open
<1> QED
  BY <1>1, Invariance, PTL

-----------------------------------------------------------------------------
(* The refinement                                                          *)

(* The calls under way change when a call begins and when it ends.         *)
LEMMA CallingFollows ==
    ASSUME Shape, Shape', UNCHANGED asked
    PROVE  /\ (\A c \in Clients : pc'[c] = "idle" <=> pc[c] = "idle") => calling' = calling
           /\ \A c \in Clients :
                pc' = [pc EXCEPT ![c] = "idle"] => calling' = [calling EXCEPT ![c] = None]
BY DEF Shape, calling

(* Only Call, Handle, the returns and Again are seen by RemoteCall.        *)
LEMMA StepsCall ==
    ASSUME Inv, Inv', [Next]_vars
    PROVE  [Remote!Next]_(Remote!vars)
<1>s. Shape /\ Shape' /\ Open /\ Told
  BY DEF Inv
<1> USE DEF Remote!vars
<1>k. ASSUME UNCHANGED <<asked, done, result>>,
             \A c \in Clients : pc'[c] = "idle" <=> pc[c] = "idle"
      PROVE  [Remote!Next]_(Remote!vars)
  BY <1>k, <1>s, CallingFollows
<1>r. ASSUME NEW c \in Clients, NEW ok \in BOOLEAN, Return(c, ok), done' = done,
             pc[c] # "idle",
             ok => done[c] = asked[c] \/ asked[c] \in Unsure
      PROVE  [Remote!Next]_(Remote!vars)
  <2> DEFINE told == IF ok THEN "Ok" ELSE "Err"
  <2>1. /\ calling' = [calling EXCEPT ![c] = None] /\ result' = [result EXCEPT ![c] = told]
        /\ told \in {"Ok", "Err"}
    BY <1>r, <1>s, CallingFollows DEF Return, Goto
  <2>2. calling[c] = asked[c] /\ asked[c] # None
    BY <1>r, <1>s, Nones DEF calling, Told, ToldTrue
  <2>3. told = "Ok" => ok
    OBVIOUS
  <2> HIDE DEF told
  <2>4. Remote!Return(c, told)
    BY <1>r, <2>1, <2>2, <2>3 DEF Remote!Return
  <2> QED
    BY <2>1, <2>4 DEF Remote!Next
<1>1. ASSUME NEW c \in Clients, NEW request \in Requests, Call(c, request)
      PROVE  [Remote!Next]_(Remote!vars)
  <2>1. calling[c] = None /\ calling' = [calling EXCEPT ![c] = request]
    BY <1>1, <1>s DEF Call, Goto, calling, Shape
  <2>2. Remote!Call(c, request)
    BY <1>1, <2>1 DEF Call, Remote!Call
  <2> QED
    BY <2>2 DEF Remote!Next
<1>2. ASSUME NEW c \in Clients, Refused(c) PROVE [Remote!Next]_(Remote!vars)
  BY <1>2, <1>r DEF Refused
<1>3. ASSUME NEW c \in Clients, Connect(c) \/ Shutdown(c) \/ Killed(c)
      PROVE  [Remote!Next]_(Remote!vars)
  BY <1>3, <1>k, <1>s DEF Connect, Shutdown, Killed, Goto, Shape
<1>4. ASSUME NEW c \in Clients, Write(c) PROVE [Remote!Next]_(Remote!vars)
  <2>1. CASE end[c] = "open"
    BY <1>4, <1>k, <1>s, <2>1 DEF Write, Goto, Shape
  <2>2. CASE end[c] # "open"
    BY <1>4, <1>r, <2>2 DEF Write
  <2> QED
    BY <2>1, <2>2
<1>5. ASSUME NEW c \in Clients, Read(c) PROVE [Remote!Next]_(Remote!vars)
  <2> DEFINE ok == end[c] = "eof" /\ expect_ok(asked[c].command, answer[c])
  <2>1. ok \in BOOLEAN /\ Return(c, ok) /\ done' = done /\ pc[c] # "idle"
    BY <1>5 DEF Read, expect_ok
  <2>2. ASSUME ok PROVE done[c] = asked[c] \/ asked[c] \in Unsure
    <3>1. asked[c] \in Requests /\ (answer[c] = "OK" => done[c] = asked[c])
      BY <1>s, <2>1 DEF Told, ToldTrue
    <3>2. asked[c].command # "LIST" => answer[c] = "OK"
      BY <2>2 DEF expect_ok
    <3> QED
      BY <3>1, <3>2 DEF Unsure
  <2> HIDE DEF ok
  <2> QED
    BY <1>r, <2>1, <2>2
<1>6. ASSUME NEW c \in Clients, Again(c) PROVE [Remote!Next]_(Remote!vars)
  <2>1. /\ pc[c] = "gone" /\ pc' = [pc EXCEPT ![c] = "idle"]
        /\ UNCHANGED <<asked, result, done>>
    BY <1>6 DEF Again, Goto
  <2>2. calling' = [calling EXCEPT ![c] = None] /\ calling[c] # None
    BY <1>s, <2>1, CallingFollows, Nones DEF calling, Told, ToldTrue
  <2>3. Remote!Forget(c)
    BY <2>1, <2>2 DEF Remote!Forget
  <2> QED
    BY <2>3 DEF Remote!Next
<1>7. CASE Handle
  <2>1. /\ serving \in Clients /\ UNCHANGED <<pc, asked, result>>
        /\ end[serving] = "open" /\ pc[serving] \in Connected /\ at = "read"
    BY <1>7, <1>s DEF Handle, Open, program
  <2>2. calling' = calling /\ calling[serving] = asked[serving] /\ calling[serving] # None
    BY <1>s, <2>1, CallingFollows, Nones DEF calling, Told, ToldTrue, Connected
  <2>3. CASE words[serving] = None
    <3>1. parse_request(<<>>) = None
      BY DEF parse_request
    <3>2. done' = done
      BY <1>7, <2>3, <3>1 DEF Handle
    <3> QED
      BY <2>1, <2>2, <3>2
  <2>4. CASE words[serving] # None
    <3>1. parse_request(words[serving]) = asked[serving] /\ asked[serving] # None
      BY <2>1, <2>4, WhatArrives, Nones
    <3>2. done' = [done EXCEPT ![serving] = asked[serving]]
      BY <1>7, <2>4, <3>1 DEF Handle
    <3>3. done[serving] = None
      BY <1>s, <2>1 DEF Told, ToldTrue, Unread
    <3>4. Remote!Execute(serving)
      BY <2>1, <2>2, <3>2, <3>3 DEF Remote!Execute
    <3> QED
      BY <2>1, <3>4 DEF Remote!Next
  <2> QED
    BY <2>3, <2>4
<1>8. ASSUME UNCHANGED <<program, done>> PROVE [Remote!Next]_(Remote!vars)
  BY <1>8, <1>k DEF program
<1>9. ASSUME NEW c \in Tricklers, Trickle(c) PROVE [Remote!Next]_(Remote!vars)
  BY <1>8, <1>9 DEF Trickle
<1>10. CASE Start \/ SecondPasses \/ Accept \/ ReadTimesOut \/ Reply \/ Crash
  BY <1>8, <1>10 DEF Start, SecondPasses, Accept, ReadTimesOut, Reply, Crash
<1>11. CASE UNCHANGED vars
  BY <1>8, <1>11 DEF vars
<1> QED
  BY <1>1, <1>2, <1>3, <1>4, <1>5, <1>6, <1>7, <1>9, <1>10, <1>11 DEF Next, Program, Serving

(***************************************************************************)
(* Client implements RemoteCall: whatever users ask, the daemon does what  *)
(* was asked, with every argument where it was, once or not at all and     *)
(* never after the call returned, and Ok is returned only for what was     *)
(* done, although programs, daemon and connections may go at any moment    *)
(* (validate_argument, send, handle_client, parse_request, expect_ok).     *)
(***************************************************************************)
THEOREM ClientImplementsRemoteCall == Spec => ImplementsRemoteCall
<1>1. Init => Remote!Init
  BY Nones DEF Init, Remote!Init, calling
<1>2. Inv /\ Inv' /\ [Next]_vars => [Remote!Next]_(Remote!vars)
  BY StepsCall
<1> QED
  BY <1>1, <1>2, Invariance, PTL DEF Spec, ImplementsRemoteCall, Remote!Spec

=============================================================================
