-------------------------------- MODULE Client --------------------------------
(***************************************************************************)
(* waybright/src/client.rs: programs that call the client library, their   *)
(* connections, and the daemon as far as its accept loop and handle_client *)
(* go (Daemon.tla has the rest).  A call is connect, write, shut down the  *)
(* writing side, read to the end; the daemon reads to the end, acts, and   *)
(* writes.  It may stall, time out, or be killed between any two of these, *)
(* and so may the program.                                                 *)
(*                                                                         *)
(* An argument is the sequence of words in the string the user gave; a     *)
(* request is a sequence of words.                                         *)
(***************************************************************************)
EXTENDS Integers, SequencesExt

CONSTANTS
    Clients,        (* programs                                            *)
    Tricklers,      (* those that write their request bit by bit           *)
    Word,           (* what arguments are made of                          *)
    Asked,          (* what users ask: [command, args]                     *)
    Focused,        (* the argument "@focused"                             *)
    Outputs,        (* names wayfocus may answer with, as arguments        *)
    None            (* Option::None                                        *)

ASSUME ClientsAssumption == Tricklers \subseteq Clients /\ None \notin Clients

Arity == [LIST |-> 0, GET |-> 1, SET |-> 2, REFRESH |-> 0]

Request == [command : DOMAIN Arity, args : Seq(Seq(Word))]

ASSUME AskedAssumption ==
    /\ \A ask \in Asked : ask \in Request /\ Len(ask.args) = Arity[ask.command]
    /\ Outputs \subseteq Seq(Word)
ASSUME NoneAssumption ==
    None \notin Request /\ None \notin Seq(Word \cup DOMAIN Arity) /\ None \notin {"OK", "ERR"}

(* resolve_selector: wayfocus' answer takes the place of "@focused".  Its  *)
(* failures end the call without a request, as an empty name does.         *)
resolve_selector(selector) ==
    IF selector = Focused THEN Outputs \cup {<<>>} ELSE {selector}

Resolved(ask) ==
    IF ask.args = <<>> THEN {ask}
    ELSE {[ask EXCEPT !.args[1] = s] : s \in resolve_selector(ask.args[1])}

Requests == UNION {Resolved(ask) : ask \in Asked}

validate_argument_Never(argument) == TRUE

(* Neither empty nor with whitespace in it.                                *)
validate_argument(argument) == Len(argument) = 1

(* What list, get, set and refresh write.                                  *)
Words(request) ==
    CASE request.command \in {"LIST", "REFRESH"} -> <<request.command>>
      [] request.command = "GET" -> <<"GET">> \o request.args[1]
      [] request.command = "SET" -> <<"SET">> \o request.args[1] \o request.args[2]

(* None: the daemon answers that the request is invalid.                   *)
parse_request(words) ==
    IF words = <<>> \/ Head(words) \notin DOMAIN Arity THEN None
    ELSE IF Len(words) # 1 + Arity[Head(words)] THEN None
    ELSE [command |-> Head(words),
          args    |-> [i \in 1 .. Len(words) - 1 |-> <<words[i + 1]>>]]

(* What list, get, set and refresh make of an answer: LIST's is a line per *)
(* output, so that no answer at all is no output.                          *)
expect_ok(command, answer) ==
    CASE command = "LIST" -> answer # "ERR"
      [] OTHER            -> answer = "OK"

VARIABLES
    (* the programs                                                        *)
    pc,             (* where each is in its call                           *)
    asked,          (* the resolved request of its last call               *)
    result,         (* what that returned                                  *)
    (* the connections, as the kernel has them                             *)
    words,          (* what the program has written, or None               *)
    shut,           (* it will write no more                               *)
    answer,         (* what the daemon has written: "OK", "ERR" or None    *)
    end,            (* "open", or what the program finds: "eof", "reset"   *)
    activated,      (* systemd holds the listening socket                  *)
    backlog,        (* connections not accepted                            *)
    (* the daemon                                                          *)
    at,             (* "down", "accept", "read" or "write"                 *)
    serving,        (* the program it serves                               *)
    quiet,          (* nothing has come from it for (almost) a second      *)
    reply,          (* what it will write                                  *)
    done            (* history: what it did (or tried) for each last call   *)

program == <<pc, asked, result>>
stream  == <<words, shut, answer, end>>
queue   == <<activated, backlog>>
daemon  == <<at, serving, quiet, reply>>
vars == <<program, stream, queue, daemon, done>>

Init ==
    /\ pc = [c \in Clients |-> "idle"]
    /\ asked = [c \in Clients |-> None] /\ result = asked
    /\ words = asked /\ answer = asked /\ done = asked
    /\ shut = [c \in Clients |-> FALSE]
    /\ end = [c \in Clients |-> "eof"]
    /\ activated \in BOOLEAN /\ backlog = <<>>
    /\ at = "down" /\ serving = None /\ quiet = FALSE /\ reply = None

-----------------------------------------------------------------------------
(* The library                                                             *)

Goto(c, place) == pc' = [pc EXCEPT ![c] = place]

Return(c, ok) ==
    /\ Goto(c, "idle")
    /\ result' = [result EXCEPT ![c] = IF ok THEN "Ok" ELSE "Err"]
    /\ UNCHANGED asked

(* main::run calls list, get, set or refresh.                              *)
Call(c, request) ==
    /\ pc[c] = "idle"
    /\ Goto(c, "call")
    /\ asked' = [asked EXCEPT ![c] = request]
    /\ result' = [result EXCEPT ![c] = None]
    /\ done' = [done EXCEPT ![c] = None]
    /\ words' = [words EXCEPT ![c] = None]
    /\ shut' = [shut EXCEPT ![c] = FALSE]
    /\ answer' = [answer EXCEPT ![c] = None]
    /\ UNCHANGED <<end, queue, daemon>>

Sound(request) == \A i \in DOMAIN request.args : validate_argument(request.args[i])

Listening == activated \/ at # "down"

Refused(c) ==
    /\ pc[c] = "call"
    /\ ~Sound(asked[c]) \/ ~Listening
    /\ Return(c, FALSE)
    /\ UNCHANGED <<stream, queue, daemon, done>>

Connect(c) ==
    /\ pc[c] = "call" /\ Sound(asked[c]) /\ Listening
    /\ Goto(c, "write")
    /\ backlog' = Append(backlog, c)
    /\ end' = [end EXCEPT ![c] = "open"]
    /\ UNCHANGED <<asked, result, words, shut, answer, activated, daemon, done>>

(* write_all; to a connection that has ended it fails.                     *)
Write(c) ==
    /\ pc[c] = "write"
    /\ IF end[c] = "open"
       THEN /\ Goto(c, "shut")
            /\ words' = [words EXCEPT ![c] = Words(asked[c])]
            /\ UNCHANGED <<asked, result>>
       ELSE Return(c, FALSE) /\ UNCHANGED words
    /\ quiet' = (quiet /\ serving # c)
    /\ UNCHANGED <<shut, answer, end, queue, at, serving, reply, done>>

(* A raw client that writes less than a request, again and again.          *)
Trickle(c) ==
    /\ pc[c] = "write" /\ serving = c
    /\ quiet' = FALSE
    /\ UNCHANGED <<program, stream, queue, at, serving, reply, done>>

Shutdown(c) ==
    /\ pc[c] = "shut"
    /\ Goto(c, "read")
    /\ shut' = [shut EXCEPT ![c] = TRUE]
    /\ UNCHANGED <<asked, result, words, answer, end, queue, daemon, done>>

Read(c) ==
    /\ pc[c] = "read" /\ end[c] # "open"
    /\ Return(c, end[c] = "eof" /\ expect_ok(asked[c].command, answer[c]))
    /\ UNCHANGED <<stream, queue, daemon, done>>

(* The program is killed; its stream reads as shut.  Another takes its     *)
(* place when the daemon is through with it.                               *)
Killed(c) ==
    /\ pc[c] \in {"write", "shut", "read"}
    /\ Goto(c, "gone")
    /\ shut' = [shut EXCEPT ![c] = TRUE]
    /\ UNCHANGED <<asked, result, words, answer, end, queue, daemon, done>>

Again(c) ==
    /\ pc[c] = "gone" /\ end[c] # "open"
    /\ Goto(c, "idle")
    /\ UNCHANGED <<asked, result, stream, queue, daemon, done>>

-----------------------------------------------------------------------------
(* The daemon                                                              *)

Start ==
    /\ at = "down"
    /\ at' = "accept"
    /\ UNCHANGED <<program, stream, queue, serving, quiet, reply, done>>

Accept ==
    /\ at = "accept" /\ backlog # <<>>
    /\ at' = "read" /\ serving' = Head(backlog) /\ backlog' = Tail(backlog)
    /\ UNCHANGED <<program, stream, activated, quiet, reply, done>>

SecondPasses ==
    /\ at = "read" /\ ~shut[serving]
    /\ quiet' = TRUE
    /\ UNCHANGED <<program, stream, queue, at, serving, reply, done>>

(* The stream is dropped when handle_client returns.                       *)
Close(how) ==
    /\ end' = [end EXCEPT ![serving] = how]
    /\ serving' = None /\ quiet' = FALSE /\ reply' = None
    /\ UNCHANGED <<words, shut>>

ReadTimesOut_KeepsStream ==
    /\ at = "read" /\ ~shut[serving] /\ quiet
    /\ at' = "accept"
    /\ UNCHANGED <<program, stream, queue, serving, quiet, reply, done>>

(* The daemon waits a second for each read, and answers nothing after it.  *)
ReadTimesOut ==
    /\ at = "read" /\ ~shut[serving] /\ quiet
    /\ Close("eof") /\ at' = "accept"
    /\ UNCHANGED <<program, answer, queue, done>>

(* handle_request; an error may leave some of a SET done.                  *)
Handle ==
    /\ at = "read" /\ shut[serving]
    /\ at' = "write"
    /\ LET request == parse_request(IF words[serving] = None THEN <<>> ELSE words[serving])
       IN  IF request = None
           THEN reply' = "ERR" /\ UNCHANGED done
           ELSE /\ done' = [done EXCEPT ![serving] = request]
                /\ reply' \in {"OK", "ERR"}
    /\ UNCHANGED <<program, stream, queue, serving, quiet>>

Reply_KeepsOpen ==
    /\ at = "write"
    /\ answer' = [answer EXCEPT ![serving] = reply]
    /\ at' = "accept" /\ serving' = None /\ quiet' = FALSE /\ reply' = None
    /\ UNCHANGED <<program, words, shut, end, queue, done>>

Reply ==
    /\ at = "write"
    /\ answer' = [answer EXCEPT ![serving] = reply]
    /\ Close("eof") /\ at' = "accept"
    /\ UNCHANGED <<program, queue, done>>

(* The daemon is killed.  What it had not read is reported to the program  *)
(* as a reset, what it had read as the end; the queue is systemd's or goes *)
(* with it.                                                                *)
Crash ==
    /\ at # "down" /\ at' = "down"
    /\ \E how \in {"eof", "reset"} :
          /\ at = "write" => how = "eof"
          /\ end' = [c \in Clients |->
                        IF c = serving THEN how
                        ELSE IF c \in ToSet(backlog) /\ ~activated THEN "reset"
                        ELSE end[c]]
    /\ backlog' = IF activated THEN backlog ELSE <<>>
    /\ serving' = None /\ quiet' = FALSE /\ reply' = None
    /\ UNCHANGED <<program, words, shut, answer, activated, done>>

-----------------------------------------------------------------------------
Program(c) ==
    Refused(c) \/ Connect(c) \/ Write(c) \/ Shutdown(c) \/ Read(c)

Serving == Accept \/ ReadTimesOut \/ Handle \/ Reply

Next ==
    \/ \E c \in Clients :
          \/ \E request \in Requests : Call(c, request)
          \/ Program(c) \/ Killed(c) \/ Again(c)
    \/ \E c \in Tricklers : Trickle(c)
    \/ Start \/ SecondPasses \/ Serving \/ Crash

(* Programs run on, except those that take their time; so does the daemon, *)
(* which is started again where systemd has its socket.                    *)
Fairness ==
    /\ \A c \in Clients \ Tricklers : WF_vars(Program(c))
    /\ WF_vars(activated /\ Start) /\ WF_vars(SecondPasses) /\ WF_vars(Serving)

Spec == Init /\ [][Next]_vars /\ Fairness

-----------------------------------------------------------------------------
TypeOK ==
    /\ \A c \in Clients :
          /\ pc[c] \in {"idle", "call", "write", "shut", "read", "gone"}
          /\ asked[c] \in Requests \cup {None} /\ result[c] \in {"Ok", "Err", None}
          /\ words[c] = None \/ words[c] = Words(asked[c])
          /\ shut[c] \in BOOLEAN /\ answer[c] \in {"OK", "ERR", None}
          /\ end[c] \in {"open", "eof", "reset"}
          /\ pc[c] = "call" => end[c] # "open"
          /\ end[c] = "open" <=> c = serving \/ c \in ToSet(backlog)
    /\ activated \in BOOLEAN /\ at \in {"down", "accept", "read", "write"}
    /\ backlog \in Seq(Clients) /\ IsInjective(backlog) /\ serving \notin ToSet(backlog)
    /\ at \in {"read", "write"} <=> serving \in Clients
    /\ at = "write" <=> reply # None

(***************************************************************************)
(* The promise of RemoteCall.tla: what the daemon parses out of the words  *)
(* it was sent is what the user asked, with every argument where it was;   *)
(* it does so at most once, although the program, the daemon or the        *)
(* connection may go at any moment; nothing is done for a call that has    *)
(* returned; and Ok is returned only for what was done                     *)
(* (validate_argument, the single connection of send, expect_ok).          *)
(***************************************************************************)
calling == [c \in Clients |-> IF pc[c] = "idle" THEN None ELSE asked[c]]
Unsure == {request \in Requests : request.command = "LIST"}

Remote == INSTANCE RemoteCall

ImplementsRemoteCall == Remote!Spec

(***************************************************************************)
(* A call returns, whatever the other programs do and however often the    *)
(* daemon is killed before, started by systemd or by nobody, if only it is *)
(* not killed for ever and nobody trickles for ever (the read timeout of   *)
(* handle_client bounds the silence of a client, not its request).         *)
(***************************************************************************)
CallsReturn ==
    <>[][~Crash /\ \A c \in Tricklers : ~Trickle(c)]_vars =>
        \A c \in Clients \ Tricklers : pc[c] # "idle" ~> pc[c] \in {"idle", "gone"}

=============================================================================
