------------------------------ MODULE RemoteCall ------------------------------
(***************************************************************************)
(* What a call of the client library promises its caller: the daemon does  *)
(* what was asked, once or not at all, and never after the call returned;  *)
(* Ok means that it did.  (Of LIST, Ok means nothing: see Client.tla.)     *)
(***************************************************************************)
CONSTANTS
    Clients,        (* programs that call the library                      *)
    Requests,       (* what they ask                                       *)
    Unsure,         (* requests whose Ok is no promise                     *)
    None

VARIABLES
    calling,        (* the request of each running call, or None           *)
    done,           (* what the daemon did for it, or None                 *)
    result          (* what the last call returned                         *)

vars == <<calling, done, result>>

Init ==
    /\ calling = [c \in Clients |-> None]
    /\ done = calling /\ result = calling

Call(c, request) ==
    /\ calling[c] = None
    /\ calling' = [calling EXCEPT ![c] = request]
    /\ done' = [done EXCEPT ![c] = None]
    /\ result' = [result EXCEPT ![c] = None]

Execute(c) ==
    /\ calling[c] # None /\ done[c] = None
    /\ done' = [done EXCEPT ![c] = calling[c]]
    /\ UNCHANGED <<calling, result>>

Return(c, answer) ==
    /\ calling[c] # None
    /\ answer = "Ok" => done[c] = calling[c] \/ calling[c] \in Unsure
    /\ calling' = [calling EXCEPT ![c] = None]
    /\ result' = [result EXCEPT ![c] = answer]
    /\ UNCHANGED done

(* The caller was killed, and nobody will be told.                         *)
Forget(c) ==
    /\ calling[c] # None
    /\ calling' = [calling EXCEPT ![c] = None]
    /\ UNCHANGED <<done, result>>

Next ==
    \E c \in Clients :
        \/ \E request \in Requests : Call(c, request)
        \/ Execute(c)
        \/ \E answer \in {"Ok", "Err"} : Return(c, answer)
        \/ Forget(c)

Spec == Init /\ [][Next]_vars

=============================================================================
