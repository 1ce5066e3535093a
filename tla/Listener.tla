------------------------------- MODULE Listener -------------------------------
(***************************************************************************)
(* daemon_listener: how daemons come by the socket that clients connect    *)
(* to.  One that systemd started inherits the unit's socket; any other     *)
(* removes whatever has the path and binds its own there.  A daemon that   *)
(* is killed leaves the file behind, and several may start at once.        *)
(***************************************************************************)
EXTENDS Integers, FiniteSets

CONSTANTS
    Daemons,        (* processes                                           *)
    Systemd,        (* the socket unit (nix/module.nix)                    *)
    None            (* there is no file                                    *)

ASSUME SystemdAssumption == Systemd \notin Daemons /\ None \notin Daemons \cup {Systemd} \cup Nat

VARIABLES
    path,           (* whose socket the file at socket_path is             *)
    unit,           (* the socket unit is active                           *)
    at,             (* where each daemon is in its start                   *)
    fds,            (* LISTEN_FDS where LISTEN_PID is its own, else 0;     *)
                    (* None when it is not a number                        *)
    listener,       (* the socket each daemon accepts from, or None        *)
    contested,      (* history: starts during which others touched the path*)
    killed,         (* history: a daemon has been killed                   *)
    outsiders       (* history: one bound its own socket beside the unit's *)

history == <<contested, killed, outsiders>>
vars == <<path, unit, at, fds, listener, history>>

Starting == {d \in Daemons : at[d] \in {"listen", "remove", "bind"}}
Serving == {d \in Daemons : at[d] = "serve"}

(* A connect to the path leads to a socket somebody accepts from, now or   *)
(* when systemd has started a daemon.                                      *)
Answered == (path = Systemd /\ unit) \/ path \in {listener[d] : d \in Serving} \ {None}

Init ==
    /\ path = None /\ unit = FALSE
    /\ at = [d \in Daemons |-> "down"]
    /\ fds = [d \in Daemons |-> 0]
    /\ listener = [d \in Daemons |-> None]
    /\ contested = {} /\ killed = FALSE /\ outsiders = FALSE

(* Everybody else's start is no longer undisturbed.                        *)
Touch(d) == contested' = contested \cup (Starting \ {d})

Goto(d, place) == at' = [at EXCEPT ![d] = place]

Serve(d, socket) ==
    /\ Goto(d, "serve")
    /\ listener' = [listener EXCEPT ![d] = socket]

-----------------------------------------------------------------------------
(* DaemonState::new is done.  Only the unit passes descriptors, and only   *)
(* one process has them.                                                   *)
Launch(d, n) ==
    /\ at[d] \in {"down", "failed"}
    /\ n # 0 => unit /\ \A e \in Daemons \ {d} : at[e] \in {"down", "failed"} \/ fds[e] = 0
    /\ Goto(d, "listen")
    /\ fds' = [fds EXCEPT ![d] = n]
    /\ contested' = IF Starting = {} THEN contested \ {d} ELSE contested \cup {d}
    /\ outsiders' = (outsiders \/ (unit /\ n # 1))
    /\ UNCHANGED <<path, unit, listener, killed>>

inherits_listener_Never(d) == FALSE

(* systemd_listen_fds() == 1                                               *)
inherits_listener(d) == fds[d] = 1

Inherit(d) ==
    /\ at[d] = "listen" /\ inherits_listener(d)
    /\ Serve(d, Systemd)
    /\ UNCHANGED <<path, unit, fds, history>>

(* LISTEN_FDS does not parse, and the daemon exits.                        *)
BadFds(d) ==
    /\ at[d] = "listen" /\ fds[d] = None
    /\ Goto(d, "down")
    /\ UNCHANGED <<path, unit, fds, listener, history>>

Exists_NoRemove(d) ==
    /\ at[d] = "listen" /\ fds[d] # None /\ ~inherits_listener(d)
    /\ Goto(d, "bind")
    /\ UNCHANGED <<path, unit, fds, listener, history>>

Exists_AnyFds(d) ==
    /\ at[d] = "listen" /\ ~inherits_listener(d)
    /\ Goto(d, IF path # None THEN "remove" ELSE "bind")
    /\ UNCHANGED <<path, unit, fds, listener, history>>

Exists(d) ==
    /\ at[d] = "listen" /\ fds[d] # None /\ ~inherits_listener(d)
    /\ Goto(d, IF path # None THEN "remove" ELSE "bind")
    /\ UNCHANGED <<path, unit, fds, listener, history>>

(* remove_file; it fails when there is no file any more.                   *)
Remove(d) ==
    /\ at[d] = "remove"
    /\ path' = None
    /\ Goto(d, IF path = None THEN "failed" ELSE "bind")
    /\ Touch(d)
    /\ UNCHANGED <<unit, fds, listener, killed, outsiders>>

Bind_CleansUp(d) ==
    /\ at[d] = "bind"
    /\ IF path = None
       THEN path' = d /\ Serve(d, d)
       ELSE Goto(d, "failed") /\ path' = None /\ UNCHANGED listener
    /\ Touch(d)
    /\ UNCHANGED <<unit, fds, killed, outsiders>>

(* bind; it fails when there is a file again.                              *)
Bind(d) ==
    /\ at[d] = "bind"
    /\ IF path = None
       THEN path' = d /\ Serve(d, d)
       ELSE Goto(d, "failed") /\ UNCHANGED <<path, listener>>
    /\ Touch(d)
    /\ UNCHANGED <<unit, fds, killed, outsiders>>

-----------------------------------------------------------------------------
(* Killed, or run ends with an error; the file stays.                      *)
Kill(d) ==
    /\ at[d] \in {"listen", "remove", "bind", "serve"}
    /\ Goto(d, "down")
    /\ listener' = [listener EXCEPT ![d] = None]
    /\ killed' = TRUE
    /\ UNCHANGED <<path, unit, fds, contested, outsiders>>

(* systemd clears the path for the unit's socket.                          *)
UnitStarts ==
    /\ ~unit
    /\ unit' = TRUE /\ path' = Systemd
    /\ contested' = contested \cup Starting
    /\ outsiders' = (Starting # {})
    /\ UNCHANGED <<at, fds, listener, killed>>

(* RemoveOnStop; the service requires the socket and stops with it.        *)
UnitStops ==
    /\ unit
    /\ unit' = FALSE /\ path' = None
    /\ at' = [d \in Daemons |-> IF fds[d] = 1 /\ at[d] # "failed" THEN "down" ELSE at[d]]
    /\ listener' = [d \in Daemons |-> IF fds[d] = 1 THEN None ELSE listener[d]]
    /\ contested' = contested \cup Starting
    /\ killed' = TRUE
    /\ UNCHANGED <<fds, outsiders>>

Next ==
    \/ \E d \in Daemons :
          \/ \E n \in {0, 1, 2, None} : Launch(d, n)
          \/ Inherit(d) \/ BadFds(d) \/ Exists(d) \/ Remove(d) \/ Bind(d)
          \/ Kill(d)
    \/ UnitStarts \/ UnitStops

Spec == Init /\ [][Next]_vars

-----------------------------------------------------------------------------
TypeOK ==
    /\ path \in Daemons \cup {Systemd, None} /\ unit \in BOOLEAN
    /\ at \in [Daemons -> {"down", "listen", "remove", "bind", "serve", "failed"}]
    /\ fds \in [Daemons -> {0, 1, 2, None}]
    /\ listener \in [Daemons -> Daemons \cup {Systemd, None}]
    /\ \A d \in Daemons : listener[d] \in {d, Systemd, None}
    /\ \A d \in Daemons : at[d] = "serve" <=> listener[d] # None
    /\ \A d \in Daemons : fds[d] = None => at[d] \in {"down", "listen"}
    /\ contested \subseteq Daemons /\ killed \in BOOLEAN /\ outsiders \in BOOLEAN

(***************************************************************************)
(* Daemons that start over each other leave one that can be reached: while *)
(* nobody is killed, a daemon serves at the path or is about to, however   *)
(* the checks, removals and binds of several starts mix (a remove_file may *)
(* take the socket of a daemon that has just bound it).                    *)
(***************************************************************************)
SomebodyAnswers ==
    ~killed /\ Serving # {} => Answered \/ \E d \in Daemons : at[d] = "bind"

(***************************************************************************)
(* A start that nobody disturbs ends in a daemon that can be reached,      *)
(* whatever a daemon that was killed has left at the path, and fails only  *)
(* when another one was at the path in between.                            *)
(***************************************************************************)
UndisturbedStartsServe ==
    \A d \in Daemons :
        /\ at[d] = "failed" => d \in contested
        /\ at[d] = "bind" /\ d \notin contested => path = None

(***************************************************************************)
(* systemd keeps its path: daemons that inherit the unit's socket never    *)
(* take it from clients, killed or not; only one that was started with no  *)
(* or several descriptors does.                                            *)
(***************************************************************************)
SystemdKeepsItsPath == unit /\ ~outsiders => path = Systemd

=============================================================================
