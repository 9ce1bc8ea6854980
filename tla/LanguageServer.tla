--------------------------- MODULE LanguageServer ---------------------------
(***************************************************************************)
(* The life of a language server (LSPClient) and the watch on its memory   *)
(* (MemoryManager).  Each start makes a process, a manager and a monitor   *)
(* thread.  The thread may end the server when it needs too much memory,   *)
(* the server may end by itself, and the client stops it: it asks for a    *)
(* shutdown, waits, and has the manager end the process by force.          *)
(***************************************************************************)
EXTENDS Naturals

CONSTANTS
    MaxStarts,     \* bound on the processes that are started
    Psutil,        \* psutil is installed: managers can watch
    KillOnExceed   \* on_memory_exceed is KILL

ASSUME ServerAssumption == MaxStarts \in Nat /\ {Psutil, KillOnExceed} \subseteq BOOLEAN

VARIABLES
    client,     \* where the client's thread stands
    current,    \* the process the client has, 0 for none
    started,    \* how many were started
    server,     \* server[n]: the n-th process
    watched,    \* watched[n]: its manager has it in _process
    monitor,    \* monitor[n]: where its monitor thread stands
    exceeded    \* _memory_exceeded, which aborts requests

serverVars == <<client, current, started, server, watched, monitor, exceeded>>

Starts == 1 .. MaxStarts

ServerTypeOK ==
    /\ client \in {"down", "initializing", "up", "quitting", "terminating"}
    /\ current \in 0 .. MaxStarts
    /\ started \in 0 .. MaxStarts
    /\ server \in [Starts -> {"none", "alive", "dead"}]
    /\ watched \in [Starts -> BOOLEAN]
    /\ monitor \in [Starts -> {"none", "watching", "exceeding", "ended"}]
    /\ exceeded \in BOOLEAN

-----------------------------------------------------------------------------
ServerInit ==
    /\ client = "down"
    /\ current = 0
    /\ started = 0
    /\ server = [n \in Starts |-> "none"]
    /\ watched = [n \in Starts |-> FALSE]
    /\ monitor = [n \in Starts |-> "none"]
    /\ exceeded = FALSE

(* start: a process, a manager that watches it if it can, the handshake.   *)
(* (A start of a client that has a process only answers TRUE.)             *)
Launch ==
    /\ current = 0 /\ client = "down"
    /\ started < MaxStarts
    /\ LET n == started + 1 IN
         /\ started' = n
         /\ current' = n
         /\ server' = [server EXCEPT ![n] = "alive"]
         /\ watched' = [watched EXCEPT ![n] = Psutil]
         /\ monitor' = [monitor EXCEPT ![n] = IF Psutil THEN "watching" ELSE "none"]
    /\ exceeded' = FALSE
    /\ client' = "initializing"

(* A failed start that forgets its process.                                *)
InitializedForget(answered) ==
    /\ client = "initializing"
    /\ client' = IF answered THEN "up" ELSE "down"
    /\ current' = IF answered THEN current ELSE 0
    /\ UNCHANGED <<started, server, watched, monitor, exceeded>>

(* The answer to initialize, or none in time: then start stops the server. *)
Initialized(answered) ==
    /\ client = "initializing"
    /\ client' = IF answered THEN "up" ELSE "quitting"
    /\ UNCHANGED <<current, started, server, watched, monitor, exceeded>>

Stop ==
    /\ client = "up"
    /\ client' = "quitting"
    /\ UNCHANGED <<current, started, server, watched, monitor, exceeded>>

(* Shutdown and exit are sent; the server heeds them in time or does not.  *)
Quit(heeded) ==
    /\ client = "quitting"
    /\ client' = "terminating"
    /\ server' = IF heeded THEN [server EXCEPT ![current] = "dead"] ELSE server
    /\ UNCHANGED <<current, started, watched, monitor, exceeded>>

(* The manager terminates or kills the process it watches and stops        *)
(* watching; one that watches nothing does nothing.  Its thread may sleep  *)
(* on for longer than stop_monitoring joins it.                            *)
Terminate ==
    /\ client = "terminating"
    /\ IF watched[current]
       THEN /\ server' = [server EXCEPT ![current] = "dead"]
            /\ watched' = [watched EXCEPT ![current] = FALSE]
       ELSE UNCHANGED <<server, watched>>
    /\ current' = 0
    /\ client' = "down"
    /\ UNCHANGED <<started, monitor, exceeded>>

(* The server ends by itself.                                              *)
Die(n) ==
    /\ server[n] = "alive"
    /\ server' = [server EXCEPT ![n] = "dead"]
    /\ UNCHANGED <<client, current, started, watched, monitor, exceeded>>

(* The monitor thread wakes up: nothing to watch any more, or too much     *)
(* memory (or it sleeps again).                                            *)
Look(n, tooMuch) ==
    /\ monitor[n] = "watching"
    /\ IF watched[n] /\ server[n] = "alive"
       THEN tooMuch /\ monitor' = [monitor EXCEPT ![n] = "exceeding"]
       ELSE monitor' = [monitor EXCEPT ![n] = "ended"]
    /\ UNCHANGED <<client, current, started, server, watched, exceeded>>

(* _on_memory_exceed: requests are aborted, and the manager the client has *)
(* now kills its process.  The thread dies joining itself: the manager     *)
(* keeps the process.                                                      *)
Exceed(n) ==
    /\ monitor[n] = "exceeding"
    /\ exceeded' = TRUE
    /\ server' = IF KillOnExceed /\ current # 0 /\ watched[current]
                 THEN [server EXCEPT ![current] = "dead"] ELSE server
    /\ monitor' = [monitor EXCEPT ![n] = "ended"]
    /\ UNCHANGED <<client, current, started, watched>>

ServerNext ==
    \/ Launch
    \/ \E b \in BOOLEAN : Initialized(b) \/ Quit(b)
    \/ Stop
    \/ Terminate
    \/ \E n \in Starts : Die(n) \/ Exceed(n) \/ \E b \in BOOLEAN : Look(n, b)

ServerSpec == ServerInit /\ [][ServerNext]_serverVars

-----------------------------------------------------------------------------
(* Properties *)

(* No server outlives its client's interest in it: one that is alive is    *)
(* the client's current one, after a failed start, a kill or a stop that   *)
(* the server did not heed as well, if the manager can watch.              *)
NoOrphanServer ==
    Psutil => \A n \in Starts : server[n] = "alive" => n = current
=============================================================================
