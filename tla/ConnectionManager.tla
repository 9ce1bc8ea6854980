-------------------------- MODULE ConnectionManager --------------------------
(***************************************************************************)
(* The WebSocket connections of the web server (ConnectionManager).  One   *)
(* coroutine per client connects, receives until the client is gone, and   *)
(* disconnects; broadcasts send to one listed client after another.  The   *)
(* list is changed only under an asyncio lock, which a broadcast holds     *)
(* while it awaits every send.                                             *)
(***************************************************************************)
EXTENDS Naturals, Sequences, SequencesExt, Lists

CONSTANTS
    Client,
    Broadcast       \* the broadcasts that are made

NoOne == "nobody"

ASSUME ConnectionAssumption == NoOne \notin Client \cup Broadcast

VARIABLES
    endpoint,   \* endpoint[c]: where the coroutine of client c stands
    gone,       \* clients whose connection is broken
    listed,     \* _active_connections
    holder,     \* who holds _lock
    sending,    \* sending[b]: where broadcast b stands
    next,       \* next[b]: the place in the list it is at
    failed,     \* failed[b]: clients it could not send to
    audience,   \* history: audience[b]: who was listed when it began
    got         \* history: got[b][c]: how often c received it

connectionVars == <<endpoint, gone, listed, holder, sending, next, failed,
                    audience, got>>

perBroadcast == <<sending, next, failed, audience, got>>

ConnectionTypeOK ==
    /\ endpoint \in [Client -> {"new", "connecting", "open", "closing", "ended"}]
    /\ gone \subseteq Client
    /\ listed \in Seq(Client)
    /\ holder \in Broadcast \cup {NoOne}
    /\ sending \in [Broadcast -> {"idle", "waiting", "sending", "done"}]
    /\ next \in [Broadcast -> Nat]
    /\ failed \in [Broadcast -> SUBSET Client]
    /\ audience \in [Broadcast -> SUBSET Client]
    /\ got \in [Broadcast -> [Client -> Nat]]

-----------------------------------------------------------------------------
ConnectionInit ==
    /\ endpoint = [c \in Client |-> "new"]
    /\ gone = {}
    /\ listed = <<>>
    /\ holder = NoOne
    /\ sending = [b \in Broadcast |-> "idle"]
    /\ next = [b \in Broadcast |-> 1]
    /\ failed = [b \in Broadcast |-> {}]
    /\ audience = [b \in Broadcast |-> {}]
    /\ got = [b \in Broadcast |-> [c \in Client |-> 0]]

(* The connection is accepted; it is not listed yet.                       *)
Accept(c) ==
    /\ endpoint[c] = "new"
    /\ endpoint' = [endpoint EXCEPT ![c] = "connecting"]
    /\ UNCHANGED <<gone, listed, holder, perBroadcast>>

(* connect gets the lock, appends and releases it, with no await between.  *)
Connect(c) ==
    /\ endpoint[c] = "connecting"
    /\ holder = NoOne
    /\ listed' = Append(listed, c)
    /\ endpoint' = [endpoint EXCEPT ![c] = "open"]
    /\ UNCHANGED <<gone, holder, perBroadcast>>

(* The client closes, or the network does.                                 *)
Break(c) ==
    /\ endpoint[c] \in {"connecting", "open"}
    /\ c \notin gone
    /\ gone' = gone \cup {c}
    /\ UNCHANGED <<endpoint, listed, holder, perBroadcast>>

(* receive_text, or the pong, raises.                                      *)
Notice(c) ==
    /\ endpoint[c] = "open"
    /\ c \in gone
    /\ endpoint' = [endpoint EXCEPT ![c] = "closing"]
    /\ UNCHANGED <<gone, listed, holder, perBroadcast>>

(* A disconnect that does not wait for the lock.                           *)
DisconnectAtOnce(c) ==
    /\ endpoint[c] = "closing"
    /\ listed' = Without(listed, {c})
    /\ endpoint' = [endpoint EXCEPT ![c] = "ended"]
    /\ UNCHANGED <<gone, holder, perBroadcast>>

(* A disconnect that gives up when a broadcast has the lock.               *)
DisconnectIfFree(c) ==
    /\ endpoint[c] = "closing"
    /\ listed' = IF holder = NoOne THEN Without(listed, {c}) ELSE listed
    /\ endpoint' = [endpoint EXCEPT ![c] = "ended"]
    /\ UNCHANGED <<gone, holder, perBroadcast>>

(* The endpoint's finally clause: disconnect, under the lock.              *)
Disconnect(c) ==
    /\ endpoint[c] = "closing"
    /\ holder = NoOne
    /\ listed' = Without(listed, {c})
    /\ endpoint' = [endpoint EXCEPT ![c] = "ended"]
    /\ UNCHANGED <<gone, holder, perBroadcast>>

BeginBroadcast(b) ==
    /\ sending[b] = "idle"
    /\ sending' = [sending EXCEPT ![b] = "waiting"]
    /\ UNCHANGED <<endpoint, gone, listed, holder, next, failed, audience, got>>

TakeLock(b) ==
    /\ sending[b] = "waiting"
    /\ holder = NoOne
    /\ holder' = b
    /\ sending' = [sending EXCEPT ![b] = "sending"]
    /\ audience' = [audience EXCEPT ![b] = ToSet(listed)]
    /\ UNCHANGED <<endpoint, gone, listed, next, failed, got>>

(* One awaited send ends, by success or by an exception.                   *)
Send(b) ==
    /\ sending[b] = "sending"
    /\ next[b] <= Len(listed)
    /\ LET c == listed[next[b]] IN
         IF c \in gone
         THEN /\ failed' = [failed EXCEPT ![b] = @ \cup {c}]
              /\ UNCHANGED got
         ELSE /\ got' = [got EXCEPT ![b][c] = @ + 1]
              /\ UNCHANGED failed
    /\ next' = [next EXCEPT ![b] = @ + 1]
    /\ UNCHANGED <<endpoint, gone, listed, holder, sending, audience>>

(* An end that keeps the lock when there was nothing to clean up.          *)
EndHolding(b) ==
    /\ sending[b] = "sending"
    /\ next[b] > Len(listed)
    /\ listed' = Without(listed, failed[b])
    /\ holder' = IF failed[b] = {} THEN holder ELSE NoOne
    /\ sending' = [sending EXCEPT ![b] = "done"]
    /\ UNCHANGED <<endpoint, gone, next, failed, audience, got>>

(* After the last one those that failed are removed and the lock is free.  *)
EndBroadcast(b) ==
    /\ sending[b] = "sending"
    /\ next[b] > Len(listed)
    /\ listed' = Without(listed, failed[b])
    /\ holder' = NoOne
    /\ sending' = [sending EXCEPT ![b] = "done"]
    /\ UNCHANGED <<endpoint, gone, next, failed, audience, got>>

Endpoint(c) == Accept(c) \/ Connect(c) \/ Notice(c) \/ Disconnect(c)

Sender(b) == BeginBroadcast(b) \/ TakeLock(b) \/ Send(b) \/ EndBroadcast(b)

ConnectionNext ==
    \/ \E c \in Client : Endpoint(c) \/ Break(c)
    \/ \E b \in Broadcast : Sender(b)

ConnectionSpec == ConnectionInit /\ [][ConnectionNext]_connectionVars

(* The loop runs what is ready, every send ends, and the lock goes to its  *)
(* waiters in the order they came: nobody waits for it forever while it is *)
(* free again and again.                                                   *)
ConnectionFairness ==
    /\ \A c \in Client :
        /\ WF_connectionVars(Notice(c))
        /\ SF_connectionVars(Connect(c))
        /\ SF_connectionVars(Disconnect(c))
    /\ \A b \in Broadcast : WF_connectionVars(Send(b) \/ EndBroadcast(b))

-----------------------------------------------------------------------------
(* Properties *)

(* Whose endpoint has ended is not listed, whatever broadcasts are doing:  *)
(* nobody else would ever take it off the list of an idle server.          *)
EndedNotListed ==
    \A c \in Client : endpoint[c] = "ended" => c \notin ToSet(listed)

(* A broadcast reaches everybody who was listed when it began and is still *)
(* there, once, although others connect and leave while it awaits.         *)
AudienceReached ==
    \A b \in Broadcast : sending[b] = "done" =>
        \A c \in audience[b] \ gone : got[b][c] = 1

(* A client that connects is listed, and one that is gone is taken off, if *)
(* sends come to an end: the lock they wait for is always given back, so   *)
(* that again and again none of the clients is waiting for it.             *)
EndpointsGoOn ==
    []<>(\A c \in Client : endpoint[c] \notin {"connecting", "closing"})
=============================================================================
