--------------------------- MODULE SocketRegistry ---------------------------
(***************************************************************************)
(* WhatsAppGateway: which sockets are those of a user.  A socket is        *)
(* authenticated when it connects with a token, or by its first request    *)
(* that carries one; a broadcast goes to all sockets of a user, or to all  *)
(* sockets that are authenticated.  What the sessions emit is left out: it *)
(* goes to the one socket that started the session, by its id, and whose   *)
(* session that is neither the gateway nor startSession looks at.          *)
(*                                                                         *)
(* A disconnection clears nothing: the timers that would clear the maps    *)
(* are commented out (whatsapp.gateway.ts:56), and a user's set is dropped *)
(* by the first broadcast or query that finds nobody in it.  The counters  *)
(* of connectionStats and socketActivity, which are only reported, are     *)
(* left out.  The specification is GatewaySpec: with names of its own this *)
(* module can be extended together with another component.                 *)
(***************************************************************************)
EXTENDS Naturals, FiniteSets

CONSTANTS
    Sockets,  \* socket ids; a browser that reconnects gets a new one
    Users,
    Checks    \* room for requests being authenticated

Nobody == "none"

ASSUME SocketAssumption == Nobody \notin Users \cup Sockets

VARIABLES
    phase,        \* a socket id is "new", "live" or "dead"
    userId,       \* client.userId
    socketAuth,   \* user of a socket id, as in the map
    userSockets,  \* socket ids of a user; {} when the map has no entry
    checks,       \* init and reconnect_account requests awaiting validateToken
    raced,        \* history: sockets with requests awaiting at once for different users
    missed        \* history: live sockets that a broadcast meant for them did not reach

maps        == <<socketAuth, userSockets>>
history     == <<raced, missed>>
gatewayVars == <<phase, userId, maps, checks, history>>

-----------------------------------------------------------------------------

Live(s)     == phase[s] = "live"
Check(s, u) == [socket |-> s, user |-> u]
NoCheck     == Check(Nobody, Nobody)

\* Mutant: a socket that is authenticated again keeps its entry in the map.
SetSocketOnce(s, u) ==
    /\ userId' = [userId EXCEPT ![s] = u]
    /\ socketAuth' = [socketAuth EXCEPT ![s] = IF @ = Nobody THEN u ELSE @]
    /\ userSockets' = [userSockets EXCEPT ![u] = @ \cup {s}]

\* setSocketAuthentication.
SetSocketAuthentication(s, u) ==
    /\ userId' = [userId EXCEPT ![s] = u]
    /\ socketAuth' = [socketAuth EXCEPT ![s] = u]
    /\ userSockets' = [userSockets EXCEPT ![u] = @ \cup {s}]

\* authenticateSocket: the handshake has a valid token, or not.
AuthenticateSocket(s) ==
    \/ \E u \in Users : SetSocketAuthentication(s, u)
    \/ UNCHANGED <<userId, maps>>

\* handleConnection.
Connect(s) ==
    /\ phase[s] = "new"
    /\ phase' = [phase EXCEPT ![s] = "live"]
    /\ AuthenticateSocket(s)
    /\ UNCHANGED <<checks, history>>

\* handleDisconnect.
Disconnect(s) ==
    /\ Live(s)
    /\ phase' = [phase EXCEPT ![s] = "dead"]
    /\ UNCHANGED <<userId, maps, checks, history>>

\* Mutant: a token is taken from a socket that has a user.
AwaitTokenAgain(k, s, u) ==
    /\ Live(s) /\ checks[k] = NoCheck
    /\ checks' = [checks EXCEPT ![k] = Check(s, u)]
    /\ raced' = IF \E l \in Checks : checks[l].socket = s /\ checks[l].user # u
               THEN raced \cup {s} ELSE raced
    /\ UNCHANGED <<phase, userId, maps, missed>>

\* init and reconnect_account take a token only for a socket that has no user.
AwaitToken(k, s, u) ==
    /\ Live(s) /\ userId[s] = Nobody /\ checks[k] = NoCheck
    /\ checks' = [checks EXCEPT ![k] = Check(s, u)]
    /\ raced' = IF \E l \in Checks : checks[l].socket = s /\ checks[l].user # u
               THEN raced \cup {s} ELSE raced
    /\ UNCHANGED <<phase, userId, maps, missed>>

\* validateToken is awaited; the socket may have a user, or be gone, by now.
Validated(k) ==
    /\ checks[k] # NoCheck
    /\ SetSocketAuthentication(checks[k].socket, checks[k].user)
    /\ checks' = [checks EXCEPT ![k] = NoCheck]
    /\ UNCHANGED <<phase, history>>

NotValidated(k) ==
    /\ checks[k] # NoCheck
    /\ checks' = [checks EXCEPT ![k] = NoCheck]
    /\ UNCHANGED <<phase, userId, maps, history>>

Audience(u) == {s \in userSockets[u] : Live(s)}

\* Mutant: the set goes with the first socket that is not there any more.
DropStale(u) ==
    userSockets' = [userSockets EXCEPT ![u] = IF Audience(u) # @ THEN {} ELSE @]

\* The set of a user none of whose sockets is there is dropped.
DropOrphaned(u) ==
    userSockets' = [userSockets EXCEPT ![u] = IF Audience(u) = {} THEN {} ELSE @]

\* broadcastToUser.
BroadcastToUser(u) ==
    /\ userSockets[u] # {}
    /\ missed' = missed \cup ({s \in Sockets : Live(s) /\ userId[s] = u} \ Audience(u))
    /\ DropOrphaned(u)
    /\ UNCHANGED <<phase, userId, socketAuth, checks, raced>>

\* broadcastToAll.
BroadcastToAll ==
    /\ missed' = missed \cup ({s \in Sockets : Live(s) /\ userId[s] # Nobody}
                               \ {s \in Sockets : Live(s) /\ socketAuth[s] # Nobody})
    /\ UNCHANGED <<phase, userId, maps, checks, raced>>

\* isUserConnected, and what it answers.
IsUserConnected(u) == Audience(u) # {}
AskUserConnected(u) ==
    /\ userSockets[u] # {} /\ ~IsUserConnected(u)
    /\ DropOrphaned(u)
    /\ UNCHANGED <<phase, userId, socketAuth, checks, history>>

GatewayInit ==
    /\ phase = [s \in Sockets |-> "new"]
    /\ userId = [s \in Sockets |-> Nobody] /\ socketAuth = [s \in Sockets |-> Nobody]
    /\ userSockets = [u \in Users |-> {}]
    /\ checks = [k \in Checks |-> NoCheck]
    /\ raced = {} /\ missed = {}

GatewayNext ==
    \/ \E s \in Sockets : Connect(s) \/ Disconnect(s)
    \/ \E k \in Checks : Validated(k) \/ NotValidated(k)
                          \/ \E s \in Sockets, u \in Users : AwaitToken(k, s, u)
    \/ \E u \in Users : BroadcastToUser(u) \/ AskUserConnected(u)
    \/ BroadcastToAll

GatewaySpec == GatewayInit /\ [][GatewayNext]_gatewayVars

-----------------------------------------------------------------------------
(* Properties *)

\* Types.
GatewayTypeOK ==
    /\ phase \in [Sockets -> {"new", "live", "dead"}]
    /\ userId \in [Sockets -> Users \cup {Nobody}]
    /\ socketAuth = userId
    /\ userSockets \in [Users -> SUBSET Sockets]
    /\ checks \in [Checks -> [socket : Sockets, user : Users] \cup {NoCheck}]
    /\ raced \subseteq Sockets /\ missed \subseteq Sockets

\* A broadcast reaches every live socket it is meant for, and a user with a live socket is
\* told to be connected: the sets are dropped only when nobody is in them, however
\* connections, reconnections and late authentications follow each other
\* (whatsapp.gateway.ts:479, 541).
ReachesUser ==
    /\ missed = {}
    /\ \A s \in Sockets : Live(s) /\ userId[s] # Nobody => IsUserConnected(userId[s])

\* broadcastToUser: the sockets that get the events of u.
Hears(s, u) == s \in Audience(u)

\* A user's broadcasts are heard only by sockets that are authenticated as that user,
\* with any number of requests awaiting validateToken at once: all of them found the socket
\* without a user (whatsapp.gateway.ts:94).  Except where requests with tokens of different
\* users overlapped on the socket, which both of them then claim.
HearsOwnBroadcasts ==
    \A s \in Sockets \ raced, u \in Users : Hears(s, u) => userId[s] = u
=============================================================================
