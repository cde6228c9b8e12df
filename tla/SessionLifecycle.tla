-------------------------- MODULE SessionLifecycle --------------------------
(***************************************************************************)
(* The life of the WhatsApp session of one account: starting it from a     *)
(* socket, restoring it after a restart, reconnecting it by QR code,       *)
(* recovering it when the connection is lost, releasing it, and wiping it  *)
(* on logout and account deletion.  All of these find the session under    *)
(* its clientId in SessionManagerService's map, and all of them suspend    *)
(* while others run.  Sessions of different clientIds share nothing.       *)
(*                                                                         *)
(* A step of a procedure is the code between two of its awaits.  A Client  *)
(* of whatsapp-web.js is an instance; it emits its events to the handlers  *)
(* that EventHandlerService attached to it.                                *)
(***************************************************************************)
EXTENDS Naturals, FiniteSets

CONSTANTS
    Instances,     \* Client objects
    Procs,         \* room for procedures and event handlers in progress
    SoftAttempts,  \* MAX_SOFT_INIT_ATTEMPTS
    Requests       \* bound: the requests that arrive, of AllRequests

None == "none"

AllRequests == {"start", "relink", "restore", "release", "delete"}

ASSUME SessionAssumption ==
    /\ None \notin Instances
    /\ SoftAttempts \in Nat \ {0}
    /\ Requests \subseteq AllRequests

VARIABLES
    session,     \* clientStates: the registered client, or None
    isReady,     \* isReady of the registered session
    client,      \* what each Client object is doing
    listeners,   \* Client objects that have their handlers attached
    procs,       \* procedures and handlers in progress
    wipe,        \* the delayed cleanup of a deleted account (pendingCleanups)
    booting,     \* the restoration of the sessions on disk is still to come
    account,     \* whether the account's document exists; its status, which the code
                 \* writes for display and never acts on, is left out
    auth,        \* whether there are files of the session under .wwebjs_auth
    farewell,    \* history: logged out or deleted since it was last linked
    overtaken    \* history: it was last linked while a deletion of its files was under way

vars == <<session, isReady, client, listeners, procs, wipe, booting, account, auth, farewell,
          overtaken>>

-----------------------------------------------------------------------------
(* Procedures *)

ReconnectPcs == {"soft", "gap", "find", "destroyPrior", "initRebuild", "authRebuild",
                 "connectedRebuild", "giveUp"}
RestorePcs   == {"initRestore", "authRestore", "connectedRestore", "teardown",
                 "destroySpecific", "initSpecific"}
QrPcs        == {"destroyQr", "initQr", "releaseQr"}
HandlerPcs   == {"ready", "apiKey", "dropped", "logoutFind"}

\* The deletions of the files in progress: those of a logout and of a deleted account wait
\* three seconds (files...) and are then pending (delete...); those of a session that had no
\* account at start-up; those left to a timer because the files were locked.
DeletePcs == {"deleteLogout", "deleteWipe", "deleteOrphan"}
WipingPcs == {"logout", "logoutTimer", "logoutWait", "destroyLogout", "filesLogout",
              "destroyWipe", "filesWipe", "orphan", "lateFiles"} \cup DeletePcs
Pcs == {"idle", "initStart", "release", "delete", "accounts", "restoreKnown"}
         \cup ReconnectPcs \cup RestorePcs \cup QrPcs \cup HandlerPcs \cup WipingPcs

Proc(pc, i, n) == [pc |-> pc, client |-> i, tries |-> n]
NoProc         == Proc("idle", None, 0)
ProcSet == [pc : Pcs, client : Instances \cup {None}, tries : 0 .. SoftAttempts - 1]

Begin(p, pc, i) == procs[p] = NoProc /\ procs' = [procs EXCEPT ![p] = Proc(pc, i, 0)]
Goto(p, pc)     == procs' = [procs EXCEPT ![p] = Proc(pc, @.client, @.tries)]
GotoWith(p, pc, i) == procs' = [procs EXCEPT ![p] = Proc(pc, i, 0)]
End(p)          == procs' = [procs EXCEPT ![p] = NoProc]

\* reconnectInFlight holds the key exactly while a run is in progress, and so does
\* the initializationQueue for "reconnect-<clientId>".
Reconnecting == \E p \in Procs : procs[p].pc \in ReconnectPcs
Relinking    == \E p \in Procs : procs[p].pc \in QrPcs

\* pendingDeletions holds the clientId.
Deleting     == \E p \in Procs : procs[p].pc \in DeletePcs
WipeUnderWay == wipe # None \/ \E p \in Procs : procs[p].pc \in WipingPcs

-----------------------------------------------------------------------------
(* The registry and the clients *)

\* A client is "off" before it is initialized and once it is destroyed, "starting" while
\* its browser loads, "open" when it waits for a QR scan or for WhatsApp, "up" when it
\* is connected, "lost" when the connection or the page has died.
ClientStates == {"off", "starting", "open", "up", "lost"}

\* Places for a new Client object: those no procedure refers to, and that are not
\* registered or are about to be dropped from the registry.  A client may still run
\* there; the model forgets such a client when it needs the place.
Places == {i \in Instances : \A p \in Procs : procs[p].client # i}
Free   == Places \ {session}

Unregister == session' = None /\ isReady' = FALSE

\* updateClientState changes the session registered now, if there is one.
SetReady == isReady' = (session # None)
SetNotReady == isReady' = FALSE

\* A new Client is registered, given its handlers, and told to initialize.
Launch(i) ==
    /\ session' = i /\ isReady' = FALSE
    /\ listeners' = listeners \cup {i}
    /\ client' = [client EXCEPT ![i] = "starting"]

\* The registered client is used again by createSession, with further handlers.
Relaunch(i) ==
    /\ i = session /\ UNCHANGED <<session, isReady>>
    /\ listeners' = listeners \cup {i}
    /\ client' = [client EXCEPT ![i] = "starting"]

Initialized(i) ==
    /\ client[i] # "off"
    /\ client' = [client EXCEPT ![i] = IF @ = "starting" THEN "open" ELSE @]

\* initialize rejects: before the browser runs, or after.
NotInitialized(i) == client' \in {client, [client EXCEPT ![i] = "lost"], [client EXCEPT ![i] = "off"]}

Destroyed(i) == client' = [client EXCEPT ![i] = "off"]

-----------------------------------------------------------------------------
(* Starting and re-linking a session *)

\* startSession, doStartSession: a session that is not ready is taken over.
StartSession(p) ==
    /\ "start" \in Requests /\ ~isReady
    /\ \E i \in Instances :
         /\ \/ session = None /\ i \in Free /\ Launch(i)
            \/ Relaunch(i)
         /\ Begin(p, "initStart", i)
    /\ UNCHANGED <<wipe, booting, account, auth, farewell, overtaken>>

\* On an error the session is unregistered; its client is not destroyed.
StartSessionDone(p) ==
    /\ procs[p].pc = "initStart"
    /\ End(p)
    /\ \/ Initialized(procs[p].client) /\ UNCHANGED <<session, isReady>>
       \/ NotInitialized(procs[p].client) /\ Unregister
    /\ UNCHANGED <<listeners, wipe, booting, account, auth, farewell, overtaken>>

\* runInteractiveReconnect.  The soft reconnect that reconnectAccountWithQr awaits
\* before it, and the release that follows, are Reconnect and Release.
Relink(p) ==
    /\ "relink" \in Requests /\ ~isReady /\ ~Relinking /\ account
    /\ \/ /\ session = None
          /\ \E i \in Free : Launch(i) /\ Begin(p, "initQr", i)
       \/ /\ session # None
          /\ SetNotReady /\ Begin(p, "destroyQr", session)
          /\ UNCHANGED <<session, client, listeners>>
    /\ UNCHANGED <<wipe, booting, account, auth, farewell, overtaken>>

\* releaseClientMemory unregisters what is registered by now; createSession then
\* finds nothing and makes a new client.
RelinkReleased(p) ==
    /\ procs[p].pc = "destroyQr"
    /\ \E i \in Places :
         /\ session' = i /\ isReady' = FALSE
         /\ listeners' = listeners \cup {i}
         /\ client' = [client EXCEPT ![procs[p].client] = "off", ![i] = "starting"]
         /\ GotoWith(p, "initQr", i)
    /\ UNCHANGED <<wipe, booting, account, auth, farewell, overtaken>>

RelinkDone(p) ==
    /\ procs[p].pc = "initQr"
    /\ \/ Initialized(procs[p].client) /\ End(p) /\ UNCHANGED isReady
       \/ /\ NotInitialized(procs[p].client)
          /\ SetNotReady
          /\ IF session = None THEN End(p) ELSE GotoWith(p, "releaseQr", session)
    /\ UNCHANGED <<session, listeners, wipe, booting, account, auth, farewell, overtaken>>

-----------------------------------------------------------------------------
(* Restoring a session from disk *)

\* loadClientsFromSessions, five seconds after start-up: the folders are listed, the
\* accounts of all of them are read, and then the sessions are taken one by one, which may
\* be minutes later.
LoadFolders(p) ==
    /\ booting /\ booting' = FALSE
    /\ IF auth THEN Begin(p, "accounts", None) ELSE UNCHANGED procs
    /\ UNCHANGED <<session, isReady, client, listeners, wipe, account, auth, farewell, overtaken>>

LoadAccounts(p) ==
    /\ procs[p].pc = "accounts"
    /\ Goto(p, IF account THEN "restoreKnown" ELSE "orphan") \/ End(p)
    /\ UNCHANGED <<session, isReady, client, listeners, wipe, booting, account, auth, farewell,
                   overtaken>>

\* The turn of a session that had an account, unless its files are gone or unreadable, it is
\* loaded by now, or an earlier turn ended the loop with an error.
LoadSession(p) ==
    /\ procs[p].pc = "restoreKnown"
    /\ \/ /\ auth /\ session = None
          /\ \E i \in Free : Launch(i) /\ GotoWith(p, "initRestore", i)
       \/ End(p) /\ UNCHANGED <<session, isReady, client, listeners>>
    /\ UNCHANGED <<wipe, booting, account, auth, farewell, overtaken>>

\* The turn of one that had none: cleanupSessionFiles, up to its wait for the files.
CleanOrphan(p) ==
    /\ procs[p].pc = "orphan"
    /\ \/ auth /\ ~Deleting /\ Goto(p, "deleteOrphan")
       \/ End(p)
    /\ UNCHANGED <<session, isReady, client, listeners, wipe, booting, account, auth, farewell,
                   overtaken>>

\* restoreSpecificSession, without any lock.
RestoreSpecific(p) ==
    /\ "restore" \in Requests /\ ~isReady /\ account
    /\ \/ /\ session = None
          /\ \E i \in Free : Launch(i) /\ Begin(p, "initSpecific", i)
       \/ /\ session # None
          /\ listeners' = listeners \ {session}
          /\ Begin(p, "destroySpecific", session)
          /\ UNCHANGED <<session, isReady, client>>
    /\ UNCHANGED <<wipe, booting, account, auth, farewell, overtaken>>

RestoreSpecificLaunch(p) ==
    /\ procs[p].pc = "destroySpecific"
    /\ \E i \in Places :
         /\ session' = i /\ isReady' = FALSE
         /\ listeners' = listeners \cup {i}
         /\ client' = [client EXCEPT ![procs[p].client] = "off", ![i] = "starting"]
         /\ GotoWith(p, "initSpecific", i)
    /\ UNCHANGED <<wipe, booting, account, auth, farewell, overtaken>>

\* On an error the session is unregistered; its client is not destroyed.
RestoreSpecificDone(p) ==
    /\ procs[p].pc = "initSpecific"
    /\ \/ Initialized(procs[p].client) /\ Goto(p, "authRestore") /\ UNCHANGED <<session, isReady>>
       \/ NotInitialized(procs[p].client) /\ Unregister /\ End(p)
    /\ UNCHANGED <<listeners, wipe, booting, account, auth, farewell, overtaken>>

\* restoreSessionSilently after initialize.
RestoreInitialized(p) ==
    LET i == procs[p].client IN
    /\ procs[p].pc = "initRestore"
    /\ \/ Initialized(i) /\ Goto(p, "authRestore") /\ UNCHANGED listeners
       \/ NotInitialized(i) /\ Goto(p, "teardown") /\ listeners' = listeners \ {i}
    /\ UNCHANGED <<session, isReady, wipe, booting, account, auth, farewell, overtaken>>

\* waitForSessionAuth resolves: with a ready event heard since it was called, or
\* with a QR code, an authentication failure or the timeout.
RestoreAuth(p) ==
    LET i == procs[p].client IN
    /\ \/ procs[p].pc = "connectedRestore" /\ End(p) /\ UNCHANGED listeners
       \/ procs[p].pc = "authRestore" /\ Goto(p, "teardown") /\ listeners' = listeners \ {i}
    /\ UNCHANGED <<session, isReady, client, wipe, booting, account, auth, farewell, overtaken>>

\* teardownUnrestorableSession: destroy, unregister, and note that a QR code is due.
Teardown(p) ==
    /\ procs[p].pc = "teardown"
    /\ Destroyed(procs[p].client) /\ Unregister /\ End(p)
    /\ UNCHANGED <<listeners, wipe, booting, account, auth, farewell, overtaken>>

-----------------------------------------------------------------------------
(* Recovering a session: handleReconnection and recreateClientFromAuth *)

\* runReconnection up to its first await, in the place of procedure p.
RunReconnection(p) ==
    /\ IF session = None
       THEN GotoWith(p, "find", None) /\ UNCHANGED client
       ELSE /\ GotoWith(p, "soft", session)
            /\ client' = [client EXCEPT ![session] = "starting"]
    /\ SetNotReady

\* The health probe finds a session not connected (or too slow to say), a send fails on
\* the session it captured, or the user asks; there has been an account, but it and the
\* session may be gone by now.
Reconnect(p) ==
    /\ procs[p] = NoProc /\ ~Reconnecting
    /\ account \/ farewell
    /\ RunReconnection(p)
    /\ UNCHANGED <<session, listeners, wipe, booting, account, auth, farewell, overtaken>>

\* Mutant: one soft attempt too many.
SoftInitOnceMore(p) ==
    /\ procs[p].pc = "soft"
    /\ procs' = [procs EXCEPT ![p] = IF @.tries <= SoftAttempts THEN Proc("gap", None, @.tries + 1)
                                     ELSE Proc("find", None, 0)]
    /\ UNCHANGED <<session, isReady, client, listeners, wipe, booting, account, auth, farewell,
                   overtaken>>

\* Soft attempts: initialize and getState of the captured client; success marks the
\* session registered by now.
SoftInit(p) ==
    LET i == procs[p].client IN
    /\ procs[p].pc = "soft"
    /\ \/ /\ client[i] \in {"starting", "open", "up"}
          /\ client' = [client EXCEPT ![i] = "up"]
          /\ SetReady /\ End(p)
       \/ /\ procs' = [procs EXCEPT ![p] =
                         IF @.tries + 1 < SoftAttempts THEN Proc("gap", None, @.tries + 1)
                         ELSE Proc("find", None, 0)]
          /\ UNCHANGED <<client, isReady>>
    /\ UNCHANGED <<session, listeners, wipe, booting, account, auth, farewell, overtaken>>

SoftRetry(p) ==
    /\ procs[p].pc = "gap"
    /\ IF session = None
       THEN GotoWith(p, "find", None) /\ UNCHANGED client
       ELSE /\ procs' = [procs EXCEPT ![p] = Proc("soft", session, @.tries)]
            /\ client' = [client EXCEPT ![session] = "starting"]
    /\ UNCHANGED <<session, isReady, listeners, wipe, booting, account, auth, farewell,
                   overtaken>>

\* runRecreate up to the destruction of the prior client.
FindAccount(p) ==
    /\ procs[p].pc = "find"
    /\ \/ /\ ~account /\ End(p)
          /\ UNCHANGED <<session, isReady, client, listeners>>
       \/ /\ account /\ session # None
          /\ listeners' = listeners \ {session}
          /\ GotoWith(p, "destroyPrior", session)
          /\ UNCHANGED <<session, isReady, client>>
       \/ /\ account /\ session = None
          /\ \E i \in Free : Launch(i) /\ GotoWith(p, "initRebuild", i)
    /\ UNCHANGED <<wipe, booting, account, auth, farewell, overtaken>>

\* The prior client is destroyed, or destroying it failed or took 25 s; whatever is
\* registered is replaced by a new client.
Rebuild(p) ==
    /\ procs[p].pc = "destroyPrior"
    /\ \E i \in Places, st \in {"off", client[procs[p].client]} :
         /\ session' = i /\ isReady' = FALSE
         /\ listeners' = listeners \cup {i}
         /\ client' = [client EXCEPT ![procs[p].client] = st, ![i] = "starting"]
         /\ GotoWith(p, "initRebuild", i)
    /\ UNCHANGED <<wipe, booting, account, auth, farewell, overtaken>>

\* On an error the session is unregistered; its client is not destroyed.
RebuildInitialized(p) ==
    /\ procs[p].pc = "initRebuild"
    /\ \/ Initialized(procs[p].client) /\ Goto(p, "authRebuild") /\ UNCHANGED <<session, isReady>>
       \/ NotInitialized(procs[p].client) /\ Unregister /\ End(p)
    /\ UNCHANGED <<listeners, wipe, booting, account, auth, farewell, overtaken>>

\* waitForConnected resolves; see RestoreAuth.
RebuildAuth(p) ==
    /\ \/ procs[p].pc = "connectedRebuild" /\ SetReady /\ End(p)
          /\ UNCHANGED listeners
       \/ procs[p].pc = "authRebuild" /\ Goto(p, "giveUp") /\ UNCHANGED isReady
          /\ listeners' = listeners \ {procs[p].client}
    /\ UNCHANGED <<session, client, wipe, booting, account, auth, farewell, overtaken>>

\* Mutant: the session of the client that was given up stays registered.
GiveUpKeepsSession(p) ==
    /\ procs[p].pc = "giveUp"
    /\ Destroyed(procs[p].client) /\ End(p)
    /\ UNCHANGED <<session, isReady, listeners, wipe, booting, account, auth, farewell,
                   overtaken>>

GiveUp(p) ==
    /\ procs[p].pc = "giveUp"
    /\ Destroyed(procs[p].client) /\ Unregister /\ End(p)
    /\ UNCHANGED <<listeners, wipe, booting, account, auth, farewell, overtaken>>

-----------------------------------------------------------------------------
(* Events of the clients *)

\* "ready": the session is authenticated, the procedures that wait for the event of
\* this client are resolved, and handleClientReady begins.
Ready(i, p) ==
    /\ i \in listeners /\ client[i] \in {"starting", "open"} /\ procs[p] = NoProc
    /\ client' = [client EXCEPT ![i] = "up"]
    /\ auth' = TRUE
    /\ procs' = [q \in Procs |->
                   IF q = p THEN Proc("ready", i, 0)
                   ELSE IF procs[q] = Proc("authRestore", i, 0) THEN Proc("connectedRestore", i, 0)
                   ELSE IF procs[q] = Proc("authRebuild", i, 0) THEN Proc("connectedRebuild", i, 0)
                   ELSE procs[q]]
    /\ UNCHANGED <<session, isReady, listeners, wipe, booting, account, farewell, overtaken>>

\* handleAccountReady: the account is written, and created if it is not there.  A failure
\* of that, or of the API key that follows, ends the handler.
AccountReady(p) ==
    /\ procs[p].pc = "ready"
    /\ \/ /\ account' = TRUE /\ farewell' = FALSE /\ overtaken' = WipeUnderWay
          /\ Goto(p, "apiKey") \/ End(p)
       \/ End(p) /\ UNCHANGED <<account, farewell, overtaken>>
    /\ UNCHANGED <<session, isReady, client, listeners, wipe, booting, auth>>

\* updateClientState marks the session registered now.
SessionReady(p) ==
    /\ procs[p].pc = "apiKey"
    /\ SetReady /\ End(p)
    /\ UNCHANGED <<session, client, listeners, wipe, booting, account, auth, farewell, overtaken>>

\* The page or the browser dies without an event.
Die(i) ==
    /\ client[i] = "up"
    /\ client' = [client EXCEPT ![i] = "lost"]
    /\ UNCHANGED <<session, isReady, listeners, procs, wipe, booting, account, auth, farewell,
                   overtaken>>

\* "disconnected", by a logout on the phone or otherwise.
Disconnected(i, p) ==
    /\ i \in listeners /\ client[i] \in {"open", "up"}
    /\ client' = [client EXCEPT ![i] = "lost"]
    /\ SetNotReady
    /\ \/ Begin(p, "logout", i) /\ farewell' = TRUE
       \/ Begin(p, "dropped", i) /\ UNCHANGED farewell
    /\ UNCHANGED <<session, listeners, wipe, booting, account, auth, overtaken>>

\* The account is still there: join the reconnection in progress, or begin one.
Dropped(p) ==
    /\ procs[p].pc = "dropped"
    /\ IF ~account \/ Reconnecting
       THEN End(p) /\ UNCHANGED <<client, isReady>>
       ELSE RunReconnection(p)
    /\ UNCHANGED <<session, listeners, wipe, booting, account, auth, farewell, overtaken>>

-----------------------------------------------------------------------------
(* Logout, deletion and release *)

LogoutMark(p) ==
    /\ procs[p].pc = "logout"
    /\ listeners' = listeners \ {procs[p].client}
    /\ Goto(p, "logoutTimer")
    /\ UNCHANGED <<session, isReady, client, wipe, booting, account, auth, farewell, overtaken>>

\* handleLogout, a second later: with no session registered it gives up.
HandleLogout(p) ==
    /\ procs[p].pc = "logoutTimer"
    /\ IF session = None THEN End(p) ELSE Goto(p, "logoutWait")
    /\ UNCHANGED <<session, isReady, client, listeners, wipe, booting, account, auth, farewell,
                   overtaken>>

\* cleanupClient takes the session registered two seconds later.
LogoutCleanup(p) ==
    /\ procs[p].pc = "logoutWait"
    /\ IF session = None
       THEN GotoWith(p, "logoutFind", None) /\ UNCHANGED isReady
       ELSE GotoWith(p, "destroyLogout", session) /\ SetNotReady
    /\ UNCHANGED <<session, client, listeners, wipe, booting, account, auth, farewell, overtaken>>

\* performCleanup: destroyClientSafely, which always completes.
CleanupDestroyed(p) ==
    /\ procs[p].pc \in {"destroyLogout", "destroyWipe"}
    /\ Destroyed(procs[p].client)
    /\ Goto(p, IF procs[p].pc = "destroyLogout" THEN "filesLogout" ELSE "filesWipe")
    /\ UNCHANGED <<session, isReady, listeners, wipe, booting, account, auth, farewell,
                   overtaken>>

\* How a deletion of the files ends: a cleanup goes on to unregister the session.
FilesDone(p) ==
    /\ IF procs[p].pc = "deleteOrphan" THEN UNCHANGED <<session, isReady>> ELSE Unregister
    /\ wipe' = IF procs[p].pc \in {"filesWipe", "deleteWipe"} THEN None ELSE wipe
AfterFiles(p) ==
    IF procs[p].pc \in {"filesLogout", "deleteLogout"} THEN Proc("logoutFind", None, 0)
    ELSE NoProc

\* cleanupSessionFiles, three seconds later: nothing to do when the files are gone or their
\* deletion is pending.
WipeFiles(p) ==
    /\ procs[p].pc \in {"filesLogout", "filesWipe"}
    /\ IF auth /\ ~Deleting
       THEN /\ Goto(p, IF procs[p].pc = "filesLogout" THEN "deleteLogout" ELSE "deleteWipe")
            /\ UNCHANGED <<session, isReady, wipe>>
       ELSE FilesDone(p) /\ procs' = [procs EXCEPT ![p] = AfterFiles(p)]
    /\ UNCHANGED <<client, listeners, booting, account, auth, farewell, overtaken>>

\* The files are deleted at one of five attempts, or they are not; locked ones are left
\* to a timer.
DeleteFiles(p) ==
    /\ procs[p].pc \in DeletePcs
    /\ FilesDone(p)
    /\ \/ auth' \in {FALSE, auth} /\ procs' = [procs EXCEPT ![p] = AfterFiles(p)]
       \/ /\ UNCHANGED auth
          /\ \E q \in Procs \ {p} :
               /\ procs[q] = NoProc
               /\ procs' = [procs EXCEPT ![p] = AfterFiles(p), ![q] = Proc("lateFiles", None, 0)]
    /\ UNCHANGED <<client, listeners, booting, account, farewell, overtaken>>

\* scheduleDelayedDeletion, 10 or 40 seconds later.
LateDeletion(p) ==
    /\ procs[p].pc = "lateFiles"
    /\ auth' \in {FALSE, auth} /\ End(p)
    /\ UNCHANGED <<session, isReady, client, listeners, wipe, booting, account, farewell,
                   overtaken>>

\* handleLogout deletes the account it finds, and deleteAccount the one it was given, unless
\* that fails or another document has taken its place.
DeleteDocument(p) ==
    /\ procs[p].pc \in {"logoutFind", "delete"}
    /\ End(p)
    /\ \/ account' = FALSE /\ farewell' = TRUE
       \/ UNCHANGED <<account, farewell>>
    /\ UNCHANGED <<session, isReady, client, listeners, wipe, booting, auth, overtaken>>

\* deleteAccount: the cleanup is scheduled, unless one is, and then the account goes.
DeleteAccount(p) ==
    /\ "delete" \in Requests /\ account
    /\ Begin(p, "delete", None)
    /\ wipe' = IF wipe = None THEN "scheduled" ELSE wipe
    /\ farewell' = TRUE
    /\ UNCHANGED <<session, isReady, client, listeners, booting, account, auth, overtaken>>

\* The scheduled cleanup takes the session registered by then, and leaves the files
\* alone when there is none.
CleanupFires(p) ==
    /\ wipe = "scheduled"
    /\ IF session = None
       THEN wipe' = None /\ UNCHANGED <<isReady, procs>>
       ELSE wipe' = "running" /\ SetNotReady /\ Begin(p, "destroyWipe", session)
    /\ UNCHANGED <<session, client, listeners, booting, account, auth, farewell, overtaken>>

\* releaseClientMemory and forceCleanupClient keep the files.
Release(p) ==
    /\ "release" \in Requests /\ session # None
    /\ SetNotReady /\ Begin(p, "release", session)
    /\ UNCHANGED <<session, client, listeners, wipe, booting, account, auth, farewell, overtaken>>

\* Mutant: releasing a session deletes its files.
ReleasedWiped(p) ==
    /\ procs[p].pc \in {"release", "releaseQr"}
    /\ Destroyed(procs[p].client) /\ Unregister /\ End(p)
    /\ auth' = FALSE
    /\ UNCHANGED <<listeners, wipe, booting, account, farewell, overtaken>>

Released(p) ==
    /\ procs[p].pc \in {"release", "releaseQr"}
    /\ Destroyed(procs[p].client) /\ Unregister /\ End(p)
    /\ UNCHANGED <<listeners, wipe, booting, account, auth, farewell, overtaken>>

\* The process ends and is started again; the browsers end with it.
Crash ==
    /\ Unregister
    /\ client' = [i \in Instances |-> "off"] /\ listeners' = {}
    /\ procs' = [p \in Procs |-> NoProc] /\ wipe' = None
    /\ booting' = TRUE /\ overtaken' = FALSE
    /\ UNCHANGED <<account, auth, farewell>>

-----------------------------------------------------------------------------
(* Specification *)

Init ==
    /\ session = None /\ isReady = FALSE
    /\ client = [i \in Instances |-> "off"] /\ listeners = {}
    /\ procs = [p \in Procs |-> NoProc]
    /\ wipe = None /\ booting = TRUE
    /\ account = FALSE /\ auth = FALSE
    /\ farewell = FALSE /\ overtaken = FALSE

\* The steps of procedures in progress.
Proceed(p) ==
    \/ StartSessionDone(p) \/ RelinkReleased(p) \/ RelinkDone(p)
    \/ RestoreSpecificLaunch(p) \/ RestoreSpecificDone(p)
    \/ LoadAccounts(p) \/ LoadSession(p) \/ CleanOrphan(p)
    \/ RestoreInitialized(p) \/ RestoreAuth(p) \/ Teardown(p)
    \/ SoftInit(p) \/ SoftRetry(p) \/ FindAccount(p) \/ Rebuild(p)
    \/ RebuildInitialized(p) \/ RebuildAuth(p) \/ GiveUp(p)
    \/ AccountReady(p) \/ SessionReady(p) \/ Dropped(p)
    \/ LogoutMark(p) \/ HandleLogout(p) \/ LogoutCleanup(p) \/ CleanupDestroyed(p)
    \/ WipeFiles(p) \/ DeleteFiles(p) \/ LateDeletion(p)
    \/ DeleteDocument(p) \/ Released(p)

\* What begins one.
Call(p) ==
    \/ StartSession(p) \/ Relink(p) \/ LoadFolders(p) \/ RestoreSpecific(p)
    \/ Reconnect(p) \/ Release(p) \/ DeleteAccount(p) \/ CleanupFires(p)

Next ==
    \/ \E p \in Procs : Proceed(p) \/ Call(p)
    \/ \E i \in Instances, p \in Procs : Ready(i, p) \/ Disconnected(i, p)
    \/ \E i \in Instances : Die(i)
    \/ Crash

Spec == Init /\ [][Next]_vars

-----------------------------------------------------------------------------
(* Properties *)

\* Types; a reconnection makes at most MAX_SOFT_INIT_ATTEMPTS soft attempts
\* (reconnection.service.ts:50).
TypeOK ==
    /\ session \in Instances \cup {None} /\ isReady \in BOOLEAN
    /\ client \in [Instances -> ClientStates] /\ listeners \subseteq Instances
    /\ procs \in [Procs -> ProcSet]
    /\ wipe \in {None, "scheduled", "running"}
    /\ booting \in BOOLEAN /\ account \in BOOLEAN /\ auth \in BOOLEAN
    /\ farewell \in BOOLEAN /\ overtaken \in BOOLEAN

\* Procedure p is on its way to unregister client i or to replace it.
Retiring(p, i) ==
    \/ procs[p].pc \in {"teardown", "giveUp", "release", "releaseQr", "destroyPrior",
                        "destroySpecific", "destroyQr", "destroyLogout", "filesLogout",
                        "deleteLogout", "destroyWipe", "filesWipe", "deleteWipe"}
       /\ procs[p].client = i
    \/ procs[p].pc \in {"logoutTimer", "logoutWait"}

\* A session that stays registered has a client that has not been destroyed and that has
\* its event handlers: whoever destroys a client or detaches its handlers (teardown of a
\* failed restore, rebuild, re-link, logout, release) also unregisters it, however these
\* procedures interleave.  Otherwise the account would be connected to nothing, or
\* connected and deaf, until the process restarts.
RegisteredServed ==
    session # None /\ ~(\E p \in Procs : Retiring(p, session))
        => client[session] # "off" /\ session \in listeners

\* The files that let a session be restored without a QR code are deleted only for an
\* account that has been logged out or deleted since it was last linked, or for one without a
\* document (cleanup.service.ts:8, whatsapp.service.ts:293): no failed restore, rebuild,
\* re-link or release loses them.  An account that was linked while a deletion of its files
\* was already under way may lose them: the list of accounts read at start-up
\* (session-restoration.service.ts:36) and the timers of cleanup.service.ts:87 and
\* file-manager.service.ts:187 are not looked at again.
AuthKept == [][auth /\ ~auth' => farewell \/ ~account \/ overtaken]_vars
=============================================================================
