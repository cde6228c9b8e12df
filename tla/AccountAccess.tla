---------------------------- MODULE AccountAccess ----------------------------
(***************************************************************************)
(* AuthService: the token documents of one user and the API keys of the    *)
(* user's accounts.  Login, account selection and refresh each rewrite the *)
(* token documents in several calls; the removal of an account replaces    *)
(* them and invalidates its keys; "ready" events, key requests and account *)
(* lists look for the account's key, create it, and weed out duplicates.   *)
(*                                                                         *)
(* A step is the code between two awaits, with the awaited call taking     *)
(* effect in the step that continues after it.  Users share nothing.  The  *)
(* token documents of type access are never looked up by value, so only    *)
(* the accounts they name are kept.                                        *)
(***************************************************************************)
EXTENDS Naturals, FiniteSets

CONSTANTS
    Accounts,   \* ids of account documents, never used twice
    Procs,      \* room for calls in progress
    MaxTokens,  \* bound: refresh tokens signed in a behaviour
    MaxKeys     \* bound: API keys created in a behaviour

None == "none"

ASSUME AccessAssumption ==
    /\ None \notin Accounts \cup Procs
    /\ {MaxTokens, MaxKeys} \subseteq Nat

VARIABLES
    accounts,   \* account documents that exist
    leaving,    \* accounts whose deletion has been issued
    access,     \* accounts named by the access token documents, None included
    refresh,    \* refresh token documents
    keys,       \* API keys; the id is the order of createdAt
    calls,      \* calls in progress
    signed,     \* refresh tokens signed so far
    created,    \* API keys given a createdAt so far
    born,       \* accounts that have existed, whose ids clients may still present
    (* history, read by the properties only *)
    alone,      \* the call in progress that has overlapped no other one
    returned,   \* the refresh token such a call returned, nothing having begun since
    doubtful,   \* the fallback token of a login, such a call, that failed doubtful
    forgotten,  \* accounts removed by such a call
    invalidated \* accounts whose keys have been invalidated

tokens  == <<access, refresh, signed>>
history == <<alone, returned, doubtful, forgotten, invalidated>>
vars    == <<accounts, leaving, born, tokens, keys, created, calls, history>>

-----------------------------------------------------------------------------
(* Calls *)

\* A call: the await it is suspended at, its account, the token document it found, the
\* token it has signed or was given, the token a login falls back to, the keys it is
\* about to deactivate.
Call(pc, a, doc, val, back, doomed) ==
    [pc |-> pc, account |-> a, doc |-> doc, val |-> val, back |-> back, doomed |-> doomed]
NoCall == Call("idle", None, 0, 0, 0, {})

Idle(p)     == calls[p] = NoCall
Set(p, c)   == calls' = [calls EXCEPT ![p] = c]
Goto(p, pc) ==
    LET c == calls[p] IN Set(p, Call(pc, c.account, c.doc, c.val, c.back, c.doomed))

Begin(p, c) ==
    /\ Idle(p) /\ Set(p, c)
    /\ alone' = IF \A q \in Procs : Idle(q) THEN p ELSE None
    /\ returned' = 0 /\ doubtful' = 0
    /\ UNCHANGED <<forgotten, invalidated>>

\* The call ends; val is the refresh token it returns, 0 for none.
Return(p, val) ==
    /\ Set(p, NoCall)
    /\ alone' = IF alone = p THEN None ELSE alone
    /\ returned' = IF alone = p THEN val ELSE returned

End(p) == Return(p, 0)

\* jwtService.sign: a refresh token no one has had before.
Sign == signed < MaxTokens /\ signed' = signed + 1

-----------------------------------------------------------------------------
(* Token documents *)

\* A document is created for a new token and keeps its id when the token is replaced.
RefreshDoc(id, val, a) == [id |-> id, val |-> val, account |-> a, expired |-> FALSE]

Create(val, a) == refresh' = refresh \cup {RefreshDoc(val, val, a)}

\* updateOne: nothing happens when the document is gone.
Replace(id, val, a) ==
    refresh' = {IF d.id = id THEN RefreshDoc(id, val, a) ELSE d : d \in refresh}

\* Mutant: the tokens this call replaced are deleted, and with them the new one.
PruneNewest(id) == refresh' = {d \in refresh : d.id # id}

\* deleteMany of the user's other refresh tokens.
Prune(id) == refresh' = {d \in refresh : d.id = id}

Named(a) == a \in access \/ \E d \in refresh : d.account = a

-----------------------------------------------------------------------------
(* login *)

Login(p) ==
    /\ Sign
    /\ Begin(p, Call("fallback", None, 0, 0, signed', {}))
    /\ UNCHANGED <<accounts, leaving, access, refresh, keys, created, born>>

\* Mutant: the token of the selection, which is not signed yet, is stored.
LoginFallbackUnsigned(p) ==
    /\ calls[p].pc = "fallback"
    /\ Create(calls[p].val, None) /\ access' = access \cup {None}
    /\ Goto(p, "accounts")
    /\ UNCHANGED <<accounts, leaving, signed, keys, created, born, history>>

\* The fallback tokens are stored.
LoginFallback(p) ==
    /\ calls[p].pc = "fallback"
    /\ Create(calls[p].back, None) /\ access' = access \cup {None}
    /\ Goto(p, "accounts")
    /\ UNCHANGED <<accounts, leaving, signed, keys, created, born, history>>

\* The first of the user's accounts is selected, if there is one.
LoginAccounts(p) ==
    LET back == calls[p].back IN
    /\ calls[p].pc = "accounts"
    /\ \/ /\ accounts = {} /\ Return(p, back)
       \/ \E a \in accounts :
            Set(p, Call("account", a, 0, 0, back, {})) /\ UNCHANGED <<alone, returned>>
    /\ UNCHANGED <<accounts, leaving, tokens, keys, created, born, doubtful, forgotten,
                   invalidated>>

-----------------------------------------------------------------------------
(* selectAccount, called by login or by the user *)

SelectAccount(p) ==
    /\ \E a \in born : Begin(p, Call("account", a, 0, 0, 0, {}))
    /\ UNCHANGED <<accounts, leaving, tokens, keys, created, born>>

\* findAccountById; a login whose account has gone returns its fallback tokens.
SelectCheck(p) ==
    LET c == calls[p] IN
    /\ c.pc = "account"
    /\ IF c.account \in accounts
       THEN /\ Sign /\ Set(p, Call("find", c.account, 0, signed', c.back, {}))
            /\ UNCHANGED <<alone, returned>>
       ELSE Return(p, c.back) /\ UNCHANGED signed
    /\ UNCHANGED <<accounts, leaving, access, refresh, keys, created, born, doubtful, forgotten,
                   invalidated>>

\* Any refresh token document of the user, expired or not.
SelectFind(p) ==
    LET c == calls[p] IN
    /\ c.pc = "find"
    /\ \/ refresh = {} /\ Goto(p, "create")
       \/ \E d \in refresh : Set(p, Call("update", c.account, d.id, c.val, c.back, {}))
    /\ UNCHANGED <<accounts, leaving, tokens, keys, created, born, history>>

SelectUpdate(p) ==
    /\ calls[p].pc = "update"
    /\ Replace(calls[p].doc, calls[p].val, calls[p].account)
    /\ Goto(p, "prune")
    /\ UNCHANGED <<accounts, leaving, access, signed, keys, created, born, history>>

SelectPrune(p) ==
    /\ calls[p].pc = "prune"
    /\ Prune(calls[p].doc) /\ Goto(p, "access")
    /\ UNCHANGED <<accounts, leaving, access, signed, keys, created, born, history>>

SelectAccess(p) ==
    /\ calls[p].pc = "access"
    /\ access' = access \cup {calls[p].account}
    /\ Return(p, calls[p].val)
    /\ UNCHANGED <<accounts, leaving, refresh, signed, keys, created, born, doubtful, forgotten,
                   invalidated>>

SelectCreate(p) ==
    /\ calls[p].pc = "create"
    /\ Create(calls[p].val, calls[p].account) /\ access' = access \cup {calls[p].account}
    /\ Return(p, calls[p].val)
    /\ UNCHANGED <<accounts, leaving, signed, keys, created, born, doubtful, forgotten,
                   invalidated>>

-----------------------------------------------------------------------------
(* refresh, logout and the expiry of tokens *)

\* A client presents some refresh token it was given.
Refresh(p) ==
    /\ \E v \in 1 .. signed : Begin(p, Call("lookup", None, 0, v, 0, {}))
    /\ UNCHANGED <<accounts, leaving, tokens, keys, created, born>>

RefreshLookup(p) ==
    LET found == {d \in refresh : d.val = calls[p].val /\ ~d.expired} IN
    /\ calls[p].pc = "lookup"
    /\ \/ found = {} /\ End(p) /\ UNCHANGED signed
       \/ \E d \in found :
            /\ Sign /\ Set(p, Call("rotate", d.account, d.id, signed', 0, {}))
            /\ UNCHANGED <<alone, returned>>
    /\ UNCHANGED <<accounts, leaving, access, refresh, keys, created, born, doubtful, forgotten,
                   invalidated>>

RefreshRotate(p) ==
    /\ calls[p].pc = "rotate"
    /\ Replace(calls[p].doc, calls[p].val, calls[p].account)
    /\ access' = access \cup {calls[p].account}
    /\ Goto(p, "drop")
    /\ UNCHANGED <<accounts, leaving, signed, keys, created, born, history>>

RefreshDrop(p) ==
    /\ calls[p].pc = "drop"
    /\ Prune(calls[p].doc) /\ Return(p, calls[p].val)
    /\ UNCHANGED <<accounts, leaving, access, signed, keys, created, born, doubtful, forgotten,
                   invalidated>>

\* No call in progress has the tokens to itself any more.
Disturb == alone' = None /\ returned' = 0

Logout ==
    /\ access' = {} /\ refresh' = {}
    /\ Disturb
    /\ UNCHANGED <<accounts, leaving, signed, keys, created, calls, born, doubtful, forgotten,
                   invalidated>>

Expire ==
    /\ \E d \in refresh : refresh' = (refresh \ {d}) \cup {[d EXCEPT !.expired = TRUE]}
    /\ Disturb
    /\ UNCHANGED <<accounts, leaving, access, signed, keys, created, calls, born,
                   doubtful, forgotten, invalidated>>

\* handleExpiredTokens, at midnight.
HandleExpiredTokens ==
    /\ refresh' = {d \in refresh : ~d.expired}
    /\ access' \in SUBSET access
    /\ alone' = None
    /\ UNCHANGED <<accounts, leaving, signed, keys, created, calls, born, returned,
                   doubtful, forgotten, invalidated>>

-----------------------------------------------------------------------------
(* API keys *)

Key(id, a, active) == [id |-> id, account |-> a, active |-> active]

ActiveKeys(a) == {k \in keys : k.account = a /\ k.active}
Oldest(K)     == CHOOSE k \in K : \A l \in K : k.id <= l.id

\* What getActiveApiKeyForAccount deactivates of the active keys K it found.
Duplicates(K) == K \ {Oldest(K)}

\* handleAccountReady: the account is there now, and its key is asked for.
Ready(p) ==
    /\ \E a \in accounts \cup (Accounts \ born) :
         /\ accounts' = accounts \cup {a} /\ born' = born \cup {a}
         /\ Begin(p, Call("key", a, 0, 0, 0, {}))
    /\ UNCHANGED <<leaving, tokens, keys, created>>

\* generate-api-key, for the account the caller's token names; or the account list.
KeyRequest(p) ==
    /\ \E a \in born, pc \in {"key", "list"} : Begin(p, Call(pc, a, 0, 0, 0, {}))
    /\ UNCHANGED <<accounts, leaving, tokens, keys, created, born>>

\* Mutant: the query without its sort, so any key may come first.
KeyFindUnsorted(p) ==
    LET a == calls[p].account
        K == ActiveKeys(a)
    IN
    /\ calls[p].pc \in {"key", "list"}
    /\ \/ /\ Cardinality(K) > 1
          /\ \E first \in K : Set(p, Call("dedupe", a, 0, 0, 0, {k.id : k \in K \ {first}}))
          /\ UNCHANGED <<alone, returned>>
       \/ K = {} /\ calls[p].pc = "key" /\ Goto(p, "owner") /\ UNCHANGED <<alone, returned>>
       \/ Cardinality(K) <= 1 /\ End(p)
    /\ UNCHANGED <<accounts, leaving, tokens, keys, created, born, doubtful, forgotten,
                   invalidated>>

\* getActiveApiKeyForAccount: without a key the list shows none, and the others go on
\* to create one.
KeyFind(p) ==
    LET a == calls[p].account
        K == ActiveKeys(a)
    IN
    /\ calls[p].pc \in {"key", "list"}
    /\ IF Cardinality(K) > 1
       THEN /\ Set(p, Call("dedupe", a, 0, 0, 0, {k.id : k \in Duplicates(K)}))
            /\ UNCHANGED <<alone, returned>>
       ELSE IF K = {} /\ calls[p].pc = "key"
            THEN Goto(p, "owner") /\ UNCHANGED <<alone, returned>>
            ELSE End(p)
    /\ UNCHANGED <<accounts, leaving, tokens, keys, created, born, doubtful, forgotten,
                   invalidated>>

KeyDedupe(p) ==
    /\ calls[p].pc = "dedupe"
    /\ keys' = {Key(k.id, k.account, k.active /\ k.id \notin calls[p].doomed) : k \in keys}
    /\ End(p)
    /\ UNCHANGED <<accounts, leaving, tokens, created, born, doubtful, forgotten, invalidated>>

\* The account must be there; the new key has its createdAt before it is stored.
KeyOwner(p) ==
    LET a == calls[p].account IN
    /\ calls[p].pc = "owner"
    /\ IF a \in accounts
       THEN /\ created < MaxKeys /\ created' = created + 1
            /\ Set(p, Call("insert", a, 0, created', 0, {}))
            /\ UNCHANGED <<alone, returned>>
       ELSE End(p) /\ UNCHANGED created
    /\ UNCHANGED <<accounts, leaving, tokens, keys, born, doubtful, forgotten, invalidated>>

KeyInsert(p) ==
    /\ calls[p].pc = "insert"
    /\ keys' = keys \cup {Key(calls[p].val, calls[p].account, TRUE)}
    /\ End(p)
    /\ UNCHANGED <<accounts, leaving, tokens, created, born, doubtful, forgotten, invalidated>>

-----------------------------------------------------------------------------
(* Removal of an account: deleteAccountOnLogout, removeAccountFromTokens *)

\* The deletions of the account's documents are issued, and awaited only at the end.
DeleteAccountOnLogout(p) ==
    /\ \E a \in accounts :
         /\ leaving' = leaving \cup {a}
         /\ Begin(p, Call("tokens", a, 0, 0, 0, {}))
    /\ UNCHANGED <<accounts, tokens, keys, created, born>>

AccountDeleted ==
    /\ \E a \in leaving : accounts' = accounts \ {a} /\ leaving' = leaving \ {a}
    /\ UNCHANGED <<tokens, keys, created, calls, born, history>>

\* With no token that names the account, removeAccountFromTokens returns.
RemoveFind(p) ==
    LET a == calls[p].account IN
    /\ calls[p].pc = "tokens"
    /\ IF Named(a)
       THEN Sign /\ Set(p, Call("renew", a, 0, signed', 0, {}))
       ELSE Goto(p, "gone") /\ UNCHANGED signed
    /\ UNCHANGED <<accounts, leaving, access, refresh, keys, created, born, history>>

\* New tokens without an account; no one is given them.
RemoveRenew(p) ==
    /\ calls[p].pc = "renew"
    /\ Create(calls[p].val, None) /\ access' = access \cup {None}
    /\ Goto(p, "delete")
    /\ UNCHANGED <<accounts, leaving, signed, keys, created, born, history>>

\* Mutant: only the refresh tokens are deleted.
RemoveDeleteRefresh(p) ==
    /\ calls[p].pc = "delete"
    /\ refresh' = {d \in refresh : d.account # calls[p].account}
    /\ Goto(p, "keys")
    /\ UNCHANGED <<accounts, leaving, access, signed, keys, created, born, history>>

RemoveDelete(p) ==
    /\ calls[p].pc = "delete"
    /\ refresh' = {d \in refresh : d.account # calls[p].account}
    /\ access' = access \ {calls[p].account}
    /\ Goto(p, "keys")
    /\ UNCHANGED <<accounts, leaving, signed, keys, created, born, history>>

RemoveKeys(p) ==
    /\ calls[p].pc = "keys"
    /\ Goto(p, IF ActiveKeys(calls[p].account) = {} THEN "gone" ELSE "invalidate")
    /\ UNCHANGED <<accounts, leaving, tokens, keys, created, born, history>>

RemoveInvalidate(p) ==
    LET a == calls[p].account IN
    /\ calls[p].pc = "invalidate"
    /\ keys' = {Key(k.id, k.account, k.active /\ k.account # a) : k \in keys}
    /\ invalidated' = invalidated \cup {a}
    /\ Goto(p, "gone")
    /\ UNCHANGED <<accounts, leaving, tokens, created, born, alone, returned, doubtful, forgotten>>

\* Promise.all of the deletions.
RemoveDone(p) ==
    /\ calls[p].pc = "gone" /\ calls[p].account \notin leaving
    /\ forgotten' = IF alone = p THEN forgotten \cup {calls[p].account} ELSE forgotten
    /\ End(p)
    /\ UNCHANGED <<accounts, leaving, tokens, keys, created, born, doubtful, invalidated>>

-----------------------------------------------------------------------------
(* Failure *)

\* The awaits of a login after which it still answers with its fallback tokens.
Selecting == {"accounts", "account", "find", "update", "prune", "access", "create"}

\* An awaited call rejects, or the process ends: nothing of the call follows but, for a
\* login past its fallback tokens, the answer with them, stored still or not.  Of two
\* documents that are written together either may have been.
Fail(p) ==
    LET c == calls[p] IN
    /\ ~Idle(p)
    /\ \/ UNCHANGED refresh
       \/ c.pc = "fallback" /\ Create(c.back, None)
       \/ c.pc = "create" /\ Create(c.val, c.account)
       \/ c.pc = "renew" /\ Create(c.val, None)
       \/ c.pc = "rotate" /\ Replace(c.doc, c.val, c.account)
    /\ \/ UNCHANGED access
       \/ c.pc \in {"fallback", "renew"} /\ access' = access \cup {None}
       \/ c.pc \in {"create", "rotate"} /\ access' = access \cup {c.account}
    /\ End(p) \/ (c.pc \in Selecting /\ Return(p, c.back))
    /\ doubtful' = IF alone = p /\ c.pc \in {"prune", "access"} THEN c.back ELSE 0
    /\ UNCHANGED <<accounts, leaving, signed, keys, created, born, forgotten, invalidated>>

-----------------------------------------------------------------------------
(* Specification *)

Init ==
    /\ accounts = {} /\ leaving = {}
    /\ access = {} /\ refresh = {} /\ signed = 0
    /\ keys = {} /\ created = 0
    /\ calls = [p \in Procs |-> NoCall]
    /\ born = {} /\ alone = None /\ returned = 0 /\ doubtful = 0
    /\ forgotten = {} /\ invalidated = {}

Request(p) ==
    \/ Login(p) \/ SelectAccount(p) \/ Refresh(p)
    \/ Ready(p) \/ KeyRequest(p) \/ DeleteAccountOnLogout(p)

Proceed(p) ==
    \/ LoginFallback(p) \/ LoginAccounts(p)
    \/ SelectCheck(p) \/ SelectFind(p) \/ SelectUpdate(p) \/ SelectPrune(p)
    \/ SelectAccess(p) \/ SelectCreate(p)
    \/ RefreshLookup(p) \/ RefreshRotate(p) \/ RefreshDrop(p)
    \/ KeyFind(p) \/ KeyDedupe(p) \/ KeyOwner(p) \/ KeyInsert(p)
    \/ RemoveFind(p) \/ RemoveRenew(p) \/ RemoveDelete(p) \/ RemoveKeys(p)
    \/ RemoveInvalidate(p) \/ RemoveDone(p)

Next ==
    \/ \E p \in Procs : Request(p) \/ Proceed(p) \/ Fail(p)
    \/ AccountDeleted \/ Logout \/ Expire \/ HandleExpiredTokens

Spec == Init /\ [][Next]_vars

-----------------------------------------------------------------------------
(* Properties *)

AccountsOrNone == Accounts \cup {None}

CallsTyped ==
    calls \in [Procs ->
        [pc : {"idle", "fallback", "accounts", "account", "find", "update", "prune", "access",
               "create", "lookup", "rotate", "drop", "key", "list", "dedupe", "owner",
               "insert", "tokens", "renew", "delete", "keys", "invalidate", "gone"},
         account : AccountsOrNone, doc : 0 .. MaxTokens, val : Nat, back : 0 .. MaxTokens,
         doomed : SUBSET Nat]]

\* Types.
TypeOK ==
    /\ accounts \subseteq born /\ leaving \subseteq born /\ born \subseteq Accounts
    /\ access \subseteq AccountsOrNone
    /\ refresh \subseteq [id : 1 .. MaxTokens, val : 1 .. MaxTokens,
                          account : AccountsOrNone, expired : BOOLEAN]
    /\ keys \subseteq [id : 1 .. MaxKeys, account : Accounts, active : BOOLEAN]
    /\ CallsTyped
    /\ signed \in 0 .. MaxTokens /\ created \in 0 .. MaxKeys
    /\ alone \in Procs \cup {None} /\ {returned, doubtful} \subseteq 0 .. MaxTokens
    /\ forgotten \subseteq born /\ invalidated \subseteq born

\* An account that was ever given a key has an active one until a removal invalidates its
\* keys: the calls that deactivate duplicates, each from a list of keys that may be out of
\* date by then, never deactivate the last one between them.
KeyRemains ==
    \A k \in keys : k.account \notin invalidated => ActiveKeys(k.account) # {}

\* The refresh token returned by a login, a selection or a refresh that overlapped no
\* other call is accepted, whatever documents earlier calls, failures and removals left,
\* until it expires, is logged out, or another call begins.  So is the fallback token of a
\* login whose selection fails, unless that had replaced a token document by then
\* (auth.service.ts:153): the document may have been the fallback's own.
SoloTokenWorks ==
    returned \notin {0, doubtful} => \E d \in refresh : d.val = returned /\ ~d.expired

\* A removal that overlapped no other call leaves no token that names the account, and no
\* later login, selection, refresh or failure brings one back.
ForgottenForGood == \A a \in forgotten : ~Named(a)
=============================================================================
