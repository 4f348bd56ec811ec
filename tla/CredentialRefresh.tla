-------------------------- MODULE CredentialRefresh --------------------------
(***************************************************************************)
(* The credential of a OneDrive policy: clients of the master refresh it   *)
(* under a lock per policy and share it through the cache, clients of a    *)
(* slave ask the master for it, and the administrator authorises the       *)
(* policy again through the OAuth callback, which does not take the lock.  *)
(*                                                                         *)
(* A refresh yields an access token and a refresh token, known by the      *)
(* number of the exchange that issued them.  Microsoft's side is external: *)
(* it accepts every refresh token it issued.                               *)
(***************************************************************************)
EXTENDS Naturals, FiniteSets

CONSTANTS
    Clients,      \* clients on the master
    SlaveClients, \* clients on a slave
    MaxExchanges  \* bound on the exchanges of tokens

ASSUME ClientsAssumption == Clients \cap SlaveClients = {} /\ MaxExchanges \in Nat \ {0}

VARIABLES
    issued,     \* the number of exchanges so far
    alive,      \* access tokens that are not expired
    accessKey,  \* the policy row's refresh token
    cached,     \* the credential in the cache, 0 if none
    mutex,      \* the clients that hold GlobalMutex for the policy
    client,     \* pc, and the access and refresh tokens of each client
    auth,       \* the OAuth callback: the refresh token it is about to save
    crossed     \* history: the callback ran during a refresh

credVars == <<issued, alive, accessKey, cached, mutex, client, auth, crossed>>

NoClient == [pc |-> "idle", access |-> 0, refresh |-> 0]
Tokens == 0 .. MaxExchanges

(* The types of the variables.                                             *)
CredTypeOK ==
    /\ issued \in Tokens /\ alive \subseteq 1 .. issued
    /\ accessKey \in Tokens /\ cached \in Tokens /\ auth \in Tokens
    /\ mutex \subseteq Clients
    /\ client \in [Clients \cup SlaveClients ->
                    [pc : {"idle", "new", "locked", "save", "cache", "fetch", "ok", "error"},
                     access : Tokens, refresh : Tokens]]
    /\ crossed \in BOOLEAN

(* The policy was authorised once.                                         *)
CredInit ==
    /\ issued = 1 /\ alive = {} /\ accessKey = 1 /\ cached = 0 /\ auth = 0
    /\ mutex = {}
    /\ client = [c \in Clients \cup SlaveClients |-> NoClient]
    /\ crossed = FALSE

-----------------------------------------------------------------------------
Client(c, pc, a, f) == client' = [client EXCEPT ![c] = [pc |-> pc, access |-> a, refresh |-> f]]

(* NewClient reads the refresh token from the policy.                      *)
NewClient(c) ==
    /\ client[c].pc \in {"idle", "ok", "error"}
    /\ Client(c, IF c \in Clients THEN "new" ELSE "fetch", 0, accessKey)
    /\ UNCHANGED <<issued, alive, accessKey, cached, mutex, auth, crossed>>

(* A client that is used again keeps its credential.                       *)
UseAgain(c) ==
    /\ client[c].pc = "ok"
    /\ Client(c, IF c \in Clients THEN "new" ELSE "fetch", client[c].access, client[c].refresh)
    /\ UNCHANGED <<issued, alive, accessKey, cached, mutex, auth, crossed>>

LockNot(c) ==
    /\ client[c].pc = "new" /\ mutex' = mutex \cup {c}
    /\ Client(c, "locked", client[c].access, client[c].refresh)
    /\ UNCHANGED <<issued, alive, accessKey, cached, auth, crossed>>

Lock(c) ==
    /\ client[c].pc = "new" /\ mutex = {} /\ mutex' = {c}
    /\ Client(c, "locked", client[c].access, client[c].refresh)
    /\ UNCHANGED <<issued, alive, accessKey, cached, auth, crossed>>

CachedAlive == cached \in alive

(* UpdateCredential: the client's own credential, or the cached one.       *)
UpdateCredentialKeeps(c) ==
    /\ client[c].pc = "locked" /\ client[c].access \in alive
    /\ Client(c, "ok", client[c].access, client[c].refresh) /\ mutex' = mutex \ {c}
    /\ UNCHANGED <<issued, alive, accessKey, cached, auth, crossed>>

UpdateCredentialCached(c) ==
    /\ client[c].pc = "locked" /\ client[c].access \notin alive /\ CachedAlive
    /\ Client(c, "ok", cached, cached) /\ mutex' = mutex \ {c}
    /\ UNCHANGED <<issued, alive, accessKey, cached, auth, crossed>>

(* ObtainToken with the client's refresh token.                            *)
ObtainToken(c) ==
    /\ client[c].pc = "locked" /\ client[c].access \notin alive /\ ~CachedAlive
    /\ issued < MaxExchanges
    /\ issued' = issued + 1 /\ alive' = alive \cup {issued'}
    /\ Client(c, "save", issued', issued')
    /\ crossed' = (crossed \/ auth > 0)
    /\ UNCHANGED <<accessKey, cached, mutex, auth>>

ObtainTokenFails(c) ==
    /\ client[c].pc = "locked" /\ client[c].access \notin alive /\ ~CachedAlive
    /\ Client(c, "error", 0, 0) /\ mutex' = mutex \ {c}
    /\ UNCHANGED <<issued, alive, accessKey, cached, auth, crossed>>

UpdateAccessKey(c) ==
    /\ client[c].pc = "save" /\ accessKey' = client[c].refresh
    /\ Client(c, "cache", client[c].access, client[c].refresh)
    /\ UNCHANGED <<issued, alive, cached, mutex, auth, crossed>>

CacheCredential(c) ==
    /\ client[c].pc = "cache" /\ cached' = client[c].access
    /\ Client(c, "ok", client[c].access, client[c].refresh) /\ mutex' = mutex \ {c}
    /\ UNCHANGED <<issued, alive, accessKey, auth, crossed>>

(* fetchCredentialFromMaster: the master answers with the credential of a  *)
(* client that has just updated it.                                        *)
GetOneDriveToken(s, c) ==
    /\ client[s].pc = "fetch" /\ client[c].pc = "ok" /\ client[c].access \in alive
    /\ Client(s, "ok", client[c].access, 0)
    /\ UNCHANGED <<issued, alive, accessKey, cached, mutex, auth, crossed>>

GetOneDriveTokenFails(s) ==
    /\ client[s].pc = "fetch" /\ Client(s, "error", 0, 0)
    /\ UNCHANGED <<issued, alive, accessKey, cached, mutex, auth, crossed>>

Refreshing == \E c \in Clients : client[c].pc \in {"save", "cache"}

(* The OAuth callback exchanges its code and then saves the policy; the    *)
(* entry it deletes from the cache is not the one clients use.             *)
AuthObtains ==
    /\ auth = 0 /\ issued < MaxExchanges
    /\ issued' = issued + 1 /\ auth' = issued'
    /\ crossed' = (crossed \/ Refreshing)
    /\ UNCHANGED <<alive, accessKey, cached, mutex, client>>

AuthSaves ==
    /\ auth > 0 /\ accessKey' = auth /\ auth' = 0
    /\ crossed' = (crossed \/ Refreshing)
    /\ UNCHANGED <<issued, alive, cached, mutex, client>>

(* An access token expires, and with it its entry in the cache.            *)
Expire(n) ==
    /\ n \in alive /\ alive' = alive \ {n}
    /\ UNCHANGED <<issued, accessKey, cached, mutex, client, auth, crossed>>

CredNext ==
    \/ \E c \in Clients \cup SlaveClients : NewClient(c) \/ UseAgain(c)
    \/ \E c \in Clients : \/ Lock(c) \/ UpdateCredentialKeeps(c) \/ UpdateCredentialCached(c)
                          \/ ObtainToken(c) \/ ObtainTokenFails(c)
                          \/ UpdateAccessKey(c) \/ CacheCredential(c)
    \/ \E s \in SlaveClients : GetOneDriveTokenFails(s) \/ \E c \in Clients : GetOneDriveToken(s, c)
    \/ AuthObtains \/ AuthSaves
    \/ \E n \in alive : Expire(n)

CredSpec == CredInit /\ [][CredNext]_credVars

-----------------------------------------------------------------------------
(* Clients that find the credential expired at the same time refresh it    *)
(* once: the token issued next waits for the last one to expire            *)
(* (UpdateCredential looks at the cache again under GlobalMutex).          *)
OneLiveToken == Cardinality(alive) <= 1

(* The policy keeps the refresh token issued last, unless the OAuth        *)
(* callback ran during a refresh: it does not take GlobalMutex, and the    *)
(* refresh then overwrites the new authorisation (Auth, UpdateCredential). *)
NewestRefreshTokenSaved ==
    ~crossed => accessKey = issued \/ auth = issued
                \/ \E c \in Clients : client[c].pc = "save" /\ client[c].refresh = issued

(* What the lock and the cache of UpdateCredential keep: one refresh for   *)
(* all clients, and the refresh token that was issued last.                *)
CredInv == CredTypeOK /\ OneLiveToken /\ NewestRefreshTokenSaved
=============================================================================
