---------------------------- MODULE SettingsCache ----------------------------
(***************************************************************************)
(* The key-value cache (pkg/cache) and the two ways it is used: in front   *)
(* of the tables of settings and storage policies, with entries that never *)
(* expire and are deleted after a change, and as the only store of         *)
(* sessions, with entries that expire.                                     *)
(*                                                                         *)
(* The memory store checks the expiry of an entry when it is read and a    *)
(* scheduled collector deletes expired entries; redis does both itself.    *)
(***************************************************************************)
EXTENDS Naturals

CONSTANTS
    Settings,    \* names of settings, and identifiers of policies
    Sessions,    \* keys of sessions
    Readers,     \* goroutines that read settings
    TTL,         \* lifetime of a session
    MaxChanges,  \* bound on the changes of a setting
    MaxClock     \* bound on time

(* Settings and sessions have keys of their own: the prefixes differ.      *)
ASSUME CacheAssumption ==
    /\ Settings \cap Sessions = {}
    /\ TTL \in Nat \ {0} /\ MaxChanges \in Nat /\ MaxClock \in Nat

VARIABLES
    driver,  \* "memo" or "redis"
    table,   \* the version of each setting in the database
    store,   \* the entries of the cache
    clock,
    reader,  \* a read in progress: key and version to be written to the cache
    writer,  \* the settings that were committed and not yet deleted from the cache
    gc,      \* the collector between the look at an entry and its deletion
    raced    \* history: settings for which a reader held an old version when their
             \* last change deleted the cached one

cacheVars == <<driver, table, store, clock, reader, writer, gc, raced>>

CacheKeys == Settings \cup Sessions
NoItem == [value |-> 0, expires |-> 0, found |-> FALSE]
NoRead == [pc |-> "idle", key |-> "", value |-> 0, item |-> NoItem]

(* The types of the variables.                                             *)
CacheTypeOK ==
    /\ driver \in {"memo", "redis"}
    /\ table \in [Settings -> 0 .. MaxChanges]
    /\ store \in [CacheKeys -> [value : 0 .. MaxChanges, expires : 0 .. MaxClock + TTL, found : BOOLEAN]]
    /\ \A k \in Settings : store[k].expires = 0
    /\ clock \in 0 .. MaxClock
    /\ \A p \in Readers : reader[p].pc \in {"idle", "table", "fill"}
    /\ writer \subseteq Settings /\ raced \subseteq Settings

CacheInit ==
    /\ driver \in {"memo", "redis"}
    /\ table = [k \in Settings |-> 0]
    /\ store = [k \in CacheKeys |-> NoItem]
    /\ clock = 0
    /\ reader = [p \in Readers |-> NoRead] /\ gc = NoRead
    /\ writer = {} /\ raced = {}

-----------------------------------------------------------------------------
(* The stores.                                                             *)

newItem(v, ttl) == [value |-> v, expires |-> IF ttl > 0 THEN clock + ttl ELSE 0, found |-> TRUE]

(* getValue of the memory store: an entry lives through its last second.   *)
memoExpired(item) == item.expires > 0 /\ item.expires < clock

memoGet(k) == store[k].found /\ ~memoExpired(store[k])

(* SETEX and GET of redis.                                                 *)
redisGet(k) == store[k].found /\ ~(store[k].expires > 0 /\ store[k].expires <= clock)

Hit(k) == IF driver = "memo" THEN memoGet(k) ELSE redisGet(k)

Set(k, v, ttl) == store' = [store EXCEPT ![k] = newItem(v, ttl)]

Deletes(S) == store' = [k \in CacheKeys |-> IF k \in S THEN NoItem ELSE store[k]]

(* GarbageCollect of the memory store visits an entry...                   *)
GarbageCollectable(k) == store[k].found /\ memoExpired(store[k])

GarbageCollectSees(k) ==
    /\ driver = "memo" /\ gc = NoRead /\ GarbageCollectable(k)
    /\ gc' = [pc |-> "delete", key |-> k, value |-> 0, item |-> store[k]]
    /\ UNCHANGED <<driver, table, store, clock, reader, writer, raced>>

(* ... and deletes its key, whatever the key has become.                   *)
GarbageCollectDeletes(k) ==
    /\ gc.pc = "delete" /\ gc.key = k /\ gc' = NoRead /\ Deletes({k})
    /\ UNCHANGED <<driver, table, clock, reader, writer, raced>>

-----------------------------------------------------------------------------
(* Sessions.                                                               *)

SetSession(k, v) ==
    /\ Set(k, v, TTL)
    /\ UNCHANGED <<driver, table, clock, reader, writer, gc, raced>>

DeleteSession(k) ==
    /\ Hit(k) /\ Deletes({k})
    /\ UNCHANGED <<driver, table, clock, reader, writer, gc, raced>>

Tick ==
    /\ clock < MaxClock /\ clock' = clock + 1
    /\ UNCHANGED <<driver, table, store, reader, writer, gc, raced>>

-----------------------------------------------------------------------------
(* Settings and policies.                                                  *)

Reads(p, pc, k, v) == reader' = [reader EXCEPT ![p] = [NoRead EXCEPT !.pc = pc, !.key = k, !.value = v]]

(* GetSettingByName and GetPolicyByID: a miss goes on to the database.     *)
GetSettingByName(p, k) ==
    /\ reader[p] = NoRead /\ ~Hit(k) /\ Reads(p, "table", k, 0)
    /\ UNCHANGED <<driver, table, store, clock, writer, gc, raced>>

(* GetSettingByNames writes what it found in the cache back as well.       *)
GetSettingByNames(p, k) ==
    /\ reader[p] = NoRead
    /\ IF Hit(k) THEN Reads(p, "fill", k, store[k].value) ELSE Reads(p, "table", k, 0)
    /\ UNCHANGED <<driver, table, store, clock, writer, gc, raced>>

QueryTable(p) ==
    /\ reader[p].pc = "table" /\ Reads(p, "fill", reader[p].key, table[reader[p].key])
    /\ UNCHANGED <<driver, table, store, clock, writer, gc, raced>>

SetSettings(p) ==
    /\ reader[p].pc = "fill" /\ Set(reader[p].key, reader[p].value, 0)
    /\ reader' = [reader EXCEPT ![p] = NoRead]
    /\ UNCHANGED <<driver, table, clock, writer, gc, raced>>

(* A change of settings, or of a policy (SaveAndClearCache,                *)
(* UpdateAccessKeyAndClearCache): the transaction, then the cache.         *)
Change(k) ==
    /\ k \notin writer /\ table[k] < MaxChanges
    /\ table' = [table EXCEPT ![k] = @ + 1] /\ writer' = writer \cup {k}
    /\ UNCHANGED <<driver, store, clock, reader, gc, raced>>

ClearCacheForgets(k) ==
    /\ k \in writer /\ writer' = writer \ {k}
    /\ raced' = IF \E p \in Readers : reader[p].pc = "fill" /\ reader[p].key = k
                                      /\ reader[p].value # table[k]
                THEN raced \cup {k} ELSE raced \ {k}
    /\ UNCHANGED <<driver, table, store, clock, reader, gc>>

ClearCache(k) ==
    /\ k \in writer /\ writer' = writer \ {k} /\ Deletes({k})
    /\ raced' = IF \E p \in Readers : reader[p].pc = "fill" /\ reader[p].key = k
                                      /\ reader[p].value # table[k]
                THEN raced \cup {k} ELSE raced \ {k}
    /\ UNCHANGED <<driver, table, clock, reader, gc>>

CacheNext ==
    \/ Tick
    \/ \E k \in Sessions : \/ DeleteSession(k) \/ GarbageCollectSees(k) \/ GarbageCollectDeletes(k)
                           \/ \E v \in 0 .. MaxChanges : SetSession(k, v)
    \/ \E k \in Settings : Change(k) \/ ClearCache(k)
    \/ \E p \in Readers : \/ QueryTable(p) \/ SetSettings(p)
                          \/ \E k \in Settings : GetSettingByName(p, k) \/ GetSettingByNames(p, k)

CacheSpec == CacheInit /\ [][CacheNext]_cacheVars

-----------------------------------------------------------------------------
(* A setting read from the cache is the one of the database, except until  *)
(* its change has cleared the cache, and except after a reader that held   *)
(* the old value at that moment wrote it back (BatchSettingChangeService,  *)
(* GetSettingByNames): that one stays, since the entry never expires.      *)
CachedSettingFresh ==
    \A k \in Settings : Hit(k) /\ store[k].value # table[k] => k \in writer \cup raced

(* What the readers and the writers of settings keep: the cache is not     *)
(* behind the database (GetSettingByNames, BatchSettingChangeService).     *)
CacheInv == CacheTypeOK /\ CachedSettingFresh
=============================================================================
