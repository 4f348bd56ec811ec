------------------------------- MODULE MemLS --------------------------------
(***************************************************************************)
(* The in-memory LockSystem of pkg/webdav/lock.go: nodes by name, with a   *)
(* count of the locks on or below each of them, nodes by token, and the    *)
(* expiry heap, which holds the nodes whose lock is finite and not held.   *)
(* All calls run under one mutex, so each is one action.                   *)
(***************************************************************************)
EXTENDS Integers, Sequences, FiniteSets, Functions

CONSTANTS LockPaths, LockDurations, Claimants, MaxTokens, MaxClock, MaxConditions

VARIABLES clock, reply,
    byName,     \* path -> node
    byToken,    \* token -> path of its node
    gen,        \* last token handed out
    byExpiry,   \* paths of the nodes in the heap
    released    \* claimant -> the nodes its release function will unhold

memVars == <<clock, reply, byName, byToken, gen, byExpiry, released>>

Infinite == -1
NoPath == <<"no path">>
NoToken == 0
Tokens == 1 .. MaxTokens

ASSUME LockAssumption ==
    /\ LockPaths \subseteq Seq(STRING) /\ LockDurations \subseteq Nat \cup {Infinite}
    /\ MaxTokens \in Nat /\ MaxClock \in Nat /\ MaxConditions \in Nat

NewNode == [zeroDepth |-> FALSE, duration |-> 0, expiry |-> 0,
            token |-> NoToken, refCount |-> 0, held |-> FALSE]

NewMemLS ==
    /\ byName = <<>> /\ byToken = <<>> /\ gen = 0 /\ byExpiry = {}
    /\ clock = 0 /\ reply = <<"none">>
    /\ released = [x \in Claimants |-> {}]

Tick == clock < MaxClock /\ clock' = clock + 1
        /\ UNCHANGED <<reply, byName, byToken, gen, byExpiry, released>>

(* The path and its ancestors up to "/".                                   *)
walkToRoot(p) == {SubSeq(p, 1, i) : i \in 0 .. Len(p)}

(* The three indexes as one value, so that one call's steps can be chained. *)
State == [name |-> byName, token |-> byToken, heap |-> byExpiry]

MutRemoveKeepsCount(s, N) ==
    [name  |-> [q \in DOMAIN s.name |-> [s.name[q] EXCEPT !.token = IF q \in N THEN NoToken ELSE @]],
     token |-> Restrict(s.token, DOMAIN s.token \ {s.name[p].token : p \in N}),
     heap  |-> s.heap \ N]

(* remove, called for each node of N: it lowers the count of every node on *)
(* the way to "/" and drops those that reach zero; the node itself loses   *)
(* its token.                                                              *)
remove(s, N) ==
    LET times(q) == Cardinality({p \in N : q \in walkToRoot(p)})
        kept == {q \in DOMAIN s.name : s.name[q].refCount > times(q)}
    IN  [name  |-> [q \in kept |->
                       [s.name[q] EXCEPT !.refCount = @ - times(q),
                                         !.token = IF q \in N THEN NoToken ELSE @]],
         token |-> Restrict(s.token, DOMAIN s.token \ {s.name[p].token : p \in N}),
         heap  |-> s.heap \ N]

MutCollectLate == remove(State, {p \in byExpiry : byName[p].expiry < clock})

(* The heads of the heap are removed as long as their time has come.       *)
collectExpiredNodes == remove(State, {p \in byExpiry : byName[p].expiry <= clock})

Settle(s) == byName' = s.name /\ byToken' = s.token /\ byExpiry' = s.heap

(* A target that is locked, or has a lock below it when the request is for *)
(* infinite depth, or has an ancestor locked with infinite depth.          *)
canCreate(s, p, zero) ==
    \A q \in walkToRoot(p) \cap DOMAIN s.name :
        IF q = p THEN s.name[q].token = NoToken /\ zero
                 ELSE s.name[q].token = NoToken \/ s.name[q].zeroDepth

(* Nodes for the path and its ancestors, each counting one lock more.      *)
create(s, p) ==
    [q \in DOMAIN s.name \cup walkToRoot(p) |->
        LET n == IF q \in DOMAIN s.name THEN s.name[q] ELSE NewNode
        IN  IF q \in walkToRoot(p) THEN [n EXCEPT !.refCount = @ + 1] ELSE n]

nextToken == gen + 1
Push(s, p, d) == IF d = Infinite THEN s.heap ELSE s.heap \cup {p}

Create(p, zero, d) ==
    LET s == collectExpiredNodes IN
    /\ \/ /\ ~canCreate(s, p, zero)
          /\ Settle(s) /\ reply' = <<"locked", p, zero>> /\ UNCHANGED gen
       \/ /\ canCreate(s, p, zero) /\ gen < MaxTokens
          /\ gen' = nextToken
          /\ Settle([name  |-> [create(s, p) EXCEPT
                                  ![p].token = gen', ![p].zeroDepth = zero, ![p].duration = d,
                                  ![p].expiry = IF d = Infinite THEN @ ELSE clock + d],
                     token |-> [t \in DOMAIN s.token \cup {gen'} |-> IF t = gen' THEN p ELSE s.token[t]],
                     heap  |-> Push(s, p, d)])
          /\ reply' = <<"token", p, zero, d>>
    /\ UNCHANGED <<clock, released>>

Refresh(t, d) ==
    LET s == collectExpiredNodes IN
    /\ \/ t \notin DOMAIN s.token /\ Settle(s) /\ reply' = <<"refresh", t, d, "no such lock">>
       \/ /\ t \in DOMAIN s.token
          /\ LET p == s.token[t] IN
             \/ s.name[p].held /\ Settle(s) /\ reply' = <<"refresh", t, d, "locked">>
             \/ /\ ~s.name[p].held
                /\ Settle([s EXCEPT !.heap = Push([s EXCEPT !.heap = @ \ {p}], p, d),
                                    !.name[p].duration = d,
                                    !.name[p].expiry = IF d = Infinite THEN @ ELSE clock + d])
                /\ reply' = <<"refresh", t, d, "ok">>
    /\ UNCHANGED <<clock, gen, released>>

Unlock(t) ==
    LET s == collectExpiredNodes IN
    /\ \/ t \notin DOMAIN s.token /\ Settle(s) /\ reply' = <<"unlock", t, "no such lock">>
       \/ /\ t \in DOMAIN s.token
          /\ \/ s.name[s.token[t]].held /\ Settle(s) /\ reply' = <<"unlock", t, "locked">>
             \/ ~s.name[s.token[t]].held /\ Settle(remove(s, {s.token[t]})) /\ reply' = <<"unlock", t, "ok">>
    /\ UNCHANGED <<clock, gen, released>>

(* The node of the first condition whose lock covers the name and is not   *)
(* held, as a set of at most one path.                                     *)
lookup(s, p, conds) ==
    LET fits(t) == /\ t \in DOMAIN s.token
                   /\ LET q == s.token[t] IN
                      /\ ~s.name[q].held
                      /\ q = p \/ (~s.name[q].zeroDepth /\ q \in walkToRoot(p))
        good == {i \in DOMAIN conds : fits(conds[i])}
    IN  {s.token[conds[i]] : i \in {i \in good : \A j \in good : i <= j}}

(* hold takes a node out of the heap, unhold puts a finite one back with   *)
(* the expiry it had.                                                      *)
hold(s, N) ==
    [name  |-> [q \in DOMAIN s.name |-> [s.name[q] EXCEPT !.held = @ \/ q \in N]],
     token |-> s.token,
     heap  |-> s.heap \ N]
unhold(s, N) ==
    [name  |-> [q \in DOMAIN s.name |-> [s.name[q] EXCEPT !.held = @ /\ q \notin N]],
     token |-> s.token,
     heap  |-> s.heap \cup {q \in N : s.name[q].duration # Infinite}]

Confirm(x, p, q, conds) ==
    LET s  == collectExpiredNodes
        n0 == IF p = NoPath THEN {} ELSE lookup(s, p, conds)
        n1 == IF q = NoPath THEN {} ELSE lookup(s, q, conds)
    IN  /\ released[x] = {}
        /\ \/ /\ (p # NoPath /\ n0 = {}) \/ (q # NoPath /\ n1 = {})
              /\ Settle(s) /\ reply' = <<"confirmation failed", p, q, conds>> /\ UNCHANGED released
           \/ /\ p # NoPath => n0 # {}
              /\ q # NoPath => n1 # {}
              /\ Settle(hold(s, n0 \cup n1))
              /\ released' = [released EXCEPT ![x] = n0 \cup n1]
              /\ reply' = <<"confirmed", p, q, conds>>
        /\ UNCHANGED <<clock, gen>>

Release(x) ==
    /\ released[x] # {}
    /\ Settle(unhold(State, released[x]))
    /\ released' = [released EXCEPT ![x] = {}]
    /\ reply' = <<"none">>
    /\ UNCHANGED <<clock, gen>>

ConditionLists == UNION {[1 .. n -> Tokens] : n \in 0 .. MaxConditions}

MemNext ==
    \/ Tick
    \/ \E p \in LockPaths, zero \in BOOLEAN, d \in LockDurations : Create(p, zero, d)
    \/ \E t \in Tokens, d \in LockDurations : Refresh(t, d)
    \/ \E t \in Tokens : Unlock(t)
    \/ \E x \in Claimants, p, q \in LockPaths \cup {NoPath}, conds \in ConditionLists : Confirm(x, p, q, conds)
    \/ \E x \in Claimants : Release(x)

MemSpec == NewMemLS /\ [][MemNext]_memVars

(* The lock table that the nodes stand for.                                *)
Locked(t) == byName[byToken[t]]
tableLocks ==
    [t \in DOMAIN byToken |->
        [root |-> byToken[t], zeroDepth |-> Locked(t).zeroDepth,
         until |-> IF Locked(t).duration = Infinite THEN Infinite ELSE Locked(t).expiry]]
tableClaims == [x \in Claimants |-> {t \in DOMAIN byToken : byToken[t] \in released[x]}]
Table == INSTANCE LockTable WITH locks <- tableLocks, claims <- tableClaims, created <- gen

(* memLS implements the lock table: a call succeeds, fails and answers as  *)
(* the table does, although it decides from reference counts, a heap that  *)
(* skips held nodes and nodes left over from earlier locks.                *)
ImplementsLockTable == Table!TableSpec

(* Two locks never cover the same resource, as a client that was given a   *)
(* token relies on; locks whose time is over have gone before the next     *)
(* lock is given (memLS.Create, collectExpiredNodes).                      *)
LocksExclusive == Table!Exclusive

(* The indexes agree: a node's count is the number of locks on or below    *)
(* it (so it reaches zero, and the node goes, exactly with the last one),  *)
(* the heap holds the finite locks that are not held, and every held node  *)
(* is held for exactly one claimant (hold and unhold panic otherwise).     *)
NodesConsistent ==
    LET ofToken(p) == {t \in DOMAIN byToken : byToken[t] = p}
        below(p) == {t \in DOMAIN byToken : p \in walkToRoot(byToken[t])}
        locked == {p \in DOMAIN byName : byName[p].token # NoToken}
    IN  /\ \A p \in DOMAIN byName : byName[p].refCount = Cardinality(below(p)) /\ below(p) # {}
        /\ \A t \in DOMAIN byToken : byToken[t] \in DOMAIN byName /\ byName[byToken[t]].token = t
        /\ \A p \in locked : ofToken(p) = {byName[p].token}
        /\ byExpiry = {p \in locked : ~byName[p].held /\ byName[p].duration # Infinite}
        /\ \A p \in DOMAIN byName : byName[p].held <=> \E x \in Claimants : p \in released[x]
        /\ \A x, y \in Claimants : x # y => released[x] \cap released[y] = {}

(* What the lock system keeps through creation, expiry, confirmation and   *)
(* unlocking: exclusive locks, and indexes that agree with them.           *)
LocksInv == LocksExclusive /\ NodesConsistent
=============================================================================
