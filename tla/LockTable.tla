------------------------------ MODULE LockTable ------------------------------
(***************************************************************************)
(* What a LockSystem of pkg/webdav promises: a table of locks, each on a   *)
(* path, either on that path alone (zero depth) or on everything below it. *)
(* No two locks ever cover the same resource.  A lock ends when it is      *)
(* unlocked or its time is over, but not while a claimant holds it.        *)
(***************************************************************************)
EXTENDS Integers, Sequences, FiniteSets

CONSTANTS
    LockPaths,      \* paths as sequences of names; <<>> is "/"
    LockDurations,  \* lifetimes a client asks for
    Claimants,      \* requests that confirm locks
    MaxTokens,      \* bound: number of locks ever created
    MaxClock,       \* bound: last instant
    MaxConditions   \* bound: conditions of one Confirm

Infinite == -1
NoPath == <<"no path">>
Tokens == 1 .. MaxTokens
ConditionLists == UNION {[1 .. n -> Tokens] : n \in 0 .. MaxConditions}

VARIABLES
    clock,      \* the instant `now' of the next call
    locks,      \* token -> [root, zeroDepth, until]
    claims,     \* claimant -> the tokens it holds
    created,    \* the tokens handed out so far
    reply       \* the last call with its result

tableVars == <<clock, locks, claims, created, reply>>

Prefixes(p) == {SubSeq(p, 1, i) : i \in 0 .. Len(p)}
Covers(l, p) == IF l.zeroDepth THEN l.root = p ELSE l.root \in Prefixes(p)
Overlap(k, l) == Covers(k, l.root) \/ Covers(l, k.root)

HeldTokens == UNION {claims[x] : x \in Claimants}
Until(d) == IF d = Infinite THEN Infinite ELSE clock + d
Over(t) == t \notin HeldTokens /\ locks[t].until # Infinite /\ locks[t].until <= clock
Alive == {t \in DOMAIN locks : ~Over(t)}
Only(S) == [t \in S |-> locks[t]]

TableInit ==
    /\ clock = 0 /\ locks = <<>> /\ created = 0 /\ reply = <<"none">>
    /\ claims = [x \in Claimants |-> {}]

TableTick == clock < MaxClock /\ clock' = clock + 1 /\ UNCHANGED <<locks, claims, created, reply>>

TableCreate(p, zero, d) ==
    LET l == [root |-> p, zeroDepth |-> zero, until |-> Until(d)]
    IN  \/ /\ reply' = <<"locked", p, zero>>
           /\ \E t \in Alive : Overlap(locks[t], l)
           /\ locks' = Only(Alive) /\ UNCHANGED created
        \/ /\ reply' = <<"token", p, zero, d>>
           /\ \A t \in Alive : ~Overlap(locks[t], l)
           /\ created' = created + 1
           /\ locks' = [t \in Alive \cup {created'} |-> IF t = created' THEN l ELSE locks[t]]

(* The answer to a call that names a token: no such lock, held by someone, *)
(* or done.                                                                *)
Answer(t) == IF t \notin Alive THEN "no such lock" ELSE IF t \in HeldTokens THEN "locked" ELSE "ok"

TableRefresh(t, d) ==
    /\ reply' = <<"refresh", t, d, Answer(t)>>
    /\ locks' = [x \in Alive |-> IF x = t /\ t \notin HeldTokens
                                 THEN [locks[x] EXCEPT !.until = Until(d)] ELSE locks[x]]
    /\ UNCHANGED created

TableUnlock(t) ==
    /\ reply' = <<"unlock", t, Answer(t)>>
    /\ locks' = Only(IF t \in HeldTokens THEN Alive ELSE Alive \ {t})
    /\ UNCHANGED created

(* The ways to claim a named resource with the tokens in S.                *)
ClaimsOf(p, S) ==
    IF p = NoPath THEN {{}}
    ELSE {{t} : t \in {u \in (S \cap Alive) \ HeldTokens : Covers(locks[u], p)}}

TableConfirm(x, p, q, conds) ==
    LET S == {conds[i] : i \in DOMAIN conds} IN
    /\ \/ /\ reply' = <<"confirmation failed", p, q, conds>>
          /\ ClaimsOf(p, S) = {} \/ ClaimsOf(q, S) = {}
          /\ UNCHANGED claims
       \/ /\ reply' = <<"confirmed", p, q, conds>>
          /\ \E C \in ClaimsOf(p, S), D \in ClaimsOf(q, S) : claims' = [claims EXCEPT ![x] = C \cup D]
    /\ locks' = Only(Alive)
    /\ UNCHANGED created

TableRelease(x) ==
    /\ reply' = <<"none">>
    /\ claims' = [claims EXCEPT ![x] = {}]
    /\ UNCHANGED <<locks, created>>

TableNext ==
    \/ TableTick
    \/ UNCHANGED clock /\
       \/ UNCHANGED claims /\ \E p \in LockPaths, z \in BOOLEAN, d \in LockDurations : TableCreate(p, z, d)
       \/ UNCHANGED claims /\ \E t \in Tokens, d \in LockDurations : TableRefresh(t, d)
       \/ UNCHANGED claims /\ \E t \in Tokens : TableUnlock(t)
       \/ \E x \in Claimants, p, q \in LockPaths \cup {NoPath}, conds \in ConditionLists : TableConfirm(x, p, q, conds)
       \/ \E x \in Claimants : TableRelease(x)

TableSpec == TableInit /\ [][TableNext]_tableVars

(* Two locks of the table never cover the same resource.                   *)
Exclusive == \A t, u \in DOMAIN locks : t # u => ~Overlap(locks[t], locks[u])
=============================================================================
