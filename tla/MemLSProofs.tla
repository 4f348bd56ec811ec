---------------------------- MODULE MemLSProofs -----------------------------
(***************************************************************************)
(* Proofs about the in-memory lock system of pkg/webdav: its indexes       *)
(* agree, its locks are exclusive, and it implements the abstract lock     *)
(* table, for all paths, lifetimes and claimants. One lemma says what each *)
(* operator on the indexes (remove, create, hold, unhold, the change of    *)
(* Refresh) keeps, and one says what each call does to the table.          *)
(***************************************************************************)
EXTENDS MemLS, FiniteSetTheorems, SequenceTheorems, TLAPS

-----------------------------------------------------------------------------
(* The indexes of memLS and what its operators keep of them                *)

\* The nodes of memLS (memLSNode).
NodeRows ==
    [zeroDepth : BOOLEAN, duration : Int, expiry : Nat, token : Nat, refCount : Nat, held : BOOLEAN]

\* The locks on or below a path: what refCount counts.
Below(tk, q) == {t \in DOMAIN tk : q \in walkToRoot(tk[t])}

\* The nodes among N that are on or below a path: how often remove comes by,
\* ...
Under(N, q) == {p \in N : q \in walkToRoot(p)}

\* ... and the locks that these nodes stand for.
BelowIn(tk, q, N) == {t \in Below(tk, q) : tk[t] \in N}

\* The types of the two maps; tokens were handed out one after the other.
IndexTypes(nm, tk, g) ==
    /\ nm \in [DOMAIN nm -> NodeRows] /\ tk \in [DOMAIN tk -> LockPaths] /\ DOMAIN tk \subseteq 1 .. g

\* A node's refCount is the number of locks on or below it, and there is one.
Counted(nm, tk) ==
    \A q \in DOMAIN nm : nm[q].refCount = Cardinality(Below(tk, q)) /\ Below(tk, q) # {}

\* The two maps agree: a token leads to the node that has it, and the nodes on
\* the way to the root exist.
TokensFound(nm, tk) ==
    /\ \A t \in DOMAIN tk : walkToRoot(tk[t]) \subseteq DOMAIN nm /\ tk[t] \in DOMAIN nm /\ nm[tk[t]].token = t
    /\ \A q \in DOMAIN nm : nm[q].token # NoToken => nm[q].token \in DOMAIN tk /\ tk[nm[q].token] = q

\* The heap holds the finite locks that nobody holds, and nothing else.
HeapExact(nm, hp) ==
    \A q : q \in hp <=> q \in DOMAIN nm /\ nm[q].token # NoToken /\ ~nm[q].held /\ nm[q].duration # Infinite

\* A node is held exactly when some claimant's release function will unhold it,
\* and it is a locked one.
HeldExact(nm, rel) ==
    /\ \A q \in DOMAIN nm : nm[q].held <=> \E x \in Claimants : q \in rel[x]
    /\ \A x \in Claimants : \A q \in rel[x] : q \in DOMAIN nm /\ nm[q].token # NoToken

\* The indexes of memLS agree with one another. It speaks of any values of
\* them, since one call passes through several.
Index(nm, tk, hp, rel, g) ==
    /\ IndexTypes(nm, tk, g) /\ Counted(nm, tk) /\ TokensFound(nm, tk) /\ HeapExact(nm, hp) /\ HeldExact(nm, rel)

\* A node is held for one claimant.
ClaimsApart(rel) == \A x, y \in Claimants : x # y => rel[x] \cap rel[y] = {}

\* The clock, the last token and the release functions.
MemTypes == clock \in Nat /\ gen \in 0 .. MaxTokens /\ released \in [Claimants -> SUBSET LockPaths]

\* The inductive invariant. NodesConsistent alone is not kept: remove finds the
\* nodes on the way to the root only if they exist, and unhold puts the right
\* ones back in the heap only if held nodes are locked.
MemIndInv ==
    /\ MemTypes /\ Index(byName, byToken, byExpiry, released, gen) /\ ClaimsApart(released)
    /\ Table!Exclusive

\* The lock table that any values of the two maps stand for, ...
View(nm, tk) ==
    [t \in DOMAIN tk |->
        [root |-> tk[t], zeroDepth |-> nm[tk[t]].zeroDepth,
         until |-> IF nm[tk[t]].duration = Infinite THEN Infinite ELSE nm[tk[t]].expiry]]

\* ... and the claims on it.
ClaimView(tk, rel) == [x \in Claimants |-> {t \in DOMAIN tk : tk[t] \in rel[x]}]

-----------------------------------------------------------------------------

\* The walk from a path to the root starts at the path.
LEMMA OwnPath == ASSUME NEW p \in LockPaths PROVE p \in walkToRoot(p)
<1>1. p \in Seq(STRING) /\ Len(p) \in Nat
  BY LockAssumption
<1>2. SubSeq(p, 1, Len(p)) = p
  BY <1>1, SubSeqFull
<1>3. Len(p) \in 0 .. Len(p)
  BY <1>1
<1> QED BY <1>2, <1>3 DEF walkToRoot

\* There are finitely many tokens, so locks can be counted.
LEMMA TokensFinite ==
    ASSUME NEW g \in Nat, NEW nm, NEW tk, IndexTypes(nm, tk, g), NEW S \in SUBSET DOMAIN tk
    PROVE  IsFiniteSet(S) /\ Cardinality(S) \in Nat
<1>1. IsFiniteSet(1 .. g)
  BY FS_Interval
<1>2. S \in SUBSET (1 .. g)
  BY DEF IndexTypes
<1>3. IsFiniteSet(S)
  BY <1>1, <1>2, FS_Subset
<1> QED BY <1>3, FS_CardinalityType

\* Among locked nodes, nodes and tokens correspond one to one: counting one is
\* counting the other.
LEMMA OneTokenEach ==
    ASSUME NEW g \in Nat, NEW nm, NEW tk, IndexTypes(nm, tk, g), TokensFound(nm, tk), NEW N \in SUBSET DOMAIN nm,
           \A p \in N : nm[p].token # NoToken, NEW q
    PROVE  Cardinality(Under(N, q)) = Cardinality(BelowIn(tk, q, N))
<1> DEFINE S == {t \in Below(tk, q) : tk[t] \in N}
           T == {p \in N : q \in walkToRoot(p)}
           f == [t \in S |-> tk[t]]
<1>1. S \in SUBSET DOMAIN tk
  BY DEF Below
<1>2. IsFiniteSet(S)
  BY <1>1, TokensFinite
<1>3. f \in [S -> T]
  BY DEF Below
<1>4. ASSUME NEW t \in S, NEW u \in S, f[t] = f[u] PROVE t = u
  BY <1>1, <1>4 DEF TokensFound
<1>5. ASSUME NEW p \in T PROVE \E t \in S : f[t] = p
  <2>1. nm[p].token \in DOMAIN tk /\ tk[nm[p].token] = p
    BY DEF TokensFound
  <2>2. nm[p].token \in S
    BY <2>1 DEF Below
  <2> QED BY <2>1, <2>2
<1>6. f \in Bijection(S, T)
  <2>1. f \in Injection(S, T)
    BY <1>3, <1>4 DEF Injection, IsInjective
  <2>2. f \in Surjection(S, T)
    BY <1>3, <1>5 DEF Surjection
  <2> QED BY <2>1, <2>2 DEF Bijection
<1>7. ExistsBijection(S, T)
  BY <1>6 DEF ExistsBijection
<1> HIDE DEF S, T, f
<1>8. Cardinality(T) = Cardinality(S)
  BY <1>2, <1>7, FS_Bijection
<1> QED BY <1>8 DEF S, T, Under, BelowIn

\* remove, for nodes that are locked and not held, keeps the indexes in
\* agreement: every refCount falls by the locks that went, a node goes exactly
\* with the last lock below it, and the other locks stay as they were.
LEMMA RemoveKeeps ==
    ASSUME NEW g \in Nat, NEW nm, NEW tk, NEW hp, NEW rel, Index(nm, tk, hp, rel, g),
           NEW N \in SUBSET DOMAIN nm, \A p \in N : nm[p].token # NoToken /\ ~nm[p].held,
           NEW s, s = remove([name |-> nm, token |-> tk, heap |-> hp], N)
    PROVE  /\ Index(s.name, s.token, s.heap, rel, g) /\ s = [name |-> s.name, token |-> s.token, heap |-> s.heap]
           /\ DOMAIN s.token = {t \in DOMAIN tk : tk[t] \notin N}
           /\ \A t \in DOMAIN s.token :
                /\ s.token[t] = tk[t] /\ s.name[tk[t]].zeroDepth = nm[tk[t]].zeroDepth
                /\ s.name[tk[t]].duration = nm[tk[t]].duration /\ s.name[tk[t]].expiry = nm[tk[t]].expiry
                /\ s.name[tk[t]].held = nm[tk[t]].held
<1> DEFINE times(q) == Cardinality({p \in N : q \in walkToRoot(p)})
           kept == {q \in DOMAIN nm : nm[q].refCount > times(q)}
           gone == {nm[p].token : p \in N}
           row(q) == [nm[q] EXCEPT !.refCount = nm[q].refCount - times(q),
                                   !.token = IF q \in N THEN NoToken ELSE nm[q].token]
           name == [q \in kept |-> row(q)]
           token == [t \in DOMAIN tk \ gone |-> tk[t]]
<1>1. s.name = name /\ s.token = token /\ s.heap = hp \ N /\ s = [name |-> s.name, token |-> s.token, heap |-> s.heap]
  BY DEF remove, Restrict
<1>2. IndexTypes(nm, tk, g) /\ TokensFound(nm, tk) /\ Counted(nm, tk) /\ HeapExact(nm, hp) /\ HeldExact(nm, rel)
  BY DEF Index
<1>3. \A q : times(q) = Cardinality({t \in Below(tk, q) : tk[t] \in N})
  <2>1. \A p \in N : nm[p].token # NoToken
    OBVIOUS
  <2>2. \A q : Cardinality(Under(N, q)) = Cardinality(BelowIn(tk, q, N))
    BY <1>2, <2>1, OneTokenEach
  <2> QED BY <2>2 DEF Under, BelowIn
<1>4. DOMAIN tk \ gone = {t \in DOMAIN tk : tk[t] \notin N}
  BY <1>2 DEF TokensFound
<1>5. \A q : Below(token, q) = Below(tk, q) \ {t \in Below(tk, q) : tk[t] \in N}
  BY <1>4 DEF Below
<1> HIDE DEF times, gone
<1>6. ASSUME NEW q \in DOMAIN nm
      PROVE  /\ times(q) \in Nat /\ nm[q].refCount \in Nat
             /\ Cardinality(Below(token, q)) = nm[q].refCount - times(q)
             /\ q \in kept <=> Below(token, q) # {}
  <2> DEFINE R == {t \in Below(tk, q) : tk[t] \in N}
  <2>1. Below(tk, q) \in SUBSET DOMAIN tk /\ R \in SUBSET DOMAIN tk /\ Below(tk, q) \cap R = R
    BY DEF Below
  <2>2. times(q) = Cardinality(R) /\ Below(token, q) = Below(tk, q) \ R
    BY <1>3, <1>5
  <2> HIDE DEF R
  <2>3. /\ IsFiniteSet(Below(tk, q)) /\ Cardinality(Below(tk, q)) \in Nat
        /\ IsFiniteSet(R) /\ times(q) \in Nat
    BY <1>2, <2>1, <2>2, TokensFinite
  <2>4. /\ IsFiniteSet(Below(tk, q) \ R)
        /\ Cardinality(Below(tk, q) \ R) = Cardinality(Below(tk, q)) - Cardinality(Below(tk, q) \cap R)
    BY <2>3, FS_Difference
  <2>5. nm[q].refCount = Cardinality(Below(tk, q))
    BY <1>2 DEF Counted
  <2>6. Cardinality(Below(token, q)) = nm[q].refCount - times(q) /\ IsFiniteSet(Below(token, q))
    BY <2>1, <2>2, <2>4, <2>5
  <2>7. (Cardinality(Below(token, q)) = 0 <=> Below(token, q) = {}) /\ Cardinality(Below(token, q)) \in Nat
    BY <2>6, FS_EmptySet, FS_CardinalityType
  <2>8. q \in kept <=> nm[q].refCount > times(q)
    OBVIOUS
  <2> HIDE DEF kept
  <2>9. nm[q].refCount > times(q) <=> Cardinality(Below(token, q)) # 0
    BY <2>3, <2>5, <2>6, <2>7
  <2>10. q \in kept <=> Below(token, q) # {}
    BY <2>7, <2>8, <2>9, Zenon
  <2>11. times(q) \in Nat /\ nm[q].refCount \in Nat
    BY <2>3, <2>5
  <2> QED BY <2>6, <2>10, <2>11, Zenon
<1>7. ASSUME NEW q \in kept
      PROVE  /\ nm[q] \in NodeRows /\ row(q) \in NodeRows
             /\ row(q).refCount = nm[q].refCount - times(q) /\ row(q).token = (IF q \in N THEN NoToken ELSE nm[q].token)
             /\ row(q).zeroDepth = nm[q].zeroDepth /\ row(q).duration = nm[q].duration
             /\ row(q).expiry = nm[q].expiry /\ row(q).held = nm[q].held
  <2>1. nm[q] \in NodeRows /\ q \in DOMAIN nm
    BY <1>2 DEF IndexTypes
  <2>2. nm[q].refCount - times(q) \in Nat
    <3>1. nm[q].refCount > times(q)
      OBVIOUS
    <3>2. times(q) \in Nat /\ nm[q].refCount \in Nat
      BY <1>6, <2>1, Zenon
    <3> HIDE DEF kept
    <3> QED BY <3>1, <3>2
  <2>3. (IF q \in N THEN NoToken ELSE nm[q].token) \in Nat
    BY <2>1 DEF NodeRows, NoToken
  <2> QED BY <2>1, <2>2, <2>3 DEF NodeRows
<1> HIDE DEF row
<1>8. DOMAIN name = kept /\ kept \subseteq DOMAIN nm /\ \A q \in kept : name[q] = row(q)
  OBVIOUS
<1>9. DOMAIN token = {t \in DOMAIN tk : tk[t] \notin N} /\ \A t \in DOMAIN token : token[t] = tk[t]
  BY <1>4
<1> HIDE DEF name, token, kept
<1>10. IndexTypes(name, token, g)
  BY <1>2, <1>7, <1>8, <1>9 DEF IndexTypes, name, token
<1>11. Counted(name, token)
  BY <1>6, <1>7, <1>8 DEF Counted
<1>12. ASSUME NEW t \in DOMAIN token
       PROVE  /\ tk[t] \in DOMAIN nm /\ nm[tk[t]].token = t
              /\ walkToRoot(tk[t]) \subseteq kept /\ tk[t] \in kept
  <2>1. t \in DOMAIN tk /\ walkToRoot(tk[t]) \subseteq DOMAIN nm /\ tk[t] \in LockPaths
    BY <1>2, <1>9 DEF TokensFound, IndexTypes
  <2>2. \A q \in walkToRoot(tk[t]) : t \in Below(token, q)
    BY <1>9 DEF Below
  <2>3. walkToRoot(tk[t]) \subseteq kept
    BY <1>6, <2>1, <2>2
  <2> QED BY <1>2, <2>1, <2>3, OwnPath DEF TokensFound
<1>13. TokensFound(name, token)
  BY <1>2, <1>7, <1>8, <1>9, <1>12 DEF TokensFound, NoToken
<1>14. \A q \in DOMAIN nm : nm[q].token # NoToken /\ q \notin N => q \in kept
  BY <1>2, <1>9, <1>12 DEF TokensFound
<1>15. HeapExact(name, hp \ N)
  BY <1>2, <1>7, <1>8, <1>14 DEF HeapExact
<1>16. HeldExact(name, rel)
  <2>1. \A x \in Claimants : \A q \in rel[x] : q \in DOMAIN nm /\ nm[q].token # NoToken /\ q \notin N
    BY <1>2 DEF HeldExact
  <2> QED BY <1>2, <1>7, <1>8, <1>14, <2>1 DEF HeldExact
<1>17. \A t \in DOMAIN token :
         /\ token[t] = tk[t] /\ name[tk[t]].zeroDepth = nm[tk[t]].zeroDepth
         /\ name[tk[t]].duration = nm[tk[t]].duration /\ name[tk[t]].expiry = nm[tk[t]].expiry
         /\ name[tk[t]].held = nm[tk[t]].held
  BY <1>7, <1>8, <1>9, <1>12
<1> QED BY <1>1, <1>9, <1>10, <1>11, <1>13, <1>15, <1>16, <1>17 DEF Index

\* It holds for NewMemLS.
LEMMA MemInitInv == NewMemLS => MemIndInv
<1> SUFFICES ASSUME NewMemLS PROVE MemIndInv
  OBVIOUS
<1>1. DOMAIN byName = {} /\ DOMAIN byToken = {} /\ byExpiry = {} /\ gen = 0 /\ clock = 0
      /\ byName = [q \in {} |-> 0] /\ byToken = [t \in {} |-> 0]
  BY DEF NewMemLS
<1>2. released \in [Claimants -> SUBSET LockPaths] /\ \A x \in Claimants : released[x] = {}
  BY DEF NewMemLS
<1>3. MemTypes /\ ClaimsApart(released)
  BY <1>1, <1>2, LockAssumption DEF MemTypes, ClaimsApart
<1>4. IndexTypes(byName, byToken, gen)
  BY <1>1 DEF IndexTypes
<1>5. Counted(byName, byToken) /\ TokensFound(byName, byToken)
  BY <1>1 DEF Counted, TokensFound
<1>6. HeapExact(byName, byExpiry) /\ HeldExact(byName, released)
  BY <1>1, <1>2 DEF HeapExact, HeldExact
<1>7. Table!Exclusive
  BY <1>1 DEF Table!Exclusive, tableLocks
<1> QED BY <1>3, <1>4, <1>5, <1>6, <1>7 DEF MemIndInv, Index

\* The refinement mapping is the view of the two maps.
LEMMA Views == tableLocks = View(byName, byToken) /\ tableClaims = ClaimView(byToken, released)
BY DEF tableLocks, tableClaims, View, ClaimView, Locked

\* A lock of the table is claimed exactly when its node is held.
LEMMA HeldMeans ==
    ASSUME MemIndInv
    PROVE  /\ DOMAIN tableLocks = DOMAIN byToken /\ Table!HeldTokens \subseteq DOMAIN byToken
           /\ \A t \in DOMAIN byToken : t \in Table!HeldTokens <=> byName[byToken[t]].held
<1>1. HeldExact(byName, released) /\ TokensFound(byName, byToken)
  BY DEF MemIndInv, Index
<1>2. \A t : t \in Table!HeldTokens <=> \E x \in Claimants : t \in tableClaims[x]
  BY DEF Table!HeldTokens
<1>3. \A x \in Claimants : tableClaims[x] = {t \in DOMAIN byToken : byToken[t] \in released[x]}
  BY DEF tableClaims
<1>4. \A t \in DOMAIN byToken : byName[byToken[t]].held <=> \E x \in Claimants : byToken[t] \in released[x]
  BY <1>1 DEF HeldExact, TokensFound
<1> QED BY <1>2, <1>3, <1>4 DEF tableLocks

\* The nodes that collectExpiredNodes removes.
Due == {p \in byExpiry : byName[p].expiry <= clock}

\* The heap, which skips held nodes, yields exactly the locks of the table
\* whose time is over.
LEMMA OverMeans ==
    ASSUME MemIndInv
    PROVE  /\ Due \in SUBSET DOMAIN byName /\ \A p \in Due : byName[p].token # NoToken /\ ~byName[p].held
           /\ Table!Alive = {t \in DOMAIN byToken : byToken[t] \notin Due}
<1>1. HeapExact(byName, byExpiry) /\ TokensFound(byName, byToken) /\ IndexTypes(byName, byToken, gen) /\ MemTypes
  BY DEF MemIndInv, Index
<1>2. Due \in SUBSET DOMAIN byName /\ \A p \in Due : byName[p].token # NoToken /\ ~byName[p].held
  BY <1>1 DEF Due, HeapExact
<1>3. ASSUME NEW t \in DOMAIN byToken PROVE Table!Over(t) <=> byToken[t] \in Due
  <2> DEFINE n == byName[byToken[t]]
  <2>1. n \in NodeRows /\ n.token = t /\ t \in Nat \ {0} /\ byToken[t] \in DOMAIN byName
    BY <1>1 DEF TokensFound, IndexTypes, MemTypes
  <2>2. n.duration \in Int /\ n.expiry \in Nat /\ clock \in Nat
    BY <1>1, <2>1 DEF NodeRows, MemTypes
  <2>3. t \in Table!HeldTokens <=> n.held
    BY HeldMeans
  <2>4. tableLocks[t].until = IF n.duration = Infinite THEN Infinite ELSE n.expiry
    BY DEF tableLocks, Locked
  <2>5. Table!Over(t) <=> ~n.held /\ n.duration # Infinite /\ n.expiry <= clock
    BY <2>2, <2>3, <2>4 DEF Table!Over, Table!Infinite, Infinite
  <2>6. byToken[t] \in Due <=> ~n.held /\ n.duration # Infinite /\ n.expiry <= clock
    BY <1>1, <2>1 DEF Due, HeapExact, NoToken
  <2> QED BY <2>5, <2>6
<1>4. Table!Alive = {t \in DOMAIN byToken : byToken[t] \notin Due}
  BY <1>3, HeldMeans DEF Table!Alive
<1> QED BY <1>2, <1>4

\* What a call finds after collectExpiredNodes: indexes that agree, and exactly
\* the locks that are alive.
LEMMA Collected ==
    ASSUME MemIndInv, NEW s, s = collectExpiredNodes
    PROVE  /\ Index(s.name, s.token, s.heap, released, gen) /\ s = [name |-> s.name, token |-> s.token, heap |-> s.heap]
           /\ DOMAIN s.token = Table!Alive /\ Table!Alive \subseteq DOMAIN byToken
           /\ View(s.name, s.token) = Table!Only(Table!Alive)
           /\ ClaimView(s.token, released) = tableClaims
           /\ \A t \in Table!Alive :
                s.token[t] = byToken[t] /\ (s.name[s.token[t]].held <=> t \in Table!HeldTokens)
           /\ Table!HeldTokens \subseteq Table!Alive
<1>1. Index(byName, byToken, byExpiry, released, gen) /\ gen \in Nat
  BY DEF MemIndInv, MemTypes
<1>2. s = remove([name |-> byName, token |-> byToken, heap |-> byExpiry], Due)
  BY DEF collectExpiredNodes, State, Due
<1>3. /\ Index(s.name, s.token, s.heap, released, gen) /\ s = [name |-> s.name, token |-> s.token, heap |-> s.heap]
      /\ DOMAIN s.token = {t \in DOMAIN byToken : byToken[t] \notin Due}
      /\ \A t \in DOMAIN s.token :
           /\ s.token[t] = byToken[t] /\ s.name[byToken[t]].zeroDepth = byName[byToken[t]].zeroDepth
           /\ s.name[byToken[t]].duration = byName[byToken[t]].duration
           /\ s.name[byToken[t]].expiry = byName[byToken[t]].expiry
           /\ s.name[byToken[t]].held = byName[byToken[t]].held
  BY <1>1, <1>2, OverMeans, RemoveKeeps
<1>4. DOMAIN s.token = Table!Alive /\ Table!Alive \subseteq DOMAIN byToken
  BY <1>3, OverMeans
<1>5. View(s.name, s.token) = Table!Only(Table!Alive)
  <2>1. Table!Only(Table!Alive) = [t \in Table!Alive |-> tableLocks[t]]
    BY DEF Table!Only
  <2>2. \A t \in Table!Alive : View(s.name, s.token)[t] = tableLocks[t]
    BY <1>3, <1>4 DEF View, tableLocks, Locked
  <2>3. DOMAIN View(s.name, s.token) = Table!Alive /\ View(s.name, s.token) = [t \in Table!Alive |-> View(s.name, s.token)[t]]
    BY <1>4 DEF View
  <2> QED BY <2>1, <2>2, <2>3
<1>6. \A t \in Table!Alive : s.token[t] = byToken[t] /\ (s.name[s.token[t]].held <=> t \in Table!HeldTokens)
  BY <1>3, <1>4, HeldMeans
<1>7. ASSUME NEW t \in DOMAIN byToken, NEW x \in Claimants, byToken[t] \in released[x] PROVE t \in Table!Alive
  BY <1>1, <1>3, <1>4, <1>7, OverMeans DEF Index, HeldExact
<1>8. ClaimView(s.token, released) = tableClaims
  <2>1. \A x \in Claimants : {t \in DOMAIN s.token : s.token[t] \in released[x]} = {t \in DOMAIN byToken : byToken[t] \in released[x]}
    BY <1>3, <1>4, <1>7
  <2> QED BY <2>1 DEF ClaimView, tableClaims
<1>9. Table!HeldTokens \subseteq Table!Alive
  <2>1. \A t \in Table!HeldTokens : t \in DOMAIN byToken /\ \E x \in Claimants : byToken[t] \in released[x]
    BY DEF Table!HeldTokens, tableClaims
  <2> QED BY <1>7, <2>1
<1> QED BY <1>3, <1>4, <1>5, <1>6, <1>8, <1>9

\* canCreate, which only looks at the nodes from the path to the root and
\* relies on a node without lock standing for a lock below it, answers whether
\* the new lock overlaps an existing one.
LEMMA CanCreateMeans ==
    ASSUME NEW g \in Nat, NEW s, Index(s.name, s.token, s.heap, released, g),
           NEW p \in LockPaths, NEW zero \in BOOLEAN, NEW l, l.root = p, l.zeroDepth = zero
    PROVE  canCreate(s, p, zero) <=> \A t \in DOMAIN s.token : ~Table!Overlap(View(s.name, s.token)[t], l)
<1> DEFINE nm == s.name
           tk == s.token
<1>1. /\ \A t \in DOMAIN tk : walkToRoot(tk[t]) \subseteq DOMAIN nm /\ tk[t] \in DOMAIN nm /\ nm[tk[t]].token = t
      /\ \A q \in DOMAIN nm : nm[q].token # NoToken => nm[q].token \in DOMAIN tk /\ tk[nm[q].token] = q
      /\ \A q \in DOMAIN nm : \E t \in DOMAIN tk : q \in walkToRoot(tk[t])
      /\ \A t \in DOMAIN tk : tk[t] \in LockPaths /\ t # NoToken
  <2>1. IndexTypes(nm, tk, g) /\ TokensFound(nm, tk) /\ Counted(nm, tk)
    BY DEF Index
  <2>2. \A q \in DOMAIN nm : \E t \in DOMAIN tk : q \in walkToRoot(tk[t])
    BY <2>1 DEF Counted, Below
  <2>3. \A t \in DOMAIN tk : tk[t] \in LockPaths /\ t # NoToken
    BY <2>1 DEF IndexTypes, NoToken
  <2> QED BY <2>1, <2>2, <2>3 DEF TokensFound
<1>2. \A t \in DOMAIN tk : View(nm, tk)[t].root = tk[t] /\ View(nm, tk)[t].zeroDepth = nm[tk[t]].zeroDepth
  BY DEF View
<1>3. p \in walkToRoot(p) /\ \A t \in DOMAIN tk : tk[t] \in walkToRoot(tk[t])
  BY <1>1, OwnPath
<1>4. ASSUME NEW t \in DOMAIN tk
      PROVE  Table!Overlap(View(nm, tk)[t], l) <=>
                \/ IF nm[tk[t]].zeroDepth THEN tk[t] = p ELSE tk[t] \in walkToRoot(p)
                \/ IF zero THEN p = tk[t] ELSE p \in walkToRoot(tk[t])
  BY <1>2 DEF Table!Overlap, Table!Covers, Table!Prefixes, walkToRoot
<1>5. ASSUME NEW t \in DOMAIN tk, Table!Overlap(View(nm, tk)[t], l) PROVE ~canCreate(s, p, zero)
  <2>1. CASE IF nm[tk[t]].zeroDepth THEN tk[t] = p ELSE tk[t] \in walkToRoot(p)
    <3>1. tk[t] \in walkToRoot(p) \cap DOMAIN nm /\ nm[tk[t]].token # NoToken /\ (tk[t] # p => ~nm[tk[t]].zeroDepth)
      BY <1>1, <1>3, <2>1
    <3> QED BY <3>1 DEF canCreate
  <2>2. CASE IF zero THEN p = tk[t] ELSE p \in walkToRoot(tk[t])
    <3>1. p \in walkToRoot(p) \cap DOMAIN nm /\ (zero => nm[p].token # NoToken)
      BY <1>1, <1>3, <2>2
    <3> QED BY <3>1 DEF canCreate
  <2> QED BY <1>4, <1>5, <2>1, <2>2
<1>6. ASSUME ~canCreate(s, p, zero) PROVE \E t \in DOMAIN tk : Table!Overlap(View(nm, tk)[t], l)
  <2>1. PICK q \in walkToRoot(p) \cap DOMAIN nm :
            IF q = p THEN nm[q].token # NoToken \/ ~zero ELSE nm[q].token # NoToken /\ ~nm[q].zeroDepth
    BY <1>6 DEF canCreate
  <2>2. CASE nm[q].token # NoToken
    <3>1. nm[q].token \in DOMAIN tk /\ tk[nm[q].token] = q
      BY <1>1, <2>2
    <3> QED BY <1>4, <2>1, <3>1
  <2>3. CASE nm[q].token = NoToken
    <3>1. q = p /\ ~zero
      BY <2>1, <2>3
    <3>2. PICK t \in DOMAIN tk : q \in walkToRoot(tk[t])
      BY <1>1
    <3> QED BY <1>4, <3>1, <3>2
  <2> QED BY <2>2, <2>3
<1> QED BY <1>5, <1>6

\* The release functions after Confirm, and after a release.
Claiming(rel, x, M) == [rel EXCEPT ![x] = M]

\* hold keeps the indexes in agreement and the locks as they were.
LEMMA HoldKeeps ==
    ASSUME NEW g \in Nat, NEW nm, NEW tk, NEW hp, NEW rel, Index(nm, tk, hp, rel, g),
           rel \in [Claimants -> SUBSET LockPaths],
           NEW x \in Claimants, rel[x] = {}, NEW M \in SUBSET LockPaths,
           \A q \in M : q \in DOMAIN nm /\ nm[q].token # NoToken /\ ~nm[q].held,
           NEW h, h = hold([name |-> nm, token |-> tk, heap |-> hp], M)
    PROVE  /\ Index(h.name, h.token, h.heap, Claiming(rel, x, M), g)
           /\ h.token = tk /\ View(h.name, h.token) = View(nm, tk)
<1> DEFINE row(q) == [nm[q] EXCEPT !.held = nm[q].held \/ q \in M]
           name == [q \in DOMAIN nm |-> row(q)]
           rel2 == [rel EXCEPT ![x] = M]
<1>1. h.name = name /\ h.token = tk /\ h.heap = hp \ M
  BY DEF hold
<1>2. IndexTypes(nm, tk, g) /\ TokensFound(nm, tk) /\ Counted(nm, tk) /\ HeapExact(nm, hp) /\ HeldExact(nm, rel)
  BY DEF Index
<1>3. ASSUME NEW q \in DOMAIN nm
      PROVE  /\ row(q) \in NodeRows /\ row(q).token = nm[q].token /\ row(q).refCount = nm[q].refCount
             /\ row(q).zeroDepth = nm[q].zeroDepth /\ row(q).duration = nm[q].duration
             /\ row(q).expiry = nm[q].expiry /\ (row(q).held <=> nm[q].held \/ q \in M)
  <2>1. nm[q] \in NodeRows /\ (nm[q].held \/ q \in M) \in BOOLEAN
    BY <1>2 DEF IndexTypes
  <2> QED BY <2>1 DEF NodeRows
<1> HIDE DEF row
<1>4. DOMAIN name = DOMAIN nm /\ name \in [DOMAIN nm -> NodeRows] /\ \A q \in DOMAIN nm : name[q] = row(q)
  BY <1>3
<1>5. rel2[x] = M /\ \A y \in Claimants : y # x => rel2[y] = rel[y]
  OBVIOUS
<1> HIDE DEF name, rel2
<1>6. IndexTypes(name, tk, g) /\ Counted(name, tk)
  BY <1>2, <1>3, <1>4 DEF IndexTypes, Counted
<1>7. TokensFound(name, tk)
  BY <1>2, <1>3, <1>4 DEF TokensFound
<1>8. HeapExact(name, hp \ M)
  BY <1>2, <1>3, <1>4 DEF HeapExact
<1>9. HeldExact(name, rel2)
  BY <1>2, <1>3, <1>4, <1>5 DEF HeldExact
<1>10. View(name, tk) = View(nm, tk)
  <2>1. \A t \in DOMAIN tk : tk[t] \in DOMAIN nm
    BY <1>2 DEF TokensFound
  <2> QED BY <1>3, <1>4, <2>1 DEF View
<1> QED BY <1>1, <1>6, <1>7, <1>8, <1>9, <1>10 DEF Index, rel2, Claiming

\* unhold keeps the indexes in agreement and the locks as they were: a finite
\* lock is in the heap again.
LEMMA UnholdKeeps ==
    ASSUME NEW g \in Nat, NEW nm, NEW tk, NEW hp, NEW rel, Index(nm, tk, hp, rel, g), ClaimsApart(rel),
           rel \in [Claimants -> SUBSET LockPaths], NEW x \in Claimants,
           NEW h, h = unhold([name |-> nm, token |-> tk, heap |-> hp], rel[x])
    PROVE  /\ Index(h.name, h.token, h.heap, Claiming(rel, x, {}), g)
           /\ h.token = tk /\ View(h.name, h.token) = View(nm, tk)
<1> DEFINE M == rel[x]
           row(q) == [nm[q] EXCEPT !.held = nm[q].held /\ q \notin M]
           name == [q \in DOMAIN nm |-> row(q)]
           heap == hp \cup {q \in M : nm[q].duration # Infinite}
           rel2 == [rel EXCEPT ![x] = {}]
<1>1. h.name = name /\ h.token = tk /\ h.heap = heap
  BY DEF unhold
<1>2. IndexTypes(nm, tk, g) /\ TokensFound(nm, tk) /\ Counted(nm, tk) /\ HeapExact(nm, hp) /\ HeldExact(nm, rel)
  BY DEF Index
<1>3. ASSUME NEW q \in DOMAIN nm
      PROVE  /\ row(q) \in NodeRows /\ row(q).token = nm[q].token /\ row(q).refCount = nm[q].refCount
             /\ row(q).zeroDepth = nm[q].zeroDepth /\ row(q).duration = nm[q].duration
             /\ row(q).expiry = nm[q].expiry /\ (row(q).held <=> nm[q].held /\ q \notin M)
  <2>1. nm[q] \in NodeRows /\ (nm[q].held /\ q \notin M) \in BOOLEAN
    BY <1>2 DEF IndexTypes
  <2> QED BY <2>1 DEF NodeRows
<1> HIDE DEF row
<1>4. DOMAIN name = DOMAIN nm /\ name \in [DOMAIN nm -> NodeRows] /\ \A q \in DOMAIN nm : name[q] = row(q)
  BY <1>3
<1>5. rel2[x] = {} /\ \A y \in Claimants : y # x => rel2[y] = rel[y]
  OBVIOUS
<1>6. \A q \in M : q \in DOMAIN nm /\ nm[q].token # NoToken /\ nm[q].held
  BY <1>2 DEF HeldExact
<1>7. HeapExact(name, heap)
  <2>1. \A q : q \in heap <=> q \in hp \/ (q \in M /\ nm[q].duration # Infinite)
    OBVIOUS
  <2> HIDE DEF heap, name, M
  <2> QED BY <1>2, <1>3, <1>4, <1>6, <2>1 DEF HeapExact
<1>8. HeldExact(name, rel2)
  <2>1. \A q \in DOMAIN nm : nm[q].held /\ q \notin M <=> \E y \in Claimants : q \in rel2[y]
    BY <1>2, <1>5 DEF HeldExact, ClaimsApart
  <2> HIDE DEF name, M, rel2
  <2> QED BY <1>2, <1>3, <1>4, <1>5, <2>1 DEF HeldExact
<1> HIDE DEF name, rel2, M
<1>9. IndexTypes(name, tk, g) /\ Counted(name, tk)
  BY <1>2, <1>3, <1>4 DEF IndexTypes, Counted
<1>10. TokensFound(name, tk)
  BY <1>2, <1>3, <1>4 DEF TokensFound
<1>11. View(name, tk) = View(nm, tk)
  <2>1. \A t \in DOMAIN tk : tk[t] \in DOMAIN nm
    BY <1>2 DEF TokensFound
  <2> QED BY <1>3, <1>4, <2>1 DEF View
<1> QED BY <1>1, <1>7, <1>8, <1>9, <1>10, <1>11 DEF Index, rel2, Claiming

\* The indexes after Refresh.
Refreshed(s, p, d) ==
    [s EXCEPT !.heap = Push([s EXCEPT !.heap = @ \ {p}], p, d),
              !.name[p].duration = d,
              !.name[p].expiry = IF d = Infinite THEN @ ELSE clock + d]

\* The lock table with a new end of one lock.
WithUntil(K, t, d) ==
    [u \in DOMAIN K |-> IF u = t THEN [K[u] EXCEPT !.until = IF d = Infinite THEN Infinite ELSE clock + d] ELSE K[u]]

\* Refresh moves the node in the heap, or out of it when the lock no longer
\* ends, and changes nothing but the end of the lock.
LEMMA RefreshKeeps ==
    ASSUME NEW g \in Nat, NEW nm, NEW tk, NEW hp, NEW rel, Index(nm, tk, hp, rel, g),
           NEW t \in DOMAIN tk, ~nm[tk[t]].held, NEW d \in LockDurations, clock \in Nat,
           NEW h, h = Refreshed([name |-> nm, token |-> tk, heap |-> hp], tk[t], d)
    PROVE  /\ Index(h.name, h.token, h.heap, rel, g) /\ h.token = tk
           /\ View(h.name, h.token) = WithUntil(View(nm, tk), t, d)
<1> DEFINE p == tk[t]
           e == IF d = Infinite THEN nm[p].expiry ELSE clock + d
           row == [nm[p] EXCEPT !.duration = d, !.expiry = e]
           name == [nm EXCEPT ![p] = row]
           heap == IF d = Infinite THEN hp \ {p} ELSE (hp \ {p}) \cup {p}
<1>2. IndexTypes(nm, tk, g) /\ TokensFound(nm, tk) /\ Counted(nm, tk) /\ HeapExact(nm, hp) /\ HeldExact(nm, rel)
  BY DEF Index
<1>3. p \in DOMAIN nm /\ nm[p] \in NodeRows /\ nm[p].token = t /\ t # NoToken /\ d \in Int /\ (d # Infinite => d \in Nat)
      /\ nm \in [DOMAIN nm -> NodeRows]
  BY <1>2, LockAssumption DEF IndexTypes, TokensFound, NoToken, Infinite
<1>1. h.name = name /\ h.token = tk /\ h.heap = heap
  <2>1. h.token = tk
    BY DEF Refreshed
  <2>2. h.heap = heap
    BY DEF Push, Refreshed
  <2>3. h.name = [[nm EXCEPT ![p].duration = d] EXCEPT ![p].expiry = IF d = Infinite THEN @ ELSE clock + d]
    BY DEF Refreshed
  <2>4. [[nm EXCEPT ![p].duration = d] EXCEPT ![p].expiry = IF d = Infinite THEN @ ELSE clock + d] = name
    BY <1>3 DEF NodeRows
  <2> QED BY <2>1, <2>2, <2>3, <2>4
<1>4. e \in Nat
  BY <1>3 DEF NodeRows
<1> HIDE DEF e
<1>5. /\ row \in NodeRows /\ row.token = t /\ row.refCount = nm[p].refCount /\ row.zeroDepth = nm[p].zeroDepth
      /\ row.duration = d /\ row.expiry = e /\ (row.held <=> nm[p].held)
  BY <1>3, <1>4 DEF NodeRows
<1> HIDE DEF row
<1>6. /\ DOMAIN name = DOMAIN nm /\ name \in [DOMAIN nm -> NodeRows] /\ name[p] = row
      /\ \A q \in DOMAIN nm : q # p => name[q] = nm[q]
  BY <1>3, <1>5
<1>7. HeapExact(name, heap)
  <2>1. \A q : q \in heap <=> (q # p /\ q \in hp) \/ (q = p /\ d # Infinite)
    OBVIOUS
  <2> HIDE DEF heap, name
  <2> QED BY <1>2, <1>3, <1>5, <1>6, <2>1 DEF HeapExact
<1> HIDE DEF name, heap
<1>8. IndexTypes(name, tk, g) /\ Counted(name, tk)
  BY <1>2, <1>5, <1>6 DEF IndexTypes, Counted
<1>9. TokensFound(name, tk)
  BY <1>2, <1>3, <1>5, <1>6 DEF TokensFound
<1>10. HeldExact(name, rel)
  BY <1>2, <1>3, <1>5, <1>6 DEF HeldExact
<1>11. \A u \in DOMAIN tk : tk[u] \in DOMAIN nm /\ (tk[u] = p <=> u = t)
  BY <1>2, <1>3 DEF TokensFound
<1>12. View(name, tk) = WithUntil(View(nm, tk), t, d)
  <2>1. ASSUME NEW u \in DOMAIN tk, u # t PROVE View(name, tk)[u] = View(nm, tk)[u]
    BY <1>6, <1>11, <2>1 DEF View
  <2>2. View(name, tk)[t] = [View(nm, tk)[t] EXCEPT !.until = IF d = Infinite THEN Infinite ELSE clock + d]
    BY <1>5, <1>6 DEF View, e
  <2>3. View(name, tk) = [u \in DOMAIN tk |-> View(name, tk)[u]] /\ DOMAIN View(nm, tk) = DOMAIN tk
    BY DEF View
  <2> QED BY <2>1, <2>2, <2>3 DEF WithUntil
<1> QED BY <1>1, <1>7, <1>8, <1>9, <1>10, <1>12 DEF Index

\* The nodes, ...
WithName(s, p, zero, d, g) ==
    [create(s, p) EXCEPT ![p].token = g, ![p].zeroDepth = zero, ![p].duration = d,
                         ![p].expiry = IF d = Infinite THEN @ ELSE clock + d]

\* ... and the tokens after Create.
WithToken(tk, p, g) == [t \in DOMAIN tk \cup {g} |-> IF t = g THEN p ELSE tk[t]]

\* The lock that Create gives, ...
NewLock(p, zero, d) == [root |-> p, zeroDepth |-> zero, until |-> IF d = Infinite THEN Infinite ELSE clock + d]

\* ... and the lock table with it.
WithLock(K, g, l) == [t \in DOMAIN K \cup {g} |-> IF t = g THEN l ELSE K[t]]

\* Create, on a path without a lock, keeps the indexes in agreement: each node
\* on the way to the root counts one lock more, and what an earlier lock left
\* on the node is overwritten.
LEMMA AddKeeps ==
    ASSUME NEW g \in Nat, NEW nm, NEW tk, NEW hp, NEW rel, Index(nm, tk, hp, rel, g),
           NEW p \in LockPaths, p \in DOMAIN nm => nm[p].token = NoToken,
           NEW zero \in BOOLEAN, NEW d \in LockDurations, clock \in Nat,
           NEW nm2, nm2 = WithName([name |-> nm, token |-> tk, heap |-> hp], p, zero, d, g + 1),
           NEW tk2, tk2 = WithToken(tk, p, g + 1),
           NEW hp2, hp2 = Push([name |-> nm, token |-> tk, heap |-> hp], p, d)
    PROVE  /\ Index(nm2, tk2, hp2, rel, g + 1) /\ g + 1 \notin DOMAIN tk
           /\ View(nm2, tk2) = WithLock(View(nm, tk), g + 1, NewLock(p, zero, d))
           /\ ClaimView(tk2, rel) = ClaimView(tk, rel)
<1> DEFINE W == walkToRoot(p)
           D == DOMAIN nm \cup W
           old(q) == IF q \in DOMAIN nm THEN nm[q] ELSE NewNode
           up(q) == IF q \in W THEN [old(q) EXCEPT !.refCount = old(q).refCount + 1] ELSE old(q)
           made == [q \in D |-> up(q)]
           e == IF d = Infinite THEN old(p).expiry ELSE clock + d
           row == [up(p) EXCEPT !.token = g + 1, !.zeroDepth = zero, !.duration = d, !.expiry = e]
<1>1. IndexTypes(nm, tk, g) /\ TokensFound(nm, tk) /\ Counted(nm, tk) /\ HeapExact(nm, hp) /\ HeldExact(nm, rel)
  BY DEF Index
<1>2. p \in W /\ p \in D
  BY OwnPath
<1>3. ASSUME NEW q \in D PROVE old(q) \in NodeRows
  BY <1>1 DEF IndexTypes, NodeRows, NewNode, NoToken
<1> HIDE DEF old
<1>4. ASSUME NEW q \in D
      PROVE  /\ up(q) \in NodeRows /\ up(q).token = old(q).token /\ up(q).zeroDepth = old(q).zeroDepth
             /\ up(q).duration = old(q).duration /\ up(q).expiry = old(q).expiry /\ up(q).held = old(q).held
             /\ up(q).refCount = IF q \in W THEN old(q).refCount + 1 ELSE old(q).refCount
  <2> HIDE DEF W
  <2>1. old(q).refCount \in Nat /\ old(q).refCount + 1 \in Nat /\ old(q) \in NodeRows
    BY <1>3 DEF NodeRows
  <2> QED BY <2>1 DEF NodeRows
<1>5. d \in Int /\ (d # Infinite => d \in Nat) /\ g + 1 \in Nat /\ g + 1 # NoToken
  BY LockAssumption DEF Infinite, NoToken
<1>6. e \in Nat
  BY <1>2, <1>3, <1>5 DEF NodeRows
<1> HIDE DEF up, e, W
<1>7. /\ row \in NodeRows /\ row.token = g + 1 /\ row.zeroDepth = zero /\ row.duration = d
      /\ row.expiry = e /\ row.held = old(p).held /\ row.refCount = old(p).refCount + 1
  BY <1>2, <1>4, <1>5, <1>6 DEF NodeRows
<1>8. create([name |-> nm, token |-> tk, heap |-> hp], p) = made
  BY DEF create, up, old, W
<1>9. nm2 = [made EXCEPT ![p] = row]
  <2>1. made[p] = up(p) /\ up(p) \in NodeRows /\ up(p).expiry = old(p).expiry /\ DOMAIN made = D
    BY <1>2, <1>4
  <2> HIDE DEF made
  <2>2. nm2 = [[[[made EXCEPT ![p].token = g + 1] EXCEPT ![p].zeroDepth = zero] EXCEPT ![p].duration = d]
                 EXCEPT ![p].expiry = IF d = Infinite THEN @ ELSE clock + d]
    BY <1>8, ZenonT(60) DEF WithName
  <2> DEFINE r1 == [up(p) EXCEPT !.token = g + 1]
             r2 == [r1 EXCEPT !.zeroDepth = zero]
             r3 == [r2 EXCEPT !.duration = d]
             r4 == [r3 EXCEPT !.expiry = e]
  <2>3. row = r4
    OBVIOUS
  <2>4. r1 \in NodeRows /\ r1.expiry = old(p).expiry
    BY <1>5, <2>1 DEF NodeRows
  <2> HIDE DEF r1
  <2>5. r2 \in NodeRows /\ r2.expiry = old(p).expiry
    BY <2>4 DEF NodeRows
  <2> HIDE DEF r2
  <2>6. r3 \in NodeRows /\ r3.expiry = old(p).expiry
    BY <1>5, <2>5 DEF NodeRows
  <2> HIDE DEF r3, r4
  <2>7. [made EXCEPT ![p].token = g + 1] = [made EXCEPT ![p] = r1]
    BY <2>1 DEF r1
  <2>8. [[made EXCEPT ![p] = r1] EXCEPT ![p].zeroDepth = zero] = [made EXCEPT ![p] = r2]
    BY <1>2, <2>1 DEF r2
  <2>9. [[made EXCEPT ![p] = r2] EXCEPT ![p].duration = d] = [made EXCEPT ![p] = r3]
    BY <1>2, <2>1 DEF r3
  <2>10. [[made EXCEPT ![p] = r3] EXCEPT ![p].expiry = IF d = Infinite THEN @ ELSE clock + d] = [made EXCEPT ![p] = r4]
    BY <1>2, <2>1, <2>6 DEF r4, e
  <2>11. nm2 = [[[[made EXCEPT ![p] = r1] EXCEPT ![p].zeroDepth = zero] EXCEPT ![p].duration = d]
                 EXCEPT ![p].expiry = IF d = Infinite THEN @ ELSE clock + d]
    BY <2>2, <2>7, Zenon
  <2>12. nm2 = [[[made EXCEPT ![p] = r2] EXCEPT ![p].duration = d] EXCEPT ![p].expiry = IF d = Infinite THEN @ ELSE clock + d]
    BY <2>8, <2>11, Zenon
  <2>13. nm2 = [[made EXCEPT ![p] = r3] EXCEPT ![p].expiry = IF d = Infinite THEN @ ELSE clock + d]
    BY <2>9, <2>12, Zenon
  <2> QED BY <2>3, <2>10, <2>13, Zenon
<1> HIDE DEF row
<1>10. /\ DOMAIN nm2 = D /\ nm2[p] = row /\ nm2 \in [D -> NodeRows]
       /\ \A q \in D : q # p => nm2[q] = up(q)
  <2>1. DOMAIN made = D /\ (\A q \in D : made[q] = up(q)) /\ made \in [D -> NodeRows]
    BY <1>4
  <2> HIDE DEF made, D
  <2>2. DOMAIN nm2 = D /\ nm2[p] = row
    BY <1>2, <1>9, <2>1
  <2>3. \A q \in D : q # p => nm2[q] = up(q)
    BY <1>9, <2>1
  <2>4. nm2 \in [D -> NodeRows]
    BY <1>7, <1>9, <2>1
  <2> QED BY <2>2, <2>3, <2>4
<1> HIDE DEF made
<1>11. ASSUME NEW q \in D
       PROVE  /\ nm2[q].refCount = (IF q \in W THEN old(q).refCount + 1 ELSE old(q).refCount)
              /\ nm2[q].held = old(q).held
              /\ q # p => /\ nm2[q].token = old(q).token /\ nm2[q].duration = old(q).duration
                          /\ nm2[q].zeroDepth = old(q).zeroDepth /\ nm2[q].expiry = old(q).expiry
  <2>1. CASE q = p
    BY <1>2, <1>7, <1>10, <2>1
  <2>2. CASE q # p
    BY <1>4, <1>10, <2>2
  <2> QED BY <2>1, <2>2
<1>12. /\ DOMAIN tk \subseteq 1 .. g /\ g + 1 \notin DOMAIN tk /\ DOMAIN tk2 = DOMAIN tk \cup {g + 1}
       /\ tk2[g + 1] = p /\ \A t \in DOMAIN tk : t # g + 1 /\ tk2[t] = tk[t]
  BY <1>1 DEF IndexTypes, WithToken
<1>13. IndexTypes(nm2, tk2, g + 1)
  <2>1. tk2 \in [DOMAIN tk2 -> LockPaths]
    BY <1>1 DEF IndexTypes, WithToken
  <2>2. DOMAIN tk2 \subseteq 1 .. (g + 1)
    BY <1>12
  <2> QED BY <1>10, <2>1, <2>2 DEF IndexTypes
<1>14. \A q : Below(tk2, q) = Below(tk, q) \cup (IF q \in W THEN {g + 1} ELSE {})
  BY <1>12 DEF Below, W
<1>15. \A q \in DOMAIN nm : old(q) = nm[q]
  BY DEF old
<1>16. ASSUME NEW q \in D, q \notin DOMAIN nm
       PROVE  /\ q \in W /\ Below(tk, q) = {} /\ old(q).refCount = 0 /\ old(q).token = NoToken /\ ~old(q).held
              /\ old(q) = NewNode
  <2>1. Below(tk, q) = {}
    BY <1>1, <1>16 DEF Below, TokensFound
  <2>2. old(q) = NewNode
    BY <1>16 DEF old
  <2> QED BY <1>16, <2>1, <2>2 DEF NewNode
<1>17. Counted(nm2, tk2)
  <2> SUFFICES ASSUME NEW q \in D
               PROVE  nm2[q].refCount = Cardinality(Below(tk2, q)) /\ Below(tk2, q) # {}
    BY <1>10 DEF Counted
  <2>1. Below(tk, q) \in SUBSET DOMAIN tk /\ g + 1 \notin Below(tk, q)
    BY <1>12 DEF Below
  <2>2. IsFiniteSet(Below(tk, q)) /\ Cardinality(Below(tk, q)) \in Nat
    BY <1>1, <2>1, TokensFinite
  <2>3. old(q).refCount = Cardinality(Below(tk, q))
    BY <1>1, <1>15, <1>16, FS_EmptySet DEF Counted
  <2>4. CASE q \in W
    <3>1. Below(tk2, q) = Below(tk, q) \cup {g + 1}
      BY <1>14, <2>4
    <3>2. Cardinality(Below(tk, q) \cup {g + 1}) = Cardinality(Below(tk, q)) + 1
      BY <2>1, <2>2, FS_AddElement
    <3> QED BY <1>11, <2>3, <2>4, <3>1, <3>2
  <2>5. CASE q \notin W
    <3>1. q \in DOMAIN nm /\ Below(tk2, q) = Below(tk, q)
      BY <1>14, <1>16, <2>5
    <3> QED BY <1>1, <1>11, <2>3, <2>5, <3>1 DEF Counted
  <2> QED BY <2>4, <2>5
<1>18. nm2[p].token = g + 1 /\ ~nm2[p].held /\ nm2[p].duration = d /\ nm2[p].zeroDepth = zero /\ nm2[p].expiry = e
  <2>1. ~old(p).held
    BY <1>1, <1>2, <1>15, <1>16 DEF HeldExact
  <2> QED BY <1>7, <1>10, <2>1
<1>19. \A t \in DOMAIN tk : tk[t] # p /\ tk[t] \in DOMAIN nm /\ walkToRoot(tk[t]) \subseteq DOMAIN nm /\ nm[tk[t]].token = t /\ t # NoToken
  BY <1>1, <1>12 DEF TokensFound, NoToken
<1>20. TokensFound(nm2, tk2)
  <2>1. ASSUME NEW t \in DOMAIN tk2
        PROVE  walkToRoot(tk2[t]) \subseteq D /\ tk2[t] \in D /\ nm2[tk2[t]].token = t
    <3>1. CASE t = g + 1
      BY <1>2, <1>12, <1>18, <3>1 DEF W
    <3>2. CASE t \in DOMAIN tk
      <4>1. tk2[t] = tk[t] /\ tk[t] \in D /\ tk[t] # p /\ old(tk[t]) = nm[tk[t]]
        BY <1>12, <1>15, <1>19, <3>2
      <4>2. nm2[tk[t]].token = nm[tk[t]].token
        BY <1>11, <4>1, Zenon
      <4> QED BY <1>19, <3>2, <4>1, <4>2
    <3> QED BY <1>12, <3>1, <3>2
  <2>2. ASSUME NEW q \in D, nm2[q].token # NoToken PROVE nm2[q].token \in DOMAIN tk2 /\ tk2[nm2[q].token] = q
    <3>1. CASE q = p
      BY <1>12, <1>18, <3>1
    <3>2. CASE q # p
      <4>1. nm2[q].token = old(q).token
        BY <1>11, <3>2
      <4>2. q \in DOMAIN nm /\ old(q) = nm[q]
        BY <1>15, <1>16, <2>2, <4>1
      <4> QED BY <1>1, <1>12, <2>2, <4>1, <4>2 DEF TokensFound
    <3> QED BY <3>1, <3>2
  <2> QED BY <1>10, <2>1, <2>2 DEF TokensFound
<1>21. HeapExact(nm2, hp2)
  <2>1. \A q : q \in hp2 <=> q \in hp \/ (q = p /\ d # Infinite)
    BY DEF Push
  <2>2. p \notin hp
    BY <1>1 DEF HeapExact
  <2>3. ASSUME NEW q, q # p
        PROVE  q \in hp2 <=> q \in D /\ nm2[q].token # NoToken /\ ~nm2[q].held /\ nm2[q].duration # Infinite
    <3>1. CASE q \in DOMAIN nm
      <4>1. nm2[q].token = nm[q].token /\ nm2[q].held = nm[q].held /\ nm2[q].duration = nm[q].duration
        BY <1>11, <1>15, <2>3, <3>1
      <4>2. q \in hp <=> q \in DOMAIN nm /\ nm[q].token # NoToken /\ ~nm[q].held /\ nm[q].duration # Infinite
        BY <1>1 DEF HeapExact
      <4> QED BY <2>1, <2>3, <3>1, <4>1, <4>2
    <3>2. CASE q \notin DOMAIN nm
      <4>1. q \notin hp2
        BY <1>1, <2>1, <2>3, <3>2 DEF HeapExact
      <4>2. q \in D => nm2[q].token = NoToken
        BY <1>11, <1>16, <2>3, <3>2
      <4> QED BY <4>1, <4>2
    <3> QED BY <3>1, <3>2
  <2>4. p \in hp2 <=> p \in D /\ nm2[p].token # NoToken /\ ~nm2[p].held /\ nm2[p].duration # Infinite
    BY <1>2, <1>5, <1>18, <2>1, <2>2
  <2> QED BY <1>10, <2>3, <2>4 DEF HeapExact
<1>22. \A x \in Claimants : \A q \in rel[x] : q \in DOMAIN nm /\ nm[q].token # NoToken /\ q # p
  BY <1>1 DEF HeldExact
<1>23. HeldExact(nm2, rel)
  <2>1. ASSUME NEW q \in D PROVE nm2[q].held <=> \E x \in Claimants : q \in rel[x]
    BY <1>1, <1>11, <1>15, <1>16, <1>22 DEF HeldExact
  <2>2. ASSUME NEW x \in Claimants, NEW q \in rel[x] PROVE q \in D /\ nm2[q].token # NoToken
    BY <1>11, <1>15, <1>22
  <2> QED BY <1>10, <2>1, <2>2 DEF HeldExact
<1>24. Index(nm2, tk2, hp2, rel, g + 1)
  BY <1>13, <1>17, <1>20, <1>21, <1>23 DEF Index
<1>25. \A t \in DOMAIN tk : View(nm2, tk2)[t] = View(nm, tk)[t]
  <2> SUFFICES ASSUME NEW t \in DOMAIN tk PROVE View(nm2, tk2)[t] = View(nm, tk)[t]
    OBVIOUS
  <2>1. t \in DOMAIN tk2 /\ tk2[t] = tk[t] /\ tk[t] \in D /\ tk[t] # p /\ old(tk[t]) = nm[tk[t]]
    BY <1>12, <1>15, <1>19
  <2>2. /\ nm2[tk[t]].zeroDepth = nm[tk[t]].zeroDepth /\ nm2[tk[t]].duration = nm[tk[t]].duration
        /\ nm2[tk[t]].expiry = nm[tk[t]].expiry
    BY <1>11, <2>1
  <2> QED BY <2>1, <2>2 DEF View
<1>26. View(nm2, tk2)[g + 1] = NewLock(p, zero, d)
  BY <1>12, <1>18 DEF View, e, NewLock
<1>27. View(nm2, tk2) = [t \in DOMAIN tk \cup {g + 1} |-> View(nm2, tk2)[t]]
  BY <1>12 DEF View
<1>28. ClaimView(tk2, rel) = ClaimView(tk, rel)
  <2>1. \A x \in Claimants : {t \in DOMAIN tk2 : tk2[t] \in rel[x]} = {t \in DOMAIN tk : tk[t] \in rel[x]}
    BY <1>12, <1>22
  <2> QED BY <2>1 DEF ClaimView
<1>29. DOMAIN View(nm, tk) = DOMAIN tk
  BY DEF View
<1>30. View(nm2, tk2) = WithLock(View(nm, tk), g + 1, NewLock(p, zero, d))
  BY <1>12, <1>25, <1>26, <1>27, <1>29 DEF WithLock
<1> QED BY <1>12, <1>24, <1>28, <1>30

\* No two locks of a table overlap.
Apart(K) == \A t, u \in DOMAIN K : t # u => ~Table!Overlap(K[t], K[u])

\* A table with fewer locks, or with other ends of them, has no overlap either.
LEMMA ApartKept ==
    ASSUME NEW K, NEW F, Apart(K), DOMAIN F \subseteq DOMAIN K,
           \A t \in DOMAIN F : F[t].root = K[t].root /\ F[t].zeroDepth = K[t].zeroDepth
    PROVE  Apart(F)
<1> SUFFICES ASSUME NEW t \in DOMAIN F, NEW u \in DOMAIN F, t # u PROVE ~Table!Overlap(F[t], F[u])
  BY DEF Apart
<1>1. ~Table!Overlap(K[t], K[u])
  BY DEF Apart
<1> QED BY <1>1 DEF Table!Overlap, Table!Covers

\* What a call has to show of the indexes that it leaves behind.
LEMMA Landed ==
    ASSUME NEW s, NEW rel, NEW g, Settle(s), released' = rel, gen' = g, Index(s.name, s.token, s.heap, rel, g),
           g \in 0 .. MaxTokens, rel \in [Claimants -> SUBSET LockPaths], ClaimsApart(rel), clock' \in Nat,
           Apart(View(s.name, s.token))
    PROVE  MemIndInv' /\ tableLocks' = View(s.name, s.token) /\ tableClaims' = ClaimView(s.token, rel)
<1>1. byName' = s.name /\ byToken' = s.token /\ byExpiry' = s.heap
  BY DEF Settle
<1>2. tableLocks' = View(s.name, s.token) /\ tableClaims' = ClaimView(s.token, rel)
  BY <1>1 DEF tableLocks, tableClaims, Locked, View, ClaimView
<1>3. MemTypes'
  BY DEF MemTypes
<1>4. Index(byName', byToken', byExpiry', released', gen') /\ ClaimsApart(released')
  BY <1>1
<1>5. Table!Exclusive'
  BY <1>2 DEF Table!Exclusive, Apart
<1> QED BY <1>2, <1>3, <1>4, <1>5 DEF MemIndInv

\* The parts of the invariant that every call uses.
LEMMA Holds ==
    ASSUME MemIndInv
    PROVE  /\ clock \in Nat /\ gen \in 0 .. MaxTokens /\ gen \in Nat /\ MaxTokens \in Nat
           /\ released \in [Claimants -> SUBSET LockPaths] /\ ClaimsApart(released) /\ Apart(tableLocks)
           /\ \A S \in SUBSET DOMAIN tableLocks : Apart(Table!Only(S))
<1>1. MemTypes /\ ClaimsApart(released) /\ Table!Exclusive
  BY DEF MemIndInv
<1>2. Apart(tableLocks)
  BY <1>1 DEF Table!Exclusive, Apart
<1>3. ASSUME NEW S \in SUBSET DOMAIN tableLocks PROVE Apart(Table!Only(S))
  <2>1. Table!Only(S) = [t \in S |-> tableLocks[t]]
    BY DEF Table!Only
  <2> QED BY <1>2, <2>1 DEF Apart
<1> QED BY <1>1, <1>2, <1>3, LockAssumption DEF MemTypes

\* Create does what the lock table does.
LEMMA CreateStep ==
    ASSUME MemIndInv, NEW p \in LockPaths, NEW zero \in BOOLEAN, NEW d \in LockDurations, Create(p, zero, d)
    PROVE  MemIndInv' /\ UNCHANGED clock /\ tableClaims' = tableClaims /\ Table!TableCreate(p, zero, d)
<1> DEFINE s == collectExpiredNodes
           l == [root |-> p, zeroDepth |-> zero, until |-> Table!Until(d)]
<1>1. /\ Index(s.name, s.token, s.heap, released, gen) /\ s = [name |-> s.name, token |-> s.token, heap |-> s.heap]
      /\ DOMAIN s.token = Table!Alive /\ Table!Alive \subseteq DOMAIN byToken
      /\ View(s.name, s.token) = Table!Only(Table!Alive) /\ ClaimView(s.token, released) = tableClaims
  BY Collected
<1>2. /\ clock \in Nat /\ gen \in 0 .. MaxTokens /\ gen \in Nat /\ MaxTokens \in Nat
      /\ released \in [Claimants -> SUBSET LockPaths] /\ ClaimsApart(released) /\ Apart(tableLocks)
      /\ \A S \in SUBSET DOMAIN tableLocks : Apart(Table!Only(S))
  BY Holds
<1>3. DOMAIN tableLocks = DOMAIN byToken
  BY DEF tableLocks
<1>4. Apart(View(s.name, s.token)) /\ \A t \in Table!Alive : View(s.name, s.token)[t] = tableLocks[t]
  <2>1. Apart(Table!Only(Table!Alive))
    BY <1>1, <1>2, <1>3
  <2>2. \A t \in Table!Alive : Table!Only(Table!Alive)[t] = tableLocks[t]
    BY DEF Table!Only
  <2> QED BY <1>1, <2>1, <2>2
<1>5. \/ /\ ~canCreate(s, p, zero) /\ Settle(s) /\ reply' = <<"locked", p, zero>> /\ gen' = gen
      \/ /\ canCreate(s, p, zero) /\ gen < MaxTokens /\ gen' = gen + 1
         /\ Settle([name  |-> [create(s, p) EXCEPT
                                 ![p].token = gen', ![p].zeroDepth = zero, ![p].duration = d,
                                 ![p].expiry = IF d = Infinite THEN @ ELSE clock + d],
                    token |-> [t \in DOMAIN s.token \cup {gen'} |-> IF t = gen' THEN p ELSE s.token[t]],
                    heap  |-> Push(s, p, d)])
         /\ reply' = <<"token", p, zero, d>>
  BY DEF Create, nextToken
<1>6. clock' = clock /\ released' = released
  BY DEF Create
<1>7. l.root = p /\ l.zeroDepth = zero /\ l.until = IF d = Infinite THEN Infinite ELSE clock + d
  BY DEF Table!Until, Table!Infinite, Infinite
<1> HIDE DEF s, l
<1>8. canCreate(s, p, zero) <=> \A t \in Table!Alive : ~Table!Overlap(tableLocks[t], l)
  <2>1. canCreate(s, p, zero) <=> \A t \in DOMAIN s.token : ~Table!Overlap(View(s.name, s.token)[t], l)
    BY <1>1, <1>2, <1>7, CanCreateMeans
  <2> QED BY <1>1, <1>4, <2>1
<1>9. CASE ~canCreate(s, p, zero) /\ Settle(s) /\ reply' = <<"locked", p, zero>> /\ gen' = gen
  <2>1. MemIndInv' /\ tableLocks' = View(s.name, s.token) /\ tableClaims' = ClaimView(s.token, released)
    BY <1>1, <1>2, <1>4, <1>6, <1>9, Landed
  <2>2. \E t \in Table!Alive : Table!Overlap(tableLocks[t], l)
    BY <1>8, <1>9
  <2>3. Table!TableCreate(p, zero, d)
    BY <1>1, <1>9, <2>1, <2>2 DEF Table!TableCreate, l
  <2> QED BY <1>1, <1>6, <2>1, <2>3
<1>10. CASE /\ canCreate(s, p, zero) /\ gen < MaxTokens /\ gen' = gen + 1
            /\ Settle([name  |-> [create(s, p) EXCEPT
                                    ![p].token = gen', ![p].zeroDepth = zero, ![p].duration = d,
                                    ![p].expiry = IF d = Infinite THEN @ ELSE clock + d],
                       token |-> [t \in DOMAIN s.token \cup {gen'} |-> IF t = gen' THEN p ELSE s.token[t]],
                       heap  |-> Push(s, p, d)])
            /\ reply' = <<"token", p, zero, d>>
  <2> DEFINE nm == s.name
             tk == s.token
             hp == s.heap
             r == [name |-> nm, token |-> tk, heap |-> hp]
             nm2 == WithName(r, p, zero, d, gen + 1)
             tk2 == WithToken(tk, p, gen + 1)
             hp2 == Push(r, p, d)
             s2 == [name |-> nm2, token |-> tk2, heap |-> hp2]
  <2>1. Settle(s2)
    BY <1>1, <1>10 DEF WithName, WithToken
  <2>2. p \in DOMAIN nm => nm[p].token = NoToken
    BY <1>10, OwnPath DEF canCreate
  <2>3. Index(nm, tk, hp, released, gen)
    BY <1>1
  <2>5. s2.name = nm2 /\ s2.token = tk2 /\ s2.heap = hp2
    OBVIOUS
  <2>14. /\ nm2 = WithName([name |-> nm, token |-> tk, heap |-> hp], p, zero, d, gen + 1)
         /\ tk2 = WithToken(tk, p, gen + 1) /\ hp2 = Push([name |-> nm, token |-> tk, heap |-> hp], p, d)
         /\ gen \in Nat /\ clock \in Nat
    BY <1>2
  <2> HIDE DEF nm, tk, hp, nm2, tk2, hp2, s2
  <2>4. /\ Index(nm2, tk2, hp2, released, gen + 1) /\ gen + 1 \notin DOMAIN tk
        /\ View(nm2, tk2) = WithLock(View(nm, tk), gen + 1, NewLock(p, zero, d))
        /\ ClaimView(tk2, released) = ClaimView(tk, released)
    BY <2>2, <2>3, <2>14, AddKeeps
  <2>6. l = NewLock(p, zero, d)
    BY DEF NewLock, l, Table!Until, Table!Infinite, Infinite
  <2>7. View(nm2, tk2) = [t \in Table!Alive \cup {gen + 1} |-> IF t = gen + 1 THEN l ELSE tableLocks[t]]
    <3>1. DOMAIN View(nm, tk) = Table!Alive /\ \A t \in Table!Alive : View(nm, tk)[t] = tableLocks[t]
      BY <1>1, <1>4 DEF View, nm, tk
    <3> QED BY <2>4, <2>6, <3>1 DEF WithLock
  <2>8. gen + 1 \notin Table!Alive
    BY <1>1, <2>4 DEF tk
  <2>9. Apart(View(nm2, tk2))
    <3>1. \A t \in Table!Alive : ~Table!Overlap(tableLocks[t], l) /\ ~Table!Overlap(l, tableLocks[t])
      BY <1>8, <1>10 DEF Table!Overlap
    <3>2. \A t, u \in Table!Alive : t # u => ~Table!Overlap(tableLocks[t], tableLocks[u])
      BY <1>1, <1>2, <1>3 DEF Apart
    <3> QED BY <2>7, <3>1, <3>2 DEF Apart
  <2>10. gen + 1 \in 0 .. MaxTokens
    BY <1>2, <1>10
  <2>11. MemIndInv' /\ tableLocks' = View(nm2, tk2) /\ tableClaims' = ClaimView(tk2, released)
    BY <1>2, <1>6, <1>10, <2>1, <2>4, <2>5, <2>9, <2>10, Landed
  <2>12. tableClaims' = tableClaims
    BY <1>1, <2>4, <2>11 DEF tk
  <2>13. Table!TableCreate(p, zero, d)
    <3>1. \A t \in Table!Alive : ~Table!Overlap(tableLocks[t], l)
      BY <1>8, <1>10
    <3>2. tableLocks' = [t \in Table!Alive \cup {gen'} |-> IF t = gen' THEN l ELSE tableLocks[t]]
      BY <1>10, <2>7, <2>11
    <3> QED BY <1>10, <3>1, <3>2 DEF Table!TableCreate, l
  <2> QED BY <1>6, <2>11, <2>12, <2>13
<1> QED BY <1>5, <1>9, <1>10

\* After collectExpiredNodes no two locks overlap, and each has a node of its
\* own.
LEMMA CollectedHolds ==
    ASSUME MemIndInv, NEW s, s = collectExpiredNodes
    PROVE  /\ Apart(View(s.name, s.token)) /\ \A t \in Table!Alive : View(s.name, s.token)[t] = tableLocks[t]
           /\ \A t \in Table!Alive : /\ s.token[t] \in DOMAIN s.name /\ s.name[s.token[t]].token = t /\ t # NoToken
                                     /\ s.token[t] \in LockPaths
           /\ \A t, u \in Table!Alive : s.token[t] = s.token[u] => t = u
<1>1. /\ Index(s.name, s.token, s.heap, released, gen)
      /\ DOMAIN s.token = Table!Alive /\ Table!Alive \subseteq DOMAIN byToken
      /\ View(s.name, s.token) = Table!Only(Table!Alive)
  BY Collected
<1>2. Table!Alive \in SUBSET DOMAIN tableLocks
  BY <1>1 DEF tableLocks
<1>3. Apart(View(s.name, s.token))
  BY <1>1, <1>2, Holds
<1>4. \A t \in Table!Alive : Table!Only(Table!Alive)[t] = tableLocks[t]
  BY DEF Table!Only
<1>5. IndexTypes(s.name, s.token, gen) /\ TokensFound(s.name, s.token)
  BY <1>1 DEF Index
<1>6. \A t \in Table!Alive : s.token[t] \in DOMAIN s.name /\ s.name[s.token[t]].token = t /\ t # NoToken /\ s.token[t] \in LockPaths
  BY <1>1, <1>5 DEF IndexTypes, TokensFound, NoToken
<1> QED BY <1>1, <1>3, <1>4, <1>6

\* A call that fails has only collected expired nodes.
LEMMA OnlyCollected ==
    ASSUME MemIndInv, Settle(collectExpiredNodes), UNCHANGED <<clock, gen, released>>
    PROVE  MemIndInv' /\ tableClaims' = tableClaims /\ tableLocks' = Table!Only(Table!Alive)
<1> DEFINE s == collectExpiredNodes
<1>1. /\ Index(s.name, s.token, s.heap, released, gen)
      /\ View(s.name, s.token) = Table!Only(Table!Alive) /\ ClaimView(s.token, released) = tableClaims
  BY Collected
<1>2. Apart(View(s.name, s.token))
  BY CollectedHolds
<1>3. Settle(s)
  OBVIOUS
<1> HIDE DEF s
<1>4. MemIndInv' /\ tableLocks' = View(s.name, s.token) /\ tableClaims' = ClaimView(s.token, released)
  BY <1>1, <1>2, <1>3, Holds, Landed
<1> QED BY <1>1, <1>4

\* Refresh does what the lock table does.
LEMMA RefreshStep ==
    ASSUME MemIndInv, NEW t \in Tokens, NEW d \in LockDurations, Refresh(t, d)
    PROVE  MemIndInv' /\ UNCHANGED clock /\ tableClaims' = tableClaims /\ Table!TableRefresh(t, d)
<1> DEFINE s == collectExpiredNodes
           u == IF d = Infinite THEN Infinite ELSE clock + d
<1>1. /\ Index(s.name, s.token, s.heap, released, gen) /\ s = [name |-> s.name, token |-> s.token, heap |-> s.heap]
      /\ DOMAIN s.token = Table!Alive /\ View(s.name, s.token) = Table!Only(Table!Alive)
      /\ ClaimView(s.token, released) = tableClaims /\ Table!HeldTokens \subseteq Table!Alive
      /\ \A v \in Table!Alive : s.name[s.token[v]].held <=> v \in Table!HeldTokens
  BY Collected
<1>2. Apart(View(s.name, s.token)) /\ \A v \in Table!Alive : View(s.name, s.token)[v] = tableLocks[v]
  BY CollectedHolds
<1>3. clock' = clock /\ gen' = gen /\ released' = released
  BY DEF Refresh
<1>4. Table!Only(Table!Alive) = [v \in Table!Alive |-> tableLocks[v]] /\ Table!Until(d) = u
  BY DEF Table!Only, Table!Until, Table!Infinite, Infinite
<1>5. CASE t \notin DOMAIN s.token /\ Settle(s) /\ reply' = <<"refresh", t, d, "no such lock">>
  <2>1. MemIndInv' /\ tableClaims' = tableClaims /\ tableLocks' = Table!Only(Table!Alive)
    BY <1>3, <1>5, OnlyCollected
  <2>2. t \notin Table!Alive /\ Table!Answer(t) = "no such lock"
    BY <1>1, <1>5 DEF Table!Answer
  <2>3. Table!TableRefresh(t, d)
    BY <1>3, <1>4, <1>5, <2>1, <2>2 DEF Table!TableRefresh
  <2> QED BY <1>3, <2>1, <2>3
<1>6. CASE t \in DOMAIN s.token /\ s.name[s.token[t]].held /\ Settle(s) /\ reply' = <<"refresh", t, d, "locked">>
  <2>1. MemIndInv' /\ tableClaims' = tableClaims /\ tableLocks' = Table!Only(Table!Alive)
    BY <1>3, <1>6, OnlyCollected
  <2>2. t \in Table!HeldTokens /\ t \in Table!Alive /\ Table!Answer(t) = "locked"
    BY <1>1, <1>6 DEF Table!Answer
  <2>3. Table!TableRefresh(t, d)
    BY <1>3, <1>4, <1>6, <2>1, <2>2 DEF Table!TableRefresh
  <2> QED BY <1>3, <2>1, <2>3
<1>7. CASE /\ t \in DOMAIN s.token /\ ~s.name[s.token[t]].held
           /\ Settle([s EXCEPT !.heap = Push([s EXCEPT !.heap = @ \ {s.token[t]}], s.token[t], d),
                               !.name[s.token[t]].duration = d,
                               !.name[s.token[t]].expiry = IF d = Infinite THEN @ ELSE clock + d])
           /\ reply' = <<"refresh", t, d, "ok">>
  <2> DEFINE nm == s.name
             tk == s.token
             hp == s.heap
             h == Refreshed([name |-> nm, token |-> tk, heap |-> hp], tk[t], d)
  <2>1. Settle(h)
    <3>1. s = [name |-> nm, token |-> tk, heap |-> hp] /\ tk[t] = s.token[t]
      BY <1>1
    <3> HIDE DEF s, nm, tk, hp
    <3> QED BY <1>7, <3>1 DEF Refreshed
  <2>2. Index(nm, tk, hp, released, gen) /\ t \in DOMAIN tk /\ ~nm[tk[t]].held /\ clock \in Nat /\ gen \in Nat
    BY <1>1, <1>7, Holds
  <2> HIDE DEF nm, tk, hp, s
  <2>3. h = Refreshed([name |-> nm, token |-> tk, heap |-> hp], tk[t], d)
    OBVIOUS
  <2> HIDE DEF h
  <2>4. /\ Index(h.name, h.token, h.heap, released, gen) /\ h.token = tk
        /\ View(h.name, h.token) = WithUntil(View(nm, tk), t, d)
    BY <2>2, <2>3, RefreshKeeps
  <2>5. View(h.name, h.token) = [v \in Table!Alive |-> IF v = t THEN [tableLocks[v] EXCEPT !.until = u] ELSE tableLocks[v]]
    <3>1. DOMAIN View(nm, tk) = Table!Alive /\ \A v \in Table!Alive : View(nm, tk)[v] = tableLocks[v]
      BY <1>1, <1>2 DEF View, nm, tk
    <3> QED BY <2>4, <3>1 DEF WithUntil
  <2>6. Apart(View(h.name, h.token))
    <3>2. DOMAIN View(h.name, h.token) = Table!Alive /\ DOMAIN View(nm, tk) = Table!Alive
      BY <1>1, <2>4 DEF View, tk
    <3>1. ASSUME NEW v \in Table!Alive
          PROVE  /\ View(h.name, h.token)[v].root = View(nm, tk)[v].root
                 /\ View(h.name, h.token)[v].zeroDepth = View(nm, tk)[v].zeroDepth
      <4>1. DOMAIN View(nm, tk)[v] = {"root", "zeroDepth", "until"}
        BY <3>2 DEF View
      <4> QED BY <2>4, <3>2, <4>1 DEF WithUntil
    <3>3. Apart(View(nm, tk))
      BY <1>2 DEF nm, tk
    <3> QED BY <3>1, <3>2, <3>3, ApartKept
  <2>7. MemIndInv' /\ tableLocks' = View(h.name, h.token) /\ tableClaims' = ClaimView(h.token, released)
    BY <1>3, <2>1, <2>4, <2>6, Holds, Landed
  <2>8. tableClaims' = tableClaims
    BY <1>1, <2>4, <2>7 DEF tk
  <2>9. t \in Table!Alive /\ t \notin Table!HeldTokens /\ Table!Answer(t) = "ok"
    BY <1>1, <1>7 DEF Table!Answer
  <2>10. Table!TableRefresh(t, d)
    BY <1>3, <1>4, <1>7, <2>5, <2>7, <2>9 DEF Table!TableRefresh
  <2> QED BY <1>3, <2>7, <2>8, <2>10
<1> QED BY <1>5, <1>6, <1>7 DEF Refresh

\* Unlock does what the lock table does.
LEMMA UnlockStep ==
    ASSUME MemIndInv, NEW t \in Tokens, Unlock(t)
    PROVE  MemIndInv' /\ UNCHANGED clock /\ tableClaims' = tableClaims /\ Table!TableUnlock(t)
<1> DEFINE s == collectExpiredNodes
<1>1. /\ Index(s.name, s.token, s.heap, released, gen) /\ s = [name |-> s.name, token |-> s.token, heap |-> s.heap]
      /\ DOMAIN s.token = Table!Alive /\ Table!Alive \subseteq DOMAIN byToken
      /\ ClaimView(s.token, released) = tableClaims /\ Table!HeldTokens \subseteq Table!Alive
      /\ \A v \in Table!Alive : s.name[s.token[v]].held <=> v \in Table!HeldTokens
  BY Collected
<1>2. /\ \A v \in Table!Alive : View(s.name, s.token)[v] = tableLocks[v]
      /\ \A v \in Table!Alive : s.token[v] \in DOMAIN s.name /\ s.name[s.token[v]].token = v /\ v # NoToken
      /\ \A v, w \in Table!Alive : s.token[v] = s.token[w] => v = w
  BY CollectedHolds
<1>3. clock' = clock /\ gen' = gen /\ released' = released
  BY DEF Unlock
<1>4. CASE t \notin DOMAIN s.token /\ Settle(s) /\ reply' = <<"unlock", t, "no such lock">>
  <2>1. MemIndInv' /\ tableClaims' = tableClaims /\ tableLocks' = Table!Only(Table!Alive)
    BY <1>3, <1>4, OnlyCollected
  <2>2. t \notin Table!HeldTokens /\ Table!Alive \ {t} = Table!Alive /\ Table!Answer(t) = "no such lock"
    BY <1>1, <1>4 DEF Table!Answer
  <2>3. Table!TableUnlock(t)
    BY <1>3, <1>4, <2>1, <2>2 DEF Table!TableUnlock
  <2> QED BY <1>3, <2>1, <2>3
<1>5. CASE t \in DOMAIN s.token /\ s.name[s.token[t]].held /\ Settle(s) /\ reply' = <<"unlock", t, "locked">>
  <2>1. MemIndInv' /\ tableClaims' = tableClaims /\ tableLocks' = Table!Only(Table!Alive)
    BY <1>3, <1>5, OnlyCollected
  <2>2. t \in Table!HeldTokens /\ Table!Answer(t) = "locked"
    BY <1>1, <1>5 DEF Table!Answer
  <2>3. Table!TableUnlock(t)
    BY <1>3, <1>5, <2>1, <2>2 DEF Table!TableUnlock
  <2> QED BY <1>3, <2>1, <2>3
<1>6. CASE /\ t \in DOMAIN s.token /\ ~s.name[s.token[t]].held
           /\ Settle(remove(s, {s.token[t]})) /\ reply' = <<"unlock", t, "ok">>
  <2> DEFINE nm == s.name
             tk == s.token
             N == {s.token[t]}
             r == remove(s, N)
  <2>1. r = remove([name |-> nm, token |-> tk, heap |-> s.heap], N)
    BY <1>1
  <2>2. N \in SUBSET DOMAIN nm /\ \A q \in N : nm[q].token # NoToken /\ ~nm[q].held
    BY <1>1, <1>2, <1>6
  <2>3. Settle(r)
    BY <1>6
  <2>4. gen \in Nat /\ Index(nm, tk, s.heap, released, gen)
    BY <1>1, Holds
  <2> HIDE DEF s, nm, tk, N, r
  <2>5. /\ Index(r.name, r.token, r.heap, released, gen) /\ DOMAIN r.token = {v \in DOMAIN tk : tk[v] \notin N}
        /\ \A v \in DOMAIN r.token :
             /\ r.token[v] = tk[v] /\ r.name[tk[v]].zeroDepth = nm[tk[v]].zeroDepth
             /\ r.name[tk[v]].duration = nm[tk[v]].duration /\ r.name[tk[v]].expiry = nm[tk[v]].expiry
    BY <2>1, <2>2, <2>4, RemoveKeeps
  <2>6. DOMAIN r.token = Table!Alive \ {t}
    BY <1>1, <1>2, <1>6, <2>5 DEF nm, tk, N
  <2>7. View(r.name, r.token) = [v \in Table!Alive \ {t} |-> tableLocks[v]]
    <3>1. \A v \in Table!Alive \ {t} : View(r.name, r.token)[v] = View(nm, tk)[v]
      BY <1>1, <2>5, <2>6, SMTT(30) DEF View, nm, tk
    <3>2. View(r.name, r.token) = [v \in Table!Alive \ {t} |-> View(r.name, r.token)[v]]
      BY <2>6 DEF View
    <3> QED BY <1>2, <3>1, <3>2 DEF nm, tk
  <2>8. View(r.name, r.token) = Table!Only(Table!Alive \ {t})
    BY <2>7 DEF Table!Only
  <2>9. Apart(View(r.name, r.token))
    <3>1. Table!Alive \ {t} \in SUBSET DOMAIN tableLocks
      BY <1>1 DEF tableLocks
    <3> QED BY <2>8, <3>1, Holds
  <2>10. MemIndInv' /\ tableLocks' = View(r.name, r.token) /\ tableClaims' = ClaimView(r.token, released)
    BY <1>3, <2>3, <2>5, <2>9, Holds, Landed
  <2>11. tableClaims' = tableClaims
    <3>1. \A x \in Claimants : s.token[t] \notin released[x]
      BY <1>1, <1>2, <1>6 DEF Index, HeldExact
    <3>2. \A x \in Claimants : {v \in DOMAIN r.token : r.token[v] \in released[x]} = {v \in DOMAIN tk : tk[v] \in released[x]}
      BY <2>5, <3>1 DEF N
    <3>3. ClaimView(r.token, released) = ClaimView(tk, released)
      BY <3>2 DEF ClaimView
    <3> QED BY <1>1, <2>10, <3>3 DEF tk
  <2>12. t \in Table!Alive /\ t \notin Table!HeldTokens /\ Table!Answer(t) = "ok"
    BY <1>1, <1>6 DEF Table!Answer
  <2>13. Table!TableUnlock(t)
    BY <1>3, <1>6, <2>8, <2>10, <2>12 DEF Table!TableUnlock
  <2> QED BY <1>3, <2>10, <2>11, <2>13
<1> QED BY <1>4, <1>5, <1>6 DEF Unlock

\* A non-empty set of naturals has a least element.
LEMMA LeastIndex ==
    ASSUME NEW S \in SUBSET Nat, S # {}
    PROVE  \E n \in S : \A m \in S : n <= m
<1>1. PICK n \in S : \A m \in S : ~(<<m, n>> \in OpToRel(<, Nat))
  BY NatLessThanWellFounded, WFMin, Zenon
<1>2. ASSUME NEW m \in S PROVE n <= m
  <2>1. n \in Nat /\ m \in Nat
    OBVIOUS
  <2>2. m < n => <<m, n>> \in OpToRel(<, Nat)
    BY <2>1 DEF OpToRel
  <2>3. ~(m < n)
    BY <1>1, <2>2, Zenon
  <2> QED BY <2>1, <2>3
<1> QED BY <1>2

\* The tokens that the conditions of a request name, ...
Conditions(conds) == {conds[i] : i \in DOMAIN conds}

\* ... and the node that lookup finds for a name.
Named(s, p, conds) == IF p = NoPath THEN {} ELSE lookup(s, p, conds)

\* lookup takes the first condition that fits: it finds a lock exactly when the
\* table has one to claim, and then claims one of those.
LEMMA PickClaim ==
    ASSUME MemIndInv, NEW s, s = collectExpiredNodes, NEW p \in LockPaths \cup {NoPath}, NEW conds \in ConditionLists
    PROVE  /\ (p # NoPath /\ Named(s, p, conds) = {}) <=> Table!ClaimsOf(p, Conditions(conds)) = {}
           /\ ~(p # NoPath /\ Named(s, p, conds) = {}) =>
                \E C \in Table!ClaimsOf(p, Conditions(conds)) :
                   C \subseteq Table!Alive \ Table!HeldTokens /\ Named(s, p, conds) = {s.token[t] : t \in C}
<1> DEFINE S == Conditions(conds)
           ok == {u \in (S \cap Table!Alive) \ Table!HeldTokens : Table!Covers(tableLocks[u], p)}
           fits(t) == /\ t \in DOMAIN s.token
                      /\ LET q == s.token[t] IN
                         /\ ~s.name[q].held
                         /\ q = p \/ (~s.name[q].zeroDepth /\ q \in walkToRoot(p))
           good == {i \in DOMAIN conds : fits(conds[i])}
           first == {i \in good : \A j \in good : i <= j}
<1>1. CASE p = NoPath
  <2>1. Table!ClaimsOf(p, S) = {{}} /\ Named(s, p, conds) = {}
    BY <1>1 DEF Table!ClaimsOf, Table!NoPath, NoPath, Named
  <2> QED BY <1>1, <2>1
<1>2. CASE p # NoPath
  <2>1. p \in LockPaths /\ p \in walkToRoot(p)
    BY <1>2, OwnPath
  <2>2. Table!ClaimsOf(p, S) = {{t} : t \in ok}
    BY <1>2 DEF Table!ClaimsOf, Table!NoPath, NoPath
  <2>3. Named(s, p, conds) = {s.token[conds[i]] : i \in first}
    BY <1>2 DEF Named, lookup
  <2>4. \A i \in DOMAIN conds : i \in Nat
    BY DEF ConditionLists
  <2>5. /\ DOMAIN s.token = Table!Alive
        /\ \A t \in Table!Alive : s.name[s.token[t]].held <=> t \in Table!HeldTokens
    BY Collected
  <2>6. \A t \in Table!Alive : View(s.name, s.token)[t] = tableLocks[t]
    BY CollectedHolds
  <2>7. ASSUME NEW t \in Table!Alive
        PROVE  Table!Covers(tableLocks[t], p) <=>
                  s.token[t] = p \/ (~s.name[s.token[t]].zeroDepth /\ s.token[t] \in walkToRoot(p))
    <3>1. tableLocks[t].root = s.token[t] /\ tableLocks[t].zeroDepth = s.name[s.token[t]].zeroDepth
      <4>1. /\ View(s.name, s.token)[t].root = s.token[t]
            /\ View(s.name, s.token)[t].zeroDepth = s.name[s.token[t]].zeroDepth
        BY <2>5 DEF View
      <4> QED BY <2>6, <4>1, Zenon
    <3> QED BY <2>1, <3>1 DEF Table!Covers, Table!Prefixes, walkToRoot
  <2>8. \A t : fits(t) <=> /\ t \in Table!Alive /\ t \notin Table!HeldTokens /\ Table!Covers(tableLocks[t], p)
    BY <2>5, <2>7
  <2>9. \A i \in DOMAIN conds : i \in good <=> conds[i] \in ok
    BY <2>8 DEF Conditions
  <2>10. ok # {} <=> good # {}
    <3>1. \A t \in ok : \E i \in DOMAIN conds : conds[i] = t
      BY DEF Conditions
    <3>2. good \subseteq DOMAIN conds
      OBVIOUS
    <3> HIDE DEF ok, good
    <3> QED BY <2>9, <3>1, <3>2
  <2>11. CASE good = {}
    <3>1. first = {}
      BY <2>11
    <3> QED BY <1>2, <2>2, <2>3, <2>10, <2>11, <3>1
  <2>12. CASE good # {}
    <3>1. good \in SUBSET Nat
      BY <2>4
    <3>2. PICK n \in good : \A m \in good : n <= m
      BY <2>12, <3>1, LeastIndex, Zenon
    <3>3. first = {n}
      <4>1. n \in first
        BY <3>2
      <4>2. \A i \in first : i \in Nat /\ n \in Nat /\ i <= n /\ n <= i
        BY <3>1, <3>2
      <4> HIDE DEF first
      <4>3. \A i \in first : i = n
        BY <4>2
      <4> QED BY <4>1, <4>3, Zenon
    <3>4. n \in DOMAIN conds /\ conds[n] \in ok
      BY <2>9
    <3>5. Named(s, p, conds) = {s.token[conds[n]]}
      BY <2>3, <3>3
    <3>6. {conds[n]} \in Table!ClaimsOf(p, S) /\ {conds[n]} \subseteq Table!Alive \ Table!HeldTokens
      BY <2>2, <3>4
    <3>7. Named(s, p, conds) = {s.token[t] : t \in {conds[n]}}
      BY <3>5
    <3> QED BY <3>5, <3>6, <3>7
  <2> QED BY <2>11, <2>12
<1> QED BY <1>1, <1>2

\* Confirm does what the lock table does, for one name or two, which may be
\* covered by the same lock.
LEMMA ConfirmStep ==
    ASSUME MemIndInv, NEW x \in Claimants, NEW p \in LockPaths \cup {NoPath}, NEW q \in LockPaths \cup {NoPath},
           NEW conds \in ConditionLists, Confirm(x, p, q, conds)
    PROVE  MemIndInv' /\ UNCHANGED clock /\ Table!TableConfirm(x, p, q, conds)
<1> DEFINE s == collectExpiredNodes
           n0 == Named(s, p, conds)
           n1 == Named(s, q, conds)
           M == n0 \cup n1
           S == Conditions(conds)
<1>1. /\ Index(s.name, s.token, s.heap, released, gen) /\ s = [name |-> s.name, token |-> s.token, heap |-> s.heap]
      /\ DOMAIN s.token = Table!Alive /\ View(s.name, s.token) = Table!Only(Table!Alive)
      /\ ClaimView(s.token, released) = tableClaims
      /\ \A v \in Table!Alive : s.name[s.token[v]].held <=> v \in Table!HeldTokens
  BY Collected
<1>2. /\ Apart(View(s.name, s.token))
      /\ \A v \in Table!Alive : /\ s.token[v] \in DOMAIN s.name /\ s.name[s.token[v]].token = v /\ v # NoToken
                                /\ s.token[v] \in LockPaths
      /\ \A v, w \in Table!Alive : s.token[v] = s.token[w] => v = w
  BY CollectedHolds
<1>3. clock' = clock /\ gen' = gen /\ released[x] = {}
  BY DEF Confirm
<1>4. /\ (p # NoPath /\ n0 = {}) <=> Table!ClaimsOf(p, S) = {}
      /\ ~(p # NoPath /\ n0 = {}) =>
           \E C \in Table!ClaimsOf(p, S) : C \subseteq Table!Alive \ Table!HeldTokens /\ n0 = {s.token[t] : t \in C}
  BY PickClaim
<1>5. /\ (q # NoPath /\ n1 = {}) <=> Table!ClaimsOf(q, S) = {}
      /\ ~(q # NoPath /\ n1 = {}) =>
           \E C \in Table!ClaimsOf(q, S) : C \subseteq Table!Alive \ Table!HeldTokens /\ n1 = {s.token[t] : t \in C}
  BY PickClaim
<1>6. CASE /\ (p # NoPath /\ n0 = {}) \/ (q # NoPath /\ n1 = {})
           /\ Settle(s) /\ reply' = <<"confirmation failed", p, q, conds>> /\ released' = released
  <2>1. MemIndInv' /\ tableClaims' = tableClaims /\ tableLocks' = Table!Only(Table!Alive)
    BY <1>3, <1>6, OnlyCollected
  <2>2. Table!ClaimsOf(p, S) = {} \/ Table!ClaimsOf(q, S) = {}
    BY <1>4, <1>5, <1>6
  <2>3. Table!TableConfirm(x, p, q, conds)
    BY <1>3, <1>6, <2>1, <2>2 DEF Table!TableConfirm, Conditions
  <2> QED BY <1>3, <2>1, <2>3
<1>7. CASE /\ p # NoPath => n0 # {}
           /\ q # NoPath => n1 # {}
           /\ Settle(hold(s, M)) /\ released' = [released EXCEPT ![x] = M]
           /\ reply' = <<"confirmed", p, q, conds>>
  <2> DEFINE nm == s.name
             tk == s.token
             rel == Claiming(released, x, M)
             h == hold(s, M)
  <2>1. PICK C \in Table!ClaimsOf(p, S) : C \subseteq Table!Alive \ Table!HeldTokens /\ n0 = {tk[t] : t \in C}
    BY <1>4, <1>7
  <2>2. PICK D \in Table!ClaimsOf(q, S) : D \subseteq Table!Alive \ Table!HeldTokens /\ n1 = {tk[t] : t \in D}
    BY <1>5, <1>7
  <2>3. C \cup D \subseteq Table!Alive /\ M = {tk[t] : t \in C \cup D}
    BY <2>1, <2>2
  <2>4. h = hold([name |-> nm, token |-> tk, heap |-> s.heap], M) /\ Settle(h)
    BY <1>1, <1>7
  <2>5. \A t \in C \cup D : ~nm[tk[t]].held
    BY <1>1, <2>1, <2>2
  <2> HIDE DEF s, n0, n1, M, S
  <2>6. M \in SUBSET LockPaths /\ \A r \in M : r \in DOMAIN nm /\ nm[r].token # NoToken /\ ~nm[r].held
    BY <1>2, <2>3, <2>5
  <2>7. /\ gen \in Nat /\ clock \in Nat /\ gen \in 0 .. MaxTokens /\ released \in [Claimants -> SUBSET LockPaths]
        /\ ClaimsApart(released) /\ Index(nm, tk, s.heap, released, gen)
    BY <1>1, Holds
  <2>8. rel \in [Claimants -> SUBSET LockPaths] /\ rel[x] = M /\ \A y \in Claimants : y # x => rel[y] = released[y]
    BY <2>6, <2>7 DEF Claiming
  <2> HIDE DEF nm, tk, h
  <2>9. /\ Index(h.name, h.token, h.heap, rel, gen) /\ h.token = tk /\ View(h.name, h.token) = View(nm, tk)
    BY <1>3, <2>4, <2>6, <2>7, HoldKeeps
  <2> HIDE DEF rel
  <2>10. ClaimsApart(rel)
    <3>1. \A y \in Claimants : M \cap released[y] = {}
      BY <2>6, <2>7 DEF Index, HeldExact
    <3> QED BY <2>7, <2>8, <3>1 DEF ClaimsApart
  <2>11. MemIndInv' /\ tableLocks' = View(h.name, h.token) /\ tableClaims' = ClaimView(h.token, rel)
    <3>1. Apart(View(h.name, h.token))
      BY <1>2, <2>9 DEF nm, tk
    <3>2. released' = rel
      BY <1>7 DEF rel, Claiming
    <3> QED BY <1>3, <2>4, <2>7, <2>8, <2>9, <2>10, <3>1, <3>2, Landed
  <2>12. tableLocks' = Table!Only(Table!Alive)
    BY <1>1, <2>9, <2>11 DEF nm, tk
  <2>13. tableClaims' = [tableClaims EXCEPT ![x] = C \cup D]
    <3>1. {t \in DOMAIN tk : tk[t] \in rel[x]} = C \cup D
      BY <1>1, <1>2, <2>3, <2>8 DEF tk
    <3>2. \A y \in Claimants : y # x => {t \in DOMAIN tk : tk[t] \in rel[y]} = tableClaims[y]
      BY <1>1, <2>8 DEF ClaimView, tk
    <3>3. tableClaims' = [y \in Claimants |-> {t \in DOMAIN tk : tk[t] \in rel[y]}]
      BY <2>9, <2>11 DEF ClaimView
    <3>4. DOMAIN tableClaims = Claimants /\ tableClaims = [y \in Claimants |-> tableClaims[y]]
      BY DEF tableClaims
    <3> QED BY <3>1, <3>2, <3>3, <3>4
  <2>14. Table!TableConfirm(x, p, q, conds)
    <3>1. \E A \in Table!ClaimsOf(p, S), B \in Table!ClaimsOf(q, S) : tableClaims' = [tableClaims EXCEPT ![x] = A \cup B]
      BY <2>1, <2>2, <2>13
    <3> QED BY <1>3, <1>7, <2>12, <3>1 DEF Table!TableConfirm, S, Conditions
  <2> QED BY <1>3, <2>11, <2>14
<1> QED BY <1>6, <1>7 DEF Confirm, Named

\* The release function does what the lock table does.
LEMMA ReleaseStep ==
    ASSUME MemIndInv, NEW x \in Claimants, Release(x)
    PROVE  MemIndInv' /\ UNCHANGED clock /\ Table!TableRelease(x)
<1> DEFINE h == unhold(State, released[x])
           rel == Claiming(released, x, {})
<1>1. /\ gen \in Nat /\ clock \in Nat /\ gen \in 0 .. MaxTokens /\ released \in [Claimants -> SUBSET LockPaths]
      /\ ClaimsApart(released) /\ Index(byName, byToken, byExpiry, released, gen) /\ Apart(tableLocks)
  BY Holds DEF MemIndInv
<1>2. /\ Settle(h) /\ released' = rel /\ clock' = clock /\ gen' = gen /\ reply' = <<"none">>
      /\ h = unhold([name |-> byName, token |-> byToken, heap |-> byExpiry], released[x])
  BY DEF Release, State, Claiming
<1>3. rel \in [Claimants -> SUBSET LockPaths] /\ rel[x] = {} /\ \A y \in Claimants : y # x => rel[y] = released[y]
  BY <1>1 DEF Claiming
<1> HIDE DEF h
<1>4. Index(h.name, h.token, h.heap, rel, gen) /\ h.token = byToken /\ View(h.name, h.token) = View(byName, byToken)
  BY <1>1, <1>2, UnholdKeeps
<1> HIDE DEF rel
<1>5. ClaimsApart(rel)
  BY <1>1, <1>3 DEF ClaimsApart
<1>6. View(h.name, h.token) = tableLocks
  BY <1>4, Views
<1>7. MemIndInv' /\ tableLocks' = tableLocks /\ tableClaims' = ClaimView(byToken, rel)
  BY <1>1, <1>2, <1>3, <1>4, <1>5, <1>6, Landed
<1>8. tableClaims' = [tableClaims EXCEPT ![x] = {}]
  <2>1. tableClaims' = [y \in Claimants |-> {t \in DOMAIN byToken : byToken[t] \in rel[y]}]
    BY <1>7 DEF ClaimView
  <2>2. tableClaims = [y \in Claimants |-> {t \in DOMAIN byToken : byToken[t] \in released[y]}]
    BY DEF tableClaims
  <2> QED BY <1>3, <2>1, <2>2
<1>9. Table!TableRelease(x)
  BY <1>2, <1>7, <1>8 DEF Table!TableRelease
<1> QED BY <1>2, <1>7, <1>9

\* Every call keeps the invariant and is a step, or a stutter, of the lock
\* table.
LEMMA MemStep ==
    ASSUME MemIndInv, [MemNext]_memVars
    PROVE  MemIndInv' /\ [Table!TableNext]_(Table!tableVars)
<1>1. CASE Tick
  <2>1. /\ clock' = clock + 1 /\ clock < MaxClock /\ UNCHANGED <<reply, byName, byToken, gen, byExpiry, released>>
    BY <1>1 DEF Tick
  <2>2. tableLocks' = tableLocks /\ tableClaims' = tableClaims
    BY <2>1 DEF tableLocks, tableClaims, Locked
  <2>3. Table!TableTick
    BY <2>1, <2>2 DEF Table!TableTick
  <2>4. Table!Exclusive' /\ MemTypes' /\ Index(byName', byToken', byExpiry', released', gen') /\ ClaimsApart(released')
    BY <2>1, <2>2 DEF MemIndInv, MemTypes, Table!Exclusive
  <2> QED BY <2>3, <2>4 DEF MemIndInv, Table!TableNext
<1>2. CASE \E p \in LockPaths, zero \in BOOLEAN, d \in LockDurations : Create(p, zero, d)
  <2>1. PICK p \in LockPaths, zero \in BOOLEAN, d \in LockDurations : Create(p, zero, d)
    BY <1>2
  <2>2. MemIndInv' /\ UNCHANGED clock /\ tableClaims' = tableClaims /\ Table!TableCreate(p, zero, d)
    BY <2>1, CreateStep
  <2> QED BY <2>2 DEF Table!TableNext
<1>3. CASE \E t \in Tokens, d \in LockDurations : Refresh(t, d)
  <2>1. PICK t \in Tokens, d \in LockDurations : Refresh(t, d)
    BY <1>3
  <2>2. MemIndInv' /\ UNCHANGED clock /\ tableClaims' = tableClaims /\ Table!TableRefresh(t, d)
    BY <2>1, RefreshStep
  <2> QED BY <2>2 DEF Table!TableNext, Table!Tokens, Tokens
<1>4. CASE \E t \in Tokens : Unlock(t)
  <2>1. PICK t \in Tokens : Unlock(t)
    BY <1>4
  <2>2. MemIndInv' /\ UNCHANGED clock /\ tableClaims' = tableClaims /\ Table!TableUnlock(t)
    BY <2>1, UnlockStep
  <2> QED BY <2>2 DEF Table!TableNext, Table!Tokens, Tokens
<1>5. CASE \E x \in Claimants, p, q \in LockPaths \cup {NoPath}, conds \in ConditionLists : Confirm(x, p, q, conds)
  <2>1. PICK x \in Claimants, p \in LockPaths \cup {NoPath}, q \in LockPaths \cup {NoPath}, conds \in ConditionLists :
            Confirm(x, p, q, conds)
    BY <1>5
  <2>2. MemIndInv' /\ UNCHANGED clock /\ Table!TableConfirm(x, p, q, conds)
    BY <2>1, ConfirmStep
  <2>3. Table!NoPath = NoPath /\ Table!ConditionLists = ConditionLists
    BY DEF Table!NoPath, NoPath, Table!ConditionLists, ConditionLists, Table!Tokens, Tokens
  <2> QED BY <2>2, <2>3 DEF Table!TableNext
<1>6. CASE \E x \in Claimants : Release(x)
  <2>1. PICK x \in Claimants : Release(x)
    BY <1>6
  <2>2. MemIndInv' /\ UNCHANGED clock /\ Table!TableRelease(x)
    BY <2>1, ReleaseStep
  <2> QED BY <2>2 DEF Table!TableNext
<1>7. CASE UNCHANGED memVars
  <2>1. UNCHANGED <<clock, reply, byName, byToken, gen, byExpiry, released>>
    BY <1>7 DEF memVars
  <2>2. tableLocks' = tableLocks /\ tableClaims' = tableClaims
    BY <2>1 DEF tableLocks, tableClaims, Locked
  <2>3. Table!Exclusive' /\ MemTypes' /\ Index(byName', byToken', byExpiry', released', gen') /\ ClaimsApart(released')
    BY <2>1, <2>2 DEF MemIndInv, MemTypes, Table!Exclusive
  <2>4. UNCHANGED Table!tableVars
    BY <2>1, <2>2 DEF Table!tableVars
  <2> QED BY <2>3, <2>4 DEF MemIndInv
<1> QED BY <1>1, <1>2, <1>3, <1>4, <1>5, <1>6, <1>7 DEF MemNext

\* It implies what the run checks.
LEMMA MemIndMeans == MemIndInv => LocksInv
<1> SUFFICES ASSUME MemIndInv PROVE LocksInv
  OBVIOUS
<1>1. /\ IndexTypes(byName, byToken, gen) /\ TokensFound(byName, byToken) /\ Counted(byName, byToken)
      /\ HeapExact(byName, byExpiry) /\ HeldExact(byName, released) /\ ClaimsApart(released) /\ Table!Exclusive
  BY DEF MemIndInv, Index
<1>2. \A p \in DOMAIN byName :
         /\ byName[p].refCount = Cardinality({t \in DOMAIN byToken : p \in walkToRoot(byToken[t])})
         /\ {t \in DOMAIN byToken : p \in walkToRoot(byToken[t])} # {}
  BY <1>1 DEF Counted, Below
<1>3. \A t \in DOMAIN byToken : byToken[t] \in DOMAIN byName /\ byName[byToken[t]].token = t
  BY <1>1 DEF TokensFound
<1>4. \A p \in {r \in DOMAIN byName : byName[r].token # NoToken} :
         {t \in DOMAIN byToken : byToken[t] = p} = {byName[p].token}
  BY <1>1 DEF TokensFound
<1>5. byExpiry = {p \in {r \in DOMAIN byName : byName[r].token # NoToken} : ~byName[p].held /\ byName[p].duration # Infinite}
  BY <1>1 DEF HeapExact
<1>6. \A p \in DOMAIN byName : byName[p].held <=> \E x \in Claimants : p \in released[x]
  BY <1>1 DEF HeldExact
<1>7. NodesConsistent
  BY <1>1, <1>2, <1>3, <1>4, <1>5, <1>6 DEF NodesConsistent, ClaimsApart
<1> QED BY <1>1, <1>7 DEF LocksInv, LocksExclusive

\* Two locks never cover the same resource, and the nodes, the tokens, the
\* counts, the heap and the held marks agree, through creation, expiry,
\* confirmation, release, refresh and unlocking (memLS in pkg/webdav/lock.go):
\* for all paths, lifetimes, claimants and numbers of tokens and conditions.
THEOREM LocksHold == MemSpec => []LocksInv
<1>1. NewMemLS => MemIndInv
  BY MemInitInv
<1>2. MemIndInv /\ [MemNext]_memVars => MemIndInv'
  BY MemStep
<1>3. MemIndInv => LocksInv
  BY MemIndMeans
<1> QED BY <1>1, <1>2, <1>3, PTL DEF MemSpec

\* memLS implements the lock table: every call of it succeeds, fails and
\* answers as the table's, although it decides from reference counts along one
\* path, from a heap that skips held nodes and from nodes that earlier locks
\* left behind (memLS.Create, Refresh, Unlock, Confirm, collectExpiredNodes):
\* for all paths, lifetimes, claimants and numbers of tokens and conditions.
THEOREM LockTableImplemented == MemSpec => ImplementsLockTable
<1>1. NewMemLS => MemIndInv
  BY MemInitInv
<1>2. MemIndInv /\ [MemNext]_memVars => MemIndInv' /\ [Table!TableNext]_(Table!tableVars)
  BY MemStep
<1>3. NewMemLS => Table!TableInit
  <2> SUFFICES ASSUME NewMemLS PROVE Table!TableInit
    OBVIOUS
  <2>1. byToken = <<>> /\ \A x \in Claimants : released[x] = {}
    BY DEF NewMemLS
  <2>2. tableLocks = <<>> /\ tableClaims = [x \in Claimants |-> {}]
    BY <2>1 DEF tableLocks, tableClaims
  <2> QED BY <2>2 DEF NewMemLS, Table!TableInit
<1> QED BY <1>1, <1>2, <1>3, PTL DEF MemSpec, ImplementsLockTable, Table!TableSpec
=============================================================================
