----------------------------- MODULE MeshProofs -----------------------------
(***************************************************************************)
(* Proofs about the replicated mesh state, for any number of machines,     *)
(* names, repos and workspaces and any caps.                               *)
(*                                                                         *)
(* The inductive invariant is a property of one machine's state, Sound,    *)
(* held by memory and by mesh.json alike.  Each operation of MeshState     *)
(* gets one lemma: it keeps a state well-typed and Sound, and what it      *)
(* returns is NotBehind what it was given.  Every step of Mesh then either  *)
(* leaves the stored states alone or is an instance of Commits.            *)
(* Merging twice comes last: it needs OthersInv besides.                   *)
(***************************************************************************)
EXTENDS Mesh, FiniteSetTheorems, FunctionTheorems, WellFoundedInduction, TLAPS

\* The caps, with the room left for the machine's own records.
WithinCaps(s) ==
    /\ Cardinality(Keys(s.peers)) <= MAX_OTHER_PEERS
    /\ Cardinality(Keys(s.meshRepos)) <= MAX_MESH_REPOS
    /\ ValidClaims(s.claims.held)
    /\ ClaimCount(s.peerClaims) <= MAX_OTHER_WORKSPACES

Sound(s) ==
    /\ s \in MeshStates
    /\ ReposListed(s)
    /\ ClaimsRegistered(s)
    /\ PeerClaimsAlive(s)
    /\ WithinCaps(s)

\* The inductive invariant.
IInv ==
    /\ TypeOK
    /\ \A m \in Machine : Sound(mem[m]) /\ Sound(disk[m])
    /\ DiskIsNotBehind

-----------------------------------------------------------------------------
(***************************************************************************)
(* Registers                                                               *)
(***************************************************************************)

\* Versions are natural numbers, and a bump that is allowed stays among them.
LEMMA VersionFacts ==
    /\ Versions \subseteq Nat
    /\ 0 \in Versions
    /\ \A v \in Versions : CanBump(v) => v + 1 \in Versions
    /\ \A v \in Versions : v < MAX_RECORD_VERSION
BY MaxVersionAssumption DEF Versions, CanBump

\* What a map may hold under a key: a record with its fields, or Absent.
LEMMA SlotFacts ==
    ASSUME NEW V, NEW r \in Slot(V)
    PROVE  /\ r.version \in Int
           /\ r # Absent => r \in Record(V)
           /\ r # Absent => r.version \in Versions
           /\ r = Absent <=> r.version = -1
           /\ HeldVersion(r) \in Versions
           /\ Live(r) => r.value \in V
<1>1. CASE r = Absent
    BY <1>1, VersionFacts DEF Absent, HeldVersion, Live
<1>2. CASE r # Absent
    <2>1. r \in Record(V) BY <1>2 DEF Slot
    <2>2. r.version \in Versions /\ r.value \in V \cup {Removed} BY <2>1 DEF Record
    <2>3. r.version \in Nat BY <2>2, VersionFacts
    <2> QED BY <1>2, <2>1, <2>2, <2>3, VersionFacts DEF HeldVersion, Live, Absent
<1> QED BY <1>1, <1>2

\* Outranking is moving forward in the order of the records.
LEMMA OutranksFacts ==
    ASSUME NEW V \in SUBSET (Nat \ {0}), NEW r \in Slot(V), NEW s \in Slot(V), Outranks(r, s)
    PROVE  NotOlder(r, s)
<1>1. s.value \in Nat
    <2>1. CASE s = Absent BY <2>1 DEF Absent, Removed
    <2>2. CASE s # Absent
        <3>1. s.value \in V \cup {Removed} BY <2>2 DEF Slot, Record
        <3>2. CASE s.value \in V BY <3>2
        <3>3. CASE s.value = Removed BY <3>3 DEF Removed
        <3> QED BY <3>1, <3>2, <3>3
    <2> QED BY <2>1, <2>2
<1> QED BY <1>1, SlotFacts DEF Outranks, NotOlder, Removed

\* A bumped record belongs in the map and supersedes what was there.
LEMMA BumpFacts ==
    ASSUME NEW V, NEW r \in Slot(V), CanBump(HeldVersion(r)), NEW x \in V \cup {Removed}
    PROVE  LET b == [version |-> HeldVersion(r) + 1, value |-> x]
           IN  b \in Slot(V) /\ b # Absent /\ NotOlder(b, r)
<1> DEFINE b == [version |-> HeldVersion(r) + 1, value |-> x]
<1>1. HeldVersion(r) \in Versions BY SlotFacts
<1>2. b.version \in Versions BY <1>1, VersionFacts
<1>3. b \in Record(V) BY <1>2 DEF Record
<1>4. b # Absent /\ b.version > r.version
    BY <1>1, <1>2, SlotFacts, VersionFacts DEF HeldVersion, Absent
<1> QED BY <1>3, <1>4 DEF Slot, NotOlder

\* An owner that observes a copy keeps a valid version and never lowers it.
LEMMA ObserveFacts ==
    ASSUME NEW v \in Versions, NEW c \in Versions, NEW b \in BOOLEAN
    PROVE  Observe(v, c, b) \in Versions /\ Observe(v, c, b) >= v
BY MaxVersionAssumption DEF Observe, Versions

\* A merge loop keeps the map well-typed, within its cap, and puts only
\* superseding records in it.
LEMMA AdoptFacts ==
    ASSUME NEW K, IsFiniteSet(K), NEW V \in SUBSET (Nat \ {0}),
           NEW held \in [K -> Slot(V)], NEW offered \in [K -> Slot(V)],
           NEW cap \in Nat, Cardinality(Keys(held)) <= cap,
           NEW A \in Adoptions(held, offered, cap)
    PROVE  LET new == Adopt(A, held, offered)
           IN  /\ new \in [K -> Slot(V)]
               /\ Cardinality(Keys(new)) <= cap
               /\ A \subseteq K
               /\ \A k \in A : offered[k] # Absent
               /\ \A k \in K : NotOlder(new[k], held[k])
<1> DEFINE map == Adopt(A, held, offered)
           known == {k \in Mergeable(offered) : held[k] # Absent}
           fresh == Mergeable(offered) \ known
           room == cap - Cardinality(Keys(held))
<1>1. /\ A \subseteq Mergeable(offered)
      /\ \A k \in known : k \in A <=> Outranks(offered[k], held[k])
      /\ Fills(A \cap fresh, fresh, room)
    <2> DEFINE better == {k \in known : Outranks(offered[k], held[k])}
    <2>1. PICK B \in SUBSET fresh : A = better \cup B /\ Fills(B, fresh, room)
        BY DEF Adoptions
    <2>2. A \cap fresh = B BY <2>1
    <2> QED BY <2>1, <2>2 DEF Mergeable
<1>2. Mergeable(offered) \subseteq K /\ \A k \in Mergeable(offered) : offered[k] # Absent
    BY DEF Mergeable
<1>3. map \in [K -> Slot(V)]
    BY <1>1, <1>2 DEF Adopt
<1>4. \A k \in K : NotOlder(map[k], held[k])
    <2> TAKE k \in K
    <2>1. CASE k \notin A
        BY <2>1 DEF Adopt, NotOlder
    <2>2. CASE k \in A /\ held[k] # Absent
        <3>1. map[k] = offered[k] /\ Outranks(offered[k], held[k]) BY <2>2, <1>1, <1>2 DEF Adopt
        <3> QED BY <3>1, OutranksFacts
    <2>3. CASE k \in A /\ held[k] = Absent
        <3>1. map[k] = offered[k] /\ offered[k] # Absent BY <2>3, <1>1, <1>2 DEF Adopt
        <3>2. offered[k].version \in Versions BY <3>1, SlotFacts
        <3>3. held[k].version = -1 BY <2>3 DEF Absent
        <3>4. offered[k].version \in Nat BY <3>2, VersionFacts
        <3>5. offered[k].version > held[k].version BY <3>3, <3>4
        <3> QED BY <3>1, <3>5 DEF NotOlder
    <2> QED BY <2>1, <2>2, <2>3
<1>5. Cardinality(Keys(map)) <= cap
    <2> DEFINE more == A \cap fresh
    <2>1. Keys(map) \subseteq Keys(held) \cup more
        BY <1>1, <1>2, <1>3 DEF Keys, Adopt
    <2>2. IsFiniteSet(Keys(held))
        <3>1. Keys(held) \in SUBSET K BY DEF Keys
        <3> QED BY <3>1, FS_Subset
    <2>3. IsFiniteSet(more)
        <3>1. more \in SUBSET K BY <1>1, <1>2
        <3> QED BY <3>1, FS_Subset
    <2>4. Cardinality(more) <= room BY <1>1 DEF Fills
    <2>5. /\ Cardinality(Keys(held)) \in Nat
          /\ Cardinality(more) \in Nat
          /\ Cardinality(Keys(held) \cap more) \in Nat
          /\ IsFiniteSet(Keys(held) \cup more)
          /\ Cardinality(Keys(held) \cup more)
                = Cardinality(Keys(held)) + Cardinality(more) - Cardinality(Keys(held) \cap more)
        <3>1. IsFiniteSet(Keys(held) \cap more) BY <2>2, FS_Intersection
        <3> QED BY <2>2, <2>3, <3>1, FS_Union, FS_CardinalityType
    <2>6. Cardinality(Keys(map)) <= Cardinality(Keys(held) \cup more) /\ Cardinality(Keys(map)) \in Nat
        <3>1. Keys(map) \in SUBSET (Keys(held) \cup more) BY <2>1
        <3>2. IsFiniteSet(Keys(map)) BY <3>1, <2>5, FS_Subset
        <3> QED BY <3>1, <3>2, <2>5, FS_Subset, FS_CardinalityType
    <2>7. Cardinality(Keys(held) \cup more) <= cap
        BY <2>4, <2>5
    <2> QED BY <2>5, <2>6, <2>7
<1> QED BY <1>1, <1>2, <1>3, <1>4, <1>5

-----------------------------------------------------------------------------
(***************************************************************************)
(* Claims                                                                  *)
(***************************************************************************)

ClaimMaps == [Machine -> Claims \cup {NoClaims}]

ClaimSet(claims) == UNION {{e} \X claims[e].held : e \in DOMAIN claims}

\* A set of claims is finite.
LEMMA HeldFacts ==
    ASSUME NEW c \in Claims \cup {NoClaims}
    PROVE  c.held \subseteq RepoId \X Workspace /\ IsFiniteSet(c.held)
<1>1. c.held \in SUBSET (RepoId \X Workspace)
    BY DEF Claims, NoClaims
<1>2. IsFiniteSet(RepoId \X Workspace)
    BY DomainAssumption, FS_Product
<1> QED BY <1>1, <1>2, FS_Subset

\* The claims of all machines are a finite set, counted by ClaimCount.
LEMMA ClaimSetFacts ==
    ASSUME NEW claims \in ClaimMaps
    PROVE  /\ ClaimCount(claims) = Cardinality(ClaimSet(claims))
           /\ \A x : x \in ClaimSet(claims) <=>
                     \E e \in Machine : \E p \in claims[e].held : x = <<e, p>>
           /\ IsFiniteSet(ClaimSet(claims))
           /\ ClaimCount(claims) \in Nat
<1>1. DOMAIN claims = Machine BY DEF ClaimMaps
<1>2. ClaimCount(claims) = Cardinality(ClaimSet(claims)) BY DEF ClaimCount, ClaimSet
<1>3. \A x : x \in ClaimSet(claims) <=> \E e \in Machine : \E p \in claims[e].held : x = <<e, p>>
    BY <1>1 DEF ClaimSet
<1>4. ClaimSet(claims) \in SUBSET (Machine \X (RepoId \X Workspace))
    <2>1. \A e \in Machine : claims[e].held \subseteq RepoId \X Workspace
        BY HeldFacts DEF ClaimMaps
    <2> QED BY <1>3, <2>1
<1>5. IsFiniteSet(Machine \X (RepoId \X Workspace))
    BY DomainAssumption, FS_Product
<1>6. IsFiniteSet(ClaimSet(claims)) BY <1>4, <1>5, FS_Subset
<1> QED BY <1>2, <1>3, <1>6, FS_CardinalityType

\* Fewer claims, smaller count.
LEMMA ClaimCountMonotonic ==
    ASSUME NEW a \in ClaimMaps, NEW b \in ClaimMaps,
           \A e \in Machine : a[e].held \subseteq b[e].held
    PROVE  ClaimCount(a) <= ClaimCount(b)
<1>1. ClaimSet(a) \in SUBSET ClaimSet(b) BY ClaimSetFacts
<1> QED BY <1>1, ClaimSetFacts, FS_Subset

\* A non-empty finite set of numbers has a largest element.
LEMMA FiniteMaximum ==
    ASSUME NEW C \in SUBSET Nat, IsFiniteSet(C), C # {}
    PROVE  \E e \in C : \A f \in C : f <= e
<1> DEFINE Above(e) == {f \in C : e < f}
           T == {Above(e) : e \in C}
<1>1. T \subseteq FiniteSubsetsOf(C) /\ T # {}
    <2>1. \A e \in C : Above(e) \in SUBSET C OBVIOUS
    <2>2. \A e \in C : IsFiniteSet(Above(e)) BY <2>1, FS_Subset
    <2> QED BY <2>1, <2>2 DEF FiniteSubsetsOf
<1>2. PICK M \in T : \A N \in T : ~(<<N, M>> \in StrictSubsetOrdering(C))
    <2>1. IsWellFoundedOn(StrictSubsetOrdering(C), FiniteSubsetsOf(C))
        BY FS_StrictSubsetOrderingWellFounded
    <2> QED BY <1>1, <2>1, WFMin
<1>3. PICK e \in C : M = Above(e) BY <1>2
<1>4. ASSUME NEW f \in C, ~(f <= e) PROVE FALSE
    <2>1. e < f BY <1>4
    <2>2. f \in M BY <1>3, <2>1
    <2>3. f \notin Above(f) OBVIOUS
    <2>4. \A g \in Above(f) : g \in M
        <3> TAKE g \in Above(f)
        <3>1. g \in C /\ f < g OBVIOUS
        <3>2. e < g BY <2>1, <3>1
        <3> QED BY <1>3, <3>1, <3>2
    <2>5. Above(f) \subseteq C /\ M \subseteq C BY <1>3
    <2> HIDE DEF Above
    <2>6. <<Above(f), M>> \in StrictSubsetOrdering(C)
        BY <2>2, <2>3, <2>4, <2>5 DEF StrictSubsetOrdering
    <2>7. Above(f) \in T OBVIOUS
    <2> QED BY <2>6, <2>7, <1>2
<1> QED BY <1>4

-----------------------------------------------------------------------------
(***************************************************************************)
(* One machine's state                                                     *)
(***************************************************************************)

\* The fields of a state have their types.
LEMMA StateFields ==
    ASSUME NEW s \in MeshStates
    PROVE  /\ s.name \in Name
           /\ s.version \in Versions
           /\ s.peers \in [Machine -> Slot(Name)]
           /\ s.repos \subseteq Repo
           /\ s.meshRepos \in [RepoName -> Slot(RepoId)]
           /\ s.claims \in Claims
           /\ s.claims.version \in Versions
           /\ s.claims.held \subseteq RepoId \X Workspace
           /\ IsFiniteSet(s.claims.held)
           /\ s.peerClaims \in ClaimMaps
           /\ s.version \in Int /\ s.claims.version \in Int
<1>1. /\ s.name \in Name
      /\ s.version \in Versions
      /\ s.peers \in [Machine -> Slot(Name)]
      /\ s.repos \subseteq Repo
      /\ s.meshRepos \in [RepoName -> Slot(RepoId)]
      /\ s.claims \in Claims
      /\ s.peerClaims \in ClaimMaps
    BY DEF MeshStates, ClaimMaps
<1>2. s.claims.version \in Versions BY <1>1 DEF Claims
<1>3. s.claims.held \subseteq RepoId \X Workspace /\ IsFiniteSet(s.claims.held)
    BY <1>1, HeldFacts
<1>4. s.version \in Int /\ s.claims.version \in Int
    BY <1>1, <1>2, MaxVersionAssumption DEF Versions
<1> QED BY <1>1, <1>2, <1>3, <1>4, Zenon

\* NotBehind is reflexive.
LEMMA NotBehindItself ==
    ASSUME NEW s \in MeshStates
    PROVE  NotBehind(s, s)
BY StateFields DEF NotBehind, NotOlder

\* A new key adds at most one to a map.
LEMMA KeysOfUpdate ==
    ASSUME NEW K, IsFiniteSet(K), NEW f, DOMAIN f = K, NEW k \in K, NEW r
    PROVE  LET g == [f EXCEPT ![k] = r]
           IN  /\ Cardinality(Keys(f)) \in Nat
               /\ Cardinality(Keys(g)) \in Nat
               /\ Cardinality(Keys(g)) <= Cardinality(Keys(f)) + 1
               /\ f[k] # Absent => Cardinality(Keys(g)) <= Cardinality(Keys(f))
<1> DEFINE g == [f EXCEPT ![k] = r]
<1>1. IsFiniteSet(Keys(f))
    <2>1. Keys(f) \in SUBSET K BY DEF Keys
    <2> QED BY <2>1, FS_Subset
<1>2. Keys(g) \in SUBSET (Keys(f) \cup {k}) BY DEF Keys
<1>3. /\ IsFiniteSet(Keys(f) \cup {k})
      /\ Cardinality(Keys(f) \cup {k}) = IF k \in Keys(f) THEN Cardinality(Keys(f))
                                                          ELSE Cardinality(Keys(f)) + 1
    BY <1>1, FS_AddElement
<1>4. /\ IsFiniteSet(Keys(g))
      /\ Cardinality(Keys(g)) <= Cardinality(Keys(f) \cup {k})
    BY <1>2, <1>3, FS_Subset
<1>5. Cardinality(Keys(f)) \in Nat /\ Cardinality(Keys(g)) \in Nat
    BY <1>1, <1>4, FS_CardinalityType
<1>6. f[k] # Absent => k \in Keys(f) BY DEF Keys
<1> QED BY <1>3, <1>4, <1>5, <1>6

\* Renaming this machine.
LEMMA RenameFacts ==
    ASSUME NEW s, Sound(s), NEW n \in Name, CanRenameMachine(s, n)
    PROVE  Sound(RenameMachine(s, n)) /\ NotBehind(RenameMachine(s, n), s)
<1> DEFINE t == RenameMachine(s, n)
<1>1. s \in MeshStates BY DEF Sound
<1>2. s.version + 1 \in Versions /\ s.version + 1 >= s.version
    BY <1>1, StateFields, VersionFacts DEF CanRenameMachine
<1>3. t \in MeshStates BY <1>1, <1>2 DEF MeshStates, RenameMachine
<1>4. /\ t.peers = s.peers /\ t.repos = s.repos /\ t.meshRepos = s.meshRepos
      /\ t.claims = s.claims /\ t.peerClaims = s.peerClaims /\ t.version = s.version + 1
    BY <1>1 DEF MeshStates, RenameMachine
<1> HIDE DEF t
<1>5. Sound(t)
    BY <1>3, <1>4 DEF Sound, ReposListed, ClaimsRegistered, RegisteredId, PeerClaimsAlive,
                      WithinCaps
<1>6. NotBehind(t, s) BY <1>1, <1>2, <1>4, StateFields DEF NotBehind, NotOlder
<1> QED BY <1>5, <1>6 DEF t

\* Adding a peer, at a version past any tombstone of it.
LEMMA AddPeerFacts ==
    ASSUME NEW s, Sound(s), NEW e \in Machine, NEW n \in Name, CanAddPeer(s, e)
    PROVE  Sound(AddPeer(s, e, n)) /\ NotBehind(AddPeer(s, e, n), s)
<1> DEFINE t == AddPeer(s, e, n)
           b == [version |-> HeldVersion(s.peers[e]) + 1, value |-> n]
<1>1. s \in MeshStates BY DEF Sound
<1>2. s.peers \in [Machine -> Slot(Name)] BY <1>1, StateFields
<1>3. b \in Slot(Name) /\ b # Absent /\ NotOlder(b, s.peers[e])
    BY <1>2, BumpFacts DEF CanAddPeer
<1> HIDE DEF b
<1>4. t = [s EXCEPT !.peers = [s.peers EXCEPT ![e] = b]] BY <1>1 DEF MeshStates, AddPeer, b
<1>5. t \in MeshStates BY <1>1, <1>2, <1>3, <1>4 DEF MeshStates
<1>6. /\ t.peers = [s.peers EXCEPT ![e] = b] /\ t.repos = s.repos /\ t.meshRepos = s.meshRepos
      /\ t.claims = s.claims /\ t.peerClaims = s.peerClaims /\ t.version = s.version
    BY <1>1, <1>4 DEF MeshStates
<1> HIDE DEF t
<1>7. b.value = n /\ n # Removed BY DomainAssumption DEF b, Removed
<1>8. PeerClaimsAlive(t)
    BY <1>2, <1>3, <1>6, <1>7 DEF Sound, PeerClaimsAlive, Live
<1>9. Cardinality(Keys(t.peers)) <= MAX_OTHER_PEERS
    <2>1. Cardinality(Keys(s.peers)) <= MAX_OTHER_PEERS BY DEF Sound, WithinCaps
    <2>2. s.peers[e] # Absent \/ Cardinality(Keys(s.peers)) < MAX_OTHER_PEERS BY DEF CanAddPeer
    <2>3. /\ Cardinality(Keys(s.peers)) \in Nat
          /\ Cardinality(Keys(t.peers)) \in Nat
          /\ Cardinality(Keys(t.peers)) <= Cardinality(Keys(s.peers)) + 1
          /\ s.peers[e] # Absent => Cardinality(Keys(t.peers)) <= Cardinality(Keys(s.peers))
        <3>1. DOMAIN s.peers = Machine BY <1>2
        <3> QED BY <1>6, <3>1, KeysOfUpdate, DomainAssumption
    <2> QED BY <2>1, <2>2, <2>3, CapAssumption DEF MAX_OTHER_PEERS
<1>10. Sound(t)
    BY <1>5, <1>6, <1>8, <1>9 DEF Sound, ReposListed, ClaimsRegistered, RegisteredId, WithinCaps
<1>11. NotBehind(t, s) BY <1>1, <1>2, <1>3, <1>6, StateFields DEF NotBehind, NotOlder
<1> QED BY <1>10, <1>11 DEF t

\* Pruning drops the claims of the machines not alive, and nothing else.
LEMMA PruneFacts ==
    ASSUME NEW peers, NEW claims \in ClaimMaps, ClaimCount(claims) <= MAX_OTHER_WORKSPACES
    PROVE  LET pruned == PruneClaims(peers, claims)
           IN  /\ pruned \in ClaimMaps
               /\ ClaimCount(pruned) <= MAX_OTHER_WORKSPACES
               /\ \A e \in Machine : pruned[e] # NoClaims => Live(peers[e])
<1> DEFINE pruned == PruneClaims(peers, claims)
<1>1. pruned \in ClaimMaps /\ \A e \in Machine : pruned[e] # NoClaims => Live(peers[e])
    BY DEF ClaimMaps, PruneClaims
<1>2. \A e \in Machine : pruned[e].held \subseteq claims[e].held
    <2> TAKE e \in Machine
    <2>1. pruned[e] = claims[e] \/ pruned[e] = NoClaims BY DEF PruneClaims
    <2> QED BY <2>1 DEF NoClaims
<1> HIDE DEF pruned
<1>3. ClaimCount(pruned) <= ClaimCount(claims) BY <1>1, <1>2, ClaimCountMonotonic
<1>4. ClaimCount(pruned) \in Nat /\ ClaimCount(claims) \in Nat BY <1>1, ClaimSetFacts
<1>5. ClaimCount(pruned) <= MAX_OTHER_WORKSPACES
    BY <1>3, <1>4, CapAssumption DEF MAX_OTHER_WORKSPACES
<1> QED BY <1>1, <1>5 DEF pruned

\* Removing a peer tombstones it and drops its claims.
LEMMA RemovePeerFacts ==
    ASSUME NEW s, Sound(s), NEW e \in Machine, CanRemovePeer(s, e)
    PROVE  Sound(RemovePeer(s, e)) /\ NotBehind(RemovePeer(s, e), s)
<1> DEFINE t == RemovePeer(s, e)
           b == [version |-> HeldVersion(s.peers[e]) + 1, value |-> Removed]
           peers == [s.peers EXCEPT ![e] = b]
<1>1. s \in MeshStates BY DEF Sound
<1>2. s.peers \in [Machine -> Slot(Name)] /\ s.peerClaims \in ClaimMaps BY <1>1, StateFields
<1>3. HeldVersion(s.peers[e]) = s.peers[e].version /\ s.peers[e] # Absent
    BY DEF CanRemovePeer, Live, HeldVersion
<1>4. b \in Slot(Name) /\ b # Absent /\ NotOlder(b, s.peers[e])
    BY <1>2, <1>3, BumpFacts DEF CanRemovePeer
<1>5. t = [s EXCEPT !.peers = peers, !.peerClaims = PruneClaims(peers, s.peerClaims)]
    BY <1>1, <1>2, <1>3 DEF RemovePeer
<1> HIDE DEF b
<1>6. peers \in [Machine -> Slot(Name)] BY <1>2, <1>4
<1>7. /\ PruneClaims(peers, s.peerClaims) \in ClaimMaps
      /\ ClaimCount(PruneClaims(peers, s.peerClaims)) <= MAX_OTHER_WORKSPACES
      /\ \A x \in Machine : PruneClaims(peers, s.peerClaims)[x] # NoClaims => Live(peers[x])
    <2>1. ClaimCount(s.peerClaims) <= MAX_OTHER_WORKSPACES BY DEF Sound, WithinCaps
    <2> HIDE DEF peers
    <2> QED BY <1>2, <2>1, PruneFacts
<1>8. t \in MeshStates BY <1>1, <1>5, <1>6, <1>7 DEF MeshStates, ClaimMaps
<1>9. /\ t.peers = peers /\ t.repos = s.repos /\ t.meshRepos = s.meshRepos
      /\ t.claims = s.claims /\ t.version = s.version
      /\ t.peerClaims = PruneClaims(peers, s.peerClaims)
    BY <1>1, <1>5 DEF MeshStates
<1> HIDE DEF t
<1>10. Cardinality(Keys(t.peers)) <= MAX_OTHER_PEERS
    <2>1. Cardinality(Keys(s.peers)) <= MAX_OTHER_PEERS BY DEF Sound, WithinCaps
    <2>2. /\ Cardinality(Keys(s.peers)) \in Nat
          /\ Cardinality(Keys(t.peers)) \in Nat
          /\ Cardinality(Keys(t.peers)) <= Cardinality(Keys(s.peers))
        BY <1>2, <1>3, <1>9, KeysOfUpdate, DomainAssumption
    <2> QED BY <2>1, <2>2, CapAssumption DEF MAX_OTHER_PEERS
<1>11. NotBehind(t, s) BY <1>1, <1>2, <1>4, <1>9, StateFields DEF NotBehind, NotOlder
<1> HIDE DEF peers
<1>12. PeerClaimsAlive(t) BY <1>7, <1>9 DEF PeerClaimsAlive
<1>13. Sound(t)
    BY <1>7, <1>8, <1>9, <1>10, <1>12
    DEF Sound, ReposListed, ClaimsRegistered, RegisteredId, WithinCaps
<1> QED BY <1>11, <1>13 DEF t

-----------------------------------------------------------------------------
(***************************************************************************)
(* Repos                                                                   *)
(***************************************************************************)

\* Registering a repo lists it, at a version past any tombstone of its name.
LEMMA AddRepoFacts ==
    ASSUME NEW s, Sound(s), NEW r \in Repo, CanAddRepo(s, r)
    PROVE  Sound(AddRepo(s, r)) /\ NotBehind(AddRepo(s, r), s)
<1> DEFINE t == AddRepo(s, r)
           b == [version |-> HeldVersion(s.meshRepos[r.name]) + 1, value |-> r.id]
<1>1. s \in MeshStates BY DEF Sound
<1>2. s.meshRepos \in [RepoName -> Slot(RepoId)] /\ s.repos \subseteq Repo BY <1>1, StateFields
<1>3. r.name \in RepoName /\ r.id \in RepoId BY DEF Repo
<1>4. b \in Slot(RepoId) /\ b # Absent /\ NotOlder(b, s.meshRepos[r.name])
    BY <1>2, <1>3, BumpFacts DEF CanAddRepo
<1>5. b.value # Removed BY <1>3, DomainAssumption DEF Removed
<1>6. t = [s EXCEPT !.meshRepos = [s.meshRepos EXCEPT ![r.name] = b], !.repos = s.repos \cup {r}]
    BY <1>1 DEF MeshStates, AddRepo
<1> HIDE DEF b
<1>7. t \in MeshStates
    <2> DEFINE listed == [s.meshRepos EXCEPT ![r.name] = b]
               repos == s.repos \cup {r}
    <2>1. listed \in [RepoName -> Slot(RepoId)] /\ repos \subseteq Repo BY <1>2, <1>3, <1>4
    <2>2. t = [s EXCEPT !.meshRepos = listed, !.repos = repos] BY <1>6
    <2> HIDE DEF t, listed, repos
    <2> QED BY <1>1, <2>1, <2>2 DEF MeshStates
<1>8. /\ t.meshRepos = [s.meshRepos EXCEPT ![r.name] = b] /\ t.repos = s.repos \cup {r}
      /\ t.peers = s.peers /\ t.claims = s.claims /\ t.peerClaims = s.peerClaims
      /\ t.version = s.version
    BY <1>1, <1>6 DEF MeshStates
<1> HIDE DEF t
<1>9. ReposListed(t)
    <2> SUFFICES ASSUME NEW q \in t.repos PROVE Live(t.meshRepos[q.name])
        BY DEF ReposListed
    <2>1. CASE q.name = r.name BY <2>1, <1>2, <1>3, <1>4, <1>5, <1>8 DEF Live
    <2>2. CASE q.name # r.name
        <3>1. q \in s.repos /\ q.name \in RepoName BY <2>2, <1>2, <1>8 DEF Repo
        <3> QED BY <3>1, <2>2, <1>2, <1>8 DEF Sound, ReposListed
    <2> QED BY <2>1, <2>2
<1>10. ClaimsRegistered(t) BY <1>8 DEF Sound, ClaimsRegistered, RegisteredId
<1>11. Cardinality(Keys(t.meshRepos)) <= MAX_MESH_REPOS
    <2>1. Cardinality(Keys(s.meshRepos)) <= MAX_MESH_REPOS BY DEF Sound, WithinCaps
    <2>2. s.meshRepos[r.name] # Absent \/ Cardinality(Keys(s.meshRepos)) < MAX_MESH_REPOS
        BY DEF CanAddRepo
    <2>3. /\ Cardinality(Keys(s.meshRepos)) \in Nat
          /\ Cardinality(Keys(t.meshRepos)) \in Nat
          /\ Cardinality(Keys(t.meshRepos)) <= Cardinality(Keys(s.meshRepos)) + 1
          /\ s.meshRepos[r.name] # Absent
                => Cardinality(Keys(t.meshRepos)) <= Cardinality(Keys(s.meshRepos))
        <3>1. IsFiniteSet(RepoName) /\ DOMAIN s.meshRepos = RepoName BY <1>2, DomainAssumption
        <3> DEFINE f == s.meshRepos
                   k == r.name
        <3>2. k \in RepoName /\ DOMAIN f = RepoName /\ t.meshRepos = [f EXCEPT ![k] = b]
            BY <1>3, <1>8, <3>1
        <3> HIDE DEF f, k
        <3>3. /\ Cardinality(Keys(f)) \in Nat
              /\ Cardinality(Keys(t.meshRepos)) \in Nat
              /\ Cardinality(Keys(t.meshRepos)) <= Cardinality(Keys(f)) + 1
              /\ f[k] # Absent => Cardinality(Keys(t.meshRepos)) <= Cardinality(Keys(f))
            BY <3>1, <3>2, KeysOfUpdate
        <3> QED BY <3>3 DEF f, k
    <2> QED BY <2>1, <2>2, <2>3, CapAssumption
<1>12. Sound(t)
    BY <1>7, <1>8, <1>9, <1>10, <1>11 DEF Sound, PeerClaimsAlive, WithinCaps
<1>13. NotBehind(t, s) BY <1>1, <1>2, <1>3, <1>4, <1>8, StateFields DEF NotBehind, NotOlder
<1> QED BY <1>12, <1>13 DEF t

\* Claiming workspaces of a registered repo.
LEMMA ClaimFacts ==
    ASSUME NEW s, Sound(s), NEW id \in RepoId, RegisteredId(s, id),
           NEW names \in SUBSET Workspace, CanSetClaims(s.claims, id, names)
    PROVE  LET t == [s EXCEPT !.claims = SetClaims(s.claims, id, names)]
           IN  Sound(t) /\ NotBehind(t, s)
<1> DEFINE c == SetClaims(s.claims, id, names)
           t == [s EXCEPT !.claims = c]
<1>1. s \in MeshStates BY DEF Sound
<1>2. /\ s.claims.version \in Versions /\ s.claims.held \subseteq RepoId \X Workspace
      /\ s.claims.version \in Int /\ s.version \in Int
    BY <1>1, StateFields
<1>3. /\ c.version = s.claims.version + 1
      /\ c.held = (s.claims.held \ Names(s.claims.held, id)) \cup ({id} \X names)
    BY DEF SetClaims
<1>4. c.version \in Versions BY <1>2, <1>3, VersionFacts DEF CanSetClaims
<1>5. c.held \subseteq RepoId \X Workspace BY <1>2, <1>3
<1>6. c \in Claims
    <2>1. c = [version |-> c.version, held |-> c.held] BY DEF SetClaims
    <2> HIDE DEF c
    <2> QED BY <2>1, <1>4, <1>5 DEF Claims
<1>7. ValidClaims(c.held) BY <1>3 DEF CanSetClaims
<1>8. \A p \in c.held : p \in s.claims.held \/ p[1] = id BY <1>3
<1>9. c.version >= s.claims.version BY <1>2, <1>3
<1> HIDE DEF c
<1>10. t \in MeshStates BY <1>1, <1>6 DEF MeshStates
<1>11. /\ t.claims = c /\ t.repos = s.repos /\ t.peers = s.peers /\ t.meshRepos = s.meshRepos
       /\ t.peerClaims = s.peerClaims /\ t.version = s.version
    BY <1>1 DEF MeshStates
<1> HIDE DEF t
<1>12. ClaimsRegistered(t)
    <2>1. CanBump(s.claims.version) BY DEF CanSetClaims
    <2>2. \A p \in s.claims.held : RegisteredId(s, p[1]) BY <2>1 DEF Sound, ClaimsRegistered
    <2>3. \A i : RegisteredId(t, i) <=> RegisteredId(s, i) BY <1>11 DEF RegisteredId
    <2> QED BY <1>8, <1>11, <2>2, <2>3 DEF ClaimsRegistered
<1>13. Sound(t)
    BY <1>7, <1>10, <1>11, <1>12 DEF Sound, ReposListed, PeerClaimsAlive, WithinCaps
<1>14. NotBehind(t, s) BY <1>2, <1>9, <1>11 DEF NotBehind, NotOlder
<1> QED BY <1>13, <1>14 DEF t, c

\* Unregistering releases the claims on what it unregisters, unless the
\* claims register reaches the version ceiling.
LEMMA UnregisterFacts ==
    ASSUME NEW s \in MeshStates, ClaimsRegistered(s), ValidClaims(s.claims.held),
           NEW names \in SUBSET RepoName
    PROVE  LET t == Unregister(s, names)
           IN  /\ t \in MeshStates
               /\ t.name = s.name /\ t.version = s.version /\ t.peers = s.peers
               /\ t.meshRepos = s.meshRepos /\ t.peerClaims = s.peerClaims
               /\ t.repos = {r \in s.repos : r.name \notin names}
               /\ t.claims.version >= s.claims.version
               /\ ClaimsRegistered(t)
               /\ ValidClaims(t.claims.held)
<1> DEFINE claimed == {n \in names : \E r \in s.repos :
                                        r.name = n /\ Names(s.claims.held, r.id) # {}}
           room == MAX_RECORD_VERSION - 1 - s.claims.version
           upTo(n) == {k \in claimed : k <= n}
           released == {n \in claimed : Cardinality(upTo(n)) <= room}
           bumps == IF Cardinality(claimed) < room THEN Cardinality(claimed) ELSE room
           v == s.claims.version + bumps
           held == {p \in s.claims.held : ~ \E r \in s.repos : r.name \in released /\ r.id = p[1]}
           c == [version |-> v, held |-> held]
           repos == {r \in s.repos : r.name \notin names}
           t == Unregister(s, names)
<1>1. t = [s EXCEPT !.repos = repos, !.claims = c] BY DEF Unregister
<1>2. /\ s.claims.version \in Versions /\ s.claims.held \subseteq RepoId \X Workspace
      /\ s.claims.version \in Int /\ s.repos \subseteq Repo /\ IsFiniteSet(s.claims.held)
    BY StateFields
<1>3. room \in Nat BY <1>2, MaxVersionAssumption DEF Versions
<1>4. IsFiniteSet(claimed) /\ Cardinality(claimed) \in Nat
    <2>1. claimed \in SUBSET RepoName OBVIOUS
    <2>2. IsFiniteSet(RepoName) BY DomainAssumption
    <2> QED BY <2>1, <2>2, FS_Subset, FS_CardinalityType
<1>5. \A n \in claimed : Cardinality(upTo(n)) \in Nat /\ Cardinality(upTo(n)) <= Cardinality(claimed)
    <2> TAKE n \in claimed
    <2>1. upTo(n) \in SUBSET claimed OBVIOUS
    <2> HIDE DEF upTo, claimed
    <2> QED BY <2>1, <1>4, FS_Subset, FS_CardinalityType
<1>6. /\ v \in Versions /\ v >= s.claims.version
      /\ ~(Cardinality(claimed) < room) => ~CanBump(v)
      /\ ~CanBump(s.claims.version) => ~CanBump(v)
    <2> HIDE DEF claimed
    <2> QED BY <1>2, <1>3, <1>4, MaxVersionAssumption DEF Versions, CanBump
<1>7. held \subseteq s.claims.held OBVIOUS
<1>8. \A p \in held : (\E r \in repos : r.id = p[1]) \/ ~CanBump(v)
    <2> SUFFICES ASSUME NEW p \in held, CanBump(v) PROVE \E r \in repos : r.id = p[1]
        OBVIOUS
    <2>1. CanBump(s.claims.version) /\ Cardinality(claimed) < room BY <1>6
    <2>2. PICK r \in s.repos : r.id = p[1] BY <2>1 DEF ClaimsRegistered, RegisteredId
    <2>3. r.name \notin released BY <2>2
    <2>4. ASSUME r.name \in names PROVE FALSE
        <3>1. p \in Names(s.claims.held, r.id) BY <2>2 DEF Names
        <3>2. r.name \in claimed BY <2>4, <3>1
        <3>3. Cardinality(upTo(r.name)) <= room
            <4> HIDE DEF claimed, upTo, room
            <4> QED BY <1>3, <1>4, <1>5, <2>1, <3>2
        <3> QED BY <2>3, <3>2, <3>3
    <2> QED BY <2>2, <2>4
<1>9. ValidClaims(held)
    <2>1. held \in SUBSET s.claims.held BY <1>7
    <2> HIDE DEF held
    <2>2. /\ Cardinality(held) <= Cardinality(s.claims.held)
          /\ Cardinality(held) \in Nat /\ Cardinality(s.claims.held) \in Nat
        BY <1>2, <2>1, FS_Subset, FS_CardinalityType
    <2> QED BY <2>2, CapAssumption DEF ValidClaims
<1> HIDE DEF claimed, room, released, bumps, v, held
<1>10. c \in Claims BY <1>2, <1>6, <1>7 DEF Claims
<1>11. t \in MeshStates
    <2>1. repos \subseteq Repo BY <1>2
    <2> HIDE DEF c, repos
    <2> QED BY <1>1, <1>10, <2>1 DEF MeshStates
<1>12. /\ t.name = s.name /\ t.version = s.version /\ t.peers = s.peers
       /\ t.meshRepos = s.meshRepos /\ t.peerClaims = s.peerClaims
       /\ t.repos = repos /\ t.claims = c
    BY <1>1 DEF MeshStates
<1>13. ClaimsRegistered(t) BY <1>8, <1>12 DEF ClaimsRegistered, RegisteredId
<1> QED BY <1>6, <1>9, <1>11, <1>12, <1>13

\* Forgetting a repo.
LEMMA ForgetFacts ==
    ASSUME NEW s, Sound(s), NEW n \in RepoName
    PROVE  Sound(ForgetRepo(s, n)) /\ NotBehind(ForgetRepo(s, n), s)
<1> DEFINE t == ForgetRepo(s, n)
<1>1. s \in MeshStates /\ ClaimsRegistered(s) /\ ValidClaims(s.claims.held)
    BY DEF Sound, WithinCaps
<1>2. /\ t \in MeshStates
      /\ t.name = s.name /\ t.version = s.version /\ t.peers = s.peers
      /\ t.meshRepos = s.meshRepos /\ t.peerClaims = s.peerClaims
      /\ t.repos = {r \in s.repos : r.name \notin {n}}
      /\ t.claims.version >= s.claims.version
      /\ ClaimsRegistered(t)
      /\ ValidClaims(t.claims.held)
    BY <1>1, UnregisterFacts DEF ForgetRepo
<1> HIDE DEF t
<1>3. Sound(t) BY <1>2 DEF Sound, ReposListed, PeerClaimsAlive, WithinCaps
<1>4. NotBehind(t, s) BY <1>1, <1>2, StateFields DEF NotBehind, NotOlder
<1> QED BY <1>3, <1>4 DEF t

\* Removing a repo from the mesh tombstones its name and unregisters it here.
LEMMA RemoveRepoFacts ==
    ASSUME NEW s, Sound(s), NEW n \in RepoName, CanRemoveRepo(s, n)
    PROVE  Sound(RemoveRepo(s, n)) /\ NotBehind(RemoveRepo(s, n), s)
<1> DEFINE u == Unregister(s, {n})
           b == [version |-> HeldVersion(s.meshRepos[n]) + 1, value |-> Removed]
           t == RemoveRepo(s, n)
<1>1. s \in MeshStates /\ ClaimsRegistered(s) /\ ValidClaims(s.claims.held)
    BY DEF Sound, WithinCaps
<1>2. /\ u \in MeshStates
      /\ u.name = s.name /\ u.version = s.version /\ u.peers = s.peers
      /\ u.meshRepos = s.meshRepos /\ u.peerClaims = s.peerClaims
      /\ u.repos = {r \in s.repos : r.name \notin {n}}
      /\ u.claims.version >= s.claims.version
      /\ ClaimsRegistered(u)
      /\ ValidClaims(u.claims.held)
    BY <1>1, UnregisterFacts
<1>3. s.meshRepos \in [RepoName -> Slot(RepoId)] BY <1>1, StateFields
<1>4. b \in Slot(RepoId) /\ b # Absent /\ NotOlder(b, s.meshRepos[n])
    BY <1>3, BumpFacts DEF CanRemoveRepo
<1> DEFINE listed == [s.meshRepos EXCEPT ![n] = b]
<1>5. t = [u EXCEPT !.meshRepos = listed] BY <1>2 DEF RemoveRepo, MeshStates
<1>6. listed \in [RepoName -> Slot(RepoId)] BY <1>3, <1>4
<1>7. \A k \in RepoName : k # n => listed[k] = s.meshRepos[k] BY <1>3
<1>8. \A k \in RepoName : NotOlder(listed[k], s.meshRepos[k])
    BY <1>3, <1>4 DEF NotOlder
<1>9. Cardinality(Keys(listed)) <= MAX_MESH_REPOS
    <2>1. Cardinality(Keys(s.meshRepos)) <= MAX_MESH_REPOS BY DEF Sound, WithinCaps
    <2>2. s.meshRepos[n] # Absent
        <3>1. CASE Live(s.meshRepos[n]) BY <3>1 DEF Live
        <3>2. CASE Registered(s, n) BY <3>2 DEF Registered, Sound, ReposListed, Live
        <3> QED BY <3>1, <3>2 DEF CanRemoveRepo
    <2>3. /\ Cardinality(Keys(s.meshRepos)) \in Nat
          /\ Cardinality(Keys(listed)) \in Nat
          /\ Cardinality(Keys(listed)) <= Cardinality(Keys(s.meshRepos))
        <3> DEFINE f == s.meshRepos
        <3>1. IsFiniteSet(RepoName) /\ DOMAIN f = RepoName BY <1>3, DomainAssumption
        <3> HIDE DEF f, b
        <3>2. /\ Cardinality(Keys(f)) \in Nat
              /\ Cardinality(Keys([f EXCEPT ![n] = b])) \in Nat
              /\ f[n] # Absent => Cardinality(Keys([f EXCEPT ![n] = b])) <= Cardinality(Keys(f))
            BY <3>1, KeysOfUpdate
        <3> QED BY <2>2, <3>2 DEF f
    <2> QED BY <2>1, <2>3, CapAssumption
<1> HIDE DEF u, b, listed
<1>10. t \in MeshStates BY <1>2, <1>5, <1>6 DEF MeshStates
<1>11. /\ t.meshRepos = listed /\ t.repos = u.repos /\ t.peers = u.peers
       /\ t.claims = u.claims /\ t.peerClaims = u.peerClaims /\ t.version = u.version
    BY <1>2, <1>5 DEF MeshStates
<1> HIDE DEF t
<1>12. ReposListed(t)
    <2> SUFFICES ASSUME NEW r \in t.repos PROVE Live(t.meshRepos[r.name])
        BY DEF ReposListed
    <2>1. r \in s.repos /\ r.name # n BY <1>2, <1>11
    <2>2. r.name \in RepoName BY <2>1, <1>1, StateFields DEF Repo
    <2> QED BY <2>1, <2>2, <1>7, <1>11 DEF Sound, ReposListed
<1>13. ClaimsRegistered(t) BY <1>2, <1>11 DEF ClaimsRegistered, RegisteredId
<1>14. Sound(t)
    BY <1>2, <1>9, <1>10, <1>11, <1>12, <1>13 DEF Sound, PeerClaimsAlive, WithinCaps
<1>15. NotBehind(t, s) BY <1>1, <1>2, <1>8, <1>11, StateFields DEF NotBehind, NotOlder
<1> QED BY <1>14, <1>15 DEF t

-----------------------------------------------------------------------------
(***************************************************************************)
(* Merging                                                                 *)
(***************************************************************************)

\* Adopting claims in key order under the cap keeps them under the cap.
LEMMA AdoptClaimsFacts ==
    ASSUME NEW s \in MeshStates, ClaimCount(s.peerClaims) <= MAX_OTHER_WORKSPACES,
           NEW msg \in Memberships, NEW m \in Machine,
           NEW C \in ClaimAdoptions(s, msg, m)
    PROVE  /\ AdoptClaims(s, msg, C) \in ClaimMaps
           /\ ClaimCount(AdoptClaims(s, msg, C)) <= MAX_OTHER_WORKSPACES
<1>1. C \subseteq OfferedClaims(s, msg, m) BY DEF ClaimAdoptions
<1>2. C \subseteq Machine BY <1>1 DEF OfferedClaims
<1>3. s.peerClaims \in ClaimMaps BY StateFields
<1>4. msg.claims \in ClaimMaps BY DEF Memberships, ClaimMaps
<1>5. AdoptClaims(s, msg, C) \in ClaimMaps BY <1>3, <1>4 DEF AdoptClaims, ClaimMaps
<1>6. CASE C = {}
    <2>1. AdoptClaims(s, msg, C) = s.peerClaims BY <1>3, <1>6 DEF AdoptClaims, ClaimMaps
    <2> QED BY <2>1, <1>5
<1>7. CASE C # {}
    <2>1. C \in SUBSET Nat BY <1>2, DomainAssumption
    <2>2. IsFiniteSet(C)
        <3>1. C \in SUBSET Machine BY <1>2
        <3> QED BY <3>1, DomainAssumption, FS_Subset
    <2>3. PICK e \in C : \A f \in C : f <= e BY <2>1, <2>2, <1>7, FiniteMaximum
    <2>4. {f \in C : f < e} \cup {e} = C
        <3>1. \A f \in C : f < e \/ f = e BY <2>1, <2>3
        <3> QED BY <3>1
    <2>5. e \in OfferedClaims(s, msg, m) BY <1>1, <2>3
    <2>6. ClaimCount(AdoptClaims(s, msg, {f \in C : f < e} \cup {e})) <= MAX_OTHER_WORKSPACES
        BY <2>5 DEF ClaimAdoptions
    <2> QED BY <1>5, <2>4, <2>6
<1> QED BY <1>6, <1>7

\* What merging the machine records and then the repo records leaves: all of
\* Sound but PeerClaimsAlive, which prune_claims restores afterwards.
MergedRecords(u, s) ==
    /\ u \in MeshStates
    /\ ReposListed(u)
    /\ ClaimsRegistered(u)
    /\ WithinCaps(u)
    /\ NotBehind(u, s)

\* Merging records adopts only records that outrank, and unregisters every
\* repo whose tombstone it adopts.
LEMMA MergeRecordsFacts ==
    ASSUME NEW s, Sound(s), NEW msg \in Memberships, NEW m \in Machine,
           NEW P \in Adoptions(s.peers, OfferedPeers(msg, m), MAX_OTHER_PEERS),
           NEW R \in Adoptions(s.meshRepos, msg.repos, MAX_MESH_REPOS)
    PROVE  MergedRecords(MergeRepos(MergePeers(s, msg, m, P), msg, R), s)
<1>1. s \in MeshStates BY DEF Sound
<1> DEFINE offered == OfferedPeers(msg, m)
           peers == Adopt(P, s.peers, offered)
           listed == Adopt(R, s.meshRepos, msg.repos)
           gone == {n \in R : msg.repos[n].value = Removed}
           a == MergePeers(s, msg, m, P)
           b == Unregister(a, gone)
           u == MergeRepos(a, msg, R)
<1>2. msg.peers \in [Machine -> Slot(Name)] /\ msg.repos \in [RepoName -> Slot(RepoId)]
    BY DEF Memberships
<1>3. /\ s.peers \in [Machine -> Slot(Name)] /\ s.meshRepos \in [RepoName -> Slot(RepoId)]
      /\ s.repos \subseteq Repo
    BY <1>1, StateFields
<1>4. /\ peers \in [Machine -> Slot(Name)]
      /\ Cardinality(Keys(peers)) <= MAX_OTHER_PEERS
      /\ \A e \in Machine : NotOlder(peers[e], s.peers[e])
    <2>1. offered \in [Machine -> Slot(Name)] BY <1>2 DEF OfferedPeers, Slot
    <2>2. Cardinality(Keys(s.peers)) <= MAX_OTHER_PEERS BY DEF Sound, WithinCaps
    <2>3. MAX_OTHER_PEERS \in Nat BY CapAssumption DEF MAX_OTHER_PEERS
    <2>4. IsFiniteSet(Machine) /\ Name \in SUBSET (Nat \ {0}) BY DomainAssumption
    <2> HIDE DEF offered
    <2>5. P \in Adoptions(s.peers, offered, MAX_OTHER_PEERS) BY DEF offered
    <2> QED BY <1>3, <2>1, <2>2, <2>3, <2>4, <2>5, AdoptFacts
<1>5. /\ listed \in [RepoName -> Slot(RepoId)]
      /\ Cardinality(Keys(listed)) <= MAX_MESH_REPOS
      /\ R \subseteq RepoName
      /\ \A n \in R : msg.repos[n] # Absent
      /\ \A n \in RepoName : NotOlder(listed[n], s.meshRepos[n])
    <2>1. Cardinality(Keys(s.meshRepos)) <= MAX_MESH_REPOS BY DEF Sound, WithinCaps
    <2>2. MAX_MESH_REPOS \in Nat BY CapAssumption
    <2>3. IsFiniteSet(RepoName) /\ RepoId \in SUBSET (Nat \ {0}) BY DomainAssumption
    <2> QED BY <1>2, <1>3, <2>1, <2>2, <2>3, AdoptFacts
<1>6. /\ a \in MeshStates /\ a.version >= s.version /\ a.peers = peers
      /\ a.repos = s.repos /\ a.meshRepos = s.meshRepos /\ a.claims = s.claims
      /\ a.peerClaims = s.peerClaims
    <2> DEFINE copy == msg.peers[m]
               v == IF m \in Mergeable(msg.peers)
                    THEN Observe(s.version, copy.version, Live(copy) /\ copy.value # s.name)
                    ELSE s.version
    <2>1. s.version \in Versions /\ s.version \in Int BY <1>1, StateFields
    <2>2. v \in Versions /\ v >= s.version
        <3>1. CASE m \in Mergeable(msg.peers)
            <4>1. copy # Absent BY <3>1 DEF Mergeable
            <4>2. copy.version \in Versions BY <1>2, <4>1, SlotFacts
            <4>3. (Live(copy) /\ copy.value # s.name) \in BOOLEAN BY DEF Live
            <4> HIDE DEF copy
            <4> QED BY <2>1, <3>1, <4>2, <4>3, ObserveFacts
        <3>2. CASE m \notin Mergeable(msg.peers) BY <2>1, <3>2
        <3> QED BY <3>1, <3>2
    <2>3. a = [s EXCEPT !.peers = peers, !.version = v] BY DEF MergePeers
    <2> HIDE DEF a, peers, v
    <2> QED BY <1>1, <1>4, <2>2, <2>3 DEF MeshStates
<1> HIDE DEF a, offered, peers, listed
<1>7. ClaimsRegistered(a) /\ ValidClaims(a.claims.held)
    BY <1>6 DEF Sound, WithinCaps, ClaimsRegistered, RegisteredId
<1>8. /\ b \in MeshStates
      /\ b.version = a.version /\ b.peers = a.peers
      /\ b.meshRepos = a.meshRepos /\ b.peerClaims = a.peerClaims
      /\ b.repos = {r \in a.repos : r.name \notin gone}
      /\ b.claims.version >= a.claims.version
      /\ ClaimsRegistered(b)
      /\ ValidClaims(b.claims.held)
    <2>1. gone \in SUBSET RepoName BY <1>5
    <2> HIDE DEF gone
    <2> QED BY <1>6, <1>7, <2>1, UnregisterFacts
<1>9. u = [b EXCEPT !.meshRepos = listed] BY <1>6 DEF MergeRepos, listed
<1> HIDE DEF b, u
<1>10. u \in MeshStates BY <1>5, <1>8, <1>9 DEF MeshStates
<1>11. /\ u.meshRepos = listed /\ u.repos = b.repos /\ u.peers = b.peers
       /\ u.claims = b.claims /\ u.peerClaims = b.peerClaims /\ u.version = b.version
    BY <1>8, <1>9 DEF MeshStates
<1>12. ReposListed(u)
    <2> SUFFICES ASSUME NEW r \in u.repos PROVE Live(u.meshRepos[r.name])
        BY DEF ReposListed
    <2>1. r \in s.repos /\ r.name \notin gone BY <1>6, <1>8, <1>11
    <2>2. r.name \in RepoName BY <2>1, <1>3 DEF Repo
    <2>3. CASE r.name \in R
        <3>1. listed[r.name] = msg.repos[r.name] BY <2>2, <2>3, <1>3 DEF listed, Adopt
        <3>2. msg.repos[r.name].value # Removed BY <2>1, <2>3
        <3> QED BY <1>5, <1>11, <2>3, <3>1, <3>2 DEF Live
    <2>4. CASE r.name \notin R
        <3>1. listed[r.name] = s.meshRepos[r.name] BY <2>2, <2>4, <1>3 DEF listed, Adopt
        <3> QED BY <1>11, <2>1, <3>1 DEF Sound, ReposListed
    <2> QED BY <2>3, <2>4
<1>13. ClaimsRegistered(u) BY <1>8, <1>11 DEF ClaimsRegistered, RegisteredId
<1>14. WithinCaps(u)
    BY <1>4, <1>5, <1>6, <1>8, <1>11 DEF Sound, WithinCaps
<1>15. NotBehind(u, s)
    BY <1>4, <1>5, <1>6, <1>8, <1>11 DEF NotBehind, NotOlder
<1> QED BY <1>10, <1>12, <1>13, <1>14, <1>15 DEF MergedRecords, u, a

\* Merging the claims then restores Sound: what is adopted fits the cap and
\* what is left is of alive machines.
LEMMA MergeClaimsFacts ==
    ASSUME NEW s, NEW u, MergedRecords(u, s), NEW msg \in Memberships, NEW m \in Machine,
           s \in MeshStates, NEW C \in ClaimAdoptions(u, msg, m)
    PROVE  Sound(MergeClaims(u, msg, m, C)) /\ NotBehind(MergeClaims(u, msg, m, C), s)
<1> DEFINE copy == msg.claims[m]
           v == IF copy # NoClaims /\ copy.version < MAX_RECORD_VERSION
                THEN Observe(u.claims.version, copy.version, copy.held # u.claims.held)
                ELSE u.claims.version
           c == [u.claims EXCEPT !.version = v]
           adopted == AdoptClaims(u, msg, C)
           pruned == PruneClaims(u.peers, adopted)
           t == MergeClaims(u, msg, m, C)
<1>1. u \in MeshStates BY DEF MergedRecords
<1>2. u.claims \in Claims /\ u.claims.version \in Versions /\ u.claims.version \in Int
    BY <1>1, StateFields
<1>3. v \in Versions /\ v >= u.claims.version
    <2>1. CASE copy # NoClaims /\ copy.version < MAX_RECORD_VERSION
        <3>1. copy \in Claims BY <2>1 DEF Memberships
        <3>2. copy.version \in Versions BY <3>1 DEF Claims
        <3>3. (copy.held # u.claims.held) \in BOOLEAN OBVIOUS
        <3> HIDE DEF copy
        <3> QED BY <1>2, <2>1, <3>2, <3>3, ObserveFacts
    <2>2. CASE ~(copy # NoClaims /\ copy.version < MAX_RECORD_VERSION)
        BY <1>2, <2>2
    <2> QED BY <2>1, <2>2
<1>4. ClaimCount(u.peerClaims) <= MAX_OTHER_WORKSPACES BY DEF MergedRecords, WithinCaps
<1>5. adopted \in ClaimMaps /\ ClaimCount(adopted) <= MAX_OTHER_WORKSPACES
    BY <1>1, <1>4, AdoptClaimsFacts
<1> HIDE DEF v, adopted
<1>6. /\ pruned \in ClaimMaps
      /\ ClaimCount(pruned) <= MAX_OTHER_WORKSPACES
      /\ \A e \in Machine : pruned[e] # NoClaims => Live(u.peers[e])
    BY <1>5, PruneFacts
<1>7. t = [u EXCEPT !.peerClaims = pruned, !.claims = c]
    BY <1>1 DEF MergeClaims, MeshStates, v, adopted
<1>8. c \in Claims /\ c.version = v /\ c.held = u.claims.held BY <1>2, <1>3 DEF Claims
<1> HIDE DEF c, pruned, t
<1>9. t \in MeshStates BY <1>1, <1>6, <1>7, <1>8 DEF MeshStates, ClaimMaps
<1>10. /\ t.peerClaims = pruned /\ t.claims = c /\ t.peers = u.peers /\ t.repos = u.repos
       /\ t.meshRepos = u.meshRepos /\ t.version = u.version
    BY <1>1, <1>7 DEF MeshStates
<1>11. ClaimsRegistered(t)
    <2> SUFFICES ASSUME NEW p \in t.claims.held
                 PROVE  RegisteredId(t, p[1]) \/ ~CanBump(t.claims.version)
        BY DEF ClaimsRegistered
    <2>1. RegisteredId(u, p[1]) \/ ~CanBump(u.claims.version)
        BY <1>8, <1>10 DEF MergedRecords, ClaimsRegistered
    <2>2. ~CanBump(u.claims.version) => ~CanBump(v)
        BY <1>2, <1>3, MaxVersionAssumption DEF CanBump, Versions
    <2> QED BY <1>8, <1>10, <2>1, <2>2 DEF RegisteredId
<1>12. WithinCaps(t) /\ ReposListed(t)
    BY <1>6, <1>8, <1>10 DEF MergedRecords, WithinCaps, ReposListed
<1>13. PeerClaimsAlive(t) BY <1>6, <1>10 DEF PeerClaimsAlive
<1>14. NotBehind(t, s)
    <2>1. v \in Int /\ s.claims.version \in Int BY <1>3, StateFields, VersionFacts
    <2>2. t.claims.version >= s.claims.version
        BY <1>2, <1>3, <1>8, <1>10, <2>1 DEF MergedRecords, NotBehind
    <2> QED BY <2>2, <1>10 DEF MergedRecords, NotBehind
<1> QED BY <1>9, <1>11, <1>12, <1>13, <1>14 DEF Sound, t

\* Merging any membership, however stale.
LEMMA MergeFacts ==
    ASSUME NEW s, Sound(s), NEW msg \in Memberships, NEW m \in Machine,
           NEW t \in MergeMembership(s, msg, m)
    PROVE  Sound(t) /\ NotBehind(t, s)
<1> DEFINE records ==
            {MergeRepos(MergePeers(s, msg, m, P), msg, R) :
                P \in Adoptions(s.peers, OfferedPeers(msg, m), MAX_OTHER_PEERS),
                R \in Adoptions(s.meshRepos, msg.repos, MAX_MESH_REPOS)}
<1>1. PICK u \in records : \E C \in ClaimAdoptions(u, msg, m) : t = MergeClaims(u, msg, m, C)
    BY DEF MergeMembership
<1>2. MergedRecords(u, s) BY MergeRecordsFacts
<1>3. s \in MeshStates BY DEF Sound
<1> HIDE DEF records
<1> QED BY <1>1, <1>2, <1>3, MergeClaimsFacts

\* A membership is well-typed.
LEMMA MembershipType ==
    ASSUME NEW s \in MeshStates, NEW m \in Machine
    PROVE  Membership(s, m) \in Memberships
<1>1. [version |-> s.version, value |-> s.name] \in Slot(Name)
    BY StateFields DEF Slot, Record
<1>2. [s.peers EXCEPT ![m] = [version |-> s.version, value |-> s.name]] \in [Machine -> Slot(Name)]
    BY <1>1, StateFields
<1>3. [s.peerClaims EXCEPT ![m] = s.claims] \in [Machine -> Claims \cup {NoClaims}]
    BY StateFields DEF ClaimMaps
<1> QED BY <1>2, <1>3, StateFields DEF Membership, Memberships

-----------------------------------------------------------------------------
(***************************************************************************)
(* Initial states                                                          *)
(***************************************************************************)

\* A machine without a mesh.json.
LEMMA DefaultFacts ==
    ASSUME NEW m \in Machine
    PROVE  /\ Sound(DefaultState(m))
           /\ \A e \in Machine : DefaultState(m).peerClaims[e] = NoClaims
<1> DEFINE t == DefaultState(m)
           alone == [e \in Machine |-> Absent]
           none == [e \in Machine |-> NoClaims]
           absent == [n \in RepoName |-> Absent]
           c == [version |-> 0, held |-> {}]
<1>1. t = [name |-> HostName[m], version |-> 0, peers |-> alone, repos |-> {},
           meshRepos |-> absent, claims |-> c, peerClaims |-> none]
    BY Zenon DEF DefaultState
<1>2. none \in ClaimMaps /\ c \in Claims BY VersionFacts DEF ClaimMaps, Claims
<1>3. absent \in [RepoName -> Slot(RepoId)] /\ alone \in [Machine -> Slot(Name)] BY DEF Slot
<1>4. HostName[m] \in Name BY DomainAssumption
<1>5. Cardinality(Keys(absent)) <= MAX_MESH_REPOS /\ Cardinality(Keys(alone)) <= MAX_OTHER_PEERS
    <2>1. Keys(absent) = {} /\ Keys(alone) = {} BY DEF Keys
    <2> QED BY <2>1, FS_EmptySet, CapAssumption DEF MAX_OTHER_PEERS
<1>6. ClaimCount(none) <= MAX_OTHER_WORKSPACES
    <2>1. \A x : ~(x \in ClaimSet(none)) BY <1>2, ClaimSetFacts DEF NoClaims
    <2>2. ClaimSet(none) = {} BY <2>1
    <2> HIDE DEF none
    <2>3. ClaimCount(none) = 0 BY <1>2, <2>2, ClaimSetFacts, FS_EmptySet
    <2> QED BY <2>3, CapAssumption DEF MAX_OTHER_WORKSPACES
<1>7. ValidClaims(c.held) BY FS_EmptySet, CapAssumption DEF ValidClaims
<1>8. c.held = {} /\ \A e \in Machine : none[e] = NoClaims OBVIOUS
<1> HIDE DEF t, alone, none, absent, c
<1>9. /\ t.peers = alone /\ t.repos = {} /\ t.meshRepos = absent /\ t.claims = c
      /\ t.peerClaims = none
    BY <1>1
<1>10. t \in MeshStates BY <1>1, <1>2, <1>3, <1>4, VersionFacts DEF MeshStates, ClaimMaps
<1>11. WithinCaps(t) BY <1>9, <1>5, <1>6, <1>7 DEF WithinCaps
<1>12. ReposListed(t) /\ ClaimsRegistered(t) /\ PeerClaimsAlive(t)
    BY <1>9, <1>8 DEF ReposListed, ClaimsRegistered, PeerClaimsAlive
<1> QED BY <1>8, <1>9, <1>10, <1>11, <1>12 DEF Sound, t

\* A founder's mesh.json.
LEMMA FoundingFacts ==
    ASSUME NEW m \in Machine
    PROVE  Sound(FoundingState(m))
<1>1. CASE m \notin Founders BY <1>1, DefaultFacts DEF FoundingState
<1>2. CASE m \in Founders
    <2> DEFINE others == [e \in Machine |-> IF e \in Founders \ {m}
                                            THEN [version |-> 1, value |-> HostName[e]]
                                            ELSE Absent]
    <2>1. 1 \in Versions BY MaxVersionAssumption DEF Versions
    <2>2. others \in [Machine -> Slot(Name)] BY <2>1, DomainAssumption DEF Slot, Record
    <2>3. Cardinality(Keys(others)) <= MAX_OTHER_PEERS
        <3>1. IsFiniteSet(Founders)
            <4>1. Founders \in SUBSET Machine BY FoundersAssumption
            <4> QED BY <4>1, DomainAssumption, FS_Subset
        <3>2. Keys(others) \in SUBSET (Founders \ {m}) BY DEF Keys
        <3> HIDE DEF others
        <3>3. /\ IsFiniteSet(Founders \ {m})
              /\ Cardinality(Founders \ {m}) = Cardinality(Founders) - 1
            BY <1>2, <3>1, FS_RemoveElement
        <3>4. Cardinality(Keys(others)) <= Cardinality(Founders \ {m}) /\ IsFiniteSet(Keys(others))
            BY <3>2, <3>3, FS_Subset
        <3>5. Cardinality(Keys(others)) \in Nat /\ Cardinality(Founders) \in Nat
            BY <3>1, <3>4, FS_CardinalityType
        <3> QED BY <3>3, <3>4, <3>5, FoundersAssumption, CapAssumption DEF MAX_OTHER_PEERS
    <2> DEFINE s == DefaultState(m)
               t == FoundingState(m)
    <2>4. t = [s EXCEPT !.version = 1, !.peers = others] BY <1>2 DEF FoundingState
    <2>5. Sound(s) /\ \A e \in Machine : s.peerClaims[e] = NoClaims BY DefaultFacts
    <2> HIDE DEF s, t, others
    <2>6. s \in MeshStates BY <2>5 DEF Sound
    <2>7. t \in MeshStates BY <2>1, <2>2, <2>4, <2>6 DEF MeshStates
    <2>8. /\ t.peers = others /\ t.repos = s.repos /\ t.meshRepos = s.meshRepos
          /\ t.claims = s.claims /\ t.peerClaims = s.peerClaims
        BY <2>4, <2>6 DEF MeshStates
    <2>9. Sound(t)
        BY <2>3, <2>5, <2>7, <2>8
        DEF Sound, ReposListed, ClaimsRegistered, RegisteredId, PeerClaimsAlive, WithinCaps
    <2> QED BY <2>9 DEF t
<1> QED BY <1>1, <1>2

-----------------------------------------------------------------------------
(***************************************************************************)
(* Steps                                                                   *)
(***************************************************************************)

\* What a step does to one machine's memory: it stays, moves forward, or is
\* lost with the state file.
NoRegress == \A m \in Machine : NotBehind(mem'[m], mem[m]) \/ mem'[m] = DefaultState(m)

\* Machine m takes or saves the state `next`.
Commits(m, next) ==
    \/ Update(m, next) /\ UNCHANGED faults
    \/ SaveFailsUnsynced(m, next)

\* Taking or saving a sound state that is not behind keeps every machine
\* sound and its file not behind, and nothing regresses.
LEMMA CommitsFacts ==
    ASSUME IInv, NEW m \in Machine, NEW next, Sound(next), NotBehind(next, mem[m]),
           Commits(m, next)
    PROVE  /\ mem' \in [Machine -> MeshStates] /\ disk' \in [Machine -> MeshStates]
           /\ \A a \in Machine : Sound(mem'[a]) /\ Sound(disk'[a])
           /\ DiskIsNotBehind'
           /\ faults' \in Nat
           /\ NoRegress
<1>1. mem \in [Machine -> MeshStates] /\ disk \in [Machine -> MeshStates] /\ faults \in Nat
    BY DEF IInv, TypeOK
<1>2. \A a \in Machine : Sound(mem[a]) /\ Sound(disk[a]) /\ NotBehind(disk[a], mem[a])
    BY DEF IInv, DiskIsNotBehind
<1>3. next \in MeshStates BY DEF Sound
<1>4. \A a \in Machine : NotBehind(mem[a], mem[a]) BY <1>1, NotBehindItself
<1>5. NotBehind(next, next) BY <1>3, NotBehindItself
<1>6. CASE Update(m, next) /\ UNCHANGED faults
    <2>1. mem' = [mem EXCEPT ![m] = next] /\ faults' = faults BY <1>6 DEF Update
    <2>2. CASE next = mem[m]
        <3>1. mem' = mem /\ disk' = disk BY <1>1, <1>6, <2>1, <2>2 DEF Update
        <3> QED BY <1>1, <1>2, <1>4, <2>1, <3>1 DEF DiskIsNotBehind, NoRegress
    <2>3. CASE next # mem[m]
        <3>1. disk' = [disk EXCEPT ![m] = next] BY <1>6, <2>3 DEF Update
        <3> QED BY <1>1, <1>2, <1>3, <1>4, <1>5, <2>1, <3>1 DEF DiskIsNotBehind, NoRegress
    <2> QED BY <2>2, <2>3
<1>7. CASE SaveFailsUnsynced(m, next)
    <2>1. mem' = mem /\ disk' = [disk EXCEPT ![m] = next] /\ faults' = faults + 1
        BY <1>7 DEF SaveFailsUnsynced
    <2> QED BY <1>1, <1>2, <1>3, <1>4, <2>1 DEF DiskIsNotBehind, NoRegress
<1> QED BY <1>6, <1>7 DEF Commits

\* A local change of machine m to a sound state that is not behind.
LEMMA ChangeFacts ==
    ASSUME IInv, NEW m \in Machine, NEW next, Sound(next), NotBehind(next, mem[m]),
           Change(m, next), issued' \subseteq RepoId
    PROVE  IInv' /\ NoRegress
<1>1. Commits(m, next) BY DEF Change, Commits
<1>2. changes' \in Nat /\ net' = net BY DEF Change, IInv, TypeOK
<1> QED BY <1>1, <1>2, CommitsFacts DEF IInv, TypeOK

\* Initial states satisfy the invariant.
LEMMA InitIInv == Init => IInv
<1> SUFFICES ASSUME Init PROVE IInv OBVIOUS
<1>1. \A m \in Machine : mem[m] = FoundingState(m) /\ disk[m] = FoundingState(m) BY DEF Init
<1>2. \A m \in Machine : Sound(mem[m]) /\ Sound(disk[m]) BY <1>1, FoundingFacts
<1>3. \A m \in Machine : FoundingState(m) \in MeshStates BY FoundingFacts DEF Sound
<1>4. mem \in [Machine -> MeshStates] /\ disk \in [Machine -> MeshStates] BY <1>3 DEF Init
<1>5. DiskIsNotBehind BY <1>1, <1>3, NotBehindItself DEF DiskIsNotBehind
<1> QED BY <1>2, <1>4, <1>5 DEF IInv, TypeOK, Init

\* Every step keeps the invariant and takes no machine back.
LEMMA NextIInv == IInv /\ [Next]_vars => IInv' /\ NoRegress
<1> SUFFICES ASSUME IInv, [Next]_vars PROVE IInv' /\ NoRegress OBVIOUS
<1>1. /\ mem \in [Machine -> MeshStates] /\ disk \in [Machine -> MeshStates]
      /\ net \subseteq Messages /\ issued \subseteq RepoId
      /\ changes \in Nat /\ faults \in Nat
    BY DEF IInv, TypeOK
<1>2. \A m \in Machine : Sound(mem[m]) /\ Sound(disk[m]) /\ NotBehind(disk[m], mem[m])
    BY DEF IInv, DiskIsNotBehind
<1>3. \A m \in Machine : NotBehind(mem[m], mem[m]) BY <1>1, NotBehindItself
<1>4. ASSUME NEW m \in Machine, NEW n \in Name, Rename(m, n) PROVE IInv' /\ NoRegress
    <2>1. Sound(RenameMachine(mem[m], n)) /\ NotBehind(RenameMachine(mem[m], n), mem[m])
        BY <1>2, <1>4, RenameFacts DEF Rename
    <2> QED BY <1>1, <1>4, <2>1, ChangeFacts DEF Rename
<1>5. ASSUME NEW m \in Machine, NEW e \in Machine, AddPairedPeer(m, e) PROVE IInv' /\ NoRegress
    <2> DEFINE n == mem[e].name
    <2>1. n \in Name BY <1>1, StateFields
    <2>2. CanAddPeer(mem[m], e) /\ Change(m, AddPeer(mem[m], e, n)) /\ issued' = issued
        BY <1>5 DEF AddPairedPeer
    <2> HIDE DEF n
    <2>3. Sound(AddPeer(mem[m], e, n)) /\ NotBehind(AddPeer(mem[m], e, n), mem[m])
        BY <1>2, <2>1, <2>2, AddPeerFacts
    <2> QED BY <1>1, <2>2, <2>3, ChangeFacts
<1>6. ASSUME NEW m \in Machine, NEW e \in Machine, RemovePairedPeer(m, e) PROVE IInv' /\ NoRegress
    <2>1. Sound(RemovePeer(mem[m], e)) /\ NotBehind(RemovePeer(mem[m], e), mem[m])
        BY <1>2, <1>6, RemovePeerFacts DEF RemovePairedPeer
    <2> QED BY <1>1, <1>6, <2>1, ChangeFacts DEF RemovePairedPeer
<1>7. ASSUME NEW m \in Machine, NEW r \in Repo, RegisterRepo(m, r) PROVE IInv' /\ NoRegress
    <2>1. Sound(AddRepo(mem[m], r)) /\ NotBehind(AddRepo(mem[m], r), mem[m])
        BY <1>2, <1>7, AddRepoFacts DEF RegisterRepo
    <2>2. issued' \subseteq RepoId BY <1>1, <1>7 DEF RegisterRepo, Repo
    <2> QED BY <1>7, <2>1, <2>2, ChangeFacts DEF RegisterRepo
<1>8. ASSUME NEW m \in Machine, NEW n \in RepoName, RetireRepo(m, n) PROVE IInv' /\ NoRegress
    <2>1. Sound(RemoveRepo(mem[m], n)) /\ NotBehind(RemoveRepo(mem[m], n), mem[m])
        BY <1>2, <1>8, RemoveRepoFacts DEF RetireRepo
    <2> QED BY <1>1, <1>8, <2>1, ChangeFacts DEF RetireRepo
<1>9. ASSUME NEW m \in Machine, NEW n \in RepoName, UnregisterRepo(m, n) PROVE IInv' /\ NoRegress
    <2>1. Sound(ForgetRepo(mem[m], n)) /\ NotBehind(ForgetRepo(mem[m], n), mem[m])
        BY <1>2, ForgetFacts
    <2> QED BY <1>1, <1>9, <2>1, ChangeFacts DEF UnregisterRepo
<1>10. ASSUME NEW m \in Machine, NEW id \in RepoId, NEW names \in SUBSET Workspace,
              ClaimWorkspaces(m, id, names)
       PROVE  IInv' /\ NoRegress
    <2> DEFINE next == [mem[m] EXCEPT !.claims = SetClaims(mem[m].claims, id, names)]
    <2>1. Sound(next) /\ NotBehind(next, mem[m])
        BY <1>2, <1>10, ClaimFacts DEF ClaimWorkspaces
    <2>2. Change(m, next) /\ issued' = issued BY <1>10 DEF ClaimWorkspaces
    <2> HIDE DEF next
    <2> QED BY <1>1, <2>1, <2>2, ChangeFacts
<1>11. ASSUME NEW a \in Machine, NEW b \in Machine, Gossip(a, b) PROVE IInv' /\ NoRegress
    <2> DEFINE msg == [from |-> a, to |-> b, body |-> Membership(mem[a], a)]
    <2>1. Membership(mem[a], a) \in Memberships BY <1>1, MembershipType
    <2>2. msg \in Messages BY <2>1 DEF Messages
    <2>3. net' = net \cup {msg} /\ UNCHANGED <<mem, disk, issued, changes, faults>>
        BY <1>11 DEF Gossip
    <2> HIDE DEF msg
    <2> QED BY <1>1, <1>2, <1>3, <2>2, <2>3 DEF IInv, TypeOK, DiskIsNotBehind, NoRegress
<1>12. ASSUME NEW msg \in net, Deliver(msg) PROVE IInv' /\ NoRegress
    <2> DEFINE m == msg.to
    <2>1. m \in Machine /\ msg.body \in Memberships BY <1>1 DEF Messages
    <2>2. net' \subseteq Messages /\ UNCHANGED <<issued, changes>> /\ Receive(m, msg.body)
        BY <1>1, <1>12 DEF Deliver
    <2> HIDE DEF m
    <2>3. CASE WithinWireLimits(msg.body)
        <3>1. PICK next \in MergeMembership(mem[m], msg.body, m) : Commits(m, next)
            BY <2>2, <2>3 DEF Receive, Commits
        <3>2. Sound(next) /\ NotBehind(next, mem[m]) BY <1>2, <2>1, <3>1, MergeFacts
        <3> QED BY <1>1, <2>1, <2>2, <3>1, <3>2, CommitsFacts DEF IInv, TypeOK
    <2>4. CASE ~WithinWireLimits(msg.body)
        <3>1. UNCHANGED <<mem, disk, faults>> BY <2>2, <2>4 DEF Receive
        <3> QED BY <1>1, <1>2, <1>3, <2>2, <3>1 DEF IInv, TypeOK, DiskIsNotBehind, NoRegress
    <2> QED BY <2>3, <2>4
<1>13. ASSUME NEW a \in Machine, NEW b \in Machine, Exchange(a, b) PROVE IInv' /\ NoRegress
    <2>1. Membership(mem[a], a) \in Memberships BY <1>1, MembershipType
    <2>2. PICK next \in MergeMembership(mem[b], Membership(mem[a], a), b) : Update(b, next)
        BY <1>13 DEF Exchange
    <2>3. UNCHANGED <<net, issued, changes, faults>> BY <1>13 DEF Exchange
    <2>4. Sound(next) /\ NotBehind(next, mem[b]) BY <1>2, <2>1, <2>2, MergeFacts
    <2>5. Commits(b, next) BY <2>2, <2>3 DEF Commits
    <2> QED BY <1>1, <2>3, <2>4, <2>5, CommitsFacts DEF IInv, TypeOK
<1>14. ASSUME NEW msg \in net, Lose(msg) PROVE IInv' /\ NoRegress
    BY <1>1, <1>2, <1>3, <1>14 DEF Lose, IInv, TypeOK, DiskIsNotBehind, NoRegress
<1>15. ASSUME NEW m \in Machine, Restart(m) PROVE IInv' /\ NoRegress
    <2>1. mem' = [mem EXCEPT ![m] = disk[m]] /\ UNCHANGED <<disk, net, issued, changes, faults>>
        BY <1>15 DEF Restart
    <2>2. NotBehind(disk[m], disk[m]) BY <1>1, NotBehindItself
    <2> QED BY <1>1, <1>2, <1>3, <2>1, <2>2 DEF IInv, TypeOK, DiskIsNotBehind, NoRegress
<1>16. ASSUME NEW m \in Machine, LoseState(m) PROVE IInv' /\ NoRegress
    <2> DEFINE d == DefaultState(m)
    <2>1. /\ mem' = [mem EXCEPT ![m] = d] /\ disk' = [disk EXCEPT ![m] = d]
          /\ faults' = faults + 1 /\ UNCHANGED <<net, issued, changes>>
        BY <1>16 DEF LoseState
    <2>2. Sound(d) BY DefaultFacts
    <2>3. d \in MeshStates BY <2>2 DEF Sound
    <2>4. NotBehind(d, d) BY <2>3, NotBehindItself
    <2>5. \A a \in Machine : NotBehind(mem'[a], mem[a]) \/ mem'[a] = DefaultState(a)
        BY <1>1, <1>3, <2>1
    <2> HIDE DEF d
    <2> QED BY <1>1, <1>2, <2>1, <2>2, <2>3, <2>4, <2>5
            DEF IInv, TypeOK, DiskIsNotBehind, NoRegress
<1>17. CASE UNCHANGED vars
    BY <1>1, <1>2, <1>3, <1>17 DEF vars, IInv, TypeOK, DiskIsNotBehind, NoRegress
<1> QED
    BY <1>4, <1>5, <1>6, <1>7, <1>8, <1>9, <1>10, <1>11, <1>12, <1>13, <1>14, <1>15, <1>16, <1>17
    DEF Next, LocalChange

-----------------------------------------------------------------------------
(***************************************************************************)
(* Theorems                                                                *)
(***************************************************************************)

\* IInv is an invariant: every machine's state, in memory and on disk, is
\* sound, and its file is never behind its memory.
THEOREM Invariant == Spec => []IInv
BY InitIInv, NextIInv, PTL DEF Spec

\* Type correctness: in particular no version reaches MAX_RECORD_VERSION,
\* however often next_version bumps and however many copies observe moves
\* past.
THEOREM TypeCorrect == Spec => []TypeOK
<1>1. IInv => TypeOK BY DEF IInv
<1> QED BY <1>1, Invariant, PTL

\* A repo registered on a machine is in use in its list of mesh repos:
\* remove_repo and merge_membership unregister what they tombstone.
THEOREM RegisteredListed == Spec => []RegisteredReposAreListed
<1>1. IInv => RegisteredReposAreListed BY DEF IInv, Sound, RegisteredReposAreListed
<1> QED BY <1>1, Invariant, PTL

\* A machine's claims are on repos registered there: unregister_repo
\* releases them and the claim loop skips unregistered repos.
THEOREM ClaimsOnRegistered == Spec => []ClaimsAreOnRegisteredRepos
<1>1. IInv => ClaimsAreOnRegisteredRepos BY DEF IInv, Sound, ClaimsAreOnRegisteredRepos
<1> QED BY <1>1, Invariant, PTL

\* The claims kept for other machines are of alive ones: remove_peer and
\* merge_membership prune the others.
THEOREM PeerClaimsOfAlive == Spec => []PeerClaimsAreOfAlivePeers
<1>1. IInv => PeerClaimsAreOfAlivePeers BY DEF IInv, Sound, PeerClaimsAreOfAlivePeers
<1> QED BY <1>1, Invariant, PTL

\* mesh.json is never behind memory: update saves before it commits.
THEOREM DiskNotBehind == Spec => []DiskIsNotBehind
<1>1. IInv => DiskIsNotBehind BY DEF IInv
<1> QED BY <1>1, Invariant, PTL

\* No step, a merge of a stale snapshot or a restart included, takes a
\* machine's records back.
THEOREM NeverRegress == Spec => RecordsNeverRegress
<1>1. IInv /\ [Next]_vars
        => [\A m \in Machine : NotBehind(mem'[m], mem[m]) \/ mem'[m] = DefaultState(m)]_vars
    BY NextIInv DEF NoRegress
<1> QED BY <1>1, Invariant, PTL DEF Spec, RecordsNeverRegress

\* A sound state gossips a membership within the limits of recv_uni: the
\* caps leave room for the machine's own record and claims.
LEMMA SoundIsDecodable ==
    ASSUME NEW s, Sound(s), NEW m \in Machine
    PROVE  WithinWireLimits(Membership(s, m))
<1> DEFINE msg == Membership(s, m)
           peers == [s.peers EXCEPT ![m] = [version |-> s.version, value |-> s.name]]
           claims == [s.peerClaims EXCEPT ![m] = s.claims]
           claimants == {e \in Machine : claims[e] # NoClaims}
<1>1. s \in MeshStates /\ PeerClaimsAlive(s) BY DEF Sound
<1>2. /\ Cardinality(Keys(s.peers)) <= MAX_OTHER_PEERS
      /\ Cardinality(Keys(s.meshRepos)) <= MAX_MESH_REPOS
      /\ Cardinality(s.claims.held) <= MAX_MACHINE_WORKSPACES
      /\ ClaimCount(s.peerClaims) <= MAX_OTHER_WORKSPACES
    BY DEF Sound, WithinCaps, ValidClaims
<1>3. msg.peers = peers /\ msg.repos = s.meshRepos /\ msg.claims = claims BY DEF Membership
<1>4. /\ s.peers \in [Machine -> Slot(Name)] /\ s.peerClaims \in ClaimMaps
      /\ s.claims \in Claims /\ IsFiniteSet(s.claims.held)
    BY <1>1, StateFields
<1>5. /\ IsFiniteSet(Keys(s.peers) \cup {m})
      /\ Cardinality(Keys(s.peers) \cup {m}) <= MAX_MESH_PEERS
      /\ Cardinality(Keys(s.peers) \cup {m}) \in Nat
    <2>1. IsFiniteSet(Keys(s.peers))
        <3>1. Keys(s.peers) \in SUBSET Machine BY <1>4 DEF Keys
        <3> QED BY <3>1, DomainAssumption, FS_Subset
    <2>2. /\ IsFiniteSet(Keys(s.peers) \cup {m})
          /\ Cardinality(Keys(s.peers) \cup {m}) = IF m \in Keys(s.peers)
                                                   THEN Cardinality(Keys(s.peers))
                                                   ELSE Cardinality(Keys(s.peers)) + 1
        BY <2>1, FS_AddElement
    <2>3. Cardinality(Keys(s.peers)) \in Nat BY <2>1, FS_CardinalityType
    <2>4. Cardinality(Keys(s.peers) \cup {m}) \in Nat BY <2>2, FS_CardinalityType
    <2> QED BY <1>2, <2>2, <2>3, <2>4, CapAssumption DEF MAX_OTHER_PEERS
<1>6. Cardinality(Keys(peers)) <= MAX_MESH_PEERS
    <2>1. Keys(peers) \in SUBSET (Keys(s.peers) \cup {m}) BY <1>4 DEF Keys
    <2> HIDE DEF peers
    <2>2. Cardinality(Keys(peers)) <= Cardinality(Keys(s.peers) \cup {m}) /\ IsFiniteSet(Keys(peers))
        BY <1>5, <2>1, FS_Subset
    <2>3. Cardinality(Keys(peers)) \in Nat BY <2>2, FS_CardinalityType
    <2> QED BY <1>5, <2>2, <2>3, CapAssumption
<1>7. Cardinality(claimants) <= MAX_MESH_PEERS
    <2>1. \A e \in claimants : e \in Keys(s.peers) \cup {m}
        <3> TAKE e \in claimants
        <3>1. CASE e = m BY <3>1
        <3>2. CASE e # m
            <4>1. s.peerClaims[e] # NoClaims BY <3>2, <1>4 DEF ClaimMaps
            <4>2. s.peers[e] # Absent BY <1>1, <4>1 DEF PeerClaimsAlive, Live
            <4> QED BY <4>2, <1>4 DEF Keys
        <3> QED BY <3>1, <3>2
    <2>2. claimants \in SUBSET (Keys(s.peers) \cup {m}) BY <2>1
    <2> HIDE DEF claimants
    <2>3. Cardinality(claimants) <= Cardinality(Keys(s.peers) \cup {m}) /\ IsFiniteSet(claimants)
        BY <1>5, <2>2, FS_Subset
    <2>4. Cardinality(claimants) \in Nat BY <2>3, FS_CardinalityType
    <2> QED BY <1>5, <2>3, <2>4, CapAssumption
<1>8. ClaimCount(claims) <= MAX_MESH_WORKSPACES
    <2> DEFINE own == {m} \X s.claims.held
               other == ClaimSet(s.peerClaims)
    <2>1. claims \in ClaimMaps BY <1>4 DEF ClaimMaps
    <2>2. ClaimSet(claims) \in SUBSET (own \cup other)
        <3>0. \A x \in ClaimSet(claims) :
                  \E e \in Machine : \E p \in claims[e].held : x = <<e, p>>
            <4> HIDE DEF claims
            <4> QED BY <2>1, ClaimSetFacts
        <3> SUFFICES ASSUME NEW x \in ClaimSet(claims) PROVE x \in own \cup other OBVIOUS
        <3>1. PICK e \in Machine : \E p \in claims[e].held : x = <<e, p>> BY <3>0
        <3>2. CASE e = m BY <3>1, <3>2, <1>4 DEF ClaimMaps
        <3>3. CASE e # m
            <4>1. claims[e] = s.peerClaims[e] BY <3>3, <1>4 DEF ClaimMaps
            <4>2. x \in other BY <3>1, <4>1, <1>4, ClaimSetFacts
            <4> QED BY <4>2
        <3> QED BY <3>2, <3>3
    <2>3. IsFiniteSet(own) /\ Cardinality(own) = Cardinality(s.claims.held)
          /\ Cardinality(own) \in Nat
        <3>1. IsFiniteSet({m}) /\ Cardinality({m}) = 1 BY FS_Singleton
        <3>2. IsFiniteSet(own) /\ Cardinality(own) = Cardinality({m}) * Cardinality(s.claims.held)
            BY <1>4, <3>1, FS_Product
        <3>3. Cardinality(s.claims.held) \in Nat BY <1>4, FS_CardinalityType
        <3> HIDE DEF own
        <3> QED BY <3>1, <3>2, <3>3
    <2>4. /\ IsFiniteSet(other) /\ Cardinality(other) = ClaimCount(s.peerClaims)
          /\ Cardinality(other) \in Nat
        BY <1>4, ClaimSetFacts
    <2> HIDE DEF own, other, claims
    <2>5. /\ IsFiniteSet(own \cup other)
          /\ Cardinality(own \cup other)
                = Cardinality(own) + Cardinality(other) - Cardinality(own \cap other)
        BY <2>3, <2>4, FS_Union
    <2>6. Cardinality(own \cap other) \in Nat
        <3>1. IsFiniteSet(own \cap other) BY <2>3, FS_Intersection
        <3> QED BY <3>1, FS_CardinalityType
    <2>7. Cardinality(ClaimSet(claims)) <= Cardinality(own \cup other)
        BY <2>2, <2>5, FS_Subset
    <2>8. ClaimCount(claims) = Cardinality(ClaimSet(claims)) /\ ClaimCount(claims) \in Nat
        BY <2>1, ClaimSetFacts
    <2> QED BY <1>2, <2>3, <2>4, <2>5, <2>6, <2>7, <2>8, CapAssumption DEF MAX_OTHER_WORKSPACES
<1> HIDE DEF msg, peers, claims
<1> QED BY <1>2, <1>3, <1>6, <1>7, <1>8 DEF WithinWireLimits, msg

\* However its state grew, what a machine gossips can be received.
THEOREM Decodable == Spec => []MembershipIsDecodable
<1>1. IInv => MembershipIsDecodable
    BY SoundIsDecodable DEF IInv, MembershipIsDecodable
<1> QED BY <1>1, Invariant, PTL

-----------------------------------------------------------------------------
(***************************************************************************)
(* Merging twice.  The cap on the mesh's claims may turn a claim down in   *)
(* one merge and, once another has shrunk in that merge, not in the next;  *)
(* the caps on peers and repos only fill up.                               *)
(***************************************************************************)

\* The claims of all machines fit the mesh's cap (16 machines in the code).
ClaimsFit == Cardinality(Machine) * MAX_MACHINE_WORKSPACES <= MAX_MESH_WORKSPACES

\* What m keeps as others' claims are claims each of them may make, and none
\* of its own.
OthersValid(s, m) ==
    /\ s.peerClaims[m] = NoClaims
    /\ \A e \in Machine : ValidClaims(s.peerClaims[e].held)

\* A finite set of at most n elements can be numbered up to n.
LEMMA Numbering ==
    ASSUME NEW S, IsFiniteSet(S), NEW n \in Nat, Cardinality(S) <= n
    PROVE  \E g \in [S -> 1 .. n] : \A x, y \in S : g[x] = g[y] => x = y
<1> DEFINE k == Cardinality(S)
<1>1. k \in Nat /\ ExistsBijection(1 .. k, S) BY FS_CardinalityType
<1>2. ExistsBijection(S, 1 .. k) BY <1>1, Fun_ExistsBijSymmetric
<1> HIDE DEF k
<1>3. PICK g : g \in Bijection(S, 1 .. k) BY <1>2 DEF ExistsBijection
<1>4. g \in [S -> 1 .. k] /\ \A x, y \in S : g[x] = g[y] => x = y
    BY <1>3, Fun_BijectionProperties
<1>5. 1 .. k \subseteq 1 .. n BY <1>1 DEF k
<1>6. g \in [S -> 1 .. n] BY <1>4, <1>5
<1> QED BY <1>4, <1>6

\* Where the claims of all machines fit, those of the others fit besides.
LEMMA FittingClaims ==
    ASSUME ClaimsFit, NEW claims \in ClaimMaps, NEW m \in Machine, claims[m].held = {},
           \A e \in Machine : ValidClaims(claims[e].held)
    PROVE  ClaimCount(claims) <= MAX_OTHER_WORKSPACES
<1> DEFINE k == MAX_MACHINE_WORKSPACES
           Numbers(e) == {g \in [claims[e].held -> 1 .. k] :
                              \A x, y \in claims[e].held : g[x] = g[y] => x = y}
           number == [e \in Machine |-> CHOOSE g : g \in Numbers(e)]
           S == ClaimSet(claims)
           T == (Machine \ {m}) \X (1 .. k)
           f == [x \in S |-> <<x[1], number[x[1]][x[2]]>>]
<1>1. k \in Nat BY CapAssumption
<1>2. \A e \in Machine : number[e] \in Numbers(e)
    <2> TAKE e \in Machine
    <2>1. IsFiniteSet(claims[e].held) BY HeldFacts DEF ClaimMaps
    <2>2. Cardinality(claims[e].held) <= k BY DEF ValidClaims
    <2>3. \E g : g \in Numbers(e) BY <1>1, <2>1, <2>2, Numbering
    <2> HIDE DEF Numbers
    <2> QED BY <2>3
<1> HIDE DEF number
<1>3. \A e \in Machine :
          /\ number[e] \in [claims[e].held -> 1 .. k]
          /\ \A x, y \in claims[e].held : number[e][x] = number[e][y] => x = y
    BY <1>2
<1>4. \A x \in S : \E e \in Machine : \E p \in claims[e].held : x = <<e, p>>
    BY ClaimSetFacts
<1>5. \A x \in S : x[1] \in Machine \ {m} /\ x[2] \in claims[x[1]].held /\ x = <<x[1], x[2]>>
    <2> TAKE x \in S
    <2>1. PICK e \in Machine : \E p \in claims[e].held : x = <<e, p>> BY <1>4
    <2>2. PICK p \in claims[e].held : x = <<e, p>> BY <2>1
    <2>3. e # m BY <2>2
    <2> QED BY <2>2, <2>3
<1> HIDE DEF S
<1>6. f \in [S -> T] BY <1>3, <1>5
<1>7. \A x, y \in S : f[x] = f[y] => x = y
    <2> SUFFICES ASSUME NEW x \in S, NEW y \in S, f[x] = f[y] PROVE x = y OBVIOUS
    <2>1. x[1] = y[1] /\ number[x[1]][x[2]] = number[y[1]][y[2]] OBVIOUS
    <2>2. x[2] = y[2] BY <1>3, <1>5, <2>1
    <2> QED BY <1>5, <2>1, <2>2
<1> HIDE DEF f
<1>8. f \in Injection(S, T) BY <1>6, <1>7 DEF Injection, IsInjective
<1>9. IsFiniteSet(T) /\ Cardinality(T) = (Cardinality(Machine) - 1) * k
    <2>1. IsFiniteSet(Machine \ {m}) /\ Cardinality(Machine \ {m}) = Cardinality(Machine) - 1
        BY DomainAssumption, FS_RemoveElement
    <2>2. IsFiniteSet(1 .. k) /\ Cardinality(1 .. k) = k BY <1>1, FS_Interval
    <2> DEFINE M == Machine \ {m}
               N == 1 .. k
    <2>3. IsFiniteSet(M) /\ IsFiniteSet(N) BY <2>1, <2>2
    <2>4. T = M \X N OBVIOUS
    <2> HIDE DEF M, N, T
    <2>5. IsFiniteSet(T) /\ Cardinality(T) = Cardinality(M) * Cardinality(N)
        BY <2>3, <2>4, FS_Product
    <2> QED BY <2>1, <2>2, <2>5 DEF M, N
<1> HIDE DEF T
<1>10. Cardinality(S) <= Cardinality(T) BY <1>8, <1>9, FS_Injection
<1>11. Cardinality(Machine) \in Nat BY DomainAssumption, FS_CardinalityType
<1>12. (Cardinality(Machine) - 1) * k = Cardinality(Machine) * k - k
    BY <1>1, <1>11
<1>13. Cardinality(Machine) * k \in Nat BY <1>1, <1>11
<1>14. ClaimCount(claims) = Cardinality(S) /\ ClaimCount(claims) \in Nat
    BY ClaimSetFacts DEF S
<1> QED BY <1>1, <1>9, <1>10, <1>12, <1>13, <1>14, CapAssumption
        DEF ClaimsFit, MAX_OTHER_WORKSPACES

\* Observing a copy again leaves the version.
LEMMA ObserveTwice ==
    ASSUME NEW v \in Versions, NEW c \in Versions, NEW b \in BOOLEAN
    PROVE  Observe(Observe(v, c, b), c, b) = Observe(v, c, b)
BY MaxVersionAssumption DEF Observe, Versions

\* A merge loop adopts nothing from what it has merged: no offer outranks
\* itself, and what the cap turned down it turns down again.
LEMMA AdoptTwice ==
    ASSUME NEW K, IsFiniteSet(K), NEW V \in SUBSET (Nat \ {0}),
           NEW held \in [K -> Slot(V)], NEW offered \in [K -> Slot(V)],
           NEW cap \in Nat, Cardinality(Keys(held)) <= cap,
           NEW A \in Adoptions(held, offered, cap)
    PROVE  LET next == Adopt(A, held, offered)
           IN  Adoptions(next, offered, cap) = {{}} /\ Adopt({}, next, offered) = next
<1> DEFINE next == Adopt(A, held, offered)
           known == {k \in Mergeable(offered) : held[k] # Absent}
           new == Mergeable(offered) \ known
           room == cap - Cardinality(Keys(held))
           known2 == {k \in Mergeable(offered) : next[k] # Absent}
           better2 == {k \in known2 : Outranks(offered[k], next[k])}
           new2 == Mergeable(offered) \ known2
           room2 == cap - Cardinality(Keys(next))
<1>1. Mergeable(offered) \in SUBSET K /\ \A k \in Mergeable(offered) : offered[k] # Absent
    BY DEF Mergeable
<1>2. PICK B \in SUBSET new :
          /\ A = {k \in known : Outranks(offered[k], held[k])} \cup B
          /\ Fills(B, new, room)
    BY DEF Adoptions
<1>3. A \subseteq Mergeable(offered) /\ A \cap new = B BY <1>2
<1>4. next \in [K -> Slot(V)] /\ Cardinality(Keys(next)) <= cap
    BY AdoptFacts
<1>5. \A k \in K : next[k] = IF k \in A THEN offered[k] ELSE held[k]
    BY DEF Adopt
<1> HIDE DEF next
<1>6. better2 = {}
    <2> SUFFICES ASSUME NEW k \in Mergeable(offered), next[k] # Absent,
                        Outranks(offered[k], next[k])
                 PROVE  FALSE
        OBVIOUS
    <2>1. offered[k] \in Slot(V) /\ offered[k].version \in Int BY <1>1, SlotFacts
    <2>2. CASE k \in A
        <3>1. Outranks(offered[k], offered[k]) BY <1>1, <1>5, <2>2
        <3>2. offered[k].value \in Nat
            <4>1. offered[k].value \in V \cup {Removed} BY <1>1, <2>1 DEF Slot, Record
            <4>2. V \cup {Removed} \subseteq Nat BY DEF Removed
            <4> QED BY <4>1, <4>2
        <3> QED BY <2>1, <3>1, <3>2 DEF Outranks
    <2>3. CASE k \notin A
        <3>1. k \in known /\ Outranks(offered[k], held[k]) BY <1>1, <1>5, <2>3
        <3> QED BY <1>2, <2>3, <3>1
    <2> QED BY <2>2, <2>3
<1>7. new2 = new \ B
    <2>1. \A k \in Mergeable(offered) : k \in known2 <=> k \in known \/ k \in A
        BY <1>1, <1>5
    <2> QED BY <1>2, <2>1
<1>8. Keys(next) = Keys(held) \cup B
    <2>1. \A k \in K : k \in Keys(next) <=> next[k] # Absent BY <1>4 DEF Keys
    <2>2. \A k \in K : k \in Keys(held) <=> held[k] # Absent BY DEF Keys
    <2>3. Keys(next) \subseteq K /\ Keys(held) \subseteq K /\ B \subseteq K
        BY <1>1, <1>2, <1>4 DEF Keys
    <2>4. \A k \in A : held[k] # Absent \/ k \in B BY <1>2
    <2>5. \A k \in B : k \in A BY <1>2
    <2> QED BY <1>1, <1>3, <1>5, <2>1, <2>2, <2>3, <2>4, <2>5
<1>9. /\ IsFiniteSet(Keys(held)) /\ IsFiniteSet(B) /\ Keys(held) \cap B = {}
      /\ Cardinality(Keys(held)) \in Nat /\ Cardinality(B) \in Nat
    <2>1. Keys(held) \in SUBSET K BY DEF Keys
    <2>2. B \in SUBSET K BY <1>1
    <2>3. Keys(held) \cap B = {} BY DEF Keys
    <2>4. IsFiniteSet(Keys(held)) /\ IsFiniteSet(B) BY <2>1, <2>2, FS_Subset
    <2> QED BY <2>3, <2>4, FS_CardinalityType
<1>10. Cardinality(Keys(next)) = Cardinality(Keys(held)) + Cardinality(B)
    <2>1. Cardinality(Keys(held) \cap B) = 0 BY <1>9, FS_EmptySet
    <2> DEFINE H == Keys(held)
    <2>2. IsFiniteSet(H) /\ IsFiniteSet(B) BY <1>9
    <2> HIDE DEF H
    <2>3. Cardinality(H \cup B) = Cardinality(H) + Cardinality(B) - Cardinality(H \cap B)
        BY <2>2, FS_Union
    <2> QED BY <1>8, <1>9, <2>1, <2>3 DEF H
<1>11. new2 # {} => room2 = 0
    <2>1. new2 # {} => Cardinality(B) = room BY <1>2, <1>7 DEF Fills
    <2> QED BY <1>9, <1>10, <2>1
<1>12. room2 \in Nat BY <1>4, <1>9, <1>10
<1>13. Fills({}, new2, room2)
    BY <1>11, <1>12, FS_EmptySet DEF Fills
<1>14. ASSUME NEW B2 \in SUBSET new2, Fills(B2, new2, room2)
       PROVE  B2 = {}
    <2>1. CASE new2 = {} BY <2>1
    <2>2. CASE new2 # {}
        <3>1. Cardinality(B2) <= 0 BY <1>11, <1>14, <2>2 DEF Fills
        <3>2. B2 \in SUBSET K BY <1>1
        <3>3. IsFiniteSet(B2) BY <3>2, FS_Subset
        <3>4. Cardinality(B2) \in Nat BY <3>3, FS_CardinalityType
        <3> QED BY <3>1, <3>3, <3>4, FS_EmptySet
    <2> QED BY <2>1, <2>2
<1>15. Adoptions(next, offered, cap)
          = {better2 \cup B2 : B2 \in {B2 \in SUBSET new2 : Fills(B2, new2, room2)}}
    BY DEF Adoptions
<1> HIDE DEF better2, new2, room2
<1>16. Adoptions(next, offered, cap) = {{}}
    <2>1. {B2 \in SUBSET new2 : Fills(B2, new2, room2)} = {{}} BY <1>13, <1>14
    <2> QED BY <1>6, <1>15, <2>1
<1>17. Adopt({}, next, offered) = next BY <1>4 DEF Adopt
<1> QED BY <1>16, <1>17 DEF next

\* Unregistering nothing.
LEMMA UnregisterNothing ==
    ASSUME NEW s \in MeshStates
    PROVE  Unregister(s, {}) = s
<1> DEFINE claimed == {n \in {} : \E r \in s.repos :
                                    r.name = n /\ Names(s.claims.held, r.id) # {}}
           room == MAX_RECORD_VERSION - 1 - s.claims.version
           released == {n \in claimed : Cardinality({k \in claimed : k <= n}) <= room}
           bumps == IF Cardinality(claimed) < room THEN Cardinality(claimed) ELSE room
           c == [version |-> s.claims.version + bumps,
                 held |-> {p \in s.claims.held :
                               ~ \E r \in s.repos : r.name \in released /\ r.id = p[1]}]
           repos == {r \in s.repos : r.name \notin {}}
<1>1. Unregister(s, {}) = [s EXCEPT !.repos = repos, !.claims = c] BY DEF Unregister
<1>2. repos = s.repos OBVIOUS
<1>3. s.claims \in Claims /\ s.claims.version \in Versions BY StateFields
<1>4. room \in Nat BY <1>3, MaxVersionAssumption DEF Versions
<1>5. claimed = {} OBVIOUS
<1> HIDE DEF claimed, room
<1>6. bumps = 0 BY <1>4, <1>5, FS_EmptySet
<1>7. released = {} BY <1>5
<1> HIDE DEF bumps, released
<1>8. c = s.claims
    <2>1. s.claims.version + bumps = s.claims.version
        <3>1. s.claims.version \in Nat BY <1>3, VersionFacts
        <3> QED BY <1>6, <3>1
    <2>2. s.claims = [version |-> s.claims.version, held |-> s.claims.held] BY <1>3 DEF Claims
    <2>3. {p \in s.claims.held : ~ \E r \in s.repos : r.name \in released /\ r.id = p[1]}
              = s.claims.held
        BY <1>7
    <2> QED BY <2>1, <2>2, <2>3
<1> HIDE DEF c, repos
<1> QED BY <1>1, <1>2, <1>8 DEF MeshStates

\* What merging the records leaves in each field.
LEMMA MergedFields ==
    ASSUME NEW s \in MeshStates, NEW msg, NEW m, NEW P, NEW R
    PROVE  LET copy == msg.peers[m]
               u == MergeRepos(MergePeers(s, msg, m, P), msg, R)
           IN  /\ u.name = s.name
               /\ u.version = IF m \in Mergeable(msg.peers)
                              THEN Observe(s.version, copy.version,
                                           Live(copy) /\ copy.value # s.name)
                              ELSE s.version
               /\ u.peers = Adopt(P, s.peers, OfferedPeers(msg, m))
               /\ u.meshRepos = Adopt(R, s.meshRepos, msg.repos)
               /\ u.peerClaims = s.peerClaims
<1> DEFINE copy == msg.peers[m]
           v == IF m \in Mergeable(msg.peers)
                THEN Observe(s.version, copy.version, Live(copy) /\ copy.value # s.name)
                ELSE s.version
           peers == Adopt(P, s.peers, OfferedPeers(msg, m))
           listed == Adopt(R, s.meshRepos, msg.repos)
           a == MergePeers(s, msg, m, P)
           b == Unregister(a, {n \in R : msg.repos[n].value = Removed})
           u == MergeRepos(a, msg, R)
<1>1. a = [s EXCEPT !.peers = peers, !.version = v] BY DEF MergePeers
<1>2. \E x, y : b = [a EXCEPT !.repos = x, !.claims = y] BY DEF Unregister
<1>3. u = [b EXCEPT !.meshRepos = Adopt(R, a.meshRepos, msg.repos)] BY DEF MergeRepos
<1> HIDE DEF v, peers, a, b, u
<1>4. a.meshRepos = s.meshRepos BY <1>1 DEF MeshStates
<1>5. u = [b EXCEPT !.meshRepos = listed] BY <1>3, <1>4
<1> HIDE DEF listed
<1>6. PICK x, y : b = [a EXCEPT !.repos = x, !.claims = y] BY <1>2
<1>7. /\ u.name = s.name /\ u.version = v /\ u.peers = peers /\ u.meshRepos = listed
      /\ u.peerClaims = s.peerClaims
    BY <1>1, <1>5, <1>6 DEF MeshStates
<1> QED BY <1>7 DEF v, peers, listed, a, u

\* Merging the records a second time adopts nothing and changes nothing.
LEMMA RecordsTwice ==
    ASSUME NEW s, Sound(s), NEW msg \in Memberships, NEW m \in Machine,
           NEW P \in Adoptions(s.peers, OfferedPeers(msg, m), MAX_OTHER_PEERS),
           NEW R \in Adoptions(s.meshRepos, msg.repos, MAX_MESH_REPOS),
           NEW t \in MeshStates,
           LET u == MergeRepos(MergePeers(s, msg, m, P), msg, R)
           IN  /\ t.name = u.name /\ t.version = u.version
               /\ t.peers = u.peers /\ t.meshRepos = u.meshRepos
    PROVE  /\ Adoptions(t.peers, OfferedPeers(msg, m), MAX_OTHER_PEERS) = {{}}
           /\ Adoptions(t.meshRepos, msg.repos, MAX_MESH_REPOS) = {{}}
           /\ MergeRepos(MergePeers(t, msg, m, {}), msg, {}) = t
<1> DEFINE offered == OfferedPeers(msg, m)
           copy == msg.peers[m]
           Seen(v, name) == IF m \in Mergeable(msg.peers)
                            THEN Observe(v, copy.version, Live(copy) /\ copy.value # name)
                            ELSE v
           u == MergeRepos(MergePeers(s, msg, m, P), msg, R)
<1>1. s \in MeshStates BY DEF Sound
<1>2. /\ u.name = s.name /\ u.version = Seen(s.version, s.name)
      /\ u.peers = Adopt(P, s.peers, offered)
      /\ u.meshRepos = Adopt(R, s.meshRepos, msg.repos)
    BY <1>1, MergedFields
<1>3. /\ t.name = s.name /\ t.version = Seen(s.version, s.name)
      /\ t.peers = Adopt(P, s.peers, offered)
      /\ t.meshRepos = Adopt(R, s.meshRepos, msg.repos)
    <2> HIDE DEF Seen, offered
    <2> QED BY <1>2
<1> HIDE DEF u
<1>4. msg.peers \in [Machine -> Slot(Name)] /\ msg.repos \in [RepoName -> Slot(RepoId)]
    BY DEF Memberships
<1>5. /\ s.peers \in [Machine -> Slot(Name)] /\ s.meshRepos \in [RepoName -> Slot(RepoId)]
      /\ s.version \in Versions
    BY <1>1, StateFields
<1>6. /\ Adoptions(t.peers, offered, MAX_OTHER_PEERS) = {{}}
      /\ Adopt({}, t.peers, offered) = t.peers
    <2>1. offered \in [Machine -> Slot(Name)] BY <1>4 DEF OfferedPeers, Slot
    <2>2. Cardinality(Keys(s.peers)) <= MAX_OTHER_PEERS BY DEF Sound, WithinCaps
    <2>3. MAX_OTHER_PEERS \in Nat BY CapAssumption DEF MAX_OTHER_PEERS
    <2>4. IsFiniteSet(Machine) /\ Name \in SUBSET (Nat \ {0}) BY DomainAssumption
    <2>5. P \in Adoptions(s.peers, offered, MAX_OTHER_PEERS) OBVIOUS
    <2> HIDE DEF offered
    <2> QED BY <1>3, <1>5, <2>1, <2>2, <2>3, <2>4, <2>5, AdoptTwice
<1>7. /\ Adoptions(t.meshRepos, msg.repos, MAX_MESH_REPOS) = {{}}
      /\ Adopt({}, t.meshRepos, msg.repos) = t.meshRepos
    <2>1. Cardinality(Keys(s.meshRepos)) <= MAX_MESH_REPOS BY DEF Sound, WithinCaps
    <2>2. MAX_MESH_REPOS \in Nat BY CapAssumption
    <2>3. IsFiniteSet(RepoName) /\ RepoId \in SUBSET (Nat \ {0}) BY DomainAssumption
    <2> QED BY <1>3, <1>4, <1>5, <2>1, <2>2, <2>3, AdoptTwice
<1>8. Seen(t.version, t.name) = t.version
    <2>1. CASE m \in Mergeable(msg.peers)
        <3>1. copy # Absent BY <2>1 DEF Mergeable
        <3>2. copy.version \in Versions BY <1>4, <3>1, SlotFacts
        <3> DEFINE b == Live(copy) /\ copy.value # s.name
        <3>3. b \in BOOLEAN BY DEF Live
        <3>4. t.version = Observe(s.version, copy.version, b) /\ t.name = s.name
            BY <1>3, <2>1
        <3>5. Seen(t.version, t.name) = Observe(t.version, copy.version, b) BY <2>1, <3>4
        <3> HIDE DEF b, copy, Seen
        <3> QED BY <1>5, <3>2, <3>3, <3>4, <3>5, ObserveTwice
    <2>2. CASE m \notin Mergeable(msg.peers) BY <2>2
    <2> QED BY <2>1, <2>2
<1>9. MergePeers(t, msg, m, {}) = t
    <2> DEFINE v == Seen(t.version, t.name)
               peers == Adopt({}, t.peers, offered)
    <2>1. MergePeers(t, msg, m, {}) = [t EXCEPT !.peers = peers, !.version = v]
        BY DEF MergePeers
    <2>2. peers = t.peers /\ v = t.version BY <1>6, <1>8
    <2> HIDE DEF v, peers
    <2> QED BY <2>1, <2>2 DEF MeshStates
<1>10. MergeRepos(t, msg, {}) = t
    <2>1. {n \in {} : msg.repos[n].value = Removed} = {} OBVIOUS
    <2>2. MergeRepos(t, msg, {})
              = [Unregister(t, {}) EXCEPT !.meshRepos = Adopt({}, t.meshRepos, msg.repos)]
        BY <2>1 DEF MergeRepos
    <2>3. MergeRepos(t, msg, {}) = [t EXCEPT !.meshRepos = t.meshRepos]
        BY <1>7, <2>2, UnregisterNothing
    <2> QED BY <2>3 DEF MeshStates
<1> QED BY <1>6, <1>7, <1>9, <1>10

\* No claims outrank themselves.
LEMMA ClaimsDoNotOutrankThemselves ==
    ASSUME NEW c \in Claims
    PROVE  ~ClaimsOutrank(c, c)
<1>1. c.version \in Int
    <2>1. c.version \in Versions BY DEF Claims
    <2> QED BY <2>1, MaxVersionAssumption DEF Versions
<1>2. ~SmallerClaims(c.held, c.held) BY DEF SmallerClaims
<1> QED BY <1>1, <1>2 DEF ClaimsOutrank

\* Whatever offers m adopts, what it then keeps are others' valid claims.
LEMMA AdoptedOthers ==
    ASSUME NEW u \in MeshStates, NEW msg \in Memberships, NEW m \in Machine,
           OthersValid(u, m), NEW D \in SUBSET OfferedClaims(u, msg, m)
    PROVE  LET claims == AdoptClaims(u, msg, D)
           IN  /\ claims \in ClaimMaps /\ claims[m] = NoClaims
               /\ \A e \in Machine : ValidClaims(claims[e].held)
<1>1. \A e \in D : e # m /\ ValidClaims(msg.claims[e].held) BY DEF OfferedClaims
<1>2. \A e \in Machine : AdoptClaims(u, msg, D)[e]
                             = IF e \in D THEN msg.claims[e] ELSE u.peerClaims[e]
    BY DEF AdoptClaims
<1>3. u.peerClaims \in ClaimMaps /\ msg.claims \in ClaimMaps
    BY StateFields DEF Memberships, ClaimMaps
<1>4. AdoptClaims(u, msg, D) \in ClaimMaps BY <1>3 DEF AdoptClaims, ClaimMaps
<1> QED BY <1>1, <1>2, <1>4 DEF OthersValid

\* So are they once the claims of the dead are pruned.
LEMMA PrunedOthers ==
    ASSUME NEW peers, NEW claims, NEW m \in Machine, claims[m] = NoClaims,
           \A e \in Machine : ValidClaims(claims[e].held)
    PROVE  LET pruned == PruneClaims(peers, claims)
           IN  /\ pruned[m] = NoClaims
               /\ \A e \in Machine : ValidClaims(pruned[e].held)
<1>1. \A e \in Machine : PruneClaims(peers, claims)[e] \in {claims[e], NoClaims}
    BY DEF PruneClaims
<1>2. ValidClaims(NoClaims.held) BY FS_EmptySet, CapAssumption DEF ValidClaims, NoClaims
<1> QED BY <1>1, <1>2

\* What merging the claims leaves in each field.
LEMMA MergedClaims ==
    ASSUME NEW u \in MeshStates, NEW msg \in Memberships, NEW m \in Machine,
           OthersValid(u, m), NEW C \in ClaimAdoptions(u, msg, m)
    PROVE  LET copy == msg.claims[m]
               t == MergeClaims(u, msg, m, C)
           IN  /\ t.name = u.name /\ t.version = u.version
               /\ t.peers = u.peers /\ t.meshRepos = u.meshRepos
               /\ t.peerClaims = PruneClaims(u.peers, AdoptClaims(u, msg, C))
               /\ t.claims.version
                     = IF copy # NoClaims /\ copy.version < MAX_RECORD_VERSION
                       THEN Observe(u.claims.version, copy.version, copy.held # u.claims.held)
                       ELSE u.claims.version
               /\ t.claims.held = u.claims.held
               /\ OthersValid(t, m)
<1> DEFINE copy == msg.claims[m]
           v == IF copy # NoClaims /\ copy.version < MAX_RECORD_VERSION
                THEN Observe(u.claims.version, copy.version, copy.held # u.claims.held)
                ELSE u.claims.version
           c == [u.claims EXCEPT !.version = v]
           adopted == AdoptClaims(u, msg, C)
           pruned == PruneClaims(u.peers, adopted)
           t == MergeClaims(u, msg, m, C)
<1>1. u.claims \in Claims BY StateFields
<1>2. t = [u EXCEPT !.peerClaims = pruned, !.claims = c] BY DEF MergeClaims, MeshStates
<1>3. C \in SUBSET OfferedClaims(u, msg, m) BY DEF ClaimAdoptions
<1>4. adopted[m] = NoClaims /\ \A e \in Machine : ValidClaims(adopted[e].held)
    BY <1>3, AdoptedOthers
<1>5. pruned[m] = NoClaims /\ \A e \in Machine : ValidClaims(pruned[e].held)
    <2> HIDE DEF adopted
    <2> QED BY <1>4, PrunedOthers
<1> HIDE DEF t, v, pruned
<1>6. c.version = v /\ c.held = u.claims.held BY <1>1 DEF Claims
<1> HIDE DEF c
<1>7. /\ t.name = u.name /\ t.version = u.version /\ t.peers = u.peers
      /\ t.meshRepos = u.meshRepos /\ t.peerClaims = pruned /\ t.claims = c
    BY <1>2 DEF MeshStates
<1>8. OthersValid(t, m) BY <1>5, <1>7 DEF OthersValid
<1> QED BY <1>6, <1>7, <1>8 DEF t, v, pruned

\* Merging the claims a second time adopts nothing and changes nothing, if
\* the cap turned none down the first time.
LEMMA ClaimsTwice ==
    ASSUME ClaimsFit, NEW u \in MeshStates, NEW msg \in Memberships, NEW m \in Machine,
           OthersValid(u, m), NEW C \in ClaimAdoptions(u, msg, m)
    PROVE  LET t == MergeClaims(u, msg, m, C)
           IN  t \in MeshStates /\ PeerClaimsAlive(t)
                   => ClaimAdoptions(t, msg, m) = {{}} /\ MergeClaims(t, msg, m, {}) = t
<1> DEFINE copy == msg.claims[m]
           Seen(c) == IF copy # NoClaims /\ copy.version < MAX_RECORD_VERSION
                      THEN Observe(c.version, copy.version, copy.held # c.held)
                      ELSE c.version
           adopted == AdoptClaims(u, msg, C)
           pruned == PruneClaims(u.peers, adopted)
           offers == OfferedClaims(u, msg, m)
           t == MergeClaims(u, msg, m, C)
<1>1. /\ u.claims \in Claims /\ u.claims.version \in Versions /\ u.peerClaims \in ClaimMaps
    BY StateFields
<1>2. msg.claims \in ClaimMaps BY DEF Memberships, ClaimMaps
<1>3. /\ t.peers = u.peers /\ t.peerClaims = pruned
      /\ t.claims.version = Seen(u.claims) /\ t.claims.held = u.claims.held
    BY MergedClaims
<1> HIDE DEF t
<1>4. /\ C \subseteq offers
      /\ \A e \in offers :
             e \in C <=> ClaimCount(AdoptClaims(u, msg, {f \in C : f < e} \cup {e}))
                            <= MAX_OTHER_WORKSPACES
    BY DEF ClaimAdoptions
<1>5. offers \subseteq C
    <2> SUFFICES ASSUME NEW e \in offers PROVE e \in C OBVIOUS
    <2> DEFINE D == {f \in C : f < e} \cup {e}
               claims == AdoptClaims(u, msg, D)
    <2>1. D \in SUBSET offers BY <1>4
    <2> HIDE DEF D, offers
    <2>2. /\ claims \in ClaimMaps /\ claims[m] = NoClaims
          /\ \A x \in Machine : ValidClaims(claims[x].held)
        BY <2>1, AdoptedOthers DEF offers
    <2>3. claims[m].held = {} BY <2>2 DEF NoClaims
    <2> HIDE DEF claims
    <2>4. ClaimCount(claims) <= MAX_OTHER_WORKSPACES BY <2>2, <2>3, FittingClaims
    <2> QED BY <1>4, <2>4 DEF D, claims
<1>6. C = offers BY <1>4, <1>5
<1>7. \A e \in Machine : adopted[e] = IF e \in C THEN msg.claims[e] ELSE u.peerClaims[e]
    BY DEF AdoptClaims
<1>8. \A e \in Machine : pruned[e] = IF Live(u.peers[e]) THEN adopted[e] ELSE NoClaims
    BY DEF PruneClaims
<1>9. OfferedClaims(t, msg, m) = {}
    <2> SUFFICES ASSUME NEW e \in OfferedClaims(t, msg, m) PROVE FALSE OBVIOUS
    <2>1. /\ e \in Machine \ {m} /\ msg.claims[e] # NoClaims
          /\ msg.claims[e].version < MAX_RECORD_VERSION /\ Live(t.peers[e])
          /\ t.peerClaims[e] # NoClaims => ClaimsOutrank(msg.claims[e], t.peerClaims[e])
          /\ ValidClaims(msg.claims[e].held)
        BY DEF OfferedClaims
    <2>2. t.peerClaims[e] = adopted[e] BY <1>3, <1>8, <2>1
    <2>3. CASE e \in C
        <3>1. t.peerClaims[e] = msg.claims[e] BY <1>7, <2>1, <2>2, <2>3
        <3>2. msg.claims[e] \in Claims BY <1>2, <2>1 DEF ClaimMaps
        <3> QED BY <2>1, <3>1, <3>2, ClaimsDoNotOutrankThemselves
    <2>4. CASE e \notin C
        <3>1. t.peerClaims[e] = u.peerClaims[e] BY <1>7, <2>1, <2>2, <2>4
        <3>2. e \in OfferedClaims(u, msg, m) BY <1>3, <2>1, <3>1 DEF OfferedClaims
        <3> QED BY <1>6, <2>4, <3>2
    <2> QED BY <2>3, <2>4
<1>10. ClaimAdoptions(t, msg, m) = {{}}
    <2>1. \A D : D \in ClaimAdoptions(t, msg, m) <=> D \in SUBSET {}
        BY <1>9 DEF ClaimAdoptions
    <2> QED BY <2>1
<1>11. ASSUME t \in MeshStates, PeerClaimsAlive(t) PROVE MergeClaims(t, msg, m, {}) = t
    <2> DEFINE kept == PruneClaims(t.peers, AdoptClaims(t, msg, {}))
               c == [t.claims EXCEPT !.version = Seen(t.claims)]
    <2>1. MergeClaims(t, msg, m, {}) = [t EXCEPT !.peerClaims = kept, !.claims = c]
        BY <1>11 DEF MergeClaims, MeshStates
    <2>2. t.claims \in Claims /\ t.peerClaims \in ClaimMaps BY <1>11, StateFields
    <2>3. kept = t.peerClaims
        <3>1. \A e \in Machine : kept[e] = IF Live(t.peers[e]) THEN t.peerClaims[e] ELSE NoClaims
            BY DEF PruneClaims, AdoptClaims
        <3>2. \A e \in Machine : kept[e] = t.peerClaims[e]
            BY <1>11, <3>1 DEF PeerClaimsAlive
        <3>3. kept = [e \in Machine |-> kept[e]] BY DEF PruneClaims
        <3>4. t.peerClaims = [e \in Machine |-> t.peerClaims[e]] BY <2>2 DEF ClaimMaps
        <3> HIDE DEF kept
        <3> QED BY <3>2, <3>3, <3>4
    <2>4. Seen(t.claims) = t.claims.version
        <3>1. CASE copy # NoClaims /\ copy.version < MAX_RECORD_VERSION
            <4> DEFINE b == copy.held # u.claims.held
            <4>1. copy \in Claims BY <1>2, <3>1 DEF ClaimMaps
            <4>2. copy.version \in Versions BY <4>1 DEF Claims
            <4>3. t.claims.version = Observe(u.claims.version, copy.version, b)
                BY <1>3, <3>1
            <4>4. Seen(t.claims) = Observe(t.claims.version, copy.version, b) BY <1>3, <3>1
            <4>5. b \in BOOLEAN OBVIOUS
            <4> HIDE DEF b, copy, Seen
            <4> QED BY <1>1, <4>2, <4>3, <4>4, <4>5, ObserveTwice
        <3>2. CASE ~(copy # NoClaims /\ copy.version < MAX_RECORD_VERSION) BY <3>2
        <3> QED BY <3>1, <3>2
    <2>5. c = t.claims
        <3> HIDE DEF Seen
        <3> QED BY <2>2, <2>4 DEF Claims
    <2> HIDE DEF c, kept
    <2> QED BY <1>11, <2>1, <2>3, <2>5 DEF MeshStates
<1> HIDE DEF pruned, adopted, offers, Seen
<1> QED BY <1>10, <1>11 DEF t

\* Merging a membership leaves others' valid claims, and merging it again
\* leaves everything.
LEMMA MergeOthers ==
    ASSUME NEW s, Sound(s), NEW m \in Machine, OthersValid(s, m), NEW msg \in Memberships,
           NEW t \in MergeMembership(s, msg, m)
    PROVE  OthersValid(t, m) /\ (ClaimsFit => MergeMembership(t, msg, m) = {t})
<1>1. s \in MeshStates BY DEF Sound
<1>2. PICK P \in Adoptions(s.peers, OfferedPeers(msg, m), MAX_OTHER_PEERS),
           R \in Adoptions(s.meshRepos, msg.repos, MAX_MESH_REPOS) :
          \E C \in ClaimAdoptions(MergeRepos(MergePeers(s, msg, m, P), msg, R), msg, m) :
             t = MergeClaims(MergeRepos(MergePeers(s, msg, m, P), msg, R), msg, m, C)
    BY DEF MergeMembership
<1> DEFINE u == MergeRepos(MergePeers(s, msg, m, P), msg, R)
<1>3. PICK C \in ClaimAdoptions(u, msg, m) : t = MergeClaims(u, msg, m, C) BY <1>2
<1>4. u \in MeshStates BY MergeRecordsFacts DEF MergedRecords
<1>5. u.peerClaims = s.peerClaims BY <1>1, MergedFields
<1>6. OthersValid(u, m)
    <2> HIDE DEF u
    <2> QED BY <1>5 DEF OthersValid
<1>7. /\ OthersValid(t, m) /\ t.name = u.name /\ t.version = u.version
      /\ t.peers = u.peers /\ t.meshRepos = u.meshRepos
    <2> HIDE DEF u
    <2> QED BY <1>3, <1>4, <1>6, MergedClaims
<1>8. t \in MeshStates /\ PeerClaimsAlive(t)
    <2>1. Sound(t) BY MergeFacts
    <2> QED BY <2>1 DEF Sound
<1>9. ASSUME ClaimsFit PROVE MergeMembership(t, msg, m) = {t}
    <2>1. /\ Adoptions(t.peers, OfferedPeers(msg, m), MAX_OTHER_PEERS) = {{}}
          /\ Adoptions(t.meshRepos, msg.repos, MAX_MESH_REPOS) = {{}}
          /\ MergeRepos(MergePeers(t, msg, m, {}), msg, {}) = t
        BY <1>7, <1>8, RecordsTwice
    <2>2. ClaimAdoptions(t, msg, m) = {{}} /\ MergeClaims(t, msg, m, {}) = t
        <3> HIDE DEF u
        <3> QED BY <1>3, <1>4, <1>6, <1>8, <1>9, ClaimsTwice
    <2> DEFINE records ==
            {MergeRepos(MergePeers(t, msg, m, X), msg, Y) :
                X \in Adoptions(t.peers, OfferedPeers(msg, m), MAX_OTHER_PEERS),
                Y \in Adoptions(t.meshRepos, msg.repos, MAX_MESH_REPOS)}
    <2>3. records = {t} BY <2>1
    <2>4. MergeMembership(t, msg, m)
              = UNION {{MergeClaims(w, msg, m, D) : D \in ClaimAdoptions(w, msg, m)} :
                          w \in records}
        BY DEF MergeMembership
    <2> HIDE DEF records
    <2>5. {MergeClaims(t, msg, m, D) : D \in ClaimAdoptions(t, msg, m)} = {t} BY <2>2
    <2> QED BY <2>3, <2>4, <2>5
<1> QED BY <1>7, <1>9

\* What every machine holds, or has saved, as others' claims is theirs to
\* make.
OthersInv == \A m \in Machine : OthersValid(mem[m], m) /\ OthersValid(disk[m], m)

\* A state whose claims of others are s's, or fewer.
LEMMA FewerOthers ==
    ASSUME NEW s, NEW t, NEW m \in Machine, OthersValid(s, m),
           \A e \in Machine : t.peerClaims[e] \in {s.peerClaims[e], NoClaims}
    PROVE  OthersValid(t, m)
<1>1. ValidClaims(NoClaims.held) BY FS_EmptySet, CapAssumption DEF ValidClaims, NoClaims
<1> QED BY <1>1 DEF OthersValid

\* A machine that takes or saves a state with others' valid claims.
LEMMA CommitsOthers ==
    ASSUME TypeOK, OthersInv, NEW m \in Machine, NEW next, OthersValid(next, m),
           Commits(m, next)
    PROVE  OthersInv'
<1>1. mem \in [Machine -> MeshStates] /\ disk \in [Machine -> MeshStates] BY DEF TypeOK
<1>2. \A a \in Machine : mem'[a] = mem[a] \/ (a = m /\ mem'[a] = next)
    BY <1>1 DEF Commits, Update, SaveFailsUnsynced
<1>3. \A a \in Machine : disk'[a] = disk[a] \/ (a = m /\ disk'[a] = next)
    BY <1>1 DEF Commits, Update, SaveFailsUnsynced
<1> QED BY <1>2, <1>3 DEF OthersInv

\* A local change that leaves others' claims as they are, or drops some.
LEMMA ChangeOthers ==
    ASSUME TypeOK, OthersInv, NEW m \in Machine, NEW next, Change(m, next),
           \A e \in Machine : next.peerClaims[e] \in {mem[m].peerClaims[e], NoClaims}
    PROVE  OthersInv'
<1>1. OthersValid(mem[m], m) BY DEF OthersInv
<1>2. OthersValid(next, m) BY <1>1, FewerOthers
<1>3. Commits(m, next) BY DEF Change, Commits
<1> QED BY <1>2, <1>3, CommitsOthers

\* A local change only ever drops claims of others.
LEMMA LocalOthers ==
    ASSUME TypeOK, OthersInv, NEW m \in Machine, LocalChange(m)
    PROVE  OthersInv'
<1> DEFINE s == mem[m]
           Kept(next) == \A e \in Machine : next.peerClaims[e] \in {s.peerClaims[e], NoClaims}
<1>1. s \in MeshStates BY DEF TypeOK
<1>2. \A n \in Name : Kept(RenameMachine(s, n)) BY <1>1 DEF RenameMachine, MeshStates
<1>3. \A e \in Machine, n \in Name : Kept(AddPeer(s, e, n)) BY <1>1 DEF AddPeer, MeshStates
<1>4. \A e \in Machine : Kept(RemovePeer(s, e))
    BY <1>1 DEF RemovePeer, PruneClaims, MeshStates
<1>5. \A r \in Repo : Kept(AddRepo(s, r)) BY <1>1 DEF AddRepo, MeshStates
<1>6. \A names : Unregister(s, names).peerClaims = s.peerClaims
    <2> TAKE names
    <2>1. PICK x, y : Unregister(s, names) = [s EXCEPT !.repos = x, !.claims = y]
        BY DEF Unregister
    <2> QED BY <1>1, <2>1 DEF MeshStates
<1>7. \A n \in RepoName : Kept(ForgetRepo(s, n)) BY <1>6 DEF ForgetRepo
<1>8. \A n \in RepoName : Kept(RemoveRepo(s, n))
    <2> TAKE n \in RepoName
    <2>1. PICK x : RemoveRepo(s, n) = [Unregister(s, {n}) EXCEPT !.meshRepos = x]
        BY DEF RemoveRepo
    <2>2. PICK y, z : Unregister(s, {n}) = [s EXCEPT !.repos = y, !.claims = z]
        BY DEF Unregister
    <2> QED BY <1>1, <2>1, <2>2 DEF MeshStates
<1>9. \A c : Kept([s EXCEPT !.claims = c]) BY <1>1 DEF MeshStates
<1>10. \A e \in Machine : mem[e].name \in Name BY StateFields DEF TypeOK
<1>11. \E next : Change(m, next) /\ Kept(next)
    <2> HIDE DEF Kept
    <2>1. ASSUME NEW n \in Name, Rename(m, n) PROVE \E next : Change(m, next) /\ Kept(next)
        BY <1>2, <2>1 DEF Rename
    <2>2. ASSUME NEW e \in Machine, AddPairedPeer(m, e)
          PROVE  \E next : Change(m, next) /\ Kept(next)
        BY <1>3, <1>10, <2>2 DEF AddPairedPeer
    <2>3. ASSUME NEW e \in Machine, RemovePairedPeer(m, e)
          PROVE  \E next : Change(m, next) /\ Kept(next)
        BY <1>4, <2>3 DEF RemovePairedPeer
    <2>4. ASSUME NEW r \in Repo, RegisterRepo(m, r)
          PROVE  \E next : Change(m, next) /\ Kept(next)
        BY <1>5, <2>4 DEF RegisterRepo
    <2>5. ASSUME NEW n \in RepoName, RetireRepo(m, n)
          PROVE  \E next : Change(m, next) /\ Kept(next)
        BY <1>8, <2>5 DEF RetireRepo
    <2>6. ASSUME NEW n \in RepoName, UnregisterRepo(m, n)
          PROVE  \E next : Change(m, next) /\ Kept(next)
        BY <1>7, <2>6 DEF UnregisterRepo
    <2>7. ASSUME NEW id \in RepoId, NEW names \in SUBSET Workspace, ClaimWorkspaces(m, id, names)
          PROVE  \E next : Change(m, next) /\ Kept(next)
        BY <1>9, <2>7 DEF ClaimWorkspaces
    <2> QED BY <2>1, <2>2, <2>3, <2>4, <2>5, <2>6, <2>7 DEF LocalChange
<1> QED BY <1>11, ChangeOthers

\* Initially no machine holds claims of another.
LEMMA InitOthers == Init => OthersInv
<1> SUFFICES ASSUME Init, NEW m \in Machine
             PROVE  OthersValid(mem[m], m) /\ OthersValid(disk[m], m)
    BY DEF OthersInv
<1>1. mem[m] = FoundingState(m) /\ disk[m] = FoundingState(m) BY DEF Init
<1>2. \A e \in Machine : FoundingState(m).peerClaims[e] = NoClaims
    BY DEF FoundingState, DefaultState
<1>3. ValidClaims(NoClaims.held) BY FS_EmptySet, CapAssumption DEF ValidClaims, NoClaims
<1> QED BY <1>1, <1>2, <1>3 DEF OthersValid

\* Every step keeps others' claims valid.
LEMMA NextOthers == IInv /\ OthersInv /\ [Next]_vars => OthersInv'
<1> SUFFICES ASSUME IInv, OthersInv, [Next]_vars PROVE OthersInv' OBVIOUS
<1>1. TypeOK /\ \A m \in Machine : Sound(mem[m]) /\ OthersValid(mem[m], m) /\ OthersValid(disk[m], m)
    BY DEF IInv, OthersInv
<1>2. mem \in [Machine -> MeshStates] /\ disk \in [Machine -> MeshStates] /\ net \subseteq Messages
    BY <1>1 DEF TypeOK
<1>3. ASSUME NEW m \in Machine, LocalChange(m) PROVE OthersInv'
    BY <1>1, <1>3, LocalOthers
<1>4. ASSUME UNCHANGED <<mem, disk>> PROVE OthersInv'
    BY <1>4 DEF OthersInv
<1>5. ASSUME NEW msg \in net, Deliver(msg) PROVE OthersInv'
    <2>1. msg.to \in Machine /\ msg.body \in Memberships /\ Receive(msg.to, msg.body)
        BY <1>2, <1>5 DEF Messages, Deliver
    <2>2. CASE WithinWireLimits(msg.body)
        <3>1. PICK next \in MergeMembership(mem[msg.to], msg.body, msg.to) :
                  Commits(msg.to, next)
            BY <2>1, <2>2 DEF Receive, Commits
        <3>2. OthersValid(next, msg.to) BY <1>1, <2>1, <3>1, MergeOthers
        <3> QED BY <1>1, <2>1, <3>1, <3>2, CommitsOthers
    <2>3. CASE ~WithinWireLimits(msg.body) BY <1>4, <2>1, <2>3 DEF Receive
    <2> QED BY <2>2, <2>3
<1>6. ASSUME NEW a \in Machine, NEW b \in Machine, Exchange(a, b) PROVE OthersInv'
    <2>1. Membership(mem[a], a) \in Memberships BY <1>2, MembershipType
    <2>2. PICK next \in MergeMembership(mem[b], Membership(mem[a], a), b) : Commits(b, next)
        BY <1>6 DEF Exchange, Commits
    <2>3. OthersValid(next, b) BY <1>1, <2>1, <2>2, MergeOthers
    <2> QED BY <1>1, <2>2, <2>3, CommitsOthers
<1>7. ASSUME NEW m \in Machine, Restart(m) PROVE OthersInv'
    <2>1. mem' = [mem EXCEPT ![m] = disk[m]] /\ disk' = disk BY <1>7 DEF Restart
    <2> QED BY <1>1, <1>2, <2>1 DEF OthersInv
<1>8. ASSUME NEW m \in Machine, LoseState(m) PROVE OthersInv'
    <2> DEFINE d == DefaultState(m)
    <2>1. mem' = [mem EXCEPT ![m] = d] /\ disk' = [disk EXCEPT ![m] = d]
        BY <1>8 DEF LoseState
    <2>2. \A e \in Machine : d.peerClaims[e] = NoClaims BY DefaultFacts
    <2> HIDE DEF d
    <2>3. OthersValid(d, m) BY <1>1, <2>2, FewerOthers
    <2> QED BY <1>1, <1>2, <2>1, <2>3 DEF OthersInv
<1> QED BY <1>3, <1>4, <1>5, <1>6, <1>7, <1>8 DEF Next, Gossip, Lose, vars

\* The claims a machine keeps for others are within each one's limit and
\* never name itself as the claimant: merge_membership takes no one's word
\* on the machine's own claims.
THEOREM OthersClaims == Spec => []OthersInv
BY InitOthers, NextOthers, Invariant, PTL DEF Spec

\* Where the claims of all machines fit the mesh's cap, merging the same
\* membership twice is merging it once, whatever either machine held and
\* however the record caps bind: merge_membership answers its own echo with
\* no change, so gossip_loop comes to rest.
THEOREM Idempotent == ASSUME ClaimsFit PROVE Spec => []MergeIsIdempotent
<1>1. IInv /\ OthersInv => MergeIsIdempotent
    <2> SUFFICES ASSUME IInv, OthersInv, NEW a \in Machine, NEW b \in Machine,
                        NEW s \in MergeMembership(mem[b], Membership(mem[a], a), b)
                 PROVE  MergeMembership(s, Membership(mem[a], a), b) = {s}
        BY DEF MergeIsIdempotent
    <2>1. Sound(mem[b]) /\ OthersValid(mem[b], b) /\ mem[a] \in MeshStates
        BY DEF IInv, OthersInv, TypeOK
    <2>2. Membership(mem[a], a) \in Memberships BY <2>1, MembershipType
    <2> QED BY <2>1, <2>2, MergeOthers
<1> QED BY <1>1, Invariant, OthersClaims, PTL
=============================================================================
