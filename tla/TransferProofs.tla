--------------------------- MODULE TransferProofs ---------------------------
(***************************************************************************)
(* Fetches are safe and implement OpLog, for any number of machines,       *)
(* operations, abandoned fetches, permits and faults.                      *)
(*                                                                         *)
(* The argument is one of growth: whatever a machine stores or shows it    *)
(* goes on storing and showing (Grown), so what a fetch established in an  *)
(* earlier phase about its own machine and its peer still holds when it    *)
(* publishes, however both have moved on since.                            *)
(***************************************************************************)
EXTENDS Transfer, FiniteSetTheorems, WellFoundedInduction, TLAPS

\* Ancestry is reflexive, transitive and ordered, and operations are written
\* in their order.
AncestrySound ==
    /\ \A o \in Op : anc[o] # {} => o \in anc[o]
    /\ \A o \in Op : \A a \in anc[o] : a \in anc[a] /\ anc[a] \subseteq anc[o] /\ a <= o
    /\ \A w, o \in Op : anc[w] # {} /\ anc[o] = {} => w < o

\* A stored operation has its commit, besides what StoresAreClosed promises,
\* and a head is stored.
StoreSound(m) ==
    /\ \A o \in store[m].ops \cup store[m].commits : anc[o] # {}
    /\ \A c \in store[m].commits : anc[c] \subseteq store[m].commits \cap store[m].trees
    /\ \A o \in store[m].ops : anc[o] \subseteq store[m].ops \cap store[m].views
    /\ store[m].ops \subseteq store[m].commits
    /\ heads[m] \subseteq store[m].ops

\* A command's operation has what the command read as its ancestry.
UserSound(m, u) ==
    /\ u.base \subseteq Reach(m)
    /\ u.phase \in {"written", "listed"} =>
          /\ u.op \in store[m].ops \ u.base
          /\ anc[u.op] = {u.op} \cup AncestorsOf(u.base)
    /\ u.phase = "listed" => u.op \in Reach(m)

\* The commits that are still to come close the ancestry of those the batch
\* needs.
RangeSound(m, f) ==
    /\ \A c \in f.range : c \in anc[c] /\ anc[c] \subseteq f.range \cup store[m].commits
    /\ f.batch \subseteq f.range \cup store[m].commits

\* What each phase of a fetch has established.
FetchSound(m, f) ==
    /\ f.phase # "invalid"
    /\ f.wants \subseteq Reach(f.peer)
    /\ f.localHeads \subseteq store[m].ops
    /\ f.phase \in {"received", "objects", "views", "ops", "publish", "unlist"} =>
          ValidBatch(m, f.wants, f.batch)
    /\ f.phase = "objects" => RangeSound(m, f)
    /\ f.phase \in {"views", "ops", "publish", "unlist"} => f.batch \subseteq store[m].commits
    /\ f.phase \in {"ops", "publish", "unlist"} => f.batch \subseteq store[m].views
    /\ f.phase \in {"publish", "unlist"} =>
          f.batch \subseteq store[m].ops /\ f.toPublish \subseteq f.wants
    /\ f.phase = "unlist" => f.toPublish # {} /\ Earliest(f.toPublish) \in Reach(m)

IInv ==
    /\ TypeOK
    /\ AncestrySound
    /\ \A m \in Machine : StoreSound(m)
    /\ \A m \in Machine : UserSound(m, user[m])
    /\ \A m, p \in Machine : offer[m][p].heads \subseteq Reach(p)
    /\ \A m \in Machine, s \in Slot : FetchSound(m, fetch[m][s])

\* Nothing written, stored or shown is taken away.
Grown ==
    /\ \A o \in Op : anc[o] # {} => anc'[o] = anc[o]
    /\ \A m \in Machine :
          /\ store[m].trees \subseteq store'[m].trees
          /\ store[m].commits \subseteq store'[m].commits
          /\ store[m].views \subseteq store'[m].views
          /\ store[m].ops \subseteq store'[m].ops
          /\ Reach(m) \subseteq Reach(m)'

-----------------------------------------------------------------------------
\* The operators.

\* Some operations have a first one.
LEMMA EarliestFacts ==
    ASSUME NEW S \in SUBSET Nat, S # {}
    PROVE  Earliest(S) \in S /\ \A o \in S : Earliest(S) <= o
  <1> DEFINE R == OpToRel(<, Nat)
  <1>1. IsWellFoundedOn(R, Nat)
    BY NatLessThanWellFounded
  <1>2. \A x, y \in Nat : <<y, x>> \in R <=> y < x
    BY DEF OpToRel
  <1> HIDE DEF R
  <1>3. PICK x \in S : \A y \in S : ~ (<<y, x>> \in R)
    BY <1>1, WFMin
  <1>4. \A y \in S : x <= y
    <2> SUFFICES ASSUME NEW y \in S PROVE x <= y
      OBVIOUS
    <2>1. ~ (y < x)
      BY <1>2, <1>3
    <2>2. x \in Nat /\ y \in Nat
      OBVIOUS
    <2> QED BY <2>1, <2>2
  <1> QED BY <1>4 DEF Earliest

LEMMA InAncestors ==
    ASSUME NEW S, NEW a
    PROVE  a \in AncestorsOf(S) <=> \E o \in S : a \in anc[o]
  BY DEF AncestorsOf

LEMMA InAncestorsNext ==
    ASSUME NEW S, NEW a
    PROVE  a \in AncestorsOf(S)' <=> \E o \in S : a \in anc'[o]
  BY DEF AncestorsOf

\* The ancestors of some operations contain their own ancestors.
LEMMA AncestorsClosed ==
    ASSUME TypeOK, AncestrySound, NEW S \in SUBSET Op
    PROVE  /\ AncestorsOf(S) \in SUBSET Op
           /\ \A a \in AncestorsOf(S) : a \in anc[a] /\ anc[a] \subseteq AncestorsOf(S)
           /\ \A o \in S : anc[o] \subseteq AncestorsOf(S)
           /\ \A o \in S : anc[o] # {} => o \in AncestorsOf(S)
  <1>1. anc \in [Op -> SUBSET Op]
    BY DEF TypeOK
  <1>2. ASSUME NEW a \in AncestorsOf(S)
        PROVE  a \in Op /\ a \in anc[a] /\ anc[a] \subseteq AncestorsOf(S)
    <2>1. PICK o \in S : a \in anc[o]
      BY InAncestors
    <2>2. a \in Op /\ a \in anc[a] /\ anc[a] \subseteq anc[o]
      BY <1>1, <2>1 DEF AncestrySound
    <2> QED BY <2>1, <2>2, InAncestors
  <1>3. \A o \in S : anc[o] \subseteq AncestorsOf(S)
    BY InAncestors
  <1>4. \A o \in S : anc[o] # {} => o \in AncestorsOf(S)
    BY <1>3 DEF AncestrySound
  <1> QED BY <1>2, <1>3, <1>4

LEMMA Types ==
    ASSUME TypeOK, NEW m \in Machine
    PROVE  /\ store[m] \in Stores
           /\ store[m].ops \in SUBSET Op /\ store[m].views \in SUBSET Op
           /\ store[m].commits \in SUBSET Op /\ store[m].trees \in SUBSET Op
           /\ heads[m] \in SUBSET Op
           /\ user[m] \in Users
           /\ \A p \in Machine : offer[m][p] \in Offers
           /\ \A s \in Slot : fetch[m][s] \in Fetches
  <1>1. store[m] \in Stores
    BY DEF TypeOK
  <1> QED BY <1>1 DEF TypeOK, Stores

\* What a machine shows is closed under ancestry, and stored.
LEMMA ReachFacts ==
    ASSUME TypeOK, AncestrySound, NEW m \in Machine, StoreSound(m)
    PROVE  /\ Reach(m) \in SUBSET Op
           /\ \A a \in Reach(m) : a \in anc[a] /\ anc[a] \subseteq Reach(m)
           /\ heads[m] \subseteq Reach(m)
           /\ Reach(m) \subseteq store[m].ops \cap store[m].views \cap store[m].commits
  <1>1. heads[m] \in SUBSET Op
    BY Types
  <1>2. \A a \in Reach(m) : \E h \in heads[m] : a \in anc[h]
    BY InAncestors DEF Reach
  <1>3. heads[m] \subseteq store[m].ops
    BY DEF StoreSound
  <1>4. \A h \in heads[m] : anc[h] # {}
    BY <1>3 DEF StoreSound
  <1>5. heads[m] \subseteq Reach(m)
    BY <1>1, <1>4, AncestorsClosed DEF Reach
  <1>6. Reach(m) \subseteq store[m].ops \cap store[m].views
    BY <1>2, <1>3 DEF StoreSound
  <1>7. Reach(m) \subseteq store[m].commits
    BY <1>6 DEF StoreSound
  <1>8. /\ Reach(m) \in SUBSET Op
        /\ \A a \in Reach(m) : a \in anc[a] /\ anc[a] \subseteq Reach(m)
    BY <1>1, AncestorsClosed DEF Reach
  <1> QED BY <1>5, <1>6, <1>7, <1>8

LEMMA AncestorsKept ==
    ASSUME Grown, NEW S \in SUBSET Op, \A o \in S : anc[o] # {}
    PROVE  AncestorsOf(S)' = AncestorsOf(S)
  <1>1. \A o \in S : anc'[o] = anc[o]
    BY DEF Grown
  <1> QED BY <1>1, InAncestors, InAncestorsNext

-----------------------------------------------------------------------------
\* Growth keeps what commands and fetches rely on.

LEMMA IInvParts ==
    ASSUME IInv, NEW m \in Machine
    PROVE  /\ TypeOK /\ AncestrySound /\ StoreSound(m) /\ UserSound(m, user[m])
           /\ Reach(m) \in SUBSET Op
           /\ \A a \in Reach(m) : a \in anc[a] /\ anc[a] \subseteq Reach(m)
           /\ heads[m] \subseteq Reach(m)
           /\ Reach(m) \subseteq store[m].ops \cap store[m].views \cap store[m].commits
  BY ReachFacts DEF IInv

LEMMA UserKept ==
    ASSUME IInv, Grown, NEW m \in Machine, NEW u \in Users, UserSound(m, u)
    PROVE  UserSound(m, u)'
  <1>1. u.base \subseteq Reach(m) /\ Reach(m) \subseteq Reach(m)'
    BY DEF UserSound, Grown
  <1>2. AncestorsOf(u.base)' = AncestorsOf(u.base)
    <2>1. u.base \in SUBSET Op
      BY DEF Users
    <2>2. \A o \in u.base : anc[o] # {}
      BY <1>1, IInvParts
    <2> QED BY <2>1, <2>2, AncestorsKept
  <1>3. ASSUME u.phase \in {"written", "listed"}
        PROVE  /\ u.op \in store'[m].ops \ u.base
               /\ anc'[u.op] = {u.op} \cup AncestorsOf(u.base)'
    <2>1. u.op \in store[m].ops \ u.base /\ anc[u.op] = {u.op} \cup AncestorsOf(u.base)
      BY <1>3 DEF UserSound
    <2>2. u.op \in Op
      BY <2>1, Types, IInvParts
    <2>3. anc'[u.op] = anc[u.op]
      BY <2>1, <2>2 DEF Grown
    <2>4. u.op \in store'[m].ops
      BY <2>1 DEF Grown
    <2> QED BY <1>2, <2>1, <2>3, <2>4
  <1>4. u.phase = "listed" => u.op \in Reach(m)'
    BY <1>1 DEF UserSound
  <1> QED BY <1>1, <1>3, <1>4 DEF UserSound

LEMMA RangeKept ==
    ASSUME IInv, Grown, NEW m \in Machine, NEW f \in Fetches, RangeSound(m, f)
    PROVE  RangeSound(m, f)'
  <1>1. f.range \in SUBSET Op
    BY DEF Fetches
  <1>2. \A c \in f.range : anc'[c] = anc[c]
    BY <1>1 DEF RangeSound, Grown
  <1>3. store[m].commits \subseteq store'[m].commits
    BY DEF Grown
  <1> QED BY <1>2, <1>3 DEF RangeSound

LEMMA BatchKept ==
    ASSUME IInv, Grown, NEW m \in Machine, NEW p \in Machine,
           NEW wants \in SUBSET Reach(p), NEW batch \in SUBSET Op, ValidBatch(m, wants, batch)
    PROVE  ValidBatch(m, wants, batch)'
  <1>1. wants \in SUBSET Op /\ \A w \in wants : anc[w] # {}
    BY IInvParts
  <1>2. AncestorsOf(wants)' = AncestorsOf(wants)
    BY <1>1, AncestorsKept
  <1>3. \A o \in batch : o \in anc[o]
    BY <1>1, AncestorsClosed DEF ValidBatch, IInv
  <1>4. \A o \in batch : anc'[o] = anc[o]
    BY <1>3 DEF Grown
  <1>5. store[m].ops \subseteq store'[m].ops
    BY DEF Grown
  <1> QED BY <1>2, <1>4, <1>5 DEF ValidBatch

LEMMA FetchKept ==
    ASSUME IInv, Grown, NEW m \in Machine, NEW f \in Fetches, FetchSound(m, f)
    PROVE  FetchSound(m, f)'
  <1>1. f.peer \in Machine /\ f.batch \in SUBSET Op
    BY DEF Fetches
  <1>2. f.wants \subseteq Reach(f.peer) /\ f.wants \subseteq Reach(f.peer)'
    BY <1>1 DEF FetchSound, Grown
  <1>3. ValidBatch(m, f.wants, f.batch) => ValidBatch(m, f.wants, f.batch)'
    BY <1>1, <1>2, BatchKept
  <1>4. RangeSound(m, f) => RangeSound(m, f)'
    BY RangeKept
  <1>5. /\ store[m].commits \subseteq store'[m].commits
        /\ store[m].views \subseteq store'[m].views
        /\ store[m].ops \subseteq store'[m].ops
        /\ Reach(m) \subseteq Reach(m)'
    BY DEF Grown
  <1> QED BY <1>2, <1>3, <1>4, <1>5 DEF FetchSound

LEMMA NoFetchSound ==
    ASSUME NEW m \in Machine
    PROVE  FetchSound(m, NoFetch(m)) /\ NoFetch(m) \in Fetches
  BY DEF FetchSound, NoFetch, Fetches

LEMMA NoFetchSoundNext ==
    ASSUME NEW m \in Machine
    PROVE  FetchSound(m, NoFetch(m))'
  BY DEF FetchSound, NoFetch

\* A step is safe that only adds, and leaves what it changes sound.
LEMMA GrowingStep ==
    ASSUME IInv, Grown, TypeOK', AncestrySound', \A m \in Machine : StoreSound(m)',
           \A m \in Machine : user'[m] = user[m] \/ UserSound(m, user[m])',
           \A m, p \in Machine :
              offer'[m][p].heads \in {{}, offer[m][p].heads, heads[p]},
           \A m \in Machine, s \in Slot :
              fetch'[m][s] \in {fetch[m][s], NoFetch(m)} \/ FetchSound(m, fetch[m][s])'
    PROVE  IInv'
  <1>1. ASSUME NEW m \in Machine PROVE UserSound(m, user[m])'
    <2>1. CASE user'[m] = user[m]
      <3>1. user[m] \in Users /\ UserSound(m, user[m])
        BY Types DEF IInv
      <3>2. \A u : u = user[m] => UserSound(m, u)'
        BY <3>1, UserKept
      <3> QED BY <2>1, <3>2 DEF UserSound
    <2> QED BY <2>1
  <1>2. ASSUME NEW m \in Machine, NEW p \in Machine
        PROVE  offer'[m][p].heads \subseteq Reach(p)'
    <2>1. offer[m][p].heads \subseteq Reach(p)
      BY DEF IInv
    <2>2. heads[p] \subseteq Reach(p)
      BY IInvParts
    <2>3. Reach(p) \subseteq Reach(p)'
      BY DEF Grown
    <2> QED BY <2>1, <2>2, <2>3
  <1>3. ASSUME NEW m \in Machine, NEW s \in Slot PROVE FetchSound(m, fetch[m][s])'
    <2>1. CASE fetch'[m][s] = fetch[m][s]
      <3>1. fetch[m][s] \in Fetches /\ FetchSound(m, fetch[m][s])
        BY Types DEF IInv
      <3>2. \A f : f = fetch[m][s] => FetchSound(m, f)'
        BY <3>1, FetchKept
      <3> QED BY <2>1, <3>2 DEF FetchSound, RangeSound
    <2>2. CASE fetch'[m][s] = NoFetch(m)
      <3>1. \A f : f = NoFetch(m) => FetchSound(m, f)'
        BY NoFetchSoundNext
      <3> QED BY <2>2, <3>1 DEF FetchSound, RangeSound
    <2> QED BY <2>1, <2>2
  <1> QED BY <1>1, <1>2, <1>3 DEF IInv

-----------------------------------------------------------------------------
\* What the steps change: nothing on disk, a store, or the heads.

LEMMA SameData ==
    ASSUME IInv, UNCHANGED <<anc, store, heads>>
    PROVE  /\ Grown /\ AncestrySound' /\ \A m \in Machine : StoreSound(m)'
           /\ \A m \in Machine : Reach(m)' = Reach(m)
  <1>1. \A m \in Machine : Reach(m)' = Reach(m)
    BY DEF Reach, AncestorsOf
  <1>2. Grown
    BY <1>1 DEF Grown
  <1>3. AncestrySound'
    BY DEF IInv, AncestrySound
  <1>4. \A m \in Machine : StoreSound(m)'
    BY DEF IInv, StoreSound
  <1> QED BY <1>1, <1>2, <1>3, <1>4

\* A store takes more, its ancestry first.
LEMMA StoreGrows ==
    ASSUME IInv, NEW m \in Machine, NEW st \in Stores, store' = [store EXCEPT ![m] = st],
           UNCHANGED <<anc, heads>>,
           store[m].trees \subseteq st.trees, store[m].commits \subseteq st.commits,
           store[m].views \subseteq st.views, store[m].ops \subseteq st.ops,
           \A o \in st.ops \cup st.commits : anc[o] # {},
           \A c \in st.commits : anc[c] \subseteq st.commits \cap st.trees,
           \A o \in st.ops : anc[o] \subseteq st.ops \cap st.views,
           st.ops \subseteq st.commits
    PROVE  /\ Grown /\ AncestrySound' /\ \A n \in Machine : StoreSound(n)'
           /\ store' \in [Machine -> Stores]
           /\ \A n \in Machine : Reach(n)' = Reach(n)
  <1>1. /\ store' \in [Machine -> Stores] /\ store'[m] = st
        /\ \A n \in Machine \ {m} : store'[n] = store[n]
    BY DEF IInv, TypeOK
  <1>2. \A n \in Machine : Reach(n)' = Reach(n)
    BY DEF Reach, AncestorsOf
  <1>3. Grown
    BY <1>1, <1>2 DEF Grown
  <1>4. AncestrySound'
    BY DEF IInv, AncestrySound
  <1>5. ASSUME NEW n \in Machine PROVE StoreSound(n)'
    <2>1. StoreSound(n)
      BY DEF IInv
    <2>2. CASE n = m
      BY <1>1, <2>1, <2>2 DEF StoreSound
    <2>3. CASE n # m
      BY <1>1, <2>1, <2>3 DEF StoreSound
    <2> QED BY <2>2, <2>3
  <1> QED BY <1>1, <1>2, <1>3, <1>4, <1>5

\* The heads are replaced by stored ones that cover them.
LEMMA HeadsChange ==
    ASSUME IInv, NEW m \in Machine, NEW hs \in SUBSET store[m].ops,
           heads' = [heads EXCEPT ![m] = hs], UNCHANGED <<anc, store>>,
           \A h \in heads[m] : \E k \in hs : h \in anc[k]
    PROVE  /\ Grown /\ AncestrySound' /\ \A n \in Machine : StoreSound(n)'
           /\ heads' \in [Machine -> SUBSET Op]
           /\ \A n \in Machine \ {m} : Reach(n)' = Reach(n)
           /\ Reach(m)' = AncestorsOf(hs)
  <1>1. /\ heads' \in [Machine -> SUBSET Op] /\ heads'[m] = hs
        /\ \A n \in Machine \ {m} : heads'[n] = heads[n]
    <2>1. hs \in SUBSET Op
      BY Types, IInvParts
    <2> QED BY <2>1 DEF IInv, TypeOK
  <1>2. Reach(m)' = AncestorsOf(hs)
    BY <1>1 DEF Reach, AncestorsOf
  <1>3. \A n \in Machine \ {m} : Reach(n)' = Reach(n)
    BY <1>1 DEF Reach, AncestorsOf
  <1>4. Reach(m) \subseteq AncestorsOf(hs)
    <2>1. hs \in SUBSET Op
      BY Types, IInvParts
    <2>2. \A h \in heads[m] : h \in AncestorsOf(hs)
      BY InAncestors
    <2>3. \A h \in heads[m] : anc[h] \subseteq AncestorsOf(hs)
      BY <2>1, <2>2, AncestorsClosed DEF IInv
    <2> QED BY <2>3, InAncestors DEF Reach
  <1>5. Grown
    BY <1>2, <1>3, <1>4 DEF Grown
  <1>6. AncestrySound'
    BY DEF IInv, AncestrySound
  <1>7. ASSUME NEW n \in Machine PROVE StoreSound(n)'
    <2>1. StoreSound(n)
      BY DEF IInv
    <2>2. heads'[n] \subseteq store[n].ops
      BY <1>1, <2>1 DEF StoreSound
    <2> QED BY <2>1, <2>2 DEF StoreSound
  <1> QED BY <1>1, <1>2, <1>3, <1>5, <1>6, <1>7

LEMMA SetUser ==
    ASSUME TypeOK, NEW m \in Machine, NEW u \in Users, user' = [user EXCEPT ![m] = u]
    PROVE  /\ user' \in [Machine -> Users]
           /\ user'[m] = u
           /\ \A n \in Machine \ {m} : user'[n] = user[n]
  BY DEF TypeOK

\* A fetch moves on to g, which is sound once the step is done, and the rest
\* that changes only grows.
LEMMA FetchMoves ==
    ASSUME IInv, Grown, AncestrySound', \A n \in Machine : StoreSound(n)',
           NEW m \in Machine, NEW s \in Slot, NEW g \in Fetches,
           fetch' = [fetch EXCEPT ![m][s] = g], FetchSound(m, g)',
           store' \in [Machine -> Stores], heads' \in [Machine -> SUBSET Op],
           UNCHANGED <<anc, user, offer, lingering, scenario>>
    PROVE  IInv'
  <1>1. TypeOK
    BY DEF IInv
  <1>2. /\ fetch' \in [Machine -> [Slot -> Fetches]]
        /\ fetch'[m][s] = g
        /\ \A n \in Machine, r \in Slot : n # m \/ r # s => fetch'[n][r] = fetch[n][r]
    BY <1>1 DEF TypeOK
  <1>3. TypeOK'
    BY <1>1, <1>2 DEF TypeOK
  <1>4. ASSUME NEW n \in Machine, NEW r \in Slot
        PROVE  fetch'[n][r] = fetch[n][r] \/ FetchSound(n, fetch[n][r])'
    <2>1. CASE n = m /\ r = s
      <3>1. FetchSound(m, fetch[m][s])'
        BY <1>2 DEF FetchSound, RangeSound
      <3> QED BY <2>1, <3>1
    <2>2. CASE n # m \/ r # s
      BY <1>2, <2>2
    <2> QED BY <2>1, <2>2
  <1>5. \A n \in Machine : user'[n] = user[n]
    OBVIOUS
  <1>6. \A n, p \in Machine : offer'[n][p].heads = offer[n][p].heads
    OBVIOUS
  <1> QED BY <1>3, <1>4, <1>5, <1>6, GrowingStep

-----------------------------------------------------------------------------
\* The steps of a fetch.

\* What is known of a fetch under way.
LEMMA Known ==
    ASSUME IInv, NEW m \in Machine, NEW s \in Slot
    PROVE  /\ fetch[m][s] \in Fetches /\ FetchSound(m, fetch[m][s])
           /\ fetch[m][s].peer \in Machine
           /\ fetch[m][s].wants \in SUBSET Op /\ fetch[m][s].localHeads \in SUBSET Op
           /\ fetch[m][s].batch \in SUBSET Op /\ fetch[m][s].range \in SUBSET Op
           /\ fetch[m][s].toPublish \in SUBSET Op
  <1>1. fetch[m][s] \in Fetches /\ FetchSound(m, fetch[m][s])
    BY Types DEF IInv
  <1> QED BY <1>1 DEF Fetches

\* A fetch moves on to g and nothing else changes.
LEMMA FetchOnly ==
    ASSUME IInv, NEW m \in Machine, NEW s \in Slot, NEW g \in Fetches, FetchSound(m, g),
           fetch' = [fetch EXCEPT ![m][s] = g],
           UNCHANGED <<anc, store, heads, user, offer, lingering, scenario>>
    PROVE  IInv'
  <1>1. Grown /\ AncestrySound' /\ \A n \in Machine : StoreSound(n)'
    BY SameData
  <1>2. FetchSound(m, g)'
    BY <1>1, FetchKept
  <1>3. store' \in [Machine -> Stores] /\ heads' \in [Machine -> SUBSET Op]
    BY DEF IInv, TypeOK
  <1> QED BY <1>1, <1>2, <1>3, FetchMoves

\* The server has what it announced, and what it leaves out of its answer is
\* stored here: the haves it knows are, with their ancestry.
LEMMA HonestDelta ==
    ASSUME IInv, NEW m \in Machine, NEW p \in Machine, NEW wants \in SUBSET Reach(p),
           NEW localHeads \in SUBSET store[m].ops, NEW haves \in SampledHaves(localHeads)
    PROVE  /\ AncestorsUntil(p, wants, haves) \in SUBSET Op
           /\ Serves(p, wants)
           /\ ValidBatch(m, wants, AncestorsUntil(p, wants, haves))
  <1> DEFINE batch == AncestorsUntil(p, wants, haves)
             known == haves \cap store[p].ops
  <1>1. /\ wants \in SUBSET Op /\ \A w \in wants : anc[w] # {}
        /\ wants \subseteq store[p].ops
    BY IInvParts
  <1>2. localHeads \in SUBSET Op
    BY Types, IInvParts
  <1>3. haves \subseteq store[m].ops
    <2>1. \A h \in localHeads : anc[h] \subseteq store[m].ops
      BY IInvParts DEF StoreSound
    <2>2. AncestorsOf(localHeads) \subseteq store[m].ops
      BY <2>1, InAncestors
    <2> QED BY <2>2 DEF SampledHaves
  <1>4. AncestorsOf(known) \subseteq store[m].ops
    <2>1. \A h \in known : anc[h] \subseteq store[m].ops
      BY <1>3, IInvParts DEF StoreSound
    <2> QED BY <2>1, InAncestors
  <1>5. batch = AncestorsOf(wants) \ AncestorsOf(known)
    BY DEF AncestorsUntil
  <1>6. /\ AncestorsOf(wants) \in SUBSET Op
        /\ \A a \in AncestorsOf(wants) : anc[a] \subseteq AncestorsOf(wants)
        /\ wants \subseteq AncestorsOf(wants)
    BY <1>1, AncestorsClosed DEF IInv
  <1> HIDE DEF known, batch
  <1>7. \A o \in batch : anc[o] \subseteq batch \cup store[m].ops
    BY <1>4, <1>5, <1>6
  <1>8. wants \subseteq batch \cup store[m].ops
    BY <1>4, <1>5, <1>6
  <1>9. batch \in SUBSET Op /\ batch \subseteq AncestorsOf(wants)
    BY <1>5, <1>6
  <1>10. ValidBatch(m, wants, batch)
    BY <1>7, <1>8, <1>9 DEF ValidBatch
  <1> QED BY <1>1, <1>9, <1>10 DEF batch, Serves

LEMMA ReceiveOpsIInv ==
    ASSUME IInv, NEW m \in Machine, NEW s \in Slot, ReceiveOps(m, s)
    PROVE  IInv'
  <1> DEFINE f == fetch[m][s]
  <1>1. PICK haves \in SampledHaves(f.localHeads) :
            LET batch == AncestorsUntil(f.peer, f.wants, haves)
                ok == Serves(f.peer, f.wants) /\ ValidBatch(m, f.wants, batch)
            IN  fetch' = [fetch EXCEPT ![m][s] =
                      [f EXCEPT !.batch = batch, !.phase = IF ok THEN "received" ELSE "invalid"]]
    BY DEF ReceiveOps
  <1> DEFINE batch == AncestorsUntil(f.peer, f.wants, haves)
             g == [f EXCEPT !.batch = batch, !.phase = "received"]
  <1>2. f \in Fetches /\ FetchSound(m, f) /\ f.peer \in Machine
    BY Known
  <1>3. f.wants \in SUBSET Reach(f.peer) /\ f.localHeads \in SUBSET store[m].ops
    BY <1>2 DEF FetchSound
  <1>4. /\ batch \in SUBSET Op /\ Serves(f.peer, f.wants) /\ ValidBatch(m, f.wants, batch)
    BY <1>2, <1>3, HonestDelta
  <1>5. fetch' = [fetch EXCEPT ![m][s] = g]
    BY <1>1, <1>4
  <1> HIDE DEF batch
  <1>6. /\ g \in Fetches /\ g.phase = "received" /\ g.batch = batch
        /\ g.wants = f.wants /\ g.localHeads = f.localHeads /\ g.peer = f.peer
    BY <1>2, <1>4 DEF Fetches
  <1> HIDE DEF f, g
  <1>7. FetchSound(m, g)
    BY <1>2, <1>4, <1>6 DEF FetchSound
  <1> QED BY <1>5, <1>6, <1>7, FetchOnly DEF ReceiveOps

\* Git objects: the server has the commits of what it shows, and what it
\* leaves out is stored here.
LEMMA HonestRange ==
    ASSUME IInv, NEW m \in Machine, NEW p \in Machine, NEW wants \in SUBSET Reach(p),
           NEW batch \in SUBSET AncestorsOf(wants), NEW gitHaves \in SUBSET store[m].commits
    PROVE  LET missing == batch \ store[m].commits
               range == CommitRange(p, gitHaves, missing)
           IN  /\ range \in SUBSET Op
               /\ ServesGit(p, missing)
               /\ \A c \in range : c \in anc[c] /\ anc[c] \subseteq range \cup store[m].commits
               /\ batch \subseteq range \cup store[m].commits
  <1> DEFINE missing == batch \ store[m].commits
             known == gitHaves \cap Reach(p)
             range == CommitRange(p, gitHaves, missing)
  <1>1. batch \subseteq Reach(p)
    BY IInvParts, InAncestors
  <1>2. /\ missing \in SUBSET Op /\ missing \subseteq Reach(p)
        /\ \A c \in missing : anc[c] # {}
    BY <1>1, IInvParts
  <1>3. AncestorsOf(known) \subseteq store[m].commits
    <2>1. \A c \in known : anc[c] \subseteq store[m].commits
      BY IInvParts DEF StoreSound
    <2> QED BY <2>1, InAncestors
  <1>4. range = AncestorsOf(missing) \ AncestorsOf(known)
    BY DEF CommitRange
  <1>5. /\ AncestorsOf(missing) \in SUBSET Op
        /\ \A a \in AncestorsOf(missing) :
              a \in anc[a] /\ anc[a] \subseteq AncestorsOf(missing)
        /\ missing \subseteq AncestorsOf(missing)
    BY <1>2, AncestorsClosed DEF IInv
  <1>6. batch \subseteq missing \cup store[m].commits
    OBVIOUS
  <1> HIDE DEF missing, known, range
  <1>7. \A c \in range : c \in anc[c] /\ anc[c] \subseteq range \cup store[m].commits
    BY <1>3, <1>4, <1>5
  <1>8. batch \subseteq range \cup store[m].commits
    BY <1>3, <1>4, <1>5, <1>6
  <1>9. range \in SUBSET Op /\ ServesGit(p, missing)
    BY <1>2, <1>4, <1>5 DEF ServesGit
  <1> QED BY <1>7, <1>8, <1>9 DEF range, missing

LEMMA RequestGitIInv ==
    ASSUME IInv, NEW m \in Machine, NEW s \in Slot, RequestGit(m, s)
    PROVE  IInv'
  <1> DEFINE f == fetch[m][s]
             missing == f.batch \ store[m].commits
             gitHaves == f.localHeads \cup (f.batch \cap store[m].commits)
             range == CommitRange(f.peer, gitHaves, missing)
             g == [f EXCEPT !.range = range, !.phase = "objects"]
  <1>1. f \in Fetches /\ FetchSound(m, f) /\ f.peer \in Machine /\ f.phase = "received"
    BY Known DEF RequestGit
  <1>2. /\ f.wants \in SUBSET Reach(f.peer)
        /\ ValidBatch(m, f.wants, f.batch)
        /\ f.batch \in SUBSET AncestorsOf(f.wants)
    BY <1>1 DEF FetchSound, ValidBatch
  <1>3. gitHaves \in SUBSET store[m].commits
    BY <1>1, IInvParts DEF FetchSound, StoreSound
  <1> HIDE DEF gitHaves
  <1>4. /\ range \in SUBSET Op
        /\ ServesGit(f.peer, missing)
        /\ \A c \in range : c \in anc[c] /\ anc[c] \subseteq range \cup store[m].commits
        /\ f.batch \subseteq range \cup store[m].commits
    BY <1>1, <1>2, <1>3, HonestRange
  <1>5. fetch' = [fetch EXCEPT ![m][s] = g]
    BY <1>4 DEF RequestGit, gitHaves
  <1> HIDE DEF range, missing
  <1>6. /\ g \in Fetches /\ g.phase = "objects" /\ g.range = range /\ g.batch = f.batch
        /\ g.wants = f.wants /\ g.localHeads = f.localHeads /\ g.peer = f.peer
    BY <1>1, <1>4 DEF Fetches
  <1> HIDE DEF f, g
  <1>7. FetchSound(m, g)
    BY <1>1, <1>2, <1>4, <1>6 DEF FetchSound, RangeSound
  <1> QED BY <1>5, <1>6, <1>7, FetchOnly DEF RequestGit

LEMMA StartApplyIInv ==
    ASSUME IInv, NEW m \in Machine, NEW s \in Slot, StartApply(m, s)
    PROVE  IInv'
  <1> DEFINE f == fetch[m][s]
             g == [f EXCEPT !.phase = "views"]
  <1>1. f \in Fetches /\ FetchSound(m, f) /\ f.phase = "objects"
    BY Known DEF StartApply
  <1>2. f.batch \subseteq store[m].commits
    BY <1>1 DEF FetchSound, RangeSound, StartApply, Unwritten
  <1>3. fetch' = [fetch EXCEPT ![m][s] = g]
    BY <1>2 DEF StartApply
  <1>4. /\ g \in Fetches /\ g.phase = "views" /\ g.batch = f.batch
        /\ g.wants = f.wants /\ g.localHeads = f.localHeads /\ g.peer = f.peer
    BY <1>1 DEF Fetches
  <1> HIDE DEF f, g
  <1>5. FetchSound(m, g)
    BY <1>1, <1>2, <1>4 DEF FetchSound
  <1> QED BY <1>3, <1>4, <1>5, FetchOnly DEF StartApply

LEMMA EndFetchIInv ==
    ASSUME IInv, NEW m \in Machine, NEW s \in Slot, EndFetch(m, s)
    PROVE  IInv'
  <1>1. NoFetch(m) \in Fetches /\ FetchSound(m, NoFetch(m))
    BY NoFetchSound
  <1>2. fetch' = [fetch EXCEPT ![m][s] = NoFetch(m)]
    BY DEF EndFetch
  <1> QED BY <1>1, <1>2, FetchOnly DEF EndFetch

-----------------------------------------------------------------------------
\* The steps that write to a store.

\* A store takes more and nothing else changes.
LEMMA StoreOnly ==
    ASSUME IInv, NEW m \in Machine, NEW st \in Stores, store' = [store EXCEPT ![m] = st],
           UNCHANGED <<anc, heads, user, offer, fetch, lingering, scenario>>,
           store[m].trees \subseteq st.trees, store[m].commits \subseteq st.commits,
           store[m].views \subseteq st.views, store[m].ops \subseteq st.ops,
           \A o \in st.ops \cup st.commits : anc[o] # {},
           \A c \in st.commits : anc[c] \subseteq st.commits \cap st.trees,
           \A o \in st.ops : anc[o] \subseteq st.ops \cap st.views,
           st.ops \subseteq st.commits
    PROVE  IInv'
  <1>1. /\ Grown /\ AncestrySound' /\ \A n \in Machine : StoreSound(n)'
        /\ store' \in [Machine -> Stores]
    BY StoreGrows
  <1>2. TypeOK'
    BY <1>1 DEF IInv, TypeOK
  <1>3. \A n \in Machine : user'[n] = user[n]
    OBVIOUS
  <1>4. \A n, p \in Machine : offer'[n][p].heads = offer[n][p].heads
    OBVIOUS
  <1>5. \A n \in Machine, r \in Slot : fetch'[n][r] = fetch[n][r]
    OBVIOUS
  <1> QED BY <1>1, <1>2, <1>3, <1>4, <1>5, GrowingStep

\* Of what is missing from a set, the first has its other ancestors there.
LEMMA EarliestMissing ==
    ASSUME TypeOK, AncestrySound, NEW S \in SUBSET Op, NEW T \in SUBSET Op, S \ T # {},
           \A o \in S : anc[o] # {} /\ anc[o] \subseteq S \cup T
    PROVE  /\ Earliest(S \ T) \in S \ T
           /\ anc[Earliest(S \ T)] \subseteq T \cup {Earliest(S \ T)}
  <1> DEFINE e == Earliest(S \ T)
  <1>1. S \ T \in SUBSET Nat
    BY TransferAssumption
  <1>2. e \in S \ T /\ \A o \in S \ T : e <= o
    BY <1>1, EarliestFacts
  <1> HIDE DEF e
  <1>3. ASSUME NEW a \in anc[e], a \notin T PROVE a = e
    <2>1. e \in Op /\ e \in Nat
      BY <1>1, <1>2
    <2>2. a <= e
      BY <2>1 DEF AncestrySound
    <2>3. a \in S \ T
      BY <1>2, <1>3
    <2>4. e <= a /\ a \in Nat
      BY <1>1, <1>2, <2>3
    <2> QED BY <2>1, <2>2, <2>4
  <1>4. anc[e] \subseteq T \cup {e}
    BY <1>3
  <1> QED BY <1>2, <1>4 DEF e

LEMMA WriteObjectIInv ==
    ASSUME IInv, NEW m \in Machine, NEW s \in Slot, WriteObject(m, s)
    PROVE  IInv'
  <1> DEFINE f == fetch[m][s]
             old == store[m]
             c == Earliest(Unwritten(m, f))
  <1>1. /\ TypeOK /\ AncestrySound /\ old \in Stores /\ StoreSound(m)
        /\ old.trees \in SUBSET Op /\ old.commits \in SUBSET Op
    BY Types, IInvParts
  <1>2. /\ f.range \in SUBSET Op /\ RangeSound(m, f)
        /\ Unwritten(m, f) = f.range \ old.commits /\ Unwritten(m, f) # {}
    BY Known DEF FetchSound, WriteObject, Unwritten
  <1>3. /\ c \in f.range \ old.commits
        /\ anc[c] \subseteq old.commits \cup {c}
    <2>1. \A o \in f.range : anc[o] # {} /\ anc[o] \subseteq f.range \cup old.commits
      BY <1>2 DEF RangeSound
    <2> DEFINE e == Earliest(f.range \ old.commits)
    <2>2. e \in f.range \ old.commits /\ anc[e] \subseteq old.commits \cup {e}
      <3> HIDE DEF f, old
      <3> QED BY <1>1, <1>2, <2>1, EarliestMissing
    <2> QED BY <1>2, <2>2
  <1>4. c \in Op /\ anc[c] # {}
    BY <1>2, <1>3 DEF RangeSound
  <1>5. store' = NextObject(m, c)
    BY DEF WriteObject
  <1>6. UNCHANGED <<anc, heads, user, offer, fetch, lingering, scenario>>
    BY DEF WriteObject
  <1> HIDE DEF c, f
  <1>7. CASE c \notin old.trees
    <2> DEFINE st == [old EXCEPT !.trees = @ \cup {c}]
    <2>1. store' = [store EXCEPT ![m] = st]
      BY <1>5, <1>7 DEF NextObject
    <2>2. /\ st \in Stores /\ st.trees = old.trees \cup {c}
          /\ st.commits = old.commits /\ st.views = old.views /\ st.ops = old.ops
      BY <1>1, <1>4 DEF Stores
    <2> HIDE DEF st
    <2>3. /\ \A o \in st.ops \cup st.commits : anc[o] # {}
          /\ \A o \in st.commits : anc[o] \subseteq st.commits \cap st.trees
          /\ \A o \in st.ops : anc[o] \subseteq st.ops \cap st.views
          /\ st.ops \subseteq st.commits
      BY <1>1, <2>2 DEF StoreSound
    <2> QED BY <1>6, <2>1, <2>2, <2>3, StoreOnly
  <1>8. CASE c \in old.trees
    <2> DEFINE st == [old EXCEPT !.commits = @ \cup {c}]
    <2>1. store' = [store EXCEPT ![m] = st]
      BY <1>5, <1>8 DEF NextObject
    <2>2. /\ st \in Stores /\ st.commits = old.commits \cup {c}
          /\ st.trees = old.trees /\ st.views = old.views /\ st.ops = old.ops
      BY <1>1, <1>4 DEF Stores
    <2>3. old.commits \subseteq old.trees
      <3>1. \A o \in old.commits : o \in anc[o]
        BY <1>1 DEF StoreSound, AncestrySound
      <3> QED BY <1>1, <3>1 DEF StoreSound
    <2> HIDE DEF st
    <2>4. \A o \in st.commits : anc[o] \subseteq st.commits \cap st.trees
      BY <1>1, <1>3, <1>8, <2>2, <2>3 DEF StoreSound
    <2>5. /\ \A o \in st.ops \cup st.commits : anc[o] # {}
          /\ \A o \in st.ops : anc[o] \subseteq st.ops \cap st.views
          /\ st.ops \subseteq st.commits
      BY <1>1, <1>4, <2>2 DEF StoreSound
    <2> QED BY <1>6, <2>1, <2>2, <2>4, <2>5, StoreOnly
  <1> QED BY <1>7, <1>8

LEMMA IngestPackIInv ==
    ASSUME IInv, NEW m \in Machine, NEW s \in Slot, IngestPack(m, s)
    PROVE  IInv'
  <1> DEFINE range == fetch[m][s].range
             old == store[m]
             st == [old EXCEPT !.trees = @ \cup range, !.commits = @ \cup range]
  <1>1. /\ TypeOK /\ AncestrySound /\ old \in Stores /\ StoreSound(m)
    BY Types, IInvParts
  <1>2. range \in SUBSET Op /\ RangeSound(m, fetch[m][s])
    BY Known DEF FetchSound, IngestPack
  <1>3. store' = [store EXCEPT ![m] = st]
    BY DEF IngestPack, Ingested
  <1>4. /\ st \in Stores
        /\ st.trees = old.trees \cup range /\ st.commits = old.commits \cup range
        /\ st.views = old.views /\ st.ops = old.ops
    BY <1>1, <1>2 DEF Stores
  <1>5. old.commits \subseteq old.trees
    <2>1. \A o \in old.commits : o \in anc[o]
      BY <1>1, Types DEF StoreSound, AncestrySound
    <2> QED BY <1>1, <2>1 DEF StoreSound
  <1>6. /\ \A c \in range : c \in anc[c] /\ anc[c] \subseteq range \cup old.commits
    BY <1>2 DEF RangeSound
  <1> HIDE DEF range, st
  <1>7. \A c \in st.commits : anc[c] \subseteq st.commits \cap st.trees
    BY <1>1, <1>4, <1>5, <1>6 DEF StoreSound
  <1>8. /\ \A o \in st.ops \cup st.commits : anc[o] # {}
        /\ \A o \in st.ops : anc[o] \subseteq st.ops \cap st.views
        /\ st.ops \subseteq st.commits
    BY <1>1, <1>4, <1>6 DEF StoreSound
  <1>9. UNCHANGED <<anc, heads, user, offer, fetch, lingering, scenario>>
    BY DEF IngestPack
  <1> QED BY <1>3, <1>4, <1>7, <1>8, <1>9, StoreOnly

LEMMA PersistViewIInv ==
    ASSUME IInv, NEW m \in Machine, NEW s \in Slot, PersistView(m, s)
    PROVE  IInv'
  <1> DEFINE f == fetch[m][s]
             old == store[m]
             unwritten == f.batch \ old.views
  <1>1. f \in Fetches /\ FetchSound(m, f) /\ f.batch \in SUBSET Op /\ f.phase = "views"
    BY Known DEF PersistView
  <1>2. CASE unwritten # {}
    <2> DEFINE v == Earliest(unwritten)
               st == [old EXCEPT !.views = @ \cup {v}]
    <2>1. v \in Op
      BY <1>1, <1>2, EarliestFacts, TransferAssumption
    <2>2. store' = [store EXCEPT ![m] = st]
      BY <1>2 DEF PersistView
    <2>3. UNCHANGED <<anc, heads, user, offer, fetch, lingering, scenario>>
      BY <1>2 DEF PersistView
    <2>4. old \in Stores /\ StoreSound(m)
      BY Types, IInvParts
    <2> HIDE DEF v
    <2>5. /\ st \in Stores
          /\ st.trees = old.trees /\ st.commits = old.commits
          /\ st.views = old.views \cup {v} /\ st.ops = old.ops
      BY <2>1, <2>4 DEF Stores
    <2> HIDE DEF st
    <2>6. /\ \A o \in st.ops \cup st.commits : anc[o] # {}
          /\ \A o \in st.commits : anc[o] \subseteq st.commits \cap st.trees
          /\ \A o \in st.ops : anc[o] \subseteq st.ops \cap st.views
          /\ st.ops \subseteq st.commits
      BY <2>4, <2>5 DEF StoreSound
    <2> QED BY <2>2, <2>3, <2>5, <2>6, StoreOnly
  <1>3. CASE unwritten = {}
    <2> DEFINE g == [f EXCEPT !.phase = "ops"]
    <2>1. fetch' = [fetch EXCEPT ![m][s] = g] /\ UNCHANGED store
      BY <1>3 DEF PersistView
    <2>2. /\ g \in Fetches /\ g.phase = "ops" /\ g.batch = f.batch
          /\ g.wants = f.wants /\ g.localHeads = f.localHeads /\ g.peer = f.peer
      BY <1>1 DEF Fetches
    <2>3. f.batch \subseteq old.views
      BY <1>3
    <2> HIDE DEF f, g
    <2>4. FetchSound(m, g)
      BY <1>1, <2>2, <2>3 DEF FetchSound
    <2> QED BY <2>1, <2>2, <2>4, FetchOnly DEF PersistView
  <1> QED BY <1>2, <1>3

LEMMA PersistOpIInv ==
    ASSUME IInv, NEW m \in Machine, NEW s \in Slot, PersistOp(m, s)
    PROVE  IInv'
  <1> DEFINE f == fetch[m][s]
             old == store[m]
             unwritten == f.batch \ old.ops
  <1>1. /\ f \in Fetches /\ FetchSound(m, f) /\ f.phase = "ops"
        /\ f.batch \in SUBSET Op /\ f.wants \in SUBSET Op
    BY Known DEF PersistOp
  <1>2. /\ TypeOK /\ AncestrySound /\ old \in Stores /\ StoreSound(m)
        /\ old.ops \in SUBSET Op
    BY Types, IInvParts
  <1>3. /\ f.batch \subseteq old.commits /\ f.batch \subseteq old.views
        /\ f.batch \subseteq AncestorsOf(f.wants)
        /\ \A o \in f.batch : anc[o] \subseteq f.batch \cup old.ops
    BY <1>1 DEF FetchSound, ValidBatch
  <1>4. \A o \in f.batch : anc[o] # {}
    BY <1>1, <1>2, <1>3, AncestorsClosed
  <1>5. CASE unwritten # {}
    <2> DEFINE o == Earliest(unwritten)
               st == [old EXCEPT !.ops = @ \cup {o}]
    <2>1. o \in f.batch \ old.ops /\ anc[o] \subseteq old.ops \cup {o}
      <3>1. \A a \in f.batch : anc[a] # {} /\ anc[a] \subseteq f.batch \cup old.ops
        BY <1>3, <1>4
      <3>2. TypeOK /\ AncestrySound /\ f.batch \in SUBSET Op /\ old.ops \in SUBSET Op
        BY <1>1, <1>2
      <3> HIDE DEF f, old
      <3> QED BY <1>5, <3>1, <3>2, EarliestMissing
    <2>2. store' = [store EXCEPT ![m] = st]
      BY <1>5 DEF PersistOp, NextOp
    <2>3. UNCHANGED <<anc, heads, user, offer, fetch, lingering, scenario>>
      BY <1>5 DEF PersistOp
    <2>4. old.ops \subseteq old.views
      <3>1. \A a \in old.ops : a \in anc[a]
        BY <1>2 DEF StoreSound, AncestrySound
      <3> QED BY <1>2, <3>1 DEF StoreSound
    <2> HIDE DEF o
    <2>5. /\ st \in Stores
          /\ st.trees = old.trees /\ st.commits = old.commits
          /\ st.views = old.views /\ st.ops = old.ops \cup {o}
      BY <1>1, <1>2, <2>1 DEF Stores
    <2> HIDE DEF st, f
    <2>6. \A a \in st.ops : anc[a] \subseteq st.ops \cap st.views
      BY <1>2, <1>3, <2>1, <2>4, <2>5 DEF StoreSound
    <2>7. /\ \A a \in st.ops \cup st.commits : anc[a] # {}
          /\ \A a \in st.commits : anc[a] \subseteq st.commits \cap st.trees
          /\ st.ops \subseteq st.commits
      BY <1>2, <1>3, <1>4, <2>1, <2>5 DEF StoreSound
    <2> QED BY <2>2, <2>3, <2>5, <2>6, <2>7, StoreOnly
  <1>6. CASE unwritten = {}
    <2> DEFINE g == [f EXCEPT !.phase = "publish", !.toPublish = f.wants \ f.localHeads]
    <2>1. fetch' = [fetch EXCEPT ![m][s] = g] /\ UNCHANGED store
      BY <1>6 DEF PersistOp
    <2>2. /\ g \in Fetches /\ g.phase = "publish" /\ g.batch = f.batch
          /\ g.wants = f.wants /\ g.localHeads = f.localHeads /\ g.peer = f.peer
          /\ g.toPublish = f.wants \ f.localHeads
      BY <1>1 DEF Fetches
    <2>3. f.batch \subseteq old.ops
      BY <1>6
    <2> HIDE DEF f, g
    <2>4. FetchSound(m, g)
      BY <1>1, <2>2, <2>3 DEF FetchSound
    <2> QED BY <2>1, <2>2, <2>4, FetchOnly DEF PersistOp
  <1> QED BY <1>5, <1>6

-----------------------------------------------------------------------------
\* The steps that change the heads.

LEMMA PublishHeadIInv ==
    ASSUME IInv, NEW m \in Machine, NEW s \in Slot, PublishHead(m, s)
    PROVE  /\ IInv'
           /\ \A n \in Machine \ {m} : Reach(n)' = Reach(n)
           /\ \E o \in Reach(fetch[m][s].peer) : Reach(m)' = Reach(m) \cup anc[o]
  <1>1. PICK f \in Fetches : f = fetch[m][s]
    BY Known
  <1> DEFINE want == Earliest(f.toPublish)
             hs == heads[m] \cup {want}
             g == [f EXCEPT !.phase = "unlist"]
  <1>2. /\ FetchSound(m, f) /\ f.phase = "publish" /\ f.toPublish # {}
        /\ heads' = [heads EXCEPT ![m] = hs]
        /\ fetch' = [fetch EXCEPT ![m][s] = g]
        /\ UNCHANGED <<anc, store, user, offer, lingering, scenario>>
    BY <1>1, Known DEF PublishHead
  <1>3. f.toPublish \in SUBSET Op
    BY DEF Fetches
  <1>4. want \in f.toPublish /\ want \in Op
    BY <1>2, <1>3, EarliestFacts, TransferAssumption
  <1>5. want \in store[m].ops
    BY <1>2, <1>4 DEF FetchSound, ValidBatch
  <1>6. want \in anc[want]
    BY <1>4, <1>5, IInvParts DEF StoreSound, AncestrySound
  <1> HIDE DEF want
  <1>7. hs \in SUBSET store[m].ops
    BY <1>5, IInvParts DEF StoreSound
  <1>8. \A h \in heads[m] : h \in hs /\ h \in anc[h]
    BY IInvParts
  <1> HIDE DEF hs
  <1>9. /\ Grown /\ AncestrySound' /\ \A n \in Machine : StoreSound(n)'
        /\ heads' \in [Machine -> SUBSET Op]
        /\ \A n \in Machine \ {m} : Reach(n)' = Reach(n)
        /\ Reach(m)' = AncestorsOf(hs)
    BY <1>2, <1>7, <1>8, HeadsChange
  <1>10. want \in Reach(m)'
    BY <1>6, <1>9, InAncestors DEF hs
  <1>11. FetchSound(m, f)'
    BY <1>2, <1>9, FetchKept
  <1>12. PICK x \in Fetches : x = g
    BY DEF Fetches
  <1>13. /\ x.phase = "unlist" /\ x.batch = f.batch /\ x.wants = f.wants
         /\ x.localHeads = f.localHeads /\ x.peer = f.peer /\ x.toPublish = f.toPublish
    BY <1>12 DEF Fetches
  <1>14. Earliest(x.toPublish) \in Reach(m)' /\ x.toPublish # {}
    BY <1>2, <1>10, <1>13 DEF want
  <1>15. FetchSound(m, x)'
    BY <1>2, <1>11, <1>13, <1>14 DEF FetchSound
  <1>16. store' \in [Machine -> Stores]
    BY <1>2 DEF IInv, TypeOK
  <1>17. IInv'
    BY <1>2, <1>9, <1>12, <1>15, <1>16, FetchMoves
  <1>18. Reach(m)' = Reach(m) \cup anc[want]
    BY <1>9, InAncestors DEF Reach, hs
  <1>19. want \in Reach(fetch[m][s].peer)
    BY <1>1, <1>2, <1>4 DEF FetchSound
  <1> QED BY <1>9, <1>17, <1>18, <1>19

\* A head that is unlisted is a proper ancestor of the want, which some other
\* head shows: it cannot show the want itself.
LEMMA UnlistCoveredIInv ==
    ASSUME IInv, NEW m \in Machine, NEW s \in Slot, UnlistCovered(m, s)
    PROVE  IInv' /\ \A n \in Machine : Reach(n)' = Reach(n)
  <1>1. PICK f \in Fetches : f = fetch[m][s]
    BY Known
  <1> DEFINE want == Earliest(f.toPublish)
             g == [f EXCEPT !.phase = "publish", !.toPublish = @ \ {want}]
  <1>2. PICK covered \in SUBSET SupersededBy(want, f.localHeads) :
           heads' = [heads EXCEPT ![m] = @ \ covered]
    BY <1>1 DEF UnlistCovered
  <1>3. /\ FetchSound(m, f) /\ f.phase = "unlist"
        /\ fetch' = [fetch EXCEPT ![m][s] = g]
        /\ UNCHANGED <<anc, store, user, offer, lingering, scenario>>
    BY <1>1, Known DEF UnlistCovered
  <1>4. want \in Reach(m)
    BY <1>3 DEF FetchSound
  <1> HIDE DEF want
  <1> DEFINE hs == heads[m] \ covered
  <1>5. PICK k \in heads[m] : want \in anc[k]
    BY <1>4, InAncestors DEF Reach
  <1>6. k \in Op /\ want \in Op /\ \A h \in heads[m] : h \in Op /\ h \in anc[h]
    BY <1>4, IInvParts
  <1>7. k \notin covered
    <2> SUFFICES ASSUME k \in covered PROVE FALSE
      OBVIOUS
    <2>1. k \in anc[want] \ {want}
      BY <1>2 DEF SupersededBy
    <2>2. k <= want /\ want <= k
      BY <1>5, <1>6, <2>1 DEF IInv, AncestrySound
    <2>3. k \in Nat /\ want \in Nat
      BY <1>6, TransferAssumption
    <2> QED BY <2>1, <2>2, <2>3
  <1>8. ASSUME NEW h \in heads[m] PROVE \E l \in hs : h \in anc[l]
    <2>1. CASE h \notin covered
      BY <1>6, <2>1
    <2>2. CASE h \in covered
      <3>1. h \in anc[want]
        BY <1>2, <2>2 DEF SupersededBy
      <3>2. anc[want] \subseteq anc[k]
        BY <1>5, <1>6 DEF IInv, AncestrySound
      <3> QED BY <1>7, <3>1, <3>2
    <2> QED BY <2>1, <2>2
  <1>9. hs \in SUBSET store[m].ops
    BY IInvParts DEF StoreSound
  <1> HIDE DEF hs
  <1>10. heads' = [heads EXCEPT ![m] = hs]
    BY <1>2 DEF hs
  <1>11. /\ Grown /\ AncestrySound' /\ \A n \in Machine : StoreSound(n)'
         /\ heads' \in [Machine -> SUBSET Op]
         /\ \A n \in Machine \ {m} : Reach(n)' = Reach(n)
         /\ Reach(m)' = AncestorsOf(hs)
    BY <1>3, <1>8, <1>9, <1>10, HeadsChange
  <1>12. FetchSound(m, f)'
    BY <1>3, <1>11, FetchKept
  <1>13. PICK x \in Fetches : x = g
    BY DEF Fetches
  <1>14. /\ x.phase = "publish" /\ x.batch = f.batch /\ x.wants = f.wants
         /\ x.localHeads = f.localHeads /\ x.peer = f.peer
         /\ x.toPublish \subseteq f.toPublish
    BY <1>13 DEF Fetches
  <1>15. FetchSound(m, x)'
    BY <1>3, <1>12, <1>14 DEF FetchSound
  <1>16. store' \in [Machine -> Stores]
    BY <1>3 DEF IInv, TypeOK
  <1>17. IInv'
    BY <1>3, <1>11, <1>13, <1>15, <1>16, FetchMoves
  <1>18. Reach(m)' = Reach(m)
    <2>1. Reach(m)' \subseteq Reach(m)
      BY <1>11, InAncestors DEF Reach, hs
    <2> QED BY <1>11, <2>1 DEF Grown
  <1> QED BY <1>11, <1>17, <1>18

-----------------------------------------------------------------------------
\* The steps that change nothing on disk.

LEMMA QuietStep ==
    ASSUME IInv, TypeOK', UNCHANGED <<anc, store, heads>>,
           \A m \in Machine : user'[m] = user[m] \/ UserSound(m, user'[m]),
           \A m, p \in Machine :
              offer'[m][p].heads \in {{}, offer[m][p].heads, heads[p]},
           \A m \in Machine, s \in Slot :
              fetch'[m][s] = fetch[m][s] \/ FetchSound(m, fetch'[m][s])
    PROVE  IInv'
  <1>1. Grown /\ AncestrySound' /\ \A m \in Machine : StoreSound(m)'
    BY SameData
  <1>2. ASSUME NEW m \in Machine, UserSound(m, user'[m]) PROVE UserSound(m, user[m])'
    <2>1. user'[m] \in Users
      BY DEF TypeOK
    <2>2. PICK u \in Users : u = user'[m]
      BY <2>1
    <2>3. UserSound(m, u)'
      BY <1>1, <1>2, <2>2, UserKept
    <2> QED BY <2>2, <2>3 DEF UserSound
  <1>3. ASSUME NEW m \in Machine, NEW s \in Slot, FetchSound(m, fetch'[m][s])
        PROVE  FetchSound(m, fetch[m][s])'
    <2>1. fetch'[m][s] \in Fetches
      BY DEF TypeOK
    <2>2. PICK f \in Fetches : f = fetch'[m][s]
      BY <2>1
    <2>3. FetchSound(m, f)'
      BY <1>1, <1>3, <2>2, FetchKept
    <2> QED BY <2>2, <2>3 DEF FetchSound, RangeSound
  <1> QED BY <1>1, <1>2, <1>3, GrowingStep

\* An offer is drained, or to be drained again.
LEMMA SetDrained ==
    ASSUME TypeOK, NEW m \in Machine, NEW p \in Machine, NEW d \in BOOLEAN
    PROVE  offer' = [offer EXCEPT ![m][p].drained = d] =>
              /\ offer' \in [Machine -> [Machine -> Offers]]
              /\ \A n, q \in Machine : offer'[n][q].heads = offer[n][q].heads
  <1> DEFINE o == [offer[m][p] EXCEPT !.drained = d]
             changed == [offer EXCEPT ![m][p] = o]
  <1>1. offer[m][p] \in Offers
    BY Types
  <1>2. o \in Offers /\ o.heads = offer[m][p].heads
    BY <1>1 DEF Offers
  <1>3. changed = [offer EXCEPT ![m][p].drained = d]
    OBVIOUS
  <1> HIDE DEF o
  <1>4. /\ changed \in [Machine -> [Machine -> Offers]]
        /\ changed[m][p] = o
        /\ \A n, q \in Machine : n # m \/ q # p => changed[n][q] = offer[n][q]
    BY <1>2 DEF TypeOK
  <1> HIDE DEF changed
  <1>5. \A n, q \in Machine : changed[n][q].heads = offer[n][q].heads
    BY <1>2, <1>4
  <1> QED BY <1>3, <1>4, <1>5

\* What m and its peers heard of each other is forgotten.
LEMMA ForgetOffers ==
    ASSUME TypeOK, NEW m \in Machine,
           offer' = [n \in Machine |-> [p \in Machine |->
                        IF n = m \/ p = m THEN NoOffer ELSE offer[n][p]]]
    PROVE  /\ offer' \in [Machine -> [Machine -> Offers]]
           /\ \A n, q \in Machine : offer'[n][q].heads \in {{}, offer[n][q].heads}
  <1>1. NoOffer \in Offers /\ NoOffer.heads = {}
    BY DEF NoOffer, Offers
  <1>2. \A n, q \in Machine : offer[n][q] \in Offers
    BY Types
  <1> QED BY <1>1, <1>2

\* What was offered to a registration goes with it.
LEMMA DropOffers ==
    ASSUME TypeOK, NEW m \in Machine, NEW f,
           offer' = [offer EXCEPT ![m] = [p \in Machine |-> Dropped(m, p, f)]]
    PROVE  /\ offer' \in [Machine -> [Machine -> Offers]]
           /\ \A n, q \in Machine : offer'[n][q].heads = offer[n][q].heads
  <1>1. ASSUME NEW p \in Machine
        PROVE  Dropped(m, p, f) \in Offers /\ Dropped(m, p, f).heads = offer[m][p].heads
    <2>1. PICK o \in Offers : o = offer[m][p]
      BY Types
    <2> DEFINE d == (o.dropped \/ ~ o.drained) \/ p = f.peer
    <2>2. Dropped(m, p, f) = [o EXCEPT !.drained = TRUE, !.dropped = d]
      BY <2>1 DEF Dropped
    <2>3. d \in BOOLEAN
      BY DEF Offers
    <2> HIDE DEF d
    <2> QED BY <2>1, <2>2, <2>3 DEF Offers
  <1> DEFINE row == [p \in Machine |-> Dropped(m, p, f)]
  <1>2. row \in [Machine -> Offers] /\ \A q \in Machine : row[q].heads = offer[m][q].heads
    BY <1>1
  <1>3. offer' = [offer EXCEPT ![m] = row] /\ offer \in [Machine -> [Machine -> Offers]]
    BY DEF TypeOK
  <1> HIDE DEF row
  <1>4. /\ offer' \in [Machine -> [Machine -> Offers]]
        /\ offer'[m] = row
        /\ \A n \in Machine : n # m => offer'[n] = offer[n]
    BY <1>2, <1>3
  <1>5. \A n, q \in Machine : offer'[n][q].heads = offer[n][q].heads
    BY <1>2, <1>4
  <1> QED BY <1>4, <1>5

\* The announcement of a fetch is queued again.
LEMMA RequeuedFacts ==
    ASSUME TypeOK, NEW m \in Machine, NEW f \in Fetches, offer' = Requeued(m, f)
    PROVE  /\ offer' \in [Machine -> [Machine -> Offers]]
           /\ \A n, q \in Machine : offer'[n][q].heads = offer[n][q].heads
  <1>1. f.peer \in Machine
    BY DEF Fetches
  <1>2. CASE f.orphaned
    BY <1>2 DEF Requeued, TypeOK
  <1>3. CASE ~ f.orphaned
    <2>1. offer' = [offer EXCEPT ![m][f.peer].drained = FALSE]
      BY <1>3 DEF Requeued
    <2> QED BY <1>1, <2>1, SetDrained
  <1> QED BY <1>2, <1>3

LEMMA AnnounceIInv ==
    ASSUME IInv, NEW p \in Machine, NEW m \in Machine, Announce(p, m)
    PROVE  IInv'
  <1> DEFINE o == NewOffer(heads[p])
  <1>1. TypeOK /\ o \in Offers /\ o.heads = heads[p]
    BY Types DEF IInv, Offers, NewOffer
  <1> HIDE DEF o
  <1>2. offer' = [offer EXCEPT ![m][p] = o]
    BY DEF Announce, o
  <1>3. /\ offer' \in [Machine -> [Machine -> Offers]]
        /\ offer'[m][p] = o
        /\ \A n, q \in Machine : n # m \/ q # p => offer'[n][q] = offer[n][q]
    BY <1>1, <1>2 DEF TypeOK
  <1>4. UNCHANGED <<anc, store, heads, user, fetch, lingering, scenario>>
    BY DEF Announce
  <1>5. TypeOK'
    BY <1>1, <1>3, <1>4 DEF TypeOK
  <1> QED BY <1>1, <1>3, <1>4, <1>5, QuietStep

LEMMA InSyncIInv ==
    ASSUME IInv, NEW m \in Machine, NEW p \in Machine, InSync(m, p)
    PROVE  IInv'
  <1>1. /\ offer' \in [Machine -> [Machine -> Offers]]
        /\ \A n, q \in Machine : offer'[n][q].heads = offer[n][q].heads
    BY SetDrained DEF InSync, IInv
  <1>2. UNCHANGED <<anc, store, heads, user, fetch, lingering, scenario>>
    BY DEF InSync
  <1>3. TypeOK'
    BY <1>1, <1>2 DEF IInv, TypeOK
  <1> QED BY <1>1, <1>2, <1>3, QuietStep

LEMMA StartFetchIInv ==
    ASSUME IInv, NEW m \in Machine, NEW s \in Slot, NEW p \in Machine, NEW pack \in BOOLEAN,
           StartFetch(m, s, p, pack)
    PROVE  IInv'
  <1> DEFINE missing == MissingHeads(m, offer[m][p].heads)
             g == [NoFetch(m) EXCEPT !.phase = "missing", !.peer = p, !.wants = missing,
                                     !.pack = pack]
  <1>1. /\ offer' \in [Machine -> [Machine -> Offers]]
        /\ \A n, q \in Machine : offer'[n][q].heads = offer[n][q].heads
    BY SetDrained DEF StartFetch, IInv
  <1>2. fetch' = [fetch EXCEPT ![m][s] = g]
        /\ UNCHANGED <<anc, store, heads, user, lingering, scenario>>
    BY DEF StartFetch
  <1>3. missing \subseteq Reach(p) /\ missing \in SUBSET Op
    <2>1. offer[m][p].heads \subseteq Reach(p)
      BY DEF IInv
    <2> QED BY <2>1, IInvParts DEF MissingHeads
  <1> HIDE DEF missing
  <1>4. /\ g \in Fetches /\ g.phase = "missing" /\ g.peer = p /\ g.wants = missing
        /\ g.localHeads = {}
    BY <1>3 DEF NoFetch, Fetches
  <1> HIDE DEF g
  <1>5. FetchSound(m, g)
    BY <1>3, <1>4 DEF FetchSound
  <1>6. /\ fetch' \in [Machine -> [Slot -> Fetches]]
        /\ fetch'[m][s] = g
        /\ \A n \in Machine, r \in Slot : n # m \/ r # s => fetch'[n][r] = fetch[n][r]
    BY <1>2, <1>4 DEF IInv, TypeOK
  <1>7. TypeOK'
    BY <1>1, <1>2, <1>6 DEF IInv, TypeOK
  <1>8. \A n \in Machine, r \in Slot :
           fetch'[n][r] = fetch[n][r] \/ FetchSound(n, fetch'[n][r])
    BY <1>5, <1>6
  <1> QED BY <1>1, <1>2, <1>7, <1>8, QuietStep

LEMMA OpenFetchIInv ==
    ASSUME IInv, NEW m \in Machine, NEW s \in Slot, OpenFetch(m, s)
    PROVE  IInv'
  <1>1. PICK f \in Fetches : f = fetch[m][s]
    BY Known
  <1> DEFINE opened == [f EXCEPT !.phase = "requested", !.localHeads = heads[m]]
  <1>2. PICK g : /\ g \in {opened, NoFetch(m)}
                 /\ fetch' = [fetch EXCEPT ![m][s] = g]
    BY <1>1 DEF OpenFetch
  <1>3. /\ offer' = offer \/ offer' = Requeued(m, f)
        /\ UNCHANGED <<anc, store, heads, user, lingering, scenario>>
    BY <1>1 DEF OpenFetch
  <1>4. TypeOK /\ FetchSound(m, f)
    BY <1>1, Known DEF IInv
  <1>5. heads[m] \subseteq store[m].ops /\ heads[m] \in SUBSET Op
    BY Types, IInvParts DEF StoreSound
  <1>6. opened \in Fetches /\ FetchSound(m, opened)
    <2>1. /\ opened \in Fetches /\ opened.phase = "requested" /\ opened.peer = f.peer
          /\ opened.wants = f.wants /\ opened.localHeads = heads[m]
      BY <1>5 DEF Fetches
    <2> HIDE DEF opened
    <2>2. FetchSound(m, opened)
      BY <1>4, <1>5, <2>1 DEF FetchSound
    <2> QED BY <2>1, <2>2
  <1> HIDE DEF opened
  <1>7. g \in Fetches /\ FetchSound(m, g)
    BY <1>2, <1>6, NoFetchSound
  <1>8. /\ fetch' \in [Machine -> [Slot -> Fetches]]
        /\ fetch'[m][s] = g
        /\ \A n \in Machine, r \in Slot : n # m \/ r # s => fetch'[n][r] = fetch[n][r]
    BY <1>2, <1>4, <1>7 DEF TypeOK
  <1>9. /\ offer' \in [Machine -> [Machine -> Offers]]
        /\ \A n, q \in Machine : offer'[n][q].heads = offer[n][q].heads
    <2>1. CASE offer' = offer
      BY <1>4, <2>1 DEF TypeOK
    <2>2. CASE offer' = Requeued(m, f)
      BY <1>4, <2>2, RequeuedFacts
    <2> QED BY <1>3, <2>1, <2>2
  <1>10. TypeOK'
    BY <1>3, <1>4, <1>8, <1>9 DEF TypeOK
  <1>11. \A n \in Machine, r \in Slot :
            fetch'[n][r] = fetch[n][r] \/ FetchSound(n, fetch'[n][r])
    BY <1>7, <1>8
  <1> QED BY <1>3, <1>9, <1>10, <1>11, QuietStep

-----------------------------------------------------------------------------
\* The failures.

LEMMA FaultsFacts ==
    ASSUME TypeOK, Faults
    PROVE  scenario' \in Scenario
  <1>1. scenario \in Scenario
    BY DEF TypeOK
  <1>2. scenario.faults \in Nat /\ scenario.faults > 0
    BY <1>1 DEF Faults, Scenario
  <1> DEFINE k == scenario.faults - 1
  <1>3. k \in Nat
    BY <1>2
  <1>4. scenario' = [scenario EXCEPT !.faults = k]
    BY DEF Faults
  <1> HIDE DEF k
  <1> QED BY <1>1, <1>3, <1>4 DEF Scenario

\* What is left of a fetch that is abandoned or cut off.
LEMMA CutOff ==
    ASSUME IInv, NEW m \in Machine, NEW s \in Slot
    PROVE  /\ LET g == [fetch[m][s] EXCEPT !.orphaned = TRUE]
              IN  g \in Fetches /\ FetchSound(m, g)
           /\ LET g == [fetch[m][s] EXCEPT !.phase = "broken"]
              IN  g \in Fetches /\ FetchSound(m, g)
  <1>1. PICK f \in Fetches : f = fetch[m][s]
    BY Known
  <1>2. FetchSound(m, f)
    BY <1>1, Known
  <1>3. [f EXCEPT !.orphaned = TRUE] \in Fetches /\ [f EXCEPT !.phase = "broken"] \in Fetches
    BY DEF Fetches
  <1>4. FetchSound(m, [f EXCEPT !.orphaned = TRUE])
    <2> DEFINE g == [f EXCEPT !.orphaned = TRUE]
    <2>1. /\ g.phase = f.phase /\ g.peer = f.peer /\ g.wants = f.wants /\ g.batch = f.batch
          /\ g.localHeads = f.localHeads /\ g.range = f.range /\ g.toPublish = f.toPublish
      BY DEF Fetches
    <2> HIDE DEF g
    <2>2. FetchSound(m, g)
      BY <1>2, <2>1 DEF FetchSound, RangeSound
    <2> QED BY <2>2 DEF g
  <1>5. FetchSound(m, [f EXCEPT !.phase = "broken"])
    <2> DEFINE g == [f EXCEPT !.phase = "broken"]
    <2>1. /\ g.phase = "broken" /\ g.wants = f.wants /\ g.peer = f.peer
          /\ g.localHeads = f.localHeads
      BY DEF Fetches
    <2> HIDE DEF g
    <2>2. FetchSound(m, g)
      BY <1>2, <2>1 DEF FetchSound
    <2> QED BY <2>2 DEF g
  <1> QED BY <1>1, <1>3, <1>4, <1>5

LEMMA LingersFacts ==
    ASSUME TypeOK, NEW f \in Fetches
    PROVE  Lingers(f) \in [Machine -> Nat]
  <1>1. f.peer \in Machine
    BY DEF Fetches
  <1> QED BY <1>1 DEF Lingers, TypeOK

LEMMA FetchFailsIInv ==
    ASSUME IInv, NEW m \in Machine, NEW s \in Slot, FetchFails(m, s)
    PROVE  IInv'
  <1>1. PICK f \in Fetches : f = fetch[m][s]
    BY Known
  <1>2. /\ fetch' = [fetch EXCEPT ![m][s] = NoFetch(m)]
        /\ offer' = Requeued(m, f)
        /\ lingering' = Lingers(f)
        /\ UNCHANGED <<anc, store, heads, user>>
        /\ UNCHANGED scenario \/ Faults
    BY <1>1 DEF FetchFails
  <1>3. TypeOK /\ NoFetch(m) \in Fetches /\ FetchSound(m, NoFetch(m))
    BY NoFetchSound DEF IInv
  <1> DEFINE g == NoFetch(m)
  <1> HIDE DEF g
  <1>4. /\ fetch' \in [Machine -> [Slot -> Fetches]]
        /\ fetch'[m][s] = g
        /\ \A n \in Machine, r \in Slot : n # m \/ r # s => fetch'[n][r] = fetch[n][r]
    <2>1. g \in Fetches /\ fetch' = [fetch EXCEPT ![m][s] = g]
      BY <1>2, <1>3 DEF g
    <2> QED BY <1>3, <2>1 DEF TypeOK
  <1>5. /\ offer' \in [Machine -> [Machine -> Offers]]
        /\ \A n, q \in Machine : offer'[n][q].heads = offer[n][q].heads
    BY <1>2, <1>3, RequeuedFacts
  <1>6. lingering' \in [Machine -> Nat]
    BY <1>2, <1>3, LingersFacts
  <1>7. scenario' \in Scenario
    BY <1>2, <1>3, FaultsFacts DEF TypeOK
  <1>8. TypeOK'
    BY <1>2, <1>3, <1>4, <1>5, <1>6, <1>7 DEF TypeOK
  <1>9. \A n \in Machine, r \in Slot :
           fetch'[n][r] = fetch[n][r] \/ FetchSound(n, fetch'[n][r])
    BY <1>3, <1>4 DEF g
  <1> QED BY <1>2, <1>5, <1>8, <1>9, QuietStep

LEMMA AbandonFetchIInv ==
    ASSUME IInv, NEW m \in Machine, NEW s \in Slot, AbandonFetch(m, s)
    PROVE  IInv'
  <1>1. PICK f \in Fetches : f = fetch[m][s]
    BY Known
  <1>2. PICK g : g = IF f.phase \in {"missing", "requested", "received"} THEN NoFetch(m)
                     ELSE [f EXCEPT !.orphaned = TRUE]
    OBVIOUS
  <1>3. /\ fetch' = [fetch EXCEPT ![m][s] = g]
        /\ offer' = [offer EXCEPT ![m] = [p \in Machine |-> Dropped(m, p, f)]]
        /\ lingering' = Lingers(f)
        /\ UNCHANGED <<anc, store, heads, user>>
        /\ Faults
    BY <1>1, <1>2 DEF AbandonFetch
  <1>4. TypeOK
    BY DEF IInv
  <1>5. g \in Fetches /\ FetchSound(m, g)
    BY <1>1, <1>2, CutOff, NoFetchSound
  <1>6. /\ fetch' \in [Machine -> [Slot -> Fetches]]
        /\ fetch'[m][s] = g
        /\ \A n \in Machine, r \in Slot : n # m \/ r # s => fetch'[n][r] = fetch[n][r]
    BY <1>3, <1>4, <1>5 DEF TypeOK
  <1>7. /\ offer' \in [Machine -> [Machine -> Offers]]
        /\ \A n, q \in Machine : offer'[n][q].heads = offer[n][q].heads
    BY <1>3, <1>4, DropOffers
  <1>8. lingering' \in [Machine -> Nat] /\ scenario' \in Scenario
    BY <1>3, <1>4, LingersFacts, FaultsFacts
  <1>9. TypeOK'
    BY <1>3, <1>4, <1>6, <1>7, <1>8 DEF TypeOK
  <1>10. \A n \in Machine, r \in Slot :
            fetch'[n][r] = fetch[n][r] \/ FetchSound(n, fetch'[n][r])
    BY <1>5, <1>6
  <1> QED BY <1>3, <1>7, <1>9, <1>10, QuietStep

\* A machine serves finitely many fetches.
LEMMA ServedFinite ==
    ASSUME NEW p \in Machine, NEW m \in Machine
    PROVE  Cardinality({x \in Served(p) : x[1] = m}) \in Nat
  <1>1. IsFiniteSet(Machine \X Slot)
    BY FS_Product, TransferAssumption
  <1>2. {x \in Served(p) : x[1] = m} \subseteq Machine \X Slot
    BY DEF Served
  <1>3. IsFiniteSet({x \in Served(p) : x[1] = m})
    BY <1>1, <1>2, FS_Subset
  <1> QED BY <1>3, FS_CardinalityType

LEMMA CrashIInv ==
    ASSUME IInv, NEW m \in Machine, Crash(m)
    PROVE  IInv'
  <1>1. TypeOK
    BY DEF IInv
  <1>2. /\ offer' = [n \in Machine |-> [p \in Machine |->
                        IF n = m \/ p = m THEN NoOffer ELSE offer[n][p]]]
        /\ UNCHANGED <<anc, store, heads, user>>
        /\ Faults
    BY DEF Crash
  <1>3. /\ offer' \in [Machine -> [Machine -> Offers]]
        /\ \A n, q \in Machine : offer'[n][q].heads \in {{}, offer[n][q].heads}
    BY <1>1, <1>2, ForgetOffers
  <1>4. fetch' = [n \in Machine |-> [s \in Slot |-> fetch'[n][s]]]
    BY DEF Crash
  <1>5. ASSUME NEW n \in Machine, NEW s \in Slot
        PROVE  fetch'[n][s] \in Fetches /\ FetchSound(n, fetch'[n][s])
    <2>1. fetch'[n][s] \in {NoFetch(n), [fetch[n][s] EXCEPT !.phase = "broken"], fetch[n][s]}
      BY DEF Crash
    <2>2. NoFetch(n) \in Fetches /\ FetchSound(n, NoFetch(n))
      BY NoFetchSound
    <2>3. /\ [fetch[n][s] EXCEPT !.phase = "broken"] \in Fetches
          /\ FetchSound(n, [fetch[n][s] EXCEPT !.phase = "broken"])
      BY CutOff
    <2>4. fetch[n][s] \in Fetches /\ FetchSound(n, fetch[n][s])
      BY Known
    <2> QED BY <2>1, <2>2, <2>3, <2>4
  <1>6. fetch' \in [Machine -> [Slot -> Fetches]]
    BY <1>4, <1>5
  <1>7. lingering' \in [Machine -> Nat]
    <2>1. \A p \in Machine : Cardinality({x \in Served(p) : x[1] = m}) \in Nat
      BY ServedFinite
    <2>2. \A p \in Machine : lingering[p] \in Nat
      BY <1>1 DEF TypeOK
    <2>3. lingering' = [p \in Machine |->
                           IF p = m THEN 0
                           ELSE lingering[p] + Cardinality({x \in Served(p) : x[1] = m})]
      BY DEF Crash
    <2> DEFINE c(p) == Cardinality({x \in Served(p) : x[1] = m})
    <2> HIDE DEF c
    <2>4. \A p \in Machine : c(p) \in Nat
      BY <2>1 DEF c
    <2>5. lingering' = [p \in Machine |-> IF p = m THEN 0 ELSE lingering[p] + c(p)]
      BY <2>3 DEF c
    <2> QED BY <2>2, <2>4, <2>5
  <1>8. scenario' \in Scenario
    BY <1>1, <1>2, FaultsFacts
  <1>9. TypeOK'
    BY <1>1, <1>2, <1>3, <1>6, <1>7, <1>8 DEF TypeOK
  <1> QED BY <1>2, <1>3, <1>5, <1>9, QuietStep

LEMMA ServeEndsIInv ==
    ASSUME IInv, NEW p \in Machine, ServeEnds(p)
    PROVE  IInv'
  <1>1. TypeOK
    BY DEF IInv
  <1>2. lingering' \in [Machine -> Nat]
    BY <1>1 DEF ServeEnds, TypeOK
  <1>3. UNCHANGED <<anc, store, heads, user, offer, fetch, scenario>>
    BY DEF ServeEnds
  <1>4. TypeOK'
    BY <1>1, <1>2, <1>3 DEF TypeOK
  <1> QED BY <1>3, <1>4, QuietStep

-----------------------------------------------------------------------------
\* The users' steps.

\* A command starts, or is gone.
LEMMA UserQuiet ==
    ASSUME IInv, NEW m \in Machine, NEW u \in Users, UserSound(m, u),
           user' = [user EXCEPT ![m] = u], scenario' \in Scenario,
           UNCHANGED <<anc, store, heads, offer, fetch, lingering>>
    PROVE  IInv'
  <1>1. TypeOK
    BY DEF IInv
  <1>2. /\ user' \in [Machine -> Users] /\ user'[m] = u
        /\ \A n \in Machine \ {m} : user'[n] = user[n]
    BY <1>1, SetUser
  <1>3. TypeOK'
    BY <1>1, <1>2 DEF TypeOK
  <1>4. \A n \in Machine : user'[n] = user[n] \/ UserSound(n, user'[n])
    BY <1>2
  <1> QED BY <1>3, <1>4, QuietStep

LEMMA NoUserSound ==
    ASSUME NEW m \in Machine
    PROVE  NoUser \in Users /\ UserSound(m, NoUser)
  BY DEF NoUser, Users, UserSound

LEMMA UserReadsIInv ==
    ASSUME IInv, NEW m \in Machine, UserReads(m)
    PROVE  IInv'
  <1> DEFINE u == [phase |-> "read", base |-> heads[m], op |-> NoOp]
  <1>1. u \in Users
    BY Types DEF IInv, Users
  <1>2. UserSound(m, u)
    BY IInvParts DEF UserSound
  <1>3. scenario' \in Scenario
    <2>1. scenario \in Scenario
      BY DEF IInv, TypeOK
    <2>2. scenario.writes \in [Machine -> Nat] /\ scenario.writes[m] > 0
      BY <2>1 DEF UserReads, Scenario
    <2> DEFINE w == [scenario.writes EXCEPT ![m] = @ - 1]
    <2>3. w \in [Machine -> Nat]
      BY <2>2
    <2>4. scenario' = [scenario EXCEPT !.writes = w]
      BY DEF UserReads
    <2> HIDE DEF w
    <2> QED BY <2>1, <2>3, <2>4 DEF Scenario
  <1>4. /\ user' = [user EXCEPT ![m] = u]
        /\ UNCHANGED <<anc, store, heads, offer, fetch, lingering>>
    BY DEF UserReads
  <1> HIDE DEF u
  <1> QED BY <1>1, <1>2, <1>3, <1>4, UserQuiet

LEMMA UserKilledIInv ==
    ASSUME IInv, NEW m \in Machine, UserKilled(m)
    PROVE  IInv'
  <1>1. /\ user' = [user EXCEPT ![m] = NoUser] /\ Faults
        /\ UNCHANGED <<anc, store, heads, offer, fetch, lingering>>
    BY DEF UserKilled
  <1>2. scenario' \in Scenario
    BY <1>1, FaultsFacts DEF IInv
  <1> QED BY <1>1, <1>2, NoUserSound, UserQuiet

\* A command changes the heads, which go on showing what they showed.
LEMMA UserMovesHeads ==
    ASSUME IInv, NEW m \in Machine, NEW u \in Users, NEW hs \in SUBSET store[m].ops,
           heads' = [heads EXCEPT ![m] = hs], user' = [user EXCEPT ![m] = u],
           UNCHANGED <<anc, store, offer, fetch, lingering, scenario>>,
           \A h \in heads[m] : \E k \in hs : h \in anc[k],
           UserSound(m, u)'
    PROVE  /\ IInv'
           /\ \A n \in Machine \ {m} : Reach(n)' = Reach(n)
           /\ Reach(m)' = AncestorsOf(hs) /\ Reach(m) \subseteq Reach(m)'
  <1>1. /\ Grown /\ AncestrySound' /\ \A n \in Machine : StoreSound(n)'
        /\ heads' \in [Machine -> SUBSET Op]
        /\ \A n \in Machine \ {m} : Reach(n)' = Reach(n)
        /\ Reach(m)' = AncestorsOf(hs)
    BY HeadsChange
  <1>2. TypeOK
    BY DEF IInv
  <1>3. /\ user' \in [Machine -> Users] /\ user'[m] = u
        /\ \A n \in Machine \ {m} : user'[n] = user[n]
    BY <1>2, SetUser
  <1>4. TypeOK'
    BY <1>1, <1>2, <1>3 DEF TypeOK
  <1>5. UserSound(m, user[m])'
    BY <1>3 DEF UserSound
  <1>6. \A n \in Machine : user'[n] = user[n] \/ UserSound(n, user[n])'
    BY <1>3, <1>5
  <1>7. \A n, p \in Machine : offer'[n][p].heads = offer[n][p].heads
    OBVIOUS
  <1>8. \A n \in Machine, r \in Slot : fetch'[n][r] = fetch[n][r]
    OBVIOUS
  <1>9. IInv'
    BY <1>1, <1>4, <1>6, <1>7, <1>8, GrowingStep
  <1> QED BY <1>1, <1>9 DEF Grown

LEMMA UserListsIInv ==
    ASSUME IInv, NEW m \in Machine, UserLists(m)
    PROVE  /\ IInv'
           /\ \A n \in Machine \ {m} : Reach(n)' = Reach(n)
           /\ Reach(m)' = Reach(m) \cup {user[m].op}
  <1>1. PICK u \in Users : u = user[m]
    BY Types DEF IInv
  <1>2. PICK v \in Users : v = [u EXCEPT !.phase = "listed"]
    BY DEF Users
  <1>3. /\ v.phase = "listed" /\ v.base = u.base /\ v.op = u.op
    BY <1>2 DEF Users
  <1> DEFINE hs == heads[m] \cup {u.op}
  <1>4. /\ u.phase = "written"
        /\ heads' = [heads EXCEPT ![m] = hs] /\ user' = [user EXCEPT ![m] = v]
        /\ UNCHANGED <<anc, store, offer, fetch, lingering, scenario>>
    BY <1>1, <1>2 DEF UserLists
  <1>5. UserSound(m, u)
    BY <1>1, IInvParts
  <1>6. u.op \in store[m].ops /\ u.op \in anc[u.op]
    BY <1>4, <1>5 DEF UserSound
  <1>7. hs \in SUBSET store[m].ops /\ \A h \in heads[m] : h \in hs /\ h \in anc[h]
    BY <1>6, IInvParts DEF StoreSound
  <1>8. u.op \in hs
    OBVIOUS
  <1> HIDE DEF hs
  <1>9. Grown /\ Reach(m)' = AncestorsOf(hs)
    BY <1>4, <1>7, HeadsChange
  <1>10. UserSound(m, u)'
    BY <1>5, <1>9, UserKept
  <1>11. u.op \in Reach(m)'
    BY <1>6, <1>8, <1>9, InAncestors
  <1>12. UserSound(m, v)'
    BY <1>3, <1>4, <1>10, <1>11 DEF UserSound
  <1>13. /\ IInv' /\ \A n \in Machine \ {m} : Reach(n)' = Reach(n)
         /\ Reach(m) \subseteq Reach(m)'
    BY <1>4, <1>7, <1>12, UserMovesHeads
  <1>14. anc[u.op] \subseteq {u.op} \cup Reach(m)
    <2>1. anc[u.op] = {u.op} \cup AncestorsOf(u.base) /\ u.base \subseteq Reach(m)
      BY <1>4, <1>5 DEF UserSound
    <2>2. AncestorsOf(u.base) \subseteq Reach(m)
      BY <2>1, IInvParts, InAncestors
    <2> QED BY <2>1, <2>2
  <1>15. Reach(m)' \subseteq Reach(m) \cup anc[u.op]
    BY <1>9, InAncestors DEF Reach, hs
  <1> QED BY <1>1, <1>11, <1>13, <1>14, <1>15

\* A head that is unlisted is an ancestor of the command's operation, which
\* is shown: what shows it is not unlisted.
LEMMA UserUnlistsIInv ==
    ASSUME IInv, NEW m \in Machine, UserUnlists(m)
    PROVE  IInv' /\ \A n \in Machine : Reach(n)' = Reach(n)
  <1>1. PICK u \in Users : u = user[m]
    BY Types DEF IInv
  <1> DEFINE hs == heads[m] \ u.base
  <1>2. /\ u.phase = "listed"
        /\ heads' = [heads EXCEPT ![m] = hs] /\ user' = [user EXCEPT ![m] = NoUser]
        /\ UNCHANGED <<anc, store, offer, fetch, lingering, scenario>>
    BY <1>1 DEF UserUnlists
  <1>3. /\ u.base \subseteq Reach(m) /\ u.op \in Reach(m) /\ u.op \notin u.base
        /\ anc[u.op] = {u.op} \cup AncestorsOf(u.base)
    BY <1>1, <1>2, IInvParts DEF UserSound
  <1>4. PICK k \in heads[m] : u.op \in anc[k]
    BY <1>3, InAncestors DEF Reach
  <1>5. k \in Op /\ u.op \in Op /\ \A h \in heads[m] : h \in Op /\ h \in anc[h]
    BY <1>3, IInvParts
  <1>6. \A h \in heads[m] : h \in u.base => h \in anc[u.op]
    BY <1>3, <1>5, InAncestors
  <1>7. k \notin u.base
    <2> SUFFICES ASSUME k \in u.base PROVE FALSE
      OBVIOUS
    <2>1. k \in anc[u.op]
      BY <1>6
    <2>2. k <= u.op /\ u.op <= k
      BY <1>4, <1>5, <2>1 DEF IInv, AncestrySound
    <2>3. k \in Nat /\ u.op \in Nat
      BY <1>5, TransferAssumption
    <2> QED BY <1>3, <2>2, <2>3
  <1>8. \A h \in heads[m] : \E l \in hs : h \in anc[l]
    <2> SUFFICES ASSUME NEW h \in heads[m] PROVE \E l \in hs : h \in anc[l]
      OBVIOUS
    <2>1. CASE h \notin u.base
      BY <1>5, <2>1
    <2>2. CASE h \in u.base
      <3>1. anc[u.op] \subseteq anc[k]
        BY <1>4, <1>5 DEF IInv, AncestrySound
      <3> QED BY <1>6, <1>7, <2>2, <3>1
    <2> QED BY <2>1, <2>2
  <1>9. hs \in SUBSET store[m].ops
    BY IInvParts DEF StoreSound
  <1> HIDE DEF hs
  <1>10. PICK v \in Users : v = NoUser
    BY NoUserSound
  <1>11. UserSound(m, v)'
    BY <1>10 DEF UserSound, NoUser
  <1>12. /\ IInv' /\ \A n \in Machine \ {m} : Reach(n)' = Reach(n)
         /\ Reach(m)' = AncestorsOf(hs) /\ Reach(m) \subseteq Reach(m)'
    BY <1>2, <1>8, <1>9, <1>10, <1>11, UserMovesHeads
  <1>13. Reach(m)' \subseteq Reach(m)
    BY <1>12, InAncestors DEF Reach, hs
  <1>14. Reach(m)' = Reach(m)
    BY <1>12, <1>13
  <1> QED BY <1>12, <1>14

\* The operations that are not written yet, of which a command takes the
\* first.
UnwrittenOps == {o \in Op : anc[o] = {}}

LEMMA FirstUnwritten ==
    ASSUME UnwrittenOps # {}
    PROVE  /\ Earliest(UnwrittenOps) \in Op /\ anc[Earliest(UnwrittenOps)] = {}
           /\ \A x \in Op : anc[x] = {} => Earliest(UnwrittenOps) <= x
  <1>1. UnwrittenOps \in SUBSET Nat
    BY TransferAssumption DEF UnwrittenOps
  <1>2. /\ Earliest(UnwrittenOps) \in UnwrittenOps
        /\ \A x \in UnwrittenOps : Earliest(UnwrittenOps) <= x
    BY <1>1, EarliestFacts
  <1> QED BY <1>2 DEF UnwrittenOps

\* The operation is new: nothing refers to it yet, and everything it refers
\* to is shown.
LEMMA UserWritesIInv ==
    ASSUME IInv, NEW m \in Machine, UserWrites(m)
    PROVE  IInv' /\ \A n \in Machine : Reach(n)' = Reach(n)
  <1> DEFINE old == store[m]
  <1>1. PICK o : o = Earliest(UnwrittenOps)
    OBVIOUS
  <1>2. PICK u \in Users : u = user[m]
    BY Types DEF IInv
  <1>3. /\ o \in Op /\ anc[o] = {}
        /\ \A x \in Op : anc[x] = {} => o <= x
    BY <1>1, FirstUnwritten DEF UserWrites, UnwrittenOps
  <1>4. PICK v \in Users : v = [u EXCEPT !.phase = "written", !.op = o]
    BY <1>3 DEF Users
  <1>5. /\ v.phase = "written" /\ v.base = u.base /\ v.op = o
    BY <1>4 DEF Users
  <1> DEFINE new == {o} \cup AncestorsOf(u.base)
             st == [trees |-> old.trees \cup {o}, commits |-> old.commits \cup {o},
                    views |-> old.views \cup {o}, ops |-> old.ops \cup {o}]
  <1>6. /\ u.phase = "read"
        /\ anc' = [anc EXCEPT ![o] = new]
        /\ store' = [store EXCEPT ![m] = st]
        /\ user' = [user EXCEPT ![m] = v]
        /\ UNCHANGED <<heads, offer, fetch, lingering, scenario>>
    BY <1>1, <1>2, <1>4 DEF UserWrites, UnwrittenOps
  <1>7. /\ TypeOK /\ AncestrySound /\ StoreSound(m) /\ UserSound(m, u) /\ old \in Stores
    BY <1>2, IInvParts, Types
  <1>8. /\ u.base \subseteq Reach(m) /\ u.base \in SUBSET Op
        /\ AncestorsOf(u.base) \subseteq Reach(m)
        /\ Reach(m) \in SUBSET Op
        /\ \A a \in AncestorsOf(u.base) : a \in anc[a] /\ anc[a] \subseteq AncestorsOf(u.base)
        /\ \A a \in Reach(m) : a \in anc[a]
        /\ Reach(m) \subseteq old.ops \cap old.views \cap old.commits
    <2>1. u.base \subseteq Reach(m) /\ u.base \in SUBSET Op
      BY <1>7 DEF UserSound, Users
    <2>2. AncestorsOf(u.base) \subseteq Reach(m)
      BY <2>1, IInvParts, InAncestors
    <2>3. \A a \in AncestorsOf(u.base) : a \in anc[a] /\ anc[a] \subseteq AncestorsOf(u.base)
      BY <1>7, <2>1, AncestorsClosed
    <2> QED BY <2>1, <2>2, <2>3, IInvParts
  <1>9. /\ new \in SUBSET Op /\ o \in new
        /\ o \notin AncestorsOf(u.base)
        /\ AncestorsOf(u.base) \subseteq old.ops \cap old.views \cap old.commits
        /\ \A a \in AncestorsOf(u.base) : anc[a] # {}
    BY <1>3, <1>8
  <1> HIDE DEF new
  <1>10. /\ anc' \in [Op -> SUBSET Op] /\ anc'[o] = new
         /\ \A x \in Op \ {o} : anc'[x] = anc[x]
         /\ \A x \in Op : anc[x] # {} => anc'[x] = anc[x]
    BY <1>3, <1>6, <1>7, <1>9 DEF TypeOK
  <1>11. /\ st \in Stores /\ st.trees = old.trees \cup {o} /\ st.commits = old.commits \cup {o}
         /\ st.views = old.views \cup {o} /\ st.ops = old.ops \cup {o}
    BY <1>3, <1>7 DEF Stores
  <1> HIDE DEF st
  <1>12. /\ store' \in [Machine -> Stores] /\ store'[m] = st
         /\ \A n \in Machine \ {m} : store'[n] = store[n]
    BY <1>6, <1>7, <1>11 DEF TypeOK
  <1>13. ASSUME NEW n \in Machine PROVE Reach(n)' = Reach(n)
    <2>1. heads[n] \in SUBSET Op /\ \A h \in heads[n] : anc[h] # {}
      BY IInvParts
    <2>2. \A h \in heads[n] : anc'[h] = anc[h]
      BY <1>10, <2>1
    <2>3. heads'[n] = heads[n]
      BY <1>6
    <2> QED BY <2>2, <2>3 DEF Reach, AncestorsOf
  <1>14. Grown
    <2>1. ASSUME NEW n \in Machine
          PROVE  /\ store[n].trees \subseteq store'[n].trees
                 /\ store[n].commits \subseteq store'[n].commits
                 /\ store[n].views \subseteq store'[n].views
                 /\ store[n].ops \subseteq store'[n].ops
      <3>1. CASE n = m
        BY <1>11, <1>12, <3>1
      <3>2. CASE n # m
        BY <1>12, <3>2
      <3> QED BY <3>1, <3>2
    <2> QED BY <1>10, <1>13, <2>1 DEF Grown
  <1>15. AncestrySound'
    <2>1. \A x \in Op : anc'[x] # {} => x \in anc'[x]
      BY <1>7, <1>9, <1>10 DEF AncestrySound
    <2>2. ASSUME NEW x \in Op, NEW a \in anc'[x]
          PROVE  a \in anc'[a] /\ anc'[a] \subseteq anc'[x] /\ a <= x
      <3>1. CASE x # o
        <4>1. /\ a \in anc[x] /\ a \in Op
          BY <1>7, <1>10, <3>1 DEF TypeOK
        <4>2. a \in anc[a] /\ anc[a] \subseteq anc[x] /\ a <= x
          BY <1>7, <4>1 DEF AncestrySound
        <4> QED BY <1>10, <3>1, <4>1, <4>2
      <3>2. CASE x = o /\ a = o
        <4>1. o \in Nat
          BY <1>3, TransferAssumption
        <4> QED BY <1>9, <1>10, <3>2, <4>1
      <3>3. CASE x = o /\ a # o
        <4>1. a \in AncestorsOf(u.base) /\ a \in Op
          BY <1>8, <1>10, <3>3 DEF new
        <4>2. a \in anc[a] /\ anc[a] \subseteq new /\ anc[a] # {}
          BY <1>8, <4>1 DEF new
        <4>3. a < o /\ a \in Nat /\ o \in Nat
          BY <1>3, <1>7, <4>1, <4>2, TransferAssumption DEF AncestrySound
        <4> QED BY <1>10, <3>3, <4>1, <4>2, <4>3
      <3> QED BY <3>1, <3>2, <3>3
    <2>3. ASSUME NEW w \in Op, NEW x \in Op, anc'[w] # {}, anc'[x] = {} PROVE w < x
      <3>1. x # o /\ anc[x] = {}
        BY <1>9, <1>10, <2>3
      <3>2. CASE w # o
        BY <1>7, <1>10, <2>3, <3>1, <3>2 DEF AncestrySound
      <3>3. CASE w = o
        <4>1. o <= x /\ o \in Nat /\ x \in Nat
          BY <1>3, <3>1, TransferAssumption
        <4> QED BY <3>1, <3>3, <4>1
      <3> QED BY <3>2, <3>3
    <2> QED BY <2>1, <2>2, <2>3 DEF AncestrySound
  <1>16. ASSUME NEW n \in Machine PROVE StoreSound(n)'
    <2>1. /\ StoreSound(n) /\ heads'[n] = heads[n]
          /\ store[n].ops \in SUBSET Op /\ store[n].commits \in SUBSET Op
      BY <1>6, IInvParts, Types
    <2>2. \A x \in store[n].ops \cup store[n].commits : anc[x] # {} /\ anc'[x] = anc[x]
      BY <1>10, <2>1 DEF StoreSound
    <2>3. CASE n # m
      BY <1>12, <2>1, <2>2, <2>3 DEF StoreSound
    <2>4. CASE n = m
      <3>1. \A x \in old.ops \cup old.commits : x \in anc[x]
        BY <1>7, <2>1, <2>2, <2>4 DEF AncestrySound
      <3>2. old.commits \subseteq old.trees /\ old.ops \subseteq old.commits
        BY <1>7, <3>1 DEF StoreSound
      <3>3. new \subseteq st.ops \cap st.views \cap st.commits \cap st.trees
        BY <1>9, <1>11, <3>2 DEF new
      <3>4. \A x \in st.ops \cup st.commits : anc'[x] # {}
        BY <1>9, <1>10, <1>11, <2>2, <2>4
      <3>5. \A c \in st.commits : anc'[c] \subseteq st.commits \cap st.trees
        BY <1>7, <1>10, <1>11, <2>2, <2>4, <3>3 DEF StoreSound
      <3>6. \A x \in st.ops : anc'[x] \subseteq st.ops \cap st.views
        BY <1>7, <1>10, <1>11, <2>2, <2>4, <3>3 DEF StoreSound
      <3>7. st.ops \subseteq st.commits /\ heads'[n] \subseteq st.ops
        BY <1>7, <1>11, <2>1, <2>4, <3>2 DEF StoreSound
      <3> QED BY <1>12, <2>4, <3>4, <3>5, <3>6, <3>7 DEF StoreSound
    <2> QED BY <2>3, <2>4
  <1>17. UserSound(m, v)'
    <2>1. AncestorsOf(u.base)' = AncestorsOf(u.base)
      <3>1. \A x \in u.base : anc'[x] = anc[x]
        BY <1>8, <1>10
      <3> QED BY <3>1 DEF AncestorsOf
    <2>2. o \in store'[m].ops
      BY <1>11, <1>12
    <2>3. o \notin u.base
      BY <1>3, <1>8
    <2>4. u.base \subseteq Reach(m)'
      BY <1>8, <1>13
    <2> QED BY <1>5, <1>10, <2>1, <2>2, <2>3, <2>4 DEF UserSound, new
  <1>18. /\ user' \in [Machine -> Users] /\ user'[m] = v
         /\ \A n \in Machine \ {m} : user'[n] = user[n]
    BY <1>6, <1>7, SetUser
  <1>19. TypeOK'
    BY <1>6, <1>7, <1>10, <1>12, <1>18 DEF TypeOK
  <1>20. UserSound(m, user[m])'
    BY <1>17, <1>18 DEF UserSound
  <1>21. \A n \in Machine : user'[n] = user[n] \/ UserSound(n, user[n])'
    BY <1>18, <1>20
  <1>22. /\ \A n, p \in Machine : offer'[n][p].heads = offer[n][p].heads
         /\ \A n \in Machine, r \in Slot : fetch'[n][r] = fetch[n][r]
    BY <1>6
  <1>23. IInv'
    BY <1>14, <1>15, <1>16, <1>19, <1>21, <1>22, GrowingStep
  <1> QED BY <1>13, <1>23

-----------------------------------------------------------------------------
\* The invariant.

LEMMA InitIInv ==
    ASSUME Init
    PROVE  IInv
  <1>1. \A m \in Machine : First[m] \in Op
    BY TransferAssumption
  <1>2. TypeOK
    <2>1. anc \in [Op -> SUBSET Op]
      BY DEF Init
    <2>2. store \in [Machine -> Stores]
      BY <1>1 DEF Init, Only, Stores
    <2>3. heads \in [Machine -> SUBSET Op]
      BY <1>1 DEF Init
    <2>4. user \in [Machine -> Users]
      BY DEF Init, NoUser, Users
    <2>5. offer \in [Machine -> [Machine -> Offers]]
      BY DEF Init, NoOffer, Offers
    <2>6. fetch \in [Machine -> [Slot -> Fetches]]
      BY NoFetchSound DEF Init
    <2>7. lingering \in [Machine -> Nat] /\ scenario \in Scenario
      BY TransferAssumption DEF Init
    <2> QED BY <2>1, <2>2, <2>3, <2>4, <2>5, <2>6, <2>7 DEF TypeOK
  <1>3. \A o \in Op : anc[o] \in {{}, {o}}
    BY DEF Init
  <1>4. \A m \in Machine : anc[First[m]] = {First[m]}
    BY <1>1 DEF Init
  <1>5. AncestrySound
    <2>1. \A w, o \in Op : anc[w] # {} /\ anc[o] = {} => w < o
      <3> SUFFICES ASSUME NEW w \in Op, NEW o \in Op, anc[w] # {}, anc[o] = {}
                   PROVE  w < o
        OBVIOUS
      <3>1. PICK m \in Machine : w = First[m]
        BY DEF Init
      <3>2. \A n \in Machine : o # First[n]
        BY <1>4
      <3> QED BY <3>1, <3>2, TransferAssumption
    <2>2. \A o \in Op : o <= o
      BY TransferAssumption
    <2>3. \A o \in Op : \A a \in anc[o] : a = o
      BY <1>3
    <2>4. \A o \in Op : anc[o] # {} => o \in anc[o]
      BY <1>3
    <2>5. \A o \in Op : \A a \in anc[o] : a \in anc[a] /\ anc[a] \subseteq anc[o] /\ a <= o
      BY <2>2, <2>3
    <2> QED BY <2>1, <2>4, <2>5 DEF AncestrySound
  <1>6. ASSUME NEW m \in Machine PROVE StoreSound(m)
    <2>1. /\ store[m].trees = {First[m]} /\ store[m].commits = {First[m]}
          /\ store[m].views = {First[m]} /\ store[m].ops = {First[m]}
          /\ heads[m] = {First[m]}
      BY DEF Init, Only
    <2> QED BY <1>4, <2>1 DEF StoreSound
  <1>7. ASSUME NEW m \in Machine PROVE UserSound(m, user[m])
    <2>1. user[m] = NoUser
      BY DEF Init
    <2> QED BY <2>1, NoUserSound
  <1>8. \A m, p \in Machine : offer[m][p].heads \subseteq Reach(p)
    BY DEF Init, NoOffer
  <1>9. \A m \in Machine, s \in Slot : FetchSound(m, fetch[m][s])
    BY NoFetchSound DEF Init
  <1> QED BY <1>2, <1>5, <1>6, <1>7, <1>8, <1>9 DEF IInv

LEMMA FetchStepIInv ==
    ASSUME IInv, NEW m \in Machine, NEW s \in Slot, FetchStep(m, s)
    PROVE  IInv'
  BY OpenFetchIInv, ReceiveOpsIInv, RequestGitIInv, WriteObjectIInv, IngestPackIInv, StartApplyIInv,
     PersistViewIInv, PersistOpIInv, PublishHeadIInv, UnlistCoveredIInv, EndFetchIInv
     DEF FetchStep

LEMMA UserStepIInv ==
    ASSUME IInv, NEW m \in Machine, UserStep(m)
    PROVE  IInv'
  BY UserReadsIInv, UserWritesIInv, UserListsIInv, UserUnlistsIInv, UserKilledIInv
     DEF UserStep

LEMMA StartsFetchIInv ==
    ASSUME IInv, NEW m \in Machine, StartsFetch(m)
    PROVE  IInv'
  <1>1. scenario.packs \subseteq BOOLEAN
    BY DEF IInv, TypeOK, Scenario
  <1> QED BY <1>1, StartFetchIInv DEF StartsFetch

LEMMA StutterIInv ==
    ASSUME IInv, UNCHANGED vars
    PROVE  IInv'
  <1>1. UNCHANGED <<anc, store, heads, user, offer, fetch, lingering, scenario>>
    BY DEF vars
  <1>2. TypeOK'
    BY <1>1 DEF IInv, TypeOK
  <1> QED BY <1>1, <1>2, QuietStep

LEMMA NextIInv ==
    ASSUME IInv, [Next]_vars
    PROVE  IInv'
  <1>1. ASSUME NEW m \in Machine, UserStep(m) PROVE IInv'
    BY <1>1, UserStepIInv
  <1>2. ASSUME NEW p \in Machine, NEW m \in Machine, Announce(p, m) PROVE IInv'
    BY <1>2, AnnounceIInv
  <1>3. ASSUME NEW m \in Machine, NEW p \in Machine, InSync(m, p) PROVE IInv'
    BY <1>3, InSyncIInv
  <1>4. ASSUME NEW m \in Machine, StartsFetch(m) PROVE IInv'
    BY <1>4, StartsFetchIInv
  <1>5. ASSUME NEW m \in Machine, NEW s \in Slot, FetchStep(m, s) PROVE IInv'
    BY <1>5, FetchStepIInv
  <1>6. ASSUME NEW m \in Machine, NEW s \in Slot, FetchFails(m, s) PROVE IInv'
    BY <1>6, FetchFailsIInv
  <1>7. ASSUME NEW m \in Machine, NEW s \in Slot, AbandonFetch(m, s) PROVE IInv'
    BY <1>7, AbandonFetchIInv
  <1>8. ASSUME NEW m \in Machine, Crash(m) PROVE IInv'
    BY <1>8, CrashIInv
  <1>9. ASSUME NEW p \in Machine, ServeEnds(p) PROVE IInv'
    BY <1>9, ServeEndsIInv
  <1>10. CASE UNCHANGED vars
    BY <1>10, StutterIInv
  <1> QED BY <1>1, <1>2, <1>3, <1>4, <1>5, <1>6, <1>7, <1>8, <1>9, <1>10 DEF Next

\* The inductive invariant of the transfer engine: ancestry and stores are
\* closed, and a fetch's phase says what of its batch is on disk.
THEOREM Invariant == Spec => []IInv
  BY InitIInv, NextIInv, PTL DEF Spec

\* Every state is one the stores, the op heads directories and the fetches
\* can be in.
THEOREM TypeCorrect == Spec => []TypeOK
  <1>1. IInv => TypeOK
    BY DEF IInv
  <1> QED BY <1>1, Invariant, PTL

\* No op head is published before what it exposes is readable, whatever
\* crashed, failed or ran at the same time (apply::stage, apply::publish).
THEOREM Readable == Spec => []HeadsAreReadable
  <1>1. IInv => HeadsAreReadable
    BY IInvParts DEF HeadsAreReadable
  <1> QED BY <1>1, Invariant, PTL

\* A stored commit has its tree and ancestry and a stored operation its
\* ancestry and views, after every write (write_git_chunk, ingest_pack,
\* apply::stage): what is present need not be asked for again.
THEOREM Closed == Spec => []StoresAreClosed
  <1>1. IInv => StoresAreClosed
    BY DEF IInv, StoreSound, StoresAreClosed
  <1> QED BY <1>1, Invariant, PTL

\* Between honest machines no fetch is refused by its server and none fails
\* its validation (serve, receive_ops, ensure_git_wants_arrived), however
\* both stores move while it is under way.
THEOREM HonestFetch == Spec => []HonestFetchIsValid
  <1>1. IInv => HonestFetchIsValid
    BY DEF IInv, FetchSound, HonestFetchIsValid
  <1> QED BY <1>1, Invariant, PTL

-----------------------------------------------------------------------------
\* The refinement of OpLog.

\* Nothing OpLog sees changes.
LEMMA LogStutters ==
    ASSUME UNCHANGED anc, \A m \in Machine : Reach(m)' = Reach(m),
           \A m \in Machine :
              user'[m] = user[m] \/ "written" \notin {user[m].phase, user'[m].phase}
    PROVE  UNCHANGED Log!logVars
  <1> DEFINE writing == [m \in Machine |->
                            IF user[m].phase = "written" THEN user[m].op ELSE NoOp]
             visible == [m \in Machine |-> Reach(m)]
  <1>1. visible' = visible
    OBVIOUS
  <1>2. writing' = writing
    OBVIOUS
  <1> QED BY <1>1, <1>2 DEF Log!logVars

LEMMA InitLog ==
    ASSUME Init
    PROVE  Log!LogInit
  <1>1. \A m \in Machine : Reach(m) = {First[m]}
    <2> SUFFICES ASSUME NEW m \in Machine PROVE Reach(m) = {First[m]}
      OBVIOUS
    <2>1. First[m] \in Op
      BY TransferAssumption
    <2>2. anc[First[m]] = {First[m]} /\ heads[m] = {First[m]}
      BY <2>1 DEF Init
    <2> QED BY <2>2 DEF Reach, AncestorsOf
  <1>2. \A m \in Machine : user[m].phase = "idle"
    BY DEF Init, NoUser
  <1>3. anc = [o \in Op |-> IF \E m \in Machine : o = First[m] THEN {o} ELSE {}]
    BY DEF Init
  <1> QED BY <1>1, <1>2, <1>3 DEF Log!LogInit, NoOp, Log!NoOp

\* A step that leaves the ancestry, the heads and the users' commands alone
\* is not seen.
LEMMA QuietLog ==
    ASSUME UNCHANGED <<anc, heads, user>>
    PROVE  UNCHANGED Log!logVars
  <1>1. \A m \in Machine : Reach(m)' = Reach(m)
    BY DEF Reach, AncestorsOf
  <1> QED BY <1>1, LogStutters

LEMMA UserWritesLog ==
    ASSUME IInv, NEW m \in Machine, UserWrites(m)
    PROVE  Log!Write(m)
  <1> DEFINE writing == [n \in Machine |->
                            IF user[n].phase = "written" THEN user[n].op ELSE NoOp]
             visible == [n \in Machine |-> Reach(n)]
             o == Earliest(UnwrittenOps)
             base == user[m].base
  <1>1. o \in Op /\ anc[o] = {}
    BY FirstUnwritten DEF UserWrites, UnwrittenOps
  <1>2. /\ user[m].phase = "read"
        /\ anc' = [anc EXCEPT ![o] = {o} \cup AncestorsOf(base)]
        /\ user' = [user EXCEPT ![m] = [user[m] EXCEPT !.phase = "written", !.op = o]]
    BY DEF UserWrites, UnwrittenOps
  <1>3. /\ user \in [Machine -> Users] /\ user[m] \in Users /\ base \subseteq Reach(m)
    BY IInvParts DEF UserSound, TypeOK
  <1> HIDE DEF o
  <1>4. user'[m].phase = "written" /\ user'[m].op = o
    BY <1>2, <1>3 DEF Users
  <1>5. \A n \in Machine \ {m} : user'[n] = user[n]
    BY <1>2, <1>3
  <1>6. writing[m] = NoOp /\ writing' = [writing EXCEPT ![m] = o]
    <2>1. user[m].phase # "written"
      BY <1>2
    <2>2. \A n \in Machine :
             (IF user'[n].phase = "written" THEN user'[n].op ELSE NoOp) =
             (IF n = m THEN o ELSE IF user[n].phase = "written" THEN user[n].op ELSE NoOp)
      BY <1>4, <1>5
    <2> QED BY <2>1, <2>2
  <1>7. visible' = visible
    BY UserWritesIInv
  <1>8. base \in SUBSET visible[m]
    BY <1>3
  <1>9. AncestorsOf(base) = UNION {anc[x] : x \in base}
    BY DEF AncestorsOf
  <1> QED BY <1>1, <1>2, <1>6, <1>7, <1>8, <1>9 DEF Log!Write, Log!HistoryOf, Log!NoOp, NoOp

LEMMA UserListsLog ==
    ASSUME IInv, NEW m \in Machine, UserLists(m)
    PROVE  Log!Show(m)
  <1> DEFINE writing == [n \in Machine |->
                            IF user[n].phase = "written" THEN user[n].op ELSE NoOp]
             visible == [n \in Machine |-> Reach(n)]
  <1>1. /\ user[m].phase = "written" /\ UNCHANGED anc
        /\ user' = [user EXCEPT ![m] = [user[m] EXCEPT !.phase = "listed"]]
    BY DEF UserLists
  <1>2. user \in [Machine -> Users] /\ user[m] \in Users
    BY IInvParts DEF TypeOK
  <1>3. user[m].op \in Op
    BY <1>1, IInvParts, Types DEF UserSound
  <1>4. user[m].op # NoOp
    BY <1>3, TransferAssumption
  <1>5. user'[m].phase = "listed" /\ \A n \in Machine \ {m} : user'[n] = user[n]
    BY <1>1, <1>2 DEF Users
  <1>6. writing[m] = user[m].op /\ writing' = [writing EXCEPT ![m] = NoOp]
    <2>1. user[m].phase = "written"
      BY <1>1
    <2>2. \A n \in Machine :
             (IF user'[n].phase = "written" THEN user'[n].op ELSE NoOp) =
             (IF n = m THEN NoOp ELSE IF user[n].phase = "written" THEN user[n].op ELSE NoOp)
      BY <1>5
    <2> QED BY <2>1, <2>2
  <1>7. visible' = [visible EXCEPT ![m] = @ \cup {user[m].op}]
    BY UserListsIInv
  <1> QED BY <1>1, <1>4, <1>6, <1>7 DEF Log!Show, Log!NoOp, NoOp

LEMMA UserKilledLog ==
    ASSUME IInv, NEW m \in Machine, UserKilled(m)
    PROVE  Log!Discard(m)
  <1> DEFINE writing == [n \in Machine |->
                            IF user[n].phase = "written" THEN user[n].op ELSE NoOp]
             visible == [n \in Machine |-> Reach(n)]
  <1>1. user' = [user EXCEPT ![m] = NoUser] /\ UNCHANGED <<anc, heads>>
    BY DEF UserKilled
  <1>2. user \in [Machine -> Users]
    BY DEF IInv, TypeOK
  <1>3. user'[m].phase = "idle" /\ \A n \in Machine \ {m} : user'[n] = user[n]
    BY <1>1, <1>2 DEF NoUser
  <1>4. writing' = [writing EXCEPT ![m] = NoOp]
    BY <1>3
  <1>5. visible' = visible
    BY <1>1 DEF Reach, AncestorsOf
  <1> QED BY <1>1, <1>4, <1>5 DEF Log!Discard, Log!NoOp, NoOp

LEMMA PublishHeadLog ==
    ASSUME IInv, NEW m \in Machine, NEW s \in Slot, PublishHead(m, s)
    PROVE  Log!Replicate(m)
  <1> DEFINE writing == [n \in Machine |->
                            IF user[n].phase = "written" THEN user[n].op ELSE NoOp]
             visible == [n \in Machine |-> Reach(n)]
  <1>1. PICK o \in Reach(fetch[m][s].peer) :
           /\ \A n \in Machine \ {m} : Reach(n)' = Reach(n)
           /\ Reach(m)' = Reach(m) \cup anc[o]
    BY PublishHeadIInv
  <1>2. fetch[m][s].peer \in Machine
    BY Known
  <1>3. o \in visible[fetch[m][s].peer]
    BY <1>1, <1>2
  <1>4. visible' = [visible EXCEPT ![m] = @ \cup anc[o]]
    BY <1>1
  <1>5. UNCHANGED <<anc, user>>
    BY DEF PublishHead
  <1>6. writing' = writing
    BY <1>5
  <1> QED BY <1>2, <1>3, <1>4, <1>5, <1>6 DEF Log!Replicate

\* The unlisting steps show what was shown.
LEMMA UnlistLog ==
    ASSUME IInv, NEW m \in Machine,
           UserUnlists(m) \/ \E s \in Slot : UnlistCovered(m, s)
    PROVE  UNCHANGED Log!logVars
  <1>1. \A n \in Machine : Reach(n)' = Reach(n)
    BY UserUnlistsIInv, UnlistCoveredIInv
  <1>2. UNCHANGED anc
    BY DEF UserUnlists, UnlistCovered
  <1>3. CASE UserUnlists(m)
    <2>1. user \in [Machine -> Users] /\ user[m].phase = "listed"
      BY <1>3 DEF IInv, TypeOK, UserUnlists
    <2>2. user' = [user EXCEPT ![m] = NoUser]
      BY <1>3 DEF UserUnlists
    <2>3. \A n \in Machine :
             user'[n] = user[n] \/ "written" \notin {user[n].phase, user'[n].phase}
      BY <2>1, <2>2 DEF NoUser
    <2> QED BY <1>1, <1>2, <2>3, LogStutters
  <1>4. CASE \E s \in Slot : UnlistCovered(m, s)
    <2>1. UNCHANGED user
      BY <1>4 DEF UnlistCovered
    <2> QED BY <1>1, <1>2, <2>1, LogStutters
  <1> QED BY <1>3, <1>4

LEMMA UserReadsLog ==
    ASSUME IInv, NEW m \in Machine, UserReads(m)
    PROVE  UNCHANGED Log!logVars
  <1>1. /\ user' = [user EXCEPT ![m] = [phase |-> "read", base |-> heads[m], op |-> NoOp]]
        /\ user[m].phase = "idle" /\ UNCHANGED <<anc, heads>>
    BY DEF UserReads
  <1>2. user \in [Machine -> Users]
    BY DEF IInv, TypeOK
  <1>3. \A n \in Machine :
           user'[n] = user[n] \/ "written" \notin {user[n].phase, user'[n].phase}
    BY <1>1, <1>2
  <1>4. \A n \in Machine : Reach(n)' = Reach(n)
    BY <1>1 DEF Reach, AncestorsOf
  <1> QED BY <1>1, <1>3, <1>4, LogStutters

LEMMA NextLog ==
    ASSUME IInv, [Next]_vars
    PROVE  [Log!LogNext]_Log!logVars
  <1>1. ASSUME NEW m \in Machine, UserStep(m) PROVE [Log!LogNext]_Log!logVars
    BY <1>1, UserReadsLog, UserWritesLog, UserListsLog, UnlistLog, UserKilledLog
       DEF UserStep, Log!LogNext
  <1>2. ASSUME NEW m \in Machine, NEW s \in Slot, FetchStep(m, s)
        PROVE  [Log!LogNext]_Log!logVars
    <2>1. CASE PublishHead(m, s)
      BY <2>1, PublishHeadLog DEF Log!LogNext
    <2>2. CASE UnlistCovered(m, s)
      BY <2>2, UnlistLog
    <2>3. CASE ~ PublishHead(m, s) /\ ~ UnlistCovered(m, s)
      <3>1. UNCHANGED <<anc, heads, user>>
        BY <1>2, <2>3 DEF FetchStep, OpenFetch, ReceiveOps, RequestGit, WriteObject,
                          IngestPack, StartApply, PersistView, PersistOp, EndFetch
      <3> QED BY <3>1, QuietLog
    <2> QED BY <2>1, <2>2, <2>3
  <1>3. CASE \/ \E p, m \in Machine : Announce(p, m)
             \/ \E m, p \in Machine : InSync(m, p)
             \/ \E m \in Machine : StartsFetch(m)
             \/ \E m \in Machine, s \in Slot : FetchFails(m, s)
             \/ \E m \in Machine, s \in Slot : AbandonFetch(m, s)
             \/ \E m \in Machine : Crash(m)
             \/ \E p \in Machine : ServeEnds(p)
             \/ UNCHANGED vars
    <2>1. UNCHANGED <<anc, heads, user>>
      BY <1>3 DEF Announce, InSync, StartsFetch, StartFetch, FetchFails, AbandonFetch,
                  Crash, ServeEnds, vars
    <2> QED BY <2>1, QuietLog
  <1> QED BY <1>1, <1>2, <1>3 DEF Next

\* Synchronizing a repo implements OpLog: whatever the fetches, failures and
\* commands do, a machine sees ever more, and only its own user's operations
\* and whole histories of operations another machine sees.
THEOREM Refinement == Spec => ImplementsOpLog
  <1>1. Init => Log!LogInit
    BY InitLog
  <1>2. IInv /\ [Next]_vars => [Log!LogNext]_Log!logVars
    BY NextLog
  <1> QED BY <1>1, <1>2, Invariant, PTL DEF Spec, ImplementsOpLog, Log!LogSpec
=============================================================================
