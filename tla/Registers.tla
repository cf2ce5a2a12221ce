------------------------------ MODULE Registers ------------------------------
(***************************************************************************)
(* The versioned registers that membership gossip replicates               *)
(* (config/state/membership.rs and claims.rs).                             *)
(*                                                                         *)
(* A machine record (Peer) and a mesh repo record (MeshRepo) have the same *)
(* shape and the same ranking: a version, and either a value (the          *)
(* machine's name, the repo's id) or Removed, the tombstone.  Strings are  *)
(* compared by the code, never inspected, so values are positive numbers.  *)
(* A BTreeMap is a function on every key; a key it does not hold maps to   *)
(* Absent.                                                                 *)
(***************************************************************************)
EXTENDS Integers, FiniteSets

CONSTANT MAX_RECORD_VERSION   \* versions stay strictly below it

ASSUME MaxVersionAssumption == MAX_RECORD_VERSION \in Nat \ {0, 1}

Removed == 0                  \* a tombstone's value; real values are > 0

Versions == 0 .. MAX_RECORD_VERSION - 1

Absent == [version |-> -1, value |-> Removed]

Record(V) == [version : Versions, value : V \cup {Removed}]

\* What a map may hold under a key.
Slot(V) == Record(V) \cup {Absent}

Live(r) == r # Absent /\ r.value # Removed

-----------------------------------------------------------------------------
(***************************************************************************)
(* Ranking and adoption                                                    *)
(***************************************************************************)

\* Mutant of Outranks: a tie on the version goes to the newcomer.
OutranksOnTie(r, s) == r.version >= s.version

\* Mutant of Outranks: a removal does not win a tie.
OutranksWithoutTombstone(r, s) ==
    \/ r.version > s.version
    \/ /\ r.version = s.version
       /\ r.value # Removed /\ s.value # Removed /\ r.value < s.value

\* Higher version first, the tombstone on a tie, then the smaller value.
Outranks(r, s) ==
    \/ r.version > s.version
    \/ /\ r.version = s.version
       /\ \/ r.value = Removed /\ s.value # Removed
          \/ r.value # Removed /\ s.value # Removed /\ r.value < s.value

\* Mutant of CanBump: the ceiling itself is handed out.
CanBumpToCeiling(version) == version + 1 <= MAX_RECORD_VERSION

\* A local change is refused when it would reach the ceiling.
CanBump(version) == version + 1 < MAX_RECORD_VERSION

\* The version map.get(key) counts from: 0 when the key is unknown.
HeldVersion(r) == IF r = Absent THEN 0 ELSE r.version

Keys(map) == {k \in DOMAIN map : map[k] # Absent}

\* A is the part of N that a loop over N in key order takes before `room`
\* of them are taken.
Fills(A, N, room) ==
    /\ A \subseteq N
    /\ Cardinality(A) <= room
    /\ A # N => Cardinality(A) = room
    /\ \A k \in A, l \in N \ A : k < l

Mergeable(offered) ==
    {k \in DOMAIN offered : offered[k] # Absent /\ offered[k].version < MAX_RECORD_VERSION}

\* should_adopt over a merge loop: the sets of keys it may adopt into `held`
\* (there is one).  Known keys are replaced when the offered record outranks
\* ours; new keys are taken in key order while the map is below `cap`.
Adoptions(held, offered, cap) ==
    LET known == {k \in Mergeable(offered) : held[k] # Absent}
        better == {k \in known : Outranks(offered[k], held[k])}
        new == Mergeable(offered) \ known
    IN  {better \cup B :
            B \in {B \in SUBSET new : Fills(B, new, cap - Cardinality(Keys(held)))}}

Adopt(A, held, offered) ==
    [k \in DOMAIN held |-> IF k \in A THEN offered[k] ELSE held[k]]

\* Mutant of Observe: the copy is matched but never outranked.
ObserveMatching(version, copyVersion, mustOutrank) ==
    IF copyVersion > version THEN copyVersion ELSE version

\* Mutant of Observe: the owner bumps its own version instead of moving past
\* the copy's.
ObserveBumping(version, copyVersion, mustOutrank) ==
    IF mustOutrank /\ version + 1 < MAX_RECORD_VERSION THEN version + 1
    ELSE IF copyVersion > version THEN copyVersion ELSE version

\* The version an owner's register takes on seeing a gossiped copy of it:
\* never behind the copy, past it when it must be outranked, and clamped
\* below the ceiling.
Observe(version, copyVersion, mustOutrank) ==
    LET outranking == IF mustOutrank THEN copyVersion + 1 ELSE copyVersion
        highest == IF version > outranking THEN version ELSE outranking
    IN  IF highest > MAX_RECORD_VERSION - 1 THEN MAX_RECORD_VERSION - 1 ELSE highest

-----------------------------------------------------------------------------
(***************************************************************************)
(* Workspace claims: a version and a set of <<repo id, workspace>> pairs   *)
(* (the BTreeMap of non-empty name sets).                                  *)
(***************************************************************************)

NoClaims == [version |-> -1, held |-> {}]

Names(held, id) == {p \in held : p[1] = id}

PairBefore(p, q) == p[1] < q[1] \/ (p[1] = q[1] /\ p[2] < q[2])

\* The derived order on BTreeMap<RepoId, BTreeSet<String>>: the maps differ
\* first at pair p; the one that holds p is smaller when the other goes on
\* past p (in the same set of names, or with a later id).
SmallerClaims(a, b) ==
    \E p \in (a \ b) \cup (b \ a) :
        /\ \A q \in (a \ b) \cup (b \ a) : q = p \/ PairBefore(p, q)
        /\ LET other == IF p \in a THEN b ELSE a
               goesOn == IF Names(other, p[1]) # {}
                         THEN \E q \in Names(other, p[1]) : p[2] < q[2]
                         ELSE \E q \in other : p[1] < q[1]
           IN  IF p \in a THEN goesOn ELSE ~goesOn

ClaimsOutrank(r, s) ==
    \/ r.version > s.version
    \/ r.version = s.version /\ SmallerClaims(r.held, s.held)
=============================================================================
