------------------------- MODULE GeneratedKeyProofs -------------------------
(***************************************************************************)
(* Proofs about GeneratedKey, for any number of channels.                  *)
(***************************************************************************)
EXTENDS GeneratedKey, FiniteSetTheorems, TLAPS

\* A set has at most as many images as elements.
LEMMA FewImages ==
  ASSUME NEW channels, IsFiniteSet(DOMAIN channels)
  PROVE  LET passwords == {channels[name] : name \in DOMAIN channels}
         IN /\ IsFiniteSet(passwords)
            /\ Cardinality(passwords) <= Cardinality(DOMAIN channels)
<1> DEFINE passwords == {channels[name] : name \in DOMAIN channels}
           f == [name \in DOMAIN channels |-> channels[name]]
<1>1. f \in Surjection(DOMAIN channels, passwords)
  BY DEF Surjection
<1> HIDE DEF f, passwords
<1>2. IsFiniteSet(passwords) /\ Cardinality(passwords) <= Cardinality(DOMAIN channels)
  BY <1>1, FS_Surjection
<1> QED
  BY <1>2 DEF passwords

\* gen_key's loop, which has no bound (genKey.go:24), has something to find: as long as
\* there are more than twice as many keys as channels, whatever their names and
\* passwords, some key is taken by none of them.
THEOREM KeyIsFound ==
  ASSUME NEW n \in Nat, NEW channels,
         IsFiniteSet(DOMAIN channels),
         Cardinality([1 .. n -> Digit]) > 2 * Cardinality(DOMAIN channels)
  PROVE  gen_key(n, channels) # {}
<1> DEFINE keys == [1 .. n -> Digit]
           names == DOMAIN channels
           passwords == {channels[name] : name \in names}
<1>1. /\ IsFiniteSet(passwords)
      /\ Cardinality(passwords) <= Cardinality(names)
  BY FewImages
<1>2. /\ IsFiniteSet(names \cup passwords)
      /\ Cardinality(names \cup passwords) <= 2 * Cardinality(names)
  <2>1. /\ IsFiniteSet(names \cup passwords)
        /\ Cardinality(names \cup passwords) =
             Cardinality(names) + Cardinality(passwords)
               - Cardinality(names \cap passwords)
    BY <1>1, FS_Union
  <2>2. /\ IsFiniteSet(names \cap passwords)
        /\ Cardinality(names \cap passwords) \in Nat
    BY <1>1, FS_Intersection, FS_CardinalityType
  <2>3. Cardinality(names) \in Nat /\ Cardinality(passwords) \in Nat
    BY <1>1, FS_CardinalityType
  <2> QED
    BY <1>1, <2>1, <2>2, <2>3
<1>3. ~(keys \subseteq names \cup passwords)
  <2> SUFFICES ASSUME keys \subseteq names \cup passwords
      PROVE  FALSE
    OBVIOUS
  <2>1. /\ IsFiniteSet(keys)
        /\ Cardinality(keys) <= Cardinality(names \cup passwords)
    BY <1>2, FS_Subset
  <2>2. /\ Cardinality(keys) \in Nat /\ Cardinality(names) \in Nat
        /\ Cardinality(names \cup passwords) \in Nat
    BY <1>2, <2>1, FS_CardinalityType
  <2> QED
    BY <1>2, <2>1, <2>2
<1>4. PICK key \in keys : key \notin names \cup passwords
  BY <1>3
<1>5. ~channelKeyTaken(key, channels)
  BY <1>4 DEF channelKeyTaken
<1> QED
  BY <1>4, <1>5 DEF gen_key
=============================================================================
