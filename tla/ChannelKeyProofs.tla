-------------------------- MODULE ChannelKeyProofs --------------------------
(***************************************************************************)
(* Proofs about ChannelKey, for texts of any length.                       *)
(***************************************************************************)
EXTENDS ChannelKey, WellFoundedInduction, TLAPS

\* A plain name: letters, and at least one.
Plain == Seq(Letters) \ {<<>>}

\* Index is the first of the positions.
LEMMA IndexIsFirst ==
  ASSUME NEW t \in Seq(Symbols), Positions(t) # {}
  PROVE  Index(t) \in Positions(t) /\ \A j \in Positions(t) : Index(t) <= j
<1> DEFINE R == OpToRel(<, Nat)
<1>1. Positions(t) \subseteq Nat
  BY DEF Positions
<1>2. PICK i \in Positions(t) : \A j \in Positions(t) : <<j, i>> \notin R
  <2> HIDE DEF R
  <2> QED
    BY <1>1, WFMin, NatLessThanWellFounded DEF R
<1>3. \A j \in Positions(t) : i <= j
  <2> SUFFICES ASSUME NEW j \in Positions(t), j < i
      PROVE  FALSE
    BY <1>1
  <2>1. <<j, i>> \in Nat \X Nat /\ <<j, i>>[1] < <<j, i>>[2]
    BY <1>1
  <2>2. <<j, i>> \in R
    BY <2>1, Zenon DEF OpToRel
  <2> QED
    BY <1>2, <2>2
<1> QED
  BY <1>2, <1>3 DEF Index

\* In a name, a mark and a text, the first mark is the one after the name.
LEMMA FirstMark ==
  ASSUME NEW n \in Plain, NEW p \in Seq(Symbols)
  PROVE  LET t == n \o <<PasswordMark>> \o p
         IN /\ Positions(t) # {}
            /\ Index(t) = Len(n) + 1
            /\ Len(n) > 0 /\ Len(t) = Len(n) + 1 + Len(p)
            /\ \A i \in 1 .. Len(n) : t[i] = n[i]
            /\ \A i \in 1 .. Len(p) : t[Len(n) + 1 + i] = p[i]
<1> DEFINE t == n \o <<PasswordMark>> \o p
           k == Len(n) + 1
<1>1. Len(n) \in Nat \ {0} /\ Len(p) \in Nat /\ Len(t) = Len(n) + 1 + Len(p)
  BY DEF Plain, Symbols
<1>2. \A i \in 1 .. Len(n) : t[i] = n[i] /\ n[i] \in Letters
  BY DEF Plain, Symbols
<1>3. t[k] = PasswordMark
  BY DEF Plain, Symbols
<1>4. \A i \in 1 .. Len(p) : t[k + i] = p[i]
  BY DEF Plain, Symbols
<1>5. k \in Positions(t)
  BY <1>1, <1>3 DEF Positions
<1>6. \A j \in Positions(t) : k <= j
  BY <1>1, <1>2, ChannelKeyAssumption DEF Positions
<1>7. Index(t) = k
  <2>1. Positions(t) \subseteq Nat
    BY DEF Positions
  <2>2. \A i \in Positions(t) : (\A j \in Positions(t) : i <= j) => i = k
    BY <1>1, <1>5, <1>6, <2>1
  <2> HIDE DEF t, k
  <2> QED
    BY <1>5, <1>6, <2>2 DEF Index
<1> QED
  BY <1>1, <1>2, <1>4, <1>5, <1>7

\* Keys are read the way they are written, whatever the letters and the lengths
\* (getChannelParams).
THEOREM KeysAreRead ==
  ASSUME NEW n \in Plain, NEW p \in Seq(Symbols)
  PROVE  KeyIsReadAsWritten(n, p)
<1> SUFFICES ASSUME NEW b \in BOOLEAN
    PROVE  /\ getChannelParams([lock |-> b, rest |-> n]) =
                [name |-> n, password |-> <<>>, locked |-> b]
           /\ getChannelParams([lock |-> b, rest |-> n \o <<PasswordMark>> \o p]) =
                [name |-> n, password |-> p, locked |-> TRUE]
           /\ getChannelParams([lock |-> b, rest |-> p]).name = <<>> => p = <<>>
  BY DEF KeyIsReadAsWritten
<1>1. getChannelParams([lock |-> b, rest |-> n]) =
        [name |-> n, password |-> <<>>, locked |-> b]
  <2>1. Positions(n) = {}
    BY ChannelKeyAssumption DEF Positions, Plain
  <2> QED
    BY <2>1 DEF getChannelParams, Marked
<1>2. getChannelParams([lock |-> b, rest |-> n \o <<PasswordMark>> \o p]) =
        [name |-> n, password |-> p, locked |-> TRUE]
  <2> DEFINE t == n \o <<PasswordMark>> \o p
  <2>1. t \in Seq(Symbols) /\ n \in Seq(Symbols)
    BY DEF Plain, Symbols
  <2>2. SubSeq(t, 1, Len(n)) = n
    BY <2>1, FirstMark
  <2>3. SubSeq(t, Len(n) + 2, Len(t)) = p
    BY <2>1, FirstMark
  <2>4. Marked(t) /\ Index(t) = Len(n) + 1 /\ Len(n) \in Nat
    BY FirstMark DEF Marked, Plain
  <2>5. getChannelParams([lock |-> b, rest |-> t]) =
          [name |-> n, password |-> p, locked |-> TRUE]
    <3>1. Index(t) - 1 = Len(n) /\ Index(t) + 1 = Len(n) + 2
      BY <2>4
    <3> HIDE DEF t
    <3> QED
      BY <2>2, <2>3, <2>4, <3>1, Zenon DEF getChannelParams
  <2> QED
    BY <2>5
<1>3. getChannelParams([lock |-> b, rest |-> p]).name = <<>> => p = <<>>
  <2>1. CASE ~Marked(p)
    BY <2>1 DEF getChannelParams
  <2>2. CASE Marked(p)
    <3>1. Index(p) \in 1 .. Len(p) /\ Index(p) > 1
      BY <2>2, IndexIsFirst DEF Marked, Positions
    <3>2. Len(SubSeq(p, 1, Index(p) - 1)) = Index(p) - 1
      BY <3>1
    <3>3. Len(<<>>) = 0
      OBVIOUS
    <3> QED
      BY <2>2, <3>1, <3>2, <3>3 DEF getChannelParams
  <2> QED
    BY <2>1, <2>2
<1> QED
  BY <1>1, <1>2, <1>3
=============================================================================
