----------------------------- MODULE JsonOrigin -----------------------------
(***************************************************************************)
(* JsonAddOrigin (jsonFuncs.go): the sender's id is put into a message     *)
(* without parsing it.                                                     *)
(*                                                                         *)
(* A message is a sequence of symbols: white space, the braces and commas  *)
(* of the outermost object, and anything else, of which a "key":value is   *)
(* one symbol, whatever objects the value contains.                        *)
(***************************************************************************)
EXTENDS Naturals, Sequences
LOCAL INSTANCE FiniteSetsExt

Space == " "
Open  == "{"
Close == "}"
Comma == ","
Origin == "origin"   \* "origin": and the id

\* Where the white space from i on ends, behind t if nothing else follows.
SkipSpace(t, i) == Min({j \in i .. Len(t) : t[j] # Space} \cup {Len(t) + 1})
HasAt(t, i, symbol) == i <= Len(t) /\ t[i] = symbol

\* The outcome without ok is an error: the message is not JSON, and goes on as it is.
JsonAddOrigin(t) ==
  LET i == SkipSpace(t, 1)
      j == SkipSpace(t, i + 1)
      Insert(inserted, rest) ==
        [ok |-> TRUE, text |-> SubSeq(t, 1, i) \o inserted \o SubSeq(t, rest, Len(t))]
  IN IF ~HasAt(t, i, Open)
     THEN [ok |-> FALSE, text |-> t]
     ELSE IF HasAt(t, j, Close)
          THEN Insert(<<Origin>>, j)
          ELSE Insert(<<Origin, Comma>>, i + 1)

-----------------------------------------------------------------------------
\* Reference: the grammar of objects, of which white space is no part.
Packed(t) == SelectSeq(t, LAMBDA s : s # Space)
Inner(t) == SubSeq(Packed(t), 2, Len(Packed(t)) - 1)
Fields(t) == SelectSeq(t, LAMBDA s : s \notin {Space, Open, Close, Comma})
IsObject(t) ==
  /\ Len(Packed(t)) >= 2
  /\ HasAt(Packed(t), 1, Open) /\ HasAt(Packed(t), Len(Packed(t)), Close)
  /\ \/ Inner(t) = <<>>
     \/ /\ Len(Inner(t)) % 2 = 1
        /\ \A i \in DOMAIN Inner(t) :
             IF i % 2 = 0 THEN Inner(t)[i] = Comma
                          ELSE Inner(t)[i] \notin {Open, Close, Comma}

\* An object stays one and gets the origin as its first field; what is none does not
\* become one; and only what begins like an object is taken for one.
OriginIsAdded(t) ==
  LET added == JsonAddOrigin(t)
  IN /\ IsObject(t) => added.ok
     /\ added.ok => /\ Fields(added.text) = <<Origin>> \o Fields(t)
                    /\ IsObject(added.text) <=> IsObject(t)
     /\ added.ok <=> HasAt(Packed(t), 1, Open)
=============================================================================
