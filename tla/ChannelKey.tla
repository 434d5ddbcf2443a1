----------------------------- MODULE ChannelKey -----------------------------
(***************************************************************************)
(* Channel keys: the text that a client sends to join, and the name, the   *)
(* password and the lock that getChannelParams (clientChannel.go) takes    *)
(* from it.                                                                *)
(*                                                                         *)
(* The text is a sequence of symbols.  Only a "lock_" at its front means   *)
(* anything, so that it is a field of its own; each "__password__", as     *)
(* strings.Index meets them from the left, is one symbol, and everything   *)
(* else, an inner "lock_" too, is letters.                                 *)
(***************************************************************************)
EXTENDS Naturals, Sequences

CONSTANTS
  Letters,
  PasswordMark   \* "__password__"

ASSUME ChannelKeyAssumption == PasswordMark \notin Letters

Symbols == Letters \cup {PasswordMark}
Keys == [lock : BOOLEAN, rest : Seq(Symbols)]

Positions(t) == {i \in 1 .. Len(t) : t[i] = PasswordMark}
Index(t) == CHOOSE i \in Positions(t) : \A j \in Positions(t) : i <= j

\* The first mark counts, and only if a name stands before it.
Marked(t) == Positions(t) # {} /\ Index(t) > 1

getChannelParams(k) ==
  IF Marked(k.rest)
  THEN [name     |-> SubSeq(k.rest, 1, Index(k.rest) - 1),
        password |-> SubSeq(k.rest, Index(k.rest) + 1, Len(k.rest)),
        locked   |-> TRUE]
  ELSE [name |-> k.rest, password |-> <<>>, locked |-> k.lock]

-----------------------------------------------------------------------------
\* Keys are read the way the README writes them (README.MD:272-273): a plain name is
\* itself, locked or not, and a name with a mark and any text has that text, which may
\* contain marks, as its password.  No text but the empty one is left without a name,
\* which the join command would reject.
KeyIsReadAsWritten(n, p) ==
  \A b \in BOOLEAN :
    /\ getChannelParams([lock |-> b, rest |-> n]) =
         [name |-> n, password |-> <<>>, locked |-> b]
    /\ getChannelParams([lock |-> b, rest |-> n \o <<PasswordMark>> \o p]) =
         [name |-> n, password |-> p, locked |-> TRUE]
    /\ getChannelParams([lock |-> b, rest |-> p]).name = <<>> => p = <<>>
=============================================================================
