------------------------------ MODULE MCRelay ------------------------------
(* Small instances of Relay for TLC. *)
EXTENDS Relay, ChannelKey, GeneratedKey, TLC

Json == INSTANCE JsonOrigin

CONSTANTS n1, n2, p1   \* letters

MCLetters == {n1, n2, p1}
NoText == <<>>
MCNames     == {<<n1>>, <<n2>>}
MCPasswords == {<<p1>>}

OpenKey       == getChannelParams([lock |-> FALSE, rest |-> <<n1>>])
LockedKey     == getChannelParams([lock |-> TRUE,  rest |-> <<n1>>])
PasswordKey   == getChannelParams([lock |-> FALSE, rest |-> <<n1, PasswordMark, p1>>])
SecondOpenKey == getChannelParams([lock |-> FALSE, rest |-> <<n2>>])

\* One channel name, one key: everybody meets.
OneKey == {OpenKey}
\* Two names, so that clients are also in different channels; with and without
\* a password for the first, and the second is open.
AllKinds == {LockedKey, PasswordKey, SecondOpenKey}

\* KeyIsReadAsWritten for names of up to two letters and texts of up to three symbols:
\* the keys that getChannelParams has to tell apart.
UpTo(n, S) == UNION {[1 .. k -> S] : k \in 0 .. n}
ASSUME KeysAreReadAsWritten ==
  \A n \in UpTo(2, MCLetters) \ {NoText}, p \in UpTo(3, MCLetters \cup {PasswordMark}) :
    KeyIsReadAsWritten(n, p)

\* OriginIsAdded for every message of up to six symbols, objects and others.
ASSUME OriginIsAddedToMessages ==
  \A t \in UpTo(6, {Json!Space, Json!Open, Json!Close, Json!Comma, "a"}) :
    Json!OriginIsAdded(t)

\* One and two digits, and words that are no multiple of the number of keys.
ASSUME DrawsAreNearlyUniform ==
  /\ \A word \in 1 .. 64 : NearlyUniform(1, word)
  /\ NearlyUniform(2, 256)

Symmetry == Permutations(Clients)
=============================================================================
