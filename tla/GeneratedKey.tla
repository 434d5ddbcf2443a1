---------------------------- MODULE GeneratedKey ----------------------------
(***************************************************************************)
(* The keys that generate_key hands out (genKey.go): so many random        *)
(* digits, drawn again while they are the name or password of a channel.   *)
(* The draw is a value of a word, 64 bits in the code.                     *)
(***************************************************************************)
EXTENDS Naturals, SequencesExt

Digit == 0 .. 9

\* The digits from the last to the first, turned round.
randomDigits(n, drawn) ==
  LET val == drawn % 10 ^ n
  IN Reverse([i \in 1 .. n |-> (val \div 10 ^ (i - 1)) % 10])

\* channels: names to the passwords of their channels.
channelKeyTaken(key, channels) ==
  \E name \in DOMAIN channels : name = key \/ channels[name] = key

\* What gen_key may return; it draws for ever if there is nothing.
gen_key(n, channels) ==
  {key \in [1 .. n -> Digit] : ~channelKeyTaken(key, channels)}

-----------------------------------------------------------------------------
\* Every key of n digits comes from as many values of a word as any other, or from one
\* more ("nearly uniform").
NearlyUniform(n, word) ==
  LET Draws(key) == Cardinality({v \in 0 .. word - 1 : randomDigits(n, v) = key})
  IN \A key \in [1 .. n -> Digit] : Draws(key) - word \div 10 ^ n \in {0, 1}
=============================================================================
