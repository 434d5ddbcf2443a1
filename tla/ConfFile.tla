------------------------------ MODULE ConfFile ------------------------------
(***************************************************************************)
(* The configuration file's lines and what conf_read_python (conf.go)      *)
(* makes of them: a function from options to values, both of them texts.   *)
(* A text is a sequence of symbols, of which four mean something.          *)
(***************************************************************************)
EXTENDS Naturals, Sequences
LOCAL INSTANCE FiniteSetsExt

Blank  == " "
Return == "CR"     \* which is white space too
Hash   == "#"
Equals == "="

Solid(t) == {i \in DOMAIN t : t[i] \notin {Blank, Return}}
TrimSpace(t) ==
  IF Solid(t) = {} THEN <<>> ELSE SubSeq(t, Min(Solid(t)), Max(Solid(t)))
TrimReturn(t) ==
  IF t # <<>> /\ t[Len(t)] = Return THEN SubSeq(t, 1, Len(t) - 1) ELSE t

Signs(t) == {i \in DOMAIN t : t[i] = Equals}
IsComment(t) == TrimSpace(t) # <<>> /\ TrimSpace(t)[1] = Hash
IsSetting(t) == ~IsComment(t) /\ Signs(t) # {}

\* Cut at the first sign; the option is trimmed, and the value is not.
OptionOf(t) == TrimSpace(SubSeq(t, 1, Min(Signs(t)) - 1))
ValueOf(t)  == SubSeq(TrimReturn(t), Min(Signs(t)) + 1, Len(TrimReturn(t)))

\* A later line for the same option overrides an earlier one.
conf_read_python(lines) ==
  LET settings  == {i \in DOMAIN lines : IsSetting(lines[i])}
      LinesOf(o) == {i \in settings : OptionOf(lines[i]) = o}
  IN [o \in {OptionOf(lines[i]) : i \in settings} |-> ValueOf(lines[Max(LinesOf(o))])]

-----------------------------------------------------------------------------
\* The lines in which an option is written, with blanks around its name and with
\* either end of line.
Written(o, v) ==
  {before \o o \o after \o <<Equals>> \o v \o end :
     before, after \in {<<>>, <<Blank>>}, end \in {<<>>, <<Return>>}}

\* Two options that are written, the first one twice, are read as written, and lines
\* that are empty or comments change nothing.
FileIsReadAsWritten(o, p, v, w, noise) ==
  \A line \in Written(o, v) :
    conf_read_python(<<o \o <<Equals>> \o w, noise, p \o <<Equals>> \o w, line, noise>>) =
      [x \in {o, p} |-> IF x = o THEN v ELSE w]
=============================================================================
