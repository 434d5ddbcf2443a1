--------------------------- MODULE SettingsProofs ---------------------------
(***************************************************************************)
(* Proofs about Settings: TLC tries the command lines and files of         *)
(* MCSettings, these theorems hold for all that the assumption allows.     *)
(***************************************************************************)
EXTENDS Settings, TLAPS

\* What a setting can be, before and after validation.
Typed(s) ==
  /\ DOMAIN s = Options
  /\ \A o \in Numbers \ {"timeout"} : s[o] \in Int
  /\ s["timeout"] \in Int \cup {NaN}

InRange(s) ==
  /\ InPortRange(s["port"]) /\ InPortRange(s["port6"])
  /\ s["loglevel"] \in LogSilent .. LogProtocol
  /\ s["ping_time"] >= 30
  /\ Less(0, s["timeout"]) \/ s["timeout"] = NaN

\* The value on the command line is there still, if it is one to keep.
KeepsCommandLine(s, o) == cli[o] # Unset /\ ValidValue(o, cli[o]) => s[o] = cli[o]
Scalars == Options \ {"motd", "motd_force_display"}

Validated == stage \in {"motd", "tls", "addresses", "done"}

\* The inductive invariant.
IInv ==
  /\ cli \in CommandLines /\ file \in ConfFiles
  /\ stage \in Stages
  /\ Typed(settings)
  /\ stage \notin {"flags", "failed"} => \A o \in Options : cli[o] # Bad
  /\ stage = "flags" => settings["timeout"] # NaN
  /\ /\ stage \in {"file", "log", "validate"} \/ Validated
     /\ settings["timeout"] = NaN
     => Prevailing("timeout") = NaN
  /\ stage \in {"file", "log", "validate"} \/ Validated =>
       \A o \in Scalars : KeepsCommandLine(settings, o)
  /\ Validated => InRange(settings)

-----------------------------------------------------------------------------
(***************************************************************************)
(* The parts of validateSettings.                                          *)
(***************************************************************************)
LEMMA TimesReset ==
  ASSUME NEW s, Typed(s)
  PROVE  LET r == ResetTimes(s)
         IN  /\ Typed(r)
             /\ r["ping_time"] >= 30
             /\ Less(0, r["timeout"]) \/ r["timeout"] = NaN
             /\ r["timeout"] = NaN => s["timeout"] = NaN
             /\ s["ping_time"] >= 30 => r["ping_time"] = s["ping_time"]
             /\ ~Less(s["timeout"], 1) => r["timeout"] = s["timeout"]
             /\ \A o \in Options \ {"ping_time", "timeout"} : r[o] = s[o]
<1> DEFINE r == ResetTimes(s)
<1>1. /\ {"ping_time", "timeout", "motd"} \subseteq Options
      /\ Numbers \subseteq Options /\ NaN \notin Int
  BY SettingsAssumption DEF Options, Numbers, Strings
<1>2. /\ DOMAIN r = Options
      /\ r["timeout"] = IF Less(s["timeout"], 1) THEN 5 ELSE s["timeout"]
      /\ r["ping_time"] = IF s["ping_time"] < 30 THEN 300 ELSE s["ping_time"]
      /\ \A o \in Options \ {"ping_time", "timeout"} : r[o] = s[o]
  BY <1>1 DEF ResetTimes, Typed
<1> HIDE DEF r
<1>3. s["ping_time"] \in Int /\ s["timeout"] \in Int \cup {NaN}
  BY DEF Typed, Numbers
<1>4. Typed(r)
  <2>1. \A o \in Numbers \ {"timeout"} : r[o] \in Int
    BY <1>1, <1>2, <1>3 DEF Typed
  <2>2. r["timeout"] \in Int \cup {NaN}
    BY <1>2, <1>3
  <2> QED
    BY <1>1, <1>2, <2>1, <2>2 DEF Typed
<1>5. Less(0, r["timeout"]) \/ r["timeout"] = NaN
  BY <1>1, <1>2, <1>3 DEF Less
<1>6. r["timeout"] = NaN => s["timeout"] = NaN
  BY <1>1, <1>2
<1> QED
  BY <1>2, <1>3, <1>4, <1>5, <1>6 DEF r

LEMMA PortsReset ==
  ASSUME NEW s, Typed(s)
  PROVE  LET r == ResetPorts(s)
         IN  /\ Typed(r)
             /\ InPortRange(r["port"]) /\ InPortRange(r["port6"])
             /\ \A o \in {"port", "port6"} : InPortRange(s[o]) => r[o] = s[o]
             /\ \A o \in Options \ {"port", "port6"} : r[o] = s[o]
<1> DEFINE q == ResetPort(s)
           r == ResetPort6(q)
<1>1. {"port", "port6", "motd", "timeout"} \subseteq Options /\ Numbers \subseteq Options
  BY DEF Options, Numbers, Strings
<1>2. /\ DOMAIN q = Options /\ \A o \in Options \ {"port"} : q[o] = s[o]
      /\ q["port"] = IF InPortRange(s["port"]) THEN s["port"] ELSE 6837
  BY <1>1 DEF ResetPort, Typed
<1>3. /\ DOMAIN r = Options /\ \A o \in Options \ {"port6"} : r[o] = q[o]
      /\ r["port6"] = IF InPortRange(q["port6"]) THEN q["port6"] ELSE q["port"]
  BY <1>1, <1>2 DEF ResetPort6
<1> HIDE DEF q, r
<1>4. InPortRange(q["port"]) /\ InPortRange(r["port"]) /\ InPortRange(r["port6"])
  <2>1. InPortRange(6837)
    BY DEF InPortRange
  <2>2. InPortRange(q["port"])
    BY <1>2, <2>1
  <2>3. r["port"] = q["port"]
    BY <1>1, <1>3
  <2>4. InPortRange(r["port6"])
    BY <1>3, <2>2
  <2> QED
    BY <2>2, <2>3, <2>4
<1>5. Typed(r)
  <2>1. \A o \in Numbers \ {"timeout"} : r[o] \in Int
    <3> TAKE o \in Numbers \ {"timeout"}
    <3>1. CASE o \in {"port", "port6"}
      <4>1. InPortRange(r[o])
        BY <1>4, <3>1
      <4>2. \A x : InPortRange(x) => x \in Int
        BY DEF InPortRange
      <4> QED
        BY <4>1, <4>2
    <3>2. CASE o \notin {"port", "port6"}
      BY <1>1, <1>2, <1>3, <3>2 DEF Typed
    <3> QED
      BY <3>1, <3>2
  <2> QED
    BY <1>1, <1>2, <1>3, <2>1 DEF Typed
<1> QED
  BY <1>1, <1>2, <1>3, <1>4, <1>5 DEF ResetPorts, q, r

LEMMA LevelClamped ==
  ASSUME NEW s, Typed(s)
  PROVE  LET r == ClampLevel(s)
         IN  /\ Typed(r)
             /\ r["loglevel"] \in LogSilent .. LogProtocol
             /\ s["loglevel"] \in LogSilent .. LogProtocol => r["loglevel"] = s["loglevel"]
             /\ \A o \in Options \ {"loglevel"} : r[o] = s[o]
<1> DEFINE r == ClampLevel(s)
<1>1. {"loglevel", "motd", "timeout"} \subseteq Options /\ Numbers \subseteq Options
  BY DEF Options, Numbers, Strings
<1>2. /\ DOMAIN r = Options /\ \A o \in Options \ {"loglevel"} : r[o] = s[o]
      /\ r["loglevel"] = IF s["loglevel"] < LogSilent THEN LogSilent
                         ELSE IF s["loglevel"] > LogProtocol THEN LogProtocol
                         ELSE s["loglevel"]
  BY <1>1 DEF ClampLevel, Typed
<1> HIDE DEF r
<1>3. s["loglevel"] \in Int
  BY DEF Typed, Numbers
<1>4. Typed(r)
  <2>1. \A o \in Numbers \ {"timeout"} : r[o] \in Int
    BY <1>1, <1>2, <1>3 DEF Typed, LogSilent, LogProtocol
  <2> QED
    BY <1>1, <1>2, <2>1 DEF Typed
<1> QED
  BY <1>2, <1>3, <1>4 DEF r, LogSilent, LogProtocol

\* Validation puts everything in range and keeps what was.
LEMMA ValidationCorrect ==
  ASSUME NEW s, Typed(s)
  PROVE  LET r == ClampLevel(ResetPorts(ResetTimes(s)))
         IN  /\ Typed(r) /\ InRange(r)
             /\ r["timeout"] = NaN => s["timeout"] = NaN
             /\ \A o \in Options : ValidValue(o, s[o]) => r[o] = s[o]
<1> DEFINE t == ResetTimes(s)
           p == ResetPorts(t)
           r == ClampLevel(p)
<1>1. /\ Typed(t)
      /\ t["ping_time"] >= 30
      /\ Less(0, t["timeout"]) \/ t["timeout"] = NaN
      /\ t["timeout"] = NaN => s["timeout"] = NaN
      /\ s["ping_time"] >= 30 => t["ping_time"] = s["ping_time"]
      /\ ~Less(s["timeout"], 1) => t["timeout"] = s["timeout"]
      /\ \A o \in Options \ {"ping_time", "timeout"} : t[o] = s[o]
  BY TimesReset
<1> HIDE DEF t
<1>2. /\ Typed(p)
      /\ InPortRange(p["port"]) /\ InPortRange(p["port6"])
      /\ \A o \in {"port", "port6"} : InPortRange(t[o]) => p[o] = t[o]
      /\ \A o \in Options \ {"port", "port6"} : p[o] = t[o]
  BY <1>1, PortsReset
<1> HIDE DEF p
<1>3. /\ Typed(r)
      /\ r["loglevel"] \in LogSilent .. LogProtocol
      /\ p["loglevel"] \in LogSilent .. LogProtocol => r["loglevel"] = p["loglevel"]
      /\ \A o \in Options \ {"loglevel"} : r[o] = p[o]
  BY <1>2, LevelClamped
<1> HIDE DEF r
<1>4. {"port", "port6", "loglevel", "ping_time", "timeout"} \subseteq Options
  BY DEF Options, Numbers
<1>5. InRange(r)
  BY <1>1, <1>2, <1>3, <1>4 DEF InRange
<1>6. ASSUME NEW o \in Options, ValidValue(o, s[o])
      PROVE  r[o] = s[o]
  <2>1. CASE o \in {"port", "port6"}
    BY <1>1, <1>2, <1>3, <1>6, <2>1 DEF ValidValue
  <2>2. CASE o = "loglevel"
    BY <1>1, <1>2, <1>3, <1>6, <2>2 DEF ValidValue
  <2>3. CASE o = "ping_time"
    BY <1>1, <1>2, <1>3, <1>6, <2>3 DEF ValidValue
  <2>4. CASE o = "timeout"
    BY <1>1, <1>2, <1>3, <1>6, <2>4 DEF ValidValue
  <2>5. CASE o \notin {"port", "port6", "loglevel", "ping_time", "timeout"}
    BY <1>1, <1>2, <1>3, <2>5
  <2> QED
    BY <2>1, <2>2, <2>3, <2>4, <2>5
<1>7. r["timeout"] = NaN => s["timeout"] = NaN
  BY <1>1, <1>2, <1>3, <1>4
<1> QED
  BY <1>3, <1>5, <1>6, <1>7 DEF r, p, t

-----------------------------------------------------------------------------
LEMMA OptionNames ==
  /\ Numbers \subseteq Options /\ {"motd", "timeout", "motd_force_display"} \subseteq Options
  /\ {"motd", "motd_force_display"} \cap Numbers = {}
BY DEF Options, Numbers, Strings

LEMMA ConstantFacts ==
  /\ Unset # Bad /\ NaN \notin Int /\ NaN # Unset /\ NaN # Bad
  /\ \A c \in CommandLines \cup ConfFiles :
       /\ DOMAIN c = Options
       /\ \A o \in Numbers \ {"timeout"} : c[o] \in Int \cup {Unset, Bad}
       /\ c["timeout"] \in Int \cup {Unset, Bad, NaN}
BY SettingsAssumption DEF Numbers

LEMMA DefaultTyped == Typed(Default) /\ Default["timeout"] # NaN
<1>1. /\ DOMAIN Default = Options
      /\ Default["timeout"] = 5
      /\ \A o \in Numbers : Default[o] \in Int
  BY DEF Default, Options, Numbers, Strings
<1> QED
  BY <1>1, ConstantFacts DEF Typed, Numbers

LEMMA MergeTyped ==
  ASSUME NEW s, Typed(s), NEW c \in CommandLines \cup ConfFiles, NEW r,
         DOMAIN r = Options,
         \A o \in Options : r[o] = s[o] \/ (r[o] = c[o] /\ c[o] \notin {Unset, Bad})
  PROVE  Typed(r)
<1>1. \A o \in Numbers \ {"timeout"} : r[o] \in Int
  BY OptionNames, ConstantFacts DEF Typed
<1>2. r["timeout"] \in Int \cup {NaN}
  BY OptionNames, ConstantFacts DEF Typed
<1> QED
  BY <1>1, <1>2 DEF Typed

-----------------------------------------------------------------------------
LEMMA IInvInit == Init => IInv
<1> SUFFICES ASSUME Init
             PROVE  IInv
  OBVIOUS
<1>1. stage = "flags" /\ settings = Default
  BY DEF Init
<1> QED
  BY <1>1, DefaultTyped DEF Init, IInv, Stages, Validated

\* What a step of the stages before the certificate has to show.
LEMMA EarlyStep ==
  ASSUME IInv, UNCHANGED inputs, stage' \in Stages, Typed(settings'),
         stage \notin {"flags", "failed"}, stage' \in {"log", "validate", "motd", "tls"},
         settings'["timeout"] = NaN => Prevailing("timeout") = NaN,
         \A o \in Scalars : KeepsCommandLine(settings', o),
         stage' \in {"motd", "tls"} => InRange(settings')
  PROVE  IInv'
BY DEF IInv, inputs, Validated, Prevailing, KeepsCommandLine

LEMMA ParseFlagsStep ==
  ASSUME IInv, ParseFlags
  PROVE  IInv'
<1>1. stage = "flags" /\ UNCHANGED <<cli, file, fs>>
  BY DEF ParseFlags, At, inputs, IInv
<1>2. CASE stage' = "failed"
  <2>1. UNCHANGED settings
    BY <1>2 DEF ParseFlags, Goto
  <2> QED
    BY <1>1, <1>2, <2>1 DEF IInv, Stages, Validated
<1>3. CASE stage' # "failed"
  <2>1. /\ stage' = "file" /\ \A o \in Options : cli[o] # Bad
        /\ settings' = [o \in Options |-> IF cli[o] # Unset THEN cli[o] ELSE settings[o]]
    BY <1>3 DEF ParseFlags, Goto
  <2>2. Typed(settings')
    BY <2>1, MergeTyped DEF IInv
  <2>3. \A o \in Scalars : KeepsCommandLine(settings', o)
    BY <2>1 DEF Scalars, KeepsCommandLine
  <2>4. settings'["timeout"] = NaN => cli["timeout"] = NaN
    BY <1>1, <2>1, OptionNames DEF IInv
  <2>5. settings'["timeout"] = NaN => Prevailing("timeout") = NaN
    BY <2>4, ConstantFacts DEF Prevailing
  <2> QED
    BY <1>1, <2>1, <2>2, <2>3, <2>5
       DEF IInv, Stages, Validated, Prevailing, KeepsCommandLine
<1> QED
  BY <1>2, <1>3

LEMMA ConfigFileStep ==
  ASSUME IInv, applyConfigFile
  PROVE  IInv'
<1>1. /\ stage = "file" /\ stage' = "log" /\ UNCHANGED inputs
      /\ settings' = [o \in Options |-> IF FileWins(o) THEN file[o] ELSE settings[o]]
  BY DEF applyConfigFile, At, Goto, IInv
<1>2. Typed(settings')
  BY <1>1, MergeTyped DEF IInv, FileWins
<1>3. \A o \in Scalars : KeepsCommandLine(settings', o)
  BY <1>1 DEF IInv, Scalars, KeepsCommandLine, FileWins
<1>4. settings'["timeout"] = NaN => Prevailing("timeout") = NaN
  BY <1>1, OptionNames DEF IInv, FileWins, Prevailing
<1> QED
  BY <1>1, <1>2, <1>3, <1>4, EarlyStep DEF Stages

LEMMA ValidateStep ==
  ASSUME IInv, validateSettings
  PROVE  IInv'
<1>1. /\ stage = "validate" /\ stage' = "motd" /\ UNCHANGED inputs
      /\ settings' = ClampLevel(ResetPorts(ResetTimes(settings)))
  BY DEF validateSettings, At, Goto, IInv
<1>2. /\ Typed(settings') /\ InRange(settings')
      /\ settings'["timeout"] = NaN => settings["timeout"] = NaN
      /\ \A o \in Options : ValidValue(o, settings[o]) => settings'[o] = settings[o]
  BY <1>1, ValidationCorrect DEF IInv
<1>3. \A o \in Scalars : KeepsCommandLine(settings', o)
  BY <1>1, <1>2 DEF IInv, KeepsCommandLine, Scalars
<1>4. settings'["timeout"] = NaN => Prevailing("timeout") = NaN
  BY <1>1, <1>2 DEF IInv
<1> QED
  BY <1>1, <1>2, <1>3, <1>4, EarlyStep DEF Stages

LEMMA MotdStep ==
  ASSUME IInv, handleMotd
  PROVE  IInv'
<1>1. /\ stage = "motd" /\ stage' = "tls" /\ UNCHANGED inputs
      /\ settings' = IF settings["loglevel"] = LogProtocol THEN Warned(settings)
                     ELSE settings
  BY DEF handleMotd, At, Goto, IInv
<1>2. /\ Typed(settings) /\ InRange(settings)
      /\ \A o \in Scalars : KeepsCommandLine(settings, o)
      /\ settings["timeout"] = NaN => Prevailing("timeout") = NaN
  BY <1>1 DEF IInv, Validated
<1>3. /\ Typed(settings')
      /\ \A o \in Options \ {"motd", "motd_force_display"} : settings'[o] = settings[o]
  <2>1. CASE settings["loglevel"] # LogProtocol
    BY <1>1, <1>2, <2>1
  <2>2. CASE settings["loglevel"] = LogProtocol
    <3>1. /\ DOMAIN settings' = Options
          /\ \A o \in Options \ {"motd", "motd_force_display"} : settings'[o] = settings[o]
      BY <1>1, <1>2, <2>2, OptionNames DEF Warned, Typed
    <3> QED
      BY <1>2, <3>1, OptionNames DEF Typed
  <2> QED
    BY <2>1, <2>2
<1>4. InRange(settings')
  <2>1. {"port", "port6", "loglevel", "ping_time", "timeout"}
          \subseteq Options \ {"motd", "motd_force_display"}
    BY DEF Options, Numbers
  <2> QED
    BY <1>2, <1>3, <2>1 DEF InRange
<1>5. settings'["timeout"] = NaN => Prevailing("timeout") = NaN
  BY <1>2, <1>3, OptionNames DEF Numbers
<1>6. \A o \in Scalars : KeepsCommandLine(settings', o)
  BY <1>2, <1>3 DEF KeepsCommandLine, Scalars
<1> QED
  BY <1>1, <1>3, <1>4, <1>5, <1>6, EarlyStep DEF Stages

LEMMA IInvStep == IInv /\ [Next]_vars => IInv'
<1> SUFFICES ASSUME IInv, [Next]_vars
             PROVE  IInv'
  OBVIOUS
<1>1. CASE UNCHANGED vars
  BY <1>1 DEF vars, IInv, Validated, Prevailing,
     KeepsCommandLine
<1>2. CASE log_init
  <2>1. stage = "log" /\ stage' = "validate" /\ UNCHANGED <<inputs, settings>>
    BY <1>2 DEF log_init, At, Goto
  <2> QED
    BY <2>1, EarlyStep DEF IInv, Stages
<1>3. CASE buildTLSConfig
  <2>1. /\ stage = "tls" /\ UNCHANGED <<cli, file, fs, settings>>
        /\ stage' \in {"crashed", "addresses", "failed"}
    BY <1>3 DEF buildTLSConfig, At, Goto, inputs
  <2> QED
    BY <2>1 DEF IInv, Stages, Validated, Prevailing, KeepsCommandLine
<1>4. CASE build_addresses
  <2>1. /\ stage = "addresses" /\ stage' = "done"
        /\ UNCHANGED <<cli, file, fs, settings>>
    BY <1>4 DEF build_addresses, At, Goto, inputs
  <2> QED
    BY <2>1 DEF IInv, Stages, Validated, Prevailing,
       KeepsCommandLine
<1> QED
  BY <1>1, <1>2, <1>3, <1>4, ParseFlagsStep, ConfigFileStep, ValidateStep, MotdStep DEF Next

\* The inductive invariant: what each stage of Configure has settled for those after it.
THEOREM Invariance == Spec => []IInv
<1> QED
  BY IInvInit, IInvStep, PTL DEF Spec

\* Every number, from whatever source, is in range once it has been validated.
THEOREM SettingsInRange == Spec => []ValidSettings
<1>1. IInv => ValidSettings
  BY DEF IInv, ValidSettings, Validated, InRange, HandshakeLimited
<1> QED
  BY <1>1, Invariance, PTL

\* Whatever the file holds, a valid value on the command line is the one that counts.
THEOREM CommandLineFirst == Spec => []CommandLineWins
<1>1. IInv => CommandLineWins
  BY DEF IInv, CommandLineWins, Validated, KeepsCommandLine, Scalars
<1> QED
  BY <1>1, Invariance, PTL
=============================================================================
