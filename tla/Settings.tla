------------------------------ MODULE Settings ------------------------------
(***************************************************************************)
(* The configuration of a server process (configure.go, conf.go,           *)
(* defaults.go, logger.go): defaults, command line and configuration file  *)
(* are merged, the logger is set up, and then the settings are validated   *)
(* and the message of the day, the TLS configuration and the addresses     *)
(* derived from them, in the order of Configure.                           *)
(***************************************************************************)
EXTENDS Integers, Sequences

CONSTANTS
  CommandLines,  \* the command lines considered: options to values or Unset
  ConfFiles,     \* the configuration files considered: likewise, or Bad
  FileSystems,   \* what is at each path: "file", "dir", "absent" or "denied"
  Unset,         \* the option is not given
  Bad,           \* the option is given, and its value does not parse
  NaN,           \* the number that flags and ParseFloat make of "nan"
  Texts,         \* what a message of the day is made of
  CertPath       \* defaultCertFile; defaultKeyFile is empty

Numbers == {"port", "port6", "loglevel", "ping_time", "timeout"}
Strings == {"certfile", "keyfile", "domain", "interface", "interface6", "motd"}
Options == Numbers \cup Strings \cup {"motd_force_display"}

\* Paths, domains, interfaces and texts are opaque; the empty string is "".  A
\* message of the day is the sequence of its parts.
Default ==
  [o \in Options |->
     CASE o \in {"port", "port6"} -> 6837
       [] o = "loglevel"          -> 2
       [] o = "ping_time"         -> 300
       [] o = "timeout"           -> 5
       [] o = "certfile"          -> CertPath
       [] o = "motd"              -> <<>>
       [] o = "motd_force_display" -> FALSE
       [] OTHER                   -> ""]

ASSUME SettingsAssumption ==
  /\ \A c \in CommandLines \cup ConfFiles :
       /\ DOMAIN c = Options
       /\ \A o \in Numbers :
            c[o] \in Int \cup {Unset, Bad} \cup (IF o = "timeout" THEN {NaN} ELSE {})
       /\ c["motd"] \in Seq(Texts) \cup {Unset, Bad}
  /\ Unset # Bad
  /\ NaN \notin {Unset, Bad} \cup Int

VARIABLES
  cli,        \* the command line
  file,       \* the configuration file
  fs,         \* the file system
  stage,      \* how far Configure has come
  settings,   \* the global variables of configure.go
  threshold,  \* logLevel, as a slog.Level
  tls,        \* where the certificate comes from
  addresses   \* what build_addresses returned

vars == <<cli, file, fs, stage, settings, threshold, tls, addresses>>
inputs == <<cli, file, fs>>

Stages == {"flags", "file", "log", "validate", "motd", "tls", "addresses",
           "done", "failed", "crashed"}

Init ==
  /\ cli \in CommandLines /\ file \in ConfFiles /\ fs \in FileSystems
  /\ stage = "flags"
  /\ settings = Default
  /\ threshold = 0
  /\ tls = "none"
  /\ addresses = {}

Goto(s) == stage' = s
At(s) == stage = s

-----------------------------------------------------------------------------
(***************************************************************************)
(* Logging.                                                                *)
(***************************************************************************)
LogSilent   == -1
LogProtocol == 4
SlogLevels  == <<10, 0, 2, 4, 8, 10>>   \* logLevelMap; slog.LevelError is 8

toSlogLevel(level) ==
  IF level \in LogSilent .. LogProtocol THEN SlogLevels[level + 2] ELSE 10

\* Log drops what is above logLevel, and the handler what is below its Level.
Shown(level) == level <= threshold /\ toSlogLevel(level) >= threshold

log_init ==
  /\ At("log") /\ Goto("validate")
  /\ threshold' = toSlogLevel(settings["loglevel"])
  /\ UNCHANGED <<inputs, settings, tls, addresses>>

-----------------------------------------------------------------------------
(***************************************************************************)
(* Merging.                                                                *)
(***************************************************************************)
\* flag.Parse ends the process on a value that does not parse.
ParseFlags ==
  /\ At("flags")
  /\ \/ /\ \E o \in Options : cli[o] = Bad
        /\ Goto("failed") /\ UNCHANGED settings
     \/ /\ \A o \in Options : cli[o] # Bad
        /\ Goto("file")
        /\ settings' = [o \in Options |->
                          IF cli[o] # Unset THEN cli[o] ELSE settings[o]]
  /\ UNCHANGED <<inputs, threshold, tls, addresses>>

\* conf_apply: the file's value, if it parses, for what cliSet does not hold.
FileAlwaysWins(o) == file[o] \notin {Unset, Bad}    \* a faulty variant
FileWins(o) == file[o] \notin {Unset, Bad} /\ cli[o] = Unset

applyConfigFile ==
  /\ At("file") /\ Goto("log")
  /\ settings' = [o \in Options |-> IF FileWins(o) THEN file[o] ELSE settings[o]]
  /\ UNCHANGED <<inputs, threshold, tls, addresses>>

\* validateSettings: s with what is out of range reset.  port6 is reset to port,
\* after port.
InPortRange(p) == p \in 1 .. 65535
ResetPort(s) == IF InPortRange(s["port"]) THEN s ELSE [s EXCEPT !["port"] = 6837]
ResetPort6(s) == IF InPortRange(s["port6"]) THEN s
                                           ELSE [s EXCEPT !["port6"] = s["port"]]
ResetPort6First(s) == ResetPort(ResetPort6(s))      \* a faulty variant
ResetPorts(s) == ResetPort6(ResetPort(s))

\* No comparison with NaN holds.
Less(x, y) == x # NaN /\ y # NaN /\ x < y

ResetTimesBelowZero(s) ==      \* a faulty variant: the timeout may be 0
  [s EXCEPT !["timeout"] = IF Less(@, 0) THEN 5 ELSE @,
            !["ping_time"] = IF @ < 30 THEN 300 ELSE @]
ResetTimes(s) ==
  [s EXCEPT !["timeout"] = IF Less(@, 1) THEN 5 ELSE @,
            !["ping_time"] = IF @ < 30 THEN 300 ELSE @]
ClampLevel(s) ==
  [s EXCEPT !["loglevel"] = IF @ < LogSilent THEN LogSilent
                            ELSE IF @ > LogProtocol THEN LogProtocol ELSE @]

validateSettings ==
  /\ At("validate") /\ Goto("motd")
  /\ settings' = ClampLevel(ResetPorts(ResetTimes(settings)))
  /\ UNCHANGED <<inputs, threshold, tls, addresses>>

\* handleMotd.  Its last reset assigns what is there already.
Warned(s) == [s EXCEPT !["motd"] = <<"warning">> \o @, !["motd_force_display"] = TRUE]

handleMotd ==
  /\ At("motd") /\ Goto("tls")
  /\ settings' = IF settings["loglevel"] = LogProtocol THEN Warned(settings) ELSE settings
  /\ UNCHANGED <<inputs, threshold, tls, addresses>>

-----------------------------------------------------------------------------
(***************************************************************************)
(* The certificate and the addresses.                                      *)
(***************************************************************************)
\* fileExists dereferences a nil FileInfo if Stat fails for another reason than
\* that there is no file.
exists(path) == fs[path] = "file"
StatPanics(path) == fs[path] = "denied"

CertAsked == settings["certfile"] # CertPath
KeyAsked  == settings["keyfile"] # ""

\* generate: a file is missing, or is the default, whether an option names it or not.
Generate ==
  \/ ~CertAsked \/ ~exists(settings["certfile"])
  \/ ~KeyAsked \/ ~exists(settings["keyfile"])

Panics == \/ CertAsked /\ StatPanics(settings["certfile"])
          \/ KeyAsked /\ StatPanics(settings["keyfile"])

\* CertMagic, the generation and the loading may fail; Configure then returns.
buildTLSConfig ==
  /\ At("tls")
  /\ tls' = IF Panics THEN "none"
            ELSE IF settings["domain"] # "" THEN "certmagic"
            ELSE IF Generate THEN "self-signed" ELSE "explicit"
  /\ IF Panics THEN Goto("crashed") ELSE Goto("addresses") \/ Goto("failed")
  /\ UNCHANGED <<inputs, settings, threshold, addresses>>

build_addresses ==
  /\ At("addresses") /\ Goto("done")
  /\ addresses' = {<<settings["interface"], settings["port"]>>,
                   <<settings["interface6"], settings["port6"]>>}
  /\ UNCHANGED <<inputs, settings, threshold, tls>>

\* listen sets a deadline for the handshake of a connection.
HandshakeLimited == Less(0, settings["timeout"])

-----------------------------------------------------------------------------
Stopped == stage \in {"done", "failed", "crashed"}

Next ==
  \/ ParseFlags \/ applyConfigFile \/ log_init \/ validateSettings \/ handleMotd
  \/ buildTLSConfig \/ build_addresses
  \/ Stopped /\ UNCHANGED vars

Spec == Init /\ [][Next]_vars

-----------------------------------------------------------------------------
(***************************************************************************)
(* Properties.                                                             *)
(***************************************************************************)

\* What is left to the later stages is in range, whatever the flags and the file
\* say: in particular a port6 that is reset takes a port that is itself in range.
\* A client has limited time for the handshake, unless the source that prevails
\* says nan, which validation lets through.
Prevailing(o) == IF cli[o] # Unset THEN cli[o] ELSE file[o]

ValidSettings ==
  stage \in {"motd", "tls", "addresses", "done"} =>
    /\ InPortRange(settings["port"]) /\ InPortRange(settings["port6"])
    /\ settings["loglevel"] \in LogSilent .. LogProtocol
    /\ settings["ping_time"] >= 30
    /\ ~HandshakeLimited => Prevailing("timeout") = NaN

\* A valid value on the command line prevails over the file, to the end: merging
\* and validation do not undo it.
ValidValue(o, v) ==
  /\ o \in {"port", "port6"} => InPortRange(v)
  /\ o = "loglevel" => v \in LogSilent .. LogProtocol
  /\ o = "ping_time" => v >= 30
  /\ o = "timeout" => Less(0, v) /\ ~Less(v, 1)

CommandLineWins ==
  \A o \in Options \ {"motd", "motd_force_display"} :
    stage = "done" /\ cli[o] # Unset /\ ValidValue(o, cli[o]) => settings[o] = cli[o]

\* The claim of the README (README.MD:206): each level also logs everything
\* below it.
LevelsAreInclusive ==
  stage = "done" =>
    \A l \in 0 .. LogProtocol : Shown(l) <=> l <= settings["loglevel"]
=============================================================================
