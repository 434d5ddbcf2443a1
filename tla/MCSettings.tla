----------------------------- MODULE MCSettings -----------------------------
(***************************************************************************)
(* Command lines and files that touch one group of options each: the       *)
(* ports, the level and the message, the times, the certificate.  The      *)
(* numbers are the boundaries of validateSettings.                         *)
(***************************************************************************)
EXTENDS Settings, ConfFile

\* The records that give the options of a group a value of theirs, or none.
Nothing == [o \in Options |-> Unset]
Given(group) ==
  {[o \in Options |-> IF o \in DOMAIN g THEN g[o] ELSE Unset] : g \in group}

Ports ==
  [port : {Unset, 0, 1, 65536}, port6 : {Unset, 7000, 65535, 65536}]
Levels == [loglevel : {Unset, -2, -1, 0, 3, 4, 5}, motd : {Unset, <<"hello">>}]
Times == [ping_time : {Unset, 29, 30}, timeout : {Unset, 0, 1, NaN}]
MCCertPath == "server.pem"
Certs == [certfile : {Unset, "", "c.pem", MCCertPath},
          keyfile : {Unset, "", "k.pem", MCCertPath}]
Others == [domain : {"example.org"}, certfile : {Unset, "c.pem"}]
            \cup [motd_force_display : {TRUE}, interface : {"0.0.0.0"}]

MCCommandLines ==
  UNION {Given(g) : g \in {Ports, Levels, Times, Certs, Others, [port : {Bad}]}}
MCConfFiles ==
  {Nothing} \cup
  UNION {Given(g) : g \in {[port : {7001, 65536, Bad}, port6 : {Unset, 0, 7002}],
                           [loglevel : {-2, 4, 5, Bad}, motd : {Unset, <<"bye">>}],
                           [ping_time : {10, 60}, timeout : {Bad, 9, NaN}],
                           Certs, Others}}

\* FileIsReadAsWritten for two options and values of up to three symbols, signs and
\* marks of comments among them, with an empty line or a comment between the settings.
MCValues == UNION {[1 .. k -> {"v", Blank, Hash, Equals}] : k \in 0 .. 3}
ASSUME FileReadAsWritten ==
  \A v \in MCValues,
     w \in {<<>>, <<"v">>, <<Equals>>, <<Hash>>},
     noise \in {<<>>, <<Blank>>, <<Return>>, <<"port">>, <<Hash, "p", Equals, "v">>,
                <<Blank, Hash, "p", Equals, "v">>, <<Hash>>} :
    FileIsReadAsWritten(<<"p">>, <<"p", "6">>, v, w, noise)

MCFileSystems ==
  {[p \in {"", MCCertPath, "c.pem", "k.pem"} |->
      CASE p = "c.pem" -> c [] p = "k.pem" -> k
        [] p = MCCertPath -> d [] OTHER -> "absent"] :
     c, k \in {"file", "dir", "absent", "denied"}, d \in {"file", "absent"}}
=============================================================================
