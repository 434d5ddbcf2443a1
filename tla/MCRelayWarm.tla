---------------------------- MODULE MCRelayWarm ----------------------------
(***************************************************************************)
(* Relay from a state in which two clients have been accepted and are in   *)
(* one channel, which is where locks are contended: TLC then affords three *)
(* clients for the liveness properties.  Other connections may have come   *)
(* and gone since, so that the counter has wrapped and the next id is one  *)
(* that a member has.                                                      *)
(***************************************************************************)
EXTENDS MCRelay

CONSTANTS c1, c2

\* c1 was accepted and created the channel, then c2 was accepted and joined.
WarmInit ==
  /\ lastID \in {0, 2}
  /\ clients = {c1, c2}
  /\ channels = [n \in Names |-> IF n = <<n1>> THEN c1 ELSE None]
  /\ id = [c \in Clients |-> CASE c = c1 -> 1 [] c = c2 -> 2 [] OTHER -> 0]
  /\ channel = [c \in Clients |-> IF c \in {c1, c2} THEN c1 ELSE None]
  /\ auth = {c1, c2}
  /\ cancelled = {}
  /\ params = [ch \in Clients |-> IF ch = c1 THEN OpenKey ELSE None]
  /\ ClientsAll = [ch \in Clients |-> IF ch = c1 THEN {c1, c2} ELSE {}]
  /\ nilMap = {}
  /\ pc = [c \in Clients |-> IF c \in {c1, c2} THEN "reading" ELSE "new"]
  /\ cc = [c \in Clients |-> None]
  /\ key = [c \in Clients |-> IF c \in {c1, c2} THEN OpenKey ELSE None]
  /\ pending = [c \in Clients |-> {}]
  /\ announced = {}
  /\ view = [c \in Clients |-> CASE c = c1 -> {2} [] c = c2 -> {1} [] OTHER -> {}]
  /\ lossy = {}
  /\ crashed = FALSE

WarmSpec == WarmInit /\ [][Next]_vars /\ Fairness
=============================================================================
