------------------------------ MODULE Mailbox ------------------------------
(***************************************************************************)
(* What a client's queue and writer promise those who send to the client:  *)
(* the messages taken on are delivered in the order they were taken on,    *)
(* none twice and none skipped, until delivery stops for good.  Messages   *)
(* may then be lost, but only from the end.                                *)
(***************************************************************************)
EXTENDS Sequences, SequencesExt

VARIABLES
  accepted,   \* the messages taken on
  delivered,  \* the messages handed to the peer
  stopped     \* nothing more is delivered

Init ==
  /\ accepted = <<>>
  /\ delivered = <<>>
  /\ stopped = FALSE

TakeOn ==
  /\ IsPrefix(accepted, accepted')
  /\ UNCHANGED <<delivered, stopped>>

Deliver ==
  /\ ~stopped
  /\ IsPrefix(delivered, delivered') /\ IsPrefix(delivered', accepted)
  /\ UNCHANGED accepted

\* The last delivery and the stop may be one step.
Stop ==
  /\ stopped' = TRUE
  /\ \/ UNCHANGED <<accepted, delivered>>
     \/ Deliver

Next == TakeOn \/ (Deliver /\ UNCHANGED stopped) \/ Stop

Spec == Init /\ [][Next]_<<accepted, delivered, stopped>>
=============================================================================
