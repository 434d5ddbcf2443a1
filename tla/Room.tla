-------------------------------- MODULE Room --------------------------------
(***************************************************************************)
(* What channels promise their members: entering, leaving and speaking are *)
(* each one step, as far as anybody can tell.  What is said in a room      *)
(* reaches those who are there when it is said, the speaker aside, before  *)
(* anybody enters or leaves; and a room that has emptied stays empty.      *)
(* Rooms are named by their founders, and a founder has one room.          *)
(***************************************************************************)
CONSTANTS Clients, None

VARIABLES
  room,     \* the room each client is in, or None
  founded,  \* the rooms there are or have been
  due       \* of each speaker: who has yet to hear what it said

roomVars == <<room, founded, due>>

Init ==
  /\ room = [c \in Clients |-> None]
  /\ founded = {}
  /\ due = [c \in Clients |-> {}]

People(r) == {c \in Clients : room[c] = r}
Quiet(r)  == \A c \in People(r) : due[c] = {}

Found(c) ==
  /\ room[c] = None
  /\ c \notin founded
  /\ founded' = founded \cup {c}
  /\ room' = [room EXCEPT ![c] = c]
  /\ UNCHANGED due

Enter(c, r) ==
  /\ room[c] = None
  /\ People(r) # {} /\ Quiet(r)
  /\ room' = [room EXCEPT ![c] = r]
  /\ UNCHANGED <<founded, due>>

Leave(c) ==
  /\ room[c] # None
  /\ Quiet(room[c])
  /\ room' = [room EXCEPT ![c] = None]
  /\ UNCHANGED <<founded, due>>

\* Who is alone hears of it.
Speak(c) ==
  /\ room[c] # None
  /\ due[c] = {}
  /\ due' = [due EXCEPT ![c] = IF People(room[c]) = {c} THEN {c}
                               ELSE People(room[c]) \ {c}]
  /\ UNCHANGED <<room, founded>>

Hear(c, r) ==
  /\ r \in due[c]
  /\ due' = [due EXCEPT ![c] = @ \ {r}]
  /\ UNCHANGED <<room, founded>>

Next ==
  \E c \in Clients :
    \/ Found(c)
    \/ \E r \in Clients : Enter(c, r)
    \/ Leave(c)
    \/ Speak(c)
    \/ \E r \in Clients : Hear(c, r)

Spec == Init /\ [][Next]_roomVars
=============================================================================
