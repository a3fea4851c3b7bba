------------------------------- MODULE Roster -------------------------------
(***************************************************************************)
(* What the server promises about usernames, with no threads, sockets or    *)
(* objects: who is online under which name.  A client comes online only     *)
(* while nobody else holds its name, and goes offline, one at a time, when  *)
(* it leaves, is kicked or is disconnected by the shutdown.                 *)
(***************************************************************************)
CONSTANTS Clients, Usernames

VARIABLES online, served

vars == <<online, served>>

TypeOK == online \subseteq Clients \X Usernames /\ served \in BOOLEAN

Holders(n) == {c \in Clients : <<c, n>> \in online}

Init == online = {} /\ served = TRUE

ComeOnline(c, n) ==
  /\ Holders(n) = {}
  /\ online' = online \cup {<<c, n>>}
  /\ UNCHANGED served

GoOffline(c, n) ==
  /\ <<c, n>> \in online
  /\ online' = online \ {<<c, n>>}
  /\ UNCHANGED served

\* The process ends, whoever is still online.
End == served' = FALSE /\ UNCHANGED online

Next ==
  \/ /\ served
     /\ \/ \E c \in Clients, n \in Usernames : ComeOnline(c, n) \/ GoOffline(c, n)
        \/ End
  \/ ~served /\ UNCHANGED vars

Spec == Init /\ [][Next]_vars
=============================================================================
