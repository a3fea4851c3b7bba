---------------------------- MODULE MCServerLink ----------------------------
(***************************************************************************)
(* An instance of ServerLink for TLC.                                       *)
(***************************************************************************)
EXTENDS ServerLink

\* All public methods that change something, in any order.  The program itself calls
\* only connectToServer, broadcastMessage and the destructor.
AllCalls == {"connect", "send", "disconnect", "start", "stop"}
=============================================================================
