--------------------------- MODULE MCChatSession ---------------------------
(* A small instance of ChatSession for TLC.                                 *)
EXTENDS ChatSession

TheChars == {NL, "a", "/", "q", "w", "p", "f", "i", "e", "r", "g", "m", "k"}
TheLines == {<<"a">>}
TheQuit == <<"/", "q">>
=============================================================================
