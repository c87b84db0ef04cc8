---------------------------- MODULE MCChatCalls ----------------------------
(* Instances of ChatCalls for TLC. *)
EXTENDS ChatCalls

CONSTANTS u1, u2, u3, c1, c2, h1, h2
=============================================================================
