--------------------------- MODULE MCChatStream -----------------------------
(***************************************************************************)
(* A small instance of the streaming surface for TLC.                      *)
(***************************************************************************)
EXTENDS ChatStream
=============================================================================
