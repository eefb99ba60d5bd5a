---------------------------- MODULE MCChatSession ----------------------------
(* Two messages and a change of the settings, over a session with two old    *)
(* samples on Polygon and over one that has no problem yet.                  *)
EXTENDS ChatSession, TLC

CONSTANTS s1
===============================================================================
