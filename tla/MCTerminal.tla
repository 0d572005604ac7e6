----------------------------- MODULE MCTerminal -----------------------------
(* One session, with menus of up to two options each.                      *)
EXTENDS Terminal
=============================================================================
