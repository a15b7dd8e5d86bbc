------------------------------- MODULE MCView -------------------------------
(* ListView on a small instance for TLC.  One namespace is a prefix of the  *)
(* other; the second one exists to be switched to.                          *)
EXTENDS ListView

MCNamespaces == {<<1>>, <<1, 1>>}
MCIds == {<<1>>, <<2>>}
=============================================================================
