------------------------------- MODULE MCList -------------------------------
(* KvList on a small instance for TLC.  One namespace is a prefix of the    *)
(* other, and one id of another id.                                         *)
EXTENDS KvList

MCNamespaces == {<<1>>, <<1, 1>>}
MCIds == {<<1>>, <<1, 1>>, <<2>>}
=============================================================================
