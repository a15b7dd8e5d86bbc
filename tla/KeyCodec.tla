------------------------------ MODULE KeyCodec ------------------------------
(***************************************************************************)
(* src/src/server.rs: how a namespace and an id become a storage key.  A   *)
(* string is the sequence of its bytes; keys are ordered byte by byte, as  *)
(* in a BTreeMap<Vec<u8>, _> and in RocksDB.                               *)
(***************************************************************************)
EXTENDS Naturals, Sequences

KEY_SEP == 0

\* validate_field answers Ok.
ValidField(value) ==
  /\ value # <<>>
  /\ \A i \in 1 .. Len(value) : value[i] # KEY_SEP

\* make_key and namespace_prefix, for fields that are valid.
MakeKey(namespace, id) == namespace \o <<KEY_SEP>> \o id

NamespacePrefix(namespace) == namespace \o <<KEY_SEP>>

StartsWith(k, p) ==
  /\ Len(p) <= Len(k)
  /\ \A i \in 1 .. Len(p) : k[i] = p[i]

Less(a, b) ==
  \/ Len(a) < Len(b) /\ StartsWith(b, a)
  \/ \E i \in 1 .. Len(a) :
        /\ i <= Len(b)
        /\ a[i] < b[i]
        /\ \A j \in 1 .. i - 1 : a[j] = b[j]
=============================================================================
