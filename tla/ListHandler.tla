---------------------------- MODULE ListHandler ----------------------------
(***************************************************************************)
(* The list handler (src/src/server.rs) and scan_prefix of both backends   *)
(* (src/src/storage/kafka.rs, src/src/storage/rocksdb.rs): the answer to   *)
(* one ListRequest.  A request reads one state of the store: the map is    *)
(* read under its lock, and a RocksDB iterator reads a snapshot.           *)
(***************************************************************************)
EXTENDS KeyCodec, FiniteSets

CONSTANTS
  Namespaces, Ids,                  \* valid fields, as sequences of bytes
  PageSizes,                        \* values of ListRequest.page_size
  default_page_size, max_page_size  \* ServerConfig

ASSUME ListAssumption ==
  /\ \A f \in Namespaces \cup Ids : f \in Seq(Nat) /\ ValidField(f)
  /\ PageSizes \subseteq Nat
  /\ default_page_size \in Nat /\ max_page_size \in Nat

VARIABLE store  \* the keys that are present; entries do not matter here

NoToken == <<>>

KeysOf(n) == {MakeKey(n, i) : i \in Ids}

Keys == UNION {KeysOf(n) : n \in Namespaces}
-----------------------------------------------------------------------------
\* Variants: no cap; a cap that is off by one.
PageSizeUncapped(requested) ==
  IF requested = 0 THEN default_page_size ELSE requested

PageSizeLessOne(requested) ==
  IF requested = 0 THEN default_page_size
  ELSE IF requested <= max_page_size THEN requested - 1 ELSE max_page_size

resolve_page_size(requested) ==
  IF requested = 0 THEN default_page_size
  ELSE IF requested < max_page_size THEN requested ELSE max_page_size

\* Variants: the scan goes on past the first key without the prefix; it begins
\* after its start.
ScanOn(prefix, start, limit) ==
  LET from == {k \in store : ~Less(k, start)}
  IN  {k \in from : Cardinality({j \in from : j = k \/ Less(j, k)}) <= limit}

ScanAfter(prefix, start, limit) ==
  LET from == {k \in store : Less(start, k) /\ StartsWith(k, prefix)}
  IN  {k \in from : Cardinality({j \in from : j = k \/ Less(j, k)}) <= limit}

\* scan_prefix: from start on, up to the first key without the prefix and at
\* most limit keys.  The result is a set, in the order of its keys.
ScanPrefix(prefix, start, limit) ==
  LET from == {k \in store : ~Less(k, start)}
      upTo(k) == {j \in from : j = k \/ Less(j, k)}
  IN  {k \in from : /\ \A j \in upTo(k) : StartsWith(j, prefix)
                    /\ Cardinality(upTo(k)) <= limit}

LastKey(S) == CHOOSE k \in S : \A j \in S : j = k \/ Less(j, k)

ValidToken(n, tok) == tok = NoToken \/ StartsWith(tok, NamespacePrefix(n))

\* Variant: the last entry of a page, not the extra item, names the next page.
AnswerTokenIsLastEntry(n, requested, tok) ==
  LET prefix == NamespacePrefix(n)
      page_size == resolve_page_size(requested)
      start == IF tok = NoToken THEN prefix ELSE tok
      items == ScanPrefix(prefix, start, page_size + 1)
      entries == items \ {LastKey(items)}
  IN  IF Cardinality(items) > page_size
      THEN [entries |-> entries, next_page_token |-> LastKey(entries)]
      ELSE [entries |-> items, next_page_token |-> NoToken]

\* The answer of list: a page and the token of the next one.
Answer(n, requested, tok) ==
  LET prefix == NamespacePrefix(n)
      page_size == resolve_page_size(requested)
      start == IF tok = NoToken THEN prefix ELSE tok
      items == ScanPrefix(prefix, start, page_size + 1)
  IN  IF Cardinality(items) > page_size
      THEN [entries |-> items \ {LastKey(items)}, next_page_token |-> LastKey(items)]
      ELSE [entries |-> items, next_page_token |-> NoToken]
=============================================================================
