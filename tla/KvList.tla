------------------------------- MODULE KvList -------------------------------
(***************************************************************************)
(* Clients of the list handler: one walks a namespace page by page with    *)
(* the tokens it is given, while others put and delete keys between its    *)
(* requests.                                                               *)
(***************************************************************************)
EXTENDS ListHandler

CONSTANT MaxChanges  \* bound: puts and deletes during one walk

ASSUME WalkAssumption == MaxChanges \in Nat

VARIABLES
  ns,       \* the namespace the client is listing
  token,    \* the page token the client will send
  pages,    \* the pages the client has been given, in order
  status,   \* of the walk: "idle", "walking", "done" or "rejected"
  changes,  \* counts puts and deletes during the walk
  stable,   \* history: keys of ns present ever since the walk began
  present   \* history: keys present at some time since the walk began

vars == <<store, ns, token, pages, status, changes, stable, present>>

TypeOK ==
  /\ store \in SUBSET Keys
  /\ ns \in Namespaces
  /\ token \in Keys \cup {NoToken}
  /\ pages \in Seq(SUBSET Keys)
  /\ status \in {"idle", "walking", "done", "rejected"}
  /\ changes \in 0 .. MaxChanges
  /\ stable \in SUBSET store
  /\ present \in SUBSET Keys

\* The store holds finitely many keys.
Init ==
  /\ store \in SUBSET Keys
  /\ IsFiniteSet(store)
  /\ ns \in Namespaces
  /\ token = NoToken
  /\ pages = <<>>
  /\ status = "idle"
  /\ changes = 0
  /\ stable = {}
  /\ present = {}
-----------------------------------------------------------------------------
\* Variant: the first request names the prefix of the namespace as its token.
BeginWalkAtPrefix(n) ==
  /\ status = "idle"
  /\ ns' = n
  /\ token' = NamespacePrefix(n)
  /\ pages' = <<>>
  /\ status' = "walking"
  /\ stable' = store \cap KeysOf(n)
  /\ present' = store
  /\ UNCHANGED <<store, changes>>

BeginWalk(n) ==
  /\ status = "idle"
  /\ ns' = n
  /\ token' = NoToken
  /\ pages' = <<>>
  /\ status' = "walking"
  /\ stable' = store \cap KeysOf(n)
  /\ present' = store
  /\ UNCHANGED <<store, changes>>

ListPage(requested) ==
  /\ status = "walking"
  /\ ValidToken(ns, token)
  /\ LET answer == Answer(ns, requested, token)
     IN  /\ pages' = Append(pages, answer.entries)
         /\ token' = answer.next_page_token
         /\ status' = IF answer.next_page_token = NoToken THEN "done" ELSE "walking"
  /\ UNCHANGED <<store, ns, changes, stable, present>>

\* INVALID_ARGUMENT: the token is not of this namespace.
ListRejected ==
  /\ status = "walking"
  /\ ~ValidToken(ns, token)
  /\ status' = "rejected"
  /\ UNCHANGED <<store, ns, token, pages, changes, stable, present>>

\* A client goes on with the token it has, in another namespace.
ChangeNamespace(n) ==
  /\ status = "walking"
  /\ pages # <<>>
  /\ ns' = n
  /\ pages' = <<>>
  /\ stable' = {}
  /\ UNCHANGED <<store, token, status, changes, present>>

\* Others put and delete keys.
Change ==
  /\ status = "walking"
  /\ changes < MaxChanges
  /\ changes' = changes + 1
  /\ \E k \in Keys : store' = IF k \in store THEN store \ {k} ELSE store \cup {k}
  /\ stable' = stable \cap store'
  /\ present' = present \cup store'
  /\ UNCHANGED <<ns, token, pages, status>>

List == ListRejected \/ \E requested \in PageSizes : ListPage(requested)

Next ==
  \/ \E n \in Namespaces : BeginWalk(n) \/ ChangeNamespace(n)
  \/ List
  \/ Change

Spec == Init /\ [][Next]_vars

\* A client that walks asks for the next page, and is answered.
FairSpec == Spec /\ WF_vars(List)
-----------------------------------------------------------------------------
Listed == UNION {pages[i] : i \in 1 .. Len(pages)}

\* Across all the pages of a walk the ids come in ascending order, none of
\* them twice, whatever is put or deleted between two requests.
AscendingOnce ==
  \A i, j \in 1 .. Len(pages) :
    i < j => \A a \in pages[i], b \in pages[j] : Less(a, b)

\* A walk that reaches its end has listed every key that was there all the
\* time, the one named by a token that was deleted meanwhile notwithstanding.
StableKeysListed == status = "done" => stable \subseteq Listed

\* Nothing is listed that is not in the namespace asked for, or was never there
\* during the walk; a token of one namespace opens no page of another.
OnlyOwnKeys == Listed \subseteq KeysOf(ns) \cap present

\* A page holds at most what was asked for, capped at the maximum, or the default
\* when nothing was; and a page that is not the last is full: the extra item that
\* was read neither stays in it nor makes it shorter.
PageSizeKept ==
  [][\A requested \in PageSizes :
       ListPage(requested) =>
         LET size == Cardinality(pages'[Len(pages')])
         IN  /\ requested = 0 => size <= default_page_size
             /\ requested # 0 => size <= requested /\ size <= max_page_size
             /\ token' # NoToken =>
                  size \in IF requested = 0 THEN {default_page_size}
                           ELSE {requested, max_page_size}]_vars

\* Every walk comes to its end, for each page moves the token forward.
WalkEnds == (status = "walking") ~> (status # "walking")
=============================================================================
