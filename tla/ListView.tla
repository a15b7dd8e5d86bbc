------------------------------ MODULE ListView ------------------------------
(***************************************************************************)
(* The list card of the dashboard (src/dashboard/app/page.tsx): the        *)
(* entries it shows, the namespace in its field and the token of its "Load *)
(* More" button.  An answer is applied when it arrives, to what is shown   *)
(* by then: the namespace field stays enabled while a list is awaited, a   *)
(* delete may be awaited beside a list, and others change the store.       *)
(***************************************************************************)
EXTENDS ListHandler

CONSTANT MaxChanges  \* bound: puts and deletes by others

ASSUME ViewAssumption == MaxChanges \in Nat

VARIABLES
  listNs,         \* the namespace field
  listEntries,    \* the entries shown
  listNextToken,  \* of the last page shown
  listing,        \* the list that is awaited (listLoading), and its answer
  deleting,       \* the delete that is awaited (deleteLoading), and its answer
  changes,        \* counts what others do
  whole,          \* history: a list is shown, and the namespace was not edited
                  \* while any of its pages was awaited
  stable,         \* history: keys there since the first page of the list shown
                  \* was read, and not deleted here
  gone            \* history: keys whose delete was answered here while no list
                  \* that had read them was on its way, and not put again

view_vars == <<listNs, listEntries, listNextToken>>
history_vars == <<whole, stable, gone>>
vars == <<store, view_vars, listing, deleting, changes, history_vars>>

Page == [entries : SUBSET Keys, next_page_token : Keys \cup {NoToken}]

NoPage == [entries |-> {}, next_page_token |-> NoToken]

NoListing == [pc |-> "idle", ns |-> <<>>, token |-> NoToken, more |-> FALSE,
              page |-> NoPage, edited |-> FALSE, since |-> {}]

Listing ==
  {NoListing} \cup
  [pc : {"sent", "answered", "refreshing"}, ns : Namespaces,
   token : Keys \cup {NoToken}, more : BOOLEAN, page : Page,
   edited : BOOLEAN, since : SUBSET Keys]

NoDeleting == [pc |-> "idle", key |-> <<>>]

Deleting == {NoDeleting} \cup [pc : {"sent", "deleted", "absent", "refreshing"}, key : Keys]

\* The entries of a page as a sequence, in the order of their keys.
InOrder(S) ==
  CHOOSE s \in [1 .. Cardinality(S) -> S] :
    \A i, j \in 1 .. Cardinality(S) : i < j => Less(s[i], s[j])

\* filter: what is left of s without k, in the order of s.
Without(s, k) ==
  LET kept == {i \in 1 .. Len(s) : s[i] # k}
      n == Cardinality(kept)
      at == CHOOSE f \in [1 .. n -> kept] : \A i, j \in 1 .. n : i < j => f[i] < f[j]
  IN  [i \in 1 .. n |-> s[at[i]]]

Shown == {listEntries[i] : i \in 1 .. Len(listEntries)}

TypeOK ==
  /\ store \in SUBSET Keys
  /\ listNs \in Namespaces
  /\ listEntries \in Seq(Keys)
  /\ listNextToken \in Keys \cup {NoToken}
  /\ listing \in Listing
  /\ deleting \in Deleting
  /\ changes \in 0 .. MaxChanges
  /\ whole \in BOOLEAN
  /\ stable \in SUBSET Keys
  /\ gone \in SUBSET (Keys \ store)

\* The store holds finitely many keys.
Init ==
  /\ store \in SUBSET Keys
  /\ IsFiniteSet(store)
  /\ listNs \in Namespaces
  /\ listEntries = <<>>
  /\ listNextToken = NoToken
  /\ listing = NoListing
  /\ deleting = NoDeleting
  /\ changes = 0
  /\ whole = FALSE
  /\ stable = {}
  /\ gone = {}

\* The store changes, here or elsewhere.
Store(S) ==
  /\ store' = S
  /\ stable' = stable \cap S
  /\ gone' = gone \ S
  /\ listing' = [listing EXCEPT !.since = @ \cap S]
-----------------------------------------------------------------------------
(* runList *)

\* The buttons "List" and "Load More".
RunList(more) ==
  /\ listing = NoListing
  /\ more => listNextToken # NoToken
  /\ listing' = [NoListing EXCEPT
       !.pc = "sent", !.ns = listNs, !.more = more,
       !.token = IF more THEN listNextToken ELSE NoToken]
  /\ UNCHANGED <<store, view_vars, deleting, changes, history_vars>>

\* The server answers; the page size is read from its field.
ListServed(requested) ==
  /\ listing.pc = "sent"
  /\ ValidToken(listing.ns, listing.token)
  /\ listing' = [listing EXCEPT
       !.pc = "answered",
       !.page = Answer(listing.ns, requested, listing.token),
       !.since = IF listing.more THEN {} ELSE store \cap KeysOf(listing.ns)]
  /\ UNCHANGED <<store, view_vars, deleting, changes, history_vars>>

\* INVALID_ARGUMENT for a token of another namespace, or any other error: what
\* is shown stays.
ListFails ==
  /\ listing.pc \in {"sent", "answered"}
  /\ listing' = NoListing
  /\ UNCHANGED <<store, view_vars, deleting, changes, history_vars>>

\* Variant: every page is appended, the first of a list too.
ListArrivesAppended ==
  /\ listing.pc = "answered"
  /\ listEntries' = listEntries \o InOrder(listing.page.entries)
  /\ listNextToken' = listing.page.next_page_token
  /\ whole' = (~listing.edited /\ (listing.more => whole))
  /\ stable' = IF listing.more THEN stable ELSE listing.since
  /\ listing' = [NoListing EXCEPT !.pc = "refreshing", !.ns = listing.ns]
  /\ UNCHANGED <<store, listNs, deleting, changes, gone>>

ListArrives ==
  /\ listing.pc = "answered"
  /\ LET page == InOrder(listing.page.entries)
     IN  listEntries' = IF listing.more THEN listEntries \o page ELSE page
  /\ listNextToken' = listing.page.next_page_token
  /\ whole' = (~listing.edited /\ (listing.more => whole))
  /\ stable' = IF listing.more THEN stable ELSE listing.since
  /\ listing' = [NoListing EXCEPT !.pc = "refreshing", !.ns = listing.ns]
  /\ UNCHANGED <<store, listNs, deleting, changes, gone>>

\* Variant: the namespace of the request outlives it.
ListEndsKeepsNamespace ==
  /\ listing.pc = "refreshing"
  /\ listing' = [listing EXCEPT !.pc = "idle"]
  /\ UNCHANGED <<store, view_vars, deleting, changes, history_vars>>

\* refresh has ended, with an error or without: listLoading is off.
ListEnds ==
  /\ listing.pc = "refreshing"
  /\ listing' = NoListing
  /\ UNCHANGED <<store, view_vars, deleting, changes, history_vars>>

OnListNsChange(n) ==
  /\ n # listNs
  /\ listNs' = n
  /\ listEntries' = <<>>
  /\ listNextToken' = NoToken
  /\ listing' = IF listing = NoListing THEN listing ELSE [listing EXCEPT !.edited = TRUE]
  /\ whole' = FALSE
  /\ UNCHANGED <<store, deleting, changes, stable, gone>>
-----------------------------------------------------------------------------
(* runDelete: from a row of the list, or from the form, which names any key *)

RunDelete(k) ==
  /\ deleting = NoDeleting
  /\ deleting' = [pc |-> "sent", key |-> k]
  /\ UNCHANGED <<store, view_vars, listing, changes, history_vars>>

DeleteServed ==
  /\ deleting.pc = "sent"
  /\ deleting' = [deleting EXCEPT !.pc = IF deleting.key \in store THEN "deleted" ELSE "absent"]
  /\ Store(store \ {deleting.key})
  /\ UNCHANGED <<view_vars, changes, whole>>

\* An error, before the server has deleted the entry or after.
DeleteFails ==
  /\ deleting.pc \in {"sent", "deleted", "absent"}
  /\ deleting' = NoDeleting
  /\ UNCHANGED <<store, view_vars, listing, changes, history_vars>>

\* Variant: the entry stays in the list.
DeleteArrivesUnfiltered ==
  /\ deleting.pc \in {"deleted", "absent"}
  /\ IF deleting.pc = "absent" THEN UNCHANGED <<stable, gone>>
     ELSE /\ stable' = stable \ {deleting.key}
          /\ gone' = IF listing.pc = "answered" THEN gone ELSE gone \cup ({deleting.key} \ store)
  /\ deleting' = [deleting EXCEPT !.pc = "refreshing"]
  /\ UNCHANGED <<store, view_vars, listing, changes, whole>>

\* Variant: rows are compared by their id alone.
DeleteArrivesById ==
  /\ deleting.pc \in {"deleted", "absent"}
  /\ LET others(k) == {i \in Ids : \E m, n \in Namespaces :
                           k = MakeKey(m, i) /\ deleting.key = MakeKey(n, i)} = {}
     IN  IF deleting.pc = "absent" THEN UNCHANGED <<listEntries, stable, gone>>
         ELSE /\ listEntries' = SelectSeq(listEntries, others)
              /\ stable' = stable \ {deleting.key}
              /\ gone' = IF listing.pc = "answered" THEN gone ELSE gone \cup ({deleting.key} \ store)
  /\ deleting' = [deleting EXCEPT !.pc = "refreshing"]
  /\ UNCHANGED <<store, listNs, listNextToken, listing, changes, whole>>

\* Only deleted: true takes the entry out of the list.
DeleteArrives ==
  /\ deleting.pc \in {"deleted", "absent"}
  /\ IF deleting.pc = "absent" THEN UNCHANGED <<listEntries, stable, gone>>
     ELSE /\ listEntries' = Without(listEntries, deleting.key)
          /\ stable' = stable \ {deleting.key}
          /\ gone' = IF listing.pc = "answered" THEN gone ELSE gone \cup ({deleting.key} \ store)
  /\ deleting' = [deleting EXCEPT !.pc = "refreshing"]
  /\ UNCHANGED <<store, listNs, listNextToken, listing, changes, whole>>

DeleteEnds ==
  /\ deleting.pc = "refreshing"
  /\ deleting' = NoDeleting
  /\ UNCHANGED <<store, view_vars, listing, changes, history_vars>>

\* Others put and delete keys.
Change ==
  /\ changes < MaxChanges
  /\ changes' = changes + 1
  /\ \E k \in Keys : Store(IF k \in store THEN store \ {k} ELSE store \cup {k})
  /\ UNCHANGED <<view_vars, deleting, whole>>
-----------------------------------------------------------------------------
Next ==
  \/ \E more \in BOOLEAN : RunList(more)
  \/ \E requested \in PageSizes : ListServed(requested)
  \/ ListFails \/ ListArrives \/ ListEnds
  \/ \E n \in Namespaces : OnListNsChange(n)
  \/ \E k \in Keys : RunDelete(k)
  \/ DeleteServed \/ DeleteFails \/ DeleteArrives \/ DeleteEnds
  \/ Change

Spec == Init /\ [][Next]_vars
-----------------------------------------------------------------------------
\* Whatever arrives late, the card never mixes two namespaces: the entries shown
\* and the token of the next page are of one of them, in order, none twice (the
\* rows of the list are keyed by namespace and id).
OneListShown ==
  \E n \in Namespaces :
    /\ Shown \cup ({listNextToken} \ {NoToken}) \subseteq KeysOf(n)
    /\ \A i, j \in 1 .. Len(listEntries) : i < j => Less(listEntries[i], listEntries[j])
    /\ listNextToken # NoToken => \A k \in Shown : Less(k, listNextToken)

\* Unless the namespace is edited while a page is awaited, the list is the one
\* its field names; and when no page is left to load it has every entry that was
\* there since its first page was read, except those deleted here.
UndisturbedList ==
  whole => /\ Shown \subseteq KeysOf(listNs)
           /\ listNextToken = NoToken => stable \subseteq Shown

\* An entry that was deleted here is not shown again, unless it was put again or
\* a list that had read it was still on its way.
DeletedStaysGone == gone \cap Shown = {}
=============================================================================
