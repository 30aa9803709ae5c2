------------------------- MODULE CatalogSearchProofs -------------------------
(***************************************************************************)
(* Proofs about CatalogSearch, for every set of cursors, every catalog and *)
(* every value of the limits.                                              *)
(***************************************************************************)
EXTENDS CatalogSearch, FiniteSetTheorems, TLAPS

USE CursorsAssumption, CountsAssumption DEF CursorsAssumption, CountsAssumption, host

LEMMA InitTypeOK == Init => TypeOK
<1> SUFFICES ASSUME Init PROVE TypeOK
  OBVIOUS
<1>1. maxPages \in Nat /\ limit \in Nat
  BY DEF Init
<1> QED BY <1>1 DEF Init, TypeOK

\* Type correctness of the search, also when the catalog changes under it.
THEOREM TypeCorrect == Spec => []TypeOK
<1>1. Init => TypeOK
  BY InitTypeOK
<1>2. TypeOK /\ [Search \/ Republish \/ Returned]_vars => TypeOK'
  <2> SUFFICES ASSUME TypeOK, [Search \/ Republish \/ Returned]_vars
               PROVE  TypeOK'
    OBVIOUS
  <2> USE DEF TypeOK
  <2>1. CASE Validate
    BY <2>1 DEF Validate, Fail, Finish, arguments, result
  <2>2. CASE RefuseCursor
    BY <2>2 DEF RefuseCursor, Fail, Finish, arguments
  <2>3. CASE ListFails
    BY <2>3 DEF ListFails, Fail, Finish, arguments
  <2>4. ASSUME Receive
        PROVE  /\ cursor \in Served /\ scanned' \in Nat /\ fetched' \subseteq Served
               /\ Page \in Pages
               /\ Hits(cursor) \subseteq Served \X Nat
    <3>1. cursor \in Served /\ scanned' \in Nat /\ fetched' \subseteq Served /\ Page \in Pages
      BY <2>4 DEF Receive, Page
    <3>2. Hits(cursor) \subseteq Served \X Nat
      BY <3>1 DEF Hits, Page, Pages
    <3> QED BY <3>1, <3>2
  <2>5. CASE Overflow
    <3>1. Receive BY <2>5 DEF Overflow
    <3>2. FirstHits(Room) \subseteq Served \X Nat
      BY <2>4, <3>1 DEF FirstHits
    <3> QED BY <2>4, <2>5, <3>1, <3>2 DEF Overflow, Finish, arguments
  <2>6. CASE LastPage
    <3>1. Receive BY <2>6 DEF LastPage
    <3> QED BY <2>4, <2>6, <3>1 DEF LastPage, Finish, arguments
  <2>7. CASE RepeatedCursor
    <3>1. Receive BY <2>7 DEF RepeatedCursor
    <3> QED BY <2>4, <2>7, <3>1 DEF RepeatedCursor, Fail, Finish, arguments
  <2>8. CASE Advance
    <3>1. Receive BY <2>8 DEF Advance
    <3>2. Page.next \in Cursors \ {First}
      BY <2>4, <2>8, <3>1 DEF Advance, Pages
    <3> QED BY <2>4, <2>8, <3>1, <3>2 DEF Advance, Finish, arguments
  <2>9. CASE Republish
    BY <2>9 DEF Republish, arguments, result
  <2>10. CASE UNCHANGED vars
    BY <2>10 DEF vars, arguments, result
  <2> QED
    BY <2>1, <2>2, <2>3, <2>5, <2>6, <2>7, <2>8, <2>9, <2>10 DEF Search, Returned
<1> QED BY <1>1, <1>2, PTL DEF Spec

-----------------------------------------------------------------------------
(* No page twice                                                           *)

\* The cursors received are those of the pages fetched and of the next one,
\* and the next one is new.
Walk ==
    /\ IsFiniteSet(fetched)
    /\ scanned = Cardinality(fetched)
    /\ scanned <= maxPages
    /\ phase = "start" => fetched = {} /\ seen = {} /\ cursor = First /\ matches = {}
    /\ phase = "scan" => /\ seen \cup {First} = fetched \cup {cursor}
                         /\ cursor \notin fetched
                         /\ scanned < maxPages
    /\ phase # "done" => outcome = "none" /\ ~incomplete

\* Receiving a page under the invariant counts a new page.
LEMMA ReceiveNew ==
    ASSUME TypeOK, Walk, Receive
    PROVE  /\ IsFiniteSet(fetched')
           /\ scanned' = Cardinality(fetched')
           /\ scanned' <= maxPages
<1>1. cursor \notin fetched /\ scanned < maxPages
  BY DEF Receive, Walk
<1>2. IsFiniteSet(fetched') /\ Cardinality(fetched') = Cardinality(fetched) + 1
  BY <1>1, FS_AddElement DEF Receive, Walk
<1> QED BY <1>1, <1>2 DEF Receive, Walk, TypeOK

\* Walk is inductive, whatever the host does.
THEOREM WalkInvariant == Spec => []Walk
<1>1. Init => Walk
  BY FS_EmptySet DEF Init, Walk
<1>2. TypeOK /\ Walk /\ [Search \/ Republish \/ Returned]_vars => Walk'
  <2> SUFFICES ASSUME TypeOK, Walk, [Search \/ Republish \/ Returned]_vars
               PROVE  Walk'
    OBVIOUS
  <2>1. CASE Validate
    BY <2>1, FS_EmptySet
       DEF Validate, Fail, Finish, Walk, TypeOK, ValidArguments, arguments, result
  <2>2. CASE RefuseCursor
    BY <2>2 DEF RefuseCursor, Fail, Finish, Walk, arguments
  <2>3. CASE ListFails
    BY <2>3 DEF ListFails, Fail, Finish, Walk, arguments
  <2>4. CASE Overflow
    <3>1. Receive /\ phase' = "done" /\ maxPages' = maxPages
      BY <2>4 DEF Overflow, Finish, arguments
    <3> QED BY <3>1, ReceiveNew DEF Walk
  <2>5. CASE LastPage
    <3>1. Receive /\ phase' = "done" /\ maxPages' = maxPages
      BY <2>5 DEF LastPage, Finish, arguments
    <3> QED BY <3>1, ReceiveNew DEF Walk
  <2>6. CASE RepeatedCursor
    <3>1. Receive /\ phase' = "done" /\ maxPages' = maxPages
      BY <2>6 DEF RepeatedCursor, Fail, Finish, arguments
    <3> QED BY <3>1, ReceiveNew DEF Walk
  <2>7. CASE Advance
    <3>1. Receive /\ maxPages' = maxPages /\ phase = "scan"
      BY <2>7 DEF Advance, arguments, Receive
    <3>2. /\ seen' = seen \cup {Page.next} /\ cursor' = Page.next
          /\ fetched' = fetched \cup {cursor}
          /\ scanned' = scanned + 1
          /\ Page.next # cursor /\ Page.next \notin seen
      BY <2>7 DEF Advance, Receive, KnownCursor
    <3>3. Page.next # First
      BY <2>7, <3>1 DEF Advance, Receive, TypeOK, Page, Pages
    <3>4. seen' \cup {First} = fetched' \cup {cursor'} /\ cursor' \notin fetched'
      BY <3>1, <3>2, <3>3 DEF Walk
    <3>5. phase' = "scan" => /\ scanned' < maxPages'
                             /\ outcome' = outcome /\ incomplete' = incomplete
      BY <2>7, <3>2, <3>1 DEF Advance, Finish
    <3>6. phase' \in {"scan", "done"}
      BY <2>7, <3>1 DEF Advance, Finish
    <3> QED BY <3>1, <3>4, <3>5, <3>6, ReceiveNew DEF Walk
  <2>8. CASE Republish
    BY <2>8 DEF Republish, Walk, arguments, result
  <2>9. CASE UNCHANGED vars
    BY <2>9 DEF vars, Walk, arguments, result
  <2> QED
    BY <2>1, <2>2, <2>3, <2>4, <2>5, <2>6, <2>7, <2>8, <2>9 DEF Search, Returned
<1> QED BY <1>1, <1>2, TypeCorrect, PTL DEF Spec

\* No page is requested twice and the page cap holds, also when the catalog
\* changes under the search.
THEOREM EachPageOnceHolds == Spec => []EachPageOnce
<1>1. Walk => EachPageOnce
  BY DEF Walk, EachPageOnce
<1> QED BY <1>1, WalkInvariant, PTL

-----------------------------------------------------------------------------
(* A catalog at rest                                                       *)

\* The pages one gets to from a page are closed under succession and contain
\* that page.
LEMMA FromIsClosed ==
    ASSUME TypeOK, NEW c \in Cursors
    PROVE  c \in From(c) /\ Closed(From(c))
<1>1. c \in From(c)
  BY DEF From
<1>2. ASSUME NEW d \in From(c) \cap Served
      PROVE  catalog[d].next \in From(c) \cup {NoNext}
  <2>1. catalog[d].next \in Cursors \cup {NoNext}
    BY DEF TypeOK, Pages
  <2>2. ASSUME catalog[d].next \in Cursors, NEW S \in SUBSET Cursors, c \in S, Closed(S)
        PROVE  catalog[d].next \in S
    <3>1. d \in S BY <2>2 DEF From
    <3> QED BY <2>2, <3>1 DEF Closed
  <2> QED BY <2>1, <2>2 DEF From
<1> QED BY <1>1, <1>2 DEF Closed

\* They are the least such set.
LEMMA FromIsLeast ==
    ASSUME NEW c \in Cursors, NEW S \in SUBSET Cursors, c \in S, Closed(S)
    PROVE  From(c) \subseteq S
BY DEF From

\* The hits of a page, counted.
LEMMA HitsCount ==
    ASSUME NEW c, NEW n \in Nat
    PROVE  /\ IsFiniteSet({c} \X (1..n))
           /\ Cardinality({c} \X (1..n)) = n
<1>1. IsFiniteSet({c}) /\ Cardinality({c}) = 1
  BY FS_Singleton
<1>2. IsFiniteSet(1..n) /\ Cardinality(1..n) = n
  BY FS_Interval
<1>3. /\ IsFiniteSet({c} \X (1..n))
      /\ Cardinality({c} \X (1..n)) = Cardinality({c}) * Cardinality(1..n)
  BY <1>1, <1>2, FS_Product
<1> QED BY <1>1, <1>2, <1>3

\* What the search knows of a catalog at rest: it has followed the chain of
\* pages from the first to the cursor and holds every match on them.
Chain ==
    /\ fetched \subseteq Reachable
    /\ cursor \in Reachable
    /\ phase # "done" =>
          /\ matches = AllHits(fetched)
          /\ IsFiniteSet(matches)
          /\ Cardinality(matches) <= limit
          /\ First \in fetched \cup {cursor}
          /\ \A c \in fetched : /\ catalog[c].next \in fetched \cup {cursor}
                                /\ cursor \in From(catalog[c].next)
    /\ CompleteMeansAll
    /\ IncompleteMeansMore
    /\ RepeatMeansCycle
    /\ LimitIsTight

\* What is reachable depends on the catalog alone.
LEMMA ReachableStable ==
    ASSUME catalog' = catalog
    PROVE  /\ Reachable' = Reachable
           /\ \A c : From(c)' = From(c)
           /\ \A c : OnCycle(c)' = OnCycle(c)
           /\ \A S : AllHits(S)' = AllHits(S)
<1>1. \A S : Closed(S)' = Closed(S)
  BY DEF Closed
<1>2. \A c : From(c)' = From(c)
  BY <1>1 DEF From
<1>3. Reachable' = Reachable
  BY <1>2 DEF Reachable
<1>4. \A c : OnCycle(c)' = OnCycle(c)
  BY <1>2 DEF OnCycle
<1>5. \A S : AllHits(S)' = AllHits(S)
  BY DEF AllHits, Hits
<1> QED BY <1>2, <1>3, <1>4, <1>5

\* A page that fits into the limit keeps the account of the matches.
LEMMA PageFits ==
    ASSUME TypeOK, Walk, Chain, Receive, Page.hits <= Room,
           matches' = matches \cup Hits(cursor)
    PROVE  /\ matches' = AllHits(fetched')
           /\ IsFiniteSet(matches')
           /\ Cardinality(matches') <= limit
<1>1. cursor \in Served /\ cursor \notin fetched /\ phase = "scan"
  BY DEF Receive, Walk
<1>2. Page.hits \in Nat
  BY <1>1 DEF Page, TypeOK, Pages
<1>3. IsFiniteSet(Hits(cursor)) /\ Cardinality(Hits(cursor)) = Page.hits
  BY <1>2, HitsCount DEF Hits, Page
<1>4. matches = AllHits(fetched) /\ IsFiniteSet(matches)
  BY <1>1 DEF Chain
<1>5. matches \cap Hits(cursor) = {}
  BY <1>1, <1>4 DEF AllHits, Hits
<1>6. IsFiniteSet(matches') /\ Cardinality(matches') = Cardinality(matches) + Page.hits
  <2>1. Cardinality(matches \cap Hits(cursor)) = 0
    BY <1>5, FS_EmptySet
  <2>2. Cardinality(matches) \in Nat
    BY <1>4, FS_CardinalityType
  <2>3. /\ IsFiniteSet(matches \cup Hits(cursor))
        /\ Cardinality(matches \cup Hits(cursor)) =
             Cardinality(matches) + Cardinality(Hits(cursor))
               - Cardinality(matches \cap Hits(cursor))
    BY <1>3, <1>4, FS_Union
  <2> QED BY <1>2, <1>3, <2>1, <2>2, <2>3
<1>7. Cardinality(matches') <= limit
  BY <1>2, <1>4, <1>6, FS_CardinalityType DEF Room, TypeOK
<1>8. matches' = AllHits(fetched')
  BY <1>1, <1>4 DEF AllHits, Receive
<1> QED BY <1>6, <1>7, <1>8

\* The page received is reachable, and so is its successor.
LEMMA ReceiveReachable ==
    ASSUME TypeOK, Chain, Receive
    PROVE  /\ fetched' \subseteq Reachable
           /\ Page.next \in Reachable \cup {NoNext}
<1>1. fetched' \subseteq Reachable
  BY DEF Receive, Chain
<1>2. Closed(Reachable)
  BY FromIsClosed DEF Reachable
<1> QED BY <1>1, <1>2 DEF Closed, Receive, Chain, Page

\* The last page closes the set of the pages fetched: it is all there is.
LEMMA LastPageComplete ==
    ASSUME TypeOK, Walk, Chain, Receive, Page.next = NoNext
    PROVE  fetched' = Reachable
<1>1. phase = "scan" /\ fetched' = fetched \cup {cursor} /\ fetched' \subseteq Cursors
  BY DEF Receive, TypeOK, Served
<1>2. First \in fetched'
  BY <1>1 DEF Chain
<1>3. Closed(fetched')
  BY <1>1 DEF Closed, Chain, Page
<1>4. Reachable \subseteq fetched'
  BY <1>1, <1>2, <1>3, FromIsLeast DEF Reachable
<1> QED BY <1>4, ReceiveReachable

\* A cursor received before belongs to a page from which the search came
\* back to the present one.
LEMMA RepeatClosesCycle ==
    ASSUME TypeOK, Walk, Chain, Receive, Page.next # NoNext, KnownCursor
    PROVE  cursor \in Reachable \cap Served /\ OnCycle(cursor)
<1>1. phase = "scan" /\ cursor \in Served /\ cursor \in Reachable
  BY DEF Receive, Chain
<1>2. Page.next \in Cursors
  BY <1>1 DEF Page, TypeOK, Pages
<1>3. CASE Page.next = cursor
  BY <1>1, <1>2, <1>3, FromIsClosed DEF OnCycle, Page
<1>4. CASE Page.next \in fetched
  <2> DEFINE d == Page.next
  <2>1. cursor \in From(catalog[d].next) /\ catalog[d].next \in fetched \cup {cursor}
    BY <1>1, <1>4 DEF Chain
  <2>2. d \in From(d) /\ Closed(From(d)) /\ d \in Served
    BY <1>2, <1>4, FromIsClosed DEF TypeOK
  <2>3. catalog[d].next \in From(d) /\ catalog[d].next \in Cursors
    BY <1>1, <2>1, <2>2 DEF Closed, TypeOK, Served
  <2>4. From(catalog[d].next) \subseteq From(d)
    BY <2>2, <2>3, FromIsLeast DEF From
  <2> QED BY <1>1, <1>2, <2>1, <2>4 DEF OnCycle, Page
<1> QED BY <1>1, <1>2, <1>3, <1>4 DEF KnownCursor, Walk

-----------------------------------------------------------------------------
\* Errors leave nothing to be said but where they come from.
LEMMA FailedStep ==
    ASSUME Chain, catalog' = catalog, cursor' = cursor, phase' = "done",
           outcome' # "ok", outcome' # "repeated", fetched' = fetched
    PROVE  Chain'
<1>1. fetched' \subseteq Reachable' /\ cursor' \in Reachable'
  BY ReachableStable DEF Chain
<1> QED
  BY <1>1 DEF Chain, CompleteMeansAll, IncompleteMeansMore, RepeatMeansCycle, LimitIsTight

\* Chain is inductive for as long as the catalog is at rest.
THEOREM ChainInvariant == Spec => [](changed \/ Chain)
<1>1. Init => changed \/ Chain
  <2> SUFFICES ASSUME Init PROVE Chain
    OBVIOUS
  <2>1. TypeOK
    BY InitTypeOK
  <2>2. cursor \in Reachable
    BY <2>1, FromIsClosed DEF Init, Reachable
  <2>3. matches = AllHits(fetched) /\ IsFiniteSet(matches) /\ Cardinality(matches) <= limit
    BY <2>1, FS_EmptySet DEF Init, AllHits, TypeOK
  <2> QED
    BY <2>2, <2>3
       DEF Init, Chain, CompleteMeansAll, IncompleteMeansMore, RepeatMeansCycle, LimitIsTight
<1>2. /\ TypeOK /\ Walk /\ (changed \/ Chain) /\ [Search \/ Republish \/ Returned]_vars
      => (changed \/ Chain)'
  <2> SUFFICES ASSUME TypeOK, Walk, changed \/ Chain,
                      [Search \/ Republish \/ Returned]_vars, ~changed'
               PROVE  Chain'
    OBVIOUS
  <2>0. ([Search \/ Returned]_vars) /\ Chain
    <3>1. ~Republish
      BY DEF Republish
    <3>2. Search \/ UNCHANGED vars
      BY <3>1 DEF Returned
    <3>3. changed' = changed
      BY <3>2 DEF vars, Search, Validate, RefuseCursor, ListFails, Overflow, LastPage,
                  RepeatedCursor, Advance, Fail
    <3> QED BY <3>2, <3>3
  <2> USE <2>0
  <2>1. CASE Validate /\ ValidArguments
    <3>1. /\ phase = "start" /\ phase' = "scan"
          /\ UNCHANGED <<catalog, limit, cursor, matches, incomplete, outcome, fetched>>
      BY <2>1 DEF Validate, arguments, result
    <3>2. outcome' = "none"
      BY <3>1 DEF Walk
    <3>3. AllHits(fetched') = AllHits(fetched) /\ AllHits(fetched)' = AllHits(fetched)
      BY <3>1, ReachableStable
    <3> QED
      BY <3>1, <3>2, <3>3, ReachableStable
         DEF Chain, CompleteMeansAll, IncompleteMeansMore, RepeatMeansCycle, LimitIsTight
  <2>2. CASE Validate /\ ~ValidArguments
    BY <2>2, FailedStep DEF Validate, Fail, Finish
  <2>3. CASE RefuseCursor
    BY <2>3, FailedStep DEF RefuseCursor, Fail, Finish
  <2>4. CASE ListFails
    BY <2>4, FailedStep DEF ListFails, Fail, Finish
  <2>5. CASE Overflow
    <3>1. /\ Receive /\ Page.hits > Room
          /\ matches' = matches \cup FirstHits(Room)
          /\ incomplete' = TRUE /\ phase' = "done" /\ outcome' = "ok"
          /\ UNCHANGED <<catalog, limit, cursor>>
      BY <2>5 DEF Overflow, Finish, arguments
    <3>2. phase = "scan" /\ cursor \in Served /\ cursor \notin fetched
      BY <3>1 DEF Receive, Walk
    <3>3. Page.hits \in Nat
      BY <3>2 DEF Page, TypeOK, Pages
    <3>4. matches = AllHits(fetched) /\ IsFiniteSet(matches) /\ Cardinality(matches) <= limit
      BY <3>2 DEF Chain
    <3>5. Room \in Nat /\ Cardinality(matches) \in Nat /\ limit \in Nat
      BY <3>4, FS_CardinalityType DEF Room, TypeOK
    <3>6. FirstHits(Room) = {cursor} \X (1..Room)
      BY <3>1, <3>3, <3>5 DEF FirstHits, Hits, Page
    <3>7. matches \cap FirstHits(Room) = {}
      BY <3>2, <3>4, <3>6 DEF AllHits, Hits
    <3>8. Cardinality(matches') = limit
      <4>1. /\ IsFiniteSet(FirstHits(Room))
            /\ Cardinality(FirstHits(Room)) = Room
        <5>1. Room \in Nat
          BY <3>5
        <5>2. /\ IsFiniteSet({cursor} \X (1..Room))
              /\ Cardinality({cursor} \X (1..Room)) = Room
          BY <5>1, HitsCount
        <5> QED BY <3>6, <5>2
      <4>2. Cardinality(matches \cup FirstHits(Room)) =
               Cardinality(matches) + Cardinality(FirstHits(Room))
                 - Cardinality(matches \cap FirstHits(Room))
        BY <4>1, <3>4, FS_Union
      <4>3. Cardinality(matches \cap FirstHits(Room)) = 0
        BY <3>7, FS_EmptySet
      <4> QED BY <3>1, <3>5, <4>1, <4>2, <4>3 DEF Room
    <3>9. <<cursor, Room + 1>> \in AllHits(Reachable) \ matches'
      <4>1. <<cursor, Room + 1>> \in Hits(cursor)
        BY <3>1, <3>3, <3>5 DEF Hits, Page
      <4>2. cursor \in Reachable \cap Served
        BY <3>2 DEF Chain
      <4>3. <<cursor, Room + 1>> \notin matches
        BY <3>2, <3>4 DEF AllHits, Hits
      <4>4. <<cursor, Room + 1>> \notin FirstHits(Room)
        BY <3>5 DEF FirstHits
      <4> QED BY <3>1, <4>1, <4>2, <4>3, <4>4 DEF AllHits
    <3>10. fetched' \subseteq Reachable' /\ cursor' \in Reachable'
      BY <3>1, ReceiveReachable, ReachableStable DEF Chain
    <3>11. CompleteMeansAll' /\ RepeatMeansCycle'
      BY <3>1 DEF CompleteMeansAll, RepeatMeansCycle
    <3>12. IncompleteMeansMore'
      BY <3>1, <3>9, ReachableStable DEF IncompleteMeansMore
    <3>13. LimitIsTight'
      BY <3>1, <3>5, <3>8 DEF LimitIsTight
    <3> QED BY <3>1, <3>10, <3>11, <3>12, <3>13 DEF Chain
  <2>6. CASE LastPage
    <3>1. /\ Receive /\ Page.hits <= Room /\ Page.next = NoNext
          /\ matches' = matches \cup Hits(cursor)
          /\ phase' = "done" /\ outcome' = "ok"
          /\ UNCHANGED <<catalog, limit, cursor, incomplete>>
      BY <2>6 DEF LastPage, Finish, arguments
    <3>2. ~incomplete'
      BY <3>1 DEF Receive, Walk
    <3>3. matches' = AllHits(fetched') /\ Cardinality(matches') <= limit
      BY <3>1, PageFits
    <3>4. fetched' = Reachable
      BY <3>1, LastPageComplete
    <3>5. fetched' = Reachable' /\ cursor' \in Reachable'
      BY <3>1, <3>4, ReachableStable DEF Chain
    <3>6. matches' = AllHits(fetched)'
      BY <3>1, <3>3, ReachableStable
    <3>7. CompleteMeansAll' /\ RepeatMeansCycle' /\ IncompleteMeansMore'
      BY <3>1, <3>2, <3>5, <3>6 DEF CompleteMeansAll, RepeatMeansCycle, IncompleteMeansMore
    <3>8. LimitIsTight'
      BY <3>1, <3>3, <3>6 DEF LimitIsTight
    <3> QED BY <3>1, <3>5, <3>7, <3>8 DEF Chain
  <2>7. CASE RepeatedCursor
    <3>1. /\ Receive /\ Page.next # NoNext /\ KnownCursor
          /\ phase' = "done" /\ outcome' = "repeated"
          /\ UNCHANGED <<catalog, cursor>>
      BY <2>7 DEF RepeatedCursor, Fail, Finish
    <3>2. cursor \in Reachable \cap Served /\ OnCycle(cursor)
      BY <3>1, RepeatClosesCycle
    <3>3. RepeatMeansCycle'
      BY <3>1, <3>2, ReachableStable DEF RepeatMeansCycle, Served
    <3>4. CompleteMeansAll' /\ IncompleteMeansMore' /\ LimitIsTight'
      BY <3>1 DEF CompleteMeansAll, IncompleteMeansMore, LimitIsTight
    <3>5. fetched' \subseteq Reachable' /\ cursor' \in Reachable'
      BY <3>1, ReceiveReachable, ReachableStable DEF Chain
    <3> QED BY <3>1, <3>3, <3>4, <3>5 DEF Chain
  <2>8. CASE Advance
    <3>1. /\ Receive /\ Page.hits <= Room /\ Page.next # NoNext /\ ~KnownCursor
          /\ matches' = matches \cup Hits(cursor)
          /\ cursor' = Page.next
          /\ UNCHANGED <<catalog, limit>>
          /\ fetched' = fetched \cup {cursor}
      BY <2>8 DEF Advance, arguments, Receive
    <3>2. phase = "scan" /\ cursor \in Served /\ cursor \in Reachable
      BY <3>1 DEF Receive, Chain
    <3>3. fetched' \subseteq Reachable' /\ cursor' \in Reachable'
      BY <3>1, ReceiveReachable, ReachableStable
    <3>4. /\ matches' = AllHits(fetched)' /\ IsFiniteSet(matches')
          /\ Cardinality(matches') <= limit'
      BY <3>1, PageFits, ReachableStable
    <3>5. First \in fetched' \cup {cursor'}
      BY <3>1, <3>2 DEF Chain
    <3>6. cursor' \in Cursors
      BY <3>1, <3>2 DEF Page, TypeOK, Pages
    <3>7. ASSUME NEW c \in fetched'
          PROVE  /\ catalog'[c].next \in fetched' \cup {cursor'}
                 /\ cursor' \in From(catalog[c].next)
      <4>1. CASE c = cursor
        BY <3>1, <3>6, <4>1, FromIsClosed DEF Page
      <4>2. CASE c \in fetched
        <5>1. catalog[c].next \in fetched \cup {cursor} /\ cursor \in From(catalog[c].next)
          BY <3>2, <4>2 DEF Chain
        <5>2. catalog[c].next \in Cursors
          BY <5>1, <3>2 DEF TypeOK, Served
        <5>3. Closed(From(catalog[c].next))
          BY <5>2, FromIsClosed
        <5>4. Page.next \in From(catalog[c].next)
          BY <3>1, <3>2, <5>1, <5>3 DEF Closed, Page
        <5> QED BY <3>1, <5>1, <5>4
      <4> QED BY <3>1, <4>1, <4>2
    <3>8. \A c \in fetched' : /\ catalog'[c].next \in fetched' \cup {cursor'}
                             /\ cursor' \in From(catalog[c].next)'
      BY <3>1, <3>7, ReachableStable
    <3>9. CASE phase' # "done"
      <4>1. outcome' = "none"
        BY <2>8, <3>9, <3>2 DEF Advance, Finish, Walk
      <4> QED
        BY <3>3, <3>4, <3>5, <3>8, <4>1
           DEF Chain, CompleteMeansAll, IncompleteMeansMore, RepeatMeansCycle, LimitIsTight
    <3>10. CASE phase' = "done"
      <4>1. outcome' = "ok" /\ incomplete'
        BY <2>8, <3>10, <3>2 DEF Advance, Finish
      <4>2. cursor' \notin fetched'
        BY <3>1, <3>2, <3>6 DEF KnownCursor, Walk, TypeOK, Page, Pages
      <4>3. IncompleteMeansMore'
        BY <3>3, <4>2 DEF IncompleteMeansMore
      <4>4. CompleteMeansAll' /\ RepeatMeansCycle' /\ LimitIsTight'
        BY <3>4, <4>1 DEF CompleteMeansAll, RepeatMeansCycle, LimitIsTight
      <4> QED BY <3>3, <3>10, <4>3, <4>4 DEF Chain
    <3> QED BY <3>9, <3>10
  <2>9. CASE UNCHANGED vars
    <3>1. UNCHANGED <<catalog, changed, limit, phase, cursor, matches, incomplete, outcome, fetched>>
      BY <2>9 DEF vars, arguments, result
    <3>2. AllHits(fetched)' = AllHits(fetched) /\ AllHits(Reachable)' = AllHits(Reachable)
      BY <3>1, ReachableStable
    <3> QED
      BY <3>1, <3>2, ReachableStable
         DEF Chain, CompleteMeansAll, IncompleteMeansMore, RepeatMeansCycle, LimitIsTight,
             Served
  <2>10. \/ Validate \/ RefuseCursor \/ ListFails \/ Overflow
         \/ LastPage \/ RepeatedCursor \/ Advance \/ UNCHANGED vars
    BY DEF Search, Returned
  <2> QED
    BY <2>1, <2>2, <2>3, <2>4, <2>5, <2>6, <2>7, <2>8, <2>9, <2>10
<1> QED
  BY <1>1, <1>2, TypeCorrect, WalkInvariant, PTL DEF Spec

\* On a catalog at rest, an answer not marked incomplete is all there is.
THEOREM CompleteMeansAllHolds == Spec => []CompleteMeansAll
<1>1. changed \/ Chain => CompleteMeansAll
  BY DEF Chain, CompleteMeansAll
<1> QED BY <1>1, ChainInvariant, PTL

\* On a catalog at rest, an answer marked incomplete leaves something out.
THEOREM IncompleteMeansMoreHolds == Spec => []IncompleteMeansMore
<1>1. changed \/ Chain => IncompleteMeansMore
  BY DEF Chain, IncompleteMeansMore
<1> QED BY <1>1, ChainInvariant, PTL

\* On a catalog at rest, a repeated cursor is a cycle of the host's pages.
THEOREM RepeatMeansCycleHolds == Spec => []RepeatMeansCycle
<1>1. changed \/ Chain => RepeatMeansCycle
  BY DEF Chain, RepeatMeansCycle
<1> QED BY <1>1, ChainInvariant, PTL

\* The limit is never exceeded and never cuts an answer short too early.
THEOREM LimitIsTightHolds == Spec => []LimitIsTight
<1>1. changed \/ Chain => LimitIsTight
  BY DEF Chain, LimitIsTight
<1> QED BY <1>1, ChainInvariant, PTL

-----------------------------------------------------------------------------
(* A search ends, whatever the host hands out                              *)

\* An upper bound on the steps the search has still to take.
StepsLeft == [start |-> maxPages + 2, scan |-> maxPages + 1 - scanned, done |-> 0][phase]

\* Every step brings the search nearer to its end, cyclic cursors or not, and
\* no page the host publishes meanwhile sets it back.
SearchAdvances ==
    [][/\ StepsLeft \in 0..maxPages + 2
       /\ Search => StepsLeft' < StepsLeft
       /\ StepsLeft' <= StepsLeft]_vars

\* A search is over after at most maxPages + 2 steps, for every catalog, at
\* rest or changing, and whatever cursors it hands out.
THEOREM SearchAdvancesHolds == Spec => SearchAdvances
<1> DEFINE Progress == /\ StepsLeft \in 0..maxPages + 2
                       /\ Search => StepsLeft' < StepsLeft
                       /\ StepsLeft' <= StepsLeft
<1>1. ASSUME TypeOK, Walk, [Search \/ Republish \/ Returned]_vars
      PROVE  Progress
  <2> USE <1>1 DEF TypeOK, Walk, StepsLeft, Fail, Finish, arguments
  <2>1. StepsLeft \in 0..maxPages + 2
    OBVIOUS
  <2>2. ASSUME phase' = "done", phase # "done"
        PROVE  StepsLeft' < StepsLeft
    BY <2>2
  <2>3. CASE Validate
    BY <2>3 DEF Validate
  <2>4. CASE RefuseCursor \/ ListFails \/ Overflow \/ LastPage \/ RepeatedCursor
    <3>1. phase' = "done" /\ phase # "done"
      BY <2>4 DEF RefuseCursor, ListFails, Receive, Overflow, LastPage, RepeatedCursor
    <3> QED BY <2>1, <2>2, <3>1
  <2>5. CASE Advance
    BY <2>5 DEF Advance, Receive
  <2>6. CASE ~Search /\ (Republish \/ UNCHANGED vars)
    <3>1. phase' = phase /\ scanned' = scanned /\ maxPages' = maxPages
      BY <2>6 DEF Republish, vars
    <3>2. StepsLeft' = StepsLeft
      BY <3>1
    <3> QED BY <2>1, <2>6, <3>2
  <2> QED BY <2>1, <2>3, <2>4, <2>5, <2>6 DEF Search, Returned
<1>2. TypeOK /\ Walk /\ [Search \/ Republish \/ Returned]_vars => [Progress]_vars
  BY <1>1
<1> QED BY <1>2, TypeCorrect, WalkInvariant, PTL DEF Spec, SearchAdvances

=============================================================================
