---------------------------- MODULE CatalogSearch ----------------------------
(***************************************************************************)
(* Provider.Search (internal/tjucli/provider.go): a search walks the pages *)
(* of the root catalog by the cursors the course host hands out, collects  *)
(* the items whose name matches, and says whether its answer is complete.  *)
(*                                                                         *)
(* A page is the number of matching items on it and the cursor of the      *)
(* next page.  The host chooses both, so cursors may form a cycle, and the *)
(* host may publish a new version of a page between two requests.          *)
(***************************************************************************)
EXTENDS Integers, FiniteSets

CONSTANTS
    Cursors,            \* cursors the host may hand out, and First
    First,              \* the empty cursor, which asks for the first page
    LongCursors,        \* cursors longer than maxCursorBytes
    NoNext,             \* the page is the last: next is absent or empty
    HitCounts,          \* possible numbers of matching items on a page
    MaximumSearchPages, \* largest max-pages accepted
    MaximumSearchLimit  \* largest limit accepted

ASSUME CursorsAssumption == /\ IsFiniteSet(Cursors)
                            /\ First \in Cursors
                            /\ LongCursors \subseteq Cursors \ {First}
                            /\ NoNext \notin Cursors
ASSUME CountsAssumption  == /\ HitCounts \subseteq Nat
                            /\ MaximumSearchPages \in Nat
                            /\ MaximumSearchLimit \in Nat

VARIABLES
    catalog,    \* what the host serves for each cursor
    changed,    \* history: the host has published a page since the start
    maxPages,   \* argument
    limit,      \* argument
    phase,      \* "start", "scan" or "done"
    cursor,     \* cursor of the next request
    seen,       \* cursors received from the host
    scanned,    \* meta.PagesScanned
    matches,    \* result items, each named by its page and its rank there
    incomplete, \* meta.Incomplete
    outcome,    \* "none" until done, then "ok" or the kind of error
    fetched     \* history: cursors of the pages received

host      == <<catalog, changed>>
arguments == <<maxPages, limit>>
result    == <<matches, incomplete, outcome>>
vars      == <<host, arguments, phase, cursor, seen, scanned, result, fetched>>

Served == Cursors \ LongCursors
Pages  == [hits : HitCounts, next : (Cursors \ {First}) \cup {NoNext}]

ValidArguments ==
    /\ maxPages \in 1..MaximumSearchPages
    /\ limit \in 1..MaximumSearchLimit

Init ==
    /\ catalog \in [Served -> Pages]
    /\ changed = FALSE
    /\ maxPages \in 0..MaximumSearchPages + 1
    /\ limit \in 0..MaximumSearchLimit + 1
    /\ phase = "start"
    /\ cursor = First
    /\ seen = {}
    /\ scanned = 0
    /\ matches = {}
    /\ incomplete = FALSE
    /\ outcome = "none"
    /\ fetched = {}

-----------------------------------------------------------------------------
(* The search                                                              *)

Finish(kind) == phase' = "done" /\ outcome' = kind

\* A returned error comes with empty result and metadata.
Fail(kind) ==
    /\ Finish(kind)
    /\ matches' = {} /\ incomplete' = FALSE
    /\ UNCHANGED <<host, arguments, cursor, seen>>

Validate ==
    /\ phase = "start"
    /\ \/ /\ ValidArguments
          /\ phase' = "scan"
          /\ UNCHANGED <<host, arguments, cursor, seen, result>>
       \/ ~ValidArguments /\ Fail("invalid_argument")
    /\ UNCHANGED <<scanned, fetched>>

\* List refuses the cursor before it sends a request, as a flag error.
RefuseCursor ==
    /\ phase = "scan" /\ cursor \in LongCursors
    /\ Fail("invalid_argument")
    /\ UNCHANGED <<scanned, fetched>>

\* The request fails, or the page is malformed.
ListFails ==
    /\ phase = "scan" /\ cursor \in Served
    /\ Fail("upstream_error")
    /\ UNCHANGED <<scanned, fetched>>

Page == catalog[cursor]

\* Mutant: the limit is compared after the append.
RoomPlusOne == limit + 1 - Cardinality(matches)

Room == limit - Cardinality(matches)

\* The items of a page that match, and the first n of them.
Hits(c)     == {c} \X (1..catalog[c].hits)
FirstHits(n) == {h \in Hits(cursor) : h[2] <= n}

\* The page arrives; every way on from here counts it.
Receive ==
    /\ phase = "scan" /\ cursor \in Served
    /\ scanned' = scanned + 1
    /\ fetched' = fetched \cup {cursor}

\* Mutant: the search stops as soon as the limit is reached.
OverflowEarly ==
    /\ Receive /\ Page.hits >= Room
    /\ matches' = matches \cup FirstHits(Room)
    /\ incomplete' = TRUE
    /\ Finish("ok")
    /\ UNCHANGED <<host, arguments, cursor, seen>>

\* A match beyond the limit ends the search.
Overflow ==
    /\ Receive /\ Page.hits > Room
    /\ matches' = matches \cup FirstHits(Room)
    /\ incomplete' = TRUE
    /\ Finish("ok")
    /\ UNCHANGED <<host, arguments, cursor, seen>>

LastPage ==
    /\ Receive /\ Page.hits <= Room
    /\ Page.next = NoNext
    /\ matches' = matches \cup Hits(cursor)
    /\ Finish("ok")
    /\ UNCHANGED <<host, arguments, cursor, seen, incomplete>>

\* Mutant: the cursor is recorded before it is looked up.
KnownCursorLate == Page.next = cursor \/ Page.next \in seen \cup {Page.next}

\* Mutant: only the current cursor is compared.
KnownCursorOnlyThis == Page.next = cursor

KnownCursor == Page.next = cursor \/ Page.next \in seen

RepeatedCursor ==
    /\ Receive /\ Page.hits <= Room
    /\ Page.next # NoNext /\ KnownCursor
    /\ Fail("repeated")

\* Mutant: the page cap is taken for the end of the catalog.
AdvanceSilently ==
    /\ Receive /\ Page.hits <= Room
    /\ Page.next # NoNext /\ ~KnownCursor
    /\ matches' = matches \cup Hits(cursor)
    /\ seen' = seen \cup {Page.next}
    /\ cursor' = Page.next
    /\ IF scanned + 1 < maxPages THEN UNCHANGED <<phase, outcome>> ELSE Finish("ok")
    /\ UNCHANGED <<host, arguments, incomplete>>

\* Mutant: an absent next cursor is followed like any other.
AdvanceUnchecked ==
    /\ Receive /\ Page.hits <= Room
    /\ ~KnownCursor
    /\ matches' = matches \cup Hits(cursor)
    /\ seen' = seen \cup {Page.next}
    /\ cursor' = Page.next
    /\ IF scanned + 1 < maxPages
         THEN UNCHANGED <<phase, outcome, incomplete>>
         ELSE Finish("ok") /\ incomplete' = TRUE
    /\ UNCHANGED <<host, arguments>>

\* On to the next page, or out of the loop at the page cap, where the
\* answer is incomplete: cursor # "".
Advance ==
    /\ Receive /\ Page.hits <= Room
    /\ Page.next # NoNext /\ ~KnownCursor
    /\ matches' = matches \cup Hits(cursor)
    /\ seen' = seen \cup {Page.next}
    /\ cursor' = Page.next
    /\ IF scanned + 1 < maxPages
         THEN UNCHANGED <<phase, outcome, incomplete>>
         ELSE Finish("ok") /\ incomplete' = TRUE
    /\ UNCHANGED <<host, arguments>>

Search ==
    \/ Validate \/ RefuseCursor \/ ListFails
    \/ Overflow \/ LastPage \/ RepeatedCursor \/ Advance

-----------------------------------------------------------------------------
\* The host publishes a new version of a page.
Republish ==
    /\ phase = "scan"
    /\ \E c \in Served, p \in Pages : catalog' = [catalog EXCEPT ![c] = p]
    /\ changed' = TRUE
    /\ UNCHANGED <<arguments, phase, cursor, seen, scanned, result, fetched>>

Returned == phase = "done" /\ UNCHANGED vars

Spec == Init /\ [][Search \/ Republish \/ Returned]_vars

-----------------------------------------------------------------------------
(* What the answer should be, without reference to the loop                *)

\* A set of cursors that holds the successor of each of its pages.
Closed(S) == \A c \in S \cap Served : catalog[c].next \in S \cup {NoNext}

\* The pages one gets to from c: the least closed set around it.
From(c) == {d \in Cursors : \A S \in SUBSET Cursors : c \in S /\ Closed(S) => d \in S}

Reachable == From(First)
OnCycle(c) == catalog[c].next \in Cursors /\ c \in From(catalog[c].next)

AllHits(S) == UNION {Hits(c) : c \in S \cap Served}

-----------------------------------------------------------------------------
(* Properties                                                              *)

TypeOK ==
    /\ catalog \in [Served -> Pages]
    /\ changed \in BOOLEAN
    /\ maxPages \in Nat /\ limit \in Nat
    /\ phase \in {"start", "scan", "done"}
    /\ cursor \in Cursors
    /\ seen \subseteq Cursors \ {First}
    /\ scanned \in Nat
    /\ matches \subseteq Served \X Nat
    /\ incomplete \in BOOLEAN
    /\ outcome \in {"none", "ok", "invalid_argument", "upstream_error", "repeated"}
    /\ fetched \subseteq Served

\* No page is requested twice and no more than maxPages are, whatever the
\* host hands out and however the catalog changes under the search; the
\* reported pages_scanned is the number of distinct pages received.
EachPageOnce ==
    /\ scanned = Cardinality(fetched)
    /\ scanned <= maxPages

\* With a catalog at rest, the answer holds at most limit matches, and a match
\* on a page received is left out only when it holds exactly that many.
LimitIsTight ==
    ~changed /\ outcome = "ok" =>
        /\ Cardinality(matches) <= limit
        /\ AllHits(fetched) \subseteq matches \/ Cardinality(matches) = limit

\* With a catalog at rest, an answer not marked incomplete holds every match
\* on every page of the catalog, and nothing else.
CompleteMeansAll ==
    ~changed /\ outcome = "ok" /\ ~incomplete => matches = AllHits(Reachable)

\* With a catalog at rest, an answer marked incomplete does leave something
\* out: a match, or a page that was not looked at.
IncompleteMeansMore ==
    ~changed /\ outcome = "ok" /\ incomplete =>
        (AllHits(Reachable) \ matches) \cup (Reachable \ fetched) # {}

\* With a catalog at rest, the error for a repeated cursor is raised only if
\* the host's pages really form a cycle.
RepeatMeansCycle ==
    ~changed /\ outcome = "repeated" => \E c \in Reachable \cap Served : OnCycle(c)

\* TJUCLI.md:41: exit status 2 is for invalid arguments, a fault of the
\* provider exits with status 1.
InvalidArgumentIsCallersFault ==
    outcome = "invalid_argument" => ~ValidArguments

=============================================================================
