----------------------------- MODULE RoomQuery -----------------------------
(***************************************************************************)
(* One call of RoomsProvider.CheckRooms (internal/tjucli/rooms_provider.go)*)
(* and what its answer promises: the campuses are fetched, the building is *)
(* resolved in the campus named or, without one, in every campus whose     *)
(* list can be had, and the rooms of the building found are asked for.     *)
(*                                                                         *)
(* Names are abstracted to what the code compares.  A campus is the set of *)
(* its traits with respect to query.Campus, a building the set of its      *)
(* traits with respect to query.Building; blanks around both are trimmed:  *)
(*   "id"       the query is a positive integer and the entry's ID         *)
(*   "exact"    the name is the query                                      *)
(*   "related"  (a campus) one of name and query contains the other        *)
(*   "alias"    the query is an alias, and the name contains what it means *)
(*   "mention"  the name contains the query                                *)
(*   "clean"    name and query are equal without one leading zero each     *)
(*   "contains" the name contains the query without its leading zero       *)
(*   "prefix"   the name begins with the query                             *)
(* Every list is asked for once, so the host is what it answers if it does.*)
(***************************************************************************)
EXTENDS Integers, Sequences, FiniteSetsExt

CONSTANTS
    CampusKinds,   \* the sets of traits a campus can have
    Queries,       \* for each sort of building query, the sets of traits a building can have
    MaxCampuses,   \* bound on the host's campuses
    MaxBuildings,  \* bound on a campus's buildings
    None           \* no campus, no building

ASSUME BoundsAssumption == MaxCampuses \in Nat /\ MaxBuildings \in Nat
ASSUME NoneAssumption   == None \notin Nat /\ None \notin Nat \X Nat

\* What the string functions imply of each other.
ASSUME TraitsAssumption ==
    /\ \A k \in CampusKinds : "exact" \in k => "related" \in k
    /\ \A q \in Queries : \A k \in q :
         /\ "exact" \in k => {"clean", "prefix"} \subseteq k
         /\ "prefix" \in k => "mention" \in k
         /\ "mention" \in k \/ "clean" \in k => "contains" \in k

VARIABLES
    host,       \* what the upstream host answers: campuses, each with its buildings
    named,      \* query.Campus is given
    valid,      \* the arguments pass the checks made before any request
    pc,
    next,       \* the campus the search across campuses is at
    campus,     \* matchedCampus
    pairs,      \* <<campus, building>> found so far
    chosen,     \* the pair whose rooms are asked for
    outcome,    \* code of the error returned, "ok" for an answer
    cancelled,  \* the context is done
    skipped     \* history: campuses whose buildings could not be fetched

query  == <<host, named, valid>>
vars   == <<query, pc, next, campus, pairs, chosen, outcome, cancelled, skipped>>

Lists(S, max) == UNION {[1..n -> S] : n \in 0..max}

Hosts(kinds) == Lists([traits : CampusKinds, buildings : Lists(kinds, MaxBuildings)], MaxCampuses)

Init ==
    /\ \E kinds \in Queries : host \in Hosts(kinds)
    /\ named \in BOOLEAN
    /\ ~named => \A c \in DOMAIN host : host[c].traits = {}
    /\ valid \in BOOLEAN
    /\ pc = "validate"
    /\ next = 1
    /\ campus = None
    /\ pairs = {}
    /\ chosen = None
    /\ outcome = "none"
    /\ cancelled = FALSE
    /\ skipped = {}

-----------------------------------------------------------------------------
(* Resolution                                                              *)

\* Positions of the entries of a list of trait sets that have one.
With(list, trait) == {i \in DOMAIN list : trait \in list[i]}

OnlyOne(S) == \E i \in S : S = {i}

\* Mutant: an exact name does not win over names related to the query.
ResolveCampusLoosely(list) ==
    IF With(list, "id") # {} THEN Min(With(list, "id"))
    ELSE IF OnlyOne(With(list, "related")) THEN Min(With(list, "related"))
    ELSE None

\* The position in the list, None for both "ambiguous" and "not found".
ResolveCampus(list) ==
    IF With(list, "id") # {} THEN Min(With(list, "id"))
    ELSE IF With(list, "exact") # {} THEN Min(With(list, "exact"))
    ELSE IF OnlyOne(With(list, "related")) THEN Min(With(list, "related"))
    ELSE None

\* Several buildings contain what the alias means: the first that also
\* contains the alias, else the first.
ByAlias(list) ==
    LET aliased == With(list, "alias")
        both    == aliased \cap With(list, "mention")
    IN  IF OnlyOne(aliased) \/ both = {} THEN Min(aliased) ELSE Min(both)

\* Mutant: the first of several names that contain the query is taken.
BySubstringFirst(list) ==
    IF With(list, "contains") # {} THEN Min(With(list, "contains")) ELSE None

\* Several names contain the query: the first that begins with it, if any.
BySubstring(list) ==
    LET matches == With(list, "contains")
        leading == matches \cap With(list, "prefix")
    IN  IF OnlyOne(matches) THEN Min(matches)
        ELSE IF leading # {} THEN Min(leading)
        ELSE None

ResolveBuilding(list) ==
    IF With(list, "id") # {} THEN Min(With(list, "id"))
    ELSE IF With(list, "exact") # {} THEN Min(With(list, "exact"))
    ELSE IF With(list, "alias") # {} THEN ByAlias(list)
    ELSE IF With(list, "clean") # {} THEN Min(With(list, "clean"))
    ELSE BySubstring(list)

Campuses == [c \in DOMAIN host |-> host[c].traits]

-----------------------------------------------------------------------------
(* The call                                                                *)

Goto(from, to) == pc = from /\ pc' = to /\ UNCHANGED outcome

Return(from, code) == pc = from /\ pc' = "returned" /\ outcome' = code

\* doRequest and the check of its data.  It can always fail, and does when
\* the context is done.
Answered == ~cancelled
Fails(from) == Return(from, "runtime_error")

\* Building, campus, date and session, before any request.
Validate ==
    /\ \/ valid /\ Goto("validate", "campuses")
       \/ ~valid /\ Return("validate", "invalid_argument")
    /\ UNCHANGED <<query, next, campus, pairs, chosen, cancelled, skipped>>

FetchCampuses ==
    /\ \/ Answered /\ Goto("campuses", IF named THEN "campus" ELSE "search")
       \/ Fails("campuses")
    /\ UNCHANGED <<query, next, campus, pairs, chosen, cancelled, skipped>>

ChooseCampus ==
    /\ pc = "campus"
    /\ campus' = ResolveCampus(Campuses)
    /\ \/ campus' # None /\ Goto("campus", "buildings")
       \/ campus' = None /\ Return("campus", "invalid_argument")
    /\ UNCHANGED <<query, next, pairs, chosen, cancelled, skipped>>

Found == ResolveBuilding(host[campus].buildings)

FetchBuildings ==
    /\ pc = "buildings"
    /\ \/ /\ Answered /\ Found # None
          /\ Goto("buildings", "rooms")
          /\ chosen' = <<campus, Found>>
       \/ Answered /\ Found = None /\ Return("buildings", "invalid_argument") /\ UNCHANGED chosen
       \/ Fails("buildings") /\ UNCHANGED chosen
    /\ UNCHANGED <<query, next, campus, pairs, cancelled, skipped>>

FoundIn(c) == {<<c, b>> : b \in {ResolveBuilding(host[c].buildings)} \ {None}}

\* Mutant: a campus that cannot be fetched is asked again.
SearchAgain ==
    /\ Goto("search", "search")
    /\ next \in DOMAIN host
    /\ \/ /\ Answered
          /\ next' = next + 1
          /\ pairs' = pairs \cup FoundIn(next)
          /\ UNCHANGED skipped
       \/ /\ skipped' = skipped \cup {next}
          /\ UNCHANGED <<next, pairs>>
    /\ UNCHANGED <<query, campus, chosen, cancelled>>

\* Mutant: the search stops at the first campus that has the building.
SearchFirst ==
    /\ Goto("search", "search")
    /\ next \in DOMAIN host
    /\ \/ /\ Answered
          /\ pairs' = pairs \cup FoundIn(next)
          /\ next' = IF pairs' = {} THEN next + 1 ELSE Len(host) + 1
          /\ UNCHANGED skipped
       \/ /\ skipped' = skipped \cup {next}
          /\ next' = next + 1
          /\ UNCHANGED pairs
    /\ UNCHANGED <<query, campus, chosen, cancelled>>

\* Mutant: a campus that fails takes the next one with it.
SearchSkipsTwo ==
    /\ Goto("search", "search")
    /\ next \in DOMAIN host
    /\ \/ /\ Answered
          /\ next' = next + 1
          /\ pairs' = pairs \cup FoundIn(next)
          /\ UNCHANGED skipped
       \/ /\ skipped' = skipped \cup {next}
          /\ next' = next + 2
          /\ UNCHANGED pairs
    /\ UNCHANGED <<query, campus, chosen, cancelled>>

\* One turn of the loop over the campuses.  A campus whose list cannot be
\* fetched is passed over, and so is one in which the building is ambiguous.
Search ==
    /\ Goto("search", "search")
    /\ next \in DOMAIN host
    /\ next' = next + 1
    /\ \/ /\ Answered
          /\ pairs' = pairs \cup FoundIn(next)
          /\ UNCHANGED skipped
       \/ /\ skipped' = skipped \cup {next}
          /\ UNCHANGED pairs
    /\ UNCHANGED <<query, campus, chosen, cancelled>>

\* No pair: not found.  Several: ambiguous across campuses.
Decide ==
    /\ pc = "search"
    /\ next \notin DOMAIN host
    /\ \/ /\ OnlyOne(pairs)
          /\ Goto("search", "rooms")
          /\ chosen' \in pairs
       \/ ~OnlyOne(pairs) /\ Return("search", "invalid_argument") /\ UNCHANGED chosen
    /\ UNCHANGED <<query, next, campus, pairs, cancelled, skipped>>

FetchRooms ==
    /\ \/ Answered /\ Return("rooms", "ok")
       \/ Fails("rooms")
    /\ UNCHANGED <<query, next, campus, pairs, chosen, cancelled, skipped>>

\* SIGINT, SIGTERM or the caller's deadline.
Cancel ==
    /\ pc # "returned"
    /\ cancelled' = TRUE
    /\ UNCHANGED <<query, pc, next, campus, pairs, chosen, outcome, skipped>>

Step == \/ Validate \/ FetchCampuses \/ ChooseCampus \/ FetchBuildings
        \/ Search \/ Decide \/ FetchRooms

Returned == pc = "returned" /\ UNCHANGED vars

Next == Step \/ Cancel \/ Returned

\* Every request ends: the HTTP client has a timeout (rooms_provider.go:44, 62).
Spec     == Init /\ [][Next]_vars
FairSpec == Spec /\ WF_vars(Step)

-----------------------------------------------------------------------------
(* What a query means, stated without a search.                            *)

\* i is the first entry of the best non-empty class.
BestOf(classes, i) ==
    \E k \in DOMAIN classes :
        /\ i \in classes[k]
        /\ \A j \in classes[k] : i <= j
        /\ \A better \in 1..k - 1 : classes[better] = {}

\* The classes of buildings, best first; "sole" is the only name that
\* contains the query.
BuildingClasses(list) ==
    << With(list, "id"), With(list, "exact"),
       With(list, "alias") \cap With(list, "mention"), With(list, "alias"),
       With(list, "clean"), With(list, "prefix"),
       {i \in With(list, "contains") : With(list, "contains") = {i}} >>

CampusClasses(list) ==
    << With(list, "id"), With(list, "exact"),
       {i \in With(list, "related") : With(list, "related") = {i}} >>

Meant(c, b) == BestOf(BuildingClasses(host[c].buildings), b)

\* Campuses in which the query names one building.
Determined == {c \in DOMAIN host : \E b \in DOMAIN host[c].buildings : Meant(c, b)}

-----------------------------------------------------------------------------
(* Properties                                                              *)

Phases == {"validate", "campuses", "campus", "buildings", "search", "rooms", "returned"}

Places == Nat \X Nat

\* Types; the search stays within the campuses the host has.
TypeOK ==
    /\ pc \in Phases
    /\ next \in 1..Len(host) + 1
    /\ campus \in DOMAIN host \cup {None}
    /\ pairs \subseteq Places
    /\ chosen \in Places \cup {None}
    /\ outcome \in {"none", "ok", "invalid_argument", "runtime_error"}
    /\ cancelled \in BOOLEAN
    /\ skipped \subseteq DOMAIN host

\* The rooms answered are those of the building the query means: the first of
\* the best class in its campus, which is the campus named, if one was.
AnswerIsMeant ==
    outcome = "ok" =>
        /\ Meant(chosen[1], chosen[2])
        /\ named => BestOf(CampusClasses(Campuses), chosen[1])

\* Without a campus the answer is the only one: in every other campus whose
\* list arrived, the query names no building.
AnswerIsOnlyOne ==
    outcome = "ok" /\ ~named => Determined \ skipped = {chosen[1]}

\* "Check your arguments" is said when they are wrong: they are invalid, no
\* campus or not one building is meant, or a list could not be had.
RefusalJustified ==
    outcome = "invalid_argument" =>
        \/ ~valid
        \/ named /\ \A c \in DOMAIN host :
                        BestOf(CampusClasses(Campuses), c) => c \notin Determined
        \/ ~named /\ ~OnlyOne(Determined \ skipped)

\* Every call returns, whatever the host does.
Returns == <>(pc = "returned")

\* An upstream failure is a runtime error, exit status 1, and not a wrong
\* argument, exit status 2 (types.go:7, 79, 84), at least when not one list
\* of buildings arrived.
UpstreamFailureIsRuntime ==
    valid /\ skipped # {} /\ skipped = DOMAIN host => outcome # "invalid_argument"
=============================================================================
