-------------------------- MODULE RoomQueryProofs --------------------------
(***************************************************************************)
(* Proofs about RoomQuery, for every host, every kind of query and every   *)
(* bound.  The first part shows that the two resolution functions find     *)
(* the best entry of a list exactly when there is one, the second that the *)
(* call keeps what it has found tied to what the host's lists say.         *)
(***************************************************************************)
EXTENDS RoomQuery, WellFoundedInduction, TLAPS

-----------------------------------------------------------------------------
(* The best entry of a list                                                *)

Below == {p \in Nat \X Nat : p[1] < p[2]}

\* The order of the numbers, as a relation, is well founded.
LEMMA BelowWellFounded == IsWellFoundedOn(Below, Nat)
BY NatLessThanWellFounded DEF OpToRel, Below

\* The minimum of a set of numbers is its least element.
LEMMA MinIsLeast ==
    ASSUME NEW S \in SUBSET Nat, S # {}
    PROVE  Min(S) \in S /\ \A j \in S : Min(S) <= j
<1>1. PICK x \in S : \A y \in S : <<y, x>> \notin Below
  BY BelowWellFounded, WFMin
<1>2. ASSUME NEW y \in S PROVE x <= y
  <2>1. y \in Nat /\ x \in Nat /\ ~(y < x)
    BY <1>1 DEF Below
  <2> QED BY <2>1
<1> QED BY <1>2 DEF Min

\* A list's classes number its entries.
Classes(classes) ==
    /\ DOMAIN classes \subseteq Nat
    /\ \A k \in DOMAIN classes : classes[k] \in SUBSET Nat

\* The first non-empty class holds the best entry, its least.
LEMMA FirstClassHasBest ==
    ASSUME NEW classes, Classes(classes), NEW k \in DOMAIN classes, classes[k] # {},
           \A better \in 1..k - 1 : classes[better] = {}
    PROVE  BestOf(classes, Min(classes[k])) /\ Min(classes[k]) \in classes[k]
BY MinIsLeast DEF Classes, BestOf

\* No two entries are best.
LEMMA OneIsBest ==
    ASSUME NEW classes, Classes(classes), 0 \notin DOMAIN classes,
           NEW i, NEW j, BestOf(classes, i), BestOf(classes, j)
    PROVE  i = j
<1>1. PICK k \in DOMAIN classes : /\ i \in classes[k]
                                  /\ \A x \in classes[k] : i <= x
                                  /\ \A better \in 1..k - 1 : classes[better] = {}
  BY DEF BestOf
<1>2. PICK l \in DOMAIN classes : /\ j \in classes[l]
                                  /\ \A x \in classes[l] : j <= x
                                  /\ \A better \in 1..l - 1 : classes[better] = {}
  BY DEF BestOf
<1>3. k \in Nat /\ l \in Nat /\ k # 0 /\ l # 0
  BY DEF Classes
<1>4. k = l
  BY <1>1, <1>2, <1>3
<1>5. i \in Nat /\ j \in Nat /\ i <= j /\ j <= i
  BY <1>1, <1>2, <1>4 DEF Classes
<1> QED BY <1>5

\* Lists of campuses and of buildings, with what traits imply.
CampusList(list) ==
    /\ DOMAIN list \in SUBSET (Nat \ {0})
    /\ \A i \in DOMAIN list : "exact" \in list[i] => "related" \in list[i]

BuildingList(list) ==
    /\ DOMAIN list \in SUBSET (Nat \ {0})
    /\ \A i \in DOMAIN list :
         /\ "exact" \in list[i] => {"clean", "prefix"} \subseteq list[i]
         /\ "prefix" \in list[i] => "mention" \in list[i]
         /\ "mention" \in list[i] \/ "clean" \in list[i] => "contains" \in list[i]

LEMMA CampusClassesOK ==
    ASSUME NEW list, CampusList(list)
    PROVE  /\ Classes(CampusClasses(list))
           /\ DOMAIN CampusClasses(list) = 1..3
           /\ \A k \in 1..3 : CampusClasses(list)[k] \subseteq DOMAIN list
BY DEF CampusList, Classes, CampusClasses, With

LEMMA BuildingClassesOK ==
    ASSUME NEW list, BuildingList(list)
    PROVE  /\ Classes(BuildingClasses(list))
           /\ DOMAIN BuildingClasses(list) = 1..7
           /\ \A k \in 1..7 : BuildingClasses(list)[k] \subseteq DOMAIN list
BY DEF BuildingList, Classes, BuildingClasses, With

\* A list whose classes are all empty has no best entry.
LEMMA NoClassNoBest ==
    ASSUME NEW classes, \A k \in DOMAIN classes : classes[k] = {}
    PROVE  \A i : ~BestOf(classes, i)
BY DEF BestOf

\* ResolveCampus finds the best campus, and None only when there is none.
LEMMA ResolveCampusIsBest ==
    ASSUME NEW list, CampusList(list)
    PROVE  \/ /\ ResolveCampus(list) \in DOMAIN list
              /\ BestOf(CampusClasses(list), ResolveCampus(list))
           \/ /\ ResolveCampus(list) = None
              /\ \A i : ~BestOf(CampusClasses(list), i)
<1> DEFINE C == CampusClasses(list)
<1>1. /\ Classes(C) /\ DOMAIN C = 1..3
      /\ \A k \in 1..3 : C[k] \subseteq DOMAIN list
  BY CampusClassesOK
<1>2. /\ C[1] = With(list, "id") /\ C[2] = With(list, "exact")
      /\ C[3] = {i \in With(list, "related") : With(list, "related") = {i}}
  BY DEF CampusClasses
<1> HIDE DEF C
<1>3. CASE C[1] # {}
  <2>1. ResolveCampus(list) = Min(C[1])
    BY <1>2, <1>3 DEF ResolveCampus
  <2> QED BY <1>1, <1>3, <2>1, FirstClassHasBest DEF C
<1>4. CASE C[1] = {} /\ C[2] # {}
  <2>1. ResolveCampus(list) = Min(C[2])
    BY <1>2, <1>4 DEF ResolveCampus
  <2>2. BestOf(C, Min(C[2])) /\ Min(C[2]) \in C[2]
    BY <1>1, <1>4, FirstClassHasBest
  <2> QED BY <1>1, <2>1, <2>2 DEF C
<1>5. CASE C[1] = {} /\ C[2] = {} /\ C[3] # {}
  <2>1. C[3] = With(list, "related") /\ OnlyOne(C[3])
    BY <1>2, <1>5 DEF OnlyOne
  <2>2. ResolveCampus(list) = Min(C[3])
    BY <1>2, <1>5, <2>1 DEF ResolveCampus
  <2>3. BestOf(C, Min(C[3])) /\ Min(C[3]) \in C[3]
    BY <1>1, <1>5, FirstClassHasBest
  <2> QED BY <1>1, <2>2, <2>3 DEF C
<1>6. CASE C[1] = {} /\ C[2] = {} /\ C[3] = {}
  <2>1. ~OnlyOne(With(list, "related"))
    BY <1>2, <1>6 DEF OnlyOne
  <2>2. ResolveCampus(list) = None
    BY <1>2, <1>6, <2>1 DEF ResolveCampus
  <2>3. \A i : ~BestOf(C, i)
    BY <1>1, <1>6, NoClassNoBest
  <2> QED BY <2>2, <2>3 DEF C
<1> QED BY <1>3, <1>4, <1>5, <1>6

\* ResolveBuilding finds the best building, and None only when there is none.
LEMMA ResolveBuildingIsBest ==
    ASSUME NEW list, BuildingList(list)
    PROVE  \/ /\ ResolveBuilding(list) \in DOMAIN list
              /\ BestOf(BuildingClasses(list), ResolveBuilding(list))
           \/ /\ ResolveBuilding(list) = None
              /\ \A i : ~BestOf(BuildingClasses(list), i)
<1> DEFINE B == BuildingClasses(list)
           found == ResolveBuilding(list)
           Holds(k) == B[k] # {} /\ \A better \in 1..k - 1 : B[better] = {}
<1>1. /\ Classes(B) /\ DOMAIN B = 1..7
      /\ \A k \in 1..7 : B[k] \subseteq DOMAIN list
  BY BuildingClassesOK
<1>2. /\ B[1] = With(list, "id") /\ B[2] = With(list, "exact")
      /\ B[3] = With(list, "alias") \cap With(list, "mention")
      /\ B[4] = With(list, "alias") /\ B[5] = With(list, "clean")
      /\ B[6] = With(list, "prefix")
      /\ B[7] = {i \in With(list, "contains") : With(list, "contains") = {i}}
  BY DEF BuildingClasses
<1>3. With(list, "prefix") \subseteq With(list, "contains")
  BY DEF With, BuildingList
<1> HIDE DEF B
<1>4. ASSUME NEW k \in 1..7, Holds(k), found = Min(B[k])
      PROVE  found \in DOMAIN list /\ BestOf(B, found)
  BY <1>1, <1>4, FirstClassHasBest
<1>5. Holds(1) => found = Min(B[1])
  BY <1>2 DEF ResolveBuilding
<1>6. Holds(2) => found = Min(B[2])
  BY <1>2 DEF ResolveBuilding
<1>7. Holds(3) => found = Min(B[3])
  <2> HAVE Holds(3)
  <2>1. found = ByAlias(list) /\ B[3] # {}
    BY <1>2 DEF ResolveBuilding
  <2>2. OnlyOne(With(list, "alias")) => With(list, "alias") = B[3]
    BY <1>2, <2>1 DEF OnlyOne
  <2> QED BY <1>2, <2>1, <2>2 DEF ByAlias
<1>8. Holds(4) => found = Min(B[4])
  BY <1>2 DEF ResolveBuilding, ByAlias
<1>9. Holds(5) => found = Min(B[5])
  BY <1>2 DEF ResolveBuilding
<1>10. Holds(6) => found = Min(B[6])
  <2> HAVE Holds(6)
  <2>1. found = BySubstring(list)
    BY <1>2 DEF ResolveBuilding
  <2>2. With(list, "contains") \cap With(list, "prefix") = B[6] /\ B[6] # {}
    BY <1>2, <1>3
  <2>3. OnlyOne(With(list, "contains")) => With(list, "contains") = B[6]
    BY <2>2 DEF OnlyOne
  <2> QED BY <2>1, <2>2, <2>3 DEF BySubstring
<1>11. Holds(7) => found = Min(B[7])
  <2> HAVE Holds(7)
  <2>1. found = BySubstring(list)
    BY <1>2 DEF ResolveBuilding
  <2>2. OnlyOne(With(list, "contains")) /\ With(list, "contains") = B[7]
    BY <1>2 DEF OnlyOne
  <2> QED BY <2>1, <2>2 DEF BySubstring
<1>12. ASSUME \A k \in 1..7 : B[k] = {}
       PROVE  found = None /\ \A i : ~BestOf(B, i)
  <2>1. found = BySubstring(list)
    BY <1>2, <1>12 DEF ResolveBuilding
  <2>2. ~OnlyOne(With(list, "contains"))
    BY <1>2, <1>12 DEF OnlyOne
  <2>3. found = None
    BY <1>2, <1>12, <2>1, <2>2 DEF BySubstring
  <2> QED BY <1>1, <1>12, <2>3, NoClassNoBest
<1>13. (\E k \in 1..7 : Holds(k)) \/ \A k \in 1..7 : B[k] = {}
  OBVIOUS
<1>14. ASSUME NEW k \in 1..7, Holds(k) PROVE found = Min(B[k])
  <2>1. k \in {1, 2, 3, 4, 5, 6, 7}
    OBVIOUS
  <2> QED BY <1>14, <2>1, <1>5, <1>6, <1>7, <1>8, <1>9, <1>10, <1>11
<1> QED BY <1>4, <1>12, <1>13, <1>14 DEF B

-----------------------------------------------------------------------------
(* The inductive invariant                                                 *)

\* Every list of the host is one the two lemmas above are about.
HostOK ==
    /\ Len(host) \in Nat /\ DOMAIN host = 1..Len(host)
    /\ CampusList(Campuses)
    /\ \A c \in DOMAIN host : BuildingList(host[c].buildings)

Resolved(c) == ResolveBuilding(host[c].buildings)

\* What the search across the campuses has found so far.
SearchInv ==
    /\ skipped \subseteq 1..next - 1
    /\ pairs = {p \in (DOMAIN host) \X Nat :
                   /\ p[1] < next /\ p[1] \notin skipped
                   /\ p[2] = Resolved(p[1])}

\* How far the call has come, and with what.
FlowInv ==
    /\ pc \in {"campus", "buildings"} => named
    /\ pc = "search" => ~named
    /\ pc \notin {"validate", "returned"} => valid
    /\ campus # None => campus = ResolveCampus(Campuses)
    /\ pc = "buildings" => campus # None
    /\ pc # "returned" => outcome = "none"

\* The building whose rooms are asked for.
ChosenInv ==
    pc = "rooms" \/ outcome = "ok" =>
        /\ chosen # None
        /\ chosen[1] \in DOMAIN host
        /\ chosen[2] = Resolved(chosen[1]) /\ chosen[2] # None
        /\ named => campus # None /\ chosen[1] = campus
        /\ ~named => next = Len(host) + 1 /\ pairs = {chosen}

IInv == TypeOK /\ HostOK /\ SearchInv /\ FlowInv /\ ChosenInv /\ RefusalJustified

USE BoundsAssumption, NoneAssumption DEF BoundsAssumption, NoneAssumption

\* Every host the call can meet has such lists.
LEMMA HostsOK ==
    ASSUME NEW kinds \in Queries, host \in Hosts(kinds)
    PROVE  HostOK
<1>1. PICK n \in 0..MaxCampuses :
          host \in [1..n -> [traits : CampusKinds, buildings : Lists(kinds, MaxBuildings)]]
  BY DEF Hosts, Lists
<1>2. Len(host) = n /\ DOMAIN host = 1..n
  BY <1>1
<1>3. CampusList(Campuses)
  BY <1>1, <1>2, TraitsAssumption DEF CampusList, Campuses, TraitsAssumption
<1>4. ASSUME NEW c \in DOMAIN host PROVE BuildingList(host[c].buildings)
  <2>1. host[c].buildings \in Lists(kinds, MaxBuildings)
    BY <1>1, <1>2
  <2>2. PICK m \in 0..MaxBuildings : host[c].buildings \in [1..m -> kinds]
    BY <2>1 DEF Lists
  <2> QED BY <2>2, TraitsAssumption DEF BuildingList, TraitsAssumption
<1> QED BY <1>2, <1>3, <1>4 DEF HostOK

\* A resolution, and what it says of the campus.
LEMMA ResolvedIsMeant ==
    ASSUME HostOK, NEW c \in DOMAIN host
    PROVE  /\ Resolved(c) \in Nat \cup {None}
           /\ Resolved(c) # None => Meant(c, Resolved(c))
           /\ Resolved(c) # None <=> c \in Determined
<1>1. BuildingList(host[c].buildings)
  BY DEF HostOK
<1>2. DOMAIN host[c].buildings \subseteq Nat
  BY <1>1 DEF BuildingList
<1> QED BY <1>1, <1>2, ResolveBuildingIsBest DEF Resolved, Meant, Determined

\* The campus resolved is the one meant, and there is no other.
LEMMA CampusIsMeant ==
    ASSUME HostOK
    PROVE  /\ ResolveCampus(Campuses) \in DOMAIN host \cup {None}
           /\ \A c : BestOf(CampusClasses(Campuses), c) =>
                        ResolveCampus(Campuses) # None /\ c = ResolveCampus(Campuses)
           /\ ResolveCampus(Campuses) # None =>
                BestOf(CampusClasses(Campuses), ResolveCampus(Campuses))
<1>1. CampusList(Campuses) /\ DOMAIN Campuses = DOMAIN host
  BY DEF HostOK, Campuses
<1>2. Classes(CampusClasses(Campuses)) /\ 0 \notin DOMAIN CampusClasses(Campuses)
  BY <1>1, CampusClassesOK
<1>3. None \notin DOMAIN host
  BY DEF HostOK
<1> QED BY <1>1, <1>2, <1>3, ResolveCampusIsBest, OneIsBest

\* Nothing has been found or refused before the first step.
LEMMA InitInv == Init => IInv
<1> SUFFICES ASSUME Init PROVE IInv
  OBVIOUS
<1>1. HostOK
  BY HostsOK DEF Init
<1>2. TypeOK
  <2>1. next \in 1..Len(host) + 1
    BY <1>1 DEF Init, HostOK
  <2> QED BY <2>1 DEF Init, TypeOK, Phases
<1>3. SearchInv
  BY <1>1 DEF Init, SearchInv, HostOK
<1>4. FlowInv /\ ChosenInv /\ RefusalJustified
  BY DEF Init, FlowInv, ChosenInv, RefusalJustified
<1> QED BY <1>1, <1>2, <1>3, <1>4 DEF IInv

\* At the end of the search the campuses of the pairs are those in which the
\* query names one building, as far as their lists arrived.
LEMMA SearchedAll ==
    ASSUME HostOK, SearchInv, next \notin DOMAIN host, next \in 1..Len(host) + 1
    PROVE  /\ Determined \ skipped = {p[1] : p \in pairs}
           /\ OnlyOne(pairs) <=> OnlyOne(Determined \ skipped)
<1>1. \A c \in DOMAIN host : c < next
  BY DEF HostOK
<1>2. pairs = {p \in (DOMAIN host) \X Nat : p[1] \notin skipped /\ p[2] = Resolved(p[1])}
  BY <1>1 DEF SearchInv
<1>3. Determined \subseteq DOMAIN host
  BY DEF Determined
<1>4. \A c \in DOMAIN host : c \in Determined <=> Resolved(c) \in Nat
  BY ResolvedIsMeant
<1>5. ASSUME NEW c \in Determined \ skipped PROVE <<c, Resolved(c)>> \in pairs
  BY <1>2, <1>3, <1>4
<1>6. ASSUME NEW p \in pairs PROVE p[1] \in Determined \ skipped /\ p = <<p[1], Resolved(p[1])>>
  BY <1>2, <1>4
<1>7. Determined \ skipped = {p[1] : p \in pairs}
  BY <1>5, <1>6
<1>8. ASSUME OnlyOne(pairs) PROVE OnlyOne(Determined \ skipped)
  <2>1. PICK p \in pairs : pairs = {p}
    BY <1>8 DEF OnlyOne
  <2>2. Determined \ skipped = {p[1]}
    BY <2>1, <1>5, <1>6
  <2> QED BY <2>2 DEF OnlyOne
<1>9. ASSUME OnlyOne(Determined \ skipped) PROVE OnlyOne(pairs)
  <2>1. PICK c \in Determined \ skipped : Determined \ skipped = {c}
    BY <1>9 DEF OnlyOne
  <2>2. <<c, Resolved(c)>> \in pairs
    BY <1>5
  <2>3. ASSUME NEW p \in pairs PROVE p = <<c, Resolved(c)>>
    BY <1>6, <2>1
  <2> QED BY <2>2, <2>3 DEF OnlyOne
<1> QED BY <1>7, <1>8, <1>9

-----------------------------------------------------------------------------
(* The steps                                                               *)

USE DEF Goto, Return, Fails, Answered, query

\* What a step that leaves the search alone does not disturb.
Quiet == UNCHANGED <<host, named, valid, next, pairs, skipped>>

LEMMA QuietKeeps ==
    ASSUME IInv, Quiet
    PROVE  /\ HostOK' /\ SearchInv'
           /\ \A c : Resolved(c)' = Resolved(c)
           /\ ResolveCampus(Campuses)' = ResolveCampus(Campuses)
           /\ Determined' = Determined
BY DEF IInv, Quiet, HostOK, SearchInv, Campuses, Resolved, Determined, Meant

LEMMA ValidateInv == IInv /\ Validate => IInv'
<1> SUFFICES ASSUME IInv, Validate PROVE IInv'
  OBVIOUS
<1>1. Quiet
  BY DEF Validate, Quiet
<1> QED BY <1>1, QuietKeeps DEF IInv, Validate, TypeOK, Phases, FlowInv, ChosenInv, RefusalJustified

LEMMA FetchCampusesInv == IInv /\ FetchCampuses => IInv'
<1> SUFFICES ASSUME IInv, FetchCampuses PROVE IInv'
  OBVIOUS
<1>1. Quiet
  BY DEF FetchCampuses, Quiet
<1> QED BY <1>1, QuietKeeps DEF IInv, FetchCampuses, TypeOK, Phases, FlowInv, ChosenInv, RefusalJustified

LEMMA ChooseCampusInv == IInv /\ ChooseCampus => IInv'
<1> SUFFICES ASSUME IInv, ChooseCampus PROVE IInv'
  OBVIOUS
<1>1. Quiet
  BY DEF ChooseCampus, Quiet
<1>2. campus' \in DOMAIN host \cup {None} /\ campus' = ResolveCampus(Campuses)
  BY CampusIsMeant DEF ChooseCampus, IInv
<1>3. TypeOK' /\ FlowInv' /\ ChosenInv'
  BY <1>1, <1>2, QuietKeeps DEF IInv, ChooseCampus, TypeOK, Phases, FlowInv, ChosenInv
<1>4. RefusalJustified'
  <2>1. named' /\ (pc' = "returned" => ResolveCampus(Campuses)' = None)
    BY <1>1, <1>2, QuietKeeps DEF ChooseCampus, IInv, FlowInv
  <2>2. outcome' = "invalid_argument" => pc' = "returned"
    BY DEF ChooseCampus, IInv, FlowInv
  <2>3. HostOK'
    BY <1>1, QuietKeeps
  <2>4. \A c : BestOf(CampusClasses(Campuses), c)' => ResolveCampus(Campuses)' # None
    BY <2>3, CampusIsMeant, <1>1 DEF IInv, Quiet, Campuses
  <2> QED BY <2>1, <2>2, <2>4 DEF RefusalJustified
<1> QED BY <1>1, <1>3, <1>4, QuietKeeps DEF IInv

LEMMA FetchBuildingsInv == IInv /\ FetchBuildings => IInv'
<1> SUFFICES ASSUME IInv, FetchBuildings PROVE IInv'
  OBVIOUS
<1>1. Quiet /\ campus' = campus /\ named /\ campus # None /\ campus \in DOMAIN host
  BY DEF FetchBuildings, Quiet, IInv, FlowInv, TypeOK
<1>2. Found = Resolved(campus)
  BY DEF Found, Resolved
<1>3. /\ Resolved(campus) \in Nat \cup {None}
      /\ Resolved(campus) # None <=> campus \in Determined
  BY <1>1, ResolvedIsMeant DEF IInv
<1>4. campus \in Nat
  BY <1>1 DEF IInv, HostOK
<1>5. TypeOK'
  BY <1>1, <1>2, <1>3, <1>4 DEF IInv, FetchBuildings, TypeOK, Phases, Places
<1>6. FlowInv'
  BY <1>1, QuietKeeps DEF IInv, FetchBuildings, FlowInv, Quiet
<1>7. ChosenInv'
  BY <1>1, <1>2, <1>3, <1>4, QuietKeeps DEF IInv, FetchBuildings, ChosenInv, FlowInv, Quiet
<1>8. RefusalJustified'
  <2> SUFFICES ASSUME outcome' = "invalid_argument" PROVE RefusalJustified'
    BY DEF RefusalJustified
  <2>1. Resolved(campus) = None
    BY <1>2 DEF FetchBuildings, IInv, FlowInv
  <2>2. \A c : BestOf(CampusClasses(Campuses), c) => c = campus
    BY <1>1, CampusIsMeant DEF IInv, FlowInv
  <2>3. Campuses' = Campuses /\ DOMAIN host' = DOMAIN host /\ named'
    BY <1>1 DEF Campuses, Quiet
  <2>4. campus \notin Determined'
    BY <1>1, <1>3, <2>1, QuietKeeps
  <2> QED BY <2>2, <2>3, <2>4 DEF RefusalJustified
<1> QED BY <1>1, <1>5, <1>6, <1>7, <1>8, QuietKeeps DEF IInv

LEMMA SearchStepInv == IInv /\ Search => IInv'
<1> SUFFICES ASSUME IInv, Search PROVE IInv'
  OBVIOUS
<1>1. /\ UNCHANGED <<host, named, valid, pc, campus, chosen, outcome, cancelled>>
      /\ pc = "search" /\ next \in DOMAIN host /\ next' = next + 1
  BY DEF Search
<1>2. HostOK' /\ \A c : Resolved(c)' = Resolved(c)
  BY <1>1 DEF IInv, HostOK, Campuses, Resolved
<1>3. next \in Nat /\ Len(host) \in Nat /\ DOMAIN host = 1..Len(host)
  BY <1>1 DEF IInv, HostOK
<1>4. Resolved(next) \in Nat \cup {None}
  BY <1>1, ResolvedIsMeant DEF IInv
<1>5. FoundIn(next) = {p \in (DOMAIN host) \X Nat : p[1] = next /\ p[2] = Resolved(next)}
  BY <1>1, <1>4 DEF FoundIn, Resolved
<1>6. SearchInv'
  <2>1. skipped' \subseteq 1..next' - 1
    <3>1. skipped' \subseteq skipped \cup {next}
      BY DEF Search
    <3>2. skipped \subseteq 1..next - 1
      BY DEF IInv, SearchInv
    <3> QED BY <1>1, <1>3, <3>1, <3>2
  <2>2. CASE pairs' = pairs \cup FoundIn(next) /\ skipped' = skipped
    <3>1. next \notin skipped
      BY <1>3 DEF IInv, SearchInv
    <3>2. \A c \in DOMAIN host : c < next' <=> c < next \/ c = next
      BY <1>1, <1>3
    <3> QED BY <1>1, <1>2, <1>5, <2>1, <2>2, <3>1, <3>2 DEF IInv, SearchInv
  <2>3. CASE pairs' = pairs /\ skipped' = skipped \cup {next}
    <3>1. \A c \in DOMAIN host : c < next' /\ c \notin skipped' <=> c < next /\ c \notin skipped
      BY <1>1, <1>3, <2>3 
    <3> QED BY <1>1, <1>2, <2>1, <2>3, <3>1 DEF IInv, SearchInv
  <2> QED BY <2>2, <2>3 DEF Search
<1>7. TypeOK'
  <2>1. pairs' \subseteq Places
    BY <1>3, <1>5 DEF IInv, TypeOK, Places, Search
  <2>2. skipped' \subseteq DOMAIN host /\ next' \in 1..Len(host) + 1
    BY <1>1, <1>3 DEF IInv, TypeOK, Search
  <2> QED BY <1>1, <2>1, <2>2 DEF IInv, TypeOK
<1>8. FlowInv' /\ ChosenInv' /\ RefusalJustified'
  BY <1>1 DEF IInv, FlowInv, ChosenInv, RefusalJustified, Campuses
<1> QED BY <1>2, <1>6, <1>7, <1>8 DEF IInv

LEMMA DecideInv == IInv /\ Decide => IInv'
<1> SUFFICES ASSUME IInv, Decide PROVE IInv'
  OBVIOUS
<1>1. Quiet /\ campus' = campus /\ cancelled' = cancelled /\ ~named /\ pc = "search"
  BY DEF Decide, Quiet, IInv, FlowInv
<1>2. next \notin DOMAIN host /\ next \in 1..Len(host) + 1 /\ Len(host) \in Nat
      /\ DOMAIN host = 1..Len(host)
  BY DEF Decide, IInv, TypeOK, HostOK
<1>3. OnlyOne(pairs) <=> OnlyOne(Determined \ skipped)
  BY <1>2, SearchedAll DEF IInv
<1>4. TypeOK' /\ FlowInv'
  BY <1>1, QuietKeeps DEF Decide, IInv, TypeOK, Phases, FlowInv, Quiet
<1>5. ChosenInv'
  <2> SUFFICES ASSUME pc' = "rooms" \/ outcome' = "ok" PROVE ChosenInv'
    BY DEF ChosenInv
  <2>1. OnlyOne(pairs) /\ chosen' \in pairs
    BY DEF Decide, IInv, FlowInv
  <2>2. pairs = {chosen'}
    BY <2>1 DEF OnlyOne
  <2>3. /\ chosen' \in (DOMAIN host) \X Nat
        /\ chosen'[2] = Resolved(chosen'[1])
    BY <2>1 DEF IInv, SearchInv
  <2>4. next = Len(host) + 1
    BY <1>2
  <2> QED BY <1>1, <1>2, <2>2, <2>3, <2>4, QuietKeeps DEF ChosenInv, Quiet
<1>6. RefusalJustified'
  BY <1>1, <1>3, QuietKeeps DEF Decide, RefusalJustified, IInv, FlowInv, Quiet
<1> QED BY <1>1, <1>4, <1>5, <1>6, QuietKeeps DEF IInv

LEMMA FetchRoomsInv == IInv /\ FetchRooms => IInv'
<1> SUFFICES ASSUME IInv, FetchRooms PROVE IInv'
  OBVIOUS
<1>1. Quiet
  BY DEF FetchRooms, Quiet
<1> QED BY <1>1, QuietKeeps DEF IInv, FetchRooms, TypeOK, Phases, FlowInv, ChosenInv, RefusalJustified

\* The context's end and a stutter disturb nothing.
LEMMA IdleInv == IInv /\ (Cancel \/ UNCHANGED vars) => IInv'
<1> SUFFICES ASSUME IInv, Cancel \/ UNCHANGED vars PROVE IInv'
  OBVIOUS
<1>1. Quiet /\ UNCHANGED <<pc, campus, chosen, outcome>> /\ cancelled' \in BOOLEAN
  BY DEF Cancel, Quiet, vars, IInv, TypeOK
<1>2. TypeOK' /\ FlowInv' /\ ChosenInv'
  BY <1>1, QuietKeeps DEF IInv, TypeOK, FlowInv, ChosenInv, Quiet
<1>3. RefusalJustified'
  BY <1>1, QuietKeeps DEF IInv, RefusalJustified, Quiet, Campuses
<1> QED BY <1>1, <1>2, <1>3, QuietKeeps DEF IInv

LEMMA StepInv == IInv /\ [Next]_vars => IInv'
BY ValidateInv, FetchCampusesInv, ChooseCampusInv, FetchBuildingsInv, SearchStepInv, DecideInv,
   FetchRoomsInv, IdleInv DEF Next, Step, Returned

-----------------------------------------------------------------------------
(* Theorems                                                                *)

THEOREM RoomInvariant == Spec => []IInv
BY InitInv, StepInv, PTL DEF Spec

\* Types, and the search stays within the host's campuses.
THEOREM TypeCorrect == Spec => []TypeOK
BY RoomInvariant, PTL DEF IInv

\* The rooms answered are those of the building the query means.
THEOREM AnswerIsMeantHolds == Spec => []AnswerIsMeant
<1>1. IInv => AnswerIsMeant
  <2> SUFFICES ASSUME IInv, outcome = "ok" PROVE AnswerIsMeant
    BY DEF AnswerIsMeant
  <2>1. Meant(chosen[1], chosen[2])
    BY ResolvedIsMeant DEF IInv, ChosenInv
  <2>2. named => BestOf(CampusClasses(Campuses), chosen[1])
    BY CampusIsMeant DEF IInv, ChosenInv, FlowInv
  <2> QED BY <2>1, <2>2 DEF AnswerIsMeant
<1> QED BY <1>1, RoomInvariant, PTL

\* Without a campus the answer is the only one among the lists that arrived.
THEOREM AnswerIsOnlyOneHolds == Spec => []AnswerIsOnlyOne
<1>1. IInv => AnswerIsOnlyOne
  <2> SUFFICES ASSUME IInv, outcome = "ok", ~named PROVE AnswerIsOnlyOne
    BY DEF AnswerIsOnlyOne
  <2>1. next = Len(host) + 1 /\ pairs = {chosen}
    BY DEF IInv, ChosenInv
  <2>2. next \notin DOMAIN host /\ next \in 1..Len(host) + 1
    BY <2>1 DEF IInv, HostOK, TypeOK
  <2>3. Determined \ skipped = {p[1] : p \in pairs}
    BY <2>2, SearchedAll DEF IInv
  <2> QED BY <2>1, <2>3 DEF AnswerIsOnlyOne
<1> QED BY <1>1, RoomInvariant, PTL

\* A wrong argument is blamed only when one is wrong or a list is missing.
THEOREM RefusalJustifiedHolds == Spec => []RefusalJustified
BY RoomInvariant, PTL DEF IInv

-----------------------------------------------------------------------------
(* A query ends: the part of Returns that needs no fairness                *)

\* An upper bound on the steps the query has still to take.
StepsLeft ==
    [returned |-> 0, rooms |-> 1, buildings |-> 2, campus |-> 3,
     search |-> Len(host) + 3 - next, campuses |-> Len(host) + 4,
     validate |-> Len(host) + 5][pc]

\* Every step brings the query nearer to its answer, also past campuses that
\* cannot be fetched, and a cancellation does not set it back.
QueryAdvances ==
    [][/\ StepsLeft \in 0..Len(host) + 5
       /\ Step => StepsLeft' < StepsLeft
       /\ StepsLeft' <= StepsLeft]_vars

\* A query is over after at most as many steps as the host has campuses, and
\* five, whatever fails on the way.
THEOREM QueryAdvancesHolds == Spec => QueryAdvances
<1> DEFINE Progress == /\ StepsLeft \in 0..Len(host) + 5
                       /\ Step => StepsLeft' < StepsLeft
                       /\ StepsLeft' <= StepsLeft
<1>1. ASSUME IInv, [Next]_vars
      PROVE  Progress
  <2>1. /\ Len(host) \in Nat /\ DOMAIN host = 1..Len(host)
        /\ next \in 1..Len(host) + 1
        /\ pc \in Phases
    BY <1>1 DEF IInv, TypeOK, HostOK
  <2>2. StepsLeft \in 0..Len(host) + 5
    BY <2>1 DEF StepsLeft, Phases
  <2> USE <2>1, <2>2 DEF StepsLeft
  <2>3. CASE Validate
    BY <2>3 DEF Validate
  <2>4. CASE FetchCampuses
    BY <2>4 DEF FetchCampuses
  <2>5. CASE ChooseCampus
    BY <2>5 DEF ChooseCampus
  <2>6. CASE FetchBuildings
    BY <2>6 DEF FetchBuildings
  <2>7. CASE Search
    BY <2>7 DEF Search
  <2>8. CASE Decide
    <3>1. next = Len(host) + 1
      BY <2>8 DEF Decide
    <3> QED BY <2>8, <3>1 DEF Decide
  <2>9. CASE FetchRooms
    BY <2>9 DEF FetchRooms
  <2>10. CASE ~Step /\ (Cancel \/ UNCHANGED vars)
    <3>1. pc' = pc /\ next' = next /\ host' = host
      BY <2>10 DEF Cancel, vars
    <3>2. StepsLeft' = StepsLeft
      BY <3>1
    <3> QED BY <2>10, <3>2
  <2> QED
    BY <1>1, <2>3, <2>4, <2>5, <2>6, <2>7, <2>8, <2>9, <2>10 DEF Next, Step, Returned
<1>2. IInv /\ [Next]_vars => [Progress]_vars
  BY <1>1
<1> QED BY <1>2, RoomInvariant, PTL DEF Spec, QueryAdvances

=============================================================================
