---------------------------- MODULE MCRoomQuery ----------------------------
(* Instances of RoomQuery for TLC.                                         *)
EXTENDS RoomQuery

MCCampusKinds == {{}, {"id"}, {"related"}, {"exact", "related"}}

\* A query like "45": it may be an ID, a name, or part of one.
Plain == {{}, {"id"}, {"contains", "mention"}, {"contains", "clean"},
          {"contains", "mention", "prefix"},
          {"contains", "mention", "prefix", "clean", "exact"}}

\* A query that is an alias, like the one that means "45".
Aliased == {{}, {"alias"}, {"alias", "mention", "contains"}, {"mention", "contains"},
            {"alias", "mention", "contains", "prefix"},
            {"contains", "mention", "prefix", "clean", "exact"}}

MCQueries == {Plain, Aliased}
=============================================================================
