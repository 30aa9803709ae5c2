-------------------------- MODULE GrantsFileProofs --------------------------
(***************************************************************************)
(* Proofs about GrantsFile, for documents of any length, any set of them,  *)
(* any number of inodes and any number of edits during a call.             *)
(*                                                                         *)
(* The argument: what the path leads to, and what is open, is kept in the  *)
(* history by whatever edits it, and what has been read is a beginning of  *)
(* the open file's document unless that was written to meanwhile.          *)
(***************************************************************************)
EXTENDS GrantsFile, TLAPS

USE PartsAssumption, DocsAssumption, ValuesAssumption
    DEF PartsAssumption, DocsAssumption, ValuesAssumption

\* What has been read at a place was there in a document of this call.
FromHeld(part, p) == \E d \in held : part = d[p]

\* The point a call has reached.
FlowInv ==
    /\ pc \in {"idle", "open"} => fd = None
    /\ pc \in {"fstat", "read"} => fd # None
    /\ pc # "read" => got = << >>
    /\ pc = "read" => fd = seen
    /\ pc # "idle" => result = None

\* What is named, what is open and what is private is in the history.
HistoryInv ==
    pc # "idle" =>
        /\ \A i \in Named : disk[i].doc \in during
        /\ \A i \in Live : disk[i].doc \in held
        /\ \A i \in Live : disk[i].private => i \in trusted
        /\ fd # None => disk[fd].doc \in during \/ torn

\* What has been read.
ReadInv ==
    pc = "read" =>
        /\ seen \in trusted
        /\ \A n \in 1..Len(got) : FromHeld(got[n], n)
        /\ torn \/ \A n \in 1..Len(got) : got[n] = disk[fd].doc[n]

IInv == TypeOK /\ FlowInv /\ HistoryInv /\ ReadInv
            /\ WholeUnlessTorn /\ PiecesOffered /\ PrivateWhenRead

-----------------------------------------------------------------------------
(* Lemmas                                                                  *)

\* Every live inode has a file.
LEMMA LiveFiles ==
    ASSUME TypeOK
    PROVE  /\ \A i \in Live : i \in Inodes /\ disk[i] \in Files
                                /\ disk[i].doc \in Docs
                                /\ disk[i].doc \in [1..Parts -> Pieces]
                                /\ disk[i].private \in BOOLEAN
           /\ Live \subseteq Inodes /\ Named \subseteq Live
           /\ fd # None => fd \in Live
BY DEF TypeOK, Live, Named, Held, Files, Contents

\* The properties only speak of the result and the history.
ResultInv == WholeUnlessTorn /\ PiecesOffered /\ PrivateWhenRead

LEMMA NoResult ==
    ASSUME result = None
    PROVE  ResultInv
BY DEF ResultInv, WholeUnlessTorn, PiecesOffered, PrivateWhenRead

LEMMA NoResultNext ==
    ASSUME result' = None
    PROVE  ResultInv'
BY DEF ResultInv, WholeUnlessTorn, PiecesOffered, PrivateWhenRead

\* A return without a document leaves nothing to say.
LEMMA ReturnNone ==
    ASSUME IInv, Return(None), path' = path, seen' \in Inodes \cup {None}, edits' \in 0..MaxEdits,
           during' \subseteq Docs, held' \subseteq Docs, trusted' \subseteq Inodes,
           torn' \in BOOLEAN
    PROVE  IInv'
<1>1. TypeOK'
  BY DEF IInv, TypeOK, Return, Swept, Live, Named, Held
<1>2. FlowInv' /\ HistoryInv' /\ ReadInv'
  BY DEF Return, FlowInv, HistoryInv, ReadInv
<1>3. result' = None
  BY DEF Return
<1> QED BY <1>1, <1>2, <1>3, NoResultNext DEF IInv, ResultInv

LEMMA InitInv == Init => IInv
<1> SUFFICES ASSUME Init PROVE IInv
  OBVIOUS
<1>1. TypeOK
  <2>1. /\ disk \in [Inodes -> Files \cup {None}]
        /\ path \in Names \cup {None}
        /\ Named = {i \in Inodes : disk[i] # None}
    <3>1. CASE disk = [j \in Inodes |-> None] /\ path = None
      BY <3>1 DEF Named
    <3>2. CASE \E i \in Inodes, f \in Files, link \in BOOLEAN :
                 /\ disk = [j \in Inodes |-> IF j = i THEN f ELSE None]
                 /\ path = [inode |-> i, link |-> link]
      <4>0. PICK i \in Inodes, f \in Files, link \in BOOLEAN :
                 /\ disk = [j \in Inodes |-> IF j = i THEN f ELSE None]
                 /\ path = [inode |-> i, link |-> link]
        BY <3>2
      <4>1. path \in Names /\ path # None /\ path.inode = i
        BY <4>0 DEF Names
      <4>2. f # None
        OBVIOUS
      <4> QED BY <4>0, <4>1, <4>2 DEF Named
    <3>3. \/ \E i \in Inodes, f \in Files, link \in BOOLEAN :
                 /\ disk = [j \in Inodes |-> IF j = i THEN f ELSE None]
                 /\ path = [inode |-> i, link |-> link]
          \/ disk = [j \in Inodes |-> None] /\ path = None
      BY Zenon DEF Init
    <3> QED BY <3>1, <3>2, <3>3
  <2>2. Live = Named
    BY DEF Init, Live, Held
  <2>3. got \in Seq(Pieces) /\ Len(got) <= Parts
    BY DEF Init
  <2>4. /\ pc = "idle" /\ seen = None /\ fd = None /\ result = None /\ edits = 0
        /\ during = {} /\ held = {} /\ trusted = {} /\ torn = FALSE
    BY DEF Init
  <2>5. Live = {i \in Inodes : disk[i] # None}
    BY <2>1, <2>2
  <2>6. edits \in 0..MaxEdits
    BY <2>4
  <2>9. torn \in BOOLEAN
    BY <2>4, Zenon
  <2>7. during \subseteq Docs /\ held \subseteq Docs /\ trusted \subseteq Inodes
    BY <2>4
  <2>8. pc \in {"idle", "open", "fstat", "read"} /\ seen \in Inodes \cup {None}
        /\ fd \in Inodes \cup {None} /\ result \in Docs \cup {None}
    BY <2>4
  <2> QED BY <2>1, <2>3, <2>5, <2>6, <2>7, <2>8, <2>9 DEF TypeOK
<1>2. FlowInv /\ HistoryInv /\ ReadInv
  BY DEF Init, FlowInv, HistoryInv, ReadInv
<1>3. ResultInv
  BY NoResult DEF Init
<1> QED BY <1>1, <1>2, <1>3 DEF IInv, ResultInv

-----------------------------------------------------------------------------
(* The reader's steps                                                      *)

\* What Begin puts into the history.
LEMMA BeginHistory ==
    ASSUME TypeOK, Begin
    PROVE  /\ during' \subseteq Docs /\ held' \subseteq Docs /\ trusted' \subseteq Inodes
           /\ torn' \in BOOLEAN /\ edits' \in 0..MaxEdits
           /\ \A i \in Named :
                /\ disk[i].doc \in during'
                /\ disk[i].private => i \in trusted'
                /\ disk[i].doc \in held'
<1>1. \A i \in Named : i \in Inodes /\ disk[i].doc \in Docs
  BY LiveFiles
<1>2. during' = {disk[i].doc : i \in Named} /\ held' = during'
  BY DEF Begin
<1>3. held' \subseteq Docs
  BY <1>1, <1>2
<1>4. \A i \in Named : disk[i].doc \in held'
  BY <1>2
<1>5. trusted' \subseteq Inodes /\ \A i \in Named : disk[i].private => i \in trusted'
  BY <1>1 DEF Begin
<1>6. during' \subseteq Docs /\ \A i \in Named : disk[i].doc \in during'
  BY <1>1, <1>2
<1>7. edits' \in 0..MaxEdits
  BY DEF Begin
<1>8. torn' \in BOOLEAN
  BY Zenon DEF Begin
<1> QED BY <1>3, <1>4, <1>5, <1>6, <1>7, <1>8

LEMMA LstatInv == IInv /\ Lstat => IInv'
<1> SUFFICES ASSUME IInv, Lstat PROVE IInv'
  OBVIOUS
<1> USE DEF IInv
<1>0. pc = "idle" /\ Begin /\ path' = path
  BY DEF Lstat
<1>1. CASE Return(None) /\ UNCHANGED seen
  BY <1>0, <1>1, BeginHistory, ReturnNone DEF TypeOK
<1>2. CASE /\ path # None /\ ~path.link /\ disk[path.inode].private
           /\ pc' = "open" /\ seen' = path.inode /\ result' = None
           /\ UNCHANGED <<fd, got, disk>>
  <2>1. path.inode \in Inodes
    BY <1>2, LiveFiles DEF Named
  <2>2. Live' = Live /\ Named' = Named /\ fd = None /\ Live = Named
    BY <1>0, <1>2 DEF Live, Named, Held, FlowInv
  <2>3. TypeOK'
    BY <1>0, <1>2, <2>1, <2>2, BeginHistory DEF TypeOK
  <2>4. FlowInv' /\ ReadInv'
    BY <1>0, <1>2 DEF FlowInv, ReadInv
  <2>5. HistoryInv'
    <3>1. \A i \in Named : disk'[i].doc \in during' /\ (disk'[i].private => i \in trusted')
      BY <1>0, <1>2, BeginHistory
    <3>2. \A i \in Named : disk'[i].doc \in held'
      BY <1>0, <1>2, BeginHistory
    <3>3. fd' = None
      BY <1>2, <2>2
    <3> QED BY <2>2, <3>1, <3>2, <3>3, <1>2 DEF HistoryInv
  <2> QED BY <1>2, <2>3, <2>4, <2>5, NoResultNext DEF ResultInv
<1> QED BY <1>1, <1>2 DEF Lstat

LEMMA OpenInv == IInv /\ Open => IInv'
<1> SUFFICES ASSUME IInv, Open PROVE IInv'
  OBVIOUS
<1> USE DEF IInv
<1>0. pc = "open" /\ UNCHANGED <<path, seen, edits, history>>
  BY DEF Open
<1>1. CASE Return(None)
  BY <1>0, <1>1, ReturnNone DEF TypeOK, history
<1>2. CASE /\ path # None /\ pc' = "fstat" /\ fd' = path.inode
           /\ UNCHANGED <<got, result, disk>>
  <2>1. path.inode \in Named /\ path.inode \in Inodes /\ path.inode # None
    BY <1>2, LiveFiles DEF Named
  <2>2. Live' = Live /\ Named' = Named /\ fd = None
    BY <1>0, <1>2, <2>1 DEF Live, Named, Held, FlowInv
  <2>3. TypeOK'
    BY <1>0, <1>2, <2>1, <2>2 DEF TypeOK, history
  <2>4. FlowInv' /\ ReadInv' /\ result' = None
    BY <1>0, <1>2, <2>1 DEF FlowInv, ReadInv
  <2>5. HistoryInv'
    BY <1>0, <1>2, <2>1, <2>2 DEF HistoryInv, history
  <2> QED BY <2>3, <2>4, <2>5, NoResultNext DEF ResultInv
<1> QED BY <1>1, <1>2 DEF Open

LEMMA FstatInv == IInv /\ Fstat => IInv'
<1> SUFFICES ASSUME IInv, Fstat PROVE IInv'
  OBVIOUS
<1> USE DEF IInv
<1>0. pc = "fstat" /\ UNCHANGED <<path, seen, edits, history>>
  BY DEF Fstat
<1>1. CASE Return(None)
  BY <1>0, <1>1, ReturnNone DEF TypeOK, history
<1>2. CASE /\ fd = seen /\ disk[fd].private /\ pc' = "read"
           /\ UNCHANGED <<fd, got, result, disk>>
  <2>1. Live' = Live /\ Named' = Named /\ fd # None /\ fd \in Live /\ got = << >>
    BY <1>0, <1>2, LiveFiles DEF Live, Named, Held, FlowInv
  <2>2. TypeOK'
    BY <1>0, <1>2, <2>1 DEF TypeOK, history
  <2>3. FlowInv' /\ result' = None
    BY <1>0, <1>2, <2>1 DEF FlowInv
  <2>4. HistoryInv'
    BY <1>0, <1>2, <2>1 DEF HistoryInv, history
  <2>5. ReadInv'
    BY <1>0, <1>2, <2>1 DEF ReadInv, HistoryInv, history
  <2> QED BY <2>2, <2>3, <2>4, <2>5, NoResultNext DEF ResultInv
<1> QED BY <1>1, <1>2 DEF Fstat

LEMMA ReadStepInv == IInv /\ Read => IInv'
<1> SUFFICES ASSUME IInv, Read PROVE IInv'
  OBVIOUS
<1> USE DEF IInv
<1>0. /\ pc = "read" /\ Len(got) < Parts
      /\ got' = Append(got, disk[fd].doc[Len(got) + 1])
      /\ UNCHANGED <<disk, path, pc, seen, fd, result, edits, during, held, trusted, torn>>
  BY DEF Read, history
<1> DEFINE read == disk[fd].doc[Len(got) + 1]
<1>1. fd \in Live /\ disk[fd].doc \in [1..Parts -> Pieces] /\ fd # None
  BY <1>0, LiveFiles DEF FlowInv
<1>2. got \in Seq(Pieces) /\ Len(got) \in Nat /\ Len(got) + 1 \in 1..Parts
  BY <1>0 DEF TypeOK
<1>3. read \in Pieces /\ FromHeld(read, Len(got) + 1)
  BY <1>0, <1>1, <1>2 DEF HistoryInv, FromHeld
<1>4. /\ got' \in Seq(Pieces) /\ Len(got') = Len(got) + 1
      /\ got'[Len(got) + 1] = read
      /\ \A n \in 1..Len(got) : got'[n] = got[n]
  BY <1>0, <1>2, <1>3
<1> HIDE DEF read
<1>5. Live' = Live /\ Named' = Named
  BY <1>0 DEF Live, Named, Held
<1>6. TypeOK'
  BY <1>0, <1>2, <1>4, <1>5 DEF TypeOK
<1>7. FlowInv' /\ HistoryInv'
  BY <1>0, <1>5 DEF FlowInv, HistoryInv
<1>8. ReadInv'
  <2>1. \A n \in 1..Len(got') : n \in 1..Len(got) \/ n = Len(got) + 1
    BY <1>2, <1>4
  <2>2. \A n \in 1..Len(got') : FromHeld(got'[n], n)
    BY <1>0, <1>3, <1>4, <2>1 DEF ReadInv
  <2>3. ~torn => \A n \in 1..Len(got') : got'[n] = disk[fd].doc[n]
    BY <1>0, <1>4, <2>1 DEF ReadInv, read
  <2> QED BY <1>0, <2>2, <2>3 DEF ReadInv, FromHeld
<1>9. result' = None
  BY <1>0 DEF FlowInv
<1> QED BY <1>6, <1>7, <1>8, <1>9, NoResultNext DEF ResultInv

LEMMA ValidateInv == IInv /\ Validate => IInv'
<1> SUFFICES ASSUME IInv, Validate PROVE IInv'
  OBVIOUS
<1> USE DEF IInv
<1>0. pc = "read" /\ UNCHANGED <<path, seen, edits, history>>
  BY DEF Validate
<1>1. CASE Return(None)
  BY <1>0, <1>1, ReturnNone DEF TypeOK, history
<1>2. CASE Len(got) = Parts /\ Return(got)
  <2>1. got \in [1..Parts -> Pieces]
    BY <1>2 DEF TypeOK
  <2>2. fd = seen /\ fd \in Live /\ disk[fd].doc \in [1..Parts -> Pieces]
    BY <1>0, LiveFiles DEF FlowInv
  <2>3. got \in during \/ torn
    <3>1. torn \/ got = disk[fd].doc
      BY <1>0, <1>2, <2>1, <2>2 DEF ReadInv
    <3> QED BY <1>0, <3>1 DEF HistoryInv, FlowInv
  <2>4. \A p \in 1..Parts : \E d \in held : got[p] = d[p]
    BY <1>0, <1>2 DEF ReadInv, FromHeld
  <2>5. got # None /\ seen \in trusted
    BY <1>0, <2>1 DEF ReadInv, Contents
  <2>6. result' = got /\ pc' = "idle" /\ fd' = None /\ got' = << >> /\ disk' = Swept(disk, Named)
    BY <1>2 DEF Return
  <2>7. TypeOK'
    BY <1>0, <2>1, <2>6 DEF TypeOK, Swept, Live, Named, Held, history, Contents
  <2>8. FlowInv' /\ HistoryInv' /\ ReadInv'
    BY <2>6 DEF FlowInv, HistoryInv, ReadInv
  <2>9. WholeUnlessTorn' /\ PrivateWhenRead'
    BY <1>0, <2>3, <2>5, <2>6 DEF WholeUnlessTorn, PrivateWhenRead, history
  <2>10. PiecesOffered'
    BY <1>0, <2>4, <2>6 DEF PiecesOffered, history
  <2> QED BY <2>7, <2>8, <2>9, <2>10
<1> QED BY <1>1, <1>2 DEF Validate

-----------------------------------------------------------------------------
(* The operator's steps                                                    *)

\* An edit between calls leaves the history, one during a call the result,
\* empty.
LEMMA EditKeepsResult ==
    ASSUME IInv, UNCHANGED reader, pc = "idle" => UNCHANGED history
    PROVE  ResultInv'
<1> USE DEF IInv
<1>1. CASE pc = "idle"
  BY <1>1 DEF reader, history, ResultInv, WholeUnlessTorn, PiecesOffered, PrivateWhenRead
<1>2. CASE pc # "idle"
  BY <1>2, NoResultNext DEF reader, FlowInv
<1> QED BY <1>1, <1>2

\* What an edit has to leave true of the history for the rest to follow.
LEMMA EditInv ==
    ASSUME IInv, UNCHANGED reader, TypeOK', HistoryInv',
           pc = "idle" => UNCHANGED history,
           pc = "read" => trusted \cap Held(fd) \subseteq trusted' /\ held \subseteq held',
           pc = "read" => torn' \/ (~torn /\ disk'[fd].doc = disk[fd].doc)
    PROVE  IInv'
<1> USE DEF IInv
<1>1. FlowInv'
  BY DEF FlowInv, reader
<1>2. ReadInv'
  BY DEF ReadInv, FlowInv, reader, Held, FromHeld
<1>3. ResultInv'
  BY EditKeepsResult
<1> QED BY <1>1, <1>2, <1>3 DEF ResultInv

\* What Observe adds.
LEMMA Observed ==
    ASSUME IInv, Observe, TypeOK', pc' = pc
    PROVE  /\ pc = "idle" => UNCHANGED <<during, held>>
           /\ pc # "idle" =>
                /\ \A i \in Named' : disk'[i].doc \in during'
                /\ \A i \in Live' : disk'[i].doc \in held'
                /\ during \subseteq during' /\ held \subseteq held'
<1>1. CASE pc = "idle"
  BY <1>1 DEF Observe
<1>2. CASE pc # "idle"
  <2>1. /\ during' = during \cup {disk'[i].doc : i \in Named'}
        /\ held' = held \cup {disk'[i].doc : i \in Live'}
    BY <1>2 DEF Observe
  <2> QED BY <1>2, <2>1
<1> QED BY <1>1, <1>2

\* The types of what Observe writes.
LEMMA ObservedTypes ==
    ASSUME TypeOK, Observe, \A i \in Named' \cup Live' : disk'[i].doc \in Docs
    PROVE  during' \subseteq Docs /\ held' \subseteq Docs
BY DEF Observe, TypeOK

LEMMA ReplaceInv == IInv /\ Replace => IInv'
<1> SUFFICES ASSUME IInv, Replace PROVE IInv'
  OBVIOUS
<1> USE DEF IInv
<1>0. /\ edits' \in 0..MaxEdits /\ Observe /\ torn' = torn
      /\ pc' = pc /\ seen' = seen /\ fd' = fd /\ got' = got /\ result' = result
  BY DEF Replace, Edit, TypeOK, reader
<1>1. PICK i \in Inodes, f \in Files, link \in BOOLEAN :
         /\ disk[i] = None
         /\ path' = [inode |-> i, link |-> link]
         /\ disk' = [Swept(disk, Held(fd)) EXCEPT ![i] = f]
         /\ trusted' = IF pc = "idle" THEN trusted
                       ELSE (trusted \ {i}) \cup {j \in {i} : f.private}
  BY DEF Replace
<1>2. /\ path' # None /\ path' \in Names /\ path'.inode = i
      /\ disk' = [j \in Inodes |-> IF j = i THEN f ELSE IF j \in Held(fd) THEN disk[j] ELSE None]
  <2>1. path' # None /\ path' \in Names /\ path'.inode = i
    BY <1>1 DEF Names
  <2>2. disk' = [j \in Inodes |-> IF j = i THEN f ELSE IF j \in Held(fd) THEN disk[j] ELSE None]
    BY <1>1 DEF Swept
  <2> QED BY <2>1, <2>2
<1>3. f # None /\ f.doc \in Docs /\ f.private \in BOOLEAN
  BY DEF Files
<1>4. fd # None => fd \in Inodes /\ fd \in Live /\ fd # i /\ disk[fd] # None
                   /\ disk[fd] \in Files /\ disk[fd].doc \in Docs
  BY <1>1, LiveFiles DEF TypeOK, Files
<1>5. Named' = {i} /\ Live' = {i} \cup Held(fd)
  BY <1>0, <1>2 DEF Named, Live, Held
<1>6. disk'[i] = f /\ (fd # None => disk'[fd] = disk[fd])
  BY <1>2, <1>4 DEF Held
<1>7. during' \subseteq Docs /\ held' \subseteq Docs
  BY <1>0, <1>3, <1>4, <1>5, <1>6, ObservedTypes DEF Held
<1>8. TypeOK'
  <2>1. disk' \in [Inodes -> Files \cup {None}]
    BY <1>2, LiveFiles DEF TypeOK
  <2>2. Live' = {j \in Inodes : disk'[j] # None}
    BY <1>2, <1>3, <1>4, <1>5 DEF Held
  <2>3. trusted' \subseteq Inodes
    BY <1>1 DEF TypeOK
  <2> QED BY <1>0, <1>2, <1>7, <2>1, <2>2, <2>3 DEF TypeOK
<1>9. HistoryInv'
  <2> SUFFICES ASSUME pc # "idle" PROVE HistoryInv'
    BY <1>0 DEF HistoryInv
  <2>1. trusted' = (trusted \ {i}) \cup {j \in {i} : f.private}
    BY <1>1
  <2>2. \A j \in Live' : disk'[j].private => j \in trusted'
    BY <1>4, <1>5, <1>6, <2>1 DEF HistoryInv, Held
  <2>3. fd # None => disk'[fd].doc \in during' \/ torn'
    BY <1>0, <1>6, <1>8, Observed DEF HistoryInv
  <2> QED BY <1>0, <1>8, <2>2, <2>3, Observed DEF HistoryInv
<1>10. pc = "idle" => UNCHANGED history
  BY <1>0, <1>1, <1>8, Observed DEF history
<1>11. trusted \cap Held(fd) \subseteq trusted'
  BY <1>1, <1>4 DEF Held
<1>12. pc = "read" => fd # None /\ held \subseteq held'
  BY <1>0, <1>8, Observed DEF FlowInv
<1> QED BY <1>0, <1>6, <1>8, <1>9, <1>10, <1>11, <1>12, EditInv DEF reader

LEMMA MoveAsideInv == IInv /\ MoveAside => IInv'
<1> SUFFICES ASSUME IInv, MoveAside PROVE IInv'
  OBVIOUS
<1> USE DEF IInv
<1>0. /\ edits' \in 0..MaxEdits /\ UNCHANGED <<disk, during, held, trusted, torn>>
      /\ pc' = pc /\ seen' = seen /\ fd' = fd /\ got' = got /\ result' = result
  BY DEF MoveAside, Edit, TypeOK, reader, history
<1>1. path \in Names /\ path # None /\ path' = [path EXCEPT !.link = TRUE]
  BY DEF MoveAside, TypeOK
<1>2. path' \in Names /\ path' # None /\ path'.inode = path.inode
  BY <1>1 DEF Names
<1>3. Named' = Named /\ Live' = Live
  BY <1>0, <1>1, <1>2 DEF Named, Live, Held
<1>4. TypeOK'
  BY <1>0, <1>2, <1>3 DEF TypeOK
<1>5. HistoryInv'
  BY <1>0, <1>3 DEF HistoryInv
<1> QED BY <1>0, <1>4, <1>5, EditInv DEF reader, history

LEMMA RemoveInv == IInv /\ Remove => IInv'
<1> SUFFICES ASSUME IInv, Remove PROVE IInv'
  OBVIOUS
<1> USE DEF IInv
<1>0. /\ edits' \in 0..MaxEdits /\ UNCHANGED <<during, held, trusted, torn>>
      /\ pc' = pc /\ seen' = seen /\ fd' = fd /\ got' = got /\ result' = result
      /\ path' = None
      /\ disk' = [j \in Inodes |-> IF j \in Held(fd) THEN disk[j] ELSE None]
  BY DEF Remove, Edit, TypeOK, reader, history, Swept
<1>1. fd # None => fd \in Inodes /\ fd \in Live /\ disk[fd] # None
  BY LiveFiles DEF TypeOK
<1>2. Named' = {} /\ Live' = Held(fd)
  BY <1>0 DEF Named, Live, Held
<1>3. fd # None => disk'[fd] = disk[fd]
  BY <1>0, <1>1 DEF Held
<1>4. TypeOK'
  BY <1>0, <1>1, <1>2 DEF TypeOK, Held
<1>5. HistoryInv'
  BY <1>0, <1>1, <1>2, <1>3 DEF HistoryInv, Held
<1> QED BY <1>0, <1>3, <1>4, <1>5, EditInv DEF reader, history, FlowInv

LEMMA ChmodInv == IInv /\ Chmod => IInv'
<1> SUFFICES ASSUME IInv, Chmod PROVE IInv'
  OBVIOUS
<1> USE DEF IInv
<1>0. /\ edits' \in 0..MaxEdits /\ UNCHANGED <<path, during, held, torn>>
      /\ pc' = pc /\ seen' = seen /\ fd' = fd /\ got' = got /\ result' = result
  BY DEF Chmod, Edit, TypeOK, reader
<1>1. PICK i \in Live :
         /\ disk' = [disk EXCEPT ![i].private = ~@]
         /\ trusted' = IF pc = "idle" \/ ~disk'[i].private THEN trusted ELSE trusted \cup {i}
  BY DEF Chmod
<1>2. Named' = Named /\ Live' = Live /\ i \in Inodes /\ disk[i] \in Files
  BY <1>0, LiveFiles DEF Named, Live, Held
<1>3. /\ disk' \in [Inodes -> Files \cup {None}]
      /\ \A j \in Inodes : j # i => disk'[j] = disk[j]
      /\ disk'[i] \in Files /\ disk'[i].doc = disk[i].doc
  BY <1>1, <1>2 DEF TypeOK, Files
<1>4. \A j \in Live : disk'[j].doc = disk[j].doc
  BY <1>2, <1>3, LiveFiles
<1>5. trusted \subseteq trusted' /\ trusted' \subseteq Inodes
  BY <1>1, <1>2 DEF TypeOK
<1>6. Live' = {j \in Inodes : disk'[j] # None}
  BY <1>2, <1>3 DEF TypeOK
<1>7. TypeOK'
  BY <1>0, <1>3, <1>5, <1>6 DEF TypeOK
<1>8. HistoryInv'
  <2> SUFFICES ASSUME pc # "idle" PROVE HistoryInv'
    BY <1>0 DEF HistoryInv
  <2>1. \A j \in Live : disk'[j].private => j \in trusted'
    BY <1>1, <1>2, <1>3, <1>5, LiveFiles DEF HistoryInv
  <2>2. \A j \in Live : disk'[j].doc \in held'
    BY <1>0, <1>4 DEF HistoryInv
  <2>3. fd # None => fd \in Live
    BY LiveFiles
  <2> QED BY <1>0, <1>2, <1>4, <2>1, <2>2, <2>3, LiveFiles DEF HistoryInv
<1>9. pc = "idle" => UNCHANGED history
  BY <1>0, <1>1 DEF history
<1>10. fd # None => disk'[fd].doc = disk[fd].doc
  BY <1>4, LiveFiles
<1>11. pc = "read" => torn' \/ (~torn /\ disk'[fd].doc = disk[fd].doc)
  <2>1. torn' \/ ~torn
    BY <1>0, Zenon
  <2> QED BY <1>10, <2>1 DEF FlowInv
<1>12. trusted \cap Held(fd) \subseteq trusted' /\ held \subseteq held'
  BY <1>0, <1>5
<1> QED BY <1>0, <1>7, <1>8, <1>9, <1>11, <1>12, EditInv DEF reader

LEMMA RewriteInv == IInv /\ Rewrite => IInv'
<1> SUFFICES ASSUME IInv, Rewrite PROVE IInv'
  OBVIOUS
<1> USE DEF IInv
<1>0. /\ edits' \in 0..MaxEdits /\ UNCHANGED <<path, trusted>> /\ Observe
      /\ pc' = pc /\ seen' = seen /\ fd' = fd /\ got' = got /\ result' = result
  BY DEF Rewrite, Edit, TypeOK, reader
<1>1. PICK i \in Live, d \in Docs :
         /\ disk' = [disk EXCEPT ![i].doc = d]
         /\ torn' = (torn \/ i = fd)
  BY DEF Rewrite
<1>2. Named' = Named /\ Live' = Live /\ i \in Inodes /\ disk[i] \in Files
  BY <1>0, LiveFiles DEF Named, Live, Held
<1>3. /\ disk' \in [Inodes -> Files \cup {None}]
      /\ \A j \in Inodes : j # i => disk'[j] = disk[j]
      /\ disk'[i] \in Files /\ disk'[i].private = disk[i].private
  BY <1>1, <1>2 DEF TypeOK, Files
<1>4. Live' = {j \in Inodes : disk'[j] # None}
  BY <1>2, <1>3 DEF TypeOK
<1>5. \A j \in Live : disk'[j].doc \in Docs /\ disk'[j].private = disk[j].private
  BY <1>2, <1>3, LiveFiles DEF Files
<1>6. during' \subseteq Docs /\ held' \subseteq Docs
  BY <1>0, <1>2, <1>5, LiveFiles, ObservedTypes
<1>7. torn' \in BOOLEAN
  BY <1>1, Zenon
<1>8. TypeOK'
  BY <1>0, <1>3, <1>4, <1>6, <1>7 DEF TypeOK
<1>9. fd # None => fd \in Live /\ (torn' \/ (~torn /\ disk'[fd] = disk[fd]))
  <2>1. torn' \/ (~torn /\ i # fd)
    BY <1>1, Zenon
  <2>2. fd # None => fd \in Live /\ fd \in Inodes
    BY LiveFiles
  <2> QED BY <1>3, <2>1, <2>2
<1>10. HistoryInv'
  <2> SUFFICES ASSUME pc # "idle" PROVE HistoryInv'
    BY <1>0 DEF HistoryInv
  <2>1. fd # None => disk'[fd].doc \in during' \/ torn'
    BY <1>0, <1>8, <1>9, Observed DEF HistoryInv
  <2> QED BY <1>0, <1>2, <1>5, <1>8, <2>1, Observed DEF HistoryInv
<1>11. pc = "idle" => UNCHANGED history
  <2> HAVE pc = "idle"
  <2>1. i # fd
    BY <1>2 DEF FlowInv
  <2>2. torn' = torn
    BY <1>1, <2>1, Zenon DEF TypeOK
  <2> QED BY <1>0, <1>8, <2>2, Observed DEF history
<1>12. pc = "read" => fd # None /\ held \subseteq held'
  BY <1>0, <1>8, Observed DEF FlowInv
<1> QED BY <1>0, <1>8, <1>9, <1>10, <1>11, <1>12, EditInv DEF reader

LEMMA StutterInv == IInv /\ UNCHANGED vars => IInv'
<1> SUFFICES ASSUME IInv, UNCHANGED vars PROVE IInv'
  OBVIOUS
<1> USE DEF IInv, vars, reader, history
<1>1. TypeOK'
  BY DEF TypeOK, Live, Named, Held
<1>2. FlowInv' /\ ReadInv'
  BY DEF FlowInv, ReadInv, FromHeld
<1>3. HistoryInv'
  BY DEF HistoryInv, Live, Named, Held
<1>4. ResultInv'
  BY DEF ResultInv, WholeUnlessTorn, PiecesOffered, PrivateWhenRead
<1> QED BY <1>1, <1>2, <1>3, <1>4 DEF ResultInv

LEMMA StepInv == IInv /\ [Next]_vars => IInv'
BY LstatInv, OpenInv, FstatInv, ReadStepInv, ValidateInv, ReplaceInv, MoveAsideInv, RemoveInv,
   ChmodInv, RewriteInv, StutterInv DEF Next, Reader, Operator

-----------------------------------------------------------------------------
(* Theorems                                                                *)

THEOREM GrantsFileInvariant == Spec => []IInv
BY InitInv, StepInv, PTL DEF Spec

\* Types; a file lives exactly as long as it is named or open.
THEOREM TypeCorrect == Spec => []TypeOK
BY GrantsFileInvariant, PTL DEF IInv

\* Without a write into the open file, the read is one atomic look at the path.
THEOREM WholeUnlessTornHolds == Spec => []WholeUnlessTorn
BY GrantsFileInvariant, PTL DEF IInv

\* However often the file is rewritten while it is read, whatever is returned
\* comes, part by part, from documents that were there during the call.
THEOREM PiecesOfferedHolds == Spec => []PiecesOffered
BY GrantsFileInvariant, PTL DEF IInv

\* No document is returned from a file that was not private during the call.
THEOREM PrivateWhenReadHolds == Spec => []PrivateWhenRead
BY GrantsFileInvariant, PTL DEF IInv

-----------------------------------------------------------------------------
(* A call ends, and is one step                                            *)

\* An upper bound on the steps a call has still to take.
StepsLeft ==
    [idle |-> 0, read |-> Parts + 1 - Len(got), fstat |-> Parts + 2, open |-> Parts + 3][pc]

\* Every step of a call brings it nearer to its return, and no edit sets it
\* back, however often the file is replaced or rewritten under it.
CallAdvances ==
    [][/\ StepsLeft \in 0..Parts + 3
       /\ Reader => StepsLeft' < StepsLeft \/ Lstat
       /\ StepsLeft' <= StepsLeft \/ Lstat]_vars

\* The document a call returns is the one that was in the file at Open, which
\* is where it takes effect: until the return nothing but a write into that
\* very file changes what the call reads.
TakesEffectAtOpen ==
    [][/\ fd # None /\ fd' = fd /\ ~torn' => disk'[fd].doc = disk[fd].doc
       /\ fd = None /\ fd' # None => path # None /\ fd' = path.inode /\ disk' = disk
       /\ fd # None /\ fd' = None /\ result' # None /\ ~torn => result' = disk[fd].doc]_vars

\* An edit, or nothing, leaves the call where it stands.
LEMMA EditKeepsCall ==
    ASSUME Operator \/ UNCHANGED vars
    PROVE  pc' = pc /\ fd' = fd /\ got' = got /\ result' = result
BY DEF Operator, Replace, MoveAside, Remove, Chmod, Rewrite, Edit, vars, reader

\* A call is over after at most Parts + 3 steps after its Lstat, for every
\* document and however the operator edits meanwhile.
THEOREM CallAdvancesHolds == Spec => CallAdvances
<1> DEFINE Progress == /\ StepsLeft \in 0..Parts + 3
                       /\ Reader => StepsLeft' < StepsLeft \/ Lstat
                       /\ StepsLeft' <= StepsLeft \/ Lstat
<1>1. ASSUME TypeOK, [Next]_vars
      PROVE  Progress
  <2>1. /\ pc \in {"idle", "open", "fstat", "read"}
        /\ Len(got) \in 0..Parts
    BY <1>1 DEF TypeOK
  <2>2. StepsLeft \in 0..Parts + 3
    BY <2>1 DEF StepsLeft
  <2>3. CASE Open
    BY <2>1, <2>2, <2>3 DEF Open, Return, StepsLeft
  <2>4. CASE Fstat
    BY <2>1, <2>2, <2>4 DEF Fstat, Return, StepsLeft
  <2>5. CASE Read
    <3>1. pc = "read" /\ pc' = "read" /\ Len(got') = Len(got) + 1
      BY <1>1, <2>5 DEF Read, TypeOK
    <3> QED BY <2>1, <2>2, <3>1 DEF StepsLeft
  <2>6. CASE Validate
    BY <2>1, <2>2, <2>6 DEF Validate, Return, StepsLeft
  <2>7. CASE ~Reader /\ (Operator \/ UNCHANGED vars)
    <3>1. StepsLeft' = StepsLeft
      BY <2>7, EditKeepsCall DEF StepsLeft
    <3> QED BY <2>2, <2>7, <3>1
  <2> QED BY <1>1, <2>2, <2>3, <2>4, <2>5, <2>6, <2>7 DEF Next, Reader
<1>2. TypeOK /\ [Next]_vars => [Progress]_vars
  BY <1>1
<1> QED BY <1>2, TypeCorrect, PTL DEF Spec, CallAdvances

\* The open file keeps its document, unless it is written to.
LEMMA OpenFileKept ==
    ASSUME IInv, [Next]_vars, fd # None, fd' = fd, ~torn'
    PROVE  disk'[fd].doc = disk[fd].doc
<1>1. /\ fd \in Inodes /\ fd \in Live /\ disk[fd] # None
      /\ disk[fd] \in Files /\ fd \in Held(fd)
  BY LiveFiles DEF IInv, TypeOK, Held
<1>2. CASE Lstat
  BY <1>2 DEF IInv, FlowInv, Lstat
<1>3. CASE Open \/ Fstat \/ Read \/ Validate
  BY <1>3 DEF Open, Fstat, Read, Validate, Return
<1>4. CASE Replace
  <2>1. PICK i \in Inodes, f \in Files :
           disk[i] = None /\ disk' = [Swept(disk, Held(fd)) EXCEPT ![i] = f]
    BY <1>4 DEF Replace
  <2>2. disk'[fd] = disk[fd]
    BY <1>1, <2>1 DEF Swept
  <2> QED BY <2>2
<1>5. CASE MoveAside \/ UNCHANGED vars
  BY <1>5 DEF MoveAside, vars
<1>6. CASE Remove
  BY <1>1, <1>6 DEF Remove, Swept
<1>7. CASE Chmod
  <2>1. PICK i \in Live : disk' = [disk EXCEPT ![i].private = ~@]
    BY <1>7 DEF Chmod
  <2>2. disk'[fd] = disk[fd] \/ disk'[fd] = [disk[fd] EXCEPT !.private = ~@]
    BY <1>1, <2>1 DEF IInv, TypeOK
  <2> QED BY <1>1, <2>2 DEF Files
<1>8. CASE Rewrite
  <2>1. PICK i \in Live, d \in Docs :
           disk' = [disk EXCEPT ![i].doc = d] /\ torn' = (torn \/ i = fd)
    BY <1>8 DEF Rewrite
  <2>2. i # fd
    BY <2>1, Zenon
  <2> QED BY <1>1, <2>1, <2>2 DEF IInv, TypeOK
<1> QED BY <1>2, <1>3, <1>4, <1>5, <1>6, <1>7, <1>8 DEF Next, Reader, Operator

\* Unless the open file is written to, a call is one atomic look at the path,
\* taken when the file is opened.
THEOREM TakesEffectAtOpenHolds == Spec => TakesEffectAtOpen
<1> DEFINE Kept     == fd # None /\ fd' = fd /\ ~torn' => disk'[fd].doc = disk[fd].doc
           Opened   == fd = None /\ fd' # None =>
                           path # None /\ fd' = path.inode /\ disk' = disk
           Returned == fd # None /\ fd' = None /\ result' # None /\ ~torn =>
                           result' = disk[fd].doc
<1>1. ASSUME IInv, [Next]_vars
      PROVE  Kept /\ Opened /\ Returned
  <2>1. Kept
    BY <1>1, OpenFileKept
  <2>2. CASE Operator \/ UNCHANGED vars
    <3>1. fd' = fd
      BY <2>2, EditKeepsCall
    <3> QED BY <2>1, <3>1
  <2>3. CASE Lstat
    <3>1. fd' = None /\ fd = None
      BY <1>1, <2>3 DEF Lstat, Return, IInv, FlowInv
    <3> QED BY <2>1, <3>1
  <2>4. CASE Open
    <3>1. fd = None
      BY <1>1, <2>4 DEF Open, IInv, FlowInv
    <3> QED BY <2>1, <2>4, <3>1 DEF Open, Return
  <2>5. CASE Fstat \/ Read
    <3>1. fd # None /\ (fd' = fd \/ result' = None)
      BY <1>1, <2>5 DEF Fstat, Read, Return, IInv, FlowInv
    <3> QED BY <2>1, <3>1
  <2>6. CASE Validate
    <3>1. pc = "read" /\ fd # None
      BY <1>1, <2>6 DEF Validate, IInv, FlowInv
    <3>2. ASSUME result' # None, ~torn
          PROVE  result' = disk[fd].doc
      <4>1. Len(got) = Parts /\ result' = got
        BY <2>6, <3>2 DEF Validate, Return
      <4>2. got \in [1..Parts -> Pieces]
        BY <1>1, <4>1 DEF IInv, TypeOK
      <4>3. disk[fd].doc \in [1..Parts -> Pieces]
        BY <1>1, <3>1, LiveFiles DEF IInv
      <4>4. \A n \in 1..Parts : got[n] = disk[fd].doc[n]
        BY <1>1, <3>1, <3>2, <4>1 DEF IInv, ReadInv
      <4> QED BY <4>1, <4>2, <4>3, <4>4
    <3> QED BY <2>1, <3>1, <3>2
  <2> QED BY <1>1, <2>2, <2>3, <2>4, <2>5, <2>6 DEF Next, Reader
<1>2. IInv /\ [Next]_vars => [Kept /\ Opened /\ Returned]_vars
  BY <1>1
<1> QED BY <1>2, GrantsFileInvariant, PTL DEF Spec, TakesEffectAtOpen

=============================================================================
