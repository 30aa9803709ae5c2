----------------------------- MODULE GrantsFile -----------------------------
(***************************************************************************)
(* readAndValidateGrantsDoc (internal/toolserver/authorizer.go), call after*)
(* call, beside an operator who edits the file.  ToolServer reads the      *)
(* grants in one atomic step; this module has the calls the code makes of  *)
(* the file system and says what is left of that step.                     *)
(*                                                                         *)
(* A file is an inode: it lives while a name leads to it or it is open, and*)
(* once it is gone another file can get its number.  The path is the name  *)
(* of a file or a symbolic link to one.  A document is read in Parts, a    *)
(* run of bytes each, and the boundary between two may fall within an      *)
(* entry, after the hash of its token: then one part holds the head of the *)
(* entry and the next its tail.  Garbage stands for whatever makes the     *)
(* document unacceptable by itself.  A boundary within a hash is left out: *)
(* two halves of different hashes are the hash of no token.                *)
(***************************************************************************)
EXTENDS Integers, Sequences

CONSTANTS
    Inodes,
    Heads,      \* first halves of entries: token_sha256, of one token each
    Tails,      \* second halves: run_id, expires_at and scopes
    Parts,      \* reads it takes to read a document
    Docs,       \* the documents the operator writes
    MaxEdits,   \* bound on the edits during one call, and before the next
    Nothing,    \* a part without an entry
    Garbage,    \* a part that makes the document invalid
    None        \* no file, no inode, no document

Pieces   == Heads \cup Tails \cup {Nothing, Garbage}
Contents == [1..Parts -> Pieces]
Files    == [doc : Docs, private : BOOLEAN]  \* private: a regular file of mode 0600
Names    == [inode : Inodes, link : BOOLEAN] \* the file's own, or a link to it

ASSUME PartsAssumption == Parts \in Nat /\ MaxEdits \in Nat
ASSUME DocsAssumption  == Docs \subseteq Contents
ASSUME ValuesAssumption ==
    /\ None \notin Inodes \cup Contents \cup Files \cup Names
    /\ Heads \cap Tails = {} /\ Nothing # Garbage
    /\ {Nothing, Garbage} \cap (Heads \cup Tails) = {}

VARIABLES
    disk,       \* the file of each inode, None for a free one
    path,       \* what TJUCLI_GRANTS_FILE names: None, or an inode and if by a link
    pc,         \* where the call stands, "idle" between calls
    seen,       \* inode of lstatInfo
    fd,         \* inode of the open file
    got,        \* what has been read
    result,     \* the document returned, None for an error
    edits,
    during,     \* history: documents the path led to during the call
    held,       \* history: documents of a file it led to, or that was open
    trusted,    \* history: files that were private during the call
    torn        \* history: the open file was written to

reader  == <<pc, seen, fd, got, result>>
history == <<during, held, trusted, torn>>
vars    == <<disk, path, reader, edits, history>>

Held(i)  == IF i = None THEN {} ELSE {i}
Named    == IF path = None THEN {} ELSE {path.inode}
Live     == Named \cup Held(fd)

Init ==
    /\ \E i \in Inodes, f \in Files, link \in BOOLEAN :
         \/ /\ disk = [j \in Inodes |-> IF j = i THEN f ELSE None]
            /\ path = [inode |-> i, link |-> link]
         \/ /\ disk = [j \in Inodes |-> None]
            /\ path = None
    /\ pc = "idle"
    /\ seen = None
    /\ fd = None
    /\ got = << >>
    /\ result = None
    /\ edits = 0
    /\ during = {}
    /\ held = {}
    /\ trusted = {}
    /\ torn = FALSE

-----------------------------------------------------------------------------
(* The reader                                                              *)

\* The files of the inodes that are still named or open; the rest is freed.
Swept(files, live) == [i \in Inodes |-> IF i \in live THEN files[i] ELSE None]

\* Each return closes the file, if it is open.
Return(doc) ==
    /\ pc' = "idle"
    /\ result' = doc
    /\ fd' = None
    /\ got' = << >>
    /\ disk' = Swept(disk, Named)

\* The history starts anew with each call.
Begin ==
    /\ edits' = 0
    /\ during' = {disk[i].doc : i \in Named}
    /\ held' = during'
    /\ trusted' = {i \in Named : disk[i].private}
    /\ torn' = FALSE

\* Mutant: the document is kept for as long as the inode is the same.
LstatCached ==
    /\ pc = "idle"
    /\ Begin
    /\ \/ /\ path # None /\ ~path.link /\ disk[path.inode].private /\ path.inode # seen
          /\ pc' = "open"
          /\ seen' = path.inode
          /\ result' = None
          /\ UNCHANGED <<fd, got, disk>>
       \/ /\ path # None /\ path.inode = seen /\ disk[seen].private
          /\ Return(result) /\ UNCHANGED seen
       \/ Return(None) /\ UNCHANGED seen
    /\ UNCHANGED path

\* Lstat: a regular file, private and not too large.
Lstat ==
    /\ pc = "idle"
    /\ Begin
    /\ \/ /\ path # None /\ ~path.link /\ disk[path.inode].private
          /\ pc' = "open"
          /\ seen' = path.inode
          /\ result' = None
          /\ UNCHANGED <<fd, got, disk>>
       \/ Return(None) /\ UNCHANGED seen
    /\ UNCHANGED path

\* Open follows a link; without a file, or without leave, it fails.
Open ==
    /\ pc = "open"
    /\ \/ /\ path # None
          /\ pc' = "fstat"
          /\ fd' = path.inode
          /\ UNCHANGED <<got, result, disk>>
       \/ Return(None)
    /\ UNCHANGED <<path, seen, edits, history>>

\* Mutant: the file opened is trusted for being the one Lstat saw.
FstatSameOnly ==
    /\ pc = "fstat"
    /\ \/ /\ fd = seen
          /\ pc' = "read"
          /\ UNCHANGED <<fd, got, result, disk>>
       \/ Return(None)
    /\ UNCHANGED <<path, seen, edits, history>>

\* Fstat: the inode Lstat saw, regular and private.
Fstat ==
    /\ pc = "fstat"
    /\ \/ /\ fd = seen /\ disk[fd].private
          /\ pc' = "read"
          /\ UNCHANGED <<fd, got, result, disk>>
       \/ Return(None)
    /\ UNCHANGED <<path, seen, edits, history>>

\* Mutant: the content is read through the path.
ReadByPath ==
    /\ pc = "read"
    /\ Len(got) < Parts /\ path # None
    /\ got' = Append(got, disk[path.inode].doc[Len(got) + 1])
    /\ UNCHANGED <<disk, path, pc, seen, fd, result, edits, history>>

\* Mutant: a read more than the document has parts.
ReadTooFar ==
    /\ pc = "read"
    /\ Len(got) <= Parts
    /\ got' = Append(got, IF Len(got) < Parts THEN disk[fd].doc[Len(got) + 1] ELSE Nothing)
    /\ UNCHANGED <<disk, path, pc, seen, fd, result, edits, history>>

\* io.ReadAll, one read(2) at a time, each of the file as it then is.
Read ==
    /\ pc = "read"
    /\ Len(got) < Parts
    /\ got' = Append(got, disk[fd].doc[Len(got) + 1])
    /\ UNCHANGED <<disk, path, pc, seen, fd, result, edits, history>>

\* Nothing malformed, each entry whole, and no token twice.
Valid(doc) ==
    \A p \in 1..Parts :
        /\ doc[p] # Garbage
        /\ doc[p] \in Heads => p < Parts /\ doc[p + 1] \in Tails
        /\ doc[p] \in Tails => p > 1 /\ doc[p - 1] \in Heads
        /\ \A q \in 1..Parts : p # q /\ doc[p] = doc[q] => doc[p] \notin Heads

\* The end of the file, or an error of a read.
Validate ==
    /\ pc = "read"
    /\ \/ Len(got) = Parts /\ Valid(got) /\ Return(got)
       \/ Return(None)
    /\ UNCHANGED <<path, seen, edits, history>>

-----------------------------------------------------------------------------
(* The operator.  What an edit leaves is observed by a call under way.     *)

Observe ==
    IF pc = "idle" THEN UNCHANGED <<during, held>>
    ELSE /\ during' = during \cup {disk'[i].doc : i \in Named'}
         /\ held' = held \cup {disk'[i].doc : i \in Live'}

Edit ==
    /\ edits < MaxEdits
    /\ edits' = edits + 1
    /\ UNCHANGED reader

\* rename(2) of a new file, or of a link to one, onto the path.
Replace ==
    /\ Edit
    /\ \E i \in Inodes, f \in Files, link \in BOOLEAN :
         /\ disk[i] = None
         /\ path' = [inode |-> i, link |-> link]
         /\ disk' = [Swept(disk, Held(fd)) EXCEPT ![i] = f]
         /\ trusted' = IF pc = "idle" THEN trusted
                       ELSE (trusted \ {i}) \cup {j \in {i} : f.private}
    /\ Observe
    /\ UNCHANGED torn

\* The file moves aside and a link takes its place.
MoveAside ==
    /\ Edit
    /\ path # None /\ ~path.link
    /\ path' = [path EXCEPT !.link = TRUE]
    /\ UNCHANGED <<disk, history>>

Remove ==
    /\ Edit
    /\ path # None
    /\ path' = None
    /\ disk' = Swept(disk, Held(fd))
    /\ UNCHANGED history

Chmod ==
    /\ Edit
    /\ \E i \in Live :
         /\ disk' = [disk EXCEPT ![i].private = ~@]
         /\ trusted' = IF pc = "idle" \/ ~disk'[i].private THEN trusted ELSE trusted \cup {i}
    /\ UNCHANGED <<path, during, held, torn>>

\* One write(2) puts a document in place of another, in a file the path leads
\* to or the reader has open.
Rewrite ==
    /\ Edit
    /\ \E i \in Live, d \in Docs :
         /\ disk' = [disk EXCEPT ![i].doc = d]
         /\ torn' = (torn \/ i = fd)
    /\ UNCHANGED <<path, trusted>>
    /\ Observe

Reader   == Lstat \/ Open \/ Fstat \/ Read \/ Validate
Operator == Replace \/ MoveAside \/ Remove \/ Chmod \/ Rewrite
Next     == Reader \/ Operator
Spec     == Init /\ [][Next]_vars

-----------------------------------------------------------------------------
(* Properties                                                              *)

\* Types; what has a name or is open is a file, and what has neither is free.
TypeOK ==
    /\ disk \in [Inodes -> Files \cup {None}]
    /\ path \in Names \cup {None}
    /\ pc \in {"idle", "open", "fstat", "read"}
    /\ seen \in Inodes \cup {None}
    /\ fd \in Inodes \cup {None}
    /\ got \in Seq(Pieces) /\ Len(got) <= Parts
    /\ result \in Contents \cup {None}
    /\ edits \in 0..MaxEdits
    /\ during \subseteq Docs
    /\ held \subseteq Docs
    /\ trusted \subseteq Inodes
    /\ torn \in BOOLEAN
    /\ Live = {i \in Inodes : disk[i] # None}

\* The document returned is one the path led to at some moment of the call,
\* so that reading it is one step after all, unless the file was written to
\* while it was read.
WholeUnlessTorn == result # None => result \in during \/ torn

\* Whatever the call returns, it took each part of it from a document that was
\* there during the call, at the same place: nothing comes from a document that
\* had been replaced before, so a token removed then is not let in.  That parts
\* are all it speaks of is no accident: in a document torn within an entry the
\* head of one entry is followed by the tail of another, and Valid accepts it.
PiecesOffered ==
    result # None => \A p \in 1..Parts : \E d \in held : result[p] = d[p]

\* The file read was private at some moment of the call, also when it has the
\* number of another that Lstat saw.
PrivateWhenRead == result # None => seen \in trusted
=============================================================================
