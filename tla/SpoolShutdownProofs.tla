------------------------- MODULE SpoolShutdownProofs -------------------------
(***************************************************************************)
(* Proofs about SpoolShutdown, for any finite set of handlers.             *)
(*                                                                         *)
(* The argument: a directory has a handler at work, whoever is at work     *)
(* once the server has been closed was cut off by that, and the cleaner    *)
(* gives up on the spool directory only over such a handler's directory.   *)
(***************************************************************************)
EXTENDS SpoolShutdown, Integers, FiniteSetTheorems, TLAPS

USE HandlersAssumption DEF HandlersAssumption

\* What a handler's point says about its directory.
HandlerInv(h) ==
    /\ pc[h] \in {"idle", "base", "mkdir", "done"} => ~dl[h]
    /\ pc[h] = "unlink" => files[h] \subseteq listed[h]

Closed == main \in Cleaning \cup {"cleanup", "deferred", "exited"}

\* What run's point says about the handlers and the spool directory.
ServerInv ==
    /\ main \in {"booting", "serving", "draining", "closing"} => cutOff = {}
    /\ main = "closing" => runErr # "none"
    /\ Closed => \A h \in Handlers : Running(h) => h \in cutOff
    /\ (Closed /\ runErr = "none") => cutOff = {}
    /\ main = "exited" => ~spoolDir
    /\ ~spoolDir => (Closed \/ main = "killed")
    /\ (Closed /\ ~spoolDir /\ base) => cutOff # {}

IInv == TypeOK /\ (\A h \in Handlers : HandlerInv(h)) /\ ServerInv

-----------------------------------------------------------------------------
(* Lemmas                                                                  *)

\* A directory exists only while its handler is at work.
LEMMA DirectoryHasHandler ==
    ASSUME IInv, NEW h \in Handlers, dl[h]
    PROVE  Running(h)
BY DEF IInv, TypeOK, HandlerInv, Running

\* The initial state.
LEMMA InitIInv ==
    ASSUME Init
    PROVE  IInv
<1>1. spoolDir = TRUE /\ locked = FALSE /\ base \in BOOLEAN
  BY Zenon DEF Init
<1>5. locked \in BOOLEAN /\ (main # "killed" => (locked <=> main \in Cleaning))
  BY Zenon DEF Init, Cleaning
<1>2. TypeOK
  BY <1>1, <1>5, SMT DEF Init, TypeOK, NoEntry, Names
<1>3. \A h \in Handlers : HandlerInv(h)
  BY DEF Init, HandlerInv
<1>4. ServerInv
  BY <1>1 DEF Init, ServerInv, Closed, Cleaning
<1> QED BY <1>2, <1>3, <1>4 DEF IInv

-----------------------------------------------------------------------------
(* Types and the shape of the file system, action by action                *)

USE DEF server, disk, cleaner, vars, Goto, Proceed, Alive

LEMMA HandlerTypes ==
    ASSUME TypeOK, NEW h \in Handlers, Start(h) \/ Handler(h)
    PROVE  TypeOK'
<1>1. CASE Start(h)
  BY <1>1, SMTT(30) DEF TypeOK, Start, Names
<1>2. CASE GetBase(h)
  BY <1>2, SMTT(30) DEF TypeOK, GetBase, Names
<1>3. CASE MakeDir(h)
  BY <1>3, SMTT(30) DEF TypeOK, MakeDir, Names
<1>4. CASE CreateTemp(h)
  BY <1>4, SMTT(30) DEF TypeOK, CreateTemp, Names
<1>5. CASE Fetch(h)
  BY <1>5, SMTT(30) DEF TypeOK, Fetch, Names
<1>6. CASE Link(h)
  BY <1>6, SMTT(30) DEF TypeOK, Link, Names
<1>7. CASE Tidy(h)
  BY <1>7, SMTT(30) DEF TypeOK, Tidy, Names
<1>8. CASE Discard(h)
  BY <1>8, SMTT(30) DEF TypeOK, Discard, Names
<1>9. CASE Open(h)
  BY <1>9, SMTT(30) DEF TypeOK, Open, Names
<1>10. CASE Stream(h)
  BY <1>10, SMTT(30) DEF TypeOK, Stream, Names
<1>11. CASE UnwindList(h)
  BY <1>11, SMTT(30) DEF TypeOK, UnwindList, Names
<1>12. CASE UnwindFile(h)
  BY <1>12, SMTT(30) DEF TypeOK, UnwindFile, Names
<1>13. CASE UnwindDir(h)
  BY <1>13, SMTT(30) DEF TypeOK, UnwindDir, Names
<1>14. CASE UnwindTry(h)
  BY <1>14, SMTT(30) DEF TypeOK, UnwindTry, Names
<1> QED BY <1>1, <1>2, <1>3, <1>4, <1>5, <1>6, <1>7, <1>8, <1>9, <1>10, <1>11, <1>12, <1>13, <1>14 DEF Handler

LEMMA ServerTypes ==
    ASSUME TypeOK, Main \/ Signal \/ ListenError \/ Kill \/ Gone
    PROVE  TypeOK'
<1>1. CASE Serve
  BY <1>1, SMTT(30) DEF TypeOK, Serve, Names, Cleaning
<1>2. CASE Close
  BY <1>2, SMTT(30) DEF TypeOK, Close, Names, Cleaning
<1>3. CASE Drained
  BY <1>3, SMTT(30) DEF TypeOK, Drained, Names, Cleaning
<1>4. CASE DrainTimeout
  BY <1>4, SMTT(30) DEF TypeOK, DrainTimeout, Names, Cleaning
<1>5. CASE CleanLock
  <2>1. locked' \in BOOLEAN
    BY <1>5, Zenon DEF TypeOK, CleanLock
  <2> QED BY <1>5, <2>1 DEF TypeOK, CleanLock, After, Cleaning
<1>6. CASE CleanList
  BY <1>6, SMTT(30) DEF TypeOK, CleanList, Names, Cleaning
<1>7. CASE CleanEnter
  BY <1>7, SMTT(30) DEF TypeOK, CleanEnter, Names, Cleaning, NoEntry
<1>8. CASE CleanFile
  <2>1. PICK f \in inner.names :
            /\ files' = [files EXCEPT ![inner.dir] = @ \ {f}]
            /\ inner' = [dir |-> inner.dir, names |-> inner.names \ {f}]
    BY <1>8 DEF CleanFile
  <2>2. inner' \in [dir : Handlers \cup {NoDir}, names : SUBSET Names]
    BY <2>1 DEF TypeOK
  <2>3. files' \in [Handlers -> SUBSET Names]
          /\ \A h \in Handlers : files'[h] \subseteq files[h]
    BY <2>1 DEF TypeOK
  <2> QED BY <1>8, <2>2, <2>3 DEF TypeOK, CleanFile
<1>9. CASE CleanDir
  BY <1>9, SMTT(30) DEF TypeOK, CleanDir, Names, Cleaning, NoEntry, Removing
<1>10. CASE CleanBase
  <2>1. spoolDir' \in BOOLEAN /\ ~locked' /\ base' \in BOOLEAN
    BY <1>10, Zenon DEF CleanBase, Cleaned
  <2>2. \A h \in Handlers : dl'[h] => base'
    BY <1>10 DEF CleanBase
  <2>3. UNCHANGED <<runErr, pc, dl, files, listed, todo, inner, cutOff>>
    BY <1>10 DEF CleanBase
  <2>4. main' \in {"deferred", "exited"}
    BY <1>10 DEF CleanBase, Cleaned, Removing, After
  <2>6. locked' \in BOOLEAN
    BY <1>10, Zenon DEF CleanBase, Cleaned
  <2>7. main' \notin Cleaning
    BY <2>4 DEF Cleaning
  <2>5. locked' \in BOOLEAN /\ (main' # "killed" => (locked' <=> main' \in Cleaning))
    BY <2>1, <2>6, <2>7, Zenon
  <2> QED BY <2>1, <2>2, <2>3, <2>4, <2>5 DEF TypeOK
<1>11. CASE Signal
  BY <1>11, SMTT(30) DEF TypeOK, Signal, Names, Cleaning
<1>12. CASE ListenError
  BY <1>12, SMTT(30) DEF TypeOK, ListenError, Names, Cleaning
<1>13. CASE Kill
  BY <1>13, SMTT(30) DEF TypeOK, Kill, Names, Cleaning
<1>14. CASE Gone
  BY <1>14, SMTT(30) DEF TypeOK, Gone, Names, Cleaning
<1>15. CASE CleanTry
  <2>1. spoolDir' \in BOOLEAN /\ locked' \in BOOLEAN /\ base' \in BOOLEAN
    BY <1>15, Zenon DEF CleanTry, Cleaned, TypeOK
  <2>2. \A h \in Handlers : dl'[h] => base'
    BY <1>15 DEF CleanTry, TypeOK
  <2>3. UNCHANGED <<runErr, pc, dl, files, listed, todo, inner, cutOff>>
    BY <1>15 DEF CleanTry
  <2>4. \/ main' \in {"deferred", "exited"} /\ ~locked'
        \/ main' \in {"list", "listDeferred"} /\ locked'
    BY <1>15 DEF CleanTry, Cleaned, After, TypeOK, Cleaning
  <2>5. main' # "killed" => (locked' <=> main' \in Cleaning)
    BY <2>4 DEF Cleaning
  <2>6. main' \in Cleaning \cup {"deferred", "exited"}
    BY <2>4 DEF Cleaning
  <2> QED BY <2>1, <2>2, <2>3, <2>5, <2>6 DEF TypeOK
<1> QED BY <1>1, <1>2, <1>3, <1>4, <1>5, <1>6, <1>7, <1>8, <1>9, <1>10, <1>11, <1>12, <1>13, <1>14, <1>15 DEF Main

-----------------------------------------------------------------------------
(* The handlers' directories                                               *)

LEMMA HandlerOwn ==
    ASSUME IInv, NEW h \in Handlers, Start(h) \/ Handler(h), NEW k \in Handlers
    PROVE  HandlerInv(k)'
<1> USE DEF IInv, TypeOK, HandlerInv
<1>1. CASE Start(h)
  BY <1>1, SMTT(30) DEF Start
<1>2. CASE GetBase(h)
  BY <1>2, SMTT(30) DEF GetBase
<1>3. CASE MakeDir(h)
  BY <1>3, SMTT(30) DEF MakeDir
<1>4. CASE CreateTemp(h)
  BY <1>4, SMTT(30) DEF CreateTemp
<1>5. CASE Fetch(h)
  BY <1>5, SMTT(30) DEF Fetch
<1>6. CASE Link(h)
  BY <1>6, SMTT(30) DEF Link
<1>7. CASE Tidy(h)
  BY <1>7, SMTT(30) DEF Tidy
<1>8. CASE Discard(h)
  BY <1>8, SMTT(30) DEF Discard
<1>9. CASE Open(h)
  BY <1>9, SMTT(30) DEF Open
<1>10. CASE Stream(h)
  BY <1>10, SMTT(30) DEF Stream
<1>11. CASE UnwindList(h)
  BY <1>11, SMTT(30) DEF UnwindList
<1>12. CASE UnwindFile(h)
  BY <1>12, SMTT(30) DEF UnwindFile
<1>13. CASE UnwindDir(h)
  <2>1. files[h] = {}
    BY <1>13 DEF UnwindDir
  <2>2. ~dl'[h]
    BY <1>13, <2>1 DEF UnwindDir
  <2> QED BY <1>13, <2>2 DEF UnwindDir
<1>14. CASE UnwindTry(h)
  <2>1. dl'[h] <=> files[h] # {}
    BY <1>14 DEF UnwindTry
  <2>2. UNCHANGED files /\ pc'[h] \in {"list", "done"} /\ (pc'[h] = "done" <=> files[h] = {})
    BY <1>14 DEF UnwindTry
  <2>3. k # h => dl'[k] = dl[k] /\ pc'[k] = pc[k] /\ listed'[k] = listed[k]
    BY <1>14 DEF UnwindTry
  <2> QED BY <2>1, <2>2, <2>3
<1> QED BY <1>1, <1>2, <1>3, <1>4, <1>5, <1>6, <1>7, <1>8, <1>9, <1>10, <1>11, <1>12, <1>13, <1>14 DEF Handler

LEMMA ServerKeepsHandlers ==
    ASSUME IInv, Main \/ Signal \/ ListenError \/ Kill \/ Gone, NEW k \in Handlers
    PROVE  HandlerInv(k)'
<1> USE DEF IInv, TypeOK, HandlerInv
<1>1. CASE Serve
  BY <1>1, SMTT(30) DEF Serve
<1>2. CASE Close
  BY <1>2, SMTT(30) DEF Close
<1>3. CASE Drained
  BY <1>3, SMTT(30) DEF Drained
<1>4. CASE DrainTimeout
  BY <1>4, SMTT(30) DEF DrainTimeout
<1>5. CASE CleanLock
  BY <1>5, SMTT(30) DEF CleanLock
<1>6. CASE CleanList
  BY <1>6, SMTT(30) DEF CleanList
<1>7. CASE CleanEnter
  BY <1>7, SMTT(30) DEF CleanEnter
<1>8. CASE CleanFile
  BY <1>8, SMTT(30) DEF CleanFile
<1>9. CASE CleanDir
  BY <1>9, SMTT(30) DEF CleanDir
<1>10. CASE CleanBase
  BY <1>10, SMTT(30) DEF CleanBase
<1>11. CASE Signal
  BY <1>11, SMTT(30) DEF Signal
<1>12. CASE ListenError
  BY <1>12, SMTT(30) DEF ListenError
<1>13. CASE Kill
  BY <1>13, SMTT(30) DEF Kill
<1>14. CASE Gone
  BY <1>14, SMTT(30) DEF Gone
<1>15. CASE CleanTry
  BY <1>15, SMTT(30) DEF CleanTry
<1> QED BY <1>1, <1>2, <1>3, <1>4, <1>5, <1>6, <1>7, <1>8, <1>9, <1>10, <1>11, <1>12, <1>13, <1>14, <1>15 DEF Main

-----------------------------------------------------------------------------
(* The server                                                              *)

LEMMA HandlersKeepServer ==
    ASSUME IInv, NEW h \in Handlers, Start(h) \/ Handler(h)
    PROVE  ServerInv'
<1>1. CASE Start(h)
  BY <1>1 DEF IInv, TypeOK, ServerInv, Start, Closed, Cleaning
<1>2. CASE Handler(h)
  <2>1. UNCHANGED <<server, cleaner>> /\ Running(h) /\ (base' => base)
    BY <1>2 DEF Handler, GetBase, MakeDir, CreateTemp, Fetch, Link, Tidy, Discard, Open, Stream,
                UnwindTry, UnwindList, UnwindFile, UnwindDir, Running
  <2>2. \A k \in Handlers : Running(k)' => Running(k)
    BY <1>2, SMTT(60) DEF Handler, GetBase, MakeDir, CreateTemp, Fetch, Link, Tidy, Discard, Open,
                Stream, UnwindTry, UnwindList, UnwindFile, UnwindDir, Running, IInv, TypeOK
  <2> QED BY <2>1, <2>2 DEF IInv, ServerInv, Closed
<1> QED BY <1>1, <1>2

LEMMA ServerOwn ==
    ASSUME IInv, Main \/ Signal \/ ListenError \/ Kill \/ Gone
    PROVE  ServerInv'
<1> USE DEF IInv, ServerInv, Closed, Cleaning
<1>1. CASE Serve
  BY <1>1, SMTT(30) DEF Serve, Running
<1>2. CASE Close
  BY <1>2, SMTT(30) DEF Close, Running
<1>3. CASE Drained
  BY <1>3, SMTT(30) DEF Drained, Running
<1>4. CASE DrainTimeout
  BY <1>4, SMTT(30) DEF DrainTimeout, Running
<1>5. CASE CleanLock
  BY <1>5, SMTT(30) DEF CleanLock, After, Running
<1>6. CASE CleanList
  BY <1>6, SMTT(30) DEF CleanList, Running
<1>7. CASE CleanEnter
  BY <1>7, SMTT(30) DEF CleanEnter, Removing, Running
<1>8. CASE CleanFile
  BY <1>8, SMTT(30) DEF CleanFile, Removing, Running
<1>9. CASE CleanDir
  BY <1>9, SMTT(30) DEF CleanDir, Removing, Running
<1>10. CASE CleanBase
  <2>1. UNCHANGED cutOff /\ (base' => cutOff # {})
    BY <1>10, DirectoryHasHandler DEF CleanBase, Removing
  <2> QED BY <1>10, <2>1 DEF CleanBase, Cleaned, Removing, After, Running
<1>11. CASE Signal
  BY <1>11, SMTT(30) DEF Signal, Running
<1>12. CASE ListenError
  BY <1>12, SMTT(30) DEF ListenError, Running
<1>13. CASE Kill
  BY <1>13, SMTT(30) DEF Kill, Running
<1>14. CASE Gone
  BY <1>14, SMTT(30) DEF Gone, Running
<1>15. CASE CleanTry
  BY <1>15, SMTT(30) DEF CleanTry, Cleaned, After, Running
<1> QED BY <1>1, <1>2, <1>3, <1>4, <1>5, <1>6, <1>7, <1>8, <1>9, <1>10, <1>11, <1>12, <1>13, <1>14, <1>15 DEF Main

-----------------------------------------------------------------------------
(* Theorems                                                                *)

\* The strengthening of all four properties.
THEOREM SpoolInvariant == Spec => []IInv
<1>1. Init => IInv
  BY InitIInv
<1>2. ASSUME IInv, [Next]_vars
      PROVE  IInv'
  <2>1. CASE \E h \in Handlers : Start(h) \/ Handler(h)
    BY <1>2, <2>1, HandlerTypes, HandlerOwn, HandlersKeepServer DEF IInv
  <2>2. CASE Main \/ Signal \/ ListenError \/ Kill \/ Gone
    BY <1>2, <2>2, ServerTypes, ServerKeepsHandlers, ServerOwn DEF IInv
  <2>3. CASE UNCHANGED vars
    BY <1>2, <2>3 DEF IInv, TypeOK, HandlerInv, ServerInv, Closed, Running
  <2> QED BY <1>2, <2>1, <2>2, <2>3 DEF Next
<1> QED BY <1>1, <1>2, PTL DEF Spec

\* Types, and what exists on disk has its parent.
THEOREM TypeCorrect == Spec => []TypeOK
BY SpoolInvariant, PTL DEF IInv

\* handleCourseDownload leaves no directory behind, whichever way it returns.
THEOREM OwnDirectoryGoneHolds == Spec => []OwnDirectoryGone
<1>1. IInv => OwnDirectoryGone
  BY DEF IInv, HandlerInv, OwnDirectoryGone
<1> QED BY <1>1, SpoolInvariant, PTL

\* run returns nil only after Shutdown has waited and the tree is gone.
THEOREM GracefulExitHolds == Spec => []GracefulExit
<1>1. IInv => GracefulExit
  BY DEF IInv, ServerInv, Closed, Cleaning, GracefulExit
<1> QED BY <1>1, SpoolInvariant, PTL

\* What run leaves on disk belongs to handlers the server was closed under.
THEOREM LeftoverHasOwnerHolds == Spec => []LeftoverHasOwner
<1>1. IInv => LeftoverHasOwner
  BY DirectoryHasHandler DEF IInv, ServerInv, Closed, Cleaning, LeftoverHasOwner
<1> QED BY <1>1, SpoolInvariant, PTL

-----------------------------------------------------------------------------
(* The process ends: the part of Exits that needs no fairness              *)

\* What is left of the removal of the spool directory: for each name four
\* steps at most, to enter it, to unlink two files and to remove it.
RemovalLeft ==
    IF ~Removing THEN 0
    ELSE IF inner = NoEntry THEN 4 * Cardinality(todo)
    ELSE 4 * Cardinality(todo) - 3 + Cardinality(inner.names)

\* Where run stands, and how many phases are ahead of it.
PhasesLeft ==
    [exited |-> 0, killed |-> 0, removeDeferred |-> 1, listDeferred |-> 2, tryDeferred |-> 3,
     deferred |-> 4, remove |-> 5, list |-> 6, try |-> 7, cleanup |-> 8, draining |-> 9,
     closing |-> 9, serving |-> 10, booting |-> 11][main]

\* More than what is left of a removal at any time.
PhaseSteps == 4 * Cardinality(Handlers) + 1

\* An upper bound on the steps run has still to take.
StepsLeft == PhasesLeft * PhaseSteps + RemovalLeft

\* Every step of run brings the process nearer to its exit, and no handler
\* sets it back, however many files it makes behind the cleaner.
RunAdvances ==
    [][/\ StepsLeft \in Nat
       /\ Main => StepsLeft' < StepsLeft
       /\ StepsLeft' <= StepsLeft]_vars

\* The directory the cleaner is in is one it has still to remove.
CleanerInv == inner # NoEntry => inner.dir \in todo /\ (Removing \/ main = "killed")

\* The cleaner stays within the names it has listed.
LEMMA CleanerInvariant == Spec => []CleanerInv
<1>1. Init => CleanerInv
  BY DEF Init, CleanerInv
<1>2. ASSUME TypeOK, CleanerInv, [Next]_vars
      PROVE  CleanerInv'
  <2> USE <1>2 DEF CleanerInv, Removing
  <2>1. CASE \E h \in Handlers : Start(h) \/ Handler(h)
    BY <2>1 DEF Start, Handler, GetBase, MakeDir, CreateTemp, Fetch, Link, Tidy, Discard, Open,
                Stream, UnwindTry, UnwindList, UnwindFile, UnwindDir
  <2>2. CASE Serve \/ Signal \/ ListenError \/ Close \/ Drained \/ DrainTimeout \/ CleanLock
    BY <2>2 DEF Serve, Signal, ListenError, Close, Drained, DrainTimeout, CleanLock
  <2>3. CASE CleanTry \/ CleanList \/ Kill \/ Gone \/ UNCHANGED vars
    BY <2>3 DEF CleanTry, CleanList, Kill, Gone
  <2>4. CASE CleanEnter
    BY <2>4 DEF CleanEnter, NoEntry
  <2>5. CASE CleanFile
    <3>1. inner # NoEntry /\ inner'.dir = inner.dir /\ UNCHANGED <<main, todo>>
      BY <2>5 DEF CleanFile, NoEntry
    <3> QED BY <2>5, <3>1 DEF CleanFile
  <2>6. CASE CleanDir \/ CleanBase
    BY <2>6 DEF CleanDir, CleanBase
  <2> QED BY <2>1, <2>2, <2>3, <2>4, <2>5, <2>6, <1>2 DEF Next, Main
<1> QED BY <1>1, <1>2, TypeCorrect, PTL DEF Spec

\* A directory of a download holds two files at most.
LEMMA NamesCount ==
    ASSUME NEW N \in SUBSET Names
    PROVE  IsFiniteSet(N) /\ Cardinality(N) \in 0..2
<1>1. IsFiniteSet({"temp"}) /\ Cardinality({"temp"}) = 1
  BY FS_Singleton
<1>2. Names = {"temp"} \cup {"payload"}
  BY DEF Names
<1>3. IsFiniteSet(Names) /\ Cardinality(Names) = 2
  BY <1>1, <1>2, FS_AddElement
<1> QED BY <1>3, FS_Subset, FS_CardinalityType

\* The directories to remove are the handlers'.
LEMMA TodoCount ==
    ASSUME NEW S \in SUBSET Handlers
    PROVE  /\ IsFiniteSet(S)
           /\ Cardinality(S) \in 0..Cardinality(Handlers)
           /\ Cardinality(Handlers) \in Nat
           /\ \A h \in S : /\ Cardinality(S) >= 1
                           /\ Cardinality(S \ {h}) = Cardinality(S) - 1
<1>1. IsFiniteSet(S) /\ Cardinality(S) <= Cardinality(Handlers)
  BY FS_Subset
<1>2. Cardinality(S) \in Nat /\ Cardinality(Handlers) \in Nat
  BY <1>1, FS_CardinalityType
<1>3. ASSUME NEW h \in S
      PROVE  Cardinality(S) >= 1 /\ Cardinality(S \ {h}) = Cardinality(S) - 1
  <2>1. S # {}
    OBVIOUS
  <2>2. Cardinality(S) # 0
    BY <1>1, <2>1, FS_EmptySet
  <2>3. Cardinality(S \ {h}) = Cardinality(S) - 1
    BY <1>1, FS_RemoveElement
  <2> QED BY <1>2, <2>2, <2>3
<1> QED BY <1>1, <1>2, <1>3

\* What is left of the removal stays below what a phase counts for.
LEMMA RemovalBounds ==
    TypeOK /\ CleanerInv => /\ RemovalLeft \in 0..PhaseSteps - 1
                            /\ PhaseSteps \in Nat \ {0}
                            /\ PhasesLeft \in 0..11
<1> SUFFICES ASSUME TypeOK, CleanerInv
             PROVE  /\ RemovalLeft \in 0..PhaseSteps - 1
                    /\ PhaseSteps \in Nat \ {0}
                    /\ PhasesLeft \in 0..11
  OBVIOUS
<1>1. /\ Cardinality(todo) \in 0..Cardinality(Handlers) /\ Cardinality(Handlers) \in Nat
      /\ \A h \in todo : Cardinality(todo) >= 1
  BY TodoCount DEF TypeOK
<1>2. Cardinality(inner.names) \in 0..2
  BY NamesCount DEF TypeOK
<1>3. RemovalLeft \in 0..PhaseSteps - 1
  BY <1>1, <1>2 DEF RemovalLeft, PhaseSteps, CleanerInv
<1>4. PhasesLeft \in 0..11
  BY DEF PhasesLeft, TypeOK, Cleaning
<1> QED BY <1>1, <1>3, <1>4 DEF PhaseSteps

\* A phase less outweighs whatever is left of a removal.
LEMMA PhaseOutweighs ==
    ASSUME NEW K \in Nat \ {0}, NEW p \in Nat, NEW q \in Nat,
           NEW a \in 0..K - 1, NEW b \in 0..K - 1
    PROVE  /\ p * K + a \in Nat
           /\ q < p => q * K + b < p * K + a
           /\ b < a => p * K + b < p * K + a
<1>1. p * K \in Nat /\ q * K \in Nat
  OBVIOUS
<1>2. ASSUME q < p
      PROVE  q * K + K <= p * K
  <2>1. PICK d \in Nat : p = q + 1 + d
    <3>1. p - q - 1 \in Nat /\ p = q + 1 + (p - q - 1)
      BY <1>2
    <3> QED BY <3>1
  <2>2. p * K = q * K + K + d * K /\ d * K \in Nat
    BY <2>1
  <2> QED BY <1>1, <2>2
<1> QED BY <1>1, <1>2

\* Each step of the removal leaves less of it.
LEMMA RemovalAdvances ==
    ASSUME TypeOK, CleanerInv, CleanEnter \/ CleanFile \/ CleanDir
    PROVE  RemovalLeft' < RemovalLeft /\ UNCHANGED main
<1>1. /\ Cardinality(todo) \in Nat
      /\ \A h \in todo : /\ Cardinality(todo) >= 1
                         /\ Cardinality(todo \ {h}) = Cardinality(todo) - 1
  BY TodoCount DEF TypeOK
<1>2. IsFiniteSet(inner.names) /\ Cardinality(inner.names) \in 0..2
  BY NamesCount DEF TypeOK
<1>3. CASE CleanEnter
  <2>1. PICK h \in todo : inner' = [dir |-> h, names |-> files[h]]
    BY <1>3 DEF CleanEnter
  <2>2. inner' # NoEntry /\ inner'.names = files[h]
    BY <2>1 DEF NoEntry, TypeOK
  <2>3. Cardinality(inner'.names) \in 0..2
    BY <2>2, NamesCount DEF TypeOK
  <2>4. inner = NoEntry /\ Removing /\ Removing' /\ UNCHANGED <<main, todo>>
    BY <1>3 DEF CleanEnter, Removing
  <2> QED BY <1>1, <2>2, <2>3, <2>4 DEF RemovalLeft
<1>4. CASE CleanFile
  <2>1. PICK f \in inner.names : inner' = [dir |-> inner.dir, names |-> inner.names \ {f}]
    BY <1>4 DEF CleanFile
  <2>2. inner # NoEntry /\ Removing /\ Removing' /\ UNCHANGED <<main, todo>>
    BY <1>4 DEF CleanFile, NoEntry, Removing
  <2>3. inner.dir \in Handlers
    BY <2>2 DEF CleanerInv, TypeOK
  <2>4. inner' # NoEntry /\ inner'.names = inner.names \ {f}
    BY <2>1, <2>3 DEF NoEntry
  <2>5. Cardinality(inner'.names) = Cardinality(inner.names) - 1
    BY <1>2, <2>4, FS_RemoveElement
  <2> QED BY <1>1, <1>2, <2>2, <2>4, <2>5 DEF RemovalLeft
<1>5. CASE CleanDir
  <2>1. /\ inner # NoEntry /\ inner.names = {} /\ inner.dir \in todo
        /\ Removing /\ Removing' /\ UNCHANGED main
        /\ inner' = NoEntry /\ todo' = todo \ {inner.dir}
    BY <1>5 DEF CleanDir, Removing, CleanerInv
  <2>2. Cardinality(inner.names) = 0
    BY <2>1, FS_EmptySet
  <2> QED BY <1>1, <2>1, <2>2 DEF RemovalLeft
<1> QED BY <1>3, <1>4, <1>5

\* Once run has begun to end, the process is over after a bounded number of its
\* steps, for any finite set of handlers and whatever they are stuck in.
THEOREM RunAdvancesHolds == Spec => RunAdvances
<1> DEFINE Progress == /\ StepsLeft \in Nat
                       /\ Main => StepsLeft' < StepsLeft
                       /\ StepsLeft' <= StepsLeft
<1>1. (TypeOK /\ CleanerInv => /\ RemovalLeft \in 0..PhaseSteps - 1
                               /\ PhaseSteps \in Nat \ {0}
                               /\ PhasesLeft \in 0..11)'
  BY RemovalBounds, PTL
<1>2. ASSUME TypeOK, CleanerInv, TypeOK', CleanerInv', [Next]_vars
      PROVE  Progress
  <2>1. /\ RemovalLeft \in 0..PhaseSteps - 1 /\ PhaseSteps \in Nat \ {0}
        /\ PhasesLeft \in Nat
    BY <1>2, RemovalBounds
  <2>2. RemovalLeft' \in 0..PhaseSteps - 1 /\ PhasesLeft' \in Nat
    BY <1>1, <1>2 DEF PhaseSteps
  <2>3. /\ StepsLeft = PhasesLeft * PhaseSteps + RemovalLeft
        /\ StepsLeft' = PhasesLeft' * PhaseSteps + RemovalLeft'
    BY DEF StepsLeft, PhaseSteps
  <2>4. StepsLeft \in Nat /\ StepsLeft' \in Nat
    BY <2>1, <2>2, <2>3, PhaseOutweighs
  <2>5. ASSUME PhasesLeft' < PhasesLeft
        PROVE  Progress
    <3>1. StepsLeft' < StepsLeft
      BY <2>1, <2>2, <2>3, <2>5, PhaseOutweighs
    <3> QED BY <2>4, <3>1
  <2>6. ASSUME UNCHANGED main, RemovalLeft' < RemovalLeft
        PROVE  Progress
    <3>1. PhasesLeft' = PhasesLeft
      BY <2>6 DEF PhasesLeft
    <3>2. StepsLeft' < StepsLeft
      BY <2>1, <2>2, <2>3, <2>6, <3>1, PhaseOutweighs
    <3> QED BY <2>4, <3>2
  <2>7. CASE Serve \/ Close \/ Drained \/ DrainTimeout \/ CleanList \/ Signal \/ ListenError
    BY <2>5, <2>7 DEF Serve, Close, Drained, DrainTimeout, CleanList, Signal, ListenError,
                      PhasesLeft
  <2>8. CASE CleanLock
    BY <2>5, <2>8 DEF CleanLock, After, PhasesLeft
  <2>9. CASE CleanBase
    BY <2>5, <2>9 DEF CleanBase, Cleaned, Removing, After, PhasesLeft
  <2>13. CASE CleanTry
    BY <2>5, <2>13 DEF CleanTry, Cleaned, After, PhasesLeft
  <2>10. CASE CleanEnter \/ CleanFile \/ CleanDir
    BY <1>2, <2>6, <2>10, RemovalAdvances
  <2>11. CASE Kill
    <3>1. PhasesLeft' < PhasesLeft
      BY <1>2, <2>11 DEF Kill, PhasesLeft, TypeOK, Cleaning
    <3> QED BY <2>5, <3>1
  <2>12. CASE ~Main /\ ((\E h \in Handlers : Start(h) \/ Handler(h)) \/ Gone \/ UNCHANGED vars)
    <3>1. UNCHANGED <<main, todo, inner>>
      BY <2>12 DEF Start, Handler, GetBase, MakeDir, CreateTemp, Fetch, Link, Tidy, Discard,
                   Open, Stream, UnwindTry, UnwindList, UnwindFile, UnwindDir, Gone
    <3>2. StepsLeft' = StepsLeft
      BY <3>1 DEF StepsLeft, PhasesLeft, PhaseSteps, RemovalLeft, Removing
    <3> QED BY <2>4, <2>12, <3>2
  <2> QED
    BY <1>2, <2>7, <2>8, <2>9, <2>10, <2>11, <2>12, <2>13 DEF Next, Main
<1>3. TypeOK /\ CleanerInv /\ TypeOK' /\ CleanerInv' /\ [Next]_vars => [Progress]_vars
  BY <1>2
<1> QED BY <1>3, TypeCorrect, CleanerInvariant, PTL DEF Spec, RunAdvances

=============================================================================
