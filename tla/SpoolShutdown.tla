---------------------------- MODULE SpoolShutdown ----------------------------
(***************************************************************************)
(* The spool directory of the tool server, from NewServer to the exit of   *)
(* the process: download handlers create their own directory below it      *)
(* (handleCourseDownload, with Provider.Download inside), while run in     *)
(* cmd/tjucli-server drains or closes the server and removes the whole     *)
(* tree.                                                                   *)
(*                                                                         *)
(* A removal is not atomic: os.RemoveAll tries to remove the directory as  *)
(* it is, which an empty one lets it do; otherwise it lists the directory  *)
(* once, removes what it saw and tries the directory again, which fails    *)
(* when something has appeared meanwhile.  Both callers ignore the error.  *)
(***************************************************************************)
EXTENDS FiniteSets

CONSTANT Handlers       \* requests for a download, each served once

NoDir == "no directory"

ASSUME HandlersAssumption == IsFiniteSet(Handlers) /\ NoDir \notin Handlers

VARIABLES
    main,       \* where run stands
    runErr,     \* why run will return an error: "none", "listen" or "shutdown"
    spoolDir,   \* Server.spoolDir is not ""
    locked,     \* Server.spoolMu is held by cleanupSpoolDir
    pc,         \* where each handler stands
    base,       \* the spool directory exists
    dl,         \* each handler's dl-* directory exists
    files,      \* what each dl-* directory holds
    listed,     \* names a handler's own RemoveAll has still to unlink
    todo,       \* dl-* names cleanupSpoolDir's RemoveAll has still to remove
    inner,      \* names it has still to unlink below the dl-* it is working on
    cutOff      \* history: handlers at work when the server was closed under them

disk    == <<base, dl, files>>
cleaner == <<todo, inner, cutOff>>
server  == <<main, runErr, spoolDir, locked>>
vars    == <<server, pc, disk, listed, cleaner>>

Names == {"temp", "payload"}

NoEntry == [dir |-> NoDir, names |-> {}]

Running(h) == pc[h] \notin {"idle", "done"}
Alive == main \notin {"exited", "killed"}

Init ==
    /\ main = "booting"         \* NewServer has just made the directory
    /\ runErr = "none"
    /\ spoolDir = TRUE
    /\ locked = FALSE
    /\ pc = [h \in Handlers |-> "idle"]
    /\ base = TRUE
    /\ dl = [h \in Handlers |-> FALSE]
    /\ files = [h \in Handlers |-> {}]
    /\ listed = [h \in Handlers |-> {}]
    /\ todo = {}
    /\ inner = NoEntry
    /\ cutOff = {}

-----------------------------------------------------------------------------
(* A download handler                                                      *)

Goto(h, from, to) == Alive /\ pc[h] = from /\ pc' = [pc EXCEPT ![h] = to]

\* A request on a connection accepted before the listener closed.
Start(h) ==
    /\ main \in {"serving", "draining", "closing"}
    /\ Goto(h, "idle", "base")
    /\ UNCHANGED <<server, disk, listed, cleaner>>

\* Reads spoolDir under spoolMu: 503 once it has been cleared.
GetBase(h) ==
    /\ ~locked
    /\ Goto(h, "base", IF spoolDir THEN "mkdir" ELSE "done")
    /\ UNCHANGED <<server, disk, listed, cleaner>>

\* os.MkdirTemp(baseSpool, "dl-*"), outside the lock: 503 when base is gone.
MakeDir(h) ==
    /\ Goto(h, "mkdir", IF base THEN "create" ELSE "done")
    /\ dl' = [dl EXCEPT ![h] = base]
    /\ UNCHANGED <<server, base, files, listed, cleaner>>

\* Provider.Download inspects the target and creates its temporary file next
\* to it; without the directory it fails.
CreateTemp(h) ==
    /\ Goto(h, "create", IF dl[h] THEN "fetch" ELSE "unwind")
    /\ files' = [files EXCEPT ![h] = IF dl[h] THEN @ \cup {"temp"} ELSE @]
    /\ UNCHANGED <<server, base, dl, listed, cleaner>>

\* The transfer succeeds, or fails on the upstream, the size or the context.
Fetch(h) ==
    /\ \E next \in {"link", "discard"} : Goto(h, "fetch", next)
    /\ UNCHANGED <<server, disk, listed, cleaner>>

\* os.Link(temp, target): fails when the temporary file has been removed.
Link(h) ==
    /\ Goto(h, "link", IF "temp" \in files[h] THEN "tidy" ELSE "discard")
    /\ files' = [files EXCEPT ![h] = IF "temp" \in @ THEN @ \cup {"payload"} ELSE @]
    /\ UNCHANGED <<server, base, dl, listed, cleaner>>

\* Published: os.Remove(temp) before returning.
Tidy(h) ==
    /\ Goto(h, "tidy", "open")
    /\ files' = [files EXCEPT ![h] = @ \ {"temp"}]
    /\ UNCHANGED <<server, base, dl, listed, cleaner>>

\* Mutant: a provider error returns before the directory's removal is deferred.
DiscardReturns(h) ==
    /\ Goto(h, "discard", "done")
    /\ files' = [files EXCEPT ![h] = @ \ {"temp"}]
    /\ UNCHANGED <<server, base, dl, listed, cleaner>>

\* Not published: the deferred os.Remove(temp).
Discard(h) ==
    /\ Goto(h, "discard", "unwind")
    /\ files' = [files EXCEPT ![h] = @ \ {"temp"}]
    /\ UNCHANGED <<server, base, dl, listed, cleaner>>

\* Context check, then os.Open: 502 when the payload is gone.
Open(h) ==
    /\ \/ "payload" \in files[h] /\ Goto(h, "open", "stream")
       \/ Goto(h, "open", "unwind")
    /\ UNCHANGED <<server, disk, listed, cleaner>>

\* Verification and streaming, complete or cut short.  The open descriptor
\* survives the removal of the name.
Stream(h) ==
    /\ Goto(h, "stream", "unwind")
    /\ UNCHANGED <<server, disk, listed, cleaner>>

\* The deferred os.RemoveAll(reqSpoolDir): a first rmdir, which is all there is
\* to do for a directory that is empty or gone; else list, unlink each, rmdir.
UnwindTry(h) ==
    /\ Goto(h, "unwind", IF files[h] = {} THEN "done" ELSE "list")
    /\ dl' = [dl EXCEPT ![h] = files[h] # {}]
    /\ UNCHANGED <<server, base, files, listed, cleaner>>

UnwindList(h) ==
    /\ Goto(h, "list", "unlink")
    /\ listed' = [listed EXCEPT ![h] = files[h]]
    /\ UNCHANGED <<server, disk, cleaner>>

UnwindFile(h) ==
    /\ \E f \in listed[h] :
        /\ files' = [files EXCEPT ![h] = @ \ {f}]
        /\ listed' = [listed EXCEPT ![h] = @ \ {f}]
    /\ Goto(h, "unlink", "unlink")
    /\ UNCHANGED <<server, base, dl, cleaner>>

UnwindDir(h) ==
    /\ listed[h] = {}
    /\ Goto(h, "unlink", "done")
    /\ dl' = [dl EXCEPT ![h] = dl[h] /\ files[h] # {}]
    /\ UNCHANGED <<server, base, files, listed, cleaner>>

Handler(h) ==
    \/ GetBase(h) \/ MakeDir(h) \/ CreateTemp(h) \/ Fetch(h) \/ Link(h) \/ Tidy(h)
    \/ Discard(h) \/ Open(h) \/ Stream(h) \/ UnwindTry(h) \/ UnwindList(h)
    \/ UnwindFile(h) \/ UnwindDir(h)

-----------------------------------------------------------------------------
(* run: serve, shut down, clean up, exit                                   *)

Proceed(from, to) == main = from /\ main' = to

\* signal.NotifyContext is in place and the listener is open.
Serve ==
    /\ Proceed("booting", "serving")
    /\ UNCHANGED <<runErr, spoolDir, locked, pc, disk, listed, cleaner>>

\* SIGINT or SIGTERM: Shutdown closes the listener and waits for handlers.
Signal ==
    /\ Proceed("serving", "draining")
    /\ UNCHANGED <<runErr, spoolDir, locked, pc, disk, listed, cleaner>>

\* Mutant: the error is returned without the deferred Close.
ListenErrorReturns ==
    /\ Proceed("serving", "exited")
    /\ runErr' = "listen"
    /\ UNCHANGED <<spoolDir, locked, pc, disk, listed, cleaner>>

\* ListenAndServe fails: run returns the error through its deferred function.
ListenError ==
    /\ Proceed("serving", "closing")
    /\ runErr' = "listen"
    /\ UNCHANGED <<spoolDir, locked, pc, disk, listed, cleaner>>

\* Close closes the connections under the handlers and waits for nobody.
Close ==
    /\ Proceed("closing", "deferred")
    /\ cutOff' = {h \in Handlers : Running(h)}
    /\ UNCHANGED <<runErr, spoolDir, locked, pc, disk, listed, todo, inner>>

\* Mutant: the drain does not wait.
DrainedAtOnce ==
    /\ Proceed("draining", "cleanup")
    /\ UNCHANGED <<runErr, spoolDir, locked, pc, disk, listed, cleaner>>

\* http.Server.Shutdown returns nil: every connection has become idle.
Drained ==
    /\ \A h \in Handlers : ~Running(h)
    /\ Proceed("draining", "cleanup")
    /\ UNCHANGED <<runErr, spoolDir, locked, pc, disk, listed, cleaner>>

\* Mutant: Shutdown is given a context without a timeout.
DrainForever == FALSE /\ UNCHANGED vars

\* The ten seconds of main.go:87 are over: Shutdown closes the connections
\* under the handlers and goes on to the cleanup without waiting for them.
DrainTimeout ==
    /\ \E h \in Handlers : Running(h)
    /\ Proceed("draining", "cleanup")
    /\ runErr' = "shutdown"
    /\ cutOff' = {h \in Handlers : Running(h)}
    /\ UNCHANGED <<spoolDir, locked, pc, disk, listed, todo, inner>>

\* cleanupSpoolDir takes spoolMu.  With spoolDir already cleared there is
\* nothing left to do.
After(phase) == IF phase = "cleanup" /\ runErr # "none" THEN "deferred" ELSE "exited"

CleanLock ==
    /\ main \in {"cleanup", "deferred"} /\ ~locked
    /\ IF spoolDir
         THEN locked' = TRUE /\ main' = IF main = "cleanup" THEN "try" ELSE "tryDeferred"
         ELSE UNCHANGED locked /\ main' = After(main)
    /\ UNCHANGED <<runErr, spoolDir, pc, disk, listed, cleaner>>

\* cleanupSpoolDir clears spoolDir, whatever has come of the removal, unlocks
\* and returns.
Cleaned(early) ==
    /\ spoolDir' = FALSE
    /\ locked' = FALSE
    /\ main' = IF main = early THEN After("cleanup") ELSE "exited"

\* os.RemoveAll(spoolDir) begins with a rmdir, which an empty directory allows.
CleanTry ==
    /\ main \in {"try", "tryDeferred"}
    /\ \/ /\ \A h \in Handlers : ~dl[h]
          /\ base' = FALSE
          /\ Cleaned("try")
       \/ /\ \E h \in Handlers : dl[h]
          /\ main' = IF main = "try" THEN "list" ELSE "listDeferred"
          /\ UNCHANGED <<base, spoolDir, locked>>
    /\ UNCHANGED <<runErr, pc, dl, files, listed, cleaner>>

\* Otherwise it reads the names in the directory.
CleanList ==
    /\ \/ Proceed("list", "remove") \/ Proceed("listDeferred", "removeDeferred")
    /\ todo' = {h \in Handlers : dl[h]}
    /\ UNCHANGED <<runErr, spoolDir, locked, pc, disk, listed, inner, cutOff>>

Removing == main \in {"remove", "removeDeferred"}

\* It descends into the next dl-* directory and reads its names.
CleanEnter ==
    /\ Removing /\ inner = NoEntry
    /\ \E h \in todo : inner' = [dir |-> h, names |-> files[h]]
    /\ UNCHANGED <<server, pc, disk, listed, todo, cutOff>>

CleanFile ==
    /\ Removing
    /\ \E f \in inner.names :
        /\ files' = [files EXCEPT ![inner.dir] = @ \ {f}]
        /\ inner' = [dir |-> inner.dir, names |-> inner.names \ {f}]
    /\ UNCHANGED <<server, pc, base, dl, listed, todo, cutOff>>

CleanDir ==
    /\ Removing /\ inner # NoEntry /\ inner.names = {}
    /\ dl' = [dl EXCEPT ![inner.dir] = @ /\ files[inner.dir] # {}]
    /\ todo' = todo \ {inner.dir}
    /\ inner' = NoEntry
    /\ UNCHANGED <<server, pc, base, files, listed, cutOff>>

\* Mutant: the unlock is not deferred and an error of the removal skips it.
CleanBaseKeepsLock ==
    /\ Removing /\ todo = {} /\ inner = NoEntry
    /\ base' = (\E h \in Handlers : dl[h])
    /\ spoolDir' = FALSE
    /\ locked' = base'
    /\ main' = IF main = "remove" THEN After("cleanup") ELSE "exited"
    /\ UNCHANGED <<runErr, pc, dl, files, listed, cleaner>>

\* The last rmdir, its error ignored.
CleanBase ==
    /\ Removing /\ todo = {} /\ inner = NoEntry
    /\ base' = (\E h \in Handlers : dl[h])
    /\ Cleaned("remove")
    /\ UNCHANGED <<runErr, pc, dl, files, listed, cleaner>>

Main ==
    \/ Serve \/ Close \/ Drained \/ DrainTimeout \/ CleanLock \/ CleanTry \/ CleanList
    \/ CleanEnter \/ CleanFile \/ CleanDir \/ CleanBase

\* SIGKILL at any time, or SIGTERM before signal.NotifyContext: no cleanup.
Kill ==
    /\ Alive
    /\ main' = "killed"
    /\ UNCHANGED <<runErr, spoolDir, locked, pc, disk, listed, cleaner>>

Gone == ~Alive /\ UNCHANGED vars

Next == Main \/ Signal \/ ListenError \/ Kill \/ Gone
            \/ \E h \in Handlers : Start(h) \/ Handler(h)

\* run's own steps happen, the drain timeout among them; a handler may stall
\* for as long as its client or its upstream does.
Spec     == Init /\ [][Next]_vars
FairSpec == Spec /\ WF_vars(Main)

-----------------------------------------------------------------------------
(* Properties                                                              *)

\* The phases of run in which cleanupSpoolDir holds spoolMu.
Cleaning == {"try", "list", "remove", "tryDeferred", "listDeferred", "removeDeferred"}

\* Types, and the shape of a file system: what exists has its parent.  The lock
\* that handlers wait for is held through the removal and never beyond it.
TypeOK ==
    /\ main \in Cleaning \cup {"booting", "serving", "draining", "cleanup", "closing",
                               "deferred", "exited", "killed"}
    /\ runErr \in {"none", "listen", "shutdown"} /\ spoolDir \in BOOLEAN /\ locked \in BOOLEAN
    /\ pc \in [Handlers -> {"idle", "base", "mkdir", "create", "fetch", "link", "tidy",
                            "discard", "open", "stream", "unwind", "list", "unlink", "done"}]
    /\ base \in BOOLEAN
    /\ dl \in [Handlers -> BOOLEAN]
    /\ files \in [Handlers -> SUBSET Names]
    /\ listed \in [Handlers -> SUBSET Names]
    /\ todo \subseteq Handlers
    /\ cutOff \subseteq Handlers
    /\ inner \in [dir : Handlers \cup {NoDir}, names : SUBSET Names]
    /\ \A h \in Handlers : (files[h] # {} => dl[h]) /\ (dl[h] => base)
    /\ main # "killed" => (locked <=> main \in Cleaning)

\* A request leaves nothing behind, whichever step it failed at and however
\* far the cleaner had got with the same directory.
OwnDirectoryGone == \A h \in Handlers : pc[h] = "done" => ~dl[h]

\* An orderly exit without an error has waited for every handler and has
\* removed the spool directory.
GracefulExit ==
    main = "exited" /\ runErr = "none" => ~base /\ \A h \in Handlers : ~Running(h)

\* The directory outlives an orderly exit only if the server was closed under
\* a handler at work, and what is in it belongs to such handlers.
LeftoverHasOwner ==
    main = "exited" /\ base => cutOff # {} /\ {h \in Handlers : dl[h]} \subseteq cutOff

\* A signal or a listener failure ends the process, whatever the handlers,
\* their clients and their upstreams are stuck in.
Exits == main \in {"draining", "closing"} ~> ~Alive

\* The comment at server.go:132: Shutdown closes active connections, then
\* cleans up the spool dir.
ExitCleans == main = "exited" /\ runErr # "listen" => ~base

=============================================================================
