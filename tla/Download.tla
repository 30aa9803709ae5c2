------------------------------ MODULE Download ------------------------------
(***************************************************************************)
(* The two implementations of courseProvider.Download: Provider.Download   *)
(* (internal/tjucli/provider.go), which fetches from the course host, and  *)
(* Client.Download (internal/remote/client.go), which fetches from the     *)
(* tool server.  Several run at once against one target path, beside other *)
(* programs that create and remove it.                                     *)
(*                                                                         *)
(* Both write a temporary sibling and publish it with link(2).  A file is  *)
(* an inode and its names: the target, once published, is the inode the    *)
(* temporary name also refers to, so a later write would show through.     *)
(*                                                                         *)
(* Error codes are kept where a property tells them apart; what the peer   *)
(* does wrong, and what is wrong with the arguments, is one code each.     *)
(***************************************************************************)
EXTENDS Integers

CONSTANTS
    Downloads,  \* calls of Download, each made once
    Remote,     \* those of Client.Download; the others are Provider.Download
    MaxBytes,   \* maxBytes, in units of the transfer
    Absent,     \* the target does not exist
    Foreign,    \* the target is another program's
    Unknown     \* the response declares no Content-Length

ASSUME RemoteAssumption == Remote \subseteq Downloads
ASSUME BytesAssumption  == MaxBytes \in Nat \ {0}
ASSUME ValuesAssumption == /\ Absent \notin Downloads /\ Foreign \notin Downloads
                           /\ Absent # Foreign
                           /\ Unknown \notin Nat

VARIABLES
    pc,         \* where each call stands
    error,      \* the code a call returns, "none" while there is none
    target,     \* what the target path names: Absent, Foreign or an inode
    parent,     \* the target's directory exists
    temps,      \* calls whose temporary name exists
    body,       \* content of each call's inode
    declared,   \* Content-Length of each call's response
    cancelled,  \* calls whose context was done before they looked at it
    collided    \* history: calls whose link was refused for an existing target

fs    == <<target, parent, temps>>
calls == <<pc, error, body, declared, cancelled, collided>>
vars  == <<fs, calls>>

Empty == [len |-> 0, intact |-> TRUE]

Init ==
    /\ pc = [d \in Downloads |-> "start"]
    /\ error = [d \in Downloads |-> "none"]
    /\ parent \in BOOLEAN
    /\ target \in IF parent THEN {Absent, Foreign} ELSE {Absent}
    /\ temps = {}
    /\ body = [d \in Downloads |-> Empty]
    /\ declared = [d \in Downloads |-> Unknown]
    /\ cancelled = {}
    /\ collided = {}

-----------------------------------------------------------------------------
(* Helpers                                                                 *)

Goto(d, from, to) == pc[d] = from /\ pc' = [pc EXCEPT ![d] = to]

\* An error return before there is a temporary file, and after.
Refuse(d, from, code) ==
    /\ Goto(d, from, "returned")
    /\ error' = [error EXCEPT ![d] = code]

Fail(d, from, code) ==
    /\ Goto(d, from, "discard")
    /\ error' = [error EXCEPT ![d] = code]

-----------------------------------------------------------------------------
(* Preparation                                                             *)

\* The arguments are checked, the output path is resolved and, in a Client,
\* confined to the working directory; then the target is inspected.
Inspect(d) ==
    /\ \/ /\ target = Absent
          /\ Goto(d, "start", IF d \in Remote THEN "mkdir" ELSE "create")
          /\ UNCHANGED error
       \/ target # Absent /\ Refuse(d, "start", "target_exists")
       \/ Refuse(d, "start", "invalid_argument")
       \/ Refuse(d, "start", "filesystem_error")
    /\ UNCHANGED <<fs, body, declared, cancelled, collided>>

\* Only a Client makes the directory, and it stays whatever happens later.
MakeParent(d) ==
    /\ \/ Goto(d, "mkdir", "create") /\ parent' = TRUE /\ UNCHANGED error
       \/ Refuse(d, "mkdir", "filesystem_error") /\ UNCHANGED parent
    /\ UNCHANGED <<target, temps, body, declared, cancelled, collided>>

CreateTemp(d) ==
    /\ \/ /\ parent
          /\ Goto(d, "create", "request")
          /\ temps' = temps \cup {d}
          /\ UNCHANGED error
       \/ Refuse(d, "create", "filesystem_error") /\ UNCHANGED temps
    /\ UNCHANGED <<target, parent, body, declared, cancelled, collided>>

-----------------------------------------------------------------------------
(* The transfer                                                            *)

\* A declared length the call goes on with: a Client insists on one.
Acceptable(d, n) == IF n = Unknown THEN d \notin Remote ELSE n <= MaxBytes

\* The response's header arrives, or the request fails, or the status, the
\* media type, the redirect, the checksum header or the length is refused.
Request(d) ==
    /\ \/ \E n \in 0..MaxBytes + 1 \cup {Unknown} :
            /\ Acceptable(d, n)
            /\ Goto(d, "request", "copy")
            /\ declared' = [declared EXCEPT ![d] = n]
            /\ UNCHANGED error
       \/ Fail(d, "request", "download_failed") /\ UNCHANGED declared
    /\ UNCHANGED <<fs, body, cancelled, collided>>

\* Mutant: the body is copied without a limit.
CopyUnlimited(d) ==
    /\ Goto(d, "copy", "copy")
    /\ body' = [body EXCEPT ![d] = [len    |-> body[d].len + 1,
                                   intact |-> body[d].intact]]
    /\ UNCHANGED <<fs, error, declared, cancelled, collided>>

\* One more unit of the body, true to what the peer announced or not.
Copy(d) ==
    /\ body[d].len <= MaxBytes             \* io.LimitReader(resp.Body, maxBytes+1)
    /\ Goto(d, "copy", "copy")
    /\ \E good \in BOOLEAN :
         body' = [body EXCEPT ![d] = [len    |-> body[d].len + 1,
                                      intact |-> body[d].intact /\ good]]
    /\ UNCHANGED <<fs, error, declared, cancelled, collided>>

\* The body ends, however short, or the limit cuts it.
CopyEnds(d) ==
    /\ Goto(d, "copy", "verify")
    /\ UNCHANGED <<fs, error, body, declared, cancelled, collided>>

\* Reset, timeout of the HTTP client, context done, disk full.
CopyFails(d) ==
    /\ Fail(d, "copy", "download_failed")
    /\ UNCHANGED <<fs, body, declared, cancelled, collided>>

\* Mutant: a body longer than the limit is only noticed by a declared length.
VerifiedUnbounded(d) ==
    /\ declared[d] # Unknown => body[d].len = declared[d]
    /\ d \in Remote => body[d].intact

\* Size, declared length and, in a Client, the announced checksum.
Verified(d) ==
    /\ body[d].len <= MaxBytes
    /\ declared[d] # Unknown => body[d].len = declared[d]
    /\ d \in Remote => body[d].intact

\* The checks, then fsync and close, which can fail.
Verify(d) ==
    /\ \/ /\ Verified(d)
          /\ Goto(d, "verify", IF d \in Remote THEN "context" ELSE "link")
          /\ UNCHANGED error
       \/ ~Verified(d) /\ Fail(d, "verify", "download_failed")
       \/ Fail(d, "verify", "filesystem_error")
    /\ UNCHANGED <<fs, body, declared, cancelled, collided>>

-----------------------------------------------------------------------------
(* Publication                                                             *)

\* Mutant: the context is not looked at again.
CheckContextNot(d) ==
    /\ Goto(d, "context", "reinspect")
    /\ UNCHANGED <<fs, error, body, declared, cancelled, collided>>

\* A Client looks at its context once more.
CheckContext(d) ==
    /\ \/ d \notin cancelled /\ Goto(d, "context", "reinspect") /\ UNCHANGED error
       \/ d \in cancelled /\ Fail(d, "context", "download_failed")
    /\ UNCHANGED <<fs, body, declared, cancelled, collided>>

\* And at the target.
Reinspect(d) ==
    /\ \/ target = Absent /\ Goto(d, "reinspect", "link") /\ UNCHANGED error
       \/ target # Absent /\ Fail(d, "reinspect", "target_exists")
       \/ Fail(d, "reinspect", "filesystem_error")
    /\ UNCHANGED <<fs, body, declared, cancelled, collided>>

\* Mutant: rename(2) in the place of link(2).
LinkByRename(d) ==
    /\ Goto(d, "link", "tidy")
    /\ target' = d
    /\ UNCHANGED <<parent, temps, error, body, declared, cancelled, collided>>

\* Mutant: every refusal is explained by a second look at the target.
LinkUnexplained(d) ==
    /\ \/ target = Absent /\ Goto(d, "link", "tidy") /\ target' = d /\ UNCHANGED collided
       \/ /\ target # Absent /\ Goto(d, "link", "explain")
          /\ collided' = collided \cup {d} /\ UNCHANGED target
    /\ UNCHANGED <<parent, temps, error, body, declared, cancelled>>

\* link(2) is atomic and never replaces.  A Client recognises EEXIST; a
\* Provider, like a Client on any other error, looks at the target again.
Link(d) ==
    /\ \/ /\ target = Absent
          /\ target' = d
          /\ Goto(d, "link", "tidy")
          /\ UNCHANGED <<error, collided>>
       \/ /\ target # Absent
          /\ collided' = collided \cup {d}
          /\ \/ d \in Remote /\ Fail(d, "link", "target_exists")
             \/ d \notin Remote /\ Goto(d, "link", "explain") /\ UNCHANGED error
          /\ UNCHANGED target
       \/ Goto(d, "link", "explain") /\ UNCHANGED <<target, error, collided>>
    /\ UNCHANGED <<parent, temps, body, declared, cancelled>>

\* Mutant: a link that failed for no visible reason is tried again.
ExplainRetries(d) ==
    /\ \/ target # Absent /\ Fail(d, "explain", "target_exists")
       \/ target = Absent /\ Goto(d, "explain", "link") /\ UNCHANGED error
    /\ UNCHANGED <<fs, body, declared, cancelled, collided>>

Explain(d) ==
    /\ \/ target # Absent /\ Fail(d, "explain", "target_exists")
       \/ target = Absent /\ Fail(d, "explain", "filesystem_error")
    /\ UNCHANGED <<fs, body, declared, cancelled, collided>>

\* Published: the temporary name goes, the result is returned.
Tidy(d) ==
    /\ Goto(d, "tidy", "returned")
    /\ temps' = temps \ {d}
    /\ UNCHANGED <<target, parent, error, body, declared, cancelled, collided>>

\* Mutant: published is set although the target was taken.
DiscardSkipped(d) ==
    /\ Goto(d, "discard", "returned")
    /\ temps' = IF error[d] = "target_exists" THEN temps ELSE temps \ {d}
    /\ UNCHANGED <<target, parent, error, body, declared, cancelled, collided>>

\* The deferred close and removal of an unpublished temporary file.
Discard(d) ==
    /\ Goto(d, "discard", "returned")
    /\ temps' = temps \ {d}
    /\ UNCHANGED <<target, parent, error, body, declared, cancelled, collided>>

-----------------------------------------------------------------------------
(* The environment                                                         *)

Running(d) == pc[d] \notin {"returned", "crashed"}

\* SIGINT, SIGTERM or the server's deadline.  Requests and transfers may or
\* may not notice; after CheckContext nothing looks at the context.
Cancel(d) ==
    /\ pc[d] \in {"start", "mkdir", "create", "request", "copy", "verify", "context"}
    /\ cancelled' = cancelled \cup {d}
    /\ UNCHANGED <<fs, pc, error, body, declared, collided>>

\* SIGKILL.
Crash(d) ==
    /\ Running(d)
    /\ pc' = [pc EXCEPT ![d] = "crashed"]
    /\ UNCHANGED <<fs, error, body, declared, cancelled, collided>>

\* Another program creates, replaces or removes the target.
Interfere ==
    /\ target' \in {Absent, Foreign}
    /\ parent' = (parent \/ target' = Foreign)
    /\ UNCHANGED <<temps, calls>>

Step(d) ==
    \/ Inspect(d) \/ MakeParent(d) \/ CreateTemp(d) \/ Request(d)
    \/ Copy(d) \/ CopyEnds(d) \/ CopyFails(d) \/ Verify(d)
    \/ CheckContext(d) \/ Reinspect(d) \/ Link(d) \/ Explain(d) \/ Tidy(d) \/ Discard(d)

Next == Interfere \/ \E d \in Downloads : Step(d) \/ Cancel(d) \/ Crash(d)

\* The HTTP clients' timeouts make every transfer end (provider.go:37,
\* client.go:207), and a call runs on while it is not killed.
Spec     == Init /\ [][Next]_vars
FairSpec == Spec /\ \A d \in Downloads : WF_vars(Step(d))

-----------------------------------------------------------------------------
(* Properties                                                              *)

Codes == {"none", "invalid_argument", "target_exists", "filesystem_error", "download_failed"}

Phases == {"start", "mkdir", "create", "request", "copy", "verify", "context", "reinspect",
           "link", "explain", "tidy", "discard", "returned", "crashed"}

\* Types; the temporary file stays within one unit of the limit, and what has
\* a name has a directory.
TypeOK ==
    /\ pc \in [Downloads -> Phases]
    /\ error \in [Downloads -> Codes]
    /\ target \in {Absent, Foreign} \cup Downloads
    /\ parent \in BOOLEAN
    /\ temps \subseteq Downloads
    /\ body \in [Downloads -> [len : 0..MaxBytes + 1, intact : BOOLEAN]]
    /\ declared \in [Downloads -> 0..MaxBytes \cup {Unknown}]
    /\ cancelled \subseteq Downloads
    /\ collided \subseteq Downloads
    /\ target # Absent => parent
    /\ temps # {} => parent

\* The content a call set out to fetch: all of it, and within the limit.
Whole(d) ==
    /\ body[d].len <= MaxBytes
    /\ declared[d] \in {Unknown, body[d].len}
    /\ d \in Remote => declared[d] # Unknown /\ body[d].intact

\* Whatever the target names on behalf of a download is whole, at every
\* moment and also after a kill: no reader of the path sees a partial file.
TargetWhole == target \in Downloads => Whole(target)

\* A call that has returned has left no temporary name, whichever of its error
\* returns it took; only a killed call leaves one (TOOL_SERVER.md:42).
NothingLeft == \A d \in Downloads : pc[d] = "returned" => d \notin temps

\* A Client whose context is done before its last look never publishes, even
\* when the transfer had already succeeded.
CancelledUnpublished ==
    \A d \in Remote \cap cancelled :
        target # d /\ pc[d] \notin {"reinspect", "link", "explain", "tidy"}

\* When a Client loses the race for the target it says so, even if the winner
\* is removed before it can look.
CollisionReported ==
    \A d \in Remote \cap collided : error[d] = "target_exists"

\* Every call that is not killed returns.
Returns == \A d \in Downloads : <>(~Running(d))

\* The calls keep the promise of module Publication.
Status(d) ==
    IF pc[d] = "tidy" THEN "published"
    ELSE IF pc[d] = "crashed" THEN "crashed"
    ELSE IF pc[d] # "returned" THEN "running"
    ELSE IF error[d] = "none" THEN "succeeded" ELSE "failed"

Promised == INSTANCE Publication WITH status <- [d \in Downloads |-> Status(d)]

\* Seen from outside, a call publishes a file in one step, only where there is
\* none, reports success only after that, and fails without touching the target.
KeepsPromise == Promised!Spec

=============================================================================
