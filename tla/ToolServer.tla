----------------------------- MODULE ToolServer -----------------------------
(***************************************************************************)
(* The request pipeline of the course tool server                          *)
(* (internal/toolserver/server.go and authorizer.go): every POST route     *)
(* runs behind withAuthAndLimit, which takes a slot of the semaphore,      *)
(* authorizes the bearer token against the grants file as it is now,       *)
(* clamps the request to a deadline and calls the route's handler.         *)
(*                                                                         *)
(* Each request runs in its own goroutine, so every statement that reads   *)
(* shared state (the semaphore, the grants file, the clock, the socket)    *)
(* is an action of its own.  What the download handler does on disk, and   *)
(* what a shutdown does to it, is in module SpoolShutdown.                 *)
(***************************************************************************)
EXTENDS Integers, FiniteSets

CONSTANTS
    Requests,       \* goroutines that serve requests, each one request at a time
    Tokens,         \* bearer tokens clients may present
    MaxConcurrency, \* ServerConfig.MaxConcurrency, the capacity of sem
    DefaultTimeout, \* ServerConfig.DefaultTimeout, in ticks
    Parts,          \* socket writes that a download, or a large envelope, takes
    Expiries,       \* the values expires_at takes in the grants file
    Horizon,        \* bound on time: nothing arrives at or after it
    NoToken,        \* the Authorization header is missing or malformed
    NoGrant,        \* the file holds no entry with this token's hash
    Unreadable      \* the file is missing, of the wrong mode, or malformed

Grants == [exp : Expiries, scoped : BOOLEAN]

\* What a read of the grants file yields.  A document with two entries for one
\* token is rejected as a whole (authorizer.go:205), hence a function.
Documents == [Tokens -> Grants \cup {NoGrant}] \cup {Unreadable}

ASSUME RequestsAssumption == IsFiniteSet(Requests)
ASSUME LimitAssumption    == MaxConcurrency \in Nat \ {0}
ASSUME TimeAssumption     == /\ DefaultTimeout \in Nat \ {0}
                             /\ Horizon \in Nat
                             /\ Expiries \subseteq Nat
ASSUME PartsAssumption    == Parts \in Nat \ {0}
ASSUME ValuesAssumption   == /\ NoToken \notin Tokens
                             /\ NoGrant \notin Grants
                             /\ Unreadable \notin [Tokens -> Grants \cup {NoGrant}]

VARIABLES
    clock,      \* the server's wall clock
    file,       \* the content of the grants file
    sem,        \* number of elements in the channel s.sem
    pc,         \* where each goroutine stands
    token,      \* the bearer token of the request
    doc,        \* the document Authorize read for the request
    grant,      \* the grant Authorize returned
    timeout,    \* min(DefaultTimeout, remaining)
    deadline,   \* of the context and of the socket, 0 before it is set
    conn,       \* the connection: open, half closed by the client, or closed
    reply,      \* what the handler has put in the response writer
    sent,       \* payload parts written to the socket by the handler
    offered,    \* history: entries the file held for the token from arrival to decision
    checkedAt,  \* history: when the expiry was checked (server.go:216)
    setAt       \* history: when the deadline was computed (server.go:229)

environment == <<clock, file>>
locals      == <<token, doc, grant, timeout, deadline, conn, reply, sent>>
history     == <<offered, checkedAt, setAt>>
vars        == <<environment, sem, pc, locals, history>>

\* Points before the decision of Authorize, and points past SetDeadline.
Undecided == {"acquire", "header", "load", "match"}
Admitted  == {"body", "provider", "check", "verify", "respond", "write", "stream"}
Phases    == {"idle", "flush", "return", "expiry", "deadline"} \cup Undecided \cup Admitted

\* A goroutine owns a slot from its send on sem to the deferred receive.
Holds(r)  == pc[r] \notin {"idle", "acquire", "flush"}
Holders   == {r \in Requests : Holds(r)}

NoDeadline == 0

\* The context's deadline has passed.  It is also the socket's.
Expired(r) == deadline[r] # NoDeadline /\ clock >= deadline[r]

\* A write on the connection succeeds, once the client takes it.
Writable(r) == conn[r] # "closed" /\ ~Expired(r)

\* r.Context() may be done.  net/http cancels it when a read of the connection,
\* the body's or the one in the background after it, meets the end of what the
\* client sends, while writes to that client still succeed.
MayBeDone(r) == conn[r] # "open" \/ Expired(r)

\* The entry a document holds for a token, as a set of at most one.
Entry(d, t) == IF d = Unreadable \/ t = NoToken THEN {} ELSE {d[t]} \ {NoGrant}

Init ==
    /\ clock = 0
    /\ file \in Documents \ {Unreadable}      \* NewServer validates the file
    /\ sem = 0
    /\ pc        = [r \in Requests |-> "idle"]
    /\ token     = [r \in Requests |-> NoToken]
    /\ doc       = [r \in Requests |-> Unreadable]
    /\ grant     = [r \in Requests |-> NoGrant]
    /\ timeout   = [r \in Requests |-> 0]
    /\ deadline  = [r \in Requests |-> NoDeadline]
    /\ conn      = [r \in Requests |-> "closed"]
    /\ reply     = [r \in Requests |-> "none"]
    /\ sent      = [r \in Requests |-> 0]
    /\ offered   = [r \in Requests |-> {}]
    /\ checkedAt = [r \in Requests |-> 0]
    /\ setAt     = [r \in Requests |-> 0]

-----------------------------------------------------------------------------
(* Helpers                                                                 *)

Goto(r, from, to) == pc[r] = from /\ pc' = [pc EXCEPT ![r] = to]

\* writeFailure: the envelope goes to net/http's buffer; the handler returns.
Fail(r, from) ==
    /\ Goto(r, from, "return")
    /\ reply' = [reply EXCEPT ![r] = "failure"]

Lesser(a, b) == IF a < b THEN a ELSE b

-----------------------------------------------------------------------------
(* The environment: time, the operator who edits the grants file, clients. *)

\* Time runs to the horizon, and on for as long as a deadline is pending.
Tick ==
    /\ clock < Horizon \/ \E r \in Requests : deadline[r] > clock
    /\ clock' = clock + 1
    /\ UNCHANGED <<file, sem, pc, locals, history>>

\* The grants file is replaced: grants are added, revoked or altered, or the
\* document becomes unreadable.
EditGrants ==
    /\ clock < Horizon
    /\ \E d \in Documents \ {file} :
        /\ file' = d
        /\ offered' = [r \in Requests |->
                         IF pc[r] \in Undecided
                           THEN offered[r] \cup Entry(d, token[r])
                           ELSE offered[r]]
    /\ UNCHANGED <<clock, sem, pc, locals, checkedAt, setAt>>

\* net/http has read a request's header and started its goroutine.
Arrive(r) ==
    /\ clock < Horizon
    /\ Goto(r, "idle", "acquire")
    /\ \E t \in Tokens \cup {NoToken} :
        /\ token'   = [token EXCEPT ![r] = t]
        /\ offered' = [offered EXCEPT ![r] = Entry(file, t)]
    /\ conn' = [conn EXCEPT ![r] = "open"]
    /\ UNCHANGED <<environment, sem, doc, grant, timeout, deadline, reply, sent,
                   checkedAt, setAt>>

\* The client closes its sending side, or goes away.  Nothing looks at the
\* connection before the body is read; for a half close after the last look at
\* the context but the stream's, see BreakStream.
Disconnect(r) ==
    /\ \/ /\ conn[r] = "open" /\ pc[r] \in {"body", "provider", "check", "verify"}
          /\ conn' = [conn EXCEPT ![r] = "half"]
       \/ /\ conn[r] # "closed" /\ pc[r] \in Admitted \cup {"return", "flush"}
          /\ conn' = [conn EXCEPT ![r] = "closed"]
    /\ UNCHANGED <<environment, sem, pc, token, doc, grant, timeout, deadline,
                   reply, sent, history>>

-----------------------------------------------------------------------------
(* withAuthAndLimit                                                        *)

Acquire(r) ==
    /\ sem < MaxConcurrency
    /\ Goto(r, "acquire", "header")
    /\ sem' = sem + 1
    /\ UNCHANGED <<environment, locals, history>>

\* Mutant: the release is deferred before the select, so a 429 gives a slot back.
BusyReleases(r) ==
    /\ sem >= MaxConcurrency
    /\ Goto(r, "acquire", "return")
    /\ reply' = [reply EXCEPT ![r] = "failure"]
    /\ UNCHANGED <<environment, sem, token, doc, grant, timeout, deadline,
                   conn, sent, history>>

\* The select's default case: 429 without a slot.
Busy(r) ==
    /\ sem >= MaxConcurrency
    /\ Goto(r, "acquire", "flush")
    /\ reply' = [reply EXCEPT ![r] = "failure"]
    /\ UNCHANGED <<environment, sem, token, doc, grant, timeout, deadline,
                   conn, sent, history>>

CheckHeader(r) ==
    /\ \/ token[r] # NoToken /\ Goto(r, "header", "load") /\ UNCHANGED reply
       \/ token[r] = NoToken /\ Fail(r, "header")
    /\ UNCHANGED <<environment, sem, token, doc, grant, timeout, deadline,
                   conn, sent, history>>

\* Mutant: requests in flight share one read of the document.
LoadShared(r) ==
    /\ doc' = [doc EXCEPT ![r] =
                 IF \E q \in Requests : doc[q] # Unreadable
                   THEN doc[CHOOSE q \in Requests : doc[q] # Unreadable] ELSE file]
    /\ \/ doc'[r] # Unreadable /\ Goto(r, "load", "match") /\ UNCHANGED reply
       \/ doc'[r] = Unreadable /\ Fail(r, "load")
    /\ UNCHANGED <<environment, sem, token, grant, timeout, deadline,
                   conn, sent, history>>

\* Authorize reads the whole document again for every request.
LoadGrants(r) ==
    /\ doc' = [doc EXCEPT ![r] = file]
    /\ \/ file # Unreadable /\ Goto(r, "load", "match") /\ UNCHANGED reply
       \/ file = Unreadable /\ Fail(r, "load")
    /\ UNCHANGED <<environment, sem, token, grant, timeout, deadline,
                   conn, sent, history>>

\* Authorize decides: its clock read comes after the file's.
Match(r) ==
    pc[r] = "match" /\
    LET g == doc[r][token[r]]
        valid == g # NoGrant /\ g.exp > clock /\ g.scoped
    IN  /\ \/ /\ valid
              /\ Goto(r, "match", "expiry")
              /\ grant' = [grant EXCEPT ![r] = g]
              /\ UNCHANGED reply
           \/ ~valid /\ Fail(r, "match") /\ UNCHANGED grant
        /\ doc' = [doc EXCEPT ![r] = Unreadable]       \* the document goes out of scope
        /\ UNCHANGED <<environment, sem, token, timeout, deadline,
                       conn, sent, history>>

\* Mutant: the remaining time is used without a check of its sign.
CheckExpiryUnchecked(r) ==
    /\ pc[r] = "expiry" /\ Goto(r, "expiry", "deadline")
    /\ timeout' = [timeout EXCEPT ![r] = Lesser(DefaultTimeout, grant[r].exp - clock)]
    /\ checkedAt' = [checkedAt EXCEPT ![r] = clock]
    /\ UNCHANGED <<environment, sem, token, doc, grant, deadline,
                   conn, reply, sent, offered, setAt>>

\* A second look at the expiry, at the first of two clock reads.
CheckExpiry(r) ==
    pc[r] = "expiry" /\
    LET remaining == grant[r].exp - clock
    IN  /\ \/ /\ remaining > 0
              /\ Goto(r, "expiry", "deadline")
              /\ timeout' = [timeout EXCEPT ![r] = Lesser(DefaultTimeout, remaining)]
              /\ checkedAt' = [checkedAt EXCEPT ![r] = clock]
              /\ UNCHANGED reply
           \/ remaining <= 0 /\ Fail(r, "expiry") /\ UNCHANGED <<timeout, checkedAt>>
        /\ UNCHANGED <<environment, sem, token, doc, grant, deadline,
                       conn, sent, offered, setAt>>

\* Mutant: the deadline is not clamped to the grant.
SetDeadlineUnclamped(r) ==
    /\ Goto(r, "deadline", "body")
    /\ deadline' = [deadline EXCEPT ![r] = clock + DefaultTimeout]
    /\ setAt' = [setAt EXCEPT ![r] = clock]
    /\ UNCHANGED <<environment, sem, token, doc, grant, timeout,
                   conn, reply, sent, offered, checkedAt>>

\* deadline := time.Now() + timeout, the second clock read, for the read
\* deadline, the write deadline and the context.
SetDeadline(r) ==
    /\ Goto(r, "deadline", "body")
    /\ deadline' = [deadline EXCEPT ![r] = clock + timeout[r]]
    /\ setAt' = [setAt EXCEPT ![r] = clock]
    /\ UNCHANGED <<environment, sem, token, doc, grant, timeout,
                   conn, reply, sent, offered, checkedAt>>

-----------------------------------------------------------------------------
(* The route's handler                                                     *)

\* decodeStrictJSON and the argument checks pass.  The client decides when, and
\* may have sent it all before it went away.
ReadBody(r) ==
    /\ Goto(r, "body", "provider")
    /\ UNCHANGED <<environment, sem, locals, history>>

\* 400, 413 or 415.
RejectBody(r) ==
    /\ Fail(r, "body")
    /\ UNCHANGED <<environment, sem, token, doc, grant, timeout, deadline,
                   conn, sent, history>>

\* The read fails on the deadline or on the end of what the client sends.
\* Silent when the context is done by then, else 400.
AbandonBody(r) ==
    /\ MayBeDone(r)
    /\ \/ Goto(r, "body", "return") /\ UNCHANGED reply
       \/ Fail(r, "body")
    /\ UNCHANGED <<environment, sem, token, doc, grant, timeout, deadline,
                   conn, sent, history>>

\* The provider answers, or its result cannot even be asked for (no spool
\* directory).  It gives up when the context is done, hence it always returns.
CallProvider(r) ==
    /\ \/ Goto(r, "provider", "check") /\ UNCHANGED reply
       \/ Fail(r, "provider")
    /\ UNCHANGED <<environment, sem, token, doc, grant, timeout, deadline,
                   conn, sent, history>>

\* r.Context().Err(): certain after the deadline, possible once the client has
\* closed.  Here the routes part: list and search respond, download verifies.
CheckContext(r) ==
    /\ \/ ~Expired(r) /\ \E next \in {"respond", "verify"} : Goto(r, "check", next)
       \/ MayBeDone(r) /\ Goto(r, "check", "return")
    /\ UNCHANGED <<environment, sem, locals, history>>

\* Download only: open, stat, size, hash and rewind the spooled file, look at
\* the context once more, then announce the payload with its length.
VerifySpool(r) ==
    /\ \/ ~Expired(r) /\ Goto(r, "verify", "stream") /\ reply' = [reply EXCEPT ![r] = "stream"]
       \/ MayBeDone(r) /\ Goto(r, "verify", "return") /\ UNCHANGED reply
       \/ Fail(r, "verify")
    /\ UNCHANGED <<environment, sem, token, doc, grant, timeout, deadline,
                   conn, sent, history>>

\* writeSuccess of list and search.  net/http buffers a small envelope; a large
\* one goes to the socket within the call, under the slot.
Respond(r) ==
    /\ \E next \in {"return", "write"} : Goto(r, "respond", next)
    /\ reply' = [reply EXCEPT ![r] = "success"]
    /\ UNCHANGED <<environment, sem, token, doc, grant, timeout, deadline,
                   conn, sent, history>>

\* The socket takes one more part of the payload, when the client lets it.
Write(r, from) ==
    /\ Writable(r)
    /\ Goto(r, from, IF sent[r] + 1 = Parts THEN "return" ELSE from)
    /\ sent' = [sent EXCEPT ![r] = @ + 1]
    /\ UNCHANGED <<environment, sem, token, doc, grant, timeout, deadline,
                   conn, reply, history>>

\* Encode writes on without a look at the context.
WriteEnvelope(r) == Write(r, "write")

\* One write and flush of the download's loop.
StreamPart(r) == Write(r, "stream")

\* Mutant: no write deadline on the socket.
StopEnvelopeOnClose(r) ==
    /\ conn[r] = "closed"
    /\ Goto(r, "write", "return")
    /\ UNCHANGED <<environment, sem, locals, history>>

\* Encode meets a write error, which nobody looks at.
StopEnvelope(r) ==
    /\ ~Writable(r)
    /\ Goto(r, "write", "return")
    /\ UNCHANGED <<environment, sem, locals, history>>

\* The loop meets a write error or the deadline.
StopStream(r) ==
    /\ ~Writable(r)
    /\ Goto(r, "stream", "return")
    /\ UNCHANGED <<environment, sem, locals, history>>

\* The loop ends early on a connection that still takes writes: the client has
\* closed its side and the context is done, or the spooled file cannot be read.
BreakStream(r) ==
    /\ Goto(r, "stream", "return")
    /\ UNCHANGED <<environment, sem, locals, history>>

-----------------------------------------------------------------------------
(* The way out                                                             *)

\* The deferred cancel and receive from sem, on every path that took a slot.
Return(r) ==
    /\ Goto(r, "return", "flush")
    /\ sem' = sem - 1
    /\ UNCHANGED <<environment, locals, history>>

\* Mutant: no write deadline on the socket.
FinalBytesUnbounded(r) ==
    IF conn[r] = "closed" \/ reply[r] = "stream" THEN "nothing"
    ELSE IF reply[r] = "none" THEN "empty" ELSE reply[r]

\* What reaches the client when net/http ends the response: the envelope, or
\* what is left of it in the buffer, or an implicit empty 200 if the handler
\* wrote nothing at all.  A stream is flushed part by part: nothing is left.
FinalBytes(r) ==
    IF ~Writable(r) \/ reply[r] = "stream" THEN "nothing"
    ELSE IF reply[r] = "none" THEN "empty" ELSE reply[r]

Flush(r) ==
    /\ Goto(r, "flush", "idle")
    /\ token'     = [token EXCEPT ![r] = NoToken]
    /\ doc'       = [doc EXCEPT ![r] = Unreadable]
    /\ grant'     = [grant EXCEPT ![r] = NoGrant]
    /\ timeout'   = [timeout EXCEPT ![r] = 0]
    /\ deadline'  = [deadline EXCEPT ![r] = NoDeadline]
    /\ conn'      = [conn EXCEPT ![r] = "closed"]
    /\ reply'     = [reply EXCEPT ![r] = "none"]
    /\ sent'      = [sent EXCEPT ![r] = 0]
    /\ offered'   = [offered EXCEPT ![r] = {}]
    /\ checkedAt' = [checkedAt EXCEPT ![r] = 0]
    /\ setAt'     = [setAt EXCEPT ![r] = 0]
    /\ UNCHANGED <<environment, sem>>

-----------------------------------------------------------------------------
\* Steps a goroutine takes by itself.
Handler(r) ==
    \/ Acquire(r) \/ Busy(r) \/ CheckHeader(r) \/ LoadGrants(r) \/ Match(r)
    \/ CheckExpiry(r) \/ SetDeadline(r) \/ AbandonBody(r) \/ CallProvider(r)
    \/ CheckContext(r) \/ VerifySpool(r) \/ Respond(r) \/ StopEnvelope(r)
    \/ StopStream(r) \/ Return(r) \/ Flush(r)

\* Steps that wait for the client or for a fault, and may never come.
Client(r) ==
    \/ Arrive(r) \/ Disconnect(r) \/ ReadBody(r) \/ RejectBody(r)
    \/ WriteEnvelope(r) \/ StreamPart(r) \/ BreakStream(r)

\* The end of the bounded run: nothing in flight, nothing more to arrive.  Any
\* other standstill is a deadlock.
Rest ==
    /\ clock >= Horizon
    /\ \A r \in Requests : pc[r] = "idle"
    /\ UNCHANGED vars

Next == Tick \/ EditGrants \/ Rest \/ \E r \in Requests : Handler(r) \/ Client(r)

\* The Go scheduler runs every runnable goroutine, time passes, and the
\* provider returns; clients and the operator owe nothing.
Fairness == WF_vars(Tick) /\ \A r \in Requests : WF_vars(Handler(r))

Spec     == Init /\ [][Next]_vars
FairSpec == Spec /\ Fairness

-----------------------------------------------------------------------------
(* Properties                                                              *)

\* Every variable keeps its type; in particular a request that gets past the
\* expiry check has a positive timeout (server.go:218).
TypeOK ==
    /\ clock \in Nat
    /\ file \in Documents
    /\ sem \in 0..MaxConcurrency
    /\ pc \in [Requests -> Phases]
    /\ token \in [Requests -> Tokens \cup {NoToken}]
    /\ doc \in [Requests -> Documents]
    /\ grant \in [Requests -> Grants \cup {NoGrant}]
    /\ timeout \in [Requests -> 0..DefaultTimeout]
    /\ \A r \in Requests : pc[r] \in Admitted \cup {"deadline"} => timeout[r] > 0
    /\ deadline \in [Requests -> Nat]
    /\ conn \in [Requests -> {"open", "half", "closed"}]
    /\ reply \in [Requests -> {"none", "failure", "success", "stream"}]
    /\ sent \in [Requests -> 0..Parts]
    /\ offered \in [Requests -> SUBSET Grants]
    /\ checkedAt \in [Requests -> Nat]
    /\ setAt \in [Requests -> Nat]

\* The semaphore counts exactly the requests between their send and their
\* deferred receive, on whichever of the many early returns they leave, and
\* never more than MaxConcurrency of them (server.go:184-189).
SlotAccounting == sem = Cardinality(Holders) /\ Cardinality(Holders) <= MaxConcurrency

\* A request past Authorize carries a grant that the file really held for its
\* own token at some moment after the request arrived: a grant revoked before
\* the arrival admits nothing, and no document is kept from earlier requests.
AdmittedOnLiveGrant ==
    \A r \in Requests :
        pc[r] \in Admitted \cup {"expiry", "deadline"} =>
            grant[r] \in offered[r] /\ grant[r].scoped

\* This step puts payload on the wire: a part of a stream or of a large
\* envelope, or what net/http still holds of a list or search result.
Delivers(r) ==
    \/ sent'[r] > sent[r]
    \/ pc[r] = "flush" /\ pc'[r] = "idle" /\ FinalBytes(r) = "success"

\* Payload bytes leave only on such a grant, and past its expiry by no more
\* than the time between the two clock reads of withAuthAndLimit: neither a
\* slow provider nor a client that is slow to read extends it.
DeliveryWithinOverrun ==
    [][\A r \in Requests :
          Delivers(r) =>
              /\ grant[r] \in offered[r]
              /\ clock < grant[r].exp + (setAt[r] - checkedAt[r])]_vars

\* A handler that gives up silently because its context is done leaves net/http
\* to send an empty 200.  A client whose time is up, or that is gone, never
\* receives one: only a client that half closed its connection can.
EmptyOnlyToHalfClosed ==
    \A r \in Requests :
        pc[r] = "flush" /\ FinalBytes(r) = "empty" => conn[r] = "half"

\* A client that stalls its body, or stops reading an envelope or a stream,
\* keeps its slot only until the deadline: every slot taken is given back.
SlotsComeBack == \A r \in Requests : Holds(r) ~> ~Holds(r)

\* A request as module Admission sees it.
Stage(r) ==
    CASE pc[r] = "idle" -> "absent"
      [] pc[r] \in {"acquire", "header", "load"} -> "asking"
      [] pc[r] \in {"match", "expiry"} -> "known"
      [] pc[r] \in {"return", "flush"} /\ deadline[r] = NoDeadline -> "over"
      [] OTHER -> "served"

\* The entry it is served on, from the read of the file.
Lease(r) ==
    IF pc[r] = "match" THEN doc[r][token[r]]
    ELSE IF Stage(r) = "over" THEN NoGrant ELSE grant[r]

Answers(r) ==
    (IF reply[r] \in {"success", "stream"} THEN {"payload"} ELSE {})
    \cup ({reply[r]} \cap {"failure"})

Call(r) ==
    [stage |-> Stage(r), token |-> token[r], lease |-> Lease(r), answers |-> Answers(r)]

Promised == INSTANCE Admission WITH slots <- Holders, call <- [r \in Requests |-> Call(r)]

\* However requests, edits and the clock interleave, each is served as if the
\* file had been looked at once, in a slot of its own, and its one answer,
\* payload or failure, is settled before the slot is given back.  What net/http
\* still buffers of that answer may leave after it.
KeepsPromise == Promised!Spec

\* What the comment at server.go:173 and TOOL_SERVER.md:20 promise: the
\* deadline is the minimum of the configured timeout and the grant's expiry.
DeadlineWithinGrant ==
    \A r \in Requests : pc[r] \in Admitted => deadline[r] <= grant[r].exp

=============================================================================
