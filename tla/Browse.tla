------------------------------- MODULE Browse -------------------------------
(***************************************************************************)
(* `course ls` from end to end: an agent lists a directory page by page,   *)
(* one process of cmd/tjucli for each page.  In local mode the process     *)
(* asks the course host itself; in remote mode remote.Client asks          *)
(* tjucli-server, perhaps through an ingress, and the server asks the host.*)
(* Errors change their name and status twice on the way to the exit status.*)
(*                                                                         *)
(* The direct provider of a process is the one without a token.  A result  *)
(* is a page with the cursor behind it, or the code of a CLIError; a reply *)
(* is an HTTP status with a result, or with None where the body is not an  *)
(* envelope that decodes.                                                  *)
(***************************************************************************)
EXTENDS Integers, Sequences

CONSTANTS
    Cursors,        \* cursors the host may hand out, and First
    First,          \* the empty cursor, which asks for the first page
    NoNext,         \* no next cursor
    LongCursors,    \* cursors longer than maxCursorBytes
    WideCursors,    \* others, too long for a request once escaped as JSON
    Catalogs,       \* directories: the cursor behind each page
    Tokens,
    None,
    MaxCommands,    \* bound on the commands of a session
    MaxEdits        \* bound on edits of the two files, and expiries

ASSUME CursorsAssumption == /\ First \in Cursors \ (LongCursors \cup WideCursors)
                            /\ LongCursors \subseteq Cursors
                            /\ WideCursors \subseteq Cursors
                            /\ LongCursors \cap WideCursors = {}
                            /\ NoNext \notin Cursors
ASSUME BoundsAssumption  == MaxCommands \in Nat /\ MaxEdits \in Nat

Served  == Cursors \ LongCursors
ASSUME CatalogsAssumption == Catalogs \subseteq [Served -> (Cursors \ {First}) \cup {NoNext}]

Rights  == {"none", "unscoped", "scoped"}       \* what the file holds for a token
Arguments == {"good", "bad_flag", "bad_path"}

\* Codes of tjucli.CLIError, and of the server's failure envelopes.
Codes == {"invalid_argument", "configuration_error", "protocol_error", "upstream_error",
          "unauthorized", "forbidden", "not_found", "rate_limited"}
WireCodes == {"invalid_argument", "unauthorized", "forbidden", "busy",
              "service_unavailable", "upstream_error"}

Shown(page, next) == [code |-> "ok", page |-> page, next |-> next]
Error(code)       == [code |-> code, page |-> None, next |-> NoNext]

Answers == {Shown(page, next) : page \in Served, next \in Cursors \cup {NoNext}}
Results == Answers \cup {Error(code) : code \in Codes}
Bodies  == Answers \cup {Error(code) : code \in WireCodes}
Statuses == {200, 302, 400, 401, 403, 404, 429, 502, 503}
Replies  == [status : Statuses, body : Bodies \cup {None}]

ASSUME NoneAssumption ==
    /\ None \notin Cursors \cup Tokens \cup {NoNext}
    /\ None \notin [Tokens -> Rights]
    /\ None \notin Bodies
    /\ None \notin Replies

VARIABLES
    mode,       \* TJUCLI_MODE: "local", "remote", or one not recognised
    catalog,    \* the host: the cursor behind each page
    grants,     \* the grants file: what each token may do; None if unusable
    expired,    \* tokens whose grant has expired
    tokenFile,  \* the token in TJUCLI_TOKEN_FILE; None if unusable
    pc,         \* where the command stands
    args,       \* how good its arguments are, --cursor apart
    token,      \* the token it has loaded
    right,      \* what the server has read for that token
    reply,      \* what arrives at the client
    result,     \* what the provider or the client returns
    exit,       \* exit status of the last command, 1 while one runs
    shown,      \* the agent: pages it was given
    claim,      \* the agent: "open", or "complete"
    cursor,     \* the agent: --cursor of this or the next command
    offered,    \* history: what the file held for the token since the request
    foreign,    \* history: the reply is not tjucli-server's
    commands, edits

world   == <<mode, catalog, grants, expired, tokenFile, edits>>
agent   == <<shown, claim, cursor, commands>>
request == <<args, token>>
history == <<offered, foreign>>
vars    == <<world, agent, request, history, pc, right, reply, result, exit>>

Init ==
    /\ mode \in {"local", "remote", "other"}
    /\ catalog \in Catalogs
    /\ grants \in [Tokens -> Rights] \cup {None}
    /\ expired \in SUBSET Tokens
    /\ tokenFile \in Tokens \cup {None}
    /\ pc = "idle"
    /\ args = "good"
    /\ token = None
    /\ right = "none"
    /\ reply = None
    /\ result = Error("upstream_error")
    /\ exit = 1
    /\ shown = << >>
    /\ claim = "open"
    /\ cursor = First
    /\ offered = {}
    /\ foreign = FALSE
    /\ commands = 0
    /\ edits = 0

-----------------------------------------------------------------------------
(* The command, up to its request                                          *)

Finish(outcome) == pc' = "print" /\ result' = outcome

\* The agent starts a command; a flag that does not parse ends it at once.
Run ==
    /\ pc = "idle" /\ claim = "open"
    /\ commands < MaxCommands
    /\ commands' = commands + 1
    /\ args' \in Arguments
    /\ \/ args' # "bad_flag" /\ pc' = "provider" /\ result' = Error("upstream_error")
       \/ args' = "bad_flag" /\ Finish(Error("invalid_argument"))
    /\ token' = None /\ right' = "none" /\ reply' = None /\ exit' = 1
    /\ offered' = {} /\ foreign' = FALSE
    /\ UNCHANGED <<world, shown, claim, cursor>>

\* Mutant: without a token, the command falls back to the direct provider.
GetProviderFallsBack ==
    /\ pc = "provider"
    /\ pc' = "list"
    /\ \/ mode # "remote" /\ UNCHANGED token
       \/ mode = "remote" /\ token' = tokenFile
    /\ UNCHANGED <<world, agent, args, history, right, reply, result, exit>>

\* The provider for the mode; the token is read once for the process.
GetProvider ==
    /\ pc = "provider"
    /\ \/ mode = "local" /\ pc' = "list" /\ UNCHANGED <<token, result>>
       \/ /\ mode = "remote" /\ tokenFile # None
          /\ token' = tokenFile
          /\ pc' = "list"
          /\ UNCHANGED result
       \/ /\ \/ mode = "remote" /\ tokenFile = None
             \/ mode = "other"
          /\ Finish(Error("configuration_error"))
          /\ UNCHANGED token
    /\ UNCHANGED <<world, agent, args, history, right, reply, exit>>

RefusedArguments == args = "bad_path" \/ cursor \in LongCursors

\* Mutant: a next cursor that could not be sent back is left out.
ProvidedTrimmed ==
    IF RefusedArguments THEN {Error("invalid_argument")}
    ELSE {Shown(cursor, IF catalog[cursor] \in LongCursors THEN NoNext ELSE catalog[cursor]),
          Error("upstream_error"), Error("protocol_error")}

\* Mutant: the next cursor is checked with the check of the caller's.
ProvidedBlaming ==
    IF RefusedArguments \/ catalog[cursor] \in LongCursors THEN {Error("invalid_argument")}
    ELSE {Shown(cursor, catalog[cursor]), Error("upstream_error"), Error("protocol_error")}

\* What Provider.List may answer, for a process or for the server.
Provided ==
    IF RefusedArguments THEN {Error("invalid_argument")}
    ELSE {Shown(cursor, catalog[cursor]), Error("upstream_error"), Error("protocol_error")}

ListDirect ==
    /\ pc = "list" /\ token = None
    /\ \E answer \in Provided : Finish(answer)
    /\ UNCHANGED <<world, agent, request, history, right, reply, exit>>

\* What the file holds for the token, if it can be read at all.
Entry(file) == IF file = None THEN {} ELSE {file[token]}

\* Client.List, up to the request.
SendRequest ==
    /\ pc = "list" /\ token # None
    /\ \/ /\ RefusedArguments
          /\ Finish(Error("invalid_argument"))
          /\ UNCHANGED offered
       \/ /\ ~RefusedArguments /\ cursor \in WideCursors
          /\ Finish(Error("protocol_error"))
          /\ UNCHANGED offered
       \/ /\ ~RefusedArguments /\ cursor \notin WideCursors
          /\ pc' = "admit"
          /\ offered' = Entry(grants)
          /\ UNCHANGED result
    /\ UNCHANGED <<world, agent, request, foreign, right, reply, exit>>

-----------------------------------------------------------------------------
(* The server                                                              *)

Respond(status, body) ==
    /\ pc' = "reply"
    /\ reply' = [status |-> status, body |-> body]

Admit ==
    /\ pc = "admit"
    /\ \/ Respond(429, Error("busy"))
       \/ pc' = "authorize" /\ UNCHANGED reply
    /\ UNCHANGED <<world, agent, request, history, right, result, exit>>

\* Mutant: a file that cannot be read holds no grant.
LoadGrantsOrNone ==
    /\ pc = "authorize"
    /\ pc' = "match"
    /\ right' = IF grants = None THEN "none" ELSE grants[token]
    /\ UNCHANGED <<world, agent, request, history, reply, result, exit>>

LoadGrants ==
    /\ pc = "authorize"
    /\ \/ /\ grants = None
          /\ Respond(503, Error("service_unavailable"))
          /\ UNCHANGED right
       \/ /\ grants # None
          /\ right' = grants[token]
          /\ pc' = "match"
          /\ UNCHANGED reply
    /\ UNCHANGED <<world, agent, request, history, result, exit>>

Live == right # "none" /\ token \notin expired

Match ==
    /\ pc = "match"
    /\ \/ ~Live /\ Respond(401, Error("unauthorized"))
       \/ Live /\ right = "unscoped" /\ Respond(403, Error("forbidden"))
       \/ Live /\ right = "scoped" /\ pc' = "serve" /\ UNCHANGED reply
    /\ UNCHANGED <<world, agent, request, history, right, result, exit>>

\* withAuthAndLimit looks at the clock again.
CheckExpiry ==
    /\ pc = "serve" /\ token \in expired
    /\ Respond(401, Error("unauthorized"))
    /\ UNCHANGED <<world, agent, request, history, right, result, exit>>

\* writeProviderError: any other code becomes upstream_error.
ProviderError(code) ==
    IF code = "invalid_argument" THEN [status |-> 400, body |-> Error(code)]
    ELSE [status |-> 502, body |-> Error("upstream_error")]

Serve ==
    /\ pc = "serve"
    /\ \E answer \in Provided :
         reply' = IF answer \in Answers THEN [status |-> 200, body |-> answer]
                                        ELSE ProviderError(answer.code)
    /\ pc' = "reply"
    /\ UNCHANGED <<world, agent, request, history, right, result, exit>>

-----------------------------------------------------------------------------
(* The way back                                                            *)

Pending == {"admit", "authorize", "match", "serve", "reply"}

\* Nothing comes back, nor does the connection break.
Lose ==
    /\ pc \in Pending
    /\ pc' = "lost"
    /\ UNCHANGED <<world, agent, request, history, right, reply, result, exit>>

\* The ingress answers in the server's place, or an envelope arrives that
\* does not decode, or is longer than the client reads.
Intrude ==
    /\ pc \in Pending
    /\ \E status \in Statuses : Respond(status, None)
    /\ foreign' = TRUE
    /\ UNCHANGED <<world, agent, request, offered, right, result, exit>>

\* Mutant: a request without an answer is sent again, and again.
GiveUpNever ==
    /\ pc \in Pending \cup {"lost"}
    /\ pc' = "admit"
    /\ offered' = Entry(grants)
    /\ UNCHANGED <<world, agent, request, foreign, right, reply, result, exit>>

\* The connection breaks, the client's time is up, or the user interrupts.
GiveUp ==
    /\ pc \in Pending \cup {"lost"}
    /\ Finish(Error("upstream_error"))
    /\ UNCHANGED <<world, agent, request, history, right, reply, exit>>

ByCode(code) ==
    IF code \in Codes THEN code
    ELSE IF code = "busy" THEN "rate_limited" ELSE "upstream_error"

ByStatus(status) ==
    CASE status = 400 -> "invalid_argument"
      [] status = 401 -> "unauthorized"
      [] status = 403 -> "forbidden"
      [] status = 404 -> "not_found"
      [] status = 429 -> "rate_limited"
      [] OTHER        -> "upstream_error"

\* parseErrorResponse: the code of the envelope, else the status, decides.
ErrorOf(r) == Error(IF r.body = None THEN ByStatus(r.status) ELSE ByCode(r.body.code))

\* doJSON and validateListResponse.
Decoded(r) ==
    IF r.status \notin {200} \cup 300..399 THEN ErrorOf(r)
    ELSE IF r.status = 200 /\ r.body \in Answers /\ r.body.next \notin LongCursors THEN r.body
    ELSE Error("protocol_error")

\* Mutant: every status 200 is a page.
ReceiveUnchecked ==
    /\ pc = "reply"
    /\ IF reply.status = 200 THEN Finish(reply.body) ELSE Finish(Decoded(reply))
    /\ UNCHANGED <<world, agent, request, history, right, reply, exit>>

Receive ==
    /\ pc = "reply"
    /\ Finish(Decoded(reply))
    /\ UNCHANGED <<world, agent, request, history, right, reply, exit>>

ExitStatus(code) ==
    IF code = "ok" THEN 0 ELSE IF code = "invalid_argument" THEN 2 ELSE 1

\* The agent reads the envelope and goes on from next_cursor.
Read ==
    IF result \in Answers
      THEN /\ shown' = Append(shown, result.page)
           /\ IF result.next = NoNext
                THEN claim' = "complete" /\ UNCHANGED cursor
                ELSE cursor' = result.next /\ UNCHANGED claim
      ELSE UNCHANGED <<shown, claim, cursor>>

\* The envelope is written, or cannot be, and the process exits.
Report ==
    /\ pc = "print"
    /\ pc' = "idle"
    /\ \/ exit' = ExitStatus(result.code) /\ Read
       \/ exit' = 1 /\ UNCHANGED <<shown, claim, cursor>>
    /\ UNCHANGED <<world, commands, request, history, right, reply, result>>

-----------------------------------------------------------------------------
(* The operator, the clock, and whoever hands out tokens                   *)

Heard == IF pc \in Pending THEN Entry(grants') ELSE {}

EditGrants ==
    /\ edits < MaxEdits
    /\ edits' = edits + 1
    /\ grants' \in ([Tokens -> Rights] \cup {None}) \ {grants}
    /\ offered' = offered \cup Heard
    /\ UNCHANGED <<mode, catalog, expired, tokenFile, agent, request, foreign>>
    /\ UNCHANGED <<pc, right, reply, result, exit>>

Expire ==
    /\ edits < MaxEdits
    /\ edits' = edits + 1
    /\ \E t \in Tokens \ expired : expired' = expired \cup {t}
    /\ UNCHANGED <<mode, catalog, grants, tokenFile, agent, request, history>>
    /\ UNCHANGED <<pc, right, reply, result, exit>>

ReplaceToken ==
    /\ edits < MaxEdits
    /\ edits' = edits + 1
    /\ tokenFile' \in (Tokens \cup {None}) \ {tokenFile}
    /\ UNCHANGED <<mode, catalog, grants, expired, agent, request, history>>
    /\ UNCHANGED <<pc, right, reply, result, exit>>

Process == GetProvider \/ ListDirect \/ SendRequest \/ GiveUp \/ Receive \/ Report
Server  == Admit \/ LoadGrants \/ Match \/ CheckExpiry \/ Serve
Wire    == Lose \/ Intrude
Others  == EditGrants \/ Expire \/ ReplaceToken

\* The session is over.
Rest ==
    /\ pc = "idle" /\ (claim = "complete" \/ commands = MaxCommands)
    /\ UNCHANGED vars

Next == Run \/ Process \/ Server \/ Wire \/ Others \/ Rest

Spec     == Init /\ [][Next]_vars
FairSpec == Spec /\ WF_vars(Process)

-----------------------------------------------------------------------------
(* Properties                                                              *)

TypeOK ==
    /\ mode \in {"local", "remote", "other"}
    /\ catalog \in Catalogs
    /\ grants \in [Tokens -> Rights] \cup {None}
    /\ expired \subseteq Tokens
    /\ tokenFile \in Tokens \cup {None}
    /\ pc \in Pending \cup {"idle", "provider", "list", "lost", "print"}
    /\ args \in Arguments
    /\ token \in Tokens \cup {None}
    /\ pc \in Pending => token # None
    /\ right \in Rights
    /\ reply \in Replies \cup {None}
    /\ pc = "reply" => reply # None
    /\ result \in Results
    /\ exit \in 0..2
    /\ shown \in Seq(Served)
    /\ claim \in {"open", "complete"}
    /\ cursor \in Cursors
    /\ offered \subseteq Rights
    /\ foreign \in BOOLEAN
    /\ commands \in 0..MaxCommands
    /\ edits \in 0..MaxEdits

\* An agent that follows next_cursor gets the host's pages in order, none of
\* them left out or shown twice for one visit, and takes the listing for
\* complete with the last page only, whatever fails and is tried again.
Promised == INSTANCE Listing
KeepsPromise == Promised!Spec

\* Exit status 2, after which an agent looks for the fault in its own command,
\* comes from a bad command, from a cursor of the host that is too long, or
\* from an ingress; no failure of server or host is reported that way.
UsageErrorsExplained ==
    exit = 2 => \/ RefusedArguments \/ args = "bad_flag"
                \/ foreign /\ reply.status = 400

\* unauthorized and forbidden are final for an agent.  The server says so only
\* to a token which the file did not hold, or not with the scope, at some time
\* during the request, or which has expired: never because the file could not
\* be read.
DeniedOnlyWithoutGrant ==
    ~foreign =>
        /\ result.code = "unauthorized" => "none" \in offered \/ token \in expired
        /\ result.code = "forbidden" => "unscoped" \in offered

\* In remote mode a page is shown only to a token that held the scope during
\* the request: nothing leads around the grant to the direct provider.
PagesOnGrant ==
    mode = "remote" /\ exit = 0 => "scoped" \in offered

\* A command that has started ends, whatever becomes of its request.
Returns == pc # "idle" ~> pc = "idle"

=============================================================================
