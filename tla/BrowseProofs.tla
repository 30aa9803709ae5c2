---------------------------- MODULE BrowseProofs ----------------------------
(***************************************************************************)
(* Proofs about Browse, for every set of cursors and directories, any      *)
(* number of tokens, commands and edits.                                   *)
(*                                                                         *)
(* Flow says what each point of a command may rely on: which right the     *)
(* server has seen, what the reply on the way says, and why a result is    *)
(* what it is.  Linked ties the agent's next cursor to the pages shown.    *)
(***************************************************************************)
EXTENDS Browse, SequenceTheorems, TLAPS

USE CursorsAssumption, NoneAssumption, BoundsAssumption, CatalogsAssumption
    DEF CursorsAssumption, NoneAssumption, BoundsAssumption, CatalogsAssumption

Page(p) == Shown(p, catalog[p])

\* The provider a command has chosen, and the request of one that has sent it.
Chosen ==
    /\ token # None => mode = "remote"
    /\ pc = "list" /\ mode = "remote" => token # None
    /\ pc \in Pending => ~RefusedArguments
    /\ foreign => pc \in {"idle", "reply", "lost", "print"}

Authorized ==
    /\ pc \in {"admit", "authorize"} => Entry(grants) \subseteq offered
    /\ pc = "match" => right \in offered
    /\ pc = "serve" => "scoped" \in offered

\* Why a code of denial is what it is.
Denied(code) ==
    /\ code = "unauthorized" => "none" \in offered \/ token \in expired
    /\ code = "forbidden" => "unscoped" \in offered

\* A reply says what the server found; an ingress sends no envelope.
Replied ==
    /\ pc = "reply" /\ foreign => reply.body = None
    /\ pc = "reply" /\ ~foreign =>
         \/ reply.body = Page(cursor) /\ "scoped" \in offered
         \/ \E code \in WireCodes \ {"invalid_argument"} :
              reply.body = Error(code) /\ Denied(code)

\* A result has its reason in the command or in the reply.
Explained ==
    /\ pc \notin {"idle", "print"} => result = Error("upstream_error")
    /\ pc = "print" /\ result.code = "ok" =>
         /\ result = Page(cursor) /\ cursor \in Served
         /\ mode = "remote" => "scoped" \in offered
    /\ result.code = "invalid_argument" =>
         \/ RefusedArguments \/ args = "bad_flag"
         \/ foreign /\ reply.status = 400
    /\ ~foreign => Denied(result.code)

Exited ==
    /\ pc # "idle" => exit = 1
    /\ exit = 2 => result.code = "invalid_argument"
    /\ exit = 0 /\ mode = "remote" => "scoped" \in offered

Flow == Chosen /\ Authorized /\ Replied /\ Explained /\ Exited

\* The agent asks for the page behind the last one shown.
Linked ==
    /\ pc # "idle" => claim = "open"
    /\ claim = "open" => cursor = Promised!Following

IInv == TypeOK /\ Flow /\ Linked

-----------------------------------------------------------------------------
(* Results and replies                                                     *)

\* What the results look like.
LEMMA ResultShape ==
    /\ \A code \in Codes : Error(code) \in Results /\ Error(code).code = code
                             /\ Error(code) \notin Answers
    /\ \A code \in WireCodes : Error(code) \in Bodies /\ Error(code).code = code
                                 /\ Error(code) \notin Answers /\ Error(code) # None
    /\ Answers \subseteq Results /\ Answers \subseteq Bodies
    /\ \A r \in Results : r.code = "ok" <=> r \in Answers
    /\ \A r \in Answers : r.page \in Served /\ r.next \in Cursors \cup {NoNext}
<1>1. \A code : Error(code).code = code
  BY DEF Error
<1>2. \A r \in Answers : r.code = "ok" /\ r.page \in Served /\ r.next \in Cursors \cup {NoNext}
  BY DEF Answers, Shown
<1>3. \A code \in Codes \cup WireCodes : code # "ok"
  BY DEF Codes, WireCodes
<1>4. /\ Results = Answers \cup {Error(code) : code \in Codes}
      /\ Bodies = Answers \cup {Error(code) : code \in WireCodes}
  BY DEF Results, Bodies
<1>5. \A code \in Codes \cup WireCodes : Error(code) \notin Answers
  BY <1>1, <1>2, <1>3
<1>6. \A r \in Results : r.code = "ok" <=> r \in Answers
  BY <1>1, <1>2, <1>3, <1>4
<1>7. None \notin Bodies
  OBVIOUS
<1> QED BY <1>1, <1>2, <1>4, <1>5, <1>6, <1>7

\* A directory has a cursor behind each page that can be asked for.
LEMMA CatalogShape ==
    ASSUME TypeOK, cursor \in Served
    PROVE  /\ catalog[cursor] \in Cursors \cup {NoNext}
           /\ Page(cursor) \in Answers
           /\ Page(cursor).code = "ok"
BY DEF TypeOK, Page, Answers, Shown

\* Whatever arrives, the client makes a result of it.
LEMMA DecodedShape ==
    ASSUME NEW r \in Replies
    PROVE  /\ Decoded(r) \in Results
           /\ r.body = None => Decoded(r) = Error("protocol_error")
                                \/ Decoded(r) = Error(ByStatus(r.status))
           /\ r.body # None => \/ Decoded(r) = r.body /\ r.body \in Answers
                               \/ Decoded(r) = Error("protocol_error")
                               \/ Decoded(r) = Error(ByCode(r.body.code))
<1>1. ByStatus(r.status) \in Codes
  BY DEF ByStatus, Codes
<1>2. ASSUME NEW code
      PROVE  ByCode(code) \in Codes
  BY DEF ByCode, Codes
<1>3. ErrorOf(r) = Error(IF r.body = None THEN ByStatus(r.status) ELSE ByCode(r.body.code))
  BY DEF ErrorOf
<1>4. \/ Decoded(r) = Error("protocol_error")
      \/ Decoded(r) = ErrorOf(r)
      \/ Decoded(r) = r.body /\ r.body \in Answers
  BY DEF Decoded
<1>5. None \notin Answers
  BY ResultShape
<1> QED
  BY <1>1, <1>2, <1>3, <1>4, <1>5, ResultShape DEF Codes

-----------------------------------------------------------------------------
(* Types                                                                   *)

\* A session begins well typed.
LEMMA InitTypes == Init => TypeOK
<1> SUFFICES ASSUME Init
             PROVE  TypeOK
  OBVIOUS
<1>1. result \in Results
  BY ResultShape DEF Init, Codes
<1>2. pc = "idle" /\ pc \notin Pending
  BY DEF Init, Pending
<1>3. shown \in Seq(Served) /\ commands \in 0..MaxCommands /\ edits \in 0..MaxEdits
  BY DEF Init
<1>4. foreign \in BOOLEAN
  BY Zenon DEF Init
<1> QED BY <1>1, <1>2, <1>3, <1>4 DEF Init, TypeOK, Rights, Arguments

\* Each step keeps the types.
LEMMA TypesKept == TypeOK /\ Flow /\ [Next]_vars => TypeOK'
<1> SUFFICES ASSUME TypeOK, Flow, [Next]_vars
             PROVE  TypeOK'
  OBVIOUS
<1> USE DEF TypeOK, world, agent, request, history, Finish, Pending
<1>1. CASE Run
  <2>1. result' \in Results /\ pc' \in {"provider", "print"}
    BY <1>1, ResultShape DEF Run, Codes
  <2>2. commands' \in 0..MaxCommands
    BY <1>1 DEF Run
  <2>3. foreign' \in BOOLEAN
    BY <1>1, Zenon DEF Run
  <2> QED BY <1>1, <2>1, <2>2, <2>3 DEF Run, Rights, Arguments
<1>2. CASE GetProvider
  BY <1>2, ResultShape DEF GetProvider, Codes
<1>3. CASE ListDirect
  <2>1. cursor \in Served => Page(cursor) \in Results
    BY CatalogShape, ResultShape
  <2>2. \A answer \in Provided : answer \in Results
    BY <2>1, ResultShape DEF Provided, RefusedArguments, Served, Codes, Page
  <2> QED BY <1>3, <2>2 DEF ListDirect
<1>4. CASE SendRequest
  BY <1>4, ResultShape DEF SendRequest, Codes, Entry, Rights
<1>5. CASE Admit
  BY <1>5, ResultShape DEF Admit, Respond, Replies, Statuses, WireCodes
<1>6. CASE LoadGrants
  BY <1>6, ResultShape DEF LoadGrants, Respond, Replies, Statuses, WireCodes
<1>7. CASE Match
  BY <1>7, ResultShape DEF Match, Respond, Replies, Statuses, WireCodes
<1>8. CASE Serve
  <2>1. cursor \in Served
    BY <1>8 DEF Serve, Flow, Chosen, RefusedArguments, Served
  <2>2. \A code : ProviderError(code) \in Replies
    BY ResultShape DEF ProviderError, Replies, Statuses, WireCodes
  <2>3. \A answer \in Answers : [status |-> 200, body |-> answer] \in Replies
    BY ResultShape DEF Replies, Statuses
  <2>4. reply' \in Replies
    BY <1>8, <2>2, <2>3 DEF Serve
  <2>5. reply' # None
    BY <2>4
  <2> QED BY <1>8, <2>4, <2>5 DEF Serve
<1>9. CASE Lose
  BY <1>9 DEF Lose
<1>10. CASE Intrude
  BY <1>10 DEF Intrude, Respond, Replies
<1>11. CASE GiveUp
  BY <1>11, ResultShape DEF GiveUp, Codes
<1>12. CASE Receive
  <2>1. reply \in Replies
    BY <1>12 DEF Receive
  <2> QED BY <1>12, <2>1, DecodedShape DEF Receive
<1>13. CASE Report
  <2>1. exit' \in 0..2
    BY <1>13 DEF Report, ExitStatus
  <2>2. CASE Read
    <3>1. CASE result \in Answers
      <4>1. result.page \in Served /\ result.next \in Cursors \cup {NoNext}
        BY <3>1, ResultShape
      <4>2. shown' = Append(shown, result.page)
        BY <2>2, <3>1 DEF Read
      <4>3. shown' \in Seq(Served)
        BY <4>1, <4>2, AppendProperties
      <4>4. claim' \in {"open", "complete"} /\ cursor' \in Cursors
        BY <2>2, <3>1, <4>1 DEF Read
      <4> QED BY <1>13, <2>1, <4>3, <4>4 DEF Report
    <3>2. CASE result \notin Answers
      BY <1>13, <2>1, <2>2, <3>2 DEF Report, Read
    <3> QED BY <3>1, <3>2
  <2>3. CASE UNCHANGED <<shown, claim, cursor>>
    BY <1>13, <2>1, <2>3 DEF Report
  <2> QED BY <1>13, <2>2, <2>3 DEF Report
<1>14. CASE EditGrants
  <2>1. grants' \in [Tokens -> Rights] \cup {None} /\ edits' \in 0..MaxEdits
    BY <1>14 DEF EditGrants
  <2>2. offered' \subseteq Rights
    BY <1>14, <2>1 DEF EditGrants, Heard, Entry
  <2> QED BY <1>14, <2>1, <2>2 DEF EditGrants
<1>15. CASE Expire
  BY <1>15 DEF Expire
<1>16. CASE ReplaceToken
  BY <1>16 DEF ReplaceToken
<1>17. CASE UNCHANGED vars
  BY <1>17 DEF vars
<1>18. CASE CheckExpiry
  BY <1>18, ResultShape DEF CheckExpiry, Respond, Replies, Statuses, WireCodes
<1> QED
  BY <1>1, <1>2, <1>3, <1>4, <1>5, <1>6, <1>7, <1>8, <1>9, <1>10, <1>11, <1>12, <1>13,
     <1>14, <1>15, <1>16, <1>17, <1>18 DEF Next, Process, Server, Wire, Others, Rest

-----------------------------------------------------------------------------
(* The points of a command                                                 *)

\* No command has begun.
LEMMA InitFlow == Init => Flow
BY DEF Init, Flow, Chosen, Authorized, Denied, Replied, Explained, Exited, Pending, Error

\* What the provider may answer to a request that is in order.
LEMMA ProvidedShape ==
    ASSUME TypeOK, NEW answer \in Provided
    PROVE  \/ answer = Page(cursor) /\ cursor \in Served
           \/ answer \in {Error("upstream_error"), Error("protocol_error")}
           \/ answer = Error("invalid_argument") /\ RefusedArguments
BY DEF Provided, RefusedArguments, Served, Page, TypeOK

\* A result the client makes up itself, without the server.
LEMMA OwnError ==
    ASSUME Flow, pc \notin {"idle", "print"},
           NEW code \in {"upstream_error", "protocol_error", "configuration_error"},
           Finish(Error(code)), UNCHANGED exit
    PROVE  Explained' /\ Exited'
BY DEF Finish, Flow, Explained, Exited, Denied, Error

\* While a request is under way there is no result yet.
LEMMA UnderWay ==
    ASSUME Flow, pc \notin {"idle", "print"}, pc' \notin {"idle", "print"},
           UNCHANGED <<result, exit>>
    PROVE  Explained' /\ Exited'
BY DEF Flow, Explained, Exited, Denied, Error

\* The reason of a reply or result stays one while the file and the clock go on.
LEMMA ReasonsStay ==
    ASSUME Flow, offered \subseteq offered', expired \subseteq expired',
           UNCHANGED <<mode, catalog, args, token, cursor, foreign>>,
           UNCHANGED <<pc, right, reply, result, exit>>,
           pc \in {"admit", "authorize"} => Entry(grants)' \subseteq offered'
    PROVE  Flow'
<1> USE DEF Flow
<1>1. \A code : Denied(code) => Denied(code)'
  BY DEF Denied
<1>2. Page(cursor)' = Page(cursor)
  BY DEF Page
<1>3. Chosen' /\ Authorized'
  BY DEF Chosen, Authorized, RefusedArguments, Pending
<1>4. Replied'
  BY <1>1, <1>2 DEF Replied
<1>5. Explained' /\ Exited'
  BY <1>1, <1>2 DEF Explained, Exited, RefusedArguments
<1> QED BY <1>3, <1>4, <1>5

\* The server fails a request for a reason.
LEMMA ServerSays ==
    ASSUME Flow, NEW code \in WireCodes \ {"invalid_argument"}, NEW status,
           Respond(status, Error(code)), Denied(code), pc \in Pending \ {"reply"},
           UNCHANGED <<mode, catalog, expired, args, token, cursor, offered, foreign>>,
           UNCHANGED <<result, exit>>
    PROVE  Flow'
<1> USE DEF Flow, Pending
<1>1. pc' = "reply" /\ reply'.body = Error(code)
  BY DEF Respond
<1>2. Denied(code)'
  BY DEF Denied
<1>3. ~foreign'
  BY DEF Chosen
<1>4. Explained' /\ Exited'
  BY <1>1, UnderWay
<1>5. Chosen' /\ Authorized'
  BY <1>1, <1>3 DEF Chosen, Authorized, RefusedArguments
<1>6. Replied'
  BY <1>1, <1>2, <1>3, ResultShape DEF Replied, Error
<1> QED BY <1>4, <1>5, <1>6

\* The client's reading of a reply has the reason the reply has.
LEMMA ReceiveExplained ==
    ASSUME TypeOK, Flow, Receive
    PROVE  Explained' /\ Exited'
<1> DEFINE answer == Decoded(reply)
<1>1. /\ pc = "reply" /\ reply \in Replies
      /\ pc' = "print" /\ result' = answer
      /\ UNCHANGED <<mode, catalog, expired, args, token, cursor, offered, foreign, reply, exit>>
  BY DEF Receive, Finish, TypeOK, world, agent, request, history
<1>2. CASE foreign
  <2>1. reply.body = None
    BY <1>1, <1>2 DEF Flow, Replied
  <2>2. answer.code # "ok"
    BY <1>1, <2>1, DecodedShape DEF Error, ByStatus
  <2>3. answer.code = "invalid_argument" => reply.status = 400
    BY <1>1, <2>1, DecodedShape DEF Error, ByStatus
  <2> QED
    BY <1>1, <1>2, <2>2, <2>3 DEF Explained, Exited, Flow
<1>3. CASE ~foreign /\ reply.body = Page(cursor) /\ "scoped" \in offered
  <2>1. cursor \in Served
    BY <1>1 DEF Flow, Chosen, Pending, RefusedArguments, Served, TypeOK
  <2>2. \/ answer = Page(cursor)
        \/ answer \in {Error("protocol_error"), Error("upstream_error")}
    BY <1>1, <1>3, <2>1, CatalogShape, ResultShape, DecodedShape
       DEF ByCode, Codes
  <2>3. Page(cursor)' = Page(cursor)
    BY <1>1 DEF Page
  <2>4. answer.code \in {"ok", "protocol_error", "upstream_error"}
    BY <2>1, <2>2, CatalogShape DEF Error
  <2>5. answer.code = "ok" => answer = Page(cursor)
    BY <2>2 DEF Error
  <2> QED
    BY <1>1, <1>3, <2>1, <2>3, <2>4, <2>5 DEF Explained, Exited, Flow, Denied
<1>4. CASE ~foreign /\ \E code \in WireCodes \ {"invalid_argument"} :
                          reply.body = Error(code) /\ Denied(code)
  <2>1. PICK code \in WireCodes \ {"invalid_argument"} :
                reply.body = Error(code) /\ Denied(code)
    BY <1>4
  <2>2. answer = Error("protocol_error") \/ answer = Error(ByCode(code))
    BY <1>1, <2>1, ResultShape, DecodedShape
  <2>3. ByCode(code) \in {"unauthorized", "forbidden", "rate_limited", "upstream_error"}
    BY DEF ByCode, Codes, WireCodes
  <2>4. ByCode(code) \in {"unauthorized", "forbidden"} => ByCode(code) = code
    BY DEF ByCode
  <2>5. answer.code \notin {"ok", "invalid_argument"} /\ Denied(answer.code)
    BY <2>1, <2>2, <2>3, <2>4 DEF Error, Denied
  <2> QED
    BY <1>1, <2>5 DEF Explained, Exited, Flow, Denied
<1> QED BY <1>1, <1>2, <1>3, <1>4 DEF Flow, Replied

\* Each step keeps what the points of a command rely on.
LEMMA FlowKept == TypeOK /\ Flow /\ [Next]_vars => Flow'
<1> SUFFICES ASSUME TypeOK, Flow, [Next]_vars
             PROVE  Flow'
  OBVIOUS
<1> USE DEF Flow, Chosen, Authorized, Replied, world, agent, request, history, Pending,
            RefusedArguments
<1>1. CASE Run
  BY <1>1 DEF Run, Finish, Explained, Exited, Denied, Error
<1>2. CASE GetProvider
  <2>1. CASE pc' = "list"
    BY <1>2, <2>1, UnderWay DEF GetProvider, Finish
  <2>2. CASE pc' # "list"
    <3>1. Finish(Error("configuration_error")) /\ UNCHANGED exit /\ pc = "provider"
      BY <1>2, <2>2 DEF GetProvider
    <3>2. Explained' /\ Exited'
      BY <3>1, OwnError
    <3> QED BY <1>2, <3>1, <3>2 DEF GetProvider, Finish
  <2> QED BY <2>1, <2>2
<1>3. CASE ListDirect
  <2>1. PICK answer \in Provided : Finish(answer)
    BY <1>3 DEF ListDirect
  <2>2. mode # "remote"
    BY <1>3 DEF ListDirect
  <2>3. CASE answer \in {Error("upstream_error"), Error("protocol_error")}
    BY <1>3, <2>1, <2>3, OwnError DEF ListDirect, Finish
  <2>4. CASE answer = Page(cursor) /\ cursor \in Served
    BY <1>3, <2>1, <2>2, <2>4, CatalogShape
       DEF ListDirect, Finish, Explained, Exited, Denied, Page
  <2>5. CASE answer = Error("invalid_argument") /\ RefusedArguments
    BY <1>3, <2>1, <2>5 DEF ListDirect, Finish, Explained, Exited, Denied, Error
  <2> QED BY <2>1, <2>3, <2>4, <2>5, ProvidedShape
<1>4. CASE SendRequest
  <2>1. CASE pc' = "admit"
    BY <1>4, <2>1 DEF SendRequest, Explained, Exited, Finish, Denied, Error, Entry
  <2>2. CASE Finish(Error("invalid_argument")) /\ RefusedArguments
    BY <1>4, <2>2 DEF SendRequest, Finish, Explained, Exited, Denied, Error
  <2>3. CASE Finish(Error("protocol_error"))
    BY <1>4, <2>3, OwnError DEF SendRequest, Finish
  <2> QED BY <1>4, <2>1, <2>2, <2>3 DEF SendRequest
<1>5. CASE Admit
  <2>1. CASE pc' = "authorize"
    BY <1>5, <2>1, UnderWay DEF Admit, Entry
  <2>2. CASE Respond(429, Error("busy"))
    BY <1>5, <2>2, ServerSays DEF Admit, Denied, WireCodes
  <2> QED BY <1>5, <2>1, <2>2 DEF Admit
<1>6. CASE LoadGrants
  <2>1. CASE grants # None
    <3>1. right' \in offered'
      BY <1>6, <2>1 DEF LoadGrants, Entry
    <3> QED BY <1>6, <2>1, <3>1, UnderWay DEF LoadGrants
  <2>2. CASE grants = None
    BY <1>6, <2>2, ServerSays DEF LoadGrants, Denied, WireCodes
  <2> QED BY <2>1, <2>2
<1>7. CASE Match
  <2>1. CASE ~Live /\ Respond(401, Error("unauthorized"))
    BY <1>7, <2>1, ServerSays DEF Match, Live, Denied, WireCodes
  <2>2. CASE right = "unscoped" /\ Respond(403, Error("forbidden"))
    BY <1>7, <2>2, ServerSays DEF Match, Denied, WireCodes
  <2>3. CASE right = "scoped" /\ pc' = "serve"
    BY <1>7, <2>3, UnderWay DEF Match
  <2> QED BY <1>7, <2>1, <2>2, <2>3 DEF Match
<1>8. CASE Serve
  <2>1. PICK answer \in Provided :
              /\ pc' = "reply"
              /\ reply' = IF answer \in Answers THEN [status |-> 200, body |-> answer]
                                                ELSE ProviderError(answer.code)
    BY <1>8 DEF Serve
  <2>2. cursor \in Served /\ ~RefusedArguments /\ pc = "serve"
    BY <1>8 DEF Serve, TypeOK, Served
  <2>3. CASE answer = Page(cursor)
    <3>1. reply'.body = Page(cursor) /\ Page(cursor)' = Page(cursor)
      BY <1>8, <2>1, <2>2, <2>3, CatalogShape DEF Serve, Page
    <3> QED BY <1>8, <2>1, <2>2, <3>1, UnderWay DEF Serve
  <2>4. CASE answer \in {Error("upstream_error"), Error("protocol_error")}
    <3>1. answer \notin Answers /\ answer.code # "invalid_argument"
      BY <2>4, ResultShape DEF Codes, Error
    <3>2. Respond(502, Error("upstream_error"))
      BY <2>1, <3>1 DEF ProviderError, Respond
    <3> QED BY <1>8, <2>2, <3>2, ServerSays DEF Serve, Denied, WireCodes
  <2> QED BY <2>1, <2>2, <2>3, <2>4, ProvidedShape
<1>9. CASE Lose
  BY <1>9, UnderWay DEF Lose
<1>10. CASE Intrude
  BY <1>10, UnderWay DEF Intrude, Respond
<1>11. CASE GiveUp
  BY <1>11, OwnError DEF GiveUp, Finish
<1>12. CASE Receive
  BY <1>12, ReceiveExplained DEF Receive, Finish
<1>13. CASE Report
  <2>1. /\ pc = "print" /\ pc' = "idle" /\ result' = result /\ result \in Results
        /\ UNCHANGED <<mode, catalog, expired, args, token, offered, foreign, reply>>
    BY <1>13 DEF Report, TypeOK
  <2>2. result.code # "ok" => cursor' = cursor
    BY <1>13, <2>1, ResultShape DEF Report, Read
  <2>3. exit' \in {1, ExitStatus(result.code)}
    BY <1>13 DEF Report
  <2>4. Explained'
    BY <2>1, <2>2 DEF Explained, Denied
  <2>5. Exited'
    BY <2>1, <2>3 DEF Exited, ExitStatus, Explained
  <2> QED BY <2>1, <2>4, <2>5
<1>14. CASE EditGrants
  BY <1>14, ReasonsStay DEF EditGrants, Heard, Entry
<1>15. CASE Expire
  BY <1>15, ReasonsStay DEF Expire, Entry
<1>16. CASE ReplaceToken
  BY <1>16, ReasonsStay DEF ReplaceToken, Entry
<1>17. CASE UNCHANGED vars
  BY <1>17, ReasonsStay DEF vars, Entry
<1>18. CASE CheckExpiry
  BY <1>18, ServerSays DEF CheckExpiry, Denied, WireCodes
<1> QED
  BY <1>1, <1>2, <1>3, <1>4, <1>5, <1>6, <1>7, <1>8, <1>9, <1>10, <1>11, <1>12, <1>13,
     <1>14, <1>15, <1>16, <1>17, <1>18 DEF Next, Process, Server, Wire, Others, Rest

-----------------------------------------------------------------------------
(* The agent's place in the listing                                        *)

\* The first page comes first.
LEMMA InitLinked == Init => Linked
BY DEF Init, Linked, Promised!Following

\* A page the agent is given is the one that follows, and it goes on from it.
LEMMA ShownNext ==
    ASSUME TypeOK, Flow, Linked, pc = "print", Read, result \in Answers,
           pc' = "idle", UNCHANGED catalog
    PROVE  Promised!Show /\ Linked'
<1>1. result.page = cursor /\ result.next = catalog[cursor] /\ cursor \in Served
  BY ResultShape DEF Flow, Explained, Page, Shown, TypeOK
<1>2. claim = "open" /\ cursor = Promised!Following
  BY DEF Linked
<1>3. /\ shown' = Append(shown, cursor)
      /\ IF catalog[cursor] = NoNext
           THEN claim' = "complete" /\ cursor' = cursor
           ELSE cursor' = catalog[cursor] /\ claim' = claim
  BY <1>1 DEF Read
<1>4. Promised!Show
  BY <1>2, <1>3 DEF Promised!Show
<1>5. shown' # << >> /\ shown'[Len(shown')] = cursor
  BY <1>1, <1>3, AppendProperties DEF TypeOK
<1>6. Promised!Following' = catalog[cursor]
  BY <1>5 DEF Promised!Following
<1>7. Linked'
  BY <1>2, <1>3, <1>6 DEF Linked
<1> QED BY <1>4, <1>7

\* Every other step leaves the agent where it is.
LEMMA AgentStep ==
    ASSUME TypeOK, Flow, Linked, [Next]_vars
    PROVE  /\ Promised!Show \/ UNCHANGED <<catalog, shown, claim>>
           /\ Linked'
<1>1. CASE Report /\ Read /\ result \in Answers
  BY <1>1, ShownNext DEF Report, world
<1>2. CASE Report /\ ~(Read /\ result \in Answers)
  <2>1. UNCHANGED <<catalog, shown, claim, cursor>> /\ pc = "print"
    BY <1>2 DEF Report, Read, world
  <2> QED BY <2>1 DEF Linked, Promised!Following
<1>3. CASE Run
  BY <1>3 DEF Run, world, Linked, Promised!Following
<1>4. CASE Rest \/ UNCHANGED vars
  BY <1>4 DEF Rest, vars, world, agent, Linked, Promised!Following
<1>5. CASE ~Run /\ ~Report /\ ~Rest /\ ~UNCHANGED vars
  <2>1. UNCHANGED <<catalog, shown, claim, cursor>> /\ (pc' = "idle" <=> pc = "idle")
    BY <1>5 DEF Next, Process, Server, Wire, Others, GetProvider, ListDirect, SendRequest,
                Admit, LoadGrants, Match, CheckExpiry, Serve, Lose, Intrude, GiveUp, Receive,
                EditGrants, Expire, ReplaceToken, Respond, Finish, Pending, world, agent
  <2> QED BY <2>1 DEF Linked, Promised!Following
<1> QED BY <1>1, <1>2, <1>3, <1>4, <1>5

-----------------------------------------------------------------------------
(* The theorems                                                            *)

\* The inductive invariant, of every session.
THEOREM BrowseInvariant == Spec => []IInv
<1>1. Init => IInv
  BY InitTypes, InitFlow, InitLinked DEF IInv
<1>2. IInv /\ [Next]_vars => IInv'
  BY TypesKept, FlowKept, AgentStep DEF IInv
<1> QED BY <1>1, <1>2, PTL DEF Spec

\* The types of a session, for every directory and any number of commands.
THEOREM TypeCorrect == Spec => []TypeOK
<1>1. IInv => TypeOK
  BY DEF IInv
<1> QED BY <1>1, BrowseInvariant, PTL

\* Exit status 2 is never a failure of server or host.
THEOREM UsageErrorsExplainedHolds == Spec => []UsageErrorsExplained
<1>1. IInv => UsageErrorsExplained
  BY DEF IInv, Flow, Explained, Exited, UsageErrorsExplained
<1> QED BY <1>1, BrowseInvariant, PTL

\* The server denies only what the file, or the clock, denied.
THEOREM DeniedOnlyWithoutGrantHolds == Spec => []DeniedOnlyWithoutGrant
<1>1. IInv => DeniedOnlyWithoutGrant
  BY DEF IInv, Flow, Explained, Denied, DeniedOnlyWithoutGrant
<1> QED BY <1>1, BrowseInvariant, PTL

\* In remote mode no page is shown without the scope.
THEOREM PagesOnGrantHolds == Spec => []PagesOnGrant
<1>1. IInv => PagesOnGrant
  BY DEF IInv, Flow, Exited, PagesOnGrant
<1> QED BY <1>1, BrowseInvariant, PTL

\* A session of commands, local or remote, with all their failures and
\* repetitions, implements Listing.
THEOREM Implements == Spec => KeepsPromise
<1>1. Init => Promised!Init
  BY DEF Init, Promised!Init
<1>2. IInv /\ [Next]_vars => [Promised!Show]_<<catalog, shown, claim>>
  BY AgentStep DEF IInv
<1> QED BY <1>1, <1>2, BrowseInvariant, PTL DEF Spec, KeepsPromise, Promised!Spec

-----------------------------------------------------------------------------
(* A command ends: the part of Returns that needs no fairness              *)

\* An upper bound on the steps the process has still to take.
StepsLeft ==
    [idle |-> 0, print |-> 1, admit |-> 2, authorize |-> 2, match |-> 2, serve |-> 2,
     reply |-> 2, lost |-> 2, list |-> 3, provider |-> 4][pc]

\* Every step of the process brings its command nearer to the exit, and no
\* server, ingress, lost reply or edit sets it back: nothing is sent twice.
CommandAdvances ==
    [][/\ StepsLeft \in 0..4
       /\ Process => StepsLeft' < StepsLeft
       /\ StepsLeft' <= StepsLeft \/ Run]_vars

\* A command is over after at most four steps of its own, for every host, every
\* server and everything that happens between the two.
THEOREM CommandAdvancesHolds == Spec => CommandAdvances
<1> DEFINE Progress == /\ StepsLeft \in 0..4
                       /\ Process => StepsLeft' < StepsLeft
                       /\ StepsLeft' <= StepsLeft \/ Run
<1>1. ASSUME TypeOK, [Next]_vars
      PROVE  Progress
  <2>1. pc \in Pending \cup {"idle", "provider", "list", "lost", "print"}
    BY <1>1 DEF TypeOK
  <2>2. StepsLeft \in 0..4
    BY <2>1 DEF StepsLeft, Pending
  <2>3. ASSUME Process
        PROVE  StepsLeft' < StepsLeft /\ StepsLeft' <= StepsLeft
    BY <2>3 DEF Process, StepsLeft, Pending, Finish, GetProvider, ListDirect, SendRequest,
                GiveUp, Receive, Report
  <2>4. ASSUME Server \/ Wire
        PROVE  StepsLeft' = StepsLeft
    BY <2>4 DEF Server, Wire, StepsLeft, Pending, Respond, Admit, LoadGrants, Match,
                CheckExpiry, Serve, Lose, Intrude
  <2>5. ASSUME Others \/ UNCHANGED vars
        PROVE  StepsLeft' = StepsLeft
    <3>1. pc' = pc
      BY <2>5 DEF Others, EditGrants, Expire, ReplaceToken, vars
    <3> QED BY <3>1 DEF StepsLeft
  <2>6. ASSUME Process \/ Server \/ Wire \/ Others \/ UNCHANGED vars
        PROVE  StepsLeft' <= StepsLeft
    <3>1. StepsLeft' = StepsLeft => StepsLeft' <= StepsLeft
      BY <2>2
    <3> QED BY <2>3, <2>4, <2>5, <2>6, <3>1
  <2> QED BY <1>1, <2>2, <2>3, <2>6 DEF Next, Rest
<1>2. TypeOK /\ [Next]_vars => [Progress]_vars
  BY <1>1
<1> QED BY <1>2, TypeCorrect, PTL DEF Spec, CommandAdvances

=============================================================================
