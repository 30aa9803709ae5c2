--------------------------- MODULE ToolServerProofs ---------------------------
(***************************************************************************)
(* Proofs about ToolServer, for every set of requests and tokens, every    *)
(* limit and every horizon.                                                *)
(*                                                                         *)
(* The properties are not inductive by themselves.  Flow says, for one     *)
(* request, what each point of the handler may rely on; the inductive      *)
(* invariant is IInv.                                                      *)
(***************************************************************************)
EXTENDS ToolServer, FiniteSetTheorems, TLAPS

USE RequestsAssumption, LimitAssumption, TimeAssumption, PartsAssumption, ValuesAssumption
    DEF RequestsAssumption, LimitAssumption, TimeAssumption, PartsAssumption,
        ValuesAssumption

Decided == Admitted \cup {"expiry", "deadline"}

\* What the statements executed so far have established for one request.
Flow(r) ==
    /\ pc[r] \in Undecided => Entry(file, token[r]) \subseteq offered[r]
    /\ pc[r] = "idle" => token[r] = NoToken
    /\ pc[r] \in {"load", "match"} => token[r] \in Tokens
    /\ pc[r] \in Undecided \cup {"idle"} => grant[r] = NoGrant
    /\ pc[r] = "match" => /\ doc[r] # Unreadable
                          /\ Entry(doc[r], token[r]) \subseteq offered[r]
    /\ pc[r] \in Decided => grant[r] \in offered[r] /\ grant[r].scoped
    /\ pc[r] = "deadline" => timeout[r] <= grant[r].exp - checkedAt[r]
    /\ pc[r] \in Admitted => deadline[r] # NoDeadline
    /\ pc[r] \in Undecided \cup {"idle", "expiry", "deadline"} => deadline[r] = NoDeadline
    /\ deadline[r] # NoDeadline => /\ grant[r] \in offered[r]
                                   /\ deadline[r] = setAt[r] + timeout[r]
                                   /\ timeout[r] <= grant[r].exp - checkedAt[r]
    /\ pc[r] \notin {"write", "stream", "return", "flush"} => sent[r] = 0 /\ reply[r] = "none"
    /\ pc[r] \in {"write", "stream"} => sent[r] < Parts
    /\ pc[r] = "write" => reply[r] = "success"
    /\ pc[r] = "stream" => reply[r] = "stream"
    /\ reply[r] \in {"success", "stream"} => deadline[r] # NoDeadline
    /\ pc[r] \in {"return", "flush"} /\ reply[r] = "none" => MayBeDone(r)

IInv == TypeOK /\ SlotAccounting /\ \A r \in Requests : Flow(r)

-----------------------------------------------------------------------------
(* Types                                                                   *)

\* An entry of a document is a grant, whose expiry is a number.
LEMMA EntryType ==
    ASSUME NEW d \in Documents, NEW t \in Tokens \cup {NoToken}
    PROVE  Entry(d, t) \subseteq Grants
BY DEF Entry, Documents

\* Arithmetic on an expiry is arithmetic on numbers.
LEMMA GrantType ==
    ASSUME NEW g \in Grants
    PROVE  g.exp \in Nat
BY DEF Grants

\* The server starts with no request and no slot taken.
LEMMA InitInv == Init => IInv
<1> SUFFICES ASSUME Init PROVE IInv
  OBVIOUS
<1>1. TypeOK
  BY DEF Init, TypeOK, Documents, Admitted, Phases, NoDeadline
<1>2. Holders = {}
  BY DEF Init, Holders, Holds
<1>3. SlotAccounting
  BY <1>2, FS_EmptySet DEF Init, SlotAccounting
<1>4. ASSUME NEW r \in Requests PROVE Flow(r)
  BY DEF Init, Flow, Undecided, Decided, Admitted, NoDeadline
<1> QED BY <1>1, <1>3, <1>4 DEF IInv

\* A step of one request keeps the types.
LEMMA RequestTypes ==
    ASSUME TypeOK, SlotAccounting, NEW r \in Requests, Flow(r), Handler(r) \/ Client(r)
    PROVE  TypeOK'
<1> USE DEF TypeOK, Goto, Fail, environment, locals, history, Phases, Undecided, Admitted,
            NoDeadline
<1>1. CASE Acquire(r)
  BY <1>1 DEF Acquire
<1>2. CASE Busy(r)
  BY <1>2 DEF Busy
<1>3. CASE CheckHeader(r)
  BY <1>3 DEF CheckHeader
<1>4. CASE LoadGrants(r)
  BY <1>4 DEF LoadGrants
<1>5. CASE Match(r)
  BY <1>5 DEF Match, Flow, Entry, Documents
<1>6. CASE CheckExpiry(r)
  <2>1. grant[r].exp - clock \in Int
    <3>1. grant[r] \in Grants
      BY <1>6 DEF CheckExpiry, Flow, Decided
    <3> QED BY <3>1, GrantType
  <2>2. CASE grant[r].exp - clock > 0
    <3>1. Lesser(DefaultTimeout, grant[r].exp - clock) \in 1..DefaultTimeout
      BY <2>1, <2>2 DEF Lesser
    <3> QED BY <1>6, <2>2, <3>1 DEF CheckExpiry
  <2>3. CASE ~(grant[r].exp - clock > 0)
    BY <1>6, <2>3 DEF CheckExpiry
  <2> QED BY <2>2, <2>3
<1>7. CASE SetDeadline(r)
  BY <1>7 DEF SetDeadline
<1>8. CASE AbandonBody(r)
  BY <1>8 DEF AbandonBody
<1>9. CASE CallProvider(r)
  BY <1>9 DEF CallProvider
<1>10. CASE CheckContext(r)
  BY <1>10 DEF CheckContext
<1>11. CASE VerifySpool(r)
  BY <1>11 DEF VerifySpool
<1>12. CASE Respond(r)
  BY <1>12 DEF Respond
<1>13. CASE StopStream(r)
  BY <1>13 DEF StopStream
<1>14. CASE Return(r)
  <2>1. Holders # {} /\ IsFiniteSet(Holders)
    BY <1>14, FS_Subset DEF Return, Holders, Holds
  <2>2. Cardinality(Holders) \in Nat \ {0}
    BY <2>1, FS_CardinalityType, FS_EmptySet
  <2>3. sem' \in 0..MaxConcurrency
    BY <1>14, <2>2 DEF Return, SlotAccounting
  <2> QED BY <1>14, <2>3 DEF Return
<1>15. CASE Flush(r)
  BY <1>15 DEF Flush, Documents
<1>16. CASE Arrive(r)
  BY EntryType, <1>16 DEF Arrive
<1>17. CASE Disconnect(r)
  BY <1>17 DEF Disconnect
<1>18. CASE ReadBody(r)
  BY <1>18 DEF ReadBody
<1>19. CASE RejectBody(r)
  BY <1>19 DEF RejectBody
<1>20. CASE StreamPart(r)
  BY <1>20 DEF StreamPart, Write, Flow
<1>21. CASE WriteEnvelope(r)
  BY <1>21 DEF WriteEnvelope, Write, Flow
<1>22. CASE StopEnvelope(r)
  BY <1>22 DEF StopEnvelope
<1>23. CASE BreakStream(r)
  BY <1>23 DEF BreakStream
<1> QED
  BY <1>1, <1>2, <1>3, <1>4, <1>5, <1>6, <1>7, <1>8, <1>9, <1>10, <1>11, <1>12, <1>13, <1>14, <1>15, <1>16, <1>17, <1>18, <1>19, <1>20,
     <1>21, <1>22, <1>23
     DEF Handler, Client

\* Time and edits of the grants file keep the types.
LEMMA EnvironmentTypes ==
    ASSUME TypeOK, Tick \/ EditGrants
    PROVE  TypeOK'
<1> USE DEF TypeOK, locals, history
<1>1. CASE Tick
  BY <1>1 DEF Tick
<1>2. CASE EditGrants
  <2>1. PICK d \in Documents :
          /\ file' = d
          /\ offered' = [r \in Requests |->
                           IF pc[r] \in Undecided
                             THEN offered[r] \cup Entry(d, token[r])
                             ELSE offered[r]]
    BY <1>2 DEF EditGrants
  <2>2. \A r \in Requests : Entry(d, token[r]) \subseteq Grants
    BY EntryType
  <2>3. offered' \in [Requests -> SUBSET Grants]
    BY <2>1, <2>2
  <2> QED BY <1>2, <2>1, <2>3 DEF EditGrants
<1> QED BY <1>1, <1>2

-----------------------------------------------------------------------------
(* Flow                                                                    *)

\* Nothing about request q changes.
Kept(q) ==
    /\ pc'[q] = pc[q] /\ token'[q] = token[q] /\ doc'[q] = doc[q]
    /\ grant'[q] = grant[q] /\ timeout'[q] = timeout[q] /\ deadline'[q] = deadline[q]
    /\ conn'[q] = conn[q] /\ reply'[q] = reply[q] /\ sent'[q] = sent[q]
    /\ offered'[q] = offered[q] /\ checkedAt'[q] = checkedAt[q] /\ setAt'[q] = setAt[q]

\* A request's steps do not touch another request, the file or the clock.
LEMMA OthersKept ==
    ASSUME TypeOK, NEW r \in Requests, Handler(r) \/ Client(r)
    PROVE  /\ clock' = clock /\ file' = file
           /\ \A q \in Requests \ {r} : Kept(q)
<1> USE DEF TypeOK, Goto, Fail, environment, locals, history, Kept
<1>1. CASE Acquire(r)
  BY <1>1 DEF Acquire
<1>2. CASE Busy(r)
  BY <1>2 DEF Busy
<1>3. CASE CheckHeader(r)
  BY <1>3 DEF CheckHeader
<1>4. CASE LoadGrants(r)
  BY <1>4 DEF LoadGrants
<1>5. CASE Match(r)
  BY <1>5 DEF Match
<1>6. CASE CheckExpiry(r)
  BY <1>6 DEF CheckExpiry
<1>7. CASE SetDeadline(r)
  BY <1>7 DEF SetDeadline
<1>8. CASE AbandonBody(r)
  BY <1>8 DEF AbandonBody
<1>9. CASE CallProvider(r)
  BY <1>9 DEF CallProvider
<1>10. CASE CheckContext(r)
  BY <1>10 DEF CheckContext
<1>11. CASE VerifySpool(r)
  BY <1>11 DEF VerifySpool
<1>12. CASE Respond(r)
  BY <1>12 DEF Respond
<1>13. CASE StopStream(r)
  BY <1>13 DEF StopStream
<1>14. CASE Return(r)
  BY <1>14 DEF Return
<1>15. CASE Flush(r)
  BY <1>15 DEF Flush
<1>16. CASE Arrive(r)
  BY <1>16 DEF Arrive
<1>17. CASE Disconnect(r)
  BY <1>17 DEF Disconnect
<1>18. CASE ReadBody(r)
  BY <1>18 DEF ReadBody
<1>19. CASE RejectBody(r)
  BY <1>19 DEF RejectBody
<1>20. CASE StreamPart(r)
  BY <1>20 DEF StreamPart, Write
<1>21. CASE WriteEnvelope(r)
  BY <1>21 DEF WriteEnvelope, Write
<1>22. CASE StopEnvelope(r)
  BY <1>22 DEF StopEnvelope
<1>23. CASE BreakStream(r)
  BY <1>23 DEF BreakStream
<1> QED
  BY <1>1, <1>2, <1>3, <1>4, <1>5, <1>6, <1>7, <1>8, <1>9, <1>10, <1>11, <1>12, <1>13, <1>14, <1>15, <1>16, <1>17, <1>18, <1>19, <1>20,
     <1>21, <1>22, <1>23
     DEF Handler, Client

\* What a request relies on survives the steps of the others.
LEMMA KeptFlow ==
    ASSUME NEW q \in Requests, Flow(q), Kept(q), clock' = clock, file' = file
    PROVE  Flow(q)'
BY DEF Flow, Kept, MayBeDone, Expired

\* A step of a request keeps what it relies on itself.
LEMMA OwnFlow ==
    ASSUME TypeOK, NEW r \in Requests, Flow(r), Handler(r) \/ Client(r)
    PROVE  Flow(r)'
<1> USE DEF TypeOK, Flow, Goto, Fail, environment, locals, history, Undecided, Admitted,
            Decided, NoDeadline
<1>1. CASE Acquire(r)
  BY <1>1 DEF Acquire
<1>2. CASE Busy(r)
  BY <1>2 DEF Busy
<1>3. CASE CheckHeader(r)
  BY <1>3 DEF CheckHeader
<1>4. CASE LoadGrants(r)
  BY <1>4 DEF LoadGrants
<1>5. CASE Match(r)
  <2>1. doc[r][token[r]] # NoGrant => doc[r][token[r]] \in offered[r]
    BY <1>5, NoToken \notin Tokens DEF Match, Entry
  <2> QED BY <1>5, <2>1 DEF Match
<1>6. CASE CheckExpiry(r)
  <2> DEFINE remaining == grant[r].exp - clock
  <2>1. remaining \in Int
    <3>1. grant[r] \in Grants
      BY <1>6 DEF CheckExpiry
    <3> QED BY <3>1, GrantType
  <2>2. CASE remaining > 0
    <3>1. Lesser(DefaultTimeout, remaining) <= remaining
      BY <2>1, <2>2 DEF Lesser
    <3>2. /\ timeout'[r] = Lesser(DefaultTimeout, remaining)
          /\ checkedAt'[r] = clock
          /\ grant'[r] = grant[r]
      BY <1>6, <2>1, <2>2 DEF CheckExpiry
    <3>3. timeout'[r] <= grant'[r].exp - checkedAt'[r]
      BY <3>1, <3>2
    <3> QED BY <1>6, <2>2, <3>3 DEF CheckExpiry
  <2>3. CASE ~(remaining > 0)
    BY <1>6, <2>3 DEF CheckExpiry
  <2> QED BY <2>2, <2>3
<1>7. CASE SetDeadline(r)
  BY <1>7 DEF SetDeadline
<1>8. CASE AbandonBody(r)
  BY <1>8 DEF AbandonBody, MayBeDone, Expired
<1>9. CASE CallProvider(r)
  BY <1>9 DEF CallProvider
<1>10. CASE CheckContext(r)
  BY <1>10 DEF CheckContext, MayBeDone, Expired
<1>11. CASE VerifySpool(r)
  BY <1>11 DEF VerifySpool, MayBeDone, Expired
<1>12. CASE Respond(r)
  BY <1>12 DEF Respond
<1>13. CASE StopStream(r)
  BY <1>13 DEF StopStream
<1>14. CASE Return(r)
  BY <1>14 DEF Return, MayBeDone, Expired
<1>15. CASE Flush(r)
  BY <1>15 DEF Flush
<1>16. CASE Arrive(r)
  BY <1>16 DEF Arrive
<1>17. CASE Disconnect(r)
  BY <1>17 DEF Disconnect, MayBeDone
<1>18. CASE ReadBody(r)
  BY <1>18 DEF ReadBody
<1>19. CASE RejectBody(r)
  BY <1>19 DEF RejectBody
<1>20. CASE StreamPart(r)
  BY <1>20 DEF StreamPart, Write
<1>21. CASE WriteEnvelope(r)
  BY <1>21 DEF WriteEnvelope, Write
<1>22. CASE StopEnvelope(r)
  BY <1>22 DEF StopEnvelope, MayBeDone, Expired
<1>23. CASE BreakStream(r)
  BY <1>23 DEF BreakStream, MayBeDone, Expired
<1> QED
  BY <1>1, <1>2, <1>3, <1>4, <1>5, <1>6, <1>7, <1>8, <1>9, <1>10, <1>11, <1>12, <1>13, <1>14, <1>15, <1>16, <1>17, <1>18, <1>19, <1>20,
     <1>21, <1>22, <1>23
     DEF Handler, Client

\* A deadline that has passed has passed for good: a silent end stays excused.
LEMMA TickFlow ==
    ASSUME TypeOK, Tick, NEW q \in Requests, Flow(q)
    PROVE  Flow(q)'
<1>1. clock' = clock + 1 /\ UNCHANGED <<file, pc, locals, history>>
  BY DEF Tick
<1>2. Expired(q) => Expired(q)'
  BY <1>1 DEF TypeOK, Expired, locals
<1>3. MayBeDone(q) => MayBeDone(q)'
  BY <1>1, <1>2 DEF MayBeDone, locals
<1> QED BY <1>1, <1>3 DEF Flow, locals, history

\* An edit adds what the new file holds to what was offered to the undecided.
LEMMA EditFlow ==
    ASSUME TypeOK, EditGrants, NEW q \in Requests, Flow(q)
    PROVE  Flow(q)'
<1>1. UNCHANGED <<clock, pc, locals, checkedAt, setAt>>
  BY DEF EditGrants
<1>2. PICK d \in Documents :
        /\ file' = d
        /\ offered' = [r \in Requests |->
                         IF pc[r] \in Undecided
                           THEN offered[r] \cup Entry(d, token[r])
                           ELSE offered[r]]
  BY DEF EditGrants
<1>3. offered[q] \subseteq offered'[q]
  BY <1>2
<1>4. pc[q] \in Undecided => Entry(file', token[q]) \subseteq offered'[q]
  BY <1>2
<1>5. UNCHANGED <<MayBeDone(q), Entry(doc[q], token[q])>>
  BY <1>1 DEF MayBeDone, Expired, Entry, locals
<1> QED BY <1>1, <1>3, <1>4, <1>5 DEF Flow, locals

-----------------------------------------------------------------------------
(* Slots                                                                   *)

\* Only taking and giving back a slot moves a request in or out of Holders.
LEMMA SlotStep ==
    ASSUME TypeOK, SlotAccounting, NEW r \in Requests, Handler(r) \/ Client(r)
    PROVE  SlotAccounting'
<1>1. IsFiniteSet(Holders) /\ Cardinality(Holders) \in Nat
  BY FS_Subset, FS_CardinalityType DEF Holders
<1>2. CASE Acquire(r)
  <2>1. Holders' = Holders \cup {r} /\ r \notin Holders
    BY <1>2 DEF TypeOK, Acquire, Goto, Holders, Holds
  <2>2. Cardinality(Holders \cup {r}) = Cardinality(Holders) + 1
    BY <1>1, <2>1, FS_AddElement
  <2> QED BY <1>1, <1>2, <2>1, <2>2 DEF Acquire, SlotAccounting
<1>3. CASE Return(r)
  <2>1. Holders' = Holders \ {r} /\ r \in Holders
    BY <1>3 DEF TypeOK, Return, Goto, Holders, Holds
  <2>2. Cardinality(Holders \ {r}) = Cardinality(Holders) - 1
    BY <1>1, <2>1, FS_RemoveElement
  <2> QED BY <1>1, <1>3, <2>1, <2>2 DEF Return, SlotAccounting
<1>4. CASE sem' = sem /\ Holders' = Holders
  BY <1>4 DEF SlotAccounting
<1>5. ASSUME ~Acquire(r), ~Return(r) PROVE sem' = sem /\ Holders' = Holders
  <2> USE DEF TypeOK, Goto, Fail, Holders, Holds
  <2>1. CASE Busy(r)
    BY <2>1 DEF Busy
  <2>2. CASE CheckHeader(r)
    BY <2>2 DEF CheckHeader
  <2>3. CASE LoadGrants(r)
    BY <2>3 DEF LoadGrants
  <2>4. CASE Match(r)
    BY <2>4 DEF Match
  <2>5. CASE CheckExpiry(r)
    BY <2>5 DEF CheckExpiry
  <2>6. CASE SetDeadline(r)
    BY <2>6 DEF SetDeadline
  <2>7. CASE AbandonBody(r)
    BY <2>7 DEF AbandonBody
  <2>8. CASE CallProvider(r)
    BY <2>8 DEF CallProvider
  <2>9. CASE CheckContext(r)
    BY <2>9 DEF CheckContext
  <2>10. CASE VerifySpool(r)
    BY <2>10 DEF VerifySpool
  <2>11. CASE Respond(r)
    BY <2>11 DEF Respond
  <2>12. CASE StopStream(r)
    BY <2>12 DEF StopStream
  <2>13. CASE Flush(r)
    BY <2>13 DEF Flush
  <2>14. CASE Arrive(r)
    BY <2>14 DEF Arrive
  <2>15. CASE Disconnect(r)
    BY <2>15 DEF Disconnect, Admitted
  <2>16. CASE ReadBody(r)
    BY <2>16 DEF ReadBody
  <2>17. CASE RejectBody(r)
    BY <2>17 DEF RejectBody
  <2>18. CASE StreamPart(r)
    BY <2>18 DEF StreamPart, Write
  <2>19. CASE WriteEnvelope(r)
    BY <2>19 DEF WriteEnvelope, Write
  <2>20. CASE StopEnvelope(r)
    BY <2>20 DEF StopEnvelope
  <2>21. CASE BreakStream(r)
    BY <2>21 DEF BreakStream
  <2> QED
    BY <1>5, <2>1, <2>2, <2>3, <2>4, <2>5, <2>6, <2>7, <2>8, <2>9, <2>10, <2>11, <2>12, <2>13, <2>14, <2>15, <2>16, <2>17, <2>18,
       <2>19, <2>20, <2>21
       DEF Handler, Client
<1> QED BY <1>2, <1>3, <1>4, <1>5

-----------------------------------------------------------------------------
(* The inductive invariant                                                 *)

\* Every step keeps the inductive invariant.
LEMMA StepInv == IInv /\ [Next]_vars => IInv'
<1> SUFFICES ASSUME IInv, [Next]_vars PROVE IInv'
  OBVIOUS
<1> USE DEF IInv
<1>1. CASE Tick
  <2>1. UNCHANGED <<sem, pc>>
    BY <1>1 DEF Tick
  <2>2. SlotAccounting'
    BY <2>1 DEF SlotAccounting, Holders, Holds
  <2> QED BY <1>1, <2>2, EnvironmentTypes, TickFlow
<1>2. CASE EditGrants
  <2>1. UNCHANGED <<sem, pc>>
    BY <1>2 DEF EditGrants
  <2>2. SlotAccounting'
    BY <2>1 DEF SlotAccounting, Holders, Holds
  <2> QED BY <1>2, <2>2, EnvironmentTypes, EditFlow
<1>3. ASSUME NEW r \in Requests, Handler(r) \/ Client(r)
      PROVE  IInv'
  <2>1. TypeOK'
    BY <1>3, RequestTypes
  <2>2. SlotAccounting'
    BY <1>3, SlotStep
  <2>3. Flow(r)'
    BY <1>3, OwnFlow
  <2>4. ASSUME NEW q \in Requests \ {r} PROVE Flow(q)'
    BY <1>3, OthersKept, KeptFlow
  <2> QED BY <2>1, <2>2, <2>3, <2>4
<1>4. CASE UNCHANGED vars
  BY <1>4 DEF vars, environment, locals, history, TypeOK, SlotAccounting, Holders, Holds,
              Flow, MayBeDone, Expired
<1> QED BY <1>1, <1>2, <1>3, <1>4 DEF Next, Rest

\* The inductive invariant holds throughout.
THEOREM PipelineInvariant == Spec => []IInv
BY InitInv, StepInv, PTL DEF Spec

\* Types: the semaphore never exceeds its capacity, and whatever the clock does
\* between Authorize and the deadline, every admitted request has a positive
\* timeout, at most the configured one.
THEOREM TypeCorrect == Spec => []TypeOK
BY PipelineInvariant, PTL DEF IInv

\* For any number of requests and any limit, the semaphore counts the requests
\* between their send and their deferred receive.
THEOREM SlotAccountingHolds == Spec => []SlotAccounting
BY PipelineInvariant, PTL DEF IInv

\* A request past Authorize carries a grant the file held for its token at a
\* moment after its arrival, however often the file is edited.
THEOREM AdmittedOnLiveGrantHolds == Spec => []AdmittedOnLiveGrant
<1>1. IInv => AdmittedOnLiveGrant
  BY DEF IInv, Flow, AdmittedOnLiveGrant, Decided
<1> QED BY <1>1, PipelineInvariant, PTL

\* Only a client that half closed its connection is sent the empty 200 of a
\* handler that gave up: none whose deadline has passed, none that is gone.
THEOREM EmptyOnlyToHalfClosedHolds == Spec => []EmptyOnlyToHalfClosed
<1>1. IInv => EmptyOnlyToHalfClosed
  <2> SUFFICES ASSUME IInv, NEW r \in Requests, pc[r] = "flush", FinalBytes(r) = "empty"
               PROVE  conn[r] = "half"
    BY DEF EmptyOnlyToHalfClosed
  <2>1. reply[r] = "none" /\ Writable(r)
    BY DEF FinalBytes, IInv, TypeOK
  <2>2. MayBeDone(r)
    BY <2>1 DEF IInv, Flow
  <2> QED BY <2>1, <2>2 DEF IInv, TypeOK, Writable, MayBeDone
<1> QED BY <1>1, PipelineInvariant, PTL

-----------------------------------------------------------------------------
(* Deliveries                                                              *)

\* A step that puts payload on the wire finds the connection writable and the
\* deadline set.
LEMMA DeliversWritable ==
    ASSUME IInv, [Next]_vars, NEW r \in Requests, Delivers(r)
    PROVE  Writable(r) /\ deadline[r] # NoDeadline
<1> USE DEF IInv
<1>1. CASE pc[r] = "flush" /\ FinalBytes(r) = "success"
  BY <1>1 DEF FinalBytes, Flow
<1>2. CASE sent'[r] > sent[r]
  <2>1. sent[r] \in Nat
    BY DEF TypeOK
  <2>2. CASE StreamPart(r) \/ WriteEnvelope(r)
    BY <2>2 DEF StreamPart, WriteEnvelope, Write, Goto, Flow, Admitted, Undecided
  <2>3. ASSUME NEW q \in Requests \ {r}, Handler(q) \/ Client(q)
        PROVE  FALSE
    BY <1>2, <2>1, <2>3, OthersKept DEF Kept
  <2>4. ASSUME Flush(r) PROVE FALSE
    BY <1>2, <2>1, <2>4 DEF Flush, TypeOK
  <2>5. ASSUME UNCHANGED sent PROVE FALSE
    BY <1>2, <2>1, <2>5
  <2>6. ASSUME Handler(r) \/ Client(r), ~StreamPart(r), ~WriteEnvelope(r), ~Flush(r) PROVE UNCHANGED sent
    BY <2>6 DEF Handler, Client, locals, history, Acquire, Busy, CheckHeader, LoadGrants, Match, CheckExpiry, SetDeadline, AbandonBody, CallProvider, CheckContext, VerifySpool, Respond,
           StopEnvelope, StopStream, BreakStream, Return, Arrive, Disconnect, ReadBody, RejectBody
  <2>7. ASSUME Tick \/ EditGrants \/ Rest \/ UNCHANGED vars PROVE UNCHANGED sent
    BY <2>7 DEF Tick, EditGrants, Rest, vars, locals
  <2> QED BY <2>2, <2>3, <2>4, <2>5, <2>6, <2>7 DEF Next
<1> QED BY <1>1, <1>2 DEF Delivers

\* Payload leaves only on a grant the file held, and past its expiry by less
\* than the time between the two clock reads, for every provider and client.
THEOREM DeliveryWithinOverrunHolds == Spec => DeliveryWithinOverrun
<1> DEFINE Within(r) == /\ grant[r] \in offered[r]
                        /\ clock < grant[r].exp + (setAt[r] - checkedAt[r])
<1>1. ASSUME IInv, [Next]_vars, NEW r \in Requests, Delivers(r)
      PROVE  Within(r)
  <2>1. Writable(r) /\ deadline[r] # NoDeadline
    BY <1>1, DeliversWritable
  <2>2. /\ grant[r] \in offered[r]
        /\ deadline[r] = setAt[r] + timeout[r]
        /\ timeout[r] <= grant[r].exp - checkedAt[r]
    BY <1>1, <2>1 DEF IInv, Flow
  <2>3. ~(clock >= deadline[r])
    BY <2>1 DEF Writable, Expired
  <2>4. /\ clock \in Nat /\ deadline[r] \in Nat /\ setAt[r] \in Nat
        /\ timeout[r] \in Nat /\ checkedAt[r] \in Nat /\ offered[r] \subseteq Grants
    BY <1>1 DEF IInv, TypeOK
  <2>5. grant[r].exp \in Nat
    BY <2>2, <2>4, GrantType
  <2> HIDE DEF NoDeadline
  <2> QED BY <2>2, <2>3, <2>4, <2>5
<1>2. IInv /\ [Next]_vars => [\A r \in Requests : Delivers(r) => Within(r)]_vars
  BY <1>1
<1> QED BY <1>2, PipelineInvariant, PTL DEF Spec, DeliveryWithinOverrun

-----------------------------------------------------------------------------
(* ToolServer implements Admission                                         *)

\* What Admission sees of a request, and whether it has a slot.
View(r) == <<Stage(r), token[r], Lease(r), Answers(r)>>

\* The moments that count, as changes of that view.
Lookup(r) ==
    /\ Stage(r) = "asking" /\ Holds(r) /\ token[r] # NoToken /\ file # Unreadable
    /\ Stage(r)' = "known" /\ Lease(r)' = file[token[r]]
    /\ UNCHANGED <<token[r], Answers(r)>>

Refusal(r) ==
    /\ Stage(r) \in {"asking", "known"} /\ Holds(r)
    /\ Stage(r)' = "over" /\ Lease(r)' = NoGrant /\ Answers(r)' = {"failure"}
    /\ UNCHANGED token[r]

Service(r) ==
    /\ Stage(r) = "known" /\ Holds(r)
    /\ Lease(r) \in Grants /\ Lease(r).scoped /\ Lease(r).exp > clock
    /\ Stage(r)' = "served"
    /\ UNCHANGED <<token[r], Lease(r), Answers(r)>>

Answered(r) ==
    /\ Stage(r) = "served" /\ Holds(r) /\ Answers(r) = {}
    /\ Answers(r)' = {"payload"} \/ Answers(r)' = {"failure"}
    /\ UNCHANGED <<Stage(r), token[r], Lease(r)>>

\* What a request was before its first statement it is again after its last.
LEMMA IdleIsAbsent ==
    ASSUME NEW r \in Requests, Flow(r), pc[r] = "idle"
    PROVE  Call(r) = Promised!Absent
BY DEF Flow, Call, Stage, Lease, Answers, Promised!Absent, Promised!Known, Undecided

\* No step of a request touches what Admission sees of another.
LEMMA CallKept ==
    ASSUME NEW q \in Requests, Kept(q)
    PROVE  Call(q)' = Call(q) /\ Holds(q)' = Holds(q)
BY DEF Kept, Call, Stage, Lease, Answers, Holds

\* Steps between the moments that count leave the request as it was; the
\* moments are those of Admission.
LEMMA OwnCall ==
    ASSUME TypeOK, NEW r \in Requests, Flow(r), Handler(r) \/ Client(r),
           ~Acquire(r), ~Busy(r), ~Return(r), ~Flush(r), ~Arrive(r)
    PROVE  /\ Holds(r)' = Holds(r)
           /\ \/ UNCHANGED View(r) \/ Lookup(r) \/ Refusal(r)
              \/ Service(r) \/ Answered(r)
<1> USE DEF TypeOK, Flow, Goto, Fail, locals, View, Stage, Lease, Answers, Holds, Undecided, Admitted,
            Decided, NoDeadline
<1>1. CASE CheckHeader(r)
  BY <1>1 DEF CheckHeader, Refusal
<1>2. CASE LoadGrants(r)
  BY <1>2 DEF LoadGrants, Refusal, Lookup
<1>3. CASE Match(r)
  BY <1>3 DEF Match, Refusal
<1>4. CASE CheckExpiry(r)
  <2>1. grant[r] \in Grants /\ grant[r].exp \in Nat /\ grant[r].scoped
    <3>1. grant[r] \in Grants /\ grant[r].scoped
      BY <1>4 DEF CheckExpiry
    <3> QED BY <3>1, GrantType
  <2>2. CASE grant[r].exp - clock > 0
    BY <1>4, <2>1, <2>2 DEF CheckExpiry, Service
  <2>3. CASE ~(grant[r].exp - clock > 0)
    BY <1>4, <2>3 DEF CheckExpiry, Refusal
  <2> QED BY <2>2, <2>3
<1>5. CASE SetDeadline(r)
  BY <1>5 DEF SetDeadline
<1>6. CASE AbandonBody(r)
  BY <1>6 DEF AbandonBody, Answered
<1>7. CASE CallProvider(r)
  BY <1>7 DEF CallProvider, Answered
<1>8. CASE CheckContext(r)
  BY <1>8 DEF CheckContext
<1>9. CASE VerifySpool(r)
  BY <1>9 DEF VerifySpool, Answered
<1>10. CASE Respond(r)
  BY <1>10 DEF Respond, Answered
<1>11. CASE StopStream(r)
  BY <1>11 DEF StopStream
<1>12. CASE Disconnect(r)
  BY <1>12 DEF Disconnect
<1>13. CASE ReadBody(r)
  BY <1>13 DEF ReadBody
<1>14. CASE RejectBody(r)
  BY <1>14 DEF RejectBody, Answered
<1>15. CASE StreamPart(r)
  BY <1>15 DEF StreamPart, Write
<1>16. CASE WriteEnvelope(r)
  BY <1>16 DEF WriteEnvelope, Write
<1>17. CASE StopEnvelope(r)
  BY <1>17 DEF StopEnvelope
<1>18. CASE BreakStream(r)
  BY <1>18 DEF BreakStream
<1> QED
  BY <1>1, <1>2, <1>3, <1>4, <1>5, <1>6, <1>7, <1>8, <1>9, <1>10, <1>11, <1>12, <1>13, <1>14, <1>15,
     <1>16, <1>17, <1>18
     DEF Handler, Client

\* Every step of a request is one of Admission's, or none.
LEMMA RequestPromised ==
    ASSUME IInv, NEW r \in Requests, Handler(r) \/ Client(r)
    PROVE  \/ Promised!Next
           \/ UNCHANGED <<clock, file, Holders, [q \in Requests |-> Call(q)]>>
<1> DEFINE call == [q \in Requests |-> Call(q)]
<1> USE DEF IInv
<1>1. clock' = clock /\ file' = file
  BY OthersKept
<1>2. \A q \in Requests \ {r} : Call(q)' = Call(q) /\ Holds(q)' = Holds(q)
  BY OthersKept, CallKept
<1>3. call' = [call EXCEPT ![r] = Call(r)'] /\ call[r] = Call(r)
  BY <1>2
<1>4. /\ r \in Holders <=> Holds(r)
      /\ call[r].stage = Stage(r) /\ call[r].token = token[r]
      /\ call[r].lease = Lease(r) /\ call[r].answers = Answers(r)
  BY DEF Holders, Call
<1>5. Cardinality(Holders) = Promised!Cardinality(Holders)
  BY DEF Cardinality, Promised!Cardinality
<1>6. CASE Acquire(r)
  <2>1. Stage(r) = "asking" /\ ~Holds(r) /\ UNCHANGED View(r)
    BY <1>6 DEF Acquire, Goto, locals, environment, TypeOK, View, Stage, Lease, Answers, Holds
  <2>2. Holders' = Holders \cup {r}
    BY <1>6 DEF Acquire, Goto, TypeOK, Holders, Holds
  <2>3. Cardinality(Holders) < MaxConcurrency
    BY <1>6 DEF Acquire, SlotAccounting
  <2>4. Call(r)' = Call(r)
    BY <2>1 DEF View, Call
  <2> QED BY <1>1, <1>3, <1>4, <1>5, <2>1, <2>2, <2>3, <2>4 DEF Promised!Next, Promised!Take
<1>7. CASE Busy(r)
  <2>1. /\ Stage(r) = "asking" /\ ~Holds(r) /\ Holds(r)' = Holds(r)
        /\ Stage(r)' = "over" /\ Answers(r)' = {"failure"}
        /\ token'[r] = token[r] /\ Lease(r)' = Lease(r)
    BY <1>7 DEF Busy, Goto, Flow, TypeOK, Stage, Lease, Answers, Holds, Undecided, NoDeadline
  <2>2. Cardinality(Holders) = MaxConcurrency
    BY <1>7, FS_Subset, FS_CardinalityType DEF Busy, SlotAccounting, TypeOK, Holders
  <2>3. Call(r)' = Promised!Known("over", token[r], Lease(r), {"failure"})
    BY <2>1 DEF Call, Promised!Known
  <2>4. Holders' = Holders
    BY <1>2, <2>1 DEF Holders
  <2> QED
    BY <1>1, <1>3, <1>4, <1>5, <2>1, <2>2, <2>3, <2>4
       DEF Promised!Next, Promised!TurnAway, Promised!Becomes
<1>8. CASE Return(r)
  <2>1. Stage(r) \in {"served", "over"} /\ Holds(r) /\ UNCHANGED View(r)
    BY <1>8 DEF Return, Goto, locals, environment, TypeOK, View, Stage, Lease, Answers, Holds
  <2>2. Holders' = Holders \ {r}
    BY <1>8 DEF Return, Goto, TypeOK, Holders, Holds
  <2>3. Call(r)' = Call(r)
    BY <2>1 DEF View, Call
  <2> QED BY <1>1, <1>3, <1>4, <2>1, <2>2, <2>3 DEF Promised!Next, Promised!Release
<1>9. CASE Flush(r)
  <2>1. Stage(r) \in {"served", "over"} /\ ~Holds(r) /\ Holds(r)' = Holds(r) /\ pc'[r] = "idle"
    BY <1>9 DEF Flush, Goto, TypeOK, Stage, Holds
  <2>2. Call(r)' = Promised!Absent
    BY <1>9, <2>1 DEF Flush, TypeOK, Call, Stage, Lease, Answers, Promised!Absent, Promised!Known
  <2>3. Holders' = Holders
    BY <1>2, <2>1 DEF Holders
  <2> QED
    BY <1>1, <1>3, <1>4, <2>1, <2>2, <2>3
       DEF Promised!Next, Promised!Finish
<1>10. CASE Arrive(r)
  <2>1. Call(r) = Promised!Absent
    BY <1>10, IdleIsAbsent DEF Arrive, Goto
  <2>2. PICK t \in Tokens \cup {NoToken} : token' = [token EXCEPT ![r] = t]
    BY <1>10 DEF Arrive
  <2>3. /\ Holds(r)' = Holds(r) /\ Stage(r)' = "asking" /\ token'[r] = t
        /\ Lease(r)' = NoGrant /\ Answers(r)' = {}
    BY <1>10, <2>2 DEF Arrive, Goto, Flow, TypeOK, Stage, Lease, Answers, Holds, Undecided
  <2>4. Call(r)' = Promised!Known("asking", t, NoGrant, {})
    BY <2>3 DEF Call, Promised!Known
  <2>5. Holders' = Holders
    BY <1>2, <2>3 DEF Holders
  <2> QED
    BY <1>1, <1>3, <2>1, <2>4, <2>5 DEF Promised!Next, Promised!Ask
<1>11. CASE ~Acquire(r) /\ ~Busy(r) /\ ~Return(r) /\ ~Flush(r) /\ ~Arrive(r)
  <2>1. /\ Holds(r)' = Holds(r)
        /\ UNCHANGED View(r) \/ Lookup(r) \/ Refusal(r) \/ Service(r) \/ Answered(r)
    BY <1>11, OwnCall
  <2>2. Holders' = Holders
    BY <1>2, <2>1 DEF Holders
  <2>3. CASE UNCHANGED View(r)
    BY <1>1, <1>3, <2>2, <2>3 DEF View, Call
  <2>4. CASE Lookup(r)
    <3>1. Call(r)' = Promised!Known("known", token[r], file[token[r]], Answers(r))
      BY <2>4 DEF Lookup, Call, Promised!Known
    <3> QED
      BY <1>1, <1>3, <1>4, <2>2, <2>4, <3>1
         DEF Lookup, Promised!Next, Promised!Look, Promised!Becomes
  <2>5. CASE Refusal(r)
    <3>1. Call(r)' = Promised!Known("over", token[r], NoGrant, {"failure"})
      BY <2>5 DEF Refusal, Call, Promised!Known
    <3> QED
      BY <1>1, <1>3, <1>4, <2>2, <2>5, <3>1
         DEF Refusal, Promised!Next, Promised!Refuse, Promised!Becomes
  <2>6. CASE Service(r)
    <3>1. Call(r)' = Promised!Known("served", token[r], Lease(r), Answers(r))
      BY <2>6 DEF Service, Call, Promised!Known
    <3>2. /\ call[r].stage = "known" /\ r \in Holders
          /\ call[r].lease # NoGrant /\ call[r].lease.scoped /\ call[r].lease.exp > clock
      BY <1>4, <2>6 DEF Service
    <3>3. Promised!Becomes(r, "served", call[r].lease, call[r].answers)
      BY <1>3, <1>4, <3>1 DEF Promised!Becomes
    <3> QED BY <1>1, <2>2, <3>2, <3>3 DEF Promised!Next, Promised!Serve
  <2>7. CASE Answered(r)
    <3>1. PICK a \in {"payload", "failure"} : Answers(r)' = {a}
      BY <2>7 DEF Answered
    <3>2. Call(r)' = Promised!Known("served", token[r], Lease(r), {a})
      BY <2>7, <3>1 DEF Answered, Call, Promised!Known
    <3>3. call[r].stage = "served" /\ r \in Holders /\ call[r].answers = {}
      BY <1>4, <2>7 DEF Answered
    <3>4. Promised!Becomes(r, "served", call[r].lease, {a})
      BY <1>3, <1>4, <3>2 DEF Promised!Becomes
    <3> QED BY <1>1, <2>2, <3>3, <3>4 DEF Promised!Next, Promised!Answer
  <2> QED BY <2>1, <2>3, <2>4, <2>5, <2>6, <2>7
<1> QED BY <1>6, <1>7, <1>8, <1>9, <1>10, <1>11

\* Any number of requests, with a file edited and a clock running between any
\* two of their statements, is served as Admission prescribes.
THEOREM Implements == Spec => KeepsPromise
<1> DEFINE call == [r \in Requests |-> Call(r)]
<1>1. Init => Promised!Init
  <2> SUFFICES ASSUME Init PROVE Promised!Init
    OBVIOUS
  <2>1. IInv
    BY InitInv
  <2>2. \A r \in Requests : pc[r] = "idle"
    BY DEF Init
  <2>3. \A r \in Requests : Call(r) = Promised!Absent
    BY <2>1, <2>2, IdleIsAbsent DEF IInv
  <2> QED BY <2>2, <2>3 DEF Promised!Init, Holders, Holds
<1>2. IInv /\ [Next]_vars => [Promised!Next]_<<clock, file, Holders, call>>
  <2> SUFFICES ASSUME IInv, [Next]_vars
               PROVE  Promised!Next \/ UNCHANGED <<clock, file, Holders, call>>
    OBVIOUS
  <2>1. ASSUME NEW r \in Requests, Handler(r) \/ Client(r)
        PROVE  Promised!Next \/ UNCHANGED <<clock, file, Holders, call>>
    BY <2>1, RequestPromised
  <2>2. CASE Tick \/ EditGrants
    <3>1. clock' >= clock
      BY <2>2 DEF Tick, EditGrants, IInv, TypeOK
    <3>2. UNCHANGED <<pc, locals>>
      BY <2>2 DEF Tick, EditGrants
    <3>3. UNCHANGED <<Holders, call>>
      BY <3>2 DEF locals, Holders, Holds, Call, Stage, Lease, Answers
    <3> QED BY <3>1, <3>3 DEF Promised!Next, Promised!Environment
  <2>3. CASE UNCHANGED vars
    BY <2>3 DEF vars, environment, locals, Holders, Holds, Call, Stage, Lease, Answers
  <2> QED BY <2>1, <2>2, <2>3 DEF Next, Rest
<1> QED BY <1>1, <1>2, PipelineInvariant, PTL DEF Spec, KeepsPromise, Promised!Spec

-----------------------------------------------------------------------------
(* A request ends: the part of SlotsComeBack that needs no fairness        *)

\* An upper bound on the steps a request has still to take: of its phase, less
\* the payload parts that are already out.
PhaseSteps ==
    [idle |-> 0, flush |-> 1, return |-> 2, stream |-> Parts + 2, write |-> Parts + 2,
     respond |-> Parts + 3, verify |-> Parts + 3, check |-> Parts + 4,
     provider |-> Parts + 5, body |-> Parts + 6, deadline |-> Parts + 7,
     expiry |-> Parts + 8, match |-> Parts + 9, load |-> Parts + 10,
     header |-> Parts + 11, acquire |-> Parts + 12]

Writing == {"stream", "write"}

StepsLeft(r) == PhaseSteps[pc[r]] - IF pc[r] \in Writing THEN sent[r] ELSE 0

\* Every step of its goroutine brings a request nearer to its end, and nothing
\* that the clock, the operator, its client or another request does sets it
\* back: once it has arrived it takes at most Parts + 12 steps.
RequestsAdvance ==
    [][\A r \in Requests :
          /\ StepsLeft(r) \in 0..Parts + 12
          /\ Handler(r) => StepsLeft(r)' < StepsLeft(r)
          /\ StepsLeft(r)' <= StepsLeft(r) \/ Arrive(r)]_vars

\* What Flow and the types say about the bound.
LEMMA StepsLeftBounds ==
    ASSUME TypeOK, NEW r \in Requests, Flow(r)
    PROVE  /\ StepsLeft(r) \in 0..Parts + 12
           /\ pc[r] \in Writing => sent[r] \in 0..Parts - 1
           /\ pc[r] \notin Writing \cup {"return", "flush"} => sent[r] = 0
<1>1. pc[r] \in Writing => sent[r] \in 0..Parts - 1
  BY PartsAssumption DEF TypeOK, Flow, Writing
<1>2. pc[r] \notin Writing \cup {"return", "flush"} => sent[r] = 0
  BY DEF Flow, Writing
<1>3. CASE pc[r] \in Writing
  BY <1>1, <1>2, <1>3, PartsAssumption DEF StepsLeft, PhaseSteps, Writing
<1>4. CASE pc[r] \notin Writing
  <2>1. pc[r] \in Phases \ Writing
    BY <1>4 DEF TypeOK
  <2>2. StepsLeft(r) \in {0, 1, 2} \cup Parts + 3..Parts + 12
    BY <2>1, PartsAssumption DEF StepsLeft, PhaseSteps, Writing, Phases, Undecided, Admitted
  <2> QED BY <1>1, <1>2, <2>2, PartsAssumption
<1> QED BY <1>3, <1>4

\* The steps of its goroutine lower a request's bound, and those of its client
\* do not raise it, but for the arrival.
LEMMA OwnAdvance ==
    ASSUME TypeOK, NEW r \in Requests, Flow(r), Handler(r) \/ Client(r)
    PROVE  /\ Handler(r) => StepsLeft(r)' < StepsLeft(r)
           /\ StepsLeft(r)' <= StepsLeft(r) \/ Arrive(r)
<1>1. /\ StepsLeft(r) \in Nat
      /\ pc[r] \in Writing => sent[r] \in 0..Parts - 1
      /\ pc[r] \notin Writing \cup {"return", "flush"} => sent[r] = 0
  BY StepsLeftBounds
<1> USE <1>1, PartsAssumption DEF TypeOK, Goto, Fail, locals, StepsLeft, PhaseSteps, Writing
<1>2. ASSUME Handler(r)
      PROVE  StepsLeft(r)' < StepsLeft(r) /\ StepsLeft(r)' <= StepsLeft(r)
  <2>1. CASE Acquire(r)
    BY <2>1 DEF Acquire
  <2>2. CASE Busy(r)
    BY <2>2 DEF Busy
  <2>3. CASE CheckHeader(r)
    BY <2>3 DEF CheckHeader
  <2>4. CASE LoadGrants(r)
    BY <2>4 DEF LoadGrants
  <2>5. CASE Match(r)
    BY <2>5 DEF Match
  <2>6. CASE CheckExpiry(r)
    BY <2>6 DEF CheckExpiry
  <2>7. CASE SetDeadline(r)
    BY <2>7 DEF SetDeadline
  <2>8. CASE AbandonBody(r)
    BY <2>8 DEF AbandonBody
  <2>9. CASE CallProvider(r)
    BY <2>9 DEF CallProvider
  <2>10. CASE CheckContext(r)
    BY <2>10 DEF CheckContext
  <2>11. CASE VerifySpool(r)
    BY <2>11 DEF VerifySpool
  <2>12. CASE Respond(r)
    <3>1. pc[r] = "respond" /\ pc'[r] \in {"return", "write"} /\ sent'[r] = sent[r]
      BY <2>12 DEF Respond
    <3> QED BY <3>1
  <2>13. CASE StopStream(r)
    BY <2>13 DEF StopStream
  <2>14. CASE Return(r)
    <3>1. pc[r] = "return" /\ pc'[r] = "flush"
      BY <2>14 DEF Return
    <3> QED BY <3>1
  <2>15. CASE Flush(r)
    <3>1. pc[r] = "flush" /\ pc'[r] = "idle"
      BY <2>15 DEF Flush
    <3> QED BY <3>1
  <2>16. CASE StopEnvelope(r)
    BY <2>16 DEF StopEnvelope
  <2> QED
    BY <1>2, <2>1, <2>2, <2>3, <2>4, <2>5, <2>6, <2>7, <2>8, <2>9, <2>10, <2>11, <2>12, <2>13, <2>14, <2>15, <2>16
       DEF Handler
<1>3. ASSUME Client(r), ~Arrive(r), ~Handler(r)
      PROVE  StepsLeft(r)' <= StepsLeft(r)
  <2>1. CASE Disconnect(r)
    <3>1. pc'[r] = pc[r] /\ sent'[r] = sent[r]
      BY <2>1 DEF Disconnect
    <3> QED BY <3>1
  <2>2. CASE ReadBody(r)
    BY <2>2 DEF ReadBody
  <2>3. CASE RejectBody(r)
    BY <2>3 DEF RejectBody
  <2>4. CASE StreamPart(r)
    BY <2>4 DEF StreamPart, Write
  <2>5. CASE WriteEnvelope(r)
    BY <2>5 DEF WriteEnvelope, Write
  <2>6. CASE BreakStream(r)
    BY <2>6 DEF BreakStream
  <2> QED
    BY <1>3, <2>1, <2>2, <2>3, <2>4, <2>5, <2>6 DEF Client
<1> QED BY <1>2, <1>3

\* A request that has arrived is over after a bounded number of steps of its
\* own, for every number of requests and every size of the payload.
THEOREM RequestsAdvanceHolds == Spec => RequestsAdvance
<1> DEFINE Advance(r) == /\ StepsLeft(r) \in 0..Parts + 12
                         /\ Handler(r) => StepsLeft(r)' < StepsLeft(r)
                         /\ StepsLeft(r)' <= StepsLeft(r) \/ Arrive(r)
<1>1. ASSUME IInv, [Next]_vars, NEW r \in Requests
      PROVE  Advance(r)
  <2>1. StepsLeft(r) \in 0..Parts + 12
    BY <1>1, StepsLeftBounds DEF IInv
  <2>2. Handler(r) => StepsLeft(r)' < StepsLeft(r)
    BY <1>1, OwnAdvance DEF IInv
  <2>3. ASSUME NEW q \in Requests \ {r}, Handler(q) \/ Client(q)
        PROVE  StepsLeft(r)' = StepsLeft(r)
    <3>1. pc'[r] = pc[r] /\ sent'[r] = sent[r]
      BY <1>1, <2>3, OthersKept DEF IInv, Kept
    <3> QED BY <3>1 DEF StepsLeft, PhaseSteps, Writing
  <2>4. ASSUME Tick \/ EditGrants \/ Rest \/ UNCHANGED vars
        PROVE  StepsLeft(r)' = StepsLeft(r)
    BY <2>4 DEF Tick, EditGrants, Rest, vars, locals, StepsLeft, PhaseSteps, Writing
  <2>5. CASE Handler(r) \/ Client(r)
    BY <1>1, <2>1, <2>2, <2>5, OwnAdvance DEF IInv
  <2> QED BY <1>1, <2>1, <2>2, <2>3, <2>4, <2>5 DEF Next
<1>2. IInv /\ [Next]_vars => [\A r \in Requests : Advance(r)]_vars
  BY <1>1
<1> QED BY <1>2, PipelineInvariant, PTL DEF Spec, RequestsAdvance

=============================================================================
