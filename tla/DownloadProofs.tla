--------------------------- MODULE DownloadProofs ---------------------------
(***************************************************************************)
(* Proofs about Download, for every set of calls, every split into local   *)
(* and remote ones and every size limit.                                   *)
(*                                                                         *)
(* Flow says, for one call, what each point of it may rely on; it ties the *)
(* target, which all calls share, to the point its owner has reached.      *)
(***************************************************************************)
EXTENDS Download, TLAPS

USE RemoteAssumption, BytesAssumption, ValuesAssumption
    DEF RemoteAssumption, BytesAssumption, ValuesAssumption

Checked  == {"context", "reinspect", "link", "explain", "tidy"}
Finished == {"returned", "crashed"}

\* What the statements executed so far have established for one call.
Flow(d) ==
    /\ pc[d] \in {"copy", "verify"} /\ d \in Remote => declared[d] # Unknown
    /\ pc[d] \in Checked => Whole(d)
    /\ target = d => Whole(d) /\ pc[d] \in {"tidy"} \cup Finished
    /\ d \in temps => pc[d] \notin {"start", "mkdir", "create", "returned"}
    /\ pc[d] \in {"request", "copy", "verify", "discard"} \cup Checked => d \in temps
    /\ pc[d] \notin {"discard"} \cup Finished => error[d] = "none"
    /\ pc[d] = "discard" => error[d] # "none"
    /\ d \in Remote \cap cancelled =>
          target # d /\ pc[d] \notin {"reinspect", "link", "explain", "tidy"}
    /\ d \in Remote \cap collided =>
          error[d] = "target_exists" /\ pc[d] \in {"discard"} \cup Finished

IInv == TypeOK /\ \A d \in Downloads : Flow(d)

-----------------------------------------------------------------------------
(* The inductive invariant                                                 *)

\* No call has begun, and the target is nobody's of them.
LEMMA InitInv == Init => IInv
BY DEF Init, IInv, TypeOK, Flow, Empty, Phases, Codes, Checked, Finished

\* A step of one call keeps the types.
LEMMA StepTypes ==
    ASSUME TypeOK, NEW d \in Downloads, Flow(d), Step(d) \/ Cancel(d) \/ Crash(d)
    PROVE  TypeOK'
<1> USE DEF TypeOK, Goto, Refuse, Fail, fs, Step, Inspect, MakeParent, CreateTemp, Request,
            Copy, CopyEnds, CopyFails, Verify, CheckContext, Reinspect, Link, Explain, Tidy,
            Discard, Cancel, Crash
<1>1. pc' \in [Downloads -> Phases]
  BY DEF Phases
<1>2. error' \in [Downloads -> Codes]
  BY DEF Codes
<1>3. target' \in {Absent, Foreign} \cup Downloads /\ parent' \in BOOLEAN
  OBVIOUS
<1>4. temps' \subseteq Downloads /\ cancelled' \subseteq Downloads /\ collided' \subseteq Downloads
  OBVIOUS
<1>5. body' \in [Downloads -> [len : 0..MaxBytes + 1, intact : BOOLEAN]]
  OBVIOUS
<1>6. declared' \in [Downloads -> 0..MaxBytes \cup {Unknown}]
  BY DEF Acceptable
<1>7. target' # Absent => parent'
  BY DEF Flow, Checked
<1>8. temps' # {} => parent'
  OBVIOUS
<1> QED BY <1>1, <1>2, <1>3, <1>4, <1>5, <1>6, <1>7, <1>8

\* A step of one call leaves alone what belongs to another.
Kept(e) ==
    /\ pc'[e] = pc[e] /\ error'[e] = error[e] /\ body'[e] = body[e]
    /\ declared'[e] = declared[e] /\ (e \in temps' <=> e \in temps)
    /\ (e \in cancelled' <=> e \in cancelled) /\ (e \in collided' <=> e \in collided)

\* A step changes the target only by giving it to the call that takes the step.
LEMMA OthersKept ==
    ASSUME TypeOK, NEW d \in Downloads, Step(d) \/ Cancel(d) \/ Crash(d)
    PROVE  /\ \A e \in Downloads \ {d} : Kept(e)
           /\ target' = target \/ target' = d
<1> USE DEF TypeOK, Goto, Refuse, Fail, fs, Kept
<1>1. CASE Inspect(d)
  BY <1>1 DEF Inspect
<1>2. CASE MakeParent(d)
  BY <1>2 DEF MakeParent
<1>3. CASE CreateTemp(d)
  BY <1>3 DEF CreateTemp
<1>4. CASE Request(d)
  BY <1>4 DEF Request
<1>5. CASE Copy(d)
  BY <1>5 DEF Copy
<1>6. CASE CopyEnds(d)
  BY <1>6 DEF CopyEnds
<1>7. CASE CopyFails(d)
  BY <1>7 DEF CopyFails
<1>8. CASE Verify(d)
  BY <1>8 DEF Verify
<1>9. CASE CheckContext(d)
  BY <1>9 DEF CheckContext
<1>10. CASE Reinspect(d)
  BY <1>10 DEF Reinspect
<1>11. CASE Link(d)
  BY <1>11 DEF Link
<1>12. CASE Explain(d)
  BY <1>12 DEF Explain
<1>13. CASE Tidy(d)
  BY <1>13 DEF Tidy
<1>14. CASE Discard(d)
  BY <1>14 DEF Discard
<1>15. CASE Cancel(d)
  BY <1>15 DEF Cancel
<1>16. CASE Crash(d)
  BY <1>16 DEF Crash
<1> QED BY <1>1, <1>2, <1>3, <1>4, <1>5, <1>6, <1>7, <1>8, <1>9, <1>10, <1>11, <1>12, <1>13, <1>14, <1>15, <1>16 DEF Step

\* A call keeps what it relies on when it is left alone, and when the target
\* passes to another.
LEMMA KeptFlow ==
    ASSUME NEW e \in Downloads, Flow(e), Kept(e), target' = target \/ target' # e
    PROVE  Flow(e)'
BY DEF Flow, Kept, Whole

\* A step of a call keeps what it relies on itself.
LEMMA OwnFlow ==
    ASSUME TypeOK, NEW d \in Downloads, Flow(d), Step(d) \/ Cancel(d) \/ Crash(d)
    PROVE  Flow(d)'
<1> USE DEF TypeOK, Flow, Goto, Refuse, Fail, fs, Checked, Finished, Whole
<1>1. CASE Inspect(d)
  BY <1>1 DEF Inspect
<1>2. CASE MakeParent(d)
  BY <1>2 DEF MakeParent
<1>3. CASE CreateTemp(d)
  BY <1>3 DEF CreateTemp
<1>4. CASE Request(d)
  BY <1>4 DEF Request, Acceptable
<1>5. CASE Copy(d)
  BY <1>5 DEF Copy
<1>6. CASE CopyEnds(d)
  BY <1>6 DEF CopyEnds
<1>7. CASE CopyFails(d)
  BY <1>7 DEF CopyFails
<1>8. CASE Verify(d)
  BY <1>8 DEF Verify, Verified
<1>9. CASE CheckContext(d)
  BY <1>9 DEF CheckContext
<1>10. CASE Reinspect(d)
  BY <1>10 DEF Reinspect
<1>11. CASE Link(d)
  BY <1>11 DEF Link
<1>12. CASE Explain(d)
  BY <1>12 DEF Explain
<1>13. CASE Tidy(d)
  BY <1>13 DEF Tidy
<1>14. CASE Discard(d)
  BY <1>14 DEF Discard
<1>15. CASE Cancel(d)
  BY <1>15 DEF Cancel
<1>16. CASE Crash(d)
  BY <1>16 DEF Crash, Running
<1> QED BY <1>1, <1>2, <1>3, <1>4, <1>5, <1>6, <1>7, <1>8, <1>9, <1>10, <1>11, <1>12, <1>13, <1>14, <1>15, <1>16 DEF Step

\* Every step keeps the inductive invariant.
LEMMA StepInv == IInv /\ [Next]_vars => IInv'
<1> SUFFICES ASSUME IInv, [Next]_vars PROVE IInv'
  OBVIOUS
<1> USE DEF IInv
<1>1. ASSUME NEW d \in Downloads, Step(d) \/ Cancel(d) \/ Crash(d)
      PROVE  IInv'
  <2>1. TypeOK'
    BY <1>1, StepTypes
  <2>2. Flow(d)'
    BY <1>1, OwnFlow
  <2>3. ASSUME NEW e \in Downloads \ {d} PROVE Flow(e)'
    BY <1>1, OthersKept, KeptFlow
  <2> QED BY <2>1, <2>2, <2>3
<1>2. CASE Interfere
  <2>1. TypeOK'
    BY <1>2 DEF Interfere, calls, TypeOK
  <2>2. ASSUME NEW e \in Downloads PROVE Flow(e)'
    <3>1. target' # e
      BY <1>2 DEF Interfere
    <3>2. Kept(e)
      BY <1>2 DEF Interfere, calls, Kept
    <3> QED BY <3>1, <3>2, KeptFlow
  <2> QED BY <2>1, <2>2
<1>3. CASE UNCHANGED vars
  <2>1. TypeOK'
    BY <1>3 DEF vars, fs, calls, TypeOK
  <2>2. ASSUME NEW e \in Downloads PROVE Flow(e)'
    BY <1>3, KeptFlow DEF vars, fs, calls, Kept
  <2> QED BY <2>1, <2>2
<1> QED BY <1>1, <1>2, <1>3 DEF Next

\* The inductive invariant holds throughout.
THEOREM DownloadInvariant == Spec => []IInv
BY InitInv, StepInv, PTL DEF Spec

\* Types; in particular no temporary file grows past the limit by more than
\* the unit that shows the limit was passed.
THEOREM TypeCorrect == Spec => []TypeOK
BY DownloadInvariant, PTL DEF IInv

\* Whatever the number of calls, the target never names a partial or altered
\* file of one of them, not even after a kill.
THEOREM TargetWholeHolds == Spec => []TargetWhole
<1>1. IInv => TargetWhole
  BY DEF IInv, Flow, TargetWhole
<1> QED BY <1>1, DownloadInvariant, PTL

\* A returned call has removed its temporary name on every path.
THEOREM NothingLeftHolds == Spec => []NothingLeft
<1>1. IInv => NothingLeft
  BY DEF IInv, Flow, NothingLeft
<1> QED BY <1>1, DownloadInvariant, PTL

\* A remote call cancelled before its last look at the context never publishes.
THEOREM CancelledUnpublishedHolds == Spec => []CancelledUnpublished
<1>1. IInv => CancelledUnpublished
  BY DEF IInv, Flow, CancelledUnpublished
<1> QED BY <1>1, DownloadInvariant, PTL

\* A remote call that loses the race for the target reports target_exists.
THEOREM CollisionReportedHolds == Spec => []CollisionReported
<1>1. IInv => CollisionReported
  BY DEF IInv, Flow, CollisionReported
<1> QED BY <1>1, DownloadInvariant, PTL

-----------------------------------------------------------------------------
(* Download implements Publication                                         *)

\* A call's step on the abstract status, others' statuses being kept.
LEMMA StatusKept ==
    ASSUME TypeOK, NEW d \in Downloads, Step(d) \/ Cancel(d) \/ Crash(d),
           NEW e \in Downloads \ {d}
    PROVE  Status(e)' = Status(e)
BY OthersKept DEF Kept, Status

\* Each step of a call is an abstract one, or none at all.
LEMMA OwnStatus ==
    ASSUME TypeOK, NEW d \in Downloads, Flow(d), Step(d) \/ Cancel(d) \/ Crash(d)
    PROVE  \/ Status(d)' = Status(d) /\ target' = target
           \/ Status(d) = "running" /\ Status(d)' = "published"
                 /\ target = Absent /\ target' = d
           \/ Status(d) = "published" /\ Status(d)' = "succeeded" /\ target' = target
           \/ Status(d) = "running" /\ Status(d)' = "failed" /\ target' = target
           \/ Status(d) \in {"running", "published"} /\ Status(d)' = "crashed"
                 /\ target' = target
<1> USE DEF TypeOK, Flow, Goto, Refuse, Fail, fs, Status, Finished
<1>1. CASE Inspect(d)
  BY <1>1 DEF Inspect
<1>2. CASE MakeParent(d)
  BY <1>2 DEF MakeParent
<1>3. CASE CreateTemp(d)
  BY <1>3 DEF CreateTemp
<1>4. CASE Request(d)
  BY <1>4 DEF Request
<1>5. CASE Copy(d)
  BY <1>5 DEF Copy
<1>6. CASE CopyEnds(d)
  BY <1>6 DEF CopyEnds
<1>7. CASE CopyFails(d)
  BY <1>7 DEF CopyFails
<1>8. CASE Verify(d)
  BY <1>8 DEF Verify
<1>9. CASE CheckContext(d)
  BY <1>9 DEF CheckContext
<1>10. CASE Reinspect(d)
  BY <1>10 DEF Reinspect
<1>11. CASE Link(d)
  BY <1>11 DEF Link
<1>12. CASE Explain(d)
  BY <1>12 DEF Explain
<1>13. CASE Tidy(d)
  BY <1>13 DEF Tidy
<1>14. CASE Discard(d)
  BY <1>14 DEF Discard
<1>15. CASE Cancel(d)
  BY <1>15 DEF Cancel
<1>16. CASE Crash(d)
  BY <1>16 DEF Crash, Running
<1> QED BY <1>1, <1>2, <1>3, <1>4, <1>5, <1>6, <1>7, <1>8, <1>9, <1>10, <1>11, <1>12, <1>13, <1>14, <1>15, <1>16 DEF Step

\* The implementations of Download, whatever their number and mix, do to the
\* target what Publication allows and report what it prescribes.
THEOREM Implements == Spec => KeepsPromise
<1>1. Init => Promised!Init
  BY DEF Init, Promised!Init, Status
<1>2. IInv /\ [Next]_vars => [Promised!Next]_<<target, [d \in Downloads |-> Status(d)]>>
  <2> SUFFICES ASSUME IInv, [Next]_vars
               PROVE  Promised!Next \/ UNCHANGED <<target, [d \in Downloads |-> Status(d)]>>
    OBVIOUS
  <2> DEFINE status == [d \in Downloads |-> Status(d)]
  <2>1. ASSUME NEW d \in Downloads, Step(d) \/ Cancel(d) \/ Crash(d)
        PROVE  Promised!Next \/ UNCHANGED <<target, status>>
    <3>1. status' = [status EXCEPT ![d] = Status(d)']
      BY <2>1, StatusKept DEF IInv
    <3>2. status[d] = Status(d)
      OBVIOUS
    <3>3. CASE Status(d)' = Status(d) /\ target' = target
      BY <3>1, <3>3
    <3>4. CASE Status(d) = "running" /\ Status(d)' = "published"
                 /\ target = Absent /\ target' = d
      BY <3>1, <3>4 DEF Promised!Next, Promised!Publish, Promised!Move
    <3>5. CASE Status(d) = "published" /\ Status(d)' = "succeeded" /\ target' = target
      BY <3>1, <3>5 DEF Promised!Next, Promised!Succeed, Promised!Move
    <3>6. CASE Status(d) = "running" /\ Status(d)' = "failed" /\ target' = target
      BY <3>1, <3>6 DEF Promised!Next, Promised!Fail, Promised!Move
    <3>7. CASE Status(d) \in {"running", "published"} /\ Status(d)' = "crashed"
                 /\ target' = target
      BY <3>1, <3>7 DEF Promised!Next, Promised!Crash, Promised!Move
    <3> QED BY <2>1, <3>3, <3>4, <3>5, <3>6, <3>7, OwnStatus DEF IInv
  <2>2. CASE Interfere
    <3>1. UNCHANGED status
      BY <2>2 DEF Interfere, calls, Status
    <3> QED BY <2>2, <3>1 DEF Interfere, Promised!Next, Promised!Interfere
  <2>3. CASE UNCHANGED vars
    BY <2>3 DEF vars, fs, calls, Status
  <2> QED BY <2>1, <2>2, <2>3 DEF Next
<1> QED BY <1>1, <1>2, DownloadInvariant, PTL DEF Spec, KeepsPromise, Promised!Spec

-----------------------------------------------------------------------------
(* A call ends: the part of Returns that needs no fairness                 *)

\* An upper bound on the steps a call has still to take: of its phase, less what
\* has been copied.
PhaseSteps ==
    [returned |-> 0, crashed |-> 0, tidy |-> 1, discard |-> 1, explain |-> 2, link |-> 3,
     reinspect |-> 4, context |-> 5, verify |-> 6, copy |-> MaxBytes + 8,
     request |-> MaxBytes + 9, create |-> MaxBytes + 10, mkdir |-> MaxBytes + 11,
     start |-> MaxBytes + 12]

StepsLeft(d) == PhaseSteps[pc[d]] - IF pc[d] = "copy" THEN body[d].len ELSE 0

\* Every step of a call brings it nearer to its return, however much the peer
\* sends, and nobody sets it back: a lost race for the target is not retried.
CallsAdvance ==
    [][\A d \in Downloads :
          /\ StepsLeft(d) \in 0..MaxBytes + 12
          /\ Step(d) => StepsLeft(d)' < StepsLeft(d)
          /\ StepsLeft(d)' <= StepsLeft(d)]_vars

\* The types bound it.
LEMMA StepsLeftBounds ==
    ASSUME TypeOK, NEW d \in Downloads
    PROVE  StepsLeft(d) \in 0..MaxBytes + 12
<1>1. pc[d] \in Phases /\ body[d].len \in 0..MaxBytes + 1
  BY DEF TypeOK
<1>2. CASE pc[d] = "copy"
  BY <1>1, <1>2 DEF StepsLeft, PhaseSteps
<1>3. CASE pc[d] # "copy"
  <2>1. StepsLeft(d) \in 0..6 \cup MaxBytes + 9..MaxBytes + 12
    BY <1>1, <1>3 DEF StepsLeft, PhaseSteps, Phases
  <2> QED BY <2>1
<1> QED BY <1>2, <1>3

\* A step of a call lowers its bound, and its cancellation or its end by a kill
\* does not raise it.
LEMMA OwnAdvance ==
    ASSUME TypeOK, NEW d \in Downloads, Step(d) \/ Cancel(d) \/ Crash(d)
    PROVE  /\ Step(d) => StepsLeft(d)' < StepsLeft(d)
           /\ StepsLeft(d)' <= StepsLeft(d)
<1>1. /\ StepsLeft(d) \in 0..MaxBytes + 12
      /\ body[d].len \in 0..MaxBytes + 1
  BY StepsLeftBounds DEF TypeOK
<1> USE <1>1 DEF TypeOK, Goto, Refuse, Fail, fs, StepsLeft, PhaseSteps
<1>2. ASSUME Step(d)
      PROVE  StepsLeft(d)' < StepsLeft(d) /\ StepsLeft(d)' <= StepsLeft(d)
  <2>1. CASE Inspect(d)
    BY <2>1 DEF Inspect
  <2>2. CASE MakeParent(d)
    BY <2>2 DEF MakeParent
  <2>3. CASE CreateTemp(d)
    BY <2>3 DEF CreateTemp
  <2>4. CASE Request(d)
    BY <2>4 DEF Request
  <2>5. CASE Copy(d)
    BY <2>5 DEF Copy
  <2>6. CASE CopyEnds(d)
    BY <2>6 DEF CopyEnds
  <2>7. CASE CopyFails(d)
    BY <2>7 DEF CopyFails
  <2>8. CASE Verify(d)
    BY <2>8 DEF Verify
  <2>9. CASE CheckContext(d)
    BY <2>9 DEF CheckContext
  <2>10. CASE Reinspect(d)
    BY <2>10 DEF Reinspect
  <2>11. CASE Link(d)
    BY <2>11 DEF Link
  <2>12. CASE Explain(d)
    BY <2>12 DEF Explain
  <2>13. CASE Tidy(d)
    BY <2>13 DEF Tidy
  <2>14. CASE Discard(d)
    BY <2>14 DEF Discard
  <2> QED
    BY <1>2, <2>1, <2>2, <2>3, <2>4, <2>5, <2>6, <2>7, <2>8, <2>9, <2>10, <2>11, <2>12, <2>13, <2>14 DEF Step
<1>3. ASSUME Cancel(d) \/ Crash(d), ~Step(d)
      PROVE  StepsLeft(d)' <= StepsLeft(d)
  <2>1. CASE Cancel(d)
    <3>1. pc'[d] = pc[d] /\ body'[d] = body[d]
      BY <2>1 DEF Cancel
    <3> QED BY <3>1
  <2>2. CASE Crash(d)
    BY <2>2 DEF Crash
  <2> QED BY <1>3, <2>1, <2>2
<1> QED BY <1>2, <1>3

\* A call is over after a bounded number of steps of its own, for every number
\* of calls, whatever the peer sends and whoever else writes to the target.
THEOREM CallsAdvanceHolds == Spec => CallsAdvance
<1> DEFINE Advance(d) == /\ StepsLeft(d) \in 0..MaxBytes + 12
                         /\ Step(d) => StepsLeft(d)' < StepsLeft(d)
                         /\ StepsLeft(d)' <= StepsLeft(d)
<1>1. ASSUME TypeOK, [Next]_vars, NEW d \in Downloads
      PROVE  Advance(d)
  <2>1. StepsLeft(d) \in 0..MaxBytes + 12
    BY <1>1, StepsLeftBounds
  <2>2. Step(d) => StepsLeft(d)' < StepsLeft(d)
    BY <1>1, OwnAdvance
  <2>3. ASSUME pc'[d] = pc[d] /\ body'[d] = body[d]
        PROVE  StepsLeft(d)' <= StepsLeft(d)
    <3>1. StepsLeft(d)' = StepsLeft(d)
      BY <2>3 DEF StepsLeft, PhaseSteps
    <3> QED BY <2>1, <3>1
  <2>4. ASSUME NEW e \in Downloads \ {d}, Step(e) \/ Cancel(e) \/ Crash(e)
        PROVE  StepsLeft(d)' <= StepsLeft(d)
    BY <1>1, <2>3, <2>4, OthersKept DEF Kept
  <2>5. ASSUME Interfere \/ UNCHANGED vars
        PROVE  StepsLeft(d)' <= StepsLeft(d)
    BY <2>3, <2>5 DEF Interfere, vars, calls
  <2>6. ASSUME Step(d) \/ Cancel(d) \/ Crash(d)
        PROVE  StepsLeft(d)' <= StepsLeft(d)
    BY <1>1, <2>6, OwnAdvance
  <2> QED BY <1>1, <2>1, <2>2, <2>4, <2>5, <2>6 DEF Next
<1>2. TypeOK /\ [Next]_vars => [\A d \in Downloads : Advance(d)]_vars
  BY <1>1
<1> QED BY <1>2, TypeCorrect, PTL DEF Spec, CallsAdvance

=============================================================================
