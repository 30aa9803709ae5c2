----------------------------- MODULE Admission -----------------------------
(***************************************************************************)
(* What the tool server promises about requests (TOOL_SERVER.md:20, 32 and *)
(* 40): a bounded number is in progress and the rest is turned away; a     *)
(* request is served only on the entry that the grants file holds for its  *)
(* own token at one moment of its own time in a slot, and only if that is  *)
(* in scope and not expired when serving begins; and it is answered once,  *)
(* with payload or with a failure, or not at all.                          *)
(***************************************************************************)
EXTENDS Naturals, FiniteSets

CONSTANTS
    Requests,
    Tokens,
    MaxConcurrency, \* slots there are
    NoToken,        \* nothing was presented
    NoGrant,        \* the file holds no entry for the token
    Unreadable      \* the file is of no use

VARIABLES
    clock,
    file,   \* what the grants file holds for each token, or Unreadable
    slots,  \* requests in progress
    call    \* what the server knows of each request and has answered

Known(s, t, l, a) == [stage |-> s, token |-> t, lease |-> l, answers |-> a]
Absent == Known("absent", NoToken, NoGrant, {})

Init ==
    /\ slots = {}
    /\ call = [r \in Requests |-> Absent]

\* What is known of a request changes, but for its token.
Becomes(r, s, l, a) == call' = [call EXCEPT ![r] = Known(s, call[r].token, l, a)]

\* Time passes; the file is edited at will.
Environment == clock' >= clock /\ UNCHANGED <<slots, call>>

Ask(r) ==
    /\ call[r] = Absent
    /\ \E t \in Tokens \cup {NoToken} :
         call' = [call EXCEPT ![r] = Known("asking", t, NoGrant, {})]
    /\ UNCHANGED <<clock, file, slots>>

Take(r) ==
    /\ call[r].stage = "asking" /\ r \notin slots
    /\ Cardinality(slots) < MaxConcurrency
    /\ slots' = slots \cup {r}
    /\ UNCHANGED <<clock, file, call>>

TurnAway(r) ==
    /\ call[r].stage = "asking" /\ r \notin slots
    /\ Cardinality(slots) = MaxConcurrency
    /\ Becomes(r, "over", call[r].lease, {"failure"})
    /\ UNCHANGED <<clock, file, slots>>

\* The one moment at which the file counts.
Look(r) ==
    /\ call[r].stage = "asking" /\ r \in slots
    /\ call[r].token # NoToken /\ file # Unreadable
    /\ Becomes(r, "known", file[call[r].token], call[r].answers)
    /\ UNCHANGED <<clock, file, slots>>

Refuse(r) ==
    /\ call[r].stage \in {"asking", "known"} /\ r \in slots
    /\ Becomes(r, "over", NoGrant, {"failure"})
    /\ UNCHANGED <<clock, file, slots>>

Serve(r) ==
    /\ call[r].stage = "known" /\ r \in slots
    /\ call[r].lease # NoGrant /\ call[r].lease.scoped /\ call[r].lease.exp > clock
    /\ Becomes(r, "served", call[r].lease, call[r].answers)
    /\ UNCHANGED <<clock, file, slots>>

Answer(r) ==
    /\ call[r].stage = "served" /\ r \in slots
    /\ call[r].answers = {}
    /\ \E a \in {"payload", "failure"} : Becomes(r, "served", call[r].lease, {a})
    /\ UNCHANGED <<clock, file, slots>>

Release(r) ==
    /\ call[r].stage \in {"served", "over"} /\ r \in slots
    /\ slots' = slots \ {r}
    /\ UNCHANGED <<clock, file, call>>

Finish(r) ==
    /\ call[r].stage \in {"served", "over"} /\ r \notin slots
    /\ call' = [call EXCEPT ![r] = Absent]
    /\ UNCHANGED <<clock, file, slots>>

Next ==
    \/ Environment
    \/ \E r \in Requests :
         \/ Ask(r) \/ Take(r) \/ TurnAway(r) \/ Look(r) \/ Refuse(r)
         \/ Serve(r) \/ Answer(r) \/ Release(r) \/ Finish(r)

Spec == Init /\ [][Next]_<<clock, file, slots, call>>

=============================================================================
