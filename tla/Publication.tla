---------------------------- MODULE Publication ----------------------------
(***************************************************************************)
(* What a download promises about the file it was asked to write           *)
(* (TJUCLI.md:28 and 53, TOOL_SERVER.md:42): the file appears whole and at *)
(* once, only where there was none, and success is reported only after     *)
(* that.  A failed download leaves the target as it found it.              *)
(***************************************************************************)
CONSTANTS
    Downloads,  \* concurrent downloads to the same target
    Absent,     \* there is no target
    Foreign     \* the target is somebody else's file, directory or link

VARIABLES
    target,     \* Absent, Foreign, or the download whose whole content it is
    status      \* what each download has achieved and reported

Init ==
    /\ target \in {Absent, Foreign}
    /\ status = [d \in Downloads |-> "running"]

Move(d, from, to) == status[d] = from /\ status' = [status EXCEPT ![d] = to]

Publish(d) ==
    /\ target = Absent
    /\ target' = d
    /\ Move(d, "running", "published")

Succeed(d) == Move(d, "published", "succeeded") /\ UNCHANGED target

Fail(d) == Move(d, "running", "failed") /\ UNCHANGED target

\* The process is killed, before or after it has published.
Crash(d) ==
    /\ Move(d, "running", "crashed") \/ Move(d, "published", "crashed")
    /\ UNCHANGED target

\* Other programs create, replace and remove the target as they please.
Interfere == target' \in {Absent, Foreign} /\ UNCHANGED status

Next ==
    \/ \E d \in Downloads : Publish(d) \/ Succeed(d) \/ Fail(d) \/ Crash(d)
    \/ Interfere

Spec == Init /\ [][Next]_<<target, status>>

=============================================================================
