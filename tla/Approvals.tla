------------------------------ MODULE Approvals ------------------------------
(***************************************************************************)
(* What the action service promises the user, whatever calls race and      *)
(* whatever fails: an action is asked about at most once; an approval is   *)
(* on record before the action runs; it runs at most once; what the user   *)
(* said stays said, and what was refused, expired or failed before it was  *)
(* approved stays closed.                                                  *)
(***************************************************************************)
EXTENDS Naturals

CONSTANT Actions        \* what a companion asks its service to do

VARIABLES
  asked,   \* the actions that need the user's answer
  phase,   \* phase[a]: "new", "open", "approved", "recorded" or "closed"
  ran      \* the actions that the provider was told to execute

vars == <<asked, phase, ran>>

Init ==
  /\ asked = {} /\ ran = {}
  /\ phase = [a \in Actions |-> "new"]

Become(a, from, to) == phase[a] = from /\ phase' = [phase EXCEPT ![a] = to] /\ UNCHANGED ran

(* The policy asks the user, allows the action or turns it down.           *)
Ask(a)    == Become(a, "new", "open") /\ asked' = asked \cup {a}
Allow(a)  == Become(a, "new", "approved") /\ UNCHANGED asked
Reject(a) == Become(a, "new", "closed") /\ asked' \in {asked, asked \cup {a}}

Approve(a) == Become(a, "open", "approved") /\ UNCHANGED asked
Record(a)  == Become(a, "approved", "recorded") /\ UNCHANGED asked

(* The user denies, time runs out, or something fails. An approval by the  *)
(* user is not taken back.                                                 *)
Close(a) ==
  /\ \/ Become(a, "open", "closed")
     \/ /\ a \notin asked \cup ran
        /\ Become(a, "approved", "closed") \/ Become(a, "recorded", "closed")
  /\ UNCHANGED asked

Run(a) ==
  /\ phase[a] = "recorded" /\ a \notin ran /\ ran' = ran \cup {a}
  /\ UNCHANGED <<asked, phase>>

Step(a) == Ask(a) \/ Allow(a) \/ Reject(a) \/ Approve(a) \/ Record(a) \/ Close(a) \/ Run(a)

Next == \E a \in Actions : Step(a)

Spec == Init /\ [][Next]_vars
=============================================================================
