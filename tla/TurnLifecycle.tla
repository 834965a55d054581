---------------------------- MODULE TurnLifecycle ----------------------------
(***************************************************************************)
(* What the event ledger promises about the life of a conversation turn,   *)
(* whatever pipeline runs it: the durable lifecycle events of a turn are a *)
(* start, at most one interruption notice, and at most one terminal event, *)
(* after which nothing more is recorded for the turn.                      *)
(*                                                                         *)
(* A failure may be recorded for a turn whose start was never durable: the *)
(* pipeline cancels or interrupts such turns too.                          *)
(***************************************************************************)
EXTENDS Naturals, Sequences

CONSTANT Turns          \* the turns of a session

VARIABLE log            \* log[t]: the durable lifecycle events of turn t, oldest first

Terminal == {"Completed", "Failed"}
Event == {"Started", "Interrupted"} \cup Terminal

Occurs(s, e) == \E i \in 1..Len(s) : s[i] = e
Has(t, e) == Occurs(log[t], e)
Ended(t)  == Has(t, "Completed") \/ Has(t, "Failed")

Record(t, e) == log' = [log EXCEPT ![t] = Append(@, e)]

Init == log = [t \in Turns |-> <<>>]

Start(t)     == log[t] = <<>> /\ Record(t, "Started")
Interrupt(t) == ~Ended(t) /\ ~Has(t, "Interrupted") /\ Record(t, "Interrupted")
Complete(t)  == ~Ended(t) /\ Has(t, "Started") /\ Record(t, "Completed")
Fail(t)      == ~Ended(t) /\ Record(t, "Failed")

Next == \E t \in Turns : Start(t) \/ Interrupt(t) \/ Complete(t) \/ Fail(t)

Spec == Init /\ [][Next]_log
=============================================================================
