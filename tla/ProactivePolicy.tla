--------------------------- MODULE ProactivePolicy ---------------------------
(***************************************************************************)
(* When the companion may speak up by itself: the policy gate              *)
(* (core/policy_gate.py) and the triggers of the scheduler that asks it    *)
(* (services/proactive_scheduler.py). A proposal is blocked by the user's  *)
(* context, moved to a lower level while the hourly budget of its level is *)
(* used up, held back by the cooldown of the level it ends at, and weighed *)
(* against what it costs and what the user rejected before.                *)
(*                                                                         *)
(* Scores are in hundredths. The wall clock only moves forward here.       *)
(***************************************************************************)
EXTENDS Integers, FiniteSets

CONSTANTS
  Budget,     \* Budget[l]: approvals of level l in an hour
  Cooldown,   \* Cooldown[l]: time between two of them
  Hour,       \* in units of the clock
  Contexts,   \* what may hold it back
  Window,     \* _max_recent_feedback
  MaxTime,    \* bound on the clock
  MaxFeedback \* bound on the user's answers

Levels == 1..4

(* A cooldown of more than an hour would be forgotten with the entries that*)
(* the budget no longer counts; PolicyGateConfig accepts one.              *)
LimitsAssumption ==
  /\ Hour \in Nat /\ Window \in Nat \ {0} /\ {MaxTime, MaxFeedback} \subseteq Nat
  /\ Contexts \subseteq {"muted", "quiet", "meeting", "fullscreen", "typing"}
  /\ Budget \in [Levels -> Nat] /\ Cooldown \in [Levels -> 0..Hour]

VARIABLES
  now,         \* time.time()
  history,     \* _proactive_history: approvals; their order is that of their times
  context,     \* what holds the companion back: a set of Contexts
  accepted, rejected,        \* recent feedback
  wasIdle,     \* the scheduler's idea of the user
  answers,     \* feedback so far
  approved     \* every approval, never pruned

perceived == <<context, wasIdle>>
feedback  == <<accepted, rejected, answers>>
vars == <<now, history, perceived, feedback, approved>>

Init ==
  /\ now = 0 /\ history = {} /\ approved = {}
  /\ context = {} /\ wasIdle = FALSE
  /\ accepted = 0 /\ rejected = 0 /\ answers = 0

-----------------------------------------------------------------------------
(* A lower level is never blocked by a context that lets a higher one pass.*)
Blocked(l) == \/ "muted" \in context
              \/ l >= 2 /\ context \cap {"quiet", "meeting"} # {}
              \/ l >= 3 /\ context \cap {"fullscreen", "typing"} # {}

(* Counting forgets what is older than an hour, from the oldest on.        *)
Recent == {a \in history : a.time >= now - Hour}
Count(l) == Cardinality({a \in Recent : a.level = l})

(* The highest level up to l whose budget is not used up; 0 if none.       *)
Affordable(l) ==
  LET open == {k \in 1..l : Count(k) < Budget[k]} IN
  IF open = {} THEN 0 ELSE CHOOSE k \in open : \A j \in open : j <= k

(* Mutant: the cooldown of the proposed level is looked at.                *)
CoolingAsProposed(l) ==
  \E a \in Recent : a.level = l + 1 /\ now - a.time < Cooldown[l]

Cooling(l) ==
  \E a \in Recent : a.level = l /\ now - a.time < Cooldown[l]

Cost(c) == IF c \in context THEN CASE c = "meeting" -> 80 [] c = "fullscreen" -> 50
                                   [] c = "typing" -> 30
           ELSE 0
InterruptionCost == LET sum == Cost("meeting") + Cost("fullscreen") + Cost("typing")
                    IN IF sum > 100 THEN 100 ELSE sum
RejectionScore == IF accepted + rejected = 0 THEN 0
                  ELSE (100 * rejected) \div (accepted + rejected)
Threshold == <<0, 30, 60, 80>>

Useful(l, gain) ==
  gain - InterruptionCost - 10 * Count(l) - RejectionScore >= Threshold[l]

(* evaluate_proactive(): an approval is counted at the level it ends at.   *)
Evaluate(l, gain) ==
  LET k == Affordable(l) IN
  IF Blocked(l) THEN UNCHANGED <<history, approved>>
  ELSE IF k = 0 \/ Cooling(k) \/ ~Useful(k, gain) THEN history' = Recent /\ UNCHANGED approved
  ELSE LET entry == [time |-> now, level |-> k, nth |-> Count(k)]
       IN history' = Recent \cup {entry} /\ approved' = approved \cup {entry}

-----------------------------------------------------------------------------
(* check_and_schedule(): a trigger proposes a level; its gain is relevance,*)
(* urgency and relationship value. What is approved is published.          *)
Propose(l, gain) == Evaluate(l, gain) /\ UNCHANGED <<now, feedback>>

AppSwitch      == Propose(1, 80) /\ UNCHANGED perceived
PeriodicCheck  == Propose(1, 80) /\ UNCHANGED perceived
ReflectionPlan == Propose(2, 130) /\ UNCHANGED perceived
Milestone      == Propose(3, 170) /\ UNCHANGED perceived
ScheduleEvent  == Propose(3, 190) /\ UNCHANGED perceived

(* No trigger proposes an action yet: the gate's own caller does.          *)
ActionProposal == Propose(4, 190) /\ UNCHANGED perceived

UserIdle ==
  /\ ~wasIdle /\ wasIdle' = TRUE /\ Propose(1, 80)
  /\ UNCHANGED context

(* on_user_idle() with a short idle time.                                  *)
UserActive ==
  /\ wasIdle /\ wasIdle' = FALSE
  /\ UNCHANGED <<now, history, context, feedback, approved>>

UserReturn ==
  /\ wasIdle /\ wasIdle' = FALSE /\ Propose(2, 100)
  /\ UNCHANGED context

SetContext ==
  /\ \E c \in Contexts : context' \in {context \cup {c}, context \ {c}} \ {context}
  /\ UNCHANGED <<now, history, wasIdle, feedback, approved>>

(* record_feedback(): what exceeds the window is taken off both counters in*)
(* proportion, rounded down.                                               *)
Reduced(part, total) ==
  IF total <= Window THEN part ELSE part - ((total - Window) * part) \div total

Feedback ==
  /\ answers < MaxFeedback /\ answers' = answers + 1
  /\ \E yes \in BOOLEAN :
       LET a == accepted + (IF yes THEN 1 ELSE 0)
           r == rejected + (IF yes THEN 0 ELSE 1)
       IN accepted' = Reduced(a, a + r) /\ rejected' = Reduced(r, a + r)
  /\ UNCHANGED <<now, history, perceived, approved>>

Tick ==
  /\ now < MaxTime /\ now' = now + 1
  /\ UNCHANGED <<history, perceived, feedback, approved>>

Next == \/ AppSwitch \/ PeriodicCheck \/ ReflectionPlan \/ Milestone \/ ScheduleEvent
        \/ ActionProposal \/ UserIdle \/ UserActive \/ UserReturn \/ SetContext \/ Feedback \/ Tick

Spec == Init /\ [][Next]_vars

-----------------------------------------------------------------------------
(* In no hour are more approvals given at a level than its budget, and two *)
(* at the same level are a cooldown apart, also for what was proposed at a *)
(* higher level.                                                           *)
LimitsKept ==
  \A a \in approved :
    LET before == {b \in approved : b.level = a.level /\ b # a /\ b.time <= a.time}
    IN /\ Cardinality({b \in before : b.time >= a.time - Hour}) < Budget[a.level]
       /\ \A b \in before : a.time - b.time >= Cooldown[a.level]

(* The inductive invariant: an approval of the last hour is still in the   *)
(* history, and those of one moment are numbered apart.                    *)
HistoryInv ==
  /\ now \in Nat /\ IsFiniteSet(approved) /\ history \subseteq approved
  /\ \A a \in approved : a.time \in 0..now /\ a.level \in Levels /\ a.nth \in Nat
  /\ \A a \in approved : a.time >= now - Hour => a \in history
  /\ \A a \in approved : a.time = now => a.nth < Count(a.level)

LimitsInv == HistoryInv /\ LimitsKept
=============================================================================
