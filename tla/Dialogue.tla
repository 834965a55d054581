------------------------------- MODULE Dialogue -------------------------------
(***************************************************************************)
(* Text turns: process_user_input() of the orchestrator                    *)
(* (core/orchestrator.py), the retries of the language model               *)
(* (providers/implementations/cloud_llm.py) and the bounded history        *)
(* (conversation.py). Callers compete for the text-turn lock; each may be  *)
(* cancelled at any await, and every publish may be refused.               *)
(*                                                                         *)
(* The event bus is seen through publish() (EventBus.tla has its inside):  *)
(* a first cancellation waits for the commit of an accepted event, a       *)
(* second one drops it.                                                    *)
(***************************************************************************)
EXTENDS Naturals, Sequences, Selection

CONSTANTS
  NumTurns,    \* callers
  MaxRetries,  \* attempts of a generation
  MaxEntries,  \* entries that the history keeps
  MaxTokens,   \* tokens that it keeps, unless one entry has more
  None,        \* nobody holds the lock
  MaxFaults    \* bound on refused publishes

Turns == 1..NumTurns

SizesAssumption ==
  /\ {NumTurns, MaxRetries, MaxEntries} \subseteq Nat \ {0}
  /\ {MaxTokens, MaxFaults} \subseteq Nat
NobodyAssumption == None \notin Turns

(* Later turns say more: what matters is that the lengths differ.          *)
Weight(t) == t

VARIABLES
  pc,        \* pc[t]: where caller t is
  lock,      \* the holder of the text-turn lock
  cancels,   \* cancels[t]: cancellations since the last one that was caught
  attempt,   \* the attempt of the generation that runs
  log,       \* the committed events
  history, tokens,   \* the entries kept and the running total
  closed,    \* the bus is shut down
  lost,      \* turns that a second cancellation or a refusal cut short
  faults

turn == <<pc, lock, cancels, attempt>>
entries == <<history, tokens>>
vars == <<turn, log, entries, closed, lost, faults>>

Init ==
  /\ pc = [t \in Turns |-> "idle"] /\ lock = None
  /\ cancels = [t \in Turns |-> 0] /\ attempt = 0
  /\ log = <<>> /\ history = <<>> /\ tokens = 0
  /\ closed = FALSE /\ lost = {} /\ faults = 0

Goto(t, where) == pc' = [pc EXCEPT ![t] = where]
Caught(t) == cancels' = [cancels EXCEPT ![t] = 0]
Event(kind, t) == [kind |-> kind, turn |-> t]
Terminals(t) == {i \in DOMAIN log : log[i].turn = t /\ log[i].kind \in {"completed", "failed"}}

-----------------------------------------------------------------------------
(* The three ways a publish ends, whatever was cancelled meanwhile.        *)
Committed(t, kind) == ~closed /\ log' = Append(log, Event(kind, t)) /\ UNCHANGED <<lost, faults>>
Refused(t) ==
  /\ \/ closed /\ UNCHANGED faults
     \/ faults < MaxFaults /\ faults' = faults + 1
  /\ UNCHANGED log
Dropped(t) == cancels[t] = 2 /\ UNCHANGED <<log, faults>> /\ lost' = lost \cup {t}

(* The lock is released on every way out.                                  *)
Leave(t) == Goto(t, "done") /\ lock' = None

Call(t) ==
  /\ pc[t] = "idle" /\ Goto(t, "lock")
  /\ UNCHANGED <<lock, cancels, attempt, log, entries, closed, lost, faults>>

Enter(t) ==
  /\ pc[t] = "lock" /\ lock = None /\ lock' = t /\ Goto(t, "started")
  /\ UNCHANGED <<cancels, attempt, log, entries, closed, lost, faults>>

StartPublished(t) ==
  /\ pc[t] = "started"
  /\ \/ /\ Committed(t, "started") /\ attempt' = 1
        /\ IF cancels[t] = 0 THEN Goto(t, "generate") ELSE Goto(t, "failed")
        /\ UNCHANGED lock
     \/ Refused(t) /\ Leave(t) /\ UNCHANGED <<attempt, lost>>
     \/ Dropped(t) /\ Goto(t, "failed") /\ UNCHANGED <<lock, attempt>>
  /\ Caught(t)
  /\ UNCHANGED <<entries, closed>>

(* generate(): a retryable failure is tried again after a delay; when the  *)
(* attempts or the time are used up the answer is an apology.              *)
Retry(t) ==
  /\ pc[t] = "generate" /\ attempt < MaxRetries /\ attempt' = attempt + 1
  /\ UNCHANGED <<pc, lock, cancels, log, entries, closed, lost, faults>>

Answered(t) == Goto(t, "response")

(* There is no model, or the prompt cannot be built.                       *)
NotPrepared(t) == attempt = 1 /\ Goto(t, "failed")

Generated(t) ==
  /\ pc[t] = "generate" /\ (Answered(t) \/ NotPrepared(t))
  /\ UNCHANGED <<lock, cancels, attempt, log, entries, closed, lost, faults>>

ResponsePublished(t) ==
  /\ pc[t] = "response"
  /\ \/ /\ Committed(t, "response")
        /\ IF cancels[t] = 0 THEN Goto(t, "completed") ELSE Goto(t, "failed")
     \/ Refused(t) /\ Goto(t, "failed") /\ UNCHANGED lost
     \/ Dropped(t) /\ Goto(t, "failed")
  /\ Caught(t)
  /\ UNCHANGED <<lock, attempt, entries, closed>>

(* Mutant: a cancelled completion is published as a failure.               *)
CancelledCompletionFails(t) ==
  /\ pc[t] = "completed"
  /\ \/ Committed(t, "completed") /\ Goto(t, IF cancels[t] = 0 THEN "commit" ELSE "failed")
     \/ Refused(t) /\ Goto(t, "failed") /\ UNCHANGED lost
  /\ Caught(t)
  /\ UNCHANGED <<lock, attempt, entries, closed>>

(* A cancelled publish of the completion is taken as an accepted one.      *)
CompletionPublished(t) ==
  /\ pc[t] = "completed"
  /\ \/ Committed(t, "completed") /\ Goto(t, "commit")
     \/ Refused(t) /\ Goto(t, "failed") /\ UNCHANGED lost
     \/ Dropped(t) /\ Goto(t, "commit")
  /\ Caught(t)
  /\ UNCHANGED <<lock, attempt, entries, closed>>

FailurePublished(t) ==
  /\ pc[t] = "failed"
  /\ \/ Committed(t, "failed")
     \/ Refused(t) /\ lost' = lost \cup {t}
     \/ Dropped(t)
  /\ Leave(t) /\ Caught(t)
  /\ UNCHANGED <<attempt, entries, closed>>

-----------------------------------------------------------------------------
Total(seq) ==
  LET sum[n \in 0..Len(seq)] == IF n = 0 THEN 0 ELSE sum[n - 1] + Weight(seq[n])
  IN sum[Len(seq)]

Newest(seq, from) == SubSeq(seq, from, Len(seq))

(* What may stay: one entry always does.                                   *)
Fits(seq) == Len(seq) <= MaxEntries /\ (Len(seq) = 1 \/ Total(seq) <= MaxTokens)

(* Mutant: the oldest entry is taken off the list and not off the total.   *)
TrimmedList(seq, total) ==
  LET first == CHOOSE n \in 1..Len(seq) :
                 Fits(Newest(seq, n)) /\ \A k \in 1..(n - 1) : ~Fits(Newest(seq, k))
  IN <<Newest(seq, first), total>>

(* add_turn(): the oldest entries go until the rest fits.                  *)
Trimmed(seq, total) ==
  LET kept == TrimmedList(seq, total)[1] IN <<kept, total - (Total(seq) - Total(kept))>>

(* commit_response() in a task of its own, which a first cancellation waits*)
(* for. A second one may come before the task has run.                     *)
HistoryCommitted(t) ==
  /\ pc[t] = "commit"
  /\ \/ /\ LET new == Trimmed(Append(history, t), tokens + Weight(t))
           IN history' = new[1] /\ tokens' = new[2]
        /\ Goto(t, "effects") /\ UNCHANGED <<lock, cancels, lost>>
     \/ /\ cancels[t] = 2 /\ lost' = lost \cup {t}
        /\ Leave(t) /\ Caught(t) /\ UNCHANGED entries
  /\ UNCHANGED <<attempt, log, closed, faults>>

(* The rest of the commit, with the lock still held: facts are noted and   *)
(* the avatar shows the feeling and a gesture. What fails or is cancelled  *)
(* here has no consequences for the turn.                                  *)
AvatarTold(t) ==
  /\ pc[t] = "effects" /\ Leave(t) /\ Caught(t)
  /\ UNCHANGED <<attempt, log, entries, closed, lost, faults>>

(* The caller is cancelled: at the lock it leaves, a generation is stopped *)
(* and published as failed, and where a task is shielded it is noted.      *)
Cancel(t) ==
  /\ \/ /\ pc[t] = "lock" /\ Goto(t, "done") /\ UNCHANGED cancels
     \/ /\ pc[t] = "generate" /\ Goto(t, "failed") /\ UNCHANGED cancels
     \/ /\ pc[t] \in {"started", "response", "completed", "failed", "commit", "effects"}
        /\ cancels[t] < 2 /\ cancels' = [cancels EXCEPT ![t] = @ + 1] /\ UNCHANGED pc
  /\ UNCHANGED <<lock, attempt, log, entries, closed, lost, faults>>

CloseBus ==
  /\ ~closed /\ closed' = TRUE
  /\ UNCHANGED <<turn, log, entries, lost, faults>>

Next ==
  \/ \E t \in Turns :
       \/ Call(t) \/ Enter(t) \/ StartPublished(t) \/ Retry(t) \/ Generated(t)
       \/ ResponsePublished(t) \/ CompletionPublished(t) \/ FailurePublished(t)
       \/ HistoryCommitted(t) \/ AvatarTold(t) \/ Cancel(t)
  \/ CloseBus

Spec == Init /\ [][Next]_vars

-----------------------------------------------------------------------------
(* The history is the longest part at the end of what the ledger records  *)
(* as completed that fits, in the order of the ledger and with the right   *)
(* token total, while turns are cancelled, refused and trimmed one by one; *)
(* only the turn that is being committed may be missing.                   *)
CompletedTurns ==
  LET done == Chosen(log, {Event("completed", t) : t \in {u \in Turns : pc[u] # "commit"}})
  IN [i \in DOMAIN done |-> done[i].turn]

HistoryFollowsLedger ==
  lost = {} =>
    /\ \E n \in 1..(Len(CompletedTurns) + 1) :
         /\ history = Newest(CompletedTurns, n) /\ Fits(history)
         /\ \A k \in 1..(n - 1) : ~Fits(Newest(CompletedTurns, k))
    /\ tokens = Total(history)

(* A turn that the ledger records as started and that has returned has one *)
(* terminal there, and no turn ever has two.                               *)
TextTurnsAreSettled ==
  \A t \in Turns :
    /\ \A i, j \in Terminals(t) : i = j
    /\ pc[t] = "done" /\ t \notin lost /\ (\E i \in DOMAIN log : log[i] = Event("started", t))
         => Terminals(t) # {}

(* What the ledger holds of the life of a turn: the answer is no part of   *)
(* it, and nothing interrupts a text turn.                                 *)
Life == [started |-> "Started", completed |-> "Completed", failed |-> "Failed"]
LifeOf(t) ==
  LET own == Chosen(log, {Event(kind, t) : kind \in DOMAIN Life})
  IN [i \in DOMAIN own |-> Life[own[i].kind]]

Lifecycle == INSTANCE TurnLifecycle WITH log <- [t \in Turns |-> LifeOf(t)]

(* Text turns keep the lifecycle that the pipeline keeps for spoken ones:  *)
(* a start first, one terminal last, a completion only after a start,      *)
(* whatever is cancelled or refused in between.                            *)
ImplementsLifecycle == Lifecycle!Spec
=============================================================================
