-------------------------- MODULE ConversationPages --------------------------
(***************************************************************************)
(* How the desktop client pages through the conversation ledger            *)
(* (desktop/history.py over query_events() of memory/memory_service.py):   *)
(* the list of sessions, newest first, and the turns of one session,       *)
(* oldest first. The ledger is read in batches, each a query of its own,   *)
(* and turns go on to be completed between batches and between pages.      *)
(*                                                                         *)
(* A turn is the position of its completed event, which is also its        *)
(* occurred_at: two turns do not complete at the same microsecond.         *)
(***************************************************************************)
EXTENDS Naturals, Sequences, SequencesExt, Selection

CONSTANTS
  Sessions,    \* conversations
  AllSessions, \* what is asked for: the list of them
  MaxTurns,    \* bound on the ledger
  BatchSize,   \* _BATCH_SIZE
  MaxEvents,   \* _MAX_PROJECTED_EVENTS
  MaxLimit     \* the most rows that a client asks for

ListingAssumption == AllSessions \notin Sessions
PagingAssumption == {MaxTurns, BatchSize, MaxEvents, MaxLimit} \subseteq Nat \ {0}

VARIABLES
  ledger,    \* ledger[i]: the session of the i-th completed turn
  asked,     \* the session whose turns are read, or AllSessions
  cursor,    \* what the client got with the last page, or Start or NoMore
  reading,   \* a page is being put together
  events,    \* the turns read for it so far
  shown,     \* the rows of the pages so far
  opened     \* history variable: the turns that there were at the first request

vars == <<ledger, asked, cursor, reading, events, shown, opened>>

Cursor(snapshot, offset, seen) == [snapshot |-> snapshot, offset |-> offset, seen |-> seen]
Start == Cursor(0, 0, 0)
NoMore == Cursor(0, 0, MaxTurns + 1)

Init ==
  /\ ledger = <<>> /\ asked \in Sessions \cup {AllSessions}
  /\ cursor = Start /\ reading = FALSE /\ events = <<>> /\ shown = <<>>
  /\ opened = 0

TurnCompleted ==
  /\ Len(ledger) < MaxTurns /\ \E s \in Sessions : ledger' = Append(ledger, s)
  /\ UNCHANGED <<asked, cursor, reading, events, shown, opened>>

AskPage ==
  /\ ~reading /\ cursor # NoMore /\ reading' = TRUE /\ events' = <<>>
  /\ opened' = IF cursor = Start THEN Len(ledger) ELSE opened
  /\ UNCHANGED <<ledger, asked, cursor, shown>>

-----------------------------------------------------------------------------
(* query_events(): the turns from a time on, newest first; the list of     *)
(* sessions has no lower bound.                                            *)
Query(from, offset, limit) ==
  LET rows == [k \in 1..(Len(ledger) - from + 1) |-> Len(ledger) + 1 - k]
  IN SubSeq(rows, offset + 1, IF offset + limit < Len(rows) THEN offset + limit ELSE Len(rows))

NextBatch ==
  Query(IF cursor.seen = 0 THEN 1 ELSE cursor.seen, Len(events),
        IF BatchSize < MaxEvents - Len(events) THEN BatchSize ELSE MaxEvents - Len(events))

LastBatch(batch) == Len(batch) < BatchSize \/ Len(events) + Len(batch) >= MaxEvents

(* Mutant: every page looks at the ledger as it is now.                    *)
SnapshotRenewed(read) == IF read = <<>> THEN Len(ledger) ELSE read[1]

(* The first page fixes what all of them look at.                          *)
Snapshot(read) == IF cursor.snapshot # 0 THEN cursor.snapshot ELSE SnapshotRenewed(read)

(* The sessions of the turns read, newest turn first: each stands where it *)
(* was met first.                                                          *)
SessionRows(read, snapshot) ==
  LET seen(i, j) == read[j] <= snapshot /\ ledger[read[j]] = ledger[read[i]]
      first == Chosen([i \in DOMAIN read |-> i],
                      {i \in DOMAIN read : seen(i, i) /\ \A j \in 1..(i - 1) : ~seen(i, j)})
  IN [k \in DOMAIN first |-> ledger[read[first[k]]]]

TurnRows(read, snapshot) ==
  Chosen(Reverse(read),
         {t \in DOMAIN ledger : cursor.seen < t /\ t <= snapshot /\ ledger[t] = asked})

PageOf(rows, limit) ==
  SubSeq(rows, cursor.offset + 1,
         IF cursor.offset + limit < Len(rows) THEN cursor.offset + limit ELSE Len(rows))

(* Turns are continued after the last one shown, sessions at their offset. *)
CursorAfter(page, snapshot, rows) ==
  LET reached == cursor.offset + Len(page)
  IN IF reached >= Len(rows) THEN NoMore
     ELSE IF asked = AllSessions THEN Cursor(snapshot, reached, 0)
     ELSE Cursor(snapshot, 0, Last(page))

ReadOn ==
  /\ reading /\ ~LastBatch(NextBatch) /\ events' = events \o NextBatch
  /\ UNCHANGED <<ledger, asked, cursor, reading, shown, opened>>

PageDone(limit) ==
  /\ reading /\ LastBatch(NextBatch) /\ reading' = FALSE /\ events' = <<>>
  /\ LET read     == events \o NextBatch
         snapshot == Snapshot(read)
         rows     == IF asked = AllSessions THEN SessionRows(read, snapshot)
                     ELSE TurnRows(read, snapshot)
     IN /\ shown' = shown \o PageOf(rows, limit)
        /\ cursor' = CursorAfter(PageOf(rows, limit), snapshot, rows)
  /\ UNCHANGED <<ledger, asked, opened>>

Next == TurnCompleted \/ AskPage \/ ReadOn \/ \E limit \in 1..MaxLimit : PageDone(limit)

Spec == Init /\ [][Next]_vars

-----------------------------------------------------------------------------
(* Whatever completes between the queries, and however many rows a page    *)
(* may have: of a session, no turn is shown before all the older ones have *)
(* been (a turn may be shown again), and no session is listed twice; and a *)
(* client that followed the cursors to the end has been shown all that     *)
(* there was when it began.                                                *)
Wanted == {t \in DOMAIN ledger : ledger[t] = asked}

PagesMissNothing ==
  Len(ledger) <= MaxEvents =>
    IF asked = AllSessions
    THEN /\ IsInjective(shown)
         /\ cursor = NoMore => {ledger[t] : t \in 1..opened} \subseteq Range(shown)
    ELSE /\ \A i \in DOMAIN shown, t \in Wanted :
              t < shown[i] => \E j \in 1..(i - 1) : shown[j] = t
         /\ cursor = NoMore => {t \in Wanted : t <= opened} \subseteq Range(shown)

(* tests/test_desktop_history.py:103: "history pages never duplicate or    *)
(* drop turns".                                                            *)
PagesNeverDuplicate == asked \in Sessions => IsInjective(shown)
=============================================================================
