---------------------------- MODULE MCSideBySide ----------------------------
(***************************************************************************)
(* Small instances of six components that share no state: the avatar       *)
(* bridge, the proactive policy, the text turns of the orchestrator, the   *)
(* streams of a spoken reply, the pages of the history and the readiness   *)
(* of the providers. One of them runs in a behaviour, the others rest in   *)
(* their initial states, so that what is explored is the sum of the six    *)
(* and not their product.                                                  *)
(***************************************************************************)
EXTENDS AvatarBridge, Sequences

CONSTANTS
  Budget, Cooldown, Hour, Contexts, Window, MaxTime, MaxFeedback,  \* ProactivePolicy
  NumTurns, MaxRetries, MaxEntries, MaxTokens, MaxFaults, None,    \* Dialogue
  NumTokens, NumSegments, MaxAudio, Fallback,                      \* SpokenReply
  Sessions, AllSessions, MaxTurns, BatchSize, MaxEvents, MaxLimit, \* ConversationPages
  MaxWrites                                                        \* Readiness

SmallBudget == <<2, 1, 1, 1>>
SmallCooldown == <<1, 1, 1, 0>>

VARIABLES
  which,   \* the component that runs
  policyNow, policyHistory, policyContext, policyAccepted, policyRejected,
  policyWasIdle, policyAnswers, policyApproved, turnPc, turnLock,
  turnCancels, turnAttempt, turnLog, turnHistory, turnTokens, turnClosed,
  turnLost, turnFaults, voiceActive, voiceProducer, voiceRegistered,
  voiceSent, voiceQueue, voiceConsumer, voiceRaw, voiceReleased, voiceReply,
  voiceSynthesis, voiceSegment, voicePending, voiceAudio, voiceHeard,
  voiceOpen, voiceFlag, voiceToCancel, pageLedger, pageAsked, pageCursor,
  pageReading, pageEvents, pageShown, pageOpened,
  readyVersion, readyValid, readyLoaded, readyRunning,
  readyCheck, readySeen, readyStatus, readyPhase, readyTurn, readyStart,
  readyMic, readyStage

P == INSTANCE ProactivePolicy WITH
  now <- policyNow, history <- policyHistory, context <- policyContext,
  accepted <- policyAccepted, rejected <- policyRejected,
  wasIdle <- policyWasIdle, answers <- policyAnswers,
  approved <- policyApproved

T == INSTANCE Dialogue WITH
  pc <- turnPc, lock <- turnLock, cancels <- turnCancels,
  attempt <- turnAttempt, log <- turnLog, history <- turnHistory,
  tokens <- turnTokens, closed <- turnClosed, lost <- turnLost,
  faults <- turnFaults

S == INSTANCE SpokenReply WITH
  active <- voiceActive, producer <- voiceProducer,
  registered <- voiceRegistered, sent <- voiceSent, queue <- voiceQueue,
  consumer <- voiceConsumer, raw <- voiceRaw, released <- voiceReleased,
  reply <- voiceReply, synthesis <- voiceSynthesis, segment <- voiceSegment,
  pending <- voicePending, audio <- voiceAudio, heard <- voiceHeard,
  open <- voiceOpen, flag <- voiceFlag, toCancel <- voiceToCancel

G == INSTANCE ConversationPages WITH
  ledger <- pageLedger, asked <- pageAsked, cursor <- pageCursor,
  reading <- pageReading, events <- pageEvents, shown <- pageShown,
  opened <- pageOpened

R == INSTANCE Readiness WITH
  version <- readyVersion, valid <- readyValid, loaded <- readyLoaded,
  running <- readyRunning, check <- readyCheck, seen <- readySeen,
  status <- readyStatus, phase <- readyPhase, turn <- readyTurn,
  start <- readyStart, mic <- readyMic, stage <- readyStage

ASSUME PolicyAssumption == P!LimitsAssumption
ASSUME TextAssumption == T!SizesAssumption /\ T!NobodyAssumption
ASSUME SpeechAssumption == S!LengthsAssumption /\ S!FallbackAssumption
ASSUME PagesAssumption == G!ListingAssumption /\ G!PagingAssumption
ASSUME CheckAssumption == R!WritesAssumption

policyVars == <<policyNow, policyHistory, policyContext, policyAccepted,
  policyRejected, policyWasIdle, policyAnswers, policyApproved>>
turnVars == <<turnPc, turnLock, turnCancels, turnAttempt, turnLog,
  turnHistory, turnTokens, turnClosed, turnLost, turnFaults>>
voiceVars == <<voiceActive, voiceProducer, voiceRegistered, voiceSent,
  voiceQueue, voiceConsumer, voiceRaw, voiceReleased, voiceReply,
  voiceSynthesis, voiceSegment, voicePending, voiceAudio, voiceHeard,
  voiceOpen, voiceFlag, voiceToCancel>>
pageVars == <<pageLedger, pageAsked, pageCursor, pageReading, pageEvents,
  pageShown, pageOpened>>
readyVars == <<readyVersion, readyValid, readyLoaded, readyRunning, readyCheck,
  readySeen, readyStatus, readyPhase, readyTurn, readyStart, readyMic,
  readyStage>>
all == <<which, vars, policyVars, turnVars, voiceVars, pageVars, readyVars>>

SInit ==
  /\ which \in {"bridge", "policy", "text", "speech", "pages", "checks"}
  /\ Init /\ P!Init /\ T!Init /\ S!Init /\ G!Init /\ R!Init
  /\ which # "pages" => pageAsked = AllSessions
  /\ which # "checks" => readyValid

Bridge ==
  /\ which = "bridge" /\ Next
  /\ UNCHANGED <<which, policyVars, turnVars, voiceVars, pageVars, readyVars>>
Policy ==
  /\ which = "policy" /\ P!Next
  /\ UNCHANGED <<which, vars, turnVars, voiceVars, pageVars, readyVars>>
Text ==
  /\ which = "text" /\ T!Next
  /\ UNCHANGED <<which, vars, policyVars, voiceVars, pageVars, readyVars>>
Speech ==
  /\ which = "speech" /\ S!Next
  /\ UNCHANGED <<which, vars, policyVars, turnVars, pageVars, readyVars>>
Pages ==
  /\ which = "pages" /\ G!Next
  /\ UNCHANGED <<which, vars, policyVars, turnVars, voiceVars, readyVars>>
Ready ==
  /\ which = "checks" /\ R!Next
  /\ UNCHANGED <<which, vars, policyVars, turnVars, voiceVars, pageVars>>

SNext == Bridge \/ Policy \/ Text \/ Speech \/ Pages \/ Ready

SSpec == SInit /\ [][SNext]_all

-----------------------------------------------------------------------------
(* No approval is too soon after another, or beyond a budget               *)
(* (ProactivePolicy).                                                      *)
LimitsKept == P!LimitsKept

(* The history of the orchestrator is the longest part at the end of what  *)
(* the ledger completed that fits (Dialogue).                              *)
HistoryFollowsLedger == T!HistoryFollowsLedger

(* A started text turn gets one terminal (Dialogue).                       *)
TextTurnsAreSettled == T!TextTurnsAreSettled

(* Whoever waits for text is woken when the stream is over (SpokenReply).  *)
ConsumerIsWoken == S!ConsumerIsWoken

(* A sentence whose synthesis was cancelled is silent (SpokenReply).       *)
CancelSilences == S!CancelSilences

(* Paging through the history leaves nothing out, shows no turn before the *)
(* older ones and lists no session twice (ConversationPages).              *)
PagesMissNothing == G!PagesMissNothing

(* What is reported as a healthy runtime has been started (Readiness).     *)
RuntimeIsThere == R!RuntimeIsThere

(* docs/avatar_bridge_protocol.md: "A shut-down provider cannot reconnect".*)
(* (Refuted: a call that waits for the connect lock opens one.)            *)
NoReconnectAfterShutdown == [][closed => opened' = opened]_vars
=============================================================================
