------------------------------ MODULE SpokenReply ------------------------------
(***************************************************************************)
(* How one reply is streamed from the language model to the loudspeaker:   *)
(* _stream_speech() and _speak_response() of services/voice_pipeline.py,   *)
(* generate_stream() and cancel() of cloud_llm.py, synthesize_stream() and *)
(* cancel() of cloud_tts.py and the filter of security/assistant_output.py *)
(* that releases whole sentences.                                          *)
(*                                                                         *)
(* Three tasks: the producer reads the model's stream into a queue, the    *)
(* consumer (the turn task) takes text from it, releases sentences and     *)
(* speaks each, and the interruption, which may come at any await, cancels *)
(* the model and the synthesis. The turn task may be cancelled as well.    *)
(* Servers answer, end or fail when they like. VoiceTurn has what becomes  *)
(* of the turn; here it is only active or not.                             *)
(***************************************************************************)
EXTENDS Naturals, Sequences, SequencesExt

CONSTANTS
  NumTokens,   \* pieces of text that the model sends
  NumSegments, \* requests that a sentence is split into
  MaxAudio,    \* pieces of audio of a request
  Fallback     \* what the filter says in place of a suspicious reply

LengthsAssumption == {NumTokens, NumSegments, MaxAudio} \subseteq Nat \ {0}
FallbackAssumption == Fallback \notin Nat

VARIABLES
  active,      \* the turn is active: nobody has interrupted it
  producer,    \* "new" | "read" | "close" | "ended" | "cancelled" | "failed"
  registered,  \* the producer is the task that cancel() of the model finds
  sent,        \* tokens that the model has sent
  queue,       \* between the two tasks: "text", "final" and the sentinel "end"
  consumer,    \* where the turn task is
  raw,         \* tokens given to the filter
  released,    \* text that has been released, sentence by sentence
  reply,       \* what the turn returns as its whole text
  synthesis,   \* where synthesize_stream() is
  segment,     \* the request that runs
  pending,     \* a piece of audio is held back, it may be the last
  audio,       \* pieces that the request has brought
  heard,       \* pieces given to the pipeline since the sentence began
  open,        \* cancel() of the synthesis finds a response
  flag,        \* cancel() of the synthesis has answered True
  toCancel     \* whom a cancellation may still reach

modelVars == <<producer, registered, sent>>
filterVars == <<raw, released, reply>>
soundVars == <<synthesis, segment, pending, audio, heard, open, flag>>
vars == <<active, modelVars, queue, consumer, filterVars, soundVars, toCancel>>

Init ==
  /\ active = TRUE /\ producer = "new" /\ registered = FALSE /\ sent = 0
  /\ queue = <<>> /\ consumer = "get"
  /\ raw = 0 /\ released = <<>> /\ reply = <<>>
  /\ synthesis = "off" /\ segment = 0 /\ pending = FALSE /\ audio = 0
  /\ heard = 0 /\ open = FALSE /\ flag = FALSE
  /\ toCancel = {"turn", "provider"}

-----------------------------------------------------------------------------
(* The producer. Whatever ends the stream, the sentinel is put.            *)
Started ==
  /\ producer = "new" /\ producer' = "read" /\ registered' = TRUE
  /\ UNCHANGED <<active, sent, queue, consumer, filterVars, soundVars, toCancel>>

Token ==
  /\ producer = "read" /\ sent < NumTokens
  /\ sent' = sent + 1 /\ queue' = Append(queue, "text")
  /\ UNCHANGED <<active, producer, registered, consumer, filterVars, soundVars, toCancel>>

(* Mutant: the sentinel is put when the stream has ended well.             *)
SentinelOnSuccess(how) ==
  /\ producer' = how
  /\ queue' = IF how = "close" THEN queue \o <<"final", "end">> ELSE queue

StreamLeft(how) ==
  /\ producer' = how
  /\ queue' = IF how = "close" THEN queue \o <<"final", "end">> ELSE Append(queue, "end")

(* The last chunk has no text; the generator waits at it to be closed.     *)
StreamEnds ==
  /\ producer = "read" /\ sent > 0 /\ StreamLeft("close")
  /\ UNCHANGED <<active, registered, sent, consumer, filterVars, soundVars, toCancel>>

(* The connection fails or the deadline passes.                            *)
StreamFails ==
  /\ producer = "read" /\ StreamLeft("failed") /\ registered' = FALSE
  /\ UNCHANGED <<active, sent, consumer, filterVars, soundVars, toCancel>>

GeneratorClosed ==
  /\ producer = "close" /\ producer' = "ended" /\ registered' = FALSE
  /\ UNCHANGED <<active, sent, queue, consumer, filterVars, soundVars, toCancel>>

(* The producer is cancelled, by cancel() of the model, which does not know *)
(* it before it has started, or by the consumer on its way out.            *)
CancelProducer ==
  /\ CASE producer = "read"           -> StreamLeft("cancelled")
       [] producer \in {"new", "close"} -> producer' = "cancelled" /\ UNCHANGED queue
       [] OTHER                       -> UNCHANGED <<producer, queue>>
  /\ registered' = FALSE

-----------------------------------------------------------------------------
(* The filter. Of the tokens so far it keeps those of lines that do not    *)
(* look internal; a reply with nothing else becomes the fallback.          *)
Clean(n) ==
  {<<Fallback>>} \cup {SetToSortSeq(kept, <) : kept \in (SUBSET (1..n)) \ {{}}}

Goto(where) == consumer' = where

(* _release(): up to a sentence boundary, or to the end of a complete      *)
(* reply. No release goes against what was released before.                *)
Release(clean, n) ==
  IsPrefix(released, clean) /\ n >= Len(released) /\ released' = SubSeq(clean, 1, n)

Contradicted(n) ==
  /\ \E clean \in Clean(n) : ~IsPrefix(released, clean)
  /\ Goto("failed") /\ UNCHANGED released

(* push(): whole sentences are released and spoken, or nothing is.         *)
TakeToken ==
  /\ consumer = "get" /\ queue # <<>> /\ Head(queue) = "text"
  /\ raw' = raw + 1
  /\ \/ \E clean \in Clean(raw') : \E n \in 0..Len(clean) :
          /\ Release(clean, n)
          /\ Goto(IF released' = released THEN "get" ELSE "speak")
     \/ Contradicted(raw')
  /\ queue' = Tail(queue)
  /\ UNCHANGED <<active, modelVars, reply, soundVars, toCancel>>

TakeEnd ==
  /\ consumer = "get" /\ queue # <<>> /\ Head(queue) \in {"final", "end"}
  /\ queue' = Tail(queue) /\ Goto("join")
  /\ UNCHANGED <<active, modelVars, filterVars, soundVars, toCancel>>

(* await producer: its failure is raised, its cancellation only in a turn  *)
(* that is still active; finish() releases the rest.                       *)
Joined ==
  /\ consumer = "join"
  /\ \/ producer = "failed" /\ Goto("failed") /\ UNCHANGED <<released, reply>>
     \/ producer = "cancelled" /\ active /\ Goto("aborted") /\ UNCHANGED <<released, reply>>
     \/ /\ producer = "ended" \/ (producer = "cancelled" /\ ~active)
        /\ \/ \E clean \in Clean(raw) :
                /\ Release(clean, Len(clean)) /\ reply' = clean
                /\ Goto(IF released' # released /\ active THEN "tail" ELSE "returned")
           \/ Contradicted(raw) /\ UNCHANGED reply
  /\ UNCHANGED <<active, modelVars, queue, raw, soundVars, toCancel>>

-----------------------------------------------------------------------------
(* The synthesis of one sentence; each piece of audio is held back until   *)
(* the next, so that the last one can carry the text.                      *)
Speaking == consumer \in {"speak", "tail"}

Claim ==
  /\ Speaking /\ synthesis = "off"
  /\ synthesis' = "connect" /\ segment' = 1 /\ heard' = 0 /\ flag' = FALSE
  /\ pending' = FALSE /\ audio' = 0 /\ open' = FALSE
  /\ UNCHANGED <<active, modelVars, queue, consumer, filterVars, toCancel>>

Connected ==
  /\ synthesis = "connect" /\ synthesis' = "read" /\ open' = TRUE
  /\ UNCHANGED <<active, modelVars, queue, consumer, filterVars, segment, pending, audio, heard, flag, toCancel>>

(* A piece is given to the pipeline.                                       *)
Yield(where) == synthesis' = where /\ heard' = heard + 1

(* Mutant: the loop looks for a cancellation after it has yielded.         *)
AudioBeforeCheck ==
  /\ synthesis = "read" /\ audio < MaxAudio /\ audio' = audio + 1
  /\ pending' = TRUE
  /\ IF pending THEN Yield("yield") ELSE UNCHANGED <<synthesis, heard>>
  /\ UNCHANGED <<active, modelVars, queue, consumer, filterVars, segment, open, flag, toCancel>>

Audio ==
  /\ ~flag
  /\ AudioBeforeCheck

(* The request is over: the next one, or the end of the sentence.          *)
NextRequest ==
  /\ open' = FALSE /\ audio' = 0 /\ pending' = FALSE
  /\ IF flag \/ segment = NumSegments
     THEN synthesis' = "over" /\ UNCHANGED segment
     ELSE synthesis' = "connect" /\ segment' = segment + 1

(* The response ends, or is left at the first event after a cancellation;  *)
(* a response without audio is an error.                                   *)
ResponseEnds ==
  /\ synthesis = "read"
  /\ \/ /\ pending /\ ~flag /\ synthesis' = "last" /\ heard' = heard + 1
        /\ UNCHANGED <<segment, pending, audio, open>>
     \/ /\ audio = 0 /\ ~flag /\ synthesis' = "error" /\ open' = FALSE
        /\ UNCHANGED <<segment, pending, audio, heard>>
     \/ flag /\ NextRequest /\ UNCHANGED heard
  /\ UNCHANGED <<active, modelVars, queue, consumer, filterVars, flag, toCancel>>

(* The pipeline asks for the next piece, or leaves when the turn is over.  *)
AskNext ==
  /\ synthesis \in {"yield", "last"}
  /\ IF ~active THEN synthesis' = "over" /\ open' = FALSE /\ UNCHANGED <<segment, pending, audio>>
     ELSE IF synthesis = "yield" THEN synthesis' = "read" /\ UNCHANGED <<segment, pending, audio, open>>
     ELSE NextRequest
  /\ UNCHANGED <<active, modelVars, queue, consumer, filterVars, heard, flag, toCancel>>

(* An event of the response cannot be read: not even an empty one is let   *)
(* pass with a wrong shape.                                                *)
Unreadable ==
  /\ synthesis = "read" /\ ~flag /\ synthesis' = "error" /\ open' = FALSE
  /\ UNCHANGED <<active, modelVars, queue, consumer, filterVars, segment, pending, audio, heard, flag, toCancel>>

(* A transport error, no piece within the time, or a piece that cannot be  *)
(* published or played.                                                    *)
SynthesisFails ==
  /\ synthesis \in {"connect", "read", "yield", "last"} /\ synthesis' = "error" /\ open' = FALSE
  /\ UNCHANGED <<active, modelVars, queue, consumer, filterVars, segment, pending, audio, heard, flag, toCancel>>

(* The generator is closed and the turn released.                          *)
SentenceDone ==
  /\ synthesis \in {"over", "error", "abort"} /\ synthesis' = "off" /\ flag' = FALSE
  /\ Goto(CASE synthesis = "error"  -> "failed"
            [] synthesis = "abort"  -> "aborted"
            [] consumer = "speak"   -> "get"
            [] OTHER                -> "returned")
  /\ UNCHANGED <<active, modelVars, queue, filterVars, segment, pending, audio, heard, open, toCancel>>

-----------------------------------------------------------------------------
(* The interruption: from then on the turn is not active, and both         *)
(* providers are told, in any order.                                       *)
Interrupt ==
  /\ active /\ active' = FALSE /\ toCancel' = toCancel \cup {"model", "synthesis"}
  /\ UNCHANGED <<modelVars, queue, consumer, filterVars, soundVars>>

CancelModel ==
  /\ "model" \in toCancel /\ toCancel' = toCancel \ {"model"}
  /\ IF registered THEN CancelProducer ELSE UNCHANGED <<producer, registered, queue>>
  /\ UNCHANGED <<active, sent, consumer, filterVars, soundVars>>

(* cancel() closes the response that it finds. Before the first response   *)
(* it cancels the task of the first request; after it, between two requests*)
(* it finds nothing and the next request goes out.                         *)
CancelSynthesis ==
  /\ "synthesis" \in toCancel /\ toCancel' = toCancel \ {"synthesis"}
  /\ CASE open -> flag' = TRUE /\ UNCHANGED synthesis
       [] ~open /\ synthesis = "connect" /\ heard = 0 -> flag' = TRUE /\ synthesis' = "abort"
       [] OTHER -> UNCHANGED <<flag, synthesis>>
  /\ UNCHANGED <<active, modelVars, queue, consumer, filterVars, segment, pending, audio, heard, open>>

(* The turn task itself is cancelled, wherever it waits. A turn that was   *)
(* interrupted and waits for the producer swallows it.                     *)
CancelTurn ==
  /\ "turn" \in toCancel /\ toCancel' = toCancel \ {"turn"}
  /\ CASE consumer = "get" -> Goto("aborted") /\ UNCHANGED <<modelVars, queue, soundVars>>
       [] consumer = "join" ->
            /\ Goto(IF active THEN "aborted" ELSE "join") /\ CancelProducer
            /\ UNCHANGED <<sent, soundVars>>
       [] Speaking /\ synthesis = "off" ->
            Goto("aborted") /\ UNCHANGED <<modelVars, queue, soundVars>>
       [] Speaking /\ synthesis # "off" ->
            /\ synthesis' = "abort" /\ open' = FALSE
            /\ UNCHANGED <<consumer, modelVars, queue, segment, pending, audio, heard, flag>>
       [] OTHER -> UNCHANGED <<consumer, modelVars, queue, soundVars>>
  /\ UNCHANGED <<active, filterVars>>

(* The provider of the model, or of the speech, is shut down below a turn  *)
(* that did not stop in time: what it knows is cancelled, what is open is  *)
(* closed, and what it was told before is forgotten.                       *)
ShutModel ==
  /\ "provider" \in toCancel /\ toCancel' = toCancel \ {"provider"}
  /\ IF registered THEN CancelProducer ELSE UNCHANGED <<producer, registered, queue>>
  /\ UNCHANGED <<active, sent, consumer, filterVars, soundVars>>

ShutSynthesis ==
  /\ "provider" \in toCancel /\ toCancel' = toCancel \ {"provider"}
  /\ open' = FALSE /\ flag' = FALSE
  /\ synthesis' = IF synthesis \in {"connect", "read"} /\ heard = 0 THEN "abort" ELSE synthesis
  /\ UNCHANGED <<active, modelVars, queue, consumer, filterVars, segment, pending, audio, heard>>

(* The consumer is done: a producer that still runs is cancelled.          *)
Finished ==
  /\ consumer \in {"returned", "failed", "aborted"} /\ Goto("done")
  /\ CancelProducer
  /\ UNCHANGED <<active, sent, filterVars, soundVars, toCancel>>

Next ==
  \/ Started \/ Token \/ StreamEnds \/ StreamFails \/ GeneratorClosed
  \/ TakeToken \/ TakeEnd \/ Joined
  \/ Claim \/ Connected \/ Audio \/ ResponseEnds \/ AskNext
  \/ Unreadable \/ SynthesisFails \/ SentenceDone
  \/ Interrupt \/ CancelModel \/ CancelSynthesis \/ CancelTurn
  \/ ShutModel \/ ShutSynthesis \/ Finished

Spec == Init /\ [][Next]_vars

-----------------------------------------------------------------------------
(* The turn task never waits for a queue that nobody will fill: a producer *)
(* that has ended, failed or been cancelled left something to wake it,     *)
(* wherever the interruption met it.                                       *)
ConsumerIsWoken ==
  consumer = "get" /\ producer \notin {"new", "read"} => queue # <<>>

(* Once cancel() of the synthesis has answered True, that sentence brings  *)
(* no more audio, though a piece was held back and the server may send on. *)
CancelSilences == [][flag => heard' <= heard]_vars

(* (Refuted.) A turn whose interruption has told both providers asks for   *)
(* no more speech.                                                         *)
NoRequestAfterCancel ==
  [][~active /\ toCancel \cap {"model", "synthesis"} = {} => ~(synthesis # "connect" /\ synthesis' = "connect")]_vars
=============================================================================
