------------------------------ MODULE ToolLoop ------------------------------
(***************************************************************************)
(* One conversation of the reasoner (crates/cosmo-reason/src/lib.rs): the  *)
(* tool loop, the request and its stream (stream.rs for chat completions,  *)
(* anthropic.rs for the Messages API), and what the engine stores of it.   *)
(*                                                                         *)
(* Turns models how turns race for the reasoner; here one turn follows the *)
(* other, and the message list they build, send and store is kept message  *)
(* by message.  A turn works on `history`, its own copy of `stored`.       *)
(*                                                                         *)
(* Abstractions.  A text delta is the round it was streamed in.  A tool    *)
(* call is its tool and arguments (one name for both) and whether its      *)
(* arguments parse.  The provider is the environment: it answers in one    *)
(* piece, streams events in any order its protocol has, reports an error,  *)
(* cuts the stream off or falls silent.  Events that change nothing        *)
(* (usage, ping, thinking) are left out.                                   *)
(***************************************************************************)
EXTENDS Naturals, Sequences, SequencesExt

CONSTANTS
  Format,           \* wire formats in use: "chat", "messages"
  AllowCalls,       \* calls the gate allows
  HoldCalls,        \* calls it holds
  DenyCalls,        \* calls it denies
  LoopRounds,        \* MAX_ROUNDS
  MaxRepeats,       \* MAX_REPEATS
  Keep,             \* messages of the conversation the engine stores (20)
  MaxTurns,         \* bound: turns
  LoopCalls,         \* bound: calls the model makes in one turn
  MaxText           \* bound: text deltas in one response

Call == AllowCalls \cup HoldCalls \cup DenyCalls

\* The result of a call that did not run, and a result of an earlier turn.
NotRun == {"not_run", "bad_arguments", "denied", "held", "repeated", "earlier"}

ASSUME LoopAssumption ==
  /\ Format \subseteq {"chat", "messages"}
  /\ AllowCalls \cap HoldCalls = {} /\ DenyCalls \cap (AllowCalls \cup HoldCalls) = {}
  /\ Call \cap NotRun = {}
  /\ LoopRounds \in Nat /\ MaxRepeats \in Nat /\ Keep \in Nat
  /\ MaxTurns \in Nat /\ LoopCalls \in Nat /\ MaxText \in Nat

VARIABLES
  format,           \* the endpoint's wire format
  stored,           \* Engine::history
  turns,            \* turns begun
  loop,               \* what the turn waits for
  kept,          \* the turn's copy of the conversation
  rounds,           \* model round trips of this turn
  seen,             \* allowed calls of this turn, counted
  acc,              \* the stream's accumulator
  todo,             \* calls of the response not yet handled
  held,             \* a call of this response was parked
  heard             \* text passed to on_text in this turn

loopVars == <<format, stored, turns, loop, kept, rounds, seen, acc, todo, held, heard>>
convVars == <<format, stored, turns>>

LoopPC == {"idle", "ask", "sent", "stream", "calls", "tool", "reply", "held", "error"}
Reasons == {"tool_calls", "stop", "length", ""}
CallId == Nat \X Nat \X Nat     \* of a turn, a round, a place
ToolCall == [id : CallId, call : Call, good : BOOLEAN]
Empty == [text |-> <<>>, calls |-> <<>>, stop |-> "", started |-> FALSE, done |-> FALSE]

UserMessage == [role |-> "user"]
AssistantMessage(text, calls, stop) ==
  [role |-> "assistant", text |-> text, calls |-> [i \in DOMAIN calls |-> calls[i].id], stop |-> stop]
\* Of a call that ran the result names the call.
ToolResult(id, result) == [role |-> "tool", of |-> id, result |-> result]

LoopInit ==
  /\ format \in Format
  /\ stored = <<>> /\ turns = 0 /\ loop = "idle" /\ kept = <<>>
  /\ rounds = 0 /\ seen = [c \in Call |-> 0] /\ acc = Empty
  /\ todo = <<>> /\ held = FALSE /\ heard = <<>>

-----------------------------------------------------------------------------
(* The loop *)

BeginLoop ==
  /\ loop = "idle" /\ turns < MaxTurns
  /\ turns' = turns + 1
  /\ kept' = Append(stored, UserMessage)
  /\ rounds' = 1 /\ loop' = "ask"
  /\ UNCHANGED <<format, stored, seen, acc, todo, held, heard>>

\* The request goes out with the whole conversation; first_byte starts.
Send ==
  /\ loop = "ask" /\ rounds <= LoopRounds
  /\ loop' = "sent"
  /\ UNCHANGED <<convVars, kept, rounds, seen, acc, todo, held, heard>>

\* The round limit: the loop apologises instead of asking again.
GiveUp ==
  /\ loop = "ask" /\ rounds > LoopRounds
  /\ heard' = Append(heard, rounds)
  /\ kept' = Append(kept, AssistantMessage(<<rounds>>, <<>>, "stop"))
  /\ loop' = "reply"
  /\ UNCHANGED <<convVars, rounds, seen, acc, todo, held>>

\* A response is complete: the message is kept whatever its finish reason,
\* and only "tool_calls" and "stop" are followed.
Respond(text, calls, stop) ==
  /\ kept' = Append(kept, AssistantMessage(text, calls, stop))
  /\ todo' = IF stop = "tool_calls" THEN calls ELSE <<>>
  /\ loop' = CASE stop = "tool_calls" -> "calls"
             [] stop = "stop" -> "reply"
             [] OTHER -> "error"
  /\ acc' = Empty
  /\ UNCHANGED <<convVars, rounds, seen, held>>

Fail ==
  /\ loop' = "error" /\ acc' = Empty
  /\ UNCHANGED <<convVars, kept, rounds, seen, todo, held, heard>>

-----------------------------------------------------------------------------
(* One round trip *)

\* The connection fails, the status is an error, or the body is not JSON.
RequestFails == loop = "sent" /\ Fail

\* first_byte expires (or idle, on a body that is not a stream).
FirstByteTimeout == loop = "sent" /\ Fail

\* The i-th call of the response, its argument fragments joined: JSON, or cut
\* short or invented and not.
NewCall(i) == {[id |-> <<turns, rounds, i>>, call |-> c, good |-> g] : c \in Call, g \in BOOLEAN}

\* The user's message of this turn.
TurnStart(h) == CHOOSE i \in 1..Len(h) :
  /\ h[i].role = "user"
  /\ \A j \in (i + 1)..Len(h) : h[j].role # "user"

\* The calls of this turn's earlier responses.
Made == FoldLeft(LAMBDA n, m : IF m.role = "assistant" THEN n + Len(m.calls) ELSE n, 0,
                 SubSeq(kept, TurnStart(kept), Len(kept)))

\* The endpoint ignored stream: true and sent one JSON message.
WholeResponse ==
  /\ loop = "sent"
  /\ \E n \in 0..MaxText, stop \in Reasons, calls \in 
        {<<>>} \cup {<<c>> : c \in IF Made < LoopCalls THEN NewCall(1) ELSE {}} :
       LET text == [i \in 1..n |-> rounds] IN
       /\ heard' = heard \o text
       /\ Respond(text, calls, stop)

StreamStarts ==
  /\ loop = "sent" /\ loop' = "stream"
  /\ UNCHANGED <<convVars, kept, rounds, seen, acc, todo, held, heard>>

Feed(a) ==
  /\ loop = "stream" /\ acc' = a
  /\ UNCHANGED <<convVars, loop, kept, rounds, seen, todo, held>>

\* What the provider may send, in the order of its protocol: message_start
\* first (Messages API), text, the calls one by one, the finish reason.  A
\* delta before its block's start is an error of the stream (StreamBreaks).
Open == loop = "stream" /\ (acc.started \/ format = "chat") /\ acc.stop = "" /\ ~acc.done

MessageStart == format = "messages" /\ ~acc.started /\ Feed([acc EXCEPT !.started = TRUE]) /\ UNCHANGED heard

TextDelta ==
  /\ Open /\ acc.calls = <<>> /\ Len(acc.text) < MaxText
  /\ Feed([acc EXCEPT !.text = Append(@, rounds)])
  /\ heard' = Append(heard, rounds)

ToolCallDelta ==
  /\ Open /\ Made + Len(acc.calls) < LoopCalls
  /\ \E c \in NewCall(Len(acc.calls) + 1) : Feed([acc EXCEPT !.calls = Append(@, c)])
  /\ UNCHANGED heard

FinishReason ==
  /\ Open
  /\ \E r \in Reasons \ {""} : Feed([acc EXCEPT !.stop = r])
  /\ UNCHANGED heard

\* message_stop ([DONE] only decides the wording of an error)
Done == format = "messages" /\ acc.started /\ ~acc.done /\ Feed([acc EXCEPT !.done = TRUE]) /\ UNCHANGED heard

\* A chunk that does not parse, an error event, the connection lost.
StreamBreaks == loop = "stream" /\ Fail

IdleTimeout == loop = "stream" /\ Fail

\* What finish() asks of each format before it takes the message.
Finished ==
  IF format = "chat" THEN acc.stop # "" ELSE acc.started /\ acc.done

StreamEnds ==
  /\ loop = "stream"
  /\ \/ ~Finished /\ Fail
     \/ Finished /\ Respond(acc.text, acc.calls, acc.stop)
                 /\ UNCHANGED heard

-----------------------------------------------------------------------------
(* The calls of a response, in order *)

Result(c, result) ==
  /\ kept' = Append(kept, ToolResult(c.id, result))
  /\ todo' = Tail(todo)
  /\ UNCHANGED <<convVars, rounds, acc, heard>>

NextCall(c) == loop = "calls" /\ todo # <<>> /\ c = Head(todo)

\* After a hold nothing later in the response runs, but it gets a result.
AfterHold(c) ==
  /\ NextCall(c) /\ held
  /\ Result(c, "not_run") /\ UNCHANGED <<loop, seen, held>>

Unparsed(c) ==
  /\ NextCall(c) /\ ~held /\ ~c.good
  /\ Result(c, "bad_arguments") /\ UNCHANGED <<loop, seen, held>>

Deny(c) ==
  /\ NextCall(c) /\ ~held /\ c.good /\ c.call \in DenyCalls
  /\ Result(c, "denied") /\ UNCHANGED <<loop, seen, held>>

HoldCall(c) ==
  /\ NextCall(c) /\ ~held /\ c.good /\ c.call \in HoldCalls
  /\ Result(c, "held") /\ held' = TRUE /\ UNCHANGED <<loop, seen>>

\* An identical call is counted, refused ones too.
Count(c) == seen' = [seen EXCEPT ![c.call] = @ + 1]

Repeated(c) ==
  /\ NextCall(c) /\ ~held /\ c.good /\ c.call \in AllowCalls
  /\ seen[c.call] >= MaxRepeats
  /\ Count(c)
  /\ Result(c, "repeated") /\ UNCHANGED <<loop, held>>

Execute(c) ==
  /\ NextCall(c) /\ ~held /\ c.good /\ c.call \in AllowCalls
  /\ seen[c.call] < MaxRepeats
  /\ Count(c)
  /\ loop' = "tool"
  /\ UNCHANGED <<convVars, kept, rounds, acc, todo, held, heard>>

ToolReturns ==
  /\ loop = "tool"
  /\ loop' = "calls"
  /\ Result(Head(todo), Head(todo).call) /\ UNCHANGED <<seen, held>>

\* All calls have their result: a hold ends the turn, or the model is asked.
RoundEnds ==
  /\ loop = "calls" /\ todo = <<>>
  /\ \/ held /\ loop' = "held" /\ UNCHANGED rounds
     \/ ~held /\ loop' = "ask" /\ rounds' = rounds + 1
  /\ UNCHANGED <<convVars, kept, seen, acc, todo, held, heard>>

-----------------------------------------------------------------------------
(* The end of a turn, in the engine *)

\* Mutant: the tail is cut anywhere.
TailStartAnywhere(h) == IF Len(h) > Keep THEN Len(h) - Keep ELSE 0

\* tail_start: at most Keep messages, never opening on a tool result.
TailStart(h) ==
  LET from == IF Len(h) > Keep THEN Len(h) - Keep ELSE 0
  IN  CHOOSE s \in from..Len(h) :
        /\ \A i \in (from + 1)..s : h[i].role = "tool"
        /\ s = Len(h) \/ h[s + 1].role # "tool"

\* The turn's locals go with it.
Forget ==
  /\ loop' = "idle" /\ kept' = <<>> /\ rounds' = 0 /\ seen' = [c \in Call |-> 0]
  /\ acc' = Empty /\ todo' = <<>> /\ held' = FALSE /\ heard' = <<>>

\* Nothing depends on the words of an earlier turn: the model of the stored
\* conversation keeps its messages' roles, calls and ids.
Shape(m) == CASE m.role = "assistant" -> [m EXCEPT !.text = <<>>]
              [] m.role = "tool" -> [m EXCEPT !.result = "earlier"]
              [] OTHER -> m

\* Reply, hold or error: the turn's copy becomes the conversation.
KeepTail ==
  /\ loop \in {"reply", "held", "error"}
  /\ stored' = [i \in 1..(Len(kept) - TailStart(kept)) |-> Shape(kept[TailStart(kept) + i])]
  /\ Forget
  /\ UNCHANGED <<format, turns>>

\* A newer turn barged in: dropped where it stands, its copy forgotten.
CancelLoop ==
  /\ loop \in {"sent", "stream", "tool"}
  /\ Forget
  /\ UNCHANGED convVars

HandleCall == \E c \in ToSet(todo) :
  AfterHold(c) \/ Unparsed(c) \/ Deny(c) \/ HoldCall(c) \/ Repeated(c) \/ Execute(c)

Event == MessageStart \/ TextDelta \/ ToolCallDelta \/ FinishReason \/ Done

LoopNext ==
  \/ BeginLoop \/ Send \/ GiveUp
  \/ RequestFails \/ FirstByteTimeout \/ WholeResponse \/ StreamStarts
  \/ Event \/ StreamBreaks \/ IdleTimeout \/ StreamEnds
  \/ HandleCall \/ ToolReturns \/ RoundEnds
  \/ KeepTail \/ CancelLoop

LoopSpec == LoopInit /\ [][LoopNext]_loopVars

-----------------------------------------------------------------------------
(* Properties *)

Message == [role : {"user"}]
           \cup [role : {"assistant"}, text : Seq(Nat), calls : Seq(CallId), stop : Reasons]
           \cup [role : {"tool"}, of : CallId,
                 result : NotRun \cup AllowCalls]

\* The variables have their types, and a turn never asks the model more often
\* than MAX_ROUNDS allows.
LoopTypeOK ==
  /\ format \in Format /\ turns \in 0..MaxTurns /\ loop \in LoopPC
  /\ stored \in Seq(Message) /\ Len(stored) <= Keep
  /\ kept \in Seq(Message)
  /\ rounds \in 0..(LoopRounds + 1)
  /\ loop \in {"sent", "stream", "tool"} => rounds <= LoopRounds
  /\ seen \in [Call -> Nat] /\ held \in BOOLEAN
  /\ acc \in [text : Seq(Nat), calls : Seq(ToolCall), stop : Reasons,
               started : BOOLEAN, done : BOOLEAN]
  /\ todo \in Seq(ToolCall) /\ heard \in Seq(Nat)

\* Each of the calls of message i has its one result, directly after it.
Answered(h, i) == \A k \in 1..Len(h[i].calls) :
  i + k <= Len(h) /\ h[i + k].role = "tool" /\ h[i + k].of = h[i].calls[k]

\* Each tool result answers a call of the assistant message before it.
NoOrphan(h) == \A i \in 1..Len(h) : h[i].role = "tool" =>
  \E j \in 1..(i - 1) : /\ h[j].role = "assistant" /\ i - j <= Len(h[j].calls)
                        /\ h[j].calls[i - j] = h[i].of

Conversations == {stored} \cup (IF loop = "ask" THEN {kept} ELSE {})

\* The conversation the model is sent, and the tail that is stored, always
\* hold the one result of every call the loop took up, in order, and no result
\* without its call: whatever was refused, malformed, held or repeated, and
\* wherever the tail was cut (lib.rs:283, engine.rs:105).  A response with calls
\* that ended otherwise (a cut at max_tokens) leaves its calls unanswered.
ConversationIsAnswerable == \A h \in Conversations :
  /\ NoOrphan(h)
  /\ \A i \in 1..Len(h) : h[i].role = "assistant" /\ h[i].stop = "tool_calls" => Answered(h, i)

\* What a turn has said with message m, and what it had said before it.
SaidWith(before, m) ==
  CASE m.role = "user" -> <<>>
    [] m.role = "assistant" -> before \o m.text
    [] OTHER -> before

\* The text of the assistant's messages since the last user message.
SpokenBy(h) ==
  LET said[i \in 0..Len(h)] == IF i = 0 THEN <<>> ELSE SaidWith(said[i - 1], h[i])
  IN  said[Len(h)]

\* A turn that ends with a reply or a hold has spoken exactly the text the
\* conversation now holds for it, in that order: streamed, in one piece, or
\* the loop's own apology.
SpokenIsRemembered == loop \in {"reply", "held"} => heard = SpokenBy(kept)

\* The places of the conversation with the result of a call that ran.
Ran(h) == {i \in 1..Len(h) : h[i].role = "tool" /\ h[i].result \in AllowCalls}

\* Within one turn the same call runs at most MAX_REPEATS times, over all its
\* rounds, and nothing runs once a call of the turn waits for the user.
TurnIsBounded ==
  loop # "idle" =>
    /\ \A c \in Call :
         Cardinality({i \in Ran(kept) : i > TurnStart(kept) /\ kept[i].result = c}) <= MaxRepeats
    /\ \A i \in Ran(kept) : \A j \in TurnStart(kept)..(i - 1) :
         ~(kept[j].role = "tool" /\ kept[j].result = "held")

\* What the tool loop sends and keeps is a conversation a provider accepts, what was
\* spoken of a turn is what it remembers of it, and no turn asks, repeats or goes on
\* past its bounds (cosmo-reason lib.rs, engine.rs).
LoopSafe ==
  LoopTypeOK /\ TurnIsBounded /\ ConversationIsAnswerable /\ SpokenIsRemembered

=============================================================================
