------------------------------ MODULE MCStreams ------------------------------
(***************************************************************************)
(* Small instances of the modules about streams, checked together: a       *)
(* behaviour picks one part and runs that part alone.                      *)
(*   openai     a streamed completion of the Node.js server (NodeStreams)  *)
(*   anthropic  a streamed message of it (NodeStreams)                     *)
(*   sieve      an answer cut into text and tool calls (ToolSieve)         *)
(*   line       the body of a completion as it is read (LineStream)        *)
(*   answer     what the surfaces of ds2api write of it (AnswerStream)     *)
(***************************************************************************)
EXTENDS NodeStreams, LineStream, AnswerStream

CONSTANTS text1, think1, think2, SieveLength

VARIABLES document, given, sieve, blank, flushed   \* of ToolSieve

(* Documents of a call at most, words, fences, backticks and a tag that does *)
(* not end.                                                                 *)
Call == <<"lt", "gt", "inv", "close">>
Segments == {<<"t">>, <<"nl", "f", "nl">>, <<"lt">>, <<"b">>, Call}
Sieve == INSTANCE ToolSieve WITH
    Documents <- {FlattenSeq(d) : d \in {d \in [1 .. SieveLength -> Segments] :
                      /\ Cardinality({i \in DOMAIN d : d[i] = Call}) <= 1
                      /\ \A i \in 2 .. Len(d) : <<d[i - 1], d[i]>> # <<<<"b">>, <<"b">>>>}}

sieveVars == <<document, given, sieve, blank, flushed>>
allParts == <<part, nodeVars, sieveVars, readerVars, answerVars>>

SieveRests == document = <<>> /\ given = 0 /\ sieve = Sieve!NewSieve /\ blank = FALSE /\ flushed = FALSE
AnswerRests ==
    /\ surface = "gemini" /\ managed = FALSE /\ rt = NewGenerate(FALSE)
    /\ retries = 0 /\ moved = FALSE /\ gone = FALSE /\ loop = "consume"

PartInit ==
    /\ LineInit
    /\ \/ NodeInit /\ SieveRests /\ AnswerRests
       \/ part = "line" /\ AnthropicInit /\ SieveRests /\ AnswerRests
       \/ part = "sieve" /\ Sieve!SieveInit /\ AnthropicInit /\ AnswerRests
       \/ part = "answer" /\ AnswerInit /\ AnthropicInit /\ SieveRests

NodeStep(A) == A /\ UNCHANGED <<sieveVars, readerVars, answerVars>>
SieveStep == part = "sieve" /\ Sieve!SieveNext /\ UNCHANGED <<part, nodeVars, readerVars, answerVars>>
LineStep(A) == part = "line" /\ A /\ UNCHANGED <<part, nodeVars, sieveVars, answerVars>>
AnswerPart(A) == part = "answer" /\ A /\ UNCHANGED <<part, nodeVars, sieveVars, readerVars>>

PartNext == NodeStep(NodeNext) \/ SieveStep \/ LineStep(LineNext)
        \/ AnswerPart(AnswerNext)

(* The steps each module is fair to, for its part; they exclude each other. *)
Goes == NodeStep(NodeGoes) \/ LineStep(ConsumeSSE)

PartSpec == PartInit /\ [][PartNext]_allParts /\ WF_allParts(Goes)

-----------------------------------------------------------------------------
(* Once the body has stopped, a completion is ended and a message leaves its *)
(* loop (openai.js:274-275, 360, 435-437; anthropic.js:540-654); a Go        *)
(* handler leaves it whatever the body does (engine.go:84-139).             *)
StreamsEnd ==
    \/ part \in {"openai", "anthropic"} /\ body # "open"
    \/ part = "line"
    ~>
    \/ part = "openai" /\ phase = "ended"
    \/ part = "anthropic" /\ phase \in {"ended", "left"}
    \/ part = "line" /\ engine # "running"

(* However an answer is cut into chunks, nothing of it is lost, and fenced   *)
(* calls stay text (tool_sieve_core.go:5-165; see ToolSieve).               *)
SieveFaithful == part = "sieve" => Sieve!SieveFaithful

(* docs/toolcall-semantics.md:65: what stands in a code fence or a code span *)
(* is text (tool_sieve_state.go:50-56).                                     *)
CodeIsText == part = "sieve" => Sieve!CodeIsText

(* API.en.md:110, "terminated by `data: [DONE]`": a response that is ended  *)
(* without an error, for a client still there, ends with [DONE]             *)
(* (openai.js:348, 360).                                                    *)
CompletionDone == part = "openai" => TerminatedByDone

=============================================================================
