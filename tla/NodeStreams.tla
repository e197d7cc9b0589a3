----------------------------- MODULE NodeStreams -----------------------------
(***************************************************************************)
(* The two streamed answers of the Node.js server together, over the same  *)
(* event stream: a behaviour picks one surface and streams one answer.     *)
(*   openai     a streamed completion (OpenAIStream)                       *)
(*   anthropic  a streamed message (AnthropicStream)                       *)
(***************************************************************************)
EXTENDS OpenAIStream

VARIABLES part, block, open   \* block and open of AnthropicStream

Anthropic == INSTANCE AnthropicStream

nodeVars == <<vars, block, open>>

OpenAIInit == Init /\ block = 0 /\ open = FALSE
AnthropicInit == Anthropic!Init /\ clientGone = FALSE

NodeInit ==
    \/ part = "openai" /\ OpenAIInit
    \/ part = "anthropic" /\ AnthropicInit

OpenAIStep(A) == part = "openai" /\ A /\ UNCHANGED <<part, block, open>>
AnthropicStep(A) == part = "anthropic" /\ A /\ UNCHANGED <<part, clientGone>>

NodeNext == OpenAIStep(Next) \/ AnthropicStep(Anthropic!Next)

(* The steps each handler is fair to; they exclude each other. *)
NodeGoes == \/ OpenAIStep(Handler \/ RepairAnswers)
            \/ AnthropicStep(Anthropic!Handler \/ Anthropic!RepairAnswers)

NodeSpec == NodeInit /\ [][NodeNext]_<<part, nodeVars>> /\ WF_<<part, nodeVars>>(NodeGoes)

-----------------------------------------------------------------------------
(* The order and the whole of a streamed completion (openai.js:262-349,     *)
(* chat.js:358-399; see OpenAIStream).                                      *)
CompletionOrder == part = "openai" => TypeOK /\ StreamOrder
CompletionWhole == part = "openai" => WholeText

(* The numbering and nesting of the blocks of a streamed message, and its   *)
(* stop reason (anthropic.js:524-654; see AnthropicStream).                 *)
BlockProtocol == part = "anthropic" =>
    Anthropic!TypeOK /\ Anthropic!BlockProtocol /\ Anthropic!StopMatchesBlocks

=============================================================================
