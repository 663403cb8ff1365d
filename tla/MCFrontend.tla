----------------------------- MODULE MCFrontend -----------------------------
(***************************************************************************)
(* What a compilation does with the structure of a program: the lexer, the *)
(* parser, the analysis of type declarations, of types and of control      *)
(* flow.  They hand each other whole results, so a behaviour is one of one *)
(* of them on inputs of its own; the others stay as they are when nothing  *)
(* was read yet.                                                           *)
(***************************************************************************)
EXTENDS Parser

CONSTANT Limit

VARIABLES
    part,
    alphabet, text, lexed,
    typesDeclared, stage, typesKinds, mapKeys, typesReported, aggregates, structs,
    fProgram, fPhase, fGraph, fAt, fRan, fResult,
    tProgram, tPass, tBody

lexerVars == <<alphabet, text, lexed>>
parserVars == vars
typesVars == <<typesDeclared, stage, typesKinds, mapKeys, typesReported, aggregates, structs>>
flowVars == <<fProgram, fPhase, fGraph, fAt, fRan, fResult>>
typingVars == <<tProgram, tPass, tBody>>

-----------------------------------------------------------------------------
(* Inputs. *)

MCAlphabets == {
    {"0", "1", "_", ".", "e", "+"}, {"0", "1", "x", "b", "_", "."},
    {"a", "k", "1", ".", " ", "X", "0"},
    {"quote", "\\", "x", "0", "n", "newline"}, {"apostrophe", "\\", "b", "x", "1", "non-ascii"},
    {"/", "*", "newline", "a", "<"}, {"<", "=", ":", "+", ")", "."}}

MCLater == <<"fn", "id", "(", ")", "{", "}", "type", "id", "(", "int", ")", ";", "eof">>
Context(before, letters, after, limit) ==
    [before |-> before, alphabet |-> letters, after |-> after, limit |-> limit]
InBody(letters, limit) ==
    Context(<<"fn", "id", "(", ")", "{">>, letters, <<"}">>, limit)
InValue(letters, limit) ==
    Context(<<"fn", "id", "(", ")", "{", "id", ":=">>, letters, <<";", "}">>, limit)
InType(letters, limit) ==
    Context(<<"type", "id", "(">>, letters, <<")", ";">>, limit)
MCContexts == {
    InBody({"id", ";", "{", "}", "if", "else", ":"}, Limit),
    InBody({"id", "=", ";", "[", "]", ".", "("}, Limit),
    InBody({"id", "in", "for", "while", "{", "}", "break"}, Limit),
    InBody({"id", "switch", ":", "{", "}", "else", "return"}, Limit),
    InValue({"id", "{", "}", ":", ";", ",", "if"}, Limit),
    InValue({"id", "(", ")", "[", "]", ",", ":", "="}, Limit),
    InValue({"id", "is", "|", "&&", "<", "+", "?"}, Limit + 1),
    InValue({"id", "==", "<<", "*", "+", "!", "in"}, Limit + 1),
    InType({"id", "int", "|", "(", ")", "&", ","}, Limit),
    InType({"id", "[", "]", "{", "}", ":", "str"}, Limit),
    Context(<<>>, {"fn", "type", "id", "(", ")", "{", "}"}, <<"fn", "id", "(">>, Limit),
    Context(<<"fn", "id", "(">>, {"var", "id", "int", ")", "{", ":", ","}, <<"{", "}">>, Limit)}

TypeInputs == INSTANCE MCTypes WITH Programs <- {},
    declared <- typesDeclared, kinds <- typesKinds, reported <- typesReported
FlowInputs == INSTANCE MCFlow WITH Programs <- {},
    program <- fProgram, phase <- fPhase, graph <- fGraph, at <- fAt, ran <- fRan, result <- fResult
TypingInputs == INSTANCE MCTyping WITH Programs <- {},
    program <- tProgram, pass <- tPass, body <- tBody

-----------------------------------------------------------------------------
Lexer == INSTANCE Lexer WITH MaxLexErrors <- 2, MaxLength <- 5, Alphabets <- MCAlphabets
Layouts == INSTANCE Types WITH Programs <- TypeInputs!MCPrograms,
    declared <- typesDeclared, kinds <- typesKinds, reported <- typesReported
Flow == INSTANCE Flow WITH Programs <- FlowInputs!MCPrograms,
    program <- fProgram, phase <- fPhase, graph <- fGraph, at <- fAt, ran <- fRan, result <- fResult
Typing == INSTANCE Typing WITH Programs <- TypingInputs!MCPrograms,
    program <- tProgram, pass <- tPass, body <- tBody

NoText == alphabet = {} /\ text = <<>> /\ lexed = Lexer!Unread
NoTokens == context = <<>> /\ tokens = <<>> /\ phase = "" /\ result = <<>>
NoTypes ==
    /\ typesDeclared = <<>> /\ stage = "" /\ typesKinds = <<>> /\ mapKeys = {} /\ typesReported = {}
    /\ aggregates = <<>> /\ structs = <<>>
NoFlow == fProgram = <<>> /\ fPhase = "" /\ fGraph = <<>> /\ fAt = 0 /\ fRan = {} /\ fResult = ""
NoTyping == tProgram = <<>> /\ tPass = "" /\ tBody = <<>>

FrontendInit ==
    /\ part \in {"lexer", "parser", "types", "flow", "typing"}
    /\ IF part = "lexer" THEN Lexer!Init ELSE NoText
    /\ IF part = "parser" THEN Init ELSE NoTokens
    /\ IF part = "types" THEN Layouts!Init ELSE NoTypes
    /\ IF part = "flow" THEN Flow!Init ELSE NoFlow
    /\ IF part = "typing" THEN Typing!Init ELSE NoTyping

FrontendNext ==
    \/ part = "lexer" /\ Lexer!Next /\ UNCHANGED <<part, parserVars, typesVars, flowVars, typingVars>>
    \/ part = "parser" /\ Next /\ UNCHANGED <<part, lexerVars, typesVars, flowVars, typingVars>>
    \/ part = "types" /\ Layouts!Next /\ UNCHANGED <<part, lexerVars, parserVars, flowVars, typingVars>>
    \/ part = "flow" /\ Flow!Next /\ UNCHANGED <<part, lexerVars, parserVars, typesVars, typingVars>>
    \/ part = "typing" /\ Typing!Next /\ UNCHANGED <<part, lexerVars, parserVars, typesVars, flowVars>>

FrontendSpec ==
    FrontendInit /\ [][FrontendNext]_<<part, lexerVars, parserVars, typesVars, flowVars, typingVars>>

-----------------------------------------------------------------------------
\* Lexer: what is written is cut into the longest tokens there are.
LongestTokens == part = "lexer" => Lexer!LexerTypeOK /\ Lexer!LongestTokens

\* The parser reads what the grammar derives, its operators with the operands of
\* their levels.
ReadAsGrammar == part = "parser" => ParserTypeOK /\ GrammarAgreed /\ OperandsBind

\* An error hides no declaration that comes after it.
DeclarationsFound == part = "parser" => LaterDeclarationsFound

\* Types: definitions that are accepted have a layout, of what they refer to first.
AcceptedIsPlanned == part = "types" => Layouts!AcceptedIsPlanned /\ Layouts!BodiesLaidOut

\* Types: the tracer and the escape analysis agree on what holds a reference.
TracersAgree == part = "types" => Layouts!TracersAgree

\* Flow: the lowering and the flow summaries never contradict each other.
SummariesAgree == part = "flow" => Flow!FlowTypeOK /\ Flow!SummariesAgree
\* Flow: the summary of a body names the ways it ends, and no others; and what is
\* warned to be unreachable is not reached.
SummaryExact == part = "flow" => Flow!WarnedNeverRuns /\ Flow!SummaryExact

\* Typing: what one pass defers, the next decides as the rules decide it at once.
AnalysisAgrees == part = "typing" => Typing!TypingTypeOK /\ Typing!AnalysisAgrees
\* Typing: what is lowered fits the slots it goes to.
ResultsFit == part = "typing" => Typing!ResultsFit
=============================================================================
