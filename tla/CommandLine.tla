---------------------------- MODULE CommandLine ----------------------------
(***************************************************************************)
(* The arguments of the `sao2` command (cli.rs).  A command line is a      *)
(* sequence of words; Parse gives the request it stands for, or a usage    *)
(* error.                                                                  *)
(***************************************************************************)
EXTENDS Integers, Sequences, SequencesExt

ShowC == "--show-c"
Delimiter == "--"

UsageError == [kind |-> "usage"]
Help == [kind |-> "help"]

\* What the user asked for: which source, whether to show the C, and the
\* arguments of the program to run.
Request(kind, source, showC, arguments) ==
    [kind |-> kind, source |-> source, showC |-> showC, arguments |-> arguments]

NotShowC(word) == word /= ShowC

\* The words in front of the delimiter are options, all others are not.
OptionWords(words) ==
    LET delimiter == SelectInSeq(words, LAMBDA w : w = Delimiter)
    IN  IF delimiter = 0 THEN words ELSE SubSeq(words, 1, delimiter - 1)

\* Mutation: --show-c behind the source is passed on to the program.
ArgumentsAsGiven(words, position) ==
    LET end == Len(OptionWords(words))
    IN  IF end < Len(words) THEN SubSeq(words, end + 2, Len(words))
        ELSE SubSeq(words, position + 1, Len(words))

\* The program's arguments: what stands behind the delimiter, or what stands
\* behind the source without the --show-c that was counted as an option, of
\* which there is at most one.
\* Words between the source and the delimiter are in neither.
Arguments(words, position) ==
    LET end == Len(OptionWords(words))
    IN  IF end < Len(words) THEN SubSeq(words, end + 2, Len(words))
        ELSE RemoveFirst(SubSeq(words, position + 1, Len(words)), ShowC)

\* cli::parse for `build` and `run`.  The source is looked for among the
\* options, so that it always stands before the delimiter.
CompileRequest(kind, words) ==
    LET options  == OptionWords(words)
        shows    == {i \in DOMAIN options : options[i] = ShowC}
        others   == DOMAIN options \ shows
        position == SelectInSeq(options, NotShowC)
    IN  IF \/ \E i, j \in shows : i /= j
           \/ others = {}
           \/ kind = "build" /\ (options /= words \/ others /= {position})
        THEN UsageError
        ELSE Request(kind, words[position], shows /= {},
                     IF kind = "build" THEN <<>> ELSE Arguments(words, position))

Parse(line) ==
    CASE line = <<>> -> UsageError
      [] line /= <<>> /\ Head(line) \in {"--help", "-h"} ->
            IF Len(line) = 1 THEN Help ELSE UsageError
      [] line /= <<>> /\ Head(line) \in {"build", "run"} ->
            CompileRequest(Head(line), Tail(line))
      [] OTHER -> UsageError

-----------------------------------------------------------------------------
\* What the usage text says, the other way round: the lines that spell a
\* request.  --show-c may stand before or behind the source, once.
Shown(words, showC) ==
    IF showC THEN {InsertAt(words, i, ShowC) : i \in 1..Len(words) + 1} ELSE {words}

Spells(line, request) ==
    IF request.kind = "help" THEN line \in {<<"--help">>, <<"-h">>}
    ELSE LET words == <<request.source>> \o request.arguments
         IN  /\ request.source \notin {ShowC, Delimiter}
             /\ \/ /\ \A i \in DOMAIN request.arguments :
                          request.arguments[i] \notin {ShowC, Delimiter}
                   /\ request.kind = "build" => request.arguments = <<>>
                   /\ \E w \in Shown(words, request.showC) : line = <<request.kind>> \o w
                \/ /\ request.kind = "run"
                   /\ \E w \in Shown(<<request.source>>, request.showC) :
                          line = <<"run">> \o w \o <<Delimiter>> \o request.arguments

\* The line without the words that stand between the source and a delimiter.
WithoutLost(line) ==
    LET options == OptionWords(Tail(line))
        position == SelectInSeq(options, NotShowC)
    IN  IF options = Tail(line) \/ position = 0 THEN line
        ELSE <<Head(line)>> \o SubSeq(options, 1, position)
             \o (IF \E i \in position + 1..Len(options) : options[i] = ShowC THEN <<ShowC>> ELSE <<>>)
             \o SubSeq(Tail(line), Len(options) + 1, Len(line) - 1)
=============================================================================
