------------------------------- MODULE Lexer -------------------------------
(***************************************************************************)
(* The lexer (lexer.rs): how a text is cut into tokens, and where it goes  *)
(* on behind an error.  A character stands for its class; a token is its   *)
(* kind and its extent.  Keywords are the word "k"; the escapes of quoted  *)
(* literals are a known one, "n", one with two digits, "x", and others.    *)
(***************************************************************************)
EXTENDS Integers, Sequences, FiniteSets, SequencesExt

CONSTANTS
    MaxLexErrors,    \* MAX_SOURCE_ERRORS
    Alphabets,       \* sets of characters to write texts with
    MaxLength        \* of a text

VARIABLES
    alphabet,
    text,
    lexed            \* the tokens and errors, once the text is complete

vars == <<alphabet, text, lexed>>

Unread == [tokens |-> <<>>, errors |-> 0, at |-> 0]

Blank == {" ", "newline"}
Digits == {"0", "1"}
HexDigits == Digits \cup {"b", "e"}
Letters == {"a", "b", "e", "k", "n", "x", "X"}
WordStart == Letters \cup {"_"}
WordContinue == WordStart \cup Digits
RadixDigits(radix) == CASE radix = 2 -> Digits [] radix = 10 -> Digits [] radix = 16 -> HexDigits

At(i) == IF i <= Len(text) THEN text[i] ELSE "end"
StartsWith(i, s) == \A k \in DOMAIN s : At(i + k - 1) = s[k]

\* The first position from i on whose character is not one of these.
Past(i, characters) ==
    CHOOSE j \in i..Len(text) + 1 :
        At(j) \notin characters /\ \A k \in i..(j - 1) : At(k) \in characters

\* The first position behind a character of these, or the end.
Behind(i, characters) ==
    CHOOSE j \in i..Len(text) + 1 :
        /\ j = Len(text) + 1 \/ (j > i /\ At(j - 1) \in characters)
        /\ \A k \in i..(j - 2) : At(k) \notin characters

LineEnd(i) ==
    CHOOSE j \in i..Len(text) + 1 :
        At(j) \in {"newline", "end"} /\ \A k \in i..(j - 1) : At(k) /= "newline"

Token(l, kind, end) ==
    [l EXCEPT !.tokens = Append(@, [kind |-> kind, start |-> l.at, end |-> end]), !.at = end]
LexError(l, end) ==
    [l EXCEPT !.errors = IF @ < MaxLexErrors THEN @ + 1 ELSE @, !.at = end]
LastKind(l) == IF l.tokens = <<>> THEN "none" ELSE Last(l.tokens).kind

-----------------------------------------------------------------------------
\* skip_trivia: blanks and comments, in any order; a block comment that does
\* not end is an error.
RECURSIVE SkipTrivia(_)
SkipTrivia(l) ==
    LET i == Past(l.at, Blank)
        closed == {j \in i + 2..Len(text) - 1 : StartsWith(j, <<"*", "/">>)}
    IN  IF StartsWith(i, <<"/", "/">>)
        THEN SkipTrivia([l EXCEPT !.at = LineEnd(i)])
        ELSE IF StartsWith(i, <<"/", "*">>)
        THEN IF closed = {} THEN LexError(l, Len(text) + 1)
             ELSE SkipTrivia([l EXCEPT !.at = 2 + CHOOSE j \in closed : \A k \in closed : j <= k])
        ELSE [l EXCEPT !.at = i]

Word(l) ==
    LET end == Past(l.at, WordContinue)
    IN  Token(l, IF SubSeq(text, l.at, end - 1) = <<"k">> THEN "keyword" ELSE "identifier", end)

\* consume_digits: where the digits and separators end, and whether every
\* separator stands between two digits.
DigitsEnd(i, radix) == Past(i, RadixDigits(radix) \cup {"_"})

\* Mutation: only the digit behind a separator is asked for.
SeparatedAfter(i, radix) ==
    \A j \in i..(DigitsEnd(i, radix) - 1) : At(j) = "_" => At(j + 1) \in RadixDigits(radix)

Separated(i, radix) ==
    \A j \in i..(DigitsEnd(i, radix) - 1) :
        At(j) = "_" => /\ j > i /\ At(j - 1) \in RadixDigits(radix)
                       /\ At(j + 1) \in RadixDigits(radix)

\* lex_based_integer, with all that sticks to it.
BasedInteger(l, radix) ==
    LET end == DigitsEnd(l.at + 2, radix)
        stuck == Past(end, WordContinue)
    IN  IF end > l.at + 2 /\ stuck = end /\ Separated(l.at + 2, radix)
        THEN Token(l, "integer", end)
        ELSE LexError(l, stuck)

\* Behind a dot a number is the index of a tuple member; otherwise a
\* fraction and an exponent may follow.
DecimalNumber(l) ==
    LET whole == DigitsEnd(l.at, 10)
        fraction == At(whole) = "." /\ At(whole + 1) \in Digits
        mantissa == IF fraction THEN DigitsEnd(whole + 1, 10) ELSE whole
        exponent == At(mantissa) = "e"
        power == IF At(mantissa + 1) = "+" THEN mantissa + 2 ELSE mantissa + 1
        end == IF exponent THEN DigitsEnd(power, 10) ELSE mantissa
        valid == /\ Separated(l.at, 10)
                 /\ fraction => Separated(whole + 1, 10)
                 /\ exponent => Separated(power, 10)
    IN  IF LastKind(l) = "." THEN
            IF Separated(l.at, 10) THEN Token(l, "integer", whole) ELSE LexError(l, whole)
        ELSE IF At(whole) = "." /\ ~ fraction /\ At(whole + 1) \notin WordStart
        THEN LexError(l, whole + 1)
        ELSE IF exponent /\ At(power) \notin Digits THEN LexError(l, power)
        ELSE IF ~ valid THEN LexError(l, end)
        ELSE Token(l, IF fraction \/ exponent THEN "float" ELSE "integer", end)

\* lex_number.  A prefix decides on the base, but not an uppercase one.
Number(l) ==
    CASE StartsWith(l.at, <<"0", "X">>) -> LexError(l, Past(l.at + 2, WordContinue))
      [] StartsWith(l.at, <<"0", "x">>) -> BasedInteger(l, 16)
      [] StartsWith(l.at, <<"0", "b">>) -> BasedInteger(l, 2)
      [] OTHER -> DecimalNumber(l)

\* dot_can_be_member_access.
Operands == {"identifier", "integer", "float", "string", "character", ")"}

\* decode_escape: where it ends, and whether it is one.
EscapeEnd(i) ==
    IF At(i + 1) = "end" THEN i + 1
    ELSE IF At(i + 1) /= "x" THEN i + 2
    ELSE IF At(i + 2) \notin HexDigits THEN i + 2
    ELSE IF At(i + 3) \notin HexDigits THEN i + 3
    ELSE i + 4
EscapeValid(i) ==
    IF At(i + 1) = "x" THEN At(i + 2) \in Digits /\ At(i + 3) \in HexDigits   \* at most 0x7f
    ELSE At(i + 1) \in {"\\", "quote", "apostrophe", "n", "0"}

\* The loop of lex_string and lex_character at i, with what has been decoded.
\* A line break ends a literal; the recovery then looks for the quote or for
\* the end of the next line.
RECURSIVE Quoted(_, _, _, _, _)
Quoted(l, quote, i, count, valid) ==
    CASE At(i) = "end" -> LexError(l, i)
      [] At(i) = quote ->
            IF ~ valid THEN [l EXCEPT !.at = i + 1]
            ELSE IF quote = "quote" THEN Token(l, "string", i + 1)
            ELSE IF count = 1 THEN Token(l, "character", i + 1)
            ELSE LexError(l, i + 1)
      [] At(i) = "newline" -> LexError(l, Behind(i + 1, {quote, "newline"}))
      [] At(i) = "\\" ->
            IF EscapeValid(i) THEN Quoted(l, quote, EscapeEnd(i), count + 1, valid)
            ELSE IF EscapeEnd(i) > Len(text) THEN LexError(l, EscapeEnd(i))
            ELSE Quoted([LexError(l, EscapeEnd(i)) EXCEPT !.at = l.at], quote, EscapeEnd(i), count, FALSE)
      [] At(i) = "non-ascii" ->
            Quoted([LexError(l, i + 1) EXCEPT !.at = l.at], quote, i + 1, count, FALSE)
      [] OTHER -> Quoted(l, quote, i + 1, count + 1, valid)

\* lex_symbol_or_error, the longest symbol first.
Symbols == {<<"<", "<", "=">>, <<"<", "<">>, <<"<", "=">>, <<"=", "=">>, <<":", "=">>,
            <<"<">>, <<"=">>, <<":">>, <<"+">>, <<"+", "=">>, <<"*">>, <<"/">>, <<".">>, <<")">>}
Symbol(l) ==
    LET found == {s \in Symbols : StartsWith(l.at, s)}
        longest == CHOOSE s \in found : \A t \in found : Len(t) <= Len(s)
    IN  IF found = {} THEN LexError(l, l.at + 1)
        ELSE Token(l, FoldLeft(\o, "", longest), l.at + Len(longest))

\* One token, or one error; a dot and a digit are an error unless a value, of
\* which they can be a member, stands in front of them.
One(l) ==
    CASE At(l.at) \in WordStart -> Word(l)
      [] At(l.at) \in Digits -> Number(l)
      [] At(l.at) \in {"quote", "apostrophe"} -> Quoted(l, At(l.at), l.at + 1, 0, TRUE)
      [] At(l.at) = "." /\ At(l.at + 1) \in Digits /\ LastKind(l) \notin Operands ->
            LexError(l, DigitsEnd(l.at + 1, 10))
      [] OTHER -> Symbol(l)

RECURSIVE Lex(_)
Lex(l) ==
    LET skipped == SkipTrivia(l)
    IN  IF l.at > Len(text) \/ l.errors = MaxLexErrors THEN l
        ELSE IF skipped.at /= l.at THEN Lex(skipped)
        ELSE Lex(One(l))

-----------------------------------------------------------------------------
\* The tokens of GRAMMAR.ebnf, as languages, and a text cut into the longest
\* ones: what the lexer is compared with.
Numeral(s, radix) ==
    /\ s /= <<>>
    /\ s[1] \in RadixDigits(radix) /\ s[Len(s)] \in RadixDigits(radix)
    /\ \A i \in DOMAIN s : s[i] \in RadixDigits(radix) \/ (s[i] = "_" /\ s[i + 1] /= "_")
Split(s, i) == <<SubSeq(s, 1, i), SubSeq(s, i + 1, Len(s))>>
Integer(s) ==
    \/ Numeral(s, 10)
    \/ Len(s) > 2 /\ Split(s, 2)[1] = <<"0", "x">> /\ Numeral(Split(s, 2)[2], 16)
    \/ Len(s) > 2 /\ Split(s, 2)[1] = <<"0", "b">> /\ Numeral(Split(s, 2)[2], 2)
Exponent(s) ==
    /\ Len(s) > 1 /\ s[1] = "e"
    /\ Numeral(Split(s, 1)[2], 10) \/ (s[2] = "+" /\ Numeral(Split(s, 2)[2], 10))
Fraction(s) ==
    \E i \in DOMAIN s : s[i] = "." /\ Numeral(SubSeq(s, 1, i - 1), 10) /\ Numeral(Split(s, i)[2], 10)
Float(s) ==
    \/ Fraction(s)
    \/ \E i \in DOMAIN s : /\ Fraction(Split(s, i)[1]) \/ Numeral(Split(s, i)[1], 10)
                           /\ Exponent(Split(s, i)[2])
Escapes ==
    {<<"\\", c>> : c \in {"\\", "quote", "apostrophe", "n", "0"}}
    \cup {<<"\\", "x", h, d>> : h \in Digits, d \in HexDigits}
RECURSIVE Characters(_, _)
Characters(s, quote) ==      \* how many are in s, or -1
    IF s = <<>> THEN 0
    ELSE LET first == {c \in Escapes : Len(c) <= Len(s) /\ SubSeq(s, 1, Len(c)) = c}
             length == IF s[1] = "\\" /\ first /= {} THEN Len(CHOOSE c \in first : TRUE) ELSE 1
             rest == Characters(Split(s, length)[2], quote)
         IN  IF \/ s[1] \in {quote, "newline", "non-ascii"}
                \/ s[1] = "\\" /\ first = {}
                \/ rest < 0
             THEN -1 ELSE 1 + rest
Literal(s, quote, counts) ==
    /\ Len(s) > 1 /\ s[1] = quote /\ s[Len(s)] = quote
    /\ Characters(SubSeq(s, 2, Len(s) - 1), quote) \in counts

KindOf(s, afterDot) ==
    CASE s[1] \in WordStart /\ (\A i \in DOMAIN s : s[i] \in WordContinue) ->
            IF s = <<"k">> THEN "keyword" ELSE "identifier"
      [] Integer(s) -> "integer"
      [] ~ afterDot /\ Float(s) -> "float"
      [] Literal(s, "quote", 0..Len(s)) -> "string"
      [] Literal(s, "apostrophe", {1}) -> "character"
      [] s \in Symbols -> FoldLeft(\o, "", s)
      [] OTHER -> "none"

RECURSIVE Longest(_, _)
Longest(i, tokens) ==        \* with the tokens from i on; none on an error
    LET afterDot == tokens /= <<>> /\ Last(tokens).kind = "."
        ends == {j \in i..Len(text) : KindOf(SubSeq(text, i, j), afterDot) /= "none"}
        end == CHOOSE j \in ends : \A k \in ends : k <= j
        from == SkipTrivia([Unread EXCEPT !.at = i])
    IN  IF from.errors > 0 THEN {}
        ELSE IF from.at > i THEN Longest(from.at, tokens)
        ELSE IF i > Len(text) THEN {tokens}
        ELSE IF ends = {} THEN {}
        ELSE Longest(end + 1, Append(tokens,
                [kind |-> KindOf(SubSeq(text, i, end), afterDot), start |-> i, end |-> end + 1]))

\* Where the lexer is stricter: nothing sticks to a number, and a dot in front
\* of a digit needs a value in front of it.
Tidy(tokens) ==
    \A i \in DOMAIN tokens :
        /\ tokens[i].kind \in {"integer", "float"} =>
               At(tokens[i].end) \notin WordContinue \cup {"."}
        /\ tokens[i].kind = "." /\ At(tokens[i].end) \in Digits =>
               i > 1 /\ tokens[i - 1].kind \in Operands

-----------------------------------------------------------------------------
Init ==
    /\ alphabet \in Alphabets
    /\ text = <<>>
    /\ lexed = Unread

Write ==
    /\ lexed = Unread
    /\ Len(text) < MaxLength
    /\ \E c \in alphabet : text' = Append(text, c)
    /\ UNCHANGED <<alphabet, lexed>>

Scan ==
    /\ lexed = Unread
    /\ lexed' = Lex([Unread EXCEPT !.at = 1])
    /\ UNCHANGED <<alphabet, text>>

Next == Write \/ Scan

Spec == Init /\ [][Next]_vars

-----------------------------------------------------------------------------
\* The variables have the types of their comments, and the lexer reads a text
\* to its end unless it has too many errors.
LexerTypeOK ==
    /\ alphabet \in Alphabets
    /\ text \in Seq(alphabet)
    /\ lexed.errors \in 0..MaxLexErrors
    /\ \A i \in DOMAIN lexed.tokens : lexed.tokens[i].start < lexed.tokens[i].end
    /\ lexed /= Unread => lexed.at = Len(text) + 1 \/ lexed.errors = MaxLexErrors

\* lexer.rs:92-698 against GRAMMAR.ebnf - a text that is accepted is cut into
\* the longest tokens of the grammar, and one that can be cut so, with nothing
\* stuck to its numbers, is accepted.
LongestTokens ==
    lexed /= Unread =>
        LET cut == Longest(1, <<>>)
        IN  /\ lexed.errors = 0 => cut = {lexed.tokens}
            /\ \A tokens \in cut : Tidy(tokens) => lexed.errors = 0
=============================================================================
