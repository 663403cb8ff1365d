----------------------------- MODULE Narrowing -----------------------------
(***************************************************************************)
(* Flow narrowing of one variable of a union type: inside "if x is A" the  *)
(* checker (semantic.rs) gives x the type of A's payload, and the lowering *)
(* (lowering.rs) reads it from a temporary into which the payload was      *)
(* copied where the test succeeded.  Both passes walk the statements once, *)
(* in source order; a program here grows construct by construct while they *)
(* do, and is then executed.                                               *)
(*                                                                         *)
(* A program is a sequence of tokens: what opens a statement, what starts  *)
(* another branch of it, and what ends it.  An expression that reads x may *)
(* stand wherever a token stands, so no token is spent on it.              *)
(***************************************************************************)
EXTENDS Integers, Sequences, FiniteSets

CONSTANTS
  Alternatives,   \* the alternatives of the union
  ValuesOf,       \* the values that x may have in each of them
  Tested,         \* the alternative that tests are about
  Opaque,         \* a condition that says nothing of x, and no narrowing
  MaxTokens       \* bound on the length of a program

NarrowingAssumption ==
  /\ Tested \in Alternatives /\ Opaque \notin Alternatives
  /\ Cardinality(Alternatives) = 2
  /\ \A a, b \in Alternatives :
       ValuesOf[a] # {} /\ (a # b => ValuesOf[a] \cap ValuesOf[b] = {})
  /\ MaxTokens \in Nat

VARIABLES
  program, notes,  \* its tokens, and what the passes noted at each of them
  narrowed,        \* SemanticAnalyzer.narrowed: the alternative x is narrowed to
  narrowings,      \* FunctionLowerer.narrowings: the alternative and the temporary
  frames,          \* the statements both passes are inside of
  carried, hidden, \* history: whether some assignment is one described below
  stage, at, outside, \* execution: the next token, and whether past the body before it
  x, payload          \* the variable, and the temporary of each token

compilation == <<program, notes, narrowed, narrowings, frames, carried, hidden>>
vars == <<compilation, stage, at, outside, x, payload>>

Values == UNION {ValuesOf[a] : a \in Alternatives}
Other == CHOOSE a \in Alternatives : a # Tested
Unknown == [type |-> Opaque, local |-> 0]

Loops == {"while", "for"}
Openings == {"if", "value", "switch", "while", "for", "block"}
Branches == {"elif", "else", "arm"}
Exits == {"break", "continue", "return"}

Top == frames[Len(frames)]
InFrame(kinds) == Top.kind \in kinds

\* A switch needs every alternative or an else, an if expression an else.
Incomplete(fs) == {n \in DOMAIN fs : fs[n].kind \in {"switch", "value"} /\ ~fs[n].complete}
Fits(fs) == Len(program') + Len(fs) - 1 + Cardinality(Incomplete(fs)) <= MaxTokens

-----------------------------------------------------------------------------
(* The passes. *)

\* The identifier's type is the narrowing; its temporary is used if it has that type.
Noted(kind, test, type, origin) ==
  /\ program' = Append(program, [kind |-> kind, test |-> test])
  /\ notes' = Append(notes,
       [type |-> type, next |-> 0, origin |-> origin,
        local |-> IF narrowings.type = type THEN narrowings.local ELSE 0])

Here == Len(program) + 1
\* A failed test goes to the branch that follows, or to the end of the statement.
LinkFrom(p, ns) == [ns EXCEPT ![p].next = Here]

\* A statement is added where the one before may fall through to it.
Reached == stage = "compiling" /\ Top.falls

\* What is known inside a body behind a test.
SemanticInside(test, outer) == IF test \in Alternatives THEN test ELSE outer
LoweredInside(test, outer) ==
  IF test \in Alternatives THEN [type |-> test, local |-> Here] ELSE outer

Frame(kind) ==
  [kind |-> kind, start |-> Here, branch |-> Here,
   outer |-> narrowed, lowered |-> narrowings,
   complete |-> FALSE,     \* it has an else, or an arm for every alternative
   assigned |-> FALSE,     \* the body under way assigns x directly
   falls |-> TRUE,         \* statement_body_may_fallthrough of it so far
   assigns |-> FALSE,      \* some earlier body assigns x
   removes |-> FALSE,      \* some earlier body assigns x and falls through
   continues |-> FALSE]    \* some earlier body falls through

EndBody(f) ==
  [f EXCEPT !.assigns = @ \/ f.assigned, !.removes = @ \/ (f.assigned /\ f.falls),
            !.continues = @ \/ f.falls, !.assigned = FALSE, !.falls = TRUE]

\* if, if expression, switch (whose operand is x), while, for and block expression
Open(kind, test) ==
  /\ Reached
  /\ test \in Alternatives => test = Tested /\ narrowed = Opaque
  /\ kind = "switch" => test = Tested
  /\ kind \in {"for", "block"} => test = Opaque
  /\ Noted(kind, test, IF kind = "for" THEN Opaque ELSE narrowed, 0)
  /\ frames' = Append(frames, Frame(kind)) /\ Fits(frames')
  /\ narrowed' = SemanticInside(test, narrowed)
  /\ narrowings' = LoweredInside(test, narrowings)
  /\ UNCHANGED <<carried, hidden, stage, at, outside, x, payload>>

\* A further branch starts from what was known before the statement.
Branch(kind, test) ==
  /\ stage = "compiling" /\ InFrame({"if", "value", "switch"}) /\ ~Top.complete
  /\ CASE kind = "elif" -> InFrame({"if", "value"}) /\ test \in {Opaque, Tested}
       [] kind = "arm"  -> InFrame({"switch"}) /\ test = Other
       [] kind = "else" -> test = Opaque
  /\ kind = "elif" /\ test = Tested => Top.outer = Opaque
  /\ program' = Append(program, [kind |-> kind, test |-> test])
  /\ notes' = LinkFrom(Top.branch, Append(notes,
       [type |-> IF kind = "elif" THEN Top.outer ELSE Opaque, next |-> 0, origin |-> Top.start,
        local |-> IF Top.lowered.type = Top.outer THEN Top.lowered.local ELSE 0]))
  /\ frames' = [frames EXCEPT ![Len(frames)] =
       [EndBody(Top) EXCEPT !.branch = Here, !.complete = kind \in {"else", "arm"}]]
  /\ Fits(frames')
  /\ narrowed' = SemanticInside(test, Top.outer)
  /\ narrowings' = LoweredInside(test, Top.lowered)
  /\ UNCHANGED <<carried, hidden, stage, at, outside, x, payload>>

NarrowedAfterRestored(f) ==   \* mutation: what the branches assign is not removed
  CASE f.kind \in {"if", "switch", "value"} -> f.outer
    [] f.kind = "while"           -> IF f.assigns THEN Opaque ELSE f.outer
    [] f.kind = "for"             -> IF f.assigns THEN Opaque ELSE narrowed
    [] f.kind = "block"           -> narrowed

\* The narrowing after a statement: that of before, less what may have been assigned.
NarrowedAfter(f) ==
  CASE f.kind \in {"if", "switch"} -> IF f.removes THEN Opaque ELSE f.outer
    [] f.kind = "while"            -> IF f.assigns THEN Opaque ELSE f.outer
    [] f.kind = "for"              -> IF f.assigns THEN Opaque ELSE narrowed
    [] f.kind = "value"            -> f.outer
    [] f.kind = "block"            -> narrowed

LoweredAfterDropped(f) ==   \* mutation: a statement's end drops the narrowings
  IF f.kind = "block" THEN narrowings ELSE Unknown

LoweredAfter(f) == IF f.kind = "block" THEN narrowings ELSE f.lowered

\* What an ended statement adds to the body around it.  The statements inside an
\* expression are not looked at.
Around(f, parent) ==
  IF f.kind \in {"value", "block"} THEN parent
  ELSE [parent EXCEPT !.assigned = @ \/ f.assigns,
          !.falls = @ /\ (f.kind = "if" /\ f.complete => f.continues)]

End ==
  /\ stage = "compiling" /\ Len(frames) > 1
  /\ InFrame({"switch", "value"}) => Top.complete
  /\ LET f == EndBody(Top) IN
     /\ program' = Append(program, [kind |-> "end", test |-> Opaque])
     /\ notes' = LinkFrom(f.branch, Append(notes,
          [type |-> narrowed, next |-> 0, origin |-> IF f.kind \in Loops THEN f.start ELSE 0,
           local |-> IF narrowings.type = narrowed THEN narrowings.local ELSE 0]))
     /\ frames' = [SubSeq(frames, 1, Len(frames) - 1) EXCEPT
                     ![Len(frames) - 1] = Around(f, @)]
     /\ narrowed' = NarrowedAfter(f) /\ narrowings' = LoweredAfter(f)
  /\ UNCHANGED <<carried, hidden, stage, at, outside, x, payload>>

\* An assignment inside a loop that was entered with x narrowed.
CarriedHere ==
  \E n \in DOMAIN frames : frames[n].kind \in Loops /\ frames[n].outer # Opaque

\* An assignment inside an expression, in a statement that was entered with x narrowed.
HiddenHere ==
  \E m \in DOMAIN frames : \E n \in 1 .. m :
    /\ frames[n].outer # Opaque
    /\ frames[m].kind = "value" \/ (frames[m].kind = "block" /\ n < m)

Assignment ==
  /\ Reached
  /\ Noted("assign", Opaque, narrowed, 0)
  /\ frames' = [frames EXCEPT ![Len(frames)].assigned = TRUE] /\ Fits(frames')
  /\ narrowed' = Opaque /\ narrowings' = Unknown
  /\ carried' = (carried \/ CarriedHere) /\ hidden' = (hidden \/ HiddenHere)
  /\ UNCHANGED <<stage, at, outside, x, payload>>

\* break and continue belong to the innermost loop.
Enclosing == {n \in DOMAIN frames : frames[n].kind \in Loops}
InnermostLoop == CHOOSE n \in Enclosing : \A m \in Enclosing : m <= n

Exit(kind) ==
  /\ Reached
  /\ kind # "return" => Enclosing # {}
  /\ Noted(kind, Opaque, narrowed, IF kind = "return" THEN 0 ELSE frames[InnermostLoop].start)
  /\ frames' = [frames EXCEPT ![Len(frames)].falls = FALSE] /\ Fits(frames')
  /\ UNCHANGED <<narrowed, narrowings, carried, hidden, stage, at, outside, x, payload>>

Compile ==
  \/ \E k \in Openings, t \in Alternatives \cup {Opaque} : Open(k, t)
  \/ \E k \in Branches, t \in Alternatives \cup {Opaque} : Branch(k, t)
  \/ End \/ Assignment \/ \E k \in Exits : Exit(k)

-----------------------------------------------------------------------------
(* The program that was emitted. *)

\* Nothing is narrowed in a program that has no test.
Start ==
  /\ stage = "compiling" /\ Len(frames) = 1 /\ \E p \in DOMAIN program : program[p].test # Opaque
  /\ stage' = "running" /\ at' = 1 /\ x' \in Values
  /\ UNCHANGED <<compilation, outside, payload>>

Token == program[at]
Running(kinds) ==
  stage = "running" /\ at <= Len(program) /\ Token.kind \in kinds /\ UNCHANGED <<compilation, stage>>

\* What a condition may come out as.
Outcomes(test) == IF test = Opaque THEN BOOLEAN ELSE {x \in ValuesOf[test]}
LoopEnd(p) == notes[p].next + 1

\* UnionPayload: the temporary of the test is written where it succeeded.
Succeed ==
  /\ TRUE \in Outcomes(Token.test)
  /\ payload' = IF Token.test = Opaque THEN payload ELSE [payload EXCEPT ![at] = x]
  /\ at' = at + 1 /\ outside' = FALSE

Test ==
  /\ Running({"if", "value", "switch", "elif", "arm"})
  /\ Token.kind \in Branches => outside
  /\ \/ Succeed
     \/ FALSE \in Outcomes(Token.test) /\ at' = notes[at].next /\ outside' = TRUE /\ UNCHANGED payload
  /\ UNCHANGED x

\* The end of a body that was not the last one goes past the others.
LeaveBranch ==
  /\ Running(Branches) /\ ~outside
  /\ at' = notes[at].next /\ outside' = (program[at'].kind = "end")
  /\ UNCHANGED <<x, payload>>

Loop ==
  /\ Running(Loops)
  /\ Succeed \/ (FALSE \in Outcomes(Token.test) /\ at' = LoopEnd(at) /\ UNCHANGED <<outside, payload>>)
  /\ UNCHANGED x

Proceed ==
  /\ Running({"block", "end", "else"}) /\ (Token.kind = "else" => outside)
  /\ at' = IF Token.kind = "end" /\ notes[at].origin # 0 THEN notes[at].origin ELSE at + 1
  /\ outside' = FALSE /\ UNCHANGED <<x, payload>>

Assign ==
  /\ Running({"assign"})
  /\ x' \in Values /\ at' = at + 1
  /\ UNCHANGED <<outside, payload>>

Jump ==
  /\ Running({"break", "continue"})
  /\ at' = IF Token.kind = "break" THEN LoopEnd(notes[at].origin) ELSE notes[at].origin
  /\ UNCHANGED <<outside, x, payload>>

Return ==
  /\ stage = "running" /\ (at <= Len(program) => Token.kind = "return")
  /\ stage' = "returned"
  /\ UNCHANGED <<compilation, at, outside, x, payload>>

Run == Start \/ Test \/ LeaveBranch \/ Loop \/ Proceed \/ Assign \/ Jump \/ Return

Init ==
  /\ program = <<>> /\ notes = <<>>
  /\ narrowed = Opaque /\ narrowings = Unknown
  /\ frames = <<[Frame("function") EXCEPT !.start = 0, !.branch = 0]>>
  /\ carried = FALSE /\ hidden = FALSE
  /\ stage = "compiling" /\ at = 0 /\ outside = FALSE
  /\ x \in ValuesOf[Tested] /\ payload = [p \in 1 .. MaxTokens |-> x]

Next == Compile \/ Run

Spec == Init /\ [][Next]_vars

-----------------------------------------------------------------------------
(* Properties. *)

\* Every variable stays within its type.
TypeOK ==
  /\ Len(program) <= MaxTokens /\ Len(notes) = Len(program)
  /\ \A p \in DOMAIN notes :
       /\ notes[p].type \in Alternatives \cup {Opaque}
       /\ notes[p].next \in 0 .. Len(notes) /\ notes[p].local \in 0 .. p
       /\ notes[p].origin \in 0 .. p
  /\ narrowed \in Alternatives \cup {Opaque}
  /\ Len(frames) >= 1 /\ carried \in BOOLEAN /\ hidden \in BOOLEAN
  /\ stage \in {"compiling", "running", "returned"}
  /\ at \in 0 .. Len(program) + 1 /\ outside \in BOOLEAN
  /\ x \in Values /\ payload \in [1 .. MaxTokens -> Values]

\* Whether an expression at the next token is evaluated now.
Evaluates ==
  stage = "running" /\ at <= Len(program)
  /\ (Token.kind \in Branches => outside) /\ (Token.kind = "end" => ~outside)

ReadIsCurrent ==
  (Evaluates /\ notes[at].type # Opaque) =>
    notes[at].local # 0 /\ payload[notes[at].local] = x

\* Wherever the checker narrows x, the lowering has a temporary of that type: no
\* accepted program fails the lowering's invariants over the type of a variable.
LoweringFindsNarrowing ==
  \A p \in DOMAIN notes : notes[p].type # Opaque => notes[p].local # 0

\* A narrowed read sees the payload that x has now, on every path through tests,
\* loops and exits, if no assignment is carried around a loop or hidden in an
\* expression.
NarrowedReadCurrent == ~carried /\ ~hidden => ReadIsCurrent

\* Inside a body whose test succeeded, x stands for its payload: every narrowed
\* read sees the payload that x has now.
NarrowingNeverStale == ReadIsCurrent
=============================================================================
