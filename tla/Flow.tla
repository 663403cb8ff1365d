-------------------------------- MODULE Flow --------------------------------
(***************************************************************************)
(* Control flow from its summary to its graph: the type state of an        *)
(* expression (src/src/analysis.rs), the summary and the warnings of the   *)
(* flow validator and the handoff check (src/src/semantic.rs), the blocks  *)
(* that lowering builds (src/src/lowering.rs), and a run of the blocks.    *)
(*                                                                         *)
(* A construct is a record of its kind and of its parts.  Its place in the *)
(* body is the path of part numbers that leads to it.  Values and types    *)
(* are not kept: an expression either has a type or is "Never".            *)
(***************************************************************************)
EXTENDS Integers, Sequences, FiniteSets

CONSTANTS Programs     \* records [returns, body]: function bodies to compile

None == [op |-> "none", args |-> <<>>]     \* a block without a final value
Has(n) == n.op # "none"
Kids(n) == DOMAIN n.args
Final(n) == n.args[Len(n.args)]            \* value of a block, else of an if

-----------------------------------------------------------------------------
(* Types: does an expression have a value type?  `wanted` says that its    *)
(* place expects a type, which makes an `if` whose branches all diverge    *)
(* take that type.                                                         *)

BranchBodies(n) == {i \in Kids(n) : i % 2 = 0 \/ i = Len(n.args)}

RECURSIVE Typed(_, _)
Typed(n, wanted) ==
  CASE n.op = "panic" -> FALSE
    [] n.op \in {"strict", "convert", "is", "try"} ->
         \A i \in Kids(n) : Typed(n.args[i], FALSE)
    [] n.op = "short" -> Typed(n.args[1], FALSE)
    [] n.op = "if" -> wanted \/ \E i \in BranchBodies(n) : Typed(n.args[i], FALSE)
    [] n.op = "block" -> Typed(Final(n), wanted)
    [] OTHER -> TRUE

-----------------------------------------------------------------------------
(* Flow summaries: does control come out at the end, and how else may it   *)
(* leave?                                                                  *)

Through == [falls |-> TRUE, flags |-> {}]
Terminal(flag) == [falls |-> FALSE, flags |-> {flag}]

Then(first, next) ==
  IF first.falls THEN [falls |-> next.falls, flags |-> first.flags \union next.flags]
                 ELSE first

Alternatives(flows) == [falls |-> \E f \in flows : f.falls,
                        flags |-> UNION {f.flags : f \in flows}]

Leaves(flow, flag) == IF flow.falls THEN [falls |-> FALSE, flags |-> flow.flags \union {flag}]
                                    ELSE flow

\* What a plausible slip in loop_flow would do: forget that a body returns.
LoopFlowForgetful(head, body) ==
  IF head.falls THEN [falls |-> TRUE, flags |-> head.flags \union (body.flags \intersect {"diverge"})]
                ELSE head

LoopFlow(head, body) ==
  IF head.falls
  THEN [falls |-> TRUE, flags |-> head.flags \union (body.flags \intersect {"return", "diverge"})]
  ELSE head

RECURSIVE FlowOf(_), FlowUpTo(_, _), BranchFlows(_, _, _)
FlowUpTo(n, count) == IF count = 0 THEN Through
                      ELSE Then(FlowUpTo(n, count - 1), FlowOf(n.args[count]))
BranchFlows(n, i, remaining) ==
  IF i = Len(n.args) THEN {Then(remaining, FlowOf(n.args[i]))}
  ELSE LET tested == Then(remaining, FlowOf(n.args[i]))
       IN {Then(tested, FlowOf(n.args[i + 1]))} \union BranchFlows(n, i + 2, tested)
FlowOf(n) ==
  CASE n.op \in {"val", "none"} -> Through
    [] n.op \in {"strict", "convert", "is", "local", "block"} -> FlowUpTo(n, Len(n.args))
    [] n.op = "panic" -> Leaves(FlowUpTo(n, Len(n.args)), "diverge")
    [] n.op = "return" -> Leaves(FlowUpTo(n, Len(n.args)), "return")
    [] n.op = "try" -> LET of == FlowOf(n.args[1])
                       IN IF of.falls THEN [of EXCEPT !.flags = @ \union {"return"}] ELSE of
    [] n.op = "short" -> Alternatives({FlowUpTo(n, 1), FlowUpTo(n, 2)})
    [] n.op \in {"if", "ifs"} -> Alternatives(BranchFlows(n, 1, Through))
    [] n.op \in {"while", "for"} -> LoopFlow(FlowOf(n.args[1]), FlowOf(n.args[2]))
    [] n.op = "switch" -> Then(FlowOf(n.args[1]),
                               Alternatives({FlowOf(n.args[i]) : i \in Kids(n) \ {1}}))
    [] n.op \in {"break", "continue"} -> Terminal(n.op)

\* The constructs of a block that nothing can reach: everything from the
\* first one that the constructs before it never fall through to.
Unreachable(n) == {i \in Kids(n) : /\ Has(n.args[i])
                                   /\ ~FlowUpTo(n, i - 1).falls}

RECURSIVE Warned(_, _)
Warned(n, path) ==
  (IF n.op = "block" THEN {Append(path, i) : i \in Unreachable(n)} ELSE {})
    \union UNION {Warned(n.args[i], Append(path, i)) : i \in Kids(n)}

-----------------------------------------------------------------------------
(* What the validator rejects, and what the handoff check refuses.         *)

RECURSIVE StrayControl(_, _)
StrayControl(n, inLoop) ==
  \/ n.op \in {"break", "continue"} /\ ~inLoop
  \/ \E i \in Kids(n) :
       StrayControl(n.args[i], inLoop \/ (n.op \in {"while", "for"} /\ i = 2))

RECURSIVE BareReturn(_)
BareReturn(n) == \/ n.op = "return" /\ n.args = <<>>
                 \/ \E i \in Kids(n) : BareReturn(n.args[i])

ReturnsImplicitly(p) == Has(Final(p.body)) /\ Typed(Final(p.body), p.returns = "value")

Rejected(p) ==
  \/ StrayControl(p.body, FALSE)
  \/ p.returns = "value" /\ BareReturn(p.body)
  \/ p.returns = "value" /\ FlowOf(p.body).falls /\ ~ReturnsImplicitly(p)
  \/ p.returns = "unit" /\ ReturnsImplicitly(p)

Completes(p) == FlowOf(p.body).falls /\ ~ReturnsImplicitly(p)

\* A test or a switch on an operand without a value has no resolution, and a
\* try whose operand has a type but never falls through has no action.
RECURSIVE HandoffRefuses(_)
HandoffRefuses(n) ==
  \/ n.op \in {"is", "switch"} /\ ~Typed(n.args[1], FALSE)
  \/ n.op = "try" /\ Typed(n.args[1], FALSE) /\ ~FlowOf(n.args[1]).falls
  \/ \E i \in Kids(n) : HandoffRefuses(n.args[i])

-----------------------------------------------------------------------------
(* Lowering.  The state is the blocks built so far, the current block (0    *)
(* once the path has ended) and the first error.                           *)

Start == [blocks |-> <<[ops |-> {}, end |-> "open", to |-> <<>>]>>, cur |-> 1, error |-> ""]
Fail(b, why) == IF b.error = "" THEN [b EXCEPT !.error = why] ELSE b
Stopped(b) == b.cur = 0 \/ b.error # ""
NewBlocks(b, count) ==
  [b EXCEPT !.blocks = @ \o [i \in 1..count |-> Start.blocks[1]]]
Fresh(b, i) == Len(b.blocks) + i
Enter(b, block) == [b EXCEPT !.cur = block]
Emit(b, path) == IF b.cur = 0 THEN Fail(b, "ended")
                 ELSE [b EXCEPT !.blocks[b.cur].ops = @ \union {path}]
Terminate(b, end, to) ==
  IF b.cur = 0 THEN Fail(b, "ended")
  ELSE [b EXCEPT !.blocks[b.cur].end = end, !.blocks[b.cur].to = to, !.cur = 0]

\* Joins the paths that fall through, if there is one, in a new block.
MergePaths(b, ends) ==
  IF ends = {} THEN Enter(b, 0)
  ELSE LET merge == Fresh(b, 1)
           made == NewBlocks(b, 1)
       IN Enter([made EXCEPT !.blocks = [i \in DOMAIN @ |->
                   IF i \in ends THEN [@[i] EXCEPT !.end = "jump", !.to = <<merge>>] ELSE @[i]]],
                merge)

\* The loop that encloses a statement, and whether its place expects a type.
NoLoop == [next |-> 0, exit |-> 0, wanted |-> FALSE]
Plain(ctx) == [ctx EXCEPT !.wanted = FALSE]
Wanting(ctx) == [ctx EXCEPT !.wanted = TRUE]

RECURSIVE Lower(_, _, _, _), LowerKind(_, _, _, _), LowerUpTo(_, _, _, _, _),
          LowerBranches(_, _, _, _, _, _), LowerArms(_, _, _, _, _, _, _)

\* The parts up to `count` in order; a part that ends the path ends the rest.
LowerUpTo(n, path, b, ctx, count) ==
  IF count = 0 THEN b
  ELSE LET before == LowerUpTo(n, path, b, ctx, count - 1)
           inner == IF n.op = "block" /\ count < Len(n.args) THEN Plain(ctx) ELSE ctx
       IN IF Stopped(before) THEN before
          ELSE Lower(n.args[count], Append(path, count), before, inner)

Ended(b, ends) == IF b.cur = 0 THEN ends ELSE ends \union {b.cur}

\* Branches i, i + 1, ... of an if; `ends` holds the paths that fell through.
LowerBranches(n, path, b, ctx, i, ends) ==
  IF b.error # "" THEN b
  ELSE IF i = Len(n.args)
  THEN LET last == Lower(n.args[i], Append(path, i), b, ctx)
       IN MergePaths(last, Ended(last, ends))
  ELSE LET tested == Lower(n.args[i], Append(path, i), b, Plain(ctx)) IN
       IF tested.error # "" THEN tested
       ELSE IF tested.cur = 0 THEN MergePaths(tested, ends)
       ELSE LET body == Fresh(tested, 1)
                split == Terminate(NewBlocks(tested, 2), "branch", <<body, body + 1>>)
                taken == Lower(n.args[i + 1], Append(path, i + 1), Enter(split, body), ctx)
            IN LowerBranches(n, path, Enter(taken, body + 1), ctx, i + 2, Ended(taken, ends))

LowerArms(n, path, b, ctx, i, first, ends) ==
  IF b.error # "" THEN b
  ELSE IF i > Len(n.args) THEN MergePaths(b, ends)
  ELSE LET arm == Lower(n.args[i], Append(path, i), Enter(b, first + i - 2), ctx)
       IN LowerArms(n, path, arm, ctx, i + 1, first, Ended(arm, ends))

LowerShort(n, path, b, ctx) ==
  LET left == Lower(n.args[1], Append(path, 1), b, Plain(ctx)) IN
  IF Stopped(left) THEN left
  ELSE IF ~Typed(n, ctx.wanted) THEN Fail(left, "fact")
  ELSE LET rightBlock == Fresh(left, 1)
           opened == [NewBlocks(left, 1) EXCEPT !.cur = rightBlock]
           right == Lower(n.args[2], Append(path, 2), opened, Plain(ctx))
           merge == Fresh(right, 1)
           split == Terminate(Enter(NewBlocks(right, 1), left.cur), "branch", <<rightBlock, merge>>)
           joined == IF right.cur = 0 THEN split
                     ELSE Terminate(Enter(split, right.cur), "jump", <<merge>>)
       IN IF right.error # "" THEN right ELSE Enter(joined, merge)

LowerWhile(n, path, b, ctx) ==
  LET head == Fresh(b, 1)
      tested == Lower(n.args[1], Append(path, 1),
                      Enter(Terminate(NewBlocks(b, 1), "jump", <<head>>), head), Plain(ctx))
  IN IF Stopped(tested) THEN tested
     ELSE LET body == Fresh(tested, 1)
              split == Terminate(NewBlocks(tested, 2), "branch", <<body, body + 1>>)
              run == Lower(n.args[2], Append(path, 2), Enter(split, body),
                           [next |-> head, exit |-> body + 1, wanted |-> FALSE])
              closed == IF run.cur = 0 THEN run ELSE Terminate(run, "jump", <<head>>)
          IN IF run.error # "" THEN run ELSE Enter(closed, body + 1)

\* Five blocks: header, body, advance, cleanup and exit.
LowerFor(n, path, b, ctx) ==
  IF ~Typed(n.args[1], FALSE) THEN Fail(b, "fact")
  ELSE LET iterable == Lower(n.args[1], Append(path, 1), b, Plain(ctx)) IN
       IF Stopped(iterable) THEN iterable
       ELSE LET header == Fresh(iterable, 1)
                begun == Terminate(NewBlocks(iterable, 5), "jump", <<header>>)
                split == Terminate(Enter(begun, header), "branch", <<header + 1, header + 3>>)
                run == Lower(n.args[2], Append(path, 2), Enter(split, header + 1),
                             [next |-> header + 2, exit |-> header + 3, wanted |-> FALSE])
                closed == IF run.cur = 0 THEN run ELSE Terminate(run, "jump", <<header + 2>>)
                advanced == Terminate(Enter(closed, header + 2), "jump", <<header>>)
                cleaned == Terminate(Enter(advanced, header + 3), "jump", <<header + 4>>)
            IN IF run.error # "" THEN run ELSE Enter(cleaned, header + 4)

LowerSwitch(n, path, b, ctx) ==
  LET value == Lower(n.args[1], Append(path, 1), b, Plain(ctx)) IN
  IF Stopped(value) THEN value
  ELSE LET first == Fresh(value, 1)
           arms == Len(n.args) - 1
       IN LowerArms(n, path, Terminate(NewBlocks(value, arms), "switch",
                                       [i \in 1..arms |-> first + i - 1]),
                    Plain(ctx), 2, first, {})

LowerTry(n, path, b, ctx) ==
  LET value == Lower(n.args[1], Append(path, 1), b, Plain(ctx)) IN
  IF Stopped(value) THEN value
  ELSE LET error == Fresh(value, 1)
           split == Terminate(NewBlocks(value, 2), "switch", <<error, error + 1>>)
           returned == Terminate(Enter(split, error), "return", <<>>)
       IN MergePaths(returned, {error + 1})

\* A slip: the value is assigned whether or not the initializer ended the path.
LowerLocalTolerant(n, path, b, ctx) ==
  LET value == Lower(n.args[1], Append(path, 1), b, Plain(ctx)) IN
  IF value.error # "" THEN value ELSE Emit(value, path)

LowerLocal(n, path, b, ctx) ==
  LET value == Lower(n.args[1], Append(path, 1), b, Plain(ctx)) IN
  IF value.error # "" THEN value
  ELSE IF Typed(n.args[1], FALSE) = (value.cur = 0) THEN Fail(value, "fact")
  ELSE IF value.cur = 0 THEN value ELSE Emit(value, path)

LowerKind(n, path, b, ctx) ==
  LET parts == LowerUpTo(n, path, b, IF n.op \in {"block", "return"} THEN ctx ELSE Plain(ctx),
                         Len(n.args)) IN
  CASE n.op \in {"none"} -> b
    [] n.op = "val" -> Emit(b, path)
    [] n.op \in {"strict", "is"} -> IF Stopped(parts) THEN parts ELSE Emit(parts, path)
    [] n.op = "convert" -> IF ~Typed(n.args[1], FALSE) THEN Fail(b, "fact")
                           ELSE IF Stopped(parts) THEN parts ELSE Emit(parts, path)
    [] n.op = "block" -> parts
    [] n.op = "panic" -> IF Stopped(parts) THEN parts ELSE Terminate(Emit(parts, path), "diverge", <<>>)
    [] n.op = "return" ->
         LET valued == LowerUpTo(n, path, b, Wanting(ctx), Len(n.args))
         IN IF Stopped(valued) THEN valued ELSE Terminate(Emit(valued, path), "return", <<>>)
    [] n.op = "break" -> Terminate(Emit(b, path), "jump", <<ctx.exit>>)
    [] n.op = "continue" -> Terminate(Emit(b, path), "jump", <<ctx.next>>)
    [] n.op = "if" -> IF ~Typed(n, ctx.wanted) THEN Fail(b, "fact")
                      ELSE LowerBranches(n, path, b, ctx, 1, {})
    [] n.op = "ifs" -> LowerBranches(n, path, b, Plain(ctx), 1, {})
    [] n.op = "short" -> LowerShort(n, path, b, ctx)
    [] n.op = "while" -> LowerWhile(n, path, b, ctx)
    [] n.op = "for" -> LowerFor(n, path, b, ctx)
    [] n.op = "switch" -> LowerSwitch(n, path, b, ctx)
    [] n.op = "try" -> LowerTry(n, path, b, ctx)
    [] n.op = "local" -> LowerLocal(n, path, b, ctx)

\* Every construct is compared with its summary when it has been lowered.
Lower(n, path, b, ctx) ==
  LET done == LowerKind(n, path, b, ctx)
  IN IF FlowOf(n).falls = (done.cur # 0) THEN done ELSE Fail(done, "summary")

LowerFunction(p) ==
  LET body == Lower(p.body, <<>>, Start, [NoLoop EXCEPT !.wanted = p.returns = "value"])
  IN IF Stopped(body) THEN body
     ELSE IF Has(Final(p.body)) \/ Completes(p) THEN Terminate(body, "return", <<>>)
     ELSE Fail(body, "completion")

-----------------------------------------------------------------------------
VARIABLES program, phase, graph, at, ran, result
vars == <<program, phase, graph, at, ran, result>>

Init == /\ program \in Programs
        /\ phase = "analysis"
        /\ graph = <<>> /\ at = 0 /\ ran = {} /\ result = ""

Analyze == /\ phase = "analysis"
           /\ phase' = IF Rejected(program) THEN "rejected"
                       ELSE IF HandoffRefuses(program.body) THEN "failed" ELSE "lowering"
           /\ result' = IF phase' = "failed" THEN "handoff" ELSE ""
           /\ UNCHANGED <<program, graph, at, ran>>

LowerProgram ==
  /\ phase = "lowering"
  /\ LET built == LowerFunction(program) IN
     /\ phase' = IF built.error = "" THEN "running" ELSE "failed"
     /\ graph' = IF built.error = "" THEN built.blocks ELSE <<>>
     /\ result' = built.error
     /\ at' = IF built.error = "" THEN 1 ELSE 0
  /\ UNCHANGED <<program, ran>>

RunBlock == /\ phase = "running"
            /\ ran' = ran \union graph[at].ops
            /\ \/ /\ graph[at].to # <<>>
                  /\ \E i \in DOMAIN graph[at].to : at' = graph[at].to[i]
                  /\ UNCHANGED <<phase, result>>
               \/ /\ graph[at].to = <<>>
                  /\ phase' = "ended" /\ result' = graph[at].end
                  /\ UNCHANGED at
            /\ UNCHANGED <<program, graph>>

Next == Analyze \/ LowerProgram \/ RunBlock

Spec == Init /\ [][Next]_vars

-----------------------------------------------------------------------------
(* Properties                                                              *)

FlowTypeOK == /\ phase \in {"analysis", "rejected", "failed", "lowering", "running", "ended"}
              /\ at \in 0..Len(graph)

\* Lowering and the flow validator walk the source separately.  They never
\* disagree on whether a construct falls through (the checks "contradicts its
\* flow summary" of src/src/lowering.rs never fire), lowering emits nothing
\* after a path has ended, and every block it makes is terminated.
SummariesAgree ==
  /\ phase = "failed" => result \in {"handoff", "fact"}
  /\ phase = "running" => \A i \in DOMAIN graph : graph[i].end # "open"

\* What is warned to be unreachable source (src/src/semantic.rs block) never
\* runs, whatever the conditions are.
WarnedNeverRuns ==
  \A place \in ran : \A cut \in 1..Len(place) :
    SubSeq(place, 1, cut) \notin Warned(program.body, <<>>)

RECURSIVE Reached(_, _)
Reached(g, known) ==
  LET more == known \union UNION {{g[i].to[k] : k \in DOMAIN g[i].to} : i \in known}
  IN IF more = known THEN known ELSE Reached(g, more)

\* The summary of the body is exact: it names "return" or "diverge" just when
\* some path of the lowered function ends that way.  (The end of the body
\* is lowered to a return as well.)
SummaryExact ==
  phase = "running" /\ ran = {} =>
    LET ends == {graph[i].end : i \in Reached(graph, {1})} \intersect {"return", "diverge"}
        flow == FlowOf(program.body)
    IN ends = flow.flags \union (IF flow.falls THEN {"return"} ELSE {})

\* DESIGN.md: unreachable source produces a warning, and warnings are
\* non-fatal.  A program that analysis accepts with a warning therefore
\* compiles.
WarningsAreNotFatal == phase = "failed" => Warned(program.body, <<>>) = {}
=============================================================================
