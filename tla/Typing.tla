------------------------------- MODULE Typing -------------------------------
(***************************************************************************)
(* The three passes that give every expression of a function body its type *)
(* (src/src/analysis.rs, TypeInferrer and ExpectedTypeResolver;            *)
(* src/src/semantic.rs, UnionValidator), the handoff check after them, and *)
(* the types that the validator of the lowered body compares.              *)
(*                                                                         *)
(* A pass copies the tree and writes into the copy what the compiler keeps *)
(* in side tables under the address of a node: its state `st` (a type, or  *)
(* Failed, Never, Deferred), the reason `open` of an unresolved deferral,  *)
(* the injections `inj` recorded for it, the union `wide` that a `?` is    *)
(* widened to, and whether it was reported (`bad`).                        *)
(***************************************************************************)
EXTENDS TypeRules

CONSTANTS Programs       \* records [names, result, main, body]: functions to type

VARIABLES program, pass, body

vars == <<program, pass, body>>

Failed == Kind("failed")
Never == Kind("never")
Deferred == Kind("deferred")
Resolved(st) == st \notin {Failed, Never, Deferred, NoType}

-----------------------------------------------------------------------------
(* Annotating a node *)

WithKids(n, kids) == [n EXCEPT !.args = kids]
Typed(n, st) == [n EXCEPT !.st = st]
Report(n) == [n EXCEPT !.st = Failed, !.bad = TRUE]
Defer(n, reason) == [n EXCEPT !.st = Deferred, !.open = reason]
States(n) == {n.args[i].st : i \in Kids(n)}

\* An error in a part wins, then divergence, then a deferral.
Joined(n, whenDeferred, whenResolved) ==
  CASE Failed \in States(n) -> Typed(n, Failed)
    [] Failed \notin States(n) /\ Never \in States(n) -> Typed(n, Never)
    [] States(n) \intersect {Failed, Never} = {} /\ Deferred \in States(n) -> whenDeferred
    [] OTHER -> whenResolved

OneState(n) == Cardinality(States(n)) = 1
State(n, i) == n.args[i].st
Branches(n) == {State(n, i) : i \in Kids(n) \ {1}}     \* of an `if`
Settled(n) == LET types == Branches(n) \ {Never}       \* the one type of its branches
              IN IF types = {} THEN Never
                 ELSE IF Cardinality(types) = 1 THEN CHOOSE t \in types : TRUE ELSE NoType

Added(n) == IF States(n) = {IntType} THEN Typed(n, IntType) ELSE Report(n)
Indexed(n) == IF State(n, 1).k = "list" /\ State(n, 2) = IntType
              THEN Typed(n, Element(State(n, 1))) ELSE Report(n)
IsUnion(st) == Alternatives(st) # {}
Result(n) == n.ty.of[1].ty                             \* of a called function
Parameters(n) == Tail(n.ty.of)

-----------------------------------------------------------------------------
(* Pass 1, infer: what the parts alone say.                                *)

Compatible(st, wanted) == ~Resolved(st) \/ st = wanted \/ IsUnion(wanted)
NeedsExpected(st, wanted) == st = Deferred \/ (Resolved(st) /\ st # wanted)

InferredCall(n, wanted, result) ==
  IF \E i \in DOMAIN wanted : ~Compatible(State(n, i), wanted[i].ty) THEN Report(n)
  ELSE Joined(n, Defer(n, "expected"),
              IF \E i \in DOMAIN wanted : NeedsExpected(State(n, i), wanted[i].ty)
              THEN Defer(n, "expected") ELSE Typed(n, result))

InferredAppend(n) ==
  LET list == State(n, 1)
      given == WithKids(n, Tail(n.args))
      call == InferredCall(given, <<list.of[1]>>, UnitType)
  IN CASE list \in {Failed, Never} -> Typed(n, list)
       [] list = Deferred \/ IsUnion(list) -> Defer(n, "flow")
       [] list.k = "list" -> [call EXCEPT !.args = n.args]
       [] OTHER -> Report(n)

RECURSIVE Infer(_, _)
Infer(node, env) ==
  LET n == WithKids(node, [i \in Kids(node) |-> Infer(node.args[i], env)])
  IN
  CASE n.op = "lit" -> Typed(n, n.ty)
    [] n.op = "panic" -> Typed(n, Never)
    [] n.op = "id" -> Typed(n, env[n.name])
    [] n.op = "list" -> Joined(n, Defer(n, "expected"), Defer(n, "expected"))
    [] n.op \in {"struct", "tag", "wrap", "fail"} ->
         Joined(n, Defer(n, "constructor"), Defer(n, "constructor"))
    [] n.op = "add" -> Joined(n, Defer(n, "flow"), Added(n))
    [] n.op = "index" -> Joined(n, Defer(n, "flow"), Indexed(n))
    [] n.op \in {"is", "try"} -> Joined(n, Defer(n, "flow"), Defer(n, "flow"))
    [] n.op = "if" ->
         IF Resolved(State(n, 1)) /\ State(n, 1) # BoolType THEN Report(n)
         ELSE IF Failed \in Branches(n) THEN Typed(n, Failed)
         ELSE IF State(n, 1) = Deferred \/ Deferred \in Branches(n) \/ Settled(n) = NoType
              THEN Defer(n, "expected") ELSE Typed(n, Settled(n))
    [] n.op = "call" -> InferredCall(n, Parameters(n), Result(n))
    [] n.op = "append" -> InferredAppend(n)

-----------------------------------------------------------------------------
(* Pass 2, resolve: what the place wants (NoType: nothing), for the states *)
(* that pass 1 left open.                                                  *)

Inject(n, union, a) == [n EXCEPT !.st = union, !.inj = Append(@, [into |-> union, alternative |-> a])]

\* What a plausible slip in coerce would do: inject into any style of alternative.
CoerceAnyStyle(n, want) ==
  LET fitting == {a \in Alternatives(want) : a.ty = n.st}
  IN CASE want = NoType \/ ~Resolved(n.st) \/ n.st = want -> n
       [] OTHER -> IF Cardinality(fitting) = 1
                   THEN Inject(n, want, CHOOSE a \in fitting : TRUE) ELSE Report(n)

Coerce(n, want) ==
  IF \/ want = NoType \/ ~Resolved(n.st) \/ n.st = want
     \/ \E a \in Alternatives(n.st) : a.ty = want       \* left for the union pass
  THEN n
  ELSE IF Part("plain", n.st) \in Alternatives(want)
       THEN Inject(n, want, Part("plain", n.st)) ELSE Report(n)

Closed(n) == [n EXCEPT !.open = IF n.st = Deferred /\ @ = "flow" THEN @ ELSE ""]

RECURSIVE Resolve(_, _, _)
ResolvedKids(n, env, wanted) ==
  WithKids(n, [i \in Kids(n) |->
                 Resolve(n.args[i], env, IF i \in DOMAIN wanted THEN wanted[i].ty ELSE NoType)])
Wanting(t, n) == [i \in Kids(n) |-> Part("", t)]

ResolvedList(node, env, want) ==
  LET container == Container(want)
      n == ResolvedKids(node, env,
             IF container = NoType THEN <<>> ELSE Wanting(Element(container), node))
  IN IF n.args = <<>> /\ container = NoType THEN Report(n)
     ELSE Joined(n, Typed(n, Deferred),
            IF container # NoType THEN Coerce(Typed(n, container), want)
            ELSE IF OneState(n) THEN Coerce(Typed(n, ListOf(State(n, 1))), want) ELSE Report(n))

ResolvedIf(node, env, want) ==
  LET n == ResolvedKids(node, env, <<Part("", NoType), Part("", want), Part("", want)>>)
  IN IF Resolved(State(n, 1)) /\ State(n, 1) # BoolType THEN Report(n)
     ELSE IF Failed \in Branches(n) THEN Typed(n, Failed)
     ELSE IF want # NoType /\ Branches(n) \subseteq {want, Never} THEN Typed(n, want)
     ELSE IF Deferred \in Branches(n) \/ Settled(n) = NoType THEN Report(n)
     ELSE Typed(n, Settled(n))

\* The constructor of the one alternative, its payload wanted of the argument.
ResolvedPayload(node, env, options, made) ==
  IF Cardinality(options) # 1 THEN Report(ResolvedKids(node, env, <<>>))
  ELSE LET a == CHOOSE o \in options : TRUE
           n == ResolvedKids(node, env, <<a>>)
       IN Typed(n, IF Resolved(State(n, 1)) THEN made ELSE State(n, 1))

\* An untagged union takes the alternative of the argument's own type; an
\* empty list takes the alternative that is a list.
ResolvedWrap(node, env) ==
  LET empty == node.args[1].op = "list" /\ node.args[1].args = <<>>
      n == ResolvedKids(node, env, <<>>)
  IN IF empty THEN ResolvedPayload(node, env, {a \in Parts(node.ty) : a.ty.k = "list"}, node.ty)
     ELSE IF ~Resolved(State(n, 1)) THEN Typed(n, State(n, 1))
     ELSE IF Part("plain", State(n, 1)) \in Parts(node.ty) THEN Typed(n, node.ty) ELSE Report(n)

\* What finish_call makes of the arguments' states.
FinishedCall(n, result) == Joined(n, Typed(n, Deferred), Typed(n, result))

ResolvedAppend(node, env) ==
  LET first == Resolve(node.args[1], env, NoType)
      list == first.st
      n == ResolvedKids(node, env, IF list.k = "list" THEN <<Part("", NoType), list.of[1]>> ELSE <<>>)
      given == FinishedCall(WithKids(n, Tail(n.args)), UnitType)
  IN CASE list \in {Failed, Never} -> Typed(n, list)
       [] list = Deferred \/ IsUnion(list) -> Typed(n, Deferred)
       [] list.k = "list" -> [given EXCEPT !.args = n.args]
       [] OTHER -> Report(n)

Resolve(node, env, want) ==
  LET n == ResolvedKids(node, env, <<>>)              \* nothing wanted of the parts
      Again(next) == Coerce(IF node.st # Deferred THEN n ELSE next, want)
  IN Closed(
  CASE node.op \in {"lit", "panic", "is", "try"} -> Coerce(n, want)
    [] node.op = "id" -> Coerce(Typed(n, env[n.name]), want)
    [] node.op = "list" -> ResolvedList(node, env, want)
    [] node.op = "if" -> ResolvedIf(node, env, want)
    [] node.op = "add" -> Again(Joined(n, Typed(n, Deferred), Added(n)))
    [] node.op = "index" -> Again(Joined(n, Typed(n, Deferred), Indexed(n)))
    [] node.op = "call" ->
         Coerce(FinishedCall(ResolvedKids(node, env, Parameters(node)), Result(node)), want)
    [] node.op = "struct" ->
         Coerce(FinishedCall(ResolvedKids(node, env, node.ty.of), node.ty), want)
    [] node.op = "tag" ->
         Coerce(ResolvedPayload(node, env, {a \in Parts(node.ty) : a.tag = node.name}, node.ty), want)
    [] node.op = "wrap" -> Coerce(ResolvedWrap(node, env), want)
    [] node.op = "fail" -> Coerce(ResolvedPayload(node, env, Failures(want), want), want)
    [] node.op = "append" -> Coerce(ResolvedAppend(node, env), want))

-----------------------------------------------------------------------------
(* Pass 3, the unions: `is` and `?` get their types, a narrowed name reads *)
(* as its payload, and the expressions around them are typed again.        *)
(* `narrowed` is NoType for a name that is not narrowed.                   *)

Replace(n, st) == [n EXCEPT !.st = st, !.open = ""]
Change(n, st) == IF n.st = st THEN n ELSE Replace(n, st)
ReportOpen(n) == IF n.st = Deferred THEN Replace(Report(n), Failed) ELSE n

RetypedTry(n, p) ==
  LET operand == State(n, 1)
      successes == SelectSeq(operand.of, LAMBDA a : a.tag # "Error")
  IN CASE operand = Never -> Change(n, Never)
       [] operand = Failed -> Replace(n, Failed)
       [] ~IsUnion(operand) /\ operand \notin {Never, Failed} -> Replace(Report(n), Failed)
       [] IsUnion(operand) ->
            IF Cardinality(Failures(operand)) = 1 /\ (p.main \/ Failures(operand) \subseteq Failures(p.result))
            THEN Replace(n, IF Len(successes) = 1 THEN successes[1].ty
                            ELSE [k |-> "union", of |-> successes])
            ELSE Replace(Report(n), Failed)

RetypedIs(n) ==
  IF Selected(n.ty.of[1], State(n, 1)) # {} THEN Replace(n, BoolType)
  ELSE Replace([n EXCEPT !.bad = @ \/ State(n, 1) \notin {Failed, Never}], Failed)

Widens(n, want) == /\ n.op = "try" /\ n.st.k = "union"
                   /\ Parts(n.st) # {} /\ Parts(n.st) \subseteq Alternatives(want)

\* What a plausible slip in validate_expected_value would do: take any union.
ValidatedLoosely(n, want) ==
  IF ~Resolved(n.st) \/ n.st = want \/ IsUnion(n.st) THEN n ELSE Report(n)

Validated(n, want) ==
  LET fitting == {a \in Alternatives(want) : a.ty = n.st}
  IN IF ~Resolved(n.st) \/ n.st = want THEN n
     ELSE IF Widens(n, want) THEN [n EXCEPT !.wide = want]
     ELSE IF Cardinality(fitting) = 1
          THEN [n EXCEPT !.inj = Append(@, [into |-> want, alternative |-> CHOOSE a \in fitting : TRUE])]
          ELSE [n EXCEPT !.bad = TRUE]

RetypedAppend(n) ==
  IF ~Resolved(State(n, 1)) THEN n
  ELSE IF State(n, 1).k = "list"
       THEN Change([n EXCEPT !.args[2] = Validated(@, Element(State(n, 1)))], UnitType)
       ELSE ReportOpen(n)

NarrowedBy(test, narrowed) ==          \* after the test was retyped
  IF test.op = "is" /\ test.args[1].op = "id" /\ test.st = BoolType
  THEN [narrowed EXCEPT ![test.args[1].name] =
          (CHOOSE a \in Selected(test.ty.of[1], State(test, 1)) : TRUE).ty]
  ELSE narrowed

RECURSIVE Retype(_, _, _)
Retype(node, narrowed, p) ==
  LET test == Retype(node.args[1], narrowed, p)
      Kid(i) == IF node.op = "if" /\ i = 2
                THEN Retype(node.args[2], NarrowedBy(test, narrowed), p)
                ELSE Retype(node.args[i], narrowed, p)
      n == WithKids(node, [i \in Kids(node) |-> Kid(i)])
      both == Resolved(State(n, 1)) /\ Resolved(State(n, 2))
  IN
  CASE n.op = "id" -> IF narrowed[n.name] = NoType THEN n ELSE Replace(n, narrowed[n.name])
    [] n.op = "list" -> IF n.args # <<>> /\ OneState(n) /\ Resolved(State(n, 1))
                        THEN Change(n, ListOf(State(n, 1))) ELSE n
    [] n.op = "if" -> IF Resolved(Settled(n)) THEN Change(n, Settled(n)) ELSE n
    [] n.op = "add" -> IF ~both THEN n
                       ELSE IF State(n, 1) = State(n, 2) THEN Change(n, State(n, 1)) ELSE ReportOpen(n)
    [] n.op = "index" -> IF ~both THEN n
                         ELSE IF State(n, 1).k = "list" /\ State(n, 2) = IntType
                              THEN Change(n, Element(State(n, 1))) ELSE ReportOpen(n)
    [] n.op = "is" -> RetypedIs(n)
    [] n.op = "try" -> RetypedTry(n, p)
    [] n.op = "call" ->
         Change(WithKids(n, [i \in Kids(n) |-> Validated(n.args[i], Parameters(n)[i].ty)]), Result(n))
    [] n.op = "append" -> RetypedAppend(n)
    [] OTHER -> n

-----------------------------------------------------------------------------
(* The statements of a body, pass by pass.  A pass folds over them; the    *)
(* types of the names change at a local, the narrowings at an assignment   *)
(* and in the body that an `is` test guards.                               *)

RECURSIVE InferBody(_, _), ResolveBody(_, _, _), RetypeBody(_, _, _)

InferBody(stmts, env) ==
  IF stmts = <<>> THEN <<>>
  ELSE LET s == Head(stmts)
           e == Infer(s.args[1], env)
           wrong == s.op = "when" /\ Resolved(e.st) /\ e.st # BoolType
           next == IF s.op = "local" THEN [env EXCEPT ![s.name] = e.st] ELSE env
       IN <<[s EXCEPT !.args = <<IF wrong THEN Report(e) ELSE e>> \o InferBody(Tail(@), env)]>>
          \o InferBody(Tail(stmts), next)

ResolveBody(stmts, env, result) ==
  IF stmts = <<>> THEN <<>>
  ELSE LET s == Head(stmts)
           want == CASE s.op = "assign" /\ Resolved(env[s.name]) -> env[s.name]
                     [] s.op = "return" /\ result # UnitType -> result
                     [] OTHER -> NoType
           e == Resolve(s.args[1], env, want)
           wrong == s.op = "when" /\ s.args[1].st = Deferred /\ Resolved(e.st) /\ e.st # BoolType
           next == IF s.op = "local" THEN [env EXCEPT ![s.name] = e.st] ELSE env
       IN <<[s EXCEPT !.args = <<IF wrong THEN Report(e) ELSE e>> \o ResolveBody(Tail(@), env, result)]>>
          \o ResolveBody(Tail(stmts), next, result)

Assigned(stmts) == {stmts[i].name : i \in {j \in DOMAIN stmts : stmts[j].op = "assign"}}
Widened(names, narrowed) == [x \in DOMAIN narrowed |-> IF x \in names THEN NoType ELSE narrowed[x]]
Returns(stmts) == \E i \in DOMAIN stmts : stmts[i].op = "return"

RetypeBody(stmts, narrowed, p) ==
  IF stmts = <<>> THEN <<>>
  ELSE LET s == Head(stmts)
           e == Retype(s.args[1], narrowed, p)
           value == IF s.op = "return" THEN Validated(e, p.result) ELSE e
           lost == CASE s.op = "assign" -> {s.name}
                     [] s.op = "when" /\ ~Returns(Tail(s.args)) -> Assigned(Tail(s.args))
                     [] OTHER -> {}
       IN <<[s EXCEPT !.args = <<value>> \o RetypeBody(Tail(@), NarrowedBy(e, narrowed), p)]>>
          \o RetypeBody(Tail(stmts), Widened(lost, narrowed), p)

-----------------------------------------------------------------------------
(* After the passes: the handoff check, and the slots whose operand the    *)
(* validator of the lowered body compares with a declared type.            *)

RECURSIVE Nodes(_)
Nodes(stmts) == UNION {{stmts[i]} \union Nodes(stmts[i].args) : i \in DOMAIN stmts}
Statements == {"local", "assign", "eval", "return", "when"}
Expressions(stmts) == {n \in Nodes(stmts) : n.op \notin Statements}

Reported(stmts) == \E n \in Expressions(stmts) : n.bad
InjectedTwice(n) == \E i, j \in DOMAIN n.inj : i < j /\ n.inj[i].into = n.inj[j].into
HandsOver(stmts) ==
  \A n \in Expressions(stmts) : (Resolved(n.st) \/ n.st = Never) /\ n.open = "" /\ ~InjectedTwice(n)

\* The type of the operand that an expression is lowered to, and the type of
\* the value that its own operation makes (raw_type).
Lowered(n) == IF n.inj # <<>> THEN n.inj[1].into ELSE IF n.wide # NoType THEN n.wide ELSE n.st
Raw(n) == IF n.inj # <<>> THEN n.inj[1].alternative.ty ELSE n.st
Holds(n, t) == n.st = Never \/ Lowered(n) = t

ArgumentsHold(n) ==
  CASE n.op = "call" -> \A i \in Kids(n) : Holds(n.args[i], Parameters(n)[i].ty)
    [] n.op = "struct" -> \A i \in Kids(n) : Holds(n.args[i], n.ty.of[i].ty)
    [] n.op = "tag" -> \E a \in Parts(n.ty) : a.tag = n.name /\ Holds(n.args[1], a.ty)
    [] n.op = "fail" -> \E a \in Failures(Raw(n)) : Holds(n.args[1], a.ty)
    [] n.op = "wrap" -> \E a \in Parts(n.ty) : a.tag = "plain" /\ Holds(n.args[1], a.ty)
    [] n.op = "list" -> \A i \in Kids(n) : Holds(n.args[i], Element(Raw(n)))
    [] n.op = "append" -> Holds(n.args[2], Element(Lowered(n.args[1])))
    [] n.op = "if" -> \A i \in {2, 3} : Holds(n.args[i], Raw(n))
    [] OTHER -> TRUE
ReturnsHold(p, stmts) ==
  \A s \in Nodes(stmts) : s.op = "return" => Holds(s.args[1], p.result)
StoresHold(p, stmts) ==
  \A s \in Nodes(stmts) : s.op = "assign" => Holds(s.args[1], p.names[s.name])
Validates(p, stmts) ==
  /\ ReturnsHold(p, stmts) /\ StoresHold(p, stmts)
  /\ \A n \in Expressions(stmts) : ArgumentsHold(n)

-----------------------------------------------------------------------------
(* The machine: one pass is one step; a reported error stops it.           *)

Init == program \in Programs /\ pass = "infer" /\ body = program.body

InferPass ==
  /\ pass = "infer" /\ pass' = "resolve" /\ UNCHANGED program
  /\ body' = InferBody(body, program.names)

ResolvePass ==
  /\ pass = "resolve" /\ UNCHANGED program
  /\ body' = ResolveBody(body, program.names, program.result)
  /\ pass' = IF Reported(body') THEN "ill typed" ELSE "unions"

UnionPass ==
  /\ pass = "unions" /\ UNCHANGED program
  /\ body' = RetypeBody(body, [x \in DOMAIN program.names |-> NoType], program)
  /\ pass' = IF Reported(body') THEN "rejected" ELSE "handoff"

Handoff ==
  /\ pass = "handoff" /\ UNCHANGED <<program, body>>
  /\ pass' = IF HandsOver(body) THEN "lowered" ELSE "internal error"

ValidateLowered ==
  /\ pass = "lowered" /\ UNCHANGED <<program, body>>
  /\ pass' = IF Validates(program, body) THEN "compiled" ELSE "internal error"

Next == InferPass \/ ResolvePass \/ UnionPass \/ Handoff \/ ValidateLowered

Spec == Init /\ [][Next]_vars

-----------------------------------------------------------------------------
TypingTypeOK ==
  pass \in {"infer", "resolve", "unions", "handoff", "lowered",
              "ill typed", "rejected", "internal error", "compiled"}

\* In a body without `is` and `?`, what pass 1 defers, pass 2 decides as the
\* rules decide it at once: a body that they refuse is not well typed, and one
\* that they accept is well typed exactly if every slot holds its type.  The
\* slots that do not are those where coerce left a union for the union pass to
\* refuse (src/src/analysis.rs:1688, 1709, 4835).
Untested == \A n \in Nodes(program.body) : n.op \notin {"is", "try"}
AnalysisAgrees ==
  Untested => /\ pass = "ill typed" => ~WellTyped(program)
              /\ pass = "unions" => (WellTyped(program) <=> Validates(program, body))

\* In a body that is handed over to lowering, whatever is returned or is
\* passed to a function or to a list's append has the type of its slot,
\* itself or by one injection: the union pass checks these values again,
\* after narrowing changed their types (src/src/semantic.rs:2381-2418).
CheckedAgain(n) == n.op \in {"call", "append"} => ArgumentsHold(n)
ResultsFit ==
  pass = "lowered" =>
    ReturnsHold(program, body) /\ \A n \in Expressions(body) : CheckedAgain(n)

\* Refuted, both.  A body that is well typed is compiled: "Inside the selected
\* body, the tested variable is narrowed directly to the alternative's payload
\* type" (src/DESIGN.md:251), yet pass 1 compares the argument of a call with
\* the type before the narrowing (src/src/analysis.rs:3003-3022).
WellTypedCompiles ==
  pass \in {"ill typed", "rejected", "internal error"} => ~WellTyped(program)

\* A body that is compiled is well typed: a value becomes an error only by
\* `Error(value)` (src/DESIGN.md:229), yet the union pass injects into an
\* alternative of any style (src/src/semantic.rs:2381-2404).
CompiledIsWellTyped == pass = "compiled" => WellTyped(program)
=============================================================================
