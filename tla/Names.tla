------------------------------- MODULE Names -------------------------------
(***************************************************************************)
(* Name resolution (analysis.rs): the top-level names, and BodyResolver    *)
(* walking a function body with its stack of scopes.  The body is not      *)
(* given: each action is what the walk meets next, so that a behaviour is  *)
(* one body.  Beside the walk goes one run of that body, in which every    *)
(* branch and loop body is taken or not.                                   *)
(*                                                                         *)
(* A binding is the number of its declaration; `bindings` remembers where  *)
(* each was made, which the code does not.                                 *)
(***************************************************************************)
EXTENDS Naturals, Sequences, FiniteSets, SequencesExt

CONSTANTS
    Identifiers,
    Intrinsics,          \* the names of the intrinsic functions
    Heads,               \* [declarations: sequence of [kind, name], parameters: sequence of names]
    MaxSteps,            \* of a body: constructs and uses
    MaxDepth

NamesAssumption ==
    \A head \in Heads :
        /\ head.declarations \in Seq([kind : {"type", "fn"}, name : Identifiers \cup Intrinsics])
        /\ head.parameters \in Seq(Identifiers)

VARIABLES
    declarations, parameters,
    collected,           \* how many declarations collect_top_level_names has seen
    typeNames, functionNames,
    reported,            \* the diagnostics so far, as a set of rules
    scopes,              \* Scope: [bindings: sequence of <<name, id>>, acceptsLocals]
    open,                \* the constructs the walk is in: [kind, taken, used, name, id]
    bindings,            \* history: [name, owner, conditional]
    opened,              \* history: how many constructs were opened
    initialized,         \* the bindings that hold a value in this run
    lastUse,             \* the NameUse that was just recorded
    steps

vars == <<declarations, parameters, collected, typeNames, functionNames, reported,
          scopes, open, bindings, opened, initialized, lastUse, steps>>

None == 0
NoUse == [name |-> "", access |-> "none", resolution |-> "none", binding |-> None, error |-> FALSE]

-----------------------------------------------------------------------------
\* lookup: the innermost scope first, in it the latest binding.
InScope(scope, name) ==
    SelectLastInSeq(scope.bindings, LAMBDA entry : entry[1] = name)
Lookup(name) ==
    LET level == SelectLastInSeq(scopes, LAMBDA scope : InScope(scope, name) > 0)
    IN  IF level = 0 THEN None ELSE scopes[level].bindings[InScope(scopes[level], name)][2]

IsType(name) == name \in typeNames
IsFunction(name) == name \in functionNames

\* callable_by_name
CallableByName(name) ==
    CASE (IsFunction(name) \/ name \in Intrinsics) /\ IsType(name) -> "ambiguous"
      [] IsFunction(name) /\ ~ IsType(name) -> "function"
      [] ~ IsFunction(name) /\ name \in Intrinsics /\ ~ IsType(name) -> "intrinsic"
      [] ~ IsFunction(name) /\ name \notin Intrinsics /\ IsType(name) -> "constructor"
      [] OTHER -> "unknown"

Use(name, access, resolution, binding, error) ==
    [name |-> name, access |-> access, resolution |-> resolution, binding |-> binding, error |-> error]

\* resolve_binding_name and resolve_value_name
BindingUse(name, access) ==
    IF Lookup(name) /= None THEN Use(name, access, "binding", Lookup(name), FALSE)
    ELSE Use(name, access, "unknown", None, TRUE)
ValueUse(name) ==
    CASE Lookup(name) /= None -> BindingUse(name, "read")
      [] Lookup(name) = None /\ IsFunction(name) -> Use(name, "read", "function", None, TRUE)
      [] Lookup(name) = None /\ ~ IsFunction(name) /\ name \in Intrinsics ->
             Use(name, "read", "intrinsic", None, TRUE)
      [] OTHER -> BindingUse(name, "read")

\* Mutation: a declared callable is taken before the special constructor.
CallOfDeclared(name) ==
    CASE Lookup(name) /= None -> BindingUse(name, "call")
      [] OTHER -> Use(name, "call", CallableByName(name), None,
                      CallableByName(name) \in {"ambiguous", "unknown"})

\* resolve_call_callee of a plain name, and of a member of a name
CallUse(name) ==
    CASE Lookup(name) /= None -> BindingUse(name, "call")
      [] Lookup(name) = None /\ CallableByName(name) = "unknown" /\ name = "Error" ->
             Use(name, "call", "error constructor", None, FALSE)
      [] Lookup(name) = None /\ CallableByName(name) /= "unknown" /\ name = "Error" ->
             Use(name, "call", "ambiguous error constructor", None, TRUE)
      [] OTHER -> Use(name, "call", CallableByName(name), None,
                      CallableByName(name) \in {"ambiguous", "unknown"})
MemberCallUse(name) ==
    IF Lookup(name) = None /\ IsType(name) THEN Use(name, "call", "constructor", None, FALSE)
    ELSE ValueUse(name)

-----------------------------------------------------------------------------
Top == open[Len(open)]
Running == \A i \in DOMAIN open : open[i].taken
InBody == collected > Len(declarations)

\* A statement may begin: in a block, or as the one statement of a colon body.
StatementMayBegin ==
    InBody /\ steps < MaxSteps /\ (Top.kind = "block" \/ (Top.kind \in {"body", "loop"} /\ ~ Top.used))
ExpressionMayBegin == StatementMayBegin \/ (InBody /\ steps < MaxSteps /\ Top.kind = "local")
Used == [open EXCEPT ![Len(open)].used = TRUE]
Construct(kind, taken, name) ==
    [kind |-> kind, taken |-> taken, used |-> FALSE, name |-> name, id |-> opened + 1]

Init ==
    /\ \E head \in Heads : declarations = head.declarations /\ parameters = head.parameters
    /\ collected = 0 /\ typeNames = {} /\ functionNames = {}
    /\ reported = IF \E i \in DOMAIN declarations : declarations[i].name = "Error"
                     \/ \E j \in DOMAIN parameters : parameters[j] = "Error"
                  THEN {"reserved"} ELSE {}
    /\ scopes = <<>> /\ open = <<>> /\ bindings = <<>> /\ opened = 0
    /\ initialized = {} /\ lastUse = NoUse /\ steps = 0

\* One turn of collect_top_level_names.
CollectDeclaration ==
    LET declaration == declarations[collected + 1]
        name == declaration.name
        Report(rule) == reported' = reported \cup {rule}
    IN  /\ collected < Len(declarations)
        /\ collected' = collected + 1
        /\ \/ /\ declaration.kind = "type" /\ IsType(name)
              /\ Report("duplicate") /\ UNCHANGED <<typeNames, functionNames>>
           \/ /\ declaration.kind = "type" /\ ~ IsType(name)
              /\ typeNames' = typeNames \cup {name} /\ UNCHANGED <<functionNames, reported>>
           \/ /\ declaration.kind = "fn" /\ (name \in Intrinsics \/ IsFunction(name))
              /\ Report("duplicate") /\ UNCHANGED <<typeNames, functionNames>>
           \/ /\ declaration.kind = "fn" /\ name \notin Intrinsics /\ ~ IsFunction(name)
              /\ functionNames' = functionNames \cup {name} /\ UNCHANGED <<typeNames, reported>>
        /\ UNCHANGED <<declarations, parameters, scopes, open, bindings, opened, initialized, lastUse, steps>>

Lexical(entries) == [bindings |-> entries, acceptsLocals |-> TRUE]

\* resolve_function: the parameters' scope, where the first of two with one
\* name stays, and the scope of the body; check_parameter_names reports it.
Kept == {i \in DOMAIN parameters : \A j \in 1..i - 1 : parameters[j] /= parameters[i]}
EnterFunction ==
    LET ids == [n \in 1..Cardinality(Kept) |->
                   CHOOSE i \in Kept : Cardinality({j \in Kept : j <= i}) = n]
    IN  /\ collected = Len(declarations) /\ collected' = collected + 1
        /\ scopes' = <<Lexical([n \in DOMAIN ids |-> <<parameters[ids[n]], ids[n]>>]), Lexical(<<>>)>>
        /\ opened' = 2
        /\ open' = <<[Construct("function", TRUE, "") EXCEPT !.id = 1],
                     [Construct("block", TRUE, "") EXCEPT !.id = 2]>>
        /\ bindings' = [i \in DOMAIN parameters |-> [name |-> parameters[i], owner |-> 1, conditional |-> FALSE]]
        /\ initialized' = DOMAIN parameters
        /\ reported' = reported \cup IF Kept /= DOMAIN parameters THEN {"duplicate"} ELSE {}
        /\ UNCHANGED <<declarations, parameters, typeNames, functionNames, lastUse, steps>>

\* reject_reserved_error_bindings, of a binding when the walk comes to it.
Reserved(name) == IF name = "Error" THEN {"reserved"} ELSE {}
ErrorOf(use) == IF use.error THEN {"name"} ELSE {}
Walk(use, rules) ==
    /\ steps' = steps + 1
    /\ lastUse' = use
    /\ reported' = reported \cup rules
    /\ UNCHANGED <<declarations, parameters, collected, typeNames, functionNames>>

\* An expression uses a name; an assignment writes to the root of its target.
\* The accesses are those of resolve_assignment_target.
UseName(use) ==
    /\ ExpressionMayBegin
    /\ open' = Used
    /\ Walk(use, ErrorOf(use))
    /\ UNCHANGED <<scopes, bindings, opened, initialized>>
AssignName(name, access) ==
    /\ StatementMayBegin
    /\ open' = Used
    /\ Walk(BindingUse(name, access), ErrorOf(BindingUse(name, access)))
    /\ UNCHANGED <<scopes, bindings, opened, initialized>>

OpenConstruct(kind, taken, name) ==
    /\ Len(open) < MaxDepth
    /\ opened' = opened + 1
    /\ open' = Append(Used, Construct(kind, taken, name))
    /\ Walk(NoUse, Reserved(name))
    /\ UNCHANGED <<bindings, initialized>>
Close ==
    /\ open' = Front(open)
    /\ lastUse' = NoUse
    /\ UNCHANGED <<declarations, parameters, collected, typeNames, functionNames, reported, opened, steps>>

LeaveScope == Front(scopes)

\* resolve_block
OpenBlock ==
    /\ ExpressionMayBegin
    /\ scopes' = Append(scopes, Lexical(<<>>))
    /\ OpenConstruct("block", TRUE, "")
CloseBlock ==
    /\ InBody /\ Top.kind = "block" /\ Len(open) > 2
    /\ scopes' = LeaveScope
    /\ Close /\ UNCHANGED <<bindings, initialized>>

\* Local: the initializer, then declare_local into the innermost scope that
\* takes locals.
OpenLocal(name) ==
    /\ StatementMayBegin /\ UNCHANGED scopes
    /\ OpenConstruct("local", TRUE, name)
DeclareLocal(name, id) ==
    LET level == SelectLastInSeq(scopes, LAMBDA scope : scope.acceptsLocals)
    IN  [scopes EXCEPT ![level].bindings = Append(@, <<name, id>>)]
\* The construct a colon statement in `constructs` stands in: the brace block.
BraceOf(constructs) == SelectLastInSeq(constructs, LAMBDA c : c.kind = "block")
CloseLocal ==
    LET id == Len(bindings) + 1
        around == Front(open)
    IN  /\ InBody /\ Top.kind = "local" /\ Top.used
        /\ scopes' = DeclareLocal(Top.name, id)
        /\ bindings' = Append(bindings, [name |-> Top.name, owner |-> open[BraceOf(around)].id,
                                         conditional |-> around[Len(around)].kind /= "block"])
        /\ initialized' = initialized \cup IF Running THEN {id} ELSE {}
        /\ Close

\* if, while and switch: any number of bodies, of which a run takes at most
\* one; each is a block or one statement.
OpenBranches ==
    /\ StatementMayBegin /\ UNCHANGED scopes
    /\ OpenConstruct("branches", TRUE, "")
OpenBody(taken) ==
    /\ InBody /\ steps < MaxSteps /\ Top.kind = "branches" /\ (taken => Top.name = "")
    /\ Len(open) < MaxDepth /\ opened' = opened + 1
    /\ open' = Append([Used EXCEPT ![Len(open)].name = IF taken THEN "taken" ELSE @],
                      Construct("body", taken, ""))
    /\ Walk(NoUse, {}) /\ UNCHANGED <<scopes, bindings, initialized>>
CloseStatement ==
    /\ InBody /\ Top.kind \in {"body", "branches"} /\ Top.used
    /\ Close /\ UNCHANGED <<scopes, bindings, initialized>>

\* for: its binding is in a scope that takes no locals.
OpenLoop(name, taken) ==
    LET id == Len(bindings) + 1
    IN  /\ StatementMayBegin /\ Len(open) < MaxDepth
        /\ scopes' = Append(scopes, [bindings |-> <<<<name, id>>>>, acceptsLocals |-> FALSE])
        /\ bindings' = Append(bindings, [name |-> name, owner |-> opened + 1, conditional |-> FALSE])
        /\ initialized' = initialized \cup IF Running /\ taken THEN {id} ELSE {}
        /\ opened' = opened + 1
        /\ open' = Append(Used, Construct("loop", taken, name))
        /\ Walk(NoUse, Reserved(name))
CloseLoop ==
    /\ InBody /\ Top.kind = "loop" /\ Top.used
    /\ scopes' = LeaveScope
    /\ Close /\ UNCHANGED <<bindings, initialized>>

Next ==
    \/ CollectDeclaration \/ EnterFunction
    \/ \E name \in Identifiers \cup Intrinsics : UseName(ValueUse(name))
    \/ \E name \in Identifiers \cup Intrinsics : UseName(CallUse(name))
    \/ \E name \in Identifiers : UseName(MemberCallUse(name))
    \/ \E name \in Identifiers, access \in {"write", "mutate", "read write", "read mutate"} :
           AssignName(name, access)
    \/ OpenBlock \/ CloseBlock
    \/ \E name \in Identifiers : OpenLocal(name)
    \/ CloseLocal
    \/ OpenBranches \/ CloseStatement \/ CloseLoop
    \/ \E taken \in BOOLEAN : OpenBody(taken)
    \/ \E name \in Identifiers, taken \in BOOLEAN : OpenLoop(name, taken)

Spec == Init /\ [][Next]_vars

-----------------------------------------------------------------------------
\* What a name means by where it was declared: the declarations whose braces,
\* or whose loop, are still open; of those the innermost, and there the last.
OpenAt(owner) == SelectInSeq(open, LAMBDA c : c.id = owner)
Visible(name) == {b \in DOMAIN bindings : bindings[b].name = name /\ OpenAt(bindings[b].owner) > 0}
Nearest(name) ==
    {b \in Visible(name) : \A other \in Visible(name) :
        \/ OpenAt(bindings[other].owner) < OpenAt(bindings[b].owner)
        \/ OpenAt(bindings[other].owner) = OpenAt(bindings[b].owner) /\ other <= b}
\* All a called name that is no binding could mean.
Callables(name) ==
    {kind \in {"function", "intrinsic", "constructor", "error constructor"} :
        \/ kind = "function" /\ IsFunction(name)
        \/ kind = "intrinsic" /\ name \in Intrinsics
        \/ kind = "constructor" /\ IsType(name)
        \/ kind = "error constructor" /\ name = "Error"}

\* analysis.rs:1749-2119, DESIGN.md:786-790 - a use of a name means the
\* declaration its braces give it, across shadowing, blocks in initializers,
\* loop bindings and statements without braces; and a call that was not
\* reported means exactly one thing.
NamesResolved ==
    (lastUse /= NoUse /\ "duplicate" \notin reported) =>
        IF Visible(lastUse.name) /= {} THEN {lastUse.binding} = Nearest(lastUse.name) /\ ~ lastUse.error
        ELSE /\ lastUse.binding = None
             /\ ~ lastUse.error =>
                    /\ lastUse.access = "call" /\ lastUse.resolution \in Callables(lastUse.name)
             /\ lastUse.access = "call" /\ lastUse.resolution /= "constructor" =>
                    (lastUse.error <=> Cardinality(Callables(lastUse.name)) /= 1)

Reads == reported = {} /\ lastUse.binding /= None /\ lastUse.access /= "write" /\ Running

\* analysis.rs:1806-1812, 1838-1847, 2106-2118 - in every run, a binding that is
\* read holds a value, unless its declaration is the statement of a colon body.
ReadsInitialized ==
    Reads /\ ~ bindings[lastUse.binding].conditional => lastUse.binding \in initialized

\* DESIGN.md:626-627 - "The all-zero representation is an internal null
\* reference and is not a language value": no read of a local finds it.
ReadsFindValues == Reads => lastUse.binding \in initialized
=============================================================================
