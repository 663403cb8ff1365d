------------------------------- MODULE Types -------------------------------
(***************************************************************************)
(* Type declarations from their syntax to a layout: what analysis.rs       *)
(* accepts, what ir.rs validates once more, and what the planners of       *)
(* c_backend.rs then have to be able to lay out and trace.  Each of the    *)
(* three walks the same graph of definitions with code of its own.         *)
(*                                                                         *)
(* A type is a record [kind, name, of]: kind "unit", "int", "float",       *)
(* "list", "map", "named", "union", "tagged", "group" (parentheses); name  *)
(* is a tag or a definition; of holds the types below it.  Interning makes *)
(* equal types one type, so that a resolved type is its own identity.      *)
(* "int" also stands for str, "bool" for the one-byte key, "char" for the  *)
(* one-byte value that is no key.                                          *)
(***************************************************************************)
EXTENDS Naturals, Sequences, FiniteSets, SequencesExt

CONSTANTS
    Programs         \* sets of declarations to try: sequences of [name, members]

VARIABLES
    declared,        \* the program's type declarations, in source order
    stage,
    kinds,           \* the definitions resolved so far: [form, members]
    mapKeys,         \* pending_map_keys
    reported,        \* the rules of which a violation was reported
    aggregates,      \* LayoutPlan.aggregates, dependencies first
    structs          \* LayoutPlan.structs, inline members first

vars == <<declared, stage, kinds, mapKeys, reported, aggregates, structs>>

Type(kind, name, of) == [kind |-> kind, name |-> name, of |-> of]
Failed == Type("error", "", <<>>)
Payload(alternative) == alternative.of[1]
Payloads(alternatives) == [i \in DOMAIN alternatives |-> Payload(alternatives[i])]

DeclaredNames == {declared[i].name : i \in DOMAIN declared}
Form(name) == kinds[name].form
IsStruct(type) == type.kind = "named" /\ Form(type.name) = "struct"
Primitives == {"int", "float", "bool", "char"}

-----------------------------------------------------------------------------
\* resolve_type.  An alternative is [kind |-> "untagged", "tagged" or "Error"].
Alternative(type) ==
    IF type.kind /= "tagged" THEN [type |-> type, kind |-> "untagged", name |-> ""]
    ELSE [type |-> Payload(type), name |-> type.name,
          kind |-> IF type.name = "Error" THEN "Error" ELSE "tagged"]

\* The rules on the alternatives of a union, which hold of `resolved`.
AlternativesAgree(resolved) ==
    /\ \A i, j \in DOMAIN resolved :
           /\ i /= j /\ resolved[i].kind /= "untagged" => resolved[i].name /= resolved[j].name
           /\ i /= j /\ resolved[i].kind = "untagged" => resolved[i] /= resolved[j]
           /\ ~ (resolved[i].kind = "tagged" /\ resolved[j].kind = "untagged")
    /\ \A i \in DOMAIN resolved :
           resolved[i].kind = "Error" =>
               i = Len(resolved) /\ Payload(resolved[i]).kind \in Primitives

\* resolved.sort(): the Error alternative is the greatest.
Canonical(resolved) ==
    SetToSeq({a \in Range(resolved) : a.kind /= "Error"})
    \o SetToSeq({a \in Range(resolved) : a.kind = "Error"})

RECURSIVE Resolve(_)
Resolve(type) ==
    LET below == [i \in DOMAIN type.of |-> Resolve(type.of[i])]
        failed == \E i \in DOMAIN below : below[i] = Failed
        alternatives ==
            [i \in DOMAIN type.of |->
                LET a == Alternative(type.of[i]) IN Type(a.kind, a.name, <<Resolve(a.type)>>)]
    IN  CASE type.kind = "named" -> IF type.name \in DeclaredNames THEN type ELSE Failed
          [] type.kind = "group" -> Resolve(Payload(type))
          [] type.kind = "tagged" -> Failed
          [] type.kind = "union" ->
                 IF (\E i \in DOMAIN alternatives : Payload(alternatives[i]) = Failed)
                    \/ ~ AlternativesAgree(alternatives)
                 THEN Failed ELSE Type("union", "", Canonical(alternatives))
          [] OTHER -> IF failed THEN Failed ELSE Type(type.kind, type.name, below)

RECURSIVE MapKeysIn(_)
MapKeysIn(type) ==
    UNION {MapKeysIn(type.of[i]) : i \in DOMAIN type.of}
    \cup IF type.kind = "map" /\ Resolve(type) /= Failed THEN {Resolve(type.of[1])} ELSE {}

-----------------------------------------------------------------------------
\* resolve_type_definition: [form, members, broken], a member being
\* [label, referenced, type].
Definition(members) ==
    LET named == {i \in DOMAIN members : members[i].label /= ""}
        mixed == named /= {} /\ named /= DOMAIN members
        bare == \E i \in DOMAIN members : members[i].type.kind = "union"
        resolved == [i \in DOMAIN members |-> [members[i] EXCEPT !.type = Resolve(members[i].type)]]
        unresolved == \E i \in DOMAIN members : resolved[i].type = Failed
        Is(form, parts, broken) == [form |-> form, members |-> parts, broken |-> broken]
    IN  CASE mixed -> Is("invalid", <<>>, TRUE)
          [] ~ mixed /\ bare /\ (Len(members) > 1 \/ named /= {} \/ unresolved) ->
                 Is("invalid", <<>>, TRUE)
          [] ~ mixed /\ bare /\ Len(members) = 1 /\ named = {} /\ ~ unresolved ->
                 Is("union", resolved[1].type.of, FALSE)
          [] ~ mixed /\ ~ bare /\ named /= {} ->
                 Is("struct", resolved,
                    unresolved \/ \E i, j \in named : i /= j /\ members[i].label = members[j].label)
          [] ~ mixed /\ ~ bare /\ named = {} -> Is("tuple", resolved, unresolved)

\* The types a definition is built of; those that did not resolve are left out.
Parts(name) ==
    LET definition == kinds[name]
    IN  IF definition.form = "union" THEN Payloads(definition.members)
        ELSE SelectSeq([i \in DOMAIN definition.members |-> definition.members[i].type],
                       LAMBDA type : type /= Failed)

\* is_valid_map_key, and the same question in ir.rs (a definition met again is
\* no key) and in escape.rs and c_backend.rs (it is one).
RECURSIVE ValidKey(_, _, _)
ValidKey(type, visiting, again) ==
    CASE type.kind \in {"unit", "int", "bool"} -> TRUE
      [] type.kind = "named" ->
             IF type.name \in visiting THEN again
             ELSE /\ Form(type.name) = "tuple"
                  /\ \A i \in DOMAIN kinds[type.name].members :
                         ValidKey(kinds[type.name].members[i].type, visiting \cup {type.name}, again)
      [] OTHER -> FALSE

-----------------------------------------------------------------------------
\* collect_inline_type_dependencies.  It goes through a union declaration
\* without remembering it; `inside` tells the model that it never returns.
Endless == "endless"
RECURSIVE Collected(_, _)
Collected(type, inside) ==
    LET Through(alternatives, names) ==
            UNION {Collected(Payload(alternatives[i]), names) : i \in DOMAIN alternatives}
    IN  CASE type.kind = "named" ->
                 (CASE Form(type.name) = "tuple" -> {type.name}
                    [] Form(type.name) = "union" ->
                           IF type.name \in inside THEN {Endless}
                           ELSE Through(kinds[type.name].members, inside \cup {type.name})
                    [] OTHER -> {})
          [] type.kind = "union" -> Through(type.of, inside)
          [] OTHER -> {}

\* inline_dependencies
InlineDependencies(name) ==
    IF Form(name) = "struct"
    THEN UNION {IF IsStruct(member.type) THEN {member.type.name} ELSE Collected(member.type, {}) :
             member \in {m \in Range(kinds[name].members) : ~ m.referenced /\ m.type /= Failed}}
    ELSE UNION {Collected(part, {}) : part \in Range(Parts(name))}

\* layout_reaches, with the definitions that were visited threaded through:
\* what is visited is what can be reached before the target.
RECURSIVE VisitedFrom(_)
VisitedFrom(names) ==
    LET next == names \cup UNION {InlineDependencies(n) : n \in names \ {Endless}}
    IN  IF next = names THEN names ELSE VisitedFrom(next)

\* Mutation: only the definition's own members are looked at.
ReachesDirectly(target) == target \in InlineDependencies(target)
LayoutReaches(target) == target \in VisitedFrom(InlineDependencies(target))
NeverReturns == \E name \in DOMAIN kinds : Endless \in VisitedFrom({name})

-----------------------------------------------------------------------------
\* The types of the lowered program: every type that was interned.
RECURSIVE Subtypes(_)
Subtypes(type) ==
    {type} \cup UNION {Subtypes(IF type.kind = "union" THEN Payload(type.of[i]) ELSE type.of[i]) :
                          i \in DOMAIN type.of}
ProgramTypes ==
    {Type("named", name, <<>>) : name \in DeclaredNames}
    \cup UNION {Subtypes(part) : part \in UNION {Range(Parts(name)) : name \in DeclaredNames}}

\* validate_type, validate_definition, validate_alternatives, storage_is_legal
ValidateAlternatives(alternatives) ==
    /\ Len(alternatives) >= 2
    /\ \A i \in DOMAIN alternatives :
           CASE alternatives[i].kind = "Error" ->
                    i = Len(alternatives) /\ Payload(alternatives[i]).kind \in Primitives
             [] OTHER ->
                    \A j \in 1..i - 1 : alternatives[j].kind = alternatives[i].kind
                                        /\ alternatives[j] /= alternatives[i]
                                        /\ (alternatives[i].kind = "tagged"
                                              => alternatives[j].name /= alternatives[i].name)
ValidDefinition(name) ==
    /\ Form(name) /= "invalid" /\ kinds[name].members /= <<>>
    /\ Form(name) = "union" => ValidateAlternatives(kinds[name].members)
    /\ Form(name) = "struct" =>
           /\ \A i, j \in DOMAIN kinds[name].members :
                  i /= j => kinds[name].members[i].label /= kinds[name].members[j].label
           /\ \A member \in Range(kinds[name].members) : member.referenced => IsStruct(member.type)
ValidType(type) ==
    /\ type.kind = "map" => ValidKey(type.of[1], {}, FALSE)
    /\ type.kind = "union" => ValidateAlternatives(type.of)

-----------------------------------------------------------------------------
\* LayoutPlanner: an aggregate is a tuple, a union declaration or a union type.
IsAggregate(type) == type.kind = "union" \/ (type.kind = "named" /\ ~ IsStruct(type))
Fields(aggregate) == IF aggregate.kind = "union" THEN Payloads(aggregate.of) ELSE Parts(aggregate.name)
Dependencies(aggregate) == SelectSeq(Fields(aggregate), IsAggregate)

\* visit: the order and the aggregates being visited; Failed marks a cycle.
RECURSIVE Visit(_, _, _)
Visit(order, visiting, aggregate) ==
    CASE Failed \in Range(order) \/ aggregate \in Range(order) -> order
      [] aggregate \notin Range(order) /\ aggregate \in visiting -> Append(order, Failed)
      [] OTHER -> Append(FoldLeft(LAMBDA sofar, d : Visit(sofar, visiting \cup {aggregate}, d),
                                  order, Dependencies(aggregate)),
                         aggregate)

AlignUp(offset, align) == IF offset % align = 0 THEN offset ELSE offset + (align - (offset % align))

Larger(a, b) == IF a > b THEN a ELSE b

\* body_field_physical and aggregate_physical: <<size, alignment>>.
RECURSIVE Physical(_, _)
Placed(sizes) ==
    FoldLeft(LAMBDA sofar, size :
                [offsets |-> Append(sofar.offsets, AlignUp(sofar.end, size[2])),
                 end |-> AlignUp(sofar.end, size[2]) + size[1],
                 align |-> Larger(sofar.align, size[2])],
             [offsets |-> <<>>, end |-> 0, align |-> 1], sizes)
Physical(type, inline) ==
    LET layout == CHOOSE s \in Range(structs) : s.name = type.name
        sizes == [i \in DOMAIN Fields(type) |-> Physical(Fields(type)[i], FALSE)]
        placed == Placed(sizes)
        size == FoldLeft(LAMBDA most, s : Larger(most, s[1]), 0, sizes)
    IN  CASE type.kind \in {"unit", "bool", "char"} -> <<1, 1>>
          [] type.kind \in {"int", "float"} -> <<8, 8>>
          [] type.kind \in {"list", "map"} -> <<8, 4>>
          [] type.kind = "named" /\ Form(type.name) = "struct" ->
                 IF inline THEN <<layout.size, layout.align>> ELSE <<8, 4>>
          [] type.kind = "named" /\ Form(type.name) = "tuple" ->
                 <<AlignUp(placed.end, placed.align), placed.align>>
          [] OTHER -> LET align == Larger(4, placed.align)
                      IN  <<AlignUp(AlignUp(4, placed.align) + size, align), align>>

\* visit_struct: its inline structs first, then its own fields.
InlineStructs(name) ==
    LET members == SelectSeq(kinds[name].members, LAMBDA m : ~ m.referenced /\ IsStruct(m.type))
    IN  [i \in DOMAIN members |-> members[i].type.name]
RECURSIVE StructOrder(_, _, _)
StructOrder(order, visiting, name) ==
    CASE Endless \in Range(order) \/ name \in Range(order) -> order
      [] name \notin Range(order) /\ name \in visiting -> Append(order, Endless)
      [] OTHER -> Append(FoldLeft(LAMBDA sofar, n : StructOrder(sofar, visiting \cup {name}, n),
                                  order, InlineStructs(name)),
                         name)
StructLayout(name) ==
    LET members == kinds[name].members
        sizes == [i \in DOMAIN members |-> Physical(members[i].type, ~ members[i].referenced)]
        placed == Placed(sizes)
    IN  [name |-> name, size |-> AlignUp(placed.end, placed.align), align |-> placed.align,
         offsets |-> placed.offsets, sizes |-> sizes]

-----------------------------------------------------------------------------
\* What holds a reference.
\* contains_traceable_inner: does a value hold a reference at all?
RECURSIVE Traceable(_, _)
Traceable(type, visiting) ==
    CASE IsAggregate(type) -> type \notin visiting
                              /\ \E i \in DOMAIN Fields(type) : Traceable(Fields(type)[i], visiting \cup {type})
      [] OTHER -> IsStruct(type) \/ type.kind \in {"list", "map"}

\* Mutation: only the first field is asked.
TraceShapeOfFirst(aggregate) == IsStruct(Fields(aggregate)[1]) \/ Fields(aggregate)[1].kind \in {"list", "map"}

\* TracePlanner.type_contains_reference of an aggregate, over those planned
\* before it, and the aggregate_callbacks.
TraceShape(aggregate) ==
    LET before == SelectInSeq(aggregates, LAMBDA a : a = aggregate)
        Carries[i \in 1..before] ==
            \E f \in Range(Fields(aggregates[i])) :
                \/ IsStruct(f) \/ f.kind \in {"list", "map"}
                \/ \E j \in 1..i - 1 : aggregates[j] = f /\ Carries[j]
    IN  Carries[before]

-----------------------------------------------------------------------------
NoKinds == [name \in {} |-> {}]
Init ==
    /\ declared \in Programs
    /\ stage = "resolve" /\ kinds = NoKinds /\ mapKeys = {} /\ reported = {}
    /\ aggregates = <<>> /\ structs = <<>>

\* One turn of resolve_type_definitions.
ResolveDefinition ==
    LET next == Cardinality(DOMAIN kinds) + 1
        members == declared[next].members
        definition == Definition(members)
    IN  /\ stage = "resolve" /\ next <= Len(declared)
        /\ kinds' = [name \in DOMAIN kinds \cup {declared[next].name} |->
                        IF name = declared[next].name THEN [form |-> definition.form, members |-> definition.members]
                        ELSE kinds[name]]
        /\ mapKeys' = mapKeys \cup UNION {MapKeysIn(members[i].type) : i \in DOMAIN members}
        /\ reported' = reported \cup IF definition.broken THEN {"definition"} ELSE {}
        /\ UNCHANGED <<declared, stage, aggregates, structs>>

Check(from, to, rule, broken) ==
    /\ stage = from /\ stage' = to
    /\ reported' = reported \cup IF broken THEN {rule} ELSE {}
    /\ UNCHANGED <<declared, kinds, mapKeys, aggregates, structs>>

ValidateReferencedStorage ==
    /\ Cardinality(DOMAIN kinds) = Len(declared)
    /\ Check("resolve", "keys", "referenced storage",
             \E name \in DeclaredNames : Form(name) = "struct" /\
                 \E member \in Range(kinds[name].members) :
                     member.referenced /\ member.type /= Failed /\ ~ IsStruct(member.type))
ValidateMapKeys ==
    Check("keys", "layouts", "map key", \E key \in mapKeys : ~ ValidKey(key, {}, FALSE))

\* validate_inline_layouts; without an answer the compiler's stack overflows.
ValidateInlineLayouts ==
    /\ stage = "layouts" /\ ~ NeverReturns
    /\ Check("layouts", "analyzed", "infinite layout", \E name \in DeclaredNames : LayoutReaches(name))
Overflow ==
    /\ stage = "layouts" /\ NeverReturns
    /\ Check("layouts", "overflow", "", FALSE)

\* The end of analysis, and lowering with ir::Program::validate.
Reject == reported /= {} /\ Check("analyzed", "rejected", "", FALSE)
Lower ==
    /\ stage = "analyzed" /\ reported = {}
    /\ Check("analyzed",
             IF (\A name \in DeclaredNames : ValidDefinition(name)) /\ (\A type \in ProgramTypes : ValidType(type))
             THEN "lowered" ELSE "invariant", "", FALSE)

\* LayoutPlanner.plan: the aggregates, then the structs one by one, then the
\* container types with what their keys need.
PlanAggregates ==
    LET order == FoldLeft(LAMBDA sofar, root : Visit(sofar, {}, root), <<>>,
                          SetToSeq({type \in ProgramTypes : IsAggregate(type)}))
    IN  /\ stage = "lowered"
        /\ stage' = IF Failed \in Range(order) THEN "invariant" ELSE "structs"
        /\ aggregates' = order
        /\ UNCHANGED <<declared, kinds, mapKeys, reported, structs>>
AllStructs == SelectSeq([i \in DOMAIN declared |-> declared[i].name], LAMBDA n : Form(n) = "struct")
PlanStruct ==
    LET order == FoldLeft(LAMBDA sofar, name : StructOrder(sofar, {}, name), <<>>, AllStructs)
    IN  /\ stage = "structs" /\ Len(structs) < Len(AllStructs)
        /\ IF Endless \in Range(order) THEN stage' = "invariant" /\ UNCHANGED structs
           ELSE UNCHANGED stage /\ structs' = Append(structs, StructLayout(order[Len(structs) + 1]))
        /\ UNCHANGED <<declared, kinds, mapKeys, reported, aggregates>>
PlanContainers ==
    /\ stage = "structs" /\ Len(structs) = Len(AllStructs)
    /\ Check("structs",
             IF \A type \in ProgramTypes : type.kind = "map" => ValidKey(type.of[1], {}, TRUE)
             THEN "planned" ELSE "invariant", "", FALSE)

Next ==
    \/ ResolveDefinition \/ ValidateReferencedStorage \/ ValidateMapKeys
    \/ ValidateInlineLayouts \/ Overflow \/ Reject \/ Lower
    \/ PlanAggregates \/ PlanStruct \/ PlanContainers

Spec == Init /\ [][Next]_vars

-----------------------------------------------------------------------------
\* What holds what by value, over all definitions: a struct its inline struct
\* members, a tuple or a union the tuples and unions in it, through unions.
RECURSIVE ByValue(_)
ByValue(type) ==
    IF type.kind = "union" THEN UNION {ByValue(Payload(type.of[i])) : i \in DOMAIN type.of}
    ELSE IF type.kind = "named" /\ ~ IsStruct(type) THEN {type.name} ELSE {}
Held(name) ==
    IF Form(name) = "struct"
    THEN UNION {IF IsStruct(m.type) THEN {m.type.name} ELSE ByValue(m.type) :
                   m \in {m \in Range(kinds[name].members) : ~ m.referenced /\ m.type /= Failed}}
    ELSE UNION {ByValue(part) : part \in Range(Parts(name))}
RECURSIVE HeldFrom(_)
HeldFrom(names) ==
    LET next == names \cup UNION {Held(n) : n \in names} IN IF next = names THEN names ELSE HeldFrom(next)
HoldsItself == \E name \in DOMAIN kinds : name \in HeldFrom(Held(name))

\* analysis.rs:1516-1633 against c_backend.rs:804-1160 and ir.rs:1319-1404 - a
\* program analysis accepts is one that the IR validator and both planners can
\* take: no definition in it holds itself by value, so that no walk meets the
\* definition it is in; and one that breaks no other rule is only rejected when
\* a definition does hold itself.
AcceptedIsPlanned ==
    /\ stage /= "invariant"
    /\ stage \in {"lowered", "structs", "planned"} => ~ HoldsItself
    /\ reported = {"infinite layout"} => HoldsItself

\* c_backend.rs:1017-1150, 2395-2470 - every aggregate is laid out after those
\* it holds, and every struct after its inline structs; the fields of a body
\* are aligned and do not overlap, and fill no more than its size.
BodiesLaidOut ==
    stage = "planned" =>
        /\ \A i \in DOMAIN aggregates :
               Range(Dependencies(aggregates[i])) \subseteq {aggregates[j] : j \in 1..i - 1}
        /\ \A i \in DOMAIN structs :
               /\ Range(InlineStructs(structs[i].name)) \subseteq {structs[j].name : j \in 1..i - 1}
               /\ structs[i].size % structs[i].align = 0
               /\ \A f \in DOMAIN structs[i].offsets :
                      LET start == structs[i].offsets[f]
                          size == structs[i].sizes[f]
                      IN  /\ start % size[2] = 0 /\ structs[i].align % size[2] = 0
                          /\ start + size[1] <= structs[i].size
                          /\ \A g \in 1..f - 1 :
                                 structs[i].offsets[g] + structs[i].sizes[g][1] <= start

\* c_backend.rs:655-767, escape.rs:322-341 - the tracer's plan, made type by type
\* from what was planned before, and the escape analysis, which follows types to
\* their ends, agree on which values hold a reference: nothing is placed or kept
\* as a root by one of them that the other passes over.
TracersAgree ==
    stage = "planned" =>
        \A type \in ProgramTypes :
            IsAggregate(type) => TraceShape(type) = Traceable(type, {})

\* DESIGN.md:158-161 - "A recursive tuple or inline-struct definition that would
\* have infinite size is rejected": a union that holds itself by value too.
InfiniteIsRejected == stage /= "overflow"
=============================================================================
