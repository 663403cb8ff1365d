----------------------------- MODULE TypeRules -----------------------------
(***************************************************************************)
(* What it means for a function body to be well typed, said at once: the   *)
(* rules of src/DESIGN.md for construction, implicit injection into a      *)
(* union, narrowing and postfix `?`.  The compiler decides it in three     *)
(* passes (module Typing), which these rules judge.                        *)
(*                                                                         *)
(* A type is a record of its kind and of its parts; a part is a member, an *)
(* element or an alternative.  An expression or statement is a record of   *)
(* its operation, of the name and the type it mentions, and of its parts.  *)
(***************************************************************************)
EXTENDS Integers, Sequences, FiniteSets

Kind(k) == [k |-> k, of |-> <<>>]
IntType == Kind("int")
BoolType == Kind("bool")
UnitType == Kind("unit")
NoType == Kind("none")
Part(tag, ty) == [tag |-> tag, ty |-> ty]
ListOf(t) == [k |-> "list", of |-> <<Part("element", t)>>]
Parts(t) == {t.of[i] : i \in DOMAIN t.of}
Alternatives(t) == IF t.k \in {"union", "choice"} THEN Parts(t) ELSE {}

Kids(n) == DOMAIN n.args
Lists(t) == IF t.k = "list" THEN {t}                \* the list types that a list
            ELSE {a.ty : a \in {b \in Alternatives(t) : b.tag = "plain" /\ b.ty.k = "list"}}
Container(t) == IF Cardinality(Lists(t)) = 1 THEN CHOOSE l \in Lists(t) : TRUE ELSE NoType
Element(t) == t.of[1].ty                            \* literal wanted as a `t` may have
Selects(label, a) == a.tag = label.tag /\ (label.tag = "plain" => a.ty = label.ty)
Selected(label, t) == {a \in Alternatives(t) : Selects(label, a)}

-----------------------------------------------------------------------------
(* The type of an expression where nothing is wanted, and whether it may   *)
(* stand where a `t` is wanted.  `env` gives the names their types, the    *)
(* narrowed ones their payloads; `result` is what the function returns.    *)

Successes(t) == {a \in Alternatives(t) : a.tag # "Error"}
Failures(t) == Alternatives(t) \ Successes(t)
Propagates(t, result) == Cardinality(Failures(t)) = 1 /\ Failures(t) \subseteq Failures(result)

\* An `is` test of a name narrows it where the test is known to hold.
Narrowing(test, env) ==
  IF test.op = "is" /\ test.args[1].op = "id" /\ Selected(test.ty.of[1], env[test.args[1].name]) # {}
  THEN [env EXCEPT ![test.args[1].name] = (CHOOSE a \in Selected(test.ty.of[1], @) : TRUE).ty]
  ELSE env

RECURSIVE TypeOf(_, _, _), Stands(_, _, _, _)
AllStand(n, wanted, env, result) ==
  /\ Len(n.args) = Len(wanted)
  /\ \A i \in Kids(n) : Stands(n.args[i], wanted[i].ty, env, result)

TypeOf(n, env, result) ==
  LET Of(i) == TypeOf(n.args[i], env, result)
      OneType == {Of(i) : i \in Kids(n)}
  IN
  CASE n.op = "lit" -> n.ty
    [] n.op = "id" -> env[n.name]
    [] n.op = "list" -> IF Cardinality(OneType) = 1 /\ NoType \notin OneType THEN ListOf(Of(1)) ELSE NoType
    [] n.op = "add" -> IF OneType = {IntType} THEN IntType ELSE NoType
    [] n.op = "index" -> IF Of(1).k = "list" /\ Of(2) = IntType THEN Element(Of(1)) ELSE NoType
    [] n.op = "if" -> LET then == TypeOf(n.args[2], Narrowing(n.args[1], env), result)
                      IN IF Of(1) = BoolType /\ (then = Of(3) \/ n.args[3].op = "panic") THEN then ELSE NoType
    [] n.op = "call" -> IF AllStand(n, Tail(n.ty.of), env, result) THEN n.ty.of[1].ty ELSE NoType
    [] n.op \in {"struct", "tag"} ->
         LET wanted == IF n.op = "struct" THEN n.ty.of
                       ELSE SelectSeq(n.ty.of, LAMBDA a : a.tag = n.name)
         IN IF AllStand(n, wanted, env, result) THEN n.ty ELSE NoType
    [] n.op = "wrap" ->                                 \* an empty list is its list alternative
         IF \/ Part("plain", Of(1)) \in Parts(n.ty)
            \/ n.args[1].op = "list" /\ n.args[1].args = <<>> /\ Container(n.ty) # NoType
         THEN n.ty ELSE NoType
    [] n.op = "append" -> IF Of(1).k = "list" /\ Stands(n.args[2], Element(Of(1)), env, result)
                          THEN UnitType ELSE NoType
    [] n.op = "is" -> IF Selected(n.ty.of[1], Of(1)) # {} THEN BoolType ELSE NoType
    [] n.op = "try" -> IF Propagates(Of(1), result) /\ Cardinality(Successes(Of(1))) = 1
                       THEN (CHOOSE a \in Successes(Of(1)) : TRUE).ty ELSE NoType
    [] OTHER -> NoType

Stands(n, t, env, result) ==
  CASE n.op = "list" /\ Container(t) # NoType ->
         \A i \in Kids(n) : Stands(n.args[i], Element(Container(t)), env, result)
    [] n.op = "if" -> /\ TypeOf(n.args[1], env, result) = BoolType
                      /\ Stands(n.args[2], t, Narrowing(n.args[1], env), result)
                      /\ Stands(n.args[3], t, env, result)
    [] n.op = "panic" -> TRUE
    [] n.op = "fail" -> \E a \in Failures(t) : Stands(n.args[1], a.ty, env, result)
    [] OTHER -> LET of == TypeOf(n, env, result)
                IN of # NoType /\ (of = t \/ Part("plain", of) \in Alternatives(t))

-----------------------------------------------------------------------------
(* Statements, in order.  Assigning a name gives it back the type it was   *)
(* declared with; the body that a `when` guards is narrowed by its test.   *)

RECURSIVE BodyTyped(_, _, _, _)
BodyTyped(body, env, declared, result) ==
  body = <<>> \/
  LET s == Head(body)
      Rest(e, d) == BodyTyped(Tail(body), e, d, result)
      of == TypeOf(s.args[1], env, result)
  IN
  CASE s.op = "local" -> of # NoType /\ Rest([env EXCEPT ![s.name] = of], [declared EXCEPT ![s.name] = of])
    [] s.op = "assign" -> /\ Stands(s.args[1], declared[s.name], env, result)
                          /\ Rest([env EXCEPT ![s.name] = declared[s.name]], declared)
    [] s.op = "eval" -> of # NoType /\ Rest(env, declared)
    [] s.op = "return" -> Stands(s.args[1], result, env, result) /\ Rest(env, declared)
    [] s.op = "when" -> /\ of = BoolType
                        /\ BodyTyped(Tail(s.args), Narrowing(s.args[1], env), declared, result)
                        /\ Rest(declared, declared)

WellTyped(p) == BodyTyped(p.body, p.names, p.names, p.result)
=============================================================================
