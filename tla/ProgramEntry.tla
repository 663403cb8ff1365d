---------------------------- MODULE ProgramEntry ----------------------------
(***************************************************************************)
(* The C main function of a compiled program (c_backend.rs): arguments are *)
(* checked and interned, the arenas are reserved, the program runs, and    *)
(* what was taken is given back.  Strings are equal when their pointers    *)
(* are, so that one text must never have two.  A text is its bytes; an     *)
(* interned string is the literal or pool item it points to.               *)
(***************************************************************************)
EXTENDS Integers, Sequences, FiniteSets, SequencesExt

CONSTANTS
    Texts,           \* the texts arguments may be
    TextHash,        \* their hashes (FNV-1a), which may collide
    NonAscii,        \* the texts that are not ASCII
    LiteralLists,    \* the texts of the string literals of the program
    MaxArguments     \* of the command line

EntryAssumption == LiteralLists \subseteq Seq(Texts) /\ MaxArguments \in Nat

VARIABLES
    phase,
    takesArguments,  \* whether main has a parameter
    literals,        \* collect_strings: each text once
    argv,
    pool,            \* sao2_entry_intern_pool, with its capacity
    arguments,       \* the list handed to main: pointers
    held,            \* what is held: "heap", "scoped", "frame"
    exit             \* "success", "status", "panic", or "" while it runs

vars == <<phase, takesArguments, literals, argv, pool, arguments, held, exit>>

NoPool == [texts |-> <<>>, capacity |-> 0]

Null == [in |-> "nowhere", at |-> 0]
Literal(i) == [in |-> "literal", at |-> i]
Pooled(i) == [in |-> "pool", at |-> i]
TextOf(pointer) == IF pointer.in = "literal" THEN literals[pointer.at] ELSE pool.texts[pointer.at]

\* collect_strings: the texts of the operands in order, each once.
Collected(texts) ==
    LET found[n \in 0..Len(texts)] ==
            IF n = 0 THEN <<>>
            ELSE IF texts[n] \in Range(found[n - 1]) THEN found[n - 1]
            ELSE Append(found[n - 1], texts[n])
    IN  found[Len(texts)]

\* sao2_entry_intern: the first with this hash and these bytes, or Null.
Matches(candidate, text) == TextHash[candidate] = TextHash[text] /\ candidate = text
FirstAt(texts, text) ==
    IF \E i \in DOMAIN texts : Matches(texts[i], text)
    THEN CHOOSE i \in DOMAIN texts : Matches(texts[i], text) /\ \A k \in 1..i - 1 : ~ Matches(texts[k], text)
    ELSE 0

\* Mutation: arguments are looked for among the arguments only.
InternedApart(text) ==
    IF FirstAt(pool.texts, text) > 0 THEN Pooled(FirstAt(pool.texts, text)) ELSE Null

Interned(text) ==
    IF FirstAt(literals, text) > 0 THEN Literal(FirstAt(literals, text))
    ELSE IF FirstAt(pool.texts, text) > 0 THEN Pooled(FirstAt(pool.texts, text))
    ELSE Null

\* sao2_entry_pool_reserve.
Reserved ==
    IF Len(pool.texts) < pool.capacity THEN pool.capacity
    ELSE 2 * (IF pool.capacity = 0 THEN 4 ELSE pool.capacity)

-----------------------------------------------------------------------------
Init ==
    /\ phase = "arguments"
    /\ takesArguments \in BOOLEAN
    /\ \E texts \in LiteralLists : literals = Collected(texts)
    /\ \E n \in 0..MaxArguments : argv \in [1..n -> Texts]
    /\ pool = NoPool
    /\ arguments = <<>>
    /\ held = {}
    /\ exit = ""

\* The process ends: sao2_arena_runtime_release, which expects no frame, and
\* sao2_entry_pool_dispose.
Release(how) ==
    /\ held' = IF "frame" \in held THEN held ELSE {}
    /\ pool' = NoPool
    /\ exit' = IF "frame" \in held THEN "internal error" ELSE how
    /\ phase' = "over"
    /\ UNCHANGED <<takesArguments, literals, argv, arguments>>

\* sao2_pre_entry_panic_argument.
RejectArguments ==
    /\ phase = "arguments"
    /\ takesArguments /\ \E i \in DOMAIN argv : argv[i] \in NonAscii
    /\ exit' = "panic" /\ phase' = "over"
    /\ UNCHANGED <<takesArguments, literals, argv, pool, arguments, held>>

\* sao2_arena_runtime_init: a second arena that cannot be reserved gives back
\* the first.
Reserve ==
    /\ phase = "arguments"
    /\ takesArguments => \A i \in DOMAIN argv : argv[i] \notin NonAscii
    /\ \/ /\ held' = {"heap", "scoped"} /\ phase' = "frame"
          /\ UNCHANGED exit
       \/ /\ exit' = "panic" /\ phase' = "over"
          /\ UNCHANGED held
    /\ UNCHANGED <<takesArguments, literals, argv, pool, arguments>>

\* The frame that roots the list of arguments.
LinkFrame ==
    /\ phase = "frame"
    /\ held' = IF takesArguments THEN held \cup {"frame"} ELSE held
    /\ phase' = IF takesArguments /\ argv /= <<>> THEN "intern" ELSE "call"
    /\ UNCHANGED <<takesArguments, literals, argv, pool, arguments, exit>>

\* One iteration of sao2_entry_build_args.
InternNext ==
    /\ phase = "intern"
    /\ LET text == argv[Len(arguments) + 1]
       IN  IF Interned(text) /= Null
           THEN /\ arguments' = Append(arguments, Interned(text))
                /\ UNCHANGED pool
           ELSE /\ pool' = [texts |-> Append(pool.texts, text), capacity |-> Reserved]
                /\ arguments' = Append(arguments, Pooled(Len(pool.texts) + 1))
    /\ phase' = IF Len(arguments') = Len(argv) THEN "call" ELSE "intern"
    /\ UNCHANGED <<takesArguments, literals, argv, held, exit>>

\* sao2_entry_fail: an allocation of the list or of the pool failed; the frame
\* is unlinked before the arenas go.
FailArguments ==
    /\ phase = "intern" \/ (phase = "call" /\ takesArguments /\ arguments = <<>>)
    /\ held' = {} /\ pool' = NoPool
    /\ exit' = "panic" /\ phase' = "over"
    /\ UNCHANGED <<takesArguments, literals, argv, arguments>>

\* main returns, or it panics, which is exit(): nothing is given back.
Run ==
    /\ phase = "call"
    /\ \/ phase' = "returned" /\ UNCHANGED exit
       \/ phase' = "over" /\ exit' = "panic"
    /\ UNCHANGED <<takesArguments, literals, argv, pool, arguments, held>>

Unlink ==
    /\ phase = "returned"
    /\ held' = held \ {"frame"}
    /\ phase' = "unlinked"
    /\ UNCHANGED <<takesArguments, literals, argv, pool, arguments, exit>>

\* A status outside the range of int is a panic.
Finish ==
    /\ phase = "unlinked"
    /\ \E how \in {"success", "status", "panic"} : Release(how)

Next ==
    \/ RejectArguments \/ Reserve \/ LinkFrame \/ InternNext \/ FailArguments
    \/ Run \/ Unlink \/ Finish

Spec == Init /\ [][Next]_vars

-----------------------------------------------------------------------------
EntryTypeOK ==
    /\ phase \in {"arguments", "frame", "intern", "call", "returned", "unlinked", "over"}
    /\ Range(literals) \cup Range(argv) \cup Range(pool.texts) \subseteq Texts
    /\ Len(pool.texts) <= pool.capacity
    /\ held \subseteq {"heap", "scoped", "frame"}
    /\ exit \in {"", "success", "status", "panic", "internal error"}

\* c_backend.rs:2887-2916,3712-3713,5776-5797 - while the program runs, its
\* strings, the literals and the arguments it was given, have one pointer for
\* one text and two for two, whatever their hashes; and it was given the
\* arguments in their order.
InternedByContents ==
    phase \in {"call", "returned"} =>
        LET pointers == {Literal(i) : i \in DOMAIN literals} \cup Range(arguments)
        IN  /\ \A p \in pointers, q \in pointers : TextOf(p) = TextOf(q) <=> p = q
            /\ takesArguments => [i \in DOMAIN arguments |-> TextOf(arguments[i])] = argv

\* c_backend.rs:2947-2963,3549-3627,4267-4284 - the arenas are given back on
\* every way out but a panic of the running program, after the frame that
\* points into them, and never with an internal error.
ReleasedInOrder ==
    /\ exit \in {"success", "status"} => held = {} /\ pool = NoPool
    /\ exit /= "internal error"
=============================================================================
