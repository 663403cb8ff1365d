------------------------------- MODULE Driver -------------------------------
(***************************************************************************)
(* The driver of the compiler, from the command line to the exit code      *)
(* (lib.rs, compiler.rs, host_compiler.rs, program.rs), and the files that *)
(* one invocation leaves in the build directory for the next.              *)
(*                                                                         *)
(* A source file is a model value that also stands for the C generated     *)
(* from it and for the executable made from that C.  Each phase may fail;  *)
(* so may each use of the file system, the C compiler and the program.     *)
(***************************************************************************)
EXTENDS CommandLine, FiniteSets

CONSTANTS
    Sources,          \* the source files there are
    Lines,            \* the command lines that are given
    MaxInvocations    \* bound of the exploration

\* Who names a source file names one that there is or is not, but has a name.
DriverAssumption ==
    /\ Lines \subseteq Seq(STRING)
    /\ \A l \in Lines : Parse(l).kind \in {"build", "run"} => Parse(l).source \in Sources
    /\ MaxInvocations \in Nat

VARIABLES
    pc,           \* the next step of the invocation
    line,         \* its command line, forgotten once it is understood
    request,      \* what that was parsed to
    warnings,     \* whether the checker has warnings for the source
    stderr,       \* what was reported, in order
    status,       \* the exit code
    directory,    \* whether the build directory exists
    programC,     \* what build/program.c holds
    executable,   \* what build/program holds
    invocations   \* counts

invocation == <<pc, line, request, warnings, stderr, status>>
files == <<directory, programC, executable>>
vars == <<invocation, files, invocations>>

None == "none"      \* no such file
Torn == "torn"      \* a file whose writing was interrupted
ProgramStatus == 3  \* an exit code that only the program gives

\* The phases of compile_into_with_pipeline that touch no file, in order.
Phases == <<"parse", "analyze", "semantic", "handoff", "lower", "validate", "escape", "emit">>
PhaseNames == {Phases[i] : i \in DOMAIN Phases}
After(phase) ==
    LET i == CHOOSE i \in DOMAIN Phases : Phases[i] = phase
    IN  IF i = Len(Phases) THEN "create" ELSE Phases[i + 1]

Init ==
    /\ pc = "idle"
    /\ line = <<>>
    /\ request = UsageError
    /\ warnings = FALSE
    /\ stderr = <<>>
    /\ status = 0
    /\ directory = FALSE
    /\ programC = None
    /\ executable = None
    /\ invocations = 0

Goto(next) == pc' = next /\ UNCHANGED <<line, request, status, invocations>>

\* The invocation ends; what it reports last decides its exit code.
Exit(code, report) ==
    /\ pc' = "idle"
    /\ status' = code
    /\ stderr' = stderr \o report
    /\ UNCHANGED <<line, request, invocations>>

\* A failure outside of the compilation: one message.
Fail == Exit(1, <<"error">>)

\* report_compile_failure: the warnings first.
FailCompile(warned) ==
    /\ Exit(1, IF warned THEN <<"warnings", "error">> ELSE <<"error">>)
    /\ warnings' = warned

-----------------------------------------------------------------------------
Invoke ==
    /\ pc = "idle"
    /\ invocations < MaxInvocations
    /\ \E l \in Lines :
        /\ line' = l
        /\ request' = Parse(l)
    /\ invocations' = invocations + 1
    /\ warnings' = FALSE
    /\ CASE request'.kind = "usage" ->
              pc' = "idle" /\ status' = 2 /\ stderr' = <<"error">>
         [] request'.kind = "help" ->
              pc' = "idle" /\ status' = 0 /\ stderr' = <<>>
         [] OTHER ->
              pc' = "load" /\ status' = 0 /\ stderr' = <<>>
    /\ UNCHANGED files

\* SourceFile::load: the file is missing, no file, unreadable or not UTF-8.
Load ==
    /\ pc = "load"
    /\ line' = <<>>
    /\ \/ pc' = "parse" /\ UNCHANGED <<request, status, stderr, invocations>>
       \/ pc' = "idle" /\ status' = 1 /\ stderr' = <<"error">> /\ UNCHANGED <<request, invocations>>
    /\ UNCHANGED <<warnings, files>>

\* The warnings are those of semantic analysis: a failure before it has none.
Warned(phase) == IF phase = "semantic" THEN BOOLEAN ELSE {warnings}

PassPhase ==
    /\ pc \in PhaseNames
    /\ warnings' \in Warned(pc)
    /\ Goto(After(pc))
    /\ UNCHANGED <<stderr, files>>

FailPhase ==
    /\ pc \in PhaseNames
    /\ \E warned \in Warned(pc) : FailCompile(warned)
    /\ UNCHANGED files

CreateDirectory ==
    /\ pc = "create"
    /\ \/ directory' = TRUE /\ Goto("write") /\ UNCHANGED <<warnings, stderr>>
       \/ ~directory /\ FailCompile(warnings) /\ UNCHANGED directory
    /\ UNCHANGED <<programC, executable>>

\* fs::write truncates the file before it writes.
Write ==
    /\ pc = "write"
    /\ \/ programC' = request.source /\ Goto("warn") /\ UNCHANGED <<warnings, stderr>>
       \/ programC' \in {programC, Torn} /\ FailCompile(warnings)
    /\ UNCHANGED <<directory, executable>>

\* finish_build begins with the warnings.
Warn ==
    /\ pc = "warn"
    /\ stderr' = IF warnings THEN Append(stderr, "warnings") ELSE stderr
    /\ Goto(IF request.showC THEN "show" ELSE "find")
    /\ UNCHANGED <<warnings, files>>

Show ==
    /\ pc = "show"
    /\ \/ Goto("find") /\ UNCHANGED stderr
       \/ Fail
    /\ UNCHANGED <<warnings, files>>

\* host_compiler::find_compiler.
FindCompiler ==
    /\ pc = "find"
    /\ \/ Goto("remove") /\ UNCHANGED stderr
       \/ Fail
    /\ UNCHANGED <<warnings, files>>

\* Mutation: an executable of an earlier build is left where it is.
KeepStaleExecutable ==
    /\ pc = "remove"
    /\ Goto("cc")
    /\ UNCHANGED <<stderr, warnings, files>>

\* A file that is not there counts as removed.
RemoveStaleExecutable ==
    /\ pc = "remove"
    /\ \/ executable' = None /\ Goto("cc") /\ UNCHANGED stderr
       \/ executable /= None /\ Fail /\ UNCHANGED executable
    /\ UNCHANGED <<warnings, directory, programC>>

\* The C compiler does not start, fails and may leave a broken file, or says
\* that it succeeded, in which case it may have written nothing.
RunCompiler ==
    /\ pc = "cc"
    /\ \/ Fail /\ UNCHANGED executable
       \/ Fail /\ executable' = Torn
       \/ executable' \in {executable, programC} /\ Goto("check") /\ UNCHANGED stderr
    /\ UNCHANGED <<warnings, directory, programC>>

CheckExecutable ==
    /\ pc = "check"
    /\ IF executable = None THEN Fail
       ELSE IF request.kind = "run" THEN Goto("start") /\ UNCHANGED stderr
       ELSE Exit(0, <<>>)
    /\ UNCHANGED <<warnings, files>>

StartProgram ==
    /\ pc = "start"
    /\ \/ Goto("running") /\ UNCHANGED stderr
       \/ Fail
    /\ UNCHANGED <<warnings, files>>

\* The program's exit code is the command's; ended by a signal it has none.
EndProgram ==
    /\ pc = "running"
    /\ \/ \E code \in {0, ProgramStatus} : Exit(code, <<>>)
       \/ Fail
    /\ UNCHANGED <<warnings, files>>

\* Someone removes the build directory between two invocations.
Clean ==
    /\ pc = "idle"
    /\ directory
    /\ directory' = FALSE
    /\ programC' = None
    /\ executable' = None
    /\ UNCHANGED <<invocation, invocations>>

Next ==
    \/ Invoke \/ Load \/ PassPhase \/ FailPhase \/ CreateDirectory \/ Write
    \/ Warn \/ Show \/ FindCompiler \/ RemoveStaleExecutable \/ RunCompiler
    \/ CheckExecutable \/ StartProgram \/ EndProgram \/ Clean

\* The driver runs its steps until it exits; nobody has to invoke it.
Spec == Init /\ [][Next]_vars /\ WF_vars(pc /= "idle" /\ Next)

-----------------------------------------------------------------------------
Contents == {None, Torn} \cup Sources

\* The variables have the types of their comments.
DriverTypeOK ==
    /\ pc \in {"idle", "load", "create", "write", "warn", "show", "find", "remove", "cc",
               "check", "start", "running"} \cup PhaseNames
    /\ line = <<>> \/ line \in Lines
    /\ warnings \in BOOLEAN
    /\ stderr \in UNION {[1..n -> {"warnings", "error"}] : n \in 0..2}
    /\ status \in {0, 1, 2, ProgramStatus}
    /\ directory \in BOOLEAN
    /\ programC \in Contents
    /\ executable \in Contents
    /\ ~directory => programC = None /\ executable = None
    /\ invocations \in 0..MaxInvocations

\* host_compiler.rs:139 - whatever earlier invocations left in the build
\* directory, and whichever step of them failed, the program that is started
\* was made by this invocation, from its own source.
RunsOwnProgram ==
    pc \in {"start", "running"} => executable = request.source /\ programC = request.source

\* lib.rs:59-118, DESIGN.md:858-860 - when an invocation has ended, its
\* warnings were reported once and before any error; a failure of the command
\* itself is reported last; and a build that succeeds leaves its executable.
ReportsComplete ==
    pc = "idle" /\ invocations > 0 =>
        /\ warnings = (\E i \in DOMAIN stderr : stderr[i] = "warnings")
        /\ warnings => Head(stderr) = "warnings"
        /\ Cardinality({i \in DOMAIN stderr : stderr[i] = "warnings"}) <= 1
        /\ (stderr /= <<>> /\ Last(stderr) = "error") <=> status \in {1, 2}
        /\ request.kind = "build" /\ status = 0 /\ directory => executable = request.source

\* cli.rs:22-106 against its usage text: a request is what the line spells,
\* except that the words between the source and a delimiter are lost; a usage
\* error means that the line spells nothing.
LineUnderstood ==
    IF pc = "load" THEN Spells(WithoutLost(line), request)
    ELSE line /= <<>> /\ Head(line) \in {"build", "run"} =>
        \A i, from \in 2..Len(line), showC \in BOOLEAN :
            LET rest == SubSeq(line, from, Len(line))
            IN  \A arguments \in {<<>>, rest, RemoveFirst(rest, ShowC)} :
                    ~ Spells(line, Request(Head(line), line[i], showC, arguments))

\* cli.rs:6 - "The run command forwards program arguments after the source
\* path": each request is what its line spells, without exception.
ArgumentsForwarded ==
    pc = "load" => Spells(line, request)
=============================================================================
