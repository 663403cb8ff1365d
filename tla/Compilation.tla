---------------------------- MODULE Compilation ----------------------------
(***************************************************************************)
(* What goes along with a compilation, and along with what it compiled: the*)
(* driver from the command line to the exit code; the walk that resolves   *)
(* names, beside a run of the body; the passes that narrow variables,      *)
(* before a run of the program; the validator of iterations, before a run  *)
(* of the function.  Each part has inputs of its own; a behaviour is one   *)
(* of one of them, the others stay as they are when nothing was done.      *)
(***************************************************************************)
EXTENDS BalancedExecution

CONSTANTS
    Sources, Lines, MaxInvocations,
    Identifiers, Intrinsics, Heads, MaxSteps, MaxDepth,
    Alternatives, ValuesOf, Tested, Opaque, MaxTokens

VARIABLES
    part,
    pc, line, request, warnings, stderr, status, directory, programC, executable, invocations,
    declarations, parameters, collected, typeNames, functionNames, reported, scopes, open,
    bindings, opened, initialized, lastUse, steps,
    program, notes, narrowed, narrowings, frames, carried, hidden,
    phase, token, outside, x, payload

driverVars == <<pc, line, request, warnings, stderr, status, directory, programC, executable,
                invocations>>
namesVars == <<declarations, parameters, collected, typeNames, functionNames, reported, scopes,
               open, bindings, opened, initialized, lastUse, steps>>
narrowingVars == <<program, notes, narrowed, narrowings, frames, carried, hidden,
                   phase, token, outside, x, payload>>
balancedVars == vars
allVars == <<part, driverVars, namesVars, narrowingVars, balancedVars>>

Driver == INSTANCE Driver
Names == INSTANCE Names
Narrowing == INSTANCE Narrowing WITH stage <- phase, at <- token

ASSUME CompilationAssumption ==
    Driver!DriverAssumption /\ Names!NamesAssumption /\ Narrowing!NarrowingAssumption

NoInvocation ==
    /\ pc = "idle" /\ line = <<>> /\ request = "" /\ warnings = FALSE /\ stderr = <<>> /\ status = 0
    /\ directory = FALSE /\ programC = "" /\ executable = "" /\ invocations = 0
NoNames ==
    /\ declarations = <<>> /\ parameters = <<>> /\ collected = 0 /\ typeNames = {}
    /\ functionNames = {} /\ reported = {} /\ scopes = <<>> /\ open = <<>> /\ bindings = <<>>
    /\ opened = 0 /\ initialized = {} /\ lastUse = Names!NoUse /\ steps = 0
NoNarrowing ==
    /\ program = <<>> /\ notes = <<>> /\ narrowed = Opaque /\ narrowings = <<>> /\ frames = <<>>
    /\ carried = FALSE /\ hidden = FALSE /\ phase = "" /\ token = 0 /\ outside = FALSE
    /\ x = Opaque /\ payload = <<>>
NoFunction ==
    /\ function = <<>> /\ states = <<>> /\ worklist = <<>> /\ next = 0 /\ block = Entry /\ site = 0
    /\ active = <<>> /\ before = <<>> /\ verdict = "running"
    /\ stage = "compiling" /\ at = Entry /\ index = 1 /\ value = <<>> /\ locks = <<>>
    /\ length = <<>> /\ outer = <<>> /\ held = <<>> /\ began = <<>> /\ position = 0

CompilationInit ==
    /\ part \in {"driver", "names", "narrowing", "balanced"}
    /\ IF part = "driver" THEN Driver!Init ELSE NoInvocation
    /\ IF part = "names" THEN Names!Init ELSE NoNames
    /\ IF part = "narrowing" THEN Narrowing!Init ELSE NoNarrowing
    /\ IF part = "balanced" THEN Init ELSE NoFunction

CompilationNext ==
    \/ /\ part = "driver" /\ Driver!Next
       /\ UNCHANGED <<part, namesVars, narrowingVars, balancedVars>>
    \/ /\ part = "names" /\ Names!Next
       /\ UNCHANGED <<part, driverVars, narrowingVars, balancedVars>>
    \/ /\ part = "narrowing" /\ Narrowing!Next
       /\ UNCHANGED <<part, driverVars, namesVars, balancedVars>>
    \/ /\ part = "balanced" /\ Next
       /\ UNCHANGED <<part, driverVars, namesVars, narrowingVars>>

CompilationSpec == CompilationInit /\ [][CompilationNext]_allVars

-----------------------------------------------------------------------------
\* Driver: an invocation reports what it has to, and runs a program only if this
\* invocation compiled it from the source it names.
RunsOwnProgram ==
    part = "driver" => Driver!DriverTypeOK /\ Driver!ReportsComplete /\ Driver!RunsOwnProgram

\* Driver: an invocation does what its line asks.
LineUnderstood == part = "driver" => Driver!LineUnderstood

\* Names: a use means the innermost declaration that is in force, and what is
\* read holds a value unless a colon body declared it.
NamesResolved == part = "names" => Names!NamesResolved /\ Names!ReadsInitialized

\* Narrowing: wherever the checker narrows a name, the lowering has a temporary
\* of that type.
LoweringFindsNarrowing ==
    part = "narrowing" => Narrowing!TypeOK /\ Narrowing!LoweringFindsNarrowing

\* Narrowing: a narrowed read sees the payload of now, but for the assignments
\* that a loop carries around or an expression hides.
NarrowedReadCurrent == part = "narrowing" => Narrowing!NarrowedReadCurrent
=============================================================================
