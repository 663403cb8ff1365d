--------------------------- MODULE FrontendProofs ---------------------------
(***************************************************************************)
(* The parts of Compilation that come before the program is lowered: the   *)
(* driver and the resolution of names.                                     *)
(*                                                                         *)
(* For every set of command lines and of sources: the files there are, and *)
(* what was reported, at each step of an invocation.                       *)
(*                                                                         *)
(* For every body: each scope holds the declarations of its construct, in  *)
(* their order, and each construct that opens one has its scope, so that   *)
(* what the lookup finds is what the braces say.                           *)
(***************************************************************************)
EXTENDS Compilation, FiniteSetTheorems, SequenceTheorems, WellFoundedInduction, TLAPS

\* A set of naturals up to N has a greatest one.
LEMMA GreatestIn ==
  ASSUME NEW N, N \in Nat, NEW S, S \subseteq 1 .. N, S # {}
  PROVE  \E n \in S : \A m \in S : m <= n
<1> DEFINE R == OpToRel(<, Nat)
           T == {N - n : n \in S}
<1>1. IsWellFoundedOn(R, Nat)
  BY NatLessThanWellFounded
<1>2. \A a, b \in Nat : a < b => <<a, b>> \in R
  BY DEF OpToRel
<1> HIDE DEF R
<1>3. T \subseteq Nat /\ T # {}
  <2>1. PICK n \in S : TRUE
    OBVIOUS
  <2>2. N - n \in T
    BY <2>1
  <2>3. T \subseteq Nat
    OBVIOUS
  <2> QED BY <2>2, <2>3
<1> HIDE DEF T
<1>4. PICK a \in T : \A b \in T : ~ (<<b, a>> \in R)
  BY <1>1, <1>3, WFMin
<1>5. \A b \in T : ~ (b < a)
  BY <1>2, <1>3, <1>4
<1>6. PICK n \in S : a = N - n
  BY <1>4 DEF T
<1>7. \A m \in S : N - m \in T
  BY DEF T
<1>8. \A m \in S : m <= n
  BY <1>3, <1>5, <1>6, <1>7
<1> QED BY <1>8

-----------------------------------------------------------------------------
(* Driver: its steps, in order. *)

\* Once the C is written; of these, once the warnings are out; and where there
\* is a build directory.
Reporting == {"show", "find", "remove", "cc", "check", "start", "running"}
Emitted == {"warn"} \cup Reporting
InDirectory == {"write"} \cup Emitted
DriverSteps == {"idle", "load", "create"} \cup Driver!PhaseNames \cup InDirectory

Requested ==
  /\ request.kind \in {"build", "run"} /\ request.showC \in BOOLEAN /\ request.source \in Sources

\* What an invocation reports: its warnings, then its error.
Said(warned, failed) ==
  IF warned THEN IF failed THEN <<"warnings", "error">> ELSE <<"warnings">>
  ELSE IF failed THEN <<"error">> ELSE <<>>

DriverTypes ==
  /\ pc \in DriverSteps /\ (line = <<>> \/ line \in Lines)
  /\ warnings \in BOOLEAN /\ status \in {0, 1, 2, Driver!ProgramStatus} /\ directory \in BOOLEAN
  /\ programC \in Driver!Contents /\ executable \in Driver!Contents
  /\ invocations \in 0 .. MaxInvocations

\* What there is in the build directory, by the step the invocation is at.
FilesRight ==
  /\ ~directory => programC = Driver!None /\ executable = Driver!None
  /\ pc \in InDirectory => directory
  /\ pc \in Emitted => programC = request.source
  /\ pc = "cc" => executable = Driver!None
  /\ pc = "check" => executable \in {Driver!None, programC}
  /\ pc \in {"start", "running"} => executable = programC /\ request.kind = "run"
  /\ pc = "idle" /\ invocations > 0 /\ request.kind = "build" /\ status = 0 /\ directory =>
       executable = request.source

\* What was reported so far.
ReportRight ==
  /\ pc = "idle" /\ status \in {1, 2} => stderr = Said(warnings, TRUE)
  /\ pc = "idle" /\ status \notin {1, 2} => stderr = Said(warnings, FALSE)
  /\ pc \in Reporting => stderr = Said(warnings, FALSE)
  /\ pc \notin {"idle"} \cup Reporting => stderr = <<>>
  /\ pc = "load" => ~warnings

DriverInv ==
  /\ DriverTypes /\ FilesRight /\ ReportRight
  /\ pc # "idle" => Requested

\* No two steps have one name.
LEMMA StepNames ==
  /\ Driver!PhaseNames =
       {"parse", "analyze", "semantic", "handoff", "lower", "validate", "escape", "emit"}
  /\ \A p \in Driver!PhaseNames : Driver!After(p) \in Driver!PhaseNames \cup {"create"}
<1>1. /\ DOMAIN Driver!Phases = 1 .. 8 /\ Len(Driver!Phases) = 8
      /\ Driver!Phases[1] = "parse" /\ Driver!Phases[2] = "analyze"
      /\ Driver!Phases[3] = "semantic" /\ Driver!Phases[4] = "handoff"
      /\ Driver!Phases[5] = "lower" /\ Driver!Phases[6] = "validate"
      /\ Driver!Phases[7] = "escape" /\ Driver!Phases[8] = "emit"
  BY DEF Driver!Phases
<1>2. 1 .. 8 = {1, 2, 3, 4, 5, 6, 7, 8}
  OBVIOUS
<1>3. Driver!PhaseNames =
       {"parse", "analyze", "semantic", "handoff", "lower", "validate", "escape", "emit"}
  BY <1>1, <1>2 DEF Driver!PhaseNames
<1>4. ASSUME NEW p \in Driver!PhaseNames
      PROVE  Driver!After(p) \in Driver!PhaseNames \cup {"create"}
  <2> DEFINE i == CHOOSE n \in DOMAIN Driver!Phases : Driver!Phases[n] = p
  <2>1. i \in 1 .. 8
    BY <1>1 DEF Driver!PhaseNames
  <2> HIDE DEF i
  <2>2. i # 8 => Driver!Phases[i + 1] \in Driver!PhaseNames
    BY <1>1, <2>1 DEF Driver!PhaseNames
  <2>3. Driver!After(p) = IF i = 8 THEN "create" ELSE Driver!Phases[i + 1]
    BY <1>1 DEF Driver!After, i
  <2> QED BY <2>2, <2>3
<1> QED BY <1>3, <1>4

\* A line that is understood names a command, and a source for it.
LEMMA RequestKinds ==
  ASSUME NEW l \in Lines
  PROVE  /\ Driver!Parse(l).kind \in {"usage", "help", "build", "run"}
         /\ Driver!Parse(l).kind \in {"build", "run"} =>
              Driver!Parse(l).showC \in BOOLEAN /\ Driver!Parse(l).source \in Sources
<1>1. /\ Driver!UsageError.kind = "usage" /\ Driver!Help.kind = "help"
  BY DEF Driver!UsageError, Driver!Help
<1>2. ASSUME NEW kind \in {"build", "run"}, NEW words
      PROVE  \/ Driver!CompileRequest(kind, words) = Driver!UsageError
             \/ /\ Driver!CompileRequest(kind, words).kind = kind
                /\ Driver!CompileRequest(kind, words).showC \in BOOLEAN
  BY DEF Driver!CompileRequest, Driver!Request
<1>3. \/ Driver!Parse(l) = Driver!UsageError
      \/ Driver!Parse(l) = Driver!Help
      \/ Head(l) \in {"build", "run"} /\ Driver!Parse(l) = Driver!CompileRequest(Head(l), Tail(l))
  BY DEF Driver!Parse
<1>4. Driver!Parse(l).kind \in {"build", "run"} => Driver!Parse(l).source \in Sources
  BY CompilationAssumption DEF Driver!DriverAssumption
<1> QED BY <1>1, <1>2, <1>3, <1>4

\* What is said grows by a word.
LEMMA SaidMore ==
  ASSUME NEW warned \in BOOLEAN
  PROVE  /\ Said(warned, FALSE) \o <<"error">> = Said(warned, TRUE)
         /\ Said(warned, FALSE) \o <<>> = Said(warned, FALSE)
         /\ Append(<<>>, "warnings") = Said(TRUE, FALSE)
         /\ <<>> = Said(FALSE, FALSE) /\ <<"error">> = Said(FALSE, TRUE)
         /\ <<>> \o (IF warned THEN <<"warnings", "error">> ELSE <<"error">>) = Said(warned, TRUE)
<1>1. /\ <<"warnings">> \in Seq({"warnings", "error"}) /\ <<"error">> \in Seq({"warnings", "error"})
      /\ <<>> \in Seq({"warnings", "error"})
      /\ <<"warnings", "error">> \in Seq({"warnings", "error"})
  OBVIOUS
<1>2. <<"warnings">> \o <<"error">> = <<"warnings", "error">>
  <2>1. Append(<<"warnings">>, "error") = <<"warnings", "error">>
    <3>1. Append(<<"warnings">>, "error") \in Seq({"warnings", "error"})
      BY <1>1
    <3>2. Len(Append(<<"warnings">>, "error")) = 2
      BY <1>1
    <3>3. /\ Append(<<"warnings">>, "error")[1] = "warnings"
          /\ Append(<<"warnings">>, "error")[2] = "error"
      BY <1>1
    <3>4. PICK s, t : s = Append(<<"warnings">>, "error") /\ t = <<"warnings", "error">>
      OBVIOUS
    <3>5. /\ s \in Seq({"warnings", "error"}) /\ t \in Seq({"warnings", "error"})
          /\ Len(s) = Len(t) /\ \A i \in 1 .. Len(s) : s[i] = t[i]
      BY <1>1, <3>1, <3>2, <3>3, <3>4
    <3>6. s = t
      BY ONLY <3>5, SeqEqual
    <3> QED BY <3>4, <3>6
  <2> QED BY <1>1, <2>1, AppendIsConcat
<1>3. /\ <<"warnings">> \o <<>> = <<"warnings">> /\ <<>> \o <<>> = <<>>
      /\ <<>> \o <<"error">> = <<"error">>
      /\ <<>> \o <<"warnings", "error">> = <<"warnings", "error">>
  BY <1>1, ConcatEmptySeq
<1>4. Append(<<>>, "warnings") = <<"warnings">>
  OBVIOUS
<1> QED BY <1>1, <1>2, <1>3, <1>4 DEF Said

\* Nothing is there, and nobody has asked.
LEMMA StepOrder ==
  /\ {"show", "cc", "check", "start", "running"} \subseteq Reporting /\ Reporting \subseteq Emitted
  /\ Emitted \subseteq InDirectory /\ "warn" \in Emitted \ Reporting
  /\ "write" \in InDirectory \ Emitted
  /\ InDirectory \cap ({"idle", "load", "create"} \cup Driver!PhaseNames) = {}
  /\ {"idle", "load", "create"} \cap Driver!PhaseNames = {}
BY StepNames DEF InDirectory, Emitted, Reporting

LEMMA DriverStarts == Driver!Init => DriverInv
<1> SUFFICES ASSUME Driver!Init PROVE DriverInv OBVIOUS
<1>1. DriverTypes
  <2>1. 0 \in 0 .. MaxInvocations
    BY CompilationAssumption DEF Driver!DriverAssumption
  <2> QED BY <2>1 DEF Driver!Init, DriverTypes, DriverSteps, Driver!Contents
<1>2. FilesRight
  BY DEF Driver!Init, FilesRight, InDirectory, Emitted, Reporting
<1>3. ReportRight
  BY DEF Driver!Init, ReportRight, Reporting, Said
<1> QED BY <1>1, <1>2, <1>3 DEF DriverInv, Driver!Init

\* A line is understood, or answered at once.
LEMMA InvokeStep == DriverInv /\ Driver!Invoke => DriverInv'
<1> SUFFICES ASSUME DriverInv, Driver!Invoke PROVE DriverInv' OBVIOUS
<1>1. PICK l \in Lines : line' = l /\ request' = Driver!Parse(l)
  BY DEF Driver!Invoke
<1>2. /\ request'.kind \in {"usage", "help", "build", "run"}
      /\ request'.kind \in {"build", "run"} => Requested'
  BY <1>1, RequestKinds DEF Requested
<1>3. /\ pc = "idle" /\ invocations < MaxInvocations /\ invocations' = invocations + 1
      /\ warnings' = FALSE /\ UNCHANGED <<directory, programC, executable>>
  BY DEF Driver!Invoke, Driver!files
<1>4. \/ request'.kind = "usage" /\ pc' = "idle" /\ status' = 2 /\ stderr' = <<"error">>
      \/ request'.kind = "help" /\ pc' = "idle" /\ status' = 0 /\ stderr' = <<>>
      \/ request'.kind \in {"build", "run"} /\ pc' = "load" /\ status' = 0 /\ stderr' = <<>>
  BY <1>2 DEF Driver!Invoke
<1>5. DriverTypes'
  <2>1. invocations' \in 0 .. MaxInvocations
    BY <1>3, CompilationAssumption DEF DriverInv, DriverTypes, Driver!DriverAssumption
  <2> QED BY <1>1, <1>3, <1>4, <2>1 DEF DriverInv, DriverTypes, DriverSteps
<1>6. FilesRight'
  BY <1>3, <1>4 DEF DriverInv, FilesRight, InDirectory, Emitted, Reporting
<1>7. ReportRight'
  BY <1>3, <1>4 DEF ReportRight, Reporting, Said
<1> QED BY <1>2, <1>4, <1>5, <1>6, <1>7 DEF DriverInv

\* What the steps of an invocation leave alone.
LEMMA RequestStays ==
  ASSUME Requested, UNCHANGED request
  PROVE  Requested'
BY DEF Requested

\* A source is loaded or is not.
LEMMA LoadStep == DriverInv /\ Driver!Load => DriverInv'
<1> SUFFICES ASSUME DriverInv, Driver!Load PROVE DriverInv' OBVIOUS
<1>1. /\ pc = "load" /\ line' = <<>> /\ ~warnings
      /\ UNCHANGED <<request, invocations, warnings, directory, programC, executable>>
      /\ \/ pc' = "parse" /\ UNCHANGED <<status, stderr>>
         \/ pc' = "idle" /\ status' = 1 /\ stderr' = <<"error">>
  BY DEF DriverInv, ReportRight, Driver!Load, Driver!files
<1>2. "parse" \in Driver!PhaseNames
  BY StepNames
<1>3. DriverTypes'
  BY <1>1, <1>2 DEF DriverInv, DriverTypes, DriverSteps
<1>4. FilesRight'
  BY <1>1 DEF DriverInv, FilesRight, InDirectory, Emitted, Reporting
<1>5. ReportRight'
  BY <1>1 DEF DriverInv, DriverTypes, ReportRight, Reporting, Said
<1> QED BY <1>1, <1>3, <1>4, <1>5, RequestStays DEF DriverInv

\* The steps of an invocation that has its source: nothing was said before the
\* warnings.
LEMMA PhaseSteps == DriverInv /\ (Driver!PassPhase \/ Driver!FailPhase) => DriverInv'
<1> SUFFICES ASSUME DriverInv, Driver!PassPhase \/ Driver!FailPhase PROVE DriverInv' OBVIOUS
<1>1. /\ pc \in Driver!PhaseNames /\ warnings' \in BOOLEAN
      /\ UNCHANGED <<line, request, invocations, directory, programC, executable>>
  BY DEF DriverInv, DriverTypes, Driver!PassPhase, Driver!FailPhase, Driver!Warned, Driver!Goto,
         Driver!FailCompile, Driver!Exit, Driver!files
<1>2. pc \notin {"idle", "load"} \cup InDirectory /\ stderr = <<>> /\ pc # "idle"
  BY <1>1, StepNames DEF DriverInv, ReportRight, InDirectory, Emitted, Reporting
<1>3. \/ pc' \in Driver!PhaseNames \cup {"create"} /\ status' = status /\ stderr' = <<>>
      \/ pc' = "idle" /\ status' = 1 /\ stderr' = Said(warnings', TRUE)
  <2>1. CASE Driver!PassPhase
    BY <1>2, <2>1, StepNames DEF Driver!PassPhase, Driver!Goto
  <2>2. CASE Driver!FailPhase
    <3>1. PICK warned \in Driver!Warned(pc) : Driver!FailCompile(warned)
      BY <2>2 DEF Driver!FailPhase
    <3>2. /\ pc' = "idle" /\ status' = 1 /\ warnings' = warned
          /\ stderr' = <<>> \o (IF warned THEN <<"warnings", "error">> ELSE <<"error">>)
      BY <1>2, <3>1 DEF Driver!FailCompile, Driver!Exit
    <3> QED BY <1>1, <3>2, SaidMore
  <2> QED BY <2>1, <2>2
<1>4. pc' \in Driver!PhaseNames \cup {"create"} => pc' \notin {"idle", "load"} \cup InDirectory
  BY StepNames DEF InDirectory, Emitted, Reporting
<1>5. DriverTypes'
  BY <1>1, <1>3 DEF DriverInv, DriverTypes, DriverSteps
<1>6. FilesRight'
  <2>1. pc' \notin InDirectory /\ pc' \notin Emitted /\ pc' \notin {"cc", "check", "start", "running"}
    BY <1>3, <1>4, StepOrder
  <2>2. pc' = "idle" => status' = 1
    BY <1>3, StepOrder
  <2>3. ~directory => programC = Driver!None /\ executable = Driver!None
    BY DEF DriverInv, FilesRight
  <2> QED BY <1>1, <2>1, <2>2, <2>3 DEF FilesRight
<1>7. ReportRight'
  BY <1>1, <1>3, <1>4, StepOrder DEF ReportRight
<1> QED BY <1>1, <1>2, <1>5, <1>6, <1>7, RequestStays DEF DriverInv

\* The directory is made, or there was none and nothing is there.
LEMMA CreateStep == DriverInv /\ Driver!CreateDirectory => DriverInv'
<1> SUFFICES ASSUME DriverInv, Driver!CreateDirectory PROVE DriverInv' OBVIOUS
<1>1. /\ pc = "create" /\ stderr = <<>> /\ warnings \in BOOLEAN
      /\ UNCHANGED <<line, request, invocations, programC, executable, warnings>>
      /\ \/ pc' = "write" /\ directory' = TRUE /\ UNCHANGED <<status, stderr>>
         \/ /\ pc' = "idle" /\ status' = 1 /\ ~directory /\ UNCHANGED directory
            /\ stderr' = <<>> \o (IF warnings THEN <<"warnings", "error">> ELSE <<"error">>)
  BY StepOrder DEF DriverInv, DriverTypes, ReportRight, Driver!CreateDirectory, Driver!Goto,
     Driver!FailCompile, Driver!Exit
<1>2. DriverTypes'
  BY <1>1, StepOrder DEF DriverInv, DriverTypes, DriverSteps
<1>3. FilesRight'
  BY <1>1, StepOrder DEF DriverInv, FilesRight
<1>4. ReportRight'
  BY <1>1, StepOrder, SaidMore DEF ReportRight
<1> QED BY <1>1, <1>2, <1>3, <1>4, RequestStays DEF DriverInv

\* The C is written, or what was there is left or torn.
LEMMA WriteCStep == DriverInv /\ Driver!Write => DriverInv'
<1> SUFFICES ASSUME DriverInv, Driver!Write PROVE DriverInv' OBVIOUS
<1>1. /\ pc = "write" /\ stderr = <<>> /\ warnings \in BOOLEAN /\ directory /\ Requested
      /\ UNCHANGED <<line, request, invocations, directory, executable, warnings>>
      /\ \/ pc' = "warn" /\ programC' = request.source /\ UNCHANGED <<status, stderr>>
         \/ /\ pc' = "idle" /\ status' = 1 /\ programC' \in {programC, Driver!Torn}
            /\ stderr' = <<>> \o (IF warnings THEN <<"warnings", "error">> ELSE <<"error">>)
  BY StepOrder DEF DriverInv, DriverTypes, FilesRight, ReportRight, Driver!Write, Driver!Goto,
     Driver!FailCompile, Driver!Exit
<1>2. DriverTypes'
  BY <1>1, StepOrder DEF DriverInv, DriverTypes, DriverSteps, Driver!Contents, Requested
<1>3. FilesRight'
  BY <1>1, StepOrder DEF DriverInv, FilesRight
<1>4. ReportRight'
  BY <1>1, StepOrder, SaidMore DEF ReportRight
<1> QED BY <1>1, <1>2, <1>3, <1>4, RequestStays DEF DriverInv

\* The warnings go out.
LEMMA WarnStep == DriverInv /\ Driver!Warn => DriverInv'
<1> SUFFICES ASSUME DriverInv, Driver!Warn PROVE DriverInv' OBVIOUS
<1>1. /\ pc = "warn" /\ stderr = <<>> /\ warnings \in BOOLEAN /\ directory /\ Requested
      /\ UNCHANGED <<line, request, status, invocations, directory, programC, executable, warnings>>
      /\ pc' \in {"show", "find"}
      /\ stderr' = IF warnings THEN Append(<<>>, "warnings") ELSE <<>>
  BY StepOrder DEF DriverInv, DriverTypes, FilesRight, ReportRight, Requested, Driver!Warn,
     Driver!Goto, Driver!files
<1>2. {"show", "find"} \subseteq Reporting
  BY DEF Reporting
<1>3. DriverTypes'
  BY <1>1, <1>2, StepOrder DEF DriverInv, DriverTypes, DriverSteps
<1>4. FilesRight'
  BY <1>1, <1>2, StepOrder DEF DriverInv, FilesRight
<1>5. stderr' = Said(warnings, FALSE)
  BY <1>1, SaidMore
<1>6. ReportRight'
  BY <1>1, <1>2, <1>5, StepOrder DEF ReportRight
<1> QED BY <1>1, <1>3, <1>4, <1>6, RequestStays DEF DriverInv

\* A step behind the warnings: on to the next, or out, with an error or without.
Exits(code, failed) ==
  /\ pc' = "idle" /\ status' = code /\ (failed <=> code \in {1, 2})
  /\ stderr' = stderr \o (IF failed THEN <<"error">> ELSE <<>>)
Leaves == Exits(1, TRUE) \/ Exits(0, FALSE) \/ Exits(Driver!ProgramStatus, FALSE)
LEMMA ReportingStep ==
  ASSUME DriverInv, pc \in Reporting,
         UNCHANGED <<line, request, invocations, directory, programC, warnings>>,
         executable' \in Driver!Contents,
         \/ pc' \in Reporting /\ UNCHANGED <<status, stderr>>
         \/ Leaves
  PROVE  /\ DriverTypes' /\ ReportRight' /\ (pc' # "idle" => Requested')
         /\ directory' /\ programC' = request'.source
<1>1. /\ stderr = Said(warnings, FALSE) /\ warnings \in BOOLEAN /\ directory /\ Requested
      /\ programC = request.source
  BY StepOrder DEF DriverInv, DriverTypes, FilesRight, ReportRight
<1>2. DriverTypes'
  BY StepOrder DEF DriverInv, DriverTypes, DriverSteps, Leaves, Exits
<1>3. ReportRight'
  <2>1. CASE pc' \in Reporting /\ UNCHANGED <<status, stderr>>
    BY <1>1, <2>1, StepOrder DEF ReportRight
  <2>2. CASE Exits(1, TRUE)
    <3>1. stderr' = Said(warnings, TRUE)
      BY <1>1, <2>2, SaidMore DEF Exits
    <3> QED BY <2>2, <3>1, StepOrder DEF ReportRight, Exits
  <2>3. ASSUME NEW code, Exits(code, FALSE) PROVE ReportRight'
    <3>1. stderr' = Said(warnings, FALSE)
      BY <1>1, <2>3, SaidMore DEF Exits
    <3> QED BY <2>3, <3>1, StepOrder DEF ReportRight, Exits
  <2> QED BY <2>1, <2>2, <2>3 DEF Leaves
<1> QED BY <1>1, <1>2, <1>3, RequestStays

\* Steps behind the warnings that leave the files alone.
LEMMA StillStep ==
  DriverInv /\ (Driver!Show \/ Driver!FindCompiler \/ Driver!StartProgram \/ Driver!EndProgram)
  => DriverInv'
<1> SUFFICES ASSUME DriverInv,
                    Driver!Show \/ Driver!FindCompiler \/ Driver!StartProgram \/ Driver!EndProgram
             PROVE  DriverInv'
  OBVIOUS
<1>1. /\ pc \in {"show", "find", "start", "running"} /\ executable \in Driver!Contents
      /\ UNCHANGED <<line, request, invocations, directory, programC, executable, warnings>>
  BY DEF DriverInv, DriverTypes, Driver!Show, Driver!FindCompiler, Driver!StartProgram,
     Driver!EndProgram, Driver!Goto, Driver!Fail, Driver!Exit, Driver!files
<1>2. {"show", "find", "remove", "start", "running"} \subseteq Reporting
  BY DEF Reporting
<1>3. \/ /\ pc' \in {"find", "remove", "running"} /\ UNCHANGED <<status, stderr>>
         /\ pc' = "running" => pc = "start"
      \/ Leaves /\ (status' # 1 => pc = "running")
  BY DEF Driver!Show, Driver!FindCompiler, Driver!StartProgram, Driver!EndProgram, Driver!Goto,
     Driver!Fail, Driver!Exit, Leaves, Exits, Driver!ProgramStatus
<1>4. pc' \in {"find", "remove", "running", "idle"} /\ (pc' = "running" => pc = "start")
      /\ (pc' = "idle" /\ status' # 1 => pc = "running")
  BY <1>3 DEF Leaves, Exits
<1>5. /\ DriverTypes' /\ ReportRight' /\ (pc' # "idle" => Requested')
      /\ directory' /\ programC' = request'.source
  <2>1. (pc' \in Reporting /\ UNCHANGED <<status, stderr>>) \/ Leaves
    BY <1>2, <1>3
  <2>2. pc \in Reporting /\ executable' \in Driver!Contents
    BY <1>1, <1>2
  <2> QED BY <1>1, <2>1, <2>2, ReportingStep
<1>6. FilesRight'
  <2>1. pc' = "idle" /\ status' = 0 => request.kind = "run"
    BY <1>4 DEF DriverInv, FilesRight
  <2>2. pc' = "running" => executable = programC /\ request.kind = "run"
    BY <1>4 DEF DriverInv, FilesRight
  <2> QED BY <1>1, <1>4, <1>5, <2>1, <2>2 DEF FilesRight
<1> QED BY <1>5, <1>6 DEF DriverInv

\* The executable of an earlier build goes.
LEMMA RemoveStep == DriverInv /\ Driver!RemoveStaleExecutable => DriverInv'
<1> SUFFICES ASSUME DriverInv, Driver!RemoveStaleExecutable PROVE DriverInv' OBVIOUS
<1>1. /\ pc = "remove" /\ executable \in Driver!Contents
      /\ UNCHANGED <<line, request, invocations, directory, programC, warnings>>
      /\ \/ pc' = "cc" /\ executable' = Driver!None /\ UNCHANGED <<status, stderr>>
         \/ Exits(1, TRUE) /\ UNCHANGED executable
  BY DEF DriverInv, DriverTypes, Driver!RemoveStaleExecutable, Driver!Goto, Driver!Fail,
     Driver!Exit, Exits
<1>2. pc \in Reporting /\ executable' \in Driver!Contents
      /\ ((pc' \in Reporting /\ UNCHANGED <<status, stderr>>) \/ Leaves)
  BY <1>1 DEF Reporting, Leaves, Driver!Contents
<1>3. /\ DriverTypes' /\ ReportRight' /\ (pc' # "idle" => Requested')
      /\ directory' /\ programC' = request'.source
  BY <1>1, <1>2, ReportingStep
<1>4. FilesRight'
  BY <1>1, <1>3 DEF FilesRight, Exits
<1> QED BY <1>3, <1>4 DEF DriverInv

\* The C compiler may write what it likes, but only of this C.
LEMMA CompilerStep == DriverInv /\ Driver!RunCompiler => DriverInv'
<1> SUFFICES ASSUME DriverInv, Driver!RunCompiler PROVE DriverInv' OBVIOUS
<1>1. /\ pc = "cc" /\ executable = Driver!None /\ programC \in Driver!Contents
      /\ UNCHANGED <<line, request, invocations, directory, programC, warnings>>
      /\ \/ pc' = "check" /\ executable' \in {executable, programC} /\ UNCHANGED <<status, stderr>>
         \/ Exits(1, TRUE) /\ executable' \in {executable, Driver!Torn}
  BY DEF DriverInv, DriverTypes, FilesRight, Driver!RunCompiler, Driver!Goto, Driver!Fail,
     Driver!Exit, Exits
<1>2. pc \in Reporting /\ executable' \in Driver!Contents
      /\ ((pc' \in Reporting /\ UNCHANGED <<status, stderr>>) \/ Leaves)
  BY <1>1 DEF Reporting, Leaves, Driver!Contents
<1>3. /\ DriverTypes' /\ ReportRight' /\ (pc' # "idle" => Requested')
      /\ directory' /\ programC' = request'.source
  BY <1>1, <1>2, ReportingStep
<1>4. FilesRight'
  BY <1>1, <1>3 DEF FilesRight, Exits
<1> QED BY <1>3, <1>4 DEF DriverInv

\* What is there now was made of this C.
LEMMA CheckStep == DriverInv /\ Driver!CheckExecutable => DriverInv'
<1> SUFFICES ASSUME DriverInv, Driver!CheckExecutable PROVE DriverInv' OBVIOUS
<1>1. /\ pc = "check" /\ executable \in {Driver!None, programC} /\ executable \in Driver!Contents
      /\ programC = request.source
      /\ UNCHANGED <<line, request, invocations, directory, programC, executable, warnings>>
  BY StepOrder DEF DriverInv, DriverTypes, FilesRight, Driver!CheckExecutable, Driver!Goto,
     Driver!Fail, Driver!Exit, Driver!files
<1>2. \/ Exits(1, TRUE)
      \/ executable # Driver!None /\ request.kind = "run" /\ pc' = "start" /\ UNCHANGED <<status, stderr>>
      \/ executable # Driver!None /\ request.kind # "run" /\ Exits(0, FALSE)
  BY DEF Driver!CheckExecutable, Driver!Goto, Driver!Fail, Driver!Exit, Exits
<1>3. /\ pc \in Reporting /\ executable' \in Driver!Contents
      /\ ((pc' \in Reporting /\ UNCHANGED <<status, stderr>>) \/ Leaves)
  BY <1>1, <1>2 DEF Reporting, Leaves
<1>4. /\ pc' \in {"start", "idle"} /\ (pc' = "start" => request.kind = "run")
      /\ pc' = "start" \/ status' = 0 => executable = programC
  BY <1>1, <1>2 DEF Exits
<1>5. /\ DriverTypes' /\ ReportRight' /\ (pc' # "idle" => Requested')
      /\ directory' /\ programC' = request'.source
  BY <1>1, <1>3, ReportingStep
<1>6. FilesRight'
  BY <1>1, <1>4, <1>5 DEF FilesRight
<1> QED BY <1>5, <1>6 DEF DriverInv

\* Without its directory nothing is there.
LEMMA CleanStep == DriverInv /\ Driver!Clean => DriverInv'
<1> SUFFICES ASSUME DriverInv, Driver!Clean PROVE DriverInv' OBVIOUS
<1>1. /\ pc = "idle" /\ directory' = FALSE /\ programC' = Driver!None /\ executable' = Driver!None
      /\ UNCHANGED <<pc, line, request, warnings, stderr, status, invocations>>
  BY DEF Driver!Clean, Driver!invocation
<1>2. DriverTypes'
  BY <1>1 DEF DriverInv, DriverTypes, Driver!Contents
<1>3. FilesRight'
  BY <1>1, StepOrder DEF FilesRight
<1>4. ReportRight'
  BY <1>1 DEF DriverInv, ReportRight
<1> QED BY <1>1, <1>2, <1>3, <1>4 DEF DriverInv

LEMMA DriverStep == DriverInv /\ [Driver!Next]_driverVars => DriverInv'
<1> SUFFICES ASSUME DriverInv, [Driver!Next]_driverVars PROVE DriverInv' OBVIOUS
<1>1. CASE Driver!Next
  BY <1>1, InvokeStep, LoadStep, PhaseSteps, CreateStep, WriteCStep, WarnStep, StillStep,
     RemoveStep, CompilerStep, CheckStep, CleanStep DEF Driver!Next
<1>2. CASE UNCHANGED driverVars
  <2>1. UNCHANGED <<pc, line, request, warnings, stderr, status, directory, programC, executable,
                    invocations>>
    BY <1>2 DEF driverVars
  <2>2. DriverTypes'
    BY <2>1 DEF DriverInv, DriverTypes
  <2>3. FilesRight'
    BY <2>1 DEF DriverInv, FilesRight
  <2>4. ReportRight'
    BY <2>1 DEF DriverInv, ReportRight
  <2>5. pc' # "idle" => Requested'
    BY <2>1 DEF DriverInv, Requested
  <2> QED BY <2>2, <2>3, <2>4, <2>5 DEF DriverInv
<1> QED BY <1>1, <1>2

\* What was said of an invocation that has ended is what it had to say.
LEMMA SaidRight ==
  ASSUME NEW warned \in BOOLEAN, NEW failed \in BOOLEAN, NEW said, said = Said(warned, failed)
  PROVE  /\ said \in UNION {[1 .. n -> {"warnings", "error"}] : n \in 0 .. 2}
         /\ warned <=> (\E i \in DOMAIN said : said[i] = "warnings")
         /\ warned => Head(said) = "warnings"
         /\ Cardinality({i \in DOMAIN said : said[i] = "warnings"}) <= 1
         /\ (said # <<>> /\ said[Len(said)] = "error") <=> failed
<1>1. CASE warned /\ failed
  <2>1. said = <<"warnings", "error">> /\ DOMAIN said = 1 .. 2 /\ Len(said) = 2 /\ said[1] = "warnings" /\ said[2] = "error"
    BY <1>1 DEF Said
  <2>2. said \in UNION {[1 .. n -> {"warnings", "error"}] : n \in 0 .. 2}
    <3>1. said \in [1 .. 2 -> {"warnings", "error"}] /\ 2 \in 0 .. 2
      BY <2>1
    <3> QED BY <3>1
  <2>3. {i \in DOMAIN said : said[i] = "warnings"} = {1}
    BY <2>1, SMTT(30)
  <2>4. Cardinality({1}) <= 1
    BY FS_Singleton, SMTT(40)
  <2>5. warned <=> (\E i \in DOMAIN said : said[i] = "warnings")
    BY <1>1, <2>3
  <2>6. (said # <<>> /\ said[Len(said)] = "error") <=> failed
    <3>1. said # <<>> /\ said[Len(said)] = said[2]
      BY <2>1
    <3> QED BY <1>1, <2>1, <3>1
  <2>7. warned => Head(said) = "warnings"
    <3>1. Head(<<"warnings", "error">>) = "warnings"
      OBVIOUS
    <3> QED BY <2>1, <3>1
  <2> QED BY <2>2, <2>3, <2>4, <2>5, <2>6, <2>7
<1>2. CASE warned /\ ~failed
  <2>1. said = <<"warnings">> /\ DOMAIN said = 1 .. 1 /\ Len(said) = 1 /\ said[1] = "warnings"
    BY <1>2 DEF Said
  <2>2. said \in UNION {[1 .. n -> {"warnings", "error"}] : n \in 0 .. 2}
    <3>1. said \in [1 .. 1 -> {"warnings", "error"}] /\ 1 \in 0 .. 2
      BY <2>1
    <3> QED BY <3>1
  <2>3. {i \in DOMAIN said : said[i] = "warnings"} = {1}
    BY <2>1, SMTT(30)
  <2>4. Cardinality({1}) <= 1
    BY FS_Singleton, SMTT(40)
  <2>5. warned <=> (\E i \in DOMAIN said : said[i] = "warnings")
    BY <1>2, <2>3
  <2>6. (said # <<>> /\ said[Len(said)] = "error") <=> failed
    <3>1. said # <<>> /\ said[Len(said)] = said[1]
      BY <2>1
    <3> QED BY <1>2, <2>1, <3>1
  <2>7. warned => Head(said) = "warnings"
    <3>1. Head(<<"warnings">>) = "warnings"
      OBVIOUS
    <3> QED BY <2>1, <3>1
  <2> QED BY <2>2, <2>3, <2>4, <2>5, <2>6, <2>7
<1>3. CASE ~warned /\ failed
  <2>1. said = <<"error">> /\ DOMAIN said = 1 .. 1 /\ Len(said) = 1 /\ said[1] = "error"
    BY <1>3 DEF Said
  <2>2. said \in UNION {[1 .. n -> {"warnings", "error"}] : n \in 0 .. 2}
    <3>1. said \in [1 .. 1 -> {"warnings", "error"}] /\ 1 \in 0 .. 2
      BY <2>1
    <3> QED BY <3>1
  <2>3. {i \in DOMAIN said : said[i] = "warnings"} = {}
    BY <2>1, SMTT(30)
  <2>4. Cardinality({}) <= 1
    BY FS_EmptySet
  <2>5. warned <=> (\E i \in DOMAIN said : said[i] = "warnings")
    BY <1>3, <2>3
  <2>6. (said # <<>> /\ said[Len(said)] = "error") <=> failed
    <3>1. said # <<>> /\ said[Len(said)] = said[1]
      BY <2>1
    <3> QED BY <1>3, <2>1, <3>1
  <2>7. warned => Head(said) = "warnings"
    BY <1>3, <2>1
  <2> QED BY <2>2, <2>3, <2>4, <2>5, <2>6, <2>7
<1>4. CASE ~warned /\ ~failed
  <2>1. said = <<>> /\ DOMAIN said = 1 .. 0 /\ Len(said) = 0
    BY <1>4 DEF Said
  <2>2. said \in UNION {[1 .. n -> {"warnings", "error"}] : n \in 0 .. 2}
    <3>1. said \in [1 .. 0 -> {"warnings", "error"}] /\ 0 \in 0 .. 2
      BY <2>1
    <3> QED BY <3>1
  <2>3. {i \in DOMAIN said : said[i] = "warnings"} = {}
    BY <2>1, SMTT(30)
  <2>4. Cardinality({}) <= 1
    BY FS_EmptySet
  <2>5. warned <=> (\E i \in DOMAIN said : said[i] = "warnings")
    BY <1>4, <2>3
  <2>6. (said # <<>> /\ said[Len(said)] = "error") <=> failed
    BY <1>4, <2>1
  <2>7. warned => Head(said) = "warnings"
    BY <1>4, <2>1
  <2> QED BY <2>2, <2>3, <2>4, <2>5, <2>6, <2>7
<1> QED BY <1>1, <1>2, <1>3, <1>4

\* The invariant says what the run checks.
LEMMA DriverRight ==
  DriverInv => Driver!DriverTypeOK /\ Driver!ReportsComplete /\ Driver!RunsOwnProgram
<1> SUFFICES ASSUME DriverInv
             PROVE  Driver!DriverTypeOK /\ Driver!ReportsComplete /\ Driver!RunsOwnProgram
  OBVIOUS
<1>1. \E warned, failed \in BOOLEAN : stderr = Said(warned, failed)
  <2>1. warnings \in BOOLEAN
    BY DEF DriverInv, DriverTypes
  <2>2. CASE stderr = Said(warnings, TRUE)
    BY <2>1, <2>2
  <2>3. CASE stderr = Said(warnings, FALSE)
    BY <2>1, <2>3
  <2>4. CASE stderr = <<>>
    BY <2>4, SaidMore
  <2> QED BY <2>2, <2>3, <2>4 DEF DriverInv, ReportRight
<1>2. stderr \in UNION {[1 .. n -> {"warnings", "error"}] : n \in 0 .. 2}
  BY <1>1, SaidRight
<1>3. Driver!DriverTypeOK
  <2>1. pc \in {"idle", "load", "create", "write", "warn", "show", "find", "remove", "cc",
                 "check", "start", "running"} \cup Driver!PhaseNames
    BY DEF DriverInv, DriverTypes, DriverSteps, InDirectory, Emitted, Reporting
  <2> QED BY <1>2, <2>1 DEF DriverInv, DriverTypes, FilesRight, Driver!DriverTypeOK
<1>4. Driver!ReportsComplete
  <2> SUFFICES ASSUME pc = "idle", invocations > 0
               PROVE  /\ warnings = (\E i \in DOMAIN stderr : stderr[i] = "warnings")
                      /\ warnings => Head(stderr) = "warnings"
                      /\ Driver!Cardinality({i \in DOMAIN stderr : stderr[i] = "warnings"}) <= 1
                      /\ (stderr # <<>> /\ Driver!Last(stderr) = "error") <=> status \in {1, 2}
                      /\ request.kind = "build" /\ status = 0 /\ directory => executable = request.source
    BY DEF Driver!ReportsComplete
  <2>1. warnings \in BOOLEAN
    BY DEF DriverInv, DriverTypes
  <2>2. PICK failed \in BOOLEAN : failed <=> status \in {1, 2}
    OBVIOUS
  <2>3. stderr = Said(warnings, failed)
    <3>1. CASE status \in {1, 2}
      BY <2>2, <3>1 DEF DriverInv, ReportRight
    <3>2. CASE status \notin {1, 2}
      BY <2>2, <3>2 DEF DriverInv, ReportRight
    <3> QED BY <3>1, <3>2
  <2>4. /\ warnings <=> (\E i \in DOMAIN stderr : stderr[i] = "warnings")
        /\ warnings => Head(stderr) = "warnings"
        /\ Cardinality({i \in DOMAIN stderr : stderr[i] = "warnings"}) <= 1
        /\ (stderr # <<>> /\ stderr[Len(stderr)] = "error") <=> failed
    <3>1. PICK warned, said : warned = warnings /\ said = stderr
      OBVIOUS
    <3>2. warned \in BOOLEAN /\ said = Said(warned, failed)
      BY <2>1, <2>3, <3>1
    <3>3. /\ warned <=> (\E i \in DOMAIN said : said[i] = "warnings")
          /\ warned => Head(said) = "warnings"
          /\ Cardinality({i \in DOMAIN said : said[i] = "warnings"}) <= 1
          /\ (said # <<>> /\ said[Len(said)] = "error") <=> failed
      BY ONLY <2>2, <3>2, SaidRight
    <3> QED BY <3>1, <3>3
  <2>5. /\ Driver!Cardinality({i \in DOMAIN stderr : stderr[i] = "warnings"})
             = Cardinality({i \in DOMAIN stderr : stderr[i] = "warnings"})
        /\ Driver!Last(stderr) = stderr[Len(stderr)]
    BY DEF Driver!Cardinality, Cardinality, Driver!Last
  <2>6. request.kind = "build" /\ status = 0 /\ directory => executable = request.source
    BY DEF DriverInv, FilesRight
  <2>7. warnings = (\E i \in DOMAIN stderr : stderr[i] = "warnings")
    <3>1. CASE warnings = TRUE
      BY <2>4, <3>1, Zenon
    <3>2. CASE warnings = FALSE
      BY <2>4, <3>2, Zenon
    <3> QED BY <2>1, <3>1, <3>2
  <2>8. (stderr # <<>> /\ Driver!Last(stderr) = "error") <=> status \in {1, 2}
    BY <2>2, <2>4, <2>5
  <2>9. Driver!Cardinality({i \in DOMAIN stderr : stderr[i] = "warnings"}) <= 1
    BY <2>4, <2>5
  <2> QED BY <2>4, <2>6, <2>7, <2>8, <2>9
<1>5. Driver!RunsOwnProgram
  BY StepOrder DEF DriverInv, FilesRight, Driver!RunsOwnProgram
<1> QED BY <1>3, <1>4, <1>5

-----------------------------------------------------------------------------
(* Driver: command lines. *)

Text == STRING \cup {Driver!ShowC, Driver!Delimiter, "build", "run"}

\* The words of one sequence, and those of another behind them.
Joined(s, t, u) ==
  /\ u \in Seq(Text) /\ Len(u) = Len(s) + Len(t) /\ Len(s) \in Nat /\ Len(t) \in Nat
  /\ \A i \in 1 .. Len(s) : u[i] = s[i]
  /\ \A i \in 1 .. Len(t) : u[Len(s) + i] = t[i]

LEMMA WordsJoined ==
  ASSUME NEW s, s \in Seq(Text), NEW t, t \in Seq(Text)
  PROVE  Joined(s, t, s \o t)
<1>1. /\ s \o t \in Seq(Text) /\ Len(s \o t) = Len(s) + Len(t)
      /\ \A i \in 1 .. Len(s) + Len(t) :
           (s \o t)[i] = IF i <= Len(s) THEN s[i] ELSE t[i - Len(s)]
  BY ConcatProperties
<1>2. Len(s) \in Nat /\ Len(t) \in Nat
  OBVIOUS
<1>3. ASSUME NEW i \in 1 .. Len(t) PROVE (s \o t)[Len(s) + i] = t[i]
  <2>1. Len(s) + i \in 1 .. Len(s) + Len(t) /\ ~ (Len(s) + i <= Len(s)) /\ Len(s) + i - Len(s) = i
    BY <1>2
  <2> QED BY <1>1, <2>1
<1> QED BY <1>1, <1>2, <1>3 DEF Joined

Associate(s, t, u) == s \o t \o u = s \o (t \o u)
LEMMA WordsAssociate ==
  ASSUME NEW s, s \in Seq(Text), NEW t, t \in Seq(Text), NEW u, u \in Seq(Text)
  PROVE  Associate(s, t, u)
BY ConcatAssociative DEF Associate

LEMMA OneWord ==
  ASSUME NEW text, text \in Text
  PROVE  \E s : s = <<text>> /\ s \in Seq(Text) /\ Len(s) = 1 /\ s[1] = text
<1>1. <<text>> \in Seq(Text) /\ Len(<<text>>) = 1 /\ <<text>>[1] = text
  OBVIOUS
<1>2. PICK s : s = <<text>>
  OBVIOUS
<1> QED BY <1>1, <1>2

LEMMA WordsCut ==
  ASSUME NEW s, s \in Seq(Text), NEW m \in 1 .. Len(s) + 1, NEW n \in 0 .. Len(s), m <= n + 1
  PROVE  /\ SubSeq(s, m, n) \in Seq(Text) /\ Len(SubSeq(s, m, n)) = n - m + 1
         /\ \A i \in 1 .. n - m + 1 : SubSeq(s, m, n)[i] = s[m + i - 1]
<1>1. Len(s) \in Nat /\ m \in Int /\ n \in Int /\ \A i \in m .. n : s[i] \in Text
  OBVIOUS
<1>2. /\ SubSeq(s, m, n) \in Seq(Text)
      /\ Len(SubSeq(s, m, n)) = IF m <= n THEN n - m + 1 ELSE 0
      /\ \A i \in 1 .. n - m + 1 : SubSeq(s, m, n)[i] = s[m + i - 1]
  BY <1>1, SubSeqProperties
<1> QED BY <1>1, <1>2

LEMMA SameWords ==
  ASSUME NEW s, s \in Seq(Text), NEW t, t \in Seq(Text),
         Len(s) = Len(t), \A i \in 1 .. Len(s) : s[i] = t[i]
  PROVE  s = t
BY SeqEqual

\* A word more at a place, and the first of its kind less.
Inserted(s, i, text, t) ==
  /\ t \in Seq(Text) /\ Len(t) = Len(s) + 1
  /\ \A j \in 1 .. Len(s) + 1 : t[j] = IF j < i THEN s[j] ELSE IF j = i THEN text ELSE s[j - 1]
Removed(s, i, t) ==
  /\ t \in Seq(Text) /\ Len(t) = Len(s) - 1
  /\ \A j \in 1 .. Len(s) - 1 : t[j] = IF j < i THEN s[j] ELSE s[j + 1]

LEMMA InsertedIs ==
  ASSUME NEW s, s \in Seq(Text), NEW i, i \in 1 .. Len(s) + 1, NEW text, text \in Text
  PROVE  Inserted(s, i, text, Driver!InsertAt(s, i, text))
<1> DEFINE a == SubSeq(s, 1, i - 1)
           b == SubSeq(s, i, Len(s))
           c == a \o <<text>>
           t == c \o b
<1>1. Len(s) \in Nat /\ i \in Nat /\ i - 1 \in 0 .. Len(s) /\ <<text>> \in Seq(Text) /\ Len(<<text>>) = 1
      /\ <<text>>[1] = text /\ 1 \in 1 .. Len(s) + 1 /\ Len(s) \in 0 .. Len(s)
  OBVIOUS
<1>2. a \in Seq(Text) /\ Len(a) = i - 1 /\ \A j \in 1 .. i - 1 : a[j] = s[j]
  <2>1. /\ a \in Seq(Text) /\ Len(a) = (i - 1) - 1 + 1
        /\ \A j \in 1 .. (i - 1) - 1 + 1 : a[j] = s[1 + j - 1]
    BY <1>1, WordsCut
  <2> QED BY <1>1, <2>1
<1>3. b \in Seq(Text) /\ Len(b) = Len(s) - i + 1 /\ \A j \in 1 .. Len(s) - i + 1 : b[j] = s[i + j - 1]
  BY <1>1, WordsCut
<1> HIDE DEF a, b
<1>4. /\ c \in Seq(Text) /\ Len(c) = i /\ \A j \in 1 .. i - 1 : c[j] = a[j]
      /\ c[i] = text
  <2>1. Joined(a, <<text>>, c)
    BY <1>1, <1>2, WordsJoined
  <2>2. PICK l : l = <<text>> /\ Len(l) = 1 /\ l[1] = text
    BY <1>1
  <2> HIDE DEF c
  <2>3. c[Len(a) + 1] = l[1] /\ Len(a) + 1 = i
    BY <1>1, <1>2, <2>1, <2>2 DEF Joined
  <2>4. Len(c) = i /\ c[i] = text
    BY <1>1, <1>2, <2>1, <2>2, <2>3 DEF Joined
  <2> QED BY <1>2, <2>1, <2>4 DEF Joined
<1> HIDE DEF c
<1>5. /\ t \in Seq(Text) /\ Len(t) = Len(s) + 1 /\ \A j \in 1 .. i : t[j] = c[j]
      /\ \A j \in 1 .. Len(b) : t[i + j] = b[j]
  <2>1. Joined(c, b, t)
    BY <1>3, <1>4, WordsJoined
  <2> HIDE DEF t
  <2>2. Len(t) = Len(s) + 1
    BY <1>1, <1>3, <1>4, <2>1 DEF Joined
  <2> QED BY <1>4, <2>1, <2>2 DEF Joined
<1> HIDE DEF t
<1>6. ASSUME NEW j \in 1 .. Len(s) + 1
      PROVE  t[j] = IF j < i THEN s[j] ELSE IF j = i THEN text ELSE s[j - 1]
  <2>1. CASE j < i
    <3>1. j \in 1 .. i - 1 /\ j \in 1 .. i
      BY <1>1, <2>1
    <3> QED BY <1>2, <1>4, <1>5, <2>1, <3>1
  <2>2. CASE j = i
    BY <1>1, <1>4, <1>5, <2>2
  <2>3. CASE i < j
    <3>1. j - i \in 1 .. Len(s) - i + 1 /\ i + (j - i) = j /\ i + (j - i) - 1 = j - 1
      BY <1>1, <2>3
    <3>2. t[i + (j - i)] = b[j - i] /\ b[j - i] = s[i + (j - i) - 1]
      BY <1>3, <1>5, <3>1
    <3> QED BY <1>1, <2>3, <3>1, <3>2
  <2> QED BY <1>1, <2>1, <2>2, <2>3
<1>7. Driver!InsertAt(s, i, text) = t
  BY DEF Driver!InsertAt, a, b, c, t
<1> QED BY <1>5, <1>6, <1>7 DEF Inserted

LEMMA FirstIn ==
  ASSUME NEW n, n \in Nat, NEW S, S \subseteq 1 .. n, S # {}
  PROVE  Driver!Min(S) \in S /\ \A y \in S : Driver!Min(S) <= y
<1> DEFINE R == OpToRel(<, Nat)
<1>1. IsWellFoundedOn(R, Nat)
  BY NatLessThanWellFounded
<1>2. \A a, b \in Nat : a < b => <<a, b>> \in R
  BY DEF OpToRel
<1> HIDE DEF R
<1>3. S \subseteq Nat
  OBVIOUS
<1>4. PICK t \in S : \A u \in S : ~ (<<u, t>> \in R)
  BY <1>1, <1>3, WFMin
<1>5. \A y \in S : t =< y
  <2> TAKE y \in S
  <2>1. t \in Nat /\ y \in Nat /\ ~ (y < t)
    BY <1>2, <1>3, <1>4
  <2> QED BY <2>1
<1>6. Driver!Min(S) \in S /\ \A y \in S : Driver!Min(S) =< y
  BY <1>5, Zenon DEF Driver!Min
<1> QED BY <1>6

LEMMA RemovedIs ==
  ASSUME NEW s, s \in Seq(Text), NEW i, i \in 1 .. Len(s), NEW text,
         s[i] = text, \A j \in 1 .. Len(s) : s[j] = text => j = i
  PROVE  Removed(s, i, Driver!RemoveFirst(s, text))
<1> DEFINE S == {j \in 1 .. Len(s) : s[j] = text}
           a == SubSeq(s, 1, i - 1)
           b == SubSeq(s, i + 1, Len(s))
           t == a \o b
<1>1. Len(s) \in Nat /\ i \in Nat /\ i - 1 \in 0 .. Len(s) /\ 1 \in 1 .. Len(s) + 1
      /\ Len(s) \in 0 .. Len(s) /\ i + 1 \in 1 .. Len(s) + 1 /\ i + 1 <= Len(s) + 1
  OBVIOUS
<1>2. Driver!Min(S) = i
  <2>1. i \in S /\ S # {} /\ S \subseteq 1 .. Len(s)
    OBVIOUS
  <2>2. Driver!Min(S) \in S
    <3> HIDE DEF S
    <3> QED BY <1>1, <2>1, FirstIn
  <2> QED BY <2>2
<1>3. Driver!RemoveFirst(s, text) = t
  <2>1. Driver!RemoveFirst(s, text) = Driver!RemoveAt(s, IF S # {} THEN Driver!Min(S) ELSE 0)
    BY DEF Driver!RemoveFirst, Driver!SelectInSeq
  <2>2. i \in S /\ S # {}
    OBVIOUS
  <2> QED BY <1>2, <2>1, <2>2 DEF Driver!RemoveAt
<1>4. a \in Seq(Text) /\ Len(a) = i - 1 /\ \A j \in 1 .. i - 1 : a[j] = s[j]
  <2>1. /\ a \in Seq(Text) /\ Len(a) = (i - 1) - 1 + 1
        /\ \A j \in 1 .. (i - 1) - 1 + 1 : a[j] = s[1 + j - 1]
    BY <1>1, WordsCut
  <2> QED BY <1>1, <2>1
<1>5. b \in Seq(Text) /\ Len(b) = Len(s) - i /\ \A j \in 1 .. Len(s) - i : b[j] = s[i + j]
  <2>1. /\ b \in Seq(Text) /\ Len(b) = Len(s) - (i + 1) + 1
        /\ \A j \in 1 .. Len(s) - (i + 1) + 1 : b[j] = s[(i + 1) + j - 1]
    BY <1>1, WordsCut
  <2> QED BY <1>1, <2>1
<1> HIDE DEF a, b, S
<1>6. Joined(a, b, t)
  BY <1>4, <1>5, WordsJoined
<1> HIDE DEF t
<1>7. /\ t \in Seq(Text) /\ Len(t) = Len(a) + Len(b) /\ \A j \in 1 .. Len(a) : t[j] = a[j]
      /\ \A j \in 1 .. Len(b) : t[Len(a) + j] = b[j]
  BY <1>6 DEF Joined
<1>8. Len(t) = Len(s) - 1
  BY <1>1, <1>4, <1>5, <1>7
<1>9. ASSUME NEW j \in 1 .. Len(s) - 1 PROVE t[j] = IF j < i THEN s[j] ELSE s[j + 1]
  <2>1. CASE j < i
    <3>1. j \in 1 .. i - 1
      BY <1>1, <2>1
    <3> QED BY <1>4, <1>7, <2>1, <3>1
  <2>2. CASE ~ (j < i)
    <3>1. /\ j - (i - 1) \in 1 .. Len(s) - i /\ (i - 1) + (j - (i - 1)) = j
          /\ i + (j - (i - 1)) = j + 1
      BY <1>1, <2>2
    <3>2. t[(i - 1) + (j - (i - 1))] = b[j - (i - 1)] /\ b[j - (i - 1)] = s[i + (j - (i - 1))]
      BY <1>4, <1>5, <1>7, <3>1
    <3> QED BY <2>2, <3>1, <3>2
  <2> QED BY <2>1, <2>2
<1> QED BY <1>3, <1>7, <1>8, <1>9 DEF Removed

LEMMA NoneRemoved ==
  ASSUME NEW s, NEW text, \A j \in 1 .. Len(s) : s[j] # text
  PROVE  Driver!RemoveFirst(s, text) = s
BY DEF Driver!RemoveFirst

\* The options end where the delimiter is.
LEMMA OptionsAre ==
  ASSUME NEW w, w \in Seq(Text)
  PROVE  \E e \in 0 .. Len(w) :
           /\ Driver!OptionWords(w) = SubSeq(w, 1, e)
           /\ SubSeq(w, 1, e) \in Seq(Text) /\ Len(SubSeq(w, 1, e)) = e
           /\ \A i \in 1 .. e : SubSeq(w, 1, e)[i] = w[i] /\ w[i] # Driver!Delimiter
           /\ e < Len(w) => w[e + 1] = Driver!Delimiter
           /\ e = Len(w) => Driver!OptionWords(w) = w
<1> DEFINE S == {j \in 1 .. Len(w) : w[j] = Driver!Delimiter}
<1>1. Len(w) \in Nat /\ 1 \in 1 .. Len(w) + 1
  OBVIOUS
<1>2. Driver!OptionWords(w) =
        IF (IF S # {} THEN Driver!Min(S) ELSE 0) = 0 THEN w
        ELSE SubSeq(w, 1, (IF S # {} THEN Driver!Min(S) ELSE 0) - 1)
  BY DEF Driver!OptionWords, Driver!SelectInSeq
<1>3. \A e \in 0 .. Len(w) : /\ SubSeq(w, 1, e) \in Seq(Text) /\ Len(SubSeq(w, 1, e)) = e
                             /\ \A i \in 1 .. e : SubSeq(w, 1, e)[i] = w[i]
  <2> TAKE e \in 0 .. Len(w)
  <2>1. /\ SubSeq(w, 1, e) \in Seq(Text) /\ Len(SubSeq(w, 1, e)) = e - 1 + 1
        /\ \A i \in 1 .. e - 1 + 1 : SubSeq(w, 1, e)[i] = w[1 + i - 1]
    BY <1>1, WordsCut
  <2> QED BY <1>1, <2>1
<1>4. CASE S = {}
  <2>1. Len(w) \in 0 .. Len(w) /\ Driver!OptionWords(w) = w /\ w = SubSeq(w, 1, Len(w))
    BY <1>1, <1>2, <1>4, SubSeqFull
  <2>2. \A i \in 1 .. Len(w) : w[i] # Driver!Delimiter
    BY <1>4
  <2>3. ~ (Len(w) < Len(w))
    BY <1>1
  <2> QED BY <1>3, <2>1, <2>2, <2>3
<1>5. CASE S # {}
  <2>1. Driver!Min(S) \in S /\ \A y \in S : Driver!Min(S) <= y
    <3>1. S \subseteq 1 .. Len(w)
      OBVIOUS
    <3> HIDE DEF S
    <3> QED BY <1>1, <1>5, <3>1, FirstIn
  <2>2. PICK d \in 1 .. Len(w) : d = Driver!Min(S) /\ w[d] = Driver!Delimiter
    BY <2>1
  <2>3. /\ d - 1 \in 0 .. Len(w) /\ d - 1 < Len(w) /\ (d - 1) + 1 = d /\ d # 0
    BY <1>1
  <2>4. Driver!OptionWords(w) = SubSeq(w, 1, d - 1)
    <3> HIDE DEF S
    <3> QED BY <1>2, <1>5, <2>2, <2>3
  <2>5. \A i \in 1 .. d - 1 : w[i] # Driver!Delimiter
    <3> SUFFICES ASSUME NEW i \in 1 .. d - 1, w[i] = Driver!Delimiter PROVE FALSE
      OBVIOUS
    <3>1. i \in S
      BY <1>1
    <3>2. d <= i
      BY <2>1, <2>2, <3>1
    <3> QED BY <1>1, <3>2
  <2> QED BY <1>3, <2>2, <2>3, <2>4, <2>5
<1> QED BY <1>4, <1>5

\* The source is the first word that is no option.
PositionIn(o) == Driver!SelectInSeq(o, Driver!NotShowC)

LEMMA PositionIs ==
  ASSUME NEW o, o \in Seq(Text)
  PROVE  /\ (\A i \in 1 .. Len(o) : o[i] = Driver!ShowC) => PositionIn(o) = 0
         /\ (\E i \in 1 .. Len(o) : o[i] # Driver!ShowC) =>
              /\ PositionIn(o) \in 1 .. Len(o) /\ o[PositionIn(o)] # Driver!ShowC
              /\ \A i \in 1 .. PositionIn(o) - 1 : o[i] = Driver!ShowC
<1> DEFINE S == {j \in 1 .. Len(o) : o[j] # Driver!ShowC}
<1>1. PositionIn(o) = IF S # {} THEN Driver!Min(S) ELSE 0
  BY DEF PositionIn, Driver!SelectInSeq, Driver!NotShowC
<1>2. CASE S = {}
  BY <1>1, <1>2
<1>3. CASE S # {}
  <2>1. Len(o) \in Nat /\ S \subseteq 1 .. Len(o)
    OBVIOUS
  <2>2. Driver!Min(S) \in S /\ \A y \in S : Driver!Min(S) <= y
    <3> HIDE DEF S
    <3> QED BY <1>3, <2>1, FirstIn
  <2>3. PICK p \in 1 .. Len(o) : p = PositionIn(o) /\ o[p] # Driver!ShowC /\ \A y \in S : p <= y
    BY <1>1, <1>3, <2>2
  <2>4. \A i \in 1 .. p - 1 : o[i] = Driver!ShowC
    <3> SUFFICES ASSUME NEW i \in 1 .. p - 1, o[i] # Driver!ShowC PROVE FALSE
      OBVIOUS
    <3>1. i \in S
      BY <2>1
    <3> QED BY <2>1, <2>3, <3>1
  <2> QED BY <2>3, <2>4
<1> QED BY <1>2, <1>3

\* When a command is refused, by its options.
Refusal(kind, w, o) ==
  \/ \E i, j \in 1 .. Len(o) : i # j /\ o[i] = Driver!ShowC /\ o[j] = Driver!ShowC
  \/ \A i \in 1 .. Len(o) : o[i] = Driver!ShowC
  \/ kind = "build" /\ (o # w \/ \E i \in 1 .. Len(o) : i # PositionIn(o) /\ o[i] # Driver!ShowC)
ShowsIn(o) == {i \in 1 .. Len(o) : o[i] = Driver!ShowC}

LEMMA RequestIs ==
  ASSUME NEW kind, NEW w, NEW o, o \in Seq(Text), o = Driver!OptionWords(w)
  PROVE  Driver!CompileRequest(kind, w) =
           IF Refusal(kind, w, o) THEN Driver!UsageError
           ELSE Driver!Request(kind, w[PositionIn(o)], ShowsIn(o) # {},
                    IF kind = "build" THEN <<>> ELSE Driver!Arguments(w, PositionIn(o)))
<1> DEFINE shows == {i \in DOMAIN o : o[i] = Driver!ShowC}
           others == DOMAIN o \ shows
           refused == \/ \E i, j \in shows : i # j
                      \/ others = {}
                      \/ kind = "build" /\ (o # w \/ others # {PositionIn(o)})
<1>1. DOMAIN o = 1 .. Len(o)
  OBVIOUS
<1>2. shows = ShowsIn(o)
  BY <1>1 DEF ShowsIn
<1>3. Driver!CompileRequest(kind, w) =
        IF refused THEN Driver!UsageError
        ELSE Driver!Request(kind, w[PositionIn(o)], shows # {},
                 IF kind = "build" THEN <<>> ELSE Driver!Arguments(w, PositionIn(o)))
  BY DEF Driver!CompileRequest, PositionIn, Driver!SelectInSeq, Driver!NotShowC
<1>4. refused <=> Refusal(kind, w, o)
  <2>1. (\E i, j \in shows : i # j) <=>
          \E i, j \in 1 .. Len(o) : i # j /\ o[i] = Driver!ShowC /\ o[j] = Driver!ShowC
    BY <1>1
  <2>2. others = {} <=> \A i \in 1 .. Len(o) : o[i] = Driver!ShowC
    BY <1>1
  <2>3. others # {} =>
          (others # {PositionIn(o)} <=>
             \E i \in 1 .. Len(o) : i # PositionIn(o) /\ o[i] # Driver!ShowC)
    <3> SUFFICES ASSUME others # {} PROVE others # {PositionIn(o)} <=>
             \E i \in 1 .. Len(o) : i # PositionIn(o) /\ o[i] # Driver!ShowC
      OBVIOUS
    <3>1. PositionIn(o) \in 1 .. Len(o) /\ o[PositionIn(o)] # Driver!ShowC
      BY <2>2, PositionIs
    <3>2. \A i : i \in others <=> i \in 1 .. Len(o) /\ o[i] # Driver!ShowC
      BY <1>1
    <3> HIDE DEF others
    <3> QED BY <3>1, <3>2
  <2> HIDE DEF others, shows
  <2> QED BY <2>1, <2>2, <2>3 DEF Refusal
<1> HIDE DEF refused, shows
<1> QED BY <1>2, <1>3, <1>4

\* A sequence of words is its first and those behind it.
LEMMA FirstAndRest ==
  ASSUME NEW w, w \in Seq(Text), w # <<>>
  PROVE  /\ Len(w) \in Nat /\ 1 <= Len(w) /\ w[1] \in Text /\ Head(w) = w[1]
         /\ SubSeq(w, 2, Len(w)) \in Seq(Text) /\ Tail(w) = SubSeq(w, 2, Len(w))
         /\ <<w[1]>> \o SubSeq(w, 2, Len(w)) = w
<1>1. Len(w) \in Nat /\ 1 <= Len(w) /\ w[1] \in Text /\ Head(w) = w[1]
  BY EmptySeq
<1>2. Tail(w) = SubSeq(w, 2, Len(w)) /\ Tail(w) \in Seq(Text)
  BY TailIsSubSeq, HeadTailProperties
<1>3. SubSeq(w, 1, Len(w)) = <<w[1]>> \o SubSeq(w, 1 + 1, Len(w)) /\ SubSeq(w, 1, Len(w)) = w
  <2>1. 1 \in 1 .. Len(w) /\ Len(w) \in 1 .. Len(w)
    BY <1>1
  <2> QED BY <2>1, SubSeqRecursiveFirst, SubSeqFull
<1>4. 1 + 1 = 2
  OBVIOUS
<1> QED BY <1>1, <1>2, <1>3, <1>4

\* The first word of a part, and the rest of it.
LEMMA WordsFirst ==
  ASSUME NEW w, w \in Seq(Text), NEW m \in 1 .. Len(w), NEW n \in m .. Len(w)
  PROVE  SubSeq(w, m, n) = <<w[m]>> \o SubSeq(w, m + 1, n)
BY SubSeqRecursiveFirst, Zenon

LEMMA InsertedBack ==
  ASSUME NEW w, w \in Seq(Text), NEW u, NEW q, q \in 1 .. Len(w), NEW text, text \in Text,
         Removed(w, q, u), w[q] = text
  PROVE  q \in 1 .. Len(u) + 1 /\ Driver!InsertAt(u, q, text) = w
<1>1. /\ Len(w) \in Nat /\ Len(u) + 1 = Len(w) /\ q \in 1 .. Len(u) + 1 /\ u \in Seq(Text)
      /\ \A j \in 1 .. Len(w) - 1 : u[j] = IF j < q THEN w[j] ELSE w[j + 1]
  BY DEF Removed
<1>2. PICK t : t = Driver!InsertAt(u, q, text) /\ Inserted(u, q, text, t)
  BY <1>1, InsertedIs
<1>3. /\ t \in Seq(Text) /\ Len(t) = Len(u) + 1
      /\ \A j \in 1 .. Len(u) + 1 : t[j] = IF j < q THEN u[j] ELSE IF j = q THEN text ELSE u[j - 1]
  BY <1>2 DEF Inserted
<1>4. ASSUME NEW j \in 1 .. Len(t) PROVE t[j] = w[j]
  <2>1. CASE j < q
    BY <1>1, <1>3, <2>1, SMTT(40)
  <2>2. CASE j = q
    BY <1>1, <1>3, <2>2
  <2>3. CASE q < j
    <3>1. j - 1 \in 1 .. Len(w) - 1 /\ ~ (j - 1 < q) /\ (j - 1) + 1 = j
      BY <1>1, <1>3, <2>3
    <3>2. u[j - 1] = IF j - 1 < q THEN w[j - 1] ELSE w[(j - 1) + 1]
      BY <1>1, <3>1
    <3>3. u[j - 1] = w[j]
      BY <3>1, <3>2
    <3> QED BY <1>1, <1>3, <2>3, <3>3
  <2> QED BY <1>1, <2>1, <2>2, <2>3
<1> QED BY <1>1, <1>2, <1>3, <1>4, SameWords

\* A request by what spells it.
LEMMA SpelledPlain ==
  ASSUME NEW kind, kind \in {"build", "run"}, NEW source, NEW shown, NEW arguments, NEW v,
         source \notin {Driver!ShowC, Driver!Delimiter},
         \A i \in DOMAIN arguments : arguments[i] \notin {Driver!ShowC, Driver!Delimiter},
         kind = "build" => arguments = <<>>,
         v \in Driver!Shown(<<source>> \o arguments, shown)
  PROVE  Driver!Spells(<<kind>> \o v, Driver!Request(kind, source, shown, arguments))
<1>1. PICK r : r = Driver!Request(kind, source, shown, arguments)
  OBVIOUS
<1>2. /\ r.kind = kind /\ r.source = source /\ r.showC = shown /\ r.arguments = arguments
      /\ kind # "help"
  BY <1>1 DEF Driver!Request
<1>3. Driver!Spells(<<kind>> \o v, r)
  BY <1>2, Zenon DEF Driver!Spells
<1> QED BY <1>1, <1>3

LEMMA SpelledBehind ==
  ASSUME NEW source, NEW shown, NEW arguments, NEW v,
         source \notin {Driver!ShowC, Driver!Delimiter},
         v \in Driver!Shown(<<source>>, shown)
  PROVE  Driver!Spells(<<"run">> \o v \o <<Driver!Delimiter>> \o arguments,
                       Driver!Request("run", source, shown, arguments))
<1>1. PICK r : r = Driver!Request("run", source, shown, arguments)
  OBVIOUS
<1>2. /\ r.kind = "run" /\ r.source = source /\ r.showC = shown /\ r.arguments = arguments
      /\ r.kind # "help"
  BY <1>1 DEF Driver!Request
<1>3. Driver!Spells(<<"run">> \o v \o <<Driver!Delimiter>> \o arguments, r)
  BY <1>2, Zenon DEF Driver!Spells
<1> QED BY <1>1, <1>3

\* A line without a delimiter.
LEMMA UnderstoodPlain ==
  ASSUME NEW kind, kind \in {"build", "run"}, NEW w, w \in Seq(Text),
         Driver!OptionWords(w) = w, \A i \in 1 .. Len(w) : w[i] # Driver!Delimiter,
         ~Refusal(kind, w, w)
  PROVE  Driver!Spells(<<kind>> \o w,
             Driver!Request(kind, w[PositionIn(w)], ShowsIn(w) # {},
                 IF kind = "build" THEN <<>> ELSE Driver!Arguments(w, PositionIn(w))))
<1>1. PICK p : p = PositionIn(w)
  OBVIOUS
<1>2. PICK n \in Nat : n = Len(w)
  OBVIOUS
<1>3. /\ \A i, j \in 1 .. n : i # j => w[i] # Driver!ShowC \/ w[j] # Driver!ShowC
      /\ \E i \in 1 .. n : w[i] # Driver!ShowC
      /\ kind = "build" => \A i \in 1 .. n : i # p => w[i] = Driver!ShowC
  BY <1>1, <1>2 DEF Refusal
<1>4. p \in 1 .. n /\ w[p] # Driver!ShowC /\ \A i \in 1 .. p - 1 : w[i] = Driver!ShowC
  BY <1>1, <1>2, <1>3, PositionIs
<1>5. p = 1 \/ p = 2
  <2> SUFFICES ASSUME p > 2 PROVE FALSE
    BY <1>2, <1>4
  <2>1. 1 \in 1 .. p - 1 /\ 2 \in 1 .. p - 1 /\ 1 \in 1 .. n /\ 2 \in 1 .. n
    BY <1>2, <1>4
  <2> QED BY <1>3, <1>4, <2>1
<1>6. PICK rest : rest = SubSeq(w, p + 1, n)
  OBVIOUS
<1>7. /\ rest \in Seq(Text) /\ Len(rest) = n - p
      /\ \A i \in 1 .. n - p : rest[i] = w[p + i]
  <2>1. p + 1 \in 1 .. Len(w) + 1 /\ n \in 0 .. Len(w) /\ p + 1 <= n + 1
    BY <1>2, <1>4
  <2>2. /\ SubSeq(w, p + 1, n) \in Seq(Text) /\ Len(SubSeq(w, p + 1, n)) = n - (p + 1) + 1
        /\ \A i \in 1 .. n - (p + 1) + 1 : SubSeq(w, p + 1, n)[i] = w[(p + 1) + i - 1]
    BY <2>1, WordsCut
  <2>3. \A i \in 1 .. n - p : (p + 1) + i - 1 = p + i
    BY <1>4
  <2> QED BY <1>2, <1>4, <1>6, <2>2, <2>3
<1>8. PICK arguments : arguments = IF kind = "build" THEN <<>> ELSE Driver!Arguments(w, PositionIn(w))
  OBVIOUS
<1>9. arguments = Driver!RemoveFirst(rest, Driver!ShowC)
  <2>1. CASE kind = "run"
    BY <1>1, <1>2, <1>6, <1>8, <2>1 DEF Driver!Arguments
  <2>2. CASE kind = "build"
    <3>1. n - p = 0 \/ n - p = 1
      <4> SUFFICES ASSUME n - p >= 2 PROVE FALSE
        BY <1>2, <1>4
      <4>1. p + 1 \in 1 .. n /\ p + 2 \in 1 .. n /\ p + 1 # p /\ p + 2 # p /\ p + 1 # p + 2
        BY <1>2, <1>4
      <4> QED BY <1>3, <2>2, <4>1
    <3>2. CASE n - p = 0
      <4>1. Driver!RemoveFirst(rest, Driver!ShowC) = rest
        BY <1>7, <3>2, NoneRemoved
      <4> QED BY <1>7, <1>8, <2>2, <3>2, <4>1, EmptySeq
    <3>3. CASE n - p = 1
      <4>1. rest[1] = Driver!ShowC
        <5>1. 1 \in 1 .. n - p /\ p + 1 \in 1 .. n /\ p + 1 # p
          BY <1>2, <1>4, <3>3
        <5> QED BY <1>3, <1>7, <2>2, <5>1
      <4>2. 1 \in 1 .. Len(rest) /\ \A j \in 1 .. Len(rest) : j = 1
        BY <1>7, <3>3
      <4>3. Removed(rest, 1, Driver!RemoveFirst(rest, Driver!ShowC))
        BY <1>7, <4>1, <4>2, RemovedIs
      <4>4. /\ Driver!RemoveFirst(rest, Driver!ShowC) \in Seq(Text)
            /\ Len(Driver!RemoveFirst(rest, Driver!ShowC)) = 0
        BY <1>7, <3>3, <4>3 DEF Removed
      <4> QED BY <1>8, <2>2, <4>4, EmptySeq
    <3> QED BY <3>1, <3>2, <3>3
  <2> QED BY <2>1, <2>2
<1>10. PICK words : words = <<w[p]>> \o arguments
  OBVIOUS
<1>11. w[p] \in Text /\ w[p] \notin {Driver!ShowC, Driver!Delimiter} /\ Driver!ShowC \in Text
  <2>1. w[p] \in Text
    BY <1>2, <1>4, ElementOfSeq
  <2>2. w[p] # Driver!Delimiter
    BY <1>2, <1>4
  <2>3. Driver!ShowC \in Text
    BY DEF Text
  <2> QED BY <1>4, <2>1, <2>2, <2>3
<1>12. kind = "build" => arguments = <<>>
  BY <1>8
<1>13. PICK l : l = <<w[p]>> /\ l \in Seq(Text) /\ Len(l) = 1 /\ l[1] = w[p]
  <2>1. PICK word : word = w[p]
    OBVIOUS
  <2>2. word \in Text
    BY <1>11, <2>1
  <2>3. PICK l : l = <<word>> /\ l \in Seq(Text) /\ Len(l) = 1 /\ l[1] = word
    BY <2>2, OneWord
  <2> QED BY <2>1, <2>3
<1>14. ASSUME NEW shown, w \in Driver!Shown(words, shown), shown = (ShowsIn(w) # {}),
              arguments \in Seq(Text),
              \A i \in 1 .. Len(arguments) : arguments[i] \notin {Driver!ShowC, Driver!Delimiter}
       PROVE  Driver!Spells(<<kind>> \o w, Driver!Request(kind, w[p], ShowsIn(w) # {}, arguments))
  <2>1. \A i \in DOMAIN arguments : arguments[i] \notin {Driver!ShowC, Driver!Delimiter}
    BY <1>14
  <2>2. Driver!Spells(<<kind>> \o w, Driver!Request(kind, w[p], shown, arguments))
    BY <1>10, <1>11, <1>12, <1>14, <2>1, SpelledPlain
  <2> QED BY <1>14, <2>2
<1>15. CASE ~ \E i \in 1 .. n : w[i] = Driver!ShowC
  <2>1. p = 1
    <3> SUFFICES ASSUME p = 2 PROVE FALSE
      BY <1>5
    <3>1. 1 \in 1 .. p - 1 /\ 1 \in 1 .. n
      BY <1>2, <1>4
    <3> QED BY <1>4, <1>15, <3>1
  <2>2. \A i \in 1 .. n - p : rest[i] \notin {Driver!ShowC, Driver!Delimiter}
    <3> TAKE i \in 1 .. n - p
    <3>1. p + i \in 1 .. n
      BY <1>2, <1>4
    <3> QED BY <1>2, <1>7, <1>15, <3>1
  <2>3. arguments = rest
    BY <1>7, <1>9, <2>2, NoneRemoved
  <2>4. words = w
    <3>1. w # <<>>
      BY <1>2, <1>4
    <3>2. 1 + 1 = 2
      OBVIOUS
    <3> QED BY <1>2, <1>6, <1>10, <2>1, <2>3, <3>1, <3>2, FirstAndRest
  <2>5. w \in Driver!Shown(words, FALSE) /\ FALSE = (ShowsIn(w) # {})
    BY <1>2, <1>15, <2>4 DEF Driver!Shown, ShowsIn
  <2>6. \A i \in 1 .. Len(arguments) : arguments[i] \notin {Driver!ShowC, Driver!Delimiter}
    BY <1>7, <2>2, <2>3
  <2> QED BY <1>1, <1>7, <1>8, <1>14, <2>3, <2>5, <2>6
<1>16. ASSUME NEW q \in 1 .. n, w[q] = Driver!ShowC, Removed(w, q, words),
              arguments \in Seq(Text),
              \A i \in 1 .. Len(arguments) : arguments[i] \notin {Driver!ShowC, Driver!Delimiter}
       PROVE  Driver!Spells(<<kind>> \o w, Driver!Request(kind, w[p], ShowsIn(w) # {}, arguments))
  <2>1. q \in 1 .. Len(words) + 1 /\ Driver!InsertAt(words, q, Driver!ShowC) = w
    BY <1>2, <1>11, <1>16, InsertedBack
  <2>2. w \in Driver!Shown(words, TRUE)
    BY <2>1 DEF Driver!Shown
  <2>3. TRUE = (ShowsIn(w) # {})
    BY <1>2, <1>16 DEF ShowsIn
  <2> QED BY <1>14, <1>16, <2>2, <2>3
<1>17. CASE w[1] = Driver!ShowC
  <2>1. p = 2 /\ 1 \in 1 .. n /\ n >= 2
    BY <1>2, <1>4, <1>5, <1>17
  <2>2. \A i \in 1 .. n - p : rest[i] \notin {Driver!ShowC, Driver!Delimiter}
    <3> TAKE i \in 1 .. n - p
    <3>1. p + i \in 1 .. n /\ p + i # 1
      BY <1>2, <1>4
    <3> QED BY <1>2, <1>3, <1>7, <1>17, <2>1, <3>1
  <2>3. arguments = rest
    BY <1>7, <1>9, <2>2, NoneRemoved
  <2>4. Joined(l, rest, words)
    BY <1>7, <1>10, <1>13, <2>3, WordsJoined
  <2>5. Removed(w, 1, words)
    <3>1. words \in Seq(Text) /\ Len(words) = n - 1
      BY <1>2, <1>7, <1>13, <2>1, <2>4 DEF Joined
    <3>2. ASSUME NEW j \in 1 .. n - 1 PROVE words[j] = w[j + 1]
      <4>1. CASE j = 1
        <5>1. words[1] = l[1]
          BY <1>13, <2>4 DEF Joined
        <5> QED BY <1>13, <2>1, <4>1, <5>1
      <4>2. CASE j > 1
        <5>1. j - 1 \in 1 .. n - p /\ 1 + (j - 1) = j /\ p + (j - 1) = j + 1
          BY <1>2, <2>1, <4>2
        <5>2. words[1 + (j - 1)] = rest[j - 1] /\ rest[j - 1] = w[p + (j - 1)]
          BY <1>7, <1>13, <2>4, <5>1 DEF Joined
        <5> QED BY <5>1, <5>2
      <4> QED BY <1>2, <4>1, <4>2
    <3> QED BY <1>2, <3>1, <3>2 DEF Removed
  <2>6. \A i \in 1 .. Len(arguments) : arguments[i] \notin {Driver!ShowC, Driver!Delimiter}
    BY <1>7, <2>2, <2>3
  <2> QED BY <1>1, <1>7, <1>8, <1>16, <1>17, <2>1, <2>3, <2>5, <2>6
<1>18. CASE w[1] # Driver!ShowC /\ \E i \in 1 .. n : w[i] = Driver!ShowC
  <2>1. PICK q \in 1 .. n : w[q] = Driver!ShowC
    BY <1>18
  <2>2. q > 1 /\ \A i \in 1 .. n : w[i] = Driver!ShowC => i = q
    BY <1>2, <1>3, <1>18, <2>1
  <2>3. p = 1
    <3> SUFFICES ASSUME p = 2 PROVE FALSE
      BY <1>5
    <3>1. 1 \in 1 .. p - 1
      BY <1>2
    <3> QED BY <1>4, <1>18, <3>1
  <2>4. Removed(rest, q - 1, arguments)
    <3>1. q - 1 \in 1 .. Len(rest) /\ p + (q - 1) = q /\ q - 1 \in 1 .. n - p
      BY <1>2, <1>7, <2>2, <2>3
    <3>2. rest[q - 1] = Driver!ShowC
      BY <1>7, <2>1, <3>1
    <3>3. ASSUME NEW j \in 1 .. Len(rest), rest[j] = Driver!ShowC PROVE j = q - 1
      <4>1. j \in 1 .. n - p /\ p + j \in 1 .. n
        BY <1>2, <1>7, <2>3
      <4>2. p + j = q
        BY <1>7, <2>2, <3>3, <4>1
      <4> QED BY <2>3, <4>2
    <3> QED BY <1>7, <1>9, <3>1, <3>2, <3>3, RemovedIs
  <2>5. /\ arguments \in Seq(Text) /\ Len(arguments) = n - 2
        /\ \A j \in 1 .. n - 2 : arguments[j] = IF j < q - 1 THEN w[j + 1] ELSE w[j + 2]
    <3>1. /\ arguments \in Seq(Text) /\ Len(arguments) = n - 2
          /\ \A j \in 1 .. n - 2 : arguments[j] = IF j < q - 1 THEN rest[j] ELSE rest[j + 1]
      BY <1>2, <1>7, <2>3, <2>4, SMTT(40) DEF Removed
    <3>2. ASSUME NEW j \in 1 .. n - 2
          PROVE  rest[j] = w[j + 1] /\ rest[j + 1] = w[j + 2]
      <4>1. j \in 1 .. n - p /\ j + 1 \in 1 .. n - p /\ p + j = j + 1 /\ p + (j + 1) = j + 2
        BY <1>2, <2>3
      <4> QED BY <1>7, <4>1
    <3> QED BY <3>1, <3>2
  <2>6. Joined(l, arguments, words)
    BY <1>10, <1>13, <2>5, WordsJoined
  <2>7. Removed(w, q, words)
    <3>1. words \in Seq(Text) /\ Len(words) = n - 1
      BY <1>2, <1>13, <2>2, <2>5, <2>6 DEF Joined
    <3>2. ASSUME NEW j \in 1 .. n - 1 PROVE words[j] = IF j < q THEN w[j] ELSE w[j + 1]
      <4>1. CASE j = 1
        <5>1. words[1] = l[1]
          BY <1>13, <2>6 DEF Joined
        <5> QED BY <1>13, <2>2, <2>3, <4>1, <5>1
      <4>2. CASE j > 1
        <5>1. /\ j - 1 \in 1 .. n - 2 /\ 1 + (j - 1) = j /\ (j - 1) + 1 = j /\ (j - 1) + 2 = j + 1
              /\ j - 1 < q - 1 <=> j < q
          BY <1>2, <4>2
        <5>2. words[1 + (j - 1)] = arguments[j - 1]
          BY <1>13, <2>5, <2>6, <5>1 DEF Joined
        <5>3. arguments[j - 1] = IF j - 1 < q - 1 THEN w[(j - 1) + 1] ELSE w[(j - 1) + 2]
          BY <2>5, <5>1
        <5> QED BY <5>1, <5>2, <5>3
      <4> QED BY <1>2, <4>1, <4>2
    <3> QED BY <1>2, <3>1, <3>2 DEF Removed
  <2>8. ASSUME NEW i \in 1 .. Len(arguments)
        PROVE  arguments[i] \notin {Driver!ShowC, Driver!Delimiter}
    <3>1. i \in 1 .. n - 2 /\ i + 1 \in 1 .. n /\ i + 2 \in 1 .. n
      BY <1>2, <2>5
    <3>2. (i < q - 1 => i + 1 # q) /\ (~ (i < q - 1) => i + 2 # q)
      BY <1>2, <3>1
    <3> QED BY <1>2, <2>2, <2>5, <3>1, <3>2
  <2> QED BY <1>1, <1>8, <1>16, <2>1, <2>5, <2>7, <2>8
<1> QED BY <1>2, <1>15, <1>17, <1>18

\* A line with one: what stands between the source and it is left out.
LEMMA UnderstoodBehind ==
  ASSUME NEW w, w \in Seq(Text), NEW e, e \in 0 .. Len(w), e < Len(w),
         NEW o, o = Driver!OptionWords(w), o \in Seq(Text), Len(o) = e,
         \A i \in 1 .. e : o[i] = w[i] /\ w[i] # Driver!Delimiter,
         w[e + 1] = Driver!Delimiter, ~Refusal("run", w, o),
         NEW l, Head(l) = "run", Tail(l) = w, Len(l) = Len(w) + 1
  PROVE  Driver!Spells(Driver!WithoutLost(l),
             Driver!Request("run", w[PositionIn(o)], ShowsIn(o) # {},
                            Driver!Arguments(w, PositionIn(o))))
<1>1. PICK p : p = PositionIn(o)
  OBVIOUS
<1>2. PICK n \in Nat : n = Len(w)
  OBVIOUS
<1>3. /\ e \in Nat /\ e + 1 \in 1 .. n /\ e + 2 \in 1 .. n + 1 /\ n \in 0 .. n /\ e + 2 <= n + 1
      /\ \A i, j \in 1 .. e : i # j => o[i] # Driver!ShowC \/ o[j] # Driver!ShowC
      /\ \E i \in 1 .. e : o[i] # Driver!ShowC
  BY <1>2 DEF Refusal
<1>4. p \in 1 .. e /\ o[p] # Driver!ShowC /\ \A i \in 1 .. p - 1 : o[i] = Driver!ShowC
  BY <1>1, <1>3, PositionIs, ZenonT(60)
<1>5. p = 1 \/ p = 2
  <2> SUFFICES ASSUME p > 2 PROVE FALSE
    BY <1>3, <1>4
  <2>1. 1 \in 1 .. p - 1 /\ 2 \in 1 .. p - 1 /\ 1 \in 1 .. e /\ 2 \in 1 .. e
    BY <1>3, <1>4
  <2>2. o[1] = Driver!ShowC /\ o[2] = Driver!ShowC
    BY <1>4, <2>1
  <2>3. 1 # 2 /\ \A i, k \in 1 .. e : i # k => o[i] # Driver!ShowC \/ o[k] # Driver!ShowC
    BY <1>3
  <2> QED BY <2>1, <2>2, <2>3
<1>6. PICK source : source = w[p]
  OBVIOUS
<1>7. /\ source \in Text /\ o[p] = source
      /\ source \notin {Driver!ShowC, Driver!Delimiter}
      /\ Driver!ShowC \in Text /\ Driver!Delimiter \in Text /\ "run" \in Text
  <2>1. p \in 1 .. Len(w)
    BY <1>2, <1>3, <1>4
  <2>2. source \in Text
    BY <1>6, <2>1, ElementOfSeq
  <2>3. o[p] = source /\ source \notin {Driver!ShowC, Driver!Delimiter}
    BY <1>4, <1>6
  <2> QED BY <2>2, <2>3 DEF Text
<1>8. PICK arguments : arguments = SubSeq(w, e + 2, n) /\ arguments \in Seq(Text)
  BY <1>2, <1>3, WordsCut
<1>9. Driver!Arguments(w, PositionIn(o)) = arguments
  BY <1>2, <1>8 DEF Driver!Arguments
<1>10. PICK front : /\ front = SubSeq(o, 1, p) /\ front \in Seq(Text) /\ Len(front) = p
                    /\ \A i \in 1 .. p : front[i] = o[i]
  <2>1. 1 \in 1 .. Len(o) + 1 /\ p \in 0 .. Len(o) /\ 1 <= p + 1
    BY <1>3, <1>4
  <2>2. /\ SubSeq(o, 1, p) \in Seq(Text) /\ Len(SubSeq(o, 1, p)) = p - 1 + 1
        /\ \A i \in 1 .. p - 1 + 1 : SubSeq(o, 1, p)[i] = o[1 + i - 1]
    BY <2>1, WordsCut
  <2>3. PICK front : front = SubSeq(o, 1, p)
    OBVIOUS
  <2>4. front \in Seq(Text) /\ Len(front) = p
    BY <1>3, <1>4, <2>2, <2>3
  <2>5. ASSUME NEW i \in 1 .. p PROVE front[i] = o[i]
    <3>1. i \in 1 .. p - 1 + 1 /\ 1 + i - 1 = i
      BY <1>3, <1>4
    <3> QED BY <2>2, <2>3, <3>1
  <2> QED BY <2>3, <2>4, <2>5, ZenonT(60)
<1>11. PICK option : option = IF \E i \in p + 1 .. Len(o) : o[i] = Driver!ShowC
                              THEN <<Driver!ShowC>> ELSE <<>>
  OBVIOUS
<1>12. PICK one : one = <<Driver!ShowC>> /\ one \in Seq(Text) /\ Len(one) = 1 /\ one[1] = Driver!ShowC
  BY <1>7, OneWord
<1>13. option \in Seq(Text)
  BY <1>11, <1>12, EmptySeq
<1>14. PICK v : v = front \o option /\ v \in Seq(Text) /\ Joined(front, option, v)
  <2>1. Joined(front, option, front \o option)
    BY <1>10, <1>13, WordsJoined
  <2> QED BY <2>1 DEF Joined
<1>15. PICK word : word = <<source>> /\ word \in Seq(Text) /\ Len(word) = 1 /\ word[1] = source
  BY <1>7, OneWord
<1>16. Driver!WithoutLost(l) = <<"run">> \o v \o <<Driver!Delimiter>> \o arguments
  <2>1. PICK run : run = <<"run">> /\ run \in Seq(Text)
    BY <1>7, OneWord
  <2>2. PICK delimiter : delimiter = <<Driver!Delimiter>> /\ delimiter \in Seq(Text)
    BY <1>7, OneWord
  <2>3. PICK behind : behind = SubSeq(w, e + 1, n)
    OBVIOUS
  <2>4. Driver!WithoutLost(l) = run \o front \o option \o behind
    <3>1. o # Tail(l) /\ p # 0
      BY <1>2, <1>3, <1>4
    <3>2. Len(o) + 1 = e + 1 /\ Len(l) - 1 = n
      BY <1>2
    <3>3. Driver!WithoutLost(l) =
            <<Head(l)>> \o SubSeq(o, 1, PositionIn(o))
              \o (IF \E i \in PositionIn(o) + 1 .. Len(o) : o[i] = Driver!ShowC
                  THEN <<Driver!ShowC>> ELSE <<>>)
              \o SubSeq(w, Len(o) + 1, Len(l) - 1)
      BY <1>1, <3>1 DEF Driver!WithoutLost, PositionIn, Driver!SelectInSeq, Driver!NotShowC
    <3> QED BY <1>1, <1>10, <1>11, <2>1, <2>3, <3>2, <3>3
  <2>5. behind = delimiter \o arguments
    <3>1. e + 1 \in 1 .. Len(w) /\ n \in e + 1 .. Len(w) /\ e + 1 + 1 = e + 2
      BY <1>2, <1>3
    <3>2. PICK m : m = e + 1
      OBVIOUS
    <3>3. m \in 1 .. Len(w) /\ n \in m .. Len(w)
      BY <3>1, <3>2
    <3>4. SubSeq(w, m, n) = <<w[m]>> \o SubSeq(w, m + 1, n)
      BY <3>3, WordsFirst
    <3>5. SubSeq(w, e + 1, n) = <<w[e + 1]>> \o SubSeq(w, e + 1 + 1, n)
      BY <3>2, <3>4
    <3> QED BY <1>8, <2>2, <2>3, <3>1, <3>5
  <2>6. run \o front \o option = run \o v
    <3>1. Associate(run, front, option)
      BY <1>10, <1>13, <2>1, WordsAssociate
    <3> QED BY <1>14, <3>1 DEF Associate
  <2>7. PICK start : start = run \o v /\ start \in Seq(Text)
    <3>1. Joined(run, v, run \o v)
      BY <1>14, <2>1, WordsJoined
    <3> QED BY <3>1 DEF Joined
  <2>8. start \o (delimiter \o arguments) = start \o delimiter \o arguments
    <3>1. Associate(start, delimiter, arguments)
      BY <1>8, <2>2, <2>7, WordsAssociate
    <3> QED BY <3>1 DEF Associate
  <2>9. run \o front \o option \o behind = start \o delimiter \o arguments
    BY <2>5, <2>6, <2>7, <2>8
  <2> QED BY <2>1, <2>2, <2>4, <2>7, <2>9
<1>17. ASSUME NEW shown, shown = (ShowsIn(o) # {}), v \in Driver!Shown(<<source>>, shown)
       PROVE  Driver!Spells(Driver!WithoutLost(l),
                  Driver!Request("run", source, ShowsIn(o) # {}, arguments))
  <2>1. Driver!Spells(<<"run">> \o v \o <<Driver!Delimiter>> \o arguments,
                      Driver!Request("run", source, shown, arguments))
    BY <1>7, <1>17, SpelledBehind
  <2> QED BY <1>16, <1>17, <2>1
<1>18. ASSUME NEW q \in 1 .. Len(v), v[q] = Driver!ShowC, Removed(v, q, word), ShowsIn(o) # {}
       PROVE  Driver!Spells(Driver!WithoutLost(l),
                  Driver!Request("run", source, ShowsIn(o) # {}, arguments))
  <2>1. q \in 1 .. Len(word) + 1 /\ Driver!InsertAt(word, q, Driver!ShowC) = v
    <3>1. v \in Seq(Text) /\ q \in 1 .. Len(v) /\ Driver!ShowC \in Text
      BY <1>7, <1>14
    <3>2. Removed(v, q, word) /\ v[q] = Driver!ShowC
      BY <1>18
    <3> QED BY ONLY <3>1, <3>2, InsertedBack
  <2>2. v \in Driver!Shown(<<source>>, TRUE)
    BY <1>15, <2>1 DEF Driver!Shown
  <2>3. TRUE = (ShowsIn(o) # {})
    BY <1>18
  <2> QED BY <1>17, <2>2, <2>3
<1>19. CASE p = 2
  <2>1. o[1] = Driver!ShowC /\ 1 \in 1 .. e /\ 2 \in 1 .. e /\ front[1] = Driver!ShowC /\ front[2] = source
    <3>1. 1 \in 1 .. p - 1 /\ 1 \in 1 .. p /\ 2 \in 1 .. p /\ 1 \in 1 .. e
      BY <1>3, <1>4, <1>19
    <3> QED BY <1>4, <1>7, <1>10, <1>19, <3>1
  <2>2. option = <<>>
    <3>1. ASSUME NEW i \in p + 1 .. Len(o) PROVE o[i] # Driver!ShowC
      <4>1. i \in 1 .. e /\ i # 1
        BY <1>3, <1>19
      <4> QED BY <1>3, <2>1, <4>1
    <3> QED BY <1>11, <3>1
  <2>3. v = front
    BY <1>10, <1>14, <2>2, ConcatEmptySeq
  <2>4. Removed(v, 1, word)
    <3>1. Len(v) - 1 = 1
      BY <1>10, <1>19, <2>3
    <3>2. ASSUME NEW j \in 1 .. 1 PROVE word[j] = v[j + 1]
      <4>1. j = 1 /\ j + 1 = 2
        OBVIOUS
      <4>2. word[1] = v[2]
        BY <1>15, <2>1, <2>3
      <4> QED BY <4>1, <4>2
    <3>3. \A j \in 1 .. 1 : ~ (j < 1)
      OBVIOUS
    <3> QED BY <1>15, <3>1, <3>2, <3>3 DEF Removed
  <2>5. 1 \in 1 .. Len(v)
    BY <1>10, <1>19, <2>3
  <2>6. ShowsIn(o) # {}
    BY <2>1 DEF ShowsIn
  <2> QED BY <1>1, <1>6, <1>9, <1>18, <2>1, <2>3, <2>4, <2>5, <2>6
<1>20. CASE p = 1 /\ \E i \in p + 1 .. Len(o) : o[i] = Driver!ShowC
  <2>1. option = one /\ Len(front) = 1 /\ 1 \in 1 .. 1 /\ front[1] = source
    <3>1. 1 \in 1 .. p
      BY <1>20
    <3> QED BY <1>7, <1>10, <1>11, <1>12, <1>20, <3>1
  <2>2. Len(v) = 2 /\ v[1] = source /\ v[2] = Driver!ShowC
    <3>1. v[1] = front[1] /\ v[1 + 1] = one[1] /\ 1 + 1 = 2 /\ Len(v) = 1 + 1
      BY <1>12, <1>14, <2>1 DEF Joined
    <3> QED BY <1>12, <2>1, <3>1
  <2>3. Removed(v, 2, word)
    <3>1. Len(v) - 1 = 1 /\ \A j \in 1 .. 1 : j = 1 /\ j < 2
      BY <2>2
    <3> QED BY <1>15, <2>2, <3>1 DEF Removed
  <2>4. 2 \in 1 .. Len(v)
    BY <2>2
  <2>5. ShowsIn(o) # {}
    <3>1. PICK i \in p + 1 .. Len(o) : o[i] = Driver!ShowC
      BY <1>20
    <3>2. i \in 1 .. Len(o)
      BY <1>3, <1>4
    <3> QED BY <3>1, <3>2 DEF ShowsIn
  <2> QED BY <1>1, <1>6, <1>9, <1>18, <2>2, <2>3, <2>4, <2>5
<1>21. CASE p = 1 /\ ~ \E i \in p + 1 .. Len(o) : o[i] = Driver!ShowC
  <2>1. v = front
    BY <1>10, <1>11, <1>14, <1>21, ConcatEmptySeq
  <2>2. front = word
    <3>1. Len(front) = 1 /\ 1 \in 1 .. p /\ front[1] = source
      BY <1>7, <1>10, <1>21
    <3>2. ASSUME NEW i \in 1 .. Len(front) PROVE front[i] = word[i]
      <4>1. i = 1
        BY <3>1
      <4> QED BY <1>15, <3>1, <4>1
    <3>3. front \in Seq(Text) /\ word \in Seq(Text) /\ Len(front) = Len(word)
      BY <1>10, <1>15, <3>1
    <3> QED BY ONLY <3>2, <3>3, SameWords
  <2>3. v \in Driver!Shown(<<source>>, FALSE)
    BY <1>15, <2>1, <2>2 DEF Driver!Shown
  <2>4. FALSE = (ShowsIn(o) # {})
    <3>1. ASSUME NEW i \in 1 .. Len(o) PROVE o[i] # Driver!ShowC
      <4>1. i = p \/ i \in p + 1 .. Len(o)
        BY <1>3, <1>21
      <4> QED BY <1>4, <1>21, <4>1
    <3> QED BY <3>1 DEF ShowsIn
  <2> QED BY <1>1, <1>6, <1>9, <1>17, <2>3, <2>4
<1> QED BY <1>5, <1>19, <1>20, <1>21

\* What may be shown, with at most one option among words of which none is one.
LEMMA ShownOptions ==
  ASSUME NEW ws, ws \in Seq(Text), Len(ws) >= 1, \A i \in 1 .. Len(ws) : ws[i] # Driver!ShowC,
         NEW shown, NEW v, v \in Driver!Shown(ws, shown)
  PROVE  /\ v \in Seq(Text)
         /\ \A i, j \in 1 .. Len(v) : i # j => v[i] # Driver!ShowC \/ v[j] # Driver!ShowC
         /\ \E i \in 1 .. Len(v) : v[i] # Driver!ShowC
         /\ \A i \in 1 .. Len(v) : v[i] = Driver!ShowC \/ \E j \in 1 .. Len(ws) : v[i] = ws[j]
         /\ Len(ws) = 1 => \A i, j \in 1 .. Len(v) :
                             v[i] # Driver!ShowC /\ v[j] # Driver!ShowC => i = j
<1>1. PICK n \in Nat : n = Len(ws) /\ n >= 1 /\ 1 \in 1 .. n
  OBVIOUS
<1>2. v = ws \/ \E k \in 1 .. Len(ws) + 1 : v = Driver!InsertAt(ws, k, Driver!ShowC)
  BY DEF Driver!Shown
<1>3. CASE v = ws
  <2>1. n = 1 => \A i, j \in 1 .. n : i = j
    OBVIOUS
  <2> QED BY <1>1, <1>3, <2>1
<1>4. CASE \E k \in 1 .. Len(ws) + 1 : v = Driver!InsertAt(ws, k, Driver!ShowC)
  <2>1. PICK k \in 1 .. n + 1 : v = Driver!InsertAt(ws, k, Driver!ShowC)
    BY <1>1, <1>4
  <2>2. Inserted(ws, k, Driver!ShowC, v)
    <3>1. Driver!ShowC \in Text /\ k \in 1 .. Len(ws) + 1
      BY <1>1 DEF Text
    <3> QED BY <2>1, <3>1, InsertedIs
  <2>3. /\ v \in Seq(Text) /\ Len(v) = n + 1
        /\ \A j \in 1 .. n + 1 :
             v[j] = IF j < k THEN ws[j] ELSE IF j = k THEN Driver!ShowC ELSE ws[j - 1]
    BY <1>1, <2>2 DEF Inserted
  <2>4. \A j \in 1 .. n + 1 : /\ j = k => v[j] = Driver!ShowC
                              /\ j # k => \E i \in 1 .. n : v[j] = ws[i]
    <3> TAKE j \in 1 .. n + 1
    <3>1. CASE j < k
      <4>1. j \in 1 .. n /\ j # k
        BY <3>1
      <4> QED BY <2>3, <3>1, <4>1
    <3>2. CASE j = k
      BY <2>3, <3>2
    <3>3. CASE k < j
      <4>1. j - 1 \in 1 .. n /\ ~ (j < k) /\ j # k
        BY <3>3
      <4> QED BY <2>3, <4>1
    <3> QED BY <3>1, <3>2, <3>3
  <2>5. \A j \in 1 .. n + 1 : v[j] = Driver!ShowC <=> j = k
    BY <1>1, <2>4
  <2>6. \E i \in 1 .. n + 1 : i # k
    <3>1. 1 \in 1 .. n + 1 /\ 2 \in 1 .. n + 1
      BY <1>1
    <3> QED BY <3>1
  <2>7. n = 1 => \A i, j \in 1 .. n + 1 : i # k /\ j # k => i = j
    OBVIOUS
  <2> QED BY <1>1, <2>3, <2>4, <2>5, <2>6, <2>7
<1> QED BY <1>2, <1>3, <1>4

\* Words in front of a delimiter, or of nothing, are the options.
LEMMA OptionsUpTo ==
  ASSUME NEW w, w \in Seq(Text), NEW v, v \in Seq(Text), Len(v) <= Len(w),
         \A i \in 1 .. Len(v) : w[i] = v[i] /\ v[i] # Driver!Delimiter,
         Len(v) < Len(w) => w[Len(v) + 1] = Driver!Delimiter
  PROVE  Driver!OptionWords(w) = v
<1>1. PICK n \in Nat, m \in Nat : n = Len(w) /\ m = Len(v) /\ m <= n
  OBVIOUS
<1>2. PICK e \in 0 .. n :
           /\ Driver!OptionWords(w) = SubSeq(w, 1, e)
           /\ SubSeq(w, 1, e) \in Seq(Text) /\ Len(SubSeq(w, 1, e)) = e
           /\ \A i \in 1 .. e : SubSeq(w, 1, e)[i] = w[i] /\ w[i] # Driver!Delimiter
           /\ e < n => w[e + 1] = Driver!Delimiter
  BY <1>1, OptionsAre
<1>3. e = m
  <2>1. ~ (e < m)
    <3> SUFFICES ASSUME e < m PROVE FALSE
      OBVIOUS
    <3>1. e + 1 \in 1 .. m /\ e < n
      BY <1>1
    <3> QED BY <1>1, <1>2, <3>1
  <2>2. ~ (m < e)
    <3> SUFFICES ASSUME m < e PROVE FALSE
      OBVIOUS
    <3>1. m + 1 \in 1 .. e /\ m < n
      BY <1>1
    <3> QED BY <1>1, <1>2, <3>1
  <2> QED BY <1>1, <2>1, <2>2
<1>4. PICK o : o = SubSeq(w, 1, e)
  OBVIOUS
<1>5. o \in Seq(Text) /\ Len(o) = Len(v) /\ \A i \in 1 .. Len(o) : o[i] = v[i]
  BY <1>1, <1>2, <1>3, <1>4
<1>6. o = v
  BY <1>5, SameWords
<1> QED BY <1>2, <1>4, <1>6

\* Words that spell options and a source are not refused.
LEMMA OptionsAccepted ==
  ASSUME NEW kind, kind \in {"build", "run"}, NEW w, w \in Seq(Text),
         NEW v, NEW ws, NEW shown, ws \in Seq(Text), Len(ws) >= 1,
         \A i \in 1 .. Len(ws) : ws[i] \notin {Driver!ShowC, Driver!Delimiter},
         v \in Driver!Shown(ws, shown), Len(v) <= Len(w), \A i \in 1 .. Len(v) : w[i] = v[i],
         Len(v) < Len(w) => w[Len(v) + 1] = Driver!Delimiter,
         kind = "build" => v = w /\ Len(ws) = 1
  PROVE  ~Refusal(kind, w, Driver!OptionWords(w))
<1>1. /\ v \in Seq(Text)
      /\ \A i, j \in 1 .. Len(v) : i # j => v[i] # Driver!ShowC \/ v[j] # Driver!ShowC
      /\ \E i \in 1 .. Len(v) : v[i] # Driver!ShowC
      /\ \A i \in 1 .. Len(v) : v[i] = Driver!ShowC \/ \E j \in 1 .. Len(ws) : v[i] = ws[j]
      /\ Len(ws) = 1 => \A i, j \in 1 .. Len(v) :
                          v[i] # Driver!ShowC /\ v[j] # Driver!ShowC => i = j
  BY ShownOptions
<1>2. \A i \in 1 .. Len(v) : v[i] # Driver!Delimiter
  BY <1>1 DEF Driver!ShowC, Driver!Delimiter
<1>3. Driver!OptionWords(w) = v
  BY <1>1, <1>2, OptionsUpTo
<1>4. PositionIn(v) \in 1 .. Len(v) /\ v[PositionIn(v)] # Driver!ShowC
  BY <1>1, PositionIs
<1>5. ~Refusal(kind, w, v)
  BY <1>1, <1>4 DEF Refusal
<1> QED BY <1>3, <1>5

LEMMA SameFirst ==
  ASSUME NEW text, text \in Text, NEW s, s \in Seq(Text), NEW t, t \in Seq(Text), <<text>> \o s = <<text>> \o t
  PROVE  s = t
<1>1. PICK l : l = <<text>> /\ l \in Seq(Text)
  BY OneWord
<1> QED BY <1>1, ConcatSimplifications

\* What spells a request is not refused.
LEMMA SpelledAccepted ==
  ASSUME NEW kind, kind \in {"build", "run"}, NEW w, w \in Seq(Text),
         NEW source, source \in Text, NEW shown, NEW arguments, arguments \in Seq(Text),
         Driver!Spells(<<kind>> \o w, Driver!Request(kind, source, shown, arguments))
  PROVE  ~Refusal(kind, w, Driver!OptionWords(w))
<1>1. PICK r : r = Driver!Request(kind, source, shown, arguments)
  OBVIOUS
<1>2. /\ r.kind = kind /\ r.source = source /\ r.showC = shown /\ r.arguments = arguments
      /\ kind # "help"
  BY <1>1 DEF Driver!Request
<1>3. PICK word : word = <<source>> /\ word \in Seq(Text) /\ Len(word) = 1 /\ word[1] = source
  BY OneWord
<1>4. PICK words : words = word \o arguments /\ words \in Seq(Text) /\ Joined(word, arguments, words)
  <2>1. Joined(word, arguments, word \o arguments)
    BY <1>3, WordsJoined
  <2> QED BY <2>1 DEF Joined
<1>5. /\ source \notin {Driver!ShowC, Driver!Delimiter}
      /\ \/ /\ \A i \in DOMAIN arguments : arguments[i] \notin {Driver!ShowC, Driver!Delimiter}
            /\ kind = "build" => arguments = <<>>
            /\ \E v \in Driver!Shown(words, shown) : <<kind>> \o w = <<kind>> \o v
         \/ /\ kind = "run"
            /\ \E v \in Driver!Shown(word, shown) :
                 <<kind>> \o w = <<"run">> \o v \o <<Driver!Delimiter>> \o arguments
  <2>1. Driver!Spells(<<kind>> \o w, r)
    BY <1>1
  <2> QED BY <1>2, <1>3, <1>4, <2>1, ZenonT(40) DEF Driver!Spells
<1>6. /\ kind \in Text /\ "run" \in Text /\ Driver!Delimiter \in Text
      /\ Len(word) >= 1 /\ \A i \in 1 .. Len(word) : word[i] \notin {Driver!ShowC, Driver!Delimiter}
  <2>1. kind \in Text /\ "run" \in Text /\ Driver!Delimiter \in Text
    BY DEF Text
  <2>2. ASSUME NEW i \in 1 .. Len(word) PROVE word[i] \notin {Driver!ShowC, Driver!Delimiter}
    <3>1. i = 1
      BY <1>3
    <3> QED BY <1>3, <1>5, <3>1
  <2> QED BY <1>3, <2>1, <2>2
<1>7. CASE /\ \A i \in DOMAIN arguments : arguments[i] \notin {Driver!ShowC, Driver!Delimiter}
           /\ kind = "build" => arguments = <<>>
           /\ \E v \in Driver!Shown(words, shown) : <<kind>> \o w = <<kind>> \o v
  <2>1. PICK v \in Driver!Shown(words, shown) : <<kind>> \o w = <<kind>> \o v
    BY <1>7
  <2>2. /\ Len(words) = 1 + Len(arguments) /\ Len(arguments) \in Nat /\ words[1] = source
        /\ \A i \in 1 .. Len(arguments) : words[1 + i] = arguments[i]
    <3>1. 1 \in 1 .. Len(word)
      BY <1>3
    <3> QED BY <1>3, <1>4, <3>1 DEF Joined
  <2>3. ASSUME NEW i \in 1 .. Len(words) PROVE words[i] \notin {Driver!ShowC, Driver!Delimiter}
    <3>1. CASE i = 1
      BY <1>5, <2>2, <3>1
    <3>2. CASE i > 1
      <4>1. i - 1 \in 1 .. Len(arguments) /\ 1 + (i - 1) = i /\ i - 1 \in DOMAIN arguments
        BY <2>2, <3>2
      <4> QED BY <1>7, <2>2, <4>1
    <3> QED BY <2>2, <3>1, <3>2
  <2>4. Len(words) >= 1 /\ (kind = "build" => Len(words) = 1)
    BY <1>7, <2>2, EmptySeq
  <2>5. v \in Seq(Text)
    BY <1>4, <2>1, <2>3, <2>4, ShownOptions
  <2>6. v = w
    BY <1>6, <2>1, <2>5, SameFirst
  <2>7. Len(v) <= Len(w) /\ ~ (Len(v) < Len(w)) /\ \A i \in 1 .. Len(v) : w[i] = v[i]
    BY <2>5, <2>6
  <2> QED BY <1>4, <2>1, <2>3, <2>4, <2>6, <2>7, OptionsAccepted
<1>8. CASE /\ kind = "run"
           /\ \E v \in Driver!Shown(word, shown) :
                <<kind>> \o w = <<"run">> \o v \o <<Driver!Delimiter>> \o arguments
  <2>1. PICK v \in Driver!Shown(word, shown) :
               <<kind>> \o w = <<"run">> \o v \o <<Driver!Delimiter>> \o arguments
    BY <1>8
  <2>2. v \in Seq(Text)
    BY <1>3, <1>6, <2>1, ShownOptions
  <2>3. PICK run : run = <<"run">> /\ run \in Seq(Text)
    BY <1>6, OneWord
  <2>4. PICK delimiter : /\ delimiter = <<Driver!Delimiter>> /\ delimiter \in Seq(Text)
                         /\ Len(delimiter) = 1 /\ delimiter[1] = Driver!Delimiter
    BY <1>6, OneWord
  <2>5. PICK text : text = v \o delimiter /\ text \in Seq(Text) /\ Joined(v, delimiter, text)
    <3>1. Joined(v, delimiter, v \o delimiter)
      BY <2>2, <2>4, WordsJoined
    <3> QED BY <3>1 DEF Joined
  <2>6. PICK y : y = text \o arguments /\ y \in Seq(Text) /\ Joined(text, arguments, y)
    <3>1. Joined(text, arguments, text \o arguments)
      BY <2>5, WordsJoined
    <3> QED BY <3>1 DEF Joined
  <2>7. run \o v \o delimiter \o arguments = run \o y
    <3>1. Associate(run, v, delimiter) /\ Associate(run, text, arguments)
      BY <2>2, <2>3, <2>4, <2>5, WordsAssociate
    <3> QED BY <2>5, <2>6, <3>1 DEF Associate
  <2>8. w = y
    <3>1. <<"run">> \o w = <<"run">> \o y
      BY <1>8, <2>1, <2>3, <2>4, <2>7
    <3> QED BY <1>6, <2>6, <3>1, SameFirst
  <2>9. /\ Len(text) = Len(v) + 1 /\ Len(v) \in Nat /\ \A i \in 1 .. Len(v) : text[i] = v[i]
        /\ text[Len(v) + 1] = Driver!Delimiter
    <3>1. 1 \in 1 .. Len(delimiter)
      BY <2>4
    <3> QED BY <2>4, <2>5, <3>1 DEF Joined
  <2>10. /\ Len(w) >= Len(v) + 1 /\ Len(w) \in Nat
         /\ \A i \in 1 .. Len(v) + 1 : w[i] = text[i]
    <3>1. /\ Len(y) = Len(text) + Len(arguments) /\ Len(arguments) \in Nat
          /\ \A i \in 1 .. Len(text) : y[i] = text[i]
      BY <2>6 DEF Joined
    <3> QED BY <2>8, <2>9, <3>1
  <2>11. /\ Len(v) <= Len(w) /\ w[Len(v) + 1] = Driver!Delimiter
         /\ \A i \in 1 .. Len(v) : w[i] = v[i]
    <3>1. Len(v) + 1 \in 1 .. Len(v) + 1 /\ \A i \in 1 .. Len(v) : i \in 1 .. Len(v) + 1
      BY <2>9
    <3> QED BY <2>9, <2>10, <3>1
  <2>12. kind # "build"
    BY <1>8
  <2> QED BY <1>3, <1>6, <2>1, <2>11, <2>12, OptionsAccepted
<1> QED BY <1>5, <1>7, <1>8

LEMMA RemovedWords ==
  ASSUME NEW s, s \in Seq(Text), NEW text
  PROVE  Driver!RemoveFirst(s, text) \in Seq(Text)
<1> DEFINE S == {j \in 1 .. Len(s) : s[j] = text}
<1>1. CASE S = {}
  <2>1. \A j \in 1 .. Len(s) : s[j] # text
    BY <1>1
  <2> QED BY <2>1, NoneRemoved
<1>2. CASE S # {}
  <2>1. Driver!Min(S) \in S
    <3>1. Len(s) \in Nat /\ S \subseteq 1 .. Len(s)
      OBVIOUS
    <3> HIDE DEF S
    <3> QED BY <1>2, <3>1, FirstIn
  <2>2. PICK m \in 1 .. Len(s) : m = Driver!Min(S)
    BY <2>1
  <2>3. Driver!RemoveFirst(s, text) = SubSeq(s, 1, m - 1) \o SubSeq(s, m + 1, Len(s))
    <3>1. Driver!RemoveFirst(s, text) = Driver!RemoveAt(s, IF S # {} THEN Driver!Min(S) ELSE 0)
      BY <1>2 DEF Driver!RemoveFirst, Driver!SelectInSeq
    <3> HIDE DEF S
    <3> QED BY <1>2, <2>2, <3>1 DEF Driver!RemoveAt
  <2>4. /\ 1 \in 1 .. Len(s) + 1 /\ m - 1 \in 0 .. Len(s) /\ 1 <= (m - 1) + 1
        /\ m + 1 \in 1 .. Len(s) + 1 /\ Len(s) \in 0 .. Len(s) /\ m + 1 <= Len(s) + 1
    OBVIOUS
  <2>5. SubSeq(s, 1, m - 1) \in Seq(Text) /\ SubSeq(s, m + 1, Len(s)) \in Seq(Text)
    BY <2>4, WordsCut
  <2> QED BY <2>3, <2>5, ConcatProperties
<1> QED BY <1>1, <1>2

-----------------------------------------------------------------------------
(* Driver: the line of an invocation is kept until it is understood. *)

LineInv ==
  /\ pc = "load" => /\ line \in Lines /\ request = Driver!Parse(line)
                    /\ request.kind \in {"build", "run"}
  /\ pc # "load" /\ line # <<>> => line \in Lines /\ Driver!Parse(line).kind \notin {"build", "run"}

LEMMA LineStep == LineInv /\ [Driver!Next]_driverVars => LineInv'
<1> SUFFICES ASSUME LineInv, [Driver!Next]_driverVars PROVE LineInv' OBVIOUS
<1>1. CASE Driver!Invoke
  <2>1. PICK l \in Lines : line' = l /\ request' = Driver!Parse(l)
    BY <1>1 DEF Driver!Invoke
  <2>2. request'.kind \in {"usage", "help", "build", "run"}
    BY <2>1, RequestKinds
  <2>3. pc' = IF request'.kind \in {"build", "run"} THEN "load" ELSE "idle"
    BY <1>1, <2>2 DEF Driver!Invoke
  <2> QED BY <2>1, <2>2, <2>3 DEF LineInv
<1>2. CASE Driver!Load
  BY <1>2 DEF Driver!Load, LineInv
<1>3. ASSUME pc # "load", pc' # "load", UNCHANGED line PROVE LineInv'
  BY <1>3 DEF LineInv
<1>4. CASE Driver!PassPhase
  BY <1>3, <1>4, StepNames DEF Driver!PassPhase, Driver!Goto
<1>5. CASE Driver!FailPhase
  BY <1>3, <1>5, StepNames DEF Driver!FailPhase, Driver!FailCompile, Driver!Exit
<1>6. CASE Driver!CreateDirectory \/ Driver!Write \/ Driver!Warn \/ Driver!Show \/ Driver!FindCompiler
  BY <1>3, <1>6 DEF Driver!CreateDirectory, Driver!Write, Driver!Warn, Driver!Show,
     Driver!FindCompiler, Driver!Fail, Driver!FailCompile, Driver!Exit, Driver!Goto
<1>7. CASE Driver!RemoveStaleExecutable \/ Driver!RunCompiler \/ Driver!CheckExecutable
  BY <1>3, <1>7 DEF Driver!RemoveStaleExecutable, Driver!RunCompiler, Driver!CheckExecutable,
     Driver!Fail, Driver!Exit, Driver!Goto
<1>8. CASE Driver!StartProgram \/ Driver!EndProgram
  BY <1>3, <1>8 DEF Driver!StartProgram, Driver!EndProgram, Driver!Fail, Driver!Exit, Driver!Goto
<1>9. CASE Driver!Clean
  BY <1>9 DEF Driver!Clean, Driver!invocation, LineInv
<1>10. CASE UNCHANGED driverVars
  BY <1>10 DEF driverVars, LineInv
<1> QED BY <1>1, <1>2, <1>4, <1>5, <1>6, <1>7, <1>8, <1>9, <1>10 DEF Driver!Next

\* A line that is kept, taken apart.
LEMMA LineIs ==
  ASSUME NEW l, l \in Lines, l # <<>>
  PROVE  /\ l \in Seq(Text) /\ Tail(l) \in Seq(Text) /\ Len(l) = Len(Tail(l)) + 1
         /\ <<Head(l)>> \o Tail(l) = l /\ Len(l) \in Nat
<1>1. l \in Seq(Text)
  <2>1. l \in Seq(STRING) /\ STRING \subseteq Text
    BY CompilationAssumption DEF Driver!DriverAssumption, Text
  <2> QED BY <2>1, SeqMonotonic
<1>2. /\ Len(l) \in Nat /\ Head(l) = l[1] /\ Tail(l) = SubSeq(l, 2, Len(l)) /\ Tail(l) \in Seq(Text)
      /\ <<l[1]>> \o SubSeq(l, 2, Len(l)) = l
  BY <1>1, FirstAndRest
<1>3. Len(Tail(l)) = Len(l) - 1
  BY <1>1, HeadTailProperties
<1>4. Len(l) = Len(Tail(l)) + 1
  BY <1>2, <1>3
<1> QED BY <1>1, <1>2, <1>4

\* What the parser answers is what the usage text says of the line.
LEMMA LineRight == LineInv => Driver!LineUnderstood
<1> SUFFICES ASSUME LineInv PROVE Driver!LineUnderstood OBVIOUS
<1>1. Driver!UsageError.kind = "usage" /\ Driver!Help.kind = "help"
  BY DEF Driver!UsageError, Driver!Help
<1>2. ASSUME line \in Lines, line # <<>>, Head(line) \in {"build", "run"}
      PROVE  /\ Head(line) \notin {"--help", "-h"}
             /\ Driver!Parse(line) = Driver!CompileRequest(Head(line), Tail(line))
  BY <1>2 DEF Driver!Parse
<1>3. CASE pc = "load"
  <2>1. line \in Lines /\ request = Driver!Parse(line) /\ request.kind \in {"build", "run"}
    BY <1>3 DEF LineInv
  <2>2. /\ line # <<>> /\ Head(line) \in {"build", "run"}
        /\ request = Driver!CompileRequest(Head(line), Tail(line))
    BY <1>1, <2>1 DEF Driver!Parse
  <2>3. PICK l : l = line
    OBVIOUS
  <2>4. PICK kind : kind = Head(l) /\ kind \in {"build", "run"}
    BY <2>2, <2>3
  <2>5. PICK w : w = Tail(l)
    OBVIOUS
  <2>6. /\ w \in Seq(Text) /\ <<kind>> \o w = l /\ Len(l) = Len(w) + 1
    BY <2>1, <2>2, <2>3, <2>4, <2>5, LineIs
  <2>7. PICK e \in 0 .. Len(w) :
           /\ Driver!OptionWords(w) = SubSeq(w, 1, e)
           /\ SubSeq(w, 1, e) \in Seq(Text) /\ Len(SubSeq(w, 1, e)) = e
           /\ \A i \in 1 .. e : SubSeq(w, 1, e)[i] = w[i] /\ w[i] # Driver!Delimiter
           /\ e < Len(w) => w[e + 1] = Driver!Delimiter
           /\ e = Len(w) => Driver!OptionWords(w) = w
    BY <2>6, OptionsAre
  <2>8. PICK o : o = Driver!OptionWords(w)
    OBVIOUS
  <2>9. /\ o \in Seq(Text) /\ Len(o) = e
        /\ \A i \in 1 .. e : o[i] = w[i] /\ w[i] # Driver!Delimiter
    BY <2>7, <2>8
  <2>10. request = IF Refusal(kind, w, o) THEN Driver!UsageError
                   ELSE Driver!Request(kind, w[PositionIn(o)], ShowsIn(o) # {},
                            IF kind = "build" THEN <<>> ELSE Driver!Arguments(w, PositionIn(o)))
    <3>1. Driver!CompileRequest(kind, w) =
            IF Refusal(kind, w, o) THEN Driver!UsageError
            ELSE Driver!Request(kind, w[PositionIn(o)], ShowsIn(o) # {},
                     IF kind = "build" THEN <<>> ELSE Driver!Arguments(w, PositionIn(o)))
      BY <2>8, <2>9, RequestIs
    <3> QED BY <2>2, <2>3, <2>4, <2>5, <3>1
  <2>11. ~Refusal(kind, w, o)
    BY <1>1, <2>1, <2>10
  <2>12. CASE e = Len(w)
    <3>1. o = w /\ Driver!OptionWords(Tail(l)) = Tail(l)
      BY <2>5, <2>7, <2>8, <2>12
    <3>2. Driver!WithoutLost(l) = l
      BY <3>1 DEF Driver!WithoutLost
    <3>3. Driver!Spells(<<kind>> \o w,
              Driver!Request(kind, w[PositionIn(w)], ShowsIn(w) # {},
                  IF kind = "build" THEN <<>> ELSE Driver!Arguments(w, PositionIn(w))))
      BY <2>4, <2>6, <2>7, <2>8, <2>11, <2>12, <3>1, UnderstoodPlain
    <3>4. Driver!Spells(l, request)
      BY <2>6, <2>10, <2>11, <3>1, <3>3
    <3> QED BY <1>3, <2>3, <3>2, <3>4 DEF Driver!LineUnderstood
  <2>13. CASE e < Len(w)
    <3>1. o # w
      BY <2>6, <2>9, <2>13
    <3>2. kind = "run"
      BY <2>4, <2>11, <3>1 DEF Refusal
    <3>3. Driver!Spells(Driver!WithoutLost(l),
              Driver!Request("run", w[PositionIn(o)], ShowsIn(o) # {},
                             Driver!Arguments(w, PositionIn(o))))
      BY <2>4, <2>5, <2>6, <2>7, <2>8, <2>9, <2>11, <2>13, <3>2, UnderstoodBehind
    <3>4. Driver!Spells(Driver!WithoutLost(l), request)
      BY <2>10, <2>11, <3>2, <3>3
    <3> QED BY <1>3, <2>3, <3>4 DEF Driver!LineUnderstood
  <2>14. e = Len(w) \/ e < Len(w)
    BY <2>6
  <2> QED BY <2>12, <2>13, <2>14
<1>4. CASE pc # "load"
  <2> SUFFICES ASSUME line # <<>>, Head(line) \in {"build", "run"},
                      NEW i \in 2 .. Len(line), NEW from \in 2 .. Len(line), NEW showC \in BOOLEAN,
                      NEW arguments,
                      arguments \in {<<>>, SubSeq(line, from, Len(line)),
                                     Driver!RemoveFirst(SubSeq(line, from, Len(line)), Driver!ShowC)},
                      Driver!Spells(line, Driver!Request(Head(line), line[i], showC, arguments))
               PROVE  FALSE
    BY <1>4 DEF Driver!LineUnderstood
  <2>1. line \in Lines /\ Driver!Parse(line).kind \notin {"build", "run"}
    BY <1>4 DEF LineInv
  <2>2. PICK kind : kind = Head(line) /\ kind \in {"build", "run"}
    OBVIOUS
  <2>3. PICK w : w = Tail(line)
    OBVIOUS
  <2>4. /\ line \in Seq(Text) /\ w \in Seq(Text) /\ <<kind>> \o w = line /\ Len(line) \in Nat
    BY <2>1, <2>2, <2>3, LineIs
  <2>5. PICK o : o = Driver!OptionWords(w) /\ o \in Seq(Text)
    BY <2>4, OptionsAre
  <2>6. Driver!Parse(line) =
          IF Refusal(kind, w, o) THEN Driver!UsageError
          ELSE Driver!Request(kind, w[PositionIn(o)], ShowsIn(o) # {},
                   IF kind = "build" THEN <<>> ELSE Driver!Arguments(w, PositionIn(o)))
    BY <1>2, <2>1, <2>2, <2>3, <2>5, RequestIs, ZenonT(60)
  <2>7. Refusal(kind, w, o)
    <3> SUFFICES ASSUME ~Refusal(kind, w, o) PROVE FALSE
      OBVIOUS
    <3>1. PICK source, shown, given : Driver!Parse(line) = Driver!Request(kind, source, shown, given)
      BY <2>6
    <3>2. Driver!Parse(line).kind = kind
      BY <3>1 DEF Driver!Request
    <3> QED BY <2>1, <2>2, <3>2
  <2>8. arguments \in Seq(Text)
    <3>1. from \in 1 .. Len(line) + 1 /\ Len(line) \in 0 .. Len(line) /\ from <= Len(line) + 1
      BY <2>4
    <3>2. SubSeq(line, from, Len(line)) \in Seq(Text)
      BY <2>4, <3>1, WordsCut
    <3>3. Driver!RemoveFirst(SubSeq(line, from, Len(line)), Driver!ShowC) \in Seq(Text)
      BY <3>2, RemovedWords
    <3> QED BY <3>2, <3>3, EmptySeq
  <2>9. line[i] \in Text
    <3>1. i \in 1 .. Len(line)
      BY <2>4
    <3> QED BY <2>4, <3>1, ElementOfSeq
  <2>10. Driver!Spells(<<kind>> \o w, Driver!Request(kind, line[i], showC, arguments))
    BY <2>2, <2>4
  <2> QED BY <2>2, <2>4, <2>5, <2>7, <2>8, <2>9, <2>10, SpelledAccepted
<1> QED BY <1>3, <1>4

-----------------------------------------------------------------------------
(* Names: what is found. *)

NameTexts == Identifiers \cup Intrinsics \cup {"", "taken"}
Opening == {"function", "block", "loop"}
ConstructKinds == Opening \cup {"local", "branches", "body"}
Constructs ==
  [kind : ConstructKinds, taken : BOOLEAN, used : BOOLEAN, name : NameTexts, id : Nat]
Scopes == [bindings : Seq(NameTexts \X Nat), acceptsLocals : BOOLEAN]
Declared == [name : NameTexts, owner : Nat, conditional : BOOLEAN]

\* The constructs the walk is inside of, in the order in which they were opened:
\* the function, its body, and what stands in it.
OpenRight(cs, count) ==
  /\ cs \in Seq(Constructs) /\ count \in Nat
  /\ \A i \in 1 .. Len(cs) :
       /\ cs[i].id \in 1 .. count
       /\ cs[i].kind = "function" <=> i = 1
       /\ i = 2 => cs[i].kind = "block"
       /\ cs[i].kind = "local" => cs[i].taken
  /\ \A i, j \in 1 .. Len(cs) : i < j => cs[i].id < cs[j].id

\* A declaration belongs to what opened a scope.
OwnersRight(bs, cs, count) ==
  /\ bs \in Seq(Declared)
  /\ \A b \in 1 .. Len(bs) :
       /\ bs[b].owner \in 1 .. count
       /\ \A i \in 1 .. Len(cs) : cs[i].id = bs[b].owner => cs[i].kind \in Opening

\* A scope holds the declarations of its construct, in their order.
ScopeRight(s, c, bs) ==
  /\ s.acceptsLocals <=> c.kind # "loop"
  /\ \A e \in 1 .. Len(s.bindings) :
       /\ s.bindings[e][2] \in 1 .. Len(bs)
       /\ bs[s.bindings[e][2]].name = s.bindings[e][1]
       /\ bs[s.bindings[e][2]].owner = c.id
  /\ \A e, f \in 1 .. Len(s.bindings) : e < f => s.bindings[e][2] < s.bindings[f][2]
  /\ \A b \in 1 .. Len(bs) :
       bs[b].owner = c.id => \E e \in 1 .. Len(s.bindings) : s.bindings[e][2] = b

\* There is a scope for each construct that opens one, at the level of its own.
LevelsRight(ss, cs, m) ==
  /\ ss \in Seq(Scopes) /\ m \in [1 .. Len(ss) -> 1 .. Len(cs)]
  /\ \A k, l \in 1 .. Len(ss) : k < l => m[k] < m[l]
  /\ \A i \in 1 .. Len(cs) : cs[i].kind \in Opening <=> \E k \in 1 .. Len(ss) : m[k] = i

ScopesAt(ss, cs, bs, m) ==
  /\ LevelsRight(ss, cs, m)
  /\ \A k \in 1 .. Len(ss) : ScopeRight(ss[k], cs[m[k]], bs)
ScopesRight(ss, cs, bs) == \E m : ScopesAt(ss, cs, bs, m)

\* A declaration holds a value in this run if all around it is executed.
ValuesRight(bs, cs, values) ==
  \A b \in 1 .. Len(bs), i \in 1 .. Len(cs) :
    cs[i].id = bs[b].owner /\ ~bs[b].conditional /\ (\A j \in 1 .. i : cs[j].taken) => b \in values

\* A set of positions has a last and a first one.
LEMMA LastOf ==
  ASSUME NEW n, n \in Nat, NEW S, S \subseteq 1 .. n, S # {}
  PROVE  Names!Max(S) \in S /\ \A y \in S : y <= Names!Max(S)
<1>1. \E a \in S : \A y \in S : y <= a
  BY GreatestIn
<1>2. \E a \in S : \A y \in S : a >= y
  BY <1>1
<1>3. Names!Max(S) \in S /\ \A y \in S : Names!Max(S) >= y
  BY <1>2, Zenon DEF Names!Max
<1> QED BY <1>3

LEMMA FirstOf ==
  ASSUME NEW n, n \in Nat, NEW S, S \subseteq 1 .. n, S # {}
  PROVE  Names!Min(S) \in S /\ \A y \in S : Names!Min(S) <= y
<1> DEFINE R == OpToRel(<, Nat)
<1>1. IsWellFoundedOn(R, Nat)
  BY NatLessThanWellFounded
<1>2. \A a, b \in Nat : a < b => <<a, b>> \in R
  BY DEF OpToRel
<1> HIDE DEF R
<1>3. S \subseteq Nat
  OBVIOUS
<1>4. PICK t \in S : \A u \in S : ~ (<<u, t>> \in R)
  BY <1>1, <1>3, WFMin
<1>5. \A y \in S : t =< y
  <2> TAKE y \in S
  <2>1. t \in Nat /\ y \in Nat /\ ~ (y < t)
    BY <1>2, <1>3, <1>4
  <2> QED BY <2>1
<1>6. Names!Min(S) \in S /\ \A y \in S : Names!Min(S) =< y
  BY <1>5, Zenon DEF Names!Min
<1> QED BY <1>6

\* The place of a construct is its own.
LEMMA PlaceOf ==
  ASSUME NEW i \in 1 .. Len(open), OpenRight(open, opened)
  PROVE  Names!OpenAt(open[i].id) = i
<1> DEFINE S == {j \in 1 .. Len(open) : open[j].id = open[i].id}
<1>1. Len(open) \in Nat /\ open \in Seq(Constructs)
  BY DEF OpenRight
<1>2. \A j \in 1 .. Len(open) : open[j].id = open[i].id => j = i
  <2> TAKE j \in 1 .. Len(open)
  <2>1. open[i].id \in Nat /\ open[j].id \in Nat /\ i \in Nat /\ j \in Nat
    BY <1>1 DEF OpenRight
  <2>2. i < j => open[i].id < open[j].id
    BY DEF OpenRight
  <2>3. j < i => open[j].id < open[i].id
    BY DEF OpenRight
  <2> QED BY <2>1, <2>2, <2>3
<1>3. S = {i}
  BY <1>2
<1>4. Names!OpenAt(open[i].id) = IF S # {} THEN Names!Min(S) ELSE 0
  BY DEF Names!OpenAt, Names!SelectInSeq
<1>5. S \subseteq 1 .. Len(open) /\ S # {}
  OBVIOUS
<1> HIDE DEF S
<1>6. Names!Min(S) \in S
  BY ONLY <1>1, <1>5, FirstOf
<1> QED BY <1>3, <1>4, <1>5, <1>6

LEMMA PlaceOfNone ==
  ASSUME NEW owner, \A i \in 1 .. Len(open) : open[i].id # owner
  PROVE  Names!OpenAt(owner) = 0
BY DEF Names!OpenAt, Names!SelectInSeq

\* What the stack of scopes says of a name: the innermost scope with it, and there
\* the last entry.
EntryOf(s, name) ==
  LET I == {e \in 1 .. Len(s.bindings) : s.bindings[e][1] = name}
  IN  IF I # {} THEN Names!Max(I) ELSE 0
Found(ss, name) ==
  LET I == {k \in 1 .. Len(ss) : EntryOf(ss[k], name) > 0}
  IN  IF I # {} THEN ss[Names!Max(I)].bindings[EntryOf(ss[Names!Max(I)], name)][2] ELSE 0

LEMMA EntryIs ==
  ASSUME NEW s, s \in Scopes, NEW name
  PROVE  LET e == EntryOf(s, name) IN
         \/ e = 0 /\ \A f \in 1 .. Len(s.bindings) : s.bindings[f][1] # name
         \/ /\ e \in 1 .. Len(s.bindings) /\ e > 0 /\ s.bindings[e][1] = name
            /\ \A f \in 1 .. Len(s.bindings) : s.bindings[f][1] = name => f <= e
<1> DEFINE I == {e \in 1 .. Len(s.bindings) : s.bindings[e][1] = name}
<1>1. Len(s.bindings) \in Nat
  BY DEF Scopes
<1>2. EntryOf(s, name) = IF I # {} THEN Names!Max(I) ELSE 0
  BY DEF EntryOf
<1>3. CASE I = {}
  BY <1>2, <1>3
<1>4. CASE I # {}
  <2>1. I \subseteq 1 .. Len(s.bindings)
    OBVIOUS
  <2> HIDE DEF I
  <2>2. Names!Max(I) \in I /\ \A y \in I : y <= Names!Max(I)
    BY ONLY <1>1, <1>4, <2>1, LastOf
  <2>3. EntryOf(s, name) = Names!Max(I)
    BY <1>2, <1>4
  <2> QED BY <1>1, <2>2, <2>3 DEF I
<1> QED BY <1>3, <1>4

LEMMA FoundIs ==
  ASSUME NEW ss, ss \in Seq(Scopes), NEW name
  PROVE  \/ /\ Found(ss, name) = 0
            /\ \A k \in 1 .. Len(ss) : EntryOf(ss[k], name) = 0
         \/ \E k \in 1 .. Len(ss) :
              /\ EntryOf(ss[k], name) > 0
              /\ Found(ss, name) = ss[k].bindings[EntryOf(ss[k], name)][2]
              /\ \A l \in 1 .. Len(ss) : EntryOf(ss[l], name) > 0 => l <= k
<1> DEFINE I == {k \in 1 .. Len(ss) : EntryOf(ss[k], name) > 0}
<1>1. Len(ss) \in Nat /\ I \subseteq 1 .. Len(ss)
  OBVIOUS
<1>2. Found(ss, name) =
        IF I # {} THEN ss[Names!Max(I)].bindings[EntryOf(ss[Names!Max(I)], name)][2] ELSE 0
  BY DEF Found
<1>3. CASE I = {}
  <2>1. \A k \in 1 .. Len(ss) : EntryOf(ss[k], name) = 0
    <3> TAKE k \in 1 .. Len(ss)
    <3>1. ss[k] \in Scopes /\ ~ EntryOf(ss[k], name) > 0
      BY <1>3
    <3> QED BY <3>1, EntryIs
  <2> QED BY <1>2, <1>3, <2>1
<1>4. CASE I # {}
  <2> HIDE DEF I
  <2>1. Names!Max(I) \in I /\ \A y \in I : y <= Names!Max(I)
    BY ONLY <1>1, <1>4, LastOf
  <2> QED BY <1>2, <1>4, <2>1 DEF I
<1> QED BY <1>3, <1>4

\* This is what the resolver looks up.
LEMMA LookupIs ==
  ASSUME scopes \in Seq(Scopes), NEW name
  PROVE  Names!Lookup(name) = Found(scopes, name)
<1> DEFINE I == {k \in 1 .. Len(scopes) : Names!InScope(scopes[k], name) > 0}
<1>1. \A s : Names!InScope(s, name) = EntryOf(s, name)
  BY DEF Names!InScope, Names!SelectLastInSeq, EntryOf
<1>2. I = {k \in 1 .. Len(scopes) : EntryOf(scopes[k], name) > 0}
  BY <1>1
<1>3. Names!Lookup(name) =
        LET level == IF I # {} THEN Names!Max(I) ELSE 0
        IN  IF level = 0 THEN 0 ELSE scopes[level].bindings[EntryOf(scopes[level], name)][2]
  BY <1>1 DEF Names!Lookup, Names!SelectLastInSeq, Names!None
<1>4. I # {} => Names!Max(I) # 0
  <2>1. I \subseteq 1 .. Len(scopes) /\ Len(scopes) \in Nat
    OBVIOUS
  <2> HIDE DEF I
  <2>2. I # {} => Names!Max(I) \in I
    BY ONLY <2>1, LastOf
  <2> QED BY <2>1, <2>2
<1> HIDE DEF I
<1> QED BY <1>2, <1>3, <1>4 DEF Found

\* A declaration is in force while its construct is open, and then in its scope.
LEMMA InForce ==
  ASSUME NEW ss, NEW cs, NEW bs, NEW count, NEW m, OpenRight(cs, count), OwnersRight(bs, cs, count),
         ScopesAt(ss, cs, bs, m),
         NEW b, b \in 1 .. Len(bs), NEW i, i \in 1 .. Len(cs), cs[i].id = bs[b].owner
  PROVE  \E k \in 1 .. Len(ss) :
           /\ m[k] = i
           /\ \E e \in 1 .. Len(ss[k].bindings) : ss[k].bindings[e][2] = b
<1>1. cs[i].kind \in Opening
  BY DEF OwnersRight
<1>2. PICK k \in 1 .. Len(ss) : m[k] = i
  BY <1>1 DEF ScopesAt, LevelsRight
<1>3. \E e \in 1 .. Len(ss[k].bindings) : ss[k].bindings[e][2] = b
  BY <1>2 DEF ScopesAt, ScopeRight
<1> QED BY <1>2, <1>3

\* The lookup finds the nearest of the declarations that are in force.
LEMMA NearestFound ==
  ASSUME OpenRight(open, opened), OwnersRight(bindings, open, opened),
         ScopesRight(scopes, open, bindings), NEW name
  PROVE  /\ Found(scopes, name) = 0 => Names!Visible(name) = {}
         /\ Found(scopes, name) # 0 =>
              /\ Names!Visible(name) # {} /\ {Found(scopes, name)} = Names!Nearest(name)
              /\ Found(scopes, name) \in 1 .. Len(bindings)
              /\ \E i \in 1 .. Len(open) : open[i].id = bindings[Found(scopes, name)].owner
<1>1. PICK m : ScopesAt(scopes, open, bindings, m)
  BY DEF ScopesRight
<1>2. /\ scopes \in Seq(Scopes) /\ Len(scopes) \in Nat /\ open \in Seq(Constructs) /\ Len(open) \in Nat
      /\ bindings \in Seq(Declared) /\ Len(bindings) \in Nat /\ DOMAIN bindings = 1 .. Len(bindings)
      /\ m \in [1 .. Len(scopes) -> 1 .. Len(open)]
  BY <1>1 DEF ScopesAt, LevelsRight, OpenRight, OwnersRight
<1>3. ASSUME NEW b \in Names!Visible(name)
      PROVE  \E k \in 1 .. Len(scopes) :
               /\ Names!OpenAt(bindings[b].owner) = m[k] /\ open[m[k]].id = bindings[b].owner
               /\ \E e \in 1 .. Len(scopes[k].bindings) :
                    scopes[k].bindings[e][2] = b /\ scopes[k].bindings[e][1] = name
  <2>1. b \in 1 .. Len(bindings) /\ bindings[b].name = name /\ Names!OpenAt(bindings[b].owner) > 0
    BY <1>2 DEF Names!Visible
  <2>2. PICK i \in 1 .. Len(open) : open[i].id = bindings[b].owner
    <3> SUFFICES ASSUME \A i \in 1 .. Len(open) : open[i].id # bindings[b].owner PROVE FALSE
      OBVIOUS
    <3>1. Names!OpenAt(bindings[b].owner) = 0
      BY PlaceOfNone
    <3> QED BY <2>1, <3>1
  <2>3. Names!OpenAt(bindings[b].owner) = i
    BY <2>2, PlaceOf
  <2>4. PICK k \in 1 .. Len(scopes) :
           /\ m[k] = i
           /\ \E e \in 1 .. Len(scopes[k].bindings) : scopes[k].bindings[e][2] = b
    BY <1>1, <2>1, <2>2, InForce, SMTT(40)
  <2>5. PICK e \in 1 .. Len(scopes[k].bindings) : scopes[k].bindings[e][2] = b
    BY <2>4
  <2>6. bindings[b].name = scopes[k].bindings[e][1]
    BY <1>1, <2>4, <2>5 DEF ScopesAt, ScopeRight
  <2> QED BY <2>1, <2>2, <2>3, <2>4, <2>5, <2>6
<1>4. ASSUME Found(scopes, name) = 0 PROVE Names!Visible(name) = {}
  <2> SUFFICES ASSUME NEW b \in Names!Visible(name) PROVE FALSE
    OBVIOUS
  <2>1. PICK k \in 1 .. Len(scopes) :
          \E e \in 1 .. Len(scopes[k].bindings) : scopes[k].bindings[e][2] = b /\ scopes[k].bindings[e][1] = name
    BY <1>3
  <2>2. EntryOf(scopes[k], name) # 0 /\ EntryOf(scopes[k], name) > 0
    <3>1. scopes[k] \in Scopes
      BY <1>2
    <3> QED BY <2>1, <3>1, EntryIs
  <2>3. PICK l \in 1 .. Len(scopes) :
          EntryOf(scopes[l], name) > 0 /\ Found(scopes, name) = scopes[l].bindings[EntryOf(scopes[l], name)][2]
    BY <1>2, <2>2, FoundIs
  <2>4. scopes[l].bindings[EntryOf(scopes[l], name)][2] \in 1 .. Len(bindings)
    <3>1. scopes[l] \in Scopes /\ EntryOf(scopes[l], name) # 0
      BY <1>2, <2>3
    <3>2. EntryOf(scopes[l], name) \in 1 .. Len(scopes[l].bindings)
      BY <3>1, EntryIs
    <3> QED BY <1>1, <3>2 DEF ScopesAt, ScopeRight
  <2> QED BY <1>2, <1>4, <2>3, <2>4
<1>5. ASSUME Found(scopes, name) # 0
      PROVE  /\ Names!Visible(name) # {} /\ {Found(scopes, name)} = Names!Nearest(name)
             /\ Found(scopes, name) \in 1 .. Len(bindings)
             /\ \E i \in 1 .. Len(open) : open[i].id = bindings[Found(scopes, name)].owner
  <2>1. PICK k \in 1 .. Len(scopes) :
           /\ EntryOf(scopes[k], name) > 0
           /\ Found(scopes, name) = scopes[k].bindings[EntryOf(scopes[k], name)][2]
           /\ \A l \in 1 .. Len(scopes) : EntryOf(scopes[l], name) > 0 => l <= k
    BY <1>2, <1>5, FoundIs
  <2> DEFINE e == EntryOf(scopes[k], name)
             b == Found(scopes, name)
  <2>2. /\ e \in 1 .. Len(scopes[k].bindings) /\ scopes[k].bindings[e][1] = name
        /\ \A f \in 1 .. Len(scopes[k].bindings) : scopes[k].bindings[f][1] = name => f <= e
    <3>1. scopes[k] \in Scopes /\ EntryOf(scopes[k], name) # 0
      BY <1>2, <2>1
    <3> QED BY <3>1, EntryIs
  <2>3. ScopeRight(scopes[k], open[m[k]], bindings) /\ m[k] \in 1 .. Len(open)
    BY <1>1, <1>2 DEF ScopesAt
  <2> HIDE DEF e, b
  <2>4. scopes[k].bindings[e][2] = b
    BY <2>1 DEF e, b
  <2>5. b \in 1 .. Len(bindings) /\ bindings[b].name = name /\ bindings[b].owner = open[m[k]].id
    BY <2>2, <2>3, <2>4 DEF ScopeRight
  <2>6. Names!OpenAt(bindings[b].owner) = m[k]
    BY <2>3, <2>5, PlaceOf
  <2>7. b \in Names!Visible(name)
    BY <1>2, <2>3, <2>5, <2>6 DEF Names!Visible
  <2>8. ASSUME NEW o \in Names!Visible(name)
        PROVE  \/ Names!OpenAt(bindings[o].owner) < m[k]
               \/ Names!OpenAt(bindings[o].owner) = m[k] /\ o <= b
    <3>1. PICK l \in 1 .. Len(scopes) :
            /\ Names!OpenAt(bindings[o].owner) = m[l]
            /\ \E f \in 1 .. Len(scopes[l].bindings) :
                 scopes[l].bindings[f][2] = o /\ scopes[l].bindings[f][1] = name
      BY <1>3
    <3>2. PICK f \in 1 .. Len(scopes[l].bindings) :
            scopes[l].bindings[f][2] = o /\ scopes[l].bindings[f][1] = name
      BY <3>1
    <3>3. EntryOf(scopes[l], name) > 0
      <4>1. scopes[l] \in Scopes
        BY <1>2
      <4> QED BY <3>2, <4>1, EntryIs
    <3>4. l <= k
      BY <2>1, <3>3
    <3>5. CASE l = k
      <4>1. f <= e /\ f \in Nat /\ e \in Nat
        BY <2>2, <3>2, <3>5
      <4>2. f < e => o < b
        BY <2>2, <2>3, <2>4, <3>2, <3>5 DEF ScopeRight
      <4>3. f = e => o = b
        BY <2>4, <3>2, <3>5
      <4>4. o \in Nat /\ b \in Nat
        BY <1>2, <2>5 DEF Names!Visible
      <4>5. o <= b
        BY <4>1, <4>2, <4>3, <4>4
      <4> QED BY <3>1, <3>5, <4>5
    <3>6. CASE l # k
      <4>1. l < k
        BY <3>4, <3>6
      <4>2. m[l] < m[k]
        BY <1>1, <4>1 DEF ScopesAt, LevelsRight
      <4> QED BY <3>1, <4>2
    <3> QED BY <3>5, <3>6
  <2>9. b \in Names!Nearest(name)
    BY <2>6, <2>7, <2>8 DEF Names!Nearest
  <2>10. ASSUME NEW o \in Names!Nearest(name) PROVE o = b
    <3>1. o \in Names!Visible(name) /\ o \in Nat /\ b \in Nat
      BY <1>2, <2>5 DEF Names!Nearest, Names!Visible
    <3>2. \/ m[k] < Names!OpenAt(bindings[o].owner)
          \/ m[k] = Names!OpenAt(bindings[o].owner) /\ b <= o
      BY <2>6, <2>7 DEF Names!Nearest
    <3>3. m[k] \in Nat /\ \E l \in 1 .. Len(scopes) : Names!OpenAt(bindings[o].owner) = m[l] /\ m[l] \in Nat
      BY <1>2, <1>3, <2>3, <3>1, SMTT(40)
    <3> QED BY <2>8, <3>1, <3>2, <3>3
  <2>11. {b} = Names!Nearest(name)
    BY <2>9, <2>10
  <2> QED BY <2>3, <2>5, <2>7, <2>11 DEF b
<1> QED BY <1>4, <1>5

-----------------------------------------------------------------------------
(* Names: opening and closing constructs. *)

\* Constructs that are the same but for their names and for what was used of them.
Alike(cs, ds) ==
  /\ ds \in Seq(Constructs) /\ Len(ds) = Len(cs)
  /\ \A i \in 1 .. Len(cs) : ds[i].kind = cs[i].kind /\ ds[i].id = cs[i].id /\ ds[i].taken = cs[i].taken

LEMMA AlikeRight ==
  ASSUME NEW cs, NEW ds, NEW bs, NEW count, NEW values, Alike(cs, ds)
  PROVE  /\ OpenRight(cs, count) => OpenRight(ds, count)
         /\ OwnersRight(bs, cs, count) => OwnersRight(bs, ds, count)
         /\ ValuesRight(bs, cs, values) => ValuesRight(bs, ds, values)
<1>1. OpenRight(cs, count) => OpenRight(ds, count)
  BY DEF Alike, OpenRight
<1>2. OwnersRight(bs, cs, count) => OwnersRight(bs, ds, count)
  BY DEF Alike, OwnersRight
<1>3. ASSUME ValuesRight(bs, cs, values) PROVE ValuesRight(bs, ds, values)
  <2> SUFFICES ASSUME NEW b \in 1 .. Len(bs), NEW i \in 1 .. Len(ds),
                      ds[i].id = bs[b].owner, ~bs[b].conditional, \A j \in 1 .. i : ds[j].taken
               PROVE  b \in values
    BY DEF ValuesRight
  <2>1. Len(cs) \in Nat /\ i \in 1 .. Len(cs) /\ cs[i].id = bs[b].owner
    BY DEF Alike
  <2>2. \A j \in 1 .. i : cs[j].taken
    BY <2>1 DEF Alike
  <2> QED BY <1>3, <2>1, <2>2 DEF ValuesRight
<1> QED BY <1>1, <1>2, <1>3

LEMMA AlikeScopes ==
  ASSUME NEW cs, NEW ds, NEW ss, NEW bs, Alike(cs, ds), ScopesRight(ss, cs, bs)
  PROVE  ScopesRight(ss, ds, bs)
<1>1. PICK m : ScopesAt(ss, cs, bs, m)
  BY DEF ScopesRight
<1>2. LevelsRight(ss, ds, m)
  BY <1>1 DEF ScopesAt, LevelsRight, Alike
<1>3. ASSUME NEW k \in 1 .. Len(ss) PROVE ScopeRight(ss[k], ds[m[k]], bs)
  <2>1. m[k] \in 1 .. Len(cs) /\ ScopeRight(ss[k], cs[m[k]], bs)
    BY <1>1 DEF ScopesAt, LevelsRight
  <2>2. ds[m[k]].kind = cs[m[k]].kind /\ ds[m[k]].id = cs[m[k]].id
    BY <2>1 DEF Alike
  <2> QED BY <2>1, <2>2 DEF ScopeRight
<1> QED BY <1>2, <1>3 DEF ScopesRight, ScopesAt

\* Of what was declared in a construct that is being opened: a value, in this run.
Begun(bs, ds, more, values) ==
  \A b \in 1 .. Len(bs) : bs[b].owner = more =>
    /\ ds[Len(ds)].kind \in Opening
    /\ ~bs[b].conditional /\ (\A j \in 1 .. Len(ds) : ds[j].taken) => b \in values

\* The construct that is being opened.
OneMore(cs, d, ds, count, more) ==
  /\ ds = Append(cs, d) /\ Len(cs) >= 2 /\ more = count + 1
  /\ d \in Constructs /\ d.id = more /\ d.kind # "function"
  /\ d.kind = "local" => d.taken

LEMMA OpenedRight ==
  ASSUME NEW cs, NEW bs, NEW count, NEW more, NEW values, NEW d, NEW ds, OneMore(cs, d, ds, count, more),
         OpenRight(cs, count), OwnersRight(bs, cs, more), ValuesRight(bs, cs, values), Begun(bs, ds, more, values)
  PROVE  /\ OpenRight(ds, more) /\ Len(ds) >= 2 /\ Len(ds) \in Nat
         /\ OwnersRight(bs, ds, more) /\ ValuesRight(bs, ds, values)
<1>1. /\ cs \in Seq(Constructs) /\ Len(cs) \in Nat /\ count \in Nat
      /\ ds = Append(cs, d) /\ Len(cs) >= 2 /\ more = count + 1
      /\ d \in Constructs /\ d.id = more /\ d.kind # "function"
      /\ d.kind = "local" => d.taken
  BY DEF OpenRight, OneMore
<1>2. /\ ds \in Seq(Constructs) /\ Len(ds) = Len(cs) + 1 /\ ds[Len(cs) + 1] = d
      /\ \A i \in 1 .. Len(cs) : ds[i] = cs[i]
  BY <1>1, AppendProperties
<1>3. OpenRight(ds, more)
  <2>1. ASSUME NEW i \in 1 .. Len(ds)
        PROVE  /\ ds[i].id \in 1 .. more /\ (ds[i].kind = "function" <=> i = 1)
               /\ (i = 2 => ds[i].kind = "block") /\ (ds[i].kind = "local" => ds[i].taken)
    <3>1. CASE i \in 1 .. Len(cs)
      BY <1>1, <1>2, <3>1 DEF OpenRight
    <3>2. CASE i = Len(cs) + 1
      BY <1>1, <1>2, <3>2
    <3>3. i \in 1 .. Len(cs) \/ i = Len(cs) + 1
      BY <1>1, <1>2
    <3> QED BY ONLY <3>1, <3>2, <3>3
  <2>2. ASSUME NEW i \in 1 .. Len(ds), NEW j \in 1 .. Len(ds), i < j PROVE ds[i].id < ds[j].id
    <3>1. i \in 1 .. Len(cs) /\ ds[i].id = cs[i].id /\ cs[i].id \in 1 .. count
      BY <1>1, <1>2, <2>2 DEF OpenRight
    <3>2. CASE j \in 1 .. Len(cs)
      BY <1>2, <2>2, <3>1, <3>2 DEF OpenRight
    <3>3. CASE j = Len(cs) + 1
      BY <1>1, <1>2, <3>1, <3>3
    <3> QED BY <1>1, <1>2, <3>2, <3>3
  <2>3. more \in Nat
    BY <1>1
  <2> QED BY <1>2, <2>1, <2>2, <2>3 DEF OpenRight
<1>4. OwnersRight(bs, ds, more)
  <2> SUFFICES ASSUME NEW b \in 1 .. Len(bs), NEW i \in 1 .. Len(ds), ds[i].id = bs[b].owner
               PROVE  ds[i].kind \in Opening
    BY DEF OwnersRight
  <2>1. CASE i \in 1 .. Len(cs)
    BY <1>2, <2>1 DEF OwnersRight
  <2>2. CASE i = Len(cs) + 1
    BY <1>1, <1>2, <2>2 DEF Begun
  <2> QED BY <1>1, <1>2, <2>1, <2>2
<1>5. ValuesRight(bs, ds, values)
  <2> SUFFICES ASSUME NEW b \in 1 .. Len(bs), NEW i \in 1 .. Len(ds),
                      ds[i].id = bs[b].owner, ~bs[b].conditional, \A j \in 1 .. i : ds[j].taken
               PROVE  b \in values
    BY DEF ValuesRight
  <2>1. CASE i \in 1 .. Len(cs)
    <3>1. \A j \in 1 .. i : cs[j].taken
      BY <1>1, <1>2, <2>1
    <3> QED BY <1>2, <2>1, <3>1 DEF ValuesRight
  <2>2. CASE i = Len(cs) + 1
    BY <1>1, <1>2, <2>2 DEF Begun
  <2> QED BY <1>1, <1>2, <2>1, <2>2
<1> QED BY <1>1, <1>2, <1>3, <1>4, <1>5

LEMMA OpenedScopes ==
  ASSUME NEW cs, NEW bs, NEW count, NEW ss, NEW d, NEW ds, ds = Append(cs, d),
         OpenRight(cs, count), d \in Constructs, ScopesRight(ss, cs, bs)
  PROVE  /\ d.kind \notin Opening => ScopesRight(ss, ds, bs)
         /\ \A s \in Scopes : d.kind \in Opening /\ ScopeRight(s, d, bs) => ScopesRight(Append(ss, s), ds, bs)
<1>1. PICK m : ScopesAt(ss, cs, bs, m)
  BY DEF ScopesRight
<1>2. /\ cs \in Seq(Constructs) /\ Len(cs) \in Nat /\ ss \in Seq(Scopes) /\ Len(ss) \in Nat
      /\ m \in [1 .. Len(ss) -> 1 .. Len(cs)]
  BY <1>1 DEF OpenRight, ScopesAt, LevelsRight
<1>3. /\ ds \in Seq(Constructs) /\ Len(ds) = Len(cs) + 1 /\ ds[Len(cs) + 1] = d
      /\ \A i \in 1 .. Len(cs) : ds[i] = cs[i]
  BY <1>2, AppendProperties
<1>4. \A k \in 1 .. Len(ss) : m[k] \in 1 .. Len(cs) /\ m[k] \in Nat /\ ScopeRight(ss[k], ds[m[k]], bs)
  BY <1>1, <1>2, <1>3 DEF ScopesAt
<1>5. /\ \A k, l \in 1 .. Len(ss) : k < l => m[k] < m[l]
      /\ \A i \in 1 .. Len(cs) : ds[i].kind \in Opening <=> \E k \in 1 .. Len(ss) : m[k] = i
  BY <1>1, <1>3 DEF ScopesAt, LevelsRight
<1>6. ASSUME d.kind \notin Opening PROVE ScopesRight(ss, ds, bs)
  <2>1. m \in [1 .. Len(ss) -> 1 .. Len(ds)]
    BY <1>2, <1>3
  <2>2. ASSUME NEW i \in 1 .. Len(ds)
        PROVE  ds[i].kind \in Opening <=> \E k \in 1 .. Len(ss) : m[k] = i
    <3>1. CASE i \in 1 .. Len(cs)
      BY <1>5, <3>1
    <3>2. CASE i = Len(cs) + 1
      BY <1>2, <1>3, <1>4, <1>6, <3>2
    <3> QED BY <1>2, <1>3, <3>1, <3>2
  <2>3. LevelsRight(ss, ds, m)
    BY <1>2, <1>5, <2>1, <2>2 DEF LevelsRight
  <2> QED BY <1>4, <2>3 DEF ScopesRight, ScopesAt
<1>7. ASSUME NEW s \in Scopes, d.kind \in Opening, ScopeRight(s, d, bs)
      PROVE  ScopesRight(Append(ss, s), ds, bs)
  <2> DEFINE n == [k \in 1 .. Len(ss) + 1 |-> IF k = Len(ss) + 1 THEN Len(cs) + 1 ELSE m[k]]
             ts == Append(ss, s)
  <2>1. /\ ts \in Seq(Scopes) /\ Len(ts) = Len(ss) + 1 /\ ts[Len(ss) + 1] = s
        /\ \A k \in 1 .. Len(ss) : ts[k] = ss[k]
    BY <1>2, AppendProperties
  <2>2. n[Len(ss) + 1] = Len(cs) + 1 /\ \A k \in 1 .. Len(ss) : n[k] = m[k]
    BY <1>2
  <2>3. n \in [1 .. Len(ss) + 1 -> 1 .. Len(cs) + 1]
    BY <1>2, <1>4
  <2> HIDE DEF n, ts
  <2>4. ASSUME NEW k \in 1 .. Len(ts), NEW l \in 1 .. Len(ts), k < l PROVE n[k] < n[l]
    <3>1. k \in 1 .. Len(ss) /\ n[k] = m[k] /\ m[k] \in 1 .. Len(cs)
      BY <1>2, <1>4, <2>1, <2>2, <2>4
    <3>2. CASE l \in 1 .. Len(ss)
      BY <1>5, <2>2, <2>4, <3>1, <3>2
    <3>3. CASE l = Len(ss) + 1
      BY <1>2, <2>2, <3>1, <3>3
    <3> QED BY <1>2, <2>1, <3>2, <3>3
  <2>5. ASSUME NEW i \in 1 .. Len(ds)
        PROVE  ds[i].kind \in Opening <=> \E k \in 1 .. Len(ts) : n[k] = i
    <3>1. CASE i \in 1 .. Len(cs)
      <4>1. ASSUME ds[i].kind \in Opening PROVE \E k \in 1 .. Len(ts) : n[k] = i
        <5>1. PICK k \in 1 .. Len(ss) : m[k] = i
          BY <1>5, <3>1, <4>1
        <5>2. k \in 1 .. Len(ts) /\ n[k] = i
          BY <1>2, <2>1, <2>2, <5>1
        <5> QED BY <5>2
      <4>2. ASSUME NEW k \in 1 .. Len(ts), n[k] = i PROVE ds[i].kind \in Opening
        <5>1. k \in 1 .. Len(ss)
          BY <1>2, <2>1, <2>2, <3>1, <4>2
        <5> QED BY <1>5, <2>2, <3>1, <4>2, <5>1
      <4> QED BY <4>1, <4>2
    <3>2. CASE i = Len(cs) + 1
      <4>1. Len(ss) + 1 \in 1 .. Len(ts)
        BY <1>2, <2>1
      <4> QED BY <1>3, <1>7, <2>2, <3>2, <4>1
    <3> QED BY <1>2, <1>3, <3>1, <3>2
  <2>6. ASSUME NEW k \in 1 .. Len(ts) PROVE ScopeRight(ts[k], ds[n[k]], bs)
    <3>1. CASE k \in 1 .. Len(ss)
      BY <1>4, <2>1, <2>2, <3>1
    <3>2. CASE k = Len(ss) + 1
      <4>1. ts[k] = s /\ n[k] = Len(cs) + 1 /\ ds[n[k]] = d
        BY <1>3, <2>1, <2>2, <3>2
      <4> QED BY <1>7, <4>1
    <3>3. k \in 1 .. Len(ss) \/ k = Len(ss) + 1
      BY <1>2, <2>1
    <3> QED BY ONLY <3>1, <3>2, <3>3
  <2>7. LevelsRight(ts, ds, n)
    BY <1>3, <2>1, <2>3, <2>4, <2>5 DEF LevelsRight
  <2>8. ScopesRight(ts, ds, bs)
    BY <2>6, <2>7 DEF ScopesRight, ScopesAt
  <2> QED BY <2>8 DEF ts
<1> QED BY <1>6, <1>7

\* A sequence without its last.
Shorter(s) == SubSeq(s, 1, Len(s) - 1)

LEMMA FrontIs ==
  ASSUME NEW S, NEW s, s \in Seq(S), Len(s) >= 1
  PROVE  /\ Shorter(s) \in Seq(S) /\ Len(Shorter(s)) = Len(s) - 1
         /\ \A i \in 1 .. Len(s) - 1 : Shorter(s)[i] = s[i]
<1>1. Len(s) \in Nat
  OBVIOUS
<1>2. PICK m : m = 1
  OBVIOUS
<1>3. PICK n : n = Len(s) - 1
  OBVIOUS
<1>4. m \in Int /\ n \in Int /\ \A i \in m .. n : s[i] \in S
  BY <1>1, <1>2, <1>3
<1>5. /\ SubSeq(s, m, n) \in Seq(S)
      /\ Len(SubSeq(s, m, n)) = IF m <= n THEN n - m + 1 ELSE 0
      /\ \A i \in 1 .. n - m + 1 : SubSeq(s, m, n)[i] = s[m + i - 1]
  BY <1>4, SubSeqProperties
<1>6. Len(SubSeq(s, m, n)) = n
  <2>1. Len(SubSeq(s, m, n)) = IF m <= n THEN n - m + 1 ELSE 0
    BY <1>5
  <2>2. n - m + 1 = n /\ (~ (m <= n) => n = 0)
    BY <1>1, <1>2, <1>3
  <2> QED BY <2>1, <2>2
<1>7. \A i \in 1 .. n : SubSeq(s, m, n)[i] = s[i]
  <2> TAKE i \in 1 .. n
  <2>1. i \in 1 .. n - m + 1 /\ m + i - 1 = i
    BY <1>1, <1>2, <1>3
  <2> QED BY <1>5, <2>1
<1>8. Shorter(s) = SubSeq(s, m, n)
  BY <1>2, <1>3 DEF Shorter
<1> QED BY <1>3, <1>5, <1>6, <1>7, <1>8

LEMMA ClosedRight ==
  ASSUME NEW cs, NEW bs, NEW count, NEW values, NEW ds, ds = Shorter(cs),
         OpenRight(cs, count), Len(cs) >= 3, OwnersRight(bs, cs, count), ValuesRight(bs, cs, values)
  PROVE  /\ OpenRight(ds, count) /\ Len(ds) >= 2 /\ Len(ds) \in Nat
         /\ OwnersRight(bs, ds, count) /\ ValuesRight(bs, ds, values)
<1>1. cs \in Seq(Constructs) /\ Len(cs) \in Nat /\ count \in Nat
  BY DEF OpenRight
<1>2. ds \in Seq(Constructs) /\ Len(ds) = Len(cs) - 1 /\ \A i \in 1 .. Len(cs) - 1 : ds[i] = cs[i]
  BY <1>1, FrontIs
<1>3. \A i \in 1 .. Len(ds) : i \in 1 .. Len(cs) /\ ds[i] = cs[i]
  BY <1>1, <1>2
<1>4. OpenRight(ds, count)
  <2>1. /\ \A i \in 1 .. Len(cs) :
             /\ cs[i].id \in 1 .. count
             /\ cs[i].kind = "function" <=> i = 1
             /\ i = 2 => cs[i].kind = "block"
             /\ cs[i].kind = "local" => cs[i].taken
        /\ \A i, j \in 1 .. Len(cs) : i < j => cs[i].id < cs[j].id
    BY DEF OpenRight
  <2>2. \A i \in 1 .. Len(ds) :
          /\ ds[i].id \in 1 .. count
          /\ ds[i].kind = "function" <=> i = 1
          /\ i = 2 => ds[i].kind = "block"
          /\ ds[i].kind = "local" => ds[i].taken
    BY <1>3, <2>1
  <2>3. \A i, j \in 1 .. Len(ds) : i < j => ds[i].id < ds[j].id
    BY <1>3, <2>1
  <2> QED BY <1>1, <1>2, <2>2, <2>3 DEF OpenRight
<1>5. OwnersRight(bs, ds, count)
  BY <1>3 DEF OwnersRight
<1>6. ValuesRight(bs, ds, values)
  <2> SUFFICES ASSUME NEW b \in 1 .. Len(bs), NEW i \in 1 .. Len(ds),
                      ds[i].id = bs[b].owner, ~bs[b].conditional, \A j \in 1 .. i : ds[j].taken
               PROVE  b \in values
    BY DEF ValuesRight
  <2>1. \A j \in 1 .. i : cs[j].taken
    BY <1>1, <1>2, <1>3
  <2> QED BY <1>3, <2>1 DEF ValuesRight
<1> QED BY <1>1, <1>2, <1>4, <1>5, <1>6

LEMMA ClosedScopes ==
  ASSUME NEW cs, NEW bs, NEW count, NEW ss, NEW ds, ds = Shorter(cs),
         OpenRight(cs, count), Len(cs) >= 3, ScopesRight(ss, cs, bs)
  PROVE  /\ cs[Len(cs)].kind \notin Opening => ScopesRight(ss, ds, bs)
         /\ cs[Len(cs)].kind \in Opening => ScopesRight(Shorter(ss), ds, bs)
<1>1. PICK m : ScopesAt(ss, cs, bs, m)
  BY DEF ScopesRight
<1>2. /\ cs \in Seq(Constructs) /\ Len(cs) \in Nat /\ ss \in Seq(Scopes) /\ Len(ss) \in Nat
      /\ m \in [1 .. Len(ss) -> 1 .. Len(cs)]
  BY <1>1 DEF OpenRight, ScopesAt, LevelsRight
<1>3. ds \in Seq(Constructs) /\ Len(ds) = Len(cs) - 1 /\ \A i \in 1 .. Len(cs) - 1 : ds[i] = cs[i]
  BY <1>2, FrontIs
<1>4. \A k \in 1 .. Len(ss) : m[k] \in 1 .. Len(cs) /\ m[k] \in Nat /\ ScopeRight(ss[k], cs[m[k]], bs)
  BY <1>1, <1>2 DEF ScopesAt
<1>5. /\ \A k, l \in 1 .. Len(ss) : k < l => m[k] < m[l]
      /\ \A i \in 1 .. Len(cs) : cs[i].kind \in Opening <=> \E k \in 1 .. Len(ss) : m[k] = i
  BY <1>1 DEF ScopesAt, LevelsRight
<1>6. ASSUME cs[Len(cs)].kind \notin Opening PROVE ScopesRight(ss, ds, bs)
  <2>1. ASSUME NEW k \in 1 .. Len(ss) PROVE m[k] \in 1 .. Len(ds) /\ ds[m[k]] = cs[m[k]]
    <3>1. m[k] # Len(cs)
      BY <1>2, <1>5, <1>6
    <3> QED BY <1>2, <1>3, <1>4, <3>1
  <2>2. m \in [1 .. Len(ss) -> 1 .. Len(ds)]
    BY <1>2, <2>1
  <2>3. \A i \in 1 .. Len(ds) : i \in 1 .. Len(cs) /\ ds[i] = cs[i]
    BY <1>2, <1>3
  <2>4. LevelsRight(ss, ds, m)
    BY <1>2, <1>5, <2>2, <2>3 DEF LevelsRight
  <2> QED BY <1>4, <2>1, <2>4 DEF ScopesRight, ScopesAt
<1>7. ASSUME cs[Len(cs)].kind \in Opening PROVE ScopesRight(Shorter(ss), ds, bs)
  <2> DEFINE ts == Shorter(ss)
             n == [k \in 1 .. Len(ss) - 1 |-> m[k]]
  <2>1. PICK z \in 1 .. Len(ss) : m[z] = Len(cs)
    BY <1>2, <1>5, <1>7
  <2>2. z = Len(ss)
    <3> SUFFICES ASSUME z < Len(ss) PROVE FALSE
      BY <1>2
    <3>1. Len(ss) \in 1 .. Len(ss) /\ m[Len(ss)] \in 1 .. Len(cs)
      BY <1>2, <1>4
    <3>2. m[z] < m[Len(ss)]
      BY <1>5, <3>1
    <3> QED BY <1>2, <2>1, <3>1, <3>2
  <2>3. ts \in Seq(Scopes) /\ Len(ts) = Len(ss) - 1 /\ \A k \in 1 .. Len(ss) - 1 : ts[k] = ss[k]
    <3>1. Len(ss) >= 1
      BY <1>2, <2>1
    <3> QED BY <1>2, <3>1, FrontIs
  <2> HIDE DEF ts
  <2>4. ASSUME NEW k \in 1 .. Len(ts)
        PROVE  /\ k \in 1 .. Len(ss) /\ ts[k] = ss[k] /\ n[k] = m[k]
               /\ m[k] \in 1 .. Len(ds) /\ ds[m[k]] = cs[m[k]]
    <3>1. k \in 1 .. Len(ss) /\ k < z /\ ts[k] = ss[k] /\ n[k] = m[k]
      <4>1. k \in 1 .. Len(ss) - 1 /\ k \in 1 .. Len(ss) /\ k < z
        BY <1>2, <2>2, <2>3
      <4> QED BY <2>3, <4>1
    <3>2. m[k] < m[z]
      BY <1>5, <3>1
    <3>3. m[k] \in 1 .. Len(cs) - 1
      BY <1>2, <1>4, <2>1, <3>1, <3>2
    <3> QED BY <1>2, <1>3, <3>1, <3>3
  <2>5. n \in [1 .. Len(ts) -> 1 .. Len(ds)]
    BY <2>3, <2>4
  <2> HIDE DEF n
  <2>6. ASSUME NEW i \in 1 .. Len(ds)
        PROVE  ds[i].kind \in Opening <=> \E k \in 1 .. Len(ts) : n[k] = i
    <3>1. i \in 1 .. Len(cs) /\ i # Len(cs) /\ ds[i] = cs[i]
      BY <1>2, <1>3
    <3>2. ASSUME ds[i].kind \in Opening PROVE \E k \in 1 .. Len(ts) : n[k] = i
      <4>1. PICK k \in 1 .. Len(ss) : m[k] = i
        BY <1>5, <3>1, <3>2
      <4>2. k # Len(ss)
        BY <2>1, <2>2, <3>1, <4>1
      <4>3. k \in 1 .. Len(ts)
        BY <1>2, <2>3, <4>2
      <4> QED BY <2>4, <4>1, <4>3
    <3>3. ASSUME NEW k \in 1 .. Len(ts), n[k] = i PROVE ds[i].kind \in Opening
      BY <1>5, <2>4, <3>1, <3>3
    <3> QED BY <3>2, <3>3
  <2>7. \A k, l \in 1 .. Len(ts) : k < l => n[k] < n[l]
    BY <1>5, <2>4
  <2>8. LevelsRight(ts, ds, n)
    BY <2>3, <2>5, <2>6, <2>7 DEF LevelsRight
  <2>9. \A k \in 1 .. Len(ts) : ScopeRight(ts[k], ds[n[k]], bs)
    BY <1>4, <2>4
  <2>10. ScopesRight(ts, ds, bs)
    BY <2>8, <2>9 DEF ScopesRight, ScopesAt
  <2> QED BY <2>10 DEF ts
<1> QED BY <1>6, <1>7

-----------------------------------------------------------------------------
(* Names: declaring. *)

\* One more declaration, in the scope of its construct and in no other.
WithEntry(s, name, b) == [s EXCEPT !.bindings = Append(@, <<name, b>>)]

LEMMA EntryAdded ==
  ASSUME NEW s, NEW c, NEW bs, NEW new, NEW t, NEW b, s \in Scopes, bs \in Seq(Declared), new \in Declared,
         b = Len(bs) + 1, ScopeRight(s, c, bs), new.owner = c.id,
         t = WithEntry(s, new.name, b)
  PROVE  t \in Scopes /\ ScopeRight(t, c, Append(bs, new))
<1> DEFINE cs == Append(bs, new)
           es == s.bindings
           fs == Append(es, <<new.name, b>>)
<1>1. es \in Seq(NameTexts \X Nat) /\ Len(es) \in Nat /\ Len(bs) \in Nat /\ new.name \in NameTexts
  BY DEF Scopes, Declared
<1>2. cs \in Seq(Declared) /\ Len(cs) = b /\ cs[b] = new /\ \A i \in 1 .. Len(bs) : cs[i] = bs[i]
  BY AppendProperties
<1>3. /\ fs \in Seq(NameTexts \X Nat) /\ Len(fs) = Len(es) + 1 /\ fs[Len(es) + 1] = <<new.name, b>>
      /\ \A e \in 1 .. Len(es) : fs[e] = es[e]
  <2>1. <<new.name, b>> \in NameTexts \X Nat
    BY <1>1
  <2> QED BY <1>1, <2>1, AppendProperties
<1> HIDE DEF cs, fs
<1>4. t = [s EXCEPT !.bindings = fs] /\ s.acceptsLocals \in BOOLEAN /\ es = s.bindings
  BY DEF Scopes, fs, WithEntry
<1> HIDE DEF es
<1>5. t \in Scopes /\ t.bindings = fs /\ (t.acceptsLocals <=> s.acceptsLocals)
  <2>1. PICK gs : gs = fs
    OBVIOUS
  <2>2. gs \in Seq(NameTexts \X Nat) /\ t = [s EXCEPT !.bindings = gs]
    BY <1>3, <1>4, <2>1
  <2>3. t.bindings = gs /\ (t.acceptsLocals <=> s.acceptsLocals)
    BY <2>2, Zenon DEF Scopes
  <2>4. t \in Scopes
    BY <2>2, Zenon DEF Scopes
  <2> QED BY <2>1, <2>3, <2>4
<1>6. /\ s.acceptsLocals <=> c.kind # "loop"
      /\ \A e \in 1 .. Len(es) :
           /\ es[e][2] \in 1 .. Len(bs) /\ bs[es[e][2]].name = es[e][1] /\ bs[es[e][2]].owner = c.id
      /\ \A e, f \in 1 .. Len(es) : e < f => es[e][2] < es[f][2]
      /\ \A i \in 1 .. Len(bs) : bs[i].owner = c.id => \E e \in 1 .. Len(es) : es[e][2] = i
  BY DEF ScopeRight, es
<1>7. ASSUME NEW e \in 1 .. Len(fs)
      PROVE  /\ fs[e][2] \in 1 .. Len(cs)
             /\ cs[fs[e][2]].name = fs[e][1] /\ cs[fs[e][2]].owner = c.id
  <2>1. CASE e \in 1 .. Len(es)
    <3>1. es[e][2] \in 1 .. Len(bs) /\ fs[e] = es[e]
      BY <1>3, <1>6, <2>1
    <3>2. cs[es[e][2]] = bs[es[e][2]]
      BY <1>2, <3>1
    <3> QED BY <1>1, <1>2, <1>6, <2>1, <3>1, <3>2
  <2>2. CASE e = Len(es) + 1
    <3>1. fs[e][1] = new.name /\ fs[e][2] = b
      BY <1>3, <2>2
    <3>2. b \in 1 .. Len(cs)
      BY <1>1, <1>2
    <3> QED BY <1>2, <3>1, <3>2
  <2> QED BY <1>1, <1>3, <2>1, <2>2
<1>8. ASSUME NEW e \in 1 .. Len(fs), NEW f \in 1 .. Len(fs), e < f PROVE fs[e][2] < fs[f][2]
  <2>1. e \in 1 .. Len(es) /\ fs[e] = es[e] /\ es[e][2] \in 1 .. Len(bs)
    <3>1. e \in 1 .. Len(es)
      BY <1>1, <1>3, <1>8
    <3> QED BY <1>3, <1>6, <3>1
  <2>2. CASE f \in 1 .. Len(es)
    BY <1>3, <1>6, <1>8, <2>1, <2>2
  <2>3. CASE f = Len(es) + 1
    <3>1. fs[f][2] = b
      BY <1>3, <2>3
    <3> QED BY <1>1, <2>1, <3>1
  <2> QED BY <1>1, <1>3, <2>2, <2>3
<1>9. ASSUME NEW i \in 1 .. Len(cs), cs[i].owner = c.id PROVE \E e \in 1 .. Len(fs) : fs[e][2] = i
  <2>1. CASE i \in 1 .. Len(bs)
    <3>1. PICK e \in 1 .. Len(es) : es[e][2] = i
      BY <1>2, <1>6, <1>9, <2>1
    <3>2. e \in 1 .. Len(fs) /\ fs[e][2] = i
      BY <1>1, <1>3, <3>1
    <3> QED BY <3>2
  <2>2. CASE i = b
    <3>1. Len(es) + 1 \in 1 .. Len(fs) /\ fs[Len(es) + 1][2] = b
      BY <1>1, <1>3
    <3> QED BY <2>2, <3>1
  <2> QED BY <1>1, <1>2, <2>1, <2>2
<1>10. t.acceptsLocals <=> c.kind # "loop"
  BY <1>5, <1>6
<1>11. ScopeRight(t, c, cs)
  <2>1. \A e \in 1 .. Len(t.bindings) :
          /\ t.bindings[e][2] \in 1 .. Len(cs)
          /\ cs[t.bindings[e][2]].name = t.bindings[e][1]
          /\ cs[t.bindings[e][2]].owner = c.id
    BY <1>5, <1>7
  <2>2. \A e, f \in 1 .. Len(t.bindings) : e < f => t.bindings[e][2] < t.bindings[f][2]
    BY <1>5, <1>8
  <2>3. \A i \in 1 .. Len(cs) :
          cs[i].owner = c.id => \E e \in 1 .. Len(t.bindings) : t.bindings[e][2] = i
    BY <1>5, <1>9
  <2> QED BY <1>10, <2>1, <2>2, <2>3, Zenon DEF ScopeRight
<1> QED BY <1>5, <1>11 DEF cs

LEMMA EntryElsewhere ==
  ASSUME NEW s, NEW c, NEW bs, NEW new, bs \in Seq(Declared), new \in Declared,
         ScopeRight(s, c, bs), new.owner # c.id
  PROVE  ScopeRight(s, c, Append(bs, new))
<1>1. /\ Len(bs) \in Nat /\ Len(Append(bs, new)) = Len(bs) + 1 /\ Append(bs, new)[Len(bs) + 1] = new
      /\ \A i \in 1 .. Len(bs) : Append(bs, new)[i] = bs[i]
  BY AppendProperties
<1>2. PICK cs : cs = Append(bs, new)
  OBVIOUS
<1>3. /\ Len(cs) = Len(bs) + 1 /\ cs[Len(bs) + 1] = new
      /\ \A i \in 1 .. Len(bs) : cs[i] = bs[i]
  BY <1>1, <1>2
<1>4. \A i \in 1 .. Len(cs) : cs[i].owner = c.id => i \in 1 .. Len(bs) /\ cs[i] = bs[i]
  BY <1>1, <1>3
<1>5. \A e \in 1 .. Len(s.bindings) :
        /\ s.bindings[e][2] \in 1 .. Len(bs)
        /\ bs[s.bindings[e][2]].name = s.bindings[e][1]
        /\ bs[s.bindings[e][2]].owner = c.id
  BY Zenon DEF ScopeRight
<1>6. ASSUME NEW e \in 1 .. Len(s.bindings)
      PROVE  /\ s.bindings[e][2] \in 1 .. Len(cs)
             /\ cs[s.bindings[e][2]].name = s.bindings[e][1]
             /\ cs[s.bindings[e][2]].owner = c.id
  <2>1. PICK i : i = s.bindings[e][2]
    OBVIOUS
  <2>2. i \in 1 .. Len(bs) /\ bs[i].name = s.bindings[e][1] /\ bs[i].owner = c.id
    BY <1>5, <2>1
  <2>3. i \in 1 .. Len(cs) /\ cs[i] = bs[i]
    BY <1>1, <1>3, <2>2
  <2> QED BY <2>1, <2>2, <2>3
<1>7. \A i \in 1 .. Len(cs) :
        cs[i].owner = c.id => \E e \in 1 .. Len(s.bindings) : s.bindings[e][2] = i
  <2>1. \A i \in 1 .. Len(bs) :
          bs[i].owner = c.id => \E e \in 1 .. Len(s.bindings) : s.bindings[e][2] = i
    BY Zenon DEF ScopeRight
  <2> QED BY <1>4, <2>1
<1>8. ScopeRight(s, c, cs)
  <2>1. /\ s.acceptsLocals <=> c.kind # "loop"
        /\ \A e, f \in 1 .. Len(s.bindings) : e < f => s.bindings[e][2] < s.bindings[f][2]
    BY Zenon DEF ScopeRight
  <2> QED BY <1>6, <1>7, <2>1, Zenon DEF ScopeRight
<1> QED BY <1>2, <1>8

LEMMA ScopesMore ==
  ASSUME NEW ss, NEW cs, NEW bs, NEW new, ScopesRight(ss, cs, bs), bs \in Seq(Declared), new \in Declared,
         \A i \in 1 .. Len(cs) : new.owner # cs[i].id
  PROVE  ScopesRight(ss, cs, Append(bs, new))
<1>1. PICK m : ScopesAt(ss, cs, bs, m)
  BY DEF ScopesRight
<1>2. ASSUME NEW k \in 1 .. Len(ss) PROVE ScopeRight(ss[k], cs[m[k]], Append(bs, new))
  <2>1. ScopeRight(ss[k], cs[m[k]], bs) /\ new.owner # cs[m[k]].id
    BY <1>1 DEF ScopesAt, LevelsRight
  <2>2. PICK c : c = cs[m[k]]
    OBVIOUS
  <2>3. PICK s : s = ss[k]
    OBVIOUS
  <2>4. ScopeRight(s, c, Append(bs, new))
    BY <2>1, <2>2, <2>3, EntryElsewhere
  <2> QED BY <2>2, <2>3, <2>4
<1>3. ScopesAt(ss, cs, Append(bs, new), m)
  BY <1>1, <1>2 DEF ScopesAt
<1> QED BY <1>3 DEF ScopesRight

LEMMA DeclaredMore ==
  ASSUME NEW bs, NEW cs, NEW count, NEW more, NEW values, NEW others, NEW new, NEW n, n = Len(bs) + 1,
         OwnersRight(bs, cs, count), count \in Nat, more \in Nat, count <= more,
         new \in Declared, new.owner \in 1 .. more, values \subseteq others,
         \A i \in 1 .. Len(cs) : cs[i].id = new.owner =>
           /\ cs[i].kind \in Opening
           /\ ~new.conditional /\ (\A j \in 1 .. i : cs[j].taken) => n \in others,
         ValuesRight(bs, cs, values)
  PROVE  OwnersRight(Append(bs, new), cs, more) /\ ValuesRight(Append(bs, new), cs, others)
<1>1. PICK as : as = Append(bs, new)
  OBVIOUS
<1>2. bs \in Seq(Declared) /\ Len(bs) \in Nat
  BY DEF OwnersRight
<1>3. as \in Seq(Declared) /\ Len(as) = n /\ as[n] = new /\ \A i \in 1 .. Len(bs) : as[i] = bs[i]
  BY <1>1, <1>2, AppendProperties
<1>4. \A b \in 1 .. Len(as) : (b = n /\ as[b] = new) \/ (b \in 1 .. Len(bs) /\ as[b] = bs[b])
  <2> TAKE b \in 1 .. Len(as)
  <2>1. b = n \/ b \in 1 .. Len(bs)
    BY <1>2, <1>3
  <2> QED BY <1>3, <2>1
<1>5. OwnersRight(as, cs, more)
  <2>1. ASSUME NEW b \in 1 .. Len(as)
        PROVE  /\ as[b].owner \in 1 .. more
               /\ \A i \in 1 .. Len(cs) : cs[i].id = as[b].owner => cs[i].kind \in Opening
    <3>1. CASE as[b] = new
      BY <3>1
    <3>2. CASE b \in 1 .. Len(bs) /\ as[b] = bs[b]
      BY <3>2 DEF OwnersRight
    <3> QED BY <1>4, <3>1, <3>2
  <2> QED BY <1>3, <2>1 DEF OwnersRight
<1>6. ValuesRight(as, cs, others)
  <2> SUFFICES ASSUME NEW b \in 1 .. Len(as), NEW i \in 1 .. Len(cs),
                      cs[i].id = as[b].owner, ~as[b].conditional, \A j \in 1 .. i : cs[j].taken
               PROVE  b \in others
    BY DEF ValuesRight
  <2>1. CASE b = n /\ as[b] = new
    BY <2>1
  <2>2. CASE b \in 1 .. Len(bs) /\ as[b] = bs[b]
    BY <2>2 DEF ValuesRight
  <2> QED BY <1>4, <2>1, <2>2
<1> QED BY <1>1, <1>5, <1>6

\* A local goes to the scope of the braces around it.
LEMMA LocalScopes ==
  ASSUME NEW cs, NEW bs, NEW count, NEW ss, NEW i, NEW new, NEW n, n = Len(bs) + 1,
         OpenRight(cs, count), bs \in Seq(Declared), ScopesRight(ss, cs, bs),
         i \in 1 .. Len(cs), cs[i].kind = "block",
         \A j \in 1 .. Len(cs) : i < j => cs[j].kind # "block",
         new \in Declared, new.owner = cs[i].id,
         NEW level, level = Names!SelectLastInSeq(ss, LAMBDA scope : scope.acceptsLocals)
  PROVE  ScopesRight([ss EXCEPT ![level].bindings = Append(@, <<new.name, n>>)], cs, Append(bs, new))
<1>1. PICK m : ScopesAt(ss, cs, bs, m)
  BY DEF ScopesRight
<1>2. /\ cs \in Seq(Constructs) /\ Len(cs) \in Nat /\ ss \in Seq(Scopes) /\ Len(ss) \in Nat
      /\ m \in [1 .. Len(ss) -> 1 .. Len(cs)]
      /\ \A k, l \in 1 .. Len(ss) : k < l => m[k] < m[l]
      /\ \A k \in 1 .. Len(ss) : cs[m[k]].kind \in Opening /\ ScopeRight(ss[k], cs[m[k]], bs)
  BY <1>1 DEF OpenRight, ScopesAt, LevelsRight
<1>3. PICK at_ \in 1 .. Len(ss) : m[at_] = i
  BY <1>1 DEF ScopesAt, LevelsRight, Opening
<1>4. level = at_
  <2> DEFINE I == {k \in 1 .. Len(ss) : ss[k].acceptsLocals}
  <2>1. level = IF I # {} THEN Names!Max(I) ELSE 0
    BY DEF Names!SelectLastInSeq
  <2>2. at_ \in I
    BY <1>2, <1>3 DEF ScopeRight
  <2>3. ASSUME NEW k \in I PROVE k <= at_
    <3> SUFFICES ASSUME at_ < k PROVE FALSE
      BY <1>2
    <3>1. m[at_] < m[k] /\ m[k] \in 1 .. Len(cs)
      BY <1>2
    <3>2. cs[m[k]].kind # "loop" /\ cs[m[k]].kind \in Opening /\ cs[m[k]].kind # "block"
      BY <1>2, <1>3, <3>1 DEF ScopeRight
    <3>3. m[k] = 1
      BY <3>1, <3>2 DEF OpenRight, Opening
    <3> QED BY <1>2, <1>3, <3>1, <3>3
  <2>4. I \subseteq 1 .. Len(ss) /\ I # {}
    BY <2>2
  <2> HIDE DEF I
  <2>5. Names!Max(I) \in I /\ \A y \in I : y <= Names!Max(I)
    BY ONLY <1>2, <2>4, LastOf
  <2>6. Names!Max(I) <= at_ /\ at_ <= Names!Max(I) /\ Names!Max(I) \in Nat
    BY <1>2, <2>2, <2>3, <2>4, <2>5
  <2> QED BY <1>2, <2>1, <2>4, <2>6
<1>5. PICK t : t = [ss[at_] EXCEPT !.bindings = Append(@, <<new.name, n>>)]
  OBVIOUS
<1>6. PICK ts : ts = [ss EXCEPT ![at_] = t]
  OBVIOUS
<1>7. t \in Scopes /\ ScopeRight(t, cs[i], Append(bs, new))
  <2>1. PICK s : s = ss[at_]
    OBVIOUS
  <2>2. PICK c : c = cs[i]
    OBVIOUS
  <2>3. s \in Scopes /\ ScopeRight(s, c, bs) /\ new.owner = c.id
    BY <1>2, <1>3, <2>1, <2>2
  <2>4. t = WithEntry(s, new.name, n)
    BY <1>5, <2>1 DEF WithEntry
  <2>5. t \in Scopes /\ ScopeRight(t, c, Append(bs, new))
    BY <2>3, <2>4, EntryAdded
  <2> QED BY <2>2, <2>5
<1>8. /\ ts \in Seq(Scopes) /\ Len(ts) = Len(ss) /\ ts[at_] = t
      /\ \A k \in 1 .. Len(ss) : k # at_ => ts[k] = ss[k]
  BY <1>2, <1>6, <1>7
<1>9. ASSUME NEW k \in 1 .. Len(ts) PROVE ScopeRight(ts[k], cs[m[k]], Append(bs, new))
  <2>1. CASE k = at_
    BY <1>3, <1>7, <1>8, <2>1
  <2>2. CASE k # at_
    <3>1. k < at_ \/ at_ < k
      BY <1>2, <1>8, <2>2
    <3>2. m[k] # i /\ m[k] \in 1 .. Len(cs) /\ m[k] \in Nat /\ i \in Nat
      BY <1>2, <1>3, <1>8, <3>1
    <3>3. PICK q : q = m[k]
      OBVIOUS
    <3>4. q \in 1 .. Len(cs) /\ (q < i \/ i < q)
      BY <1>2, <3>2, <3>3
    <3>5. new.owner # cs[m[k]].id
      <4>1. \A a, b \in 1 .. Len(cs) : a < b => cs[a].id < cs[b].id
        BY DEF OpenRight
      <4>2. cs[q].id < cs[i].id \/ cs[i].id < cs[q].id
        BY <3>4, <4>1
      <4>3. cs[q].id \in Nat /\ cs[i].id \in Nat
        BY <3>4 DEF OpenRight
      <4> QED BY <3>3, <4>2, <4>3
    <3>6. PICK s : s = ss[k]
      OBVIOUS
    <3>7. PICK c : c = cs[m[k]]
      OBVIOUS
    <3>8. ScopeRight(s, c, bs) /\ new.owner # c.id
      BY <1>2, <1>8, <3>5, <3>6, <3>7
    <3>9. ScopeRight(s, c, Append(bs, new))
      BY <3>8, EntryElsewhere
    <3> QED BY <1>8, <2>2, <3>6, <3>7, <3>9
  <2> QED BY <2>1, <2>2
<1>10. LevelsRight(ts, cs, m)
  BY <1>1, <1>8 DEF ScopesAt, LevelsRight
<1>11. ScopesRight(ts, cs, Append(bs, new))
  BY <1>9, <1>10 DEF ScopesRight, ScopesAt
<1>12. ts = [ss EXCEPT ![level].bindings = Append(@, <<new.name, n>>)]
  BY <1>4, <1>5, <1>6
<1> QED BY <1>11, <1>12

-----------------------------------------------------------------------------
(* Names: the invariant. *)

\* What a recorded use says, by what the scopes have for the name and by what could be
\* called by it.
UseMeans(use, found, kinds) ==
  IF found # 0 THEN use.binding = found /\ ~use.error
  ELSE /\ use.binding = 0
       /\ ~use.error => use.access = "call" /\ use.resolution \in kinds
       /\ use.access = "call" /\ use.resolution # "constructor" =>
            (use.error <=> Names!Cardinality(kinds) # 1)

Means(use, name) ==
  use.name = name /\ UseMeans(use, Found(scopes, name), Names!Callables(name))

UseRight ==
  lastUse # Names!NoUse => UseMeans(lastUse, Found(scopes, lastUse.name), Names!Callables(lastUse.name))

\* Of the function whose body is being resolved.
BodyRight ==
  /\ OpenRight(open, opened) /\ Len(open) >= 2 /\ Len(open) \in Nat
  /\ OwnersRight(bindings, open, opened) /\ ValuesRight(bindings, open, initialized)
  /\ "duplicate" \notin reported => ScopesRight(scopes, open, bindings) /\ UseRight

NamesInv ==
  /\ Len(declarations) \in Nat /\ parameters \in Seq(Identifiers) /\ collected \in Nat
  /\ functionNames \cap Intrinsics = {}
  /\ collected <= Len(declarations) => lastUse = Names!NoUse
  /\ Names!InBody => BodyRight

LEMMA NamesStarts == Names!Init => NamesInv
<1> SUFFICES ASSUME Names!Init PROVE NamesInv
  OBVIOUS
<1>1. PICK head \in Heads : declarations = head.declarations /\ parameters = head.parameters
  BY DEF Names!Init
<1>2. Len(declarations) \in Nat /\ parameters \in Seq(Identifiers)
  BY <1>1, CompilationAssumption DEF Names!NamesAssumption
<1>3. collected = 0 /\ functionNames = {} /\ lastUse = Names!NoUse
  BY DEF Names!Init
<1>4. ~Names!InBody
  BY <1>2, <1>3 DEF Names!InBody
<1> QED BY <1>2, <1>3, <1>4 DEF NamesInv

\* A set has one element if it is the set of one.
LEMMA OneElement ==
  ASSUME NEW name
  PROVE  Names!Cardinality(Names!Callables(name)) = 1 <=> \E k : Names!Callables(name) = {k}
<1> DEFINE K == {"function", "intrinsic", "constructor", "error constructor"}
<1>1. Names!Callables(name) \subseteq K
  BY DEF Names!Callables
<1>2. K = {"function"} \cup {"intrinsic"} \cup {"constructor"} \cup {"error constructor"}
  OBVIOUS
<1>3. IsFiniteSet(K)
  <2>1. IsFiniteSet({"function"}) /\ IsFiniteSet({"intrinsic"}) /\ IsFiniteSet({"constructor"})
        /\ IsFiniteSet({"error constructor"})
    BY FS_Singleton
  <2>2. IsFiniteSet({"function"} \cup {"intrinsic"})
    BY <2>1, FS_Union
  <2>3. IsFiniteSet({"function"} \cup {"intrinsic"} \cup {"constructor"})
    BY <2>1, <2>2, FS_Union
  <2>4. IsFiniteSet({"function"} \cup {"intrinsic"} \cup {"constructor"} \cup {"error constructor"})
    BY <2>1, <2>3, FS_Union
  <2> QED BY <1>2, <2>4
<1> HIDE DEF K
<1>4. IsFiniteSet(Names!Callables(name))
  BY <1>1, <1>3, FS_Subset
<1>5. \A S : Names!Cardinality(S) = Cardinality(S)
  BY DEF Names!Cardinality, Cardinality
<1> QED BY <1>4, <1>5, FS_Singleton

\* What a recorded use means, by the way in which it was resolved.
Accepted(u, name, access, r, found) == u = Names!Use(name, access, r, found, FALSE)
Refused(u, name, access, r, found) == u = Names!Use(name, access, r, found, TRUE)

LEMMA AcceptedMeans ==
  ASSUME NEW u, NEW name, NEW access, NEW r, NEW found, NEW kinds, Accepted(u, name, access, r, found),
         found # 0 \/ (access = "call" /\ r \in kinds /\ (r = "constructor" \/ Names!Cardinality(kinds) = 1))
  PROVE  u.name = name /\ UseMeans(u, found, kinds)
<1>1. u.name = name /\ u.access = access /\ u.resolution = r /\ u.binding = found /\ ~u.error
  BY DEF Accepted, Names!Use
<1>2. CASE found # 0
  BY <1>1, <1>2, Zenon DEF UseMeans
<1>3. CASE found = 0
  BY <1>1, <1>3, Zenon DEF UseMeans
<1> QED BY <1>1, <1>2, <1>3

LEMMA RefusedMeans ==
  ASSUME NEW u, NEW name, NEW access, NEW r, NEW found, NEW kinds, Refused(u, name, access, r, found),
         found = 0, access = "call" => Names!Cardinality(kinds) # 1
  PROVE  u.name = name /\ UseMeans(u, found, kinds)
<1>1. u.name = name /\ u.access = access /\ u.resolution = r /\ u.binding = found /\ u.error
  BY DEF Refused, Names!Use
<1>2. UseMeans(u, found, kinds)
  BY <1>1, Zenon DEF UseMeans
<1> QED BY <1>1, <1>2

\* The ways in which a use is resolved.
LEMMA UsesResolved ==
  ASSUME scopes \in Seq(Scopes), functionNames \cap Intrinsics = {}, NEW name
  PROVE  /\ Means(Names!ValueUse(name), name) /\ Means(Names!CallUse(name), name)
         /\ Means(Names!MemberCallUse(name), name)
         /\ \A access : access # "call" => Means(Names!BindingUse(name, access), name)
<1> DEFINE found == Found(scopes, name)
           kinds == Names!Callables(name)
<1>1. Names!Lookup(name) = found /\ Names!None = 0
  BY LookupIs DEF Names!None
<1>2. \A u : u.name = name /\ UseMeans(u, found, kinds) => Means(u, name)
  BY DEF Means
<1>3. /\ \A k : k \in kinds <=>
                 \/ k = "function" /\ Names!IsFunction(name)
                 \/ k = "intrinsic" /\ name \in Intrinsics
                 \/ k = "constructor" /\ Names!IsType(name)
                 \/ k = "error constructor" /\ name = "Error"
      /\ Names!Cardinality(kinds) = 1 <=> \E k : kinds = {k}
  BY OneElement DEF Names!Callables
<1>4. ~(Names!IsFunction(name) /\ name \in Intrinsics)
  BY DEF Names!IsFunction
<1> HIDE DEF found, kinds
<1>5. ASSUME found # 0
      PROVE  /\ Means(Names!ValueUse(name), name) /\ Means(Names!CallUse(name), name)
             /\ Means(Names!MemberCallUse(name), name)
             /\ \A access : Means(Names!BindingUse(name, access), name)
  <2>1. ASSUME NEW a PROVE Means(Names!BindingUse(name, a), name)
    <3>1. PICK u : u = Names!BindingUse(name, a)
      OBVIOUS
    <3>2. PICK r : r = "binding"
      OBVIOUS
    <3>3. Accepted(u, name, a, r, found)
      BY <1>1, <1>5, <3>1, <3>2 DEF Accepted, Names!BindingUse
    <3>4. u.name = name /\ UseMeans(u, found, kinds)
      BY <1>5, <3>3, AcceptedMeans
    <3> QED BY <1>2, <3>1, <3>4
  <2>2. Names!ValueUse(name) = Names!BindingUse(name, "read")
    BY <1>1, <1>5 DEF Names!ValueUse
  <2>3. Names!CallUse(name) = Names!BindingUse(name, "call")
    BY <1>1, <1>5 DEF Names!CallUse
  <2>4. Names!MemberCallUse(name) = Names!ValueUse(name)
    BY <1>1, <1>5 DEF Names!MemberCallUse
  <2> QED BY <2>1, <2>2, <2>3, <2>4
<1>6. ASSUME found = 0, NEW u, NEW access, NEW r, access # "call", u = Names!Use(name, access, r, 0, TRUE)
      PROVE  Means(u, name)
  <2>1. Refused(u, name, access, r, found)
    BY <1>6 DEF Refused
  <2>2. u.name = name /\ UseMeans(u, found, kinds)
    BY <1>6, <2>1, RefusedMeans
  <2> QED BY <1>2, <2>2
<1>7. ASSUME found = 0, NEW access, access # "call" PROVE Means(Names!BindingUse(name, access), name)
  <2>1. Names!BindingUse(name, access) = Names!Use(name, access, "unknown", 0, TRUE)
    BY <1>1, <1>7 DEF Names!BindingUse
  <2> QED BY <1>6, <1>7, <2>1
<1>8. ASSUME found = 0 PROVE Means(Names!ValueUse(name), name)
  <2>1. CASE Names!IsFunction(name)
    <3>1. Names!ValueUse(name) = Names!Use(name, "read", "function", 0, TRUE)
      BY <1>1, <1>8, <2>1 DEF Names!ValueUse
    <3> QED BY <1>6, <1>8, <3>1
  <2>2. CASE ~Names!IsFunction(name) /\ name \in Intrinsics
    <3>1. Names!ValueUse(name) = Names!Use(name, "read", "intrinsic", 0, TRUE)
      BY <1>1, <1>8, <2>2 DEF Names!ValueUse
    <3> QED BY <1>6, <1>8, <3>1
  <2>3. CASE ~Names!IsFunction(name) /\ name \notin Intrinsics
    <3>1. Names!ValueUse(name) = Names!BindingUse(name, "read")
      BY <1>1, <1>8, <2>3 DEF Names!ValueUse
    <3> QED BY <1>7, <1>8, <3>1
  <2> QED BY <2>1, <2>2, <2>3
<1>9. ASSUME found = 0, NEW u, NEW r, u = Names!Use(name, "call", r, 0, FALSE), r \in kinds,
             r = "constructor" \/ \E k : kinds = {k}
      PROVE  Means(u, name)
  <2>1. PICK access : access = "call"
    OBVIOUS
  <2>2. Accepted(u, name, access, r, found)
    BY <1>9, <2>1 DEF Accepted
  <2>3. u.name = name /\ UseMeans(u, found, kinds)
    BY <1>3, <1>9, <2>1, <2>2, AcceptedMeans
  <2> QED BY <1>2, <2>3
<1>10. ASSUME found = 0, NEW u, NEW r, u = Names!Use(name, "call", r, 0, TRUE), ~ \E k : kinds = {k}
       PROVE  Means(u, name)
  <2>1. PICK access : access = "call"
    OBVIOUS
  <2>2. Refused(u, name, access, r, found)
    BY <1>10, <2>1 DEF Refused
  <2>3. u.name = name /\ UseMeans(u, found, kinds)
    BY <1>3, <1>10, <2>2, RefusedMeans
  <2> QED BY <1>2, <2>3
<1>11. ASSUME found = 0 PROVE Means(Names!MemberCallUse(name), name)
  <2>1. CASE Names!IsType(name)
    <3>1. Names!MemberCallUse(name) = Names!Use(name, "call", "constructor", 0, FALSE)
      BY <1>1, <1>11, <2>1 DEF Names!MemberCallUse
    <3>2. "constructor" \in kinds
      BY <1>3, <2>1
    <3> QED BY <1>9, <1>11, <3>1, <3>2
  <2>2. CASE ~Names!IsType(name)
    <3>1. Names!MemberCallUse(name) = Names!ValueUse(name)
      BY <1>1, <1>11, <2>2 DEF Names!MemberCallUse
    <3> QED BY <1>8, <1>11, <3>1
  <2> QED BY <2>1, <2>2
<1>12. ASSUME found = 0 PROVE Means(Names!CallUse(name), name)
  <2> DEFINE called == Names!CallableByName(name)
  <2>1. ASSUME NEW k, NEW l, k \in kinds, l \in kinds, k # l PROVE ~ \E q : kinds = {q}
    BY <2>1
  <2>2. CASE (Names!IsFunction(name) \/ name \in Intrinsics) /\ Names!IsType(name)
    <3>1. called = "ambiguous"
      BY <2>2 DEF Names!CallableByName
    <3>2. ~ \E q : kinds = {q}
      <4>1. "constructor" \in kinds /\ ("function" \in kinds \/ "intrinsic" \in kinds)
        BY <1>3, <2>2
      <4> QED BY <2>1, <4>1
    <3>3. CASE name = "Error"
      <4>1. Names!CallUse(name) = Names!Use(name, "call", "ambiguous error constructor", 0, TRUE)
        BY <1>1, <1>12, <3>1, <3>3 DEF Names!CallUse
      <4> QED BY <1>10, <1>12, <3>2, <4>1
    <3>4. CASE name # "Error"
      <4>1. Names!CallUse(name) = Names!Use(name, "call", "ambiguous", 0, TRUE)
        BY <1>1, <1>12, <3>1, <3>4 DEF Names!CallUse
      <4> QED BY <1>10, <1>12, <3>2, <4>1
    <3> QED BY <3>3, <3>4
  <2>3. CASE ~Names!IsFunction(name) /\ name \notin Intrinsics /\ ~Names!IsType(name)
    <3>1. called = "unknown"
      BY <2>3 DEF Names!CallableByName
    <3>2. CASE name = "Error"
      <4>1. Names!CallUse(name) = Names!Use(name, "call", "error constructor", 0, FALSE)
        BY <1>1, <1>12, <3>1, <3>2 DEF Names!CallUse
      <4>2. \A x_ : x_ \in kinds <=> x_ = "error constructor"
        BY <1>3, <2>3, <3>2
      <4>3. kinds = {"error constructor"}
        BY <4>2, Zenon
      <4> QED BY <1>9, <1>12, <4>1, <4>2, <4>3
    <3>3. CASE name # "Error"
      <4>1. Names!CallUse(name) = Names!Use(name, "call", "unknown", 0, TRUE)
        BY <1>1, <1>12, <3>1, <3>3 DEF Names!CallUse
      <4>2. \A x_ : x_ \notin kinds
        BY <1>3, <2>3, <3>3
      <4>3. ~ \E q : kinds = {q}
        BY <4>2
      <4> QED BY <1>10, <1>12, <4>1, <4>3
    <3> QED BY <3>2, <3>3
  <2>4. ASSUME NEW k, k \in {"function", "intrinsic", "constructor"}, called = k, k \in kinds,
               \A l \in {"function", "intrinsic", "constructor"} : l \in kinds => l = k
        PROVE  Means(Names!CallUse(name), name)
    <3>1. CASE name = "Error"
      <4>1. Names!CallUse(name) = Names!Use(name, "call", "ambiguous error constructor", 0, TRUE)
        BY <1>1, <1>12, <2>4, <3>1 DEF Names!CallUse
      <4>2. "error constructor" \in kinds /\ k # "error constructor"
        BY <1>3, <2>4, <3>1
      <4>3. ~ \E q : kinds = {q}
        BY <2>1, <2>4, <4>2
      <4> QED BY <1>10, <1>12, <4>1, <4>3
    <3>2. CASE name # "Error"
      <4>1. Names!CallUse(name) = Names!Use(name, "call", k, 0, FALSE)
        <5>1. k # "unknown" /\ k # "ambiguous" /\ called = k
          BY <2>4
        <5>2. Names!CallUse(name) = Names!Use(name, "call", called, 0, called \in {"ambiguous", "unknown"})
          BY <1>1, <1>12, <3>2, <5>1 DEF Names!CallUse
        <5>3. (called \in {"ambiguous", "unknown"}) = FALSE
          BY <5>1
        <5> QED BY <5>1, <5>2, <5>3
      <4>2. \A x_ : x_ \in kinds <=> x_ = k
        <5>1. ASSUME NEW x_, x_ \in kinds PROVE x_ = k
          <6>1. x_ \in {"function", "intrinsic", "constructor"}
            BY <1>3, <3>2, <5>1
          <6> QED BY <2>4, <5>1, <6>1
        <5> QED BY <2>4, <5>1
      <4>3. kinds = {k}
        BY <4>2, Zenon
      <4> QED BY <1>9, <1>12, <2>4, <4>1, <4>3
    <3> QED BY <3>1, <3>2
  <2>5. CASE Names!IsFunction(name) /\ ~Names!IsType(name)
    <3>1. called = "function"
      BY <2>5 DEF Names!CallableByName
    <3>2. "function" \in kinds /\ "intrinsic" \notin kinds /\ "constructor" \notin kinds
      BY <1>3, <1>4, <2>5
    <3> QED BY <2>4, <3>1, <3>2
  <2>6. CASE ~Names!IsFunction(name) /\ name \in Intrinsics /\ ~Names!IsType(name)
    <3>1. called = "intrinsic"
      BY <2>6 DEF Names!CallableByName
    <3>2. "intrinsic" \in kinds /\ "function" \notin kinds /\ "constructor" \notin kinds
      BY <1>3, <2>6
    <3> QED BY <2>4, <3>1, <3>2
  <2>7. CASE ~Names!IsFunction(name) /\ name \notin Intrinsics /\ Names!IsType(name)
    <3>1. called = "constructor"
      BY <2>7 DEF Names!CallableByName
    <3>2. "constructor" \in kinds /\ "function" \notin kinds /\ "intrinsic" \notin kinds
      BY <1>3, <2>7
    <3> QED BY <2>4, <3>1, <3>2
  <2> QED BY <2>2, <2>3, <2>5, <2>6, <2>7
<1> QED BY <1>5, <1>7, <1>8, <1>11, <1>12

\* The first declarations are the parameters, each of them if no two have one name.
AllIds ==
  [n \in 1 .. Names!Cardinality(Names!Kept) |->
     CHOOSE i \in Names!Kept : Names!Cardinality({j \in Names!Kept : j <= i}) = n]

LEMMA AllKept ==
  ASSUME NEW L, L \in Nat, Names!Kept = 1 .. L
  PROVE  AllIds = [n \in 1 .. L |-> n]
<1>1. \A S : Names!Cardinality(S) = Cardinality(S)
  BY DEF Names!Cardinality, Cardinality
<1>2. Names!Cardinality(1 .. L) = L
  <2>1. Cardinality(1 .. L) = IF 1 > L THEN 0 ELSE L - 1 + 1
    BY FS_Interval
  <2> QED BY <1>1, <2>1
<1> DEFINE Up(i) == {j \in Names!Kept : j <= i}
<1>3. ASSUME NEW i \in 1 .. L PROVE Names!Cardinality(Up(i)) = i
  <2>1. i \in Nat /\ i >= 1 /\ i <= L
    OBVIOUS
  <2>2. Up(i) = 1 .. i
    BY <2>1
  <2>3. PICK a : a = 1
    OBVIOUS
  <2>4. Cardinality(a .. i) = IF a > i THEN 0 ELSE i - a + 1
    BY <2>1, <2>3, FS_Interval
  <2>5. Cardinality(1 .. i) = i
    BY <2>1, <2>3, <2>4
  <2> HIDE DEF Up
  <2> QED BY <1>1, <2>2, <2>5
<1>4. AllIds = [n \in 1 .. Names!Cardinality(Names!Kept) |->
                  CHOOSE i \in Names!Kept : Names!Cardinality(Up(i)) = n]
  BY DEF AllIds
<1> HIDE DEF Up
<1>5. ASSUME NEW n \in 1 .. L
      PROVE  (CHOOSE i \in 1 .. L : Names!Cardinality(Up(i)) = n) = n
  <2>1. Names!Cardinality(Up(n)) = n
    BY <1>3
  <2>2. \A i \in 1 .. L : Names!Cardinality(Up(i)) = n => i = n
    BY <1>3
  <2> QED BY <2>1, <2>2
<1>6. AllIds = [n \in 1 .. L |-> CHOOSE i \in 1 .. L : Names!Cardinality(Up(i)) = n]
  BY <1>2, <1>4
<1> QED BY <1>5, <1>6

\* What is opened is a construct.
LEMMA ConstructIs ==
  ASSUME NEW c, NEW kind, NEW taken, NEW name, NEW id,
         kind \in ConstructKinds, taken \in BOOLEAN, name \in NameTexts, id \in Nat,
         c = [kind |-> kind, taken |-> taken, used |-> FALSE, name |-> name, id |-> id]
  PROVE  c \in Constructs /\ c.kind = kind /\ (c.taken <=> taken) /\ c.id = id
<1>1. c.kind = kind /\ c.id = id
  OBVIOUS
<1>2. c.taken <=> taken
  BY Zenon
<1>3. FALSE \in BOOLEAN
  OBVIOUS
<1>4. c \in Constructs
  BY <1>3, Zenon DEF Constructs
<1> QED BY <1>1, <1>2, <1>4

LEMMA DeclaredIs ==
  ASSUME NEW d, NEW name, NEW owner, NEW conditional, name \in NameTexts, owner \in Nat, conditional \in BOOLEAN,
         d = [name |-> name, owner |-> owner, conditional |-> conditional]
  PROVE  d \in Declared /\ d.name = name /\ d.owner = owner /\ (d.conditional <=> conditional)
<1>1. d.name = name /\ d.owner = owner
  OBVIOUS
<1>2. d.conditional <=> conditional
  BY Zenon
<1>3. d \in Declared
  BY Zenon DEF Declared
<1> QED BY <1>1, <1>2, <1>3

LEMMA ScopeIs ==
  ASSUME NEW s, NEW es, NEW locals, es \in Seq(NameTexts \X Nat), locals \in BOOLEAN,
         s = [bindings |-> es, acceptsLocals |-> locals]
  PROVE  s \in Scopes /\ s.bindings = es /\ (s.acceptsLocals <=> locals)
<1>1. s.bindings = es
  OBVIOUS
<1>2. s.acceptsLocals <=> locals
  BY Zenon
<1>3. s \in Scopes
  BY Zenon DEF Scopes
<1> QED BY <1>1, <1>2, <1>3

\* The function and its body.
FirstConstruct(kind, id) == [Names!Construct(kind, TRUE, "") EXCEPT !.id = id]

LEMMA FirstOpened ==
  ASSUME NEW F, NEW B, NEW cs, cs = <<F, B>>,
         F \in Constructs, B \in Constructs, F.kind = "function", B.kind = "block", F.id = 1, B.id = 2
  PROVE  cs \in Seq(Constructs) /\ Len(cs) = 2 /\ cs[1] = F /\ cs[2] = B /\ OpenRight(cs, 2)
<1>1. cs \in Seq(Constructs) /\ Len(cs) = 2 /\ cs[1] = F /\ cs[2] = B
  OBVIOUS
<1>2. PICK n : n = 2
  OBVIOUS
<1>3. \A i \in 1 .. Len(cs) : i = 1 \/ i = 2
  BY <1>1
<1>4. ASSUME NEW i \in 1 .. Len(cs)
      PROVE  /\ cs[i].id \in 1 .. n
             /\ cs[i].kind = "function" <=> i = 1
             /\ i = 2 => cs[i].kind = "block"
             /\ cs[i].kind = "local" => cs[i].taken
  <2>1. CASE i = 1
    BY <1>1, <1>2, <2>1
  <2>2. CASE i = 2
    BY <1>1, <1>2, <2>2
  <2> QED BY <1>3, <2>1, <2>2
<1>5. ASSUME NEW i \in 1 .. Len(cs), NEW j \in 1 .. Len(cs), i < j PROVE cs[i].id < cs[j].id
  <2>1. i = 1 /\ j = 2
    BY <1>3, <1>5
  <2> QED BY <1>1, <2>1
<1>6. OpenRight(cs, n)
  BY <1>1, <1>2, <1>4, <1>5 DEF OpenRight
<1> QED BY <1>1, <1>2, <1>6

\* Their scopes.
LEMMA FirstScopes ==
  ASSUME NEW cs, NEW ss, NEW s, NEW t, NEW F, NEW B, NEW bs, ss = <<s, t>>,
         Len(cs) = 2, cs[1] = F, cs[2] = B, F.kind = "function", B.kind = "block",
         s \in Scopes, t \in Scopes, ScopeRight(s, F, bs), ScopeRight(t, B, bs)
  PROVE  ScopesRight(ss, cs, bs)
<1>1. ss \in Seq(Scopes) /\ Len(ss) = 2 /\ ss[1] = s /\ ss[2] = t
  OBVIOUS
<1>2. PICK m : m = [k \in 1 .. 2 |-> k]
  OBVIOUS
<1>3. m \in [1 .. 2 -> 1 .. 2] /\ m[1] = 1 /\ m[2] = 2
  BY <1>2
<1>4. \A i \in 1 .. 2 : i = 1 \/ i = 2
  OBVIOUS
<1>5. 1 \in 1 .. 2 /\ 2 \in 1 .. 2
  OBVIOUS
<1>6. m \in [1 .. Len(ss) -> 1 .. Len(cs)]
  BY <1>1, <1>3
<1>7. \A k, l \in 1 .. Len(ss) : k < l => m[k] < m[l]
  BY <1>1, <1>3, <1>4
<1>8. F.kind \in Opening /\ B.kind \in Opening
  BY DEF Opening
<1>9. ASSUME NEW i \in 1 .. Len(cs) PROVE cs[i].kind \in Opening <=> \E k \in 1 .. Len(ss) : m[k] = i
  <2>1. i \in 1 .. 2 /\ (i = 1 \/ i = 2)
    BY <1>4
  <2>2. cs[i].kind \in Opening
    BY <1>8, <2>1
  <2>3. m[i] = i /\ i \in 1 .. Len(ss)
    BY <1>1, <1>3, <2>1
  <2> QED BY <2>2, <2>3
<1>10. LevelsRight(ss, cs, m)
  BY <1>1, <1>6, <1>7, <1>9 DEF LevelsRight
<1>11. ASSUME NEW k \in 1 .. Len(ss) PROVE ScopeRight(ss[k], cs[m[k]], bs)
  <2>1. k = 1 \/ k = 2
    BY <1>1, <1>4
  <2>2. CASE k = 1
    <3>1. ss[k] = s /\ cs[m[k]] = F
      BY <1>1, <1>3, <2>2
    <3> QED BY <3>1
  <2>3. CASE k = 2
    <3>1. ss[k] = t /\ cs[m[k]] = B
      BY <1>1, <1>3, <2>3
    <3> QED BY <3>1
  <2> QED BY <2>1, <2>2, <2>3
<1> QED BY <1>10, <1>11 DEF ScopesRight, ScopesAt

LEMMA EnterStep == NamesInv /\ Names!EnterFunction => NamesInv'
<1> SUFFICES ASSUME NamesInv, Names!EnterFunction PROVE NamesInv'
  OBVIOUS
<1>1. /\ collected = Len(declarations) /\ collected' = collected + 1
      /\ declarations' = declarations /\ parameters' = parameters /\ functionNames' = functionNames
      /\ lastUse' = lastUse /\ opened' = 2
      /\ bindings' = [i \in DOMAIN parameters |-> [name |-> parameters[i], owner |-> 1, conditional |-> FALSE]]
      /\ initialized' = DOMAIN parameters
      /\ scopes' = <<Names!Lexical([n \in DOMAIN AllIds |-> <<parameters[AllIds[n]], AllIds[n]>>]),
                     Names!Lexical(<<>>)>>
      /\ reported' = reported \cup (IF Names!Kept # DOMAIN parameters THEN {"duplicate"} ELSE {})
  BY DEF Names!EnterFunction, AllIds
<1>2. PICK F : F = [Names!Construct("function", TRUE, "") EXCEPT !.id = 1]
  OBVIOUS
<1>3. PICK B : B = [Names!Construct("block", TRUE, "") EXCEPT !.id = 2]
  OBVIOUS
<1>4. PICK cs : cs = <<F, B>>
  OBVIOUS
<1>5. open' = cs
  BY <1>2, <1>3, <1>4 DEF Names!EnterFunction
<1>6. PICK L : L = Len(parameters)
  OBVIOUS
<1>7. lastUse = Names!NoUse /\ Len(declarations) \in Nat /\ parameters \in Seq(Identifiers)
      /\ functionNames \cap Intrinsics = {} /\ L \in Nat /\ DOMAIN parameters = 1 .. L
  BY <1>1, <1>6 DEF NamesInv
<1>8. ASSUME NEW c, NEW kind, NEW id, kind \in {"function", "block"}, id \in {1, 2},
             c = FirstConstruct(kind, id)
      PROVE  c \in Constructs /\ c.kind = kind /\ c.id = id
  <2>1. PICK taken : taken = TRUE
    OBVIOUS
  <2>2. PICK name : name = ""
    OBVIOUS
  <2>3. c = [kind |-> kind, taken |-> taken, used |-> FALSE, name |-> name, id |-> id]
    <3>1. PICK count : count = opened + 1
      OBVIOUS
    <3>2. PICK d : d = [kind |-> kind, taken |-> taken, used |-> FALSE, name |-> name, id |-> count]
      OBVIOUS
    <3>3. d = Names!Construct(kind, TRUE, "")
      BY <2>1, <2>2, <3>1, <3>2 DEF Names!Construct
    <3>4. c = [d EXCEPT !.id = id]
      BY <1>8, <3>3 DEF FirstConstruct
    <3> QED BY <3>2, <3>4
  <2>4. taken \in BOOLEAN
    BY <2>1
  <2>5. kind \in ConstructKinds
    BY <1>8 DEF ConstructKinds, Opening
  <2>6. name \in NameTexts
    BY <2>2 DEF NameTexts
  <2>7. id \in Nat
    <3>1. id = 1 \/ id = 2
      BY <1>8, Zenon
    <3> QED BY ONLY <3>1
  <2> QED BY <2>3, <2>4, <2>5, <2>6, <2>7, ConstructIs
<1>9. F \in Constructs /\ F.kind = "function" /\ F.id = 1 /\ B \in Constructs /\ B.kind = "block" /\ B.id = 2
  <2>1. F \in Constructs /\ F.kind = "function" /\ F.id = 1
    <3>1. PICK kind : kind = "function"
      OBVIOUS
    <3>2. PICK id : id = 1
      OBVIOUS
    <3>3. kind \in {"function", "block"} /\ id \in {1, 2}
      BY <3>1, <3>2
    <3>4. F = FirstConstruct(kind, id)
      BY <1>2, <3>1, <3>2 DEF FirstConstruct
    <3>5. F \in Constructs /\ F.kind = kind /\ F.id = id
      BY ONLY <1>8, <3>3, <3>4
    <3> QED BY <3>1, <3>2, <3>5
  <2>2. B \in Constructs /\ B.kind = "block" /\ B.id = 2
    <3>1. PICK kind : kind = "block"
      OBVIOUS
    <3>2. PICK id : id = 2
      OBVIOUS
    <3>3. kind \in {"function", "block"} /\ id \in {1, 2}
      BY <3>1, <3>2
    <3>4. B = FirstConstruct(kind, id)
      BY <1>3, <3>1, <3>2 DEF FirstConstruct
    <3>5. B \in Constructs /\ B.kind = kind /\ B.id = id
      BY ONLY <1>8, <3>3, <3>4
    <3> QED BY <3>1, <3>2, <3>5
  <2> QED BY <2>1, <2>2
<1>10. cs \in Seq(Constructs) /\ Len(cs) = 2 /\ cs[1] = F /\ cs[2] = B /\ OpenRight(cs, 2)
  BY <1>4, <1>9, FirstOpened
<1>11. PICK bs : bs = bindings'
  OBVIOUS
<1>12. ASSUME NEW i \in 1 .. L, NEW d, d = [name |-> parameters[i], owner |-> 1, conditional |-> FALSE]
       PROVE  d \in Declared /\ d.name = parameters[i] /\ d.owner = 1 /\ ~d.conditional
  <2>1. PICK name : name = parameters[i]
    OBVIOUS
  <2>2. PICK owner : owner = 1
    OBVIOUS
  <2>3. PICK conditional : conditional = FALSE
    OBVIOUS
  <2>4. name \in NameTexts
    <3>1. name \in Identifiers
      BY <1>6, <1>7, <2>1
    <3> QED BY <3>1 DEF NameTexts
  <2>5. d = [name |-> name, owner |-> owner, conditional |-> conditional]
    BY <1>12, <2>1, <2>2, <2>3
  <2>6. owner \in Nat /\ conditional \in BOOLEAN
    BY <2>2, <2>3
  <2>7. d \in Declared /\ d.name = name /\ d.owner = owner /\ (d.conditional <=> conditional)
    BY <2>4, <2>5, <2>6, DeclaredIs
  <2> QED BY <2>1, <2>2, <2>3, <2>7
<1>13. /\ bs \in Seq(Declared) /\ Len(bs) = L
       /\ \A i \in 1 .. L : bs[i] \in Declared /\ bs[i].name = parameters[i] /\ bs[i].owner = 1 /\ ~bs[i].conditional
  <2>1. bs = [i \in 1 .. L |-> [name |-> parameters[i], owner |-> 1, conditional |-> FALSE]]
    BY <1>1, <1>7, <1>11
  <2>2. ASSUME NEW i \in 1 .. L
        PROVE  bs[i] \in Declared /\ bs[i].name = parameters[i] /\ bs[i].owner = 1 /\ ~bs[i].conditional
    <3>1. PICK d : d = [name |-> parameters[i], owner |-> 1, conditional |-> FALSE]
      OBVIOUS
    <3>2. bs[i] = d
      BY <2>1, <3>1
    <3> QED BY <1>12, <3>1, <3>2
  <2>3. DOMAIN bs = 1 .. L /\ bs = [i \in 1 .. L |-> bs[i]]
    BY <2>1
  <2>4. bs \in [1 .. L -> Declared]
    BY <2>2, <2>3
  <2>5. bs \in Seq(Declared) /\ Len(bs) = L
    BY <1>7, <2>4
  <2> QED BY <2>2, <2>5
<1>14. OwnersRight(bs, cs, 2)
  <2>1. \A b \in 1 .. Len(bs) : bs[b].owner = 1
    BY <1>13
  <2>2. \A i \in 1 .. Len(cs) : cs[i].kind \in Opening
    <3>1. \A i \in 1 .. Len(cs) : i = 1 \/ i = 2
      BY <1>10
    <3> QED BY <1>9, <1>10, <3>1 DEF Opening
  <2>3. PICK two : two = 2
    OBVIOUS
  <2>4. OwnersRight(bs, cs, two)
    BY <1>13, <2>1, <2>2, <2>3 DEF OwnersRight
  <2> QED BY <2>3, <2>4
<1>15. ValuesRight(bs, cs, 1 .. L)
  BY <1>13 DEF ValuesRight
<1>16. ASSUME "duplicate" \notin reported' PROVE ScopesRight(scopes', cs, bs)
  <2>1. Names!Kept = 1 .. L
    BY <1>1, <1>7, <1>16
  <2>2. AllIds = [n \in 1 .. L |-> n]
    BY <1>7, <2>1, AllKept
  <2>3. PICK es : es = [n \in DOMAIN AllIds |-> <<parameters[AllIds[n]], AllIds[n]>>]
    OBVIOUS
  <2>4. es = [n \in 1 .. L |-> <<parameters[n], n>>]
    BY <2>2, <2>3
  <2>5. ASSUME NEW n \in 1 .. L PROVE es[n] \in NameTexts \X Nat /\ es[n][1] = parameters[n] /\ es[n][2] = n
    <3>1. es[n] = <<parameters[n], n>>
      BY <2>4
    <3>2. parameters[n] \in NameTexts
      <4>1. parameters[n] \in Identifiers
        BY <1>6, <1>7
      <4> QED BY <4>1 DEF NameTexts
    <3>3. n \in Nat
      OBVIOUS
    <3> QED BY <3>1, <3>2, <3>3
  <2>6. es \in Seq(NameTexts \X Nat) /\ Len(es) = L
    <3>1. es \in [1 .. L -> NameTexts \X Nat]
      BY <2>4, <2>5
    <3> QED BY <1>7, <3>1
  <2>7. PICK none : none = <<>>
    OBVIOUS
  <2>8. none \in Seq(NameTexts \X Nat) /\ Len(none) = 0
    BY <2>7
  <2>9. PICK yes : yes = TRUE
    OBVIOUS
  <2>10. PICK s : s = [bindings |-> es, acceptsLocals |-> yes]
    OBVIOUS
  <2>11. PICK t : t = [bindings |-> none, acceptsLocals |-> yes]
    OBVIOUS
  <2>12. PICK ss : ss = <<s, t>>
    OBVIOUS
  <2>13. scopes' = ss
    BY <1>1, <2>3, <2>7, <2>9, <2>10, <2>11, <2>12 DEF Names!Lexical
  <2>14. yes \in BOOLEAN /\ yes
    BY <2>9
  <2>15. s \in Scopes /\ s.bindings = es /\ (s.acceptsLocals <=> yes)
    BY <2>6, <2>10, <2>14, ScopeIs
  <2>16. t \in Scopes /\ t.bindings = none /\ (t.acceptsLocals <=> yes)
    BY <2>8, <2>11, <2>14, ScopeIs
  <2>17. ScopeRight(s, F, bs)
    <3>1. s.acceptsLocals <=> F.kind # "loop"
      BY <1>9, <2>14, <2>15
    <3>2. \A e \in 1 .. Len(s.bindings) :
            /\ s.bindings[e][2] \in 1 .. Len(bs)
            /\ bs[s.bindings[e][2]].name = s.bindings[e][1] /\ bs[s.bindings[e][2]].owner = F.id
      BY <1>9, <1>13, <2>5, <2>6, <2>15
    <3>3. \A e, f \in 1 .. Len(s.bindings) : e < f => s.bindings[e][2] < s.bindings[f][2]
      BY <2>5, <2>6, <2>15
    <3>4. \A b \in 1 .. Len(bs) :
            bs[b].owner = F.id => \E e \in 1 .. Len(s.bindings) : s.bindings[e][2] = b
      BY <1>13, <2>5, <2>6, <2>15
    <3> QED BY <3>1, <3>2, <3>3, <3>4, Zenon DEF ScopeRight
  <2>18. ScopeRight(t, B, bs)
    <3>1. t.acceptsLocals <=> B.kind # "loop"
      BY <1>9, <2>14, <2>16
    <3>2. \A b \in 1 .. Len(bs) : bs[b].owner # B.id
      BY <1>9, <1>13
    <3>3. \A e \in 1 .. Len(t.bindings) : FALSE
      BY <2>8, <2>16
    <3> QED BY <3>1, <3>2, <3>3, Zenon DEF ScopeRight
  <2>19. ScopesRight(ss, cs, bs)
    BY <1>9, <1>10, <2>12, <2>15, <2>16, <2>17, <2>18, FirstScopes
  <2> QED BY <2>13, <2>19
<1>17. UseRight'
  BY <1>1, <1>7 DEF UseRight
<1>18. BodyRight'
  <2>1. bindings' = bs /\ opened' = 2 /\ initialized' = 1 .. L
    BY <1>1, <1>7, <1>11
  <2>2. Len(cs) >= 2 /\ Len(cs) \in Nat
    BY <1>10
  <2> QED BY <1>5, <1>10, <1>14, <1>15, <1>16, <1>17, <2>1, <2>2 DEF BodyRight
<1> QED BY <1>1, <1>7, <1>18 DEF NamesInv

LEMMA CollectStep == NamesInv /\ Names!CollectDeclaration => NamesInv'
<1> SUFFICES ASSUME NamesInv, Names!CollectDeclaration PROVE NamesInv'
  OBVIOUS
<1>1. /\ collected < Len(declarations) /\ collected' = collected + 1
      /\ declarations' = declarations /\ parameters' = parameters /\ lastUse' = lastUse
  BY DEF Names!CollectDeclaration
<1>2. functionNames' \cap Intrinsics = {}
  <2>1. functionNames \cap Intrinsics = {}
    BY DEF NamesInv
  <2>2. \/ functionNames' = functionNames
        \/ \E name : name \notin Intrinsics /\ functionNames' = functionNames \cup {name}
    BY DEF Names!CollectDeclaration
  <2> QED BY <2>1, <2>2
<1>3. Len(declarations) \in Nat /\ collected \in Nat /\ parameters \in Seq(Identifiers)
      /\ lastUse = Names!NoUse
  BY <1>1 DEF NamesInv
<1>4. ~Names!InBody'
  BY <1>1, <1>3 DEF Names!InBody
<1> QED BY <1>1, <1>2, <1>3, <1>4 DEF NamesInv

\* The steps in the body leave the rest as it is.
Onward ==
  /\ Names!InBody /\ UNCHANGED <<declarations, parameters, collected, typeNames, functionNames>>
  /\ reported \subseteq reported'

LEMMA OnwardRight ==
  ASSUME NamesInv, Onward, BodyRight'
  PROVE  NamesInv'
<1>1. ~(collected' <= Len(declarations'))
  BY DEF NamesInv, Onward, Names!InBody
<1> QED BY <1>1 DEF NamesInv, Onward

\* Using the construct on top, or naming the body that is taken, changes nothing else.
LEMMA TopChanged ==
  ASSUME NEW cs, NEW c, NEW ds, cs \in Seq(Constructs), Len(cs) >= 1, c \in Constructs,
         c.kind = cs[Len(cs)].kind, c.id = cs[Len(cs)].id, c.taken = cs[Len(cs)].taken,
         ds = [cs EXCEPT ![Len(cs)] = c]
  PROVE  Alike(cs, ds)
<1>1. Len(cs) \in Nat /\ Len(cs) \in 1 .. Len(cs)
  OBVIOUS
<1>2. /\ ds \in Seq(Constructs) /\ Len(ds) = Len(cs) /\ ds[Len(cs)] = c
      /\ \A i \in 1 .. Len(cs) : i # Len(cs) => ds[i] = cs[i]
  BY <1>1
<1>3. \A i \in 1 .. Len(cs) : ds[i].kind = cs[i].kind /\ ds[i].id = cs[i].id /\ ds[i].taken = cs[i].taken
  BY <1>2
<1> QED BY <1>2, <1>3 DEF Alike

LEMMA UsedAlike ==
  ASSUME NEW cs, cs = Names!Used, open \in Seq(Constructs), Len(open) >= 1
  PROVE  Alike(open, cs)
<1>1. PICK top : top = open[Len(open)]
  OBVIOUS
<1>2. PICK c : c = [top EXCEPT !.used = TRUE]
  OBVIOUS
<1>3. top \in Constructs
  BY <1>1
<1>4. c \in Constructs /\ c.kind = top.kind /\ c.id = top.id /\ c.taken = top.taken
  BY <1>2, <1>3 DEF Constructs
<1>5. cs = [open EXCEPT ![Len(open)] = c]
  BY <1>1, <1>2 DEF Names!Used
<1> QED BY <1>1, <1>4, <1>5, TopChanged

\* A name was used.
LEMMA UsedRight ==
  ASSUME NamesInv, Onward, NEW use, NEW name, open' = Names!Used,
         UNCHANGED <<scopes, bindings, opened, initialized>>, lastUse' = use,
         "duplicate" \notin reported => Means(use, name)
  PROVE  BodyRight'
<1>1. BodyRight
  BY DEF NamesInv, Onward
<1>2. PICK cs : cs = Names!Used
  OBVIOUS
<1>3. Alike(open, cs) /\ Len(cs) >= 2 /\ Len(cs) \in Nat
  <2>1. open \in Seq(Constructs) /\ Len(open) >= 2 /\ Len(open) \in Nat
    BY <1>1 DEF BodyRight, OpenRight
  <2>2. Alike(open, cs)
    BY <1>2, <2>1, UsedAlike
  <2> QED BY <2>1, <2>2 DEF Alike
<1>4. /\ OpenRight(open, opened) /\ OwnersRight(bindings, open, opened)
      /\ ValuesRight(bindings, open, initialized)
  BY <1>1 DEF BodyRight
<1>5. OpenRight(cs, opened) /\ OwnersRight(bindings, cs, opened) /\ ValuesRight(bindings, cs, initialized)
  BY <1>3, <1>4, AlikeRight
<1>6. ASSUME "duplicate" \notin reported' PROVE ScopesRight(scopes, cs, bindings) /\ UseRight'
  <2>1. "duplicate" \notin reported
    BY <1>6 DEF Onward
  <2>2. ScopesRight(scopes, open, bindings)
    BY <1>1, <2>1 DEF BodyRight
  <2>3. ScopesRight(scopes, cs, bindings)
    BY <1>3, <2>2, AlikeScopes
  <2>4. use.name = name /\ UseMeans(use, Found(scopes, name), Names!Callables(name))
    BY <2>1 DEF Means
  <2>5. (Names!Callables(lastUse.name))' = Names!Callables(name)
    BY <2>4 DEF Onward, Names!Callables, Names!IsFunction, Names!IsType
  <2>6. (Found(scopes, lastUse.name))' = Found(scopes, name)
    BY <2>4
  <2>7. UseRight'
    BY <2>4, <2>5, <2>6 DEF UseRight
  <2> QED BY <2>3, <2>7
<1>7. open' = cs
  BY <1>2
<1> QED BY <1>3, <1>5, <1>6, <1>7 DEF BodyRight

\* Something was opened, with a scope of its own if it is a block.
LEMMA OpenedStep ==
  ASSUME NamesInv, Onward, NEW cs, Alike(open, cs), NEW kind, NEW taken, NEW name,
         kind \in ConstructKinds \ {"function", "loop"}, taken \in BOOLEAN, name \in NameTexts,
         kind = "local" => taken,
         open' = Append(cs, Names!Construct(kind, taken, name)), opened' = opened + 1,
         UNCHANGED <<bindings, initialized>>, lastUse' = Names!NoUse,
         scopes' = IF kind = "block" THEN Append(scopes, Names!Lexical(<<>>)) ELSE scopes
  PROVE  BodyRight'
<1>1. BodyRight
  BY DEF NamesInv, Onward
<1>2. /\ OpenRight(open, opened) /\ OwnersRight(bindings, open, opened)
      /\ ValuesRight(bindings, open, initialized)
  BY <1>1 DEF BodyRight
<1>3. Len(open) \in Nat /\ Len(open) >= 2 /\ opened \in Nat
  BY <1>1 DEF BodyRight, OpenRight
<1>4. OpenRight(cs, opened) /\ OwnersRight(bindings, cs, opened) /\ ValuesRight(bindings, cs, initialized)
  BY <1>2, AlikeRight
<1>5. Len(cs) >= 2
  BY <1>3 DEF Alike
<1>6. PICK d : d = Names!Construct(kind, taken, name)
  OBVIOUS
<1>7. d \in Constructs /\ d.kind = kind /\ (d.taken <=> taken) /\ d.id = opened + 1
  <2>1. PICK id : id = opened + 1
    OBVIOUS
  <2>2. d = [kind |-> kind, taken |-> taken, used |-> FALSE, name |-> name, id |-> id]
    BY <1>6, <2>1 DEF Names!Construct
  <2>3. kind \in ConstructKinds /\ id \in Nat
    BY <1>3, <2>1
  <2> QED BY <2>1, <2>2, <2>3, ConstructIs
<1>8. PICK ds : ds = Append(cs, d)
  OBVIOUS
<1>9. PICK more : more = opened + 1
  OBVIOUS
<1>10. OwnersRight(bindings, cs, more)
  BY <1>3, <1>4, <1>9 DEF OwnersRight
<1>11. \A b \in 1 .. Len(bindings) : bindings[b].owner # more
  BY <1>3, <1>4, <1>9 DEF OwnersRight
<1>12. Begun(bindings, ds, more, initialized)
  BY <1>11 DEF Begun
<1>13. d.id = more /\ d.kind # "function" /\ (d.kind = "local" => d.taken)
  BY <1>7, <1>9 DEF Opening
<1>14. /\ OpenRight(ds, more) /\ Len(ds) >= 2 /\ Len(ds) \in Nat
       /\ OwnersRight(bindings, ds, more) /\ ValuesRight(bindings, ds, initialized)
  <2>1. PICK count : count = opened
    OBVIOUS
  <2>2. OneMore(cs, d, ds, count, more)
    BY <1>5, <1>7, <1>8, <1>9, <1>13, <2>1 DEF OneMore
  <2>3. /\ OpenRight(cs, count) /\ OwnersRight(bindings, cs, more) /\ ValuesRight(bindings, cs, initialized)
        /\ Begun(bindings, ds, more, initialized)
    BY <1>4, <1>10, <1>12, <2>1
  <2> QED BY ONLY <2>2, <2>3, OpenedRight
<1>15. ASSUME "duplicate" \notin reported' PROVE ScopesRight(scopes', ds, bindings)
  <2>1. "duplicate" \notin reported
    BY <1>15 DEF Onward
  <2>2. ScopesRight(scopes, open, bindings)
    BY <1>1, <2>1 DEF BodyRight
  <2>3. ScopesRight(scopes, cs, bindings)
    BY <2>2, AlikeScopes
  <2>4. /\ d.kind \notin Opening => ScopesRight(scopes, ds, bindings)
        /\ \A s \in Scopes :
             d.kind \in Opening /\ ScopeRight(s, d, bindings) => ScopesRight(Append(scopes, s), ds, bindings)
    BY <1>4, <1>7, <1>8, <2>3, OpenedScopes
  <2>5. CASE kind = "block"
    <3>1. PICK s : s = Names!Lexical(<<>>)
      OBVIOUS
    <3>2. s = [bindings |-> <<>>, acceptsLocals |-> TRUE] /\ <<>> \in Seq(NameTexts \X Nat)
      BY <3>1 DEF Names!Lexical
    <3>3. s \in Scopes /\ s.acceptsLocals /\ Len(s.bindings) = 0
      BY <3>2 DEF Scopes
    <3>4. d.kind # "loop" /\ \A b \in 1 .. Len(bindings) : bindings[b].owner # d.id
      BY <1>7, <1>11, <1>13, <2>5
    <3>5. ScopeRight(s, d, bindings)
      BY <3>3, <3>4 DEF ScopeRight
    <3>6. d.kind \in Opening
      BY <1>7, <2>5 DEF Opening
    <3>7. ScopesRight(Append(scopes, s), ds, bindings)
      BY <2>4, <3>3, <3>5, <3>6
    <3>8. scopes' = Append(scopes, s)
      BY <2>5, <3>1
    <3> QED BY <3>7, <3>8
  <2>6. CASE kind # "block"
    <3>1. d.kind \notin Opening
      BY <1>7, <2>6 DEF Opening
    <3>2. scopes' = scopes
      BY <2>6
    <3> QED BY <2>4, <3>1, <3>2
  <2> QED BY <2>5, <2>6
<1>16. UseRight'
  BY DEF UseRight
<1>17. open' = ds /\ opened' = more
  BY <1>6, <1>8, <1>9
<1> QED BY <1>14, <1>15, <1>16, <1>17 DEF BodyRight

\* Something was closed, and its scope with it.
LEMMA ClosedStep ==
  ASSUME NamesInv, Onward, Len(open) >= 3, open' = Shorter(open),
         UNCHANGED <<bindings, initialized, opened>>, lastUse' = Names!NoUse,
         scopes' = IF open[Len(open)].kind \in Opening THEN Shorter(scopes) ELSE scopes
  PROVE  BodyRight'
<1>1. BodyRight
  BY DEF NamesInv, Onward
<1>2. /\ OpenRight(open, opened) /\ OwnersRight(bindings, open, opened)
      /\ ValuesRight(bindings, open, initialized)
  BY <1>1 DEF BodyRight
<1>3. PICK ds : ds = Shorter(open)
  OBVIOUS
<1>4. /\ OpenRight(ds, opened) /\ Len(ds) >= 2 /\ Len(ds) \in Nat
      /\ OwnersRight(bindings, ds, opened) /\ ValuesRight(bindings, ds, initialized)
  <2>1. PICK cs : cs = open
    OBVIOUS
  <2>2. PICK count : count = opened
    OBVIOUS
  <2>3. PICK bs : bs = bindings
    OBVIOUS
  <2>4. PICK values : values = initialized
    OBVIOUS
  <2>5. /\ ds = Shorter(cs) /\ OpenRight(cs, count) /\ Len(cs) >= 3
        /\ OwnersRight(bs, cs, count) /\ ValuesRight(bs, cs, values)
    BY <1>2, <1>3, <2>1, <2>2, <2>3, <2>4
  <2>6. /\ OpenRight(ds, count) /\ Len(ds) >= 2 /\ Len(ds) \in Nat
        /\ OwnersRight(bs, ds, count) /\ ValuesRight(bs, ds, values)
    BY ONLY <2>5, ClosedRight
  <2> QED BY <2>2, <2>3, <2>4, <2>6
<1>5. ASSUME "duplicate" \notin reported' PROVE ScopesRight(scopes', ds, bindings)
  <2>1. "duplicate" \notin reported
    BY <1>5 DEF Onward
  <2>2. ScopesRight(scopes, open, bindings)
    BY <1>1, <2>1 DEF BodyRight
  <2>3. /\ open[Len(open)].kind \notin Opening => ScopesRight(scopes, ds, bindings)
        /\ open[Len(open)].kind \in Opening => ScopesRight(Shorter(scopes), ds, bindings)
    BY <1>2, <1>3, <2>2, ClosedScopes
  <2>4. CASE open[Len(open)].kind \in Opening
    <3>1. scopes' = Shorter(scopes)
      BY <2>4
    <3> QED BY <2>3, <2>4, <3>1
  <2>5. CASE open[Len(open)].kind \notin Opening
    <3>1. scopes' = scopes
      BY <2>5
    <3> QED BY <2>3, <2>5, <3>1
  <2> QED BY <2>4, <2>5
<1>6. UseRight'
  BY DEF UseRight
<1>7. open' = ds
  BY <1>3
<1> QED BY <1>4, <1>5, <1>6, <1>7 DEF BodyRight

\* A loop was opened, with its variable.
LEMMA ForStep ==
  ASSUME NamesInv, Onward, NEW name \in Identifiers, NEW taken \in BOOLEAN, Names!OpenLoop(name, taken)
  PROVE  BodyRight'
<1>1. BodyRight
  BY DEF NamesInv, Onward
<1>2. /\ OpenRight(open, opened) /\ OwnersRight(bindings, open, opened)
      /\ ValuesRight(bindings, open, initialized)
  BY <1>1 DEF BodyRight
<1>3. /\ Len(open) \in Nat /\ Len(open) >= 2 /\ opened \in Nat /\ open \in Seq(Constructs)
      /\ bindings \in Seq(Declared) /\ Len(bindings) \in Nat
  BY <1>1 DEF BodyRight, OpenRight, OwnersRight
<1>4. PICK more : more = opened + 1
  OBVIOUS
<1>5. PICK id : id = Len(bindings) + 1
  OBVIOUS
<1>6. PICK cs : cs = Names!Used
  OBVIOUS
<1>7. PICK d : d = [kind |-> "loop", taken |-> taken, used |-> FALSE, name |-> name, id |-> more]
  OBVIOUS
<1>8. PICK new : new = [name |-> name, owner |-> more, conditional |-> FALSE]
  OBVIOUS
<1>9. PICK s : s = [bindings |-> <<<<name, id>>>>, acceptsLocals |-> FALSE]
  OBVIOUS
<1>10. /\ scopes' = Append(scopes, s) /\ bindings' = Append(bindings, new)
       /\ initialized' = initialized \cup (IF Names!Running /\ taken THEN {id} ELSE {})
       /\ opened' = more /\ open' = Append(cs, d) /\ lastUse' = Names!NoUse
  BY <1>4, <1>5, <1>6, <1>7, <1>8, <1>9 DEF Names!OpenLoop, Names!Walk, Names!Construct
<1>11. Alike(open, cs)
  BY <1>3, <1>6, UsedAlike
<1>12. OpenRight(cs, opened) /\ OwnersRight(bindings, cs, opened) /\ ValuesRight(bindings, cs, initialized)
  BY <1>2, <1>11, AlikeRight
<1>13. Len(cs) >= 2 /\ Len(cs) \in Nat /\ cs \in Seq(Constructs)
  BY <1>3, <1>11 DEF Alike
<1>14. d \in Constructs /\ d.kind = "loop" /\ (d.taken <=> taken) /\ d.id = more /\ more \in Nat
  <2>1. PICK kind : kind = "loop"
    OBVIOUS
  <2>2. d = [kind |-> kind, taken |-> taken, used |-> FALSE, name |-> name, id |-> more]
    BY <1>7, <2>1
  <2>3. kind \in ConstructKinds /\ name \in NameTexts
    BY <2>1 DEF ConstructKinds, Opening, NameTexts
  <2>4. more \in Nat
    BY <1>3, <1>4
  <2>5. d \in Constructs /\ d.kind = kind /\ (d.taken <=> taken) /\ d.id = more
    BY <2>2, <2>3, <2>4, ConstructIs
  <2> QED BY <2>1, <2>4, <2>5
<1>15. new \in Declared /\ new.name = name /\ new.owner = more /\ ~new.conditional /\ new.owner \in 1 .. more
  <2>1. PICK conditional : conditional = FALSE
    OBVIOUS
  <2>2. new = [name |-> name, owner |-> more, conditional |-> conditional] /\ conditional \in BOOLEAN
    BY <1>8, <2>1
  <2>3. name \in NameTexts
    BY DEF NameTexts
  <2>4. new \in Declared /\ new.name = name /\ new.owner = more /\ (new.conditional <=> conditional)
    BY <1>14, <2>2, <2>3, DeclaredIs
  <2>5. more \in 1 .. more
    BY <1>3, <1>4
  <2> QED BY <2>1, <2>4, <2>5
<1>16. \A i \in 1 .. Len(cs) : cs[i].id # more /\ cs[i].id # new.owner
  BY <1>3, <1>4, <1>12, <1>15 DEF OpenRight
<1>17. PICK values : values = initialized'
  OBVIOUS
<1>18. PICK bs : bs = Append(bindings, new)
  OBVIOUS
<1>19. OwnersRight(bs, cs, more) /\ ValuesRight(bs, cs, values)
  <2>1. initialized \subseteq values /\ opened <= more
    BY <1>3, <1>4, <1>10, <1>17
  <2>2. \A i \in 1 .. Len(cs) : cs[i].id = new.owner =>
           /\ cs[i].kind \in Opening
           /\ ~new.conditional /\ (\A j \in 1 .. i : cs[j].taken) => id \in values
    BY <1>16
  <2>3. PICK old : old = bindings
    OBVIOUS
  <2>4. PICK count : count = opened
    OBVIOUS
  <2>5. PICK given : given = initialized
    OBVIOUS
  <2>6. /\ id = Len(old) + 1 /\ OwnersRight(old, cs, count) /\ count \in Nat /\ more \in Nat /\ count <= more
        /\ new \in Declared /\ new.owner \in 1 .. more /\ given \subseteq values
        /\ ValuesRight(old, cs, given)
    BY <1>3, <1>5, <1>12, <1>14, <1>15, <2>1, <2>3, <2>4, <2>5
  <2>7. OwnersRight(Append(old, new), cs, more) /\ ValuesRight(Append(old, new), cs, values)
    BY ONLY <2>2, <2>6, DeclaredMore
  <2> QED BY <1>18, <2>3, <2>7
<1>20. /\ Len(bs) = id /\ bs[id] = new /\ \A b \in 1 .. Len(bindings) : bs[b] = bindings[b]
  BY <1>3, <1>5, <1>15, <1>18, AppendProperties
<1>21. \A b \in 1 .. Len(bs) : bs[b].owner = more => b = id
  <2>1. \A b \in 1 .. Len(bindings) : bs[b].owner # more
    BY <1>2, <1>3, <1>4, <1>20 DEF OwnersRight
  <2> QED BY <1>3, <1>5, <1>20, <2>1
<1>22. PICK ds : ds = Append(cs, d)
  OBVIOUS
<1>23. Len(ds) = Len(cs) + 1 /\ ds[Len(cs) + 1] = d /\ \A i \in 1 .. Len(cs) : ds[i] = cs[i]
  BY <1>13, <1>14, <1>22, AppendProperties
<1>24. Begun(bs, ds, more, values)
  <2>1. ds[Len(ds)].kind \in Opening
    BY <1>14, <1>23 DEF Opening
  <2>2. ASSUME \A j \in 1 .. Len(ds) : ds[j].taken PROVE id \in values
    <3>1. taken
      BY <1>13, <1>14, <1>23, <2>2
    <3>2. \A j \in 1 .. Len(open) : open[j].taken
      BY <1>3, <1>11, <1>13, <1>23, <2>2 DEF Alike
    <3>3. Names!Running
      BY <1>3, <3>2 DEF Names!Running
    <3> QED BY <1>10, <1>17, <3>1, <3>3
  <2> QED BY <1>21, <2>1, <2>2 DEF Begun
<1>25. /\ OpenRight(ds, more) /\ Len(ds) >= 2 /\ Len(ds) \in Nat
       /\ OwnersRight(bs, ds, more) /\ ValuesRight(bs, ds, values)
  <2>1. PICK count : count = opened
    OBVIOUS
  <2>2. d.kind # "function" /\ (d.kind = "local" => d.taken)
    BY <1>14
  <2>3. OneMore(cs, d, ds, count, more)
    BY <1>4, <1>13, <1>14, <1>22, <2>1, <2>2 DEF OneMore
  <2>4. /\ OpenRight(cs, count) /\ OwnersRight(bs, cs, more) /\ ValuesRight(bs, cs, values)
        /\ Begun(bs, ds, more, values)
    BY <1>12, <1>19, <1>24, <2>1
  <2> QED BY ONLY <2>3, <2>4, OpenedRight
<1>26. ASSUME "duplicate" \notin reported' PROVE ScopesRight(scopes', ds, bs)
  <2>1. "duplicate" \notin reported
    BY <1>26 DEF Onward
  <2>2. ScopesRight(scopes, open, bindings)
    BY <1>1, <2>1 DEF BodyRight
  <2>3. ScopesRight(scopes, cs, bindings)
    BY <1>11, <2>2, AlikeScopes
  <2>4. ScopesRight(scopes, cs, bs)
    BY <1>3, <1>15, <1>16, <1>18, <2>3, ScopesMore
  <2>5. s \in Scopes /\ ~s.acceptsLocals /\ Len(s.bindings) = 1 /\ s.bindings[1][1] = name /\ s.bindings[1][2] = id
    <3>1. PICK entry : entry = <<name, id>>
      OBVIOUS
    <3>2. PICK es : es = <<entry>>
      OBVIOUS
    <3>3. id \in Nat /\ name \in NameTexts
      <4>1. id \in Nat
        BY <1>3, <1>5
      <4> QED BY <4>1 DEF NameTexts
    <3>4. entry \in NameTexts \X Nat /\ entry[1] = name /\ entry[2] = id
      BY <3>1, <3>3
    <3>5. es \in Seq(NameTexts \X Nat) /\ Len(es) = 1 /\ es[1] = entry
      BY <3>2, <3>4
    <3>6. PICK no : no = FALSE
      OBVIOUS
    <3>7. s = [bindings |-> es, acceptsLocals |-> no] /\ no \in BOOLEAN
      BY <1>9, <3>1, <3>2, <3>6
    <3>8. s \in Scopes /\ s.bindings = es /\ (s.acceptsLocals <=> no)
      BY <3>5, <3>7, ScopeIs
    <3> QED BY <3>4, <3>5, <3>6, <3>8
  <2>6. ScopeRight(s, d, bs)
    <3>1. id \in 1 .. Len(bs)
      BY <1>3, <1>5, <1>20
    <3>2. \A e \in 1 .. Len(s.bindings) : e = 1
      BY <2>5
    <3> QED BY <1>14, <1>15, <1>20, <1>21, <2>5, <3>1, <3>2 DEF ScopeRight
  <2>7. d.kind \in Opening
    BY <1>14 DEF Opening
  <2>8. \A t \in Scopes : d.kind \in Opening /\ ScopeRight(t, d, bs) => ScopesRight(Append(scopes, t), ds, bs)
    BY <1>12, <1>14, <1>22, <2>4, OpenedScopes
  <2> QED BY <1>10, <2>5, <2>6, <2>7, <2>8
<1>27. UseRight'
  BY <1>10 DEF UseRight
<1>28. open' = ds /\ opened' = more /\ bindings' = bs /\ initialized' = values
  BY <1>10, <1>17, <1>18, <1>22
<1> QED BY <1>25, <1>26, <1>27, <1>28 DEF BodyRight

\* A local was declared, behind its initializer.
LEMMA LocalStep == ASSUME NamesInv, Onward, Names!CloseLocal PROVE BodyRight'
<1>1. BodyRight
  BY DEF NamesInv, Onward
<1>2. /\ OpenRight(open, opened) /\ OwnersRight(bindings, open, opened)
      /\ ValuesRight(bindings, open, initialized)
  BY <1>1 DEF BodyRight
<1>3. /\ Len(open) \in Nat /\ Len(open) >= 2 /\ opened \in Nat /\ open \in Seq(Constructs)
      /\ bindings \in Seq(Declared) /\ Len(bindings) \in Nat
  BY <1>1 DEF BodyRight, OpenRight, OwnersRight
<1>4. PICK top : top = open[Len(open)]
  OBVIOUS
<1>5. top.kind = "local"
  BY <1>4 DEF Names!CloseLocal, Names!Top
<1>6. Len(open) >= 3 /\ top.taken /\ top.name \in NameTexts
  <2>1. Len(open) \in 1 .. Len(open)
    BY <1>3
  <2>2. top \in Constructs
    BY <1>3, <1>4, <2>1
  <2>3. Len(open) # 2
    BY <1>2, <1>4, <1>5, <2>1 DEF OpenRight
  <2>4. top.taken
    BY <1>2, <1>4, <1>5, <2>1 DEF OpenRight
  <2>5. top.name \in NameTexts
    BY <2>2 DEF Constructs
  <2>6. Len(open) >= 3
    <3>1. PICK n : n = Len(open)
      OBVIOUS
    <3>2. n \in Nat /\ n >= 2 /\ n # 2
      BY <1>3, <2>3, <3>1
    <3>3. n >= 3
      BY <3>2
    <3> QED BY <3>1, <3>3
  <2> QED BY <2>4, <2>5, <2>6
<1>7. PICK around : around = Shorter(open)
  OBVIOUS
<1>8. /\ around \in Seq(Constructs) /\ Len(around) = Len(open) - 1
      /\ \A j \in 1 .. Len(open) - 1 : around[j] = open[j]
  BY <1>3, <1>7, FrontIs
<1>9. PICK i : i = Names!BraceOf(around)
  OBVIOUS
<1>10. /\ i \in 1 .. Len(around) /\ open[i].kind = "block"
       /\ \A j \in 1 .. Len(open) : i < j => open[j].kind # "block"
  <2> DEFINE I == {j \in 1 .. Len(around) : around[j].kind = "block"}
  <2>1. i = IF I # {} THEN Names!Max(I) ELSE 0
    BY <1>9 DEF Names!BraceOf, Names!SelectLastInSeq
  <2>2. 2 \in I
    <3>1. 2 \in 1 .. Len(around) /\ 2 \in 1 .. Len(open) /\ around[2] = open[2]
      BY <1>3, <1>6, <1>8, SMTT(40)
    <3> QED BY <1>2, <3>1 DEF OpenRight
  <2>3. I \subseteq 1 .. Len(around) /\ I # {} /\ Len(around) \in Nat
    BY <1>8, <2>2
  <2>4. \A j \in 1 .. Len(around) : around[j].kind = "block" <=> j \in I
    OBVIOUS
  <2> HIDE DEF I
  <2>5. Names!Max(I) \in I /\ \A y \in I : y <= Names!Max(I)
    BY ONLY <2>3, LastOf
  <2>6. i \in I /\ \A y \in I : y <= i
    BY <2>1, <2>3, <2>5
  <2>7. i \in 1 .. Len(around) /\ around[i].kind = "block"
    BY <2>3, <2>4, <2>6
  <2>8. ASSUME NEW j \in 1 .. Len(open), i < j, open[j].kind = "block" PROVE FALSE
    <3>1. j # Len(open)
      BY <1>4, <1>5, <2>8
    <3>2. j \in 1 .. Len(around) /\ around[j] = open[j]
      BY <1>3, <1>8, <3>1
    <3>3. j \in I /\ i \in Nat /\ j \in Nat
      BY <2>3, <2>4, <2>8, <3>2, <2>7
    <3> QED BY <2>6, <2>8, <3>3
  <2> QED BY <1>3, <1>8, <2>7, <2>8
<1>11. PICK id : id = Len(bindings) + 1
  OBVIOUS
<1>12. PICK new : new = [name |-> top.name, owner |-> open[i].id,
                         conditional |-> around[Len(around)].kind # "block"]
  OBVIOUS
<1>13. PICK level : level = Names!SelectLastInSeq(scopes, LAMBDA scope : scope.acceptsLocals)
  OBVIOUS
<1>14. /\ scopes' = [scopes EXCEPT ![level].bindings = Append(@, <<top.name, id>>)]
       /\ bindings' = Append(bindings, new)
       /\ initialized' = initialized \cup (IF Names!Running THEN {id} ELSE {})
       /\ opened' = opened /\ open' = around /\ lastUse' = Names!NoUse
  BY <1>4, <1>7, <1>9, <1>11, <1>12, <1>13
     DEF Names!CloseLocal, Names!Close, Names!DeclareLocal, Names!Top, Names!Front, Shorter
<1>15. i \in 1 .. Len(open) /\ i \in Nat /\ open[i].id \in 1 .. opened
  BY <1>2, <1>3, <1>8, <1>10, SMTT(40) DEF OpenRight
<1>16. /\ new \in Declared /\ new.name = top.name /\ new.owner = open[i].id /\ new.owner \in 1 .. opened
       /\ ~new.conditional => around[Len(around)].kind = "block"
  <2>1. open[i].id \in Nat
    BY <1>3, <1>15
  <2>2. PICK conditional : conditional = (around[Len(around)].kind # "block")
    OBVIOUS
  <2>3. PICK owner : owner = open[i].id
    OBVIOUS
  <2>4. PICK name : name = top.name
    OBVIOUS
  <2>5. new = [name |-> name, owner |-> owner, conditional |-> conditional] /\ conditional \in BOOLEAN
    BY <1>12, <2>2, <2>3, <2>4
  <2>6. new \in Declared /\ new.name = name /\ new.owner = owner /\ (new.conditional <=> conditional)
    BY <1>6, <2>1, <2>3, <2>4, <2>5, DeclaredIs
  <2>7. ~conditional => around[Len(around)].kind = "block"
    BY <2>2
  <2> QED BY <1>15, <2>3, <2>4, <2>6, <2>7
<1>17. PICK values : values = initialized'
  OBVIOUS
<1>18. PICK bs : bs = Append(bindings, new)
  OBVIOUS
<1>19. OwnersRight(bs, open, opened) /\ ValuesRight(bs, open, values)
  <2>1. initialized \subseteq values /\ opened <= opened
    BY <1>3, <1>14, <1>17
  <2>2. ASSUME NEW j \in 1 .. Len(open), open[j].id = new.owner
        PROVE  /\ open[j].kind \in Opening
               /\ ~new.conditional /\ (\A l \in 1 .. j : open[l].taken) => id \in values
    <3>1. j = i
      <4>1. open[j].id \in Nat /\ open[i].id \in Nat /\ j \in Nat
        BY <1>2, <1>3, <1>15 DEF OpenRight
      <4>2. i < j => open[i].id < open[j].id
        BY <1>2, <1>15 DEF OpenRight
      <4>3. j < i => open[j].id < open[i].id
        BY <1>2, <1>15 DEF OpenRight
      <4> QED BY <1>15, <1>16, <2>2, <4>1, <4>2, <4>3
    <3>2. open[j].kind \in Opening
      BY <1>10, <3>1 DEF Opening
    <3>3. ASSUME ~new.conditional, \A l \in 1 .. j : open[l].taken PROVE id \in values
      <4>1. Len(around) \in 1 .. Len(open) /\ open[Len(around)].kind = "block"
        <5>1. around[Len(around)].kind = "block"
          BY <1>16, <3>3
        <5>2. PICK l : l = Len(around)
          OBVIOUS
        <5>3. l \in 1 .. Len(open) - 1 /\ l \in 1 .. Len(open)
          BY <1>3, <1>6, <1>8, <5>2
        <5>4. around[l] = open[l]
          BY <1>8, <5>3
        <5>5. open[l].kind = "block"
          BY <5>1, <5>2, <5>4
        <5> QED BY <5>2, <5>3, <5>5
      <4>2. i = Len(open) - 1
        <5>1. PICK l : l = Len(around)
          OBVIOUS
        <5>2. l \in 1 .. Len(open) /\ open[l].kind = "block" /\ l = Len(open) - 1 /\ i \in 1 .. l
          BY <1>8, <1>10, <4>1, <5>1
        <5>3. ~ (i < l)
          BY <1>10, <5>2
        <5>4. i = l
          BY <1>3, <5>2, <5>3
        <5> QED BY <5>2, <5>4
      <4>3. \A l \in 1 .. Len(open) : open[l].taken
        <5>1. \A l \in 1 .. Len(open) : l \in 1 .. j \/ l = Len(open)
          BY <1>3, <3>1, <4>2
        <5> QED BY <1>4, <1>6, <3>3, <5>1
      <4>4. Names!Running
        BY <1>3, <4>3 DEF Names!Running
      <4> QED BY <1>14, <1>17, <4>4
    <3> QED BY <3>2, <3>3
  <2>3. PICK old : old = bindings
    OBVIOUS
  <2>4. PICK count : count = opened
    OBVIOUS
  <2>5. PICK given : given = initialized
    OBVIOUS
  <2>6. PICK cs : cs = open
    OBVIOUS
  <2>7. /\ id = Len(old) + 1 /\ OwnersRight(old, cs, count) /\ count \in Nat /\ count <= count
        /\ new \in Declared /\ new.owner \in 1 .. count /\ given \subseteq values
        /\ ValuesRight(old, cs, given)
    BY <1>2, <1>3, <1>11, <1>16, <2>1, <2>3, <2>4, <2>5, <2>6
  <2>8. \A j \in 1 .. Len(cs) : cs[j].id = new.owner =>
           /\ cs[j].kind \in Opening
           /\ ~new.conditional /\ (\A l \in 1 .. j : cs[l].taken) => id \in values
    BY <2>2, <2>6
  <2>9. OwnersRight(Append(old, new), cs, count) /\ ValuesRight(Append(old, new), cs, values)
    BY ONLY <2>7, <2>8, DeclaredMore
  <2> QED BY <1>18, <2>3, <2>4, <2>6, <2>9
<1>20. /\ OpenRight(around, opened) /\ Len(around) >= 2 /\ Len(around) \in Nat
       /\ OwnersRight(bs, around, opened) /\ ValuesRight(bs, around, values)
  <2>1. PICK cs : cs = open
    OBVIOUS
  <2>2. PICK count : count = opened
    OBVIOUS
  <2>3. /\ around = Shorter(cs) /\ OpenRight(cs, count) /\ Len(cs) >= 3
        /\ OwnersRight(bs, cs, count) /\ ValuesRight(bs, cs, values)
    BY <1>2, <1>6, <1>7, <1>19, <2>1, <2>2
  <2>4. /\ OpenRight(around, count) /\ Len(around) >= 2 /\ Len(around) \in Nat
        /\ OwnersRight(bs, around, count) /\ ValuesRight(bs, around, values)
    BY ONLY <2>3, ClosedRight
  <2> QED BY <2>2, <2>4
<1>21. ASSUME "duplicate" \notin reported' PROVE ScopesRight(scopes', around, bs)
  <2>1. "duplicate" \notin reported
    BY <1>21 DEF Onward
  <2>2. ScopesRight(scopes, open, bindings)
    BY <1>1, <2>1 DEF BodyRight
  <2>3. PICK ss : ss = scopes'
    OBVIOUS
  <2>4. ScopesRight(ss, open, bs)
    <3>1. ScopesRight([scopes EXCEPT ![level].bindings = Append(@, <<new.name, id>>)], open, Append(bindings, new))
      BY <1>2, <1>3, <1>10, <1>11, <1>13, <1>15, <1>16, <2>2, LocalScopes
    <3> QED BY <1>14, <1>16, <1>18, <2>3, <3>1
  <2>5. open[Len(open)].kind \notin Opening
    BY <1>4, <1>5 DEF Opening
  <2>6. ScopesRight(ss, around, bs)
    BY <1>2, <1>6, <1>7, <2>4, <2>5, ClosedScopes
  <2> QED BY <2>3, <2>6
<1>22. UseRight'
  BY <1>14 DEF UseRight
<1>23. bindings' = bs /\ initialized' = values
  BY <1>14, <1>17, <1>18
<1> QED BY <1>14, <1>20, <1>21, <1>22, <1>23 DEF BodyRight

-----------------------------------------------------------------------------
(* Names: the walk. *)

LEMMA BodyTop ==
  ASSUME NamesInv, Names!InBody
  PROVE  /\ open \in Seq(Constructs) /\ Len(open) \in Nat /\ Len(open) >= 2
         /\ Names!Top.kind # "block" => Len(open) >= 3
<1>1. OpenRight(open, opened) /\ Len(open) >= 2 /\ Len(open) \in Nat /\ open \in Seq(Constructs)
  <2>1. BodyRight
    BY DEF NamesInv
  <2>2. OpenRight(open, opened) /\ Len(open) >= 2 /\ Len(open) \in Nat
    BY <2>1 DEF BodyRight
  <2>3. open \in Seq(Constructs)
    BY <2>2 DEF OpenRight
  <2> QED BY <2>2, <2>3
<1>2. Len(open) = 2 => Names!Top.kind = "block"
  BY <1>1 DEF OpenRight, Names!Top
<1>3. Names!Top.kind # "block" => Len(open) >= 3
  <2>1. PICK n : n = Len(open)
    OBVIOUS
  <2>2. n \in Nat /\ n >= 2 /\ (n # 2 => n >= 3)
    BY <1>1, <2>1
  <2> QED BY <1>2, <2>1, <2>2
<1> QED BY <1>1, <1>3

\* What a step of the walk does to the constructs that are open.
LEMMA UseSteps ==
  ASSUME NamesInv, Names!InBody, NEW use, NEW name, NEW rules,
         open' = Names!Used, Names!Walk(use, rules), UNCHANGED <<scopes, bindings, opened, initialized>>,
         scopes \in Seq(Scopes) => Means(use, name)
  PROVE  NamesInv'
<1>1. Onward /\ lastUse' = use
  BY DEF Names!Walk, Onward
<1>2. "duplicate" \notin reported => Means(use, name)
  <2>1. "duplicate" \notin reported => ScopesRight(scopes, open, bindings)
    BY DEF NamesInv, BodyRight
  <2>2. ScopesRight(scopes, open, bindings) => scopes \in Seq(Scopes)
    BY DEF ScopesRight, ScopesAt, LevelsRight
  <2> QED BY <2>1, <2>2
<1>3. BodyRight'
  BY <1>1, <1>2, UsedRight
<1> QED BY <1>1, <1>3, OnwardRight

LEMMA OpenSteps ==
  ASSUME NamesInv, Names!InBody, NEW kind, NEW taken, NEW name, Names!OpenConstruct(kind, taken, name),
         kind \in ConstructKinds \ {"function", "loop"}, taken \in BOOLEAN, name \in NameTexts,
         kind = "local" => taken,
         scopes' = IF kind = "block" THEN Append(scopes, Names!Lexical(<<>>)) ELSE scopes
  PROVE  NamesInv'
<1>1. /\ Onward /\ lastUse' = Names!NoUse /\ opened' = opened + 1 /\ UNCHANGED <<bindings, initialized>>
      /\ open' = Append(Names!Used, Names!Construct(kind, taken, name))
  BY DEF Names!OpenConstruct, Names!Walk, Onward
<1>2. PICK cs : cs = Names!Used
  OBVIOUS
<1>3. Alike(open, cs)
  BY <1>2, BodyTop, UsedAlike
<1>4. open' = Append(cs, Names!Construct(kind, taken, name))
  BY <1>1, <1>2
<1>5. BodyRight'
  BY <1>1, <1>3, <1>4, OpenedStep
<1> QED BY <1>1, <1>5, OnwardRight

\* A body of a branch is opened, and the branch remembers that it is taken.
LEMMA BodyStep == NamesInv /\ (\E taken \in BOOLEAN : Names!OpenBody(taken)) => NamesInv'
<1> SUFFICES ASSUME NamesInv, NEW taken \in BOOLEAN, Names!OpenBody(taken) PROVE NamesInv'
  OBVIOUS
<1>1. /\ Onward /\ lastUse' = Names!NoUse /\ opened' = opened + 1
      /\ UNCHANGED <<bindings, initialized>> /\ scopes' = scopes
  BY DEF Names!OpenBody, Names!Walk, Onward
<1>2. open \in Seq(Constructs) /\ Len(open) \in Nat /\ Len(open) >= 2
  BY <1>1, BodyTop DEF Onward
<1>3. PICK us : us = Names!Used
  OBVIOUS
<1>4. Alike(open, us)
  BY <1>2, <1>3, UsedAlike
<1>5. PICK cs : cs = [us EXCEPT ![Len(open)].name = IF taken THEN "taken" ELSE @]
  OBVIOUS
<1>6. us \in Seq(Constructs) /\ Len(us) = Len(open) /\ Len(us) >= 1
  BY <1>2, <1>4 DEF Alike
<1>7. Alike(us, cs)
  <2>1. PICK top : top = us[Len(us)]
    OBVIOUS
  <2>2. PICK c : c = [top EXCEPT !.name = IF taken THEN "taken" ELSE @]
    OBVIOUS
  <2>3. top \in Constructs
    BY <1>2, <1>6, <2>1
  <2>4. c \in Constructs /\ c.kind = top.kind /\ c.id = top.id /\ c.taken = top.taken
    BY <2>2, <2>3 DEF Constructs, NameTexts
  <2>5. cs = [us EXCEPT ![Len(us)] = c]
    BY <1>5, <1>6, <2>1, <2>2
  <2> QED BY <1>6, <2>1, <2>4, <2>5, TopChanged
<1>8. Alike(open, cs)
  BY <1>4, <1>7 DEF Alike
<1>9. open' = Append(cs, Names!Construct("body", taken, ""))
  BY <1>3, <1>5 DEF Names!OpenBody
<1>10. "body" \in ConstructKinds \ {"function", "loop"} /\ "body" # "local" /\ "body" # "block" /\ "" \in NameTexts
  BY DEF ConstructKinds, Opening, NameTexts
<1>11. PICK kind : kind = "body"
  OBVIOUS
<1>12. PICK name : name = ""
  OBVIOUS
<1>13. /\ kind \in ConstructKinds \ {"function", "loop"} /\ name \in NameTexts /\ (kind = "local" => taken)
       /\ open' = Append(cs, Names!Construct(kind, taken, name))
       /\ scopes' = IF kind = "block" THEN Append(scopes, Names!Lexical(<<>>)) ELSE scopes
  BY <1>1, <1>9, <1>10, <1>11, <1>12
<1>14. BodyRight'
  BY <1>1, <1>8, <1>13, OpenedStep
<1> QED BY <1>1, <1>14, OnwardRight

LEMMA CloseSteps ==
  ASSUME NamesInv, Names!InBody, Names!Close, Len(open) >= 3, UNCHANGED <<bindings, initialized>>,
         scopes' = IF Names!Top.kind \in Opening THEN Names!LeaveScope ELSE scopes
  PROVE  NamesInv'
<1>1. /\ Onward /\ lastUse' = Names!NoUse /\ opened' = opened
      /\ open' = Shorter(open)
  BY DEF Names!Close, Names!Front, Onward, Shorter
<1>2. scopes' = IF open[Len(open)].kind \in Opening THEN Shorter(scopes) ELSE scopes
  BY DEF Names!Top, Names!LeaveScope, Names!Front, Shorter
<1>3. BodyRight'
  BY <1>1, <1>2, ClosedStep
<1> QED BY <1>1, <1>3, OnwardRight

LEMMA NamesStep == NamesInv /\ [Names!Next]_namesVars => NamesInv'
<1> SUFFICES ASSUME NamesInv, [Names!Next]_namesVars PROVE NamesInv'
  OBVIOUS
<1> USE DEF Names!ExpressionMayBegin, Names!StatementMayBegin
<1>1. CASE Names!CollectDeclaration
  BY <1>1, CollectStep
<1>2. CASE Names!EnterFunction
  BY <1>2, EnterStep
<1>3. ASSUME scopes \in Seq(Scopes), NEW name
      PROVE  /\ Means(Names!ValueUse(name), name) /\ Means(Names!CallUse(name), name)
             /\ Means(Names!MemberCallUse(name), name)
             /\ \A access : access # "call" => Means(Names!BindingUse(name, access), name)
  <2>1. functionNames \cap Intrinsics = {}
    BY DEF NamesInv
  <2> QED BY <1>3, <2>1, UsesResolved
<1>4. ASSUME NEW use, NEW name, Names!UseName(use), scopes \in Seq(Scopes) => Means(use, name)
      PROVE  NamesInv'
  <2>1. PICK rules : Names!Walk(use, rules)
    BY <1>4 DEF Names!UseName
  <2>2. Names!InBody /\ open' = Names!Used /\ UNCHANGED <<scopes, bindings, opened, initialized>>
    BY <1>4 DEF Names!UseName
  <2> QED BY <1>4, <2>1, <2>2, UseSteps
<1>5. CASE \E name \in Identifiers \cup Intrinsics : Names!UseName(Names!ValueUse(name))
  BY <1>3, <1>4, <1>5
<1>6. CASE \E name \in Identifiers \cup Intrinsics : Names!UseName(Names!CallUse(name))
  BY <1>3, <1>4, <1>6
<1>7. CASE \E name \in Identifiers : Names!UseName(Names!MemberCallUse(name))
  BY <1>3, <1>4, <1>7
<1>8. ASSUME NEW name \in Identifiers, NEW access \in {"write", "mutate", "read write", "read mutate"},
             Names!AssignName(name, access)
      PROVE  NamesInv'
  <2>1. PICK use : use = Names!BindingUse(name, access)
    OBVIOUS
  <2>2. scopes \in Seq(Scopes) => Means(use, name)
    BY <1>3, <2>1
  <2>3. PICK rules : Names!Walk(use, rules)
    BY <1>8, <2>1 DEF Names!AssignName
  <2>4. Names!InBody /\ open' = Names!Used /\ UNCHANGED <<scopes, bindings, opened, initialized>>
    BY <1>8 DEF Names!AssignName
  <2> QED BY <2>2, <2>3, <2>4, UseSteps
<1>9. \A t \in {"block", "local", "branches"} : t \in ConstructKinds \ {"function", "loop"}
  BY DEF ConstructKinds, Opening
<1>10. "" \in NameTexts /\ Identifiers \subseteq NameTexts
  BY DEF NameTexts
<1>11. CASE Names!OpenBlock
  <2>1. PICK kind : kind = "block"
    OBVIOUS
  <2>2. PICK taken : taken = TRUE
    OBVIOUS
  <2>3. PICK name : name = ""
    OBVIOUS
  <2>4. /\ Names!InBody /\ Names!OpenConstruct(kind, taken, name)
        /\ scopes' = IF kind = "block" THEN Append(scopes, Names!Lexical(<<>>)) ELSE scopes
    BY <1>11, <2>1, <2>2, <2>3 DEF Names!OpenBlock
  <2>5. kind \in ConstructKinds \ {"function", "loop"} /\ taken \in BOOLEAN /\ name \in NameTexts /\ (kind = "local" => taken)
    BY <1>9, <1>10, <2>1, <2>2, <2>3
  <2> QED BY <2>4, <2>5, OpenSteps
<1>12. ASSUME NEW name \in Identifiers, Names!OpenLocal(name) PROVE NamesInv'
  <2>1. PICK kind : kind = "local"
    OBVIOUS
  <2>2. PICK taken : taken = TRUE
    OBVIOUS
  <2>3. /\ Names!InBody /\ Names!OpenConstruct(kind, taken, name)
        /\ scopes' = IF kind = "block" THEN Append(scopes, Names!Lexical(<<>>)) ELSE scopes
    BY <1>12, <2>1, <2>2 DEF Names!OpenLocal
  <2>4. kind \in ConstructKinds \ {"function", "loop"} /\ taken \in BOOLEAN /\ name \in NameTexts /\ (kind = "local" => taken)
    BY <1>9, <1>10, <2>1, <2>2
  <2> QED BY <2>3, <2>4, OpenSteps
<1>13. CASE Names!OpenBranches
  <2>1. PICK kind : kind = "branches"
    OBVIOUS
  <2>2. PICK taken : taken = TRUE
    OBVIOUS
  <2>3. PICK name : name = ""
    OBVIOUS
  <2>4. /\ Names!InBody /\ Names!OpenConstruct(kind, taken, name)
        /\ scopes' = IF kind = "block" THEN Append(scopes, Names!Lexical(<<>>)) ELSE scopes
    BY <1>13, <2>1, <2>2, <2>3 DEF Names!OpenBranches
  <2>5. kind \in ConstructKinds \ {"function", "loop"} /\ taken \in BOOLEAN /\ name \in NameTexts /\ (kind = "local" => taken)
    BY <1>9, <1>10, <2>1, <2>2, <2>3
  <2> QED BY <2>4, <2>5, OpenSteps
<1>14. CASE \E taken \in BOOLEAN : Names!OpenBody(taken)
  BY <1>14, BodyStep
<1>15. ASSUME NEW name \in Identifiers, NEW taken \in BOOLEAN, Names!OpenLoop(name, taken) PROVE NamesInv'
  <2>1. Onward
    BY <1>15 DEF Names!OpenLoop, Names!Walk, Onward
  <2> QED BY <1>15, <2>1, ForStep, OnwardRight
<1>16. CASE Names!CloseLocal
  <2>1. Onward
    BY <1>16 DEF Names!CloseLocal, Names!Close, Onward
  <2> QED BY <1>16, <2>1, LocalStep, OnwardRight
<1>17. CASE Names!CloseBlock
  <2>1. /\ Names!InBody /\ Names!Close /\ UNCHANGED <<bindings, initialized>> /\ Len(open) > 2
        /\ scopes' = Names!LeaveScope /\ Names!Top.kind = "block"
    BY <1>17 DEF Names!CloseBlock
  <2>2. Len(open) >= 3
    BY <2>1, BodyTop
  <2>3. scopes' = IF Names!Top.kind \in Opening THEN Names!LeaveScope ELSE scopes
    BY <2>1 DEF Opening
  <2> QED BY <2>1, <2>2, <2>3, CloseSteps
<1>18. CASE Names!CloseStatement
  <2>1. /\ Names!InBody /\ Names!Close /\ UNCHANGED <<bindings, initialized>>
        /\ scopes' = scopes /\ Names!Top.kind \in {"body", "branches"}
    BY <1>18 DEF Names!CloseStatement
  <2>2. Len(open) >= 3
    BY <2>1, BodyTop
  <2>3. scopes' = IF Names!Top.kind \in Opening THEN Names!LeaveScope ELSE scopes
    BY <2>1 DEF Opening
  <2> QED BY <2>1, <2>2, <2>3, CloseSteps
<1>19. CASE Names!CloseLoop
  <2>1. /\ Names!InBody /\ Names!Close /\ UNCHANGED <<bindings, initialized>>
        /\ scopes' = Names!LeaveScope /\ Names!Top.kind = "loop"
    BY <1>19 DEF Names!CloseLoop
  <2>2. Len(open) >= 3
    BY <2>1, BodyTop
  <2>3. scopes' = IF Names!Top.kind \in Opening THEN Names!LeaveScope ELSE scopes
    BY <2>1 DEF Opening
  <2> QED BY <2>1, <2>2, <2>3, CloseSteps
<1>20. CASE UNCHANGED namesVars
  <2>1. /\ UNCHANGED <<declarations, parameters, collected, functionNames, typeNames, reported, lastUse>>
        /\ UNCHANGED <<scopes, open, bindings, opened, initialized>>
    BY <1>20 DEF namesVars
  <2>2. UseRight' <=> UseRight
    <3>1. Names!Callables(lastUse.name)' = Names!Callables(lastUse.name)
      BY <2>1 DEF Names!Callables, Names!IsFunction, Names!IsType
    <3> QED BY <2>1, <3>1 DEF UseRight
  <2>3. BodyRight' <=> BodyRight
    BY <2>1, <2>2 DEF BodyRight
  <2>4. Names!InBody' <=> Names!InBody
    BY <2>1 DEF Names!InBody
  <2> QED BY <2>1, <2>3, <2>4 DEF NamesInv
<1>21. \/ Names!CollectDeclaration \/ Names!EnterFunction
       \/ \E name \in Identifiers \cup Intrinsics : Names!UseName(Names!ValueUse(name))
       \/ \E name \in Identifiers \cup Intrinsics : Names!UseName(Names!CallUse(name))
       \/ \E name \in Identifiers : Names!UseName(Names!MemberCallUse(name))
       \/ \E name \in Identifiers, access \in {"write", "mutate", "read write", "read mutate"} :
            Names!AssignName(name, access)
       \/ Names!OpenBlock \/ Names!CloseBlock
       \/ \E name \in Identifiers : Names!OpenLocal(name)
       \/ Names!CloseLocal
       \/ Names!OpenBranches \/ Names!CloseStatement \/ Names!CloseLoop
       \/ \E taken \in BOOLEAN : Names!OpenBody(taken)
       \/ \E name \in Identifiers, taken \in BOOLEAN : Names!OpenLoop(name, taken)
       \/ UNCHANGED namesVars
  BY Zenon DEF Names!Next
<1> QED BY ONLY <1>1, <1>2, <1>5, <1>6, <1>7, <1>8, <1>11, <1>12, <1>13, <1>14, <1>15, <1>16, <1>17,
           <1>18, <1>19, <1>20, <1>21

\* What the run checks.
LEMMA NamesRight == NamesInv => Names!NamesResolved /\ Names!ReadsInitialized
<1> SUFFICES ASSUME NamesInv PROVE Names!NamesResolved /\ Names!ReadsInitialized
  OBVIOUS
<1>1. CASE lastUse = Names!NoUse
  BY <1>1 DEF Names!NamesResolved, Names!ReadsInitialized, Names!Reads, Names!NoUse, Names!None
<1>2. CASE lastUse # Names!NoUse
  <2>1. BodyRight
    BY <1>2 DEF NamesInv, Names!InBody
  <2> DEFINE found == Found(scopes, lastUse.name)
             kinds == Names!Callables(lastUse.name)
  <2>2. ASSUME "duplicate" \notin reported
        PROVE  /\ UseMeans(lastUse, found, kinds)
               /\ found = 0 => Names!Visible(lastUse.name) = {}
               /\ found # 0 =>
                    /\ Names!Visible(lastUse.name) # {} /\ {found} = Names!Nearest(lastUse.name)
                    /\ found \in 1 .. Len(bindings)
                    /\ \E i \in 1 .. Len(open) : open[i].id = bindings[found].owner
    <3>1. UseMeans(lastUse, found, kinds)
      BY <1>2, <2>1, <2>2 DEF BodyRight, UseRight
    <3>2. /\ OpenRight(open, opened) /\ OwnersRight(bindings, open, opened)
          /\ ScopesRight(scopes, open, bindings)
      BY <2>1, <2>2 DEF BodyRight
    <3>3. PICK name : name = lastUse.name
      OBVIOUS
    <3>4. /\ Found(scopes, name) = 0 => Names!Visible(name) = {}
          /\ Found(scopes, name) # 0 =>
               /\ Names!Visible(name) # {} /\ {Found(scopes, name)} = Names!Nearest(name)
               /\ Found(scopes, name) \in 1 .. Len(bindings)
               /\ \E i \in 1 .. Len(open) : open[i].id = bindings[Found(scopes, name)].owner
      BY <3>2, NearestFound
    <3> QED BY <3>1, <3>3, <3>4
  <2> HIDE DEF found, kinds
  <2>3. Names!NamesResolved
    <3> SUFFICES ASSUME "duplicate" \notin reported
                 PROVE  IF Names!Visible(lastUse.name) # {}
                        THEN {lastUse.binding} = Names!Nearest(lastUse.name) /\ ~lastUse.error
                        ELSE /\ lastUse.binding = 0
                             /\ ~lastUse.error => lastUse.access = "call" /\ lastUse.resolution \in kinds
                             /\ lastUse.access = "call" /\ lastUse.resolution # "constructor" =>
                                  (lastUse.error <=> Names!Cardinality(kinds) # 1)
      BY DEF Names!NamesResolved, Names!None, kinds
    <3>1. CASE found = 0
      BY <2>2, <3>1 DEF UseMeans
    <3>2. CASE found # 0
      BY <2>2, <3>2 DEF UseMeans
    <3> QED BY <3>1, <3>2
  <2>4. Names!ReadsInitialized
    <3> SUFFICES ASSUME reported = {}, lastUse.binding # 0, Names!Running, ~bindings[lastUse.binding].conditional
                 PROVE  lastUse.binding \in initialized
      BY DEF Names!ReadsInitialized, Names!Reads, Names!None
    <3>1. "duplicate" \notin reported
      OBVIOUS
    <3>2. found # 0 /\ lastUse.binding = found
      BY <2>2, <3>1 DEF UseMeans
    <3>3. PICK i \in 1 .. Len(open) : open[i].id = bindings[found].owner
      BY <2>2, <3>1, <3>2
    <3>4. \A j \in 1 .. i : open[j].taken
      <4>1. Len(open) \in Nat /\ open \in Seq(Constructs)
        BY <2>1 DEF BodyRight, OpenRight
      <4>2. \A j \in 1 .. Len(open) : open[j].taken
        BY <4>1 DEF Names!Running
      <4> QED BY <4>1, <4>2
    <3>5. found \in 1 .. Len(bindings) /\ ValuesRight(bindings, open, initialized)
      BY <2>1, <2>2, <3>1, <3>2 DEF BodyRight
    <3> QED BY <3>2, <3>3, <3>4, <3>5 DEF ValuesRight
  <2> QED BY <2>3, <2>4
<1> QED BY <1>1, <1>2

-----------------------------------------------------------------------------
(* The parts. *)

\* A step is one of its part, and leaves the others as they are.
LEMMA PartSteps ==
  ASSUME [CompilationNext]_allVars
  PROVE  /\ part' = part
         /\ part = "driver" => [Driver!Next]_driverVars
         /\ part = "names" => [Names!Next]_namesVars
         /\ part = "narrowing" => [Narrowing!Next]_(Narrowing!vars)
         /\ part = "balanced" => [Next]_vars
<1>1. narrowingVars' = narrowingVars => Narrowing!vars' = Narrowing!vars
  BY DEF narrowingVars, Narrowing!vars, Narrowing!compilation
<1>2. balancedVars' = balancedVars => vars' = vars
  BY DEF balancedVars
<1>3. CASE part = "driver" /\ Driver!Next /\ UNCHANGED part
  BY <1>3
<1>4. CASE part = "names" /\ Names!Next /\ UNCHANGED part
  BY <1>4
<1>5. CASE part = "narrowing" /\ Narrowing!Next /\ UNCHANGED part
  BY <1>5
<1>6. CASE part = "balanced" /\ Next /\ UNCHANGED part
  BY <1>6
<1>7. CASE UNCHANGED <<part, driverVars, namesVars, narrowingVars, balancedVars>>
  BY <1>1, <1>2, <1>7
<1>8. \/ part = "driver" /\ Driver!Next /\ UNCHANGED part
      \/ part = "names" /\ Names!Next /\ UNCHANGED part
      \/ part = "narrowing" /\ Narrowing!Next /\ UNCHANGED part
      \/ part = "balanced" /\ Next /\ UNCHANGED part
      \/ UNCHANGED <<part, driverVars, namesVars, narrowingVars, balancedVars>>
  BY DEF CompilationNext, allVars
<1> QED BY <1>3, <1>4, <1>5, <1>6, <1>7, <1>8

-----------------------------------------------------------------------------
(* Driver and names: the theorems. *)

\* Whatever lines are given, whatever fails: what is started was made by this
\* invocation from its own source, and each invocation reports what it has to.
THEOREM OwnProgramIsRun == CompilationSpec => []RunsOwnProgram
<1>1. CompilationInit => (part = "driver" => DriverInv)
  BY DriverStarts DEF CompilationInit
<1>2. (part = "driver" => DriverInv) /\ [CompilationNext]_allVars => (part = "driver" => DriverInv)'
  <2> SUFFICES ASSUME part = "driver" => DriverInv, [CompilationNext]_allVars
               PROVE  part' = "driver" => DriverInv'
    OBVIOUS
  <2>1. part' = part /\ (part = "driver" => [Driver!Next]_driverVars)
    BY PartSteps
  <2>2. CASE part = "driver"
    BY <2>1, <2>2, DriverStep
  <2> QED BY <2>1, <2>2
<1>3. (part = "driver" => DriverInv) => RunsOwnProgram
  BY DriverRight DEF RunsOwnProgram
<1> QED BY <1>1, <1>2, <1>3, PTL DEF CompilationSpec

\* Whatever line is given: a request is what the line spells, but for the words between
\* the source and a delimiter, and what is answered with a usage error spells nothing.
THEOREM LinesUnderstood == CompilationSpec => []LineUnderstood
<1>1. CompilationInit => (part = "driver" => LineInv)
  BY DEF CompilationInit, Driver!Init, LineInv
<1>2. (part = "driver" => LineInv) /\ [CompilationNext]_allVars => (part = "driver" => LineInv)'
  <2> SUFFICES ASSUME part = "driver" => LineInv, [CompilationNext]_allVars
               PROVE  part' = "driver" => LineInv'
    OBVIOUS
  <2>1. part' = part /\ (part = "driver" => [Driver!Next]_driverVars)
    BY PartSteps
  <2>2. CASE part = "driver"
    BY <2>1, <2>2, LineStep
  <2> QED BY <2>1, <2>2
<1>3. (part = "driver" => LineInv) => LineUnderstood
  BY LineRight DEF LineUnderstood
<1> QED BY <1>1, <1>2, <1>3, PTL DEF CompilationSpec

\* In every body, however deep its scopes and whatever they hide, a use means the
\* innermost declaration in force, and in no run is a binding read without a value
\* unless a statement of a colon body declared it.
THEOREM NamesMeanNearest == CompilationSpec => []NamesResolved
<1>1. CompilationInit => (part = "names" => NamesInv)
  BY NamesStarts DEF CompilationInit
<1>2. (part = "names" => NamesInv) /\ [CompilationNext]_allVars => (part = "names" => NamesInv)'
  <2> SUFFICES ASSUME part = "names" => NamesInv, [CompilationNext]_allVars
               PROVE  part' = "names" => NamesInv'
    OBVIOUS
  <2>1. part' = part /\ (part = "names" => [Names!Next]_namesVars)
    BY PartSteps
  <2>2. CASE part = "names"
    BY <2>1, <2>2, NamesStep
  <2> QED BY <2>1, <2>2
<1>3. (part = "names" => NamesInv) => NamesResolved
  BY NamesRight DEF NamesResolved
<1> QED BY <1>1, <1>2, <1>3, PTL DEF CompilationSpec
=============================================================================
