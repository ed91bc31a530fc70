----------------------------- MODULE MCServices -----------------------------
(***************************************************************************)
(* The parts that work for an evaluation or a discovery, side by side.     *)
(* They share no variable, so a behaviour of the run is a behaviour of one *)
(* part, `part`, and the others stay where they start: every part is       *)
(* explored whole, and none multiplies another.                            *)
(***************************************************************************)
EXTENDS MCMeasurement, BaselineRun, Evaluation, JevQuestions, JevPreflight,
        Executor, Discovery, CauseTargets, PairedSeries, Patch

(* Evaluation: the go test outputs of the base and of candidates.          *)
Test(pkg, top, sub, at) == [pkg |-> pkg, top |-> top, sub |-> sub, at |-> at]
Ends(test, action) == [test |-> test, action |-> action]
Output(results, dead, unbuilt, exit) ==
    [readable |-> TRUE, exit |-> exit, results |-> results, dead |-> dead,
     unbuilt |-> unbuilt]
Silent == [readable |-> FALSE, exit |-> 1, results |-> {}, dead |-> {}, unbuilt |-> {}]
TestA(action) == Ends(Test("p", "A", "", 0), action)
TestS == Ends(Test("p", "S", "", 0), "pass")
SubTest(name) == Ends(Test("p", "S", name, 0), "pass")
TestB(action) == Ends(Test("q", "B", "", 0), action)
TestsPS == {TestS, SubTest("1"), SubTest("2")}

MCBaseOutputs ==
    {Output(TestsPS \cup {TestA("pass"), TestB("fail")}, {"q"}, {}, 1),
     Output({TestA("pass"), TestS, SubTest("1"), TestB("fail")}, {"q"}, {}, 1),
     Output({TestA("pass"), TestS, SubTest("2"), TestB("pass")}, {"r"}, {"r"}, 1),
     Output(TestsPS \cup {TestA("pass")}, {"q"}, {"q"}, 1),
     Output(TestsPS \cup {TestB("fail")}, {"q"}, {}, 1),
     Silent, Output({}, {"q"}, {}, 1),
     Output({TestA("pass"), TestS, SubTest("1")}, {}, {}, 1)}
MCCandidateOutputs ==
    {Output(TestsPS \cup {TestA("pass"), TestB("fail")}, {"q"}, {}, 1),
     Output({TestA("pass"), TestS, SubTest("1"), TestB("pass")}, {}, {}, 0),
     Output({TestA("pass"), TestS, SubTest("3"), TestB("pass")}, {}, {}, 0),
     Output(TestsPS \cup {TestB("pass")}, {}, {}, 0),
     Output(TestsPS \cup {TestA("skip"), TestB("pass")}, {}, {}, 0),
     Output(TestsPS \cup {TestA("fail"), TestB("pass")}, {"p"}, {}, 1),
     Output(TestsPS \cup {TestA("pass")}, {"q"}, {"q"}, 1),
     Silent, [Silent EXCEPT !.exit = 0]}

(* Discovery: a small program, its stacks and its seeds.                   *)
MCSymbols == <<"bufio.Flush", "main.emit", "main.load", "main.print", "read",
               "runtime.asmcgocall", "syscall.read", "syscall.write", "write">>
MCOwn == {"main.print", "main.load", "main.emit"}
MCGoSyscall == [s \in {"syscall.read", "syscall.write"} |->
                  IF s = "syscall.read" THEN "read" ELSE "write"]
MCActionable == MCOwn \cup {"bufio.Flush", "syscall.read", "syscall.write"}
MCLocationOf == [s \in {MCSymbols[i] : i \in DOMAIN MCSymbols} |->
                   CASE s \in {"main.print", "main.emit"} -> "print.go"
                     [] s = "main.load" -> "load.go"
                     [] OTHER -> s]
Stack(frames, weight) == [frames |-> frames, weight |-> weight]
MCProfiles ==
    {<<Stack(<<"syscall.write", "main.emit", "main.load">>, 1),
       Stack(<<"syscall.write", "bufio.Flush", "main.print">>, 2),
       Stack(<<"write", "runtime.asmcgocall">>, 7)>>,
     <<Stack(<<"main.load">>, 3),
       Stack(<<"syscall.read", "main.load">>, 1),
       Stack(<<"read", "runtime.asmcgocall">>, 4),
       Stack(<<"write", "runtime.asmcgocall">>, 5)>>}
Seed(id, stress, weight, repeatable) ==
    [id |-> id, stress |-> stress, eligible |-> TRUE, weight |-> weight,
     repeatable |-> repeatable, stdin |-> TRUE]
MCDiscoverySeeds ==
    <<Seed("one", FALSE, 3, FALSE), Seed("big", TRUE, 2, FALSE),
      [Seed("huge", TRUE, 2, FALSE) EXCEPT !.eligible = FALSE]>>
MCVariantLists == {<<>>, <<Seed("one --stream", FALSE, 3, TRUE)>>}
MCBenchmarkHot == <<"bench.go">>
MCAllocationHot == <<"load.go", "bench.go">>

(* Paired series: no position effect, a constant one, a growing one.       *)
MCPositionEffects ==
    {[i \in 1 .. Pairs |-> 0], [i \in 1 .. Pairs |-> 2], [i \in 1 .. Pairs |-> i]}
MCEffects == {0, -9, 9}
MCMoves == {-2, 0, 2}
MCSeedSteps == <<"a", "b">>

(* Patches: files whose names are suffixes of one another; hunks broken    *)
(* before, in and after their lines, with and without their blanks' space. *)
MCTree == {<<"cmd", "main">>, <<"lib", "io">>, <<"lib", "net", "io">>, <<"go.mod">>}
Whole == <<"context", "del", "add">>
Blanks == <<"blank", "del", "blank", "blank", "add", "blank">>
Hunk(body, trimmed, damage, at) ==
    [body |-> body, trimmed |-> trimmed, damage |-> damage, at |-> at]
Sound(body) == Hunk(body, FALSE, "none", 0)
Broken(body, at) == Hunk(body, FALSE, "broken", at)
FileSection(old, new, ns, hunks) == [old |-> old, new |-> new, ns |-> ns, hunks |-> hunks]
Edits(path, ns, hunks) == FileSection(path, path, ns, hunks)
MCSections ==
    {Edits(<<"cmd", "main">>, TRUE, <<Sound(Whole), Hunk(Blanks, TRUE, "none", 0)>>),
     Edits(<<"main">>, TRUE, <<Hunk(Blanks, TRUE, "slack", 0), Broken(Whole, 0)>>),
     Edits(<<"lib", "io">>, FALSE, <<Broken(Whole, 3), Hunk(Blanks, TRUE, "broken", 4)>>),
     Edits(<<"lib", "io">>, TRUE, <<Broken(Whole, 0), Sound(Blanks)>>),
     Edits(<<"net", "io">>, FALSE, <<Broken(Whole, 2), Hunk(Blanks, TRUE, "broken", 1)>>),
     Edits(<<"io">>, TRUE, <<Sound(Whole)>>),
     FileSection(<<"go.mod">>, <<"cmd", "main">>, TRUE, <<Sound(Whole)>>),
     FileSection(DevNull, <<"cmd", "new">>, TRUE, <<Broken(<<"add", "add">>, 1)>>)}

(* Targets: a loop with a vetoed cause, a formatter whose result may be    *)
(* thrown away, an oversized function, and another revision.               *)
Scores(z) == [c \in Range(CauseOrder) |-> IF c \in DOMAIN z THEN z[c] ELSE 0]
Declared(name, z, yes, kinds, absent, consumers) ==
    [declaration |-> name, fits |-> TRUE, z |-> Scores(z), yes |-> yes,
     kinds |-> kinds, absent |-> absent, consumers |-> consumers]
MCLoop == Declared("loop",
    [unbuffered_io |-> 6, alloc |-> 3, fast_path |-> 9, prealloc |-> 4, redundant |-> 2],
    {"alloc", "unbuffered_io", "fast_path", "prealloc", "redundant"},
    [al_conversion |-> 2, al_stack_scratch |-> 0, al_size_hint |-> -1], {"prealloc"}, 0)
MCFormat == Declared("format", [string_build |-> 5, superlinear |-> 4, alloc |-> 9],
    {"string_build", "superlinear"}, [sb_builder |-> 1], {}, 2)
MCScan == Declared("scan", [fast_path |-> 9, string_build |-> 2],
    {"fast_path", "string_build"}, [sb_builder |-> 1], {}, 0)
MCProgram == [l \in {"a:1", "a:9", "b:1", "c:1"} |->
                CASE l = "b:1" -> MCFormat
                  [] l = "c:1" -> [MCFormat EXCEPT !.declaration = "options", !.fits = FALSE]
                  [] OTHER -> MCLoop]
MCEvidence ==
    [cpu  |-> [revision |-> "r1", memory |-> FALSE, hot |-> <<"c:1", "a:1", "a:9", "b:1">>,
               writes |-> <<"gone:1", "a:1">>,
               at |-> [MCProgram EXCEPT !["b:1"].consumers = 0]],
     lean |-> [revision |-> "r1", memory |-> TRUE, hot |-> <<"a:1", "gone:1", "b:1">>,
               writes |-> <<>>, at |-> MCProgram],
     old  |-> [revision |-> "r2", memory |-> FALSE, hot |-> <<"b:1">>, writes |-> <<>>,
               at |-> [l \in {"b:1"} |-> MCScan]]]

VARIABLE part   \* the part this behaviour is of

allVars == <<part, vars, baselineVars, evaluationVars, jevVars, preflight,
             executorVars, discoveryVars, targetVars, pairVars, patchVars>>

(* The one start of a part this behaviour is not of.                       *)
MeasurementIdle == seeds = <<>> /\ ~sized
PairsIdle == /\ world.position = [i \in 1 .. Pairs |-> 0]
             /\ world.effect = 0 /\ world.odd = Repeatable

ServicesInit ==
    /\ part \in {"measurement", "baseline", "evaluation", "jev", "preflight",
                 "executor", "discovery", "targets", "pairs", "patch"}
    /\ Init /\ BaselineInit /\ EvaluationInit /\ JevInit /\ PreflightInit
    /\ ExecutorInit /\ DiscoveryInit /\ TargetsInit /\ SeriesInit /\ PatchInit
    /\ part # "measurement" => MeasurementIdle
    /\ part # "pairs" => PairsIdle

MeasurementPart ==
    /\ part = "measurement" /\ Next
    /\ UNCHANGED <<part, baselineVars, evaluationVars, jevVars, preflight,
                   executorVars, discoveryVars, targetVars, pairVars, patchVars>>
BaselinePart ==
    /\ part = "baseline" /\ BaselineNext
    /\ UNCHANGED <<part, vars, evaluationVars, jevVars, preflight,
                   executorVars, discoveryVars, targetVars, pairVars, patchVars>>
EvaluationPart ==
    /\ part = "evaluation" /\ EvaluationNext
    /\ UNCHANGED <<part, vars, baselineVars, jevVars, preflight,
                   executorVars, discoveryVars, targetVars, pairVars, patchVars>>
JevPart ==
    /\ part = "jev" /\ JevNext
    /\ UNCHANGED <<part, vars, baselineVars, evaluationVars, preflight,
                   executorVars, discoveryVars, targetVars, pairVars, patchVars>>
PreflightPart ==
    /\ part = "preflight" /\ PreflightNext
    /\ UNCHANGED <<part, vars, baselineVars, evaluationVars, jevVars,
                   executorVars, discoveryVars, targetVars, pairVars, patchVars>>
ExecutorPart ==
    /\ part = "executor" /\ ExecutorNext
    /\ UNCHANGED <<part, vars, baselineVars, evaluationVars, jevVars,
                   preflight, discoveryVars, targetVars, pairVars, patchVars>>
DiscoveryPart ==
    /\ part = "discovery" /\ DiscoveryNext
    /\ UNCHANGED <<part, vars, baselineVars, evaluationVars, jevVars,
                   preflight, executorVars, targetVars, pairVars, patchVars>>
TargetsPart ==
    /\ part = "targets" /\ TargetsNext
    /\ UNCHANGED <<part, vars, baselineVars, evaluationVars, jevVars,
                   preflight, executorVars, discoveryVars, pairVars, patchVars>>
PairsPart ==
    /\ part = "pairs" /\ SeriesNext
    /\ UNCHANGED <<part, vars, baselineVars, evaluationVars, jevVars,
                   preflight, executorVars, discoveryVars, targetVars, patchVars>>
PatchPart ==
    /\ part = "patch" /\ PatchNext
    /\ UNCHANGED <<part, vars, baselineVars, evaluationVars, jevVars,
                   preflight, executorVars, discoveryVars, targetVars, pairVars>>

ServicesNext ==
    \/ MeasurementPart \/ BaselinePart \/ EvaluationPart \/ JevPart
    \/ PreflightPart \/ ExecutorPart \/ DiscoveryPart \/ TargetsPart \/ PairsPart \/ PatchPart

ServicesSpec == ServicesInit /\ [][ServicesNext]_allVars

=============================================================================
