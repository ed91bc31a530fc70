---- MODULE Patch ----
(***************************************************************************)
(* What happens to a proposed patch before a candidate is built:           *)
(* internal/candidate.  WorktreeManager.Prepare reads the patch file,      *)
(* repairs the damage a model's diff usually carries (normalize.go),       *)
(* corrects its file headers against the tree (remap.go), writes it back,  *)
(* validates every name in it (patch.go), applies it with git or, failing  *)
(* that, with GNU patch, and judges the files that changed (worktree.go).  *)
(* Verification prepares the written file a second time.                   *)
(*                                                                         *)
(* A line is a record: its kind, the path and namespace of a file header,  *)
(* the counts of a hunk header, and the hunk it was written for (`hunk`,   *)
(* which the code does not see).  A path is the sequence of its segments.  *)
(***************************************************************************)
EXTENDS Integers, Sequences, FiniteSets, SequencesExt

CONSTANTS Tree,           \* the files of the base revision
          Guarded,        \* segments no candidate may touch: testdata, go.mod...
          Unsearched,     \* directories the suffix search skips: .git, vendor
          Sections,       \* the file sections a model may write
          MaxSections,    \* bound: sections of one proposal
          MaxPrepares     \* bound: preparations of one patch

DevNull == <<>>

ASSUME PatchAssumption ==
  DevNull \notin Tree /\ MaxSections \in Nat \ {0} /\ MaxPrepares \in Nat \ {0}

\* What a model may write: hunks of body lines.  The space of the blank ones may
\* be trimmed, empty lines may follow, or a line that no hunk can hold may stand
\* anywhere in the body: after its first `at` lines.
HunkKinds == {"context", "blank", "add", "del"}
Damages == {"none", "slack", "broken"}
IsProposedHunk(h) ==
  /\ h.body \in Seq(HunkKinds)
  /\ h.trimmed \in BOOLEAN
  /\ h.damage \in Damages
  /\ h.at \in 0 .. Len(h.body)

ASSUME SectionsAssumption ==
  \A s \in Sections :
     /\ s.new \in Seq(STRING)
     /\ s.hunks \in Seq({s.hunks[k] : k \in DOMAIN s.hunks})
     /\ \A k \in DOMAIN s.hunks : IsProposedHunk(s.hunks[k])

VARIABLES proposal,       \* the sections the model meant, as it damaged them
          patch,          \* the patch file's lines
          prepare,        \* where Prepare stands
          changed,        \* the worktree's changed files, as git lists them
          prepared        \* the patch file after each successful preparation

patchVars == <<proposal, patch, prepare, changed, prepared>>

Line(kind) == [kind |-> kind, path |-> DevNull, ns |-> FALSE,
               hunk |-> <<0, 0>>, old |-> 0, new |-> 0]

(***************************************************************************)
(* The proposal as text.  A hunk's damage is what models do to a diff.     *)
(***************************************************************************)
BodyLine(id, kind) == [Line(kind) EXCEPT !.hunk = id]
Body(h, id) == [i \in DOMAIN h.body |-> BodyLine(id, h.body[i])]
Written(h, id) ==
  [i \in DOMAIN h.body |->
     BodyLine(id, IF h.trimmed /\ h.body[i] = "blank" THEN "empty" ELSE h.body[i])]

Damaged(h, id) ==
  CASE h.damage = "none"   -> Written(h, id)
    [] h.damage = "slack"  -> Written(h, id) \o <<Line("empty"), Line("empty")>>
    [] h.damage = "broken" -> InsertAt(Written(h, id), h.at + 1, Line("text"))

HunkText(h, id) ==
  <<[Line("hunk") EXCEPT !.hunk = id]>> \o Damaged(h, id)

SectionText(s, n) ==
  <<Line("text"), [Line("old") EXCEPT !.path = s.old, !.ns = s.ns],
                  [Line("new") EXCEPT !.path = s.new, !.ns = s.ns]>>
    \o FlattenSeq([k \in DOMAIN s.hunks |-> HunkText(s.hunks[k], <<n, k>>)])

Text(sections, fenced) ==
  LET bare == FlattenSeq([n \in DOMAIN sections |-> SectionText(sections[n], n)])
  IN IF fenced THEN <<Line("fence")>> \o bare \o <<Line("fence")>> ELSE bare

(***************************************************************************)
(* normalize.go                                                            *)
(***************************************************************************)
IsHunkBody(line) == line.kind \in {"context", "blank", "add", "del"}

\* A version that ends the hunk at every empty line.
FaultBlankContext(body, i) == FALSE

\* blankContextRun: a run of empty lines belongs to the hunk when a body line
\* follows it, and is trailing slack otherwise.
BlankContext(body, i) ==
  /\ body[i].kind = "empty"
  /\ \E end \in i + 1 .. Len(body) :
        /\ IsHunkBody(body[end])
        /\ \A j \in i .. end - 1 : body[j].kind = "empty"

KeepHunkLines(body) ==
  LET Belongs(i) == IsHunkBody(body[i]) \/ BlankContext(body, i)
      first == SelectInSeq([i \in DOMAIN body |-> Belongs(i)], LAMBDA b : ~b)
      kept  == IF first = 0 THEN body ELSE SubSeq(body, 1, first - 1)
  IN [i \in DOMAIN kept |->
        IF kept[i].kind = "empty" THEN [kept[i] EXCEPT !.kind = "blank"] ELSE kept[i]]

CountOf(kept, kinds) == Cardinality({i \in DOMAIN kept : kept[i].kind \in kinds})
OldCount(kept) == CountOf(kept, {"context", "blank", "del"})
NewCount(kept) == CountOf(kept, {"context", "blank", "add"})

\* normalizeHunk: the empty sequence is its nil.
NormalizedHunk(header, body) ==
  LET kept == KeepHunkLines(body)
  IN IF OldCount(kept) = 0 /\ NewCount(kept) = 0
       THEN <<>>
       ELSE <<[header EXCEPT !.old = OldCount(kept), !.new = NewCount(kept)]>> \o kept

\* collectHunkBody: where the body of the hunk whose header is line i ends.
BodyEnd(lines, i) ==
  LET next == SelectInSubSeq(lines, i + 1, Len(lines),
                             LAMBDA line : line.kind \in {"hunk", "old"})
  IN IF next = 0 THEN Len(lines) ELSE next - 1

\* applyNormalizedHunk.  An emptied hunk that opens its file section takes the
\* section's headers with it.
HunkDone(scan, lines) ==
  LET end  == BodyEnd(lines, scan.at)
      norm == NormalizedHunk(lines[scan.at], SubSeq(lines, scan.at + 1, end))
      out  == IF norm = <<>> /\ scan.headers > 0
                THEN SubSeq(scan.out, 1, scan.headers - 1) ELSE scan.out \o norm
  IN [out |-> out, headers |-> IF norm = <<>> /\ scan.headers = 0 THEN scan.headers ELSE 0,
      at |-> end + 1]

\* appendNonHunk: an opening fence goes; a header pair is remembered.
NonHunkDone(scan, lines) ==
  LET line == lines[scan.at]
      pair == /\ line.kind = "old"
              /\ scan.at < Len(lines)
              /\ lines[scan.at + 1].kind = "new"
  IN IF line.kind = "fence" THEN [scan EXCEPT !.at = @ + 1]
     ELSE IF pair
       THEN [out |-> scan.out \o <<line, lines[scan.at + 1]>>,
             headers |-> Len(scan.out) + 1, at |-> scan.at + 2]
       ELSE [scan EXCEPT !.out = Append(@, line), !.at = @ + 1]

NormalizeUnifiedDiff(lines) ==
  LET turn[k \in 0 .. Len(lines)] ==
        IF k = 0 THEN [out |-> <<>>, headers |-> 0, at |-> 1]
        ELSE LET scan == turn[k - 1]
             IN IF scan.at > Len(lines) THEN scan
                ELSE IF lines[scan.at].kind = "hunk"
                  THEN HunkDone(scan, lines) ELSE NonHunkDone(scan, lines)
  IN IF \E i \in DOMAIN lines : lines[i].kind = "hunk"
       THEN turn[Len(lines)].out ELSE lines

(***************************************************************************)
(* remap.go                                                                *)
(***************************************************************************)
IsHeader(line) == line.kind \in {"old", "new"}
Touches(path, segments) == \E i \in DOMAIN path : path[i] \in segments

\* uniqueSuffixMatch: the files whose path ends with the target.
SuffixMatches(target) ==
  {file \in Tree : IsSuffix(target, file) /\ ~ Touches(file, Unsearched)}

RemapHeader(line) ==
  IF ~ IsHeader(line) \/ line.path = DevNull THEN line
  ELSE IF line.path \in Tree THEN [line EXCEPT !.ns = TRUE]
  ELSE IF Cardinality(SuffixMatches(line.path)) = 1
    THEN [line EXCEPT !.ns = TRUE,
                      !.path = CHOOSE file \in SuffixMatches(line.path) : TRUE]
    ELSE line

RemapDiffPaths(lines) == [i \in DOMAIN lines |-> RemapHeader(lines[i])]

(***************************************************************************)
(* patch.go                                                                *)
(***************************************************************************)
RejectPatchPath(path) == path = DevNull \/ path[1] = ".." \/ Touches(path, Guarded)

\* stripComponent: -p1 takes the first segment of a name without a namespace.
StripComponent(path) == IF Len(path) > 1 THEN Tail(path) ELSE path

\* checkNamedPath: a name has to pass as written and as -p1 reads it.
NameRefused(line) ==
  /\ IsHeader(line)
  /\ line.path # DevNull
  /\ \/ RejectPatchPath(line.path)
     \/ ~ line.ns /\ RejectPatchPath(StripComponent(line.path))

ValidateUnifiedDiff(lines) ==
  /\ ~ \E i \in DOMAIN lines : NameRefused(lines[i])
  /\ \E i \in DOMAIN lines : IsHeader(lines[i]) /\ lines[i].path # DevNull
  /\ \E i \in DOMAIN lines : lines[i].kind = "hunk"

(***************************************************************************)
(* git apply and GNU patch, as Prepare uses them.                          *)
(***************************************************************************)
\* The header line that names the file a hunk applies to; 0 when none does.
HeaderOver(lines, i) ==
  SelectLastInSubSeq(lines, 1, i - 1, LAMBDA line : line.kind = "new")
PathRead(line) == IF line.ns THEN line.path ELSE StripComponent(line.path)
Hunks(lines) == {i \in DOMAIN lines : lines[i].kind = "hunk"}

\* git apply --check: every hunk stands under the header of a file of the tree.
GitReads(lines) ==
  \A i \in Hunks(lines) :
     HeaderOver(lines, i) # 0 /\ PathRead(lines[HeaderOver(lines, i)]) \in Tree
GitTargets(lines) == {PathRead(lines[HeaderOver(lines, i)]) : i \in Hunks(lines)}

(***************************************************************************)
(* Prepare                                                                 *)
(***************************************************************************)
PatchInit ==
  /\ proposal = <<>>
  /\ patch = <<>>
  /\ prepare = "none"
  /\ changed = {}
  /\ prepared = <<>>

Propose ==
  /\ prepare = "none"
  /\ \E n \in 1 .. MaxSections : \E sections \in [1 .. n -> Sections],
                                    fenced \in BOOLEAN :
        /\ proposal' = sections
        /\ patch' = Text(sections, fenced)
  /\ prepare' = "proposed"
  /\ UNCHANGED <<changed, prepared>>

\* loadPreparedPatch: what it repairs is written back to the patch file.
LoadPreparedPatch ==
  /\ prepare = "proposed"
  /\ patch' = RemapDiffPaths(NormalizeUnifiedDiff(patch))
  /\ prepare' = "loaded"
  /\ UNCHANGED <<proposal, changed, prepared>>

\* ValidateUnifiedDiff, then CreateWorktree.
ValidatePatch ==
  /\ prepare = "loaded"
  /\ prepare' = IF ValidateUnifiedDiff(patch) THEN "worktree" ELSE "refused"
  /\ UNCHANGED <<proposal, patch, changed, prepared>>

ApplyPatch ==
  /\ prepare = "worktree"
  /\ GitReads(patch)
  /\ changed' = GitTargets(patch)
  /\ prepare' = "applied"
  /\ UNCHANGED <<proposal, patch, prepared>>

\* GNU patch picks its targets by its own rules: any files of the tree.
ApplyPatchFuzzy ==
  /\ prepare = "worktree"
  /\ changed' \in SUBSET Tree \ {{}}
  /\ prepare' = "applied"
  /\ UNCHANGED <<proposal, patch, prepared>>

\* ErrPatchDoesNotApply: the worktree is closed.
PatchDoesNotApply ==
  /\ prepare = "worktree"
  /\ prepare' = "refused"
  /\ UNCHANGED <<proposal, patch, changed, prepared>>

RejectProtectedChanges(files) == \E file \in files : RejectPatchPath(file)

JudgeWorktree ==
  /\ prepare = "applied"
  /\ IF RejectProtectedChanges(changed)
       THEN /\ prepare' = "refused"
            /\ changed' = {}
            /\ UNCHANGED prepared
       ELSE /\ prepare' = "prepared"
            /\ prepared' = Append(prepared, patch)
            /\ UNCHANGED changed
  /\ UNCHANGED <<proposal, patch>>

\* The evaluation closes the worktree; verification prepares the file it wrote.
PrepareAgain ==
  /\ prepare = "prepared"
  /\ Len(prepared) < MaxPrepares
  /\ prepare' = "proposed"
  /\ changed' = {}
  /\ UNCHANGED <<proposal, patch, prepared>>

PatchNext ==
  \/ Propose \/ LoadPreparedPatch \/ ValidatePatch
  \/ ApplyPatch \/ ApplyPatchFuzzy \/ PatchDoesNotApply
  \/ JudgeWorktree \/ PrepareAgain

PatchSpec == PatchInit /\ [][PatchNext]_patchVars

(***************************************************************************)
(* Properties                                                              *)
(***************************************************************************)
Proposed(id) == proposal[id[1]].hunks[id[2]]

\* How many lines a hunk has before the first one that no hunk can hold: blank
\* lines whose space was trimmed do not count when no line of it follows them.
Left(h) ==
  LET cut == IF h.damage = "broken" THEN h.at ELSE Len(h.body)
  IN IF h.trimmed
       THEN SelectLastInSubSeq(h.body, 1, cut, LAMBDA kind : kind # "blank")
       ELSE cut
Legible(id) == SubSeq(Body(Proposed(id), id), 1, Left(Proposed(id)))
Emptied(id) == Left(Proposed(id)) = 0

HunkAt(lines, i) == SubSeq(lines, i + 1, BodyEnd(lines, i))

\* The hunk whose header is line i holds the proposed lines, and says its own size.
Repaired(lines, i) ==
  LET legible == Legible(lines[i].hunk)
  IN /\ HunkAt(lines, i) = legible
     /\ lines[i].old = OldCount(legible)
     /\ lines[i].new = NewCount(legible)

\* Line i's hunk stands under the header of the file it was proposed for, when
\* the base revision has a file that name can only mean.
InItsFile(lines, i) ==
  LET named == proposal[lines[i].hunk[1]].new
      meant == {file \in Tree : named # DevNull /\ IsSuffix(named, file)}
  IN \A file \in meant :
       (named = file \/ (meant = {file} /\ ~ Touches(file, Unsearched))) =>
          /\ HeaderOver(lines, i) # 0
          /\ PathRead(lines[HeaderOver(lines, i)]) = file

\* The section of hunk id kept its headers: an emptied first hunk takes them.
Headed(id) == ~ Emptied(<<id[1], 1>>)
ProposedHunks == UNION {{<<n, k>> : k \in DOMAIN proposal[n].hunks} :
                          n \in DOMAIN proposal}

\* A prepared patch is the proposal, less what could not be read of it: every hunk
\* of the patch file is one that was proposed, with the same lines up to the first
\* that no hunk can hold, and its own counts; one is gone only when no line of it
\* is left; each stands under the file it was proposed for when the first hunk of
\* its section was kept; no guarded file changed whichever tool applied it; and
\* preparing the file again, as verification does, leaves it as it is
\* (NormalizeUnifiedDiff, RemapDiffPaths, rejectProtectedChanges).
PreparedIsTheProposal ==
  prepare = "prepared" =>
     /\ \A i \in Hunks(patch) : Repaired(patch, i)
     /\ {patch[i].hunk : i \in Hunks(patch)} = {id \in ProposedHunks : ~ Emptied(id)}
     /\ \A i \in Hunks(patch) : Headed(patch[i].hunk) => InItsFile(patch, i)
     /\ \A file \in changed : ~ RejectPatchPath(file)
     /\ \A n \in DOMAIN prepared : prepared[n] = patch
====
