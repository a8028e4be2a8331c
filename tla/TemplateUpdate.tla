--------------------------- MODULE TemplateUpdate ---------------------------
(***************************************************************************)
(* A project made from the template.  A repository is a copy of one of the *)
(* template's commits, until init replaces it in place by what the release *)
(* of that commit's version generates.  Later a script brings releases of  *)
(* the template into it or changes its features: it generates the project  *)
(* as it was and as it would be, and merges the difference.                *)
(*                                                                         *)
(*   scripts/template-update.mjs   scripts/template-source.mjs             *)
(*   template/init.mjs                                                     *)
(*                                                                         *)
(* A file is its hunks, and a hunk's text is the template commit it was    *)
(* last changed in, or one of the values below; two changes contend when   *)
(* they are in one hunk.  Hunks between marker lines are there only with   *)
(* a feature they name.  Each commit has a manifest and markers of its     *)
(* own: a path or a hunk may come to belong to other features.  A path     *)
(* stands for its directory too, which can hold files that git ignores.    *)
(* Not modelled: sources without a tag, identities and overrides,          *)
(* descriptions, the dry run, which stops before it writes.                *)
(***************************************************************************)
EXTENDS Integers, Sequences, FiniteSets

CONSTANTS
  Paths, Hunks, Features,
  Commits,        \* the template's releases, in order, and where a tag may be moved to
  VersionOf,      \* the version the manifest of each commit declares
  Templates,      \* histories: each commit's text, features, manifest and markers
  Copies,         \* commits a repository is made from
  Starts,         \* bound: selections a project is made with
  MaxUpdates,     \* bound: runs of the script that write
  MaxEdits        \* bound: changes of the project's own, and builds

ASSUME TemplateAssumption ==
  /\ Commits \subseteq Nat \ {0}
  /\ 1 \in Commits
  /\ Hunks # {}
  /\ VersionOf \in [Commits -> Nat]
  /\ Copies \subseteq Commits
  /\ Starts \subseteq SUBSET Features
  /\ MaxUpdates \in Nat /\ MaxEdits \in Nat

VARIABLES
  template,   \* the history of the template
  tag,        \* the commit each version's tag names
  head,       \* the project as last committed
  work,       \* the project's working tree
  ignored,    \* the paths with files that git ignores: dependencies, build output
  exit,       \* how the step's run of the script ended, "none" for other steps
  updates,    \* runs of the script that wrote so far
  edits       \* changes of the project's own so far, and builds

vars == <<template, tag, head, work, ignored, exit, updates, edits>>

Mine == 0          \* text the project wrote
MarkedOut == -1    \* the text of a hunk whose markers name no selected feature
NoText == -2       \* there is no file
Conflict(theirs) == -10 - theirs      \* both texts, between conflict markers
TheirsOf(text) == -10 - text
InConflict(text) == text < NoText

Absent == [h \in Hunks |-> NoText]
Versions == { VersionOf[c] : c \in Commits }

ASSUME HistoryAssumption ==
  \A history \in Templates :
    /\ history.text \in [Commits -> [Paths -> {Absent} \cup [Hunks -> Commits]]]
    /\ history.known \in [Commits -> SUBSET Features]
    /\ history.owners \in [Commits -> [Paths -> SUBSET Features]]
    /\ history.marks \in [Commits -> [Hunks -> [ids : SUBSET Features, all : BOOLEAN]]]
    /\ \A c \in Commits :
         /\ \A p \in Paths : history.owners[c][p] \subseteq history.known[c]
         /\ \A h \in Hunks : history.marks[c][h].ids \subseteq history.known[c]

(* A release tag names the first commit of its version until it is moved. *)
FirstOf(v) == CHOOSE c \in Commits :
                VersionOf[c] = v /\ \A d \in Commits : VersionOf[d] = v => c <= d

-----------------------------------------------------------------------------
(* What init generates from a commit for a selection of features. *)

(* A path that no feature owns is in every project. *)
removedPaths(commit, features) ==
  { p \in Paths :
      /\ template.owners[commit][p] # {}
      /\ template.owners[commit][p] \cap features = {} }

Kept(mark, features) ==
  IF mark.all THEN mark.ids \subseteq features ELSE mark.ids \cap features # {}

applyMarkers(commit, text, features) ==
  [h \in Hunks |-> IF Kept(template.marks[commit][h], features) THEN text[h] ELSE MarkedOut]

plan(commit, features) ==
  [p \in { q \in Paths : template.text[commit][q] # Absent } \ removedPaths(commit, features) |->
     applyMarkers(commit, template.text[commit][p], features)]

renderMain(commit, features) ==
  LET result == plan(commit, features)
  IN [p \in Paths |-> IF p \in DOMAIN result THEN result[p] ELSE Absent]

(* The initializer of the commit itself runs, in a checkout of it. *)
generateSource(commit, features) == renderMain(commit, features)

-----------------------------------------------------------------------------
(* The lines of the changelog that record where the project is. *)

Initialized(v, features) == [version |-> v, named |-> TRUE, features |-> features]
UpdatedTo(v, named, features) ==
  [version |-> v, named |-> named, features |-> IF named THEN features ELSE {}]

(* Of the lines of the highest version, the first. *)
Newest(log, from) ==
  CHOOSE i \in from : \A j \in from :
    log[i].version > log[j].version \/ (log[i].version = log[j].version /\ i <= j)

readOrigin(log) ==
  [version |-> log[Newest(log, DOMAIN log)].version,
   features |-> log[Newest(log, {i \in DOMAIN log : log[i].named})].features]

(* Faults: the line goes below the others; it goes under every heading. *)
RecordAtEnd(project, line) ==
  [project EXCEPT !.log = Append(@, line)]

RecordTwice(project, line) ==
  [project EXCEPT !.log = <<line, line>> \o @]

(* heading: the lines above the heading, -1 when there is no heading. *)
recordUpdate(project, line) ==
  IF project.heading = -1
  THEN [project EXCEPT !.heading = Len(project.log), !.log = Append(@, line)]
  ELSE [project EXCEPT !.log = SubSeq(@, 1, project.heading) \o <<line>>
                               \o SubSeq(@, project.heading + 1, Len(@))]

-----------------------------------------------------------------------------
(* What a run finds.  A request r asks for a version, and features more    *)
(* or less; one that asks for a feature both ways is refused either way.   *)

Requests == { r \in [to : Versions, add : SUBSET Features, remove : SUBSET Features] :
                r.add \cap r.remove = {} }

HasOrigin == work.recorded \/ work.log # <<>>

(* A project made before there was a record of its source: the changelog. *)
origin ==
  IF work.recorded
  THEN [version |-> VersionOf[work.source.commit], commit |-> work.source.commit,
        features |-> work.source.features]
  ELSE LET found == readOrigin(work.log)
       IN [version |-> found.version, commit |-> FirstOf(found.version),
           features |-> found.features]

changesSelection(r) == r.add # {} \/ r.remove # {}

known(r) == template.known[tag[r.to]]

newFeatures(r) ==
  IF changesSelection(r)
  THEN known(r) \cap ((origin.features \cup r.add) \ r.remove)
  ELSE origin.features

(* A fault: the tag of the recorded release is taken as it is now. *)
NeverMoved == TRUE

resolveSource == tag[origin.version] = origin.commit

CanGenerate(r) ==
  /\ HasOrigin
  /\ work = head
  /\ r.add \cap origin.features = {}
  /\ r.remove \subseteq origin.features
  /\ r.to >= origin.version
  /\ resolveSource
  /\ r.add \subseteq known(r)
  /\ newFeatures(r) \subseteq known(r)

IsCurrent(r) ==
  work.recorded /\ tag[r.to] = tag[origin.version] /\ ~changesSelection(r)

before == generateSource(tag[origin.version], origin.features)
after(r) == generateSource(tag[r.to], newFeatures(r))

Has(p) == work.files[p] # Absent

Added(r) ==
  LET old == before  new == after(r)
  IN { p \in Paths : old[p] = Absent /\ new[p] # Absent }
Deleted(r) ==
  LET old == before  new == after(r)
  IN { p \in Paths : old[p] # Absent /\ new[p] = Absent }
Modified(r) ==
  LET old == before  new == after(r)
  IN { p \in Paths : old[p] # Absent /\ new[p] # Absent /\ old[p] # new[p] }

(* A fault: a change to a file the project removed is kept in the patch. *)
NothingSkipped(r) == {}

skipped(r) == { p \in Modified(r) \cup Deleted(r) : ~Has(p) }

(* Faults: a file is deleted whatever the project made of it; a file of    *)
(* the project's own stays behind.                                         *)
NoneEdited(r) == {}
NoneOwn(r) == {}

edited(r) == { p \in Deleted(r) : Has(p) /\ work.files[p] # before[p] }
occupied(r) == { p \in Added(r) : Has(p) /\ work.files[p] # after(r)[p] }

(* What the features taken out owned, as the release of the project has    *)
(* it, and no feature that stays owns, as the release asked for has it.    *)
removed(r) == { p \in Paths : template.owners[origin.commit][p] \cap r.remove # {} }
kept(r) == { p \in Paths : template.owners[tag[r.to]][p] \cap newFeatures(r) # {} }

own(r) == { p \in removed(r) \ kept(r) : Has(p) /\ before[p] = Absent }

blocked(r) == edited(r) \cup occupied(r) \cup own(r)

-----------------------------------------------------------------------------
(* git apply --3way. *)

patched(r) == (Added(r) \cup Deleted(r) \cup Modified(r)) \ skipped(r)

(* A fault: the template's text replaces the project's. *)
MergeTheirs(ours, base, theirs) ==
  [h \in Hunks |-> IF base[h] = theirs[h] THEN ours[h] ELSE theirs[h]]

Merge(ours, base, theirs) ==
  [h \in Hunks |->
    IF base[h] = theirs[h] THEN ours[h]
    ELSE IF ours[h] \in {base[h], theirs[h]} THEN theirs[h]
    ELSE Conflict(theirs[h])]

Patched(r, done) ==
  LET base == before
      theirs == after(r)
      merged == { p \in Modified(r) : Has(p) }
  IN [p \in Paths |->
       IF p \notin done THEN work.files[p]
       ELSE IF p \in merged THEN Merge(work.files[p], base[p], theirs[p])
       ELSE theirs[p]]

(* It cannot merge a deletion with an edit, add over a file, or change a   *)
(* file that is not there: it stops with some of the files done.           *)
GitApplies(r) ==
  /\ \A p \in Added(r) \cap patched(r) : work.files[p] \in {Absent, after(r)[p]}
  /\ \A p \in Deleted(r) \cap patched(r) : work.files[p] = before[p]
  /\ \A p \in Modified(r) \cap patched(r) : Has(p)

conflicts(files) == { p \in Paths : \E h \in Hunks : InConflict(files[p][h]) }

Target(r) == [commit |-> tag[r.to], features |-> newFeatures(r)]

(* The directories that no tracked file is left in go whole, but only      *)
(* after a patch: when no file is left to change, the run ends before.     *)
same(r) == { p \in Added(r) : work.files[p] = after(r)[p] }

emptied(r) == { p \in removed(r) \ kept(r) : Patched(r, patched(r))[p] = Absent }

Cleared(r) == IF patched(r) \subseteq same(r) THEN ignored ELSE ignored \ emptied(r)

(* The paths the project did without, kept to tell what it misses. *)
StillGone(r, done) == work.gone \ (Added(r) \cap done)

Recorded(r) ==
  [recordUpdate(work, UpdatedTo(r.to, changesSelection(r), newFeatures(r)))
    EXCEPT !.files = Patched(r, patched(r)),
           !.gone = StillGone(r, patched(r)),
           !.source = Target(r),
           !.recorded = TRUE,
           !.torn = IF @ \subseteq {Target(r)} THEN {} ELSE @]

-----------------------------------------------------------------------------
(* The run that makes the project.  It removes the copy's files, then      *)
(* writes those generated, the changelog and the record among them.        *)

Stops == UNCHANGED <<template, tag, head, work, ignored, updates, edits>>

assertClean == work = head

(* The release of the version that the copy's own manifest declares. *)
Snapshot == tag[VersionOf[work.source.commit]]

resolveSelection(features) == features \subseteq template.known[Snapshot]

CanInitialize(features) ==
  /\ work.made = "copy"
  /\ assertClean
  /\ resolveSelection(features)

Generated(features) == generateSource(Snapshot, features)

Made(features) ==
  [files |-> Generated(features),
   gone |-> {},
   source |-> [commit |-> Snapshot, features |-> features],
   recorded |-> TRUE,
   log |-> <<Initialized(VersionOf[Snapshot], features)>>,
   heading |-> 0,
   torn |-> {},
   made |-> "project"]

(* What the manifest of the copy itself has removed, whole.  The release   *)
(* may have it all the same, and then its files are written after.         *)
bootstrapPaths(features) == removedPaths(work.source.commit, features)

(* Also when the release is not yet published, or cannot be looked up. *)
RefuseToInitialize ==
  /\ work.made # "project"
  /\ exit' = "refused"
  /\ Stops

Initialize(features) ==
  /\ CanInitialize(features)
  /\ work' = Made(features)
  /\ ignored' = ignored \ bootstrapPaths(features)
  /\ exit' = "initialized"
  /\ UNCHANGED <<template, tag, head, updates, edits>>

(* Its initializer may be gone already, and the tree is no longer clean. *)
StopInitialize(features) ==
  /\ CanInitialize(features)
  /\ LET files == Generated(features)
         leftover == { p \in Paths : Has(p) /\ (files[p] = Absent \/ p \in bootstrapPaths(features)) }
     IN \E gone, written \in SUBSET Paths, cleared \in SUBSET bootstrapPaths(features),
          line, record \in BOOLEAN :
          /\ gone \subseteq leftover
          /\ written \subseteq { p \in Paths : files[p] # Absent }
          /\ written # {} \/ line \/ record =>
               gone = leftover /\ cleared = bootstrapPaths(features)
          /\ work' = [work EXCEPT
                !.files = [p \in Paths |-> IF p \in written THEN files[p]
                                           ELSE IF p \in gone THEN Absent ELSE @[p]],
                !.log = IF line THEN Made(features).log ELSE @,
                !.source = IF record THEN Made(features).source ELSE @,
                !.recorded = record,
                !.made = "part"]
          /\ ignored' = ignored \ cleared
  /\ exit' = "stopped"
  /\ UNCHANGED <<template, tag, head, updates, edits>>

-----------------------------------------------------------------------------
(* The runs of the script that updates it. *)

Writes ==
  /\ updates < MaxUpdates
  /\ updates' = updates + 1
  /\ UNCHANGED <<template, tag, head, edits>>

Refused(r) ==
  \/ ~CanGenerate(r)
  \/ ~IsCurrent(r) /\ blocked(r) # {}

Refuse ==
  /\ ~ \A r \in Requests : ~Refused(r)
  /\ exit' = "refused"
  /\ Stops

AlreadyCurrent ==
  /\ ~ \A r \in Requests : ~(IsCurrent(r) /\ CanGenerate(r))
  /\ exit' = "current"
  /\ Stops

Apply(r) ==
  /\ Writes
  /\ CanGenerate(r) /\ ~IsCurrent(r) /\ blocked(r) = {}
  /\ IF GitApplies(r)
     THEN /\ work' = Recorded(r)
          /\ ignored' = Cleared(r)
          /\ exit' = IF conflicts(work'.files) = {} THEN "applied" ELSE "conflicts"
     ELSE /\ exit' = "refused"
          /\ \E done \in SUBSET patched(r) :
               work' = [work EXCEPT !.files = Patched(r, done)]
          /\ UNCHANGED ignored

(* Stopped between two writes: the files come first, then the directories, *)
(* then the changelog, and the record of the source last.                  *)
Interrupt(r) ==
  /\ Writes
  /\ updates + 1 < MaxUpdates     \* bound: a run that another may follow
  /\ CanGenerate(r) /\ ~IsCurrent(r) /\ blocked(r) = {} /\ GitApplies(r)
  /\ exit' = "stopped"
  /\ \/ \E done \in SUBSET patched(r) :
          /\ work' = [work EXCEPT !.files = Patched(r, done),
                                  !.gone = StillGone(r, done),
                                  !.torn = @ \cup {Target(r)}]
          /\ \/ UNCHANGED ignored
             \/ /\ done = patched(r)
                /\ \E cleared \in SUBSET (ignored \ Cleared(r)) : ignored' = ignored \ cleared
     \/ /\ work' = [Recorded(r) EXCEPT !.source = work.source,
                                       !.recorded = work.recorded,
                                       !.torn = @ \cup {Target(r)}]
        /\ ignored' = Cleared(r)

-----------------------------------------------------------------------------
(* The project's own work between runs, and the template's. *)

Own ==
  /\ edits < MaxEdits
  /\ work.made # "part"     \* bound: a half-made project is taken back
  /\ edits' = edits + 1
  /\ exit' = "none"
  /\ UNCHANGED <<template, tag, head, updates>>

(* Dependencies and build output, wherever there is a file. *)
Build ==
  /\ Own
  /\ ignored' = ignored \cup { p \in Paths : Has(p) }
  /\ UNCHANGED work

EditHunk ==
  /\ Own /\ UNCHANGED ignored
  /\ \E p \in Paths, h \in Hunks :
       /\ Has(p)
       /\ work' = [work EXCEPT !.files[p][h] = Mine]

DeleteFile ==
  /\ Own /\ UNCHANGED ignored
  /\ \E p \in Paths :
       /\ Has(p)
       /\ work' = [work EXCEPT !.files[p] = Absent, !.gone = @ \cup {p}]

AddFile ==
  /\ Own /\ UNCHANGED ignored
  /\ \E p \in Paths :
       /\ ~Has(p)
       /\ work' = [work EXCEPT !.files[p] = [h \in Hunks |-> Mine], !.gone = @ \ {p}]

LoseHeading ==
  /\ Own /\ UNCHANGED ignored
  /\ work.heading # -1
  /\ work' = [work EXCEPT !.heading = -1]

Commit ==
  /\ work # head
  /\ work.made # "part"
  /\ conflicts(work.files) = {}
  /\ head' = work
  /\ exit' = "none"
  /\ UNCHANGED <<template, tag, work, ignored, updates, edits>>

Revert ==
  /\ work # head
  /\ work' = head
  /\ exit' = "none"
  /\ UNCHANGED <<template, tag, head, ignored, updates, edits>>

(* A person takes one of the two texts for each conflict, all at once. *)
Resolve ==
  /\ conflicts(work.files) # {}
  /\ \E mine \in BOOLEAN :
       work' = [work EXCEPT !.files =
                 [p \in Paths |-> [h \in Hunks |->
                   IF ~InConflict(@[p][h]) THEN @[p][h]
                   ELSE IF mine THEN Mine ELSE TheirsOf(@[p][h])]]]
  /\ exit' = "none"
  /\ UNCHANGED <<template, tag, head, ignored, updates, edits>>

MoveTag ==
  /\ \E c \in Commits :
       /\ c # tag[VersionOf[c]]
       /\ tag' = [tag EXCEPT ![VersionOf[c]] = c]
  /\ exit' = "none"
  /\ UNCHANGED <<template, head, work, ignored, updates, edits>>

-----------------------------------------------------------------------------
Init ==
  /\ template \in Templates
  /\ tag = [v \in Versions |-> FirstOf(v)]
  /\ \/ \E copied \in Copies :
          work = [files |-> template.text[copied], gone |-> {},
                  source |-> [commit |-> copied, features |-> {}],
                  recorded |-> FALSE, log |-> <<>>, heading |-> 0,
                  torn |-> {}, made |-> "copy"]
     \/ \E features \in Starts :      \* made before there was a record
          work = [files |-> generateSource(1, features), gone |-> {},
                  source |-> [commit |-> 1, features |-> features],
                  recorded |-> FALSE, log |-> <<Initialized(VersionOf[1], features)>>,
                  heading |-> 0, torn |-> {}, made |-> "project"]
  /\ head = work
  /\ ignored = {}
  /\ exit = "none"
  /\ updates = 0
  /\ edits = 0

Next ==
  \/ RefuseToInitialize
  \/ \E features \in Starts : Initialize(features) \/ StopInitialize(features)
  \/ Refuse \/ AlreadyCurrent
  \/ \E r \in Requests : Apply(r) \/ Interrupt(r)
  \/ Build \/ EditHunk \/ DeleteFile \/ AddFile \/ LoseHeading
  \/ Commit \/ Revert \/ Resolve \/ MoveTag

Spec == Init /\ [][Next]_vars

-----------------------------------------------------------------------------
Texts == LET theirs == Commits \cup {MarkedOut}
         IN theirs \cup {Mine} \cup { Conflict(t) : t \in theirs }
Contents == {Absent} \cup [Hunks -> Texts]
Sources == [commit : Commits, features : SUBSET Features]
Lines == [version : Versions, named : BOOLEAN, features : SUBSET Features]

ProjectOK(project) ==
  /\ DOMAIN project.files = Paths
  /\ \A p \in Paths : project.files[p] \in Contents
  /\ project.gone \subseteq Paths
  /\ project.source \in Sources
  /\ project.recorded \in BOOLEAN
  /\ \A i \in DOMAIN project.log : project.log[i] \in Lines
  /\ Len(project.log) <= updates + 1
  /\ project.heading \in -1..Len(project.log)
  /\ project.torn \subseteq Sources
  /\ project.made \in {"copy", "part", "project"}

TypeOK ==
  /\ template \in Templates
  /\ tag \in [Versions -> Commits]
  /\ ProjectOK(work) /\ ProjectOK(head)
  /\ ignored \subseteq Paths
  /\ exit \in {"none", "refused", "initialized", "current", "applied", "conflicts", "stopped"}
  /\ updates \in 0..MaxUpdates
  /\ edits \in 0..MaxEdits

(***************************************************************************)
(* The record tells what is there: unless an interrupted update was kept,  *)
(* text of the template in the project is the text of the recorded commit  *)
(* for the recorded features, and a file of theirs is missing only if the  *)
(* project removed it.  So the next update starts from the right base,     *)
(* after any sequence of updates, selections, reverts, and runs again      *)
(* after an interruption.                                                  *)
(***************************************************************************)
RecordTellsFiles ==
  work.made = "project" /\ work.torn = {} =>
    LET recorded == generateSource(work.source.commit, work.source.features) IN
      \A p \in Paths :
        /\ ~Has(p) => recorded[p] = Absent \/ p \in work.gone
        /\ \A h \in Hunks :
             work.files[p][h] \in Commits \cup {MarkedOut} =>
               work.files[p][h] = recorded[p][h]

(***************************************************************************)
(* The lines of the changelog, read as readOrigin reads them, name the     *)
(* version and the features of the record, as long as the heading they are *)
(* written under stays above them.                                         *)
(***************************************************************************)
ReadsAsRecorded ==
  readOrigin(work.log) = [version |-> VersionOf[work.source.commit],
                          features |-> work.source.features]

ChangelogAgrees ==
  work.made = "project" /\ work.torn = {} /\ work.heading = 0 => ReadsAsRecorded

(***************************************************************************)
(* Whatever a run does, however it ends, what the project wrote is still   *)
(* there, perhaps in a conflict, and a file it removed does not come back  *)
(* because the template changed it.  Only the run that makes the project   *)
(* may write over it, and then it is still in the commit.                  *)
(***************************************************************************)
OwnWorkSurvives ==
  [][exit' # "none" =>
       \A p \in Paths :
         /\ \A h \in Hunks :
              work.files[p][h] = Mine =>
                \/ work'.files[p][h] = Mine \/ InConflict(work'.files[p][h])
                \/ work.made = "copy" /\ head'.files[p][h] = Mine
         /\ HasOrigin /\ ~Has(p) /\ work'.files[p] # Absent => before[p] = Absent]_vars

(***************************************************************************)
(* A run that refuses has changed nothing: what git cannot apply whole is  *)
(* found before anything is applied.                                       *)
(***************************************************************************)
RefusedChangesNothing == [][exit' = "refused" => work' = work]_vars

(***************************************************************************)
(* A feature taken out of the selection leaves no file behind, the         *)
(* project's own included (those are named first), in the paths it has in  *)
(* the release the project is on, unless the release asked for keeps the   *)
(* path for another feature or has the file for every project; and, when   *)
(* the run changes a file at all, no directory with ignored files either.  *)
(* Three cases are outside: a path that only the release asked for gives   *)
(* to the feature, a feature that this release no longer has, which a      *)
(* change of the selection drops unnamed, and the ignored files where      *)
(* there is nothing to patch.                                              *)
(***************************************************************************)
NothingLeftBehind ==
  [][exit' \in {"applied", "conflicts"} =>
       LET new == work'.source
           taken == (origin.features \cap template.known[new.commit]) \ new.features
       IN \A p \in Paths :
            /\ template.owners[origin.commit][p] \cap taken # {}
            /\ template.owners[new.commit][p] \cap new.features = {}
            /\ generateSource(new.commit, new.features)[p] = Absent
            => /\ work'.files[p] = Absent
               /\ p \in ignored' => \A q \in Paths : work'.files[q] = work.files[q]]_vars

=============================================================================
