--------------------------- MODULE TemplateRelease ---------------------------
(***************************************************************************)
(* How a version of the template comes to name one output:                 *)
(* template/check-release.mjs, a job of the required check, looks at a     *)
(* pull request; .github/workflows/template-release.yml publishes a        *)
(* version after its merge, with the notes of template/release-notes.mjs;  *)
(* template/init.mjs, in somebody's copy of main, generates from what was  *)
(* published for the version the copy declares.                            *)
(*                                                                         *)
(* A commit is the version its manifest declares and the output its        *)
(* initializer generates, over every choice of features.  Pull requests    *)
(* merge by the ruleset of scripts/configure-github.mjs: squashed, on an   *)
(* up-to-date branch, after the required check.                            *)
(***************************************************************************)
EXTENDS Naturals, SequencesExt

CONSTANTS PullRequests,  \* pull requests open at a time
          Outputs,       \* what initializers may generate
          MaxVersion,    \* bound: the highest version anybody declares
          MaxMerges,     \* bound: merges
          MaxMishaps     \* bound: runs of the workflow that fail or are asked
                         \* for on a pull request's branch, tags pushed by hand

ASSUME BoundsAssumption ==
  {MaxVersion, MaxMerges, MaxMishaps} \subseteq Nat

VARIABLES
  main,       \* the commits of the default branch, oldest first
  prs,        \* prs[p]: its head, which the required check passed, or None
  tag,        \* tag[v]: the commit the tag v names, where there is one
  releases,   \* releases[v]: the version its notes tell the changes since,
              \* 0 for the first; where v is published
  running,    \* the run of the workflow under way, or None
  waiting,    \* the run waiting for it, or None
  failed,     \* the commits whose run failed
  aside,      \* how many tags were pushed by hand or runs asked for on a branch
  byHand,     \* ghost: the versions tagged by hand
  late        \* ghost: the versions tagged aside from main when a head that
              \* declares them had already passed the check

git == <<main, prs, tag>>
runs == <<releases, running, waiting, failed>>
ghosts == <<aside, byHand, late>>
vars == <<git, runs, ghosts>>

Versions == 1 .. MaxVersion
None == [none |-> TRUE]

(* What is published or tagged stays; what is new has this value. *)
Keeping(f, v, value) ==
  [u \in DOMAIN f \cup {v} |-> IF u \in DOMAIN f THEN f[u] ELSE value]

(* A commit has main's first `past` commits in its history, itself included *)
(* unless it is on a branch.                                                *)
Commit(version, output, past, branch) ==
  [version |-> version, output |-> output, past |-> past, branch |-> branch]

CanGoWrong == Cardinality(failed) + aside < MaxMishaps

Tip == main[Len(main)]
Published(v) == v \in DOMAIN releases

-----------------------------------------------------------------------------
(* check-release.mjs checkRelease: what a head must be, over its base and  *)
(* the tags there are.                                                     *)

SameOutput(before, after) == before.output = after.output

TagAllows(head) ==
  head.version \in DOMAIN tag =>
    LET published == tag[head.version]
    IN  published.version = head.version /\ SameOutput(published, head)

(* A fault: a version that advances is not compared with anything. *)
CheckReleaseUntagged(base, head) ==
  \/ head.version > base.version
  \/ head.version = base.version /\ SameOutput(base, head)

CheckRelease(base, head) ==
  \/ head.version > base.version /\ TagAllows(head)
  \/ head.version = base.version /\ SameOutput(base, head)

-----------------------------------------------------------------------------
(* Pull requests: opening one and each push, with what the check says of   *)
(* the head.  It runs on the event's base and head and reads the tags of   *)
(* that moment.  A head that is refused, or does not bring in the branch's *)
(* tip, could not be merged and is left out.                               *)
Push(p) ==
  /\ \E v \in Versions, o \in Outputs :
       LET head == Commit(v, o, Len(main), TRUE)
       IN  CheckRelease(Tip, head) /\ prs' = [prs EXCEPT ![p] = head]
  /\ UNCHANGED <<main, tag, runs, ghosts>>

(* The ruleset: what the required check passed, on an up-to-date branch. *)
MayMerge(p) == prs[p] # None /\ prs[p].past = Len(main)

(* A concurrency group: one run under way, one waiting, whose place a newer *)
(* run takes.                                                               *)
Run(commit) == [commit |-> commit, since |-> {}]

(* A fault: a run asked for while another is under way is dropped. *)
EnqueueIfIdle(commit) ==
  /\ running' = IF running = None THEN Run(commit) ELSE running
  /\ UNCHANGED waiting

Enqueue(commit) ==
  IF running = None THEN running' = Run(commit) /\ UNCHANGED waiting
                    ELSE waiting' = Run(commit) /\ UNCHANGED running

EndRun == running' = waiting /\ waiting' = None

(* A push to main that changes template/features.json starts the workflow: *)
(* the manifest that declares the version, and the features besides.       *)
Merge(p) ==
  LET commit == Commit(prs[p].version, prs[p].output, Len(main) + 1, FALSE)
  IN  /\ MayMerge(p)
      /\ Len(main) <= MaxMerges
      /\ main' = Append(main, commit)
      /\ prs' = [prs EXCEPT ![p] = None]
      /\ \/ Enqueue(commit)
         \/ commit.version = Tip.version /\ UNCHANGED <<running, waiting>>
      /\ UNCHANGED <<tag, releases, failed, ghosts>>

-----------------------------------------------------------------------------
(* template-release.yml.                                                   *)

(* git describe --tags --abbrev=0: of the tags on main a commit has in its *)
(* history, itself included, the nearest.                                  *)
Described(commit) ==
  { v \in DOMAIN tag : ~ tag[v].branch /\ tag[v].past <= commit.past }

(* A fault: the newest tag there is. *)
SinceNewest(commit) == Max({0} \cup DOMAIN tag)

Since(commit) ==
  Max({0} \cup { v \in Described(commit) :
                   \A u \in Described(commit) : tag[u].past <= tag[v].past })

(* `gh release view`, then release-notes.mjs. *)
Look ==
  /\ running # None /\ running.since = {}
  /\ IF Published(running.commit.version)
       THEN EndRun
       ELSE /\ running' = [running EXCEPT !.since = {Since(running.commit)}]
            /\ UNCHANGED waiting
  /\ UNCHANGED <<git, releases, failed, ghosts>>

(* What a tag made now comes too late for. *)
PassedWith(v) ==
  \/ \E i \in DOMAIN main : main[i].version = v
  \/ \E p \in PullRequests : MayMerge(p) /\ prs[p].version = v

(* gh release create --target: a tag that is there stays where it is. *)
Create ==
  LET commit == running.commit
      v == commit.version
  IN  /\ running # None
      /\ \E since \in running.since : releases' = Keeping(releases, v, since)
      /\ tag' = Keeping(tag, v, commit)
      /\ late' = IF v \notin DOMAIN tag /\ commit.branch /\ PassedWith(v)
                   THEN late \cup {v} ELSE late
      /\ EndRun
      /\ UNCHANGED <<main, prs, failed, aside, byHand>>

(* The runner, the network or GitHub fails a run. *)
Fail ==
  /\ running # None
  /\ CanGoWrong
  /\ failed' = failed \cup {running.commit}
  /\ EndRun
  /\ UNCHANGED <<git, releases, ghosts>>

(* A run that failed is run again at its commit; or, by workflow_dispatch, *)
(* at main's tip.  They do nothing where the version is published, and no  *)
(* more than a run that is on its way.                                     *)
Rerun ==
  /\ running = None
  /\ \E commit \in failed : ~ Published(commit.version) /\ Enqueue(commit)
  /\ UNCHANGED <<git, releases, failed, ghosts>>

Dispatch ==
  /\ running = None /\ ~ Published(Tip.version)
  /\ Enqueue(Tip)
  /\ UNCHANGED <<git, releases, failed, ghosts>>

(* workflow_dispatch on some branch, where a version is being prepared. *)
Branches == { Commit(v, o, Len(main), TRUE) : v \in Versions, o \in Outputs }

DispatchOnBranch ==
  /\ CanGoWrong
  /\ aside' = aside + 1
  /\ \E commit \in Branches : Enqueue(commit)
  /\ UNCHANGED <<git, releases, failed, byHand, late>>

(* A person pushes a tag: anybody may make one, and nobody moves one. *)
TagByHand ==
  /\ CanGoWrong
  /\ aside' = aside + 1
  /\ \E v \in Versions \ DOMAIN tag, commit \in ToSet(main) \cup Branches :
       /\ tag' = Keeping(tag, v, commit)
       /\ byHand' = byHand \cup {v}
       /\ late' = IF PassedWith(v) THEN late \cup {v} ELSE late
  /\ UNCHANGED <<main, prs, runs>>

-----------------------------------------------------------------------------
(* init.mjs main in a copy of a commit, and template-source.mjs             *)
(* resolveSource: what the copy generates, or None where it is refused.     *)

Resolve(v) == IF tag[v].version = v THEN tag[v] ELSE None

Bootstrap(commit) ==
  IF ~ Published(commit.version) THEN None
  ELSE LET snapshot == Resolve(commit.version)
       IN  IF snapshot = None THEN None ELSE [generated |-> snapshot.output]

-----------------------------------------------------------------------------

Init ==
  LET first == Commit(1, CHOOSE o \in Outputs : TRUE, 1, FALSE)
  IN  /\ main = <<first>>
      /\ prs = [p \in PullRequests |-> None]
      /\ tag = [v \in {1} |-> first]
      /\ releases = [v \in {1} |-> 0]
      /\ running = None /\ waiting = None /\ failed = {}
      /\ aside = 0 /\ byHand = {} /\ late = {}

Next ==
  \/ \E p \in PullRequests : Push(p) \/ Merge(p)
  \/ Look \/ Create \/ Fail \/ Rerun \/ Dispatch
  \/ DispatchOnBranch \/ TagByHand

(* The runner takes its steps; nobody has to do anything else. *)
Spec == Init /\ [][Next]_vars /\ WF_vars(Look) /\ WF_vars(Create)

-----------------------------------------------------------------------------
(* Properties *)

(***************************************************************************)
(* A project made from a copy of main is what the copy's own initializer   *)
(* generates: wherever a copy's version is published, what the bootstrap   *)
(* resolves for it has the output of every commit that declares that       *)
(* version.  It takes the check's comparison with the base for versions    *)
(* that stay, its comparison with tags for those that advance, and the     *)
(* ruleset for pull requests that pass side by side.  Only a version       *)
(* tagged aside after the check has looked can mean something else.        *)
(***************************************************************************)
CopyGetsWhatItShows ==
  \A i \in DOMAIN main :
    \/ main[i].version \in late
    \/ Bootstrap(main[i]) \in {None, [generated |-> main[i].output]}

(***************************************************************************)
(* The notes of a version miss nothing that changed since the version      *)
(* published before it: they tell the changes since that one or an older   *)
(* one, also where runs failed, were replaced while they waited, or run    *)
(* again at a commit newer versions have passed.  Two cases are exempt: a  *)
(* version whose tag is on a branch, published by a run asked for there    *)
(* with the notes of that branch; and every version once a tag was pushed  *)
(* by hand, which the notes take for a release.                            *)
(***************************************************************************)
NotesMissNothing ==
  byHand = {} =>
    \A v \in DOMAIN releases \ {1} :
      ~ tag[v].branch => releases[v] <= Max({ u \in DOMAIN releases : u < v })

(***************************************************************************)
(* The version main declares is published: the runs that wait for one      *)
(* another and are replaced by newer ones end with main's last version,    *)
(* unless a run fails or one was asked for on a branch.                    *)
(***************************************************************************)
NewestIsPublished ==
  \A v \in Versions :
    Tip.version = v ~> Tip.version # v \/ Published(v) \/ failed # {} \/ aside > 0

=============================================================================
