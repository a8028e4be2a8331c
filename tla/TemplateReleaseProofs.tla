------------------------ MODULE TemplateReleaseProofs ------------------------
(***************************************************************************)
(* Proofs that a version means one output and that no release's notes miss *)
(* a change, for any pull requests, outputs, versions, merges and mishaps. *)
(***************************************************************************)
EXTENDS TemplateRelease, WellFoundedInduction, TLAPS

AnyOutput == Outputs \cup {CHOOSE o \in Outputs : TRUE}
AnyCommit == [version : Nat \ {0}, output : AnyOutput, past : Nat, branch : BOOLEAN]

(* The same version and the same output. *)
Says(one, other) == one.version = other.version /\ one.output = other.output

Shapes ==
  /\ main \in Seq(AnyCommit) /\ main # <<>>
  /\ prs \in [PullRequests -> AnyCommit \cup {None}]

(* Versions on main do not go back, and each has one output. *)
Ordered ==
  \A i, j \in DOMAIN main :
    /\ i <= j => main[i].version <= main[j].version
    /\ main[i].version = main[j].version => main[i].output = main[j].output

(* What may be merged goes on from main's tip. *)
Follows ==
  \A p \in PullRequests :
    /\ prs[p] # None => prs[p].past <= Len(main)
    /\ MayMerge(p) => /\ prs[p].version >= Tip.version
                      /\ prs[p].version = Tip.version => prs[p].output = Tip.output

(* A tag says what main's commits of its version say, and what may still   *)
(* be merged as that version.                                              *)
TagsTell ==
  \A v \in DOMAIN tag \ late :
    /\ \A i \in DOMAIN main : main[i].version = v => Says(tag[v], main[i])
    /\ \A p \in PullRequests :
         MayMerge(p) /\ prs[p].version = v /\ v # Tip.version => Says(tag[v], prs[p])

(* A run publishes what main has, unless it is one on a branch. *)
OfMain(commit) == commit.branch \/ \E i \in DOMAIN main : Says(main[i], commit)

RunsOfMain ==
  /\ running # None => OfMain(running.commit)
  /\ waiting # None => OfMain(waiting.commit)
  /\ \A commit \in failed : OfMain(commit)

PublishedAreTagged == DOMAIN releases \subseteq DOMAIN tag

Inv == Shapes /\ Ordered /\ Follows /\ TagsTell /\ RunsOfMain /\ PublishedAreTagged

-----------------------------------------------------------------------------
(* The tip is the last of main's commits. *)
LEMMA TipIsLast ==
  ASSUME Shapes
  PROVE  /\ Len(main) \in Nat \ {0} /\ DOMAIN main = 1 .. Len(main)
         /\ Len(main) \in DOMAIN main /\ Tip = main[Len(main)]
         /\ \A i \in DOMAIN main : main[i] \in AnyCommit /\ i <= Len(main)
BY DEF Shapes, Tip

LEMMA CommitFields ==
  ASSUME NEW c \in AnyCommit
  PROVE  c.version \in Nat \ {0} /\ c.past \in Nat /\ c.output \in AnyOutput /\ c.branch \in BOOLEAN
BY Zenon DEF AnyCommit

LEMMA NaturalVersions == Versions \subseteq Nat \ {0}
  BY BoundsAssumption DEF Versions

LEMMA InitInv == Init => Inv
<1> SUFFICES ASSUME Init PROVE Inv
  OBVIOUS
<1> DEFINE first == Commit(1, CHOOSE o \in Outputs : TRUE, 1, FALSE)
<1>1. first \in AnyCommit /\ first.version = 1
  <2>1. 1 \in Nat \ {0} /\ FALSE \in BOOLEAN /\ (CHOOSE o \in Outputs : TRUE) \in AnyOutput
    BY DEF AnyOutput
  <2>2. first \in AnyCommit
    BY <2>1, Zenon DEF Commit, AnyCommit
  <2>3. first.version = 1
    BY DEF Commit
  <2> QED
    BY <2>2, <2>3
<1>2. main = <<first>> /\ tag = [v \in {1} |-> first] /\ releases = [v \in {1} |-> 0]
      /\ prs = [p \in PullRequests |-> None] /\ running = None /\ waiting = None /\ failed = {}
  BY DEF Init
<1> HIDE DEF first
<1>3. Shapes /\ DOMAIN main = {1} /\ main[1] = first
  BY <1>1, <1>2 DEF Shapes
<1>4. Ordered /\ RunsOfMain /\ PublishedAreTagged
  BY <1>1, <1>2, <1>3 DEF Ordered, RunsOfMain, PublishedAreTagged
<1>5. Follows /\ TagsTell
  BY <1>1, <1>2, <1>3 DEF Follows, TagsTell, MayMerge, Says
<1> QED
  BY <1>3, <1>4, <1>5 DEF Inv

(* A pull request that is opened or pushed to, and passes the check. *)
LEMMA PushKeepsInv ==
  ASSUME Inv, NEW p \in PullRequests, Push(p)
  PROVE  Inv'
<1> USE DEF Inv
<1>1. PICK v \in Versions, o \in Outputs :
        LET head == Commit(v, o, Len(main), TRUE)
        IN  CheckRelease(Tip, head) /\ prs' = [prs EXCEPT ![p] = head]
  BY DEF Push
<1> DEFINE head == Commit(v, o, Len(main), TRUE)
<1>2. /\ head \in AnyCommit /\ head.version = v /\ head.output = o /\ head.past = Len(main)
      /\ v \in Nat
  <2>1. v \in Nat \ {0} /\ o \in AnyOutput /\ Len(main) \in Nat /\ TRUE \in BOOLEAN
    BY TipIsLast, NaturalVersions DEF AnyOutput
  <2>2. head \in AnyCommit
    BY <2>1, Zenon DEF Commit, AnyCommit
  <2>3. head.version = v /\ head.output = o /\ head.past = Len(main)
    BY DEF Commit
  <2> QED
    BY <2>1, <2>2, <2>3
<1>3. CheckRelease(Tip, head) /\ prs' = [prs EXCEPT ![p] = head]
  BY <1>1
<1>4. UNCHANGED <<main, tag, releases, running, waiting, failed, late>> /\ Tip' = Tip
  BY DEF Push, runs, ghosts, Tip
<1> HIDE DEF head
<1>5. Shapes'
  BY <1>2, <1>3, <1>4 DEF Shapes
<1>6. prs'[p] = head /\ \A q \in PullRequests \ {p} : prs'[q] = prs[q]
  BY <1>3 DEF Shapes
<1>7. Tip.version \in Nat
  BY TipIsLast, CommitFields
<1>8. /\ v >= Tip.version /\ (v = Tip.version => head.output = Tip.output)
      /\ v # Tip.version /\ v \in DOMAIN tag => Says(tag[v], head)
  BY <1>2, <1>3, <1>7 DEF CheckRelease, TagAllows, SameOutput, Says
<1>9. \A q \in PullRequests \ {p} : MayMerge(q)' = MayMerge(q)
  BY <1>4, <1>6 DEF MayMerge
<1>10. Follows'
  <2> SUFFICES ASSUME NEW q \in PullRequests
               PROVE  /\ prs'[q] # None => prs'[q].past <= Len(main)
                      /\ MayMerge(q)' => /\ prs'[q].version >= Tip.version
                                         /\ prs'[q].version = Tip.version => prs'[q].output = Tip.output
    BY <1>4 DEF Follows
  <2>1. CASE q = p
    BY <1>2, <1>6, <1>8, <2>1, TipIsLast
  <2>2. CASE q # p
    BY <1>6, <1>9, <2>2 DEF Follows
  <2> QED
    BY <2>1, <2>2
<1>11. TagsTell'
  <2> SUFFICES ASSUME NEW u \in DOMAIN tag \ late, NEW q \in PullRequests,
                      MayMerge(q)', prs'[q].version = u, u # Tip.version
               PROVE  Says(tag[u], prs'[q])
    BY <1>4 DEF TagsTell, Says
  <2>1. CASE q = p
    BY <1>2, <1>6, <1>8, <2>1
  <2>2. CASE q # p
    BY <1>6, <1>9, <2>2 DEF TagsTell
  <2> QED
    BY <2>1, <2>2
<1>12. Ordered' /\ RunsOfMain' /\ PublishedAreTagged'
  BY <1>4 DEF Ordered, RunsOfMain, OfMain, Says, PublishedAreTagged
<1> QED
  BY <1>5, <1>10, <1>11, <1>12

(* A merge: the versions of main go on, and other pull requests are behind. *)
LEMMA AppendKeepsInv ==
  ASSUME Inv, NEW p \in PullRequests, MayMerge(p),
         NEW commit \in AnyCommit, Says(commit, prs[p]),
         main' = Append(main, commit), prs' = [prs EXCEPT ![p] = None],
         Enqueue(commit) \/ UNCHANGED <<running, waiting>>,
         UNCHANGED <<tag, releases, failed, late>>
  PROVE  Inv'
<1> USE DEF Inv
<1> DEFINE n == Len(main)
<1>1. commit.version \in Nat
  BY CommitFields
<1>2. /\ main' \in Seq(AnyCommit) /\ Len(main') = n + 1 /\ DOMAIN main' = 1 .. n + 1
      /\ \A i \in DOMAIN main : main'[i] = main[i] /\ i \in DOMAIN main'
      /\ \A i \in DOMAIN main' : i \in DOMAIN main \/ i = n + 1
      /\ main'[n + 1] = commit
  BY TipIsLast DEF Shapes
<1>3. Shapes'
  BY <1>2, TipIsLast DEF Shapes
<1>4. /\ Tip' = commit /\ n \in DOMAIN main /\ Tip = main[n] /\ n \in Nat
      /\ Tip.version \in Nat /\ \A i \in DOMAIN main : main[i].version \in Nat /\ i \in 1 .. n
  BY <1>2, TipIsLast, CommitFields DEF Tip
<1>5. /\ commit.version >= Tip.version
      /\ (commit.version = Tip.version => commit.output = Tip.output)
  BY DEF Follows, Says
<1>6. ASSUME NEW i \in DOMAIN main
      PROVE  /\ main[i].version <= commit.version
             /\ main[i].version = commit.version => main[i].output = commit.output
  <2>1. main[i].version <= Tip.version
    BY <1>4 DEF Ordered
  <2>2. main[i].version = commit.version => main[i].version = Tip.version /\ commit.version = Tip.version
    BY <1>1, <1>4, <1>5, <2>1
  <2>3. main[i].version = Tip.version => main[i].output = Tip.output
    BY <1>4 DEF Ordered
  <2> QED
    BY <1>1, <1>4, <1>5, <2>1, <2>2, <2>3
<1>7. Ordered'
  <2> SUFFICES ASSUME NEW i \in DOMAIN main', NEW j \in DOMAIN main'
               PROVE  /\ i <= j => main'[i].version <= main'[j].version
                      /\ main'[i].version = main'[j].version => main'[i].output = main'[j].output
    BY DEF Ordered
  <2>1. CASE i \in DOMAIN main /\ j \in DOMAIN main
    BY <1>2, <2>1 DEF Ordered
  <2>2. CASE i \in DOMAIN main /\ j = n + 1
    BY <1>2, <1>6, <2>2
  <2>3. CASE i = n + 1 /\ j \in DOMAIN main
    BY <1>2, <1>4, <1>6, <2>3
  <2>4. CASE i = n + 1 /\ j = n + 1
    BY <1>1, <1>2, <2>4
  <2> QED
    BY <1>2, <2>1, <2>2, <2>3, <2>4
<1>8. ASSUME NEW q \in PullRequests, prs'[q] # None
      PROVE  prs'[q].past \in Nat /\ prs'[q].past <= n
  BY <1>8, CommitFields DEF Shapes, Follows
<1>9. ASSUME NEW q \in PullRequests
      PROVE  ~ MayMerge(q)' /\ (prs'[q] # None => prs'[q].past <= n + 1)
  <2>1. CASE prs'[q] = None
    BY <2>1 DEF MayMerge
  <2>2. CASE prs'[q] # None
    <3> DEFINE past == prs'[q].past
    <3>1. past \in Nat /\ past <= n /\ n \in Nat
      BY <1>4, <1>8, <2>2
    <3> HIDE DEF past, n
    <3>2. past # n + 1 /\ past <= n + 1
      BY <3>1
    <3>3. MayMerge(q)' => past = n + 1
      BY <1>2, <2>2 DEF MayMerge, past
    <3> QED
      BY <3>2, <3>3 DEF past
  <2> QED
    BY <2>1, <2>2
<1>10. Follows'
  BY <1>2, <1>9 DEF Follows
<1>11. TagsTell'
  <2> SUFFICES ASSUME NEW v \in DOMAIN tag \ late, NEW i \in DOMAIN main', main'[i].version = v
               PROVE  Says(tag[v], main'[i])
    BY <1>9 DEF TagsTell
  <2>1. CASE i \in DOMAIN main
    BY <1>2, <2>1 DEF TagsTell
  <2>2. CASE i = n + 1 /\ v = Tip.version
    <3>1. Says(tag[v], Tip)
      BY <1>4, <2>2 DEF TagsTell
    <3> QED
      BY <1>2, <1>5, <2>2, <3>1 DEF Says
  <2>3. CASE i = n + 1 /\ v # Tip.version
    <3>1. Says(tag[v], prs[p])
      BY <1>1, <1>2, <2>3 DEF TagsTell, Says
    <3> QED
      BY <1>1, <1>2, <2>3, <3>1 DEF Says
  <2> QED
    BY <1>2, <2>1, <2>2, <2>3
<1>12. OfMain(commit)' /\ \A c : OfMain(c) => OfMain(c)'
  <2>1. n + 1 \in DOMAIN main' /\ Says(main'[n + 1], commit)
    BY <1>2, <1>4 DEF Says
  <2>2. ASSUME NEW c, OfMain(c) PROVE OfMain(c)'
    BY <1>2, <2>2 DEF OfMain
  <2> QED
    BY <2>1, <2>2 DEF OfMain
<1>13. RunsOfMain'
  <2>1. /\ running' \in {running, Run(commit)} /\ waiting' \in {waiting, Run(commit)}
        /\ Run(commit).commit = commit
    BY DEF Enqueue, Run
  <2> QED
    BY <1>12, <2>1 DEF RunsOfMain
<1>14. PublishedAreTagged'
  BY DEF PublishedAreTagged
<1> QED
  BY <1>3, <1>7, <1>10, <1>11, <1>13, <1>14

LEMMA MergeKeepsInv ==
  ASSUME Inv, NEW p \in PullRequests, Merge(p)
  PROVE  Inv'
<1> DEFINE new == Commit(prs[p].version, prs[p].output, Len(main) + 1, FALSE)
<1>1. /\ MayMerge(p) /\ main' = Append(main, new) /\ prs' = [prs EXCEPT ![p] = None]
      /\ Enqueue(new) \/ UNCHANGED <<running, waiting>>
      /\ UNCHANGED <<tag, releases, failed, late>>
  BY DEF Merge, ghosts
<1>2. new \in AnyCommit
  <2>1. prs[p] \in AnyCommit
    BY <1>1 DEF Inv, Shapes, MayMerge
  <2>2. prs[p].version \in Nat \ {0} /\ prs[p].output \in AnyOutput /\ Len(main) + 1 \in Nat
    BY <2>1, CommitFields, TipIsLast DEF Inv
  <2>3. FALSE \in BOOLEAN
    OBVIOUS
  <2> QED
    BY <2>2, <2>3, Zenon DEF Commit, AnyCommit
<1>3. Says(new, prs[p])
  BY DEF Commit, Says
<1> HIDE DEF new
<1>4. PICK commit : commit = new
  OBVIOUS
<1> QED
  BY <1>1, <1>2, <1>3, <1>4, AppendKeepsInv

-----------------------------------------------------------------------------
(* What a run knows of main stays so while main does. *)
LEMMA RunsKeepInv ==
  ASSUME Inv, UNCHANGED <<main, prs, tag, releases>>, late' = late,
         \/ Look \/ Fail \/ Rerun \/ Dispatch \/ DispatchOnBranch
  PROVE  Inv'
<1> USE DEF Inv
<1>1. Shapes' /\ Ordered' /\ Follows' /\ TagsTell' /\ PublishedAreTagged'
  BY DEF Shapes, Ordered, Follows, TagsTell, PublishedAreTagged, Tip, MayMerge, Says
<1>2. \A c : OfMain(c) => OfMain(c)'
  BY DEF OfMain, Says
<1>3. CASE Look
  <2>1. failed' = failed /\ \/ running' = waiting /\ waiting' = None
                            \/ running' = [running EXCEPT !.since = {Since(running.commit)}]
                               /\ waiting' = waiting
    BY <1>3 DEF Look, EndRun
  <2>2. running # None
    BY <1>3 DEF Look
  <2>3. running' = [running EXCEPT !.since = {Since(running.commit)}] => running'.commit = running.commit
    OBVIOUS
  <2> QED
    BY <1>1, <1>2, <2>1, <2>2, <2>3 DEF RunsOfMain
<1>4. CASE Fail
  BY <1>1, <1>2, <1>4 DEF Fail, EndRun, RunsOfMain
<1>5. ASSUME NEW commit, Enqueue(commit), OfMain(commit), failed' = failed PROVE RunsOfMain'
  <2>1. /\ running' \in {running, Run(commit)} /\ waiting' \in {waiting, Run(commit)}
        /\ Run(commit).commit = commit
    BY <1>5 DEF Enqueue, Run
  <2> QED
    BY <1>2, <1>5, <2>1 DEF RunsOfMain
<1>6. CASE Rerun
  <2>1. PICK commit \in failed : Enqueue(commit) /\ failed' = failed
    BY <1>6 DEF Rerun
  <2> QED
    BY <1>1, <1>5, <2>1 DEF RunsOfMain
<1>7. CASE Dispatch
  <2>1. Enqueue(Tip) /\ failed' = failed
    BY <1>7 DEF Dispatch
  <2>2. PICK commit : commit = Tip
    OBVIOUS
  <2>3. OfMain(commit)
    BY <2>2, TipIsLast DEF OfMain, Says
  <2> QED
    BY <1>1, <1>5, <2>1, <2>2, <2>3
<1>8. CASE DispatchOnBranch
  <2>1. PICK commit \in Branches : Enqueue(commit) /\ failed' = failed
    BY <1>8 DEF DispatchOnBranch
  <2>2. commit.branch
    BY DEF Branches, Commit
  <2> QED
    BY <1>1, <1>5, <2>1, <2>2 DEF OfMain
<1> QED
  BY <1>3, <1>4, <1>6, <1>7, <1>8

(* A tag that is new says what main says, or it was not too late to. *)
LEMMA NewTagTells ==
  ASSUME Inv, NEW v, v \notin DOMAIN tag, NEW commit,
         tag' = Keeping(tag, v, commit), UNCHANGED <<main, prs>>, late \subseteq late',
         \/ PassedWith(v) /\ v \in late'
         \/ ~ PassedWith(v)
         \/ commit.version = v /\ \E i \in DOMAIN main : Says(main[i], commit)
  PROVE  TagsTell' /\ DOMAIN tag' = DOMAIN tag \cup {v}
<1> USE DEF Inv
<1>1. /\ DOMAIN tag' = DOMAIN tag \cup {v} /\ tag'[v] = commit
      /\ \A u \in DOMAIN tag : tag'[u] = tag[u]
  BY DEF Keeping
<1>2. Tip' = Tip /\ \A p \in PullRequests : MayMerge(p)' = MayMerge(p)
  BY DEF Tip, MayMerge
<1>3. ASSUME v \notin late', NEW i \in DOMAIN main, main[i].version = v
      PROVE  Says(commit, main[i])
  <2>1. PassedWith(v)
    BY <1>3 DEF PassedWith
  <2>2. PICK k \in DOMAIN main : Says(main[k], commit) /\ commit.version = v
    BY <1>3, <2>1
  <2> QED
    BY <1>3, <2>2 DEF Ordered, Says
<1>4. ASSUME v \notin late', NEW p \in PullRequests, MayMerge(p), prs[p].version = v, v # Tip.version
      PROVE  FALSE
  <2>1. PassedWith(v)
    BY <1>4 DEF PassedWith
  <2>2. PICK k \in DOMAIN main : Says(main[k], commit) /\ commit.version = v
    BY <1>4, <2>1
  <2>3. main[k].version <= Tip.version /\ main[k].version = v /\ prs[p].version >= Tip.version
    BY <1>4, <2>2, TipIsLast DEF Ordered, Follows, Says
  <2>4. main[k].version \in Nat /\ Tip.version \in Nat
    BY <2>2, TipIsLast, CommitFields
  <2> QED
    BY <1>4, <2>3, <2>4
<1>5. TagsTell'
  <2> SUFFICES ASSUME NEW u \in DOMAIN tag' \ late'
               PROVE  /\ \A i \in DOMAIN main : main[i].version = u => Says(tag'[u], main[i])
                      /\ \A p \in PullRequests :
                           MayMerge(p) /\ prs[p].version = u /\ u # Tip.version => Says(tag'[u], prs[p])
    BY <1>2 DEF TagsTell, Says
  <2>1. CASE u = v
    BY <1>1, <1>3, <1>4, <2>1
  <2>2. CASE u # v
    BY <1>1, <2>2 DEF TagsTell
  <2> QED
    BY <2>1, <2>2
<1> QED
  BY <1>1, <1>5

LEMMA CreateKeepsInv ==
  ASSUME Inv, Create
  PROVE  Inv'
<1> USE DEF Inv
<1>1. PICK commit, v : commit = running.commit /\ v = commit.version
  OBVIOUS
<1>2. /\ running # None /\ running' = waiting /\ waiting' = None
      /\ tag' = Keeping(tag, v, commit) /\ UNCHANGED <<main, prs, failed>>
      /\ late' = IF v \notin DOMAIN tag /\ commit.branch /\ PassedWith(v)
                   THEN late \cup {v} ELSE late
      /\ \E since : releases' = Keeping(releases, v, since)
  BY <1>1 DEF Create, EndRun
<1>3. OfMain(commit)
  BY <1>1, <1>2 DEF RunsOfMain
<1>4. \A c : OfMain(c) => OfMain(c)'
  BY <1>2 DEF OfMain, Says
<1>5. Shapes' /\ Ordered' /\ Follows' /\ RunsOfMain'
  BY <1>2, <1>4 DEF Shapes, Ordered, Follows, RunsOfMain, Tip, MayMerge
<1>6. TagsTell' /\ DOMAIN tag' = DOMAIN tag \cup {v}
  <2>1. CASE v \in DOMAIN tag
    <3>1. DOMAIN tag' = DOMAIN tag \cup {v} /\ \A u \in DOMAIN tag : tag'[u] = tag[u]
      BY <1>2, <2>1 DEF Keeping
    <3>2. late' = late
      BY <1>2, <2>1
    <3> QED
      BY <1>2, <2>1, <3>1, <3>2 DEF TagsTell, Says, Tip, MayMerge
  <2>2. CASE v \notin DOMAIN tag
    BY <1>1, <1>2, <1>3, <2>2, NewTagTells DEF OfMain
  <2> QED
    BY <2>1, <2>2
<1>7. DOMAIN releases' = DOMAIN releases \cup {v}
  BY <1>2 DEF Keeping
<1> QED
  BY <1>5, <1>6, <1>7 DEF PublishedAreTagged

LEMMA TagByHandKeepsInv ==
  ASSUME Inv, TagByHand
  PROVE  Inv'
<1> USE DEF Inv
<1>1. PICK v \in Versions \ DOMAIN tag, commit \in ToSet(main) \cup Branches :
        /\ tag' = Keeping(tag, v, commit)
        /\ late' = IF PassedWith(v) THEN late \cup {v} ELSE late
  BY DEF TagByHand
<1>2. UNCHANGED <<main, prs, releases, running, waiting, failed>>
  BY DEF TagByHand, runs
<1>3. Shapes' /\ Ordered' /\ Follows' /\ RunsOfMain'
  BY <1>2 DEF Shapes, Ordered, Follows, RunsOfMain, OfMain, Says, Tip, MayMerge
<1>4. TagsTell' /\ DOMAIN tag' = DOMAIN tag \cup {v}
  BY <1>1, <1>2, NewTagTells
<1> QED
  BY <1>2, <1>3, <1>4 DEF PublishedAreTagged

LEMMA NextKeepsInv == Inv /\ [Next]_vars => Inv'
<1> SUFFICES ASSUME Inv, [Next]_vars PROVE Inv'
  OBVIOUS
<1>1. CASE UNCHANGED vars
  BY <1>1 DEF vars, git, runs, ghosts, Inv, Shapes, Ordered, Follows, TagsTell, RunsOfMain,
              OfMain, PublishedAreTagged, Says, Tip, MayMerge
<1>2. CASE Look \/ Fail \/ Rerun \/ Dispatch \/ DispatchOnBranch
  <2>1. UNCHANGED <<main, prs, tag, releases>> /\ late' = late
    BY <1>2 DEF Look, Fail, Rerun, Dispatch, DispatchOnBranch, git, ghosts
  <2> QED
    BY <1>2, <2>1, RunsKeepInv
<1> QED
  BY <1>1, <1>2, PushKeepsInv, MergeKeepsInv, CreateKeepsInv, TagByHandKeepsInv DEF Next

THEOREM InvHolds == Spec => []Inv
  BY InitInv, NextKeepsInv, PTL DEF Spec

-----------------------------------------------------------------------------
(***************************************************************************)
(* A copy of main, of whatever version, generates what its own initializer *)
(* generates, unless its version was tagged aside after the check had      *)
(* looked: CopyGetsWhatItShows.                                            *)
(***************************************************************************)
THEOREM CopiesGetWhatTheyShow == Spec => []CopyGetsWhatItShows
<1>1. Inv => CopyGetsWhatItShows
  <2> SUFFICES ASSUME Inv, NEW i \in DOMAIN main, main[i].version \notin late
               PROVE  Bootstrap(main[i]) \in {None, [generated |-> main[i].output]}
    BY DEF CopyGetsWhatItShows
  <2>1. CASE ~ Published(main[i].version)
    BY <2>1 DEF Bootstrap
  <2>2. CASE Published(main[i].version)
    <3>1. Says(tag[main[i].version], main[i])
      BY <2>2 DEF Inv, TagsTell, PublishedAreTagged, Published
    <3>2. Resolve(main[i].version) = tag[main[i].version]
      BY <3>1 DEF Resolve, Says
    <3> QED
      BY <2>2, <3>1, <3>2 DEF Bootstrap, Says
  <2> QED
    BY <2>1, <2>2
<1> QED
  BY <1>1, InvHolds, PTL

-----------------------------------------------------------------------------
(* Notes are told since a version that was published, and an older one.    *)

(* A commit that is not on a branch is where main has it. *)
Known(commit) ==
  /\ commit \in AnyCommit
  /\ ~ commit.branch => commit.past \in DOMAIN main /\ main[commit.past] = commit

IsRun(run) == run = [commit |-> run.commit, since |-> run.since]

Numbered == \A i \in DOMAIN main : Known(main[i]) /\ ~ main[i].branch /\ main[i].past = i

RunsKnown ==
  /\ running # None => IsRun(running) /\ Known(running.commit)
  /\ waiting # None => waiting = Run(waiting.commit) /\ Known(waiting.commit)
  /\ \A commit \in failed : Known(commit)

(* Without tags from elsewhere, what is tagged is what is published. *)
TagsAreReleases ==
  /\ 1 \in DOMAIN releases
  /\ \A v \in DOMAIN releases : v \in Nat \ {0}
  /\ byHand = {} =>
       /\ DOMAIN tag = DOMAIN releases
       /\ \A v \in DOMAIN tag : tag[v].version = v /\ Known(tag[v])

(* Nothing, or a version published before v and older. *)
Older(since, v) == since = 0 \/ (since \in DOMAIN releases /\ since < v)

(* The run that has looked is the one that publishes its version. *)
Looked ==
  running # None /\ running.since # {} =>
    /\ ~ Published(running.commit.version)
    /\ byHand = {} /\ ~ running.commit.branch =>
         \A since \in running.since : Older(since, running.commit.version)

Told ==
  byHand = {} =>
    \A v \in DOMAIN releases \ {1} : ~ tag[v].branch => Older(releases[v], v)

NotesInv == Numbered /\ RunsKnown /\ TagsAreReleases /\ Looked /\ Told

(* A bounded set of numbers has a greatest. *)
LEMMA GreatestIsThere ==
  ASSUME NEW n \in Nat, NEW S \in SUBSET (0 .. n), S # {}
  PROVE  Max(S) \in S /\ \A x \in S : x <= Max(S)
<1> DEFINE short == { k \in 0 .. n : n - k \in S }
           less == { pair \in Nat \X Nat : pair[1] < pair[2] }
<1>1. short # {} /\ short \subseteq Nat
  <2>1. PICK x \in S : TRUE
    OBVIOUS
  <2>2. x \in Nat /\ n - x \in 0 .. n /\ n - (n - x) = x
    BY <2>1
  <2>3. n - x \in short
    BY <2>1, <2>2
  <2>4. \A k \in short : k \in Nat
    OBVIOUS
  <2> HIDE DEF short
  <2> QED
    BY <2>3, <2>4
<1>2. IsWellFoundedOn(less, Nat)
  BY NatLessThanWellFounded DEF OpToRel
<1>3. PICK k \in short : \A j \in short : <<j, k>> \notin less
  <2> HIDE DEF short, less
  <2> QED
    BY <1>1, <1>2, WFMin
<1>4. ASSUME NEW x \in S PROVE n - k >= x
  <2>1. x \in 0 .. n /\ n - (n - x) = x /\ n - x \in 0 .. n
    OBVIOUS
  <2>2. n - x \in short /\ n - x \in Nat /\ k \in Nat
    BY <1>1, <2>1
  <2>3. <<n - x, k>> \in Nat \X Nat /\ <<n - x, k>>[1] = n - x /\ <<n - x, k>>[2] = k
    BY <2>2
  <2>4. ~ (n - x < k)
    BY <1>3, <2>2, <2>3
  <2> QED
    BY <2>1, <2>2, <2>4
<1>5. \E x \in S : \A y \in S : x >= y
  BY <1>4
<1>6. Max(S) \in S /\ \A y \in S : Max(S) >= y
  BY <1>5 DEF Max
<1>7. \A y \in S : y \in Nat
  OBVIOUS
<1> QED
  BY <1>6, <1>7

(* What git describe finds in main's history is no newer than the commit. *)
LEMMA SinceIsOlder ==
  ASSUME Inv, NotesInv, byHand = {}, NEW commit, Known(commit), ~ commit.branch,
         ~ Published(commit.version)
  PROVE  Older(Since(commit), commit.version)
<1> DEFINE v == commit.version
           nearest == { u \in Described(commit) :
                          \A w \in Described(commit) : tag[w].past <= tag[u].past }
           found == {0} \cup nearest
<1>1. /\ v \in Nat \ {0} /\ commit.past \in Nat
      /\ commit.past \in DOMAIN main /\ main[commit.past] = commit
  BY CommitFields DEF Known
<1>2. ASSUME NEW u \in Described(commit) PROVE u \in DOMAIN releases /\ u \in Nat /\ u < v
  <2>1. u \in DOMAIN tag /\ ~ tag[u].branch /\ tag[u].past <= commit.past
    BY DEF Described
  <2>2. u \in DOMAIN releases /\ u \in Nat /\ tag[u].version = u /\ Known(tag[u])
    BY <2>1 DEF NotesInv, TagsAreReleases
  <2>3. tag[u].past \in DOMAIN main /\ main[tag[u].past] = tag[u]
    BY <2>1, <2>2 DEF Known
  <2>4. u <= v
    BY <1>1, <2>1, <2>2, <2>3 DEF Inv, Ordered
  <2>5. u # v
    BY <2>2 DEF Published
  <2> QED
    BY <1>1, <2>2, <2>4, <2>5
<1>3. found \in SUBSET (0 .. v) /\ found # {}
  BY <1>1, <1>2
<1>4. Max(found) \in found
  BY <1>1, <1>3, GreatestIsThere
<1>5. Since(commit) = Max(found)
  BY DEF Since
<1> HIDE DEF found
<1>6. Max(found) = 0 \/ Max(found) \in Described(commit)
  BY <1>4 DEF found
<1> QED
  BY <1>2, <1>5, <1>6 DEF Older

-----------------------------------------------------------------------------
LEMMA InitNotes == Init => NotesInv
<1> SUFFICES ASSUME Init PROVE NotesInv
  OBVIOUS
<1> DEFINE first == Commit(1, CHOOSE o \in Outputs : TRUE, 1, FALSE)
<1>1. first \in AnyCommit /\ first.version = 1 /\ first.past = 1 /\ ~ first.branch
  <2>1. 1 \in Nat \ {0} /\ 1 \in Nat /\ FALSE \in BOOLEAN /\ (CHOOSE o \in Outputs : TRUE) \in AnyOutput
    BY DEF AnyOutput
  <2>2. first \in AnyCommit
    BY <2>1, Zenon DEF Commit, AnyCommit
  <2>3. first.version = 1 /\ first.past = 1 /\ ~ first.branch
    BY DEF Commit
  <2> QED
    BY <2>2, <2>3
<1>2. main = <<first>> /\ tag = [v \in {1} |-> first] /\ releases = [v \in {1} |-> 0]
      /\ running = None /\ waiting = None /\ failed = {}
  BY DEF Init
<1> HIDE DEF first
<1>3. Known(first) /\ DOMAIN main = {1} /\ main[1] = first
  BY <1>1, <1>2 DEF Known
<1> QED
  BY <1>1, <1>2, <1>3 DEF NotesInv, Numbered, RunsKnown, TagsAreReleases, Looked, Told

(* A step that publishes nothing and looks at nothing. *)
LEMMA NotesStay ==
  ASSUME NotesInv, UNCHANGED <<tag, releases>>, byHand \subseteq byHand',
         \A c : Known(c) => Known(c)', Numbered', RunsKnown',
         running' = running \/ running' = None \/ running'.since = {}
  PROVE  NotesInv'
<1>1. byHand' = {} => byHand = {}
  OBVIOUS
<1>2. TagsAreReleases'
  BY <1>1 DEF NotesInv, TagsAreReleases
<1>3. Looked'
  BY <1>1 DEF NotesInv, Looked, Older, Published
<1>4. Told'
  BY <1>1 DEF NotesInv, Told, Older
<1> QED
  BY <1>2, <1>3, <1>4 DEF NotesInv

(* Runs are asked for at commits that are known. *)
LEMMA EnqueueKnows ==
  ASSUME NotesInv, NEW commit, Enqueue(commit) \/ UNCHANGED <<running, waiting>>,
         failed' = failed, \A c : Known(c) => Known(c)', Known(commit)'
  PROVE  RunsKnown' /\ (running' = running \/ running' = None \/ running'.since = {})
<1>1. Run(commit) = [commit |-> Run(commit).commit, since |-> Run(commit).since]
      /\ Run(commit).commit = commit /\ Run(commit).since = {}
  BY DEF Run
<1>2. running' = running \/ running' = Run(commit)
  BY DEF Enqueue
<1>3. waiting' = waiting \/ waiting' = Run(commit)
  BY DEF Enqueue
<1>4. (\A c \in failed : Known(c))'
  BY DEF NotesInv, RunsKnown
<1>5. (running # None => IsRun(running) /\ Known(running.commit))'
  <2>1. CASE running' = running
    BY <2>1 DEF NotesInv, RunsKnown, IsRun
  <2>2. CASE running' = Run(commit)
    BY <1>1, <2>2 DEF IsRun
  <2> QED
    BY <1>2, <2>1, <2>2
<1>6. (waiting # None => waiting = Run(waiting.commit) /\ Known(waiting.commit))'
  <2>1. CASE waiting' = waiting
    BY <2>1 DEF NotesInv, RunsKnown, Run
  <2>2. CASE waiting' = Run(commit)
    BY <1>1, <2>2
  <2> QED
    BY <1>3, <2>1, <2>2
<1> QED
  BY <1>1, <1>2, <1>4, <1>5, <1>6 DEF RunsKnown

(* Commits do not change; main is only added to. *)
LEMMA KnownStays ==
  ASSUME NEW c, Known(c), main \in Seq(AnyCommit),
         main' = main \/ \E commit \in AnyCommit : main' = Append(main, commit)
  PROVE  Known(c)'
<1>1. CASE main' = main
  BY <1>1 DEF Known
<1>2. ASSUME NEW commit \in AnyCommit, main' = Append(main, commit) PROVE Known(c)'
  <2>1. \A i \in DOMAIN main : i \in DOMAIN main' /\ main'[i] = main[i]
    BY <1>2
  <2> QED
    BY <2>1 DEF Known
<1> QED
  BY <1>1, <1>2

LEMMA MergeKeepsNotes ==
  ASSUME Inv, NotesInv, NEW p \in PullRequests, Merge(p)
  PROVE  NotesInv'
<1> DEFINE new == Commit(prs[p].version, prs[p].output, Len(main) + 1, FALSE)
           n == Len(main)
<1>1. /\ MayMerge(p) /\ main' = Append(main, new)
      /\ Enqueue(new) \/ UNCHANGED <<running, waiting>>
      /\ UNCHANGED <<tag, releases, failed, byHand>>
  BY DEF Merge, ghosts
<1>2. new \in AnyCommit
  <2>1. prs[p] \in AnyCommit
    BY <1>1 DEF Inv, Shapes, MayMerge
  <2>2. prs[p].version \in Nat \ {0} /\ prs[p].output \in AnyOutput /\ Len(main) + 1 \in Nat
    BY <2>1, CommitFields, TipIsLast DEF Inv
  <2>3. FALSE \in BOOLEAN
    OBVIOUS
  <2> QED
    BY <2>2, <2>3, Zenon DEF Commit, AnyCommit
<1>3. new.past = n + 1 /\ ~ new.branch
  BY DEF Commit
<1>4. PICK commit : commit = new
  OBVIOUS
<1> HIDE DEF new
<1>5. /\ DOMAIN main' = 1 .. n + 1 /\ main'[n + 1] = commit /\ n + 1 \in DOMAIN main'
      /\ \A i \in DOMAIN main' : i = n + 1 \/ (i \in DOMAIN main /\ main'[i] = main[i])
  BY <1>1, <1>2, <1>4, TipIsLast DEF Inv, Shapes
<1>6. Known(commit)'
  BY <1>2, <1>3, <1>4, <1>5 DEF Known
<1>7. \A c : Known(c) => Known(c)'
  BY <1>1, <1>2, KnownStays DEF Inv, Shapes
<1>8. Numbered'
  BY <1>3, <1>4, <1>5, <1>6, <1>7 DEF NotesInv, Numbered
<1>9. RunsKnown' /\ (running' = running \/ running' = None \/ running'.since = {})
  BY <1>1, <1>4, <1>6, <1>7, EnqueueKnows
<1> QED
  BY <1>1, <1>7, <1>8, <1>9, NotesStay

(* The run that publishes a version is the one that found it was not. *)
LEMMA CreateKeepsNotes ==
  ASSUME Inv, NotesInv, Create
  PROVE  NotesInv'
<1>1. PICK commit, v : commit = running.commit /\ v = commit.version
  OBVIOUS
<1>2. /\ running # None /\ running' = waiting /\ waiting' = None
      /\ tag' = Keeping(tag, v, commit) /\ UNCHANGED <<main, failed, byHand>>
  BY <1>1 DEF Create, EndRun
<1>3. PICK since \in running.since : releases' = Keeping(releases, v, since)
  BY <1>1 DEF Create
<1>4. ~ Published(v) /\ (byHand = {} /\ ~ commit.branch => Older(since, v))
  BY <1>1, <1>2, <1>3 DEF NotesInv, Looked
<1>5. Known(commit) /\ v \in Nat \ {0}
  BY <1>1, <1>2, CommitFields DEF NotesInv, RunsKnown, Known
<1>6. \A c : Known(c) => Known(c)'
  BY <1>2 DEF Known
<1>7. /\ DOMAIN releases' = DOMAIN releases \cup {v} /\ releases'[v] = since
      /\ \A u \in DOMAIN releases : releases'[u] = releases[u]
  BY <1>3, <1>4 DEF Keeping, Published
<1>8. byHand = {} =>
        /\ DOMAIN tag' = DOMAIN tag \cup {v} /\ tag'[v] = commit
        /\ \A u \in DOMAIN tag : tag'[u] = tag[u]
  BY <1>2, <1>4 DEF Keeping, Published, NotesInv, TagsAreReleases
<1>9. Numbered' /\ RunsKnown' /\ (running' = None \/ running'.since = {})
  <2>1. Numbered'
    BY <1>2, <1>6 DEF NotesInv, Numbered
  <2>2. /\ waiting # None => IsRun(waiting) /\ waiting.since = {} /\ Known(waiting.commit)
        /\ \A c \in failed : Known(c)
    BY DEF NotesInv, RunsKnown, Run, IsRun
  <2> QED
    BY <1>2, <1>6, <2>1, <2>2 DEF RunsKnown, IsRun
<1>10. TagsAreReleases'
  BY <1>1, <1>2, <1>5, <1>6, <1>7, <1>8 DEF NotesInv, TagsAreReleases
<1>11. Looked'
  BY <1>9 DEF Looked
<1>12. Told'
  <2> DEFINE found == releases'
             named == tag'
  <2>1. ASSUME byHand = {}, NEW u \in DOMAIN found, u # 1, ~ named[u].branch
        PROVE  found[u] = 0 \/ (found[u] \in DOMAIN found /\ found[u] < u)
    <3>1. CASE u = v
      BY <1>4, <1>7, <1>8, <2>1, <3>1 DEF Older
    <3>2. CASE u # v
      <4>1. u \in DOMAIN releases /\ u \in DOMAIN tag
        BY <1>7, <2>1, <3>2 DEF NotesInv, TagsAreReleases
      <4>2. Older(releases[u], u)
        BY <1>8, <2>1, <4>1 DEF NotesInv, Told
      <4> QED
        BY <1>7, <4>1, <4>2 DEF Older
    <3> QED
      BY <3>1, <3>2
  <2> QED
    BY <1>2, <2>1 DEF Told, Older
<1> QED
  BY <1>9, <1>10, <1>11, <1>12 DEF NotesInv

LEMMA LookKeepsNotes ==
  ASSUME Inv, NotesInv, Look
  PROVE  NotesInv'
<1>1. /\ running # None /\ running.since = {} /\ IsRun(running) /\ Known(running.commit)
      /\ UNCHANGED <<main, tag, releases, failed, byHand>>
  BY DEF Look, git, ghosts, NotesInv, RunsKnown
<1>2. \A c : Known(c) => Known(c)'
  BY <1>1 DEF Known
<1>3. Numbered'
  BY <1>1, <1>2 DEF NotesInv, Numbered
<1>4. CASE Published(running.commit.version)
  <2>1. running' = waiting /\ waiting' = None
    BY <1>4 DEF Look, EndRun
  <2>2. /\ waiting # None => IsRun(waiting) /\ waiting.since = {} /\ Known(waiting.commit)
        /\ \A c \in failed : Known(c)
    BY DEF NotesInv, RunsKnown, Run, IsRun
  <2>3. RunsKnown' /\ (running' = None \/ running'.since = {})
    BY <1>1, <1>2, <2>1, <2>2 DEF RunsKnown, IsRun
  <2> QED
    BY <1>1, <1>2, <1>3, <2>3, NotesStay
<1>5. CASE ~ Published(running.commit.version)
  <2>1. running' = [running EXCEPT !.since = {Since(running.commit)}] /\ waiting' = waiting
    BY <1>5 DEF Look
  <2>2. /\ running'.commit = running.commit /\ running'.since = {Since(running.commit)}
        /\ IsRun(running)'
    BY <1>1, <2>1 DEF IsRun
  <2>3. RunsKnown'
    BY <1>1, <1>2, <2>1, <2>2 DEF NotesInv, RunsKnown, Run
  <2>4. TagsAreReleases' /\ Told'
    BY <1>1, <1>2 DEF NotesInv, TagsAreReleases, Told, Older
  <2>5. byHand = {} /\ ~ running.commit.branch =>
          Older(Since(running.commit), running.commit.version)
    BY <1>1, <1>5, SinceIsOlder
  <2>6. Looked'
    BY <1>1, <1>5, <2>2, <2>5 DEF Looked, Older, Published
  <2> QED
    BY <1>3, <2>3, <2>4, <2>6 DEF NotesInv
<1> QED
  BY <1>4, <1>5

(* The steps of people, and runs that fail or are asked for again. *)
LEMMA OthersKeepNotes ==
  ASSUME Inv, NotesInv, UNCHANGED main,
         (\E p \in PullRequests : Push(p)) \/ Fail \/ Rerun \/ Dispatch \/ DispatchOnBranch
           \/ TagByHand
  PROVE  NotesInv'
<1>1. \A c : Known(c) => Known(c)'
  BY DEF Known
<1>2. Numbered'
  BY <1>1 DEF NotesInv, Numbered
<1>3. CASE \E p \in PullRequests : Push(p)
  <2>1. UNCHANGED <<tag, releases, running, waiting, failed, byHand>>
    BY <1>3 DEF Push, runs, ghosts
  <2>2. RunsKnown'
    BY <1>1, <2>1 DEF NotesInv, RunsKnown, IsRun, Run
  <2> QED
    BY <1>1, <1>2, <2>1, <2>2, NotesStay
<1>4. CASE Fail
  <2>1. /\ UNCHANGED <<tag, releases, byHand>> /\ running' = waiting /\ waiting' = None
        /\ running # None /\ failed' = failed \cup {running.commit}
    BY <1>4 DEF Fail, EndRun, git, ghosts
  <2>2. /\ waiting # None => IsRun(waiting) /\ waiting.since = {} /\ Known(waiting.commit)
        /\ \A c \in failed' : Known(c)
    BY <2>1 DEF NotesInv, RunsKnown, Run, IsRun
  <2>3. RunsKnown' /\ (running' = None \/ running'.since = {})
    BY <1>1, <2>1, <2>2 DEF RunsKnown, IsRun
  <2> QED
    BY <1>1, <1>2, <2>1, <2>3, NotesStay
<1>5. ASSUME NEW commit, Known(commit), Enqueue(commit), failed' = failed,
             UNCHANGED <<tag, releases, byHand>>
      PROVE  NotesInv'
  <2>1. RunsKnown' /\ (running' = running \/ running' = None \/ running'.since = {})
    BY <1>1, <1>5, EnqueueKnows
  <2> QED
    BY <1>1, <1>2, <1>5, <2>1, NotesStay
<1>6. CASE Rerun
  <2>1. UNCHANGED <<tag, releases, byHand, failed>> /\ \E commit \in failed : Enqueue(commit)
    BY <1>6 DEF Rerun, git, ghosts
  <2> QED
    BY <1>5, <2>1 DEF NotesInv, RunsKnown
<1>7. CASE Dispatch
  <2>1. UNCHANGED <<tag, releases, byHand, failed>> /\ Enqueue(Tip)
    BY <1>7 DEF Dispatch, git, ghosts
  <2>2. PICK commit : commit = Tip
    OBVIOUS
  <2>3. Known(commit)
    BY <2>2, TipIsLast DEF Inv, NotesInv, Numbered
  <2> QED
    BY <1>5, <2>1, <2>2, <2>3
<1>8. CASE DispatchOnBranch
  <2>1. UNCHANGED <<tag, releases, byHand, failed>>
    BY <1>8 DEF DispatchOnBranch, git
  <2>2. PICK commit \in Branches : Enqueue(commit)
    BY <1>8 DEF DispatchOnBranch
  <2>3. Known(commit)
    <3>1. PICK v \in Versions, o \in Outputs :
            commit = [version |-> v, output |-> o, past |-> Len(main), branch |-> TRUE]
      BY DEF Branches, Commit
    <3>2. v \in Nat \ {0} /\ o \in AnyOutput /\ Len(main) \in Nat /\ TRUE \in BOOLEAN
      BY NaturalVersions, TipIsLast DEF AnyOutput, Inv
    <3>3. commit \in AnyCommit
      BY <3>1, <3>2, Zenon DEF AnyCommit
    <3>4. commit.branch
      BY <3>1
    <3> QED
      BY <3>3, <3>4 DEF Known
  <2> QED
    BY <1>5, <2>1, <2>2, <2>3
<1>9. CASE TagByHand
  <2>1. UNCHANGED <<releases, running, waiting, failed>> /\ byHand' # {}
    BY <1>9 DEF TagByHand, runs
  <2>2. RunsKnown'
    BY <1>1, <2>1 DEF NotesInv, RunsKnown, IsRun, Run
  <2>3. TagsAreReleases' /\ Looked' /\ Told'
    BY <2>1 DEF NotesInv, TagsAreReleases, Looked, Told, Published
  <2> QED
    BY <1>2, <2>2, <2>3 DEF NotesInv
<1> QED
  BY <1>3, <1>4, <1>6, <1>7, <1>8, <1>9

LEMMA NextKeepsNotes == Inv /\ NotesInv /\ [Next]_vars => NotesInv'
<1> SUFFICES ASSUME Inv, NotesInv, [Next]_vars PROVE NotesInv'
  OBVIOUS
<1>1. CASE UNCHANGED vars
  <2>1. UNCHANGED <<main, tag, releases, running, waiting, failed, byHand>>
    BY <1>1 DEF vars, git, runs, ghosts
  <2>2. \A c : Known(c) => Known(c)'
    BY <2>1 DEF Known
  <2>3. Numbered' /\ RunsKnown'
    BY <2>1, <2>2 DEF NotesInv, Numbered, RunsKnown, IsRun, Run
  <2> QED
    BY <2>1, <2>2, <2>3, NotesStay
<1>2. CASE (\E p \in PullRequests : Push(p)) \/ Fail \/ Rerun \/ Dispatch \/ DispatchOnBranch
             \/ TagByHand
  <2>1. UNCHANGED main
    BY <1>2 DEF Push, Fail, Rerun, Dispatch, DispatchOnBranch, TagByHand, git
  <2> QED
    BY <1>2, <2>1, OthersKeepNotes
<1> QED
  BY <1>1, <1>2, MergeKeepsNotes, LookKeepsNotes, CreateKeepsNotes DEF Next

(***************************************************************************)
(* The notes of a version miss nothing that changed since the version      *)
(* published before it: NotesMissNothing.  Whatever run comes to publish   *)
(* it, the tags it finds are those of older versions, and what is          *)
(* published stays.                                                        *)
(***************************************************************************)
THEOREM NotesTellAll == Spec => []NotesMissNothing
<1>1. NotesInv => NotesMissNothing
  <2> SUFFICES ASSUME NotesInv, byHand = {}, NEW v \in DOMAIN releases \ {1}, ~ tag[v].branch
               PROVE  releases[v] <= Max({ u \in DOMAIN releases : u < v })
    BY DEF NotesMissNothing
  <2> DEFINE before == { u \in DOMAIN releases : u < v }
  <2>1. v \in Nat \ {0} /\ \A u \in DOMAIN releases : u \in Nat \ {0}
    BY DEF NotesInv, TagsAreReleases
  <2>2. before \in SUBSET (0 .. v)
    BY <2>1
  <2>3. 1 \in before
    BY <2>1 DEF NotesInv, TagsAreReleases
  <2>4. Older(releases[v], v)
    BY DEF NotesInv, Told
  <2>5. releases[v] = 0 \/ releases[v] \in before
    BY <2>4 DEF Older
  <2> HIDE DEF before
  <2>6. Max(before) \in before /\ \A u \in before : u <= Max(before)
    BY <2>1, <2>2, <2>3, GreatestIsThere
  <2>7. Max(before) \in 0 .. v
    BY <2>2, <2>6
  <2>8. 0 <= Max(before)
    BY <2>7
  <2>9. releases[v] <= Max(before)
    BY <2>5, <2>6, <2>8
  <2> QED
    BY <2>9 DEF before
<1> QED
  BY <1>1, InitNotes, InvHolds, NextKeepsNotes, PTL DEF Spec

=============================================================================
