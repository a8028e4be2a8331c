------------------------ MODULE TemplateUpdateProofs ------------------------
(***************************************************************************)
(* Proofs about TemplateUpdate, for any paths, hunks, features, histories  *)
(* of the template and numbers of runs and changes.                        *)
(***************************************************************************)
EXTENDS TemplateUpdate, WellFoundedInduction, TLAPS

ProjectFields ==
  {"files", "gone", "source", "recorded", "log", "heading", "torn", "made"}

(* Of some lines of the changelog, n is the one Newest takes. *)
IsNewest(log, from, n) ==
  /\ n \in from
  /\ \A j \in from :
       log[n].version > log[j].version \/ (log[n].version = log[j].version /\ n <= j)

(* What is so of the working tree and of the commit. *)
Sound(project) ==
  /\ DOMAIN project = ProjectFields
  /\ DOMAIN project.files = Paths /\ \A p \in Paths : project.files[p] \in Contents
  /\ project.gone \in SUBSET Paths
  /\ project.source \in Sources /\ project.recorded \in BOOLEAN
  /\ project.torn \in SUBSET Sources
  /\ project.log \in Seq(Lines)
  /\ project.heading \in -1 .. Len(project.log)
  /\ project.made \in {"copy", "part", "project"}
  /\ project.made = "copy" => ~ project.recorded /\ project.log = <<>>
  /\ project.made = "project" => project.log # <<>>
  /\ project.log # <<>> =>
       \E n \in DOMAIN project.log : IsNewest(project.log, DOMAIN project.log, n)

Inv ==
  /\ template \in Templates
  /\ tag \in [Versions -> Commits]
  /\ \A v \in Versions : VersionOf[tag[v]] = v
  /\ Sound(work) /\ Sound(head)
  /\ head.made # "part"

-----------------------------------------------------------------------------
(* Every version has a first commit. *)
LEMMA FirstIsACommit ==
  ASSUME NEW v \in Versions
  PROVE  FirstOf(v) \in Commits /\ VersionOf[FirstOf(v)] = v
<1> DEFINE declaring == { c \in Commits : VersionOf[c] = v }
           less == { pair \in Nat \X Nat : pair[1] < pair[2] }
<1>1. declaring # {} /\ declaring \subseteq Nat
  BY TemplateAssumption DEF Versions
<1>2. IsWellFoundedOn(less, Nat)
  BY NatLessThanWellFounded DEF OpToRel
<1>3. PICK c \in declaring : \A d \in declaring : <<d, c>> \notin less
  <2> HIDE DEF declaring, less
  <2> QED
    BY <1>1, <1>2, WFMin
<1>4. ASSUME NEW d \in declaring PROVE c <= d
  <2>1. d \in Nat /\ c \in Nat /\ <<d, c>> \in Nat \X Nat /\ <<d, c>>[1] = d /\ <<d, c>>[2] = c
    BY <1>1
  <2>2. ~ (d < c)
    BY <1>3, <2>1
  <2> QED
    BY <2>1, <2>2
<1> QED
  BY <1>3, <1>4 DEF FirstOf

LEMMA VersionsAreNumbers == Versions \subseteq Nat
  BY TemplateAssumption DEF Versions

LEMMA LinesTellVersions ==
  ASSUME NEW log \in Seq(Lines), NEW i \in DOMAIN log
  PROVE  /\ log[i].version \in Versions /\ log[i].version \in Nat
         /\ log[i].named \in BOOLEAN /\ log[i].features \in SUBSET Features
<1>1. log[i] \in Lines
  OBVIOUS
<1>2. PICK line : line = log[i]
  OBVIOUS
<1>3. line.version \in Versions /\ line.named \in BOOLEAN /\ line.features \in SUBSET Features
  BY <1>1, <1>2, Zenon DEF Lines
<1> QED
  BY <1>2, <1>3, VersionsAreNumbers

LEMMA SourcesTell ==
  ASSUME NEW s \in Sources
  PROVE  /\ s.commit \in Commits /\ s.features \in SUBSET Features
         /\ VersionOf[s.commit] \in Versions /\ VersionOf[s.commit] \in Nat
  BY TemplateAssumption DEF Sources, Versions

(* The line readOrigin takes is the newest. *)
LEMMA NewestIs ==
  ASSUME NEW log \in Seq(Lines), NEW from \in SUBSET DOMAIN log, NEW n, IsNewest(log, from, n)
  PROVE  Newest(log, from) = n
<1>1. DOMAIN log \subseteq Nat
  OBVIOUS
<1>2. \A i \in from : log[i].version \in Nat
  BY LinesTellVersions
<1>3. ASSUME NEW m \in from, IsNewest(log, from, m) PROVE m = n
  BY <1>1, <1>2, <1>3 DEF IsNewest
<1>4. Newest(log, from) = CHOOSE i \in from : IsNewest(log, from, i)
  BY DEF Newest, IsNewest
<1> QED
  BY <1>3, <1>4 DEF IsNewest

(* So an update starts from a version that there is, and no line of the    *)
(* changelog names a higher one when the changelog is what it goes by.     *)
LEMMA OriginIsAVersion ==
  ASSUME Inv, HasOrigin
  PROVE  /\ origin.version \in Versions
         /\ ~ work.recorded =>
              \A i \in DOMAIN work.log : work.log[i].version <= origin.version
<1>1. CASE work.recorded
  BY <1>1, SourcesTell DEF Inv, Sound, origin
<1>2. CASE ~ work.recorded
  <2> DEFINE log == work.log
  <2>1. PICK n \in DOMAIN log : IsNewest(log, DOMAIN log, n)
    BY <1>2 DEF Inv, Sound, HasOrigin
  <2>2. log \in Seq(Lines)
    BY DEF Inv, Sound
  <2>3. origin.version = log[Newest(log, DOMAIN log)].version
    BY <1>2 DEF origin, readOrigin
  <2> HIDE DEF log
  <2>4. Newest(log, DOMAIN log) = n
    BY <2>1, <2>2, NewestIs
  <2>5. \A i \in DOMAIN log : log[i].version \in Versions /\ log[i].version \in Nat
    BY <2>2, LinesTellVersions
  <2>6. \A i \in DOMAIN log : log[i].version <= log[n].version
    BY <2>1, <2>5 DEF IsNewest
  <2> QED
    BY <2>3, <2>4, <2>5, <2>6 DEF log
<1> QED
  BY <1>1, <1>2

-----------------------------------------------------------------------------
(* The changelog takes a line and keeps its others, in their order. *)
Place(at, i) == IF i < at THEN i ELSE i + 1

Inserted(log, at, line, new) ==
  /\ new \in Seq(Lines) /\ Len(new) = Len(log) + 1
  /\ at \in DOMAIN new /\ new[at] = line
  /\ \A i \in DOMAIN log : Place(at, i) \in DOMAIN new /\ new[Place(at, i)] = log[i]
  /\ \A j \in DOMAIN new : j = at \/ \E i \in DOMAIN log : j = Place(at, i)

LineGoes(project) ==
  IF project.heading = -1 THEN Len(project.log) + 1 ELSE project.heading + 1

LEMMA LineIsRecorded ==
  ASSUME NEW project, Sound(project), NEW line \in Lines
  PROVE  LET updated == recordUpdate(project, line)
         IN  /\ Inserted(project.log, LineGoes(project), line, updated.log)
             /\ updated.heading \in -1 .. Len(updated.log)
             /\ updated.heading =
                  IF project.heading = -1 THEN Len(project.log) ELSE project.heading
             /\ DOMAIN updated = ProjectFields
             /\ updated.torn = project.torn /\ updated.made = project.made
             /\ updated.source = project.source /\ updated.recorded = project.recorded
<1> DEFINE log == project.log
           h == project.heading
           len == Len(log)
<1>1. log \in Seq(Lines) /\ len \in Nat /\ h \in -1 .. len /\ DOMAIN project = ProjectFields
      /\ DOMAIN log = 1 .. len
  BY DEF Sound
<1>2. CASE h = -1
  <2> DEFINE new == Append(log, line)
             updated == [project EXCEPT !.heading = len, !.log = new]
  <2>1. recordUpdate(project, line) = updated
    BY <1>2 DEF recordUpdate
  <2>2. /\ new \in Seq(Lines) /\ Len(new) = len + 1 /\ DOMAIN new = 1 .. len + 1
        /\ new[len + 1] = line /\ \A i \in 1 .. len : new[i] = log[i]
    BY <1>1
  <2> HIDE DEF log, h, new, len
  <2>3. Inserted(log, len + 1, line, new)
    BY <1>1, <2>2 DEF Inserted, Place, len
  <2>4. len \in -1 .. Len(new)
    BY <1>1, <2>2
  <2>5. /\ DOMAIN updated = ProjectFields /\ updated.heading = len /\ updated.log = new
        /\ updated.torn = project.torn /\ updated.made = project.made
        /\ updated.source = project.source /\ updated.recorded = project.recorded
    BY <1>1 DEF ProjectFields
  <2> HIDE DEF updated
  <2> QED
    BY <1>2, <2>1, <2>3, <2>4, <2>5 DEF log, h, len, LineGoes
<1>3. CASE h # -1
  <2> DEFINE above == SubSeq(log, 1, h)
             below == SubSeq(log, h + 1, len)
             new == above \o <<line>> \o below
             updated == [project EXCEPT !.log = new]
  <2>1. recordUpdate(project, line) = updated
    BY <1>3 DEF recordUpdate
  <2>2. h \in Nat /\ h <= len /\ len - h \in Nat
    BY <1>1, <1>3
  <2>3. /\ above \in Seq(Lines) /\ Len(above) = h
        /\ \A i \in 1 .. h : above[i] = log[i]
    <3> HIDE DEF log, h, len
    <3> QED
      BY <1>1, <2>2 DEF len
  <2>4. /\ below \in Seq(Lines) /\ Len(below) = len - h
        /\ \A i \in 1 .. len - h : below[i] = log[h + i]
    <3> HIDE DEF log, h, len
    <3>1. \A i \in h + 1 .. len : i \in DOMAIN log
      BY <1>1, <2>2
    <3>2. below = [i \in 1 .. len - h |-> log[i + h]]
      BY <1>1, <2>2 DEF len
    <3>3. \A i \in 1 .. len - h : i + h \in DOMAIN log /\ i + h = h + i
      BY <1>1, <2>2
    <3> HIDE DEF below
    <3> QED
      BY <1>1, <2>2, <3>2, <3>3
  <2> HIDE DEF log, h, len, above, below
  <2> DEFINE upto == above \o <<line>>
  <2>5. /\ upto \in Seq(Lines) /\ Len(upto) = h + 1 /\ upto[h + 1] = line
        /\ \A i \in 1 .. h : upto[i] = log[i]
    BY <2>2, <2>3
  <2> HIDE DEF upto
  <2>6. new = upto \o below
    BY DEF upto
  <2> HIDE DEF new
  <2>7. /\ new \in Seq(Lines) /\ Len(new) = len + 1 /\ DOMAIN new = 1 .. len + 1
        /\ \A i \in 1 .. h + 1 : new[i] = upto[i]
        /\ \A i \in 1 .. len - h : new[h + 1 + i] = below[i]
    <3>1. new \in Seq(Lines) /\ Len(new) = len + 1 /\ DOMAIN new = 1 .. len + 1
      <4>1. new \in Seq(Lines) /\ Len(new) = Len(upto) + Len(below)
        <5>1. upto \in Seq(Lines) /\ below \in Seq(Lines)
          BY <2>4, <2>5
        <5> QED
          BY <2>6, <5>1
      <4>2. Len(new) = len + 1
        BY <1>1, <2>2, <2>4, <2>5, <4>1
      <4> QED
        BY <4>1, <4>2
    <3>2. ASSUME NEW i \in 1 .. h + 1 PROVE new[i] = upto[i]
      BY <1>1, <2>2, <2>4, <2>5, <2>6, <3>2
    <3>3. ASSUME NEW i \in 1 .. len - h PROVE new[h + 1 + i] = below[i]
      <4>1. h + 1 + i \in (Len(upto) + 1) .. (Len(upto) + Len(below))
            /\ (h + 1 + i) - Len(upto) = i
        BY <1>1, <2>2, <2>4, <2>5
      <4>2. new[h + 1 + i] = below[(h + 1 + i) - Len(upto)]
        BY <2>4, <2>5, <2>6, <4>1
      <4> QED
        BY <4>1, <4>2
    <3> QED
      BY <3>1, <3>2, <3>3
  <2>8. /\ new[h + 1] = line
        /\ \A i \in 1 .. len : new[Place(h + 1, i)] = log[i]
    <3>1. new[h + 1] = line
      BY <2>2, <2>5, <2>7
    <3>2. ASSUME NEW i \in 1 .. len, i <= h PROVE new[Place(h + 1, i)] = log[i]
      <4>1. i < h + 1 /\ i \in 1 .. h /\ i \in 1 .. h + 1
        BY <2>2, <3>2, <1>1
      <4> QED
        BY <4>1, <2>5, <2>7 DEF Place
    <3>3. ASSUME NEW i \in 1 .. len, ~ i <= h PROVE new[Place(h + 1, i)] = log[i]
      <4>1. ~ i < h + 1 /\ i - h \in 1 .. len - h /\ h + 1 + (i - h) = i + 1 /\ h + (i - h) = i
        BY <2>2, <3>3, <1>1
      <4> QED
        BY <4>1, <2>4, <2>7 DEF Place
    <3> QED
      BY <3>1, <3>2, <3>3
  <2>9. Inserted(log, h + 1, line, new)
    <3>1. h + 1 \in 1 .. len + 1 /\ \A i \in 1 .. len : Place(h + 1, i) \in 1 .. len + 1
      BY <2>2, <1>1 DEF Place
    <3>2. ASSUME NEW j \in 1 .. len + 1, j # h + 1
          PROVE  \E i \in 1 .. len : j = Place(h + 1, i)
      <4>1. CASE j < h + 1
        <5>1. j \in 1 .. len /\ Place(h + 1, j) = j
          BY <2>2, <3>2, <4>1, <1>1 DEF Place
        <5> QED
          BY <5>1
      <4>2. CASE ~ j < h + 1
        <5>1. j - 1 \in 1 .. len /\ ~ j - 1 < h + 1 /\ (j - 1) + 1 = j
          BY <2>2, <3>2, <4>2, <1>1
        <5> QED
          BY <5>1 DEF Place
      <4> QED
        BY <4>1, <4>2
    <3> QED
      BY <1>1, <2>7, <2>8, <3>1, <3>2 DEF Inserted, len
  <2>10. h \in -1 .. Len(new)
    BY <1>1, <2>7
  <2>11. /\ DOMAIN updated = ProjectFields /\ updated.heading = h /\ updated.log = new
         /\ updated.torn = project.torn /\ updated.made = project.made
         /\ updated.source = project.source /\ updated.recorded = project.recorded
    BY <1>1 DEF ProjectFields, h
  <2> HIDE DEF updated
  <2> QED
    BY <1>3, <2>1, <2>9, <2>10, <2>11 DEF log, h, len, LineGoes
<1> QED
  BY <1>2, <1>3

(* Where the newest of some lines is once there is one more. *)
LEMMA NewestAfter ==
  ASSUME NEW log \in Seq(Lines), NEW line \in Lines, NEW at, NEW new, Inserted(log, at, line, new),
         NEW from \in SUBSET DOMAIN log, NEW n, IsNewest(log, from, n)
  PROVE  LET moved == { Place(at, i) : i \in from }
         IN  /\ IsNewest(new, moved, Place(at, n))
             /\ \/ IsNewest(new, moved \cup {at}, at) /\ line.version >= log[n].version
                \/ IsNewest(new, moved \cup {at}, Place(at, n)) /\ log[n].version >= line.version
<1> DEFINE moved == { Place(at, i) : i \in from }
           m == Place(at, n)
<1>1. DOMAIN log \subseteq Nat /\ at \in Nat
  BY DEF Inserted
<1>2. /\ \A i \in from : log[i].version \in Nat
      /\ new[at].version \in Nat
  BY LinesTellVersions DEF Inserted
<1>3. /\ new[at] = line
      /\ \A i \in from : new[Place(at, i)] = log[i]
  BY DEF Inserted
<1>4. n \in from
  BY DEF IsNewest
<1>5. \A i \in from : /\ Place(at, i) \in Nat
                      /\ n <= i => m <= Place(at, i)
  BY <1>1, <1>4 DEF Place
<1>6. IsNewest(new, moved, m)
  <2>1. m \in moved
    BY <1>4
  <2>2. ASSUME NEW i \in from
        PROVE  \/ new[m].version > new[Place(at, i)].version
               \/ new[m].version = new[Place(at, i)].version /\ m <= Place(at, i)
    BY <1>3, <1>4, <1>5 DEF IsNewest
  <2> HIDE DEF m
  <2> QED
    BY <2>1, <2>2 DEF IsNewest
<1>7. new[m] = log[n] /\ m \in Nat /\ m # at
  BY <1>1, <1>3, <1>4, <1>5 DEF Place
<1> HIDE DEF m
<1>8. \A j \in moved : j \in Nat /\ new[j].version \in Nat
  BY <1>2, <1>3, <1>5
<1> HIDE DEF moved
<1>9. CASE line.version > log[n].version \/ (line.version = log[n].version /\ at < m)
  <2>1. ASSUME NEW j \in moved
        PROVE  \/ new[at].version > new[j].version
               \/ new[at].version = new[j].version /\ at <= j
    <3>1. \/ new[m].version > new[j].version
          \/ new[m].version = new[j].version /\ m <= j
      BY <1>6 DEF IsNewest
    <3> QED
      BY <1>1, <1>2, <1>3, <1>4, <1>7, <1>8, <1>9, <3>1
  <2>2. IsNewest(new, moved \cup {at}, at)
    BY <1>1, <2>1 DEF IsNewest
  <2> QED
    BY <1>2, <1>3, <1>4, <1>9, <2>2, <1>6, <1>7 DEF moved, m
<1>10. CASE ~ (line.version > log[n].version \/ (line.version = log[n].version /\ at < m))
  <2>1. new[m].version > new[at].version \/ (new[m].version = new[at].version /\ m <= at)
    BY <1>1, <1>2, <1>3, <1>4, <1>7, <1>10
  <2>2. IsNewest(new, moved \cup {at}, m) /\ log[n].version >= line.version
    BY <1>2, <1>3, <1>4, <1>6, <1>7, <1>10, <2>1 DEF IsNewest
  <2> QED
    BY <1>6, <2>2 DEF moved, m
<1> QED
  BY <1>9, <1>10

(* So there is a newest line always. *)
LEMMA NewestRemains ==
  ASSUME NEW project, Sound(project), NEW line \in Lines, NEW new,
         Inserted(project.log, LineGoes(project), line, new)
  PROVE  \E n \in DOMAIN new : IsNewest(new, DOMAIN new, n)
<1> DEFINE log == project.log
<1>1. PICK at : at = LineGoes(project)
  OBVIOUS
<1>2. log \in Seq(Lines) /\ Inserted(log, at, line, new)
  BY <1>1 DEF Sound
<1>3. DOMAIN new = { Place(at, i) : i \in DOMAIN log } \cup {at}
  BY <1>2 DEF Inserted
<1>4. CASE log = <<>>
  <2>1. DOMAIN new = {at} /\ at \in Nat
    BY <1>2, <1>3, <1>4 DEF Inserted
  <2> QED
    BY <2>1 DEF IsNewest
<1>5. CASE log # <<>>
  <2>1. PICK n \in DOMAIN log : IsNewest(log, DOMAIN log, n)
    BY <1>5 DEF Sound
  <2> HIDE DEF log
  <2>2. DOMAIN log \in SUBSET DOMAIN log
    OBVIOUS
  <2> DEFINE all == DOMAIN log
             moved == { Place(at, i) : i \in all }
  <2>3. IsNewest(new, moved \cup {at}, at) \/ IsNewest(new, moved \cup {at}, Place(at, n))
    BY <1>2, <2>1, <2>2, NewestAfter
  <2>4. DOMAIN new = moved \cup {at}
    BY <1>3 DEF moved, log
  <2> HIDE DEF moved
  <2>5. PICK m : IsNewest(new, DOMAIN new, m)
    BY <2>3, <2>4
  <2> QED
    BY <2>5 DEF IsNewest
<1> QED
  BY <1>4, <1>5

-----------------------------------------------------------------------------
(* What a run records, and what it leaves, however it ends. *)
RunsLine(r) == UpdatedTo(r.to, changesSelection(r), newFeatures(r))

LEMMA RunsLineIsALine ==
  ASSUME Inv, NEW r \in Requests, CanGenerate(r)
  PROVE  /\ RunsLine(r) \in Lines /\ RunsLine(r).version = r.to
         /\ RunsLine(r).named = changesSelection(r)
         /\ changesSelection(r) => RunsLine(r).features = newFeatures(r)
         /\ Target(r).commit \in Commits /\ Target(r).features = newFeatures(r)
         /\ newFeatures(r) \in SUBSET Features /\ Target(r) \in Sources
         /\ VersionOf[Target(r).commit] = r.to
         /\ work.made = "project"
<1>1. r.to \in Versions
  BY DEF Requests
<1>2. tag[r.to] \in Commits /\ VersionOf[tag[r.to]] = r.to
  BY <1>1 DEF Inv
<1>3. newFeatures(r) \in SUBSET Features
  <2>1. known(r) \subseteq Features
    BY <1>2, HistoryAssumption DEF Inv, known
  <2> QED
    BY <2>1 DEF CanGenerate
<1>4. changesSelection(r) \in BOOLEAN
  BY DEF changesSelection
<1>5. RunsLine(r) \in Lines
  <2> DEFINE features == IF changesSelection(r) THEN newFeatures(r) ELSE {}
  <2>1. features \in SUBSET Features
    BY <1>3
  <2> HIDE DEF features
  <2>2. [version |-> r.to, named |-> changesSelection(r), features |-> features] \in Lines
    BY <1>1, <1>4, <2>1, Zenon DEF Lines
  <2> QED
    BY <2>2, Zenon DEF UpdatedTo, RunsLine, features
<1>6. /\ RunsLine(r).version = r.to /\ RunsLine(r).named = changesSelection(r)
      /\ changesSelection(r) => RunsLine(r).features = newFeatures(r)
  BY DEF RunsLine, UpdatedTo
<1>7. Target(r) \in Sources
  BY <1>2, <1>3 DEF Target, Sources
<1> QED
  BY <1>2, <1>3, <1>5, <1>6, <1>7 DEF Target, Inv, Sound, CanGenerate, HasOrigin

Patches(r, done) ==
  work'.files = Patched(r, done) /\ work'.gone = StillGone(r, done)

Notes(r) ==
  /\ Inserted(work.log, LineGoes(work), RunsLine(r), work'.log)
  /\ work'.heading \in -1 .. Len(work'.log)
  /\ work'.heading = IF work.heading = -1 THEN Len(work.log) ELSE work.heading

SameRecord == work'.source = work.source /\ work'.recorded = work.recorded

(* A run that goes through, and the two ways to stop one. *)
Whole(r) ==
  /\ Patches(r, patched(r)) /\ Notes(r)
  /\ work'.source = Target(r) /\ work'.recorded = TRUE
  /\ work'.torn = IF work.torn \subseteq {Target(r)} THEN {} ELSE work.torn

NoRecord(r) ==
  /\ Patches(r, patched(r)) /\ Notes(r) /\ SameRecord
  /\ work'.torn = work.torn \cup {Target(r)}

Partly(r) ==
  /\ \E done \in SUBSET patched(r) : Patches(r, done)
  /\ work'.log = work.log /\ work'.heading = work.heading /\ SameRecord
  /\ work'.torn = work.torn \cup {Target(r)}

(* What git cannot apply whole was found before. *)
LEMMA FoundBefore ==
  ASSUME NEW r \in Requests, blocked(r) = {}
  PROVE  GitApplies(r)
<1>1. ASSUME NEW p \in Added(r) PROVE work.files[p] \in {Absent, after(r)[p]}
  BY DEF blocked, occupied, Has, Added
<1>2. ASSUME NEW p \in Deleted(r) \cap patched(r) PROVE work.files[p] = before[p]
  BY <1>2 DEF blocked, edited, patched, skipped, Deleted
<1>3. ASSUME NEW p \in Modified(r) \cap patched(r) PROVE Has(p)
  BY <1>3 DEF patched, skipped, Modified
<1> QED
  BY <1>1, <1>2, <1>3 DEF GitApplies

LEMMA RecordedFields ==
  ASSUME Inv, NEW r \in Requests, CanGenerate(r)
  PROVE  LET project == Recorded(r)
         IN  /\ DOMAIN project = ProjectFields
             /\ project.files = Patched(r, patched(r))
             /\ project.gone = StillGone(r, patched(r))
             /\ project.source = Target(r) /\ project.recorded = TRUE
             /\ project.torn = IF work.torn \subseteq {Target(r)} THEN {} ELSE work.torn
             /\ project.made = work.made
             /\ Inserted(work.log, LineGoes(work), RunsLine(r), project.log)
             /\ project.heading \in -1 .. Len(project.log)
             /\ project.heading = IF work.heading = -1 THEN Len(work.log) ELSE work.heading
<1> DEFINE noted == recordUpdate(work, RunsLine(r))
           torn == IF noted.torn \subseteq {Target(r)} THEN {} ELSE noted.torn
<1>1. RunsLine(r) \in Lines /\ Sound(work)
  BY RunsLineIsALine DEF Inv
<1>2. /\ Inserted(work.log, LineGoes(work), RunsLine(r), noted.log)
      /\ noted.heading \in -1 .. Len(noted.log)
      /\ noted.heading = IF work.heading = -1 THEN Len(work.log) ELSE work.heading
      /\ DOMAIN noted = ProjectFields
      /\ noted.torn = work.torn /\ noted.made = work.made
  BY <1>1, LineIsRecorded
<1>3. Recorded(r) = [noted EXCEPT !.files = Patched(r, patched(r)),
                                  !.gone = StillGone(r, patched(r)),
                                  !.source = Target(r),
                                  !.recorded = TRUE,
                                  !.torn = torn]
  BY DEF Recorded, RunsLine
<1>4. torn = IF work.torn \subseteq {Target(r)} THEN {} ELSE work.torn
  BY <1>2
<1> HIDE DEF noted, torn
<1>5. /\ DOMAIN Recorded(r) = ProjectFields
      /\ Recorded(r).files = Patched(r, patched(r))
      /\ Recorded(r).gone = StillGone(r, patched(r))
      /\ Recorded(r).source = Target(r) /\ Recorded(r).recorded = TRUE
      /\ Recorded(r).torn = torn /\ Recorded(r).made = noted.made
      /\ Recorded(r).log = noted.log /\ Recorded(r).heading = noted.heading
  BY <1>2, <1>3 DEF ProjectFields
<1> QED
  BY <1>2, <1>4, <1>5

LEMMA RunLeaves ==
  ASSUME Inv, NEW r \in Requests, Apply(r) \/ Interrupt(r)
  PROVE  /\ CanGenerate(r) /\ blocked(r) = {}
         /\ UNCHANGED <<template, tag, head, edits>> /\ updates' = updates + 1
         /\ updates < MaxUpdates
         /\ DOMAIN work' = ProjectFields /\ work'.made = work.made
         /\ Apply(r) => Whole(r)
         /\ Whole(r) \/ NoRecord(r) \/ Partly(r)
<1>1. /\ CanGenerate(r) /\ blocked(r) = {}
      /\ UNCHANGED <<template, tag, head, edits>> /\ updates' = updates + 1
      /\ updates < MaxUpdates
  BY DEF Apply, Interrupt, Writes
<1>2. DOMAIN work = ProjectFields
  BY DEF Inv, Sound
<1>3. ASSUME Apply(r)
      PROVE  DOMAIN work' = ProjectFields /\ work'.made = work.made /\ Whole(r)
  <2>1. work' = Recorded(r)
    BY <1>1, <1>3, FoundBefore DEF Apply
  <2> QED
    BY <1>1, <2>1, RecordedFields DEF Whole, Patches, Notes
<1>4. ASSUME NEW done \in SUBSET patched(r),
             work' = [work EXCEPT !.files = Patched(r, done),
                                  !.gone = StillGone(r, done),
                                  !.torn = @ \cup {Target(r)}]
      PROVE  DOMAIN work' = ProjectFields /\ work'.made = work.made /\ Partly(r)
  <2>1. /\ DOMAIN work' = ProjectFields /\ work'.made = work.made
        /\ work'.files = Patched(r, done) /\ work'.gone = StillGone(r, done)
        /\ work'.log = work.log /\ work'.heading = work.heading
        /\ work'.source = work.source /\ work'.recorded = work.recorded
        /\ work'.torn = work.torn \cup {Target(r)}
    BY <1>2, <1>4 DEF ProjectFields
  <2> QED
    BY <2>1 DEF Partly, Patches, SameRecord
<1>5. ASSUME work' = [Recorded(r) EXCEPT !.source = work.source,
                                         !.recorded = work.recorded,
                                         !.torn = @ \cup {Target(r)}]
      PROVE  DOMAIN work' = ProjectFields /\ work'.made = work.made /\ NoRecord(r)
  <2> DEFINE project == Recorded(r)
             target == Target(r)
  <2>1. /\ DOMAIN project = ProjectFields
        /\ project.files = Patched(r, patched(r))
        /\ project.gone = StillGone(r, patched(r))
        /\ project.torn = IF work.torn \subseteq {target} THEN {} ELSE work.torn
        /\ project.made = work.made
        /\ Inserted(work.log, LineGoes(work), RunsLine(r), project.log)
        /\ project.heading \in -1 .. Len(project.log)
        /\ project.heading = IF work.heading = -1 THEN Len(work.log) ELSE work.heading
    BY <1>1, RecordedFields
  <2>2. work' = [project EXCEPT !.source = work.source,
                                !.recorded = work.recorded,
                                !.torn = project.torn \cup {target}]
    BY <1>5
  <2> HIDE DEF project, target
  <2>3. /\ DOMAIN work' = ProjectFields /\ work'.made = project.made
        /\ work'.files = project.files /\ work'.gone = project.gone
        /\ work'.log = project.log /\ work'.heading = project.heading
        /\ work'.source = work.source /\ work'.recorded = work.recorded
        /\ work'.torn = project.torn \cup {target}
    BY <2>1, <2>2 DEF ProjectFields
  <2>4. work'.torn = work.torn \cup {target}
    BY <2>1, <2>3
  <2> QED
    BY <2>1, <2>3, <2>4 DEF NoRecord, Patches, Notes, SameRecord, target
<1>6. ASSUME Interrupt(r)
      PROVE  DOMAIN work' = ProjectFields /\ work'.made = work.made /\ (NoRecord(r) \/ Partly(r))
  BY <1>4, <1>5, <1>6 DEF Interrupt
<1> QED
  BY <1>1, <1>3, <1>6

-----------------------------------------------------------------------------
(* A hunk's text, and the template's text in it when it is in conflict. *)
Theirs == Commits \cup {MarkedOut}
Under(text) == IF InConflict(text) THEN TheirsOf(text) ELSE text

LEMMA TheirText ==
  ASSUME NEW text \in Theirs
  PROVE  /\ text \in Int /\ text > NoText /\ text # Mine /\ text \in Texts
         /\ Under(text) = text
         /\ Conflict(text) \in Texts /\ InConflict(Conflict(text))
         /\ Under(Conflict(text)) = text
<1>1. text \in Int /\ text >= MarkedOut /\ text # Mine
  BY TemplateAssumption DEF Theirs, MarkedOut, Mine
<1>2. text \in Texts /\ Conflict(text) \in Texts
  BY DEF Texts, Theirs
<1> QED
  BY <1>1, <1>2 DEF MarkedOut, NoText, Under, InConflict, Conflict, TheirsOf

LEMMA AnyText ==
  ASSUME NEW text \in Texts
  PROVE  /\ text \in Int /\ text # NoText
         /\ InConflict(text) => TheirsOf(text) \in Theirs
<1>1. text \in Theirs \/ text = Mine \/ \E t \in Theirs : text = Conflict(t)
  BY DEF Texts, Theirs
<1>2. CASE text \in Theirs
  BY <1>2, TheirText DEF InConflict, NoText
<1>3. CASE text = Mine
  BY <1>3 DEF Mine, NoText, InConflict
<1>4. ASSUME NEW t \in Theirs, text = Conflict(t)
      PROVE  text \in Int /\ text # NoText /\ TheirsOf(text) = t
  BY <1>4, TheirText DEF Conflict, TheirsOf, NoText
<1> QED
  BY <1>1, <1>2, <1>3, <1>4

LEMMA OwnText ==
  /\ Mine \in Texts /\ Mine # NoText /\ Under(Mine) = Mine /\ Mine \notin Theirs
  /\ Under(NoText) = NoText /\ NoText \notin Theirs
<1>1. Mine \in Texts
  BY DEF Texts
<1>2. Mine \notin Theirs /\ NoText \notin Theirs
  BY TheirText
<1> QED
  BY <1>1, <1>2 DEF Mine, NoText, Under, InConflict

LEMMA AFile ==
  ASSUME NEW file \in Contents
  PROVE  /\ file # Absent => file \in [Hunks -> Texts]
         /\ file \in [Hunks -> Texts] => file # Absent
<1>1. PICK h : h \in Hunks
  BY TemplateAssumption
<1>2. Absent[h] = NoText
  BY <1>1 DEF Absent
<1>3. ASSUME file \in [Hunks -> Texts] PROVE file[h] # NoText
  BY <1>1, <1>3, AnyText
<1> QED
  BY <1>2, <1>3 DEF Contents

(* What the template generates is its text. *)
LEMMA GeneratedText ==
  ASSUME template \in Templates, NEW commit \in Commits, NEW features, NEW p \in Paths
  PROVE  /\ generateSource(commit, features)[p] \in {Absent} \cup [Hunks -> Theirs]
         /\ generateSource(commit, features)[p] \in Contents
<1> DEFINE file == template.text[commit][p]
           result == plan(commit, features)
           generated == generateSource(commit, features)[p]
<1>1. file = Absent \/ file \in [Hunks -> Commits]
  BY HistoryAssumption
<1>2. ASSUME p \in DOMAIN result PROVE generated \in [Hunks -> Theirs]
  <2>1. file # Absent
    BY <1>2 DEF plan
  <2>2. file \in [Hunks -> Commits]
    BY <1>1, <2>1
  <2>3. result[p] = applyMarkers(commit, file, features)
    BY <1>2 DEF plan
  <2>4. generated = result[p]
    BY <1>2 DEF generateSource, renderMain
  <2> HIDE DEF file, result, generated
  <2>5. result[p] = [h \in Hunks |-> IF Kept(template.marks[commit][h], features) THEN file[h] ELSE MarkedOut]
    BY <2>3 DEF applyMarkers
  <2>6. \A h \in Hunks : file[h] \in Theirs /\ MarkedOut \in Theirs
    BY <2>2 DEF Theirs
  <2>7. result[p] \in [Hunks -> Theirs]
    BY <2>5, <2>6
  <2> QED
    BY <2>4, <2>7
<1>3. ASSUME p \notin DOMAIN result PROVE generated = Absent
  BY <1>3 DEF generateSource, renderMain
<1>4. generated \in {Absent} \cup [Hunks -> Theirs]
  BY <1>2, <1>3
<1>5. generated \in Contents
  <2>1. Theirs \subseteq Texts
    BY DEF Texts, Theirs
  <2> HIDE DEF generated
  <2> QED
    BY <1>4, <2>1 DEF Contents
<1> QED
  BY <1>4, <1>5

(* The project as it was generated and as it will be. *)
LEMMA BaseAndTarget ==
  ASSUME Inv, NEW r \in Requests, CanGenerate(r)
  PROVE  /\ tag[origin.version] \in Commits
         /\ before = generateSource(tag[origin.version], origin.features)
         /\ after(r) = generateSource(Target(r).commit, Target(r).features)
         /\ \A p \in Paths :
              /\ before[p] \in {Absent} \cup [Hunks -> Theirs]
              /\ after(r)[p] \in {Absent} \cup [Hunks -> Theirs] /\ after(r)[p] \in Contents
<1>1. origin.version \in Versions
  BY OriginIsAVersion DEF CanGenerate
<1>2. tag[origin.version] \in Commits /\ tag[r.to] \in Commits
  BY <1>1 DEF Inv, Requests
<1> QED
  BY <1>2, GeneratedText DEF before, after, Target, Inv

(* What git apply makes of a path. *)
LEMMA PatchedPath ==
  ASSUME Inv, NEW r \in Requests, CanGenerate(r), blocked(r) = {},
         NEW done \in SUBSET patched(r), NEW p \in Paths
  PROVE  \/ p \notin done /\ Patched(r, done)[p] = work.files[p]
         \/ /\ p \in done /\ p \in Modified(r) /\ Has(p)
            /\ Patched(r, done)[p] = Merge(work.files[p], before[p], after(r)[p])
         \/ /\ p \in done /\ p \in Added(r) \cup Deleted(r)
            /\ Patched(r, done)[p] = after(r)[p]
            /\ work.files[p] \in {Absent, before[p], after(r)[p]}
            /\ ~ Has(p) => before[p] = Absent
<1>1. GitApplies(r)
  BY FoundBefore
<1>2. CASE p \notin done
  BY <1>2 DEF Patched
<1>3. CASE p \in done /\ p \in Modified(r) /\ Has(p)
  BY <1>3 DEF Patched
<1>4. CASE p \in done /\ ~ (p \in Modified(r) /\ Has(p))
  <2>1. p \in Added(r) \/ p \in Deleted(r)
    BY <1>1, <1>4 DEF patched, GitApplies
  <2>2. p \in patched(r) /\ Patched(r, done)[p] = after(r)[p]
    BY <1>4 DEF Patched
  <2>3. work.files[p] \in {Absent, before[p], after(r)[p]}
    BY <1>1, <2>1, <2>2 DEF GitApplies
  <2>4. ~ Has(p) => before[p] = Absent
    BY <2>1, <2>2 DEF Added, Deleted, patched, skipped
  <2> QED
    BY <1>4, <2>1, <2>2, <2>3, <2>4
<1> QED
  BY <1>2, <1>3, <1>4

(* A merged hunk is the project's text, or the template's, or both. *)
LEMMA MergedHunk ==
  ASSUME Inv, NEW r \in Requests, CanGenerate(r), NEW p \in Modified(r), Has(p), NEW h \in Hunks
  PROVE  LET ours == work.files[p][h]
             base == before[p][h]
             theirs == after(r)[p][h]
             merged == Merge(work.files[p], before[p], after(r)[p])[h]
         IN  /\ ours \in Texts /\ base \in Theirs /\ theirs \in Theirs
             /\ \/ merged = ours /\ base = theirs
                \/ merged = theirs /\ ours \in {base, theirs}
                \/ merged = Conflict(theirs)
             /\ merged \in Texts
<1> DEFINE ours == work.files[p][h]
           base == before[p][h]
           theirs == after(r)[p][h]
           merged == Merge(work.files[p], before[p], after(r)[p])[h]
<1>1. p \in Paths /\ before[p] # Absent /\ after(r)[p] # Absent
  BY DEF Modified
<1>2. base \in Theirs /\ theirs \in Theirs
  BY <1>1, BaseAndTarget
<1>3. ours \in Texts
  BY <1>1, AFile DEF Inv, Sound, Has
<1>4. merged = IF base = theirs THEN ours
               ELSE IF ours \in {base, theirs} THEN theirs ELSE Conflict(theirs)
  BY DEF Merge
<1> HIDE DEF ours, base, theirs, merged
<1>5. theirs \in Texts /\ Conflict(theirs) \in Texts
  BY <1>2, TheirText
<1> QED
  BY <1>2, <1>3, <1>4, <1>5 DEF ours, base, theirs, merged

LEMMA PatchedFiles ==
  ASSUME Inv, NEW r \in Requests, CanGenerate(r), blocked(r) = {}, NEW done \in SUBSET patched(r)
  PROVE  /\ DOMAIN Patched(r, done) = Paths
         /\ \A p \in Paths : Patched(r, done)[p] \in Contents
<1>1. DOMAIN Patched(r, done) = Paths
  BY DEF Patched
<1>2. ASSUME NEW p \in Paths PROVE Patched(r, done)[p] \in Contents
  <2>1. CASE p \in Modified(r) /\ Has(p) /\
             Patched(r, done)[p] = Merge(work.files[p], before[p], after(r)[p])
    <3> DEFINE merged == Merge(work.files[p], before[p], after(r)[p])
    <3>1. \A h \in Hunks : merged[h] \in Texts
      BY <2>1, MergedHunk
    <3>2. merged = [h \in Hunks |-> merged[h]]
      BY DEF Merge
    <3> HIDE DEF merged
    <3>3. merged \in [Hunks -> Texts]
      BY <3>1, <3>2
    <3> QED
      BY <2>1, <3>3 DEF merged, Contents
  <2> QED
    BY <2>1, PatchedPath, BaseAndTarget DEF Inv, Sound
<1> QED
  BY <1>1, <1>2

(* The project's own work on its files, path by path. *)
OwnChange(p) ==
  \/ work'.files[p] = work.files[p] /\ (p \in work.gone => p \in work'.gone)
  \/ /\ work'.gone = work.gone /\ Has(p)
     /\ \E h \in Hunks : work'.files[p] = [work.files[p] EXCEPT ![h] = Mine]
  \/ work'.files[p] = Absent /\ p \in work'.gone
  \/ work'.files[p] = [h \in Hunks |-> Mine]
  \/ /\ work'.gone = work.gone
     /\ \E mine \in BOOLEAN : work'.files[p] =
          [h \in Hunks |-> IF ~ InConflict(work.files[p][h]) THEN work.files[p][h]
                           ELSE IF mine THEN Mine ELSE TheirsOf(work.files[p][h])]

LEMMA OwnWork ==
  ASSUME Inv, EditHunk \/ DeleteFile \/ AddFile \/ LoseHeading \/ Resolve
  PROVE  /\ UNCHANGED <<template, tag, head, updates>>
         /\ DOMAIN work' = ProjectFields
         /\ work'.source = work.source /\ work'.recorded = work.recorded /\ work'.log = work.log
         /\ work'.heading = work.heading \/ work'.heading = -1
         /\ work'.torn = work.torn /\ work'.made = work.made
         /\ DOMAIN work'.files = Paths /\ work'.gone \in SUBSET Paths
         /\ \A p \in Paths : OwnChange(p)
<1>1. /\ UNCHANGED <<template, tag, head, updates>>
      /\ DOMAIN work = ProjectFields /\ DOMAIN work.files = Paths /\ work.gone \in SUBSET Paths
  BY DEF Inv, Sound, EditHunk, DeleteFile, AddFile, LoseHeading, Own, Resolve
<1>2. ASSUME NEW files, NEW gone, DOMAIN files = Paths, gone \in SUBSET Paths,
             work' = [work EXCEPT !.files = files, !.gone = gone]
      PROVE  /\ DOMAIN work' = ProjectFields
             /\ work'.source = work.source /\ work'.recorded = work.recorded
             /\ work'.log = work.log /\ work'.heading = work.heading
             /\ work'.torn = work.torn /\ work'.made = work.made
             /\ DOMAIN work'.files = Paths /\ work'.gone \in SUBSET Paths
             /\ work'.files = files /\ work'.gone = gone
  BY <1>1, <1>2 DEF ProjectFields
<1>3. CASE EditHunk
  <2>1. PICK p \in Paths, h \in Hunks : Has(p) /\ work' = [work EXCEPT !.files[p][h] = Mine]
    BY <1>3 DEF EditHunk
  <2> DEFINE files == [work.files EXCEPT ![p][h] = Mine]
  <2>2. work' = [work EXCEPT !.files = files, !.gone = work.gone]
    BY <1>1, <2>1 DEF ProjectFields
  <2>3. /\ DOMAIN files = Paths /\ files[p] = [work.files[p] EXCEPT ![h] = Mine]
        /\ \A q \in Paths : q # p => files[q] = work.files[q]
    BY <1>1
  <2> HIDE DEF files
  <2>4. work'.files = files /\ work'.gone = work.gone
    BY <1>1, <1>2, <2>2, <2>3
  <2>5. \A q \in Paths : OwnChange(q)
    BY <2>1, <2>3, <2>4 DEF OwnChange
  <2> QED
    BY <1>1, <1>2, <2>2, <2>3, <2>5
<1>4. CASE DeleteFile
  <2>1. PICK p \in Paths : work' = [work EXCEPT !.files[p] = Absent, !.gone = @ \cup {p}]
    BY <1>4 DEF DeleteFile
  <2> DEFINE files == [work.files EXCEPT ![p] = Absent]
             gone == work.gone \cup {p}
  <2>2. work' = [work EXCEPT !.files = files, !.gone = gone]
    BY <2>1
  <2>3. /\ DOMAIN files = Paths /\ files[p] = Absent
        /\ \A q \in Paths : q # p => files[q] = work.files[q]
        /\ gone \in SUBSET Paths /\ p \in gone /\ work.gone \subseteq gone
    BY <1>1
  <2> HIDE DEF files, gone
  <2>4. work'.files = files /\ work'.gone = gone
    BY <1>2, <2>2, <2>3
  <2>5. \A q \in Paths : OwnChange(q)
    BY <2>3, <2>4 DEF OwnChange
  <2> QED
    BY <1>1, <1>2, <2>2, <2>3, <2>5
<1>5. CASE AddFile
  <2>1. PICK p \in Paths :
          work' = [work EXCEPT !.files[p] = [h \in Hunks |-> Mine], !.gone = @ \ {p}]
    BY <1>5 DEF AddFile
  <2> DEFINE files == [work.files EXCEPT ![p] = [h \in Hunks |-> Mine]]
             gone == work.gone \ {p}
  <2>2. work' = [work EXCEPT !.files = files, !.gone = gone]
    BY <2>1
  <2>3. /\ DOMAIN files = Paths /\ files[p] = [h \in Hunks |-> Mine]
        /\ \A q \in Paths : q # p => files[q] = work.files[q]
        /\ gone \in SUBSET Paths /\ work.gone \ {p} \subseteq gone
    BY <1>1
  <2> HIDE DEF files, gone
  <2>4. work'.files = files /\ work'.gone = gone
    BY <1>2, <2>2, <2>3
  <2>5. \A q \in Paths : OwnChange(q)
    BY <2>3, <2>4 DEF OwnChange
  <2> QED
    BY <1>1, <1>2, <2>2, <2>3, <2>5
<1>6. CASE LoseHeading
  <2>1. work' = [work EXCEPT !.heading = -1]
    BY <1>6 DEF LoseHeading
  <2>2. /\ DOMAIN work' = ProjectFields
        /\ work'.source = work.source /\ work'.recorded = work.recorded
        /\ work'.log = work.log /\ work'.heading = -1
        /\ work'.torn = work.torn /\ work'.made = work.made
        /\ work'.files = work.files /\ work'.gone = work.gone
    BY <1>1, <2>1 DEF ProjectFields
  <2> QED
    BY <1>1, <2>2 DEF OwnChange
<1>7. CASE Resolve
  <2>1. PICK mine \in BOOLEAN : work' = [work EXCEPT !.files =
               [p \in Paths |-> [h \in Hunks |->
                 IF ~InConflict(@[p][h]) THEN @[p][h]
                 ELSE IF mine THEN Mine ELSE TheirsOf(@[p][h])]]]
    BY <1>7 DEF Resolve
  <2> DEFINE files == [p \in Paths |-> [h \in Hunks |->
                 IF ~InConflict(work.files[p][h]) THEN work.files[p][h]
                 ELSE IF mine THEN Mine ELSE TheirsOf(work.files[p][h])]]
  <2>2. work' = [work EXCEPT !.files = files]
    BY <2>1
  <2>3. /\ DOMAIN files = Paths
        /\ \A p \in Paths : files[p] =
             [h \in Hunks |-> IF ~ InConflict(work.files[p][h]) THEN work.files[p][h]
                              ELSE IF mine THEN Mine ELSE TheirsOf(work.files[p][h])]
    OBVIOUS
  <2> HIDE DEF files
  <2>4. work' = [work EXCEPT !.files = files, !.gone = work.gone]
    BY <1>1, <2>2 DEF ProjectFields
  <2>5. work'.files = files /\ work'.gone = work.gone
    BY <1>1, <1>2, <2>3, <2>4
  <2>6. \A q \in Paths : OwnChange(q)
    BY <2>3, <2>5 DEF OwnChange
  <2> QED
    BY <1>1, <1>2, <2>3, <2>4, <2>6
<1> QED
  BY <1>3, <1>4, <1>5, <1>6, <1>7

-----------------------------------------------------------------------------
(* The line of init, alone. *)
LEMMA InitialLine ==
  ASSUME NEW c \in Commits, NEW features \in Starts, NEW log,
         log = <<Initialized(VersionOf[c], features)>>
  PROVE  /\ log \in Seq(Lines) /\ Len(log) = 1 /\ log # <<>> /\ DOMAIN log = {1}
         /\ log[1] = Initialized(VersionOf[c], features)
         /\ IsNewest(log, {1}, 1)
<1> DEFINE line == Initialized(VersionOf[c], features)
<1>1. VersionOf[c] \in Versions /\ features \in SUBSET Features
  BY TemplateAssumption DEF Versions
<1>2. line \in Lines
  BY <1>1, Zenon DEF Initialized, Lines
<1> HIDE DEF line
<1>3. log = <<line>>
  BY DEF line
<1>4. /\ log \in Seq(Lines) /\ Len(log) = 1 /\ log # <<>> /\ DOMAIN log = {1}
      /\ log[1] = line
  BY <1>2, <1>3
<1>5. IsNewest(log, {1}, 1)
  BY DEF IsNewest
<1> QED
  BY <1>4, <1>5 DEF line

LEMMA InitInv == Init => Inv
<1> SUFFICES ASSUME Init PROVE Inv
  OBVIOUS
<1>1. tag \in [Versions -> Commits] /\ \A v \in Versions : VersionOf[tag[v]] = v
  BY FirstIsACommit DEF Init
<1>2. ASSUME NEW copied \in Copies,
             work = [files |-> template.text[copied], gone |-> {},
                     source |-> [commit |-> copied, features |-> {}],
                     recorded |-> FALSE, log |-> <<>>, heading |-> 0,
                     torn |-> {}, made |-> "copy"]
      PROVE  Sound(work) /\ work.made # "part"
  <2>1. copied \in Commits
    BY TemplateAssumption
  <2>2. template.text[copied] \in [Paths -> {Absent} \cup [Hunks -> Commits]]
    BY <2>1, HistoryAssumption DEF Init
  <2>3. Commits \subseteq Texts
    BY DEF Texts
  <2>4. DOMAIN work.files = Paths /\ \A p \in Paths : work.files[p] \in Contents
    BY <1>2, <2>2, <2>3 DEF Contents
  <2>5. work.source \in Sources
    BY <1>2, <2>1 DEF Sources
  <2>6. /\ DOMAIN work = ProjectFields /\ work.log = <<>> /\ work.heading = 0
        /\ work.gone = {} /\ work.torn = {} /\ work.made = "copy" /\ work.recorded = FALSE
    BY <1>2 DEF ProjectFields
  <2>7. work.log \in Seq(Lines) /\ work.heading \in -1 .. Len(work.log)
    BY <2>6
  <2> QED
    BY <2>4, <2>5, <2>6, <2>7 DEF Sound
<1>3. ASSUME NEW features \in Starts,
             work = [files |-> generateSource(1, features), gone |-> {},
                     source |-> [commit |-> 1, features |-> features],
                     recorded |-> FALSE, log |-> <<Initialized(VersionOf[1], features)>>,
                     heading |-> 0, torn |-> {}, made |-> "project"]
      PROVE  Sound(work) /\ work.made # "part"
  <2>1. 1 \in Commits /\ features \in SUBSET Features
    BY TemplateAssumption
  <2> DEFINE files == generateSource(1, features)
             log == <<Initialized(VersionOf[1], features)>>
             source == [commit |-> 1, features |-> features]
  <2>2. DOMAIN files = Paths
    BY DEF generateSource, renderMain
  <2>3. \A p \in Paths : files[p] \in Contents
    <3>1. template \in Templates
      BY DEF Init
    <3> QED
      BY <2>1, <3>1, GeneratedText
  <2>4. /\ log \in Seq(Lines) /\ Len(log) = 1 /\ log # <<>>
        /\ DOMAIN log = {1} /\ IsNewest(log, {1}, 1)
    BY <2>1, InitialLine
  <2>5. source \in Sources
    BY <2>1 DEF Sources
  <2> HIDE DEF files, log, source
  <2>6. /\ DOMAIN work = ProjectFields /\ work.log = log /\ work.heading = 0
        /\ work.files = files /\ work.source = source
        /\ work.gone = {} /\ work.torn = {} /\ work.made = "project" /\ work.recorded = FALSE
    BY <1>3 DEF ProjectFields, files, log, source
  <2>7. work.heading \in -1 .. Len(work.log) /\ log # <<>>
    BY <2>4, <2>6
  <2> QED
    BY <2>2, <2>3, <2>4, <2>5, <2>6, <2>7 DEF Sound
<1> QED
  BY <1>1, <1>2, <1>3 DEF Init, Inv

(* A step that leaves the changelog and the record. *)
LEMMA SameRecordIsSound ==
  ASSUME Sound(work), DOMAIN work' = ProjectFields,
         DOMAIN work'.files = Paths, \A p \in Paths : work'.files[p] \in Contents,
         work'.gone \in SUBSET Paths, work'.torn \in SUBSET Sources,
         work'.source = work.source, work'.recorded = work.recorded, work'.log = work.log,
         work'.heading = work.heading \/ work'.heading = -1,
         work'.made = work.made
  PROVE  Sound(work)'
<1>1. Len(work.log) \in Nat
  BY DEF Sound
<1>2. work'.heading \in -1 .. Len(work'.log)
  BY <1>1 DEF Sound
<1> QED
  BY <1>2 DEF Sound, IsNewest

(* The run that makes the project. *)
LEMMA MadeIsSound ==
  ASSUME Inv, NEW features \in Starts, work.made = "copy"
  PROVE  LET made == Made(features)
         IN  /\ Snapshot \in Commits /\ made.source = [commit |-> Snapshot, features |-> features]
             /\ made.log = <<Initialized(VersionOf[Snapshot], features)>>
             /\ DOMAIN made.files = Paths /\ \A p \in Paths : made.files[p] \in Contents
             /\ made.files = Generated(features)
             /\ made.source \in Sources
             /\ DOMAIN made = ProjectFields /\ made.heading = 0 /\ made.torn = {}
             /\ made.gone = {} /\ made.recorded = TRUE /\ made.made = "project"
<1>1. Snapshot \in Commits
  BY SourcesTell DEF Inv, Sound, Snapshot
<1>2. [commit |-> Snapshot, features |-> features] \in Sources
  BY <1>1, TemplateAssumption DEF Sources
<1>3. /\ DOMAIN Generated(features) = Paths
      /\ \A p \in Paths : Generated(features)[p] \in Contents
  <2>1. DOMAIN Generated(features) = Paths
    BY DEF Generated, generateSource, renderMain
  <2> QED
    BY <1>1, <2>1, GeneratedText DEF Generated, Inv
<1> QED
  BY <1>1, <1>2, <1>3 DEF Made, ProjectFields

LEMMA InitializeKeepsInv ==
  ASSUME Inv, NEW features \in Starts, Initialize(features) \/ StopInitialize(features)
  PROVE  Inv' /\ work.log = <<>> /\ Len(work'.log) <= 1 /\ UNCHANGED <<head, updates, edits>>
<1> DEFINE made == Made(features)
<1>1. work.made = "copy" /\ Sound(work) /\ work.log = <<>> /\ work.heading \in {-1, 0}
  <2>1. work.made = "copy" /\ Sound(work)
    BY DEF Initialize, StopInitialize, CanInitialize, Inv
  <2>2. work.log = <<>> /\ work.heading \in -1 .. Len(work.log)
    BY <2>1 DEF Sound
  <2> QED
    BY <2>1, <2>2
<1>2. /\ Snapshot \in Commits
      /\ made.log = <<Initialized(VersionOf[Snapshot], features)>>
      /\ DOMAIN made.files = Paths /\ \A p \in Paths : made.files[p] \in Contents
      /\ made.files = Generated(features)
      /\ made.source \in Sources
      /\ DOMAIN made = ProjectFields /\ made.heading = 0 /\ made.torn = {}
      /\ made.gone = {} /\ made.recorded = TRUE /\ made.made = "project"
  BY <1>1, MadeIsSound
<1>3. /\ made.log \in Seq(Lines) /\ Len(made.log) = 1 /\ made.log # <<>>
      /\ DOMAIN made.log = {1} /\ IsNewest(made.log, {1}, 1)
  BY <1>2, InitialLine
<1>4. UNCHANGED <<template, tag, head, updates, edits>>
  BY DEF Initialize, StopInitialize
<1> HIDE DEF made
<1>5. Sound(work)' /\ Len(work'.log) <= 1
  <2>1. CASE Initialize(features)
    <3>1. work' = made
      BY <2>1 DEF Initialize, made
    <3>2. 0 \in -1 .. Len(made.log) /\ Len(made.log) <= 1
      BY <1>3
    <3> QED
      BY <1>2, <1>3, <3>1, <3>2 DEF Sound
  <2>2. CASE StopInitialize(features)
    <3>1. PICK gone, written \in SUBSET Paths, cleared \in SUBSET bootstrapPaths(features),
               line, record \in BOOLEAN :
             LET files == Generated(features)
                 leftover == { p \in Paths :
                                 Has(p) /\ (files[p] = Absent \/ p \in bootstrapPaths(features)) }
             IN  /\ gone \subseteq leftover
                 /\ written \subseteq { p \in Paths : files[p] # Absent }
                 /\ written # {} \/ line \/ record =>
                      gone = leftover /\ cleared = bootstrapPaths(features)
                 /\ work' = [work EXCEPT
                       !.files = [p \in Paths |-> IF p \in written THEN files[p]
                                                  ELSE IF p \in gone THEN Absent ELSE @[p]],
                       !.log = IF line THEN Made(features).log ELSE @,
                       !.source = IF record THEN Made(features).source ELSE @,
                       !.recorded = record,
                       !.made = "part"]
                 /\ ignored' = ignored \ cleared
      BY <2>2 DEF StopInitialize
    <3> DEFINE files == [p \in Paths |-> IF p \in written THEN Generated(features)[p]
                                         ELSE IF p \in gone THEN Absent ELSE work.files[p]]
    <3>2. work' = [work EXCEPT !.files = files,
                               !.log = IF line THEN made.log ELSE work.log,
                               !.source = IF record THEN made.source ELSE work.source,
                               !.recorded = record,
                               !.made = "part"]
      BY <3>1 DEF made
    <3>3. DOMAIN files = Paths /\ \A p \in Paths : files[p] \in Contents
      BY <1>1, <1>2 DEF Sound, Contents
    <3> HIDE DEF files
    <3>4. /\ DOMAIN work' = ProjectFields /\ work'.made = "part" /\ work'.recorded = record
          /\ work'.log = (IF line THEN made.log ELSE work.log)
          /\ work'.source = (IF record THEN made.source ELSE work.source)
          /\ work'.heading = work.heading /\ work'.torn = work.torn
          /\ work'.files = files /\ work'.gone = work.gone
      BY <1>1, <3>2 DEF Sound, ProjectFields
    <3>5. /\ work'.source \in Sources /\ work'.recorded \in BOOLEAN
          /\ work'.gone \in SUBSET Paths /\ work'.torn \in SUBSET Sources
      BY <1>1, <1>2, <3>4 DEF Sound
    <3>6. CASE line
      <4>1. work'.log = made.log
        BY <3>4, <3>6
      <4>2. work'.heading \in -1 .. Len(made.log) /\ Len(made.log) <= 1
        BY <1>1, <1>3, <3>4
      <4> QED
        BY <1>3, <3>3, <3>4, <3>5, <4>1, <4>2 DEF Sound
    <3>7. CASE ~ line
      <4>1. work'.log = <<>>
        BY <1>1, <3>4, <3>7
      <4>2. work'.heading \in -1 .. Len(<<>>) /\ Len(<<>>) <= 1 /\ <<>> \in Seq(Lines)
        BY <1>1, <3>4
      <4> QED
        BY <3>3, <3>4, <3>5, <4>1, <4>2 DEF Sound
    <3> QED
      BY <3>6, <3>7
  <2> QED
    BY <2>1, <2>2
<1> QED
  BY <1>1, <1>4, <1>5 DEF Inv

(* The runs that update it. *)
LEMMA RunKeepsInv ==
  ASSUME Inv, NEW r \in Requests, Apply(r) \/ Interrupt(r)
  PROVE  Inv' /\ Len(work'.log) <= Len(work.log) + 1
<1>1. /\ CanGenerate(r) /\ blocked(r) = {} /\ UNCHANGED <<template, tag, head>>
      /\ DOMAIN work' = ProjectFields /\ work'.made = work.made
      /\ Whole(r) \/ NoRecord(r) \/ Partly(r)
  BY RunLeaves
<1>2. /\ RunsLine(r) \in Lines /\ Target(r) \in Sources /\ work.made = "project"
      /\ Sound(work)
  BY <1>1, RunsLineIsALine DEF Inv
<1>3. ASSUME NEW done \in SUBSET patched(r), Patches(r, done)
      PROVE  /\ DOMAIN work'.files = Paths /\ \A p \in Paths : work'.files[p] \in Contents
             /\ work'.gone \in SUBSET Paths
  <2>1. work'.gone \in SUBSET Paths
    BY <1>2, <1>3 DEF Patches, StillGone, Sound
  <2> QED
    BY <1>1, <1>3, <2>1, PatchedFiles DEF Patches
<1>4. Len(work.log) \in Nat
  BY <1>2 DEF Sound
<1>5. CASE Partly(r)
  <2>1. /\ work'.torn \in SUBSET Sources /\ work'.log = work.log /\ work'.heading = work.heading
        /\ work'.source = work.source /\ work'.recorded = work.recorded
    BY <1>2, <1>5 DEF Partly, SameRecord, Sound
  <2>2. PICK done \in SUBSET patched(r) : Patches(r, done)
    BY <1>5 DEF Partly
  <2>3. Sound(work)'
    BY <1>1, <1>2, <1>3, <2>1, <2>2, SameRecordIsSound
  <2>4. Len(work'.log) <= Len(work.log) + 1
    BY <1>4, <2>1
  <2> QED
    BY <1>1, <2>3, <2>4 DEF Inv
<1>6. CASE Whole(r) \/ NoRecord(r)
  <2>1. Patches(r, patched(r)) /\ Notes(r)
    BY <1>6 DEF Whole, NoRecord
  <2>2. work'.source \in Sources /\ work'.torn \in SUBSET Sources /\ work'.recorded \in BOOLEAN
    BY <1>2, <1>6 DEF Whole, NoRecord, SameRecord, Sound
  <2>3. /\ work'.log \in Seq(Lines) /\ Len(work'.log) = Len(work.log) + 1
        /\ work'.heading \in -1 .. Len(work'.log)
    BY <2>1 DEF Notes, Inserted
  <2>4. \E n \in DOMAIN work'.log : IsNewest(work'.log, DOMAIN work'.log, n)
    BY <1>2, <2>1, NewestRemains DEF Notes
  <2>5. work'.log # <<>>
    BY <1>4, <2>3
  <2>6. /\ DOMAIN work'.files = Paths /\ \A p \in Paths : work'.files[p] \in Contents
        /\ work'.gone \in SUBSET Paths
    BY <1>3, <2>1
  <2>7. Sound(work)'
    BY <1>1, <1>2, <2>2, <2>3, <2>4, <2>5, <2>6 DEF Sound
  <2>8. Len(work'.log) <= Len(work.log) + 1
    BY <1>4, <2>3
  <2> QED
    BY <1>1, <2>7, <2>8 DEF Inv
<1> QED
  BY <1>1, <1>5, <1>6

(* The project's own work. *)
LEMMA OwnFiles ==
  ASSUME Inv, NEW p \in Paths, OwnChange(p)
  PROVE  work'.files[p] \in Contents
<1> DEFINE file == work.files[p]
<1>1. file \in Contents
  BY DEF Inv, Sound
<1>2. Mine \in Texts
  BY OwnText
<1>3. ASSUME NEW h \in Hunks, Has(p), work'.files[p] = [file EXCEPT ![h] = Mine]
      PROVE  work'.files[p] \in [Hunks -> Texts]
  <2>1. file \in [Hunks -> Texts]
    BY <1>1, <1>3, AFile DEF Has
  <2> HIDE DEF file
  <2> QED
    BY <1>2, <1>3, <2>1
<1>4. ASSUME NEW mine \in BOOLEAN,
             work'.files[p] =
               [h \in Hunks |-> IF ~ InConflict(file[h]) THEN file[h]
                                ELSE IF mine THEN Mine ELSE TheirsOf(file[h])]
      PROVE  work'.files[p] \in Contents
  <2>1. CASE file = Absent
    <3>1. \A h \in Hunks : file[h] = NoText /\ ~ InConflict(NoText)
      BY <2>1 DEF Absent, InConflict, NoText
    <3>2. work'.files[p] = [h \in Hunks |-> NoText]
      BY <1>4, <3>1
    <3> QED
      BY <3>2 DEF Absent, Contents
  <2>2. CASE file # Absent
    <3>1. file \in [Hunks -> Texts]
      BY <1>1, <2>2, AFile
    <3>2. ASSUME NEW h \in Hunks
          PROVE  (IF ~ InConflict(file[h]) THEN file[h]
                  ELSE IF mine THEN Mine ELSE TheirsOf(file[h])) \in Texts
      <4>1. file[h] \in Texts
        BY <3>1
      <4>2. InConflict(file[h]) => TheirsOf(file[h]) \in Texts
        BY <4>1, AnyText, TheirText
      <4> QED
        BY <1>2, <4>1, <4>2
    <3> HIDE DEF file
    <3>3. work'.files[p] \in [Hunks -> Texts]
      BY <1>4, <3>2
    <3> QED
      BY <3>3 DEF Contents
  <2> QED
    BY <2>1, <2>2
<1>5. [h \in Hunks |-> Mine] \in [Hunks -> Texts]
  BY <1>2
<1> QED
  BY <1>1, <1>3, <1>4, <1>5 DEF OwnChange, Contents

LEMMA OwnKeepsInv ==
  ASSUME Inv, EditHunk \/ DeleteFile \/ AddFile \/ LoseHeading \/ Resolve
  PROVE  Inv'
<1>1. /\ UNCHANGED <<template, tag, head>>
      /\ DOMAIN work' = ProjectFields
      /\ work'.source = work.source /\ work'.recorded = work.recorded /\ work'.log = work.log
      /\ work'.heading = work.heading \/ work'.heading = -1
      /\ work'.torn = work.torn /\ work'.made = work.made
      /\ DOMAIN work'.files = Paths /\ work'.gone \in SUBSET Paths
      /\ \A p \in Paths : OwnChange(p)
  BY OwnWork
<1>2. \A p \in Paths : work'.files[p] \in Contents
  BY <1>1, OwnFiles
<1>3. Sound(work) /\ work'.torn \in SUBSET Sources
  BY <1>1 DEF Inv, Sound
<1>4. Sound(work)'
  BY <1>1, <1>2, <1>3, SameRecordIsSound
<1> QED
  BY <1>1, <1>4 DEF Inv

LEMMA NextKeepsInv == Inv /\ [Next]_vars => Inv'
<1> SUFFICES ASSUME Inv, [Next]_vars PROVE Inv'
  OBVIOUS
<1>1. CASE RefuseToInitialize \/ Refuse \/ AlreadyCurrent \/ UNCHANGED vars
  BY <1>1 DEF RefuseToInitialize, Refuse, AlreadyCurrent, Stops, vars, Inv, Sound
<1>2. CASE Commit \/ Revert \/ Build
  BY <1>2 DEF Commit, Revert, Build, Own, Inv, Sound
<1>3. CASE MoveTag
  <2>1. PICK c \in Commits : tag' = [tag EXCEPT ![VersionOf[c]] = c]
    BY <1>3 DEF MoveTag
  <2>2. tag' \in [Versions -> Commits] /\ \A v \in Versions : VersionOf[tag'[v]] = v
    BY <2>1 DEF Inv, Versions
  <2> QED
    BY <1>3, <2>2 DEF MoveTag, Inv, Sound
<1> QED
  BY <1>1, <1>2, <1>3, InitializeKeepsInv, RunKeepsInv, OwnKeepsInv DEF Next

THEOREM InvHolds == Spec => []Inv
  BY InitInv, NextKeepsInv, PTL DEF Spec

(***************************************************************************)
(* Each part of the state keeps its type: TypeOK.  The changelog has at    *)
(* most the line of init and one for each run that wrote.                  *)
(***************************************************************************)
Counted ==
  /\ exit \in {"none", "refused", "initialized", "current", "applied", "conflicts", "stopped"}
  /\ updates \in 0 .. MaxUpdates
  /\ edits \in 0 .. MaxEdits
  /\ Len(work.log) <= updates + 1 /\ Len(head.log) <= updates + 1
  /\ ignored \in SUBSET Paths

LEMMA NextKeepsCounted ==
  ASSUME Inv, Counted, [Next]_vars
  PROVE  Counted'
<1>1. MaxUpdates \in Nat /\ MaxEdits \in Nat /\ updates \in Nat /\ edits \in Nat
  BY TemplateAssumption DEF Counted
<1>2. Len(work.log) \in Nat /\ Len(head.log) \in Nat
  BY DEF Inv, Sound
<1>3. CASE RefuseToInitialize \/ Refuse \/ AlreadyCurrent \/ Commit \/ Revert \/ MoveTag
  <2>1. exit' \in {"none", "refused", "current"}
    BY <1>3 DEF RefuseToInitialize, Refuse, AlreadyCurrent, Commit, Revert, MoveTag
  <2>2. UNCHANGED <<updates, edits, ignored>> /\ {work', head'} \subseteq {work, head}
    BY <1>3 DEF RefuseToInitialize, Refuse, AlreadyCurrent, Commit, Revert, MoveTag, Stops
  <2> QED
    BY <2>1, <2>2 DEF Counted
<1>4. ASSUME NEW features \in Starts, Initialize(features) \/ StopInitialize(features)
      PROVE  Counted'
  <2>1. exit' \in {"initialized", "stopped"}
    BY <1>4 DEF Initialize, StopInitialize
  <2>2. Len(work'.log) <= 1 /\ UNCHANGED <<head, updates, edits>>
    BY <1>4, InitializeKeepsInv
  <2>3. Len(work'.log) \in Nat
    BY <1>4, InitializeKeepsInv DEF Inv, Sound
  <2>4. ignored' \in SUBSET Paths
    BY <1>4 DEF Initialize, StopInitialize, Counted
  <2> QED
    BY <1>1, <1>2, <2>1, <2>2, <2>3, <2>4 DEF Counted
<1>5. ASSUME NEW r \in Requests, Apply(r) \/ Interrupt(r)
      PROVE  Counted'
  <2>1. exit' \in {"applied", "conflicts", "refused", "stopped"}
    BY <1>5 DEF Apply, Interrupt
  <2>2. updates' = updates + 1 /\ updates < MaxUpdates /\ UNCHANGED <<head, edits>>
    BY <1>5, RunLeaves
  <2>3. Len(work'.log) <= Len(work.log) + 1
    BY <1>5, RunKeepsInv
  <2>4. Len(work'.log) \in Nat
    BY <1>5, RunKeepsInv DEF Inv, Sound
  <2>5. Len(work'.log) <= updates' + 1 /\ Len(head'.log) <= updates' + 1
    BY <1>1, <1>2, <2>2, <2>3, <2>4 DEF Counted
  <2>6. ignored' \in SUBSET Paths
    BY <1>5 DEF Apply, Interrupt, Cleared, Counted
  <2> QED
    BY <1>1, <2>1, <2>2, <2>5, <2>6 DEF Counted
<1>6. CASE EditHunk \/ DeleteFile \/ AddFile \/ LoseHeading \/ Resolve
  <2>1. exit' = "none" /\ (edits' = edits \/ (edits < MaxEdits /\ edits' = edits + 1))
    BY <1>6 DEF EditHunk, DeleteFile, AddFile, LoseHeading, Own, Resolve
  <2>2. UNCHANGED <<head, updates>> /\ work'.log = work.log
    BY <1>6, OwnWork
  <2>3. ignored' = ignored
    BY <1>6 DEF EditHunk, DeleteFile, AddFile, LoseHeading, Resolve
  <2> QED
    BY <1>1, <2>1, <2>2, <2>3 DEF Counted
<1>7. CASE Build
  <2>1. exit' = "none" /\ edits < MaxEdits /\ edits' = edits + 1 /\ UNCHANGED <<work, head, updates>>
    BY <1>7 DEF Build, Own
  <2>2. ignored' \in SUBSET Paths
    BY <1>7 DEF Build, Counted
  <2> QED
    BY <1>1, <2>1, <2>2 DEF Counted
<1>8. CASE UNCHANGED vars
  BY <1>8 DEF vars, Counted
<1> QED
  BY <1>3, <1>4, <1>5, <1>6, <1>7, <1>8 DEF Next

THEOREM TypesHold == Spec => []TypeOK
<1>1. Init => Counted
  <2> SUFFICES ASSUME Init PROVE Counted
    OBVIOUS
  <2>1. Len(work.log) <= 1
    <3>1. work.log = <<>> \/ \E features \in Starts : work.log = <<Initialized(VersionOf[1], features)>>
      BY DEF Init
    <3>2. 1 \in Commits
      BY TemplateAssumption
    <3>3. CASE work.log = <<>>
      BY <3>3
    <3>4. ASSUME NEW features \in Starts, work.log = <<Initialized(VersionOf[1], features)>>
          PROVE  Len(work.log) <= 1
      BY <3>2, <3>4, InitialLine
    <3> QED
      BY <3>1, <3>3, <3>4
  <2> QED
    BY <2>1, TemplateAssumption DEF Init, Counted
<1>2. Inv /\ Counted => TypeOK
  BY DEF Inv, Sound, Counted, TypeOK, ProjectOK
<1> QED
  BY <1>1, <1>2, InvHolds, NextKeepsCounted, PTL DEF Spec

-----------------------------------------------------------------------------
(***************************************************************************)
(* A run that refuses has changed nothing: RefusedChangesNothing.          *)
(***************************************************************************)
THEOREM RefusalsChangeNothing == Spec => RefusedChangesNothing
<1>1. ASSUME Next, exit' = "refused" PROVE work' = work
  <2>1. CASE RefuseToInitialize \/ Refuse \/ AlreadyCurrent
    BY <2>1 DEF RefuseToInitialize, Refuse, AlreadyCurrent, Stops
  <2>2. ASSUME NEW features \in Starts, Initialize(features) \/ StopInitialize(features)
        PROVE FALSE
    BY <1>1, <2>2 DEF Initialize, StopInitialize
  <2>3. ASSUME NEW r \in Requests, Apply(r) PROVE FALSE
    BY <1>1, <2>3, FoundBefore DEF Apply
  <2>4. ASSUME NEW r \in Requests, Interrupt(r) PROVE FALSE
    BY <1>1, <2>4 DEF Interrupt
  <2>5. CASE Build \/ EditHunk \/ DeleteFile \/ AddFile \/ LoseHeading
    BY <1>1, <2>5 DEF Build, EditHunk, DeleteFile, AddFile, LoseHeading, Own
  <2>6. CASE Commit \/ Revert \/ Resolve \/ MoveTag
    BY <1>1, <2>6 DEF Commit, Revert, Resolve, MoveTag
  <2> QED
    BY <1>1, <2>1, <2>2, <2>3, <2>4, <2>5, <2>6 DEF Next
<1>2. [Next]_vars => [exit' = "refused" => work' = work]_vars
  BY <1>1 DEF vars
<1> QED
  BY <1>2, PTL DEF Spec, RefusedChangesNothing

-----------------------------------------------------------------------------
LEMMA RecordedFiles ==
  ASSUME Inv, NEW r \in Requests, Apply(r)
  PROVE  /\ CanGenerate(r) /\ blocked(r) = {}
         /\ work'.files = Patched(r, patched(r))
         /\ work'.source = Target(r)
         /\ template' = template
  BY RunLeaves DEF Whole, Patches

(***************************************************************************)
(* A feature taken out of the selection leaves no file in the paths it has *)
(* in the release the project is on, the project's own included, where the *)
(* release asked for neither keeps the path nor has the file; and no       *)
(* directory with ignored files either, when a file is changed at all:     *)
(* NothingLeftBehind.                                                      *)
(***************************************************************************)
THEOREM FeaturesLeaveNothing == Spec => NothingLeftBehind
<1> DEFINE Goal == exit' \in {"applied", "conflicts"} =>
              LET new == work'.source
                  taken == (origin.features \cap template.known[new.commit]) \ new.features
              IN \A p \in Paths :
                   /\ template.owners[origin.commit][p] \cap taken # {}
                   /\ template.owners[new.commit][p] \cap new.features = {}
                   /\ generateSource(new.commit, new.features)[p] = Absent
                   => /\ work'.files[p] = Absent
                      /\ p \in ignored' => \A q \in Paths : work'.files[q] = work.files[q]
<1>1. ASSUME Inv, NEW r \in Requests, Apply(r), NEW p \in Paths,
             NEW f \in template.owners[origin.commit][p],
             f \in origin.features, f \in template.known[work'.source.commit],
             f \notin work'.source.features,
             template.owners[work'.source.commit][p] \cap work'.source.features = {},
             generateSource(work'.source.commit, work'.source.features)[p] = Absent
      PROVE  /\ work'.files[p] = Absent
             /\ p \in ignored' => \A q \in Paths : work'.files[q] = work.files[q]
  <2>1. /\ CanGenerate(r) /\ blocked(r) = {}
        /\ work'.files = Patched(r, patched(r)) /\ work'.source = Target(r)
    BY <1>1, RecordedFiles
  <2>2. /\ f \in known(r) /\ f \notin newFeatures(r)
        /\ template.owners[tag[r.to]][p] \cap newFeatures(r) = {}
        /\ after(r)[p] = Absent
    BY <1>1, <2>1 DEF Target, known, after
  <2>3. changesSelection(r) /\ f \in r.remove
    BY <1>1, <2>2 DEF newFeatures
  <2>4. p \in removed(r) \ kept(r)
    BY <1>1, <2>2, <2>3 DEF removed, kept
  <2>5. work'.files[p] = Absent
    <3>1. CASE before[p] = Absent
      <4>1. ~ Has(p)
        BY <2>1, <2>4, <3>1 DEF blocked, own
      <4>2. p \notin patched(r)
        BY <2>2, <3>1 DEF patched, Added, Deleted, Modified
      <4> QED
        BY <2>1, <4>1, <4>2 DEF Patched, Has
    <3>2. CASE before[p] # Absent
      <4>1. p \in Deleted(r) /\ p \notin Modified(r)
        BY <2>2, <3>2 DEF Deleted, Modified
      <4>2. CASE Has(p)
        <5>1. p \in patched(r)
          BY <4>1, <4>2 DEF patched, skipped
        <5> QED
          BY <2>1, <2>2, <4>1, <5>1 DEF Patched
      <4>3. CASE ~ Has(p)
        <5>1. p \notin patched(r)
          BY <4>1, <4>3 DEF patched, skipped
        <5> QED
          BY <2>1, <4>3, <5>1 DEF Patched, Has
      <4> QED
        BY <4>2, <4>3
    <3> QED
      BY <3>1, <3>2
  <2>6. ASSUME p \in ignored', NEW q \in Paths PROVE work'.files[q] = work.files[q]
    <3>1. p \in emptied(r)
      BY <2>1, <2>4, <2>5 DEF emptied
    <3>2. ignored' = Cleared(r)
      BY <1>1, <2>1, FoundBefore DEF Apply
    <3>3. patched(r) \subseteq same(r)
      BY <2>6, <3>1, <3>2 DEF Cleared
    <3>4. q \in patched(r) => q \in Added(r) /\ work.files[q] = after(r)[q] /\ q \notin Modified(r)
      BY <3>3 DEF same, Added, Modified
    <3> QED
      BY <2>1, <3>4 DEF Patched
  <2> QED
    BY <2>5, <2>6
<1>2. ASSUME Next, exit' \in {"applied", "conflicts"} PROVE \E r \in Requests : Apply(r)
  <2>1. ~ (RefuseToInitialize \/ Refuse \/ AlreadyCurrent)
    BY <1>2 DEF RefuseToInitialize, Refuse, AlreadyCurrent
  <2>2. ~ \E features \in Starts : Initialize(features) \/ StopInitialize(features)
    BY <1>2 DEF Initialize, StopInitialize
  <2>3. ~ \E r \in Requests : Interrupt(r)
    BY <1>2 DEF Interrupt
  <2>4. ~ (Build \/ EditHunk \/ DeleteFile \/ AddFile \/ LoseHeading)
    BY <1>2 DEF Build, EditHunk, DeleteFile, AddFile, LoseHeading, Own
  <2>5. ~ (Commit \/ Revert \/ Resolve \/ MoveTag)
    BY <1>2 DEF Commit, Revert, Resolve, MoveTag
  <2> QED
    BY <1>2, <2>1, <2>2, <2>3, <2>4, <2>5 DEF Next
<1>3. Inv /\ [Next]_vars => [Goal]_vars
  <2> SUFFICES ASSUME Inv, Next PROVE Goal
    OBVIOUS
  <2> QED
    BY <1>1, <1>2
<1> QED
  BY <1>3, InvHolds, PTL DEF Spec, NothingLeftBehind

-----------------------------------------------------------------------------
(* Whatever part of the changes is made, the project's text is still       *)
(* there, and what it removed stays away.                                  *)
LEMMA PatchKeepsOwnWork ==
  ASSUME Inv, NEW r \in Requests, CanGenerate(r), blocked(r) = {},
         NEW done \in SUBSET patched(r), NEW p \in Paths
  PROVE  /\ \A h \in Hunks : work.files[p][h] = Mine =>
              Patched(r, done)[p][h] = Mine \/ InConflict(Patched(r, done)[p][h])
         /\ ~ Has(p) /\ Patched(r, done)[p] # Absent => before[p] = Absent
<1>1. CASE Patched(r, done)[p] = work.files[p]
  BY <1>1 DEF Has
<1>2. CASE /\ p \in Modified(r) /\ Has(p)
           /\ Patched(r, done)[p] = Merge(work.files[p], before[p], after(r)[p])
  <2>1. ASSUME NEW h \in Hunks, work.files[p][h] = Mine
        PROVE  Patched(r, done)[p][h] = Mine \/ InConflict(Patched(r, done)[p][h])
    <3> DEFINE theirs == after(r)[p][h]
               merged == Merge(work.files[p], before[p], after(r)[p])[h]
    <3>1. /\ before[p][h] \in Theirs /\ theirs \in Theirs
          /\ \/ merged = Mine
             \/ merged = theirs /\ Mine \in {before[p][h], theirs}
             \/ merged = Conflict(theirs)
      BY <1>2, <2>1, MergedHunk
    <3>2. Mine \notin Theirs
      BY OwnText
    <3>3. InConflict(Conflict(theirs))
      BY <3>1, TheirText
    <3> QED
      BY <1>2, <3>1, <3>2, <3>3
  <2> QED
    BY <1>2, <2>1
<1>3. CASE /\ Patched(r, done)[p] = after(r)[p]
           /\ work.files[p] \in {Absent, before[p], after(r)[p]}
           /\ ~ Has(p) => before[p] = Absent
  <2>1. ASSUME NEW h \in Hunks, NEW file \in {Absent} \cup [Hunks -> Theirs] PROVE file[h] # Mine
    BY OwnText DEF Absent, NoText, Mine
  <2>2. before[p] \in {Absent} \cup [Hunks -> Theirs] /\ after(r)[p] \in {Absent} \cup [Hunks -> Theirs]
    BY BaseAndTarget
  <2>3. work.files[p] \in {Absent} \cup [Hunks -> Theirs]
    BY <1>3, <2>2
  <2> QED
    BY <1>3, <2>1, <2>3
<1> QED
  BY <1>1, <1>2, <1>3, PatchedPath

(***************************************************************************)
(* Whatever a run does, however it ends, what the project wrote is still   *)
(* there, and a file it removed does not come back: OwnWorkSurvives.       *)
(***************************************************************************)
THEOREM ProjectsWorkSurvives == Spec => OwnWorkSurvives
<1> DEFINE Survives(p) ==
             /\ \A h \in Hunks :
                  work.files[p][h] = Mine =>
                    \/ work'.files[p][h] = Mine \/ InConflict(work'.files[p][h])
                    \/ work.made = "copy" /\ head'.files[p][h] = Mine
             /\ HasOrigin /\ ~ Has(p) /\ work'.files[p] # Absent => before[p] = Absent
<1>1. ASSUME Inv, Next, exit' # "none", NEW p \in Paths PROVE Survives(p)
  <2>1. CASE RefuseToInitialize \/ Refuse \/ AlreadyCurrent
    <3>1. work' = work
      BY <2>1 DEF RefuseToInitialize, Refuse, AlreadyCurrent, Stops
    <3> QED
      BY <3>1 DEF Has
  <2>2. ASSUME NEW features \in Starts, Initialize(features) \/ StopInitialize(features)
        PROVE Survives(p)
    <3>1. work.made = "copy" /\ work = head /\ head' = head
      BY <2>2 DEF Initialize, StopInitialize, CanInitialize, assertClean
    <3>2. ~ HasOrigin
      BY <1>1, <3>1 DEF Inv, Sound, HasOrigin
    <3> QED
      BY <3>1, <3>2
  <2>3. ASSUME NEW r \in Requests, Apply(r) PROVE Survives(p)
    <3>1. /\ CanGenerate(r) /\ blocked(r) = {}
          /\ work'.files = Patched(r, patched(r))
      BY <1>1, <2>3, RecordedFiles
    <3> QED
      BY <1>1, <3>1, PatchKeepsOwnWork
  <2>4. ASSUME NEW r \in Requests, Interrupt(r) PROVE Survives(p)
    <3>1. CanGenerate(r) /\ blocked(r) = {}
      BY <1>1, <2>4, RunLeaves
    <3>2. \E done \in SUBSET patched(r) : work'.files = Patched(r, done)
      BY <1>1, <2>4, RunLeaves DEF Whole, NoRecord, Partly, Patches
    <3> QED
      BY <1>1, <3>1, <3>2, PatchKeepsOwnWork
  <2>5. ~ (Build \/ EditHunk \/ DeleteFile \/ AddFile \/ LoseHeading)
    BY <1>1 DEF Build, EditHunk, DeleteFile, AddFile, LoseHeading, Own
  <2>6. ~ (Commit \/ Revert \/ Resolve \/ MoveTag)
    BY <1>1 DEF Commit, Revert, Resolve, MoveTag
  <2> QED
    BY <1>1, <2>1, <2>2, <2>3, <2>4, <2>5, <2>6 DEF Next
<1>2. Inv /\ [Next]_vars => [exit' # "none" => \A p \in Paths : Survives(p)]_vars
  BY <1>1
<1> QED
  BY <1>2, InvHolds, PTL DEF Spec, OwnWorkSurvives

-----------------------------------------------------------------------------
(* What a source generates. *)
Gen(source) == generateSource(source.commit, source.features)

(* A path of the project is as one of these sources generates it, apart    *)
(* from what the project itself wrote there, or removed.                   *)
PathFrom(project, sources, p) ==
  /\ project.files[p] = Absent =>
       p \in project.gone \/ \E s \in sources : Gen(s)[p] = Absent
  /\ \A h \in Hunks :
       Under(project.files[p][h]) \in Theirs =>
         \E s \in sources : Gen(s)[p][h] = Under(project.files[p][h])

AllFrom(project, sources) == \A p \in Paths : PathFrom(project, sources, p)

Initially(project) ==
  /\ project.source.commit = 1 /\ project.source.features \in Starts
  /\ project.log = <<Initialized(VersionOf[1], project.source.features)>>

(* A project is made of the recorded source and of those of the updates    *)
(* that were interrupted since; without a record the changelog tells where *)
(* it came from, or an interrupted update was written whole.               *)
Based(project) ==
  project.made = "project" =>
    /\ AllFrom(project, {project.source} \cup project.torn)
    /\ \/ project.recorded
       \/ Initially(project)
       \/ project.torn # {} /\ AllFrom(project, project.torn)

LEMMA MoreSources ==
  ASSUME NEW project, NEW some, AllFrom(project, some), NEW more, some \subseteq more
  PROVE  AllFrom(project, more)
  BY DEF AllFrom, PathFrom

LEMMA SameTemplate ==
  ASSUME template' = template
  PROVE  /\ Based(work)' <=> Based(work')
         /\ Based(head)' <=> Based(head')
<1>1. ASSUME NEW commit, NEW features
      PROVE  generateSource(commit, features)' = generateSource(commit, features)
  BY DEF generateSource, renderMain, plan, applyMarkers, removedPaths
<1> QED
  BY <1>1 DEF Based, AllFrom, PathFrom, Gen, Initially

(* What was generated is as it was generated. *)
LEMMA GeneratedIsFrom ==
  ASSUME template \in Templates, NEW project, project.source.commit \in Commits,
         project.files = Gen(project.source)
  PROVE  AllFrom(project, {project.source})
<1> DEFINE source == project.source
<1>1. ASSUME NEW p \in Paths, NEW h \in Hunks, Under(Gen(source)[p][h]) \in Theirs
      PROVE  Under(Gen(source)[p][h]) = Gen(source)[p][h]
  <2>1. Gen(source)[p] \in {Absent} \cup [Hunks -> Theirs]
    BY GeneratedText DEF Gen
  <2>2. CASE Gen(source)[p] = Absent
    BY <1>1, <2>2, OwnText DEF Absent
  <2>3. CASE Gen(source)[p] \in [Hunks -> Theirs]
    BY <2>3, TheirText
  <2> QED
    BY <2>1, <2>2, <2>3
<1> QED
  BY <1>1 DEF AllFrom, PathFrom

(* What a run patches is then also from the source it brings; and no       *)
(* longer from the one it starts from, when all of it is patched.          *)
LEMMA PatchedIsFrom ==
  ASSUME Inv, NEW r \in Requests, CanGenerate(r), blocked(r) = {},
         NEW done \in SUBSET patched(r), Patches(r, done),
         NEW sources, NEW base, \A s \in base : Gen(s) = before, base # {} => done = patched(r),
         AllFrom(work, sources \cup base)
  PROVE  AllFrom(work', sources \cup {Target(r)})
<1> SUFFICES ASSUME NEW p \in Paths PROVE PathFrom(work', sources \cup {Target(r)}, p)
  BY DEF AllFrom
<1> DEFINE target == Target(r)
<1>1. /\ before[p] \in {Absent} \cup [Hunks -> Theirs]
      /\ Gen(target)[p] = after(r)[p] /\ after(r)[p] \in {Absent} \cup [Hunks -> Theirs]
  BY BaseAndTarget DEF Gen
<1>2. /\ work.files[p] = Absent =>
           p \in work.gone \/ \E s \in sources \cup base : Gen(s)[p] = Absent
      /\ \A h \in Hunks :
           Under(work.files[p][h]) \in Theirs =>
             \E s \in sources \cup base : Gen(s)[p][h] = Under(work.files[p][h])
  BY DEF AllFrom, PathFrom
<1>3. /\ work'.files[p] = Patched(r, done)[p]
      /\ p \in work.gone /\ (p \notin done \/ p \notin Added(r)) => p \in work'.gone
  BY DEF Patches, StillGone
<1>4. CASE p \notin done /\ Patched(r, done)[p] = work.files[p]
  <2>1. CASE base = {}
    BY <1>2, <1>3, <1>4, <2>1 DEF PathFrom
  <2>2. CASE base # {} /\ p \notin Added(r) \cup Deleted(r) \cup Modified(r)
    <3>1. before[p] = after(r)[p]
      BY <2>2 DEF Added, Deleted, Modified
    <3>2. \A s \in base : Gen(s)[p] = Gen(target)[p]
      BY <1>1, <3>1
    <3> HIDE DEF target
    <3>3. PathFrom(work', sources \cup {target}, p)
      BY <1>2, <1>3, <1>4, <3>2 DEF PathFrom
    <3> QED
      BY <3>3 DEF target
  <2>3. CASE base # {} /\ p \in skipped(r)
    <3>1. before[p] # Absent /\ work.files[p] = Absent
      BY <2>3 DEF skipped, Has, Modified, Deleted
    <3>2. \A h \in Hunks : Under(work.files[p][h]) \notin Theirs
      BY <3>1, OwnText DEF Absent
    <3>3. \A s \in base : Gen(s)[p] # Absent
      BY <3>1
    <3> QED
      BY <1>2, <1>3, <1>4, <3>1, <3>2, <3>3 DEF PathFrom
  <2> QED
    BY <1>4, <2>1, <2>2, <2>3 DEF patched
<1>5. CASE /\ p \in done /\ p \in Modified(r) /\ Has(p)
           /\ Patched(r, done)[p] = Merge(work.files[p], before[p], after(r)[p])
  <2> DEFINE merged == Merge(work.files[p], before[p], after(r)[p])
  <2>1. ASSUME NEW h \in Hunks
        PROVE  /\ merged[h] # NoText
               /\ \/ /\ Under(merged[h]) = Under(work.files[p][h])
                     /\ before[p][h] = after(r)[p][h]
                  \/ Under(merged[h]) = after(r)[p][h]
    <3>1. /\ work.files[p][h] \in Texts /\ after(r)[p][h] \in Theirs
          /\ \/ merged[h] = work.files[p][h] /\ before[p][h] = after(r)[p][h]
             \/ merged[h] = after(r)[p][h]
             \/ merged[h] = Conflict(after(r)[p][h])
          /\ merged[h] \in Texts
      BY <1>5, MergedHunk
    <3> HIDE DEF merged
    <3> QED
      BY <3>1, AnyText, TheirText
  <2>2. work'.files[p] = merged
    BY <1>3, <1>5
  <2> HIDE DEF merged
  <2>3. work'.files[p] # Absent
    <3>1. PICK h : h \in Hunks
      BY TemplateAssumption
    <3> QED
      BY <2>1, <2>2, <3>1 DEF Absent
  <2>4. ASSUME NEW h \in Hunks, Under(work'.files[p][h]) \in Theirs
        PROVE  \E s \in sources \cup {target} : Gen(s)[p][h] = Under(work'.files[p][h])
    <3>1. CASE Under(work'.files[p][h]) = after(r)[p][h]
      BY <1>1, <3>1
    <3>2. CASE /\ Under(work'.files[p][h]) = Under(work.files[p][h])
               /\ before[p][h] = after(r)[p][h]
      <4>1. PICK s \in sources \cup base : Gen(s)[p][h] = Under(work'.files[p][h])
        BY <1>2, <2>4, <3>2
      <4>2. CASE s \in base
        BY <1>1, <3>2, <4>1, <4>2
      <4> QED
        BY <4>1, <4>2
    <3> QED
      BY <2>1, <2>2, <3>1, <3>2
  <2> QED
    BY <2>3, <2>4 DEF PathFrom
<1>6. CASE Patched(r, done)[p] = after(r)[p]
  <2>1. work'.files[p] = Gen(target)[p]
    BY <1>1, <1>3, <1>6
  <2>2. ASSUME NEW h \in Hunks, Under(Gen(target)[p][h]) \in Theirs
        PROVE  Under(Gen(target)[p][h]) = Gen(target)[p][h]
    <3>1. CASE Gen(target)[p] = Absent
      BY <2>2, <3>1, OwnText DEF Absent
    <3>2. CASE Gen(target)[p] \in [Hunks -> Theirs]
      BY <3>2, TheirText
    <3> QED
      BY <1>1, <3>1, <3>2
  <2> HIDE DEF target
  <2>3. PathFrom(work', sources \cup {target}, p)
    BY <2>1, <2>2 DEF PathFrom
  <2> QED
    BY <2>3 DEF target
<1> QED
  BY <1>4, <1>5, <1>6, PatchedPath

(* What the project does to its files leaves the others'. *)
LEMMA OwnIsFrom ==
  ASSUME Inv, NEW sources, AllFrom(work, sources), \A p \in Paths : OwnChange(p)
  PROVE  AllFrom(work', sources)
<1> SUFFICES ASSUME NEW p \in Paths PROVE PathFrom(work', sources, p)
  BY DEF AllFrom
<1>1. PathFrom(work, sources, p) /\ OwnChange(p)
  BY DEF AllFrom
<1>2. work.files[p] \in Contents
  BY DEF Inv, Sound
<1>3. PICK any : any \in Hunks
  BY TemplateAssumption
<1>4. CASE work'.files[p] = work.files[p] /\ (p \in work.gone => p \in work'.gone)
  BY <1>1, <1>4 DEF PathFrom
<1>5. ASSUME work'.gone = work.gone, Has(p), NEW h \in Hunks,
             work'.files[p] = [work.files[p] EXCEPT ![h] = Mine]
      PROVE  PathFrom(work', sources, p)
  <2>1. work.files[p] \in [Hunks -> Texts]
    BY <1>2, <1>5, AFile DEF Has
  <2>2. \A g \in Hunks : work'.files[p][g] = IF g = h THEN Mine ELSE work.files[p][g]
    BY <1>5, <2>1
  <2>3. work'.files[p] # Absent
    BY <2>2, OwnText DEF Absent
  <2> QED
    BY <1>1, <2>2, <2>3, OwnText DEF PathFrom
<1>6. CASE work'.files[p] = Absent /\ p \in work'.gone
  BY <1>6, OwnText DEF PathFrom, Absent
<1>7. CASE work'.files[p] = [h \in Hunks |-> Mine]
  <2>1. work'.files[p] # Absent
    BY <1>3, <1>7, OwnText DEF Absent
  <2> QED
    BY <1>7, <2>1, OwnText DEF PathFrom
<1>8. ASSUME work'.gone = work.gone, NEW mine \in BOOLEAN,
             work'.files[p] =
               [h \in Hunks |-> IF ~ InConflict(work.files[p][h]) THEN work.files[p][h]
                                ELSE IF mine THEN Mine ELSE TheirsOf(work.files[p][h])]
      PROVE  PathFrom(work', sources, p)
  <2>1. ASSUME NEW h \in Hunks
        PROVE  Under(work'.files[p][h]) \in {Mine, Under(work.files[p][h])}
    <3>1. CASE work.files[p] = Absent
      BY <1>8, <3>1 DEF Absent, InConflict, NoText
    <3>2. CASE work.files[p] # Absent
      <4>1. work.files[p][h] \in Texts
        BY <1>2, <3>2, AFile
      <4>2. InConflict(work.files[p][h]) =>
              Under(TheirsOf(work.files[p][h])) = Under(work.files[p][h])
        BY <4>1, AnyText, TheirText DEF Under
      <4> QED
        BY <1>8, <4>1, <4>2, OwnText
    <3> QED
      BY <3>1, <3>2
  <2>2. ASSUME work'.files[p] = Absent PROVE work.files[p] = Absent
    <3>1. CASE work.files[p] # Absent
      <4>1. work.files[p][any] \in Texts
        BY <1>2, <1>3, <3>1, AFile
      <4>2. InConflict(work.files[p][any]) => TheirsOf(work.files[p][any]) # NoText
        BY <4>1, AnyText, TheirText
      <4>3. work'.files[p][any] # NoText
        BY <1>3, <1>8, <4>1, <4>2, AnyText, OwnText
      <4> QED
        BY <1>3, <2>2, <4>3 DEF Absent
    <3> QED
      BY <3>1
  <2> QED
    BY <1>1, <1>8, <2>1, <2>2, OwnText DEF PathFrom
<1> QED
  BY <1>1, <1>4, <1>5, <1>6, <1>7, <1>8 DEF OwnChange

(* What a run starts from: its base is among the sources of the project,   *)
(* or an interrupted run left nothing of it.                               *)
LEMMA BaseIsASource ==
  ASSUME Inv, Based(work), NEW r \in Requests, CanGenerate(r)
  PROVE  \E base : /\ \A s \in base : Gen(s) = before
                   /\ AllFrom(work, work.torn \cup base)
<1>1. work.made = "project" /\ work.source \in Sources
  BY RunsLineIsALine DEF Inv, Sound
<1>2. tag[origin.version] = origin.commit
  BY DEF CanGenerate, resolveSource
<1>3. AllFrom(work, work.torn \cup {work.source})
  BY <1>1, MoreSources DEF Based
<1>4. CASE work.recorded
  <2>1. origin.commit = work.source.commit /\ origin.features = work.source.features
    BY <1>4 DEF origin
  <2>2. Gen(work.source) = before
    BY <1>2, <2>1 DEF Gen, before
  <2> QED
    BY <1>3, <2>2
<1>5. CASE ~ work.recorded /\ Initially(work)
  <2> DEFINE log == work.log
             line == Initialized(VersionOf[1], work.source.features)
  <2>1. 1 \in Commits /\ \A c \in Commits : 1 <= c
    BY TemplateAssumption
  <2>2. /\ log \in Seq(Lines) /\ DOMAIN log = {1} /\ log[1] = line /\ IsNewest(log, {1}, 1)
    BY <1>5, <2>1, InitialLine DEF Initially
  <2>3. line.version = VersionOf[1] /\ line.named = TRUE /\ line.features = work.source.features
    BY DEF Initialized
  <2>4. FirstOf(VersionOf[1]) = 1
    <3>1. ASSUME NEW c \in Commits, \A d \in Commits : VersionOf[d] = VersionOf[1] => c <= d
          PROVE  c = 1
      <4>1. c <= 1 /\ 1 <= c /\ c \in Nat
        BY <2>1, <3>1, TemplateAssumption
      <4> QED
        BY <4>1
    <3> QED
      BY <2>1, <3>1 DEF FirstOf
  <2>5. { i \in DOMAIN log : log[i].named } = {1}
    BY <2>2, <2>3
  <2>6. Newest(log, {1}) = 1
    <3> HIDE DEF log
    <3> QED
      BY <2>2, NewestIs
  <2>7. origin.commit = FirstOf(VersionOf[1]) /\ origin.features = work.source.features
    BY <1>5, <2>2, <2>3, <2>5, <2>6 DEF origin, readOrigin
  <2>8. Gen(work.source) = before
    BY <1>2, <1>5, <2>4, <2>7 DEF Gen, before, Initially
  <2> QED
    BY <1>3, <2>8
<1>6. CASE work.torn # {} /\ AllFrom(work, work.torn)
  <2>1. AllFrom(work, work.torn \cup {})
    BY <1>6, MoreSources
  <2> QED
    BY <2>1
<1> QED
  BY <1>1, <1>4, <1>5, <1>6 DEF Based

LEMMA RunKeepsBased ==
  ASSUME Inv, Based(work), NEW r \in Requests, Apply(r) \/ Interrupt(r)
  PROVE  Based(work')
<1>1. /\ CanGenerate(r) /\ blocked(r) = {} /\ work'.made = work.made
      /\ Whole(r) \/ NoRecord(r) \/ Partly(r)
  BY RunLeaves
<1>2. work.made = "project"
  BY <1>1, RunsLineIsALine
<1> DEFINE target == Target(r)
<1>3. CASE Whole(r) \/ NoRecord(r)
  <2>1. PICK base : /\ \A s \in base : Gen(s) = before
                    /\ AllFrom(work, work.torn \cup base)
    BY <1>1, BaseIsASource
  <2>2. Patches(r, patched(r))
    BY <1>3 DEF Whole, NoRecord
  <2>3. AllFrom(work', work.torn \cup {target})
    BY <1>1, <2>1, <2>2, PatchedIsFrom
  <2> HIDE DEF target
  <2>4. CASE work'.source = target /\ work'.recorded = TRUE
             /\ work'.torn = IF work.torn \subseteq {target} THEN {} ELSE work.torn
    <3>1. work.torn \cup {target} \subseteq {work'.source} \cup work'.torn
      BY <2>4
    <3>2. AllFrom(work', {work'.source} \cup work'.torn)
      BY <2>3, <3>1, MoreSources
    <3> QED
      BY <2>4, <3>2 DEF Based
  <2>5. CASE work'.torn = work.torn \cup {target}
    <3>1. AllFrom(work', {work'.source} \cup work'.torn)
      BY <2>3, <2>5, MoreSources
    <3> QED
      BY <2>3, <2>5, <3>1 DEF Based
  <2> QED
    BY <1>3, <2>4, <2>5 DEF Whole, NoRecord, target
<1>4. CASE Partly(r)
  <2>1. PICK done \in SUBSET patched(r) : Patches(r, done)
    BY <1>4 DEF Partly
  <2>2. ASSUME NEW sources, AllFrom(work, sources)
        PROVE  AllFrom(work', sources \cup {target})
    <3>1. AllFrom(work, sources \cup {})
      BY <2>2, MoreSources
    <3> QED
      BY <1>1, <2>1, <3>1, PatchedIsFrom
  <2>3. /\ work'.log = work.log /\ work'.source = work.source
        /\ work'.recorded = work.recorded /\ work'.torn = work.torn \cup {target}
    BY <1>4 DEF Partly, SameRecord
  <2> HIDE DEF target
  <2>4. AllFrom(work', {work'.source} \cup work'.torn)
    <3>1. AllFrom(work', ({work.source} \cup work.torn) \cup {target})
      BY <1>2, <2>2 DEF Based
    <3> QED
      BY <2>3, <3>1, MoreSources
  <2>5. Initially(work) => Initially(work')
    BY <2>3 DEF Initially
  <2>6. AllFrom(work, work.torn) => AllFrom(work', work'.torn)
    BY <2>2, <2>3
  <2> QED
    BY <1>2, <2>3, <2>4, <2>5, <2>6 DEF Based
<1> QED
  BY <1>1, <1>3, <1>4

LEMMA NextKeepsBased ==
  ASSUME Inv, Based(work), Based(head), [Next]_vars
  PROVE  Based(work)' /\ Based(head)'
<1> SUFFICES ASSUME template' = template PROVE Based(work') /\ Based(head')
  <2>1. template' = template
    BY DEF Next, RefuseToInitialize, Refuse, AlreadyCurrent, Stops, vars, Initialize,
           StopInitialize, Apply, Interrupt, Writes, Build, EditHunk, DeleteFile, AddFile, LoseHeading,
           Own, Commit, Revert, Resolve, MoveTag
  <2> QED
    BY <2>1, SameTemplate
<1>1. CASE \/ RefuseToInitialize \/ Refuse \/ AlreadyCurrent \/ Commit \/ Revert \/ MoveTag
           \/ Build \/ UNCHANGED vars
  <2>1. {work', head'} \subseteq {work, head}
    BY <1>1 DEF RefuseToInitialize, Refuse, AlreadyCurrent, Commit, Revert, MoveTag, Stops,
                Build, Own, vars
  <2> QED
    BY <2>1
<1>2. ASSUME NEW features \in Starts, Initialize(features) PROVE Based(work') /\ Based(head')
  <2>1. work' = Made(features) /\ head' = head /\ work.made = "copy"
    BY <1>2 DEF Initialize, CanInitialize
  <2>2. work'.source = [commit |-> Snapshot, features |-> features]
    BY <2>1, MadeIsSound
  <2>3. work'.source.commit = Snapshot /\ work'.source.features = features /\ Snapshot \in Commits
    <3>1. Snapshot \in Commits
      BY <2>1, MadeIsSound
    <3> QED
      BY <2>2, <3>1
  <2>4. work'.files = Gen(work'.source) /\ work'.recorded = TRUE /\ work'.torn = {}
    BY <2>1, <2>3, MadeIsSound DEF Generated, Gen
  <2>5. AllFrom(work', {work'.source})
    BY <2>3, <2>4, GeneratedIsFrom DEF Inv
  <2>6. AllFrom(work', {work'.source} \cup work'.torn)
    BY <2>5, MoreSources
  <2> QED
    BY <2>1, <2>4, <2>6 DEF Based
<1>3. ASSUME NEW features \in Starts, StopInitialize(features)
      PROVE  Based(work') /\ Based(head')
  <2>1. work'.made = "part" /\ head' = head
    BY <1>3 DEF StopInitialize, Inv, Sound, ProjectFields
  <2> QED
    BY <2>1 DEF Based
<1>4. ASSUME NEW r \in Requests, Apply(r) \/ Interrupt(r) PROVE Based(work') /\ Based(head')
  BY <1>4, RunKeepsBased, RunLeaves
<1>5. CASE EditHunk \/ DeleteFile \/ AddFile \/ LoseHeading \/ Resolve
  <2>1. /\ head' = head /\ \A p \in Paths : OwnChange(p)
        /\ work'.source = work.source /\ work'.recorded = work.recorded /\ work'.log = work.log
        /\ work'.torn = work.torn /\ work'.made = work.made
    BY <1>5, OwnWork
  <2>2. ASSUME NEW sources, AllFrom(work, sources) PROVE AllFrom(work', sources)
    BY <2>1, <2>2, OwnIsFrom
  <2>3. Initially(work) => Initially(work')
    BY <2>1 DEF Initially
  <2> QED
    BY <2>1, <2>2, <2>3 DEF Based
<1> QED
  BY <1>1, <1>2, <1>3, <1>4, <1>5 DEF Next

(***************************************************************************)
(* The record tells what is there: RecordTellsFiles.  Its invariant keeps, *)
(* for the working tree and the commit, the sources that their text and    *)
(* their missing files come from: the recorded one, and those of the       *)
(* updates that were interrupted since the last one that went through.     *)
(***************************************************************************)
THEOREM RecordsTellFiles == Spec => []RecordTellsFiles
<1>1. Init => Based(work) /\ Based(head)
  <2> SUFFICES ASSUME Init PROVE Based(work)
    BY DEF Init
  <2>1. CASE work.made = "copy"
    BY <2>1 DEF Based
  <2>2. ASSUME NEW features \in Starts,
               work = [files |-> generateSource(1, features), gone |-> {},
                       source |-> [commit |-> 1, features |-> features],
                       recorded |-> FALSE, log |-> <<Initialized(VersionOf[1], features)>>,
                       heading |-> 0, torn |-> {}, made |-> "project"]
        PROVE  Based(work)
    <3>1. Initially(work) /\ work.torn = {} /\ work.files = Gen(work.source)
      BY <2>2 DEF Initially, Gen
    <3>2. work.source.commit \in Commits /\ template \in Templates
      BY <2>2, TemplateAssumption DEF Init
    <3>3. AllFrom(work, {work.source})
      BY <3>1, <3>2, GeneratedIsFrom
    <3>4. AllFrom(work, {work.source} \cup work.torn)
      BY <3>3, MoreSources
    <3> QED
      BY <3>1, <3>4 DEF Based
  <2> QED
    BY <2>1, <2>2 DEF Init
<1>2. Inv /\ Based(work) => RecordTellsFiles
  <2> SUFFICES ASSUME Inv, Based(work), work.made = "project", work.torn = {}, NEW p \in Paths
               PROVE  LET recorded == generateSource(work.source.commit, work.source.features)
                      IN  /\ ~ Has(p) => recorded[p] = Absent \/ p \in work.gone
                          /\ \A h \in Hunks :
                               work.files[p][h] \in Commits \cup {MarkedOut} =>
                                 work.files[p][h] = recorded[p][h]
    BY DEF RecordTellsFiles
  <2>1. PathFrom(work, {work.source}, p)
    <3>1. AllFrom(work, {work.source})
      BY MoreSources DEF Based
    <3> QED
      BY <3>1 DEF AllFrom
  <2>2. ASSUME NEW h \in Hunks, work.files[p][h] \in Commits \cup {MarkedOut}
        PROVE  work.files[p][h] = Gen(work.source)[p][h]
    <3>1. work.files[p][h] \in Theirs /\ Under(work.files[p][h]) = work.files[p][h]
      BY <2>2, TheirText DEF Theirs
    <3> QED
      BY <2>1, <3>1 DEF PathFrom
  <2> QED
    BY <2>1, <2>2 DEF PathFrom, Has, Gen
<1>3. Inv /\ (Based(work) /\ Based(head)) /\ [Next]_vars => (Based(work) /\ Based(head))'
  BY NextKeepsBased
<1> QED
  BY <1>1, <1>2, <1>3, InvHolds, PTL DEF Spec

-----------------------------------------------------------------------------
(* The lines of the changelog that name the features. *)
Naming(log) == { i \in DOMAIN log : log[i].named }

(* While the lines are written above the others: one has the version of    *)
(* the record and none a later one, and the newest that names the features *)
(* names those of the record; or an interrupted update wrote it.           *)
NoLater(project) ==
  \A i \in DOMAIN project.log :
    \E s \in {project.source} \cup project.torn : project.log[i].version <= VersionOf[s.commit]

NewestNames(project) ==
  \E n \in Naming(project.log) :
    /\ IsNewest(project.log, Naming(project.log), n)
    /\ \/ /\ project.log[n].features = project.source.features
          /\ project.log[n].version <= VersionOf[project.source.commit]
       \/ \E s \in project.torn :
            /\ project.log[n].features = s.features
            /\ project.log[n].version = VersionOf[s.commit]

Reads(project) ==
  project.made = "project" /\ project.heading = 0 =>
    /\ \E i \in DOMAIN project.log : project.log[i].version = VersionOf[project.source.commit]
    /\ NoLater(project)
    /\ NewestNames(project)

(* So it reads as the record, without an interrupted update. *)
LEMMA ReadsTheRecord ==
  ASSUME Inv, Reads(work), work.made = "project", work.torn = {}, work.heading = 0
  PROVE  ReadsAsRecorded
<1> DEFINE log == work.log
           version == VersionOf[work.source.commit]
<1>1. log \in Seq(Lines) /\ version \in Nat
  BY SourcesTell DEF Inv, Sound
<1>2. \A i \in DOMAIN log : log[i].version \in Nat
  BY <1>1, LinesTellVersions
<1>3. PICK m \in DOMAIN log : IsNewest(log, DOMAIN log, m)
  BY DEF Inv, Sound
<1>4. PICK i \in DOMAIN log : log[i].version = version
  BY DEF Reads
<1>5. \A j \in DOMAIN log : log[j].version <= version
  BY DEF Reads, NoLater
<1>6. PICK n \in Naming(log) : /\ IsNewest(log, Naming(log), n)
                               /\ log[n].features = work.source.features
  BY DEF Reads, NewestNames
<1>7. readOrigin(log) = [version |-> log[Newest(log, DOMAIN log)].version,
                         features |-> log[Newest(log, Naming(log))].features]
  BY DEF readOrigin, Naming
<1> HIDE DEF log, version
<1>8. Newest(log, DOMAIN log) = m /\ Newest(log, Naming(log)) = n
  BY <1>1, <1>3, <1>6, NewestIs DEF Naming
<1>9. log[m].version = version
  <2>1. log[m].version >= log[i].version
    BY <1>2, <1>3, <1>4 DEF IsNewest
  <2> QED
    BY <1>1, <1>2, <1>3, <1>4, <1>5, <2>1
<1> QED
  BY <1>6, <1>7, <1>8, <1>9 DEF ReadsAsRecorded, log, version

(* The changelog of a project just made. *)
LEMMA InitialLineReads ==
  ASSUME NEW project, NEW c \in Commits, NEW features \in Starts,
         project.source.commit = c, project.source.features = features,
         project.log = <<Initialized(VersionOf[c], features)>>
  PROVE  Reads(project)
<1> DEFINE log == project.log
           line == Initialized(VersionOf[c], features)
<1>1. DOMAIN log = {1} /\ log[1] = line /\ IsNewest(log, {1}, 1)
  BY InitialLine
<1>2. line.version = VersionOf[c] /\ line.named = TRUE /\ line.features = features
  BY DEF Initialized
<1>3. VersionOf[c] \in Nat
  BY TemplateAssumption
<1>4. Naming(log) = {1}
  BY <1>1, <1>2 DEF Naming
<1> HIDE DEF line
<1>5. NoLater(project)
  BY <1>1, <1>2, <1>3 DEF NoLater
<1>6. NewestNames(project)
  BY <1>1, <1>2, <1>3, <1>4 DEF NewestNames
<1> QED
  BY <1>1, <1>2, <1>5, <1>6 DEF Reads

(* The lines that name features once there is one more. *)
LEMMA NamingAfter ==
  ASSUME NEW log \in Seq(Lines), NEW line \in Lines, NEW at, NEW new, Inserted(log, at, line, new)
  PROVE  LET moved == { Place(at, i) : i \in Naming(log) }
         IN  Naming(new) = IF line.named THEN moved \cup {at} ELSE moved
  BY DEF Inserted, Naming

(* What a run finds in the changelog, whether it goes by it or by the      *)
(* record.                                                                 *)
LEMMA FoundLines ==
  ASSUME Inv, Reads(work), NEW r \in Requests, CanGenerate(r), work.heading = 0
  PROVE  /\ \A i \in DOMAIN work.log :
              \/ work.log[i].version <= r.to
              \/ \E s \in work.torn : work.log[i].version <= VersionOf[s.commit]
         /\ \E n \in Naming(work.log) :
              /\ IsNewest(work.log, Naming(work.log), n)
              /\ \/ work.log[n].features = origin.features /\ work.log[n].version <= r.to
                 \/ \E s \in work.torn :
                      /\ work.log[n].features = s.features
                      /\ work.log[n].version = VersionOf[s.commit]
<1> DEFINE log == work.log
<1>1. work.made = "project" /\ work.source \in Sources /\ log \in Seq(Lines)
  BY RunsLineIsALine DEF Inv, Sound
<1>2. /\ origin.version \in Nat /\ r.to \in Nat /\ origin.version <= r.to
      /\ ~ work.recorded => \A i \in DOMAIN log : log[i].version <= origin.version
  <2>1. origin.version \in Versions /\ r.to \in Versions /\ r.to >= origin.version
    BY OriginIsAVersion DEF CanGenerate, Requests
  <2>2. ~ work.recorded => \A i \in DOMAIN log : log[i].version <= origin.version
    BY OriginIsAVersion DEF CanGenerate
  <2> QED
    BY <2>1, <2>2, VersionsAreNumbers
<1>3. \A i \in DOMAIN log : log[i].version \in Nat
  BY <1>1, LinesTellVersions
<1>4. PICK n \in Naming(log) :
        /\ IsNewest(log, Naming(log), n)
        /\ \/ /\ log[n].features = work.source.features
              /\ log[n].version <= VersionOf[work.source.commit]
           \/ \E s \in work.torn :
                log[n].features = s.features /\ log[n].version = VersionOf[s.commit]
  BY <1>1 DEF Reads, NewestNames
<1>5. n \in DOMAIN log
  BY DEF Naming
<1>6. CASE work.recorded
  <2>1. origin.version = VersionOf[work.source.commit] /\ origin.features = work.source.features
    BY <1>6 DEF origin
  <2>2. \A i \in DOMAIN log : \E s \in {work.source} \cup work.torn : log[i].version <= VersionOf[s.commit]
    BY <1>1 DEF Reads, NoLater
  <2>3. ASSUME NEW i \in DOMAIN log, log[i].version <= origin.version PROVE log[i].version <= r.to
    BY <1>2, <1>3, <2>3
  <2>4. \A i \in DOMAIN log :
          log[i].version <= r.to \/ \E s \in work.torn : log[i].version <= VersionOf[s.commit]
    BY <2>1, <2>2, <2>3
  <2> QED
    BY <1>4, <1>5, <2>1, <2>3, <2>4
<1>7. CASE ~ work.recorded
  <2>1. \A i \in DOMAIN log : log[i].version <= r.to
    BY <1>2, <1>3, <1>7
  <2>2. origin.features = log[Newest(log, Naming(log))].features
    BY <1>7 DEF origin, readOrigin, Naming
  <2> HIDE DEF log
  <2>3. Newest(log, Naming(log)) = n
    BY <1>1, <1>4, NewestIs DEF Naming
  <2>4. log[n].features = origin.features /\ log[n].version <= r.to
    BY <1>5, <2>1, <2>2, <2>3
  <2> QED
    BY <1>4, <2>1, <2>4 DEF log
<1> QED
  BY <1>6, <1>7

(* The newest line that names the features, after a run. *)
LEMMA NewestNamesAfter ==
  ASSUME Inv, NEW r \in Requests, CanGenerate(r), Notes(r), work.heading = 0,
         NEW n, IsNewest(work.log, Naming(work.log), n)
  PROVE  \E m \in Naming(work'.log) :
           /\ IsNewest(work'.log, Naming(work'.log), m)
           /\ \/ changesSelection(r) /\ work'.log[m] = RunsLine(r)
              \/ /\ work'.log[m] = work.log[n]
                 /\ changesSelection(r) => work.log[n].version > r.to
<1> DEFINE log == work.log
           new == work'.log
           line == RunsLine(r)
           moved == { Place(1, i) : i \in Naming(log) }
<1>1. /\ log \in Seq(Lines) /\ line \in Lines /\ line.version = r.to
      /\ line.named = changesSelection(r) /\ Inserted(log, 1, line, new)
  BY RunsLineIsALine DEF Inv, Sound, Notes, LineGoes
<1>2. n \in Naming(log) /\ n \in DOMAIN log /\ Naming(log) \in SUBSET DOMAIN log
  BY DEF IsNewest, Naming
<1>3. Place(1, n) = n + 1 /\ n \in Nat /\ n >= 1
  <2>1. n \in Nat /\ n >= 1
    BY <1>1, <1>2
  <2> QED
    BY <2>1 DEF Place
<1> HIDE DEF log, new, line
<1>4. new[1] = line /\ new[Place(1, n)] = log[n] /\ log[n].version \in Nat /\ line.version \in Nat
  <2>1. new[1] = line /\ new[Place(1, n)] = log[n]
    BY <1>1, <1>2 DEF Inserted
  <2>2. new[1].version \in Nat
    BY <1>1, LinesTellVersions DEF Inserted
  <2> QED
    BY <1>1, <1>2, <2>1, <2>2, LinesTellVersions
<1>5. Naming(new) = IF line.named THEN moved \cup {1} ELSE moved
  BY <1>1, NamingAfter
<1>6. /\ IsNewest(new, moved, Place(1, n))
      /\ \/ IsNewest(new, moved \cup {1}, 1)
         \/ IsNewest(new, moved \cup {1}, Place(1, n))
  <2>1. IsNewest(log, Naming(log), n)
    BY DEF log
  <2> QED
    BY <1>1, <1>2, <2>1, NewestAfter
<1>7. Place(1, n) \in moved
  BY <1>2
<1> HIDE DEF moved
<1>8. CASE ~ changesSelection(r)
  <2>1. Naming(new) = moved
    BY <1>1, <1>5, <1>8
  <2> QED
    BY <1>4, <1>6, <1>7, <1>8, <2>1 DEF log, new, line
<1>9. CASE changesSelection(r) /\ IsNewest(new, moved \cup {1}, 1)
  <2>1. Naming(new) = moved \cup {1}
    BY <1>1, <1>5, <1>9
  <2> QED
    BY <1>4, <1>9, <2>1 DEF log, new, line
<1>10. CASE changesSelection(r) /\ IsNewest(new, moved \cup {1}, Place(1, n))
  <2>1. Naming(new) = moved \cup {1}
    BY <1>1, <1>5, <1>10
  <2>2. \/ new[Place(1, n)].version > new[1].version
        \/ new[Place(1, n)].version = new[1].version /\ Place(1, n) <= 1
    BY <1>10 DEF IsNewest
  <2>3. log[n].version > r.to
    BY <1>1, <1>3, <1>4, <2>2
  <2> QED
    BY <1>4, <1>7, <1>10, <2>1, <2>3 DEF log, new, line
<1> QED
  BY <1>6, <1>8, <1>9, <1>10

LEMMA RunKeepsReads ==
  ASSUME Inv, Reads(work), NEW r \in Requests, Apply(r) \/ Interrupt(r)
  PROVE  Reads(work')
<1> DEFINE target == Target(r)
<1> SUFFICES ASSUME work'.heading = 0 PROVE Reads(work')
  BY DEF Reads
<1>1. /\ CanGenerate(r) /\ work'.made = work.made
      /\ Whole(r) \/ NoRecord(r) \/ Partly(r)
  BY RunLeaves
<1>2. /\ work.made = "project" /\ work.source \in Sources /\ work.torn \in SUBSET Sources
      /\ work.log \in Seq(Lines) /\ work.log # <<>>
      /\ target \in Sources /\ VersionOf[target.commit] = r.to
      /\ target.features = newFeatures(r) /\ r.to \in Nat
      /\ RunsLine(r).version = r.to /\ RunsLine(r).named = changesSelection(r)
      /\ changesSelection(r) => RunsLine(r).features = newFeatures(r)
  BY <1>1, RunsLineIsALine, VersionsAreNumbers DEF Inv, Sound, Requests
<1>3. work.heading = 0
  <2>1. Len(work.log) # 0
    BY <1>2
  <2> QED
    BY <1>1, <2>1 DEF Whole, NoRecord, Partly, Notes
<1>4. /\ \E i \in DOMAIN work.log : work.log[i].version = VersionOf[work.source.commit]
      /\ NoLater(work) /\ NewestNames(work)
  BY <1>2, <1>3 DEF Reads
<1>5. /\ \A s \in {work.source, target} \cup work.torn : VersionOf[s.commit] \in Nat
      /\ \A i \in DOMAIN work.log : work.log[i].version \in Nat
  BY <1>2, SourcesTell, LinesTellVersions
<1> HIDE DEF target
<1>6. CASE Partly(r)
  <2>1. work'.log = work.log /\ work'.source = work.source /\ work.torn \subseteq work'.torn
    BY <1>6 DEF Partly, SameRecord
  <2>2. NoLater(work')
    BY <1>4, <2>1 DEF NoLater
  <2>3. NewestNames(work')
    BY <1>4, <2>1 DEF NewestNames
  <2> QED
    BY <1>4, <2>1, <2>2, <2>3 DEF Reads
<1>7. CASE Whole(r) \/ NoRecord(r)
  <2>1. Notes(r)
    BY <1>7 DEF Whole, NoRecord
  <2>2. /\ 1 \in DOMAIN work'.log /\ work'.log[1] = RunsLine(r)
        /\ \A i \in DOMAIN work.log : Place(1, i) \in DOMAIN work'.log /\ work'.log[Place(1, i)] = work.log[i]
        /\ \A j \in DOMAIN work'.log : j = 1 \/ \E i \in DOMAIN work.log : j = Place(1, i)
    BY <1>3, <2>1 DEF Notes, Inserted, LineGoes
  <2>3. CASE NoRecord(r)
    <3>1. work'.source = work.source /\ work'.torn = work.torn \cup {target}
      BY <2>3 DEF NoRecord, SameRecord, target
    <3>2. \E i \in DOMAIN work'.log : work'.log[i].version = VersionOf[work'.source.commit]
      BY <1>4, <2>2, <3>1
    <3>3. NoLater(work')
      BY <1>2, <1>4, <2>2, <3>1 DEF NoLater
    <3>4. PICK n \in Naming(work.log) :
            /\ IsNewest(work.log, Naming(work.log), n)
            /\ \/ /\ work.log[n].features = work.source.features
                  /\ work.log[n].version <= VersionOf[work.source.commit]
               \/ \E s \in work.torn :
                    /\ work.log[n].features = s.features
                    /\ work.log[n].version = VersionOf[s.commit]
      BY <1>4 DEF NewestNames
    <3>5. PICK m \in Naming(work'.log) :
            /\ IsNewest(work'.log, Naming(work'.log), m)
            /\ \/ changesSelection(r) /\ work'.log[m] = RunsLine(r)
               \/ work'.log[m] = work.log[n]
      BY <1>1, <1>3, <2>1, <3>4, NewestNamesAfter
    <3>6. NewestNames(work')
      BY <1>2, <3>1, <3>4, <3>5 DEF NewestNames
    <3> QED
      BY <3>2, <3>3, <3>6 DEF Reads
  <2>4. CASE Whole(r)
    <3>1. /\ work'.source = target
          /\ work'.torn = IF work.torn \subseteq {target} THEN {} ELSE work.torn
      BY <2>4 DEF Whole, target
    <3>2. \E i \in DOMAIN work'.log : work'.log[i].version = VersionOf[work'.source.commit]
      BY <1>2, <2>2, <3>1
    <3>3. \A s \in work.torn : s \in {work'.source} \cup work'.torn
      BY <3>1
    <3>4. NoLater(work')
      <4>1. \A i \in DOMAIN work.log :
              \E s \in {work'.source} \cup work'.torn : work.log[i].version <= VersionOf[s.commit]
        BY <1>1, <1>2, <1>3, <3>1, <3>3, FoundLines
      <4>2. RunsLine(r).version <= VersionOf[work'.source.commit]
        BY <1>2, <3>1
      <4> QED
        BY <2>2, <4>1, <4>2 DEF NoLater
    <3>5. PICK n \in Naming(work.log) :
            /\ IsNewest(work.log, Naming(work.log), n)
            /\ \/ work.log[n].features = origin.features /\ work.log[n].version <= r.to
               \/ \E s \in work.torn :
                    /\ work.log[n].features = s.features
                    /\ work.log[n].version = VersionOf[s.commit]
      BY <1>1, <1>3, FoundLines
    <3>6. PICK m \in Naming(work'.log) :
            /\ IsNewest(work'.log, Naming(work'.log), m)
            /\ \/ changesSelection(r) /\ work'.log[m] = RunsLine(r)
               \/ /\ work'.log[m] = work.log[n]
                  /\ changesSelection(r) => work.log[n].version > r.to
      BY <1>1, <1>3, <2>1, <3>5, NewestNamesAfter
    <3>7. n \in DOMAIN work.log /\ work.log[n].version \in Nat
      BY <1>5 DEF Naming
    <3>8. \/ /\ work'.log[m].features = work'.source.features
             /\ work'.log[m].version <= VersionOf[work'.source.commit]
          \/ \E s \in work'.torn :
               /\ work'.log[m].features = s.features
               /\ work'.log[m].version = VersionOf[s.commit]
      <4>1. CASE changesSelection(r) /\ work'.log[m] = RunsLine(r)
        BY <1>2, <3>1, <4>1
      <4>2. CASE /\ work'.log[m] = work.log[n] /\ (changesSelection(r) => work.log[n].version > r.to)
                 /\ work.log[n].features = origin.features /\ work.log[n].version <= r.to
        <5>1. ~ changesSelection(r)
          BY <1>2, <3>7, <4>2
        <5>2. newFeatures(r) = origin.features
          BY <5>1 DEF newFeatures
        <5> QED
          BY <1>2, <3>1, <4>2, <5>2
      <4>3. ASSUME work'.log[m] = work.log[n], NEW s \in work.torn,
                   work.log[n].features = s.features, work.log[n].version = VersionOf[s.commit]
            PROVE  \/ /\ work'.log[m].features = work'.source.features
                      /\ work'.log[m].version <= VersionOf[work'.source.commit]
                   \/ \E t \in work'.torn :
                        /\ work'.log[m].features = t.features
                        /\ work'.log[m].version = VersionOf[t.commit]
        BY <1>5, <3>1, <3>3, <4>3
      <4> QED
        BY <3>5, <3>6, <4>1, <4>2, <4>3
    <3>9. NewestNames(work')
      BY <3>6, <3>8 DEF NewestNames
    <3> QED
      BY <3>2, <3>4, <3>9 DEF Reads
  <2> QED
    BY <1>7, <2>3, <2>4
<1> QED
  BY <1>1, <1>6, <1>7

LEMMA NextKeepsReads ==
  ASSUME Inv, Reads(work), Reads(head), [Next]_vars
  PROVE  Reads(work') /\ Reads(head')
<1>1. CASE \/ RefuseToInitialize \/ Refuse \/ AlreadyCurrent \/ Commit \/ Revert \/ MoveTag
           \/ Build \/ UNCHANGED vars
  <2>1. {work', head'} \subseteq {work, head}
    BY <1>1 DEF RefuseToInitialize, Refuse, AlreadyCurrent, Commit, Revert, MoveTag, Stops,
                Build, Own, vars
  <2> QED
    BY <2>1
<1>2. ASSUME NEW features \in Starts, Initialize(features) PROVE Reads(work') /\ Reads(head')
  <2>1. work' = Made(features) /\ head' = head /\ work.made = "copy"
    BY <1>2 DEF Initialize, CanInitialize
  <2>2. /\ work'.source = [commit |-> Snapshot, features |-> features] /\ Snapshot \in Commits
        /\ work'.log = <<Initialized(VersionOf[Snapshot], features)>>
    BY <2>1, MadeIsSound
  <2>3. work'.source.commit = Snapshot /\ work'.source.features = features
    BY <2>2
  <2> QED
    BY <2>1, <2>2, <2>3, InitialLineReads
<1>3. ASSUME NEW features \in Starts, StopInitialize(features)
      PROVE  Reads(work') /\ Reads(head')
  <2>1. work'.made = "part" /\ head' = head
    BY <1>3 DEF StopInitialize, Inv, Sound, ProjectFields
  <2> QED
    BY <2>1 DEF Reads
<1>4. ASSUME NEW r \in Requests, Apply(r) \/ Interrupt(r) PROVE Reads(work') /\ Reads(head')
  BY <1>4, RunKeepsReads, RunLeaves
<1>5. CASE EditHunk \/ DeleteFile \/ AddFile \/ LoseHeading \/ Resolve
  <2>1. /\ head' = head /\ work'.source = work.source /\ work'.log = work.log
        /\ work'.heading = work.heading \/ work'.heading = -1
        /\ work'.torn = work.torn /\ work'.made = work.made
    BY <1>5, OwnWork
  <2> QED
    BY <2>1 DEF Reads, NoLater, NewestNames
<1> QED
  BY <1>1, <1>2, <1>3, <1>4, <1>5 DEF Next

(***************************************************************************)
(* The lines of the changelog name the version and the features of the     *)
(* record, while they are written above the others: ChangelogAgrees.  Its  *)
(* invariant also keeps what the lines of interrupted updates may name.    *)
(***************************************************************************)
THEOREM ChangelogReadsAsRecord == Spec => []ChangelogAgrees
<1>1. Init => Reads(work) /\ Reads(head)
  <2> SUFFICES ASSUME Init PROVE Reads(work)
    BY DEF Init
  <2>1. CASE work.made = "copy"
    BY <2>1 DEF Reads
  <2>2. ASSUME NEW features \in Starts,
               work = [files |-> generateSource(1, features), gone |-> {},
                       source |-> [commit |-> 1, features |-> features],
                       recorded |-> FALSE, log |-> <<Initialized(VersionOf[1], features)>>,
                       heading |-> 0, torn |-> {}, made |-> "project"]
        PROVE  Reads(work)
    <3>1. /\ work.source.commit = 1 /\ work.source.features = features /\ 1 \in Commits
          /\ work.log = <<Initialized(VersionOf[1], features)>>
      BY <2>2, TemplateAssumption
    <3> QED
      BY <3>1, InitialLineReads
  <2> QED
    BY <2>1, <2>2 DEF Init
<1>2. Inv /\ Reads(work) => ChangelogAgrees
  BY ReadsTheRecord DEF ChangelogAgrees
<1>3. Inv /\ (Reads(work) /\ Reads(head)) /\ [Next]_vars => (Reads(work) /\ Reads(head))'
  <2> SUFFICES ASSUME Inv, Reads(work), Reads(head), [Next]_vars
               PROVE  Reads(work)' /\ Reads(head)'
    OBVIOUS
  <2>1. (Reads(work)' <=> Reads(work')) /\ (Reads(head)' <=> Reads(head'))
    BY DEF Reads, NoLater, NewestNames, IsNewest, Naming
  <2> QED
    BY <2>1, NextKeepsReads
<1> QED
  BY <1>1, <1>2, <1>3, InvHolds, PTL DEF Spec

=============================================================================
