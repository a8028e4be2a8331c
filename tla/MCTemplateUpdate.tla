--------------------------- MODULE MCTemplateUpdate ---------------------------
(* TemplateUpdate with three commits of two versions, and two features. *)
EXTENDS TemplateUpdate

MCPaths == {"readme", "library", "shared"}
MCHunks == {"text", "marked"}
MCFeatures == {"lib", "web"}
MCCommits == 1..3
(* The third commit is where the tag of the second's version may be moved. *)
MCVersionOf == [c \in MCCommits |-> IF c = 1 THEN 1 ELSE 2]

File(text, marked) == [h \in MCHunks |-> IF h = "text" THEN text ELSE marked]
NoFile == File(-2, -2)

(* A release changes a file, adds another, or drops it, and deletes a third. *)
Text(dropped) ==
  [c \in MCCommits |->
    [readme |-> CASE c = 1 -> File(1, 1) [] c = 2 -> File(2, 1) [] c = 3 -> File(2, 3),
     library |-> IF (c = 1) # dropped THEN NoFile ELSE File(c, 2),
     shared |-> IF c = 2 THEN NoFile ELSE File(1, c)]]

Owns(library, shared) ==
  [p \in MCPaths |-> CASE p = "readme" -> {} [] p = "library" -> library [] p = "shared" -> shared]
Marks(ids) ==
  [h \in MCHunks |-> [ids |-> IF h = "marked" THEN ids ELSE {}, all |-> TRUE]]

(* What the first release has, and the others. *)
Both(first, later) == [c \in MCCommits |-> IF c = 1 THEN first ELSE later]

(* The library is gone, and what it shared is everyone's. *)
Dropped == [text |-> Text(TRUE), known |-> Both(MCFeatures, {"web"}),
            owners |-> Both(Owns({"lib"}, MCFeatures), Owns({}, {})),
            marks |-> Both(Marks(MCFeatures), Marks({"web"}))]

(* A path of the other feature comes to both, and lines of both to one. *)
Moved == [text |-> Text(FALSE), known |-> Both(MCFeatures, MCFeatures),
          owners |-> Both(Owns({"lib"}, {"web"}), Owns({"lib"}, MCFeatures)),
          marks |-> Both(Marks(MCFeatures), Marks({"lib"}))]

MCTemplates == {Dropped, Moved}

MCStarts == {{"lib"}}
(* The release itself, or a commit made after it. *)
MCCopies == {1, 3}

(* No action reads how the last run ended. *)
View == <<template, tag, head, work, ignored, updates, edits>>
=============================================================================
