----------------------------- MODULE TaskRules -----------------------------
(***************************************************************************)
(* The rules of a task that the three task services share: which titles    *)
(* are accepted, how a task is born, and which moves are legal.  Translated *)
(* from services/api-go/internal/entity/task.go; api-ts and api-py state   *)
(* the same rules in src/domain/task.ts and domain/task.py.                *)
(***************************************************************************)
EXTENDS Integers

Statuses == {"todo", "in_progress", "done"}

(***************************************************************************)
(* A title is told apart only by what NewTask does with it once trimmed:   *)
(* "blank" trims to nothing, "long" exceeds MaxTitleLength, "plain" is     *)
(* neither.                                                                *)
(***************************************************************************)
Titles == {"plain", "blank", "long"}

AcceptsTitle(title) == title \notin {"blank", "long"}

(***************************************************************************)
(* The moves of canTransition; anything absent is refused, staying put     *)
(* included.                                                               *)
(***************************************************************************)
Moves == { <<"todo", "in_progress">>,
           <<"in_progress", "todo">>,
           <<"in_progress", "done">> }

CanTransition(from, to) == <<from, to>> \in Moves

(* A fault the checks are shown to catch. *)
NewTaskUnlisted(id, title, now) ==
  [id |-> id, title |-> title, status |-> "new",
   createdAt |-> now, updatedAt |-> now]

NewTask(id, title, now) ==
  [id |-> id, title |-> title, status |-> "todo",
   createdAt |-> now, updatedAt |-> now]

Transition(task, next, now) ==
  [task EXCEPT !.status = next, !.updatedAt = now]

=============================================================================
