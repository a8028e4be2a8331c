--------------------------- MODULE ConfigureGithub ---------------------------
(***************************************************************************)
(* scripts/configure-github.mjs: a plan of settings of one repository,     *)
(* applied one request after another, which goes on with the next setting  *)
(* when one fails, and which is run again after it.                        *)
(*                                                                         *)
(* GitHub carries a request out or refuses it, and an answer can be lost   *)
(* either way.  Between and during runs administrators change settings of  *)
(* their own accord.  Lists come a page at a time; the script reads the    *)
(* first.                                                                  *)
(***************************************************************************)
EXTENDS Naturals, SequencesExt

CONSTANTS PageSize,    \* PageSize[k]: how many rulesets or variables a page lists
          MaxTrouble   \* bound: lost requests and changes by others

ASSUME PageSizeAssumption == PageSize \in [{"rulesets", "variables"} -> Nat]
ASSUME MaxTroubleAssumption == MaxTrouble \in Nat

VARIABLES
  release,    \* release.yml is there and init has run; never changes
  supported,  \* the optional settings the plan and visibility allow; never changes
  inPlace,    \* the plain settings that are as wanted
  entry,      \* entry[n]: the ruleset or variable n: "absent", "other", "ours"
  others,     \* others[k]: how many more rulesets or variables there are
  custom,     \* the environment admits what its policies say, and not anything
  policies,   \* its policies, each a name and a type
  todo,       \* the settings the run under way has not done with
  stage,      \* what it does next to the first of them
  listed,     \* what it read there
  done,       \* the settings it said it applied
  failed,     \* the required settings it said failed
  lost,       \* ghost: the settings a lost request or an end of the script kept
              \* it from
  touched,    \* ghost: the settings others changed since the run began
  trouble     \* lost requests, ends of the script, changes by others

machine == <<release, supported>>
env == <<custom, policies>>
github == <<inPlace, entry, others, env>>
said == <<done, failed>>
ghosts == <<lost, touched, trouble>>
vars == <<machine, github, todo, stage, listed, said, ghosts>>

Plain == {"squash merging", "Dependabot alerts", "security updates",
          "private reporting", "secret scanning", "Actions open pull requests"}
Rulesets == {"default-branch", "release-tags"}
Entries == Rulesets \cup {"RELEASE_ENABLED"}
Optional == {"private reporting", "secret scanning", "environment"}

plan ==
  <<"squash merging", "default-branch", "release-tags", "Dependabot alerts",
    "security updates", "private reporting", "secret scanning">>
  \o IF release THEN <<"Actions open pull requests", "RELEASE_ENABLED", "environment">>
                ELSE <<>>
Settings == ToSet(plan)

Default == <<"main", "branch">>
Policies == {Default, <<"main", "tag">>, <<"topic", "branch">>}

Kind(name) == IF name \in Rulesets THEN "rulesets" ELSE "variables"
OfKind(kind) == { n \in Entries : Kind(n) = kind }

(* Every ruleset or variable there is comes on the first page. *)
Fits(kind) ==
  others[kind] + Cardinality({ n \in OfKind(kind) : entry[n] # "absent" }) <= PageSize[kind]

-----------------------------------------------------------------------------
(* apply: what a setting's next request does, if GitHub carries it out.    *)

Name == Head(todo)
Idle == todo = <<>>

(* A fault: a tag's policy of the branch's name is taken for the branch's. *)
WantedByName(policy) == policy[1] = Default[1]

Wanted(policy) == policy = Default
Unwanted == { p \in listed : ~ Wanted(p) }
NextUnwanted == CHOOSE p \in Unwanted : TRUE

(* Refused: what the plan does not allow, a PUT or DELETE of what is gone, *)
(* and a POST of a name that is taken.                                     *)
Accepted ==
  /\ Name \in Optional => Name \in supported
  /\ stage = "write" => (listed = {}) = (entry[Name] = "absent")
  /\ stage = "trim" /\ Unwanted # {} => NextUnwanted \in policies

SetPlain == inPlace' = inPlace \cup {Name} /\ UNCHANGED <<entry, others, env>>

WriteEntry == entry' = [entry EXCEPT ![Name] = "ours"] /\ UNCHANGED <<inPlace, others, env>>

(* A fault: the environment is made as GitHub makes one by default. *)
PutBareEnvironment(admits) == custom' = FALSE /\ policies' = admits

PutEnvironment(admits) == custom' = TRUE /\ policies' = admits

(* The branch's policy alone was listed: nothing more is sent. *)
NothingToSend == stage = "trim" /\ listed = {Default}

TrimEnvironment ==
  policies' = IF NothingToSend THEN policies
              ELSE IF Unwanted = {} THEN policies \cup {Default}
              ELSE policies \ {NextUnwanted}

Effect ==
  \/ Name \in Plain /\ SetPlain
  \/ stage = "write" /\ WriteEntry
  \/ Name = "environment" /\ stage = "first" /\ PutEnvironment(policies)
       /\ UNCHANGED <<inPlace, entry, others>>
  \/ stage = "trim" /\ TrimEnvironment /\ UNCHANGED <<inPlace, entry, others, custom>>
  \/ (stage = "list" \/ (Name \in Entries /\ stage = "first")) /\ UNCHANGED github

-----------------------------------------------------------------------------
(* main: the settings of the plan one after another.                       *)

Begin ==
  /\ Idle
  /\ todo' = plan /\ stage' = "first" /\ listed' = {}
  /\ done' = {} /\ failed' = {} /\ lost' = {} /\ touched' = {}
  /\ UNCHANGED <<machine, github, trouble>>

NextSetting == todo' = Tail(todo) /\ stage' = "first" /\ listed' = {}

Said == NextSetting /\ done' = done \cup {Name} /\ UNCHANGED failed

Fails ==
  /\ NextSetting
  /\ failed' = IF Name \in Optional THEN failed ELSE failed \cup {Name}
  /\ UNCHANGED done

(* A fault: what is there is not looked for. *)
FindNothing == listed' = {}

(* Beyond the first page it may or may not be among those read. *)
Find ==
  \/ entry[Name] # "absent" /\ listed' = {Name}
  \/ entry[Name] = "absent" /\ listed' = {}
  \/ ~ Fits(Kind(Name)) /\ listed' = {}

GoesTo(next) == stage' = next /\ UNCHANGED <<todo, said>>

(* What the script does with an answer. *)
Proceed ==
  \/ Name \in Entries /\ stage = "first" /\ Find /\ GoesTo("write")
  \/ Name = "environment" /\ stage = "first" /\ GoesTo("list") /\ UNCHANGED listed
  \/ stage = "list" /\ listed' = policies /\ GoesTo("trim")
  \/ /\ stage = "trim" /\ Unwanted # {}
     /\ listed' = listed \ {NextUnwanted} /\ GoesTo("trim")
  \/ stage = "trim" /\ Unwanted = {} /\ Said
  \/ (Name \in Plain \/ stage = "write") /\ Said

Answered == ~ Idle /\ Accepted /\ Effect /\ Proceed /\ UNCHANGED <<machine, ghosts>>
Refused == ~ Idle /\ ~ Accepted /\ Fails /\ UNCHANGED <<machine, github, ghosts>>

CanGoWrong == trouble < MaxTrouble /\ trouble' = trouble + 1

(* The request or its answer is lost. *)
Lost ==
  /\ ~ Idle /\ ~ NothingToSend /\ CanGoWrong
  /\ (Accepted /\ Effect) \/ UNCHANGED github
  /\ Fails
  /\ lost' = lost \cup {Name}
  /\ UNCHANGED <<machine, touched>>

(* The script ends in the middle. *)
Interrupt ==
  /\ ~ Idle /\ CanGoWrong
  /\ todo' = <<>> /\ stage' = "first" /\ listed' = {}
  /\ lost' = lost \cup ToSet(todo)
  /\ UNCHANGED <<machine, github, said, touched>>

(* Administrators change a setting of the plan, or add others. *)
Touch(names) == touched' = touched \cup names /\ UNCHANGED <<machine, todo, stage, listed, said, lost>>

ResetPlain ==
  /\ CanGoWrong
  /\ \E s \in inPlace : inPlace' = inPlace \ {s} /\ Touch({s})
  /\ UNCHANGED <<entry, others, env>>

ChangeEntry ==
  /\ CanGoWrong
  /\ \E n \in Entries, value \in {"absent", "other"} :
       entry' = [entry EXCEPT ![n] = value] /\ Touch(OfKind(Kind(n)))
  /\ UNCHANGED <<inPlace, others, env>>

AddOther ==
  /\ CanGoWrong
  /\ \E k \in DOMAIN others : others' = [others EXCEPT ![k] = @ + 1]
  /\ Touch({})
  /\ UNCHANGED <<inPlace, entry, env>>

ChangeEnvironment ==
  /\ CanGoWrong
  /\ custom' \in BOOLEAN
  /\ policies' \in IF custom' THEN SUBSET Policies ELSE {{}}
  /\ Touch({"environment"})
  /\ UNCHANGED <<inPlace, entry, others>>

-----------------------------------------------------------------------------

Init ==
  /\ release \in BOOLEAN
  /\ supported \in {{}, Optional}
  /\ inPlace = {}
  /\ \E value \in {"absent", "other"} : entry = [n \in Entries |-> value]
  /\ \E n \in 0 .. 1 : others = [k \in {"rulesets", "variables"} |-> n]
  /\ custom \in BOOLEAN
  /\ policies \in IF custom THEN SUBSET Policies ELSE {{}}
  /\ todo = <<>> /\ stage = "first" /\ listed = {}
  /\ done = {} /\ failed = {} /\ lost = Settings /\ touched = {} /\ trouble = 0

Script == Begin \/ Answered \/ Refused \/ Lost \/ Interrupt
Next == Script \/ ResetPlain \/ ChangeEntry \/ AddOther \/ ChangeEnvironment

Spec == Init /\ [][Next]_vars

-----------------------------------------------------------------------------
(* Properties *)

InPlace(s) ==
  \/ s \in inPlace
  \/ s \in Entries /\ entry[s] = "ours"
  \/ s = "environment" /\ custom /\ policies = {Default}

(***************************************************************************)
(* A tick means that the setting is in place, whatever was there before:   *)
(* another ruleset of the name, policies left of an earlier run, a tag's   *)
(* policy.  And a run that ends with OK has every required one in place.   *)
(***************************************************************************)
SaysWhatItDid ==
  /\ \A s \in done \ touched : InPlace(s)
  /\ Idle /\ failed = {} =>
       \A s \in Settings \ (Optional \cup touched) : s \in lost \/ InPlace(s)

(***************************************************************************)
(* "Safe to run again": wherever earlier runs stopped, a run applies every *)
(* setting GitHub allows, but for those a lost request or another's change *)
(* kept it from.  The list the setting is in fits a page.                  *)
(***************************************************************************)
SafeToRunAgain ==
  Idle => \A s \in Settings \ (lost \cup touched) :
            \/ s \in Optional \ supported
            \/ s \in Entries /\ ~ Fits(Kind(s))
            \/ s \in done /\ InPlace(s)

(***************************************************************************)
(* At no moment of a run, also one that stops in the middle, does the      *)
(* environment of a publishing job admit a branch or tag that it did not   *)
(* admit before, but for the default branch.                               *)
(***************************************************************************)
Admitted == IF custom THEN policies ELSE Policies

NeverWider == [][Script => Admitted' \subseteq Admitted \cup {Default}]_vars

=============================================================================
