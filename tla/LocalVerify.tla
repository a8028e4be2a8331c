----------------------------- MODULE LocalVerify -----------------------------
(***************************************************************************)
(* A machine that verifies the project: scripts/tools.mjs puts the pinned  *)
(* tools into .tools/bin, scripts/setup.mjs installs dependencies, and     *)
(* scripts/verify.mjs runs the checks of the chassis and of the modules    *)
(* present, failing what it cannot run and naming what it skips.           *)
(*                                                                         *)
(* What is on the machine changes between the commands: copies of the      *)
(* tools at any version, pins that move, dependencies a new lockfile left  *)
(* behind, an install interrupted in the middle of a copy.  A step verify  *)
(* runs, it runs as CI does or otherwise; the model tells these apart and  *)
(* leaves the steps' own outcomes open.                                    *)
(*                                                                         *)
(* The names keep apart from ContractCheck's, the other check verify runs, *)
(* so that one module can extend both.                                     *)
(***************************************************************************)
EXTENDS Naturals, Sequences

CONSTANTS PresentSets,   \* the sets of modules a checkout may hold
          MaxChanges     \* bound: how often the machine changes

ASSUME MaxChangesAssumption == MaxChanges \in Nat

VARIABLES
  ci,        \* in GitHub Actions; never changes
  assets,    \* the tools pinned with an asset for this platform; never changes
  present,   \* the modules present; never changes
  sys,       \* sys[t]: the copy of t on PATH outside .tools/bin
  bin,       \* bin[t]: the copy of t in .tools/bin
  onPath,    \* the shell has .tools/bin first on PATH
  deps,      \* what is in the node modules' node_modules
  todo,      \* the tools the install under way still has to fetch
  copying,   \* the one whose files it is copying
  local,     \* it was asked for what this machine needs
  changes,   \* changes made to the machine
  advised    \* ghost: `install --local` ended well in a shell with .tools/bin
             \* first on PATH, and nothing changed since

machine == <<ci, assets, present>>
job == <<todo, copying, local>>
machineVars == <<machine, sys, bin, onPath, deps, job, changes, advised>>

Missing == "none"

(* tools.json, in its order. *)
Manifest == <<"actionlint", "shellcheck", "golangci-lint", "uv">>
Tools == { Manifest[i] : i \in DOMAIN Manifest }
Modules == {"go-service", "py-service", "mcp-server"}

ASSUME PresentSetsAssumption == PresentSets \subseteq SUBSET Modules

ToolchainOf(m) == CASE m = "go-service" -> "go"
                    [] m = "py-service" -> "python"
                    [] m = "mcp-server" -> "node"

(* e2ePartner: a client is run against one service, of its toolchain if    *)
(* there is one; jobNeeds: a module's CI job has the toolchains of both.   *)
ServicesPresent == present \cap {"go-service", "py-service"}
e2ePartner(id) ==
  LET own == { s \in ServicesPresent : ToolchainOf(s) = ToolchainOf(id) }
      services == IF own # {} THEN own ELSE ServicesPresent
  IN  { s \in services : s = "go-service" \/ "go-service" \notin services }
jobNeeds(id) ==
  { ToolchainOf(m) : m \in {id} \cup (IF id = "mcp-server" THEN e2ePartner(id) ELSE {}) }

(* tools.json: where a tool is needed, and what its check uses on PATH. *)
For(t) == CASE t = "golangci-lint" -> "go"
            [] t = "uv" -> "python"
            [] OTHER -> "chassis"
Uses(t) == IF t = "actionlint" THEN {"shellcheck"} ELSE {}

(* installedVersion: a copy cut short does not run.  verify and setup find *)
(* the tools with withToolsBin, also where the shell's own PATH lacks      *)
(* .tools/bin; in CI they are in a directory only the job's PATH names.    *)
Usable(copy) == IF copy = "part" THEN Missing ELSE copy
installedVersion(t, withBin) == IF withBin /\ bin[t] # Missing THEN Usable(bin[t]) ELSE sys[t]

withToolsBin == ~ci \/ onPath
Found(t) == installedVersion(t, withToolsBin)
FoundByShell(t) == installedVersion(t, onPath)

-----------------------------------------------------------------------------
(* tools.mjs install: --local, --for a CI job's toolchains, or by name, as *)
(* verify's note on a missing helper has it.  In CI it names its directory *)
(* to the steps that follow.                                               *)

NoInstall == todo = {}

toolsFor(toolchains) == { t \in Tools : For(t) \in toolchains }
localTools == toolsFor({"chassis"} \cup { ToolchainOf(m) : m \in present })
withHelpers(names) == names \cup UNION { Uses(t) : t \in names }

(* A fault: any copy on PATH will do. *)
localPlanAnyVersion(names) == { t \in names : FoundByShell(t) = Missing /\ t \in assets }

localPlan(names) == { t \in names : FoundByShell(t) # "pinned" /\ t \in assets }

Installs(names, isLocal) ==
  /\ NoInstall
  /\ todo' = names
  /\ local' = (isLocal /\ names # {})
  /\ advised' = (isLocal /\ names = {} /\ onPath)
  /\ onPath' = (onPath \/ (ci /\ names = {}))
  /\ UNCHANGED <<machine, sys, bin, deps, copying, changes>>

InstallLocal == Installs(localPlan(localTools), TRUE)
InstallFor ==
  ci /\ \E toolchains \in {{"chassis"}} \cup { jobNeeds(id) : id \in present } :
          Installs(toolsFor(toolchains), FALSE)
InstallNamed == \E t \in Tools : Uses(t) # {} /\ Installs(withHelpers({t}), FALSE)

(* A tool without an asset, an answer that stays wrong after its retries,  *)
(* bytes with another SHA-256, or a key press end the command there.       *)
InstallThrows ==
  /\ ~NoInstall
  /\ todo' = {} /\ copying' = Missing /\ local' = FALSE
  /\ UNCHANGED <<machine, sys, bin, onPath, deps, changes, advised>>

InTurn(t, names) ==
  \E i \in DOMAIN Manifest :
    t = Manifest[i] /\ t \in names /\ \A j \in 1..(i - 1) : Manifest[j] \notin names

(* The asset is the pinned one: its files are copied over what is there. *)
CopyBegins(t) ==
  /\ copying = Missing /\ ~NoInstall
  /\ InTurn(t, todo) /\ t \in assets
  /\ copying' = t
  /\ bin' = [bin EXCEPT ![t] = "part"]
  /\ UNCHANGED <<machine, sys, onPath, deps, todo, local, changes, advised>>

(* uv has a second file, uvx, that nothing asks for its version: from here *)
(* on uv is the pinned one, and an install that stops now leaves uvx as it *)
(* was, or cut short.  No step of verify runs uvx.                         *)
FirstFileEnds ==
  /\ copying = "uv" /\ bin["uv"] = "part"
  /\ bin' = [bin EXCEPT !["uv"] = "pinned"]
  /\ UNCHANGED <<machine, sys, onPath, deps, job, changes, advised>>

CopyEnds ==
  /\ copying # Missing
  /\ copying = "uv" => bin["uv"] = "pinned"
  /\ bin' = [bin EXCEPT ![copying] = "pinned"]
  /\ todo' = todo \ {copying}
  /\ copying' = Missing
  /\ onPath' = (onPath \/ (ci /\ todo' = {}))
  /\ local' = (local /\ todo' # {})
  /\ advised' = (local /\ todo' = {} /\ onPath)
  /\ UNCHANGED <<machine, sys, deps, changes>>

-----------------------------------------------------------------------------
(* setup.mjs: npm ci installs what the lockfile pins, after it has removed *)
(* what was there; another Node, no npm or a lockfile that does not match  *)
(* its manifest stop it before.  (go and uv fetch what they lack by        *)
(* themselves.)                                                            *)

Setup ==
  /\ NoInstall /\ "mcp-server" \in present
  /\ deps' \in {"installed", Missing, deps}
  /\ UNCHANGED <<machine, sys, bin, onPath, job, changes, advised>>

-----------------------------------------------------------------------------
(* The machine changes: a pin is bumped, a package manager brings another  *)
(* copy, a pull brings another lockfile, a shell is configured.            *)

Changes ==
  /\ NoInstall /\ ~ci
  /\ changes < MaxChanges
  /\ changes' = changes + 1
  /\ advised' = FALSE
  /\ UNCHANGED <<machine, job>>

(* bump: the copies that were the pinned one no longer are. *)
Bump(t) ==
  /\ Changes
  /\ sys' = [sys EXCEPT ![t] = IF @ = "pinned" THEN "other" ELSE @]
  /\ bin' = [bin EXCEPT ![t] = IF @ = "pinned" THEN "other" ELSE @]
  /\ UNCHANGED <<onPath, deps>>

SystemCopy(t) ==
  /\ Changes
  /\ \E copy \in {Missing, "pinned", "other"} : sys' = [sys EXCEPT ![t] = copy]
  /\ UNCHANGED <<bin, onPath, deps>>

ConfigureShell ==
  /\ Changes
  /\ onPath' = ~onPath
  /\ UNCHANGED <<sys, bin, deps>>

-----------------------------------------------------------------------------
(* verify.mjs changes nothing on the machine: it is what it records, as an *)
(* operator of the state, of the scope asked for ("chassis" and modules)   *)
(* and of what else the machine has: its Node, a C compiler, the commands  *)
(* of the toolchains.  A step that runs is recorded "ran": its own outcome *)
(* stays open.                                                             *)

Machines == [node : {"pinned", "other"}, cgo : BOOLEAN, commands : {{}, {"go", "node"}}]

Entry(step, became) == [step |-> step, became |-> became]

(* A fault: a skip is a skip, in CI too. *)
skipsEverywhere == "skipped"
skipOutcome == IF ci THEN "fail" ELSE "skipped"

(* versionProblem, installedVersion: whether a tool may run. *)
ToolStep(step, t, missing) ==
  Entry(step, CASE Found(t) = Missing -> missing
                [] Found(t) = "other" -> "fail"
                [] OTHER -> "ran")

MissingHere(t) == IF t \in assets THEN skipOutcome ELSE "skipped"

(* A fault: what a check uses is left to it. *)
planWithoutHelpers(t) == { ToolStep(t, t, MissingHere(t)) }

(* chassisToolPlan, helperProblems: the tool, then the commands its check  *)
(* uses, under its name; one of those at another version keeps it from     *)
(* running.                                                                *)
chassisToolPlan(t) ==
  IF Found(t) # "pinned" THEN { ToolStep(t, t, MissingHere(t)) }
  ELSE { Entry(t, "ran") : u \in { x \in {t} : \A h \in Uses(t) : Found(h) # "other" } }
       \cup { ToolStep(t, h, skipOutcome) : h \in { x \in Uses(t) : Found(x) # "pinned" } }

checkNodeVersion(m) == Entry("node version", IF m.node = "pinned" THEN "ran" ELSE "fail")

chassis(m) ==
  { checkNodeVersion(m),
    Entry("hygiene", "ran"), Entry("docs", "ran"), Entry("tests", "ran") }
  \cup chassisToolPlan("actionlint")

(* check: the steps of a module's manifest, its contract, facts and e2e. *)
Checks(id, m) ==
  CASE id = "go-service" -> { Entry("go", "ran"), ToolStep("golangci-lint", "golangci-lint", skipOutcome),
                              Entry("race", IF m.cgo THEN "ran" ELSE skipOutcome) }
    [] id = "py-service" -> { Entry("py", "ran") }
    [] id = "mcp-server" -> { Entry("mcp", "ran"), Entry("e2e", IF e2ePartner(id) = {} THEN "skipped" ELSE "ran") }

(* verifyModule: its toolchain's command and its dependencies first. *)
verifyModule(id, m) ==
  IF \/ IF id = "py-service" THEN Found("uv") = Missing ELSE ToolchainOf(id) \notin m.commands
     \/ ToolchainOf(id) = "node" /\ deps = Missing
  THEN { Entry(id, "fail") }
  ELSE Checks(id, m)

verify(scope, m) ==
  (IF "chassis" \in scope THEN chassis(m) ELSE {})
  \cup UNION { verifyModule(id, m) : id \in scope \cap present }

Scopes == { scope \in SUBSET (present \cup {"chassis"}) : scope # {} }

Green(results) == \A r \in results : r.became # "fail"
Skipped(results) == { r.step : r \in { x \in results : x.became = "skipped" } }

-----------------------------------------------------------------------------

MachineInit ==
  /\ ci \in BOOLEAN
  /\ assets \in {{}, Tools}
  /\ present \in PresentSets
  /\ sys \in { [t \in Tools |-> copy] : copy \in {Missing, "pinned", "other"} }
  /\ bin \in { [t \in Tools |-> copy] : copy \in IF ci THEN {Missing} ELSE {Missing, "other"} }
  /\ onPath \in IF ci THEN {FALSE} ELSE BOOLEAN
  /\ deps = Missing
  /\ todo = {} /\ copying = Missing /\ local = FALSE
  /\ changes = 0
  /\ advised = FALSE

MachineNext ==
  \/ InstallLocal \/ InstallFor \/ InstallNamed
  \/ InstallThrows \/ FirstFileEnds \/ CopyEnds
  \/ \E t \in Tools : CopyBegins(t) \/ Bump(t) \/ SystemCopy(t)
  \/ Setup
  \/ ConfigureShell

MachineSpec == MachineInit /\ [][MachineNext]_machineVars

-----------------------------------------------------------------------------
(***************************************************************************)
(* Type invariant: a copy that is being made does not run, except for uv's *)
(* second file.                                                            *)
(***************************************************************************)
MachineTypeOK ==
  /\ ci \in BOOLEAN /\ onPath \in BOOLEAN /\ local \in BOOLEAN /\ advised \in BOOLEAN
  /\ assets \in SUBSET Tools /\ present \in SUBSET Modules
  /\ sys \in [Tools -> {Missing, "pinned", "other"}]
  /\ bin \in [Tools -> {Missing, "part", "pinned", "other"}]
  /\ deps \in {Missing, "installed"}
  /\ todo \in SUBSET Tools
  /\ copying \in {Missing} \cup todo
  /\ copying \notin {Missing, "uv"} => bin[copying] = "part"
  /\ changes \in 0..MaxChanges

(* What a step needs to be run as CI runs it. *)
AsInCI(step, m) ==
  CASE step = "actionlint" -> Found("actionlint") = "pinned" /\ Found("shellcheck") = "pinned"
    [] step = "golangci-lint" -> Found("golangci-lint") = "pinned"
    [] step = "race" -> m.cgo
    [] step \in {"hygiene", "docs", "tests"} -> m.node = "pinned"
    [] OTHER -> TRUE

StepsInCI(scope) ==
  UNION { CASE s = "chassis" -> {"hygiene", "docs", "tests", "actionlint"}
            [] s = "go-service" -> {"go", "race", "golangci-lint"}
            [] s = "py-service" -> {"py"}
            [] s = "mcp-server" -> {"mcp", "e2e"} : s \in scope }

(***************************************************************************)
(* A green verify stands for CI's: every step CI runs over the same scope  *)
(* either ran here as it does there or is named as skipped, whatever       *)
(* copies of the tools lie where (verify.mjs, "a check that quietly does   *)
(* not run reads exactly like one that passed").  What verify does not     *)
(* look at is left out: uv's version, node_modules' age, and Node's        *)
(* version where the chassis is not asked for.                             *)
(***************************************************************************)
GreenStandsForCI ==
  \A scope \in Scopes, m \in Machines :
    LET results == verify(scope, m)
    IN  Green(results) =>
          \A step \in StepsInCI(scope) \ Skipped(results) :
            (\E r \in results : r.step = step /\ r.became = "ran") /\ AsInCI(step, m)

(***************************************************************************)
(* In GitHub Actions a green job skipped nothing: only an end-to-end run   *)
(* without a service to run against, and a tool this platform has no asset *)
(* of, may go unchecked there (skipOutcome in modules.mjs).                *)
(***************************************************************************)
CISkipsNothing ==
  ci => \A scope \in Scopes, m \in Machines :
          Green(verify(scope, m)) =>
            Skipped(verify(scope, m)) \subseteq
              (IF ServicesPresent = {} THEN {"e2e"} ELSE {}) \cup (Tools \ assets)

(***************************************************************************)
(* What verify advises works: once `install --local` has ended well in a   *)
(* shell with .tools/bin first on PATH, no tool pinned for this platform   *)
(* fails or skips a step, whatever older or half-copied ones lay there     *)
(* (versionProblem in tools.mjs: "Run ... and put .tools/bin first").  It   *)
(* is not so of uvx, which CI alone runs: an install that stopped between  *)
(* uv's two files leaves it as it was, and the advice passes it over.      *)
(***************************************************************************)
AdviceWorks ==
  advised =>
    \A scope \in Scopes, m \in Machines :
      \A r \in verify(scope, m) :
        r.step \in {"actionlint", "golangci-lint", "py-service"} =>
          r.became = "ran" \/ assets = {}

=============================================================================
