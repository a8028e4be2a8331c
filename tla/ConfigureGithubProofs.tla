------------------------ MODULE ConfigureGithubProofs ------------------------
(***************************************************************************)
(* Proofs about ConfigureGithub, for pages of any length and any number of *)
(* lost requests, ends of the script and changes by administrators.        *)
(***************************************************************************)
EXTENDS ConfigureGithub, FiniteSetTheorems, SequenceTheorems, TLAPS

Names == Plain \cup Entries \cup {"environment"}
Kinds == {"rulesets", "variables"}

Shapes ==
  /\ todo \in Seq(Names)
  /\ stage \in {"first", "write", "list", "trim"}
  /\ entry \in [Entries -> {"absent", "other", "ours"}]
  /\ others \in [Kinds -> Nat]
  /\ policies \subseteq Policies

(* Where the script is within a setting. *)
Places ==
  /\ stage = "write" => ~ Idle /\ Name \in Entries
  /\ stage \in {"list", "trim"} => ~ Idle /\ Name = "environment"

(* What it found still holds, unless others changed the setting.  A list   *)
(* longer than a page stays so.                                            *)
FoundHolds ==
  stage = "write" /\ Name \notin touched =>
    \/ listed = {} <=> entry[Name] = "absent"
    \/ ~ Fits(Kind(Name))

(* The policies still to be judged are all there is but the wanted one. *)
ListedHolds ==
  "environment" \notin touched =>
    /\ stage \in {"list", "trim"} => custom
    /\ stage = "trim" => listed \subseteq policies /\ policies \subseteq listed \cup {Default}

Ticks == \A s \in done \ touched : InPlace(s)

(* Each setting is still to come, or has an outcome. *)
Counted ==
  \A s \in Settings \ Optional : s \in ToSet(todo) \cup done \cup failed \cup lost

Accounted ==
  \A s \in Settings \ (lost \cup touched) :
    \/ s \in ToSet(todo) \cup done
    \/ s \in Optional \ supported
    \/ s \in Entries /\ ~ Fits(Kind(s))

Inv == Shapes /\ Places /\ FoundHolds /\ ListedHolds /\ Ticks /\ Counted /\ Accounted

-----------------------------------------------------------------------------
(* The plan names settings only. *)
LEMMA PlanShape == plan \in Seq(Names)
<1> DEFINE always == <<"squash merging", "default-branch", "release-tags", "Dependabot alerts",
                       "security updates", "private reporting", "secret scanning">>
           ofRelease == <<"Actions open pull requests", "RELEASE_ENABLED", "environment">>
<1>1. always \in Seq(Names) /\ ofRelease \in Seq(Names) /\ <<>> \in Seq(Names)
  BY DEF Names, Plain, Entries, Rulesets
<1>2. plan = always \o (IF release THEN ofRelease ELSE <<>>)
  BY DEF plan
<1> HIDE DEF always, ofRelease
<1>3. QED
  BY <1>1, <1>2, ConcatProperties

(* What is left of the settings after one more. *)
LEMMA OneLess ==
  ASSUME Shapes, ~ Idle
  PROVE  /\ Name \in Names
         /\ Tail(todo) \in Seq(Names)
         /\ ToSet(todo) = {Name} \cup ToSet(Tail(todo))
<1>1. todo \in Seq(Names) /\ todo # <<>>
  BY DEF Shapes, Idle
<1>2. /\ Len(todo) \in Nat \ {0} /\ DOMAIN todo = 1 .. Len(todo)
      /\ Tail(todo) \in Seq(Names) /\ DOMAIN Tail(todo) = 1 .. Len(todo) - 1
      /\ \A i \in 1 .. Len(todo) - 1 : Tail(todo)[i] = todo[i + 1]
      /\ Name = todo[1] /\ todo[1] \in Names
  BY <1>1 DEF Name
<1>3. ASSUME NEW s PROVE s \in ToSet(todo) <=> s \in {Name} \cup ToSet(Tail(todo))
  <2>1. s \in ToSet(todo) <=> \E i \in 1 .. Len(todo) : todo[i] = s
    BY <1>2 DEF ToSet
  <2>2. s \in ToSet(Tail(todo)) <=> \E i \in 1 .. Len(todo) - 1 : todo[i + 1] = s
    BY <1>2 DEF ToSet
  <2>3. ASSUME NEW i \in 1 .. Len(todo), i # 1 PROVE i - 1 \in 1 .. Len(todo) - 1 /\ (i - 1) + 1 = i
    BY <1>2, <2>3
  <2> QED
    BY <1>2, <2>1, <2>2, <2>3
<1> QED
  BY <1>2, <1>3

(* A list that is longer than a page stays so while its entries are kept. *)
LEMMA LongStaysLong ==
  ASSUME Shapes, Shapes', NEW k \in Kinds, ~ Fits(k),
         others'[k] >= others[k],
         \A n \in OfKind(k) : entry[n] # "absent" => entry'[n] # "absent"
  PROVE  ~ Fits(k)'
<1> DEFINE now == { n \in OfKind(k) : entry[n] # "absent" }
           then == { n \in OfKind(k) : entry'[n] # "absent" }
<1>1. IsFiniteSet(Entries)
  <2>1. Entries = {"default-branch", "release-tags", "RELEASE_ENABLED"}
    BY DEF Entries, Rulesets
  <2>2. IsFiniteSet({"default-branch"} \cup {"release-tags"})
    BY FS_Singleton, FS_AddElement
  <2>3. IsFiniteSet(({"default-branch"} \cup {"release-tags"}) \cup {"RELEASE_ENABLED"})
    BY <2>2, FS_AddElement
  <2> QED
    BY <2>1, <2>3
<1>2. IsFiniteSet(then)
  BY <1>1, FS_Subset DEF OfKind
<1>3. now \subseteq then
  OBVIOUS
<1>4. Cardinality(now) \in Nat /\ Cardinality(then) \in Nat /\ Cardinality(now) <= Cardinality(then)
  BY <1>2, <1>3, FS_Subset, FS_CardinalityType
<1>5. ~ (others[k] + Cardinality(now) <= PageSize[k])
  BY DEF Fits
<1>6. others[k] \in Nat /\ others'[k] \in Nat /\ PageSize[k] \in Nat
  BY PageSizeAssumption DEF Shapes, Kinds
<1>7. ~ (others'[k] + Cardinality(then) <= PageSize[k])
  <2> HIDE DEF now, then
  <2> QED
    BY <1>4, <1>5, <1>6
<1> QED
  BY <1>7 DEF Fits, OfKind, Kind

-----------------------------------------------------------------------------
LEMMA InitInv == Init => Inv
<1> SUFFICES ASSUME Init PROVE Inv
  OBVIOUS
<1>1. Shapes
  BY DEF Init, Shapes, Kinds
<1>2. Places /\ FoundHolds /\ ListedHolds /\ Ticks
  BY DEF Init, Places, FoundHolds, ListedHolds, Ticks
<1>3. Counted /\ Accounted
  BY DEF Init, Counted, Accounted
<1> QED
  BY <1>1, <1>2, <1>3 DEF Inv

(* The run begins: everything is still to come. *)
LEMMA BeginKeepsInv == Inv /\ Begin => Inv'
<1> SUFFICES ASSUME Inv, Begin PROVE Inv'
  OBVIOUS
<1>1. Shapes'
  BY PlanShape DEF Inv, Begin, Shapes, github, env, machine, plan
<1>2. Places' /\ FoundHolds' /\ ListedHolds' /\ Ticks'
  BY DEF Begin, Places, FoundHolds, ListedHolds, Ticks
<1>3. Settings' = Settings /\ ToSet(todo)' = Settings
  BY DEF Begin, Settings, plan, machine
<1>4. Counted' /\ Accounted'
  BY <1>3 DEF Counted, Accounted
<1> QED
  BY <1>1, <1>2, <1>3, <1>4 DEF Inv

-----------------------------------------------------------------------------
(* What a request does at GitHub disturbs no setting that is in place.     *)
LEMMA EffectKeeps ==
  ASSUME Inv, ~ Idle, Accepted, Effect
  PROVE  /\ entry' \in [Entries -> {"absent", "other", "ours"}]
         /\ others' = others /\ policies' \subseteq Policies
         /\ \A n \in Entries : entry[n] # "absent" => entry'[n] # "absent"
         /\ \A s : InPlace(s) => InPlace(s)'
         /\ custom => custom'
<1> USE DEF Inv
<1>1. CASE Name \in Plain /\ SetPlain
  BY <1>1 DEF SetPlain, env, Shapes, InPlace
<1>2. CASE stage = "write" /\ WriteEntry
  BY <1>2 DEF WriteEntry, env, Shapes, InPlace, Places
<1>3. CASE Name = "environment" /\ stage = "first" /\ PutEnvironment(policies)
           /\ UNCHANGED <<inPlace, entry, others>>
  BY <1>3 DEF PutEnvironment, Shapes, InPlace
<1>4. CASE stage = "trim" /\ TrimEnvironment /\ UNCHANGED <<inPlace, entry, others, custom>>
  <2>1. CASE Unwanted = {}
    BY <1>4, <2>1 DEF TrimEnvironment, Shapes, InPlace, Policies
  <2>2. CASE Unwanted # {}
    <3>1. NextUnwanted \in Unwanted
      BY <2>2 DEF NextUnwanted
    <3>2. NextUnwanted # Default /\ policies' = policies \ {NextUnwanted}
      BY <1>4, <2>2, <3>1 DEF TrimEnvironment, NothingToSend, Unwanted, Wanted
    <3>3. policies = {Default} => policies' = {Default}
      BY <3>2
    <3> QED
      BY <1>4, <3>2, <3>3 DEF Shapes, InPlace
  <2> QED
    BY <2>1, <2>2
<1>5. CASE UNCHANGED github
  BY <1>5 DEF github, env, Shapes, InPlace
<1> QED
  BY <1>1, <1>2, <1>3, <1>4, <1>5 DEF Effect

(* A list longer than a page stays so. *)
LEMMA EffectKeepsLong ==
  ASSUME Inv, Shapes', ~ Idle, Accepted, Effect, NEW k \in Kinds, ~ Fits(k)
  PROVE  ~ Fits(k)'
<1>1. Shapes /\ others'[k] >= others[k]
  BY EffectKeeps DEF Inv, Shapes
<1>2. \A n \in OfKind(k) : entry[n] # "absent" => entry'[n] # "absent"
  BY EffectKeeps DEF OfKind
<1> QED
  BY <1>1, <1>2, LongStaysLong

(* A setting that the script is done with leaves the rest to come. *)
LEMMA NextKeepsShapes ==
  ASSUME Inv, ~ Idle, NextSetting,
         entry' \in [Entries -> {"absent", "other", "ours"}], others' = others,
         policies' \subseteq Policies, UNCHANGED machine
  PROVE  /\ Shapes' /\ Places' /\ FoundHolds' /\ ListedHolds'
         /\ Settings' = Settings
         /\ ToSet(todo) = {Name} \cup ToSet(todo)'
<1>1. Shapes'
  BY OneLess DEF Inv, NextSetting, Shapes
<1>2. Places' /\ FoundHolds' /\ ListedHolds'
  BY DEF NextSetting, Places, FoundHolds, ListedHolds
<1>3. Settings' = Settings
  BY DEF Settings, plan, machine
<1>4. ToSet(todo) = {Name} \cup ToSet(todo)'
  BY OneLess DEF Inv, NextSetting
<1> QED
  BY <1>1, <1>2, <1>3, <1>4

(* A tick is a setting in place. *)
LEMMA SaidIsInPlace ==
  ASSUME Inv, ~ Idle, Accepted, Effect, NEW n, n = Name, n \notin touched,
         \/ stage = "trim" /\ Unwanted = {}
         \/ Name \in Plain \/ stage = "write"
  PROVE  InPlace(n)'
<1> USE DEF Inv
<1>1. CASE stage = "trim" /\ Unwanted = {}
  <2>1. Name = "environment" /\ custom /\ policies \subseteq listed \cup {Default}
    BY <1>1 DEF Places, ListedHolds
  <2>2. policies \subseteq {Default}
    BY <1>1, <2>1 DEF Unwanted, Wanted
  <2>0. TrimEnvironment /\ custom' = custom
    BY <1>1, <2>1 DEF Effect, Plain, Entries, Rulesets
  <2>a. NothingToSend => Default \in policies
    BY <2>1 DEF NothingToSend, ListedHolds
  <2>3. policies' = policies \cup {Default} /\ custom' = custom
    BY <1>1, <2>0, <2>a DEF TrimEnvironment
  <2>4. policies' = {Default}
    BY <2>2, <2>3
  <2> QED
    BY <2>1, <2>3, <2>4 DEF InPlace
<1>2. CASE Name \in Plain
  <2>1. Name \notin Entries /\ Name # "environment"
    BY <1>2 DEF Plain, Entries, Rulesets
  <2>2. stage = "first"
    BY <2>1 DEF Places, Shapes
  <2>3. inPlace' = inPlace \cup {Name}
    BY <2>1, <2>2 DEF Effect, SetPlain
  <2> QED
    BY <2>3 DEF InPlace
<1>3. CASE stage = "write"
  <2>1. Name \in Entries /\ Name \notin Plain /\ Name # "environment"
    BY <1>3 DEF Places, Plain, Entries, Rulesets
  <2>2. entry' = [entry EXCEPT ![Name] = "ours"]
    BY <1>3, <2>1 DEF Effect, WriteEntry
  <2> QED
    BY <2>1, <2>2 DEF InPlace, Shapes
<1> QED
  BY <1>1, <1>2, <1>3

-----------------------------------------------------------------------------
(* An answer: the script goes on within the setting, or is done with it.   *)
LEMMA AnswerKeepsInv ==
  ASSUME Inv, Answered
  PROVE  Inv'
<1> USE DEF Inv
<1>1. ~ Idle /\ Accepted /\ Effect /\ Proceed /\ UNCHANGED <<release, supported, lost, touched>>
  BY DEF Answered, machine, ghosts
<1>2. CASE Said /\ ((stage = "trim" /\ Unwanted = {}) \/ Name \in Plain \/ stage = "write")
  <2>1. NextSetting /\ done' = done \cup {Name} /\ failed' = failed
    BY <1>2 DEF Said
  <2>2. /\ Shapes' /\ Places' /\ FoundHolds' /\ ListedHolds'
        /\ Settings' = Settings
        /\ ToSet(todo) = {Name} \cup ToSet(todo)'
    BY <1>1, <2>1, EffectKeeps, NextKeepsShapes DEF machine
  <2>3. ASSUME NEW s \in done' \ touched' PROVE InPlace(s)'
    <3>1. CASE s = Name
      BY <1>1, <1>2, <2>3, <3>1, SaidIsInPlace
    <3>2. CASE s # Name
      BY <1>1, <2>1, <2>3, <3>2, EffectKeeps DEF Ticks
    <3> QED
      BY <3>1, <3>2
  <2>4. Counted'
    BY <1>1, <2>1, <2>2 DEF Counted
  <2>5. ASSUME NEW s \in Entries, ~ Fits(Kind(s)) PROVE ~ Fits(Kind(s))'
    BY <1>1, <2>2, <2>5, EffectKeepsLong DEF Kind, Kinds
  <2>6. Accounted'
    BY <1>1, <2>1, <2>2, <2>5 DEF Accounted
  <2> QED
    BY <2>2, <2>3, <2>4, <2>6 DEF Ticks
<1>3. CASE UNCHANGED <<todo, done, failed>> /\ Shapes' /\ Places' /\ FoundHolds' /\ ListedHolds'
  <2>1. ToSet(todo)' = ToSet(todo) /\ Settings' = Settings
    BY <1>1, <1>3 DEF Settings, plan
  <2>2. Ticks'
    BY <1>1, <1>3, EffectKeeps DEF Ticks
  <2>3. Counted'
    BY <1>1, <1>3, <2>1 DEF Counted
  <2>4. ASSUME NEW s \in Entries, ~ Fits(Kind(s)) PROVE ~ Fits(Kind(s))'
    BY <1>1, <1>3, <2>4, EffectKeepsLong DEF Kind, Kinds
  <2>5. Accounted'
    BY <1>1, <1>3, <2>1, <2>4 DEF Accounted
  <2> QED
    BY <1>3, <2>2, <2>3, <2>5
<1>4. CASE Name \in Entries /\ stage = "first" /\ Find /\ GoesTo("write")
  <2>1. UNCHANGED github
    BY <1>1, <1>4 DEF Effect, Plain, Entries, Rulesets
  <2>2. UNCHANGED <<todo, done, failed>> /\ stage' = "write" /\ Name' = Name /\ Idle' = Idle
    BY <1>4 DEF GoesTo, said, Name, Idle
  <2>3. Shapes'
    BY <2>1, <2>2 DEF Shapes, github, env
  <2>4. Places' /\ ListedHolds'
    BY <1>1, <1>4, <2>2 DEF Places, ListedHolds
  <2>5. Fits(Kind(Name))' = Fits(Kind(Name))
    BY <2>1, <2>2 DEF Fits, OfKind, Kind, github
  <2>6. FoundHolds'
    BY <1>4, <2>1, <2>2, <2>5 DEF Find, FoundHolds, github
  <2> QED
    BY <1>3, <2>2, <2>3, <2>4, <2>6
<1>5. CASE Name = "environment" /\ stage = "first" /\ GoesTo("list") /\ UNCHANGED listed
  <2>1. /\ custom' = TRUE /\ policies' = policies /\ entry' = entry /\ others' = others
    BY <1>1, <1>5 DEF Effect, PutEnvironment, Plain, Entries, Rulesets
  <2>2. UNCHANGED <<todo, done, failed>> /\ stage' = "list" /\ Name' = Name /\ Idle' = Idle
    BY <1>5 DEF GoesTo, said, Name, Idle
  <2>3. Shapes' /\ Places' /\ FoundHolds' /\ ListedHolds'
    BY <1>1, <1>5, <2>1, <2>2 DEF Shapes, Places, FoundHolds, ListedHolds
  <2> QED
    BY <1>3, <2>2, <2>3
<1>6. CASE stage = "list" /\ listed' = policies /\ GoesTo("trim")
  <2>1. UNCHANGED github /\ Name = "environment"
    BY <1>1, <1>6 DEF Effect, Places, Plain, Entries, Rulesets
  <2>2. UNCHANGED <<todo, done, failed>> /\ stage' = "trim" /\ Name' = Name /\ Idle' = Idle
    BY <1>6 DEF GoesTo, said, Name, Idle
  <2>3. Shapes' /\ Places' /\ FoundHolds' /\ ListedHolds'
    BY <1>1, <1>6, <2>1, <2>2 DEF Shapes, Places, FoundHolds, ListedHolds, github, env
  <2> QED
    BY <1>3, <2>2, <2>3
<1>7. CASE stage = "trim" /\ Unwanted # {} /\ listed' = listed \ {NextUnwanted} /\ GoesTo("trim")
  <2>1. /\ Name = "environment" /\ policies' = policies \ {NextUnwanted}
        /\ UNCHANGED <<entry, others, custom>>
    <3>1. ~ NothingToSend
      BY <1>7 DEF NothingToSend, Unwanted, Wanted
    <3>2. Name = "environment"
      BY <1>7 DEF Places
    <3> QED
      BY <1>1, <1>7, <3>1, <3>2 DEF Effect, TrimEnvironment, Plain, Entries, Rulesets
  <2>2. UNCHANGED <<todo, done, failed>> /\ stage' = "trim" /\ Name' = Name /\ Idle' = Idle
    BY <1>7 DEF GoesTo, said, Name, Idle
  <2>3. Shapes' /\ Places' /\ FoundHolds'
    BY <1>1, <1>7, <2>1, <2>2 DEF Shapes, Places, FoundHolds
  <2>4. ListedHolds'
    BY <1>1, <1>7, <2>1, <2>2 DEF ListedHolds
  <2> QED
    BY <1>3, <2>2, <2>3, <2>4
<1> QED
  BY <1>1, <1>2, <1>4, <1>5, <1>6, <1>7 DEF Proceed

(* GitHub refuses: what the plan does not allow, or an entry the script    *)
(* could not find.                                                         *)
LEMMA RefusedKeepsInv ==
  ASSUME Inv, Refused
  PROVE  Inv'
<1> USE DEF Inv
<1>1. /\ ~ Idle /\ ~ Accepted /\ NextSetting /\ UNCHANGED <<machine, github, done, lost, touched>>
      /\ failed' = IF Name \in Optional THEN failed ELSE failed \cup {Name}
  BY DEF Refused, Fails, ghosts
<1>2. /\ Shapes' /\ Places' /\ FoundHolds' /\ ListedHolds'
      /\ Settings' = Settings
      /\ ToSet(todo) = {Name} \cup ToSet(todo)'
  BY <1>1, NextKeepsShapes DEF github, env, Shapes
<1>3. Ticks'
  BY <1>1 DEF Ticks, InPlace, github, env
<1>4. Counted'
  BY <1>1, <1>2 DEF Counted
<1>5. ASSUME NEW k \in Kinds PROVE Fits(k)' = Fits(k)
  BY <1>1 DEF Fits, OfKind, Kind, github
<1>6. Name \in touched \/ Name \in Optional \ supported \/ (Name \in Entries /\ ~ Fits(Kind(Name)))
  <2>1. CASE Name \in Optional /\ Name \notin supported
    BY <2>1
  <2>2. CASE stage = "write" /\ ~ ((listed = {}) = (entry[Name] = "absent"))
    BY <2>2 DEF Places, FoundHolds
  <2>3. CASE stage = "trim" /\ Unwanted # {} /\ NextUnwanted \notin policies
    <3>1. NextUnwanted \in listed
      BY <2>3 DEF NextUnwanted, Unwanted
    <3> QED
      BY <2>3, <3>1 DEF Places, ListedHolds
  <2> QED
    BY <1>1, <2>1, <2>2, <2>3 DEF Accepted
<1>7. Accounted'
  <2> SUFFICES ASSUME NEW s \in Settings \ (lost \cup touched)
               PROVE  \/ s \in ToSet(todo)' \cup done
                      \/ s \in Optional \ supported
                      \/ s \in Entries /\ ~ Fits(Kind(s))'
    BY <1>1, <1>2 DEF Accounted, machine
  <2>1. s \in Entries => Kind(s) \in Kinds
    BY DEF Kind, Kinds
  <2> QED
    BY <1>1, <1>2, <1>5, <1>6, <2>1 DEF Accounted
<1> QED
  BY <1>2, <1>3, <1>4, <1>7

(* A lost request, and a run that ends in the middle.                      *)
LEMMA LostKeepsInv ==
  ASSUME Inv, Lost \/ Interrupt
  PROVE  Inv'
<1> USE DEF Inv
<1>1. CASE Lost
  <2>1. /\ ~ Idle /\ NextSetting /\ UNCHANGED <<machine, done, touched>>
        /\ (Accepted /\ Effect) \/ UNCHANGED github
        /\ lost' = lost \cup {Name}
        /\ failed \subseteq failed'
    BY <1>1 DEF Lost, Fails
  <2>2. /\ entry' \in [Entries -> {"absent", "other", "ours"}]
        /\ others' = others /\ policies' \subseteq Policies
        /\ \A s : InPlace(s) => InPlace(s)'
        /\ \A n \in Entries : entry[n] # "absent" => entry'[n] # "absent"
    BY <2>1, EffectKeeps DEF github, env, Shapes, InPlace
  <2>3. /\ Shapes' /\ Places' /\ FoundHolds' /\ ListedHolds'
        /\ Settings' = Settings
        /\ ToSet(todo) = {Name} \cup ToSet(todo)'
    BY <2>1, <2>2, NextKeepsShapes
  <2>4. Ticks' /\ Counted'
    BY <2>1, <2>2, <2>3 DEF Ticks, Counted
  <2>5. ASSUME NEW s \in Entries, ~ Fits(Kind(s)) PROVE ~ Fits(Kind(s))'
    <3>1. Kind(s) \in Kinds /\ others'[Kind(s)] >= others[Kind(s)]
      BY <2>2 DEF Kind, Kinds, Shapes
    <3> QED
      BY <2>2, <2>3, <2>5, <3>1, LongStaysLong DEF OfKind
  <2>6. Accounted'
    BY <2>1, <2>3, <2>5 DEF Accounted, machine
  <2> QED
    BY <2>3, <2>4, <2>6
<1>2. CASE Interrupt
  <2>1. /\ todo' = <<>> /\ stage' = "first" /\ listed' = {}
        /\ lost' = lost \cup ToSet(todo)
        /\ UNCHANGED <<machine, github, said, touched>>
    BY <1>2 DEF Interrupt
  <2>2. Settings' = Settings
    BY <2>1 DEF Settings, plan, machine
  <2>3. Shapes' /\ Places' /\ FoundHolds' /\ ListedHolds' /\ Ticks'
    BY <2>1 DEF Shapes, Places, FoundHolds, ListedHolds, Ticks, InPlace, github, env, said
  <2>4. Counted'
    BY <2>1, <2>2 DEF Counted, said
  <2>5. ASSUME NEW s \in Entries PROVE Fits(Kind(s))' = Fits(Kind(s))
    BY <2>1 DEF Fits, OfKind, Kind, github
  <2>6. Accounted'
    BY <2>1, <2>2, <2>5 DEF Accounted, said, machine
  <2> QED
    BY <2>3, <2>4, <2>6
<1> QED
  BY <1>1, <1>2

-----------------------------------------------------------------------------
(* What administrators do disturbs nothing but the settings they touch.    *)
LEMMA OthersKeepInv ==
  ASSUME Inv, ResetPlain \/ ChangeEntry \/ AddOther \/ ChangeEnvironment
  PROVE  Inv'
<1> USE DEF Inv
<1>1. UNCHANGED <<release, supported, todo, stage, listed, done, failed, lost>> /\ touched \subseteq touched'
  BY DEF ResetPlain, ChangeEntry, AddOther, ChangeEnvironment, Touch, machine, said
<1>2. Shapes'
  <2>1. CASE ResetPlain
    BY <1>1, <2>1 DEF ResetPlain, Shapes, env
  <2>2. CASE ChangeEntry
    BY <1>1, <2>2 DEF ChangeEntry, Shapes, env
  <2>3. CASE AddOther
    BY <1>1, <2>3 DEF AddOther, Shapes, env
  <2>4. CASE ChangeEnvironment
    BY <1>1, <2>4 DEF ChangeEnvironment, Shapes
  <2> QED
    BY <2>1, <2>2, <2>3, <2>4
<1>3. Places' /\ Name' = Name /\ Settings' = Settings /\ ToSet(todo)' = ToSet(todo)
  BY <1>1 DEF Places, Idle, Name, Settings, plan
<1>4. ASSUME NEW s, s \notin touched' PROVE s \notin touched /\ (InPlace(s) => InPlace(s)')
  <2>1. CASE ResetPlain
    BY <1>1, <1>4, <2>1 DEF ResetPlain, Touch, InPlace, env
  <2>2. CASE ChangeEntry
    <3>1. PICK n \in Entries : \E value \in {"absent", "other"} :
             entry' = [entry EXCEPT ![n] = value] /\ Touch(OfKind(Kind(n)))
      BY <2>2 DEF ChangeEntry
    <3>2. n \in OfKind(Kind(n))
      BY DEF OfKind
    <3>3. s # n
      BY <1>4, <3>1, <3>2 DEF Touch
    <3> QED
      BY <1>1, <1>4, <2>2, <3>1, <3>3 DEF ChangeEntry, InPlace, env, Shapes
  <2>3. CASE AddOther
    BY <1>1, <1>4, <2>3 DEF AddOther, InPlace, env
  <2>4. CASE ChangeEnvironment
    BY <1>1, <1>4, <2>4 DEF ChangeEnvironment, Touch, InPlace
  <2> QED
    BY <2>1, <2>2, <2>3, <2>4
<1>5. ASSUME NEW s \in Entries, s \notin touched'
      PROVE entry'[s] = entry[s] /\ (~ Fits(Kind(s)) => ~ Fits(Kind(s))')
  <2>1. CASE ChangeEntry
    <3>1. PICK n \in Entries : \E value \in {"absent", "other"} :
             entry' = [entry EXCEPT ![n] = value] /\ Touch(OfKind(Kind(n)))
      BY <2>1 DEF ChangeEntry
    <3>2. Kind(s) # Kind(n)
      BY <1>5, <3>1 DEF Touch, OfKind
    <3>3. s # n /\ \A m \in OfKind(Kind(s)) : m # n
      BY <3>2 DEF OfKind
    <3>4. \A m \in OfKind(Kind(s)) : entry'[m] = entry[m]
      BY <3>1, <3>3 DEF Shapes, OfKind
    <3>5. others'[Kind(s)] >= others[Kind(s)] /\ Kind(s) \in Kinds
      BY <2>1 DEF ChangeEntry, Kind, Kinds, Shapes
    <3> QED
      BY <1>2, <3>1, <3>3, <3>4, <3>5, LongStaysLong DEF Shapes
  <2>2. CASE AddOther
    <3>1. entry' = entry /\ others'[Kind(s)] >= others[Kind(s)] /\ Kind(s) \in Kinds
      BY <2>2 DEF AddOther, Kind, Kinds, Shapes
    <3> QED
      BY <1>2, <3>1, LongStaysLong
  <2>3. CASE ResetPlain \/ ChangeEnvironment
    BY <2>3 DEF ResetPlain, ChangeEnvironment, Fits, OfKind
  <2> QED
    BY <2>1, <2>2, <2>3
<1>6. FoundHolds'
  BY <1>1, <1>3, <1>5 DEF FoundHolds, Places
<1>7. ListedHolds'
  <2> SUFFICES ASSUME "environment" \notin touched' PROVE UNCHANGED <<custom, policies>>
    BY <1>1 DEF ListedHolds
  <2> QED
    BY DEF ResetPlain, ChangeEntry, AddOther, ChangeEnvironment, Touch, env
<1>8. Ticks'
  BY <1>1, <1>4 DEF Ticks
<1>9. Counted' /\ Accounted'
  BY <1>1, <1>3, <1>5 DEF Counted, Accounted
<1> QED
  BY <1>2, <1>3, <1>6, <1>7, <1>8, <1>9

LEMMA NextKeepsInv == Inv /\ [Next]_vars => Inv'
<1> SUFFICES ASSUME Inv, [Next]_vars PROVE Inv'
  OBVIOUS
<1>1. CASE UNCHANGED vars
  <2> USE <1>1 DEF vars, machine, github, env, said, ghosts
  <2>1. Shapes' /\ Places' /\ ListedHolds'
    BY DEF Inv, Shapes, Places, ListedHolds, Idle, Name
  <2>2. \A k \in Kinds : Fits(k)' = Fits(k)
    BY DEF Fits, OfKind, Kind
  <2>3. \A s \in Entries : Kind(s) \in Kinds
    BY DEF Kind, Kinds
  <2>4. FoundHolds'
    BY <2>2, <2>3 DEF Inv, Places, FoundHolds, Name
  <2>5. Ticks' /\ Counted'
    BY DEF Inv, Ticks, InPlace, Counted, Settings, plan
  <2>6. Accounted'
    BY <2>2, <2>3 DEF Inv, Accounted, Settings, plan
  <2> QED
    BY <2>1, <2>4, <2>5, <2>6 DEF Inv
<1> QED
  BY <1>1, BeginKeepsInv, AnswerKeepsInv, RefusedKeepsInv, LostKeepsInv, OthersKeepInv
     DEF Next, Script

THEOREM InvHolds == Spec => []Inv
  BY InitInv, NextKeepsInv, PTL DEF Spec

-----------------------------------------------------------------------------
(***************************************************************************)
(* What the script ticks is in place, and a run that says OK has every     *)
(* required setting in place: SaysWhatItDid.                               *)
(***************************************************************************)
THEOREM TicksAreTrue == Spec => []SaysWhatItDid
<1>1. Inv => SaysWhatItDid
  <2> SUFFICES ASSUME Inv PROVE SaysWhatItDid
    OBVIOUS
  <2>1. ToSet(<<>>) = {}
    BY DEF ToSet
  <2>2. Idle /\ failed = {} => \A s \in Settings \ (Optional \cup touched) : s \in lost \/ InPlace(s)
    BY <2>1 DEF Inv, Counted, Ticks, Idle
  <2> QED
    BY <2>2 DEF Inv, Ticks, SaysWhatItDid
<1> QED
  BY <1>1, InvHolds, PTL

(***************************************************************************)
(* Wherever earlier runs stopped, a run applies all that GitHub allows and *)
(* nobody disturbs: SafeToRunAgain.                                        *)
(***************************************************************************)
THEOREM RunsAgain == Spec => []SafeToRunAgain
<1>1. Inv => SafeToRunAgain
  <2> SUFFICES ASSUME Inv, Idle, NEW s \in Settings \ (lost \cup touched)
               PROVE  \/ s \in Optional \ supported
                      \/ s \in Entries /\ ~ Fits(Kind(s))
                      \/ s \in done /\ InPlace(s)
    BY DEF SafeToRunAgain
  <2>1. ToSet(todo) = {}
    BY DEF ToSet, Idle
  <2> QED
    BY <2>1 DEF Inv, Accounted, Ticks
<1> QED
  BY <1>1, InvHolds, PTL

(***************************************************************************)
(* No request of the script, nor a run's end, lets the environment of a    *)
(* publishing job admit more than it did, but for the default branch:      *)
(* NeverWider.                                                             *)
(***************************************************************************)
THEOREM NeverAdmitsMore == Spec => NeverWider
<1>1. ASSUME Inv, Script PROVE Admitted' \subseteq Admitted \cup {Default}
  <2>1. policies \subseteq Policies
    BY <1>1 DEF Inv, Shapes
  <2>2. CASE UNCHANGED github
    BY <2>2 DEF github, env, Admitted
  <2>3. CASE ~ Idle /\ Accepted /\ Effect
    <3>1. CASE Name = "environment" /\ stage = "first" /\ PutEnvironment(policies)
      BY <2>1, <3>1 DEF PutEnvironment, Admitted
    <3>2. CASE stage = "trim" /\ TrimEnvironment /\ UNCHANGED custom
      BY <2>1, <3>2 DEF TrimEnvironment, Admitted
    <3>3. CASE UNCHANGED env
      BY <3>3 DEF env, Admitted
    <3> QED
      BY <2>3, <3>1, <3>2, <3>3 DEF Effect, SetPlain, WriteEntry, github
  <2> QED
    BY <1>1, <2>2, <2>3 DEF Script, Begin, Answered, Refused, Lost, Interrupt
<1>2. Inv /\ [Next]_vars => [Script => Admitted' \subseteq Admitted \cup {Default}]_vars
  BY <1>1
<1> QED
  BY <1>2, InvHolds, PTL DEF Spec, NeverWider
=============================================================================
