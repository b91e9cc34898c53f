------------------------------ MODULE Plugins -------------------------------
(* Loading the plugin DLLs of a directory and admitting their declarations     *)
(* (runtime/src/plugins/loading.cpp, validation.cpp), with the INI entries     *)
(* configuration.cpp generates for what was admitted.                          *)
(*                                                                             *)
(* An identifier is the name it has when case is folded.  A section is the     *)
(* sequence of a name's parts at its first dot, so the category "A.B" and      *)
(* subsection "B" of patch "A" are both <<"A", "B">>.  A declaration's fields  *)
(* with rules of their own (text, flags, roles, policies, intervals, counted   *)
(* arrays, defaults) are `wellFormed'.                                         *)
EXTENDS Integers, Sequences, FiniteSets

CONSTANTS Paths,        \* the DLLs of the plugin directory, as numbers in sorted order
          Embedded,     \* the sequences of declarations built into the runtime
          Directories   \* what the DLLs may supply: functions from Paths to declarations, NoLibrary, NoEntry, Refuses

NoLibrary == [wellFormed |-> FALSE, id |-> "NoLibrary"]
NoEntry == [wellFormed |-> FALSE, id |-> "NoEntry"]
Refuses == [wellFormed |-> FALSE, id |-> "Refuses"]

\* What a declaration holds; a section, a reference and a selector are the sequences of their parts.
Declarations ==
    LET parts == Seq(STRING)
        variant == [settings : Seq([section : STRING, key : STRING]),
                    images : Seq([label : STRING, selectors : Seq(parts)]), dependsOn : Seq(parts)]
        patch == [id : STRING, category : parts, configurable : BOOLEAN, dependsOn : Seq(parts), variants : Seq(variant)]
        group == [id : STRING, category : parts, configurable : BOOLEAN, members : Seq(STRING)]
    IN [wellFormed : BOOLEAN, id : STRING, categories : Seq(parts), patches : Seq(patch), groups : Seq(group)]

ASSUME PluginsAssumption ==
    /\ Paths \subseteq Nat \ {0} /\ IsFiniteSet(Paths)
    /\ Directories \subseteq [Paths -> Declarations \cup {NoLibrary, NoEntry, Refuses}]
    /\ Embedded \subseteq Seq(Declarations)

VARIABLES
    supplied,       \* what each path's DLL supplies, and what is embedded
    nextPath,       \* the next path of load_plugins' loop; 0 once the loop is over
    references,     \* references load_plugins holds to each DLL
    candidates,     \* definitions: [owner, definition], the embedded ones first
    admitted,       \* result.admitted
    diagnosed       \* owners named by a diagnostic

pluginVars == <<supplied, nextPath, references, candidates, admitted, diagnosed>>

-----------------------------------------------------------------------------
(* The rules of one declaration.                                              *)

Each(seq) == {seq[i] : i \in DOMAIN seq}
Distinct(seq) == Cardinality(Each(seq)) = Len(seq)

\* Each variant of each patch.
VariantsOf(patch) == Each(patch.variants)

\* A local identifier or exactly plugin.local: the parts of the text at every dot.
ReferenceValid(reference) == Len(reference) \in 1..2 /\ "" \notin Each(reference)

\* Nothing, or characters of which only the last is the wildcard.
SelectorValid(selector) ==
    selector # << >> /\ \A i \in DOMAIN selector : selector[i] = "*" => i = Len(selector)

CategoryKnown(definition, category) == category # << >> => category \in Each(definition.categories)

CategoriesValid(definition) == Distinct(definition.categories)

\* The section a setting of the patch is generated in.
SettingSection(patch, setting) ==
    IF setting.section = "" THEN <<patch.id>> ELSE <<patch.id, setting.section>>

Uncategorised(owner) == owner.configurable /\ owner.category = << >>

SettingsValid(definition, patch, variant) ==
    /\ Distinct(variant.settings)
    /\ \A setting \in Each(variant.settings) :
          /\ setting.section # "" => SettingSection(patch, setting) \notin Each(definition.categories)
          /\ ~(Uncategorised(patch) /\ setting = [section |-> "", key |-> "Enabled"])

ImagesValid(variant) ==
    /\ variant.images # << >>
    /\ Distinct([i \in DOMAIN variant.images |-> variant.images[i].label])
    /\ \A image \in Each(variant.images) :
          image.selectors # << >> /\ \A selector \in Each(image.selectors) : SelectorValid(selector)

PatchesValid(definition) ==
    /\ Distinct([i \in DOMAIN definition.patches |-> definition.patches[i].id])
    /\ \A patch \in Each(definition.patches) :
          /\ <<patch.id>> \notin Each(definition.categories)
          /\ CategoryKnown(definition, patch.category)
          /\ \A reference \in Each(patch.dependsOn) : ReferenceValid(reference)
          /\ \A variant \in VariantsOf(patch) :
                /\ SettingsValid(definition, patch, variant)
                /\ ImagesValid(variant)
                /\ \A reference \in Each(variant.dependsOn) : ReferenceValid(reference)

PatchIds(definition) == {patch.id : patch \in Each(definition.patches)}

\* Every member is a patch of this plugin and belongs to no other group, nor twice to this one.
MembersValid(definition) ==
    LET groups == definition.groups
        places == UNION {{<<i, j>> : j \in DOMAIN groups[i].members} : i \in DOMAIN groups}
        Member(p) == groups[p[1]].members[p[2]]
    IN /\ \A p \in places : Member(p) \in PatchIds(definition)
       /\ \A p, q \in places : Member(p) = Member(q) => p = q

GroupsValid(definition) ==
    /\ Distinct([i \in DOMAIN definition.groups |-> definition.groups[i].id])
    /\ \A group \in Each(definition.groups) :
          /\ group.id \notin PatchIds(definition)
          /\ CategoryKnown(definition, group.category)
          /\ Uncategorised(group) => <<group.id>> \notin Each(definition.categories)
    /\ MembersValid(definition)

\* validate_plugin_definition.
DefinitionValid(definition) ==
    /\ definition.wellFormed
    /\ CategoriesValid(definition)
    /\ PatchesValid(definition)
    /\ GroupsValid(definition)

-----------------------------------------------------------------------------
(* Admission.                                                                 *)

Validated == {c \in candidates : DefinitionValid(c.definition)}
SharingId(c) == {d \in Validated : d.definition.id = c.definition.id}

\* Mutant: declarations that fail validation take part in identifier conflicts.
AdmittedOf_M2(c) == c \in Validated /\ {d \in candidates : d.definition.id = c.definition.id} = {c}

\* A declaration whose identifier another valid one has is rejected with it.
AdmittedOf(c) == c \in Validated /\ SharingId(c) = {c}

\* The owner an embedded declaration has: a number no path has.
EmbeddedOwner(i) == -i

PluginsInit ==
    /\ \E files \in Directories, embedded \in Embedded :
          /\ supplied = [files |-> files, embedded |-> embedded]
          /\ candidates = {[owner |-> EmbeddedOwner(i), definition |-> embedded[i]] : i \in DOMAIN embedded}
    /\ nextPath = IF Paths = {} THEN 0 ELSE CHOOSE p \in Paths : \A q \in Paths : p <= q
    /\ references = [p \in Paths |-> 0]
    /\ admitted = {} /\ diagnosed = {}

PluginsAdmitted == nextPath = 0 /\ candidates = {}
LoopOver == nextPath = 0 /\ candidates # {}

\* discover_plugins sorts what the directory listed, so the loop does not depend on its order.
FollowingPath(p) ==
    LET rest == {q \in Paths : q > p}
    IN IF rest = {} THEN 0 ELSE CHOOSE q \in rest : \A r \in rest : q <= r

\* LoadLibraryExW fails.
CannotLoad(p) ==
    /\ nextPath = p /\ p # 0
    /\ supplied.files[p] = NoLibrary
    /\ diagnosed' = diagnosed \cup {p}
    /\ nextPath' = FollowingPath(p)
    /\ UNCHANGED <<supplied, references, candidates, admitted>>

\* FC_GetPlugin is not exported or does not succeed: the DLL is freed at once.
EntryFails(p) ==
    /\ nextPath = p /\ p # 0
    /\ supplied.files[p] \in {NoEntry, Refuses}
    /\ diagnosed' = diagnosed \cup {p}
    /\ nextPath' = FollowingPath(p)
    /\ UNCHANGED <<supplied, references, candidates, admitted>>

\* FC_GetPlugin supplies a declaration, whose storage is the DLL's.
Supply(p) ==
    /\ nextPath = p /\ p # 0
    /\ supplied.files[p] \notin {NoLibrary, NoEntry, Refuses}
    /\ references' = [references EXCEPT ![p] = @ + 1]
    /\ candidates' = candidates \cup {[owner |-> p, definition |-> supplied.files[p]]}
    /\ nextPath' = FollowingPath(p)
    /\ UNCHANGED <<supplied, admitted, diagnosed>>

\* admit_definitions, and every DLL without an admitted declaration is freed.
Admit ==
    /\ LoopOver
    /\ admitted' = {c \in candidates : AdmittedOf(c)}
    /\ diagnosed' = diagnosed \cup {c.owner : c \in {d \in candidates : ~AdmittedOf(d)}}
    /\ references' = [p \in Paths |-> IF \E c \in candidates : c.owner = p /\ ~AdmittedOf(c) THEN references[p] - 1 ELSE references[p]]
    /\ candidates' = {}
    /\ UNCHANGED <<supplied, nextPath>>

PluginsNext == Admit \/ \E p \in Paths : CannotLoad(p) \/ EntryFails(p) \/ Supply(p)

PluginsSpec == PluginsInit /\ [][PluginsNext]_pluginVars

-----------------------------------------------------------------------------
(* The entries load_configuration generates when every patch may apply.       *)

Owner(kind, id) == [kind |-> kind, id |-> id]

\* A toggle stands under its category, or as [owner].Enabled.
ToggleEntry(kind, owner) ==
    [owner |-> Owner(kind, owner.id),
     section |-> IF owner.category = << >> THEN <<owner.id>> ELSE owner.category,
     key |-> IF owner.category = << >> THEN "Enabled" ELSE owner.id]

\* A patch without a variant cannot apply.
Eligible(definition) == {patch \in Each(definition.patches) : patch.variants # << >>}

GeneratedEntries(definition) ==
    LET eligible == Eligible(definition)
        toggled == {patch \in eligible : patch.configurable}
        relevant == {g \in Each(definition.groups) : g.configurable /\ Each(g.members) \cap {patch.id : patch \in eligible} # {}}
        SettingsOf(patch) == UNION {Each(variant.settings) : variant \in VariantsOf(patch)}
    IN {ToggleEntry("Patch", patch) : patch \in toggled}
       \cup {ToggleEntry("Group", group) : group \in relevant}
       \cup UNION {{[owner |-> Owner("Setting", patch.id), section |-> SettingSection(patch, setting), key |-> setting.key] :
                        setting \in SettingsOf(patch)} : patch \in eligible}

-----------------------------------------------------------------------------
(* Properties.                                                                *)

\* What is admitted stays mapped and nothing else does; every plugin is admitted or reported and never both; configuration
\* files are not shared; and a plugin that cannot be used does not keep another from being admitted.
PluginsSound ==
    PluginsAdmitted =>
        /\ \A p \in Paths : references[p] = (IF \E c \in admitted : c.owner = p THEN 1 ELSE 0)
        /\ \A p \in Paths : (p \in diagnosed) # (\E c \in admitted : c.owner = p)
        /\ \A c, d \in admitted : c.definition.id = d.definition.id => c = d
        /\ \A p \in Paths :
              LET others == {supplied.files[q] : q \in Paths \ {p}} \cup Each(supplied.embedded)
              IN DefinitionValid(supplied.files[p]) /\ (\A d \in others : DefinitionValid(d) => d.id # supplied.files[p].id)
                    => p \notin diagnosed

\* The INI entries of an admitted plugin are told apart by section and key: a toggle or a patch's setting never takes the
\* value meant for another declaration.  Only variants of one patch share a key.
SectionsDistinct ==
    \A c \in admitted :
        \A e, f \in GeneratedEntries(c.definition) : e.section = f.section /\ e.key = f.key => e.owner = f.owner

\* Both, of what admit_definitions admits.
PluginsAccounted == PluginsSound /\ SectionsDistinct
=============================================================================
