--------------------------- MODULE Configuration ---------------------------
(***************************************************************************)
(* Loading a plugin's INI file and adding the entries it lacks             *)
(* (runtime/src/configuration/storage.cpp, ini.cpp, configuration.cpp).    *)
(*                                                                         *)
(* Two game processes, a client and a server of the same installation,     *)
(* may load the same file at once; between sessions the user edits it, and *)
(* a process may die at any point.  A file is a sequence of lines, and a   *)
(* line is a section header, an assignment, an assignment commented out    *)
(* without a value, or a note.  Text, case folding and escapes are left    *)
(* out.  A missing file is created at its own path; an existing one is     *)
(* updated through a staged `.tmp' beside it and ReplaceFile.              *)
(*                                                                         *)
(* Which variants of a patch may apply differs between sessions.  `by' is  *)
(* no part of the text: it records, for the properties, the variants whose *)
(* session generated a line, and is empty for the user's own lines.        *)
(***************************************************************************)
EXTENDS FiniteSets, Naturals, SequencesExt

CONSTANTS Processes,      \* the processes of one installation
          Variants,       \* the variants of the plugin's patches
          Declared,       \* for each variant, the settings it declares: [section, key, default]
          Valid,          \* for each variant, the values its validators accept
          Sessions,       \* the sets of variants that may apply in a session
          UserValues,     \* the values a user writes
          MaxEdits        \* how often the user edits the file

ASSUME ConfigurationAssumption ==
    /\ \A v \in Variants : \A i \in DOMAIN Declared[v] : Declared[v][i].default \in Valid[v]
    /\ \A s \in Sessions : s \subseteq Variants
    /\ MaxEdits \in Nat

NoValue == "NoValue"
NoProcess == "NoProcess"

Header(s, by) == [kind |-> "Section", section |-> s, key |-> NoValue, value |-> NoValue, by |-> by]
Assignment(s, k, v, by) == [kind |-> "Set", section |-> s, key |-> k, value |-> v, by |-> by]
Unset(s, k, by) == [kind |-> "Unset", section |-> s, key |-> k, value |-> NoValue, by |-> by]

VARIABLES
    file,      \* the INI file: whether it exists, its lines and the process still writing it
    temp,      \* the staged file beside it, likewise, with the process that created it
    load,      \* each process's load_file
    env,       \* the environment override of each session's settings
    user,      \* the lines the user wrote, as they were when no load was running, and where they are:
               \* in the file, in a staged copy only, or gone
    edits

fileVars == <<file, temp, load, env, user, edits>>

NoFile == [exists |-> FALSE, lines |-> <<>>, writer |-> NoProcess]
NoTemp == [exists |-> FALSE, lines |-> <<>>, creator |-> NoProcess]
NoLoad == [at |-> "Idle", variants |-> {}, missing |-> FALSE, lines |-> <<>>, made |-> FALSE]

-----------------------------------------------------------------------------
(* parse_ini.                                                              *)

Headers(lines) == {i \in DOMAIN lines : lines[i].kind = "Section"}

\* The section a line stands in: that of the last header at or before it.
SectionAt(lines, i) ==
    LET above == {j \in Headers(lines) : j <= i}
    IN IF above = {} THEN NoValue ELSE lines[Max(above)].section

\* The identities a document assigns, and those it leaves explicitly unset.
Named(lines, kind) ==
    {[section |-> SectionAt(lines, i), key |-> lines[i].key] : i \in {j \in DOMAIN lines : lines[j].kind = kind}}

Found(lines, id) ==
    {i \in DOMAIN lines : lines[i].kind = "Set" /\ SectionAt(lines, i) = id.section /\ lines[i].key = id.key}

\* Malformed lines, assignments outside a section and repeated keys reject the whole file.
Parses(lines) ==
    /\ \A i \in DOMAIN lines : lines[i].kind # "Malformed"
    /\ \A i \in DOMAIN lines : lines[i].kind = "Set" => SectionAt(lines, i) # NoValue
    /\ \A id \in Named(lines, "Set") : Cardinality(Found(lines, id)) = 1

-----------------------------------------------------------------------------
(* The schema of a session.                                                *)

Identity(setting) == [section |-> setting.section, key |-> setting.key]

Settings(variants) == UNION {{<<v, i>> : i \in DOMAIN Declared[v]} : v \in variants}
Setting(x) == Declared[x[1]][x[2]]

Identities(variants) == {Identity(Setting(x)) : x \in Settings(variants)}

\* The defaults the applicable variants declare for one key; several leave it unset in the file.
Defaults(variants, id) == {Setting(x).default : x \in {y \in Settings(variants) : Identity(Setting(y)) = id}}

\* The first declaration's default for every variant.
FirstDefault(variants, id) ==
    Assignment(id.section, id.key, CHOOSE d \in Defaults(variants, id) : TRUE, variants)

\* load_configuration's add: a shared key is generated once, unset when its defaults differ.
GeneratedLine(variants, id) ==
    IF Cardinality(Defaults(variants, id)) = 1
      THEN Assignment(id.section, id.key, CHOOSE d \in Defaults(variants, id) : TRUE, variants)
      ELSE Unset(id.section, id.key, variants)

-----------------------------------------------------------------------------
(* updated_contents.                                                       *)

\* The declared keys the file neither assigns nor leaves explicitly unset.
Missing(lines, variants) == Identities(variants) \ (Named(lines, "Set") \cup Named(lines, "Unset"))

Additions(lines, variants, s) ==
    LET ids == {id \in Missing(lines, variants) : id.section = s}
    IN SetToSeq({GeneratedLine(variants, id) : id \in ids})

\* The line after which a section's additions go: the last one of its first occurrence.
EndsFirst(lines, i) ==
    LET s == SectionAt(lines, i)
    IN /\ s # NoValue
       /\ i + 1 \in DOMAIN lines => lines[i + 1].kind = "Section"
       /\ {j \in Headers(lines) : j < i /\ lines[j].section = s /\ \E k \in Headers(lines) : j < k /\ k <= i} = {}

\* Every existing line is kept; sections the file lacks follow it.
Updated(lines, variants) ==
    LET absent == {id.section : id \in Missing(lines, variants)} \ {lines[i].section : i \in Headers(lines)}
    IN FlattenSeq([i \in DOMAIN lines |->
                     <<lines[i]>> \o IF EndsFirst(lines, i) THEN Additions(lines, variants, SectionAt(lines, i))
                                                            ELSE <<>>])
       \o FlattenSeq([n \in 1 .. Cardinality(absent) |->
                        LET s == SetToSeq(absent)[n] IN <<Header(s, variants)>> \o Additions(lines, variants, s)])

-----------------------------------------------------------------------------
(* load_file, one file operation at a time.                                *)

At(p, at) == load[p].at = at
Becomes(p, at) == load' = [load EXCEPT ![p].at = at]

\* The file is opened, read whole and parsed; a file another process still writes cannot be opened.
Read(p, variants) ==
    /\ At(p, "Idle")
    /\ IF file.exists /\ (file.writer # NoProcess \/ ~Parses(file.lines))
         THEN load' = [load EXCEPT ![p] = [NoLoad EXCEPT !.at = "Rejected", !.variants = variants]]
         ELSE load' = [load EXCEPT ![p] = [at |-> "Parsed", variants |-> variants, missing |-> ~file.exists,
                                           lines |-> file.lines, made |-> FALSE]]
    /\ UNCHANGED <<file, temp, env, user, edits>>

\* Reading fails for reasons of Windows.
ReadFails(p, variants) ==
    /\ At(p, "Idle")
    /\ file.exists
    /\ load' = [load EXCEPT ![p] = [NoLoad EXCEPT !.at = "Rejected", !.variants = variants]]
    /\ UNCHANGED <<file, temp, env, user, edits>>

NothingMissing(p) ==
    /\ At(p, "Parsed")
    /\ Missing(load[p].lines, load[p].variants) = {}
    /\ Becomes(p, "Loaded")
    /\ UNCHANGED <<file, temp, env, user, edits>>

\* An update written over the file itself.
CreateInPlace(p) ==
    /\ At(p, "Parsed")
    /\ Missing(load[p].lines, load[p].variants) # {}
    /\ file' = [exists |-> TRUE, lines |-> <<>>, writer |-> p]
    /\ load' = [load EXCEPT ![p].at = "Writing", ![p].made = TRUE, ![p].missing = TRUE]
    /\ UNCHANGED <<temp, env, user, edits>>

\* An update that truncates whatever staged file it finds.
CreateAlways(p) ==
    /\ At(p, "Parsed")
    /\ Missing(load[p].lines, load[p].variants) # {}
    /\ ~load[p].missing
    /\ temp' = [exists |-> TRUE, lines |-> <<>>, creator |-> p]
    /\ load' = [load EXCEPT ![p].at = "Writing", ![p].made = TRUE]
    /\ UNCHANGED <<file, env, user, edits>>

\* CREATE_NEW on the path itself or on `.tmp': an existing file is never opened for writing.
CreateNew(p) ==
    /\ At(p, "Parsed")
    /\ Missing(load[p].lines, load[p].variants) # {}
    /\ IF load[p].missing
         THEN ~file.exists /\ file' = [exists |-> TRUE, lines |-> <<>>, writer |-> p] /\ UNCHANGED temp
         ELSE ~temp.exists /\ temp' = [exists |-> TRUE, lines |-> <<>>, creator |-> p] /\ UNCHANGED file
    /\ load' = [load EXCEPT ![p].at = "Writing", ![p].made = TRUE]
    /\ UNCHANGED <<env, user, edits>>

CreateFails(p) ==
    /\ At(p, "Parsed")
    /\ Missing(load[p].lines, load[p].variants) # {}
    /\ Becomes(p, "Failed")
    /\ UNCHANGED <<file, temp, env, user, edits>>

\* The output as far as it has been written: whole, or cut short by an error, then closed.
Output(p, lines) ==
    IF load[p].missing THEN file' = [file EXCEPT !.lines = lines, !.writer = NoProcess] /\ UNCHANGED temp
                       ELSE temp' = [temp EXCEPT !.lines = lines] /\ UNCHANGED file

Write(p) ==
    /\ At(p, "Writing")
    /\ Output(p, Updated(load[p].lines, load[p].variants))
    /\ Becomes(p, IF load[p].missing THEN "Loaded" ELSE "Written")
    /\ UNCHANGED <<env, user, edits>>

WriteFails(p) ==
    /\ At(p, "Writing")
    /\ \E n \in {0, 1} : Output(p, SubSeq(Updated(load[p].lines, load[p].variants), 1, n))
    /\ Becomes(p, "Failed")
    /\ UNCHANGED <<env, user, edits>>

\* ReplaceFile swaps the complete staged file in, or fails with the old one in place, or, as no
\* backup is named, fails to rename the staged file after it has removed the old one.
Replace(p) ==
    /\ At(p, "Written")
    /\ file.exists
    /\ file.writer = NoProcess
    /\ file' = [exists |-> TRUE, lines |-> temp.lines, writer |-> NoProcess]
    /\ temp' = NoTemp
    /\ Becomes(p, "Loaded")
    /\ UNCHANGED <<env, user, edits>>

ReplaceFails(p) ==
    /\ At(p, "Written")
    /\ Becomes(p, "Failed")
    /\ UNCHANGED <<file, temp, env, user, edits>>

ReplaceLoses(p) ==
    /\ At(p, "Written")
    /\ file.exists
    /\ file.writer = NoProcess
    /\ file' = NoFile
    /\ user' = [user EXCEPT !.in = IF @ = "File" THEN "Staged" ELSE @]
    /\ Becomes(p, "Failed")
    /\ UNCHANGED <<temp, env, edits>>

\* Output this load created is removed, when Windows lets it; an update that failed is a warning.
CleanUp(p) ==
    /\ At(p, "Failed")
    /\ IF ~load[p].made THEN UNCHANGED <<file, temp>>
       ELSE IF load[p].missing THEN file' \in {NoFile, file} /\ UNCHANGED temp
       ELSE temp' \in {NoTemp, temp} /\ UNCHANGED file
    /\ user' = [user EXCEPT !.in = IF @ = "Staged" /\ ~temp'.exists THEN "Gone" ELSE @]
    /\ Becomes(p, IF load[p].missing THEN "Rejected" ELSE "Loaded")
    /\ UNCHANGED <<env, edits>>

\* The process dies; a file it was writing stays as far as it came.
Crash(p) ==
    /\ load[p].at \notin {"Idle", "Loaded", "Rejected"}
    /\ load' = [load EXCEPT ![p] = NoLoad]
    /\ file' = IF file.writer = p THEN [file EXCEPT !.writer = NoProcess] ELSE file
    /\ UNCHANGED <<temp, env, user, edits>>

\* A session ends, and a later one may run with other variants and another environment.
EndSession(p) ==
    /\ load[p].at \in {"Loaded", "Rejected"}
    /\ load' = [load EXCEPT ![p] = NoLoad]
    /\ env' \in UserValues \cup {NoValue}
    /\ UNCHANGED <<file, temp, user, edits>>

\* Between sessions the user edits the file: assigns a value, adds a section, removes a line.
Edit ==
    /\ edits < MaxEdits
    /\ \A p \in Processes : At(p, "Idle")
    /\ file.exists
    /\ \E i \in DOMAIN file.lines :
         \/ \E v \in UserValues :
              /\ file.lines[i].kind \in {"Set", "Unset"}
              /\ file' = [file EXCEPT !.lines[i] = Assignment(@.section, @.key, v, {})]
         \/ /\ file.lines[i].kind # "Section"
            /\ file' = [file EXCEPT !.lines = RemoveAt(@, i)]
    /\ user' = [lines |-> SelectSeq(file'.lines, LAMBDA l : l.by = {}), in |-> "File"]
    /\ edits' = edits + 1
    /\ UNCHANGED <<temp, load, env>>

-----------------------------------------------------------------------------
(* Captured settings.                                                      *)

\* The input a setting has: the environment's before the file's.
Inputs(lines, id) ==
    IF env # NoValue THEN {env} ELSE {lines[i].value : i \in Found(lines, id)}

\* Input the variant's own validator refuses leaves its declared default.
Captured(v, setting, lines) ==
    LET accepted == Inputs(lines, Identity(setting)) \cap Valid[v]
    IN IF accepted = {} THEN setting.default ELSE CHOOSE x \in accepted : TRUE

-----------------------------------------------------------------------------
ConfigurationInit ==
    /\ temp = NoTemp
    /\ load = [p \in Processes |-> NoLoad]
    /\ env = NoValue
    /\ edits = 0

LoadStep(p) ==
    \/ \E s \in Sessions : Read(p, s) \/ ReadFails(p, s)
    \/ NothingMissing(p)
    \/ CreateNew(p)
    \/ CreateFails(p)
    \/ Write(p)
    \/ WriteFails(p)
    \/ Replace(p)
    \/ ReplaceFails(p)
    \/ ReplaceLoses(p)
    \/ CleanUp(p)

ConfigurationNext ==
    \/ \E p \in Processes : LoadStep(p) \/ Crash(p) \/ EndSession(p)
    \/ Edit

Loading == ConfigurationInit /\ [][ConfigurationNext]_fileVars

-----------------------------------------------------------------------------
(* What loading promises.                                                  *)

TypeOK ==
    /\ file.exists \in BOOLEAN /\ file.writer \in Processes \cup {NoProcess}
    /\ temp.exists \in BOOLEAN /\ temp.creator \in Processes \cup {NoProcess}
    /\ \A p \in Processes : load[p].at \in {"Idle", "Parsed", "Writing", "Written", "Failed", "Loaded", "Rejected"}
    /\ user.in \in {"File", "Staged", "Gone"}
    /\ edits \in 0 .. MaxEdits

\* Every line the user wrote is kept, in order and in its section, whatever loads, fails, races or
\* dies: in the file, which an update changes whole or not at all, or in the complete staged copy
\* where ReplaceFile removed the old file and failed.  Nothing is promised once that copy is deleted.
InputKept ==
    /\ TypeOK
    /\ user.in = "Staged" => temp.exists
    /\ user.lines # <<>> /\ user.in # "Gone" =>
         LET kept == IF user.in = "File" THEN file.lines ELSE temp.lines
         IN /\ SelectSeq(kept, LAMBDA l : l.by = {}) = user.lines
            /\ \A i \in DOMAIN kept : kept[i].kind = "Set" => SectionAt(kept, i) = kept[i].section

\* What storage.cpp:184 says of a failed update: it preserves the user's existing input.
InputPreserved == user.lines # <<>> => user.in # "Gone"

\* A staged file is removed or replaced only by the process that created it: neither one another
\* process is writing nor one a dead process left behind is ever touched.
StagedOwned ==
    [][temp.exists /\ temp' # temp
         => load[temp.creator].made /\ load'[temp.creator] # load[temp.creator]]_fileVars

\* A complete update leaves nothing to add: the same session loading the file again parses what
\* was generated, and writes nothing.
UpdateComplete ==
    \A p \in Processes : load[p].at = "Parsed" =>
      LET after == Updated(load[p].lines, load[p].variants)
      IN Parses(after) /\ Missing(after, load[p].variants) = {}

\* A setting nobody assigned has the declaring variant's own default, also when the variants that
\* may apply share its key with other defaults and also after a session with them generated the
\* file; and no value a variant's validator refuses is ever captured for it.
DefaultsKept ==
    \A p \in Processes : load[p].at = "Loaded" =>
      \A x \in Settings(load[p].variants) :
        LET value == Captured(x[1], Setting(x), load[p].lines)
            lines == Found(load[p].lines, Identity(Setting(x)))
        IN /\ value \in Valid[x[1]]
           /\ (env = NoValue /\ \A i \in lines : x[1] \in load[p].lines[i].by) => value = Setting(x).default
=============================================================================
