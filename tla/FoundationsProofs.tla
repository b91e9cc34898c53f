-------------------------- MODULE FoundationsProofs --------------------------
(***************************************************************************)
(* What is proved about three parts that share nothing: the staging of a   *)
(* configuration file by any number of processes, the order in which       *)
(* patches are installed whatever way the traversal takes, and the route of *)
(* a message to the Lua script it is addressed to.                         *)
(***************************************************************************)
EXTENDS Configuration, Dependencies, LuaMessages, Folding, TLAPS

-----------------------------------------------------------------------------
(* The staged file.                                                        *)

(* The processes that have created their output and not yet closed the     *)
(* matter: those that write a staged file, are to replace the old one with *)
(* it, or are to remove it.                                                *)
Staging(p) ==
    /\ load[p].made /\ ~load[p].missing
    /\ load[p].at \in {"Writing", "Written", "Failed"}

Shaped ==
    /\ DOMAIN load = Processes
    /\ \A p \in Processes : {"at", "missing", "made"} \subseteq DOMAIN load[p]
    /\ {"exists", "creator"} \subseteq DOMAIN temp

(* A process writes and replaces only what it created, and what it staged  *)
(* is there under its name until it is done.                               *)
Own(p) ==
    /\ load[p].at \in {"Writing", "Written"} => load[p].made
    /\ load[p].at = "Written" => ~load[p].missing
    /\ load[p].at \in {"Idle", "Parsed"} => ~load[p].made
    /\ Staging(p) => temp.exists /\ temp.creator = p

Staged == \A p \in Processes : Own(p)

FileInv == Shaped /\ Staged

(* The step of one process does to the staged file what only its own       *)
(* stage lets it do.                                                       *)
TempStep(p) ==
    \/ temp' = temp
    \/ ~temp.exists /\ load'[p].at = "Writing" /\ temp'.exists /\ temp'.creator = p
    \/ Staging(p) /\ load'[p] # load[p] /\ temp'.exists /\ temp'.creator = p
    \/ Staging(p) /\ load'[p] # load[p] /\ ~Staging(p)' /\ temp' = NoTemp

(* What one process does keeps the files of the others. *)
Steps(p) ==
    /\ Shaped'
    /\ \A q \in Processes \ {p} : load'[q] = load[q]
    /\ TempStep(p)
    /\ Own(p)'

LEMMA ReadSteps ==
    ASSUME NEW p \in Processes, NEW s \in Sessions, FileInv, Read(p, s) \/ ReadFails(p, s)
    PROVE  Steps(p)
<1>1. /\ temp' = temp
      /\ \/ load' = [load EXCEPT ![p] = [NoLoad EXCEPT !.at = "Rejected", !.variants = s]]
         \/ load' = [load EXCEPT ![p] = [at |-> "Parsed", variants |-> s, missing |-> ~file.exists,
                                         lines |-> file.lines, made |-> FALSE]]
    BY DEF Read, ReadFails
<1>2. /\ DOMAIN load' = Processes
      /\ \A q \in Processes \ {p} : load'[q] = load[q]
      /\ {"at", "missing", "made"} \subseteq DOMAIN load'[p]
      /\ load'[p].at \in {"Rejected", "Parsed"} /\ ~load'[p].made
    <2> DEFINE rejected == [NoLoad EXCEPT !.at = "Rejected", !.variants = s]
    <2>1. {"at", "missing", "made"} \subseteq DOMAIN rejected /\ rejected.at = "Rejected" /\ ~rejected.made
        BY DEF NoLoad
    <2> HIDE DEF rejected
    <2>2. CASE load' = [load EXCEPT ![p] = rejected]
        BY <2>1, <2>2 DEF FileInv, Shaped
    <2>3. CASE load' = [load EXCEPT ![p] = [at |-> "Parsed", variants |-> s, missing |-> ~file.exists,
                                            lines |-> file.lines, made |-> FALSE]]
        BY <2>3 DEF FileInv, Shaped
    <2> QED
        BY <1>1, <2>2, <2>3 DEF rejected
<1> QED
    BY <1>1, <1>2 DEF FileInv, Shaped, Steps, TempStep, Own, Staging

LEMMA ReturnSteps ==
    ASSUME NEW p \in Processes, FileInv, EndSession(p) \/ Crash(p)
    PROVE  Steps(p)
<1>1. temp' = temp /\ load' = [load EXCEPT ![p] = NoLoad]
    BY DEF EndSession, Crash
<1>2. /\ DOMAIN load' = Processes
      /\ \A q \in Processes \ {p} : load'[q] = load[q]
      /\ {"at", "missing", "made"} \subseteq DOMAIN load'[p]
      /\ load'[p].at = "Idle" /\ ~load'[p].made
    BY <1>1 DEF FileInv, Shaped, NoLoad
<1> QED
    BY <1>1, <1>2 DEF FileInv, Shaped, Steps, TempStep, Own, Staging

LEMMA CreateSteps ==
    ASSUME NEW p \in Processes, FileInv, CreateNew(p)
    PROVE  Steps(p)
<1>1. /\ load' = [load EXCEPT ![p].at = "Writing", ![p].made = TRUE]
      /\ IF load[p].missing THEN temp' = temp
         ELSE ~temp.exists /\ temp' = [exists |-> TRUE, lines |-> <<>>, creator |-> p]
    BY DEF CreateNew
<1>2. /\ DOMAIN load' = Processes
      /\ \A q \in Processes \ {p} : load'[q] = load[q]
      /\ {"at", "missing", "made"} \subseteq DOMAIN load'[p]
      /\ load'[p].at = "Writing" /\ load'[p].made = TRUE /\ load'[p].missing = load[p].missing
    BY <1>1 DEF FileInv, Shaped
<1>3. CASE load[p].missing
    BY <1>1, <1>2, <1>3 DEF FileInv, Shaped, Steps, TempStep, Own, Staging
<1>4. CASE ~load[p].missing
    <2>1. {"exists", "creator"} \subseteq DOMAIN temp' /\ temp'.exists /\ temp'.creator = p
        BY <1>1, <1>4
    <2> QED
        BY <1>1, <1>2, <1>4, <2>1 DEF FileInv, Shaped, Steps, TempStep, Own, Staging
<1> QED
    BY <1>3, <1>4

(* The steps that only take load_file further. *)
LEMMA Becoming ==
    ASSUME NEW p \in Processes, FileInv, NEW at, Becomes(p, at)
    PROVE  /\ DOMAIN load' = Processes
           /\ \A q \in Processes : {"at", "missing", "made"} \subseteq DOMAIN load'[q]
           /\ \A q \in Processes \ {p} : load'[q] = load[q]
           /\ load'[p].at = at /\ load'[p].made = load[p].made /\ load'[p].missing = load[p].missing
BY DEF FileInv, Shaped, Becomes

LEMMA QuietSteps ==
    ASSUME NEW p \in Processes, FileInv, NothingMissing(p) \/ CreateFails(p) \/ ReplaceFails(p) \/ ReplaceLoses(p)
    PROVE  Steps(p)
<1>1. /\ temp' = temp
      /\ \/ Becomes(p, "Loaded")
         \/ Becomes(p, "Failed") /\ load[p].at \in {"Parsed", "Written"}
    BY DEF NothingMissing, CreateFails, ReplaceFails, ReplaceLoses, At
<1>2. /\ load[p].at = "Parsed" => ~load[p].made
      /\ load[p].at = "Written" => Staging(p)
      /\ Staging(p) => temp.exists /\ temp.creator = p
    BY DEF FileInv, Staged, Own, Staging
<1> QED
    BY <1>1, <1>2, Becoming DEF FileInv, Shaped, Steps, TempStep, Own, Staging

LEMMA WriteSteps ==
    ASSUME NEW p \in Processes, FileInv, Write(p) \/ WriteFails(p)
    PROVE  Steps(p)
<1>1. /\ load[p].at = "Writing" /\ load[p].made
      /\ \E lines : Output(p, lines)
      /\ \/ Becomes(p, "Loaded") \/ Becomes(p, "Failed")
         \/ Becomes(p, "Written") /\ ~load[p].missing
    BY DEF Write, WriteFails, At, FileInv, Staged, Own
<1>2. PICK lines : Output(p, lines)
    BY <1>1
<1>3. CASE load[p].missing
    BY <1>1, <1>2, <1>3, Becoming DEF Output, FileInv, Shaped, Steps, TempStep, Own, Staging
<1>4. CASE ~load[p].missing
    <2>1. temp.exists /\ temp.creator = p /\ Staging(p)
        BY <1>1, <1>4 DEF FileInv, Staged, Own, Staging
    <2>2. /\ {"exists", "creator"} \subseteq DOMAIN temp'
          /\ temp'.exists = temp.exists /\ temp'.creator = temp.creator
        BY <1>2, <1>4 DEF Output, FileInv, Shaped
    <2>3. load'[p] # load[p]
        BY <1>1, Becoming
    <2> QED
        BY <1>1, <1>4, <2>1, <2>2, <2>3, Becoming DEF FileInv, Shaped, Steps, TempStep, Own, Staging
<1> QED
    BY <1>3, <1>4

LEMMA EndSteps ==
    ASSUME NEW p \in Processes, FileInv, Replace(p) \/ CleanUp(p)
    PROVE  Steps(p)
<1>1. /\ load[p].at \in {"Written", "Failed"}
      /\ Becomes(p, "Loaded") \/ Becomes(p, "Rejected")
      /\ temp' = temp \/ (Staging(p) /\ temp' = NoTemp)
    BY DEF Replace, CleanUp, At, FileInv, Staged, Own, Staging
<1>2. load'[p] # load[p]
    BY <1>1, Becoming
<1>3. {"exists", "creator"} \subseteq DOMAIN temp'
    BY <1>1 DEF FileInv, Shaped, NoTemp
<1> QED
    BY <1>1, <1>2, <1>3, Becoming DEF FileInv, Shaped, Steps, TempStep, Own, Staging

(* The processes that have not stepped keep their stages. *)
LEMMA OthersKeep ==
    ASSUME NEW p \in Processes, FileInv, Steps(p)
    PROVE  FileInv'
<1> SUFFICES ASSUME NEW q \in Processes \ {p} PROVE Own(q)'
    BY DEF Steps, FileInv, Staged
<1>1. load'[q] = load[q]
    BY DEF Steps
<1>2. Own(q)
    BY DEF FileInv, Staged
<1>3. Staging(q) => temp.exists /\ temp.creator = q
    BY <1>2 DEF Own
<1>4. Staging(p) => temp.creator = p
    BY DEF FileInv, Staged, Own
<1>5. Staging(q) => temp' = temp
    BY <1>3, <1>4 DEF Steps, TempStep
<1> QED
    BY <1>1, <1>2, <1>3, <1>5 DEF Own, Staging

LEMMA ProcessSteps ==
    ASSUME NEW p \in Processes, FileInv, LoadStep(p) \/ Crash(p) \/ EndSession(p)
    PROVE  Steps(p)
BY ReadSteps, ReturnSteps, CreateSteps, QuietSteps, WriteSteps, EndSteps DEF LoadStep

LEMMA EditKeeps == FileInv /\ Edit => FileInv' /\ UNCHANGED temp
<1> SUFFICES ASSUME FileInv, Edit PROVE FileInv' /\ UNCHANGED temp
    OBVIOUS
<1>1. UNCHANGED <<temp, load>>
    BY DEF Edit
<1> QED
    BY <1>1 DEF FileInv, Shaped, Staged, Own, Staging

LEMMA FileInvariance == Loading => []FileInv
<1>1. ConfigurationInit => FileInv
    BY DEF ConfigurationInit, FileInv, Shaped, Staged, Own, Staging, NoLoad, NoTemp
<1>2. FileInv /\ [ConfigurationNext]_fileVars => FileInv'
    <2>1. FileInv /\ UNCHANGED fileVars => FileInv'
        BY DEF fileVars, FileInv, Shaped, Staged, Own, Staging
    <2> QED
        BY <2>1, ProcessSteps, OthersKeep, EditKeeps DEF ConfigurationNext
<1> QED
    BY <1>1, <1>2, PTL DEF Loading

(* However two processes, the user and crashes interleave at one INI file, *)
(* a staged file is rewritten, taken or removed only by the process that   *)
(* created it and has not closed the matter yet (storage.cpp, load_file    *)
(* and update_file).                                                       *)
THEOREM StagedIsOwned == Loading => StagedOwned
<1>1. FileInv /\ [ConfigurationNext]_fileVars
        => (temp.exists /\ temp' # temp
              => load[temp.creator].made /\ load'[temp.creator] # load[temp.creator])
    <2> SUFFICES ASSUME FileInv, ConfigurationNext, temp.exists, temp' # temp
                 PROVE  load[temp.creator].made /\ load'[temp.creator] # load[temp.creator]
        BY DEF fileVars
    <2>1. PICK p \in Processes : LoadStep(p) \/ Crash(p) \/ EndSession(p)
        BY EditKeeps DEF ConfigurationNext
    <2>2. Staging(p) /\ load'[p] # load[p]
        BY <2>1, ProcessSteps DEF Steps, TempStep
    <2> QED
        BY <2>2 DEF FileInv, Staged, Own, Staging
<1> QED
    BY <1>1, FileInvariance, PTL DEF Loading, StagedOwned

-----------------------------------------------------------------------------
(* The smallest closed set.                                                *)

LEMMA GroundedWithin ==
    ASSUME NEW from, NEW given, NEW prov
    PROVE  Grounded(from, given, prov) \subseteq from
BY DEF Grounded

(* It is closed itself. *)
LEMMA GroundedCloses ==
    ASSUME NEW from, NEW given, NEW prov, NEW p \in from,
           prov[p] \subseteq Grounded(from, given, prov) \cup given
    PROVE  p \in Grounded(from, given, prov)
<1> SUFFICES ASSUME NEW T \in SUBSET from, Closed(T, from, given, prov) PROVE p \in T
    BY DEF Grounded
<1>1. Grounded(from, given, prov) \subseteq T
    BY DEF Grounded
<1>2. prov[p] \subseteq T \cup given
    BY <1>1
<1> QED  BY <1>2 DEF Closed

(* A set each member of which has a provider in it, none of them given, is *)
(* apart from every smallest closed set.                                   *)
LEMMA Circular ==
    ASSUME NEW from, NEW given, NEW prov, NEW C,
           \A c \in C : \E d \in prov[c] : d \in C /\ d \notin given
    PROVE  C \cap Grounded(from, given, prov) = {}
<1> DEFINE T == from \ C
<1>1. Closed(T, from, given, prov)
    <2> SUFFICES ASSUME NEW p \in from, prov[p] \subseteq T \cup given PROVE p \in T
        BY DEF Closed
    <2> QED  OBVIOUS
<1>2. T \in SUBSET from
    OBVIOUS
<1> QED  BY <1>1, <1>2 DEF Grounded

(* What is in it has its providers in it, or given. *)
LEMMA GroundedProviders ==
    ASSUME NEW from, NEW given, NEW prov, NEW p \in Grounded(from, given, prov)
    PROVE  prov[p] \subseteq Grounded(from, given, prov) \cup given
<1> DEFINE G == Grounded(from, given, prov)
           T == G \ {p}
<1> SUFFICES ASSUME ~(prov[p] \subseteq G \cup given) PROVE FALSE
    OBVIOUS
<1>1. G \subseteq from
    BY GroundedWithin
<1>2. Closed(T, from, given, prov)
    <2> SUFFICES ASSUME NEW x \in from, prov[x] \subseteq T \cup given PROVE x \in T
        BY DEF Closed
    <2>1. prov[x] \subseteq G \cup given
        OBVIOUS
    <2>2. x \in G
        BY <2>1, GroundedCloses
    <2>3. x # p
        BY <2>1
    <2> QED  BY <2>2, <2>3
<1>3. T \in SUBSET from
    BY <1>1
<1>4. p \in T
    BY <1>2, <1>3 DEF Grounded
<1> QED  BY <1>4

LEMMA GroundedGrows ==
    ASSUME NEW from, NEW more, from \subseteq more, NEW given, NEW prov
    PROVE  Grounded(from, given, prov) \subseteq Grounded(more, given, prov)
<1> SUFFICES ASSUME NEW p \in Grounded(from, given, prov),
                    NEW T \in SUBSET more, Closed(T, more, given, prov)
             PROVE  p \in T
    BY GroundedWithin DEF Grounded
<1> DEFINE U == T \cap from
<1>1. Closed(U, from, given, prov)
    <2> SUFFICES ASSUME NEW x \in from, prov[x] \subseteq U \cup given PROVE x \in U
        BY DEF Closed
    <2>1. prov[x] \subseteq T \cup given
        OBVIOUS
    <2>2. x \in T
        BY <2>1 DEF Closed
    <2> QED  BY <2>2
<1>2. U \in SUBSET from
    OBVIOUS
<1>3. p \in U
    BY <1>1, <1>2 DEF Grounded
<1> QED  BY <1>3

-----------------------------------------------------------------------------
(* The inductive invariant.                                                *)

Installed == With(selected, {"Installed"})
Ready == Grounded(With(selected, {"Planning"}), Installed, providers)
Sound == Grounded(With(selected, {"Planning", "Waiting"}), Installed, providers)

Open(p) == selected[p] \in {"Planning", "Waiting"}

(* What the patch of a frame has made of the providers behind it. *)
Looked(f) ==
    \A q \in providers[f.patch] \ f.todo :
        /\ Returns(q)
        /\ state[q] \in {"Disabled", "Failed"} => state[f.patch] = "Failed"
        /\ state[q] = "Waiting" => f.waiting \/ state[f.patch] = "Failed"

Waits(f) == f.waiting => \E q \in providers[f.patch] : q \in Visited /\ state[q] = "Waiting"

(* The chain: a patch nobody decided, then one of the providers it still   *)
(* has to look at, and so on.                                              *)
Chained ==
    \A i \in 1..Len(active) :
        /\ Open(active[i].patch)
        /\ active[i].todo \subseteq providers[active[i].patch]
        /\ i < Len(active) => active[i + 1].patch \in active[i].todo
        /\ Looked(active[i])
        /\ Waits(active[i])

(* Until its visit ends a patch has the state it came with, unless it is   *)
(* in the chain and failed.                                                *)
Untouched ==
    \A p \in Patches : p \notin Visited =>
        \/ state[p] = selected[p]
        \/ p \in Active /\ state[p] = "Failed"

FailedRightly == \A p \in Patches : Open(p) /\ state[p] = "Failed" => p \notin Sound

(* What a visit has decided is right. *)
Decided ==
    \A p \in Visited :
        /\ Open(p)
        /\ state[p] \in {"Planning", "Waiting", "Failed"}
        /\ state[p] = "Planning" => p \in Ready
        /\ state[p] = "Waiting" => p \in Sound /\ p \notin Ready

(* The providers of a ready patch were ready before it. *)
Ordered ==
    \A j \in 1..Len(visited) : state[visited[j]] = "Planning" =>
        \A q \in providers[visited[j]] :
            \/ state[q] = "Installed"
            \/ state[q] = "Planning" /\ \E i \in 1..Len(visited) : i < j /\ visited[i] = q

Covered == \A p \in Patches : p \in rest \/ Returns(p) \/ p \in Active

Given == \A p \in Patches : selected[p] # "Preparing"

IInv == TraversalOK /\ Given /\ Chained /\ Untouched /\ FailedRightly /\ Decided /\ Ordered /\ Covered
-----------------------------------------------------------------------------
(* The chain.                                                              *)

LEMMA Longer ==
    ASSUME NEW S, NEW s \in Seq(S), NEW x \in S
    PROVE  /\ Append(s, x) \in Seq(S)
           /\ Len(Append(s, x)) = Len(s) + 1
           /\ Append(s, x)[Len(s) + 1] = x
           /\ \A i \in 1..Len(s) : Append(s, x)[i] = s[i]
           /\ Len(s) \in Nat
OBVIOUS

LEMMA Shorter ==
    ASSUME NEW S, NEW s \in Seq(S), s # <<>>
    PROVE  /\ SubSeq(s, 1, Len(s) - 1) \in Seq(S)
           /\ Len(s) \in Nat /\ Len(s) >= 1
           /\ Len(SubSeq(s, 1, Len(s) - 1)) = Len(s) - 1
           /\ \A i \in 1..(Len(s) - 1) : SubSeq(s, 1, Len(s) - 1)[i] = s[i]
           /\ s[Len(s)] \in S
<1>1. Len(s) \in Nat /\ Len(s) >= 1
    OBVIOUS
<1> DEFINE k == Len(s) - 1
           b == SubSeq(s, 1, k)
<1>2. b = [i \in 1..k |-> s[i]] /\ k \in Nat
    BY <1>1
<1>3. \A i \in 1..k : s[i] \in S
    BY <1>1
<1>4. b \in Seq(S) /\ Len(b) = k /\ \A i \in 1..k : b[i] = s[i]
    <2> HIDE DEF b, k
    <2>1. b \in [1..k -> S]
        BY <1>2, <1>3
    <2> QED  BY <2>1, <1>2
<1>5. s[Len(s)] \in S
    BY <1>1
<1> QED  BY <1>1, <1>4, <1>5

(* The chain with another frame in the place of its last. *)
LEMMA Replaced ==
    ASSUME NEW S, NEW s \in Seq(S), s # <<>>, NEW x \in S
    PROVE  LET t == Append(SubSeq(s, 1, Len(s) - 1), x)
           IN  /\ t \in Seq(S) /\ Len(t) = Len(s) /\ t[Len(s)] = x
               /\ \A i \in 1..(Len(s) - 1) : t[i] = s[i]
<1> SUFFICES ASSUME NEW b, b = SubSeq(s, 1, Len(s) - 1)
             PROVE  LET t == Append(b, x)
                    IN  /\ t \in Seq(S) /\ Len(t) = Len(s) /\ t[Len(s)] = x
                        /\ \A i \in 1..(Len(s) - 1) : t[i] = s[i]
    OBVIOUS
<1>1. /\ b \in Seq(S) /\ Len(s) \in Nat /\ Len(s) >= 1 /\ Len(b) = Len(s) - 1
      /\ \A i \in 1..(Len(s) - 1) : b[i] = s[i]
    BY Shorter
<1>2. /\ Append(b, x) \in Seq(S) /\ Len(Append(b, x)) = Len(b) + 1
      /\ Append(b, x)[Len(b) + 1] = x
      /\ \A i \in 1..Len(b) : Append(b, x)[i] = b[i]
    BY <1>1, Longer
<1>3. Len(b) + 1 = Len(s)
    BY <1>1
<1> QED  BY <1>1, <1>2, <1>3

-----------------------------------------------------------------------------
(* Every step.                                                             *)

(* What visit() returns at once for keeps its state from then on. *)
Kept ==
    /\ UNCHANGED asChosen
    /\ Visited \subseteq Visited'
    /\ \A q \in Patches : Returns(q) => Returns(q)' /\ state'[q] = state[q]

LEMMA LookedStays ==
    ASSUME TraversalOK, Kept, NEW f \in Visits, Looked(f)
    PROVE  Looked(f)'
<1>1. providers' = providers /\ providers[f.patch] \subseteq Patches /\ f.patch \in Patches
    BY DEF TraversalOK, Kept, asChosen, Visits
<1> SUFFICES ASSUME NEW q \in providers[f.patch] \ f.todo
             PROVE  /\ Returns(q)'
                    /\ state'[q] \in {"Disabled", "Failed"} => state'[f.patch] = "Failed"
                    /\ state'[q] = "Waiting" => f.waiting \/ state'[f.patch] = "Failed"
    BY <1>1 DEF Looked
<1>2. q \in Patches /\ Returns(q)
    BY <1>1 DEF Looked
<1>3. Returns(q)' /\ state'[q] = state[q]
    BY <1>2 DEF Kept
<1>4. ASSUME state[f.patch] = "Failed" PROVE state'[f.patch] = "Failed"
    <2>1. Returns(f.patch)
        BY <1>4 DEF Returns, Settled
    <2> QED  BY <1>1, <1>4, <2>1 DEF Kept
<1> QED  BY <1>3, <1>4 DEF Looked

LEMMA WaitsStays ==
    ASSUME TraversalOK, Kept, NEW f \in Visits, Waits(f)
    PROVE  Waits(f)'
<1>1. providers' = providers /\ providers[f.patch] \subseteq Patches
    BY DEF TraversalOK, Kept, asChosen, Visits
<1> SUFFICES ASSUME f.waiting
             PROVE  \E q \in providers[f.patch] : q \in Visited' /\ state'[q] = "Waiting"
    BY <1>1 DEF Waits
<1>2. PICK q \in providers[f.patch] : q \in Visited /\ state[q] = "Waiting"
    BY DEF Waits
<1>3. Returns(q)
    BY <1>2 DEF Returns
<1>4. q \in Patches
    BY <1>1
<1> QED  BY <1>2, <1>3, <1>4 DEF Kept

LEMMA SameInput ==
    ASSUME UNCHANGED asChosen
    PROVE  /\ Ready' = Ready /\ Sound' = Sound
           /\ \A p : Open(p)' = Open(p)
BY DEF asChosen, Ready, Sound, Open, Installed, With, Grounded, Closed

(* Who is in the chain was not decided before it was. *)
LEMMA ActiveOpen ==
    ASSUME IInv, NEW p \in Active
    PROVE  p \in Patches /\ Open(p) /\ p \notin Visited /\ state[p] \in {selected[p], "Failed"}
           /\ (Returns(p) => state[p] = "Failed")
<1>1. PICK i \in 1..Len(active) : p = active[i].patch
    BY DEF Active
<1>2. active[i] \in Visits
    BY DEF IInv, TraversalOK
<1>3. p \in Patches /\ Open(p)
    BY <1>1, <1>2 DEF IInv, Chained, Visits
<1>4. p \notin Visited
    BY DEF IInv, TraversalOK
<1>5. state[p] \in {selected[p], "Failed"}
    BY <1>3, <1>4 DEF IInv, Untouched
<1> QED  BY <1>3, <1>4, <1>5 DEF Returns, Settled, Open

LEMMA DecidedStays ==
    ASSUME IInv, Kept, visited' = visited
    PROVE  Decided' /\ Ordered'
<1>1. providers' = providers /\ providers \in [Patches -> SUBSET Patches] /\ visited \in Seq(Patches)
      /\ Visited \subseteq Patches /\ Visited' = Visited
    BY DEF IInv, TraversalOK, Kept, asChosen, Visited
<1>2. Ready' = Ready /\ Sound' = Sound /\ \A p : Open(p)' = Open(p)
    BY SameInput DEF Kept
<1>3. \A p \in Visited : state'[p] = state[p]
    BY <1>1 DEF Kept, Returns
<1>4. Decided'
    <2> SUFFICES ASSUME NEW p \in Visited
                 PROVE  /\ Open(p)'
                        /\ state'[p] \in {"Planning", "Waiting", "Failed"}
                        /\ state'[p] = "Planning" => p \in Ready'
                        /\ state'[p] = "Waiting" => p \in Sound' /\ p \notin Ready'
        BY <1>1 DEF Decided
    <2>1. /\ Open(p)
          /\ state[p] \in {"Planning", "Waiting", "Failed"}
          /\ state[p] = "Planning" => p \in Ready
          /\ state[p] = "Waiting" => p \in Sound /\ p \notin Ready
        BY DEF IInv, Decided
    <2> QED  BY <2>1, <1>2, <1>3
<1>5. Ordered'
    <2> SUFFICES ASSUME NEW j \in 1..Len(visited), state'[visited[j]] = "Planning",
                        NEW q \in providers[visited[j]]
                 PROVE  \/ state'[q] = "Installed"
                        \/ state'[q] = "Planning" /\ \E i \in 1..Len(visited) : i < j /\ visited[i] = q
        BY <1>1 DEF Ordered
    <2>1. visited[j] \in Visited /\ visited[j] \in Patches
        BY <1>1 DEF Visited
    <2>2. q \in Patches /\ state[visited[j]] = "Planning"
        BY <2>1, <1>1, <1>3
    <2>3. CASE state[q] = "Installed"
        <3>1. Returns(q)
            BY <2>3 DEF Returns, Settled
        <3> QED  BY <2>2, <2>3, <3>1 DEF Kept
    <2>4. CASE state[q] # "Installed"
        <3>1. state[q] = "Planning" /\ \E i \in 1..Len(visited) : i < j /\ visited[i] = q
            BY <2>2, <2>4 DEF IInv, Ordered
        <3>2. q \in Visited
            BY <3>1 DEF Visited
        <3> QED  BY <3>1, <3>2, <1>3
    <2> QED  BY <2>3, <2>4
<1> QED  BY <1>4, <1>5

LEMMA CoveredStays ==
    ASSUME Covered, Kept, rest' = rest, Active \subseteq Active'
    PROVE  Covered'
BY DEF Covered, Kept

(* Of the states of patches, only that of one in the chain changes, and    *)
(* then it fails.                                                          *)
LEMMA UntouchedStays ==
    ASSUME IInv, UNCHANGED asChosen, visited' = visited, Active \subseteq Active',
           \A p \in Patches : state'[p] = state[p] \/ (p \in Active /\ state'[p] = "Failed")
    PROVE  Untouched'
<1>1. selected' = selected /\ Visited' = Visited
    BY DEF asChosen, Visited
<1> SUFFICES ASSUME NEW p \in Patches, p \notin Visited
             PROVE  state'[p] = selected[p] \/ (p \in Active' /\ state'[p] = "Failed")
    BY <1>1 DEF Untouched
<1> QED  BY DEF IInv, Untouched

LEMMA FreshFrame ==
    ASSUME IInv, NEW p \in Patches, ~Returns(p), p \notin Active
    PROVE  /\ Open(p) /\ p \notin Visited
           /\ Frame(p) \in Visits /\ Frame(p).patch = p /\ Frame(p).todo = providers[p]
           /\ Looked(Frame(p)) /\ Waits(Frame(p))
<1>1. state[p] = selected[p] /\ p \notin Visited /\ state[p] \notin Settled
    BY DEF IInv, Untouched, Returns
<1>2. selected[p] \in PatchStates \ {"Preparing"}
    BY DEF IInv, TraversalOK, Given
<1>3. Open(p)
    BY <1>1, <1>2 DEF Open, PatchStates, Settled
<1>4. providers[p] \subseteq Patches
    BY DEF IInv, TraversalOK
<1>5. Frame(p) \in Visits /\ Frame(p).patch = p /\ Frame(p).todo = providers[p] /\ ~Frame(p).waiting
    BY <1>4 DEF Frame, Visits
<1> QED  BY <1>1, <1>3, <1>5 DEF Looked, Waits

(* Chained, of a frame. *)
Link(f) == Open(f.patch) /\ f.todo \subseteq providers[f.patch] /\ Looked(f) /\ Waits(f)

LEMMA ChainedByLinks ==
    Chained <=> \A i \in 1..Len(active) :
                    Link(active[i]) /\ (i < Len(active) => active[i + 1].patch \in active[i].todo)
BY DEF Chained, Link

LEMMA LinkStays ==
    ASSUME TraversalOK, Kept, NEW f \in Visits, Link(f)
    PROVE  Link(f)'
<1>1. Looked(f)' /\ Waits(f)'
    BY LookedStays, WaitsStays DEF Link
<1>2. providers' = providers /\ Open(f.patch)' = Open(f.patch)
    BY DEF Kept, asChosen, Open
<1> QED  BY <1>1, <1>2 DEF Link

(* A chain of links is chained, said of the frames as values. *)
LEMMA ChainedNext ==
    ASSUME active' \in Seq(Visits),
           \A i \in 1..Len(active') : \A f \in Visits : f = active'[i] => Link(f)',
           \A i \in 1..Len(active') : i < Len(active') => active'[i + 1].patch \in active'[i].todo
    PROVE  Chained'
<1>1. ASSUME NEW i \in 1..Len(active') PROVE Link(active[i])'
    <2> SUFFICES ASSUME NEW f \in Visits, f = active'[i] PROVE Link(active[i])'
        OBVIOUS
    <2>1. Link(f)'
        OBVIOUS
    <2> QED  BY <2>1 DEF Link, Open, Looked, Waits, Returns
<1>2. (\A i \in 1..Len(active) :
          Link(active[i]) /\ (i < Len(active) => active[i + 1].patch \in active[i].todo))'
    BY <1>1
<1> QED  BY <1>2, ChainedByLinks, PTL

-----------------------------------------------------------------------------
LEMMA BeginKeeps ==
    ASSUME IInv, NEW p \in Patches, Begin(p)
    PROVE  IInv'
<1>1. /\ active = <<>> /\ p \in rest /\ rest' = rest \ {p}
      /\ selected' = selected /\ providers' = providers /\ state' = state /\ visited' = visited
      /\ Visited' = Visited
    BY DEF Begin, asChosen, Visited
<1>2. Kept
    BY <1>1 DEF Kept, asChosen, Returns
<1>3. Active = {}
    BY <1>1 DEF Active
<1>4. Decided' /\ Ordered'
    BY <1>1, <1>2, DecidedStays
<1>5. Untouched'
    BY <1>1, <1>3, UntouchedStays DEF asChosen
<1>6. FailedRightly'
    BY <1>1, SameInput DEF IInv, FailedRightly, asChosen
<1>7. Given'
    BY <1>1 DEF IInv, Given
<1>8. CASE Returns(p)
    <2>1. active' = <<>> /\ Active' = {}
        BY <1>8, <1>1 DEF Begin, Active
    <2>2. TraversalOK'
        BY <2>1, <1>1 DEF IInv, TraversalOK
    <2>3. Chained'
        BY <2>1 DEF Chained
    <2>4. Covered'
        BY <1>1, <1>2, <1>3, <1>8 DEF IInv, Covered, Kept
    <2> QED  BY <2>2, <2>3, <2>4, <1>4, <1>5, <1>6, <1>7 DEF IInv
<1>9. CASE ~Returns(p)
    <2>1. active' = <<Frame(p)>>
        BY <1>9 DEF Begin
    <2>2. /\ Open(p) /\ p \notin Visited
          /\ Frame(p) \in Visits /\ Frame(p).patch = p /\ Frame(p).todo = providers[p]
          /\ Looked(Frame(p)) /\ Waits(Frame(p))
        BY <1>9, <1>3, FreshFrame
    <2>3. active' \in Seq(Visits) /\ Len(active') = 1 /\ active'[1] = Frame(p)
        BY <2>1, <2>2
    <2>4. Active' = {p}
        BY <2>3, <2>2 DEF Active
    <2>5. TraversalOK'
        <3>1. \A i, j \in 1..Len(active') : active'[i].patch = active'[j].patch => i = j
            BY <2>3
        <3> QED  BY <2>2, <2>3, <2>4, <3>1, <1>1 DEF IInv, TraversalOK
    <2>6. Chained'
        <3> SUFFICES ASSUME NEW f \in Visits, f = Frame(p) PROVE Link(f)'
            BY <2>3, ChainedNext
        <3>1. Link(f)
            BY <2>2 DEF Link
        <3> QED  BY <3>1, <1>2, LinkStays DEF IInv
    <2>7. Covered'
        BY <1>1, <1>2, <1>3, <2>4 DEF IInv, Covered, Kept
    <2> QED  BY <2>5, <2>6, <2>7, <1>4, <1>5, <1>6, <1>7 DEF IInv
<1> QED  BY <1>8, <1>9

(* The frames of a chain that stay, stay links of it. *)
LEMMA OldLinks ==
    ASSUME IInv, Kept, NEW i \in 1..Len(active)
    PROVE  \A f \in Visits : f = active[i] => Link(f)'
<1> SUFFICES ASSUME NEW f \in Visits, f = active[i] PROVE Link(f)'
    OBVIOUS
<1>1. Link(f)
    BY ChainedByLinks DEF IInv
<1> QED  BY <1>1, LinkStays DEF IInv

(* A turn of the loop is one of the frame on top. *)
LEMMA AtTop ==
    ASSUME IInv, NEW q, Turn(q)
    PROVE  /\ active # <<>> /\ active \in Seq(Visits) /\ Len(active) \in Nat /\ Len(active) >= 1
           /\ Len(active) \in 1..Len(active)
           /\ Top \in Visits /\ Top = active[Len(active)] /\ Top.patch \in Active /\ Link(Top)
           /\ q \in Top.todo /\ q \in providers[Top.patch] /\ q \in Patches
<1>1. /\ active # <<>> /\ active \in Seq(Visits) /\ Top = active[Len(active)] /\ q \in Top.todo
    BY DEF Turn, Top, IInv, TraversalOK
<1>2. Len(active) \in Nat /\ Len(active) >= 1 /\ Top \in Visits
    BY <1>1, Shorter
<1>3. Len(active) \in 1..Len(active)
    BY <1>2
<1>4. Top.patch \in Active
    BY <1>1, <1>3 DEF Active
<1>5. Link(Top)
    BY <1>1, <1>3, ChainedByLinks DEF IInv
<1>6. q \in providers[Top.patch] /\ q \in Patches
    BY <1>1, <1>2, <1>5 DEF Link, Visits
<1> QED  BY <1>1, <1>2, <1>3, <1>4, <1>5, <1>6

LEMMA EnterKeeps ==
    ASSUME IInv, NEW q \in Patches, Enter(q)
    PROVE  IInv'
<1> DEFINE n == Len(active)
<1>1. /\ active # <<>> /\ active \in Seq(Visits) /\ n \in Nat /\ n >= 1
      /\ Top = active[n] /\ q \in Top.todo
    BY AtTop DEF Enter
<1>2. /\ active' = Append(active, Frame(q))
      /\ selected' = selected /\ providers' = providers /\ state' = state /\ visited' = visited /\ rest' = rest
      /\ Visited' = Visited /\ ~Returns(q) /\ q \notin Active
    BY DEF Enter, asChosen, Visited
<1>3. /\ Open(q) /\ q \notin Visited
      /\ Frame(q) \in Visits /\ Frame(q).patch = q /\ Frame(q).todo = providers[q]
      /\ Looked(Frame(q)) /\ Waits(Frame(q))
    BY <1>2, FreshFrame
<1>4. Kept
    BY <1>2 DEF Kept, asChosen, Returns
<1>5. /\ active' \in Seq(Visits) /\ Len(active') = n + 1 /\ active'[n + 1] = Frame(q)
      /\ \A i \in 1..n : active'[i] = active[i]
    BY <1>1, <1>2, <1>3, Longer
<1> HIDE DEF n
<1>6. Active' = Active \cup {q}
    <2>1. Active' = {active'[i].patch : i \in 1..(n + 1)}
        BY <1>5 DEF Active
    <2>2. Active = {active[i].patch : i \in 1..n}
        BY DEF Active, n
    <2>3. \A i \in 1..n : active'[i].patch = active[i].patch
        BY <1>5
    <2>4. active'[n + 1].patch = q
        BY <1>3, <1>5
    <2>5. 1..(n + 1) = 1..n \cup {n + 1}
        BY <1>1
    <2> QED  BY <2>1, <2>2, <2>3, <2>4, <2>5
<1>7. TraversalOK'
    <2>1. \A i, j \in 1..Len(active') : active'[i].patch = active'[j].patch => i = j
        <3> SUFFICES ASSUME NEW i \in 1..(n + 1), NEW j \in 1..(n + 1), active'[i].patch = active'[j].patch
                     PROVE  i = j
            BY <1>5
        <3>1. \A k \in 1..n : active[k].patch # q
            BY <1>2 DEF Active, n
        <3>2. \A k, l \in 1..n : active[k].patch = active[l].patch => k = l
            BY DEF IInv, TraversalOK, n
        <3>3. ASSUME NEW k \in 1..(n + 1) PROVE k \in 1..n \/ k = n + 1
            BY <1>1
        <3> QED  BY <3>1, <3>2, <3>3, <1>3, <1>5
    <2>2. (Active \cap Visited = {})'
        BY <1>2, <1>3, <1>6 DEF IInv, TraversalOK
    <2> QED  BY <2>1, <2>2, <1>2, <1>5 DEF IInv, TraversalOK
<1>8. Chained'
    <2>1. ASSUME NEW i \in 1..Len(active'), NEW f \in Visits, f = active'[i] PROVE Link(f)'
        <3>1. CASE i \in 1..n
            <4>1. f = active[i]
                BY <3>1, <2>1, <1>5
            <4> QED  BY <4>1, <3>1, <1>4, OldLinks DEF n
        <3>2. CASE i = n + 1
            <4>1. f = Frame(q)
                BY <3>2, <2>1, <1>5
            <4>2. Link(f)
                BY <4>1, <1>3 DEF Link
            <4> QED  BY <4>2, <1>4, LinkStays DEF IInv
        <3>3. i \in 1..n \/ i = n + 1
            BY <1>1, <1>5
        <3> QED  BY <3>1, <3>2, <3>3
    <2>2. ASSUME NEW i \in 1..Len(active'), i < Len(active') PROVE active'[i + 1].patch \in active'[i].todo
        <3>1. i \in 1..n
            BY <2>2, <1>1, <1>5
        <3>2. CASE i = n
            BY <3>2, <1>1, <1>3, <1>5
        <3>3. CASE i # n
            <4>1. i < n /\ i + 1 \in 1..n
                BY <3>1, <3>3, <1>1
            <4>2. active[i + 1].patch \in active[i].todo
                BY <4>1, <3>1 DEF IInv, Chained, n
            <4> QED  BY <4>1, <4>2, <3>1, <1>5
        <3> QED  BY <3>2, <3>3
    <2> QED  BY <2>1, <2>2, <1>5, ChainedNext
<1>9. Decided' /\ Ordered'
    BY <1>2, <1>4, DecidedStays
<1>10. Untouched'
    BY <1>2, <1>6, UntouchedStays DEF asChosen
<1>11. FailedRightly' /\ Given'
    BY <1>2, SameInput DEF IInv, FailedRightly, Given, asChosen
<1>12. Covered'
    BY <1>2, <1>4, <1>6, CoveredStays DEF IInv
<1> QED  BY <1>7, <1>8, <1>9, <1>10, <1>11, <1>12 DEF IInv

(* The patches of a cycle of providers are not sound. *)
LEMMA CycleFails ==
    ASSUME IInv, NEW q, Turn(q)
    PROVE  Cycle(q) \subseteq Active /\ Cycle(q) \cap Sound = {}
<1> DEFINE n == Len(active)
<1>1. /\ n \in Nat /\ n >= 1 /\ n \in 1..n /\ Top = active[n] /\ q \in providers[Top.patch]
    BY AtTop
<1>2. Cycle(q) \subseteq Active
    BY DEF Cycle, Active
<1>3. ASSUME NEW c \in Cycle(q) PROVE \E d \in providers[c] : d \in Cycle(q) /\ d \notin Installed
    <2>1. PICK i \in 1..n : c = active[i].patch /\ \E k \in 1..i : active[k].patch = q
        BY <1>3 DEF Cycle
    <2>2. PICK k \in 1..i : active[k].patch = q
        BY <2>1
    <2>3. \A d \in Active : d \notin Installed
        BY ActiveOpen DEF Installed, With, Open
    <2>4. CASE i = n
        <3>1. k \in 1..n /\ k \in 1..k
            BY <2>2, <1>1
        <3>2. q \in Cycle(q)
            BY <3>1, <2>2 DEF Cycle
        <3> QED  BY <3>2, <2>4, <2>1, <2>3, <1>1, <1>2
    <2>5. CASE i # n
        <3>1. i < n /\ i + 1 \in 1..n /\ k \in 1..(i + 1)
            BY <2>5, <1>1
        <3>2. active[i + 1].patch \in providers[c]
            BY <3>1, <2>1 DEF IInv, Chained
        <3>3. active[i + 1].patch \in Cycle(q)
            BY <3>1, <2>2 DEF Cycle
        <3> QED  BY <3>2, <3>3, <2>3, <1>2
    <2> QED  BY <2>4, <2>5
<1> QED  BY <1>2, <1>3, Circular DEF Sound

LEMMA CloseCycleKeeps ==
    ASSUME IInv, NEW q \in Patches, CloseCycle(q)
    PROVE  IInv'
<1>1. /\ active' = active /\ selected' = selected /\ providers' = providers /\ visited' = visited /\ rest' = rest
      /\ Visited' = Visited /\ Active' = Active /\ UNCHANGED asChosen
      /\ state' = [p \in Patches |-> IF p \in Cycle(q) THEN "Failed" ELSE state[p]]
    BY DEF CloseCycle, asChosen, Visited, Active
<1>2. Cycle(q) \subseteq Active /\ Cycle(q) \cap Sound = {}
    BY CycleFails DEF CloseCycle
<1>3. Kept
    <2> SUFFICES ASSUME NEW r \in Patches, Returns(r) PROVE Returns(r)' /\ state'[r] = state[r]
        BY <1>1 DEF Kept
    <2>1. state'[r] = state[r]
        <3>1. CASE r \in Cycle(q)
            <4>1. state[r] = "Failed"
                BY <3>1, <1>2, ActiveOpen
            <4> QED  BY <4>1, <3>1, <1>1
        <3> QED  BY <3>1, <1>1
    <2> QED  BY <2>1, <1>1 DEF Returns
<1>4. TraversalOK'
    <2>1. state' \in [Patches -> PatchStates]
        <3>1. \A p \in Patches : state[p] \in PatchStates
            BY DEF IInv, TraversalOK
        <3> QED  BY <1>1, <3>1 DEF PatchStates
    <2> QED  BY <2>1, <1>1 DEF IInv, TraversalOK
<1>5. Chained'
    <2>1. active' \in Seq(Visits)
        BY <1>1 DEF IInv, TraversalOK
    <2>2. \A i \in 1..Len(active') : \A f \in Visits : f = active'[i] => Link(f)'
        BY <1>1, <1>3, OldLinks
    <2>3. \A i \in 1..Len(active') : i < Len(active') => active'[i + 1].patch \in active'[i].todo
        BY <1>1 DEF IInv, Chained
    <2> QED  BY <2>1, <2>2, <2>3, ChainedNext
<1>6. Decided' /\ Ordered'
    BY <1>1, <1>3, DecidedStays
<1>7. Untouched'
    BY <1>1, <1>2, UntouchedStays
<1>8. FailedRightly' /\ Given'
    <2>1. Sound' = Sound /\ \A p : Open(p)' = Open(p)
        BY <1>1, SameInput
    <2>2. FailedRightly'
        BY <2>1, <1>1, <1>2 DEF IInv, FailedRightly
    <2> QED  BY <2>2, <1>1 DEF IInv, Given
<1>9. Covered'
    BY <1>1, <1>3, CoveredStays DEF IInv
<1> QED  BY <1>4, <1>5, <1>6, <1>7, <1>8, <1>9 DEF IInv

LEMMA SoundIsOpen == Sound \subseteq {p \in DOMAIN selected : Open(p)}
BY GroundedWithin DEF Sound, With, Open

LEMMA ReadyIsSound == Ready \subseteq Sound
<1>1. With(selected, {"Planning"}) \subseteq With(selected, {"Planning", "Waiting"})
    BY DEF With
<1> QED  BY <1>1, GroundedGrows DEF Ready, Sound

(* Nobody depends on a provider that is disabled or has failed, and is     *)
(* sound.                                                                  *)
LEMMA BadProvider ==
    ASSUME IInv, NEW q \in Patches, state[q] \in {"Disabled", "Failed"}
    PROVE  q \notin Sound /\ q \notin Installed
<1>1. CASE Open(q)
    <2>1. state[q] = "Failed"
        <3>1. CASE q \in Visited
            BY <3>1 DEF IInv, Decided
        <3>2. CASE q \notin Visited
            BY <3>2, <1>1 DEF IInv, Untouched, Open
        <3> QED  BY <3>1, <3>2
    <2> QED  BY <2>1, <1>1 DEF IInv, FailedRightly, Installed, With, Open
<1>2. CASE ~Open(q)
    <2>1. q \notin Visited /\ q \notin Active
        BY <1>2, ActiveOpen DEF IInv, Decided
    <2>2. state[q] = selected[q]
        BY <2>1 DEF IInv, Untouched
    <2> QED  BY <1>2, <2>2, SoundIsOpen DEF Installed, With
<1> QED  BY <1>1, <1>2

LEMMA LookKeeps ==
    ASSUME IInv, NEW q \in Patches, Look(q)
    PROVE  IInv'
<1> DEFINE n == Len(active)
           t == Top.patch
           f1 == [Top EXCEPT !.todo = @ \ {q}, !.waiting = @ \/ Delays(q)]
           bad == state[q] \in {"Disabled", "Failed"}
<1>1. /\ active # <<>> /\ active \in Seq(Visits) /\ n \in Nat /\ n >= 1 /\ n \in 1..n
      /\ Top \in Visits /\ Top = active[n] /\ t \in Active /\ Link(Top)
      /\ q \in Top.todo /\ q \in providers[t] /\ q \in Patches
    BY AtTop DEF Look
<1>2. /\ selected' = selected /\ providers' = providers /\ visited' = visited /\ rest' = rest
      /\ Visited' = Visited /\ UNCHANGED asChosen /\ Returns(q)
      /\ state' = (IF bad THEN [state EXCEPT ![t] = "Failed"] ELSE state)
      /\ active' = Append(SubSeq(active, 1, n - 1), f1)
    BY DEF Look, asChosen, Visited, Below
<1>3. /\ f1 \in Visits /\ f1.patch = t /\ f1.todo = Top.todo \ {q}
      /\ f1.waiting = (Top.waiting \/ Delays(q))
    <2>1. /\ Top = [patch |-> t, todo |-> Top.todo, waiting |-> Top.waiting]
          /\ t \in Patches /\ Top.todo \in SUBSET Patches /\ Top.waiting \in BOOLEAN
        BY <1>1 DEF Visits
    <2>2. f1 = [patch |-> t, todo |-> Top.todo \ {q}, waiting |-> Top.waiting \/ Delays(q)]
        <3> SUFFICES ASSUME NEW h \in Visits, h = Top
                     PROVE  f1 = [patch |-> h.patch, todo |-> h.todo \ {q}, waiting |-> h.waiting \/ Delays(q)]
            BY <1>1
        <3>1. f1 = [h EXCEPT !.todo = h.todo \ {q}, !.waiting = h.waiting \/ Delays(q)]
            OBVIOUS
        <3> HIDE DEF f1
        <3> QED  BY <3>1 DEF Visits
    <2>3. Top.waiting \/ Delays(q) \in BOOLEAN
        BY DEF Delays
    <2> HIDE DEF f1
    <2> QED  BY <2>1, <2>2, <2>3 DEF Visits
<1>4. /\ active' \in Seq(Visits) /\ Len(active') = n /\ active'[n] = f1
      /\ \A i \in 1..(n - 1) : active'[i] = active[i]
    <2> HIDE DEF f1
    <2> SUFFICES ASSUME NEW a \in Seq(Visits), a = active, a # <<>>, NEW x \in Visits, x = f1
                 PROVE  LET u == Append(SubSeq(a, 1, Len(a) - 1), x)
                        IN  /\ u \in Seq(Visits) /\ Len(u) = Len(a) /\ u[Len(a)] = x
                            /\ \A i \in 1..(Len(a) - 1) : u[i] = a[i]
        BY <1>1, <1>2, <1>3
    <2> QED  BY Replaced
<1>5. t \in Patches /\ Open(t) /\ t \notin Visited /\ (Returns(t) => state[t] = "Failed")
    BY <1>1, ActiveOpen
<1> HIDE DEF n, t, f1, bad
<1>6. \A p \in Patches : state'[p] = state[p] \/ (p = t /\ bad /\ state'[p] = "Failed")
    <2>1. state \in [Patches -> PatchStates]
        BY DEF IInv, TraversalOK
    <2> QED  BY <2>1, <1>2
<1>7. Kept
    <2> SUFFICES ASSUME NEW r \in Patches, Returns(r) PROVE Returns(r)' /\ state'[r] = state[r]
        BY <1>2 DEF Kept
    <2>1. state'[r] = state[r]
        BY <1>5, <1>6
    <2> QED  BY <2>1, <1>2 DEF Returns
<1>8. Active' = Active
    <2>1. Active' = {active'[i].patch : i \in 1..n}
        BY <1>4 DEF Active
    <2>2. Active = {active[i].patch : i \in 1..n}
        BY DEF Active, n
    <2>3. \A i \in 1..n : active'[i].patch = active[i].patch
        <3> SUFFICES ASSUME NEW i \in 1..n PROVE active'[i].patch = active[i].patch
            OBVIOUS
        <3>1. CASE i = n
            BY <3>1, <1>1, <1>3, <1>4 DEF t
        <3>2. CASE i # n
            <4>1. i \in 1..(n - 1)
                BY <3>2, <1>1
            <4> QED  BY <4>1, <1>4
        <3> QED  BY <3>1, <3>2
    <2> QED  BY <2>1, <2>2, <2>3
<1>9. TraversalOK'
    <2>1. state' \in [Patches -> PatchStates]
        <3>1. state \in [Patches -> PatchStates]
            BY DEF IInv, TraversalOK
        <3> QED  BY <3>1, <1>2 DEF PatchStates
    <2>2. \A i \in 1..n : active'[i].patch = active[i].patch
        <3> SUFFICES ASSUME NEW i \in 1..n PROVE active'[i].patch = active[i].patch
            OBVIOUS
        <3>1. CASE i = n
            BY <3>1, <1>1, <1>3, <1>4 DEF t
        <3>2. CASE i # n
            <4>1. i \in 1..(n - 1)
                BY <3>2, <1>1
            <4> QED  BY <4>1, <1>4
        <3> QED  BY <3>1, <3>2
    <2>3. \A i, j \in 1..Len(active') : active'[i].patch = active'[j].patch => i = j
        <3>1. \A i, j \in 1..n : active[i].patch = active[j].patch => i = j
            BY DEF IInv, TraversalOK, n
        <3> QED  BY <3>1, <2>2, <1>4
    <2>4. (Active \cap Visited = {})'
        BY <1>2, <1>8 DEF IInv, TraversalOK
    <2> QED  BY <2>1, <2>3, <2>4, <1>2, <1>4 DEF IInv, TraversalOK
<1>10. \A f \in Visits : f = f1 => Link(f)'
    <2> SUFFICES ASSUME NEW f \in Visits, f = f1 PROVE Link(f)'
        OBVIOUS
    <2>1. f.patch = t /\ f.todo = Top.todo \ {q} /\ f.waiting = (Top.waiting \/ Delays(q))
        BY <1>3
    <2>2. Open(f.patch)' /\ f.todo \subseteq providers'[f.patch]
        BY <2>1, <1>1, <1>2, <1>5 DEF Link, Open, t
    <2>3. \A h \in Visits : h = Top => Looked(h)' /\ Waits(h)'
        BY <1>1, <1>7, LookedStays, WaitsStays DEF IInv, Link
    <2>4. Looked(f)'
        <3> SUFFICES ASSUME NEW x \in providers[t] \ f.todo
                     PROVE  /\ Returns(x)'
                            /\ state'[x] \in {"Disabled", "Failed"} => state'[t] = "Failed"
                            /\ state'[x] = "Waiting" => f.waiting \/ state'[t] = "Failed"
            BY <2>1, <1>2 DEF Looked
        <3>1. CASE x = q
            <4>1. Returns(q)' /\ state'[q] = state[q]
                BY <1>1, <1>2, <1>7 DEF Kept
            <4>2. state[q] \in {"Disabled", "Failed"} => state'[t] = "Failed"
                BY <1>2, <1>5 DEF bad, IInv, TraversalOK
            <4>3. ASSUME state[q] = "Waiting" PROVE f.waiting \/ state'[t] = "Failed"
                <5>1. state' = state
                    BY <4>3, <1>2 DEF bad
                <5> QED  BY <4>3, <5>1, <2>1 DEF Delays, t
            <4> QED  BY <3>1, <4>1, <4>2, <4>3
        <3>2. CASE x # q
            <4> SUFFICES ASSUME NEW h \in Visits, h = Top PROVE
                    /\ Returns(x)'
                    /\ state'[x] \in {"Disabled", "Failed"} => state'[t] = "Failed"
                    /\ state'[x] = "Waiting" => f.waiting \/ state'[t] = "Failed"
                BY <1>1
            <4>1. Looked(h)' /\ h.patch = t /\ x \in providers'[h.patch] \ h.todo
                BY <2>3, <3>2, <2>1, <1>2 DEF t
            <4> QED  BY <4>1, <2>1 DEF Looked
        <3> QED  BY <3>1, <3>2
    <2>5. Waits(f)'
        <3> SUFFICES ASSUME f.waiting
                     PROVE  \E x \in providers[t] : x \in Visited' /\ state'[x] = "Waiting"
            BY <2>1, <1>2 DEF Waits
        <3>1. CASE Top.waiting
            <4> SUFFICES ASSUME NEW h \in Visits, h = Top
                         PROVE  \E x \in providers[t] : x \in Visited' /\ state'[x] = "Waiting"
                BY <1>1
            <4>1. Waits(h)' /\ h.waiting /\ h.patch = t
                BY <2>3, <3>1 DEF t
            <4> QED  BY <4>1, <1>2 DEF Waits
        <3>2. CASE Delays(q)
            <4>1. state[q] = "Waiting" /\ q \in Visited
                BY <3>2, <1>2 DEF Delays, Returns, Settled
            <4> QED  BY <4>1, <1>1, <1>2, <1>7 DEF Kept
        <3> QED  BY <3>1, <3>2, <2>1
    <2> QED  BY <2>2, <2>4, <2>5 DEF Link
<1>11. Chained'
    <2>1. ASSUME NEW i \in 1..Len(active'), NEW f \in Visits, f = active'[i] PROVE Link(f)'
        <3>1. CASE i = n
            <4>1. f = f1
                BY <3>1, <2>1, <1>4
            <4> QED  BY <4>1, <1>10
        <3>2. CASE i # n
            <4>1. i \in 1..(n - 1) /\ i \in 1..Len(active)
                BY <3>2, <1>1, <1>4 DEF n
            <4>2. f = active[i]
                BY <4>1, <2>1, <1>4
            <4> QED  BY <4>1, <4>2, <1>7, OldLinks
        <3> QED  BY <3>1, <3>2
    <2>2. ASSUME NEW i \in 1..Len(active'), i < Len(active') PROVE active'[i + 1].patch \in active'[i].todo
        <3>1. i \in 1..(n - 1) /\ i \in 1..n /\ i + 1 \in 1..n
            BY <2>2, <1>1, <1>4
        <3>2. active[i + 1].patch \in active[i].todo
            BY <3>1, <1>1 DEF IInv, Chained, n
        <3>3. active'[i + 1].patch = active[i + 1].patch
            <4>1. CASE i + 1 = n
                BY <4>1, <1>1, <1>3, <1>4 DEF t
            <4>2. CASE i + 1 # n
                <5>1. i + 1 \in 1..(n - 1)
                    BY <4>2, <3>1, <1>1
                <5> QED  BY <5>1, <1>4
            <4> QED  BY <4>1, <4>2
        <3> QED  BY <3>1, <3>2, <3>3, <1>4
    <2> QED  BY <2>1, <2>2, <1>4, ChainedNext
<1>12. Decided' /\ Ordered'
    BY <1>2, <1>7, DecidedStays
<1>13. Untouched'
    BY <1>1, <1>2, <1>6, <1>8, UntouchedStays
<1>14. FailedRightly' /\ Given'
    <2>1. Sound' = Sound /\ \A p : Open(p)' = Open(p)
        BY <1>2, SameInput
    <2>2. ASSUME bad PROVE t \notin Sound
        <3>1. q \notin Sound /\ q \notin Installed
            BY <2>2, <1>1, BadProvider DEF bad
        <3> QED  BY <3>1, <1>1, GroundedProviders DEF Sound
    <2>3. FailedRightly'
        BY <2>1, <2>2, <1>6 DEF IInv, FailedRightly
    <2> QED  BY <2>3, <1>2 DEF IInv, Given
<1>15. Covered'
    BY <1>2, <1>7, <1>8, CoveredStays DEF IInv
<1> QED  BY <1>9, <1>11, <1>12, <1>13, <1>14, <1>15 DEF IInv

(* What a visit gives the patch it ends with is right. *)
LEMMA LeaveDecides ==
    ASSUME IInv, Leave
    PROVE  /\ Top.patch \in Patches /\ Open(Top.patch) /\ Top.patch \notin Visited
           /\ state[Top.patch] = "Failed" => state'[Top.patch] = "Failed" /\ Top.patch \notin Sound
           /\ state'[Top.patch] \in {"Planning", "Waiting", "Failed"}
           /\ state'[Top.patch] = "Failed" => state[Top.patch] = "Failed"
           /\ state'[Top.patch] = "Waiting" => Top.patch \in Sound /\ Top.patch \notin Ready
           /\ state'[Top.patch] = "Planning" =>
                /\ Top.patch \in Ready
                /\ \A q \in providers[Top.patch] : state[q] = "Installed" \/ (state[q] = "Planning" /\ q \in Visited)
<1> DEFINE t == Top.patch
<1>1. /\ active # <<>> /\ Top.todo = {}
      /\ state' = (IF Top.waiting /\ state[t] # "Failed" THEN [state EXCEPT ![t] = "Waiting"] ELSE state)
    BY DEF Leave
<1>2. Top \in Visits /\ t \in Active /\ Link(Top)
    <2>1. active \in Seq(Visits)
        BY DEF IInv, TraversalOK
    <2>2. Len(active) \in 1..Len(active) /\ Top \in Visits
        BY <2>1, <1>1, Shorter DEF Top
    <2>3. t \in Active
        BY <2>2 DEF Active, Top
    <2> QED  BY <2>2, <2>3, ChainedByLinks DEF IInv, Top
<1>3. t \in Patches /\ Open(t) /\ t \notin Visited /\ state[t] \in {selected[t], "Failed"}
    BY <1>2, ActiveOpen
<1>4. providers[t] \subseteq Patches /\ state \in [Patches -> PatchStates]
    BY <1>3 DEF IInv, TraversalOK
<1>5. \A q \in providers[t] :
        /\ Returns(q)
        /\ state[q] \in {"Disabled", "Failed"} => state[t] = "Failed"
        /\ state[q] = "Waiting" => Top.waiting \/ state[t] = "Failed"
    BY <1>1, <1>2 DEF Link, Looked
<1>6. Top.waiting => \E q \in providers[t] : q \in Visited /\ state[q] = "Waiting"
    BY <1>2 DEF Link, Waits
<1> HIDE DEF t
<1>7. state[t] = "Failed" => state'[t] = "Failed" /\ t \notin Sound
    BY <1>1, <1>3 DEF IInv, FailedRightly
<1>8. CASE state[t] # "Failed"
    <2>1. selected[t] \in {"Planning", "Waiting"} /\ state[t] = selected[t]
        BY <1>3, <1>8 DEF Open
    <2>2. \A q \in providers[t] :
            \/ state[q] = "Installed" /\ q \in Installed
            \/ q \in Visited /\ state[q] = "Planning" /\ q \in Ready
            \/ q \in Visited /\ state[q] = "Waiting" /\ q \in Sound /\ q \notin Ready /\ q \notin Installed
        <3> SUFFICES ASSUME NEW q \in providers[t]
                     PROVE  \/ state[q] = "Installed" /\ q \in Installed
                            \/ q \in Visited /\ state[q] = "Planning" /\ q \in Ready
                            \/ q \in Visited /\ state[q] = "Waiting" /\ q \in Sound /\ q \notin Ready /\ q \notin Installed
            OBVIOUS
        <3>1. Returns(q) /\ state[q] \notin {"Disabled", "Failed"} /\ q \in Patches
            BY <1>4, <1>5, <1>8
        <3>2. CASE q \in Visited
            BY <3>1, <3>2 DEF IInv, Decided, Open, Installed, With
        <3>3. CASE q \notin Visited
            <4>1. state[q] = "Installed"
                BY <3>1, <3>3 DEF Returns, Settled
            <4>2. selected[q] = "Installed"
                BY <3>1, <3>3, <4>1 DEF IInv, Untouched
            <4>3. q \in DOMAIN selected
                BY <3>1 DEF IInv, TraversalOK
            <4> QED  BY <4>1, <4>2, <4>3 DEF Installed, With
        <3> QED  BY <3>2, <3>3
    <2>3. selected \in [Patches -> PatchStates]
        BY DEF IInv, TraversalOK
    <2>4. t \in Sound
        <3>1. providers[t] \subseteq Sound \cup Installed
            BY <2>2, ReadyIsSound
        <3>2. t \in With(selected, {"Planning", "Waiting"})
            BY <2>1, <2>3, <1>3 DEF With
        <3> QED  BY <3>1, <3>2, GroundedCloses DEF Sound
    <2>5. CASE Top.waiting
        <3>1. state'[t] = "Waiting"
            BY <2>5, <1>1, <1>3, <1>4, <1>8
        <3>2. PICK q \in providers[t] : q \in Visited /\ state[q] = "Waiting"
            BY <2>5, <1>6
        <3>3. q \notin Ready \cup Installed
            BY <2>2, <3>2
        <3>4. t \notin Ready
            BY <3>3, GroundedProviders DEF Ready
        <3> QED  BY <3>1, <3>4, <2>4, <1>3, <1>8 DEF t
    <2>6. CASE ~Top.waiting
        <3>1. state' = state
            BY <2>6, <1>1
        <3>2. \A q \in providers[t] : state[q] # "Waiting"
            BY <2>6, <1>5, <1>8
        <3>3. CASE selected[t] = "Planning"
            <4>1. providers[t] \subseteq Ready \cup Installed
                BY <2>2, <3>2
            <4>2. t \in With(selected, {"Planning"})
                BY <3>3, <2>3, <1>3 DEF With
            <4>3. t \in Ready
                BY <4>1, <4>2, GroundedCloses DEF Ready
            <4> QED  BY <4>3, <3>1, <3>2, <3>3, <2>1, <2>2, <1>3, <1>8 DEF t
        <3>4. CASE selected[t] = "Waiting"
            <4>1. t \notin With(selected, {"Planning"})
                BY <3>4 DEF With
            <4>2. t \notin Ready
                BY <4>1, GroundedWithin DEF Ready
            <4> QED  BY <4>2, <3>1, <3>4, <2>1, <2>4, <1>3, <1>8 DEF t
        <3> QED  BY <3>3, <3>4, <2>1
    <2> QED  BY <2>5, <2>6
<1>9. CASE state[t] = "Failed"
    BY <1>7, <1>9, <1>3 DEF t
<1> QED  BY <1>8, <1>9

LEMMA LeaveKeeps ==
    ASSUME IInv, Leave
    PROVE  IInv'
<1> DEFINE n == Len(active)
           v == Len(visited)
           t == Top.patch
<1>1. /\ active # <<>> /\ Top.todo = {} /\ rest' = rest
      /\ selected' = selected /\ providers' = providers /\ UNCHANGED asChosen
      /\ active' = SubSeq(active, 1, n - 1) /\ visited' = Append(visited, t)
      /\ state' = (IF Top.waiting /\ state[t] # "Failed" THEN [state EXCEPT ![t] = "Waiting"] ELSE state)
    BY DEF Leave, Below, asChosen
<1>2. /\ t \in Patches /\ Open(t) /\ t \notin Visited
      /\ state[t] = "Failed" => state'[t] = "Failed" /\ t \notin Sound
      /\ state'[t] \in {"Planning", "Waiting", "Failed"}
      /\ state'[t] = "Failed" => state[t] = "Failed"
      /\ state'[t] = "Waiting" => t \in Sound /\ t \notin Ready
      /\ state'[t] = "Planning" =>
            /\ t \in Ready
            /\ \A q \in providers[t] : state[q] = "Installed" \/ (state[q] = "Planning" /\ q \in Visited)
    BY LeaveDecides
<1>3. /\ active \in Seq(Visits) /\ visited \in Seq(Patches) /\ state \in [Patches -> PatchStates]
      /\ providers \in [Patches -> SUBSET Patches] /\ selected \in [Patches -> PatchStates]
    BY DEF IInv, TraversalOK
<1>4. /\ active' \in Seq(Visits) /\ n \in Nat /\ n >= 1 /\ Len(active') = n - 1
      /\ \A i \in 1..(n - 1) : active'[i] = active[i]
      /\ Top = active[n]
    BY <1>1, <1>3, Shorter DEF Top
<1>5. /\ visited' \in Seq(Patches) /\ Len(visited') = v + 1 /\ visited'[v + 1] = t /\ v \in Nat
      /\ \A i \in 1..v : visited'[i] = visited[i]
    BY <1>1, <1>2, <1>3, Longer
<1> HIDE DEF n, v, t
<1>6. Visited' = Visited \cup {t} /\ Visited \subseteq Patches
    <2>1. Visited' = {visited'[i] : i \in 1..(v + 1)}
        BY <1>5 DEF Visited
    <2>2. Visited = {visited[i] : i \in 1..v}
        BY DEF Visited, v
    <2>3. Visited \subseteq Patches
        BY <1>3 DEF Visited
    <2> QED  BY <2>1, <2>2, <2>3, <1>5
<1>7. Active = Active' \cup {t} /\ t \notin Active'
    <2>1. Active' = {active'[i].patch : i \in 1..(n - 1)}
        BY <1>4 DEF Active
    <2>2. Active = {active[i].patch : i \in 1..n}
        BY DEF Active, n
    <2>3. active[n].patch = t
        BY <1>4 DEF t
    <2>4. \A i \in 1..n : active[i].patch = t => i = n
        BY <2>3, <1>4 DEF IInv, TraversalOK, n
    <2> QED  BY <2>1, <2>2, <2>3, <2>4, <1>4
<1>8. \A p \in Patches : p # t => state'[p] = state[p]
    BY <1>1, <1>3
<1>9. Kept
    <2> SUFFICES ASSUME NEW r \in Patches, Returns(r) PROVE Returns(r)' /\ state'[r] = state[r]
        BY <1>1, <1>6 DEF Kept
    <2>1. state'[r] = state[r]
        <3>1. CASE r = t
            <4>1. state[t] = "Failed"
                BY <3>1, <1>7, ActiveOpen
            <4> QED  BY <3>1, <4>1, <1>2
        <3>2. CASE r # t
            BY <3>2, <1>8
        <3> QED  BY <3>1, <3>2
    <2> QED  BY <2>1, <1>6 DEF Returns
<1>10. TraversalOK'
    <2>1. state' \in [Patches -> PatchStates]
        BY <1>1, <1>3 DEF PatchStates
    <2>2. \A i, j \in 1..Len(active') : active'[i].patch = active'[j].patch => i = j
        <3>1. \A i, j \in 1..n : active[i].patch = active[j].patch => i = j
            BY DEF IInv, TraversalOK, n
        <3> QED  BY <3>1, <1>4
    <2>3. (Active \cap Visited = {})'
        <3>1. Active \cap Visited = {}
            BY DEF IInv, TraversalOK
        <3> QED  BY <3>1, <1>6, <1>7
    <2> QED  BY <2>1, <2>2, <2>3, <1>1, <1>3, <1>4, <1>5 DEF IInv, TraversalOK
<1>11. Chained'
    <2>1. ASSUME NEW i \in 1..Len(active'), NEW f \in Visits, f = active'[i] PROVE Link(f)'
        <3>1. i \in 1..(n - 1) /\ i \in 1..Len(active)
            BY <1>4 DEF n
        <3>2. f = active[i]
            BY <3>1, <2>1, <1>4
        <3> QED  BY <3>1, <3>2, <1>9, OldLinks
    <2>2. ASSUME NEW i \in 1..Len(active'), i < Len(active') PROVE active'[i + 1].patch \in active'[i].todo
        <3>1. i \in 1..(n - 1) /\ i \in 1..n /\ i + 1 \in 1..(n - 1) /\ i < n
            BY <2>2, <1>4
        <3>2. active[i + 1].patch \in active[i].todo
            BY <3>1 DEF IInv, Chained, n
        <3> QED  BY <3>1, <3>2, <1>4
    <2> QED  BY <2>1, <2>2, <1>4, ChainedNext
<1>12. Ready' = Ready /\ Sound' = Sound /\ \A p : Open(p)' = Open(p)
    BY <1>1, SameInput
<1>13. \A p \in Visited : state'[p] = state[p]
    BY <1>2, <1>6, <1>8
<1>14. Decided'
    <2> SUFFICES ASSUME NEW p \in Visited'
                 PROVE  /\ Open(p)
                        /\ state'[p] \in {"Planning", "Waiting", "Failed"}
                        /\ state'[p] = "Planning" => p \in Ready
                        /\ state'[p] = "Waiting" => p \in Sound /\ p \notin Ready
        BY <1>12 DEF Decided
    <2>1. CASE p = t
        BY <2>1, <1>2
    <2>2. CASE p \in Visited
        BY <2>2, <1>13 DEF IInv, Decided
    <2> QED  BY <2>1, <2>2, <1>6
<1>15. Ordered'
    <2> SUFFICES ASSUME NEW j \in 1..(v + 1), state'[visited'[j]] = "Planning",
                        NEW q \in providers[visited'[j]]
                 PROVE  \/ state'[q] = "Installed"
                        \/ state'[q] = "Planning" /\ \E i \in 1..(v + 1) : i < j /\ visited'[i] = q
        BY <1>1, <1>5 DEF Ordered
    <2>1. q \in Patches
        BY <1>3, <1>5
    <2>2. state[q] = "Installed" => state'[q] = "Installed"
        BY <2>1, <1>9 DEF Kept, Returns, Settled
    <2>3. CASE j = v + 1
        <3>1. visited'[j] = t
            BY <2>3, <1>5
        <3>2. state[q] = "Installed" \/ (state[q] = "Planning" /\ q \in Visited)
            BY <3>1, <1>2
        <3>3. CASE q \in Visited /\ state[q] = "Planning"
            <4>1. PICK i \in 1..v : visited[i] = q
                BY <3>3 DEF Visited, v
            <4>2. i \in 1..(v + 1) /\ i < j /\ visited'[i] = q
                BY <4>1, <2>3, <1>5
            <4> QED  BY <4>2, <3>3, <1>13
        <3> QED  BY <3>2, <3>3, <2>2
    <2>4. CASE j \in 1..v
        <3>1. visited'[j] = visited[j] /\ visited[j] \in Visited
            BY <2>4, <1>5 DEF Visited, v
        <3>2. state[visited[j]] = "Planning" /\ q \in providers[visited[j]]
            BY <3>1, <1>13
        <3>3. \/ state[q] = "Installed"
              \/ state[q] = "Planning" /\ \E i \in 1..v : i < j /\ visited[i] = q
            BY <3>2, <2>4 DEF IInv, Ordered, v
        <3>4. CASE state[q] = "Planning" /\ \E i \in 1..v : i < j /\ visited[i] = q
            <4>1. PICK i \in 1..v : i < j /\ visited[i] = q
                BY <3>4
            <4>2. i \in 1..(v + 1) /\ visited'[i] = q /\ q \in Visited
                BY <4>1, <1>5 DEF Visited, v
            <4> QED  BY <4>1, <4>2, <3>4, <1>13
        <3> QED  BY <3>3, <3>4, <2>2
    <2> QED  BY <2>3, <2>4, <1>5
<1>16. Untouched'
    <2> SUFFICES ASSUME NEW p \in Patches, p \notin Visited'
                 PROVE  state'[p] = selected[p] \/ (p \in Active' /\ state'[p] = "Failed")
        BY <1>1 DEF Untouched
    <2>1. p # t /\ p \notin Visited
        BY <1>6
    <2> QED  BY <2>1, <1>7, <1>8 DEF IInv, Untouched
<1>17. FailedRightly' /\ Given'
    <2>1. FailedRightly'
        BY <1>12, <1>2, <1>8 DEF IInv, FailedRightly
    <2> QED  BY <2>1, <1>1 DEF IInv, Given
<1>18. Covered'
    <2> SUFFICES ASSUME NEW p \in Patches PROVE p \in rest \/ Returns(p)' \/ p \in Active'
        BY <1>1 DEF Covered
    <2>1. CASE p = t
        BY <2>1, <1>6 DEF Returns
    <2>2. CASE p # t
        BY <2>2, <1>7, <1>9 DEF IInv, Covered, Kept
    <2> QED  BY <2>1, <2>2
<1> QED  BY <1>10, <1>11, <1>14, <1>15, <1>16, <1>17, <1>18 DEF IInv

-----------------------------------------------------------------------------
LEMMA InitHolds ==
    ASSUME TraversalInit
    PROVE  IInv
<1>1. selected \in [Patches -> PatchStates] /\ Given
    BY DependenciesAssumption DEF TraversalInit, Given
<1>2. Active = {} /\ Visited = {} /\ Len(active) = 0 /\ Len(visited) = 0
    BY DEF TraversalInit, Active, Visited
<1>3. TraversalOK
    BY <1>1, <1>2 DEF TraversalInit, TraversalOK
<1>4. Chained /\ Decided /\ Ordered
    BY <1>2 DEF Chained, Decided, Ordered
<1>5. Untouched /\ FailedRightly /\ Covered
    BY DEF TraversalInit, Untouched, FailedRightly, Covered, Open
<1> QED  BY <1>1, <1>3, <1>4, <1>5 DEF IInv

LEMMA StutterKeeps ==
    ASSUME IInv, UNCHANGED traversalVars
    PROVE  IInv'
<1>1. /\ selected' = selected /\ providers' = providers /\ state' = state /\ active' = active
      /\ visited' = visited /\ rest' = rest /\ UNCHANGED asChosen
      /\ Visited' = Visited /\ Active' = Active
    BY DEF traversalVars, asChosen, Visited, Active
<1>2. Kept
    BY <1>1 DEF Kept, Returns
<1>3. TraversalOK'
    BY <1>1 DEF IInv, TraversalOK
<1>4. Chained'
    <2>1. active' \in Seq(Visits)
        BY <1>1 DEF IInv, TraversalOK
    <2>2. \A i \in 1..Len(active') : \A f \in Visits : f = active'[i] => Link(f)'
        BY <1>1, <1>2, OldLinks
    <2>3. \A i \in 1..Len(active') : i < Len(active') => active'[i + 1].patch \in active'[i].todo
        BY <1>1 DEF IInv, Chained
    <2> QED  BY <2>1, <2>2, <2>3, ChainedNext
<1>5. Decided' /\ Ordered'
    BY <1>1, <1>2, DecidedStays
<1>6. Untouched' /\ Given'
    BY <1>1 DEF IInv, Untouched, Given
<1>7. FailedRightly'
    BY <1>1, SameInput DEF IInv, FailedRightly
<1>8. Covered'
    BY <1>1, <1>2, CoveredStays DEF IInv
<1> QED  BY <1>3, <1>4, <1>5, <1>6, <1>7, <1>8 DEF IInv

(* The inductive invariant holds, whatever the states and the dependencies *)
(* before the traversal.                                                   *)
THEOREM TraversalHolds == Traversal => []IInv
<1>1. TraversalInit => IInv
    BY InitHolds
<1>2. IInv /\ [TraversalNext]_traversalVars => IInv'
    <2> SUFFICES ASSUME IInv, [TraversalNext]_traversalVars PROVE IInv'
        OBVIOUS
    <2>1. ASSUME NEW p \in Patches, Begin(p) PROVE IInv'
        BY <2>1, BeginKeeps
    <2>2. ASSUME NEW p \in Patches, Enter(p) PROVE IInv'
        BY <2>2, EnterKeeps
    <2>3. ASSUME NEW p \in Patches, CloseCycle(p) PROVE IInv'
        BY <2>3, CloseCycleKeeps
    <2>4. ASSUME NEW p \in Patches, Look(p) PROVE IInv'
        BY <2>4, LookKeeps
    <2>5. ASSUME Leave PROVE IInv'
        BY <2>5, LeaveKeeps
    <2>6. ASSUME UNCHANGED traversalVars PROVE IInv'
        BY <2>6, StutterKeeps
    <2> QED  BY <2>1, <2>2, <2>3, <2>4, <2>5, <2>6 DEF TraversalNext, Step, Finished
<1> QED  BY <1>1, <1>2, PTL DEF Traversal

(* The traversal decides what the dependencies say (DependencyRules), for  *)
(* any number of patches, whatever order resolve_dependencies() takes them *)
(* in and however their cycles lie in one another.                         *)
THEOREM TraversalDecides == Traversal => []DecidesAsResolved
<1>1. IInv => DecidesAsResolved
    <2> SUFFICES ASSUME IInv, Done PROVE state = Resolved(selected, providers)
        BY DEF DecidesAsResolved
    <2>1. /\ state \in [Patches -> PatchStates] /\ selected \in [Patches -> PatchStates]
          /\ DOMAIN state = Patches /\ DOMAIN selected = Patches
        BY DEF IInv, TraversalOK
    <2>2. Active = {} /\ rest = {}
        BY DEF Done, Active
    <2>3. ASSUME NEW p \in Patches
          PROVE  state[p] = IF selected[p] \in Settled THEN selected[p]
                            ELSE IF p \in Ready THEN "Planning"
                            ELSE IF p \in Sound THEN "Waiting"
                            ELSE "Failed"
        <3>1. Returns(p)
            BY <2>2 DEF IInv, Covered
        <3>2. CASE p \in Visited
            <4>1. Open(p) /\ selected[p] \notin Settled
                BY <3>2 DEF IInv, Decided, Open, Settled
            <4>2. state[p] = "Failed" => p \notin Sound /\ p \notin Ready
                BY <4>1, ReadyIsSound DEF IInv, FailedRightly
            <4> QED  BY <3>2, <4>1, <4>2 DEF IInv, Decided
        <3>3. CASE p \notin Visited
            BY <3>1, <3>3, <2>2 DEF IInv, Untouched, Returns
        <3> QED  BY <3>2, <3>3
    <2>4. Resolved(selected, providers) =
              [p \in Patches |-> IF selected[p] \in Settled THEN selected[p]
                                 ELSE IF p \in Ready THEN "Planning"
                                 ELSE IF p \in Sound THEN "Waiting"
                                 ELSE "Failed"]
        BY <2>1 DEF Resolved, Ready, Sound, Installed
    <2> QED  BY <2>1, <2>3, <2>4
<1> QED  BY <1>1, TraversalHolds, PTL

(* What it leaves ready can be installed: every provider of such a patch   *)
(* is installed, or is ready too and was left before it.                   *)
THEOREM TraversalOrders == Traversal => []ReadyIsOrdered
<1>1. IInv => ReadyIsOrdered
    <2> SUFFICES ASSUME IInv, Done, NEW p \in Patches, state[p] = "Planning", NEW q \in providers[p]
                 PROVE  \/ state[q] = "Installed"
                        \/ /\ state[q] = "Planning"
                           /\ \E i, j \in 1..Len(visited) : i < j /\ visited[i] = q /\ visited[j] = p
        BY DEF ReadyIsOrdered
    <2>1. p \in Visited
        <3>1. Returns(p)
            BY DEF IInv, Covered, Done, Active
        <3> QED  BY <3>1 DEF Returns, Settled
    <2>2. PICK j \in 1..Len(visited) : visited[j] = p
        BY <2>1 DEF Visited
    <2> QED  BY <2>2 DEF IInv, Ordered
<1> QED  BY <1>1, TraversalHolds, PTL

(* Both hold of it, whatever its order. *)
THEOREM TraversalIsSound == Traversal => []TraversalSound
BY TraversalDecides, TraversalOrders, PTL DEF TraversalSound

-----------------------------------------------------------------------------
(* Lua multiplayer: sequences.                                             *)

Ascending(s) == \A i, j \in 1..Len(s) : i < j => s[i] < s[j]
Less(A, B) == \A a \in A : \A b \in B : a < b

LEMMA Elements ==
    ASSUME NEW S, NEW s \in Seq(S)
    PROVE  /\ Len(s) \in Nat /\ DOMAIN s = 1..Len(s) /\ Range(s) \subseteq S
           /\ \A i \in 1..Len(s) : s[i] \in S /\ s[i] \in Range(s)
           /\ \A x \in Range(s) : \E i \in 1..Len(s) : s[i] = x
BY DEF Range

LEMMA Appending ==
    ASSUME NEW S, NEW s \in Seq(S), NEW x \in S
    PROVE  /\ Append(s, x) \in Seq(S)
           /\ Len(Append(s, x)) = Len(s) + 1
           /\ \A i \in 1..Len(s) : Append(s, x)[i] = s[i]
           /\ Append(s, x)[Len(s) + 1] = x
           /\ Range(Append(s, x)) = Range(s) \cup {x}
<1>1. /\ Append(s, x) \in Seq(S) /\ Len(Append(s, x)) = Len(s) + 1
      /\ \A i \in 1..Len(s) : Append(s, x)[i] = s[i]
      /\ Append(s, x)[Len(s) + 1] = x
      /\ Len(s) \in Nat
    OBVIOUS
<1> DEFINE longer == Append(s, x)
<1> HIDE DEF longer
<1>2. \A y \in Range(longer) : y \in Range(s) \cup {x}
    <2> SUFFICES ASSUME NEW y \in Range(longer) PROVE y \in Range(s) \cup {x}
        OBVIOUS
    <2>1. PICK i \in 1..(Len(s) + 1) : longer[i] = y
        BY <1>1, Elements DEF longer
    <2>2. CASE i = Len(s) + 1
        BY <1>1, <2>1, <2>2 DEF longer
    <2>3. CASE i # Len(s) + 1
        BY <1>1, <2>1, <2>3, Elements DEF longer
    <2> QED
        BY <2>2, <2>3
<1>3. \A y \in Range(s) : y \in Range(longer)
    <2> SUFFICES ASSUME NEW y \in Range(s) PROVE y \in Range(longer)
        OBVIOUS
    <2>1. PICK i \in 1..Len(s) : s[i] = y
        BY Elements
    <2>2. longer[i] = y /\ i \in 1..Len(longer) /\ longer \in Seq(S)
        BY <1>1, <2>1 DEF longer
    <2> QED
        BY <2>2, Elements
<1>4. x \in Range(longer)
    <2>1. Len(s) + 1 \in 1..Len(longer) /\ longer[Len(s) + 1] = x /\ longer \in Seq(S)
        BY <1>1 DEF longer
    <2> QED
        BY <2>1, Elements
<1>5. Range(longer) = Range(s) \cup {x}
    BY <1>2, <1>3, <1>4
<1> QED
    BY <1>1, <1>5 DEF longer

(* A queue of numbers, longer by a greater one. *)
LEMMA Queued ==
    ASSUME NEW s \in Seq(Nat), Ascending(s), NEW x \in Nat, Less(Range(s), {x})
    PROVE  Append(s, x) \in Seq(Nat) /\ Ascending(Append(s, x)) /\ Range(Append(s, x)) = Range(s) \cup {x}
<1> DEFINE longer == Append(s, x)
           n == Len(s)
<1>1. /\ longer \in Seq(Nat) /\ Len(longer) = n + 1 /\ n \in Nat
      /\ \A i \in 1..n : longer[i] = s[i] /\ s[i] < x
      /\ longer[n + 1] = x
      /\ \A i, j \in 1..n : i < j => s[i] < s[j]
    BY Appending, Elements DEF Less, Ascending
<1> HIDE DEF longer, n
<1>2. Ascending(longer)
    <2> SUFFICES ASSUME NEW i \in 1..(n + 1), NEW j \in 1..(n + 1), i < j
                 PROVE  longer[i] < longer[j]
        BY <1>1 DEF Ascending
    <2>1. i \in 1..n /\ (j = n + 1 \/ j \in 1..n)
        BY <1>1
    <2>2. longer[i] = s[i] /\ s[i] < x
        BY <1>1, <2>1
    <2>3. CASE j = n + 1
        <3>1. longer[j] = x
            BY <1>1, <2>3
        <3> QED
            BY <2>2, <3>1
    <2>4. CASE j \in 1..n
        <3>1. longer[j] = s[j] /\ s[i] < s[j]
            BY <1>1, <2>1, <2>4
        <3> QED
            BY <2>2, <3>1
    <2> QED
        BY <2>1, <2>3, <2>4
<1> QED
    BY <1>1, <1>2, Appending DEF longer

(* And shorter by its first, the least. *)
LEMMA Unqueued ==
    ASSUME NEW s \in Seq(Nat), Ascending(s), s # <<>>
    PROVE  /\ Tail(s) \in Seq(Nat) /\ Ascending(Tail(s))
           /\ Head(s) \in Range(s) /\ Head(s) \in Nat
           /\ Range(Tail(s)) \subseteq Range(s)
           /\ Less({Head(s)}, Range(Tail(s)))
<1> DEFINE others == Tail(s)
<1>1. /\ others \in Seq(Nat) /\ Len(s) \in Nat /\ Len(s) > 0 /\ Len(others) = Len(s) - 1
      /\ \A i \in 1..Len(others) : others[i] = s[i + 1]
      /\ Head(s) = s[1]
    OBVIOUS
<1> HIDE DEF others
<1>2. \A i \in 1..Len(others) : i + 1 \in 1..Len(s) /\ 1 < i + 1 /\ 1 \in 1..Len(s)
    BY <1>1
<1>3. Ascending(others)
    <2> SUFFICES ASSUME NEW i \in 1..Len(others), NEW j \in 1..Len(others), i < j PROVE others[i] < others[j]
        BY DEF Ascending
    <2>1. i + 1 < j + 1
        BY <1>1
    <2> QED
        BY <1>1, <1>2, <2>1 DEF Ascending
<1>4. \A x \in Range(others) : x \in Range(s) /\ Head(s) < x
    <2> SUFFICES ASSUME NEW x \in Range(others) PROVE x \in Range(s) /\ Head(s) < x
        OBVIOUS
    <2>1. PICK i \in 1..Len(others) : others[i] = x
        BY <1>1, Elements
    <2>2. s[i + 1] = x
        BY <1>1, <2>1
    <2> QED
        BY <1>1, <1>2, <2>2, Elements DEF Ascending
<1>5. Head(s) \in Range(s) /\ Head(s) \in Nat
    <2>1. 1 \in 1..Len(s)
        BY <1>1
    <2> QED
        BY <1>1, <2>1, Elements
<1> QED
    BY <1>1, <1>3, <1>4, <1>5 DEF others, Less

-----------------------------------------------------------------------------
(* Lua multiplayer: where an accepted message is.                           *)

Sequence(s) == \E V : s \in Seq(V)

Deliveries == [message : Nat, registration : Nat, vm : Nat]
Jobs == [message : Nat, registration : Nat, vm : Nat, done : BOOLEAN]

Routed ==
    /\ Sequence(messages) /\ transit \in Seq(Nat) /\ incoming \in Seq(Nat)
    /\ jobs \in Seq(Jobs) /\ handled \in Seq(Nat \X Nat)
    /\ vm \in Nat /\ vms \in Nat /\ registrations \in Nat
    /\ listener \in [registration : Nat, vm : Nat]
    /\ "at" \in DOMAIN near
    /\ near.at = "Queue" => near.delivery \in Deliveries

Undone(i) == ~jobs[i].done
Waiting == {jobs[i].message : i \in {j \in 1..Len(jobs) : Undone(j)}}
Held == IF near.at = "Queue" THEN {near.delivery.message} ELSE {}
Handled == {handled[i][1] : i \in 1..Len(handled)}
Coming == Range(incoming)
OnWay == Range(transit)

(* A message is on its way, taken in, with the control thread, with the    *)
(* bindings and handed over, in this order, and later ones never pass it.  *)
Line(over, called, held, taken, out, n) ==
    /\ Less(over, called \cup held \cup taken \cup out)
    /\ Less(called, held \cup taken \cup out)
    /\ Less(held, taken \cup out)
    /\ Less(taken, out)
    /\ over \cup called \cup held \cup taken \cup out \subseteq 1..n

Rising(queue) ==
    \A i, j \in 1..Len(queue) :
        i < j /\ ~queue[i].done /\ ~queue[j].done => queue[i].message < queue[j].message

InOrder ==
    /\ Ascending(transit) /\ Ascending(incoming) /\ Rising(jobs)
    /\ \A i, j \in 1..Len(handled) : i < j => handled[i][1] < handled[j][1]
    /\ Line(Handled, Waiting, Held, Coming, OnWay, Len(messages))

(* A delivery is for the registration its message names, which belongs to  *)
(* one VM.                                                                  *)
Addressed(c) ==
    /\ messages[c.message].to = c.registration
    /\ 0 < c.registration /\ c.registration <= registrations /\ c.vm # 0
    /\ c.registration = listener.registration => c.vm = listener.vm

Owners ==
    /\ \A i \in 1..Len(messages) : messages[i].to # 0
    /\ \A i \in 1..Len(handled) : messages[handled[i][1]].to = handled[i][2]
    /\ \A i \in 1..Len(jobs) : Undone(i) => Addressed(jobs[i]) /\ jobs[i].vm = vm
    /\ near.at = "Queue" => Addressed(near.delivery)
    /\ listener.registration <= registrations
    /\ listener.registration # 0 => listener.vm # 0

Accounts == retained = Len(jobs) /\ retained <= RetainLimit

RouteInv == Routed /\ InOrder /\ Owners /\ Accounts

-----------------------------------------------------------------------------
(* What is left of the calls when finished ones are destroyed.             *)

KeptOf(queue, f) ==
    f = [i \in 0..Len(queue) |->
            IF i = 0 THEN << >>
            ELSE IF queue[i].done THEN f[i - 1] ELSE Append(f[i - 1], queue[i])]

LEMMA UnfinishedIsKept ==
    ASSUME NEW queue
    PROVE  Unfinished(queue) = (CHOOSE f : KeptOf(queue, f))[Len(queue)]
BY DEF Unfinished, KeptOf

(* The recursive function exists: it is built along the prefixes.          *)
LEMMA KeptOfExists ==
    ASSUME NEW queue \in Seq(Jobs)
    PROVE  \E f : KeptOf(queue, f)
<1> DEFINE n == Len(queue)
           Upto(k, f) == /\ f[0] = << >>
                         /\ \A i \in 1..k : f[i] = IF queue[i].done THEN f[i - 1] ELSE Append(f[i - 1], queue[i])
           G == {k \in Nat : \E f : f = [i \in 0..k |-> f[i]] /\ Upto(k, f)}
<1>0. n \in Nat
    OBVIOUS
<1>1. 0 \in G
    <2> DEFINE f == [i \in 0..0 |-> << >>]
    <2>1. f = [i \in 0..0 |-> f[i]] /\ f[0] = << >>
        OBVIOUS
    <2> HIDE DEF f
    <2>2. Upto(0, f)
        BY <2>1
    <2> QED
        BY <2>1, <2>2
<1>2. ASSUME NEW k \in Nat, k \in G PROVE k + 1 \in G
    <2>1. PICK f : f = [i \in 0..k |-> f[i]] /\ Upto(k, f)
        BY <1>2
    <2> DEFINE last == IF queue[k + 1].done THEN f[k] ELSE Append(f[k], queue[k + 1])
    <2> HIDE DEF last
    <2> DEFINE g == [i \in 0..(k + 1) |-> IF i = k + 1 THEN last ELSE f[i]]
    <2>2. /\ g = [i \in 0..(k + 1) |-> g[i]]
          /\ g[k + 1] = last /\ \A i \in 0..k : g[i] = f[i]
        OBVIOUS
    <2> HIDE DEF g
    <2>3. g[0] = << >>
        BY <2>1, <2>2
    <2>4. ASSUME NEW i \in 1..(k + 1)
          PROVE  g[i] = IF queue[i].done THEN g[i - 1] ELSE Append(g[i - 1], queue[i])
        <3>1. CASE i = k + 1
            <4>1. i - 1 = k /\ k \in 0..k
                BY <3>1
            <4> QED
                BY <2>2, <3>1, <4>1 DEF last
        <3>2. CASE i # k + 1
            <4>1. i \in 1..k /\ i \in 0..k /\ i - 1 \in 0..k
                BY <3>2
            <4> QED
                BY <2>1, <2>2, <4>1
        <3> QED
            BY <3>1, <3>2
    <2>5. Upto(k + 1, g)
        BY <2>3, <2>4
    <2> HIDE DEF Upto
    <2>6. \E h : h = [i \in 0..(k + 1) |-> h[i]] /\ Upto(k + 1, h)
        BY <2>2, <2>5
    <2> QED
        BY <2>6
<1>3. n \in G
    <2> HIDE DEF G
    <2>1. Nat \subseteq G
        BY <1>1, <1>2, NatSetInduction
    <2> QED
        BY <1>0, <2>1
<1>4. PICK f : f = [i \in 0..n |-> f[i]] /\ Upto(n, f)
    BY <1>3
<1>5. ASSUME NEW i \in 0..n
      PROVE  f[i] = IF i = 0 THEN << >>
                    ELSE IF queue[i].done THEN f[i - 1] ELSE Append(f[i - 1], queue[i])
    <2>1. CASE i = 0
        BY <1>4, <2>1
    <2>2. CASE i # 0
        <3>1. i \in 1..n
            BY <1>0, <2>2
        <3> QED
            BY <1>4, <2>2, <3>1
    <2> QED
        BY <2>1, <2>2
<1>6. KeptOf(queue, f)
    BY <1>4, <1>5, Zenon DEF KeptOf
<1> QED
    BY <1>6

(* It keeps their order, nothing finished and everything else.             *)
Remaining(queue, i) == {j \in 1..i : ~queue[j].done}
Completed(queue, i) == {j \in 1..i : queue[j].done}

LEMMA CountsFinished ==
    ASSUME NEW queue, NEW i \in Nat
    PROVE  /\ Cardinality(Completed(queue, i)) \in Nat
           /\ Completed(queue, 0) = {} /\ Cardinality(Completed(queue, 0)) = 0
           /\ Cardinality(Completed(queue, i + 1)) =
                IF queue[i + 1].done THEN Cardinality(Completed(queue, i)) + 1 ELSE Cardinality(Completed(queue, i))
<1>1. IsFiniteSet(Completed(queue, i))
    <2>1. IsFiniteSet(1..i)
        BY FS_Interval
    <2> QED
        BY <2>1, FS_Subset DEF Completed
<1>2. Cardinality(Completed(queue, i)) \in Nat
    BY <1>1, FS_CardinalityType
<1>3. Completed(queue, 0) = {}
    BY DEF Completed
<1>4. Cardinality(Completed(queue, 0)) = 0
    BY <1>3, FS_EmptySet
<1>5. CASE queue[i + 1].done
    <2>1. Completed(queue, i + 1) = Completed(queue, i) \cup {i + 1}
        BY <1>5 DEF Completed
    <2>2. i + 1 \notin Completed(queue, i)
        BY DEF Completed
    <2> QED
        BY <1>1, <1>2, <1>3, <1>4, <1>5, <2>1, <2>2, FS_AddElement
<1>6. CASE ~queue[i + 1].done
    <2>1. Completed(queue, i + 1) = Completed(queue, i)
        BY <1>6 DEF Completed
    <2> QED
        BY <1>2, <1>3, <1>4, <1>6, <2>1
<1> QED
    BY <1>5, <1>6

Remains(queue, i, q) ==
    /\ q \in Seq(Jobs)
    /\ \A k \in 1..Len(q) : ~q[k].done /\ \E j \in Remaining(queue, i) : q[k] = queue[j]
    /\ \A j \in Remaining(queue, i) : \E k \in 1..Len(q) : q[k] = queue[j]
    /\ \A k, l \in 1..Len(q) : k < l => q[k].message < q[l].message
    /\ Len(q) + Cardinality(Completed(queue, i)) = i

LEMMA RemainsNext ==
    ASSUME NEW queue \in Seq(Jobs), Rising(queue), NEW i \in Nat, i < Len(queue),
           NEW q, Remains(queue, i, q)
    PROVE  Remains(queue, i + 1, IF queue[i + 1].done THEN q ELSE Append(q, queue[i + 1]))
<1> DEFINE n == Len(queue)
           c == Cardinality(Completed(queue, i))
           d == Cardinality(Completed(queue, i + 1))
           job == queue[i + 1]
<1>1. n \in Nat /\ i + 1 \in 1..n /\ job \in Jobs /\ \A j \in 1..i : j \in 1..n /\ j < i + 1
    OBVIOUS
<1>2. c \in Nat /\ d = IF job.done THEN c + 1 ELSE c
    BY CountsFinished
<1>3. q \in Seq(Jobs) /\ Len(q) \in Nat /\ Len(q) + c = i
    BY DEF Remains
<1>4. CASE job.done
    <2>1. Remaining(queue, i + 1) = Remaining(queue, i)
        BY <1>4 DEF Remaining
    <2>2. Len(q) + d = i + 1
        BY <1>2, <1>3, <1>4
    <2> QED
        BY <1>4, <2>1, <2>2 DEF Remains
<1>5. CASE ~job.done
    <2> DEFINE longer == Append(q, job)
               m == Len(q)
    <2>1. /\ longer \in Seq(Jobs) /\ Len(longer) = m + 1 /\ m \in Nat
          /\ \A k \in 1..m : longer[k] = q[k]
          /\ longer[m + 1] = job
        BY <1>1, <1>3, Appending
    <2>2. Remaining(queue, i + 1) = Remaining(queue, i) \cup {i + 1}
        BY <1>5 DEF Remaining
    <2>q. /\ \A k \in 1..m : ~q[k].done /\ \E j \in Remaining(queue, i) : q[k] = queue[j]
          /\ \A j \in Remaining(queue, i) : \E k \in 1..m : q[k] = queue[j]
          /\ \A k, l \in 1..m : k < l => q[k].message < q[l].message
        BY DEF Remains
    <2>3. \A j \in Remaining(queue, i) : queue[j].message < job.message
        BY <1>1, <1>5 DEF Remaining, Rising
    <2>4. \A k \in 1..m : q[k].message < job.message
        BY <2>q, <2>3
    <2> HIDE DEF longer, m, job
    <2>5. ASSUME NEW k \in 1..(m + 1)
          PROVE  ~longer[k].done /\ \E j \in Remaining(queue, i + 1) : longer[k] = queue[j]
        <3>1. CASE k = m + 1
            BY <1>5, <2>1, <2>2, <3>1 DEF job
        <3>2. CASE k # m + 1
            <4>1. k \in 1..m /\ longer[k] = q[k]
                BY <2>1, <3>2
            <4> QED
                BY <2>q, <2>2, <4>1
        <3> QED
            BY <3>1, <3>2
    <2>6. ASSUME NEW j \in Remaining(queue, i + 1) PROVE \E k \in 1..(m + 1) : longer[k] = queue[j]
        <3>1. CASE j = i + 1
            <4>1. m + 1 \in 1..(m + 1)
                BY <2>1
            <4> QED
                BY <2>1, <3>1, <4>1 DEF job
        <3>2. CASE j \in Remaining(queue, i)
            <4>1. PICK k \in 1..m : q[k] = queue[j]
                BY <2>q, <3>2
            <4>2. k \in 1..(m + 1) /\ longer[k] = q[k]
                BY <2>1
            <4> QED
                BY <4>1, <4>2
        <3> QED
            BY <2>2, <3>1, <3>2
    <2>7. ASSUME NEW k \in 1..(m + 1), NEW l \in 1..(m + 1), k < l
          PROVE  longer[k].message < longer[l].message
        <3>1. k \in 1..m /\ longer[k] = q[k]
            BY <2>1, <2>7
        <3>2. CASE l = m + 1
            BY <2>1, <2>4, <3>1, <3>2
        <3>3. CASE l # m + 1
            <4>1. l \in 1..m /\ longer[l] = q[l]
                BY <2>1, <3>3
            <4> QED
                BY <2>7, <2>q, <3>1, <4>1
        <3> QED
            BY <3>2, <3>3
    <2>8. Len(longer) + d = i + 1
        BY <1>2, <1>3, <1>5, <2>1 DEF m
    <2>9. Remains(queue, i + 1, longer)
        BY <2>1, <2>5, <2>6, <2>7, <2>8 DEF Remains
    <2> QED
        BY <1>5, <2>9 DEF longer, job
<1> QED
    BY <1>4, <1>5

LEMMA UnfinishedRemains ==
    ASSUME NEW queue \in Seq(Jobs), Rising(queue)
    PROVE  Remains(queue, Len(queue), Unfinished(queue))
<1> DEFINE n == Len(queue)
<1>1. \E f : KeptOf(queue, f) /\ Unfinished(queue) = f[n]
    BY KeptOfExists, UnfinishedIsKept, Zenon
<1> SUFFICES ASSUME NEW f, KeptOf(queue, f), Unfinished(queue) = f[n]
             PROVE  Remains(queue, n, f[n])
    BY <1>1
<1> DEFINE G == {i \in Nat : i <= n => Remains(queue, i, f[i])}
<1>2. n \in Nat
    OBVIOUS
<1>3. /\ f[0] = << >>
      /\ \A i \in 1..n : f[i] = IF queue[i].done THEN f[i - 1] ELSE Append(f[i - 1], queue[i])
    <2>1. \A i \in 0..Len(queue) :
            f[i] = IF i = 0 THEN << >>
                   ELSE IF queue[i].done THEN f[i - 1] ELSE Append(f[i - 1], queue[i])
        BY Zenon DEF KeptOf
    <2>2. 0 \in 0..Len(queue) /\ \A i \in 1..n : i \in 0..Len(queue) /\ i # 0
        BY <1>2
    <2> QED
        BY <2>1, <2>2, Zenon
<1>4. 0 \in G
    <2>1. Remaining(queue, 0) = {} /\ Cardinality(Completed(queue, 0)) = 0
        BY CountsFinished DEF Remaining
    <2>2. << >> \in Seq(Jobs) /\ Len(<< >>) = 0 /\ 1..0 = {}
        OBVIOUS
    <2>3. Remains(queue, 0, << >>)
        BY <2>1, <2>2 DEF Remains
    <2> QED
        BY <1>3, <2>3
<1>5. ASSUME NEW i \in Nat, i \in G PROVE i + 1 \in G
    <2> SUFFICES ASSUME i + 1 <= n PROVE Remains(queue, i + 1, f[i + 1])
        OBVIOUS
    <2>1. i + 1 \in 1..n /\ i < Len(queue) /\ Remains(queue, i, f[i]) /\ (i + 1) - 1 = i
        BY <1>2, <1>5
    <2>2. f[i + 1] = IF queue[i + 1].done THEN f[i] ELSE Append(f[i], queue[i + 1])
        BY <1>3, <2>1
    <2> QED
        BY <2>1, <2>2, RemainsNext
<1> HIDE DEF G
<1>6. Nat \subseteq G
    BY <1>4, <1>5, NatSetInduction
<1> QED
    BY <1>2, <1>6 DEF G

-----------------------------------------------------------------------------
(* The places of the line.                                                  *)

LEMMA LineShrinks ==
    ASSUME NEW a, NEW b, NEW d, NEW e, NEW f, NEW n \in Nat, Line(a, b, d, e, f, n),
           NEW a2, NEW b2, NEW d2, NEW e2, NEW f2, a2 \subseteq a, b2 \subseteq b, d2 \subseteq d,
           e2 \subseteq e, f2 \subseteq f
    PROVE  Line(a2, b2, d2, e2, f2, n)
BY DEF Line, Less

LEMMA LineGrows ==
    ASSUME NEW a, NEW b, NEW d, NEW e, NEW f, NEW n \in Nat, Line(a, b, d, e, f, n)
    PROVE  Line(a, b, d, e, f \cup {n + 1}, n + 1)
<1>1. \A x \in a \cup b \cup d \cup e \cup f : x \in 1..(n + 1) /\ x < n + 1
    BY DEF Line
<1>2. n + 1 \in 1..(n + 1)
    OBVIOUS
<1>3. Less(a, {n + 1}) /\ Less(b, {n + 1}) /\ Less(d, {n + 1}) /\ Less(e, {n + 1})
    BY <1>1 DEF Less
<1>4. /\ Less(a, b \cup d \cup e \cup (f \cup {n + 1})) /\ Less(b, d \cup e \cup (f \cup {n + 1}))
      /\ Less(d, e \cup (f \cup {n + 1})) /\ Less(e, f \cup {n + 1})
    BY <1>3 DEF Less, Line
<1> QED
    BY <1>1, <1>2, <1>4 DEF Line

LEMMA LineArrives ==
    ASSUME NEW a, NEW b, NEW d, NEW e, NEW f, NEW n \in Nat, Line(a, b, d, e, f, n),
           NEW x \in f, NEW f2, f2 \subseteq f, Less({x}, f2)
    PROVE  Line(a, b, d, e \cup {x}, f2, n)
BY DEF Line, Less

LEMMA LineTaken ==
    ASSUME NEW a, NEW b, NEW e, NEW f, NEW n \in Nat, Line(a, b, {}, e, f, n),
           NEW x \in e, NEW e2, e2 \subseteq e, Less({x}, e2)
    PROVE  Line(a, b, {x}, e2, f, n)
BY DEF Line, Less

LEMMA LineCalled ==
    ASSUME NEW a, NEW b, NEW d, NEW e, NEW f, NEW n \in Nat, Line(a, b, d, e, f, n)
    PROVE  Line(a, b \cup d, {}, e, f, n)
BY DEF Line, Less

LEMMA LineHanded ==
    ASSUME NEW a, NEW b, NEW d, NEW e, NEW f, NEW n \in Nat, Line(a, b, d, e, f, n),
           NEW x \in b, NEW b2, b2 \subseteq b, Less({x}, b2)
    PROVE  Line(a \cup {x}, b2, d, e, f, n)
BY DEF Line, Less

LEMMA Appended ==
    ASSUME NEW s, Sequence(s), NEW x
    PROVE  /\ Sequence(Append(s, x)) /\ Len(s) \in Nat /\ Len(Append(s, x)) = Len(s) + 1
           /\ \A i \in 1..Len(s) : Append(s, x)[i] = s[i]
           /\ Append(s, x)[Len(s) + 1] = x
<1>1. PICK V : s \in Seq(V)
    BY DEF Sequence
<1>2. s \in Seq(V \cup {x}) /\ x \in V \cup {x}
    BY <1>1
<1> QED
    BY <1>2, Appending DEF Sequence

-----------------------------------------------------------------------------
(* Every step keeps it.                                                     *)

placed == <<messages, transit, incoming, vm, vms, listener, registrations, jobs, retained, handled>>

LEMMA Lengths ==
    ASSUME RouteInv
    PROVE  /\ Len(messages) \in Nat /\ Len(jobs) \in Nat /\ Len(handled) \in Nat
           /\ \A i \in 1..Len(jobs) : jobs[i] \in Jobs
           /\ \A i \in 1..Len(handled) : handled[i] \in Nat \X Nat
           /\ transit \in Seq(Nat) /\ incoming \in Seq(Nat)
           /\ Ascending(transit) /\ Ascending(incoming)
           /\ Line(Handled, Waiting, Held, Coming, OnWay, Len(messages))
BY DEF RouteInv, Routed, InOrder, Sequence

\* The control thread goes on without a delivery, or does not move.
LEMMA QuietKeeps ==
    ASSUME RouteInv, UNCHANGED placed,
           \/ UNCHANGED near
           \/ "at" \in DOMAIN near' /\ near'.at # "Queue"
    PROVE  RouteInv'
<1> USE DEF placed
<1>1. Routed'
    BY DEF RouteInv, Routed
<1>2. Held' \subseteq Held
    BY DEF Held
<1>3. Handled' = Handled /\ Waiting' = Waiting /\ Coming' = Coming /\ OnWay' = OnWay
    BY DEF Handled, Waiting, Undone, Coming, OnWay
<1>4. Line(Handled, Waiting, Held', Coming, OnWay, Len(messages))
    BY <1>2, Lengths, LineShrinks
<1>5. InOrder'
    BY <1>3, <1>4 DEF RouteInv, InOrder
<1>6. Owners'
    BY DEF RouteInv, Owners, Addressed, Undone
<1>7. Accounts'
    BY DEF RouteInv, Accounts
<1> QED
    BY <1>1, <1>5, <1>6, <1>7 DEF RouteInv

LEMMA DisconnectKeeps == ASSUME RouteInv, Disconnect PROVE RouteInv'
<1> USE DEF Disconnect, farSide, scripts, nearSide, work
<1>0. << >> \in Seq(Nat) /\ Range(<< >>) = {} /\ Ascending(<< >>)
    BY DEF Range, Ascending
<1>1. Routed'
    BY <1>0 DEF RouteInv, Routed
<1>2. Handled' = Handled /\ Waiting' = Waiting /\ Held' = Held /\ Coming' = {} /\ OnWay' = {}
    BY <1>0 DEF Handled, Waiting, Undone, Held, Coming, OnWay
<1>3. Line(Handled, Waiting, Held, {}, {}, Len(messages))
    BY Lengths, LineShrinks
<1>4. InOrder'
    BY <1>0, <1>2, <1>3 DEF RouteInv, InOrder
<1>5. Owners' /\ Accounts'
    BY DEF RouteInv, Owners, Addressed, Undone, Accounts
<1> QED
    BY <1>1, <1>4, <1>5 DEF RouteInv

LEMMA CarryKeeps == ASSUME RouteInv, Carry PROVE RouteInv'
<1> USE DEF Carry, network, farSide, scripts, nearSide, work
<1>1. CASE UNCHANGED <<messages, transit, incoming>>
    BY <1>1, QuietKeeps DEF placed
<1>2. CASE transit # << >> /\ transit' = Tail(transit) /\ incoming' = Append(incoming, Head(transit))
           /\ UNCHANGED messages
    <2>1. /\ Tail(transit) \in Seq(Nat) /\ Ascending(Tail(transit))
          /\ Head(transit) \in OnWay /\ Head(transit) \in Nat
          /\ Range(Tail(transit)) \subseteq OnWay
          /\ Less({Head(transit)}, Range(Tail(transit)))
        BY <1>2, Lengths, Unqueued DEF OnWay
    <2>2. Less(Coming, {Head(transit)})
        BY <2>1, Lengths DEF Line, Less
    <2>3. /\ Append(incoming, Head(transit)) \in Seq(Nat)
          /\ Ascending(Append(incoming, Head(transit)))
          /\ Range(Append(incoming, Head(transit))) = Coming \cup {Head(transit)}
        BY <2>1, <2>2, Lengths, Queued DEF Coming
    <2>4. Line(Handled, Waiting, Held, Coming \cup {Head(transit)}, Range(Tail(transit)), Len(messages))
        BY <2>1, Lengths, LineArrives
    <2>5. /\ Handled' = Handled /\ Waiting' = Waiting /\ Held' = Held
          /\ Coming' = Coming \cup {Head(transit)} /\ OnWay' = Range(Tail(transit))
        BY <1>2, <2>3 DEF Handled, Waiting, Undone, Held, Coming, OnWay
    <2>6. Routed'
        BY <1>2, <2>1, <2>3 DEF RouteInv, Routed
    <2>7. InOrder'
        BY <1>2, <2>1, <2>3, <2>4, <2>5 DEF RouteInv, InOrder
    <2>8. Owners' /\ Accounts'
        BY <1>2 DEF RouteInv, Owners, Addressed, Undone, Accounts
    <2> QED
        BY <2>6, <2>7, <2>8 DEF RouteInv
<1> QED
    BY <1>1, <1>2

LEMMA SubmitKeeps == ASSUME RouteInv, Submit PROVE RouteInv'
<1> USE DEF Submit, network, scripts, nearSide, work
<1>1. CASE UNCHANGED <<messages, transit>>
    BY <1>1, QuietKeeps DEF placed
<1>2. CASE /\ messages' = Append(messages, [to |-> sending, link |-> links])
           /\ transit' = Append(transit, Len(messages) + 1)
    <2> DEFINE n == Len(messages)
               next == [to |-> sending, link |-> links]
    <2>1. Sequence(messages) /\ next.to = sending /\ sending # 0
        BY DEF RouteInv, Routed, None
    <2>2. /\ Sequence(messages') /\ n \in Nat /\ Len(messages') = n + 1
          /\ \A i \in 1..n : messages'[i] = messages[i]
          /\ messages'[n + 1] = next
        BY <1>2, <2>1, Appended
    <2> HIDE DEF n, next
    <2>3. Line(Handled, Waiting, Held, Coming, OnWay, n)
        BY Lengths DEF n
    <2>4. Line(Handled, Waiting, Held, Coming, OnWay \cup {n + 1}, n + 1)
        BY <2>2, <2>3, LineGrows
    <2>5. Less(OnWay, {n + 1})
        BY <2>2, <2>3 DEF Line, Less
    <2>6. /\ transit' \in Seq(Nat) /\ Ascending(transit')
          /\ Range(transit') = OnWay \cup {n + 1}
        <3>1. transit \in Seq(Nat) /\ Ascending(transit) /\ n + 1 \in Nat
            BY <2>2, Lengths
        <3> QED
            BY <1>2, <2>5, <3>1, Queued DEF OnWay, n
    <2>7. Handled' = Handled /\ Waiting' = Waiting /\ Held' = Held /\ Coming' = Coming /\ OnWay' = OnWay \cup {n + 1}
        BY <2>6 DEF Handled, Waiting, Undone, Held, Coming, OnWay
    <2>8. Routed'
        BY <2>2, <2>6 DEF RouteInv, Routed
    <2>9. InOrder'
        BY <2>2, <2>4, <2>6, <2>7 DEF RouteInv, InOrder
    <2>10. Accounts'
        BY DEF RouteInv, Accounts
    <2>11. \A i \in 1..Len(handled) : handled[i][1] \in 1..n
        BY <2>3 DEF Line, Handled
    <2>12. \A i \in 1..Len(jobs) : Undone(i) => jobs[i].message \in 1..n
        BY <2>3 DEF Line, Waiting
    <2>13. near.at = "Queue" => near.delivery.message \in 1..n
        BY <2>3 DEF Line, Held
    <2>14. \A i \in 1..Len(messages') : messages'[i].to # 0
        <3> SUFFICES ASSUME NEW i \in 1..(n + 1) PROVE messages'[i].to # 0
            BY <2>2
        <3>1. CASE i = n + 1
            BY <2>1, <2>2, <3>1
        <3>2. CASE i # n + 1
            <4>1. i \in 1..n
                BY <2>2, <3>2
            <4> QED
                BY <2>2, <4>1 DEF RouteInv, Owners, n
        <3> QED
            BY <3>1, <3>2
    <2>15. \A i \in 1..Len(handled) : messages'[handled[i][1]].to = handled[i][2]
        BY <2>2, <2>11 DEF RouteInv, Owners
    <2>16. \A i \in 1..Len(jobs) : Undone(i) => messages'[jobs[i].message].to = jobs[i].registration
        BY <2>2, <2>12 DEF RouteInv, Owners, Addressed
    <2>17. near.at = "Queue" => messages'[near.delivery.message].to = near.delivery.registration
        BY <2>2, <2>13 DEF RouteInv, Owners, Addressed
    <2>18. Owners'
        BY <2>14, <2>15, <2>16, <2>17 DEF RouteInv, Owners, Addressed, Undone
    <2> QED
        BY <2>8, <2>9, <2>10, <2>18 DEF RouteInv
<1> QED
    BY <1>1, <1>2

\* No VM runs, so no call waits.
LEMMA StartVmKeeps == ASSUME RouteInv, StartVm PROVE RouteInv'
<1> USE DEF StartVm, network, wire, farSide, nearSide, work, None
<1>1. Routed'
    BY DEF RouteInv, Routed
<1>2. InOrder'
    BY DEF RouteInv, InOrder, Handled, Waiting, Undone, Held, Coming, OnWay
<1>3. \A i \in 1..Len(jobs) : ~Undone(i)
    BY DEF RouteInv, Owners, Addressed
<1>4. Owners' /\ Accounts'
    BY <1>3 DEF RouteInv, Owners, Addressed, Undone, Accounts
<1> QED
    BY <1>1, <1>2, <1>4 DEF RouteInv

\* A registration is new, or gone: what is addressed to earlier ones stays so.
LEMMA ListenerKeeps ==
    ASSUME RouteInv, UNCHANGED <<messages, transit, incoming, vms, jobs, retained, handled, near, vm>>,
           \/ registrations' = registrations + 1 /\ vm # 0 /\ listener' = [registration |-> registrations + 1, vm |-> vm]
           \/ registrations' = registrations /\ listener' = [registration |-> 0, vm |-> 0]
    PROVE  RouteInv'
<1>1. /\ registrations \in Nat /\ registrations' \in Nat /\ registrations <= registrations'
      /\ listener' \in [registration : Nat, vm : Nat] /\ listener'.registration <= registrations'
      /\ listener'.registration # 0 => listener'.vm # 0
      /\ listener'.registration = 0 \/ listener'.registration > registrations
    BY DEF RouteInv, Routed
<1>2. Routed'
    BY <1>1 DEF RouteInv, Routed
<1>3. InOrder'
    BY DEF RouteInv, InOrder, Handled, Waiting, Undone, Held, Coming, OnWay
<1>4. \A i \in 1..Len(jobs) : Undone(i) =>
          /\ jobs[i].registration \in Nat /\ jobs[i].registration <= registrations'
          /\ jobs[i].registration # listener'.registration
    <2>1. ASSUME NEW i \in 1..Len(jobs), Undone(i)
          PROVE  jobs[i].registration \in Nat /\ 0 < jobs[i].registration /\ jobs[i].registration <= registrations
        BY <2>1, Lengths DEF RouteInv, Owners, Addressed, Jobs
    <2> QED
        BY <1>1, <2>1
<1>5. near.at = "Queue" =>
          /\ near.delivery.registration \in Nat /\ near.delivery.registration <= registrations'
          /\ near.delivery.registration # listener'.registration
    <2>1. ASSUME near.at = "Queue"
          PROVE  /\ near.delivery.registration \in Nat /\ 0 < near.delivery.registration
                 /\ near.delivery.registration <= registrations
        BY <2>1 DEF RouteInv, Routed, Owners, Addressed, Deliveries
    <2> QED
        BY <1>1, <2>1
<1>6. Owners'
    BY <1>1, <1>4, <1>5 DEF RouteInv, Owners, Addressed, Undone
<1>7. Accounts'
    BY DEF RouteInv, Accounts
<1> QED
    BY <1>2, <1>3, <1>6, <1>7 DEF RouteInv

LEMMA ScriptsKeep == ASSUME RouteInv, Listen \/ Close \/ StateChanged PROVE RouteInv'
<1> USE DEF network, wire, farSide, nearSide, work, None
<1>1. CASE Listen
    BY <1>1, ListenerKeeps DEF Listen
<1>2. CASE Close
    BY <1>2, ListenerKeeps DEF Close
<1>3. CASE StateChanged
    <2>1. CASE UNCHANGED listener
        BY <1>3, <2>1, QuietKeeps DEF StateChanged, placed
    <2>2. CASE listener' = [registration |-> None, vm |-> None]
        BY <1>3, <2>2, ListenerKeeps DEF StateChanged
    <2> QED
        BY <1>3, <2>1, <2>2 DEF StateChanged
<1> QED
    BY <1>1, <1>2, <1>3

\* Calls are marked done: fewer wait.
LEMMA CancelKeeps ==
    ASSUME RouteInv, NEW gone,
           jobs' = [i \in DOMAIN jobs |-> IF i \in gone THEN [jobs[i] EXCEPT !.done = TRUE] ELSE jobs[i]]
    PROVE  /\ jobs' \in Seq(Jobs) /\ Len(jobs') = Len(jobs)
           /\ \A i \in 1..Len(jobs) :
                /\ jobs'[i].message = jobs[i].message /\ jobs'[i].registration = jobs[i].registration
                /\ jobs'[i].vm = jobs[i].vm /\ (~jobs'[i].done <=> i \notin gone /\ ~jobs[i].done)
           /\ Rising(jobs)'
           /\ Waiting' = {jobs[i].message : i \in {j \in 1..Len(jobs) : j \notin gone /\ Undone(j)}}
           /\ Waiting' \subseteq Waiting
<1> DEFINE n == Len(jobs)
<1>1. n \in Nat /\ DOMAIN jobs = 1..n /\ \A i \in 1..n : jobs[i] \in Jobs
    BY DEF RouteInv, Routed
<1>2. ASSUME NEW i \in 1..n
      PROVE  /\ jobs'[i] \in Jobs
             /\ jobs'[i].message = jobs[i].message /\ jobs'[i].registration = jobs[i].registration
             /\ jobs'[i].vm = jobs[i].vm /\ (~jobs'[i].done <=> i \notin gone /\ ~jobs[i].done)
    <2>1. jobs'[i] = IF i \in gone THEN [jobs[i] EXCEPT !.done = TRUE] ELSE jobs[i]
        BY <1>1
    <2>2. jobs[i] \in Jobs
        BY <1>1
    <2>3. CASE i \in gone
        <3>1. jobs'[i] = [jobs[i] EXCEPT !.done = TRUE]
            BY <2>1, <2>3
        <3>2. /\ jobs'[i] \in Jobs /\ jobs'[i].done
              /\ jobs'[i].message = jobs[i].message /\ jobs'[i].registration = jobs[i].registration
              /\ jobs'[i].vm = jobs[i].vm
            BY <2>2, <3>1 DEF Jobs
        <3> QED
            BY <2>3, <3>2
    <2>4. CASE i \notin gone
        <3>1. jobs'[i] = jobs[i]
            BY <2>1, <2>4
        <3> QED
            BY <2>2, <2>4, <3>1
    <2> QED
        BY <2>3, <2>4
<1>3. jobs' \in [1..n -> Jobs]
    BY <1>1, <1>2
<1>4. jobs' \in Seq(Jobs) /\ Len(jobs') = n
    BY <1>1, <1>3
<1>5. Rising(jobs)
    BY DEF RouteInv, InOrder
<1>6. Rising(jobs)'
    <2> SUFFICES ASSUME NEW i \in 1..n, NEW j \in 1..n, i < j, ~jobs'[i].done, ~jobs'[j].done
                 PROVE  jobs'[i].message < jobs'[j].message
        BY <1>4 DEF Rising
    <2> QED
        BY <1>2, <1>5 DEF Rising
<1>7. Waiting' = {jobs[i].message : i \in {j \in 1..n : j \notin gone /\ Undone(j)}}
    BY <1>2, <1>4 DEF Waiting, Undone
<1> QED
    BY <1>2, <1>4, <1>6, <1>7 DEF Waiting

LEMMA EndVmKeeps == ASSUME RouteInv, EndVm PROVE RouteInv'
<1> USE DEF EndVm, network, wire, farSide, nearSide, None
<1> DEFINE gone == {i \in DOMAIN jobs : jobs[i].vm = vm}
<1>1. jobs' = [i \in DOMAIN jobs |-> IF i \in gone THEN [jobs[i] EXCEPT !.done = TRUE] ELSE jobs[i]]
    OBVIOUS
<1>2. /\ jobs' \in Seq(Jobs) /\ Len(jobs') = Len(jobs)
      /\ \A i \in 1..Len(jobs) : ~jobs'[i].done <=> i \notin gone /\ ~jobs[i].done
      /\ Rising(jobs)' /\ Waiting' \subseteq Waiting
    BY <1>1, CancelKeeps
<1>3. DOMAIN jobs = 1..Len(jobs)
    BY DEF RouteInv, Routed
<1>4. \A i \in 1..Len(jobs') : jobs'[i].done
    BY <1>2, <1>3 DEF RouteInv, Owners, Undone
<1>5. Routed'
    BY <1>2 DEF RouteInv, Routed
<1>6. Handled' = Handled /\ Held' = Held /\ Coming' = Coming /\ OnWay' = OnWay
    BY DEF Handled, Held, Coming, OnWay
<1>7. Line(Handled, Waiting', Held, Coming, OnWay, Len(messages))
    BY <1>2, Lengths, LineShrinks
<1>8. InOrder'
    BY <1>2, <1>6, <1>7 DEF RouteInv, InOrder
<1>9. Owners'
    BY <1>4 DEF RouteInv, Owners, Addressed, Undone
<1>10. Accounts'
    BY <1>2 DEF RouteInv, Accounts
<1> QED
    BY <1>5, <1>8, <1>9, <1>10 DEF RouteInv

\* A message the control thread takes for the present listener becomes a
\* delivery; any other is dropped.
LEMMA RouteKeeps == ASSUME RouteInv, Route PROVE RouteInv'
<1> USE DEF Route, network, farSide, scripts, work
<1> DEFINE m == Head(incoming)
           delivery == [message |-> m, registration |-> listener.registration, vm |-> listener.vm]
<1>1. /\ Tail(incoming) \in Seq(Nat) /\ Ascending(Tail(incoming))
      /\ m \in Coming /\ m \in Nat /\ Range(Tail(incoming)) \subseteq Coming
      /\ Less({m}, Range(Tail(incoming)))
    BY Lengths, Unqueued DEF Coming
<1>2. incoming' = Tail(incoming) /\ Held = {}
    BY DEF Held
<1>3. Handled' = Handled /\ Waiting' = Waiting /\ Coming' = Range(Tail(incoming)) /\ OnWay' = OnWay
    BY <1>2 DEF Handled, Waiting, Undone, Coming, OnWay
<1>4. Accounts'
    BY DEF RouteInv, Accounts
<1>5. CASE near' = [near EXCEPT !.left = near.left - 1]
    <2>1. "at" \in DOMAIN near' /\ near'.at = "Deliver"
        BY <1>5 DEF RouteInv, Routed
    <2>2. Held' = {}
        BY <2>1 DEF Held
    <2>3. Routed'
        BY <1>1, <1>2, <2>1 DEF RouteInv, Routed
    <2>4. Line(Handled, Waiting, {}, Range(Tail(incoming)), OnWay, Len(messages))
        BY <1>1, Lengths, LineShrinks
    <2>5. InOrder'
        BY <1>1, <1>2, <1>3, <2>2, <2>4 DEF RouteInv, InOrder
    <2>6. Owners'
        BY <2>1 DEF RouteInv, Owners, Addressed, Undone
    <2> QED
        BY <1>4, <2>3, <2>5, <2>6 DEF RouteInv
<1>6. CASE /\ listener.registration = messages[m].to
           /\ near' = [at |-> "Queue", delivery |-> delivery, left |-> near.left - 1]
    <2>1. "at" \in DOMAIN near' /\ near'.at = "Queue" /\ near'.delivery = delivery
        BY <1>6
    <2>2. /\ listener.registration \in Nat /\ listener.vm \in Nat
          /\ delivery \in Deliveries
          /\ delivery.message = m /\ delivery.registration = listener.registration
          /\ delivery.vm = listener.vm
        BY <1>1 DEF RouteInv, Routed, Deliveries
    <2> HIDE DEF delivery, m
    <2>3. Held' = {m}
        BY <2>1, <2>2 DEF Held
    <2>4. Routed'
        BY <1>1, <1>2, <2>1, <2>2 DEF RouteInv, Routed
    <2>5. Line(Handled, Waiting, {m}, Range(Tail(incoming)), OnWay, Len(messages))
        BY <1>1, <1>2, Lengths, LineTaken
    <2>6. InOrder'
        BY <1>1, <1>2, <1>3, <2>3, <2>5 DEF RouteInv, InOrder
    <2>7. m \in 1..Len(messages)
        BY <1>1, Lengths DEF Line
    <2>8. messages[m].to # 0
        BY <2>7 DEF RouteInv, Owners
    <2>9. Addressed(delivery)
        BY <1>6, <2>2, <2>8 DEF RouteInv, Owners, Addressed
    <2>10. Addressed(near.delivery)'
        BY <2>1, <2>9 DEF Addressed
    <2>11. Owners'
        BY <2>10 DEF RouteInv, Owners, Addressed, Undone
    <2> QED
        BY <1>4, <2>4, <2>6, <2>11 DEF RouteInv
<1> QED
    BY <1>5, <1>6

LEMMA QueueKeeps == ASSUME RouteInv, Queue PROVE RouteInv'
<1> USE DEF Queue, wire, farSide, scripts
<1> DEFINE c == near.delivery
           job == [message |-> c.message, registration |-> c.registration, vm |-> vm, done |-> FALSE]
<1>1. "at" \in DOMAIN near' /\ near'.at = "Deliver"
    OBVIOUS
<1>2. CASE UNCHANGED <<jobs, retained>>
    BY <1>1, <1>2, QuietKeeps DEF placed
<1>3. CASE /\ retained < RetainLimit /\ vm = c.vm
           /\ jobs' = Append(jobs, job) /\ retained' = retained + 1
    <2> DEFINE n == Len(jobs)
    <2>1. c \in Deliveries /\ Addressed(c) /\ vm \in Nat
        BY DEF RouteInv, Routed, Owners
    <2>2. /\ job \in Jobs /\ job.message = c.message /\ job.registration = c.registration
          /\ job.vm = vm /\ ~job.done
        BY <2>1 DEF Deliveries, Jobs
    <2>3. jobs \in Seq(Jobs)
        BY DEF RouteInv, Routed
    <2> HIDE DEF job, c
    <2>4. /\ jobs' \in Seq(Jobs) /\ n \in Nat /\ Len(jobs') = n + 1
          /\ \A i \in 1..n : jobs'[i] = jobs[i]
          /\ jobs'[n + 1] = job
        BY <1>3, <2>2, <2>3, Appending
    <2>5. Held = {c.message}
        BY DEF Held, c
    <2> HIDE DEF n
    <2>6. \A i \in 1..n : ~jobs[i].done => jobs[i].message < c.message
        BY <2>5, Lengths DEF Line, Less, Waiting, Undone, n
    <2>7. Rising(jobs)'
        <3> SUFFICES ASSUME NEW i \in 1..(n + 1), NEW j \in 1..(n + 1), i < j, ~jobs'[i].done, ~jobs'[j].done
                     PROVE  jobs'[i].message < jobs'[j].message
            BY <2>4 DEF Rising
        <3>1. i \in 1..n /\ jobs'[i] = jobs[i]
            BY <2>4
        <3>2. CASE j = n + 1
            BY <2>2, <2>4, <2>6, <3>1, <3>2
        <3>3. CASE j # n + 1
            <4>1. j \in 1..n /\ jobs'[j] = jobs[j]
                BY <2>4, <3>3
            <4> QED
                BY <3>1, <4>1 DEF RouteInv, InOrder, Rising, n
        <3> QED
            BY <3>2, <3>3
    <2>8. Waiting' \subseteq Waiting \cup {c.message}
        <3> SUFFICES ASSUME NEW i \in 1..(n + 1), ~jobs'[i].done
                     PROVE  jobs'[i].message \in Waiting \cup {c.message}
            BY <2>4 DEF Waiting, Undone
        <3>1. CASE i = n + 1
            BY <2>2, <2>4, <3>1
        <3>2. CASE i # n + 1
            <4>1. i \in 1..n /\ jobs'[i] = jobs[i]
                BY <2>4, <3>2
            <4> QED
                BY <4>1 DEF Waiting, Undone, n
        <3> QED
            BY <3>1, <3>2
    <2>9. Handled' = Handled /\ Held' = {} /\ Coming' = Coming /\ OnWay' = OnWay
        BY <1>1 DEF Handled, Held, Coming, OnWay
    <2>10. Line(Handled, Waiting \cup {c.message}, {}, Coming, OnWay, Len(messages))
        BY <2>5, Lengths, LineCalled
    <2>11. Line(Handled, Waiting', {}, Coming, OnWay, Len(messages))
        BY <2>8, <2>10, Lengths, LineShrinks
    <2>12. InOrder'
        BY <2>7, <2>9, <2>11 DEF RouteInv, InOrder
    <2>13. Routed'
        BY <1>1, <2>4 DEF RouteInv, Routed
    <2>14. Accounts'
        BY <1>3, <2>4, MessagesAssumption DEF RouteInv, Accounts, n
    <2>15. \A i \in 1..(n + 1) : ~jobs'[i].done => Addressed(jobs'[i]) /\ jobs'[i].vm = vm
        <3> SUFFICES ASSUME NEW i \in 1..(n + 1), ~jobs'[i].done
                     PROVE  Addressed(jobs'[i]) /\ jobs'[i].vm = vm
            OBVIOUS
        <3>1. CASE i = n + 1
            BY <1>3, <2>1, <2>2, <2>4, <3>1 DEF Addressed
        <3>2. CASE i # n + 1
            <4>1. i \in 1..n /\ jobs'[i] = jobs[i]
                BY <2>4, <3>2
            <4> QED
                BY <4>1 DEF RouteInv, Owners, Undone, n
        <3> QED
            BY <3>1, <3>2
    <2>16. Owners'
        BY <1>1, <2>4, <2>15 DEF RouteInv, Owners, Addressed, Undone
    <2> QED
        BY <2>12, <2>13, <2>14, <2>16 DEF RouteInv
<1> QED
    BY <1>2, <1>3

LEMMA NearDoneKeeps == ASSUME RouteInv, NearDone PROVE RouteInv'
<1> USE DEF NearDone, network, wire, farSide, scripts
<1> DEFINE n == Len(jobs)
           gone == Cardinality(Completed(jobs, n))
<1>1. "at" \in DOMAIN near' /\ near'.at = "Idle"
    BY DEF Idle
<1>2. jobs \in Seq(Jobs) /\ Rising(jobs) /\ n \in Nat /\ DOMAIN jobs = 1..n
    BY DEF RouteInv, Routed, InOrder
<1>3. Remains(jobs, n, jobs')
    BY <1>2, UnfinishedRemains
<1>4. gone \in Nat /\ {i \in DOMAIN jobs : jobs[i].done} = Completed(jobs, n)
    BY <1>2, CountsFinished DEF Completed
<1>5. /\ jobs' \in Seq(Jobs) /\ Len(jobs') \in Nat /\ Len(jobs') + gone = n
      /\ \A k \in 1..Len(jobs') : ~jobs'[k].done /\ \E j \in Remaining(jobs, n) : jobs'[k] = jobs[j]
      /\ \A k, l \in 1..Len(jobs') : k < l => jobs'[k].message < jobs'[l].message
    BY <1>3 DEF Remains
<1>6. Rising(jobs)'
    BY <1>5 DEF Rising
<1>7. Waiting' \subseteq Waiting
    BY <1>5 DEF Waiting, Undone, Remaining
<1>8. Handled' = Handled /\ Held' = {} /\ Held = {} /\ Coming' = Coming /\ OnWay' = OnWay
    BY <1>1 DEF Handled, Held, Coming, OnWay
<1>9. Line(Handled, Waiting', {}, Coming, OnWay, Len(messages))
    BY <1>7, <1>8, Lengths, LineShrinks
<1>10. InOrder'
    BY <1>6, <1>8, <1>9 DEF RouteInv, InOrder
<1>11. Routed'
    BY <1>1, <1>5 DEF RouteInv, Routed
<1> HIDE DEF gone, n
<1>12. retained = n /\ retained <= RetainLimit /\ retained' = retained - gone
    BY <1>4 DEF RouteInv, Accounts, n, gone
<1>13. Accounts'
    BY <1>2, <1>4, <1>5, <1>12, MessagesAssumption DEF Accounts
<1>14. \A i \in 1..Len(jobs') : Addressed(jobs'[i]) /\ jobs'[i].vm = vm
    <2>1. \A j \in Remaining(jobs, n) : Addressed(jobs[j]) /\ jobs[j].vm = vm
        BY DEF RouteInv, Owners, Undone, Remaining, n
    <2> QED
        BY <1>5, <2>1
<1>15. Owners'
    BY <1>1, <1>14 DEF RouteInv, Owners, Addressed, Undone
<1> QED
    BY <1>10, <1>11, <1>13, <1>15 DEF RouteInv

\* The first waiting call of the VM is the first of all: calls of an earlier
\* VM do not wait.
LEMMA FirstWaiting ==
    ASSUME RouteInv, {i \in DOMAIN jobs : jobs[i].vm = vm /\ ~jobs[i].done} # {}
    PROVE  LET k == Min({i \in DOMAIN jobs : jobs[i].vm = vm /\ ~jobs[i].done})
           IN  /\ k \in 1..Len(jobs) /\ ~jobs[k].done /\ jobs[k].message \in Waiting
               /\ jobs[k] \in Jobs /\ Addressed(jobs[k]) /\ jobs[k].vm = vm
               /\ \A i \in 1..Len(jobs) : ~jobs[i].done /\ i # k => jobs[k].message < jobs[i].message
<1> DEFINE W == {i \in DOMAIN jobs : jobs[i].vm = vm /\ ~jobs[i].done}
           k == Min(W)
           n == Len(jobs)
<1>1. n \in Nat /\ DOMAIN jobs = 1..n /\ \A i \in 1..n : jobs[i] \in Jobs
    BY DEF RouteInv, Routed
<1>2. W \subseteq 1..n /\ W \in SUBSET Nat /\ W # {}
    BY <1>1
<1>3. k \in W /\ \A i \in W : k <= i
    <2> HIDE DEF W
    <2>1. \E x \in W : \A y \in W : x <= y
        BY <1>2, LeastNumber
    <2>2. k = CHOOSE x \in W : \A y \in W : x <= y
        BY DEF Min
    <2> QED
        BY <2>1, <2>2
<1>4. \A i \in 1..n : ~jobs[i].done <=> i \in W
    BY <1>1 DEF RouteInv, Owners, Undone
<1>5. k \in 1..n /\ ~jobs[k].done /\ jobs[k].vm = vm
    BY <1>1, <1>3
<1>6. \A i \in 1..n : ~jobs[i].done /\ i # k => jobs[k].message < jobs[i].message
    <2> HIDE DEF k
    <2> SUFFICES ASSUME NEW i \in 1..n, ~jobs[i].done, i # k PROVE jobs[k].message < jobs[i].message
        OBVIOUS
    <2>1. k < i
        BY <1>3, <1>4, <1>5, <1>1
    <2> QED
        BY <1>5, <2>1 DEF RouteInv, InOrder, Rising
<1>7. jobs[k].message \in Waiting
    BY <1>5 DEF Waiting, Undone
<1>8. Addressed(jobs[k])
    BY <1>5 DEF RouteInv, Owners, Undone
<1> QED
    BY <1>1, <1>5, <1>6, <1>7, <1>8

\* It is done afterwards.
LEMMA CallDone ==
    ASSUME RouteInv, NEW k \in 1..Len(jobs), ~jobs[k].done,
           \A i \in 1..Len(jobs) : ~jobs[i].done /\ i # k => jobs[k].message < jobs[i].message,
           jobs' = [jobs EXCEPT ![k].done = TRUE],
           UNCHANGED <<messages, transit, incoming, vm, vms, listener, registrations, near, retained>>,
           \/ handled' = handled
           \/ handled' = Append(handled, <<jobs[k].message, jobs[k].registration>>)
    PROVE  RouteInv'
<1> DEFINE n == Len(jobs)
           m == jobs[k].message
           r == jobs[k].registration
           gone == {k}
<1>1. n \in Nat /\ DOMAIN jobs = 1..n /\ \A i \in 1..n : jobs[i] \in Jobs
    BY DEF RouteInv, Routed
<1>2. jobs' = [i \in DOMAIN jobs |-> IF i \in gone THEN [jobs[i] EXCEPT !.done = TRUE] ELSE jobs[i]]
    BY <1>1
<1>3. /\ jobs' \in Seq(Jobs) /\ Len(jobs') = Len(jobs)
      /\ \A i \in 1..Len(jobs) :
           /\ jobs'[i].message = jobs[i].message /\ jobs'[i].registration = jobs[i].registration
           /\ jobs'[i].vm = jobs[i].vm /\ (~jobs'[i].done <=> i \notin gone /\ ~jobs[i].done)
      /\ Rising(jobs)'
      /\ Waiting' = {jobs[i].message : i \in {j \in 1..Len(jobs) : j \notin gone /\ Undone(j)}}
      /\ Waiting' \subseteq Waiting
    <2> HIDE DEF gone
    <2> QED
        BY <1>2, CancelKeeps
<1>4. m \in Nat /\ r \in Nat /\ m \in Waiting /\ Less({m}, Waiting')
    <2>1. m \in Nat /\ r \in Nat
        BY <1>1 DEF Jobs
    <2>2. m \in Waiting
        BY DEF Waiting, Undone
    <2>3. \A x \in Waiting' : m < x
        BY <1>3 DEF Undone
    <2> QED
        BY <2>1, <2>2, <2>3 DEF Less
<1>5. Addressed(jobs[k])
    BY DEF RouteInv, Owners, Undone
<1>6. Held' = Held /\ Coming' = Coming /\ OnWay' = OnWay
    BY DEF Held, Coming, OnWay
<1> DEFINE J == Len(handled)
           H == Handled
<1>7. /\ handled' \in Seq(Nat \X Nat)
      /\ \A i, j \in 1..Len(handled') : i < j => handled'[i][1] < handled'[j][1]
      /\ Line(Handled', Waiting', Held, Coming, OnWay, Len(messages))
      /\ \A i \in 1..Len(handled') : messages[handled'[i][1]].to = handled'[i][2]
    <2>1. /\ handled \in Seq(Nat \X Nat) /\ J \in Nat
          /\ \A i, j \in 1..J : i < j => handled[i][1] < handled[j][1]
          /\ \A i \in 1..J : messages[handled[i][1]].to = handled[i][2]
        BY DEF RouteInv, Routed, InOrder, Owners
    <2>2. CASE handled' = handled
        <3>1. Handled' = Handled
            BY <2>2 DEF Handled
        <3>2. Line(Handled, Waiting', Held, Coming, OnWay, Len(messages))
            BY <1>3, Lengths, LineShrinks
        <3> QED
            BY <2>1, <2>2, <3>1, <3>2
    <2>3. CASE handled' = Append(handled, <<m, r>>)
        <3>0. J \in Nat
            BY <2>1
        <3>1. <<m, r>> \in Nat \X Nat
            BY <1>4
        <3>2. /\ handled' \in Seq(Nat \X Nat) /\ Len(handled') = J + 1
              /\ \A i \in 1..J : handled'[i] = handled[i]
              /\ handled'[J + 1] = <<m, r>>
            BY <2>1, <2>3, <3>1, Appending
        <3> HIDE DEF J, m, r
        <3>3. Handled' \subseteq Handled \cup {m}
            <4> SUFFICES ASSUME NEW i \in 1..(J + 1) PROVE handled'[i][1] \in Handled \cup {m}
                BY <3>2 DEF Handled
            <4>1. CASE i = J + 1
                BY <3>2, <4>1
            <4>2. CASE i # J + 1
                <5>1. i \in 1..J
                    BY <2>1, <4>2
                <5> QED
                    BY <3>2, <5>1 DEF Handled, J
            <4> QED
                BY <4>1, <4>2
        <3>4. Line(Handled \cup {m}, Waiting', Held, Coming, OnWay, Len(messages))
            BY <1>3, <1>4, Lengths, LineHanded
        <3>5. Line(Handled', Waiting', Held, Coming, OnWay, Len(messages))
            BY <3>3, <3>4, Lengths, LineShrinks
        <3>6. \A i \in 1..J : handled[i][1] < m
            BY <1>4, Lengths DEF Line, Less, Handled, J
        <3>7. ASSUME NEW i \in 1..(J + 1), NEW j \in 1..(J + 1), i < j
              PROVE  handled'[i][1] < handled'[j][1]
            <4>0. i \in 1..J /\ (j = J + 1 \/ j \in 1..J)
                BY <3>0, <3>7
            <4>1. handled'[i] = handled[i]
                BY <3>2, <4>0
            <4>2. CASE j = J + 1
                BY <3>2, <3>6, <4>0, <4>1, <4>2
            <4>3. CASE j \in 1..J
                <5>1. handled'[j] = handled[j]
                    BY <3>2, <4>3
                <5> QED
                    BY <2>1, <3>7, <4>0, <4>1, <4>3, <5>1
            <4> QED
                BY <4>0, <4>2, <4>3
        <3>8. ASSUME NEW i \in 1..(J + 1) PROVE messages[handled'[i][1]].to = handled'[i][2]
            <4>1. CASE i = J + 1
                BY <1>5, <3>2, <4>1 DEF Addressed, m, r
            <4>2. CASE i # J + 1
                <5>1. i \in 1..J
                    BY <2>1, <4>2
                <5> QED
                    BY <2>1, <3>2, <5>1
            <4> QED
                BY <4>1, <4>2
        <3> QED
            BY <3>2, <3>5, <3>7, <3>8
    <2> QED
        BY <2>2, <2>3
<1>8. Routed'
    BY <1>3, <1>7 DEF RouteInv, Routed
<1>9. InOrder'
    BY <1>3, <1>6, <1>7 DEF RouteInv, InOrder
<1>10. ASSUME NEW i \in 1..Len(jobs'), ~jobs'[i].done PROVE Addressed(jobs'[i]) /\ jobs'[i].vm = vm
    <2>1. i \in 1..n /\ ~jobs[i].done
        BY <1>3, <1>10
    <2>2. Addressed(jobs[i]) /\ jobs[i].vm = vm
        BY <2>1 DEF RouteInv, Owners, Undone
    <2> QED
        BY <1>3, <2>1, <2>2 DEF Addressed
<1>11. Owners'
    BY <1>7, <1>10 DEF RouteInv, Owners, Addressed, Undone
<1>12. Accounts'
    BY <1>3 DEF RouteInv, Accounts
<1> QED
    BY <1>8, <1>9, <1>11, <1>12 DEF RouteInv

LEMMA DeliverKeeps == ASSUME RouteInv, Deliver \/ DeliverMalformed PROVE RouteInv'
<1> DEFINE k == Min({i \in DOMAIN jobs : jobs[i].vm = vm /\ ~jobs[i].done})
<1>1. /\ {i \in DOMAIN jobs : jobs[i].vm = vm /\ ~jobs[i].done} # {}
      /\ jobs' = [jobs EXCEPT ![k].done = TRUE]
      /\ UNCHANGED <<messages, transit, incoming, vm, vms, listener, registrations, near, retained>>
      /\ handled' = handled \/ handled' = Append(handled, <<jobs[k].message, jobs[k].registration>>)
    BY DEF Deliver, DeliverMalformed, HandToScript, network, wire, farSide, scripts, nearSide
<1>2. /\ k \in 1..Len(jobs) /\ ~jobs[k].done
      /\ \A i \in 1..Len(jobs) : ~jobs[i].done /\ i # k => jobs[k].message < jobs[i].message
    BY <1>1, FirstWaiting
<1> HIDE DEF k
<1> QED
    BY <1>1, <1>2, CallDone

LEMMA RouteInit == Init => RouteInv
<1> SUFFICES ASSUME Init PROVE RouteInv
    OBVIOUS
<1>1. /\ Sequence(<< >>) /\ << >> \in Seq(Nat) /\ << >> \in Seq(Jobs) /\ << >> \in Seq(Nat \X Nat)
      /\ Len(<< >>) = 0 /\ 1..0 = {} /\ Range(<< >>) = {}
    BY DEF Sequence, Range
<1>2. Routed
    BY <1>1 DEF Init, Routed, None, Idle
<1>3. Handled = {} /\ Waiting = {} /\ Held = {} /\ Coming = {} /\ OnWay = {}
    BY <1>1 DEF Init, Idle, Handled, Waiting, Undone, Held, Coming, OnWay
<1>4. Line({}, {}, {}, {}, {}, Len(messages))
    BY DEF Line, Less
<1>5. InOrder
    BY <1>1, <1>3, <1>4 DEF Init, InOrder, Ascending, Rising
<1>6. Owners
    BY <1>1 DEF Init, Owners, None, Idle
<1>7. Accounts
    BY <1>1, MessagesAssumption DEF Init, Accounts
<1> QED
    BY <1>2, <1>5, <1>6, <1>7 DEF RouteInv

LEMMA OthersQuiet ==
    ASSUME RouteInv,
           \/ Connect \/ Establish \/ FarControl \/ LookUp \/ NearSample \/ NearChanged
           \/ NearDelivered \/ Update \/ SendAnnouncement \/ RefuseAnnouncement
    PROVE  RouteInv'
<1> USE DEF network, wire, farSide, scripts, nearSide, work, placed
<1>0. "at" \in DOMAIN near
    BY DEF RouteInv, Routed
<1>1. CASE Connect \/ Establish \/ LookUp
    BY <1>1, QuietKeeps DEF Connect, Establish, LookUp
<1>2. CASE FarControl
    BY <1>2, QuietKeeps DEF FarControl, FarSample, FarChanged, FarReceive, FarDone
<1>3. CASE NearSample
    BY <1>3, QuietKeeps DEF NearSample
<1>4. CASE NearChanged
    <2>1. "at" \in DOMAIN near' /\ near'.at # "Queue"
        BY <1>0, <1>4 DEF NearChanged
    <2> QED
        BY <1>4, <2>1, QuietKeeps DEF NearChanged
<1>5. CASE NearDelivered \/ Update
    BY <1>5, QuietKeeps DEF NearDelivered, Update
<1>6. CASE SendAnnouncement
    <2>1. "at" \in DOMAIN near' /\ near'.at # "Queue"
        BY <1>0, <1>6 DEF SendAnnouncement
    <2> QED
        BY <1>6, <2>1, QuietKeeps DEF SendAnnouncement
<1>7. CASE RefuseAnnouncement
    <2>1. "at" \in DOMAIN near' /\ near'.at # "Queue"
        BY <1>0, <1>7 DEF RefuseAnnouncement
    <2> QED
        BY <1>7, <2>1, QuietKeeps DEF RefuseAnnouncement
<1> QED
    BY <1>1, <1>2, <1>3, <1>4, <1>5, <1>6, <1>7

LEMMA RouteNext == RouteInv /\ [Next]_vars => RouteInv'
<1> SUFFICES ASSUME RouteInv, [Next]_vars PROVE RouteInv'
    OBVIOUS
<1>1. CASE UNCHANGED vars
    BY <1>1, QuietKeeps DEF vars, network, wire, farSide, scripts, nearSide, work, placed
<1>2. CASE Next
    BY <1>2, OthersQuiet, DisconnectKeeps, CarryKeeps, SubmitKeeps, StartVmKeeps, ScriptsKeep,
       EndVmKeeps, RouteKeeps, QueueKeeps, NearDoneKeeps, DeliverKeeps DEF Next, NearControl
<1> QED
    BY <1>1, <1>2

(* Whatever the number of scripts, connections and messages, the line holds. *)
LEMMA RouteHolds == Spec => []RouteInv
BY RouteInit, RouteNext, PTL DEF Spec

(* A step that hands a message over finds everything current.               *)
LEMMA HandedCurrent ==
    RouteInv /\ [Next]_vars =>
        [handled' # handled =>
            LET m == Last(handled')[1]
            IN  listener.registration = messages[m].to /\ listener.vm = vm /\ vm # None
                /\ messages[m].link = links /\ Connected /\ ~failed]_vars
<1> SUFFICES ASSUME RouteInv, [Next]_vars, handled' # handled
             PROVE  LET m == Last(handled')[1]
                    IN  listener.registration = messages[m].to /\ listener.vm = vm /\ vm # None
                        /\ messages[m].link = links /\ Connected /\ ~failed
    OBVIOUS
<1> DEFINE W == {i \in DOMAIN jobs : jobs[i].vm = vm /\ ~jobs[i].done}
           k == Min(W)
           job == jobs[k]
<1>1. Deliver
    BY DEF Next, vars, network, wire, farSide, scripts, nearSide, work, FarControl, NearControl,
           Connect, Establish, Disconnect, Carry, FarSample, FarChanged, FarReceive, FarDone, LookUp,
           Submit, StartVm, Listen, Close, EndVm, StateChanged, NearSample, NearChanged, Route, Queue,
           NearDelivered, Update, SendAnnouncement, NearDone, RefuseAnnouncement, DeliverMalformed
<1>2. vm # None /\ W # {} /\ IsCurrent(job) /\ handled' = Append(handled, <<job.message, job.registration>>)
    BY <1>1 DEF Deliver, HandToScript
<1>3. Addressed(job) /\ job.vm = vm /\ job \in Jobs
    BY <1>2, FirstWaiting
<1> HIDE DEF job
<1>4. Last(handled') = <<job.message, job.registration>>
    <2>1. handled \in Seq(Nat \X Nat) /\ <<job.message, job.registration>> \in Nat \X Nat
        BY <1>3 DEF RouteInv, Routed, Jobs
    <2>2. handled' \in Seq(Nat \X Nat) /\ Len(handled') = Len(handled) + 1
          /\ handled'[Len(handled) + 1] = <<job.message, job.registration>>
        BY <1>2, <2>1, Appending
    <2> QED
        BY <2>2 DEF Last
<1>5. /\ messages[job.message].link = links /\ NearAgreement = "Compatible"
      /\ listener.registration = job.registration /\ job.vm = vm
    BY <1>2 DEF IsCurrent, Compatible
<1>6. Connected /\ ~failed
    BY <1>5 DEF NearAgreement
<1> QED
    BY <1>2, <1>3, <1>4, <1>5, <1>6 DEF Addressed

LEMMA SoundnessFollows == RouteInv => RoutingSound
<1> SUFFICES ASSUME RouteInv PROVE RoutingSound
    OBVIOUS
<1>1. DOMAIN handled = 1..Len(handled)
    BY DEF RouteInv, Routed
<1> QED
    BY <1>1 DEF RouteInv, InOrder, Owners, Accounts, RoutingSound

(* A script is handed exactly the messages for its own registration, in the *)
(* order they were sent and each once, while the registration, its VM and   *)
(* the connection are current; storage is charged for the calls that remain. *)
THEOREM MessagesReachTheirScript == Spec => MessagesRouted
<1>1. RouteInv /\ [Next]_vars =>
        [handled' # handled =>
            LET m == Last(handled')[1]
            IN  listener.registration = messages[m].to /\ listener.vm = vm /\ vm # None
                /\ messages[m].link = links /\ Connected /\ ~failed]_vars
    BY HandedCurrent
<1> QED
    BY <1>1, RouteHolds, SoundnessFollows, PTL DEF Spec, MessagesRouted
=============================================================================
