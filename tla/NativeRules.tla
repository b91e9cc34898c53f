------------------------------ MODULE NativeRules ------------------------------
(***************************************************************************)
(* What plans ask of the game's memory, which of their claims exclude each *)
(* other, and how the callbacks that share one hook are listed.            *)
(***************************************************************************)
EXTENDS Integers, Sequences, SequencesExt, FiniteSets

CONSTANTS
    Plans,
    Rank,        \* [Plans -> Nat]: order of the owners' names
    Operations,  \* [Plans -> Seq(Requests)]: what a plan submits
    Size,        \* of the image, in cells
    MaxState     \* SIZE_MAX

Cells == 0 .. Size - 1

OperationKinds == {"Read", "ContinuingRead", "ContinuingWrite", "Write", "Callable", "Hook"}
Scopes == {"Function", "Call", "Instruction"}

(* [begin, end) is what an operation covers and [begin, evidence) what it  *)
(* expects to be the game's; "code" tells whole instructions, whose        *)
(* originals are kept; "size" is what a callback keeps for an invocation.  *)
Requests == [kind : OperationKinds, begin : Cells, end : 1 .. Size, evidence : 0 .. Size,
             code : BOOLEAN, scope : Scopes, layout : Nat, modifier : BOOLEAN,
             size : Nat, alignment : Nat \ {0}]

NativeAssumption ==
    /\ IsFiniteSet(Plans)
    /\ Rank \in [Plans -> Nat] /\ \A p, q \in Plans : Rank[p] = Rank[q] => p = q
    /\ Size \in Nat \ {0} /\ MaxState \in Nat
    /\ \A p \in Plans : \A i \in DOMAIN Operations[p] :
         /\ Operations[p][i] \in Requests
         /\ Operations[p][i].begin < Operations[p][i].end
         /\ Operations[p][i].kind = "Hook" => Operations[p][i].code

-----------------------------------------------------------------------------
(* Claims. *)

Claim(p, i, begin, end, kind) == [plan |-> p, op |-> i, begin |-> begin, end |-> end, kind |-> kind]

(* What an operation covers, and as a read the evidence beyond it; for a   *)
(* callable entry the evidence from its start.                             *)
ClaimsOf(p, i) ==
    LET op == Operations[p][i]
        rest == IF op.kind = "Callable" THEN op.begin ELSE op.end
    IN  {Claim(p, i, op.begin, op.end, op.kind)}
        \cup (IF op.evidence > op.end THEN {Claim(p, i, rest, op.evidence, "Read")} ELSE {})

Claims(p) == UNION {ClaimsOf(p, i) : i \in DOMAIN Operations[p]}

Declares(a) == Operations[a.plan][a.op]

(* A hook shares its site with hooks that agree with it in everything but  *)
(* their callbacks, of which one may modify.                               *)
HooksAgree(a, b) ==
    /\ a.begin = b.begin /\ a.end = b.end
    /\ Declares(a).scope = Declares(b).scope
    /\ Declares(a).layout = Declares(b).layout
    /\ ~(Declares(a).modifier /\ Declares(b).modifier)

EntryAgrees(a, b) ==
    LET hook == IF Declares(a).kind = "Hook" THEN Declares(a) ELSE Declares(b)
    IN  /\ a.begin = b.begin
        /\ hook.scope = "Function"
        /\ Declares(a).layout = Declares(b).layout

Readers == {"Read", "ContinuingRead"}

Compatible(a, b) ==
    LET hooks == {Declares(a).kind, Declares(b).kind}
    IN  \/ {a.kind, b.kind} \subseteq Readers \cup {"Callable"}
        \/ {a.kind, b.kind} = {"ContinuingRead", "ContinuingWrite"}
        \/ hooks = {"Hook"} /\ HooksAgree(a, b)
        \/ hooks = {"Hook", "Callable"} /\ EntryAgrees(a, b)
        \/ /\ hooks # {"Hook"} /\ hooks # {"Hook", "Callable"}
           /\ a.plan = b.plan
           /\ {a.kind, b.kind} \cap (Readers \cup {"ContinuingWrite"}) # {}

(* claims_conflict() *)
ClaimsConflict(a, b) ==
    /\ a.begin < b.end /\ b.begin < a.end
    /\ <<a.plan, a.op>> # <<b.plan, b.op>>
    /\ ~Compatible(a, b)

Conflict(p, q) == \E a \in Claims(p), b \in Claims(q) : ClaimsConflict(a, b)

(* validate_plans(): what is accepted of a batch, in its order. *)
Accepted(batch, installed) ==
    FoldLeft(LAMBDA accepted, p :
                IF Conflict(p, p) \/ \E q \in accepted : Conflict(p, q)
                THEN accepted ELSE accepted \cup {p},
             installed, batch) \ installed

-----------------------------------------------------------------------------
(* Lists of participants: <<plan, operation>>.                             *)

Operation(v) == Operations[v[1]][v[2]]

HooksAt(p, site) ==
    SelectSeq([i \in DOMAIN Operations[p] |-> <<p, i>>],
              LAMBDA v : Operation(v).kind = "Hook" /\ Operation(v).begin = site)

HooksOf(p) == {i \in DOMAIN Operations[p] : Operations[p][i].kind = "Hook"}

Sites == UNION {{Operations[p][i].begin : i \in HooksOf(p)} : p \in Plans}

(* By owner, and as declared within one. *)
Sorted(values) ==
    LET owners == SetToSortSeq({v[1] : v \in ToSet(values)}, LAMBDA p, q : Rank[p] < Rank[q])
    IN  FoldLeft(LAMBDA sorted, p : sorted \o SelectSeq(values, LAMBDA v : v[1] = p), <<>>, owners)

(* Where in the block of an invocation each participant keeps its state.   *)
(* Alignments are powers of two, so the code's mask rounds up.             *)
RoundUp(n, alignment) == ((n + alignment - 1) \div alignment) * alignment

Empty == [offsets |-> <<>>, size |-> 0, overflow |-> FALSE]

Place(block, v) ==
    LET op == Operation(v)
        offset == RoundUp(block.size, op.alignment)
    IN  IF op.size = 0 \/ block.overflow
        THEN [block EXCEPT !.offsets = Append(@, 0)]
        ELSE IF block.size > MaxState - (op.alignment - 1) \/ op.size > MaxState - offset
        THEN [block EXCEPT !.offsets = Append(@, 0), !.overflow = TRUE]
        ELSE [block EXCEPT !.offsets = Append(@, offset), !.size = offset + op.size]

Block(values) == FoldLeft(LAMBDA block, v : Place(block, v), Empty, values)
=============================================================================
