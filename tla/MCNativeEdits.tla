---------------------------- MODULE MCNativeEdits ----------------------------
(* The plans MCFoundations gives to NativeEdits: one edit with every address  *)
(* or value in every kind of field; branches and near data with every choice  *)
(* of what is free around the image; data anywhere, or nowhere.               *)
EXTENDS Integers, TLC

MCMachines == {"X86", "X64"}
UpTo(bits) == 0 .. (2 ^ bits) - 1
NoData == [size |-> 0, alignment |-> 1, near |-> FALSE]
MCAddressBits == "X86" :> 4 @@ "X64" :> 6
MCLowest == "X86" :> 4 @@ "X64" :> 4
MCHighest == "X86" :> 11 @@ "X64" :> 59
MCImage == "X86" :> [base |-> 8, size |-> 4] @@ "X64" :> [base |-> 24, size |-> 8]

Address(n) == [kind |-> "Address", n |-> n, signed |-> FALSE]
Data(n) == [kind |-> "Data", n |-> n, signed |-> FALSE]
Number(n, signed) == [kind |-> "Value", n |-> n, signed |-> signed]

Field(kind, end, bits, signed, relative, target) ==
    [kind |-> kind, end |-> end, bits |-> bits, signed |-> signed, relative |-> relative, target |-> target]
Fixup(machine, end, relative, target) ==
    Field("Fixup", end, IF relative THEN 4 ELSE MCAddressBits[machine], relative, relative, target)
Operands(machine, end, target) ==
    {Field("Operand", end, bits, mode # "Unsigned", mode = "Relative", target) :
        bits \in {b \in {2, 4, 6} : b <= MCAddressBits[machine]}, mode \in {"Unsigned", "Signed", "Relative"}}
Branch(end, n) == Field("Branch", end, 4, TRUE, TRUE, Address(n))

AskFor(machine, data, edits, taken) == [machine |-> machine, data |-> data, edits |-> edits, others |-> taken]
Storage(size, alignment, near) == [size |-> size, alignment |-> alignment, near |-> near]

Ends == {1, 4}
Single ==
    UNION {{AskFor(a, NoData, <<e>>, {}) :
              e \in UNION {Operands(a, end, Address(n)) \cup {Fixup(a, end, r, Address(n)) : r \in BOOLEAN} :
                               end \in Ends, n \in UpTo(MCAddressBits[a])}
                    \cup UNION {Operands(a, 1, Number(n, s)) : n \in UpTo(6), s \in BOOLEAN}} :
           a \in MCMachines}

\* The granules around the image that may be free.
Around == {4, 5, 8, 9}
Fixed == 0 .. 3 \cup 10 .. 14
Branches == {AskFor("X64", NoData, <<Branch(5, n), Branch(8, k)>>, Fixed \cup t) :
                n \in {0, 20, 36, 37, 63}, k \in {24, 40, 63}, t \in SUBSET Around}
            \cup {AskFor("X86", NoData, <<Branch(1, n)>>, {}) : n \in UpTo(4)}

NearData == {AskFor("X64", Storage(size, alignment, TRUE), <<e, Branch(5, 63)>>, Fixed \cup t) :
                size \in {1, 3, 5}, alignment \in {1, 8}, t \in SUBSET Around,
                e \in {Fixup("X64", 1, TRUE, Data(1)), Fixup("X64", 8, TRUE, Data(0)), Fixup("X64", 8, FALSE, Data(1))}}
FarData == {AskFor(a, Storage(3, 2, FALSE), <<e>>, {}) :
                a \in MCMachines, e \in {Field("Operand", 4, 4, TRUE, TRUE, Data(2)), Field("Operand", 4, 2, TRUE, TRUE, Data(0))}}
    \cup {AskFor("X86", Storage(3, 2, FALSE), <<Fixup("X86", 4, FALSE, Data(2))>>, {1})}

NothingAsked == AskFor("X64", NoData, <<Branch(5, 36)>>, {})

MCRequests == {NothingAsked} \cup Single \cup Branches \cup NearData \cup FarData
=============================================================================
