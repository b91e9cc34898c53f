----------------------------- MODULE NativeEdits -----------------------------
(***************************************************************************)
(* What a plan's edits become: the fields that are encoded when an edit is *)
(* submitted, the storage prepare() allocates near an image, the fields    *)
(* that need its address, and the relays of branches that do not reach     *)
(* (runtime/src/native/validation.cpp, operations.cpp, installation.cpp,   *)
(* native_address.cpp, native_allocation.cpp).  Words are scaled: an       *)
(* address has AddressBits bits, a rel32 field RelBits and an FC value     *)
(* ValueBits; on x86 an address is as wide as a rel32.                     *)
(***************************************************************************)
EXTENDS Integers, Sequences, FiniteSets

CONSTANTS
    Machines, AddressBits,  \* [Machines -> Nat]
    RelBits, ValueBits,
    Granularity,            \* of reservations
    Lowest, Highest,        \* [Machines -> Nat]: application addresses
    Image,                  \* [Machines -> [base, size]]
    RelaySize,
    Requests,               \* [machine, data, edits, others]: plans, and what the process has reserved
    MaxOccupied             \* reservations other threads make meanwhile

None == -1
NoStorage == [size |-> 0, alignment |-> 1, near |-> FALSE]
Addresses(m) == 0 .. (2 ^ AddressBits[m]) - 1
RelMax == 2 ^ (RelBits - 1) - 1     \* INT32_MAX

(* An edit replaces a field of "bits" that ends "end" bytes into the       *)
(* image; its target is an offset into the data, an address, or a value.   *)
EditOf(m, e) ==
    /\ e.kind \in {"Fixup", "Operand", "Branch"} /\ e.end \in 1 .. Image[m].size
    /\ e.relative => e.signed
    /\ e.kind = "Fixup" => e.bits = IF e.relative THEN RelBits ELSE AddressBits[m]
    /\ e.kind = "Branch" => e.bits = RelBits /\ e.relative /\ e.target.kind = "Address"
    /\ e.target.kind = "Address" => e.target.n \in Addresses(m)

EditsAssumption ==
    /\ \A m \in Machines : RelBits <= AddressBits[m] /\ AddressBits[m] <= ValueBits
    /\ \A m \in Machines : 0 < Lowest[m] /\ Highest[m] \in Addresses(m)
    /\ \A r \in Requests : \A i \in DOMAIN r.edits : EditOf(r.machine, r.edits[i])

VARIABLES
    asked,          \* the request
    step,           \* Submitting, Allocating, Searching, Found, Encoding, Prepared, why it failed, Discarded
    place,          \* the edit that is next
    fields,         \* what each edit was encoded as, by its number
    reservations,   \* the plan's: [at, size, address, use]; use 0 is the data, else the branch
    others,         \* granules that are not the plan's
    occupied,       \* how many of them were taken meanwhile
    search          \* of allocate_near: [reference, size, alignment, distance, side, use]

editVars == <<asked, step, place, fields, reservations, others, occupied, search>>

Arch == asked.machine
Edit == asked.edits[place]
NoSearch == [reference |-> 0, size |-> 0, alignment |-> 1, distance |-> 0, side |-> "None", use |-> 0]

-----------------------------------------------------------------------------
(* Fields.                                                                 *)

AsSigned(bits, n) == IF n >= 2 ^ (bits - 1) THEN n - 2 ^ bits ELSE n

\* Mutant: the positive range reaches as far as the negative one.
EncodeRel32_M1(machine, next, target) ==
    IF machine = "X86" \/ (target - next >= -RelMax - 1 /\ target - next <= RelMax + 1)
    THEN (target - next) % (2 ^ RelBits) ELSE None

\* x86 wraps in its address space; x64 checks the distance.
EncodeRel32(machine, next, target) ==
    IF machine = "X86" \/ (target - next >= -RelMax - 1 /\ target - next <= RelMax)
    THEN (target - next) % (2 ^ RelBits) ELSE None

\* Where the branch at an installed site leads, as a later plan reads it.
DecodeRel32(machine, next, field) ==
    LET target == next + AsSigned(RelBits, field)
    IN  IF machine = "X86" THEN target % (2 ^ RelBits)
        ELSE IF target \in Addresses(machine) THEN target ELSE None

EncodeRelative(e, end, target) ==
    LET distance == IF target >= end THEN target - end ELSE end - target
        maximum == 2 ^ (e.bits - 1) - 1
    IN  IF e.bits = RelBits THEN EncodeRel32(Arch, end, target)
        ELSE IF distance > maximum + (IF target < end THEN 1 ELSE 0) THEN None
        ELSE (target - end) % (2 ^ e.bits)

(* "number" is the value as its author signed it.                          *)
EncodeNumber(e, value, signedValue) ==
    LET number == AsSigned(ValueBits, value)
        maximum == 2 ^ (e.bits - 1) - 1
        fits == IF e.signed
                THEN IF signedValue THEN number >= -maximum - 1 /\ number <= maximum ELSE value <= maximum
                ELSE ~(signedValue /\ number < 0) /\ value <= 2 ^ e.bits - 1
    IN  IF fits THEN value % (2 ^ e.bits) ELSE None

EndOf(e) == Image[Arch].base + e.end

EncodeField(e, value) ==
    IF e.target.kind # "Value" /\ e.relative THEN EncodeRelative(e, EndOf(e), value)
    ELSE EncodeNumber(e, value, e.target.kind = "Value" /\ e.target.signed)

-----------------------------------------------------------------------------
(* Reservations.                                                           *)

AlignUp(n, alignment) == ((n + alignment - 1) \div alignment) * alignment
Granules(at, size) == (at \div Granularity) .. ((at + size - 1) \div Granularity)
Taken == others \cup UNION {Granules(r.at, r.size) : r \in reservations}

(* VirtualAlloc at an address succeeds where all granules are free.        *)
Free(at, size) ==
    /\ at >= Lowest[Arch] /\ at + size - 1 <= Highest[Arch]
    /\ Granules(at, size) \cap Taken = {}

Places == {at \in Addresses(Arch) : at % Granularity = 0}

Distance(a, b) == IF a >= b THEN a - b ELSE b - a
Clamped(n) == IF n < Lowest[Arch] THEN Lowest[Arch] ELSE IF n > Highest[Arch] THEN Highest[Arch] ELSE n

(* try_allocate_at: the reservation is kept if its aligned address is near. *)
InReach(at) ==
    LET address == AlignUp(at, search.alignment)
    IN  address \in Addresses(Arch) /\ Distance(address, search.reference) <= RelMax

First == search.reference - (search.reference % Granularity)
Lower == IF search.reference - RelMax > Lowest[Arch] THEN search.reference - RelMax ELSE Lowest[Arch]
Upper == IF search.reference + RelMax < Highest[Arch] THEN search.reference + RelMax ELSE Highest[Arch]

Below == First >= Lower /\ search.distance <= First - Lower
Above == First <= Upper /\ search.distance <= Upper - First

-----------------------------------------------------------------------------

EditsInit ==
    /\ asked \in Requests
    /\ others = asked.others \cup Granules(Image[Arch].base, Image[Arch].size)
    /\ step = "Submitting" /\ place = 1 /\ fields = << >>
    /\ reservations = {} /\ occupied = 0 /\ search = NoSearch

(* submit(): what does not need prepared storage is encoded now.           *)
Submit ==
    /\ step = "Submitting" /\ place <= Len(asked.edits)
    /\ LET deferred == Edit.kind = "Branch" \/ Edit.target.kind = "Data"
           field == IF deferred THEN None ELSE EncodeField(Edit, Edit.target.n)
       IN  IF deferred \/ field # None
           THEN fields' = Append(fields, field) /\ place' = place + 1 /\ UNCHANGED step
           ELSE step' = "Refused" /\ UNCHANGED <<fields, place>>
    /\ UNCHANGED <<asked, reservations, others, occupied, search>>

(* prepare() closes submission and allocates before it encodes the rest.   *)
Prepare ==
    /\ step = "Submitting" /\ place = Len(asked.edits) + 1
    /\ step' = IF asked.data = NoStorage THEN "Encoding" ELSE "Allocating"
    /\ place' = 1
    /\ UNCHANGED <<asked, fields, reservations, others, occupied, search>>

Reserve(at, size, alignment, use) ==
    reservations' = reservations \cup {[at |-> at, size |-> size, address |-> AlignUp(at, alignment), use |-> use]}

DataReservation == asked.data.size + asked.data.alignment - 1

AllocateAnywhere ==
    /\ step = "Allocating" /\ ~asked.data.near
    /\ LET free == {at \in Places : Free(at, DataReservation)}
       IN  \/ \E at \in free : Reserve(at, DataReservation, asked.data.alignment, 0) /\ step' = "Encoding"
           \/ free = {} /\ step' = "NoSpace" /\ UNCHANGED reservations
    /\ UNCHANGED <<asked, place, fields, others, occupied, search>>

SearchNear(reference, size, alignment, use) ==
    /\ search' = [reference |-> Clamped(reference), size |-> size, alignment |-> alignment,
                  distance |-> 0, side |-> "Below", use |-> use]
    /\ step' = "Searching"

AllocateNear ==
    /\ step = "Allocating" /\ asked.data.near
    /\ SearchNear(Image[Arch].base, DataReservation, asked.data.alignment, 0)
    /\ UNCHANGED <<asked, place, fields, reservations, others, occupied>>

Candidate == IF search.side = "Below" THEN First - search.distance ELSE First + search.distance
Probed == IF search.side = "Below" THEN Below ELSE search.distance # 0 /\ Above

(* One address of the loop in allocate_near; a reservation out of reach is *)
(* released at once.                                                       *)
Probe ==
    /\ step = "Searching"
    /\ IF Probed /\ Free(Candidate, search.size) /\ InReach(Candidate)
       THEN Reserve(Candidate, search.size, search.alignment, search.use) /\ step' = "Found" /\ UNCHANGED search
       ELSE /\ UNCHANGED reservations
            /\ IF search.side = "Below" THEN search' = [search EXCEPT !.side = "Above"] /\ UNCHANGED step
               ELSE IF ~Below /\ ~Above THEN step' = "NoSpace" /\ UNCHANGED search
               ELSE search' = [search EXCEPT !.distance = @ + Granularity, !.side = "Below"] /\ UNCHANGED step
    /\ UNCHANGED <<asked, place, fields, others, occupied>>

(* Another thread allocates between two probes.                            *)
Occupy ==
    /\ step = "Searching" /\ occupied < MaxOccupied
    /\ \E at \in Places : Free(at, 1) /\ others' = others \cup Granules(at, 1)
    /\ occupied' = occupied + 1
    /\ UNCHANGED <<asked, step, place, fields, reservations, search>>

Stored(use) == (CHOOSE r \in reservations : r.use = use).address

DataFound ==
    /\ step = "Found" /\ search.use = 0
    /\ step' = "Encoding" /\ search' = NoSearch
    /\ UNCHANGED <<asked, place, fields, reservations, others, occupied>>

Encoded(field) ==
    IF field = None THEN step' = "Refused" /\ UNCHANGED <<fields, place>>
    ELSE step' = "Encoding" /\ fields' = [fields EXCEPT ![place] = field] /\ place' = place + 1

(* The branch leads to the relay, which jumps to any address.              *)
RelayFound ==
    /\ step = "Found" /\ search.use # 0
    /\ Encoded(EncodeRel32(Arch, EndOf(Edit), Stored(place))) /\ search' = NoSearch
    /\ UNCHANGED <<asked, reservations, others, occupied>>

(* The relay cannot be made executable, and its storage goes with it.      *)
RelayFails ==
    /\ step = "Found" /\ search.use # 0
    /\ step' = "Unprotected" /\ reservations' = {r \in reservations : r.use # search.use} /\ search' = NoSearch
    /\ UNCHANGED <<asked, place, fields, others, occupied>>

Here == step = "Encoding" /\ place <= Len(asked.edits)

EncodeData ==
    /\ Here /\ Edit.kind # "Branch"
    /\ Encoded(IF fields[place] # None THEN fields[place] ELSE EncodeField(Edit, Stored(0) + Edit.target.n))
    /\ UNCHANGED <<asked, reservations, others, occupied, search>>

EncodeBranch ==
    /\ Here /\ Edit.kind = "Branch"
    /\ LET field == EncodeRel32(Arch, EndOf(Edit), Edit.target.n)
       IN  IF field # None THEN Encoded(field) /\ UNCHANGED search
           ELSE SearchNear(EndOf(Edit), RelaySize, 1, place) /\ UNCHANGED <<fields, place>>
    /\ UNCHANGED <<asked, reservations, others, occupied>>

Finish ==
    /\ step = "Encoding" /\ place > Len(asked.edits)
    /\ step' = "Prepared"
    /\ UNCHANGED <<asked, place, fields, reservations, others, occupied, search>>

(* The owner gives up a plan that failed, or that another batch excludes.  *)
Discard ==
    /\ step \in {"Refused", "NoSpace", "Unprotected", "Prepared"}
    /\ step' = "Discarded" /\ reservations' = {} /\ search' = NoSearch
    /\ UNCHANGED <<asked, place, fields, others, occupied>>

EditsNext ==
    \/ Submit \/ Prepare \/ AllocateAnywhere \/ AllocateNear \/ Probe \/ Occupy \/ DataFound
    \/ RelayFound \/ RelayFails \/ EncodeData \/ EncodeBranch \/ Finish \/ Discard

-----------------------------------------------------------------------------
(* Properties.                                                             *)

(* What the processor makes of a field, and what the author asked for.     *)
Meaning(e, field) ==
    IF e.relative /\ e.target.kind # "Value"
    THEN (EndOf(e) + AsSigned(e.bits, field)) % (2 ^ AddressBits[Arch])
    ELSE IF e.signed THEN AsSigned(e.bits, field) ELSE field

Intended(e) ==
    IF e.target.kind = "Data" THEN Stored(0) + e.target.n
    ELSE IF e.target.kind = "Value" /\ e.target.signed THEN AsSigned(ValueBits, e.target.n) ELSE e.target.n

(* In a prepared plan every field means what its author asked for, on      *)
(* either machine and at the ends of every range; a branch whose target is *)
(* out of range leads to a relay the plan owns, and a later plan that      *)
(* redirects the branch reads the same target from it.                     *)
FieldsReach ==
    step = "Prepared" =>
        \A i \in DOMAIN asked.edits :
            LET e == asked.edits[i]
                relays == {r \in reservations : r.use = i}
                target == IF relays = {} THEN Intended(e) ELSE (CHOOSE r \in relays : TRUE).address
            IN  /\ Meaning(e, fields[i]) = target
                /\ e.kind = "Branch" => DecodeRel32(Arch, EndOf(e), fields[i]) = target

(* An edit is refused only if no field would mean what was asked; a field  *)
(* of another width than a rel32 is not taken to wrap on x86.              *)
RefusedRightly ==
    step = "Refused" =>
        /\ Edit.kind # "Branch"
        /\ \A field \in 0 .. 2 ^ Edit.bits - 1 :
              LET wraps == Edit.relative /\ Edit.target.kind # "Value" /\ Edit.bits # RelBits
                  meaning == IF wraps THEN EndOf(Edit) + AsSigned(Edit.bits, field) ELSE Meaning(Edit, field)
              IN  meaning # Intended(Edit)

(* The search fails only if no reservation in reach is free, whatever was  *)
(* taken meanwhile.                                                        *)
SearchComplete ==
    step = "NoSpace" /\ search # NoSearch =>
        \A at \in Places :
            Distance(at, search.reference) <= RelMax /\ InReach(at) => ~Free(at, search.size)

(* Storage is where it was asked for, aligned and wholly inside its own    *)
(* reservation; a plan that is discarded, or waits for none, holds none.   *)
StorageOwned ==
    /\ \A r \in reservations :
          /\ Granules(r.at, r.size) \cap others = {}
          /\ \A q \in reservations : q # r => Granules(r.at, r.size) \cap Granules(q.at, q.size) = {}
          /\ r.use = 0 =>
                /\ r.address % asked.data.alignment = 0 /\ r.address + asked.data.size <= r.at + r.size
                /\ asked.data.near => Distance(r.address, Clamped(Image[Arch].base)) <= RelMax
    /\ step \in {"Submitting", "Allocating", "Discarded"} => reservations = {}
    /\ Cardinality(reservations) <= Len(asked.edits) + (IF asked.data = NoStorage THEN 0 ELSE 1)

EditsRight == FieldsReach /\ RefusedRightly /\ SearchComplete /\ StorageOwned
=============================================================================
