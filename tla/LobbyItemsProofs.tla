--------------------------- MODULE LobbyItemsProofs ---------------------------
(***************************************************************************)
(* Proofs about the publication of lobby values, for any items, values,    *)
(* sizes and bounds: that recording a write never needs room that was not  *)
(* taken, that what is taken for written is stored, and that the budget is *)
(* the sum of what the registered items are charged.                       *)
(***************************************************************************)
EXTENDS LobbyItems, Folding, TLAPS

(* The shape of everything the arguments below look at. *)
Shapes ==
    /\ item \in [Items -> ItemRecords]
    /\ store \in [Lobbies -> [Items -> Stored]]
    /\ native \in NativeStates
    /\ hosted \in 0..MaxLobbies
    /\ control \in Controls

ItemFits(it) == Bytes(it.desired) <= it.charge /\ Bytes(it.written) <= it.charge

ItemStored(it, i) ==
    it.lobby # 0 /\ ~it.failure => store[it.lobby][i] = it.written

IInv == Shapes /\ RecordingFits /\ WrittenIsStored

-----------------------------------------------------------------------------
(* Operators. *)

LEMMA BytesType == \A v \in Stored : Bytes(v) \in Nat
BY LobbyItemsAssumption DEF Stored, Bytes

LEMMA BytesNone == Bytes(None) = 0
BY DEF Bytes

LEMMA ForgottenItem ==
    ASSUME NEW it \in ItemRecords
    PROVE  /\ Forgotten(it) \in ItemRecords
           /\ ItemFits(Forgotten(it))
           /\ Forgotten(it).lobby = 0
<1>1. /\ it.registered \in BOOLEAN /\ it.withdraw \in BOOLEAN
      /\ it.recent \in BOOLEAN /\ it.failure \in BOOLEAN
      /\ it.desired \in Stored /\ Bytes(it.desired) \in Nat
  BY BytesType DEF ItemRecords
<1>2. MaxLobbies \in Nat /\ None \in Stored /\ 0 \in 0..MaxLobbies
  BY LobbyItemsAssumption DEF Stored
<1>3. Forgotten(it) \in ItemRecords /\ Forgotten(it).lobby = 0
  BY <1>1, <1>2 DEF Forgotten, ItemRecords
<1>4. /\ Forgotten(it).desired = it.desired
      /\ Forgotten(it).written = None
      /\ Forgotten(it).charge = Bytes(it.desired)
  BY DEF Forgotten, ItemRecords
<1>5. ItemFits(Forgotten(it))
  BY <1>1, <1>4, BytesNone DEF ItemFits
<1> QED
  BY <1>3, <1>5

(* A successful write too leaves an item charged for what it records. *)
LEMMA WrittenItem ==
    ASSUME NEW it \in ItemRecords, control.owned \in Lobbies
    PROVE  /\ Written(it) \in ItemRecords
           /\ ItemFits(Written(it))
           /\ Written(it).lobby = control.owned
           /\ Written(it).written = it.desired
<1>1. it.registered \in BOOLEAN /\ it.desired \in Stored /\ Bytes(it.desired) \in Nat
  BY BytesType DEF ItemRecords
<1>2. control.owned \in 0..MaxLobbies
  BY LobbyItemsAssumption DEF Lobbies
<1>3. Written(it) \in ItemRecords
  BY <1>1, <1>2 DEF Written, ItemRecords
<1>4. /\ Written(it).desired = it.desired
      /\ Written(it).written = it.desired
      /\ Written(it).charge = Bytes(it.desired)
      /\ Written(it).lobby = control.owned
  BY DEF Written, ItemRecords
<1>5. ItemFits(Written(it))
  BY <1>1, <1>4 DEF ItemFits
<1> QED
  BY <1>3, <1>4, <1>5

(* An item as the pump finds it is as good as the item it came from. *)
LEMMA HereItem ==
    ASSUME Shapes, RecordingFits, WrittenIsStored, NEW i \in Items
    PROVE  /\ Here(i) \in ItemRecords
           /\ ItemFits(Here(i))
           /\ ItemStored(Here(i), i)
           /\ Here(i).desired = item[i].desired
<1>1. item[i] \in ItemRecords
  BY DEF Shapes
<1>2. CASE item[i].lobby = control.owned
  BY <1>1, <1>2 DEF Here, RecordingFits, WrittenIsStored, ItemFits, ItemStored
<1>3. CASE item[i].lobby # control.owned
  <2>1. Here(i) = Forgotten(item[i])
    BY <1>3 DEF Here
  <2>2. Forgotten(item[i]).desired = item[i].desired
    BY <1>1 DEF Forgotten, ItemRecords
  <2> QED
    BY <1>1, <2>1, <2>2, ForgottenItem DEF ItemStored
<1> QED
  BY <1>2, <1>3

LEMMA PassShape ==
    ASSUME Shapes, control.at = "Writing"
    PROVE  control.owned \in Lobbies /\ control.todo \in SUBSET Items
BY DEF Shapes, Controls, Idle, Preparing, Writing

LEMMA VisitShape ==
    ASSUME Shapes, NEW i \in Items, Visit(i)
    PROVE  control'  \in Controls /\ control.owned \in Lobbies
BY PassShape DEF Visit, Controls

(* A step that replaces one item, and the store at most there, keeps the   *)
(* invariant if the new item does.                                         *)
LEMMA OneItem ==
    ASSUME IInv, NEW i \in Items, NEW it \in ItemRecords,
           item' = [item EXCEPT ![i] = it],
           ItemFits(it),
           it.lobby # 0 /\ ~it.failure => store'[it.lobby][i] = it.written,
           \A j \in Items \ {i}, l \in Lobbies : store'[l][j] = store[l][j]
    PROVE  /\ item' \in [Items -> ItemRecords]
           /\ RecordingFits'
           /\ WrittenIsStored'
<1>1. item' \in [Items -> ItemRecords]
  BY DEF IInv, Shapes
<1>2. RecordingFits'
  BY DEF IInv, Shapes, RecordingFits, ItemFits, Bytes
<1>3. ASSUME NEW j \in Items, item'[j].lobby # 0, ~item'[j].failure
      PROVE  store'[item'[j].lobby][j] = item'[j].written
  <2>1. CASE j = i
    BY <1>3, <2>1 DEF IInv, Shapes
  <2>2. CASE j # i
    <3>1. item'[j] = item[j] /\ item[j] \in ItemRecords
      BY <2>2 DEF IInv, Shapes
    <3>2. item[j].lobby \in Lobbies
      BY <1>3, <3>1, LobbyItemsAssumption DEF ItemRecords, Lobbies
    <3> QED
      BY <1>3, <2>2, <3>1, <3>2 DEF IInv, WrittenIsStored
  <2> QED
    BY <2>1, <2>2
<1>4. WrittenIsStored'
  BY <1>3 DEF WrittenIsStored
<1> QED
  BY <1>1, <1>2, <1>4

-----------------------------------------------------------------------------

LEMMA InitIInv == Init => IInv
<1> SUFFICES ASSUME Init PROVE IInv
  OBVIOUS
<1>1. MaxLobbies \in Nat
  BY LobbyItemsAssumption
<1>2. NoItem \in ItemRecords
  BY <1>1 DEF NoItem, ItemRecords, Stored
<1>3. Shapes
  BY <1>1, <1>2 DEF Init, Shapes, NativeStates, Controls, Stored, Lobbies
<1>4. RecordingFits /\ WrittenIsStored
  BY BytesNone DEF Init, RecordingFits, WrittenIsStored, NoItem
<1> QED
  BY <1>3, <1>4 DEF IInv

(* What none of the invariant's variables feels. *)
LEMMA Untouched ==
    ASSUME IInv, UNCHANGED <<item, store>>
    PROVE  item' \in [Items -> ItemRecords] /\ RecordingFits' /\ WrittenIsStored'
BY DEF IInv, Shapes, RecordingFits, WrittenIsStored, Bytes

LEMMA StoreShape ==
    ASSUME Shapes, NEW i \in Items, control.owned \in Lobbies, store' \in {store, Put(i)}
    PROVE  /\ store' \in [Lobbies -> [Items -> Stored]]
           /\ \A j \in Items \ {i}, l \in Lobbies : store'[l][j] = store[l][j]
<1>1. item[i].desired \in Stored
  BY DEF Shapes, ItemRecords
<1> QED
  BY <1>1 DEF Shapes, Put

LEMMA NextIInv == IInv /\ [Next]_vars => IInv'
<1> SUFFICES ASSUME IInv, [Next]_vars PROVE IInv'
  OBVIOUS
<1>n. MaxLobbies \in Nat
  BY LobbyItemsAssumption
<1>t. \A i \in Items : item[i] \in ItemRecords
  BY DEF IInv, Shapes
<1>b. /\ \A i \in Items : ItemFits(item[i])
      /\ \A i \in Items : ItemStored(item[i], i)
  BY DEF IInv, RecordingFits, WrittenIsStored, ItemFits, ItemStored
<1>1. ASSUME NEW p \in Patches, Prepare(p) PROVE IInv'
  <2>1. UNCHANGED <<item, store, native, hosted>> /\ control' \in Controls
    BY <1>1 DEF Prepare, environment, Controls
  <2> QED
    BY <2>1, Untouched DEF IInv, Shapes
<1>2. ASSUME NEW p \in Patches, Install(p) PROVE IInv'
  <2>1. UNCHANGED <<item, store, native, hosted>> /\ control' \in Controls
    BY <1>2 DEF Install, environment, Controls
  <2> QED
    BY <2>1, Untouched DEF IInv, Shapes
<1>3. ASSUME NEW p \in Patches, Reject(p) PROVE IInv'
  <2>1. UNCHANGED <<store, native, hosted>> /\ control' \in Controls
    BY <1>3 DEF Reject, environment, Controls
  <2>2. /\ item' \in [Items -> ItemRecords]
        /\ \A i \in Items : item'[i] = NoItem \/ item'[i] = item[i]
    <3>1. NoItem \in ItemRecords
      BY <1>n DEF NoItem, ItemRecords, Stored
    <3> QED
      BY <1>3, <1>t, <3>1 DEF Reject
  <2>3. RecordingFits'
    BY <2>2, <1>b, BytesNone DEF RecordingFits, ItemFits, NoItem, Bytes
  <2>4. WrittenIsStored'
    BY <2>1, <2>2, <1>b DEF WrittenIsStored, ItemStored, NoItem
  <2> QED
    BY <2>1, <2>2, <2>3, <2>4 DEF IInv, Shapes
<1>4. ASSUME NEW i \in Items, Register(i) PROVE IInv'
  <2> DEFINE it == [item[i] EXCEPT !.registered = TRUE]
  <2>1. UNCHANGED <<store, native, hosted, control>> /\ item' = [item EXCEPT ![i] = it]
    BY <1>4, <1>t DEF Register, environment, IInv, Shapes
  <2>2. it \in ItemRecords /\ ItemFits(it) /\ ItemStored(it, i)
    BY <1>t, <1>b DEF ItemRecords, ItemFits, ItemStored
  <2> HIDE DEF it
  <2>3. item' \in [Items -> ItemRecords] /\ RecordingFits' /\ WrittenIsStored'
    BY <2>1, <2>2, OneItem DEF ItemStored
  <2> QED
    BY <2>1, <2>3 DEF IInv, Shapes
<1>5. ASSUME NEW i \in Items, NEW v \in Values, Publish(i, v) PROVE IInv'
  <2> DEFINE it == [item[i] EXCEPT !.desired = v, !.charge = RecordingCharge(i, v), !.withdraw = FALSE]
  <2>1. UNCHANGED <<store, native, hosted, control>> /\ item' = [item EXCEPT ![i] = it]
    BY <1>5, <1>t DEF Publish, environment, IInv, Shapes
  <2>2. Bytes(v) \in Nat /\ Bytes(item[i].written) \in Nat
    BY <1>t, BytesType DEF ItemRecords, Stored
  <2>3. /\ RecordingCharge(i, v) \in Nat
        /\ Bytes(v) <= RecordingCharge(i, v)
        /\ Bytes(item[i].written) <= RecordingCharge(i, v)
    BY <2>2 DEF RecordingCharge, Larger
  <2>4. it \in ItemRecords /\ ItemFits(it) /\ ItemStored(it, i)
    BY <2>3, <1>t, <1>b DEF ItemRecords, ItemFits, ItemStored, Stored
  <2> HIDE DEF it
  <2>5. item' \in [Items -> ItemRecords] /\ RecordingFits' /\ WrittenIsStored'
    BY <2>1, <2>4, OneItem DEF ItemStored
  <2> QED
    BY <2>1, <2>5 DEF IInv, Shapes
<1>6. ASSUME NEW i \in Items, Clear(i) PROVE IInv'
  <2> DEFINE it == [item[i] EXCEPT !.desired = None, !.withdraw = TRUE,
                                   !.charge = Bytes(item[i].written)]
  <2>1. UNCHANGED <<store, native, hosted, control>> /\ item' = [item EXCEPT ![i] = it]
    BY <1>6, <1>t DEF Clear, environment, IInv, Shapes
  <2>2. Bytes(item[i].written) \in Nat
    BY <1>t, BytesType DEF ItemRecords
  <2>3. None \in Stored
    BY DEF Stored
  <2>4. /\ it \in ItemRecords
        /\ it.desired = None /\ it.written = item[i].written
        /\ it.charge = Bytes(item[i].written)
        /\ it.lobby = item[i].lobby /\ it.failure = item[i].failure
    BY <2>2, <2>3, <1>t DEF ItemRecords
  <2>5. ItemFits(it)
    BY <2>2, <2>4, BytesNone DEF ItemFits
  <2>6. ItemStored(it, i)
    BY <2>4, <1>b DEF ItemStored
  <2> HIDE DEF it
  <2>7. item' \in [Items -> ItemRecords] /\ RecordingFits' /\ WrittenIsStored'
    BY <2>1, <2>4, <2>5, <2>6, OneItem DEF ItemStored
  <2> QED
    BY <2>1, <2>7 DEF IInv, Shapes
<1>7. CASE NativeChanges
  <2>1. UNCHANGED <<item, store, control>> /\ hosted' \in 0..MaxLobbies /\ native' \in NativeStates
    BY <1>7, <1>n DEF NativeChanges, NativeStates, IInv, Shapes
  <2> QED
    BY <2>1, Untouched DEF IInv, Shapes
<1>8. ASSUME NEW i \in Items, SecondPasses(i) PROVE IInv'
  <2> DEFINE it == [item[i] EXCEPT !.recent = FALSE]
  <2>1. UNCHANGED <<store, native, hosted, control>> /\ item' = [item EXCEPT ![i] = it]
    BY <1>8, <1>t DEF SecondPasses, environment, IInv, Shapes
  <2>2. it \in ItemRecords /\ ItemFits(it) /\ ItemStored(it, i)
    BY <1>t, <1>b DEF ItemRecords, ItemFits, ItemStored
  <2> HIDE DEF it
  <2>3. item' \in [Items -> ItemRecords] /\ RecordingFits' /\ WrittenIsStored'
    BY <2>1, <2>2, OneItem DEF ItemStored
  <2> QED
    BY <2>1, <2>3 DEF IInv, Shapes
<1>9. CASE PumpBegin
  <2>1. UNCHANGED <<store, native, hosted>>
    BY <1>9 DEF PumpBegin, environment
  <2>2. CASE native.available /\ native.owned # 0 /\ UNCHANGED item /\
             control' = Writing(native.owned, {i \in Items : item[i].registered})
    <3>1. native.owned \in Lobbies
      BY <2>2, <1>n DEF IInv, Shapes, NativeStates, Lobbies
    <3>2. control' \in Controls
      BY <2>2, <3>1 DEF Controls
    <3> QED
      BY <2>1, <2>2, <3>2, Untouched DEF IInv, Shapes
  <2>3. CASE item' = [i \in Items |-> Forgotten(item[i])] /\ UNCHANGED control
    <3>1. item' \in [Items -> ItemRecords] /\ \A i \in Items : ItemFits(item'[i]) /\ item'[i].lobby = 0
      BY <2>3, <1>t, ForgottenItem
    <3>2. RecordingFits' /\ WrittenIsStored'
      BY <3>1 DEF RecordingFits, WrittenIsStored, ItemFits, Bytes
    <3> QED
      BY <2>1, <2>3, <3>1, <3>2 DEF IInv, Shapes
  <2> QED
    BY <1>9, <2>2, <2>3 DEF PumpBegin
<1>10. CASE PumpEnd
  <2>1. UNCHANGED <<item, store, native, hosted>> /\ control' \in Controls
    BY <1>10 DEF PumpEnd, environment, Controls
  <2> QED
    BY <2>1, Untouched DEF IInv, Shapes
<1>11. ASSUME NEW i \in Items, PumpSkips(i) PROVE IInv'
  <2> DEFINE it == IF Active(i) THEN Here(i) ELSE item[i]
  <2>1. UNCHANGED <<store, native, hosted>> /\ item' = [item EXCEPT ![i] = it]
    BY <1>11 DEF PumpSkips, Becomes, environment
  <2>2. control' \in Controls
    BY <1>11, VisitShape DEF PumpSkips, IInv
  <2>3. it \in ItemRecords /\ ItemFits(it) /\ ItemStored(it, i)
    BY <1>t, <1>b, HereItem DEF IInv
  <2> HIDE DEF it
  <2>4. item' \in [Items -> ItemRecords] /\ RecordingFits' /\ WrittenIsStored'
    BY <2>1, <2>3, OneItem DEF ItemStored
  <2> QED
    BY <2>1, <2>2, <2>4 DEF IInv, Shapes
<1>12. ASSUME NEW i \in Items, PumpWithdrawn(i) PROVE IInv'
  <2> DEFINE it == [Here(i) EXCEPT !.withdraw = FALSE]
  <2>1. UNCHANGED <<store, native, hosted>> /\ item' = [item EXCEPT ![i] = it]
    BY <1>12 DEF PumpWithdrawn, Becomes, environment
  <2>2. control' \in Controls
    BY <1>12, VisitShape DEF PumpWithdrawn, IInv
  <2>3. it \in ItemRecords /\ ItemFits(it) /\ ItemStored(it, i)
    BY HereItem DEF IInv, ItemRecords, ItemFits, ItemStored
  <2> HIDE DEF it
  <2>4. item' \in [Items -> ItemRecords] /\ RecordingFits' /\ WrittenIsStored'
    BY <2>1, <2>3, OneItem DEF ItemStored
  <2> QED
    BY <2>1, <2>2, <2>4 DEF IInv, Shapes
<1>13. ASSUME NEW i \in Items, PumpWrites(i) PROVE IInv'
  <2> DEFINE it == Written(Here(i))
  <2>1. UNCHANGED <<native, hosted>> /\ item' = [item EXCEPT ![i] = it] /\ store' = Put(i)
    BY <1>13 DEF PumpWrites, Becomes, environment
  <2>2. control' \in Controls /\ control.owned \in Lobbies
    BY <1>13, VisitShape DEF PumpWrites, IInv
  <2>3. /\ store' \in [Lobbies -> [Items -> Stored]]
        /\ \A j \in Items \ {i}, l \in Lobbies : store'[l][j] = store[l][j]
    BY <2>1, <2>2, StoreShape DEF IInv
  <2>4. Here(i) \in ItemRecords /\ Here(i).desired = item[i].desired
    BY HereItem DEF IInv
  <2>5. it \in ItemRecords /\ ItemFits(it) /\ it.lobby = control.owned /\ it.written = item[i].desired
    BY <2>2, <2>4, WrittenItem
  <2>6. store'[control.owned][i] = item[i].desired
    BY <2>1, <2>2 DEF Put, IInv, Shapes
  <2> HIDE DEF it
  <2>7. item' \in [Items -> ItemRecords] /\ RecordingFits' /\ WrittenIsStored'
    BY <2>1, <2>3, <2>5, <2>6, OneItem
  <2> QED
    BY <2>1, <2>2, <2>3, <2>7 DEF IInv, Shapes
<1>14. ASSUME NEW i \in Items, PumpFails(i) PROVE IInv'
  <2> DEFINE it == Unwritten(Here(i))
  <2>1. UNCHANGED <<native, hosted>> /\ item' = [item EXCEPT ![i] = it] /\ store' \in {store, Put(i)}
    BY <1>14 DEF PumpFails, Becomes, environment
  <2>2. control' \in Controls /\ control.owned \in Lobbies
    BY <1>14, VisitShape DEF PumpFails, IInv
  <2>3. /\ store' \in [Lobbies -> [Items -> Stored]]
        /\ \A j \in Items \ {i}, l \in Lobbies : store'[l][j] = store[l][j]
    BY <2>1, <2>2, StoreShape DEF IInv
  <2>4. it \in ItemRecords /\ ItemFits(it) /\ it.failure
    BY HereItem DEF IInv, Unwritten, ItemRecords, ItemFits
  <2> HIDE DEF it
  <2>5. item' \in [Items -> ItemRecords] /\ RecordingFits' /\ WrittenIsStored'
    BY <2>1, <2>3, <2>4, OneItem
  <2> QED
    BY <2>1, <2>2, <2>3, <2>5 DEF IInv, Shapes
<1>15. CASE UNCHANGED vars
  BY <1>15, Untouched DEF vars, IInv, Shapes
<1> QED
  BY <1>1, <1>2, <1>3, <1>4, <1>5, <1>6, <1>7, <1>8, <1>9, <1>10, <1>11, <1>12,
     <1>13, <1>14, <1>15 DEF Next, Ends, Pump

(* The invariant holds in every reachable state. *)
LEMMA ItemsInvariant == Spec => []IInv
BY InitIInv, NextIInv, PTL DEF Spec

(* Accepting a value reserves enough to record its write, whatever happens *)
(* before: pump() never needs room that publish() did not take.            *)
THEOREM WritesFit == Spec => []RecordingFits
BY ItemsInvariant, PTL DEF IInv

(* What the service takes for written is in the lobby, unless the last     *)
(* write failed.                                                           *)
THEOREM WritesKnown == Spec => []WrittenIsStored
BY ItemsInvariant, PTL DEF IInv

-----------------------------------------------------------------------------
(* The budget.                                                             *)

(* An item that is not registered is charged nothing, and has nothing to   *)
(* be charged for: a pass that visits it changes no budget.                *)
Blank(it) == ~it.registered => it.desired = None /\ it.charge = 0
Blanks == \A i \in Items : Blank(item[i])

Rest ==
    /\ native.owned \in {0, hosted}
    /\ patch \in [Patches -> PatchStates]
    /\ {changes, failures, calls} \subseteq Nat

BInv == IInv /\ Blanks /\ ItemsCharged /\ Rest

LEMMA ChargeType ==
    ASSUME NEW it \in ItemRecords
    PROVE  Charge(it) \in Nat
<1>1. it.charge \in Nat /\ Bytes(it.desired) \in Nat /\ ItemCost \in Nat
  BY BytesType, LobbyItemsAssumption DEF ItemRecords
<1> QED
  BY <1>1 DEF Charge

LEMMA ChargesType ==
    ASSUME item \in [Items -> ItemRecords]
    PROVE  /\ \A i \in Items : Charges[i] = Charge(item[i]) /\ Charges[i] \in Nat
           /\ SumFunctionOnSet(Charges, Items) \in Nat
<1>1. \A i \in Items : Charges[i] = Charge(item[i]) /\ Charges[i] \in Nat
  BY ChargeType DEF Charges
<1>2. Sum(Charges, Items) \in Nat
  BY <1>1, SumNat, LobbyItemsAssumption
<1> QED
  BY <1>1, <1>2 DEF Sum

(* The budget of a step that replaces one item follows from that item. *)
LEMMA OneCharge ==
    ASSUME item \in [Items -> ItemRecords], NEW i \in Items, NEW it \in ItemRecords,
           item' = [item EXCEPT ![i] = it]
    PROVE  SumFunctionOnSet(Charges', Items) =
               SumFunctionOnSet(Charges, Items) + Charge(it) - Charge(item[i])
<1>1. /\ item' \in [Items -> ItemRecords] /\ item'[i] = it
      /\ \A j \in Items \ {i} : item'[j] = item[j]
  OBVIOUS
<1>2. \A j \in Items : Charges[j] = Charge(item[j]) /\ Charges[j] \in Nat
  BY ChargesType
<1>3. \A j \in Items : Charges'[j] = Charge(item'[j])
  BY DEF Charges, Charge, Bytes
<1>4. Charge(it) \in Nat
  BY ChargeType
<1> SUFFICES ASSUME NEW before, before = Charges, NEW after, after = Charges'
             PROVE  SumFunctionOnSet(after, Items) =
                       SumFunctionOnSet(before, Items) + Charge(it) - Charge(item[i])
  OBVIOUS
<1>5. /\ \A j \in Items : before[j] \in Int
      /\ after[i] = Charge(it) /\ before[i] = Charge(item[i])
      /\ \A j \in Items \ {i} : after[j] = before[j]
  BY <1>1, <1>2, <1>3
<1>6. IsFiniteSet(Items) /\ after[i] \in Int
  BY <1>4, <1>5, LobbyItemsAssumption
<1>7. Sum(after, Items) = Sum(before, Items) + after[i] - before[i]
  BY <1>5, <1>6, SumChange
<1> QED
  BY <1>5, <1>7 DEF Sum

(* A registered item keeps its desired value and is charged no more.       *)
LEMMA OneRefund ==
    ASSUME BInv, NEW i \in Items, NEW it \in ItemRecords, item' = [item EXCEPT ![i] = it],
           it.registered = item[i].registered, it.desired = item[i].desired,
           it.charge <= item[i].charge, Blank(it),
           used' = used - (item[i].charge - it.charge)
    PROVE  ItemsCharged' /\ Blanks'
<1>1. /\ item \in [Items -> ItemRecords] /\ item[i] \in ItemRecords
      /\ used = SumFunctionOnSet(Charges, Items) /\ used <= Capacity /\ Blank(item[i])
  BY DEF BInv, IInv, Shapes, ItemsCharged, Blanks
<1>2. SumFunctionOnSet(Charges', Items) = used + Charge(it) - Charge(item[i])
  BY <1>1, OneCharge
<1>3. /\ it.charge \in Nat /\ item[i].charge \in Nat /\ ItemCost \in Nat /\ Capacity \in Nat
      /\ Bytes(it.desired) \in Nat
  BY <1>1, BytesType, LobbyItemsAssumption DEF ItemRecords
<1>4. used \in Nat
  BY <1>1, ChargesType
<1>5. used' = used + Charge(it) - Charge(item[i])
  <2>1. CASE it.registered
    BY <1>3, <1>4, <2>1 DEF Charge
  <2>2. CASE ~it.registered
    BY <1>1, <1>3, <1>4, <2>2 DEF Charge, Blank
  <2> QED
    BY <2>1, <2>2
<1>6. used' <= Capacity
  BY <1>1, <1>3, <1>4
<1>7. Blanks'
  <2> SUFFICES ASSUME NEW j \in Items PROVE Blank(item'[j])
    BY DEF Blanks, Blank
  <2>1. item'[j] = it \/ item'[j] = item[j]
    BY <1>1
  <2> QED
    BY <2>1 DEF BInv, Blanks
<1> QED
  BY <1>2, <1>5, <1>6, <1>7 DEF ItemsCharged

LEMMA HereCharged ==
    ASSUME BInv, NEW i \in Items
    PROVE  /\ Here(i) \in ItemRecords /\ Blank(Here(i)) /\ ItemFits(Here(i))
           /\ Here(i).registered = item[i].registered
           /\ Here(i).desired = item[i].desired
           /\ Here(i).charge <= item[i].charge
<1>1. item[i] \in ItemRecords /\ Blank(item[i]) /\ ItemFits(item[i])
  BY DEF BInv, IInv, Shapes, Blanks, RecordingFits, ItemFits
<1>2. Here(i) \in ItemRecords /\ ItemFits(Here(i)) /\ Here(i).desired = item[i].desired
  BY HereItem DEF BInv, IInv
<1>3. item[i].charge \in Nat
  BY <1>1 DEF ItemRecords
<1>4. CASE Here(i) = item[i]
  BY <1>1, <1>2, <1>3, <1>4
<1>5. CASE Here(i) = Forgotten(item[i])
  <2>1. /\ Here(i).registered = item[i].registered
        /\ Here(i).charge = Bytes(item[i].desired)
    BY <1>1, <1>5 DEF Forgotten, ItemRecords
  <2>2. Blank(Here(i))
    BY <1>1, <1>2, <2>1, BytesNone DEF Blank
  <2> QED
    BY <1>1, <1>2, <2>1, <2>2 DEF ItemFits
<1> QED
  BY <1>4, <1>5 DEF Here

(* What a visit makes of the item it found costs no more than before.      *)
LEMMA VisitRefunds ==
    ASSUME BInv, NEW i \in Items, NEW it \in ItemRecords, Becomes(i, it), Blank(it),
           it.registered = Here(i).registered, it.desired = Here(i).desired,
           it.charge <= Here(i).charge
    PROVE  ItemsCharged' /\ Blanks'
<1>1. /\ Here(i).registered = item[i].registered /\ Here(i).desired = item[i].desired
      /\ Here(i).charge <= item[i].charge /\ Here(i) \in ItemRecords
  BY HereCharged
<1>2. item[i] \in ItemRecords
  BY DEF BInv, IInv, Shapes
<1>3. it.charge <= item[i].charge
  BY <1>1, <1>2 DEF ItemRecords
<1>4. item' = [item EXCEPT ![i] = it] /\ used' = used - (item[i].charge - it.charge)
  BY DEF Becomes
<1> QED
  BY <1>1, <1>3, <1>4, OneRefund

(* A rejected patch gives back what its items are charged. *)
LEMMA RejectRefunds ==
    ASSUME BInv, NEW p \in Patches, Reject(p)
    PROVE  ItemsCharged' /\ Blanks'
<1> DEFINE own == {i \in Items : Owner[i] = p /\ item[i].registered}
<1>1. /\ item \in [Items -> ItemRecords] /\ used = SumFunctionOnSet(Charges, Items)
      /\ used <= Capacity /\ Blanks
  BY DEF BInv, IInv, Shapes, ItemsCharged
<1>2. /\ item' = [i \in Items |-> IF i \in own THEN NoItem ELSE item[i]]
      /\ used' = used - SumFunctionOnSet(Charges, own)
  BY DEF Reject
<1>3. /\ Blanks' /\ Blank(NoItem)
      /\ \A i \in Items : i \in own => item'[i] = NoItem
      /\ \A i \in Items \ own : item'[i] = item[i]
  BY <1>1, <1>2 DEF Blanks, Blank, NoItem
<1>4. /\ \A i \in Items : Charges[i] \in Nat
      /\ \A i \in own : Charges'[i] = 0
      /\ \A i \in Items \ own : Charges'[i] = Charges[i]
  <2>1. \A i \in Items : Charges[i] \in Nat /\ Charges[i] = Charge(item[i])
    BY <1>1, ChargesType
  <2>2. \A i \in Items : Charges'[i] = Charge(item'[i])
    BY DEF Charges, Charge, Bytes
  <2>3. Charge(NoItem) = 0
    BY DEF Charge, NoItem
  <2> QED
    BY <1>3, <2>1, <2>2, <2>3
<1> SUFFICES ASSUME NEW before, before = Charges, NEW after, after = Charges'
             PROVE  used' = SumFunctionOnSet(after, Items) /\ used' <= Capacity
  BY <1>3 DEF ItemsCharged
<1>5. /\ \A i \in Items : before[i] \in Int /\ before[i] \in Nat
      /\ \A i \in own : after[i] = 0 /\ after[i] \in Int
      /\ \A i \in Items \ own : after[i] = before[i]
      /\ used = SumFunctionOnSet(before, Items)
      /\ used' = used - SumFunctionOnSet(before, own)
  BY <1>1, <1>2, <1>4
<1>6. own \in SUBSET Items /\ IsFiniteSet(Items)
  BY LobbyItemsAssumption
<1> HIDE DEF own
<1>7. \A i \in Items : after[i] \in Int
  BY <1>5
<1>8. /\ Sum(before, Items) = Sum(before, own) + Sum(before, Items \ own)
      /\ Sum(after, Items) = Sum(after, own) + Sum(after, Items \ own)
  BY <1>5, <1>6, <1>7, SumSplit
<1>9. IsFiniteSet(own) /\ IsFiniteSet(Items \ own)
  BY <1>6, FS_Subset
<1>10. Sum(after, Items \ own) = Sum(before, Items \ own)
  <2>1. \A i \in Items \ own : before[i] \in Int
    BY <1>5
  <2> QED
    BY <1>5, <1>9, <2>1, SumSame
<1>11. Sum(after, own) = 0
  BY <1>5, <1>9, SumZero
<1>12. /\ Sum(before, own) \in Nat
       /\ Sum(before, Items \ own) \in Nat
  <2>1. (\A i \in own : before[i] \in Nat) /\ (\A i \in Items \ own : before[i] \in Nat)
    BY <1>5, <1>6
  <2> QED
    BY <1>9, <2>1, SumNat
<1> QED
  BY <1>1, <1>5, <1>8, <1>10, <1>11, <1>12, LobbyItemsAssumption DEF Sum

(* Without a lobby every item gives back what its last write cost. *)
LEMMA ForgettingRefunds ==
    ASSUME BInv, item' = [i \in Items |-> Forgotten(item[i])],
           used' = used - SumFunctionOnSet([i \in Items |-> item[i].charge - item'[i].charge], Items)
    PROVE  ItemsCharged' /\ Blanks'
<1>1. /\ item \in [Items -> ItemRecords] /\ used = SumFunctionOnSet(Charges, Items)
      /\ used <= Capacity /\ Blanks /\ RecordingFits
  BY DEF BInv, IInv, Shapes, ItemsCharged
<1>2. ASSUME NEW i \in Items
      PROVE  /\ Blank(item'[i])
             /\ item[i].charge - item'[i].charge \in Nat
             /\ Charge(item[i]) - Charge(item'[i]) = item[i].charge - item'[i].charge
             /\ Charge(item[i]) \in Nat /\ Charge(item'[i]) \in Nat
  <2>1. item[i] \in ItemRecords /\ Blank(item[i]) /\ Bytes(item[i].desired) <= item[i].charge
    BY <1>1 DEF Blanks, RecordingFits
  <2>2. item'[i] = Forgotten(item[i]) /\ Forgotten(item[i]) \in ItemRecords
    BY <2>1, ForgottenItem
  <2>3. /\ item'[i].registered = item[i].registered /\ item'[i].desired = item[i].desired
        /\ item'[i].charge = Bytes(item[i].desired)
    BY <2>1, <2>2 DEF Forgotten, ItemRecords
  <2>4. item[i].charge \in Nat /\ Bytes(item[i].desired) \in Nat /\ ItemCost \in Nat
    BY <2>1, BytesType, LobbyItemsAssumption DEF ItemRecords
  <2>5. Blank(item'[i])
    BY <2>1, <2>3, BytesNone DEF Blank
  <2>6. Charge(item[i]) \in Nat /\ Charge(item'[i]) \in Nat
    BY <2>1, <2>2, ChargeType
  <2>7. Charge(item[i]) - Charge(item'[i]) = item[i].charge - item'[i].charge
    <3>1. CASE item[i].registered
      <4>1. /\ Charge(item[i]) = ItemCost + Bytes(item[i].desired) + item[i].charge
            /\ Charge(item'[i]) = ItemCost + Bytes(item[i].desired) + item'[i].charge
        BY <2>3, <3>1 DEF Charge
      <4>2. item'[i].charge \in Nat
        BY <2>3, <2>4
      <4> QED
        BY <2>4, <4>1, <4>2
    <3>2. CASE ~item[i].registered
      BY <2>1, <2>3, <2>5, <3>2 DEF Charge, Blank
    <3> QED
      BY <3>1, <3>2
  <2> QED
    BY <2>1, <2>3, <2>4, <2>5, <2>6, <2>7
<1>3. Blanks'
  BY <1>2 DEF Blanks, Blank
<1>4. \A i \in Items : Charges[i] = Charge(item[i]) /\ Charges'[i] = Charge(item'[i])
  BY DEF Charges, Charge, Bytes
<1> SUFFICES ASSUME NEW before, before = Charges, NEW after, after = Charges',
                    NEW less, less = [i \in Items |-> item[i].charge - item'[i].charge]
             PROVE  used' = SumFunctionOnSet(after, Items) /\ used' <= Capacity
  BY <1>3 DEF ItemsCharged
<1>5. \A i \in Items : /\ before[i] \in Int /\ after[i] \in Int
                       /\ less[i] \in Nat /\ less[i] = before[i] - after[i]
  BY <1>2, <1>4
<1>6. IsFiniteSet(Items)
  BY LobbyItemsAssumption
<1>7. Sum(less, Items) = Sum(before, Items) - Sum(after, Items)
  BY <1>5, <1>6, SumDifference
<1>8. Sum(less, Items) \in Nat /\ Sum(before, Items) \in Int /\ Sum(after, Items) \in Int
  BY <1>5, <1>6, SumNat, SumInt
<1>9. used = Sum(before, Items) /\ used' = used - Sum(less, Items)
  BY <1>1 DEF Sum
<1> QED
  BY <1>1, <1>7, <1>8, <1>9, LobbyItemsAssumption DEF Sum

LEMMA InitBInv == Init => BInv
<1> SUFFICES ASSUME Init PROVE BInv
  OBVIOUS
<1>1. IInv
  BY InitIInv
<1>2. Blanks /\ \A i \in Items : Charges[i] = 0
  BY DEF Init, Blanks, Blank, NoItem, Charges, Charge
<1>3. Sum(Charges, Items) = 0
  BY <1>2, SumZero, LobbyItemsAssumption
<1>4. ItemsCharged
  BY <1>3, LobbyItemsAssumption DEF Init, ItemsCharged, Sum
<1>5. Rest
  BY DEF Init, Rest, PatchStates
<1> QED
  BY <1>1, <1>2, <1>4, <1>5 DEF BInv

LEMMA RestStep == BInv /\ [Next]_vars => Rest'
<1> SUFFICES ASSUME BInv, [Next]_vars PROVE Rest'
  OBVIOUS
<1>1. /\ native.owned \in {0, hosted} /\ hosted \in 0..MaxLobbies /\ MaxLobbies \in Nat
      /\ changes \in Nat /\ failures \in Nat /\ calls \in Nat
      /\ patch \in [Patches -> PatchStates]
  BY LobbyItemsAssumption DEF BInv, IInv, Shapes, Rest
<1>2. CASE NativeChanges
  <2>1. native'.owned \in {0, hosted'} /\ changes' \in Nat /\ UNCHANGED <<patch, failures, calls>>
    BY <1>1, <1>2 DEF NativeChanges
  <2> QED
    BY <1>1, <2>1 DEF Rest
<1>3. CASE (\E p \in Patches : Prepare(p) \/ Install(p) \/ Reject(p))
  <2>1. patch' \in [Patches -> PatchStates] /\ UNCHANGED <<environment, failures, calls>>
    BY <1>1, <1>3 DEF Prepare, Install, Reject, PatchStates
  <2> QED
    BY <1>1, <2>1 DEF Rest, environment
<1>4. CASE UNCHANGED <<environment, patch>> /\ failures' \in Nat /\ calls' \in Nat
  BY <1>1, <1>4 DEF Rest, environment
<1>5. CASE \E i \in Items : Register(i) \/ Clear(i) \/ SecondPasses(i) \/ \E v \in Values : Publish(i, v)
  <2>1. UNCHANGED <<environment, patch>> /\ failures' \in Nat /\ calls' \in Nat
    <3>1. CASE \E i \in Items : Register(i) \/ SecondPasses(i)
      BY <1>1, <3>1, Zenon DEF Register, SecondPasses
    <3>2. CASE \E i \in Items : Clear(i) \/ \E v \in Values : Publish(i, v)
      <4>1. UNCHANGED <<environment, patch, failures>> /\ calls' = calls + 1
        BY <3>2, Zenon DEF Clear, Publish, Callable
      <4> QED
        BY <1>1, <4>1
    <3> QED
      BY <1>5, <3>1, <3>2
  <2> QED
    BY <1>4, <2>1
<1>6. CASE Pump
  <2>1. UNCHANGED <<environment, patch, calls>>
    BY <1>6, Zenon DEF Pump, PumpBegin, PumpEnd, PumpSkips, PumpWithdrawn, PumpWrites, PumpFails
  <2>2. failures' = failures \/ failures' = failures + 1
    BY <1>6, Zenon DEF Pump, PumpBegin, PumpEnd, PumpSkips, PumpWithdrawn, PumpWrites, PumpFails
  <2> QED
    BY <1>1, <1>4, <2>1, <2>2
<1>7. CASE UNCHANGED vars
  BY <1>1, <1>4, <1>7 DEF vars, environment
<1> QED
  BY <1>2, <1>3, <1>5, <1>6, <1>7 DEF Next, Ends

(* What the budget does not feel. *)
LEMMA Uncharged ==
    ASSUME BInv, UNCHANGED <<item, used>>
    PROVE  ItemsCharged' /\ Blanks'
BY DEF BInv, ItemsCharged, Blanks, Charges, Charge, Blank, Bytes

LEMMA BudgetStep == BInv /\ [Next]_vars => ItemsCharged' /\ Blanks'
<1> SUFFICES ASSUME BInv, [Next]_vars PROVE ItemsCharged' /\ Blanks'
  OBVIOUS
<1>1. /\ item \in [Items -> ItemRecords] /\ \A i \in Items : item[i] \in ItemRecords
      /\ used = SumFunctionOnSet(Charges, Items) /\ used <= Capacity /\ Blanks
      /\ \A i \in Items : Blank(item[i]) /\ ItemFits(item[i])
  BY DEF BInv, IInv, Shapes, ItemsCharged, Blanks, RecordingFits, ItemFits
<1>2. used \in Nat /\ Capacity \in Nat /\ ItemCost \in Nat
  BY <1>1, ChargesType, LobbyItemsAssumption
<1>3. ASSUME NEW p \in Patches, Prepare(p) \/ Install(p) PROVE ItemsCharged' /\ Blanks'
  BY <1>3, Uncharged DEF Prepare, Install
<1>4. ASSUME NEW p \in Patches, Reject(p) PROVE ItemsCharged' /\ Blanks'
  BY <1>4, RejectRefunds
(* A step of one item leaves the others blank or not. *)
<1>5. ASSUME NEW i \in Items, NEW it \in ItemRecords, item' = [item EXCEPT ![i] = it], Blank(it),
             used' = used + (Charge(it) - Charge(item[i])), used' <= Capacity
      PROVE  ItemsCharged' /\ Blanks'
  <2>1. SumFunctionOnSet(Charges', Items) = used + Charge(it) - Charge(item[i])
    BY <1>1, <1>5, OneCharge
  <2>2. Charge(it) \in Nat /\ Charge(item[i]) \in Nat
    BY <1>1, ChargeType
  <2>3. \A j \in Items : Blank(item'[j])
    BY <1>1, <1>5
  <2> QED
    BY <1>2, <1>5, <2>1, <2>2, <2>3 DEF ItemsCharged, Blanks, Blank
<1>6. ASSUME NEW i \in Items, Register(i) PROVE ItemsCharged' /\ Blanks'
  <2> DEFINE it == [item[i] EXCEPT !.registered = TRUE]
  <2>1. item' = [item EXCEPT ![i] = it] /\ used' = used + ItemCost /\ used' <= Capacity /\ ~item[i].registered
    BY <1>1, <1>6 DEF Register
  <2>2. /\ it \in ItemRecords /\ it.registered
        /\ it.desired = item[i].desired /\ it.charge = item[i].charge
    BY <1>1 DEF ItemRecords
  <2> HIDE DEF it
  <2>3. item[i].desired = None /\ item[i].charge = 0
    BY <1>1, <2>1 DEF Blank
  <2>4. Charge(it) = ItemCost /\ Charge(item[i]) = 0
    BY <1>2, <2>1, <2>2, <2>3, BytesNone DEF Charge
  <2>5. Blank(it) /\ used' = used + (Charge(it) - Charge(item[i]))
    BY <1>2, <2>1, <2>2, <2>4 DEF Blank
  <2> QED
    BY <1>5, <2>1, <2>2, <2>5
<1>7. ASSUME NEW i \in Items, NEW v \in Values, Publish(i, v) PROVE ItemsCharged' /\ Blanks'
  <2> DEFINE it == [item[i] EXCEPT !.desired = v, !.charge = RecordingCharge(i, v), !.withdraw = FALSE]
             more == Bytes(v) + RecordingCharge(i, v) - (Bytes(item[i].desired) + item[i].charge)
  <2>1. /\ item' = [item EXCEPT ![i] = it] /\ used' = used + more /\ item[i].registered
        /\ more <= 0 \/ used + more <= Capacity
    BY <1>1, <1>7 DEF Publish, Callable
  <2>2. /\ Bytes(v) \in Nat /\ Bytes(item[i].written) \in Nat
        /\ Bytes(item[i].desired) \in Nat /\ item[i].charge \in Nat
    BY <1>1, BytesType DEF ItemRecords, Stored
  <2>3. RecordingCharge(i, v) \in Nat
    BY <2>2 DEF RecordingCharge, Larger
  <2>4. /\ it \in ItemRecords /\ it.registered = item[i].registered
        /\ it.desired = v /\ it.charge = RecordingCharge(i, v)
    BY <1>1, <2>3 DEF ItemRecords, Stored
  <2>5. /\ Charge(item[i]) = ItemCost + Bytes(item[i].desired) + item[i].charge
        /\ Charge(it) = ItemCost + Bytes(v) + RecordingCharge(i, v)
    BY <2>1, <2>4 DEF Charge
  <2> HIDE DEF it
  <2>6. /\ used' = used + (Charge(it) - Charge(item[i]))
        /\ used' <= Capacity
    BY <1>1, <1>2, <2>1, <2>2, <2>3, <2>5
  <2>7. Blank(it)
    BY <2>1, <2>4 DEF Blank
  <2> QED
    BY <1>5, <2>1, <2>4, <2>6, <2>7
<1>8. ASSUME NEW i \in Items, Clear(i) PROVE ItemsCharged' /\ Blanks'
  <2> DEFINE it == [item[i] EXCEPT !.desired = None, !.withdraw = TRUE,
                                   !.charge = Bytes(item[i].written)]
  <2>1. /\ item' = [item EXCEPT ![i] = it] /\ item[i].registered
        /\ used' = used - Bytes(item[i].desired) - (item[i].charge - item'[i].charge)
    BY <1>1, <1>8 DEF Clear, Callable
  <2>2. /\ Bytes(item[i].written) \in Nat /\ Bytes(item[i].desired) \in Nat /\ item[i].charge \in Nat
        /\ Bytes(item[i].written) <= item[i].charge
    BY <1>1, BytesType DEF ItemRecords, ItemFits
  <2>3. /\ it \in ItemRecords /\ it.registered = item[i].registered
        /\ it.desired = None /\ it.charge = Bytes(item[i].written)
    BY <1>1, <2>2 DEF ItemRecords, Stored
  <2> HIDE DEF it
  <2>4. item'[i] = it
    BY <1>1, <2>1
  <2>5. /\ Charge(item[i]) = ItemCost + Bytes(item[i].desired) + item[i].charge
        /\ Charge(it) = ItemCost + 0 + Bytes(item[i].written)
    BY <2>1, <2>3, BytesNone DEF Charge
  <2>6. /\ used' = used + (Charge(it) - Charge(item[i]))
        /\ used' <= Capacity
    BY <1>1, <1>2, <2>1, <2>2, <2>3, <2>4, <2>5
  <2>7. Blank(it)
    BY <2>1, <2>3 DEF Blank
  <2> QED
    BY <1>5, <2>1, <2>3, <2>6, <2>7
<1>9. CASE NativeChanges
  BY <1>9, Uncharged DEF NativeChanges
<1>10. ASSUME NEW i \in Items, SecondPasses(i) PROVE ItemsCharged' /\ Blanks'
  <2> DEFINE it == [item[i] EXCEPT !.recent = FALSE]
  <2>1. item' = [item EXCEPT ![i] = it] /\ used' = used
    BY <1>1, <1>10 DEF SecondPasses
  <2>2. /\ it \in ItemRecords /\ Blank(it) /\ it.registered = item[i].registered
        /\ it.desired = item[i].desired /\ it.charge = item[i].charge
    BY <1>1 DEF ItemRecords, Blank
  <2> HIDE DEF it
  <2>3. item[i].charge \in Nat
    BY <1>1 DEF ItemRecords
  <2>4. it.charge <= item[i].charge /\ used' = used - (item[i].charge - it.charge)
    BY <1>2, <2>1, <2>2, <2>3
  <2> QED
    BY <2>1, <2>2, <2>4, OneRefund
<1>11. CASE PumpBegin
  <2>1. CASE UNCHANGED <<item, used>>
    BY <2>1, Uncharged
  <2>2. CASE /\ item' = [i \in Items |-> Forgotten(item[i])]
             /\ used' = used - SumFunctionOnSet([i \in Items |-> item[i].charge - item'[i].charge], Items)
    BY <2>2, ForgettingRefunds
  <2> QED
    BY <1>11, <2>1, <2>2 DEF PumpBegin
<1>12. CASE PumpEnd
  BY <1>12, Uncharged DEF PumpEnd
<1>13. ASSUME NEW i \in Items PROVE /\ Here(i) \in ItemRecords /\ Blank(Here(i)) /\ ItemFits(Here(i))
                                   /\ Here(i).charge \in Nat
  BY HereCharged DEF ItemRecords
<1>14. ASSUME NEW i \in Items, PumpSkips(i) PROVE ItemsCharged' /\ Blanks'
  <2>1. CASE Active(i)
    BY <1>13, <1>14, <2>1, VisitRefunds DEF PumpSkips
  <2>2. CASE ~Active(i)
    <3>1. item' = [item EXCEPT ![i] = item[i]] /\ used' = used - (item[i].charge - item[i].charge)
      BY <1>14, <2>2 DEF PumpSkips, Becomes
    <3>2. item[i].charge \in Nat
      BY <1>1 DEF ItemRecords
    <3>3. item[i].charge <= item[i].charge
      BY <3>2
    <3> QED
      BY <1>1, <3>1, <3>3, OneRefund
  <2> QED
    BY <2>1, <2>2
<1>15. ASSUME NEW i \in Items, PumpWithdrawn(i) PROVE ItemsCharged' /\ Blanks'
  <2> DEFINE it == [Here(i) EXCEPT !.withdraw = FALSE]
  <2>1. Becomes(i, it)
    BY <1>15 DEF PumpWithdrawn
  <2>2. /\ it \in ItemRecords /\ Blank(it) /\ it.registered = Here(i).registered
        /\ it.desired = Here(i).desired /\ it.charge = Here(i).charge
    BY <1>13 DEF ItemRecords, Blank
  <2> HIDE DEF it
  <2> QED
    BY <1>13, <2>1, <2>2, VisitRefunds
<1>16. ASSUME NEW i \in Items, PumpWrites(i) PROVE ItemsCharged' /\ Blanks'
  <2> DEFINE it == Written(Here(i))
  <2>1. Becomes(i, it) /\ control.owned \in Lobbies
    BY <1>16, VisitShape DEF PumpWrites, BInv, IInv
  <2>2. it \in ItemRecords
    BY <1>13, <2>1, WrittenItem
  <2>3. /\ it.registered = Here(i).registered /\ it.desired = Here(i).desired
        /\ it.charge = Bytes(Here(i).desired)
    BY <1>13 DEF Written, ItemRecords
  <2>4. Blank(it)
    BY <1>13, <2>3, BytesNone DEF Blank
  <2>5. it.charge <= Here(i).charge
    BY <1>13, <2>3 DEF ItemFits
  <2> HIDE DEF it
  <2> QED
    BY <2>1, <2>2, <2>3, <2>4, <2>5, VisitRefunds
<1>17. ASSUME NEW i \in Items, PumpFails(i) PROVE ItemsCharged' /\ Blanks'
  <2> DEFINE it == Unwritten(Here(i))
  <2>1. Becomes(i, it)
    BY <1>17 DEF PumpFails
  <2>2. /\ it \in ItemRecords /\ Blank(it) /\ it.registered = Here(i).registered
        /\ it.desired = Here(i).desired /\ it.charge = Here(i).charge
    BY <1>13 DEF Unwritten, ItemRecords, Blank
  <2> HIDE DEF it
  <2> QED
    BY <1>13, <2>1, <2>2, VisitRefunds
<1>18. CASE UNCHANGED vars
  BY <1>18, Uncharged DEF vars
<1> QED
  BY <1>3, <1>4, <1>6, <1>7, <1>8, <1>9, <1>10, <1>11, <1>12, <1>14, <1>15, <1>16, <1>17, <1>18
     DEF Next, Ends, Pump

LEMMA BudgetInvariant == Spec => []BInv
<1>1. Init => BInv
  BY InitBInv
<1>2. BInv /\ [Next]_vars => BInv'
  BY NextIInv, RestStep, BudgetStep DEF BInv
<1> QED
  BY <1>1, <1>2, PTL DEF Spec

(* The budget of published values is exact in every reachable state, for   *)
(* any items, costs and sizes: what registrations, publications,           *)
(* withdrawals, writes, failures and lost lobbies take and give back adds  *)
(* up to what the registered items are charged, within the limit and never *)
(* below zero.                                                             *)
THEOREM ItemsHold == Spec => []ItemsFit
<1>1. BInv => ItemsFit
  <2> SUFFICES ASSUME BInv PROVE ItemsFit
    OBVIOUS
  <2>1. used \in Nat
    BY ChargesType DEF BInv, IInv, Shapes, ItemsCharged
  <2> QED
    BY <2>1 DEF BInv, IInv, Shapes, Rest, ItemsFit, TypeOK
<1> QED
  BY <1>1, BudgetInvariant, PTL
=============================================================================
