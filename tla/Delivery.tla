------------------------------ MODULE Delivery ------------------------------
(***************************************************************************)
(* What the message queues promise.  On each line (a connection, or the    *)
(* one incoming queue) a message is taken at most once and in the order in *)
(* which it was put.  A message is dropped only when its topic closes, and *)
(* nothing of a closed topic is taken; a topic is a feature on a           *)
(* connection, and it closes when either fails or ends.                    *)
(*                                                                         *)
(* Numbers grow with every message put, so a queue is the set of what      *)
(* waits in it and its front is the least number.                          *)
(***************************************************************************)
EXTENDS Naturals, Sequences, TLAPS

CONSTANTS Lines, Topics

VARIABLES put,      \* Nat: messages put so far, on all lines
          closed,   \* SUBSET Topics
          waiting,  \* [Lines -> SUBSET Messages]
          done      \* [Lines -> Seq(Nat)]: numbers taken, in this order

vars == <<put, closed, waiting, done>>

Messages == [n : Nat, topic : Topics]

Init ==
    /\ put = 0
    /\ closed = {}
    /\ waiting = [l \in Lines |-> {}]
    /\ done = [l \in Lines |-> <<>>]

Put(l) ==
    /\ put' = put + 1
    /\ \E topic \in Topics \ closed :
         waiting' = [waiting EXCEPT ![l] = @ \cup {[n |-> put + 1, topic |-> topic]}]
    /\ UNCHANGED <<closed, done>>

Take(l) ==
    /\ \E m \in waiting[l] :
         /\ m.topic \notin closed
         /\ \A other \in waiting[l] : m.n <= other.n
         /\ waiting' = [waiting EXCEPT ![l] = @ \ {m}]
         /\ done' = [done EXCEPT ![l] = Append(@, m.n)]
    /\ UNCHANGED <<put, closed>>

(* Topics close, and messages of closed topics go. *)
Drop ==
    /\ closed' \in SUBSET Topics
    /\ closed \subseteq closed'
    /\ waiting' \in [Lines -> SUBSET Messages]
    /\ \A l \in Lines :
         /\ waiting'[l] \subseteq waiting[l]
         /\ \A m \in waiting[l] \ waiting'[l] : m.topic \in closed'
    /\ UNCHANGED <<put, done>>

Next == Drop \/ \E l \in Lines : Put(l) \/ Take(l)

Spec == Init /\ [][Next]_vars

-----------------------------------------------------------------------------

TypeOK ==
    /\ put \in Nat
    /\ waiting \in [Lines -> SUBSET Messages]
    /\ done \in [Lines -> Seq(Nat)]

(* A line hands over its messages once each and in the order they were     *)
(* put.                                                                    *)
InOrder ==
    \A l \in Lines : \A i, j \in 1..Len(done[l]) : i < j => done[l][i] < done[l][j]

(* Nothing that still waits was put before something already taken, and    *)
(* no two messages that wait on a line have one number.                    *)
Behind ==
    \A l \in Lines :
        /\ \A m \in waiting[l] : m.n <= put
        /\ \A i \in 1..Len(done[l]) : done[l][i] <= put
        /\ \A m \in waiting[l], i \in 1..Len(done[l]) : done[l][i] < m.n
        /\ \A m, other \in waiting[l] : m.n = other.n => m = other

IInv == TypeOK /\ Behind /\ InOrder

-----------------------------------------------------------------------------

(* A line that grows at its end by a number above all it holds stays in    *)
(* order.                                                                  *)
LEMMA AppendKeepsOrder ==
    ASSUME NEW s \in Seq(Nat), NEW n \in Nat,
           \A i, j \in 1..Len(s) : i < j => s[i] < s[j],
           \A i \in 1..Len(s) : s[i] < n
    PROVE  LET t == Append(s, n)
           IN  \A i, j \in 1..Len(t) : i < j => t[i] < t[j]
OBVIOUS

(* The strengthening holds at first and every step keeps it. *)
LEMMA InitIInv == Init => IInv
BY DEF Init, IInv, TypeOK, Behind, InOrder

LEMMA PutKeepsIInv ==
    ASSUME IInv, NEW l \in Lines, Put(l)
    PROVE  IInv'
<1>1. PICK topic \in Topics :
        waiting' = [waiting EXCEPT ![l] = @ \cup {[n |-> put + 1, topic |-> topic]}]
  BY DEF Put
<1> DEFINE new == [n |-> put + 1, topic |-> topic]
<1>2. put' = put + 1 /\ done' = done /\ put' \in Nat /\ put \in Nat
  BY DEF IInv, TypeOK, Put
<1>3. new \in Messages /\ new.n = put + 1
  BY <1>2 DEF Messages
<1>4. TypeOK'
  BY <1>1, <1>2, <1>3 DEF IInv, TypeOK
<1>5. ASSUME NEW k \in Lines
      PROVE  /\ \A m \in waiting'[k] : m.n <= put'
             /\ \A i \in 1..Len(done[k]) : done[k][i] <= put'
             /\ \A m \in waiting'[k], i \in 1..Len(done[k]) : done[k][i] < m.n
             /\ \A m, other \in waiting'[k] : m.n = other.n => m = other
  <2>1. waiting'[k] \subseteq waiting[k] \cup {new}
    BY <1>1 DEF IInv, TypeOK
  <2>2. done[k] \in Seq(Nat) /\ \A m \in waiting[k] : m.n \in Nat
    BY DEF IInv, TypeOK, Messages
  <2>3. \A i \in 1..Len(done[k]) : done[k][i] \in Nat
    BY <2>2
  <2>4. /\ \A m \in waiting[k] : m.n <= put
        /\ \A i \in 1..Len(done[k]) : done[k][i] <= put
        /\ \A m \in waiting[k], i \in 1..Len(done[k]) : done[k][i] < m.n
        /\ \A m, other \in waiting[k] : m.n = other.n => m = other
    BY DEF IInv, Behind
  <2> HIDE DEF new
  <2> QED
    BY <1>2, <1>3, <2>1, <2>2, <2>3, <2>4
<1>6. Behind'
  BY <1>2, <1>5 DEF Behind
<1>7. InOrder'
  BY <1>2 DEF IInv, InOrder
<1> QED
  BY <1>4, <1>6, <1>7 DEF IInv

LEMMA TakeKeepsIInv ==
    ASSUME IInv, NEW l \in Lines, Take(l)
    PROVE  IInv'
<1>1. PICK m \in waiting[l] :
        /\ \A other \in waiting[l] : m.n <= other.n
        /\ waiting' = [waiting EXCEPT ![l] = @ \ {m}]
        /\ done' = [done EXCEPT ![l] = Append(@, m.n)]
  BY DEF Take
<1>2. put' = put /\ put \in Nat /\ m.n \in Nat /\ m.n <= put
  BY DEF Take, IInv, TypeOK, Behind, Messages
<1>3. TypeOK'
  BY <1>1, <1>2 DEF IInv, TypeOK
<1>4. ASSUME NEW k \in Lines
      PROVE  /\ \A x \in waiting'[k] : x.n <= put
             /\ \A i \in 1..Len(done'[k]) : done'[k][i] <= put
             /\ \A x \in waiting'[k], i \in 1..Len(done'[k]) : done'[k][i] < x.n
             /\ \A x, y \in waiting'[k] : x.n = y.n => x = y
             /\ \A i, j \in 1..Len(done'[k]) : i < j => done'[k][i] < done'[k][j]
  <2>1. /\ done[k] \in Seq(Nat) /\ \A x \in waiting[k] : x.n \in Nat
        /\ \A x \in waiting[k] : x.n <= put
        /\ \A i \in 1..Len(done[k]) : done[k][i] <= put
        /\ \A x \in waiting[k], i \in 1..Len(done[k]) : done[k][i] < x.n
        /\ \A x, y \in waiting[k] : x.n = y.n => x = y
        /\ \A i, j \in 1..Len(done[k]) : i < j => done[k][i] < done[k][j]
    BY DEF IInv, TypeOK, Behind, InOrder, Messages
  <2>2. CASE k # l
    BY <1>1, <2>1, <2>2 DEF IInv, TypeOK
  <2>3. CASE k = l
    <3>1. waiting'[k] = waiting[k] \ {m} /\ done'[k] = Append(done[k], m.n)
      BY <1>1, <2>3 DEF IInv, TypeOK
    <3>2. \A i, j \in 1..Len(done'[k]) : i < j => done'[k][i] < done'[k][j]
      BY <1>1, <1>2, <2>1, <2>3, <3>1, AppendKeepsOrder
    <3>3. \A x \in waiting'[k] : x.n \in Nat /\ x.n <= put /\ m.n < x.n
      BY <1>1, <1>2, <2>1, <2>3, <3>1
    <3>4. \A i \in 1..Len(done'[k]) : done'[k][i] \in Nat /\ done'[k][i] <= m.n
      BY <1>1, <1>2, <2>1, <2>3, <3>1
    <3> QED
      BY <1>2, <2>1, <3>1, <3>2, <3>3, <3>4
  <2> QED
    BY <2>2, <2>3
<1>5. Behind' /\ InOrder'
  BY <1>2, <1>4 DEF Behind, InOrder
<1> QED
  BY <1>3, <1>5 DEF IInv

LEMMA DropKeepsIInv == IInv /\ Drop => IInv'
BY DEF IInv, TypeOK, Behind, InOrder, Drop

LEMMA NextKeepsIInv == IInv /\ [Next]_vars => IInv'
<1>1. IInv /\ UNCHANGED vars => IInv'
  BY DEF vars, IInv, TypeOK, Behind, InOrder
<1> QED
  BY <1>1, PutKeepsIInv, TakeKeepsIInv, DropKeepsIInv DEF Next

(* Whatever implements this specification hands messages over in order and *)
(* at most once: the two queues of MessageQueues do.                       *)
THEOREM DeliveredInOrder == Spec => []InOrder
<1>1. IInv => InOrder
  BY DEF IInv
<1> QED
  BY <1>1, InitIInv, NextKeepsIInv, PTL DEF Spec
=============================================================================
