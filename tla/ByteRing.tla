------------------------------- MODULE ByteRing -------------------------------
(***************************************************************************)
(* A ring of cells for records of several sizes, with many producers and   *)
(* one consumer.  A record begins with a header, which is nonzero once the *)
(* record is published; what is left in a cell would be a header later.    *)
(***************************************************************************)
EXTENDS Integers

(* Cells hold 0, a header (the number of cells of the record) or a piece   *)
(* of the record with a number, which no header looks like.  "reserved"    *)
(* and "taken" count the records at both ends.                             *)
Piece(n) == -n

NewRing(usable) ==
    [usable |-> usable, head |-> 0, tail |-> 0, reserved |-> 0, taken |-> 0,
     cells |-> [c \in 0 .. usable - 1 |-> 0]]

(* The cells of a record, wrapped around the end. *)
Place(ring, position, size) == {(position + i) % ring.usable : i \in 0 .. size - 1}

Body(ring, position, size) == Place(ring, position + 1, size - 1)

Filled(ring, places, content) ==
    [ring EXCEPT !.cells = [c \in DOMAIN @ |-> IF c \in places THEN content ELSE @[c]]]

Fits(ring, size) == size <= ring.usable /\ size <= ring.usable - (ring.tail - ring.head)

(* reserve(), its compare-and-swap. *)
Reserved(ring, size) == [ring EXCEPT !.tail = @ + size, !.reserved = @ + 1]

(* copy_in() of all of a record *)
CopiedIn(ring, r) == Filled(ring, Body(ring, r.position, r.size), Piece(r.n))

(* publish() *)
Published(ring, r) == Filled(ring, Place(ring, r.position, 1), r.size)

(* next(): the header at the head, if its record is complete. *)
Complete(ring) == ring.usable > 0 /\ ring.cells[ring.head % ring.usable] # 0

NextSize(ring) == ring.cells[ring.head % ring.usable]

(* release(): pieces are cleared too. *)
Released(ring) ==
    [Filled(ring, Place(ring, ring.head, NextSize(ring)), 0)
        EXCEPT !.head = @ + NextSize(ring), !.taken = @ + 1]

(* reclaim() *)
Reclaimed(ring) == [ring EXCEPT !.usable = 0, !.cells = <<>>]

(* What the consumer finds is the oldest record there is, all of it. *)
HeadIntact(ring) ==
    Complete(ring) =>
        /\ NextSize(ring) > 0
        /\ \A c \in Body(ring, ring.head, NextSize(ring)) : ring.cells[c] = Piece(ring.taken + 1)
=============================================================================
