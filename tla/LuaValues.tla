----------------------------- MODULE LuaValues -----------------------------
(* The packets of Lua multiplayer: how a Lua value and a listener list become  *)
(* bytes, and what is read back from the bytes that arrive.  A field (a tag, a *)
(* length, a number, a registration, a character) is one cell of the packet    *)
(* whatever its width.  Only TLC evaluates this module: its operators recurse. *)
EXTENDS Integers, Sequences, FiniteSets, SequencesExt, FiniteSetsExt

CONSTANTS
    TableDepth,     \* kTableDepth: nested tables
    CellMax,        \* UINT16_MAX: the largest length or count
    MaxPayload,     \* the largest feature payload, in cells
    LuaValueSet,    \* values the scripts send
    ListenerSet,    \* listener lists the services hold
    CellSet         \* what a damaged cell can hold

ValuesAssumption ==
    TableDepth \in Nat /\ CellMax \in Nat \ {0} /\ MaxPayload \in Nat /\ CellSet \subseteq Nat

VARIABLES
    input,      \* [list, value, listeners]: what is sent, and which kind it is
    payload,    \* max_payload_ of the sender
    packet,     \* the cells on the wire
    stage,      \* Unsent, Refused, Sent, Damaged, Read
    read        \* what the receiver decoded: [ok, value, listeners, dropped]

packetVars == <<input, payload, packet, stage, read>>

\* A Lua value: its tag (as the wire has it; Boolean is 1 or 2, 6 anything else),
\* its number or characters, its stored entries and whether it has a metatable.
LuaValue(tag, cells, pairs, metatable) ==
    [tag |-> tag, cells |-> cells, pairs |-> pairs, metatable |-> metatable]
NilValue == LuaValue(0, << >>, {}, FALSE)
TableOf(pairs) == LuaValue(5, << >>, pairs, FALSE)

\* representable(): a finite number that float32 holds exactly.
Representable(cell) == cell < 8

\* valid_channel(): characters from 8 on are not UTF-8.
ValidChannel(channel) == channel # << >> /\ \A i \in DOMAIN channel : channel[i] < 8

KeyTags == {1, 2, 3, 4}
MessageHeader == 2
-----------------------------------------------------------------------------
(* Writing                                                                     *)

Writer(limit) == [cells |-> << >>, limit |-> limit, error |-> "None"]
Refuse(w, error) == IF w.error = "None" THEN [w EXCEPT !.error = error] ELSE w
Put(w, cells) ==
    IF w.error # "None" THEN w
    ELSE IF Len(cells) > w.limit - Len(w.cells) THEN Refuse(w, "TooLarge")
    ELSE [w EXCEPT !.cells = @ \o cells]

\* Mutant: the entry count is left at its reserved value.
Counted_M1(w, position, count) == w

\* The entry count, reserved before the entries, is filled in after them.
Counted(w, position, count) ==
    IF w.error # "None" THEN w ELSE [w EXCEPT !.cells[position] = count]

RECURSIVE Encoded(_, _, _, _), EncodedPairs(_, _, _)

\* Lua visits the entries of a table in an order of its own; each is tried.
Encoded(w, v, depth, key) ==
    IF w.error # "None" THEN {w}
    ELSE IF (key /\ v.tag \notin KeyTags) \/ v.tag = 6 THEN {Refuse(w, "InvalidValue")}
    ELSE IF v.tag < 3 THEN {Put(w, <<v.tag>>)}
    ELSE IF v.tag = 3 THEN
        {IF Representable(v.cells[1]) THEN Put(w, <<3>> \o v.cells) ELSE Refuse(w, "InvalidValue")}
    ELSE IF v.tag = 4 THEN
        {IF Len(v.cells) > CellMax THEN Refuse(w, "TooLarge")
         ELSE Put(w, <<4, Len(v.cells)>> \o v.cells)}
    ELSE IF depth = TableDepth \/ v.metatable THEN {Refuse(w, "InvalidValue")}
    ELSE LET opened == Put(w, <<5, 0>>)
             position == Len(w.cells) + 2
         IN  UNION {{Counted(written, position, Cardinality(v.pairs)) :
                        written \in EncodedPairs(opened, order, depth)} : order \in SetToSeqs(v.pairs)}

\* The next entry, its key before its value; a table of more entries than the count holds is refused.
EncodedPairs(w, order, depth) ==
    IF order = << >> THEN {w}
    ELSE LET before == EncodedPairs(w, Front(order), depth)
         IN  IF Len(order) > CellMax THEN {Refuse(b, "TooLarge") : b \in before}
             ELSE UNION {Encoded(k, Last(order).value, depth + 1, FALSE) :
                            k \in UNION {Encoded(b, Last(order).key, depth + 1, TRUE) : b \in before}}

\* encode_value() within what a message leaves, then encode_message() to the registration.
Message(v, registration, limit) ==
    IF limit < MessageHeader THEN {Refuse(Writer(0), "TooLarge")}
    ELSE {IF e.error # "None" THEN e ELSE Put(Put(Writer(limit), <<2, registration>>), e.cells) :
            e \in Encoded(Writer(limit - MessageHeader), v, 0, FALSE)}

\* encode_listeners(): the complete list or nothing.
Listed(listeners, limit) ==
    LET entry(l) == <<l.registration, Len(l.channel)>> \o l.channel
        tooLong == \E i \in DOMAIN listeners : Len(listeners[i].channel) > CellMax
    IN  IF Len(listeners) > CellMax \/ tooLong THEN Refuse(Writer(limit), "TooLarge")
        ELSE Put(Put(Writer(limit), <<1, Len(listeners)>>),
                 FlattenSeq([i \in DOMAIN listeners |-> entry(listeners[i])]))
-----------------------------------------------------------------------------
(* Reading                                                                     *)

Malformed == [ok |-> FALSE, value |-> NilValue, next |-> 0, dropped |-> FALSE]
Decoded(v, next) == [ok |-> TRUE, value |-> v, next |-> next, dropped |-> FALSE]

RECURSIVE Decode(_, _, _, _), DecodePairs(_, _, _, _, _)

\* Decoder::value() from a position; dropped tells of an entry whose value is nil.
Decode(cells, at, depth, key) ==
    IF at > Len(cells) \/ (key /\ cells[at] \notin KeyTags) \/ cells[at] > 5 THEN Malformed
    ELSE LET tag == cells[at] IN
    IF tag < 3 THEN Decoded(LuaValue(tag, << >>, {}, FALSE), at + 1)
    ELSE IF at + 1 > Len(cells) THEN Malformed
    ELSE IF tag = 3 THEN
        IF Representable(cells[at + 1]) THEN Decoded(LuaValue(3, <<cells[at + 1]>>, {}, FALSE), at + 2)
        ELSE Malformed
    ELSE LET count == cells[at + 1]
             left == Len(cells) - at - 1
         IN  IF tag = 4 THEN
                 IF count > left THEN Malformed
                 ELSE Decoded(LuaValue(4, SubSeq(cells, at + 2, at + 1 + count), {}, FALSE), at + 2 + count)
             ELSE IF depth = TableDepth \/ count > left \div 2 THEN Malformed
             ELSE DecodePairs(cells, [Decoded(TableOf({}), at + 2) EXCEPT !.ok = TRUE], count, depth, {})

\* Keys are remembered apart from the table, where a nil value leaves no entry.
Repeated(k, seen) == k \in seen

DecodePairs(cells, table, count, depth, seen) ==
    IF count = 0 THEN table
    ELSE LET k == Decode(cells, table.next, depth + 1, TRUE)
         IN  IF ~k.ok THEN Malformed
             ELSE IF Repeated(k.value, seen) THEN Malformed
             ELSE LET v == Decode(cells, k.next, depth + 1, FALSE)
                      stored == IF v.value.tag = 0 THEN {}
                                ELSE {[key |-> k.value, value |-> v.value]}
                  IN  IF ~v.ok THEN Malformed
                      ELSE DecodePairs(cells,
                               [ok |-> TRUE, value |-> TableOf(table.value.pairs \cup stored),
                                next |-> v.next,
                                dropped |-> table.dropped \/ v.dropped \/ v.value.tag = 0],
                               count - 1, depth, seen \cup {k.value})

\* decode_value() takes the whole packet.
WholePacket(d, cells) == d.ok /\ d.next = Len(cells) + 1

ReadMessage(cells) ==
    IF Len(cells) < MessageHeader + 1 \/ cells[2] = 0 THEN Malformed
    ELSE LET d == Decode(cells, MessageHeader + 1, 0, FALSE)
         IN  IF WholePacket(d, cells) THEN d ELSE Malformed

RECURSIVE ReadListeners(_, _, _, _)

\* decode_listeners() from a position with count entries to come.
ReadListeners(cells, at, count, list) ==
    IF count = 0 THEN [ok |-> at = Len(cells) + 1, listeners |-> list]
    ELSE IF at + 1 > Len(cells) THEN [ok |-> FALSE, listeners |-> << >>]
    ELSE LET size == cells[at + 1]
             channel == SubSeq(cells, at + 2, at + 1 + size)
             new == [registration |-> cells[at], channel |-> channel]
         IN  IF \/ cells[at] = 0 \/ size = 0 \/ at + 1 + size > Len(cells) \/ ~ValidChannel(channel)
                \/ \E i \in DOMAIN list : list[i].registration = cells[at] \/ list[i].channel = channel
             THEN [ok |-> FALSE, listeners |-> << >>]
             ELSE ReadListeners(cells, at + 2 + size, count - 1, Append(list, new))

ReadList(cells) ==
    IF Len(cells) < 2 \/ cells[2] > (Len(cells) - 2) \div 3 THEN [ok |-> FALSE, listeners |-> << >>]
    ELSE ReadListeners(cells, 3, cells[2], << >>)
-----------------------------------------------------------------------------
Unread == [ok |-> FALSE, list |-> FALSE, value |-> NilValue, listeners |-> << >>, dropped |-> FALSE]

PacketInit ==
    /\ input \in {[list |-> FALSE, value |-> v, listeners |-> << >>] : v \in LuaValueSet}
                 \cup {[list |-> TRUE, value |-> NilValue, listeners |-> l] : l \in ListenerSet}
    /\ payload \in 0..MaxPayload
    /\ packet = << >> /\ stage = "Unsent" /\ read = Unread

Writers == IF input.list THEN {Listed(input.listeners, payload)} ELSE Message(input.value, 1, payload)

Send ==
    /\ stage = "Unsent"
    /\ \E w \in Writers :
          IF w.error = "None" THEN stage' = "Sent" /\ packet' = w.cells
          ELSE stage' = "Refused" /\ UNCHANGED packet
    /\ UNCHANGED <<input, payload, read>>

\* The peer is another program: a packet of its own making is cut, extended or changed.
Damage ==
    /\ stage = "Sent"
    /\ stage' = "Damaged"
    /\ \/ packet # << >> /\ packet' = Front(packet)
       \/ \E c \in CellSet : packet' = Append(packet, c)
       \/ \E i \in DOMAIN packet, c \in CellSet : packet' = [packet EXCEPT ![i] = c]
    /\ UNCHANGED <<input, payload, read>>

\* Service::receive(): the first cell tells the kind.
Receive ==
    /\ stage \in {"Sent", "Damaged"}
    /\ stage' = IF stage = "Sent" THEN "Read" ELSE "ReadDamaged"
    /\ read' = IF packet = << >> \/ packet[1] \notin {1, 2} THEN Unread
               ELSE IF packet[1] = 1
               THEN LET l == ReadList(packet)
                    IN  [Unread EXCEPT !.ok = l.ok, !.list = TRUE, !.listeners = l.listeners]
               ELSE LET d == ReadMessage(packet)
                    IN  [Unread EXCEPT !.ok = d.ok, !.value = d.value, !.dropped = d.dropped]
    /\ UNCHANGED <<input, payload, packet>>

PacketNext == Send \/ Damage \/ Receive

PacketSpec == PacketInit /\ [][PacketNext]_packetVars
-----------------------------------------------------------------------------
(* Reference: which values can be sent, and how many cells they take.          *)

RECURSIVE Sendable(_, _), Fits(_), Size(_)

Sendable(v, depth) ==
    /\ v.tag # 6 /\ ~v.metatable
    /\ v.tag = 3 => Representable(v.cells[1])
    /\ v.tag = 5 => /\ depth < TableDepth
                    /\ \A p \in v.pairs : /\ p.key.tag \in KeyTags
                                          /\ Sendable(p.key, depth + 1) /\ Sendable(p.value, depth + 1)
Fits(v) ==
    /\ Len(v.cells) <= CellMax /\ Cardinality(v.pairs) <= CellMax
    /\ \A p \in v.pairs : Fits(p.key) /\ Fits(p.value)

Size(v) ==
    IF v.tag = 5 THEN 2 + MapThenSumSet(LAMBDA p : Size(p.key) + Size(p.value), v.pairs)
    ELSE IF v.tag = 4 THEN 2 + Len(v.cells) ELSE 1 + Len(v.cells)

CanBeSent ==
    IF input.list
    THEN /\ Len(input.listeners) <= CellMax
         /\ \A i \in DOMAIN input.listeners : Len(input.listeners[i].channel) <= CellMax
         /\ 2 + FoldSet(LAMBDA i, n : n + 2 + Len(input.listeners[i].channel), 0,
                        DOMAIN input.listeners) <= payload
    ELSE Sendable(input.value, 0) /\ Fits(input.value) /\ MessageHeader + Size(input.value) <= payload

\* Exactly the values and lists that fit are sent, and whatever order Lua visits
\* a table in, the receiver reads back what was sent.
SentIsRead ==
    /\ stage \in {"Refused", "Sent"} => (stage = "Sent") = CanBeSent
    /\ stage = "Read" => read = [Unread EXCEPT !.ok = TRUE, !.list = input.list, !.value = input.value,
                                              !.listeners = input.listeners]

\* A packet the peer made otherwise is read only if it is the encoding of what is
\* read; entries with a nil value, which Lua tables cannot hold, may be lost.
OnlyEncodingsRead ==
    stage = "ReadDamaged" /\ read.ok =>
        IF read.list THEN Listed(read.listeners, Len(packet)).cells = packet
        ELSE /\ Sendable(read.value, 0)
             /\ LET again == {w.cells : w \in Message(read.value, packet[2], Len(packet))}
                IN  IF read.dropped THEN \A cells \in again : Len(cells) < Len(packet)
                    ELSE packet \in again
=============================================================================
