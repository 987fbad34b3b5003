------------------------------ MODULE WebSocket ------------------------------
(***************************************************************************)
(* WebSocket frames as a sequence of units: two bytes of header, the       *)
(* extended length (one unit for the two bytes, two for the eight), the    *)
(* masking key and the payload.  A unit <<"zero">> is a byte nothing was   *)
(* received into.                                                          *)
(***************************************************************************)
EXTENDS Integers, Sequences, SequencesExt

CONSTANTS MaxShort,    \* 125: the longest payload whose length is in the header
          MaxMedium    \* 65535: the longest with a length of two bytes

ASSUME WebSocketConstants == MaxShort \in Nat /\ MaxMedium \in Nat /\ MaxShort < MaxMedium

Zero == <<"zero">>
Payload(id, size) == [i \in 1 .. size |-> <<"payload", id, i>>]

\* XOR with the key; a key nothing was received into is zero.
Mask(unit, key) ==
    IF key = Zero THEN unit
    ELSE IF unit[1] = "masked" THEN unit[2] ELSE <<"masked", unit>>

make(op, id, size, masking) ==
    LET length == IF size <= MaxShort THEN size ELSE IF size <= MaxMedium THEN 126 ELSE 127
        extended == IF size <= MaxShort THEN <<>>
                    ELSE IF size <= MaxMedium THEN << <<"size", size>> >>
                    ELSE << <<"size", 0>>, <<"size", size>> >>
        header == << <<"opcode", op, id>>, <<"length", masking, length>> >> \o extended
    IN  IF masking
        THEN header \o << <<"key">> >> \o [i \in 1 .. size |-> Mask(Payload(id, size)[i], <<"key">>)]
        ELSE header \o Payload(id, size)

Incomplete == [result |-> "incomplete"]
Extended(length) == IF length = 126 THEN 1 ELSE IF length = 127 THEN 2 ELSE 0

\* parse: a frame and the units it takes.  The two-byte length is read before there is
\* a check that it has come; what is missing makes the frame incomplete all the same.
parse_frame(buffer) ==
    LET masking == buffer[2] # Zero /\ buffer[2][2]
        length == IF buffer[2] = Zero THEN 0 ELSE buffer[2][3]
        extended == Extended(length)
        pos == 2 + extended + (IF masking THEN 1 ELSE 0)
        low == buffer[2 + extended]
        size == IF extended = 0 THEN length ELSE IF low = Zero THEN 0 ELSE low[2]
        clear == [i \in 1 .. size |-> IF masking THEN Mask(buffer[pos + i], buffer[pos])
                                      ELSE buffer[pos + i]]
    IN  IF Len(buffer) < 2 THEN Incomplete
        ELSE IF Len(buffer) < pos THEN Incomplete
        ELSE IF Len(buffer) < pos + size THEN Incomplete
        ELSE [result |-> "frame", size |-> pos + size,
              frame |-> [op |-> IF buffer[1] = Zero THEN "continued" ELSE buffer[1][2],
                         id |-> IF buffer[1] = Zero THEN 0 ELSE buffer[1][3],
                         payload |-> clear]]
=============================================================================
