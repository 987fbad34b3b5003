----------------------------- MODULE HttpHeader -----------------------------
(***************************************************************************)
(* HttpHeader: the fields of a message in the order they were added        *)
(* (container_), and an index of them by name and by value (its_), from    *)
(* which every lookup is answered while to_string() writes the list.       *)
(* Names are compared without case and are written here in lower case;     *)
(* values are ordered as std::map orders them, by their characters.        *)
(***************************************************************************)
EXTENDS Integers, Sequences, FiniteSets, SequencesExt

\* The values used, in the order of std::string.
AsciiOrder == <<"", "0", "1", "13", "2", "Keep-Alive", "Upgrade", "accept", "chunked", "close",
                "key", "websocket">>
Rank(value) == CHOOSE i \in DOMAIN AsciiOrder : AsciiOrder[i] = value

EmptyHeader == [container_ |-> <<>>, its_ |-> {}]

get_values(h, name) == {field[2] : field \in {f \in h.its_ : f[1] = name}}
count(h, name) == Cardinality(get_values(h, name))
contains(h, name) == get_values(h, name) # {}

\* get: the first of its_[name], the smallest value.
get(h, name) ==
    IF ~contains(h, name) THEN ""
    ELSE CHOOSE v \in get_values(h, name) : \A w \in get_values(h, name) : Rank(v) <= Rank(w)

Emplace(h, field) == [container_ |-> Append(h.container_, field), its_ |-> h.its_ \cup {field}]

add(h, field) ==
    IF field[1] = "" \/ field[2] = "" \/ field \in h.its_ THEN h ELSE Emplace(h, field)

\* del(name, value): the element the index points to, the last one put there.
NodeOf(h, field) ==
    CHOOSE i \in DOMAIN h.container_ :
        /\ h.container_[i] = field
        /\ \A j \in i + 1 .. Len(h.container_) : h.container_[j] # field
del_value(h, field) ==
    IF field \notin h.its_ THEN h
    ELSE [container_ |-> RemoveAt(h.container_, NodeOf(h, field)), its_ |-> h.its_ \ {field}]

del(h, name) == FoldLeft(LAMBDA g, v : del_value(g, <<name, v>>), h,
                         SetToSeq(get_values(h, name)))

\* set(name, value) deletes this value only; other values of the name stay.
set(h, field) == Emplace(del_value(h, field), field)
set_list(h, name, values) ==
    FoldLeft(LAMBDA g, v : Emplace(g, <<name, v>>), del(h, name), values)

\* size() counts the characters of the values.
HasSize(h) == \E i \in DOMAIN h.container_ : h.container_[i][2] # ""
Written(h) == SelectSeq(h.container_, LAMBDA field : field[1] # "" /\ field[2] # "")
=============================================================================
