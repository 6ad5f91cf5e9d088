---------------------------- MODULE ClearByPath ----------------------------
(***************************************************************************)
(* internal/utils.go: paths, and how reflection follows them into a value. *)
(*                                                                         *)
(* A Go value is the set of its non-empty leaves.  A leaf has the way that *)
(* leads there: for every field, entry or element on it, the parts of a    *)
(* path that select it.  A nil map, slice or pointer has no leaves.  A     *)
(* leaf below a pointer that other values share has a cell: the pointer    *)
(* and the way from there; the others have <<>>.                           *)
(* Text is a sequence of tokens: the dot, the quote, and words.            *)
(***************************************************************************)
EXTENDS Integers, Sequences, SequencesExt, TLC

Dot == "."
Quote == "'"
Star == <<"*">>

\* Where the loop of splitPath is.
Unread == [parts |-> <<>>, buf |-> <<>>, inQuotes |-> FALSE]
Cut(s) == [s EXCEPT !.parts = Append(@, s.buf), !.buf = <<>>]
Keep(s, c) == [s EXCEPT !.buf = Append(@, c)]

ReadUnquoted(s, c) == IF c = Dot THEN Cut(s) ELSE Keep(s, c)

\* One turn of it: dots separate parts, except between quotes.
Read(s, c) ==
    IF c = Quote THEN [s EXCEPT !.inQuotes = ~@]
    ELSE IF c = Dot /\ ~s.inQuotes THEN Cut(s)
    ELSE Keep(s, c)

\* splitPath.
SplitPath(path) ==
    LET loop[n \in 0..Len(path)] == IF n = 0 THEN Unread ELSE Read(loop[n - 1], path[n])
        end == loop[Len(path)]
    IN  IF end.buf = <<>> THEN end.parts ELSE Append(end.parts, end.buf)
-----------------------------------------------------------------------------
\* kids are the fields, entries or elements of a value; selectors[k] says which
\* parts select the k-th.
Node(selectors, kids) ==
    UNION {{[at |-> <<selectors[k]>> \o l.at, val |-> l.val, cell |-> l.cell] : l \in kids[k]}
           : k \in DOMAIN kids}

Leaf(x) == IF x = {} THEN {} ELSE {[at |-> <<>>, val |-> x, cell |-> <<>>]}

\* findStructFieldByJSONTag: the first field with this JSON or Go name; names[i]
\* has both of the i-th, and none if it is not exported.  Fields of embedded
\* structs are not looked at: an embedded struct is a field of that name.
Struct(names, kids) ==
    Node([i \in DOMAIN names |-> {Star} \cup (names[i] \ UNION {names[j] : j \in 1..(i - 1)})], kids)

\* The maps that are modelled hold strings, so a path ends there; no key is *.
Map(kids) == Node([k \in DOMAIN kids |-> {Star, k}], kids)

\* strconv.Atoi reads the index.
Slice(kids) == Node([i \in DOMAIN kids |-> {Star, <<ToString(i - 1)>>}], kids)

\* Pointers are followed without a part.  This one is p; others share what it
\* points to, unless p = Own.
Own == 0
Ptr(p, v) ==
    {[at |-> l.at, val |-> l.val, cell |-> IF p = Own THEN <<>> ELSE <<p, l.at>>] : l \in v}

\* One call of clearRecursive on every value that has been reached: of the leaves
\* below these, the ones below what the part selects.  A name, key or index that
\* is not there selects nothing (the error for it is only logged), and a leaf
\* has nothing below it.
Enter(leaves, depth, part) == {l \in leaves : depth \in DOMAIN l.at /\ part \in l.at[depth]}

\* field.Set panics on a field that is not exported; only the wildcard selects it.
Settable(l, depth) == l.at[depth] # {Star}
-----------------------------------------------------------------------------
\* How to write a path with these parts, which have no quotes (README.md:101).
Unquoted(p) == \A j \in 1..Len(p) : p[j] # Quote
Quoted(p) == IF \E i \in DOMAIN p : p[i] = Dot THEN <<Quote>> \o p \o <<Quote>> ELSE p
Write(parts) ==
    LET text[n \in 0..Len(parts)] ==
            IF n = 0 THEN <<>>
            ELSE (IF n = 1 THEN <<>> ELSE Append(text[n - 1], Dot)) \o Quoted(parts[n])
    IN  text[Len(parts)]
=============================================================================
