-------------------------------- MODULE LdBin -------------------------------
(* The linker's bins (libdcpu-ld/ldbin.c): moving words between bins, and    *)
(* keeping every table and every internal reference in step.                 *)
(*                                                                           *)
(* A word is a record: v is its value, id the place in an input file that it *)
(* came from, which the code does not keep and the properties use.  B maps a *)
(* bin's name to the bin; all is the set of names on the list of bins the C  *)
(* function is given, which need not hold the bin that is written.           *)
EXTENDS Naturals, Sequences, SequencesExt

Tables == {"provided", "required", "section", "output", "jump",
           "optional", "call", "symbols"}
Fields == Tables \cup {"words", "adjustment"}

\* bin_create
EmptyBin == [f \in Fields |-> << >>]

Size(bin) == Len(bin.words)
Map(list, F(_)) == [n \in DOMAIN list |-> F(list[n])]

\* simclist sorts fewer than 25 elements by selection: the first of the least
\* elements is swapped with the first unsorted one, so equal addresses may
\* change places.
list_sort(list, Before(_, _)) ==
    LET step(l, i) ==
          LET j == CHOOSE j \in i .. Len(l) :
                      /\ \A m \in i .. Len(l) : ~Before(l[m], l[j])
                      /\ \A m \in i .. j - 1 : Before(l[j], l[m])
          IN  [l EXCEPT ![i] = l[j], ![j] = l[i]]
    IN  FoldLeft(step, list, [i \in DOMAIN list |-> i])
Ascending(list) == list_sort(list, LAMBDA x, y : x.address < y.address)
\* Mutant: the outputs are taken from the front.
Descending_First(list) == Ascending(list)

Descending(list) == list_sort(list, LAMBDA x, y : x.address > y.address)

\* Internal references of a bin: Move takes a reference's value and the bin it
\* points into to the new value and bin.
Repoint(bin, Move(_, _)) ==
    LET value(e) == bin.words[e.address + 1].v
        moved(w, a) ==
            LET news == {Move(w.v, e.bin)[1] : e \in {x \in ToSet(bin.adjustment) : x.address = a}}
            IN  IF news \subseteq {w.v} THEN w
                ELSE [w EXCEPT !.v = CHOOSE v \in news : v # w.v]
    IN  [bin EXCEPT
           !.words = [p \in DOMAIN bin.words |-> moved(bin.words[p], p - 1)],
           !.adjustment = Map(bin.adjustment, LAMBDA e : [e EXCEPT !.bin = Move(value(e), e.bin)[2]])]

-----------------------------------------------------------------------------
\* bin_insert with bin_info_insert and bin_info_insert_symbols.

\* An entry at the insertion point moves up with the code behind it.
\* Mutant: it stays.
Shifted_Strict(list, at, count) ==
    Map(list, LAMBDA e : IF e.address > at THEN [e EXCEPT !.address = @ + count] ELSE e)

Shifted(list, at, count) ==
    Map(list, LAMBDA e : IF e.address >= at THEN [e EXCEPT !.address = @ + count] ELSE e)

\* Entries of the copied words, and those behind the last word of the bin when
\* the copy reaches the end (or one word before it).
Copied(from, list, at, offset, count) ==
    LET copies(e) ==
          /\ e.address >= offset
          /\ \/ e.address < offset + count
             \/ e.address >= Size(from) /\ offset + count + 1 >= Size(from)
    IN  Map(SelectSeq(list, copies),
            LAMBDA e : [e EXCEPT !.address = at + (@ - offset)])

\* A reference into the copied words follows them; one behind the insertion
\* point moves up with the code.
\* Mutant: the code behind the insertion point is forgotten.
Follow_NoShift(v, b, to, from, at, offset, count) ==
    IF b = from /\ v \in offset .. offset + count - 1 THEN <<v - offset + at, to>> ELSE <<v, b>>

Follow(v, b, to, from, at, offset, count) ==
    IF b = from /\ v \in offset .. offset + count - 1 THEN <<v - offset + at, to>>
    ELSE IF b = to /\ v >= at THEN <<v + count, to>>
    ELSE <<v, b>>

\* iterating: the caller walks the output table, which simclist then refuses
\* to extend.
bin_insert(B, all, to, from, at, offset, count, iterating) ==
    LET src == B[from]
        dst == B[to]
        sorted(f) == IF f = "symbols" THEN src[f] ELSE Ascending(src[f])
        copy(f) == Copied(src, sorted(f), at, offset, count)
        table(f) ==
            CASE f = "words" -> SubSeq(dst.words, 1, at)
                                  \o SubSeq(src.words, offset + 1, offset + count)
                                  \o SubSeq(dst.words, at + 1, Size(dst))
              [] f = "section" -> dst.section
              [] f = "output" -> IF iterating THEN dst.output ELSE dst.output \o copy(f)
              [] OTHER -> Shifted(dst[f], at, count) \o copy(f)
        move(v, b) == Follow(v, b, to, from, at, offset, count)
        B1 == [B EXCEPT ![to] = [f \in Fields |-> table(f)]]
    IN  [n \in DOMAIN B1 |-> IF n \in all \cup {to} THEN Repoint(B1[n], move) ELSE B1[n]]

-----------------------------------------------------------------------------
\* bin_remove with bin_info_remove and bin_info_remove_symbols.

Lowered(list, offset, count) ==
    Map(SelectSeq(Ascending(list), LAMBDA e : e.address \notin offset .. offset + count - 1),
        LAMBDA e : IF e.address >= offset + count THEN [e EXCEPT !.address = @ - count] ELSE e)

\* The tables of the bin itself; its adjustments only lose what was removed.
Cut(bin, offset, count) ==
    [f \in Fields |->
        CASE f = "words" -> SubSeq(bin.words, 1, offset)
                              \o SubSeq(bin.words, offset + count + 1, Size(bin))
          [] f = "section" -> bin.section
          [] f = "adjustment" -> SelectSeq(Ascending(bin.adjustment),
                                   LAMBDA e : e.address \notin offset .. offset + count - 1)
          [] OTHER -> Lowered(bin[f], offset, count)]

\* Mutant: a reference right behind the removed words stays where it was.
Settle_Strict(bin, name, offset, count) ==
    [bin EXCEPT !.adjustment = Map(@, LAMBDA e :
        IF e.bin = name /\ e.address > offset + count
        THEN [e EXCEPT !.address = e.address - count] ELSE e)]

\* In every bin on the list, a reference into the bin moves down: its own
\* address first, whichever bin it stands in, then its value.
Settle(bin, name, offset, count) ==
    [bin EXCEPT !.adjustment = Map(@, LAMBDA e :
        IF e.bin = name /\ e.address >= offset + count
        THEN [e EXCEPT !.address = e.address - count] ELSE e)]

bin_remove(B, all, name, offset, count) ==
    LET move(v, b) == IF b = name /\ v >= offset + count THEN <<v - count, b>> ELSE <<v, b>>
        B1 == [B EXCEPT ![name] = Cut(@, offset, count)]
        sound(bin) == \A e \in ToSet(bin.adjustment) : e.address < Size(bin)
        settled(n) == Settle(B1[n], name, offset, count)
    IN  [n \in DOMAIN B1 |->
            IF n \notin all THEN B1[n]
            ELSE IF sound(settled(n)) THEN Repoint(settled(n), move) ELSE settled(n)]

\* "ERR_BUG_191_WORKAROUND": a reference stands outside its bin after a removal.
Bug191(B, all) == \E n \in all : \E e \in ToSet(B[n].adjustment) : e.address >= Size(B[n])

bin_move(B, all, to, from, at, offset, count) ==
    bin_remove(bin_insert(B, all, to, from, at, offset, count, FALSE), all, from, offset, count)
=============================================================================
