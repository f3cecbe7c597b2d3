------------------------------- MODULE ObjFile -------------------------------
(***************************************************************************)
(* Object files (libdcpu-ci-objfmt): the linker tables as one sequence of  *)
(* entries, each with its mode, up to LABEL_END, followed by the words.    *)
(***************************************************************************)
LOCAL INSTANCE Integers
LOCAL INSTANCE SequencesExt
LOCAL INSTANCE Sequences

LABEL_END == [mode |-> "end", label |-> "", address |-> 0]

\* The order objfile_save writes the tables in.
SaveOrder == <<"provided", "required", "adjustment", "section", "output", "jump",
               "optional", "call">>

\* An adjustment has no label, and loses the bin it points into.
ldata_write(mode, e) ==
    [mode |-> mode, label |-> IF mode = "adjustment" THEN "" ELSE e.label, address |-> e.address]

\* The tables named in kept; the caller passes NULL for the others.
objfile_save(bin, kept) ==
    LET table(t) == IF t \in kept
                    THEN [i \in DOMAIN bin[t] |-> ldata_write(t, bin[t][i])] ELSE << >>
    IN  Append(FlattenSeq([i \in DOMAIN SaveOrder |-> table(SaveOrder[i])]), LABEL_END)

ldata_read(e) == IF e.mode = "adjustment" THEN [address |-> e.address, bin |-> << >>]
                 ELSE [address |-> e.address, label |-> e.label]

\* objfile_load skips a section whose address is that of the entry before it.
WithoutEmpty(list) ==
    LET keep == SelectSeq([k \in DOMAIN list |-> k],
                          LAMBDA k : k = 1 \/ list[k].address # list[k - 1].address)
    IN  [n \in DOMAIN keep |-> list[keep[n]]]

\* Each entry joins the table of its mode, in the order of the file, when the
\* caller wants that table.
objfile_load(entries, wanted) ==
    LET read(t) == LET es == SelectSeq(entries, LAMBDA e : e.mode = t)
                   IN  [i \in DOMAIN es |-> ldata_read(es[i])]
    IN  [t \in {SaveOrder[i] : i \in DOMAIN SaveOrder} |->
            IF t \notin wanted THEN << >>
            ELSE IF t = "section" THEN WithoutEmpty(read(t)) ELSE read(t)]
=============================================================================
