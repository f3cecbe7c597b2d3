-------------------------------- MODULE DbgFmt -------------------------------
(***************************************************************************)
(* Symbol files (libdcpu-ci-dbgfmt): what the assembler, the linker and    *)
(* the debugger pass on about lines, strings and labels.  A symbol's       *)
(* payload is its text, a terminator, and little-endian words whose number *)
(* the reader derives from the length; a text counts as one unit.          *)
(***************************************************************************)
LOCAL INSTANCE Integers
LOCAL INSTANCE Sequences

\* An address no symbol has got yet: DBGFMT_UNDETERMINED.
Undetermined == 65535

Symbol(type, name, line, address) ==
    [type |-> type, name |-> name, line |-> line, address |-> address]

Text(s) == <<s, 0>>
Bytes(w) == <<w % 256, w \div 256>>

\* dbgfmt_serialize_payload_line, _string and _label
dbgfmt_serialize_payload(s) ==
    Text(s.name) \o (IF s.type = "line" THEN Bytes(s.line) ELSE << >>) \o Bytes(s.address)

dbgfmt_write(symbols) ==
    [k \in DOMAIN symbols |->
        LET b == dbgfmt_serialize_payload(symbols[k])
        IN  [length |-> Len(b), type |-> symbols[k].type, payload |-> b]]

\* dbgfmt_deserialize_symbol_line, _string and _label: the numbers are counted
\* back from the end, the text is what is left of the payload.
dbgfmt_deserialize_symbol(r) ==
    LET textlen == r.length - (IF r.type = "line" THEN 4 ELSE 2)
        word(at) == r.payload[at + 1] + 256 * r.payload[at + 2]
    IN  Symbol(r.type, r.payload[textlen - 1],
               IF r.type = "line" THEN word(textlen) ELSE 0, word(r.length - 2))

dbgfmt_read(file) == [k \in DOMAIN file |-> dbgfmt_deserialize_symbol(file[k])]

\* A symbol that waits for its instruction gets the address once.
dbgfmt_finalize_symbol(s, address) ==
    IF s.address = Undetermined THEN [s EXCEPT !.address = address] ELSE s
=============================================================================
