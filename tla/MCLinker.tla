------------------------------ MODULE MCLinker ------------------------------
(* Small programs to link: files with code outside sections, code in one or  *)
(* two sections, imports and exports, internal references, literals that fit *)
(* and literals that do not, a jump table and kernel calls.                  *)
EXTENDS Linker

Line(type, label, v) == <<[type |-> type, label |-> label, v |-> v]>>
W(v) == Line("WORD", NoLabel, v)
Dir(type, label) == Line(type, label, 0)
SetLit == W(Create(1, 0, NXT_LIT))      \* SET A, next word
SetReg == W(Create(1, 0, 1))            \* SET A, B

\* Code with a label, a literal that fits, one that does not, and a reference
\* to the label from behind it.
Code(l) == SetLit \o W(30) \o Dir("LABEL", l) \o SetLit \o Dir("REF", l) \o SetLit \o W(31)
Short(l) == SetLit \o W(65535) \o Dir("LABEL", l) \o SetReg
Use(l) == SetLit \o Dir("REF", l)

Body(b, l, other) ==
    CASE b = "empty" -> << >>
      [] b = "code" -> Code(l)
      [] b = "export" -> Dir("EXPORT", l) \o Short(l)
      [] b = "import" -> Dir("IMPORT", other) \o Use(other) \o Code(l)
      [] b = "optional" -> Dir("OPTIONAL", other) \o Use(other) \o SetReg

Sects(s, l) ==
    CASE s = "none" -> << >>
      [] s = "S" -> Dir("SECTION", "S") \o Code(l)
      [] s = "ST" -> Dir("SECTION", "S") \o Short(l) \o Dir("SECTION", "T") \o Code(l \o "t")
      [] s = "D" -> Dir("SECTION", "S") \o SetLit \o W(30) \o Dir("LABEL", l) \o Dir("REF", l)
      [] s = "TS" -> Dir("SECTION", "T") \o Code(l) \o Dir("SECTION", "S") \o SetReg

\* A main file has no sections and says where they go.
Main(m) ==
    CASE m = "SxT" -> Code("m") \o Dir("OUTPUT", "S") \o Short("m2") \o Dir("OUTPUT", "T")
      [] m = "S" -> SetReg \o Dir("OUTPUT", "S") \o Dir("EXPORT", "m") \o Code("m")
      [] m = "plain" -> Short("m")

\* Two jump entries, one for the routine right behind the table.
Kernel(tail) ==
    Dir("EXPORT", "a") \o Code("a") \o Dir("JUMP", "a") \o Dir("JUMP", NoLabel)
      \o Dir("JUMP", "k") \o Dir("LABEL", "k") \o Code("kk") \o tail
Calling == Code("m") \o Dir("CALL", "print") \o Short("n") \o Dir("CALL", "exit") \o Use("n")

\* The policies of a kernel that loads programs at a fixed place, and of one
\* that relocates them (docs/sources/kernels/writing/policies.rst).
Policies ==
    [image       |-> [type |-> "format",
                      instructions |-> <<[type |-> "offset", value |-> NUMBER(4)],
                                         [type |-> "offset", value |-> NUMBER(16)],
                                         [type |-> "chain", name |-> "direct"]>>],
     direct      |-> [type |-> "format",
                      instructions |-> <<[type |-> "write", value |-> [type |-> "code"]]>>],
     adjustments |-> [type |-> "internal",
                      instructions |->
                        <<[type |-> "write", value |-> [type |-> "total", table |-> "adjustment"]],
                          [type |-> "for", variable |-> "i", start |-> NUMBER(0),
                           end |-> [type |-> "total", table |-> "adjustment"],
                           body |-> <<[type |-> "write",
                                       value |-> [type |-> "field", table |-> "adjustment",
                                                  index |-> [type |-> "VARIABLE", name |-> "i"],
                                                  field |-> "address"]]>>]>>],
     relocatable |-> [type |-> "format",
                      instructions |->
                        <<[type |-> "write", value |-> [type |-> "words",
                                                        values |-> <<NUMBER(4660), NUMBER(22136)>>]],
                          [type |-> "chain", name |-> "adjustments"],
                          [type |-> "chain", name |-> "direct"]>>]]
Formats == {"image", "direct", "relocatable", "adjustments"}
Origin(format) == CASE format = "image" -> 16 [] format = "relocatable" -> 100 [] OTHER -> 0

Job(sources, goal, calls, literals) ==
    [files |-> sources, target |-> goal, first |-> 0, firstTarget |-> goal, calls |-> calls,
     interrupts |-> [p \in {"print", "exit", "c"} |->
                        [call |-> 7, size |-> CASE p = "print" -> 5 [] p = "exit" -> 1 [] p = "c" -> 3]],
     jumplist |-> << >>, policies |-> Policies, format |-> "direct", origin |-> 0,
     optimizers |-> << >>, literals |-> literals, keepOutputs |-> FALSE]
Formatted(job, format) == [job EXCEPT !.format = format, !.origin = Origin(format)]
After(job, first, firstTarget) == [job EXCEPT !.first = first, !.firstTarget = firstTarget]

Bodies == {"empty", "code", "export", "import", "optional"}
Images ==
    {Job(<<Main(m), Body(a, "a", "b") \o Sects(s, "as"), Body(b, "b", "a") \o Sects(t, "bs")>>,
         "image", "none", TRUE) :
        m \in {"SxT", "S", "plain"}, a \in {"code", "import", "export"}, b \in Bodies,
        s \in {"none", "S", "ST"}, t \in {"S", "TS"}}
Libraries ==
    {[Job(<<Body(a, "a", "b"), Body(b, "b", "x") \o Sects("S", "bs")>>, "library", "none", TRUE)
         EXCEPT !.keepOutputs = o] :
        a \in Bodies, b \in Bodies, o \in BOOLEAN}
Kernels ==
    {Job(<<Kernel(Dir("OUTPUT", "S")), Body(b, "b", x) \o Sects(s, "bs")>>, "kernel", "none", l) :
        b \in Bodies, x \in {"a", "k"}, s \in {"ST", "D"}, l \in BOOLEAN}

\* Two calls never stand at one place: such ties come out in reverse order.
KernelJumps == <<[address |-> 100, label |-> "exit"], [address |-> 101, label |-> "print"]>>
Conventions == {"none", "jumplist", "stack-call", "register-call", "register-direct"}
Applications ==
    {[Formatted(Job(<<Calling,
                      Body(b, "b", "m") \o Dir("SECTION", "S") \o SetReg \o Dir("CALL", "c") \o Code("bs"),
                      Dir("OUTPUT", "S") \o SetReg>>, "application", c, TRUE), format)
         EXCEPT !.jumplist = IF c = "jumplist" THEN KernelJumps ELSE << >>] :
        b \in Bodies, c \in Conventions, format \in Formats}

\* A library with two exports, one import of its own, one that the program
\* provides, and a section, linked again with a program.
LibraryA == Dir("EXPORT", "a") \o Dir("IMPORT", "b") \o Use("b") \o Code("a") \o Dir("OUTPUT", "S")
LibraryB(tail) == Dir("EXPORT", "b") \o Dir("IMPORT", "m") \o Dir("OPTIONAL", "z") \o Use("z") \o Use("m")
                    \o tail \o Short("b") \o Sects("S", "bs")
Program == Dir("EXPORT", "m") \o Dir("IMPORT", "a") \o Use("a") \o Short("m") \o Use("m")
WithLibrary ==
    {Formatted(After(Job(<<LibraryA, LibraryB(tail), p, Dir("OUTPUT", "S") \o SetReg>>, goal, "register-call", l), 2, "library"), "image") :
        tail \in {SetReg, Dir("LABEL", "bb") \o Use("bb")}, goal \in {"image", "application", "library"},
        p \in {Program, Program \o Sects("S", "ps"), Program \o Dir("CALL", "print") \o Dir("EXPORT", "z") \o Dir("LABEL", "z") \o SetReg},
        l \in BOOLEAN}

\* A kernel, then an application that is linked to its end.
Direct ==
    {Formatted(After(Job(<<Kernel(Dir("OPTIONAL", "z") \o Use("z")), Body(b, "b", x) \o Dir("CALL", "k") \o SetReg>>,
                         "application", "jumplist", l), 1, "kernel"), format) :
        b \in {"code", "import", "optional"}, x \in {"a", "k", "kk"}, l \in BOOLEAN,
        format \in {"image", "relocatable"}}

\* Optimisers that remove a word, more words than there are, and two words one
\* after the other.
Optimised ==
    {[Job(<<SetReg \o SetReg \o Code("m") \o Use("a") \o Dir("IMPORT", "a") \o SetReg,
            Dir("EXPORT", "a") \o Short("a")>>, goal, "none", l) EXCEPT !.optimizers = o] :
        goal \in {"image", "library", "kernel"}, l \in BOOLEAN,
        o \in {<<<<[offset |-> 0, count |-> 1]>>>>,
               <<<<[offset |-> 1, count |-> 99]>>, <<[offset |-> 10, count |-> 1], [offset |-> 0, count |-> 2]>>>>}}

MCInputs == Images \cup Libraries \cup Kernels \cup Applications \cup WithLibrary \cup Direct \cup Optimised

\* An application that imports a kernel routine from a jumplist and calls it.
WithJumplist ==
    {[Job(<<Dir("IMPORT", "print") \o Use("print") \o SetReg \o Dir("CALL", "print") \o SetReg>>,
          "application", "jumplist", l) EXCEPT !.jumplist = KernelJumps] : l \in BOOLEAN}
=============================================================================
