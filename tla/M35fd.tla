------------------------------- MODULE M35fd -------------------------------
(***************************************************************************)
(* The floppy drive of libdcpu-vm (hwm35fd.c).  A program asks for a       *)
(* transfer with HWI and goes on; the drive's 60 Hz hook does the transfer *)
(* later, on the memory as it is by then.  The image is a file of words    *)
(* that may be shorter than the disk.  write_protected is never set and a  *)
(* disk never ejected, so those branches of the hook are not reached.      *)
(***************************************************************************)
EXTENDS Integers, Sequences

CONSTANTS
    Word,        \* values of a memory cell; 0 is one of them
    iflip(_),    \* a word with its bytes swapped
    SIZE,        \* words of a sector: 512
    LAST,        \* the highest sector the drive accepts: 1440
    Sectors,     \* sector numbers programs ask for
    RAM,         \* cells of memory
    Positions,   \* where programs let transfers start
    Messages,    \* interrupt messages programs choose
    Images       \* files m35fd.bin may hold

NO_MEDIA == 0
READY == 1
BUSY == 3
ERROR_NONE == 0
ERROR_BUSY == 1

ASSUME WordAssumption == 0 \in Word /\ \A w \in Word : iflip(w) \in Word /\ iflip(iflip(w)) = w
ASSUME DiskAssumption ==
    /\ SIZE \in Nat \ {0} /\ LAST \in Nat /\ Sectors \subseteq Nat
    /\ Images \subseteq Seq(Word)
\* A transfer stays inside memory (the drive does not test that).
ASSUME PositionAssumption ==
    /\ RAM \in Nat /\ Positions \subseteq Nat /\ \A p \in Positions : p + SIZE <= RAM
ASSUME MessageAssumption == Messages \subseteq Nat /\ 0 \in Messages

VARIABLES
    state, last_error, interrupt_msg, reading, writing, sector, position,
    disk,       \* the words of the file
    loaded,     \* m35fd.bin could be opened
    ram,
    regB, regC,
    raised,     \* the message the last step passed to vm_interrupt, or 0
    asked,      \* the transfer the program was last promised
    saved       \* what the drive last wrote to each sector, << >> if nothing

drive == <<state, last_error, interrupt_msg, reading, writing, sector, position>>
history == <<asked, saved>>
vars == <<drive, disk, loaded, ram, regB, regC, raised, history>>

Idle == [kind |-> "none", sector |-> 0, position |-> 0]

Init ==
    /\ loaded \in BOOLEAN /\ disk \in Images
    /\ state = IF loaded THEN READY ELSE NO_MEDIA
    /\ last_error = ERROR_NONE /\ interrupt_msg = 0
    /\ reading = FALSE /\ writing = FALSE /\ sector = 0 /\ position = 0
    /\ ram = [x \in 0 .. RAM - 1 |-> 0] /\ regB = 0 /\ regC = 0 /\ raised = 0
    /\ asked = Idle /\ saved = [s \in Sectors |-> << >>]

-----------------------------------------------------------------------------
(* Commands *)

set_state(s) == state' = s /\ raised' = interrupt_msg'
set_error(e) == last_error' = e /\ raised' = interrupt_msg'

\* POLL has no break: it also takes X as the new message.
Poll(x) ==
    /\ regB' = state /\ regC' = last_error /\ last_error' = ERROR_NONE
    /\ interrupt_msg' = x /\ raised' = 0
    /\ UNCHANGED <<state, reading, writing, sector, position, disk, loaded, ram, history>>

SetMessage(x) ==
    /\ interrupt_msg' = x /\ raised' = 0
    /\ UNCHANGED <<state, last_error, reading, writing, sector, position,
                   disk, loaded, ram, regB, regC, history>>

\* Mutant: a request is taken while another one is under way.
Ready_Always == loaded

Ready == state = READY /\ ~reading /\ ~writing

Accept(kind, s, p) ==
    /\ Ready
    /\ reading' = (reading \/ kind = "read") /\ writing' = (writing \/ kind = "write")
    /\ sector' = s /\ position' = p
    /\ UNCHANGED interrupt_msg /\ set_state(BUSY) /\ regB' = 1
    /\ asked' = IF asked = Idle THEN [kind |-> kind, sector |-> s, position |-> p] ELSE asked
    /\ UNCHANGED <<last_error, disk, loaded, ram, regC, saved>>

Refuse ==
    /\ ~Ready
    /\ regB' = 0 /\ UNCHANGED interrupt_msg /\ set_error(ERROR_BUSY)
    /\ UNCHANGED <<state, reading, writing, sector, position, disk, loaded, ram, regC, history>>

\* The program goes on while the drive is busy.
ProgramStores(x, w) ==
    /\ ram' = [ram EXCEPT ![x] = w] /\ raised' = 0
    /\ UNCHANGED <<drive, disk, loaded, regB, regC, history>>

-----------------------------------------------------------------------------
(* The 60 Hz hook *)

\* Mutant: sectors overlap by a word.
Offset_Overlap(s) == s * (SIZE - 1)

\* Where a sector starts in the file, in words.
Offset(s) == s * SIZE

\* Mutant: the word is not set before the first read.
ReadBlock_Unset(s) ==
    [i \in 1 .. SIZE |-> IF Offset(s) + i <= Len(disk) THEN disk[Offset(s) + i] ELSE -1]

\* iread: past the end of the file it turns round the word read before, which
\* is 0 at the start of a sector.
ReadBlock(s) ==
    LET word[i \in 0 .. SIZE] ==
            IF i = 0 THEN 0
            ELSE IF Offset(s) + i <= Len(disk) THEN disk[Offset(s) + i]
            ELSE iflip(word[i - 1])
    IN  [i \in 1 .. SIZE |-> word[i]]

\* iwrite: seeking past the end of the file fills the gap with 0.
WriteBlock(s, block) ==
    LET at == Offset(s)
        cell(i) == IF i \in at + 1 .. at + SIZE THEN block[i - at]
                   ELSE IF i <= Len(disk) THEN disk[i] ELSE 0
    IN  [i \in 1 .. (IF Len(disk) > at + SIZE THEN Len(disk) ELSE at + SIZE) |-> cell(i)]

Buffer(mem, p) == [i \in 1 .. SIZE |-> mem[p + i - 1]]

\* Mutant: the state is not set back and nobody is told.
reset_state_Quiet ==
    /\ sector' = 0 /\ reading' = FALSE /\ writing' = FALSE /\ position' = 0
    /\ UNCHANGED interrupt_msg /\ state' = state /\ raised' = 0
    /\ asked' = Idle

reset_state ==
    /\ sector' = 0 /\ reading' = FALSE /\ writing' = FALSE /\ position' = 0
    /\ UNCHANGED interrupt_msg /\ set_state(READY)
    /\ asked' = Idle

NothingToDo ==
    /\ sector <= LAST /\ ~reading /\ ~writing /\ raised' = 0
    /\ UNCHANGED <<drive, disk, loaded, ram, regB, regC, history>>

NoSuchSector ==
    /\ sector > LAST /\ reset_state
    /\ UNCHANGED <<last_error, disk, loaded, ram, regB, regC, saved>>

FinishRead ==
    /\ sector <= LAST /\ reading
    /\ ram' = [x \in DOMAIN ram |-> IF x \in position .. position + SIZE - 1
                                    THEN ReadBlock(sector)[x - position + 1] ELSE ram[x]]
    /\ reset_state
    /\ UNCHANGED <<last_error, disk, loaded, regB, regC, saved>>

FinishWrite ==
    /\ sector <= LAST /\ ~reading /\ writing
    /\ disk' = WriteBlock(sector, Buffer(ram, position))
    /\ saved' = [saved EXCEPT ![sector] = Buffer(ram, position)]
    /\ reset_state
    /\ UNCHANGED <<last_error, loaded, ram, regB, regC>>

Cycle == NothingToDo \/ NoSuchSector \/ FinishRead \/ FinishWrite

Next == \/ \E x \in Messages : Poll(x) \/ SetMessage(x)
        \/ \E kind \in {"read", "write"}, s \in Sectors, p \in Positions : Accept(kind, s, p)
        \/ Refuse
        \/ \E x \in 0 .. RAM - 1, w \in Word : ProgramStores(x, w)
        \/ Cycle

\* The 60 Hz hooks run again and again as long as the machine does.
Spec == Init /\ [][Next]_vars
FairSpec == Spec /\ WF_vars(Cycle)

-----------------------------------------------------------------------------
(* Properties *)

\* The drive's registers stay in their ranges and the file holds words.
TypeOK ==
    /\ state \in {NO_MEDIA, READY, BUSY} /\ last_error \in {ERROR_NONE, ERROR_BUSY}
    /\ {reading, writing, loaded} \subseteq BOOLEAN /\ interrupt_msg \in Messages
    /\ sector \in Sectors \cup {0} /\ position \in Positions \cup {0}
    /\ disk \in Seq(Word) /\ ram \in [0 .. RAM - 1 -> Word] /\ raised \in Messages

\* BUSY means exactly that one transfer, the one the program was promised, is
\* still to be done, for the sector and position named then: no later command
\* redirects it.  A drive without a disk never has one.
BusyIsOneRequest ==
    /\ state = BUSY <=> asked # Idle
    /\ reading = (asked.kind = "read") /\ writing = (asked.kind = "write")
    /\ sector = asked.sector /\ position = asked.position
    /\ state = NO_MEDIA <=> ~loaded

\* Every sector keeps what the drive last wrote to it, whatever is written to
\* other sectors and however short the file was: reading it gives that back.
SectorsKeep ==
    \A s \in Sectors : saved[s] # << >> => ReadBlock(s) = saved[s]

\* Memory and disk change only as the promised transfer says, and a transfer
\* that ends tells a program that set a message.
TransferIsAsPromised ==
    [][asked # Idle /\ asked' = Idle =>
         /\ raised' = interrupt_msg
         /\ asked.sector > LAST => UNCHANGED <<disk, ram>>
         /\ asked.sector <= LAST /\ asked.kind = "read" =>
              Buffer(ram', asked.position) = ReadBlock(asked.sector) /\ UNCHANGED disk
         /\ asked.sector <= LAST /\ asked.kind = "write" => UNCHANGED ram]_vars

\* An accepted request is finished: the drive becomes ready again.
BusyEnds == (state = BUSY) ~> (state = READY)

\* What the drive owes at any time: one request while it is busy, and the
\* sectors it wrote, with its registers in their ranges.
DriveInv == TypeOK /\ BusyIsOneRequest /\ SectorsKeep
=============================================================================
