---------------------------- MODULE M35fdProofs ----------------------------
(***************************************************************************)
(* Theorems about M35fd for every disk, sector size, memory and program:   *)
(* a busy drive has exactly the request it accepted, sectors keep what was *)
(* written to them, and a transfer moves what was promised.                *)
(***************************************************************************)
EXTENDS M35fd, WellFoundedInduction, SequenceTheorems, TLAPS

-----------------------------------------------------------------------------
(* Reading a sector *)

\* Every non-empty set of naturals has a least element: induction over data,
\* in the form that needs no predicate as a parameter.
LEMMA LeastNat ==
    ASSUME NEW T, T \subseteq Nat, T # {}
    PROVE  \E x \in T : \A y \in T : x <= y
  <1>1. PICK x \in T : \A y \in T : ~(<<y, x>> \in OpToRel(<, Nat))
    BY WFMin, NatLessThanWellFounded
  <1>2. \A y \in T : ~(y < x)
    BY <1>1 DEF OpToRel
  <1> QED BY <1>2

\* iread's words, as a function that satisfies the recursion.
IsRead(word, s) ==
    word = [i \in 0 .. SIZE |->
              IF i = 0 THEN 0
              ELSE IF Offset(s) + i <= Len(disk) THEN disk[Offset(s) + i]
              ELSE iflip(word[i - 1])]

LEMMA ReadBlockIs ==
    ASSUME NEW s
    PROVE  ReadBlock(s) = [i \in 1 .. SIZE |-> (CHOOSE word : IsRead(word, s))[i]]
  BY DEF ReadBlock, IsRead

\* The recursion has a solution: past the end of the file, iread turns the
\* last word it got round and round, which is back at its start after two.
LEMMA ReadExists ==
    ASSUME NEW s \in Nat, disk \in Seq(Word)
    PROVE  \E word : IsRead(word, s)
  <1> DEFINE at == Offset(s)
             last(i) == at + i <= Len(disk)
             \* words of this sector that the file has
             n == IF Len(disk) <= at THEN 0 ELSE Len(disk) - at
             base == IF n = 0 THEN 0 ELSE disk[Len(disk)]
             f == [i \in 0 .. SIZE |->
                     IF i = 0 THEN 0 ELSE IF at + i <= Len(disk) THEN disk[at + i]
                     ELSE IF (i - n) % 2 = 0 THEN base ELSE iflip(base)]
  <1>0. at \in Nat /\ SIZE \in Nat \ {0} /\ Len(disk) \in Nat
    BY DiskAssumption DEF Offset
  <1>1. n \in Nat /\ base \in Word /\ iflip(iflip(base)) = base
    BY <1>0, WordAssumption
  <1>2. ASSUME NEW i \in 1 .. SIZE, at + i > Len(disk)
        PROVE  (IF (i - n) % 2 = 0 THEN base ELSE iflip(base)) = iflip(f[i - 1])
    <2>1. i - n \in Nat \ {0} /\ i - 1 \in 0 .. SIZE
      BY <1>0, <1>2
    <2>2. CASE i - n = 1
      <3>1. f[i - 1] = base
        <4>1. CASE i = 1
          <5>1. n = 0
            BY <1>1, <2>2, <4>1
          <5> QED BY <2>1, <4>1, <5>1
        <4>2. CASE i # 1
          <5>1. n # 0 /\ i - 1 = n /\ at + (i - 1) = Len(disk)
            BY <1>0, <2>2, <4>2
          <5> QED BY <2>1, <5>1
        <4> QED BY <4>1, <4>2
      <3>2. (i - n) % 2 = 1
        BY <2>2
      <3> QED BY <3>1, <3>2
    <2>3. CASE i - n > 1
      <3>1. i - 1 > 0 /\ at + (i - 1) > Len(disk)
        BY <1>0, <1>2, <2>3
      <3>2. f[i - 1] = IF (i - 1 - n) % 2 = 0 THEN base ELSE iflip(base)
        BY <1>0, <2>1, <3>1
      <3>3. (i - n) % 2 = 0 <=> (i - 1 - n) % 2 # 0
        <4>1. \A d \in Nat \ {0} : d % 2 = 0 <=> (d - 1) % 2 # 0
          OBVIOUS
        <4> HIDE DEF n
        <4>2. i - 1 - n = (i - n) - 1
          BY <1>1, <2>1
        <4> QED BY <2>1, <4>1, <4>2
      <3> QED BY <1>1, <3>2, <3>3
    <2> QED BY <2>1, <2>2, <2>3
  <1>3. IsRead(f, s)
    <2> SUFFICES ASSUME NEW i \in 0 .. SIZE
                 PROVE  f[i] = IF i = 0 THEN 0
                               ELSE IF at + i <= Len(disk) THEN disk[at + i] ELSE iflip(f[i - 1])
      BY DEF IsRead
    <2>1. CASE i = 0
      BY <2>1
    <2>2. CASE i # 0 /\ at + i <= Len(disk)
      BY <2>2
    <2>3. CASE i # 0 /\ ~(at + i <= Len(disk))
      <3>1. i \in 1 .. SIZE /\ at + i > Len(disk)
        BY <1>0, <2>3
      <3>2. f[i] = IF (i - n) % 2 = 0 THEN base ELSE iflip(base)
        BY <2>3
      <3> HIDE DEF f, n, base
      <3> QED BY <1>2, <2>3, <3>1, <3>2
    <2> QED BY <2>1, <2>2, <2>3
  <1> QED BY <1>3

\* What the drive reads, without the recursion: words, and those of the file
\* as far as it goes.
ReadOK ==
    \A s \in Nat :
        /\ ReadBlock(s) \in [1 .. SIZE -> Word]
        /\ \A i \in 1 .. SIZE : Offset(s) + i <= Len(disk) => ReadBlock(s)[i] = disk[Offset(s) + i]

LEMMA ReadBlockType == disk \in Seq(Word) => ReadOK
  <1> SUFFICES ASSUME disk \in Seq(Word), NEW s \in Nat
               PROVE  /\ ReadBlock(s) \in [1 .. SIZE -> Word]
                      /\ \A i \in 1 .. SIZE : Offset(s) + i <= Len(disk) =>
                                              ReadBlock(s)[i] = disk[Offset(s) + i]
    BY DEF ReadOK
  <1> DEFINE word == CHOOSE w : IsRead(w, s)
  <1>0. Offset(s) \in Nat /\ SIZE \in Nat \ {0} /\ Len(disk) \in Nat
    BY DiskAssumption DEF Offset
  <1>1. IsRead(word, s)
    BY ReadExists
  <1>2. ReadBlock(s) = [i \in 1 .. SIZE |-> word[i]]
    BY ReadBlockIs
  <1> HIDE DEF word
  <1>3. \A i \in 0 .. SIZE : word[i] = IF i = 0 THEN 0
                                       ELSE IF Offset(s) + i <= Len(disk) THEN disk[Offset(s) + i]
                                       ELSE iflip(word[i - 1])
    BY <1>1 DEF IsRead
  <1> DEFINE T == {i \in 0 .. SIZE : word[i] \notin Word}
  <1>4. T = {}
    <2> SUFFICES ASSUME T # {} PROVE FALSE
      OBVIOUS
    <2>1. PICK m \in T : \A k \in T : m <= k
      <3>1. T \subseteq Nat
        BY <1>0
      <3> HIDE DEF T
      <3> QED BY <3>1, LeastNat
    <2>2. m \in 0 .. SIZE /\ m # 0 /\ word[m] \notin Word
      BY <1>3, <2>1, WordAssumption
    <2>3. m - 1 \in 0 .. SIZE /\ word[m - 1] \in Word
      BY <1>0, <2>1, <2>2
    <2>4. Offset(s) + m <= Len(disk) => disk[Offset(s) + m] \in Word
      BY <1>0, <2>2
    <2> QED BY <1>3, <2>2, <2>3, <2>4, WordAssumption
  <1>5. \A i \in 1 .. SIZE : word[i] \in Word
    BY <1>0, <1>4
  <1> QED BY <1>0, <1>2, <1>3, <1>5

LEMMA ReadBlockTypeNext == (disk \in Seq(Word))' => ReadOK'
  BY ReadBlockType, PTL

-----------------------------------------------------------------------------
(* The invariant *)

Request == [kind : {"read", "write"}, sector : Sectors, position : Positions]

\* The history records what the types of the code cannot: the request that was
\* accepted, and what a sector was last given.
HistoryOK == asked \in {Idle} \cup Request /\ saved \in [Sectors -> Seq(Word)]

\* A sector that was written lies whole inside the file, word for word.
SavedIsStored ==
    \A s \in Sectors : saved[s] # << >> =>
        /\ Len(saved[s]) = SIZE /\ Offset(s) + SIZE <= Len(disk)
        /\ \A i \in 1 .. SIZE : disk[Offset(s) + i] = saved[s][i]

DInv == TypeOK /\ BusyIsOneRequest /\ HistoryOK /\ SavedIsStored

\* A request is not Idle, which has another kind.
LEMMA RequestType ==
    ASSUME NEW q \in Request
    PROVE  /\ q # Idle /\ q.kind \in {"read", "write"}
           /\ q.sector \in Sectors /\ q.position \in Positions
  BY DEF Request, Idle

\* Sectors do not overlap.
LEMMA SectorsApart ==
    ASSUME NEW s \in Nat, NEW t \in Nat, s # t
    PROVE  /\ Offset(s) \in Nat /\ Offset(t) \in Nat
           /\ Offset(s) + SIZE <= Offset(t) \/ Offset(t) + SIZE <= Offset(s)
  <1>1. ASSUME NEW a \in Nat, NEW b \in Nat, a < b
        PROVE  a * SIZE + SIZE <= b * SIZE
    <2>1. PICK d \in Nat : b = a + 1 + d
      <3>1. b - a - 1 \in Nat /\ b = a + 1 + (b - a - 1)
        BY <1>1
      <3> QED BY <3>1
    <2>2. SIZE \in Nat /\ d * SIZE \in Nat /\ a * SIZE \in Nat
      BY DiskAssumption
    <2>3. (a + 1 + d) * SIZE = a * SIZE + SIZE + d * SIZE
      BY <2>2
    <2> QED BY <2>1, <2>2, <2>3
  <1>2. SIZE \in Nat
    BY DiskAssumption
  <1>3. Offset(s) = s * SIZE /\ Offset(t) = t * SIZE
    BY DEF Offset
  <1>4. s * SIZE \in Nat /\ t * SIZE \in Nat
    BY <1>2
  <1>5. s < t \/ t < s
    OBVIOUS
  <1> QED BY <1>1, <1>3, <1>4, <1>5

\* iwrite leaves words, the block where it was written, and every word of the
\* file that lies elsewhere; the file never gets shorter.
LEMMA WriteBlockIs ==
    ASSUME NEW s \in Nat, disk \in Seq(Word), NEW block \in [1 .. SIZE -> Word]
    PROVE  LET d == WriteBlock(s, block) IN
           /\ d \in Seq(Word)
           /\ Len(d) >= Len(disk) /\ Len(d) >= Offset(s) + SIZE
           /\ \A i \in 1 .. SIZE : d[Offset(s) + i] = block[i]
           /\ \A i \in 1 .. Len(disk) : i \notin Offset(s) + 1 .. Offset(s) + SIZE => d[i] = disk[i]
  <1> DEFINE at == Offset(s)
             cell(i) == IF i \in at + 1 .. at + SIZE THEN block[i - at]
                        ELSE IF i <= Len(disk) THEN disk[i] ELSE 0
             n == IF Len(disk) > at + SIZE THEN Len(disk) ELSE at + SIZE
             d == [i \in 1 .. n |-> cell(i)]
  <1>1. WriteBlock(s, block) = d
    BY DEF WriteBlock
  <1>2. at \in Nat /\ SIZE \in Nat /\ Len(disk) \in Nat
    BY DiskAssumption DEF Offset
  <1> HIDE DEF at
  <1>3. n \in Nat /\ n >= Len(disk) /\ n >= at + SIZE
    BY <1>2
  <1>4. \A i \in 1 .. n : cell(i) \in Word
    <2> SUFFICES ASSUME NEW i \in 1 .. n PROVE cell(i) \in Word
      OBVIOUS
    <2>1. CASE i \in at + 1 .. at + SIZE
      <3>1. i - at \in 1 .. SIZE
        BY <1>2, <2>1
      <3> QED BY <2>1, <3>1
    <2>2. CASE i \notin at + 1 .. at + SIZE
      BY <1>2, <2>2, WordAssumption
    <2> QED BY <2>1, <2>2
  <1> HIDE DEF n
  <1>5. d \in Seq(Word) /\ Len(d) = n
    <2> HIDE DEF cell
    <2> QED BY <1>3, <1>4
  <1>6. ASSUME NEW i \in 1 .. SIZE PROVE d[at + i] = block[i]
    <2>1. at + i \in 1 .. n /\ at + i \in at + 1 .. at + SIZE /\ (at + i) - at = i
      BY <1>2, <1>3
    <2> QED BY <2>1
  <1>7. ASSUME NEW i \in 1 .. Len(disk), i \notin at + 1 .. at + SIZE PROVE d[i] = disk[i]
    BY <1>2, <1>3, <1>7
  <1> HIDE DEF d
  <1> QED BY <1>1, <1>3, <1>5, <1>6, <1>7 DEF at

LEMMA BufferType ==
    ASSUME NEW mem \in [0 .. RAM - 1 -> Word], NEW p \in Positions
    PROVE  Buffer(mem, p) \in [1 .. SIZE -> Word]
  <1>1. p \in Nat /\ SIZE \in Nat /\ RAM \in Nat /\ p + SIZE <= RAM
    BY PositionAssumption, DiskAssumption
  <1>2. \A i \in 1 .. SIZE : p + i - 1 \in 0 .. RAM - 1
    BY <1>1
  <1> QED BY <1>2 DEF Buffer

LEMMA DInit == Init => DInv
  <1> SUFFICES ASSUME Init PROVE DInv
    OBVIOUS
  <1>1. TypeOK
    <2>1. ram \in [0 .. RAM - 1 -> Word] /\ disk \in Seq(Word)
      BY WordAssumption, DiskAssumption DEF Init
    <2>2. state \in {NO_MEDIA, READY, BUSY}
      BY DEF Init
    <2> QED BY <2>1, <2>2, MessageAssumption DEF Init, TypeOK
  <1>2. BusyIsOneRequest
    <2>1. /\ asked = Idle /\ Idle.kind = "none" /\ Idle.sector = 0 /\ Idle.position = 0
          /\ reading = FALSE /\ writing = FALSE /\ sector = 0 /\ position = 0
      BY DEF Init, Idle
    <2>2. state # BUSY /\ (state = NO_MEDIA <=> ~loaded)
      BY DEF Init, NO_MEDIA, READY, BUSY
    <2>3. reading = (asked.kind = "read") /\ writing = (asked.kind = "write")
      BY <2>1, Zenon
    <2> QED BY <2>1, <2>2, <2>3 DEF BusyIsOneRequest
  <1>3. HistoryOK
    BY DEF Init, HistoryOK
  <1>4. SavedIsStored
    BY DEF Init, SavedIsStored
  <1> QED BY <1>1, <1>2, <1>3, <1>4 DEF DInv

\* A step that leaves the request, the file and the history alone keeps all
\* of the invariant but the types.
LEMMA RequestKept ==
    ASSUME DInv, UNCHANGED <<state, reading, writing, sector, position, disk, loaded, history>>
    PROVE  BusyIsOneRequest' /\ HistoryOK' /\ SavedIsStored'
  BY DEF DInv, BusyIsOneRequest, HistoryOK, SavedIsStored, history, Offset

\* A drive that is busy with a request has its disk, and the request is the
\* one its registers hold.
LEMMA BusyIs ==
    ASSUME DInv, reading \/ writing \/ sector # 0
    PROVE  /\ asked \in Request /\ loaded
           /\ sector = asked.sector /\ position = asked.position
           /\ reading <=> asked.kind = "read"
           /\ writing <=> asked.kind = "write"
           /\ sector \in Sectors /\ position \in Positions
  <1>0. /\ (reading <=> asked.kind = "read") /\ (writing <=> asked.kind = "write")
        /\ sector = asked.sector
    BY Zenon DEF DInv, BusyIsOneRequest
  <1>1. asked # Idle
    BY <1>0 DEF Idle
  <1>2. asked \in Request
    BY <1>1 DEF DInv, HistoryOK
  <1>3. loaded
    BY <1>1 DEF DInv, BusyIsOneRequest, TypeOK, BUSY, NO_MEDIA
  <1>4. asked.sector \in Sectors /\ asked.position \in Positions
    BY <1>2, RequestType
  <1>5. sector = asked.sector /\ position = asked.position
    BY DEF DInv, BusyIsOneRequest
  <1> QED BY <1>0, <1>2, <1>3, <1>4, <1>5

\* The end of a request: the drive is ready and owes nothing.
LEMMA ResetKeeps ==
    ASSUME DInv, reading \/ writing \/ sector # 0, reset_state, UNCHANGED loaded
    PROVE  /\ BusyIsOneRequest' /\ asked' = Idle
           /\ state' \in {NO_MEDIA, READY, BUSY}
           /\ {reading', writing', loaded'} \subseteq BOOLEAN /\ interrupt_msg' \in Messages
           /\ sector' \in Sectors \cup {0} /\ position' \in Positions \cup {0}
           /\ raised' \in Messages
  <1>1. /\ state' = READY /\ reading' = FALSE /\ writing' = FALSE /\ sector' = 0 /\ position' = 0
        /\ asked' = Idle /\ interrupt_msg' = interrupt_msg /\ raised' = interrupt_msg
    BY DEF reset_state, set_state
  <1>2. loaded /\ loaded' = loaded /\ loaded \in BOOLEAN /\ interrupt_msg \in Messages
    BY BusyIs DEF DInv, TypeOK
  <1>3. Idle.kind = "none" /\ Idle.sector = 0 /\ Idle.position = 0
    BY DEF Idle
  <1>4. reading' = (asked'.kind = "read") /\ writing' = (asked'.kind = "write")
    BY <1>1, <1>3, Zenon
  <1>5. BusyIsOneRequest'
    BY <1>1, <1>2, <1>3, <1>4 DEF BusyIsOneRequest, NO_MEDIA, READY, BUSY
  <1> QED BY <1>1, <1>2, <1>5

LEMMA AcceptInv ==
    ASSUME DInv, NEW kind \in {"read", "write"}, NEW s \in Sectors, NEW p \in Positions,
           Accept(kind, s, p)
    PROVE  DInv'
  <1> DEFINE q == [kind |-> kind, sector |-> s, position |-> p]
  <1>1. /\ state = READY /\ ~reading /\ ~writing /\ state' = BUSY
        /\ sector' = s /\ position' = p /\ loaded' = loaded /\ raised' = interrupt_msg
        /\ interrupt_msg' = interrupt_msg /\ last_error' = last_error
        /\ UNCHANGED <<disk, ram, saved>>
        /\ reading' = (reading \/ kind = "read") /\ writing' = (writing \/ kind = "write")
    BY DEF Accept, Ready, set_state
  <1>2. asked = Idle /\ loaded
    BY <1>1 DEF DInv, BusyIsOneRequest, NO_MEDIA, READY, BUSY
  <1>3. asked' = q /\ q \in Request /\ q # Idle
    BY <1>2, RequestType DEF Accept, Request
  <1>4. q.kind = kind /\ q.sector = s /\ q.position = p
    OBVIOUS
  <1> HIDE DEF q
  <1>5. reading' = (asked'.kind = "read") /\ writing' = (asked'.kind = "write")
    BY <1>1, <1>3, <1>4, Zenon
  <1>6. BusyIsOneRequest'
    BY <1>1, <1>2, <1>3, <1>4, <1>5 DEF BusyIsOneRequest, NO_MEDIA, READY, BUSY
  <1>7. {reading', writing', loaded'} \subseteq BOOLEAN
    BY <1>1 DEF DInv, TypeOK
  <1>8. TypeOK'
    BY <1>1, <1>7 DEF DInv, TypeOK
  <1>9. HistoryOK'
    BY <1>1, <1>3 DEF DInv, HistoryOK
  <1>10. SavedIsStored'
    BY <1>1 DEF DInv, SavedIsStored, Offset
  <1> QED BY <1>6, <1>8, <1>9, <1>10 DEF DInv

LEMMA FinishReadInv == DInv /\ FinishRead => DInv'
  <1> SUFFICES ASSUME DInv, FinishRead PROVE DInv'
    OBVIOUS
  <1>1. reading /\ reset_state /\ UNCHANGED <<last_error, disk, loaded, saved>>
    BY DEF FinishRead
  <1>2. sector \in Nat /\ position \in Nat
    BY <1>1, BusyIs, DiskAssumption, PositionAssumption
  <1>3. ReadBlock(sector) \in [1 .. SIZE -> Word]
    BY <1>2, ReadBlockType DEF DInv, TypeOK, ReadOK
  <1>4. ram' \in [0 .. RAM - 1 -> Word]
    <2> DEFINE b == ReadBlock(sector)
    <2>1. SIZE \in Nat /\ ram \in [0 .. RAM - 1 -> Word]
      BY DiskAssumption DEF DInv, TypeOK
    <2>2. ram' = [x \in 0 .. RAM - 1 |-> IF x \in position .. position + SIZE - 1
                                         THEN b[x - position + 1] ELSE ram[x]]
      BY <2>1 DEF FinishRead
    <2> HIDE DEF b
    <2>3. ASSUME NEW x \in 0 .. RAM - 1, x \in position .. position + SIZE - 1
          PROVE  b[x - position + 1] \in Word
      <3>1. x - position + 1 \in 1 .. SIZE
        BY <1>2, <2>1, <2>3
      <3> QED BY <1>3, <3>1 DEF b
    <2> QED BY <2>1, <2>2, <2>3
  <1>5. /\ BusyIsOneRequest' /\ asked' = Idle
        /\ state' \in {NO_MEDIA, READY, BUSY}
        /\ {reading', writing', loaded'} \subseteq BOOLEAN /\ interrupt_msg' \in Messages
        /\ sector' \in Sectors \cup {0} /\ position' \in Positions \cup {0}
        /\ raised' \in Messages
    BY <1>1, ResetKeeps
  <1>6. TypeOK'
    BY <1>1, <1>4, <1>5 DEF DInv, TypeOK
  <1>7. HistoryOK'
    BY <1>1, <1>5 DEF DInv, HistoryOK
  <1>8. SavedIsStored'
    BY <1>1 DEF DInv, SavedIsStored, Offset
  <1> QED BY <1>5, <1>6, <1>7, <1>8 DEF DInv

LEMMA FinishWriteInv == DInv /\ FinishWrite => DInv'
  <1> SUFFICES ASSUME DInv, FinishWrite PROVE DInv'
    OBVIOUS
  <1> DEFINE block == Buffer(ram, position)
             at == Offset(sector)
  <1>1. /\ writing /\ reset_state /\ UNCHANGED <<last_error, loaded, ram>>
        /\ disk' = WriteBlock(sector, block)
        /\ saved' = [saved EXCEPT ![sector] = block]
    BY DEF FinishWrite
  <1>2. sector \in Nat /\ sector \in Sectors /\ position \in Positions
    BY <1>1, BusyIs, DiskAssumption
  <1>3. block \in [1 .. SIZE -> Word] /\ block \in Seq(Word) /\ Len(block) = SIZE
    <2>1. block \in [1 .. SIZE -> Word]
      BY <1>2, BufferType DEF DInv, TypeOK
    <2> HIDE DEF block
    <2> QED BY <2>1, DiskAssumption
  <1> HIDE DEF block
  <1>4. /\ disk \in Seq(Word) /\ disk' \in Seq(Word)
        /\ Len(disk') >= Len(disk) /\ Len(disk') >= at + SIZE
        /\ \A i \in 1 .. SIZE : disk'[at + i] = block[i]
        /\ \A i \in 1 .. Len(disk) : i \notin at + 1 .. at + SIZE => disk'[i] = disk[i]
    BY <1>1, <1>2, <1>3, WriteBlockIs DEF DInv, TypeOK
  <1>5. /\ BusyIsOneRequest' /\ asked' = Idle
        /\ state' \in {NO_MEDIA, READY, BUSY}
        /\ {reading', writing', loaded'} \subseteq BOOLEAN /\ interrupt_msg' \in Messages
        /\ sector' \in Sectors \cup {0} /\ position' \in Positions \cup {0}
        /\ raised' \in Messages
    BY <1>1, ResetKeeps
  <1>6. TypeOK'
    BY <1>1, <1>4, <1>5 DEF DInv, TypeOK
  <1>7. saved \in [Sectors -> Seq(Word)] /\ HistoryOK'
    BY <1>1, <1>2, <1>3, <1>5 DEF DInv, HistoryOK
  <1>8. ASSUME NEW s \in Sectors, saved'[s] # << >>
        PROVE  /\ Len(saved'[s]) = SIZE /\ Offset(s) + SIZE <= Len(disk')
               /\ \A i \in 1 .. SIZE : disk'[Offset(s) + i] = saved'[s][i]
    <2>1. CASE s = sector
      <3>1. saved'[s] = block
        BY <1>1, <1>7, <2>1
      <3>2. Len(disk') \in Nat /\ at \in Nat /\ SIZE \in Nat
        BY <1>2, <1>4, DiskAssumption DEF Offset
      <3> QED BY <1>3, <1>4, <2>1, <3>1, <3>2
    <2>2. CASE s # sector
      <3>0. s \in Nat /\ SIZE \in Nat /\ Len(disk) \in Nat /\ Len(disk') \in Nat
        BY <1>4, DiskAssumption
      <3>1. /\ saved'[s] = saved[s] /\ Len(saved[s]) = SIZE
            /\ Offset(s) + SIZE <= Len(disk)
            /\ \A i \in 1 .. SIZE : disk[Offset(s) + i] = saved[s][i]
        BY <1>1, <1>7, <1>8, <2>2 DEF DInv, SavedIsStored
      <3>2. /\ Offset(s) \in Nat /\ at \in Nat
            /\ Offset(s) + SIZE <= at \/ at + SIZE <= Offset(s)
        BY <1>2, <2>2, <3>0, SectorsApart
      <3> HIDE DEF at
      <3>3. ASSUME NEW i \in 1 .. SIZE PROVE disk'[Offset(s) + i] = saved[s][i]
        <4>1. Offset(s) + i \in 1 .. Len(disk) /\ Offset(s) + i \notin at + 1 .. at + SIZE
          BY <3>0, <3>1, <3>2
        <4> QED BY <1>4, <3>1, <4>1
      <3>4. Offset(s) + SIZE <= Len(disk')
        BY <1>4, <3>0, <3>1, <3>2
      <3> QED BY <3>1, <3>3, <3>4
    <2> QED BY <2>1, <2>2
  <1>9. SavedIsStored'
    BY <1>8 DEF SavedIsStored, Offset
  <1> QED BY <1>5, <1>6, <1>7, <1>9 DEF DInv

LEMMA DNext == DInv /\ [Next]_vars => DInv'
  <1> SUFFICES ASSUME DInv, [Next]_vars PROVE DInv'
    OBVIOUS
  <1>1. CASE \E x \in Messages : Poll(x) \/ SetMessage(x)
    <2>1. TypeOK'
      BY <1>1, MessageAssumption DEF DInv, TypeOK, Poll, SetMessage
    <2>2. UNCHANGED <<state, reading, writing, sector, position, disk, loaded, history>>
      BY <1>1 DEF Poll, SetMessage
    <2> QED BY <2>1, <2>2, RequestKept DEF DInv
  <1>2. CASE \E kind \in {"read", "write"}, s \in Sectors, p \in Positions : Accept(kind, s, p)
    BY <1>2, AcceptInv
  <1>3. CASE Refuse
    <2>1. TypeOK'
      BY <1>3 DEF DInv, TypeOK, Refuse, set_error
    <2>2. UNCHANGED <<state, reading, writing, sector, position, disk, loaded, history>>
      BY <1>3 DEF Refuse
    <2> QED BY <2>1, <2>2, RequestKept DEF DInv
  <1>4. CASE \E x \in 0 .. RAM - 1, w \in Word : ProgramStores(x, w)
    <2>1. TypeOK'
      BY <1>4, MessageAssumption DEF DInv, TypeOK, ProgramStores, drive
    <2>2. UNCHANGED <<state, reading, writing, sector, position, disk, loaded, history>>
      BY <1>4 DEF ProgramStores, drive
    <2> QED BY <2>1, <2>2, RequestKept DEF DInv
  <1>5. CASE NothingToDo
    <2>1. TypeOK'
      BY <1>5, MessageAssumption DEF DInv, TypeOK, NothingToDo, drive
    <2>2. UNCHANGED <<state, reading, writing, sector, position, disk, loaded, history>>
      BY <1>5 DEF NothingToDo, drive
    <2> QED BY <2>1, <2>2, RequestKept DEF DInv
  <1>6. CASE NoSuchSector
    <2>1. sector # 0 /\ reset_state /\ UNCHANGED <<last_error, disk, loaded, ram, saved>>
      BY <1>6, DiskAssumption DEF NoSuchSector
    <2>2. /\ BusyIsOneRequest' /\ asked' = Idle
          /\ state' \in {NO_MEDIA, READY, BUSY}
          /\ {reading', writing', loaded'} \subseteq BOOLEAN /\ interrupt_msg' \in Messages
          /\ sector' \in Sectors \cup {0} /\ position' \in Positions \cup {0}
          /\ raised' \in Messages
      BY <2>1, ResetKeeps
    <2>3. TypeOK'
      BY <2>1, <2>2 DEF DInv, TypeOK
    <2>4. HistoryOK' /\ SavedIsStored'
      BY <2>1, <2>2 DEF DInv, HistoryOK, SavedIsStored, Offset
    <2> QED BY <2>2, <2>3, <2>4 DEF DInv
  <1>7. CASE FinishRead
    BY <1>7, FinishReadInv
  <1>8. CASE FinishWrite
    BY <1>8, FinishWriteInv
  <1>9. CASE UNCHANGED vars
    <2>1. TypeOK'
      BY <1>9 DEF DInv, TypeOK, vars, drive
    <2> QED BY <1>9, <2>1, RequestKept DEF DInv, vars, drive
  <1> QED
    BY <1>1, <1>2, <1>3, <1>4, <1>5, <1>6, <1>7, <1>8, <1>9 DEF Next, Cycle

LEMMA DInvariance == Spec => []DInv
  BY DInit, DNext, PTL DEF Spec

\* What was written can be read: the file holds the whole sector.
LEMMA StoredIsKept == DInv => SectorsKeep
  <1> SUFFICES ASSUME DInv, NEW s \in Sectors, saved[s] # << >>
               PROVE  ReadBlock(s) = saved[s]
    BY DEF SectorsKeep
  <1>1. /\ Len(saved[s]) = SIZE /\ Offset(s) + SIZE <= Len(disk)
        /\ \A i \in 1 .. SIZE : disk[Offset(s) + i] = saved[s][i]
        /\ saved[s] \in Seq(Word)
    BY DEF DInv, SavedIsStored, HistoryOK
  <1>2. s \in Nat /\ Offset(s) \in Nat /\ SIZE \in Nat /\ Len(disk) \in Nat
    BY DiskAssumption DEF DInv, TypeOK, Offset
  <1>3. /\ ReadBlock(s) \in [1 .. SIZE -> Word]
        /\ \A i \in 1 .. SIZE : Offset(s) + i <= Len(disk) => ReadBlock(s)[i] = disk[Offset(s) + i]
    BY <1>2, ReadBlockType DEF DInv, TypeOK, ReadOK
  <1>4. ASSUME NEW i \in 1 .. SIZE PROVE ReadBlock(s)[i] = saved[s][i]
    <2>1. Offset(s) + i <= Len(disk)
      BY <1>1, <1>2
    <2> QED BY <1>1, <1>3, <2>1
  <1>5. ReadBlock(s) \in Seq(Word) /\ Len(ReadBlock(s)) = SIZE
    BY <1>2, <1>3
  <1> QED BY <1>1, <1>4, <1>5, SeqEqual

\* A busy drive has exactly the request it accepted, a drive without a disk has
\* none, and every sector keeps what was last written to it, for every disk,
\* image file and program (vm_hw_m35fd_interrupt, vm_hw_m35fd_cycle).
THEOREM DriveCorrect == Spec => []DriveInv
  <1>1. DInv => DriveInv
    BY StoredIsKept DEF DInv, DriveInv
  <1> QED BY <1>1, DInvariance, PTL

LEMMA PromisedStep ==
    ASSUME DInv, Next, asked # Idle, asked' = Idle
    PROVE  /\ raised' = interrupt_msg
           /\ asked.sector > LAST => UNCHANGED <<disk, ram>>
           /\ asked.sector <= LAST /\ asked.kind = "read" =>
                Buffer(ram', asked.position) = ReadBlock(asked.sector) /\ UNCHANGED disk
           /\ asked.sector <= LAST /\ asked.kind = "write" => UNCHANGED ram
  <1>1. NoSuchSector \/ FinishRead \/ FinishWrite
    <2>1. ASSUME asked' = asked PROVE FALSE
      BY <2>1
    <2>2. CASE \E x \in Messages : Poll(x) \/ SetMessage(x)
      BY <2>1, <2>2 DEF Poll, SetMessage, history
    <2>3. CASE \E kind \in {"read", "write"}, s \in Sectors, p \in Positions : Accept(kind, s, p)
      BY <2>1, <2>3 DEF Accept
    <2>4. CASE Refuse \/ \E x \in 0 .. RAM - 1, w \in Word : ProgramStores(x, w)
      BY <2>1, <2>4 DEF Refuse, ProgramStores, history
    <2>5. CASE NothingToDo
      BY <2>1, <2>5 DEF NothingToDo, history
    <2> QED BY <2>2, <2>3, <2>4, <2>5 DEF Next, Cycle
  <1>2. reset_state /\ raised' = interrupt_msg
    BY <1>1 DEF NoSuchSector, FinishRead, FinishWrite, reset_state, set_state
  <1>3. asked \in Request /\ sector = asked.sector /\ position = asked.position
    BY DEF DInv, HistoryOK, BusyIsOneRequest
  <1>4. sector \in Sectors /\ position \in Positions /\ sector \in Nat /\ position \in Nat
    BY <1>3, RequestType, DiskAssumption, PositionAssumption
  <1>5. (reading <=> asked.kind = "read") /\ (writing <=> asked.kind = "write")
    BY Zenon DEF DInv, BusyIsOneRequest
  <1>6. CASE NoSuchSector
    BY <1>2, <1>3, <1>4, <1>6, DiskAssumption DEF NoSuchSector
  <1>7. CASE FinishRead
    <2> DEFINE b == ReadBlock(sector)
    <2>1. sector <= LAST /\ asked.kind = "read" /\ disk' = disk
      BY <1>5, <1>7 DEF FinishRead
    <2>2. ram \in [0 .. RAM - 1 -> Word] /\ b \in [1 .. SIZE -> Word]
      BY <1>4, ReadBlockType DEF DInv, TypeOK, ReadOK
    <2>3. ram' = [x \in 0 .. RAM - 1 |-> IF x \in position .. position + SIZE - 1
                                         THEN b[x - position + 1] ELSE ram[x]]
      BY <1>7, <2>2 DEF FinishRead
    <2>4. SIZE \in Nat /\ RAM \in Nat /\ position + SIZE <= RAM
      BY <1>4, DiskAssumption, PositionAssumption
    <2> HIDE DEF b
    <2>5. ASSUME NEW i \in 1 .. SIZE PROVE ram'[position + i - 1] = b[i]
      <3> DEFINE x == position + i - 1
      <3>1. x \in 0 .. RAM - 1 /\ x \in position .. position + SIZE - 1 /\ x - position + 1 = i
        BY <1>4, <2>4
      <3> HIDE DEF x
      <3>2. ram'[x] = b[i]
        BY <2>3, <3>1
      <3> QED BY <3>2 DEF x
    <2>6. Buffer(ram', position) = b
      BY <2>2, <2>5 DEF Buffer
    <2> QED BY <1>2, <1>3, <1>4, <2>1, <2>6, DiskAssumption DEF b
  <1>8. CASE FinishWrite
    <2>1. sector <= LAST /\ asked.kind # "read" /\ ram' = ram
      BY <1>5, <1>8 DEF FinishWrite
    <2> QED BY <1>2, <1>3, <1>4, <2>1, DiskAssumption
  <1> QED BY <1>1, <1>6, <1>7, <1>8

\* When a transfer ends, memory holds the promised sector or the disk was
\* written and memory left alone, nothing moves for a sector beyond the last,
\* and the program's message is raised (vm_hw_m35fd_cycle).
THEOREM TransfersAsPromised == Spec => TransferIsAsPromised
  <1> DEFINE A == asked # Idle /\ asked' = Idle =>
         /\ raised' = interrupt_msg
         /\ asked.sector > LAST => UNCHANGED <<disk, ram>>
         /\ asked.sector <= LAST /\ asked.kind = "read" =>
              Buffer(ram', asked.position) = ReadBlock(asked.sector) /\ UNCHANGED disk
         /\ asked.sector <= LAST /\ asked.kind = "write" => UNCHANGED ram
  <1>1. DInv /\ [Next]_vars => [A]_vars
    BY PromisedStep
  <1> HIDE DEF A
  <1>2. Spec => [][A]_vars
    BY <1>1, DInvariance, PTL DEF Spec
  <1> QED BY <1>2 DEF TransferIsAsPromised, A
=============================================================================
