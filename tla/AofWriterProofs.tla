-------------------------- MODULE AofWriterProofs --------------------------
(***************************************************************************)
(* Theorems about the append-only file for any number of records and of    *)
(* crashes, whatever of the file a failing machine leaves: its state is    *)
(* well formed, no record is stranded in a buffer, and a restart gives     *)
(* back what was logged.                                                   *)
(*                                                                         *)
(* What a restart finds: the argument is about the stream, the file followed *)
(* by what is still in the buffer.  A prefix of it without a torn record   *)
(* consists of whole records, the last one perhaps cut short, and these are *)
(* the first records of the store; cutting the stream anywhere and appending *)
(* a record to it both keep this.                                          *)
(***************************************************************************)
EXTENDS AofWriter, FiniteSetTheorems, SequenceTheorems, TLAPS

-----------------------------------------------------------------------------
(* Types.                                                                  *)

Cell == [rec : Record, part : 1 .. 3]

\* The bytes of a record.
LEMMA RespType ==
  ASSUME NEW r \in Record
  PROVE  /\ Resp(r) \in Seq(Cell) /\ Len(Resp(r)) = 3
         /\ \A i \in 1 .. 3 : Resp(r)[i] = [rec |-> r, part |-> i]
BY DEF Resp, Cell

\* Complete records of well-formed bytes are records.
LEMMA CompleteType ==
  ASSUME NEW s \in Seq(Cell)
  PROVE  Complete(s) \subseteq Record
<1>1. Range(s) \subseteq Cell
  BY DEF Range
<1> QED
  BY <1>1 DEF Complete, Cell

\* flush() and fsync() of well-formed bytes that extend the file.
LEMMA FlushAndSyncType ==
  ASSUME TypeOK, NEW bytes \in Seq(Cell), FlushAndSync(bytes), Len(file) <= Len(bytes)
  PROVE  /\ buf' \in Seq(Cell) /\ file' \in Seq(Cell) /\ Len(file) <= Len(file')
         /\ synced' \in 0 .. Len(file') /\ durable' \subseteq Record /\ skipped' \in BOOLEAN
         /\ inherited' \in Nat
<1>1. buf' \in Seq(Cell) /\ file' = bytes /\ inherited' \in Nat
  BY DEF FlushAndSync, TypeOK
<1>2. CASE Synced(bytes)
  <2>1. Len(bytes) \in Nat /\ Complete(bytes) \subseteq Record /\ durable \subseteq Record
    BY CompleteType DEF TypeOK
  <2>2. synced' = Len(bytes) /\ durable' = durable \cup Complete(bytes) /\ skipped' = FALSE
    BY <1>2 DEF Synced
  <2>3. skipped' \in BOOLEAN
    BY <2>2, Zenon
  <2> QED
    BY <1>1, <2>1, <2>2, <2>3
<1>3. CASE skipped' = TRUE /\ UNCHANGED <<synced, durable>>
  BY <1>1, <1>3 DEF TypeOK
<1> QED
  BY <1>1, <1>2, <1>3 DEF FlushAndSync

\* The stream passes on some of its bytes.
LEMMA OverflowType ==
  ASSUME TypeOK, NEW bytes \in Seq(Cell), Overflow(bytes)
  PROVE  /\ buf' \in Seq(Cell) /\ file' \in Seq(Cell) /\ Len(file) <= Len(file')
         /\ synced' \in 0 .. Len(file') /\ durable' \subseteq Record /\ skipped' \in BOOLEAN
         /\ inherited' \in Nat
<1>1. PICK n \in {0} \cup Len(buf) .. Len(bytes) :
          /\ file' = file \o SubSeq(bytes, 1, n)
          /\ buf' = SubSeq(bytes, n + 1, Len(bytes))
          /\ UNCHANGED <<synced, durable, skipped, inherited>>
  BY DEF Overflow
<1>2. n \in 0 .. Len(bytes) /\ Len(bytes) \in Nat
  BY DEF TypeOK
<1>3. SubSeq(bytes, 1, n) \in Seq(Cell) /\ SubSeq(bytes, n + 1, Len(bytes)) \in Seq(Cell)
  BY <1>2
<1>4. file' \in Seq(Cell) /\ Len(file) <= Len(file')
  BY <1>1, <1>3 DEF TypeOK, Cell
<1> QED
  BY <1>1, <1>3, <1>4 DEF TypeOK

\* A record that begins at i has at most the cells that follow.
LEMMA OwnBound ==
  ASSUME TypeOK, pos < Len(file)
  PROVE  Own(pos + 1) <= Len(file) - pos /\ Own(pos + 1) \in Nat
<1> DEFINE I == pos + 1 .. Len(file)
           S == {j \in I : file[j].rec = file[pos + 1].rec}
<1>1. pos + 1 \in Int /\ Len(file) \in Int /\ pos + 1 <= Len(file)
  BY DEF TypeOK
<1>2. IsFiniteSet(I) /\ Cardinality(I) = Len(file) - pos
  <2>1. IsFiniteSet(I) /\ Cardinality(I) = IF pos + 1 > Len(file) THEN 0
                                           ELSE Len(file) - (pos + 1) + 1
    BY <1>1, FS_Interval, Zenon
  <2> HIDE DEF I
  <2> QED
    BY <1>1, <2>1 DEF TypeOK
<1>3. S \subseteq I
  OBVIOUS
<1> HIDE DEF I
<1>4. IsFiniteSet(S) /\ Cardinality(S) <= Cardinality(I)
  BY <1>2, <1>3, FS_Subset
<1>5. Cardinality(S) \in Nat
  BY <1>4, FS_CardinalityType
<1>6. Own(pos + 1) = Cardinality(S)
  BY DEF Own, I
<1> QED
  BY <1>2, <1>4, <1>5, <1>6

\* Every step keeps the state well formed.
LEMMA NextType == TypeOK /\ [Next]_vars => TypeOK'
<1> SUFFICES ASSUME TypeOK, [Next]_vars PROVE TypeOK'
  OBVIOUS
<1> USE AofAssumption DEF fileVars, threadVars, replayVars, histVars
<1>0. buf \in Seq(Cell) /\ file \in Seq(Cell)
  BY DEF TypeOK, Cell
<1>r. pos < Len(file) => file[pos + 1].rec \in Record
  <2> SUFFICES ASSUME pos < Len(file) PROVE file[pos + 1].rec \in Record
    OBVIOUS
  <2>1. pos + 1 \in 1 .. Len(file)
    BY DEF TypeOK
  <2>2. file[pos + 1] \in Cell
    BY <1>0, <2>1, ElementOfSeq
  <2> QED
    BY <2>2 DEF Cell
<1>1. CASE write_resp
  <2> DEFINE bytes == buf \o Resp(last + 1)
  <2>1. last + 1 \in Record /\ last' = last + 1 /\ last' \in 0 .. MaxRecords
        /\ logged' = Append(logged, last + 1)
    BY <1>1 DEF write_resp, TypeOK, Record
  <2>2. bytes \in Seq(Cell) /\ file \o bytes \in Seq(Cell) /\ Len(file) <= Len(file \o bytes)
    <3>1. Resp(last + 1) \in Seq(Cell)
      BY <2>1, RespType
    <3> HIDE DEF bytes
    <3>2. bytes \in Seq(Cell)
      BY <1>0, <3>1 DEF bytes
    <3> QED
      BY <1>0, <3>2
  <2>3. need_fsync_' \in BOOLEAN
        /\ UNCHANGED <<sync_mode_, stop_, fsync, proc, pos, applied, crashes>>
    BY <1>1 DEF write_resp, TypeOK
  <2>4. FlushAndSync(file \o bytes) \/ Overflow(bytes)
    BY <1>1 DEF write_resp
  <2> HIDE DEF bytes
  <2>5. /\ buf' \in Seq(Cell) /\ file' \in Seq(Cell) /\ Len(file) <= Len(file')
        /\ synced' \in 0 .. Len(file') /\ durable' \subseteq Record /\ skipped' \in BOOLEAN
        /\ inherited' \in Nat
    BY <2>2, <2>4, FlushAndSyncType, OverflowType
  <2>6. logged' \in Seq(Record \cup {Garbage})
    BY <2>1 DEF TypeOK
  <2>7. pos' \in 0 .. Len(file')
    BY <2>3, <2>5 DEF TypeOK
  <2> QED
    BY <2>1, <2>3, <2>5, <2>6, <2>7 DEF TypeOK, Cell
<1>2. CASE FsyncCheck \/ FsyncWake
  BY <1>2 DEF FsyncCheck, FsyncWake, TypeOK
<1>3. CASE FsyncSync
  <2>1. file \o buf \in Seq(Cell) /\ Len(file) <= Len(file \o buf)
    BY <1>0
  <2>2. /\ buf' \in Seq(Cell) /\ file' \in Seq(Cell) /\ Len(file) <= Len(file')
        /\ synced' \in 0 .. Len(file') /\ durable' \subseteq Record /\ skipped' \in BOOLEAN
        /\ inherited' \in Nat
    BY <1>3, <2>1, FlushAndSyncType DEF FsyncSync
  <2>3. pos' \in 0 .. Len(file')
    BY <1>3, <2>2 DEF FsyncSync, TypeOK
  <2> QED
    BY <1>3, <2>2, <2>3 DEF FsyncSync, TypeOK, Cell
<1>4. CASE Destroy
  BY <1>4 DEF Destroy, TypeOK
<1>5. CASE Close
  <2>1. file' \in Seq(Cell) /\ Len(file) <= Len(file') /\ buf' \in Seq(Cell)
    BY <1>0, <1>5 DEF Close
  <2>2. pos' \in 0 .. Len(file') /\ synced' \in 0 .. Len(file')
    BY <1>5, <2>1 DEF Close, TypeOK
  <2> QED
    BY <1>5, <2>1, <2>2 DEF Close, TypeOK, Cell
<1>6. CASE Kill
  BY <1>6 DEF Kill, TypeOK
<1>7. CASE PowerFail
  <2>1. PICK n \in synced .. Len(file) : file' = SubSeq(file, 1, n) /\ synced' = n
    BY <1>7 DEF PowerFail
  <2>2. n \in 0 .. Len(file) /\ file' \in Seq(Cell) /\ Len(file') = n
    BY <1>0, <2>1 DEF TypeOK
  <2>3. durable' \subseteq Record
    BY <1>7, <2>2, CompleteType DEF PowerFail, TypeOK
  <2> QED
    BY <1>7, <2>1, <2>2, <2>3 DEF PowerFail, TypeOK, Cell
<1>8. CASE Restart
  <2>1. skipped' \in BOOLEAN /\ need_fsync_' \in BOOLEAN /\ stop_' \in BOOLEAN
    <3>1. skipped' = FALSE /\ need_fsync_' = FALSE /\ stop_' = FALSE
      BY <1>8 DEF Restart
    <3> QED
      BY <3>1, Zenon
  <2>2. proc' = "replay" /\ pos' = 0 /\ applied' = <<>> /\ fsync' \in {"check", "exited"}
        /\ inherited' = Len(file) /\ Len(file) \in Nat
        /\ UNCHANGED <<sync_mode_, buf, file, synced, durable, logged, last, crashes>>
    BY <1>8 DEF Restart, histVars, TypeOK
  <2> QED
    BY <2>1, <2>2 DEF TypeOK
<1>9. CASE ReplayRecord
  <2>1. pos' \in 0 .. Len(file')
    BY <1>9, OwnBound DEF ReplayRecord, TypeOK
  <2>2. file[pos + 1].rec \in Record
    BY <1>9, <1>r DEF ReplayRecord
  <2> QED
    BY <1>9, <2>1, <2>2 DEF ReplayRecord, TypeOK
<1>10. CASE ReplayUnended
  <2>1. file[pos + 1].rec \in Record
    BY <1>10, <1>r DEF ReplayUnended
  <2> QED
    BY <1>10, <2>1 DEF ReplayUnended, TypeOK
<1>11. CASE ReplayTorn
  <2>1. applied' \in Seq(Record \cup {Garbage})
    <3>1. PICK g \in {<<>>} \cup {<<Garbage>> : i \in pos + 2 .. Len(file)} : applied' = applied \o g
      BY <1>11 DEF ReplayTorn
    <3>2. g = <<>> \/ g = <<Garbage>>
      BY <3>1
    <3>3. \A S, x : x \in S => <<x>> \in Seq(S) /\ <<>> \in Seq(S)
      OBVIOUS
    <3>4. g \in Seq(Record \cup {Garbage})
      BY <3>2, <3>3, Zenon
    <3> QED
      BY <3>1, <3>4 DEF TypeOK
  <2>2. pos' \in 0 .. Len(file) /\ proc' \in {"replay", "replayed"}
    BY <1>11 DEF ReplayTorn, TypeOK
  <2> QED
    BY <1>11, <2>1, <2>2 DEF ReplayTorn, TypeOK
<1>12. CASE ReplayEnd
  BY <1>12 DEF ReplayEnd, TypeOK
<1>13. CASE Serve
  BY <1>13 DEF Serve, TypeOK
<1>14. CASE UNCHANGED vars
  BY <1>14 DEF vars, TypeOK
<1> QED
  BY <1>1, <1>2, <1>3, <1>4, <1>5, <1>6, <1>7, <1>8, <1>9, <1>10, <1>11, <1>12, <1>13, <1>14
     DEF Next, fsync_loop, replay

\* The writer starts well formed.
LEMMA InitType == Init => TypeOK
<1> SUFFICES ASSUME Init PROVE TypeOK
  OBVIOUS
<1>1. Len(<<>>) = 0 /\ <<>> \in Seq([rec : Record, part : 1 .. 3])
      /\ <<>> \in Seq(Record \cup {Garbage})
  BY EmptySeq
<1>2. skipped \in BOOLEAN /\ need_fsync_ \in BOOLEAN /\ stop_ \in BOOLEAN
  BY DEF Init
<1> QED
  BY <1>1, <1>2, AofAssumption DEF Init, TypeOK

\* For any number of records and crashes the writer's state is well formed; in
\* particular replay never runs past the end of the file.
THEOREM AofTypeCorrect == Spec => []TypeOK
BY InitType, NextType, PTL DEF Spec

-----------------------------------------------------------------------------
(* No record waits for the next one.                                       *)

\* The stream's buffer is empty while the process is down and until it serves.
BufferEmpty == proc \in {"down", "replay", "replayed"} => buf = <<>>

\* Before the server takes requests, too, every byte this process wrote is on disk
\* or will be without another command, or the last fsync is known to have been
\* skipped.
Settled ==
    (/\ proc \in {"replay", "replayed", "up"}
     /\ \/ sync_mode_ = "ALWAYS"
        \/ sync_mode_ = "EVERY_SECOND" /\ ~need_fsync_ /\ fsync # "sync")
    => /\ buf = <<>>
       /\ Len(file) > inherited /\ ~skipped => synced = Len(file)

StrandInv == BufferEmpty /\ Settled

\* Every step keeps what is not on disk accounted for.
LEMMA NextStrand == TypeOK /\ StrandInv /\ [Next]_vars => StrandInv'
<1> SUFFICES ASSUME TypeOK, StrandInv, [Next]_vars PROVE StrandInv'
  OBVIOUS
<1> USE DEF StrandInv, BufferEmpty, Settled, fileVars, threadVars, replayVars, histVars
<1>f. ASSUME NEW bytes, FlushAndSync(bytes)
      PROVE  buf' = <<>> /\ (~skipped' => synced' = Len(file'))
  BY <1>f DEF FlushAndSync, Synced
<1>1. CASE write_resp
  BY <1>1, <1>f DEF write_resp
<1>2. CASE FsyncCheck \/ FsyncWake
  BY <1>2 DEF FsyncCheck, FsyncWake, TypeOK
<1>3. CASE FsyncSync
  BY <1>3, <1>f DEF FsyncSync
<1>4. CASE Destroy \/ Close \/ Kill \/ PowerFail
  BY <1>4 DEF Destroy, Close, Kill, PowerFail
<1>5. CASE Restart
  <2>1. inherited' = Len(file) /\ UNCHANGED <<buf, file, synced>> /\ proc = "down"
        /\ Len(file) \in Nat
    BY <1>5 DEF Restart, TypeOK
  <2> QED
    BY <2>1
<1>6. CASE replay
  BY <1>6 DEF replay, ReplayRecord, ReplayUnended, ReplayTorn, ReplayEnd
<1>7. CASE Serve
  BY <1>7 DEF Serve
<1>8. CASE UNCHANGED vars
  BY <1>8 DEF vars
<1> QED
  BY <1>1, <1>2, <1>3, <1>4, <1>5, <1>6, <1>7, <1>8 DEF Next, fsync_loop

\* However the fsync thread, the writers and the crashes interleave: what this
\* process logged is on disk, or the thread will flush and sync it with no further
\* command, or it has left the buffer and ::open failed for its fsync, which was
\* skipped.
THEOREM NeverStranded == Spec => []NoStrandedRecord
<1>1. Init => StrandInv
  BY DEF Init, StrandInv, BufferEmpty, Settled
<1>2. StrandInv => NoStrandedRecord
  BY DEF StrandInv, Settled, NoStrandedRecord
<1> QED
  BY <1>1, <1>2, InitType, NextType, NextStrand, PTL DEF Spec

\* As long as the file can be opened for fsync() no fsync is skipped.
NoneSkipped == skipped = FALSE

\* No step skips one.
LEMMA NextNoneSkipped == ~OpenFails /\ NoneSkipped /\ [Next]_vars => NoneSkipped'
<1> SUFFICES ASSUME ~OpenFails, NoneSkipped, [Next]_vars PROVE NoneSkipped'
  OBVIOUS
<1> USE DEF NoneSkipped, fileVars, threadVars, replayVars, histVars
<1>1. ASSUME NEW bytes, FlushAndSync(bytes) \/ Overflow(bytes) PROVE skipped' = FALSE
  BY <1>1 DEF FlushAndSync, Synced, Overflow
<1>2. CASE write_resp \/ FsyncSync
  BY <1>1, <1>2 DEF write_resp, FsyncSync
<1>3. CASE FsyncCheck \/ FsyncWake \/ Destroy \/ Close \/ Kill \/ PowerFail
  BY <1>3 DEF FsyncCheck, FsyncWake, Destroy, Close, Kill, PowerFail
<1>4. CASE Restart \/ Serve
  BY <1>4 DEF Restart, Serve
<1>5. CASE replay
  BY <1>5 DEF replay, ReplayRecord, ReplayUnended, ReplayTorn, ReplayEnd
<1>6. CASE UNCHANGED vars
  BY <1>6 DEF vars
<1> QED
  BY <1>2, <1>3, <1>4, <1>5, <1>6 DEF Next, fsync_loop

\* All this process has logged is on disk.
OwnRecordsSynced == buf = <<>> /\ (Len(file) > inherited => synced = Len(file))

\* The mode leaves no fsync to be made: it makes each at once, or none is asked for
\* and the thread is not about to make one.
NoSyncDue ==
    \/ sync_mode_ = "ALWAYS"
    \/ sync_mode_ = "EVERY_SECOND" /\ ~need_fsync_ /\ fsync # "sync"

\* As long as the file can be opened for fsync(), what AofSync promises holds
\* without exception: with ALWAYS every record is on disk when write_resp is over,
\* with EVERY_SECOND when no request for an fsync is left.
THEOREM SyncPromiseKept ==
  ASSUME ~OpenFails
  PROVE  Spec => [](proc = "up" /\ NoSyncDue => OwnRecordsSynced)
<1>1. Init => NoneSkipped
  BY DEF Init, NoneSkipped
<1>2. Spec => []NoneSkipped
  BY <1>1, NextNoneSkipped, PTL DEF Spec
<1>3. NoStrandedRecord /\ NoneSkipped =>
        (proc = "up" /\ NoSyncDue => OwnRecordsSynced)
  BY DEF NoStrandedRecord, NoneSkipped, OwnRecordsSynced, NoSyncDue
<1> QED
  BY <1>2, <1>3, NeverStranded, PTL

-----------------------------------------------------------------------------
(* Sequences of cells.                                                     *)

\* No record is torn before the last of the first n cells of s.
Whole(s, n) == \A i \in 1 .. n - 1 : s[i].part = 3 \/ s[i + 1].rec = s[i].rec

\* Records stand in the order of their numbers, each from its first cell on and
\* without a gap.
Ordered(s) ==
    \A i \in 1 .. Len(s) :
        /\ (i = 1 \/ s[i - 1].rec # s[i].rec) => s[i].part = 1
        /\ \A j \in 1 .. Len(s) : i < j =>
              /\ s[i].rec <= s[j].rec
              /\ s[i].rec = s[j].rec => s[j].part = s[i].part + (j - i)

\* The numbers in s are at most m.
Below(s, m) == \A i \in 1 .. Len(s) : s[i].rec <= m

\* The record cell i belongs to when no record before it is torn.
Block(i) == (i + 2) \div 3

\* The first n cells are those of whole records ...
Parts(s, n) == \A i \in 1 .. n : s[i].part = ((i - 1) % 3) + 1

\* ... namely, as far as replay can tell, of the first ones of recs.
Holds(s, n, recs) ==
    \A i \in 1 .. n : s[i].part # 1 => Block(i) <= Len(recs) /\ recs[Block(i)] = s[i].rec

Faithful(s, recs) ==
    \A n \in 0 .. Len(s) : Whole(s, n) => Parts(s, n) /\ Holds(s, n, recs)

\* What is said of the stream holds of each of its prefixes.
LEMMA PrefixFaithful ==
  ASSUME NEW s \in Seq(Cell), NEW t \in Seq(Cell), Len(s) <= Len(t),
         \A i \in 1 .. Len(s) : s[i] = t[i],
         NEW m, NEW recs, Ordered(t), Below(t, m), Faithful(t, recs)
  PROVE  Ordered(s) /\ Below(s, m) /\ Faithful(s, recs)
<1>0. Len(s) \in Nat /\ Len(t) \in Nat
  OBVIOUS
<1>1. \A i \in 1 .. Len(s) : i \in 1 .. Len(t)
  BY <1>0
<1>2. Below(s, m)
  BY <1>1 DEF Below
<1>3. Ordered(s)
  <2> SUFFICES ASSUME NEW i \in 1 .. Len(s)
               PROVE  /\ (i = 1 \/ s[i - 1].rec # s[i].rec) => s[i].part = 1
                      /\ \A j \in 1 .. Len(s) : i < j =>
                            /\ s[i].rec <= s[j].rec
                            /\ s[i].rec = s[j].rec => s[j].part = s[i].part + (j - i)
    BY DEF Ordered
  <2>1. i # 1 => s[i - 1] = t[i - 1]
    BY <1>0
  <2> QED
    BY <1>1, <2>1 DEF Ordered
<1>4. Faithful(s, recs)
  <2> SUFFICES ASSUME NEW n \in 0 .. Len(s), Whole(s, n)
               PROVE  Parts(s, n) /\ Holds(s, n, recs)
    BY DEF Faithful
  <2>1. n \in 0 .. Len(t) /\ \A i \in 1 .. n : s[i] = t[i]
    BY <1>0
  <2>2. Whole(t, n)
    BY <2>1 DEF Whole
  <2>3. Parts(t, n) /\ Holds(t, n, recs)
    BY <2>1, <2>2 DEF Faithful
  <2> QED
    BY <2>1, <2>3 DEF Parts, Holds
<1> QED
  BY <1>2, <1>3, <1>4

\* More records than the cells need do no harm.
LEMMA HoldsMore ==
  ASSUME NEW S, NEW recs \in Seq(S), NEW more \in Seq(S), NEW s, NEW n \in Nat,
         Holds(s, n, recs)
  PROVE  Holds(s, n, recs \o more)
<1> SUFFICES ASSUME NEW i \in 1 .. n, s[i].part # 1
             PROVE  Block(i) <= Len(recs \o more) /\ (recs \o more)[Block(i)] = s[i].rec
  BY DEF Holds
<1>1. Block(i) <= Len(recs) /\ recs[Block(i)] = s[i].rec
  BY DEF Holds
<1>2. Block(i) \in Nat /\ Block(i) >= 1
  BY DEF Block
<1> QED
  BY <1>1, <1>2

\* One sequence after another, cell by cell.
LEMMA Concat ==
  ASSUME NEW S, NEW s \in Seq(S), NEW r \in Seq(S)
  PROVE  /\ s \o r \in Seq(S) /\ Len(s) \in Nat /\ Len(r) \in Nat
         /\ Len(s \o r) = Len(s) + Len(r)
         /\ \A i \in 1 .. Len(s) : (s \o r)[i] = s[i]
         /\ \A i \in 1 .. Len(r) : (s \o r)[Len(s) + i] = r[i]
OBVIOUS

\* Appending the next record to the stream and to the store.
LEMMA AppendFaithful ==
  ASSUME NEW s \in Seq(Cell), NEW m \in Nat, m + 1 \in Record,
         NEW recs \in Seq(Record \cup {Garbage}),
         Ordered(s), Below(s, m), Faithful(s, recs),
         Whole(s, Len(s)) => Len(recs) = (Len(s) + 1) \div 3
  PROVE  LET t == s \o Resp(m + 1)
             next == Append(recs, m + 1)
         IN  /\ Ordered(t) /\ Below(t, m + 1) /\ Faithful(t, next)
             /\ Whole(t, Len(t)) => Len(next) = (Len(t) + 1) \div 3
             /\ Whole(s, Len(s)) /\ Len(s) = 3 * Len(recs)
                  => Whole(t, Len(t)) /\ Len(t) = 3 * Len(next)
<1> DEFINE t == s \o Resp(m + 1)
           next == Append(recs, m + 1)
           L == Len(s)
<1>0. /\ L \in Nat /\ t \in Seq(Cell) /\ Len(t) = L + 3
      /\ \A i \in 1 .. L : t[i] = s[i]
      /\ \A i \in L + 1 .. L + 3 : t[i] = [rec |-> m + 1, part |-> i - L]
  <2>1. /\ Resp(m + 1) \in Seq(Cell) /\ Len(Resp(m + 1)) = 3
        /\ \A i \in 1 .. 3 : Resp(m + 1)[i] = [rec |-> m + 1, part |-> i]
    BY RespType
  <2> DEFINE R == Resp(m + 1)
  <2> HIDE DEF R
  <2>2. R \in Seq(Cell) /\ Len(R) = 3 /\ \A i \in 1 .. 3 : R[i] = [rec |-> m + 1, part |-> i]
    BY <2>1 DEF R
  <2>t. t = s \o R
    BY DEF R
  <2> HIDE DEF t
  <2>3. /\ L \in Nat /\ t \in Seq(Cell) /\ Len(t) = L + Len(R)
        /\ \A i \in 1 .. L : t[i] = s[i]
        /\ \A i \in 1 .. Len(R) : t[L + i] = R[i]
    <3>1. R \in Seq(Cell)
      BY <2>2
    <3>2. /\ s \o R \in Seq(Cell) /\ Len(s) \in Nat
          /\ Len(s \o R) = Len(s) + Len(R)
          /\ \A i \in 1 .. Len(s) : (s \o R)[i] = s[i]
          /\ \A i \in 1 .. Len(R) : (s \o R)[Len(s) + i] = R[i]
      BY <3>1, Concat
    <3> QED
      BY <2>t, <3>2, Zenon
  <2> HIDE DEF L
  <2>5. ASSUME NEW i \in L + 1 .. L + 3 PROVE t[i] = [rec |-> m + 1, part |-> i - L]
    <3>1. i - L \in 1 .. Len(R) /\ L + (i - L) = i
      BY <2>2, <2>3
    <3>2. t[i] = R[i - L]
      BY <2>3, <3>1
    <3> QED
      BY <2>2, <3>1, <3>2
  <2> QED
    BY <2>2, <2>3, <2>5
<1>1. /\ next \in Seq(Record \cup {Garbage}) /\ Len(next) = Len(recs) + 1
      /\ next[Len(recs) + 1] = m + 1 /\ \A b \in 1 .. Len(recs) : next[b] = recs[b]
      /\ Len(recs) \in Nat
  OBVIOUS
<1> HIDE DEF t, next
<1>2. /\ \A i \in L + 1 .. L + 3 : t[i].rec = m + 1 /\ t[i].part = i - L
      /\ \A i \in 1 .. L : t[i].rec <= m /\ t[i].rec \in Nat /\ t[i].part \in 1 .. 3
  <2>1. \A i \in 1 .. L : s[i] \in Cell
    BY ElementOfSeq
  <2>2. \A i \in 1 .. L : s[i].rec \in Nat /\ s[i].part \in 1 .. 3
    BY <2>1, AofAssumption DEF Cell, Record
  <2>3. \A i \in L + 1 .. L + 3 : t[i].rec = m + 1 /\ t[i].part = i - L
    <3> SUFFICES ASSUME NEW i \in L + 1 .. L + 3 PROVE t[i].rec = m + 1 /\ t[i].part = i - L
      OBVIOUS
    <3>1. t[i] = [rec |-> m + 1, part |-> i - L]
      BY <1>0
    <3> QED
      BY <3>1
  <2>4. \A i \in 1 .. L : s[i].rec <= m
    BY DEF Below
  <2>5. \A i \in 1 .. L : t[i].rec <= m /\ t[i].rec \in Nat /\ t[i].part \in 1 .. 3
    <3> HIDE DEF L
    <3> QED
      BY <1>0, <2>2, <2>4
  <2> QED
    BY <2>3, <2>5
<1> HIDE DEF L
<1>3. Below(t, m + 1)
  <2> SUFFICES ASSUME NEW i \in 1 .. Len(t) PROVE t[i].rec <= m + 1
    BY DEF Below
  <2> QED
    BY <1>0, <1>2
<1>4. Ordered(t)
  <2> SUFFICES ASSUME NEW i \in 1 .. Len(t)
               PROVE  /\ (i = 1 \/ t[i - 1].rec # t[i].rec) => t[i].part = 1
                      /\ \A j \in 1 .. Len(t) : i < j =>
                            /\ t[i].rec <= t[j].rec
                            /\ t[i].rec = t[j].rec => t[j].part = t[i].part + (j - i)
    BY DEF Ordered
  <2>1. CASE i \in 1 .. L
    <3>1. (i = 1 \/ t[i - 1].rec # t[i].rec) => t[i].part = 1
      <4>1. i # 1 => t[i - 1] = s[i - 1]
        BY <1>0, <2>1
      <4> QED
        BY <1>0, <2>1, <4>1 DEF Ordered, L
    <3>2. ASSUME NEW j \in 1 .. Len(t), i < j
          PROVE  /\ t[i].rec <= t[j].rec
                 /\ t[i].rec = t[j].rec => t[j].part = t[i].part + (j - i)
      <4>1. CASE j \in 1 .. L
        BY <1>0, <2>1, <3>2, <4>1 DEF Ordered, L
      <4>2. CASE j \in L + 1 .. L + 3
        BY <1>0, <1>2, <2>1, <4>2
      <4> QED
        BY <1>0, <4>1, <4>2
    <3> QED
      BY <3>1, <3>2
  <2>2. CASE i \in L + 1 .. L + 3
    <3>1. (i = 1 \/ t[i - 1].rec # t[i].rec) => t[i].part = 1
      BY <1>0, <1>2, <2>2
    <3>2. ASSUME NEW j \in 1 .. Len(t), i < j
          PROVE  t[i].rec <= t[j].rec /\ t[j].part = t[i].part + (j - i)
      <4>1. j \in L + 1 .. L + 3
        BY <1>0, <2>2, <3>2
      <4> QED
        BY <1>0, <1>2, <2>2, <4>1
    <3> QED
      BY <3>1, <3>2
  <2> QED
    BY <1>0, <2>1, <2>2
<1>5. ASSUME NEW n \in L + 1 .. L + 3, Whole(t, n)
      PROVE  Whole(s, L) /\ L = 3 * Len(recs)
  <2>1. Whole(s, L)
    <3> SUFFICES ASSUME NEW i \in 1 .. L - 1 PROVE s[i].part = 3 \/ s[i + 1].rec = s[i].rec
      BY DEF Whole
    <3>1. i \in 1 .. n - 1 /\ i \in 1 .. L /\ i + 1 \in 1 .. L
      BY <1>0
    <3> QED
      BY <1>0, <1>5, <3>1 DEF Whole
  <2>2. L = 0 \/ s[L].part = 3
    <3> SUFFICES ASSUME L # 0 PROVE s[L].part = 3
      OBVIOUS
    <3>1. L \in 1 .. n - 1 /\ L \in 1 .. L /\ L + 1 \in L + 1 .. L + 3
      BY <1>0
    <3>2. t[L].part = 3 \/ t[L + 1].rec = t[L].rec
      BY <1>5, <3>1 DEF Whole
    <3>3. t[L].rec \in Nat /\ t[L].rec <= m /\ t[L + 1].rec = m + 1
      BY <1>2, <3>1
    <3>4. t[L].part = 3
      BY <3>2, <3>3
    <3> QED
      BY <1>0, <3>1, <3>4
  <2>3. Parts(s, L)
    BY <1>0, <2>1 DEF Faithful, L
  <2>4. L % 3 = 0
    <3>1. CASE L = 0
      BY <3>1
    <3>2. CASE L # 0
      <4>1. L \in 1 .. L /\ L \in Nat
        BY <1>0, <3>2
      <4>2. ((L - 1) % 3) + 1 = 3
        BY <2>2, <2>3, <3>2, <4>1 DEF Parts
      <4> QED
        BY <3>2, <4>1, <4>2
    <3> QED
      BY <3>1, <3>2
  <2>5. Len(recs) = (L + 1) \div 3
    BY <2>1 DEF L
  <2>6. \A a, b \in Nat : a % 3 = 0 /\ b = (a + 1) \div 3 => a = 3 * b
    OBVIOUS
  <2> QED
    BY <1>0, <1>1, <2>1, <2>4, <2>5, <2>6
<1>6. Faithful(t, next)
  <2> SUFFICES ASSUME NEW n \in 0 .. Len(t), Whole(t, n)
               PROVE  Parts(t, n) /\ Holds(t, n, next)
    BY DEF Faithful
  <2>1. ASSUME NEW k \in 0 .. L, k <= n, Whole(s, k)
        PROVE  /\ \A i \in 1 .. k : t[i].part = ((i - 1) % 3) + 1
               /\ \A i \in 1 .. k : t[i].part # 1 =>
                     Block(i) <= Len(next) /\ next[Block(i)] = t[i].rec
    <3>1. Parts(s, k) /\ Holds(s, k, recs)
      BY <2>1 DEF Faithful, L
    <3>2. \A i \in 1 .. k : t[i] = s[i]
      BY <1>0
    <3>3. \A i \in 1 .. k : Block(i) \in Nat /\ Block(i) >= 1
      BY <1>0 DEF Block
    <3>4. \A i \in 1 .. k : t[i].part = ((i - 1) % 3) + 1
      BY <3>1, <3>2 DEF Parts
    <3>5. ASSUME NEW i \in 1 .. k, t[i].part # 1
          PROVE  Block(i) <= Len(next) /\ next[Block(i)] = t[i].rec
      <4>1. Block(i) <= Len(recs) /\ recs[Block(i)] = t[i].rec
        BY <3>1, <3>2, <3>5 DEF Holds
      <4> QED
        BY <1>1, <3>3, <4>1
    <3> QED
      BY <3>4, <3>5
  <2>2. CASE n \in 0 .. L
    <3>1. Whole(s, n)
      <4> SUFFICES ASSUME NEW i \in 1 .. n - 1 PROVE s[i].part = 3 \/ s[i + 1].rec = s[i].rec
        BY DEF Whole
      <4>1. i \in 1 .. L /\ i + 1 \in 1 .. L
        BY <1>0, <2>2
      <4> QED
        BY <1>0, <4>1 DEF Whole
    <3> QED
      BY <1>0, <2>1, <2>2, <3>1 DEF Parts, Holds
  <2>3. CASE n \in L + 1 .. L + 3
    <3>1. Whole(s, L) /\ L = 3 * Len(recs)
      BY <1>5, <2>3
    <3>2. /\ \A i \in 1 .. L : t[i].part = ((i - 1) % 3) + 1
          /\ \A i \in 1 .. L : t[i].part # 1 =>
                Block(i) <= Len(next) /\ next[Block(i)] = t[i].rec
      BY <1>0, <2>1, <2>3, <3>1, SMTT(30)
    <3>3. ASSUME NEW i \in L + 1 .. L + 3
          PROVE  t[i].part = ((i - 1) % 3) + 1 /\ Block(i) = Len(recs) + 1
      <4>1. t[i].part = i - L /\ L \in Nat /\ Len(recs) \in Nat
        BY <1>0, <1>1, <1>2
      <4>2. \A a, b \in Nat : \A j \in a + 1 .. a + 3 :
                a = 3 * b => j - a = ((j - 1) % 3) + 1 /\ (j + 2) \div 3 = b + 1
        OBVIOUS
      <4> QED
        BY <3>1, <4>1, <4>2 DEF Block
    <3>4. \A i \in 1 .. n : i \in 1 .. L \/ i \in L + 1 .. L + 3
      BY <1>0, <2>3
    <3>5. Parts(t, n)
      BY <3>2, <3>3, <3>4 DEF Parts
    <3>6. Holds(t, n, next)
      BY <1>1, <1>2, <3>2, <3>3, <3>4 DEF Holds
    <3> QED
      BY <3>5, <3>6
  <2> QED
    BY <1>0, <2>2, <2>3
<1>7. Whole(t, Len(t)) => Len(next) = (Len(t) + 1) \div 3
  <2> SUFFICES ASSUME Whole(t, Len(t)) PROVE Len(next) = (Len(t) + 1) \div 3
    OBVIOUS
  <2>1. L = 3 * Len(recs)
    BY <1>0, <1>5
  <2> QED
    BY <1>0, <1>1, <2>1
<1>8. Whole(s, L) /\ L = 3 * Len(recs) => Whole(t, Len(t)) /\ Len(t) = 3 * Len(next)
  <2> SUFFICES ASSUME Whole(s, L), L = 3 * Len(recs)
               PROVE  Whole(t, Len(t)) /\ Len(t) = 3 * Len(next)
    OBVIOUS
  <2>0. Whole(s, L)
    OBVIOUS
  <2>1. Parts(s, L)
    BY <1>0 DEF Faithful, L
  <2>2. L # 0 => s[L].part = 3
    <3>1. \A x \in Nat : x # 0 => ((3 * x - 1) % 3) + 1 = 3
      OBVIOUS
    <3>2. L \in Nat /\ Len(recs) \in Nat /\ (L # 0 => L \in 1 .. L /\ Len(recs) # 0)
      BY <1>0, <1>1
    <3>3. L # 0 => s[L].part = ((L - 1) % 3) + 1
      BY <2>1, <3>2, Zenon DEF Parts
    <3> QED
      BY <3>1, <3>2, <3>3
  <2>3. ASSUME NEW i \in 1 .. Len(t) - 1 PROVE t[i].part = 3 \/ t[i + 1].rec = t[i].rec
    <3>1. CASE i \in 1 .. L - 1
      <4>1. i \in 1 .. L /\ i + 1 \in 1 .. L
        BY <1>0, <3>1
      <4>2. t[i] = s[i] /\ t[i + 1] = s[i + 1]
        BY <1>0, <4>1
      <4> QED
        BY <2>0, <3>1, <4>2 DEF Whole
    <3>2. CASE i = L
      BY <1>0, <2>2, <2>3, <3>2
    <3>3. CASE i \in L + 1 .. L + 2
      BY <1>0, <1>2, <3>3
    <3> QED
      BY <1>0, <3>1, <3>2, <3>3
  <2> QED
    BY <1>0, <1>1, <2>3 DEF Whole
<1> QED
  BY <1>3, <1>4, <1>6, <1>7, <1>8 DEF t, next, L

-----------------------------------------------------------------------------
(* Reading the file.                                                       *)

\* The records among the first p cells of f that replay can tell are in a.
Reads(f, p, a) == \A n \in 0 .. p : Whole(f, n) => Holds(f, n, a)

\* Whole records end at p.
Boundary(f, p) == Whole(f, p) /\ (p = 0 \/ f[p].part = 3)

\* A record begins after p, or the file ends there with a whole record.
AtRecord(f, p) ==
    \/ p < Len(f) /\ f[p + 1].part = 1
    \/ p = Len(f) /\ (p = 0 \/ f[p].part = 3)

\* k cells from p on are all that is there of record r.
Piece(f, p, k, r) ==
    /\ p + k <= Len(f)
    /\ \A j \in p + 1 .. p + k : f[j].rec = r /\ f[j].part = j - p
    /\ p + k < Len(f) => f[p + k + 1].rec # r

\* What Own counts is a piece of at most three cells.
LEMMA OwnPiece ==
  ASSUME TypeOK, Ordered(file), pos < Len(file), file[pos + 1].part = 1
  PROVE  Own(pos + 1) \in 1 .. 3 /\ Piece(file, pos, Own(pos + 1), file[pos + 1].rec)
<1> DEFINE r == file[pos + 1].rec
           S == {j \in pos + 1 .. Len(file) : file[j].rec = r}
<1>1. pos \in Nat /\ Len(file) \in Nat /\ pos + 1 \in 1 .. Len(file)
  BY DEF TypeOK
<1>2. \A j \in 1 .. Len(file) : file[j].rec \in Nat /\ file[j].part \in 1 .. 3
  <2>1. file \in Seq(Cell)
    BY DEF TypeOK, Cell
  <2>2. \A j \in 1 .. Len(file) : file[j] \in Cell
    BY <2>1, ElementOfSeq
  <2> QED
    BY <2>2, AofAssumption DEF Cell, Record
<1>3. ASSUME NEW j \in S
      PROVE  file[j].part = j - pos /\ j <= pos + 3
  <2>1. j \in 1 .. Len(file) /\ file[j].rec = r
    BY <1>1
  <2>2. j # pos + 1 => file[j].part = 1 + (j - (pos + 1))
    BY <1>1, <2>1 DEF Ordered
  <2> QED
    BY <1>1, <1>2, <2>1, <2>2
<1>4. ASSUME NEW j \in S, NEW i \in pos + 1 .. j
      PROVE  i \in S
  <2>1. i \in 1 .. Len(file) /\ j \in 1 .. Len(file) /\ file[j].rec = r /\ i <= j /\ pos + 1 <= i
    BY <1>1
  <2>2. i # j => file[i].rec <= r
    BY <1>1, <2>1 DEF Ordered
  <2>3. i # pos + 1 => r <= file[i].rec
    BY <1>1, <2>1 DEF Ordered
  <2>4. file[i].rec = r
    BY <1>1, <1>2, <2>1, <2>2, <2>3
  <2> QED
    BY <1>1, <2>1, <2>4
<1>5. pos + 1 \in S /\ \A j \in S : j \in Nat /\ j >= pos + 1 /\ j <= Len(file)
  BY <1>1
<1>6. \A j \in S : file[j].rec = r
  OBVIOUS
<1>7. \A j \in pos + 1 .. Len(file) : file[j].rec = r => j \in S
  OBVIOUS
<1>8. Own(pos + 1) = Cardinality(S)
  BY DEF Own
<1> HIDE DEF S, r
<1>9. PICK k \in 1 .. 3 : S = pos + 1 .. pos + k
  <2>1. ASSUME NEW k \in 1 .. 3, pos + k \in S, \A j \in S : j <= pos + k
        PROVE  S = pos + 1 .. pos + k
    <3>1. S \subseteq pos + 1 .. pos + k
      BY <1>1, <1>5, <2>1
    <3>2. pos + 1 .. pos + k \subseteq S
      BY <1>4, <2>1
    <3> QED
      BY <3>1, <3>2
  <2>2. \A j \in S : j \in {pos + 1, pos + 2, pos + 3}
    BY <1>1, <1>3, <1>5
  <2>3. \E k \in 1 .. 3 : pos + k \in S /\ \A j \in S : j <= pos + k
    <3>1. CASE pos + 3 \in S
      BY <1>1, <2>2, <3>1
    <3>2. CASE pos + 3 \notin S /\ pos + 2 \in S
      BY <1>1, <2>2, <3>2
    <3>3. CASE pos + 3 \notin S /\ pos + 2 \notin S
      BY <1>1, <1>5, <2>2, <3>3
    <3> QED
      BY <3>1, <3>2, <3>3
  <2> QED
    BY <2>1, <2>3
<1>10. Own(pos + 1) = k
  <2>1. pos + 1 \in Int /\ pos + k \in Int
    BY <1>1
  <2>3. ~(pos + 1 > pos + k) /\ (pos + k) - (pos + 1) + 1 = k
    BY <1>1
  <2>2. Cardinality((pos + 1) .. (pos + k)) = IF pos + 1 > pos + k THEN 0
                                              ELSE (pos + k) - (pos + 1) + 1
    BY <2>1, FS_Interval, Zenon
  <2> QED
    BY <1>8, <1>9, <2>2, <2>3, Zenon
<1>11. Piece(file, pos, k, r)
  <2>1. pos + k \in S
    BY <1>1, <1>9
  <2>2. pos + k <= Len(file)
    BY <1>5, <2>1
  <2>3. \A j \in pos + 1 .. pos + k : file[j].rec = r /\ file[j].part = j - pos
    BY <1>3, <1>6, <1>9
  <2>4. pos + k < Len(file) => file[pos + k + 1].rec # r
    <3>1. pos + k + 1 \notin S
      BY <1>1, <1>9
    <3> QED
      BY <1>1, <1>7, <3>1
  <2> QED
    BY <2>2, <2>3, <2>4 DEF Piece
<1> QED
  BY <1>10, <1>11 DEF r

\* If no record is torn up to a cell after p, where a record begins, then whole
\* records end at p.
LEMMA Reached ==
  ASSUME NEW f \in Seq(Cell), Ordered(f), NEW p \in 0 .. Len(f) - 1, f[p + 1].part = 1,
         NEW n \in p + 1 .. Len(f), Whole(f, n)
  PROVE  Boundary(f, p)
<1>1. p \in Nat /\ Len(f) \in Nat /\ p <= n - 1
  OBVIOUS
<1>2. Whole(f, p)
  BY <1>1 DEF Whole
<1>3. ASSUME p # 0 PROVE f[p].part = 3
  <2>1. p \in 1 .. n - 1 /\ p \in 1 .. Len(f) /\ p + 1 \in 1 .. Len(f) /\ p < p + 1
    BY <1>1, <1>3
  <2>2. f[p].part = 3 \/ f[p + 1].rec = f[p].rec
    BY <2>1 DEF Whole
  <2>3. f[p] \in Cell
    BY <2>1, ElementOfSeq
  <2>4. f[p].part \in 1 .. 3
    BY <2>3 DEF Cell
  <2>5. f[p].rec = f[p + 1].rec => f[p + 1].part = f[p].part + ((p + 1) - p)
    BY <2>1 DEF Ordered
  <2> QED
    BY <1>1, <2>2, <2>4, <2>5
<1> QED
  BY <1>2, <1>3 DEF Boundary

\* Reading a piece of one, two or three cells.  A piece of two or three is applied;
\* what is made of a piece of one does not matter, for it is torn unless the file
\* ends with it.
LEMMA ReadPiece ==
  ASSUME NEW f \in Seq(Cell), Ordered(f), NEW p \in 0 .. Len(f) - 1,
         NEW a \in Seq(Record \cup {Garbage}), NEW more \in Seq(Record \cup {Garbage}),
         NEW k \in 1 .. 3, NEW r \in Record, Piece(f, p, k, r),
         Reads(f, p, a), Boundary(f, p) => p = 3 * Len(a),
         k # 1 => more = <<r>>
  PROVE  \A n \in 0 .. Len(f) : Whole(f, n) =>
            /\ n <= p + k \/ k = 3
            /\ n <= p + k => Holds(f, n, a \o more)
            /\ n > p => p = 3 * Len(a)
<1> SUFFICES ASSUME NEW n \in 0 .. Len(f), Whole(f, n)
             PROVE  /\ n <= p + k \/ k = 3
                    /\ n <= p + k => Holds(f, n, a \o more)
                    /\ n > p => p = 3 * Len(a)
  OBVIOUS
<1>1. p \in Nat /\ Len(f) \in Nat /\ Len(a) \in Nat /\ n \in Nat
  OBVIOUS
<1>2. f[p + 1].part = 1
  <2>1. p + 1 \in p + 1 .. p + k
    BY <1>1
  <2>2. f[p + 1].part = (p + 1) - p
    BY <2>1, Zenon DEF Piece
  <2> QED
    BY <1>1, <2>2
<1>3. n > p => p = 3 * Len(a) /\ Whole(f, p)
  <2> SUFFICES ASSUME n > p PROVE p = 3 * Len(a) /\ Whole(f, p)
    OBVIOUS
  <2>1. n \in p + 1 .. Len(f)
    BY <1>1
  <2>2. Boundary(f, p)
    BY <1>2, <2>1, Reached
  <2> QED
    BY <2>2 DEF Boundary
<1>4. n <= p + k \/ k = 3
  <2> SUFFICES ASSUME n > p + k, k # 3 PROVE FALSE
    BY <1>1
  <2>1. p + k \in 1 .. n - 1 /\ p + k \in p + 1 .. p + k /\ p + k < Len(f)
    BY <1>1
  <2>2. f[p + k + 1].rec # r
    BY <2>1 DEF Piece
  <2>3. f[p + k].rec = r /\ f[p + k].part = (p + k) - p
    BY <2>1, Zenon DEF Piece
  <2>4. (p + k) - p = k
    BY <1>1
  <2> QED
    BY <2>1, <2>2, <2>3, <2>4 DEF Whole
<1>5. ASSUME n <= p + k PROVE Holds(f, n, a \o more)
  <2>1. CASE n <= p
    <3>1. n \in 0 .. p
      BY <1>1, <2>1
    <3>2. Holds(f, n, a)
      BY <3>1 DEF Reads
    <3> QED
      BY <1>1, <3>2, HoldsMore
  <2>2. CASE n > p
    <3>1. p = 3 * Len(a) /\ p \in 0 .. p /\ Whole(f, p)
      BY <1>1, <1>3, <2>2
    <3>2. Holds(f, p, a)
      BY <3>1 DEF Reads
    <3>3. Holds(f, p, a \o more)
      BY <1>1, <3>2, HoldsMore
    <3> SUFFICES ASSUME NEW i \in 1 .. n, f[i].part # 1
                 PROVE  Block(i) <= Len(a \o more) /\ (a \o more)[Block(i)] = f[i].rec
      BY DEF Holds
    <3>4. CASE i \in 1 .. p
      BY <3>3, <3>4 DEF Holds
    <3>5. CASE i \in p + 1 .. p + k
      <4>1. f[i].rec = r /\ f[i].part = i - p
        BY <3>5 DEF Piece
      <4>2. i \in p + 2 .. p + 3 /\ k # 1
        BY <1>1, <3>5, <4>1
      <4>3. more = <<r>>
        BY <4>2
      <4>4. \A b, q \in Nat : \A j \in q + 2 .. q + 3 : q = 3 * b => (j + 2) \div 3 = b + 1
        OBVIOUS
      <4>5. Block(i) = Len(a) + 1
        BY <1>1, <3>1, <4>2, <4>4 DEF Block
      <4>6. Len(a \o more) = Len(a) + 1 /\ (a \o more)[Len(a) + 1] = r
        BY <4>3
      <4> QED
        BY <1>1, <4>1, <4>5, <4>6
    <3>6. i \in 1 .. p \/ i \in p + 1 .. p + k
      BY <1>1, <1>5
    <3> QED
      BY <3>4, <3>5, <3>6
  <2> QED
    BY <1>1, <2>1, <2>2
<1> QED
  BY <1>3, <1>4, <1>5

-----------------------------------------------------------------------------
(* The inductive invariant.                                                *)

\* Everything written, whether the kernel has it or not.
Stream == file \o buf

\* The stream holds the store's records.  While the process runs the store has no
\* others, unless a torn record got in between.
StreamInv ==
    /\ Ordered(Stream) /\ Below(Stream, last) /\ Faithful(Stream, logged)
    /\ proc \in {"up", "joining"} =>
          (Whole(Stream, Len(Stream)) => Len(logged) = (Len(Stream) + 1) \div 3)

\* Without a crash nothing is torn and nothing is missing.
CleanInv == crashes = 0 => Whole(Stream, Len(Stream)) /\ Len(Stream) = 3 * Len(logged)

\* A durable record ends in the part of the file that is on disk.
DurableInv ==
    \A r \in durable : \E i \in 1 .. synced : file[i].rec = r /\ file[i].part = 3

\* How far replay has come.
ReplayInv ==
    /\ proc = "replay" =>
          /\ Reads(file, pos, applied) /\ AtRecord(file, pos)
          /\ Boundary(file, pos) => pos = 3 * Len(applied)
    /\ proc = "replayed" =>
          /\ Reads(file, Len(file), applied)
          /\ Whole(file, Len(file)) => Len(applied) = (Len(file) + 1) \div 3

RecoveryInv == StreamInv /\ CleanInv /\ DurableInv /\ ReplayInv

\* Flushing and overflowing move bytes from the buffer to the file.
LEMMA StreamMoves ==
  ASSUME TypeOK, NEW bytes \in Seq(Cell), FlushAndSync(file \o bytes) \/ Overflow(bytes)
  PROVE  Stream' = file \o bytes
<1>0. file \in Seq(Cell)
  BY DEF TypeOK, Cell
<1>1. CASE FlushAndSync(file \o bytes)
  <2>1. buf' = <<>> /\ file' = file \o bytes
    BY <1>1 DEF FlushAndSync
  <2>2. file \o bytes \in Seq(Cell)
    BY <1>0
  <2>3. (file \o bytes) \o <<>> = file \o bytes
    BY <2>2, ConcatEmptySeq
  <2> QED
    BY <2>1, <2>3 DEF Stream
<1>2. CASE Overflow(bytes)
  <2>1. PICK n \in {0} \cup Len(buf) .. Len(bytes) :
            /\ file' = file \o SubSeq(bytes, 1, n)
            /\ buf' = SubSeq(bytes, n + 1, Len(bytes))
    BY <1>2 DEF Overflow
  <2>2. n \in 0 .. Len(bytes) /\ Len(bytes) \in Nat
    BY DEF TypeOK
  <2> DEFINE x == SubSeq(bytes, 1, n)
             y == SubSeq(bytes, n + 1, Len(bytes))
  <2>3. x \in Seq(Cell) /\ y \in Seq(Cell)
    BY <2>2
  <2>4. x \o y = bytes
    <3>1. 1 \in 1 .. Len(bytes) + 1 /\ n \in 1 - 1 .. Len(bytes) /\ Len(bytes) \in n .. Len(bytes)
      BY <2>2
    <3>2. x \o y = SubSeq(bytes, 1, Len(bytes))
      BY <3>1, ConcatAdjacentSubSeq, Zenon
    <3> QED
      BY <3>2, SubSeqFull
  <2> HIDE DEF x, y
  <2>5. (file \o x) \o y = file \o (x \o y)
    BY <1>0, <2>3, ConcatAssociative
  <2> QED
    BY <2>1, <2>4, <2>5 DEF Stream, x, y
<1> QED
  BY <1>1, <1>2

\* A step that leaves the stream, the store and the kind of process alone.
LEMMA SameStream ==
  ASSUME StreamInv, CleanInv, UNCHANGED <<Stream, logged, last, crashes>>,
         proc' \in {"up", "joining"} => proc \in {"up", "joining"}
  PROVE  StreamInv' /\ CleanInv'
BY DEF StreamInv, CleanInv

\* A step that cuts the stream and ends the process.
LEMMA CutStream ==
  ASSUME StreamInv, Stream \in Seq(Cell), Stream' \in Seq(Cell), Len(Stream') <= Len(Stream),
         \A i \in 1 .. Len(Stream') : Stream'[i] = Stream[i],
         UNCHANGED <<logged, last>>, proc' = "down"
  PROVE  StreamInv'
<1>1. Ordered(Stream') /\ Below(Stream', last) /\ Faithful(Stream', logged)
  BY PrefixFaithful DEF StreamInv
<1> QED
  BY <1>1 DEF StreamInv

\* Durable records stay where they are when the file only grows.
LEMMA SameDurable ==
  ASSUME DurableInv, TypeOK, UNCHANGED <<durable, synced>>, file' \in Seq(Cell),
         \A i \in 1 .. synced : file'[i] = file[i]
  PROVE  DurableInv'
BY DEF DurableInv

\* fsync() makes the complete records of the file durable.
LEMMA MoreDurable ==
  ASSUME DurableInv, TypeOK, file' \in Seq(Cell), synced \in 0 .. Len(file'),
         \A i \in 1 .. synced : file'[i] = file[i],
         durable' = durable \cup Complete(file'), synced' = Len(file')
  PROVE  DurableInv'
<1> SUFFICES ASSUME NEW r \in durable'
             PROVE  \E i \in 1 .. synced' : file'[i].rec = r /\ file'[i].part = 3
  BY DEF DurableInv
<1>0. Len(file') \in Nat
  OBVIOUS
<1>1. CASE r \in durable
  <2>1. PICK i \in 1 .. synced : file[i].rec = r /\ file[i].part = 3
    BY <1>1 DEF DurableInv
  <2>2. i \in 1 .. synced' /\ file'[i] = file[i]
    BY <1>0, <2>1
  <2> QED
    BY <2>1, <2>2
<1>2. CASE r \in Complete(file')
  <2>1. PICK i \in DOMAIN file' : file'[i].rec = r /\ file'[i].part = 3
    BY <1>2 DEF Complete, Range
  <2>2. DOMAIN file' = 1 .. Len(file')
    BY LenProperties
  <2> QED
    BY <2>1, <2>2
<1> QED
  BY <1>1, <1>2

\* Logging a record.
LEMMA LogStep ==
  ASSUME TypeOK, TypeOK', RecoveryInv, write_resp
  PROVE  RecoveryInv'
<1> DEFINE bytes == buf \o Resp(last + 1)
<1>0. /\ buf \in Seq(Cell) /\ file \in Seq(Cell) /\ file' \in Seq(Cell)
      /\ logged \in Seq(Record \cup {Garbage}) /\ last \in Nat /\ last + 1 \in Record
  BY AofAssumption DEF TypeOK, Cell, write_resp, Record
<1>1. /\ proc = "up" /\ proc' = "up" /\ last' = last + 1 /\ logged' = Append(logged, last + 1)
      /\ crashes' = crashes /\ (FlushAndSync(file \o bytes) \/ Overflow(bytes))
  BY DEF write_resp
<1>2. Resp(last + 1) \in Seq(Cell)
  BY <1>0, RespType
<1>3. bytes \in Seq(Cell) /\ file \o bytes = Stream \o Resp(last + 1) /\ Stream \in Seq(Cell)
  <2> DEFINE R == Resp(last + 1)
  <2> HIDE DEF R
  <2>1. R \in Seq(Cell)
    BY <1>2 DEF R
  <2>2. buf \o R \in Seq(Cell) /\ file \o buf \in Seq(Cell)
        /\ (file \o buf) \o R = file \o (buf \o R)
    <3>1. buf \o R \in Seq(Cell)
      BY <1>0, <2>1, ConcatProperties, Zenon
    <3>2. file \o buf \in Seq(Cell)
      BY <1>0, ConcatProperties, Zenon
    <3>3. ASSUME NEW x \in Seq(Cell), NEW y \in Seq(Cell), NEW z \in Seq(Cell)
          PROVE  (x \o y) \o z = x \o (y \o z)
      BY ConcatAssociative
    <3>4. buf \in Seq(Cell) /\ file \in Seq(Cell)
      BY <1>0, Zenon
    <3>5. (file \o buf) \o R = file \o (buf \o R)
      BY <2>1, <3>3, <3>4, Zenon
    <3> QED
      BY <3>1, <3>2, <3>5, Zenon
  <2> QED
    BY <2>2 DEF R, Stream
<1> HIDE DEF bytes
<1>4. Stream' = Stream \o Resp(last + 1)
  BY <1>1, <1>3, StreamMoves
<1>5. /\ Ordered(Stream') /\ Below(Stream', last') /\ Faithful(Stream', logged')
      /\ Whole(Stream', Len(Stream')) => Len(logged') = (Len(Stream') + 1) \div 3
      /\ Whole(Stream, Len(Stream)) /\ Len(Stream) = 3 * Len(logged)
           => Whole(Stream', Len(Stream')) /\ Len(Stream') = 3 * Len(logged')
  <2>1. /\ Ordered(Stream) /\ Below(Stream, last) /\ Faithful(Stream, logged)
        /\ Whole(Stream, Len(Stream)) => Len(logged) = (Len(Stream) + 1) \div 3
    BY <1>1 DEF RecoveryInv, StreamInv
  <2> QED
    BY <1>0, <1>1, <1>3, <1>4, <2>1, AppendFaithful
<1>6. StreamInv' /\ CleanInv'
  BY <1>1, <1>5 DEF StreamInv, CleanInv, RecoveryInv
<1>7. DurableInv'
  <2>0. synced \in 0 .. Len(file) /\ Len(file) \in Nat /\ DurableInv
    BY DEF TypeOK, RecoveryInv
  <2>1. Len(file) <= Len(file') /\ \A i \in 1 .. Len(file) : file'[i] = file[i]
    <3>1. \A x \in Seq(Cell) : /\ Len(file) <= Len(file \o x)
                               /\ \A i \in 1 .. Len(file) : (file \o x)[i] = file[i]
      BY <1>0, Concat
    <3>2. CASE FlushAndSync(file \o bytes)
      BY <1>3, <3>1, <3>2 DEF FlushAndSync
    <3>3. CASE Overflow(bytes)
      <4>1. PICK n \in {0} \cup Len(buf) .. Len(bytes) : file' = file \o SubSeq(bytes, 1, n)
        BY <3>3 DEF Overflow
      <4>2. n \in 0 .. Len(bytes) /\ Len(bytes) \in Nat
        BY <1>0, <1>3, <4>1
      <4>3. SubSeq(bytes, 1, n) \in Seq(Cell)
        BY <1>3, <4>2
      <4> QED
        BY <3>1, <4>1, <4>3
    <3> QED
      BY <1>1, <3>2, <3>3
  <2>2. \A i \in 1 .. synced : file'[i] = file[i]
    BY <2>0, <2>1
  <2>3. CASE Synced(file \o bytes) /\ file' = file \o bytes
    <3>1. durable' = durable \cup Complete(file') /\ synced' = Len(file')
      BY <2>3 DEF Synced
    <3>2. synced \in 0 .. Len(file')
      BY <1>0, <2>0, <2>1
    <3> QED
      BY <1>0, <2>0, <2>2, <3>1, <3>2, MoreDurable
  <2>4. CASE UNCHANGED <<synced, durable>>
    BY <1>0, <2>0, <2>2, <2>4, SameDurable
  <2> QED
    BY <1>1, <2>3, <2>4 DEF FlushAndSync, Overflow
<1>8. ReplayInv'
  BY <1>1 DEF ReplayInv
<1> QED
  BY <1>6, <1>7, <1>8 DEF RecoveryInv

\* The fsync thread and the destructor move bytes only.
LEMMA FlushStep ==
  ASSUME TypeOK, TypeOK', StrandInv, RecoveryInv, FsyncSync \/ Close
  PROVE  RecoveryInv'
<1>0. /\ buf \in Seq(Cell) /\ file \in Seq(Cell) /\ file' \in Seq(Cell)
      /\ synced \in 0 .. Len(file) /\ Len(file) \in Nat /\ DurableInv
  BY DEF TypeOK, Cell, RecoveryInv
<1>1. /\ file' = file \o buf /\ buf' = <<>>
      /\ UNCHANGED <<pos, applied, logged, last, crashes>>
      /\ proc' = proc \/ (proc = "joining" /\ proc' = "down")
  BY DEF FsyncSync, FlushAndSync, Close, replayVars, histVars
<1>2. Stream' = Stream
  <2>1. (file \o buf) \o <<>> = file \o buf
    <3>1. file \o buf \in Seq(Cell)
      BY <1>0
    <3> QED
      BY <3>1, ConcatEmptySeq
  <2> QED
    BY <1>1, <2>1 DEF Stream
<1>3. StreamInv' /\ CleanInv'
  BY <1>1, <1>2, SameStream DEF RecoveryInv
<1>4. DurableInv'
  <2>1. Len(file) <= Len(file') /\ \A i \in 1 .. Len(file) : file'[i] = file[i]
    BY <1>0, <1>1, Concat
  <2>2. \A i \in 1 .. synced : file'[i] = file[i]
    BY <1>0, <2>1
  <2>3. synced \in 0 .. Len(file')
    BY <1>0, <2>1
  <2>4. \/ durable' = durable \cup Complete(file') /\ synced' = Len(file')
        \/ UNCHANGED <<synced, durable>>
    BY DEF FsyncSync, FlushAndSync, Synced, Close
  <2> QED
    BY <1>0, <2>2, <2>3, <2>4, SameDurable, MoreDurable
<1>5. ReplayInv'
  <2>1. CASE proc' \in {"replay", "replayed"}
    <3>1. buf = <<>> /\ proc' = proc
      BY <1>1, <2>1 DEF StrandInv, BufferEmpty
    <3>2. file' = file
      BY <1>0, <1>1, <3>1, ConcatEmptySeq
    <3> QED
      BY <1>1, <3>1, <3>2 DEF ReplayInv, RecoveryInv
  <2>2. CASE proc' \notin {"replay", "replayed"}
    BY <2>2 DEF ReplayInv
  <2> QED
    BY <2>1, <2>2
<1> QED
  BY <1>3, <1>4, <1>5 DEF RecoveryInv

\* The process or the machine dies.
LEMMA CrashStep ==
  ASSUME TypeOK, TypeOK', RecoveryInv, Kill \/ PowerFail
  PROVE  RecoveryInv'
<1>0. /\ buf \in Seq(Cell) /\ file \in Seq(Cell) /\ file' \in Seq(Cell)
      /\ synced \in 0 .. Len(file) /\ Len(file) \in Nat /\ DurableInv
  BY DEF TypeOK, Cell, RecoveryInv
<1>1. /\ buf' = <<>> /\ proc' = "down" /\ crashes' = crashes + 1 /\ crashes \in Nat
      /\ UNCHANGED <<logged, last>>
  BY DEF Kill, PowerFail, TypeOK
<1>2. Len(file') <= Len(file) /\ synced <= Len(file')
      /\ \A i \in 1 .. Len(file') : file'[i] = file[i]
  <2>1. CASE Kill
    BY <1>0, <2>1 DEF Kill
  <2>2. CASE PowerFail
    <3>1. PICK n \in synced .. Len(file) : file' = SubSeq(file, 1, n)
      BY <2>2 DEF PowerFail
    <3> QED
      BY <1>0, <3>1
  <2> QED
    BY <2>1, <2>2
<1>3. StreamInv'
  <2>1. /\ Stream \in Seq(Cell) /\ Len(file) <= Len(Stream)
        /\ \A i \in 1 .. Len(file) : Stream[i] = file[i]
    BY <1>0, Concat DEF Stream
  <2>2. Stream' = file'
    BY <1>0, <1>1, ConcatEmptySeq DEF Stream
  <2>3. Len(file') \in Nat /\ Len(Stream) \in Nat
    BY <1>0, <2>1
  <2>4. Len(file') <= Len(Stream) /\ \A i \in 1 .. Len(file') : file'[i] = Stream[i]
    BY <1>0, <1>2, <2>1, <2>3
  <2> QED
    BY <1>0, <1>1, <2>1, <2>2, <2>4, CutStream DEF RecoveryInv
<1>4. CleanInv'
  BY <1>1 DEF CleanInv
<1>5. DurableInv'
  <2>1. Len(file') \in Nat
    BY <1>0
  <2>2. synced \in 0 .. Len(file') /\ \A i \in 1 .. synced : file'[i] = file[i]
    BY <1>0, <1>2, <2>1
  <2>3. CASE Kill
    BY <1>0, <2>2, <2>3, SameDurable DEF Kill
  <2>4. CASE PowerFail
    <3>1. durable' = durable \cup Complete(file') /\ synced' = Len(file')
      <4>1. PICK n \in synced .. Len(file) : file' = SubSeq(file, 1, n) /\ synced' = n
        BY <2>4 DEF PowerFail
      <4>2. Len(file') = n
        BY <1>0, <4>1
      <4> QED
        BY <2>4, <4>1, <4>2 DEF PowerFail
    <3> QED
      BY <1>0, <2>2, <3>1, MoreDurable
  <2> QED
    BY <2>3, <2>4
<1>6. ReplayInv'
  BY <1>1 DEF ReplayInv
<1> QED
  BY <1>3, <1>4, <1>5, <1>6 DEF RecoveryInv

\* What a step of replay and its preliminaries can use.
LEMMA FileFacts ==
  ASSUME TypeOK, StrandInv, RecoveryInv, proc \in {"down", "replay", "replayed"}
  PROVE  /\ file \in Seq(Cell) /\ Len(file) \in Nat /\ Stream = file /\ Ordered(file)
         /\ Faithful(file, logged)
         /\ applied \in Seq(Record \cup {Garbage}) /\ pos \in 0 .. Len(file)
<1>1. file \in Seq(Cell) /\ applied \in Seq(Record \cup {Garbage}) /\ pos \in 0 .. Len(file)
      /\ buf = <<>>
  BY DEF TypeOK, Cell, StrandInv, BufferEmpty
<1>2. Stream = file
  BY <1>1, ConcatEmptySeq DEF Stream
<1> QED
  BY <1>1, <1>2 DEF RecoveryInv, StreamInv

\* The file is opened and replay begins.
LEMMA RestartStep ==
  ASSUME TypeOK, StrandInv, RecoveryInv, Restart
  PROVE  RecoveryInv'
<1>1. /\ proc = "down" /\ proc' = "replay" /\ pos' = 0 /\ applied' = <<>>
      /\ UNCHANGED <<buf, file, synced, durable, logged, last, crashes>>
  BY DEF Restart, histVars
<1>2. file \in Seq(Cell) /\ Len(file) \in Nat /\ Ordered(file)
  BY <1>1, FileFacts
<1>3. StreamInv' /\ CleanInv'
  BY <1>1, SameStream DEF Stream, RecoveryInv
<1>4. DurableInv'
  BY <1>1 DEF DurableInv, RecoveryInv
<1>5. Reads(file, 0, <<>>)
  BY DEF Reads, Holds
<1>6. AtRecord(file, 0)
  <2>1. CASE Len(file) = 0
    BY <2>1 DEF AtRecord
  <2>2. CASE Len(file) # 0
    <3>1. 1 \in 1 .. Len(file) /\ 0 < Len(file)
      BY <1>2, <2>2
    <3>2. file[1].part = 1
      BY <1>2, <3>1 DEF Ordered
    <3> QED
      BY <3>1, <3>2 DEF AtRecord
  <2> QED
    BY <2>1, <2>2
<1>7. 0 = 3 * Len(<<>>)
  OBVIOUS
<1>8. ReplayInv'
  BY <1>1, <1>5, <1>6, <1>7 DEF ReplayInv
<1> QED
  BY <1>3, <1>4, <1>8 DEF RecoveryInv

\* replay changes nothing but what it has read.
LEMMA ReplayFrame ==
  ASSUME RecoveryInv, replay, ReplayInv'
  PROVE  RecoveryInv'
<1>1. /\ proc = "replay" /\ proc' \in {"replay", "replayed"}
      /\ UNCHANGED <<buf, file, synced, durable, logged, last, crashes>>
  BY DEF replay, ReplayRecord, ReplayUnended, ReplayTorn, ReplayEnd, fileVars, histVars
<1>2. StreamInv' /\ CleanInv'
  BY <1>1, SameStream DEF Stream, RecoveryInv
<1>3. DurableInv'
  BY <1>1 DEF DurableInv, RecoveryInv
<1> QED
  BY <1>2, <1>3 DEF RecoveryInv

\* One record, or what is left of one, is read.
LEMMA ReadStep ==
  ASSUME TypeOK, TypeOK', StrandInv, RecoveryInv, ReplayRecord \/ ReplayUnended \/ ReplayTorn
  PROVE  ReplayInv'
<1> DEFINE k == Own(pos + 1)
           r == file[pos + 1].rec
<1>1. /\ proc = "replay" /\ pos < Len(file) /\ file' = file
      /\ proc' \in {"replay", "replayed"}
  BY DEF ReplayRecord, ReplayUnended, ReplayTorn, fileVars
<1>2. /\ file \in Seq(Cell) /\ Len(file) \in Nat /\ Ordered(file) /\ pos \in 0 .. Len(file) - 1
      /\ applied \in Seq(Record \cup {Garbage}) /\ Len(applied) \in Nat
  BY <1>1, FileFacts
<1>3. /\ Reads(file, pos, applied) /\ file[pos + 1].part = 1
      /\ Boundary(file, pos) => pos = 3 * Len(applied)
  BY <1>1, <1>2 DEF RecoveryInv, ReplayInv, AtRecord
<1>4. k \in 1 .. 3 /\ Piece(file, pos, k, r)
  BY <1>1, <1>2, <1>3, OwnPiece
<1>5. r \in Record
  <2>1. pos + 1 \in 1 .. Len(file)
    BY <1>2
  <2>2. file[pos + 1] \in Cell
    BY <1>2, <2>1, ElementOfSeq
  <2> QED
    BY <2>2 DEF Cell
<1>6. PICK more \in Seq(Record \cup {Garbage}) :
          /\ applied' = applied \o more
          /\ k # 1 => more = <<r>>
          /\ k = 1 /\ Len(file) = pos + 1 => more = <<>>
  <2>0. \A S, x : x \in S => <<x>> \in Seq(S) /\ <<>> \in Seq(S)
    OBVIOUS
  <2>1. CASE ReplayRecord \/ ReplayUnended
    <3>1. applied' = Append(applied, r) /\ k # 1
      BY <2>1 DEF ReplayRecord, ReplayUnended
    <3>2. r \in Record \cup {Garbage}
      BY <1>5
    <3>3. applied' = applied \o <<r>> /\ <<r>> \in Seq(Record \cup {Garbage})
      BY <1>2, <2>0, <3>1, <3>2, AppendIsConcat, Zenon
    <3> QED
      BY <3>1, <3>3
  <2>2. CASE ReplayTorn
    <3>1. PICK g \in {<<>>} \cup {<<Garbage>> : i \in pos + 2 .. Len(file)} :
              applied' = applied \o g
      BY <2>2 DEF ReplayTorn
    <3>2. g = <<>> \/ (g = <<Garbage>> /\ pos + 2 <= Len(file))
      BY <1>2, <3>1
    <3>3. Garbage \in Record \cup {Garbage}
      OBVIOUS
    <3>4. g \in Seq(Record \cup {Garbage})
      BY <2>0, <3>2, <3>3, Zenon
    <3>5. k = 1
      BY <2>2 DEF ReplayTorn
    <3>6. Len(file) = pos + 1 => g = <<>>
      BY <1>2, <3>2
    <3> QED
      BY <3>1, <3>4, <3>5, <3>6
  <2> QED
    BY <2>1, <2>2
<1> HIDE DEF k, r
<1>7. \A n \in 0 .. Len(file) : Whole(file, n) =>
          /\ n <= pos + k \/ k = 3
          /\ n <= pos + k => Holds(file, n, applied')
          /\ n > pos => pos = 3 * Len(applied)
  BY <1>2, <1>3, <1>4, <1>5, <1>6, ReadPiece
<1>8. Len(applied') = Len(applied) + Len(more)
  BY <1>2, <1>6
<1>9. k \in 2 .. 3 => Len(applied') = Len(applied) + 1
  <2> SUFFICES ASSUME k \in 2 .. 3 PROVE Len(applied') = Len(applied) + 1
    OBVIOUS
  <2>1. more = <<r>>
    BY <1>6
  <2>2. Len(<<r>>) = 1
    OBVIOUS
  <2> QED
    BY <1>8, <2>1, <2>2
<1>10. CASE ReplayRecord
  <2>1. pos' = pos + 3 /\ k = 3 /\ proc' = "replay"
    BY <1>1, <1>10 DEF ReplayRecord, k
  <2>2. pos + 3 \in 0 .. Len(file) /\ pos + 3 \in pos + 1 .. pos + 3
    BY <1>2, <1>4, <2>1 DEF Piece
  <2>3. Reads(file, pos + 3, applied')
    <3>1. \A n \in 0 .. pos + 3 : n \in 0 .. Len(file) /\ n <= pos + 3
      BY <1>2, <2>2
    <3> QED
      BY <1>7, <2>1, <3>1 DEF Reads
  <2>4. file[pos + 3].part = 3 /\ file[pos + 3].rec = r
    <3>1. file[pos + 3].part = (pos + 3) - pos /\ file[pos + 3].rec = r
      BY <1>4, <2>1, <2>2 DEF Piece
    <3> QED
      BY <1>2, <3>1
  <2>5. AtRecord(file, pos + 3)
    <3>1. CASE pos + 3 = Len(file)
      BY <2>4, <3>1 DEF AtRecord
    <3>2. CASE pos + 3 < Len(file)
      <4>1. pos + 4 \in 1 .. Len(file) /\ pos + 4 # 1 /\ (pos + 4) - 1 = pos + 3
            /\ pos + 3 + 1 = pos + 4
        BY <1>2, <3>2
      <4>2. file[pos + 4].rec # r
        BY <1>4, <2>1, <3>2, <4>1 DEF Piece
      <4>3. file[pos + 4].part = 1
        BY <1>2, <2>4, <4>1, <4>2 DEF Ordered
      <4> QED
        BY <3>2, <4>1, <4>3 DEF AtRecord
    <3> QED
      BY <1>2, <2>2, <3>1, <3>2
  <2>6. Boundary(file, pos + 3) => pos + 3 = 3 * Len(applied')
    <3> SUFFICES ASSUME Boundary(file, pos + 3) PROVE pos + 3 = 3 * Len(applied')
      OBVIOUS
    <3>1. pos = 3 * Len(applied)
      BY <1>2, <1>7, <2>2 DEF Boundary
    <3>2. k \in 2 .. 3
      BY <2>1
    <3>3. Len(applied') = Len(applied) + 1 /\ Len(applied) \in Nat
      BY <1>2, <1>9, <3>2, Zenon
    <3>4. \A x, y, q \in Nat : q = 3 * x /\ y = x + 1 => q + 3 = 3 * y
      OBVIOUS
    <3> QED
      BY <1>2, <3>1, <3>3, <3>4
  <2> QED
    BY <1>1, <2>1, <2>3, <2>5, <2>6 DEF ReplayInv
<1>11. ASSUME k # 3, proc' = "replayed"
       PROVE  ReplayInv'
  <2>1. Reads(file, Len(file), applied')
    BY <1>7, <1>11 DEF Reads
  <2>2. Whole(file, Len(file)) => Len(applied') = (Len(file) + 1) \div 3
    <3> SUFFICES ASSUME Whole(file, Len(file)) PROVE Len(applied') = (Len(file) + 1) \div 3
      OBVIOUS
    <3>1. Len(file) \in 0 .. Len(file) /\ Len(file) > pos
      BY <1>2
    <3>2. Len(file) <= pos + k /\ pos = 3 * Len(applied)
      BY <1>7, <1>11, <3>1
    <3>3. Len(file) = pos + k
      BY <1>2, <1>4, <3>2 DEF Piece
    <3>4. CASE k = 1
      <4>1. Len(applied') = Len(applied)
        BY <1>2, <1>6, <1>8, <3>3, <3>4
      <4>2. \A b \in Nat : b = (3 * b + 1 + 1) \div 3
        OBVIOUS
      <4> QED
        BY <1>2, <3>2, <3>3, <3>4, <4>1, <4>2
    <3>5. CASE k = 2
      <4>1. Len(applied') = Len(applied) + 1
        BY <1>9, <3>5
      <4>2. \A b \in Nat : b + 1 = (3 * b + 2 + 1) \div 3
        OBVIOUS
      <4> QED
        BY <1>2, <3>2, <3>3, <3>5, <4>1, <4>2
    <3> QED
      BY <1>4, <1>11, <3>4, <3>5
  <2> QED
    BY <1>1, <1>11, <2>1, <2>2 DEF ReplayInv
<1>12. CASE ReplayUnended
  BY <1>11, <1>12 DEF ReplayUnended, k
<1>13. CASE ReplayTorn
  <2>1. k = 1
    BY <1>13 DEF ReplayTorn, k
  <2>2. CASE proc' = "replayed"
    BY <1>11, <2>1, <2>2
  <2>3. CASE proc' = "replay"
    <3>1. PICK i \in pos + 2 .. Len(file) : file[i].part = 1 /\ pos' = i - 1
      BY <1>1, <1>13, <2>3 DEF ReplayTorn
    <3>2. i - 1 \in pos + 1 .. Len(file) - 1 /\ i - 1 \in 0 .. Len(file) /\ (i - 1) + 1 = i
          /\ i - 1 # 0
      BY <1>2
    <3>3. Reads(file, i - 1, applied')
      <4>1. \A n \in 0 .. i - 1 : n \in 0 .. Len(file)
        BY <1>2, <3>2
      <4> QED
        BY <1>7, <2>1, <4>1 DEF Reads
    <3>4. AtRecord(file, i - 1)
      BY <1>2, <3>1, <3>2 DEF AtRecord
    <3>5. ~Boundary(file, i - 1)
      <4> SUFFICES ASSUME Whole(file, i - 1), file[i - 1].part = 3 PROVE FALSE
        BY <3>2 DEF Boundary
      <4>1. i - 1 = pos + 1
        BY <1>2, <1>7, <2>1, <3>2
      <4> QED
        BY <1>3, <4>1
    <3> QED
      BY <1>1, <2>3, <3>1, <3>3, <3>4, <3>5 DEF ReplayInv
  <2> QED
    BY <1>1, <2>2, <2>3
<1> QED
  BY <1>10, <1>12, <1>13

\* The end of the file.
LEMMA EndStep ==
  ASSUME TypeOK, StrandInv, RecoveryInv, ReplayEnd
  PROVE  ReplayInv'
<1>1. proc = "replay" /\ proc' = "replayed" /\ pos = Len(file) /\ UNCHANGED <<file, applied>>
  BY DEF ReplayEnd, fileVars, replayVars
<1>2. Len(file) \in Nat /\ Len(applied) \in Nat
  BY <1>1, FileFacts
<1>3. /\ Reads(file, Len(file), applied) /\ (Len(file) = 0 \/ file[Len(file)].part = 3)
      /\ Boundary(file, Len(file)) => Len(file) = 3 * Len(applied)
  BY <1>1, <1>2 DEF RecoveryInv, ReplayInv, AtRecord
<1>4. ASSUME Whole(file, Len(file)) PROVE Len(applied) = (Len(file) + 1) \div 3
  <2>1. Len(file) = 3 * Len(applied)
    BY <1>3, <1>4 DEF Boundary
  <2>2. \A b \in Nat : b = (3 * b + 1) \div 3
    OBVIOUS
  <2> QED
    BY <1>2, <2>1, <2>2
<1> QED
  BY <1>1, <1>3, <1>4 DEF ReplayInv

\* The server takes requests: the store is what was read.
LEMMA ServeStep ==
  ASSUME TypeOK, StrandInv, RecoveryInv, Serve
  PROVE  RecoveryInv'
<1>1. /\ proc = "replayed" /\ proc' = "up" /\ logged' = applied
      /\ UNCHANGED <<buf, file, synced, durable, last, crashes>>
  BY DEF Serve, fileVars
<1>2. /\ Stream = file /\ Len(file) \in Nat /\ Faithful(file, logged)
      /\ logged \in Seq(Record \cup {Garbage}) /\ Len(logged) \in Nat
  BY <1>1, FileFacts DEF TypeOK
<1>3. /\ Reads(file, Len(file), applied)
      /\ Whole(file, Len(file)) => Len(applied) = (Len(file) + 1) \div 3
  BY <1>1 DEF RecoveryInv, ReplayInv
<1>4. Stream' = Stream
  BY <1>1 DEF Stream
<1>5. Faithful(file, applied)
  BY <1>2, <1>3 DEF Faithful, Reads
<1>6. StreamInv'
  BY <1>1, <1>2, <1>3, <1>4, <1>5 DEF StreamInv, RecoveryInv
<1>7. CleanInv'
  <2> SUFFICES ASSUME crashes = 0
               PROVE  Whole(file, Len(file)) /\ Len(file) = 3 * Len(applied)
    BY <1>1, <1>2, <1>4 DEF CleanInv
  <2>1. Whole(file, Len(file)) /\ Len(file) = 3 * Len(logged)
    BY <1>2 DEF CleanInv, RecoveryInv
  <2>2. \A b \in Nat : b = (3 * b + 1) \div 3
    OBVIOUS
  <2> QED
    BY <1>2, <1>3, <2>1, <2>2
<1>8. DurableInv' /\ ReplayInv'
  BY <1>1 DEF DurableInv, ReplayInv, RecoveryInv
<1> QED
  BY <1>6, <1>7, <1>8 DEF RecoveryInv

\* Steps that change neither the file nor the store.
LEMMA OtherStep ==
  ASSUME RecoveryInv, FsyncCheck \/ FsyncWake \/ Destroy \/ UNCHANGED vars
  PROVE  RecoveryInv'
<1>1. /\ UNCHANGED <<buf, file, synced, durable, pos, applied, logged, last, crashes>>
      /\ proc' = proc \/ (proc = "up" /\ proc' = "joining")
  BY DEF FsyncCheck, FsyncWake, Destroy, vars, fileVars, replayVars, histVars
<1>2. StreamInv' /\ CleanInv'
  BY <1>1, SameStream DEF Stream, RecoveryInv
<1> QED
  BY <1>1, <1>2 DEF RecoveryInv, DurableInv, ReplayInv

\* Every step keeps the stream, the store and what is read of it together.
LEMMA NextRecovery == TypeOK /\ TypeOK' /\ StrandInv /\ RecoveryInv /\ [Next]_vars => RecoveryInv'
<1> SUFFICES ASSUME TypeOK, TypeOK', StrandInv, RecoveryInv, [Next]_vars PROVE RecoveryInv'
  OBVIOUS
<1>1. CASE replay
  <2>1. ReplayInv'
    BY <1>1, ReadStep, EndStep DEF replay
  <2> QED
    BY <1>1, <2>1, ReplayFrame
<1>2. CASE ~replay
  BY <1>2, LogStep, FlushStep, CrashStep, RestartStep, ServeStep, OtherStep DEF Next, fsync_loop
<1> QED
  BY <1>1, <1>2

\* Nothing has been written yet.
LEMMA InitRecovery == Init => RecoveryInv
<1> SUFFICES ASSUME Init PROVE RecoveryInv
  OBVIOUS
<1>1. /\ Stream = <<>> /\ file = <<>> /\ durable = {} /\ proc = "down" /\ logged = <<>>
  BY DEF Init, Stream
<1>2. Ordered(<<>>) /\ Below(<<>>, last) /\ Faithful(<<>>, <<>>) /\ Whole(<<>>, Len(<<>>))
      /\ Len(<<>>) = 3 * Len(<<>>)
  BY DEF Ordered, Below, Faithful, Whole, Parts, Holds
<1> QED
  BY <1>1, <1>2 DEF RecoveryInv, StreamInv, CleanInv, DurableInv, ReplayInv

-----------------------------------------------------------------------------
(* Theorems.                                                               *)

\* After a replay of a file without a torn record inside, what was applied is what
\* the stream holds of the store.
LEMMA Recovered ==
  ASSUME TypeOK, StrandInv, RecoveryInv, proc = "replayed", Whole(file, Len(file))
  PROVE  /\ IsPrefix(applied, logged) /\ durable \subseteq Range(applied)
         /\ Len(file) = 3 * Len(logged) => applied = logged
<1>1. /\ file \in Seq(Cell) /\ Len(file) \in Nat /\ Faithful(file, logged)
      /\ applied \in Seq(Record \cup {Garbage}) /\ Len(applied) \in Nat
      /\ logged \in Seq(Record \cup {Garbage}) /\ Len(logged) \in Nat
  BY FileFacts DEF TypeOK
<1>2. Len(file) \in 0 .. Len(file)
  BY <1>1
<1>3. /\ Parts(file, Len(file)) /\ Holds(file, Len(file), logged)
      /\ Holds(file, Len(file), applied) /\ Len(applied) = (Len(file) + 1) \div 3
  BY <1>1, <1>2 DEF Faithful, RecoveryInv, ReplayInv, Reads
<1>4. ASSUME NEW b \in 1 .. Len(applied)
      PROVE  b <= Len(logged) /\ applied[b] = logged[b]
  <2>1. \A x, y \in Nat : y = (x + 1) \div 3 =>
            \A c \in 1 .. y : 3 * c - 1 \in 1 .. x /\ (3 * c - 1 + 2) \div 3 = c
                              /\ ((3 * c - 1 - 1) % 3) + 1 = 2
    OBVIOUS
  <2>2. 3 * b - 1 \in 1 .. Len(file) /\ Block(3 * b - 1) = b
        /\ ((3 * b - 1 - 1) % 3) + 1 = 2
    BY <1>1, <1>3, <2>1 DEF Block
  <2>3. file[3 * b - 1].part = 2
    BY <1>3, <2>2 DEF Parts
  <2>4. file[3 * b - 1].part # 1
    BY <2>3
  <2> QED
    BY <1>3, <2>2, <2>4 DEF Holds
<1>5. Len(applied) <= Len(logged)
  <2>1. CASE Len(applied) = 0
    BY <1>1, <2>1
  <2>2. CASE Len(applied) # 0
    <3>1. Len(applied) \in 1 .. Len(applied)
      BY <1>1, <2>2
    <3> QED
      BY <1>4, <3>1
  <2> QED
    BY <2>1, <2>2
<1>6. IsPrefix(applied, logged)
  <2> DEFINE x == SubSeq(applied, 1, Len(applied))
             y == SubSeq(logged, 1, Len(applied))
  <2>1. x \in Seq(Record \cup {Garbage}) /\ Len(x) = Len(applied)
        /\ \A b \in 1 .. Len(applied) : x[b] = applied[b]
    BY <1>1
  <2>2. y \in Seq(Record \cup {Garbage}) /\ Len(y) = Len(applied)
        /\ \A b \in 1 .. Len(applied) : y[b] = logged[b]
    BY <1>1, <1>5
  <2> HIDE DEF x, y
  <2>3. x = y
    BY <1>4, <2>1, <2>2, SeqEqual
  <2> QED
    BY <1>5, <2>3 DEF IsPrefix, x, y
<1>7. durable \subseteq Range(applied)
  <2> SUFFICES ASSUME NEW r \in durable PROVE r \in Range(applied)
    OBVIOUS
  <2>1. PICK i \in 1 .. synced : file[i].rec = r /\ file[i].part = 3
    BY DEF RecoveryInv, DurableInv
  <2>2. i \in 1 .. Len(file) /\ Block(i) \in Nat /\ Block(i) >= 1 /\ file[i].part # 1
    <3>1. i \in 1 .. Len(file)
      BY DEF TypeOK
    <3>2. Block(i) \in Nat /\ Block(i) >= 1
      BY DEF Block
    <3> QED
      BY <2>1, <3>1, <3>2
  <2>3. Block(i) <= Len(applied) /\ applied[Block(i)] = r
    BY <1>3, <2>1, <2>2 DEF Holds
  <2>4. Block(i) \in DOMAIN applied
    BY <1>1, <2>2, <2>3
  <2> QED
    BY <2>3, <2>4 DEF Range
<1>8. ASSUME Len(file) = 3 * Len(logged) PROVE applied = logged
  <2>1. \A b \in Nat : b = (3 * b + 1) \div 3
    OBVIOUS
  <2>2. Len(applied) = Len(logged)
    BY <1>1, <1>3, <1>8, <2>1
  <2> QED
    BY <1>1, <1>4, <2>2, SeqEqual
<1> QED
  BY <1>6, <1>7, <1>8

\* All invariants together.
LEMMA RecoveryInvariant == Spec => [](TypeOK /\ StrandInv /\ RecoveryInv)
<1>1. Init => StrandInv
  BY DEF Init, StrandInv, BufferEmpty, Settled
<1> QED
  BY <1>1, InitType, NextType, NextStrand, InitRecovery, NextRecovery, PTL DEF Spec

\* However often and wherever in a write, a flush or a replay the process or the
\* machine dies, for any number of records: a replay that meets no torn record
\* followed by others applies a prefix of the records logged, with at least all
\* that fsync() had put on disk.
THEOREM RestartRecovers == Spec => []RecoversLog
<1>1. TypeOK /\ StrandInv /\ RecoveryInv => RecoversLog
  <2> SUFFICES ASSUME TypeOK, StrandInv, RecoveryInv, proc = "replayed", ~TornInside
               PROVE  IsPrefix(applied, logged) /\ durable \subseteq Range(applied)
    BY DEF RecoversLog
  <2>1. Whole(file, Len(file))
    BY DEF TornInside, Whole
  <2> QED
    BY <2>1, Recovered
<1> QED
  BY <1>1, RecoveryInvariant, PTL

\* A server that only ever stopped in order comes back with every record it logged,
\* in their order, although ~AofWriter never calls fsync().
THEOREM CleanRestartRecoversAll == Spec => []CleanRestartComplete
<1>1. TypeOK /\ StrandInv /\ RecoveryInv => CleanRestartComplete
  <2> SUFFICES ASSUME TypeOK, StrandInv, RecoveryInv, proc = "replayed", crashes = 0
               PROVE  applied = logged
    BY DEF CleanRestartComplete
  <2>1. Stream = file
    BY FileFacts
  <2>2. Whole(file, Len(file)) /\ Len(file) = 3 * Len(logged)
    BY <2>1 DEF RecoveryInv, CleanInv
  <2> QED
    BY <2>2, Recovered
<1> QED
  BY <1>1, RecoveryInvariant, PTL
=============================================================================
