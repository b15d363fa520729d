----------------------------- MODULE AofWriter -----------------------------
(***************************************************************************)
(* The append-only file of src/store/AofWriter.cpp: the stream's buffer,   *)
(* the file as the kernel holds it, the part of it that is on disk, the    *)
(* fsync thread, the death of the process or of the machine at any moment, *)
(* and the restart, which opens the file for appending and replays it.     *)
(* A record is a number and occupies three cells of the file, so that it   *)
(* can be torn: all but the end of its last argument, that end, and the    *)
(* line end.  mu_ is held for a whole write_resp and a whole flush, which  *)
(* are single steps here.                                                  *)
(***************************************************************************)
EXTENDS Integers, Sequences, SequencesExt, FiniteSets

CONSTANTS
    Modes,       \* values of AofSync the writer may have been given
    MaxRecords,  \* bound: records logged
    MaxCrashes,  \* bound: deaths of the process or of the machine
    OpenFails    \* whether ::open of the file for fsync may fail (EMFILE)

ASSUME AofAssumption ==
    /\ Modes \subseteq {"ALWAYS", "EVERY_SECOND", "NEVER"}
    /\ MaxRecords \in Nat /\ MaxCrashes \in Nat /\ OpenFails \in BOOLEAN

VARIABLES
    sync_mode_,
    buf,          \* bytes in file_'s buffer
    file,         \* bytes the kernel has
    synced,       \* how many of them are known to be on disk
    durable,      \* history: the complete records that are known to be there
    need_fsync_, stop_,
    fsync,        \* where fsync_loop is
    skipped,      \* history: ::open failed for the last fsync that was due
    inherited,    \* history: bytes the file had when this process opened it
    proc,         \* "replay", "replayed", "up", "joining" or "down"
    pos, applied, \* replay: cells read and records applied
    logged,       \* history: the records that make up the store, in order
    last,         \* history: number of the last record logged
    crashes

fileVars   == <<buf, file, synced, durable, skipped, inherited>>
threadVars == <<need_fsync_, stop_, fsync>>
replayVars == <<pos, applied>>
histVars   == <<logged, last, crashes>>
vars == <<sync_mode_, fileVars, threadVars, proc, replayVars, histVars>>

-----------------------------------------------------------------------------
(* Data.                                                                   *)

Garbage == 0                          \* a record put together from two others
Resp(r) == [i \in 1 .. 3 |-> [rec |-> r, part |-> i]]

Up == proc \in {"replay", "replayed", "up", "joining"}

\* How many of the cells from i on belong to the record that begins there.
Own(i) == Cardinality({j \in i .. Len(file) : file[j].rec = file[i].rec})

-----------------------------------------------------------------------------
(* Logging.                                                                *)

\* The complete records among bytes.
Complete(bytes) == {c.rec : c \in {d \in Range(bytes) : d.part = 3}}

\* fsync() of a file that holds bytes.
Synced(bytes) ==
    /\ synced' = Len(bytes)
    /\ durable' = durable \cup Complete(bytes)
    /\ skipped' = FALSE

\* Mutant: the descriptor is synced, the stream is not flushed before.
SyncOnly(bytes) == Synced(file) /\ UNCHANGED <<buf, file, inherited>>

\* flush(), after which the file holds bytes, and fsync() if the file can be opened
\* once more.
FlushAndSync(bytes) ==
    /\ buf' = <<>> /\ file' = bytes /\ UNCHANGED inherited
    /\ \/ Synced(bytes)
       \/ OpenFails /\ skipped' = TRUE /\ UNCHANGED <<synced, durable>>

\* The stream's buffer overflows at the start of the record or inside it, or not.
Overflow(bytes) ==
    \E n \in {0} \cup Len(buf) .. Len(bytes) :
        /\ file' = file \o SubSeq(bytes, 1, n)
        /\ buf' = SubSeq(bytes, n + 1, Len(bytes))
        /\ UNCHANGED <<synced, durable, skipped, inherited>>

\* log_set, log_set_ex, log_del or log_expire: write_resp and maybe_fsync.
write_resp ==
    LET bytes == buf \o Resp(last + 1)
    IN  /\ proc = "up" /\ last < MaxRecords
        /\ last' = last + 1
        /\ logged' = Append(logged, last + 1)
        /\ \/ sync_mode_ = "ALWAYS" /\ FlushAndSync(file \o bytes) /\ UNCHANGED need_fsync_
           \/ sync_mode_ = "EVERY_SECOND" /\ Overflow(bytes) /\ need_fsync_' = TRUE
           \/ sync_mode_ = "NEVER" /\ Overflow(bytes) /\ UNCHANGED need_fsync_
        /\ UNCHANGED <<sync_mode_, stop_, fsync, proc, replayVars, crashes>>

-----------------------------------------------------------------------------
(* The fsync thread.                                                       *)

FsyncCheck ==
    /\ Up /\ fsync = "check"
    /\ fsync' = IF stop_ THEN "exited" ELSE "sleep"
    /\ UNCHANGED <<sync_mode_, fileVars, need_fsync_, stop_, proc, replayVars, histVars>>

\* Mutant: the thread ends when there is nothing to do.
FsyncWakeOrEnd ==
    /\ Up /\ fsync = "sleep"
    /\ need_fsync_' = FALSE
    /\ fsync' = IF need_fsync_ THEN "sync" ELSE "exited"
    /\ UNCHANGED <<sync_mode_, fileVars, stop_, proc, replayVars, histVars>>

\* The second is over: need_fsync_.exchange(false).
FsyncWake ==
    /\ Up /\ fsync = "sleep"
    /\ need_fsync_' = FALSE
    /\ fsync' = IF need_fsync_ THEN "sync" ELSE "check"
    /\ UNCHANGED <<sync_mode_, fileVars, stop_, proc, replayVars, histVars>>

\* Mutant: what is still in the buffer counts as synced, and nothing is flushed.
FsyncSyncCountingBuffer ==
    /\ Up /\ fsync = "sync"
    /\ synced' = Len(file) + Len(buf)
    /\ fsync' = "check"
    /\ UNCHANGED <<sync_mode_, buf, file, durable, skipped, inherited, need_fsync_, stop_, proc,
                   replayVars, histVars>>

FsyncSync ==
    /\ Up /\ fsync = "sync"
    /\ FlushAndSync(file \o buf)
    /\ fsync' = "check"
    /\ UNCHANGED <<sync_mode_, need_fsync_, stop_, proc, replayVars, histVars>>

-----------------------------------------------------------------------------
(* Destructor, death and restart.                                          *)

\* ~AofWriter, when main() returns: no thread logs any more.
Destroy ==
    /\ proc = "up"
    /\ proc' = "joining" /\ stop_' = TRUE
    /\ UNCHANGED <<sync_mode_, fileVars, need_fsync_, fsync, replayVars, histVars>>

\* Mutant: the stream is not flushed.
CloseUnflushed ==
    /\ proc = "joining" /\ fsync = "exited"
    /\ proc' = "down" /\ buf' = <<>>
    /\ UNCHANGED <<sync_mode_, file, synced, durable, skipped, inherited, threadVars, replayVars,
                   histVars>>

\* The thread is joined, the stream flushed and closed; nothing is synced.
Close ==
    /\ proc = "joining" /\ fsync = "exited"
    /\ proc' = "down"
    /\ file' = file \o buf /\ buf' = <<>>
    /\ UNCHANGED <<sync_mode_, synced, durable, skipped, inherited, threadVars, replayVars,
                   histVars>>

\* The process dies: its buffer is gone, the kernel keeps what it has.
Kill ==
    /\ Up /\ crashes < MaxCrashes
    /\ crashes' = crashes + 1
    /\ proc' = "down" /\ buf' = <<>> /\ pos' = 0 /\ applied' = <<>>
    /\ UNCHANGED <<sync_mode_, file, synced, durable, skipped, inherited, threadVars, logged,
                   last>>

\* The machine dies: the file is cut somewhere after what was synced.
PowerFail ==
    /\ crashes < MaxCrashes
    /\ crashes' = crashes + 1
    /\ proc' = "down" /\ buf' = <<>> /\ pos' = 0 /\ applied' = <<>>
    /\ \E n \in synced .. Len(file) : file' = SubSeq(file, 1, n) /\ synced' = n
    /\ durable' = durable \cup Complete(file')
    /\ UNCHANGED <<sync_mode_, skipped, inherited, threadVars, logged, last>>

\* Mutant: the file is opened without std::ios::app.
RestartTruncating ==
    /\ proc = "down"
    /\ proc' = "replay" /\ pos' = 0 /\ applied' = <<>>
    /\ file' = <<>> /\ synced' = 0 /\ skipped' = FALSE /\ inherited' = 0
    /\ need_fsync_' = FALSE /\ stop_' = FALSE
    /\ fsync' = IF sync_mode_ = "EVERY_SECOND" THEN "check" ELSE "exited"
    /\ UNCHANGED <<sync_mode_, buf, durable, histVars>>

\* main() constructs the writer, which appends to whatever is there, and only
\* then replays the file.
Restart ==
    /\ proc = "down"
    /\ proc' = "replay" /\ pos' = 0 /\ applied' = <<>>
    /\ skipped' = FALSE /\ inherited' = Len(file)
    /\ need_fsync_' = FALSE /\ stop_' = FALSE
    /\ fsync' = IF sync_mode_ = "EVERY_SECOND" THEN "check" ELSE "exited"
    /\ UNCHANGED <<sync_mode_, buf, file, synced, durable, histVars>>

\* replay: the next record is complete and is applied.
ReplayRecord ==
    /\ proc = "replay" /\ pos < Len(file) /\ Own(pos + 1) = 3
    /\ pos' = pos + 3
    /\ applied' = Append(applied, file[pos + 1].rec)
    /\ UNCHANGED <<sync_mode_, fileVars, threadVars, proc, histVars>>

\* Only its line end is missing: it is applied, and the line read in place of the
\* line end is the header of the next record, the rest of which stops the loop.
ReplayUnended ==
    /\ proc = "replay" /\ pos < Len(file) /\ Own(pos + 1) = 2
    /\ proc' = "replayed" /\ pos' = Len(file)
    /\ applied' = Append(applied, file[pos + 1].rec)
    /\ UNCHANGED <<sync_mode_, fileVars, threadVars, histVars>>

\* It is torn.  At the end of the file its read fails.  Otherwise its lengths and
\* lines take in what follows: a garbled record may be applied, and the loop stops
\* at a line it does not expect, or finds itself at the start of a later record.
ReplayTorn ==
    /\ proc = "replay" /\ pos < Len(file) /\ Own(pos + 1) = 1
    /\ \E garbled \in {<<>>} \cup {<<Garbage>> : i \in pos + 2 .. Len(file)} :
          applied' = applied \o garbled
    /\ \/ proc' = "replayed" /\ pos' = Len(file)
       \/ \E i \in pos + 2 .. Len(file) :
             file[i].part = 1 /\ pos' = i - 1 /\ UNCHANGED proc
    /\ UNCHANGED <<sync_mode_, fileVars, threadVars, histVars>>

\* The end of the file.
ReplayEnd ==
    /\ proc = "replay" /\ pos = Len(file)
    /\ proc' = "replayed"
    /\ UNCHANGED <<sync_mode_, fileVars, threadVars, replayVars, histVars>>

\* set_aof, then the server takes requests: the store is what was replayed.
Serve ==
    /\ proc = "replayed"
    /\ proc' = "up"
    /\ logged' = applied
    /\ pos' = 0 /\ applied' = <<>>
    /\ UNCHANGED <<sync_mode_, fileVars, threadVars, last, crashes>>

-----------------------------------------------------------------------------

Init ==
    /\ sync_mode_ \in Modes
    /\ buf = <<>> /\ file = <<>> /\ synced = 0 /\ durable = {}
    /\ skipped = FALSE /\ inherited = 0
    /\ need_fsync_ = FALSE /\ stop_ = FALSE /\ fsync = "exited"
    /\ proc = "down"
    /\ pos = 0 /\ applied = <<>>
    /\ logged = <<>> /\ last = 0 /\ crashes = 0

fsync_loop == FsyncCheck \/ FsyncWake \/ FsyncSync
replay == ReplayRecord \/ ReplayUnended \/ ReplayTorn \/ ReplayEnd

Next ==
    \/ write_resp \/ fsync_loop
    \/ Destroy \/ Close \/ Kill \/ PowerFail
    \/ Restart \/ replay \/ Serve

Spec == Init /\ [][Next]_vars

\* The fsync thread is scheduled, and its sleep of a second ends.
FairSpec == Spec /\ WF_vars(fsync_loop)

-----------------------------------------------------------------------------
(* Properties.                                                             *)

Record == 1 .. MaxRecords

\* The state's types; no more is on disk than in the file.
TypeOK ==
    /\ sync_mode_ \in Modes
    /\ buf \in Seq([rec : Record, part : 1 .. 3])
    /\ file \in Seq([rec : Record, part : 1 .. 3])
    /\ synced \in 0 .. Len(file) /\ durable \subseteq Record
    /\ skipped \in BOOLEAN /\ inherited \in Nat
    /\ need_fsync_ \in BOOLEAN /\ stop_ \in BOOLEAN
    /\ fsync \in {"check", "sleep", "sync", "exited"}
    /\ proc \in {"replay", "replayed", "up", "joining", "down"}
    /\ pos \in 0 .. Len(file) /\ applied \in Seq(Record \cup {Garbage})
    /\ logged \in Seq(Record \cup {Garbage})
    /\ last \in 0 .. MaxRecords /\ crashes \in 0 .. MaxCrashes

\* A torn record with others after it.
TornInside ==
    \E i \in 1 .. Len(file) - 1 : file[i].part # 3 /\ file[i + 1].rec # file[i].rec

\* What this process logged waits for no further command to push it: unless the
\* thread has been asked for an fsync, or has taken the request and is about to
\* flush (it takes it before it has the lock), nothing is left in the buffer and
\* all of it is on disk; with ALWAYS, at once.  There is one exception: if ::open
\* failed for the last fsync that was due, that fsync was skipped, and the records
\* are with the kernel only until the next one.  Bytes an earlier process left
\* unsynced are not this process's until it writes something itself.
NoStrandedRecord ==
    (/\ proc = "up"
     /\ \/ sync_mode_ = "ALWAYS"
        \/ sync_mode_ = "EVERY_SECOND" /\ ~need_fsync_ /\ fsync # "sync")
    => /\ buf = <<>>
       /\ Len(file) > inherited /\ ~skipped => synced = Len(file)

\* A restart restores the records in the order they were logged, from the first
\* one on, and at least those that were on disk, whichever way the last process
\* ended, as long as no torn record has been appended to.
RecoversLog ==
    proc = "replayed" /\ ~TornInside =>
        IsPrefix(applied, logged) /\ durable \subseteq Range(applied)

\* A server that was stopped in order comes back with everything it was told,
\* what was only in the stream's buffer or in the kernel included.
CleanRestartComplete == proc = "replayed" /\ crashes = 0 => applied = logged

\* The records this process logged.
Written == Complete(SubSeq(file, inherited + 1, Len(file)) \o buf)

\* With the default mode every record gets to the disk while the server runs,
\* unless ::open failed for an fsync.
EventuallySynced ==
    \A r \in Record :
        (proc = "up" /\ sync_mode_ = "EVERY_SECOND" /\ r \in Written)
            ~> (r \in durable \/ proc # "up" \/ skipped)

\* Records that were on disk are there after any number of crashes.
RecoversDurable == proc = "replayed" => durable \subseteq Range(applied)
=============================================================================
