--------------------------- MODULE DeadLetterStore ---------------------------
(***************************************************************************)
(* The dead-letter store of one sink.  Quarantines of different leases run *)
(* on blocking threads at the same time: they share the byte quota, which  *)
(* they take with a compare-and-swap loop, and the directory, where each   *)
(* puts a pair of files, the batches (.arrow) and then their manifest      *)
(* (.json).  The process may crash anywhere; a new store counts the files  *)
(* it finds.                                                               *)
(*                                                                         *)
(* A lease may quarantine several parts of itself, one after the other and *)
(* within one millisecond, so all of them ask for the same file name.  A   *)
(* removal of a file succeeds.                                             *)
(***************************************************************************)
EXTENDS Integers, FiniteSets, Sums

CONSTANTS
    Leases,        \* leases that may quarantine at the same time
    Sizes,         \* what a pair of files may take: records [arrow, json]
    MaxBytes,      \* max_dead_letter_bytes
    Pids,          \* process ids; in a container a restarted process gets the same again
    Seqs,          \* the sequence numbers a lease is named by: [first, last]
    Clock,         \* the time of each run of the process, in milliseconds
    MaxWrites,     \* bound: quarantines begun
    MaxCrashes,    \* bound: crashes
    MaxFaults      \* bound: failures of the file system

ASSUME StoreAssumption ==
    /\ \A z \in Sizes : z.arrow \in Nat \ {0} /\ z.json \in Nat \ {0}
    /\ {MaxBytes, MaxWrites, MaxCrashes, MaxFaults} \subseteq Nat
    /\ Pids \subseteq Nat
    /\ Seqs \in [Leases -> [first : Nat, last : Nat]]
    /\ Clock \in [0..MaxCrashes -> Nat]
    /\ \A r, s \in 0..MaxCrashes : Clock[r] = Clock[s] => r = s

VARIABLES
    files,      \* the pairs' files: [stem, ext, bytes, write]
    tmps,       \* the temporary files, each with the pid in its name: [file, pid]
    current,    \* current_bytes
    fileSeq,    \* file_seq
    pc,         \* where each lease is in write_quarantine
    job,        \* what it writes: [size, loaded, seq, stem, write]
    reported,   \* the pairs whose write_quarantine returned Ok
    up,         \* the process runs
    pid,        \* std::process::id()
    writes,
    crashes,
    faults

vars == <<files, tmps, current, fileSeq, pc, job, reported, up, pid, writes, crashes, faults>>

Added(size) == size.arrow + size.json

BytesOf(F) == SumOf([f \in F |-> f.bytes])

TmpBytes(T) == SumOf([t \in T |-> t.file.bytes])

Fault == faults < MaxFaults /\ faults' = faults + 1

Goto(l, label) == pc' = [pc EXCEPT ![l] = label]

NoJob == [size |-> [arrow |-> 0, json |-> 0], loaded |-> 0, seq |-> 0, stem |-> <<>>, write |-> 0]

-----------------------------------------------------------------------------

Init ==
    /\ files = {}
    /\ tmps = {}
    /\ current = 0
    /\ fileSeq = 1
    /\ pc = [l \in Leases |-> "idle"]
    /\ job = [l \in Leases |-> NoJob]
    /\ reported = {}
    /\ up = TRUE
    /\ pid \in Pids
    /\ writes = 0
    /\ crashes = 0
    /\ faults = 0

\* write_quarantine encodes the pair; reserve_bytes loads current_bytes.
Begin(l) ==
    /\ up
    /\ pc[l] = "idle"
    /\ writes < MaxWrites
    /\ writes' = writes + 1
    /\ \E z \in Sizes :
        job' = [job EXCEPT ![l] = [NoJob EXCEPT !.size = z, !.loaded = current, !.write = writes']]
    /\ Goto(l, "reserve")
    /\ UNCHANGED <<files, tmps, current, fileSeq, reported, up, pid, crashes, faults>>

\* next <= max_bytes
Fits(loaded, added) == loaded + added <= MaxBytes

\* Mutant: the sum is stored without looking for what others reserved meanwhile.
SwapBlindly(l) == TRUE

\* compare_exchange_weak finds the value it was loaded as.
Swaps(l) == current = job[l].loaded

\* One round of reserve_bytes: refuse, take the bytes, or take another look.  The
\* exchange may also fail for no reason.
Reserve(l) ==
    LET added == Added(job[l].size)
    IN  /\ pc[l] = "reserve"
        /\ \/ /\ ~Fits(job[l].loaded, added)
              /\ Goto(l, "idle")
              /\ job' = [job EXCEPT ![l] = NoJob]
              /\ UNCHANGED current
           \/ /\ Fits(job[l].loaded, added)
              /\ Swaps(l)
              /\ current' = job[l].loaded + added
              /\ Goto(l, "name")
              /\ UNCHANGED job
           \/ /\ Fits(job[l].loaded, added)
              /\ job' = [job EXCEPT ![l].loaded = current]
              /\ UNCHANGED <<current, pc>>
        /\ UNCHANGED <<files, tmps, fileSeq, reported, up, pid, writes, crashes, faults>>

Taken(stem) == \E f \in files : f.stem = stem /\ f.ext = "arrow"

\* Mutant: names are not looked up.
StemUnseen(base, seq) == base

\* The lease's range and time, with file_seq behind it when that name is taken.
StemFor(base, seq) == IF Taken(base) THEN [base EXCEPT !.seq = seq] ELSE base

\* What all quarantines of a lease would be called, in one run of the process.
BaseStem(l) == [lease |-> l, run |-> crashes, seq |-> 0]

\* persist_pair chooses the file name, unless the directory cannot be created.
Name(l) ==
    /\ pc[l] = "name"
    /\ \/ /\ fileSeq' = fileSeq + 1
          /\ job' = [job EXCEPT ![l].seq = fileSeq, ![l].stem = StemFor(BaseStem(l), fileSeq)]
          /\ Goto(l, "arrow")
          /\ UNCHANGED faults
       \/ /\ Fault
          /\ Goto(l, "undo")
          /\ UNCHANGED <<fileSeq, job>>
    /\ UNCHANGED <<files, tmps, current, reported, up, pid, writes, crashes>>

FileOf(l, ext) ==
    [stem |-> job[l].stem, ext |-> ext, bytes |-> job[l].size[ext], write |-> job[l].write]

\* Mutant: the manifest is written first.
ManifestFirst(l) == IF pc[l] = "arrow" THEN "json" ELSE "arrow"

\* The file write_file_atomic is called for: the batches, then the manifest.
Current(l) == IF pc[l] = "arrow" THEN "arrow" ELSE "json"

TmpOf(l) == [file |-> FileOf(l, Current(l)), pid |-> pid]

Writing(l) == pc[l] \in {"arrow", "json"}

\* write_file_atomic, up to the sync of the temporary file.
WriteTmp(l) ==
    /\ Writing(l)
    /\ TmpOf(l) \notin tmps
    /\ tmps' = tmps \union {TmpOf(l)}
    /\ UNCHANGED <<files, current, fileSeq, pc, job, reported, up, pid, writes, crashes, faults>>

\* write_file_atomic's rename, which replaces a file of that name; after the second one
\* the quarantine is done.
Rename(l) ==
    LET file == FileOf(l, Current(l))
    IN  /\ Writing(l)
        /\ TmpOf(l) \in tmps
        /\ tmps' = tmps \ {TmpOf(l)}
        /\ files' = {f \in files : <<f.stem, f.ext>> # <<file.stem, file.ext>>} \union {file}
        /\ IF pc[l] = "arrow"
           THEN Goto(l, "json") /\ UNCHANGED <<job, reported>>
           ELSE /\ Goto(l, "idle")
                /\ reported' = reported \union {FileOf(l, "arrow"), FileOf(l, "json")}
                /\ job' = [job EXCEPT ![l] = NoJob]
        /\ UNCHANGED <<current, fileSeq, up, pid, writes, crashes, faults>>

\* Mutant: the batches stay behind when the manifest cannot be written.
LeftBehind(l) == {}

\* What a failure removes beside the temporary file.
Withdrawn(l) == IF pc[l] = "json" THEN {FileOf(l, "arrow")} ELSE {}

\* write_file_atomic fails at its creation, its write, its sync or its rename.
WriteFails(l) ==
    /\ Writing(l)
    /\ Fault
    /\ tmps' = tmps \ {TmpOf(l)}
    /\ files' = files \ Withdrawn(l)
    /\ Goto(l, "undo")
    /\ UNCHANGED <<current, fileSeq, job, reported, up, pid, writes, crashes>>

\* The reserved bytes are given back and write_quarantine returns the error.
Undo(l) ==
    /\ pc[l] = "undo"
    /\ current' = current - Added(job[l].size)
    /\ Goto(l, "idle")
    /\ job' = [job EXCEPT ![l] = NoJob]
    /\ UNCHANGED <<files, tmps, fileSeq, reported, up, pid, writes, crashes, faults>>

Crash ==
    /\ up
    /\ crashes < MaxCrashes
    /\ crashes' = crashes + 1
    /\ up' = FALSE
    /\ pc' = [l \in Leases |-> "idle"]
    /\ job' = [l \in Leases |-> NoJob]
    /\ UNCHANGED <<files, tmps, current, fileSeq, reported, pid, writes, faults>>

\* The numbers that stand between two underscores in the name of a temporary file,
\* .tmp_{signal}_{first}_{last}_{time}.{ext}_{pid}_{seq}: the time is one of them only
\* where file_seq follows it in the stem.
Tagged(t) ==
    LET stem == t.file.stem
    IN  {t.pid, Seqs[stem.lease].first, Seqs[stem.lease].last}
            \union (IF stem.seq = 0 THEN {} ELSE {Clock[stem.run]})

\* Mutant: nothing is cleaned up.
AllTmps(p) == tmps

\* is_stale_tmp_file spares every name in which _{pid}_ occurs, whatever it stands for there.
SparedTmps(p) == {t \in tmps : p \in Tagged(t)}

\* scan_existing_bytes: stale temporary files are removed, and what is left is counted.
Restart ==
    /\ ~up
    /\ up' = TRUE
    /\ \E p \in Pids :
        /\ pid' = p
        /\ tmps' = SparedTmps(p)
        /\ current' = BytesOf(files) + TmpBytes(SparedTmps(p))
    /\ fileSeq' = 1
    /\ UNCHANGED <<files, pc, job, reported, writes, crashes, faults>>

Next ==
    \/ \E l \in Leases :
        \/ Begin(l) \/ Reserve(l) \/ Name(l)
        \/ WriteTmp(l) \/ Rename(l) \/ WriteFails(l) \/ Undo(l)
    \/ Crash
    \/ Restart

Spec == Init /\ [][Next]_vars

-----------------------------------------------------------------------------

\* The shapes of the store's counters and of the files it writes.
TypeOK ==
    /\ current \in 0..MaxBytes
    /\ fileSeq \in Nat \ {0}
    /\ pc \in [Leases -> {"idle", "reserve", "name", "arrow", "json", "undo"}]
    /\ \A f \in files \union {t.file : t \in tmps} : f.ext \in {"arrow", "json"} /\ f.bytes \in Nat \ {0}
    /\ up \in BOOLEAN
    /\ pid \in Pids

\* max_dead_letter_bytes "bounds the store": whatever races for the last bytes, fails
\* half-way or is left behind by a crash, the directory never holds more; and while no
\* quarantine is under way the quota in use is what is on disk: a failed write has
\* given back all it took, and a restart counts what a crash left behind.
UsageExact ==
    /\ BytesOf(files) + TmpBytes(tmps) <= MaxBytes
    /\ up /\ (\A l \in Leases : pc[l] = "idle") => current = BytesOf(files) + TmpBytes(tmps)

\* A temporary file outlives its quarantine only through a crash, and in a process that
\* started after the crash only if its name carries that process's pid between
\* underscores: as the pid of its writer, as a sequence number of its lease, or as a time
\* that file_seq follows.  (The test of new, "Root .tmp_ file must be cleaned up", is about
\* a name without it; a file that has it is kept, and counted, for as long as processes
\* with such a pid start.)
NoStaleTmp ==
    up => \A t \in tmps :
              \/ crashes > 0 /\ pid \in Tagged(t)
              \/ \E l \in Leases : Writing(l) /\ t = TmpOf(l)

\* A quarantine that returned Ok, after which the lease is acknowledged and the batches
\* are gone from the buffer, keeps both its files: no later one replaces or removes them.  A
\* manifest never stands without its batches, at no instant a crash could make lasting.
QuarantinedIsKept ==
    /\ reported \subseteq files
    /\ \A f \in files : f.ext = "json" =>
          \E g \in files : g.ext = "arrow" /\ g.stem = f.stem /\ g.write = f.write

=============================================================================
