------------------------ MODULE DeadLetterStoreProofs ------------------------
(***************************************************************************)
(* The dead-letter store's quota, temporary files and quarantined pairs,   *)
(* for any number of leases, sizes, crashes and failures.                  *)
(***************************************************************************)
EXTENDS DeadLetterStore, HelperTheorems

Labels == {"idle", "reserve", "name", "arrow", "json", "undo"}

Names == [lease : Leases, run : Nat, seq : Nat]

Stems == Names \union {NoJob.stem}

Exts == {"arrow", "json"}

Files == [stem : Stems, ext : Exts, bytes : Nat, write : Nat]

Jobs == [size : Sizes \union {NoJob.size}, loaded : Int, seq : Nat, stem : Stems, write : Nat]

Shapes ==
    /\ files \in SUBSET Files /\ IsFiniteSet(files)
    /\ tmps \in SUBSET [file : Files, pid : Pids] /\ IsFiniteSet(tmps)
    /\ current \in Int
    /\ fileSeq \in Nat
    /\ pc \in [Leases -> Labels]
    /\ job \in [Leases -> Jobs]
    /\ up \in BOOLEAN
    /\ pid \in Pids
    /\ writes \in Nat
    /\ crashes \in Nat

Busy(l) == pc[l] # "idle"

(* write tells quarantines apart: those under way, and what they left on disk. *)
WritesApart ==
    /\ \A f \in files : f.write <= writes
    /\ \A t \in tmps : t.file.write <= writes
    /\ \A l \in Leases : Busy(l) => job[l].write <= writes
    /\ \A l, m \in Leases : Busy(l) /\ Busy(m) /\ job[l].write = job[m].write => l = m

(* A quarantine under way has on disk at most the file it is writing, under its    *)
(* temporary name, and the batches once it is at the manifest; nothing of it has   *)
(* been reported.                                                                  *)
OwnFiles ==
    \A l \in Leases : Busy(l) =>
        /\ \A f \in files : f.write = job[l].write => pc[l] = "json" /\ f = FileOf(l, "arrow")
        /\ pc[l] = "json" => FileOf(l, "arrow") \in files
        /\ \A t \in tmps : t.file.write = job[l].write => Writing(l) /\ t = TmpOf(l)
        /\ \A f \in reported : f.write # job[l].write

(* A name is not used twice: it carries the lease, the run of the process, and     *)
(* file_seq when the lease has used it before.                                      *)
StemsFree ==
    /\ fileSeq > 0
    /\ \A f \in files :
          /\ f.stem \in Names
          /\ f.stem.run <= crashes
          /\ f.stem.run = crashes => up /\ f.stem.seq < fileSeq
    /\ \A l \in Leases : Writing(l) =>
          /\ job[l].stem \in Names
          /\ job[l].stem.lease = l
          /\ job[l].stem.run = crashes
          /\ job[l].stem.seq < fileSeq
          /\ \A f \in files : f.stem = job[l].stem => f.write = job[l].write

(* A crash ends every quarantine. *)
NothingWhileDown == ~up => crashes > 0 /\ \A l \in Leases : ~Busy(l)

(* The files a quarantine has reserved bytes for. *)
Owed(l) ==
    IF pc[l] \in {"name", "arrow", "json", "undo"}
    THEN {FileOf(l, "arrow"), FileOf(l, "json")}
    ELSE {}

Charged == files \union UNION {Owed(l) : l \in Leases}

(* Temporary files of an earlier process, which no quarantine will rename. *)
Stale == {t \in tmps : \A l \in Leases : ~(Writing(l) /\ t = TmpOf(l))}

(* current_bytes charges every file there is or will be, and what crashes left. *)
QuotaCharged ==
    /\ IsFiniteSet(Charged)
    /\ current <= MaxBytes
    /\ up => current = BytesOf(Charged) + TmpBytes(Stale)
    /\ ~up => BytesOf(files) + TmpBytes(tmps) <= MaxBytes

IInv ==
    /\ Shapes
    /\ WritesApart
    /\ OwnFiles
    /\ StemsFree
    /\ NothingWhileDown
    /\ QuotaCharged
    /\ NoStaleTmp
    /\ QuarantinedIsKept

-----------------------------------------------------------------------------
(* Totals of files                                                          *)

(* The sizes a quarantine may have are natural numbers. *)
LEMMA SizeType ==
    ASSUME NEW z \in Sizes \union {NoJob.size}
    PROVE  z.arrow \in Nat /\ z.json \in Nat
  BY StoreAssumption DEF NoJob

(* The bytes of finitely many files. *)
LEMMA BytesType ==
    ASSUME NEW F \in SUBSET Files, IsFiniteSet(F)
    PROVE  IsFiniteWeight([f \in F |-> f.bytes]) /\ BytesOf(F) \in Nat
  <1>1. IsFiniteWeight([f \in F |-> f.bytes])
    BY DEF IsFiniteWeight, Files
  <1> QED BY <1>1, SumType DEF BytesOf

(* The bytes of finitely many temporary files. *)
LEMMA TmpBytesType ==
    ASSUME NEW T \in SUBSET [file : Files, pid : Pids], IsFiniteSet(T)
    PROVE  IsFiniteWeight([t \in T |-> t.file.bytes]) /\ TmpBytes(T) \in Nat
  <1>1. IsFiniteWeight([t \in T |-> t.file.bytes])
    BY DEF IsFiniteWeight, Files
  <1> QED BY <1>1, SumType DEF TmpBytes

(* A file more. *)
LEMMA BytesAdd ==
    ASSUME NEW F \in SUBSET Files, IsFiniteSet(F), NEW x \in Files, x \notin F
    PROVE  /\ IsFiniteSet(F \union {x})
           /\ BytesOf(F \union {x}) = BytesOf(F) + x.bytes
  <1> DEFINE w == [f \in F |-> f.bytes]
             v == [f \in F \union {x} |-> f.bytes]
  <1>1. IsFiniteWeight(w)
    BY BytesType
  <1>2. DOMAIN w = F /\ v \in [F \union {x} -> Nat] /\ v[x] = x.bytes
    BY DEF Files
  <1>3. \A y \in F : v[y] = w[y]
    OBVIOUS
  <1> HIDE DEF v, w
  <1>4. SumOf(v) = SumOf(w) + v[x]
    BY <1>1, <1>2, <1>3, SumAdd
  <1> QED BY <1>2, <1>4, FS_AddElement DEF BytesOf, v, w

(* Two files more, as a pair is reserved. *)
LEMMA BytesAddPair ==
    ASSUME NEW F \in SUBSET Files, IsFiniteSet(F),
           NEW x \in Files, NEW y \in Files, x \notin F, y \notin F, x # y
    PROVE  /\ IsFiniteSet(F \union {x, y})
           /\ BytesOf(F \union {x, y}) = BytesOf(F) + x.bytes + y.bytes
  <1> DEFINE G == F \union {x}
  <1>1. IsFiniteSet(G) /\ BytesOf(G) = BytesOf(F) + x.bytes
    BY BytesAdd
  <1>2. G \in SUBSET Files /\ y \notin G /\ G \union {y} = F \union {x, y}
    OBVIOUS
  <1> HIDE DEF G
  <1>3. IsFiniteSet(G \union {y}) /\ BytesOf(G \union {y}) = BytesOf(G) + y.bytes
    BY <1>1, <1>2, BytesAdd
  <1> QED BY <1>1, <1>2, <1>3

-----------------------------------------------------------------------------
(* Steps of one lease                                                       *)

LeaseStep(l) ==
    \/ Begin(l) \/ Reserve(l) \/ Name(l)
    \/ WriteTmp(l) \/ Rename(l) \/ WriteFails(l) \/ Undo(l)

(* The files a job names. *)
LEMMA FileType ==
    ASSUME Shapes, NEW l \in Leases, NEW ext \in Exts
    PROVE  FileOf(l, ext) \in Files
  <1>1. job[l] \in Jobs
    BY DEF Shapes
  <1>2. job[l].size[ext] \in Nat
    BY <1>1, SizeType DEF Jobs, Exts
  <1> QED BY <1>1, <1>2 DEF FileOf, Files, Jobs

(* The temporary file write_file_atomic is writing for a lease. *)
LEMMA TmpType ==
    ASSUME Shapes, NEW l \in Leases
    PROVE  /\ Current(l) \in Exts
           /\ TmpOf(l) \in [file : Files, pid : Pids]
           /\ TmpOf(l).file = FileOf(l, Current(l))
           /\ TmpOf(l).pid = pid
  <1>1. Current(l) \in Exts
    BY DEF Current, Exts
  <1>2. FileOf(l, Current(l)) \in Files
    BY <1>1, FileType
  <1> QED BY <1>1, <1>2 DEF TmpOf, Shapes

(* A step of a lease leaves the others where they are, and the process running. *)
LEMMA LeaseFrame ==
    ASSUME Shapes, NEW l \in Leases, LeaseStep(l)
    PROVE  /\ UNCHANGED <<up, pid, crashes>>
           /\ \A m \in Leases \ {l} : pc'[m] = pc[m] /\ job'[m] = job[m]
  <1>1. CASE Begin(l)
    BY <1>1 DEF Begin, Goto, Shapes
  <1>2. CASE Reserve(l)
    BY <1>2 DEF Reserve, Goto, Shapes
  <1>3. CASE Name(l)
    BY <1>3 DEF Name, Goto, Shapes
  <1>4. CASE WriteTmp(l)
    BY <1>4 DEF WriteTmp
  <1>5. CASE Rename(l)
    BY <1>5 DEF Rename, Goto, Shapes
  <1>6. CASE WriteFails(l)
    BY <1>6 DEF WriteFails, Goto, Shapes
  <1>7. CASE Undo(l)
    BY <1>7 DEF Undo, Goto, Shapes
  <1> QED BY <1>1, <1>2, <1>3, <1>4, <1>5, <1>6, <1>7 DEF LeaseStep

(* So do the files and temporary files of the others. *)
LEMMA FileFrame ==
    ASSUME Shapes, NEW l \in Leases, LeaseStep(l), NEW m \in Leases \ {l}
    PROVE  /\ \A ext : FileOf(m, ext)' = FileOf(m, ext)
           /\ TmpOf(m)' = TmpOf(m)
           /\ Writing(m)' = Writing(m)
           /\ Owed(m)' = Owed(m)
  BY LeaseFrame DEF FileOf, TmpOf, Current, Writing, Owed

(* The name a lease chooses. *)
LEMMA StemType ==
    ASSUME Shapes, NEW l \in Leases
    PROVE  /\ StemFor(BaseStem(l), fileSeq) \in Names
           /\ StemFor(BaseStem(l), fileSeq) =
                 [lease |-> l, run |-> crashes,
                  seq |-> IF Taken(BaseStem(l)) THEN fileSeq ELSE 0]
  BY DEF StemFor, BaseStem, Names, Shapes

(* Shapes are kept. *)
LEMMA ShapesStep ==
    ASSUME Shapes, NEW l \in Leases, LeaseStep(l)
    PROVE  Shapes'
  <1> USE DEF Labels
  <1>0. /\ job[l] \in Jobs
        /\ NoJob \in Jobs
        /\ current - Added(job[l].size) \in Int
    BY SizeType DEF Shapes, Jobs, NoJob, Stems, Added
  <1>1. CASE Begin(l)
    <2>1. PICK z \in Sizes :
             job' = [job EXCEPT ![l] = [NoJob EXCEPT !.size = z, !.loaded = current, !.write = writes']]
      BY <1>1 DEF Begin
    <2>2. job' \in [Leases -> Jobs]
      <3>1. current \in Int /\ writes' \in Nat
        BY <1>1 DEF Begin, Shapes
      <3>2. [NoJob EXCEPT !.size = z, !.loaded = current, !.write = writes'] \in Jobs
        BY <3>1 DEF Jobs, NoJob, Stems
      <3> QED BY <2>1, <3>2 DEF Shapes
    <2> QED BY <1>1, <2>2 DEF Begin, Goto, Shapes
  <1>2. CASE Reserve(l)
    <2>1. job[l].loaded + Added(job[l].size) \in Int
      BY <1>0, SizeType DEF Added, Jobs
    <2>2. [job[l] EXCEPT !.loaded = current] \in Jobs
      BY <1>0 DEF Jobs, Shapes
    <2>3. job' \in [Leases -> Jobs] /\ current' \in Int
      BY <1>2, <2>1, <2>2, <1>0 DEF Reserve, Shapes
    <2> QED BY <1>2, <2>3 DEF Reserve, Goto, Shapes
  <1>3. CASE Name(l)
    <2>1. [job[l] EXCEPT !.seq = fileSeq, !.stem = StemFor(BaseStem(l), fileSeq)] \in Jobs
      BY <1>0, StemType DEF Jobs, Stems, Shapes
    <2>2. job' \in [Leases -> Jobs]
      BY <1>3, <2>1 DEF Name, Shapes
    <2> QED BY <1>3, <2>2 DEF Name, Goto, Shapes
  <1>4. CASE WriteTmp(l)
    BY <1>4, TmpType, FS_AddElement DEF WriteTmp, Shapes
  <1>5. CASE Rename(l)
    <2> DEFINE file == FileOf(l, Current(l))
               rest == {f \in files : <<f.stem, f.ext>> # <<file.stem, file.ext>>}
    <2>1. file \in Files
      BY FileType, TmpType
    <2>2. files' \in SUBSET Files /\ IsFiniteSet(files')
      <3>1. files' = rest \union {file}
        BY <1>5 DEF Rename
      <3>2. IsFiniteSet(rest)
        BY FS_Subset DEF Shapes
      <3>3. IsFiniteSet(rest \union {file})
        BY <3>2, FS_AddElement
      <3> QED BY <2>1, <3>1, <3>3 DEF Shapes
    <2>3. tmps' \in SUBSET [file : Files, pid : Pids] /\ IsFiniteSet(tmps')
      BY <1>5, FS_RemoveElement DEF Rename, Shapes
    <2>4. job' \in [Leases -> Jobs] /\ pc' \in [Leases -> Labels]
      BY <1>5, <1>0 DEF Rename, Goto, Shapes
    <2> QED BY <1>5, <2>2, <2>3, <2>4 DEF Rename, Shapes
  <1>6. CASE WriteFails(l)
    <2>1. IsFiniteSet(files') /\ IsFiniteSet(tmps')
      BY <1>6, FS_Difference DEF WriteFails, Shapes
    <2> QED BY <1>6, <2>1 DEF WriteFails, Goto, Shapes
  <1>7. CASE Undo(l)
    <2> QED BY <1>7, <1>0 DEF Undo, Goto, Shapes
  <1> QED BY <1>1, <1>2, <1>3, <1>4, <1>5, <1>6, <1>7 DEF LeaseStep

(* A rename replaces no file. *)
LEMMA RenameAdds ==
    ASSUME IInv, NEW l \in Leases, Rename(l)
    PROVE  /\ files' = files \union {FileOf(l, Current(l))}
           /\ FileOf(l, Current(l)) \notin files
           /\ TmpOf(l) \in tmps /\ tmps' = tmps \ {TmpOf(l)}
  <1> DEFINE file == FileOf(l, Current(l))
  <1>1. Writing(l) /\ Busy(l)
    BY DEF Rename, Writing, Busy
  <1>2. file.stem = job[l].stem /\ file.ext = Current(l) /\ file.write = job[l].write
    BY DEF FileOf
  <1>3. ASSUME NEW f \in files, f.stem = file.stem, f.ext = file.ext PROVE FALSE
    <2>1. f.write = job[l].write
      BY <1>1, <1>2, <1>3 DEF IInv, StemsFree
    <2>2. pc[l] = "json" /\ f = FileOf(l, "arrow")
      BY <1>1, <2>1 DEF IInv, OwnFiles
    <2> QED BY <1>2, <1>3, <2>2 DEF Current, FileOf
  <1>4. \A f \in files : <<f.stem, f.ext>> # <<file.stem, file.ext>>
    BY <1>3
  <1>5. files' = {f \in files : <<f.stem, f.ext>> # <<file.stem, file.ext>>} \union {file}
    BY DEF Rename
  <1>6. {f \in files : <<f.stem, f.ext>> # <<file.stem, file.ext>>} = files
    BY <1>4
  <1> QED BY <1>4, <1>5, <1>6 DEF Rename

(* A step of a lease puts nothing on disk but the file it is writing. *)
LEMMA DiskFrame ==
    ASSUME IInv, NEW l \in Leases, LeaseStep(l)
    PROVE  /\ \A f \in files' : f \in files \/ (Writing(l) /\ f = FileOf(l, Current(l)))
           /\ \A t \in tmps' : t \in tmps \/ (Writing(l) /\ t = TmpOf(l))
  <1>1. CASE Begin(l)
    BY <1>1 DEF Begin
  <1>2. CASE Reserve(l)
    BY <1>2 DEF Reserve
  <1>3. CASE Name(l)
    BY <1>3 DEF Name
  <1>4. CASE WriteTmp(l)
    BY <1>4 DEF WriteTmp
  <1>5. CASE Rename(l)
    BY <1>5, RenameAdds DEF Rename
  <1>6. CASE WriteFails(l)
    BY <1>6 DEF WriteFails
  <1>7. CASE Undo(l)
    BY <1>7 DEF Undo
  <1> QED BY <1>1, <1>2, <1>3, <1>4, <1>5, <1>6, <1>7 DEF LeaseStep

(* write numbers stay apart. *)
LEMMA WritesApartStep ==
    ASSUME IInv, NEW l \in Leases, LeaseStep(l)
    PROVE  WritesApart'
  <1>0. Shapes /\ WritesApart /\ job[l] \in Jobs
    BY DEF IInv, Shapes
  <1>1. CASE Begin(l)
    <2>1. pc'[l] = "reserve" /\ job'[l].write = writes + 1 /\ writes' = writes + 1
      BY <1>0, <1>1 DEF Begin, Goto, Shapes, NoJob
    <2>2. \A m \in Leases \ {l} : pc'[m] = pc[m] /\ job'[m] = job[m]
      BY <1>0, LeaseFrame
    <2>3. UNCHANGED <<files, tmps>>
      BY <1>1 DEF Begin
    <2>4. \A f \in files : f.write \in Nat
      BY <1>0 DEF Shapes, Files
    <2>5. \A t \in tmps : t.file.write \in Nat
      BY <1>0 DEF Shapes, Files
    <2>6. \A m \in Leases : job[m].write \in Nat
      BY <1>0 DEF Shapes, Jobs
    <2>7. writes \in Nat
      BY <1>0 DEF Shapes
    <2> QED BY <1>0, <2>1, <2>2, <2>3, <2>4, <2>5, <2>6, <2>7 DEF WritesApart, Busy
  <1>2. CASE ~Begin(l)
    <2>1. /\ writes' = writes
          /\ \A m \in Leases : Busy(m)' => Busy(m) /\ job'[m].write = job[m].write
      <3>1. \A m \in Leases \ {l} : pc'[m] = pc[m] /\ job'[m] = job[m]
        BY <1>0, LeaseFrame
      <3>2. writes' = writes /\ (Busy(l)' => Busy(l) /\ job'[l].write = job[l].write)
        BY <1>0, <1>2 DEF LeaseStep, Reserve, Name, WriteTmp, Rename, WriteFails, Undo, Goto, Busy,
                          Writing, Shapes, Jobs
      <3> QED BY <3>1, <3>2 DEF Busy
    <2>2. \A f \in files' : f \in files \/ (Busy(l) /\ f.write = job[l].write)
      BY DiskFrame DEF Busy, Writing, FileOf
    <2>3. \A t \in tmps' : t \in tmps \/ (Busy(l) /\ t.file.write = job[l].write)
      <3>1. TmpOf(l).file.write = job[l].write
        BY DEF TmpOf, FileOf
      <3> QED BY <3>1, DiskFrame DEF Busy, Writing
    <2> QED BY <1>0, <2>1, <2>2, <2>3 DEF WritesApart
  <1> QED BY <1>1, <1>2

(* What a quarantine has on disk stays its own. *)
LEMMA OwnFilesStep ==
    ASSUME IInv, NEW l \in Leases, LeaseStep(l)
    PROVE  OwnFiles'
  <1>0. Shapes /\ WritesApart /\ OwnFiles /\ job[l] \in Jobs /\ pc[l] \in Labels
    BY DEF IInv, Shapes
  <1>1. \A ext : FileOf(l, ext).write = job[l].write /\ FileOf(l, ext).ext = ext
    BY DEF FileOf
  <1>2. TmpOf(l).file.write = job[l].write
    BY DEF TmpOf, FileOf
  <1>3. ASSUME NEW m \in Leases \ {l}, Busy(m)'
        PROVE  /\ \A f \in files' : f.write = job'[m].write => pc'[m] = "json" /\ f = FileOf(m, "arrow")'
               /\ pc'[m] = "json" => FileOf(m, "arrow")' \in files'
               /\ \A t \in tmps' : t.file.write = job'[m].write => Writing(m)' /\ t = TmpOf(m)'
               /\ \A f \in reported' : f.write # job'[m].write
    <2>1. pc'[m] = pc[m] /\ job'[m] = job[m] /\ Busy(m)
      BY <1>0, <1>3, LeaseFrame DEF Busy
    <2>2. /\ FileOf(m, "arrow")' = FileOf(m, "arrow")
          /\ TmpOf(m)' = TmpOf(m)
          /\ Writing(m)' = Writing(m)
      BY <1>0, FileFrame
    <2>3. Busy(l) => job[m].write # job[l].write
      BY <1>0, <2>1 DEF WritesApart
    <2>4. \A f \in files' : f.write = job[m].write => f \in files
      BY <1>1, <2>3, DiskFrame DEF Busy, Writing
    <2>5. \A t \in tmps' : t.file.write = job[m].write => t \in tmps
      BY <1>2, <2>3, DiskFrame DEF Busy, Writing
    <2>6. pc[m] = "json" => FileOf(m, "arrow") \in files'
      <3> SUFFICES ASSUME pc[m] = "json" PROVE FileOf(m, "arrow") \in files'
        OBVIOUS
      <3>1. FileOf(m, "arrow") \in files /\ FileOf(m, "arrow").write = job[m].write
        BY <1>0, <2>1 DEF OwnFiles, FileOf
      <3>2. CASE Rename(l)
        BY <3>1, <3>2, RenameAdds
      <3>3. CASE WriteFails(l)
        BY <1>1, <2>3, <3>1, <3>3 DEF WriteFails, Withdrawn, Busy, Writing
      <3>4. CASE ~Rename(l) /\ ~WriteFails(l)
        BY <3>1, <3>4 DEF LeaseStep, Begin, Reserve, Name, WriteTmp, Undo
      <3> QED BY <3>2, <3>3, <3>4
    <2>7. \A f \in reported' : f \in reported \/ (Busy(l) /\ f.write = job[l].write)
      <3>1. CASE Rename(l)
        BY <1>1, <3>1 DEF Rename, Busy, Writing
      <3>2. CASE ~Rename(l)
        BY <3>2 DEF LeaseStep, Begin, Reserve, Name, WriteTmp, WriteFails, Undo
      <3> QED BY <3>1, <3>2
    <2> QED BY <1>0, <2>1, <2>2, <2>3, <2>4, <2>5, <2>6, <2>7 DEF OwnFiles
  <1>4. ASSUME Busy(l)'
        PROVE  /\ \A f \in files' : f.write = job'[l].write => pc'[l] = "json" /\ f = FileOf(l, "arrow")'
               /\ pc'[l] = "json" => FileOf(l, "arrow")' \in files'
               /\ \A t \in tmps' : t.file.write = job'[l].write => Writing(l)' /\ t = TmpOf(l)'
               /\ \A f \in reported' : f.write # job'[l].write
    <2>1. CASE Begin(l)
      <3>1. pc'[l] = "reserve" /\ job'[l].write = writes + 1 /\ writes \in Nat
        BY <1>0, <2>1 DEF Begin, Goto, Shapes, NoJob
      <3>2. UNCHANGED <<files, tmps, reported>>
        BY <2>1 DEF Begin
      <3>3. /\ \A f \in files : f.write \in Nat /\ f.write <= writes
            /\ \A t \in tmps : t.file.write \in Nat /\ t.file.write <= writes
        BY <1>0 DEF Shapes, Files, WritesApart
      <3>4. reported \subseteq files
        BY DEF IInv, QuarantinedIsKept
      <3> QED BY <3>1, <3>2, <3>3, <3>4
    <2>2. CASE Reserve(l)
      BY <1>0, <1>4, <2>2 DEF Reserve, Goto, Busy, Writing, OwnFiles, Shapes, Jobs
    <2>3. CASE Name(l)
      BY <1>0, <1>4, <2>3 DEF Name, Goto, Busy, Writing, OwnFiles, Shapes, Jobs
    <2>4. CASE WriteTmp(l)
      <3>1. /\ Busy(l) /\ Writing(l)
            /\ UNCHANGED <<pc, job, files, reported, pid>>
            /\ tmps' = tmps \union {TmpOf(l)}
        BY <2>4 DEF WriteTmp, Busy, Writing
      <3>2. /\ FileOf(l, "arrow")' = FileOf(l, "arrow")
            /\ TmpOf(l)' = TmpOf(l)
            /\ Writing(l)'
        BY <3>1 DEF FileOf, TmpOf, Current, Writing
      <3> QED BY <1>0, <3>1, <3>2 DEF OwnFiles
    <2>5. CASE Rename(l)
      <3>1. /\ pc[l] = "arrow" /\ Busy(l) /\ Current(l) = "arrow"
            /\ pc'[l] = "json"
            /\ UNCHANGED <<job, reported>>
        BY <1>0, <1>4, <2>5 DEF Rename, Goto, Busy, Writing, Shapes, Current
      <3>2. FileOf(l, "arrow")' = FileOf(l, "arrow")
        BY <3>1 DEF FileOf
      <3>3. files' = files \union {FileOf(l, "arrow")} /\ tmps' = tmps \ {TmpOf(l)}
        BY <2>5, <3>1, RenameAdds
      <3> QED BY <1>0, <3>1, <3>2, <3>3 DEF OwnFiles
    <2>6. CASE WriteFails(l)
      <3>1. /\ Busy(l) /\ pc'[l] = "undo" /\ job' = job /\ reported' = reported
            /\ tmps' = tmps \ {TmpOf(l)}
            /\ files' = files \ Withdrawn(l)
        BY <1>0, <2>6 DEF WriteFails, Goto, Busy, Writing, Shapes
      <3>2. \A f \in files : f.write = job[l].write => f \in Withdrawn(l)
        BY <1>0, <3>1 DEF OwnFiles, Withdrawn
      <3> QED BY <1>0, <3>1, <3>2 DEF OwnFiles, Writing
    <2>7. CASE Undo(l)
      BY <1>0, <1>4, <2>7 DEF Undo, Goto, Busy, Shapes
    <2> QED BY <2>1, <2>2, <2>3, <2>4, <2>5, <2>6, <2>7 DEF LeaseStep
  <1> QED BY <1>3, <1>4 DEF OwnFiles

(* The name chosen is free. *)
LEMMA ChosenIsFree ==
    ASSUME IInv, NEW l \in Leases, NEW f \in files,
           f.stem = StemFor(BaseStem(l), fileSeq)
    PROVE  FALSE
  <1> DEFINE stem == StemFor(BaseStem(l), fileSeq)
  <1>1. /\ stem.run = crashes
        /\ stem.seq = IF Taken(BaseStem(l)) THEN fileSeq ELSE 0
    BY StemType DEF IInv
  <1>2. f.stem.seq < fileSeq /\ f \in Files /\ f.stem \in Names /\ fileSeq \in Nat
    BY <1>1 DEF IInv, StemsFree, Shapes
  <1>3. ~Taken(BaseStem(l)) /\ f.stem = BaseStem(l)
    BY <1>1, <1>2 DEF StemFor, Names
  <1>4. f.ext = "json"
    BY <1>2, <1>3 DEF Taken, Files, Exts
  <1>5. \E g \in files : g.ext = "arrow" /\ g.stem = f.stem
    BY <1>4 DEF IInv, QuarantinedIsKept
  <1> QED BY <1>3, <1>5 DEF Taken

(* Names stay free of one another. *)
LEMMA StemsFreeStep ==
    ASSUME IInv, NEW l \in Leases, LeaseStep(l)
    PROVE  StemsFree'
  <1>0. Shapes /\ StemsFree /\ OwnFiles /\ job[l] \in Jobs /\ crashes \in Nat /\ fileSeq \in Nat
    BY DEF IInv, Shapes
  <1>1. UNCHANGED <<up, pid, crashes>> /\ fileSeq' >= fileSeq /\ fileSeq' \in Nat
    <2>1. fileSeq' = fileSeq \/ fileSeq' = fileSeq + 1
      BY DEF LeaseStep, Begin, Reserve, Name, WriteTmp, Rename, WriteFails, Undo
    <2> QED BY <1>0, <2>1, LeaseFrame
  <1>2. up
    BY DEF IInv, NothingWhileDown, LeaseStep, Begin, Reserve, Name, WriteTmp, Rename, WriteFails,
           Undo, Busy, Writing
  <1>3. ASSUME NEW f \in files'
        PROVE  /\ f.stem \in Names
               /\ f.stem.run <= crashes
               /\ f.stem.run = crashes => f.stem.seq < fileSeq'
    <2>1. CASE f \in files
      <3>1. f.stem \in Names /\ f.stem.seq \in Nat
        BY <1>0, <2>1 DEF StemsFree, Names
      <3> QED BY <1>0, <1>1, <2>1, <3>1 DEF StemsFree
    <2>2. CASE Writing(l) /\ f = FileOf(l, Current(l))
      <3>1. f.stem = job[l].stem
        BY <2>2 DEF FileOf
      <3>2. job[l].stem \in Names /\ job[l].stem.seq \in Nat
        BY <1>0, <2>2 DEF StemsFree, Names
      <3> QED BY <1>0, <1>1, <2>2, <3>1, <3>2 DEF StemsFree
    <2> QED BY <2>1, <2>2, DiskFrame
  <1>4. ASSUME NEW m \in Leases, Writing(m)'
        PROVE  /\ job'[m].stem \in Names
               /\ job'[m].stem.lease = m
               /\ job'[m].stem.run = crashes
               /\ job'[m].stem.seq < fileSeq'
               /\ \A f \in files' : f.stem = job'[m].stem => f.write = job'[m].write
    <2>1. CASE Name(l) /\ m = l
      <3> DEFINE stem == StemFor(BaseStem(l), fileSeq)
      <3>1. fileSeq' = fileSeq + 1 /\ job'[l].stem = stem /\ files' = files
        BY <1>0, <1>4, <2>1 DEF Name, Goto, Shapes, Jobs, Writing
      <3>2. \A f \in files : f.stem # stem
        BY ChosenIsFree
      <3>3. stem \in Names /\ stem.lease = l /\ stem.run = crashes /\ stem.seq <= fileSeq /\ stem.seq \in Nat
        BY <1>0, StemType
      <3> QED BY <1>0, <2>1, <3>1, <3>2, <3>3
    <2>2. CASE ~(Name(l) /\ m = l)
      <3>1. Writing(m) /\ job'[m].stem = job[m].stem /\ job'[m].write = job[m].write
        <4>1. CASE m # l
          BY <1>0, <1>4, <4>1, LeaseFrame DEF Writing
        <4>2. CASE m = l
          BY <1>0, <1>4, <2>2, <4>2
             DEF LeaseStep, Begin, Reserve, WriteTmp, Rename, WriteFails, Undo, Goto, Writing, Shapes
        <4> QED BY <4>1, <4>2
      <3>2. job[m].stem \in Names /\ job[m].stem.seq \in Nat
        BY <1>0, <3>1 DEF StemsFree, Names
      <3>3. job[m].stem.seq < fileSeq'
        BY <1>0, <1>1, <3>1, <3>2 DEF StemsFree
      <3>4. ASSUME NEW f \in files', f.stem = job[m].stem PROVE f.write = job[m].write
        <4>1. CASE f \in files
          BY <1>0, <3>1, <3>4, <4>1 DEF StemsFree
        <4>2. CASE Writing(l) /\ f = FileOf(l, Current(l))
          <5>1. f.stem = job[l].stem /\ f.write = job[l].write
            BY <4>2 DEF FileOf
          <5>2. m = l
            BY <1>0, <3>1, <3>4, <4>2, <5>1 DEF StemsFree
          <5> QED BY <5>1, <5>2
        <4> QED BY <4>1, <4>2, DiskFrame
      <3> QED BY <1>0, <3>1, <3>2, <3>3, <3>4 DEF StemsFree
    <2> QED BY <2>1, <2>2
  <1>5. fileSeq' > 0
    BY <1>0, <1>1 DEF StemsFree
  <1> QED BY <1>1, <1>2, <1>3, <1>4, <1>5 DEF StemsFree

(* A temporary file belongs to a quarantine under way or was spared by the last restart. *)
LEMMA NoStaleTmpStep ==
    ASSUME IInv, NEW l \in Leases, LeaseStep(l)
    PROVE  NoStaleTmp'
  <1>0. Shapes /\ NoStaleTmp /\ UNCHANGED <<up, pid, crashes>>
    BY LeaseFrame DEF IInv
  <1> SUFFICES ASSUME up, NEW t \in tmps'
               PROVE  \/ crashes > 0 /\ pid \in Tagged(t)
                      \/ \E m \in Leases : Writing(m)' /\ t = TmpOf(m)'
    BY <1>0 DEF NoStaleTmp
  <1>1. \/ crashes > 0 /\ pid \in Tagged(t)
        \/ \E m \in Leases : Writing(m) /\ t = TmpOf(m)
    BY <1>0, DiskFrame DEF NoStaleTmp
  <1>2. ASSUME NEW m \in Leases, Writing(m), t = TmpOf(m)
        PROVE  Writing(m)' /\ t = TmpOf(m)'
    <2>1. CASE m # l
      BY <1>0, <1>2, <2>1, FileFrame
    <2>2. CASE m = l
      <3>1. UNCHANGED <<pc, job>>
        BY <1>2, <2>2 DEF LeaseStep, Begin, Reserve, Name, WriteTmp, Rename, WriteFails, Undo, Writing
      <3> QED BY <1>0, <1>2, <2>2, <3>1 DEF Writing, TmpOf, FileOf, Current
    <2> QED BY <2>1, <2>2
  <1> QED BY <1>1, <1>2

(* Reported pairs are neither replaced nor removed, and no manifest is left alone. *)
LEMMA KeptStep ==
    ASSUME IInv, NEW l \in Leases, LeaseStep(l)
    PROVE  QuarantinedIsKept'
  <1>0. Shapes /\ OwnFiles /\ QuarantinedIsKept
    BY DEF IInv
  <1>1. CASE Rename(l)
    <2>1. files' = files \union {FileOf(l, Current(l))}
      BY <1>1, RenameAdds
    <2>2. Writing(l) /\ Busy(l)
      BY <1>1 DEF Rename, Writing, Busy
    <2>3. CASE pc[l] = "arrow"
      <3>1. FileOf(l, Current(l)).ext = "arrow" /\ reported' = reported
        BY <1>1, <2>3 DEF Rename, Current, FileOf
      <3> QED BY <1>0, <2>1, <3>1 DEF QuarantinedIsKept
    <2>4. CASE pc[l] = "json"
      <3>1. /\ Current(l) = "json"
            /\ reported' = reported \union {FileOf(l, "arrow"), FileOf(l, "json")}
        BY <1>1, <2>4 DEF Rename, Current
      <3>2. FileOf(l, "arrow") \in files
        BY <1>0, <2>2, <2>4 DEF OwnFiles
      <3>3. /\ FileOf(l, "arrow").ext = "arrow"
            /\ FileOf(l, "arrow").stem = FileOf(l, "json").stem
            /\ FileOf(l, "arrow").write = FileOf(l, "json").write
        BY DEF FileOf
      <3> QED BY <1>0, <2>1, <3>1, <3>2, <3>3 DEF QuarantinedIsKept
    <2> QED BY <2>2, <2>3, <2>4 DEF Writing
  <1>2. CASE WriteFails(l)
    <2>1. /\ Busy(l) /\ reported' = reported
          /\ files' = files \ Withdrawn(l)
      BY <1>2 DEF WriteFails, Busy, Writing
    <2>2. \A f \in Withdrawn(l) : f.write = job[l].write /\ f = FileOf(l, "arrow") /\ f.ext = "arrow"
      BY DEF Withdrawn, FileOf
    <2>3. reported \subseteq files'
      BY <1>0, <2>1, <2>2 DEF QuarantinedIsKept, OwnFiles
    <2>4. ASSUME NEW f \in files', f.ext = "json"
          PROVE  \E g \in files' : g.ext = "arrow" /\ g.stem = f.stem /\ g.write = f.write
      <3>1. PICK g \in files : g.ext = "arrow" /\ g.stem = f.stem /\ g.write = f.write
        BY <1>0, <2>1, <2>4 DEF QuarantinedIsKept
      <3>2. f.write # job[l].write
        <4>1. FileOf(l, "arrow").ext = "arrow" /\ f \in files
          BY <2>1, <2>4 DEF FileOf
        <4> QED BY <1>0, <2>1, <2>4, <4>1 DEF OwnFiles
      <3> QED BY <2>1, <2>2, <3>1, <3>2
    <2> QED BY <2>1, <2>3, <2>4 DEF QuarantinedIsKept
  <1>3. CASE ~Rename(l) /\ ~WriteFails(l)
    <2>1. UNCHANGED <<files, reported>>
      BY <1>3 DEF LeaseStep, Begin, Reserve, Name, WriteTmp, Undo
    <2> QED BY <1>0, <2>1 DEF QuarantinedIsKept
  <1> QED BY <1>1, <1>2, <1>3

-----------------------------------------------------------------------------
(* The quota                                                                *)

(* What is charged for everyone but l. *)
Rest(l) == files \union UNION {Owed(m) : m \in Leases \ {l}}

(* What is charged is the directory, what one lease owes and what the others do. *)
LEMMA ChargedSplit ==
    ASSUME NEW l \in Leases
    PROVE  Charged = Rest(l) \union Owed(l)
  BY DEF Charged, Rest

(* Only files are charged. *)
LEMMA ChargedType ==
    ASSUME Shapes
    PROVE  Charged \in SUBSET Files
  <1>1. \A l \in Leases : Owed(l) \subseteq Files
    BY FileType DEF Owed, Exts
  <1> QED BY <1>1 DEF Charged, Shapes

(* Nothing of a quarantine that has no file yet is charged for anyone else. *)
LEMMA RestApart ==
    ASSUME IInv, NEW l \in Leases, Busy(l), pc[l] # "json", NEW f \in Rest(l)
    PROVE  f.write # job[l].write
  <1>1. CASE f \in files
    BY <1>1 DEF IInv, OwnFiles
  <1>2. ASSUME NEW m \in Leases \ {l}, f \in Owed(m) PROVE f.write # job[l].write
    <2>1. f.write = job[m].write /\ Busy(m)
      BY <1>2 DEF Owed, FileOf, Busy
    <2> QED BY <2>1 DEF IInv, WritesApart
  <1> QED BY <1>1, <1>2 DEF Rest

(* A step of l that leaves the files alone leaves the rest alone. *)
LEMMA RestFrame ==
    ASSUME Shapes, NEW l \in Leases, LeaseStep(l), files' = files
    PROVE  Rest(l)' = Rest(l)
  <1>1. \A m \in Leases \ {l} : Owed(m)' = Owed(m)
    BY FileFrame
  <1> QED BY <1>1 DEF Rest

(* The pair of a quarantine: two files that take what was reserved. *)
LEMMA PairType ==
    ASSUME Shapes, NEW l \in Leases
    PROVE  /\ FileOf(l, "arrow") \in Files /\ FileOf(l, "json") \in Files
           /\ FileOf(l, "arrow") # FileOf(l, "json")
           /\ FileOf(l, "arrow").write = job[l].write
           /\ FileOf(l, "json").write = job[l].write
           /\ FileOf(l, "arrow").bytes + FileOf(l, "json").bytes = Added(job[l].size)
           /\ Added(job[l].size) \in Nat
  <1>1. FileOf(l, "arrow") \in Files /\ FileOf(l, "json") \in Files
    BY FileType DEF Exts
  <1>2. FileOf(l, "arrow").ext = "arrow" /\ FileOf(l, "json").ext = "json"
    BY DEF FileOf
  <1>3. job[l].size.arrow \in Nat /\ job[l].size.json \in Nat
    BY SizeType DEF Shapes, Jobs
  <1> QED BY <1>1, <1>2, <1>3 DEF FileOf, Added

(* Reserved and not yet on disk, a pair adds what it takes to the rest, whatever it *)
(* is called.                                                                       *)
LEMMA PairCharged ==
    ASSUME IInv, NEW l \in Leases, Busy(l), pc[l] # "json", IsFiniteSet(Rest(l)),
           NEW x \in Files, NEW y \in Files, x # y,
           x.write = job[l].write, y.write = job[l].write,
           x.bytes + y.bytes = Added(job[l].size)
    PROVE  /\ IsFiniteSet(Rest(l) \union {x, y})
           /\ BytesOf(Rest(l) \union {x, y}) = BytesOf(Rest(l)) + Added(job[l].size)
           /\ BytesOf(Rest(l)) \in Nat
  <1>1. Shapes
    BY DEF IInv
  <1>2. Rest(l) \in SUBSET Files
    BY <1>1, ChargedType, ChargedSplit
  <1>3. x \notin Rest(l) /\ y \notin Rest(l)
    BY <1>1, RestApart
  <1>4. BytesOf(Rest(l)) \in Nat
    BY <1>2, BytesType
  <1>5. /\ IsFiniteSet(Rest(l) \union {x, y})
        /\ BytesOf(Rest(l) \union {x, y}) = BytesOf(Rest(l)) + x.bytes + y.bytes
    BY <1>2, <1>3, BytesAddPair
  <1>6. x.bytes \in Nat /\ y.bytes \in Nat
    BY DEF Files
  <1> QED BY <1>4, <1>5, <1>6

(* A step of a lease takes no temporary file from those of an earlier process, and *)
(* adds none.                                                                       *)
LEMMA StaleFrame ==
    ASSUME IInv, NEW l \in Leases, LeaseStep(l)
    PROVE  Stale' = Stale
  <1>0. Shapes /\ OwnFiles /\ UNCHANGED <<up, pid, crashes>>
    BY LeaseFrame DEF IInv
  <1>1. \A m \in Leases \ {l} : Writing(m)' = Writing(m) /\ TmpOf(m)' = TmpOf(m)
    BY <1>0, FileFrame
  <1>2. TmpOf(l).file.write = job[l].write /\ TmpOf(l)'.file.write = job'[l].write
    BY DEF TmpOf, FileOf
  <1>3. ASSUME NEW t \in Stale PROVE t \in Stale'
    <2>1. t \in tmps /\ \A m \in Leases : ~(Writing(m) /\ t = TmpOf(m))
      BY <1>3 DEF Stale
    <2>2. t \in tmps'
      <3>1. tmps' = tmps \/ (Writing(l) /\ tmps' = tmps \union {TmpOf(l)})
                         \/ (Writing(l) /\ tmps' = tmps \ {TmpOf(l)})
        BY DEF LeaseStep, Begin, Reserve, Name, WriteTmp, Rename, WriteFails, Undo
      <3> QED BY <2>1, <3>1
    <2>3. ~(Writing(l)' /\ t = TmpOf(l)')
      <3> SUFFICES ASSUME Writing(l)', t = TmpOf(l)' PROVE FALSE
        OBVIOUS
      <3>1. Busy(l) /\ job'[l].write = job[l].write
        BY <1>0, ZenonT(60) DEF LeaseStep, Begin, Reserve, Name, WriteTmp, Rename, WriteFails, Undo, Goto,
                    Writing, Busy, Shapes, Jobs
      <3>2. t.file.write = job[l].write
        BY <1>2, <3>1
      <3> QED BY <1>0, <2>1, <3>1, <3>2 DEF OwnFiles
    <2> QED BY <1>1, <2>1, <2>2, <2>3 DEF Stale
  <1>4. ASSUME NEW t \in Stale' PROVE t \in Stale
    <2>1. t \in tmps' /\ \A m \in Leases : ~(Writing(m)' /\ t = TmpOf(m)')
      BY <1>4 DEF Stale
    <2>2. ASSUME Writing(l), t = TmpOf(l) PROVE FALSE
      <3>1. CASE UNCHANGED <<pc, job>>
        BY <1>0, <2>1, <2>2, <3>1 DEF Writing, TmpOf, FileOf, Current
      <3>2. CASE tmps' = tmps \ {TmpOf(l)}
        BY <2>1, <2>2, <3>2
      <3>3. UNCHANGED <<pc, job>> \/ tmps' = tmps \ {TmpOf(l)}
        BY <2>2 DEF LeaseStep, Begin, Reserve, Name, WriteTmp, Rename, WriteFails, Undo, Writing
      <3> QED BY <3>1, <3>2, <3>3
    <2>3. t \in tmps
      BY <2>1, <2>2, DiskFrame
    <2> QED BY <1>1, <2>1, <2>2, <2>3 DEF Stale
  <1> QED BY <1>3, <1>4

(* The bytes a step takes from the quota or gives back are those of the pair it    *)
(* charges or lets go: reserve_bytes, and the failed write that undoes it.          *)
LEMMA QuotaStep ==
    ASSUME IInv, up, NEW l \in Leases, LeaseStep(l)
    PROVE  QuotaCharged'
  <1>0. /\ Shapes /\ Shapes' /\ QuotaCharged /\ up' = up
        /\ Stale' = Stale
    BY ShapesStep, StaleFrame, LeaseFrame DEF IInv
  <1>1. /\ current \in Int /\ MaxBytes \in Nat /\ TmpBytes(Stale)' = TmpBytes(Stale)
        /\ pc[l] \in Labels /\ job[l] \in Jobs
    BY <1>0, StoreAssumption DEF Shapes
  <1>2. TmpBytes(Stale) \in Nat
    <2>1. Stale \subseteq tmps
      BY DEF Stale
    <2>2. IsFiniteSet(Stale)
      BY <1>0, <2>1, FS_Subset DEF Shapes
    <2> QED BY <1>0, <2>1, <2>2, TmpBytesType DEF Shapes
  <1>3. Charged = Rest(l) \union Owed(l) /\ Charged' = Rest(l)' \union Owed(l)'
    BY ChargedSplit DEF Charged, Rest
  <1>4. IsFiniteSet(Rest(l))
    BY <1>0, <1>3, FS_Subset DEF QuotaCharged
  <1>5. \A m \in Leases \ {l} : Owed(m)' = Owed(m)
    BY <1>0, FileFrame
  <1> DEFINE x == FileOf(l, "arrow")
             y == FileOf(l, "json")
  <1>6. ASSUME Charged' = Charged, current' = current PROVE QuotaCharged'
    BY <1>0, <1>1, <1>6 DEF QuotaCharged, BytesOf
  <1>7. CASE Begin(l)
    <2>1. Owed(l) = {} /\ Owed(l)' = {}
      BY <1>0, <1>7 DEF Begin, Goto, Owed, Shapes
    <2>2. Rest(l)' = Rest(l) /\ current' = current
      BY <1>0, <1>7, RestFrame DEF Begin
    <2> QED BY <1>3, <1>6, <2>1, <2>2
  <1>8. CASE Reserve(l)
    <2>1. Owed(l) = {} /\ Busy(l) /\ pc[l] # "json"
      BY <1>8 DEF Reserve, Owed, Busy
    <2>2. Rest(l)' = Rest(l)
      BY <1>0, <1>8, RestFrame DEF Reserve
    <2>3. CASE pc'[l] # "name"
      <3>1. Owed(l)' = {} /\ current' = current
        BY <1>0, <1>8, <2>3 DEF Reserve, Goto, Owed, Shapes
      <3> QED BY <1>3, <1>6, <2>1, <2>2, <3>1
    <2>4. CASE pc'[l] = "name"
      <3>1. /\ job' = job
            /\ current + Added(job[l].size) <= MaxBytes
            /\ current' = current + Added(job[l].size)
        BY <1>0, <1>8, <2>4 DEF Reserve, Goto, Shapes, Fits, Swaps
      <3>2. Owed(l)' = {x, y}
        BY <2>4, <3>1 DEF Owed, FileOf
      <3>3. /\ IsFiniteSet(Rest(l) \union {x, y})
            /\ BytesOf(Rest(l) \union {x, y}) = BytesOf(Rest(l)) + Added(job[l].size)
            /\ BytesOf(Rest(l)) \in Nat
        BY <1>0, <1>4, <2>1, PairCharged, PairType
      <3>4. Charged = Rest(l) /\ Charged' = Rest(l) \union {x, y}
        BY <1>3, <2>1, <2>2, <3>2
      <3>5. BytesOf(Charged)' = BytesOf(Rest(l)) + Added(job[l].size)
        BY <3>3, <3>4 DEF BytesOf
      <3>6. Added(job[l].size) \in Nat
        BY <1>0, PairType
      <3> QED BY <1>0, <1>1, <1>2, <3>1, <3>3, <3>4, <3>5, <3>6 DEF QuotaCharged
    <2> QED BY <2>3, <2>4
  <1>9. CASE Name(l)
    <2>1. Owed(l) = {x, y} /\ Busy(l) /\ pc[l] # "json"
      BY <1>9 DEF Name, Owed, Busy
    <2>2. Rest(l)' = Rest(l) /\ current' = current
      BY <1>0, <1>9, RestFrame DEF Name
    <2>3. Owed(l)' = {x', y'} /\ job'[l].write = job[l].write /\ job'[l].size = job[l].size
      BY <1>0, <1>1, <1>9 DEF Name, Goto, Owed, Shapes, Jobs
    <2>4. /\ x' \in Files /\ y' \in Files /\ x' # y'
          /\ x'.write = job[l].write /\ y'.write = job[l].write
          /\ x'.bytes + y'.bytes = Added(job[l].size)
      <3>1. /\ x' \in Files /\ y' \in Files
            /\ x' # y'
            /\ x'.write = job'[l].write
            /\ y'.write = job'[l].write
            /\ x'.bytes + y'.bytes = Added(job'[l].size)
        <4>1. x'.ext = "arrow" /\ y'.ext = "json"
          BY DEF FileOf
        <4>2. job'[l].size.arrow \in Nat /\ job'[l].size.json \in Nat
          BY <1>0, SizeType DEF Shapes, Jobs
        <4>3. job'[l] \in Jobs
          BY <1>0 DEF Shapes
        <4>4. x' \in Files /\ y' \in Files
          BY <4>2, <4>3 DEF FileOf, Files, Exts, Jobs
        <4> QED BY <4>1, <4>2, <4>4 DEF FileOf, Added
      <3> QED BY <2>3, <3>1
    <2> HIDE DEF x, y
    <2>5. /\ IsFiniteSet(Rest(l) \union {x', y'})
          /\ BytesOf(Rest(l) \union {x', y'}) = BytesOf(Rest(l)) + Added(job[l].size)
      BY <1>4, <2>1, <2>4, PairCharged
    <2>6. BytesOf(Rest(l) \union {x, y}) = BytesOf(Rest(l)) + Added(job[l].size)
      BY <1>0, <1>4, <2>1, PairCharged, PairType DEF x, y
    <2>7. BytesOf(Charged)' = BytesOf(Charged) /\ IsFiniteSet(Charged')
      BY <1>3, <2>1, <2>2, <2>3, <2>5, <2>6 DEF BytesOf
    <2> QED BY <1>0, <1>1, <2>2, <2>7 DEF QuotaCharged
  <1>10. CASE WriteTmp(l)
    <2>1. Owed(l)' = Owed(l)
      BY <1>10 DEF WriteTmp, Owed, FileOf
    <2>2. Rest(l)' = Rest(l) /\ current' = current
      BY <1>0, <1>10, RestFrame DEF WriteTmp
    <2> QED BY <1>3, <1>6, <2>1, <2>2
  <1>11. CASE Rename(l)
    <2>1. files' = files \union {FileOf(l, Current(l))} /\ current' = current
      BY <1>11, RenameAdds DEF Rename
    <2>2. CASE pc[l] = "arrow"
      <3>1. Owed(l) = {x, y} /\ Owed(l)' = {x, y} /\ files' = files \union {x}
        BY <1>0, <1>11, <2>1, <2>2 DEF Rename, Goto, Owed, FileOf, Current, Shapes
      <3>2. Charged' = Charged
        BY <1>3, <1>5, <3>1 DEF Rest
      <3> QED BY <1>6, <2>1, <3>2
    <2>3. CASE pc[l] = "json"
      <3>1. Owed(l) = {x, y} /\ Owed(l)' = {} /\ files' = files \union {y}
        BY <1>0, <1>11, <2>1, <2>3 DEF Rename, Goto, Owed, Current, Shapes
      <3>2. x \in files
        BY <2>3 DEF IInv, OwnFiles, Busy
      <3>3. Charged' = Charged
        BY <1>3, <1>5, <3>1, <3>2 DEF Rest
      <3> QED BY <1>6, <2>1, <3>3
    <2> QED BY <1>11, <2>2, <2>3 DEF Rename, Writing
  <1>12. CASE WriteFails(l)
    <2>1. Owed(l) = {x, y} /\ Owed(l)' = {x, y}
      BY <1>0, <1>12 DEF WriteFails, Goto, Owed, FileOf, Writing, Shapes
    <2>2. files' \subseteq files /\ files \subseteq files' \union {x} /\ current' = current
      BY <1>12 DEF WriteFails, Withdrawn
    <2>3. Charged' = Charged
      BY <1>3, <1>5, <2>1, <2>2 DEF Rest
    <2> QED BY <1>6, <2>2, <2>3
  <1>13. CASE Undo(l)
    <2>1. Owed(l) = {x, y} /\ Owed(l)' = {} /\ Busy(l) /\ pc[l] # "json"
      BY <1>0, <1>13 DEF Undo, Goto, Owed, Busy, Shapes
    <2>2. Rest(l)' = Rest(l) /\ current' = current - Added(job[l].size)
      BY <1>0, <1>13, RestFrame DEF Undo
    <2>3. /\ BytesOf(Charged) = BytesOf(Rest(l)) + Added(job[l].size)
          /\ BytesOf(Rest(l)) \in Nat
      BY <1>0, <1>3, <1>4, <2>1, PairCharged, PairType
    <2>4. Charged' = Rest(l) /\ BytesOf(Charged)' = BytesOf(Rest(l))
      BY <1>3, <2>1, <2>2 DEF BytesOf
    <2>5. Added(job[l].size) \in Nat
      BY <1>0, PairType
    <2> QED BY <1>0, <1>1, <1>2, <1>4, <2>2, <2>3, <2>4, <2>5 DEF QuotaCharged
  <1> QED BY <1>7, <1>8, <1>9, <1>10, <1>11, <1>12, <1>13 DEF LeaseStep

(* What is on disk never exceeds what is charged: a temporary file stands for a    *)
(* file that is charged and not there yet, or is a stale one.                       *)
LEMMA DiskWithinQuota ==
    ASSUME IInv, up
    PROVE  BytesOf(files) + TmpBytes(tmps) <= current
  <1> DEFINE active == tmps \ Stale
             coming == Charged \ files
  <1>1. /\ Shapes /\ OwnFiles /\ IsFiniteSet(Charged)
        /\ current = BytesOf(Charged) + TmpBytes(Stale)
    BY DEF IInv, QuotaCharged
  <1>2. /\ Stale \subseteq tmps
        /\ tmps \in SUBSET [file : Files, pid : Pids] /\ files \in SUBSET Files
        /\ files \subseteq Charged /\ Charged \in SUBSET Files
    BY <1>1, ChargedType DEF Stale, Shapes, Charged
  <1>3. IsFiniteSet(Stale) /\ IsFiniteSet(active) /\ IsFiniteSet(coming) /\ IsFiniteSet(files)
    BY <1>1, <1>2, FS_Subset DEF Shapes
  <1>4. TmpBytes(tmps) = TmpBytes(Stale) + TmpBytes(active)
    <2> DEFINE v == [t \in Stale |-> t.file.bytes]
               w == [t \in active |-> t.file.bytes]
               u == [t \in tmps |-> t.file.bytes]
    <2>1. IsFiniteWeight(v) /\ IsFiniteWeight(w)
      BY <1>2, <1>3, TmpBytesType
    <2>2. DOMAIN v = Stale /\ DOMAIN w = active /\ Stale \union active = tmps
      BY <1>2
    <2>3. /\ u \in [DOMAIN v \union DOMAIN w -> Nat]
          /\ DOMAIN v \intersect DOMAIN w = {}
          /\ \A t \in DOMAIN v : u[t] = v[t]
          /\ \A t \in DOMAIN w : u[t] = w[t]
      BY <1>2, <2>2 DEF Files
    <2> HIDE DEF u, v, w
    <2>4. SumOf(u) = SumOf(v) + SumOf(w)
      BY <2>1, <2>3, SumUnion
    <2> QED BY <2>4 DEF u, v, w, TmpBytes
  <1>5. BytesOf(Charged) = BytesOf(files) + BytesOf(coming)
    <2> DEFINE v == [f \in files |-> f.bytes]
               w == [f \in coming |-> f.bytes]
               u == [f \in Charged |-> f.bytes]
    <2>1. IsFiniteWeight(v) /\ IsFiniteWeight(w)
      BY <1>2, <1>3, BytesType
    <2>2. DOMAIN v = files /\ DOMAIN w = coming /\ files \union coming = Charged
      BY <1>2
    <2>3. /\ u \in [DOMAIN v \union DOMAIN w -> Nat]
          /\ DOMAIN v \intersect DOMAIN w = {}
          /\ \A f \in DOMAIN v : u[f] = v[f]
          /\ \A f \in DOMAIN w : u[f] = w[f]
      BY <1>2, <2>2 DEF Files
    <2> HIDE DEF u, v, w
    <2>4. SumOf(u) = SumOf(v) + SumOf(w)
      BY <2>1, <2>3, SumUnion
    <2> QED BY <2>4 DEF u, v, w, BytesOf
  <1>6. ASSUME NEW t \in active PROVE t.file \in coming /\ t.pid = pid
    <2>1. PICK l \in Leases : Writing(l) /\ t = TmpOf(l)
      BY <1>6 DEF Stale
    <2>2. /\ t.file = FileOf(l, Current(l)) /\ t.pid = pid
          /\ t.file.write = job[l].write /\ t.file.ext = Current(l)
      BY <2>1 DEF TmpOf, FileOf
    <2>3. t.file \in Owed(l)
      BY <2>1, <2>2 DEF Owed, Writing, Current
    <2>4. t.file \notin files
      <3> SUFFICES ASSUME t.file \in files PROVE FALSE
        OBVIOUS
      <3>1. pc[l] = "json" /\ t.file = FileOf(l, "arrow")
        BY <1>1, <2>1, <2>2 DEF OwnFiles, Writing, Busy
      <3>2. FileOf(l, "arrow").ext = "arrow" /\ Current(l) = "json"
        BY <3>1 DEF FileOf, Current
      <3> QED BY <2>2, <3>1, <3>2
    <2> QED BY <2>2, <2>3, <2>4 DEF Charged
  <1>7. TmpBytes(active) <= BytesOf(coming)
    <2> DEFINE v == [t \in active |-> t.file.bytes]
               w == [f \in coming |-> f.bytes]
               g == [t \in active |-> t.file]
    <2>1. IsFiniteWeight(v) /\ IsFiniteWeight(w)
      BY <1>2, <1>3, TmpBytesType, BytesType
    <2>2. ASSUME NEW s \in active, NEW t \in active, s.file = t.file PROVE s = t
      BY <1>2, <1>6, <2>2
    <2>3. g \in Injection(DOMAIN v, DOMAIN w)
      BY <1>6, <2>2 DEF Injection, IsInjective
    <2>4. \A t \in DOMAIN v : v[t] <= w[g[t]]
      <3>1. \A t \in active : t.file.bytes \in Nat
        BY <1>2 DEF Files
      <3> QED BY <1>6, <3>1
    <2> HIDE DEF v, w, g
    <2>5. SumOf(v) <= SumOf(w)
      BY <2>1, <2>3, <2>4, SumLess
    <2> QED BY <2>5 DEF v, w, TmpBytes, BytesOf
  <1>8. /\ BytesOf(files) \in Nat /\ BytesOf(coming) \in Nat
        /\ TmpBytes(Stale) \in Nat /\ TmpBytes(active) \in Nat
    BY <1>2, <1>3, BytesType, TmpBytesType
  <1> QED BY <1>1, <1>4, <1>5, <1>7, <1>8

(* While nothing is under way, the charged files are those on disk. *)
LEMMA IdleCharge ==
    ASSUME \A l \in Leases : ~Busy(l)
    PROVE  Charged = files /\ Stale = tmps
  BY DEF Charged, Stale, Owed, Busy, Writing

(* A crash ends what is under way; the files it had stay, and fit the quota. *)
LEMMA CrashStep ==
    ASSUME IInv, Crash
    PROVE  IInv'
  <1>1. /\ Shapes /\ WritesApart /\ OwnFiles /\ StemsFree /\ QuotaCharged /\ QuarantinedIsKept
        /\ up /\ ~up' /\ crashes' = crashes + 1
        /\ pc' = [l \in Leases |-> "idle"] /\ job' = [l \in Leases |-> NoJob]
        /\ UNCHANGED <<files, tmps, current, fileSeq, reported, pid, writes, faults>>
    BY DEF IInv, Crash
  <1>2. \A l \in Leases : ~Busy(l)' /\ ~Writing(l)'
    BY <1>1 DEF Busy, Writing
  <1>3. Shapes'
    <2>1. NoJob \in Jobs
      BY DEF Jobs, NoJob, Stems
    <2>2. job' \in [Leases -> Jobs] /\ pc' \in [Leases -> Labels] /\ up' \in BOOLEAN
      BY <1>1, <2>1 DEF Labels, Crash
    <2> QED BY <1>1, <2>2 DEF Shapes
  <1>4. WritesApart'
    BY <1>1, <1>2 DEF WritesApart
  <1>5. OwnFiles'
    BY <1>2 DEF OwnFiles
  <1>6. StemsFree'
    <2>1. crashes \in Nat /\ \A f \in files : f.stem \in Names => f.stem.run \in Nat
      BY <1>1 DEF Shapes, Names
    <2> QED BY <1>1, <1>2, <2>1 DEF StemsFree
  <1>7. NothingWhileDown'
    BY <1>1, <1>2 DEF NothingWhileDown, Shapes
  <1>8. QuotaCharged'
    <2>1. IsFiniteSet(Charged')
      <3>1. Charged' = files
        BY <1>1, <1>2 DEF Charged, Owed, Busy
      <3> QED BY <1>1, <3>1 DEF Shapes
    <2>2. BytesOf(files) + TmpBytes(tmps) <= MaxBytes
      <3>1. BytesOf(files) \in Nat /\ TmpBytes(tmps) \in Nat
        BY <1>1, BytesType, TmpBytesType DEF Shapes
      <3>2. BytesOf(files) + TmpBytes(tmps) <= current /\ current <= MaxBytes
        BY <1>1, DiskWithinQuota DEF QuotaCharged
      <3> QED BY <1>1, <3>1, <3>2, StoreAssumption DEF Shapes
    <2> QED BY <1>1, <2>1, <2>2 DEF QuotaCharged, BytesOf, TmpBytes
  <1>9. NoStaleTmp' /\ QuarantinedIsKept'
    BY <1>1 DEF NoStaleTmp, QuarantinedIsKept
  <1> QED BY <1>3, <1>4, <1>5, <1>6, <1>7, <1>8, <1>9 DEF IInv

(* scan_existing_bytes charges what it finds, which is no more than the crash left; *)
(* names of this run of the process are all free.                                   *)
LEMMA RestartStep ==
    ASSUME IInv, Restart
    PROVE  IInv'
  <1>1. /\ Shapes /\ WritesApart /\ OwnFiles /\ StemsFree /\ QuotaCharged /\ QuarantinedIsKept
        /\ NothingWhileDown
        /\ ~up /\ up' = TRUE /\ fileSeq' = 1
        /\ UNCHANGED <<files, pc, job, reported, writes, crashes, faults>>
    BY DEF IInv, Restart
  <1>2. PICK p \in Pids :
           /\ pid' = p
           /\ tmps' = SparedTmps(p)
           /\ current' = BytesOf(files) + TmpBytes(SparedTmps(p))
    BY DEF Restart
  <1>3. \A l \in Leases : ~Busy(l) /\ ~Writing(l) /\ ~Busy(l)' /\ ~Writing(l)'
    BY <1>1 DEF NothingWhileDown, Busy, Writing
  <1>4. /\ tmps' \subseteq tmps /\ IsFiniteSet(tmps')
        /\ files \in SUBSET Files /\ IsFiniteSet(files)
        /\ tmps \in SUBSET [file : Files, pid : Pids] /\ IsFiniteSet(tmps)
    <2>1. tmps' \subseteq tmps
      BY <1>2 DEF SparedTmps
    <2> QED BY <1>1, <2>1, FS_Subset DEF Shapes
  <1>5. /\ BytesOf(files) \in Nat /\ TmpBytes(tmps) \in Nat
        /\ TmpBytes(SparedTmps(p)) \in Nat /\ TmpBytes(SparedTmps(p)) <= TmpBytes(tmps)
    <2> DEFINE v == [t \in SparedTmps(p) |-> t.file.bytes]
               w == [t \in tmps |-> t.file.bytes]
               g == [t \in SparedTmps(p) |-> t]
    <2>1. SparedTmps(p) \subseteq tmps /\ IsFiniteSet(SparedTmps(p))
      BY <1>2, <1>4
    <2>2. IsFiniteWeight(v) /\ IsFiniteWeight(w)
      BY <1>4, <2>1, TmpBytesType
    <2>3. g \in Injection(DOMAIN v, DOMAIN w)
      BY <2>1 DEF Injection, IsInjective
    <2>4. \A t \in DOMAIN v : v[t] <= w[g[t]]
      <3>1. \A t \in tmps : t.file.bytes \in Nat
        BY <1>4 DEF Files
      <3> QED BY <2>1, <3>1
    <2> HIDE DEF v, w, g
    <2>5. SumOf(v) <= SumOf(w)
      BY <2>2, <2>3, <2>4, SumLess
    <2>6. TmpBytes(SparedTmps(p)) <= TmpBytes(tmps)
      BY <2>5 DEF v, w, TmpBytes
    <2> QED BY <1>4, <2>1, <2>6, BytesType, TmpBytesType
  <1>6. Shapes'
    BY <1>1, <1>2, <1>4, <1>5 DEF Shapes
  <1>7. WritesApart'
    BY <1>1, <1>3, <1>4 DEF WritesApart
  <1>8. OwnFiles'
    BY <1>3 DEF OwnFiles
  <1>9. StemsFree'
    BY <1>1, <1>3 DEF StemsFree
  <1>10. NothingWhileDown'
    BY <1>1 DEF NothingWhileDown
  <1>11. QuotaCharged'
    <2>1. Charged' = files /\ Stale' = tmps'
      BY <1>1, <1>3 DEF Charged, Stale, Owed, Busy
    <2>2. current' <= MaxBytes
      BY <1>1, <1>2, <1>5, StoreAssumption DEF QuotaCharged
    <2>3. current' = BytesOf(Charged)' + TmpBytes(Stale)'
      BY <1>2, <2>1 DEF BytesOf, TmpBytes
    <2> QED BY <1>1, <1>4, <2>1, <2>2, <2>3 DEF QuotaCharged
  <1>12. NoStaleTmp'
    BY <1>1, <1>2 DEF NoStaleTmp, NothingWhileDown, SparedTmps, Tagged
  <1>13. QuarantinedIsKept'
    BY <1>1 DEF QuarantinedIsKept
  <1> QED BY <1>6, <1>7, <1>8, <1>9, <1>10, <1>11, <1>12, <1>13 DEF IInv

(* Only a running process has anything under way. *)
LEMMA RunningStep ==
    ASSUME IInv, NEW l \in Leases, LeaseStep(l)
    PROVE  up /\ NothingWhileDown'
  <1>1. up
    <2>1. Busy(l) \/ up
      BY DEF LeaseStep, Begin, Reserve, Name, WriteTmp, Rename, WriteFails, Undo, Busy, Writing
    <2> QED BY <2>1 DEF IInv, NothingWhileDown
  <1>2. up' = up
    BY LeaseFrame DEF IInv
  <1> QED BY <1>1, <1>2 DEF NothingWhileDown

(* An empty directory satisfies the invariant. *)
LEMMA InitIInv ==
    ASSUME Init
    PROVE  IInv
  <1> USE DEF Init
  <1>1. \A l \in Leases : ~Busy(l) /\ ~Writing(l)
    BY DEF Busy, Writing
  <1>2. Shapes
    <2>1. NoJob \in Jobs
      BY DEF Jobs, NoJob, Stems
    <2>2. IsFiniteSet({})
      BY FS_EmptySet
    <2> QED BY <2>1, <2>2 DEF Shapes, Labels
  <1>3. WritesApart /\ OwnFiles /\ StemsFree /\ NothingWhileDown
    BY <1>1 DEF WritesApart, OwnFiles, StemsFree, NothingWhileDown
  <1>4. QuotaCharged
    <2>1. Charged = {} /\ Stale = {}
      BY <1>1, IdleCharge
    <2>2. BytesOf({}) = 0 /\ TmpBytes({}) = 0
      BY SumEmpty DEF BytesOf, TmpBytes
    <2> QED BY <2>1, <2>2, FS_EmptySet, StoreAssumption DEF QuotaCharged
  <1>5. NoStaleTmp /\ QuarantinedIsKept
    BY DEF NoStaleTmp, QuarantinedIsKept
  <1> QED BY <1>2, <1>3, <1>4, <1>5 DEF IInv

(* Every step of the store keeps the invariant. *)
LEMMA StoreStep ==
    ASSUME IInv, [Next]_vars
    PROVE  IInv'
  <1>1. ASSUME NEW l \in Leases, LeaseStep(l) PROVE IInv'
    <2>1. Shapes'
      BY <1>1, ShapesStep DEF IInv
    <2>2. WritesApart' /\ OwnFiles' /\ StemsFree'
      BY <1>1, WritesApartStep, OwnFilesStep, StemsFreeStep
    <2>3. up /\ NothingWhileDown'
      BY <1>1, RunningStep
    <2>4. QuotaCharged' /\ NoStaleTmp' /\ QuarantinedIsKept'
      BY <1>1, <2>3, QuotaStep, NoStaleTmpStep, KeptStep
    <2> QED BY <2>1, <2>2, <2>3, <2>4 DEF IInv
  <1>2. CASE Crash
    BY <1>2, CrashStep
  <1>3. CASE Restart
    BY <1>3, RestartStep
  <1>4. CASE UNCHANGED vars
    BY <1>4 DEF vars, IInv, Shapes, WritesApart, OwnFiles, StemsFree, NothingWhileDown, QuotaCharged,
                NoStaleTmp, QuarantinedIsKept, Busy, Writing, FileOf, TmpOf, Current, Owed, Charged,
                Stale, BytesOf, TmpBytes
  <1> QED BY <1>1, <1>2, <1>3, <1>4 DEF Next, LeaseStep

-----------------------------------------------------------------------------

(* The store's inductive invariant holds in every run of quarantines, failures of   *)
(* the file system, crashes and restarts.                                           *)
THEOREM StoreInvariant == Spec => []IInv
  BY InitIInv, StoreStep, PTL DEF Spec

(* reserve_bytes and what gives bytes back keep max_dead_letter_bytes a bound of     *)
(* what is on disk, and current_bytes exact whenever no quarantine is under way.     *)
THEOREM QuotaIsExact == Spec => []UsageExact
  <1>1. ASSUME IInv PROVE UsageExact
    <2>1. /\ Shapes /\ QuotaCharged /\ MaxBytes \in Nat /\ current \in Int
          /\ BytesOf(files) \in Nat /\ TmpBytes(tmps) \in Nat
      BY <1>1, BytesType, TmpBytesType, StoreAssumption DEF IInv, Shapes
    <2>2. BytesOf(files) + TmpBytes(tmps) <= MaxBytes
      BY <1>1, <2>1, DiskWithinQuota DEF QuotaCharged
    <2>3. ASSUME up, \A l \in Leases : pc[l] = "idle"
          PROVE  current = BytesOf(files) + TmpBytes(tmps)
      BY <2>1, <2>3, IdleCharge DEF QuotaCharged, Busy
    <2> QED BY <2>2, <2>3 DEF UsageExact
  <1> QED BY <1>1, StoreInvariant, PTL

(* A temporary file is the one its quarantine is writing, or was left by a crash and *)
(* carries the pid of the running process between underscores, as its writer's, as a *)
(* sequence number or as a time: is_stale_tmp_file removes all others.               *)
THEOREM StaleTmpsGone == Spec => []NoStaleTmp
  BY StoreInvariant, PTL DEF IInv

(* What write_quarantine has reported stays, with its batches under its manifest:    *)
(* the names persist_pair chooses are never those of a pair on disk.                 *)
THEOREM ReportedStays == Spec => []QuarantinedIsKept
  BY StoreInvariant, PTL DEF IInv

(* Every file takes bytes: a quarantine under way has a size. *)
Sized ==
    /\ \A l \in Leases : Busy(l) => job[l].size \in Sizes
    /\ \A f \in files : f.bytes # 0
    /\ \A t \in tmps : t.file.bytes # 0
    /\ ~up => current >= 0

(* What is charged is not negative. *)
LEMMA ChargeIsNatural ==
    ASSUME IInv, up
    PROVE  current >= 0
  <1>1. /\ Shapes /\ IsFiniteSet(Charged)
        /\ current = BytesOf(Charged) + TmpBytes(Stale)
    BY DEF IInv, QuotaCharged
  <1>2. Charged \in SUBSET Files /\ Stale \in SUBSET [file : Files, pid : Pids] /\ IsFiniteSet(Stale)
    BY <1>1, ChargedType, FS_Subset DEF Stale, Shapes
  <1>3. BytesOf(Charged) \in Nat /\ TmpBytes(Stale) \in Nat
    BY <1>1, <1>2, BytesType, TmpBytesType
  <1> QED BY <1>1, <1>3

(* Reserving, writing and giving back keep sizes, and current_bytes is not negative. *)
LEMMA SizedStep ==
    ASSUME IInv, Sized, [Next]_vars
    PROVE  Sized'
  <1>0. Shapes
    BY DEF IInv
  <1>2. ASSUME NEW l \in Leases, LeaseStep(l) PROVE Sized'
    <2>1. up' = up /\ up /\ \A m \in Leases \ {l} : pc'[m] = pc[m] /\ job'[m] = job[m]
      BY <1>0, <1>2, LeaseFrame, RunningStep
    <2>2. Busy(l)' => job'[l].size \in Sizes
      <3>1. job[l] \in Jobs
        BY <1>0 DEF Shapes
      <3>2. CASE Begin(l)
        BY <1>0, <3>2 DEF Begin, Shapes, NoJob
      <3>3. CASE ~Begin(l)
        <4>1. Busy(l)' => Busy(l) /\ job'[l].size = job[l].size
          BY <1>0, <1>2, <3>1, <3>3 DEF LeaseStep, Reserve, Name, WriteTmp, Rename, WriteFails, Undo,
                                        Goto, Busy, Writing, Shapes, Jobs
        <4> QED BY <4>1 DEF Sized
      <3> QED BY <3>2, <3>3
    <2>3. Writing(l) => FileOf(l, Current(l)).bytes # 0 /\ TmpOf(l).file = FileOf(l, Current(l))
      <3> SUFFICES ASSUME Writing(l) PROVE FileOf(l, Current(l)).bytes # 0
        BY DEF TmpOf
      <3>1. job[l].size \in Sizes
        BY DEF Sized, Writing, Busy
      <3>2. job[l].size.arrow # 0 /\ job[l].size.json # 0
        BY <3>1, StoreAssumption
      <3> QED BY <3>2 DEF FileOf, Current
    <2>4. \A f \in files' : f.bytes # 0
      BY <1>2, <2>3, DiskFrame DEF Sized
    <2>5. \A t \in tmps' : t.file.bytes # 0
      BY <1>2, <2>3, DiskFrame DEF Sized
    <2> QED BY <2>1, <2>2, <2>4, <2>5 DEF Sized, Busy
  <1>3. CASE Crash
    BY <1>3, ChargeIsNatural DEF Crash, Sized, Busy
  <1>4. CASE Restart
    BY <1>4 DEF Restart, SparedTmps, Sized, Busy
  <1>5. CASE UNCHANGED vars
    BY <1>5 DEF vars, Sized, Busy
  <1> QED BY <1>2, <1>3, <1>4, <1>5 DEF Next, LeaseStep

(* The counters and files keep their types, and current_bytes its bound.             *)
THEOREM StoreTypes == Spec => []TypeOK
  <1>1. ASSUME Init PROVE Sized
    BY <1>1 DEF Init, Sized, Busy
  <1>2. Spec => []Sized
    BY <1>1, SizedStep, StoreInvariant, PTL DEF Spec
  <1>3. ASSUME IInv, Sized PROVE TypeOK
    <2>1. \A f \in files \union {t.file : t \in tmps} : f \in Files /\ f.bytes # 0
      BY <1>3 DEF IInv, Shapes, Sized
    <2>2. \A f \in files \union {t.file : t \in tmps} :
             f.ext \in {"arrow", "json"} /\ f.bytes \in Nat \ {0}
      BY <2>1 DEF Files, Exts
    <2>3. current \in 0..MaxBytes /\ fileSeq \in Nat \ {0}
      BY <1>3, ChargeIsNatural, StoreAssumption DEF IInv, Shapes, Sized, QuotaCharged, StemsFree
    <2> QED BY <1>3, <2>2, <2>3 DEF TypeOK, IInv, Shapes, Labels
  <1> QED BY <1>2, <1>3, StoreInvariant, PTL

=============================================================================
