------------------------- MODULE RunLifecycleProofs -------------------------
(***************************************************************************)
(* Proofs about the run lifecycle, for any number of runs, boots, rows and *)
(* crashes.                                                                *)
(***************************************************************************)
EXTENDS RunLifecycle, SequenceTheorems, TLAPS

InSession == kernel \in {"creating", "starting", "open", "closing", "sealing"}
Booted    == InSession \/ kernel = "idle"

\* The open run is the newest file, and how far its log has come.
SessionInv ==
    /\ InSession <=> session # 0
    /\ InSession =>
          /\ session = Len(files)
          /\ atBoot < session
          /\ files[session].parent = parentRunId
          /\ files[session].status = IF kernel = "creating" THEN "NoManifest" ELSE "Running"
          /\ kernel = "creating" => files[session].rows = << >>
          /\ kernel = "starting" => Len(files[session].rows) <= 1
          /\ kernel \in {"open", "closing"} => files[session].rows # << >>
          /\ kernel = "sealing" <=> tailIsRunEnded(files[session])

\* While the sweep runs, what is left of it is exactly the unsealed runs.
SweepInv ==
    /\ kernel = "sweeping" =>
          /\ atBoot = Len(files)
          /\ todo = Crashed
          /\ Listable
          /\ \A i \in todo : parentRunId < i
    /\ Booted => \A i \in 1 .. atBoot : files[i].status \in Sealed

\* Sweeps go in start order, so a recovered run has only sealed runs before it.
OrderInv ==
    \A j \in 1 .. Len(files) : files[j].status \in {"CrashedRecovered", "Quarantined"} =>
        \A i \in 1 .. j - 1 : files[i].status \in Sealed

\* The parent recorded by this kernel is the newest crashed run it found.
ParentInv ==
    parentRunId # 0 /\ kernel \notin {"down", "dead"} =>
        /\ parentRunId <= atBoot
        /\ files[parentRunId].status = "CrashedRecovered"
        /\ \A j \in parentRunId + 1 .. atBoot : files[j].status # "CrashedRecovered"

LineageInv ==
    \A i \in 1 .. Len(files) : files[i].parent # 0 =>
        /\ files[i].parent < i
        /\ files[files[i].parent].status = "CrashedRecovered"

IInv ==
    /\ TypeOK
    /\ WellFormedLog
    /\ StatusMatchesLog
    /\ SessionInv
    /\ SweepInv
    /\ OrderInv
    /\ ParentInv
    /\ LineageInv
-----------------------------------------------------------------------------
Status == Sealed \cup {"NoManifest", "Running"}

\* Files are records with typed fields.
LEMMA FileFields ==
  ASSUME TypeOK, NEW i \in 1 .. Len(files)
  PROVE  /\ files[i] \in File
         /\ files[i].status \in Status
         /\ files[i].rows \in Seq(Row)
         /\ files[i].damage \in {"none", "hash", "undecodable"}
         /\ files[i].parent \in Nat
<1>1. files[i] \in File
  BY ElementOfSeq DEF TypeOK
<1> QED
  BY <1>1 DEF File, Status

LEMMA ReplaceFile ==
  ASSUME NEW fs \in Seq(File), NEW i \in 1 .. Len(fs), NEW f \in File, NEW gs,
         gs = [fs EXCEPT ![i] = f]
  PROVE  /\ gs \in Seq(File)
         /\ Len(gs) = Len(fs)
         /\ \A j \in 1 .. Len(fs) : gs[j] = IF j = i THEN f ELSE fs[j]
  BY ExceptSeq

OnlyStatusSet(fs, i, s, gs) ==
    /\ gs \in Seq(File)
    /\ Len(gs) = Len(fs)
    /\ gs[i].status = s
    /\ \A j \in 1 .. Len(fs) : /\ j # i => gs[j].status = fs[j].status
                               /\ gs[j].rows = fs[j].rows
                               /\ gs[j].damage = fs[j].damage
                               /\ gs[j].parent = fs[j].parent

\* Rewriting one status touches nothing else.
LEMMA SetStatus ==
  ASSUME NEW fs \in Seq(File), NEW i \in 1 .. Len(fs), NEW s \in Status, NEW gs,
         gs = [fs EXCEPT ![i].status = s]
  PROVE  OnlyStatusSet(fs, i, s, gs)
<1> DEFINE new == [fs[i] EXCEPT !.status = s]
<1>1. fs[i] \in File
  BY ElementOfSeq
<1>2. new \in File
  BY <1>1, Zenon DEF File, Status
<1>3. gs = [fs EXCEPT ![i] = new]
  OBVIOUS
<1>4. /\ new.status = s
      /\ new.rows = fs[i].rows
      /\ new.damage = fs[i].damage
      /\ new.parent = fs[i].parent
  BY <1>1 DEF File
<1> HIDE DEF new
<1>5. /\ gs \in Seq(File)
      /\ Len(gs) = Len(fs)
      /\ \A j \in 1 .. Len(fs) : gs[j] = IF j = i THEN new ELSE fs[j]
  BY ONLY fs \in Seq(File), i \in 1 .. Len(fs), <1>2, <1>3, ReplaceFile
<1> QED
  BY <1>4, <1>5 DEF OnlyStatusSet

OnlyRowsSet(fs, i, r, gs) ==
    /\ gs \in Seq(File)
    /\ Len(gs) = Len(fs)
    /\ gs[i].rows = r
    /\ \A j \in 1 .. Len(fs) : /\ j # i => gs[j].rows = fs[j].rows
                               /\ gs[j].status = fs[j].status
                               /\ gs[j].damage = fs[j].damage
                               /\ gs[j].parent = fs[j].parent

\* Rewriting the rows of one file touches nothing else.
LEMMA SetRows ==
  ASSUME NEW fs \in Seq(File), NEW i \in 1 .. Len(fs), NEW r \in Seq(Row), NEW gs,
         gs = [fs EXCEPT ![i].rows = r]
  PROVE  OnlyRowsSet(fs, i, r, gs)
<1> DEFINE new == [fs[i] EXCEPT !.rows = r]
<1>1. fs[i] \in File
  BY ElementOfSeq
<1>2. new \in File
  BY <1>1, Zenon DEF File
<1>3. gs = [fs EXCEPT ![i] = new]
  OBVIOUS
<1>4. /\ new.rows = r
      /\ new.status = fs[i].status
      /\ new.damage = fs[i].damage
      /\ new.parent = fs[i].parent
  BY <1>1 DEF File
<1> HIDE DEF new
<1>5. /\ gs \in Seq(File)
      /\ Len(gs) = Len(fs)
      /\ \A j \in 1 .. Len(fs) : gs[j] = IF j = i THEN new ELSE fs[j]
  BY ONLY fs \in Seq(File), i \in 1 .. Len(fs), <1>2, <1>3, ReplaceFile
<1> QED
  BY <1>4, <1>5 DEF OnlyRowsSet

OnlyDamageSet(fs, i, d, gs) ==
    /\ gs \in Seq(File)
    /\ Len(gs) = Len(fs)
    /\ gs[i].damage = d
    /\ \A j \in 1 .. Len(fs) : /\ j # i => gs[j].damage = fs[j].damage
                               /\ gs[j].status = fs[j].status
                               /\ gs[j].rows = fs[j].rows
                               /\ gs[j].parent = fs[j].parent

\* Damage touches neither logs nor manifests.
LEMMA SetDamage ==
  ASSUME NEW fs \in Seq(File), NEW i \in 1 .. Len(fs), NEW d \in {"hash", "undecodable"}, NEW gs,
         gs = [fs EXCEPT ![i].damage = d]
  PROVE  OnlyDamageSet(fs, i, d, gs)
<1> DEFINE new == [fs[i] EXCEPT !.damage = d]
<1>1. fs[i] \in File
  BY ElementOfSeq
<1>2. new \in File
  BY <1>1, Zenon DEF File
<1>3. gs = [fs EXCEPT ![i] = new]
  OBVIOUS
<1>4. /\ new.damage = d
      /\ new.status = fs[i].status
      /\ new.rows = fs[i].rows
      /\ new.parent = fs[i].parent
  BY <1>1 DEF File
<1> HIDE DEF new
<1>5. /\ gs \in Seq(File)
      /\ Len(gs) = Len(fs)
      /\ \A j \in 1 .. Len(fs) : gs[j] = IF j = i THEN new ELSE fs[j]
  BY ONLY fs \in Seq(File), i \in 1 .. Len(fs), <1>2, <1>3, ReplaceFile
<1> QED
  BY <1>4, <1>5 DEF OnlyDamageSet

\* Sequences are indexed from 1.
LEMMA Domains ==
  ASSUME TypeOK
  PROVE  /\ Len(files) \in Nat
         /\ DOMAIN files = 1 .. Len(files)
         /\ \A i \in 1 .. Len(files) : /\ Len(files[i].rows) \in Nat
                                       /\ DOMAIN files[i].rows = 1 .. Len(files[i].rows)
<1>1. files \in Seq(File)
  BY DEF TypeOK
<1>2. ASSUME NEW i \in 1 .. Len(files)
      PROVE  /\ Len(files[i].rows) \in Nat
             /\ DOMAIN files[i].rows = 1 .. Len(files[i].rows)
  BY FileFields, LenProperties
<1> QED
  BY <1>1, <1>2
-----------------------------------------------------------------------------
(* The invariant is inductive                                              *)

LEMMA InitIInv == Init => IInv
<1> SUFFICES ASSUME Init
             PROVE  IInv
  OBVIOUS
<1>1. files = << >> /\ Len(files) = 0 /\ files \in Seq(File) /\ DOMAIN files = {}
  BY DEF Init
<1>2. TypeOK
  <2>1. halt \in BOOLEAN
    BY Zenon DEF Init
  <2> QED
    BY <1>1, <2>1 DEF Init, TypeOK
<1>3. SessionInv /\ SweepInv /\ ParentInv
  BY <1>1 DEF Init, SessionInv, SweepInv, ParentInv, InSession, Booted
<1>4. WellFormedLog /\ StatusMatchesLog /\ OrderInv /\ LineageInv
  BY <1>1 DEF WellFormedLog, StatusMatchesLog, OrderInv, LineageInv
<1> QED
  BY <1>2, <1>3, <1>4 DEF IInv

\* A step that leaves the files alone keeps what is said of the files alone.
LEMMA FilesFrame ==
  ASSUME IInv, UNCHANGED files
  PROVE  WellFormedLog' /\ StatusMatchesLog' /\ OrderInv' /\ LineageInv'
  BY DEF IInv, WellFormedLog, StatusMatchesLog, OrderInv, LineageInv, tailIsRunEnded, last

LEMMA BootIInv ==
  ASSUME IInv, Boot
  PROVE  IInv'
<1>1. UNCHANGED files /\ Len(files) \in Nat /\ DOMAIN files = 1 .. Len(files)
  BY Domains DEF Boot, IInv
<1>2. TypeOK'
  <2>1. /\ kernel' \in {"sweeping", "dead"}
        /\ todo' \subseteq 1 .. Len(files)
        /\ bootError' \in {"none", "manifest"}
    BY <1>1 DEF Boot, Crashed
  <2>2. boots' \in Nat /\ atBoot' = Len(files) /\ parentRunId' = 0 /\ session' = 0
    BY DEF Boot, IInv, TypeOK
  <2>3. halt' \in BOOLEAN
    BY Zenon DEF Boot
  <2> QED
    BY <1>1, <2>1, <2>2, <2>3 DEF IInv, TypeOK
<1>3. SessionInv'
  BY DEF Boot, SessionInv, InSession
<1>4. SweepInv'
  <2>1. kernel' \in {"sweeping", "dead"}
    BY DEF Boot
  <2>2. CASE kernel' = "dead"
    BY <2>2 DEF SweepInv, Booted, InSession
  <2>3. CASE kernel' = "sweeping"
    <3>1. Listable' /\ todo' = Crashed' /\ atBoot' = Len(files')
      BY <1>1, <2>3 DEF Boot, Listable, Crashed
    <3>2. \A i \in todo' : parentRunId' < i
      BY <1>1 DEF Boot, Crashed
    <3> QED
      BY <2>3, <3>1, <3>2 DEF SweepInv, Booted, InSession
  <2> QED
    BY <2>1, <2>2, <2>3
<1>5. ParentInv'
  BY DEF Boot, ParentInv
<1> QED
  BY <1>1, <1>2, <1>3, <1>4, <1>5, FilesFrame DEF IInv

LEMMA SweepUndecodableIInv ==
  ASSUME IInv, NEW i \in todo, SweepUndecodable(i)
  PROVE  IInv'
<1>1. UNCHANGED <<files, atBoot, parentRunId>> /\ Len(files) \in Nat
  BY Domains DEF SweepUndecodable, IInv
<1>2. TypeOK'
  BY <1>1 DEF SweepUndecodable, IInv, TypeOK
<1>3. SessionInv'
  BY <1>1 DEF SweepUndecodable, IInv, SessionInv, InSession, tailIsRunEnded, last
<1>4. SweepInv'
  BY <1>1 DEF SweepUndecodable, IInv, SweepInv, Booted, InSession
<1>5. ParentInv'
  BY <1>1 DEF SweepUndecodable, IInv, ParentInv
<1> QED
  BY <1>1, <1>2, <1>3, <1>4, <1>5, FilesFrame DEF IInv

LEMMA SweepDiskFailsIInv ==
  ASSUME IInv, SweepDiskFails
  PROVE  IInv'
<1>1. UNCHANGED <<files, atBoot, parentRunId>> /\ Len(files) \in Nat
  BY Domains DEF SweepDiskFails, IInv
<1>2. TypeOK'
  BY <1>1 DEF SweepDiskFails, IInv, TypeOK
<1>3. SessionInv'
  BY <1>1 DEF SweepDiskFails, IInv, SessionInv, InSession, tailIsRunEnded, last
<1>4. SweepInv'
  BY <1>1 DEF SweepDiskFails, IInv, SweepInv, Booted, InSession
<1>5. ParentInv'
  BY <1>1 DEF SweepDiskFails, IInv, ParentInv
<1> QED
  BY <1>1, <1>2, <1>3, <1>4, <1>5, FilesFrame DEF IInv

LEMMA OpenFailsIInv ==
  ASSUME IInv, OpenFails
  PROVE  IInv'
<1>1. UNCHANGED <<files, atBoot, parentRunId>> /\ Len(files) \in Nat
  BY Domains DEF OpenFails, IInv
<1>2. TypeOK'
  BY <1>1 DEF OpenFails, IInv, TypeOK
<1>3. SessionInv'
  BY <1>1 DEF OpenFails, IInv, SessionInv, InSession, tailIsRunEnded, last
<1>4. SweepInv'
  BY <1>1 DEF OpenFails, IInv, SweepInv, Booted, InSession
<1>5. ParentInv'
  BY <1>1 DEF OpenFails, IInv, ParentInv
<1> QED
  BY <1>1, <1>2, <1>3, <1>4, <1>5, FilesFrame DEF IInv

LEMMA StartedIInv ==
  ASSUME IInv, Started
  PROVE  IInv'
<1>1. UNCHANGED <<files, atBoot, parentRunId>> /\ Len(files) \in Nat
  BY Domains DEF Started, IInv
<1>2. TypeOK'
  BY <1>1 DEF Started, IInv, TypeOK
<1>3. SessionInv'
  BY <1>1 DEF Started, IInv, SessionInv, InSession, tailIsRunEnded, last
<1>4. SweepInv'
  BY <1>1 DEF Started, IInv, SweepInv, Booted, InSession
<1>5. ParentInv'
  BY <1>1 DEF Started, IInv, ParentInv
<1> QED
  BY <1>1, <1>2, <1>3, <1>4, <1>5, FilesFrame DEF IInv

LEMMA StartFailsIInv ==
  ASSUME IInv, StartFails
  PROVE  IInv'
<1>1. UNCHANGED <<files, atBoot, parentRunId>> /\ Len(files) \in Nat
  BY Domains DEF StartFails, IInv
<1>2. TypeOK'
  BY <1>1 DEF StartFails, IInv, TypeOK
<1>3. SessionInv'
  BY <1>1 DEF StartFails, IInv, SessionInv, InSession, tailIsRunEnded, last
<1>4. SweepInv'
  BY <1>1 DEF StartFails, IInv, SweepInv, Booted, InSession
<1>5. ParentInv'
  BY <1>1 DEF StartFails, IInv, ParentInv
<1> QED
  BY <1>1, <1>2, <1>3, <1>4, <1>5, FilesFrame DEF IInv

LEMMA HaltIInv ==
  ASSUME IInv, Halt
  PROVE  IInv'
<1>1. UNCHANGED <<files, atBoot, parentRunId>> /\ Len(files) \in Nat
  BY Domains DEF Halt, IInv
<1>2. TypeOK'
  BY <1>1 DEF Halt, IInv, TypeOK
<1>3. SessionInv'
  BY <1>1 DEF Halt, IInv, SessionInv, InSession, tailIsRunEnded, last
<1>4. SweepInv'
  BY <1>1 DEF Halt, IInv, SweepInv, Booted, InSession
<1>5. ParentInv'
  BY <1>1 DEF Halt, IInv, ParentInv
<1> QED
  BY <1>1, <1>2, <1>3, <1>4, <1>5, FilesFrame DEF IInv

LEMMA SealStartIInv ==
  ASSUME IInv, SealStart
  PROVE  IInv'
<1>1. UNCHANGED <<files, atBoot, parentRunId>> /\ Len(files) \in Nat
  BY Domains DEF SealStart, IInv
<1>2. TypeOK'
  BY <1>1 DEF SealStart, IInv, TypeOK
<1>3. SessionInv'
  BY <1>1 DEF SealStart, IInv, SessionInv, InSession, tailIsRunEnded, last
<1>4. SweepInv'
  BY <1>1 DEF SealStart, IInv, SweepInv, Booted, InSession
<1>5. ParentInv'
  BY <1>1 DEF SealStart, IInv, ParentInv
<1> QED
  BY <1>1, <1>2, <1>3, <1>4, <1>5, FilesFrame DEF IInv

LEMMA SealSkipsIInv ==
  ASSUME IInv, SealSkips
  PROVE  IInv'
<1>1. UNCHANGED <<files, atBoot, parentRunId>> /\ Len(files) \in Nat
  BY Domains DEF SealSkips, IInv
<1>2. TypeOK'
  BY <1>1 DEF SealSkips, IInv, TypeOK
<1>3. SessionInv'
  BY <1>1 DEF SealSkips, IInv, SessionInv, InSession, tailIsRunEnded, last
<1>4. SweepInv'
  BY <1>1 DEF SealSkips, IInv, SweepInv, Booted, InSession
<1>5. ParentInv'
  BY <1>1 DEF SealSkips, IInv, ParentInv
<1> QED
  BY <1>1, <1>2, <1>3, <1>4, <1>5, FilesFrame DEF IInv

LEMMA CloseFailsIInv ==
  ASSUME IInv, CloseFails
  PROVE  IInv'
<1>1. UNCHANGED <<files, atBoot, parentRunId>> /\ Len(files) \in Nat
  BY Domains DEF CloseFails, IInv
<1>2. TypeOK'
  <2>1. halt' \in BOOLEAN
    BY Zenon DEF CloseFails
  <2> QED
    BY <1>1, <2>1 DEF CloseFails, IInv, TypeOK
<1>3. SessionInv'
  BY <1>1 DEF CloseFails, IInv, SessionInv, InSession, tailIsRunEnded, last
<1>4. SweepInv'
  BY <1>1 DEF CloseFails, IInv, SweepInv, Booted, InSession
<1>5. ParentInv'
  BY <1>1 DEF CloseFails, IInv, ParentInv
<1> QED
  BY <1>1, <1>2, <1>3, <1>4, <1>5, FilesFrame DEF IInv

LEMMA CrashIInv ==
  ASSUME IInv, Crash
  PROVE  IInv'
<1>1. UNCHANGED <<files, atBoot, parentRunId>> /\ Len(files) \in Nat
  BY Domains DEF Crash, IInv
<1>2. TypeOK'
  BY <1>1 DEF Crash, IInv, TypeOK
<1>3. SessionInv'
  BY <1>1 DEF Crash, IInv, SessionInv, InSession, tailIsRunEnded, last
<1>4. SweepInv'
  BY <1>1 DEF Crash, IInv, SweepInv, Booted, InSession
<1>5. ParentInv'
  BY <1>1 DEF Crash, IInv, ParentInv
<1> QED
  BY <1>1, <1>2, <1>3, <1>4, <1>5, FilesFrame DEF IInv

\* Sealing the oldest unsealed run: everything before it is sealed already.
LEMMA SweepOneIInv ==
  ASSUME IInv, NEW i \in todo, SweepOne(i)
  PROVE  IInv'
<1> DEFINE s == FinalStatus(files[i])
<1>1. /\ i \in 1 .. Len(files)
      /\ Len(files) \in Nat
      /\ files[i].status = "Running"
      /\ atBoot = Len(files)
      /\ todo = Crashed
      /\ Listable
      /\ \A j \in todo : parentRunId < j
      /\ DOMAIN files = 1 .. Len(files)
      /\ kernel = "sweeping"
  BY Domains DEF IInv, SweepInv, SweepOne, Crashed
<1>2. /\ s \in Sealed
      /\ s = "Ended" => tailIsRunEnded(files[i])
      /\ s = "CrashedRecovered" => ~tailIsRunEnded(files[i])
      /\ s = "Quarantined" => files[i].damage # "none"
  BY DEF FinalStatus, Sealed
<1>3. /\ files' = [files EXCEPT ![i].status = s]
      /\ parentRunId' = IF s = "CrashedRecovered" THEN i ELSE parentRunId
      /\ todo' = todo \ {i}
      /\ UNCHANGED <<kernel, boots, atBoot, session, halt, bootError>>
  BY DEF SweepOne
<1> HIDE DEF s
<1>4. /\ files' \in Seq(File)
      /\ Len(files') = Len(files)
      /\ files'[i].status = s
      /\ \A j \in 1 .. Len(files) : /\ j # i => files'[j].status = files[j].status
                                    /\ files'[j].rows = files[j].rows
                                    /\ files'[j].damage = files[j].damage
                                    /\ files'[j].parent = files[j].parent
  <2>1. files \in Seq(File) /\ s \in Status
    BY <1>2 DEF IInv, TypeOK, Status
  <2>2. i \in 1 .. Len(files)
    BY <1>1
  <2>3. files' = [files EXCEPT ![i].status = s]
    BY <1>3
  <2>4. OnlyStatusSet(files, i, s, files')
    BY ONLY <2>1, <2>2, <2>3, SetStatus, Zenon
  <2> QED
    BY ONLY <2>4 DEF OnlyStatusSet
<1>5. DOMAIN files' = 1 .. Len(files)
  BY <1>4
<1>6. \A j \in 1 .. i - 1 : files[j].status \in Sealed
  <2> SUFFICES ASSUME NEW j \in 1 .. i - 1
               PROVE  files[j].status \in Sealed
    OBVIOUS
  <2>1. j \in 1 .. Len(files) /\ ~(i <= j)
    BY <1>1
  <2>2. files[j].status # "Running"
    BY <1>1, <2>1 DEF SweepOne, NextInSweep, Crashed
  <2>3. files[j].status # "NoManifest"
    BY <1>1, <2>1 DEF Listable
  <2> QED
    BY <2>1, <2>2, <2>3, FileFields DEF IInv, Status
<1>7. TypeOK'
  BY <1>1, <1>3, <1>4 DEF IInv, TypeOK
<1>8. WellFormedLog'
  <2> SUFFICES ASSUME NEW j \in 1 .. Len(files), NEW k \in DOMAIN files'[j].rows
               PROVE  /\ files'[j].rows[k] = "RunStarted" <=> k = 1
                      /\ files'[j].rows[k] = "RunEnded" => k = Len(files'[j].rows)
    BY <1>5 DEF WellFormedLog
  <2> QED
    BY <1>1, <1>4 DEF IInv, WellFormedLog
<1>9. StatusMatchesLog'
  <2> SUFFICES ASSUME NEW j \in 1 .. Len(files)
               PROVE  /\ files'[j].status = "Ended" => tailIsRunEnded(files'[j])
                      /\ files'[j].status = "CrashedRecovered" => ~tailIsRunEnded(files'[j])
                      /\ files'[j].status = "Quarantined" => files'[j].damage # "none"
    BY <1>5 DEF StatusMatchesLog
  <2>1. tailIsRunEnded(files'[j]) <=> tailIsRunEnded(files[j])
    BY <1>4 DEF tailIsRunEnded, last
  <2>2. CASE j = i
    BY <1>2, <1>4, <2>1, <2>2
  <2>3. CASE j # i
    BY <1>1, <1>4, <2>1, <2>3 DEF IInv, StatusMatchesLog
  <2> QED
    BY <2>2, <2>3
<1>10. SessionInv'
  BY <1>1, <1>3 DEF IInv, SessionInv, InSession
<1>11. SweepInv'
  <2>1. todo' = Crashed'
    <3>1. Crashed' = {j \in 1 .. Len(files) : files'[j].status = "Running"}
      BY <1>5 DEF Crashed
    <3>2. Crashed = {j \in 1 .. Len(files) : files[j].status = "Running"}
      BY <1>1 DEF Crashed
    <3>3. s # "Running"
      BY <1>2 DEF Sealed
    <3> QED
      BY <1>1, <1>3, <1>4, <3>1, <3>2, <3>3
  <2>2. Listable'
    <3> SUFFICES ASSUME NEW j \in 1 .. Len(files)
                 PROVE  files'[j].status # "NoManifest"
      BY <1>5 DEF Listable
    <3> QED
      BY <1>1, <1>2, <1>4 DEF Listable, Sealed
  <2>3. \A j \in todo' : parentRunId' < j
    <3> SUFFICES ASSUME NEW j \in todo'
                 PROVE  parentRunId' < j
      OBVIOUS
    <3>1. j \in todo /\ j # i /\ i <= j /\ j \in 1 .. Len(files)
      BY <1>1, <1>3 DEF SweepOne, NextInSweep, Crashed
    <3> QED
      BY <1>1, <1>3, <3>1
  <2> QED
    BY <1>1, <1>3, <1>4, <2>1, <2>2, <2>3 DEF SweepInv, Booted, InSession
<1>12. OrderInv'
  <2> SUFFICES ASSUME NEW j \in 1 .. Len(files), NEW k \in 1 .. j - 1,
                      files'[j].status \in {"CrashedRecovered", "Quarantined"}
               PROVE  files'[k].status \in Sealed
    BY <1>4 DEF OrderInv
  <2>0. k \in 1 .. Len(files)
    BY <1>1
  <2>1. CASE k = i
    BY <1>2, <1>4, <2>1
  <2>2. CASE k # i /\ j = i
    BY <1>4, <1>6, <2>0, <2>2
  <2>3. CASE k # i /\ j # i
    BY <1>4, <2>0, <2>3 DEF IInv, OrderInv
  <2> QED
    BY <2>1, <2>2, <2>3
<1>13. ParentInv'
  <2>1. CASE s = "CrashedRecovered"
    <3>1. ASSUME NEW j \in i + 1 .. Len(files)
          PROVE  files'[j].status # "CrashedRecovered"
      <4>1. j \in 1 .. Len(files) /\ i \in 1 .. j - 1
        BY <1>1
      <4>2. files[j].status # "CrashedRecovered"
        BY <1>1, <4>1 DEF IInv, OrderInv, Sealed
      <4> QED
        BY <1>1, <1>4, <4>1, <4>2
    <3> QED
      BY <1>1, <1>3, <1>4, <2>1, <3>1 DEF ParentInv
  <2>2. CASE s # "CrashedRecovered"
    <3> SUFFICES ASSUME parentRunId # 0
                 PROVE  /\ parentRunId <= atBoot
                        /\ files'[parentRunId].status = "CrashedRecovered"
                        /\ \A j \in parentRunId + 1 .. atBoot : files'[j].status # "CrashedRecovered"
      BY <1>3, <2>2 DEF ParentInv
    <3>1. /\ parentRunId \in 1 .. Len(files)
          /\ parentRunId <= atBoot
          /\ files[parentRunId].status = "CrashedRecovered"
          /\ \A j \in parentRunId + 1 .. atBoot : files[j].status # "CrashedRecovered"
      BY <1>1 DEF IInv, ParentInv, TypeOK
    <3>2. parentRunId # i
      BY <1>1, <3>1
    <3>3. ASSUME NEW j \in parentRunId + 1 .. atBoot
          PROVE  files'[j].status # "CrashedRecovered"
      <4>1. j \in 1 .. Len(files)
        BY <1>1, <3>1
      <4> QED
        BY <1>4, <2>2, <3>1, <4>1
    <3> QED
      BY <1>4, <3>1, <3>2, <3>3
  <2> QED
    BY <2>1, <2>2
<1>14. LineageInv'
  <2> SUFFICES ASSUME NEW j \in 1 .. Len(files), files'[j].parent # 0
               PROVE  /\ files'[j].parent < j
                      /\ files'[files'[j].parent].status = "CrashedRecovered"
    BY <1>4 DEF LineageInv
  <2>1. files'[j].parent = files[j].parent
    BY <1>4
  <2>2. files[j].parent < j /\ files[files[j].parent].status = "CrashedRecovered"
    BY <2>1 DEF IInv, LineageInv
  <2>3. files[j].parent \in 1 .. Len(files)
    BY <1>1, <2>1, <2>2, FileFields DEF IInv
  <2>4. files[j].parent # i
    BY <1>1, <2>2
  <2> QED
    BY <1>4, <2>1, <2>2, <2>3, <2>4
<1> QED
  BY <1>7, <1>8, <1>9, <1>10, <1>11, <1>12, <1>13, <1>14 DEF IInv

LEMMA SweepDoneIInv ==
  ASSUME IInv, SweepDone
  PROVE  IInv'
<1>1. UNCHANGED <<files, atBoot, todo, parentRunId, session>> /\ Len(files) \in Nat
  BY Domains DEF SweepDone, IInv
<1>2. TypeOK'
  BY <1>1 DEF SweepDone, IInv, TypeOK
<1>3. SessionInv'
  BY <1>1 DEF SweepDone, IInv, SessionInv, InSession
<1>4. SweepInv'
  <2>1. \A i \in 1 .. Len(files) : files[i].status \in Sealed
    BY Domains, FileFields DEF SweepDone, IInv, SweepInv, Crashed, Listable, Status
  <2>2. atBoot = Len(files)
    BY DEF SweepDone, IInv, SweepInv
  <2> QED
    BY <1>1, <2>1, <2>2 DEF SweepDone, SweepInv
<1>5. ParentInv'
  BY <1>1 DEF SweepDone, IInv, ParentInv
<1> QED
  BY <1>1, <1>2, <1>3, <1>4, <1>5, FilesFrame DEF IInv

\* A commit to the open run's log disturbs only what is said of that log.
LEMMA RowsStep ==
  ASSUME IInv, InSession, InSession', kernel # "creating", NEW r \in Seq(Row),
         files' = [files EXCEPT ![session].rows = r],
         UNCHANGED <<atBoot, parentRunId, session>>,
         \A k \in DOMAIN r : /\ r[k] = "RunStarted" <=> k = 1
                             /\ r[k] = "RunEnded" => k = Len(r)
  PROVE  /\ files' \in Seq(File)
         /\ Len(files') = Len(files)
         /\ files'[session].rows = r
         /\ files'[session].status = "Running"
         /\ files'[session].parent = parentRunId
         /\ session = Len(files) /\ atBoot < session /\ session # 0
         /\ WellFormedLog' /\ StatusMatchesLog' /\ SweepInv'
         /\ OrderInv' /\ ParentInv' /\ LineageInv'
<1>1. /\ session \in 1 .. Len(files)
      /\ session = Len(files)
      /\ atBoot < session
      /\ files[session].status = "Running"
      /\ files[session].parent = parentRunId
      /\ files \in Seq(File)
      /\ Len(files) \in Nat
      /\ atBoot \in Nat
      /\ DOMAIN files = 1 .. Len(files)
  <2>1. /\ session \in 1 .. Len(files)
        /\ session = Len(files)
        /\ atBoot < session
        /\ files[session].status = "Running"
        /\ files[session].parent = parentRunId
    BY Domains DEF IInv, TypeOK, SessionInv, InSession
  <2> QED
    BY <2>1, Domains DEF IInv, TypeOK
<1>2. /\ files' \in Seq(File)
      /\ Len(files') = Len(files)
      /\ files'[session].rows = r
      /\ \A j \in 1 .. Len(files) : /\ j # session => files'[j].rows = files[j].rows
                                    /\ files'[j].status = files[j].status
                                    /\ files'[j].damage = files[j].damage
                                    /\ files'[j].parent = files[j].parent
  <2>1. files' = [files EXCEPT ![session].rows = r]
    OBVIOUS
  <2>2. files \in Seq(File) /\ session \in 1 .. Len(files) /\ r \in Seq(Row)
    BY <1>1
  <2>3. OnlyRowsSet(files, session, r, files')
    BY ONLY <2>1, <2>2, SetRows, Zenon
  <2> QED
    BY ONLY <2>3 DEF OnlyRowsSet
<1>3. DOMAIN files' = 1 .. Len(files)
  BY <1>2
<1>4. WellFormedLog'
  <2> SUFFICES ASSUME NEW j \in 1 .. Len(files), NEW k \in DOMAIN files'[j].rows
               PROVE  /\ files'[j].rows[k] = "RunStarted" <=> k = 1
                      /\ files'[j].rows[k] = "RunEnded" => k = Len(files'[j].rows)
    BY <1>3 DEF WellFormedLog
  <2>1. CASE j = session
    BY <1>2, <2>1
  <2>2. CASE j # session
    BY <1>1, <1>2, <2>2 DEF IInv, WellFormedLog
  <2> QED
    BY <2>1, <2>2
<1>5. StatusMatchesLog'
  <2> SUFFICES ASSUME NEW j \in 1 .. Len(files)
               PROVE  /\ files'[j].status = "Ended" => tailIsRunEnded(files'[j])
                      /\ files'[j].status = "CrashedRecovered" => ~tailIsRunEnded(files'[j])
                      /\ files'[j].status = "Quarantined" => files'[j].damage # "none"
    BY <1>3 DEF StatusMatchesLog
  <2>1. CASE j = session
    BY <1>1, <1>2, <2>1
  <2>2. CASE j # session
    <3>1. tailIsRunEnded(files'[j]) <=> tailIsRunEnded(files[j])
      BY <1>2, <2>2 DEF tailIsRunEnded, last
    <3> QED
      BY <1>1, <1>2, <3>1 DEF IInv, StatusMatchesLog
  <2> QED
    BY <2>1, <2>2
<1>6. SweepInv'
  <2>1. \A j \in 1 .. atBoot : files'[j].status \in Sealed
    <3> SUFFICES ASSUME NEW j \in 1 .. atBoot
                 PROVE  files'[j].status \in Sealed
      OBVIOUS
    <3>1. j \in 1 .. Len(files)
      BY <1>1
    <3> QED
      BY <1>2, <3>1 DEF IInv, SweepInv, Booted
  <2> QED
    BY <2>1 DEF SweepInv, InSession
<1>7. OrderInv'
  <2> SUFFICES ASSUME NEW j \in 1 .. Len(files), NEW k \in 1 .. j - 1,
                      files'[j].status \in {"CrashedRecovered", "Quarantined"}
               PROVE  files'[k].status \in Sealed
    BY <1>2 DEF OrderInv
  <2>1. k \in 1 .. Len(files)
    BY <1>1
  <2> QED
    BY <1>2, <2>1 DEF IInv, OrderInv
<1>8. ParentInv'
  <2> SUFFICES ASSUME parentRunId # 0
               PROVE  /\ parentRunId <= atBoot
                      /\ files'[parentRunId].status = "CrashedRecovered"
                      /\ \A j \in parentRunId + 1 .. atBoot : files'[j].status # "CrashedRecovered"
    BY DEF ParentInv
  <2>1. /\ parentRunId \in 1 .. Len(files)
        /\ parentRunId <= atBoot
        /\ files[parentRunId].status = "CrashedRecovered"
        /\ \A j \in parentRunId + 1 .. atBoot : files[j].status # "CrashedRecovered"
    BY <1>1 DEF IInv, ParentInv, TypeOK, InSession
  <2>2. \A j \in parentRunId + 1 .. atBoot : j \in 1 .. Len(files)
    BY <1>1, <2>1
  <2> QED
    BY <1>2, <2>1, <2>2
<1>9. LineageInv'
  <2> SUFFICES ASSUME NEW j \in 1 .. Len(files), files'[j].parent # 0
               PROVE  /\ files'[j].parent < j
                      /\ files'[files'[j].parent].status = "CrashedRecovered"
    BY <1>2 DEF LineageInv
  <2>1. files'[j].parent = files[j].parent
    BY <1>2
  <2>2. files[j].parent < j /\ files[files[j].parent].status = "CrashedRecovered"
    BY <2>1 DEF IInv, LineageInv
  <2>3. files[j].parent \in 1 .. Len(files)
    BY <1>1, <2>1, <2>2, FileFields DEF IInv
  <2> QED
    BY <1>2, <2>1, <2>2, <2>3
<1> QED
  BY <1>1, <1>2, <1>4, <1>5, <1>6, <1>7, <1>8, <1>9

LEMMA CommitRunStartedIInv ==
  ASSUME IInv, CommitRunStarted
  PROVE  IInv'
<1> DEFINE r == <<"RunStarted">>
<1>1. /\ r \in Seq(Row)
      /\ Len(r) = 1
      /\ r[1] = "RunStarted"
      /\ DOMAIN r = {1}
  BY DEF Row
<1>2. /\ files' = [files EXCEPT ![session].rows = r]
      /\ UNCHANGED <<kernel, boots, atBoot, todo, parentRunId, session, halt, bootError>>
      /\ kernel = "starting"
  BY DEF CommitRunStarted
<1> HIDE DEF r
<1>3. InSession /\ InSession'
  BY <1>2 DEF InSession
<1>4. /\ files' \in Seq(File)
      /\ Len(files') = Len(files)
      /\ files'[session].rows = r
      /\ files'[session].status = "Running"
      /\ files'[session].parent = parentRunId
      /\ session = Len(files) /\ atBoot < session /\ session # 0
      /\ WellFormedLog' /\ StatusMatchesLog' /\ SweepInv'
      /\ OrderInv' /\ ParentInv' /\ LineageInv'
  BY <1>1, <1>2, <1>3, RowsStep, Zenon
<1>5. TypeOK'
  BY <1>2, <1>4 DEF IInv, TypeOK
<1>6. SessionInv'
  <2>0. Len(files'[session].rows) = 1 /\ files'[session].rows[1] = "RunStarted"
    BY <1>1, <1>4, Zenon
  <2>1. ~tailIsRunEnded(files'[session])
    BY ONLY <2>0 DEF tailIsRunEnded, last
  <2>2. kernel' = "starting" /\ UNCHANGED <<atBoot, parentRunId, session>>
    BY <1>2
  <2>3. Len(files'[session].rows) <= 1
    BY ONLY <2>0
  <2> QED
    BY <1>3, <1>4, <2>1, <2>2, <2>3 DEF SessionInv
<1> QED
  BY <1>4, <1>5, <1>6 DEF IInv

\* Appending after RunStarted keeps the log well formed, unless it has ended.
LEMMA AppendRow ==
  ASSUME NEW rows \in Seq(Row), rows # << >>, NEW row \in {"entry", "RunEnded"},
         ~(rows[Len(rows)] = "RunEnded"),
         \A k \in DOMAIN rows : /\ rows[k] = "RunStarted" <=> k = 1
                                /\ rows[k] = "RunEnded" => k = Len(rows)
  PROVE  /\ Append(rows, row) \in Seq(Row)
         /\ Append(rows, row) # << >>
         /\ Append(rows, row)[Len(Append(rows, row))] = row
         /\ \A k \in DOMAIN Append(rows, row) :
               /\ Append(rows, row)[k] = "RunStarted" <=> k = 1
               /\ Append(rows, row)[k] = "RunEnded" => k = Len(Append(rows, row))
<1>1. row \in Row
  BY DEF Row
<1>2. Len(rows) \in Nat \ {0} /\ DOMAIN rows = 1 .. Len(rows)
  BY EmptySeq
<1>3. /\ Append(rows, row) \in Seq(Row)
      /\ Append(rows, row) # << >>
      /\ Len(Append(rows, row)) = Len(rows) + 1
      /\ \A i \in 1 .. Len(rows) : Append(rows, row)[i] = rows[i]
      /\ Append(rows, row)[Len(rows) + 1] = row
  BY <1>1, AppendProperties
<1>4. DOMAIN Append(rows, row) = 1 .. Len(rows) + 1
  BY <1>3
<1>5. ASSUME NEW k \in 1 .. Len(rows) + 1
      PROVE  /\ Append(rows, row)[k] = "RunStarted" <=> k = 1
             /\ Append(rows, row)[k] = "RunEnded" => k = Len(rows) + 1
  <2>1. CASE k = Len(rows) + 1
    BY <1>2, <1>3, <2>1
  <2>2. CASE k \in 1 .. Len(rows)
    BY <1>2, <1>3, <2>2
  <2> QED
    BY <1>2, <2>1, <2>2
<1> QED
  BY <1>3, <1>4, <1>5

LEMMA CommitEntryIInv ==
  ASSUME IInv, CommitEntry
  PROVE  IInv'
<1> DEFINE old == files[session].rows
           r == Append(old, "entry")
<1>1. /\ kernel = "open"
      /\ kernel' = "open"
      /\ files' = [files EXCEPT ![session].rows = r]
      /\ UNCHANGED <<boots, atBoot, todo, parentRunId, session, halt, bootError>>
  BY DEF CommitEntry
<1>2. InSession /\ InSession'
  BY <1>1 DEF InSession
<1>3. /\ session \in 1 .. Len(files)
      /\ old \in Seq(Row)
      /\ old # << >>
      /\ ~(old[Len(old)] = "RunEnded")
  <2>1. session \in 1 .. Len(files) /\ old # << >> /\ ~tailIsRunEnded(files[session])
    BY <1>1, <1>2, Domains DEF IInv, TypeOK, SessionInv
  <2> QED
    BY <2>1, FileFields DEF IInv, tailIsRunEnded, last
<1>4. \A k \in DOMAIN old : /\ old[k] = "RunStarted" <=> k = 1
                            /\ old[k] = "RunEnded" => k = Len(old)
  BY <1>3, Domains DEF IInv, WellFormedLog
<1> HIDE DEF old
<1>5. /\ r \in Seq(Row)
      /\ r # << >>
      /\ r[Len(r)] = "entry"
      /\ \A k \in DOMAIN r : /\ r[k] = "RunStarted" <=> k = 1
                             /\ r[k] = "RunEnded" => k = Len(r)
  BY ONLY <1>3, <1>4, AppendRow
<1> HIDE DEF r
<1>6. /\ files' \in Seq(File)
      /\ Len(files') = Len(files)
      /\ files'[session].rows = r
      /\ files'[session].status = "Running"
      /\ files'[session].parent = parentRunId
      /\ session = Len(files) /\ atBoot < session /\ session # 0
      /\ WellFormedLog' /\ StatusMatchesLog' /\ SweepInv'
      /\ OrderInv' /\ ParentInv' /\ LineageInv'
  BY <1>1, <1>2, <1>5, RowsStep, Zenon
<1>7. TypeOK'
  BY <1>1, <1>6 DEF IInv, TypeOK
<1>8. SessionInv'
  <2>1. tailIsRunEnded(files'[session]) <=> kernel' = "sealing"
    BY <1>1, <1>5, <1>6 DEF tailIsRunEnded, last
  <2> QED
    BY <1>1, <1>2, <1>5, <1>6, <2>1 DEF SessionInv
<1> QED
  BY <1>6, <1>7, <1>8 DEF IInv

LEMMA CommitRunEndedIInv ==
  ASSUME IInv, CommitRunEnded
  PROVE  IInv'
<1> DEFINE old == files[session].rows
           r == Append(old, "RunEnded")
<1>1. /\ kernel = "closing"
      /\ kernel' = "sealing"
      /\ files' = [files EXCEPT ![session].rows = r]
      /\ UNCHANGED <<boots, atBoot, todo, parentRunId, session, halt, bootError>>
  BY DEF CommitRunEnded
<1>2. InSession /\ InSession'
  BY <1>1 DEF InSession
<1>3. /\ session \in 1 .. Len(files)
      /\ old \in Seq(Row)
      /\ old # << >>
      /\ ~(old[Len(old)] = "RunEnded")
  <2>1. session \in 1 .. Len(files) /\ old # << >> /\ ~tailIsRunEnded(files[session])
    BY <1>1, <1>2, Domains DEF IInv, TypeOK, SessionInv
  <2> QED
    BY <2>1, FileFields DEF IInv, tailIsRunEnded, last
<1>4. \A k \in DOMAIN old : /\ old[k] = "RunStarted" <=> k = 1
                            /\ old[k] = "RunEnded" => k = Len(old)
  BY <1>3, Domains DEF IInv, WellFormedLog
<1> HIDE DEF old
<1>5. /\ r \in Seq(Row)
      /\ r # << >>
      /\ r[Len(r)] = "RunEnded"
      /\ \A k \in DOMAIN r : /\ r[k] = "RunStarted" <=> k = 1
                             /\ r[k] = "RunEnded" => k = Len(r)
  BY ONLY <1>3, <1>4, AppendRow
<1> HIDE DEF r
<1>6. /\ files' \in Seq(File)
      /\ Len(files') = Len(files)
      /\ files'[session].rows = r
      /\ files'[session].status = "Running"
      /\ files'[session].parent = parentRunId
      /\ session = Len(files) /\ atBoot < session /\ session # 0
      /\ WellFormedLog' /\ StatusMatchesLog' /\ SweepInv'
      /\ OrderInv' /\ ParentInv' /\ LineageInv'
  BY <1>1, <1>2, <1>5, RowsStep, Zenon
<1>7. TypeOK'
  BY <1>1, <1>6 DEF IInv, TypeOK
<1>8. SessionInv'
  <2>1. tailIsRunEnded(files'[session]) <=> kernel' = "sealing"
    BY <1>1, <1>5, <1>6 DEF tailIsRunEnded, last
  <2> QED
    BY <1>1, <1>2, <1>5, <1>6, <2>1 DEF SessionInv
<1> QED
  BY <1>6, <1>7, <1>8 DEF IInv

LEMMA InitializeFreshIInv ==
  ASSUME IInv, InitializeFresh
  PROVE  IInv'
<1>1. /\ kernel = "creating"
      /\ kernel' = "starting"
      /\ files' = [files EXCEPT ![session].status = "Running"]
      /\ session' = session
      /\ UNCHANGED <<boots, atBoot, todo, parentRunId, halt, bootError>>
  BY DEF InitializeFresh
<1>2. /\ session \in 1 .. Len(files)
      /\ session = Len(files)
      /\ atBoot < session
      /\ files[session].status = "NoManifest"
      /\ files[session].parent = parentRunId
      /\ files[session].rows = << >>
      /\ Len(files) \in Nat
      /\ atBoot \in Nat
      /\ DOMAIN files = 1 .. Len(files)
  <2>1. InSession
    BY <1>1 DEF InSession
  <2> QED
    BY <1>1, <2>1, Domains DEF IInv, TypeOK, SessionInv
<1>3. /\ files' \in Seq(File)
      /\ Len(files') = Len(files)
      /\ files'[session].status = "Running"
      /\ \A j \in 1 .. Len(files) : /\ j # session => files'[j].status = files[j].status
                                    /\ files'[j].rows = files[j].rows
                                    /\ files'[j].damage = files[j].damage
                                    /\ files'[j].parent = files[j].parent
  <2>1. files' = [files EXCEPT ![session].status = "Running"]
    BY <1>1
  <2>2. files \in Seq(File) /\ session \in 1 .. Len(files) /\ "Running" \in Status
    BY <1>2 DEF IInv, TypeOK, Status, Sealed
  <2>3. OnlyStatusSet(files, session, "Running", files')
    BY ONLY <2>1, <2>2, SetStatus, Zenon
  <2> QED
    BY ONLY <2>3 DEF OnlyStatusSet
<1>4. DOMAIN files' = 1 .. Len(files)
  BY <1>3
<1>5. \A j \in 1 .. Len(files) : tailIsRunEnded(files'[j]) <=> tailIsRunEnded(files[j])
  BY <1>3 DEF tailIsRunEnded, last
<1>6. /\ kernel = "creating" /\ kernel' = "starting"
      /\ UNCHANGED <<atBoot, parentRunId>>
      /\ session' = session
  BY <1>1
<1>7. TypeOK'
  BY <1>1, <1>2, <1>3 DEF IInv, TypeOK
<1>8. WellFormedLog'
  <2> SUFFICES ASSUME NEW j \in 1 .. Len(files), NEW k \in DOMAIN files'[j].rows
               PROVE  /\ files'[j].rows[k] = "RunStarted" <=> k = 1
                      /\ files'[j].rows[k] = "RunEnded" => k = Len(files'[j].rows)
    BY <1>4 DEF WellFormedLog
  <2> QED
    BY <1>2, <1>3 DEF IInv, WellFormedLog
<1>9. StatusMatchesLog'
  <2> SUFFICES ASSUME NEW j \in 1 .. Len(files)
               PROVE  /\ files'[j].status = "Ended" => tailIsRunEnded(files'[j])
                      /\ files'[j].status = "CrashedRecovered" => ~tailIsRunEnded(files'[j])
                      /\ files'[j].status = "Quarantined" => files'[j].damage # "none"
    BY <1>4 DEF StatusMatchesLog
  <2>1. CASE j = session
    BY <1>2, <1>3, <1>5, <2>1
  <2>2. CASE j # session
    BY <1>2, <1>3, <1>5, <2>2 DEF IInv, StatusMatchesLog
  <2> QED
    BY <2>1, <2>2
<1>10. SessionInv'
  <2>1. InSession' /\ session # 0
    BY <1>2, <1>6 DEF InSession
  <2>2. files'[session].rows = << >> /\ files'[session].parent = parentRunId
    BY <1>2, <1>3
  <2>3. ~tailIsRunEnded(files'[session])
    BY <2>2 DEF tailIsRunEnded
  <2>4. Len(files'[session].rows) <= 1
    BY <2>2
  <2> QED
    BY <1>2, <1>3, <1>6, <2>1, <2>2, <2>3, <2>4 DEF SessionInv
<1>11. SweepInv'
  <2>1. \A j \in 1 .. atBoot : files'[j].status \in Sealed
    <3> SUFFICES ASSUME NEW j \in 1 .. atBoot
                 PROVE  files'[j].status \in Sealed
      OBVIOUS
    <3>1. j \in 1 .. Len(files) /\ j # session
      BY <1>2
    <3> QED
      BY <1>3, <1>6, <3>1 DEF IInv, SweepInv, Booted, InSession
  <2> QED
    BY <1>6, <2>1 DEF SweepInv, InSession
<1>12. OrderInv'
  <2> SUFFICES ASSUME NEW j \in 1 .. Len(files), NEW k \in 1 .. j - 1,
                      files'[j].status \in {"CrashedRecovered", "Quarantined"}
               PROVE  files'[k].status \in Sealed
    BY <1>3 DEF OrderInv
  <2>1. k \in 1 .. Len(files) /\ j # session /\ k # session
    BY <1>2, <1>3
  <2> QED
    BY <1>3, <2>1 DEF IInv, OrderInv
<1>13. ParentInv'
  <2> SUFFICES ASSUME parentRunId # 0
               PROVE  /\ parentRunId <= atBoot
                      /\ files'[parentRunId].status = "CrashedRecovered"
                      /\ \A j \in parentRunId + 1 .. atBoot : files'[j].status # "CrashedRecovered"
    BY <1>6 DEF ParentInv
  <2>1. /\ parentRunId \in 1 .. Len(files)
        /\ parentRunId <= atBoot
        /\ files[parentRunId].status = "CrashedRecovered"
        /\ \A j \in parentRunId + 1 .. atBoot : files[j].status # "CrashedRecovered"
    BY <1>2, <1>6 DEF IInv, ParentInv, TypeOK
  <2>2. \A j \in parentRunId + 1 .. atBoot : j \in 1 .. Len(files) /\ j # session
    BY <1>2, <2>1
  <2> QED
    BY <1>2, <1>3, <2>1, <2>2
<1>14. LineageInv'
  <2> SUFFICES ASSUME NEW j \in 1 .. Len(files), files'[j].parent # 0
               PROVE  /\ files'[j].parent < j
                      /\ files'[files'[j].parent].status = "CrashedRecovered"
    BY <1>3 DEF LineageInv
  <2>1. files'[j].parent = files[j].parent
    BY <1>3
  <2>2. files[j].parent < j /\ files[files[j].parent].status = "CrashedRecovered"
    BY <2>1 DEF IInv, LineageInv
  <2>3. files[j].parent \in 1 .. Len(files) /\ files[j].parent # session
    BY <1>2, <2>1, <2>2, FileFields DEF IInv
  <2> QED
    BY <1>3, <2>1, <2>2, <2>3
<1> QED
  BY <1>7, <1>8, <1>9, <1>10, <1>11, <1>12, <1>13, <1>14 DEF IInv

LEMMA SealManifestIInv ==
  ASSUME IInv, SealManifest
  PROVE  IInv'
<1>1. /\ kernel = "sealing"
      /\ kernel' = "idle"
      /\ files' = [files EXCEPT ![session].status = "Ended"]
      /\ session' = 0
      /\ UNCHANGED <<boots, atBoot, todo, parentRunId, halt, bootError>>
  BY DEF SealManifest
<1>2. /\ session \in 1 .. Len(files)
      /\ session = Len(files)
      /\ atBoot < session
      /\ files[session].status = "Running"
      /\ files[session].parent = parentRunId
      /\ tailIsRunEnded(files[session])
      /\ Len(files) \in Nat
      /\ atBoot \in Nat
      /\ DOMAIN files = 1 .. Len(files)
  <2>1. InSession
    BY <1>1 DEF InSession
  <2> QED
    BY <1>1, <2>1, Domains DEF IInv, TypeOK, SessionInv
<1>3. /\ files' \in Seq(File)
      /\ Len(files') = Len(files)
      /\ files'[session].status = "Ended"
      /\ \A j \in 1 .. Len(files) : /\ j # session => files'[j].status = files[j].status
                                    /\ files'[j].rows = files[j].rows
                                    /\ files'[j].damage = files[j].damage
                                    /\ files'[j].parent = files[j].parent
  <2>1. files' = [files EXCEPT ![session].status = "Ended"]
    BY <1>1
  <2>2. files \in Seq(File) /\ session \in 1 .. Len(files) /\ "Ended" \in Status
    BY <1>2 DEF IInv, TypeOK, Status, Sealed
  <2>3. OnlyStatusSet(files, session, "Ended", files')
    BY ONLY <2>1, <2>2, SetStatus, Zenon
  <2> QED
    BY ONLY <2>3 DEF OnlyStatusSet
<1>4. DOMAIN files' = 1 .. Len(files)
  BY <1>3
<1>5. \A j \in 1 .. Len(files) : tailIsRunEnded(files'[j]) <=> tailIsRunEnded(files[j])
  BY <1>3 DEF tailIsRunEnded, last
<1>6. /\ kernel = "sealing" /\ kernel' = "idle"
      /\ UNCHANGED <<atBoot, parentRunId>>
      /\ session' = 0
  BY <1>1
<1>7. TypeOK'
  BY <1>1, <1>2, <1>3 DEF IInv, TypeOK
<1>8. WellFormedLog'
  <2> SUFFICES ASSUME NEW j \in 1 .. Len(files), NEW k \in DOMAIN files'[j].rows
               PROVE  /\ files'[j].rows[k] = "RunStarted" <=> k = 1
                      /\ files'[j].rows[k] = "RunEnded" => k = Len(files'[j].rows)
    BY <1>4 DEF WellFormedLog
  <2> QED
    BY <1>2, <1>3 DEF IInv, WellFormedLog
<1>9. StatusMatchesLog'
  <2> SUFFICES ASSUME NEW j \in 1 .. Len(files)
               PROVE  /\ files'[j].status = "Ended" => tailIsRunEnded(files'[j])
                      /\ files'[j].status = "CrashedRecovered" => ~tailIsRunEnded(files'[j])
                      /\ files'[j].status = "Quarantined" => files'[j].damage # "none"
    BY <1>4 DEF StatusMatchesLog
  <2>1. CASE j = session
    BY <1>2, <1>3, <1>5, <2>1
  <2>2. CASE j # session
    BY <1>2, <1>3, <1>5, <2>2 DEF IInv, StatusMatchesLog
  <2> QED
    BY <2>1, <2>2
<1>10. SessionInv'
  BY <1>6 DEF SessionInv, InSession
<1>11. SweepInv'
  <2>1. \A j \in 1 .. atBoot : files'[j].status \in Sealed
    <3> SUFFICES ASSUME NEW j \in 1 .. atBoot
                 PROVE  files'[j].status \in Sealed
      OBVIOUS
    <3>1. j \in 1 .. Len(files) /\ j # session
      BY <1>2
    <3> QED
      BY <1>3, <1>6, <3>1 DEF IInv, SweepInv, Booted, InSession
  <2> QED
    BY <1>6, <2>1 DEF SweepInv, InSession
<1>12. OrderInv'
  <2> SUFFICES ASSUME NEW j \in 1 .. Len(files), NEW k \in 1 .. j - 1,
                      files'[j].status \in {"CrashedRecovered", "Quarantined"}
               PROVE  files'[k].status \in Sealed
    BY <1>3 DEF OrderInv
  <2>1. k \in 1 .. Len(files) /\ j # session /\ k # session
    BY <1>2, <1>3
  <2> QED
    BY <1>3, <2>1 DEF IInv, OrderInv
<1>13. ParentInv'
  <2> SUFFICES ASSUME parentRunId # 0
               PROVE  /\ parentRunId <= atBoot
                      /\ files'[parentRunId].status = "CrashedRecovered"
                      /\ \A j \in parentRunId + 1 .. atBoot : files'[j].status # "CrashedRecovered"
    BY <1>6 DEF ParentInv
  <2>1. /\ parentRunId \in 1 .. Len(files)
        /\ parentRunId <= atBoot
        /\ files[parentRunId].status = "CrashedRecovered"
        /\ \A j \in parentRunId + 1 .. atBoot : files[j].status # "CrashedRecovered"
    BY <1>2, <1>6 DEF IInv, ParentInv, TypeOK
  <2>2. \A j \in parentRunId + 1 .. atBoot : j \in 1 .. Len(files) /\ j # session
    BY <1>2, <2>1
  <2> QED
    BY <1>2, <1>3, <2>1, <2>2
<1>14. LineageInv'
  <2> SUFFICES ASSUME NEW j \in 1 .. Len(files), files'[j].parent # 0
               PROVE  /\ files'[j].parent < j
                      /\ files'[files'[j].parent].status = "CrashedRecovered"
    BY <1>3 DEF LineageInv
  <2>1. files'[j].parent = files[j].parent
    BY <1>3
  <2>2. files[j].parent < j /\ files[files[j].parent].status = "CrashedRecovered"
    BY <2>1 DEF IInv, LineageInv
  <2>3. files[j].parent \in 1 .. Len(files) /\ files[j].parent # session
    BY <1>2, <2>1, <2>2, FileFields DEF IInv
  <2> QED
    BY <1>3, <2>1, <2>2, <2>3
<1> QED
  BY <1>7, <1>8, <1>9, <1>10, <1>11, <1>12, <1>13, <1>14 DEF IInv

LEMMA CreateFileIInv ==
  ASSUME IInv, CreateFile
  PROVE  IInv'
<1> DEFINE new == [status |-> "NoManifest", rows |-> << >>, damage |-> "none",
                   parent |-> parentRunId]
           n == Len(files)
<1>1. /\ n \in Nat
      /\ DOMAIN files = 1 .. n
      /\ files \in Seq(File)
      /\ parentRunId \in 0 .. n
      /\ atBoot \in 0 .. n
      /\ new \in File
  <2>1. n \in Nat /\ DOMAIN files = 1 .. n /\ files \in Seq(File)
    BY Domains DEF IInv, TypeOK
  <2>2. parentRunId \in 0 .. n /\ atBoot \in 0 .. n
    BY DEF IInv, TypeOK
  <2>3. << >> \in Seq(Row) /\ parentRunId \in Nat
    BY <2>1, <2>2
  <2>4. new \in File
    BY <2>3, Zenon DEF File
  <2> QED
    BY <2>1, <2>2, <2>4
<1>2. /\ kernel = "idle"
      /\ kernel' = "creating"
      /\ files' = Append(files, new)
      /\ session' = n + 1
      /\ UNCHANGED <<boots, atBoot, todo, parentRunId, halt, bootError>>
  BY DEF CreateFile
<1>3. /\ new.status = "NoManifest"
      /\ new.rows = << >>
      /\ new.damage = "none"
      /\ new.parent = parentRunId
  OBVIOUS
<1> HIDE DEF new
<1>4. /\ files' \in Seq(File)
      /\ Len(files') = n + 1
      /\ DOMAIN files' = 1 .. n + 1
      /\ \A j \in 1 .. n : files'[j] = files[j]
      /\ files'[n + 1] = new
  <2>1. /\ files' \in Seq(File)
        /\ Len(files') = n + 1
        /\ \A j \in 1 .. n : files'[j] = files[j]
        /\ files'[n + 1] = new
    BY <1>1, <1>2, AppendProperties
  <2> QED
    BY <2>1
<1>5. TypeOK'
  BY <1>1, <1>2, <1>4 DEF IInv, TypeOK
<1>6. WellFormedLog'
  <2> SUFFICES ASSUME NEW j \in 1 .. n + 1, NEW k \in DOMAIN files'[j].rows
               PROVE  /\ files'[j].rows[k] = "RunStarted" <=> k = 1
                      /\ files'[j].rows[k] = "RunEnded" => k = Len(files'[j].rows)
    BY <1>4 DEF WellFormedLog
  <2>1. j # n + 1
    BY <1>3, <1>4
  <2> QED
    BY <1>1, <1>4, <2>1 DEF IInv, WellFormedLog
<1>7. StatusMatchesLog'
  <2> SUFFICES ASSUME NEW j \in 1 .. n + 1
               PROVE  /\ files'[j].status = "Ended" => tailIsRunEnded(files'[j])
                      /\ files'[j].status = "CrashedRecovered" => ~tailIsRunEnded(files'[j])
                      /\ files'[j].status = "Quarantined" => files'[j].damage # "none"
    BY <1>4 DEF StatusMatchesLog
  <2>1. CASE j = n + 1
    BY <1>3, <1>4, <2>1
  <2>2. CASE j \in 1 .. n
    BY <1>1, <1>4, <2>2 DEF IInv, StatusMatchesLog
  <2> QED
    BY <1>1, <2>1, <2>2
<1>8. SessionInv'
  <2>1. InSession' /\ session' # 0 /\ session' = Len(files') /\ atBoot' < session'
    BY <1>1, <1>2, <1>4 DEF InSession
  <2>2. ~tailIsRunEnded(files'[n + 1])
    BY <1>3, <1>4 DEF tailIsRunEnded
  <2> QED
    BY <1>2, <1>3, <1>4, <2>1, <2>2 DEF SessionInv
<1>9. SweepInv'
  <2>1. \A j \in 1 .. atBoot : files'[j].status \in Sealed
    BY <1>1, <1>2, <1>4 DEF IInv, SweepInv, Booted
  <2>2. kernel' = "creating" /\ atBoot' = atBoot
    BY <1>2
  <2> QED
    BY ONLY <2>1, <2>2 DEF SweepInv
<1>10. OrderInv'
  <2> SUFFICES ASSUME NEW j \in 1 .. n + 1, NEW k \in 1 .. j - 1,
                      files'[j].status \in {"CrashedRecovered", "Quarantined"}
               PROVE  files'[k].status \in Sealed
    BY <1>4 DEF OrderInv
  <2>1. j \in 1 .. n /\ k \in 1 .. n
    BY <1>1, <1>3, <1>4
  <2> QED
    BY <1>4, <2>1 DEF IInv, OrderInv
<1>11. ASSUME parentRunId # 0
       PROVE  /\ parentRunId \in 1 .. n
              /\ parentRunId <= atBoot
              /\ files[parentRunId].status = "CrashedRecovered"
              /\ \A j \in parentRunId + 1 .. atBoot : files[j].status # "CrashedRecovered"
  BY <1>1, <1>2, <1>11 DEF IInv, ParentInv
<1>12. ParentInv'
  <2> SUFFICES ASSUME parentRunId # 0
               PROVE  /\ parentRunId <= atBoot
                      /\ files'[parentRunId].status = "CrashedRecovered"
                      /\ \A j \in parentRunId + 1 .. atBoot : files'[j].status # "CrashedRecovered"
    BY <1>2, Zenon DEF ParentInv
  <2>1. \A j \in parentRunId + 1 .. atBoot : j \in 1 .. n
    BY <1>1
  <2> QED
    BY <1>4, <1>11, <2>1
<1>13. LineageInv'
  <2> SUFFICES ASSUME NEW j \in 1 .. n + 1, files'[j].parent # 0
               PROVE  /\ files'[j].parent < j
                      /\ files'[files'[j].parent].status = "CrashedRecovered"
    BY <1>4 DEF LineageInv
  <2>1. CASE j = n + 1
    BY <1>1, <1>3, <1>4, <1>11, <2>1
  <2>2. CASE j \in 1 .. n
    <3>1. files[j].parent < j /\ files[files[j].parent].status = "CrashedRecovered"
      BY <1>4, <2>2 DEF IInv, LineageInv
    <3>2. files[j].parent \in 1 .. n
      BY <1>1, <1>4, <2>2, <3>1, FileFields DEF IInv
    <3> QED
      BY <1>4, <2>2, <3>1, <3>2
  <2> QED
    BY <1>1, <2>1, <2>2
<1> QED
  BY <1>5, <1>6, <1>7, <1>8, <1>9, <1>10, <1>12, <1>13 DEF IInv

LEMMA DamageIInv ==
  ASSUME IInv, Damage
  PROVE  IInv'
<1>1. /\ kernel = "down" /\ kernel' = "down"
      /\ UNCHANGED <<boots, atBoot, todo, parentRunId, session, halt, bootError>>
  BY DEF Damage
<1>2. PICK i \in DOMAIN files, d \in {"hash", "undecodable"} :
        files' = [files EXCEPT ![i].damage = d]
  BY Zenon DEF Damage
<1>3. /\ Len(files) \in Nat
      /\ DOMAIN files = 1 .. Len(files)
      /\ files \in Seq(File)
  BY Domains DEF IInv, TypeOK
<1>4. /\ files' \in Seq(File)
      /\ Len(files') = Len(files)
      /\ files'[i].damage = d
      /\ \A j \in 1 .. Len(files) : /\ j # i => files'[j].damage = files[j].damage
                                    /\ files'[j].status = files[j].status
                                    /\ files'[j].rows = files[j].rows
                                    /\ files'[j].parent = files[j].parent
  <2>1. i \in 1 .. Len(files)
    BY <1>3
  <2>2. OnlyDamageSet(files, i, d, files')
    BY <1>2, <1>3, <2>1, SetDamage, Zenon
  <2> QED
    BY ONLY <2>2 DEF OnlyDamageSet
<1>5. DOMAIN files' = 1 .. Len(files)
  BY <1>4
<1>6. TypeOK'
  BY <1>1, <1>4 DEF IInv, TypeOK
<1>7. WellFormedLog'
  <2> SUFFICES ASSUME NEW j \in 1 .. Len(files), NEW k \in DOMAIN files'[j].rows
               PROVE  /\ files'[j].rows[k] = "RunStarted" <=> k = 1
                      /\ files'[j].rows[k] = "RunEnded" => k = Len(files'[j].rows)
    BY <1>5 DEF WellFormedLog
  <2> QED
    BY <1>3, <1>4 DEF IInv, WellFormedLog
<1>8. StatusMatchesLog'
  <2> SUFFICES ASSUME NEW j \in 1 .. Len(files)
               PROVE  /\ files'[j].status = "Ended" => tailIsRunEnded(files'[j])
                      /\ files'[j].status = "CrashedRecovered" => ~tailIsRunEnded(files'[j])
                      /\ files'[j].status = "Quarantined" => files'[j].damage # "none"
    BY <1>5 DEF StatusMatchesLog
  <2>1. tailIsRunEnded(files'[j]) <=> tailIsRunEnded(files[j])
    BY <1>4 DEF tailIsRunEnded, last
  <2>2. files[j].damage # "none" => files'[j].damage # "none"
    BY <1>4
  <2> QED
    BY <1>3, <1>4, <2>1, <2>2 DEF IInv, StatusMatchesLog
<1>9. SessionInv'
  BY <1>1 DEF IInv, SessionInv, InSession
<1>10. SweepInv'
  BY <1>1 DEF SweepInv, Booted, InSession
<1>11. OrderInv'
  <2> SUFFICES ASSUME NEW j \in 1 .. Len(files), NEW k \in 1 .. j - 1,
                      files'[j].status \in {"CrashedRecovered", "Quarantined"}
               PROVE  files'[k].status \in Sealed
    BY <1>4 DEF OrderInv
  <2>1. k \in 1 .. Len(files)
    BY <1>3
  <2> QED
    BY <1>4, <2>1 DEF IInv, OrderInv
<1>12. ParentInv'
  BY <1>1 DEF ParentInv
<1>13. LineageInv'
  <2> SUFFICES ASSUME NEW j \in 1 .. Len(files), files'[j].parent # 0
               PROVE  /\ files'[j].parent < j
                      /\ files'[files'[j].parent].status = "CrashedRecovered"
    BY <1>4 DEF LineageInv
  <2>1. files'[j].parent = files[j].parent
    BY <1>4
  <2>2. files[j].parent < j /\ files[files[j].parent].status = "CrashedRecovered"
    BY <2>1 DEF IInv, LineageInv
  <2>3. files[j].parent \in 1 .. Len(files)
    BY <1>3, <2>1, <2>2, FileFields DEF IInv
  <2> QED
    BY <1>4, <2>1, <2>2, <2>3
<1> QED
  BY <1>6, <1>7, <1>8, <1>9, <1>10, <1>11, <1>12, <1>13 DEF IInv

LEMMA NextIInv == IInv /\ [Next]_vars => IInv'
<1> SUFFICES ASSUME IInv, [Next]_vars
             PROVE  IInv'
  OBVIOUS
<1>1. CASE Boot
  BY <1>1, BootIInv
<1>2. CASE Sweep
  BY <1>2, SweepOneIInv, SweepUndecodableIInv, SweepDiskFailsIInv, SweepDoneIInv DEF Sweep
<1>3. CASE Open
  BY <1>3, CreateFileIInv, InitializeFreshIInv, OpenFailsIInv, CommitRunStartedIInv, StartedIInv,
     StartFailsIInv DEF Open
<1>4. CASE CommitEntry
  BY <1>4, CommitEntryIInv
<1>5. CASE Halt
  BY <1>5, HaltIInv
<1>6. CASE Seal
  BY <1>6, SealStartIInv, SealSkipsIInv, CommitRunEndedIInv, SealManifestIInv, CloseFailsIInv
     DEF Seal
<1>7. CASE Crash
  BY <1>7, CrashIInv
<1>8. CASE Damage
  BY <1>8, DamageIInv
<1>9. CASE UNCHANGED vars
  <2>1. UNCHANGED <<files, kernel, boots, atBoot, todo, parentRunId, session, halt, bootError>>
    BY <1>9 DEF vars
  <2>2. TypeOK' /\ SessionInv' /\ SweepInv' /\ ParentInv'
    BY <2>1 DEF IInv, TypeOK, SessionInv, InSession, SweepInv, Booted, Crashed, Listable,
                ParentInv, tailIsRunEnded, last
  <2> QED
    BY <2>1, <2>2, FilesFrame DEF IInv
<1> QED
  BY <1>1, <1>2, <1>3, <1>4, <1>5, <1>6, <1>7, <1>8, <1>9 DEF Next

-----------------------------------------------------------------------------
(* The theorems                                                            *)

LEMMA LifecycleInvariant == Spec => []IInv
<1> QED
  BY InitIInv, NextIInv, PTL DEF Spec

\* The state of KernelEventStore stays well typed over any number of boots and runs.
THEOREM LifecycleTypeOK == Spec => []TypeOK
<1>1. IInv => TypeOK
  BY DEF IInv
<1> QED
  BY <1>1, LifecycleInvariant, PTL

\* Whatever crashes, failures and restarts happen, every run file opens with RunStarted
\* and has nothing after RunEnded.
THEOREM LifecycleWellFormedLog == Spec => []WellFormedLog
<1>1. IInv => WellFormedLog
  BY DEF IInv
<1> QED
  BY <1>1, LifecycleInvariant, PTL

\* The status that seal() or a recovery sweep writes agrees with the log it seals.
THEOREM LifecycleStatusMatchesLog == Spec => []StatusMatchesLog
<1>1. IInv => StatusMatchesLog
  BY DEF IInv
<1> QED
  BY <1>1, LifecycleInvariant, PTL

\* boot() returns a kernel only after every run it found is sealed, however many
\* earlier sweeps were cut short.
THEOREM LifecycleSweptBeforeOpen == Spec => []SweptBeforeOpen
<1>1. IInv => SweptBeforeOpen
  BY DEF IInv, TypeOK, SweepInv, Booted, InSession, SweptBeforeOpen
<1> QED
  BY <1>1, LifecycleInvariant, PTL

\* A run's parent_run_id names the newest run the boot found crashed.
THEOREM LifecycleParentIsNewestCrashed == Spec => []ParentIsNewestCrashed
<1>1. IInv => ParentIsNewestCrashed
  <2> SUFFICES ASSUME IInv, NEW i \in 1 .. Len(files), files[i].parent # 0
               PROVE  /\ files[i].parent < i
                      /\ files[files[i].parent].status = "CrashedRecovered"
                      /\ i = session => \A j \in files[i].parent + 1 .. atBoot :
                                           files[j].status # "CrashedRecovered"
    BY Domains DEF IInv, ParentIsNewestCrashed
  <2>1. /\ files[i].parent < i
        /\ files[files[i].parent].status = "CrashedRecovered"
    BY DEF IInv, LineageInv
  <2>2. ASSUME i = session
        PROVE  \A j \in files[i].parent + 1 .. atBoot : files[j].status # "CrashedRecovered"
    <3>1. session # 0
      BY <2>2, Domains DEF IInv
    <3>2. InSession /\ files[i].parent = parentRunId
      BY <2>2, <3>1 DEF IInv, SessionInv
    <3> QED
      BY <3>2 DEF IInv, ParentInv, InSession
  <2> QED
    BY <2>1, <2>2
<1> QED
  BY <1>1, LifecycleInvariant, PTL

SealedKept ==
    \A i \in DOMAIN files : files[i].status \in Sealed =>
        /\ i \in DOMAIN files'
        /\ files'[i].status = files[i].status
        /\ files'[i].rows = files[i].rows
        /\ files'[i].parent = files[i].parent

\* Writing to a file that is not sealed keeps the sealed ones.
LEMMA UnsealedStatusSet ==
  ASSUME IInv, NEW i \in 1 .. Len(files), files[i].status \notin Sealed, NEW s \in Status,
         files' = [files EXCEPT ![i].status = s]
  PROVE  SealedKept
<1>1. files \in Seq(File) /\ DOMAIN files = 1 .. Len(files)
  BY Domains DEF IInv, TypeOK
<1>2. OnlyStatusSet(files, i, s, files')
  BY <1>1, SetStatus, Zenon
<1>3. DOMAIN files' = 1 .. Len(files)
  BY ONLY <1>2 DEF OnlyStatusSet
<1> QED
  BY ONLY <1>1, <1>2, <1>3, files[i].status \notin Sealed DEF OnlyStatusSet, SealedKept

LEMMA UnsealedRowsSet ==
  ASSUME IInv, NEW i \in 1 .. Len(files), files[i].status \notin Sealed, NEW r \in Seq(Row),
         files' = [files EXCEPT ![i].rows = r]
  PROVE  SealedKept
<1>1. files \in Seq(File) /\ DOMAIN files = 1 .. Len(files)
  BY Domains DEF IInv, TypeOK
<1>2. OnlyRowsSet(files, i, r, files')
  BY <1>1, SetRows, Zenon
<1>3. DOMAIN files' = 1 .. Len(files)
  BY ONLY <1>2 DEF OnlyRowsSet
<1> QED
  BY ONLY <1>1, <1>2, <1>3, files[i].status \notin Sealed DEF OnlyRowsSet, SealedKept

\* The open session's file is not sealed.
LEMMA OpenFileUnsealed ==
  ASSUME IInv, InSession
  PROVE  /\ session \in 1 .. Len(files)
         /\ files[session].status \notin Sealed
         /\ files[session].rows \in Seq(Row)
<1>1. session \in 1 .. Len(files) /\ files[session].status \in {"NoManifest", "Running"}
  BY Domains DEF IInv, TypeOK, SessionInv
<1> QED
  BY <1>1, FileFields DEF IInv, Sealed

LEMMA NextKeepsSealed == IInv /\ [Next]_vars => SealedKept
<1> SUFFICES ASSUME IInv, [Next]_vars
             PROVE  SealedKept
  OBVIOUS
<1>1. CASE UNCHANGED files
  BY <1>1 DEF SealedKept
<1>2. ASSUME NEW i \in todo, SweepOne(i)
      PROVE  SealedKept
  <2>1. i \in 1 .. Len(files) /\ files[i].status \notin Sealed
    BY <1>2, Domains DEF IInv, SweepInv, SweepOne, Crashed, Sealed
  <2>2. FinalStatus(files[i]) \in Status
    BY DEF FinalStatus, Status, Sealed
  <2>3. files' = [files EXCEPT ![i].status = FinalStatus(files[i])]
    BY <1>2 DEF SweepOne
  <2> QED
    BY <2>1, <2>2, <2>3, UnsealedStatusSet, Zenon
<1>3. CASE CreateFile
  <2> DEFINE new == [status |-> "NoManifest", rows |-> << >>, damage |-> "none",
                     parent |-> parentRunId]
  <2>1. files' = Append(files, new)
    BY <1>3 DEF CreateFile
  <2>2. files \in Seq(File) /\ DOMAIN files = 1 .. Len(files) /\ Len(files) \in Nat
    BY Domains DEF IInv, TypeOK
  <2> HIDE DEF new
  <2>3. \A j \in 1 .. Len(files) : j \in DOMAIN files' /\ files'[j] = files[j]
    BY <2>1, <2>2
  <2> QED
    BY ONLY <2>2, <2>3 DEF SealedKept
<1>4. CASE InitializeFresh
  <2>1. session \in 1 .. Len(files) /\ files[session].status \notin Sealed
    BY <1>4, OpenFileUnsealed DEF InitializeFresh, InSession
  <2>2. files' = [files EXCEPT ![session].status = "Running"] /\ "Running" \in Status
    BY <1>4 DEF InitializeFresh, Status
  <2> QED
    BY <2>1, <2>2, UnsealedStatusSet, Zenon
<1>5. CASE SealManifest
  <2>1. session \in 1 .. Len(files) /\ files[session].status \notin Sealed
    BY <1>5, OpenFileUnsealed DEF SealManifest, InSession
  <2>2. files' = [files EXCEPT ![session].status = "Ended"] /\ "Ended" \in Status
    BY <1>5 DEF SealManifest, Status, Sealed
  <2> QED
    BY <2>1, <2>2, UnsealedStatusSet, Zenon
<1>6. CASE CommitRunStarted
  <2>1. session \in 1 .. Len(files) /\ files[session].status \notin Sealed
    BY <1>6, OpenFileUnsealed DEF CommitRunStarted, InSession
  <2>2. files' = [files EXCEPT ![session].rows = <<"RunStarted">>] /\ <<"RunStarted">> \in Seq(Row)
    BY <1>6 DEF CommitRunStarted, Row
  <2> QED
    BY <2>1, <2>2, UnsealedRowsSet, Zenon
<1>7. CASE CommitEntry
  <2>1. /\ session \in 1 .. Len(files)
        /\ files[session].status \notin Sealed
        /\ files[session].rows \in Seq(Row)
    BY <1>7, OpenFileUnsealed DEF CommitEntry, InSession
  <2>2. files' = [files EXCEPT ![session].rows = Append(files[session].rows, "entry")]
    BY <1>7 DEF CommitEntry
  <2>3. Append(files[session].rows, "entry") \in Seq(Row)
    BY <2>1 DEF Row
  <2> QED
    BY <2>1, <2>2, <2>3, UnsealedRowsSet, Zenon
<1>8. CASE CommitRunEnded
  <2>1. /\ session \in 1 .. Len(files)
        /\ files[session].status \notin Sealed
        /\ files[session].rows \in Seq(Row)
    BY <1>8, OpenFileUnsealed DEF CommitRunEnded, InSession
  <2>2. files' = [files EXCEPT ![session].rows = Append(files[session].rows, "RunEnded")]
    BY <1>8 DEF CommitRunEnded
  <2>3. Append(files[session].rows, "RunEnded") \in Seq(Row)
    BY <2>1 DEF Row
  <2> QED
    BY <2>1, <2>2, <2>3, UnsealedRowsSet, Zenon
<1>9. CASE Damage
  <2>1. PICK i \in DOMAIN files, d \in {"hash", "undecodable"} :
          files' = [files EXCEPT ![i].damage = d]
    BY <1>9, Zenon DEF Damage
  <2>2. files \in Seq(File) /\ DOMAIN files = 1 .. Len(files)
    BY Domains DEF IInv, TypeOK
  <2>3. i \in 1 .. Len(files)
    BY <2>2
  <2>4. OnlyDamageSet(files, i, d, files')
    BY <2>1, <2>2, <2>3, SetDamage, Zenon
  <2>5. DOMAIN files' = 1 .. Len(files)
    BY ONLY <2>4 DEF OnlyDamageSet
  <2> QED
    BY ONLY <2>2, <2>4, <2>5 DEF OnlyDamageSet, SealedKept
<1>10. \/ UNCHANGED files
       \/ \E i \in todo : SweepOne(i)
       \/ CreateFile \/ InitializeFresh \/ SealManifest
       \/ CommitRunStarted \/ CommitEntry \/ CommitRunEnded
       \/ Damage
  BY Zenon DEF Next, vars, Boot, Sweep, SweepUndecodable, SweepDiskFails, SweepDone, Open, OpenFails,
           Started, StartFails, Halt, Seal, SealStart, SealSkips, CloseFails, Crash
<1> QED
  BY <1>1, <1>2, <1>3, <1>4, <1>5, <1>6, <1>7, <1>8, <1>9, <1>10

\* No step of a kernel, of a crash or of a later sweep rewrites a sealed run.
THEOREM LifecycleSealedRunsFinal == Spec => SealedRunsFinal
<1>1. IInv /\ [Next]_vars => [SealedKept]_vars
  BY NextKeepsSealed
<1> QED
  BY <1>1, LifecycleInvariant, PTL DEF Spec, SealedRunsFinal, SealedKept
=============================================================================
