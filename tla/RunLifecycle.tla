---------------------------- MODULE RunLifecycle ----------------------------
(***************************************************************************)
(* The run files of one trader instance across kernel boots, restarts and  *)
(* crashes: KernelEventStore (crates/system/src/event_store.rs) over       *)
(* RedbBackend (crates/event_store/src/backend/redb.rs).                   *)
(*                                                                         *)
(* A boot sweeps the directory and seals every run whose manifest still    *)
(* reads Running; start() opens a new run, any number of times in the life *)
(* of one kernel; seal() ends it.  Each action is at most one redb commit, *)
(* so a crash can fall between any two of them.  Within a run the writer   *)
(* is taken at its contract, DurableLog.                                   *)
(***************************************************************************)
EXTENDS Naturals, Sequences

CONSTANTS
    MaxRuns,   \* bound: run files ever created
    MaxBoots,  \* bound: kernel constructions
    MaxRows    \* bound: rows of a run

ASSUME LifecycleAssumption == MaxRuns \in Nat /\ MaxBoots \in Nat /\ MaxRows \in Nat

VARIABLES
    files,        \* run files in start_ts_init order
    kernel,       \* what the kernel process is doing
    boots,        \* kernels constructed so far
    atBoot,       \* files that existed when this kernel was constructed
    todo,         \* crashed predecessors the sweep has still to seal
    parentRunId,  \* KernelEventStore::parent_run_id, 0 for None
    session,      \* the run of the open session, 0 for None
    bootError,    \* why boot() returned an error
    halt          \* the kernel's HaltSignal, shared by all its runs

vars == <<files, kernel, boots, atBoot, todo, parentRunId, session, halt, bootError>>

Sealed == {"Ended", "CrashedRecovered", "Quarantined"}
Row    == {"RunStarted", "entry", "RunEnded"}
File   == [status : Sealed \cup {"NoManifest", "Running"},
           rows   : Seq(Row),
           damage : {"none", "hash", "undecodable"},
           parent : Nat]

last(rows) == rows[Len(rows)]
tailIsRunEnded(f) == f.rows # << >> /\ last(f.rows) = "RunEnded"

TypeOK ==
    /\ files \in Seq(File)
    /\ kernel \in {"down", "sweeping", "dead", "idle", "creating", "starting", "open",
                   "closing", "sealing"}
    /\ boots \in Nat
    /\ atBoot \in 0 .. Len(files)
    /\ todo \subseteq 1 .. Len(files)
    /\ parentRunId \in 0 .. Len(files)
    /\ session \in 0 .. Len(files)
    /\ halt \in BOOLEAN
    /\ bootError \in {"none", "manifest", "undecodable", "disk"}

Init ==
    /\ files = << >>
    /\ kernel = "down"
    /\ boots = 0
    /\ atBoot = 0
    /\ todo = {}
    /\ parentRunId = 0
    /\ session = 0
    /\ halt = FALSE
    /\ bootError = "none"

-----------------------------------------------------------------------------
(* KernelEventStore::boot and recover_predecessors                         *)

\* list_runs: a file without a manifest fails the whole listing.
Listable == \A i \in DOMAIN files : files[i].status # "NoManifest"

\* Mutant: every run that did not end gracefully is swept again.
Crashed_NotEnded == {i \in DOMAIN files : files[i].status # "Ended"}

\* The manifests that still read Running; the sweep takes them in start order.
Crashed == {i \in DOMAIN files : files[i].status = "Running"}

\* A new kernel: its halt signal is fresh and it has no session.
Boot ==
    /\ kernel = "down"
    /\ boots < MaxBoots
    /\ boots' = boots + 1
    /\ atBoot' = Len(files)
    /\ parentRunId' = 0
    /\ session' = 0
    /\ halt' = FALSE
    /\ IF Listable
       THEN kernel' = "sweeping" /\ todo' = Crashed /\ bootError' = "none"
       ELSE kernel' = "dead" /\ todo' = {} /\ bootError' = "manifest"
    /\ UNCHANGED files

\* What the scan of [1, high_watermark] says the crashed run is.
FinalStatus(f) ==
    IF f.damage # "none" THEN "Quarantined"
    ELSE IF tailIsRunEnded(f) THEN "Ended"
    ELSE "CrashedRecovered"

NextInSweep(i) == i \in todo /\ \A j \in todo : i <= j

\* Mutant: every recovered run becomes a parent.
SweepOne_AnyParent(i) ==
    /\ kernel = "sweeping"
    /\ NextInSweep(i)
    /\ files[i].damage # "undecodable"
    /\ files' = [files EXCEPT ![i].status = FinalStatus(files[i])]
    /\ parentRunId' = i
    /\ todo' = todo \ {i}
    /\ UNCHANGED <<kernel, boots, atBoot, session, halt, bootError>>

\* One predecessor: reopened, scanned, sealed.  Sealing is the only write.
SweepOne(i) ==
    /\ kernel = "sweeping"
    /\ NextInSweep(i)
    /\ files[i].damage # "undecodable"
    /\ files' = [files EXCEPT ![i].status = FinalStatus(files[i])]
    /\ parentRunId' = IF FinalStatus(files[i]) = "CrashedRecovered" THEN i ELSE parentRunId
    /\ todo' = todo \ {i}
    /\ UNCHANGED <<kernel, boots, atBoot, session, halt, bootError>>

\* compute_progress cannot decode a row: open_run fails before the scan is reached,
\* and the boot with it.
SweepUndecodable(i) ==
    /\ kernel = "sweeping"
    /\ NextInSweep(i)
    /\ files[i].damage = "undecodable"
    /\ kernel' = "dead"
    /\ bootError' = "undecodable"
    /\ UNCHANGED <<files, boots, atBoot, todo, parentRunId, session, halt>>

\* The disk refuses an open or a seal.
SweepDiskFails ==
    /\ kernel = "sweeping"
    /\ todo # {}
    /\ kernel' = "dead"
    /\ bootError' = "disk"
    /\ UNCHANGED <<files, boots, atBoot, todo, parentRunId, session, halt>>

\* Mutant: the kernel is handed out with predecessors still to seal.
SweepDone_Early ==
    /\ kernel = "sweeping"
    /\ parentRunId # 0 \/ todo = {}
    /\ kernel' = "idle"
    /\ UNCHANGED <<files, boots, atBoot, todo, parentRunId, session, halt, bootError>>

SweepDone ==
    /\ kernel = "sweeping"
    /\ todo = {}
    /\ kernel' = "idle"
    /\ UNCHANGED <<files, boots, atBoot, todo, parentRunId, session, halt, bootError>>

-----------------------------------------------------------------------------
(* KernelEventStore::open, called by every start()                         *)

\* Database::create: the file exists, its tables do not.
CreateFile ==
    /\ kernel = "idle"
    /\ session = 0
    /\ Len(files) < MaxRuns
    /\ files' = Append(files, [status |-> "NoManifest", rows |-> << >>, damage |-> "none",
                              parent |-> parentRunId])
    /\ session' = Len(files) + 1
    /\ kernel' = "creating"
    /\ UNCHANGED <<boots, atBoot, todo, parentRunId, halt, bootError>>

\* initialize_fresh commits the tables and the Running manifest; the writer starts.
InitializeFresh ==
    /\ kernel = "creating"
    /\ files' = [files EXCEPT ![session].status = "Running"]
    /\ kernel' = "starting"
    /\ UNCHANGED <<boots, atBoot, todo, parentRunId, session, halt, bootError>>

\* The disk refuses the file or its first commit: start() logs and returns.
OpenFails ==
    /\ kernel = "creating"
    /\ session' = 0
    /\ kernel' = "idle"
    /\ UNCHANGED <<files, boots, atBoot, todo, parentRunId, halt, bootError>>

\* The writer thread commits RunStarted, during the wait or when open_run gives up
\* and drops the writer.
CommitRunStarted ==
    /\ kernel = "starting"
    /\ files[session].rows = << >>
    /\ files' = [files EXCEPT ![session].rows = <<"RunStarted">>]
    /\ UNCHANGED <<kernel, boots, atBoot, todo, parentRunId, session, halt, bootError>>

\* Mutant: the session opens although the wait saw no commit.
Started_NoWait ==
    /\ kernel = "starting"
    /\ kernel' = "open"
    /\ UNCHANGED <<files, boots, atBoot, todo, parentRunId, session, halt, bootError>>

\* The wait sees RunStarted committed.
Started ==
    /\ kernel = "starting"
    /\ files[session].rows # << >>
    /\ kernel' = "open"
    /\ UNCHANGED <<files, boots, atBoot, todo, parentRunId, session, halt, bootError>>

\* The wait times out, or finds the signal halted by this run or by an earlier run
\* of the same kernel: the run is dropped and stays Running.
StartFails ==
    /\ kernel = "starting"
    /\ session' = 0
    /\ kernel' = "idle"
    /\ UNCHANGED <<files, boots, atBoot, todo, parentRunId, halt, bootError>>

-----------------------------------------------------------------------------
(* The open run                                                            *)

CommitEntry ==
    /\ kernel = "open"
    /\ Len(files[session].rows) < MaxRows
    /\ files' = [files EXCEPT ![session].rows = Append(@, "entry")]
    /\ UNCHANGED <<kernel, boots, atBoot, todo, parentRunId, session, halt, bootError>>

\* A stall or a backend error, while starting or running.
Halt ==
    /\ kernel \in {"starting", "open"}
    /\ halt' = TRUE
    /\ UNCHANGED <<files, kernel, boots, atBoot, todo, parentRunId, session, bootError>>

\* seal() of a healthy session: the tap is cleared and close() begins.
SealStart ==
    /\ kernel = "open"
    /\ ~halt
    /\ kernel' = "closing"
    /\ UNCHANGED <<files, boots, atBoot, todo, parentRunId, session, halt, bootError>>

\* seal() of a halted session leaves the run to the next boot.
SealSkips ==
    /\ kernel = "open"
    /\ halt
    /\ session' = 0
    /\ kernel' = "idle"
    /\ UNCHANGED <<files, boots, atBoot, todo, parentRunId, halt, bootError>>

CommitRunEnded ==
    /\ kernel = "closing"
    /\ files' = [files EXCEPT ![session].rows = Append(@, "RunEnded")]
    /\ kernel' = "sealing"
    /\ UNCHANGED <<boots, atBoot, todo, parentRunId, session, halt, bootError>>

\* Mutant: the manifest is sealed before RunEnded is committed.
SealManifest_First ==
    /\ kernel \in {"closing", "sealing"}
    /\ files' = [files EXCEPT ![session].status = "Ended"]
    /\ session' = 0
    /\ kernel' = "idle"
    /\ UNCHANGED <<boots, atBoot, todo, parentRunId, halt, bootError>>

SealManifest ==
    /\ kernel = "sealing"
    /\ files' = [files EXCEPT ![session].status = "Ended"]
    /\ session' = 0
    /\ kernel' = "idle"
    /\ UNCHANGED <<boots, atBoot, todo, parentRunId, halt, bootError>>

\* The final flush or the seal fails: the writer halts and close() returns an error.
CloseFails ==
    /\ kernel \in {"closing", "sealing"}
    /\ halt' = TRUE
    /\ session' = 0
    /\ kernel' = "idle"
    /\ UNCHANGED <<files, boots, atBoot, todo, parentRunId, bootError>>

-----------------------------------------------------------------------------
(* The environment                                                         *)

\* The process ends, with or without warning: only the files remain.
Crash ==
    /\ kernel # "down"
    /\ kernel' = "down"
    /\ todo' = {}
    /\ session' = 0
    /\ UNCHANGED <<files, boots, atBoot, parentRunId, halt, bootError>>

\* Rows of a closed file are damaged on disk: a lost row or a changed byte fails the
\* scan, and some changes fail the decoding already.
Damage ==
    /\ kernel = "down"
    /\ \E i \in DOMAIN files : \E d \in {"hash", "undecodable"} :
          /\ files[i].rows # << >>
          /\ \A j \in DOMAIN files : files[j].damage = "none"
          /\ files' = [files EXCEPT ![i].damage = d]
    /\ UNCHANGED <<kernel, boots, atBoot, todo, parentRunId, session, halt, bootError>>

Sweep ==
    \/ \E i \in todo : SweepOne(i) \/ SweepUndecodable(i)
    \/ SweepDiskFails
    \/ SweepDone

Open == CreateFile \/ InitializeFresh \/ OpenFails \/ CommitRunStarted \/ Started \/ StartFails

Seal == SealStart \/ SealSkips \/ CommitRunEnded \/ SealManifest \/ CloseFails

Next == Boot \/ Sweep \/ Open \/ CommitEntry \/ Halt \/ Seal \/ Crash \/ Damage

Spec == Init /\ [][Next]_vars
-----------------------------------------------------------------------------
(* Properties                                                              *)

\* Every log opens with RunStarted, and nothing follows RunEnded: a session is not
\* handed out, so no entry can be captured, before RunStarted is durable.
WellFormedLog ==
    \A i \in DOMAIN files : \A k \in DOMAIN files[i].rows :
        /\ files[i].rows[k] = "RunStarted" <=> k = 1
        /\ files[i].rows[k] = "RunEnded" => k = Len(files[i].rows)

\* A sealed status tells the truth about the log, whether seal() or a later sweep
\* wrote it and wherever a crash fell: Ended exactly when RunEnded is the tail.
StatusMatchesLog ==
    \A i \in DOMAIN files :
        /\ files[i].status = "Ended" => tailIsRunEnded(files[i])
        /\ files[i].status = "CrashedRecovered" => ~tailIsRunEnded(files[i])
        /\ files[i].status = "Quarantined" => files[i].damage # "none"

\* Once boot() has returned, no run of an earlier process is left Running, even when
\* earlier sweeps were themselves cut short by crashes.
SweptBeforeOpen ==
    kernel \notin {"down", "sweeping", "dead"} =>
        \A i \in 1 .. atBoot : files[i].status \in Sealed

\* A parent is an earlier run sealed CrashedRecovered, and the newest such run at the
\* time of the boot; quarantined and gracefully ended runs are never chained through.
ParentIsNewestCrashed ==
    \A i \in DOMAIN files :
        LET p == files[i].parent
        IN  p # 0 => /\ p < i
                     /\ files[p].status = "CrashedRecovered"
                     /\ i = session => \A j \in p + 1 .. atBoot :
                                          files[j].status # "CrashedRecovered"

\* A sealed run never changes again: not its rows, its status or its parent.
SealedRunsFinal ==
    [][ \A i \in DOMAIN files : files[i].status \in Sealed =>
            /\ i \in DOMAIN files'
            /\ files'[i].status = files[i].status
            /\ files'[i].rows = files[i].rows
            /\ files'[i].parent = files[i].parent ]_vars

\* What the README says of boot: with all files intact, a crash is recovered from.
BootSurvivesCrashes ==
    (kernel = "dead" /\ \A i \in DOMAIN files : files[i].damage = "none") => bootError = "disk"

\* What recover_predecessors documents: a run that fails the scan is quarantined.
DamagedRunIsQuarantined ==
    (kernel = "dead" /\ Listable) => bootError = "disk"
=============================================================================
