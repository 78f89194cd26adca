--------------------------- MODULE ModelLifecycle ---------------------------
(***************************************************************************)
(* The registry, the model files and the retention job that cleans them    *)
(* (artifacts/retention.py: cleanup_artifacts), together.  A cleanup works *)
(* out what is protected first, from the registry and the exported         *)
(* reports, and then walks the files in sorted order, deleting those that  *)
(* are too old and not protected.                                          *)
(***************************************************************************)
EXTENDS ModelRegistry, RuntimeModels, TLC

CONSTANTS
  Installations, \* sets of models that may be there at first
  Reported,    \* the files exported reports refer to (_get_active_dossier_refs)
  ScanOrder,   \* every file below outputs/, sorted by path
  MaxCleanups,
  MaxWork      \* operations, trainings and cleanups together

ASSUME LifecycleAssumption ==
  /\ Models \subseteq ModelIds
  /\ \A models \in Installations : IsFiniteSet(models) /\ models \subseteq Models
  /\ NoModel \notin Models
  /\ ScanOrder \in Seq((Models \X Artifacts) \cup {<<"registry">>})

VARIABLES
  aged,      \* the files last written longer ago than max_age_days
  cleanup,   \* the cleanup under way
  cleanups   \* cleanups begun, bounded by MaxCleanups

allVars == <<regVars, begun, runtimeVars, aged, cleanup, cleanups>>
retentionVars == <<cleanup, cleanups>>

RegistryFile == <<"registry">>
File(m, a) == <<m, a>>
ModelFiles(m) == {File(m, a) : a \in Artifacts}
Existing ==
  {f \in Range(ScanOrder) : IF f = RegistryFile THEN registry # <<>> ELSE disk[f[1]][f[2]] # Gone}
\* A training or a cleanup counts for two operations of the registry.
Work == begun + 2 * (trainings + cleanups)
NoCleanup == [pc |-> "idle"]

(* An installation: either nothing yet, or models trained, registered and  *)
(* perhaps promoted some time ago (version 0), and files of any age.       *)
Installed(models, status) ==
  /\ registry = WriteLines(SetToSeq({[model_id |-> m, status |-> status[m]] : m \in models}))
  /\ ledger = status
  /\ disk = [m \in Models |-> [a \in Artifacts |-> IF m \in models THEN 0 ELSE Gone]]
  /\ pointer \in IF models = {} THEN {NoModel} ELSE models
  /\ aged \in {{}, Existing}

Init ==
  /\ \E models \in Installations : \E promoted \in models \cup {NoModel} :
       Installed(models, [m \in models |-> IF m = promoted THEN "production" ELSE "registered"])
  /\ backup = <<>> /\ regLock = NoProc /\ op = [p \in Procs |-> Idle]
  /\ tornAppends = 0 /\ overlapped = FALSE /\ begun = 0
  /\ training = NotTraining /\ trainings = 0
  /\ request = [t \in Threads |-> Resting] /\ cached = NoPredictor /\ cacheLock = {}
  /\ cleanup = NoCleanup /\ cleanups = 0

\* Bug form: the directory is protected, not what is below it.
Bug_ProtectsDirectoryOnly == {<<m>> : m \in ProductionModel}

(* The files of the production models: the directory and what is below it. *)
ProductionFiles == {f \in Existing : \E m \in ProductionModel : f \in ModelFiles(m)}

Protected == ProductionFiles \cup Reported \cup {RegistryFile}

StartCleanup ==
  /\ cleanup = NoCleanup
  /\ cleanups < MaxCleanups /\ Work + 2 <= MaxWork
  /\ cleanups' = cleanups + 1
  /\ \E dry_run \in BOOLEAN :
       cleanup' = [pc |-> "scans", next |-> 1, protected |-> Protected,
                   dry_run |-> dry_run, deleted |-> {},
                   production |-> ProductionModel, kept |-> Existing]
  /\ UNCHANGED <<regVars, begun, runtimeVars, aged>>

(* One file of the walk: kept, listed, or deleted. *)
ScanFile ==
  /\ cleanup # NoCleanup /\ cleanup.next <= Len(ScanOrder)
  /\ LET f == ScanOrder[cleanup.next]
         taken == f \in Existing \cap aged /\ f \notin cleanup.protected
         deletes == taken /\ ~cleanup.dry_run
     IN /\ cleanup' = [cleanup EXCEPT !.next = @ + 1,
                         !.deleted = IF taken THEN @ \cup {f} ELSE @]
        /\ IF deletes /\ f # RegistryFile
           THEN disk' = [disk EXCEPT ![f[1]][f[2]] = Gone] /\ Disturb(f[1])
           ELSE UNCHANGED <<disk, request>>
        /\ registry' = IF deletes /\ f = RegistryFile THEN <<>> ELSE registry
        /\ aged' = IF deletes THEN aged \ {f} ELSE aged
  /\ UNCHANGED <<backup, regLock, op, ledger, tornAppends, overlapped, begun,
                 pointer, training, trainings, cached, cacheLock, cleanups>>

EndCleanup ==
  /\ cleanup # NoCleanup /\ cleanup.next > Len(ScanOrder)
  /\ cleanup' = NoCleanup
  /\ UNCHANGED <<regVars, begun, runtimeVars, aged, cleanups>>

(* More than max_age_days go by while nothing is under way.                *)
GrowOld ==
  /\ cleanup = NoCleanup /\ training = NotTraining
  /\ \A p \in Procs : op[p] = Idle
  /\ \A t \in Threads : request[t] = Resting
  /\ aged' = Existing
  /\ aged' # aged
  /\ UNCHANGED <<regVars, begun, runtimeVars, retentionVars>>

(* What is written is young again. *)
RegistryStep ==
  /\ RegistryNext
  /\ begun' = begun \/ Work + 1 <= MaxWork
  /\ aged' = IF registry' # registry THEN aged \ {RegistryFile} ELSE aged
  /\ UNCHANGED <<runtimeVars, retentionVars>>

TrainingStep ==
  /\ TrainingNext
  /\ trainings' = trainings \/ Work + 2 <= MaxWork
  /\ aged' = {f \in aged : f = RegistryFile \/ disk'[f[1]][f[2]] = disk[f[1]][f[2]]}
  /\ UNCHANGED <<regVars, begun, retentionVars>>

RequestStep == RequestNext /\ UNCHANGED <<regVars, begun, aged, retentionVars>>

Next ==
  \/ RegistryStep \/ TrainingStep \/ RequestStep
  \/ StartCleanup \/ ScanFile \/ EndCleanup \/ GrowOld

Spec == Init /\ [][Next]_allVars

-----------------------------------------------------------------------------
(* Whatever is promoted, trained or served while a cleanup walks, it       *)
(* deletes no file that was there and that the production model of its     *)
(* start, a report or the registry owns; a dry run deletes nothing.        *)
CleanupSpares ==
  cleanup # NoCleanup =>
    \A f \in cleanup.kept :
      (\/ cleanup.dry_run
       \/ f = RegistryFile
       \/ f \in Reported
       \/ \E m \in cleanup.production : f \in ModelFiles(m)) => f \in Existing
=============================================================================
