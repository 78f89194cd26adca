---------------------------- MODULE RuntimeModels ----------------------------
(***************************************************************************)
(* The runtime models on disk (models/runtime_quantile.py) and the cache   *)
(* the API serves them from (api/model_cache.py).  Training writes the     *)
(* quantile files of a model directory one by one, then metadata.json with *)
(* their hashes, then runtime_latest.json; a request resolves the          *)
(* directory, takes the cache lock and loads what is not cached, file by   *)
(* file.  A file has a version, the training that wrote it; Half is a file *)
(* being written, Gone one that is not there.                              *)
(***************************************************************************)
EXTENDS Naturals, Sequences, FiniteSets

CONSTANTS
  Models,
  Quantiles,     \* the quantiles of a model, in the order they are written
  Threads,       \* the threads of the API that ask for the predictor
  MaxTrainings,
  MaxAttempts,   \* attempts to load before the request goes without (3 in the code)
  Gone, Half, NoModel

ASSUME RuntimeAssumption ==
  /\ MaxTrainings \in Nat /\ MaxAttempts \in Nat \ {0}
  /\ Quantiles \in Seq(STRING)
  /\ "metadata" \notin {Quantiles[i] : i \in DOMAIN Quantiles}
  /\ Gone \notin Nat /\ Half \notin Nat /\ Gone # Half

VARIABLES
  disk,       \* disk[m][a]: the version of artifact a of model m
  pointer,    \* what runtime_latest.json names
  training,   \* the training under way: its model, version and next artifact
  trainings,  \* trainings begun, the version the last one writes
  request,    \* what each thread is doing in get_runtime_predictor
  cached,     \* the cached predictor
  cacheLock   \* the thread inside _MODEL_CACHE_LOCK

runtimeVars == <<disk, pointer, training, trainings, request, cached, cacheLock>>

Artifacts == {Quantiles[i] : i \in DOMAIN Quantiles} \cup {"metadata"}
WriteOrder == Append(Quantiles, "metadata")
NotTraining == [pc |-> "idle"]
Resting == [pc |-> "idle"]
NoPredictor == [model |-> NoModel]

DirExists(m) == \E a \in Artifacts : disk[m][a] # Gone
Readable(v) == v \notin {Gone, Half}

-----------------------------------------------------------------------------
(* train_runtime_quantile_models. *)
StartTraining(m) ==
  /\ training = NotTraining
  /\ trainings < MaxTrainings
  /\ trainings' = trainings + 1
  /\ training' = [pc |-> "writes", model |-> m, next |-> 1]
  /\ UNCHANGED <<disk, pointer, request, cached, cacheLock>>

(* A load that is under way in the directory sees it change.               *)
Disturb(m) ==
  request' = [t \in Threads |->
    IF request[t].pc \in {"loads", "verified"} /\ request[t].model = m
    THEN [request[t] EXCEPT !.raced = TRUE] ELSE request[t]]

WriteArtifact ==
  /\ training # NotTraining /\ training.next <= Len(WriteOrder)
  /\ LET m == training.model
         a == WriteOrder[training.next]
         written == IF disk[m][a] = Half THEN trainings ELSE Half
     IN /\ disk' = [disk EXCEPT ![m][a] = written]
        /\ training' = [training EXCEPT !.next = IF written = Half THEN @ ELSE @ + 1]
        /\ Disturb(m)
  /\ UNCHANGED <<pointer, trainings, cached, cacheLock>>

(* write_json is not atomic: while it writes, the pointer cannot be read.  *)
WritePointer ==
  /\ training # NotTraining /\ training.next > Len(WriteOrder)
  /\ IF pointer = Half
     THEN pointer' = training.model /\ training' = NotTraining
     ELSE pointer' = Half /\ UNCHANGED training
  /\ UNCHANGED <<disk, trainings, request, cached, cacheLock>>

CrashTraining ==
  /\ training # NotTraining
  /\ training' = NotTraining
  /\ UNCHANGED <<disk, pointer, trainings, request, cached, cacheLock>>

-----------------------------------------------------------------------------
(* resolve_runtime_model_dir, before the lock is taken: None without a     *)
(* readable pointer to a directory that exists.                            *)
Resolve(t) ==
  /\ request[t] = Resting
  /\ pointer \in Models /\ DirExists(pointer)
  /\ request' = [request EXCEPT ![t] = [pc |-> "resolved", model |-> pointer]]
  /\ UNCHANGED <<disk, pointer, training, trainings, cached, cacheLock>>

StartLoad(m, attempt) ==
  [pc |-> "loads", model |-> m, attempt |-> attempt, next |-> 1, parts |-> <<>>,
   expected |-> disk[m]["metadata"], raced |-> FALSE]

(* Under the lock: the cached predictor of the directory, or a first load. *)
EnterCache(t) ==
  /\ request[t].pc = "resolved"
  /\ cacheLock = {}
  /\ IF cached.model = request[t].model
     THEN request' = [request EXCEPT ![t] = Resting] /\ UNCHANGED cacheLock
     ELSE /\ request' = [request EXCEPT ![t] = StartLoad(request[t].model, 1)]
          /\ cacheLock' = {t}
  /\ UNCHANGED <<disk, pointer, training, trainings, cached>>

(* FileNotFoundError: the load starts again, or the request is answered    *)
(* without a model and the cache is left as it is.                         *)
Missing(t) ==
  IF request[t].attempt < MaxAttempts
  THEN /\ request' = [request EXCEPT ![t] = StartLoad(request[t].model, request[t].attempt + 1)]
       /\ UNCHANGED cacheLock
  ELSE request' = [request EXCEPT ![t] = Resting] /\ cacheLock' = {}

(* A hash that differs, or a file cut short, is raised through the lock.   *)
Raise(t) == request' = [request EXCEPT ![t] = Resting] /\ cacheLock' = {}

\* Bug form: only the last quantile is verified.
Bug_VerifiesLastOnly(r, v) == r.next < Len(Quantiles) \/ v = r.expected

(* _verify_model_hash: nothing is verified when metadata.json gave none.   *)
HashOK(r, v) == ~Readable(r.expected) \/ v = r.expected

VerifyFile(t) ==
  /\ request[t].pc = "loads" /\ request[t].next <= Len(Quantiles)
  /\ LET v == disk[request[t].model][Quantiles[request[t].next]]
     IN IF v = Gone THEN Missing(t)
        ELSE IF ~HashOK(request[t], v) THEN Raise(t)
        ELSE request' = [request EXCEPT ![t].pc = "verified"] /\ UNCHANGED cacheLock
  /\ UNCHANGED <<disk, pointer, training, trainings, cached>>

LoadFile(t) ==
  /\ request[t].pc = "verified"
  /\ LET v == disk[request[t].model][Quantiles[request[t].next]]
     IN IF v = Gone THEN Missing(t)
        ELSE IF v = Half THEN Raise(t)
        ELSE /\ request' = [request EXCEPT ![t].pc = "loads", ![t].next = @ + 1,
                                           ![t].parts = Append(@, v)]
             /\ UNCHANGED cacheLock
  /\ UNCHANGED <<disk, pointer, training, trainings, cached>>

(* metadata.json is read again for log_transform, taken as false when it   *)
(* cannot be read; the predictor replaces the cached one.                  *)
FinishLoad(t) ==
  /\ request[t].pc = "loads" /\ request[t].next > Len(Quantiles)
  /\ cached' = [model |-> request[t].model, parts |-> request[t].parts,
                expected |-> request[t].expected, raced |-> request[t].raced,
                log |-> Readable(disk[request[t].model]["metadata"])]
  /\ request' = [request EXCEPT ![t] = Resting]
  /\ cacheLock' = {}
  /\ UNCHANGED <<disk, pointer, training, trainings>>

RequestNext ==
  \E t \in Threads :
    Resolve(t) \/ EnterCache(t) \/ VerifyFile(t) \/ LoadFile(t) \/ FinishLoad(t)

TrainingNext ==
  (\E m \in Models : StartTraining(m)) \/ WriteArtifact \/ WritePointer \/ CrashTraining

-----------------------------------------------------------------------------
(* A training cut short by a crash leaves files of two trainings in one    *)
(* directory: with metadata.json readable and nothing written meanwhile, a *)
(* load takes all its quantiles from one training, or takes none, and      *)
(* inverts the log transform they were trained with.                       *)
ServedIsWhole ==
  (cached # NoPredictor /\ Readable(cached.expected) /\ ~cached.raced) =>
    /\ \A i \in DOMAIN cached.parts : cached.parts[i] = cached.expected
    /\ cached.log
=============================================================================
