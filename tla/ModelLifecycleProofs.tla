------------------------ MODULE ModelLifecycleProofs ------------------------
(***************************************************************************)
(* Proofs about the model registry and the files it shares with trainings, *)
(* requests and cleanups, for every number of processes, models, quantiles *)
(* and operations, with crashes anywhere: one production model, no loss of *)
(* what was written by operations that do not overlap, cleanups that spare *)
(* what is protected, and models served whole.                             *)
(***************************************************************************)
EXTENDS ModelLifecycle, SharedLemmas

-----------------------------------------------------------------------------
(* Entries: at most one is in production, and it is the first of its model *)
(* (two processes may register one model twice; promote and archive change *)
(* the first entry of a model only).                                       *)

Statuses == {"none", "registered", "production", "archived"}
Entry == [model_id : ModelIds \cup {"none"}, status : Statuses]
LineRecord == [entry : Entry, ended : BOOLEAN]

Sole(entries) == \A i \in DOMAIN entries : entries[i].status = "production" =>
  \A j \in DOMAIN entries :
    /\ entries[j].status = "production" => j = i
    /\ entries[j].model_id = entries[i].model_id => i <= j

(* FirstOf finds the first entry of a model that has one.                  *)
LEMMA FirstFound ==
  ASSUME NEW entries \in Seq(Entry), NEW m, FindEntry(entries, m) # {}
  PROVE  /\ FirstOf(entries, m) \in DOMAIN entries
         /\ entries[FirstOf(entries, m)].model_id = m
         /\ \A j \in DOMAIN entries : entries[j].model_id = m => FirstOf(entries, m) <= j
<1>1. FindEntry(entries, m) \in SUBSET Nat
  BY DEF FindEntry
<1>2. \E i \in FindEntry(entries, m) : \A j \in FindEntry(entries, m) : i <= j
  BY <1>1, LeastNatural
<1>3. /\ FirstOf(entries, m) \in FindEntry(entries, m)
      /\ \A j \in FindEntry(entries, m) : FirstOf(entries, m) <= j
  BY <1>2 DEF FirstOf
<1> QED
  BY <1>3 DEF FindEntry

(* promote: the production entry of before is demoted, whichever it was.   *)
LEMMA PromotedSole ==
  ASSUME NEW entries \in Seq(Entry), NEW m, Sole(entries), FindEntry(entries, m) # {}
  PROVE  Promoted(entries, m) \in Seq(Entry) /\ Sole(Promoted(entries, m))
<1> DEFINE k == FirstOf(entries, m)
           after == Promoted(entries, m)
<1>1. k \in DOMAIN entries /\ entries[k].model_id = m
      /\ \A j \in DOMAIN entries : entries[j].model_id = m => k <= j
  BY FirstFound
<1> HIDE DEF k
<1>2. DOMAIN after = 1..Len(entries) /\ DOMAIN entries = 1..Len(entries)
      /\ Len(entries) \in Nat
  BY DEF Promoted
<1>3. \A i \in DOMAIN entries :
        /\ after[i] \in Entry
        /\ after[i].model_id = entries[i].model_id
        /\ after[i].status = "production" => i = k
  <2> SUFFICES ASSUME NEW i \in DOMAIN entries
               PROVE  /\ after[i] \in Entry
                      /\ after[i].model_id = entries[i].model_id
                      /\ after[i].status = "production" => i = k
    OBVIOUS
  <2>1. entries[i] \in Entry
    OBVIOUS
  <2>2. CASE i = k
    <3>1. after[i] = [entries[i] EXCEPT !.status = "production"]
      BY <2>2, <1>2 DEF Promoted, k
    <3> QED
      BY <2>1, <2>2, <3>1 DEF Entry, Statuses
  <2>3. CASE i # k /\ entries[i].status = "production" /\ entries[i].model_id # m
    <3>1. after[i] = [entries[i] EXCEPT !.status = "registered"]
      BY <2>3, <1>2 DEF Promoted, k
    <3> QED
      BY <2>1, <2>3, <3>1 DEF Entry, Statuses
  <2>4. CASE i # k /\ ~(entries[i].status = "production" /\ entries[i].model_id # m)
    <3>1. after[i] = entries[i]
      BY <2>4, <1>2 DEF Promoted, k
    <3>2. ~(entries[i].status = "production" /\ entries[i].model_id = m)
      <4> SUFFICES ASSUME entries[i].status = "production", entries[i].model_id = m
                   PROVE  FALSE
        OBVIOUS
      <4>1. i <= k /\ k <= i
        BY <1>1 DEF Sole
      <4> QED
        BY <4>1, <2>4, <1>1, <1>2
    <3> QED
      BY <2>1, <2>4, <3>1, <3>2
  <2> QED
    BY <2>2, <2>3, <2>4
<1>4. after \in Seq(Entry)
  <2>1. after = [i \in 1..Len(entries) |-> after[i]]
    BY <1>2 DEF Promoted
  <2>2. \A i \in 1..Len(entries) : after[i] \in Entry
    BY <1>2, <1>3
  <2> HIDE DEF after
  <2> QED
    BY <1>2, <2>1, <2>2
<1>5. Sole(after)
  <2> HIDE DEF after
  <2> QED
    BY <1>1, <1>2, <1>3 DEF Sole
<1> QED
  BY <1>4, <1>5

(* archive takes a model out of production, and puts none there.           *)
LEMMA ArchivedSole ==
  ASSUME NEW entries \in Seq(Entry), NEW m, Sole(entries), FindEntry(entries, m) # {}
  PROVE  Archived(entries, m) \in Seq(Entry) /\ Sole(Archived(entries, m))
<1> DEFINE k == FirstOf(entries, m)
           after == [entries EXCEPT ![k] = [@ EXCEPT !.status = "archived"]]
<1>1. k \in DOMAIN entries
  BY FirstFound
<1>2. Archived(entries, m) = after
  BY DEF Archived
<1> HIDE DEF k
<1>3. after \in Seq(Entry)
  <2>1. entries[k] \in Entry
    BY <1>1
  <2>2. [entries[k] EXCEPT !.status = "archived"] \in Entry
    BY <2>1 DEF Entry, Statuses
  <2> QED
    BY <1>1, <2>2
<1>4. \A i \in DOMAIN entries :
        /\ after[i].model_id = entries[i].model_id
        /\ after[i].status = "production" => entries[i].status = "production"
  <2> SUFFICES ASSUME NEW i \in DOMAIN entries
               PROVE  /\ after[i].model_id = entries[i].model_id
                      /\ after[i].status = "production" => entries[i].status = "production"
    OBVIOUS
  <2>1. entries[i] \in Entry
    OBVIOUS
  <2>2. CASE i = k
    BY <2>1, <2>2 DEF Entry
  <2>3. CASE i # k
    BY <2>3
  <2> QED
    BY <2>2, <2>3
<1>5. DOMAIN after = DOMAIN entries
  OBVIOUS
<1> HIDE DEF after
<1>6. Sole(after)
  BY <1>4, <1>5 DEF Sole
<1> QED
  BY <1>2, <1>3, <1>6

(* An append adds a line at the end, or spoils the last one that has no    *)
(* newline; it puts nothing into production.                               *)
LEMMA AppendSole ==
  ASSUME NEW lines \in Seq(LineRecord), Sole(EntriesOf(lines)),
         NEW e \in Entry, e.status # "production", NEW ended \in BOOLEAN
  PROVE  /\ AppendLine(lines, e, ended) \in Seq(LineRecord)
         /\ AppendLine(lines, e, ended) # <<>>
         /\ Sole(EntriesOf(AppendLine(lines, e, ended)))
<1> DEFINE after == AppendLine(lines, e, ended)
<1>1. NoEntry \in Entry /\ NoEntry.status # "production"
  BY DEF NoEntry, Entry, Statuses
<1>2. PICK front \in Seq(LineRecord), x \in Entry :
        /\ x.status # "production"
        /\ Len(front) <= Len(lines)
        /\ \A i \in 1..Len(front) : front[i] = lines[i]
        /\ after = Append(front, Line(x, ended))
  <2>1. CASE lines # <<>> /\ ~Last(lines).ended
    <3> DEFINE most == SubSeq(lines, 1, Len(lines) - 1)
    <3>1. after = Append(most, Line(NoEntry, ended))
      BY <2>1 DEF AppendLine, Front
    <3>2. /\ most \in Seq(LineRecord) /\ Len(most) <= Len(lines)
          /\ \A i \in 1..Len(most) : most[i] = lines[i]
      BY <2>1
    <3> HIDE DEF after, most
    <3> QED
      BY <1>1, <3>1, <3>2
  <2>2. CASE ~(lines # <<>> /\ ~Last(lines).ended)
    <3>1. after = Append(lines, Line(e, ended))
      BY <2>2 DEF AppendLine
    <3>2. Len(lines) <= Len(lines)
      OBVIOUS
    <3> HIDE DEF after
    <3> QED
      BY <3>1, <3>2
  <2> QED
    BY <2>1, <2>2
<1> HIDE DEF after
<1> DEFINE n == Len(front)
<1>3. Line(x, ended) \in LineRecord /\ Line(x, ended).entry = x
  BY DEF Line, LineRecord
<1>4. n \in Nat /\ n <= Len(lines)
  BY <1>2
<1>5. /\ after \in Seq(LineRecord) /\ Len(after) = n + 1
      /\ \A i \in 1..n : after[i] = lines[i]
      /\ after[n + 1] = Line(x, ended)
  BY <1>2, <1>3, <1>4
<1> HIDE DEF n
<1>6. DOMAIN after = 1..(n + 1) /\ DOMAIN lines = 1..Len(lines) /\ Len(lines) \in Nat
  BY <1>5
<1>7. /\ DOMAIN EntriesOf(after) = 1..(n + 1)
      /\ EntriesOf(after)[n + 1] = x
      /\ \A i \in 1..n : EntriesOf(after)[i] = EntriesOf(lines)[i]
      /\ 1..n \subseteq DOMAIN EntriesOf(lines)
  BY <1>2, <1>3, <1>4, <1>5, <1>6 DEF EntriesOf
<1> DEFINE now == EntriesOf(after)
           past == EntriesOf(lines)
<1>8. Sole(now)
  <2> HIDE DEF now, past
  <2> SUFFICES ASSUME NEW i \in DOMAIN now, now[i].status = "production",
                      NEW j \in DOMAIN now
               PROVE  /\ now[j].status = "production" => j = i
                      /\ now[j].model_id = now[i].model_id => i <= j
    BY DEF Sole
  <2>1. i \in 1..n /\ i \in DOMAIN past /\ now[i] = past[i]
    BY <1>2, <1>4, <1>7 DEF now, past
  <2>2. CASE j \in 1..n
    <3>1. j \in DOMAIN past /\ now[j] = past[j]
      BY <2>2, <1>7 DEF now, past
    <3> QED
      BY <2>1, <3>1 DEF Sole, past
  <2>3. CASE j = n + 1
    BY <1>2, <1>4, <1>7, <2>1, <2>3 DEF now
  <2> QED
    BY <1>4, <1>7, <2>2, <2>3 DEF now
<1>9. after # <<>>
  BY <1>4, <1>5
<1> QED
  BY <1>5, <1>8, <1>9 DEF after

(* What is written is what is read back.                                   *)
LEMMA WrittenEntries ==
  ASSUME NEW entries \in Seq(Entry)
  PROVE  /\ WriteLines(entries) \in Seq(LineRecord)
         /\ EntriesOf(WriteLines(entries)) = entries
         /\ entries # <<>> => WriteLines(entries) # <<>>
<1>1. \A i \in DOMAIN entries :
        Line(entries[i], TRUE) \in LineRecord /\ Line(entries[i], TRUE).entry = entries[i]
  BY DEF Line, LineRecord
<1>2. DOMAIN WriteLines(entries) = DOMAIN entries
  BY DEF WriteLines
<1>3. WriteLines(entries) \in Seq(LineRecord)
  <2>1. DOMAIN entries = 1..Len(entries) /\ Len(entries) \in Nat
    OBVIOUS
  <2> DEFINE lines == WriteLines(entries)
  <2>2. lines = [i \in 1..Len(entries) |-> lines[i]]
    BY <2>1 DEF WriteLines
  <2>3. \A i \in 1..Len(entries) : lines[i] \in LineRecord
    BY <1>1, <2>1 DEF WriteLines
  <2>4. lines \in Seq(LineRecord)
    <3> HIDE DEF lines
    <3> QED
      BY <2>1, <2>2, <2>3
  <2> QED
    BY <2>4
<1>4. EntriesOf(WriteLines(entries)) = [i \in DOMAIN entries |-> entries[i]]
  <2> DEFINE lines == WriteLines(entries)
  <2>1. \A i \in DOMAIN entries : lines[i].entry = entries[i]
    BY <1>1 DEF WriteLines
  <2>2. EntriesOf(lines) = [i \in DOMAIN entries |-> lines[i].entry]
    BY <1>2 DEF EntriesOf
  <2>3. EntriesOf(lines) = [i \in DOMAIN entries |-> entries[i]]
    <3> HIDE DEF lines
    <3> QED
      BY <2>1, <2>2
  <2> QED
    BY <2>3
<1>5. entries = [i \in DOMAIN entries |-> entries[i]]
  OBVIOUS
<1>6. entries # <<>> => WriteLines(entries) # <<>>
  BY <1>2
<1> QED
  BY <1>3, <1>4, <1>5, <1>6

-----------------------------------------------------------------------------
(* The registry: what every process is about to write, read perhaps long   *)
(* ago and since overwritten, is as well-formed as what the file holds.    *)

Working == [pc : {"waits", "append", "backup", "replace"},
            kind : {"register", "promote", "archive"},
            model : ModelIds, entries : Seq(Entry)]

(* Only operations that read some entries rewrite the file.                *)
Writable(w) ==
  /\ Sole(w.entries)
  /\ w.kind # "register" => w.entries # <<>>
  /\ w.pc \in {"backup", "replace"} => w.kind # "register"

RegistryInv ==
  /\ registry \in Seq(LineRecord)
  /\ Sole(ReadAll)
  /\ op \in [Procs -> {Idle} \cup Working]
  /\ \A p \in Procs : op[p] # Idle => Writable(op[p])

(* A step that changes what one process does, and no line.                 *)
LEMMA OpChanges ==
  ASSUME RegistryInv, NEW p \in Procs, NEW w \in {Idle} \cup Working,
         w # Idle => Writable(w), op' = [op EXCEPT ![p] = w]
  PROVE  /\ op' \in [Procs -> {Idle} \cup Working]
         /\ \A q \in Procs : op'[q] # Idle => Writable(op'[q])
<1>1. op' \in [Procs -> {Idle} \cup Working]
  BY DEF RegistryInv
<1>2. \A q \in Procs : op'[q] = IF q = p THEN w ELSE op[q]
  BY DEF RegistryInv
<1> QED
  BY <1>1, <1>2 DEF RegistryInv

LEMMA ReadEntries ==
  ASSUME RegistryInv
  PROVE  ReadAll \in Seq(Entry)
<1>1. DOMAIN registry = 1..Len(registry) /\ Len(registry) \in Nat
  BY DEF RegistryInv
<1>2. \A i \in 1..Len(registry) : registry[i].entry \in Entry
  <2>1. \A i \in 1..Len(registry) : registry[i] \in LineRecord
    BY <1>1 DEF RegistryInv
  <2>2. \A line \in LineRecord : line.entry \in Entry
    BY DEF LineRecord
  <2> QED
    BY <2>1, <2>2
<1> DEFINE now == ReadAll
<1>3. now = [i \in 1..Len(registry) |-> registry[i].entry]
  BY <1>1 DEF ReadAll, EntriesOf
<1>4. now \in Seq(Entry)
  <2> HIDE DEF now
  <2> QED
    BY <1>1, <1>2, <1>3
<1> QED
  BY <1>4

(* An operation starts with entries that are fit to be written.            *)
LEMMA BeginKeeps ==
  ASSUME RegistryInv, NEW p \in Procs, NEW m \in ModelIds,
         NEW kind \in {"register", "promote", "archive"},
         NEW entries \in Seq(Entry), Sole(entries),
         kind # "register" => entries # <<>>,
         Begin(p, kind, m, entries)
  PROVE  RegistryInv' /\ registry' = registry
<1> DEFINE w == [pc |-> "waits", kind |-> kind, model |-> m, entries |-> entries]
<1>1. op' = [op EXCEPT ![p] = w] /\ registry' = registry
  BY DEF Begin
<1>2. w \in Working /\ Writable(w)
  BY DEF Working, Writable
<1> HIDE DEF w
<1>3. /\ op' \in [Procs -> {Idle} \cup Working]
      /\ \A q \in Procs : op'[q] # Idle => Writable(op'[q])
  BY <1>1, <1>2, OpChanges
<1> QED
  BY <1>1, <1>3 DEF RegistryInv, ReadAll

(* No step of a process, nor its crash, harms the registry; none empties   *)
(* it.                                                                     *)
LEMMA RegistryStepKeeps ==
  ASSUME RegistryInv, RegistryNext
  PROVE  RegistryInv' /\ (registry # <<>> => registry' # <<>>)
<1> PICK p \in Procs :
      \/ \E m \in ModelIds : Register(p, m) \/ Promote(p, m) \/ Archive(p, m)
      \/ TakeLock(p) \/ GiveUp(p) \/ AppendOne(p) \/ Backup(p) \/ Replace(p)
      \/ CrashRegistry(p)
  BY DEF RegistryNext
<1>0. ReadAll \in Seq(Entry) /\ Sole(ReadAll)
  BY ReadEntries DEF RegistryInv
<1>1. ASSUME NEW m \in ModelIds, Register(p, m)
      PROVE  RegistryInv' /\ registry' = registry
  <2>1. Begin(p, "register", m, <<>>)
    BY <1>1 DEF Register
  <2>2. Sole(<<>>) /\ <<>> \in Seq(Entry)
    BY DEF Sole
  <2> QED
    BY <2>1, <2>2, BeginKeeps
<1>2. ASSUME NEW m \in ModelIds, Promote(p, m)
      PROVE  RegistryInv' /\ registry' = registry
  <2>1. Begin(p, "promote", m, Promoted(ReadAll, m)) /\ FindEntry(ReadAll, m) # {}
    BY <1>2 DEF Promote
  <2>2. Promoted(ReadAll, m) \in Seq(Entry) /\ Sole(Promoted(ReadAll, m))
    BY <1>0, <2>1, PromotedSole
  <2>3. Promoted(ReadAll, m) # <<>>
    BY <2>1 DEF Promoted, FindEntry
  <2> QED
    BY <2>1, <2>2, <2>3, BeginKeeps
<1>3. ASSUME NEW m \in ModelIds, Archive(p, m)
      PROVE  RegistryInv' /\ registry' = registry
  <2>1. Begin(p, "archive", m, Archived(ReadAll, m)) /\ FindEntry(ReadAll, m) # {}
    BY <1>3 DEF Archive
  <2>2. Archived(ReadAll, m) \in Seq(Entry) /\ Sole(Archived(ReadAll, m))
    BY <1>0, <2>1, ArchivedSole
  <2>3. Archived(ReadAll, m) # <<>>
    BY <2>1 DEF Archived, FindEntry
  <2> QED
    BY <2>1, <2>2, <2>3, BeginKeeps
<1>4. CASE TakeLock(p)
  <2> DEFINE w == [op[p] EXCEPT !.pc = IF op[p].kind = "register" THEN "append" ELSE "backup"]
  <2>1. op' = [op EXCEPT ![p] = w] /\ registry' = registry /\ op[p] \in Working /\ Writable(op[p])
    BY <1>4 DEF TakeLock, RegistryInv
  <2>2. w \in Working /\ Writable(w)
    BY <2>1 DEF Working, Writable
  <2> HIDE DEF w
  <2>3. /\ op' \in [Procs -> {Idle} \cup Working]
        /\ \A q \in Procs : op'[q] # Idle => Writable(op'[q])
    BY <2>1, <2>2, OpChanges
  <2> QED
    BY <2>1, <2>3 DEF RegistryInv, ReadAll
<1>5. CASE GiveUp(p)
  <2>1. op' = [op EXCEPT ![p] = Idle] /\ registry' = registry
    BY <1>5 DEF GiveUp
  <2>2. /\ op' \in [Procs -> {Idle} \cup Working]
        /\ \A q \in Procs : op'[q] # Idle => Writable(op'[q])
    BY <2>1, OpChanges
  <2> QED
    BY <2>1, <2>2 DEF RegistryInv, ReadAll
<1>6. CASE AppendOne(p)
  <2> DEFINE e == [model_id |-> op[p].model, status |-> "registered"]
  <2>1. op' = [op EXCEPT ![p] = Idle] /\ registry' = AppendLine(registry, e, TRUE)
        /\ op[p] \in Working
    BY <1>6 DEF AppendOne, RegistryInv
  <2>2. e \in Entry /\ e.status # "production"
    BY <2>1 DEF Working, Entry, Statuses
  <2> HIDE DEF e
  <2>3. registry' \in Seq(LineRecord) /\ registry' # <<>> /\ Sole(EntriesOf(registry'))
    BY <2>1, <2>2, AppendSole DEF RegistryInv, ReadAll
  <2>4. /\ op' \in [Procs -> {Idle} \cup Working]
        /\ \A q \in Procs : op'[q] # Idle => Writable(op'[q])
    BY <2>1, OpChanges
  <2> QED
    BY <2>3, <2>4 DEF RegistryInv, ReadAll
<1>7. CASE Backup(p)
  <2> DEFINE w == [op[p] EXCEPT !.pc = "replace"]
  <2>1. op' = [op EXCEPT ![p] = w] /\ registry' = registry /\ op[p] \in Working
        /\ Writable(op[p]) /\ op[p].pc = "backup"
    BY <1>7 DEF Backup, RegistryInv
  <2>2. w \in Working /\ Writable(w)
    BY <2>1 DEF Working, Writable
  <2> HIDE DEF w
  <2>3. /\ op' \in [Procs -> {Idle} \cup Working]
        /\ \A q \in Procs : op'[q] # Idle => Writable(op'[q])
    BY <2>1, <2>2, OpChanges
  <2> QED
    BY <2>1, <2>3 DEF RegistryInv, ReadAll
<1>8. CASE Replace(p)
  <2>1. op' = [op EXCEPT ![p] = Idle] /\ registry' = WriteLines(op[p].entries)
        /\ op[p] \in Working /\ Writable(op[p]) /\ op[p].pc = "replace"
    BY <1>8 DEF Replace, RegistryInv
  <2>2. op[p].entries \in Seq(Entry) /\ Sole(op[p].entries) /\ op[p].entries # <<>>
    BY <2>1 DEF Working, Writable
  <2>3. registry' \in Seq(LineRecord) /\ registry' # <<>> /\ Sole(EntriesOf(registry'))
    BY <2>1, <2>2, WrittenEntries
  <2>4. /\ op' \in [Procs -> {Idle} \cup Working]
        /\ \A q \in Procs : op'[q] # Idle => Writable(op'[q])
    BY <2>1, OpChanges
  <2> QED
    BY <2>3, <2>4 DEF RegistryInv, ReadAll
<1>9. CASE CrashRegistry(p)
  <2>1. op' = [op EXCEPT ![p] = Idle] /\ op[p] \in Working
    BY <1>9 DEF CrashRegistry, RegistryInv
  <2>2. /\ op' \in [Procs -> {Idle} \cup Working]
        /\ \A q \in Procs : op'[q] # Idle => Writable(op'[q])
    BY <2>1, OpChanges
  <2>3. CASE registry' = registry
    BY <2>2, <2>3 DEF RegistryInv, ReadAll
  <2>4. ASSUME NEW e \in {NoEntry, [model_id |-> op[p].model, status |-> "registered"]},
               registry' = AppendLine(registry, e, FALSE)
        PROVE  RegistryInv' /\ registry' # <<>>
    <3>1. e \in Entry /\ e.status # "production"
      BY <2>1 DEF Working, Entry, Statuses, NoEntry
    <3>2. registry' \in Seq(LineRecord) /\ registry' # <<>> /\ Sole(EntriesOf(registry'))
      BY <2>4, <3>1, AppendSole DEF RegistryInv, ReadAll
    <3> QED
      BY <2>2, <3>2 DEF RegistryInv, ReadAll
  <2> QED
    BY <1>9, <2>3, <2>4 DEF CrashRegistry
<1> QED
  BY <1>1, <1>2, <1>3, <1>4, <1>5, <1>6, <1>7, <1>8, <1>9
     DEF TakeLock, GiveUp, Backup

(* A registry whose entries are sole has one production model at most.     *)
LEMMA SoleIsOne ==
  ASSUME RegistryInv
  PROVE  OneProduction
<1>1. \A i, j \in GetProduction : i = j
  BY DEF GetProduction, RegistryInv, Sole
<1>2. CASE GetProduction = {}
  <2>1. Cardinality(GetProduction) = 0
    BY <1>2, FS_EmptySet
  <2> QED
    BY <2>1 DEF OneProduction
<1>3. CASE GetProduction # {}
  <2>1. PICK i : GetProduction = {i}
    BY <1>1, <1>3
  <2>2. Cardinality(GetProduction) = 1
    BY <2>1, FS_Singleton
  <2> QED
    BY <2>2 DEF OneProduction
<1> QED
  BY <1>2, <1>3

-----------------------------------------------------------------------------
(* What was written stands.                                                *)

(* A line that a crash left without its newline cannot be relied on: the   *)
(* next append spoils it.                                                  *)
Unended(lines) == lines # <<>> /\ ~Last(lines).ended
SureOf(lines) == EntriesOf(IF Unended(lines) THEN Front(lines) ELSE lines)

HeldIn(entries, m) ==
  IF FindEntry(entries, m) = {} THEN {} ELSE {entries[FirstOf(entries, m)].status}

(* The models whose promised status the entries do not give.               *)
Lost(entries, statuses) == {m \in DOMAIN statuses : HeldIn(entries, m) # {statuses[m]}}

(* What an operation read is still what the file holds.                    *)
Current(w) ==
  /\ w.pc = "append" => w.kind = "register"
  /\ IF w.kind = "register" THEN FindEntry(ReadAll, w.model) = {}
     ELSE /\ FindEntry(ReadAll, w.model) # {}
          /\ w.entries = IF w.kind = "promote" THEN Promoted(ReadAll, w.model)
                                               ELSE Archived(ReadAll, w.model)

Alone == \A p, q \in Procs : op[p] # Idle /\ op[q] # Idle => p = q

(* Each append cut short has lost one promised status at most, and the one *)
(* whose line is still the last may lose one yet.                          *)
Tally ==
  Cardinality(Lost(SureOf(registry), ledger)) + (IF Unended(registry) THEN 1 ELSE 0) <= tornAppends

StandInv ==
  /\ overlapped \in BOOLEAN /\ tornAppends \in Nat
  /\ ~overlapped => /\ DOMAIN ledger \subseteq ModelIds /\ IsFiniteSet(DOMAIN ledger)
                    /\ Alone /\ Tally
                    /\ \A p \in Procs : op[p] # Idle => Current(op[p])

(* Entries that continue others hold the same for every model of theirs.   *)
LEMMA ContinuedHolds ==
  ASSUME NEW a \in Seq(Entry), NEW b \in Seq(Entry), Len(a) <= Len(b),
         \A i \in 1..Len(a) : a[i] = b[i], NEW n
  PROVE  /\ FindEntry(a, n) # {} => HeldIn(b, n) = HeldIn(a, n)
         /\ (\A i \in (Len(a) + 1)..Len(b) : b[i].model_id # n) => HeldIn(b, n) = HeldIn(a, n)
<1>1. Len(a) \in Nat /\ Len(b) \in Nat /\ DOMAIN a = 1..Len(a) /\ DOMAIN b = 1..Len(b)
  OBVIOUS
<1>2. FindEntry(a, n) \subseteq FindEntry(b, n)
  BY <1>1 DEF FindEntry
<1>3. ASSUME FindEntry(a, n) # {}
      PROVE  HeldIn(b, n) = HeldIn(a, n)
  <2> DEFINE k == FirstOf(a, n)
             j == FirstOf(b, n)
  <2>1. k \in DOMAIN a /\ a[k].model_id = n /\ \A i \in DOMAIN a : a[i].model_id = n => k <= i
    BY <1>3, FirstFound
  <2>2. j \in DOMAIN b /\ b[j].model_id = n /\ \A i \in DOMAIN b : b[i].model_id = n => j <= i
    BY <1>2, <1>3, FirstFound
  <2> HIDE DEF k, j
  <2>3. k \in DOMAIN b /\ b[k] = a[k]
    BY <1>1, <2>1
  <2>4. j <= k
    BY <2>1, <2>2, <2>3
  <2>5. j \in DOMAIN a /\ a[j] = b[j]
    BY <1>1, <2>1, <2>2, <2>4
  <2>6. j = k
    BY <1>1, <2>1, <2>2, <2>4, <2>5
  <2>7. FindEntry(b, n) # {}
    BY <1>2, <1>3
  <2> QED
    BY <1>3, <2>3, <2>6, <2>7 DEF HeldIn, j, k
<1>4. ASSUME FindEntry(a, n) = {}, \A i \in (Len(a) + 1)..Len(b) : b[i].model_id # n
      PROVE  HeldIn(b, n) = HeldIn(a, n)
  <2>1. FindEntry(b, n) = {}
    BY <1>1, <1>4 DEF FindEntry
  <2> QED
    BY <1>4, <2>1 DEF HeldIn
<1> QED
  BY <1>3, <1>4

(* A model appended for the first time is held with its status.            *)
LEMMA AppendedHolds ==
  ASSUME NEW a \in Seq(Entry), NEW e \in Entry
  PROVE  /\ \A n : n # e.model_id => HeldIn(Append(a, e), n) = HeldIn(a, n)
         /\ FindEntry(a, e.model_id) = {} => HeldIn(Append(a, e), e.model_id) = {e.status}
<1> DEFINE b == Append(a, e)
<1>1. /\ b \in Seq(Entry) /\ Len(a) \in Nat /\ Len(b) = Len(a) + 1
      /\ \A i \in 1..Len(a) : a[i] = b[i]
      /\ b[Len(a) + 1] = e /\ DOMAIN b = 1..(Len(a) + 1) /\ DOMAIN a = 1..Len(a)
  OBVIOUS
<1> HIDE DEF b
<1>2. ASSUME NEW n, n # e.model_id
      PROVE  HeldIn(b, n) = HeldIn(a, n)
  <2>1. \A i \in (Len(a) + 1)..Len(b) : b[i].model_id # n
    BY <1>1, <1>2
  <2> QED
    BY <1>1, <2>1, ContinuedHolds
<1>3. ASSUME FindEntry(a, e.model_id) = {}
      PROVE  HeldIn(b, e.model_id) = {e.status}
  <2>1. FindEntry(b, e.model_id) = {Len(a) + 1}
    BY <1>1, <1>3 DEF FindEntry
  <2>2. FirstOf(b, e.model_id) = Len(a) + 1
    BY <1>1, <2>1 DEF FirstOf
  <2> QED
    BY <1>1, <2>1, <2>2 DEF HeldIn
<1> QED
  BY <1>2, <1>3 DEF b

(* An append follows what can be relied on; its own entry is lost when it  *)
(* spoils a line.                                                          *)
LEMMA AppendsToSure ==
  ASSUME NEW lines \in Seq(LineRecord), NEW e \in Entry, NEW ended \in BOOLEAN
  PROVE  /\ SureOf(lines) \in Seq(Entry)
         /\ EntriesOf(AppendLine(lines, e, ended))
              = Append(SureOf(lines), IF Unended(lines) THEN NoEntry ELSE e)
         /\ Unended(AppendLine(lines, e, ended)) <=> ~ended
         /\ ~ended => SureOf(AppendLine(lines, e, ended)) = SureOf(lines)
         /\ ended => SureOf(AppendLine(lines, e, ended)) = EntriesOf(AppendLine(lines, e, ended))
<1> DEFINE front == IF Unended(lines) THEN SubSeq(lines, 1, Len(lines) - 1) ELSE lines
           x == IF Unended(lines) THEN NoEntry ELSE e
           after == Append(front, Line(x, ended))
<1>1. x \in Entry
  BY DEF NoEntry, Entry, Statuses
<1>2. front \in Seq(LineRecord) /\ SureOf(lines) = EntriesOf(front)
  <2>1. CASE Unended(lines)
    <3>1. lines # <<>>
      BY <2>1 DEF Unended
    <3>2. Front(lines) = SubSeq(lines, 1, Len(lines) - 1)
      BY DEF Front
    <3>3. SubSeq(lines, 1, Len(lines) - 1) \in Seq(LineRecord)
      BY <3>1
    <3> QED
      BY <2>1, <3>2, <3>3 DEF SureOf
  <2>2. CASE ~Unended(lines)
    BY <2>2 DEF SureOf
  <2> QED
    BY <2>1, <2>2
<1>3. AppendLine(lines, e, ended) = after
  BY DEF AppendLine, Unended, Front
<1> HIDE DEF front, x
<1> DEFINE n == Len(front)
<1>4. Line(x, ended) \in LineRecord /\ Line(x, ended).entry = x /\ Line(x, ended).ended = ended
  BY <1>1 DEF Line, LineRecord
<1>5. /\ n \in Nat /\ after \in Seq(LineRecord) /\ Len(after) = n + 1
      /\ DOMAIN after = 1..(n + 1) /\ DOMAIN front = 1..n
      /\ \A i \in 1..n : after[i] = front[i]
      /\ after[n + 1] = Line(x, ended)
  BY <1>2, <1>4
<1>6. Len(after) - 1 = n /\ SubSeq(after, 1, n) = front
  BY <1>2, <1>4, <1>5
<1> HIDE DEF after, n
<1>7. EntriesOf(front) \in Seq(Entry) /\ Len(EntriesOf(front)) = n /\ DOMAIN EntriesOf(front) = 1..n
  <2>1. \A i \in 1..n : front[i].entry \in Entry
    <3>1. \A i \in 1..n : front[i] \in LineRecord
      BY <1>2, <1>5
    <3>2. \A line \in LineRecord : line.entry \in Entry
      BY DEF LineRecord
    <3> QED
      BY <3>1, <3>2
  <2> DEFINE now == EntriesOf(front)
  <2>2. now = [i \in 1..n |-> front[i].entry]
    BY <1>5 DEF EntriesOf
  <2>3. now \in Seq(Entry) /\ Len(now) = n /\ DOMAIN now = 1..n
    <3> HIDE DEF now
    <3> QED
      BY <1>5, <2>1, <2>2
  <2> QED
    BY <2>3
<1>8. EntriesOf(after) = Append(EntriesOf(front), x)
  <2> DEFINE now == EntriesOf(front)
             then == EntriesOf(after)
  <2>1. then = [i \in 1..(n + 1) |-> after[i].entry]
    BY <1>5 DEF EntriesOf
  <2>2. \A i \in 1..n : then[i] = now[i]
    BY <1>5 DEF EntriesOf
  <2>3. then[n + 1] = x
    BY <1>4, <1>5 DEF EntriesOf
  <2>4. now \in Seq(Entry) /\ Len(now) = n /\ then = [i \in 1..(n + 1) |-> then[i]]
    BY <1>7, <2>1
  <2> HIDE DEF now, then
  <2> DEFINE longer == Append(now, x)
  <2>5. longer \in Seq(Entry) /\ Len(longer) = n + 1
    BY <1>1, <1>5, <2>4
  <2>6. (\A i \in 1..n : longer[i] = now[i]) /\ longer[n + 1] = x
    BY <1>1, <1>5, <2>4
  <2> HIDE DEF longer
  <2>7. longer = [i \in 1..(n + 1) |-> longer[i]]
    BY <1>5, <2>5
  <2>8. \A i \in 1..(n + 1) : then[i] = longer[i]
    BY <1>5, <2>2, <2>3, <2>6
  <2>9. then = longer
    BY <2>4, <2>7, <2>8
  <2> QED
    BY <2>9 DEF now, then, longer
<1>9. Last(after) = Line(x, ended) /\ after # <<>>
  BY <1>5 DEF Last
<1>10. Unended(after) <=> ~ended
  BY <1>4, <1>9 DEF Unended
<1>11. Front(after) = front
  BY <1>5, <1>6 DEF Front
<1>12. ~ended => SureOf(after) = SureOf(lines)
  BY <1>2, <1>10, <1>11 DEF SureOf
<1>13. ended => SureOf(after) = EntriesOf(after)
  BY <1>10 DEF SureOf
<1> QED
  BY <1>2, <1>3, <1>7, <1>8, <1>10, <1>12, <1>13 DEF x

(* promote and archive change the first entry of their model, and promote  *)
(* every other one in production.                                          *)
LEMMA RewrittenHolds ==
  ASSUME NEW a \in Seq(Entry), NEW m, FindEntry(a, m) # {}
  PROVE  /\ HeldIn(Promoted(a, m), m) = {"production"}
         /\ HeldIn(Archived(a, m), m) = {"archived"}
         /\ \A n : n # m /\ HeldIn(a, n) # {} =>
              /\ HeldIn(Archived(a, m), n) = HeldIn(a, n)
              /\ HeldIn(Promoted(a, m), n) =
                   IF HeldIn(a, n) = {"production"} THEN {"registered"} ELSE HeldIn(a, n)
<1> DEFINE k == FirstOf(a, m)
           up == Promoted(a, m)
           away == Archived(a, m)
<1>1. k \in DOMAIN a /\ a[k].model_id = m
  BY FirstFound
<1>2. \A i \in DOMAIN a : a[i] \in [model_id : ModelIds \cup {"none"}, status : Statuses]
  <2>1. \A i \in DOMAIN a : a[i] \in Entry
    OBVIOUS
  <2> QED
    BY <2>1 DEF Entry
<1>3. DOMAIN up = DOMAIN a /\ DOMAIN away = DOMAIN a
  BY DEF Promoted, Archived
<1>4. /\ \A i \in DOMAIN a : i # k => away[i] = a[i]
      /\ away[k] = [a[k] EXCEPT !.status = "archived"]
  <2>1. away = [a EXCEPT ![k] = [@ EXCEPT !.status = "archived"]]
    BY DEF Archived
  <2> HIDE DEF away, k
  <2> QED
    BY <1>1, <2>1
<1>5. \A i \in DOMAIN a : up[i] =
        IF i = k THEN [a[i] EXCEPT !.status = "production"]
        ELSE IF a[i].status = "production" /\ a[i].model_id # m
             THEN [a[i] EXCEPT !.status = "registered"]
             ELSE a[i]
  BY DEF Promoted
<1> HIDE DEF up, away
<1>6. /\ away[k].model_id = m /\ away[k].status = "archived"
      /\ up[k].model_id = m /\ up[k].status = "production"
  BY <1>1, <1>2, <1>4, <1>5
<1>7. ASSUME NEW i \in DOMAIN a
      PROVE  /\ away[i].model_id = a[i].model_id
             /\ up[i].model_id = a[i].model_id
             /\ i # k => away[i].status = a[i].status
             /\ i # k /\ a[i].model_id # m => up[i].status =
                  (IF a[i].status = "production" THEN "registered" ELSE a[i].status)
  <2>1. a[i] \in [model_id : ModelIds \cup {"none"}, status : Statuses]
    BY <1>2
  <2>2. CASE i = k
    BY <1>1, <1>6, <2>2
  <2>3. CASE i # k
    BY <1>4, <1>5, <2>1, <2>3
  <2> QED
    BY <2>2, <2>3
<1> HIDE DEF k
<1>8. \A n : FindEntry(up, n) = FindEntry(a, n) /\ FindEntry(away, n) = FindEntry(a, n)
  BY <1>3, <1>7 DEF FindEntry
<1>9. \A n : FirstOf(up, n) = FirstOf(a, n) /\ FirstOf(away, n) = FirstOf(a, n)
  BY <1>8 DEF FirstOf
<1>10. HeldIn(up, m) = {"production"} /\ HeldIn(away, m) = {"archived"}
  BY <1>6, <1>8, <1>9 DEF HeldIn, k
<1>11. ASSUME NEW n, n # m, HeldIn(a, n) # {}
       PROVE  /\ HeldIn(away, n) = HeldIn(a, n)
              /\ HeldIn(up, n) =
                   IF HeldIn(a, n) = {"production"} THEN {"registered"} ELSE HeldIn(a, n)
  <2> DEFINE i == FirstOf(a, n)
             s == a[i].status
  <2>1. FindEntry(a, n) # {}
    BY <1>11 DEF HeldIn
  <2>2. i \in DOMAIN a /\ a[i].model_id = n
    BY <2>1, FirstFound
  <2>3. HeldIn(a, n) = {s}
    BY <2>1 DEF HeldIn
  <2>4. i # k
    BY <1>1, <1>11, <2>2
  <2>5. away[i].status = s /\ up[i].status = (IF s = "production" THEN "registered" ELSE s)
    BY <1>7, <1>11, <2>2, <2>4
  <2>6. HeldIn(away, n) = {away[i].status} /\ HeldIn(up, n) = {up[i].status}
    BY <1>8, <1>9, <2>1 DEF HeldIn
  <2> HIDE DEF s
  <2> QED
    BY <2>3, <2>5, <2>6
<1> QED
  BY <1>10, <1>11 DEF up, away

(* What can be relied on is what a read gives.                             *)
LEMMA SureHolds ==
  ASSUME RegistryInv
  PROVE  \A n : HeldIn(SureOf(registry), n) # {} => HeldIn(ReadAll, n) = HeldIn(SureOf(registry), n)
<1> SUFFICES ASSUME NEW n, HeldIn(SureOf(registry), n) # {}
             PROVE  HeldIn(ReadAll, n) = HeldIn(SureOf(registry), n)
  OBVIOUS
<1>1. CASE ~Unended(registry)
  BY <1>1 DEF SureOf, ReadAll
<1>2. CASE Unended(registry)
  <2> DEFINE front == SubSeq(registry, 1, Len(registry) - 1)
             sure == EntriesOf(front)
             all == ReadAll
             k == Len(registry) - 1
  <2>1. registry \in Seq(LineRecord) /\ registry # <<>>
    BY <1>2 DEF RegistryInv, Unended
  <2>2. /\ front \in Seq(LineRecord) /\ DOMAIN front = 1..k /\ k \in Nat /\ k < Len(registry)
        /\ \A i \in 1..k : front[i] = registry[i]
    BY <2>1
  <2>3. SureOf(registry) = sure
    BY <1>2 DEF SureOf, Front
  <2>4. NoEntry \in Entry /\ TRUE \in BOOLEAN
    BY DEF NoEntry, Entry, Statuses
  <2>5. sure \in Seq(Entry)
    <3> HIDE DEF sure, front
    <3>1. SureOf(registry) \in Seq(Entry)
      BY <2>1, <2>4, AppendsToSure
    <3> QED
      BY <2>3, <3>1
  <2> HIDE DEF front, k
  <2>6. sure = [i \in 1..k |-> registry[i].entry]
    BY <2>2 DEF EntriesOf
  <2>7. all \in Seq(Entry) /\ all = [i \in 1..Len(registry) |-> registry[i].entry]
    BY <2>1, ReadEntries DEF ReadAll, EntriesOf
  <2> HIDE DEF sure, all
  <2>8. Len(sure) = k /\ Len(all) = Len(registry) /\ \A i \in 1..k : sure[i] = all[i]
    BY <2>1, <2>2, <2>5, <2>6, <2>7
  <2>9. FindEntry(sure, n) # {}
    BY <2>3 DEF HeldIn
  <2>10. Len(sure) <= Len(all) /\ \A i \in 1..Len(sure) : sure[i] = all[i]
    BY <2>1, <2>2, <2>8
  <2>11. HeldIn(all, n) = HeldIn(sure, n)
    BY <2>5, <2>7, <2>9, <2>10, ContinuedHolds
  <2> QED
    BY <2>3, <2>11 DEF all
<1> QED
  BY <1>1, <1>2

(* The entries on which nothing is lost by a step that only takes promised *)
(* statuses to held ones.                                                  *)
LEMMA LostOnlyShrinks ==
  ASSUME NEW a, NEW b, NEW before, NEW after, IsFiniteSet(DOMAIN before),
         \A n \in DOMAIN after : HeldIn(b, n) # {after[n]} =>
                                  n \in DOMAIN before /\ HeldIn(a, n) # {before[n]}
  PROVE  /\ Cardinality(Lost(b, after)) \in Nat /\ Cardinality(Lost(a, before)) \in Nat
         /\ Cardinality(Lost(b, after)) <= Cardinality(Lost(a, before))
<1>1. Lost(a, before) \subseteq DOMAIN before /\ Lost(b, after) \subseteq Lost(a, before)
  BY DEF Lost
<1>2. IsFiniteSet(Lost(a, before))
  BY <1>1, FS_Subset
<1>3. IsFiniteSet(Lost(b, after)) /\ Cardinality(Lost(b, after)) <= Cardinality(Lost(a, before))
  BY <1>1, <1>2, FS_Subset
<1> QED
  BY <1>2, <1>3, FS_CardinalityType

(* A rewritten file ends in a newline.                                     *)
LEMMA WrittenEnds ==
  ASSUME NEW entries \in Seq(Entry)
  PROVE  ~Unended(WriteLines(entries))
<1>1. \A i \in DOMAIN entries : WriteLines(entries)[i].ended
  BY DEF WriteLines, Line
<1>2. DOMAIN WriteLines(entries) = DOMAIN entries
  BY DEF WriteLines
<1>3. WriteLines(entries) # <<>> => Len(WriteLines(entries)) \in DOMAIN WriteLines(entries)
  BY WrittenEntries
<1> QED
  BY <1>1, <1>2, <1>3 DEF Unended, Last

(* A rewrite of current entries loses nothing that was held, and takes in  *)
(* the line that had no newline.                                           *)
LEMMA ReplaceStands ==
  ASSUME RegistryInv, StandInv, NEW p \in Procs, Replace(p), ~overlapped
  PROVE  /\ DOMAIN ledger' \subseteq ModelIds /\ IsFiniteSet(DOMAIN ledger')
         /\ Tally'
<1> DEFINE w == op[p]
           m == w.model
           a == SureOf(registry)
<1>1. /\ w \in Working /\ w # Idle /\ Writable(w) /\ w.pc = "replace"
      /\ registry' = WriteLines(w.entries) /\ ledger' = LedgerAfter(w.kind, m)
      /\ tornAppends' = tornAppends
  BY DEF Replace, RegistryInv
<1>2. /\ w.kind \in {"promote", "archive"} /\ m \in ModelIds /\ w.entries \in Seq(Entry)
  BY <1>1 DEF Working, Writable
<1>3. FindEntry(ReadAll, m) # {}
      /\ w.entries = IF w.kind = "promote" THEN Promoted(ReadAll, m) ELSE Archived(ReadAll, m)
  BY <1>1, <1>2 DEF StandInv, Current
<1> HIDE DEF w, m
<1>4. ReadAll \in Seq(Entry)
  BY ReadEntries
<1>5. EntriesOf(registry') = w.entries /\ WriteLines(w.entries) \in Seq(LineRecord)
  BY <1>1, <1>2, WrittenEntries
<1>6. ~Unended(registry')
  BY <1>1, <1>2, WrittenEnds
<1>7. SureOf(registry') = w.entries
  BY <1>5, <1>6 DEF SureOf
<1>8. \A n : HeldIn(a, n) # {} => HeldIn(ReadAll, n) = HeldIn(a, n)
  BY SureHolds
<1> HIDE DEF a
<1>9. /\ DOMAIN ledger \subseteq ModelIds /\ IsFiniteSet(DOMAIN ledger)
      /\ DOMAIN Demoted(ledger) = DOMAIN ledger
      /\ DOMAIN ledger' = DOMAIN ledger \cup {m}
      /\ DOMAIN ledger' \subseteq ModelIds /\ IsFiniteSet(DOMAIN ledger')
  <2>1. DOMAIN ledger \subseteq ModelIds /\ IsFiniteSet(DOMAIN ledger)
    BY DEF StandInv
  <2>2. DOMAIN Demoted(ledger) = DOMAIN ledger
    BY DEF Demoted
  <2>3. ledger' = IF w.kind = "promote" THEN Marked(Demoted(ledger), m, "production")
                                        ELSE Marked(ledger, m, "archived")
    BY <1>1, <1>2 DEF LedgerAfter
  <2>4. DOMAIN ledger' = DOMAIN ledger \cup {m}
    BY <2>2, <2>3 DEF Marked
  <2>5. IsFiniteSet(DOMAIN ledger \cup {m})
    BY <2>1, FS_AddElement
  <2> QED
    BY <1>2, <2>1, <2>2, <2>4, <2>5
<1>10. \A n \in DOMAIN ledger' : HeldIn(w.entries, n) # {ledger'[n]} =>
         n \in DOMAIN ledger /\ HeldIn(a, n) # {ledger[n]}
  <2> SUFFICES ASSUME NEW n \in DOMAIN ledger', n \notin DOMAIN ledger \/ HeldIn(a, n) = {ledger[n]}
               PROVE  HeldIn(w.entries, n) = {ledger'[n]}
    OBVIOUS
  <2>1. CASE w.kind = "promote"
    <3>1. w.entries = Promoted(ReadAll, m) /\ ledger' = Marked(Demoted(ledger), m, "production")
      BY <1>1, <1>3, <2>1 DEF LedgerAfter
    <3>2. CASE n = m
      <4>1. ledger'[m] = "production"
        BY <1>9, <3>1 DEF Marked
      <4> QED
        BY <1>3, <1>4, <3>1, <3>2, <4>1, RewrittenHolds
    <3>3. CASE n # m
      <4>1. n \in DOMAIN ledger /\ HeldIn(ReadAll, n) = {ledger[n]}
        BY <1>8, <1>9, <3>3
      <4>2. ledger'[n] = IF ledger[n] = "production" THEN "registered" ELSE ledger[n]
        <5>1. Demoted(ledger)[n] = IF ledger[n] = "production" THEN "registered" ELSE ledger[n]
          BY <4>1 DEF Demoted
        <5>2. Marked(Demoted(ledger), m, "production")[n] = Demoted(ledger)[n]
          BY <1>9, <3>3, <4>1 DEF Marked
        <5> QED
          BY <3>1, <5>1, <5>2
      <4>3. HeldIn(w.entries, n) = {ledger'[n]}
        <5>1. HeldIn(ReadAll, n) # {}
          BY <4>1
        <5>2. HeldIn(Promoted(ReadAll, m), n) =
                IF HeldIn(ReadAll, n) = {"production"} THEN {"registered"} ELSE HeldIn(ReadAll, n)
          BY <1>3, <1>4, <3>3, <5>1, RewrittenHolds
        <5> QED
          BY <3>1, <4>1, <4>2, <5>2
      <4> QED
        BY <4>3
    <3> QED
      BY <3>2, <3>3
  <2>2. CASE w.kind = "archive"
    <3>1. w.entries = Archived(ReadAll, m) /\ ledger' = Marked(ledger, m, "archived")
      BY <1>1, <1>3, <2>2 DEF LedgerAfter
    <3>2. CASE n = m
      <4>1. ledger'[m] = "archived"
        BY <1>9, <3>1 DEF Marked
      <4> QED
        BY <1>3, <1>4, <3>1, <3>2, <4>1, RewrittenHolds
    <3>3. CASE n # m
      <4>1. n \in DOMAIN ledger /\ HeldIn(ReadAll, n) = {ledger[n]}
        BY <1>8, <1>9, <3>3
      <4>2. ledger'[n] = ledger[n]
        BY <1>9, <3>1, <3>3, <4>1 DEF Marked
      <4>3. HeldIn(w.entries, n) = {ledger'[n]}
        <5>1. HeldIn(ReadAll, n) # {}
          BY <4>1
        <5>2. HeldIn(Archived(ReadAll, m), n) = HeldIn(ReadAll, n)
          BY <1>3, <1>4, <3>3, <5>1, RewrittenHolds
        <5> QED
          BY <3>1, <4>1, <4>2, <5>2
      <4> QED
        BY <4>3
    <3> QED
      BY <3>2, <3>3
  <2> QED
    BY <1>2, <2>1, <2>2
<1>11. /\ Cardinality(Lost(w.entries, ledger')) \in Nat /\ Cardinality(Lost(a, ledger)) \in Nat
       /\ Cardinality(Lost(w.entries, ledger')) <= Cardinality(Lost(a, ledger))
  BY <1>9, <1>10, LostOnlyShrinks
<1>12. Cardinality(Lost(a, ledger)) <= tornAppends /\ tornAppends \in Nat
  BY <1>11 DEF StandInv, Tally, a
<1> QED
  BY <1>1, <1>6, <1>7, <1>9, <1>11, <1>12 DEF Tally

(* A registration is held, or lost with the line it spoils.                *)
LEMMA AppendStands ==
  ASSUME RegistryInv, StandInv, NEW p \in Procs, AppendOne(p), ~overlapped
  PROVE  /\ DOMAIN ledger' \subseteq ModelIds /\ IsFiniteSet(DOMAIN ledger')
         /\ Tally'
<1> DEFINE m == op[p].model
           e == [model_id |-> m, status |-> "registered"]
           x == IF Unended(registry) THEN NoEntry ELSE e
           a == SureOf(registry)
           b == EntriesOf(registry')
<1>1. /\ op[p] \in Working /\ op[p] # Idle /\ op[p].pc = "append"
      /\ registry' = AppendLine(registry, e, TRUE)
      /\ ledger' = Marked(ledger, m, "registered") /\ tornAppends' = tornAppends
  BY DEF AppendOne, RegistryInv, LedgerAfter
<1>2. m \in ModelIds /\ e \in Entry /\ NoEntry \in Entry /\ TRUE \in BOOLEAN
  BY <1>1 DEF Working, Entry, Statuses, NoEntry
<1>3. FindEntry(ReadAll, m) = {}
  BY <1>1 DEF StandInv, Current
<1>4. e.model_id = m /\ e.status = "registered" /\ NoEntry.model_id = "none"
  BY DEF NoEntry
<1> HIDE DEF m, e
<1>5. registry \in Seq(LineRecord)
  BY DEF RegistryInv
<1>6. /\ a \in Seq(Entry) /\ b = Append(a, x) /\ ~Unended(registry') /\ SureOf(registry') = b
  BY <1>1, <1>2, <1>5, AppendsToSure
<1>7. ~Unended(registry) => a = ReadAll
  BY DEF SureOf, ReadAll
<1> HIDE DEF a, b
<1>8. /\ DOMAIN ledger \subseteq ModelIds /\ IsFiniteSet(DOMAIN ledger)
      /\ DOMAIN ledger' = DOMAIN ledger \cup {m} /\ "none" \notin ModelIds
      /\ ledger'[m] = "registered"
      /\ \A n \in DOMAIN ledger : n # m => ledger'[n] = ledger[n]
  BY <1>1, RegistryAssumption DEF StandInv, Marked
<1>9. DOMAIN ledger' \subseteq ModelIds /\ IsFiniteSet(DOMAIN ledger')
  BY <1>2, <1>8, FS_AddElement
<1>10. Cardinality(Lost(a, ledger)) + (IF Unended(registry) THEN 1 ELSE 0) <= tornAppends
       /\ tornAppends \in Nat
  BY DEF StandInv, Tally, a
<1>11. Cardinality(Lost(b, ledger')) \in Nat /\ Cardinality(Lost(b, ledger')) <= tornAppends
         => Tally'
  <2> DEFINE count == Cardinality(Lost(b, ledger'))
  <2>1. Tally' <=> count + (IF Unended(registry') THEN 1 ELSE 0) <= tornAppends
    BY <1>1, <1>6 DEF Tally
  <2> HIDE DEF count
  <2>2. (IF Unended(registry') THEN 1 ELSE 0) = 0
    BY <1>6
  <2>3. count \in Nat /\ count <= tornAppends => Tally'
    BY <1>10, <2>1, <2>2
  <2> QED
    BY <2>3 DEF count
<1>12. CASE ~Unended(registry)
  <2>1. b = Append(a, e)
    BY <1>6, <1>12
  <2>2. FindEntry(a, m) = {}
    BY <1>3, <1>7, <1>12
  <2>3. HeldIn(b, m) = {"registered"} /\ \A n : n # m => HeldIn(b, n) = HeldIn(a, n)
    <3>1. a \in Seq(Entry) /\ e \in Entry /\ e.model_id = m /\ e.status = "registered"
      BY <1>2, <1>4, <1>6
    <3> QED
      BY <2>1, <2>2, <3>1, AppendedHolds
  <2>4. \A n : n # m => HeldIn(b, n) = HeldIn(a, n)
    BY <2>3
  <2>5. \A n \in DOMAIN ledger' : HeldIn(b, n) # {ledger'[n]} =>
          n \in DOMAIN ledger /\ HeldIn(a, n) # {ledger[n]}
    BY <1>8, <2>3, <2>4
  <2>6. /\ Cardinality(Lost(b, ledger')) \in Nat /\ Cardinality(Lost(a, ledger)) \in Nat
        /\ Cardinality(Lost(b, ledger')) <= Cardinality(Lost(a, ledger))
    BY <1>8, <2>5, LostOnlyShrinks
  <2>7. Cardinality(Lost(b, ledger')) <= tornAppends
    BY <1>10, <1>12, <2>6
  <2> QED
    BY <1>9, <1>11, <2>6, <2>7
<1>13. CASE Unended(registry)
  <2>1. b = Append(a, NoEntry)
    BY <1>6, <1>13
  <2>2. \A n : n # "none" => HeldIn(b, n) = HeldIn(a, n)
    BY <1>2, <1>4, <1>6, <2>1, AppendedHolds
  <2>3. Lost(b, ledger') \subseteq Lost(a, ledger) \cup {m}
    BY <1>8, <1>9, <2>2 DEF Lost
  <2>4. IsFiniteSet(Lost(a, ledger))
    <3>1. Lost(a, ledger) \subseteq DOMAIN ledger
      BY DEF Lost
    <3> QED
      BY <1>8, <3>1, FS_Subset
  <2> DEFINE gone == Lost(a, ledger)
  <2>5. Cardinality(gone) \in Nat /\ IsFiniteSet(gone \cup {m})
        /\ Cardinality(gone \cup {m}) <= Cardinality(gone) + 1
    <3> HIDE DEF gone
    <3>1. IsFiniteSet(gone)
      BY <2>4 DEF gone
    <3>2. Cardinality(gone) \in Nat
      BY <3>1, FS_CardinalityType
    <3>3. IsFiniteSet(gone \cup {m})
          /\ Cardinality(gone \cup {m}) = IF m \in gone THEN Cardinality(gone) ELSE Cardinality(gone) + 1
      BY <3>1, FS_AddElement
    <3> QED
      BY <3>2, <3>3
  <2>6. /\ IsFiniteSet(Lost(b, ledger'))
        /\ Cardinality(Lost(b, ledger')) <= Cardinality(Lost(a, ledger) \cup {m})
    BY <2>3, <2>5, FS_Subset
  <2>7. Cardinality(Lost(b, ledger')) \in Nat /\ Cardinality(Lost(a, ledger) \cup {m}) \in Nat
    BY <2>5, <2>6, FS_CardinalityType
  <2>8. Cardinality(Lost(b, ledger')) <= tornAppends
    BY <1>10, <1>13, <2>5, <2>6, <2>7
  <2> QED
    BY <1>9, <1>11, <2>7, <2>8
<1> QED
  BY <1>12, <1>13

(* An operation that begins alone has read what the file holds.            *)
LEMMA BeginStands ==
  ASSUME RegistryInv, StandInv, NEW p \in Procs, NEW m, NEW kind, NEW entries,
         Begin(p, kind, m, entries),
         Current([pc |-> "waits", kind |-> kind, model |-> m, entries |-> entries])
  PROVE  StandInv'
<1> DEFINE w == [pc |-> "waits", kind |-> kind, model |-> m, entries |-> entries]
<1>1. /\ op' = [op EXCEPT ![p] = w] /\ UNCHANGED <<registry, ledger, tornAppends>>
      /\ overlapped' = (overlapped \/ \E q \in Procs \ {p} : op[q] # Idle)
  BY DEF Begin
<1>2. Current(w)' <=> Current(w)
  BY <1>1 DEF Current, ReadAll
<1> HIDE DEF w
<1>3. \A q \in Procs : op'[q] = IF q = p THEN w ELSE op[q]
  BY <1>1 DEF RegistryInv
<1>4. overlapped' \in BOOLEAN
  BY <1>1 DEF StandInv
<1>5. ASSUME ~overlapped' PROVE Alone' /\ \A q \in Procs : op'[q] # Idle => Current(op[q])'
  <2>1. \A q \in Procs : q # p => op'[q] = Idle
    BY <1>1, <1>3, <1>5
  <2> QED
    BY <1>2, <1>3, <2>1 DEF Alone, w
<1>6. ~overlapped' => Tally'
  BY <1>1 DEF StandInv, Tally
<1> QED
  BY <1>1, <1>4, <1>5, <1>6 DEF StandInv

(* A step of the registry keeps what was written.                          *)
LEMMA RegistryStands ==
  ASSUME RegistryInv, StandInv, RegistryNext
  PROVE  StandInv'
<1> PICK p \in Procs :
      \/ \E m \in ModelIds : Register(p, m) \/ Promote(p, m) \/ Archive(p, m)
      \/ TakeLock(p) \/ GiveUp(p) \/ AppendOne(p) \/ Backup(p) \/ Replace(p)
      \/ CrashRegistry(p)
  BY DEF RegistryNext
<1>1. ASSUME NEW m \in ModelIds, Register(p, m) \/ Promote(p, m) \/ Archive(p, m)
      PROVE  StandInv'
  <2>1. CASE Register(p, m)
    BY <2>1, BeginStands DEF Register, Current
  <2>2. CASE Promote(p, m)
    BY <2>2, BeginStands DEF Promote, Current
  <2>3. CASE Archive(p, m)
    BY <2>3, BeginStands DEF Archive, Current
  <2> QED
    BY <1>1, <2>1, <2>2, <2>3
<1>2. CASE TakeLock(p) \/ Backup(p)
  <2> DEFINE w == op'[p]
  <2>1. /\ UNCHANGED <<registry, ledger, tornAppends, overlapped>> /\ op[p] # Idle
        /\ op[p] \in Working
        /\ \E pc \in {"append", "backup", "replace"} :
             /\ pc = "append" => op[p].kind = "register"
             /\ op' = [op EXCEPT ![p] = [op[p] EXCEPT !.pc = pc]]
    BY <1>2 DEF TakeLock, Backup, RegistryInv
  <2>2. \A q \in Procs : q # p => op'[q] = op[q]
    BY <2>1 DEF RegistryInv
  <2>3. /\ w.kind = op[p].kind /\ w.model = op[p].model /\ w.entries = op[p].entries
        /\ w.pc = "append" => w.kind = "register"
    BY <2>1 DEF RegistryInv, Working
  <2> HIDE DEF w
  <2>4. ASSUME ~overlapped
        PROVE  Alone' /\ \A q \in Procs : op'[q] # Idle => Current(op[q])'
    <3>1. Alone /\ Current(op[p]) /\ \A q \in Procs : q # p => op[q] = Idle
      BY <2>1, <2>4 DEF StandInv, Alone
    <3>2. Current(op[p])'
      BY <2>1, <2>3, <3>1 DEF Current, ReadAll, w
    <3> QED
      BY <2>2, <3>1, <3>2 DEF Alone
  <2>5. ~overlapped' => Tally'
    BY <2>1 DEF StandInv, Tally
  <2> QED
    BY <2>1, <2>4, <2>5 DEF StandInv
<1>3. ASSUME op' = [op EXCEPT ![p] = Idle], op[p] # Idle, ~overlapped
      PROVE  \A q \in Procs : op'[q] = Idle
  BY <1>3 DEF RegistryInv, StandInv, Alone
<1>4. CASE GiveUp(p)
  BY <1>3, <1>4 DEF GiveUp, StandInv, Alone, Tally
<1>5. CASE AppendOne(p) \/ Replace(p)
  <2>1. /\ op' = [op EXCEPT ![p] = Idle] /\ op[p] # Idle
        /\ UNCHANGED <<tornAppends, overlapped>>
    BY <1>5 DEF AppendOne, Replace
  <2>2. ~overlapped => /\ DOMAIN ledger' \subseteq ModelIds /\ IsFiniteSet(DOMAIN ledger')
                       /\ Tally'
    BY <1>5, AppendStands, ReplaceStands
  <2>3. ~overlapped => Alone' /\ \A q \in Procs : op'[q] # Idle => Current(op[q])'
    BY <1>3, <2>1 DEF Alone
  <2> QED
    BY <2>1, <2>2, <2>3 DEF StandInv
<1>6. CASE CrashRegistry(p)
  <2>1. /\ op' = [op EXCEPT ![p] = Idle] /\ op[p] # Idle /\ op[p] \in Working
        /\ UNCHANGED <<ledger, overlapped>>
    BY <1>6 DEF CrashRegistry, RegistryInv
  <2>2. ~overlapped => Alone' /\ \A q \in Procs : op'[q] # Idle => Current(op[q])'
    BY <1>3, <2>1 DEF Alone
  <2>3. CASE UNCHANGED <<registry, tornAppends>>
    BY <2>1, <2>2, <2>3 DEF StandInv, Tally
  <2>4. ASSUME NEW line \in {NoEntry, [model_id |-> op[p].model, status |-> "registered"]},
               registry' = AppendLine(registry, line, FALSE), tornAppends' = tornAppends + 1
        PROVE  StandInv'
    <3>1. line \in Entry /\ FALSE \in BOOLEAN
      BY <2>1 DEF Working, Entry, Statuses, NoEntry
    <3>2. registry \in Seq(LineRecord)
      BY DEF RegistryInv
    <3>3. SureOf(registry') = SureOf(registry) /\ Unended(registry')
      BY <2>4, <3>1, <3>2, AppendsToSure
    <3>4. ~overlapped => Tally'
      <4> DEFINE count == Cardinality(Lost(SureOf(registry), ledger))
      <4>1. Tally' <=> count + 1 <= tornAppends + 1
        BY <2>1, <2>4, <3>3 DEF Tally
      <4>2. SUFFICES ASSUME ~overlapped PROVE count + 1 <= tornAppends + 1
        BY <4>1
      <4>3. count + (IF Unended(registry) THEN 1 ELSE 0) <= tornAppends /\ tornAppends \in Nat
        BY <4>2 DEF StandInv, Tally
      <4>4. count \in Nat
        <5>1. Lost(SureOf(registry), ledger) \subseteq DOMAIN ledger /\ IsFiniteSet(DOMAIN ledger)
          BY <4>2 DEF Lost, StandInv
        <5> QED
          BY <5>1, FS_Subset, FS_CardinalityType
      <4> HIDE DEF count
      <4> QED
        BY <4>3, <4>4
    <3> QED
      BY <2>1, <2>2, <2>4, <3>4 DEF StandInv
  <2> QED
    BY <1>6, <2>3, <2>4 DEF CrashRegistry
<1> QED
  BY <1>1, <1>2, <1>4, <1>5, <1>6

-----------------------------------------------------------------------------
(* The files.                                                              *)

Versions == Nat \cup {Gone, Half}

FilesInv ==
  /\ disk \in [Models -> [Artifacts -> Versions]]
  /\ trainings \in Nat
  /\ training \in {NotTraining} \cup [pc : {"writes"}, model : Models, next : Nat \ {0}]

(* Whoever changes files of a model disturbs the loads of that model.      *)
DiskChange ==
  \/ disk' = disk /\ request' = request
  \/ \E m \in Models : Disturb(m) /\ \A n \in Models \ {m} : disk'[n] = disk[n]

NoneGoes == \A m \in Models, a \in Artifacts : disk[m][a] # Gone => disk'[m][a] # Gone

(* A file that is written anew is not gone at any moment.                  *)
LEMMA TrainingStepKeeps ==
  ASSUME FilesInv, TrainingNext
  PROVE  FilesInv' /\ DiskChange /\ NoneGoes /\ cached' = cached
<1>1. ASSUME NEW m \in Models, StartTraining(m)
      PROVE  FilesInv' /\ disk' = disk /\ request' = request /\ cached' = cached
  BY <1>1 DEF StartTraining, FilesInv
<1>2. CASE WriteArtifact
  <2> DEFINE m == training.model
             a == WriteOrder[training.next]
             written == IF disk[m][a] = Half THEN trainings ELSE Half
  <2>1. /\ training # NotTraining /\ training.next <= Len(WriteOrder)
        /\ disk' = [disk EXCEPT ![m][a] = written]
        /\ training' = [training EXCEPT !.next = IF written = Half THEN @ ELSE @ + 1]
        /\ Disturb(m) /\ trainings' = trainings /\ cached' = cached
    BY <1>2 DEF WriteArtifact
  <2>2. m \in Models /\ training.next \in Nat \ {0}
        /\ training \in [pc : {"writes"}, model : Models, next : Nat \ {0}]
    BY <2>1 DEF FilesInv
  <2>3. a \in Artifacts
    <3>1. Len(WriteOrder) = Len(Quantiles) + 1 /\ Len(Quantiles) \in Nat
      BY RuntimeAssumption DEF WriteOrder
    <3>2. CASE training.next <= Len(Quantiles)
      <4>1. training.next \in DOMAIN Quantiles /\ a = Quantiles[training.next]
        BY <2>2, <3>1, <3>2, RuntimeAssumption DEF WriteOrder
      <4> QED
        BY <4>1 DEF Artifacts
    <3>3. CASE training.next = Len(Quantiles) + 1
      <4>1. a = "metadata"
        BY <3>1, <3>3, RuntimeAssumption DEF WriteOrder
      <4> QED
        BY <4>1 DEF Artifacts
    <3> QED
      BY <2>1, <2>2, <3>1, <3>2, <3>3
  <2>4. written \in Versions /\ written # Gone
    BY RuntimeAssumption DEF FilesInv, Versions
  <2>5. training' \in [pc : {"writes"}, model : Models, next : Nat \ {0}]
    <3> DEFINE next == IF written = Half THEN training.next ELSE training.next + 1
    <3>1. training' = [training EXCEPT !.next = next] /\ next \in Nat \ {0}
      BY <2>1, <2>2
    <3> HIDE DEF next
    <3> QED
      BY <2>2, <3>1
  <2> HIDE DEF m, a, written
  <2>6. /\ disk' \in [Models -> [Artifacts -> Versions]]
        /\ \A n \in Models \ {m} : disk'[n] = disk[n]
        /\ \A b \in Artifacts : disk'[m][b] = IF b = a THEN written ELSE disk[m][b]
    BY <2>1, <2>2, <2>3, <2>4 DEF FilesInv
  <2>7. NoneGoes
    BY <2>4, <2>6 DEF NoneGoes
  <2> QED
    BY <2>1, <2>2, <2>5, <2>6, <2>7 DEF FilesInv, DiskChange
<1>3. CASE WritePointer
  BY <1>3 DEF WritePointer, FilesInv, DiskChange, NoneGoes
<1>4. CASE CrashTraining
  BY <1>4 DEF CrashTraining, FilesInv, DiskChange, NoneGoes
<1> QED
  BY <1>1, <1>2, <1>3, <1>4 DEF TrainingNext, DiskChange, NoneGoes

(* What a cleanup spares: what was there and is protected, or all of it in *)
(* a dry run; and what it must spare is protected.                         *)
Files == (Models \X Artifacts) \cup {RegistryFile}
Scanning == [pc : {"scans"}, next : Nat \ {0}, protected : SUBSET (Files \cup Reported),
             dry_run : BOOLEAN, deleted : SUBSET Files,
             production : SUBSET (ModelIds \cup {"none"}), kept : SUBSET Files]

MustStay(f) ==
  f = RegistryFile \/ f \in Reported \/ \E m \in cleanup.production : f \in ModelFiles(m)

CleanupInv ==
  /\ cleanup \in {NoCleanup} \cup Scanning
  /\ cleanup # NoCleanup =>
       /\ RegistryFile \in cleanup.protected
       /\ \A f \in cleanup.kept :
            /\ f \in Range(ScanOrder)
            /\ cleanup.dry_run \/ f \in cleanup.protected => f \in Existing
            /\ MustStay(f) => f \in cleanup.protected

LEMMA ScannedFiles ==
  /\ \A i \in 1..Len(ScanOrder) : ScanOrder[i] \in Range(ScanOrder)
  /\ Range(ScanOrder) \subseteq Files
  /\ Existing \subseteq Range(ScanOrder)
<1>1. ScanOrder \in Seq(Files)
  BY LifecycleAssumption DEF Files, RegistryFile
<1>2. DOMAIN ScanOrder = 1..Len(ScanOrder) /\ \A i \in DOMAIN ScanOrder : ScanOrder[i] \in Files
  BY <1>1
<1> QED
  BY <1>2 DEF Range, Existing

(* A file is there as long as nothing takes it away.                       *)
LEMMA ExistingStays ==
  ASSUME NEW f \in Existing,
         f = RegistryFile => registry' # <<>>,
         f # RegistryFile => disk'[f[1]][f[2]] # Gone
  PROVE  f \in Existing'
  BY DEF Existing

(* One file goes, or none: never a protected one, none in a dry run.       *)
LEMMA ScanStepKeeps ==
  ASSUME FilesInv, CleanupInv, RegistryInv, ScanFile
  PROVE  FilesInv' /\ DiskChange /\ CleanupInv' /\ RegistryInv' /\ cached' = cached
<1> DEFINE f == ScanOrder[cleanup.next]
           taken == f \in Existing \cap aged /\ f \notin cleanup.protected
           deletes == taken /\ ~cleanup.dry_run
<1>1. /\ cleanup # NoCleanup /\ cleanup.next <= Len(ScanOrder)
      /\ cleanup' = [cleanup EXCEPT !.next = @ + 1,
                        !.deleted = IF taken THEN @ \cup {f} ELSE @]
      /\ IF deletes /\ f # RegistryFile
         THEN disk' = [disk EXCEPT ![f[1]][f[2]] = Gone] /\ Disturb(f[1])
         ELSE disk' = disk /\ request' = request
      /\ registry' = IF deletes /\ f = RegistryFile THEN <<>> ELSE registry
      /\ op' = op /\ training' = training /\ trainings' = trainings /\ cached' = cached
  BY DEF ScanFile
<1>2. cleanup \in Scanning /\ cleanup.next \in Nat \ {0}
  BY <1>1 DEF CleanupInv, Scanning
<1>3. f \in Range(ScanOrder) /\ f \in Files
  BY <1>1, <1>2, ScannedFiles
<1>4. f # RegistryFile => f[1] \in Models /\ f[2] \in Artifacts /\ f = <<f[1], f[2]>>
  BY <1>3 DEF Files
<1> HIDE DEF f, taken, deletes
<1>5. /\ disk' \in [Models -> [Artifacts -> Versions]]
      /\ \A g \in Models \X Artifacts :
           disk'[g[1]][g[2]] = IF deletes /\ f = g THEN Gone ELSE disk[g[1]][g[2]]
      /\ DiskChange
  <2>1. CASE deletes /\ f # RegistryFile
    <3>1. disk' = [disk EXCEPT ![f[1]][f[2]] = Gone] /\ Disturb(f[1])
      BY <1>1, <2>1
    <3>2. /\ disk' \in [Models -> [Artifacts -> Versions]]
          /\ \A n \in Models \ {f[1]} : disk'[n] = disk[n]
          /\ \A a \in Artifacts : disk'[f[1]][a] = IF a = f[2] THEN Gone ELSE disk[f[1]][a]
      BY <3>1, <1>4, <2>1 DEF FilesInv, Versions
    <3>3. DiskChange
      BY <3>1, <3>2, <1>4, <2>1 DEF DiskChange
    <3>4. ASSUME NEW g \in Models \X Artifacts
          PROVE  disk'[g[1]][g[2]] = IF deletes /\ f = g THEN Gone ELSE disk[g[1]][g[2]]
      <4>1. g[1] \in Models /\ g[2] \in Artifacts /\ g = <<g[1], g[2]>>
        OBVIOUS
      <4>2. f = g <=> f[1] = g[1] /\ f[2] = g[2]
        BY <4>1, <1>4, <2>1
      <4> QED
        BY <4>1, <4>2, <3>2, <2>1
    <3> QED
      BY <3>2, <3>3, <3>4
  <2>2. CASE ~(deletes /\ f # RegistryFile)
    <3>1. \A g \in Models \X Artifacts : g # RegistryFile
      BY DEF RegistryFile
    <3> QED
      BY <2>2, <3>1, <1>1 DEF FilesInv, DiskChange
  <2> QED
    BY <2>1, <2>2
<1>6. FilesInv'
  BY <1>1, <1>5 DEF FilesInv
<1>7. RegistryInv'
  <2>1. CASE registry' = registry
    BY <2>1, <1>1 DEF RegistryInv, ReadAll
  <2>2. CASE registry' = <<>>
    BY <2>2, <1>1 DEF RegistryInv, ReadAll, EntriesOf, Sole
  <2> QED
    BY <1>1, <2>1, <2>2
<1>8. /\ cleanup' \in Scanning
      /\ cleanup'.kept = cleanup.kept /\ cleanup'.protected = cleanup.protected
      /\ cleanup'.dry_run = cleanup.dry_run /\ cleanup'.production = cleanup.production
  <2> DEFINE n == cleanup.next + 1
             d == IF taken THEN cleanup.deleted \cup {f} ELSE cleanup.deleted
  <2>1. cleanup' = [cleanup EXCEPT !.next = n, !.deleted = d]
    BY <1>1
  <2>2. n \in Nat \ {0}
    BY <1>2
  <2>3. d \in SUBSET Files
    <3>1. cleanup.deleted \in SUBSET Files
      BY <1>2 DEF Scanning
    <3> QED
      BY <3>1, <1>3
  <2> HIDE DEF n, d
  <2> QED
    BY <2>1, <2>2, <2>3, <1>2 DEF Scanning
<1>9. ASSUME NEW g \in cleanup.kept, cleanup.dry_run \/ g \in cleanup.protected
      PROVE  g \in Existing'
  <2>1. g \in Existing /\ g \in Files /\ ~(deletes /\ f = g)
    BY <1>1, <1>9, ScannedFiles DEF CleanupInv, deletes, taken
  <2>2. g = RegistryFile => registry' # <<>>
    BY <1>1, <2>1 DEF Existing
  <2>3. g # RegistryFile => disk'[g[1]][g[2]] # Gone
    BY <1>5, <2>1 DEF Existing, Files
  <2> QED
    BY <2>1, <2>2, <2>3, ExistingStays
<1>10. CleanupInv'
  <2>1. ASSUME NEW g \in cleanup.kept
        PROVE  /\ g \in Range(ScanOrder)
               /\ MustStay(g)' => g \in cleanup.protected
    BY <1>1, <1>8 DEF CleanupInv, MustStay
  <2>2. RegistryFile \in cleanup.protected
    BY <1>1 DEF CleanupInv
  <2> QED
    BY <1>8, <1>9, <2>1, <2>2 DEF CleanupInv
<1> QED
  BY <1>1, <1>5, <1>6, <1>7, <1>10

-----------------------------------------------------------------------------
(* What a thread has verified is still on disk, and of one training, as    *)
(* long as nothing was written meanwhile.                                  *)

Loading == [pc : {"loads", "verified"}, model : Models, attempt : Nat, next : Nat \ {0},
            parts : Seq(Versions), expected : Versions, raced : BOOLEAN]
Resolved == [pc : {"resolved"}, model : Models]

Whole(r) ==
  /\ r.pc = "verified" => r.next <= Len(Quantiles)
  /\ r.pc \in {"loads", "verified"} /\ ~r.raced /\ Readable(r.expected) =>
       /\ disk[r.model]["metadata"] = r.expected
       /\ \A i \in DOMAIN r.parts : r.parts[i] = r.expected
       /\ r.pc = "verified" => disk[r.model][Quantiles[r.next]] = r.expected

ServedInv ==
  /\ request \in [Threads -> {Resting} \cup Resolved \cup Loading]
  /\ \A t \in Threads : Whole(request[t])
  /\ ServedIsWhole

(* A load that is under way in a directory that changes knows of it.       *)
LEMMA ServedUnderChange ==
  ASSUME ServedInv, DiskChange, cached' = cached
  PROVE  ServedInv'
<1>1. ServedIsWhole'
  BY DEF ServedInv, ServedIsWhole, NoPredictor, Readable
<1>2. CASE disk' = disk /\ request' = request
  BY <1>1, <1>2 DEF ServedInv, Whole
<1>3. ASSUME NEW m \in Models, Disturb(m), \A n \in Models \ {m} : disk'[n] = disk[n]
      PROVE  ServedInv'
  <2>1. ASSUME NEW t \in Threads
        PROVE  request'[t] \in {Resting} \cup Resolved \cup Loading /\ Whole(request[t])'
    <3>1. request[t] \in {Resting} \cup Resolved \cup Loading /\ Whole(request[t])
      BY DEF ServedInv
    <3>2. CASE request[t].pc \in {"loads", "verified"} /\ request[t].model = m
      <4>1. request'[t] = [request[t] EXCEPT !.raced = TRUE]
        BY <1>3, <3>2 DEF Disturb
      <4>2. request[t] \in Loading
        BY <3>1, <3>2 DEF Resting, Resolved
      <4>3. /\ request'[t] \in Loading /\ request'[t].raced
            /\ request'[t].pc = request[t].pc /\ request'[t].next = request[t].next
        BY <4>1, <4>2 DEF Loading
      <4> QED
        BY <3>1, <4>3 DEF Whole
    <3>3. CASE ~(request[t].pc \in {"loads", "verified"} /\ request[t].model = m)
      <4>1. request'[t] = request[t]
        BY <1>3, <3>3 DEF Disturb
      <4>2. CASE request[t].pc \in {"loads", "verified"}
        <5>1. request[t] \in Loading
          BY <3>1, <4>2 DEF Resting, Resolved
        <5>2. disk'[request[t].model] = disk[request[t].model]
          BY <1>3, <3>3, <4>2, <5>1 DEF Loading
        <5> QED
          BY <3>1, <4>1, <5>2 DEF Whole
      <4>3. CASE request[t].pc \notin {"loads", "verified"}
        BY <3>1, <4>1, <4>3 DEF Whole
      <4> QED
        BY <4>2, <4>3
    <3> QED
      BY <3>2, <3>3
  <2>2. request' = [t \in Threads |-> request'[t]]
    BY <1>3 DEF Disturb
  <2> QED
    BY <1>1, <2>1, <2>2 DEF ServedInv
<1> QED
  BY <1>2, <1>3 DEF DiskChange

(* A request goes on: what it holds from now on is whole again.            *)
LEMMA RequestChanges ==
  ASSUME ServedInv, disk' = disk, NEW t \in Threads,
         NEW r \in {Resting} \cup Resolved \cup Loading, Whole(r),
         request' = [request EXCEPT ![t] = r], ServedIsWhole'
  PROVE  ServedInv'
<1>1. request' \in [Threads -> {Resting} \cup Resolved \cup Loading]
  BY DEF ServedInv
<1>2. \A u \in Threads : request'[u] = IF u = t THEN r ELSE request[u]
  BY DEF ServedInv
<1>3. \A u \in Threads : Whole(request[u])'
  BY <1>2 DEF ServedInv, Whole
<1> QED
  BY <1>1, <1>3 DEF ServedInv

LEMMA LoadStarts ==
  ASSUME FilesInv, NEW m \in Models, NEW attempt \in Nat
  PROVE  StartLoad(m, attempt) \in Loading /\ Whole(StartLoad(m, attempt))
<1>1. disk[m]["metadata"] \in Versions
  BY DEF FilesInv, Artifacts
<1> QED
  BY <1>1 DEF StartLoad, Loading, Whole

LEMMA RequestStepKeeps ==
  ASSUME FilesInv, ServedInv, RequestNext
  PROVE  ServedInv' /\ disk' = disk /\ training' = training /\ trainings' = trainings
<1>1. PICK t \in Threads :
        Resolve(t) \/ EnterCache(t) \/ VerifyFile(t) \/ LoadFile(t) \/ FinishLoad(t)
  BY DEF RequestNext
<1>2. /\ disk' = disk /\ training' = training /\ trainings' = trainings
      /\ ~FinishLoad(t) => cached' = cached
  BY <1>1 DEF Resolve, EnterCache, VerifyFile, LoadFile, FinishLoad
<1>3. cached' = cached => ServedIsWhole'
  BY DEF ServedInv, ServedIsWhole, NoPredictor, Readable
<1> DEFINE r == request[t]
<1>4. r \in {Resting} \cup Resolved \cup Loading /\ Whole(r)
  BY DEF ServedInv
<1>5. Resting \in {Resting} \cup Resolved \cup Loading /\ Whole(Resting)
  BY DEF Whole, Resting
<1>6. r.pc \in {"loads", "verified"} => r \in Loading
  BY <1>4 DEF Resting, Resolved
<1> HIDE DEF r
<1>7. CASE Resolve(t)
  <2> DEFINE w == [pc |-> "resolved", model |-> pointer]
  <2>1. request' = [request EXCEPT ![t] = w] /\ pointer \in Models /\ cached' = cached
    BY <1>7 DEF Resolve
  <2>2. w \in Resolved /\ Whole(w)
    BY <2>1 DEF Resolved, Whole
  <2> HIDE DEF w
  <2> QED
    BY <1>2, <1>3, <2>1, <2>2, RequestChanges
<1>8. CASE EnterCache(t)
  <2>1. r.pc = "resolved" /\ cached' = cached
        /\ \/ request' = [request EXCEPT ![t] = Resting]
           \/ request' = [request EXCEPT ![t] = StartLoad(r.model, 1)]
    BY <1>8 DEF EnterCache, r
  <2>2. r.model \in Models
    BY <1>4, <2>1 DEF Resting, Resolved, Loading
  <2>3. StartLoad(r.model, 1) \in Loading /\ Whole(StartLoad(r.model, 1))
    BY <2>2, LoadStarts
  <2> QED
    BY <1>2, <1>3, <1>5, <2>1, <2>3, RequestChanges
<1>9. ASSUME r \in Loading, Missing(t), cached' = cached
      PROVE  ServedInv'
  <2>1. StartLoad(r.model, r.attempt + 1) \in Loading /\ Whole(StartLoad(r.model, r.attempt + 1))
    <3>1. r.model \in Models /\ r.attempt + 1 \in Nat
      BY <1>9 DEF Loading
    <3> QED
      BY <3>1, LoadStarts
  <2>2. \/ request' = [request EXCEPT ![t] = Resting]
        \/ request' = [request EXCEPT ![t] = StartLoad(r.model, r.attempt + 1)]
    BY <1>9 DEF Missing, r
  <2> QED
    BY <1>2, <1>3, <1>5, <1>9, <2>1, <2>2, RequestChanges
<1>10. ASSUME Raise(t), cached' = cached
       PROVE  ServedInv'
  BY <1>2, <1>3, <1>5, <1>10, RequestChanges DEF Raise
<1>11. CASE VerifyFile(t)
  <2> DEFINE v == disk[r.model][Quantiles[r.next]]
             w == [r EXCEPT !.pc = "verified"]
  <2>1. /\ r.pc = "loads" /\ r.next <= Len(Quantiles) /\ cached' = cached
        /\ \/ Missing(t)
           \/ Raise(t)
           \/ HashOK(r, v) /\ request' = [request EXCEPT ![t] = w]
    BY <1>11 DEF VerifyFile, r
  <2>2. r \in Loading
    BY <1>6, <2>1
  <2>3. w \in Loading
    BY <2>2 DEF Loading
  <2>4. HashOK(r, v) => Whole(w)
    BY <1>4, <2>1, <2>2 DEF Whole, Loading, HashOK
  <2> HIDE DEF w, v
  <2> QED
    BY <1>2, <1>3, <1>9, <1>10, <2>1, <2>2, <2>3, <2>4, RequestChanges
<1>12. CASE LoadFile(t)
  <2> DEFINE v == disk[r.model][Quantiles[r.next]]
             w == [r EXCEPT !.pc = "loads", !.next = @ + 1, !.parts = Append(@, v)]
  <2>1. /\ r.pc = "verified" /\ cached' = cached
        /\ \/ Missing(t)
           \/ Raise(t)
           \/ v \notin {Gone, Half} /\ request' = [request EXCEPT ![t] = w]
    BY <1>12 DEF LoadFile, r
  <2>2. r \in Loading
    BY <1>6, <2>1
  <2>3. ASSUME v \notin {Gone, Half}, request' = [request EXCEPT ![t] = w]
        PROVE  ServedInv'
    <3>1. v \in Versions /\ r.next \in Nat \ {0}
      <4>1. r.next \in DOMAIN Quantiles
        BY <1>4, <2>1, <2>2, RuntimeAssumption DEF Whole, Loading
      <4>2. Quantiles[r.next] \in Artifacts /\ r.model \in Models
        BY <2>2, <4>1 DEF Artifacts, Loading
      <4> QED
        BY <2>2, <4>2 DEF FilesInv, Loading
    <3>2. /\ w \in Loading /\ w.pc = "loads" /\ w.model = r.model /\ w.raced = r.raced
          /\ w.expected = r.expected /\ w.parts = Append(r.parts, v)
      <4> DEFINE n == r.next + 1
                 parts == Append(r.parts, v)
      <4>1. n \in Nat \ {0}
        BY <3>1
      <4>2. parts \in Seq(Versions)
        <5>1. r.parts \in Seq(Versions)
          BY <2>2 DEF Loading
        <5> HIDE DEF v
        <5> QED
          BY <3>1, <5>1
      <4>3. w = [r EXCEPT !.pc = "loads", !.next = n, !.parts = parts]
        OBVIOUS
      <4> HIDE DEF v, w, n
      <4>4. parts = Append(r.parts, v)
        OBVIOUS
      <4> HIDE DEF parts
      <4> QED
        BY <2>2, <4>1, <4>2, <4>3, <4>4 DEF Loading
    <3>3. ASSUME ~r.raced, Readable(r.expected)
          PROVE  \A i \in DOMAIN w.parts : w.parts[i] = r.expected
      <4>1. v = r.expected /\ \A i \in DOMAIN r.parts : r.parts[i] = r.expected
        BY <1>4, <2>1, <3>3 DEF Whole
      <4>2. r.parts \in Seq(Versions)
        BY <2>2 DEF Loading
      <4> HIDE DEF v, w
      <4> QED
        BY <3>1, <3>2, <4>1, <4>2
    <3>4. Whole(w)
      <4> HIDE DEF v, w
      <4> QED
        BY <1>4, <2>1, <3>2, <3>3 DEF Whole
    <3> HIDE DEF v, w
    <3> QED
      BY <1>2, <1>3, <2>1, <2>3, <3>2, <3>4, RequestChanges
  <2> HIDE DEF w, v
  <2>4. CASE Missing(t)
    BY <1>2, <1>9, <2>1, <2>2, <2>4
  <2>5. CASE Raise(t)
    BY <1>2, <1>10, <2>1, <2>5
  <2> QED
    BY <1>2, <2>1, <2>3, <2>4, <2>5
<1>13. CASE FinishLoad(t)
  <2>1. /\ r.pc = "loads"
        /\ cached' = [model |-> r.model, parts |-> r.parts, expected |-> r.expected,
                      raced |-> r.raced, log |-> Readable(disk[r.model]["metadata"])]
        /\ request' = [request EXCEPT ![t] = Resting]
    BY <1>13 DEF FinishLoad, r
  <2>2. ServedIsWhole'
    BY <1>4, <2>1 DEF ServedIsWhole, Whole, Readable
  <2> QED
    BY <1>2, <1>5, <2>1, <2>2, RequestChanges
<1> QED
  BY <1>1, <1>2, <1>7, <1>8, <1>11, <1>12, <1>13

-----------------------------------------------------------------------------
(* All of it together.                                                     *)

LifecycleInv == RegistryInv /\ FilesInv /\ CleanupInv /\ ServedInv

(* Models that are there at first are registered once each, and at most    *)
(* one of them is in production; the registry gives the status of each.    *)
LEMMA RegistryInit == Init => RegistryInv /\ StandInv
<1> SUFFICES ASSUME Init PROVE RegistryInv /\ StandInv
  OBVIOUS
<1>0. PICK models \in Installations : \E promoted \in models \cup {NoModel} :
        Installed(models, [m \in models |-> IF m = promoted THEN "production" ELSE "registered"])
  BY DEF Init
<1>1. PICK promoted \in models \cup {NoModel} :
        Installed(models, [m \in models |-> IF m = promoted THEN "production" ELSE "registered"])
  BY <1>0
<1> DEFINE status == [m \in models |-> IF m = promoted THEN "production" ELSE "registered"]
           first == [m \in models |-> [model_id |-> m, status |-> status[m]]]
           S == {[model_id |-> m, status |-> status[m]] : m \in models}
           entries == SetToSeq(S)
<1>2. IsFiniteSet(models) /\ models \subseteq ModelIds /\ models \subseteq Models
  BY LifecycleAssumption
<1>3. IsFiniteSet(S)
  <2>1. first \in Surjection(models, S)
    BY DEF Surjection
  <2> HIDE DEF first, S
  <2> QED
    BY <1>2, <2>1, FS_Surjection
<1>4. S \subseteq Entry
  BY <1>2 DEF Entry, Statuses
<1>5. \A e, d \in S : /\ e.status = "production" /\ d.status = "production" => e = d
                      /\ e.model_id = d.model_id => e = d
  OBVIOUS
<1>6. registry = WriteLines(entries) /\ ledger = status
  BY <1>1 DEF Installed
<1>7. \A m \in models : \E e \in S : e.model_id = m
  <2> SUFFICES ASSUME NEW m \in models PROVE \E e \in S : e.model_id = m
    OBVIOUS
  <2> DEFINE e == [model_id |-> m, status |-> status[m]]
  <2>1. e \in S /\ e.model_id = m
    OBVIOUS
  <2> HIDE DEF e, S
  <2> QED
    BY <2>1
<1>8. \A e \in S : e.model_id \in models /\ e.status = status[e.model_id]
  OBVIOUS
<1> HIDE DEF S, status
<1>9. /\ entries \in [1..Cardinality(S) -> S] /\ IsInjective(entries) /\ Cardinality(S) \in Nat
      /\ \A x \in S : \E i \in 1..Cardinality(S) : entries[i] = x
  BY <1>3, SequenceOfSet
<1> HIDE DEF entries
<1>10. entries \in Seq(Entry)
  BY <1>4, <1>9
<1>11. Sole(entries)
  <2> SUFFICES ASSUME NEW i \in DOMAIN entries, entries[i].status = "production",
                      NEW j \in DOMAIN entries
               PROVE  /\ entries[j].status = "production" => j = i
                      /\ entries[j].model_id = entries[i].model_id => i <= j
    BY DEF Sole
  <2>1. entries[i] \in S /\ entries[j] \in S /\ i \in Nat /\ j \in Nat
    BY <1>9
  <2>2. entries[i] = entries[j] => i = j
    BY <1>9 DEF IsInjective
  <2> QED
    BY <1>5, <2>1, <2>2
<1>12. registry \in Seq(LineRecord) /\ EntriesOf(registry) = entries
  BY <1>6, <1>10, WrittenEntries
<1>13. op = [p \in Procs |-> Idle] /\ tornAppends = 0 /\ overlapped = FALSE
  BY DEF Init
<1>14. RegistryInv
  BY <1>11, <1>12, <1>13 DEF RegistryInv, ReadAll
<1>15. ~Unended(registry) /\ SureOf(registry) = entries
  <2>1. ~Unended(registry)
    BY <1>6, <1>10, WrittenEnds
  <2> QED
    BY <1>12, <2>1 DEF SureOf
<1>16. \A m \in models : HeldIn(entries, m) = {status[m]}
  <2> SUFFICES ASSUME NEW m \in models PROVE HeldIn(entries, m) = {status[m]}
    OBVIOUS
  <2>1. PICK e \in S : e.model_id = m
    BY <1>7
  <2>2. PICK i \in 1..Cardinality(S) : entries[i] = e
    BY <1>9, <2>1
  <2>3. FindEntry(entries, m) # {}
    BY <1>9, <2>1, <2>2 DEF FindEntry
  <2> DEFINE k == FirstOf(entries, m)
  <2>4. k \in DOMAIN entries /\ entries[k].model_id = m
    BY <1>10, <2>3, FirstFound
  <2>5. entries[k].status = status[m]
    BY <1>8, <1>9, <2>4
  <2> QED
    BY <2>3, <2>5 DEF HeldIn
<1>17. Lost(SureOf(registry), ledger) = {} /\ DOMAIN ledger = models
  BY <1>6, <1>15, <1>16 DEF Lost, status
<1>18. Cardinality(Lost(SureOf(registry), ledger)) = 0
  BY <1>17, FS_EmptySet
<1>19. StandInv
  <2>1. \A p \in Procs : op[p] = Idle
    BY <1>13
  <2>2. Tally
    BY <1>13, <1>15, <1>18 DEF Tally
  <2> QED
    BY <1>2, <1>13, <1>17, <2>1, <2>2 DEF StandInv, Alone
<1> QED
  BY <1>14, <1>19

(* The invariant holds of an installation.                                 *)
LEMMA LifecycleInit == Init => LifecycleInv
<1> SUFFICES ASSUME Init PROVE LifecycleInv
  OBVIOUS
<1>1. PICK models \in Installations : \E promoted \in models \cup {NoModel} :
        Installed(models, [m \in models |-> IF m = promoted THEN "production" ELSE "registered"])
  BY DEF Init
<1>2. FilesInv
  BY <1>1, RuntimeAssumption DEF Init, Installed, FilesInv, Versions
<1>3. CleanupInv
  BY DEF Init, CleanupInv
<1>4. ServedInv
  BY DEF Init, ServedInv, ServedIsWhole, Whole, Resting
<1> QED
  BY <1>2, <1>3, <1>4, RegistryInit DEF LifecycleInv

(* A cleanup has nothing to answer for when no file goes.                  *)
LEMMA CleanupUnderChange ==
  ASSUME CleanupInv, cleanup' = cleanup, NoneGoes, registry # <<>> => registry' # <<>>
  PROVE  CleanupInv'
<1>1. Existing \subseteq Existing'
  <2> SUFFICES ASSUME NEW f \in Existing PROVE f \in Existing'
    OBVIOUS
  <2>1. f \in Files
    BY ScannedFiles
  <2>2. f = RegistryFile => registry' # <<>>
    BY DEF Existing
  <2>3. f # RegistryFile => disk'[f[1]][f[2]] # Gone
    BY <2>1 DEF Existing, NoneGoes, Files
  <2> QED
    BY <2>2, <2>3, ExistingStays
<1> QED
  BY <1>1 DEF CleanupInv, MustStay

LEMMA CleanupStarts ==
  ASSUME RegistryInv, StartCleanup
  PROVE  CleanupInv'
<1>1. PICK dry_run \in BOOLEAN :
        cleanup' = [pc |-> "scans", next |-> 1, protected |-> Protected,
                    dry_run |-> dry_run, deleted |-> {},
                    production |-> ProductionModel, kept |-> Existing]
  BY DEF StartCleanup
<1>2. disk' = disk /\ registry' = registry
  BY DEF StartCleanup, regVars, runtimeVars
<1>3. Existing \subseteq Files /\ Existing \subseteq Range(ScanOrder) /\ RegistryFile \in Files
  BY ScannedFiles DEF Files
<1>4. Protected \subseteq Files \cup Reported
  <2>1. ProductionFiles \subseteq Existing
    BY DEF ProductionFiles
  <2> QED
    BY <1>3, <2>1 DEF Protected
<1>5. ProductionModel \subseteq ModelIds \cup {"none"}
  <2>1. ReadAll \in Seq(Entry)
    BY ReadEntries
  <2>2. \A i \in GetProduction : ReadAll[i].model_id \in ModelIds \cup {"none"}
    <3>1. \A i \in GetProduction : ReadAll[i] \in Entry
      BY <2>1 DEF GetProduction
    <3>2. \A e \in Entry : e.model_id \in ModelIds \cup {"none"}
      BY DEF Entry
    <3> QED
      BY <3>1, <3>2
  <2>3. GetProduction \subseteq Nat
    BY <2>1 DEF GetProduction
  <2>4. GetProduction # {} =>
          (CHOOSE i \in GetProduction : \A j \in GetProduction : i <= j) \in GetProduction
    BY <2>3, LeastNatural
  <2> QED
    BY <2>2, <2>4 DEF ProductionModel
<1>6. cleanup' \in Scanning
  BY <1>1, <1>3, <1>4, <1>5 DEF Scanning
<1>7. Existing' = Existing
  BY <1>2 DEF Existing
<1>8. ASSUME NEW f \in Existing, f = RegistryFile \/ f \in Reported
                               \/ \E m \in ProductionModel : f \in ModelFiles(m)
      PROVE  f \in Protected
  <2>1. ASSUME NEW m \in ProductionModel, f \in ModelFiles(m)
        PROVE  f \in ProductionFiles
    BY <2>1 DEF ProductionFiles
  <2> QED
    BY <1>8, <2>1 DEF Protected
<1>9. RegistryFile \in Protected
  BY DEF Protected
<1>10. /\ cleanup'.kept = Existing /\ cleanup'.protected = Protected
       /\ cleanup'.production = ProductionModel
  BY <1>1
<1> QED
  BY <1>3, <1>6, <1>7, <1>8, <1>9, <1>10 DEF CleanupInv, MustStay

LEMMA LifecycleStep == LifecycleInv /\ [Next]_allVars => LifecycleInv'
<1> SUFFICES ASSUME LifecycleInv, [Next]_allVars PROVE LifecycleInv'
  OBVIOUS
<1>0. RegistryInv /\ FilesInv /\ CleanupInv /\ ServedInv
  BY DEF LifecycleInv
<1>1. ASSUME UNCHANGED <<registry, op>>
      PROVE  RegistryInv'
  BY <1>0, <1>1 DEF RegistryInv, ReadAll
<1>2. ASSUME UNCHANGED <<disk, training, trainings>>
      PROVE  FilesInv' /\ NoneGoes
  BY <1>0, <1>2 DEF FilesInv, NoneGoes
<1>3. ASSUME UNCHANGED <<disk, request, cached>>
      PROVE  ServedInv'
  BY <1>0, <1>3, ServedUnderChange DEF DiskChange
<1>4. CASE RegistryStep
  <2>1. RegistryNext /\ UNCHANGED <<disk, training, trainings, request, cached, cleanup>>
    BY <1>4 DEF RegistryStep, runtimeVars, retentionVars
  <2> QED
    BY <1>0, <1>2, <1>3, <2>1, RegistryStepKeeps, CleanupUnderChange DEF LifecycleInv
<1>5. CASE TrainingStep
  <2>1. TrainingNext /\ UNCHANGED <<registry, op, cleanup>>
    BY <1>5 DEF TrainingStep, regVars, retentionVars
  <2> QED
    BY <1>0, <1>1, <2>1, TrainingStepKeeps, CleanupUnderChange, ServedUnderChange DEF LifecycleInv
<1>6. CASE RequestStep
  <2>1. RequestNext /\ UNCHANGED <<registry, op, cleanup>>
    BY <1>6 DEF RequestStep, regVars, retentionVars
  <2>2. ServedInv' /\ UNCHANGED <<disk, training, trainings>>
    BY <1>0, <2>1, RequestStepKeeps
  <2> QED
    BY <1>0, <1>1, <1>2, <2>1, <2>2, CleanupUnderChange DEF LifecycleInv
<1>7. CASE StartCleanup
  <2>1. UNCHANGED <<registry, op, disk, training, trainings, request, cached>>
    BY <1>7 DEF StartCleanup, regVars, runtimeVars
  <2> QED
    BY <1>0, <1>1, <1>2, <1>3, <1>7, <2>1, CleanupStarts DEF LifecycleInv
<1>8. CASE ScanFile
  BY <1>0, <1>8, ScanStepKeeps, ServedUnderChange DEF LifecycleInv
<1>9. CASE EndCleanup
  <2>1. UNCHANGED <<registry, op, disk, training, trainings, request, cached>> /\ cleanup' = NoCleanup
    BY <1>9 DEF EndCleanup, regVars, runtimeVars
  <2>2. CleanupInv'
    BY <2>1 DEF CleanupInv
  <2> QED
    BY <1>1, <1>2, <1>3, <2>1, <2>2 DEF LifecycleInv
<1>10. CASE GrowOld \/ UNCHANGED allVars
  <2>1. UNCHANGED <<registry, op, disk, training, trainings, request, cached, cleanup>>
    BY <1>10 DEF GrowOld, allVars, regVars, runtimeVars, retentionVars
  <2> QED
    BY <1>0, <1>1, <1>2, <1>3, <2>1, CleanupUnderChange DEF LifecycleInv
<1> QED
  BY <1>4, <1>5, <1>6, <1>7, <1>8, <1>9, <1>10 DEF Next

(* The inductive invariant holds of every behaviour.                       *)
THEOREM LifecycleInvariantHolds == Spec => []LifecycleInv
<1> QED
  BY LifecycleInit, LifecycleStep, PTL DEF Spec

(* Whatever registrations, promotions and archivings of any number of      *)
(* processes overlap, between the read and the write of one another, and   *)
(* wherever they crash: one production model at most.                      *)
THEOREM AtMostOneProduction == Spec => []OneProduction
<1>1. LifecycleInv => OneProduction
  BY SoleIsOne DEF LifecycleInv
<1> QED
  BY <1>1, LifecycleInvariantHolds, PTL

(* No file of the production model of its start, of a report or of the     *)
(* registry is deleted by a cleanup, whatever is promoted or trained while *)
(* it walks.                                                               *)
THEOREM CleanupsSpare == Spec => []CleanupSpares
<1>1. LifecycleInv => CleanupSpares
  BY DEF LifecycleInv, CleanupInv, CleanupSpares, MustStay
<1> QED
  BY <1>1, LifecycleInvariantHolds, PTL

(* A predictor whose hashes could be read, loaded while nothing was        *)
(* written, is of one training, however trainings, crashes and cleanups    *)
(* fell before.                                                            *)
THEOREM ServesWholeModels == Spec => []ServedIsWhole
<1>1. LifecycleInv => ServedIsWhole
  BY DEF LifecycleInv, ServedInv
<1> QED
  BY <1>1, LifecycleInvariantHolds, PTL

(* No other step touches the registry: a cleanup always protects it.       *)
LEMMA StandStep == LifecycleInv /\ StandInv /\ [Next]_allVars => StandInv'
<1> SUFFICES ASSUME LifecycleInv, StandInv, [Next]_allVars PROVE StandInv'
  OBVIOUS
<1>1. RegistryInv
  BY DEF LifecycleInv
<1>2. ASSUME UNCHANGED <<registry, op, ledger, tornAppends, overlapped>>
      PROVE  StandInv'
  BY <1>2 DEF StandInv, Alone, Tally, Current, ReadAll
<1>3. CASE RegistryStep
  BY <1>1, <1>3, RegistryStands DEF RegistryStep
<1>4. CASE ScanFile
  <2>1. RegistryFile \in cleanup.protected
    BY <1>4 DEF LifecycleInv, CleanupInv, ScanFile
  <2>2. registry' = registry /\ UNCHANGED <<op, ledger, tornAppends, overlapped>>
    BY <1>4, <2>1 DEF ScanFile
  <2> QED
    BY <1>2, <2>2
<1>5. CASE TrainingStep \/ RequestStep \/ StartCleanup \/ EndCleanup \/ GrowOld \/ UNCHANGED allVars
  BY <1>2, <1>5 DEF TrainingStep, RequestStep, StartCleanup, EndCleanup, GrowOld, allVars, regVars
<1> QED
  BY <1>3, <1>4, <1>5 DEF Next

(* models/registry.py: as long as no two processes were inside an          *)
(* operation at once, what an operation wrote stands until another changes *)
(* it; a rewrite cut short loses nothing, and each append cut short costs  *)
(* one promised status at most.                                            *)
THEOREM WhatIsWrittenStands == Spec => []WritesStand
<1>1. RegistryInv /\ StandInv => WritesStand
  <2> SUFFICES ASSUME RegistryInv, StandInv, ~overlapped
               PROVE  Cardinality(Lost(ReadAll, ledger)) <= tornAppends
    BY DEF WritesStand, Lost, HeldIn, Held
  <2>1. IsFiniteSet(DOMAIN ledger) /\ tornAppends \in Nat /\ Tally
    BY DEF StandInv
  <2>2. \A n \in DOMAIN ledger : HeldIn(ReadAll, n) # {ledger[n]} =>
          n \in DOMAIN ledger /\ HeldIn(SureOf(registry), n) # {ledger[n]}
    BY SureHolds
  <2> DEFINE sure == Cardinality(Lost(SureOf(registry), ledger))
             read == Cardinality(Lost(ReadAll, ledger))
  <2>3. read \in Nat /\ sure \in Nat /\ read <= sure
    BY <2>1, <2>2, LostOnlyShrinks
  <2>4. sure + (IF Unended(registry) THEN 1 ELSE 0) <= tornAppends
    BY <2>1 DEF Tally
  <2> HIDE DEF sure, read
  <2>5. read <= tornAppends
    BY <2>1, <2>3, <2>4
  <2> QED
    BY <2>5 DEF read
<1>2. LifecycleInv => RegistryInv
  BY DEF LifecycleInv
<1> QED
  BY <1>1, <1>2, RegistryInit, StandStep, LifecycleInvariantHolds, PTL DEF Spec
=============================================================================
