---------------------------- MODULE ModelRegistry ----------------------------
(***************************************************************************)
(* The model registry of models/registry.py: a JSONL file of entries that  *)
(* several processes read and write.  An operation reads the whole file    *)
(* under the lock of its own instance (one operation of a process at a     *)
(* time), decides, and writes under the advisory lock of the file.  An     *)
(* append is one write that a crash can cut short; a rewrite goes through  *)
(* a backup and an atomic rename.                                          *)
(***************************************************************************)
EXTENDS Naturals, FiniteSets, SequencesExt

CONSTANTS ModelIds, Procs, NoProc, MaxOps

ASSUME RegistryAssumption ==
  NoProc \notin Procs /\ MaxOps \in Nat /\ "none" \notin ModelIds

VARIABLES
  registry,    \* the lines of registry.jsonl
  backup,      \* the lines of registry.jsonl.bak
  regLock,     \* the holder of registry.jsonl.lock
  op,          \* what each process is doing in its registry
  ledger,      \* history: status of each model by the writes done, in their order
  tornAppends, \* history: appends cut short by a crash
  overlapped,  \* history: two processes were inside an operation at once
  begun        \* operations begun so far, bounded by MaxOps

regVars == <<registry, backup, regLock, op, ledger, tornAppends, overlapped>>

NoEntry == [model_id |-> "none", status |-> "none"]
Idle == [pc |-> "idle"]

(* A line that ends in a newline, or the last one when a crash cut it.     *)
Line(entry, ended) == [entry |-> entry, ended |-> ended]

(* The entry of each line.  A malformed line is skipped: NoEntry keeps its *)
(* place, as a blank line, and no search finds it.                         *)
EntriesOf(lines) == [i \in DOMAIN lines |-> lines[i].entry]
ReadAll == EntriesOf(registry)

WriteLines(entries) == [i \in DOMAIN entries |-> Line(entries[i], TRUE)]

(* Appending after a line without its newline makes one malformed line.    *)
AppendLine(lines, entry, ended) ==
  IF lines # <<>> /\ ~Last(lines).ended
  THEN Append(Front(lines), Line(NoEntry, ended))
  ELSE Append(lines, Line(entry, ended))

FindEntry(entries, m) == {i \in DOMAIN entries : entries[i].model_id = m}
FirstOf(entries, m) == CHOOSE i \in FindEntry(entries, m) : \A j \in FindEntry(entries, m) : i <= j

GetProduction == {i \in DOMAIN ReadAll : ReadAll[i].status = "production"}
ProductionModel ==
  IF GetProduction = {} THEN {}
  ELSE {ReadAll[CHOOSE i \in GetProduction : \A j \in GetProduction : i <= j].model_id}

\* Bug form: the production model of before keeps its status.
Bug_NotDemoted(entries, m) == [entries EXCEPT ![FirstOf(entries, m)].status = "production"]

(* The entries after promote: every other production entry is demoted.     *)
Promoted(entries, m) ==
  [i \in DOMAIN entries |->
     IF i = FirstOf(entries, m) THEN [entries[i] EXCEPT !.status = "production"]
     ELSE IF entries[i].status = "production" /\ entries[i].model_id # m
          THEN [entries[i] EXCEPT !.status = "registered"]
          ELSE entries[i]]

Archived(entries, m) == [entries EXCEPT ![FirstOf(entries, m)].status = "archived"]

(* The same operations on the statuses that were promised. *)
Marked(statuses, m, status) ==
  [n \in DOMAIN statuses \cup {m} |-> IF n = m THEN status ELSE statuses[n]]

Demoted(statuses) ==
  [n \in DOMAIN statuses |-> IF statuses[n] = "production" THEN "registered" ELSE statuses[n]]

LedgerAfter(kind, m) ==
  CASE kind = "register" -> Marked(ledger, m, "registered")
    [] kind = "promote"  -> Marked(Demoted(ledger), m, "production")
    [] kind = "archive"  -> Marked(ledger, m, "archived")

(* The read and the checks of an operation; a refusal changes nothing.     *)
Begin(p, kind, m, entries) ==
  /\ op[p] = Idle
  /\ begun < MaxOps
  /\ begun' = begun + 1
  /\ op' = [op EXCEPT ![p] = [pc |-> "waits", kind |-> kind, model |-> m, entries |-> entries]]
  /\ overlapped' = (overlapped \/ \E q \in Procs \ {p} : op[q] # Idle)
  /\ UNCHANGED <<registry, backup, regLock, ledger, tornAppends>>

Register(p, m) ==
  /\ FindEntry(ReadAll, m) = {}
  /\ Begin(p, "register", m, <<>>)

Promote(p, m) ==
  /\ FindEntry(ReadAll, m) # {}
  /\ ReadAll[FirstOf(ReadAll, m)].status # "archived"
  /\ Begin(p, "promote", m, Promoted(ReadAll, m))

Archive(p, m) ==
  /\ FindEntry(ReadAll, m) # {}
  /\ Begin(p, "archive", m, Archived(ReadAll, m))

TakeLock(p) ==
  /\ op[p] # Idle /\ op[p].pc = "waits"
  /\ regLock = NoProc
  /\ regLock' = p
  /\ op' = [op EXCEPT ![p].pc = IF op[p].kind = "register" THEN "append" ELSE "backup"]
  /\ UNCHANGED <<registry, backup, ledger, tornAppends, overlapped, begun>>

(* TimeoutError after ten seconds: the operation is given up unwritten.    *)
GiveUp(p) ==
  /\ op[p] # Idle /\ op[p].pc = "waits"
  /\ regLock # NoProc
  /\ op' = [op EXCEPT ![p] = Idle]
  /\ UNCHANGED <<registry, backup, regLock, ledger, tornAppends, overlapped, begun>>

AppendOne(p) ==
  /\ op[p] # Idle /\ op[p].pc = "append"
  /\ registry' = AppendLine(registry, [model_id |-> op[p].model, status |-> "registered"], TRUE)
  /\ ledger' = LedgerAfter("register", op[p].model)
  /\ op' = [op EXCEPT ![p] = Idle]
  /\ regLock' = NoProc
  /\ UNCHANGED <<backup, tornAppends, overlapped, begun>>

(* Bug form: the registry written in place, so that the crash of a       *)
(* rewrite leaves it cut.                                                  *)
Bug_BackupByMove(p) ==
  /\ op[p] # Idle /\ op[p].pc = "backup"
  /\ backup' = registry
  /\ registry' = <<>>
  /\ op' = [op EXCEPT ![p].pc = "replace"]
  /\ UNCHANGED <<regLock, ledger, tornAppends, overlapped, begun>>

Backup(p) ==
  /\ op[p] # Idle /\ op[p].pc = "backup"
  /\ backup' = registry
  /\ op' = [op EXCEPT ![p].pc = "replace"]
  /\ UNCHANGED <<registry, regLock, ledger, tornAppends, overlapped, begun>>

(* The temporary file is written and renamed over the registry. *)
Replace(p) ==
  /\ op[p] # Idle /\ op[p].pc = "replace"
  /\ registry' = WriteLines(op[p].entries)
  /\ ledger' = LedgerAfter(op[p].kind, op[p].model)
  /\ op' = [op EXCEPT ![p] = Idle]
  /\ regLock' = NoProc
  /\ UNCHANGED <<backup, tornAppends, overlapped, begun>>

(* A crash of the process frees its lock.  An append may have written      *)
(* nothing, a part of its line, or all of it but the newline.              *)
CrashRegistry(p) ==
  /\ op[p] # Idle
  /\ op' = [op EXCEPT ![p] = Idle]
  /\ regLock' = IF regLock = p THEN NoProc ELSE regLock
  /\ \/ UNCHANGED <<registry, tornAppends>>
     \/ /\ op[p].pc = "append"
        /\ \E e \in {NoEntry, [model_id |-> op[p].model, status |-> "registered"]} :
             registry' = AppendLine(registry, e, FALSE)
        /\ tornAppends' = tornAppends + 1
  /\ UNCHANGED <<backup, ledger, overlapped, begun>>

RegistryNext ==
  \E p \in Procs :
    \/ \E m \in ModelIds : Register(p, m) \/ Promote(p, m) \/ Archive(p, m)
    \/ TakeLock(p) \/ GiveUp(p) \/ AppendOne(p) \/ Backup(p) \/ Replace(p)
    \/ CrashRegistry(p)

-----------------------------------------------------------------------------
(* What the registry holds for a model: the status of its first entry.     *)
Held(m) == IF FindEntry(ReadAll, m) = {} THEN {}
           ELSE {ReadAll[FirstOf(ReadAll, m)].status}

(* Whatever the processes interleave, however many crash, the file never   *)
(* holds two production models (promote demotes what it read).             *)
OneProduction == Cardinality(GetProduction) <= 1

(* As long as no two processes were inside an operation at once, what an   *)
(* operation wrote stands until another changes it: a rewrite cut short    *)
(* loses nothing, an append cut short costs at most one later entry.       *)
WritesStand ==
  ~overlapped =>
    Cardinality({m \in DOMAIN ledger : Held(m) # {ledger[m]}}) <= tornAppends

=============================================================================
