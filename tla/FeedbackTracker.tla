--------------------------- MODULE FeedbackTracker ---------------------------
(***************************************************************************)
(* The prediction feedback of integrations/feedback.py: records kept in    *)
(* memory and appended to predictions.jsonl, which a restart and the       *)
(* metrics exporter (integrations/metrics_exporter.py) read again.         *)
(*                                                                         *)
(* A record is [in_interval, error], the error of p50 by its sign.         *)
(***************************************************************************)
EXTENDS Integers, FiniteSets, SequencesExt

CONSTANTS
  MaxMemory,      \* max_records
  Warning,        \* coverage_warning_threshold, [num, den]
  Critical,       \* coverage_critical_threshold, [num, den]
  MaxObserved     \* records made

ASSUME FeedbackAssumption ==
  /\ MaxMemory \in Nat \ {0}
  /\ Critical.num * Warning.den <= Warning.num * Critical.den

VARIABLES
  records,   \* the tracker's memory
  lines,     \* predictions.jsonl: [record, ended]; Garbage for a malformed one
  exported,  \* the gauges of the last collection
  observed,  \* history: records of this process, after what it loaded
  saved,     \* history: records whose line was written in full, in order
  cut,       \* history: places in saved after which a line was cut short
  made       \* records made so far

feedbackVars == <<records, lines, exported, observed, saved, cut, made>>

(* What a prediction and the actual runtime make of it: a runtime outside  *)
(* the interval is on one side of p50, inside it on any.                   *)
Observations == [in_interval : BOOLEAN, error : {-1, 0, 1}] \ {[in_interval |-> FALSE, error |-> 0]}
Garbage == [in_interval |-> FALSE, error |-> 2]
NoReport == [total_predictions |-> 0, covered |-> 0, over |-> 0, under |-> 0, severity |-> "none"]

(* _load_records: the first line that cannot be read ends the load.        *)
LoadRecords(file) ==
  LET bad == {i \in DOMAIN file : file[i].record = Garbage}
      end == IF bad = {} THEN Len(file) ELSE (CHOOSE i \in bad : \A j \in bad : i <= j) - 1
  IN  [i \in 1..end |-> file[i].record]

(* Appending to a line without its newline makes one malformed line.       *)
AppendTo(file, record, ended) ==
  IF file # <<>> /\ ~ Last(file).ended
  THEN Append(Front(file), [record |-> Garbage, ended |-> ended])
  ELSE Append(file, [record |-> record, ended |-> ended])

LastN(seq, n) == SubSeq(seq, IF Len(seq) > n THEN Len(seq) - n + 1 ELSE 1, Len(seq))

\* Bug form: the oldest records are kept.
Bug_KeepsOldest(seq) == IF Len(seq) > MaxMemory THEN SubSeq(seq, 1, MaxMemory) ELSE seq

Trimmed(seq) == LastN(seq, MaxMemory)

FeedbackInit ==
  /\ records = <<>> /\ lines = <<>> /\ exported = NoReport
  /\ observed = <<>> /\ saved = <<>> /\ cut = {}
  /\ made = 0

(* record: memory, then the file, then the trim. *)
Record(record) ==
  /\ made < MaxObserved
  /\ made' = made + 1
  /\ records' = Trimmed(Append(records, record))
  /\ lines' = AppendTo(lines, record, TRUE)
  /\ observed' = Append(observed, record)
  /\ saved' = Append(saved, record)
  /\ UNCHANGED <<exported, cut>>

(* The append raises: the record stays in memory, untrimmed.               *)
RecordFails(record) ==
  /\ made < MaxObserved
  /\ made' = made + 1
  /\ records' = Append(records, record)
  /\ observed' = Append(observed, record)
  /\ UNCHANGED <<lines, exported, saved, cut>>

(* A restart: memory is what the file gives. *)
Reload(file) ==
  /\ lines' = file
  /\ records' = LoadRecords(file)
  /\ observed' = LoadRecords(file)

Restart == Reload(lines) /\ UNCHANGED <<exported, saved, cut, made>>

(* A crash inside record: some of the line is written.                     *)
CrashInRecord(record) ==
  /\ made < MaxObserved
  /\ made' = made + 1
  /\ \/ Reload(AppendTo(lines, record, FALSE)) /\ saved' = Append(saved, record)
     \/ Reload(AppendTo(lines, Garbage, FALSE)) /\ UNCHANGED saved
  /\ cut' = cut \cup {Len(saved')}
  /\ UNCHANGED exported

-----------------------------------------------------------------------------
Below(k, n, threshold) == k * threshold.den < threshold.num * n

Severity(k, n) ==
  IF Below(k, n, Critical) THEN "severe" ELSE IF Below(k, n, Warning) THEN "mild" ELSE "none"

ReportOf(seq) ==
  LET Count(P(_)) == Cardinality({i \in DOMAIN seq : P(seq[i])})
      covered == Count(LAMBDA r : r.in_interval)
  IN  IF seq = <<>> THEN NoReport
      ELSE [total_predictions |-> Len(seq), covered |-> covered,
            over |-> Count(LAMBDA r : r.error > 0), under |-> Count(LAMBDA r : r.error < 0),
            severity |-> Severity(covered, Len(seq))]

(* generate_report of the last n records; 0: of all. *)
Report(all, last_n) == ReportOf(IF last_n > 0 THEN LastN(all, last_n) ELSE all)

(* The exporter makes a tracker of its own from the file.                  *)
Collect ==
  /\ exported' = Report(LoadRecords(lines), 0)
  /\ exported' # exported
  /\ UNCHANGED <<records, lines, observed, saved, cut, made>>

FeedbackNext ==
  \/ \E record \in Observations : Record(record) \/ RecordFails(record) \/ CrashInRecord(record)
  \/ Restart \/ Collect

FeedbackSpec == FeedbackInit /\ [][FeedbackNext]_feedbackVars

-----------------------------------------------------------------------------
(* What memory and file give is what was observed: over any restarts the   *)
(* report of recent predictions is that of the last ones this process      *)
(* loaded or made, and what a reload gives is every saved record, up to    *)
(* the first line cut short and at most the one that shares that line.     *)
FeedbackFaithful ==
  /\ \A n \in 1..MaxMemory : Report(records, n) = Report(observed, n)
  /\ cut = {} => LoadRecords(lines) = saved
  /\ cut # {} => LET first == CHOOSE c \in cut : \A d \in cut : c <= d
                 IN  IsPrefix(LoadRecords(lines), saved) /\ Len(LoadRecords(lines)) >= first - 1
=============================================================================
