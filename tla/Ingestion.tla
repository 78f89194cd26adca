------------------------------ MODULE Ingestion ------------------------------
(***************************************************************************)
(* One ingestion, line by line or row by row, of a log that a workload     *)
(* manager wrote about jobs: the _iter_rows loops of ingest/, what they    *)
(* count, and finalize_ingest; and a sync of the live connector over the   *)
(* same jobs.                                                              *)
(*                                                                         *)
(* A line about a job is the job with the figures its log gives, a subset  *)
(* of Figures: the others are blank in the text.  skip_job_steps has its   *)
(* default, True.                                                          *)
(***************************************************************************)
EXTENDS LogFormats

CONSTANTS
  LogLines,      \* lines about jobs: kind, job (id, user, submit, start, ran,
                 \* cpus, limit_min) and the figures given
  MaxRows,       \* MAX_ROWS
  MaxLines,      \* lines read (bounds the run)
  Displays       \* how qstat shows a cluster's jobs: the form of its times,
                 \* by how much the cluster's clock is ahead of UTC (zone), how
                 \* long after its end a job last changed, and its state

VARIABLES
  phase,         \* "direct" (no ingestion), "reading", "ingested", "refused"
  format,
  log,           \* the lines read so far
  header_seen,
  stats,
  rows,          \* canonical rows
  sync           \* the connector's SyncResult, or NoSync before

ingest_vars == <<phase, format, log, header_seen, stats, rows, sync>>

Figures == {"start", "end", "ran", "cpus"}

Counters == {"total", "header_lines", "comment_lines", "blank_lines", "step_lines_skipped",
             "non_exit_records", "malformed_lines", "dropped_no_submit_ts", "parsed_rows"}

-----------------------------------------------------------------------------
(* The live connectors (integrations/slurm_connector.py, pbs_connector.py): *)
(* they read the same jobs as the ingesters with parsers of their own and  *)
(* ask the runtime model about each.  What printed is, is told by no field *)
(* of the code's result: the command printed nothing that reached the      *)
(* connector ("none"), jobs, or a text that is not of jobs ("garbled").    *)
NoSync == [printed |-> "none", ingested |-> 0, running |-> 0, recommendations |-> 0, errors |-> 0]

(* Missing is a ValueError: UNLIMITED and whatever int() does not read.    *)
SlurmTime(duration) ==
  CASE duration = Missing -> 0
    [] Missing \in Range(duration.parts) -> Missing
    [] Len(duration.parts) \in 2..3 -> DAY * duration.days + Seconds(duration.parts)
    [] OTHER -> DAY * duration.days + Head(duration.parts)

(* A text of one or four parts is read as no time.                         *)
PbsTime(duration) ==
  CASE duration = Missing \/ Len(duration.parts) \notin 2..3 -> 0
    [] Missing \in Range(duration.parts) -> Missing
    [] OTHER -> Seconds(duration.parts)

(* A text in one of two forms is a time, and its clock is taken for UTC    *)
(* whatever zone it was written in; any other text is no time.             *)
PbsDatetime(text) ==
  IF text # Missing /\ text.form \in {"asctime", "iso"} THEN text.clock ELSE Missing

(* A row of the connector's frame: what is unknown is 0.                   *)
Reported(entry, submit, start, end, ran, limit, cpus) ==
  [job_id |-> entry.id,
   user_id |-> entry.user,
   submit_ts |-> FillNa(submit, 0),
   start_ts |-> FillNa(start, 0),
   end_ts |-> FillNa(end, 0),
   runtime_actual_sec |-> ran,
   runtime_requested_sec |-> limit,
   requested_cpus |-> FillNa(cpus, 1)]

(* The rows of sacct: no job steps and no array jobs.  Their times are in  *)
(* the form that the ingester reads too, and both take them for UTC.       *)
SacctJob(entry) ==
  Reported(entry, entry.submit, entry.start, entry.end,
           SlurmTime(entry.elapsed), SlurmTime(entry.limit), entry.alloc)

(* The end of a job is the time qstat last saw it change.                  *)
QstatJob(entry) ==
  Reported(entry, PbsDatetime(entry.ctime), PbsDatetime(entry.stime), PbsDatetime(entry.mtime),
           PbsTime(entry.walltime), PbsTime(entry.limit), entry.ncpus)

ConnectorJob(manager, entry) == IF manager = "slurm" THEN SacctJob(entry) ELSE QstatJob(entry)

(* A time that cannot be read fails the whole sync.                        *)
Unreadable(manager, entries) ==
  \E i \in DOMAIN entries :
    LET job == ConnectorJob(manager, entries[i])
    IN  Missing \in {job.runtime_actual_sec, job.runtime_requested_sec}

(* sync: what it makes of what the command printed.  A call that cannot be *)
(* made (no such binary, a non-zero exit, a timeout), a time that cannot be *)
(* read and a model that does not load end it with one error; a failed     *)
(* prediction is one error and the next job is asked about.  A text that   *)
(* is not of jobs is no error: qstat's, when it is no JSON, is warned of,  *)
(* sacct's lines that begin with no number are skipped, and no job is left. *)
SyncResult(manager, entries, printed, model, failing) ==
  CASE printed = "none" \/ Unreadable(manager, entries) ->
         [NoSync EXCEPT !.printed = printed, !.errors = 1]
    [] OTHER ->
       [printed |-> printed,
        ingested |-> Len(entries),
        running |-> IF manager = "slurm" THEN 0
                    ELSE Cardinality({i \in DOMAIN entries : entries[i].state \in {"R", "E"}}),
        recommendations |-> IF model = "loads" THEN Len(entries) - Cardinality(failing) ELSE 0,
        errors |-> CASE model = "loads" -> Cardinality(failing) [] model = "broken" -> 1 [] OTHER -> 0]

-----------------------------------------------------------------------------
(* What the workload managers write (outside the repository).              *)

Clock(seconds) == <<seconds \div 3600, (seconds \div 60) % 60, seconds % 60>>

EndOf(job) == job.start + job.ran

Figure(line, name, value) == IF name \in line.given THEN value ELSE Missing

(* An array job is numbered 12345_0, which is no number.                   *)
IdOf(line) == IF line.kind = "array" THEN Missing ELSE line.job.id

Written(form, line) ==
  LET job == line.job
      submit == IF line.kind = "unsubmitted" THEN Missing ELSE job.submit
      start == Figure(line, "start", job.start)
      end == Figure(line, "end", EndOf(job))
      ran == Figure(line, "ran", job.ran)
      cpus == Figure(line, "cpus", job.cpus)
      user == <<IF form \in {"swf", "pm100"} THEN "number" ELSE "name", job.user>>
      head == [id |-> IdOf(line), user |-> user, start |-> start, end |-> end]
      wall == IF ran = Missing THEN Missing ELSE [days |-> 0, parts |-> Clock(ran)]
  IN  CASE form = "slurm" -> head @@
             [submit |-> submit,
              elapsed |-> IF ran = Missing THEN Missing
                          ELSE [days |-> ran \div DAY, parts |-> Clock(ran % DAY)],
              limit |-> [days |-> 0, parts |-> Clock(60 * job.limit_min)],
              req |-> cpus, alloc |-> cpus]
        [] form = "pbs" -> head @@
             [ctime |-> IF line.kind = "requeued" THEN Missing ELSE submit, qtime |-> submit,
              logged |-> IF line.kind = "unsubmitted" THEN Missing ELSE EndOf(job),
              walltime |-> wall, limit |-> [days |-> 0, parts |-> Clock(60 * job.limit_min)],
              ncpus |-> IF line.kind = "requeued" THEN Missing ELSE cpus,
              nodes |-> IF cpus = Missing THEN <<>> ELSE <<[count |-> cpus, ppn |-> 1]>>]
        [] form = "swf" ->
             [id |-> IdOf(line), user |-> user, submit |-> submit,
              wait |-> IF start = Missing THEN Missing ELSE job.start - job.submit,
              run |-> ran, alloc |-> cpus, req |-> Missing, limit |-> 60 * job.limit_min]
        [] form = "pm100" -> head @@
             [submit |-> submit, run_time |-> ran, req |-> cpus, alloc |-> Missing,
              limit_min |-> job.limit_min]
        [] form = "fdata" -> head @@
             [submit |-> submit, duration |-> ran, req |-> cpus, alloc |-> Missing,
              limit |-> 60 * job.limit_min]

(* qstat about the job of a line of the accounting log.                    *)
Shown(line, display) ==
  LET job == line.job
      logged == Written("pbs", line)
      Text(ts) == IF ts = Missing THEN Missing ELSE [form |-> display.form, clock |-> ts + display.zone]
  IN  [id |-> logged.id, user |-> logged.user, state |-> display.state,
       ctime |-> Text(logged.ctime), stime |-> Text(logged.start),
       mtime |-> IF logged.end = Missing THEN Missing ELSE Text(logged.end + display.changed),
       walltime |-> logged.walltime, limit |-> logged.limit, ncpus |-> logged.ncpus]

-----------------------------------------------------------------------------

AboutAJob(line) == line.kind \in {"job", "array", "requeued", "unsubmitted"}

(* What is seen before the row limit is looked at.                         *)
Blank(form, line) == line.kind = "blank" \/ (line.kind = "comment" /\ form = "pbs")
PassedOver(form, line) ==
  form \notin Tables /\ (Blank(form, line) \/ line.kind = "long" \/ (line.kind = "comment" /\ form = "swf"))

Malformed(form, line) == ~ (AboutAJob(line) /\ Replayable(form, Written(form, line)))

(* The counter a line goes to.  A second header is read as a row, whose    *)
(* dates cannot be; a comment, as a row with too few columns.              *)
SlurmFate(line, seen) ==
  CASE line.kind = "blank" -> "blank_lines"
    [] line.kind = "header" /\ ~ seen -> "header_lines"
    [] line.kind = "step" -> "step_lines_skipped"
    [] Malformed("slurm", line) -> "malformed_lines"
    [] OTHER -> "parsed_rows"

PbsFate(line) ==
  CASE Blank("pbs", line) -> "blank_lines"
    [] line.kind = "other" -> "non_exit_records"
    [] Malformed("pbs", line) -> "malformed_lines"
    [] OTHER -> "parsed_rows"

SwfFate(line) ==
  CASE line.kind = "blank" -> "blank_lines"
    [] line.kind = "comment" -> "comment_lines"
    [] Malformed("swf", line) -> "malformed_lines"
    [] OTHER -> "parsed_rows"

TableFate(form, line) ==
  IF Malformed(form, line) THEN "dropped_no_submit_ts" ELSE "parsed_rows"

Fate(form, line, seen) ==
  CASE form = "slurm" -> SlurmFate(line, seen)
    [] form = "pbs" -> PbsFate(line)
    [] form = "swf" -> SwfFate(line)
    [] OTHER -> TableFate(form, line)

KindsOf(form) ==
  CASE form = "slurm" -> {"job", "array", "unsubmitted", "blank", "comment", "long", "header", "step"}
    [] form = "pbs" -> {"job", "array", "requeued", "unsubmitted", "blank", "comment", "long", "other"}
    [] form = "swf" -> {"job", "unsubmitted", "blank", "comment", "long", "short"}
    [] OTHER -> {"job", "unsubmitted"}

NoJob == [id |-> 0, user |-> 0, submit |-> 0, start |-> 0, ran |-> 0, cpus |-> 0, limit_min |-> 0]

Lines(form) ==
  {line \in LogLines \cup [kind : KindsOf(form), job : {NoJob}, given : {{}}] :
     line.kind \in KindsOf(form) /\ (AboutAJob(line) <=> line \in LogLines)}

(* A log tells of a job once.                                              *)
Fresh(line) == AboutAJob(line) => \A i \in DOMAIN log : log[i].job # line.job

IngestInit ==
  /\ phase = "reading"
  /\ format \in Formats
  /\ log = <<>>
  /\ header_seen = FALSE
  /\ stats = [c \in Counters |-> 0]
  /\ rows = <<>>
  /\ sync = NoSync

AtLimit(line) ==
  format \notin Tables /\ stats.parsed_rows >= MaxRows /\ ~ PassedOver(format, line)

ReadLine(line) ==
  /\ phase = "reading"
  /\ Len(log) < MaxLines
  /\ ~ AtLimit(line)
  /\ LET fate == Fate(format, line, header_seen)
     IN  /\ stats' = [stats EXCEPT !.total = @ + 1, ![fate] = @ + 1]
         /\ header_seen' = (header_seen \/ fate = "header_lines")
         /\ rows' = IF fate = "parsed_rows"
                    THEN Append(rows, RowOf(format, Written(format, line))) ELSE rows
  /\ log' = Append(log, line)
  /\ UNCHANGED <<phase, format, sync>>

(* The line that finds MAX_ROWS rows read is counted and ends the loop.    *)
StopAtLimit(line) ==
  /\ phase = "reading"
  /\ Len(log) < MaxLines
  /\ AtLimit(line)
  /\ stats' = [stats EXCEPT !.total = @ + 1]
  /\ phase' = "full"
  /\ UNCHANGED <<format, log, header_seen, rows, sync>>

(* No parsable rows; a table is refused only when it is empty.             *)
NothingRead == IF format \in Tables THEN log = <<>> ELSE rows = <<>>

(* finalize_ingest, or a ValueError and nothing written.                   *)
Finalize ==
  /\ phase \in {"reading", "full"}
  /\ phase' = IF NothingRead THEN "refused" ELSE "ingested"
  /\ UNCHANGED <<format, log, header_seen, stats, rows, sync>>

(* What the command prints about the job of a line.                        *)
Printed(line, display) == IF format = "pbs" THEN Shown(line, display) ELSE Written(format, line)

(* The jobs the connector makes of an output: sacct prints no lines that   *)
(* are not about a job, and its array jobs are skipped.                    *)
Fetched(printed, display) ==
  LET seen == SelectSeq(log, LAMBDA line : /\ printed = "jobs"
                                           /\ AboutAJob(line)
                                           /\ format = "slurm" => line.kind # "array")
  IN  [i \in DOMAIN seen |-> Printed(seen[i], display)]

Sync ==
  /\ phase = "ingested"
  /\ format \in {"slurm", "pbs"}
  /\ phase' = "synced"
  /\ \E printed \in {"none", "garbled", "jobs"}, display \in Displays, model \in {"none", "broken", "loads"} :
       \E entries \in {Fetched(printed, display)} : \E failing \in SUBSET DOMAIN entries :
         sync' = SyncResult(format, entries, printed, model, failing)
  /\ UNCHANGED <<format, log, header_seen, stats, rows>>

IngestNext ==
  \/ \E line \in Lines(format) : Fresh(line) /\ (ReadLine(line) \/ StopAtLimit(line))
  \/ Finalize
  \/ Sync

-----------------------------------------------------------------------------

(* src/rust/swf-parser counts the same lines, but only by their tokens.    *)
RustParsed(line) == AboutAJob(line)
RustBlank(line) == line.kind = "blank"
RustComment(line) == line.kind = "comment"

Accepted == SelectSeq(log, LAMBDA line : AboutAJob(line) /\ Replayable(format, Written(format, line)))

Count(Test(_)) == Cardinality({i \in DOMAIN log : Test(log[i])})

(* The connector and the ingester of the same workload manager give a job  *)
(* with all its figures the same times and CPUs.  Of qstat that holds where *)
(* the cluster's clock is UTC, its form of times is known and the job has  *)
(* not changed since its end; in another zone the times are off together,  *)
(* and of an unknown form there are none.                                  *)
ConnectorAgrees(row, line) ==
  \A display \in Displays :
    LET seen == ConnectorJob(format, Printed(line, display))
        Told(f) == IF format = "slurm" THEN row[f]
                   ELSE IF display.form = "other" THEN 0 ELSE row[f] + display.zone
    IN  /\ \A f \in {"job_id", "runtime_actual_sec", "requested_cpus"} : seen[f] = row[f]
        /\ \A f \in {"submit_ts", "start_ts"} : seen[f] = Told(f)
        /\ format = "slurm" \/ display.form = "other" \/ display.changed = 0 => seen.end_ts = Told("end_ts")

(* A sync that got jobs and reports no error took in every numbered job    *)
(* that the ingester did; one that got no answer reports an error.  One    *)
(* that got something else looks like an empty cluster.                    *)
SyncAgrees == format \in {"slurm", "pbs"} =>
  /\ phase = "ingested" => \A i \in DOMAIN rows :
       Accepted[i].given = Figures /\ Accepted[i].kind = "job" => ConnectorAgrees(rows[i], Accepted[i])
  /\ phase = "synced" /\ sync.errors = 0 =>
       CASE sync.printed = "jobs" ->
              sync.ingested >= Cardinality({i \in DOMAIN rows : rows[i].job_id # Missing})
         [] sync.printed = "garbled" -> sync = [NoSync EXCEPT !.printed = "garbled"]
         [] OTHER -> FALSE

RowsSayTheirJobs ==
  /\ Len(rows) = Len(Accepted) /\ Len(rows) = stats.parsed_rows
  /\ \A i \in DOMAIN rows :
       LET job == Accepted[i].job
           given == Accepted[i].given
           row == rows[i]
       IN  /\ row.submit_ts = job.submit
           /\ "start" \in given => row.start_ts = job.start /\ row.wait_sec = job.start - job.submit
           /\ "ran" \in given => row.runtime_actual_sec = job.ran
           /\ "start" \in given /\ "ran" \in given => row.end_ts = EndOf(job)
           /\ {"start", "end"} \subseteq given /\ format # "pm100" => row.runtime_actual_sec = job.ran
           /\ "cpus" \in given => row.requested_cpus = job.cpus /\ row.allocated_cpus = job.cpus
           /\ row.runtime_requested_sec \in {60 * job.limit_min} \cup (IF format = "slurm" THEN {Missing} ELSE {})
  /\ LET counted == FoldFunctionOnSet(+, 0, stats, Counters \ {"total"})
     IN  /\ counted = Len(log)
         /\ stats.total - counted \in 0..1
         /\ stats.total > counted => stats.parsed_rows = MaxRows
  /\ format = "swf" =>
       /\ Count(RustBlank) = stats.blank_lines
       /\ Count(RustComment) = stats.comment_lines
       /\ Count(RustParsed) >= stats.parsed_rows

(* Whatever the log leaves out, a row says of its job what the log gives:  *)
(* its submission; its start; its run time; and its end as soon as two of  *)
(* the three tell it.  PM100 is the exception, which takes a missing run   *)
(* time for none.  No line is counted twice or lost, and the Rust counter  *)
(* of SWF lines differs only by rows that lack a figure.  A connector of   *)
(* the same workload manager agrees as far as SyncAgrees says.             *)
RowsFaithful ==
  /\ SyncAgrees
  /\ phase # "synced" => RowsSayTheirJobs
=============================================================================
