----------------------------- MODULE LogFormats -----------------------------
(***************************************************************************)
(* How the ingesters read one job: sacct output (ingest/slurm.py), PBS     *)
(* accounting records (pbs.py), SWF lines (swf.py) and the PM100 and F-DATA *)
(* tables (pm100.py, fdata.py), with what each puts in the place of a      *)
(* figure the log does not give.                                           *)
(*                                                                         *)
(* An entry is the job as its format writes it, a record of the figures    *)
(* that the format has; Missing stands for one that is absent, a sentinel  *)
(* (Unknown, -1, NaT) or not readable.  A duration is the days and the     *)
(* colon-separated parts of its text.                                      *)
(***************************************************************************)
EXTENDS TraceInput

Formats == {"slurm", "pbs", "swf", "pm100", "fdata"}
Tables == {"pm100", "fdata"}   \* read from parquet, all rows at once

FillNa(x, y) == IF x = Missing THEN y ELSE x

Readable(duration) == duration # Missing /\ Missing \notin Range(duration.parts)

Seconds(parts) == FoldLeft(LAMBDA total, part : 60 * total + part, 0, parts)

DAY == 86400

(* [DD-]HH:MM:SS, MM:SS or SS.                                             *)
ParseElapsed(duration) ==
  IF Readable(duration) /\ Len(duration.parts) \in 1..3
  THEN DAY * duration.days + Seconds(duration.parts)
  ELSE Missing

(* HH:MM:SS, MM:SS or DD:HH:MM:SS; seconds alone are not read.             *)
ParseWalltime(duration) ==
  CASE ~ Readable(duration) -> Missing
    [] Len(duration.parts) \in 2..3 -> Seconds(duration.parts)
    [] Len(duration.parts) = 4 -> DAY * Head(duration.parts) + Seconds(Tail(duration.parts))
    [] OTHER -> Missing

(* nodes=2:ppn=4+1 : chunks of nodes, each with the CPUs it uses of them.  *)
NcpusFromNodes(chunks) ==
  LET total == FoldLeft(LAMBDA sum, chunk : sum + chunk.count * chunk.ppn, 0, chunks)
  IN  IF total > 0 THEN total ELSE Missing

(* The canonical row.                                                      *)
Canonical(entry, submit, start, end, ran, limit, cpus, alloc) ==
  [job_id |-> entry.id,
   user_id |-> entry.user,
   submit_ts |-> submit,
   start_ts |-> start,
   end_ts |-> end,
   wait_sec |-> AtLeast(0, start - submit),
   runtime_actual_sec |-> ran,
   runtime_requested_sec |-> limit,
   requested_cpus |-> cpus,
   allocated_cpus |-> alloc]

Bug_EndFromSubmit(entry) ==
  LET ran == FillNa(ParseElapsed(entry.elapsed), 0)
      cpus == FillNa(entry.req, FillNa(entry.alloc, 1))
  IN  Canonical(entry, entry.submit, FillNa(entry.start, entry.submit),
                FillNa(entry.end, entry.submit + ran), ran, Missing, cpus, FillNa(entry.alloc, cpus))

(* The elapsed time is believed before the difference of end and start,    *)
(* and a job that never started is taken to start at its submission.       *)
SlurmRow(entry) ==
  LET elapsed == ParseElapsed(entry.elapsed)
      start == FillNa(entry.start, entry.submit)
      derived_end == IF entry.start # Missing /\ elapsed # Missing THEN entry.start + elapsed ELSE Missing
      known_end == FillNa(entry.end, derived_end)
      derived_ran == IF entry.start # Missing /\ known_end # Missing
                     THEN AtLeast(0, known_end - entry.start) ELSE Missing
      known_ran == IF elapsed # Missing THEN AtLeast(0, elapsed) ELSE derived_ran
      end == FillNa(known_end, start + FillNa(known_ran, 0))
      cpus == FillNa(entry.req, FillNa(entry.alloc, 1))
  IN  Canonical(entry, entry.submit, start, end, FillNa(known_ran, AtLeast(0, end - start)),
                Missing, cpus, FillNa(entry.alloc, cpus))

(* Creation time, else queue time, else the time of the record itself.     *)
PbsSubmit(entry) == FillNa(FillNa(entry.ctime, entry.qtime), entry.logged)

PbsRow(entry) ==
  LET submit == PbsSubmit(entry)
      walltime == ParseWalltime(entry.walltime)
      start == FillNa(entry.start, submit)
      end == FillNa(entry.end, start + FillNa(walltime, 0))
      cpus == FillNa(FillNa(entry.ncpus, NcpusFromNodes(entry.nodes)), 1)
  IN  Canonical(entry, submit, start, end, FillNa(walltime, AtLeast(0, end - start)),
                ParseWalltime(entry.limit), cpus, cpus)

SwfRow(entry) ==
  LET wait == AtLeast(0, entry.wait)
      ran == AtLeast(0, entry.run)
  IN  Canonical(entry, entry.submit, entry.submit + wait, entry.submit + wait + ran, ran,
                entry.limit, FillNa(entry.req, entry.alloc), entry.alloc)

(* A missing run time is none, even where start and end are given; limits  *)
(* are in minutes.                                                         *)
Pm100Row(entry) ==
  LET ran == AtLeast(0, FillNa(entry.run_time, 0))
      start == FillNa(entry.start, entry.submit)
      cpus == FillNa(entry.req, FillNa(entry.alloc, 1))
  IN  Canonical(entry, entry.submit, start, FillNa(entry.end, start + ran), ran,
                IF entry.limit_min = Missing THEN Missing ELSE 60 * entry.limit_min,
                cpus, FillNa(entry.alloc, cpus))

FdataRow(entry) ==
  LET derived == IF entry.start # Missing /\ entry.end # Missing THEN entry.end - entry.start ELSE 0
      ran == AtLeast(0, FillNa(entry.duration, derived))
      start == FillNa(entry.start, entry.submit)
      cpus == AtLeast(1, FillNa(entry.req, FillNa(entry.alloc, 1)))
  IN  Canonical(entry, entry.submit, start, FillNa(entry.end, start + ran), ran,
                entry.limit, cpus, FillNa(entry.alloc, cpus))

RowOf(format, entry) ==
  CASE format = "slurm" -> SlurmRow(entry)
    [] format = "pbs" -> PbsRow(entry)
    [] format = "swf" -> SwfRow(entry)
    [] format = "pm100" -> Pm100Row(entry)
    [] format = "fdata" -> FdataRow(entry)

(* What an entry needs for a row: a submission, and in SWF all that an end *)
(* is computed from.                                                       *)
Replayable(format, entry) ==
  CASE format = "pbs" -> PbsSubmit(entry) # Missing
    [] format = "swf" -> Missing \notin {entry.id, entry.submit, entry.wait, entry.run, entry.alloc}
    [] OTHER -> entry.submit # Missing
=============================================================================
