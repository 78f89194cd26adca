-------------------------- MODULE HistoryEstimates --------------------------
(***************************************************************************)
(* What two policies learn from the jobs a user ran before: the runtimes   *)
(* of models/baseline_tsafrir.py and the priorities of                     *)
(* simulate/fairshare.py.  Both scan the trace once, with each job taken   *)
(* to complete its runtime after its submission; rows are in trace order.  *)
(*                                                                         *)
(* Usage is an integer number of parts of a CPU second, and a half-life    *)
(* is one unit of time, so that it halves exactly.                         *)
(***************************************************************************)
EXTENDS Integers, Sequences, FiniteSetsExt, SequencesExt

UsageScale == 2^8   \* parts of a CPU second

(* (event_ts, event_type, job_idx): completions are visible to submissions *)
(* of the same time.                                                       *)
EventBefore(a, b) ==
  \/ a.ts < b.ts
  \/ a.ts = b.ts /\ a.type < b.type
  \/ a.ts = b.ts /\ a.type = b.type /\ a.row < b.row

Bug_SubmissionsFirst(rows) ==
  SortSeq([i \in 1..Len(rows) |->
             [ts |-> rows[i].submit_ts, type |-> 0, row |-> i]]
          \o [i \in 1..Len(rows) |->
             [ts |-> rows[i].submit_ts + rows[i].runtime_actual_sec, type |-> 1, row |-> i]],
          EventBefore)

Completion == 0
Submission == 1

Events(rows) ==
  SortSeq([i \in 1..Len(rows) |->
             [ts |-> rows[i].submit_ts + rows[i].runtime_actual_sec, type |-> Completion, row |-> i]]
          \o [i \in 1..Len(rows) |->
             [ts |-> rows[i].submit_ts, type |-> Submission, row |-> i]],
          EventBefore)

(* predict_one: the mean of the last two runtimes, no longer than the user *)
(* asked for; what the user asked for without a history.                   *)
PredictOne(user_estimate, history) ==
  LET raw == CASE Len(history) = 0 -> user_estimate
               [] Len(history) = 1 -> history[1]
               [] OTHER -> (history[1] + history[2]) \div 2
      least == IF raw < user_estimate THEN raw ELSE user_estimate
  IN  [estimate |-> IF least < 1 THEN 1 ELSE least, count |-> Len(history)]

UserEstimate(row, seconds) ==
  IF seconds > 0 THEN seconds
  ELSE IF row.runtime_actual_sec < 1 THEN 1 ELSE row.runtime_actual_sec

(* compute_tsafrir_estimates; requested[i] is the wall time of row i.  A   *)
(* history is most recent first, of at most two runtimes.                  *)
TsafrirEstimates(rows, requested) ==
  FoldLeft(LAMBDA acc, event :
             LET row  == rows[event.row]
                 past == acc.history[row.user_id]
             IN  IF event.type = Submission
                 THEN [acc EXCEPT !.out[event.row] =
                         PredictOne(UserEstimate(row, requested[event.row]), past)]
                 ELSE IF row.runtime_actual_sec <= 0 THEN acc
                 ELSE [acc EXCEPT !.history[row.user_id] =
                         <<row.runtime_actual_sec>> \o SubSeq(past, 1, IF past = <<>> THEN 0 ELSE 1)],
           [history |-> [user \in {rows[i].user_id : i \in DOMAIN rows} |-> <<>>],
            out |-> [i \in DOMAIN rows |-> [estimate |-> 0, count |-> 0]]],
           Events(rows)).out

(* Usage is below 2^30 parts: after as many half-lives none is left.       *)
Halved(usage, times) == IF times >= 30 THEN 0 ELSE usage \div 2^times

(* _decayed                                                                *)
Decayed(usage, last_ts, now_ts) ==
  IF now_ts <= last_ts THEN usage ELSE Halved(usage, now_ts - last_ts)

(* compute_fairshare_priorities: less recent usage is a higher score.      *)
FairsharePriorities(rows) ==
  FoldLeft(LAMBDA acc, event :
             LET row  == rows[event.row]
                 held == acc.state[row.user_id]
             IN  IF event.type = Submission
                 THEN [acc EXCEPT !.scores[event.row] = 0 - Decayed(held.usage, held.ts, event.ts)]
                 ELSE [acc EXCEPT !.state[row.user_id] =
                         [ts |-> event.ts,
                          usage |-> Decayed(held.usage, held.ts, event.ts)
                                    + UsageScale * row.requested_cpus * row.runtime_actual_sec]],
           [state |-> [user \in {rows[i].user_id : i \in DOMAIN rows} |-> [usage |-> 0, ts |-> 0]],
            scores |-> [i \in DOMAIN rows |-> 0]],
           Events(rows)).scores

-----------------------------------------------------------------------------
(* What they should be, job by job.                                        *)

CompletesAt(row) == row.submit_ts + row.runtime_actual_sec

(* The jobs of the same user that are over when row i is submitted.        *)
Over(rows, i) ==
  {j \in DOMAIN rows : /\ rows[j].user_id = rows[i].user_id
                       /\ CompletesAt(rows[j]) <= rows[i].submit_ts
                       /\ rows[j].runtime_actual_sec > 0}

LastTwo(rows, i) ==
  LET later(j, k) == \/ CompletesAt(rows[j]) > CompletesAt(rows[k])
                     \/ CompletesAt(rows[j]) = CompletesAt(rows[k]) /\ j > k
      recent == {j \in Over(rows, i) : Cardinality({k \in Over(rows, i) : later(k, j)}) < 2}
      order == SetToSortSeq(recent, later)
  IN  [n \in DOMAIN order |-> rows[order[n]].runtime_actual_sec]

UsageOver(rows, i) ==
  MapThenSumSet(LAMBDA j : Halved(UsageScale * rows[j].requested_cpus * rows[j].runtime_actual_sec,
                                  rows[i].submit_ts - CompletesAt(rows[j])),
                Over(rows, i))
=============================================================================
