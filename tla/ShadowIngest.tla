---------------------------- MODULE ShadowIngest ----------------------------
(***************************************************************************)
(* The shadow ingestion daemon of ingest/shadow.py: loops that poll a dump *)
(* of a scheduler and write the rows above a persisted watermark to one    *)
(* file per poll.  Polls of one daemon are serialized by its lock; the     *)
(* dump grows meanwhile, and a crash may fall between any two writes.      *)
(***************************************************************************)
EXTENDS Naturals, FiniteSets, FiniteSetsExt

CONSTANTS
  Rows,        \* the rows that may appear in the dump: [id, submit_ts]
  Loops,       \* 1..n: loops and single polls, in the order they are started
  MaxFailures, \* polls that fail
  MaxCrashes

ASSUME ShadowAssumption ==
  /\ Loops = 1..Cardinality(Loops)
  /\ IsFiniteSet(Rows) /\ \A row \in Rows : row.submit_ts \in Nat
  /\ MaxFailures \in Nat /\ MaxCrashes \in Nat

VARIABLES
  source,      \* the rows of the dump
  watermark,   \* the watermark file: a WatermarkState, Missing or Torn
  datasets,    \* datasets[n]: the rows of the file of poll n, once there is one
  loops,       \* what each loop is doing
  poll,        \* the poll inside the lock
  stop_event,
  daemon,      \* "on" from a start to the next stop or crash
  failures, crashes,
  torn         \* history: a watermark was lost half-written

shadowVars == <<source, watermark, datasets, loops, poll, stop_event, daemon, failures, crashes, torn>>

Missing == [file |-> "missing"]
Torn == [file |-> "torn"]
Saved(state) == [file |-> "saved", state |-> state]
NoTs == {}   \* last_processed_ts None; otherwise the set of the one time
FreshState == [last_ts |-> NoTs, rows_total |-> 0, poll_count |-> 0]
NoPoll == [pc |-> "none"]

(* _load_watermark: a file that cannot be read starts afresh.              *)
Loaded == IF watermark \in {Missing, Torn} THEN FreshState ELSE watermark.state

ShadowInit ==
  /\ source \in SUBSET Rows
  /\ watermark = Missing
  /\ datasets = <<>>
  /\ loops = [l \in Loops |-> "none"]
  /\ poll = NoPoll
  /\ stop_event = FALSE
  /\ daemon = "off"
  /\ failures = 0 /\ crashes = 0
  /\ torn = FALSE

-----------------------------------------------------------------------------
Unstarted(l) == loops[l] = "none" /\ \A k \in 1..(l - 1) : loops[k] # "none"

(* start, of a thread or in the caller: a loop that a stop has not reached *)
(* yet finds the event cleared and goes on beside the new one.             *)
Start(l) ==
  /\ Unstarted(l)
  /\ loops' = [loops EXCEPT ![l] = "ready"]
  /\ stop_event' = FALSE
  /\ daemon' = "on"
  /\ UNCHANGED <<source, watermark, datasets, poll, failures, crashes, torn>>

(* poll_once, called by hand. *)
PollOnce(l) ==
  /\ Unstarted(l)
  /\ loops' = [loops EXCEPT ![l] = "once"]
  /\ UNCHANGED <<source, watermark, datasets, poll, stop_event, daemon, failures, crashes, torn>>

(* The thread is joined for a while and forgotten, ended or not.           *)
Stop ==
  /\ daemon = "on"
  /\ stop_event' = TRUE
  /\ daemon' = "off"
  /\ UNCHANGED <<source, watermark, datasets, loops, poll, failures, crashes, torn>>

CheckStop(l) ==
  /\ loops[l] = "ready"
  /\ loops' = [loops EXCEPT ![l] = IF stop_event THEN "ended" ELSE "wants"]
  /\ UNCHANGED <<source, watermark, datasets, poll, stop_event, daemon, failures, crashes, torn>>

(* The dump is appended to by the scheduler, in the order jobs end.        *)
RowAppears(row) ==
  /\ row \notin source
  /\ source' = source \cup {row}
  /\ UNCHANGED <<watermark, datasets, loops, poll, stop_event, daemon, failures, crashes, torn>>

-----------------------------------------------------------------------------
(* poll_once, under the lock. *)
TakeLock(l) ==
  /\ loops[l] \in {"wants", "once"}
  /\ poll = NoPoll
  /\ poll' = [pc |-> "ingest", loop |-> l, state |-> Loaded]
  /\ UNCHANGED <<source, watermark, datasets, loops, stop_event, daemon, failures, crashes, torn>>

DatasetId == poll.state.poll_count + 1

\* Bug form: a loop ends when a poll finds nothing new.
Bug_EndsOnEmpty(l, rows) == IF loops[l] = "once" \/ rows = {} THEN "ended" ELSE "ready"

(* After a poll the loop waits for its interval or the stop event.         *)
AfterPoll(l, rows) == IF loops[l] = "once" THEN "ended" ELSE "ready"

EndPoll(rows) ==
  /\ loops' = [loops EXCEPT ![poll.loop] = AfterPoll(poll.loop, rows)]
  /\ poll' = NoPoll

(* The file of this poll, new or written over. *)
WriteDataset(rows) ==
  datasets' = [n \in DOMAIN datasets \cup {DatasetId} |-> IF n = DatasetId THEN rows ELSE datasets[n]]

(* The whole dump is converted and written. *)
IngestSource ==
  /\ poll.pc = "ingest"
  /\ WriteDataset(source)
  /\ poll' = [poll EXCEPT !.pc = "filter"]
  /\ UNCHANGED <<source, watermark, loops, stop_event, daemon, failures, crashes, torn>>

\* Bug form: the watermark's own time is taken as new.
Bug_FromWatermark(rows, last_ts) == {row \in rows : \A ts \in last_ts : row.submit_ts >= ts}

NewRows(rows, last_ts) == {row \in rows : \A ts \in last_ts : row.submit_ts > ts}

(* Nothing new leaves the file of the whole dump behind; the next poll has *)
(* the same number and writes over it.                                     *)
FilterRows ==
  /\ poll.pc = "filter"
  /\ LET rows == NewRows(datasets[DatasetId], poll.state.last_ts)
     IN  IF rows = {}
         THEN EndPoll(rows) /\ UNCHANGED datasets
         ELSE /\ WriteDataset(rows)
              /\ poll' = [poll EXCEPT !.pc = "save"]
              /\ UNCHANGED loops
  /\ UNCHANGED <<source, watermark, stop_event, daemon, failures, crashes, torn>>

Advanced(state, rows) ==
  [last_ts    |-> {Max({row.submit_ts : row \in rows})},
   rows_total |-> state.rows_total + Cardinality(rows),
   poll_count |-> state.poll_count + 1]

(* write_json truncates the file, then writes it. *)
SaveWatermark ==
  /\ poll.pc \in {"save", "saving"}
  /\ IF poll.pc = "save"
     THEN watermark' = Torn /\ poll' = [poll EXCEPT !.pc = "saving"] /\ UNCHANGED loops
     ELSE /\ watermark' = Saved(Advanced(poll.state, datasets[DatasetId]))
          /\ EndPoll(datasets[DatasetId])
  /\ UNCHANGED <<source, datasets, stop_event, daemon, failures, crashes, torn>>

(* OSError or ValueError: reported or logged, and the loop goes on.  A     *)
(* watermark that was being written is left as it is.                      *)
PollFails ==
  /\ poll # NoPoll
  /\ failures < MaxFailures
  /\ failures' = failures + 1
  /\ torn' = (torn \/ watermark = Torn)
  /\ EndPoll({})
  /\ UNCHANGED <<source, watermark, datasets, stop_event, daemon, crashes>>

Crash ==
  /\ \E l \in Loops : loops[l] \notin {"none", "ended"}
  /\ crashes < MaxCrashes
  /\ crashes' = crashes + 1
  /\ loops' = [l \in Loops |-> IF loops[l] = "none" THEN "none" ELSE "ended"]
  /\ poll' = NoPoll
  /\ stop_event' = FALSE
  /\ daemon' = "off"
  /\ torn' = (torn \/ watermark = Torn)
  /\ UNCHANGED <<source, watermark, datasets, failures>>

PollStep == IngestSource \/ FilterRows \/ SaveWatermark

ShadowNext ==
  \/ \E l \in Loops : Start(l) \/ PollOnce(l) \/ CheckStop(l) \/ TakeLock(l)
  \/ Stop \/ PollStep \/ PollFails \/ Crash
  \/ \E row \in Rows : RowAppears(row)

(* Threads run and the lock is given to whoever waits for it long enough.  *)
ShadowFairness ==
  /\ WF_shadowVars(PollStep)
  /\ \A l \in Loops : WF_shadowVars(CheckStop(l)) /\ SF_shadowVars(TakeLock(l))

-----------------------------------------------------------------------------
ShadowSpec == ShadowInit /\ [][ShadowNext]_shadowVars /\ ShadowFairness

Committed == 1..Loaded.poll_count

(* However many loops a stop and a start leave behind, and wherever a      *)
(* crash falls, the committed files hold no row twice and their rows are   *)
(* what the watermark counts, all at or below it, as long as no watermark  *)
(* was lost half-written.                                                  *)
RowsCommittedOnce == ~torn /\ watermark # Torn =>
  /\ \A m, n \in Committed : m # n => datasets[m] \cap datasets[n] = {}
  /\ Loaded.rows_total = Cardinality(UNION {datasets[n] : n \in Committed})
  /\ \A n \in Committed : NewRows(datasets[n], Loaded.last_ts) = {}

(* While the daemon is on, a row above the watermark that is in the dump   *)
(* before a poll begins is committed in time.                              *)
NewRowsIngested ==
  \A row \in Rows :
    (daemon = "on" /\ poll = NoPoll /\ row \in NewRows(source, Loaded.last_ts))
      ~> (daemon = "off" \/ \E n \in Committed : row \in datasets[n])
=============================================================================
