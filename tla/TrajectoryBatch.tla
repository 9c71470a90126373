-------------------------- MODULE TrajectoryBatch ---------------------------
(* Combat/data/run_trajectory_batch.py: run_batch executes the scenarios of  *)
(* a manifest, writes what came of each to the files of its output           *)
(* directory, one file after the other, re-runs a sample and writes the      *)
(* summary.  The process may be killed between any two writes; a later       *)
(* invocation with --resume skips the scenarios that have a result row.      *)
(*                                                                           *)
(* Worker processes share nothing, so their episodes are modelled one after  *)
(* the other, each in a process that is new or has run episodes before.      *)
EXTENDS CombatEpisode, SequencesExt

CONSTANTS Manifest,            \* the scenarios of the manifest, in order
          DeterminismSample,   \* determinism_sample
          MaxAttempts          \* bound on the invocations of the batch

\* Trajectory ids are unique: run_batch raises where it meets one again.
ASSUME ManifestAssumption ==
  /\ Manifest \in Seq(Scenarios) /\ Range(Manifest) = Scenarios
  /\ \A i, j \in DOMAIN Manifest : Manifest[i] = Manifest[j] => i = j
ASSUME AttemptsAssumption == DeterminismSample \in Nat /\ MaxAttempts \in Nat \ {0}

VARIABLES batch,   \* the invocation that runs: what it holds in memory
          disk     \* the files of the output directory

Files == {"trajectories", "quarantine", "trajectory_meta", "trajectory_quality", "error_events"}

\* A line of a file names its scenario, the invocation that wrote it and, for
\* the decisions, its number.  "torn" files end in a fragment without a newline;
\* a line written after one is "joined" to it and cannot be read.  Of the result
\* rows the readable text matters: the file is whole, ends in a row without its
\* newline (open), or has a line that json.loads rejects (broken).
EmptyDisk ==
  [lines |-> [f \in Files |-> {}], joined |-> [f \in Files |-> {}], torn |-> {},
   rows |-> <<>>, results |-> "whole", summary |-> FALSE]

\* The files of one payload, in the order the loop writes and flushes them.
StagesResultFirst == <<"row", "record", "meta", "quality", "events">>
Stages == <<"record", "meta", "quality", "row", "events">>

RowOf(c) == {i \in DOMAIN disk.rows : disk.rows[i].scen = c}
Row(result) == [scen |-> result.scen, attempt |-> batch.attempt, status |-> result.status,
                decisions |-> result.decisions]

\* The scenarios without a payload yet.
Unfinished == {c \in batch.pending : ~\E p \in batch.payloads : p.scen = c}

\* A process that is gone takes its game and its sessions along.
ProcessGone ==
  /\ engine' = [sid |-> 0, step |-> 0, board |-> NoBoard, faulted |-> FALSE]
  /\ owner' = 0
  /\ session' = [k \in SessionIds |-> NewSession]
  /\ committed' = NoCommit

Invoked(attempt, pending) ==
  [pc |-> "execute", attempt |-> attempt, pending |-> pending, payloads |-> {},
   at |-> 1, stage |-> Stages[1], line |-> 0, sample |-> {}]

Idle == [Invoked(0, {}) EXCEPT !.pc = "idle"]

\* A fresh invocation writes the manifest and truncates the files.
StartBatch ==
  /\ batch.pc = "idle"
  /\ batch' = Invoked(1, Scenarios)
  /\ UNCHANGED <<engine, owner, session, committed, ep, disk>>

Resumed == Invoked(batch.attempt + 1, {c \in Scenarios : RowOf(c) = {}})

\* --resume, in a new process: the rows that are there decide what is still
\* pending; one that cannot be read makes json.loads raise, in this and in every
\* later invocation.
ResumeBatch ==
  /\ batch.pc \in {"killed", "raised", "ended"} /\ batch.attempt < MaxAttempts
  /\ batch' = IF disk.results = "broken" THEN [Resumed EXCEPT !.pc = "raised"] ELSE Resumed
  /\ ProcessGone
  /\ UNCHANGED <<ep, disk>>

\* One task of _execute_scenarios starts in a worker.
ExecuteScenario(c) ==
  /\ batch.pc = "execute" /\ ep.pc = "idle"
  /\ c \in Unfinished
  /\ ep' = BeginEpisode(c, "batch")
  /\ \/ ProcessGone
     \/ UNCHANGED <<engine, owner, session, committed>>
  /\ UNCHANGED <<batch, disk>>

\* What _extract_error_events finds to report of an execution.
HasErrorEvents == ep.pc # "done" \/ ep.reason \notin {"none", "no_progress"}
Payload == [scen |-> ep.scen, status |-> Status, decisions |-> Len(ep.decisions), events |-> HasErrorEvents]

EnvDropped ==
  /\ session' = [session EXCEPT ![SessionOf(ep.arm)] = NewSession]
  /\ committed' = NoCommit
  /\ UNCHANGED <<engine, owner>>

\* The payload of a task that ended; an exception it raised is a quarantine.
CollectPayload ==
  /\ batch.pc = "execute" /\ EpisodeOver
  /\ batch' = [batch EXCEPT !.payloads = @ \cup {Payload}]
  /\ ep' = NoEpisode
  /\ EnvDropped
  /\ UNCHANGED disk

\* A worker process dies: the pool is broken and every future that is not done
\* raises, so all unfinished scenarios become quarantined payloads.
WorkerCrash ==
  /\ batch.pc = "execute" /\ ep.pc \notin {"idle", "done", "quarantined", "raised"}
  /\ batch' = [batch EXCEPT !.payloads = @ \cup
       {[scen |-> c, status |-> "quarantined", decisions |-> 0, events |-> TRUE] : c \in Unfinished}]
  /\ ep' = NoEpisode
  /\ ProcessGone
  /\ UNCHANGED disk

\* All payloads are there: they are written in the order of the manifest, of
\* which "at" is the place.
TaskFrom(place) ==
  LET tasks == {i \in place..Len(Manifest) : Manifest[i] \in batch.pending}
  IN IF tasks = {} THEN Len(Manifest) + 1 ELSE CHOOSE i \in tasks : \A j \in tasks : i <= j

StartWriting ==
  /\ batch.pc = "execute" /\ ep.pc = "idle" /\ Unfinished = {}
  /\ batch' = [batch EXCEPT !.pc = "write", !.at = TaskFrom(1)]
  /\ UNCHANGED <<engine, owner, session, committed, ep, disk>>

Writing(stage) == batch.pc = "write" /\ batch.at <= Len(Manifest) /\ batch.stage = stage
Current == CHOOSE p \in batch.payloads : p.scen = Manifest[batch.at]

\* The file is open in append mode: a line goes where the last one ended.
WriteLine(f, k) ==
  LET tag == <<Current.scen, batch.attempt, k>>
  IN disk' = [disk EXCEPT !.lines[f] = @ \cup {tag}, !.torn = @ \ {f},
                          !.joined[f] = IF f \in disk.torn THEN @ \cup {tag} ELSE @]
MemoryOnly == UNCHANGED <<engine, owner, session, committed, ep>>

StageAfter(stage) == LET i == CHOOSE j \in DOMAIN Stages : Stages[j] = stage
                     IN IF i = Len(Stages) THEN Stages[1] ELSE Stages[i + 1]
Advance == batch' = [batch EXCEPT !.stage = StageAfter(@), !.line = 0,
                                  !.at = IF StageAfter(batch.stage) = Stages[1] THEN TaskFrom(@ + 1) ELSE @]

\* One line per decision; they are buffered, so that a kill finds any number of
\* them on disk: those of a kill that came after as many steps.
MoreDecisions == Current.status = "ok" /\ batch.line < Current.decisions
WriteDecision ==
  /\ Writing("record") /\ MoreDecisions
  /\ WriteLine("trajectories", batch.line + 1)
  /\ batch' = [batch EXCEPT !.line = @ + 1] /\ MemoryOnly

\* The flush after the decisions, or the record of a quarantine.
WriteRecord ==
  /\ Writing("record") /\ ~MoreDecisions
  /\ IF Current.status = "ok" THEN UNCHANGED disk ELSE WriteLine("quarantine", 1)
  /\ Advance /\ MemoryOnly

\* Only a result that is ok has a meta line.
WriteMeta ==
  /\ Writing("meta")
  /\ IF Current.status = "ok" THEN WriteLine("trajectory_meta", 1) ELSE UNCHANGED disk
  /\ Advance /\ MemoryOnly

WriteQuality == Writing("quality") /\ WriteLine("trajectory_quality", 1) /\ Advance /\ MemoryOnly

RowAppended(results) == [disk EXCEPT !.rows = Append(@, Row(Current)), !.results = results]
WriteRow ==
  /\ Writing("row")
  /\ disk' = RowAppended(IF disk.results = "whole" THEN "whole" ELSE "broken")
  /\ Advance /\ MemoryOnly

\* The error events of the execution, if it has any, as one line.
WriteEvents ==
  /\ Writing("events")
  /\ IF Current.events THEN WriteLine("error_events", 1) ELSE UNCHANGED disk
  /\ Advance /\ MemoryOnly

\* Every scenario has a row in all_rows; the first results that are ok are
\* executed again in this process.
StartSummary ==
  /\ batch.pc = "write" /\ batch.at > Len(Manifest)
  /\ LET ok == {n \in DOMAIN Manifest : \E i \in RowOf(Manifest[n]) : disk.rows[i].status = "ok"}
     IN batch' = [batch EXCEPT !.pc = "rerun",
          !.sample = {n \in ok : Cardinality({m \in ok : m < n}) < DeterminismSample}]
  /\ UNCHANGED <<engine, owner, session, committed, ep, disk>>

FirstOf(sample) == CHOOSE n \in sample : \A m \in sample : n <= m

Rerun ==
  /\ batch.pc = "rerun" /\ ep.pc = "idle" /\ batch.sample # {}
  /\ ep' = BeginEpisode(Manifest[FirstOf(batch.sample)], "batch")
  /\ UNCHANGED <<engine, owner, session, committed, batch, disk>>

\* A re-run that is quarantined has no decisions: the KeyError ends the
\* invocation before its summary.
CompareRerun ==
  /\ batch.pc = "rerun" /\ EpisodeOver
  /\ batch' = IF Status = "ok" THEN [batch EXCEPT !.sample = @ \ {FirstOf(@)}] ELSE [batch EXCEPT !.pc = "raised"]
  /\ ep' = NoEpisode
  /\ EnvDropped
  /\ UNCHANGED disk

WriteSummary ==
  /\ batch.pc = "rerun" /\ ep.pc = "idle" /\ batch.sample = {}
  /\ batch' = [batch EXCEPT !.pc = "ended"]
  /\ disk' = [disk EXCEPT !.summary = TRUE]
  /\ UNCHANGED <<engine, owner, session, committed, ep>>

\* The file the batch is in the middle of a line of.
Tearing(f) ==
  \/ f = "trajectories" /\ Writing("record") /\ MoreDecisions
  \/ f = "quarantine" /\ Writing("record") /\ Current.status # "ok"
  \/ f = "trajectory_meta" /\ Writing("meta") /\ Current.status = "ok"
  \/ f = "trajectory_quality" /\ Writing("quality")
  \/ f = "error_events" /\ Writing("events") /\ Current.events

\* Part of the line is there, of a result row also all of it but the newline.
TornDisks ==
  {[disk EXCEPT !.torn = @ \cup {f}] : f \in {g \in Files : Tearing(g)}}
    \cup IF Writing("row")
         THEN {[disk EXCEPT !.results = "broken"], RowAppended(IF disk.results = "whole" THEN "open" ELSE "broken")}
         ELSE {}

\* The batch process is killed: what is flushed stays, a line it was writing
\* may be torn.
Kill ==
  /\ batch.pc \in {"execute", "write", "rerun"} /\ batch.attempt < MaxAttempts
  /\ batch' = [Invoked(batch.attempt, {}) EXCEPT !.pc = "killed"]
  /\ ep' = NoEpisode
  /\ ProcessGone
  /\ disk' \in {disk} \cup TornDisks

BatchStep ==
  \/ StartBatch \/ ResumeBatch \/ CollectPayload \/ WorkerCrash \/ StartWriting
  \/ \E c \in Scenarios : ExecuteScenario(c)
  \/ WriteDecision \/ WriteRecord \/ WriteMeta \/ WriteQuality \/ WriteRow \/ WriteEvents
  \/ StartSummary \/ Rerun \/ CompareRerun \/ WriteSummary \/ Kill

BatchInit == batch = Idle /\ disk = EmptyDisk

-----------------------------------------------------------------------------

\* However often the batch is killed and resumed, a result row stands for one
\* execution of which every decision (or the quarantine record), the meta and
\* the quality line of the same invocation have been written before it, and no
\* scenario has two rows.  Not all of them need be readable: the line a resumed
\* invocation appends to a file that ends in a fragment is lost.  It loses no
\* more than one line of each file that way, and the first invocation none.  A
\* summary is only written when every scenario has its row.
ResultRowsAreBacked ==
  /\ \A i \in DOMAIN disk.rows :
       LET row == disk.rows[i]
           Tag(k) == <<row.scen, row.attempt, k>>
       IN /\ RowOf(row.scen) = {i}
          /\ Tag(1) \in disk.lines["trajectory_quality"]
          /\ IF row.status = "ok"
             THEN /\ \A k \in 1..row.decisions : Tag(k) \in disk.lines["trajectories"]
                  /\ Tag(1) \in disk.lines["trajectory_meta"]
             ELSE Tag(1) \in disk.lines["quarantine"]
  /\ \A f \in Files : \A s, t \in disk.joined[f] : s[2] > 1 /\ (s[2] = t[2] => s = t)
  /\ disk.summary => \A c \in Scenarios : RowOf(c) # {}
=============================================================================
