------------------------------- MODULE Reports -------------------------------
(***************************************************************************)
(* The files of evals/results/: scripts/run_stub_evals.py and              *)
(* scripts/run_claude_planner_evals.py, which write one report per task,   *)
(* and scripts/report_vendor_reliability.py with evals/ml/reliability.py,  *)
(* which fold all of them into a Beta posterior per vendor.                *)
(*                                                                         *)
(* Each script is a process of its own, started by hand, that may be       *)
(* killed.  Path.write_text opens, which empties the file, and then        *)
(* writes: a report is on disk in two steps, and the reader may come       *)
(* between them.                                                           *)
(***************************************************************************)
EXTENDS Naturals, Sequences, FiniteSets, FiniteSetsExt

CONSTANTS
  Scripts,       (* processes that run one of the two scripts *)
  Assignments,   (* which agent each script runs: functions from Scripts *)
  Billed,        (* the agents whose script asks for an API key *)
  TaskFiles,     (* sorted(task_dir.glob): a sequence of [id, kind] *)
  Observed,      (* task |-> agent |-> what vendor_outcomes may be *)
  Days,          (* bound: dates that pass *)
  SortedPaths,   (* the paths of all results files, in the order of sorted() *)
  OldFiles,      (* what other weeks have left: path |-> content *)
  Torn,          (* the content of a file that is opened and not yet written *)
  OldSchema,     (* a report that the current EvalReport does not accept *)
  NoReport

ASSUME ReportsAssumption ==
  /\ \A i, j \in DOMAIN SortedPaths : SortedPaths[i] = SortedPaths[j] => i = j
  /\ Len(TaskFiles) \in Nat /\ DOMAIN TaskFiles = 1..Len(TaskFiles)
  /\ \A i \in DOMAIN TaskFiles : TaskFiles[i].kind \in {"synthetic", "real_x402"}
  /\ \A i, j \in DOMAIN TaskFiles : TaskFiles[i].id = TaskFiles[j].id => i = j
  /\ Days \in Nat \ {0}

Unreadable == {Torn, OldSchema}

(* Reports of this and of other weeks count up from 0, vendor by vendor. *)
IsCount(outcomes) ==
  \A v \in DOMAIN outcomes : outcomes[v].successes \in Nat /\ outcomes[v].failures \in Nat

(* A directory holds finitely many files, and each is a report or nothing  *)
(* that the reader could parse.                                            *)
ASSUME EvidenceAssumption ==
  /\ \A i \in DOMAIN TaskFiles, f \in Assignments, s \in Scripts :
       TaskFiles[i].kind = "synthetic" =>
         \A outcomes \in Observed[TaskFiles[i].id][f[s]] : IsCount(outcomes)
  /\ IsFiniteSet(DOMAIN OldFiles)
  /\ \A path \in DOMAIN OldFiles :
       OldFiles[path] \in Unreadable \/ IsCount(OldFiles[path].outcomes)

VARIABLES
  files,         (* path |-> content *)
  date,          (* today, UTC *)
  agent,         (* script |-> the agent it runs *)
  step,          (* script |-> where its loop is *)
  nextTask,      (* script |-> index of the task file to load *)
  report,        (* script |-> the report run_eval has returned last *)
  reports,       (* script |-> the list main() returns *)
  reading,       (* where the reliability report is *)
  unread,        (* paths of its glob not yet read *)
  posterior,     (* vendor |-> <<alpha, beta>> *)
  versions       (* auxiliary: path |-> contents it had from the glob to the end of the fold *)

scriptVars == <<agent, step, nextTask, report, reports>>
readerVars == <<reading, unread, posterior>>
vars == <<files, date, scriptVars, readerVars, versions>>

Init ==
  /\ files = OldFiles
  /\ date = 1
  /\ agent \in Assignments
  /\ step = [s \in Scripts |-> "loop"]
  /\ nextTask = [s \in Scripts |-> 1]
  /\ report = [s \in Scripts |-> NoReport]
  /\ reports = [s \in Scripts |-> << >>]
  /\ reading = "idle" /\ unread = {} /\ posterior = << >> /\ versions = << >>

-----------------------------------------------------------------------------
(* The scripts *)

(* A mutant: the file name of the first weeks. *)
FileOfTask(r) == <<r.task, CHOOSE a \in {agent[s] : s \in Scripts} : TRUE, r.date>>

(* {task_id}_{agent_id}_{date_utc}.json *)
FileOf(r) == <<r.task, r.agent, r.date>>

Goto(s, place) == step' = [step EXCEPT ![s] = place]

Put(path, content) ==
  /\ files' = [p \in DOMAIN files \cup {path} |-> IF p = path THEN content ELSE files[p]]
  /\ versions' = [p \in DOMAIN versions |->
                    versions[p] \cup
                      (IF p = path /\ reading = "reading" THEN {content} ELSE {})]

Quiet == UNCHANGED <<files, date, agent, readerVars, versions>>

(* Without ANTHROPIC_API_KEY, main() returns an empty list. *)
ReturnEmpty(s) ==
  /\ agent[s] \in Billed
  /\ step[s] = "loop" /\ nextTask[s] = 1
  /\ Goto(s, "done")
  /\ UNCHANGED <<nextTask, report, reports>> /\ Quiet

SkipTask(s) ==
  /\ step[s] = "loop"
  /\ nextTask[s] \in DOMAIN TaskFiles
  /\ TaskFiles[nextTask[s]].kind # "synthetic"
  /\ nextTask' = [nextTask EXCEPT ![s] = @ + 1]
  /\ UNCHANGED <<step, report, reports>> /\ Quiet

(* run_eval returns and dates its report; the file it goes to is opened. *)
Evaluate(s) ==
  /\ step[s] = "loop"
  /\ nextTask[s] \in DOMAIN TaskFiles
  /\ TaskFiles[nextTask[s]].kind = "synthetic"
  /\ LET task == TaskFiles[nextTask[s]].id
     IN \E outcomes \in Observed[task][agent[s]] :
          report' = [report EXCEPT ![s] =
            [task |-> task, agent |-> agent[s], date |-> date, outcomes |-> outcomes]]
  /\ Put(FileOf(report'[s]), Torn)
  /\ Goto(s, "write")
  /\ UNCHANGED <<date, agent, nextTask, reports, readerVars>>

Write(s) ==
  /\ step[s] = "write"
  /\ Put(FileOf(report[s]), report[s])
  /\ reports' = [reports EXCEPT ![s] = Append(@, report[s])]
  /\ nextTask' = [nextTask EXCEPT ![s] = @ + 1]
  /\ report' = [report EXCEPT ![s] = NoReport]
  /\ Goto(s, "loop")
  /\ UNCHANGED <<date, agent, readerVars>>

Finish(s) ==
  /\ step[s] = "loop"
  /\ nextTask[s] > Len(TaskFiles)
  /\ Goto(s, "done")
  /\ UNCHANGED <<nextTask, report, reports>> /\ Quiet

(* The task file does not validate, run_eval raises, the disk is full, or  *)
(* the process is killed: main() ends where it is.                         *)
Stop(s) ==
  /\ step[s] \in {"loop", "write"}
  /\ Goto(s, "done")
  /\ report' = [report EXCEPT ![s] = NoReport]
  /\ UNCHANGED <<nextTask, reports>> /\ Quiet

Midnight ==
  /\ date < Days
  /\ date' = date + 1
  /\ UNCHANGED <<files, scriptVars, readerVars, versions>>

-----------------------------------------------------------------------------
(* The reliability report *)

(* A mutant: no prior. *)
NoPrior == <<0, 0>>

(* _PRIOR_ALPHA, _PRIOR_BETA *)
Prior == <<1, 1>>

(* sorted(results_dir.glob("*.json")) *)
Glob ==
  /\ reading = "idle"
  /\ reading' = "reading"
  /\ unread' = DOMAIN files
  /\ versions' = [path \in DOMAIN files |-> {files[path]}]
  /\ UNCHANGED <<files, date, scriptVars, posterior>>

(* The loop takes the paths in their order. *)
IsNext(path) ==
  /\ reading = "reading"
  /\ \E i \in DOMAIN SortedPaths :
       /\ SortedPaths[i] = path /\ path \in unread
       /\ \A j \in 1..(i - 1) : SortedPaths[j] \notin unread

(* A mutant: the ValidationError of one file ends the aggregation. *)
SkipFileRaising(path) ==
  /\ IsNext(path)
  /\ files[path] \in Unreadable
  /\ reading' = "raised"
  /\ UNCHANGED <<files, date, scriptVars, unread, posterior, versions>>

(* The file is no report of the current schema: ValidationError. *)
SkipFile(path) ==
  /\ IsNext(path)
  /\ files[path] \in Unreadable
  /\ unread' = unread \ {path}
  /\ UNCHANGED <<files, date, scriptVars, reading, posterior, versions>>

(* A mutant: every file starts from the prior again. *)
UpdateRestarting(outcomes) ==
  [v \in DOMAIN posterior \cup DOMAIN outcomes |->
     IF v \in DOMAIN outcomes
     THEN <<Prior[1] + outcomes[v].successes, Prior[2] + outcomes[v].failures>>
     ELSE posterior[v]]

(* One beta_update per success and per failure, vendor by vendor. *)
Update(outcomes) ==
  [v \in DOMAIN posterior \cup DOMAIN outcomes |->
     LET before == IF v \in DOMAIN posterior THEN posterior[v] ELSE Prior
     IN IF v \in DOMAIN outcomes
        THEN <<before[1] + outcomes[v].successes, before[2] + outcomes[v].failures>>
        ELSE before]

FoldFile(path) ==
  /\ IsNext(path)
  /\ files[path] \notin Unreadable
  /\ posterior' = Update(files[path].outcomes)
  /\ unread' = unread \ {path}
  /\ UNCHANGED <<files, date, scriptVars, reading, versions>>

(* read_text raises: an OSError, or bytes that are no UTF-8.  No handler   *)
(* is for these, and main() ends.                                          *)
ReadFails(path) ==
  /\ IsNext(path)
  /\ reading' = "failed"
  /\ UNCHANGED <<files, date, scriptVars, unread, posterior, versions>>

Score ==
  /\ reading = "reading" /\ unread = {}
  /\ reading' = "done"
  /\ UNCHANGED <<files, date, scriptVars, unread, posterior, versions>>

ScriptStep(s) ==
  \/ ReturnEmpty(s) \/ SkipTask(s) \/ Write(s) \/ Finish(s) \/ Stop(s)
  \/ Evaluate(s)

ReaderStep == Score \/ \E path \in unread : SkipFile(path) \/ FoldFile(path) \/ ReadFails(path)

Next == (\E s \in Scripts : ScriptStep(s)) \/ Midnight \/ Glob \/ ReaderStep

Spec == Init /\ [][Next]_vars

(* The reader goes through its list; the scripts may stop anywhere. *)
FairSpec == Spec /\ WF_vars(ReaderStep)

-----------------------------------------------------------------------------
(* Properties *)

TypeOK ==
  /\ date \in 1..Days
  /\ agent \in Assignments
  /\ step \in [Scripts -> {"loop", "write", "done"}]
  /\ \A s \in Scripts : nextTask[s] \in 1..(Len(TaskFiles) + 1)
  /\ \A s \in Scripts : Len(reports[s]) < nextTask[s]
  /\ reading \in {"idle", "reading", "done", "failed"}
  /\ unread \subseteq DOMAIN versions
  /\ \A v \in DOMAIN posterior : posterior[v] \in (Nat \ {0}) \X (Nat \ {0})

(* What a script has finished is on disk, whatever becomes of the script   *)
(* afterwards and whatever scripts of other agents write on that day: a    *)
(* report costs money, and the comments of both scripts promise that they  *)
(* cannot overwrite each other's.  Two scripts that run the same agent can *)
(* and do.                                                                 *)
EvidenceOnDisk ==
  \A s \in Scripts :
    (\A other \in Scripts \ {s} : agent[other] # agent[s]) =>
      \A i \in DOMAIN reports[s] :
        files[FileOf(reports[s][i])] = reports[s][i]

Lists(content, v) == content \notin Unreadable /\ v \in DOMAIN content.outcomes

(* How many observations of a kind a content holds of a vendor. *)
Holds(content, v, kind) == IF Lists(content, v) THEN content.outcomes[v][kind] ELSE 0

Held(path, v, kind) == {Holds(c, v, kind) : c \in versions[path]}

Within(n, v, kind) ==
  /\ n >= SumFunction([path \in DOMAIN versions |-> Min(Held(path, v, kind))])
  /\ n <= SumFunction([path \in DOMAIN versions |-> Max(Held(path, v, kind))])

(* A vendor's score is the prior and the observations of every file, each  *)
(* file counted once, in some state it had since the reader listed it; a   *)
(* file that cannot be read loses only its own.  With nobody writing, the  *)
(* score is the exact sum.                                                 *)
ScoresAreWithinEvidence ==
  reading = "done" =>
    /\ \A v \in DOMAIN posterior :
         /\ Within(posterior[v][1] - Prior[1], v, "successes")
         /\ Within(posterior[v][2] - Prior[2], v, "failures")
    /\ \A path \in DOMAIN versions :
         versions[path] \cap Unreadable = {} =>
           \E c \in versions[path] : DOMAIN c.outcomes \subseteq DOMAIN posterior

(* A reliability report that was started is printed, although a script was *)
(* killed over an open file and old reports are of another schema: what    *)
(* its text is, no file can prevent it.  Only a read that fails can.       *)
ReportIsPrinted == reading = "reading" ~> reading \in {"done", "failed"}
=============================================================================
