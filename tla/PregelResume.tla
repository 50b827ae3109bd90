---------------------------- MODULE PregelResume ----------------------------
(***************************************************************************)
(* One superstep of a thread that is run, interrupted, fails or crashes,   *)
(* and is run again until it is complete.  Nodes call interrupt() several  *)
(* times; a client answers with Command(resume: value), with a map from    *)
(* interrupt ids to values, or invokes the graph with null.                *)
(*                                                                         *)
(* An answer is the number of the run whose Command carried it, so it      *)
(* shows where it came from.  What the run stores (durability "sync" or    *)
(* "async") reaches the saver at the latest when the run ends; a crash     *)
(* stores any part of it, task by task.                                    *)
(***************************************************************************)
EXTENDS Integers, Sequences, FiniteSets

CONSTANTS
    Tasks,        \* tasks of the superstep
    Questions,    \* Questions[t]: how often t's node calls interrupt()
    Silent,       \* tasks whose nodes write nothing: no update, no edge
    MayFail,      \* tasks whose nodes may throw
    EdgeMayFail,  \* tasks with a conditional edge that may throw after the update is written
    MaxAttempts,  \* MaxAttempts[t]: retry_policy.maxAttempts, 1 without a policy
    Commands,     \* ways a client resumes: "value", "ids", "null"
    MaxRuns       \* bound on the number of runs

ASSUME TasksAssumption ==
    /\ IsFiniteSet(Tasks)
    /\ Questions \in [Tasks -> Nat]
    /\ Silent \subseteq Tasks /\ MayFail \subseteq Tasks /\ EdgeMayFail \subseteq Tasks \ Silent
    /\ MaxAttempts \in [Tasks -> Nat \ {0}]
    /\ MaxRuns \in Nat

ASSUME CommandsAssumption == Commands \subseteq {"value", "ids", "null"}

VARIABLES
    phase,       \* "idle": no process runs the thread; "running"; "over": superstep applied
    run,         \* number of the current or last run
    \* the saver's pending writes of the checkpoint
    done,        \* tasks with a write that is neither ERROR, INTERRUPT nor RESUME
    resumes,     \* resumes[t]: t's RESUME write, the list of its answers
    nullResume,  \* the RESUME write of NULL_TASK_ID, 0 without one
    \* the run under way
    command,     \* NULL_TASK_ID's RESUME write of this run, 0 without one
    addressed,   \* tasks whose open interrupt this run's input answers
    pad,         \* PregelScratchpad of each task
    answers,     \* what interrupt() has returned to the node's current attempt
    attempts,    \* failed attempts so far
    commits,     \* what _commit put for each task
    failed,      \* a task has failed: the run will throw
    \* history
    open,        \* open[t]: the question the client knows t to wait on, 0 for none
    heard,       \* answers that t had when it last committed
    completed    \* tasks whose completion has been stored

savedVars == <<done, resumes, nullResume>>
runVars == <<run, command, addressed>>
historyVars == <<open, heard, completed>>
vars == <<phase, savedVars, runVars, pad, answers, attempts, commits, failed, historyVars>>

-----------------------------------------------------------------------------
NoCommit == [kind |-> "none", resume |-> <<>>, heard |-> <<>>]
NoQuestion == 0

\* A task of this run that has not settled.
Running(t) == phase = "running" /\ t \notin done /\ commits[t] = NoCommit

Init ==
    /\ phase = "idle" /\ run = 0
    /\ done = {} /\ resumes = [t \in Tasks |-> <<>>] /\ nullResume = 0
    /\ command = 0 /\ addressed = {}
    /\ pad = [t \in Tasks |-> [counter |-> -1, resume |-> <<>>, null |-> 0]]
    /\ answers = [t \in Tasks |-> <<>>]
    /\ attempts = [t \in Tasks |-> 0]
    /\ commits = [t \in Tasks |-> NoCommit]
    /\ failed = FALSE
    /\ open = [t \in Tasks |-> NoQuestion]
    /\ heard = [t \in Tasks |-> <<>>]
    /\ completed = {}

-----------------------------------------------------------------------------
\* Mutant of NullResume: putWrites keeps the earlier write, which is found first.
KeepsFirstNull(kind) == IF nullResume # 0 \/ kind # "value" THEN nullResume ELSE run + 1

\* The null resume that the tasks of the next run find among the pending
\* writes: the Command's, which replaces an earlier one, or what is stored.
NullResume(kind) == IF kind = "value" THEN run + 1 ELSE nullResume

\* The value of the resume map for t's namespace.
MappedResume(t, kind, to) == IF kind = "ids" /\ t \in to THEN <<run + 1>> ELSE <<>>

Scratchpad(t, kind, to) ==
    [counter |-> -1,
     resume |-> resumes[t] \o MappedResume(t, kind, to),
     null |-> NullResume(kind)]

\* Tasks that wait on an interrupt the client knows of.
Waiting == {t \in Tasks \ done : open[t] # NoQuestion}

\* A run begins with a Command or null (the first one with the input that led
\* to this superstep); every task without completed writes is prepared and
\* started.  A Command answers somebody.
Start(kind, to) ==
    /\ phase = "idle" /\ run < MaxRuns
    /\ kind \in Commands \/ run = 0
    /\ \/ kind = "null" /\ to = {}
       \/ kind = "value" /\ to = Waiting /\ to # {}
       \/ kind = "ids" /\ to \in SUBSET Waiting /\ to # {}
    /\ phase' = "running" /\ run' = run + 1
    /\ command' = IF kind = "value" THEN run + 1 ELSE 0
    /\ addressed' = to
    /\ pad' = [t \in Tasks |-> Scratchpad(t, kind, to)]
    /\ answers' = [t \in Tasks |-> <<>>]
    /\ attempts' = [t \in Tasks |-> 0]
    /\ commits' = [t \in Tasks |-> NoCommit]
    /\ failed' = FALSE
    /\ UNCHANGED <<savedVars, historyVars>>

-----------------------------------------------------------------------------
\* The RESUME write is task.writes' reference to the scratchpad's list.
ResumeWrite(t) == IF answers[t] = <<>> THEN <<>> ELSE pad[t].resume

\* Mutant of InterruptResumes: INTERRUPT is committed without RESUME.
NoResumes(t) == <<>>

\* task.writes.filter((w) => w[0] === RESUME), committed with the INTERRUPT.
InterruptResumes(t) == ResumeWrite(t)

Commit(t, kind, resume) ==
    commits' = [commits EXCEPT ![t] = [kind |-> kind, resume |-> resume, heard |-> answers[t]]]

\* The index of the next interrupt() call of t, and the call returning v.
Idx(t) == pad[t].counter + 1
Calls(t) == Running(t) /\ Len(answers[t]) < Questions[t]
Returns(t, v) == answers' = [answers EXCEPT ![t] = Append(@, v)]

\* interrupt() finds its value in the task's list,
AnswerFromList(t) ==
    /\ Calls(t) /\ Idx(t) < Len(pad[t].resume)
    /\ Returns(t, pad[t].resume[Idx(t) + 1])
    /\ pad' = [pad EXCEPT ![t].counter = Idx(t)]
    /\ UNCHANGED <<phase, runVars, savedVars, attempts, commits, failed, historyVars>>

\* Mutant of TakesNull: the value is not pushed to the task's list.
TakesNullOnly(t) ==
    pad' = [pad EXCEPT ![t] = [counter |-> Idx(t), resume |-> @.resume, null |-> 0]]

TakesNull(t) ==
    pad' = [pad EXCEPT ![t] = [counter |-> Idx(t), resume |-> Append(@.resume, @.null),
                               null |-> 0]]

\* takes the null resume of the run, once,
AnswerFromNull(t) ==
    /\ Calls(t) /\ Idx(t) >= Len(pad[t].resume) /\ pad[t].null # 0
    /\ Returns(t, pad[t].null)
    /\ TakesNull(t)
    /\ UNCHANGED <<phase, runVars, savedVars, attempts, commits, failed, historyVars>>

\* or throws a GraphInterrupt, which _commit stores.
Interrupt(t) ==
    /\ Calls(t) /\ Idx(t) >= Len(pad[t].resume) /\ pad[t].null = 0
    /\ Commit(t, "interrupt", InterruptResumes(t))
    /\ pad' = [pad EXCEPT ![t].counter = Idx(t)]
    /\ UNCHANGED <<phase, runVars, savedVars, answers, attempts, failed, historyVars>>

\* The node returns.
Finish(t) ==
    /\ Running(t) /\ Len(answers[t]) = Questions[t]
    /\ Commit(t, "done", ResumeWrite(t))
    /\ UNCHANGED <<phase, runVars, savedVars, pad, answers, attempts, failed, historyVars>>

\* A node may fail, and any node may throw once its signal has been aborted.
\* A conditional edge runs in the task of its node and fails "late", when the
\* node's update is in task.writes.
Failures(t) ==
    {kind \in {"error", "late"} :
        \/ kind = "error" /\ (t \in MayFail \/ failed)
        \/ kind = "late" /\ t \in EdgeMayFail /\ Len(answers[t]) = Questions[t]}
Throws(t) == Running(t) /\ Failures(t) # {}

GivesUp(t) == attempts[t] + 1 >= MaxAttempts[t]

\* _runWithRetry clears the writes and invokes the node again, with the
\* scratchpad, and its counter, as the last attempt left them.
Retry(t) ==
    /\ Throws(t) /\ ~GivesUp(t) /\ ~failed
    /\ attempts' = [attempts EXCEPT ![t] = @ + 1]
    /\ answers' = [answers EXCEPT ![t] = <<>>]
    /\ UNCHANGED <<phase, runVars, savedVars, pad, commits, failed, historyVars>>

\* The failure is committed with what the task has written so far.
Fail(t) ==
    /\ Throws(t) /\ (GivesUp(t) \/ failed)
    /\ \E kind \in Failures(t) : Commit(t, kind, ResumeWrite(t))
    /\ failed' = TRUE
    /\ UNCHANGED <<phase, runVars, savedVars, pad, answers, attempts, historyVars>>

-----------------------------------------------------------------------------
\* Mutant of LeavesMark: no NO_WRITES marker for a task without writes.
LeavesOwnWrites(t) == commits[t].kind = "done" /\ t \notin Silent

\* Mutant of LeavesMark: whatever was committed counts.
LeavesAnyWrites(t) == commits[t].kind # "none"

\* The commit has a write that tells a later run that t is done: its own, or
\* NO_WRITES when task.writes is empty.  A RESUME write is neither, and the
\* update that a late failure is committed with is one.
LeavesMark(t) ==
    \/ commits[t].kind = "late"
    \/ commits[t].kind = "done" /\ (t \notin Silent \/ commits[t].resume = <<>>)

\* The question of a committed GraphInterrupt; the client sees others settle.
OpenedBy(t) ==
    IF commits[t].kind = "interrupt" THEN Len(commits[t].heard) + 1 ELSE NoQuestion

Heard(t) == IF Len(commits[t].heard) > Len(heard[t]) THEN commits[t].heard ELSE heard[t]

\* The commits of the tasks in S are stored: putWrites of one task are stored
\* together, and RESUME takes the place of an earlier RESUME.
Stored(S) ==
    /\ done' = done \cup {t \in S : LeavesMark(t)}
    /\ resumes' = [t \in Tasks |-> IF t \in S /\ commits[t].resume # <<>>
                                   THEN commits[t].resume ELSE resumes[t]]
    /\ open' = [t \in Tasks |-> IF t \in S THEN OpenedBy(t) ELSE open[t]]
    /\ heard' = [t \in Tasks |-> IF t \in S THEN Heard(t) ELSE heard[t]]
    /\ completed' = completed \cup {t \in S : commits[t].kind = "done"}

Committed == {t \in Tasks : commits[t] # NoCommit}
AllDone == \A t \in Tasks : t \in done \/ commits[t].kind = "done"
Kept == UNCHANGED <<runVars, pad, answers, attempts, commits, failed>>

\* Every task has writes: they are applied and the next checkpoint is stored.
Complete ==
    /\ phase = "running" /\ AllDone
    /\ phase' = "over"
    /\ Stored(Committed)
    /\ nullResume' = IF command # 0 THEN command ELSE nullResume
    /\ Kept

\* The run ends with an interrupt or an error, having stored everything.  It
\* does not wait for other tasks after a failure.
End ==
    /\ phase = "running" /\ ~AllDone
    /\ failed \/ \A t \in Tasks : ~Running(t)
    /\ phase' = "idle"
    /\ Stored(Committed)
    /\ nullResume' = IF command # 0 THEN command ELSE nullResume
    /\ Kept

\* The process dies at any point.
Crash ==
    /\ phase = "running"
    /\ phase' = "idle"
    /\ \E S \in SUBSET Committed : Stored(S)
    /\ nullResume' \in {nullResume, IF command # 0 THEN command ELSE nullResume}
    /\ Kept

Next ==
    \/ \E kind \in {"value", "ids", "null"}, to \in SUBSET Tasks : Start(kind, to)
    \/ \E t \in Tasks : \/ AnswerFromList(t)
                        \/ AnswerFromNull(t)
                        \/ Interrupt(t)
                        \/ Finish(t)
                        \/ Retry(t)
                        \/ Fail(t)
    \/ Complete
    \/ End
    \/ Crash

Spec == Init /\ [][Next]_vars

-----------------------------------------------------------------------------
Runs == 0..MaxRuns
Answers == Seq(1..MaxRuns)
Scratchpads == [counter : Int, resume : Answers, null : Runs]
Kinds == {"none", "done", "interrupt", "error", "late"}

\* Every variable has its type, no attempt sees more answers than it has
\* questions or is made without being due, and scratchpad indexes start at -1.
TypeOK ==
    /\ phase \in {"idle", "running", "over"}
    /\ run \in Runs /\ command \in Runs /\ nullResume \in Runs
    /\ done \subseteq Tasks /\ completed \subseteq Tasks /\ addressed \subseteq Tasks
    /\ resumes \in [Tasks -> Answers] /\ heard \in [Tasks -> Answers]
    /\ pad \in [Tasks -> Scratchpads]
    /\ answers \in [Tasks -> Answers]
    /\ attempts \in [Tasks -> Nat]
    /\ commits \in [Tasks -> [kind : Kinds, resume : Answers, heard : Answers]]
    /\ open \in [Tasks -> Nat]
    /\ failed \in BOOLEAN
    /\ \A t \in Tasks : /\ Len(answers[t]) <= Questions[t]
                       /\ attempts[t] < MaxAttempts[t]
                       /\ pad[t].counter >= -1

\* interrupt() never throws "Resume length mismatch" (interrupt.ts:95): when a
\* task's list has no value for the next index, the list ends just there, also
\* after failed attempts and with a null resume left over from another run.
IndexMatchesList ==
    \A t \in Tasks :
        Running(t) /\ Idx(t) >= Len(pad[t].resume) => Idx(t) = Len(pad[t].resume)

\* The answer that a Command gives to a task waiting on an interrupt is what
\* that interrupt() returns, and no other call of the task returns it,
\* whatever the task has been answered before.
AnswersFit ==
    \A t \in Tasks : \A i \in 1..Len(answers[t]) :
        Running(t) /\ open[t] # NoQuestion =>
            /\ answers[t][i] = run => i = open[t]
            /\ t \in addressed /\ i = open[t] => answers[t][i] = run

\* A node that is executed again, after an interrupt, a failure or a crash,
\* gets the answers it had when it last committed, in the same places.
AnswersAreStable ==
    \A t \in Tasks : \A i \in 1..Len(answers[t]) :
        Running(t) /\ i <= Len(heard[t]) => answers[t][i] = heard[t][i]

\* A task whose completion was stored is not executed again.
DoneStaysDone == \A t \in Tasks : Running(t) => t \notin completed

\* Only tasks that completed are passed over by a later run: a failed one is
\* executed again.
OnlyDoneIsSkipped == done \subseteq completed
=============================================================================
