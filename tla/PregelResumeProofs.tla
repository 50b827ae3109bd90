------------------------- MODULE PregelResumeProofs -------------------------
(***************************************************************************)
(* Proofs about PregelResume, for any tasks, questions, retry policies,    *)
(* commands and number of runs: type correctness; that an index of         *)
(* interrupt() never passes the end of the task's list; for nodes that ask *)
(* and are not retried, that answers stay where they are and that a        *)
(* Command's answer goes to the question it answers; that completed tasks  *)
(* stay done, when silent nodes ask nothing, and that nothing else is      *)
(* passed over, when edges do not throw.                                   *)
(***************************************************************************)
EXTENDS PregelResume, TLAPS

\* Every answer that a list is extended with comes from a run.
LEMMA ScratchpadTyped ==
    ASSUME TypeOK, run < MaxRuns, NEW t \in Tasks, NEW kind, NEW to
    PROVE  Scratchpad(t, kind, to) \in Scratchpads
<1>1. run + 1 \in 1..MaxRuns /\ run + 1 \in Runs
  BY TasksAssumption DEF TypeOK, Runs
<1>2. MappedResume(t, kind, to) \in Answers
  <2>1. <<>> \in Answers /\ <<run + 1>> \in Answers
    BY <1>1 DEF Answers
  <2> QED
    BY <2>1 DEF MappedResume
<1>3. resumes[t] \o MappedResume(t, kind, to) \in Answers
  BY <1>2 DEF TypeOK, Answers
<1>4. NullResume(kind) \in Runs
  BY <1>1 DEF NullResume, TypeOK
<1> QED
  BY <1>3, <1>4 DEF Scratchpad, Scratchpads

\* The kinds of commit, and a failure being one of them.
Settled == {"done", "interrupt", "error", "late"}

LEMMA FailCommits ==
    ASSUME NEW t \in Tasks, Fail(t)
    PROVE  \E kind \in Settled : kind # "done" /\ Commit(t, kind, ResumeWrite(t))
BY DEF Fail, Failures, Settled

\* A commit has its type whatever it commits.
LEMMA CommitTyped ==
    ASSUME TypeOK, NEW t \in Tasks, NEW kind \in Kinds, NEW resume \in Answers,
           Commit(t, kind, resume)
    PROVE  commits' \in [Tasks -> [kind : Kinds, resume : Answers, heard : Answers]]
BY DEF Commit, TypeOK

LEMMA ResumeWriteTyped ==
    ASSUME TypeOK, NEW t \in Tasks
    PROVE  ResumeWrite(t) \in Answers
BY DEF ResumeWrite, TypeOK, Scratchpads, Answers

\* What Stored keeps has its type.
LEMMA StoredTyped ==
    ASSUME TypeOK, NEW S \in SUBSET Tasks, Stored(S)
    PROVE  /\ done' \subseteq Tasks /\ completed' \subseteq Tasks
           /\ resumes' \in [Tasks -> Answers] /\ heard' \in [Tasks -> Answers]
           /\ open' \in [Tasks -> Nat]
<1>1. \A t \in Tasks : /\ commits[t].resume \in Answers /\ commits[t].heard \in Answers
                       /\ Heard(t) \in Answers
  BY DEF TypeOK, Heard
<1>2. \A t \in Tasks : OpenedBy(t) \in Nat
  <2> SUFFICES ASSUME NEW t \in Tasks
               PROVE  OpenedBy(t) \in Nat
    OBVIOUS
  <2>1. Len(commits[t].heard) + 1 \in Nat
    BY <1>1 DEF Answers
  <2>2. 0 \in Runs /\ run \in Runs
    BY TasksAssumption DEF TypeOK, Runs
  <2> QED
    BY <2>1, <2>2 DEF OpenedBy, NoQuestion
<1> QED
  BY <1>1, <1>2 DEF Stored, TypeOK

-----------------------------------------------------------------------------
\* Type correctness of a thread (PregelScratchpad and what the saver keeps of
\* it), for any number of tasks, questions, attempts and runs.
THEOREM TypeCorrect == Spec => []TypeOK
<1>1. Init => TypeOK
  <2> SUFFICES ASSUME Init PROVE TypeOK
    OBVIOUS
  <2>1. <<>> \in Answers /\ 0 \in Runs /\ Len(<<>>) = 0
    BY TasksAssumption DEF Answers, Runs
  <2>2. pad \in [Tasks -> Scratchpads] /\ \A t \in Tasks : pad[t].counter >= -1
    BY <2>1 DEF Init, Scratchpads
  <2>3. /\ commits \in [Tasks -> [kind : Kinds, resume : Answers, heard : Answers]]
        /\ open \in [Tasks -> Nat]
    BY <2>1 DEF Init, NoCommit, NoQuestion, Kinds
  <2>4. \A t \in Tasks : Len(answers[t]) <= Questions[t] /\ attempts[t] < MaxAttempts[t]
    BY <2>1, TasksAssumption DEF Init
  <2> QED
    BY <2>1, <2>2, <2>3, <2>4 DEF Init, TypeOK
<1>2. TypeOK /\ [Next]_vars => TypeOK'
  <2> SUFFICES ASSUME TypeOK, [Next]_vars PROVE TypeOK'
    OBVIOUS
  <2>1. ASSUME NEW kind \in {"value", "ids", "null"}, NEW to \in SUBSET Tasks, Start(kind, to)
        PROVE  TypeOK'
    <3>1. \A t \in Tasks : Scratchpad(t, kind, to) \in Scratchpads
      BY <2>1, ScratchpadTyped DEF Start
    <3>2. pad' \in [Tasks -> Scratchpads] /\ \A t \in Tasks : pad'[t].counter >= -1
      <4>1. \A t \in Tasks : Scratchpad(t, kind, to).counter = -1
        BY DEF Scratchpad
      <4>2. pad' = [t \in Tasks |-> Scratchpad(t, kind, to)]
        BY <2>1 DEF Start
      <4> QED
        BY <3>1, <4>1, <4>2
    <3>3. run' \in Runs /\ command' \in Runs
      BY <2>1, TasksAssumption DEF Start, TypeOK, Runs
    <3>4. <<>> \in Answers /\ Len(<<>>) = 0
      BY DEF Answers
    <3>5. commits' \in [Tasks -> [kind : Kinds, resume : Answers, heard : Answers]]
      BY <2>1, <3>4 DEF Start, NoCommit, Kinds
    <3>6. answers' \in [Tasks -> Answers] /\ \A t \in Tasks : Len(answers'[t]) <= Questions[t]
      BY <2>1, <3>4, TasksAssumption DEF Start
    <3>7. attempts' \in [Tasks -> Nat] /\ \A t \in Tasks : attempts'[t] < MaxAttempts[t]
      BY <2>1, TasksAssumption DEF Start
    <3> QED
      BY <2>1, <3>2, <3>3, <3>5, <3>6, <3>7 DEF Start, TypeOK, savedVars, historyVars
  <2>2. ASSUME NEW t \in Tasks, AnswerFromList(t) PROVE TypeOK'
    <3>1. pad[t].counter \in Int /\ Len(pad[t].resume) \in Nat /\ pad[t].counter >= -1
      BY DEF TypeOK, Scratchpads, Answers
    <3>2. pad[t].resume[Idx(t) + 1] \in 1..MaxRuns
      <4>1. pad[t].resume \in Seq(1..MaxRuns)
        BY DEF TypeOK, Scratchpads, Answers
      <4>2. Idx(t) + 1 \in 1..Len(pad[t].resume)
        BY <2>2, <3>1 DEF AnswerFromList, Idx
      <4>3. \A S : \A s \in Seq(S) : \A i \in 1..Len(s) : s[i] \in S
        OBVIOUS
      <4> QED
        BY <4>1, <4>2, <4>3
    <3>3. answers[t] \in Answers /\ Len(answers[t]) < Questions[t]
      BY <2>2 DEF AnswerFromList, Calls, TypeOK
    <3>4. /\ Append(answers[t], pad[t].resume[Idx(t) + 1]) \in Answers
          /\ Len(Append(answers[t], pad[t].resume[Idx(t) + 1])) = Len(answers[t]) + 1
          /\ Len(answers[t]) \in Nat
      BY <3>2, <3>3 DEF Answers
    <3>5. /\ answers' \in [Tasks -> Answers]
          /\ \A u \in Tasks : Len(answers'[u]) <= Questions[u]
      <4>1. /\ answers \in [Tasks -> Answers]
            /\ answers' = [answers EXCEPT ![t] = Append(answers[t], pad[t].resume[Idx(t) + 1])]
        BY <2>2 DEF AnswerFromList, Returns, TypeOK
      <4>2. Len(answers[t]) + 1 <= Questions[t]
        BY <3>3, <3>4, TasksAssumption
      <4>3. \A u \in Tasks : Len(answers[u]) <= Questions[u]
        BY DEF TypeOK
      <4> QED
        BY <3>4, <4>1, <4>2, <4>3
    <3>6. pad' \in [Tasks -> Scratchpads] /\ \A u \in Tasks : pad'[u].counter >= -1
      <4>1. /\ pad \in [Tasks -> Scratchpads] /\ \A u \in Tasks : pad[u].counter >= -1
            /\ pad' = [pad EXCEPT ![t].counter = Idx(t)]
        BY <2>2 DEF AnswerFromList, TypeOK
      <4>2. Idx(t) \in Int /\ Idx(t) >= -1
        BY <3>1 DEF Idx
      <4> QED
        BY <4>1, <4>2 DEF Scratchpads
    <3> QED
      BY <2>2, <3>5, <3>6 DEF AnswerFromList, TypeOK, runVars, savedVars, historyVars
  <2>3. ASSUME NEW t \in Tasks, AnswerFromNull(t) PROVE TypeOK'
    <3>1. /\ pad[t].counter \in Int /\ pad[t].counter >= -1
          /\ pad[t].resume \in Answers /\ pad[t].null \in Runs
      BY DEF TypeOK, Scratchpads
    <3>2. pad[t].null \in 1..MaxRuns /\ 0 \in Runs
      BY <2>3, <3>1, TasksAssumption DEF AnswerFromNull, Runs
    <3>3. answers[t] \in Answers /\ Len(answers[t]) < Questions[t]
      BY <2>3 DEF AnswerFromNull, Calls, TypeOK
    <3>4. /\ Append(answers[t], pad[t].null) \in Answers
          /\ Len(Append(answers[t], pad[t].null)) = Len(answers[t]) + 1
          /\ Len(answers[t]) \in Nat
          /\ Append(pad[t].resume, pad[t].null) \in Answers
      BY <3>1, <3>2, <3>3 DEF Answers
    <3>5. /\ answers' \in [Tasks -> Answers]
          /\ \A u \in Tasks : Len(answers'[u]) <= Questions[u]
      <4>1. /\ answers \in [Tasks -> Answers]
            /\ answers' = [answers EXCEPT ![t] = Append(answers[t], pad[t].null)]
        BY <2>3 DEF AnswerFromNull, Returns, TypeOK
      <4>2. Len(answers[t]) + 1 <= Questions[t]
        BY <3>3, <3>4, TasksAssumption
      <4>3. \A u \in Tasks : Len(answers[u]) <= Questions[u]
        BY DEF TypeOK
      <4> QED
        BY <3>4, <4>1, <4>2, <4>3
    <3>6. pad' \in [Tasks -> Scratchpads] /\ \A u \in Tasks : pad'[u].counter >= -1
      BY <2>3, <3>1, <3>2, <3>4 DEF AnswerFromNull, TakesNull, Idx, TypeOK, Scratchpads
    <3> QED
      BY <2>3, <3>5, <3>6 DEF AnswerFromNull, TypeOK, runVars, savedVars, historyVars
  <2>4. ASSUME NEW t \in Tasks, Interrupt(t) PROVE TypeOK'
    <3>1. commits' \in [Tasks -> [kind : Kinds, resume : Answers, heard : Answers]]
      BY <2>4, ResumeWriteTyped, CommitTyped DEF Interrupt, InterruptResumes, Kinds
    <3>2. pad' \in [Tasks -> Scratchpads] /\ \A u \in Tasks : pad'[u].counter >= -1
      <4>1. /\ pad \in [Tasks -> Scratchpads] /\ \A u \in Tasks : pad[u].counter >= -1
            /\ pad' = [pad EXCEPT ![t].counter = Idx(t)]
        BY <2>4 DEF Interrupt, TypeOK
      <4>2. Idx(t) \in Int /\ Idx(t) >= -1
        BY <4>1 DEF Idx, Scratchpads
      <4> QED
        BY <4>1, <4>2 DEF Scratchpads
    <3> QED
      BY <2>4, <3>1, <3>2 DEF Interrupt, TypeOK, runVars, savedVars, historyVars
  <2>5. ASSUME NEW t \in Tasks, Finish(t) PROVE TypeOK'
    <3>1. commits' \in [Tasks -> [kind : Kinds, resume : Answers, heard : Answers]]
      BY <2>5, ResumeWriteTyped, CommitTyped DEF Finish, Kinds
    <3> QED
      BY <2>5, <3>1 DEF Finish, TypeOK, runVars, savedVars, historyVars
  <2>6. ASSUME NEW t \in Tasks, Retry(t) PROVE TypeOK'
    <3>1. <<>> \in Answers /\ Len(<<>>) = 0
      BY DEF Answers
    <3>2. /\ answers' \in [Tasks -> Answers]
          /\ \A u \in Tasks : Len(answers'[u]) <= Questions[u]
      <4>1. /\ answers \in [Tasks -> Answers]
            /\ answers' = [answers EXCEPT ![t] = <<>>]
        BY <2>6 DEF Retry, TypeOK
      <4>2. 0 <= Questions[t]
        BY TasksAssumption
      <4>3. \A u \in Tasks : Len(answers[u]) <= Questions[u]
        BY DEF TypeOK
      <4> QED
        BY <3>1, <4>1, <4>2, <4>3
    <3>3. attempts' \in [Tasks -> Nat] /\ \A u \in Tasks : attempts'[u] < MaxAttempts[u]
      <4>1. /\ attempts \in [Tasks -> Nat] /\ \A u \in Tasks : attempts[u] < MaxAttempts[u]
            /\ attempts' = [attempts EXCEPT ![t] = attempts[t] + 1]
            /\ ~(attempts[t] + 1 >= MaxAttempts[t])
        BY <2>6 DEF Retry, GivesUp, TypeOK
      <4>2. attempts[t] \in Nat /\ MaxAttempts[t] \in Nat
        BY <4>1, TasksAssumption
      <4>3. attempts[t] + 1 \in Nat /\ attempts[t] + 1 < MaxAttempts[t]
        BY <4>1, <4>2
      <4> QED
        BY <4>1, <4>3
    <3> QED
      BY <2>6, <3>2, <3>3 DEF Retry, TypeOK, runVars, savedVars, historyVars
  <2>7. ASSUME NEW t \in Tasks, Fail(t) PROVE TypeOK'
    <3>1. commits' \in [Tasks -> [kind : Kinds, resume : Answers, heard : Answers]]
      <4>1. PICK kind \in Settled : Commit(t, kind, ResumeWrite(t))
        BY <2>7, FailCommits
      <4> QED
        BY <4>1, ResumeWriteTyped, CommitTyped DEF Kinds, Settled
    <3> QED
      BY <2>7, <3>1 DEF Fail, TypeOK, runVars, savedVars, historyVars
  <2>8. CASE Complete
    BY <2>8, StoredTyped DEF Complete, Committed, Kept, TypeOK, runVars
  <2>9. CASE End
    BY <2>9, StoredTyped DEF End, Committed, Kept, TypeOK, runVars
  <2>10. CASE Crash
    <3>1. PICK S \in SUBSET Committed : Stored(S)
      BY <2>10 DEF Crash
    <3>2. S \in SUBSET Tasks
      BY DEF Committed
    <3> QED
      BY <2>10, <3>1, <3>2, StoredTyped DEF Crash, Kept, TypeOK, runVars
  <2>11. CASE UNCHANGED vars
    BY <2>11 DEF TypeOK, vars, runVars, savedVars, historyVars
  <2> QED
    BY <2>1, <2>2, <2>3, <2>4, <2>5, <2>6, <2>7, <2>8, <2>9, <2>10, <2>11 DEF Next
<1> QED
  BY <1>1, <1>2, PTL DEF Spec

-----------------------------------------------------------------------------
\* The counter of a task under way has not passed the end of its list.
CounterInList ==
    \A t \in Tasks : Running(t) => pad[t].counter + 1 <= Len(pad[t].resume)

\* What the invariants below need to know of the types.
LEMMA PadFacts ==
    ASSUME TypeOK, NEW t \in Tasks
    PROVE  /\ pad[t].counter \in Int /\ pad[t].resume \in Seq(1..MaxRuns)
           /\ Len(pad[t].resume) \in Nat
           /\ answers[t] \in Seq(1..MaxRuns) /\ Len(answers[t]) \in Nat
           /\ resumes[t] \in Seq(1..MaxRuns) /\ heard[t] \in Seq(1..MaxRuns)
           /\ Len(resumes[t]) \in Nat /\ Len(heard[t]) \in Nat
<1>1. /\ pad[t] \in Scratchpads /\ answers[t] \in Seq(1..MaxRuns)
      /\ resumes[t] \in Seq(1..MaxRuns) /\ heard[t] \in Seq(1..MaxRuns)
  BY DEF TypeOK, Answers
<1>2. pad[t].counter \in Int /\ pad[t].resume \in Seq(1..MaxRuns)
  BY <1>1 DEF Scratchpads, Answers
<1> QED
  BY <1>1, <1>2

\* A task runs after a step only if it ran before it, or if the step starts
\* the run.
LEMMA StillRunning ==
    ASSUME NEW t \in Tasks, Running(t)', phase' = phase, done' = done,
           commits' = commits \/ \E u \in Tasks, c \in Settled :
                                    \E r : Commit(u, c, r),
           TypeOK
    PROVE  /\ Running(t)
           /\ \A u \in Tasks, c \in Settled : \A r : Commit(u, c, r) => u # t
<1>1. commits \in [Tasks -> [kind : Kinds, resume : Answers, heard : Answers]]
  BY DEF TypeOK
<1>2. \A u \in Tasks, c \in Settled : \A r : Commit(u, c, r) => u # t
  <2> SUFFICES ASSUME NEW u \in Tasks, NEW c \in Settled, NEW r,
                      Commit(u, c, r), u = t
               PROVE  FALSE
    OBVIOUS
  <2>1. commits'[t].kind = c
    BY <1>1 DEF Commit
  <2>2. commits'[t].kind = "none"
    BY DEF Running, NoCommit
  <2> QED
    BY <2>1, <2>2 DEF Settled
<1>3. commits'[t] = commits[t]
  BY <1>1, <1>2 DEF Commit
<1> QED
  BY <1>2, <1>3 DEF Running

\* The check of interrupt.ts:95 never fails: whenever interrupt() looks past
\* the answers it has, it looks at the first free place of the list.
THEOREM IndexNeverMismatches == Spec => []IndexMatchesList
<1>1. Init => CounterInList
  BY DEF Init, CounterInList, Running
<1>2. TypeOK /\ CounterInList /\ [Next]_vars => CounterInList'
  <2> SUFFICES ASSUME TypeOK, CounterInList, [Next]_vars, NEW u \in Tasks, Running(u)'
               PROVE  pad'[u].counter + 1 <= Len(pad'[u].resume)
    BY DEF CounterInList
  <2>0. /\ pad \in [Tasks -> Scratchpads]
        /\ Running(u) => pad[u].counter + 1 <= Len(pad[u].resume)
    BY DEF TypeOK, CounterInList
  <2>1. ASSUME NEW kind \in {"value", "ids", "null"}, NEW to \in SUBSET Tasks, Start(kind, to)
        PROVE  pad'[u].counter + 1 <= Len(pad'[u].resume)
    <3>1. Scratchpad(u, kind, to) \in Scratchpads
      BY <2>1, ScratchpadTyped DEF Start
    <3>2. pad'[u] = Scratchpad(u, kind, to) /\ pad'[u].counter = -1
      BY <2>1 DEF Start, Scratchpad
    <3>3. pad'[u].resume \in Seq(1..MaxRuns)
      BY <3>1, <3>2 DEF Scratchpads, Answers
    <3> QED
      BY <3>2, <3>3
  <2>2. ASSUME NEW t \in Tasks, AnswerFromList(t)
        PROVE  pad'[u].counter + 1 <= Len(pad'[u].resume)
    <3>1. Running(u)
      BY <2>2 DEF AnswerFromList, Running, savedVars
    <3>2. pad' = [pad EXCEPT ![t].counter = Idx(t)] /\ Idx(t) < Len(pad[t].resume)
      BY <2>2 DEF AnswerFromList
    <3> QED
      BY <2>0, <3>1, <3>2, PadFacts DEF Idx, Scratchpads
  <2>3. ASSUME NEW t \in Tasks, AnswerFromNull(t)
        PROVE  pad'[u].counter + 1 <= Len(pad'[u].resume)
    <3>1. Running(u) /\ Running(t)
      BY <2>3 DEF AnswerFromNull, Calls, Running, savedVars
    <3>2. CASE u # t
      BY <2>0, <2>3, <3>1, <3>2 DEF AnswerFromNull, TakesNull
    <3>3. CASE u = t
      <4>1. pad'[t] = [counter |-> Idx(t), resume |-> Append(pad[t].resume, pad[t].null),
                       null |-> 0]
        BY <2>0, <2>3 DEF AnswerFromNull, TakesNull
      <4>2. /\ pad'[t].counter = pad[t].counter + 1
            /\ pad'[t].resume = Append(pad[t].resume, pad[t].null)
        BY <4>1 DEF Idx
      <4>3. Len(Append(pad[t].resume, pad[t].null)) = Len(pad[t].resume) + 1
        BY PadFacts
      <4> QED
        BY <2>0, <3>1, <3>3, <4>2, <4>3, PadFacts
    <3> QED
      BY <3>2, <3>3
  <2>4. ASSUME NEW t \in Tasks, Interrupt(t)
        PROVE  pad'[u].counter + 1 <= Len(pad'[u].resume)
    <3>1. Running(u) /\ u # t
      BY <2>4, StillRunning DEF Interrupt, Settled, savedVars
    <3> QED
      BY <2>0, <2>4, <3>1 DEF Interrupt
  <2>5. ASSUME NEW t \in Tasks, Finish(t) \/ Fail(t)
        PROVE  pad'[u].counter + 1 <= Len(pad'[u].resume)
    <3>1. Running(u) /\ pad' = pad
      <4>1. pad' = pad /\ phase' = phase /\ done' = done
        BY <2>5 DEF Finish, Fail, savedVars
      <4>2. \E c \in Settled : \E r : Commit(t, c, r)
        BY <2>5, FailCommits DEF Finish, Settled
      <4> QED
        BY <4>1, <4>2, StillRunning
    <3> QED
      BY <2>0, <3>1
  <2>6. ASSUME NEW t \in Tasks, Retry(t)
        PROVE  pad'[u].counter + 1 <= Len(pad'[u].resume)
    BY <2>0, <2>6 DEF Retry, Running, savedVars
  <2>7. CASE Complete \/ End \/ Crash
    BY <2>7 DEF Complete, End, Crash, Running
  <2>8. CASE UNCHANGED vars
    BY <2>0, <2>8 DEF vars, Running, savedVars
  <2> QED
    BY <2>1, <2>2, <2>3, <2>4, <2>5, <2>6, <2>7, <2>8 DEF Next
<1>3. TypeOK /\ CounterInList => IndexMatchesList
  BY PadFacts DEF CounterInList, IndexMatchesList, Idx
<1> QED
  BY <1>1, <1>2, <1>3, TypeCorrect, PTL DEF Spec

-----------------------------------------------------------------------------
\* The list u begins with the list s.
StartsWith(u, s) == Len(s) <= Len(u) /\ \A i \in 1..Len(s) : u[i] = s[i]

\* Without retries, the node has heard one answer for each index so far, and
\* heard them from its list,
HeardFromList ==
    \A t \in Tasks : Running(t) =>
        Len(answers[t]) = pad[t].counter + 1 /\ StartsWith(pad[t].resume, answers[t])

\* which begins with the list that is stored;
ListsExtendStored == \A t \in Tasks : Running(t) => StartsWith(pad[t].resume, resumes[t])

\* a commit has nothing but prolongs the list, and tells what was heard;
CommitsExtendStored ==
    \A t \in Tasks : phase = "running" =>
        /\ StartsWith(commits[t].resume, commits[t].heard)
        /\ commits[t].resume # <<>> => StartsWith(commits[t].resume, resumes[t])

\* and what was heard is stored.
HeardIsStored == \A t \in Tasks : StartsWith(resumes[t], heard[t])

StableInv == HeardFromList /\ ListsExtendStored /\ CommitsExtendStored /\ HeardIsStored

\* Nodes that call interrupt() are not retried: what the run that shows
\* AnswersAreStable violated does without.
RetriedAskNothing == \A t \in Tasks : MaxAttempts[t] = 1 \/ Questions[t] = 0

\* Lists that begin alike.
LEMMA StartsWithConcat ==
    ASSUME NEW S, NEW s \in Seq(S), NEW r \in Seq(S)
    PROVE  StartsWith(s \o r, s)
BY DEF StartsWith

LEMMA StartsWithAppend ==
    ASSUME NEW S, NEW u \in Seq(S), NEW s \in Seq(S), NEW e \in S, StartsWith(u, s)
    PROVE  StartsWith(Append(u, e), s)
<1>1. Len(Append(u, e)) = Len(u) + 1 /\ Len(u) \in Nat /\ Len(s) \in Nat
  OBVIOUS
<1>2. \A i \in 1..Len(u) : Append(u, e)[i] = u[i]
  OBVIOUS
<1> QED
  BY <1>1, <1>2 DEF StartsWith

LEMMA StartsWithNext ==
    ASSUME NEW S, NEW u \in Seq(S), NEW s \in Seq(S), NEW e \in S, StartsWith(u, s),
           Len(s) < Len(u), u[Len(s) + 1] = e
    PROVE  StartsWith(u, Append(s, e))
<1>1. Len(Append(s, e)) = Len(s) + 1 /\ Len(u) \in Nat /\ Len(s) \in Nat
  OBVIOUS
<1>2. /\ \A i \in 1..Len(s) : Append(s, e)[i] = s[i]
      /\ Append(s, e)[Len(s) + 1] = e
  OBVIOUS
<1> QED
  BY <1>1, <1>2 DEF StartsWith

\* What a task commits extends what is stored and tells what it heard.
LEMMA CommitExtends ==
    ASSUME StableInv, NEW t \in Tasks, Running(t)
    PROVE  /\ StartsWith(ResumeWrite(t), answers[t])
           /\ ResumeWrite(t) # <<>> => StartsWith(ResumeWrite(t), resumes[t])
<1>1. StartsWith(ResumeWrite(t), answers[t])
  <2>1. CASE answers[t] = <<>>
    BY <2>1 DEF ResumeWrite, StartsWith
  <2>2. CASE answers[t] # <<>>
    BY <2>2 DEF ResumeWrite, StableInv, HeardFromList
  <2> QED
    BY <2>1, <2>2
<1>2. ResumeWrite(t) # <<>> => StartsWith(ResumeWrite(t), resumes[t])
  BY DEF ResumeWrite, StableInv, ListsExtendStored
<1> QED
  BY <1>1, <1>2

\* Storing commits keeps what was heard in the stored lists.
LEMMA StoredIsHeard ==
    ASSUME TypeOK, StableInv, phase = "running", NEW S \in SUBSET Tasks, Stored(S)
    PROVE  HeardIsStored'
<1> SUFFICES ASSUME NEW t \in Tasks PROVE StartsWith(resumes'[t], heard'[t])
  BY DEF HeardIsStored
<1>1. /\ resumes'[t] = IF t \in S /\ commits[t].resume # <<>> THEN commits[t].resume ELSE resumes[t]
      /\ heard'[t] = IF t \in S THEN Heard(t) ELSE heard[t]
  BY DEF Stored
<1>2. /\ StartsWith(commits[t].resume, commits[t].heard)
      /\ commits[t].resume # <<>> => StartsWith(commits[t].resume, resumes[t])
      /\ StartsWith(resumes[t], heard[t])
  BY DEF StableInv, CommitsExtendStored, HeardIsStored
<1>3. /\ commits[t].resume \in Seq(1..MaxRuns) /\ commits[t].heard \in Seq(1..MaxRuns)
      /\ resumes[t] \in Seq(1..MaxRuns) /\ heard[t] \in Seq(1..MaxRuns)
  BY DEF TypeOK, Answers
<1>4. CASE t \in S /\ commits[t].resume # <<>>
  <2>1. StartsWith(commits[t].resume, heard[t])
    BY <1>2, <1>3, <1>4 DEF StartsWith
  <2> QED
    BY <1>1, <1>2, <1>4, <2>1 DEF Heard
<1>5. CASE t \in S /\ commits[t].resume = <<>>
  <2>1. Len(commits[t].heard) = 0
    BY <1>2, <1>3, <1>5 DEF StartsWith
  <2>2. Heard(t) = heard[t]
    BY <1>3, <2>1 DEF Heard
  <2> QED
    BY <1>1, <1>2, <1>5, <2>2
<1>6. CASE t \notin S
  BY <1>1, <1>2, <1>6
<1> QED
  BY <1>4, <1>5, <1>6

\* A commit by t leaves the invariant, whatever task it is.
LEMMA CommitStable ==
    ASSUME TypeOK, StableInv, NEW t \in Tasks, Running(t),
           NEW kind \in Settled, Commit(t, kind, ResumeWrite(t)),
           phase' = phase, done' = done, resumes' = resumes, heard' = heard, answers' = answers,
           \A u \in Tasks \ {t} : pad'[u] = pad[u]
    PROVE  StableInv'
<1>1. \A u \in Tasks : Running(u)' => Running(u) /\ u # t
  BY StillRunning
<1>2. HeardFromList' /\ ListsExtendStored'
  BY <1>1 DEF StableInv, HeardFromList, ListsExtendStored
<1>3. CommitsExtendStored'
  <2>1. \A u \in Tasks :
          /\ StartsWith(commits'[u].resume, commits'[u].heard)
          /\ commits'[u].resume # <<>> => StartsWith(commits'[u].resume, resumes[u])
    <3>1. commits \in [Tasks -> [kind : Kinds, resume : Answers, heard : Answers]]
      BY DEF TypeOK
    <3>2. /\ commits'[t].resume = ResumeWrite(t) /\ commits'[t].heard = answers[t]
          /\ \A u \in Tasks \ {t} : commits'[u] = commits[u]
      BY <3>1 DEF Commit
    <3>3. /\ StartsWith(ResumeWrite(t), answers[t])
          /\ ResumeWrite(t) # <<>> => StartsWith(ResumeWrite(t), resumes[t])
      BY CommitExtends
    <3>4. phase = "running"
      BY DEF Running
    <3> QED
      BY <3>2, <3>3, <3>4 DEF StableInv, CommitsExtendStored
  <2> QED
    BY <2>1 DEF CommitsExtendStored
<1>4. HeardIsStored'
  BY DEF StableInv, HeardIsStored
<1> QED
  BY <1>2, <1>3, <1>4 DEF StableInv

\* Answering a call leaves the invariant: the list may grow by the answer.
LEMMA AnswerStable ==
    ASSUME TypeOK, StableInv, NEW t \in Tasks, Running(t),
           NEW v \in 1..MaxRuns, Returns(t, v),
           UNCHANGED <<phase, done, resumes, heard, commits>>,
           pad'[t].counter = pad[t].counter + 1,
           \/ pad'[t].resume = pad[t].resume /\ Len(answers[t]) < Len(pad[t].resume)
              /\ v = pad[t].resume[Len(answers[t]) + 1]
           \/ pad'[t].resume = Append(pad[t].resume, v) /\ Len(answers[t]) = Len(pad[t].resume),
           \A u \in Tasks \ {t} : pad'[u] = pad[u]
    PROVE  StableInv'
<1>1. \A u \in Tasks : Running(u)' <=> Running(u)
  BY DEF Running
<1>2. /\ answers'[t] = Append(answers[t], v)
      /\ \A u \in Tasks \ {t} : answers'[u] = answers[u]
  BY DEF Returns, TypeOK
<1>3. Len(answers'[t]) = Len(answers[t]) + 1
  BY <1>2, PadFacts
<1>4. /\ Len(answers[t]) = pad[t].counter + 1 /\ StartsWith(pad[t].resume, answers[t])
      /\ StartsWith(pad[t].resume, resumes[t])
  BY DEF StableInv, HeardFromList, ListsExtendStored
<1>5. StartsWith(pad'[t].resume, answers'[t]) /\ StartsWith(pad'[t].resume, resumes[t])
  <2>1. CASE pad'[t].resume = pad[t].resume /\ Len(answers[t]) < Len(pad[t].resume)
             /\ v = pad[t].resume[Len(answers[t]) + 1]
    <3>1. StartsWith(pad[t].resume, Append(answers[t], v))
      BY <1>4, <2>1, StartsWithNext, PadFacts
    <3> QED
      BY <1>2, <1>4, <2>1, <3>1
  <2>2. CASE pad'[t].resume = Append(pad[t].resume, v) /\ Len(answers[t]) = Len(pad[t].resume)
    <3>1. StartsWith(Append(pad[t].resume, v), resumes[t])
      BY <1>4, StartsWithAppend, PadFacts
    <3>2. StartsWith(Append(pad[t].resume, v), answers[t])
      BY <1>4, StartsWithAppend, PadFacts
    <3>3. /\ Append(pad[t].resume, v) \in Seq(1..MaxRuns)
          /\ Len(Append(pad[t].resume, v)) = Len(pad[t].resume) + 1
          /\ Append(pad[t].resume, v)[Len(pad[t].resume) + 1] = v
      BY PadFacts
    <3>4. Len(answers[t]) < Len(Append(pad[t].resume, v))
      BY <2>2, <3>3, PadFacts
    <3>5. StartsWith(Append(pad[t].resume, v), Append(answers[t], v))
      BY <2>2, <3>2, <3>3, <3>4, StartsWithNext, PadFacts
    <3> QED
      BY <1>2, <2>2, <3>1, <3>5
  <2> QED
    BY <2>1, <2>2
<1>6. HeardFromList' /\ ListsExtendStored'
  BY <1>1, <1>2, <1>3, <1>4, <1>5, PadFacts DEF StableInv, HeardFromList, ListsExtendStored
<1>7. CommitsExtendStored' /\ HeardIsStored'
  BY DEF StableInv, CommitsExtendStored, HeardIsStored
<1> QED
  BY <1>6, <1>7 DEF StableInv

LEMMA StableHolds ==
    ASSUME RetriedAskNothing PROVE Spec => []StableInv
<1>1. Init => StableInv
  <2> SUFFICES ASSUME Init PROVE StableInv
    OBVIOUS
  <2>1. Len(<<>>) = 0
    OBVIOUS
  <2> QED
    BY <2>1 DEF Init, StableInv, HeardFromList, ListsExtendStored, CommitsExtendStored,
                HeardIsStored, Running, StartsWith
<1>2. TypeOK /\ StableInv /\ [Next]_vars => StableInv'
  <2> SUFFICES ASSUME TypeOK, StableInv, [Next]_vars PROVE StableInv'
    OBVIOUS
  <2>1. ASSUME NEW kind \in {"value", "ids", "null"}, NEW to \in SUBSET Tasks, Start(kind, to)
        PROVE  StableInv'
    <3>1. ASSUME NEW t \in Tasks
          PROVE  /\ Len(answers'[t]) = pad'[t].counter + 1
                 /\ StartsWith(pad'[t].resume, answers'[t])
                 /\ StartsWith(pad'[t].resume, resumes[t])
                 /\ StartsWith(commits'[t].resume, commits'[t].heard)
                 /\ commits'[t].resume = <<>>
      <4>1. /\ pad'[t].counter = -1
            /\ pad'[t].resume = resumes[t] \o MappedResume(t, kind, to)
            /\ answers'[t] = <<>> /\ commits'[t] = NoCommit
        BY <2>1 DEF Start, Scratchpad
      <4>2. <<run + 1>> \in Seq(1..MaxRuns) /\ <<>> \in Seq(1..MaxRuns)
        BY <2>1, TasksAssumption DEF Start, TypeOK, Runs
      <4>3. MappedResume(t, kind, to) \in Seq(1..MaxRuns)
        BY <4>2 DEF MappedResume
      <4>4. resumes[t] \o MappedResume(t, kind, to) \in Seq(1..MaxRuns)
        BY <4>3, PadFacts
      <4>5. StartsWith(pad'[t].resume, resumes[t])
        BY <4>1, <4>3, StartsWithConcat, PadFacts
      <4> QED
        BY <4>1, <4>4, <4>5 DEF NoCommit, StartsWith
    <3>2. resumes' = resumes /\ heard' = heard
      BY <2>1 DEF Start, savedVars, historyVars
    <3> QED
      BY <3>1, <3>2 DEF StableInv, HeardFromList, ListsExtendStored, CommitsExtendStored,
                        HeardIsStored
  <2>2. ASSUME NEW t \in Tasks, AnswerFromList(t) PROVE StableInv'
    <3>1. Running(t) /\ Len(answers[t]) = Idx(t)
      BY <2>2 DEF AnswerFromList, Calls, StableInv, HeardFromList, Idx
    <3>2. pad'[t].counter = Idx(t) /\ pad'[t].resume = pad[t].resume
      BY <2>2 DEF AnswerFromList, TypeOK, Scratchpads
    <3>3. Len(answers[t]) + 1 \in 1..Len(pad[t].resume)
      BY <2>2, <3>1, PadFacts DEF AnswerFromList
    <3>4. \A S : \A s \in Seq(S) : \A i \in 1..Len(s) : s[i] \in S
      OBVIOUS
    <3>5. pad[t].resume[Idx(t) + 1] \in 1..MaxRuns
      BY <3>1, <3>3, <3>4, PadFacts
    <3>6. \A u \in Tasks \ {t} : pad'[u] = pad[u]
      BY <2>2 DEF AnswerFromList, TypeOK
    <3>7. Len(answers[t]) < Len(pad[t].resume)
      BY <3>3, PadFacts
    <3> QED
      BY <2>2, <3>1, <3>2, <3>5, <3>6, <3>7, AnswerStable
         DEF AnswerFromList, Idx, savedVars, historyVars
  <2>3. ASSUME NEW t \in Tasks, AnswerFromNull(t) PROVE StableInv'
    <3>1. Running(t) /\ Len(answers[t]) = Idx(t) /\ StartsWith(pad[t].resume, answers[t])
      BY <2>3 DEF AnswerFromNull, Calls, StableInv, HeardFromList, Idx
    <3>2. Len(answers[t]) = Len(pad[t].resume)
      BY <2>3, <3>1, PadFacts DEF AnswerFromNull, StartsWith
    <3>3. pad' = [pad EXCEPT ![t] = [counter |-> Idx(t),
                                     resume |-> Append(pad[t].resume, pad[t].null), null |-> 0]]
      BY <2>3 DEF AnswerFromNull, TakesNull
    <3>4. /\ pad'[t].counter = Idx(t) /\ pad'[t].resume = Append(pad[t].resume, pad[t].null)
          /\ \A u \in Tasks \ {t} : pad'[u] = pad[u]
      BY <3>3 DEF TypeOK
    <3>5. pad[t].null \in 1..MaxRuns
      <4>1. pad[t].null \in Runs
        BY DEF TypeOK, Scratchpads
      <4> QED
        BY <2>3, <4>1, TasksAssumption DEF AnswerFromNull, Runs
    <3> QED
      BY <2>3, <3>1, <3>2, <3>4, <3>5, AnswerStable
         DEF AnswerFromNull, Idx, savedVars, historyVars
  <2>4. ASSUME NEW t \in Tasks, Interrupt(t) PROVE StableInv'
    <3>1. /\ Running(t) /\ Commit(t, "interrupt", ResumeWrite(t))
          /\ \A u \in Tasks \ {t} : pad'[u] = pad[u]
      BY <2>4 DEF Interrupt, Calls, InterruptResumes, TypeOK
    <3> QED
      BY <2>4, <3>1, CommitStable DEF Interrupt, Settled, savedVars, historyVars
  <2>5. ASSUME NEW t \in Tasks, Finish(t) PROVE StableInv'
    BY <2>5, CommitStable DEF Finish, Settled, savedVars, historyVars
  <2>6. ASSUME NEW t \in Tasks, Retry(t) PROVE StableInv'
    <3>1. /\ Throws(t) /\ ~GivesUp(t) /\ answers' = [answers EXCEPT ![t] = <<>>]
          /\ UNCHANGED <<phase, done, resumes, heard, pad, commits>>
      BY <2>6 DEF Retry, savedVars, historyVars
    <3>2. MaxAttempts[t] # 1
      BY <3>1 DEF GivesUp, TypeOK
    <3>3. Len(answers[t]) <= 0
      BY <3>2 DEF RetriedAskNothing, TypeOK
    <3>4. answers[t] = <<>>
      BY <3>3, PadFacts
    <3>5. answers' = answers
      BY <3>1, <3>4 DEF TypeOK
    <3> QED
      BY <3>1, <3>5 DEF StableInv, HeardFromList, ListsExtendStored, CommitsExtendStored,
                        HeardIsStored, Running
  <2>7. ASSUME NEW t \in Tasks, Fail(t) PROVE StableInv'
    <3>1. PICK kind \in Settled : Commit(t, kind, ResumeWrite(t))
      BY <2>7, FailCommits
    <3> QED
      BY <2>7, <3>1, CommitStable DEF Fail, Throws, savedVars, historyVars
  <2>8. CASE Complete \/ End \/ Crash
    <3>1. phase = "running" /\ phase' # "running"
      BY <2>8 DEF Complete, End, Crash
    <3>2. PICK S \in SUBSET Tasks : Stored(S)
      BY <2>8 DEF Complete, End, Crash, Committed
    <3>3. HeardIsStored'
      BY <3>1, <3>2, StoredIsHeard
    <3> QED
      BY <3>1, <3>3 DEF StableInv, HeardFromList, ListsExtendStored, CommitsExtendStored, Running
  <2>9. CASE UNCHANGED vars
    BY <2>9 DEF vars, savedVars, historyVars, StableInv, HeardFromList, ListsExtendStored,
                CommitsExtendStored, HeardIsStored, Running, StartsWith
  <2> QED
    BY <2>1, <2>2, <2>3, <2>4, <2>5, <2>6, <2>7, <2>8, <2>9 DEF Next
<1> QED
  BY <1>1, <1>2, TypeCorrect, PTL DEF Spec

\* A node that is executed again gets the answers it had when it last committed:
\* Commands, crashes and failures of any task do not move them, as long as
\* nodes that ask are not retried.
THEOREM AnswersStayInPlace ==
    ASSUME RetriedAskNothing PROVE Spec => []AnswersAreStable
<1>1. TypeOK /\ StableInv => AnswersAreStable
  <2> SUFFICES ASSUME TypeOK, StableInv, NEW t \in Tasks, NEW i \in 1..Len(answers[t]),
                      Running(t), i <= Len(heard[t])
               PROVE  answers[t][i] = heard[t][i]
    BY DEF AnswersAreStable
  <2>1. /\ StartsWith(pad[t].resume, answers[t]) /\ StartsWith(pad[t].resume, resumes[t])
        /\ StartsWith(resumes[t], heard[t])
    BY DEF StableInv, HeardFromList, ListsExtendStored, HeardIsStored
  <2> QED
    BY <2>1, PadFacts DEF StartsWith
<1> QED
  BY <1>1, TypeCorrect, StableHolds, PTL

-----------------------------------------------------------------------------
\* Every answer in the list s was given by run n at the latest.
AtMost(s, n) == \A i \in 1..Len(s) : s[i] <= n

\* Answers are dated: what is stored when a run begins is from earlier runs,
\* what the run adds is its own Command's or a stored null resume.
AnswersAreDated ==
    /\ nullResume <= run /\ command <= run
    /\ \A t \in Tasks : AtMost(resumes[t], run)
    /\ phase = "running" =>
         /\ run >= 1 /\ nullResume < run
         /\ \A t \in Tasks : /\ AtMost(resumes[t], run - 1)
                             /\ AtMost(pad[t].resume, run) /\ pad[t].null <= run
                             /\ AtMost(commits[t].resume, run)

\* The open question of a task is the first that its stored list has no answer
\* for, and a committed interrupt will leave it so.
OpenIsNext == \A t \in Tasks : open[t] # NoQuestion => Len(resumes[t]) = open[t] - 1
InterruptsFit ==
    \A t \in Tasks : phase = "running" /\ commits[t].kind = "interrupt" =>
        Len(commits[t].heard) = Len(IF commits[t].resume # <<>> THEN commits[t].resume ELSE resumes[t])

\* The answer of the run's Command is, or will be, in the place of the open
\* question and nowhere else.
ListFits(t) ==
    /\ \A i \in 1..Len(pad[t].resume) : pad[t].resume[i] = run => i = open[t]
    /\ Len(pad[t].resume) >= open[t] => pad[t].null # run
    /\ t \in addressed => IF Len(pad[t].resume) < open[t] THEN pad[t].null = run
                                                        ELSE pad[t].resume[open[t]] = run
ListsFit == \A t \in Tasks : Running(t) /\ open[t] # NoQuestion => ListFits(t)
FitInv == AnswersAreDated /\ OpenIsNext /\ InterruptsFit /\ ListsFit

\* What the steps below need to know of the types.
LEMMA FitFacts ==
    ASSUME TypeOK
    PROVE  /\ run \in Nat /\ command \in Nat /\ nullResume \in Nat
           /\ \A t \in Tasks : /\ pad[t].null \in Nat /\ open[t] \in Nat
                               /\ commits[t].resume \in Seq(1..MaxRuns) /\ commits[t].heard \in Seq(1..MaxRuns)
                               /\ pad[t].resume \in Seq(1..MaxRuns) /\ resumes[t] \in Seq(1..MaxRuns)
                               /\ answers[t] \in Seq(1..MaxRuns)
<1>1. run \in Nat /\ command \in Nat /\ nullResume \in Nat
  BY TasksAssumption DEF TypeOK, Runs
<1>2. ASSUME NEW t \in Tasks
      PROVE  /\ pad[t].null \in Nat /\ open[t] \in Nat
             /\ commits[t].resume \in Seq(1..MaxRuns) /\ commits[t].heard \in Seq(1..MaxRuns)
  <2>1. pad[t] \in Scratchpads /\ commits[t] \in [kind : Kinds, resume : Answers, heard : Answers]
    BY DEF TypeOK
  <2> QED
    BY <2>1, TasksAssumption DEF TypeOK, Scratchpads, Runs, Answers
<1> QED
  BY <1>1, <1>2, PadFacts

LEMMA Elements ==
    ASSUME NEW S, NEW s \in Seq(S), NEW i \in 1..Len(s) PROVE s[i] \in S
  OBVIOUS

LEMMA Singleton ==
    ASSUME NEW v \in 1..MaxRuns, NEW s \in Seq(1..MaxRuns)
    PROVE  /\ <<v>> \in Seq(1..MaxRuns) /\ AtMost(<<v>>, v) /\ AtMost(<<>>, v)
           /\ Len(s \o <<v>>) = Len(s) + 1 /\ (s \o <<v>>)[Len(s) + 1] = v
           /\ \A i \in 1..Len(s) : (s \o <<v>>)[i] = s[i]
           /\ s \o <<>> = s
<1>1. <<v>> \in Seq(1..MaxRuns) /\ Len(<<v>>) = 1 /\ <<v>>[1] = v /\ Len(<<>>) = 0
  OBVIOUS
<1>2. AtMost(<<v>>, v) /\ AtMost(<<>>, v)
  BY <1>1 DEF AtMost
<1>3. Len(s \o <<v>>) = Len(s) + 1 /\ (s \o <<v>>)[Len(s) + 1] = v
  BY <1>1
<1>4. \A i \in 1..Len(s) : (s \o <<v>>)[i] = s[i]
  BY <1>1
<1>5. s \o <<>> = s
  OBVIOUS
<1> QED
  BY <1>1, <1>2, <1>3, <1>4, <1>5

LEMMA AtMostConcat ==
    ASSUME NEW s \in Seq(1..MaxRuns), NEW u \in Seq(1..MaxRuns), NEW n, AtMost(s, n), AtMost(u, n)
    PROVE  AtMost(s \o u, n)
  BY DEF AtMost

LEMMA AtMostGrows ==
    ASSUME NEW s \in Seq(1..MaxRuns), NEW n \in Int, NEW m \in Int, n <= m, AtMost(s, n)
    PROVE  AtMost(s, m)
<1>1. \A i \in 1..Len(s) : s[i] \in 1..MaxRuns
  BY Elements
<1> QED
  BY <1>1, TasksAssumption DEF AtMost

LEMMA AtMostAppend ==
    ASSUME NEW s \in Seq(1..MaxRuns), NEW v \in 1..MaxRuns, NEW n, AtMost(s, n), v <= n
    PROVE  AtMost(Append(s, v), n)
  BY DEF AtMost

\* A new run adds its answer where the open question is.
LEMMA StartFits ==
    ASSUME TypeOK, FitInv, NEW kind \in {"value", "ids", "null"}, NEW to \in SUBSET Tasks, Start(kind, to)
    PROVE  FitInv'
<1>0. /\ phase' = "running" /\ run' = run + 1 /\ addressed' = to
      /\ command' \in {0, run + 1}
      /\ UNCHANGED <<done, resumes, nullResume, open>>
      /\ \A t \in Tasks : pad'[t] = Scratchpad(t, kind, to) /\ commits'[t] = NoCommit
  BY DEF Start, savedVars, historyVars
<1>1. run + 1 \in 1..MaxRuns /\ run \in Nat /\ nullResume \in Nat
  BY FitFacts, TasksAssumption DEF Start
<1>2. ASSUME NEW t \in Tasks
      PROVE  /\ pad'[t].resume = resumes[t] \o MappedResume(t, kind, to)
             /\ pad'[t].null = NullResume(kind) /\ commits'[t].resume = <<>> /\ commits'[t].kind = "none"
             /\ MappedResume(t, kind, to) \in Seq(1..MaxRuns)
             /\ AtMost(MappedResume(t, kind, to), run + 1)
  <2>1. <<>> \in Seq(1..MaxRuns) /\ <<run + 1>> \in Seq(1..MaxRuns) /\ AtMost(<<run + 1>>, run + 1) /\ AtMost(<<>>, run + 1)
    BY <1>1, Singleton, FitFacts
  <2>2. MappedResume(t, kind, to) \in {<<>>, <<run + 1>>}
    BY DEF MappedResume
  <2>3. MappedResume(t, kind, to) \in Seq(1..MaxRuns) /\ AtMost(MappedResume(t, kind, to), run + 1)
    BY <2>1, <2>2
  <2>4. commits'[t].resume = <<>> /\ commits'[t].kind = "none"
    BY <1>0 DEF NoCommit
  <2>5. pad'[t].resume = resumes[t] \o MappedResume(t, kind, to) /\ pad'[t].null = NullResume(kind)
    BY DEF Start, Scratchpad
  <2> QED
    BY <2>3, <2>4, <2>5
<1>3. /\ nullResume <= run /\ \A t \in Tasks : AtMost(resumes[t], run)
  BY DEF FitInv, AnswersAreDated
<1>4. NullResume(kind) <= run + 1
  BY <1>1, <1>3 DEF NullResume
<1>5. AnswersAreDated'
  <2>1. ASSUME NEW t \in Tasks
        PROVE  /\ AtMost(resumes[t], run + 1) /\ AtMost(resumes[t], (run + 1) - 1)
               /\ AtMost(pad'[t].resume, run + 1) /\ pad'[t].null <= run + 1
               /\ AtMost(commits'[t].resume, run + 1)
    <3>1. AtMost(resumes[t], run + 1)
      BY <1>1, <1>3, AtMostGrows, FitFacts
    <3>2. AtMost(pad'[t].resume, run + 1)
      BY <1>2, <3>1, AtMostConcat, FitFacts
    <3>3. AtMost(<<>>, run + 1) /\ (run + 1) - 1 = run
      BY <1>1 DEF AtMost
    <3> QED
      BY <1>2, <1>3, <1>4, <3>1, <3>2, <3>3
  <2>2. command' <= run + 1 /\ nullResume < run + 1 /\ run + 1 >= 1 /\ nullResume <= run + 1
    BY <1>0, <1>1, <1>3
  <2> QED
    BY <1>0, <2>1, <2>2 DEF AnswersAreDated
<1>6. OpenIsNext' /\ InterruptsFit'
  BY <1>0, <1>2 DEF FitInv, OpenIsNext, InterruptsFit
<1>7. ASSUME NEW t \in Tasks, Running(t)', open[t] # NoQuestion PROVE ListFits(t)'
  <2> DEFINE k == open[t]
             s == resumes[t]
  <2>1. k \in Nat /\ s \in Seq(1..MaxRuns) /\ Len(s) = k - 1 /\ k # 0
    BY <1>7, FitFacts DEF FitInv, OpenIsNext, NoQuestion
  <2>2. \A i \in 1..Len(s) : s[i] <= run /\ s[i] \in 1..MaxRuns
    BY <1>3, <2>1, Elements DEF AtMost
  <2>3. t \notin done
    BY <1>0, <1>7 DEF Running
  <2>4. t \in to => kind \in {"value", "ids"}
    BY DEF Start
  <2>5. kind = "value" => t \in to
    BY <1>7, <2>3 DEF Start, Waiting
  <2>6. open'[t] = k /\ run' = run + 1 /\ addressed' = to
    BY <1>0
  <2> HIDE DEF k, s
  <2>7. CASE kind = "ids" /\ t \in to
    <3>1. pad'[t].resume = s \o <<run + 1>> /\ pad'[t].null = nullResume
      BY <1>2, <2>7 DEF MappedResume, NullResume, s
    <3>2. /\ Len(pad'[t].resume) = k /\ pad'[t].resume[k] = run + 1
          /\ \A i \in 1..(k - 1) : pad'[t].resume[i] = s[i]
      BY <1>1, <2>1, <3>1, Singleton
    <3>3. \A i \in 1..k : pad'[t].resume[i] = run + 1 => i = k
      BY <1>1, <2>1, <2>2, <3>2
    <3> QED
      BY <1>1, <1>3, <2>1, <2>6, <3>1, <3>2, <3>3 DEF ListFits
  <2>8. CASE ~(kind = "ids" /\ t \in to)
    <3>1. pad'[t].resume = s /\ pad'[t].null = NullResume(kind)
      BY ZenonT(30), <1>1, <1>2, <2>1, <2>8, Singleton DEF MappedResume, s
    <3>2. t \in to => pad'[t].null = run + 1
      BY <2>4, <2>8, <3>1 DEF NullResume
    <3>3. \A i \in 1..Len(s) : s[i] # run + 1
      BY <1>1, <2>2
    <3> QED
      BY <1>1, <2>1, <2>6, <3>1, <3>2, <3>3 DEF ListFits
  <2> QED
    BY <2>7, <2>8
<1>8. ListsFit'
  BY <1>0, <1>7 DEF ListsFit
<1> QED
  BY <1>5, <1>6, <1>8 DEF FitInv

\* The null resume of the run goes to the open question.
LEMMA NullFits ==
    ASSUME TypeOK, StableInv, FitInv, NEW t \in Tasks, AnswerFromNull(t) PROVE FitInv'
<1>1. /\ Running(t) /\ pad[t].null # 0
      /\ pad' = [pad EXCEPT ![t] = [counter |-> Idx(t), resume |-> Append(pad[t].resume, pad[t].null),
                                    null |-> 0]]
      /\ UNCHANGED <<phase, run, command, addressed, done, resumes, nullResume, commits, open>>
  BY DEF AnswerFromNull, TakesNull, Calls, runVars, savedVars, historyVars
<1>2. /\ pad'[t].resume = Append(pad[t].resume, pad[t].null) /\ pad'[t].null = 0
      /\ \A u \in Tasks \ {t} : pad'[u] = pad[u]
  BY <1>1 DEF TypeOK
<1>3. pad[t].null \in 1..MaxRuns
  <2>1. pad[t].null \in Runs
    BY DEF TypeOK, Scratchpads
  <2> QED
    BY <1>1, <2>1, TasksAssumption DEF Runs
<1>4. phase = "running" /\ run >= 1 /\ run \in Nat
  BY <1>1, FitFacts DEF Running, FitInv, AnswersAreDated
<1>5. AnswersAreDated'
  <2>1. AtMost(pad'[t].resume, run) /\ pad'[t].null <= run
    BY <1>2, <1>3, <1>4, AtMostAppend, FitFacts DEF FitInv, AnswersAreDated
  <2>2. \A u \in Tasks : AtMost(pad'[u].resume, run) /\ pad'[u].null <= run
    BY <1>2, <1>4, <2>1 DEF FitInv, AnswersAreDated
  <2> QED
    BY <1>1, <2>2 DEF FitInv, AnswersAreDated
<1>6. OpenIsNext' /\ InterruptsFit'
  BY <1>1 DEF FitInv, OpenIsNext, InterruptsFit
<1>7. \A u \in Tasks : Running(u)' <=> Running(u)
  BY <1>1 DEF Running
<1>8. ASSUME open[t] # NoQuestion PROVE ListFits(t)'
  <2> DEFINE k == open[t]
             s == pad[t].resume
             v == pad[t].null
  <2>1. k \in Nat /\ s \in Seq(1..MaxRuns) /\ Len(s) \in Nat /\ k # 0 /\ Len(s) >= k - 1 /\ v \in 1..MaxRuns
    <3>1. StartsWith(pad[t].resume, resumes[t]) /\ Len(resumes[t]) = k - 1
      BY <1>1, <1>8 DEF StableInv, ListsExtendStored, FitInv, OpenIsNext
    <3> QED
      BY <1>3, <1>8, <3>1, FitFacts DEF StartsWith, NoQuestion
  <2>2. /\ \A i \in 1..Len(s) : s[i] = run => i = k
        /\ Len(s) >= k => v # run
        /\ t \in addressed => IF Len(s) < k THEN v = run ELSE s[k] = run
    BY <1>1, <1>8 DEF FitInv, ListsFit, ListFits
  <2>3. pad'[t].resume = Append(s, v) /\ pad'[t].null = 0 /\ UNCHANGED <<run, addressed>> /\ open'[t] = k
    BY <1>1, <1>2
  <2> HIDE DEF k, s, v
  <2>4. /\ Len(Append(s, v)) = Len(s) + 1 /\ Append(s, v)[Len(s) + 1] = v
        /\ \A i \in 1..Len(s) : Append(s, v)[i] = s[i]
    BY <2>1
  <2>5. \A i \in 1..(Len(s) + 1) : Append(s, v)[i] = run => i = k
    BY <2>1, <2>2, <2>4
  <2>6. t \in addressed => Append(s, v)[k] = run
    BY <2>1, <2>2, <2>4
  <2> QED
    BY <1>4, <2>1, <2>3, <2>4, <2>5, <2>6 DEF ListFits
<1>9. ListsFit'
  <2>1. ASSUME NEW u \in Tasks, u # t, Running(u), open[u] # NoQuestion PROVE ListFits(u)'
    BY <1>1, <1>2, <2>1 DEF FitInv, ListsFit, ListFits
  <2> QED
    BY <1>1, <1>7, <1>8, <2>1 DEF ListsFit
<1> QED
  BY <1>5, <1>6, <1>9 DEF FitInv

\* An interrupt is committed at the end of the task's list.
LEMMA InterruptAtEnd ==
    ASSUME TypeOK, StableInv, NEW t \in Tasks, Running(t), Idx(t) >= Len(pad[t].resume)
    PROVE  Len(answers[t]) = Len(IF ResumeWrite(t) # <<>> THEN ResumeWrite(t) ELSE resumes[t])
<1>1. /\ Len(answers[t]) = pad[t].counter + 1 /\ StartsWith(pad[t].resume, answers[t])
      /\ StartsWith(pad[t].resume, resumes[t])
  BY DEF StableInv, HeardFromList, ListsExtendStored
<1>2. Len(answers[t]) = Len(pad[t].resume) /\ Len(resumes[t]) <= Len(pad[t].resume)
  BY <1>1, PadFacts DEF StartsWith, Idx
<1>3. CASE answers[t] = <<>>
  BY <1>2, <1>3, PadFacts DEF ResumeWrite
<1>4. CASE answers[t] # <<>>
  <2>1. Len(answers[t]) # 0
    BY <1>4, PadFacts
  <2> QED
    BY <1>2, <1>4, <2>1, PadFacts DEF ResumeWrite
<1> QED
  BY <1>3, <1>4

\* A commit by t leaves the invariant.
LEMMA CommitFits ==
    ASSUME TypeOK, StableInv, FitInv, NEW t \in Tasks, Running(t),
           NEW kind \in Settled, Commit(t, kind, ResumeWrite(t)),
           kind = "interrupt" => Idx(t) >= Len(pad[t].resume),
           UNCHANGED <<phase, run, command, addressed, done, resumes, nullResume, open>>,
           \A u \in Tasks : pad'[u].resume = pad[u].resume /\ pad'[u].null = pad[u].null
    PROVE  FitInv'
<1>1. /\ commits'[t].kind = kind /\ commits'[t].resume = ResumeWrite(t) /\ commits'[t].heard = answers[t]
      /\ \A u \in Tasks : u # t => commits'[u] = commits[u]
  BY DEF Commit, TypeOK
<1>2. phase = "running" /\ run \in Nat
  BY FitFacts DEF Running
<1>3. AtMost(ResumeWrite(t), run)
  <2>1. AtMost(<<>>, run)
    BY <1>2 DEF AtMost
  <2> QED
    BY <1>2, <2>1 DEF ResumeWrite, FitInv, AnswersAreDated
<1>4. AnswersAreDated'
  <2>1. \A u \in Tasks : AtMost(commits'[u].resume, run)
    BY <1>1, <1>2, <1>3 DEF FitInv, AnswersAreDated
  <2> QED
    BY <1>2, <2>1 DEF FitInv, AnswersAreDated
<1>5. OpenIsNext'
  BY DEF FitInv, OpenIsNext
<1>6. InterruptsFit'
  <2> SUFFICES ASSUME NEW u \in Tasks, commits'[u].kind = "interrupt"
               PROVE  Len(commits'[u].heard)
                        = Len(IF commits'[u].resume # <<>> THEN commits'[u].resume ELSE resumes[u])
    BY DEF InterruptsFit
  <2>1. CASE u = t
    BY <1>1, <2>1, InterruptAtEnd
  <2>2. CASE u # t
    BY <1>1, <1>2, <2>2 DEF FitInv, InterruptsFit
  <2> QED
    BY <2>1, <2>2
<1>7. ListsFit'
  <2>1. \A u \in Tasks : Running(u)' => Running(u)
    BY StillRunning
  <2> QED
    BY <2>1 DEF FitInv, ListsFit, ListFits
<1> QED
  BY <1>4, <1>5, <1>6, <1>7 DEF FitInv

\* The end of the run stores lists that end where the open questions are.
LEMMA StoredFits ==
    ASSUME TypeOK, FitInv, phase = "running", phase' # "running", NEW S \in SUBSET Tasks, Stored(S),
           nullResume' \in {nullResume, command}, UNCHANGED <<run, command>>
    PROVE  FitInv'
<1>1. ASSUME NEW t \in Tasks
      PROVE  /\ resumes'[t] = IF t \in S /\ commits[t].resume # <<>> THEN commits[t].resume ELSE resumes[t]
             /\ open'[t] = IF t \in S THEN OpenedBy(t) ELSE open[t]
  BY DEF Stored
<1>2. AnswersAreDated'
  <2>1. \A t \in Tasks : AtMost(resumes[t], run) /\ AtMost(commits[t].resume, run)
    BY DEF FitInv, AnswersAreDated
  <2>2. \A t \in Tasks : AtMost(resumes'[t], run)
    BY <1>1, <2>1
  <2> QED
    BY <2>2 DEF FitInv, AnswersAreDated
<1>3. OpenIsNext'
  <2> SUFFICES ASSUME NEW t \in Tasks, open'[t] # NoQuestion PROVE Len(resumes'[t]) = open'[t] - 1
    BY DEF OpenIsNext
  <2>1. CASE t \in S
    <3>1. commits[t].kind = "interrupt" /\ open'[t] = Len(commits[t].heard) + 1
      BY <1>1, <2>1 DEF OpenedBy
    <3>2. Len(commits[t].heard) = Len(IF commits[t].resume # <<>> THEN commits[t].resume ELSE resumes[t])
      BY <3>1 DEF FitInv, InterruptsFit
    <3>3. Len(commits[t].heard) \in Nat
      BY FitFacts
    <3> QED
      BY <1>1, <2>1, <3>1, <3>2, <3>3
  <2>2. CASE t \notin S
    BY <1>1, <2>2 DEF FitInv, OpenIsNext
  <2> QED
    BY <2>1, <2>2
<1> QED
  BY <1>2, <1>3 DEF FitInv, InterruptsFit, ListsFit, Running

\* Steps that leave what the invariant reads as it is.
LEMMA SameFits ==
    ASSUME FitInv, UNCHANGED <<phase, run, command, addressed, done, resumes, nullResume, open, commits>>,
           \A u \in Tasks : pad'[u].resume = pad[u].resume /\ pad'[u].null = pad[u].null
    PROVE  FitInv'
<1>1. AnswersAreDated' /\ OpenIsNext' /\ InterruptsFit'
  BY DEF FitInv, AnswersAreDated, OpenIsNext, InterruptsFit
<1>2. ListsFit'
  BY DEF FitInv, ListsFit, ListFits, Running
<1> QED
  BY <1>1, <1>2 DEF FitInv

\* A Command's answer is what the interrupt() it answers returns, and what no
\* other call returns, whatever has been answered, has failed or has crashed
\* before, as long as nodes that ask are not retried.
THEOREM CommandsAreHeard ==
    ASSUME RetriedAskNothing PROVE Spec => []AnswersFit
<1>1. Init => FitInv
  <2> SUFFICES ASSUME Init PROVE FitInv
    OBVIOUS
  <2>1. Len(<<>>) = 0
    OBVIOUS
  <2> QED
    BY <2>1 DEF Init, FitInv, AnswersAreDated, AtMost, OpenIsNext, InterruptsFit, ListsFit, Running, NoCommit
<1>2. TypeOK /\ StableInv /\ FitInv /\ [Next]_vars => FitInv'
  <2> SUFFICES ASSUME TypeOK, StableInv, FitInv, [Next]_vars PROVE FitInv'
    OBVIOUS
  <2>1. ASSUME NEW kind \in {"value", "ids", "null"}, NEW to \in SUBSET Tasks, Start(kind, to)
        PROVE  FitInv'
    BY <2>1, StartFits
  <2>2. ASSUME NEW t \in Tasks, pad' = [pad EXCEPT ![t].counter = Idx(t)]
        PROVE  \A u \in Tasks : pad'[u].resume = pad[u].resume /\ pad'[u].null = pad[u].null
    BY <2>2 DEF TypeOK, Scratchpads
  <2>3. ASSUME NEW t \in Tasks, AnswerFromList(t) PROVE FitInv'
    <3>1. \A u \in Tasks : pad'[u].resume = pad[u].resume /\ pad'[u].null = pad[u].null
      BY <2>2, <2>3 DEF AnswerFromList
    <3> QED
      BY <2>3, <3>1, SameFits DEF AnswerFromList, runVars, savedVars, historyVars
  <2>4. ASSUME NEW t \in Tasks, AnswerFromNull(t) PROVE FitInv'
    BY <2>4, NullFits
  <2>5. ASSUME NEW t \in Tasks, Interrupt(t) PROVE FitInv'
    <3>1. \A u \in Tasks : pad'[u].resume = pad[u].resume /\ pad'[u].null = pad[u].null
      BY <2>2, <2>5 DEF Interrupt
    <3>2. Commit(t, "interrupt", ResumeWrite(t)) /\ Running(t) /\ Idx(t) >= Len(pad[t].resume)
      BY <2>5 DEF Interrupt, InterruptResumes, Calls
    <3> QED
      BY <2>5, <3>1, <3>2, CommitFits DEF Interrupt, Settled, runVars, savedVars, historyVars
  <2>6. ASSUME NEW t \in Tasks, Finish(t) PROVE FitInv'
    <3>1. Commit(t, "done", ResumeWrite(t)) /\ Running(t)
      BY <2>6 DEF Finish
    <3> QED
      BY <2>6, <3>1, CommitFits DEF Finish, Settled, runVars, savedVars, historyVars
  <2>7. ASSUME NEW t \in Tasks, Retry(t) PROVE FitInv'
    BY <2>7, SameFits DEF Retry, runVars, savedVars, historyVars
  <2>8. ASSUME NEW t \in Tasks, Fail(t) PROVE FitInv'
    <3>1. PICK kind \in Failures(t) : Commit(t, kind, ResumeWrite(t))
      BY <2>8 DEF Fail
    <3>2. kind \in Settled /\ kind # "interrupt"
      BY DEF Failures, Settled
    <3> QED
      BY <2>8, <3>1, <3>2, CommitFits DEF Fail, Throws, runVars, savedVars, historyVars
  <2>9. CASE Complete \/ End \/ Crash
    <3>1. /\ phase = "running" /\ phase' # "running" /\ UNCHANGED <<run, command>>
          /\ nullResume' \in {nullResume, command}
      BY <2>9 DEF Complete, End, Crash, Kept, runVars
    <3>2. PICK S \in SUBSET Tasks : Stored(S)
      BY <2>9 DEF Complete, End, Crash, Committed
    <3> QED
      BY <3>1, <3>2, StoredFits
  <2>10. CASE UNCHANGED vars
    BY <2>10, SameFits DEF vars, runVars, savedVars, historyVars
  <2> QED
    BY <2>1, <2>3, <2>4, <2>5, <2>6, <2>7, <2>8, <2>9, <2>10 DEF Next
<1>3. TypeOK /\ StableInv /\ FitInv => AnswersFit
  <2> SUFFICES ASSUME TypeOK, StableInv, FitInv, NEW t \in Tasks, NEW i \in 1..Len(answers[t]),
                      Running(t), open[t] # NoQuestion
               PROVE  /\ answers[t][i] = run => i = open[t]
                      /\ t \in addressed /\ i = open[t] => answers[t][i] = run
    BY DEF AnswersFit
  <2>1. StartsWith(pad[t].resume, answers[t]) /\ ListFits(t)
    BY DEF StableInv, HeardFromList, FitInv, ListsFit
  <2>2. i \in 1..Len(pad[t].resume) /\ answers[t][i] = pad[t].resume[i]
    BY <2>1, PadFacts DEF StartsWith
  <2> QED
    BY <2>1, <2>2, PadFacts DEF ListFits
<1> QED
  BY <1>1, <1>2, <1>3, TypeCorrect, StableHolds, PTL DEF Spec

-----------------------------------------------------------------------------
\* A completed task leaves a mark: either it writes something of its own, or
\* it has no answers to write and NO_WRITES is put for it.  A node that asks and
\* writes nothing commits its RESUME alone, and is executed again (runner.ts:463).
SilentAskNothing == \A t \in Silent : Questions[t] = 0

CompletedAreMarked ==
    /\ completed \subseteq done
    /\ \A t \in Silent : commits[t].resume = <<>>

\* No conditional edge throws after its node's update is in task.writes.
\* The update would be committed with the error, and the failed task be passed
\* over (runner.ts:448).
EdgesDoNotFail == EdgeMayFail = {}

MarkedAreCompleted ==
    /\ done \subseteq completed
    /\ \A t \in Tasks : commits[t].kind # "late"

\* A task of no questions commits no answers.
LEMMA SilentWritesNothing ==
    ASSUME TypeOK, SilentAskNothing, NEW t \in Silent
    PROVE  ResumeWrite(t) = <<>>
<1>1. t \in Tasks /\ Questions[t] = 0
  BY TasksAssumption DEF SilentAskNothing
<1>2. Len(answers[t]) <= 0 /\ answers[t] \in Seq(1..MaxRuns)
  BY <1>1 DEF TypeOK, Answers
<1>3. answers[t] = <<>>
  BY <1>2
<1> QED
  BY <1>3 DEF ResumeWrite

\* What the steps do with commits and marks.
LEMMA MarkSteps ==
    ASSUME TypeOK, [Next]_vars
    PROVE  \/ commits' = [t \in Tasks |-> NoCommit] /\ UNCHANGED <<done, completed>>
           \/ UNCHANGED <<commits, done, completed>>
           \/ \E t \in Tasks : \E kind \in {"interrupt", "done"} \cup Failures(t) :
                 Commit(t, kind, ResumeWrite(t)) /\ UNCHANGED <<done, completed>>
           \/ (\E S \in SUBSET Tasks : Stored(S)) /\ commits' = commits
<1>1. ASSUME NEW kind, NEW to, Start(kind, to)
      PROVE  commits' = [t \in Tasks |-> NoCommit] /\ UNCHANGED <<done, completed>>
  BY <1>1 DEF Start, savedVars, historyVars
<1>2. ASSUME NEW t \in Tasks, AnswerFromList(t) \/ AnswerFromNull(t) \/ Retry(t)
      PROVE  UNCHANGED <<commits, done, completed>>
  BY <1>2 DEF AnswerFromList, AnswerFromNull, Retry, savedVars, historyVars
<1>3. ASSUME NEW t \in Tasks, Interrupt(t) \/ Finish(t) \/ Fail(t)
      PROVE  \E kind \in {"interrupt", "done"} \cup Failures(t) :
                Commit(t, kind, ResumeWrite(t)) /\ UNCHANGED <<done, completed>>
  BY <1>3 DEF Interrupt, InterruptResumes, Finish, Fail, savedVars, historyVars
<1>4. Complete \/ End \/ Crash => (\E S \in SUBSET Tasks : Stored(S)) /\ commits' = commits
  BY DEF Complete, End, Crash, Kept, Committed
<1>5. UNCHANGED vars => UNCHANGED <<commits, done, completed>>
  BY DEF vars, savedVars, historyVars
<1> QED
  BY <1>1, <1>2, <1>3, <1>4, <1>5 DEF Next

\* When every node that calls interrupt() writes something, a task whose
\* completion was stored is passed over by every later run, through any
\* crashes, failures, interrupts and partial answers.
THEOREM CompletedStaysDone ==
    ASSUME SilentAskNothing PROVE Spec => []DoneStaysDone
<1>1. Init => CompletedAreMarked
  BY TasksAssumption DEF Init, CompletedAreMarked, NoCommit
<1>2. TypeOK /\ CompletedAreMarked /\ [Next]_vars => CompletedAreMarked'
  <2> SUFFICES ASSUME TypeOK, CompletedAreMarked, [Next]_vars PROVE CompletedAreMarked'
    OBVIOUS
  <2>1. CASE commits' = [t \in Tasks |-> NoCommit] /\ UNCHANGED <<done, completed>>
    BY <2>1, TasksAssumption DEF CompletedAreMarked, NoCommit
  <2>2. CASE UNCHANGED <<commits, done, completed>>
    BY <2>2 DEF CompletedAreMarked
  <2>3. ASSUME NEW t \in Tasks, NEW kind, Commit(t, kind, ResumeWrite(t)), UNCHANGED <<done, completed>>
        PROVE  CompletedAreMarked'
    <3>1. ASSUME NEW u \in Silent PROVE commits'[u].resume = <<>>
      <4>1. u \in Tasks
        BY TasksAssumption
      <4>2. CASE u = t
        BY <2>3, <4>1, <4>2, SilentWritesNothing DEF TypeOK, Commit
      <4>3. CASE u # t
        BY <2>3, <4>1, <4>3 DEF TypeOK, Commit, CompletedAreMarked
      <4> QED
        BY <4>2, <4>3
    <3> QED
      BY <2>3, <3>1 DEF CompletedAreMarked
  <2>4. ASSUME NEW S \in SUBSET Tasks, Stored(S), commits' = commits PROVE CompletedAreMarked'
    <3>1. \A t \in S : commits[t].kind = "done" => LeavesMark(t)
      BY DEF LeavesMark, CompletedAreMarked
    <3> QED
      BY <2>4, <3>1 DEF CompletedAreMarked, Stored
  <2> QED
    BY <2>1, <2>2, <2>3, <2>4, MarkSteps
<1>3. CompletedAreMarked => DoneStaysDone
  BY DEF CompletedAreMarked, DoneStaysDone, Running
<1> QED
  BY <1>1, <1>2, <1>3, TypeCorrect, PTL DEF Spec

\* When no conditional edge throws, a later run passes over no task that has
\* not completed.
THEOREM SkippedHaveCompleted ==
    ASSUME EdgesDoNotFail PROVE Spec => []OnlyDoneIsSkipped
<1>1. Init => MarkedAreCompleted
  BY DEF Init, MarkedAreCompleted, NoCommit
<1>2. TypeOK /\ MarkedAreCompleted /\ [Next]_vars => MarkedAreCompleted'
  <2> SUFFICES ASSUME TypeOK, MarkedAreCompleted, [Next]_vars PROVE MarkedAreCompleted'
    OBVIOUS
  <2>1. CASE commits' = [t \in Tasks |-> NoCommit] /\ UNCHANGED <<done, completed>>
    BY <2>1 DEF MarkedAreCompleted, NoCommit
  <2>2. CASE UNCHANGED <<commits, done, completed>>
    BY <2>2 DEF MarkedAreCompleted
  <2>3. ASSUME NEW t \in Tasks, NEW kind \in {"interrupt", "done"} \cup Failures(t),
               Commit(t, kind, ResumeWrite(t)), UNCHANGED <<done, completed>>
        PROVE  MarkedAreCompleted'
    <3>1. kind # "late"
      BY DEF Failures, EdgesDoNotFail
    <3> QED
      BY <2>3, <3>1 DEF TypeOK, Commit, MarkedAreCompleted
  <2>4. ASSUME NEW S \in SUBSET Tasks, Stored(S), commits' = commits PROVE MarkedAreCompleted'
    <3>1. \A t \in S : LeavesMark(t) => commits[t].kind = "done"
      BY DEF LeavesMark, MarkedAreCompleted
    <3> QED
      BY <2>4, <3>1 DEF MarkedAreCompleted, Stored
  <2> QED
    BY <2>1, <2>2, <2>3, <2>4, MarkSteps
<1>3. MarkedAreCompleted => OnlyDoneIsSkipped
  BY DEF MarkedAreCompleted, OnlyDoneIsSkipped
<1> QED
  BY <1>1, <1>2, <1>3, TypeCorrect, PTL DEF Spec
=============================================================================
