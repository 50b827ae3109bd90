------------------------- MODULE SubmitCoordinator -------------------------
(***************************************************************************)
(* SubmitCoordinator of the SDK's StreamController: submissions with a     *)
(* multitask strategy, resumes, the one slot of the run in flight, the     *)
(* queue behind it, the race between the response to the dispatch and the  *)
(* next terminal event of the thread, and stop().  dispose() is stop() and *)
(* clearQueue(), with no calls after it.                                   *)
(*                                                                         *)
(* The server is external: it creates a run for a dispatch or refuses to,  *)
(* answers or fails to, and executes the thread's runs one at a time.      *)
(* Terminal events do not say which run they end.  An action is a call, a  *)
(* turn of the event loop or a continuation: responses, events and timers  *)
(* wait for the continuations that are due (Quiet), calls need not.        *)
(***************************************************************************)
EXTENDS Integers, FiniteSets

CONSTANTS
    MaxSubmissions,  \* bound: submit() and respond() calls
    MaxFailures,     \* bound: dispatches that fail, inputs that cannot be prepared
    NoSubmission     \* "undefined"

Submissions == 1..MaxSubmissions

ASSUME SubmissionsAssumption ==
    MaxSubmissions \in Nat /\ MaxFailures \in Nat /\ NoSubmission \notin Submissions

Strategies == {"rollback", "reject", "enqueue"}
Dispatching == {"pump", "racing", "terminal"}
Listening == {"skipping", "armed", "finishing"}

VARIABLES
    at,        \* at[s]: how far submit() or dispatchResume() of s has come
    kind,      \* kind[s]: "none" before the call, then "submit" or "resume"
    aborted,   \* aborted[s]: abort.signal.aborted
    slot,      \* #runAbort, as the submission it belongs to
    command,   \* command[s]: the dispatch request, "none", "sent", "ok" or "failed"
    watch,     \* watch[s]: terminalPromise: "none"; "skipping" interrupts until a
               \* run begins; "armed"; "finishing", its timer under way; "settled";
               \* "handled" by the continuation
    drains,    \* how many setTimeouts of #drainQueue are under way
    told,      \* told[s]: "nothing", or what came last, onCreated or onCompleted
    run        \* run[s]: the run of s on the server

vars == <<at, kind, aborted, slot, command, watch, drains, told, run>>

Init ==
    /\ at = [s \in Submissions |-> "none"]
    /\ kind = [s \in Submissions |-> "none"]
    /\ aborted = [s \in Submissions |-> FALSE]
    /\ slot = NoSubmission
    /\ command = [s \in Submissions |-> "none"]
    /\ watch = [s \in Submissions |-> "none"]
    /\ drains = 0
    /\ told = [s \in Submissions |-> "nothing"]
    /\ run = [s \in Submissions |-> "none"]

\* queueStore: submissions are numbered in the order of their calls.
Queue == {s \in Submissions : at[s] = "queued"}
Oldest == {s \in Queue : \A r \in Queue : s <= r}

\* hasActiveRun.
HasActiveRun == slot # NoSubmission /\ ~aborted[slot]

\* #runAbort?.abort(): the watch of the slot's submission settles at once.
AbortSlot ==
    /\ aborted' = [s \in Submissions |-> aborted[s] \/ s = slot]
    /\ watch' = [s \in Submissions |->
                    IF s = slot /\ watch[s] \in Listening THEN "settled" ELSE watch[s]]

\* A continuation of s is due.
Due(s) ==
    \/ kind[s] = "resume" /\ watch[s] = "settled"
    \/ at[s] = "racing" /\ (command[s] # "sent" \/ watch[s] = "settled")
    \/ at[s] = "terminal" /\ watch[s] = "settled"
Quiet == \A s \in Submissions : ~Due(s)

\* The dispatch of s: the server may begin its run, unless it refuses it.
Dispatch(s) ==
    /\ command' = [command EXCEPT ![s] = "sent"]
    /\ run' = [run EXCEPT ![s] = "pending"]

Failures == {s \in Submissions : command[s] = "failed" \/ (at[s] = "over" /\ command[s] = "none")}
MayFail == Cardinality(Failures) < MaxFailures

-----------------------------------------------------------------------------
\* The calls of the application.

IsNext(s) == at[s] = "none" /\ \A r \in 1..(s - 1) : at[r] # "none"

\* Mutant of Drains: after an abort the queue is left alone.
DrainsUnlessAborted(s) == IF aborted[s] THEN 0 ELSE 1

\* setTimeout(() => this.#drainQueue(), 0) at the end of s.
Drains(s) == 1

\* submit() of s goes on to a run of its own, with d drains under way: it takes
\* the slot and waits for the root pump, unless its input cannot be prepared.
Claim(s, d) ==
    /\ AbortSlot
    /\ \/ /\ slot' = s
          /\ at' = [at EXCEPT ![s] = "pump"]
          /\ drains' = d
       \/ /\ MayFail
          /\ slot' = NoSubmission
          /\ at' = [at EXCEPT ![s] = "over"]
          /\ drains' = d + Drains(s)

Submit(s, strategy) ==
    /\ IsNext(s)
    /\ kind' = [kind EXCEPT ![s] = "submit"]
    /\ \/ /\ HasActiveRun /\ strategy = "reject"
          /\ at' = [at EXCEPT ![s] = "rejected"]
          /\ UNCHANGED <<aborted, watch, slot, drains>>
       \/ /\ HasActiveRun /\ strategy = "enqueue"
          /\ at' = [at EXCEPT ![s] = "queued"]
          /\ UNCHANGED <<aborted, watch, slot, drains>>
       \/ /\ ~HasActiveRun \/ strategy = "rollback"
          /\ Claim(s, drains)
    /\ UNCHANGED <<command, told, run>>

\* respond(), when a run has begun and may have asked: it takes the slot of what
\* is in flight, and its watch is armed before the dispatch.
Respond(s) ==
    /\ IsNext(s)
    /\ \E r \in Submissions : run[r] \in {"running", "over"}
    /\ kind' = [kind EXCEPT ![s] = "resume"]
    /\ at' = [at EXCEPT ![s] = "dispatching"]
    /\ aborted' = [r \in Submissions |-> aborted[r] \/ r = slot]
    /\ watch' = [r \in Submissions |->
                    IF r = s THEN "skipping"
                    ELSE IF r = slot /\ watch[r] \in Listening THEN "settled" ELSE watch[r]]
    /\ slot' = s
    /\ Dispatch(s)
    /\ UNCHANGED <<drains, told>>

\* stop(), once its cancellation on the server has been answered.
Stop ==
    /\ slot # NoSubmission
    /\ AbortSlot /\ slot' = NoSubmission
    /\ UNCHANGED <<at, kind, command, drains, told, run>>

\* cancelQueued(id) and clearQueue().
CancelQueued(gone) ==
    /\ at' = [s \in Submissions |-> IF s \in gone THEN "cancelled" ELSE at[s]]
    /\ UNCHANGED <<kind, aborted, slot, command, watch, drains, told, run>>

-----------------------------------------------------------------------------
\* submit() from the pump to its end.

\* Mutant of ArmsAtDispatch: the watch waits for the response to the dispatch.
ArmsLater(s) == "none"

\* The terminal is subscribed to before the dispatch; an aborted signal
\* settles it at once.
ArmsAtDispatch(s) == IF aborted[s] THEN "settled" ELSE "armed"

\* The root pump is ready: subscribe, then dispatch.
PumpReady(s) ==
    /\ Quiet /\ at[s] = "pump"
    /\ at' = [at EXCEPT ![s] = "racing"]
    /\ watch' = [watch EXCEPT ![s] = ArmsAtDispatch(s)]
    /\ Dispatch(s)
    /\ UNCHANGED <<kind, aborted, slot, drains, told>>

\* Mutant of Releases: the slot is emptied whoever holds it.
AlwaysReleases(s) == TRUE

\* #runAbort === abort.
Releases(s) == slot = s

\* The finally block.
End(s) ==
    /\ at' = [at EXCEPT ![s] = "over"]
    /\ slot' = IF Releases(s) THEN NoSubmission ELSE slot
    /\ drains' = drains + Drains(s)

\* The response comes first.
CommandFirst(s) ==
    /\ at[s] = "racing" /\ command[s] = "ok"
    /\ at' = [at EXCEPT ![s] = "terminal"]
    /\ told' = [told EXCEPT ![s] = "created"]
    /\ watch' = [watch EXCEPT ![s] = IF @ = "none" THEN "armed" ELSE @]
    /\ UNCHANGED <<kind, aborted, slot, command, drains, run>>

\* The dispatch fails; the promise of the terminal is left to itself.
ErrorFirst(s) ==
    /\ at[s] = "racing" /\ command[s] = "failed"
    /\ End(s)
    /\ watch' = [watch EXCEPT ![s] = "handled"]
    /\ UNCHANGED <<kind, aborted, command, told, run>>

\* The terminal is there: after the response, or before it.
TerminalSettled(s) ==
    /\ watch[s] = "settled"
    /\ at[s] = "terminal" \/ (at[s] = "racing" /\ command[s] = "sent")
    /\ End(s)
    /\ told' = [told EXCEPT ![s] = IF @ = "created" THEN "completed" ELSE @]
    /\ watch' = [watch EXCEPT ![s] = "handled"]
    /\ UNCHANGED <<kind, aborted, command, run>>

\* The watch of a resume, in the background.
ResumeSettled(s) ==
    /\ kind[s] = "resume" /\ watch[s] = "settled"
    /\ slot' = IF Releases(s) THEN NoSubmission ELSE slot
    /\ drains' = drains + Drains(s)
    /\ watch' = [watch EXCEPT ![s] = "handled"]
    /\ UNCHANGED <<at, kind, aborted, command, told, run>>

Continue(s) == CommandFirst(s) \/ ErrorFirst(s) \/ TerminalSettled(s) \/ ResumeSettled(s)

\* Mutant of MayDrain: the run in flight is not looked at.
DrainsAnyway == TRUE

MayDrain == ~HasActiveRun

\* #drainQueue: the head is submitted with no strategy.
DrainQueue ==
    /\ Quiet /\ drains > 0
    /\ IF MayDrain /\ Queue # {}
       THEN \E s \in Oldest : Claim(s, drains - 1)
       ELSE drains' = drains - 1 /\ UNCHANGED <<at, aborted, watch, slot>>
    /\ UNCHANGED <<kind, command, told, run>>

\* The timer of a watch fires.
FinishWatch(s) ==
    /\ Quiet /\ watch[s] = "finishing"
    /\ watch' = [watch EXCEPT ![s] = "settled"]
    /\ UNCHANGED <<at, kind, aborted, slot, command, drains, told, run>>

-----------------------------------------------------------------------------
\* The responses and the events of the server.

\* Mutant of Late: a completion that comes before the run's id is forgotten.
LateCreated == "created"

\* onCreated, and the completion that waited for the run's id.
Late == "completed"

\* The response to the dispatch.  A failure is a run that was refused, or a
\* response that was lost.  When submit() is over already, the response only
\* tells what was waiting for the run's id; a resume whose dispatch fails gives
\* up the slot and throws, but its watch stays.
Response(s, answer) ==
    /\ Quiet /\ command[s] = "sent"
    /\ \/ answer = "ok" /\ UNCHANGED run
       \/ answer = "failed" /\ MayFail /\ UNCHANGED run
       \/ answer = "failed" /\ MayFail /\ run[s] = "pending" /\ run' = [run EXCEPT ![s] = "none"]
    /\ command' = [command EXCEPT ![s] = answer]
    /\ told' = IF kind[s] = "submit" /\ at[s] = "over" /\ answer = "ok"
               THEN [told EXCEPT ![s] = Late] ELSE told
    /\ IF at[s] = "dispatching"
       THEN /\ at' = [at EXCEPT ![s] = "over"]
            /\ slot' = IF answer = "failed" /\ Releases(s) THEN NoSubmission ELSE slot
       ELSE UNCHANGED <<at, slot>>
    /\ UNCHANGED <<kind, aborted, watch, drains>>

\* The event "running": a resume no longer skips interrupts.
Begin(s) ==
    /\ Quiet /\ run[s] = "pending" /\ \A r \in Submissions : run[r] # "running"
    /\ run' = [run EXCEPT ![s] = "running"]
    /\ watch' = [r \in Submissions |-> IF watch[r] = "skipping" THEN "armed" ELSE watch[r]]
    /\ UNCHANGED <<at, kind, aborted, slot, command, drains, told>>

\* A terminal event: "completed" and "failed", here "ended", or "interrupted".
EndRun(s, event) ==
    /\ Quiet /\ run[s] = "running"
    /\ run' = [run EXCEPT ![s] = "over"]
    /\ watch' = [r \in Submissions |->
                    IF watch[r] = "armed" \/ (watch[r] = "skipping" /\ event # "interrupted")
                    THEN "finishing" ELSE watch[r]]
    /\ UNCHANGED <<at, kind, aborted, slot, command, drains, told>>

Next ==
    \/ \E s \in Submissions :
          \/ \E strategy \in Strategies : Submit(s, strategy)
          \/ Respond(s)
          \/ PumpReady(s) \/ Continue(s) \/ FinishWatch(s)
          \/ \E answer \in {"ok", "failed"} : Response(s, answer)
          \/ Begin(s)
          \/ \E event \in {"ended", "interrupted"} : EndRun(s, event)
    \/ DrainQueue \/ Stop
    \/ \E gone \in SUBSET Queue : gone # {} /\ CancelQueued(gone)

\* Continuations and timers are run, the pump gets ready, the server answers,
\* and runs begin and end.
SubmitFairness ==
    /\ WF_vars(DrainQueue)
    /\ \A s \in Submissions :
          /\ WF_vars(Continue(s)) /\ WF_vars(PumpReady(s)) /\ WF_vars(FinishWatch(s))
          /\ WF_vars(Begin(s))
          /\ WF_vars(\E answer \in {"ok", "failed"} : Response(s, answer))
          /\ WF_vars(\E event \in {"ended", "interrupted"} : EndRun(s, event))

Spec == Init /\ [][Next]_vars /\ SubmitFairness
-----------------------------------------------------------------------------
\* Every variable has its type.
TypeOK ==
    /\ at \in [Submissions -> {"none", "queued", "dispatching", "over", "rejected", "cancelled"}
                                \cup Dispatching]
    /\ kind \in [Submissions -> {"none", "submit", "resume"}]
    /\ aborted \in [Submissions -> BOOLEAN]
    /\ slot \in Submissions \cup {NoSubmission}
    /\ command \in [Submissions -> {"none", "sent", "ok", "failed"}]
    /\ watch \in [Submissions -> {"none", "settled", "handled"} \cup Listening]
    /\ drains \in Nat
    /\ told \in [Submissions -> {"nothing", "created", "completed"}]
    /\ run \in [Submissions -> {"none", "pending", "running", "over"}]

\* A submission that is on its way to a run, or waits for it to end.
InFlight(s) ==
    \/ at[s] \in Dispatching
    \/ kind[s] = "resume" /\ watch[s] # "handled" /\ command[s] # "failed"

\* Of the submissions in flight only the one in the slot is not aborted: the
\* client never follows two runs, however calls, ends, stops and drains
\* overlap (submit-coordinator.ts:363-366, 536).
OneInFlight == \A s \in Submissions : InFlight(s) /\ ~aborted[s] => slot = s

\* A submission that is taken from the queue never aborts another: it was
\* queued so as not to (submit-coordinator.ts:359, 736).
QueueWaits ==
    [][\A s \in Submissions :
          at[s] = "queued" /\ at'[s] = "pump" =>
              \A r \in Submissions : InFlight(r) => aborted[r]]_vars

\* Whatever comes first, the response or the end: the application is told of
\* every run that the server is known to have created and of its completion,
\* and of no other (submit-coordinator.ts:388-396, 481-527).
Announced ==
    \A s \in Submissions : kind[s] = "submit" /\ at[s] = "over" =>
        told[s] = IF command[s] = "ok" THEN "completed" ELSE "nothing"

\* The promise of every submit() that dispatches settles, also when the run
\* ends before its response arrives (submit-coordinator.ts:433-435).
SubmitsSettle ==
    \A s \in Submissions : at[s] \in Dispatching ~> at[s] = "over"

\* A queued submission is submitted, unless it is cancelled, whatever ends the
\* runs before it; all but a resume whose dispatch fails: dispatchResume's
\* catch empties the slot without draining (submit-coordinator.ts:652-658).
QueueDrains ==
    \A s \in Submissions :
        at[s] = "queued" ~>
            \/ at[s] # "queued"
            \/ \E r \in Submissions : kind[r] = "resume" /\ command[r] = "failed"
=============================================================================
