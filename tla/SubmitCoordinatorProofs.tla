---------------------- MODULE SubmitCoordinatorProofs ----------------------
(***************************************************************************)
(* Type correctness, OneInFlight, QueueWaits and Announced for any number  *)
(* of submissions, resumes and failures.  The argument: #runAbort is only  *)
(* ever replaced together with aborting the submission it belonged to, and *)
(* a submission that ends empties it only when it is its own.  That needs  *)
(* to know which submissions are resumes: these go on being watched when   *)
(* their call is over.  Announced needs what has been told when the        *)
(* response and the terminal are still to come.                            *)
(***************************************************************************)
EXTENDS SubmitCoordinator, TLAPS

\* How far a call has come tells what it is.
KindsFit ==
    \A s \in Submissions :
        /\ at[s] = "none" => kind[s] = "none"
        /\ at[s] \in Dispatching \cup {"queued"} => kind[s] = "submit"
        /\ at[s] = "dispatching" => kind[s] = "resume"

\* How far a call has come tells what was dispatched and announced.
CallsFit ==
    \A s \in Submissions :
        /\ at[s] \in {"none", "queued", "pump"} => command[s] = "none"
        /\ at[s] \in {"none", "queued", "pump", "racing", "dispatching"} => told[s] = "nothing"
        /\ at[s] = "terminal" => told[s] = "created" /\ command[s] = "ok"

IInv == TypeOK /\ KindsFit /\ CallsFit /\ OneInFlight /\ Announced

\* A claim keeps types, kinds and the slot right, whoever had the slot before:
\* the common step of submit() and #drainQueue.
LEMMA ClaimKeeps ==
    ASSUME IInv, NEW s \in Submissions, NEW d \in Nat, Claim(s, d),
           at[s] \in {"none", "queued"}, kind' = [kind EXCEPT ![s] = "submit"],
           UNCHANGED <<command, told, run>>
    PROVE  IInv'
<1>1. TypeOK'
    <2>1. aborted' \in [Submissions -> BOOLEAN] /\ watch' \in [Submissions -> {"none", "settled", "handled"} \cup Listening]
        BY DEF Claim, AbortSlot, IInv, TypeOK, Listening
    <2>2. at' \in [Submissions -> {"none", "queued", "dispatching", "over", "rejected", "cancelled"}
                                \cup Dispatching]
        BY DEF Claim, IInv, TypeOK, Dispatching
    <2>3. drains' \in Nat /\ slot' \in Submissions \cup {NoSubmission}
        BY DEF Claim, IInv, TypeOK, Drains
    <2> QED BY <2>1, <2>2, <2>3 DEF IInv, TypeOK
<1>2. KindsFit'
    BY DEF Claim, IInv, TypeOK, KindsFit, Dispatching
<1>3. ASSUME NEW r \in Submissions, InFlight(r)', ~aborted'[r] PROVE slot' = r
    <2>1. CASE r = s
        BY <2>1, <1>3 DEF Claim, InFlight, IInv, TypeOK, Dispatching
    <2>2. CASE r # s
        <3>1. at'[r] = at[r] /\ kind'[r] = kind[r]
            BY <2>2 DEF Claim, IInv, TypeOK
        <3>2. ~aborted[r] /\ r # slot
            BY <1>3 DEF Claim, AbortSlot, IInv, TypeOK
        <3>3. watch'[r] = watch[r] 
            BY <3>2 DEF Claim, AbortSlot, IInv, TypeOK
        <3>4. InFlight(r)
            BY <1>3, <3>1, <3>3 DEF InFlight
        <3> QED BY <3>2, <3>4 DEF IInv, OneInFlight
    <2> QED BY <2>1, <2>2
<1>4. CallsFit' /\ Announced'
    BY DEF Claim, IInv, TypeOK, CallsFit, Announced, Dispatching
<1> QED BY <1>1, <1>2, <1>3, <1>4 DEF IInv, OneInFlight

LEMMA Initially == Init => IInv
<1> SUFFICES ASSUME Init PROVE IInv
    OBVIOUS
<1>1. TypeOK
    BY DEF Init, TypeOK
<1>2. KindsFit /\ CallsFit /\ OneInFlight /\ Announced
    BY DEF Init, KindsFit, CallsFit, OneInFlight, InFlight, Announced, Dispatching
<1> QED BY <1>1, <1>2 DEF IInv

\* submit(): a rejected or queued call changes nothing that is in flight.
LEMMA SubmitKeeps ==
    ASSUME IInv, NEW s \in Submissions, NEW strategy \in Strategies, Submit(s, strategy)
    PROVE  IInv'
<1> USE DEF IInv
<1>1. CASE UNCHANGED <<aborted, watch, slot, drains>>
    <2>1. at' = [at EXCEPT ![s] = "rejected"] \/ at' = [at EXCEPT ![s] = "queued"] \/ Claim(s, drains)
        BY DEF Submit
    <2>2. CASE Claim(s, drains)
        BY <2>2, ClaimKeeps DEF Submit, IsNext, TypeOK
    <2>3. CASE at' = [at EXCEPT ![s] = "rejected"] \/ at' = [at EXCEPT ![s] = "queued"]
        <3>1. TypeOK'
            BY <1>1, <2>3 DEF Submit, TypeOK, Dispatching
        <3>2. KindsFit'
            BY <2>3 DEF Submit, TypeOK, KindsFit, Dispatching
        <3>3. ASSUME NEW r \in Submissions, InFlight(r)' PROVE InFlight(r)
            BY <3>3, <2>3, <1>1 DEF Submit, TypeOK, InFlight, Dispatching
        <3>4. CallsFit' /\ Announced'
            BY <2>3 DEF Submit, IsNext, TypeOK, CallsFit, Announced, Dispatching
        <3> QED BY <1>1, <3>1, <3>2, <3>3, <3>4 DEF OneInFlight
    <2> QED BY <2>1, <2>2, <2>3
<1>2. CASE Claim(s, drains)
    BY <1>2, ClaimKeeps DEF Submit, IsNext, TypeOK
<1> QED BY <1>1, <1>2 DEF Submit

LEMMA RespondKeeps ==
    ASSUME IInv, NEW s \in Submissions, Respond(s)
    PROVE  IInv'
<1> USE DEF IInv
<1>1. TypeOK'
    BY DEF Respond, IsNext, Dispatch, TypeOK, Listening, Dispatching
<1>2. KindsFit'
    BY DEF Respond, TypeOK, KindsFit, Dispatching
<1>3. ASSUME NEW r \in Submissions, InFlight(r)', ~aborted'[r], r # s PROVE FALSE
    <2>1. at'[r] = at[r] /\ kind'[r] = kind[r] /\ command'[r] = command[r]
        BY <1>3 DEF Respond, Dispatch, TypeOK
    <2>2. ~aborted[r] /\ r # slot
        BY <1>3 DEF Respond, TypeOK
    <2>3. watch'[r] = watch[r]
        BY <1>3, <2>2 DEF Respond, TypeOK
    <2>4. InFlight(r)
        BY <1>3, <2>1, <2>3 DEF InFlight
    <2> QED BY <2>2, <2>4 DEF OneInFlight
<1>4. CallsFit' /\ Announced'
    BY DEF Respond, IsNext, Dispatch, TypeOK, CallsFit, Announced, Dispatching
<1> QED BY <1>1, <1>2, <1>3, <1>4 DEF OneInFlight, Respond

\* stop(): what was in flight is aborted.
LEMMA StopKeeps == ASSUME IInv, Stop PROVE IInv'
<1> USE DEF IInv
<1>1. TypeOK' /\ KindsFit' /\ CallsFit' /\ Announced'
    BY DEF Stop, AbortSlot, TypeOK, KindsFit, CallsFit, Announced, Listening
<1>2. ASSUME NEW r \in Submissions, InFlight(r)', ~aborted'[r] PROVE FALSE
    <2>1. ~aborted[r] /\ r # slot
        BY <1>2 DEF Stop, AbortSlot, TypeOK
    <2>2. InFlight(r)
        BY <1>2, <2>1 DEF Stop, AbortSlot, TypeOK, InFlight
    <2> QED BY <2>1, <2>2 DEF OneInFlight
<1> QED BY <1>1, <1>2 DEF OneInFlight

LEMMA CancelKeeps ==
    ASSUME IInv, NEW gone \in SUBSET Queue, CancelQueued(gone)
    PROVE  IInv'
<1> USE DEF IInv
<1>1. TypeOK' /\ KindsFit' /\ CallsFit' /\ Announced'
    BY DEF CancelQueued, TypeOK, KindsFit, CallsFit, Announced, Dispatching
<1>2. ASSUME NEW r \in Submissions, InFlight(r)' PROVE InFlight(r)
    BY <1>2 DEF CancelQueued, TypeOK, InFlight, Dispatching
<1> QED BY <1>1, <1>2 DEF CancelQueued, OneInFlight

LEMMA PumpReadyKeeps ==
    ASSUME IInv, NEW s \in Submissions, PumpReady(s)
    PROVE  IInv'
<1> USE DEF IInv
<1>1. TypeOK'
    BY DEF PumpReady, ArmsAtDispatch, Dispatch, TypeOK, Listening, Dispatching
<1>2. KindsFit' /\ CallsFit' /\ Announced'
    BY DEF PumpReady, Dispatch, TypeOK, KindsFit, CallsFit, Announced, Dispatching
<1>3. ASSUME NEW r \in Submissions, InFlight(r)' PROVE InFlight(r)
    BY <1>3 DEF PumpReady, Dispatch, TypeOK, InFlight, Dispatching
<1> QED BY <1>1, <1>2, <1>3 DEF PumpReady, OneInFlight

\* The continuations: what ends is no longer in flight, and the slot is left to
\* whoever else holds it.
LEMMA ContinueKeeps ==
    ASSUME IInv, NEW s \in Submissions, Continue(s)
    PROVE  IInv'
<1> USE DEF IInv
<1>1. CASE CommandFirst(s)
    <2>1. TypeOK'
        BY <1>1 DEF CommandFirst, TypeOK, Listening, Dispatching
    <2>2. KindsFit' /\ CallsFit' /\ Announced'
        BY <1>1 DEF CommandFirst, TypeOK, KindsFit, CallsFit, Announced, Dispatching
    <2>3. ASSUME NEW r \in Submissions, InFlight(r)' PROVE InFlight(r)
        BY <2>3, <1>1 DEF CommandFirst, TypeOK, KindsFit, InFlight, Dispatching
    <2> QED BY <1>1, <2>1, <2>2, <2>3 DEF CommandFirst, OneInFlight
<1>2. CASE ErrorFirst(s)
    <2>1. TypeOK'
        BY <1>2 DEF ErrorFirst, End, Drains, Releases, TypeOK, Listening, Dispatching
    <2>2. KindsFit' /\ CallsFit' /\ Announced'
        BY <1>2 DEF ErrorFirst, End, Drains, Releases, TypeOK, KindsFit, CallsFit, Announced, Dispatching
    <2>3. ASSUME NEW r \in Submissions, InFlight(r)' PROVE InFlight(r) /\ r # s
        BY <2>3, <1>2 DEF ErrorFirst, End, Drains, Releases, TypeOK, KindsFit, InFlight, Dispatching
    <2> QED BY <1>2, <2>1, <2>2, <2>3 DEF ErrorFirst, End, Releases, OneInFlight
<1>3. CASE TerminalSettled(s)
    <2>1. TypeOK'
        BY <1>3 DEF TerminalSettled, End, Drains, Releases, TypeOK, Listening, Dispatching
    <2>2. KindsFit' /\ CallsFit' /\ Announced'
        BY <1>3 DEF TerminalSettled, End, Drains, Releases, TypeOK, KindsFit, CallsFit, Announced, Dispatching
    <2>3. ASSUME NEW r \in Submissions, InFlight(r)' PROVE InFlight(r) /\ r # s
        BY <2>3, <1>3 DEF TerminalSettled, End, Drains, Releases, TypeOK, KindsFit, InFlight, Dispatching
    <2> QED BY <1>3, <2>1, <2>2, <2>3 DEF TerminalSettled, End, Releases, OneInFlight
<1>4. CASE ResumeSettled(s)
    <2>1. TypeOK'
        BY <1>4 DEF ResumeSettled, Drains, Releases, TypeOK, Listening, Dispatching
    <2>2. KindsFit' /\ CallsFit' /\ Announced'
        BY <1>4 DEF ResumeSettled, Drains, Releases, TypeOK, KindsFit, CallsFit, Announced, Dispatching
    <2>3. ASSUME NEW r \in Submissions, InFlight(r)' PROVE InFlight(r) /\ r # s
        BY <2>3, <1>4 DEF ResumeSettled, Drains, Releases, TypeOK, KindsFit, InFlight, Dispatching
    <2> QED BY <1>4, <2>1, <2>2, <2>3 DEF ResumeSettled, Releases, OneInFlight
<1> QED BY <1>1, <1>2, <1>3, <1>4 DEF Continue

LEMMA DrainQueueKeeps == ASSUME IInv, DrainQueue PROVE IInv'
<1> USE DEF IInv
<1>1. drains - 1 \in Nat
    BY DEF DrainQueue, TypeOK
<1>2. ASSUME NEW s \in Oldest, Claim(s, drains - 1) PROVE IInv'
    <2>1. s \in Submissions /\ at[s] = "queued" /\ kind[s] = "submit"
        BY <1>2 DEF Oldest, Queue, KindsFit
    <2>2. kind' = [kind EXCEPT ![s] = "submit"] /\ UNCHANGED <<command, told, run>>
        BY <2>1 DEF DrainQueue, TypeOK
    <2> QED BY <1>1, <1>2, <2>1, <2>2, ClaimKeeps
<1>3. CASE drains' = drains - 1 /\ UNCHANGED <<at, aborted, watch, slot>>
    BY <1>1, <1>3 DEF DrainQueue, TypeOK, KindsFit, CallsFit, OneInFlight, InFlight, Announced
<1> QED BY <1>2, <1>3 DEF DrainQueue

\* What comes from outside settles watches, and ends the call of a resume.
LEMMA ExternalKeeps ==
    ASSUME IInv, NEW s \in Submissions,
           FinishWatch(s) \/ Begin(s) \/ \E event \in {"ended", "interrupted"} : EndRun(s, event)
    PROVE  IInv'
<1> USE DEF IInv
<1>1. TypeOK'
    BY DEF FinishWatch, Begin, EndRun, TypeOK, Listening
<1>2. KindsFit' /\ CallsFit' /\ Announced'
    BY DEF FinishWatch, Begin, EndRun, KindsFit, CallsFit, Announced
<1>3. ASSUME NEW r \in Submissions, InFlight(r)' PROVE InFlight(r)
    BY <1>3 DEF FinishWatch, Begin, EndRun, TypeOK, InFlight
<1> QED BY <1>1, <1>2, <1>3 DEF FinishWatch, Begin, EndRun, OneInFlight

LEMMA ResponseKeeps ==
    ASSUME IInv, NEW s \in Submissions, NEW answer \in {"ok", "failed"}, Response(s, answer)
    PROVE  IInv'
<1> USE DEF IInv
<1>1. TypeOK'
    <2>1. run' \in [Submissions -> {"none", "pending", "running", "over"}]
        BY DEF Response, TypeOK
    <2>2. told' \in [Submissions -> {"nothing", "created", "completed"}]
        BY DEF Response, Late, TypeOK
    <2>3. at' \in [Submissions -> {"none", "queued", "dispatching", "over", "rejected", "cancelled"}
                                    \cup Dispatching]
        BY DEF Response, TypeOK
    <2>4. slot' \in Submissions \cup {NoSubmission}
        BY DEF Response, TypeOK
    <2> QED BY <2>1, <2>2, <2>3, <2>4 DEF Response, TypeOK
<1>2. KindsFit' /\ CallsFit' /\ Announced'
    BY DEF Response, Late, TypeOK, KindsFit, CallsFit, Announced, Dispatching
<1>3. ASSUME NEW r \in Submissions, InFlight(r)' PROVE InFlight(r)
    BY <1>3 DEF Response, TypeOK, InFlight, Dispatching
<1>4. ASSUME NEW r \in Submissions, InFlight(r)', ~aborted[r] PROVE slot' = r
    <2>1. slot = r
        BY <1>3, <1>4 DEF OneInFlight
    <2>2. CASE slot' = slot
        BY <2>1, <2>2
    <2>3. CASE answer = "failed" /\ at[s] = "dispatching" /\ slot = s
        BY <1>4, <2>1, <2>3 DEF Response, TypeOK, KindsFit, InFlight, Dispatching
    <2> QED BY <2>2, <2>3 DEF Response, Releases
<1> QED BY <1>1, <1>2, <1>4 DEF Response, OneInFlight

LEMMA Inductive == IInv /\ [Next]_vars => IInv'
<1> SUFFICES ASSUME IInv, [Next]_vars PROVE IInv'
    OBVIOUS
<1>1. CASE UNCHANGED vars
    BY <1>1 DEF vars, IInv, TypeOK, KindsFit, CallsFit, OneInFlight, InFlight, Announced
<1>2. CASE Next
    BY <1>2, SubmitKeeps, RespondKeeps, PumpReadyKeeps, ContinueKeeps, ExternalKeeps,
       ResponseKeeps, DrainQueueKeeps, StopKeeps, CancelKeeps DEF Next
<1> QED BY <1>1, <1>2

LEMMA Invariance == Spec => []IInv
BY Initially, Inductive, PTL DEF Spec

\* Nothing but #drainQueue moves a submission from the queue to the pump.
LEMMA OnlyDrainTakes ==
    ASSUME IInv, [Next]_vars, NEW s \in Submissions, at[s] = "queued", at'[s] = "pump"
    PROVE  DrainQueue
<1> USE DEF IInv, TypeOK
<1>1. at' # at
    OBVIOUS
<1>2. ASSUME NEW r \in Submissions, NEW strategy \in Strategies, Submit(r, strategy) PROVE FALSE
    BY <1>2 DEF Submit, IsNext, Claim
<1>3. ASSUME NEW r \in Submissions, Respond(r) \/ PumpReady(r) \/ Continue(r) PROVE FALSE
    BY <1>3 DEF Respond, PumpReady, Continue, CommandFirst, ErrorFirst, TerminalSettled,
                ResumeSettled, End
<1>4. ASSUME NEW r \in Submissions,
             \/ FinishWatch(r) \/ Begin(r)
             \/ \E answer \in {"ok", "failed"} : Response(r, answer)
             \/ \E event \in {"ended", "interrupted"} : EndRun(r, event)
      PROVE  FALSE
    BY <1>1, <1>4 DEF FinishWatch, Begin, EndRun, Response
<1>5. ASSUME Stop \/ \E gone \in SUBSET Queue : CancelQueued(gone) PROVE FALSE
    BY <1>1, <1>5 DEF Stop, CancelQueued
<1> QED BY <1>1, <1>2, <1>3, <1>4, <1>5 DEF Next, vars

\* The variables keep their types, for any number of calls and failures.
THEOREM TypeCorrect == Spec => []TypeOK
<1>1. IInv => TypeOK
    BY DEF IInv
<1> QED BY <1>1, Invariance, PTL

\* Of everything that is in flight, only what holds #runAbort is not aborted.
THEOREM FollowsOneRun == Spec => []OneInFlight
<1>1. IInv => OneInFlight
    BY DEF IInv
<1> QED BY <1>1, Invariance, PTL

\* The application is told of every run that is known to be created and of its
\* completion, whatever comes first.
THEOREM RunsAreAnnounced == Spec => []Announced
<1>1. IInv => Announced
    BY DEF IInv
<1> QED BY <1>1, Invariance, PTL

\* #drainQueue takes a submission only when whatever is in flight is aborted.
THEOREM DrainsWhenIdle == Spec => QueueWaits
<1>1. ASSUME IInv, [Next]_vars, NEW s \in Submissions, at[s] = "queued", at'[s] = "pump",
             NEW r \in Submissions, InFlight(r)
      PROVE  aborted[r]
    <2>1. DrainQueue
        BY <1>1, OnlyDrainTakes
    <2>2. ~HasActiveRun
        BY <1>1, <2>1 DEF DrainQueue, MayDrain, IInv, TypeOK
    <2> QED BY <1>1, <2>2, SubmissionsAssumption DEF HasActiveRun, IInv, OneInFlight, TypeOK
<1>2. IInv /\ [Next]_vars =>
        [\A s \in Submissions :
          at[s] = "queued" /\ at'[s] = "pump" =>
              \A r \in Submissions : InFlight(r) => aborted[r]]_vars
    BY <1>1
<1> QED BY <1>2, Invariance, PTL DEF Spec, QueueWaits
=============================================================================
