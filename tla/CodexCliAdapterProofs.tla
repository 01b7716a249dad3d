------------------------ MODULE CodexCliAdapterProofs ------------------------
(***************************************************************************)
(* Proofs about CodexCliAdapter for every set of output pipes and every    *)
(* number of cancellations.                                                *)
(***************************************************************************)
EXTENDS CodexCliAdapter, TLAPS

LEMMA InitCleanup == Init => CleanupInv
<1> SUFFICES ASSUME Init PROVE CleanupInv
  OBVIOUS
<1>1. TypeOK
  <2>1. /\ readers \in [ Streams -> {"none", "reading", "eof", "failed", "cancelled"} ]
        /\ cancels \in 0..MaxCancels
    BY CancelsAreBounded DEF Init
  <2> QED
    BY <2>1 DEF Init, TypeOK, Ending, Unsent
<1>2. /\ ChildFollowsCall /\ SignalsAreOfCleanup /\ CollectsAnEnding
      /\ CancellationIsKept
      /\ ReturnsClean /\ SuccessIsTheChildsOwn
  BY DEF Init, ChildFollowsCall, SignalsAreOfCleanup, CollectsAnEnding, CancellationIsKept, ReturnsClean,
         SuccessIsTheChildsOwn
<1> QED
  BY <1>1, <1>2 DEF CleanupInv

-----------------------------------------------------------------------------
(***************************************************************************)
(* What the call's own steps do to the process and its readers: nothing    *)
(* but start them.                                                         *)
(***************************************************************************)
LEMMA ResultsAreTyped ==
  ASSUME NEW status \in {"succeeded", "failed", "cancelled"},
         NEW failure \in {"none", "execution_environment", "transport", "timeout",
                          "user_cancelled", "authentication", "quota", "agent_error"},
         NEW code \in {"unset", "zero", "nonzero"},
         Return(status, failure, code)
  PROVE  /\ result' \in ResultType /\ result' # Nothing /\ result'.status = status
         /\ pc' = "done" /\ raised' = raised
<1>1. "status" \in DOMAIN result' /\ "status" \notin DOMAIN Nothing
  BY DEF Return, Nothing
<1> QED
  BY <1>1 DEF Return, ResultType

LEMMA SpawnFailsKeeps ==
  ASSUME CleanupInv, SpawnFails
  PROVE  CleanupInv'
<1>1. /\ result' \in ResultType /\ result' # Nothing /\ result'.status = "failed"
      /\ pc' = "done" /\ raised' = raised
  BY ResultsAreTyped DEF SpawnFails
<1>2. TypeOK'
  BY <1>1 DEF CleanupInv, TypeOK, SpawnFails, process
<1>3. /\ child = "none" /\ \A s \in Streams : readers[s] = "none"
      /\ pc = "spawn" /\ signals = {} /\ ending = "none"
      /\ ~(cancels > 0)
  BY DEF SpawnFails, CleanupInv, ChildFollowsCall, SignalsAreOfCleanup, CancellationIsKept
<1>4. UNCHANGED <<ending, pending, process, readers, signals, cancels>>
  BY DEF SpawnFails
<1> QED
  BY <1>1, <1>2, <1>3, <1>4
     DEF CleanupInv, ChildFollowsCall, SignalsAreOfCleanup, CollectsAnEnding, CancellationIsKept,
         ReturnsClean, SuccessIsTheChildsOwn, process

LEMMA SpawnKeeps ==
  ASSUME CleanupInv, Spawn
  PROVE  CleanupInv'
<1>1. TypeOK'
  BY DEF CleanupInv, TypeOK, Spawn, Unsent
<1> QED
  BY <1>1 DEF CleanupInv, Spawn, ChildFollowsCall, SignalsAreOfCleanup, CollectsAnEnding,
              CancellationIsKept,
              ReturnsClean, SuccessIsTheChildsOwn

\* A step of the call that returns nothing and leaves the process and readers alone.
LEMMA WaitingStepKeeps ==
  ASSUME CleanupInv, result = Nothing, pc # "spawn", pc' # "spawn",
         UNCHANGED <<process, result>>,
         TypeOK',
         pc' = "collect" => child = "exited",
         SignalsAreOfCleanup', CollectsAnEnding', CancellationIsKept'
  PROVE  CleanupInv'
  BY DEF CleanupInv, ChildFollowsCall, ReturnsClean, SuccessIsTheChildsOwn, process

\* Before the end there is no result.
LEMMA NoResultYet ==
  ASSUME CleanupInv, pc # "done"
  PROVE  result = Nothing
  BY DEF CleanupInv, ChildFollowsCall

\* The first steps of a cleanup, whatever started it.
LEMMA StopOutcome ==
  ASSUME CleanupInv, NEW why \in {"timeout", "cancelled", "transport"}, Stop(why)
  PROVE  /\ pc' \in {"grace", "collect"} /\ ending' = why /\ ending' \in Ending
         /\ signals' \in SUBSET {"TERM", "KILL"}
         /\ pc' = "collect" => child = "exited"
  BY DEF Stop, CleanupInv, TypeOK, Ending

LEMMA StdinKeeps ==
  ASSUME CleanupInv, StdinDrained \/ StdinBreaks \/ StdinClosed
  PROVE  CleanupInv'
<1>1. CASE StdinDrained \/ StdinBreaks
  <2>1. /\ pc = "drain_stdin" /\ pc' = "close_stdin"
        /\ pending' \in {"none", "broken_pipe"}
        /\ UNCHANGED <<ending, process, readers, signals, cancels, result, raised>>
    BY <1>1 DEF StdinDrained, StdinBreaks, CloseStdin
  <2>2. TypeOK'
    BY <2>1 DEF CleanupInv, TypeOK, process
  <2>3. SignalsAreOfCleanup' /\ CollectsAnEnding' /\ CancellationIsKept'
    BY <2>1 DEF CleanupInv, SignalsAreOfCleanup, CollectsAnEnding, CancellationIsKept, process
  <2> QED
    BY <2>1, <2>2, <2>3, NoResultYet, WaitingStepKeeps
<1>2. CASE StdinClosed
  <2>1. /\ pc = "close_stdin"
        /\ UNCHANGED <<pending, process, readers, cancels, result, raised>>
        /\ \/ pending = "none" /\ pc' = "wait" /\ UNCHANGED <<ending, signals>>
           \/ pending = "broken_pipe" /\ Stop("transport")
           \/ pending = "cancelled" /\ Stop("cancelled")
    BY <1>2 DEF StdinClosed, CleanupInv, TypeOK
  <2>2. CASE pending = "none" /\ pc' = "wait" /\ UNCHANGED <<ending, signals>>
    <3>1. TypeOK'
      BY <2>1, <2>2 DEF CleanupInv, TypeOK, process
    <3>2. SignalsAreOfCleanup' /\ CollectsAnEnding' /\ CancellationIsKept'
      BY <2>1, <2>2 DEF CleanupInv, SignalsAreOfCleanup, CollectsAnEnding, CancellationIsKept, process
    <3> QED
      BY <2>1, <2>2, <3>1, <3>2, NoResultYet, WaitingStepKeeps
  <2>3. CASE \/ pending = "broken_pipe" /\ Stop("transport")
             \/ pending = "cancelled" /\ Stop("cancelled")
    <3>1. /\ pc' \in {"grace", "collect"} /\ ending' \in {"transport", "cancelled"}
          /\ ending' \in Ending
          /\ signals' \in SUBSET {"TERM", "KILL"}
          /\ pc' = "collect" => child = "exited"
          /\ pending = "cancelled" => ending' = "cancelled"
      BY <2>3, StopOutcome
    <3>2. TypeOK'
      BY <2>1, <3>1 DEF CleanupInv, TypeOK, process
    <3>3. SignalsAreOfCleanup' /\ CollectsAnEnding' /\ CancellationIsKept'
      BY <2>1, <3>1 DEF CleanupInv, SignalsAreOfCleanup, CollectsAnEnding, CancellationIsKept
    <3> QED
      BY <2>1, <3>1, <3>2, <3>3, NoResultYet, WaitingStepKeeps
  <2> QED
    BY <2>1, <2>2, <2>3
<1> QED
  BY <1>1, <1>2

LEMMA WaitKeeps ==
  ASSUME CleanupInv, ProcessEnded \/ TimesOut \/ StoppedInGrace \/ GraceExpires
  PROVE  CleanupInv'
<1>1. /\ pc \in {"wait", "grace", "killed"}
      /\ UNCHANGED <<pending, process, readers, cancels, result, raised>>
  BY DEF ProcessEnded, TimesOut, StoppedInGrace, GraceExpires
<1>2. /\ pc' \in {"grace", "killed", "collect"}
      /\ ending' \in Ending
      /\ signals' \in SUBSET {"TERM", "KILL"}
      /\ pc' = "collect" => child = "exited"
      /\ pc = "wait" \/ ending' = ending
      /\ ending' # "none"
      /\ pc' \in {"grace", "killed"} => ending' # "exit"
      /\ ending' = "exit" => signals' = {} /\ child = "exited"
  <2>1. CASE ProcessEnded
    BY <2>1 DEF ProcessEnded, Ending, CleanupInv, SignalsAreOfCleanup, TypeOK
  <2>2. CASE TimesOut
    BY <2>2, StopOutcome DEF TimesOut
  <2>3. CASE StoppedInGrace
    BY <2>3 DEF StoppedInGrace, CleanupInv, TypeOK, SignalsAreOfCleanup, CollectsAnEnding
  <2>4. CASE GraceExpires
    <3>1. ending # "exit"
      BY <2>4 DEF GraceExpires, CleanupInv, SignalsAreOfCleanup
    <3> QED
      BY <2>4, <3>1 DEF GraceExpires, CleanupInv, TypeOK, CollectsAnEnding
  <2> QED
    BY <2>1, <2>2, <2>3, <2>4
<1>3. TypeOK'
  BY <1>1, <1>2 DEF CleanupInv, TypeOK, process
<1>4. SignalsAreOfCleanup' /\ CollectsAnEnding' /\ CancellationIsKept'
  BY <1>1, <1>2 DEF CleanupInv, SignalsAreOfCleanup, CollectsAnEnding, CancellationIsKept, process
<1> QED
  BY <1>1, <1>2, <1>3, <1>4, NoResultYet, WaitingStepKeeps

LEMMA CollectedKeeps ==
  ASSUME CleanupInv, Collected
  PROVE  CleanupInv'
<1>1. /\ pc = "collect" /\ child = "exited" /\ result = Nothing
      /\ \A s \in Streams : readers[s] # "reading"
      /\ UNCHANGED <<ending, pending, process, readers, signals, cancels>>
  BY NoResultYet DEF Collected, ReadersEnded, CleanupInv, ChildFollowsCall
<1>2. PICK status \in {"succeeded", "failed", "cancelled"},
           failure \in {"none", "execution_environment", "transport", "timeout",
                        "user_cancelled", "authentication", "quota", "agent_error"},
           code \in {"unset", "zero", "nonzero"} :
        /\ Return(status, failure, code)
        /\ ending = "cancelled" => status = "cancelled"
        /\ status = "succeeded" => ending = "exit" /\ ~ReadFailed /\ exit_code = "zero"
  <2>1. /\ Classify \in {"authentication", "quota", "agent_error"}
        /\ exit_code \in {"unset", "zero", "nonzero"} /\ ending \in Ending
    BY DEF Classify, CleanupInv, TypeOK
  <2>2. CASE ending \in {"timeout", "cancelled", "transport"}
    BY <2>2 DEF Collected
  <2>3. CASE ending = "exit"
    BY <2>1, <2>3 DEF Collected
  <2>4. ending # "none"
    BY <1>1 DEF CleanupInv, CollectsAnEnding
  <2> QED
    BY <2>1, <2>2, <2>3, <2>4 DEF Ending
<1>3. /\ result' \in ResultType /\ result' # Nothing /\ result'.status = status
      /\ pc' = "done" /\ raised' = raised
  BY <1>2, ResultsAreTyped
<1>4. TypeOK'
  BY <1>1, <1>3 DEF CleanupInv, TypeOK, process
<1>5. ChildFollowsCall' /\ SignalsAreOfCleanup' /\ CollectsAnEnding'
  BY <1>1, <1>3 DEF CleanupInv, ChildFollowsCall, SignalsAreOfCleanup, CollectsAnEnding, process
<1>6. CancellationIsKept'
  BY <1>1, <1>2, <1>3 DEF CleanupInv, CancellationIsKept
<1>7. ReturnsClean'
  BY <1>1 DEF ReturnsClean, process
<1>8. SuccessIsTheChildsOwn'
  BY <1>1, <1>2, <1>3 DEF CleanupInv, SignalsAreOfCleanup, SuccessIsTheChildsOwn, ReadFailed,
                          process
<1> QED
  BY <1>4, <1>5, <1>6, <1>7, <1>8 DEF CleanupInv

-----------------------------------------------------------------------------
\* Cancelling the calling task, at whatever await.
LEMMA CancelKeeps ==
  ASSUME CleanupInv, Cancel
  PROVE  CleanupInv'
<1>1. /\ cancels' \in 0..MaxCancels /\ UNCHANGED process
      /\ pc # "done" /\ result = Nothing
  <2>1. Cancelling /\ pc # "done"
    BY DEF Cancel, CancelSpawn, CancelDrain, CancelWait, CancelTimeoutCleanup, CancelCleanup
  <2> QED
    BY <2>1, CancelsAreBounded, NoResultYet DEF Cancelling, CleanupInv, TypeOK
<1>2. CASE CancelSpawn \/ CancelCleanup
  <2>1. /\ pc' = "done" /\ raised' = "cancelled" /\ result' = result
        /\ UNCHANGED <<ending, pending, signals>>
        /\ readers' \in {readers, ReadersCancelled}
    BY <1>2 DEF CancelSpawn, CancelCleanup, Raise
  <2>2. readers' \in [ Streams -> {"none", "reading", "eof", "failed", "cancelled"} ]
    BY <2>1 DEF CleanupInv, TypeOK, ReadersCancelled
  <2>3. TypeOK'
    BY <1>1, <2>1, <2>2 DEF CleanupInv, TypeOK, process
  <2> QED
    BY <1>1, <2>1, <2>3 DEF CleanupInv, ChildFollowsCall, SignalsAreOfCleanup, CollectsAnEnding,
                            CancellationIsKept, ReturnsClean, SuccessIsTheChildsOwn, process
<1>3. CASE CancelDrain
  <2>1. /\ pc = "drain_stdin" /\ pc' = "close_stdin" /\ pending' = "cancelled"
        /\ UNCHANGED <<ending, readers, signals, result, raised>>
    BY <1>3 DEF CancelDrain, CloseStdin
  <2>2. TypeOK'
    BY <1>1, <2>1 DEF CleanupInv, TypeOK, process
  <2>3. SignalsAreOfCleanup' /\ CollectsAnEnding' /\ CancellationIsKept'
    BY <1>1, <2>1 DEF CleanupInv, SignalsAreOfCleanup, CollectsAnEnding, CancellationIsKept, process
  <2> QED
    BY <1>1, <2>1, <2>2, <2>3, WaitingStepKeeps
<1>4. CASE CancelWait \/ CancelTimeoutCleanup
  <2>1. /\ pc # "spawn" /\ Stop("cancelled")
        /\ UNCHANGED <<pending, result, raised>>
        /\ readers' \in {readers, ReadersCancelled}
    BY <1>4 DEF CancelWait, CancelTimeoutCleanup
  <2>2. /\ pc' \in {"grace", "collect"} /\ ending' = "cancelled" /\ ending' \in Ending
        /\ signals' \in SUBSET {"TERM", "KILL"}
        /\ pc' = "collect" => child = "exited"
    BY <2>1, StopOutcome
  <2>3. readers' \in [ Streams -> {"none", "reading", "eof", "failed", "cancelled"} ]
    BY <2>1 DEF CleanupInv, TypeOK, ReadersCancelled
  <2>4. TypeOK'
    BY <1>1, <2>1, <2>2, <2>3 DEF CleanupInv, TypeOK, process
  <2>5. SignalsAreOfCleanup' /\ CollectsAnEnding' /\ CancellationIsKept'
    BY <1>1, <2>2 DEF SignalsAreOfCleanup, CollectsAnEnding, CancellationIsKept
  <2> QED
    BY <1>1, <2>1, <2>2, <2>4, <2>5, WaitingStepKeeps
<1> QED
  BY <1>2, <1>3, <1>4 DEF Cancel

-----------------------------------------------------------------------------
\* The readers and the child act beside the call: they only ever end.
LEMMA ReadersKeep ==
  ASSUME CleanupInv, NEW s \in Streams, ReaderEnds(s) \/ ReaderFails(s)
  PROVE  CleanupInv'
<1>1. /\ readers[s] = "reading"
      /\ \E end \in {"eof", "failed"} : readers' = [readers EXCEPT ![s] = end]
      /\ UNCHANGED <<adapter, process>>
  BY DEF ReaderEnds, ReaderFails
<1>2. readers \in [ Streams -> {"none", "reading", "eof", "failed", "cancelled"} ]
  BY DEF CleanupInv, TypeOK
<1>3. readers' \in [ Streams -> {"none", "reading", "eof", "failed", "cancelled"} ]
  BY <1>1, <1>2
<1>4. TypeOK'
  BY <1>1, <1>3 DEF CleanupInv, TypeOK, adapter, process
<1>5. \A t \in Streams : readers[t] # "reading" => readers'[t] = readers[t]
  BY <1>1, <1>2
<1>6. ~ \A t \in Streams : readers[t] \in {"none", "eof"}
  BY <1>1
<1> QED
  BY <1>1, <1>4, <1>5, <1>6
     DEF CleanupInv, ChildFollowsCall, SignalsAreOfCleanup, CollectsAnEnding,
         CancellationIsKept, ReturnsClean, SuccessIsTheChildsOwn, adapter, process

LEMMA ChildKeeps ==
  ASSUME CleanupInv, Child
  PROVE  CleanupInv'
<1>1. UNCHANGED <<adapter, readers>>
  BY DEF Child, ChildReads, ChildClosesStdin, ChildForks, ChildExits, DescendantEnds
<1>2. TypeOK'
  <2>1. /\ child' \in {"none", "running", "exited"}
        /\ exit_code' \in {"unset", "zero", "nonzero"}
        /\ markers' \in SUBSET Marker /\ unsent' \in Unsent
    BY DEF CleanupInv, TypeOK, Child, ChildReads, ChildClosesStdin, ChildForks,
           ChildExits, DescendantEnds, Unsent
  <2>2. broken' \in BOOLEAN /\ descendant' \in BOOLEAN
    BY DEF CleanupInv, TypeOK, Child, ChildReads, ChildClosesStdin, ChildForks,
           ChildExits, DescendantEnds
  <2> QED
    BY <1>1, <2>1, <2>2 DEF CleanupInv, TypeOK, adapter
<1>3. \/ child' = child /\ exit_code' = exit_code
      \/ child = "running" /\ child' = "exited"
  BY DEF Child, ChildReads, ChildClosesStdin, ChildForks, ChildExits, DescendantEnds
<1>4. child = "running" => result = Nothing \/ ~(result.status = "succeeded")
  BY DEF CleanupInv, ReturnsClean
<1> QED
  BY <1>1, <1>2, <1>3, <1>4
     DEF CleanupInv, ChildFollowsCall, SignalsAreOfCleanup, CollectsAnEnding,
         CancellationIsKept, ReturnsClean, SuccessIsTheChildsOwn, adapter

LEMMA NextCleanup == CleanupInv /\ [Next]_vars => CleanupInv'
<1> SUFFICES ASSUME CleanupInv, [Next]_vars PROVE CleanupInv'
  OBVIOUS
<1>1. CASE UNCHANGED vars
  BY <1>1 DEF vars, CleanupInv, TypeOK, ChildFollowsCall, SignalsAreOfCleanup,
     CollectsAnEnding, CancellationIsKept, ReturnsClean, SuccessIsTheChildsOwn
<1>2. CASE Adapter
  BY <1>2, SpawnFailsKeeps, SpawnKeeps, StdinKeeps, WaitKeeps, CollectedKeeps DEF Adapter
<1> QED
  BY <1>1, <1>2, CancelKeeps, ReadersKeep, ChildKeeps DEF Next, Readers, Finished

-----------------------------------------------------------------------------
\* The inductive invariant of one adapter call.
THEOREM CleanupIsInductive == Spec => []CleanupInv
  BY InitCleanup, NextCleanup, PTL DEF Spec

\* A call that returns a result leaves no running child and no running reader behind,
\* whatever the child did and however often the task was cancelled.
THEOREM ReturnedCallIsClean == Spec => []ReturnsClean
<1>1. CleanupInv => ReturnsClean
  BY DEF CleanupInv
<1> QED
  BY <1>1, CleanupIsInductive, PTL

\* A success is reported of a child that exited with zero by itself and whose output
\* was read to its end.
THEOREM SuccessIsGenuine == Spec => []SuccessIsTheChildsOwn
<1>1. CleanupInv => SuccessIsTheChildsOwn
  BY DEF CleanupInv
<1> QED
  BY <1>1, CleanupIsInductive, PTL

\* A cancelled call never ends as anything else than cancelled.
THEOREM CancelledEndsCancelled == Spec => []CancellationWins
<1>1. CleanupInv => CancellationWins
  BY DEF CleanupInv, CancellationIsKept, CancellationWins
<1> QED
  BY <1>1, CleanupIsInductive, PTL
=============================================================================
