-------------------------- MODULE CodexSessionProofs --------------------------
(***************************************************************************)
(* Proofs about CodexSession for every set of cursors, every page limit,   *)
(* every capacity of the pipe and every number of cancellations.           *)
(***************************************************************************)
EXTENDS CodexSession, TLAPS

-----------------------------------------------------------------------------
(***************************************************************************)
(* Types                                                                   *)
(***************************************************************************)
LEMMA ScriptsAreShort ==
  ASSUME NEW op \in Operation
  PROVE  /\ Len(Script[op]) \in Nat \ {0}
         /\ \A i \in 1..Len(Script[op]) :
              Script[op][i] = "model/list" <=>
                i = Len(Script[op]) /\ op \in {"capture_usage", "get_models"}
         /\ op = "healthcheck" => Len(Script[op]) = 1 /\ Script[op][1] = "initialize"
<1>1. op \in {"capture_usage", "get_models", "inspect_status", "healthcheck"}
  BY DEF Operation, Script
<1>2. CASE op = "capture_usage"
  <2>1. Script[op] = <<"initialize", "account/read", "account/rateLimits/read", "model/list">>
    BY <1>2 DEF Script
  <2>2. /\ Len(Script[op]) = 4
        /\ Script[op][1] = "initialize"
        /\ Script[op][2] = "account/read"
        /\ Script[op][3] = "account/rateLimits/read"
        /\ Script[op][4] = "model/list"
    BY <2>1
  <2> QED
    BY <1>2, <2>2
<1>3. CASE op = "get_models"
  <2>1. Script[op] = <<"initialize", "model/list">>
    BY <1>3 DEF Script
  <2>2. /\ Len(Script[op]) = 2
        /\ Script[op][1] = "initialize"
        /\ Script[op][2] = "model/list"
    BY <2>1
  <2> QED
    BY <1>3, <2>2
<1>4. CASE op = "inspect_status"
  <2>1. Script[op] = <<"initialize", "account/read">>
    BY <1>4 DEF Script
  <2>2. /\ Len(Script[op]) = 2
        /\ Script[op][1] = "initialize"
        /\ Script[op][2] = "account/read"
    BY <2>1
  <2> QED
    BY <1>4, <2>2
<1>5. CASE op = "healthcheck"
  <2>1. Script[op] = <<"initialize">>
    BY <1>5 DEF Script
  <2>2. /\ Len(Script[op]) = 1
        /\ Script[op][1] = "initialize"
    BY <2>1
  <2> QED
    BY <1>5, <2>2
<1> QED
  BY <1>1, <1>2, <1>3, <1>4, <1>5

LEMMA ScriptedMethod ==
  ASSUME TypeOK
  PROVE  /\ Method = "model/list" => operation \in {"capture_usage", "get_models"}
         /\ operation \in {"capture_usage", "get_models"} /\ Method # "model/list"
              => step < Len(Script[operation])
         /\ operation = "healthcheck" => Method = "initialize"
  BY ScriptsAreShort DEF TypeOK, Method

LEMMA LinesAreTyped ==
  ASSUME TypeOK
  PROVE  Lines \subseteq Line
<1>1. Ids \subseteq Nat
  BY DEF Ids
<1>2. Unanswered("notification") \in Line /\ Unanswered("garbage") \in Line
  BY DEF Unanswered, Line
<1>3. ASSUME NEW kind \in {"result", "error"}, NEW id \in Ids
      PROVE  [ kind |-> kind, id |-> id, next |-> NoCursor, valid |-> FALSE ] \in Line
  BY <1>1 DEF Line
<1>4. ASSUME NEW id \in Ids, NEW next \in Cursors \cup {NoCursor}
      PROVE  [ kind |-> "result", id |-> id, next |-> next, valid |-> TRUE ] \in Line
  BY <1>1 DEF Line
<1>5. (IF Method = "model/list" THEN Cursors \cup {NoCursor} ELSE {NoCursor})
        \subseteq Cursors \cup {NoCursor}
  OBVIOUS
<1> QED
  BY <1>2, <1>3, <1>4, <1>5 DEF Lines

LEMMA ClosedFuture ==
  ASSUME TypeOK, NEW cause \in {"eof", "io", "protocol", "reader_failed", "write", "stopped"}, Close(cause)
  PROVE  /\ closed' # "none" /\ closed' \in {"eof", "io", "protocol", "reader_failed", "write", "stopped"}
         /\ closed # "none" => closed' = closed
         /\ pending' = {} /\ future' \in FutureType
         /\ pending # {} \/ Done(future) => Done(future')
         /\ future' = future \/ future'.kind = "transport_error"
<1>1. Unanswered("transport_error").kind = "transport_error" /\ Unanswered("transport_error") \in FutureType
  BY DEF Unanswered, FutureType
<1> QED
  BY <1>1 DEF TypeOK, Close, Done

LEMMA InitTypes == Init => TypeOK
<1> SUFFICES ASSUME Init PROVE TypeOK
  OBVIOUS
<1>1. future \in FutureType
  BY DEF Init, FutureType
<1>2. step \in 1..Len(Script[operation])
  BY ScriptsAreShort DEF Init
<1>3. cancels \in 0..MaxCancels /\ pages \in Seq(Page) /\ wire \in Seq(Line)
  BY SessionBounds DEF Init
<1> QED
  BY <1>1, <1>2, <1>3 DEF Init, TypeOK, Exceptions

LEMMA FinishTypes ==
  ASSUME TypeOK, NEW exception \in Exceptions, Finish(exception)
  PROVE  /\ pc' = "done" /\ raised' \in Exceptions
         /\ result' \in Operation \cup {"none", "unavailable"}
  BY DEF Finish, TypeOK, Exceptions

LEMMA ReaderTypes ==
  ASSUME TypeOK, Reader
  PROVE  TypeOK'
<1>1. CASE ReadLine
  <2>1. wire' \in Seq(Line) /\ Head(wire) \in Line
    BY <1>1 DEF ReadLine, TypeOK
  <2>2. /\ future' \in FutureType /\ pending' \in SUBSET {last_id}
        /\ closed' \in {"none", "eof", "io", "protocol", "reader_failed", "write", "stopped"}
        /\ reader' \in {"running", "ended"}
    BY <1>1, <2>1, ClosedFuture DEF ReadLine, ReaderRuns, TypeOK, FutureType
  <2> QED
    BY <1>1, <2>1, <2>2 DEF ReadLine, TypeOK, walk, outcome
<1>2. CASE ReadEnds
  <2>1. /\ future' \in FutureType /\ pending' \in SUBSET {last_id}
        /\ closed' \in {"none", "eof", "io", "protocol", "reader_failed", "write", "stopped"}
        /\ reader' = "ended"
    BY <1>2, ClosedFuture DEF ReadEnds
  <2> QED
    BY <1>2, <2>1 DEF ReadEnds, TypeOK, walk, process, outcome
<1> QED
  BY <1>1, <1>2 DEF Reader
LEMMA CancellingTypes == TypeOK /\ Cancelling => cancels' \in 0..MaxCancels
  BY SessionBounds DEF TypeOK, Cancelling

LEMMA FinishingTypes ==
  ASSUME TypeOK, StartFails \/ StderrStopped \/ CancelStart \/ CancelStop
  PROVE  TypeOK'
<1>1. pc' = "done" /\ raised' \in Exceptions /\ result' \in Operation \cup {"none", "unavailable"}
  BY FinishTypes DEF StartFails, StderrStopped, CancelStart, CancelStop, Exceptions, TypeOK
<1>2. CASE StartFails
  BY <1>1, <1>2 DEF StartFails, TypeOK, walk, connection, process
<1>3. CASE StderrStopped
  BY <1>1, <1>3 DEF StderrStopped, TypeOK, walk, connection
<1>4. CASE CancelStart \/ CancelStop
  <2>1. /\ UNCHANGED <<operation, step, walk, connection, interrupted, process, leaving>>
        /\ cancels' \in 0..MaxCancels
    BY <1>4, CancellingTypes DEF CancelStart, CancelStop
  <2> QED
    BY <1>1, <2>1 DEF TypeOK, walk, connection, process
<1> QED
  BY <1>2, <1>3, <1>4

LEMMA CallTypes ==
  ASSUME TypeOK, TableFollowsFuture,
         Start \/ RefuseRequest \/ SendRequest \/ DrainFails \/ Drained
           \/ CallTimesOut \/ CancelCall \/ CallFails \/ CancelDrain
  PROVE  TypeOK'
<1>1. /\ Unanswered("pending") \in FutureType /\ Unanswered("cancelled") \in FutureType
  BY DEF FutureType
<1>2. CASE Start
  BY <1>2 DEF Start, TypeOK, walk, outcome
<1>3. CASE RefuseRequest
  BY <1>3 DEF RefuseRequest, Leave, TypeOK, Exceptions, walk, connection, process, outcome
<1>4. CASE SendRequest
  <2>1. pending = {} /\ last_id' \in Nat /\ pending' \in SUBSET {last_id'}
    BY <1>4 DEF SendRequest, TableFollowsFuture, TypeOK
  <2> QED
    BY <1>1, <1>4, <2>1 DEF SendRequest, TypeOK, walk, process, outcome
<1>5. CASE DrainFails
  BY <1>1, <1>5 DEF DrainFails, Leave, TypeOK, Exceptions, walk, process, outcome
<1>6. CASE Drained
  BY <1>6 DEF Drained, TypeOK, walk, connection, process, outcome
<1>7. CASE CallTimesOut \/ CancelCall
  <2>1. /\ interrupted' \in {"timeout", "cancelled"} /\ future' \in FutureType
        /\ cancels' \in 0..MaxCancels
    BY <1>1, <1>7, CancellingTypes DEF CallTimesOut, CancelCall, Interrupt, TypeOK
  <2>2. UNCHANGED <<operation, pc, step, walk, last_id, pending, closed, reader, process,
                    leaving, outcome>>
    BY <1>7 DEF CallTimesOut, CancelCall, Interrupt
  <2> QED
    BY <2>1, <2>2 DEF TypeOK, walk, process, outcome
<1>8. CASE CallFails
  <2>1. pc' = "stop_reading" /\ leaving' \in Exceptions /\ pending' \in SUBSET {last_id}
    BY <1>8 DEF CallFails, Leave, Exceptions, TypeOK
  <2> QED
    BY <1>8, <2>1 DEF CallFails, TypeOK, walk, process, outcome
<1>9. CASE CancelDrain
  BY <1>9, CancellingTypes DEF CancelDrain, Leave, TypeOK, Exceptions, walk, connection, process, outcome
<1> QED
  BY <1>2, <1>3, <1>4, <1>5, <1>6, <1>7, <1>8, <1>9

LEMMA AnswerTypes ==
  ASSUME TypeOK, CallSucceeds \/ PageArrives
  PROVE  TypeOK'
<1>1. future \in Line
  <2>1. future.kind = "result"
    BY DEF CallSucceeds, PageArrives, Answered
  <2>2. \A kind : Unanswered(kind).kind = kind
    BY DEF Unanswered
  <2> QED
    BY <2>1, <2>2 DEF TypeOK, FutureType
<1>2. pending' \in SUBSET {last_id}
  BY DEF CallSucceeds, PageArrives, Answered, TypeOK
<1>3. CASE CallSucceeds
  <2>1. step' \in 1..Len(Script[operation]) /\ pc' \in {"request", "stop_reading"}
        /\ leaving' \in Exceptions
    BY <1>3, ScriptsAreShort DEF CallSucceeds, Leave, TypeOK, Exceptions
  <2> QED
    BY <1>2, <1>3, <2>1 DEF CallSucceeds, Answered, TypeOK, walk, process, outcome
<1>4. CASE PageArrives
  <2>1. [ asked |-> cursor, request |-> last_id, answer |-> future.id, next |-> future.next ] \in Page
    BY <1>1 DEF TypeOK, Page, Line
  <2>2. pages' \in Seq(Page)
    BY <1>4, <2>1 DEF PageArrives, TypeOK, walk
  <2>3. cursor' \in Cursors \cup {NoCursor} /\ seen' \in SUBSET Cursors
    BY <1>1, <1>4 DEF PageArrives, TypeOK, walk, Line
  <2>4. pc' \in {"request", "stop_reading"} /\ leaving' \in Exceptions
    BY <1>4 DEF PageArrives, Leave, TypeOK, Exceptions
  <2> QED
    BY <1>2, <1>4, <2>2, <2>3, <2>4 DEF PageArrives, Answered, TypeOK, process, outcome
<1> QED
  BY <1>3, <1>4

LEMMA TeardownTypes ==
  ASSUME TypeOK, CancelReader \/ ReaderStopped \/ ProcessStopped \/ GraceExpires \/ CancelSwallowed
  PROVE  TypeOK'
<1>1. CASE CancelReader
  BY <1>1 DEF CancelReader, TypeOK, walk, process, outcome
<1>2. CASE ReaderStopped
  <2>1. /\ future' \in FutureType /\ pending' \in SUBSET {last_id}
        /\ closed' \in {"none", "eof", "io", "protocol", "reader_failed", "write", "stopped"}
    BY <1>2, ClosedFuture DEF ReaderStopped, StopPending, TypeOK
  <2>2. reader' \in {"cancelled", "ended"} /\ pc' \in {"stop_stderr", "grace"}
        /\ signals' \in SUBSET {"TERM", "KILL"}
    BY <1>2 DEF ReaderStopped, TypeOK
  <2> QED
    BY <1>2, <2>1, <2>2 DEF ReaderStopped, TypeOK, walk, outcome
<1>3. CASE ProcessStopped
  BY <1>3 DEF ProcessStopped, TypeOK, walk, connection, process, outcome
<1>4. CASE GraceExpires
  BY <1>4 DEF GraceExpires, TypeOK, walk, connection, outcome
<1>5. CASE CancelSwallowed
  BY <1>5, CancellingTypes DEF CancelSwallowed, TypeOK, walk, connection, process, outcome
<1> QED
  BY <1>1, <1>2, <1>3, <1>4, <1>5

LEMMA ServerTypes ==
  ASSUME TypeOK, Server
  PROVE  TypeOK'
<1>1. CASE ServerWrites
  <2>1. wire' \in Seq(Line)
    BY <1>1, LinesAreTyped DEF ServerWrites, TypeOK
  <2> QED
    BY <1>1, <2>1 DEF ServerWrites, TypeOK, walk, connection, outcome
<1>2. CASE ServerExits
  BY <1>2 DEF ServerExits, TypeOK, walk, connection, outcome
<1>3. CASE StderrEnds
  BY <1>3 DEF StderrEnds, TypeOK, walk, connection, outcome
<1> QED
  BY <1>1, <1>2, <1>3 DEF Server

LEMMA NextTypes ==
  ASSUME TypeOK, TableFollowsFuture, [Next]_vars
  PROVE  TypeOK'
<1>1. CASE UNCHANGED vars
  BY <1>1 DEF vars, TypeOK, walk, connection, process, outcome
<1> QED
  BY <1>1, ReaderTypes, FinishingTypes, CallTypes, AnswerTypes, TeardownTypes, ServerTypes
     DEF Next, Provider, Cancel, Finished

-----------------------------------------------------------------------------
(***************************************************************************)
(* The table of requests                                                   *)
(***************************************************************************)
LEMMA UntouchedTable ==
  ASSUME TableFollowsFuture, UNCHANGED <<last_id, pending, future, closed>>,
         pc' \in {"start", "request"} \/ TornDown' => pending = {},
         pc' \in {"drain", "await"} => pc \in {"drain", "await"}
  PROVE  TableFollowsFuture'
  BY DEF TableFollowsFuture, Done

LEMMA ReaderKeepsTable ==
  ASSUME TypeOK, TableFollowsFuture, Reader
  PROVE  TableFollowsFuture'
<1>1. UNCHANGED <<pc, last_id>>
  BY DEF Reader, ReadLine, ReadEnds
<1>2. ASSUME NEW cause \in {"eof", "io", "protocol", "reader_failed"}, Close(cause)
      PROVE  TableFollowsFuture'
  BY <1>1, <1>2, ClosedFuture DEF TableFollowsFuture
<1>3. ASSUME Matches(Head(wire)), future' = Head(wire), UNCHANGED <<pending, closed>>
      PROVE  TableFollowsFuture'
  <2>1. future'.id = last_id /\ Done(future') /\ pending # {}
    BY <1>3 DEF Matches, TypeOK, Done
  <2> QED
    BY <1>1, <1>3, <2>1 DEF TableFollowsFuture, TornDown, Done
<1>4. CASE UNCHANGED <<pending, future, closed>>
  BY <1>1, <1>4 DEF TableFollowsFuture, TornDown, Done
<1> QED
  BY <1>2, <1>3, <1>4 DEF Reader, ReadLine, ReadEnds

LEMMA CallKeepsTable ==
  ASSUME TypeOK, TableFollowsFuture,
         SendRequest \/ DrainFails \/ CallTimesOut \/ CancelCall \/ CallFails
           \/ CallSucceeds \/ PageArrives
  PROVE  TableFollowsFuture'
<1>1. /\ Unanswered("pending").kind = "pending" /\ Unanswered("cancelled").kind = "cancelled"
  BY DEF Unanswered
<1>2. CASE SendRequest
  BY <1>1, <1>2 DEF SendRequest, TableFollowsFuture, TornDown, Done
<1>3. CASE DrainFails
  BY <1>1, <1>3 DEF DrainFails, Leave, TableFollowsFuture, TornDown, Done
<1>4. CASE CallTimesOut \/ CancelCall
  BY <1>1, <1>4 DEF CallTimesOut, CancelCall, Interrupt, TableFollowsFuture, TornDown, Done
<1>5. CASE CallFails
  BY <1>5 DEF CallFails, Leave, TableFollowsFuture, TornDown, Done, TypeOK
<1>6. CASE CallSucceeds \/ PageArrives
  <2>1. /\ Done(future) /\ pending' = {} /\ UNCHANGED <<future, closed, last_id>>
        /\ pc' \in {"request", "stop_reading"}
    BY <1>6 DEF CallSucceeds, PageArrives, Answered, Leave, TypeOK, Done
  <2> QED
    BY <2>1 DEF TableFollowsFuture, TornDown, Done
<1> QED
  BY <1>2, <1>3, <1>4, <1>5, <1>6

LEMMA StoppingKeepsTable ==
  ASSUME TypeOK, TableFollowsFuture, ReaderStopped
  PROVE  TableFollowsFuture'
<1>1. pc' \in {"grace", "stop_stderr"} /\ last_id' = last_id
  BY DEF ReaderStopped
<1>2. CASE Close("stopped")
  BY <1>1, <1>2, ClosedFuture DEF TableFollowsFuture
<1>3. CASE pending = {} /\ UNCHANGED <<pending, future, closed>>
  BY <1>1, <1>3 DEF TableFollowsFuture, Done
<1> QED
  BY <1>2, <1>3 DEF ReaderStopped, StopPending

LEMMA NextKeepsTable ==
  ASSUME TypeOK, TableFollowsFuture, [Next]_vars
  PROVE  TableFollowsFuture'
<1>1. CASE StartFails \/ Start \/ RefuseRequest \/ Drained \/ CancelReader \/ CancelStart
             \/ CancelDrain
  <2>1. /\ UNCHANGED <<last_id, pending, future, closed>>
        /\ \/ pc = "start" /\ pc' \in {"done", "request"}
           \/ pc \in {"request", "drain"} /\ pc' = "stop_reading"
           \/ pc = "drain" /\ pc' = "await"
           \/ pc = "stop_reading" /\ pc' = "await_reader"
    BY <1>1 DEF StartFails, Start, RefuseRequest, Drained, CancelReader, CancelStart, CancelDrain,
                Finish, Leave, connection
  <2> QED
    BY <2>1, UntouchedTable DEF TableFollowsFuture, TornDown
<1>2. CASE ProcessStopped \/ GraceExpires \/ StderrStopped \/ CancelStop
  <2>1. UNCHANGED <<last_id, pending, future, closed>> /\ TornDown /\ TornDown'
    BY <1>2 DEF ProcessStopped, GraceExpires, StderrStopped, CancelStop, Finish, TornDown, connection
  <2> QED
    BY <2>1, UntouchedTable DEF TableFollowsFuture, TornDown
<1>3. CASE CancelSwallowed \/ Server \/ UNCHANGED vars
  <2>1. UNCHANGED <<last_id, pending, future, closed, pc>>
    BY <1>3 DEF CancelSwallowed, Server, ServerWrites, ServerExits, StderrEnds, vars, connection
  <2> QED
    BY <2>1, UntouchedTable DEF TableFollowsFuture, TornDown
<1> QED
  BY <1>1, <1>2, <1>3, ReaderKeepsTable, CallKeepsTable, StoppingKeepsTable
     DEF Next, Provider, Cancel, Finished

-----------------------------------------------------------------------------
(***************************************************************************)
(* The session's tasks and its process                                     *)
(***************************************************************************)
LEMMA UntouchedStages ==
  ASSUME SessionStages, SessionTornDown,
         UNCHANGED <<pc, reader, signals, result, raised, last_id, future, pages, step>>,
         pc = "start" => UNCHANGED <<child, stderr_task>>,
         child = "none" <=> child' = "none",
         child = "exited" => child' = "exited",
         child # "running" => child' # "running",
         stderr_task # "running" => stderr_task' # "running"
  PROVE  SessionStages' /\ SessionTornDown'
  BY DEF SessionStages, SessionTornDown, Walking

\* While the operation walks, its tasks are left alone.
LEMMA WalkingStages ==
  ASSUME SessionStages, pc # "start", pc # "done", pc' \notin {"start", "done"},
         UNCHANGED <<child, stderr_task, signals, result, raised>>,
         Walking \/ pc = "stop_reading",
         \/ (Walking \/ pc = "stop_reading")' /\ reader' \in {"running", "ended"}
         \/ pc' = "await_reader" /\ reader' = "cancelling"
  PROVE  SessionStages' /\ SessionTornDown'
  BY DEF SessionStages, SessionTornDown, Walking

LEMMA FinishedIsTornDown ==
  ASSUME pc' = "done", child' # "none",
         reader' \in {"cancelled", "ended"},
         \/ child' # "running" /\ stderr_task' # "running"
         \/ raised' = "cancelled" /\ "TERM" \in signals'
  PROVE  SessionStages' /\ SessionTornDown'
  BY DEF SessionStages, SessionTornDown, Walking

LEMMA NextKeepsStages ==
  ASSUME TypeOK, SessionStages, SessionTornDown, [Next]_vars
  PROVE  SessionStages' /\ SessionTornDown'
<1>1. CASE StartFails \/ CancelStart
  <2>1. /\ pc = "start" /\ pc' = "done" /\ UNCHANGED <<child, reader, stderr_task>>
    BY <1>1 DEF StartFails, CancelStart, Finish, connection, process
  <2> QED
    BY <2>1 DEF SessionStages, SessionTornDown, Walking
<1>2. CASE Start
  BY <1>2 DEF Start, SessionStages, SessionTornDown, Walking, outcome
<1>3. CASE RefuseRequest \/ SendRequest \/ DrainFails \/ Drained \/ CallTimesOut \/ CancelCall
             \/ CallFails \/ CallSucceeds \/ PageArrives \/ CancelDrain \/ CancelReader
  <2>1. /\ Walking \/ pc = "stop_reading"
        /\ UNCHANGED <<child, stderr_task, signals, result, raised>>
        /\ \/ UNCHANGED reader /\ pc' \in {"request", "drain", "await", "stop_reading"}
           \/ reader' = "cancelling" /\ pc' = "await_reader"
    BY <1>3 DEF RefuseRequest, SendRequest, DrainFails, Drained, CallTimesOut, CancelCall, Interrupt,
                CallFails, CallSucceeds, PageArrives, Answered, CancelDrain, CancelReader, Leave,
                Walking, connection, process, outcome
  <2>2. reader \in {"running", "ended"}
    BY <2>1 DEF SessionStages
  <2> QED
    BY <2>1, <2>2, WalkingStages DEF Walking
<1>4. CASE Reader
  <2>1. /\ UNCHANGED <<pc, child, stderr_task, signals, result, raised>>
        /\ reader = "running" /\ reader' \in {"running", "ended"}
    BY <1>4 DEF Reader, ReadLine, ReadEnds, ReaderRuns, process, outcome
  <2>2. Walking \/ pc = "stop_reading"
    BY <2>1 DEF SessionStages, SessionTornDown, Walking, TypeOK
  <2> QED
    BY <2>1, <2>2, WalkingStages DEF Walking
<1>5. CASE ReaderStopped
  <2>1. /\ UNCHANGED <<child, stderr_task, result, raised>>
        /\ pc \in {"await_reader", "stop_reading"} /\ reader' \in {"cancelled", "ended"}
        /\ \/ child = "exited" /\ pc' = "stop_stderr"
           \/ pc' = "grace" /\ "TERM" \in signals'
    BY <1>5 DEF ReaderStopped, outcome
  <2> QED
    BY <2>1 DEF SessionStages, SessionTornDown, Walking
<1>6. CASE ProcessStopped \/ GraceExpires
  <2>1. /\ UNCHANGED <<child, reader, result, raised>> /\ pc \in {"grace", "killed"}
        /\ \/ pc = "grace" /\ pc' = "killed" /\ signals' = signals \cup {"KILL"}
           \/ child = "exited" /\ pc' = "stop_stderr"
    BY <1>6 DEF ProcessStopped, GraceExpires, connection, process, outcome
  <2> QED
    BY <2>1 DEF SessionStages, SessionTornDown, Walking
<1>7. CASE StderrStopped
  <2>1. /\ child' = child /\ reader' = reader /\ pc = "stop_stderr" /\ pc' = "done"
        /\ stderr_task' # "running"
    BY <1>7 DEF StderrStopped, Finish, connection
  <2> QED
    BY <2>1, FinishedIsTornDown DEF SessionStages
<1>8. CASE CancelStop
  <2>1. /\ UNCHANGED <<child, reader, signals>> /\ pc \in {"grace", "killed"} /\ pc' = "done"
        /\ raised' = "cancelled"
    BY <1>8 DEF CancelStop, Finish, Reports, connection, process
  <2> QED
    BY <2>1, FinishedIsTornDown DEF SessionStages
<1>9. CASE CancelSwallowed \/ Server \/ UNCHANGED vars
  <2>1. UNCHANGED <<pc, reader, signals, result, raised, last_id, future, pages, step>>
    BY <1>9 DEF CancelSwallowed, Server, ServerWrites, ServerExits, StderrEnds, vars, connection, process,
                walk, outcome
  <2>2. /\ child = "none" <=> child' = "none"
        /\ child = "exited" => child' = "exited"
        /\ child # "running" => child' # "running"
        /\ stderr_task # "running" => stderr_task' # "running"
        /\ child = "none" /\ stderr_task = "none" => UNCHANGED <<child, stderr_task>>
    BY <1>9 DEF CancelSwallowed, Server, ServerWrites, ServerExits, StderrEnds, vars, process
  <2> QED
    BY <2>1, <2>2, UntouchedStages DEF SessionStages
<1> QED
  BY <1>1, <1>2, <1>3, <1>4, <1>5, <1>6, <1>7, <1>8, <1>9 DEF Next, Provider, Cancel, Finished

-----------------------------------------------------------------------------
(***************************************************************************)
(* The walk along the cursors                                              *)
(***************************************************************************)
LEMMA UntouchedWalk ==
  ASSUME WalkGoesOn, OneWalk, UNCHANGED walk,
         (Walking \/ pc = "start")' => Walking \/ pc = "start",
         result' \in {"capture_usage", "get_models"} =>
           \/ result' = result
           \/ pages # <<>> /\ pages[Len(pages)].next = NoCursor
  PROVE  WalkGoesOn' /\ OneWalk'
  BY DEF WalkGoesOn, OneWalk, walk, Last

\* The page that arrives is appended to a walk that was going on.
LEMMA PageExtendsWalk ==
  ASSUME TypeOK, TableFollowsFuture, SessionStages, WalkGoesOn, OneWalk, PageArrives
  PROVE  WalkGoesOn' /\ OneWalk'
<1>1. pc = "await" /\ future.kind = "result" /\ result = "none" /\ result' = "none"
  BY DEF PageArrives, Answered, SessionStages, outcome
<1>2. pc' \in {"request", "stop_reading"}
  BY DEF PageArrives, Leave
<1>3. CASE ~future.valid
  BY <1>1, <1>2, <1>3, UntouchedWalk DEF PageArrives, Leave, Walking
<1>4. CASE future.valid
  <2> DEFINE page == [ asked |-> cursor, request |-> last_id, answer |-> future.id,
                       next |-> future.next ]
  <2>1. /\ pages' = Append(pages, page)
        /\ Len(pages) \in Nat /\ Len(pages) < MaxPages
        /\ page.answer = page.request /\ page.asked = cursor /\ page.next = future.next
    BY <1>1, <1>4 DEF PageArrives, TableFollowsFuture, WalkGoesOn, Walking, TypeOK
  <2> HIDE DEF page
  <2>2. /\ Len(pages') = Len(pages) + 1 /\ DOMAIN pages' = 1..(Len(pages) + 1)
        /\ DOMAIN pages = 1..Len(pages)
        /\ \A i \in 1..Len(pages) : pages'[i] = pages[i]
        /\ pages'[Len(pages) + 1] = page
        /\ pages' # <<>>
    BY <2>1 DEF TypeOK
  <2>3. /\ cursor = IF pages = <<>> THEN NoCursor ELSE pages[Len(pages)].next
        /\ cursor \in seen \cup {NoCursor}
        /\ \A i \in DOMAIN pages : pages[i].asked # cursor
        /\ \A i \in DOMAIN pages : pages[i].asked \in seen \cup {NoCursor}
    BY <1>1 DEF WalkGoesOn, Walking
  <2>4. pages = <<>> <=> Len(pages) = 0
    BY DEF TypeOK
  <2>5. OneWalk'
    <3>1. Len(pages') <= MaxPages
      BY <2>1, <2>2, PagesAreLimited
    <3>2. ASSUME NEW i \in DOMAIN pages'
          PROVE  /\ pages'[i].answer = pages'[i].request
                 /\ pages'[i].asked = IF i = 1 THEN NoCursor ELSE pages'[i - 1].next
                 /\ \A j \in 1..(i - 1) : pages'[j].asked # pages'[i].asked
      <4>1. CASE i \in 1..Len(pages)
        <5>1. /\ pages[i].answer = pages[i].request
              /\ pages[i].asked = IF i = 1 THEN NoCursor ELSE pages[i - 1].next
              /\ \A j \in 1..(i - 1) : pages[j].asked # pages[i].asked
          BY <2>2, <4>1 DEF OneWalk
        <5>2. /\ pages'[i] = pages[i]
              /\ i # 1 => pages'[i - 1] = pages[i - 1]
              /\ \A j \in 1..(i - 1) : pages'[j] = pages[j]
          <6>1. i # 1 => i - 1 \in 1..Len(pages)
            BY <2>1, <4>1
          <6>2. 1..(i - 1) \subseteq 1..Len(pages)
            BY <2>1, <4>1
          <6> QED
            BY <2>2, <4>1, <6>1, <6>2
        <5>3. pages'[i].answer = pages'[i].request
          BY <5>1, <5>2
        <5>4. pages'[i].asked = IF i = 1 THEN NoCursor ELSE pages'[i - 1].next
          BY <5>1, <5>2
        <5>5. \A j \in 1..(i - 1) : pages'[j].asked # pages'[i].asked
          BY <5>1, <5>2
        <5> QED
          BY <5>3, <5>4, <5>5
      <4>2. CASE i = Len(pages) + 1
        <5>1. pages'[i] = page /\ page.asked = cursor /\ page.answer = page.request
          BY <2>1, <2>2, <4>2
        <5>2. i # 1 => pages'[i - 1] = pages[Len(pages)] /\ pages # <<>>
          <6>1. i # 1 => i - 1 = Len(pages) /\ Len(pages) \in 1..Len(pages) /\ Len(pages) # 0
            BY <2>1, <4>2
          <6> QED
            BY <2>2, <2>4, <6>1
        <5>3. i = 1 => pages = <<>>
          BY <2>1, <2>4, <4>2
        <5>4. pages'[i].asked = IF i = 1 THEN NoCursor ELSE pages'[i - 1].next
          BY <2>3, <5>1, <5>2, <5>3
        <5>5. \A j \in 1..(i - 1) : pages'[j].asked # pages'[i].asked
          <6>1. \A j \in 1..(i - 1) : j \in DOMAIN pages /\ pages'[j] = pages[j]
            BY <2>1, <2>2, <4>2
          <6> QED
            BY <2>3, <5>1, <6>1
        <5> QED
          BY <5>1, <5>4, <5>5
      <4> QED
        BY <2>1, <2>2, <4>1, <4>2
    <3> QED
      BY <1>1, <3>1, <3>2 DEF OneWalk
  <2>6. /\ seen \subseteq seen'
        /\ pc' = "request" =>
             /\ seen' = seen \cup {future.next} /\ cursor' = future.next
             /\ future.next \notin seen /\ future.next # NoCursor
             /\ Len(pages) + 1 # MaxPages
    BY <1>4 DEF PageArrives, KnownCursor, Leave
  <2>7. \A i \in DOMAIN pages' : pages'[i].asked \in seen \cup {NoCursor}
    BY <2>1, <2>2, <2>3
  <2>8. CASE pc' = "request"
    <3>1. Len(pages') < MaxPages
      BY <2>1, <2>2, <2>6, <2>8, PagesAreLimited
    <3>2. /\ cursor' = pages'[Len(pages')].next /\ cursor' \in seen' \cup {NoCursor}
          /\ \A i \in DOMAIN pages' : pages'[i].asked # cursor'
      BY <2>1, <2>2, <2>6, <2>7, <2>8
    <3> QED
      BY <2>2, <2>5, <2>6, <2>7, <3>1, <3>2 DEF WalkGoesOn
  <2>9. CASE pc' = "stop_reading"
    BY <2>5, <2>6, <2>7, <2>9 DEF WalkGoesOn, Walking
  <2> QED
    BY <1>2, <2>8, <2>9
<1> QED
  BY <1>3, <1>4 DEF TypeOK

LEMMA NextKeepsWalk ==
  ASSUME TypeOK, TableFollowsFuture, SessionStages, WalkGoesOn, OneWalk, LeavesWithReason, [Next]_vars
  PROVE  WalkGoesOn' /\ OneWalk'
<1>1. CASE StartFails \/ CancelStart \/ CancelStop
  <2>1. result' \in {result, "unavailable"} /\ UNCHANGED walk /\ pc' = "done"
    BY <1>1 DEF StartFails, CancelStart, CancelStop, Finish
  <2> QED
    BY <2>1, UntouchedWalk DEF Walking
<1>2. CASE StderrStopped
  <2>1. UNCHANGED walk /\ pc = "stop_stderr" /\ pc' = "done" /\ Finish(leaving)
    BY <1>2 DEF StderrStopped, Finish
  <2>3. result' \in {result, "unavailable"} \/ (leaving = "none" /\ result' = operation)
    BY <2>1 DEF Finish
  <2>2. leaving = "none" /\ operation \in {"capture_usage", "get_models"}
          => pages # <<>> /\ pages[Len(pages)].next = NoCursor
    BY <2>1 DEF LeavesWithReason, Walking
  <2> QED
    BY <2>1, <2>2, <2>3, UntouchedWalk DEF Walking
<1>3. CASE \/ Start \/ RefuseRequest \/ SendRequest \/ DrainFails \/ Drained \/ CallTimesOut
           \/ CancelCall \/ CallFails \/ CallSucceeds \/ CancelDrain
  <2>1. UNCHANGED <<walk, result>> /\ (Walking \/ pc = "start")
    BY <1>3 DEF Start, RefuseRequest, SendRequest, DrainFails, Drained, CallTimesOut, CancelCall,
                Interrupt, CallFails, CallSucceeds, Answered, CancelDrain, Walking, outcome
  <2> QED
    BY <2>1, UntouchedWalk
<1>4. CASE CancelReader \/ ReaderStopped \/ ProcessStopped \/ GraceExpires
  <2>1. UNCHANGED <<walk, result>> /\ pc' \in {"await_reader", "grace", "killed", "stop_stderr"}
    BY <1>4 DEF CancelReader, ReaderStopped, ProcessStopped, GraceExpires, outcome
  <2> QED
    BY <2>1, UntouchedWalk DEF Walking
<1>5. CASE Reader \/ CancelSwallowed \/ Server \/ UNCHANGED vars
  <2>1. UNCHANGED <<walk, result, pc>>
    BY <1>5 DEF Reader, ReadLine, ReadEnds, CancelSwallowed, Server, ServerWrites, ServerExits,
                StderrEnds, vars, outcome
  <2> QED
    BY <2>1, UntouchedWalk DEF Walking
<1> QED
  BY <1>1, <1>2, <1>3, <1>4, <1>5, PageExtendsWalk DEF Next, Provider, Cancel, Finished

-----------------------------------------------------------------------------
(***************************************************************************)
(* Why an operation leaves, and what it reports                            *)
(***************************************************************************)
LEMMA UntouchedReason ==
  ASSUME LeavesWithReason, ProbesAnswer, UNCHANGED <<operation, leaving, pages>>,
         (Walking \/ pc = "start")' => Walking \/ pc = "start",
         Walking \/ pc = "start" => (Walking \/ pc = "start")' \/ pc' = "done",
         pc = "done" => pc' = "done",
         pc' = "done" => pc = "done" /\ raised' = raised
  PROVE  LeavesWithReason' /\ ProbesAnswer'
  BY DEF LeavesWithReason, ProbesAnswer, Walking

\* Leaving with an exception: only a payload, which healthcheck does not look at, is
\* not normal.
LEMMA LeavingWithException ==
  ASSUME operation' = operation, pc' = "stop_reading", leaving' # "none",
         operation = "healthcheck" => leaving' # "normalization"
  PROVE  LeavesWithReason' /\ ProbesAnswer'
  BY DEF LeavesWithReason, ProbesAnswer, Walking

LEMMA AnswerKeepsReason ==
  ASSUME TypeOK, SessionStages, LeavesWithReason, ProbesAnswer, CallSucceeds \/ PageArrives
  PROVE  LeavesWithReason' /\ ProbesAnswer'
<1>1. operation' = operation /\ pc = "await" /\ leaving = "none" /\ Walking
  BY DEF CallSucceeds, PageArrives, Answered, LeavesWithReason, Walking
<1>2. CASE pc' = "request" /\ leaving' = leaving
  BY <1>1, <1>2 DEF LeavesWithReason, ProbesAnswer, Walking
<1>3. CASE CallSucceeds /\ pc' = "stop_reading"
  <2>1. \/ leaving' = "normalization" /\ Method # "initialize"
        \/ leaving' = "none" /\ operation \notin {"capture_usage", "get_models"}
    BY <1>3, ScriptedMethod DEF CallSucceeds, Leave
  <2> QED
    BY <1>1, <1>3, <2>1, ScriptedMethod, LeavingWithException
       DEF LeavesWithReason, ProbesAnswer, Walking
<1>4. CASE PageArrives /\ pc' = "stop_reading"
  <2>1. operation \in {"capture_usage", "get_models"}
    BY <1>4, ScriptedMethod DEF PageArrives
  <2>2. CASE leaving' # "none"
    BY <1>1, <1>4, <2>1, <2>2, LeavingWithException
  <2>3. CASE leaving' = "none"
    <3>1. future.next = NoCursor
      BY <1>4, <2>3 DEF PageArrives, Leave
    <3>2. pages' = Append(pages, [ asked |-> cursor, request |-> last_id, answer |-> future.id,
                                   next |-> future.next ])
      BY <1>4, <2>3 DEF PageArrives, Leave
    <3> DEFINE page == [ asked |-> cursor, request |-> last_id, answer |-> future.id,
                         next |-> future.next ]
    <3>3. page.next = NoCursor
      BY <3>1
    <3> HIDE DEF page
    <3>4. pages' # <<>> /\ pages'[Len(pages')] = page
      BY <3>2 DEF TypeOK, page
    <3> QED
      BY <1>1, <1>4, <2>1, <2>3, <3>3, <3>4 DEF LeavesWithReason, ProbesAnswer, Walking
  <2> QED
    BY <2>2, <2>3
<1>5. \/ pc' = "request" /\ leaving' = leaving
      \/ pc' = "stop_reading"
  BY DEF CallSucceeds, PageArrives, Leave
<1> QED
  BY <1>2, <1>3, <1>4, <1>5

LEMMA FinishKeepsReason ==
  ASSUME TypeOK, SessionStages, LeavesWithReason, ProbesAnswer,
         StartFails \/ StderrStopped \/ CancelStart \/ CancelStop
  PROVE  LeavesWithReason' /\ ProbesAnswer'
<1>1. /\ UNCHANGED <<operation, leaving>> /\ raised = "none"
      /\ \/ Finish("transport") \/ Finish("cancelled")
         \/ Finish(leaving)
  BY DEF StartFails, StderrStopped, CancelStart, CancelStop, SessionStages
<1>2. /\ operation = "healthcheck" => leaving # "normalization"
      /\ leaving \in {"none", "transport", "rpc", "normalization", "cancelled"}
  BY DEF LeavesWithReason, TypeOK, Exceptions
<1>3. ASSUME NEW exception \in {"none", "transport", "rpc", "normalization", "cancelled"},
             operation = "healthcheck" => exception # "normalization", Finish(exception)
      PROVE  /\ pc' = "done"
             /\ operation \in {"inspect_status", "healthcheck"} => raised' \in {"none", "cancelled"}
  BY <1>1, <1>3 DEF Finish, Reports
<1>4. /\ pc' = "done"
      /\ operation \in {"inspect_status", "healthcheck"} => raised' \in {"none", "cancelled"}
  BY <1>1, <1>2, <1>3
<1> QED
  BY <1>1, <1>4 DEF LeavesWithReason, ProbesAnswer, Walking

LEMMA NextKeepsReason ==
  ASSUME TypeOK, SessionStages, LeavesWithReason, ProbesAnswer, [Next]_vars
  PROVE  LeavesWithReason' /\ ProbesAnswer'
<1>1. CASE RefuseRequest \/ DrainFails \/ CallFails \/ CancelDrain
  <2>1. operation' = operation /\ pc' = "stop_reading" /\ leaving' \in {"transport", "rpc", "cancelled"}
    BY <1>1 DEF RefuseRequest, DrainFails, CallFails, CancelDrain, Leave
  <2> QED
    BY <2>1, LeavingWithException
<1>2. CASE Start \/ SendRequest \/ Drained \/ CallTimesOut \/ CancelCall
  <2>1. /\ UNCHANGED <<operation, leaving, pages>>
        /\ pc \in {"start", "request", "drain", "await"} /\ pc' \in {"request", "drain", "await"}
    BY <1>2 DEF Start, SendRequest, Drained, CallTimesOut, CancelCall, Interrupt, walk
  <2> QED
    BY <2>1, UntouchedReason DEF Walking
<1>3. CASE CancelReader \/ ReaderStopped \/ ProcessStopped \/ GraceExpires
  <2>1. /\ UNCHANGED <<operation, leaving, pages>>
        /\ pc \in {"stop_reading", "await_reader", "grace", "killed"}
        /\ pc' \in {"await_reader", "grace", "killed", "stop_stderr"}
    BY <1>3 DEF CancelReader, ReaderStopped, ProcessStopped, GraceExpires, walk
  <2> QED
    BY <2>1, UntouchedReason DEF Walking
<1>4. CASE Reader \/ CancelSwallowed \/ Server \/ UNCHANGED vars
  <2>1. UNCHANGED <<operation, leaving, pages, pc, raised>>
    BY <1>4 DEF Reader, ReadLine, ReadEnds, CancelSwallowed, Server, ServerWrites, ServerExits,
                StderrEnds, vars, walk, outcome
  <2> QED
    BY <2>1, UntouchedReason DEF Walking
<1> QED
  BY <1>1, <1>2, <1>3, <1>4, AnswerKeepsReason, FinishKeepsReason
     DEF Next, Provider, Cancel, Finished

-----------------------------------------------------------------------------
(***************************************************************************)
(* The theorems                                                            *)
(***************************************************************************)
\* The first error stays, and no request is numbered after it.
LEMMA ErrorIsKept ==
  ASSUME TypeOK, [Next]_vars, closed # "none"
  PROVE  closed' = closed /\ last_id' = last_id
<1>1. CASE Reader \/ ReaderStopped
  BY <1>1, ClosedFuture DEF Reader, ReadLine, ReadEnds, ReaderStopped, StopPending
<1>2. CASE Provider /\ ~ReaderStopped
  BY <1>2 DEF Provider, StartFails, Start, RefuseRequest, SendRequest, DrainFails, Drained, CallTimesOut,
              Interrupt, CallFails, CallSucceeds, PageArrives, Answered, CancelReader, ProcessStopped,
              GraceExpires, StderrStopped, connection
<1>3. CASE Cancel \/ Server \/ UNCHANGED vars
  BY <1>3 DEF Cancel, CancelStart, CancelCall, Interrupt, CancelDrain, CancelSwallowed, CancelStop,
              Server, ServerWrites, ServerExits, StderrEnds, vars, connection
<1> QED
  BY <1>1, <1>2, <1>3 DEF Next, Finished

\* A reader that ended by itself has closed the connection.
LEMMA ReaderClosesAtEnd ==
  ASSUME TypeOK, TableFollowsFuture', FailedAtOnce, [Next]_vars
  PROVE  FailedAtOnce'
<1>1. CASE Reader
  BY <1>1, ClosedFuture DEF Reader, ReadLine, ReadEnds, FailedAtOnce, TableFollowsFuture
<1>2. CASE ~Reader
  <2>1. reader' = "ended" => reader = "ended"
    BY <1>2 DEF Next, Provider, Cancel, Server, Finished, StartFails, Start, RefuseRequest, SendRequest,
                DrainFails, Drained, CallTimesOut, CancelCall, Interrupt, CallFails, CallSucceeds,
                PageArrives, Answered, CancelReader, ReaderStopped, ProcessStopped, GraceExpires,
                StderrStopped, CancelStart, CancelDrain, CancelSwallowed, CancelStop, ServerWrites,
                ServerExits, StderrEnds, vars, connection
  <2> QED
    BY <2>1, ErrorIsKept DEF FailedAtOnce, TableFollowsFuture
<1> QED
  BY <1>1, <1>2

\* The inductive invariant holds of every session.
THEOREM SessionIsConsistent == Spec => []SessionInv
<1>1. Init => SessionInv
  <2> SUFFICES ASSUME Init PROVE SessionInv
    OBVIOUS
  <2>1. TypeOK
    BY InitTypes
  <2>2. future.kind = "none"
    BY DEF Init, Unanswered
  <2>3. TableFollowsFuture /\ SessionStages /\ LeavesWithReason
    BY <2>2 DEF Init, TableFollowsFuture, SessionStages, LeavesWithReason, Walking, TornDown, Done
  <2>4. WalkGoesOn /\ OneWalk
    BY PagesAreLimited DEF Init, WalkGoesOn, OneWalk, Walking
  <2>5. FailedAtOnce /\ SessionTornDown /\ NothingLeftPending /\ ProbesAnswer
    BY DEF Init, FailedAtOnce, SessionTornDown, NothingLeftPending, ProbesAnswer
  <2> QED
    BY <2>1, <2>3, <2>4, <2>5 DEF SessionInv
<1>2. SessionInv /\ [Next]_vars => SessionInv'
  <2> SUFFICES ASSUME SessionInv, [Next]_vars PROVE SessionInv'
    OBVIOUS
  <2>1. TypeOK' /\ TableFollowsFuture'
    BY NextTypes, NextKeepsTable DEF SessionInv
  <2>2. SessionStages' /\ SessionTornDown'
    BY NextKeepsStages DEF SessionInv
  <2>3. WalkGoesOn' /\ OneWalk'
    BY NextKeepsWalk DEF SessionInv
  <2>4. LeavesWithReason' /\ ProbesAnswer'
    BY NextKeepsReason DEF SessionInv
  <2>5. FailedAtOnce'
    BY <2>1, ReaderClosesAtEnd DEF SessionInv
  <2>6. NothingLeftPending'
    BY <2>1 DEF TableFollowsFuture, NothingLeftPending, TornDown
  <2> QED
    BY <2>1, <2>2, <2>3, <2>4, <2>5, <2>6 DEF SessionInv
<1> QED
  BY <1>1, <1>2, PTL DEF Spec

\* A dead connection strands nobody, whatever killed it.
THEOREM DeadConnectionFailsCalls == Spec => []FailedAtOnce
<1>1. SessionInv => FailedAtOnce
  BY DEF SessionInv
<1> QED
  BY <1>1, SessionIsConsistent, PTL

\* The pages are one walk along the server's cursors, however long, and a capture or a
\* list that is returned has followed it to its end.
THEOREM PagesAreOneWalk == Spec => []OneWalk
<1>1. SessionInv => OneWalk
  BY DEF SessionInv
<1> QED
  BY <1>1, SessionIsConsistent, PTL

\* An operation that is over has torn its session down, but for one cancelled wait.
THEOREM SessionEndsWithCall == Spec => []SessionTornDown
<1>1. SessionInv => SessionTornDown
  BY DEF SessionInv
<1> QED
  BY <1>1, SessionIsConsistent, PTL

\* No request of a finished operation is left in the table.
THEOREM TableIsEmptied == Spec => []NothingLeftPending
<1>1. SessionInv => NothingLeftPending
  BY DEF SessionInv
<1> QED
  BY <1>1, SessionIsConsistent, PTL

\* inspect_status and healthcheck do not raise.
THEOREM ProbesNeverRaise == Spec => []ProbesAnswer
<1>1. SessionInv => ProbesAnswer
  BY DEF SessionInv
<1> QED
  BY <1>1, SessionIsConsistent, PTL

\* The first error is final: every later request gets it, and none is sent.
THEOREM ConnectionClosesOnce == Spec => ClosedForGood
<1>1. SessionInv /\ [Next]_vars
        => [closed # "none" => closed' = closed /\ last_id' = last_id]_vars
  BY ErrorIsKept DEF SessionInv
<1> QED
  BY <1>1, SessionIsConsistent, PTL DEF Spec, ClosedForGood
=============================================================================
