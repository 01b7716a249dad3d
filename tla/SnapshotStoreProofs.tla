-------------------------- MODULE SnapshotStoreProofs --------------------------
(***************************************************************************)
(* Proofs about SnapshotStore for any number of saves and reads, whatever  *)
(* the number of rows of a snapshot.                                       *)
(***************************************************************************)
EXTENDS SnapshotStore, TLAPS

-----------------------------------------------------------------------------
(***************************************************************************)
(* Types                                                                   *)
(***************************************************************************)
\* What follows which statement, place by place.
LEMMA WhatFollows ==
  ASSUME NEW c \in Calls, at[c] \in Inner
  PROVE  /\ at[c] = "connect" => Following(c) = "begin_schema"
         /\ at[c] = "begin_schema" => Following(c) = "inspect"
         /\ at[c] = "inspect" /\ result[c] = "empty" => Following(c) = "create"
         /\ at[c] = "inspect" /\ result[c] # "empty" => Following(c) = "commit_schema"
         /\ at[c] = "create" => Following(c) = "version"
         /\ at[c] = "version" => Following(c) = "commit_schema"
         /\ at[c] = "commit_schema" /\ c \in Savers => Following(c) = "begin"
         /\ at[c] = "commit_schema" /\ c \notin Savers => Following(c) = "select"
         /\ at[c] = "begin" => Following(c) = "parent"
         /\ at[c] \in {"parent", "child"} /\ txn[c].children < Samples => Following(c) = "child"
         /\ at[c] \in {"parent", "child"} /\ ~(txn[c].children < Samples) =>
              Following(c) = "commit"
         /\ at[c] = "select" => Following(c) = "fetch"
<1>1. /\ Order["connect"] = "begin_schema"
      /\ Order["begin_schema"] = "inspect"
      /\ Order["create"] = "version"
      /\ Order["version"] = "commit_schema"
      /\ Order["begin"] = "parent"
      /\ Order["select"] = "fetch"
  BY DEF Order
<1> QED
  BY <1>1 DEF Following, RowsFrom, Inner

LEMMA FollowsAStatement ==
  ASSUME NEW c \in Calls, at[c] \in Inner
  PROVE  Following(c) \in Statements
BY WhatFollows DEF Inner, Statements, SchemaPlaces, BodyPlaces, WritePlaces, ReadPlaces

LEMMA InitTypes == Init => TypeOK
BY DEF Init, TypeOK, NoWrites, Awaited, Answers, Ends, Errors, Calls

LEMMA RunTypes ==
  ASSUME TypeOK, NEW c \in Calls, Run(c),
         RunCommit(c) => txn[c].schema # "unversioned" /\ (txn[c].parent => c \in Savers)
  PROVE  TypeOK'
<1> USE DEF TypeOK, Runs, Deliver, Answers, Calls, database, locks, task
<1>0. UNCHANGED <<at, verdict, outcome, closing, abandoned, faulty>>
  BY DEF Run
<1>1. CASE RunPlain(c)
  BY <1>0, <1>1 DEF RunPlain
<1>2. CASE RunBeginSchema(c)
  BY <1>0, <1>2 DEF RunBeginSchema
<1>3. CASE RunInspect(c)
  BY <1>0, <1>3 DEF RunInspect
<1>4. CASE RunCreate(c)
  <2>1. CASE schema = "empty"
    <3>1. /\ Write(c, "unversioned", txn[c].parent, txn[c].children)
          /\ Deliver(c, "ok")
          /\ Runs(c, "create")
          /\ UNCHANGED <<database, shared, rowid, saw>>
      BY <1>4, <2>1 DEF RunCreate
    <3> QED
      BY <1>0, <3>1 DEF Write
  <2>2. CASE schema # "empty"
    BY <1>0, <1>4, <2>2 DEF RunCreate
  <2> QED
    BY <2>1, <2>2
<1>5. CASE RunVersion(c)
  BY <1>0, <1>5 DEF RunVersion, Write
<1>6. CASE c \in Savers /\ RunParent(c)
  <2>1. Len(history) + 1 \in Nat
    OBVIOUS
  <2> QED
    BY <1>0, <1>6, <2>1 DEF RunParent, Write
<1>7. CASE c \in Savers /\ RunChild(c)
  BY <1>0, <1>7 DEF RunChild, Write
<1>8. CASE RunRollback(c)
  BY <1>0, <1>8 DEF RunRollback, Release, NoWrites
<1>9. CASE c \in Readers /\ RunSelect(c)
  BY <1>0, <1>9 DEF RunSelect
<1>10. CASE c \in Readers /\ RunFetch(c)
  BY <1>0, <1>10 DEF RunFetch
<1>11. CASE RunCommit(c) /\ txn[c].schema # "unversioned" /\ (txn[c].parent => c \in Savers)
  <2>1. history' \in Seq(Savers) /\ samples' \in [Savers -> Nat]
    BY <1>11 DEF RunCommit
  <2>2. schema' \in {"empty", "v1", "other"}
    BY <1>11 DEF RunCommit
  <2>3. txn' \in [Calls -> [schema : {"unchanged", "unversioned", "v1"}, parent : BOOLEAN,
                            children : Nat]]
    BY <1>11 DEF RunCommit, Release, NoWrites
  <2> QED
    BY <1>0, <1>11, <2>1, <2>2, <2>3 DEF RunCommit, Release
<1> QED
  BY <1>1, <1>2, <1>3, <1>4, <1>5, <1>6, <1>7, <1>8, <1>9, <1>10, <1>11 DEF Run

LEMMA TaskTypes ==
  ASSUME TypeOK, NEW c \in Calls, Start(c) \/ TaskStep(c) \/ (c \in Savers /\ RefuseSnapshot(c)),
         Closed(c) => verdict[c] # "none"
  PROVE  TypeOK'
<1> USE DEF TypeOK, Calls, database, locks, task, TaskOnly, Await, AwaitClose, Settle, Decide,
            Ends, Errors, Awaited, Answers
<1>1. CASE c \in Savers /\ RefuseSnapshot(c)
  BY <1>1 DEF RefuseSnapshot
<1>2. CASE Start(c)
  BY <1>2 DEF Start, Statements
<1>3. CASE Proceed(c)
  BY <1>3, FollowsAStatement DEF Proceed
<1>4. CASE Succeed(c)
  BY <1>4 DEF Succeed
<1>5. CASE ConnectFails(c)
  BY <1>5 DEF ConnectFails
<1>6. CASE SchemaFails(c)
  BY <1>6 DEF SchemaFails, Statements, SchemaPlaces
<1>7. CASE WriteFails(c)
  BY <1>7 DEF WriteFails, Statements, BodyPlaces
<1>8. CASE ReadFails(c)
  BY <1>8 DEF ReadFails
<1>9. CASE RolledBack(c)
  BY <1>9 DEF RolledBack
<1>10. CASE Closed(c) /\ verdict[c] # "none"
  BY <1>10 DEF Closed
<1> QED
  BY <1>1, <1>2, <1>3, <1>4, <1>5, <1>6, <1>7, <1>8, <1>9, <1>10 DEF TaskStep

LEMMA OtherTypes ==
  ASSUME TypeOK, NEW c \in Calls,
         \/ Fault(c) \/ RunClose(c) \/ CancelOpening(c) \/ CancelBody(c) \/ CancelClose(c)
         \/ Collect(c) \/ Kill(c)
  PROVE  TypeOK'
<1> USE DEF TypeOK, Calls, database, locks, task, Settle, Ends, Errors, Awaited, Answers
<1>1. CASE Fault(c)
  BY <1>1 DEF Fault, Deliver
<1>2. CASE RunClose(c)
  BY <1>2 DEF RunClose, Release, NoWrites
<1>3. CASE CancelOpening(c)
  BY <1>3 DEF CancelOpening
<1>4. CASE CancelBody(c)
  BY <1>4 DEF CancelBody, AwaitClose, Decide, TaskOnly
<1>5. CASE CancelClose(c)
  BY <1>5 DEF CancelClose, TaskOnly
<1>6. CASE Collect(c)
  BY <1>6 DEF Collect, Release, NoWrites
<1>7. CASE Kill(c)
  BY <1>7 DEF Kill, Release, NoWrites
<1> QED
  BY <1>1, <1>2, <1>3, <1>4, <1>5, <1>6, <1>7

-----------------------------------------------------------------------------
(***************************************************************************)
(* One call moves, the others do not notice                                *)
(***************************************************************************)
\* What the invariant says of one call.
Own(c) ==
  /\ TaskAndThread(c)
  /\ SchemaIsMine(c)
  /\ Reasons(c)
  /\ LocksGivenBack(c)
  /\ c \in Savers => SaveProgress(c)
  /\ c \in Readers => ReadProgress(c)
  /\ outcome[c] \in {"InitError", "WriteError", "ReadError"} => c \in faulty \/ schema = "other"
  /\ c \in reserved \cup shared => at[c] \notin {"idle", "done"} \/ closing[c] \/ c \in abandoned

\* What a step of call c does to the file and to everybody else.
Elsewhere(c) ==
  /\ \A d \in Calls \ {c} :
       /\ at'[d] = at[d] /\ sent'[d] = sent[d] /\ closing'[d] = closing[d]
       /\ result'[d] = result[d] /\ verdict'[d] = verdict[d] /\ outcome'[d] = outcome[d]
       /\ txn'[d] = txn[d]
       /\ d \in abandoned' <=> d \in abandoned
       /\ d \in faulty' <=> d \in faulty
       /\ d \in reserved' <=> d \in reserved
       /\ d \in shared' <=> d \in shared
  /\ \A s \in Savers \ {c} : rowid'[s] = rowid[s]
  /\ \A r \in Readers \ {c} : saw'[r] = saw[r]
  /\ \/ schema' = schema
     \/ schema = "empty" /\ schema' = "v1" /\ c \in reserved
  /\ \/ history' = history
     \/ history' = Append(history, c) /\ c \in Savers /\ c \in reserved /\ c \notin Stored

LEMMA InvOfOne ==
  ASSUME StoreInv, NEW c \in Calls
  PROVE  Own(c)
BY DEF StoreInv, Own, OnlyFaultsFail, LocksBelongToWork, Calls

\* What Append does to the history.
LEMMA Appending ==
  ASSUME history \in Seq(Savers), NEW s \in Savers, history' = Append(history, s)
  PROVE  /\ Len(history') = Len(history) + 1
         /\ DOMAIN history = 1..Len(history)
         /\ DOMAIN history' = 1..(Len(history) + 1)
         /\ Len(history) \in Nat
         /\ \A i \in DOMAIN history : i \in DOMAIN history' /\ history'[i] = history[i]
         /\ history'[Len(history) + 1] = s
         /\ Stored' = Stored \cup {s}
<1>1. /\ Len(history') = Len(history) + 1
      /\ DOMAIN history = 1..Len(history)
      /\ DOMAIN history' = 1..(Len(history) + 1)
      /\ Len(history) \in Nat
      /\ \A i \in DOMAIN history : i \in DOMAIN history' /\ history'[i] = history[i]
      /\ history'[Len(history) + 1] = s
  OBVIOUS
<1>2. Stored' = Stored \cup {s}
  BY <1>1 DEF Stored
<1> QED
  BY <1>1, <1>2

LEMMA OthersUndisturbed ==
  ASSUME TypeOK, StoreInv, NEW c \in Calls, Elsewhere(c), NEW d \in Calls \ {c}
  PROVE  Own(d)'
<1>1. Own(d)
  BY InvOfOne
<1>2. /\ at'[d] = at[d] /\ sent'[d] = sent[d] /\ closing'[d] = closing[d]
      /\ result'[d] = result[d] /\ verdict'[d] = verdict[d] /\ outcome'[d] = outcome[d]
      /\ txn'[d] = txn[d]
      /\ d \in abandoned' <=> d \in abandoned
      /\ d \in faulty' <=> d \in faulty
      /\ d \in reserved' <=> d \in reserved
      /\ d \in shared' <=> d \in shared
      /\ d \in Savers => rowid'[d] = rowid[d]
      /\ d \in Readers => saw'[d] = saw[d]
  BY DEF Elsewhere, Calls
<1>3. /\ d \in reserved => schema' = schema /\ history' = history
      /\ schema = "other" => schema' = "other"
  BY DEF Elsewhere, StoreInv, OneWriter
<1>4. /\ d \in Stored' <=> d \in Stored
      /\ \A i \in DOMAIN history : i \in DOMAIN history' /\ history'[i] = history[i]
  <2>1. CASE history' = history
    BY <2>1 DEF Stored
  <2>2. CASE history' = Append(history, c) /\ c \in Savers
    BY <2>2, Appending DEF TypeOK
  <2> QED
    BY <2>1, <2>2 DEF Elsewhere
<1>5. TaskAndThread(d)'
  BY <1>1, <1>2 DEF Own, TaskAndThread
<1>6. SchemaIsMine(d)'
  BY <1>1, <1>2, <1>3 DEF Own, SchemaIsMine
<1>7. Reasons(d)'
  BY <1>1, <1>2, <1>3, <1>4 DEF Own, Reasons
<1>8. LocksGivenBack(d)'
  BY <1>1, <1>2 DEF Own, LocksGivenBack
<1>9. d \in Savers => SaveProgress(d)'
  <2> SUFFICES ASSUME d \in Savers PROVE SaveProgress(d)'
    OBVIOUS
  <2>1. SaveProgress(d) /\ rowid'[d] = rowid[d]
    BY <1>1, <1>2 DEF Own
  <2>2. txn'[d].parent => d \in reserved' /\ d \notin Stored' /\ rowid'[d] = (Len(history) + 1)'
    BY <2>1, <1>2, <1>3, <1>4 DEF SaveProgress
  <2>3. d \in Stored' => rowid'[d] \in DOMAIN history' /\ history'[rowid'[d]] = d
    BY <2>1, <1>4 DEF SaveProgress
  <2> QED
    BY <2>1, <2>2, <2>3, <1>2, <1>4 DEF SaveProgress
<1>10. d \in Readers => ReadProgress(d)'
  BY <1>1, <1>2 DEF Own, ReadProgress
<1>11. outcome'[d] \in {"InitError", "WriteError", "ReadError"} => d \in faulty' \/ schema' = "other"
  BY <1>1, <1>2, <1>3 DEF Own
<1>12. d \in reserved' \cup shared' =>
         at'[d] \notin {"idle", "done"} \/ closing'[d] \/ d \in abandoned'
  BY <1>1, <1>2 DEF Own
<1> QED
  BY <1>5, <1>6, <1>7, <1>8, <1>9, <1>10, <1>11, <1>12 DEF Own

LEMMA StepKeeps ==
  ASSUME TypeOK, StoreInv, NEW c \in Calls, Elsewhere(c), Own(c)', OneWriter', AllOrNothing',
         reserved' \subseteq Calls, shared' \subseteq Calls
  PROVE  StoreInv'
<1>1. \A d \in Calls : Own(d)'
  BY OthersUndisturbed
<1>2. \A s \in Savers : s \in Stored' => rowid'[s] \in DOMAIN history' /\ history'[rowid'[s]] = s
  BY <1>1 DEF Own, SaveProgress, Calls
<1>3. ReturnedIdIsTheRow'
  BY <1>1, <1>2 DEF ReturnedIdIsTheRow, Own, Reasons, Calls
<1>4. OnlyFaultsFail'
  BY <1>1 DEF OnlyFaultsFail, Own
<1>5. LocksBelongToWork'
  BY <1>1 DEF LocksBelongToWork, OneWriter, Own
<1>6. /\ \A d \in Calls : TaskAndThread(d)' /\ SchemaIsMine(d)' /\ Reasons(d)' /\ LocksGivenBack(d)'
      /\ \A s \in Savers : SaveProgress(s)'
      /\ \A r \in Readers : ReadProgress(r)'
  BY <1>1 DEF Own, Calls
<1> QED
  BY <1>3, <1>4, <1>5, <1>6 DEF StoreInv

-----------------------------------------------------------------------------
(***************************************************************************)
(* Each action keeps the invariant                                         *)
(***************************************************************************)
\* Connect and BEGIN.
LEMMA RunPlainKeeps ==
  ASSUME TypeOK, StoreInv, NEW c \in Calls, RunPlain(c), UNCHANGED <<task, closing, abandoned, faulty>>
  PROVE  StoreInv'
<1>1. Own(c)
  BY InvOfOne
<1>2. sent[c] \in {"connect", "begin"}
  BY <1>1 DEF RunPlain, Runs, Deliver, Own, SchemaIsMine
<1>3. /\ at'[c] = at[c]
      /\ sent'[c] = "none"
      /\ closing'[c] = closing[c]
      /\ result'[c] = (IF at[c] = sent[c] THEN "ok" ELSE result[c])
      /\ verdict'[c] = verdict[c]
      /\ outcome'[c] = outcome[c]
      /\ txn'[c] = txn[c]
      /\ c \in reserved' <=> c \in reserved
      /\ c \in shared' <=> c \in shared
      /\ c \in abandoned' <=> c \in abandoned
      /\ c \in faulty' <=> c \in faulty
      /\ c \in Savers => rowid'[c] = rowid[c]
      /\ c \in Readers => saw'[c] = saw[c]
      /\ schema' = schema /\ history' = history /\ samples' = samples
  BY <1>2, <1>1 DEF RunPlain, Runs, Deliver, TypeOK, database, locks, task
<1>4. Elsewhere(c) /\ OneWriter'
  BY DEF RunPlain, Runs, Deliver, TypeOK, database, locks, task, Elsewhere, StoreInv, OneWriter
<1>5. TaskAndThread(c)'
  BY <1>2, <1>1, <1>3, CallsAreOfOneKind, SamplesAreCounted
    DEF Own, TaskAndThread, SchemaPlaces, WritePlaces, ReadPlaces, BodyPlaces, Statements
<1>6. SchemaIsMine(c)'
  BY <1>2, <1>1, <1>3, CallsAreOfOneKind, SamplesAreCounted
    DEF Own, SchemaIsMine, TaskAndThread, NoWrites, SchemaPlaces, WritePlaces, ReadPlaces,
    BodyPlaces, Statements
<1>7. Reasons(c)'
  BY <1>2, <1>1, <1>3, CallsAreOfOneKind, SamplesAreCounted
    DEF Own, Reasons, TaskAndThread, SaveProgress, ReadProgress, SchemaIsMine, Stored,
    SchemaPlaces, WritePlaces, ReadPlaces, BodyPlaces, Statements
<1>8. LocksGivenBack(c)'
  BY <1>2, <1>1, <1>3, CallsAreOfOneKind, SamplesAreCounted
    DEF Own, LocksGivenBack, TaskAndThread, SaveProgress, ReadProgress, SchemaPlaces,
    WritePlaces, ReadPlaces, BodyPlaces, Statements
<1>9. c \in Savers => SaveProgress(c)'
  BY <1>2, <1>1, <1>3, CallsAreOfOneKind, SamplesAreCounted
    DEF Own, TypeOK, Answers, SaveProgress, TaskAndThread, NoWrites, Reasons, Stored,
    SchemaPlaces, WritePlaces, ReadPlaces, BodyPlaces, Statements
<1>10. c \in Readers => ReadProgress(c)'
  BY <1>2, <1>1, <1>3, CallsAreOfOneKind, SamplesAreCounted
    DEF Own, TypeOK, Answers, ReadProgress, TaskAndThread, NoWrites, SchemaPlaces,
    WritePlaces, ReadPlaces, BodyPlaces, Statements
<1>11. /\ outcome'[c] \in {"InitError", "WriteError", "ReadError"} => c \in faulty' \/ schema' = "other"
       /\ c \in reserved' \cup shared' =>
            at'[c] \notin {"idle", "done"} \/ closing'[c] \/ c \in abandoned'
  BY <1>2, <1>1, <1>3 DEF Own, TaskAndThread, Reasons, LocksGivenBack, SchemaPlaces,
    WritePlaces, ReadPlaces, BodyPlaces, Statements
<1>12. AllOrNothing' /\ reserved' \subseteq Calls /\ shared' \subseteq Calls
  BY <1>3, <1>4 DEF RunPlain, Runs, Deliver, StoreInv, AllOrNothing, TypeOK, Calls, database,
    locks
<1> QED
  BY <1>4, <1>5, <1>6, <1>7, <1>8, <1>9, <1>10, <1>11, <1>12, StepKeeps DEF Own

\* BEGIN IMMEDIATE takes the lock.
LEMMA RunBeginSchemaKeeps ==
  ASSUME TypeOK, StoreInv, NEW c \in Calls, RunBeginSchema(c), UNCHANGED <<task, closing, abandoned, faulty>>
  PROVE  StoreInv'
<1>1. Own(c)
  BY InvOfOne
<1>2. sent[c] = "begin_schema"
  BY <1>1 DEF RunBeginSchema, Runs, Deliver, Free, Own, SchemaIsMine
<1>3. /\ at'[c] = at[c]
      /\ sent'[c] = "none"
      /\ closing'[c] = closing[c]
      /\ result'[c] = (IF at[c] = sent[c] THEN "ok" ELSE result[c])
      /\ verdict'[c] = verdict[c]
      /\ outcome'[c] = outcome[c]
      /\ txn'[c] = txn[c]
      /\ c \in reserved'
      /\ c \in shared' <=> c \in shared
      /\ c \in abandoned' <=> c \in abandoned
      /\ c \in faulty' <=> c \in faulty
      /\ c \in Savers => rowid'[c] = rowid[c]
      /\ c \in Readers => saw'[c] = saw[c]
      /\ schema' = schema /\ history' = history /\ samples' = samples
  BY <1>2, <1>1 DEF RunBeginSchema, Runs, Deliver, Free, TypeOK, database, locks, task
<1>4. Elsewhere(c) /\ OneWriter'
  BY DEF RunBeginSchema, Runs, Deliver, Free, TypeOK, database, locks, task, Elsewhere,
    StoreInv, OneWriter
<1>5. TaskAndThread(c)'
  BY <1>2, <1>1, <1>3, CallsAreOfOneKind, SamplesAreCounted
    DEF Own, TaskAndThread, SchemaPlaces, WritePlaces, ReadPlaces, BodyPlaces, Statements
<1>6. SchemaIsMine(c)'
  BY <1>2, <1>1, <1>3, CallsAreOfOneKind, SamplesAreCounted
    DEF Own, SchemaIsMine, TaskAndThread, NoWrites, SchemaPlaces, WritePlaces, ReadPlaces,
    BodyPlaces, Statements
<1>7. Reasons(c)'
  BY <1>2, <1>1, <1>3, CallsAreOfOneKind, SamplesAreCounted
    DEF Own, Reasons, TaskAndThread, SaveProgress, ReadProgress, SchemaIsMine, Stored,
    SchemaPlaces, WritePlaces, ReadPlaces, BodyPlaces, Statements
<1>8. LocksGivenBack(c)'
  BY <1>2, <1>1, <1>3, CallsAreOfOneKind, SamplesAreCounted
    DEF Own, LocksGivenBack, TaskAndThread, SaveProgress, ReadProgress, SchemaPlaces,
    WritePlaces, ReadPlaces, BodyPlaces, Statements
<1>9. c \in Savers => SaveProgress(c)'
  BY <1>2, <1>1, <1>3, CallsAreOfOneKind, SamplesAreCounted
    DEF Own, TypeOK, Answers, SaveProgress, TaskAndThread, NoWrites, Reasons, Stored,
    SchemaPlaces, WritePlaces, ReadPlaces, BodyPlaces, Statements
<1>10. c \in Readers => ReadProgress(c)'
  BY <1>2, <1>1, <1>3, CallsAreOfOneKind, SamplesAreCounted
    DEF Own, TypeOK, Answers, ReadProgress, TaskAndThread, NoWrites, SchemaPlaces,
    WritePlaces, ReadPlaces, BodyPlaces, Statements
<1>11. /\ outcome'[c] \in {"InitError", "WriteError", "ReadError"} => c \in faulty' \/ schema' = "other"
       /\ c \in reserved' \cup shared' =>
            at'[c] \notin {"idle", "done"} \/ closing'[c] \/ c \in abandoned'
  BY <1>2, <1>1, <1>3 DEF Own, TaskAndThread, Reasons, LocksGivenBack, SchemaPlaces,
    WritePlaces, ReadPlaces, BodyPlaces, Statements
<1>12. AllOrNothing' /\ reserved' \subseteq Calls /\ shared' \subseteq Calls
  BY <1>3, <1>4 DEF RunBeginSchema, Runs, Deliver, Free, StoreInv, AllOrNothing, TypeOK,
    Calls, database, locks
<1> QED
  BY <1>4, <1>5, <1>6, <1>7, <1>8, <1>9, <1>10, <1>11, <1>12, StepKeeps DEF Own

\* Under the lock, what is found stays.
LEMMA RunInspectKeeps ==
  ASSUME TypeOK, StoreInv, NEW c \in Calls, RunInspect(c), UNCHANGED <<task, closing, abandoned, faulty>>
  PROVE  StoreInv'
<1>1. Own(c)
  BY InvOfOne
<1>2. sent[c] = "inspect" /\ c \in reserved
  BY <1>1 DEF RunInspect, Runs, Deliver, Own, SchemaIsMine
<1>3. /\ at'[c] = at[c]
      /\ sent'[c] = "none"
      /\ closing'[c] = closing[c]
      /\ result'[c] = (IF at[c] = sent[c] THEN schema ELSE result[c])
      /\ verdict'[c] = verdict[c]
      /\ outcome'[c] = outcome[c]
      /\ txn'[c] = txn[c]
      /\ c \in reserved' <=> c \in reserved
      /\ c \in shared' <=> c \in shared
      /\ c \in abandoned' <=> c \in abandoned
      /\ c \in faulty' <=> c \in faulty
      /\ c \in Savers => rowid'[c] = rowid[c]
      /\ c \in Readers => saw'[c] = saw[c]
      /\ schema' = schema /\ history' = history /\ samples' = samples
  BY <1>2, <1>1 DEF RunInspect, Runs, Deliver, TypeOK, database, locks, task
<1>4. Elsewhere(c) /\ OneWriter'
  BY DEF RunInspect, Runs, Deliver, TypeOK, database, locks, task, Elsewhere, StoreInv,
    OneWriter
<1>5. TaskAndThread(c)'
  BY <1>2, <1>1, <1>3, CallsAreOfOneKind, SamplesAreCounted
    DEF Own, TaskAndThread, SchemaPlaces, WritePlaces, ReadPlaces, BodyPlaces, Statements,
    TypeOK, Answers
<1>6. SchemaIsMine(c)'
  BY <1>2, <1>1, <1>3, CallsAreOfOneKind, SamplesAreCounted
    DEF Own, SchemaIsMine, TaskAndThread, NoWrites, SchemaPlaces, WritePlaces, ReadPlaces,
    BodyPlaces, Statements
<1>7. Reasons(c)'
  BY <1>2, <1>1, <1>3, CallsAreOfOneKind, SamplesAreCounted
    DEF Own, Reasons, TaskAndThread, SaveProgress, ReadProgress, SchemaIsMine, Stored,
    SchemaPlaces, WritePlaces, ReadPlaces, BodyPlaces, Statements, TypeOK, Answers
<1>8. LocksGivenBack(c)'
  BY <1>2, <1>1, <1>3, CallsAreOfOneKind, SamplesAreCounted
    DEF Own, LocksGivenBack, TaskAndThread, SaveProgress, ReadProgress, SchemaPlaces,
    WritePlaces, ReadPlaces, BodyPlaces, Statements
<1>9. c \in Savers => SaveProgress(c)'
  BY <1>2, <1>1, <1>3, CallsAreOfOneKind, SamplesAreCounted
    DEF Own, TypeOK, Answers, SaveProgress, TaskAndThread, NoWrites, Reasons, Stored,
    SchemaPlaces, WritePlaces, ReadPlaces, BodyPlaces, Statements
<1>10. c \in Readers => ReadProgress(c)'
  BY <1>2, <1>1, <1>3, CallsAreOfOneKind, SamplesAreCounted
    DEF Own, TypeOK, Answers, ReadProgress, TaskAndThread, NoWrites, SchemaPlaces,
    WritePlaces, ReadPlaces, BodyPlaces, Statements
<1>11. /\ outcome'[c] \in {"InitError", "WriteError", "ReadError"} => c \in faulty' \/ schema' = "other"
       /\ c \in reserved' \cup shared' =>
            at'[c] \notin {"idle", "done"} \/ closing'[c] \/ c \in abandoned'
  BY <1>2, <1>1, <1>3 DEF Own, TaskAndThread, Reasons, LocksGivenBack, SchemaPlaces,
    WritePlaces, ReadPlaces, BodyPlaces, Statements
<1>12. AllOrNothing' /\ reserved' \subseteq Calls /\ shared' \subseteq Calls
  BY <1>3, <1>4 DEF RunInspect, Runs, Deliver, StoreInv, AllOrNothing, TypeOK, Calls,
    database, locks
<1> QED
  BY <1>4, <1>5, <1>6, <1>7, <1>8, <1>9, <1>10, <1>11, <1>12, StepKeeps DEF Own

\* The version row.
LEMMA RunVersionKeeps ==
  ASSUME TypeOK, StoreInv, NEW c \in Calls, RunVersion(c), UNCHANGED <<task, closing, abandoned, faulty>>
  PROVE  StoreInv'
<1>1. Own(c)
  BY InvOfOne
<1>2. sent[c] = "version"
  BY <1>1 DEF RunVersion, Write, Runs, Deliver, Free, Own, SchemaIsMine
<1>3. /\ at'[c] = at[c]
      /\ sent'[c] = "none"
      /\ closing'[c] = closing[c]
      /\ result'[c] = (IF at[c] = sent[c] THEN "ok" ELSE result[c])
      /\ verdict'[c] = verdict[c]
      /\ outcome'[c] = outcome[c]
      /\ txn'[c] = [schema |-> "v1", parent |-> txn[c].parent, children |-> txn[c].children]
      /\ c \in reserved'
      /\ c \in shared' <=> c \in shared
      /\ c \in abandoned' <=> c \in abandoned
      /\ c \in faulty' <=> c \in faulty
      /\ c \in Savers => rowid'[c] = rowid[c]
      /\ c \in Readers => saw'[c] = saw[c]
      /\ schema' = schema /\ history' = history /\ samples' = samples
  BY <1>2, <1>1 DEF RunVersion, Write, Runs, Deliver, Free, TypeOK, database, locks, task
<1>4. Elsewhere(c) /\ OneWriter'
  BY DEF RunVersion, Write, Runs, Deliver, Free, TypeOK, database, locks, task, Elsewhere,
    StoreInv, OneWriter
<1>5. TaskAndThread(c)'
  BY <1>2, <1>1, <1>3, CallsAreOfOneKind, SamplesAreCounted
    DEF Own, TaskAndThread, SchemaPlaces, WritePlaces, ReadPlaces, BodyPlaces, Statements
<1>6. SchemaIsMine(c)'
  BY <1>2, <1>1, <1>3, CallsAreOfOneKind, SamplesAreCounted
    DEF Own, SchemaIsMine, TaskAndThread, NoWrites, SchemaPlaces, WritePlaces, ReadPlaces,
    BodyPlaces, Statements
<1>7. Reasons(c)'
  BY <1>2, <1>1, <1>3, CallsAreOfOneKind, SamplesAreCounted
    DEF Own, Reasons, TaskAndThread, SaveProgress, ReadProgress, SchemaIsMine, Stored,
    SchemaPlaces, WritePlaces, ReadPlaces, BodyPlaces, Statements
<1>8. LocksGivenBack(c)'
  BY <1>2, <1>1, <1>3, CallsAreOfOneKind, SamplesAreCounted
    DEF Own, LocksGivenBack, TaskAndThread, SaveProgress, ReadProgress, SchemaPlaces,
    WritePlaces, ReadPlaces, BodyPlaces, Statements
<1>9. c \in Savers => SaveProgress(c)'
  BY <1>2, <1>1, <1>3, CallsAreOfOneKind, SamplesAreCounted
    DEF Own, TypeOK, Answers, SaveProgress, TaskAndThread, NoWrites, Reasons, Stored,
    SchemaPlaces, WritePlaces, ReadPlaces, BodyPlaces, Statements
<1>10. c \in Readers => ReadProgress(c)'
  BY <1>2, <1>1, <1>3, CallsAreOfOneKind, SamplesAreCounted
    DEF Own, TypeOK, Answers, ReadProgress, TaskAndThread, NoWrites, SchemaPlaces,
    WritePlaces, ReadPlaces, BodyPlaces, Statements
<1>11. /\ outcome'[c] \in {"InitError", "WriteError", "ReadError"} => c \in faulty' \/ schema' = "other"
       /\ c \in reserved' \cup shared' =>
            at'[c] \notin {"idle", "done"} \/ closing'[c] \/ c \in abandoned'
  BY <1>2, <1>1, <1>3 DEF Own, TaskAndThread, Reasons, LocksGivenBack, SchemaPlaces,
    WritePlaces, ReadPlaces, BodyPlaces, Statements
<1>12. AllOrNothing' /\ reserved' \subseteq Calls /\ shared' \subseteq Calls
  BY <1>3, <1>4 DEF RunVersion, Write, Runs, Deliver, Free, StoreInv, AllOrNothing, TypeOK,
    Calls, database, locks
<1> QED
  BY <1>4, <1>5, <1>6, <1>7, <1>8, <1>9, <1>10, <1>11, <1>12, StepKeeps DEF Own

\* The tables are created where there are none.
LEMMA RunCreateKeeps ==
  ASSUME TypeOK, StoreInv, NEW c \in Calls, RunCreate(c), schema = "empty", UNCHANGED <<task, closing, abandoned, faulty>>
  PROVE  StoreInv'
<1>1. Own(c)
  BY InvOfOne
<1>2. sent[c] = "create" /\ schema = "empty"
  BY <1>1 DEF RunCreate, Write, Runs, Deliver, Free, Own, SchemaIsMine
<1>3. /\ at'[c] = at[c]
      /\ sent'[c] = "none"
      /\ closing'[c] = closing[c]
      /\ result'[c] = (IF at[c] = sent[c] THEN "ok" ELSE result[c])
      /\ verdict'[c] = verdict[c]
      /\ outcome'[c] = outcome[c]
      /\ txn'[c] = [schema |-> "unversioned", parent |-> txn[c].parent, children |-> txn[c].children]
      /\ c \in reserved'
      /\ c \in shared' <=> c \in shared
      /\ c \in abandoned' <=> c \in abandoned
      /\ c \in faulty' <=> c \in faulty
      /\ c \in Savers => rowid'[c] = rowid[c]
      /\ c \in Readers => saw'[c] = saw[c]
      /\ schema' = schema /\ history' = history /\ samples' = samples
  BY <1>2, <1>1 DEF RunCreate, Write, Runs, Deliver, Free, TypeOK, database, locks, task
<1>4. Elsewhere(c) /\ OneWriter'
  BY DEF RunCreate, Write, Runs, Deliver, Free, TypeOK, database, locks, task, Elsewhere,
    StoreInv, OneWriter
<1>5. TaskAndThread(c)'
  BY <1>2, <1>1, <1>3, CallsAreOfOneKind, SamplesAreCounted
    DEF Own, TaskAndThread, SchemaPlaces, WritePlaces, ReadPlaces, BodyPlaces, Statements
<1>6. SchemaIsMine(c)'
  BY <1>2, <1>1, <1>3, CallsAreOfOneKind, SamplesAreCounted
    DEF Own, SchemaIsMine, TaskAndThread, NoWrites, SchemaPlaces, WritePlaces, ReadPlaces,
    BodyPlaces, Statements
<1>7. Reasons(c)'
  BY <1>2, <1>1, <1>3, CallsAreOfOneKind, SamplesAreCounted
    DEF Own, Reasons, TaskAndThread, SaveProgress, ReadProgress, SchemaIsMine, Stored,
    SchemaPlaces, WritePlaces, ReadPlaces, BodyPlaces, Statements
<1>8. LocksGivenBack(c)'
  BY <1>2, <1>1, <1>3, CallsAreOfOneKind, SamplesAreCounted
    DEF Own, LocksGivenBack, TaskAndThread, SaveProgress, ReadProgress, SchemaPlaces,
    WritePlaces, ReadPlaces, BodyPlaces, Statements
<1>9. c \in Savers => SaveProgress(c)'
  BY <1>2, <1>1, <1>3, CallsAreOfOneKind, SamplesAreCounted
    DEF Own, TypeOK, Answers, SaveProgress, TaskAndThread, NoWrites, Reasons, Stored,
    SchemaPlaces, WritePlaces, ReadPlaces, BodyPlaces, Statements
<1>10. c \in Readers => ReadProgress(c)'
  BY <1>2, <1>1, <1>3, CallsAreOfOneKind, SamplesAreCounted
    DEF Own, TypeOK, Answers, ReadProgress, TaskAndThread, NoWrites, SchemaPlaces,
    WritePlaces, ReadPlaces, BodyPlaces, Statements
<1>11. /\ outcome'[c] \in {"InitError", "WriteError", "ReadError"} => c \in faulty' \/ schema' = "other"
       /\ c \in reserved' \cup shared' =>
            at'[c] \notin {"idle", "done"} \/ closing'[c] \/ c \in abandoned'
  BY <1>2, <1>1, <1>3 DEF Own, TaskAndThread, Reasons, LocksGivenBack, SchemaPlaces,
    WritePlaces, ReadPlaces, BodyPlaces, Statements
<1>12. AllOrNothing' /\ reserved' \subseteq Calls /\ shared' \subseteq Calls
  BY <1>3, <1>4 DEF RunCreate, Write, Runs, Deliver, Free, StoreInv, AllOrNothing, TypeOK,
    Calls, database, locks
<1> QED
  BY <1>4, <1>5, <1>6, <1>7, <1>8, <1>9, <1>10, <1>11, <1>12, StepKeeps DEF Own

\* The row of the snapshot.
LEMMA RunParentKeeps ==
  ASSUME TypeOK, StoreInv, NEW c \in Savers, RunParent(c), UNCHANGED <<task, closing, abandoned, faulty>>
  PROVE  StoreInv'
<1>0. c \in Calls
  BY DEF Calls
<1>1. Own(c)
  BY <1>0, InvOfOne
<1>2. sent[c] = "parent"
  BY <1>0, <1>1 DEF RunParent, Write, Runs, Deliver, Free, Own, SchemaIsMine
<1>3. /\ at'[c] = at[c]
      /\ sent'[c] = "none"
      /\ closing'[c] = closing[c]
      /\ result'[c] = (IF at[c] = sent[c] THEN "ok" ELSE result[c])
      /\ verdict'[c] = verdict[c]
      /\ outcome'[c] = outcome[c]
      /\ txn'[c] = [schema |-> txn[c].schema, parent |-> TRUE, children |-> txn[c].children]
      /\ c \in reserved'
      /\ c \in shared' <=> c \in shared
      /\ c \in abandoned' <=> c \in abandoned
      /\ c \in faulty' <=> c \in faulty
      /\ c \in Savers => rowid'[c] = Len(history) + 1
      /\ c \in Readers => saw'[c] = saw[c]
      /\ schema' = schema /\ history' = history /\ samples' = samples
  BY <1>0, <1>2, <1>1 DEF RunParent, Write, Runs, Deliver, Free, TypeOK, database, locks,
    task, Calls
<1>4. Elsewhere(c) /\ OneWriter'
  BY <1>0 DEF RunParent, Write, Runs, Deliver, Free, TypeOK, database, locks, task, Elsewhere,
    StoreInv, OneWriter, Calls
<1>5. TaskAndThread(c)'
  BY <1>0, <1>2, <1>1, <1>3, CallsAreOfOneKind, SamplesAreCounted
    DEF Own, TaskAndThread, SchemaPlaces, WritePlaces, ReadPlaces, BodyPlaces, Statements
<1>6. SchemaIsMine(c)'
  BY <1>0, <1>2, <1>1, <1>3, CallsAreOfOneKind, SamplesAreCounted
    DEF Own, SchemaIsMine, TaskAndThread, NoWrites, SchemaPlaces, WritePlaces, ReadPlaces,
    BodyPlaces, Statements
<1>7. Reasons(c)'
  BY <1>0, <1>2, <1>1, <1>3, CallsAreOfOneKind, SamplesAreCounted
    DEF Own, Reasons, TaskAndThread, SaveProgress, ReadProgress, SchemaIsMine, Stored,
    SchemaPlaces, WritePlaces, ReadPlaces, BodyPlaces, Statements
<1>8. LocksGivenBack(c)'
  BY <1>0, <1>2, <1>1, <1>3, CallsAreOfOneKind, SamplesAreCounted
    DEF Own, LocksGivenBack, TaskAndThread, SaveProgress, ReadProgress, SchemaPlaces,
    WritePlaces, ReadPlaces, BodyPlaces, Statements
<1>9. c \in Savers => SaveProgress(c)'
  BY <1>0, <1>2, <1>1, <1>3, CallsAreOfOneKind, SamplesAreCounted
    DEF Own, TypeOK, Answers, SaveProgress, TaskAndThread, NoWrites, Reasons, Stored,
    SchemaPlaces, WritePlaces, ReadPlaces, BodyPlaces, Statements
<1>10. c \in Readers => ReadProgress(c)'
  BY <1>0, <1>2, <1>1, <1>3, CallsAreOfOneKind, SamplesAreCounted
    DEF Own, TypeOK, Answers, ReadProgress, TaskAndThread, NoWrites, SchemaPlaces,
    WritePlaces, ReadPlaces, BodyPlaces, Statements
<1>11. /\ outcome'[c] \in {"InitError", "WriteError", "ReadError"} => c \in faulty' \/ schema' = "other"
       /\ c \in reserved' \cup shared' =>
            at'[c] \notin {"idle", "done"} \/ closing'[c] \/ c \in abandoned'
  BY <1>0, <1>2, <1>1, <1>3 DEF Own, TaskAndThread, Reasons, LocksGivenBack, SchemaPlaces,
    WritePlaces, ReadPlaces, BodyPlaces, Statements
<1>12. AllOrNothing' /\ reserved' \subseteq Calls /\ shared' \subseteq Calls
  BY <1>0, <1>3, <1>4 DEF RunParent, Write, Runs, Deliver, Free, StoreInv, AllOrNothing,
    TypeOK, Calls, database, locks
<1> QED
  BY <1>0, <1>4, <1>5, <1>6, <1>7, <1>8, <1>9, <1>10, <1>11, <1>12, StepKeeps DEF Own

\* A row of a pool or a binding.
LEMMA RunChildKeeps ==
  ASSUME TypeOK, StoreInv, NEW c \in Savers, RunChild(c), UNCHANGED <<task, closing, abandoned, faulty>>
  PROVE  StoreInv'
<1>0. c \in Calls
  BY DEF Calls
<1>1. Own(c)
  BY <1>0, InvOfOne
<1>2. sent[c] = "child"
  BY <1>0, <1>1 DEF RunChild, Write, Runs, Deliver, Free, Own, SchemaIsMine
<1>3. /\ at'[c] = at[c]
      /\ sent'[c] = "none"
      /\ closing'[c] = closing[c]
      /\ result'[c] = (IF at[c] = sent[c] THEN "ok" ELSE result[c])
      /\ verdict'[c] = verdict[c]
      /\ outcome'[c] = outcome[c]
      /\ txn'[c] = [schema |-> txn[c].schema, parent |-> txn[c].parent, children |-> txn[c].children + 1]
      /\ c \in reserved'
      /\ c \in shared' <=> c \in shared
      /\ c \in abandoned' <=> c \in abandoned
      /\ c \in faulty' <=> c \in faulty
      /\ c \in Savers => rowid'[c] = rowid[c]
      /\ c \in Readers => saw'[c] = saw[c]
      /\ schema' = schema /\ history' = history /\ samples' = samples
  BY <1>0, <1>2, <1>1 DEF RunChild, Write, Runs, Deliver, Free, TypeOK, database, locks, task,
    Calls
<1>4. Elsewhere(c) /\ OneWriter'
  BY <1>0 DEF RunChild, Write, Runs, Deliver, Free, TypeOK, database, locks, task, Elsewhere,
    StoreInv, OneWriter, Calls
<1>5. TaskAndThread(c)'
  BY <1>0, <1>2, <1>1, <1>3, CallsAreOfOneKind, SamplesAreCounted
    DEF Own, TaskAndThread, SchemaPlaces, WritePlaces, ReadPlaces, BodyPlaces, Statements
<1>6. SchemaIsMine(c)'
  BY <1>0, <1>2, <1>1, <1>3, CallsAreOfOneKind, SamplesAreCounted
    DEF Own, SchemaIsMine, TaskAndThread, NoWrites, SchemaPlaces, WritePlaces, ReadPlaces,
    BodyPlaces, Statements
<1>7. Reasons(c)'
  BY <1>0, <1>2, <1>1, <1>3, CallsAreOfOneKind, SamplesAreCounted
    DEF Own, Reasons, TaskAndThread, SaveProgress, ReadProgress, SchemaIsMine, Stored,
    SchemaPlaces, WritePlaces, ReadPlaces, BodyPlaces, Statements
<1>8. LocksGivenBack(c)'
  BY <1>0, <1>2, <1>1, <1>3, CallsAreOfOneKind, SamplesAreCounted
    DEF Own, LocksGivenBack, TaskAndThread, SaveProgress, ReadProgress, SchemaPlaces,
    WritePlaces, ReadPlaces, BodyPlaces, Statements
<1>9. c \in Savers => SaveProgress(c)'
  BY <1>0, <1>2, <1>1, <1>3, CallsAreOfOneKind, SamplesAreCounted
    DEF Own, TypeOK, Answers, SaveProgress, TaskAndThread, NoWrites, Reasons, Stored,
    SchemaPlaces, WritePlaces, ReadPlaces, BodyPlaces, Statements
<1>10. c \in Readers => ReadProgress(c)'
  BY <1>0, <1>2, <1>1, <1>3, CallsAreOfOneKind, SamplesAreCounted
    DEF Own, TypeOK, Answers, ReadProgress, TaskAndThread, NoWrites, SchemaPlaces,
    WritePlaces, ReadPlaces, BodyPlaces, Statements
<1>11. /\ outcome'[c] \in {"InitError", "WriteError", "ReadError"} => c \in faulty' \/ schema' = "other"
       /\ c \in reserved' \cup shared' =>
            at'[c] \notin {"idle", "done"} \/ closing'[c] \/ c \in abandoned'
  BY <1>0, <1>2, <1>1, <1>3 DEF Own, TaskAndThread, Reasons, LocksGivenBack, SchemaPlaces,
    WritePlaces, ReadPlaces, BodyPlaces, Statements
<1>12. AllOrNothing' /\ reserved' \subseteq Calls /\ shared' \subseteq Calls
  BY <1>0, <1>3, <1>4 DEF RunChild, Write, Runs, Deliver, Free, StoreInv, AllOrNothing,
    TypeOK, Calls, database, locks
<1> QED
  BY <1>0, <1>4, <1>5, <1>6, <1>7, <1>8, <1>9, <1>10, <1>11, <1>12, StepKeeps DEF Own

\* A rollback.
LEMMA RunRollbackKeeps ==
  ASSUME TypeOK, StoreInv, NEW c \in Calls, RunRollback(c), UNCHANGED <<task, closing, abandoned, faulty>>
  PROVE  StoreInv'
<1>1. Own(c)
  BY InvOfOne
<1>2. sent[c] \in {"rollback_schema", "rollback"}
  BY <1>1 DEF RunRollback, Release, Runs, Deliver, Own, SchemaIsMine
<1>3. /\ at'[c] = at[c]
      /\ sent'[c] = "none"
      /\ closing'[c] = closing[c]
      /\ result'[c] = (IF at[c] = sent[c] THEN "ok" ELSE result[c])
      /\ verdict'[c] = verdict[c]
      /\ outcome'[c] = outcome[c]
      /\ txn'[c] = NoWrites
      /\ c \notin reserved'
      /\ c \in shared' <=> c \in shared
      /\ c \in abandoned' <=> c \in abandoned
      /\ c \in faulty' <=> c \in faulty
      /\ c \in Savers => rowid'[c] = rowid[c]
      /\ c \in Readers => saw'[c] = saw[c]
      /\ schema' = schema /\ history' = history /\ samples' = samples
  BY <1>2, <1>1 DEF RunRollback, Release, Runs, Deliver, TypeOK, database, locks, task
<1>4. Elsewhere(c) /\ OneWriter'
  BY DEF RunRollback, Release, Runs, Deliver, TypeOK, database, locks, task, Elsewhere,
    StoreInv, OneWriter
<1>5. TaskAndThread(c)'
  BY <1>2, <1>1, <1>3, CallsAreOfOneKind, SamplesAreCounted
    DEF Own, TaskAndThread, SchemaPlaces, WritePlaces, ReadPlaces, BodyPlaces, Statements
<1>6. SchemaIsMine(c)'
  BY <1>2, <1>1, <1>3, CallsAreOfOneKind, SamplesAreCounted
    DEF Own, SchemaIsMine, TaskAndThread, NoWrites, SchemaPlaces, WritePlaces, ReadPlaces,
    BodyPlaces, Statements
<1>7. Reasons(c)'
  BY <1>2, <1>1, <1>3, CallsAreOfOneKind, SamplesAreCounted
    DEF Own, Reasons, TaskAndThread, SaveProgress, ReadProgress, SchemaIsMine, Stored,
    SchemaPlaces, WritePlaces, ReadPlaces, BodyPlaces, Statements
<1>8. LocksGivenBack(c)'
  BY <1>2, <1>1, <1>3, CallsAreOfOneKind, SamplesAreCounted
    DEF Own, LocksGivenBack, TaskAndThread, SaveProgress, ReadProgress, SchemaPlaces,
    WritePlaces, ReadPlaces, BodyPlaces, Statements
<1>9. c \in Savers => SaveProgress(c)'
  BY <1>2, <1>1, <1>3, CallsAreOfOneKind, SamplesAreCounted
    DEF Own, TypeOK, Answers, SaveProgress, TaskAndThread, NoWrites, Reasons, Stored,
    SchemaPlaces, WritePlaces, ReadPlaces, BodyPlaces, Statements
<1>10. c \in Readers => ReadProgress(c)'
  BY <1>2, <1>1, <1>3, CallsAreOfOneKind, SamplesAreCounted
    DEF Own, TypeOK, Answers, ReadProgress, TaskAndThread, NoWrites, SchemaPlaces,
    WritePlaces, ReadPlaces, BodyPlaces, Statements
<1>11. /\ outcome'[c] \in {"InitError", "WriteError", "ReadError"} => c \in faulty' \/ schema' = "other"
       /\ c \in reserved' \cup shared' =>
            at'[c] \notin {"idle", "done"} \/ closing'[c] \/ c \in abandoned'
  BY <1>2, <1>1, <1>3 DEF Own, TaskAndThread, Reasons, LocksGivenBack, SchemaPlaces,
    WritePlaces, ReadPlaces, BodyPlaces, Statements
<1>12. AllOrNothing' /\ reserved' \subseteq Calls /\ shared' \subseteq Calls
  BY <1>3, <1>4 DEF RunRollback, Release, Runs, Deliver, StoreInv, AllOrNothing, TypeOK,
    Calls, database, locks
<1> QED
  BY <1>4, <1>5, <1>6, <1>7, <1>8, <1>9, <1>10, <1>11, <1>12, StepKeeps DEF Own

\* A read looks.
LEMMA RunSelectKeeps ==
  ASSUME TypeOK, StoreInv, NEW c \in Readers, RunSelect(c), UNCHANGED <<task, closing, abandoned, faulty>>
  PROVE  StoreInv'
<1>0. c \in Calls
  BY DEF Calls
<1>1. Own(c)
  BY <1>0, InvOfOne
<1>2. sent[c] = "select"
  BY <1>0, <1>1 DEF RunSelect, Runs, Deliver, Own, SchemaIsMine
<1>3. /\ at'[c] = at[c]
      /\ sent'[c] = "none"
      /\ closing'[c] = closing[c]
      /\ result'[c] = (IF at[c] = sent[c] THEN "ok" ELSE result[c])
      /\ verdict'[c] = verdict[c]
      /\ outcome'[c] = outcome[c]
      /\ txn'[c] = txn[c]
      /\ c \in reserved' <=> c \in reserved
      /\ c \in shared' => c \in shared \/ c \in Readers
      /\ c \in abandoned' <=> c \in abandoned
      /\ c \in faulty' <=> c \in faulty
      /\ c \in Savers => rowid'[c] = rowid[c]
      /\ c \in Readers => saw'[c] = {history}
      /\ schema' = schema /\ history' = history /\ samples' = samples
  BY <1>0, <1>2, <1>1 DEF RunSelect, Runs, Deliver, TypeOK, database, locks, task, Calls
<1>4. Elsewhere(c) /\ OneWriter'
  BY <1>0 DEF RunSelect, Runs, Deliver, TypeOK, database, locks, task, Elsewhere, StoreInv,
    OneWriter, Calls
<1>5. TaskAndThread(c)'
  BY <1>0, <1>2, <1>1, <1>3, CallsAreOfOneKind, SamplesAreCounted
    DEF Own, TaskAndThread, SchemaPlaces, WritePlaces, ReadPlaces, BodyPlaces, Statements
<1>6. SchemaIsMine(c)'
  BY <1>0, <1>2, <1>1, <1>3, CallsAreOfOneKind, SamplesAreCounted
    DEF Own, SchemaIsMine, TaskAndThread, NoWrites, SchemaPlaces, WritePlaces, ReadPlaces,
    BodyPlaces, Statements
<1>7. Reasons(c)'
  BY <1>0, <1>2, <1>1, <1>3, CallsAreOfOneKind, SamplesAreCounted
    DEF Own, Reasons, TaskAndThread, SaveProgress, ReadProgress, SchemaIsMine, Stored,
    SchemaPlaces, WritePlaces, ReadPlaces, BodyPlaces, Statements
<1>8. LocksGivenBack(c)'
  BY <1>0, <1>2, <1>1, <1>3, CallsAreOfOneKind, SamplesAreCounted
    DEF Own, LocksGivenBack, TaskAndThread, SaveProgress, ReadProgress, SchemaPlaces,
    WritePlaces, ReadPlaces, BodyPlaces, Statements
<1>9. c \in Savers => SaveProgress(c)'
  BY <1>0, <1>2, <1>1, <1>3, CallsAreOfOneKind, SamplesAreCounted
    DEF Own, TypeOK, Answers, SaveProgress, TaskAndThread, NoWrites, Reasons, Stored,
    SchemaPlaces, WritePlaces, ReadPlaces, BodyPlaces, Statements
<1>10. c \in Readers => ReadProgress(c)'
  BY <1>0, <1>2, <1>1, <1>3, CallsAreOfOneKind, SamplesAreCounted
    DEF Own, TypeOK, Answers, ReadProgress, TaskAndThread, NoWrites, SchemaPlaces,
    WritePlaces, ReadPlaces, BodyPlaces, Statements
<1>11. /\ outcome'[c] \in {"InitError", "WriteError", "ReadError"} => c \in faulty' \/ schema' = "other"
       /\ c \in reserved' \cup shared' =>
            at'[c] \notin {"idle", "done"} \/ closing'[c] \/ c \in abandoned'
  BY <1>0, <1>2, <1>1, <1>3 DEF Own, TaskAndThread, Reasons, LocksGivenBack, SchemaPlaces,
    WritePlaces, ReadPlaces, BodyPlaces, Statements
<1>12. AllOrNothing' /\ reserved' \subseteq Calls /\ shared' \subseteq Calls
  BY <1>0, <1>3, <1>4 DEF RunSelect, Runs, Deliver, StoreInv, AllOrNothing, TypeOK, Calls,
    database, locks
<1> QED
  BY <1>0, <1>4, <1>5, <1>6, <1>7, <1>8, <1>9, <1>10, <1>11, <1>12, StepKeeps DEF Own

\* A read lets go.
LEMMA RunFetchKeeps ==
  ASSUME TypeOK, StoreInv, NEW c \in Readers, RunFetch(c), UNCHANGED <<task, closing, abandoned, faulty>>
  PROVE  StoreInv'
<1>0. c \in Calls
  BY DEF Calls
<1>1. Own(c)
  BY <1>0, InvOfOne
<1>2. sent[c] = "fetch"
  BY <1>0, <1>1 DEF RunFetch, Runs, Deliver, Own, SchemaIsMine
<1>3. /\ at'[c] = at[c]
      /\ sent'[c] = "none"
      /\ closing'[c] = closing[c]
      /\ result'[c] = (IF at[c] = sent[c] THEN "ok" ELSE result[c])
      /\ verdict'[c] = verdict[c]
      /\ outcome'[c] = outcome[c]
      /\ txn'[c] = txn[c]
      /\ c \in reserved' <=> c \in reserved
      /\ c \notin shared'
      /\ c \in abandoned' <=> c \in abandoned
      /\ c \in faulty' <=> c \in faulty
      /\ c \in Savers => rowid'[c] = rowid[c]
      /\ c \in Readers => saw'[c] = saw[c]
      /\ schema' = schema /\ history' = history /\ samples' = samples
  BY <1>0, <1>2, <1>1 DEF RunFetch, Runs, Deliver, TypeOK, database, locks, task, Calls
<1>4. Elsewhere(c) /\ OneWriter'
  BY <1>0 DEF RunFetch, Runs, Deliver, TypeOK, database, locks, task, Elsewhere, StoreInv,
    OneWriter, Calls
<1>5. TaskAndThread(c)'
  BY <1>0, <1>2, <1>1, <1>3, CallsAreOfOneKind, SamplesAreCounted
    DEF Own, TaskAndThread, SchemaPlaces, WritePlaces, ReadPlaces, BodyPlaces, Statements
<1>6. SchemaIsMine(c)'
  BY <1>0, <1>2, <1>1, <1>3, CallsAreOfOneKind, SamplesAreCounted
    DEF Own, SchemaIsMine, TaskAndThread, NoWrites, SchemaPlaces, WritePlaces, ReadPlaces,
    BodyPlaces, Statements
<1>7. Reasons(c)'
  BY <1>0, <1>2, <1>1, <1>3, CallsAreOfOneKind, SamplesAreCounted
    DEF Own, Reasons, TaskAndThread, SaveProgress, ReadProgress, SchemaIsMine, Stored,
    SchemaPlaces, WritePlaces, ReadPlaces, BodyPlaces, Statements
<1>8. LocksGivenBack(c)'
  BY <1>0, <1>2, <1>1, <1>3, CallsAreOfOneKind, SamplesAreCounted
    DEF Own, LocksGivenBack, TaskAndThread, SaveProgress, ReadProgress, SchemaPlaces,
    WritePlaces, ReadPlaces, BodyPlaces, Statements
<1>9. c \in Savers => SaveProgress(c)'
  BY <1>0, <1>2, <1>1, <1>3, CallsAreOfOneKind, SamplesAreCounted
    DEF Own, TypeOK, Answers, SaveProgress, TaskAndThread, NoWrites, Reasons, Stored,
    SchemaPlaces, WritePlaces, ReadPlaces, BodyPlaces, Statements
<1>10. c \in Readers => ReadProgress(c)'
  BY <1>0, <1>2, <1>1, <1>3, CallsAreOfOneKind, SamplesAreCounted
    DEF Own, TypeOK, Answers, ReadProgress, TaskAndThread, NoWrites, SchemaPlaces,
    WritePlaces, ReadPlaces, BodyPlaces, Statements
<1>11. /\ outcome'[c] \in {"InitError", "WriteError", "ReadError"} => c \in faulty' \/ schema' = "other"
       /\ c \in reserved' \cup shared' =>
            at'[c] \notin {"idle", "done"} \/ closing'[c] \/ c \in abandoned'
  BY <1>0, <1>2, <1>1, <1>3 DEF Own, TaskAndThread, Reasons, LocksGivenBack, SchemaPlaces,
    WritePlaces, ReadPlaces, BodyPlaces, Statements
<1>12. AllOrNothing' /\ reserved' \subseteq Calls /\ shared' \subseteq Calls
  BY <1>0, <1>3, <1>4 DEF RunFetch, Runs, Deliver, StoreInv, AllOrNothing, TypeOK, Calls,
    database, locks
<1> QED
  BY <1>0, <1>4, <1>5, <1>6, <1>7, <1>8, <1>9, <1>10, <1>11, <1>12, StepKeeps DEF Own

\* A statement is refused.
LEMMA FaultKeeps ==
  ASSUME TypeOK, StoreInv, NEW c \in Calls, Fault(c)
  PROVE  StoreInv'
<1>1. Own(c)
  BY InvOfOne
<1>2. sent[c] # "none"
  BY <1>1 DEF Fault, Deliver, Own, SchemaIsMine
<1>3. /\ at'[c] = at[c]
      /\ sent'[c] = "none"
      /\ closing'[c] = closing[c]
      /\ result'[c] = (IF at[c] = sent[c] THEN "error" ELSE result[c])
      /\ verdict'[c] = verdict[c]
      /\ outcome'[c] = outcome[c]
      /\ txn'[c] = txn[c]
      /\ c \in reserved' <=> c \in reserved
      /\ c \in shared' <=> c \in shared
      /\ c \in abandoned' <=> c \in abandoned
      /\ c \in faulty'
      /\ c \in Savers => rowid'[c] = rowid[c]
      /\ c \in Readers => saw'[c] = saw[c]
      /\ schema' = schema /\ history' = history /\ samples' = samples
  BY <1>2, <1>1 DEF Fault, Deliver, TypeOK, database, locks, task
<1>4. Elsewhere(c) /\ OneWriter'
  BY DEF Fault, Deliver, TypeOK, database, locks, task, Elsewhere, StoreInv, OneWriter
<1>5. TaskAndThread(c)'
  BY <1>2, <1>1, <1>3, CallsAreOfOneKind, SamplesAreCounted
    DEF Own, TaskAndThread, SchemaPlaces, WritePlaces, ReadPlaces, BodyPlaces, Statements,
    TypeOK, Answers
<1>6. SchemaIsMine(c)'
  BY <1>2, <1>1, <1>3, CallsAreOfOneKind, SamplesAreCounted
    DEF Own, SchemaIsMine, TaskAndThread, NoWrites, SchemaPlaces, WritePlaces, ReadPlaces,
    BodyPlaces, Statements
<1>7. Reasons(c)'
  BY <1>2, <1>1, <1>3, CallsAreOfOneKind, SamplesAreCounted
    DEF Own, Reasons, TaskAndThread, SaveProgress, ReadProgress, SchemaIsMine, Stored,
    SchemaPlaces, WritePlaces, ReadPlaces, BodyPlaces, Statements
<1>8. LocksGivenBack(c)'
  BY <1>2, <1>1, <1>3, CallsAreOfOneKind, SamplesAreCounted
    DEF Own, LocksGivenBack, TaskAndThread, SaveProgress, ReadProgress, SchemaPlaces,
    WritePlaces, ReadPlaces, BodyPlaces, Statements
<1>9. c \in Savers => SaveProgress(c)'
  BY <1>2, <1>1, <1>3, CallsAreOfOneKind, SamplesAreCounted
    DEF Own, TypeOK, Answers, SaveProgress, TaskAndThread, NoWrites, Reasons, Stored,
    SchemaPlaces, WritePlaces, ReadPlaces, BodyPlaces, Statements
<1>10. c \in Readers => ReadProgress(c)'
  BY <1>2, <1>1, <1>3, CallsAreOfOneKind, SamplesAreCounted
    DEF Own, TypeOK, Answers, ReadProgress, TaskAndThread, NoWrites, SchemaPlaces,
    WritePlaces, ReadPlaces, BodyPlaces, Statements
<1>11. /\ outcome'[c] \in {"InitError", "WriteError", "ReadError"} => c \in faulty' \/ schema' = "other"
       /\ c \in reserved' \cup shared' =>
            at'[c] \notin {"idle", "done"} \/ closing'[c] \/ c \in abandoned'
  BY <1>2, <1>1, <1>3 DEF Own, TaskAndThread, Reasons, LocksGivenBack, SchemaPlaces,
    WritePlaces, ReadPlaces, BodyPlaces, Statements
<1>12. AllOrNothing' /\ reserved' \subseteq Calls /\ shared' \subseteq Calls
  BY <1>3, <1>4 DEF Fault, Deliver, StoreInv, AllOrNothing, TypeOK, Calls, database, locks
<1> QED
  BY <1>4, <1>5, <1>6, <1>7, <1>8, <1>9, <1>10, <1>11, <1>12, StepKeeps DEF Own

\* Close.
LEMMA RunCloseKeeps ==
  ASSUME TypeOK, StoreInv, NEW c \in Calls, RunClose(c)
  PROVE  StoreInv'
<1>1. Own(c)
  BY InvOfOne
<1>2. closing[c] /\ sent[c] = "none"
  BY <1>1 DEF RunClose, Release, Own, SchemaIsMine
<1>3. /\ at'[c] = at[c]
      /\ sent'[c] = sent[c]
      /\ closing'[c] = FALSE
      /\ result'[c] = (IF at[c] \in {"close_schema", "close"} THEN "ok" ELSE result[c])
      /\ verdict'[c] = verdict[c]
      /\ outcome'[c] = outcome[c]
      /\ txn'[c] = NoWrites
      /\ c \notin reserved'
      /\ c \notin shared'
      /\ c \in abandoned' <=> c \in abandoned
      /\ c \in faulty' <=> c \in faulty
      /\ c \in Savers => rowid'[c] = rowid[c]
      /\ c \in Readers => saw'[c] = saw[c]
      /\ schema' = schema /\ history' = history /\ samples' = samples
  BY <1>2, <1>1 DEF RunClose, Release, TypeOK, database, locks, task
<1>4. Elsewhere(c) /\ OneWriter'
  BY DEF RunClose, Release, TypeOK, database, locks, task, Elsewhere, StoreInv, OneWriter
<1>5. TaskAndThread(c)'
  BY <1>2, <1>1, <1>3, CallsAreOfOneKind, SamplesAreCounted
    DEF Own, TaskAndThread, SchemaPlaces, WritePlaces, ReadPlaces, BodyPlaces, Statements
<1>6. SchemaIsMine(c)'
  BY <1>2, <1>1, <1>3, CallsAreOfOneKind, SamplesAreCounted
    DEF Own, SchemaIsMine, TaskAndThread, NoWrites, SchemaPlaces, WritePlaces, ReadPlaces,
    BodyPlaces, Statements
<1>7. Reasons(c)'
  BY <1>2, <1>1, <1>3, CallsAreOfOneKind, SamplesAreCounted
    DEF Own, Reasons, TaskAndThread, SaveProgress, ReadProgress, SchemaIsMine, Stored,
    SchemaPlaces, WritePlaces, ReadPlaces, BodyPlaces, Statements
<1>8. LocksGivenBack(c)'
  BY <1>2, <1>1, <1>3, CallsAreOfOneKind, SamplesAreCounted
    DEF Own, LocksGivenBack, TaskAndThread, SaveProgress, ReadProgress, SchemaPlaces,
    WritePlaces, ReadPlaces, BodyPlaces, Statements
<1>9. c \in Savers => SaveProgress(c)'
  BY <1>2, <1>1, <1>3, CallsAreOfOneKind, SamplesAreCounted
    DEF Own, TypeOK, Answers, SaveProgress, TaskAndThread, NoWrites, Reasons, Stored,
    SchemaPlaces, WritePlaces, ReadPlaces, BodyPlaces, Statements
<1>10. c \in Readers => ReadProgress(c)'
  BY <1>2, <1>1, <1>3, CallsAreOfOneKind, SamplesAreCounted
    DEF Own, TypeOK, Answers, ReadProgress, TaskAndThread, NoWrites, SchemaPlaces,
    WritePlaces, ReadPlaces, BodyPlaces, Statements
<1>11. /\ outcome'[c] \in {"InitError", "WriteError", "ReadError"} => c \in faulty' \/ schema' = "other"
       /\ c \in reserved' \cup shared' =>
            at'[c] \notin {"idle", "done"} \/ closing'[c] \/ c \in abandoned'
  BY <1>2, <1>1, <1>3 DEF Own, TaskAndThread, Reasons, LocksGivenBack, SchemaPlaces,
    WritePlaces, ReadPlaces, BodyPlaces, Statements
<1>12. AllOrNothing' /\ reserved' \subseteq Calls /\ shared' \subseteq Calls
  BY <1>3, <1>4 DEF RunClose, Release, StoreInv, AllOrNothing, TypeOK, Calls, database, locks
<1> QED
  BY <1>4, <1>5, <1>6, <1>7, <1>8, <1>9, <1>10, <1>11, <1>12, StepKeeps DEF Own

\* A snapshot that is refused.
LEMMA RefuseSnapshotKeeps ==
  ASSUME TypeOK, StoreInv, NEW c \in Savers, RefuseSnapshot(c)
  PROVE  StoreInv'
<1>0. c \in Calls
  BY DEF Calls
<1>1. Own(c)
  BY <1>0, InvOfOne
<1>2. at[c] = "idle"
  BY <1>0, <1>1 DEF RefuseSnapshot, Settle, TaskOnly, Own, SchemaIsMine
<1>3. /\ at'[c] = "done"
      /\ sent'[c] = sent[c]
      /\ closing'[c] = closing[c]
      /\ result'[c] = "none"
      /\ verdict'[c] = verdict[c]
      /\ outcome'[c] = "CoherenceError"
      /\ txn'[c] = txn[c]
      /\ c \in reserved' <=> c \in reserved
      /\ c \in shared' <=> c \in shared
      /\ c \in abandoned' <=> c \in abandoned
      /\ c \in faulty' <=> c \in faulty
      /\ c \in Savers => rowid'[c] = rowid[c]
      /\ c \in Readers => saw'[c] = saw[c]
      /\ schema' = schema /\ history' = history /\ samples' = samples
  BY <1>0, <1>2, <1>1 DEF RefuseSnapshot, Settle, TaskOnly, TypeOK, database, locks, task, Calls
<1>4. Elsewhere(c) /\ OneWriter'
  BY <1>0 DEF RefuseSnapshot, Settle, TaskOnly, TypeOK, database, locks, task, Elsewhere,
    StoreInv, OneWriter, Calls
<1>5. TaskAndThread(c)'
  BY <1>0, <1>2, <1>1, <1>3, CallsAreOfOneKind, SamplesAreCounted
    DEF Own, TaskAndThread, SchemaPlaces, WritePlaces, ReadPlaces, BodyPlaces, Statements
<1>6. SchemaIsMine(c)'
  BY <1>0, <1>2, <1>1, <1>3, CallsAreOfOneKind, SamplesAreCounted
    DEF Own, SchemaIsMine, TaskAndThread, NoWrites, SchemaPlaces, WritePlaces, ReadPlaces,
    BodyPlaces, Statements
<1>7. Reasons(c)'
  BY <1>0, <1>2, <1>1, <1>3, CallsAreOfOneKind, SamplesAreCounted
    DEF Own, Reasons, TaskAndThread, SaveProgress, ReadProgress, SchemaIsMine, Stored,
    SchemaPlaces, WritePlaces, ReadPlaces, BodyPlaces, Statements
<1>8. LocksGivenBack(c)'
  BY <1>0, <1>2, <1>1, <1>3, CallsAreOfOneKind, SamplesAreCounted
    DEF Own, LocksGivenBack, TaskAndThread, SaveProgress, ReadProgress, SchemaPlaces,
    WritePlaces, ReadPlaces, BodyPlaces, Statements
<1>9. c \in Savers => SaveProgress(c)'
  BY <1>0, <1>2, <1>1, <1>3, CallsAreOfOneKind, SamplesAreCounted
    DEF Own, TypeOK, Answers, SaveProgress, TaskAndThread, NoWrites, Reasons, Stored,
    SchemaPlaces, WritePlaces, ReadPlaces, BodyPlaces, Statements
<1>10. c \in Readers => ReadProgress(c)'
  BY <1>0, <1>2, <1>1, <1>3, CallsAreOfOneKind, SamplesAreCounted
    DEF Own, TypeOK, Answers, ReadProgress, TaskAndThread, NoWrites, SchemaPlaces,
    WritePlaces, ReadPlaces, BodyPlaces, Statements
<1>11. /\ outcome'[c] \in {"InitError", "WriteError", "ReadError"} => c \in faulty' \/ schema' = "other"
       /\ c \in reserved' \cup shared' =>
            at'[c] \notin {"idle", "done"} \/ closing'[c] \/ c \in abandoned'
  BY <1>0, <1>2, <1>1, <1>3 DEF Own, TaskAndThread, Reasons, LocksGivenBack, SchemaPlaces,
    WritePlaces, ReadPlaces, BodyPlaces, Statements
<1>12. AllOrNothing' /\ reserved' \subseteq Calls /\ shared' \subseteq Calls
  BY <1>0, <1>3, <1>4 DEF RefuseSnapshot, Settle, TaskOnly, StoreInv, AllOrNothing, TypeOK,
    Calls, database, locks
<1> QED
  BY <1>0, <1>4, <1>5, <1>6, <1>7, <1>8, <1>9, <1>10, <1>11, <1>12, StepKeeps DEF Own

\* A call begins.
LEMMA StartKeeps ==
  ASSUME TypeOK, StoreInv, NEW c \in Calls, Start(c)
  PROVE  StoreInv'
<1>1. Own(c)
  BY InvOfOne
<1>2. at[c] = "idle"
  BY <1>1 DEF Start, TaskOnly, Own, SchemaIsMine
<1>3. /\ at'[c] = "connect"
      /\ sent'[c] = "connect"
      /\ closing'[c] = closing[c]
      /\ result'[c] = result[c]
      /\ verdict'[c] = verdict[c]
      /\ outcome'[c] = "open"
      /\ txn'[c] = txn[c]
      /\ c \in reserved' <=> c \in reserved
      /\ c \in shared' <=> c \in shared
      /\ c \in abandoned' <=> c \in abandoned
      /\ c \in faulty' <=> c \in faulty
      /\ c \in Savers => rowid'[c] = rowid[c]
      /\ c \in Readers => saw'[c] = saw[c]
      /\ schema' = schema /\ history' = history /\ samples' = samples
  BY <1>2, <1>1 DEF Start, TaskOnly, TypeOK, database, locks, task
<1>4. Elsewhere(c) /\ OneWriter'
  BY DEF Start, TaskOnly, TypeOK, database, locks, task, Elsewhere, StoreInv, OneWriter
<1>5. TaskAndThread(c)'
  BY <1>2, <1>1, <1>3, CallsAreOfOneKind, SamplesAreCounted
    DEF Own, TaskAndThread, SchemaPlaces, WritePlaces, ReadPlaces, BodyPlaces, Statements
<1>6. SchemaIsMine(c)'
  BY <1>2, <1>1, <1>3, CallsAreOfOneKind, SamplesAreCounted
    DEF Own, SchemaIsMine, TaskAndThread, NoWrites, SchemaPlaces, WritePlaces, ReadPlaces,
    BodyPlaces, Statements
<1>7. Reasons(c)'
  BY <1>2, <1>1, <1>3, CallsAreOfOneKind, SamplesAreCounted
    DEF Own, Reasons, TaskAndThread, SaveProgress, ReadProgress, SchemaIsMine, Stored,
    SchemaPlaces, WritePlaces, ReadPlaces, BodyPlaces, Statements
<1>8. LocksGivenBack(c)'
  BY <1>2, <1>1, <1>3, CallsAreOfOneKind, SamplesAreCounted
    DEF Own, LocksGivenBack, TaskAndThread, SaveProgress, ReadProgress, SchemaPlaces,
    WritePlaces, ReadPlaces, BodyPlaces, Statements
<1>9. c \in Savers => SaveProgress(c)'
  BY <1>2, <1>1, <1>3, CallsAreOfOneKind, SamplesAreCounted
    DEF Own, TypeOK, Answers, SaveProgress, TaskAndThread, NoWrites, Reasons, Stored,
    SchemaPlaces, WritePlaces, ReadPlaces, BodyPlaces, Statements
<1>10. c \in Readers => ReadProgress(c)'
  BY <1>2, <1>1, <1>3, CallsAreOfOneKind, SamplesAreCounted
    DEF Own, TypeOK, Answers, ReadProgress, TaskAndThread, NoWrites, SchemaPlaces,
    WritePlaces, ReadPlaces, BodyPlaces, Statements
<1>11. /\ outcome'[c] \in {"InitError", "WriteError", "ReadError"} => c \in faulty' \/ schema' = "other"
       /\ c \in reserved' \cup shared' =>
            at'[c] \notin {"idle", "done"} \/ closing'[c] \/ c \in abandoned'
  BY <1>2, <1>1, <1>3 DEF Own, TaskAndThread, Reasons, LocksGivenBack, SchemaPlaces,
    WritePlaces, ReadPlaces, BodyPlaces, Statements
<1>12. AllOrNothing' /\ reserved' \subseteq Calls /\ shared' \subseteq Calls
  BY <1>3, <1>4 DEF Start, TaskOnly, StoreInv, AllOrNothing, TypeOK, Calls, database, locks
<1> QED
  BY <1>4, <1>5, <1>6, <1>7, <1>8, <1>9, <1>10, <1>11, <1>12, StepKeeps DEF Own

\* The next statement is sent.
LEMMA ProceedKeeps ==
  ASSUME TypeOK, StoreInv, NEW c \in Calls, Proceed(c)
  PROVE  StoreInv'
<1>1. Own(c)
  BY InvOfOne
<1>2. at[c] \in Inner /\ WentWell(c)
  BY <1>1 DEF Proceed, Await, TaskOnly, Own, SchemaIsMine
<1>3. /\ at'[c] = Following(c)
      /\ sent'[c] = Following(c)
      /\ closing'[c] = closing[c]
      /\ result'[c] = "none"
      /\ verdict'[c] = verdict[c]
      /\ outcome'[c] = outcome[c]
      /\ txn'[c] = txn[c]
      /\ c \in reserved' <=> c \in reserved
      /\ c \in shared' <=> c \in shared
      /\ c \in abandoned' <=> c \in abandoned
      /\ c \in faulty' <=> c \in faulty
      /\ c \in Savers => rowid'[c] = rowid[c]
      /\ c \in Readers => saw'[c] = saw[c]
      /\ schema' = schema /\ history' = history /\ samples' = samples
  BY <1>2, <1>1 DEF Proceed, Await, TaskOnly, TypeOK, database, locks, task
<1>4. Elsewhere(c) /\ OneWriter'
  BY DEF Proceed, Await, TaskOnly, TypeOK, database, locks, task, Elsewhere, StoreInv, OneWriter
<1>5. TaskAndThread(c)'
  BY <1>2, <1>1, <1>3, WhatFollows, CallsAreOfOneKind, SamplesAreCounted
    DEF Own, TaskAndThread, SchemaPlaces, WritePlaces, ReadPlaces, BodyPlaces, Statements,
    Inner, WentWell, Refused
<1>6. SchemaIsMine(c)'
  BY <1>2, <1>1, <1>3, WhatFollows, CallsAreOfOneKind, SamplesAreCounted
    DEF Own, SchemaIsMine, TaskAndThread, NoWrites, SchemaPlaces, WritePlaces, ReadPlaces,
    BodyPlaces, Statements, Inner, WentWell, Refused, TypeOK, Answers
<1>7. Reasons(c)'
  BY <1>2, <1>1, <1>3, WhatFollows, CallsAreOfOneKind, SamplesAreCounted
    DEF Own, Reasons, TaskAndThread, SaveProgress, ReadProgress, SchemaIsMine, Stored,
    SchemaPlaces, WritePlaces, ReadPlaces, BodyPlaces, Statements, Inner, WentWell, Refused
<1>8. LocksGivenBack(c)'
  BY <1>2, <1>1, <1>3, WhatFollows, CallsAreOfOneKind, SamplesAreCounted
    DEF Own, LocksGivenBack, TaskAndThread, SaveProgress, ReadProgress, SchemaPlaces,
    WritePlaces, ReadPlaces, BodyPlaces, Statements, Inner, WentWell, Refused
<1>9. c \in Savers => SaveProgress(c)'
  BY <1>2, <1>1, <1>3, WhatFollows, CallsAreOfOneKind, SamplesAreCounted
    DEF Own, TypeOK, Answers, SaveProgress, TaskAndThread, NoWrites, Reasons, Stored,
    SchemaPlaces, WritePlaces, ReadPlaces, BodyPlaces, Statements, Inner, WentWell, Refused
<1>10. c \in Readers => ReadProgress(c)'
  BY <1>2, <1>1, <1>3, WhatFollows, CallsAreOfOneKind, SamplesAreCounted
    DEF Own, TypeOK, Answers, ReadProgress, TaskAndThread, NoWrites, SchemaPlaces,
    WritePlaces, ReadPlaces, BodyPlaces, Statements, Inner, WentWell, Refused
<1>11. /\ outcome'[c] \in {"InitError", "WriteError", "ReadError"} => c \in faulty' \/ schema' = "other"
       /\ c \in reserved' \cup shared' =>
            at'[c] \notin {"idle", "done"} \/ closing'[c] \/ c \in abandoned'
  BY <1>2, <1>1, <1>3, WhatFollows
    DEF Own, TaskAndThread, Reasons, LocksGivenBack, SchemaPlaces, WritePlaces, ReadPlaces,
    BodyPlaces, Statements, Inner, WentWell, Refused
<1>12. AllOrNothing' /\ reserved' \subseteq Calls /\ shared' \subseteq Calls
  BY <1>3, <1>4 DEF Proceed, Await, TaskOnly, StoreInv, AllOrNothing, TypeOK, Calls, database,
    locks
<1> QED
  BY <1>4, <1>5, <1>6, <1>7, <1>8, <1>9, <1>10, <1>11, <1>12, StepKeeps DEF Own

\* The body is over.
LEMMA SucceedKeeps ==
  ASSUME TypeOK, StoreInv, NEW c \in Calls, Succeed(c)
  PROVE  StoreInv'
<1>1. Own(c)
  BY InvOfOne
<1>2. at[c] \in {"commit", "fetch"} /\ WentWell(c)
  BY <1>1 DEF Succeed, AwaitClose, Decide, TaskOnly, Own, SchemaIsMine
<1>3. /\ at'[c] = "close"
      /\ sent'[c] = sent[c]
      /\ closing'[c] = TRUE
      /\ result'[c] = "none"
      /\ verdict'[c] = (IF c \in Savers THEN "Stored" ELSE "Rows")
      /\ outcome'[c] = outcome[c]
      /\ txn'[c] = txn[c]
      /\ c \in reserved' <=> c \in reserved
      /\ c \in shared' <=> c \in shared
      /\ c \in abandoned' <=> c \in abandoned
      /\ c \in faulty' <=> c \in faulty
      /\ c \in Savers => rowid'[c] = rowid[c]
      /\ c \in Readers => saw'[c] = saw[c]
      /\ schema' = schema /\ history' = history /\ samples' = samples
  BY <1>2, <1>1 DEF Succeed, AwaitClose, Decide, TaskOnly, TypeOK, database, locks, task
<1>4. Elsewhere(c) /\ OneWriter'
  BY DEF Succeed, AwaitClose, Decide, TaskOnly, TypeOK, database, locks, task, Elsewhere,
    StoreInv, OneWriter
<1>5. TaskAndThread(c)'
  BY <1>2, <1>1, <1>3, CallsAreOfOneKind, SamplesAreCounted
    DEF Own, TaskAndThread, SchemaPlaces, WritePlaces, ReadPlaces, BodyPlaces, Statements,
    WentWell, Refused
<1>6. SchemaIsMine(c)'
  BY <1>2, <1>1, <1>3, CallsAreOfOneKind, SamplesAreCounted
    DEF Own, SchemaIsMine, TaskAndThread, NoWrites, SchemaPlaces, WritePlaces, ReadPlaces,
    BodyPlaces, Statements, WentWell, Refused
<1>7. Reasons(c)'
  <2>1. result[c] = "ok" /\ sent[c] = "none"
    BY <1>1, <1>2 DEF Own, TaskAndThread, WentWell, Refused, TypeOK, Answers, Statements,
      BodyPlaces, WritePlaces, ReadPlaces
  <2>2. Stored' = Stored
    BY <1>3 DEF Stored
  <2>3. CASE at[c] = "commit"
    <3>1. c \in Savers /\ c \in Stored
      BY <1>1, <2>1, <2>3 DEF Own, TaskAndThread, SaveProgress, WritePlaces
    <3> QED
      BY <1>1, <1>3, <2>1, <2>2, <3>1 DEF Own, Reasons
  <2>4. CASE at[c] = "fetch"
    <3>1. c \in Readers /\ c \notin Savers /\ saw[c] # {}
      BY <1>1, <2>4, CallsAreOfOneKind DEF Own, TaskAndThread, ReadProgress, ReadPlaces
    <3> QED
      BY <1>1, <1>3, <2>1, <2>2, <3>1 DEF Own, Reasons
  <2> QED
    BY <1>2, <2>3, <2>4
<1>8. LocksGivenBack(c)'
  BY <1>2, <1>1, <1>3, CallsAreOfOneKind, SamplesAreCounted
    DEF Own, LocksGivenBack, TaskAndThread, SaveProgress, ReadProgress, SchemaPlaces,
    WritePlaces, ReadPlaces, BodyPlaces, Statements, WentWell, Refused
<1>9. c \in Savers => SaveProgress(c)'
  BY <1>2, <1>1, <1>3, CallsAreOfOneKind, SamplesAreCounted
    DEF Own, TypeOK, Answers, SaveProgress, TaskAndThread, NoWrites, Reasons, Stored,
    SchemaPlaces, WritePlaces, ReadPlaces, BodyPlaces, Statements, WentWell, Refused
<1>10. c \in Readers => ReadProgress(c)'
  BY <1>2, <1>1, <1>3, CallsAreOfOneKind, SamplesAreCounted
    DEF Own, TypeOK, Answers, ReadProgress, TaskAndThread, NoWrites, SchemaPlaces,
    WritePlaces, ReadPlaces, BodyPlaces, Statements, WentWell, Refused
<1>11. /\ outcome'[c] \in {"InitError", "WriteError", "ReadError"} => c \in faulty' \/ schema' = "other"
       /\ c \in reserved' \cup shared' =>
            at'[c] \notin {"idle", "done"} \/ closing'[c] \/ c \in abandoned'
  BY <1>2, <1>1, <1>3 DEF Own, TaskAndThread, Reasons, LocksGivenBack, SchemaPlaces,
    WritePlaces, ReadPlaces, BodyPlaces, Statements, WentWell, Refused
<1>12. AllOrNothing' /\ reserved' \subseteq Calls /\ shared' \subseteq Calls
  BY <1>3, <1>4 DEF Succeed, AwaitClose, Decide, TaskOnly, StoreInv, AllOrNothing, TypeOK,
    Calls, database, locks
<1> QED
  BY <1>4, <1>5, <1>6, <1>7, <1>8, <1>9, <1>10, <1>11, <1>12, StepKeeps DEF Own

\* The file cannot be opened.
LEMMA ConnectFailsKeeps ==
  ASSUME TypeOK, StoreInv, NEW c \in Calls, ConnectFails(c)
  PROVE  StoreInv'
<1>1. Own(c)
  BY InvOfOne
<1>2. at[c] = "connect" /\ Refused(c)
  BY <1>1 DEF ConnectFails, Settle, TaskOnly, Own, SchemaIsMine
<1>3. /\ at'[c] = "done"
      /\ sent'[c] = sent[c]
      /\ closing'[c] = closing[c]
      /\ result'[c] = "none"
      /\ verdict'[c] = verdict[c]
      /\ outcome'[c] = "InitError"
      /\ txn'[c] = txn[c]
      /\ c \in reserved' <=> c \in reserved
      /\ c \in shared' <=> c \in shared
      /\ c \in abandoned' <=> c \in abandoned
      /\ c \in faulty' <=> c \in faulty
      /\ c \in Savers => rowid'[c] = rowid[c]
      /\ c \in Readers => saw'[c] = saw[c]
      /\ schema' = schema /\ history' = history /\ samples' = samples
  BY <1>2, <1>1 DEF ConnectFails, Settle, TaskOnly, TypeOK, database, locks, task
<1>4. Elsewhere(c) /\ OneWriter'
  BY DEF ConnectFails, Settle, TaskOnly, TypeOK, database, locks, task, Elsewhere, StoreInv,
    OneWriter
<1>5. TaskAndThread(c)'
  BY <1>2, <1>1, <1>3, CallsAreOfOneKind, SamplesAreCounted
    DEF Own, TaskAndThread, SchemaPlaces, WritePlaces, ReadPlaces, BodyPlaces, Statements,
    WentWell, Refused
<1>6. SchemaIsMine(c)'
  BY <1>2, <1>1, <1>3, CallsAreOfOneKind, SamplesAreCounted
    DEF Own, SchemaIsMine, TaskAndThread, NoWrites, SchemaPlaces, WritePlaces, ReadPlaces,
    BodyPlaces, Statements, WentWell, Refused
<1>7. Reasons(c)'
  BY <1>2, <1>1, <1>3, CallsAreOfOneKind, SamplesAreCounted
    DEF Own, Reasons, TaskAndThread, SaveProgress, ReadProgress, SchemaIsMine, Stored,
    SchemaPlaces, WritePlaces, ReadPlaces, BodyPlaces, Statements, WentWell, Refused
<1>8. LocksGivenBack(c)'
  BY <1>2, <1>1, <1>3, CallsAreOfOneKind, SamplesAreCounted
    DEF Own, LocksGivenBack, TaskAndThread, SaveProgress, ReadProgress, SchemaPlaces,
    WritePlaces, ReadPlaces, BodyPlaces, Statements, WentWell, Refused
<1>9. c \in Savers => SaveProgress(c)'
  BY <1>2, <1>1, <1>3, CallsAreOfOneKind, SamplesAreCounted
    DEF Own, TypeOK, Answers, SaveProgress, TaskAndThread, NoWrites, Reasons, Stored,
    SchemaPlaces, WritePlaces, ReadPlaces, BodyPlaces, Statements, WentWell, Refused
<1>10. c \in Readers => ReadProgress(c)'
  BY <1>2, <1>1, <1>3, CallsAreOfOneKind, SamplesAreCounted
    DEF Own, TypeOK, Answers, ReadProgress, TaskAndThread, NoWrites, SchemaPlaces,
    WritePlaces, ReadPlaces, BodyPlaces, Statements, WentWell, Refused
<1>11. /\ outcome'[c] \in {"InitError", "WriteError", "ReadError"} => c \in faulty' \/ schema' = "other"
       /\ c \in reserved' \cup shared' =>
            at'[c] \notin {"idle", "done"} \/ closing'[c] \/ c \in abandoned'
  BY <1>2, <1>1, <1>3 DEF Own, TaskAndThread, Reasons, LocksGivenBack, SchemaPlaces,
    WritePlaces, ReadPlaces, BodyPlaces, Statements, WentWell, Refused
<1>12. AllOrNothing' /\ reserved' \subseteq Calls /\ shared' \subseteq Calls
  BY <1>3, <1>4 DEF ConnectFails, Settle, TaskOnly, StoreInv, AllOrNothing, TypeOK, Calls,
    database, locks
<1> QED
  BY <1>4, <1>5, <1>6, <1>7, <1>8, <1>9, <1>10, <1>11, <1>12, StepKeeps DEF Own

\* Ensure_schema fails.
LEMMA SchemaFailsKeeps ==
  ASSUME TypeOK, StoreInv, NEW c \in Calls, SchemaFails(c)
  PROVE  StoreInv'
<1>1. Own(c)
  BY InvOfOne
<1>2. at[c] \in SchemaPlaces \ {"rollback_schema"} /\ Refused(c)
  BY <1>1 DEF SchemaFails, Await, Decide, TaskOnly, Own, SchemaIsMine
<1>3. /\ at'[c] = "rollback_schema"
      /\ sent'[c] = "rollback_schema"
      /\ closing'[c] = closing[c]
      /\ result'[c] = "none"
      /\ verdict'[c] = "InitError"
      /\ outcome'[c] = outcome[c]
      /\ txn'[c] = txn[c]
      /\ c \in reserved' <=> c \in reserved
      /\ c \in shared' <=> c \in shared
      /\ c \in abandoned' <=> c \in abandoned
      /\ c \in faulty' <=> c \in faulty
      /\ c \in Savers => rowid'[c] = rowid[c]
      /\ c \in Readers => saw'[c] = saw[c]
      /\ schema' = schema /\ history' = history /\ samples' = samples
  BY <1>2, <1>1 DEF SchemaFails, Await, Decide, TaskOnly, TypeOK, database, locks, task
<1>4. Elsewhere(c) /\ OneWriter'
  BY DEF SchemaFails, Await, Decide, TaskOnly, TypeOK, database, locks, task, Elsewhere,
    StoreInv, OneWriter
<1>5. TaskAndThread(c)'
  BY <1>2, <1>1, <1>3, CallsAreOfOneKind, SamplesAreCounted
    DEF Own, TaskAndThread, SchemaPlaces, WritePlaces, ReadPlaces, BodyPlaces, Statements,
    WentWell, Refused
<1>6. SchemaIsMine(c)'
  BY <1>2, <1>1, <1>3, CallsAreOfOneKind, SamplesAreCounted
    DEF Own, SchemaIsMine, TaskAndThread, NoWrites, SchemaPlaces, WritePlaces, ReadPlaces,
    BodyPlaces, Statements, WentWell, Refused
<1>7. Reasons(c)'
  BY <1>2, <1>1, <1>3, CallsAreOfOneKind, SamplesAreCounted
    DEF Own, Reasons, TaskAndThread, SaveProgress, ReadProgress, SchemaIsMine, Stored,
    SchemaPlaces, WritePlaces, ReadPlaces, BodyPlaces, Statements, WentWell, Refused
<1>8. LocksGivenBack(c)'
  BY <1>2, <1>1, <1>3, CallsAreOfOneKind, SamplesAreCounted
    DEF Own, LocksGivenBack, TaskAndThread, SaveProgress, ReadProgress, SchemaPlaces,
    WritePlaces, ReadPlaces, BodyPlaces, Statements, WentWell, Refused
<1>9. c \in Savers => SaveProgress(c)'
  BY <1>2, <1>1, <1>3, CallsAreOfOneKind, SamplesAreCounted
    DEF Own, TypeOK, Answers, SaveProgress, TaskAndThread, NoWrites, Reasons, Stored,
    SchemaPlaces, WritePlaces, ReadPlaces, BodyPlaces, Statements, WentWell, Refused
<1>10. c \in Readers => ReadProgress(c)'
  BY <1>2, <1>1, <1>3, CallsAreOfOneKind, SamplesAreCounted
    DEF Own, TypeOK, Answers, ReadProgress, TaskAndThread, NoWrites, SchemaPlaces,
    WritePlaces, ReadPlaces, BodyPlaces, Statements, WentWell, Refused
<1>11. /\ outcome'[c] \in {"InitError", "WriteError", "ReadError"} => c \in faulty' \/ schema' = "other"
       /\ c \in reserved' \cup shared' =>
            at'[c] \notin {"idle", "done"} \/ closing'[c] \/ c \in abandoned'
  BY <1>2, <1>1, <1>3 DEF Own, TaskAndThread, Reasons, LocksGivenBack, SchemaPlaces,
    WritePlaces, ReadPlaces, BodyPlaces, Statements, WentWell, Refused
<1>12. AllOrNothing' /\ reserved' \subseteq Calls /\ shared' \subseteq Calls
  BY <1>3, <1>4 DEF SchemaFails, Await, Decide, TaskOnly, StoreInv, AllOrNothing, TypeOK,
    Calls, database, locks
<1> QED
  BY <1>4, <1>5, <1>6, <1>7, <1>8, <1>9, <1>10, <1>11, <1>12, StepKeeps DEF Own

\* A save fails.
LEMMA WriteFailsKeeps ==
  ASSUME TypeOK, StoreInv, NEW c \in Calls, WriteFails(c)
  PROVE  StoreInv'
<1>1. Own(c)
  BY InvOfOne
<1>2. at[c] \in WritePlaces /\ Refused(c)
  BY <1>1 DEF WriteFails, Await, Decide, TaskOnly, Own, SchemaIsMine
<1>3. /\ at'[c] = "rollback"
      /\ sent'[c] = "rollback"
      /\ closing'[c] = closing[c]
      /\ result'[c] = "none"
      /\ verdict'[c] = "WriteError"
      /\ outcome'[c] = outcome[c]
      /\ txn'[c] = txn[c]
      /\ c \in reserved' <=> c \in reserved
      /\ c \in shared' <=> c \in shared
      /\ c \in abandoned' <=> c \in abandoned
      /\ c \in faulty' <=> c \in faulty
      /\ c \in Savers => rowid'[c] = rowid[c]
      /\ c \in Readers => saw'[c] = saw[c]
      /\ schema' = schema /\ history' = history /\ samples' = samples
  BY <1>2, <1>1 DEF WriteFails, Await, Decide, TaskOnly, TypeOK, database, locks, task
<1>4. Elsewhere(c) /\ OneWriter'
  BY DEF WriteFails, Await, Decide, TaskOnly, TypeOK, database, locks, task, Elsewhere,
    StoreInv, OneWriter
<1>5. TaskAndThread(c)'
  BY <1>2, <1>1, <1>3, CallsAreOfOneKind, SamplesAreCounted
    DEF Own, TaskAndThread, SchemaPlaces, WritePlaces, ReadPlaces, BodyPlaces, Statements,
    WentWell, Refused
<1>6. SchemaIsMine(c)'
  BY <1>2, <1>1, <1>3, CallsAreOfOneKind, SamplesAreCounted
    DEF Own, SchemaIsMine, TaskAndThread, NoWrites, SchemaPlaces, WritePlaces, ReadPlaces,
    BodyPlaces, Statements, WentWell, Refused
<1>7. Reasons(c)'
  BY <1>2, <1>1, <1>3, CallsAreOfOneKind, SamplesAreCounted
    DEF Own, Reasons, TaskAndThread, SaveProgress, ReadProgress, SchemaIsMine, Stored,
    SchemaPlaces, WritePlaces, ReadPlaces, BodyPlaces, Statements, WentWell, Refused
<1>8. LocksGivenBack(c)'
  BY <1>2, <1>1, <1>3, CallsAreOfOneKind, SamplesAreCounted
    DEF Own, LocksGivenBack, TaskAndThread, SaveProgress, ReadProgress, SchemaPlaces,
    WritePlaces, ReadPlaces, BodyPlaces, Statements, WentWell, Refused
<1>9. c \in Savers => SaveProgress(c)'
  BY <1>2, <1>1, <1>3, CallsAreOfOneKind, SamplesAreCounted
    DEF Own, TypeOK, Answers, SaveProgress, TaskAndThread, NoWrites, Reasons, Stored,
    SchemaPlaces, WritePlaces, ReadPlaces, BodyPlaces, Statements, WentWell, Refused
<1>10. c \in Readers => ReadProgress(c)'
  BY <1>2, <1>1, <1>3, CallsAreOfOneKind, SamplesAreCounted
    DEF Own, TypeOK, Answers, ReadProgress, TaskAndThread, NoWrites, SchemaPlaces,
    WritePlaces, ReadPlaces, BodyPlaces, Statements, WentWell, Refused
<1>11. /\ outcome'[c] \in {"InitError", "WriteError", "ReadError"} => c \in faulty' \/ schema' = "other"
       /\ c \in reserved' \cup shared' =>
            at'[c] \notin {"idle", "done"} \/ closing'[c] \/ c \in abandoned'
  BY <1>2, <1>1, <1>3 DEF Own, TaskAndThread, Reasons, LocksGivenBack, SchemaPlaces,
    WritePlaces, ReadPlaces, BodyPlaces, Statements, WentWell, Refused
<1>12. AllOrNothing' /\ reserved' \subseteq Calls /\ shared' \subseteq Calls
  BY <1>3, <1>4 DEF WriteFails, Await, Decide, TaskOnly, StoreInv, AllOrNothing, TypeOK,
    Calls, database, locks
<1> QED
  BY <1>4, <1>5, <1>6, <1>7, <1>8, <1>9, <1>10, <1>11, <1>12, StepKeeps DEF Own

\* A read fails.
LEMMA ReadFailsKeeps ==
  ASSUME TypeOK, StoreInv, NEW c \in Calls, ReadFails(c)
  PROVE  StoreInv'
<1>1. Own(c)
  BY InvOfOne
<1>2. at[c] \in ReadPlaces /\ Refused(c)
  BY <1>1 DEF ReadFails, AwaitClose, Decide, TaskOnly, Own, SchemaIsMine
<1>3. /\ at'[c] = "close"
      /\ sent'[c] = sent[c]
      /\ closing'[c] = TRUE
      /\ result'[c] = "none"
      /\ verdict'[c] = "ReadError"
      /\ outcome'[c] = outcome[c]
      /\ txn'[c] = txn[c]
      /\ c \in reserved' <=> c \in reserved
      /\ c \in shared' <=> c \in shared
      /\ c \in abandoned' <=> c \in abandoned
      /\ c \in faulty' <=> c \in faulty
      /\ c \in Savers => rowid'[c] = rowid[c]
      /\ c \in Readers => saw'[c] = saw[c]
      /\ schema' = schema /\ history' = history /\ samples' = samples
  BY <1>2, <1>1 DEF ReadFails, AwaitClose, Decide, TaskOnly, TypeOK, database, locks, task
<1>4. Elsewhere(c) /\ OneWriter'
  BY DEF ReadFails, AwaitClose, Decide, TaskOnly, TypeOK, database, locks, task, Elsewhere,
    StoreInv, OneWriter
<1>5. TaskAndThread(c)'
  BY <1>2, <1>1, <1>3, CallsAreOfOneKind, SamplesAreCounted
    DEF Own, TaskAndThread, SchemaPlaces, WritePlaces, ReadPlaces, BodyPlaces, Statements,
    WentWell, Refused
<1>6. SchemaIsMine(c)'
  BY <1>2, <1>1, <1>3, CallsAreOfOneKind, SamplesAreCounted
    DEF Own, SchemaIsMine, TaskAndThread, NoWrites, SchemaPlaces, WritePlaces, ReadPlaces,
    BodyPlaces, Statements, WentWell, Refused
<1>7. Reasons(c)'
  BY <1>2, <1>1, <1>3, CallsAreOfOneKind, SamplesAreCounted
    DEF Own, Reasons, TaskAndThread, SaveProgress, ReadProgress, SchemaIsMine, Stored,
    SchemaPlaces, WritePlaces, ReadPlaces, BodyPlaces, Statements, WentWell, Refused
<1>8. LocksGivenBack(c)'
  BY <1>2, <1>1, <1>3, CallsAreOfOneKind, SamplesAreCounted
    DEF Own, LocksGivenBack, TaskAndThread, SaveProgress, ReadProgress, SchemaPlaces,
    WritePlaces, ReadPlaces, BodyPlaces, Statements, WentWell, Refused
<1>9. c \in Savers => SaveProgress(c)'
  BY <1>2, <1>1, <1>3, CallsAreOfOneKind, SamplesAreCounted
    DEF Own, TypeOK, Answers, SaveProgress, TaskAndThread, NoWrites, Reasons, Stored,
    SchemaPlaces, WritePlaces, ReadPlaces, BodyPlaces, Statements, WentWell, Refused
<1>10. c \in Readers => ReadProgress(c)'
  BY <1>2, <1>1, <1>3, CallsAreOfOneKind, SamplesAreCounted
    DEF Own, TypeOK, Answers, ReadProgress, TaskAndThread, NoWrites, SchemaPlaces,
    WritePlaces, ReadPlaces, BodyPlaces, Statements, WentWell, Refused
<1>11. /\ outcome'[c] \in {"InitError", "WriteError", "ReadError"} => c \in faulty' \/ schema' = "other"
       /\ c \in reserved' \cup shared' =>
            at'[c] \notin {"idle", "done"} \/ closing'[c] \/ c \in abandoned'
  BY <1>2, <1>1, <1>3 DEF Own, TaskAndThread, Reasons, LocksGivenBack, SchemaPlaces,
    WritePlaces, ReadPlaces, BodyPlaces, Statements, WentWell, Refused
<1>12. AllOrNothing' /\ reserved' \subseteq Calls /\ shared' \subseteq Calls
  BY <1>3, <1>4 DEF ReadFails, AwaitClose, Decide, TaskOnly, StoreInv, AllOrNothing, TypeOK,
    Calls, database, locks
<1> QED
  BY <1>4, <1>5, <1>6, <1>7, <1>8, <1>9, <1>10, <1>11, <1>12, StepKeeps DEF Own

\* After the rollback comes the close.
LEMMA RolledBackKeeps ==
  ASSUME TypeOK, StoreInv, NEW c \in Calls, RolledBack(c)
  PROVE  StoreInv'
<1>1. Own(c)
  BY InvOfOne
<1>2. at[c] \in {"rollback_schema", "rollback"} /\ result[c] # "none"
  BY <1>1 DEF RolledBack, AwaitClose, TaskOnly, Own, SchemaIsMine
<1>3. /\ at'[c] = (IF at[c] = "rollback" THEN "close" ELSE "close_schema")
      /\ sent'[c] = sent[c]
      /\ closing'[c] = TRUE
      /\ result'[c] = "none"
      /\ verdict'[c] = verdict[c]
      /\ outcome'[c] = outcome[c]
      /\ txn'[c] = txn[c]
      /\ c \in reserved' <=> c \in reserved
      /\ c \in shared' <=> c \in shared
      /\ c \in abandoned' <=> c \in abandoned
      /\ c \in faulty' <=> c \in faulty
      /\ c \in Savers => rowid'[c] = rowid[c]
      /\ c \in Readers => saw'[c] = saw[c]
      /\ schema' = schema /\ history' = history /\ samples' = samples
  BY <1>2, <1>1 DEF RolledBack, AwaitClose, TaskOnly, TypeOK, database, locks, task
<1>4. Elsewhere(c) /\ OneWriter'
  BY DEF RolledBack, AwaitClose, TaskOnly, TypeOK, database, locks, task, Elsewhere, StoreInv,
    OneWriter
<1>5. TaskAndThread(c)'
  BY <1>2, <1>1, <1>3, CallsAreOfOneKind, SamplesAreCounted
    DEF Own, TaskAndThread, SchemaPlaces, WritePlaces, ReadPlaces, BodyPlaces, Statements
<1>6. SchemaIsMine(c)'
  BY <1>2, <1>1, <1>3, CallsAreOfOneKind, SamplesAreCounted
    DEF Own, SchemaIsMine, TaskAndThread, NoWrites, SchemaPlaces, WritePlaces, ReadPlaces,
    BodyPlaces, Statements
<1>7. Reasons(c)'
  BY <1>2, <1>1, <1>3, CallsAreOfOneKind, SamplesAreCounted
    DEF Own, Reasons, TaskAndThread, SaveProgress, ReadProgress, SchemaIsMine, Stored,
    SchemaPlaces, WritePlaces, ReadPlaces, BodyPlaces, Statements
<1>8. LocksGivenBack(c)'
  BY <1>2, <1>1, <1>3, CallsAreOfOneKind, SamplesAreCounted
    DEF Own, LocksGivenBack, TaskAndThread, SaveProgress, ReadProgress, SchemaPlaces,
    WritePlaces, ReadPlaces, BodyPlaces, Statements
<1>9. c \in Savers => SaveProgress(c)'
  BY <1>2, <1>1, <1>3, CallsAreOfOneKind, SamplesAreCounted
    DEF Own, TypeOK, Answers, SaveProgress, TaskAndThread, NoWrites, Reasons, Stored,
    SchemaPlaces, WritePlaces, ReadPlaces, BodyPlaces, Statements
<1>10. c \in Readers => ReadProgress(c)'
  BY <1>2, <1>1, <1>3, CallsAreOfOneKind, SamplesAreCounted
    DEF Own, TypeOK, Answers, ReadProgress, TaskAndThread, NoWrites, SchemaPlaces,
    WritePlaces, ReadPlaces, BodyPlaces, Statements
<1>11. /\ outcome'[c] \in {"InitError", "WriteError", "ReadError"} => c \in faulty' \/ schema' = "other"
       /\ c \in reserved' \cup shared' =>
            at'[c] \notin {"idle", "done"} \/ closing'[c] \/ c \in abandoned'
  BY <1>2, <1>1, <1>3 DEF Own, TaskAndThread, Reasons, LocksGivenBack, SchemaPlaces,
    WritePlaces, ReadPlaces, BodyPlaces, Statements
<1>12. AllOrNothing' /\ reserved' \subseteq Calls /\ shared' \subseteq Calls
  BY <1>3, <1>4 DEF RolledBack, AwaitClose, TaskOnly, StoreInv, AllOrNothing, TypeOK, Calls,
    database, locks
<1> QED
  BY <1>4, <1>5, <1>6, <1>7, <1>8, <1>9, <1>10, <1>11, <1>12, StepKeeps DEF Own

\* The call is over.
LEMMA ClosedKeeps ==
  ASSUME TypeOK, StoreInv, NEW c \in Calls, Closed(c)
  PROVE  StoreInv'
<1>1. Own(c)
  BY InvOfOne
<1>2. at[c] \in {"close_schema", "close"} /\ result[c] # "none"
  BY <1>1 DEF Closed, Settle, TaskOnly, Own, SchemaIsMine
<1>3. /\ at'[c] = "done"
      /\ sent'[c] = sent[c]
      /\ closing'[c] = closing[c]
      /\ result'[c] = "none"
      /\ verdict'[c] = verdict[c]
      /\ outcome'[c] = verdict[c]
      /\ txn'[c] = txn[c]
      /\ c \in reserved' <=> c \in reserved
      /\ c \in shared' <=> c \in shared
      /\ c \in abandoned' <=> c \in abandoned
      /\ c \in faulty' <=> c \in faulty
      /\ c \in Savers => rowid'[c] = rowid[c]
      /\ c \in Readers => saw'[c] = saw[c]
      /\ schema' = schema /\ history' = history /\ samples' = samples
  BY <1>2, <1>1 DEF Closed, Settle, TaskOnly, TypeOK, database, locks, task
<1>4. Elsewhere(c) /\ OneWriter'
  BY DEF Closed, Settle, TaskOnly, TypeOK, database, locks, task, Elsewhere, StoreInv, OneWriter
<1>5. TaskAndThread(c)'
  BY <1>2, <1>1, <1>3, CallsAreOfOneKind, SamplesAreCounted
    DEF Own, TaskAndThread, Reasons, SchemaPlaces, WritePlaces, ReadPlaces, BodyPlaces,
    Statements
<1>6. SchemaIsMine(c)'
  BY <1>2, <1>1, <1>3, CallsAreOfOneKind, SamplesAreCounted
    DEF Own, SchemaIsMine, TaskAndThread, NoWrites, SchemaPlaces, WritePlaces, ReadPlaces,
    BodyPlaces, Statements
<1>7. Reasons(c)'
  BY <1>2, <1>1, <1>3, CallsAreOfOneKind, SamplesAreCounted
    DEF Own, Reasons, TaskAndThread, SaveProgress, ReadProgress, SchemaIsMine, Stored,
    SchemaPlaces, WritePlaces, ReadPlaces, BodyPlaces, Statements
<1>8. LocksGivenBack(c)'
  BY <1>2, <1>1, <1>3, CallsAreOfOneKind, SamplesAreCounted
    DEF Own, LocksGivenBack, TaskAndThread, SaveProgress, ReadProgress, SchemaPlaces,
    WritePlaces, ReadPlaces, BodyPlaces, Statements
<1>9. c \in Savers => SaveProgress(c)'
  BY <1>2, <1>1, <1>3, CallsAreOfOneKind, SamplesAreCounted
    DEF Own, TypeOK, Answers, SaveProgress, TaskAndThread, NoWrites, Reasons, Stored,
    SchemaPlaces, WritePlaces, ReadPlaces, BodyPlaces, Statements
<1>10. c \in Readers => ReadProgress(c)'
  BY <1>2, <1>1, <1>3, CallsAreOfOneKind, SamplesAreCounted
    DEF Own, TypeOK, Answers, ReadProgress, TaskAndThread, NoWrites, SchemaPlaces,
    WritePlaces, ReadPlaces, BodyPlaces, Statements
<1>11. /\ outcome'[c] \in {"InitError", "WriteError", "ReadError"} => c \in faulty' \/ schema' = "other"
       /\ c \in reserved' \cup shared' =>
            at'[c] \notin {"idle", "done"} \/ closing'[c] \/ c \in abandoned'
  BY <1>2, <1>1, <1>3 DEF Own, TaskAndThread, Reasons, LocksGivenBack, SchemaPlaces,
    WritePlaces, ReadPlaces, BodyPlaces, Statements
<1>12. AllOrNothing' /\ reserved' \subseteq Calls /\ shared' \subseteq Calls
  BY <1>3, <1>4 DEF Closed, Settle, TaskOnly, StoreInv, AllOrNothing, TypeOK, Calls, database,
    locks
<1> QED
  BY <1>4, <1>5, <1>6, <1>7, <1>8, <1>9, <1>10, <1>11, <1>12, StepKeeps DEF Own

\* A cancellation in ensure_schema.
LEMMA CancelOpeningKeeps ==
  ASSUME TypeOK, StoreInv, NEW c \in Calls, CancelOpening(c)
  PROVE  StoreInv'
<1>1. Own(c)
  BY InvOfOne
<1>2. at[c] \in {"connect", "close_schema"} \cup SchemaPlaces
  BY <1>1 DEF CancelOpening, Settle, Own, SchemaIsMine
<1>3. /\ at'[c] = "done"
      /\ sent'[c] = sent[c]
      /\ closing'[c] = closing[c]
      /\ result'[c] = "none"
      /\ verdict'[c] = verdict[c]
      /\ outcome'[c] = "Cancelled"
      /\ txn'[c] = txn[c]
      /\ c \in reserved' <=> c \in reserved
      /\ c \in shared' <=> c \in shared
      /\ c \in abandoned' <=> c \in abandoned \/ at[c] \in SchemaPlaces
      /\ c \in faulty' <=> c \in faulty
      /\ c \in Savers => rowid'[c] = rowid[c]
      /\ c \in Readers => saw'[c] = saw[c]
      /\ schema' = schema /\ history' = history /\ samples' = samples
  BY <1>2, <1>1 DEF CancelOpening, Settle, TypeOK, database, locks, task
<1>4. Elsewhere(c) /\ OneWriter'
  BY DEF CancelOpening, Settle, TypeOK, database, locks, task, Elsewhere, StoreInv, OneWriter
<1>5. TaskAndThread(c)'
  BY <1>2, <1>1, <1>3, CallsAreOfOneKind, SamplesAreCounted
    DEF Own, TaskAndThread, SchemaPlaces, WritePlaces, ReadPlaces, BodyPlaces, Statements
<1>6. SchemaIsMine(c)'
  BY <1>2, <1>1, <1>3, CallsAreOfOneKind, SamplesAreCounted
    DEF Own, SchemaIsMine, TaskAndThread, NoWrites, SchemaPlaces, WritePlaces, ReadPlaces,
    BodyPlaces, Statements
<1>7. Reasons(c)'
  BY <1>2, <1>1, <1>3, CallsAreOfOneKind, SamplesAreCounted
    DEF Own, Reasons, TaskAndThread, SaveProgress, ReadProgress, SchemaIsMine, Stored,
    SchemaPlaces, WritePlaces, ReadPlaces, BodyPlaces, Statements
<1>8. LocksGivenBack(c)'
  BY <1>2, <1>1, <1>3, CallsAreOfOneKind, SamplesAreCounted
    DEF Own, LocksGivenBack, TaskAndThread, SaveProgress, ReadProgress, SchemaPlaces,
    WritePlaces, ReadPlaces, BodyPlaces, Statements
<1>9. c \in Savers => SaveProgress(c)'
  BY <1>2, <1>1, <1>3, CallsAreOfOneKind, SamplesAreCounted
    DEF Own, TypeOK, Answers, SaveProgress, TaskAndThread, NoWrites, Reasons, Stored,
    SchemaPlaces, WritePlaces, ReadPlaces, BodyPlaces, Statements
<1>10. c \in Readers => ReadProgress(c)'
  BY <1>2, <1>1, <1>3, CallsAreOfOneKind, SamplesAreCounted
    DEF Own, TypeOK, Answers, ReadProgress, TaskAndThread, NoWrites, SchemaPlaces,
    WritePlaces, ReadPlaces, BodyPlaces, Statements
<1>11. /\ outcome'[c] \in {"InitError", "WriteError", "ReadError"} => c \in faulty' \/ schema' = "other"
       /\ c \in reserved' \cup shared' =>
            at'[c] \notin {"idle", "done"} \/ closing'[c] \/ c \in abandoned'
  BY <1>2, <1>1, <1>3 DEF Own, TaskAndThread, Reasons, LocksGivenBack, SchemaPlaces,
    WritePlaces, ReadPlaces, BodyPlaces, Statements
<1>12. AllOrNothing' /\ reserved' \subseteq Calls /\ shared' \subseteq Calls
  BY <1>3, <1>4 DEF CancelOpening, Settle, StoreInv, AllOrNothing, TypeOK, Calls, database,
    locks
<1> QED
  BY <1>4, <1>5, <1>6, <1>7, <1>8, <1>9, <1>10, <1>11, <1>12, StepKeeps DEF Own

\* A cancellation in the body.
LEMMA CancelBodyKeeps ==
  ASSUME TypeOK, StoreInv, NEW c \in Calls, CancelBody(c)
  PROVE  StoreInv'
<1>1. Own(c)
  BY InvOfOne
<1>2. at[c] \in BodyPlaces
  BY <1>1 DEF CancelBody, AwaitClose, Decide, TaskOnly, Own, SchemaIsMine
<1>3. /\ at'[c] = "close"
      /\ sent'[c] = sent[c]
      /\ closing'[c] = TRUE
      /\ result'[c] = "none"
      /\ verdict'[c] = "Cancelled"
      /\ outcome'[c] = outcome[c]
      /\ txn'[c] = txn[c]
      /\ c \in reserved' <=> c \in reserved
      /\ c \in shared' <=> c \in shared
      /\ c \in abandoned' <=> c \in abandoned
      /\ c \in faulty' <=> c \in faulty
      /\ c \in Savers => rowid'[c] = rowid[c]
      /\ c \in Readers => saw'[c] = saw[c]
      /\ schema' = schema /\ history' = history /\ samples' = samples
  BY <1>2, <1>1 DEF CancelBody, AwaitClose, Decide, TaskOnly, TypeOK, database, locks, task
<1>4. Elsewhere(c) /\ OneWriter'
  BY DEF CancelBody, AwaitClose, Decide, TaskOnly, TypeOK, database, locks, task, Elsewhere,
    StoreInv, OneWriter
<1>5. TaskAndThread(c)'
  BY <1>2, <1>1, <1>3, CallsAreOfOneKind, SamplesAreCounted
    DEF Own, TaskAndThread, SchemaPlaces, WritePlaces, ReadPlaces, BodyPlaces, Statements
<1>6. SchemaIsMine(c)'
  BY <1>2, <1>1, <1>3, CallsAreOfOneKind, SamplesAreCounted
    DEF Own, SchemaIsMine, TaskAndThread, NoWrites, SchemaPlaces, WritePlaces, ReadPlaces,
    BodyPlaces, Statements
<1>7. Reasons(c)'
  BY <1>2, <1>1, <1>3, CallsAreOfOneKind, SamplesAreCounted
    DEF Own, Reasons, TaskAndThread, SaveProgress, ReadProgress, SchemaIsMine, Stored,
    SchemaPlaces, WritePlaces, ReadPlaces, BodyPlaces, Statements
<1>8. LocksGivenBack(c)'
  BY <1>2, <1>1, <1>3, CallsAreOfOneKind, SamplesAreCounted
    DEF Own, LocksGivenBack, TaskAndThread, SaveProgress, ReadProgress, SchemaPlaces,
    WritePlaces, ReadPlaces, BodyPlaces, Statements
<1>9. c \in Savers => SaveProgress(c)'
  BY <1>2, <1>1, <1>3, CallsAreOfOneKind, SamplesAreCounted
    DEF Own, TypeOK, Answers, SaveProgress, TaskAndThread, NoWrites, Reasons, Stored,
    SchemaPlaces, WritePlaces, ReadPlaces, BodyPlaces, Statements
<1>10. c \in Readers => ReadProgress(c)'
  BY <1>2, <1>1, <1>3, CallsAreOfOneKind, SamplesAreCounted
    DEF Own, TypeOK, Answers, ReadProgress, TaskAndThread, NoWrites, SchemaPlaces,
    WritePlaces, ReadPlaces, BodyPlaces, Statements
<1>11. /\ outcome'[c] \in {"InitError", "WriteError", "ReadError"} => c \in faulty' \/ schema' = "other"
       /\ c \in reserved' \cup shared' =>
            at'[c] \notin {"idle", "done"} \/ closing'[c] \/ c \in abandoned'
  BY <1>2, <1>1, <1>3 DEF Own, TaskAndThread, Reasons, LocksGivenBack, SchemaPlaces,
    WritePlaces, ReadPlaces, BodyPlaces, Statements
<1>12. AllOrNothing' /\ reserved' \subseteq Calls /\ shared' \subseteq Calls
  BY <1>3, <1>4 DEF CancelBody, AwaitClose, Decide, TaskOnly, StoreInv, AllOrNothing, TypeOK,
    Calls, database, locks
<1> QED
  BY <1>4, <1>5, <1>6, <1>7, <1>8, <1>9, <1>10, <1>11, <1>12, StepKeeps DEF Own

\* A cancellation at the close.
LEMMA CancelCloseKeeps ==
  ASSUME TypeOK, StoreInv, NEW c \in Calls, CancelClose(c)
  PROVE  StoreInv'
<1>1. Own(c)
  BY InvOfOne
<1>2. at[c] = "close"
  BY <1>1 DEF CancelClose, Settle, TaskOnly, Own, SchemaIsMine
<1>3. /\ at'[c] = "done"
      /\ sent'[c] = sent[c]
      /\ closing'[c] = closing[c]
      /\ result'[c] = "none"
      /\ verdict'[c] = verdict[c]
      /\ outcome'[c] = "Cancelled"
      /\ txn'[c] = txn[c]
      /\ c \in reserved' <=> c \in reserved
      /\ c \in shared' <=> c \in shared
      /\ c \in abandoned' <=> c \in abandoned
      /\ c \in faulty' <=> c \in faulty
      /\ c \in Savers => rowid'[c] = rowid[c]
      /\ c \in Readers => saw'[c] = saw[c]
      /\ schema' = schema /\ history' = history /\ samples' = samples
  BY <1>2, <1>1 DEF CancelClose, Settle, TaskOnly, TypeOK, database, locks, task
<1>4. Elsewhere(c) /\ OneWriter'
  BY DEF CancelClose, Settle, TaskOnly, TypeOK, database, locks, task, Elsewhere, StoreInv,
    OneWriter
<1>5. TaskAndThread(c)'
  BY <1>2, <1>1, <1>3, CallsAreOfOneKind, SamplesAreCounted
    DEF Own, TaskAndThread, SchemaPlaces, WritePlaces, ReadPlaces, BodyPlaces, Statements
<1>6. SchemaIsMine(c)'
  BY <1>2, <1>1, <1>3, CallsAreOfOneKind, SamplesAreCounted
    DEF Own, SchemaIsMine, TaskAndThread, NoWrites, SchemaPlaces, WritePlaces, ReadPlaces,
    BodyPlaces, Statements
<1>7. Reasons(c)'
  BY <1>2, <1>1, <1>3, CallsAreOfOneKind, SamplesAreCounted
    DEF Own, Reasons, TaskAndThread, SaveProgress, ReadProgress, SchemaIsMine, Stored,
    SchemaPlaces, WritePlaces, ReadPlaces, BodyPlaces, Statements
<1>8. LocksGivenBack(c)'
  BY <1>2, <1>1, <1>3, CallsAreOfOneKind, SamplesAreCounted
    DEF Own, LocksGivenBack, TaskAndThread, SaveProgress, ReadProgress, SchemaPlaces,
    WritePlaces, ReadPlaces, BodyPlaces, Statements
<1>9. c \in Savers => SaveProgress(c)'
  BY <1>2, <1>1, <1>3, CallsAreOfOneKind, SamplesAreCounted
    DEF Own, TypeOK, Answers, SaveProgress, TaskAndThread, NoWrites, Reasons, Stored,
    SchemaPlaces, WritePlaces, ReadPlaces, BodyPlaces, Statements
<1>10. c \in Readers => ReadProgress(c)'
  BY <1>2, <1>1, <1>3, CallsAreOfOneKind, SamplesAreCounted
    DEF Own, TypeOK, Answers, ReadProgress, TaskAndThread, NoWrites, SchemaPlaces,
    WritePlaces, ReadPlaces, BodyPlaces, Statements
<1>11. /\ outcome'[c] \in {"InitError", "WriteError", "ReadError"} => c \in faulty' \/ schema' = "other"
       /\ c \in reserved' \cup shared' =>
            at'[c] \notin {"idle", "done"} \/ closing'[c] \/ c \in abandoned'
  BY <1>2, <1>1, <1>3 DEF Own, TaskAndThread, Reasons, LocksGivenBack, SchemaPlaces,
    WritePlaces, ReadPlaces, BodyPlaces, Statements
<1>12. AllOrNothing' /\ reserved' \subseteq Calls /\ shared' \subseteq Calls
  BY <1>3, <1>4 DEF CancelClose, Settle, TaskOnly, StoreInv, AllOrNothing, TypeOK, Calls,
    database, locks
<1> QED
  BY <1>4, <1>5, <1>6, <1>7, <1>8, <1>9, <1>10, <1>11, <1>12, StepKeeps DEF Own

\* The garbage collector.
LEMMA CollectKeeps ==
  ASSUME TypeOK, StoreInv, NEW c \in Calls, Collect(c)
  PROVE  StoreInv'
<1>1. Own(c)
  BY InvOfOne
<1>2. c \in abandoned /\ sent[c] = "none"
  BY <1>1 DEF Collect, Release, Own, SchemaIsMine
<1>3. /\ at'[c] = at[c]
      /\ sent'[c] = sent[c]
      /\ closing'[c] = closing[c]
      /\ result'[c] = result[c]
      /\ verdict'[c] = verdict[c]
      /\ outcome'[c] = outcome[c]
      /\ txn'[c] = NoWrites
      /\ c \notin reserved'
      /\ c \in shared' <=> c \in shared
      /\ c \notin abandoned'
      /\ c \in faulty' <=> c \in faulty
      /\ c \in Savers => rowid'[c] = rowid[c]
      /\ c \in Readers => saw'[c] = saw[c]
      /\ schema' = schema /\ history' = history /\ samples' = samples
  BY <1>2, <1>1 DEF Collect, Release, TypeOK, database, locks, task
<1>4. Elsewhere(c) /\ OneWriter'
  BY DEF Collect, Release, TypeOK, database, locks, task, Elsewhere, StoreInv, OneWriter
<1>5. TaskAndThread(c)'
  BY <1>2, <1>1, <1>3, CallsAreOfOneKind, SamplesAreCounted
    DEF Own, TaskAndThread, SchemaPlaces, WritePlaces, ReadPlaces, BodyPlaces, Statements
<1>6. SchemaIsMine(c)'
  BY <1>2, <1>1, <1>3, CallsAreOfOneKind, SamplesAreCounted
    DEF Own, SchemaIsMine, TaskAndThread, NoWrites, SchemaPlaces, WritePlaces, ReadPlaces,
    BodyPlaces, Statements
<1>7. Reasons(c)'
  BY <1>2, <1>1, <1>3, CallsAreOfOneKind, SamplesAreCounted
    DEF Own, Reasons, TaskAndThread, SaveProgress, ReadProgress, SchemaIsMine, Stored,
    SchemaPlaces, WritePlaces, ReadPlaces, BodyPlaces, Statements
<1>8. LocksGivenBack(c)'
  BY <1>2, <1>1, <1>3, CallsAreOfOneKind, SamplesAreCounted
    DEF Own, LocksGivenBack, TaskAndThread, SaveProgress, ReadProgress, SchemaPlaces,
    WritePlaces, ReadPlaces, BodyPlaces, Statements
<1>9. c \in Savers => SaveProgress(c)'
  BY <1>2, <1>1, <1>3, CallsAreOfOneKind, SamplesAreCounted
    DEF Own, TypeOK, Answers, SaveProgress, TaskAndThread, NoWrites, Reasons, Stored,
    SchemaPlaces, WritePlaces, ReadPlaces, BodyPlaces, Statements
<1>10. c \in Readers => ReadProgress(c)'
  BY <1>2, <1>1, <1>3, CallsAreOfOneKind, SamplesAreCounted
    DEF Own, TypeOK, Answers, ReadProgress, TaskAndThread, NoWrites, SchemaPlaces,
    WritePlaces, ReadPlaces, BodyPlaces, Statements
<1>11. /\ outcome'[c] \in {"InitError", "WriteError", "ReadError"} => c \in faulty' \/ schema' = "other"
       /\ c \in reserved' \cup shared' =>
            at'[c] \notin {"idle", "done"} \/ closing'[c] \/ c \in abandoned'
  BY <1>2, <1>1, <1>3 DEF Own, TaskAndThread, Reasons, LocksGivenBack, SchemaPlaces,
    WritePlaces, ReadPlaces, BodyPlaces, Statements
<1>12. AllOrNothing' /\ reserved' \subseteq Calls /\ shared' \subseteq Calls
  BY <1>3, <1>4 DEF Collect, Release, StoreInv, AllOrNothing, TypeOK, Calls, database, locks
<1> QED
  BY <1>4, <1>5, <1>6, <1>7, <1>8, <1>9, <1>10, <1>11, <1>12, StepKeeps DEF Own

\* A process ends.
LEMMA KillKeeps ==
  ASSUME TypeOK, StoreInv, NEW c \in Calls, Kill(c)
  PROVE  StoreInv'
<1>1. Own(c)
  BY InvOfOne
<1>2. Alive(c)
  BY <1>1 DEF Kill, Release, Alive, Own, SchemaIsMine
<1>3. /\ at'[c] = "done"
      /\ sent'[c] = "none"
      /\ closing'[c] = FALSE
      /\ result'[c] = "none"
      /\ verdict'[c] = verdict[c]
      /\ outcome'[c] = (IF outcome[c] = "open" THEN "Killed" ELSE outcome[c])
      /\ txn'[c] = NoWrites
      /\ c \notin reserved'
      /\ c \notin shared'
      /\ c \notin abandoned'
      /\ c \in faulty' <=> c \in faulty
      /\ c \in Savers => rowid'[c] = rowid[c]
      /\ c \in Readers => saw'[c] = saw[c]
      /\ schema' = schema /\ history' = history /\ samples' = samples
  BY <1>2, <1>1 DEF Kill, Release, Alive, TypeOK, database, locks, task
<1>4. Elsewhere(c) /\ OneWriter'
  BY DEF Kill, Release, Alive, TypeOK, database, locks, task, Elsewhere, StoreInv, OneWriter
<1>5. TaskAndThread(c)'
  BY <1>2, <1>1, <1>3, CallsAreOfOneKind, SamplesAreCounted
    DEF Own, TaskAndThread, Alive, SchemaPlaces, WritePlaces, ReadPlaces, BodyPlaces, Statements
<1>6. SchemaIsMine(c)'
  BY <1>2, <1>1, <1>3, CallsAreOfOneKind, SamplesAreCounted
    DEF Own, SchemaIsMine, TaskAndThread, NoWrites, SchemaPlaces, WritePlaces, ReadPlaces,
    BodyPlaces, Statements
<1>7. Reasons(c)'
  BY <1>2, <1>1, <1>3, CallsAreOfOneKind, SamplesAreCounted
    DEF Own, Reasons, TaskAndThread, SaveProgress, ReadProgress, SchemaIsMine, Stored,
    SchemaPlaces, WritePlaces, ReadPlaces, BodyPlaces, Statements
<1>8. LocksGivenBack(c)'
  BY <1>2, <1>1, <1>3, CallsAreOfOneKind, SamplesAreCounted
    DEF Own, LocksGivenBack, TaskAndThread, SaveProgress, ReadProgress, SchemaPlaces,
    WritePlaces, ReadPlaces, BodyPlaces, Statements
<1>9. c \in Savers => SaveProgress(c)'
  BY <1>2, <1>1, <1>3, CallsAreOfOneKind, SamplesAreCounted
    DEF Own, TypeOK, Answers, SaveProgress, TaskAndThread, NoWrites, Reasons, Stored,
    SchemaPlaces, WritePlaces, ReadPlaces, BodyPlaces, Statements
<1>10. c \in Readers => ReadProgress(c)'
  BY <1>2, <1>1, <1>3, CallsAreOfOneKind, SamplesAreCounted
    DEF Own, TypeOK, Answers, ReadProgress, TaskAndThread, NoWrites, SchemaPlaces,
    WritePlaces, ReadPlaces, BodyPlaces, Statements
<1>11. /\ outcome'[c] \in {"InitError", "WriteError", "ReadError"} => c \in faulty' \/ schema' = "other"
       /\ c \in reserved' \cup shared' =>
            at'[c] \notin {"idle", "done"} \/ closing'[c] \/ c \in abandoned'
  BY <1>2, <1>1, <1>3 DEF Own, TaskAndThread, Reasons, LocksGivenBack, SchemaPlaces,
    WritePlaces, ReadPlaces, BodyPlaces, Statements
<1>12. AllOrNothing' /\ reserved' \subseteq Calls /\ shared' \subseteq Calls
  BY <1>3, <1>4 DEF Kill, Release, Alive, StoreInv, AllOrNothing, TypeOK, Calls, database, locks
<1> QED
  BY <1>4, <1>5, <1>6, <1>7, <1>8, <1>9, <1>10, <1>11, <1>12, StepKeeps DEF Own

\* Whatever a connection commits is complete: a snapshot with its rows, or the schema.
LEMMA RunCommitKeeps ==
  ASSUME TypeOK, StoreInv, NEW c \in Calls, RunCommit(c),
         UNCHANGED <<task, closing, abandoned, faulty>>
  PROVE  StoreInv'
<1>1. Own(c)
  BY InvOfOne
<1>2. sent[c] \in {"commit_schema", "commit"}
  BY DEF RunCommit, Runs
<1>3. /\ at'[c] = at[c] /\ sent'[c] = "none" /\ closing'[c] = closing[c]
      /\ result'[c] = IF at[c] = sent[c] THEN "ok" ELSE result[c]
      /\ verdict'[c] = verdict[c] /\ outcome'[c] = outcome[c] /\ txn'[c] = NoWrites
      /\ c \notin reserved'
      /\ c \in shared' <=> c \in shared
      /\ abandoned' = abandoned /\ faulty' = faulty /\ rowid' = rowid /\ saw' = saw
  BY DEF RunCommit, Runs, Deliver, Release, TypeOK, task
<1>4. c \in Readers => txn[c].parent = FALSE
  BY <1>1 DEF Own, ReadProgress
<1>5. txn[c].parent => sent[c] = "commit" /\ c \in Savers /\ c \in reserved /\ c \notin Stored
  BY <1>1, <1>2, <1>4 DEF Own, SaveProgress, SchemaPlaces, Calls
<1>6. schema' = schema \/ (schema = "empty" /\ schema' = "v1" /\ c \in reserved)
  BY <1>1, <1>2 DEF Own, SchemaIsMine, RunCommit, BodyPlaces, WritePlaces
<1>7. history' = history \/ (txn[c].parent /\ history' = Append(history, c))
  BY DEF RunCommit
<1>8. Elsewhere(c) /\ OneWriter'
  BY <1>5, <1>6, <1>7 DEF RunCommit, Runs, Deliver, Release, TypeOK, database, locks, task,
    Elsewhere, StoreInv, OneWriter
<1>9. /\ c \in Stored' <=> c \in Stored \/ txn[c].parent
      /\ \A i \in DOMAIN history : i \in DOMAIN history' /\ history'[i] = history[i]
      /\ txn[c].parent => rowid[c] \in DOMAIN history' /\ history'[rowid[c]] = c
  <2>1. CASE txn[c].parent
    <3>1. history' = Append(history, c) /\ c \in Savers
      BY <1>5, <2>1 DEF RunCommit
    <3>2. rowid[c] = Len(history) + 1
      BY <1>1, <1>5, <2>1 DEF Own, SaveProgress
    <3> QED
      BY <2>1, <3>1, <3>2, Appending DEF TypeOK
  <2>2. CASE ~txn[c].parent
    BY <2>2 DEF RunCommit, Stored
  <2> QED
    BY <2>1, <2>2
<1>10. TaskAndThread(c)'
  BY <1>1, <1>2, <1>3 DEF Own, TaskAndThread, SchemaPlaces, WritePlaces, ReadPlaces, BodyPlaces,
    Statements
<1>11. SchemaIsMine(c)'
  BY <1>1, <1>2, <1>3, <1>6 DEF Own, SchemaIsMine, TaskAndThread, NoWrites, SchemaPlaces,
    WritePlaces, ReadPlaces, BodyPlaces, Statements
<1>12. Reasons(c)'
  BY <1>1, <1>2, <1>3, <1>5, <1>6, <1>9 DEF Own, Reasons
<1>13. LocksGivenBack(c)'
  BY <1>1, <1>2, <1>3 DEF Own, LocksGivenBack, TaskAndThread, Statements, SchemaPlaces,
    BodyPlaces, WritePlaces
<1>14. c \in Savers => SaveProgress(c)'
  <2> SUFFICES ASSUME c \in Savers PROVE SaveProgress(c)'
    OBVIOUS
  <2>1. SaveProgress(c) /\ TaskAndThread(c)
    BY <1>1 DEF Own
  <2>2. CASE sent[c] = "commit"
    <3>1. txn[c].parent /\ at[c] \notin {"idle", "connect", "begin", "parent", "child", "rollback",
                                          "close_schema"} \cup SchemaPlaces
      BY <2>1, <2>2 DEF SaveProgress, TaskAndThread, Statements, SchemaPlaces, BodyPlaces,
        WritePlaces
    <3> QED
      BY <2>1, <2>2, <3>1, <1>3, <1>5, <1>9, SamplesAreCounted DEF SaveProgress, TaskAndThread,
        NoWrites, SchemaPlaces, Statements, BodyPlaces, WritePlaces
  <2>3. CASE sent[c] = "commit_schema"
    BY <2>1, <2>3, <1>3, <1>5, <1>9, SamplesAreCounted DEF SaveProgress, TaskAndThread,
      NoWrites, SchemaPlaces, Statements, BodyPlaces, WritePlaces
  <2> QED
    BY <1>2, <2>2, <2>3
<1>15. c \in Readers => ReadProgress(c)'
  BY <1>1, <1>2, <1>3 DEF Own, ReadProgress, TaskAndThread, NoWrites, Statements, SchemaPlaces,
    BodyPlaces, ReadPlaces
<1>16. /\ outcome'[c] \in {"InitError", "WriteError", "ReadError"} => c \in faulty' \/ schema' = "other"
       /\ c \in reserved' \cup shared' =>
            at'[c] \notin {"idle", "done"} \/ closing'[c] \/ c \in abandoned'
  BY <1>1, <1>3, <1>6 DEF Own
<1>17. AllOrNothing'
  <2>1. CASE txn[c].parent
    <3>1. /\ history' = Append(history, c) /\ c \in Savers /\ c \notin Stored
          /\ samples' = [samples EXCEPT ![c] = txn[c].children] /\ txn[c].children = Samples
      BY <1>1, <1>5, <2>1 DEF RunCommit, Own, SaveProgress
    <3>2. \A i \in DOMAIN history : history[i] # c /\ history[i] \in Savers
      BY <3>1 DEF Stored, TypeOK
    <3>3. samples'[c] = Samples /\ \A s \in Savers \ {c} : samples'[s] = samples[s]
      BY <3>1 DEF TypeOK
    <3>4. AllOrNothing
      BY DEF StoreInv
    <3> QED
      BY <3>1, <3>2, <3>3, <3>4, Appending DEF AllOrNothing, TypeOK
  <2>2. CASE ~txn[c].parent
    BY <2>2 DEF RunCommit, StoreInv, AllOrNothing
  <2> QED
    BY <2>1, <2>2
<1>18. reserved' \subseteq Calls /\ shared' \subseteq Calls
  BY DEF RunCommit, Release, TypeOK, Calls
<1> QED
  BY <1>8, <1>10, <1>11, <1>12, <1>13, <1>14, <1>15, <1>16, <1>17, <1>18, StepKeeps DEF Own

-----------------------------------------------------------------------------
(***************************************************************************)
(* The invariant                                                           *)
(***************************************************************************)
LEMMA InitKeeps == Init => StoreInv
<1> SUFFICES ASSUME Init PROVE StoreInv
  OBVIOUS
<1>1. Stored = {} /\ DOMAIN history = {}
  BY DEF Init, Stored
<1>2. \A c \in Calls : TaskAndThread(c) /\ SchemaIsMine(c) /\ Reasons(c) /\ LocksGivenBack(c)
  BY DEF Init, TaskAndThread, SchemaIsMine, Reasons, LocksGivenBack, NoWrites, Statements,
    SchemaPlaces, BodyPlaces, WritePlaces, ReadPlaces
<1>3. \A s \in Savers : SaveProgress(s)
  <2> SUFFICES ASSUME NEW s \in Savers PROVE SaveProgress(s)
    OBVIOUS
  <2>1. /\ at[s] = "idle" /\ sent[s] = "none" /\ result[s] = "none" /\ s \notin Stored
        /\ txn[s] = NoWrites
    BY <1>1 DEF Init, Calls
  <2>2. ~txn[s].parent /\ txn[s].children = 0 /\ 0 <= Samples
    BY <2>1, SamplesAreCounted DEF NoWrites
  <2> QED
    BY <2>1, <2>2 DEF SaveProgress, SchemaPlaces
<1>4. \A r \in Readers : ReadProgress(r)
  BY DEF Init, ReadProgress, NoWrites, SchemaPlaces, Calls
<1>5. OneWriter /\ AllOrNothing /\ ReturnedIdIsTheRow /\ OnlyFaultsFail /\ LocksBelongToWork
  BY <1>1 DEF Init, OneWriter, AllOrNothing, ReturnedIdIsTheRow, OnlyFaultsFail,
    LocksBelongToWork, Calls
<1> QED
  BY <1>2, <1>3, <1>4, <1>5 DEF StoreInv

LEMMA RunKeeps ==
  ASSUME TypeOK, StoreInv, NEW c \in Calls, Run(c)
  PROVE  TypeOK' /\ StoreInv'
<1>1. Own(c)
  BY InvOfOne
<1>2. UNCHANGED <<task, closing, abandoned, faulty>>
  BY DEF Run
<1>3. RunCommit(c) => txn[c].schema # "unversioned" /\ (txn[c].parent => c \in Savers)
  <2> SUFFICES ASSUME RunCommit(c)
               PROVE  txn[c].schema # "unversioned" /\ (txn[c].parent => c \in Savers)
    OBVIOUS
  <2>1. sent[c] \in {"commit_schema", "commit"}
    BY DEF RunCommit, Runs
  <2> QED
    BY <1>1, <2>1 DEF Own, SchemaIsMine, ReadProgress, BodyPlaces, WritePlaces, Calls
<1>4. TypeOK'
  BY <1>3, RunTypes
<1>5. RunCreate(c) => schema = "empty"
  BY <1>1 DEF RunCreate, Runs, Own, SchemaIsMine
<1> QED
  BY <1>2, <1>4, <1>5, RunPlainKeeps, RunBeginSchemaKeeps, RunInspectKeeps, RunCreateKeeps,
    RunVersionKeeps, RunCommitKeeps, RunRollbackKeeps, RunParentKeeps, RunChildKeeps,
    RunSelectKeeps, RunFetchKeeps DEF Run

LEMMA TaskKeeps ==
  ASSUME TypeOK, StoreInv, NEW c \in Calls, Start(c) \/ TaskStep(c) \/ (c \in Savers /\ RefuseSnapshot(c))
  PROVE  TypeOK' /\ StoreInv'
<1>1. Closed(c) => verdict[c] # "none"
  BY InvOfOne DEF Closed, Own, Reasons
<1>2. TypeOK'
  BY <1>1, TaskTypes
<1> QED
  BY <1>2, RefuseSnapshotKeeps, StartKeeps, ProceedKeeps, SucceedKeeps, ConnectFailsKeeps,
    SchemaFailsKeeps, WriteFailsKeeps, ReadFailsKeeps, RolledBackKeeps, ClosedKeeps DEF TaskStep

\* The environment and the thread's close.
Outside(c) ==
  \/ Fault(c) \/ RunClose(c) \/ CancelOpening(c) \/ CancelBody(c) \/ CancelClose(c)
  \/ Collect(c) \/ Kill(c)

LEMMA OutsideKeeps ==
  ASSUME TypeOK, StoreInv, NEW c \in Calls, Outside(c)
  PROVE  TypeOK' /\ StoreInv'
<1>1. TypeOK'
  BY OtherTypes DEF Outside
<1> QED
  BY <1>1, FaultKeeps, RunCloseKeeps, CancelOpeningKeeps, CancelBodyKeeps, CancelCloseKeeps,
    CollectKeeps, KillKeeps DEF Outside

LEMMA StutterKeeps ==
  ASSUME TypeOK, StoreInv, UNCHANGED vars
  PROVE  TypeOK' /\ StoreInv'
<1> USE DEF vars, database, locks, task
<1>1. TypeOK'
  BY DEF TypeOK
<1>2. Stored' = Stored
  BY DEF Stored
<1>3. \A c \in Calls : TaskAndThread(c)' /\ SchemaIsMine(c)' /\ Reasons(c)' /\ LocksGivenBack(c)'
  BY <1>2 DEF StoreInv, TaskAndThread, SchemaIsMine, Reasons, LocksGivenBack
<1>4. \A s \in Savers : SaveProgress(s)'
  BY <1>2 DEF StoreInv, SaveProgress
<1>5. \A r \in Readers : ReadProgress(r)'
  BY DEF StoreInv, ReadProgress
<1>6. OneWriter' /\ AllOrNothing' /\ ReturnedIdIsTheRow' /\ OnlyFaultsFail' /\ LocksBelongToWork'
  BY DEF StoreInv, OneWriter, AllOrNothing, ReturnedIdIsTheRow, OnlyFaultsFail, LocksBelongToWork
<1> QED
  BY <1>1, <1>3, <1>4, <1>5, <1>6 DEF StoreInv

\* Every step is one of a call.
LEMMA StepsOfCalls ==
  ASSUME Next
  PROVE  \E c \in Calls : \/ Start(c) \/ TaskStep(c) \/ (c \in Savers /\ RefuseSnapshot(c))
                          \/ Run(c) \/ Outside(c)
BY DEF Next, Outside, Calls

\* The inductive invariant of the repository holds for any number of saves and reads.
THEOREM StoreIsConsistent == Spec => [](TypeOK /\ StoreInv)
<1>1. Init => TypeOK /\ StoreInv
  BY InitTypes, InitKeeps
<1>2. TypeOK /\ StoreInv /\ [Next]_vars => TypeOK' /\ StoreInv'
  <2> SUFFICES ASSUME TypeOK, StoreInv, [Next]_vars
               PROVE  TypeOK' /\ StoreInv'
    OBVIOUS
  <2>1. CASE Next
    BY <2>1, StepsOfCalls, RunKeeps, TaskKeeps, OutsideKeeps
  <2>2. CASE UNCHANGED vars
    BY <2>2, StutterKeeps
  <2> QED
    BY <2>1, <2>2
<1> QED
  BY <1>1, <1>2, PTL DEF Spec

\* A stored snapshot has all of its rows and is stored once, whatever was killed, cancelled
\* or refused on the way.
THEOREM SavesAreAtomic == Spec => []AllOrNothing
<1>1. StoreInv => AllOrNothing
  BY DEF StoreInv
<1> QED
  BY <1>1, StoreIsConsistent, PTL

\* The id a save returns is the row of its own snapshot.
THEOREM IdsAreTrue == Spec => []ReturnedIdIsTheRow
<1>1. StoreInv => ReturnedIdIsTheRow
  BY DEF StoreInv
<1> QED
  BY <1>1, StoreIsConsistent, PTL

\* Openers of a new file never make each other fail.
THEOREM OpenersGetAlong == Spec => []OnlyFaultsFail
<1>1. StoreInv => OnlyFaultsFail
  BY DEF StoreInv
<1> QED
  BY <1>1, StoreIsConsistent, PTL

\* One connection at a time may write, and a lock is not held by a call that is over, but
\* for one cancelled while it opened the database.
THEOREM LocksAreGivenBack == Spec => []LocksBelongToWork
<1>1. StoreInv => LocksBelongToWork
  BY DEF StoreInv
<1> QED
  BY <1>1, StoreIsConsistent, PTL

-----------------------------------------------------------------------------
(***************************************************************************)
(* The history                                                             *)
(***************************************************************************)
LEMMA HistoryNames ==
  /\ History!Calls = Calls
  /\ History!Stored = Stored
  /\ History!Errors = Errors
  /\ History!historyVars = <<history, saw, outcome>>
BY DEF History!Calls, Calls, History!Stored, Stored, History!Errors, Errors, History!historyVars

\* What a thread does is an insertion, a look, or nothing the history knows of.
LEMMA RunImplements ==
  ASSUME TypeOK, StoreInv, NEW c \in Calls, Run(c)
  PROVE  History!Next \/ UNCHANGED <<history, saw, outcome>>
<1>1. Own(c)
  BY InvOfOne
<1>2. UNCHANGED outcome
  BY DEF Run, task
<1>3. CASE RunCommit(c) /\ txn[c].parent
  <2>1. sent[c] # "none" /\ history' = Append(history, c) /\ saw' = saw
    BY <1>3 DEF RunCommit, Runs
  <2>2. c \in Savers /\ c \notin Stored /\ outcome[c] \in {"open", "Cancelled"}
    BY <1>1, <1>3, <2>1 DEF Own, SaveProgress, ReadProgress, TaskAndThread, Calls
  <2>3. History!Append1(c)
    BY <1>2, <2>1, <2>2, HistoryNames DEF History!Append1
  <2> QED
    BY <2>2, <2>3 DEF History!Next
<1>4. CASE c \in Readers /\ RunSelect(c)
  <2>1. sent[c] = "select" /\ saw' = [saw EXCEPT ![c] = {history}] /\ history' = history
    BY <1>4 DEF RunSelect, Runs, database
  <2>2. saw[c] = {} /\ outcome[c] \in {"open", "Cancelled"}
    BY <1>1, <1>4, <2>1 DEF Own, ReadProgress, TaskAndThread
  <2>3. History!Look(c)
    BY <1>2, <2>1, <2>2 DEF History!Look
  <2> QED
    BY <1>4, <2>3 DEF History!Next
<1>5. CASE ~(RunCommit(c) /\ txn[c].parent) /\ ~(c \in Readers /\ RunSelect(c))
  <2>1. history' = history /\ saw' = saw
    BY <1>5 DEF Run, RunPlain, RunBeginSchema, RunInspect, RunCreate, RunVersion, RunCommit,
      RunRollback, RunParent, RunChild, RunFetch, database
  <2> QED
    BY <1>2, <2>1
<1> QED
  BY <1>3, <1>4, <1>5

\* A call begins, is answered, or fails as the history lets it.
LEMMA TaskImplements ==
  ASSUME TypeOK, StoreInv, NEW c \in Calls,
         Start(c) \/ TaskStep(c) \/ (c \in Savers /\ RefuseSnapshot(c))
  PROVE  History!Next \/ UNCHANGED <<history, saw, outcome>>
<1>1. Own(c)
  BY InvOfOne
<1>2. UNCHANGED <<history, saw>>
  BY DEF Start, TaskStep, RefuseSnapshot, Proceed, Succeed, ConnectFails, SchemaFails, WriteFails,
    ReadFails, RolledBack, Closed, TaskOnly, database
<1>3. CASE Start(c)
  <2>1. outcome[c] = "idle" /\ outcome' = [outcome EXCEPT ![c] = "open"]
    BY <1>1, <1>3 DEF Start, Own, TaskAndThread
  <2>2. History!Start(c)
    BY <1>2, <2>1 DEF History!Start, History!Settle
  <2> QED
    BY <2>2, HistoryNames DEF History!Next
<1>4. CASE c \in Savers /\ RefuseSnapshot(c)
  <2>1. outcome[c] = "idle" /\ c \notin Stored /\ outcome' = [outcome EXCEPT ![c] = "CoherenceError"]
    BY <1>1, <1>4 DEF RefuseSnapshot, Settle, Own, TaskAndThread, SaveProgress
  <2>2. History!Fail(c)
    BY <1>2, <2>1, HistoryNames DEF History!Fail, History!Settle, Errors
  <2> QED
    BY <2>2, HistoryNames DEF History!Next
<1>5. CASE ConnectFails(c)
  <2>1. outcome[c] = "open" /\ outcome' = [outcome EXCEPT ![c] = "InitError"]
    BY <1>1, <1>5 DEF ConnectFails, Settle, Own, TaskAndThread
  <2>2. c \in Savers => c \notin Stored
    BY <1>1, <1>5 DEF ConnectFails, Own, SaveProgress
  <2>3. History!Fail(c)
    BY <1>2, <2>1, <2>2, HistoryNames DEF History!Fail, History!Settle, Errors
  <2> QED
    BY <2>3, HistoryNames DEF History!Next
<1>6. CASE Closed(c)
  <2>1. /\ at[c] \in {"close_schema", "close"}
        /\ outcome[c] = "open"
        /\ outcome' = [outcome EXCEPT ![c] = verdict[c]]
    BY <1>1, <1>6 DEF Closed, Settle, Own, TaskAndThread
  <2>2. CASE verdict[c] \in {"Stored", "Rows"}
    <3>1. \/ c \in Savers /\ c \in Stored /\ verdict[c] = "Stored"
          \/ c \in Readers /\ saw[c] # {} /\ verdict[c] = "Rows"
      BY <1>1, <2>1, <2>2 DEF Own, Reasons
    <3>2. History!Answer(c)
      BY <1>2, <2>1, <3>1, HistoryNames DEF History!Answer, History!Settle
    <3> QED
      BY <3>2, HistoryNames DEF History!Next
  <2>3. CASE verdict[c] \in {"InitError", "WriteError", "ReadError"}
    <3>1. c \in Savers => c \notin Stored
      BY <1>1, <2>1, <2>3, CallsAreOfOneKind DEF Own, Reasons, SaveProgress
    <3>2. History!Fail(c)
      BY <1>2, <2>1, <2>3, <3>1, HistoryNames DEF History!Fail, History!Settle, Errors
    <3> QED
      BY <3>2, HistoryNames DEF History!Next
  <2>4. CASE verdict[c] = "Cancelled"
    <3>1. History!BreakOff(c)
      BY <1>2, <2>1, <2>4 DEF History!BreakOff, History!Settle
    <3> QED
      BY <3>1, HistoryNames DEF History!Next
  <2> QED
    BY <1>1, <2>1, <2>2, <2>3, <2>4 DEF Own, Reasons
<1>7. CASE Proceed(c) \/ Succeed(c) \/ SchemaFails(c) \/ WriteFails(c) \/ ReadFails(c) \/ RolledBack(c)
  <2>1. UNCHANGED outcome
    BY <1>7 DEF Proceed, Succeed, SchemaFails, WriteFails, ReadFails, RolledBack, Await, AwaitClose
  <2> QED
    BY <1>2, <2>1
<1> QED
  BY <1>3, <1>4, <1>5, <1>6, <1>7 DEF TaskStep

\* Cancellations and kills break a call off; the rest is unknown to the history.
LEMMA OutsideImplements ==
  ASSUME TypeOK, StoreInv, NEW c \in Calls, Outside(c)
  PROVE  History!Next \/ UNCHANGED <<history, saw, outcome>>
<1>1. Own(c)
  BY InvOfOne
<1>2. UNCHANGED <<history, saw>>
  BY DEF Outside, Fault, RunClose, CancelOpening, CancelBody, CancelClose, Collect, Kill, TaskOnly,
    database
<1>3. CASE CancelOpening(c) \/ CancelClose(c)
  <2>1. outcome[c] = "open" /\ outcome' = [outcome EXCEPT ![c] = "Cancelled"]
    BY <1>1, <1>3 DEF CancelOpening, CancelClose, Settle, Own, TaskAndThread, SchemaPlaces
  <2>2. History!BreakOff(c)
    BY <1>2, <2>1 DEF History!BreakOff, History!Settle
  <2> QED
    BY <2>2, HistoryNames DEF History!Next
<1>4. CASE Kill(c) /\ outcome[c] = "open"
  <2>1. outcome' = [outcome EXCEPT ![c] = "Killed"]
    BY <1>4 DEF Kill
  <2>2. History!BreakOff(c)
    BY <1>2, <1>4, <2>1 DEF History!BreakOff, History!Settle
  <2> QED
    BY <2>2, HistoryNames DEF History!Next
<1>5. CASE Kill(c) /\ outcome[c] # "open"
  <2>1. outcome' = outcome
    BY <1>5 DEF Kill, TypeOK
  <2> QED
    BY <1>2, <2>1
<1>6. CASE Fault(c) \/ RunClose(c) \/ CancelBody(c) \/ Collect(c)
  <2>1. UNCHANGED outcome
    BY <1>6 DEF Fault, RunClose, CancelBody, Collect, AwaitClose, task
  <2> QED
    BY <1>2, <2>1
<1> QED
  BY <1>3, <1>4, <1>5, <1>6 DEF Outside

\* The repository keeps the promise of SnapshotHistory: whole snapshots appended one at a
\* time, truthful answers to saves, and reads that show the history of one moment of theirs.
THEOREM RepositoryKeepsHistory == Spec => KeepsHistory
<1>1. Init => History!Init
  BY HistoryNames DEF Init, History!Init
<1>2. TypeOK /\ StoreInv /\ [Next]_vars => [History!Next]_(History!historyVars)
  <2> SUFFICES ASSUME TypeOK, StoreInv, [Next]_vars
               PROVE  History!Next \/ UNCHANGED History!historyVars
    OBVIOUS
  <2>1. History!Next \/ UNCHANGED <<history, saw, outcome>>
    <3>1. CASE Next
      BY <3>1, StepsOfCalls, RunImplements, TaskImplements, OutsideImplements
    <3>2. CASE UNCHANGED vars
      BY <3>2 DEF vars, database, task
    <3> QED
      BY <3>1, <3>2
  <2> QED
    BY <2>1 DEF History!historyVars
<1> QED
  BY <1>1, <1>2, StoreIsConsistent, PTL DEF Spec, KeepsHistory, History!Spec
=============================================================================
