------------------------ MODULE StateProviderProofs ------------------------
(***************************************************************************)
(* What holds of the state provider for any number of threads, processes,  *)
(* paths and values, and under every storage failure the module models.    *)
(***************************************************************************)
EXTENDS StateProvider, TLAPS

(* The settled blob of a load stays on file, readable and free of pending  *)
(* writers until the load has read it; then it is the answer.              *)
BoundToSettled(t) ==
  \/ /\ calls[t].stage = "read"
     /\ blobs[calls[t].path] = settled[t]
     /\ media # "locked"
     /\ ~PendingWrite(calls[t].path)
  \/ calls[t] = Done(calls[t].path, settled[t], TRUE, FALSE)

SettledInv == \A t \in Threads : settled[t] # NoValue => BoundToSettled(t)

(* Initially no load is in progress and no blob exists. *)
LEMMA InitTypeOK == Init => TypeOK
  BY DEF Init, TypeOK, CallStates, Idle

(* What the stage of a load says about its record. *)
LEMMA CallFields ==
  ASSUME TypeOK, NEW t \in Threads
  PROVE  /\ calls[t].stage \in {"idle", "read", "write", "done"}
         /\ calls[t].stage = "idle" => calls[t] = Idle
         /\ calls[t].stage = "read" =>
              /\ calls[t].path \in StoredPaths /\ calls[t].path \in Paths
              /\ calls[t].arg \in Args
         /\ calls[t].stage = "write" =>
              /\ calls[t].path \in StoredPaths /\ calls[t].path \in Paths
              /\ calls[t].arg \in Args
              /\ calls[t].output \in Values
         /\ calls[t].stage = "done" =>
              /\ calls[t].path \in Paths
              /\ calls[t].output \in Values \cup {NoValue}
  <1>1. calls[t] \in CallStates
    BY DEF TypeOK
  <1>2. StoredPaths \subseteq Paths
    BY ProviderAssumption DEF ProviderAssumption
  <1>3. QED
    BY <1>1, <1>2 DEF CallStates, Idle

(* The records the steps build are call records. *)
LEMMA BuiltRecords ==
  /\ Idle \in CallStates
  /\ \A p \in StoredPaths, a \in Args : Reading(p, a) \in CallStates
  /\ \A p \in StoredPaths, a \in Args, v \in Values : Writing(p, a, v) \in CallStates
  /\ \A p \in Paths, v \in Values \cup {NoValue}, l, c \in BOOLEAN :
       Done(p, v, l, c) \in CallStates
  BY DEF Idle, Reading, Writing, Done, CallStates

(* The generator answers a value or fails. *)
LEMMA GeneratorRange ==
  ASSUME NEW p \in Paths, NEW a \in Args
  PROVE  /\ Generate(p, a) \in Values \cup {NoValue}
         /\ GenerateEmbedded(p, a) \in CallStates
  <1>1. Generate(p, a) \in Values \cup {NoValue}
    BY ProviderAssumption DEF ProviderAssumption
  <1>2. (Generate(p, a) # NoValue) \in BOOLEAN
    OBVIOUS
  <1>3. QED
    BY <1>1, <1>2, BuiltRecords DEF GenerateEmbedded

(* Replacing the record of one load keeps the table of loads well typed. *)
LEMMA CallsUpdate ==
  ASSUME TypeOK, NEW t \in Threads, NEW c \in CallStates
  PROVE  [calls EXCEPT ![t] = c] \in [Threads -> CallStates]
  BY DEF TypeOK

(* Every step keeps the variables well typed. *)
LEMMA NextTypeOK == TypeOK /\ [Next]_providerVars => TypeOK'
  <1> SUFFICES ASSUME TypeOK, [Next]_providerVars
               PROVE  TypeOK'
    OBVIOUS
  <1>0. StoredPaths \subseteq Paths
    BY ProviderAssumption DEF ProviderAssumption
  <1>1. ASSUME NEW t \in Threads, NEW p \in Paths, NEW a \in Args, LoadOrCreate(t, p, a)
        PROVE  TypeOK'
    <2>1. (IF p \in StoredPaths THEN Reading(p, a) ELSE GenerateEmbedded(p, a)) \in CallStates
      BY BuiltRecords, GeneratorRange
    <2>2. calls' \in [Threads -> CallStates]
      BY <1>1, <2>1, CallsUpdate DEF LoadOrCreate
    <2>3. settled' \in [Threads -> Values \cup {NoValue}]
      BY <1>1 DEF LoadOrCreate, TypeOK
    <2>4. QED
      BY <1>1, <2>2, <2>3 DEF LoadOrCreate, TypeOK
  <1>2. ASSUME NEW t \in Threads, ReadHit(t)
        PROVE  TypeOK'
    <2>1. blobs[calls[t].path] \in Values \cup {NoValue} /\ calls[t].path \in Paths
      BY <1>2, CallFields DEF ReadHit, TypeOK
    <2>2. Done(calls[t].path, blobs[calls[t].path], TRUE, FALSE) \in CallStates
      BY <2>1, BuiltRecords
    <2>3. QED
      BY <1>2, <2>2, CallsUpdate DEF ReadHit, TypeOK
  <1>3. ASSUME NEW t \in Threads, ReadMiss(t)
        PROVE  TypeOK'
    <2> DEFINE p == calls[t].path
               a == calls[t].arg
    <2>1. p \in StoredPaths /\ p \in Paths /\ a \in Args
      BY <1>3, CallFields DEF ReadMiss
    <2>2. (IF Generate(p, a) = NoValue THEN GenerateEmbedded(p, a)
           ELSE Writing(p, a, Generate(p, a))) \in CallStates
      BY <2>1, GeneratorRange, BuiltRecords
    <2>3. QED
      BY <1>3, <2>2, CallsUpdate DEF ReadMiss, TypeOK
  <1>4. ASSUME NEW t \in Threads, WriteBlob(t)
        PROVE  TypeOK'
    <2>1. calls[t].path \in Paths /\ calls[t].output \in Values
      BY <1>4, CallFields DEF WriteBlob
    <2>2. Done(calls[t].path, calls[t].output, TRUE, TRUE) \in CallStates
      BY <2>1, BuiltRecords
    <2>3. QED
      BY <1>4, <2>1, <2>2, CallsUpdate DEF WriteBlob, TypeOK
  <1>5. ASSUME NEW t \in Threads, WriteFails(t)
        PROVE  TypeOK'
    <2>1. calls[t].path \in Paths /\ calls[t].arg \in Args
      BY <1>5, CallFields DEF WriteFails
    <2>2. QED
      BY <1>5, <2>1, GeneratorRange, CallsUpdate DEF WriteFails, TypeOK
  <1>6. ASSUME NEW t \in Threads, Return(t)
        PROVE  TypeOK'
    BY <1>6, BuiltRecords, CallsUpdate DEF Return, TypeOK
  <1>7. ASSUME NEW proc \in Processes, KillProcess(proc)
        PROVE  TypeOK'
    BY <1>7, BuiltRecords DEF KillProcess, TypeOK
  <1>8. ASSUME NEW m \in {"ok"} \cup Media, MediaChanges(m)
        PROVE  TypeOK'
    BY <1>8 DEF MediaChanges, TypeOK
  <1>9. ASSUME NEW p \in Paths, RemoveBlob(p)
        PROVE  TypeOK'
    BY <1>9 DEF RemoveBlob, TypeOK
  <1>10. CASE UNCHANGED providerVars
    BY <1>10 DEF providerVars, TypeOK
  <1>11. QED
    BY <1>1, <1>2, <1>3, <1>4, <1>5, <1>6, <1>7, <1>8, <1>9, <1>10
       DEF Next, Step, Environment

(* Type correctness of the provider for every instance of its constants. *)
THEOREM TypeCorrect == Spec => []TypeOK
  <1>1. QED
    BY InitTypeOK, NextTypeOK, PTL DEF Spec

-----------------------------------------------------------------------------
(* No load has found anything settled at the start. *)
LEMMA InitSettledInv == Init => SettledInv
  BY DEF Init, SettledInv

(* Only a miss makes a pending write, and a readable blob is no miss. *)
LEMMA NextSettledInv == TypeOK /\ SettledInv /\ [Next]_providerVars => SettledInv'
  <1> SUFFICES ASSUME TypeOK, SettledInv, [Next]_providerVars,
                      NEW s \in Threads, settled'[s] # NoValue
               PROVE  BoundToSettled(s)'
    BY DEF SettledInv
  <1>a. settled[s] # NoValue => BoundToSettled(s)
    BY DEF SettledInv
  <1>b. calls \in [Threads -> CallStates] /\ settled \in [Threads -> Values \cup {NoValue}]
    BY DEF BoundToSettled, TypeOK
  <1>c. calls[s].stage # "idle" => calls[s] # Idle
    BY DEF BoundToSettled, Idle
  <1>1. ASSUME NEW t \in Threads, NEW p \in Paths, NEW a \in Args, LoadOrCreate(t, p, a)
        PROVE  BoundToSettled(s)'
    <2>1. CASE s = t
      <3>1. /\ p \in StoredPaths /\ ~PendingWrite(p) /\ media # "locked"
            /\ settled'[s] = blobs[p]
            /\ calls'[s] = Reading(p, a)
        BY <1>1, <1>b, <2>1 DEF BoundToSettled, LoadOrCreate
      <3>2. calls'[s].stage = "read" /\ calls'[s].path = p
        BY <3>1 DEF BoundToSettled, Reading
      <3>3. \A u \in Threads : ~(calls'[u].stage = "write" /\ calls'[u].path = p)
        BY <1>1, <1>b, <2>1, <3>1, <3>2 DEF BoundToSettled, LoadOrCreate, PendingWrite
      <3>4. QED
        BY <1>1, <3>1, <3>2, <3>3 DEF BoundToSettled, LoadOrCreate, PendingWrite
    <2>2. CASE s # t
      <3>1. BoundToSettled(s) /\ calls'[s] = calls[s] /\ settled'[s] = settled[s]
        BY <1>1, <1>a, <1>b, <2>2 DEF BoundToSettled, LoadOrCreate
      <3>2. calls'[t].stage # "write"
        BY <1>1, <1>b DEF BoundToSettled, LoadOrCreate, Reading, GenerateEmbedded, Done
      <3>3. ~PendingWrite(calls[s].path) => ~PendingWrite(calls[s].path)'
        BY <1>1, <1>b, <3>1, <3>2 DEF BoundToSettled, LoadOrCreate, PendingWrite
      <3>4. QED
        BY <1>1, <3>1, <3>3 DEF BoundToSettled, LoadOrCreate, PendingWrite
    <2>3. QED
      BY <2>1, <2>2
  <1>2. ASSUME NEW t \in Threads, ReadHit(t)
        PROVE  BoundToSettled(s)'
    <2>0. BoundToSettled(s)
      BY <1>2, <1>a DEF BoundToSettled, ReadHit
    <2>1. CASE s = t
      <3>1. calls[s].stage = "read" /\ blobs[calls[s].path] = settled[s]
        BY <1>2, <2>0, <2>1 DEF BoundToSettled, ReadHit, Done
      <3>2. /\ calls'[s] = Done(calls[s].path, settled[s], TRUE, FALSE)
            /\ settled'[s] = settled[s]
        BY <1>2, <1>b, <2>1, <3>1 DEF ReadHit
      <3>3. calls'[s].path = calls[s].path
        BY <3>2 DEF Done
      <3>4. QED
        BY <3>2, <3>3 DEF BoundToSettled
    <2>2. CASE s # t
      <3>1. calls'[t].stage = "done"
        BY <1>2, <1>b DEF BoundToSettled, ReadHit, Done
      <3>2. calls'[s] = calls[s] /\ ~PendingWrite(calls[s].path) => ~PendingWrite(calls[s].path)'
        BY <1>2, <1>b, <3>1 DEF BoundToSettled, ReadHit, PendingWrite
      <3>3. QED
        BY <1>2, <1>b, <2>0, <2>2, <3>2 DEF BoundToSettled, ReadHit, PendingWrite
    <2>3. QED
      BY <2>1, <2>2
  <1>3. ASSUME NEW t \in Threads, ReadMiss(t)
        PROVE  BoundToSettled(s)'
    <2>0. BoundToSettled(s)
      BY <1>3, <1>a DEF BoundToSettled, ReadMiss
    <2>1. s # t
      BY <1>3, <2>0 DEF BoundToSettled, ReadMiss, SettledInv, Done
    <2>2. calls'[s] = calls[s]
      BY <1>3, <1>b, <2>1 DEF BoundToSettled, ReadMiss
    <2>3. CASE calls[s].stage = "read" /\ calls[s].path = calls[t].path
      <3>1. blobs[calls[t].path] = NoValue
        BY <1>3, <2>0, <2>3 DEF BoundToSettled, ReadMiss, Done
      <3>2. QED
        BY <1>3, <2>0, <2>3, <3>1 DEF BoundToSettled, ReadMiss, Done
    <2>4. CASE calls[s].stage = "read" /\ calls[s].path # calls[t].path
      <3>1. calls'[t].path = calls[t].path
        BY <1>3, <1>b DEF BoundToSettled, ReadMiss, GenerateEmbedded, Writing, Done
      <3>2. ~PendingWrite(calls[s].path)'
        BY <1>3, <1>b, <2>0, <2>4, <3>1 DEF BoundToSettled, ReadMiss, PendingWrite, Done
      <3>3. QED
        BY <1>3, <2>0, <2>2, <2>4, <3>2 DEF BoundToSettled, ReadMiss, Done, PendingWrite
    <2>5. CASE calls[s].stage # "read"
      BY <1>3, <2>0, <2>2, <2>5 DEF BoundToSettled, ReadMiss
    <2>6. QED
      BY <2>3, <2>4, <2>5
  <1>4. ASSUME NEW t \in Threads, WriteBlob(t)
        PROVE  BoundToSettled(s)'
    <2>0. BoundToSettled(s)
      BY <1>4, <1>a DEF BoundToSettled, WriteBlob
    <2>1. s # t
      BY <1>4, <2>0 DEF BoundToSettled, WriteBlob, Done
    <2>2. calls'[s] = calls[s] /\ settled'[s] = settled[s] /\ calls'[t].stage = "done"
      BY <1>4, <1>b, <2>1 DEF BoundToSettled, WriteBlob, Done
    <2>3. CASE calls[s].stage = "read"
      <3>1. calls[s].path # calls[t].path
        BY <1>4, <2>0, <2>3 DEF BoundToSettled, WriteBlob, PendingWrite, Done
      <3>2. blobs'[calls[s].path] = blobs[calls[s].path]
        BY <1>4, <3>1, CallFields, <2>3 DEF BoundToSettled, WriteBlob, TypeOK
      <3>3. ~PendingWrite(calls[s].path)'
        BY <1>4, <1>b, <2>0, <2>2, <2>3 DEF BoundToSettled, WriteBlob, PendingWrite, Done
      <3>4. QED
        BY <1>4, <2>0, <2>2, <2>3, <3>2, <3>3 DEF BoundToSettled, WriteBlob, Done, PendingWrite
    <2>4. CASE calls[s].stage # "read"
      BY <2>0, <2>2, <2>4 DEF BoundToSettled, Done
    <2>5. QED
      BY <2>3, <2>4
  <1>5. ASSUME NEW t \in Threads, WriteFails(t)
        PROVE  BoundToSettled(s)'
    <2>0. BoundToSettled(s)
      BY <1>5, <1>a DEF BoundToSettled, WriteFails
    <2>1. s # t
      BY <1>5, <2>0 DEF BoundToSettled, WriteFails, Done
    <2>2. calls'[s] = calls[s] /\ calls'[t].stage = "done"
      BY <1>5, <1>b, <2>1 DEF BoundToSettled, WriteFails, GenerateEmbedded, Done
    <2>3. ~PendingWrite(calls[s].path) => ~PendingWrite(calls[s].path)'
      BY <1>5, <1>b, <2>2 DEF BoundToSettled, WriteFails, PendingWrite
    <2>4. QED
      BY <1>5, <2>0, <2>2, <2>3 DEF BoundToSettled, WriteFails, PendingWrite
  <1>6. ASSUME NEW t \in Threads, Return(t)
        PROVE  BoundToSettled(s)'
    <2>1. s # t
      BY <1>6, <1>b DEF BoundToSettled, Return
    <2>2. BoundToSettled(s) /\ calls'[s] = calls[s] /\ settled'[s] = settled[s] /\ calls'[t].stage = "idle"
      BY <1>6, <1>a, <1>b, <2>1 DEF BoundToSettled, Return, Idle
    <2>3. ~PendingWrite(calls[s].path) => ~PendingWrite(calls[s].path)'
      BY <1>6, <1>b, <2>2 DEF BoundToSettled, Return, PendingWrite
    <2>4. QED
      BY <1>6, <2>2, <2>3 DEF BoundToSettled, Return, PendingWrite
  <1>7. ASSUME NEW proc \in Processes, KillProcess(proc)
        PROVE  BoundToSettled(s)'
    <2>1. BoundToSettled(s) /\ calls'[s] = calls[s] /\ settled'[s] = settled[s]
      BY <1>7, <1>a DEF BoundToSettled, KillProcess
    <2>2. \A u \in Threads : calls'[u].stage = "write" => calls'[u] = calls[u]
      BY <1>7 DEF BoundToSettled, KillProcess, Idle
    <2>3. ~PendingWrite(calls[s].path) => ~PendingWrite(calls[s].path)'
      BY <1>7, <2>1, <2>2 DEF BoundToSettled, PendingWrite
    <2>4. QED
      BY <1>7, <2>1, <2>3 DEF BoundToSettled, KillProcess, PendingWrite
  <1>8. ASSUME NEW m \in {"ok"} \cup Media, MediaChanges(m)
        PROVE  BoundToSettled(s)'
    BY <1>8, <1>a DEF BoundToSettled, MediaChanges, PendingWrite
  <1>9. ASSUME NEW p \in Paths, RemoveBlob(p)
        PROVE  BoundToSettled(s)'
    <2>1. BoundToSettled(s) /\ calls'[s] = calls[s] /\ settled'[s] = settled[s] /\ ~(calls[s].stage # "idle" /\ calls[s].path = p)
      BY <1>9, <1>a DEF BoundToSettled, RemoveBlob
    <2>2. QED
      BY <1>9, <2>1, CallFields DEF BoundToSettled, RemoveBlob, PendingWrite, TypeOK
  <1>10. CASE UNCHANGED providerVars
    BY <1>10, <1>a DEF BoundToSettled, providerVars, PendingWrite
  <1>11. QED
    BY <1>1, <1>2, <1>3, <1>4, <1>5, <1>6, <1>7, <1>8, <1>9, <1>10
       DEF BoundToSettled, Next, Step, Environment

(* The strengthened invariant contains the property. *)
LEMMA SettledInvGivesAnswer == SettledInv => SettledAnswer
  BY DEF SettledInv, BoundToSettled, SettledAnswer, Done

(* A load that starts on a settled blob answers it, in every interleaving  *)
(* with other threads, kills, full storage and removals elsewhere          *)
(* (LHStateProvider.m:164-272).                                            *)
THEOREM SettledAnswerHolds == Spec => []SettledAnswer
  <1>1. Spec => [](TypeOK /\ SettledInv)
    BY InitTypeOK, NextTypeOK, InitSettledInv, NextSettledInv, PTL DEF Spec
  <1>2. QED
    BY <1>1, SettledInvGivesAnswer, PTL

-----------------------------------------------------------------------------
(* Loads that never overlap on a path, on storage that works. *)
SerialInv ==
  /\ media = "ok"
  /\ \A t \in Threads :
       calls[t].stage = "write" => blobs[calls[t].path] = NoValue
  /\ \A t, u \in Threads :
       ( /\ calls[t].stage \in {"read", "write"}
         /\ calls[u].stage \in {"read", "write"}
         /\ calls[t].path = calls[u].path ) => t = u

SerialAssumption == Serialised /\ Media = {} /\ StoredPaths = Paths

(* No load is in progress at the start. *)
LEMMA InitSerialInv == Init => SerialInv
  BY DEF Init, SerialInv, Idle

(* A write finds the blob missing, as its own read did: nobody else loads. *)
LEMMA NextSerialInv ==
  SerialAssumption /\ TypeOK /\ SerialInv /\ [Next]_providerVars => SerialInv'
  <1> SUFFICES ASSUME SerialAssumption, TypeOK, SerialInv, [Next]_providerVars
               PROVE  SerialInv'
    OBVIOUS
  <1>b. calls \in [Threads -> CallStates] /\ blobs \in [Paths -> Values \cup {NoValue}]
    BY DEF TypeOK
  <1>1. ASSUME NEW t \in Threads, NEW p \in Paths, NEW a \in Args, LoadOrCreate(t, p, a)
        PROVE  SerialInv'
    <2>1. calls' = [calls EXCEPT ![t] = Reading(p, a)] /\ ~InFlight(p)
      BY <1>1 DEF LoadOrCreate, SerialAssumption
    <2>2. calls'[t].stage = "read" /\ calls'[t].path = p
      BY <1>b, <2>1 DEF Reading
    <2>3. \A u \in Threads \ {t} : calls'[u] = calls[u]
      BY <1>b, <2>1
    <2>4. QED
      BY <1>1, <2>1, <2>2, <2>3 DEF LoadOrCreate, InFlight, SerialInv
  <1>2. ASSUME NEW t \in Threads, ReadHit(t)
        PROVE  SerialInv'
    <2>1. \A u \in Threads : calls'[u] = calls[u] \/ calls'[u].stage = "done"
      BY <1>2, <1>b DEF ReadHit, Done
    <2>2. QED
      BY <1>2, <2>1 DEF ReadHit, SerialInv
  <1>3. ASSUME NEW t \in Threads, ReadMiss(t)
        PROVE  SerialInv'
    <2>1. /\ calls'[t].stage \in {"write", "done"} /\ calls'[t].path = calls[t].path
          /\ \A u \in Threads \ {t} : calls'[u] = calls[u]
      BY <1>3, <1>b DEF ReadMiss, GenerateEmbedded, Writing, Done
    <2>2. calls[t].stage = "read" /\ blobs[calls[t].path] = NoValue
      BY <1>3 DEF ReadMiss, SerialInv
    <2>3. QED
      BY <1>3, <2>1, <2>2 DEF ReadMiss, SerialInv
  <1>4. ASSUME NEW t \in Threads, WriteBlob(t)
        PROVE  SerialInv'
    <2>1. \A u \in Threads : (u # t /\ calls'[u] = calls[u]) \/ calls'[u].stage = "done"
      BY <1>4, <1>b DEF WriteBlob, Done
    <2>2. \A u \in Threads \ {t} : calls[u].stage = "write" => calls[u].path # calls[t].path
      BY <1>4 DEF WriteBlob, SerialInv
    <2>3. \A u \in Threads \ {t} :
            calls[u].stage = "write" => blobs'[calls[u].path] = blobs[calls[u].path]
      BY <1>4, <1>b, <2>2, CallFields DEF WriteBlob
    <2>4. QED
      BY <1>4, <2>1, <2>3 DEF WriteBlob, SerialInv
  <1>5. ASSUME NEW t \in Threads, WriteFails(t)
        PROVE  SerialInv'
    BY <1>5 DEF WriteFails, SerialInv
  <1>6. ASSUME NEW t \in Threads, Return(t)
        PROVE  SerialInv'
    <2>1. calls'[t].stage = "idle" /\ (\A u \in Threads \ {t} : calls'[u] = calls[u])
      BY <1>6, <1>b DEF Return, Idle
    <2>2. QED
      BY <1>6, <2>1 DEF Return, SerialInv
  <1>7. ASSUME NEW proc \in Processes, KillProcess(proc)
        PROVE  SerialInv'
    <2>1. \A u \in Threads : calls'[u] = calls[u] \/ calls'[u].stage = "idle"
      BY <1>7 DEF KillProcess, Idle
    <2>2. QED
      BY <1>7, <2>1 DEF KillProcess, SerialInv
  <1>8. ASSUME NEW m \in {"ok"} \cup Media, MediaChanges(m)
        PROVE  SerialInv'
    BY <1>8 DEF MediaChanges, SerialInv, SerialAssumption
  <1>9. ASSUME NEW p \in Paths, RemoveBlob(p)
        PROVE  SerialInv'
    <2>1. \A q \in Paths : blobs'[q] = blobs[q] \/ blobs'[q] = NoValue
      BY <1>9, <1>b DEF RemoveBlob
    <2>2. \A u \in Threads : calls[u].stage = "write" => calls[u].path \in Paths
      BY CallFields
    <2>3. QED
      BY <1>9, <2>1, <2>2 DEF RemoveBlob, SerialInv
  <1>10. CASE UNCHANGED providerVars
    BY <1>10 DEF providerVars, SerialInv
  <1>11. QED
    BY <1>1, <1>2, <1>3, <1>4, <1>5, <1>6, <1>7, <1>8, <1>9, <1>10
       DEF Next, Step, Environment

(* What the callers of StableChoice have been answered. *)
Answers == [t \in Threads |-> IF calls[t].stage = "done" THEN {calls[t].output} ELSE {}]

(* A load that is done answers its output and disturbs no other answer. *)
LEMMA AnswerRecorded ==
  ASSUME NEW t \in Threads, calls'[t].stage = "done",
         \A u \in Threads \ {t} : calls'[u] = calls[u]
  PROVE  Answers' = [Answers EXCEPT ![t] = {calls'[t].output}]
  <1>1. Answers' = [u \in Threads |-> IF u = t THEN {calls'[t].output} ELSE Answers[u]]
    BY DEF Answers
  <1>2. QED
    BY <1>1 DEF Answers

(* A load in progress has answered nothing yet. *)
LEMMA NothingAnswered ==
  ASSUME NEW t \in Threads, calls[t].stage # "done"
  PROVE  Answers[t] = {}
  BY DEF Answers

(* Nothing is chosen and nothing is answered at the start. *)
LEMMA InitRefines == Init => Choice!Init
  BY DEF Init, Choice!Init, Idle

(* Every step of the provider is a step of StableChoice or stutters. *)
LEMMA NextRefines ==
  SerialAssumption /\ TypeOK /\ SerialInv /\ [Next]_providerVars
    => [Choice!Next]_(Choice!choiceVars)
  <1> SUFFICES ASSUME SerialAssumption, TypeOK, SerialInv, [Next]_providerVars
               PROVE  \/ Choice!Next
                      \/ blobs' = blobs /\ Answers' = Answers
    BY DEF Choice!choiceVars, Answers
  <1>b. calls \in [Threads -> CallStates] /\ blobs \in [Paths -> Values \cup {NoValue}]
    BY DEF TypeOK
  <1>1. ASSUME NEW t \in Threads, NEW p \in Paths, NEW a \in Args, LoadOrCreate(t, p, a)
        PROVE  blobs' = blobs /\ Answers' = Answers
    <2>1. calls' = [calls EXCEPT ![t] = Reading(p, a)] /\ calls[t] = Idle
      BY <1>1 DEF LoadOrCreate, SerialAssumption
    <2>2. \A u \in Threads : calls'[u] = calls[u] \/ (calls'[u].stage = "read" /\ calls[u].stage = "idle")
      BY <1>b, <2>1 DEF Reading, Idle
    <2>3. \A u \in Threads : Answers'[u] = Answers[u]
      BY <2>2 DEF Answers
    <2>4. QED
      BY <1>1, <2>2 DEF LoadOrCreate, Answers
  <1>2. ASSUME NEW t \in Threads, ReadHit(t)
        PROVE  Choice!Next
    <2>1. /\ calls[t].path \in Paths /\ blobs[calls[t].path] \in Values
          /\ calls' = [calls EXCEPT ![t] = Done(calls[t].path, blobs[calls[t].path], TRUE, FALSE)]
      BY <1>2, <1>b, CallFields DEF ReadHit
    <2>2. Answers' = [Answers EXCEPT ![t] = {blobs[calls[t].path]}] /\ Answers[t] = {}
      <3>1. /\ calls'[t].stage = "done" /\ calls'[t].output = blobs[calls[t].path]
            /\ \A u \in Threads \ {t} : calls'[u] = calls[u]
        BY <1>b, <2>1 DEF Done
      <3>2. QED
        BY <1>2, <3>1, AnswerRecorded, NothingAnswered DEF ReadHit
    <2>3. blobs' = [blobs EXCEPT ![calls[t].path] = blobs[calls[t].path]]
      BY <1>2, <1>b, <2>1 DEF ReadHit
    <2>4. PICK p \in Paths, v \in Values : p = calls[t].path /\ v = blobs[calls[t].path]
      BY <2>1
    <2>5. Choice!Answer(t, p, v)
      BY <2>2, <2>3, <2>4 DEF Choice!Answer, Answers
    <2>6. QED
      BY <2>5 DEF Choice!Next
  <1>3. ASSUME NEW t \in Threads, ReadMiss(t)
        PROVE  \/ Choice!Next
               \/ blobs' = blobs /\ Answers' = Answers
    <2> DEFINE p == calls[t].path
               a == calls[t].arg
    <2>1. CASE Generate(p, a) = NoValue
      <3>1. calls' = [calls EXCEPT ![t] = GenerateEmbedded(p, a)]
        BY <1>3, <2>1 DEF ReadMiss
      <3>2. Answers' = [Answers EXCEPT ![t] = {NoValue}] /\ Answers[t] = {}
        <4>1. /\ calls'[t].stage = "done" /\ calls'[t].output = NoValue
              /\ \A u \in Threads \ {t} : calls'[u] = calls[u]
          BY <1>b, <2>1, <3>1 DEF GenerateEmbedded, Done
        <4>2. QED
          BY <1>3, <4>1, AnswerRecorded, NothingAnswered DEF ReadMiss
      <3>3. Choice!Refuse(t)
        BY <1>3, <3>2 DEF Choice!Refuse, Answers, ReadMiss
      <3>4. QED
        BY <3>3 DEF Choice!Next
    <2>2. CASE Generate(p, a) # NoValue
      <3>1. calls' = [calls EXCEPT ![t] = Writing(p, a, Generate(p, a))]
        BY <1>3, <2>2 DEF ReadMiss
      <3>2. \A u \in Threads : calls'[u] = calls[u] \/ (calls'[u].stage = "write" /\ calls[u].stage = "read")
        BY <1>3, <1>b, <3>1 DEF Writing, ReadMiss
      <3>3. QED
        BY <1>3, <3>2 DEF ReadMiss, Answers
    <2>3. QED
      BY <2>1, <2>2
  <1>4. ASSUME NEW t \in Threads, WriteBlob(t)
        PROVE  Choice!Next
    <2>1. calls[t].path \in Paths /\ calls[t].output \in Values /\ blobs[calls[t].path] = NoValue
      BY <1>4, CallFields DEF WriteBlob, SerialInv
    <2>2. calls' = [calls EXCEPT ![t] = Done(calls[t].path, calls[t].output, TRUE, TRUE)]
      BY <1>4 DEF WriteBlob
    <2>3. Answers' = [Answers EXCEPT ![t] = {calls[t].output}] /\ Answers[t] = {}
      <3>1. /\ calls'[t].stage = "done" /\ calls'[t].output = calls[t].output
            /\ \A u \in Threads \ {t} : calls'[u] = calls[u]
        BY <1>b, <2>2 DEF Done
      <3>2. QED
        BY <1>4, <3>1, AnswerRecorded, NothingAnswered DEF WriteBlob
    <2>4. PICK p \in Paths, v \in Values : p = calls[t].path /\ v = calls[t].output
      BY <2>1
    <2>5. Choice!Answer(t, p, v)
      BY <1>4, <2>1, <2>3, <2>4 DEF Choice!Answer, Answers, WriteBlob
    <2>6. QED
      BY <2>5 DEF Choice!Next
  <1>5. ASSUME NEW t \in Threads, WriteFails(t)
        PROVE  FALSE
    BY <1>5 DEF WriteFails, SerialInv
  <1>6. ASSUME NEW t \in Threads, Return(t)
        PROVE  Choice!Next
    <2>1. calls' = [calls EXCEPT ![t] = Idle]
      BY <1>6 DEF Return
    <2>2. Answers' = [u \in Threads |-> IF u \in {t} THEN {} ELSE Answers[u]]
      BY <1>b, <2>1 DEF Answers, Idle
    <2>3. Choice!Consume({t})
      BY <1>6, <2>2 DEF Choice!Consume, Answers, Return
    <2>4. QED
      BY <2>3 DEF Choice!Next
  <1>7. ASSUME NEW proc \in Processes, KillProcess(proc)
        PROVE  Choice!Next
    <2> DEFINE dead == {t \in Threads : ProcessOf[t] = proc}
    <2>1. calls' = [t \in Threads |-> IF t \in dead THEN Idle ELSE calls[t]]
      BY <1>7 DEF KillProcess
    <2>2. Answers' = [u \in Threads |-> IF u \in dead THEN {} ELSE Answers[u]]
      BY <2>1 DEF Answers, Idle
    <2>3. Choice!Consume(dead)
      BY <1>7, <2>2 DEF Choice!Consume, Answers, KillProcess
    <2>4. dead \in SUBSET Threads
      OBVIOUS
    <2>5. QED
      BY <2>3, <2>4 DEF Choice!Next
  <1>8. ASSUME NEW m \in {"ok"} \cup Media, MediaChanges(m)
        PROVE  FALSE
    BY <1>8 DEF MediaChanges, SerialInv, SerialAssumption
  <1>9. ASSUME NEW p \in Paths, RemoveBlob(p)
        PROVE  Choice!Next
    <2>1. Choice!Forget(p)
      BY <1>9 DEF RemoveBlob, Choice!Forget
    <2>2. QED
      BY <2>1 DEF Choice!Next
  <1>10. CASE UNCHANGED providerVars
    BY <1>10 DEF providerVars, Answers
  <1>11. QED
    BY <1>1, <1>2, <1>3, <1>4, <1>5, <1>6, <1>7, <1>8, <1>9, <1>10
       DEF Next, Step, Environment

(* Serialised loads on working storage implement the promise of            *)
(* StableChoice: one decision per path, answered until the state goes.     *)
THEOREM RefinesStableChoice ==
  ASSUME SerialAssumption
  PROVE  Spec => ImplementsStableChoice
  <1>1. Spec => [](TypeOK /\ SerialInv)
    BY InitTypeOK, NextTypeOK, InitSerialInv, NextSerialInv, PTL DEF Spec
  <1>2. QED
    BY <1>1, InitRefines, NextRefines, PTL DEF Spec, Choice!Spec, ImplementsStableChoice
=============================================================================
