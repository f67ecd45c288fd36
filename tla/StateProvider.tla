--------------------------- MODULE StateProvider ---------------------------
(***************************************************************************)
(* The state provider of the injected runtime                              *)
(* (src/runtime/state/LHStateProvider.m).  Every persistent value of a     *)
(* mitigation is a small blob file.  A hook asks for it with               *)
(* LHStateProviderLoadOrCreate: read the file; when it cannot be read,     *)
(* generate the value and write it; when it cannot be written either,      *)
(* answer a value generated in memory.  Nothing locks: hooks run on every  *)
(* thread of the process, and package mode shares files between processes. *)
(* One step below is one file operation; a kill may fall between two.      *)
(***************************************************************************)
EXTENDS FiniteSets

CONSTANTS
  Threads,          \* threads that run hooks, of all processes
  Processes,        \* injected processes
  ProcessOf,        \* the process of a thread
  Paths,            \* blob files: one per state key, active seed and scope
  StoredPaths,      \* those the configured provider has a file path for
  Args,             \* what a generator is given: seed material and bounds
  Values,           \* blob payloads
  NoValue,          \* no payload: no readable blob, a generator that failed
  Generate(_, _),   \* Generate(p, a): the generator of p, a pure function
  Media,            \* conditions the storage may be in, beside "ok"
  Removable,        \* may the state be removed from outside (BOOLEAN)
  Serialised        \* do loads of one path never overlap (BOOLEAN)

ASSUME ProviderAssumption ==
  /\ ProcessOf \in [Threads -> Processes]
  /\ StoredPaths \subseteq Paths
  /\ NoValue \notin Values
  /\ \A p \in Paths, a \in Args : Generate(p, a) \in Values \cup {NoValue}
  /\ Media \subseteq {"readonly", "locked"}
  /\ Removable \in BOOLEAN
  /\ Serialised \in BOOLEAN

VARIABLES
  blobs,     \* blobs[p]: payload of the file with the current schema, or NoValue
  media,     \* "ok", "readonly" (writes fail) or "locked" (reads fail too)
  calls,     \* calls[t]: the load in progress on t
  settled    \* history: settled[t], the blob t's load found settled at its start

providerVars == <<blobs, media, calls, settled>>

Idle == [stage |-> "idle"]
Reading(p, a) == [stage |-> "read", path |-> p, arg |-> a]
Writing(p, a, v) == [stage |-> "write", path |-> p, arg |-> a, output |-> v]
Done(p, v, isLocal, isCreated) ==
  [stage |-> "done", path |-> p, output |-> v,
   local |-> isLocal, created |-> isCreated]

CallStates ==
  {Idle}
    \cup [stage : {"read"}, path : StoredPaths, arg : Args]
    \cup [stage : {"write"}, path : StoredPaths, arg : Args, output : Values]
    \cup [stage : {"done"}, path : Paths, output : Values \cup {NoValue},
          local : BOOLEAN, created : BOOLEAN]

TypeOK ==
  /\ blobs \in [Paths -> Values \cup {NoValue}]
  /\ media \in {"ok"} \cup Media
  /\ calls \in [Threads -> CallStates]
  /\ settled \in [Threads -> Values \cup {NoValue}]

(* A load that missed the blob of p and has not written its own yet. *)
PendingWrite(p) ==
  \E t \in Threads : calls[t].stage = "write" /\ calls[t].path = p

InFlight(p) ==
  \E t \in Threads : calls[t].stage \in {"read", "write"} /\ calls[t].path = p

Init ==
  /\ blobs = [p \in Paths |-> NoValue]
  /\ media = "ok"
  /\ calls = [t \in Threads |-> Idle]
  /\ settled = [t \in Threads |-> NoValue]

-----------------------------------------------------------------------------
(* The answer generated in memory: not local; no answer when it fails. *)
GenerateEmbedded(p, a) == Done(p, Generate(p, a), FALSE, Generate(p, a) # NoValue)

(* LHStateProviderLoadOrCreate: the provider kind and the file path decide *)
(* between the local or package load and the embedded generator.           *)
LoadOrCreate(t, p, a) ==
  /\ calls[t] = Idle
  /\ Serialised => ~InFlight(p)
  /\ calls' = [calls EXCEPT ![t] =
       IF p \in StoredPaths THEN Reading(p, a) ELSE GenerateEmbedded(p, a)]
  /\ settled' = [settled EXCEPT ![t] =
       IF p \in StoredPaths /\ ~PendingWrite(p) /\ media # "locked"
       THEN blobs[p] ELSE NoValue]
  /\ UNCHANGED <<blobs, media>>

(* Mutants of the two outcomes of a read. *)
MutantReadHitRegenerates(t) ==
  /\ calls[t].stage = "read"
  /\ media # "locked"
  /\ blobs[calls[t].path] # NoValue
  /\ calls' = [calls EXCEPT ![t] =
       Done(calls[t].path, Generate(calls[t].path, calls[t].arg), TRUE, FALSE)]
  /\ UNCHANGED <<blobs, media, settled>>

MutantReadMissAnyBlob(t) ==
  /\ calls[t].stage = "read"
  /\ LET p == calls[t].path
         a == calls[t].arg
     IN calls' = [calls EXCEPT ![t] =
          IF Generate(p, a) = NoValue
          THEN GenerateEmbedded(p, a)
          ELSE Writing(p, a, Generate(p, a))]
  /\ UNCHANGED <<blobs, media, settled>>

MutantReadMissUnchecked(t) ==
  /\ calls[t].stage = "read"
  /\ blobs[calls[t].path] = NoValue
  /\ LET p == calls[t].path
         a == calls[t].arg
     IN calls' = [calls EXCEPT ![t] = Writing(p, a, Generate(p, a))]
  /\ UNCHANGED <<blobs, media, settled>>

(* LHStateReadBytes succeeds. *)
ReadHit(t) ==
  /\ calls[t].stage = "read"
  /\ media # "locked"
  /\ blobs[calls[t].path] # NoValue
  /\ calls' = [calls EXCEPT ![t] =
       Done(calls[t].path, blobs[calls[t].path], TRUE, FALSE)]
  /\ UNCHANGED <<blobs, media, settled>>

(* LHStateReadBytes fails and LHStateGenerate runs; when the generator     *)
(* fails, the embedded attempt fails with it and so does the load.         *)
ReadMiss(t) ==
  /\ calls[t].stage = "read"
  /\ \/ media = "locked"
     \/ blobs[calls[t].path] = NoValue
  /\ LET p == calls[t].path
         a == calls[t].arg
     IN calls' = [calls EXCEPT ![t] =
          IF Generate(p, a) = NoValue
          THEN GenerateEmbedded(p, a)
          ELSE Writing(p, a, Generate(p, a))]
  /\ UNCHANGED <<blobs, media, settled>>

(* LHStateWriteBytes succeeds: the atomic write replaces whatever is there. *)
WriteBlob(t) ==
  /\ calls[t].stage = "write"
  /\ media = "ok"
  /\ blobs' = [blobs EXCEPT ![calls[t].path] = calls[t].output]
  /\ calls' = [calls EXCEPT ![t] =
       Done(calls[t].path, calls[t].output, TRUE, TRUE)]
  /\ UNCHANGED <<media, settled>>

(* LHStateWriteBytes fails: the load falls back to the embedded generator. *)
WriteFails(t) ==
  /\ calls[t].stage = "write"
  /\ media # "ok"
  /\ calls' = [calls EXCEPT ![t] = GenerateEmbedded(calls[t].path, calls[t].arg)]
  /\ UNCHANGED <<blobs, media, settled>>

(* The caller takes its answer. *)
Return(t) ==
  /\ calls[t].stage = "done"
  /\ calls' = [calls EXCEPT ![t] = Idle]
  /\ settled' = [settled EXCEPT ![t] = NoValue]
  /\ UNCHANGED <<blobs, media>>

-----------------------------------------------------------------------------
(* The surroundings.  The system kills a process between any two steps. *)
KillProcess(proc) ==
  LET dead == {t \in Threads : ProcessOf[t] = proc}
  IN /\ \E t \in dead : calls[t] # Idle
     /\ calls' = [t \in Threads |-> IF t \in dead THEN Idle ELSE calls[t]]
     /\ settled' = [t \in Threads |-> IF t \in dead THEN NoValue ELSE settled[t]]
     /\ UNCHANGED <<blobs, media>>

(* Storage fills up, is locked by data protection, or recovers.  What a    *)
(* load found settled no longer binds it once reads fail.                  *)
MediaChanges(m) ==
  /\ media # m
  /\ media' = m
  /\ settled' = IF m = "locked" THEN [t \in Threads |-> NoValue] ELSE settled
  /\ UNCHANGED <<blobs, calls>>

(* The package or the app is removed, or the file is of another schema. *)
RemoveBlob(p) ==
  /\ Removable
  /\ blobs[p] # NoValue
  /\ blobs' = [blobs EXCEPT ![p] = NoValue]
  /\ settled' = [t \in Threads |->
       IF calls[t].stage # "idle" /\ calls[t].path = p THEN NoValue ELSE settled[t]]
  /\ UNCHANGED <<media, calls>>

Step(t) == ReadHit(t) \/ ReadMiss(t) \/ WriteBlob(t) \/ WriteFails(t)

Environment ==
  \/ \E proc \in Processes : KillProcess(proc)
  \/ \E m \in {"ok"} \cup Media : MediaChanges(m)
  \/ \E p \in Paths : RemoveBlob(p)

Next ==
  \/ \E t \in Threads, p \in Paths, a \in Args : LoadOrCreate(t, p, a)
  \/ \E t \in Threads : Step(t)
  \/ \E t \in Threads : Return(t)
  \/ Environment

Spec == Init /\ [][Next]_providerVars

(* Every thread that entered the provider runs on, unless it is killed. *)
FairSpec == Spec /\ \A t \in Threads : WF_providerVars(Step(t)) /\ WF_providerVars(Return(t))

-----------------------------------------------------------------------------
(* A load that starts when the blob is on file and no earlier caller is    *)
(* still to write its own answers that blob and nothing else, whatever     *)
(* other threads and processes do meanwhile, as long as the file stays     *)
(* readable: the stability hooks rely on (LHStateProvider.m:177, :213).    *)
SettledAnswer ==
  \A t \in Threads :
    (calls[t].stage = "done" /\ settled[t] # NoValue) =>
      calls[t] = Done(calls[t].path, settled[t], TRUE, FALSE)

(* Racing first callers overwrite each other (LHStateProvider.m:149), yet  *)
(* once storage works and nothing removes the state any more, each blob    *)
(* stops changing: only callers that missed it may replace it, and every   *)
(* later caller finds it.                                                  *)
Undisturbed ==
  <>[][media' = "ok" /\ \A p \in Paths : blobs[p] # NoValue => blobs'[p] # NoValue]_providerVars

FinallyStable == Undisturbed => <>[][UNCHANGED blobs]_providerVars

(* When loads of one path do not overlap and storage works, the provider   *)
(* implements StableChoice: the blob is the choice, an answer is a choice. *)
Choice == INSTANCE StableChoice WITH
  choice <- blobs,
  answers <- [t \in Threads |->
               IF calls[t].stage = "done" THEN {calls[t].output} ELSE {}]

ImplementsStableChoice == Choice!Spec
=============================================================================
