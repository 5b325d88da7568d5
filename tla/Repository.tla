----------------------------- MODULE Repository -----------------------------
(***************************************************************************)
(* The deployment repositories under concurrent coroutines, their worker   *)
(* threads, and processes that die: JsonDeploymentRepository (one file,    *)
(* rewritten as a whole under a write lock), SqliteDeploymentRepository    *)
(* (one row per record, BEGIN IMMEDIATE) and InMemoryDeploymentRepository  *)
(* (adapters/lifecycle).  The values that count are a record's body, which *)
(* save() replaces, and its usage, which only update() may change.         *)
(***************************************************************************)
EXTENDS Naturals

CONSTANTS Kind,         \* repositories to consider
          Process,      \* each with any number of coroutines
          Id, Op,       \* deployments; operations, named by their order
          Stored,       \* what the storage may hold at the start
          MaxCrashes

ASSUME KindAssumption == Kind \subseteq {"json", "sqlite", "memory"}
ASSUME OpAssumption == Op \subseteq Nat \ {0} /\ MaxCrashes \in Nat   \* 0: nobody

VARIABLES
    kind,
    disk,       \* what a reader of the file (or dict) finds
    op,         \* each operation: its caller, its place, what it read
    did,        \* its effect
    entered,    \* the asyncio.Lock of each process: the operation inside
    writer,     \* the storage's write lock
    crashes

vars == <<kind, disk, op, did, entered, writer, crashes>>

None == [is |-> "none"]
Invalid == [is |-> "unreadable"]
Value == [is : {"record"}, body : Op \cup {0}, usage : Nat] \cup {None, Invalid}
ASSUME StoredAssumption == Stored \subseteq [Id -> Value]
Unused == [pc |-> "unused"]
Atomic == INSTANCE AtomicStore

RepositoryTypeOK ==
    /\ disk \in [Id -> Value]
    /\ \A o \in Op : op[o] = Unused \/
           /\ op[o].pc \in {"queued", "thread", "reading", "writing", "done",
                            "failed", "dead"}
           /\ op[o].call \in {"save", "update", "delete", "get"}
           /\ op[o].caller \in Process /\ op[o].id \in Id
           /\ op[o].awaited \in BOOLEAN
           /\ op[o].pc = "writing" => op[o].seen \in [Id -> Value]
    /\ did \in [Op -> {"nothing", "applied", "missing"}]
    /\ entered \in [Process -> Op \cup {0}] /\ writer \in Op \cup {0}

\* Records of a newer version, or damaged ones, cannot be parsed.
Init ==
    /\ kind \in Kind
    /\ disk \in {m \in Stored : kind = "memory" => \A i \in Id : m[i] # Invalid}
    /\ op = [o \in Op |-> Unused] /\ did = [o \in Op |-> "nothing"]
    /\ entered = [p \in Process |-> 0] /\ writer = 0 /\ crashes = 0

-----------------------------------------------------------------------------
(* What an operation does to the records it has read. *)

FaultyMutated(o, m) ==      \* the saved record brings its own usage
    LET i == op[o].id
    IN  CASE op[o].call = "save" -> [m EXCEPT ![i] = [is |-> "record", body |-> o, usage |-> 0]]
          [] op[o].call = "update" -> [m EXCEPT ![i].usage = @ + 1]
          [] op[o].call = "delete" -> [m EXCEPT ![i] = None]

Mutated(o, m) ==
    LET i == op[o].id
    IN  CASE op[o].call = "save" ->
                 [m EXCEPT ![i] = [is |-> "record", body |-> o, usage |-> IF m[i] = None THEN 0
                                                         ELSE m[i].usage]]
          [] op[o].call = "update" -> [m EXCEPT ![i].usage = @ + 1]
          [] op[o].call = "delete" -> [m EXCEPT ![i] = None]

FaultyRefuses(o, m) ==      \* other records of the file are not looked at
    m[op[o].id] = Invalid /\ op[o].call # "delete"

\* A mutation refuses storage it cannot parse: the whole file, or its row.
Refuses(o, m) ==
    IF kind = "json" THEN \E i \in Id : m[i] = Invalid
    ELSE m[op[o].id] = Invalid /\ op[o].call # "delete"

\* Only the row is rewritten; a JSON file that skipped a record loses it.
Written(o, m) ==
    IF kind = "json"
    THEN [i \in Id |-> IF m[i] = Invalid /\ i # op[o].id THEN None
                       ELSE Mutated(o, [m EXCEPT ![op[o].id] =
                                IF @ = Invalid THEN None ELSE @])[i]]
    ELSE [disk EXCEPT ![op[o].id] = Mutated(o, m)[op[o].id]]

-----------------------------------------------------------------------------
(* One operation. *)

Nothing == [i \in Id |-> None]
At(o, pc) == op[o] # Unused /\ op[o].pc = pc
Goto(o, pc) == op' = [op EXCEPT ![o].pc = pc, ![o].seen = Nothing]
Awaited(o) == op[o] # Unused /\ op[o].awaited

Begin(p, call, i) ==
    /\ \E o \in Op :
           /\ op[o] = Unused /\ \A q \in Op : q < o => op[q] # Unused
           /\ op' = [op EXCEPT ![o] =
                  [pc |-> IF kind = "sqlite" THEN "thread" ELSE "queued",
                   call |-> call, caller |-> p, id |-> i, awaited |-> TRUE,
                   seen |-> Nothing]]
    /\ UNCHANGED <<kind, disk, did, entered, writer, crashes>>

\* The instance's asyncio.Lock, then a thread.
Enter(o) ==
    /\ At(o, "queued") /\ entered[op[o].caller] = 0
    /\ entered' = [entered EXCEPT ![op[o].caller] = o]
    /\ Goto(o, "thread")
    /\ UNCHANGED <<kind, disk, did, writer, crashes>>

\* Readers take no lock, and skip what they cannot parse.
Get(o) ==
    /\ At(o, "thread") /\ op[o].call = "get" /\ Goto(o, "done")
    /\ UNCHANGED <<kind, disk, did, entered, writer, crashes>>

FaultyTakeLock(o) ==        \* the file is read before its lock is taken
    /\ At(o, "thread") /\ op[o].call # "get" /\ kind # "memory"
    /\ Goto(o, "reading")
    /\ UNCHANGED <<kind, disk, did, entered, writer, crashes>>

TakeLock(o) ==
    /\ At(o, "thread") /\ op[o].call # "get" /\ kind # "memory" /\ writer = 0
    /\ writer' = o /\ Goto(o, "reading")
    /\ UNCHANGED <<kind, disk, did, entered, crashes>>

Unlock(o) == writer' = IF writer = o THEN 0 ELSE writer

\* SQLite waits 30 s for a busy database, then raises.
LockTimesOut(o) ==
    /\ At(o, "thread") /\ op[o].call # "get" /\ kind = "sqlite" /\ writer # 0
    /\ Goto(o, "failed")
    /\ UNCHANGED <<kind, disk, did, entered, writer, crashes>>

\* update() inserts nothing.
Missing(o) == op[o].call = "update" /\ disk[op[o].id] = None

Read(o) ==
    /\ At(o, "reading")
    /\ \/ Refuses(o, disk) /\ Goto(o, "failed") /\ Unlock(o) /\ UNCHANGED did
       \/ ~Refuses(o, disk) /\ Missing(o) /\ Goto(o, "done") /\ Unlock(o)
          /\ did' = [did EXCEPT ![o] = "missing"]
       \/ ~Refuses(o, disk) /\ ~Missing(o) /\ UNCHANGED <<did, writer>>
          /\ op' = [op EXCEPT ![o].pc = "writing", ![o].seen = disk]
    /\ UNCHANGED <<kind, disk, entered, crashes>>

\* os.replace, or the commit: from the old contents to the new at once.
Write(o) ==
    /\ At(o, "writing")
    /\ disk' = Written(o, op[o].seen) /\ did' = [did EXCEPT ![o] = "applied"]
    /\ Goto(o, "done") /\ Unlock(o)
    /\ UNCHANGED <<kind, entered, crashes>>

FaultyWriteFails(o) ==      \* logged, and not raised
    /\ At(o, "writing") /\ Goto(o, "done") /\ Unlock(o)
    /\ UNCHANGED <<kind, disk, did, entered, crashes>>

\* The temporary file could not be written or moved.
WriteFails(o) ==
    /\ At(o, "writing") /\ Goto(o, "failed") /\ Unlock(o)
    /\ UNCHANGED <<kind, disk, did, entered, crashes>>

\* In memory there is no await under the lock.
InMemory(o) ==
    /\ At(o, "thread") /\ op[o].call # "get" /\ kind = "memory" /\ Goto(o, "done")
    /\ did' = [did EXCEPT ![o] = IF Missing(o) THEN "missing" ELSE "applied"]
    /\ disk' = IF Missing(o) THEN disk ELSE Mutated(o, disk)
    /\ UNCHANGED <<kind, entered, writer, crashes>>

Exit(o) == entered' = [p \in Process |-> IF entered[p] = o THEN 0 ELSE entered[p]]

Return(o) ==
    /\ Awaited(o) /\ op[o].pc \in {"done", "failed"}
    /\ op' = [op EXCEPT ![o].awaited = FALSE] /\ Exit(o)
    /\ UNCHANGED <<kind, disk, did, writer, crashes>>

\* The await ends and frees the asyncio.Lock; a thread goes on.
Cancel(o) ==
    /\ Awaited(o) /\ op[o].pc \notin {"done", "failed"}
    /\ op' = [op EXCEPT ![o].awaited = FALSE,
                        ![o].pc = IF @ = "queued" \/ kind = "memory" THEN "dead" ELSE @]
    /\ Exit(o)
    /\ UNCHANGED <<kind, disk, did, writer, crashes>>

FaultyCrash(p) ==           \* a lock by the existence of its file
    /\ crashes < MaxCrashes /\ crashes' = crashes + 1 /\ kind # "memory"
    /\ op' = [o \in Op |-> IF op[o] # Unused /\ op[o].caller = p
                           THEN [op[o] EXCEPT !.awaited = FALSE,
                                   !.pc = IF @ \in {"done", "failed"} THEN @
                                          ELSE "dead"]
                           ELSE op[o]]
    /\ entered' = [entered EXCEPT ![p] = 0]
    /\ UNCHANGED <<kind, disk, did, writer>>

\* The operating system frees its locks; an open transaction is rolled back.
Crash(p) ==
    /\ crashes < MaxCrashes /\ crashes' = crashes + 1 /\ kind # "memory"
    /\ LET dies == {o \in Op : op[o] # Unused /\ op[o].caller = p}
       IN  /\ op' = [o \in Op |-> IF o \in dies
                                  THEN [op[o] EXCEPT !.awaited = FALSE,
                                          !.pc = IF @ \in {"done", "failed"} THEN @
                                                 ELSE "dead"]
                                  ELSE op[o]]
           /\ writer' = IF writer \in dies THEN 0 ELSE writer
    /\ entered' = [entered EXCEPT ![p] = 0]
    /\ UNCHANGED <<kind, disk, did>>

-----------------------------------------------------------------------------
Progress(o) ==
    \/ Enter(o) \/ Get(o) \/ TakeLock(o) \/ LockTimesOut(o) \/ Read(o) \/ Write(o)
    \/ WriteFails(o) \/ InMemory(o) \/ Return(o)

Next ==
    \/ \E p \in Process, call \in {"save", "update", "delete", "get"}, i \in Id :
           Begin(p, call, i)
    \/ \E o \in Op : Progress(o) \/ Cancel(o)
    \/ \E p \in Process : Crash(p)

Spec == Init /\ [][Next]_vars

\* Threads run, and a free lock is given to somebody who waits for it.
FairSpec == Spec /\ \A o \in Op : SF_vars(Progress(o))

-----------------------------------------------------------------------------
(* Properties. *)

\* Coroutines, detached threads, processes and crashes: the store behaves as
\* one map that operations change one at a time (AtomicStore).
KeepsAtomicStore == Atomic!Spec

\* A caller that got its answer finds the effect in the store, and one whose
\* operation raised has changed nothing.
AnswerIsEffect ==
    \A o \in Op : op[o] # Unused /\ op[o].call # "get" =>
        /\ op[o].pc = "done" => did[o] # "nothing"
        /\ op[o].pc = "failed" => did[o] = "nothing"

\* Answers and types together, for TLC.
RepositoryInv == RepositoryTypeOK /\ AnswerIsEffect

\* A record that cannot be parsed here (damaged, or of a newer version) is not
\* lost by rewriting the file around it; only its own deletion removes it.
UnreadableIsKept ==
    [][\A i \in Id : disk[i] = Invalid /\ disk'[i] # Invalid =>
           \E o \in Op : did[o] # did'[o] /\ op[o].call = "delete" /\ op[o].id = i]_vars

\* No operation waits for ever behind cancelled or dead ones.
OperationsEnd == \A o \in Op : Awaited(o) ~> ~Awaited(o)
=============================================================================
