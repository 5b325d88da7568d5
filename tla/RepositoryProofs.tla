-------------------------- MODULE RepositoryProofs --------------------------
(***************************************************************************)
(* Theorems about Repository, for every set of deployments, operations and *)
(* processes, whatever the storage held at the start: the three            *)
(* repositories behave as one map that operations change one at a time.    *)
(***************************************************************************)
EXTENDS Repository, TLAPS

Busy == {"reading", "writing"}

OpRecord ==
    [pc : {"queued", "thread", "reading", "writing", "done", "failed", "dead"},
     call : {"save", "update", "delete", "get"}, caller : Process, id : Id,
     awaited : BOOLEAN, seen : [Id -> Value]]

Typed ==
    /\ kind \in {"json", "sqlite", "memory"} /\ disk \in [Id -> Value]
    /\ op \in [Op -> {Unused} \cup OpRecord]
    /\ did \in [Op -> {"nothing", "applied", "missing"}]
    /\ entered \in [Process -> Op \cup {0}] /\ writer \in Op \cup {0}

\* Whoever reads or writes holds the storage's lock, and intends to change it.
LockIsHeld ==
    \A o \in Op : op[o].pc \in Busy =>
        writer = o /\ kind # "memory" /\ op[o].call # "get"

\* What a writer has read is still what is stored, and it accepted it.
ReadIsFresh ==
    \A o \in Op : op[o].pc = "writing" =>
        op[o].seen = disk /\ ~Refuses(o, disk) /\ ~Missing(o)

\* Nothing happens before the one instant, and everything in it.
OneInstant ==
    \A o \in Op : /\ op[o].pc # "done" => did[o] = "nothing"
                  /\ op[o].pc = "done" /\ op[o].call # "get" => did[o] # "nothing"

MemoryIsReadable == kind = "memory" => \A i \in Id : disk[i] # Invalid

RepositoryIInv ==
    Typed /\ LockIsHeld /\ ReadIsFresh /\ OneInstant /\ MemoryIsReadable

-----------------------------------------------------------------------------
(* The operations keep it. *)

\* The repository starts in it.
LEMMA StoreBegins == Init => RepositoryIInv
  BY KindAssumption, StoredAssumption
  DEF Init, RepositoryIInv, Typed, LockIsHeld, ReadIsFresh, OneInstant,
      MemoryIsReadable, Unused, Busy

\* What a record becomes in Goto.
LEMMA GotoKeeps ==
  ASSUME Typed, NEW o \in Op, op[o] # Unused, NEW pc, Goto(o, pc),
         pc \in {"thread", "reading", "done", "failed"}
  PROVE /\ op' \in [Op -> {Unused} \cup OpRecord]
        /\ op'[o].pc = pc /\ op'[o].call = op[o].call /\ op'[o].id = op[o].id
        /\ \A q \in Op : q # o => op'[q] = op[q]
  <1>1. op[o] \in OpRecord
    BY DEF Typed
  <1>2. Nothing \in [Id -> Value]
    BY DEF Nothing, Value
  <1>3. [op[o] EXCEPT !.pc = pc, !.seen = Nothing] \in OpRecord
    BY <1>1, <1>2 DEF OpRecord
  <1> QED
    BY <1>1, <1>3 DEF Typed, Goto, OpRecord

\* A record that is in use is one, and the unused one is at no place.
LEMMA InUse ==
  ASSUME Typed, NEW o \in Op
  PROVE /\ op[o] # Unused => op[o] \in OpRecord
        /\ op[o] = Unused => op[o].pc = "unused"
  BY DEF Typed, Unused

\* Changing one readable record gives a store of readable records.
LEMMA MutatedIsTyped ==
  ASSUME Typed, NEW o \in Op, op[o] \in OpRecord, op[o].call # "get",
         NEW m \in [Id -> Value], m[op[o].id] # Invalid \/ op[o].call = "delete",
         op[o].call = "update" => m[op[o].id] # None
  PROVE /\ Mutated(o, m) \in [Id -> Value]
        /\ Mutated(o, m)[op[o].id] # Invalid
        /\ \A i \in Id : i # op[o].id => Mutated(o, m)[i] = m[i]
  <1> DEFINE i == op[o].id
  <1>1. i \in Id /\ m[i] \in Value /\ op[o].call \in {"save", "update", "delete"}
    BY DEF OpRecord
  <1>2. m[i] = None \/ m[i] = Invalid \/
            m[i] \in [is : {"record"}, body : Op \cup {0}, usage : Nat]
    BY <1>1 DEF Value
  <1>3. None \in Value /\ None # Invalid
    BY DEF Value, None, Invalid
  <1>4. CASE op[o].call = "save"
    <2> DEFINE u == IF m[i] = None THEN 0 ELSE m[i].usage
    <2>1. u \in Nat
      BY <1>2, <1>4
    <2>2. [is |-> "record", body |-> o, usage |-> u] \in Value
      BY <2>1 DEF Value
    <2>3. [is |-> "record", body |-> o, usage |-> u] # Invalid
      BY DEF Invalid
    <2>4. Mutated(o, m) = [m EXCEPT ![i] = [is |-> "record", body |-> o, usage |-> u]]
      BY <1>4 DEF Mutated
    <2> QED
      BY <1>1, <2>2, <2>3, <2>4
  <1>5. CASE op[o].call = "update"
    <2>1. m[i] \in [is : {"record"}, body : Op \cup {0}, usage : Nat]
      BY <1>2, <1>5
    <2>2. [m[i] EXCEPT !.usage = @ + 1] \in
              [is : {"record"}, body : Op \cup {0}, usage : Nat]
      BY <2>1
    <2>3. [m[i] EXCEPT !.usage = @ + 1] \in Value
      BY <2>2 DEF Value
    <2>4. [m[i] EXCEPT !.usage = @ + 1] # Invalid
      BY <2>2 DEF Invalid
    <2>5. Mutated(o, m) = [m EXCEPT ![i] = [m[i] EXCEPT !.usage = @ + 1]]
      BY <1>5 DEF Mutated
    <2> QED
      BY <1>1, <2>3, <2>4, <2>5
  <1>6. CASE op[o].call = "delete"
    <2>1. Mutated(o, m) = [m EXCEPT ![i] = None]
      BY <1>6 DEF Mutated
    <2> QED
      BY <1>1, <1>3, <2>1
  <1> QED
    BY <1>1, <1>4, <1>5, <1>6

\* Where a write was accepted, what is written is the change and nothing else.
LEMMA WrittenIsMutated ==
  ASSUME Typed, NEW o \in Op, op[o] \in OpRecord, op[o].call # "get",
         ~Refuses(o, disk), ~Missing(o), MemoryIsReadable
  PROVE /\ Written(o, disk) = Mutated(o, disk)
        /\ Mutated(o, disk) \in [Id -> Value]
        /\ Mutated(o, disk)[op[o].id] # Invalid
        /\ \A i \in Id : i # op[o].id => Mutated(o, disk)[i] = disk[i]
        /\ disk[op[o].id] # Invalid \/ op[o].call = "delete"
  <1>1. op[o].id \in Id /\ disk \in [Id -> Value]
    BY DEF OpRecord, Typed
  <1>2. disk[op[o].id] # Invalid \/ op[o].call = "delete"
    BY <1>1 DEF Refuses
  <1>3. /\ Mutated(o, disk) \in [Id -> Value]
        /\ Mutated(o, disk)[op[o].id] # Invalid
        /\ \A i \in Id : i # op[o].id => Mutated(o, disk)[i] = disk[i]
    BY <1>1, <1>2, MutatedIsTyped DEF Missing
  <1>4. CASE kind = "json"
    <2>1. \A i \in Id : disk[i] # Invalid
      BY <1>4 DEF Refuses
    <2>2. [disk EXCEPT ![op[o].id] = IF @ = Invalid THEN None ELSE @] = disk
      BY <1>1, <2>1
    <2>3. Written(o, disk) = [i \in Id |-> Mutated(o, disk)[i]]
      BY <1>4, <2>1, <2>2 DEF Written
    <2> QED
      BY <1>2, <1>3, <2>3
  <1>5. CASE kind # "json"
    <2>1. Written(o, disk) = [disk EXCEPT ![op[o].id] = Mutated(o, disk)[op[o].id]]
      BY <1>5 DEF Written
    <2> QED
      BY <1>1, <1>2, <1>3, <2>1
  <1> QED
    BY <1>4, <1>5

\* Leaving the lock: whoever else reads or writes still holds it.
LEMMA OneHolder ==
  ASSUME LockIsHeld, NEW o \in Op, NEW q \in Op, op[o].pc \in Busy, op[q].pc \in Busy
  PROVE q = o
  BY DEF LockIsHeld

\* An operation that moves to pc, with the store as it is, keeps the invariant
\* if it does not begin to read, or holds the lock when it does.
LEMMA MoveKeeps ==
  ASSUME RepositoryIInv, NEW o \in Op, op[o] # Unused, NEW pc, Goto(o, pc),
         pc \in {"thread", "reading", "done", "failed"}, op[o].pc # "done",
         UNCHANGED <<kind, disk>>,
         pc = "reading" =>
             writer = 0 /\ writer' = o /\ kind # "memory" /\ op[o].call # "get",
         pc # "reading" => writer' \in {writer, IF writer = o THEN 0 ELSE writer},
         did' \in {did, [did EXCEPT ![o] = "missing"]},
         did' = did <=> pc # "done" \/ op[o].call = "get",
         entered' \in [Process -> Op \cup {0}]
  PROVE RepositoryIInv'
  <1> USE DEF RepositoryIInv
  <1>1. /\ op' \in [Op -> {Unused} \cup OpRecord]
        /\ op'[o].pc = pc /\ op'[o].call = op[o].call /\ op'[o].id = op[o].id
        /\ \A q \in Op : q # o => op'[q] = op[q]
    BY GotoKeeps
  <1>2. Typed'
    BY <1>1 DEF Typed
  <1>3. LockIsHeld'
    BY <1>1, OpAssumption DEF LockIsHeld, Busy, Typed
  <1>4. ReadIsFresh'
    <2> SUFFICES ASSUME NEW q \in Op, op'[q].pc = "writing"
                 PROVE (op[q].seen = disk /\ ~Refuses(q, disk) /\ ~Missing(q))'
      BY DEF ReadIsFresh
    <2>1. q # o /\ op'[q] = op[q]
      BY <1>1
    <2>2. op[q].seen = disk /\ ~Refuses(q, disk) /\ ~Missing(q)
      BY <2>1 DEF ReadIsFresh
    <2> QED
      BY <2>1, <2>2 DEF Refuses, Missing
  <1>5. OneInstant'
    <2>1. did[o] = "nothing"
      BY DEF OneInstant
    <2> QED
      BY <1>1, <2>1 DEF OneInstant, Typed
  <1>6. MemoryIsReadable'
    BY DEF MemoryIsReadable
  <1> QED
    BY <1>2, <1>3, <1>4, <1>5, <1>6

\* The instant of an operation: it changes its record and has its answer.
LEMMA EffectKeeps ==
  ASSUME RepositoryIInv, NEW o \in Op, op[o] # Unused, op[o].call # "get",
         op[o].pc # "done", Goto(o, "done"), UNCHANGED <<kind, entered>>,
         ~Refuses(o, disk), ~Missing(o), disk' = Mutated(o, disk),
         did' = [did EXCEPT ![o] = "applied"],
         writer' \in {writer, IF writer = o THEN 0 ELSE writer},
         kind = "memory" \/ op[o].pc = "writing"
  PROVE RepositoryIInv'
  <1> USE DEF RepositoryIInv
  <1>1. /\ op' \in [Op -> {Unused} \cup OpRecord]
        /\ op'[o].pc = "done" /\ op'[o].call = op[o].call
        /\ \A q \in Op : q # o => op'[q] = op[q]
    BY GotoKeeps
  <1>2. op[o] \in OpRecord
    BY InUse
  <1>3. /\ disk' \in [Id -> Value] /\ disk'[op[o].id] # Invalid
        /\ \A i \in Id : i # op[o].id => disk'[i] = disk[i]
    BY <1>2, WrittenIsMutated
  <1>4. Typed'
    BY <1>1, <1>3 DEF Typed
  <1>5. LockIsHeld'
    BY <1>1 DEF LockIsHeld, Busy
  <1>6. ReadIsFresh'
    <2> SUFFICES ASSUME NEW q \in Op, op'[q].pc = "writing" PROVE FALSE
      BY DEF ReadIsFresh
    <2>1. q # o /\ op[q].pc = "writing"
      BY <1>1
    <2> QED
      BY <2>1, OneHolder DEF LockIsHeld, Busy
  <1>7. OneInstant'
    BY <1>1 DEF OneInstant, Typed
  <1>8. MemoryIsReadable'
    BY <1>3 DEF MemoryIsReadable
  <1> QED
    BY <1>4, <1>5, <1>6, <1>7, <1>8

\* Callers that come, leave or die: an operation is new, or stops being
\* awaited, and perhaps stops altogether.
LEMMA CallersKeep ==
  ASSUME RepositoryIInv, UNCHANGED <<kind, disk, did>>,
         op' \in [Op -> {Unused} \cup OpRecord], entered' \in [Process -> Op \cup {0}],
         \A o \in Op :
             \/ /\ op'[o].pc = op[o].pc /\ op'[o].call = op[o].call
                /\ op'[o].id = op[o].id /\ op'[o].seen = op[o].seen
                /\ writer = o /\ op[o].pc \in Busy => writer' = o
             \/ op[o].pc # "done" /\ op'[o].pc \in {"queued", "thread", "dead"},
         writer' \in {0, writer}
  PROVE RepositoryIInv'
  <1> USE DEF RepositoryIInv
  <1>1. Typed'
    BY DEF Typed
  <1>2. LockIsHeld'
    BY DEF LockIsHeld, Busy
  <1>3. ReadIsFresh'
    <2> SUFFICES ASSUME NEW q \in Op, op'[q].pc = "writing"
                 PROVE (op[q].seen = disk /\ ~Refuses(q, disk) /\ ~Missing(q))'
      BY DEF ReadIsFresh
    <2>1. op[q].pc = "writing" /\ op'[q].call = op[q].call
          /\ op'[q].id = op[q].id /\ op'[q].seen = op[q].seen
      OBVIOUS
    <2>2. op[q].seen = disk /\ ~Refuses(q, disk) /\ ~Missing(q)
      BY <2>1 DEF ReadIsFresh
    <2> QED
      BY <2>1, <2>2 DEF Refuses, Missing
  <1>4. OneInstant'
    BY DEF OneInstant
  <1>5. MemoryIsReadable'
    BY DEF MemoryIsReadable
  <1> QED
    BY <1>1, <1>2, <1>3, <1>4, <1>5

\* Each operation's step keeps the invariant.
LEMMA ProgressKeeps ==
  ASSUME RepositoryIInv, NEW o \in Op, Progress(o) \/ Cancel(o)
  PROVE RepositoryIInv'
  <1>1. Typed /\ OneInstant
    BY DEF RepositoryIInv
  <1>2. CASE Enter(o)
    <2>1. entered' \in [Process -> Op \cup {0}]
      BY <1>1, <1>2 DEF Enter, Typed
    <2> QED
      BY <1>2, <2>1, MoveKeeps DEF Enter, At
  <1>3. CASE Get(o)
    BY <1>1, <1>3, MoveKeeps DEF Get, At, Typed
  <1>4. CASE TakeLock(o)
    BY <1>1, <1>4, MoveKeeps DEF TakeLock, At, Typed
  <1>5. CASE LockTimesOut(o)
    BY <1>1, <1>5, MoveKeeps DEF LockTimesOut, At, Typed
  <1>6. CASE Read(o)
    <2>1. CASE Refuses(o, disk) /\ Goto(o, "failed") /\ Unlock(o) /\ UNCHANGED did
      BY <1>1, <1>6, <2>1, MoveKeeps DEF Read, At, Typed, Unlock
    <2>2. CASE /\ ~Refuses(o, disk) /\ Missing(o) /\ Goto(o, "done") /\ Unlock(o)
               /\ did' = [did EXCEPT ![o] = "missing"]
      <3>1. did[o] = "nothing" /\ op[o].pc = "reading" /\ op[o] # Unused
        BY <1>1, <1>6 DEF OneInstant, Read, At
      <3>2. did' # did /\ op[o].call # "get"
        BY <1>1, <2>2, <3>1 DEF Typed, Missing
      <3> QED
        BY <1>1, <1>6, <2>2, <3>1, <3>2, MoveKeeps DEF Read, Typed, Unlock
    <2>3. CASE /\ ~Refuses(o, disk) /\ ~Missing(o) /\ UNCHANGED <<did, writer>>
               /\ op' = [op EXCEPT ![o].pc = "writing", ![o].seen = disk]
      <3>1. /\ op[o].pc = "reading" /\ op[o] \in OpRecord /\ disk \in [Id -> Value]
            /\ UNCHANGED <<kind, disk, entered>>
        BY <1>1, <1>6, InUse DEF Read, At, Typed
      <3>2. [op[o] EXCEPT !.pc = "writing", !.seen = disk] \in OpRecord
        BY <3>1 DEF OpRecord
      <3>3. /\ op' \in [Op -> {Unused} \cup OpRecord]
            /\ op'[o].pc = "writing" /\ op'[o].seen = disk
            /\ op'[o].call = op[o].call /\ op'[o].id = op[o].id
            /\ \A q \in Op : q # o => op'[q] = op[q]
        BY <1>1, <2>3, <3>1, <3>2 DEF Typed, OpRecord
      <3>4. Typed'
        BY <1>1, <2>3, <3>1, <3>3 DEF Typed
      <3>5. LockIsHeld'
        BY <2>3, <3>1, <3>3 DEF RepositoryIInv, LockIsHeld, Busy
      <3>6. ReadIsFresh'
        <4> SUFFICES ASSUME NEW q \in Op, op'[q].pc = "writing"
                     PROVE (op[q].seen = disk /\ ~Refuses(q, disk) /\ ~Missing(q))'
          BY DEF ReadIsFresh
        <4>1. CASE q = o
          BY <2>3, <3>1, <3>3, <4>1 DEF Refuses, Missing
        <4>2. CASE q # o
          BY <3>1, <3>3, <4>2 DEF RepositoryIInv, ReadIsFresh, Refuses, Missing
        <4> QED
          BY <4>1, <4>2
      <3>7. OneInstant'
        BY <1>1, <2>3, <3>1, <3>3 DEF OneInstant
      <3>8. MemoryIsReadable'
        BY <3>1 DEF RepositoryIInv, MemoryIsReadable
      <3> QED
        BY <3>4, <3>5, <3>6, <3>7, <3>8 DEF RepositoryIInv
    <2> QED
      BY <1>6, <2>1, <2>2, <2>3 DEF Read
  <1>7. CASE Write(o)
    <2>1. /\ op[o] # Unused /\ op[o].pc = "writing" /\ op[o].call # "get"
          /\ op[o].seen = disk /\ ~Refuses(o, disk) /\ ~Missing(o)
      BY <1>7 DEF Write, At, RepositoryIInv, ReadIsFresh, LockIsHeld, Busy
    <2>2. disk' = Mutated(o, disk)
      BY <1>1, <1>7, <2>1, InUse, WrittenIsMutated DEF Write, RepositoryIInv
    <2> QED
      BY <1>7, <2>1, <2>2, EffectKeeps DEF Write, Unlock
  <1>8. CASE WriteFails(o)
    BY <1>1, <1>8, MoveKeeps DEF WriteFails, At, Typed, Unlock
  <1>9. CASE InMemory(o)
    <2>1. /\ op[o] # Unused /\ op[o].pc = "thread" /\ op[o].call # "get"
          /\ op[o] \in OpRecord /\ did[o] = "nothing"
      BY <1>1, <1>9, InUse DEF InMemory, At, OneInstant
    <2>2. CASE Missing(o)
      <3>1. did' = [did EXCEPT ![o] = "missing"] /\ did' # did /\ disk' = disk
        BY <1>1, <1>9, <2>1, <2>2 DEF InMemory, Typed
      <3> QED
        BY <1>1, <1>9, <2>1, <3>1, MoveKeeps DEF InMemory, Typed
    <2>3. CASE ~Missing(o)
      <3>1. disk[op[o].id] # Invalid /\ kind = "memory"
        BY <1>9, <2>1 DEF InMemory, RepositoryIInv, MemoryIsReadable, OpRecord
      <3>2. ~Refuses(o, disk)
        BY <3>1 DEF Refuses
      <3> QED
        BY <1>9, <2>1, <2>3, <3>1, <3>2, EffectKeeps DEF InMemory
    <2> QED
      BY <2>2, <2>3
  <1>10. CASE Return(o)
    <2>1. op[o] \in OpRecord
      BY <1>1, <1>10, InUse DEF Return, Awaited
    <2>2. op' \in [Op -> {Unused} \cup OpRecord]
      <3>1. [op[o] EXCEPT !.awaited = FALSE] \in OpRecord
        BY <2>1 DEF OpRecord
      <3> QED
        BY <1>1, <1>10, <3>1 DEF Return, Typed
    <2>3. \A q \in Op : /\ op'[q].pc = op[q].pc /\ op'[q].call = op[q].call
                        /\ op'[q].id = op[q].id /\ op'[q].seen = op[q].seen
      BY <1>1, <1>10, <2>1 DEF Return, OpRecord, Typed
    <2>4. entered' \in [Process -> Op \cup {0}]
      BY <1>1, <1>10 DEF Return, Exit, Typed
    <2> QED
      BY <1>10, <2>2, <2>3, <2>4, CallersKeep DEF Return
  <1>11. CASE Cancel(o)
    <2>1. op[o] \in OpRecord /\ op[o].pc # "done"
      BY <1>1, <1>11, InUse DEF Cancel, Awaited
    <2> DEFINE pc == IF op[o].pc = "queued" \/ kind = "memory" THEN "dead" ELSE op[o].pc
               r == [op[o] EXCEPT !.awaited = FALSE, !.pc = pc]
    <2>2. r \in OpRecord /\ op' = [op EXCEPT ![o] = r]
      BY <1>11, <2>1 DEF Cancel, OpRecord
    <2>3. op' \in [Op -> {Unused} \cup OpRecord]
      BY <1>1, <2>2 DEF Typed
    <2>4. \A q \in Op : q # o => op'[q] = op[q]
      BY <1>1, <2>2 DEF Typed
    <2>5. /\ op'[o].call = op[o].call /\ op'[o].id = op[o].id
          /\ op'[o].seen = op[o].seen /\ op'[o].pc = pc
      BY <1>1, <2>1, <2>2 DEF Typed, OpRecord
    <2>6. entered' \in [Process -> Op \cup {0}]
      BY <1>1, <1>11 DEF Cancel, Exit, Typed
    <2> QED
      BY <1>11, <2>1, <2>3, <2>4, <2>5, <2>6, CallersKeep DEF Cancel
  <1> QED
    BY <1>2, <1>3, <1>4, <1>5, <1>6, <1>7, <1>8, <1>9, <1>10, <1>11 DEF Progress

\* Every step keeps the invariant.
LEMMA StoreStep == RepositoryIInv /\ [Next]_vars => RepositoryIInv'
  <1> SUFFICES ASSUME RepositoryIInv, [Next]_vars PROVE RepositoryIInv'
    OBVIOUS
  <1>1. Typed /\ OneInstant
    BY DEF RepositoryIInv
  <1>2. ASSUME NEW p \in Process, NEW call \in {"save", "update", "delete", "get"},
               NEW i \in Id, Begin(p, call, i)
        PROVE RepositoryIInv'
    <2> DEFINE r == [pc |-> IF kind = "sqlite" THEN "thread" ELSE "queued",
                     call |-> call, caller |-> p, id |-> i, awaited |-> TRUE,
                     seen |-> Nothing]
    <2>1. PICK o \in Op : op[o] = Unused /\ op' = [op EXCEPT ![o] = r]
      BY <1>2 DEF Begin
    <2>2. Nothing \in [Id -> Value]
      BY DEF Nothing, Value
    <2>3. r \in OpRecord
      BY <2>2 DEF OpRecord
    <2>4. op' \in [Op -> {Unused} \cup OpRecord] /\ op[o].pc # "done"
      BY <1>1, <2>1, <2>3, InUse DEF Typed
    <2>5. op'[o].pc \in {"queued", "thread", "dead"} /\ \A q \in Op : q # o => op'[q] = op[q]
      BY <1>1, <2>1 DEF Typed
    <2>6. entered' \in [Process -> Op \cup {0}] /\ UNCHANGED <<kind, disk, did, writer>>
      BY <1>1, <1>2 DEF Begin, Typed
    <2> HIDE DEF r
    <2> QED
      BY <2>4, <2>5, <2>6, CallersKeep
  <1>3. ASSUME NEW o \in Op, Progress(o) \/ Cancel(o) PROVE RepositoryIInv'
    BY <1>3, ProgressKeeps
  <1>4. ASSUME NEW p \in Process, Crash(p) PROVE RepositoryIInv'
    <2> DEFINE dies == {o \in Op : op[o] # Unused /\ op[o].caller = p}
               pc(o) == IF op[o].pc \in {"done", "failed"} THEN op[o].pc ELSE "dead"
               r(o) == [op[o] EXCEPT !.awaited = FALSE, !.pc = pc(o)]
    <2>1. /\ op' = [o \in Op |-> IF o \in dies THEN r(o) ELSE op[o]]
          /\ writer' = IF writer \in dies THEN 0 ELSE writer
          /\ UNCHANGED <<kind, disk, did>> /\ entered' = [entered EXCEPT ![p] = 0]
      BY <1>4 DEF Crash
    <2>2. \A o \in dies : op[o] \in OpRecord
      BY <1>1, InUse
    <2>3. \A o \in dies : r(o) \in OpRecord /\ r(o).pc = pc(o) /\ r(o).call = op[o].call
                          /\ r(o).id = op[o].id /\ r(o).seen = op[o].seen
      BY <2>2 DEF OpRecord
    <2> HIDE DEF r
    <2>4. op' \in [Op -> {Unused} \cup OpRecord]
      BY <1>1, <2>1, <2>3 DEF Typed
    <2>5. entered' \in [Process -> Op \cup {0}]
      BY <1>1, <2>1 DEF Typed
    <2>6. \A o \in Op :
             \/ /\ op'[o].pc = op[o].pc /\ op'[o].call = op[o].call
                /\ op'[o].id = op[o].id /\ op'[o].seen = op[o].seen
                /\ writer = o /\ op[o].pc \in Busy => writer' = o
             \/ op[o].pc # "done" /\ op'[o].pc \in {"queued", "thread", "dead"}
      <3> TAKE o \in Op
      <3>1. CASE o \in dies /\ op[o].pc \in {"done", "failed"}
        BY <2>1, <2>3, <3>1 DEF Busy
      <3>2. CASE o \in dies /\ op[o].pc \notin {"done", "failed"}
        BY <2>1, <2>3, <3>2
      <3>3. CASE o \notin dies
        BY <2>1, <3>3
      <3> QED
        BY <3>1, <3>2, <3>3
    <2> QED
      BY <2>1, <2>4, <2>5, <2>6, CallersKeep
  <1>5. CASE UNCHANGED vars
    BY <1>1, <1>5, CallersKeep DEF vars, Typed
  <1> QED
    BY <1>2, <1>3, <1>4, <1>5 DEF Next

\* The invariant of the stores: one holder of the lock, whose reading is still
\* what is stored, and an effect exactly where there is an answer.
THEOREM StoreInvariantHolds == Spec => []RepositoryIInv
  BY StoreBegins, StoreStep, PTL DEF Spec

\* A caller with an answer finds its effect in the store, and one whose
\* operation raised has changed nothing: json_repository.py, sqlite_repository.py
\* and memory_repository.py, for any number of processes, detached threads,
\* cancellations and crashes.
THEOREM AnswersHold == Spec => []RepositoryInv
  <1>1. RepositoryIInv => RepositoryInv
    <2> SUFFICES ASSUME RepositoryIInv PROVE RepositoryInv
      OBVIOUS
    <2>1. \A o \in Op : op[o] = Unused \/ op[o] \in OpRecord
      BY DEF RepositoryIInv, Typed
    <2>2. RepositoryTypeOK
      BY <2>1 DEF RepositoryIInv, Typed, RepositoryTypeOK, OpRecord
    <2>3. AnswerIsEffect
      BY DEF RepositoryIInv, OneInstant, AnswerIsEffect
    <2> QED
      BY <2>2, <2>3 DEF RepositoryInv
  <1> QED
    BY <1>1, StoreInvariantHolds, PTL

-----------------------------------------------------------------------------
(* The stores are one map. *)

\* A change that was accepted is one of the map's operations.
LEMMA ChangeIsAtomic ==
  ASSUME Typed, MemoryIsReadable, NEW o \in Op, op[o] \in OpRecord,
         op[o].call # "get", did[o] = "nothing", ~Refuses(o, disk), ~Missing(o),
         disk' = Mutated(o, disk), did' = [did EXCEPT ![o] = "applied"]
  PROVE Atomic!Next
  <1> DEFINE i == op[o].id
  <1>1. i \in Id /\ disk \in [Id -> Value] /\ op[o].call \in {"save", "update", "delete"}
    BY DEF OpRecord, Typed
  <1>2. disk[i] # Invalid \/ op[o].call = "delete"
    BY WrittenIsMutated
  <1>3. CASE op[o].call = "save"
    <2>1. disk' = [disk EXCEPT ![i] = [is |-> "record", body |-> o,
                                       usage |-> IF disk[i] = None THEN 0
                                                 ELSE disk[i].usage]]
      BY <1>3 DEF Mutated
    <2>2. Atomic!Saves(o, i)
      BY <1>2, <1>3, <2>1 DEF Atomic!Saves, Atomic!Invalid, Atomic!None, Invalid, None
    <2> QED
      BY <1>1, <2>2 DEF Atomic!Next
  <1>4. CASE op[o].call = "update"
    <2>1. disk' = [disk EXCEPT ![i].usage = @ + 1]
      BY <1>4 DEF Mutated
    <2>2. disk[i].is = "record"
      BY <1>1, <1>2, <1>4 DEF Missing, Value
    <2>3. Atomic!Updates(o, i)
      BY <2>1, <2>2 DEF Atomic!Updates, Atomic!IsRecord
    <2> QED
      BY <1>1, <2>3 DEF Atomic!Next
  <1>5. CASE op[o].call = "delete"
    <2>1. disk' = [disk EXCEPT ![i] = None]
      BY <1>5 DEF Mutated
    <2>2. Atomic!Deletes(o, i)
      BY <2>1 DEF Atomic!Deletes, Atomic!None, None
    <2> QED
      BY <1>1, <2>2 DEF Atomic!Next
  <1> QED
    BY <1>1, <1>3, <1>4, <1>5

\* An update of a record that is gone finds it missing.
LEMMA MissIsAtomic ==
  ASSUME NEW o \in Op, op[o] \in OpRecord, did[o] = "nothing", Missing(o),
         disk' = disk, did' = [did EXCEPT ![o] = "missing"]
  PROVE Atomic!Next
  <1>1. op[o].id \in Id /\ disk[op[o].id] = None
    BY DEF OpRecord, Missing
  <1>2. Atomic!Misses(o, op[o].id)
    BY <1>1 DEF Atomic!Misses, Atomic!None, None
  <1> QED
    BY <1>1, <1>2 DEF Atomic!Next

\* Every step changes at most what one accepted operation changes.
LEMMA ChangeOrNothing ==
  ASSUME RepositoryIInv, [Next]_vars
  PROVE \/ UNCHANGED <<disk, did>>
        \/ \E o \in Op :
               /\ op[o] \in OpRecord /\ op[o].call # "get" /\ did[o] = "nothing"
               /\ \/ /\ ~Refuses(o, disk) /\ ~Missing(o) /\ disk' = Mutated(o, disk)
                     /\ did' = [did EXCEPT ![o] = "applied"]
                  \/ /\ Missing(o) /\ disk' = disk
                     /\ did' = [did EXCEPT ![o] = "missing"]
  <1>1. Typed /\ OneInstant /\ MemoryIsReadable
    BY DEF RepositoryIInv
  <1>2. ASSUME NEW o \in Op, Read(o) PROVE UNCHANGED <<disk, did>> \/
            (op[o].pc = "reading" /\ op[o] # Unused /\ Missing(o) /\ disk' = disk
             /\ did' = [did EXCEPT ![o] = "missing"])
    BY <1>2 DEF Read, At
  <1>3. ASSUME NEW o \in Op, Write(o)
        PROVE /\ op[o].pc = "writing" /\ op[o] # Unused /\ op[o].call # "get"
              /\ ~Refuses(o, disk) /\ ~Missing(o) /\ disk' = Mutated(o, disk)
              /\ did' = [did EXCEPT ![o] = "applied"]
    <2>1. /\ op[o] # Unused /\ op[o].pc = "writing" /\ op[o].call # "get"
          /\ op[o].seen = disk /\ ~Refuses(o, disk) /\ ~Missing(o)
      BY <1>3 DEF Write, At, RepositoryIInv, ReadIsFresh, LockIsHeld, Busy
    <2> QED
      BY <1>1, <1>3, <2>1, InUse, WrittenIsMutated DEF Write
  <1>4. ASSUME NEW o \in Op, InMemory(o)
        PROVE /\ op[o].pc = "thread" /\ op[o] # Unused /\ op[o].call # "get"
              /\ ~Refuses(o, disk)
              /\ \/ /\ ~Missing(o) /\ disk' = Mutated(o, disk)
                    /\ did' = [did EXCEPT ![o] = "applied"]
                 \/ /\ Missing(o) /\ disk' = disk
                    /\ did' = [did EXCEPT ![o] = "missing"]
    <2>1. op[o] \in OpRecord /\ kind = "memory" /\ op[o].pc = "thread"
          /\ op[o].call # "get" /\ op[o] # Unused
      BY <1>1, <1>4, InUse DEF InMemory, At
    <2>2. ~Refuses(o, disk)
      BY <1>1, <2>1 DEF MemoryIsReadable, OpRecord, Refuses
    <2>3. CASE Missing(o)
      BY <1>4, <2>1, <2>2, <2>3 DEF InMemory
    <2>4. CASE ~Missing(o)
      BY <1>4, <2>1, <2>2, <2>4 DEF InMemory
    <2> QED
      BY <2>3, <2>4
  <1>5. ASSUME NEW o \in Op, op[o] # Unused, op[o].pc # "done"
        PROVE op[o] \in OpRecord /\ did[o] = "nothing"
    BY <1>1, <1>5, InUse DEF OneInstant
  <1>6. ASSUME NEW o \in Op,
               \/ Enter(o) \/ Get(o) \/ TakeLock(o) \/ LockTimesOut(o)
               \/ WriteFails(o) \/ Return(o) \/ Cancel(o)
        PROVE UNCHANGED <<disk, did>>
    BY <1>6 DEF Enter, Get, TakeLock, LockTimesOut, WriteFails, Return, Cancel
  <1>7. ASSUME NEW p \in Process, Crash(p) PROVE UNCHANGED <<disk, did>>
    BY <1>7 DEF Crash
  <1>8. ASSUME NEW p \in Process, NEW call, NEW i \in Id, Begin(p, call, i)
        PROVE UNCHANGED <<disk, did>>
    BY <1>8 DEF Begin
  <1>9. \A o \in Op : Missing(o) => op[o].call # "get"
    BY DEF Missing
  <1>10. CASE UNCHANGED vars
    BY <1>10 DEF vars
  <1>11. CASE \E o \in Op : Read(o) \/ Write(o) \/ InMemory(o)
    BY <1>2, <1>3, <1>4, <1>5, <1>9, <1>11
  <1> QED
    BY <1>6, <1>7, <1>8, <1>10, <1>11 DEF Next, Progress

\* The JSON, SQLite and in-memory repositories implement the atomic map that
\* DeploymentRepositoryPort promises: no lost update, no half-written file, no
\* inserting update, whoever is cancelled or dies.
THEOREM StoreIsAtomic == Spec => KeepsAtomicStore
  <1>1. Init => Atomic!Init
    BY DEF Init, Atomic!Init
  <1>2. RepositoryIInv /\ [Next]_vars => [Atomic!Next]_(Atomic!vars)
    <2> SUFFICES ASSUME RepositoryIInv, [Next]_vars, ~UNCHANGED <<disk, did>>
                 PROVE Atomic!Next
      BY DEF Atomic!vars
    <2> QED
      BY ChangeOrNothing, ChangeIsAtomic, MissIsAtomic DEF RepositoryIInv
  <1> QED
    BY <1>1, <1>2, StoreInvariantHolds, PTL DEF Spec, KeepsAtomicStore, Atomic!Spec

\* A record nobody here can parse survives every rewriting of the storage but
\* its own deletion: _write_records_sync after _read_records_sync(strict).
THEOREM UnreadableSurvives == Spec => UnreadableIsKept
  <1>1. RepositoryIInv /\ [Next]_vars =>
            [\A i \in Id : disk[i] = Invalid /\ disk'[i] # Invalid =>
                \E o \in Op : did[o] # did'[o] /\ op[o].call = "delete" /\ op[o].id = i]_vars
    <2> SUFFICES ASSUME RepositoryIInv, [Next]_vars, NEW i \in Id,
                        disk[i] = Invalid, disk'[i] # Invalid
                 PROVE \E o \in Op : did[o] # did'[o] /\ op[o].call = "delete"
                                     /\ op[o].id = i
      OBVIOUS
    <2>1. PICK o \in Op :
              /\ op[o] \in OpRecord /\ op[o].call # "get" /\ did[o] = "nothing"
              /\ ~Refuses(o, disk) /\ ~Missing(o) /\ disk' = Mutated(o, disk)
              /\ did' = [did EXCEPT ![o] = "applied"]
      BY ChangeOrNothing
    <2>2. /\ op[o].id = i /\ op[o].call = "delete"
      BY <2>1, WrittenIsMutated DEF RepositoryIInv
    <2> QED
      BY <2>1, <2>2 DEF RepositoryIInv, Typed
  <1> QED
    BY <1>1, StoreInvariantHolds, PTL DEF Spec, UnreadableIsKept
=============================================================================
