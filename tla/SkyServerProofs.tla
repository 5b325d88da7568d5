-------------------------- MODULE SkyServerProofs ---------------------------
(***************************************************************************)
(* Theorems about SkyServer, for every set of workers and homes, any number*)
(* of operations and kills: a worker signals servers of its own home only, *)
(* and undisturbed, the server that serves is the one on file.             *)
(***************************************************************************)
EXTENDS SkyServer, FiniteSetTheorems, SequenceTheorems, TLAPS

\* From the spawn to the endpoint a worker has a child.
Raising == {"write_pid", "write_birth", "wait"}

\* A worker between the lock and its answer is the one that holds it.
HoldsLock == \A k \in Worker : w[k].pc \in Locked => lock[HomeOf[k]] = k

\* The child of a worker and the birth on file are servers of that home.
ChildIsOwn ==
    \A k \in Worker : w[k].pc \in Raising =>
        w[k].child \in Births /\ server[w[k].child].home = HomeOf[k]

BirthIsOwn ==
    \A h \in Home : birthFile[h] # 0 => server[birthFile[h]].home = h

\* No two live servers have one pid: what a pid file names is one server.
PidsDiffer ==
    \A s, t \in Births :
        Alive(s) /\ Alive(t) /\ server[s].pid = server[t].pid => s = t

\* Server s is being raised by k, with as much on file as k has written.
RaisedBy(k, s) ==
    /\ w[k].pc \in Raising /\ w[k].child = s
    /\ w[k].pc # "write_pid" => pidFile[HomeOf[k]] = server[s].pid
    /\ w[k].pc = "wait" => birthFile[HomeOf[k]] = s

\* Server s serves and is on file, and nobody of its home replaces it.
Recorded(s) ==
    /\ server[s].life = "up"
    /\ pidFile[server[s].home] = server[s].pid /\ birthFile[server[s].home] = s
    /\ \A k \in Worker : HomeOf[k] = server[s].home =>
           w[k].pc \notin {"spawn"} \cup Raising

\* Undisturbed, a server that listens, or will, is one or the other.
Accounted ==
    Undisturbed => \A s \in Births : server[s].life \in {"starting", "up"} =>
        (\E k \in Worker : RaisedBy(k, s)) \/ Recorded(s)

ServerIInv ==
    /\ ServerTypeOK /\ SignalsItsOwn /\ HoldsLock /\ ChildIsOwn /\ BirthIsOwn
    /\ PidsDiffer /\ Accounted

-----------------------------------------------------------------------------
(* Servers and their pids. *)

\* Of one server only the life and the signaller change.
LEMMA OneChanges ==
  ASSUME server \in Seq(Server), NEW s \in Births, NEW e \in Server,
         server' = [server EXCEPT ![s] = e]
  PROVE /\ server' \in Seq(Server) /\ Births' = Births /\ server'[s] = e
        /\ \A t \in Births : t # s => server'[t] = server[t]
  <1>1. Births = 1 .. Len(server)
    BY DEF Births
  <1>2. /\ server' \in Seq(Server) /\ Len(server') = Len(server)
        /\ \A t \in 1 .. Len(server) : server'[t] = IF t = s THEN e ELSE server[t]
    BY <1>1, ExceptSeq
  <1>3. Births' = 1 .. Len(server')
    BY <1>2 DEF Births
  <1> QED
    BY <1>1, <1>2, <1>3

\* Whatever a home does to servers, they keep their home and their pid, none
\* comes back, and the ones of other homes are not touched.
ServersGoOn ==
    /\ server' \in Seq(Server) /\ Births \subseteq Births'
    /\ \A s \in Births :
           /\ server'[s].home = server[s].home /\ server'[s].pid = server[s].pid
           /\ server[s].life = "gone" => server'[s].life = "gone"
           /\ server'[s].life = "starting" => server[s].life = "starting"
           /\ server'[s].life = "up" => server[s].life \in {"starting", "up"}

\* A signal ends one server, and is on the account of the home that sent it.
LEMMA SignalMoves ==
  ASSUME server \in Seq(Server), NEW s \in {0} \cup Births, NEW h \in Home,
         NEW life \in {"draining", "gone"}, Signal(s, h, life)
  PROVE /\ ServersGoOn /\ Births' = Births
        /\ \A t \in Births : t # s => server'[t] = server[t]
        /\ s \in Births => /\ server'[s].life \in {"draining", "gone"}
                           /\ server'[s].by \in {server[s].by, h}
  <1>1. CASE s \in Births
    <2> DEFINE e == [server[s] EXCEPT !.life = IF @ = "gone" THEN @ ELSE life,
                                      !.by = IF server[s].life = "gone" THEN @ ELSE h]
    <2>1. server[s] \in Server
      BY <1>1, ElementOfSeq DEF Births
    <2>2. /\ e \in Server /\ e.home = server[s].home /\ e.pid = server[s].pid
          /\ e.life = (IF server[s].life = "gone" THEN "gone" ELSE life)
          /\ e.by \in {server[s].by, h}
      BY <2>1 DEF Server
    <2>3. server' = [server EXCEPT ![s] = e]
      BY <1>1 DEF Signal
    <2> HIDE DEF e
    <2>4. /\ server' \in Seq(Server) /\ Births' = Births /\ server'[s] = e
          /\ \A t \in Births : t # s => server'[t] = server[t]
      BY <1>1, <2>2, <2>3, OneChanges
    <2> QED
      BY <1>1, <2>2, <2>4 DEF ServersGoOn
  <1>2. CASE s \notin Births
    <2>1. server' = server
      BY <1>2 DEF Signal, Births
    <2> QED
      BY <1>2, <2>1 DEF ServersGoOn, Births
  <1> QED
    BY <1>1, <1>2

\* A pid names a live server that has it, or none.
LEMMA NamedIs ==
  ASSUME server \in Seq(Server), NEW p
  PROVE \/ Named(p) = 0 /\ \A s \in Births : ~(Alive(s) /\ server[s].pid = p)
        \/ Named(p) \in Births /\ Alive(Named(p)) /\ server[Named(p)].pid = p
  <1>1. CASE \E s \in Births : Alive(s) /\ server[s].pid = p
    <2>1. Named(p) = CHOOSE s \in Births : Alive(s) /\ server[s].pid = p
      BY <1>1 DEF Named
    <2> QED
      BY <1>1, <2>1
  <1>2. CASE ~ \E s \in Births : Alive(s) /\ server[s].pid = p
    BY <1>2 DEF Named
  <1> QED
    BY <1>1, <1>2

\* Servers are numbered by their births, from 1.
LEMMA BirthsAreNats ==
  ASSUME server \in Seq(Server)
  PROVE /\ Len(server) \in Nat /\ Births = 1 .. Len(server) /\ 0 \notin Births
        /\ \A s \in Births : server[s] \in Server
  BY ElementOfSeq DEF Births

\* A nonempty set of numbers has a least one.
LEMMA LeastOne ==
  ASSUME NEW S \in SUBSET Nat, S # {}
  PROVE \E m \in S : \A n \in S : m <= n
  <1> DEFINE R == OpToRel(<, Nat)
  <1>1. \A m, n \in Nat : n < m => <<n, m>> \in R
    BY DEF OpToRel
  <1>2. IsWellFoundedOn(R, Nat)
    BY NatLessThanWellFounded
  <1> HIDE DEF R
  <1>3. PICK m \in S : \A n \in S : ~ (<<n, m>> \in R)
    BY <1>2, WFMin
  <1>4. \A n \in S : ~(n < m)
    BY <1>1, <1>3
  <1> QED
    BY <1>4

\* More pids than servers: two would be one server's.
LEMMA TooManyPids ==
  ASSUME NEW n \in Nat, NEW f \in [1 .. n + 1 -> 1 .. n]
  PROVE \E x, y \in 1 .. n + 1 : x # y /\ f[x] = f[y]
  <1> DEFINE S == 1 .. n + 1
             T == 1 .. n
  <1>1. IsFiniteSet(S) /\ Cardinality(S) = n + 1
    <2>1. n + 1 \in Int /\ 1 \in Int /\ n + 1 - 1 + 1 = n + 1 /\ ~(1 > n + 1)
      OBVIOUS
    <2> QED
      BY <2>1, FS_Interval
  <1>2. IsFiniteSet(T) /\ Cardinality(T) = n
    <2>1. n \in Int /\ 1 \in Int /\ (IF 1 > n THEN 0 ELSE n - 1 + 1) = n
      OBVIOUS
    <2> QED
      BY <2>1, FS_Interval
  <1>3. Cardinality(T) < Cardinality(S) /\ f \in [S -> T]
    BY <1>1, <1>2
  <1> HIDE DEF S, T
  <1>4. \E x, y \in S : x # y /\ f[x] = f[y]
    BY <1>1, <1>2, <1>3, FS_PigeonHole
  <1> QED
    BY <1>4 DEF S

\* There are fewer servers than pids, so there is a free one.
LEMMA FreePidIsFree ==
  ASSUME server \in Seq(Server)
  PROVE FreePid \in Nat \ {0} /\ Named(FreePid) = 0
  <1> DEFINE n == Len(server)
             free == {p \in 1 .. n + 1 : Named(p) = 0}
  <1>1. n \in Nat /\ Births = 1 .. n
    BY BirthsAreNats
  <1>2. free # {}
    <2> SUFFICES ASSUME free = {} PROVE FALSE
      OBVIOUS
    <2> DEFINE f == [p \in 1 .. n + 1 |-> Named(p)]
    <2>1. \A p \in 1 .. n + 1 : Named(p) \in 1 .. n /\ server[Named(p)].pid = p
      BY <1>1, NamedIs
    <2>2. f \in [1 .. n + 1 -> 1 .. n]
      BY <2>1
    <2>3. \E x, y \in 1 .. n + 1 : x # y /\ f[x] = f[y]
      BY <1>1, <2>2, TooManyPids
    <2> QED
      BY <2>1, <2>3
  <1>3. \E m \in free : \A q \in free : m <= q
    <2>1. free \in SUBSET Nat
      BY <1>1
    <2> HIDE DEF free
    <2> QED
      BY <1>2, <2>1, LeastOne
  <1>4. \E p \in 1 .. n + 1 : Named(p) = 0 /\ \A q \in 1 .. p - 1 : Named(q) # 0
    <2>1. PICK m \in free : \A q \in free : m <= q
      BY <1>3
    <2>2. m \in 1 .. n + 1 /\ Named(m) = 0
      OBVIOUS
    <2>3. ASSUME NEW q \in 1 .. m - 1 PROVE Named(q) # 0
      <3>1. q \in 1 .. n + 1 /\ ~(m <= q)
        BY <1>1, <2>2
      <3> QED
        BY <2>1, <3>1
    <2> QED
      BY <2>2, <2>3
  <1>5. FreePid \in 1 .. n + 1 /\ Named(FreePid) = 0
    BY <1>4 DEF FreePid
  <1> QED
    BY <1>1, <1>5

-----------------------------------------------------------------------------
(* What the steps do to servers. *)

\* A new server takes the next place, and a pid nobody has.
LEMMA SpawnAdds ==
  ASSUME ServerTypeOK, NEW k \in Worker, Spawn(k)
  PROVE LET s == Len(server) + 1
        IN  /\ ServersGoOn /\ Births' = Births \cup {s} /\ s \notin Births /\ s # 0
            /\ \A t \in Births : server'[t] = server[t]
            /\ server'[s] = [home |-> HomeOf[k], by |-> "nobody", pid |-> FreePid,
                             life |-> "starting"]
            /\ w' = [w EXCEPT ![k] = [pc |-> "write_pid", child |-> s]]
            /\ Named(FreePid) = 0
            /\ UNCHANGED <<pidFile, birthFile, fingerprint, lock, got, calls, kills>>
  <1> DEFINE s == Len(server) + 1
             e == [home |-> HomeOf[k], by |-> "nobody", pid |-> FreePid, life |-> "starting"]
  <1>1. server \in Seq(Server) /\ e \in Server /\ Named(FreePid) = 0
    BY HomeAssumption, FreePidIsFree DEF ServerTypeOK, Server
  <1>2. server' = Append(server, e) /\ UNCHANGED <<files, lock, got, calls, kills>>
        /\ w' = [w EXCEPT ![k] = [pc |-> "write_pid", child |-> Len(server')]]
    BY DEF Spawn
  <1>3. e.home = HomeOf[k] /\ e = [home |-> HomeOf[k], by |-> "nobody", pid |-> FreePid,
                                  life |-> "starting"]
    OBVIOUS
  <1> HIDE DEF e
  <1>4. /\ server' \in Seq(Server) /\ Len(server') = s /\ server'[s] = e
        /\ \A t \in 1 .. Len(server) : server'[t] = server[t]
    BY <1>1, <1>2, AppendProperties
  <1>5. Births = 1 .. Len(server) /\ Births' = 1 .. Len(server') /\ Len(server) \in Nat
    BY <1>1, <1>4 DEF Births
  <1>6. Births' = Births \cup {s} /\ s \notin Births /\ s # 0
    BY <1>4, <1>5
  <1>7. ServersGoOn
    BY <1>4, <1>5, <1>6 DEF ServersGoOn
  <1> QED
    BY <1>1, <1>2, <1>3, <1>4, <1>5, <1>6, <1>7 DEF files

\* The home that a signal is for is the server's.
LEMMA OwnedIs ==
  ASSUME ServerTypeOK, NEW h \in Home, Owned(h)
  PROVE Named(pidFile[h]) \in Births /\ server[Named(pidFile[h])].home = h
  <1>1. Named(pidFile[h]) # 0 /\ server[Named(pidFile[h])].home = h
    BY DEF Owned
  <1> QED
    BY <1>1, NamedIs DEF ServerTypeOK

\* Only a spawn adds a server, and only a worker of its home signals one.
LEMMA ServersStep ==
  ASSUME ServerIInv, [Next]_vars
  PROVE /\ ServersGoOn
        /\ Births' = Births \/ \E k \in Worker : Spawn(k)
        /\ \A s \in Births : server'[s].by \in {server[s].by, server[s].home}
  <1>1. /\ ServerTypeOK /\ server \in Seq(Server) /\ HomeOf \in [Worker -> Home]
        /\ ChildIsOwn /\ BirthIsOwn
    BY HomeAssumption DEF ServerIInv, ServerTypeOK
  <1>2. CASE server' = server
    BY <1>1, <1>2 DEF ServersGoOn, Births
  <1>3. ASSUME NEW s \in Births, Binds(s) \/ Exits(s)
        PROVE /\ ServersGoOn /\ Births' = Births
              /\ \A t \in Births : server'[t].by = server[t].by
    <2> PICK life \in {"gone", "up"} :
            /\ server' = [server EXCEPT ![s].life = life]
            /\ life = "gone" \/ server[s].life = "starting"
      BY <1>3 DEF Binds, Exits
    <2> DEFINE e == [server[s] EXCEPT !.life = life]
    <2>1. server[s] \in Server
      BY <1>1, BirthsAreNats
    <2>2. e \in Server /\ e.home = server[s].home /\ e.pid = server[s].pid
          /\ e.by = server[s].by /\ e.life = life /\ server' = [server EXCEPT ![s] = e]
      BY <2>1 DEF Server
    <2> HIDE DEF e
    <2>3. /\ server' \in Seq(Server) /\ Births' = Births /\ server'[s] = e
          /\ \A t \in Births : t # s => server'[t] = server[t]
      BY <1>1, <2>2, OneChanges
    <2> QED
      BY <2>2, <2>3 DEF ServersGoOn
  <1>4. ASSUME NEW k \in Worker, NEW s \in {0} \cup Births, NEW life \in {"draining", "gone"},
               Signal(s, HomeOf[k], life), s # 0 => server[s].home = HomeOf[k]
        PROVE /\ ServersGoOn /\ Births' = Births
              /\ \A t \in Births : server'[t].by \in {server[t].by, server[t].home}
    <2>1. /\ ServersGoOn /\ Births' = Births
          /\ \A t \in Births : t # s => server'[t] = server[t]
          /\ s \in Births => server'[s].by \in {server[s].by, HomeOf[k]}
      BY <1>1, <1>4, SignalMoves
    <2>2. \A t \in Births : t # 0
      BY <1>1, BirthsAreNats
    <2> QED
      BY <1>4, <2>1, <2>2
  <1>5. ASSUME NEW k \in Worker, Terminate(k), server' # server
        PROVE /\ ServersGoOn /\ Births' = Births
              /\ \A t \in Births : server'[t].by \in {server[t].by, server[t].home}
    <2>1. Owned(HomeOf[k]) /\ Signal(Named(pidFile[HomeOf[k]]), HomeOf[k], "draining")
      BY <1>5 DEF Terminate
    <2>2. Named(pidFile[HomeOf[k]]) \in Births
          /\ server[Named(pidFile[HomeOf[k]])].home = HomeOf[k]
      BY <1>1, <2>1, OwnedIs
    <2> QED
      BY <1>4, <2>1, <2>2
  <1>6. ASSUME NEW k \in Worker, Escalate(k)
        PROVE /\ ServersGoOn /\ Births' = Births
              /\ \A t \in Births : server'[t].by \in {server[t].by, server[t].home}
    <2>1. Signal(birthFile[HomeOf[k]], HomeOf[k], "gone")
      BY <1>6 DEF Escalate
    <2>2. /\ birthFile[HomeOf[k]] \in {0} \cup Births
          /\ birthFile[HomeOf[k]] # 0 => server[birthFile[HomeOf[k]]].home = HomeOf[k]
      BY <1>1 DEF ServerTypeOK, BirthIsOwn
    <2> QED
      BY <1>4, <2>1, <2>2
  <1>7. ASSUME NEW k \in Worker, NotStarted(k)
        PROVE /\ ServersGoOn /\ Births' = Births
              /\ \A t \in Births : server'[t].by \in {server[t].by, server[t].home}
    <2>1. Signal(w[k].child, HomeOf[k], "draining") /\ w[k].pc = "wait"
      BY <1>7 DEF NotStarted
    <2>2. w[k].child \in Births /\ server[w[k].child].home = HomeOf[k]
      BY <1>1, <2>1 DEF ChildIsOwn, Raising
    <2> QED
      BY <1>4, <2>1, <2>2
  <1>8. ASSUME NEW k \in Worker, Spawn(k)
        PROVE ServersGoOn /\ \A t \in Births : server'[t] = server[t]
    BY <1>1, <1>8, SpawnAdds
  <1>9. ASSUME NEW k \in Worker,
               \/ Begin(k) \/ Lock(k) \/ Occupied(k) \/ Reuse(k) \/ Restart(k)
               \/ Absent(k) \/ Stopped(k) \/ StopFails(k) \/ WritePid(k)
               \/ WriteBirth(k) \/ Started(k) \/ Killed(k)
        PROVE server' = server
    BY <1>9 DEF Begin, Lock, Occupied, Reuse, Restart, Absent, Stopped, StopFails,
                WritePid, WriteBirth, Started, Killed
  <1>10. UNCHANGED vars => server' = server
    BY DEF vars
  <1> QED
    BY <1>2, <1>3, <1>5, <1>6, <1>7, <1>8, <1>9, <1>10 DEF Next, WorkerStep

-----------------------------------------------------------------------------
(* What the steps do to workers, locks and files. *)

Places == Ended \cup Locked \cup {"lock"}

Standing == [pc : Places, child : {0} \cup Births]

\* Who leaves frees at most the lock it has.
Frees(k) ==
    /\ lock' \in [Home -> Worker \cup {"free"}]
    /\ \A h \in Home : lock'[h] # lock[h] => lock[h] = k /\ lock'[h] = "free"

\* A worker that moves to a place, with or without its child.
LEMMA PlaceMoves ==
  ASSUME ServerTypeOK, NEW k \in Worker, NEW pc \in Places, Goto(k, pc)
  PROVE /\ w' \in [Worker -> Standing] /\ w'[k].pc = pc /\ w'[k].child = w[k].child
        /\ \A j \in Worker : j # k => w'[j] = w[j]
  <1> DEFINE r == [w[k] EXCEPT !.pc = pc]
  <1>1. w \in [Worker -> Standing]
    BY DEF ServerTypeOK, Places, Standing
  <1>2. r \in Standing /\ r.pc = pc /\ r.child = w[k].child
    BY <1>1 DEF Standing
  <1>3. w' = [w EXCEPT ![k] = r]
    BY DEF Goto
  <1> HIDE DEF r
  <1> QED
    BY <1>1, <1>2, <1>3

\* A worker that ends leaves its lock free.
LEMMA LeavesFree ==
  ASSUME ServerTypeOK, NEW k \in Worker, NEW pc \in Ended, Leave(k, pc)
  PROVE /\ w' \in [Worker -> Standing] /\ w'[k].pc = pc /\ Frees(k)
        /\ \A j \in Worker : j # k => w'[j] = w[j]
  <1>1. w \in [Worker -> Standing] /\ lock \in [Home -> Worker \cup {"free"}]
        /\ HomeOf[k] \in Home
    BY HomeAssumption DEF ServerTypeOK, Places, Standing
  <1>2. [pc |-> pc, child |-> 0] \in Standing
    BY DEF Standing, Places
  <1>3. /\ w' = [w EXCEPT ![k] = [pc |-> pc, child |-> 0]]
        /\ lock' = [lock EXCEPT ![HomeOf[k]] = IF @ = k THEN "free" ELSE @]
    BY DEF Leave
  <1>4. Frees(k)
    BY <1>1, <1>3 DEF Frees
  <1> QED
    BY <1>1, <1>2, <1>3, <1>4

\* The steps of a worker but its spawn, by what they change: where it is and
\* the lock ...
WorkerMoves(k) ==
    /\ w' \in [Worker -> Standing] /\ lock' \in [Home -> Worker \cup {"free"}]
    /\ \A j \in Worker : j # k => w'[j] = w[j]
    /\ \/ /\ lock' = lock
          /\ w'[k].pc \in Locked => w[k].pc \in Locked
       \/ w'[k].pc \notin Locked /\ Frees(k)
       \/ /\ lock[HomeOf[k]] = "free" /\ lock' = [lock EXCEPT ![HomeOf[k]] = k]
          /\ w[k].pc = "lock" /\ w'[k].pc = "look"

\* ... and its child and the files: it has none, before it spawns ...
Prepares(k) ==
    /\ w[k].pc \notin Raising /\ w'[k].pc \notin Raising /\ birthFile' = birthFile
    /\ pidFile' # pidFile => /\ w[k].pc = "stopping" /\ ~Healthy
                             /\ pidFile' = [pidFile EXCEPT ![HomeOf[k]] = 0]
    /\ w'[k].pc = "spawn" => w[k].pc \in {"look", "stopping"} /\ ~Healthy

\* ... or writes of it what the files are to say ...
Writes(k) ==
    /\ w'[k].child = w[k].child
    /\ \/ /\ w[k].pc = "write_pid" /\ w'[k].pc = "write_birth" /\ birthFile' = birthFile
          /\ pidFile' = [pidFile EXCEPT ![HomeOf[k]] = server[w[k].child].pid]
       \/ /\ w[k].pc = "write_birth" /\ w'[k].pc = "wait" /\ pidFile' = pidFile
          /\ birthFile' = [birthFile EXCEPT ![HomeOf[k]] = w[k].child]

\* ... or has its answer, because the child is gone or told to go, or somebody
\* answers, or it dies itself.
Answers(k) ==
    /\ w'[k].pc \in Ended /\ UNCHANGED <<pidFile, birthFile>>
    /\ \/ w[k].pc = "write_birth" /\ ~Alive(w[k].child)
       \/ w[k].pc = "wait" /\ Healthy
       \/ w[k].pc = "wait" /\ Signal(w[k].child, HomeOf[k], "draining")
       \/ kills' = kills + 1

Counts == kills' \in {kills, kills + 1} /\ kills' \in 0 .. MaxKills

\* Every step of a worker but the spawn is such a move.
LEMMA WorkerStepMoves ==
  ASSUME ServerTypeOK, NEW k \in Worker,
         Begin(k) \/ WorkerStep(k) \/ Killed(k), ~Spawn(k)
  PROVE /\ WorkerMoves(k) /\ (Prepares(k) \/ Writes(k) \/ Answers(k))
        /\ Counts /\ fingerprint' \in SUBSET Home
        /\ got' \in [Worker -> {0} \cup Births]
  <1> USE DEF Ended, Locked, Raising
  <1>1. /\ lock \in [Home -> Worker \cup {"free"}] /\ HomeOf[k] \in Home
        /\ w \in [Worker -> Standing]
        /\ fingerprint \in SUBSET Home /\ got \in [Worker -> {0} \cup Births]
        /\ kills \in 0 .. MaxKills /\ MaxKills \in Nat
    BY HomeAssumption, CallsAssumption DEF ServerTypeOK, Places, Standing
  <1>2. kills' = kills => Counts
    BY <1>1 DEF Counts
  <1>3. CASE Begin(k)
    <2>1. Goto(k, "lock") /\ w[k].pc \in Ended /\ UNCHANGED <<files, lock, kills>>
          /\ got' = [got EXCEPT ![k] = 0]
      BY <1>3 DEF Begin
    <2>2. /\ w' \in [Worker -> Standing] /\ w'[k].pc = "lock"
          /\ \A j \in Worker : j # k => w'[j] = w[j]
      BY <2>1, PlaceMoves DEF Places
    <2>3. WorkerMoves(k) /\ Prepares(k)
      BY <1>1, <2>1, <2>2 DEF WorkerMoves, Prepares, files
    <2> QED
      BY <1>1, <1>2, <2>1, <2>3 DEF files
  <1>4. CASE Lock(k)
    <2>1. Goto(k, "look") /\ w[k].pc = "lock" /\ UNCHANGED <<files, got, kills>>
          /\ lock[HomeOf[k]] = "free" /\ lock' = [lock EXCEPT ![HomeOf[k]] = k]
      BY <1>4 DEF Lock
    <2>2. /\ w' \in [Worker -> Standing] /\ w'[k].pc = "look"
          /\ \A j \in Worker : j # k => w'[j] = w[j]
      BY <2>1, PlaceMoves DEF Places
    <2>3. WorkerMoves(k) /\ Prepares(k)
      BY <1>1, <2>1, <2>2 DEF WorkerMoves, Prepares, files
    <2> QED
      BY <1>1, <1>2, <2>1, <2>3 DEF files
  <1>5. CASE Restart(k) \/ Absent(k) \/ (Terminate(k) /\ Goto(k, "stopping") /\ lock' = lock)
             \/ Stopped(k)
    <2>1. PICK pc \in {"stop", "spawn", "stopping"} :
              /\ Goto(k, pc) /\ w[k].pc \in {"look", "stop", "stopping"} /\ lock' = lock
              /\ pc = "spawn" => w[k].pc \in {"look", "stopping"} /\ ~Healthy
              /\ birthFile' = birthFile /\ UNCHANGED <<fingerprint, got, kills>>
              /\ pidFile' # pidFile => /\ w[k].pc = "stopping" /\ ~Healthy
                                       /\ pidFile' = [pidFile EXCEPT ![HomeOf[k]] = 0]
      BY <1>5 DEF Restart, Absent, Terminate, Stopped, files
    <2>2. /\ w' \in [Worker -> Standing] /\ w'[k].pc = pc
          /\ \A j \in Worker : j # k => w'[j] = w[j]
      BY <2>1, PlaceMoves DEF Places
    <2>3. WorkerMoves(k) /\ Prepares(k)
      BY <1>1, <2>1, <2>2 DEF WorkerMoves, Prepares
    <2> QED
      BY <1>1, <1>2, <2>1, <2>3
  <1>6. CASE Escalate(k)
    <2>1. w[k].pc = "stopping" /\ UNCHANGED <<files, lock, w, got, kills>>
      BY <1>6 DEF Escalate
    <2>2. WorkerMoves(k) /\ Prepares(k)
      BY <1>1, <2>1 DEF WorkerMoves, Prepares, files
    <2> QED
      BY <1>1, <1>2, <2>1, <2>2 DEF files
  <1>7. CASE WritePid(k) \/ (WriteBirth(k) /\ Goto(k, "wait") /\ lock' = lock /\ Alive(w[k].child))
    <2>1. PICK pc \in {"write_birth", "wait"} :
              /\ Goto(k, pc) /\ w[k].pc \in {"write_pid", "write_birth"} /\ lock' = lock
              /\ UNCHANGED <<fingerprint, got, kills>>
              /\ pc = "write_birth" =>
                    /\ w[k].pc = "write_pid" /\ birthFile' = birthFile
                    /\ pidFile' = [pidFile EXCEPT ![HomeOf[k]] = server[w[k].child].pid]
              /\ pc = "wait" =>
                    /\ w[k].pc = "write_birth" /\ pidFile' = pidFile
                    /\ birthFile' = [birthFile EXCEPT ![HomeOf[k]] = w[k].child]
      BY <1>7 DEF WritePid, WriteBirth
    <2>2. /\ w' \in [Worker -> Standing] /\ w'[k].pc = pc /\ w'[k].child = w[k].child
          /\ \A j \in Worker : j # k => w'[j] = w[j]
      BY <2>1, PlaceMoves DEF Places
    <2>3. WorkerMoves(k)
      BY <1>1, <2>1, <2>2 DEF WorkerMoves
    <2>4. Writes(k)
      BY <2>1, <2>2 DEF Writes
    <2> QED
      BY <1>1, <1>2, <2>1, <2>3, <2>4
  <1>8. ASSUME NEW pc \in Ended, Leave(k, pc), UNCHANGED <<pidFile, birthFile>>
        PROVE WorkerMoves(k) /\ w'[k].pc \in Ended
              /\ (w[k].pc \notin Raising => Prepares(k))
    <2>1. /\ w' \in [Worker -> Standing] /\ w'[k].pc = pc /\ Frees(k)
          /\ \A j \in Worker : j # k => w'[j] = w[j]
      BY <1>8, LeavesFree
    <2> QED
      BY <1>1, <1>8, <2>1 DEF WorkerMoves, Prepares, Frees
  <1>9. CASE Occupied(k) \/ StopFails(k) \/ (Terminate(k) /\ Leave(k, "failed"))
    <2>1. /\ Leave(k, "failed") /\ w[k].pc \in {"look", "stop", "stopping"}
          /\ UNCHANGED <<files, got, kills>>
      BY <1>9 DEF Occupied, StopFails, Terminate
    <2> QED
      BY <1>1, <1>2, <1>8, <2>1 DEF files
  <1>10. CASE Reuse(k) \/ Started(k)
    <2>1. /\ Leave(k, "returned") /\ UNCHANGED <<pidFile, birthFile, kills>>
          /\ w[k].pc \in {"look", "wait"} /\ Healthy
          /\ got' = [got EXCEPT ![k] = CHOOSE s \in Listeners : TRUE]
          /\ fingerprint' \in SUBSET Home
      BY <1>1, <1>10 DEF Reuse, Started, Returns, files
    <2>2. (CHOOSE s \in Listeners : TRUE) \in Births
      BY <2>1 DEF Healthy, Listeners
    <2>3. got' \in [Worker -> {0} \cup Births]
      BY <1>1, <2>1, <2>2
    <2>4. WorkerMoves(k) /\ w'[k].pc \in Ended /\ (w[k].pc \notin Raising => Prepares(k))
      BY <1>8, <2>1
    <2>5. w[k].pc = "wait" => Answers(k)
      BY <2>1, <2>4 DEF Answers
    <2> QED
      BY <1>2, <2>1, <2>3, <2>4, <2>5
  <1>11. CASE WriteBirth(k) /\ ~Alive(w[k].child)
    <2>1. /\ Leave(k, "failed") /\ UNCHANGED <<pidFile, birthFile, fingerprint, got, kills>>
          /\ w[k].pc = "write_birth"
      BY <1>11 DEF WriteBirth
    <2>2. WorkerMoves(k) /\ w'[k].pc \in Ended
      BY <1>8, <2>1
    <2>3. Answers(k)
      BY <1>11, <2>1, <2>2 DEF Answers
    <2> QED
      BY <1>1, <1>2, <2>1, <2>2, <2>3
  <1>12. CASE NotStarted(k)
    <2>1. /\ w[k].pc = "wait" /\ Leave(k, "failed")
          /\ UNCHANGED <<pidFile, birthFile, fingerprint, got, kills>>
          /\ Signal(w[k].child, HomeOf[k], "draining")
      BY <1>12 DEF NotStarted, files
    <2>2. WorkerMoves(k) /\ w'[k].pc \in Ended
      BY <1>8, <2>1
    <2>3. Answers(k)
      BY <2>1, <2>2 DEF Answers
    <2> QED
      BY <1>1, <1>2, <2>1, <2>2, <2>3
  <1>13. CASE Killed(k)
    <2>1. /\ kills < MaxKills /\ kills' = kills + 1 /\ Leave(k, "killed")
          /\ UNCHANGED <<pidFile, birthFile, fingerprint, got>>
      BY <1>13 DEF Killed, files
    <2>2. WorkerMoves(k) /\ w'[k].pc \in Ended
      BY <1>8, <2>1
    <2>3. Answers(k) /\ Counts
      BY <1>1, <2>1, <2>2 DEF Answers, Counts
    <2> QED
      BY <1>1, <2>1, <2>2, <2>3
  <1>14. Terminate(k) => (Goto(k, "stopping") /\ lock' = lock) \/ Leave(k, "failed")
    BY DEF Terminate
  <1>15. WriteBirth(k) /\ Alive(w[k].child) => Goto(k, "wait") /\ lock' = lock
    BY DEF WriteBirth
  <1> QED
    BY <1>3, <1>4, <1>5, <1>6, <1>7, <1>9, <1>10, <1>11, <1>12, <1>13, <1>14, <1>15
    DEF WorkerStep

-----------------------------------------------------------------------------
(* The invariant. *)

\* The initial states have the invariant.
LEMMA ServerBegins == Init => ServerIInv
  <1> SUFFICES ASSUME Init PROVE ServerIInv
    OBVIOUS
  <1>1. server \in Seq(Server) /\ Births = {}
    BY DEF Init, Births
  <1>2. ServerTypeOK
    BY <1>1, HomeAssumption, CallsAssumption DEF Init, ServerTypeOK, Ended
  <1>3. SignalsItsOwn /\ PidsDiffer /\ Accounted
    BY <1>1 DEF SignalsItsOwn, PidsDiffer, Accounted
  <1>4. HoldsLock /\ ChildIsOwn /\ BirthIsOwn
    BY HomeAssumption DEF Init, HoldsLock, ChildIsOwn, BirthIsOwn, Locked, Raising
  <1> QED
    BY <1>2, <1>3, <1>4 DEF ServerIInv

\* Servers come up and go, workers as they are.
LEMMA ServersAlone ==
  ASSUME ServerIInv, NEW s \in Births, Binds(s) \/ Exits(s)
  PROVE ServerIInv'
  <1>1. [Next]_vars /\ Births' = Births
        /\ UNCHANGED <<pidFile, birthFile, fingerprint, lock, w, got, calls, kills>>
    <2>1. UNCHANGED <<files, lock, w, got, calls, kills>> /\ [Next]_vars
      BY DEF Next, Binds, Exits, ServerUnchanged
    <2>2. ~(\E k \in Worker : Spawn(k))
      <3> SUFFICES ASSUME NEW k \in Worker, Spawn(k) PROVE FALSE
        OBVIOUS
      <3>1. w' = w /\ w[k].pc = "spawn"
        BY <2>1 DEF Spawn
      <3>2. w' = [w EXCEPT ![k] = [pc |-> "write_pid", child |-> Len(server')]]
        BY DEF Spawn
      <3> QED
        BY <3>1, <3>2 DEF ServerIInv, ServerTypeOK
    <2> QED
      BY <2>1, <2>2, ServersStep DEF files
  <1>2. ServersGoOn /\ \A t \in Births : server'[t].by \in {server[t].by, server[t].home}
    BY <1>1, ServersStep
  <1>3. ServerTypeOK'
    BY <1>1, <1>2 DEF ServerIInv, ServerTypeOK, ServersGoOn
  <1>4. SignalsItsOwn'
    BY <1>1, <1>2 DEF ServerIInv, SignalsItsOwn, ServersGoOn
  <1>5. HoldsLock' /\ ChildIsOwn' /\ BirthIsOwn'
    BY <1>1, <1>2, ZenonT(40)
      DEF ServerIInv, ServerTypeOK, HoldsLock, ChildIsOwn, BirthIsOwn, ServersGoOn
  <1>6. PidsDiffer'
    BY <1>1, <1>2 DEF ServerIInv, PidsDiffer, ServersGoOn, Alive
  <1>7. Accounted'
    <2> SUFFICES ASSUME Undisturbed', NEW t \in Births, server'[t].life \in {"starting", "up"}
                 PROVE (\E k \in Worker : RaisedBy(k, t)') \/ Recorded(t)'
      BY <1>1 DEF Accounted
    <2>1. Undisturbed /\ server[t].life \in {"starting", "up"}
      BY <1>1, <1>2 DEF Undisturbed, ServersGoOn
    <2>2. CASE \E k \in Worker : RaisedBy(k, t)
      BY <1>1, <1>2, <2>2 DEF RaisedBy, ServersGoOn
    <2>3. CASE Recorded(t)
      BY <1>1, <1>2, <2>3 DEF Recorded, ServersGoOn
    <2> QED
      BY <2>1, <2>2, <2>3 DEF ServerIInv, Accounted
  <1> QED
    BY <1>3, <1>4, <1>5, <1>6, <1>7 DEF ServerIInv

\* The spawn: one more server, which its worker raises.
LEMMA SpawnKeeps ==
  ASSUME ServerIInv, NEW k \in Worker, Spawn(k)
  PROVE ServerIInv'
  <1> DEFINE s == Len(server) + 1
  <1>1. /\ ServersGoOn /\ Births' = Births \cup {s} /\ s \notin Births /\ s # 0
        /\ \A t \in Births : server'[t] = server[t]
        /\ server'[s] = [home |-> HomeOf[k], by |-> "nobody", pid |-> FreePid,
                         life |-> "starting"]
        /\ w' = [w EXCEPT ![k] = [pc |-> "write_pid", child |-> s]]
        /\ Named(FreePid) = 0
        /\ UNCHANGED <<pidFile, birthFile, fingerprint, lock, got, calls, kills>>
    BY SpawnAdds DEF ServerIInv
  <1> HIDE DEF s
  <1>2. /\ w \in [Worker -> Standing] /\ HomeOf \in [Worker -> Home]
        /\ w[k].pc = "spawn" /\ 0 \notin Births
    BY HomeAssumption, BirthsAreNats
    DEF ServerIInv, ServerTypeOK, Standing, Places, Spawn
  <1>3. w'[k].pc = "write_pid" /\ w'[k].child = s /\ \A j \in Worker : j # k => w'[j] = w[j]
    BY <1>1, <1>2
  <1>4. ServerTypeOK'
    <2>1. [pc |-> "write_pid", child |-> s] \in
              [pc : Ended \cup Locked \cup {"lock"}, child : {0} \cup Births']
      BY <1>1 DEF Locked
    <2> QED
      BY <1>1, <2>1 DEF ServerIInv, ServerTypeOK, ServersGoOn
  <1>5. SignalsItsOwn'
    BY <1>1 DEF ServerIInv, SignalsItsOwn
  <1>6. HoldsLock' /\ ChildIsOwn' /\ BirthIsOwn'
    <2>1. HoldsLock'
      BY <1>1, <1>2, <1>3 DEF ServerIInv, HoldsLock, Locked
    <2>2. ChildIsOwn'
      BY <1>1, <1>3 DEF ServerIInv, ChildIsOwn
    <2>3. BirthIsOwn'
      BY <1>1 DEF ServerIInv, ServerTypeOK, BirthIsOwn
    <2> QED
      BY <2>1, <2>2, <2>3
  <1>7. PidsDiffer'
    <2>1. \A t \in Births : Alive(t) => server[t].pid # FreePid
      BY <1>1, <1>2, NamedIs DEF ServerIInv, ServerTypeOK
    <2> QED
      BY <1>1, <2>1 DEF ServerIInv, PidsDiffer, Alive
  <1>8. Accounted'
    <2> SUFFICES ASSUME Undisturbed', NEW t \in Births', server'[t].life \in {"starting", "up"}
                 PROVE (\E j \in Worker : RaisedBy(j, t)') \/ Recorded(t)'
      BY DEF Accounted
    <2>1. CASE t = s
      <3>1. RaisedBy(k, t)'
        BY <1>3, <2>1 DEF RaisedBy, Raising
      <3> QED
        BY <3>1
    <2>2. CASE t # s
      <3>1. /\ t \in Births /\ server[t] = server'[t] /\ server[t].home = HomeOf[k]
            /\ s \in Births'
        BY <1>1, <2>2 DEF Undisturbed
      <3>2. Undisturbed
        BY <1>1 DEF Undisturbed
      <3>3. ~Recorded(t)
        BY <1>2, <3>1 DEF Recorded
      <3>4. PICK j \in Worker : RaisedBy(j, t)
        BY <3>1, <3>2, <3>3 DEF ServerIInv, Accounted
      <3>5. HomeOf[j] = HomeOf[k] /\ w[j].pc \in Locked /\ j # k
        BY <1>2, <3>1, <3>4 DEF ServerIInv, ChildIsOwn, RaisedBy, Raising, Locked
      <3>6. j = k
        BY <1>2, <3>5 DEF ServerIInv, HoldsLock, Locked
      <3> QED
        BY <3>5, <3>6
    <2> QED
      BY <2>1, <2>2
  <1> QED
    BY <1>4, <1>5, <1>6, <1>7, <1>8 DEF ServerIInv

\* A worker's other steps.
LEMMA WorkerKeeps ==
  ASSUME ServerIInv, NEW k \in Worker, [Next]_vars,
         Begin(k) \/ WorkerStep(k) \/ Killed(k), ~Spawn(k)
  PROVE ServerIInv'
  <1> USE DEF ServerIInv
  <1>1. /\ WorkerMoves(k) /\ (Prepares(k) \/ Writes(k) \/ Answers(k))
        /\ Counts /\ fingerprint' \in SUBSET Home
        /\ got' \in [Worker -> {0} \cup Births]
    BY WorkerStepMoves
  <1>2. /\ w \in [Worker -> Standing] /\ HomeOf \in [Worker -> Home]
        /\ lock \in [Home -> Worker \cup {"free"}] /\ server \in Seq(Server)
        /\ pidFile \in [Home -> Nat] /\ birthFile \in [Home -> {0} \cup Births]
    BY HomeAssumption DEF ServerTypeOK, Standing, Places
  <1>3. w' \in [Worker -> Standing] /\ \A j \in Worker : j # k => w'[j] = w[j]
    BY <1>1 DEF WorkerMoves
  <1>4. ServersGoOn /\ Births' = Births
        /\ \A t \in Births : server'[t].by \in {server[t].by, server[t].home}
    <2>1. ~(\E j \in Worker : Spawn(j))
      <3> SUFFICES ASSUME NEW j \in Worker, Spawn(j) PROVE FALSE
        OBVIOUS
      <3>1. j # k /\ w[j].pc = "spawn"
        BY DEF Spawn
      <3>2. w' = [w EXCEPT ![j] = [pc |-> "write_pid", child |-> Len(server')]]
        BY DEF Spawn
      <3>3. w'[j].pc = "write_pid"
        BY <1>2, <3>2
      <3> QED
        BY <1>3, <3>1, <3>3
    <2> QED
      BY <2>1, ServersStep
  <1>5. w[k].pc \in Raising => /\ w[k].child \in Births /\ server[w[k].child].home = HomeOf[k]
                               /\ server[w[k].child].pid \in Nat
    <2>1. \A t \in Births : server[t].pid \in Nat
      BY <1>2, BirthsAreNats DEF Server
    <2> QED
      BY <2>1 DEF ChildIsOwn
  <1>6. pidFile' \in [Home -> Nat] /\ birthFile' \in [Home -> {0} \cup Births]
    <2>1. CASE Prepares(k)
      BY <1>2, <2>1 DEF Prepares
    <2>2. CASE Writes(k)
      BY <1>2, <1>5, <2>2 DEF Writes, Raising
    <2>3. CASE Answers(k)
      BY <1>2, <2>3 DEF Answers
    <2> QED
      BY <1>1, <2>1, <2>2, <2>3
  <1>7. ServerTypeOK'
    BY <1>1, <1>3, <1>4, <1>6
    DEF ServerTypeOK, WorkerMoves, ServersGoOn, Standing, Places, Counts
  <1>8. SignalsItsOwn'
    BY <1>4 DEF SignalsItsOwn, ServersGoOn
  <1>9. HoldsLock'
    <2> SUFFICES ASSUME NEW j \in Worker, w'[j].pc \in Locked PROVE lock'[HomeOf[j]] = j
      BY DEF HoldsLock
    <2>1. CASE /\ lock' = lock
               /\ w'[k].pc \in Locked => w[k].pc \in Locked
      BY <1>3, <2>1 DEF HoldsLock
    <2>2. CASE w'[k].pc \notin Locked /\ Frees(k)
      <3>1. j # k /\ lock[HomeOf[j]] = j
        BY <1>3, <2>2 DEF HoldsLock
      <3> QED
        BY <1>2, <2>2, <3>1 DEF Frees
    <2>3. CASE /\ lock[HomeOf[k]] = "free" /\ lock' = [lock EXCEPT ![HomeOf[k]] = k]
               /\ w[k].pc = "lock" /\ w'[k].pc = "look"
      <3>1. CASE j = k
        BY <1>2, <2>3, <3>1
      <3>2. CASE j # k
        BY <1>2, <1>3, <2>3, <3>2, LockAssumption DEF HoldsLock
      <3> QED
        BY <3>1, <3>2
    <2> QED
      BY <1>1, <2>1, <2>2, <2>3 DEF WorkerMoves
  <1>10. w'[k].pc \in Raising => w[k].pc \in Raising /\ w'[k].child = w[k].child
    BY <1>1 DEF Prepares, Writes, Answers, Raising, Ended
  <1>11. ChildIsOwn'
    BY <1>3, <1>4, <1>10 DEF ChildIsOwn, ServersGoOn
  <1>12. BirthIsOwn'
    <2> SUFFICES ASSUME NEW h \in Home, birthFile'[h] # 0
                 PROVE server'[birthFile'[h]].home = h
      BY DEF BirthIsOwn
    <2>1. CASE birthFile' = birthFile
      <3>1. birthFile[h] \in Births /\ server[birthFile[h]].home = h
        BY <1>2, <2>1 DEF BirthIsOwn
      <3> QED
        BY <1>4, <2>1, <3>1 DEF ServersGoOn
    <2>2. CASE /\ w[k].pc \in Raising
               /\ birthFile' = [birthFile EXCEPT ![HomeOf[k]] = w[k].child]
      <3>1. birthFile'[h] \in Births /\ server[birthFile'[h]].home = h
        BY <1>2, <1>5, <2>2 DEF BirthIsOwn
      <3> QED
        BY <1>4, <3>1 DEF ServersGoOn
    <2> QED
      BY <1>1, <2>1, <2>2 DEF Prepares, Writes, Answers, Raising
  <1>13. PidsDiffer'
    BY <1>4 DEF PidsDiffer, ServersGoOn, Alive
  <1>14. Accounted'
    <2> SUFFICES ASSUME Undisturbed', NEW t \in Births, server'[t].life \in {"starting", "up"}
                 PROVE (\E j \in Worker : RaisedBy(j, t)') \/ Recorded(t)'
      BY <1>4 DEF Accounted
    <2>1. /\ Undisturbed /\ kills' = kills /\ server[t].life \in {"starting", "up"}
          /\ server'[t].home = server[t].home /\ server'[t].pid = server[t].pid
          /\ \A u \in Births : server[u].home = server[t].home
      BY <1>1, <1>4, CallsAssumption
      DEF Undisturbed, ServersGoOn, Counts, ServerTypeOK
    <2>2. w[k].pc \in Raising => HomeOf[k] = server[t].home
      BY <1>5, <2>1
    <2>3. \A j \in Worker : RaisedBy(j, t) => HomeOf[j] = server[t].home
      BY <2>1 DEF RaisedBy, ChildIsOwn
    <2>4. \A j \in Worker : w[j].pc \in {"spawn", "stopping"} \cup Raising =>
              (HomeOf[j] = HomeOf[k] /\ w[k].pc \in Locked => j = k)
      BY DEF HoldsLock, Locked, Raising
    <2>5. CASE Recorded(t)
      <3>1. Healthy /\ ~(w[k].pc \in Raising)
        BY <2>2, <2>5 DEF Recorded, Healthy, Listeners
      <3>2. Prepares(k) /\ pidFile' = pidFile /\ w'[k].pc # "spawn"
        BY <1>1, <2>1, <3>1, CallsAssumption
        DEF Prepares, Writes, Answers, Raising, Counts, ServerTypeOK
      <3>3. birthFile' = birthFile /\ w'[k].pc \notin Raising
        BY <3>2 DEF Prepares
      <3>4. server'[t].life = "up"
        BY <1>4, <2>5 DEF Recorded, ServersGoOn
      <3>5. Recorded(t)'
        BY <1>3, <2>1, <2>5, <3>2, <3>3, <3>4 DEF Recorded
      <3> QED
        BY <3>5
    <2>6. ASSUME NEW j \in Worker, RaisedBy(j, t), j # k
          PROVE RaisedBy(j, t)'
      <3>1. HomeOf[k] # HomeOf[j] \/ (pidFile' = pidFile /\ birthFile' = birthFile)
        <4> SUFFICES ASSUME HomeOf[k] = HomeOf[j], pidFile' # pidFile \/ birthFile' # birthFile
                     PROVE FALSE
          OBVIOUS
        <4>1. w[k].pc \in Locked
          BY <1>1 DEF Prepares, Writes, Answers, Locked
        <4>2. w[j].pc \in Raising
          BY <2>6 DEF RaisedBy
        <4> QED
          BY <2>4, <2>6, <4>1, <4>2
      <3>2. pidFile'[HomeOf[j]] = pidFile[HomeOf[j]] /\ birthFile'[HomeOf[j]] = birthFile[HomeOf[j]]
        <4>1. CASE pidFile' = pidFile /\ birthFile' = birthFile
          BY <4>1
        <4>2. CASE HomeOf[k] # HomeOf[j]
          BY <1>1, <1>2, <4>2 DEF Prepares, Writes, Answers
        <4> QED
          BY <3>1, <4>1, <4>2
      <3>3. w'[j] = w[j]
        BY <1>3, <2>6
      <3> QED
        BY <2>1, <2>6, <3>2, <3>3 DEF RaisedBy
    <2>7. CASE RaisedBy(k, t)
      <3>1. w[k].pc \in Raising /\ w[k].child = t /\ HomeOf[k] \in Home
        BY <1>2, <2>7 DEF RaisedBy
      <3>2. CASE Writes(k)
        <4>1. RaisedBy(k, t)'
          <5>1. CASE /\ w[k].pc = "write_pid" /\ w'[k].pc = "write_birth" /\ birthFile' = birthFile
                     /\ pidFile' = [pidFile EXCEPT ![HomeOf[k]] = server[w[k].child].pid]
            BY <1>2, <2>1, <3>1, <3>2, <5>1 DEF RaisedBy, Raising, Writes
          <5>2. CASE /\ w[k].pc = "write_birth" /\ w'[k].pc = "wait" /\ pidFile' = pidFile
                     /\ birthFile' = [birthFile EXCEPT ![HomeOf[k]] = w[k].child]
            BY <1>2, <2>1, <2>7, <3>1, <3>2, <5>2 DEF RaisedBy, Raising, Writes
          <5> QED
            BY <3>2, <5>1, <5>2 DEF Writes
        <4> QED
          BY <4>1
      <3>3. CASE Answers(k)
        <4>1. w'[k].pc \notin {"spawn"} \cup Raising /\ UNCHANGED <<pidFile, birthFile>>
          BY <3>3 DEF Answers, Ended, Raising
        <4>2. kills' # kills + 1
          BY <2>1, CallsAssumption DEF ServerTypeOK
        <4>3. w[k].pc = "write_birth" => Alive(t)
          BY <2>1, <1>2 DEF Alive
        <4>4. ~Signal(w[k].child, HomeOf[k], "draining")
          <5> SUFFICES ASSUME Signal(t, HomeOf[k], "draining") PROVE FALSE
            BY <3>1
          <5>1. server'[t].life \in {"draining", "gone"}
            BY <1>2, <3>1, SignalMoves
          <5> QED
            BY <5>1
        <4>5. w[k].pc = "wait" /\ Healthy
          BY <3>1, <3>3, <4>2, <4>3, <4>4 DEF Answers
        <4>6. \A u \in Listeners : u = t
          <5> SUFFICES ASSUME NEW u \in Births, server[u].life = "up" PROVE u = t
            BY DEF Listeners
          <5>1. (\E j \in Worker : RaisedBy(j, u)) \/ Recorded(u)
            BY <2>1 DEF Accounted
          <5>2. server[u].home = HomeOf[k]
            BY <2>1, <2>2, <3>1
          <5>3. ~Recorded(u)
            BY <3>1, <5>2 DEF Recorded
          <5>4. PICK j \in Worker : RaisedBy(j, u)
            BY <5>1, <5>3
          <5>5. w[j].pc \in Raising /\ HomeOf[j] = HomeOf[k] /\ w[k].pc \in Locked
            BY <3>1, <5>2, <5>4 DEF RaisedBy, ChildIsOwn, Raising, Locked
          <5>6. j = k
            BY <2>4, <5>5
          <5> QED
            BY <3>1, <5>4, <5>6 DEF RaisedBy
        <4>7. server'[t].life = "up"
          <5>1. server[t].life = "up"
            BY <4>5, <4>6 DEF Healthy, Listeners
          <5> QED
            BY <1>4, <5>1 DEF ServersGoOn
        <4>8. pidFile[HomeOf[k]] = server[t].pid /\ birthFile[HomeOf[k]] = t
          BY <2>7, <4>5 DEF RaisedBy
        <4>9. ASSUME NEW j \in Worker, HomeOf[j] = HomeOf[k]
              PROVE w'[j].pc \notin {"spawn"} \cup Raising
          <5>1. CASE j = k
            BY <4>1, <5>1
          <5>2. CASE j # k
            <6>1. w[k].pc \in Locked
              BY <4>5 DEF Locked
            <6>2. w[j].pc \notin {"spawn"} \cup Raising
              BY <2>4, <4>9, <5>2, <6>1
            <6> QED
              BY <1>3, <5>2, <6>2
          <5> QED
            BY <5>1, <5>2
        <4>10. server'[t].home = HomeOf[k]
          BY <2>1, <2>2, <3>1
        <4>11. Recorded(t)'
          BY <2>1, <4>1, <4>7, <4>8, <4>9, <4>10 DEF Recorded
        <4> QED
          BY <4>11
      <3>4. ~Prepares(k)
        BY <3>1 DEF Prepares
      <3> QED
        BY <1>1, <3>2, <3>3, <3>4
    <2>8. (\E j \in Worker : RaisedBy(j, t)) \/ Recorded(t)
      BY <2>1 DEF Accounted
    <2> QED
      BY <2>5, <2>6, <2>7, <2>8
  <1> QED
    BY <1>7, <1>8, <1>9, <1>11, <1>12, <1>13, <1>14

\* Every step keeps it.
LEMMA ServerStep == ServerIInv /\ [Next]_vars => ServerIInv'
  <1> SUFFICES ASSUME ServerIInv, [Next]_vars PROVE ServerIInv'
    OBVIOUS
  <1>1. ASSUME NEW s \in Births, Binds(s) \/ Exits(s) PROVE ServerIInv'
    BY <1>1, ServersAlone
  <1>2. ASSUME NEW k \in Worker, Spawn(k) PROVE ServerIInv'
    BY <1>2, SpawnKeeps
  <1>3. ASSUME NEW k \in Worker, Begin(k) \/ WorkerStep(k) \/ Killed(k), ~Spawn(k)
        PROVE ServerIInv'
    BY <1>3, WorkerKeeps
  <1>4. CASE UNCHANGED vars
    BY <1>4 DEF vars, files, ServerIInv, ServerTypeOK, SignalsItsOwn, HoldsLock,
                ChildIsOwn, BirthIsOwn, PidsDiffer, Accounted, Undisturbed, RaisedBy,
                Recorded, Alive, Births
  <1> QED
    BY <1>1, <1>2, <1>3, <1>4 DEF Next

\* The invariant of the private servers: locks, children, files and pids.
THEOREM ServerInvariantHolds == Spec => []ServerIInv
  BY ServerBegins, ServerStep, PTL DEF Spec

\* Nobody deciding, the server that serves is the one that the files name, and
\* the next worker will know it for its own.
LEMMA AccountedServes == ASSUME ServerIInv PROVE ServesIsRecorded
  <1> SUFFICES ASSUME Undisturbed, NEW s \in Listeners, lock[server[s].home] = "free"
               PROVE Owned(server[s].home)
    BY DEF ServesIsRecorded, AlwaysReusable
  <1> DEFINE h == server[s].home
  <1>1. s \in Births /\ server[s].life = "up"
    BY DEF Listeners
  <1>2. ASSUME NEW k \in Worker, RaisedBy(k, s) PROVE FALSE
    <2>1. w[k].pc \in Locked /\ HomeOf[k] = h
      BY <1>2 DEF ServerIInv, ChildIsOwn, RaisedBy, Raising, Locked
    <2>2. lock[h] = k
      BY <2>1 DEF ServerIInv, HoldsLock
    <2> QED
      BY <2>2, LockAssumption
  <1>3. Recorded(s)
    BY <1>1, <1>2 DEF ServerIInv, Accounted
  <1>4. pidFile[h] = server[s].pid /\ birthFile[h] = s
    BY <1>3 DEF Recorded
  <1>5. Named(server[s].pid) = s
    <2>1. Alive(s) /\ server \in Seq(Server)
      BY <1>1 DEF Alive, ServerIInv, ServerTypeOK
    <2>2. Named(server[s].pid) \in Births /\ Alive(Named(server[s].pid))
          /\ server[Named(server[s].pid)].pid = server[s].pid
      BY <1>1, <2>1, NamedIs
    <2> QED
      BY <1>1, <2>1, <2>2 DEF ServerIInv, PidsDiffer
  <1>6. s # 0
    BY <1>1, BirthsAreNats DEF ServerIInv, ServerTypeOK
  <1> QED
    BY <1>4, <1>5, <1>6 DEF Owned

\* ensure_account_server and what it calls: a worker signals servers of its own
\* home only, although pids and the port are shared and used again; and with
\* the port to itself and no worker killed, a crash, a restart or a start given
\* up never leaves a server that the next worker cannot use.
THEOREM ServersAreOwn == Spec => []ServerInv
  <1>1. ServerIInv => ServerInv
    BY AccountedServes DEF ServerIInv, ServerInv
  <1> QED
    BY <1>1, ServerInvariantHolds, PTL
=============================================================================
