----------------------------- MODULE SkyServer ------------------------------
(***************************************************************************)
(* The private SkyPilot API server of a pooled account: worker processes   *)
(* of one account home start, reuse, restart or give up on it              *)
(* (isolation/skypilot_worker.py, ensure_account_server and what it        *)
(* calls).  A home keeps its files (pid, birth, fingerprint) and a lock.   *)
(* Homes share the localhost port when two state directories on a machine  *)
(* number their accounts alike (providers/skypilot.py, account_port), or   *)
(* a Home stands for whatever else listens there.  The runner may kill a   *)
(* worker at any time (isolation/runner.py); its server lives on in a      *)
(* session of its own.                                                     *)
(***************************************************************************)
EXTENDS Naturals, Sequences

CONSTANTS Worker, Home,
          HomeOf,       \* the account home each worker runs in
          MaxCalls,     \* operations run in each worker slot, one after another
          MaxKills      \* workers killed by the runner, at most

ASSUME HomeAssumption == HomeOf \in [Worker -> Home]
ASSUME LockAssumption == "free" \notin Worker
ASSUME CallsAssumption == MaxCalls \in [Worker -> Nat] /\ MaxKills \in Nat

VARIABLES
    server,     \* the API servers started so far, in order of birth
    pidFile, birthFile,     \* the pid and the birth each home has on file, 0 for none
    fingerprint,    \* homes whose fingerprint file is written
    lock,       \* flock on server.lock
    w,          \* where each worker is, and the server it started
    got,        \* the server behind the endpoint a worker returned
    calls, kills

files == <<pidFile, birthFile, fingerprint>>
vars == <<server, files, lock, w, got, calls, kills>>

Births == DOMAIN server
Server == [home : Home, by : Home \cup {"nobody"}, pid : Nat \ {0},
           life : {"starting", "up", "draining", "gone"}]

Ended == {"idle", "returned", "failed", "killed"}
Locked == {"look", "stop", "stopping", "spawn", "write_pid", "write_birth", "wait"}

ServerTypeOK ==
    /\ server \in Seq(Server)
    /\ pidFile \in [Home -> Nat] /\ birthFile \in [Home -> {0} \cup Births]
    /\ fingerprint \subseteq Home /\ lock \in [Home -> Worker \cup {"free"}]
    /\ w \in [Worker -> [pc : Ended \cup Locked \cup {"lock"}, child : {0} \cup Births]]
    /\ got \in [Worker -> {0} \cup Births]
    /\ kills \in 0 .. MaxKills

Init ==
    /\ server = <<>> /\ pidFile = [h \in Home |-> 0] /\ birthFile = [h \in Home |-> 0]
    /\ fingerprint = {} /\ lock = [h \in Home |-> "free"]
    /\ w = [k \in Worker |-> [pc |-> "idle", child |-> 0]]
    /\ got = [k \in Worker |-> 0]
    /\ calls = [k \in Worker |-> 0] /\ kills = 0

-----------------------------------------------------------------------------
(* The servers themselves. *)

Listeners == {s \in Births : server[s].life = "up"}
Healthy == Listeners # {}
Alive(s) == s \in Births /\ server[s].life # "gone"

\* The live process that has this pid now, 0 if there is none.
Named(pid) ==
    IF \E s \in Births : Alive(s) /\ server[s].pid = pid
    THEN CHOOSE s \in Births : Alive(s) /\ server[s].pid = pid ELSE 0

ServerUnchanged == UNCHANGED <<files, lock, w, got, calls, kills>>

\* A port has one listener: a second server exits when it cannot bind.
Binds(s) ==
    /\ server[s].life = "starting"
    /\ server' = [server EXCEPT ![s].life = IF Healthy THEN "gone" ELSE "up"]
    /\ ServerUnchanged

\* It crashes, or finishes draining after a SIGTERM.
Exits(s) ==
    /\ Alive(s) /\ server' = [server EXCEPT ![s].life = "gone"]
    /\ ServerUnchanged

Signal(s, h, life) ==
    server' = [server EXCEPT ![s].life = IF @ = "gone" THEN @ ELSE life,
                             ![s].by = IF server[s].life = "gone" THEN @ ELSE h]

-----------------------------------------------------------------------------
(* A worker, from the lock to the endpoint. *)

FaultyOwned(h) == Named(pidFile[h]) # 0     \* a live pid is enough

\* _server_owned: the pid is alive, of the birth on file, with this home.
Owned(h) ==
    LET s == Named(pidFile[h])
    IN  s # 0 /\ birthFile[h] = s /\ server[s].home = h

Goto(k, pc) == w' = [w EXCEPT ![k].pc = pc]

\* The with statement frees the lock; so does the death of the process.
Leave(k, pc) ==
    /\ w' = [w EXCEPT ![k] = [pc |-> pc, child |-> 0]]
    /\ lock' = [lock EXCEPT ![HomeOf[k]] = IF @ = k THEN "free" ELSE @]

Begin(k) ==
    /\ w[k].pc \in Ended /\ calls[k] < MaxCalls[k]
    /\ calls' = [calls EXCEPT ![k] = @ + 1]
    /\ Goto(k, "lock") /\ got' = [got EXCEPT ![k] = 0]
    /\ UNCHANGED <<server, files, lock, kills>>

Lock(k) ==
    /\ w[k].pc = "lock" /\ lock[HomeOf[k]] = "free"
    /\ lock' = [lock EXCEPT ![HomeOf[k]] = k] /\ Goto(k, "look")
    /\ UNCHANGED <<server, files, got, calls, kills>>

Occupied(k) ==
    /\ w[k].pc = "look" /\ Healthy /\ ~Owned(HomeOf[k])
    /\ Leave(k, "failed")
    /\ UNCHANGED <<server, files, got, calls, kills>>

Returns(k) ==
    /\ Leave(k, "returned")
    /\ got' = [got EXCEPT ![k] = CHOOSE s \in Listeners : TRUE]

Reuse(k) ==
    /\ w[k].pc = "look" /\ Healthy /\ Owned(HomeOf[k]) /\ HomeOf[k] \in fingerprint
    /\ Returns(k)
    /\ UNCHANGED <<server, files, calls, kills>>

\* Its fingerprint was never written: nobody knows what key it holds.
Restart(k) ==
    /\ w[k].pc = "look" /\ Healthy /\ Owned(HomeOf[k]) /\ HomeOf[k] \notin fingerprint
    /\ Goto(k, "stop")
    /\ UNCHANGED <<server, files, lock, got, calls, kills>>

\* Nobody listens.
Absent(k) ==
    /\ w[k].pc = "look" /\ ~Healthy /\ Goto(k, "spawn")
    /\ UNCHANGED <<server, files, lock, got, calls, kills>>

Terminate(k) ==
    /\ w[k].pc = "stop"
    /\ IF Owned(HomeOf[k])
       THEN /\ Signal(Named(pidFile[HomeOf[k]]), HomeOf[k], "draining")
            /\ Goto(k, "stopping") /\ UNCHANGED lock
       ELSE Leave(k, "failed") /\ UNCHANGED server
    /\ UNCHANGED <<files, got, calls, kills>>

\* The drain has a deadline; what survives it of the same birth is killed.
Escalate(k) ==
    /\ w[k].pc = "stopping" /\ Named(pidFile[HomeOf[k]]) = birthFile[HomeOf[k]]
    /\ Signal(birthFile[HomeOf[k]], HomeOf[k], "gone")
    /\ UNCHANGED <<files, lock, w, got, calls, kills>>

Stopped(k) ==
    /\ w[k].pc = "stopping" /\ Named(pidFile[HomeOf[k]]) = 0 /\ ~Healthy
    /\ pidFile' = [pidFile EXCEPT ![HomeOf[k]] = 0] /\ Goto(k, "spawn")
    /\ UNCHANGED <<server, birthFile, fingerprint, lock, got, calls, kills>>

StopFails(k) ==
    /\ w[k].pc = "stopping" /\ Leave(k, "failed")
    /\ UNCHANGED <<server, files, got, calls, kills>>

\* Pids are used again, and the system may pick the lowest free one.
FreePid ==
    CHOOSE p \in 1 .. Len(server) + 1 :
        Named(p) = 0 /\ \A q \in 1 .. p - 1 : Named(q) # 0

Spawn(k) ==
    /\ w[k].pc = "spawn"
    /\ server' = Append(server, [home |-> HomeOf[k], by |-> "nobody",
                                 pid |-> FreePid, life |-> "starting"])
    /\ w' = [w EXCEPT ![k] = [pc |-> "write_pid", child |-> Len(server')]]
    /\ UNCHANGED <<files, lock, got, calls, kills>>

WritePid(k) ==
    /\ w[k].pc = "write_pid"
    /\ pidFile' = [pidFile EXCEPT ![HomeOf[k]] = server[w[k].child].pid]
    /\ Goto(k, "write_birth")
    /\ UNCHANGED <<server, birthFile, fingerprint, lock, got, calls, kills>>

FaultyWriteBirth(k) ==      \* the old birth stays beside the new pid
    /\ w[k].pc = "write_birth"
    /\ birthFile' = [birthFile EXCEPT ![HomeOf[k]] = IF @ = 0 THEN w[k].child ELSE @]
    /\ Goto(k, "wait") /\ UNCHANGED lock
    /\ UNCHANGED <<server, pidFile, fingerprint, got, calls, kills>>

\* A child that is dead already has no birth to write.
WriteBirth(k) ==
    /\ w[k].pc = "write_birth"
    /\ IF Alive(w[k].child)
       THEN /\ birthFile' = [birthFile EXCEPT ![HomeOf[k]] = w[k].child]
            /\ Goto(k, "wait") /\ UNCHANGED lock
       ELSE Leave(k, "failed") /\ UNCHANGED birthFile
    /\ UNCHANGED <<server, pidFile, fingerprint, got, calls, kills>>

\* Somebody answers on the port.
Started(k) ==
    /\ w[k].pc = "wait" /\ Healthy
    /\ fingerprint' = fingerprint \cup {HomeOf[k]} /\ Returns(k)
    /\ UNCHANGED <<server, pidFile, birthFile, calls, kills>>

FaultyNotStarted(k) ==      \* no deadline: the child has to exit
    /\ w[k].pc = "wait" /\ ~Healthy /\ ~Alive(w[k].child)
    /\ Leave(k, "failed")
    /\ UNCHANGED <<server, files, got, calls, kills>>

\* The child has exited, or the deadline passed: it is told to go.
NotStarted(k) ==
    /\ w[k].pc = "wait" /\ ~Healthy
    /\ Signal(w[k].child, HomeOf[k], "draining") /\ Leave(k, "failed")
    /\ UNCHANGED <<files, got, calls, kills>>

\* The runner's timeout.
Killed(k) ==
    /\ w[k].pc \notin Ended /\ kills < MaxKills /\ kills' = kills + 1
    /\ Leave(k, "killed")
    /\ UNCHANGED <<server, files, got, calls>>

-----------------------------------------------------------------------------
WorkerStep(k) ==
    \/ Lock(k) \/ Occupied(k) \/ Reuse(k) \/ Restart(k) \/ Absent(k)
    \/ Terminate(k) \/ Escalate(k) \/ Stopped(k) \/ StopFails(k)
    \/ Spawn(k) \/ WritePid(k) \/ WriteBirth(k) \/ Started(k) \/ NotStarted(k)

Next ==
    \/ \E k \in Worker : Begin(k) \/ WorkerStep(k) \/ Killed(k)
    \/ \E s \in Births : Binds(s) \/ Exits(s)

Spec == Init /\ [][Next]_vars

\* A worker runs until it ends, deadlines included; flock is granted in turn.
\* Nothing is assumed of the servers.
FairSpec == Spec /\ \A k \in Worker : WF_vars(WorkerStep(k)) /\ SF_vars(Lock(k))

-----------------------------------------------------------------------------
(* Properties. *)

\* A worker signals servers of its own home only, whoever has the port: what
\* the files name is checked before it is trusted.
SignalsItsOwn ==
    \A s \in Births : server[s].by \in {"nobody", server[s].home}

\* "Starts (or reuses) this account's API server": a server of the home that
\* listens, with nobody deciding, can be reused by the next worker.
AlwaysReusable ==
    \A s \in Listeners : lock[server[s].home] = "free" => Owned(server[s].home)

Undisturbed == kills = 0 /\ \A s, t \in Births : server[s].home = server[t].home

\* With the port to itself and no worker killed, the server that listens is the
\* one its home's files name once nobody is deciding: a crash, a restart or a
\* start given up never leaves a running server the next worker cannot use.
ServesIsRecorded == Undisturbed => AlwaysReusable

\* The pid and birth files speak for one server, and for the one that serves.
ServerInv == ServerTypeOK /\ SignalsItsOwn /\ ServesIsRecorded

\* "Never reuse or kill a listener solely because its port happens to match."
ReusesItsOwn ==
    \A k \in Worker : w[k].pc = "returned" => server[got[k]].home = HomeOf[k]

\* Every operation gets an endpoint or an error, however slow the servers and
\* whoever else wants the lock.
WorkersEnd == \A k \in Worker : w[k].pc \notin Ended ~> w[k].pc \in Ended
=============================================================================
