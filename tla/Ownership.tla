----------------------------- MODULE Ownership ------------------------------
(***************************************************************************)
(* Deployments and the accounts that own them, while the accounts'         *)
(* credentials are rotated, removed, rejected and repaired: AccountManager *)
(* (accounts/manager.py), ProviderAccount, the hot-reloaded source, the    *)
(* Modal adapter's cache of clients, and LifecycleService.reconcile() over *)
(* all records.  Pooled accounts only: the ambient one has no fingerprint. *)
(*                                                                         *)
(* A control key is a generation of its account's; a key shows only what   *)
(* was made with it ("a new cloud key is not proof of the same identity"). *)
(***************************************************************************)
EXTENDS Naturals, Sequences

CONSTANTS Account, Deployed,    \* accounts of one pool; deployments
          MaxKey,               \* generations of a control key
          MaxChanges            \* changes of the configuration, at most

VARIABLE ow     \* the pool, the records and the cloud

NoKey == [control |-> 0, proxy |-> 0]
NoDeployment == [is |-> "none", owner |-> NoKey, by |-> NoKey, flagged |-> FALSE,
         mayContinue |-> FALSE, gone |-> FALSE]

OwnershipIdle ==        \* no settings, no more changes: nothing happens
    [keys |-> [a \in Account |-> NoKey], revoked |-> {},
     recs |-> [d \in Deployed |-> NoDeployment],
     account |-> [d \in Deployed |-> CHOOSE a \in Account : TRUE],
     live |-> {}, client |-> [a \in Account |-> NoKey],
     pass |-> "none", todo |-> {}, confirmed |-> {}, changes |-> MaxChanges]

OwnershipInit ==
    ow = [OwnershipIdle EXCEPT !.keys = [a \in Account |-> [control |-> 1, proxy |-> 1]],
                               !.changes = 0]

Rec(d) == ow.recs[d]
Of(d) == ow.account[d]

-----------------------------------------------------------------------------
(* Settings, read again for every use: JSON files and environment variables. *)

Configure(a, key) ==
    /\ ow.changes < MaxChanges
    /\ ow' = [ow EXCEPT !.changes = @ + 1, !.keys[a] = key]

\* An invalid or missing credential leaves its account out.
Forget(a) == ow.keys[a] # NoKey /\ Configure(a, NoKey)
Rotate(a) == \E g \in 1 .. MaxKey : Configure(a, [control |-> g, proxy |-> 1])
RotateProxy(a) == ow.keys[a] # NoKey /\ Configure(a, [ow.keys[a] EXCEPT !.proxy = @ + 1])

\* An attempt elsewhere was told that the credentials are no good.
Reject(a) ==
    /\ ow.changes < MaxChanges /\ a \notin ow.revoked
    /\ ow' = [ow EXCEPT !.changes = @ + 1, !.revoked = @ \cup {a}]

Authorize(a) == a \in ow.revoked /\ ow' = [ow EXCEPT !.revoked = @ \ {a}]

\* Health and clients live in memory.
RestartAll ==
    /\ ow.changes < MaxChanges
    /\ ow' = [ow EXCEPT !.changes = @ + 1, !.revoked = {}, !.pass = "none", !.todo = {},
                        !.confirmed = {}, !.client = [a \in Account |-> NoKey],
                        !.recs = [d \in Deployed |->
                                      IF Rec(d).is = "leased" THEN NoDeployment ELSE Rec(d)]]

-----------------------------------------------------------------------------
(* Who may act for a deployment. *)

FaultyResolves(d) == ow.keys[Of(d)] # NoKey /\ Of(d) \notin ow.revoked

\* resolve_owner(): configured, not revoked, the control key that made it.
Resolves(d) ==
    /\ ow.keys[Of(d)] # NoKey /\ Of(d) \notin ow.revoked
    /\ ow.keys[Of(d)].control = Rec(d).owner.control

FaultyClient(a, key) == IF ow.client[a] # NoKey THEN ow.client[a] ELSE key

\* _client(): kept per account while all its secrets stay the same.
Client(a, key) == IF ow.client[a] = key THEN ow.client[a] ELSE key

\* A call of the provider for d: what it finds depends on the key in use.
Call(d, key) == LET c == Client(Of(d), key)
                IN  [key |-> c, finds |-> d \in ow.live /\ c.control = Rec(d).by.control]

-----------------------------------------------------------------------------
(* A deploy: the leased account is the one of the create and of the record. *)

Lease(d, a) ==
    /\ Rec(d) = NoDeployment /\ ow.keys[a] # NoKey /\ a \notin ow.revoked
    /\ ow' = [ow EXCEPT !.account[d] = a,
                        !.recs[d] = [NoDeployment EXCEPT !.is = "leased", !.owner = ow.keys[a]]]

\* Ready, or failed with the resource left or not, its create over or not.
Create(d) ==
    LET key == Client(Of(d), Rec(d).owner)
    IN  /\ Rec(d).is = "leased"
        /\ \E end \in {"ready", "over", "lost"}, made \in BOOLEAN :
               /\ end = "ready" => made
               /\ ow' = [ow EXCEPT !.client[Of(d)] = key,
                             !.live = IF made THEN @ \cup {d} ELSE @,
                             !.recs[d] = [@ EXCEPT !.is = "active", !.by = key,
                                              !.flagged = (end # "ready"),
                                              !.mayContinue = (end = "lost")]]

\* An attempt that ended for certain is not followed up; an outstanding one may
\* be, once it is over.
Land(d) ==
    /\ Rec(d).is = "active" /\ Rec(d).mayContinue /\ d \notin ow.live /\ ~Rec(d).gone
    /\ ow.changes < MaxChanges
    /\ ow' = [ow EXCEPT !.live = @ \cup {d}, !.changes = @ + 1]

-----------------------------------------------------------------------------
(* Later operations. *)

Uses(d, key) == [ow EXCEPT !.client[Of(d)] = key]

\* status(), an inference request's headers, a health check.
Look(d) ==
    /\ Rec(d).is = "active" /\ Resolves(d)
    /\ ow' = Uses(d, Call(d, ow.keys[Of(d)]).key)

\* What is found is removed; then, or if nothing was, the record is settled.
Settled(o, d) == [o EXCEPT !.recs[d] = [@ EXCEPT !.is = "stopped", !.flagged = FALSE,
                                                 !.gone = TRUE]]

Removed(d, call) ==
    LET after == [Uses(d, call.key) EXCEPT !.live = IF call.finds THEN @ \ {d} ELSE @]
    IN  Settled(after, d)

\* stop_deployment(action = DOWN); what an outstanding create may still make
\* keeps the record flagged.
StopIt(d) ==
    /\ Rec(d).is = "active" /\ Resolves(d)
    /\ LET call == Call(d, ow.keys[Of(d)])
       IN  ow' = IF Rec(d).mayContinue
                 THEN [Removed(d, call) EXCEPT !.recs[d] = [Rec(d) EXCEPT !.flagged = TRUE]]
                 ELSE Removed(d, call)

BeginReconcile(c) ==
    /\ ow.pass \in {"none", "raised"} /\ ow.changes < MaxChanges
    /\ LET records == {d \in Deployed : Rec(d).is \in {"active", "stopped"}}
       IN  ow' = [ow EXCEPT !.pass = "visiting", !.changes = @ + 1, !.todo = records,
                            !.confirmed = c \cap records]

Visited(o, d) == [o EXCEPT !.todo = @ \ {d}, !.pass = IF ow.todo = {d} THEN "none" ELSE @,
                             !.confirmed = @ \ {d}]

\* Nothing to resolve, a create that may go on, an account that is gone, or an
\* error of the provider: on to the next.
Skip(d) ==
    /\ ow.pass = "visiting" /\ d \in ow.todo
    /\ d \in ow.confirmed => Resolves(d)
    /\ ow' = [Visited(ow, d) EXCEPT !.recs[d].mayContinue = @ /\ d \notin ow.confirmed]

\* The operator confirms only what is over.
Reconcile(d) ==
    /\ ow.pass = "visiting" /\ d \in ow.todo /\ Rec(d).flagged /\ Resolves(d)
    /\ (Rec(d).mayContinue => d \in ow.confirmed)
    /\ ow' = [Visited(Removed(d, Call(d, ow.keys[Of(d)])), d) EXCEPT
                 !.recs[d].mayContinue = FALSE]

\* For a confirmed record whose account is gone the loop itself raises.
ReconcileRaises(d) ==
    /\ ow.pass = "visiting" /\ d \in ow.todo \cap ow.confirmed /\ ~Resolves(d)
    /\ ow' = [ow EXCEPT !.pass = "raised", !.todo = {}, !.confirmed = {}]

OwnershipNext ==
    \/ \E a \in Account : \/ Forget(a) \/ Rotate(a) \/ RotateProxy(a) \/ Reject(a)
                          \/ Authorize(a) \/ (\E d \in Deployed : Lease(d, a))
    \/ \E d \in Deployed : \/ Create(d) \/ Land(d) \/ Look(d) \/ StopIt(d)
                           \/ Skip(d) \/ Reconcile(d) \/ ReconcileRaises(d)
    \/ RestartAll \/ (\E c \in SUBSET Deployed : BeginReconcile(c))

-----------------------------------------------------------------------------
(* Properties. *)

\* Whatever acts for a deployment acts with the control key that made it, so
\* that a rotated, re-used or forgotten account never speaks for another's.
OwnerOnly ==
    \A d \in Deployed : Rec(d).is = "active" /\ Resolves(d) =>
        Call(d, ow.keys[Of(d)]).key.control = Rec(d).by.control

\* A record that says its resource is gone is right: no operation took another
\* key's view of the cloud for the truth.
GoneIsGone == \A d \in Deployed : Rec(d).gone => d \notin ow.live

OwnersAct == OwnerOnly /\ GoneIsGone

\* "Accounts that are no longer configured are skipped (logged)": not so for a
\* confirmed record, and the records behind it are not visited.
ReconcileGoesOn == ow.pass # "raised"
=============================================================================
