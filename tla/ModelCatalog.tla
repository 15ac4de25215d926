---------------------------- MODULE ModelCatalog ----------------------------
(***************************************************************************)
(* The model catalog and its table.  Dispatches ask whether a model is     *)
(* usable, learn from the upstream whether it answers or is gone, and write *)
(* a changed entry through to the store after the catalog's lock has been   *)
(* released, so writes of one entry may be reordered, fail, or be lost in a *)
(* crash.  A restart reads the store.                                      *)
(***************************************************************************)
EXTENDS CatalogOps

CONSTANTS Askers, Models

VARIABLES
  entries, \* the catalog in memory
  store,   \* the model_catalog table
  asker,   \* what each request is doing: its place, model and entry to persist
  granted  \* history: ticks since each model's recheck was last given out

catalogVars == <<entries, store, asker, granted>>

Idle == [pc |-> "idle"]

AskerTask ==
  {Idle} \cup [pc : {"sent", "reactivate"}, model : Models]
         \cup [pc : {"persist"}, model : Models, entry : Entry]

CatalogTypeOK ==
  /\ entries \in [Models -> Entry]
  /\ store \in [Models -> Entry]
  /\ asker \in [Askers -> AskerTask]
  /\ granted \in [Models -> 0 .. RecheckTTL]

\* A first start, with an empty table.
CatalogInit ==
  /\ entries = [m \in Models |-> Healthy]
  /\ store = [m \in Models |-> Healthy]
  /\ asker = [r \in Askers |-> Idle]
  /\ granted = [m \in Models |-> RecheckTTL]

\* A dispatch asks for a model, and sends to it if it is usable.
Usable(r, m) ==
  /\ asker[r].pc = "idle"
  /\ IsUsable(entries[m])
  /\ entries' = [entries EXCEPT ![m] = AfterUsable(@)]
  /\ asker' = [asker EXCEPT ![r] = [pc |-> "sent", model |-> m]]
  /\ granted' = [granted EXCEPT ![m] = IF RecheckDue(entries[m]) THEN 0 ELSE @]
  /\ UNCHANGED store

\* Neither a success nor a model that is gone: an outage, a rejection, a cancel.
NoVerdict(r) ==
  /\ asker[r].pc = "sent"
  /\ asker' = [asker EXCEPT ![r] = Idle]
  /\ UNCHANGED <<entries, store, granted>>

\* The locked part of MarkInactive and MarkActive; the snapshot is persisted next.
Record(r, e) ==
  /\ entries' = [entries EXCEPT ![asker[r].model] = e]
  /\ asker' = [asker EXCEPT ![r] = [pc |-> "persist", model |-> asker[r].model, entry |-> e]]
  /\ UNCHANGED <<store, granted>>

CatalogMarkInactive(r) ==
  /\ asker[r].pc = "sent"
  /\ Record(r, Gone)

\* MarkActive changes and persists only an inactive entry.
Marks(e) == e.status = "inactive"

MarkActive(r) ==
  /\ asker[r].pc \in {"sent", "reactivate"}
  /\ IF Marks(entries[asker[r].model])
     THEN Record(r, Healthy)
     ELSE /\ asker' = [asker EXCEPT ![r] = Idle]
          /\ UNCHANGED <<entries, store, granted>>

\* The admin's Reactivate looks at the entry under one lock and marks it active
\* under another.
Reactivate(r, m) ==
  /\ asker[r].pc = "idle"
  /\ entries[m].status = "inactive"
  /\ asker' = [asker EXCEPT ![r] = [pc |-> "reactivate", model |-> m]]
  /\ UNCHANGED <<entries, store, granted>>

\* SaveCatalogEntry may fail; its error is only logged.
Persist(r) ==
  /\ asker[r].pc = "persist"
  /\ \/ store' = [store EXCEPT ![asker[r].model] = asker[r].entry]
     \/ UNCHANGED store
  /\ asker' = [asker EXCEPT ![r] = Idle]
  /\ UNCHANGED <<entries, granted>>

\* A crash, and SetStore at the next start.
Restart ==
  /\ entries' = store
  /\ asker' = [r \in Askers |-> Idle]
  /\ granted' = [m \in Models |-> RecheckTTL]
  /\ UNCHANGED store

CatalogTick ==
  /\ entries' = [m \in Models |-> AfterWait(entries[m])]
  /\ store' = [m \in Models |-> AfterWait(store[m])]
  /\ granted' = [m \in Models |-> IF granted[m] < RecheckTTL THEN granted[m] + 1 ELSE granted[m]]
  /\ asker' = [r \in Askers |->
       IF asker[r].pc = "persist" THEN [asker[r] EXCEPT !.entry = AfterWait(@)] ELSE asker[r]]

AskerStep(r) == NoVerdict(r) \/ CatalogMarkInactive(r) \/ MarkActive(r) \/ Persist(r)

CatalogNext ==
  \/ \E r \in Askers :
       \/ NoVerdict(r) \/ CatalogMarkInactive(r) \/ MarkActive(r) \/ Persist(r)
       \/ \E m \in Models : Usable(r, m) \/ Reactivate(r, m)
  \/ Restart
  \/ CatalogTick

CatalogSpec == CatalogInit /\ [][CatalogNext]_catalogVars

\* The clock runs, every model keeps being asked for, and every request ends.
\* Nothing is assumed of outcomes, administrators, or crashes.
CatalogFairSpec ==
  /\ CatalogSpec
  /\ WF_catalogVars(CatalogTick)
  /\ \A r \in Askers :
       /\ WF_catalogVars(AskerStep(r))
       /\ \A m \in Models : SF_catalogVars(Usable(r, m))

-----------------------------------------------------------------------------
\* The recheck of an inactive model is given to one request per TTL, however
\* many ask at once and whatever reports come late.  Only a restart, which ends
\* the request that held it, forgets the claim.
OneRecheckPerTTL ==
  [][\A r \in Askers, m \in Models :
       /\ entries[m].status = "inactive"
       /\ asker[r].pc = "idle" /\ asker'[r] = [pc |-> "sent", model |-> m]
       => granted[m] >= RecheckTTL]_catalogVars

\* The inductive invariant of the proofs: an inactive entry is never older than
\* the last recheck of its model, since only giving one out, or a fresh verdict,
\* sets its time.
AgeWithinGrant ==
  \A m \in Models : entries[m].status = "inactive" => entries[m].age <= granted[m]

CatalogInductive == CatalogTypeOK /\ AgeWithinGrant

\* No model is skipped for ever: an inactive one gets its recheck, even if other
\* requests report late, writes fail, or the process keeps restarting.
RecheckComes ==
  \A m \in Models :
    entries[m].status = "inactive" ~> (entries[m].status = "active" \/ granted[m] = 0)
=============================================================================
