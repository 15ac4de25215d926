----------------------------- MODULE CatalogOps -----------------------------
(***************************************************************************)
(* One entry of ModelCatalog (internal/router/catalog.go), the health of a *)
(* provider/model pair, and the catalog's methods on it.  Each holds the   *)
(* catalog's mutex while it reads and changes the entry.                   *)
(*                                                                         *)
(* Time is the field "age": the ticks since CheckedAt.  It stops at        *)
(* RecheckTTL, the only value it is compared with.  CheckedAt of an active *)
(* entry is never read, and neither is the fail count: they are left out.  *)
(***************************************************************************)
EXTENDS Integers

CONSTANT RecheckTTL \* the recheck interval, 24 hours by default

ASSUME RecheckAssumption == RecheckTTL \in Nat \ {0}

Entry == [status : {"active", "inactive"}, age : 0 .. RecheckTTL]

\* A model the catalog has no entry for is treated like an active one.
Healthy == [status |-> "active", age |-> 0]

Gone == [status |-> "inactive", age |-> 0]

RecheckDue(e) == e.status = "inactive" /\ e.age >= RecheckTTL

\* Mutant: an inactive model is never let through again.
NeverRechecked(e) == e.status # "inactive"

\* What Usable answers, and the entry it leaves: an answer of yes for an
\* inactive model claims the recheck by restarting its time.
IsUsable(e) == e.status = "inactive" => RecheckDue(e)

\* Mutant: the recheck is not claimed.
UsableUnclaimed(e) == e

AfterUsable(e) == IF RecheckDue(e) THEN [e EXCEPT !.age = 0] ELSE e

AfterWait(e) ==
  IF e.status = "inactive" /\ e.age < RecheckTTL THEN [e EXCEPT !.age = @ + 1] ELSE e
=============================================================================
