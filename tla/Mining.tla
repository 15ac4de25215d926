------------------------------- MODULE Mining -------------------------------
(***************************************************************************)
(* Synthetic mining (internal/miner): the manager starts a session, which  *)
(* asks a provider for the answer to each prompt of a corpus and writes it  *)
(* into the cache as rows for every target model.  The session's workers    *)
(* take jobs, wait in turn for the rate limiter, and retry on HTTP 429; the *)
(* manager keeps one status and one set of statistics for whichever         *)
(* sessions are alive, and an administrator may stop and start at any time. *)
(***************************************************************************)
EXTENDS Integers, FiniteSets

CONSTANTS
  Workers,     \* goroutines of a session
  Total,       \* prompts of a corpus
  Inserts,     \* rows written per prompt: two per target model
  MaxRetries,  \* of a prompt the provider answers with 429
  MaxSessions  \* bound: sessions started in all

ASSUME MiningAssumption ==
  /\ IsFiniteSet(Workers) /\ Workers # {}
  /\ Total \in Nat \ {0} /\ Inserts \in Nat \ {0} /\ MaxRetries \in Nat
  /\ MaxSessions \in Nat \ {0}

VARIABLES
  status,     \* what Status reports
  cancelFunc, \* the session it cancels, 0 for none
  stats,      \* the manager's: completed, errors
  session     \* the sessions started so far

vars == <<status, cancelFunc, stats, session>>

Counts == [completed : Nat, errors : Nat]
NoCounts == [completed |-> 0, errors |-> 0]
SessionId == 1 .. MaxSessions

Worker ==
  [pc : {"idle", "lock", "ticket", "exited"}]
    \cup [pc : {"call"}, attempt : 0 .. MaxRetries]
    \cup [pc : {"backoff"}, attempt : 0 .. MaxRetries - 1]
    \cup [pc : {"insert"}, left : 1 .. Inserts]
    \cup [pc : {"done"}, failed : BOOLEAN]

\* History: "lone", no other session has been alive beside this one.
Session ==
  [phase : {"unborn", "mining", "final", "ended"}, canceled : BOOLEAN,
   jobs : 0 .. Total, own : Counts, worker : [Workers -> Worker],
   lone : BOOLEAN, verdict : {"none", "idle", "failed", "completed"}]

TypeOK ==
  /\ status \in {"idle", "running", "stopping", "completed", "failed"}
  /\ cancelFunc \in 0 .. MaxSessions
  /\ stats \in Counts
  /\ session \in [SessionId -> Session]

Idle == [pc |-> "idle"]
Exited == [pc |-> "exited"]

Init ==
  /\ status = "idle" /\ cancelFunc = 0 /\ stats = NoCounts
  /\ session = [s \in SessionId |->
       [phase |-> "unborn", canceled |-> FALSE, jobs |-> Total, own |-> NoCounts,
        worker |-> [w \in Workers |-> Idle], lone |-> TRUE, verdict |-> "none"]]

Alive(s) == session[s].phase \in {"mining", "final"}

-----------------------------------------------------------------------------
(* Start and Stop *)

Start(s) ==
  /\ status # "running"
  /\ status' = "running" /\ cancelFunc' = s /\ stats' = NoCounts
  /\ session' = [t \in SessionId |->
       IF t = s
       THEN [session[t] EXCEPT !.phase = "mining", !.lone = \A u \in SessionId : ~Alive(u)]
       ELSE [session[t] EXCEPT !.lone = @ /\ ~Alive(t)]]

\* The prompts and the provider's key have been found; the sessions come in turn.
HandleMinerStart(s) ==
  /\ session[s].phase = "unborn" /\ \A t \in SessionId : t < s => session[t].phase # "unborn"
  /\ Start(s)

\* The context of a session, canceled by the manager's cancel function.
Canceled(s) == [session EXCEPT ![s].canceled = TRUE]

Stop ==
  /\ status = "running"
  /\ status' = "stopping"
  /\ session' = IF cancelFunc = 0 THEN session ELSE Canceled(cancelFunc)
  /\ UNCHANGED <<cancelFunc, stats>>

-----------------------------------------------------------------------------
(* A worker of a session *)

At(s, w, pc) == session[s].phase = "mining" /\ session[s].worker[w].pc = pc

Becomes(s, w, state) == session' = [session EXCEPT ![s].worker[w] = state]

Calling(attempt) == [pc |-> "call", attempt |-> attempt]
BackingOff(attempt) == [pc |-> "backoff", attempt |-> attempt]
Inserting(left) == [pc |-> "insert", left |-> left]

\* A worker that finds its context canceled and a job waiting may take either.
Take(s, w) ==
  /\ At(s, w, "idle")
  /\ \/ /\ session[s].jobs > 0
        /\ session' = [session EXCEPT ![s].jobs = @ - 1, ![s].worker[w] = [pc |-> "lock"]]
     \/ /\ session[s].canceled \/ session[s].jobs = 0
        /\ Becomes(s, w, Exited)
  /\ UNCHANGED <<status, cancelFunc, stats>>

\* The rate limiter is waited for under a mutex, one worker at a time.
Lock(s, w) ==
  /\ At(s, w, "lock")
  /\ \A v \in Workers : ~At(s, v, "ticket")
  /\ Becomes(s, w, [pc |-> "ticket"])
  /\ UNCHANGED <<status, cancelFunc, stats>>

\* A canceled session drops the job, unless the ticker fires first: then onStart runs.
Ticket(s, w) ==
  /\ At(s, w, "ticket")
  /\ \/ Becomes(s, w, Calling(0))
     \/ session[s].canceled /\ Becomes(s, w, Exited)
  /\ UNCHANGED <<status, cancelFunc, stats>>

Outcome(failed) == [pc |-> "done", failed |-> failed]

Retried(attempt) == attempt < MaxRetries

\* Mutant: the attempts are not counted.
SameAttempt(attempt) == attempt

NextAttempt(attempt) == attempt + 1

\* The call fails when its context is canceled; otherwise the provider answers with
\* a reply, an error (a bad status, no choices, nonsense), or a 429.
Call(s, w) ==
  /\ At(s, w, "call")
  /\ LET me == session[s].worker[w]
     IN  \/ ~session[s].canceled /\ Becomes(s, w, Inserting(Inserts))
         \/ Becomes(s, w, Outcome(TRUE))
         \/ /\ ~session[s].canceled /\ Retried(me.attempt)
            /\ Becomes(s, w, BackingOff(me.attempt))
  /\ UNCHANGED <<status, cancelFunc, stats>>

Backoff(s, w) ==
  /\ At(s, w, "backoff")
  /\ LET me == session[s].worker[w]
     IN  \/ Becomes(s, w, Calling(NextAttempt(me.attempt)))
         \/ session[s].canceled /\ Becomes(s, w, Outcome(TRUE))
  /\ UNCHANGED <<status, cancelFunc, stats>>

\* storeSynthesizedEntry: a row per schema and target model.  A statement fails, once
\* the context is canceled for one; the error is dropped.
InsertRow(s, w) ==
  /\ At(s, w, "insert")
  /\ LET me == session[s].worker[w]
     IN  Becomes(s, w, IF me.left = 1 THEN Outcome(FALSE) ELSE Inserting(me.left - 1))
  /\ UNCHANGED <<status, cancelFunc, stats>>

\* How onDone counts; as a mutant, how the session would.
CompletedAnyway(own, failed) ==
  [completed |-> own.completed + 1, errors |-> own.errors + (IF failed THEN 1 ELSE 0)]

\* The session's own statistics count a prompt once.
Counted(own, failed) ==
  IF failed THEN [own EXCEPT !.errors = @ + 1] ELSE [own EXCEPT !.completed = @ + 1]

\* The session's statistics are read at its end only; those of the manager, whosever
\* they are by now, count a failed prompt as completed as well (onDone).
Done(s, w) ==
  /\ At(s, w, "done")
  /\ LET failed == session[s].worker[w].failed
     IN  /\ stats' = CompletedAnyway(stats, failed)
         /\ session' = [session EXCEPT ![s].own = Counted(@, failed), ![s].worker[w] = Idle]
  /\ UNCHANGED <<status, cancelFunc>>

-----------------------------------------------------------------------------
(* The end of a session *)

\* All workers have left; the session's own statistics replace the manager's.
Finalize(s) ==
  /\ session[s].phase = "mining"
  /\ \A w \in Workers : session[s].worker[w].pc = "exited"
  /\ stats' = session[s].own
  /\ session' = [session EXCEPT ![s].phase = "final"]
  /\ UNCHANGED <<status, cancelFunc>>

AllFailed == stats.errors > 0 /\ stats.completed = 0

\* Mutant: the end of a session leaves the status alone.
KeptStatus(s) == status

Verdict(s) ==
  IF status = "stopping" \/ session[s].canceled THEN "idle"
  ELSE IF AllFailed THEN "failed" ELSE "completed"

\* The deferred end, in a lock of its own.
End(s) ==
  /\ session[s].phase = "final"
  /\ cancelFunc' = 0
  /\ status' = Verdict(s)
  /\ session' = [session EXCEPT ![s].phase = "ended", ![s].verdict = Verdict(s)]
  /\ UNCHANGED stats

Step(s) ==
  \/ \E w \in Workers :
       \/ Take(s, w) \/ Lock(s, w) \/ Ticket(s, w) \/ Call(s, w) \/ Backoff(s, w)
       \/ InsertRow(s, w) \/ Done(s, w)
  \/ Finalize(s) \/ End(s)

Next == Stop \/ \E s \in SessionId : HandleMinerStart(s) \/ Step(s)

Spec == Init /\ [][Next]_vars

\* Goroutines run, the ticker ticks, HTTP calls end with their timeout; nothing
\* makes an administrator start or stop.
FairSpec == Spec /\ \A s \in SessionId : WF_vars(Step(s))
-----------------------------------------------------------------------------
\* Whatever sessions overlap, the one that Status calls running is alive, is not
\* canceled and is the one whose cancel function the manager holds: Stop reaches it.
StoppableWhileRunning ==
  status = "running" =>
    cancelFunc # 0 /\ Alive(cancelFunc) /\ ~session[cancelFunc].canceled

\* A session that nobody canceled has counted each of its prompts once, as completed
\* or as an error; when it was alone, it is called failed exactly when none completed.
SessionAccounted ==
  \A s \in SessionId :
    session[s].phase \in {"final", "ended"} /\ ~session[s].canceled =>
      /\ session[s].own.completed + session[s].own.errors = Total
      /\ session[s].lone /\ session[s].phase = "ended" =>
           (session[s].verdict = "failed" <=> session[s].own.completed = 0)

\* Every session ends: canceled or not, with workers that wait for each other's
\* ticket or for a provider that keeps refusing.
SessionEnds == \A s \in SessionId : Alive(s) ~> session[s].phase = "ended"

-----------------------------------------------------------------------------
(* Why they hold. *)

\* The workers of a session that have a job in hand.
Busy(x) ==
  {w \in Workers : x.worker[w].pc \in {"lock", "ticket", "call", "backoff", "insert", "done"}}

\* A job is with the dispatcher, with a worker, or counted; only cancellation loses one.
Accounted(x) ==
  /\ x.phase = "unborn" =>
       ~x.canceled /\ x.jobs = Total /\ x.own = NoCounts /\ x.worker = [w \in Workers |-> Idle]
  /\ x.phase \in {"final", "ended"} => \A w \in Workers : x.worker[w].pc = "exited"
  /\ ~x.canceled =>
       /\ x.jobs + Cardinality(Busy(x)) + x.own.completed + x.own.errors = Total
       /\ \A w \in Workers : x.worker[w].pc = "exited" => x.jobs = 0
  /\ x.lone /\ x.phase = "ended" /\ ~x.canceled =>
       (x.verdict = "failed" <=> x.own.completed = 0)

\* A session that is alone has the manager's status, cancel function and statistics.
Managed ==
  \A s \in SessionId :
    session[s].lone /\ Alive(s) =>
      /\ cancelFunc = s
      /\ status = "running" \/ (status = "stopping" /\ session[s].canceled)
      /\ \A t \in SessionId \ {s} : ~Alive(t)
      /\ session[s].phase = "final" => stats = session[s].own

Inductive ==
  /\ TypeOK /\ StoppableWhileRunning /\ Managed
  /\ \A s \in SessionId : Accounted(session[s])
=============================================================================
