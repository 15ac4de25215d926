----------------------------- MODULE ProxyProofs -----------------------------
(***************************************************************************)
(* Proofs about Proxy, for any number of requests, hashes and turns: what a *)
(* waiter may find once it is woken, the ledger rows of a request, and what *)
(* its client hears.                                                        *)
(***************************************************************************)
EXTENDS Proxy, TLAPS, SequenceTheorems

-----------------------------------------------------------------------------
(* What the helpers write has its type. *)

LEMMA StatusLineTyped ==
  ASSUME NEW r \in Requests
  PROVE  StatusLine(r) \in Seq(Events)
<1>1. <<"head">> \in Seq(Events) /\ <<>> \in Seq(Events)
  BY DEF Events
<1> QED BY <1>1 DEF StatusLine

LEMMA WholeReplyTyped ==
  ASSUME NEW r \in Requests
  PROVE  WholeReply(r) \in Seq(Events)
<1>1. <<"start", "stop">> \in Seq(Events) /\ <<"body">> \in Seq(Events)
  BY DEF Events
<1> QED BY <1>1, StatusLineTyped DEF WholeReply

LEMMA SendsTyped ==
  ASSUME TypeOK, NEW r \in Requests, NEW events \in Seq(Events), Sends(r, events)
  PROVE  out' \in [Requests -> Seq(Events)]
BY DEF TypeOK, Sends

LEMMA SendsErrorTyped ==
  ASSUME TypeOK, NEW r \in Requests, SendsError(r)
  PROVE  out' \in [Requests -> Seq(Events)]
<1>1. <<"error">> \in Seq(Events) /\ StatusLine(r) \o <<"failure">> \in Seq(Events)
  BY StatusLineTyped DEF Events
<1> QED BY <1>1, SendsTyped DEF SendsError

LEMMA StoppedTyped ==
  ASSUME NEW state \in BeatState
  PROVE  Stopped(state) \in BeatState
BY DEF Stopped, BeatState

-----------------------------------------------------------------------------
(* Most steps move one request, and nobody's lead or wait. *)

LEMMA MoveKeeps ==
  ASSUME Inductive, NEW r \in Requests, NEW t \in Task,
         task[r].pc # "done", task' = [task EXCEPT ![r] = t],
         t.leads = task[r].leads, t.woken = task[r].woken, t.leader = task[r].leader,
         t.pc # "done", t.pc \in {"lookup", "join"} => task[r].pc \in {"lookup", "join"},
         t.pc = "recheck" => t.woken,
         t.missed => t.woken /\ (task[r].missed \/ KeyOf[r] \notin cached),
         t.stored => t.pc = "leave" /\ (task[r].stored \/ KeyOf[r] \in cached'),
         cached \subseteq cached', cached' \subseteq Keys, evicted' = evicted,
         inflight' = inflight, waiters' = waiters,
         beat' \in [Requests -> BeatState], out' \in [Requests -> Seq(Events)],
         rows' \in [Requests -> Nat], \A q \in Requests \ {r} : rows'[q] = rows[q],
         Recorded(t, rows'[r])
  PROVE  Inductive'
<1>1. TypeOK
  BY DEF Inductive
<1>2. task'[r] = t /\ \A q \in Requests \ {r} : task'[q] = task[q]
  BY <1>1 DEF TypeOK
<1>3. \A q \in Requests : /\ task'[q].leads = task[q].leads
                          /\ task'[q].woken = task[q].woken
                          /\ task'[q].leader = task[q].leader
                          /\ task'[q].pc = "done" <=> task[q].pc = "done"
  BY <1>2
<1>4. TypeOK'
  <2>1. task' \in [Requests -> Task]
    BY <1>1 DEF TypeOK
  <2> QED BY <1>1, <2>1 DEF TypeOK
<1>5. Led'
  <2>1. \A k \in Keys, q \in Requests : Leads(q, k)' <=> Leads(q, k)
    BY <1>3 DEF Leads
  <2>2. \A k \in Keys : \A q \in waiters[k] :
          KeyOf[q] = k /\ task[q].leader \in Requests /\ Leads(task[q].leader, k)
        /\ q \in Requests
    BY <1>1 DEF Inductive, Led, TypeOK
  <2>3. \A k \in Keys : \A q \in waiters'[k] :
          KeyOf[q] = k /\ task'[q].leader \in Requests /\ Leads(task[q].leader, k)'
    BY <1>3, <2>1, <2>2
  <2>4. \A k \in inflight' : \E l \in Requests : Leads(l, k)'
    BY <1>1, <2>1 DEF Inductive, Led, TypeOK
  <2>5. /\ \A q \in Requests : task'[q].leads => KeyOf[q] \in inflight' /\ task'[q].pc # "done"
        /\ \A q, u \in Requests :
             task'[q].leads /\ task'[u].leads /\ KeyOf[q] = KeyOf[u] => q = u
    BY <1>3 DEF Inductive, Led
  <2>6. \A k \in Keys : \A q \in waiters'[k] : task'[q].leader = task[q].leader
    BY <1>3, <2>2
  <2> QED BY <2>3, <2>4, <2>5, <2>6 DEF Led
<1>6. ASSUME NEW q \in Requests PROVE Recorded(task'[q], rows'[q]) /\ Waited(q)'
  <2>1. CASE q = r
    <3>1. Waited(r)
      BY DEF Inductive
    <3>2. task[r].woken => /\ task[r].leader \in Requests /\ task[r].leader # r
                           /\ KeyOf[task[r].leader] = KeyOf[r]
                           /\ task'[task[r].leader].pc = "done"
      BY <1>3, <3>1 DEF Waited
    <3>3. t.stored => KeyOf[r] \in cached' \cup evicted'
      BY <3>1 DEF Waited
    <3>4. t.pc \in {"lookup", "join"} => ~t.woken /\ r \notin waiters'[KeyOf[r]]
      BY <3>1 DEF Waited
    <3>5. task'[r] = t
      BY <1>2
    <3>6. Waited(r)'
      BY <3>2, <3>3, <3>4, <3>5 DEF Waited
    <3> QED BY <2>1, <3>5, <3>6
  <2>2. CASE q # r
    <3>1. task'[q] = task[q] /\ rows'[q] = rows[q]
      BY <1>2, <2>2
    <3>2. Recorded(task[q], rows[q]) /\ Waited(q)
      BY DEF Inductive
    <3> QED BY <1>3, <3>1, <3>2 DEF Waited
  <2> QED BY <2>1, <2>2
<1>7. WaitersServed'
  <2> SUFFICES ASSUME NEW q \in Requests, task'[q].missed, KeyOf[q] \notin evicted
               PROVE  ~task'[task'[q].leader].stored
    BY DEF WaitersServed
  <2> DEFINE l == task[q].leader
  <2>1. task[q].woken
    <3>1. Waited(q)
      BY DEF Inductive
    <3> QED BY <1>2, <3>1 DEF Waited
  <2>2. l \in Requests /\ KeyOf[l] = KeyOf[q] /\ task[l].pc = "done"
    BY <2>1 DEF Inductive, Waited
  <2>3. task'[q].leader = l /\ task'[l] = task[l]
    BY <1>2, <1>3, <2>2
  <2>4. CASE task[q].missed
    BY <2>2, <2>3, <2>4 DEF Inductive, WaitersServed
  <2>5. CASE ~task[q].missed
    <3>1. KeyOf[q] \notin cached
      BY <1>2, <2>5
    <3>2. Waited(l)
      BY <2>2 DEF Inductive
    <3> QED BY <2>2, <2>3, <3>1, <3>2 DEF Waited
  <2> QED BY <2>4, <2>5
<1> QED BY <1>4, <1>5, <1>6, <1>7 DEF Inductive

\* A step that changes one request's place at most, and sends its client something.
LEMMA GoKeeps ==
  ASSUME Inductive, NEW r \in Requests, NEW pc \in Places, GoesTo(r, pc),
         task[r].pc # "done", pc \notin {"done", "lookup"},
         pc = "join" => task[r].pc = "lookup",
         pc = "recheck" => task[r].woken, task[r].stored => pc = "leave",
         UNCHANGED <<cached, inflight, waiters, evicted>>,
         beat' \in [Requests -> BeatState], out' \in [Requests -> Seq(Events)],
         rows' \in [Requests -> Nat], \A q \in Requests \ {r} : rows'[q] = rows[q],
         Recorded([task[r] EXCEPT !.pc = pc], rows'[r])
  PROVE  Inductive'
<1> DEFINE t == [task[r] EXCEPT !.pc = pc]
<1>1. task[r] \in Task /\ Waited(r) /\ cached \subseteq Keys
  BY DEF Inductive, TypeOK
<1>2. /\ t \in Task /\ t.pc = pc /\ t.leads = task[r].leads /\ t.woken = task[r].woken
      /\ t.leader = task[r].leader /\ t.missed = task[r].missed
      /\ t.stored = task[r].stored
  BY <1>1 DEF Task
<1>3. task' = [task EXCEPT ![r] = t]
  BY DEF GoesTo, Inductive, TypeOK
<1>4. task[r].missed => task[r].woken
  BY <1>1 DEF Waited
<1>5. Recorded(t, rows'[r])
  OBVIOUS
<1> HIDE DEF t
<1> QED BY <1>1, <1>2, <1>3, <1>4, <1>5, MoveKeeps

-----------------------------------------------------------------------------
(* One fact for each action. *)

LEMMA ServeKeeps ==
  ASSUME Inductive, NEW r \in Requests, Serve(r),
         task[r].pc \in {"lookup", "recheck", "semantic", "direct"},
         UNCHANGED <<cached, inflight, waiters, beat, evicted>>
  PROVE  Inductive'
<1> DEFINE t == [task[r] EXCEPT !.pc = "leave", !.got = TRUE]
<1>1. TypeOK /\ task[r] \in Task /\ Waited(r) /\ Recorded(task[r], rows[r])
  BY DEF Inductive, TypeOK
<1>2. /\ t \in Task /\ t.pc = "leave" /\ t.leads = task[r].leads /\ t.woken = task[r].woken
      /\ t.leader = task[r].leader /\ t.missed = task[r].missed /\ t.got
      /\ t.stored = task[r].stored
  BY <1>1 DEF Task, Places
<1>3. task' = [task EXCEPT ![r] = t]
  BY <1>1 DEF Serve, TypeOK
<1>4. /\ rows' \in [Requests -> Nat] /\ rows'[r] = rows[r] + 1
      /\ \A q \in Requests \ {r} : rows'[q] = rows[q]
  BY <1>1 DEF Serve, Billed, TypeOK
<1>5. out' \in [Requests -> Seq(Events)]
  BY <1>1, WholeReplyTyped, SendsTyped DEF Serve
<1>6. rows'[r] = 1
  BY <1>1, <1>4 DEF Recorded
<1>7. task[r].missed => task[r].woken
  BY <1>1 DEF Waited
<1> HIDE DEF t
<1>8. Recorded(t, rows'[r])
  BY <1>2, <1>6 DEF Recorded
<1>9. beat' \in [Requests -> BeatState] /\ cached' \subseteq Keys
  BY <1>1 DEF TypeOK
<1> QED BY <1>1, <1>2, <1>3, <1>4, <1>5, <1>7, <1>8, <1>9, MoveKeeps

\* The steps that only change a request's place.
LEMMA GoesKeep ==
  ASSUME Inductive, NEW r \in Requests,
         \/ CacheMiss(r) \/ Woken(r) \/ WaitTimesOut(r) \/ WaitCanceled(r)
         \/ SemanticMiss(r) \/ OverBudget(r) \/ Route(r) \/ GoDirect(r) \/ RunTools(r)
         \/ DirectError(r) \/ Undispatched(r)
  PROVE  Inductive'
<1>1. TypeOK /\ task[r] \in Task /\ Waited(r) /\ Recorded(task[r], rows[r])
  BY DEF Inductive, TypeOK
<1>2. /\ UNCHANGED <<cached, inflight, waiters, evicted, rows>>
      /\ task[r].pc # "done" /\ ~task[r].stored
  BY <1>1 DEF CacheMiss, Woken, WaitTimesOut, WaitCanceled, SemanticMiss, OverBudget,
              Route, GoDirect, RunTools, DirectError, Undispatched, Waited
<1>3. /\ beat' \in [Requests -> BeatState]
      /\ out' \in [Requests -> Seq(Events)]
  <2>1. CASE UNCHANGED <<beat, out>>
    BY <1>1, <2>1 DEF TypeOK
  <2>2. CASE OverBudget(r) \/ DirectError(r)
    BY <1>1, <2>2, SendsErrorTyped DEF OverBudget, DirectError, TypeOK
  <2>3. CASE Route(r)
    BY <1>1, <2>3 DEF Route, TypeOK, BeatState
  <2>4. CASE Undispatched(r)
    <3>1. beat' = [beat EXCEPT ![r] = Stopped(beat[r])]
      BY <2>4 DEF Undispatched
    <3>2. UNCHANGED out \/ SendsError(r)
      BY <2>4 DEF Undispatched
    <3> QED BY <1>1, <3>1, <3>2, StoppedTyped, SendsErrorTyped DEF TypeOK
  <2> QED BY <2>1, <2>2, <2>3, <2>4 DEF CacheMiss, Woken, WaitTimesOut, WaitCanceled,
        SemanticMiss, GoDirect, RunTools
<1>4. PICK pc \in {"join", "recheck", "semantic", "admit", "dispatch", "direct", "turn", "leave"} :
        /\ GoesTo(r, pc)
        /\ pc = "join" => task[r].pc = "lookup"
        /\ pc = "recheck" => task[r].woken
        /\ pc = "turn" => task[r].pc = "tools"
        /\ pc # "turn" => task[r].pc \in {"lookup", "wait", "semantic", "admit", "dispatch", "direct"}
  BY DEF CacheMiss, Woken, WaitTimesOut, WaitCanceled, SemanticMiss, OverBudget,
         Route, GoDirect, RunTools, DirectError, Undispatched
<1>5. [task[r] EXCEPT !.pc = pc].pc = pc /\ [task[r] EXCEPT !.pc = pc].got = task[r].got
  BY <1>1 DEF Task
<1>6. Recorded([task[r] EXCEPT !.pc = pc], rows'[r])
  BY <1>1, <1>2, <1>4, <1>5 DEF Recorded
<1>7. pc \in Places /\ rows' \in [Requests -> Nat]
  BY <1>1, <1>2 DEF Places, TypeOK
<1> QED BY <1>2, <1>3, <1>4, <1>6, <1>7, GoKeeps

\* What every lemma below needs of a request that is not done.
LEMMA Typed ==
  ASSUME Inductive, NEW r \in Requests
  PROVE  /\ TypeOK /\ task[r] \in Task /\ Waited(r) /\ Recorded(task[r], rows[r])
         /\ rows[r] \in Nat /\ cached \subseteq Keys /\ KeyOf[r] \in Keys
         /\ task[r].missed => task[r].woken
         /\ task[r].stored => task[r].pc \in {"leave", "done"}
BY ProxyAssumption DEF Inductive, TypeOK, Waited

LEMMA BilledOnceMore ==
  ASSUME TypeOK, NEW r \in Requests, Billed(r)
  PROVE  /\ rows' \in [Requests -> Nat] /\ rows'[r] = rows[r] + 1
         /\ \A q \in Requests \ {r} : rows'[q] = rows[q]
BY DEF TypeOK, Billed

\* A reply is written, or its stream is ended: the request goes on with its row.
LEMMA WritesKeep ==
  ASSUME Inductive, NEW r \in Requests,
         StreamFailed(r) \/ TurnFailed(r) \/ Write(r) \/ DirectReply(r)
  PROVE  Inductive'
<1>1. PICK pc \in {"leave", "write", "store", "upstream"} :
        /\ GoesTo(r, pc)
        /\ pc = "leave" => task[r].pc = "dispatch" /\ Billed(r)
        /\ pc = "write" => task[r].pc = "turn" /\ UNCHANGED rows
        /\ pc = "store" => task[r].pc = "write" /\ Billed(r)
        /\ pc = "upstream" => task[r].pc = "direct" /\ UNCHANGED rows
  BY DEF StreamFailed, TurnFailed, Write, DirectReply
<1>2. UNCHANGED <<cached, inflight, waiters, beat, evicted>>
  BY DEF StreamFailed, TurnFailed, Write, DirectReply
<1>3. out' \in [Requests -> Seq(Events)]
  <2>1. /\ <<"start">> \in Seq(Events) /\ <<>> \in Seq(Events)
        /\ \A event \in {"stop", "error"} : <<event>> \in Seq(Events)
    BY DEF Events
  <2>2. \A s, u \in Seq(Events) : s \o u \in Seq(Events)
    OBVIOUS
  <2>3. CASE StreamFailed(r)
    BY <2>1, <2>3, Typed, SendsTyped DEF StreamFailed
  <2>4. CASE TurnFailed(r)
    <3>1. UNCHANGED out \/ \E event \in {"stop", "error"} : Sends(r, <<event>>)
      BY <2>4 DEF TurnFailed
    <3> QED BY <2>1, <3>1, Typed, SendsTyped DEF TypeOK
  <2>5. CASE Write(r)
    <3>1. UNCHANGED out \/ Sends(r, WholeReply(r))
      BY <2>5 DEF Write
    <3> QED BY <3>1, Typed, WholeReplyTyped, SendsTyped DEF TypeOK
  <2>6. CASE DirectReply(r)
    <3>1. PICK e \in {<<"start">>, <<>>} : Sends(r, StatusLine(r) \o e)
      BY <2>6 DEF DirectReply
    <3>2. StatusLine(r) \o e \in Seq(Events)
      BY <2>1, <2>2, StatusLineTyped
    <3> QED BY <3>1, <3>2, Typed, SendsTyped
  <2> QED BY <2>3, <2>4, <2>5, <2>6
<1>4. rows' \in [Requests -> Nat] /\ \A q \in Requests \ {r} : rows'[q] = rows[q]
  <2>1. UNCHANGED rows \/ Billed(r)
    BY <1>1
  <2> QED BY <2>1, Typed, BilledOnceMore DEF TypeOK
<1>5. pc \in {"leave", "store"} => rows'[r] = 1
  BY <1>1, Typed, BilledOnceMore DEF Recorded
<1>6. pc \in {"write", "upstream"} => rows'[r] = 0
  BY <1>1, Typed DEF Recorded
<1>7. pc = "upstream" => ~task[r].got
  BY <1>1, Typed DEF Recorded
<1>8. /\ [task[r] EXCEPT !.pc = pc].pc = pc
      /\ [task[r] EXCEPT !.pc = pc].got = task[r].got
  BY Typed DEF Task
<1>9. Recorded([task[r] EXCEPT !.pc = pc], rows'[r])
  BY <1>1, <1>5, <1>6, <1>7, <1>8 DEF Recorded
<1>10. /\ pc \in Places /\ beat' \in [Requests -> BeatState]
       /\ task[r].pc # "done" /\ ~task[r].stored
  BY <1>1, <1>2, Typed DEF Places, TypeOK
<1> QED BY <1>1, <1>2, <1>3, <1>4, <1>9, <1>10, GoKeeps

LEMMA MissAgainKeeps ==
  ASSUME Inductive, NEW r \in Requests, MissAgain(r)
  PROVE  Inductive'
<1> DEFINE t == [task[r] EXCEPT !.pc = "semantic", !.missed = TRUE]
<1>1. /\ t \in Task /\ t.pc = "semantic" /\ t.leads = task[r].leads
      /\ t.woken = task[r].woken /\ t.leader = task[r].leader /\ t.got = task[r].got
      /\ t.stored = task[r].stored
  <2>1. task[r] \in Task
    BY Typed
  <2>2. t \in Task
    BY <2>1 DEF Task, Places
  <2> QED BY <2>1, <2>2 DEF Task
<1>2. /\ task' = [task EXCEPT ![r] = t] /\ task[r].pc = "recheck" /\ KeyOf[r] \notin cached
      /\ UNCHANGED <<cached, inflight, waiters, beat, out, rows, evicted>>
  BY DEF MissAgain
<1>3. task[r].woken
  BY <1>2, Typed DEF Waited
<1>4. Recorded(t, rows'[r])
  BY <1>1, <1>2, Typed DEF Recorded
<1>5. /\ beat' \in [Requests -> BeatState] /\ out' \in [Requests -> Seq(Events)]
      /\ rows' \in [Requests -> Nat] /\ cached' \subseteq Keys /\ ~task[r].stored
  BY <1>2, Typed DEF TypeOK
<1> HIDE DEF t
<1> QED BY <1>1, <1>2, <1>3, <1>4, <1>5, MoveKeeps

LEMMA CommitKeeps ==
  ASSUME Inductive, NEW r \in Requests, Commit(r)
  PROVE  Inductive'
<1> DEFINE t == [task[r] EXCEPT !.open = TRUE, !.relived = @ \/ task[r].pc = "turn"]
<1>1. /\ t \in Task /\ t.pc = task[r].pc /\ t.leads = task[r].leads
      /\ t.woken = task[r].woken /\ t.leader = task[r].leader /\ t.got = task[r].got
      /\ t.stored = task[r].stored /\ t.missed = task[r].missed
  BY Typed DEF Task
<1>2. /\ task' = [task EXCEPT ![r] = t] /\ task[r].pc \in {"dispatch", "turn"}
      /\ UNCHANGED <<cached, inflight, waiters, rows, evicted>>
      /\ beat' = [beat EXCEPT ![r] = Stopped(beat[r])]
      /\ Sends(r, StatusLine(r) \o <<"start">>)
  BY DEF Commit, Dispatching
<1>3. Recorded(t, rows'[r])
  BY <1>1, <1>2, Typed DEF Recorded
<1>4. beat' \in [Requests -> BeatState]
  BY <1>2, Typed, StoppedTyped DEF TypeOK
<1>5. out' \in [Requests -> Seq(Events)]
  <2>1. StatusLine(r) \o <<"start">> \in Seq(Events)
    BY StatusLineTyped DEF Events
  <2> QED BY <1>2, <2>1, Typed, SendsTyped
<1>6. rows' \in [Requests -> Nat] /\ cached' \subseteq Keys /\ ~task[r].stored
  BY <1>2, Typed DEF TypeOK
<1> HIDE DEF t
<1> QED BY <1>1, <1>2, <1>3, <1>4, <1>5, <1>6, Typed, MoveKeeps

LEMMA DispatchedKeeps ==
  ASSUME Inductive, NEW r \in Requests, Dispatched(r)
  PROVE  Inductive'
<1> DEFINE sent == IF task[r].pc = "dispatch" THEN task[r].open ELSE FALSE
           t == [task[r] EXCEPT !.got = TRUE, !.liveSent = sent, !.pc = "write"]
<1>1. sent \in BOOLEAN
  BY Typed DEF Task
<1>2. /\ t \in Task /\ t.pc = "write" /\ t.leads = task[r].leads
      /\ t.woken = task[r].woken /\ t.leader = task[r].leader
      /\ t.stored = task[r].stored /\ t.missed = task[r].missed /\ t.turn = task[r].turn
  <2> HIDE DEF sent
  <2>1. task[r] \in Task
    BY Typed
  <2>2. t \in Task
    BY <1>1, <2>1 DEF Task, Places
  <2> QED BY <2>1, <2>2 DEF Task
<1>3. PICK u : /\ task' = [task EXCEPT ![r] = u]
               /\ u = t \/ (t.turn < MaxTurns /\ u = NextTurn(t))
  BY <1>2 DEF Dispatched, TurnsLeft
<1>4. /\ u \in Task /\ u.pc \in {"write", "tools"} /\ u.leads = task[r].leads
      /\ u.woken = task[r].woken /\ u.leader = task[r].leader
      /\ u.stored = task[r].stored /\ u.missed = task[r].missed
  <2> HIDE DEF t
  <2>1. CASE u = t
    BY <1>2, <2>1
  <2>2. CASE t.turn < MaxTurns /\ u = NextTurn(t)
    <3> DEFINE n == t.turn + 1
    <3>1. n \in 0 .. MaxTurns
      BY <1>2, <2>2, ProxyAssumption DEF Task
    <3>2. u = [t EXCEPT !.pc = "tools", !.turn = n, !.open = FALSE]
      BY <2>2 DEF NextTurn
    <3> HIDE DEF n
    <3>3. u \in Task
      BY <1>2, <3>1, <3>2 DEF Task, Places
    <3>4. /\ u.pc = "tools" /\ u.leads = t.leads /\ u.woken = t.woken
          /\ u.leader = t.leader /\ u.stored = t.stored /\ u.missed = t.missed
      BY <1>2, <3>2 DEF Task
    <3> QED BY <1>2, <3>3, <3>4
  <2> QED BY <1>3, <2>1, <2>2
<1>5. /\ task[r].pc \in {"dispatch", "turn"}
      /\ UNCHANGED <<cached, inflight, waiters, rows, evicted>>
      /\ beat' = [beat EXCEPT ![r] = Stopped(beat[r])]
      /\ UNCHANGED out \/ Sends(r, <<"stop">>)
  BY DEF Dispatched, Dispatching
<1>6. Recorded(u, rows'[r])
  BY <1>4, <1>5, Typed DEF Recorded
<1>7. beat' \in [Requests -> BeatState]
  BY <1>5, Typed, StoppedTyped DEF TypeOK
<1>8. out' \in [Requests -> Seq(Events)]
  <2>1. <<"stop">> \in Seq(Events)
    BY DEF Events
  <2> QED BY <1>5, <2>1, Typed, SendsTyped DEF TypeOK
<1>9. rows' \in [Requests -> Nat] /\ cached' \subseteq Keys /\ ~task[r].stored
  BY <1>5, Typed DEF TypeOK
<1> HIDE DEF t
<1> QED BY <1>3, <1>4, <1>5, <1>6, <1>7, <1>8, <1>9, Typed, MoveKeeps

LEMMA StoreKeeps ==
  ASSUME Inductive, NEW r \in Requests, Store(r)
  PROVE  Inductive'
<1>1. /\ task[r].pc = "store"
      /\ UNCHANGED <<inflight, waiters, beat, out, rows, evicted>>
  BY DEF Store
<1>2. CASE GoesTo(r, "leave") /\ UNCHANGED cached
  <2>1. /\ [task[r] EXCEPT !.pc = "leave"].pc = "leave"
        /\ [task[r] EXCEPT !.pc = "leave"].got = task[r].got
    BY Typed DEF Task
  <2>2. Recorded([task[r] EXCEPT !.pc = "leave"], rows'[r])
    BY <1>1, <2>1, Typed DEF Recorded
  <2>3. /\ "leave" \in Places /\ beat' \in [Requests -> BeatState]
        /\ out' \in [Requests -> Seq(Events)] /\ rows' \in [Requests -> Nat]
    BY <1>1, Typed DEF Places, TypeOK
  <2> QED BY <1>1, <1>2, <2>2, <2>3, GoKeeps
<1>3. CASE /\ cached' = CachedWith(KeyOf[r])
           /\ task' = [task EXCEPT ![r].pc = "leave", ![r].stored = TRUE]
  <2> DEFINE t == [task[r] EXCEPT !.pc = "leave", !.stored = TRUE]
  <2>1. /\ t \in Task /\ t.pc = "leave" /\ t.leads = task[r].leads
        /\ t.woken = task[r].woken /\ t.leader = task[r].leader /\ t.got = task[r].got
        /\ t.missed = task[r].missed
    BY Typed DEF Task, Places
  <2>2. task' = [task EXCEPT ![r] = t]
    BY <1>3
  <2>3. cached \subseteq cached' /\ cached' \subseteq Keys /\ KeyOf[r] \in cached'
    BY <1>3, Typed DEF CachedWith
  <2>4. Recorded(t, rows'[r])
    BY <1>1, <2>1, Typed DEF Recorded
  <2>5. /\ beat' \in [Requests -> BeatState]
        /\ out' \in [Requests -> Seq(Events)] /\ rows' \in [Requests -> Nat]
    BY <1>1, Typed DEF TypeOK
  <2> HIDE DEF t
  <2> QED BY <1>1, <2>1, <2>2, <2>3, <2>4, <2>5, Typed, MoveKeeps
<1> QED BY <1>2, <1>3 DEF Store

LEMMA DirectKeeps ==
  ASSUME Inductive, NEW r \in Requests, DirectWhole(r) \/ DirectBroken(r)
  PROVE  Inductive'
<1> DEFINE w == [task[r] EXCEPT !.pc = "store", !.got = TRUE]
           b == [task[r] EXCEPT !.pc = "leave", !.broken = TRUE]
<1>1. /\ task[r].pc = "upstream" /\ UNCHANGED <<cached, inflight, waiters, beat, evicted>>
  BY DEF DirectWhole, DirectBroken
<1>2. rows[r] = 0 /\ ~task[r].got /\ ~task[r].stored
  BY <1>1, Typed DEF Recorded
<1>3. beat' \in [Requests -> BeatState] /\ cached' \subseteq Keys
  BY <1>1, Typed DEF TypeOK
<1>4. CASE DirectWhole(r)
  <2>1. /\ w \in Task /\ w.pc = "store" /\ w.leads = task[r].leads
        /\ w.woken = task[r].woken /\ w.leader = task[r].leader
        /\ w.stored = task[r].stored /\ w.missed = task[r].missed
    BY Typed DEF Task, Places
  <2>2. task' = [task EXCEPT ![r] = w] /\ Billed(r)
    BY <1>4 DEF DirectWhole
  <2>3. out' \in [Requests -> Seq(Events)]
    <3>1. <<"stop">> \in Seq(Events) /\ <<"body">> \in Seq(Events)
      BY DEF Events
    <3> QED BY <1>4, <3>1, Typed, SendsTyped DEF DirectWhole
  <2>4. /\ rows' \in [Requests -> Nat] /\ rows'[r] = 1
        /\ \A q \in Requests \ {r} : rows'[q] = rows[q]
    BY <1>2, <2>2, Typed, BilledOnceMore
  <2>5. Recorded(w, rows'[r])
    BY <2>1, <2>4 DEF Recorded
  <2> HIDE DEF w
  <2> QED BY <1>1, <1>2, <1>3, <2>1, <2>2, <2>3, <2>4, <2>5, Typed, MoveKeeps
<1>5. CASE DirectBroken(r)
  <2>1. /\ b \in Task /\ b.pc = "leave" /\ b.leads = task[r].leads
        /\ b.woken = task[r].woken /\ b.leader = task[r].leader /\ b.got = task[r].got
        /\ b.stored = task[r].stored /\ b.missed = task[r].missed
    BY Typed DEF Task, Places
  <2>2. task' = [task EXCEPT ![r] = b] /\ UNCHANGED <<out, rows>>
    BY <1>5 DEF DirectBroken
  <2>3. Recorded(b, rows'[r])
    BY <1>2, <2>1, <2>2 DEF Recorded
  <2>4. out' \in [Requests -> Seq(Events)] /\ rows' \in [Requests -> Nat]
    BY <2>2, Typed DEF TypeOK
  <2> HIDE DEF b
  <2> QED BY <1>1, <1>2, <1>3, <2>1, <2>2, <2>3, <2>4, Typed, MoveKeeps
<1> QED BY <1>4, <1>5

LEMMA CancelKeeps ==
  ASSUME Inductive, NEW r \in Requests, Cancel(r)
  PROVE  Inductive'
<1> DEFINE t == [task[r] EXCEPT !.gone = TRUE]
<1>1. /\ t \in Task /\ t.pc = task[r].pc /\ t.leads = task[r].leads
      /\ t.woken = task[r].woken /\ t.leader = task[r].leader /\ t.got = task[r].got
      /\ t.stored = task[r].stored /\ t.missed = task[r].missed
  BY Typed DEF Task
<1>2. /\ task' = [task EXCEPT ![r] = t] /\ task[r].pc # "done"
      /\ UNCHANGED <<cached, inflight, waiters, beat, out, rows, evicted>>
  BY DEF Cancel
<1>3. Recorded(t, rows'[r])
  BY <1>1, <1>2, Typed DEF Recorded
<1>4. /\ beat' \in [Requests -> BeatState] /\ out' \in [Requests -> Seq(Events)]
      /\ rows' \in [Requests -> Nat] /\ cached' \subseteq Keys
  BY <1>2, Typed DEF TypeOK
<1>5. t.pc = "recheck" => t.woken
  BY <1>1, Typed DEF Waited
<1> HIDE DEF t
<1> QED BY <1>1, <1>2, <1>3, <1>4, <1>5, Typed, MoveKeeps

\* Neither the keep-alive goroutine nor the cache's own ways change a request.
LEMMA BesideKeeps ==
  ASSUME Inductive,
         \/ \E r \in Requests : KeepAlive(r)
         \/ \E k \in Keys : Evict(k)
  PROVE  Inductive'
<1>1. TypeOK
  BY DEF Inductive
<1>2. UNCHANGED <<inflight, waiters, task, rows>>
  BY DEF KeepAlive, Evict
<1>3. /\ cached' \cup evicted' = cached \cup evicted /\ evicted \subseteq evicted'
      /\ cached' \subseteq Keys /\ evicted' \subseteq Keys
  BY <1>1 DEF KeepAlive, Evict, TypeOK
<1>4. beat' \in [Requests -> BeatState] /\ out' \in [Requests -> Seq(Events)]
  <2>1. ASSUME NEW r \in Requests, KeepAlive(r)
        PROVE  beat' \in [Requests -> BeatState] /\ out' \in [Requests -> Seq(Events)]
    <3>1. <<"comment">> \in Seq(Events) /\ <<"head", "comment">> \in Seq(Events)
      BY DEF Events
    <3>2. UNCHANGED out \/ \E e \in {<<"comment">>, <<"head", "comment">>} : Sends(r, e)
      BY <2>1 DEF KeepAlive
    <3>3. beat' \in [Requests -> BeatState]
      BY <1>1, <2>1 DEF KeepAlive, TypeOK, BeatState
    <3> QED BY <1>1, <3>1, <3>2, <3>3, SendsTyped DEF TypeOK
  <2> QED BY <1>1, <2>1 DEF Evict, TypeOK
<1>5. TypeOK'
  BY <1>1, <1>2, <1>3, <1>4 DEF TypeOK
<1>6. Led'
  BY <1>2 DEF Inductive, Led, Leads
<1>7. WaitersServed'
  BY <1>2, <1>3 DEF Inductive, WaitersServed
<1>8. \A r \in Requests : Recorded(task'[r], rows'[r]) /\ Waited(r)'
  BY <1>2, <1>3 DEF Inductive, Waited
<1> QED BY <1>5, <1>6, <1>7, <1>8 DEF Inductive

-----------------------------------------------------------------------------
(* Leading, waiting and releasing *)

LEMMA LeadKeeps ==
  ASSUME Inductive, NEW r \in Requests, Lead(r)
  PROVE  Inductive'
<1> DEFINE t == [task[r] EXCEPT !.pc = "semantic", !.leads = TRUE]
           k == KeyOf[r]
<1>1. /\ t \in Task /\ t.pc = "semantic" /\ t.leads /\ t.woken = task[r].woken
      /\ t.leader = task[r].leader /\ t.got = task[r].got
      /\ t.stored = task[r].stored /\ t.missed = task[r].missed
  BY Typed DEF Task, Places
<1>2. /\ task' = [task EXCEPT ![r] = t] /\ task[r].pc = "join" /\ k \notin inflight
      /\ inflight' = inflight \cup {k}
      /\ UNCHANGED <<cached, waiters, beat, out, rows, evicted>>
  BY DEF Lead
<1> HIDE DEF t
<1>3. task'[r] = t /\ \A q \in Requests \ {r} : task'[q] = task[q]
  BY <1>2, Typed DEF TypeOK
<1>4. k \in Keys
  BY Typed
<1>5. TypeOK'
  BY <1>1, <1>2, <1>4, Typed DEF TypeOK
<1>6. \A q \in Requests : task[q].leads => KeyOf[q] # k
  BY <1>2 DEF Inductive, Led
<1>7. Led'
  <2>1. \A q \in Requests : task'[q].leads => KeyOf[q] \in inflight' /\ task'[q].pc # "done"
    BY <1>1, <1>2, <1>3 DEF Inductive, Led
  <2>2. \A q, u \in Requests :
          task'[q].leads /\ task'[u].leads /\ KeyOf[q] = KeyOf[u] => q = u
    BY <1>3, <1>6 DEF Inductive, Led
  <2>3. \A i \in Keys, q \in Requests : Leads(q, i) => Leads(q, i)'
    BY <1>1, <1>3 DEF Leads
  <2>4. ASSUME NEW i \in inflight' PROVE \E l \in Requests : Leads(l, i)'
    <3>1. CASE i = k
      BY <1>1, <1>3, <3>1 DEF Leads
    <3>2. CASE i \in inflight
      BY <2>3, <3>2, Typed DEF Inductive, Led, TypeOK
    <3> QED BY <1>2, <3>1, <3>2
  <2>5. \A q \in Requests : task'[q].leader = task[q].leader
    BY <1>1, <1>3
  <2>6. ASSUME NEW i \in Keys, NEW q \in waiters'[i]
        PROVE  /\ KeyOf[q] = i /\ task'[q].leader \in Requests
               /\ task'[task'[q].leader].leads /\ KeyOf[task'[q].leader] = i
    <3>1. q \in Requests /\ q \in waiters[i]
      BY <1>2, Typed DEF TypeOK
    <3>2. KeyOf[q] = i /\ task[q].leader \in Requests /\ Leads(task[q].leader, i)
      BY <3>1 DEF Inductive, Led
    <3> QED BY <1>1, <1>3, <2>5, <3>1, <3>2 DEF Leads
  <2> QED BY <2>1, <2>2, <2>4, <2>6 DEF Led, Leads
<1>8. ASSUME NEW q \in Requests
      PROVE  /\ Recorded(task'[q], rows'[q]) /\ Waited(q)'
             /\ task'[q].missed /\ KeyOf[q] \notin evicted => ~task'[task'[q].leader].stored
  <2>1. /\ Waited(q) /\ Recorded(task[q], rows[q])
        /\ task[q].missed /\ KeyOf[q] \notin evicted => ~task[task[q].leader].stored
    BY DEF Inductive, WaitersServed
  <2>2. task[q].woken => task[q].leader \in Requests \ {r}
    BY <1>2, <2>1 DEF Waited
  <2>3. task'[q].missed => task[q].woken
    BY <1>1, <1>3, Typed
  <2>4. Recorded(task'[q], rows'[q])
    BY <1>1, <1>2, <1>3, <2>1 DEF Recorded
  <2>5. Waited(q)'
    BY <1>1, <1>2, <1>3, <2>1, <2>2 DEF Waited
  <2>6. task'[q].leader = task[q].leader /\ task'[q].missed = task[q].missed
    BY <1>1, <1>3
  <2> QED BY <1>3, <2>1, <2>2, <2>3, <2>4, <2>5, <2>6
<1> QED BY <1>2, <1>5, <1>7, <1>8 DEF Inductive, WaitersServed

LEMMA FollowKeeps ==
  ASSUME Inductive, NEW r \in Requests, Follow(r)
  PROVE  Inductive'
<1> DEFINE k == KeyOf[r]
           m == CHOOSE l \in Requests : Leads(l, k)
           t == [task[r] EXCEPT !.pc = "wait", !.leader = m]
<1>A. task' = [task EXCEPT ![r].pc = "wait", ![r].leader = m]
  BY DEF Follow
<1>1. /\ task[r].pc = "join" /\ k \in inflight
      /\ waiters' = [waiters EXCEPT ![k] = waiters[k] \cup {r}]
      /\ UNCHANGED <<cached, inflight, beat, out, rows, evicted>>
  BY DEF Follow
<1>2. m \in Requests /\ Leads(m, k)
  <2>1. \E l \in Requests : Leads(l, k)
    BY <1>1 DEF Inductive, Led
  <2> QED BY <2>1
<1> HIDE DEF m
<1>B. task' = [task EXCEPT ![r] = t]
  BY <1>A
<1>3. /\ t \in Task /\ t.pc = "wait" /\ t.leads = task[r].leads /\ t.woken = task[r].woken
      /\ t.leader = m /\ t.got = task[r].got
      /\ t.stored = task[r].stored /\ t.missed = task[r].missed
  <2>1. task[r] \in Task
    BY Typed
  <2>2. t \in Task
    BY <1>2, <2>1 DEF Task, Places
  <2> QED BY <2>1, <2>2 DEF Task
<1> HIDE DEF t
<1>4. task'[r] = t /\ \A q \in Requests \ {r} : task'[q] = task[q]
  BY <1>B, Typed DEF TypeOK
<1>5. k \in Keys /\ ~task[r].woken /\ ~task[r].missed /\ ~task[r].stored
  BY <1>1, Typed DEF Waited
<1>6. TypeOK'
  BY <1>1, <1>B, <1>3, <1>5, Typed DEF TypeOK
<1>7. \A q \in Requests, i \in Keys : Leads(q, i)' <=> Leads(q, i)
  BY <1>3, <1>4 DEF Leads
<1>8. Led'
  <2>1. /\ \A q \in Requests : task'[q].leads => KeyOf[q] \in inflight' /\ task'[q].pc # "done"
        /\ \A q, u \in Requests :
             task'[q].leads /\ task'[u].leads /\ KeyOf[q] = KeyOf[u] => q = u
    BY <1>1, <1>3, <1>4 DEF Inductive, Led
  <2>2. \A i \in inflight' : \E l \in Requests : Leads(l, i)'
    BY <1>1, <1>7, Typed DEF Inductive, Led, TypeOK
  <2>3. ASSUME NEW i \in Keys, NEW q \in waiters'[i]
        PROVE  /\ KeyOf[q] = i /\ task'[q].leader \in Requests
               /\ task'[task'[q].leader].leads /\ KeyOf[task'[q].leader] = i
    <3>1. CASE q = r
      <4>1. i = k
        <5>1. i # k => r \in waiters[i]
          BY <1>1, <3>1, Typed DEF TypeOK
        <5> QED BY <5>1 DEF Inductive, Led
      <4>2. task'[m].leads /\ KeyOf[m] = k
        BY <1>2, <1>3, <1>4 DEF Leads
      <4> QED BY <1>2, <1>3, <1>4, <3>1, <4>1, <4>2
    <3>2. CASE q # r
      <4>1. q \in Requests /\ q \in waiters[i]
        BY <1>1, <3>2, Typed DEF TypeOK
      <4>2. KeyOf[q] = i /\ task[q].leader \in Requests /\ Leads(task[q].leader, i)
        BY <4>1 DEF Inductive, Led
      <4> QED BY <1>3, <1>4, <3>2, <4>1, <4>2 DEF Leads
    <3> QED BY <3>1, <3>2
  <2> QED BY <2>1, <2>2, <2>3 DEF Led, Leads
<1>9. ASSUME NEW q \in Requests
      PROVE  /\ Recorded(task'[q], rows'[q]) /\ Waited(q)'
             /\ task'[q].missed /\ KeyOf[q] \notin evicted => ~task'[task'[q].leader].stored
  <2>1. /\ Waited(q) /\ Recorded(task[q], rows[q])
        /\ task[q].missed /\ KeyOf[q] \notin evicted => ~task[task[q].leader].stored
        /\ task[q].missed => task[q].woken
    BY Typed DEF Inductive, WaitersServed
  <2>2. task[q].woken => task[q].leader \in Requests \ {r}
    BY <1>1, <2>1 DEF Waited
  <2>3. CASE q = r
    BY <1>1, <1>3, <1>4, <1>5, <2>1, <2>3 DEF Waited, Recorded
  <2>4. CASE q # r
    BY <1>1, <1>4, <2>1, <2>2, <2>4 DEF Waited
  <2> QED BY <2>3, <2>4
<1> QED BY <1>1, <1>6, <1>8, <1>9 DEF Inductive, WaitersServed

LEMMA LeaveKeeps ==
  ASSUME Inductive, NEW r \in Requests, Leave(r)
  PROVE  Inductive'
<1> DEFINE k == KeyOf[r]
           t == [task[r] EXCEPT !.pc = "done", !.leads = FALSE]
           freed == IF task[r].leads THEN waiters[k] ELSE {}
<1>1. /\ task[r].pc = "leave" /\ beat' = [beat EXCEPT ![r] = Stopped(beat[r])]
      /\ UNCHANGED <<cached, out, rows, evicted>>
  BY DEF Leave
<1>2. /\ t \in Task /\ t.pc = "done" /\ ~t.leads /\ t.woken = task[r].woken
      /\ t.leader = task[r].leader /\ t.got = task[r].got
      /\ t.stored = task[r].stored /\ t.missed = task[r].missed
  <2>1. task[r] \in Task
    BY Typed
  <2>2. t \in Task
    BY <2>1 DEF Task, Places
  <2> QED BY <2>1, <2>2 DEF Task
<1>3. /\ inflight' = IF task[r].leads THEN inflight \ {k} ELSE inflight
      /\ waiters' = IF task[r].leads THEN [waiters EXCEPT ![k] = {}] ELSE waiters
  BY DEF Leave
<1>4. \A q \in Requests : task'[q] = IF q \in freed
        THEN [[task EXCEPT ![r] = t][q] EXCEPT !.woken = TRUE] ELSE [task EXCEPT ![r] = t][q]
  <2> DEFINE left == [task EXCEPT ![r] = t]
  <2>1. left \in [Requests -> Task]
    BY <1>2, Typed DEF TypeOK
  <2>2. task' = IF task[r].leads THEN Released(k, left) ELSE left
    BY DEF Leave
  <2> HIDE DEF left, t
  <2>3. CASE task[r].leads
    <3>1. \A q \in Requests :
            task'[q] = [left[q] EXCEPT !.woken = left[q].woken \/ q \in waiters[k]]
      BY <2>2, <2>3 DEF Released
    <3>2. ASSUME NEW q \in Requests \ freed PROVE task'[q] = left[q]
      <4> DEFINE x == left[q]
      <4>1. x \in Task
        BY <2>1
      <4>2. q \notin waiters[k]
        BY <2>3, <3>2
      <4>3. task'[q] = [x EXCEPT !.woken = x.woken \/ q \in waiters[k]]
        BY <3>1
      <4> HIDE DEF x
      <4>4. (x.woken \/ q \in waiters[k]) = x.woken
        BY <4>1, <4>2 DEF Task
      <4>5. task'[q] = [x EXCEPT !.woken = x.woken]
        BY <4>3, <4>4
      <4>6. task'[q] = x
        BY <4>1, <4>5 DEF Task
      <4> QED BY <4>6 DEF x
    <3>3. ASSUME NEW q \in Requests, q \in freed
          PROVE  task'[q] = [left[q] EXCEPT !.woken = TRUE]
      <4>1. (left[q].woken \/ q \in waiters[k]) = TRUE
        BY <2>3, <3>3
      <4> QED BY <3>1, <4>1
    <3> QED BY <3>2, <3>3 DEF left
  <2>4. CASE ~task[r].leads
    BY <2>2, <2>4 DEF left
  <2> QED BY <2>3, <2>4
<1> HIDE DEF t
<1>5. ASSUME NEW q \in Requests
      PROVE  /\ task'[q] \in Task
             /\ task'[q].pc = (IF q = r THEN "done" ELSE task[q].pc)
             /\ task'[q].leads <=> task[q].leads /\ q # r
             /\ task'[q].woken <=> task[q].woken \/ q \in freed
             /\ task'[q].leader = task[q].leader /\ task'[q].got = task[q].got
             /\ task'[q].stored = task[q].stored /\ task'[q].missed = task[q].missed
  <2> DEFINE x == [task EXCEPT ![r] = t][q]
  <2>1. /\ x \in Task /\ x.pc = (IF q = r THEN "done" ELSE task[q].pc)
        /\ x.leads <=> task[q].leads /\ q # r
        /\ x.woken = task[q].woken
        /\ x.leader = task[q].leader /\ x.got = task[q].got
        /\ x.stored = task[q].stored /\ x.missed = task[q].missed
    BY <1>2, Typed DEF TypeOK
  <2>2. task'[q] = IF q \in freed THEN [x EXCEPT !.woken = TRUE] ELSE x
    BY <1>4
  <2> HIDE DEF x, freed
  <2>3. CASE q \in freed
    <3>1. task'[q] = [x EXCEPT !.woken = TRUE]
      BY <2>2, <2>3
    <3>2. /\ task'[q] \in Task /\ task'[q].pc = x.pc /\ task'[q].leads = x.leads
          /\ task'[q].woken /\ task'[q].leader = x.leader /\ task'[q].got = x.got
          /\ task'[q].stored = x.stored /\ task'[q].missed = x.missed
      BY <2>1, <3>1 DEF Task
    <3> QED BY <2>1, <2>3, <3>2
  <2>4. CASE q \notin freed
    BY <2>1, <2>2, <2>4
  <2> QED BY <2>3, <2>4
<1>6. ASSUME NEW q \in freed
      PROVE  q \in Requests /\ KeyOf[q] = k /\ task[q].leader = r
  <2>1. task[r].leads /\ q \in waiters[k] /\ k \in Keys
    BY Typed
  <2>2. q \in Requests /\ KeyOf[q] = k /\ task[q].leader \in Requests
        /\ Leads(task[q].leader, k)
    BY <2>1, Typed DEF Inductive, Led, TypeOK
  <2> QED BY <2>1, <2>2 DEF Inductive, Led, Leads
<1>7. TypeOK'
  <2>1. task' \in [Requests -> Task]
    <3>1. \E f : task' = [q \in Requests |-> f[q]]
      <4>1. CASE task[r].leads
        BY <4>1 DEF Leave, Released
      <4>2. CASE ~task[r].leads
        BY <4>2, Typed DEF Leave, TypeOK
      <4> QED BY <4>1, <4>2
    <3> QED BY <1>5, <3>1
  <2>2. beat' \in [Requests -> BeatState]
    BY <1>1, Typed, StoppedTyped DEF TypeOK
  <2>3. waiters' \in [Keys -> SUBSET Requests] /\ inflight' \subseteq Keys
    BY <1>3, Typed DEF TypeOK
  <2> QED BY <1>1, <2>1, <2>2, <2>3, Typed DEF TypeOK
<1>8. \A q \in Requests, i \in Keys : Leads(q, i)' <=> Leads(q, i) /\ q # r
  BY <1>5 DEF Leads
<1>9. Led'
  <2>1. ASSUME NEW q \in Requests, task'[q].leads
        PROVE  KeyOf[q] \in inflight' /\ task'[q].pc # "done"
    <3>1. task[q].leads /\ q # r
      BY <1>5, <2>1
    <3>2. KeyOf[q] \in inflight /\ task[q].pc # "done"
      BY <3>1 DEF Inductive, Led
    <3>3. task[r].leads => KeyOf[q] # k
      BY <3>1 DEF Inductive, Led
    <3> QED BY <1>3, <1>5, <3>1, <3>2, <3>3
  <2>2. \A q, u \in Requests :
          task'[q].leads /\ task'[u].leads /\ KeyOf[q] = KeyOf[u] => q = u
    BY <1>5 DEF Inductive, Led
  <2>3. ASSUME NEW i \in inflight' PROVE \E l \in Requests : Leads(l, i)'
    <3>1. i \in inflight /\ i \in Keys /\ (task[r].leads => i # k)
      BY <1>3, Typed DEF TypeOK
    <3>2. PICK l \in Requests : Leads(l, i)
      BY <3>1 DEF Inductive, Led
    <3>3. l # r
      BY <3>1, <3>2 DEF Leads
    <3> QED BY <1>8, <3>1, <3>2, <3>3
  <2>4. ASSUME NEW i \in Keys, NEW q \in waiters'[i]
        PROVE  /\ KeyOf[q] = i /\ task'[q].leader \in Requests
               /\ task'[task'[q].leader].leads /\ KeyOf[task'[q].leader] = i
    <3>1. q \in waiters[i] /\ q \in Requests /\ (task[r].leads => i # k)
      BY <1>3, Typed DEF TypeOK
    <3>2. KeyOf[q] = i /\ task[q].leader \in Requests /\ Leads(task[q].leader, i)
      BY <3>1 DEF Inductive, Led
    <3>3. task[q].leader # r
      BY <3>1, <3>2 DEF Leads
    <3> QED BY <1>5, <3>1, <3>2, <3>3 DEF Leads
  <2> QED BY <2>1, <2>2, <2>3, <2>4 DEF Led, Leads
<1>10. ASSUME NEW q \in Requests
       PROVE  /\ Recorded(task'[q], rows'[q]) /\ Waited(q)'
              /\ task'[q].missed /\ KeyOf[q] \notin evicted => ~task'[task'[q].leader].stored
  <2>1. /\ Waited(q) /\ Recorded(task[q], rows[q])
        /\ task[q].missed /\ KeyOf[q] \notin evicted => ~task[task[q].leader].stored
        /\ task[q].missed => task[q].woken
    BY Typed DEF Inductive, WaitersServed
  <2>2. Recorded(task'[q], rows'[q])
    BY <1>1, <1>5, <2>1 DEF Recorded
  <2>3. task'[q].pc \in {"lookup", "join"} =>
          ~task'[q].woken /\ q \notin waiters'[KeyOf[q]]
    <3> SUFFICES ASSUME task'[q].pc \in {"lookup", "join"}
                 PROVE  ~task'[q].woken /\ q \notin waiters'[KeyOf[q]]
      OBVIOUS
    <3>1. q # r /\ ~task[q].woken /\ q \notin waiters[KeyOf[q]]
      BY <1>5, <2>1 DEF Waited
    <3>2. q \notin freed
      BY <1>6, <3>1
    <3>3. waiters'[KeyOf[q]] \subseteq waiters[KeyOf[q]]
      BY <1>3, Typed DEF TypeOK
    <3> QED BY <1>5, <3>1, <3>2, <3>3
  <2>4. task'[q].pc = "recheck" \/ task'[q].missed => task'[q].woken
    BY <1>5, <2>1 DEF Waited
  <2>5. task'[q].woken => /\ task'[q].leader \in Requests
                          /\ KeyOf[task'[q].leader] = KeyOf[q]
                          /\ task'[task'[q].leader].pc = "done"
    <3>1. CASE task[q].woken
      BY <1>5, <2>1, <3>1 DEF Waited
    <3>2. CASE q \in freed
      BY <1>5, <1>6, <3>2
    <3> QED BY <1>5, <3>1, <3>2
  <2>6. task'[q].stored =>
          task'[q].pc \in {"leave", "done"} /\ KeyOf[q] \in cached' \cup evicted'
    BY <1>1, <1>5, <2>1 DEF Waited
  <2>7. Waited(q)'
    BY <2>3, <2>4, <2>5, <2>6 DEF Waited
  <2>8. task[q].missed => task[q].leader \in Requests
    BY <2>1 DEF Waited
  <2> QED BY <1>5, <2>1, <2>2, <2>7, <2>8
<1> QED BY <1>1, <1>7, <1>9, <1>10 DEF Inductive, WaitersServed

-----------------------------------------------------------------------------
(* The inductive invariant. *)

LEMMA InitInductive == Init => Inductive
<1> SUFFICES ASSUME Init PROVE Inductive
  OBVIOUS
<1>1. ASSUME NEW r \in Requests
      PROVE  /\ task[r] \in Task /\ task[r].pc \in {"lookup", "admit"}
             /\ ~task[r].leads /\ ~task[r].woken /\ ~task[r].missed /\ ~task[r].stored
             /\ ~task[r].got
  BY ProxyAssumption DEF Init, Task, Places
<1>2. TypeOK
  <2>1. task \in [Requests -> Task]
    BY <1>1 DEF Init
  <2>2. out \in [Requests -> Seq(Events)] /\ beat \in [Requests -> BeatState]
    BY DEF Init, BeatState
  <2> QED BY <2>1, <2>2 DEF Init, TypeOK
<1>3. Led
  BY <1>1 DEF Init, Led
<1>4. \A r \in Requests : Recorded(task[r], rows[r]) /\ Waited(r)
  <2>1. \A r \in Requests : rows[r] = 0 /\ waiters[KeyOf[r]] = {}
    BY ProxyAssumption DEF Init
  <2> QED BY <1>1, <2>1 DEF Recorded, Waited
<1>5. WaitersServed
  BY <1>1 DEF WaitersServed
<1> QED BY <1>2, <1>3, <1>4, <1>5 DEF Inductive

LEMMA StepInductive == Inductive /\ [Next]_vars => Inductive'
<1> SUFFICES ASSUME Inductive, [Next]_vars PROVE Inductive'
  OBVIOUS
<1>1. ASSUME NEW r \in Requests, Step(r) PROVE Inductive'
  <2>1. CASE \/ CacheMiss(r) \/ Woken(r) \/ WaitTimesOut(r) \/ WaitCanceled(r)
             \/ SemanticMiss(r) \/ OverBudget(r) \/ Route(r) \/ GoDirect(r)
             \/ RunTools(r) \/ DirectError(r) \/ Undispatched(r)
    BY <2>1, GoesKeep
  <2>2. CASE CacheHit(r) \/ SemanticHit(r) \/ EmergencyFailover(r)
    BY <2>2, ServeKeeps DEF CacheHit, SemanticHit, EmergencyFailover
  <2>3. CASE StreamFailed(r) \/ TurnFailed(r) \/ Write(r) \/ DirectReply(r)
    BY <2>3, WritesKeep
  <2>4. CASE \/ MissAgain(r) \/ Commit(r) \/ Dispatched(r) \/ Store(r)
             \/ DirectWhole(r) \/ DirectBroken(r)
    BY <2>4, MissAgainKeeps, CommitKeeps, DispatchedKeeps, StoreKeeps, DirectKeeps
  <2>5. CASE Lead(r) \/ Follow(r) \/ Leave(r)
    BY <2>5, LeadKeeps, FollowKeeps, LeaveKeeps
  <2> QED BY <1>1, <2>1, <2>2, <2>3, <2>4, <2>5 DEF Step
<1>2. CASE UNCHANGED vars
  BY <1>2 DEF vars, Inductive, TypeOK, Led, Leads, WaitersServed, Recorded, Waited
<1> QED BY <1>1, <1>2, CancelKeeps, BesideKeeps DEF Next

LEMMA AlwaysInductive == Spec => []Inductive
BY InitInductive, StepInductive, PTL DEF Spec

\* The cache, the coalescer, the requests and what their clients receive keep their
\* types, for any number of requests, hashes and in-proxy turns.
THEOREM TypeCorrect == Spec => []TypeOK
<1>1. Inductive => TypeOK
  BY DEF Inductive
<1> QED BY <1>1, AlwaysInductive, PTL

\* A waiter that is told its leader is done misses again only if the leader cached
\* nothing, or its entry has left the cache since (coalesce.go, proxyToTarget).
THEOREM WaitersFindTheReply == Spec => []WaitersServed
<1>1. Inductive => WaitersServed
  BY DEF Inductive
<1> QED BY <1>1, AlwaysInductive, PTL

\* A request never has a second row in the ledger, and has one once it is over with a
\* whole reply (the calls of recordLog in proxy.go).
THEOREM RowsAreSingle == Spec => []BilledOnce
<1>1. Inductive => BilledOnce
  <2> SUFFICES ASSUME Inductive, NEW r \in Requests
               PROVE  rows[r] <= 1 /\ (task[r].pc = "done" /\ task[r].got => rows[r] = 1)
    BY DEF BilledOnce
  <2> QED BY Typed DEF Recorded, Task, Places
<1> QED BY <1>1, AlwaysInductive, PTL

-----------------------------------------------------------------------------
(* What a client hears. *)

LEMMA EventsConcat ==
  ASSUME NEW s \in Seq(Events), NEW u \in Seq(Events)
  PROVE  /\ s \o u \in Seq(Events)
         /\ Len(s \o u) = Len(s) + Len(u)
         /\ \A i \in 1 .. Len(s) + Len(u) :
              (s \o u)[i] = IF i <= Len(s) THEN s[i] ELSE u[i - Len(s)]
BY ConcatProperties

LEMMA PairOfEvents ==
  ASSUME NEW a \in Events, NEW b \in Events
  PROVE  <<a>> \o <<b>> = <<a, b>>
<1> DEFINE x == <<a>>
           y == <<b>>
           z == <<a, b>>
<1>1. /\ x \in Seq(Events) /\ Len(x) = 1 /\ x[1] = a
      /\ y \in Seq(Events) /\ Len(y) = 1 /\ y[1] = b
      /\ z \in Seq(Events) /\ Len(z) = 2 /\ z[1] = a /\ z[2] = b
  OBVIOUS
<1> HIDE DEF x, y, z
<1>2. x \o y \in Seq(Events) /\ Len(x \o y) = 2 /\ (x \o y)[1] = a /\ (x \o y)[2] = b
<2>1. /\ x \o y \in Seq(Events) /\ Len(x \o y) = Len(x) + Len(y)
      /\ \A i \in 1 .. Len(x) + Len(y) :
           (x \o y)[i] = IF i <= Len(x) THEN x[i] ELSE y[i - Len(x)]
  BY <1>1, EventsConcat
<2> QED BY <1>1, <2>1
<1>3. \A i \in 1 .. 2 : (x \o y)[i] = z[i]
  BY <1>1, <1>2
<1>4. x \o y = z
  BY <1>1, <1>2, <1>3, SeqEqual
<1> QED BY <1>4 DEF x, y, z

LEMMA CommentsTyped ==
  ASSUME NEW n \in Nat
  PROVE  /\ Comments(n) \in Seq(Events) /\ Len(Comments(n)) = n
         /\ \A i \in 1 .. n : Comments(n)[i] = "comment"
BY IsASeq, LenProperties DEF Comments, Events

LEMMA CommentsGrow ==
  /\ Comments(0) = <<>>
  /\ \A n \in Nat : Comments(n) \o <<"comment">> = Comments(n + 1)
<1>1. Comments(0) = <<>>
  BY CommentsTyped, EmptySeq
<1>2. ASSUME NEW n \in Nat
      PROVE  Comments(n) \o <<"comment">> = Comments(n + 1)
<2> DEFINE one == <<"comment">>
           more == Comments(n) \o one
<2>1. one \in Seq(Events) /\ Len(one) = 1 /\ one[1] = "comment"
  BY DEF Events
<2>2. Comments(n) \in Seq(Events) /\ Len(Comments(n)) = n
  BY CommentsTyped
<2>3. Comments(n + 1) \in Seq(Events) /\ Len(Comments(n + 1)) = n + 1
  BY CommentsTyped
<2> HIDE DEF one
<2>0. 1 + n = n + 1 /\ n + 1 \in Nat
  OBVIOUS
<2>7. /\ more \in Seq(Events) /\ Len(more) = Len(Comments(n)) + Len(one)
      /\ \A i \in 1 .. Len(Comments(n)) + Len(one) :
           more[i] = IF i <= Len(Comments(n)) THEN Comments(n)[i]
                     ELSE one[i - Len(Comments(n))]
  BY <2>1, <2>2, ConcatProperties
<2>4. /\ more \in Seq(Events) /\ Len(more) = n + 1
      /\ \A i \in 1 .. n + 1 : more[i] = IF i <= n THEN Comments(n)[i] ELSE one[i - n]
  BY <2>1, <2>2, <2>7
<2> HIDE DEF more
<2>5. ASSUME NEW i \in 1 .. n + 1
      PROVE  more[i] = Comments(n + 1)[i]
<3>1. Comments(n + 1)[i] = "comment"
  BY CommentsTyped
<3>2. CASE i <= n
  BY <2>4, <3>1, <3>2, CommentsTyped
<3>3. CASE ~(i <= n)
<4>1. i - n = 1
  BY <3>3
<4> QED BY <2>1, <2>4, <3>1, <3>3, <4>1
<3> QED BY <3>2, <3>3
<2>6. more = Comments(n + 1)
  BY <2>3, <2>4, <2>5, SeqEqual
<2> QED BY <2>6 DEF more, one
<1> QED BY <1>1, <1>2

\* What is heard goes on where it was.
LEMMA HearsMore ==
  ASSUME NEW s \in Seq(Events), NEW part \in Seq(Events), NEW e \in Seq(Events),
         Hears(s, part)
  PROVE  Hears(s \o e, part \o e)
<1>1. PICK n \in 0 .. Len(s) : s = <<"head">> \o Comments(n) \o part
  BY DEF Hears
<1> DEFINE opening == <<"head">> \o Comments(n)
<1>2. n \in Nat /\ Len(s) \in Nat
  BY LenProperties
<1>3. opening \in Seq(Events)
<2>1. <<"head">> \in Seq(Events) /\ Comments(n) \in Seq(Events)
  BY <1>2, CommentsTyped DEF Events
<2> QED BY <2>1, ConcatProperties
<1>4. s = opening \o part
  BY <1>1
<1> HIDE DEF opening
<1>5. s \o e = opening \o (part \o e)
<2>1. (opening \o part) \o e = opening \o (part \o e)
  BY <1>3, ConcatAssociative
<2> QED BY <1>4, <2>1
<1>6. n \in 0 .. Len(s \o e)
<2>1. Len(s \o e) = Len(s) + Len(e) /\ Len(e) \in Nat
  BY ConcatProperties, LenProperties
<2> QED BY <1>2, <2>1
<1> QED BY <1>5, <1>6 DEF opening, Hears

LEMMA HearsFirst ==
  ASSUME NEW e \in Seq(Events)
  PROVE  Hears(<<"head">> \o e, e)
<1>1. <<"head">> \in Seq(Events)
  BY DEF Events
<1>2. <<"head">> \o Comments(0) = <<"head">>
  BY <1>1, CommentsGrow, ConcatEmptySeq
<1>3. 0 \in 0 .. Len(<<"head">> \o e)
  BY <1>1, ConcatProperties, LenProperties
<1> QED BY <1>2, <1>3 DEF Hears

LEMMA HearsComment ==
  ASSUME NEW s \in Seq(Events), Hears(s, <<>>)
  PROVE  Hears(s \o <<"comment">>, <<>>)
<1>1. PICK n \in 0 .. Len(s) : s = <<"head">> \o Comments(n) \o <<>>
  BY DEF Hears
<1>2. n \in Nat /\ n + 1 \in Nat /\ Len(s) \in Nat
  BY LenProperties
<1>3. /\ <<"head">> \in Seq(Events) /\ <<"comment">> \in Seq(Events)
      /\ Comments(n) \in Seq(Events) /\ Comments(n + 1) \in Seq(Events)
  BY <1>2, CommentsTyped DEF Events
<1>4. s = <<"head">> \o Comments(n)
<2>1. <<"head">> \o Comments(n) \in Seq(Events)
  BY <1>3, ConcatProperties
<2> QED BY <1>1, <2>1, ConcatEmptySeq
<1>5. s \o <<"comment">> = <<"head">> \o (Comments(n) \o <<"comment">>)
  BY <1>3, <1>4, ConcatAssociative
<1>6. s \o <<"comment">> = <<"head">> \o Comments(n + 1)
  BY <1>2, <1>5, CommentsGrow
<1>7. s \o <<"comment">> = <<"head">> \o Comments(n + 1) \o <<>>
<2>1. <<"head">> \o Comments(n + 1) \in Seq(Events)
  BY <1>3, ConcatProperties
<2> QED BY <1>6, <2>1, ConcatEmptySeq
<1>8. n + 1 \in 0 .. Len(s \o <<"comment">>)
<2>1. Len(s \o <<"comment">>) = Len(s) + Len(<<"comment">>)
  BY <1>3, ConcatProperties
<2> QED BY <1>2, <2>1
<1> QED BY <1>7, <1>8 DEF Hears

LEMMA HearsHead ==
  ASSUME NEW s \in Seq(Events), NEW part \in Seq(Events), Hears(s, part)
  PROVE  1 \in 1 .. Len(s) /\ s[1] = "head"
<1>1. PICK n \in 0 .. Len(s) : s = <<"head">> \o Comments(n) \o part
  BY DEF Hears
<1>2. /\ <<"head">> \in Seq(Events) /\ Len(<<"head">>) = 1 /\ <<"head">>[1] = "head"
      /\ Comments(n) \in Seq(Events) /\ Len(Comments(n)) \in Nat /\ Len(part) \in Nat
  BY CommentsTyped, LenProperties DEF Events
<1> DEFINE head == <<"head">>
           opening == head \o Comments(n)
<1> HIDE DEF head
<1>3. /\ opening \in Seq(Events) /\ Len(opening) = 1 + Len(Comments(n))
      /\ opening[1] = "head"
  BY <1>2, ConcatProperties DEF head
<1>4. s = opening \o part
  BY <1>1 DEF head
<1> HIDE DEF opening
<1>5. Len(s) = Len(opening) + Len(part) /\ s[1] = "head"
<2>1. /\ Len(opening \o part) = Len(opening) + Len(part)
      /\ \A i \in 1 .. Len(opening) + Len(part) :
           (opening \o part)[i] = IF i <= Len(opening) THEN opening[i]
                                  ELSE part[i - Len(opening)]
  BY <1>3, EventsConcat
<2>2. 1 \in 1 .. Len(opening) + Len(part) /\ 1 <= Len(opening)
  BY <1>2, <1>3
<2> QED BY <1>3, <1>4, <2>1, <2>2
<1> QED BY <1>2, <1>3, <1>5

LEMMA Pieces ==
  /\ <<>> \in Seq(Events) /\ <<"start">> \in Seq(Events) /\ <<"start", "stop">> \in Seq(Events)
  /\ <<"body">> \in Seq(Events) /\ <<"stop">> \in Seq(Events) /\ <<"error">> \in Seq(Events)
  /\ <<"failure">> \in Seq(Events) /\ <<"comment">> \in Seq(Events)
  /\ <<"start">> \o <<"stop">> = <<"start", "stop">>
  /\ <<"start">> \o <<"error">> = <<"start", "error">>
  /\ \A e \in Seq(Events) : <<>> \o e = e /\ e \o <<>> = e
<1>1. /\ <<>> \in Seq(Events) /\ <<"start">> \in Seq(Events)
      /\ <<"start", "stop">> \in Seq(Events) /\ <<"body">> \in Seq(Events)
      /\ <<"stop">> \in Seq(Events) /\ <<"error">> \in Seq(Events)
      /\ <<"failure">> \in Seq(Events) /\ <<"comment">> \in Seq(Events)
  BY DEF Events
<1>2. /\ <<"start">> \o <<"stop">> = <<"start", "stop">>
      /\ <<"start">> \o <<"error">> = <<"start", "error">>
<2>1. "start" \in Events /\ "stop" \in Events /\ "error" \in Events
  BY DEF Events
<2> QED BY <2>1, PairOfEvents
<1>3. \A e \in Seq(Events) : <<>> \o e = e /\ e \o <<>> = e
  BY ConcatEmptySeq
<1> QED BY <1>1, <1>2, <1>3

\* The status line is written if it has not been.
LEMMA StatusLineOnce ==
  ASSUME TypeOK, NEW r \in Requests
  PROVE  /\ out[r] = <<>> => StatusLine(r) = <<"head">>
         /\ \A part \in Seq(Events) : Hears(out[r], part) => StatusLine(r) = <<>>
<1>1. out[r] \in Seq(Events)
  BY DEF TypeOK
<1>2. out[r] = <<>> => StatusLine(r) = <<"head">>
  BY EmptySeq DEF StatusLine
<1> QED BY <1>1, <1>2, HearsHead DEF StatusLine

LEMMA OpensWith ==
  ASSUME TypeOK, NEW r \in Requests, NEW state, Quiet(state, out[r]), NEW e \in Seq(Events)
  PROVE  Hears(out[r] \o (StatusLine(r) \o e), e)
<1>1. CASE out[r] = <<>>
<2>1. StatusLine(r) \o e = <<"head">> \o e
  BY <1>1, StatusLineOnce
<2>2. <<"head">> \o e \in Seq(Events)
  BY ConcatProperties DEF Events
<2>3. out[r] \o (StatusLine(r) \o e) = <<"head">> \o e
  BY <1>1, <2>1, <2>2, Pieces
<2> QED BY <2>3, HearsFirst
<1>2. CASE Hears(out[r], <<>>)
<2>1. StatusLine(r) \o e = e
  BY <1>2, StatusLineOnce, Pieces
<2>2. Hears(out[r] \o e, <<>> \o e)
  BY <1>2, HearsMore, Pieces DEF TypeOK
<2> QED BY <2>1, <2>2, Pieces
<1> QED BY <1>1, <1>2 DEF Quiet

\* A failure is a whole answer, as JSON or as an event after the comments.
LEMMA ErrorAnswers ==
  ASSUME TypeOK, NEW r \in Requests, Quiet(beat[r], out[r]), ~task[r].gone, SendsError(r)
  PROVE  HearsWhole(out'[r])
<1>1. CASE Headed(r)
<2>1. out'[r] = out[r] \o <<"error">>
  BY <1>1 DEF SendsError, Sends, TypeOK
<2>2. Hears(out[r], <<>>)
  BY <1>1 DEF Headed, Quiet
<2>3. Hears(out[r] \o <<"error">>, <<>> \o <<"error">>)
  BY <2>2, HearsMore, Pieces DEF TypeOK
<2>4. <<>> \o <<"error">> = <<"error">>
  BY Pieces
<2> QED BY <2>1, <2>3, <2>4 DEF HearsWhole, Whole
<1>2. CASE ~Headed(r)
<2>1. out'[r] = out[r] \o (StatusLine(r) \o <<"failure">>)
  BY <1>2 DEF SendsError, Sends, TypeOK
<2>2. Hears(out'[r], <<"failure">>)
  BY <2>1, OpensWith, Pieces
<2> QED BY <2>2 DEF HearsWhole, Whole
<1> QED BY <1>1, <1>2

LEMMA ReplyAnswers ==
  ASSUME TypeOK, NEW r \in Requests, Quiet(beat[r], out[r]), ~task[r].gone,
         Sends(r, WholeReply(r))
  PROVE  HearsWhole(out'[r])
<1> DEFINE part == IF r \in Streaming THEN <<"start", "stop">> ELSE <<"body">>
<1>1. out'[r] = out[r] \o (StatusLine(r) \o part)
  BY DEF Sends, WholeReply, TypeOK
<1>2. part \in Seq(Events) /\ part \in Whole
  BY Pieces DEF Whole
<1> HIDE DEF part
<1>3. Hears(out'[r], part)
  BY <1>1, <1>2, OpensWith
<1> QED BY <1>2, <1>3 DEF HearsWhole

\* A stream that has begun is ended.
LEMMA EndAnswers ==
  ASSUME TypeOK, NEW r \in Requests, Hears(out[r], <<"start">>), ~task[r].gone,
         NEW e \in {"stop", "error"}, Sends(r, <<e>>)
  PROVE  HearsWhole(out'[r]) /\ (e = "stop" => Hears(out'[r], <<"start", "stop">>))
<1>1. out'[r] = out[r] \o <<e>>
  BY DEF Sends, TypeOK
<1> DEFINE end == <<e>>
<1>2. end \in Seq(Events) /\ out[r] \in Seq(Events) /\ <<"start">> \in Seq(Events)
  BY Pieces DEF TypeOK
<1> HIDE DEF end
<1>3. Hears(out[r] \o end, <<"start">> \o end)
  BY <1>2, HearsMore
<1> QED BY <1>1, <1>3, Pieces DEF end, HearsWhole, Whole

LEMMA GoneHearsNothing ==
  ASSUME TypeOK, NEW r \in Requests, task[r].gone, NEW events, Sends(r, events)
  PROVE  out'[r] = out[r]
BY DEF Sends, TypeOK

LEMMA OnlyOneHears ==
  ASSUME TypeOK, NEW r \in Requests, NEW q \in Requests, q # r, NEW events, Sends(r, events)
  PROVE  out'[q] = out[q]
BY DEF Sends, TypeOK

-----------------------------------------------------------------------------
(* Each action keeps the answer of its request in order. *)

Same(u, t) ==
  /\ u.open = t.open /\ u.gone = t.gone /\ u.liveSent = t.liveSent
  /\ u.relived = t.relived /\ u.broken = t.broken

LEMMA OneMoves ==
  ASSUME TypeOK, NEW r \in Requests, NEW t, task' = [task EXCEPT ![r] = t]
  PROVE  task'[r] = t /\ \A q \in Requests \ {r} : task'[q] = task[q]
BY DEF TypeOK

LEMMA OneGoes ==
  ASSUME TypeOK, NEW r \in Requests, NEW pc, GoesTo(r, pc)
  PROVE  /\ task'[r].pc = pc /\ Same(task'[r], task[r])
         /\ \A q \in Requests \ {r} : task'[q] = task[q]
<1> DEFINE t == [task[r] EXCEPT !.pc = pc]
<1>1. task[r] \in Task
  BY DEF TypeOK
<1>2. t.pc = pc /\ Same(t, task[r])
  BY <1>1 DEF Task, Same
<1>3. task' = [task EXCEPT ![r] = t]
  BY DEF GoesTo, TypeOK
<1> HIDE DEF t
<1> QED BY <1>2, <1>3, OneMoves

LEMMA StoppedIsQuiet ==
  ASSUME NEW state, NEW s
  PROVE  /\ Stopped(state) \notin {"armed", "beating"}
         /\ Quiet(Stopped(state), s) <=> Quiet(state, s)
BY DEF Stopped, Quiet

LEMMA QuietInOrder ==
  ASSUME NEW state, NEW s, Quiet(state, s)
  PROVE  InOrder(s)
BY DEF Quiet, InOrder, Begun

LEMMA WholeInOrder ==
  ASSUME NEW s, HearsWhole(s)
  PROVE  InOrder(s)
BY DEF HearsWhole, InOrder

\* On its way out, a request has answered, or need not have.
LEMMA Settled ==
  ASSUME NEW r, NEW u, NEW state, NEW s,
         u.pc \in {"store", "leave"}, state \notin {"armed", "beating"},
         ~u.relived => InOrder(s) /\ (~u.gone => u.broken \/ HearsWhole(s))
  PROVE  Answers(r, u, state, s)
BY DEF Answers, Paced, Told, Early

LEMMA GoesAnswer ==
  ASSUME TypeOK, NEW r \in Requests, Answers(r, task[r], beat[r], out[r]),
         \/ CacheMiss(r) \/ Woken(r) \/ WaitTimesOut(r) \/ WaitCanceled(r)
         \/ SemanticMiss(r) \/ GoDirect(r) \/ RunTools(r)
  PROVE  /\ Answers(r, task'[r], beat'[r], out'[r])
         /\ \A q \in Requests \ {r} : task'[q] = task[q] /\ beat'[q] = beat[q] /\ out'[q] = out[q]
<1>1. UNCHANGED <<beat, out>>
  BY DEF CacheMiss, Woken, WaitTimesOut, WaitCanceled, SemanticMiss, GoDirect, RunTools
<1>2. PICK pc \in {"join", "recheck", "semantic", "admit", "direct", "turn", "leave"} :
        /\ GoesTo(r, pc)
        /\ pc \in Early => task[r].pc \in Early
        /\ pc = "direct" => task[r].pc \in Early
        /\ pc = "turn" => task[r].pc = "tools"
        /\ pc = "leave" => task[r].pc \in Early /\ task[r].gone
  BY DEF CacheMiss, Woken, WaitTimesOut, WaitCanceled, SemanticMiss, GoDirect, RunTools, Early
<1>3. /\ task'[r].pc = pc /\ Same(task'[r], task[r])
      /\ \A q \in Requests \ {r} : task'[q] = task[q]
  BY <1>2, OneGoes
<1>4. Answers(r, task'[r], beat[r], out[r])
<2> DEFINE u == task'[r]
<2>1. u.pc = pc /\ Same(u, task[r])
  BY <1>3
<2> HIDE DEF u
<2>2. Answers(r, u, beat[r], out[r])
  BY <1>2, <2>1 DEF Answers, Paced, Told, Early, Same
<2> QED BY <2>2 DEF u
<1> QED BY <1>1, <1>3, <1>4

LEMMA StepsAsideAnswer ==
  ASSUME TypeOK, NEW r \in Requests, Answers(r, task[r], beat[r], out[r]),
         Lead(r) \/ Follow(r) \/ MissAgain(r) \/ Store(r) \/ DirectBroken(r)
  PROVE  /\ Answers(r, task'[r], beat'[r], out'[r])
         /\ \A q \in Requests \ {r} : task'[q] = task[q] /\ beat'[q] = beat[q] /\ out'[q] = out[q]
<1>1. UNCHANGED <<beat, out>> /\ task[r] \in Task
  BY DEF Lead, Follow, MissAgain, Store, DirectBroken, TypeOK
<1>2. ASSUME NEW t \in Task, task' = [task EXCEPT ![r] = t],
             /\ t.open = task[r].open /\ t.gone = task[r].gone
             /\ t.liveSent = task[r].liveSent /\ t.relived = task[r].relived,
             \/ t.pc \in Early /\ task[r].pc \in Early
             \/ t.pc = "leave" /\ task[r].pc = "store" /\ t.broken = task[r].broken
             \/ t.pc = "leave" /\ task[r].pc = "upstream" /\ t.broken
      PROVE  /\ Answers(r, task'[r], beat'[r], out'[r])
             /\ \A q \in Requests \ {r} :
                  task'[q] = task[q] /\ beat'[q] = beat[q] /\ out'[q] = out[q]
<2>1. Answers(r, t, beat[r], out[r])
  BY <1>2 DEF Answers, Paced, Told, Early
<2>2. task'[r] = t /\ \A q \in Requests \ {r} : task'[q] = task[q]
  BY <1>2, OneMoves
<2> QED BY <1>1, <2>1, <2>2
<1>3. CASE Lead(r)
<2> DEFINE t == [task[r] EXCEPT !.pc = "semantic", !.leads = TRUE]
<2>1. /\ t \in Task /\ Same(t, task[r]) /\ t.pc = "semantic"
      /\ task' = [task EXCEPT ![r] = t] /\ task[r].pc = "join"
  BY <1>1, <1>3 DEF Lead, Task, Places, Same
<2> HIDE DEF t
<2> QED BY <1>2, <2>1 DEF Early, Same
<1>4. CASE Follow(r)
<2> DEFINE m == CHOOSE l \in Requests : Leads(l, KeyOf[r])
           t == [task[r] EXCEPT !.pc = "wait", !.leader = m]
<2>1. /\ task' = [task EXCEPT ![r] = t] /\ task[r].pc = "join"
<3>1. task' = [task EXCEPT ![r].pc = "wait", ![r].leader = m] /\ task[r].pc = "join"
  BY <1>4 DEF Follow
<3> HIDE DEF m
<3> QED BY <3>1
<2>2. t.pc = "wait" /\ Same(t, task[r])
<3> HIDE DEF m
<3> QED BY <1>1 DEF Task, Same
<2> HIDE DEF t
<2>3. task'[r] = t /\ \A q \in Requests \ {r} : task'[q] = task[q]
  BY <2>1, OneMoves
<2>4. Answers(r, t, beat[r], out[r])
  BY <2>1, <2>2 DEF Answers, Paced, Told, Early, Same
<2> QED BY <1>1, <2>3, <2>4
<1>5. CASE MissAgain(r)
<2> DEFINE t == [task[r] EXCEPT !.pc = "semantic", !.missed = TRUE]
<2>1. /\ t \in Task /\ Same(t, task[r]) /\ t.pc = "semantic"
      /\ task' = [task EXCEPT ![r] = t] /\ task[r].pc = "recheck"
  BY <1>1, <1>5 DEF MissAgain, Task, Places, Same
<2> HIDE DEF t
<2> QED BY <1>2, <2>1 DEF Early, Same
<1>6. CASE Store(r)
<2> DEFINE t == [task[r] EXCEPT !.pc = "leave", !.stored = TRUE]
           u == [task[r] EXCEPT !.pc = "leave"]
<2>1. /\ t \in Task /\ Same(t, task[r]) /\ t.pc = "leave"
      /\ u \in Task /\ Same(u, task[r]) /\ u.pc = "leave"
  BY <1>1 DEF Task, Places, Same
<2>2. /\ task[r].pc = "store"
      /\ task' = [task EXCEPT ![r] = t] \/ task' = [task EXCEPT ![r] = u]
  BY <1>6 DEF Store, GoesTo, TypeOK
<2> HIDE DEF t, u
<2> QED BY <1>2, <2>1, <2>2 DEF Same
<1>7. CASE DirectBroken(r)
<2> DEFINE t == [task[r] EXCEPT !.pc = "leave", !.broken = TRUE]
<2>1. /\ t \in Task /\ t.pc = "leave" /\ t.broken
      /\ t.open = task[r].open /\ t.gone = task[r].gone
      /\ t.liveSent = task[r].liveSent /\ t.relived = task[r].relived
      /\ task' = [task EXCEPT ![r] = t] /\ task[r].pc = "upstream"
  BY <1>1, <1>7 DEF DirectBroken, Task, Places
<2> HIDE DEF t
<2> QED BY <1>2, <2>1
<1> QED BY <1>3, <1>4, <1>5, <1>6, <1>7

\* A request that answers before anything was said, and goes to its way out.
LEMMA AnswersAtOnce ==
  ASSUME TypeOK, NEW r \in Requests, Answers(r, task[r], beat[r], out[r]),
         task[r].pc \in Early \cup {"direct"}, beat' = beat,
         SendsError(r) \/ Sends(r, WholeReply(r)),
         task'[r].pc = "leave", Same(task'[r], task[r])
  PROVE  /\ Answers(r, task'[r], beat'[r], out'[r])
         /\ \A q \in Requests \ {r} : beat'[q] = beat[q] /\ out'[q] = out[q]
<1>1. /\ beat[r] \notin {"armed", "beating"}
      /\ ~task[r].relived => InOrder(out[r]) /\ (~task[r].gone => Quiet(beat[r], out[r]))
  BY DEF Answers, Paced, Told, Early
<1>2. ~task[r].relived /\ ~task[r].gone => HearsWhole(out'[r])
  BY <1>1, ErrorAnswers, ReplyAnswers
<1>3. task[r].gone => out'[r] = out[r]
  BY GoneHearsNothing DEF SendsError
<1>4. \A q \in Requests \ {r} : out'[q] = out[q]
  BY OnlyOneHears DEF SendsError
<1>5. ~task[r].relived =>
        InOrder(out'[r]) /\ (~task[r].gone => HearsWhole(out'[r]))
  BY <1>1, <1>2, <1>3, WholeInOrder
<1> DEFINE u == task'[r]
<1>6. u.pc = "leave" /\ Same(u, task[r])
  OBVIOUS
<1> HIDE DEF u
<1>7. Answers(r, u, beat[r], out'[r])
  BY <1>1, <1>5, <1>6, Settled DEF Same
<1> QED BY <1>4, <1>7 DEF u

LEMMA ServeAnswers ==
  ASSUME TypeOK, NEW r \in Requests, Answers(r, task[r], beat[r], out[r]),
         CacheHit(r) \/ SemanticHit(r) \/ EmergencyFailover(r) \/ OverBudget(r) \/ DirectError(r)
  PROVE  /\ Answers(r, task'[r], beat'[r], out'[r])
         /\ \A q \in Requests \ {r} : task'[q] = task[q] /\ beat'[q] = beat[q] /\ out'[q] = out[q]
<1>1. task[r].pc \in Early \cup {"direct"} /\ beat' = beat
  BY DEF CacheHit, SemanticHit, EmergencyFailover, OverBudget, DirectError, Early
<1>2. SendsError(r) \/ Sends(r, WholeReply(r))
  BY DEF CacheHit, SemanticHit, EmergencyFailover, OverBudget, DirectError, Serve
<1>3. /\ task'[r].pc = "leave" /\ Same(task'[r], task[r])
      /\ \A q \in Requests \ {r} : task'[q] = task[q]
<2>1. CASE Serve(r)
<3> DEFINE t == [task[r] EXCEPT !.pc = "leave", !.got = TRUE]
<3>1. task[r] \in Task
  BY DEF TypeOK
<3>2. t.pc = "leave" /\ Same(t, task[r])
  BY <3>1 DEF Task, Same
<3>3. task' = [task EXCEPT ![r] = t]
  BY <2>1 DEF Serve, TypeOK
<3> HIDE DEF t
<3> QED BY <3>2, <3>3, OneMoves
<2>2. CASE GoesTo(r, "leave")
  BY <2>2, OneGoes
<2> QED BY <2>1, <2>2 DEF CacheHit, SemanticHit, EmergencyFailover, OverBudget, DirectError
<1> QED BY <1>1, <1>2, <1>3, AnswersAtOnce

LEMMA RouteAnswers ==
  ASSUME TypeOK, NEW r \in Requests, Answers(r, task[r], beat[r], out[r]), Route(r)
  PROVE  /\ Answers(r, task'[r], beat'[r], out'[r])
         /\ \A q \in Requests \ {r} : task'[q] = task[q] /\ beat'[q] = beat[q] /\ out'[q] = out[q]
<1>1. /\ task'[r].pc = "dispatch" /\ Same(task'[r], task[r])
      /\ \A q \in Requests \ {r} : task'[q] = task[q]
  BY OneGoes DEF Route
<1>2. /\ task[r].pc = "admit" /\ out' = out
      /\ beat'[r] = IF r \in Streaming THEN "armed" ELSE beat[r]
      /\ \A q \in Requests \ {r} : beat'[q] = beat[q]
  BY DEF Route, TypeOK
<1>3. /\ beat[r] = "off" /\ ~task[r].open
      /\ ~task[r].relived => InOrder(out[r]) /\ (~task[r].gone => out[r] = <<>>)
  BY <1>2 DEF Answers, Paced, Told, Early, Quiet
<1> DEFINE u == task'[r]
           state == beat'[r]
<1>4. u.pc = "dispatch" /\ Same(u, task[r]) /\ state \in {"off", "armed"}
  BY <1>1, <1>2, <1>3
<1> HIDE DEF u, state
<1>5. Answers(r, u, state, out[r])
  BY <1>3, <1>4 DEF Answers, Paced, Told, Early, Same, Quiet
<1> QED BY <1>1, <1>2, <1>5 DEF u, state

LEMMA KeepAliveAnswers ==
  ASSUME TypeOK, NEW r \in Requests, Answers(r, task[r], beat[r], out[r]), KeepAlive(r)
  PROVE  /\ Answers(r, task'[r], beat'[r], out'[r])
         /\ \A q \in Requests \ {r} : task'[q] = task[q] /\ beat'[q] = beat[q] /\ out'[q] = out[q]
<1>1. /\ beat[r] \in {"armed", "beating"} /\ task' = task /\ beat'[r] = "beating"
      /\ \A q \in Requests \ {r} : beat'[q] = beat[q]
  BY DEF KeepAlive, TypeOK
<1>2. /\ task[r].pc = "dispatch" /\ ~task[r].open
      /\ ~task[r].relived => InOrder(out[r]) /\ (~task[r].gone => Quiet(beat[r], out[r]))
  BY <1>1 DEF Answers, Paced, Told
<1>3. \/ out' = out /\ beat[r] = "beating"
      \/ Sends(r, <<"comment">>) /\ beat[r] = "beating"
      \/ Sends(r, <<"head", "comment">>) /\ beat[r] = "armed"
  BY DEF KeepAlive
<1>4. \A q \in Requests \ {r} : out'[q] = out[q]
  BY <1>3, OnlyOneHears
<1>5. task[r].gone => out'[r] = out[r]
  BY <1>3, GoneHearsNothing
<1>6. ~task[r].relived /\ ~task[r].gone => Hears(out'[r], <<>>)
<2> SUFFICES ASSUME ~task[r].relived, ~task[r].gone PROVE Hears(out'[r], <<>>)
  OBVIOUS
<2>1. CASE out' = out /\ beat[r] = "beating"
  BY <1>2, <2>1 DEF Quiet
<2>2. CASE Sends(r, <<"comment">>) /\ beat[r] = "beating"
<3>1. out'[r] = out[r] \o <<"comment">> /\ out[r] \in Seq(Events)
  BY <2>2 DEF Sends, TypeOK
<3>2. Hears(out[r], <<>>)
  BY <1>2, <2>2 DEF Quiet
<3> QED BY <3>1, <3>2, HearsComment
<2>3. CASE Sends(r, <<"head", "comment">>) /\ beat[r] = "armed"
<3>1. <<"head">> \in Seq(Events) /\ <<"comment">> \in Seq(Events) /\ <<>> \in Seq(Events)
  BY DEF Events
<3>2. <<"head">> \o <<"comment">> = <<"head", "comment">>
  BY PairOfEvents DEF Events
<3>3. Hears(<<"head">>, <<>>)
<4>1. <<"head">> \o <<>> = <<"head">>
  BY <3>1, ConcatEmptySeq
<4> QED BY <3>1, <4>1, HearsFirst
<3>4. Hears(<<"head", "comment">>, <<>>)
<4>1. Hears(<<"head">> \o <<"comment">>, <<>>)
  BY <3>1, <3>3, HearsComment
<4> QED BY <3>2, <4>1
<3>5. out[r] = <<>>
  BY <1>2, <2>3 DEF Quiet
<3>6. out'[r] = <<>> \o <<"head", "comment">>
  BY <2>3, <3>5 DEF Sends, TypeOK
<3>7. <<>> \o <<"head", "comment">> = <<"head", "comment">>
<4>1. <<"head", "comment">> \in Seq(Events)
  BY DEF Events
<4> QED BY <4>1, ConcatEmptySeq
<3> QED BY <3>4, <3>6, <3>7
<2> QED BY <1>3, <2>1, <2>2, <2>3
<1> DEFINE s == out'[r]
<1>7. ~task[r].relived => InOrder(s) /\ (~task[r].gone => Hears(s, <<>>))
  BY <1>2, <1>5, <1>6 DEF InOrder, Begun
<1> HIDE DEF s
<1>8. Answers(r, task[r], "beating", s)
  BY <1>2, <1>7 DEF Answers, Paced, Told, Early, Quiet
<1> QED BY <1>1, <1>4, <1>8 DEF s

LEMMA CommitAnswers ==
  ASSUME TypeOK, NEW r \in Requests, Answers(r, task[r], beat[r], out[r]), Commit(r)
  PROVE  /\ Answers(r, task'[r], beat'[r], out'[r])
         /\ \A q \in Requests \ {r} : task'[q] = task[q] /\ beat'[q] = beat[q] /\ out'[q] = out[q]
<1> DEFINE t == [task[r] EXCEPT !.open = TRUE, !.relived = @ \/ task[r].pc = "turn"]
<1>1. task[r] \in Task
  BY DEF TypeOK
<1>2. /\ t.pc = task[r].pc /\ t.open /\ t.gone = task[r].gone
      /\ t.liveSent = task[r].liveSent /\ t.broken = task[r].broken
      /\ t.relived = (task[r].relived \/ task[r].pc = "turn")
  BY <1>1 DEF Task
<1>3. task' = [task EXCEPT ![r] = t]
  BY DEF Commit, TypeOK
<1> HIDE DEF t
<1>4. task'[r] = t /\ \A q \in Requests \ {r} : task'[q] = task[q]
  BY <1>3, OneMoves
<1>5. /\ task[r].pc \in {"dispatch", "turn"} /\ ~task[r].open
      /\ beat'[r] = Stopped(beat[r]) /\ \A q \in Requests \ {r} : beat'[q] = beat[q]
      /\ Sends(r, StatusLine(r) \o <<"start">>)
  BY DEF Commit, Dispatching, TypeOK
<1>6. \A q \in Requests \ {r} : out'[q] = out[q]
  BY <1>5, OnlyOneHears
<1>7. task[r].gone => out'[r] = out[r]
  BY <1>5, GoneHearsNothing
<1>8. ~task[r].relived => InOrder(out[r]) /\ (~task[r].gone => Quiet(beat[r], out[r]))
  BY <1>5 DEF Answers, Told
<1>9. ~task[r].relived /\ ~task[r].gone => Hears(out'[r], <<"start">>)
<2> SUFFICES ASSUME ~task[r].relived, ~task[r].gone PROVE Hears(out'[r], <<"start">>)
  OBVIOUS
<2>1. out'[r] = out[r] \o (StatusLine(r) \o <<"start">>)
  BY <1>5 DEF Sends, TypeOK
<2> QED BY <1>8, <2>1, OpensWith, Pieces
<1>10. /\ Stopped(beat[r]) \notin {"armed", "beating"}
       /\ task[r].pc = "turn" => ~task[r].liveSent
  BY StoppedIsQuiet DEF Answers, Paced
<1> DEFINE s == out'[r]
           state == beat'[r]
<1>11. /\ state \notin {"armed", "beating"}
       /\ ~task[r].relived => InOrder(s) /\ (~task[r].gone => Hears(s, <<"start">>))
  BY <1>5, <1>7, <1>8, <1>9, <1>10 DEF InOrder, Begun
<1> HIDE DEF s, state
<1>12. Answers(r, t, state, s)
  BY <1>2, <1>5, <1>10, <1>11 DEF Answers, Paced, Told, Early
<1> QED BY <1>4, <1>5, <1>6, <1>12 DEF s, state

LEMMA DispatchedAnswers ==
  ASSUME TypeOK, NEW r \in Requests, Answers(r, task[r], beat[r], out[r]), Dispatched(r)
  PROVE  /\ Answers(r, task'[r], beat'[r], out'[r])
         /\ \A q \in Requests \ {r} : task'[q] = task[q] /\ beat'[q] = beat[q] /\ out'[q] = out[q]
<1> DEFINE sent == IF task[r].pc = "dispatch" THEN task[r].open ELSE FALSE
           t == [task[r] EXCEPT !.got = TRUE, !.liveSent = sent, !.pc = "write"]
           n == NextTurn(t)
<1>1. task[r] \in Task /\ sent \in BOOLEAN
  BY DEF TypeOK, Task
<1> HIDE DEF sent
<1>2. /\ t.pc = "write" /\ t.open = task[r].open /\ t.gone = task[r].gone
      /\ t.liveSent = sent /\ t.broken = task[r].broken /\ t.relived = task[r].relived
  BY <1>1 DEF Task
<1>3. /\ n.pc = "tools" /\ ~n.open /\ n.gone = task[r].gone
      /\ n.liveSent = sent /\ n.broken = task[r].broken /\ n.relived = task[r].relived
  BY <1>1 DEF Task, NextTurn
<1>4. task' = [task EXCEPT ![r] = t] \/ (~sent /\ task' = [task EXCEPT ![r] = n])
  BY DEF Dispatched, sent
<1> HIDE DEF t, n
<1>5. PICK u \in {t, n} : task' = [task EXCEPT ![r] = u] /\ (u = n => ~sent)
  BY <1>2, <1>3, <1>4
<1>6. task'[r] = u /\ \A q \in Requests \ {r} : task'[q] = task[q]
  BY <1>5, OneMoves
<1>7. /\ u.gone = task[r].gone /\ u.relived = task[r].relived /\ u.liveSent = sent
      /\ u.pc \in {"write", "tools"} /\ (u.pc = "tools" => ~sent /\ ~u.open)
  BY <1>2, <1>3, <1>5
<1>8. /\ task[r].pc \in {"dispatch", "turn"}
      /\ beat'[r] = Stopped(beat[r]) /\ \A q \in Requests \ {r} : beat'[q] = beat[q]
      /\ IF task[r].open THEN Sends(r, <<"stop">>) ELSE out' = out
  BY DEF Dispatched, Dispatching, TypeOK
<1>9. \A q \in Requests \ {r} : out'[q] = out[q]
  BY <1>8, OnlyOneHears
<1>10. task[r].gone => out'[r] = out[r]
  BY <1>8, GoneHearsNothing
<1>11. ASSUME ~task[r].relived, ~task[r].gone
       PROVE  IF sent THEN Hears(out'[r], <<"start", "stop">>) ELSE Quiet(beat[r], out'[r])
<2>1. CASE task[r].open
<3>1. task[r].pc = "dispatch" /\ Hears(out[r], <<"start">>)
  BY <1>8, <1>11, <2>1 DEF Answers, Told
<3>2. Hears(out'[r], <<"start", "stop">>)
  BY <1>8, <1>11, <2>1, <3>1, EndAnswers
<3> QED BY <2>1, <3>1, <3>2 DEF sent
<2>2. CASE ~task[r].open
  BY <1>8, <1>11, <2>2 DEF Answers, Told, sent
<2> QED BY <2>1, <2>2
<1>12. ~task[r].relived => InOrder(out'[r])
  BY <1>10, <1>11, QuietInOrder DEF Answers, InOrder, Whole
<1> DEFINE s == out'[r]
           state == beat'[r]
<1>13. /\ state \notin {"armed", "beating"}
       /\ ~task[r].relived => InOrder(s)
       /\ ~task[r].relived /\ ~task[r].gone =>
            IF sent THEN Hears(s, <<"start", "stop">>) ELSE Quiet(state, s)
  BY <1>8, <1>11, <1>12, StoppedIsQuiet
<1> HIDE DEF s, state
<1>14. Answers(r, u, state, s)
  BY <1>7, <1>13 DEF Answers, Paced, Told, Early
<1> QED BY <1>6, <1>8, <1>9, <1>14 DEF s, state

LEMMA UndispatchedAnswers ==
  ASSUME TypeOK, NEW r \in Requests, Answers(r, task[r], beat[r], out[r]), Undispatched(r)
  PROVE  /\ Answers(r, task'[r], beat'[r], out'[r])
         /\ \A q \in Requests \ {r} : task'[q] = task[q] /\ beat'[q] = beat[q] /\ out'[q] = out[q]
<1>1. /\ task[r].pc = "dispatch" /\ (task[r].open => task[r].gone)
      /\ beat'[r] = Stopped(beat[r]) /\ \A q \in Requests \ {r} : beat'[q] = beat[q]
      /\ \/ GoesTo(r, "direct") /\ out' = out
         \/ GoesTo(r, "leave") /\ SendsError(r)
  BY DEF Undispatched, TypeOK
<1>2. ~task[r].relived => InOrder(out[r]) /\ (~task[r].gone => Quiet(beat[r], out[r]))
  BY <1>1 DEF Answers, Told
<1>3. \A q \in Requests \ {r} : out'[q] = out[q]
  BY <1>1, OnlyOneHears DEF SendsError
<1> DEFINE u == task'[r]
           state == beat'[r]
           s == out'[r]
<1>4. state \notin {"armed", "beating"} /\ state = Stopped(beat[r])
  BY <1>1, StoppedIsQuiet
<1>5. CASE GoesTo(r, "direct") /\ out' = out
<2>1. /\ u.pc = "direct" /\ Same(u, task[r]) /\ s = out[r]
      /\ \A q \in Requests \ {r} : task'[q] = task[q]
  BY <1>5, OneGoes
<2>2. ~task[r].relived => InOrder(s) /\ (~task[r].gone => Quiet(state, s))
  BY <1>2, <1>4, <2>1, StoppedIsQuiet
<2> HIDE DEF u, state, s
<2>3. Answers(r, u, state, s)
  BY <1>4, <2>1, <2>2 DEF Answers, Paced, Told, Early, Same
<2> QED BY <1>1, <1>3, <2>1, <2>3 DEF u, state, s
<1>6. CASE GoesTo(r, "leave") /\ SendsError(r)
<2>1. /\ u.pc = "leave" /\ Same(u, task[r])
      /\ \A q \in Requests \ {r} : task'[q] = task[q]
  BY <1>6, OneGoes
<2>2. task[r].gone => s = out[r]
  BY <1>6, GoneHearsNothing DEF SendsError
<2>3. ~task[r].relived /\ ~task[r].gone => HearsWhole(s)
  BY <1>2, <1>6, ErrorAnswers
<2>4. ~task[r].relived => InOrder(s) /\ (~task[r].gone => HearsWhole(s))
  BY <1>2, <2>2, <2>3, WholeInOrder
<2> HIDE DEF u, state, s
<2>5. Answers(r, u, state, s)
  BY <1>4, <2>1, <2>4, Settled DEF Same
<2> QED BY <1>1, <1>3, <2>1, <2>5 DEF u, state, s
<1> QED BY <1>1, <1>5, <1>6

LEMMA StreamFailedAnswers ==
  ASSUME TypeOK, NEW r \in Requests, Answers(r, task[r], beat[r], out[r]), StreamFailed(r)
  PROVE  /\ Answers(r, task'[r], beat'[r], out'[r])
         /\ \A q \in Requests \ {r} : task'[q] = task[q] /\ beat'[q] = beat[q] /\ out'[q] = out[q]
<1>1. /\ task'[r].pc = "leave" /\ Same(task'[r], task[r])
      /\ \A q \in Requests \ {r} : task'[q] = task[q]
  BY OneGoes DEF StreamFailed
<1>2. task[r].pc = "dispatch" /\ task[r].open /\ beat' = beat
  BY DEF StreamFailed
<1>3. PICK event \in {"stop", "error"} : Sends(r, <<event>>)
  BY DEF StreamFailed
<1>4. /\ beat[r] \notin {"armed", "beating"}
      /\ ~task[r].relived => InOrder(out[r]) /\ (~task[r].gone => Hears(out[r], <<"start">>))
  BY <1>2 DEF Answers, Paced, Told
<1>5. \A q \in Requests \ {r} : out'[q] = out[q]
  BY <1>3, OnlyOneHears
<1> DEFINE u == task'[r]
           s == out'[r]
<1>6. ~task[r].relived => InOrder(s) /\ (~task[r].gone => HearsWhole(s))
  BY <1>3, <1>4, EndAnswers, GoneHearsNothing, WholeInOrder
<1>7. u.pc = "leave" /\ Same(u, task[r])
  BY <1>1
<1> HIDE DEF u, s
<1>8. Answers(r, u, beat[r], s)
  BY <1>4, <1>6, <1>7, Settled DEF Same
<1> QED BY <1>1, <1>2, <1>5, <1>8 DEF u, s

LEMMA TurnFailedAnswers ==
  ASSUME TypeOK, NEW r \in Requests, Answers(r, task[r], beat[r], out[r]), TurnFailed(r)
  PROVE  /\ Answers(r, task'[r], beat'[r], out'[r])
         /\ \A q \in Requests \ {r} : task'[q] = task[q] /\ beat'[q] = beat[q] /\ out'[q] = out[q]
<1>1. /\ task'[r].pc = "write" /\ Same(task'[r], task[r])
      /\ \A q \in Requests \ {r} : task'[q] = task[q]
  BY OneGoes DEF TurnFailed
<1>2. /\ task[r].pc = "turn" /\ beat' = beat
      /\ IF task[r].open THEN \E event \in {"stop", "error"} : Sends(r, <<event>>)
         ELSE out' = out
  BY DEF TurnFailed
<1>3. /\ beat[r] \notin {"armed", "beating"} /\ ~task[r].liveSent
      /\ ~task[r].relived => /\ InOrder(out[r]) /\ ~task[r].open
                             /\ ~task[r].gone => Quiet(beat[r], out[r])
  BY <1>2 DEF Answers, Paced, Told
<1>4. \A q \in Requests \ {r} : out'[q] = out[q]
  BY <1>2, OnlyOneHears
<1> DEFINE u == task'[r]
           s == out'[r]
<1>5. ~task[r].relived => s = out[r]
  BY <1>2, <1>3
<1>6. u.pc = "write" /\ Same(u, task[r])
  BY <1>1
<1> HIDE DEF u, s
<1>7. Answers(r, u, beat[r], s)
  BY <1>3, <1>5, <1>6 DEF Answers, Paced, Told, Early, Same
<1> QED BY <1>1, <1>2, <1>4, <1>7 DEF u, s

LEMMA WriteAnswers ==
  ASSUME TypeOK, NEW r \in Requests, Answers(r, task[r], beat[r], out[r]), Write(r)
  PROVE  /\ Answers(r, task'[r], beat'[r], out'[r])
         /\ \A q \in Requests \ {r} : task'[q] = task[q] /\ beat'[q] = beat[q] /\ out'[q] = out[q]
<1>1. /\ task'[r].pc = "store" /\ Same(task'[r], task[r])
      /\ \A q \in Requests \ {r} : task'[q] = task[q]
  BY OneGoes DEF Write
<1>2. /\ task[r].pc = "write" /\ beat' = beat
      /\ IF task[r].liveSent THEN out' = out ELSE Sends(r, WholeReply(r))
  BY DEF Write
<1>3. /\ beat[r] \notin {"armed", "beating"}
      /\ ~task[r].relived =>
           /\ InOrder(out[r])
           /\ ~task[r].gone => IF task[r].liveSent THEN Hears(out[r], <<"start", "stop">>)
                               ELSE Quiet(beat[r], out[r])
  BY <1>2 DEF Answers, Paced, Told
<1>4. \A q \in Requests \ {r} : out'[q] = out[q]
  BY <1>2, OnlyOneHears
<1>5. task[r].gone => out'[r] = out[r]
  BY <1>2, GoneHearsNothing
<1>6. ~task[r].relived /\ ~task[r].gone => HearsWhole(out'[r])
<2>1. CASE task[r].liveSent
  BY <1>2, <1>3, <2>1 DEF HearsWhole, Whole
<2>2. CASE ~task[r].liveSent
  BY <1>2, <1>3, <2>2, ReplyAnswers
<2> QED BY <2>1, <2>2
<1> DEFINE u == task'[r]
           s == out'[r]
<1>7. ~task[r].relived => InOrder(s) /\ (~task[r].gone => HearsWhole(s))
  BY <1>3, <1>5, <1>6, WholeInOrder
<1>8. u.pc = "store" /\ Same(u, task[r])
  BY <1>1
<1> HIDE DEF u, s
<1>9. Answers(r, u, beat[r], s)
  BY <1>3, <1>7, <1>8, Settled DEF Same
<1> QED BY <1>1, <1>2, <1>4, <1>9 DEF u, s

LEMMA DirectReplyAnswers ==
  ASSUME TypeOK, NEW r \in Requests, Answers(r, task[r], beat[r], out[r]), DirectReply(r)
  PROVE  /\ Answers(r, task'[r], beat'[r], out'[r])
         /\ \A q \in Requests \ {r} : task'[q] = task[q] /\ beat'[q] = beat[q] /\ out'[q] = out[q]
<1> DEFINE part == IF r \in Streaming THEN <<"start">> ELSE <<>>
<1>1. /\ task'[r].pc = "upstream" /\ Same(task'[r], task[r])
      /\ \A q \in Requests \ {r} : task'[q] = task[q]
  BY OneGoes DEF DirectReply
<1>2. /\ task[r].pc = "direct" /\ ~task[r].gone /\ beat' = beat
      /\ Sends(r, StatusLine(r) \o part)
  BY DEF DirectReply
<1>3. /\ beat[r] \notin {"armed", "beating"}
      /\ ~task[r].relived => Quiet(beat[r], out[r])
  BY <1>2 DEF Answers, Paced, Told
<1>4. part \in Seq(Events) /\ part \in Begun
  BY Pieces DEF Begun
<1>5. \A q \in Requests \ {r} : out'[q] = out[q]
  BY <1>2, OnlyOneHears
<1>6. out'[r] = out[r] \o (StatusLine(r) \o part)
  BY <1>2 DEF Sends, TypeOK
<1> DEFINE u == task'[r]
           s == out'[r]
<1>7. ~task[r].relived => Hears(s, part)
<2> HIDE DEF part
<2> QED BY <1>3, <1>4, <1>6, OpensWith
<1>8. ~task[r].relived => InOrder(s)
<2> HIDE DEF part, s
<2> QED BY <1>4, <1>7 DEF InOrder
<1>9. u.pc = "upstream" /\ Same(u, task[r])
  BY <1>1
<1> HIDE DEF u, s
<1>10. Answers(r, u, beat[r], s)
  BY <1>3, <1>7, <1>8, <1>9 DEF Answers, Paced, Told, Early, Same
<1> QED BY <1>1, <1>2, <1>5, <1>10 DEF u, s

LEMMA DirectWholeAnswers ==
  ASSUME TypeOK, NEW r \in Requests, Answers(r, task[r], beat[r], out[r]), DirectWhole(r)
  PROVE  /\ Answers(r, task'[r], beat'[r], out'[r])
         /\ \A q \in Requests \ {r} : task'[q] = task[q] /\ beat'[q] = beat[q] /\ out'[q] = out[q]
<1> DEFINE t == [task[r] EXCEPT !.pc = "store", !.got = TRUE]
<1>1. task[r] \in Task
  BY DEF TypeOK
<1>2. t.pc = "store" /\ Same(t, task[r])
  BY <1>1 DEF Task, Same
<1>3. task' = [task EXCEPT ![r] = t]
  BY DEF DirectWhole, TypeOK
<1> HIDE DEF t
<1>4. task'[r] = t /\ \A q \in Requests \ {r} : task'[q] = task[q]
  BY <1>3, OneMoves
<1>5. /\ task[r].pc = "upstream" /\ beat' = beat
      /\ IF r \in Streaming THEN Sends(r, <<"stop">>) ELSE Sends(r, <<"body">>)
  BY DEF DirectWhole
<1>6. /\ beat[r] \notin {"armed", "beating"}
      /\ ~task[r].relived =>
           /\ InOrder(out[r])
           /\ ~task[r].gone => IF r \in Streaming THEN Hears(out[r], <<"start">>)
                               ELSE Hears(out[r], <<>>)
  BY <1>5 DEF Answers, Paced, Told
<1>7. \A q \in Requests \ {r} : out'[q] = out[q]
  BY <1>5, OnlyOneHears
<1>8. task[r].gone => out'[r] = out[r]
  BY <1>5, GoneHearsNothing
<1>9. ~task[r].relived /\ ~task[r].gone => HearsWhole(out'[r])
<2> SUFFICES ASSUME ~task[r].relived, ~task[r].gone PROVE HearsWhole(out'[r])
  OBVIOUS
<2>1. CASE r \in Streaming
  BY <1>5, <1>6, <2>1, EndAnswers
<2>2. CASE r \notin Streaming
<3>1. out'[r] = out[r] \o <<"body">>
  BY <1>5, <2>2 DEF Sends, TypeOK
<3>2. Hears(out[r] \o <<"body">>, <<>> \o <<"body">>)
  BY <1>6, <2>2, HearsMore, Pieces DEF TypeOK
<3>3. <<>> \o <<"body">> = <<"body">>
  BY Pieces
<3> QED BY <3>1, <3>2, <3>3 DEF HearsWhole, Whole
<2> QED BY <2>1, <2>2
<1> DEFINE s == out'[r]
<1>10. ~task[r].relived => InOrder(s) /\ (~task[r].gone => HearsWhole(s))
  BY <1>6, <1>8, <1>9, WholeInOrder
<1> HIDE DEF s
<1>11. Answers(r, t, beat[r], s)
  BY <1>2, <1>6, <1>10, Settled DEF Same
<1> QED BY <1>4, <1>5, <1>7, <1>11 DEF s

LEMMA CancelAnswers ==
  ASSUME TypeOK, NEW r \in Requests, Answers(r, task[r], beat[r], out[r]), Cancel(r)
  PROVE  /\ Answers(r, task'[r], beat'[r], out'[r])
         /\ \A q \in Requests \ {r} : task'[q] = task[q] /\ beat'[q] = beat[q] /\ out'[q] = out[q]
<1> DEFINE t == [task[r] EXCEPT !.gone = TRUE]
<1>1. task[r] \in Task
  BY DEF TypeOK
<1>2. /\ t.pc = task[r].pc /\ t.open = task[r].open /\ t.gone
      /\ t.liveSent = task[r].liveSent /\ t.relived = task[r].relived
  BY <1>1 DEF Task
<1>3. task' = [task EXCEPT ![r] = t] /\ beat' = beat /\ out' = out
  BY DEF Cancel, TypeOK
<1> HIDE DEF t
<1>4. task'[r] = t /\ \A q \in Requests \ {r} : task'[q] = task[q]
  BY <1>3, OneMoves
<1>5. Answers(r, t, beat[r], out[r])
  BY <1>2 DEF Answers, Paced
<1> QED BY <1>3, <1>4, <1>5

\* Leaving wakes others, and changes nothing that they have said.
LEMMA LeaveAnswers ==
  ASSUME TypeOK, Answering, NEW r \in Requests, Leave(r)
  PROVE  Answering'
<1>1. /\ task[r].pc = "leave" /\ out' = out
      /\ beat'[r] = Stopped(beat[r]) /\ \A q \in Requests \ {r} : beat'[q] = beat[q]
  BY DEF Leave, TypeOK
<1> SUFFICES ASSUME NEW q \in Requests PROVE Answers(q, task'[q], beat'[q], out'[q])
  BY DEF Answering
<1>2. task[q] \in Task /\ Answers(q, task[q], beat[q], out[q])
  BY DEF TypeOK, Answering
<1> DEFINE left == [task EXCEPT ![r].pc = "done", ![r].leads = FALSE]
<1>3. left[q] = IF q = r THEN [task[q] EXCEPT !.pc = "done", !.leads = FALSE] ELSE task[q]
  BY DEF TypeOK
<1>4. /\ left[q] \in Task /\ Same(left[q], task[q])
      /\ left[q].pc = IF q = r THEN "done" ELSE task[q].pc
<2> DEFINE x == [task[q] EXCEPT !.pc = "done", !.leads = FALSE]
<2>1. x \in Task /\ Same(x, task[q]) /\ x.pc = "done"
  BY <1>2 DEF Task, Places, Same
<2> HIDE DEF x
<2>2. left[q] = IF q = r THEN x ELSE task[q]
  BY <1>3 DEF x
<2> HIDE DEF left
<2>3. Same(task[q], task[q])
  BY DEF Same
<2> QED BY <1>2, <2>1, <2>2, <2>3
<1>5. task' = left \/ task' = Released(KeyOf[r], left)
  BY DEF Leave
<1> HIDE DEF left
<1> DEFINE u == task'[q]
<1>6. Same(u, task[q]) /\ u.pc = IF q = r THEN "done" ELSE task[q].pc
<2>1. CASE task' = left
  BY <1>4, <2>1
<2>2. CASE task' = Released(KeyOf[r], left)
<3>1. task'[q] = [left[q] EXCEPT !.woken = left[q].woken \/ q \in waiters[KeyOf[r]]]
  BY <2>2 DEF Released
<3>2. Same(task'[q], left[q]) /\ task'[q].pc = left[q].pc
  BY <1>4, <3>1 DEF Task, Same
<3> QED BY <1>4, <3>2 DEF Same
<2> QED BY <1>5, <2>1, <2>2
<1> HIDE DEF u
<1>7. CASE q = r
<2> DEFINE state == beat'[q]
<2>1. state \notin {"armed", "beating"}
  BY <1>1, <1>7, StoppedIsQuiet
<2> HIDE DEF state
<2>2. Answers(q, u, state, out[q])
  BY <1>1, <1>2, <1>6, <1>7, <2>1 DEF Answers, Paced, Told, Early, Same
<2> QED BY <1>1, <2>2 DEF u, state
<1>8. CASE q # r
<2>1. Answers(q, u, beat[q], out[q])
  BY <1>2, <1>6, <1>8 DEF Answers, Paced, Told, Same
<2> QED BY <1>1, <1>8, <2>1 DEF u
<1> QED BY <1>7, <1>8

LEMMA InitAnswering == Init => Answering
<1> SUFFICES ASSUME Init, NEW r \in Requests
             PROVE  Answers(r, task[r], beat[r], out[r])
  BY DEF Answering
<1>1. /\ task[r].pc \in {"lookup", "admit"} /\ ~task[r].open
      /\ beat[r] = "off" /\ out[r] = <<>>
  BY DEF Init
<1> QED BY <1>1 DEF Answers, Paced, Told, Early, Quiet, InOrder

LEMMA StepAnswering == TypeOK /\ Answering /\ [Next]_vars => Answering'
<1> SUFFICES ASSUME TypeOK, Answering, [Next]_vars PROVE Answering'
  OBVIOUS
<1>1. CASE UNCHANGED <<task, beat, out>>
  BY <1>1 DEF Answering
<1>2. ASSUME NEW r \in Requests, Step(r) \/ KeepAlive(r) \/ Cancel(r), ~Leave(r)
      PROVE  Answering'
<2>1. Answers(r, task[r], beat[r], out[r])
  BY DEF Answering
<2>2. /\ Answers(r, task'[r], beat'[r], out'[r])
      /\ \A q \in Requests \ {r} : task'[q] = task[q] /\ beat'[q] = beat[q] /\ out'[q] = out[q]
<3>1. CASE \/ CacheMiss(r) \/ Woken(r) \/ WaitTimesOut(r) \/ WaitCanceled(r)
           \/ SemanticMiss(r) \/ GoDirect(r) \/ RunTools(r)
  BY <2>1, <3>1, GoesAnswer
<3>2. CASE Lead(r) \/ Follow(r) \/ MissAgain(r) \/ Store(r) \/ DirectBroken(r)
  BY <2>1, <3>2, StepsAsideAnswer
<3>3. CASE CacheHit(r) \/ SemanticHit(r) \/ EmergencyFailover(r) \/ OverBudget(r) \/ DirectError(r)
  BY <2>1, <3>3, ServeAnswers
<3>4. CASE Route(r) \/ Commit(r) \/ Dispatched(r) \/ Undispatched(r)
  BY <2>1, <3>4, RouteAnswers, CommitAnswers, DispatchedAnswers, UndispatchedAnswers
<3>5. CASE StreamFailed(r) \/ TurnFailed(r) \/ Write(r)
  BY <2>1, <3>5, StreamFailedAnswers, TurnFailedAnswers, WriteAnswers
<3>6. CASE DirectReply(r) \/ DirectWhole(r)
  BY <2>1, <3>6, DirectReplyAnswers, DirectWholeAnswers
<3>7. CASE KeepAlive(r) \/ Cancel(r)
  BY <2>1, <3>7, KeepAliveAnswers, CancelAnswers
<3> QED BY <1>2, <3>1, <3>2, <3>3, <3>4, <3>5, <3>6, <3>7 DEF Step
<2>3. \A q \in Requests \ {r} : Answers(q, task'[q], beat'[q], out'[q])
  BY <2>2 DEF Answering
<2> QED BY <2>2, <2>3 DEF Answering
<1>3. ASSUME NEW r \in Requests, Leave(r) PROVE Answering'
  BY <1>3, LeaveAnswers
<1>4. (\E k \in Keys : Evict(k)) \/ UNCHANGED vars => UNCHANGED <<task, beat, out>>
  BY DEF Evict, vars
<1> QED BY <1>1, <1>2, <1>3, <1>4 DEF Next, Step

\* Through every dispatch, turn, fallback, keep-alive, failure and departure, a
\* client hears one reply: comments only after the status line, then one body, one
\* stream that ends once, or one failure, and all of it once its request is over
\* (proxyToTarget, keepalive.go, livesink.go).
THEOREM OneReplyHeard == Spec => []OneReply
<1>1. Answering => OneReply
<2> SUFFICES ASSUME Answering, NEW r \in Requests, ~task[r].relived
             PROVE  /\ InOrder(out[r])
                    /\ task[r].pc = "done" =>
                         task[r].gone \/ task[r].broken \/ HearsWhole(out[r])
  BY DEF OneReply
<2>1. Answers(r, task[r], beat[r], out[r])
  BY DEF Answering
<2> QED BY <2>1 DEF Answers, Told
<1>2. Inductive => TypeOK
  BY DEF Inductive
<1> QED BY <1>1, <1>2, InitAnswering, StepAnswering, AlwaysInductive, PTL DEF Spec
=============================================================================
