--------------------------- MODULE HttpNetworkProofs ---------------------------
(***************************************************************************)
(* Proofs about HttpNetwork for any set of requests and any number of      *)
(* starts: the state is well formed, the semaphore counts the queue, a     *)
(* request that was started waits in exactly one place, and the two        *)
(* threads implement RequestBroker's line. When the game keeps its         *)
(* references (Early is empty) no thread ever uses a deleted request,      *)
(* although the counts are not protected: that one rests on a count of the *)
(* references that are held, which no count in memory or in a register is  *)
(* ever below.                                                             *)
(***************************************************************************)
EXTENDS HttpNetwork, SequenceFacts

-----------------------------------------------------------------------------
(* Where the two threads are. *)

\* The main thread is inside an operation of the game or of the drain.
Operating == main.at \notin {"game", "drain", "callback"}

\* mainLoop is making the scheduled calls; it is in one of them, or after it.
Draining == main.at \in {"drain", "callback"} \/ (Operating /\ main.back # "game")
Calling == main.at = "callback" \/ (Operating /\ main.back \in {"callback", "drain"})

MainStates == [at : MainAt, req : Requests \cup {Nobody}, count : Int,
               back : {"game", "callback", "drain"}, itr : Nat]
WorkerStates == [at : WorkerAt, req : Requests \cup {Nobody}, count : Int,
                 outcome : Outcomes, leak : BOOLEAN]
Calls == [req : Requests, kind : {"response", "error"}]

Control ==
    /\ Operating => main.req \in Requests
    /\ main.at \in {"retainStore", "insert", "post"} => main.back # "drain"
    /\ worker.at \notin {"wait", "take"} => worker.req \in Requests
    /\ lock = "main" <=> Draining
    /\ lock = "worker" <=> worker.at \in {"retainStore", "push"}
    /\ ~Draining => main.itr = 1
    /\ main.itr \in 1 .. (Len(pending) + 1)
    /\ Calling => main.itr > 1

-----------------------------------------------------------------------------
(* What the steps do, field by field. *)

MainMoves(at, req, count, back, itr) ==
    /\ main' \in MainStates
    /\ main'.at = at
    /\ main'.req = req
    /\ main'.count = count
    /\ main'.back = back
    /\ main'.itr = itr

WorkerMoves(at, req, count) ==
    /\ worker' \in WorkerStates
    /\ worker'.at = at
    /\ worker'.req = req
    /\ worker'.count = count

\* A store to the count of one request.
Stores(r, count) ==
    /\ ref' \in [Requests -> Int]
    /\ ref'[r] = count
    /\ \A q \in Requests : q # r => ref'[q] = ref[q]

\* One more of a history count.
Counts(h, r) ==
    /\ h' \in [Requests -> Nat]
    /\ h'[r] = h[r] + 1
    /\ \A q \in Requests : q # r => h'[q] = h[q]

LEMMA OneMore ==
    ASSUME NEW h \in [Requests -> Nat], NEW r \in Requests
    PROVE  LET k == [h EXCEPT ![r] = @ + 1]
           IN  /\ k \in [Requests -> Nat]
               /\ k[r] = h[r] + 1
               /\ \A q \in Requests : q # r => k[q] = h[q]
<1>1. h[r] + 1 \in Nat
  OBVIOUS
<1>q. QED
  BY <1>1

LEMMA Types ==
    ASSUME TypeOK
    PROVE  /\ main \in MainStates
           /\ worker \in WorkerStates
           /\ queue \in Seq(Requests) /\ Len(queue) \in Nat
           /\ pending \in Seq(Calls) /\ Len(pending) \in Nat
           /\ \A i \in 1 .. Len(pending) : pending[i].req \in Requests
           /\ ref \in [Requests -> Int]
           /\ \A r \in Requests : starts[r] \in Nat /\ answers[r] \in Nat
<1>1. pending \in Seq(Calls)
  BY DEF TypeOK, Calls
<1>2. Len(pending) \in Nat /\ \A i \in 1 .. Len(pending) : pending[i] \in Calls
  BY <1>1
<1>3. \A i \in 1 .. Len(pending) : pending[i].req \in Requests
  BY <1>2 DEF Calls
<1>q. QED
  BY <1>1, <1>2, <1>3 DEF TypeOK, MainStates, WorkerStates

LEMMA StartRequestStep ==
    ASSUME TypeOK, Control, NEW r \in Requests, StartRequest(r)
    PROVE  /\ main.at \in {"game", "callback"}
           /\ r \in owned
           /\ ~InFlight(r)
           /\ WorkerIsDoneWith(r) \/ "restart" \in Early
           /\ MainMoves("retainStore", r, ref[r], main.at, main.itr)
           /\ Counts(starts, r)
           /\ UNCHANGED <<queue, avail, pending, lock, ref, deleted, owned, body, worker,
                          answers>>
<1>1. ref[r] \in Int /\ main \in MainStates /\ main.at \in {"game", "callback"}
  BY Types DEF StartRequest, GameRuns
<1>2. main' = [main EXCEPT !.at = "retainStore", !.req = r, !.count = ref[r],
                           !.back = main.at]
  BY DEF StartRequest
<1>3. MainMoves("retainStore", r, ref[r], main.at, main.itr)
  BY <1>1, <1>2 DEF MainMoves, MainStates, MainAt
<1>4. starts \in [Requests -> Nat] /\ starts' = [starts EXCEPT ![r] = @ + 1]
  BY DEF StartRequest, TypeOK
<1>5. Counts(starts, r)
  BY <1>4, OneMore DEF Counts
<1>q. QED
  BY <1>1, <1>3, <1>5 DEF StartRequest, counts

LEMMA GameReleaseStep ==
    ASSUME TypeOK, Control, NEW r \in Requests, GameRelease(r)
    PROVE  /\ main.at \in {"game", "callback"}
           /\ r \in owned
           /\ ~InFlight(r) \/ "release" \in Early
           /\ MainMoves("releaseStore", r, ref[r], main.at, main.itr)
           /\ owned' = owned \ {r}
           /\ UNCHANGED <<queue, avail, pending, lock, ref, deleted, body, worker, starts,
                          answers>>
<1>1. ref[r] \in Int /\ main \in MainStates /\ main.at \in {"game", "callback"}
  BY Types DEF GameRelease, GameRuns
<1>2. main' = [main EXCEPT !.at = "releaseStore", !.req = r, !.count = ref[r],
                           !.back = main.at]
  BY DEF GameRelease
<1>3. MainMoves("releaseStore", r, ref[r], main.at, main.itr)
  BY <1>1, <1>2 DEF MainMoves, MainStates, MainAt
<1>q. QED
  BY <1>1, <1>3 DEF GameRelease, counts, history

LEMMA StoreInRef ==
    ASSUME TypeOK, NEW r \in Requests, NEW c \in Int, ref' = [ref EXCEPT ![r] = c]
    PROVE  Stores(r, c)
  BY DEF TypeOK, Stores

LEMMA RetainStoreStep ==
    ASSUME TypeOK, Control, RetainStore
    PROVE  /\ main.at = "retainStore" /\ main.req \in Requests
           /\ MainMoves("insert", main.req, main.count, main.back, main.itr)
           /\ Stores(main.req, main.count + 1)
           /\ UNCHANGED <<queue, avail, pending, lock, deleted, owned, body, worker, starts,
                          answers>>
<1>1. main \in MainStates /\ main.at = "retainStore"
  BY Types DEF RetainStore
<1>2. main.req \in Requests /\ main.count + 1 \in Int
  BY <1>1 DEF Control, Operating, MainStates
<1>3. ref' = [ref EXCEPT ![main.req] = main.count + 1] /\ main' = [main EXCEPT !.at = "insert"]
  BY DEF RetainStore
<1>4. Stores(main.req, main.count + 1)
  BY <1>2, <1>3, StoreInRef
<1>5. MainMoves("insert", main.req, main.count, main.back, main.itr)
  BY <1>1, <1>3 DEF MainMoves, MainStates, MainAt
<1>q. QED
  BY <1>1, <1>2, <1>4, <1>5 DEF RetainStore, history

LEMMA InsertRequestStep ==
    ASSUME TypeOK, Control, InsertRequest
    PROVE  /\ main.at = "insert" /\ main.req \in Requests
           /\ MainMoves("post", main.req, main.count, main.back, main.itr)
           /\ queue' = Append(queue, main.req)
           /\ queue' \in Seq(Requests) /\ Len(queue') = Len(queue) + 1
           /\ \A i \in 1 .. Len(queue) : queue'[i] = queue[i]
           /\ queue'[Len(queue) + 1] = main.req
           /\ UNCHANGED <<avail, pending, lock, ref, deleted, owned, body, worker, starts,
                          answers>>
<1>1. main \in MainStates /\ main.at = "insert"
  BY Types DEF InsertRequest
<1>2. main.req \in Requests
  BY <1>1 DEF Control, Operating
<1>3. queue' = Append(queue, main.req) /\ main' = [main EXCEPT !.at = "post"]
  BY DEF InsertRequest
<1>4. /\ queue' \in Seq(Requests) /\ Len(queue') = Len(queue) + 1
      /\ \A i \in 1 .. Len(queue) : queue'[i] = queue[i]
      /\ queue'[Len(queue) + 1] = main.req
  BY <1>2, <1>3, Types, AppendToSeq
<1>5. MainMoves("post", main.req, main.count, main.back, main.itr)
  BY <1>1, <1>3 DEF MainMoves, MainStates, MainAt
<1>q. QED
  BY <1>1, <1>2, <1>3, <1>4, <1>5 DEF InsertRequest, counts, history

LEMMA PostAvailStep ==
    ASSUME TypeOK, Control, PostAvail
    PROVE  /\ main.at = "post" /\ main.back \in {"game", "callback"}
           /\ MainMoves(main.back, main.req, main.count, main.back, main.itr)
           /\ avail' = avail + 1 /\ avail' \in Nat
           /\ UNCHANGED <<queue, pending, lock, ref, deleted, owned, body, worker, starts,
                          answers>>
<1>1. main \in MainStates /\ main.at = "post" /\ main' = [main EXCEPT !.at = main.back]
  BY Types DEF PostAvail
<1>2. main.back \in {"game", "callback"}
  BY <1>1 DEF Control, MainStates
<1>3. MainMoves(main.back, main.req, main.count, main.back, main.itr)
  BY <1>1, <1>2 DEF MainMoves, MainStates, MainAt
<1>4. avail' = avail + 1 /\ avail' \in Nat
  BY DEF PostAvail, TypeOK
<1>q. QED
  BY <1>1, <1>2, <1>3, <1>4 DEF PostAvail, counts, history

LEMMA ReleaseStoreStep ==
    ASSUME TypeOK, Control, ReleaseStore
    PROVE  /\ main.at = "releaseStore" /\ main.req \in Requests
           /\ MainMoves("releaseTest", main.req, main.count - 1, main.back, main.itr)
           /\ Stores(main.req, main.count - 1)
           /\ UNCHANGED <<queue, avail, pending, lock, deleted, owned, body, worker, starts,
                          answers>>
<1>1. main \in MainStates /\ main.at = "releaseStore"
  BY Types DEF ReleaseStore
<1>2. main.req \in Requests /\ main.count - 1 \in Int
  BY <1>1 DEF Control, Operating, MainStates
<1>3. /\ ref' = [ref EXCEPT ![main.req] = main.count - 1]
      /\ main' = [main EXCEPT !.at = "releaseTest", !.count = main.count - 1]
  BY DEF ReleaseStore
<1>4. Stores(main.req, main.count - 1)
  BY <1>2, <1>3, StoreInRef
<1>5. MainMoves("releaseTest", main.req, main.count - 1, main.back, main.itr)
  BY <1>1, <1>2, <1>3 DEF MainMoves, MainStates, MainAt
<1>q. QED
  BY <1>1, <1>2, <1>4, <1>5 DEF ReleaseStore, history

LEMMA ReleaseTestStep ==
    ASSUME TypeOK, Control, ReleaseTest
    PROVE  /\ main.at = "releaseTest" /\ main.req \in Requests
           /\ main.back \in {"game", "callback", "drain"}
           /\ MainMoves(main.back, main.req, main.count, main.back, main.itr)
           /\ \/ deleted' = deleted
              \/ deleted' = deleted \cup {main.req} /\ (main.count = 0 \/ ref[main.req] = 0)
           /\ UNCHANGED <<queue, avail, pending, lock, ref, owned, body, worker, starts,
                          answers>>
<1>1. main \in MainStates /\ main.at = "releaseTest" /\ main' = [main EXCEPT !.at = main.back]
  BY Types DEF ReleaseTest
<1>2. main.back \in {"game", "callback", "drain"}
  BY <1>1 DEF MainStates
<1>3. main.req \in Requests
  BY <1>1 DEF Control, Operating
<1>4. MainMoves(main.back, main.req, main.count, main.back, main.itr)
  BY <1>1, <1>2 DEF MainMoves, MainStates, MainAt
<1>5. PICK c \in {main.count, ref[main.req]} :
         deleted' = IF c = 0 THEN deleted \cup {main.req} ELSE deleted
  BY DEF ReleaseTest
<1>6. \/ deleted' = deleted
      \/ deleted' = deleted \cup {main.req} /\ (main.count = 0 \/ ref[main.req] = 0)
  BY <1>5
<1>q. QED
  BY <1>1, <1>2, <1>3, <1>4, <1>6 DEF ReleaseTest, history

LEMMA BeginDrainStep ==
    ASSUME TypeOK, Control, BeginDrain
    PROVE  /\ main.at = "game" /\ lock = "free" /\ lock' = "main"
           /\ MainMoves("drain", main.req, main.count, main.back, main.itr)
           /\ UNCHANGED <<queue, avail, pending, ref, deleted, owned, body, worker, starts,
                          answers>>
<1>1. main \in MainStates /\ main.at = "game" /\ main' = [main EXCEPT !.at = "drain"]
  BY Types DEF BeginDrain
<1>2. MainMoves("drain", main.req, main.count, main.back, main.itr)
  BY <1>1 DEF MainMoves, MainStates, MainAt
<1>q. QED
  BY <1>1, <1>2 DEF BeginDrain, counts, history

LEMMA InvokePendingStep ==
    ASSUME TypeOK, Control, InvokePending
    PROVE  /\ main.at = "drain"
           /\ main.itr \in 1 .. Len(pending)
           /\ pending[main.itr].req \in Requests
           /\ MainMoves("callback", main.req, main.count, main.back, main.itr + 1)
           /\ Counts(answers, pending[main.itr].req)
           /\ UNCHANGED <<queue, avail, pending, lock, ref, deleted, owned, body, worker,
                          starts>>
<1>1. /\ main \in MainStates /\ main.at = "drain"
      /\ main' = [main EXCEPT !.at = "callback", !.itr = @ + 1]
  BY Types DEF InvokePending
<1>2. main.itr \in 1 .. Len(pending)
  BY Types DEF Control, InvokePending
<1>3. pending[main.itr].req \in Requests
  BY <1>2, Types
<1>4. MainMoves("callback", main.req, main.count, main.back, main.itr + 1)
  <2>1. main.itr \in Nat /\ main.itr + 1 \in Nat
    BY <1>1 DEF MainStates
  <2>q. QED
    BY <1>1, <2>1 DEF MainMoves, MainStates, MainAt
<1>5. /\ answers \in [Requests -> Nat]
      /\ answers' = [answers EXCEPT ![pending[main.itr].req] = @ + 1]
  BY DEF InvokePending, TypeOK
<1>6. Counts(answers, pending[main.itr].req)
  BY <1>3, <1>5, OneMore DEF Counts
<1>q. QED
  BY <1>1, <1>2, <1>3, <1>4, <1>6 DEF InvokePending, counts

LEMMA EndCallbackStep ==
    ASSUME TypeOK, Control, EndCallback
    PROVE  /\ main.at = "callback"
           /\ main.itr - 1 \in 1 .. Len(pending)
           /\ pending[main.itr - 1].req \in Requests
           /\ MainMoves("releaseStore", pending[main.itr - 1].req,
                        ref[pending[main.itr - 1].req], "drain", main.itr)
           /\ UNCHANGED <<queue, avail, pending, lock, ref, deleted, owned, body, worker,
                          starts, answers>>
<1>1. main \in MainStates /\ main.at = "callback"
  BY Types DEF EndCallback
<1>2. main.itr - 1 \in 1 .. Len(pending)
  BY <1>1, Types DEF Control, Calling
<1> DEFINE r == pending[main.itr - 1].req
<1>3. r \in Requests /\ ref[r] \in Int
  BY <1>2, Types
<1>4. main' = [main EXCEPT !.at = "releaseStore", !.req = r, !.count = ref[r],
                           !.back = "drain"]
  BY DEF EndCallback
<1> HIDE DEF r
<1>5. MainMoves("releaseStore", r, ref[r], "drain", main.itr)
  BY <1>1, <1>3, <1>4 DEF MainMoves, MainStates, MainAt
<1>q. QED
  BY <1>1, <1>2, <1>3, <1>5 DEF EndCallback, counts, history, r

LEMMA EndDrainStep ==
    ASSUME TypeOK, Control, EndDrain
    PROVE  /\ main.at = "drain" /\ main.itr > Len(pending)
           /\ MainMoves("game", main.req, main.count, main.back, 1)
           /\ pending' = <<>> /\ pending' \in Seq(Calls) /\ Len(pending') = 0
           /\ lock' = "free"
           /\ UNCHANGED <<queue, avail, ref, deleted, owned, body, worker, starts, answers>>
<1>1. /\ main \in MainStates /\ main.at = "drain"
      /\ main' = [main EXCEPT !.at = "game", !.itr = 1]
  BY Types DEF EndDrain
<1>2. MainMoves("game", main.req, main.count, main.back, 1)
  BY <1>1 DEF MainMoves, MainStates, MainAt
<1>3. pending' = <<>> /\ pending' \in Seq(Calls) /\ Len(pending') = 0
  BY EmptySeq DEF EndDrain
<1>q. QED
  BY <1>1, <1>2, <1>3 DEF EndDrain, counts, history

LEMMA WaitAvailStep ==
    ASSUME TypeOK, Control, WaitAvail
    PROVE  /\ worker.at = "wait" /\ avail > 0
           /\ WorkerMoves("take", worker.req, worker.count)
           /\ avail' = avail - 1
           /\ UNCHANGED <<queue, pending, lock, ref, deleted, owned, body, main, starts,
                          answers>>
<1>1. worker \in WorkerStates /\ worker' = [worker EXCEPT !.at = "take"]
  BY Types DEF WaitAvail
<1>2. WorkerMoves("take", worker.req, worker.count)
  BY <1>1 DEF WorkerMoves, WorkerStates, WorkerAt
<1>q. QED
  BY <1>2 DEF WaitAvail, counts, history

\* The working thread finds the queue empty, or takes its first request.
LEMMA TakeRequestStep ==
    ASSUME TypeOK, Control, TakeRequest
    PROVE  /\ worker.at = "take"
           /\ \/ /\ queue = <<>> /\ Len(queue) = 0
                 /\ WorkerMoves("wait", worker.req, worker.count)
                 /\ queue' = queue
              \/ /\ queue # <<>> /\ Len(queue) > 0
                 /\ queue[1] \in Requests
                 /\ WorkerMoves("perform", queue[1], worker.count)
                 /\ queue' = Tail(queue)
                 /\ queue' \in Seq(Requests) /\ Len(queue') = Len(queue) - 1
                 /\ \A i \in 1 .. Len(queue) - 1 : queue'[i] = queue[i + 1]
           /\ UNCHANGED <<avail, pending, lock, ref, deleted, owned, body, main, starts,
                          answers>>
<1>1. worker \in WorkerStates /\ worker.at = "take" /\ queue \in Seq(Requests)
  BY Types DEF TakeRequest
<1>2. CASE queue = <<>>
  <2>1. worker' = [worker EXCEPT !.at = "wait"] /\ queue' = queue
    BY <1>2 DEF TakeRequest
  <2>2. WorkerMoves("wait", worker.req, worker.count)
    BY <1>1, <2>1 DEF WorkerMoves, WorkerStates, WorkerAt
  <2>q. QED
    BY <1>1, <1>2, <2>1, <2>2, EmptySeq DEF TakeRequest, counts, history
<1>3. CASE queue # <<>>
  <2>1. worker' = [worker EXCEPT !.at = "perform", !.req = Head(queue)]
        /\ queue' = Tail(queue)
    BY <1>3 DEF TakeRequest
  <2>2. /\ Head(queue) = queue[1] /\ queue[1] \in Requests /\ Len(queue) > 0
        /\ Tail(queue) \in Seq(Requests) /\ Len(Tail(queue)) = Len(queue) - 1
        /\ \A i \in 1 .. Len(Tail(queue)) : Tail(queue)[i] = queue[i + 1]
    BY <1>1, <1>3, HeadTailProperties, EmptySeq
  <2>3. WorkerMoves("perform", queue[1], worker.count)
    BY <1>1, <2>1, <2>2 DEF WorkerMoves, WorkerStates, WorkerAt
  <2>q. QED
    BY <1>1, <1>3, <2>1, <2>2, <2>3 DEF TakeRequest, counts, history
<1>q. QED
  BY <1>2, <1>3

LEMMA PerformStep ==
    ASSUME TypeOK, Control, NEW outcome \in Outcomes, NEW leak \in BOOLEAN,
           Perform(outcome, leak)
    PROVE  /\ worker.at = "perform" /\ worker.req \in Requests
           /\ WorkerMoves("notify", worker.req, worker.count)
           /\ body' \in [Requests -> {"empty", "new", "old"}]
           /\ UNCHANGED <<queue, avail, pending, lock, ref, deleted, owned, main, starts,
                          answers>>
<1>1. /\ worker \in WorkerStates /\ worker.at = "perform"
      /\ worker' = [worker EXCEPT !.at = "notify", !.outcome = outcome, !.leak = leak]
  BY Types DEF Perform
<1>2. worker.req \in Requests
  BY <1>1 DEF Control
<1>3. WorkerMoves("notify", worker.req, worker.count)
  BY <1>1 DEF WorkerMoves, WorkerStates, WorkerAt
<1>4. body' \in [Requests -> {"empty", "new", "old"}]
  BY <1>2 DEF Perform, TypeOK
<1>q. QED
  BY <1>1, <1>2, <1>3, <1>4 DEF Perform, counts, history

LEMMA LockScheduleStep ==
    ASSUME TypeOK, Control, LockSchedule
    PROVE  /\ worker.at = "notify" /\ worker.req \in Requests
           /\ lock = "free" /\ lock' = "worker"
           /\ WorkerMoves("retainStore", worker.req, ref[worker.req])
           /\ UNCHANGED <<queue, avail, pending, ref, deleted, owned, body, main, starts,
                          answers>>
<1>1. /\ worker \in WorkerStates /\ worker.at = "notify"
      /\ worker' = [worker EXCEPT !.at = "retainStore", !.count = ref[worker.req]]
  BY Types DEF LockSchedule
<1>2. worker.req \in Requests /\ ref[worker.req] \in Int
  BY <1>1, Types DEF Control
<1>3. WorkerMoves("retainStore", worker.req, ref[worker.req])
  BY <1>1, <1>2 DEF WorkerMoves, WorkerStates, WorkerAt
<1>q. QED
  BY <1>1, <1>2, <1>3 DEF LockSchedule, counts, history

LEMMA WorkerRetainStoreStep ==
    ASSUME TypeOK, Control, WorkerRetainStore
    PROVE  /\ worker.at = "retainStore" /\ worker.req \in Requests
           /\ WorkerMoves("push", worker.req, worker.count)
           /\ Stores(worker.req, worker.count + 1)
           /\ UNCHANGED <<queue, avail, pending, lock, deleted, owned, body, main, starts,
                          answers>>
<1>1. /\ worker \in WorkerStates /\ worker.at = "retainStore"
      /\ worker' = [worker EXCEPT !.at = "push"]
      /\ ref' = [ref EXCEPT ![worker.req] = worker.count + 1]
  BY Types DEF WorkerRetainStore
<1>2. worker.req \in Requests /\ worker.count + 1 \in Int
  BY <1>1 DEF Control, WorkerStates
<1>3. WorkerMoves("push", worker.req, worker.count)
  BY <1>1 DEF WorkerMoves, WorkerStates, WorkerAt
<1>4. Stores(worker.req, worker.count + 1)
  BY <1>1, <1>2, StoreInRef
<1>q. QED
  BY <1>1, <1>2, <1>3, <1>4 DEF WorkerRetainStore, history

LEMMA PushScheduleStep ==
    ASSUME TypeOK, Control, PushSchedule
    PROVE  /\ worker.at = "push" /\ worker.req \in Requests
           /\ lock' = "free"
           /\ \/ WorkerMoves("wait", worker.req, worker.count)
              \/ WorkerMoves("release", worker.req, worker.count)
           /\ pending' \in Seq(Calls) /\ Len(pending') = Len(pending) + 1
           /\ \A i \in 1 .. Len(pending) : pending'[i] = pending[i]
           /\ pending'[Len(pending) + 1].req = worker.req
           /\ UNCHANGED <<queue, avail, ref, deleted, owned, body, main, starts, answers>>
<1>1. /\ worker \in WorkerStates /\ worker.at = "push"
      /\ worker' = [worker EXCEPT !.at = IF worker.leak THEN "wait" ELSE "release"]
  BY Types DEF PushSchedule
<1>2. worker.req \in Requests
  BY <1>1 DEF Control
<1>3. \/ WorkerMoves("wait", worker.req, worker.count)
      \/ WorkerMoves("release", worker.req, worker.count)
  BY <1>1 DEF WorkerMoves, WorkerStates, WorkerAt
<1> DEFINE call == [req |-> worker.req,
                    kind |-> IF worker.outcome = "error" THEN "error" ELSE "response"]
<1>4. call \in Calls /\ call.req = worker.req
  BY <1>2 DEF Calls
<1>5. pending' = Append(pending, call)
  BY DEF PushSchedule
<1> HIDE DEF call
<1>6. /\ pending' \in Seq(Calls) /\ Len(pending') = Len(pending) + 1
      /\ \A i \in 1 .. Len(pending) : pending'[i] = pending[i]
      /\ pending'[Len(pending) + 1].req = worker.req
  BY <1>4, <1>5, Types, AppendToSeq
<1>q. QED
  BY <1>1, <1>2, <1>3, <1>6 DEF PushSchedule, counts, history

LEMMA WorkerReleaseStep ==
    ASSUME TypeOK, Control, WorkerRelease
    PROVE  /\ worker.at = "release" /\ worker.req \in Requests
           /\ WorkerMoves("releaseStore", worker.req, ref[worker.req])
           /\ UNCHANGED <<queue, avail, pending, lock, ref, deleted, owned, body, main,
                          starts, answers>>
<1>1. /\ worker \in WorkerStates /\ worker.at = "release"
      /\ worker' = [worker EXCEPT !.at = "releaseStore", !.count = ref[worker.req]]
  BY Types DEF WorkerRelease
<1>2. worker.req \in Requests /\ ref[worker.req] \in Int
  BY <1>1, Types DEF Control
<1>3. WorkerMoves("releaseStore", worker.req, ref[worker.req])
  BY <1>1, <1>2 DEF WorkerMoves, WorkerStates, WorkerAt
<1>q. QED
  BY <1>1, <1>2, <1>3 DEF WorkerRelease, counts, history

LEMMA WorkerReleaseStoreStep ==
    ASSUME TypeOK, Control, WorkerReleaseStore
    PROVE  /\ worker.at = "releaseStore" /\ worker.req \in Requests
           /\ WorkerMoves("releaseTest", worker.req, worker.count - 1)
           /\ Stores(worker.req, worker.count - 1)
           /\ UNCHANGED <<queue, avail, pending, lock, deleted, owned, body, main, starts,
                          answers>>
<1>1. /\ worker \in WorkerStates /\ worker.at = "releaseStore"
      /\ worker' = [worker EXCEPT !.at = "releaseTest", !.count = worker.count - 1]
      /\ ref' = [ref EXCEPT ![worker.req] = worker.count - 1]
  BY Types DEF WorkerReleaseStore
<1>2. worker.req \in Requests /\ worker.count - 1 \in Int
  BY <1>1 DEF Control, WorkerStates
<1>3. WorkerMoves("releaseTest", worker.req, worker.count - 1)
  BY <1>1, <1>2 DEF WorkerMoves, WorkerStates, WorkerAt
<1>4. Stores(worker.req, worker.count - 1)
  BY <1>1, <1>2, StoreInRef
<1>q. QED
  BY <1>1, <1>2, <1>3, <1>4 DEF WorkerReleaseStore, history

LEMMA WorkerReleaseTestStep ==
    ASSUME TypeOK, Control, WorkerReleaseTest
    PROVE  /\ worker.at = "releaseTest" /\ worker.req \in Requests
           /\ WorkerMoves("wait", worker.req, worker.count)
           /\ \/ deleted' = deleted
              \/ /\ deleted' = deleted \cup {worker.req}
                 /\ worker.count = 0 \/ ref[worker.req] = 0
           /\ UNCHANGED <<queue, avail, pending, lock, ref, owned, body, main, starts,
                          answers>>
<1>1. /\ worker \in WorkerStates /\ worker.at = "releaseTest"
      /\ worker' = [worker EXCEPT !.at = "wait"]
  BY Types DEF WorkerReleaseTest
<1>2. worker.req \in Requests
  BY <1>1 DEF Control
<1>3. WorkerMoves("wait", worker.req, worker.count)
  BY <1>1 DEF WorkerMoves, WorkerStates, WorkerAt
<1>4. PICK c \in {worker.count, ref[worker.req]} :
         deleted' = IF c = 0 THEN deleted \cup {worker.req} ELSE deleted
  BY DEF WorkerReleaseTest
<1>5. \/ deleted' = deleted
      \/ /\ deleted' = deleted \cup {worker.req}
         /\ worker.count = 0 \/ ref[worker.req] = 0
  BY <1>4
<1>q. QED
  BY <1>1, <1>2, <1>3, <1>5 DEF WorkerReleaseTest, history

-----------------------------------------------------------------------------
(* The state is well formed, and each thread is where it can be. *)

LEMMA ControlInit == Init => TypeOK /\ Control
<1> SUFFICES ASSUME Init PROVE TypeOK /\ Control
  OBVIOUS
<1>1. queue \in Seq(Requests) /\ pending \in Seq(Calls) /\ Len(pending) = 0
  BY EmptySeq DEF Init
<1>2. main \in MainStates /\ main.at = "game" /\ main.itr = 1
  BY DEF Init, MainAt, MainStates
<1>3. worker \in WorkerStates /\ worker.at = "wait"
  BY DEF Init, WorkerAt, Outcomes, WorkerStates
<1>4. /\ avail \in Nat /\ lock = "free" /\ ref \in [Requests -> Int]
      /\ deleted \in SUBSET Requests /\ owned \in SUBSET Requests
      /\ body \in [Requests -> {"empty", "new", "old"}]
      /\ starts \in [Requests -> Nat] /\ answers \in [Requests -> Nat]
  BY DEF Init
<1>5. TypeOK
  BY <1>1, <1>2, <1>3, <1>4 DEF TypeOK, Calls, MainStates, WorkerStates
<1>q. QED
  BY <1>1, <1>2, <1>3, <1>4, <1>5 DEF Control, Operating, Draining, Calling

LEMMA ControlMainThread ==
    ASSUME TypeOK, Control, Game \/ MainThread
    PROVE  TypeOK' /\ Control'
<1>1. ASSUME NEW r \in Requests, StartRequest(r)
      PROVE  TypeOK' /\ Control'
  <2>1. TypeOK'
    BY <1>1, StartRequestStep, SMTT(60) DEF TypeOK, MainStates, WorkerStates, MainMoves, Counts
  <2>2. Control'
    BY <1>1, StartRequestStep, Types DEF Control, Operating, Draining, Calling, MainMoves
  <2>q. QED
    BY <2>1, <2>2
<1>2. ASSUME NEW r \in Requests, GameRelease(r)
      PROVE  TypeOK' /\ Control'
  <2>1. TypeOK'
    BY <1>2, GameReleaseStep DEF TypeOK, MainStates, WorkerStates, MainMoves
  <2>2. Control'
    BY <1>2, GameReleaseStep, Types DEF Control, Operating, Draining, Calling, MainMoves
  <2>q. QED
    BY <2>1, <2>2
<1>3. CASE RetainStore
  <2>1. TypeOK'
    BY <1>3, RetainStoreStep DEF TypeOK, MainStates, WorkerStates, MainMoves, Stores
  <2>2. Control'
    BY <1>3, RetainStoreStep, Types DEF Control, Operating, Draining, Calling, MainMoves
  <2>q. QED
    BY <2>1, <2>2
<1>4. CASE InsertRequest
  <2>1. TypeOK'
    BY <1>4, InsertRequestStep DEF TypeOK, MainStates, WorkerStates, MainMoves
  <2>2. Control'
    BY <1>4, InsertRequestStep, Types DEF Control, Operating, Draining, Calling, MainMoves
  <2>q. QED
    BY <2>1, <2>2
<1>5. CASE PostAvail
  <2>1. TypeOK'
    BY <1>5, PostAvailStep DEF TypeOK, MainStates, WorkerStates, MainMoves
  <2>2. Control'
    BY <1>5, PostAvailStep, Types DEF Control, Operating, Draining, Calling, MainMoves
  <2>q. QED
    BY <2>1, <2>2
<1>6. CASE ReleaseStore
  <2>1. TypeOK'
    BY <1>6, ReleaseStoreStep DEF TypeOK, MainStates, WorkerStates, MainMoves, Stores
  <2>2. Control'
    BY <1>6, ReleaseStoreStep, Types DEF Control, Operating, Draining, Calling, MainMoves
  <2>q. QED
    BY <2>1, <2>2
<1>7. CASE ReleaseTest
  <2>1. TypeOK'
    BY <1>7, ReleaseTestStep DEF TypeOK, MainStates, WorkerStates, MainMoves
  <2>2. Control'
    BY <1>7, ReleaseTestStep, Types DEF Control, Operating, Draining, Calling, MainMoves
  <2>q. QED
    BY <2>1, <2>2
<1>8. CASE BeginDrain
  <2>1. TypeOK'
    BY <1>8, BeginDrainStep DEF TypeOK, MainStates, WorkerStates, MainMoves
  <2>2. Control'
    BY <1>8, BeginDrainStep, Types DEF Control, Operating, Draining, Calling, MainMoves
  <2>q. QED
    BY <2>1, <2>2
<1>9. CASE InvokePending
  <2>1. TypeOK'
    BY <1>9, InvokePendingStep DEF TypeOK, MainStates, WorkerStates, MainMoves, Counts
  <2>2. Control'
    BY <1>9, InvokePendingStep, Types DEF Control, Operating, Draining, Calling, MainMoves
  <2>q. QED
    BY <2>1, <2>2
<1>10. CASE EndCallback
  <2>1. TypeOK'
    BY <1>10, EndCallbackStep DEF TypeOK, MainStates, WorkerStates, MainMoves
  <2>2. Control'
    BY <1>10, EndCallbackStep, Types DEF Control, Operating, Draining, Calling, MainMoves
  <2>q. QED
    BY <2>1, <2>2
<1>11. CASE EndDrain
  <2>1. TypeOK'
    BY <1>11, EndDrainStep DEF TypeOK, MainStates, WorkerStates, MainMoves, Calls
  <2>2. Control'
    BY <1>11, EndDrainStep, Types DEF Control, Operating, Draining, Calling, MainMoves
  <2>q. QED
    BY <2>1, <2>2
<1>q. QED
  BY <1>1, <1>2, <1>3, <1>4, <1>5, <1>6, <1>7, <1>8, <1>9, <1>10, <1>11 DEF Game, MainThread

LEMMA ControlWorkingThread ==
    ASSUME TypeOK, Control, WorkingThread
    PROVE  TypeOK' /\ Control'
<1>1. CASE WaitAvail
  <2>1. TypeOK'
    BY <1>1, WaitAvailStep, SMTT(30) DEF TypeOK, MainStates, WorkerStates, WorkerMoves
  <2>2. Control'
    BY <1>1, WaitAvailStep, Types DEF Control, Operating, Draining, Calling, WorkerMoves
  <2>q. QED
    BY <2>1, <2>2
<1>2. CASE TakeRequest
  <2>1. TypeOK'
    BY <1>2, TakeRequestStep DEF TypeOK, MainStates, WorkerStates, WorkerMoves
  <2>2. Control'
    BY <1>2, TakeRequestStep, Types DEF Control, Operating, Draining, Calling, WorkerMoves
  <2>q. QED
    BY <2>1, <2>2
<1>3. ASSUME NEW outcome \in Outcomes, NEW leak \in BOOLEAN, Perform(outcome, leak)
      PROVE  TypeOK' /\ Control'
  <2>1. TypeOK'
    BY <1>3, PerformStep, SMTT(30) DEF TypeOK, MainStates, WorkerStates, WorkerMoves
  <2>2. Control'
    BY <1>3, PerformStep, Types DEF Control, Operating, Draining, Calling, WorkerMoves
  <2>q. QED
    BY <2>1, <2>2
<1>4. CASE LockSchedule
  <2>1. TypeOK'
    BY <1>4, LockScheduleStep DEF TypeOK, MainStates, WorkerStates, WorkerMoves
  <2>2. Control'
    BY <1>4, LockScheduleStep, Types DEF Control, Operating, Draining, Calling, WorkerMoves
  <2>q. QED
    BY <2>1, <2>2
<1>5. CASE WorkerRetainStore
  <2>1. TypeOK'
    BY <1>5, WorkerRetainStoreStep DEF TypeOK, MainStates, WorkerStates, WorkerMoves, Stores
  <2>2. Control'
    BY <1>5, WorkerRetainStoreStep, Types DEF Control, Operating, Draining, Calling, WorkerMoves
  <2>q. QED
    BY <2>1, <2>2
<1>6. CASE PushSchedule
  <2>1. TypeOK'
    BY <1>6, PushScheduleStep DEF TypeOK, MainStates, WorkerStates, WorkerMoves, Calls
  <2>2. Control'
    BY <1>6, PushScheduleStep, Types DEF Control, Operating, Draining, Calling, WorkerMoves
  <2>q. QED
    BY <2>1, <2>2
<1>7. CASE WorkerRelease
  <2>1. TypeOK'
    BY <1>7, WorkerReleaseStep DEF TypeOK, MainStates, WorkerStates, WorkerMoves
  <2>2. Control'
    BY <1>7, WorkerReleaseStep, Types DEF Control, Operating, Draining, Calling, WorkerMoves
  <2>q. QED
    BY <2>1, <2>2
<1>8. CASE WorkerReleaseStore
  <2>1. TypeOK'
    BY <1>8, WorkerReleaseStoreStep DEF TypeOK, MainStates, WorkerStates, WorkerMoves, Stores
  <2>2. Control'
    BY <1>8, WorkerReleaseStoreStep, Types DEF Control, Operating, Draining, Calling, WorkerMoves
  <2>q. QED
    BY <2>1, <2>2
<1>9. CASE WorkerReleaseTest
  <2>1. TypeOK'
    BY <1>9, WorkerReleaseTestStep DEF TypeOK, MainStates, WorkerStates, WorkerMoves
  <2>2. Control'
    BY <1>9, WorkerReleaseTestStep, Types DEF Control, Operating, Draining, Calling, WorkerMoves
  <2>q. QED
    BY <2>1, <2>2
<1>q. QED
  BY <1>1, <1>2, <1>3, <1>4, <1>5, <1>6, <1>7, <1>8, <1>9 DEF WorkingThread

LEMMA ControlStutter ==
    ASSUME TypeOK, Control, UNCHANGED vars
    PROVE  TypeOK' /\ Control'
  BY DEF TypeOK, Control, vars, Operating, Draining, Calling

LEMMA ControlNext == TypeOK /\ Control /\ [Next]_vars => TypeOK' /\ Control'
  BY ControlMainThread, ControlWorkingThread, ControlStutter DEF Next

LEMMA ControlAlways == Spec => [](TypeOK /\ Control)
  BY ControlInit, ControlNext, PTL DEF Spec

\* The state stays well formed, for any requests and whatever the game does early.
\* That every step of a thread has a request to work on needs Control.
THEOREM TypeCorrect == Spec => []TypeOK
  BY ControlAlways, PTL

-----------------------------------------------------------------------------
(* The semaphore. *)

LEMMA SemaphoreMainThread ==
    ASSUME TypeOK, Control, SemaphoreCountsQueue, Game \/ MainThread
    PROVE  SemaphoreCountsQueue'
<1> USE DEF SemaphoreCountsQueue, MainMoves
<1>1. Len(queue) \in Nat /\ avail \in Nat
  BY Types DEF TypeOK
<1>2. ASSUME NEW r \in Requests, StartRequest(r)
      PROVE  SemaphoreCountsQueue'
  BY <1>2, StartRequestStep
<1>3. ASSUME NEW r \in Requests, GameRelease(r)
      PROVE  SemaphoreCountsQueue'
  BY <1>3, GameReleaseStep
<1>4. CASE RetainStore
  BY <1>4, RetainStoreStep
<1>5. CASE InsertRequest
  BY <1>1, <1>5, InsertRequestStep
<1>6. CASE PostAvail
  BY <1>1, <1>6, PostAvailStep
<1>7. CASE ReleaseStore
  BY <1>7, ReleaseStoreStep
<1>8. CASE ReleaseTest
  BY <1>8, ReleaseTestStep
<1>9. CASE BeginDrain
  BY <1>9, BeginDrainStep
<1>10. CASE InvokePending
  BY <1>10, InvokePendingStep
<1>11. CASE EndCallback
  BY <1>11, EndCallbackStep
<1>12. CASE EndDrain
  BY <1>12, EndDrainStep
<1>q. QED
  BY <1>2, <1>3, <1>4, <1>5, <1>6, <1>7, <1>8, <1>9, <1>10, <1>11, <1>12
     DEF Game, MainThread

LEMMA SemaphoreWorkingThread ==
    ASSUME TypeOK, Control, SemaphoreCountsQueue, WorkingThread
    PROVE  SemaphoreCountsQueue'
<1> USE DEF SemaphoreCountsQueue, WorkerMoves
<1>1. Len(queue) \in Nat /\ avail \in Nat
  BY Types DEF TypeOK
<1>2. CASE WaitAvail
  BY <1>1, <1>2, WaitAvailStep
<1>3. CASE TakeRequest
  BY <1>1, <1>3, TakeRequestStep
<1>4. ASSUME NEW outcome \in Outcomes, NEW leak \in BOOLEAN, Perform(outcome, leak)
      PROVE  SemaphoreCountsQueue'
  BY <1>4, PerformStep
<1>5. CASE LockSchedule
  BY <1>5, LockScheduleStep
<1>6. CASE WorkerRetainStore
  BY <1>6, WorkerRetainStoreStep
<1>7. CASE PushSchedule
  BY <1>7, PushScheduleStep
<1>8. CASE WorkerRelease
  BY <1>8, WorkerReleaseStep
<1>9. CASE WorkerReleaseStore
  BY <1>9, WorkerReleaseStoreStep
<1>10. CASE WorkerReleaseTest
  BY <1>10, WorkerReleaseTestStep
<1>q. QED
  BY <1>2, <1>3, <1>4, <1>5, <1>6, <1>7, <1>8, <1>9, <1>10 DEF WorkingThread

\* The semaphore counts the requests in the queue that nobody is about to take or has
\* still to post: the working thread never wakes for nothing and never sleeps over a
\* request, whatever the game does early.
THEOREM NoLostWakeup == Spec => []SemaphoreCountsQueue
<1>1. Init => SemaphoreCountsQueue
  BY EmptySeq DEF Init, SemaphoreCountsQueue
<1>2. ASSUME TypeOK, Control, SemaphoreCountsQueue, [Next]_vars
      PROVE  SemaphoreCountsQueue'
  <2>1. CASE UNCHANGED vars
    BY <1>2, <2>1 DEF vars, SemaphoreCountsQueue
  <2>q. QED
    BY <1>2, <2>1, SemaphoreMainThread, SemaphoreWorkingThread DEF Next
<1>3. TypeOK /\ Control /\ SemaphoreCountsQueue /\ [Next]_vars => SemaphoreCountsQueue'
  BY <1>2
<1>q. QED
  BY <1>1, <1>3, ControlAlways, PTL DEF Spec

-----------------------------------------------------------------------------
(* A request that was started and not answered is in exactly one place. *)

Scheduled(r) == \E i \in main.itr .. Len(pending) : pending[i].req = r
Performed(r) == worker.at \in {"perform", "notify", "retainStore", "push"} /\ worker.req = r
Queued(r) == \E i \in 1 .. Len(queue) : queue[i] = r
Inserted(r) == main.at \in {"retainStore", "insert"} /\ main.req = r

InOnePlace(r) ==
    /\ starts[r] - answers[r] \in {0, 1}
    /\ InFlight(r) <=> Scheduled(r) \/ Performed(r) \/ Queued(r) \/ Inserted(r)
    /\ ~(Scheduled(r) /\ Performed(r))
    /\ ~(Scheduled(r) /\ Queued(r))
    /\ ~(Scheduled(r) /\ Inserted(r))
    /\ ~(Performed(r) /\ Queued(r))
    /\ ~(Performed(r) /\ Inserted(r))
    /\ ~(Queued(r) /\ Inserted(r))

OnePlace ==
    /\ \A r \in Requests : InOnePlace(r)
    /\ \A i, j \in 1 .. Len(queue) : queue[i] = queue[j] => i = j
    /\ \A i, j \in 1 .. Len(pending) : pending[i].req = pending[j].req => i = j

\* A step that moves no request.
SamePlaces ==
    /\ \A r \in Requests : /\ Scheduled(r)' <=> Scheduled(r)
                           /\ Performed(r)' <=> Performed(r)
                           /\ Queued(r)' <=> Queued(r)
                           /\ Inserted(r)' <=> Inserted(r)
    /\ UNCHANGED <<queue, starts, answers>>
    /\ pending' = pending \/ Len(pending') = 0

LEMMA SamePlacesMainThread ==
    ASSUME TypeOK, Control,
           \/ \E r \in Requests : GameRelease(r)
           \/ RetainStore \/ PostAvail \/ ReleaseStore \/ ReleaseTest
           \/ BeginDrain \/ EndCallback \/ EndDrain
    PROVE  SamePlaces
<1> USE DEF SamePlaces, Scheduled, Performed, Queued, Inserted, MainMoves
<1>1. ASSUME NEW r \in Requests, GameRelease(r)
      PROVE  SamePlaces
  BY <1>1, GameReleaseStep
<1>2. CASE RetainStore
  BY <1>2, RetainStoreStep
<1>3. CASE PostAvail
  BY <1>3, PostAvailStep
<1>4. CASE ReleaseStore
  BY <1>4, ReleaseStoreStep
<1>5. CASE ReleaseTest
  BY <1>5, ReleaseTestStep
<1>6. CASE BeginDrain
  BY <1>6, BeginDrainStep
<1>7. CASE EndCallback
  BY <1>7, EndCallbackStep
<1>8. CASE EndDrain
  <2>1. main.itr .. Len(pending) = {} /\ main'.itr .. Len(pending') = {}
    BY <1>8, EndDrainStep, Types DEF MainStates
  <2>q. QED
    BY <1>8, <2>1, EndDrainStep
<1>q. QED
  BY <1>1, <1>2, <1>3, <1>4, <1>5, <1>6, <1>7, <1>8

LEMMA SamePlacesWorkingThread ==
    ASSUME TypeOK, Control,
           \/ WaitAvail
           \/ TakeRequest /\ queue = <<>>
           \/ \E outcome \in Outcomes, leak \in BOOLEAN : Perform(outcome, leak)
           \/ LockSchedule \/ WorkerRetainStore
           \/ WorkerRelease \/ WorkerReleaseStore \/ WorkerReleaseTest
    PROVE  SamePlaces
<1> USE DEF SamePlaces, Scheduled, Performed, Queued, Inserted, WorkerMoves
<1>1. CASE WaitAvail
  BY <1>1, WaitAvailStep
<1>2. CASE TakeRequest /\ queue = <<>>
  BY <1>2, TakeRequestStep
<1>3. ASSUME NEW outcome \in Outcomes, NEW leak \in BOOLEAN, Perform(outcome, leak)
      PROVE  SamePlaces
  BY <1>3, PerformStep
<1>4. CASE LockSchedule
  BY <1>4, LockScheduleStep
<1>5. CASE WorkerRetainStore
  BY <1>5, WorkerRetainStoreStep
<1>6. CASE WorkerRelease
  BY <1>6, WorkerReleaseStep
<1>7. CASE WorkerReleaseStore
  BY <1>7, WorkerReleaseStoreStep
<1>8. CASE WorkerReleaseTest
  BY <1>8, WorkerReleaseTestStep
<1>q. QED
  BY <1>1, <1>2, <1>3, <1>4, <1>5, <1>6, <1>7, <1>8

LEMMA SamePlacesKeep ==
    ASSUME TypeOK, OnePlace, SamePlaces
    PROVE  OnePlace'
<1>1. \A r \in Requests : InOnePlace(r)'
  BY DEF OnePlace, SamePlaces, InOnePlace, InFlight
<1>2. \A i, j \in 1 .. Len(pending') : pending'[i].req = pending'[j].req => i = j
  BY DEF OnePlace, SamePlaces
<1>q. QED
  BY <1>1, <1>2 DEF OnePlace, SamePlaces

\* A started request is about to be inserted ...
LEMMA StartRequestPlaces ==
    ASSUME TypeOK, Control, OnePlace, NEW q \in Requests, StartRequest(q)
    PROVE  OnePlace'
<1>1. ASSUME NEW r \in Requests
      PROVE  /\ Scheduled(r)' <=> Scheduled(r)
             /\ Performed(r)' <=> Performed(r)
             /\ Queued(r)' <=> Queued(r)
             /\ Inserted(r)' <=> r = q
             /\ ~Inserted(r)
  BY StartRequestStep DEF Scheduled, Performed, Queued, Inserted, MainMoves
<1>2. ~InFlight(q) /\ Counts(starts, q) /\ UNCHANGED <<queue, pending, answers>>
  BY StartRequestStep
<1>3. ASSUME NEW r \in Requests
      PROVE  InOnePlace(r)'
  <2>1. InOnePlace(r) /\ InOnePlace(q) /\ starts[r] \in Nat /\ answers[r] \in Nat
    BY Types DEF OnePlace
  <2>2. CASE r = q
    <3>1. starts'[r] = starts[r] + 1 /\ answers'[r] = answers[r]
      BY <1>2, <2>2 DEF Counts
    <3>2. starts'[r] - answers'[r] = 1 /\ InFlight(r)'
      BY <1>2, <2>1, <2>2, <3>1 DEF InFlight, InOnePlace
    <3>q. QED
      BY <1>1, <1>2, <2>1, <2>2, <3>2 DEF InOnePlace
  <2>3. CASE r # q
    <3>1. starts'[r] = starts[r] /\ answers'[r] = answers[r]
      BY <1>2, <2>3 DEF Counts
    <3>q. QED
      BY <1>1, <2>1, <2>3, <3>1 DEF InOnePlace, InFlight
  <2>q. QED
    BY <2>2, <2>3
<1>q. QED
  BY <1>2, <1>3 DEF OnePlace

\* ... then in the queue ...
LEMMA InsertRequestPlaces ==
    ASSUME TypeOK, Control, OnePlace, InsertRequest
    PROVE  OnePlace'
<1>1. /\ main.req \in Requests /\ Inserted(main.req)
      /\ Len(queue) \in Nat /\ Len(queue') = Len(queue) + 1
      /\ \A i \in 1 .. Len(queue) : queue'[i] = queue[i]
      /\ queue'[Len(queue) + 1] = main.req
      /\ UNCHANGED <<pending, starts, answers>>
  BY InsertRequestStep, Types DEF Inserted
<1>2. ASSUME NEW r \in Requests
      PROVE  Queued(r)' <=> Queued(r) \/ r = main.req
  <2>1. 1 .. Len(queue') = 1 .. Len(queue) \cup {Len(queue) + 1}
    BY <1>1
  <2>q. QED
    BY <1>1, <2>1 DEF Queued
<1>3. ASSUME NEW r \in Requests
      PROVE  /\ Scheduled(r)' <=> Scheduled(r)
             /\ Performed(r)' <=> Performed(r)
             /\ ~Inserted(r)'
             /\ Inserted(r) <=> r = main.req
  BY InsertRequestStep DEF Scheduled, Performed, Inserted, MainMoves
<1>4. ASSUME NEW r \in Requests
      PROVE  InOnePlace(r)'
  <2>1. InOnePlace(r)
    BY DEF OnePlace
  <2>q. QED
    BY <1>1, <1>2, <1>3, <2>1 DEF InOnePlace, InFlight
<1>5. ~Queued(main.req)
  BY <1>1 DEF OnePlace, InOnePlace
<1>6. \A i, j \in 1 .. Len(queue') : queue'[i] = queue'[j] => i = j
  BY <1>1, <1>5 DEF OnePlace, Queued
<1>q. QED
  BY <1>1, <1>4, <1>6 DEF OnePlace

\* ... performed when it is the first ...
LEMMA TakeRequestPlaces ==
    ASSUME TypeOK, Control, OnePlace, TakeRequest, queue # <<>>
    PROVE  OnePlace'
<1>1. /\ worker.at = "take" /\ queue[1] \in Requests
      /\ worker'.at = "perform" /\ worker'.req = queue[1]
      /\ Len(queue) \in Nat \ {0} /\ Len(queue') = Len(queue) - 1
      /\ \A i \in 1 .. Len(queue) - 1 : queue'[i] = queue[i + 1]
      /\ UNCHANGED <<main, pending, starts, answers>>
  BY TakeRequestStep, Types DEF WorkerMoves
<1>2. \A i, j \in 1 .. Len(queue) : queue[i] = queue[j] => i = j
  BY DEF OnePlace
<1>3. ASSUME NEW r \in Requests
      PROVE  Queued(r)' <=> Queued(r) /\ r # queue[1]
  <2>1. ASSUME NEW i \in 1 .. Len(queue'), queue'[i] = r
        PROVE  Queued(r) /\ r # queue[1]
    <3>1. i \in 1 .. Len(queue) - 1 /\ i + 1 \in 1 .. Len(queue) /\ i + 1 # 1
      BY <1>1
    <3>2. queue[i + 1] = r
      BY <1>1, <2>1, <3>1
    <3>3. 1 \in 1 .. Len(queue)
      BY <1>1
    <3>q. QED
      BY <1>2, <3>1, <3>2, <3>3 DEF Queued
  <2>2. ASSUME NEW i \in 1 .. Len(queue), queue[i] = r, r # queue[1]
        PROVE  Queued(r)'
    <3>1. i - 1 \in 1 .. Len(queue') /\ i - 1 \in 1 .. Len(queue) - 1 /\ i - 1 + 1 = i
      BY <1>1, <2>2
    <3>2. queue'[i - 1] = r
      BY <1>1, <2>2, <3>1
    <3>q. QED
      BY <3>1, <3>2 DEF Queued
  <2>q. QED
    BY <2>1, <2>2 DEF Queued
<1>4. ASSUME NEW r \in Requests
      PROVE  /\ Scheduled(r)' <=> Scheduled(r)
             /\ Inserted(r)' <=> Inserted(r)
             /\ ~Performed(r)
             /\ Performed(r)' <=> r = queue[1]
  BY <1>1 DEF Scheduled, Performed, Inserted
<1>5. Queued(queue[1])
  <2>1. 1 \in 1 .. Len(queue)
    BY <1>1
  <2>q. QED
    BY <2>1 DEF Queued
<1>6. ASSUME NEW r \in Requests
      PROVE  InOnePlace(r)'
  <2>1. InOnePlace(r)
    BY DEF OnePlace
  <2>q. QED
    BY <1>1, <1>3, <1>4, <1>5, <2>1 DEF InOnePlace, InFlight
<1>7. \A i, j \in 1 .. Len(queue') : queue'[i] = queue'[j] => i = j
  <2> SUFFICES ASSUME NEW i \in 1 .. Len(queue'), NEW j \in 1 .. Len(queue'),
                      queue'[i] = queue'[j]
               PROVE  i = j
    OBVIOUS
  <2>1. /\ i \in 1 .. Len(queue) - 1 /\ i + 1 \in 1 .. Len(queue)
        /\ j \in 1 .. Len(queue) - 1 /\ j + 1 \in 1 .. Len(queue)
    BY <1>1
  <2>2. queue[i + 1] = queue[j + 1]
    BY <1>1, <2>1
  <2>3. i + 1 = j + 1
    BY <1>2, <2>1, <2>2
  <2>q. QED
    BY <2>1, <2>3
<1>q. QED
  BY <1>1, <1>6, <1>7 DEF OnePlace

\* ... then scheduled ...
LEMMA PushSchedulePlaces ==
    ASSUME TypeOK, Control, OnePlace, PushSchedule
    PROVE  OnePlace'
<1>1. /\ worker.at = "push" /\ worker.req \in Requests /\ Performed(worker.req)
      /\ worker'.at \in {"wait", "release"}
      /\ Len(pending) \in Nat /\ Len(pending') = Len(pending) + 1
      /\ \A i \in 1 .. Len(pending) : pending'[i] = pending[i]
      /\ pending'[Len(pending) + 1].req = worker.req
      /\ UNCHANGED <<main, queue, starts, answers>>
  BY PushScheduleStep, Types DEF WorkerMoves, Performed
<1>2. main.itr = 1
  BY <1>1 DEF Control
<1>3. ASSUME NEW r \in Requests
      PROVE  Scheduled(r)' <=> Scheduled(r) \/ r = worker.req
  <2>1. 1 .. Len(pending') = 1 .. Len(pending) \cup {Len(pending) + 1}
    BY <1>1
  <2>q. QED
    BY <1>1, <1>2, <2>1 DEF Scheduled
<1>4. ASSUME NEW r \in Requests
      PROVE  /\ Queued(r)' <=> Queued(r)
             /\ Inserted(r)' <=> Inserted(r)
             /\ ~Performed(r)'
             /\ Performed(r) <=> r = worker.req
  BY <1>1 DEF Queued, Performed, Inserted
<1>5. ASSUME NEW r \in Requests
      PROVE  InOnePlace(r)'
  <2>1. InOnePlace(r)
    BY DEF OnePlace
  <2>q. QED
    BY <1>1, <1>3, <1>4, <2>1 DEF InOnePlace, InFlight
<1>6. ~Scheduled(worker.req)
  BY <1>1 DEF OnePlace, InOnePlace
<1>7. \A i, j \in 1 .. Len(pending') : pending'[i].req = pending'[j].req => i = j
  BY <1>1, <1>2, <1>6 DEF OnePlace, Scheduled
<1>q. QED
  BY <1>1, <1>5, <1>7 DEF OnePlace

\* ... until its callback is made.
LEMMA InvokePendingPlaces ==
    ASSUME TypeOK, Control, OnePlace, InvokePending
    PROVE  OnePlace'
<1> DEFINE q == pending[main.itr].req
<1>1. /\ main.at = "drain" /\ main'.at = "callback" /\ main'.itr = main.itr + 1
      /\ main.itr \in 1 .. Len(pending) /\ q \in Requests
      /\ Counts(answers, q)
      /\ UNCHANGED <<queue, pending, worker, starts>>
  BY InvokePendingStep DEF MainMoves
<1>2. \A i, j \in 1 .. Len(pending) : pending[i].req = pending[j].req => i = j
  BY DEF OnePlace
<1>3. ASSUME NEW r \in Requests
      PROVE  Scheduled(r)' <=> Scheduled(r) /\ r # q
  <2>1. ASSUME NEW i \in main.itr + 1 .. Len(pending)
        PROVE  pending[i].req # q
    <3>1. i \in 1 .. Len(pending) /\ i # main.itr
      BY <1>1
    <3>q. QED
      BY <1>1, <1>2, <3>1
  <2>2. main.itr .. Len(pending) = {main.itr} \cup (main.itr + 1 .. Len(pending))
    BY <1>1, Types
  <2>q. QED
    BY <1>1, <2>1, <2>2 DEF Scheduled
<1>4. Scheduled(q)
  <2>1. main.itr \in main.itr .. Len(pending)
    BY <1>1
  <2>q. QED
    BY <2>1 DEF Scheduled
<1> HIDE DEF q
<1>5. ASSUME NEW r \in Requests
      PROVE  /\ Performed(r)' <=> Performed(r)
             /\ Queued(r)' <=> Queued(r)
             /\ ~Inserted(r)' /\ ~Inserted(r)
  BY <1>1 DEF Performed, Queued, Inserted
<1>6. ASSUME NEW r \in Requests
      PROVE  InOnePlace(r)'
  <2>1. InOnePlace(r) /\ starts[r] \in Nat /\ answers[r] \in Nat
    BY Types DEF OnePlace
  <2>2. CASE r = q
    <3>1. starts[r] - answers[r] = 1
      BY <1>4, <2>1, <2>2 DEF InOnePlace, InFlight
    <3>2. starts'[r] = starts[r] /\ answers'[r] = answers[r] + 1
      BY <1>1, <2>2 DEF Counts
    <3>3. starts'[r] - answers'[r] = 0 /\ ~InFlight(r)'
      BY <2>1, <3>1, <3>2 DEF InFlight
    <3>q. QED
      BY <1>3, <1>4, <1>5, <2>1, <2>2, <3>3 DEF InOnePlace
  <2>3. CASE r # q
    <3>1. starts'[r] = starts[r] /\ answers'[r] = answers[r]
      BY <1>1, <2>3 DEF Counts
    <3>q. QED
      BY <1>3, <1>5, <2>1, <2>3, <3>1 DEF InOnePlace, InFlight
  <2>q. QED
    BY <2>2, <2>3
<1>q. QED
  BY <1>1, <1>2, <1>6 DEF OnePlace

LEMMA OnePlaceInit == Init => OnePlace
<1> SUFFICES ASSUME Init PROVE OnePlace
  OBVIOUS
<1>1. Len(queue) = 0 /\ Len(pending) = 0
  BY EmptySeq DEF Init
<1>q. QED
  BY <1>1 DEF Init, OnePlace, InOnePlace, Scheduled, Performed, Queued, Inserted, InFlight

LEMMA OnePlaceNext ==
    ASSUME TypeOK, Control, OnePlace, [Next]_vars
    PROVE  OnePlace'
<1>1. CASE UNCHANGED vars
  BY <1>1 DEF vars, OnePlace, InOnePlace, Scheduled, Performed, Queued, Inserted, InFlight
<1>2. CASE Game \/ MainThread
  BY <1>2, SamePlacesMainThread, SamePlacesKeep, StartRequestPlaces, InsertRequestPlaces,
     InvokePendingPlaces DEF Game, MainThread
<1>3. CASE WorkingThread
  <2>1. CASE TakeRequest
    BY <2>1, SamePlacesWorkingThread, SamePlacesKeep, TakeRequestPlaces
  <2>2. CASE PushSchedule
    BY <2>2, PushSchedulePlaces
  <2>3. CASE ~TakeRequest /\ ~PushSchedule
    <3>1. SamePlaces
      BY <1>3, <2>3, SamePlacesWorkingThread DEF WorkingThread
    <3>q. QED
      BY <3>1, SamePlacesKeep
  <2>q. QED
    BY <2>1, <2>2, <2>3
<1>q. QED
  BY <1>1, <1>2, <1>3 DEF Next

\* Whatever the game does early, a request that was started and not answered is in
\* exactly one place: about to be inserted, in the queue, with the working thread or
\* among the scheduled calls; none is lost, none is there twice, and none is answered
\* more often than it was started.
THEOREM RequestsAreInOnePlace == Spec => []OnePlace
<1>1. TypeOK /\ Control /\ OnePlace /\ [Next]_vars => OnePlace'
  BY OnePlaceNext
<1>q. QED
  BY <1>1, OnePlaceInit, ControlAlways, PTL DEF Spec

-----------------------------------------------------------------------------
(* The four places in a row are RequestBroker's line.                       *)

ScheduledLine ==
    [i \in 1..(Len(pending) - main.itr + 1) |-> pending[main.itr + i - 1].req]
PerformedLine ==
    IF worker.at \in {"perform", "notify", "retainStore", "push"} THEN <<worker.req>> ELSE <<>>
InsertedLine == IF main.at \in {"retainStore", "insert"} THEN <<main.req>> ELSE <<>>

LEMMA LineOfPlaces ==
    ASSUME TypeOK, Control
    PROVE  /\ ScheduledLine \in Seq(Requests)
           /\ PerformedLine \in Seq(Requests)
           /\ queue \in Seq(Requests)
           /\ InsertedLine \in Seq(Requests)
           /\ Len(ScheduledLine) = Len(pending) - main.itr + 1
           /\ \A i \in 1 .. Len(ScheduledLine) :
                 ScheduledLine[i] = pending[main.itr + i - 1].req
<1>1. Len(pending) - main.itr + 1 \in Nat
  BY Types DEF Control
<1>2. ASSUME NEW i \in 1 .. (Len(pending) - main.itr + 1)
      PROVE  pending[main.itr + i - 1].req \in Requests
  <2>1. main.itr + i - 1 \in 1 .. Len(pending)
    BY Types DEF Control
  <2>q. QED
    BY <2>1, Types
<1>3. ScheduledLine \in [1 .. (Len(pending) - main.itr + 1) -> Requests]
  BY <1>2 DEF ScheduledLine
<1>4. /\ ScheduledLine \in Seq(Requests)
      /\ Len(ScheduledLine) = Len(pending) - main.itr + 1
  <2>1. \A n \in Nat : \A f \in [1 .. n -> Requests] : f \in Seq(Requests) /\ Len(f) = n
    OBVIOUS
  <2>q. QED
    BY <1>1, <1>3, <2>1
<1>5. \A i \in 1 .. Len(ScheduledLine) : ScheduledLine[i] = pending[main.itr + i - 1].req
  BY <1>4 DEF ScheduledLine
<1>6. PerformedLine \in Seq(Requests)
  BY DEF PerformedLine, Control
<1>7. InsertedLine \in Seq(Requests)
  BY DEF InsertedLine, Control, Operating
<1>q. QED
  BY <1>4, <1>5, <1>6, <1>7, Types

LEMMA LineIs ==
    /\ Line = ((ScheduledLine \o PerformedLine) \o queue) \o InsertedLine
    /\ Line' = ((ScheduledLine' \o PerformedLine') \o queue') \o InsertedLine'
  BY DEF Line, ScheduledLine, PerformedLine, InsertedLine

\* Four lists in a row: what passes from one to the next stays in its place, what joins
\* the last joins the row, what leaves the first leaves the row.
LEMMA FourInARow ==
    ASSUME NEW S, NEW a \in Seq(S), NEW b \in Seq(S), NEW c \in Seq(S), NEW d \in Seq(S),
           NEW e \in S
    PROVE  /\ ((a \o b) \o Append(c, e)) \o <<>> = ((a \o b) \o c) \o <<e>>
           /\ ((a \o b) \o c) \o <<e>> = Append(((a \o b) \o c) \o <<>>, e)
           /\ c # <<>> => ((a \o <<Head(c)>>) \o Tail(c)) \o d = ((a \o <<>>) \o c) \o d
           /\ ((Append(a, e) \o <<>>) \o c) \o d = ((a \o <<e>>) \o c) \o d
           /\ a # <<>> => /\ ((a \o b) \o c) \o d # <<>>
                          /\ Tail(((a \o b) \o c) \o d) = ((Tail(a) \o b) \o c) \o d
<1>1. /\ <<e>> \in Seq(S) /\ <<>> \in Seq(S)
      /\ a \o b \in Seq(S) /\ (a \o b) \o c \in Seq(S)
      /\ Append(c, e) \in Seq(S) /\ Append(a, e) \in Seq(S)
  BY ConcatProperties, AppendProperties, EmptySeq
<1>2. ((a \o b) \o Append(c, e)) \o <<>> = ((a \o b) \o c) \o <<e>>
  <2>1. Append(c, e) = c \o <<e>>
    BY AppendIsConcat
  <2>2. (a \o b) \o Append(c, e) \in Seq(S)
    BY <1>1, ConcatProperties
  <2>3. ((a \o b) \o Append(c, e)) \o <<>> = (a \o b) \o Append(c, e)
    BY <2>2, ConcatEmptySeq
  <2>4. ((a \o b) \o c) \o <<e>> = (a \o b) \o (c \o <<e>>)
    <3>1. PICK low, one : low = a \o b /\ one = <<e>>
      OBVIOUS
    <3>2. low \in Seq(S) /\ one \in Seq(S)
      BY <1>1, <3>1
    <3>3. (low \o c) \o one = low \o (c \o one)
      BY <3>2, ConcatAssociative, SMTT(30)
    <3>q. QED
      BY <3>1, <3>3
  <2>q. QED
    BY <2>1, <2>3, <2>4
<1>3. ((a \o b) \o c) \o <<e>> = Append(((a \o b) \o c) \o <<>>, e)
  <2>1. ((a \o b) \o c) \o <<>> = (a \o b) \o c
    BY <1>1, ConcatEmptySeq
  <2>2. Append((a \o b) \o c, e) = ((a \o b) \o c) \o <<e>>
    BY <1>1, AppendIsConcat
  <2>q. QED
    BY <2>1, <2>2
<1>4. ASSUME c # <<>>
      PROVE  ((a \o <<Head(c)>>) \o Tail(c)) \o d = ((a \o <<>>) \o c) \o d
  <2>1. Head(c) \in S /\ Tail(c) \in Seq(S) /\ c = <<Head(c)>> \o Tail(c)
    BY <1>4, HeadThenTail
  <2>2. <<Head(c)>> \in Seq(S)
    BY <2>1
  <2>3. (a \o <<Head(c)>>) \o Tail(c) = a \o (<<Head(c)>> \o Tail(c))
    <3>1. PICK one, rest : one = <<Head(c)>> /\ rest = Tail(c)
      OBVIOUS
    <3>2. one \in Seq(S) /\ rest \in Seq(S)
      BY <2>1, <2>2, <3>1
    <3>3. (a \o one) \o rest = a \o (one \o rest)
      BY <3>2, ConcatAssociative, SMTT(30)
    <3>q. QED
      BY <3>1, <3>3
  <2>4. a \o <<>> = a
    BY ConcatEmptySeq
  <2>q. QED
    BY <2>1, <2>3, <2>4
<1>5. ((Append(a, e) \o <<>>) \o c) \o d = ((a \o <<e>>) \o c) \o d
  <2>1. Append(a, e) \o <<>> = Append(a, e)
    BY <1>1, ConcatEmptySeq
  <2>2. Append(a, e) = a \o <<e>>
    BY AppendIsConcat
  <2>q. QED
    BY <2>1, <2>2
<1>6. ASSUME a # <<>>
      PROVE  /\ ((a \o b) \o c) \o d # <<>>
             /\ Tail(((a \o b) \o c) \o d) = ((Tail(a) \o b) \o c) \o d
  <2>1. a \o b # <<>> /\ Tail(a \o b) = Tail(a) \o b
    BY <1>6, TailOfConcat
  <2>2. (a \o b) \o c # <<>> /\ Tail((a \o b) \o c) = Tail(a \o b) \o c
    BY <1>1, <2>1, TailOfConcat
  <2>3. /\ ((a \o b) \o c) \o d # <<>>
        /\ Tail(((a \o b) \o c) \o d) = Tail((a \o b) \o c) \o d
    BY <1>1, <2>2, TailOfConcat, SMTT(30)
  <2>q. QED
    BY <2>1, <2>2, <2>3
<1>q. QED
  BY <1>2, <1>3, <1>4, <1>5, <1>6

\* A step that moves nothing from place to place leaves the line alone.
LEMMA SameScheduledLine ==
    ASSUME pending' = pending, main'.itr = main.itr
    PROVE  ScheduledLine' = ScheduledLine
  BY DEF ScheduledLine

LEMMA LineStaysMainThread ==
    ASSUME TypeOK, Control,
           \/ \E r \in Requests : GameRelease(r)
           \/ RetainStore \/ PostAvail \/ ReleaseStore \/ ReleaseTest
           \/ BeginDrain \/ EndCallback \/ EndDrain
    PROVE  Line' = Line
<1>1. ScheduledLine' = ScheduledLine
  <2>1. CASE EndDrain
    <3>1. main.itr = Len(pending) + 1 /\ Len(pending) \in Nat
      <4>1. main.itr > Len(pending)
        BY <2>1, EndDrainStep
      <4>q. QED
        BY <4>1, Types DEF Control
    <3>2. main'.itr = 1 /\ Len(pending') = 0
      BY <2>1, EndDrainStep DEF MainMoves
    <3>3. \A f \in [1 .. 0 -> Requests] : f = <<>>
      BY EmptySeq
    <3>4. ScheduledLine \in [1 .. 0 -> Requests] /\ ScheduledLine' \in [1 .. 0 -> Requests]
      BY <3>1, <3>2 DEF ScheduledLine
    <3>q. QED
      BY <3>3, <3>4
  <2>2. CASE ~EndDrain
    <3>1. pending' = pending /\ main'.itr = main.itr
      BY <2>2, GameReleaseStep, RetainStoreStep, PostAvailStep, ReleaseStoreStep,
         ReleaseTestStep, BeginDrainStep, EndCallbackStep DEF MainMoves
    <3>q. QED
      BY <3>1, SameScheduledLine
  <2>q. QED
    BY <2>1, <2>2
<1>2. queue' = queue /\ worker' = worker
  BY GameReleaseStep, RetainStoreStep, PostAvailStep, ReleaseStoreStep,
     ReleaseTestStep, BeginDrainStep, EndCallbackStep, EndDrainStep
<1>3. InsertedLine' = InsertedLine
  BY GameReleaseStep, RetainStoreStep, PostAvailStep, ReleaseStoreStep,
     ReleaseTestStep, BeginDrainStep, EndCallbackStep, EndDrainStep
     DEF MainMoves, InsertedLine
<1>4. PerformedLine' = PerformedLine
  BY <1>2 DEF PerformedLine
<1>q. QED
  BY <1>1, <1>2, <1>3, <1>4, LineIs

LEMMA LineStaysWorkingThread ==
    ASSUME TypeOK, Control,
           \/ WaitAvail
           \/ TakeRequest /\ queue = <<>>
           \/ \E outcome \in Outcomes, leak \in BOOLEAN : Perform(outcome, leak)
           \/ LockSchedule \/ WorkerRetainStore
           \/ WorkerRelease \/ WorkerReleaseStore \/ WorkerReleaseTest
    PROVE  Line' = Line
<1>1. queue' = queue /\ main' = main /\ pending' = pending
  BY WaitAvailStep, TakeRequestStep, PerformStep, LockScheduleStep, WorkerRetainStoreStep,
     WorkerReleaseStep, WorkerReleaseStoreStep, WorkerReleaseTestStep
<1>2. PerformedLine' = PerformedLine
  BY WaitAvailStep, TakeRequestStep, PerformStep, LockScheduleStep, WorkerRetainStoreStep,
     WorkerReleaseStep, WorkerReleaseStoreStep, WorkerReleaseTestStep
     DEF PerformedLine, WorkerMoves
<1>3. ScheduledLine' = ScheduledLine /\ InsertedLine' = InsertedLine
  BY <1>1 DEF ScheduledLine, InsertedLine
<1>q. QED
  BY <1>1, <1>2, <1>3, LineIs

\* startRequest joins the end of the line.
LEMMA StartRequestLine ==
    ASSUME TypeOK, Control, NEW r \in Requests, StartRequest(r)
    PROVE  Line' = Append(Line, r)
<1>1. InsertedLine = <<>> /\ InsertedLine' = <<r>>
  BY StartRequestStep DEF InsertedLine, MainMoves
<1>2. /\ ScheduledLine' = ScheduledLine /\ PerformedLine' = PerformedLine
      /\ queue' = queue
  BY StartRequestStep, SameScheduledLine DEF PerformedLine, MainMoves
<1>3. /\ ScheduledLine \in Seq(Requests) /\ PerformedLine \in Seq(Requests)
      /\ queue \in Seq(Requests)
  BY LineOfPlaces
<1>4. ((ScheduledLine \o PerformedLine) \o queue) \o <<r>>
         = Append(((ScheduledLine \o PerformedLine) \o queue) \o <<>>, r)
  BY <1>3, FourInARow
<1>q. QED
  BY <1>1, <1>2, <1>4, LineIs

\* insertRequest, removeRequest and the push of the call pass a request on to the place
\* before in the line.
LEMMA InsertRequestLine ==
    ASSUME TypeOK, Control, InsertRequest
    PROVE  Line' = Line
<1>1. /\ main.req \in Requests
      /\ InsertedLine = <<main.req>> /\ InsertedLine' = <<>>
      /\ queue' = Append(queue, main.req)
  BY InsertRequestStep DEF InsertedLine, MainMoves
<1>2. ScheduledLine' = ScheduledLine /\ PerformedLine' = PerformedLine
  BY InsertRequestStep, SameScheduledLine DEF PerformedLine, MainMoves
<1>3. /\ ScheduledLine \in Seq(Requests) /\ PerformedLine \in Seq(Requests)
      /\ queue \in Seq(Requests)
  BY LineOfPlaces
<1>4. ((ScheduledLine \o PerformedLine) \o Append(queue, main.req)) \o <<>>
         = ((ScheduledLine \o PerformedLine) \o queue) \o <<main.req>>
  <2>1. main.req \in Requests
    BY <1>1
  <2>q. QED
    BY <1>3, <2>1, FourInARow
<1>q. QED
  BY <1>1, <1>2, <1>4, LineIs

LEMMA TakeRequestLine ==
    ASSUME TypeOK, Control, TakeRequest, queue # <<>>
    PROVE  Line' = Line
<1>1. /\ queue[1] = Head(queue) /\ queue' = Tail(queue)
      /\ PerformedLine = <<>> /\ PerformedLine' = <<Head(queue)>>
      /\ pending' = pending /\ main' = main
  BY TakeRequestStep, Types DEF PerformedLine, WorkerMoves
<1>2. ScheduledLine' = ScheduledLine /\ InsertedLine' = InsertedLine
  BY <1>1 DEF ScheduledLine, InsertedLine
<1>3. /\ ScheduledLine \in Seq(Requests) /\ InsertedLine \in Seq(Requests)
      /\ queue \in Seq(Requests)
  BY LineOfPlaces
<1>4. Head(queue) \in Requests
  BY <1>3, HeadThenTail
<1>5. ((ScheduledLine \o <<Head(queue)>>) \o Tail(queue)) \o InsertedLine
         = ((ScheduledLine \o <<>>) \o queue) \o InsertedLine
  BY <1>3, <1>4, FourInARow
<1>q. QED
  BY <1>1, <1>2, <1>5, LineIs

LEMMA PushScheduleLine ==
    ASSUME TypeOK, Control, PushSchedule
    PROVE  Line' = Line
<1>1. /\ worker.req \in Requests
      /\ PerformedLine = <<worker.req>> /\ PerformedLine' = <<>>
      /\ queue' = queue /\ main' = main
  BY PushScheduleStep DEF PerformedLine, WorkerMoves
<1>2. InsertedLine' = InsertedLine
  BY <1>1 DEF InsertedLine
<1>3. /\ ScheduledLine \in Seq(Requests) /\ InsertedLine \in Seq(Requests)
      /\ queue \in Seq(Requests)
      /\ Len(ScheduledLine) = Len(pending) - main.itr + 1
      /\ \A i \in 1 .. Len(ScheduledLine) : ScheduledLine[i] = pending[main.itr + i - 1].req
  BY LineOfPlaces
<1>4. ScheduledLine' = Append(ScheduledLine, worker.req)
  <2>1. /\ main.itr = 1 /\ main'.itr = 1 /\ Len(pending) \in Nat
        /\ Len(pending') = Len(pending) + 1
        /\ \A i \in 1 .. Len(pending) : pending'[i] = pending[i]
        /\ pending'[Len(pending) + 1].req = worker.req
    BY PushScheduleStep, Types DEF Control
  <2> DEFINE n == Len(pending) + 1
             after == [i \in 1 .. n |-> pending'[i].req]
  <2>2. ScheduledLine' = after
    <3>1. Len(pending') - main'.itr + 1 = n
      BY <2>1
    <3>2. ASSUME NEW i \in 1 .. n
          PROVE  main'.itr + i - 1 = i
      BY <2>1
    <3>q. QED
      BY <3>1, <3>2 DEF ScheduledLine
  <2>3. /\ Append(ScheduledLine, worker.req) \in Seq(Requests)
        /\ Len(ScheduledLine) = Len(pending)
        /\ Len(Append(ScheduledLine, worker.req)) = n
        /\ \A i \in 1 .. Len(pending) :
              Append(ScheduledLine, worker.req)[i] = ScheduledLine[i]
        /\ Append(ScheduledLine, worker.req)[n] = worker.req
    <3>1. Len(ScheduledLine) = Len(pending)
      BY <1>3, <2>1
    <3>q. QED
      BY <1>1, <1>3, <3>1, AppendToSeq
  <2>4. ASSUME NEW i \in 1 .. n
        PROVE  after[i] = Append(ScheduledLine, worker.req)[i]
    <3>1. after[i] = pending'[i].req
      OBVIOUS
    <3>2. CASE i \in 1 .. Len(pending)
      <4>1. main.itr + i - 1 = i
        BY <2>1, <3>2
      <4>2. ScheduledLine[i] = pending[i].req
        BY <1>3, <2>3, <3>2, <4>1
      <4>q. QED
        BY <2>1, <2>3, <3>1, <3>2, <4>2
    <3>3. CASE i = n
      BY <2>1, <2>3, <3>1, <3>3
    <3>4. i \in 1 .. Len(pending) \/ i = n
      BY <2>1
    <3>q. QED
      BY <3>2, <3>3, <3>4
  <2>5. n \in Nat /\ after \in [1 .. n -> Requests]
    <3>1. \A i \in 1 .. n : Append(ScheduledLine, worker.req)[i] \in Requests
      BY <2>3, ElementOfSeq
    <3>q. QED
      BY <2>1, <2>4, <3>1
  <2> HIDE DEF after, n
  <2>6. after \in Seq(Requests) /\ Len(after) = n
    <3>1. \A m \in Nat : \A f \in [1 .. m -> Requests] : f \in Seq(Requests) /\ Len(f) = m
      OBVIOUS
    <3>q. QED
      BY <2>5, <3>1
  <2>q. QED
    BY <2>2, <2>3, <2>4, <2>6, SeqEqual
<1>5. ((Append(ScheduledLine, worker.req) \o <<>>) \o queue) \o InsertedLine
         = ((ScheduledLine \o <<worker.req>>) \o queue) \o InsertedLine
  BY <1>1, <1>3, FourInARow, SMTT(30)
<1>q. QED
  BY <1>1, <1>2, <1>4, <1>5, LineIs

\* mainLoop answers the first in the line.
LEMMA InvokePendingLine ==
    ASSUME TypeOK, Control, InvokePending
    PROVE  Line # <<>> /\ Line' = Tail(Line)
<1>1. /\ main.itr \in 1 .. Len(pending) /\ main'.itr = main.itr + 1
      /\ pending' = pending /\ queue' = queue /\ worker' = worker
      /\ InsertedLine' = <<>> /\ InsertedLine = <<>>
  BY InvokePendingStep DEF MainMoves, InsertedLine
<1>2. PerformedLine' = PerformedLine
  BY <1>1 DEF PerformedLine
<1>3. /\ ScheduledLine \in Seq(Requests) /\ PerformedLine \in Seq(Requests)
      /\ InsertedLine \in Seq(Requests) /\ queue \in Seq(Requests)
      /\ Len(ScheduledLine) = Len(pending) - main.itr + 1
      /\ \A i \in 1 .. Len(ScheduledLine) : ScheduledLine[i] = pending[main.itr + i - 1].req
  BY LineOfPlaces
<1> DEFINE n == Len(pending) - main.itr
           after == [i \in 1 .. n |-> pending[main.itr + i].req]
<1>4. n \in Nat /\ Len(ScheduledLine) = n + 1 /\ main.itr \in Int
  BY <1>1, <1>3, Types
<1>5. ScheduledLine # <<>>
  BY <1>4, EmptySeq
<1>6. ScheduledLine' = after
  <2>1. Len(pending') - main'.itr + 1 = n
    BY <1>1, Types
  <2>2. ASSUME NEW i \in 1 .. n
        PROVE  main'.itr + i - 1 = main.itr + i
    BY <1>1
  <2>q. QED
    BY <1>1, <2>1, <2>2 DEF ScheduledLine
<1>7. /\ Tail(ScheduledLine) \in Seq(Requests)
      /\ Len(Tail(ScheduledLine)) = n
      /\ \A i \in 1 .. n : Tail(ScheduledLine)[i] = ScheduledLine[i + 1]
  BY <1>3, <1>4, <1>5, HeadTailProperties, SMTT(30)
<1>8. ASSUME NEW i \in 1 .. n
      PROVE  after[i] = Tail(ScheduledLine)[i]
  <2>1. i + 1 \in 1 .. Len(ScheduledLine) /\ main.itr + (i + 1) - 1 = main.itr + i
    BY <1>4
  <2>2. ScheduledLine[i + 1] = pending[main.itr + i].req
    BY <1>3, <2>1
  <2>q. QED
    BY <1>7, <2>2
<1>9. after \in [1 .. n -> Requests]
  <2>1. \A i \in 1 .. n : Tail(ScheduledLine)[i] \in Requests
    BY <1>7, ElementOfSeq
  <2>q. QED
    BY <1>8, <2>1
<1> HIDE DEF after, n
<1>10. after \in Seq(Requests) /\ Len(after) = n
  <2>1. \A m \in Nat : \A f \in [1 .. m -> Requests] : f \in Seq(Requests) /\ Len(f) = m
    OBVIOUS
  <2>q. QED
    BY <1>4, <1>9, <2>1
<1>11. ScheduledLine' = Tail(ScheduledLine)
  BY <1>6, <1>7, <1>8, <1>10, SeqEqual
<1>12. PICK e \in Requests : TRUE
  BY InvokePendingStep
<1>13. /\ Line # <<>>
       /\ Tail(Line)
            = ((Tail(ScheduledLine) \o PerformedLine) \o queue) \o InsertedLine
  BY <1>3, <1>5, <1>12, FourInARow, LineIs
<1>q. QED
  BY <1>1, <1>2, <1>11, <1>13, LineIs

LEMMA LineInit == Init => Broker!Init
<1> SUFFICES ASSUME Init PROVE Line = <<>>
  BY DEF Broker!Init
<1>1. /\ pending = <<>> /\ Len(pending) = 0 /\ main.itr = 1
      /\ PerformedLine = <<>> /\ queue = <<>> /\ InsertedLine = <<>>
  BY EmptySeq DEF Init, PerformedLine, InsertedLine
<1>2. \A f \in [1 .. 0 -> Requests] : f = <<>>
  BY EmptySeq
<1>3. ScheduledLine \in [1 .. 0 -> Requests]
  BY <1>1 DEF ScheduledLine
<1>4. ScheduledLine = <<>>
  BY <1>2, <1>3
<1>5. <<>> \in Seq(Requests) /\ <<>> \o <<>> = <<>>
  BY EmptySeq, ConcatEmptySeq
<1>q. QED
  BY <1>1, <1>4, <1>5, LineIs

LEMMA LineNext ==
    ASSUME TypeOK, Control, [Next]_vars
    PROVE  [Broker!Next]_Line
<1>1. CASE UNCHANGED vars
  BY <1>1 DEF vars, Line
<1>2. ASSUME NEW r \in Requests, StartRequest(r)
      PROVE  [Broker!Next]_Line
  BY <1>2, StartRequestLine DEF Broker!Next, Broker!Start
<1>3. CASE InsertRequest
  BY <1>3, InsertRequestLine
<1>4. CASE InvokePending
  BY <1>4, InvokePendingLine DEF Broker!Next, Broker!Answer
<1>5. CASE TakeRequest
  BY <1>5, TakeRequestLine, LineStaysWorkingThread
<1>6. CASE PushSchedule
  BY <1>6, PushScheduleLine
<1>7. CASE \/ \E r \in Requests : GameRelease(r)
           \/ RetainStore \/ PostAvail \/ ReleaseStore \/ ReleaseTest
           \/ BeginDrain \/ EndCallback \/ EndDrain
  BY <1>7, LineStaysMainThread
<1>8. CASE \/ WaitAvail
           \/ \E outcome \in Outcomes, leak \in BOOLEAN : Perform(outcome, leak)
           \/ LockSchedule \/ WorkerRetainStore
           \/ WorkerRelease \/ WorkerReleaseStore \/ WorkerReleaseTest
  BY <1>8, LineStaysWorkingThread
<1>q. QED
  BY <1>1, <1>2, <1>3, <1>4, <1>5, <1>6, <1>7, <1>8
     DEF Next, Game, MainThread, WorkingThread

\* The two threads implement the line of RequestBroker but for its fairness: a started
\* request joins the end, and every callback is that of the request at the front,
\* whatever is transferred, drained and released in between.
THEOREM NetworkImplementsLine == Spec => Broker!Init /\ [][Broker!Next]_Line
<1>1. TypeOK /\ Control /\ [Next]_vars => [Broker!Next]_Line
  BY LineNext
<1>q. QED
  BY <1>1, LineInit, ControlAlways, PTL DEF Spec

-----------------------------------------------------------------------------
(* When the game keeps its references, the threads keep apart. *)

\* The working thread is not done with a request while it is queued again; the game
\* owns what it starts, and has no more use for what it releases.
ApartFrom(r) ==
    /\ worker.at \notin {"wait", "take"} /\ worker.req = r => ~Queued(r) /\ ~Inserted(r)
    /\ main.at = "retainStore" /\ main.req = r => r \in owned
    /\ main.at \in {"releaseStore", "releaseTest"} /\ main.back # "drain" /\ main.req = r
          => r \notin owned /\ ~InFlight(r)

\* mainLoop releases the target of the call it has just made.
DrainReleases ==
    Operating /\ main.back = "drain" => /\ main.at \in {"releaseStore", "releaseTest"}
                                        /\ main.req = pending[main.itr - 1].req

Apart ==
    /\ \A r \in Requests : ApartFrom(r)
    /\ DrainReleases

LEMMA ApartInit == Init => Apart
  BY DEF Init, Apart, ApartFrom, DrainReleases, Operating

LEMMA ApartGame ==
    ASSUME TypeOK, Control, Apart, Early = {}, NEW q \in Requests,
           StartRequest(q) \/ GameRelease(q)
    PROVE  Apart'
<1>1. CASE StartRequest(q)
  <2>1. /\ main'.at = "retainStore" /\ main'.req = q /\ main'.back \in {"game", "callback"}
        /\ q \in owned /\ owned' = owned
        /\ worker.at = "wait" \/ worker.req # q
        /\ UNCHANGED <<queue, pending, worker>>
    BY <1>1, StartRequestStep DEF MainMoves, WorkerIsDoneWith
  <2>2. ASSUME NEW r \in Requests
        PROVE  ApartFrom(r)'
    <3>1. Queued(r)' <=> Queued(r)
      BY <2>1 DEF Queued
    <3>2. Inserted(r)' <=> r = q
      BY <2>1 DEF Inserted
    <3>q. QED
      BY <2>1, <3>1, <3>2 DEF Apart, ApartFrom
  <2>3. DrainReleases'
    BY <2>1 DEF DrainReleases
  <2>q. QED
    BY <2>2, <2>3 DEF Apart
<1>2. CASE GameRelease(q)
  <2>1. /\ main'.at = "releaseStore" /\ main'.req = q /\ main'.back \in {"game", "callback"}
        /\ ~InFlight(q) /\ owned' = owned \ {q}
        /\ UNCHANGED <<queue, pending, worker, starts, answers>>
    BY <1>2, GameReleaseStep DEF MainMoves
  <2>2. ASSUME NEW r \in Requests
        PROVE  ApartFrom(r)'
    <3>1. Queued(r)' <=> Queued(r)
      BY <2>1 DEF Queued
    <3>2. ~Inserted(r)' /\ (InFlight(r)' <=> InFlight(r))
      BY <2>1 DEF Inserted, InFlight
    <3>q. QED
      BY <2>1, <3>1, <3>2 DEF Apart, ApartFrom
  <2>3. DrainReleases'
    BY <2>1 DEF DrainReleases
  <2>q. QED
    BY <2>2, <2>3 DEF Apart
<1>q. QED
  BY <1>1, <1>2

LEMMA ApartOperation ==
    ASSUME TypeOK, Control, Apart,
           RetainStore \/ InsertRequest \/ PostAvail \/ ReleaseStore \/ ReleaseTest
    PROVE  Apart'
<1>1. /\ main'.req = main.req /\ main'.back = main.back /\ main'.itr = main.itr
      /\ main'.at \in {"insert", "post", "releaseTest", "game", "callback", "drain"}
      /\ main'.at = "insert" => main.at = "retainStore"
      /\ main'.at = "post" => main.at = "insert"
      /\ main'.at = "releaseTest" => main.at = "releaseStore"
      /\ UNCHANGED <<pending, owned, worker, starts, answers>>
  BY RetainStoreStep, InsertRequestStep, PostAvailStep, ReleaseStoreStep, ReleaseTestStep
     DEF MainMoves
<1>2. ASSUME NEW r \in Requests
      PROVE  Queued(r)' \/ Inserted(r)' => Queued(r) \/ Inserted(r)
  <2>1. CASE InsertRequest
    <3>1. /\ Len(queue) \in Nat /\ Len(queue') = Len(queue) + 1
          /\ \A i \in 1 .. Len(queue) : queue'[i] = queue[i]
          /\ queue'[Len(queue) + 1] = main.req
          /\ main.at = "insert" /\ main'.at = "post"
      BY <2>1, InsertRequestStep, Types DEF MainMoves
    <3>2. 1 .. Len(queue') = 1 .. Len(queue) \cup {Len(queue) + 1}
      BY <3>1
    <3>q. QED
      BY <3>1, <3>2 DEF Queued, Inserted
  <2>2. CASE ~InsertRequest
    <3>1. queue' = queue
      BY <2>2, RetainStoreStep, PostAvailStep, ReleaseStoreStep, ReleaseTestStep
    <3>2. Inserted(r)' => Inserted(r)
      BY <1>1 DEF Inserted
    <3>3. Queued(r)' <=> Queued(r)
      BY <3>1 DEF Queued
    <3>q. QED
      BY <3>2, <3>3
  <2>q. QED
    BY <2>1, <2>2
<1>3. ASSUME NEW r \in Requests
      PROVE  ApartFrom(r)'
  <2>1. ApartFrom(r) /\ (InFlight(r)' <=> InFlight(r))
    BY <1>1 DEF Apart, InFlight
  <2>q. QED
    BY <1>1, <1>2, <2>1 DEF ApartFrom
<1>4. DrainReleases'
  BY <1>1 DEF Apart, DrainReleases, Operating, Control
<1>q. QED
  BY <1>3, <1>4 DEF Apart

LEMMA ApartDrain ==
    ASSUME TypeOK, Control, Apart,
           BeginDrain \/ InvokePending \/ EndCallback \/ EndDrain
    PROVE  Apart'
<1>1. /\ main.at \in {"game", "drain", "callback"}
      /\ main'.at \in {"game", "drain", "callback", "releaseStore"}
      /\ main'.at = "releaseStore" => /\ main'.back = "drain"
                                      /\ main'.req = pending[main.itr - 1].req
                                      /\ main'.itr = main.itr /\ pending' = pending
      /\ UNCHANGED <<queue, owned, worker>>
  BY BeginDrainStep, InvokePendingStep, EndCallbackStep, EndDrainStep DEF MainMoves
<1>2. ASSUME NEW r \in Requests
      PROVE  ApartFrom(r)'
  <2>1. (Queued(r)' <=> Queued(r)) /\ ~Inserted(r)'
    BY <1>1 DEF Queued, Inserted
  <2>q. QED
    BY <1>1, <2>1 DEF Apart, ApartFrom
<1>3. DrainReleases'
  BY <1>1 DEF DrainReleases, Operating
<1>q. QED
  BY <1>2, <1>3 DEF Apart

LEMMA ApartWorkingThread ==
    ASSUME TypeOK, Control, OnePlace, Apart, WorkingThread
    PROVE  Apart'
<1>1. UNCHANGED <<main, owned, starts, answers>>
  BY WaitAvailStep, TakeRequestStep, PerformStep, LockScheduleStep, WorkerRetainStoreStep,
     PushScheduleStep, WorkerReleaseStep, WorkerReleaseStoreStep, WorkerReleaseTestStep
     DEF WorkingThread
<1>2. DrainReleases'
  <2>1. CASE PushSchedule
    <3>1. ~Draining
      BY <2>1, PushScheduleStep DEF Control
    <3>q. QED
      BY <1>1, <3>1 DEF DrainReleases, Draining, Operating
  <2>2. CASE ~PushSchedule
    <3>1. pending' = pending
      BY <2>2, WaitAvailStep, TakeRequestStep, PerformStep, LockScheduleStep,
         WorkerRetainStoreStep, WorkerReleaseStep, WorkerReleaseStoreStep,
         WorkerReleaseTestStep DEF WorkingThread
    <3>q. QED
      BY <1>1, <3>1 DEF Apart, DrainReleases, Operating
  <2>q. QED
    BY <2>1, <2>2
<1>3. ASSUME NEW r \in Requests
      PROVE  worker'.at \notin {"wait", "take"} /\ worker'.req = r => ~Queued(r)' /\ ~Inserted(r)'
  <2>1. CASE TakeRequest /\ queue # <<>>
    <3>1. Queued(queue[1]) /\ worker'.req = queue[1] /\ worker'.at = "perform"
          /\ queue[1] \in Requests
      <4>1. 1 \in 1 .. Len(queue)
        BY <2>1, TakeRequestStep, Types
      <4>q. QED
        BY <2>1, <4>1, TakeRequestStep DEF Queued, WorkerMoves
    <3>2. OnePlace' /\ Performed(r)' = (r = queue[1])
      BY <2>1, <3>1, TakeRequestPlaces DEF Performed
    <3>q. QED
      BY <3>1, <3>2 DEF OnePlace, InOnePlace
  <2>2. CASE ~(TakeRequest /\ queue # <<>>)
    <3>1. /\ queue' = queue
          /\ worker'.at \notin {"wait", "take"} =>
                worker.at \notin {"wait", "take"} /\ worker'.req = worker.req
      BY <2>2, WaitAvailStep, TakeRequestStep, PerformStep, LockScheduleStep,
         WorkerRetainStoreStep, PushScheduleStep, WorkerReleaseStep,
         WorkerReleaseStoreStep, WorkerReleaseTestStep DEF WorkingThread, WorkerMoves
    <3>2. (Queued(r)' <=> Queued(r)) /\ (Inserted(r)' <=> Inserted(r))
      BY <1>1, <3>1 DEF Queued, Inserted
    <3>q. QED
      BY <3>1, <3>2 DEF Apart, ApartFrom
  <2>q. QED
    BY <2>1, <2>2
<1>4. ASSUME NEW r \in Requests
      PROVE  ApartFrom(r)'
  <2>1. ApartFrom(r) /\ (InFlight(r)' <=> InFlight(r))
    BY <1>1 DEF Apart, InFlight
  <2>q. QED
    BY <1>1, <1>3, <2>1 DEF ApartFrom
<1>q. QED
  BY <1>2, <1>4 DEF Apart

LEMMA ApartNext ==
    ASSUME TypeOK, Control, OnePlace, Apart, Early = {}, [Next]_vars
    PROVE  Apart'
<1>1. CASE UNCHANGED vars
  BY <1>1 DEF vars, Apart, ApartFrom, DrainReleases, Operating, Queued, Inserted, InFlight
<1>2. CASE Game
  BY <1>2, ApartGame DEF Game
<1>3. CASE MainThread
  BY <1>3, ApartOperation, ApartDrain DEF MainThread
<1>4. CASE WorkingThread
  BY <1>4, ApartWorkingThread
<1>q. QED
  BY <1>1, <1>2, <1>3, <1>4 DEF Next

-----------------------------------------------------------------------------
(* The references that are held, and the counts.                            *)

\* The game's reference, until its release is stored.
GameHolds(r) ==
    r \in owned \/ (main.at = "releaseStore" /\ main.req = r /\ main.back # "drain")

\* The reference startRequest takes, until the working thread's release is stored.
StartHolds(r) ==
    \/ main.at = "insert" /\ main.req = r
    \/ Queued(r)
    \/ /\ worker.at \in {"perform", "notify", "retainStore", "push", "release", "releaseStore"}
       /\ worker.req = r

\* The reference a scheduled call takes, until mainLoop's release is stored.
CallHolds(r) ==
    \/ worker.at = "push" /\ worker.req = r
    \/ Scheduled(r)
    \/ /\ main.at = "callback" \/ (Operating /\ main.back = "callback")
       /\ pending[main.itr - 1].req = r
    \/ main.at = "releaseStore" /\ main.back = "drain" /\ main.req = r

One(P) == IF P THEN 1 ELSE 0
Users(r) == One(GameHolds(r)) + One(StartHolds(r)) + One(CallHolds(r))

\* A thread has the count of r in a register and is about to store or to test it.
MainCounts(r) == main.at \in {"retainStore", "releaseStore", "releaseTest"} /\ main.req = r
WorkerCounts(r) == worker.at \in {"retainStore", "releaseStore", "releaseTest"} /\ worker.req = r

\* No count of r, in memory or in a register, is below the references that are held, and
\* r is not deleted while one is.
CountedFor(r) ==
    /\ ref[r] >= Users(r)
    /\ MainCounts(r) => main.count >= Users(r)
    /\ WorkerCounts(r) => worker.count >= Users(r)
    /\ r \in deleted => Users(r) = 0

Counted == \A r \in Requests : CountedFor(r)

LEMMA UsersRange ==
    /\ \A r : Users(r) \in 0 .. 3
    /\ \A r : Users(r)' \in 0 .. 3
  BY DEF Users, One

\* Who holds one after the step did before it.
SameHolds(r) ==
    /\ GameHolds(r)' <=> GameHolds(r)
    /\ StartHolds(r)' <=> StartHolds(r)
    /\ CallHolds(r)' <=> CallHolds(r)

LEMMA SameUsers ==
    ASSUME NEW r, SameHolds(r)
    PROVE  Users(r)' = Users(r)
  BY DEF SameHolds, Users, One

\* A step that stores no count and deletes nothing, and at most reads a count.
LEMMA CountedReading ==
    ASSUME TypeOK, TypeOK', NEW r \in Requests, CountedFor(r),
           Users(r)' <= Users(r),
           ref' = ref, deleted' = deleted,
           MainCounts(r)' => \/ main'.count = ref[r]
                             \/ MainCounts(r) /\ main'.count = main.count,
           WorkerCounts(r)' => \/ worker'.count = ref[r]
                               \/ WorkerCounts(r) /\ worker'.count = worker.count
    PROVE  CountedFor(r)'
<1>1. ref[r] \in Int /\ main.count \in Int /\ worker.count \in Int
  BY Types DEF MainStates, WorkerStates
<1>2. Users(r) \in Int /\ Users(r)' \in Int /\ Users(r)' >= 0
  BY UsersRange
<1>3. /\ ref[r] >= Users(r)
      /\ MainCounts(r) => main.count >= Users(r)
      /\ WorkerCounts(r) => worker.count >= Users(r)
      /\ r \in deleted => Users(r) = 0
  BY DEF CountedFor
<1>4. /\ ref'[r] >= Users(r)'
      /\ r \in deleted' => Users(r)' = 0
  BY <1>1, <1>2, <1>3
<1>5. MainCounts(r)' => main'.count >= Users(r)'
  BY <1>1, <1>2, <1>3
<1>6. WorkerCounts(r)' => worker'.count >= Users(r)'
  BY <1>1, <1>2, <1>3
<1>q. QED
  BY <1>4, <1>5, <1>6 DEF CountedFor

LEMMA CountedInit == Init => Counted
<1> SUFFICES ASSUME Init, NEW r \in Requests
             PROVE  CountedFor(r)
  BY DEF Counted
<1>1. Len(queue) = 0 /\ Len(pending) = 0
  BY EmptySeq DEF Init
<1>2. GameHolds(r) /\ ~StartHolds(r) /\ ~CallHolds(r)
  BY <1>1 DEF Init, GameHolds, StartHolds, CallHolds, Queued, Scheduled, Operating
<1>3. Users(r) = 1
  BY <1>2 DEF Users, One
<1>q. QED
  BY <1>3 DEF CountedFor, Init, MainCounts, WorkerCounts

LEMMA CountedStartRequest ==
    ASSUME TypeOK, TypeOK', Control, NEW r \in Requests, CountedFor(r),
           NEW q \in Requests, StartRequest(q)
    PROVE  CountedFor(r)'
<1>1. /\ main.at \in {"game", "callback"} /\ main'.at = "retainStore"
      /\ main'.req = q /\ main'.count = ref[q] /\ main'.back = main.at
      /\ main'.itr = main.itr
      /\ UNCHANGED <<queue, pending, ref, deleted, owned, worker>>
  BY StartRequestStep DEF MainMoves
<1>2. SameHolds(r)
  BY <1>1 DEF SameHolds, GameHolds, StartHolds, CallHolds, Operating, Queued, Scheduled
<1>3. Users(r)' = Users(r) /\ Users(r) \in Int
  BY <1>2, SameUsers, UsersRange
<1>4. MainCounts(r)' => main'.count = ref[r]
  BY <1>1 DEF MainCounts
<1>5. WorkerCounts(r)' => WorkerCounts(r) /\ worker'.count = worker.count
  BY <1>1 DEF WorkerCounts
<1>q. QED
  BY <1>1, <1>3, <1>4, <1>5, CountedReading

LEMMA CountedGameRelease ==
    ASSUME TypeOK, TypeOK', Control, NEW r \in Requests, CountedFor(r),
           NEW q \in Requests, GameRelease(q)
    PROVE  CountedFor(r)'
<1>1. /\ main.at \in {"game", "callback"} /\ main'.at = "releaseStore"
      /\ main'.req = q /\ main'.count = ref[q] /\ main'.back = main.at
      /\ main'.itr = main.itr /\ q \in owned /\ owned' = owned \ {q}
      /\ UNCHANGED <<queue, pending, ref, deleted, worker>>
  BY GameReleaseStep DEF MainMoves
<1>2. SameHolds(r)
  BY <1>1 DEF SameHolds, GameHolds, StartHolds, CallHolds, Operating, Queued, Scheduled
<1>3. Users(r)' = Users(r) /\ Users(r) \in Int
  BY <1>2, SameUsers, UsersRange
<1>4. MainCounts(r)' => main'.count = ref[r]
  BY <1>1 DEF MainCounts
<1>5. WorkerCounts(r)' => WorkerCounts(r) /\ worker'.count = worker.count
  BY <1>1 DEF WorkerCounts
<1>q. QED
  BY <1>1, <1>3, <1>4, <1>5, CountedReading

\* retain: the working thread has no use for the count meanwhile, and the game keeps the
\* request alive.
LEMMA CountedRetainStore ==
    ASSUME TypeOK, TypeOK', Control, Apart, NEW r \in Requests, CountedFor(r), RetainStore
    PROVE  CountedFor(r)'
<1>1. /\ main.at = "retainStore" /\ main'.at = "insert"
      /\ main'.req = main.req /\ main'.back = main.back /\ main'.itr = main.itr
      /\ Stores(main.req, main.count + 1)
      /\ UNCHANGED <<queue, pending, deleted, owned, worker>>
  BY RetainStoreStep DEF MainMoves
<1>2. /\ GameHolds(r)' <=> GameHolds(r)
      /\ CallHolds(r)' <=> CallHolds(r)
      /\ StartHolds(r)' <=> StartHolds(r) \/ r = main.req
  BY <1>1 DEF GameHolds, StartHolds, CallHolds, Operating, Queued, Scheduled
<1>3. Users(r) \in 0 .. 3 /\ main.count \in Int
  BY UsersRange, Types DEF MainStates
<1>4. ~MainCounts(r)'
  BY <1>1 DEF MainCounts
<1>5. CASE r = main.req
  <2>1. Users(r)' \in {Users(r), Users(r) + 1}
    BY <1>2 DEF Users, One
  <2>2. ~WorkerCounts(r) /\ r \in owned
    BY <1>1, <1>5 DEF Apart, ApartFrom, WorkerCounts, Inserted
  <2>3. ~WorkerCounts(r)'
    BY <1>1, <2>2 DEF WorkerCounts
  <2>4. Users(r) > 0
    BY <2>2 DEF Users, One, GameHolds
  <2>5. r \notin deleted /\ main.count >= Users(r)
    BY <1>1, <1>3, <1>5, <2>4 DEF CountedFor, MainCounts
  <2>6. ref'[r] >= Users(r)'
    BY <1>1, <1>3, <1>5, <2>1, <2>5 DEF Stores
  <2>q. QED
    BY <1>1, <1>4, <2>3, <2>5, <2>6 DEF CountedFor
<1>6. CASE r # main.req
  <2>1. Users(r)' = Users(r)
    BY <1>2, <1>6, SameUsers DEF SameHolds
  <2>2. ref'[r] = ref[r]
    BY <1>1, <1>6 DEF Stores
  <2>3. WorkerCounts(r)' <=> WorkerCounts(r)
    BY <1>1 DEF WorkerCounts
  <2>q. QED
    BY <1>1, <1>4, <2>1, <2>2, <2>3 DEF CountedFor
<1>q. QED
  BY <1>5, <1>6

LEMMA CountedInsertRequest ==
    ASSUME TypeOK, TypeOK', Control, NEW r \in Requests, CountedFor(r), InsertRequest
    PROVE  CountedFor(r)'
<1>1. /\ main.at = "insert" /\ main'.at = "post"
      /\ main'.req = main.req /\ main'.back = main.back /\ main'.itr = main.itr
      /\ Len(queue) \in Nat /\ Len(queue') = Len(queue) + 1
      /\ \A i \in 1 .. Len(queue) : queue'[i] = queue[i]
      /\ queue'[Len(queue) + 1] = main.req
      /\ UNCHANGED <<pending, ref, deleted, owned, worker>>
  BY InsertRequestStep, Types DEF MainMoves
<1>2. Queued(r)' <=> Queued(r) \/ r = main.req
  <2>1. 1 .. Len(queue') = 1 .. Len(queue) \cup {Len(queue) + 1}
    BY <1>1
  <2>q. QED
    BY <1>1, <2>1 DEF Queued
<1>3. SameHolds(r)
  BY <1>1, <1>2 DEF SameHolds, GameHolds, StartHolds, CallHolds, Operating, Scheduled
<1>4. Users(r)' = Users(r) /\ Users(r) \in Int
  BY <1>3, SameUsers, UsersRange
<1>5. /\ ~MainCounts(r)'
      /\ WorkerCounts(r)' => WorkerCounts(r) /\ worker'.count = worker.count
  BY <1>1 DEF MainCounts, WorkerCounts
<1>q. QED
  BY <1>1, <1>4, <1>5, CountedReading

LEMMA CountedPostAvail ==
    ASSUME TypeOK, TypeOK', Control, NEW r \in Requests, CountedFor(r), PostAvail
    PROVE  CountedFor(r)'
<1>1. /\ main.at = "post" /\ main.back \in {"game", "callback"} /\ main'.at = main.back
      /\ main'.req = main.req /\ main'.back = main.back /\ main'.itr = main.itr
      /\ UNCHANGED <<queue, pending, ref, deleted, owned, worker>>
  BY PostAvailStep DEF MainMoves
<1>2. SameHolds(r)
  BY <1>1 DEF SameHolds, GameHolds, StartHolds, CallHolds, Operating, Queued, Scheduled
<1>3. Users(r)' = Users(r) /\ Users(r) \in Int
  BY <1>2, SameUsers, UsersRange
<1>4. /\ ~MainCounts(r)'
      /\ WorkerCounts(r)' => WorkerCounts(r) /\ worker'.count = worker.count
  BY <1>1 DEF MainCounts, WorkerCounts
<1>q. QED
  BY <1>1, <1>3, <1>4, CountedReading

\* release, of the game or of mainLoop after a call: one reference fewer is held and the
\* count is one less.
LEMMA CountedReleaseStore ==
    ASSUME TypeOK, TypeOK', Control, OnePlace, Apart, NEW r \in Requests, CountedFor(r),
           ReleaseStore
    PROVE  CountedFor(r)'
<1>1. /\ main.at = "releaseStore" /\ main'.at = "releaseTest" /\ main.req \in Requests
      /\ main'.req = main.req /\ main'.back = main.back /\ main'.itr = main.itr
      /\ main'.count = main.count - 1
      /\ Stores(main.req, main.count - 1)
      /\ UNCHANGED <<queue, pending, deleted, owned, worker>>
  BY ReleaseStoreStep DEF MainMoves
<1>2. StartHolds(r)' <=> StartHolds(r)
  BY <1>1 DEF StartHolds, Queued
<1>3. Users(r) \in 0 .. 3 /\ main.count \in Int /\ ref[r] \in Int /\ worker.count \in Int
  BY UsersRange, Types DEF MainStates, WorkerStates
<1>4. Scheduled(r)' <=> Scheduled(r)
  BY <1>1 DEF Scheduled
<1>5. WorkerCounts(r)' <=> WorkerCounts(r)
  BY <1>1 DEF WorkerCounts
<1>6. CASE r = main.req
  <2>1. Users(r)' = Users(r) - 1
    <3>1. CASE main.back = "drain"
      <4>1. GameHolds(r)' <=> GameHolds(r)
        BY <1>1, <3>1 DEF GameHolds
      <4>2. CallHolds(r)
        BY <1>1, <1>6, <3>1 DEF CallHolds
      <4>3. /\ main.itr \in Int /\ main.itr - 1 \in 1 .. Len(pending)
            /\ pending[main.itr - 1].req = r /\ lock = "main"
        <5>1. Operating /\ Calling /\ Draining
          BY <1>1, <3>1 DEF Operating, Calling, Draining
        <5>2. main.itr > 1 /\ main.itr \in 1 .. (Len(pending) + 1) /\ lock = "main"
          BY <5>1 DEF Control
        <5>q. QED
          BY <1>6, <3>1, <5>1, <5>2, Types DEF Apart, DrainReleases
      <4>4. ~Scheduled(r)
        <5>1. ASSUME NEW i \in main.itr .. Len(pending), pending[i].req = r
              PROVE  FALSE
          <6>1. i \in 1 .. Len(pending) /\ i # main.itr - 1
            BY <4>3
          <6>q. QED
            BY <4>3, <5>1, <6>1 DEF OnePlace
        <5>q. QED
          BY <5>1 DEF Scheduled
      <4>5. worker.at # "push"
        BY <4>3 DEF Control
      <4>6. ~CallHolds(r)'
        BY <1>1, <1>4, <3>1, <4>4, <4>5 DEF CallHolds, Operating
      <4>q. QED
        BY <1>2, <4>1, <4>2, <4>6 DEF Users, One
    <3>2. CASE main.back # "drain"
      <4>1. CallHolds(r)' <=> CallHolds(r)
        BY <1>1, <1>4, <3>2 DEF CallHolds, Operating
      <4>2. GameHolds(r) /\ ~GameHolds(r)'
        BY <1>1, <1>6, <3>2 DEF GameHolds, Apart, ApartFrom
      <4>q. QED
        BY <1>2, <4>1, <4>2 DEF Users, One
    <3>q. QED
      BY <3>1, <3>2
  <2>2. /\ MainCounts(r) /\ main.count >= Users(r) /\ ref[r] >= Users(r)
        /\ WorkerCounts(r) => worker.count >= Users(r)
        /\ r \in deleted => Users(r) = 0
    BY <1>1, <1>6 DEF CountedFor, MainCounts
  <2>3. ref'[r] = main.count - 1
    BY <1>1, <1>6 DEF Stores
  <2>4. Users(r)' \in 0 .. 3
    BY UsersRange
  <2>5. /\ ref'[r] >= Users(r)' /\ main'.count >= Users(r)'
        /\ r \in deleted' => Users(r)' = 0
    BY <1>1, <1>3, <2>1, <2>2, <2>3, <2>4
  <2>6. WorkerCounts(r)' => worker'.count >= Users(r)'
    BY <1>1, <1>3, <1>5, <2>1, <2>2
  <2>q. QED
    BY <2>5, <2>6 DEF CountedFor
<1>7. CASE r # main.req
  <2>1. SameHolds(r)
    BY <1>1, <1>2, <1>4, <1>7 DEF SameHolds, GameHolds, CallHolds, Operating
  <2>2. Users(r)' = Users(r)
    BY <2>1, SameUsers
  <2>3. ref'[r] = ref[r] /\ ~MainCounts(r)'
    BY <1>1, <1>7 DEF Stores, MainCounts
  <2>q. QED
    BY <1>1, <1>5, <2>2, <2>3 DEF CountedFor
<1>q. QED
  BY <1>6, <1>7

\* A count that tests zero, in the register or in memory: no reference is held.
LEMMA CountedReleaseTest ==
    ASSUME TypeOK, TypeOK', Control, NEW r \in Requests, CountedFor(r), ReleaseTest
    PROVE  CountedFor(r)'
<1>1. /\ main.at = "releaseTest" /\ main'.at = main.back
      /\ main.back \in {"game", "callback", "drain"}
      /\ main'.req = main.req /\ main'.back = main.back /\ main'.itr = main.itr
      /\ \/ deleted' = deleted
         \/ deleted' = deleted \cup {main.req} /\ (main.count = 0 \/ ref[main.req] = 0)
      /\ UNCHANGED <<queue, pending, ref, owned, worker>>
  BY ReleaseTestStep DEF MainMoves
<1>2. SameHolds(r)
  BY <1>1 DEF SameHolds, GameHolds, StartHolds, CallHolds, Operating, Queued, Scheduled
<1>3. Users(r)' = Users(r) /\ Users(r) \in 0 .. 3
  BY <1>2, SameUsers, UsersRange
<1>4. ~MainCounts(r)' /\ (WorkerCounts(r)' <=> WorkerCounts(r))
  BY <1>1 DEF MainCounts, WorkerCounts
<1>5. r \in deleted' => Users(r) = 0
  <2>1. CASE r \in deleted
    BY <2>1 DEF CountedFor
  <2>2. CASE r \notin deleted /\ r \in deleted'
    <3>1. r = main.req /\ (main.count = 0 \/ ref[r] = 0)
      BY <1>1, <2>2
    <3>2. main.count >= Users(r) /\ ref[r] >= Users(r)
      BY <1>1, <3>1 DEF CountedFor, MainCounts
    <3>q. QED
      BY <1>3, <3>1, <3>2
  <2>q. QED
    BY <2>1, <2>2
<1>q. QED
  BY <1>1, <1>3, <1>4, <1>5 DEF CountedFor

LEMMA CountedDrain ==
    ASSUME TypeOK, TypeOK', Control, OnePlace, NEW r \in Requests, CountedFor(r),
           BeginDrain \/ InvokePending \/ EndCallback \/ EndDrain
    PROVE  CountedFor(r)'
<1>1. /\ UNCHANGED <<queue, ref, deleted, owned, worker>>
      /\ main.at \in {"game", "drain", "callback"}
      /\ main'.at \in {"game", "drain", "callback", "releaseStore"}
  BY BeginDrainStep, InvokePendingStep, EndCallbackStep, EndDrainStep DEF MainMoves
<1>2. SameHolds(r)
  <2>1. CASE BeginDrain
    <3>1. /\ main.at = "game" /\ main'.at = "drain" /\ main'.itr = main.itr
          /\ pending' = pending
      BY <2>1, BeginDrainStep DEF MainMoves
    <3>q. QED
      BY <1>1, <3>1
         DEF SameHolds, GameHolds, StartHolds, CallHolds, Operating, Queued, Scheduled
  <2>2. CASE InvokePending
    <3>1. /\ main.at = "drain" /\ main'.at = "callback" /\ main'.itr = main.itr + 1
          /\ main.itr \in 1 .. Len(pending) /\ pending' = pending
      BY <2>2, InvokePendingStep DEF MainMoves
    <3>2. main.itr .. Len(pending) = {main.itr} \cup (main'.itr .. Len(pending))
      BY <3>1, Types
    <3>3. main'.itr - 1 = main.itr
      BY <3>1
    <3>4. Scheduled(r) <=> Scheduled(r)' \/ pending'[main'.itr - 1].req = r
      BY <3>1, <3>2, <3>3 DEF Scheduled
    <3>q. QED
      BY <1>1, <3>1, <3>4
         DEF SameHolds, GameHolds, StartHolds, CallHolds, Operating, Queued
  <2>3. CASE EndCallback
    <3>1. /\ main.at = "callback" /\ main'.at = "releaseStore" /\ main'.back = "drain"
          /\ main'.req = pending[main.itr - 1].req /\ main'.itr = main.itr
          /\ pending' = pending
      BY <2>3, EndCallbackStep DEF MainMoves
    <3>q. QED
      BY <1>1, <3>1
         DEF SameHolds, GameHolds, StartHolds, CallHolds, Operating, Queued, Scheduled
  <2>4. CASE EndDrain
    <3>1. main.at = "drain" /\ main'.at = "game"
      BY <2>4, EndDrainStep DEF MainMoves
    <3>2. Scheduled(r)' <=> Scheduled(r)
      BY <2>4, SamePlacesMainThread DEF SamePlaces
    <3>q. QED
      BY <1>1, <3>1, <3>2
         DEF SameHolds, GameHolds, StartHolds, CallHolds, Operating, Queued
  <2>q. QED
    BY <2>1, <2>2, <2>3, <2>4
<1>3. Users(r)' = Users(r) /\ Users(r) \in Int
  BY <1>2, SameUsers, UsersRange
<1>4. MainCounts(r)' => main'.count = ref[r]
  <2>1. CASE EndCallback
    BY <2>1, EndCallbackStep DEF MainCounts, MainMoves
  <2>2. CASE ~EndCallback
    <3>1. main'.at \in {"game", "drain", "callback"}
      BY <2>2, BeginDrainStep, InvokePendingStep, EndDrainStep DEF MainMoves
    <3>q. QED
      BY <3>1 DEF MainCounts
  <2>q. QED
    BY <2>1, <2>2
<1>5. WorkerCounts(r)' => WorkerCounts(r) /\ worker'.count = worker.count
  BY <1>1 DEF WorkerCounts
<1>q. QED
  BY <1>1, <1>3, <1>4, <1>5, CountedReading

\* The working thread waits, takes, performs, locks and loads.
LEMMA CountedWorkerReads ==
    ASSUME TypeOK, TypeOK', Control, NEW r \in Requests, CountedFor(r),
           \/ WaitAvail \/ TakeRequest
           \/ \E outcome \in Outcomes, leak \in BOOLEAN : Perform(outcome, leak)
           \/ LockSchedule \/ WorkerRelease
    PROVE  CountedFor(r)'
<1>1. UNCHANGED <<main, pending, ref, deleted, owned>>
  BY WaitAvailStep, TakeRequestStep, PerformStep, LockScheduleStep, WorkerReleaseStep
<1>2. /\ GameHolds(r)' <=> GameHolds(r)
      /\ Scheduled(r)' <=> Scheduled(r)
  BY <1>1 DEF GameHolds, Scheduled
<1>3. worker.at # "push" /\ worker'.at # "push"
  BY WaitAvailStep, TakeRequestStep, PerformStep, LockScheduleStep, WorkerReleaseStep
     DEF WorkerMoves
<1>4. CallHolds(r)' <=> CallHolds(r)
  BY <1>1, <1>2, <1>3 DEF CallHolds, Operating
<1>5. StartHolds(r)' <=> StartHolds(r)
  <2>1. CASE TakeRequest /\ queue # <<>>
    <3>1. /\ worker.at = "take" /\ worker'.at = "perform" /\ worker'.req = queue[1]
          /\ Len(queue) \in Nat \ {0} /\ Len(queue') = Len(queue) - 1
          /\ \A i \in 1 .. Len(queue) - 1 : queue'[i] = queue[i + 1]
      <4>1. Len(queue) \in Nat /\ Len(queue) > 0
        BY <2>1, Types, TakeRequestStep
      <4>2. /\ worker.at = "take" /\ worker'.at = "perform" /\ worker'.req = queue[1]
            /\ Len(queue') = Len(queue) - 1
            /\ \A i \in 1 .. Len(queue) - 1 : queue'[i] = queue[i + 1]
        BY <2>1, TakeRequestStep DEF WorkerMoves
      <4>q. QED
        BY <4>1, <4>2
    <3>2. Queued(r) <=> Queued(r)' \/ r = queue[1]
      <4>1. ASSUME NEW i \in 1 .. Len(queue'), queue'[i] = r
            PROVE  Queued(r)
        <5>1. i \in 1 .. Len(queue) - 1 /\ i + 1 \in 1 .. Len(queue)
          BY <3>1
        <5>2. queue[i + 1] = r
          BY <3>1, <4>1, <5>1
        <5>q. QED
          BY <5>1, <5>2 DEF Queued
      <4>2. ASSUME NEW i \in 1 .. Len(queue), queue[i] = r, i # 1
            PROVE  Queued(r)'
        <5>1. i - 1 \in 1 .. Len(queue') /\ i - 1 \in 1 .. Len(queue) - 1 /\ i - 1 + 1 = i
          BY <3>1, <4>2
        <5>2. queue'[i - 1] = r
          BY <3>1, <4>2, <5>1
        <5>q. QED
          BY <5>1, <5>2 DEF Queued
      <4>3. 1 \in 1 .. Len(queue)
        BY <3>1
      <4>q. QED
        BY <4>1, <4>2, <4>3 DEF Queued
    <3>q. QED
      BY <1>1, <3>1, <3>2 DEF StartHolds
  <2>2. CASE ~(TakeRequest /\ queue # <<>>)
    <3>1. /\ queue' = queue
          /\ \/ worker.at \in {"wait", "take"} /\ worker'.at \in {"wait", "take"}
             \/ /\ worker.at \in {"perform", "notify", "release"}
                /\ worker'.at \in {"notify", "retainStore", "releaseStore"}
                /\ worker'.req = worker.req
      BY <2>2, WaitAvailStep, TakeRequestStep, PerformStep, LockScheduleStep,
         WorkerReleaseStep DEF WorkerMoves
    <3>q. QED
      BY <1>1, <3>1 DEF StartHolds, Queued
  <2>q. QED
    BY <2>1, <2>2
<1>6. Users(r)' = Users(r) /\ Users(r) \in Int
  BY <1>2, <1>4, <1>5, SameUsers, UsersRange DEF SameHolds
<1>7. MainCounts(r)' => MainCounts(r) /\ main'.count = main.count
  BY <1>1 DEF MainCounts
<1>8. WorkerCounts(r)' => worker'.count = ref[r]
  BY WaitAvailStep, TakeRequestStep, PerformStep, LockScheduleStep, WorkerReleaseStep
     DEF WorkerCounts, WorkerMoves
<1>q. QED
  BY <1>1, <1>6, <1>7, <1>8, CountedReading

\* performFuncOnMainThread retains its target: it still has the reference of the start,
\* and the main thread does not count a request that is in flight.
LEMMA CountedWorkerRetainStore ==
    ASSUME TypeOK, TypeOK', Control, OnePlace, Apart, NEW r \in Requests, CountedFor(r),
           WorkerRetainStore
    PROVE  CountedFor(r)'
<1>1. /\ worker.at = "retainStore" /\ worker'.at = "push"
      /\ worker'.req = worker.req /\ worker.req \in Requests
      /\ Stores(worker.req, worker.count + 1)
      /\ UNCHANGED <<main, queue, pending, deleted, owned>>
  BY WorkerRetainStoreStep DEF WorkerMoves
<1>2. /\ GameHolds(r)' <=> GameHolds(r)
      /\ StartHolds(r)' <=> StartHolds(r)
      /\ CallHolds(r)' <=> CallHolds(r) \/ r = worker.req
  BY <1>1 DEF GameHolds, StartHolds, CallHolds, Operating, Queued, Scheduled
<1>3. Users(r) \in 0 .. 3 /\ worker.count \in Int
  BY UsersRange, Types DEF WorkerStates
<1>4. ~WorkerCounts(r)' /\ (MainCounts(r)' <=> MainCounts(r))
  BY <1>1 DEF WorkerCounts, MainCounts
<1>5. CASE r = worker.req
  <2>1. Users(r)' \in {Users(r), Users(r) + 1}
    BY <1>2 DEF Users, One
  <2>2. InFlight(r) /\ ~Inserted(r)
    BY <1>1, <1>5 DEF OnePlace, InOnePlace, Performed
  <2>3. ~Draining
    BY <1>1 DEF Control
  <2>4. ~MainCounts(r)
    <3>1. ASSUME MainCounts(r)
          PROVE  FALSE
      <4>1. main.req = r /\ main.at \in {"releaseStore", "releaseTest"}
        BY <2>2, <3>1 DEF MainCounts, Inserted
      <4>2. main.back # "drain"
        BY <2>3, <4>1 DEF Draining, Operating
      <4>q. QED
        BY <2>2, <4>1, <4>2 DEF Apart, ApartFrom
    <3>q. QED
      BY <3>1
  <2>5. StartHolds(r)
    BY <1>1, <1>5 DEF StartHolds
  <2>6. Users(r) > 0
    BY <2>5 DEF Users, One
  <2>7. r \notin deleted /\ worker.count >= Users(r)
    BY <1>1, <1>3, <1>5, <2>6 DEF CountedFor, WorkerCounts
  <2>8. ref'[r] >= Users(r)'
    BY <1>1, <1>3, <1>5, <2>1, <2>7 DEF Stores
  <2>q. QED
    BY <1>1, <1>4, <2>4, <2>7, <2>8 DEF CountedFor
<1>6. CASE r # worker.req
  <2>1. Users(r)' = Users(r)
    BY <1>2, <1>6, SameUsers DEF SameHolds
  <2>2. ref'[r] = ref[r]
    BY <1>1, <1>6 DEF Stores
  <2>q. QED
    BY <1>1, <1>4, <2>1, <2>2 DEF CountedFor
<1>q. QED
  BY <1>5, <1>6

\* The reference of the call passes to pending; without a CURL handle that of the start
\* is given up and never released.
LEMMA CountedPushSchedule ==
    ASSUME TypeOK, TypeOK', Control, NEW r \in Requests, CountedFor(r), PushSchedule
    PROVE  CountedFor(r)'
<1>1. /\ worker.at = "push" /\ worker'.at \in {"wait", "release"}
      /\ worker'.req = worker.req
      /\ Len(pending) \in Nat /\ Len(pending') = Len(pending) + 1
      /\ \A i \in 1 .. Len(pending) : pending'[i] = pending[i]
      /\ pending'[Len(pending) + 1].req = worker.req
      /\ UNCHANGED <<main, queue, ref, deleted, owned>>
  BY PushScheduleStep, Types DEF WorkerMoves
<1>2. main.itr = 1 /\ ~Draining
  BY <1>1 DEF Control
<1>3. Scheduled(r)' <=> Scheduled(r) \/ r = worker.req
  <2>1. 1 .. Len(pending') = 1 .. Len(pending) \cup {Len(pending) + 1}
    BY <1>1
  <2>q. QED
    BY <1>1, <1>2, <2>1 DEF Scheduled
<1>4. CallHolds(r)' <=> CallHolds(r)
  BY <1>1, <1>2, <1>3 DEF CallHolds, Draining, Operating
<1>5. (GameHolds(r)' <=> GameHolds(r)) /\ (StartHolds(r)' => StartHolds(r))
  BY <1>1 DEF GameHolds, StartHolds, Queued
<1>6. Users(r)' <= Users(r)
  BY <1>4, <1>5 DEF Users, One
<1>7. /\ MainCounts(r)' => MainCounts(r) /\ main'.count = main.count
      /\ ~WorkerCounts(r)'
  BY <1>1 DEF MainCounts, WorkerCounts
<1>q. QED
  BY <1>1, <1>6, <1>7, CountedReading

\* The working thread is done: nobody has queued the request again meanwhile.
LEMMA CountedWorkerReleaseStore ==
    ASSUME TypeOK, TypeOK', Control, Apart, NEW r \in Requests, CountedFor(r),
           WorkerReleaseStore
    PROVE  CountedFor(r)'
<1>1. /\ worker.at = "releaseStore" /\ worker'.at = "releaseTest"
      /\ worker'.req = worker.req /\ worker'.count = worker.count - 1
      /\ Stores(worker.req, worker.count - 1)
      /\ UNCHANGED <<main, queue, pending, deleted, owned>>
  BY WorkerReleaseStoreStep DEF WorkerMoves
<1>2. /\ GameHolds(r)' <=> GameHolds(r)
      /\ CallHolds(r)' <=> CallHolds(r)
  BY <1>1 DEF GameHolds, CallHolds, Operating, Scheduled
<1>3. Users(r) \in 0 .. 3 /\ main.count \in Int /\ ref[r] \in Int /\ worker.count \in Int
  BY UsersRange, Types DEF MainStates, WorkerStates
<1>4. MainCounts(r)' <=> MainCounts(r)
  BY <1>1 DEF MainCounts
<1>5. CASE r = worker.req
  <2>1. StartHolds(r) /\ ~StartHolds(r)'
    <3>1. ~Queued(r) /\ ~Inserted(r)
      BY <1>1, <1>5 DEF Apart, ApartFrom
    <3>2. ~Queued(r)'
      BY <1>1, <3>1 DEF Queued
    <3>q. QED
      BY <1>1, <1>5, <3>1, <3>2 DEF StartHolds, Inserted
  <2>2. Users(r)' = Users(r) - 1
    BY <1>2, <2>1 DEF Users, One
  <2>3. /\ worker.count >= Users(r) /\ ref[r] >= Users(r)
        /\ MainCounts(r) => main.count >= Users(r)
        /\ r \in deleted => Users(r) = 0
    BY <1>1, <1>5 DEF CountedFor, WorkerCounts
  <2>4. ref'[r] = worker.count - 1 /\ Users(r)' \in 0 .. 3
    BY <1>1, <1>5, UsersRange DEF Stores
  <2>5. /\ ref'[r] >= Users(r)' /\ worker'.count >= Users(r)'
        /\ r \in deleted' => Users(r)' = 0
    BY <1>1, <1>3, <2>2, <2>3, <2>4
  <2>6. MainCounts(r)' => main'.count >= Users(r)'
    BY <1>1, <1>3, <1>4, <2>2, <2>3
  <2>q. QED
    BY <2>5, <2>6 DEF CountedFor
<1>6. CASE r # worker.req
  <2>1. StartHolds(r)' <=> StartHolds(r)
    BY <1>1, <1>6 DEF StartHolds, Queued
  <2>2. Users(r)' = Users(r)
    BY <1>2, <2>1, SameUsers DEF SameHolds
  <2>3. ref'[r] = ref[r] /\ ~WorkerCounts(r)'
    BY <1>1, <1>6 DEF Stores, WorkerCounts
  <2>q. QED
    BY <1>1, <1>4, <2>2, <2>3 DEF CountedFor
<1>q. QED
  BY <1>5, <1>6

LEMMA CountedWorkerReleaseTest ==
    ASSUME TypeOK, TypeOK', Control, NEW r \in Requests, CountedFor(r), WorkerReleaseTest
    PROVE  CountedFor(r)'
<1>1. /\ worker.at = "releaseTest" /\ worker'.at = "wait"
      /\ \/ deleted' = deleted
         \/ /\ deleted' = deleted \cup {worker.req}
            /\ worker.count = 0 \/ ref[worker.req] = 0
      /\ UNCHANGED <<main, queue, pending, ref, owned>>
  BY WorkerReleaseTestStep DEF WorkerMoves
<1>2. SameHolds(r)
  BY <1>1 DEF SameHolds, GameHolds, StartHolds, CallHolds, Operating, Queued, Scheduled
<1>3. Users(r)' = Users(r) /\ Users(r) \in 0 .. 3
  BY <1>2, SameUsers, UsersRange
<1>4. ~WorkerCounts(r)' /\ (MainCounts(r)' <=> MainCounts(r))
  BY <1>1 DEF MainCounts, WorkerCounts
<1>5. r \in deleted' => Users(r) = 0
  <2>1. CASE r \in deleted
    BY <2>1 DEF CountedFor
  <2>2. CASE r \notin deleted /\ r \in deleted'
    <3>1. r = worker.req /\ (worker.count = 0 \/ ref[r] = 0)
      BY <1>1, <2>2
    <3>2. worker.count >= Users(r) /\ ref[r] >= Users(r)
      BY <1>1, <3>1 DEF CountedFor, WorkerCounts
    <3>q. QED
      BY <1>3, <3>1, <3>2
  <2>q. QED
    BY <2>1, <2>2
<1>q. QED
  BY <1>1, <1>3, <1>4, <1>5 DEF CountedFor

LEMMA CountedNext ==
    ASSUME TypeOK, TypeOK', Control, OnePlace, Apart, Counted, [Next]_vars
    PROVE  Counted'
<1> SUFFICES ASSUME NEW r \in Requests
             PROVE  CountedFor(r)'
  BY DEF Counted
<1>0. CountedFor(r)
  BY DEF Counted
<1>1. CASE UNCHANGED vars
  BY <1>0, <1>1 DEF vars, CountedFor, Users, One, GameHolds, StartHolds, CallHolds, Queued,
     Scheduled, Operating, MainCounts, WorkerCounts
<1>2. CASE Game
  BY <1>0, <1>2, CountedStartRequest, CountedGameRelease DEF Game
<1>3. CASE MainThread
  BY <1>0, <1>3, CountedRetainStore, CountedInsertRequest, CountedPostAvail,
     CountedReleaseStore, CountedReleaseTest, CountedDrain DEF MainThread
<1>4. CASE WorkingThread
  BY <1>0, <1>4, CountedWorkerReads, CountedWorkerRetainStore, CountedPushSchedule,
     CountedWorkerReleaseStore, CountedWorkerReleaseTest DEF WorkingThread
<1>q. QED
  BY <1>1, <1>2, <1>3, <1>4 DEF Next

\* Who is about to use a request holds a reference to it.
LEMMA CountedIsAlive ==
    ASSUME TypeOK, Control, Counted
    PROVE  AliveWhenUsed
<1>1. ASSUME NEW r \in Requests, StartHolds(r) \/ CallHolds(r)
      PROVE  r \notin deleted
  BY <1>1 DEF Counted, CountedFor, Users, One
<1>2. ToSet(queue) \cap deleted = {}
  <2>1. \A i \in 1 .. Len(queue) : queue[i] \in Requests
    BY Types, ElementOfSeq
  <2>2. \A i \in 1 .. Len(queue) : queue[i] \notin deleted
    BY <1>1, <2>1 DEF StartHolds, Queued
  <2>3. ToSet(queue) = {queue[i] : i \in 1 .. Len(queue)}
    BY Types, ToSetOfSeq
  <2>q. QED
    BY <2>2, <2>3
<1>3. worker.at \in {"perform", "notify", "retainStore", "push", "release"} =>
         worker.req \notin deleted
  BY <1>1 DEF StartHolds, Control
<1>4. \A i \in main.itr .. Len(pending) : pending[i].req \notin deleted
  <2> SUFFICES ASSUME NEW i \in main.itr .. Len(pending)
               PROVE  pending[i].req \notin deleted
    OBVIOUS
  <2>1. i \in 1 .. Len(pending)
    BY Types DEF Control
  <2>2. pending[i].req \in Requests /\ Scheduled(pending[i].req)
    BY <2>1, Types DEF Scheduled
  <2>q. QED
    BY <1>1, <2>2 DEF CallHolds
<1>5. main.at = "callback" => pending[main.itr - 1].req \notin deleted
  <2> SUFFICES ASSUME main.at = "callback"
               PROVE  pending[main.itr - 1].req \notin deleted
    OBVIOUS
  <2>1. main.itr - 1 \in 1 .. Len(pending)
    BY Types DEF Control, Calling
  <2>2. pending[main.itr - 1].req \in Requests
    BY <2>1, Types
  <2>q. QED
    BY <1>1, <2>2 DEF CallHolds
<1>q. QED
  BY <1>2, <1>3, <1>4, <1>5 DEF AliveWhenUsed

\* A game that keeps its reference until the callback of a request has come, and starts
\* the request again only when the working thread is done with it, never has a request
\* deleted that is queued, performed or to be told: the counts are stored without
\* protection, but never by both threads for one request at a time.
THEOREM KeptRequestsAreAlive ==
    ASSUME Early = {}
    PROVE  Spec => []AliveWhenUsed
<1> DEFINE Inv == TypeOK /\ Control /\ OnePlace /\ Apart /\ Counted
<1>1. Init => Inv
  BY ControlInit, OnePlaceInit, ApartInit, CountedInit
<1>2. Inv /\ [Next]_vars => Inv'
  BY ControlNext, OnePlaceNext, ApartNext, CountedNext
<1>3. Inv => AliveWhenUsed
  BY CountedIsAlive
<1>q. QED
  BY <1>1, <1>2, <1>3, PTL DEF Spec
=============================================================================
