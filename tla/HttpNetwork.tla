----------------------------- MODULE HttpNetwork -----------------------------
(***************************************************************************)
(* HLHttpNetwork and the hand-over to the main thread it uses: the main    *)
(* thread starts requests, one working thread performs them, and each      *)
(* result comes back as a call scheduled with performFuncOnMainThread that *)
(* mainLoop makes while it drains pendingScheduleArray.                    *)
(*                                                                         *)
(* The two threads share the request queue (a mutex and a semaphore), the  *)
(* schedule array (a mutex), and the reference counts of the requests,     *)
(* which nothing protects: HLObject::retain and release are a load and a   *)
(* store, and release then tests the count it stored, in a register or in  *)
(* memory as the compiler pleases.                                         *)
(***************************************************************************)
EXTENDS SequencesExt

CONSTANTS
    Requests,    \* the HLHttpRequest objects
    MaxStarts,   \* how often a game starts each request: the bound of the model
    Early        \* what a game does to a request while the working thread may still
                 \* update its count: release its reference, or start it again

ASSUME RequestsAssumption ==
    /\ MaxStarts \in [Requests -> Nat]
    /\ Early \subseteq {"release", "restart"}

VARIABLES
    queue,      \* HLRequestQueue::mList
    avail,      \* the semaphore
    pending,    \* pendingScheduleArray: the request and what it is told
    lock,       \* who holds scheduleSelectorMutex
    ref,        \* _refCount of each request
    deleted,    \* the requests that were deleted
    owned,      \* the requests the game holds a reference to
    body,       \* mResponse: empty, the bytes of the last transfer, or older ones
    main,       \* the main thread: where it is, the request and the count it works
                \* on, where it goes next, the next call of pending to make
    worker,     \* the working thread, likewise, and the outcome it reports
    starts,     \* history: how often each request was started
    answers     \* history: how often each request got a callback

vars == <<queue, avail, pending, lock, ref, deleted, owned, body, main, worker,
          starts, answers>>
counts == <<ref, deleted>>
history == <<starts, answers>>

Nobody == "nobody"
Outcomes == {"success", "failure", "error"}   \* 200, another response code, no response

MainAt == {"game", "callback", "drain", "retainStore", "insert", "post",
           "releaseStore", "releaseTest"}
WorkerAt == {"wait", "take", "perform", "notify", "retainStore", "push", "release",
             "releaseStore", "releaseTest"}

Init ==
    /\ queue = <<>>
    /\ avail = 0
    /\ pending = <<>>
    /\ lock = "free"
    /\ ref = [r \in Requests |-> 1]
    /\ deleted = {}
    /\ owned = Requests
    /\ body = [r \in Requests |-> "empty"]
    /\ main = [at |-> "game", req |-> Nobody, count |-> 0, back |-> "game", itr |-> 1]
    /\ worker = [at |-> "wait", req |-> Nobody, count |-> 0, outcome |-> "error",
                 leak |-> FALSE]
    /\ starts = [r \in Requests |-> 0]
    /\ answers = [r \in Requests |-> 0]

-----------------------------------------------------------------------------
(* Mutants: operations of this module as a mistake in them would have them. *)

\* sem_wait fails (EINTR) and the failure is not looked at.
WaitAvailOrFail ==
    /\ worker.at = "wait"
    /\ avail' = avail - 1
    /\ worker' = [worker EXCEPT !.at = "take"]
    /\ UNCHANGED <<queue, pending, lock, counts, owned, body, main, history>>

\* removeRequest forgets pop_front.
TakeWithoutPop ==
    /\ worker.at = "take"
    /\ \/ /\ queue = <<>>
          /\ worker' = [worker EXCEPT !.at = "wait"]
       \/ /\ queue # <<>>
          /\ worker' = [worker EXCEPT !.at = "perform", !.req = Head(queue)]
    /\ UNCHANGED <<queue, avail, pending, lock, counts, owned, body, main, history>>

\* performFuncOnMainThread does not retain its target.
ScheduleWithoutRetain ==
    /\ worker.at = "retainStore"
    /\ worker' = [worker EXCEPT !.at = "push"]
    /\ UNCHANGED <<queue, avail, pending, lock, counts, owned, body, main, history>>

\* A transfer that fails is not notified.
PerformSilently(outcome, leak) ==
    /\ worker.at = "perform"
    /\ leak => outcome = "error"
    /\ worker' = [worker EXCEPT !.at = IF outcome = "error" THEN "release" ELSE "notify",
                                !.outcome = outcome, !.leak = leak]
    /\ UNCHANGED <<queue, avail, pending, lock, counts, owned, body, main, history>>

\* insertRequest inserts at the front.
InsertAtFront ==
    /\ main.at = "insert"
    /\ queue' = <<main.req>> \o queue
    /\ main' = [main EXCEPT !.at = "post"]
    /\ UNCHANGED <<avail, pending, lock, counts, owned, body, worker, history>>

-----------------------------------------------------------------------------
(* The main thread: the game. *)

GameRuns == main.at \in {"game", "callback"}

InFlight(r) == starts[r] > answers[r]

WorkerIsDoneWith(r) == worker.at = "wait" \/ worker.req # r

\* startRequest: retain ...
StartRequest(r) ==
    /\ GameRuns
    /\ r \in owned
    /\ starts[r] < MaxStarts[r]
    /\ ~InFlight(r)
    /\ WorkerIsDoneWith(r) \/ "restart" \in Early
    /\ starts' = [starts EXCEPT ![r] = @ + 1]
    /\ main' = [main EXCEPT !.at = "retainStore", !.req = r, !.count = ref[r],
                            !.back = main.at]
    /\ UNCHANGED <<queue, avail, pending, lock, counts, owned, body, worker,
                   answers>>

RetainStore ==
    /\ main.at = "retainStore"
    /\ ref' = [ref EXCEPT ![main.req] = main.count + 1]
    /\ main' = [main EXCEPT !.at = "insert"]
    /\ UNCHANGED <<queue, avail, pending, lock, deleted, owned, body, worker, history>>

\* ... insertRequest ...
InsertRequest ==
    /\ main.at = "insert"
    /\ queue' = Append(queue, main.req)
    /\ main' = [main EXCEPT !.at = "post"]
    /\ UNCHANGED <<avail, pending, lock, counts, owned, body, worker, history>>

\* ... sem_post.
PostAvail ==
    /\ main.at = "post"
    /\ avail' = avail + 1
    /\ main' = [main EXCEPT !.at = main.back]
    /\ UNCHANGED <<queue, pending, lock, counts, owned, body, worker, history>>

\* The game drops its reference; in a callback, or between two frames as the
\* autorelease pool does.
GameRelease(r) ==
    /\ GameRuns
    /\ r \in owned
    /\ ~InFlight(r) \/ "release" \in Early
    /\ owned' = owned \ {r}
    /\ main' = [main EXCEPT !.at = "releaseStore", !.req = r, !.count = ref[r],
                            !.back = main.at]
    /\ UNCHANGED <<queue, avail, pending, lock, counts, body, worker, history>>

ReleaseStore ==
    /\ main.at = "releaseStore"
    /\ ref' = [ref EXCEPT ![main.req] = main.count - 1]
    /\ main' = [main EXCEPT !.at = "releaseTest", !.count = main.count - 1]
    /\ UNCHANGED <<queue, avail, pending, lock, deleted, owned, body, worker, history>>

ReleaseTest ==
    /\ main.at = "releaseTest"
    /\ \E count \in {main.count, ref[main.req]} :
          deleted' = IF count = 0 THEN deleted \cup {main.req} ELSE deleted
    /\ main' = [main EXCEPT !.at = main.back]
    /\ UNCHANGED <<queue, avail, pending, lock, ref, owned, body, worker, history>>

-----------------------------------------------------------------------------
(* The main thread: mainLoop drains the scheduled calls with the lock held.  *)
(* A frame in which trylock fails leaves everything to the next one.         *)

BeginDrain ==
    /\ main.at = "game"
    /\ lock = "free"
    /\ lock' = "main"
    /\ main' = [main EXCEPT !.at = "drain"]
    /\ UNCHANGED <<queue, avail, pending, counts, owned, body, worker, history>>

InvokePending ==
    /\ main.at = "drain"
    /\ main.itr <= Len(pending)
    /\ answers' = [answers EXCEPT ![pending[main.itr].req] = @ + 1]
    /\ main' = [main EXCEPT !.at = "callback", !.itr = @ + 1]
    /\ UNCHANGED <<queue, avail, pending, lock, counts, owned, body, worker,
                   starts>>

\* The callback returned: release the target, on to the next call.
EndCallback ==
    /\ main.at = "callback"
    /\ LET r == pending[main.itr - 1].req
       IN  main' = [main EXCEPT !.at = "releaseStore", !.req = r, !.count = ref[r],
                                !.back = "drain"]
    /\ UNCHANGED <<queue, avail, pending, lock, counts, owned, body, worker, history>>

EndDrain ==
    /\ main.at = "drain"
    /\ main.itr > Len(pending)
    /\ pending' = <<>>
    /\ lock' = "free"
    /\ main' = [main EXCEPT !.at = "game", !.itr = 1]
    /\ UNCHANGED <<queue, avail, counts, owned, body, worker, history>>

-----------------------------------------------------------------------------
(* The working thread. *)

WaitAvail ==
    /\ worker.at = "wait"
    /\ avail > 0
    /\ avail' = avail - 1
    /\ worker' = [worker EXCEPT !.at = "take"]
    /\ UNCHANGED <<queue, pending, lock, counts, owned, body, main, history>>

TakeRequest ==
    /\ worker.at = "take"
    /\ \/ /\ queue = <<>>
          /\ worker' = [worker EXCEPT !.at = "wait"]
          /\ UNCHANGED queue
       \/ /\ queue # <<>>
          /\ worker' = [worker EXCEPT !.at = "perform", !.req = Head(queue)]
          /\ queue' = Tail(queue)
    /\ UNCHANGED <<avail, pending, lock, counts, owned, body, main, history>>

\* The transfer ends: only a 200 stores its bytes. Without a CURL handle the
\* request is told of an error, and its reference is never released.
Perform(outcome, leak) ==
    /\ worker.at = "perform"
    /\ leak => outcome = "error"
    /\ body' = [body EXCEPT ![worker.req] =
                   CASE outcome = "success" -> "new"
                     [] outcome # "success" /\ @ = "empty" -> "empty"
                     [] OTHER -> "old"]
    /\ worker' = [worker EXCEPT !.at = "notify", !.outcome = outcome, !.leak = leak]
    /\ UNCHANGED <<queue, avail, pending, lock, counts, owned, main, history>>

\* performFuncOnMainThread from another thread: lock, retain, push_back, unlock.
LockSchedule ==
    /\ worker.at = "notify"
    /\ lock = "free"
    /\ lock' = "worker"
    /\ worker' = [worker EXCEPT !.at = "retainStore", !.count = ref[worker.req]]
    /\ UNCHANGED <<queue, avail, pending, counts, owned, body, main, history>>

WorkerRetainStore ==
    /\ worker.at = "retainStore"
    /\ ref' = [ref EXCEPT ![worker.req] = worker.count + 1]
    /\ worker' = [worker EXCEPT !.at = "push"]
    /\ UNCHANGED <<queue, avail, pending, lock, deleted, owned, body, main, history>>

PushSchedule ==
    /\ worker.at = "push"
    /\ pending' = Append(pending,
                         [req |-> worker.req,
                          kind |-> IF worker.outcome = "error" THEN "error" ELSE "response"])
    /\ lock' = "free"
    /\ worker' = [worker EXCEPT !.at = IF worker.leak THEN "wait" ELSE "release"]
    /\ UNCHANGED <<queue, avail, counts, owned, body, main, history>>

WorkerRelease ==
    /\ worker.at = "release"
    /\ worker' = [worker EXCEPT !.at = "releaseStore", !.count = ref[worker.req]]
    /\ UNCHANGED <<queue, avail, pending, lock, counts, owned, body, main, history>>

WorkerReleaseStore ==
    /\ worker.at = "releaseStore"
    /\ ref' = [ref EXCEPT ![worker.req] = worker.count - 1]
    /\ worker' = [worker EXCEPT !.at = "releaseTest", !.count = worker.count - 1]
    /\ UNCHANGED <<queue, avail, pending, lock, deleted, owned, body, main, history>>

WorkerReleaseTest ==
    /\ worker.at = "releaseTest"
    /\ \E count \in {worker.count, ref[worker.req]} :
          deleted' = IF count = 0 THEN deleted \cup {worker.req} ELSE deleted
    /\ worker' = [worker EXCEPT !.at = "wait"]
    /\ UNCHANGED <<queue, avail, pending, lock, ref, owned, body, main, history>>

-----------------------------------------------------------------------------

Game == \E r \in Requests : StartRequest(r) \/ GameRelease(r)

MainThread ==
    \/ RetainStore
    \/ InsertRequest
    \/ PostAvail
    \/ ReleaseStore
    \/ ReleaseTest
    \/ BeginDrain
    \/ InvokePending
    \/ EndCallback
    \/ EndDrain

WorkingThread ==
    \/ WaitAvail
    \/ TakeRequest
    \/ \E outcome \in Outcomes, leak \in BOOLEAN : Perform(outcome, leak)
    \/ LockSchedule
    \/ WorkerRetainStore
    \/ PushSchedule
    \/ WorkerRelease
    \/ WorkerReleaseStore
    \/ WorkerReleaseTest

Next == Game \/ MainThread \/ WorkingThread

Spec == Init /\ [][Next]_vars

\* Both threads keep running, a transfer ends (CURLOPT_TIMEOUT), and the mutex is
\* not withheld for ever from the working thread by frames that take it first.
FairSpec == Spec /\ WF_vars(MainThread) /\ WF_vars(WorkingThread) /\ SF_vars(LockSchedule)

-----------------------------------------------------------------------------
(* Properties. *)

\* The state is well formed.
TypeOK ==
    /\ queue \in Seq(Requests)
    /\ avail \in Nat
    /\ pending \in Seq([req : Requests, kind : {"response", "error"}])
    /\ lock \in {"free", "main", "worker"}
    /\ ref \in [Requests -> Int]
    /\ deleted \in SUBSET Requests
    /\ owned \in SUBSET Requests
    /\ body \in [Requests -> {"empty", "new", "old"}]
    /\ main \in [at : MainAt, req : Requests \cup {Nobody}, count : Int,
                 back : {"game", "callback", "drain"}, itr : Nat]
    /\ worker \in [at : WorkerAt, req : Requests \cup {Nobody}, count : Int,
                   outcome : Outcomes, leak : BOOLEAN]
    /\ starts \in [Requests -> Nat]
    /\ answers \in [Requests -> Nat]

\* Every post of the semaphore stands for a request that is in the queue: the working
\* thread never wakes to an empty queue, and never sleeps over a request in it.
SemaphoreCountsQueue ==
    Len(queue) = avail + (IF worker.at = "take" THEN 1 ELSE 0)
                       + (IF main.at = "post" THEN 1 ELSE 0)

\* A request is alive whenever one of the threads is about to use it: while it is
\* queued, while it is performed, and until its callback has been made. (It says nothing
\* of two threads that both read a 0 in release and both delete.)
AliveWhenUsed ==
    /\ ToSet(queue) \cap deleted = {}
    /\ worker.at \in {"perform", "notify", "retainStore", "push", "release"} =>
          worker.req \notin deleted
    /\ \A i \in main.itr..Len(pending) : pending[i].req \notin deleted
    /\ main.at = "callback" => pending[main.itr - 1].req \notin deleted

\* What onResponse is about to get as response data came with this response, or is
\* empty: notifySuccessOnMainThread passes mResponse as it finds it.
ResponseIsOfThisTransfer ==
    main.at = "drain" /\ main.itr <= Len(pending) /\ pending[main.itr].kind = "response"
        => body[pending[main.itr].req] # "old"

\* Every start is answered, by a callback of its own.
EveryStartIsAnswered ==
    \A r \in Requests : \A n \in 1..MaxStarts[r] : (starts[r] = n) ~> (answers[r] >= n)

\* The requests that were started and not answered, the oldest first: those whose call
\* is scheduled, the one the working thread has, those in the queue, the one being
\* inserted.
Line ==
    LET scheduled == [i \in 1..(Len(pending) - main.itr + 1) |->
                          pending[main.itr + i - 1].req]
        performed == IF worker.at \in {"perform", "notify", "retainStore", "push"}
                     THEN <<worker.req>> ELSE <<>>
        inserted == IF main.at \in {"retainStore", "insert"} THEN <<main.req>> ELSE <<>>
    IN  scheduled \o performed \o queue \o inserted

Broker == INSTANCE RequestBroker WITH line <- Line

ImplementsBroker == Broker!Spec
=============================================================================
