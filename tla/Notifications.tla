--------------------------- MODULE Notifications ---------------------------
(***************************************************************************)
(* Durable Telegram delivery (gocube_golden/notifications): event files    *)
(* and delivery files under one owner root, shared by the dispatchers of   *)
(* several processes.  A dispatcher has a main thread (publish, requeue,   *)
(* flush, close, migration), a background worker, and one sender thread    *)
(* for each HTTP request.  The worker and flush drain the root under       *)
(* dispatcher.lock; a sender saves its outcome without the lock, however   *)
(* late.                                                                   *)
(*                                                                         *)
(* Time is abstracted: a deadline may pass at any step of a drain, and a   *)
(* retry becomes due at some time.  An event file and its delivery file    *)
(* are read as one; attempts, texts and receipts are left out.             *)
(***************************************************************************)
EXTENDS Naturals, Sequences, FiniteSets

CONSTANTS
  Events,       \* logical facts that may be published
  Dispatchers,  \* processes that open a dispatcher on the root
  Configured,   \* those with Telegram credentials
  Outbox,       \* legacy messages found in the old notifier's outbox
  Receipts,     \* those of them that the old notifier has delivered
  DiskFaults,   \* writes may fail, delivery files may be corrupted
  MaxRefusals,  \* bound: requests that Telegram refuses or never gets
  MaxCrashes    \* bound: process crashes

ASSUME NotificationAssumption ==
  /\ Configured \subseteq Dispatchers
  /\ Receipts \subseteq Outbox /\ Outbox \subseteq Events
  /\ DiskFaults \in BOOLEAN
  /\ MaxRefusals \in Nat /\ MaxCrashes \in Nat

VARIABLES
  events,   \* event files
  status,   \* delivery files: status of each event, "none" when absent
  lock,     \* thread that holds dispatcher.lock
  todo,     \* events of a thread's snapshot it may still attempt
  at,       \* where each thread stands
  cur,      \* event a main thread is publishing
  up,       \* the process is running
  closed,   \* the dispatcher refuses publications
  sends,    \* HTTP requests, in the order they were started
  told,     \* history: how often Telegram accepted each event's message
  crashes   \* history: process crashes

files   == <<events, status>>
threads == <<lock, todo, at, cur>>
procs   == <<up, closed>>
vars    == <<events, status, lock, todo, at, cur, up, closed, sends, told, crashes>>

Threads == Dispatchers \X {"main", "worker"}
Main(d) == <<d, "main">>
Worker(d) == <<d, "worker">>
NoThread == <<>>

\* RETRY_DUE is RETRY_WAIT once the clock has passed next_attempt_at.
DueNow == {"PENDING", "RETRY_DUE"}
Sendable == DueNow \cup {"RETRY_WAIT"}
Status == Sendable \cup {"BLOCKED", "UNCERTAIN", "DELIVERED"}
Place == {"dead", "awake", "resting", "idle", "ensure", "wake", "import",
          "receipt", "sending", "joined"}

\* What happened to a request at the other end; "lost" never arrived.
Net == {"flying", "told", "throttled", "rejected", "lost"}
Request == [ev : Events, by : Dispatchers, net : Net, live : BOOLEAN]

TypeOK ==
  /\ events \subseteq Events
  /\ status \in [Events -> Status \cup {"none"}]
  /\ lock \in Threads \cup {NoThread}
  /\ todo \in [Threads -> SUBSET Events]
  /\ at \in [Threads -> Place]
  /\ cur \in [Dispatchers -> Events]
  /\ up \in [Dispatchers -> BOOLEAN]
  /\ closed \in [Dispatchers -> BOOLEAN]
  /\ sends \in Seq(Request)
  /\ told \in [Events -> Nat]
  /\ crashes \in Nat

Init ==
  /\ events = {}
  /\ status = [e \in Events |-> "none"]
  /\ lock = NoThread
  /\ todo = [t \in Threads |-> {}]
  /\ at = [t \in Threads |-> IF t[2] = "main" THEN "idle" ELSE "dead"]
  /\ cur \in [Dispatchers -> Events]
  /\ up = [d \in Dispatchers |-> TRUE]
  /\ closed = [d \in Dispatchers |-> FALSE]
  /\ sends = <<>>
  /\ told = [e \in Events |-> IF e \in Receipts THEN 1 ELSE 0]
  /\ crashes = 0

-----------------------------------------------------------------------------
(* The store.                                                              *)

\* ensure_delivery: an event without a delivery file gets a pending one.
Ensured == [e \in Events |->
              IF e \in events /\ status[e] = "none" THEN "PENDING" ELSE status[e]]

\* The dispatcher still has something a worker would have to do.
Unsettled == \E e \in events : Ensured[e] \in Sendable

Goto(t, place) == at' = [at EXCEPT ![t] = place]

\* _ensure_worker, for a main thread that comes to rest.
WakeFromMain(d) ==
  at' = [at EXCEPT ![Main(d)] = "idle",
                   ![Worker(d)] = IF @ = "dead" THEN "awake" ELSE @]

-----------------------------------------------------------------------------
(* The main thread of a dispatcher.                                        *)

\* publish: the event file is created, or found; migration does the same
\* for a legacy message.
Publish(d, e, place) ==
  /\ up[d] /\ at[Main(d)] = "idle"
  /\ IF place = "import" THEN e \in Outbox ELSE ~closed[d] /\ e \notin Outbox
  /\ events' = events \cup {e}
  /\ cur' = [cur EXCEPT ![d] = e]
  /\ Goto(Main(d), place)
  /\ UNCHANGED <<status, lock, todo, procs, sends, told, crashes>>

Ensure(d) ==
  /\ at[Main(d)] \in {"ensure", "import"}
  /\ status' = [status EXCEPT ![cur[d]] = IF @ = "none" THEN "PENDING" ELSE @]
  /\ Goto(Main(d), IF at[Main(d)] = "ensure" THEN "wake"
                   ELSE IF cur[d] \in Receipts THEN "receipt" ELSE "idle")
  /\ UNCHANGED <<events, lock, todo, cur, procs, sends, told, crashes>>

\* The delivery file cannot be created: publish raises.
EnsureFails(d) ==
  /\ DiskFaults /\ at[Main(d)] \in {"ensure", "import"}
  /\ Goto(Main(d), "idle")
  /\ UNCHANGED <<files, lock, todo, cur, procs, sends, told, crashes>>

\* Mutant: the event flag is set but a finished worker is not replaced.
WakeFlagOnly(d) ==
  /\ d \in Configured /\ at[Main(d)] = "wake"
  /\ Goto(Main(d), "idle")
  /\ UNCHANGED <<files, lock, todo, cur, procs, sends, told, crashes>>
Wake(d) ==
  /\ d \in Configured /\ at[Main(d)] = "wake"
  /\ WakeFromMain(d)
  /\ UNCHANGED <<files, lock, todo, cur, procs, sends, told, crashes>>

\* _mark_blocked: without credentials the event waits for an operator, unless
\* a drain holds the lock or the write fails.
MarkBlocked(d) ==
  /\ d \notin Configured /\ at[Main(d)] = "wake"
  /\ \/ /\ lock = NoThread /\ status[cur[d]] \in Sendable
        /\ status' = [status EXCEPT ![cur[d]] = "BLOCKED"]
     \/ /\ lock # NoThread \/ status[cur[d]] \notin Sendable \/ DiskFaults
        /\ UNCHANGED status
  /\ Goto(Main(d), "idle")
  /\ UNCHANGED <<events, lock, todo, cur, procs, sends, told, crashes>>

\* Mutant: an operator requeues everything that has no receipt.
RequeueUncertain(d) ==
  /\ up[d] /\ at[Main(d)] = "idle" /\ lock = NoThread
  /\ status' = [e \in Events |->
                  IF Ensured[e] \in {"BLOCKED", "UNCERTAIN"} THEN "PENDING" ELSE Ensured[e]]
  /\ WakeFromMain(d)
  /\ UNCHANGED <<events, lock, todo, cur, procs, sends, told, crashes>>
\* requeue_blocked: blocked events become pending again.  A write that fails
\* on the way leaves the events after it blocked and the worker asleep.
Requeue(d) ==
  /\ up[d] /\ at[Main(d)] = "idle" /\ lock = NoThread
  /\ \E S \in SUBSET {e \in events : Ensured[e] = "BLOCKED"} :
       LET all == S = {e \in events : Ensured[e] = "BLOCKED"}
       IN /\ S # {} /\ (all \/ DiskFaults)
          /\ status' = [e \in Events |-> IF e \in S THEN "PENDING" ELSE Ensured[e]]
          /\ IF all /\ d \in Configured THEN WakeFromMain(d) ELSE UNCHANGED at
  /\ UNCHANGED <<events, lock, todo, cur, procs, sends, told, crashes>>

\* migrate_legacy_storage: the old receipt is written, without the lock.
WriteReceipt(d) ==
  /\ at[Main(d)] = "receipt"
  /\ status' = [status EXCEPT ![cur[d]] = "DELIVERED"]
  /\ Goto(Main(d), "idle")
  /\ UNCHANGED <<events, lock, todo, cur, procs, sends, told, crashes>>

\* close: no publication is accepted from here on; the flush that follows,
\* and the worker that goes on, are the drains below.
Close(d) ==
  /\ up[d] /\ at[Main(d)] = "idle" /\ ~closed[d]
  /\ closed' = [closed EXCEPT ![d] = TRUE]
  /\ UNCHANGED <<files, threads, up, sends, told, crashes>>

-----------------------------------------------------------------------------
(* A drain: the worker's, or an explicit flush by the main thread.         *)

Rest(t) == IF t[2] = "worker" THEN "resting" ELSE "idle"

CanDrain(t) ==
  /\ t[1] \in Configured /\ up[t[1]]
  /\ at[t] = IF t[2] = "worker" THEN "awake" ELSE "idle"

\* _drain gets the lock and takes a snapshot of what may be sent: pending
\* events and those whose retry is due.
Acquire(t) ==
  /\ CanDrain(t) /\ lock = NoThread
  /\ lock' = t
  /\ status' = Ensured
  /\ todo' = [todo EXCEPT ![t] = {e \in events : Ensured[e] \in DueNow}]
  /\ Goto(t, "sending")
  /\ UNCHANGED <<events, cur, procs, sends, told, crashes>>

\* _due: the time of the next attempt has come.
BecomeDue(e) ==
  /\ status[e] = "RETRY_WAIT"
  /\ status' = [status EXCEPT ![e] = "RETRY_DUE"]
  /\ UNCHANGED <<events, threads, procs, sends, told, crashes>>

LockBusy(d) ==
  /\ at[Worker(d)] = "awake" /\ lock # NoThread
  /\ Goto(Worker(d), "resting")
  /\ UNCHANGED <<files, lock, todo, cur, procs, sends, told, crashes>>

Attempting(t, e) == at[t] = "sending" /\ e \in todo[t]

\* The formatter rejects the event.
FormatFails(t, e) ==
  /\ Attempting(t, e)
  /\ status' = [status EXCEPT ![e] = "BLOCKED"]
  /\ todo' = [todo EXCEPT ![t] = @ \ {e}]
  /\ UNCHANGED <<events, lock, at, cur, procs, sends, told, crashes>>

\* Mutant: the request does not know the dispatcher that made it.
RequestWithoutOwner(t, e) == [ev |-> e, net |-> "flying", live |-> TRUE]
NewRequest(t, e) == [ev |-> e, by |-> t[1], net |-> "flying", live |-> TRUE]

\* Mutant: the HTTP request is made before the reservation is written.
ReserveLater(t, e) ==
  /\ Attempting(t, e)
  /\ UNCHANGED status
  /\ todo' = [todo EXCEPT ![t] = @ \ {e}]
  /\ sends' = Append(sends, NewRequest(t, e))
  /\ Goto(t, "joined")
  /\ UNCHANGED <<events, lock, cur, procs, told, crashes>>
\* The reservation is durable before the sender starts.  A crash between the
\* two is a request that is lost.
Reserve(t, e) ==
  /\ Attempting(t, e)
  /\ status' = [status EXCEPT ![e] = "UNCERTAIN"]
  /\ todo' = [todo EXCEPT ![t] = @ \ {e}]
  /\ sends' = Append(sends, NewRequest(t, e))
  /\ Goto(t, "joined")
  /\ UNCHANGED <<events, lock, cur, procs, told, crashes>>

ReserveFails(t, e) ==
  /\ DiskFaults /\ Attempting(t, e)
  /\ todo' = [todo EXCEPT ![t] = @ \ {e}]
  /\ UNCHANGED <<files, lock, at, cur, procs, sends, told, crashes>>

\* The sender finished before the deadline.
Joined(t) ==
  /\ at[t] = "joined" /\ ~sends[Len(sends)].live
  /\ Goto(t, "sending")
  /\ UNCHANGED <<files, lock, todo, cur, procs, sends, told, crashes>>

\* Everything was attempted, or the deadline passed while a sender runs on.
EndDrain(t) ==
  /\ at[t] \in {"sending", "joined"}
  /\ lock' = NoThread
  /\ todo' = [todo EXCEPT ![t] = {}]
  /\ Goto(t, Rest(t))
  /\ UNCHANGED <<files, cur, procs, sends, told, crashes>>

\* An OSError leaves the drain: the lock is released and a worker ends.
DrainRaises(t) ==
  /\ DiskFaults /\ at[t] = "sending"
  /\ lock' = NoThread
  /\ todo' = [todo EXCEPT ![t] = {}]
  /\ Goto(t, IF t[2] = "worker" THEN "dead" ELSE "idle")
  /\ UNCHANGED <<files, cur, procs, sends, told, crashes>>

\* The worker ends only when, under worker_lock, nothing is left to do.
WorkerCheck(d) ==
  /\ at[Worker(d)] = "resting"
  /\ status' = Ensured
  /\ Goto(Worker(d), IF Unsettled THEN "awake" ELSE "dead")
  /\ UNCHANGED <<events, lock, todo, cur, procs, sends, told, crashes>>

-----------------------------------------------------------------------------
(* Senders, and Telegram.                                                  *)

Refused == {i \in DOMAIN sends : sends[i].net \in {"throttled", "rejected", "lost"}}
\* Telegram accepts the message, refuses it, or never hears of it.
Arrive(i, net) ==
  /\ sends[i].net = "flying"
  /\ net = "told" \/ (net \in {"throttled", "rejected", "lost"} /\ Cardinality(Refused) < MaxRefusals)
  /\ sends' = [sends EXCEPT ![i].net = net]
  /\ told' = [told EXCEPT ![sends[i].ev] = @ + (IF net = "told" THEN 1 ELSE 0)]
  /\ UNCHANGED <<files, threads, procs, crashes>>

\* The sender thread of request i ends, having written the outcome.
Finish(i, outcome) ==
  /\ sends[i].live
  /\ sends' = [sends EXCEPT ![i].live = FALSE]
  /\ status' = [status EXCEPT ![sends[i].ev] = outcome]

\* Mutant: any 2xx answer, or none in time, counts as accepted.
SaveAsDelivered(i) ==
  /\ sends[i].net \in {"told", "flying"} /\ Finish(i, "DELIVERED")
  /\ UNCHANGED <<events, threads, procs, told, crashes>>
SaveDelivered(i) ==
  /\ sends[i].net = "told" /\ Finish(i, "DELIVERED")
  /\ UNCHANGED <<events, threads, procs, told, crashes>>

\* Mutant: the retry is left to whoever drains next.
SaveRetryUnattended(i) ==
  /\ sends[i].net = "throttled" /\ Finish(i, "RETRY_WAIT")
  /\ UNCHANGED <<events, threads, procs, told, crashes>>
\* Only an explicit rate limit proves that the message was not accepted.
SaveRetry(i) ==
  /\ sends[i].net = "throttled" /\ Finish(i, "RETRY_WAIT")
  /\ at' = [at EXCEPT ![Worker(sends[i].by)] = IF @ = "dead" THEN "awake" ELSE @]
  /\ UNCHANGED <<events, lock, todo, cur, procs, told, crashes>>

SaveBlocked(i) ==
  /\ sends[i].net = "rejected" /\ Finish(i, "BLOCKED")
  /\ UNCHANGED <<events, threads, procs, told, crashes>>

\* Mutant: a lost answer is retried like a rate limit.
SaveForRetry(i) ==
  /\ Finish(i, "RETRY_WAIT")
  /\ UNCHANGED <<events, threads, procs, told, crashes>>
\* A network error, a server error or an unreadable answer.
SaveUncertain(i) ==
  /\ Finish(i, "UNCERTAIN")
  /\ UNCHANGED <<events, threads, procs, told, crashes>>

\* The outcome cannot be written: the reservation stays.
SaveFails(i) ==
  /\ DiskFaults /\ sends[i].live
  /\ sends' = [sends EXCEPT ![i].live = FALSE]
  /\ UNCHANGED <<files, threads, procs, told, crashes>>

\* A delivery file becomes unreadable; it is quarantined and read as
\* uncertain from then on.
Corrupt(e) ==
  /\ DiskFaults /\ status[e] # "none"
  /\ status' = [status EXCEPT ![e] = "UNCERTAIN"]
  /\ UNCHANGED <<events, threads, procs, sends, told, crashes>>

-----------------------------------------------------------------------------
(* Processes.                                                              *)

Gone(d) ==
  /\ up' = [up EXCEPT ![d] = FALSE]
  /\ lock' = IF lock \in {Main(d), Worker(d)} THEN NoThread ELSE lock
  /\ todo' = [todo EXCEPT ![Main(d)] = {}, ![Worker(d)] = {}]
  /\ at' = [at EXCEPT ![Main(d)] = "idle", ![Worker(d)] = "dead"]
  /\ UNCHANGED <<files, cur, closed, told>>

\* The system releases the lock; requests under way may still be accepted.
Crash(d) ==
  /\ up[d] /\ crashes < MaxCrashes
  /\ crashes' = crashes + 1
  /\ Gone(d)
  /\ sends' = [i \in DOMAIN sends |->
                 [sends[i] EXCEPT !.live = @ /\ sends[i].by # d]]

\* No thread is a daemon: the process ends after its worker and senders.
Exit(d) ==
  /\ up[d] /\ at[Main(d)] = "idle" /\ at[Worker(d)] = "dead"
  /\ \A i \in DOMAIN sends : ~(sends[i].live /\ sends[i].by = d)
  /\ Gone(d)
  /\ UNCHANGED <<sends, crashes>>

\* A new dispatcher looks for unsettled events and starts its worker.
Restart(d) ==
  /\ ~up[d]
  /\ up' = [up EXCEPT ![d] = TRUE]
  /\ closed' = [closed EXCEPT ![d] = FALSE]
  /\ status' = IF d \in Configured THEN Ensured ELSE status
  /\ Goto(Worker(d), IF d \in Configured /\ Unsettled THEN "awake" ELSE "dead")
  /\ UNCHANGED <<events, lock, todo, cur, sends, told, crashes>>

-----------------------------------------------------------------------------
MainStep(d) ==
  \/ \E e \in Events, p \in {"ensure", "import"} : Publish(d, e, p)
  \/ Ensure(d) \/ EnsureFails(d) \/ Wake(d) \/ MarkBlocked(d) \/ Requeue(d)
  \/ WriteReceipt(d) \/ Close(d)

Attempt(t, e) == FormatFails(t, e) \/ Reserve(t, e) \/ ReserveFails(t, e)

DrainStep(t) ==
  \/ Acquire(t) \/ \E e \in Events : Attempt(t, e)
  \/ Joined(t) \/ EndDrain(t) \/ DrainRaises(t)

Save(i) ==
  SaveDelivered(i) \/ SaveRetry(i) \/ SaveBlocked(i) \/ SaveUncertain(i) \/ SaveFails(i)

Next ==
  \/ \E d \in Dispatchers : \/ MainStep(d) \/ LockBusy(d) \/ WorkerCheck(d)
                            \/ Crash(d) \/ Exit(d) \/ Restart(d)
  \/ \E t \in Threads : DrainStep(t)
  \/ \E i \in DOMAIN sends : Save(i) \/ \E net \in Net : Arrive(i, net)
  \/ \E e \in Events : BecomeDue(e) \/ Corrupt(e)

Spec == Init /\ [][Next]_vars

\* Threads run and time passes; a worker that polls every half second finds
\* the lock free some day, and a drain does not always meet its deadline
\* before its first attempt.  A process that ended is started again.
Fairness ==
  /\ \A d \in Dispatchers :
       /\ WF_vars(at[Main(d)] # "idle" /\ MainStep(d))
       /\ WF_vars(LockBusy(d)) /\ WF_vars(WorkerCheck(d)) /\ WF_vars(Restart(d))
       /\ SF_vars(Acquire(Worker(d)))
  /\ \A t \in Threads :
       /\ WF_vars(Joined(t)) /\ WF_vars(EndDrain(t))
       /\ \A e \in Events : SF_vars(Attempt(t, e))
  /\ \A e \in Events : WF_vars(BecomeDue(e))
  /\ WF_vars(\E i \in DOMAIN sends : Save(i))

FairSpec == Spec /\ Fairness

-----------------------------------------------------------------------------
(* Properties.                                                             *)

\* No message is accepted twice: not after a lost answer, a missed deadline,
\* a crash before the receipt, or with several processes on one root.
AtMostOnce == \A e \in Events : told[e] <= 1

\* What any dispatcher may pick up and send was certainly not accepted, and
\* no request for it is still under way.
Open(i) == sends[i].live \/ sends[i].net \in {"flying", "told"}
Clear(e) == told[e] = 0 /\ \A i \in DOMAIN sends : sends[i].ev = e => ~Open(i)
RetryIsSafe ==
  \A e \in Events :
    status[e] \in Sendable \cup {"BLOCKED"} \/ (\E t \in Threads : e \in todo[t])
      => Clear(e)

\* A receipt is true: Telegram accepted the message.
ReceiptIsTrue == \A e \in Events : status[e] = "DELIVERED" => told[e] = 1

\* The dispatcher delivers as the abstract channel promises.
ClaimOf(s) == CASE s = "UNCERTAIN" -> "claimed"
                [] s = "DELIVERED" -> "confirmed"
                [] OTHER -> "free"
Claims == [e \in Events |-> ClaimOf(status[e])]
Delivery == INSTANCE AmbiguousDelivery WITH
              Messages <- Events, told <- told, claim <- Claims
ImplementsDelivery == Delivery!Spec

\* No publication is forgotten: every event comes to rest as delivered,
\* uncertain or blocked, with no sender left, although workers end when
\* idle, lose the lock, and a process that published may die.
AtRest(e) ==
  /\ status[e] \in {"DELIVERED", "UNCERTAIN", "BLOCKED"}
  /\ \A i \in DOMAIN sends : sends[i].ev = e => ~sends[i].live
Settles == \A e \in Events : e \in events ~> AtRest(e)
=============================================================================
