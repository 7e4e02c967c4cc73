------------------------ MODULE NotificationProofs ------------------------
(***************************************************************************)
(* Proofs about notification delivery: type correctness, delivery at most  *)
(* once for any number of events, processes, crashes and failing writes,   *)
(* and the refinement of AmbiguousDelivery.                                *)
(***************************************************************************)
EXTENDS Notifications, TLAPS, SequenceTheorems

-----------------------------------------------------------------------------
(* The inductive invariant.                                                *)

FileTypes ==
  /\ events \subseteq Events
  /\ status \in [Events -> Status \cup {"none"}]
  /\ told \in [Events -> Nat] /\ crashes \in Nat

ThreadTypes ==
  /\ lock \in Threads \cup {NoThread}
  /\ todo \in [Threads -> SUBSET Events]
  /\ at \in [Threads -> Place]
  /\ cur \in [Dispatchers -> Events]
  /\ up \in [Dispatchers -> BOOLEAN]
  /\ closed \in [Dispatchers -> BOOLEAN]

SendTypes == sends \in Seq(Request)

\* Only the thread that drains holds the lock, and only it has a snapshot.
LockInv ==
  \A t \in Threads : at[t] \in {"sending", "joined"} \/ todo[t] # {} => lock = t

\* No thread imports a receipt of the old notifier.
NoImport == \A t \in Threads : at[t] # "receipt"

\* At most one request of an event is open; a request under way keeps its
\* event reserved; an accepted message was accepted by one of the requests.
SendInv ==
  /\ \A i, j \in DOMAIN sends :
       sends[i].ev = sends[j].ev /\ Open(i) /\ Open(j) => i = j
  /\ \A i \in DOMAIN sends :
       /\ sends[i].net = "flying" => status[sends[i].ev] = "UNCERTAIN"
       /\ sends[i].net = "told" => told[sends[i].ev] = 1
  /\ \A e \in Events : told[e] # 0 =>
       \E i \in DOMAIN sends : sends[i].ev = e /\ sends[i].net = "told"

\* Whatever may still be sent is clear.
Free(e) ==
  status[e] \in Sendable \cup {"BLOCKED", "none"} \/ (\E t \in Threads : e \in todo[t])

\* How the delivery file of an event may change while no sender finishes.
MayBecome(e, new) ==
  new \in {status[e], "UNCERTAIN"} \/ (Free(e) /\ new \in Sendable \cup {"BLOCKED"})
ClearInv == \A e \in Events : Free(e) => Clear(e)

IInv == /\ FileTypes /\ ThreadTypes /\ SendTypes
        /\ LockInv /\ NoImport /\ SendInv /\ ClearInv /\ AtMostOnce /\ ReceiptIsTrue

LEMMA TypesAre == TypeOK <=> FileTypes /\ ThreadTypes /\ SendTypes
BY DEF TypeOK, FileTypes, ThreadTypes, SendTypes

LEMMA SendDomain ==
  ASSUME SendTypes
  PROVE  /\ DOMAIN sends = 1..Len(sends) /\ Len(sends) \in Nat
         /\ \A i \in DOMAIN sends : sends[i] \in Request
BY DEF SendTypes

\* A step that makes and finishes no request, and frees no event that was
\* not free, keeps what is known of the requests.
LEMMA QuietStep ==
  ASSUME IInv, UNCHANGED <<sends, told>>, FileTypes', ThreadTypes',
         \A e \in Events : MayBecome(e, status'[e]),
         \A t \in Threads : \A e \in todo'[t] : Free(e)
  PROVE  SendInv' /\ ClearInv' /\ AtMostOnce' /\ ReceiptIsTrue'
<1>0. DOMAIN sends = 1..Len(sends) /\ \A i \in DOMAIN sends : sends[i] \in Request
  BY SendDomain DEF IInv
<1>2. \A e \in Events : Free(e)' => Free(e)
  BY DEF MayBecome, Free, Sendable, DueNow
<1>3. ClearInv'
  BY <1>2 DEF IInv, ClearInv, Clear, Open
<1>4. SendInv'
  <2>1. \A i \in DOMAIN sends : sends[i].net = "flying" => ~Free(sends[i].ev)
    BY <1>0 DEF IInv, ClearInv, Clear, Open, Request
  <2>2. \A i \in DOMAIN sends : sends[i].ev \in Events
    BY <1>0 DEF Request
  <2>3. \A i \in DOMAIN sends : sends[i].net = "flying" => status'[sends[i].ev] = "UNCERTAIN"
    BY <2>1, <2>2 DEF IInv, SendInv, MayBecome
  <2> QED
    BY <2>3 DEF IInv, SendInv, Open
<1>5. ReceiptIsTrue'
  BY DEF IInv, ReceiptIsTrue, MayBecome, Sendable, DueNow
<1> QED
  BY <1>3, <1>4, <1>5 DEF IInv, AtMostOnce

\* Nothing is freed while a request of its event is open.
LEMMA OpenIsReserved ==
  ASSUME IInv, NEW i \in DOMAIN sends, Open(i)
  PROVE  /\ sends[i].ev \in Events /\ ~Free(sends[i].ev)
         /\ sends[i].net # "told" => told[sends[i].ev] = 0
<1>1. sends[i] \in Request
  BY SendDomain DEF IInv
<1>2. sends[i].ev \in Events
  BY <1>1 DEF Request
<1>3. ~Free(sends[i].ev)
  BY <1>2 DEF IInv, ClearInv, Clear
<1>4. ASSUME sends[i].net # "told", told[sends[i].ev] # 0 PROVE FALSE
  <2>1. PICK j \in DOMAIN sends : sends[j].ev = sends[i].ev /\ sends[j].net = "told"
    BY <1>2, <1>4 DEF IInv, SendInv
  <2> QED
    BY <2>1, <1>4 DEF IInv, SendInv, Open
<1> QED
  BY <1>2, <1>3, <1>4

\* The outcomes a sender may save.
LEMMA FinishStep ==
  ASSUME IInv, NEW i \in DOMAIN sends, NEW outcome \in Status,
         Finish(i, outcome), UNCHANGED <<told, todo>>,
         \/ outcome = "UNCERTAIN"
         \/ outcome = "DELIVERED" /\ sends[i].net = "told"
         \/ outcome # "DELIVERED" /\ sends[i].net \in {"throttled", "rejected"}
  PROVE  SendTypes' /\ status' \in [Events -> Status \cup {"none"}] /\ SendInv' /\ ClearInv' /\ AtMostOnce' /\ ReceiptIsTrue'
<1> DEFINE ev == sends[i].ev
<1>0. DOMAIN sends = 1..Len(sends) /\ \A k \in DOMAIN sends : sends[k] \in Request
  BY SendDomain DEF IInv
<1>1. Open(i)
  BY DEF Finish, Open
<1>2. ev \in Events /\ ~Free(ev) /\ (sends[i].net # "told" => told[ev] = 0)
  BY <1>1, OpenIsReserved
<1>3. /\ DOMAIN sends' = DOMAIN sends
      /\ \A k \in DOMAIN sends : /\ sends'[k].ev = sends[k].ev
                                 /\ sends'[k].net = sends[k].net
                                 /\ sends'[k].live => sends[k].live /\ k # i
  BY <1>0 DEF Finish, Request
<1>4. \A k \in DOMAIN sends : Open(k)' => Open(k)
  BY <1>3 DEF Open
<1>5. \A e \in Events : status'[e] = IF e = ev THEN outcome ELSE status[e]
  BY DEF Finish, IInv, FileTypes
<1>6. SendTypes'
  <2>1. [sends[i] EXCEPT !.live = FALSE] \in Request
    BY <1>0 DEF Request
  <2>2. sends' = [sends EXCEPT ![i] = [sends[i] EXCEPT !.live = FALSE]]
    BY DEF Finish
  <2> QED
    BY <2>1, <2>2, <1>0, ExceptSeq DEF IInv, SendTypes
<1>7. status' \in [Events -> Status \cup {"none"}]
  BY <1>2 DEF Finish, IInv, FileTypes
<1>8. SendInv'
  <2>1. \A k \in DOMAIN sends : sends[k].net = "flying" => status'[sends[k].ev] = "UNCERTAIN"
    <3> SUFFICES ASSUME NEW k \in DOMAIN sends, sends[k].net = "flying"
                 PROVE  status'[sends[k].ev] = "UNCERTAIN"
      OBVIOUS
    <3>1. sends[k].ev \in Events /\ status[sends[k].ev] = "UNCERTAIN"
      BY <1>0 DEF IInv, SendInv, Request
    <3>2. CASE k = i
      BY <3>1, <3>2, <1>5
    <3>3. CASE sends[k].ev # ev
      BY <3>1, <3>3, <1>5
    <3>4. CASE k # i /\ sends[k].ev = ev
      BY <3>4, <1>1 DEF IInv, SendInv, Open
    <3> QED
      BY <3>2, <3>3, <3>4
  <2> QED
    BY <2>1, <1>3, <1>4 DEF IInv, SendInv
<1>9. ClearInv'
  <2> SUFFICES ASSUME NEW e \in Events, Free(e)' PROVE Clear(e)'
    BY DEF ClearInv
  <2>1. CASE e # ev
    <3>1. Free(e)
      BY <2>1, <1>5 DEF Free
    <3> QED
      BY <3>1, <1>3, <1>4 DEF IInv, ClearInv, Clear
  <2>2. CASE e = ev
    <3>1. outcome \notin {"UNCERTAIN", "DELIVERED"}
      BY <2>2, <1>2, <1>5 DEF Free, Sendable, DueNow
    <3>2. sends[i].net \in {"throttled", "rejected"} /\ told[ev] = 0
      BY <3>1, <1>2
    <3>3. \A k \in DOMAIN sends : sends[k].ev = ev => ~Open(k)'
      <4> SUFFICES ASSUME NEW k \in DOMAIN sends, sends[k].ev = ev, Open(k)'
                   PROVE  FALSE
        OBVIOUS
      <4>1. k = i
        BY <1>1, <1>4 DEF IInv, SendInv
      <4> QED
        BY <4>1, <3>2, <1>3 DEF Open
    <3> QED
      BY <2>2, <3>2, <3>3, <1>3 DEF Clear
  <2> QED
    BY <2>1, <2>2
<1>10. ReceiptIsTrue'
  BY <1>1, <1>2, <1>5 DEF IInv, ReceiptIsTrue, SendInv
<1> QED
  BY <1>6, <1>7, <1>8, <1>9, <1>10 DEF IInv, AtMostOnce

\* A step that only ends senders, and snapshots with them.
LEMMA ClosingStep ==
  ASSUME IInv, SendTypes', UNCHANGED <<status, told>>,
         \A u \in Threads : todo'[u] \subseteq todo[u],
         DOMAIN sends' = DOMAIN sends,
         \A k \in DOMAIN sends : /\ sends'[k].ev = sends[k].ev
                                 /\ sends'[k].net = sends[k].net
                                 /\ sends'[k].live => sends[k].live
  PROVE  SendInv' /\ ClearInv' /\ AtMostOnce' /\ ReceiptIsTrue'
<1>1. \A k \in DOMAIN sends : Open(k)' => Open(k)
  BY DEF Open
<1>2. SendInv'
  BY <1>1 DEF IInv, SendInv
<1>3. ClearInv'
  BY <1>1 DEF IInv, ClearInv, Free, Clear
<1> QED
  BY <1>2, <1>3 DEF IInv, AtMostOnce, ReceiptIsTrue

-----------------------------------------------------------------------------
(* Every step keeps the invariant.                                         *)

LEMMA NextIInv == Receipts = {} /\ IInv /\ [Next]_vars => IInv'
<1> SUFFICES ASSUME Receipts = {}, IInv, [Next]_vars PROVE IInv'
  OBVIOUS
<1> USE NotificationAssumption DEF IInv
<1>1. ASSUME NEW d \in Dispatchers, NEW e \in Events, NEW p \in {"ensure", "import"}, Publish(d, e, p) PROVE IInv'
  <2>1. FileTypes'
    BY <1>1 DEF Publish, FileTypes, ThreadTypes, Status, Sendable, DueNow, files, threads, procs, Goto, Threads, Main, Worker, NoThread, Place
  <2>2. ThreadTypes'
    BY <1>1 DEF Publish, FileTypes, ThreadTypes, files, threads, procs, Goto, Threads, Main, Worker, NoThread, Place
  <2>3. LockInv' /\ NoImport'
    BY <1>1 DEF Publish, LockInv, NoImport, ThreadTypes, files, threads, procs, Goto, Threads, Main, Worker, NoThread, Place
  <2>4. UNCHANGED <<sends, told>>
    BY <1>1 DEF Publish, files, threads, procs, Goto, Threads, Main, Worker, NoThread, Place
  <2>5. \A x \in Events : MayBecome(x, status'[x])
    BY <1>1 DEF Publish, MayBecome, FileTypes, ThreadTypes, NoImport, Free, Status, Sendable, DueNow, files, threads, procs, Goto, Threads, Main, Worker, NoThread, Place
  <2>6. \A u \in Threads : \A x \in todo'[u] : Free(x)
    BY <1>1 DEF Publish, FileTypes, ThreadTypes, Free, Status, Sendable, DueNow, files, threads, procs, Goto, Threads, Main, Worker, NoThread, Place
  <2>7. SendInv' /\ ClearInv' /\ AtMostOnce' /\ ReceiptIsTrue'
    BY <2>1, <2>2, <2>4, <2>5, <2>6, QuietStep
  <2> QED
    BY <2>1, <2>2, <2>3, <2>4, <2>7 DEF SendTypes
<1>2. ASSUME NEW d \in Dispatchers, Ensure(d) PROVE IInv'
  <2>1. FileTypes'
    BY <1>2 DEF Ensure, FileTypes, ThreadTypes, Status, Sendable, DueNow, files, threads, procs, Goto, Threads, Main, Worker, NoThread, Place
  <2>2. ThreadTypes'
    BY <1>2 DEF Ensure, FileTypes, ThreadTypes, files, threads, procs, Goto, Threads, Main, Worker, NoThread, Place
  <2>3. LockInv' /\ NoImport'
    BY <1>2 DEF Ensure, LockInv, NoImport, ThreadTypes, files, threads, procs, Goto, Threads, Main, Worker, NoThread, Place
  <2>4. UNCHANGED <<sends, told>>
    BY <1>2 DEF Ensure, files, threads, procs, Goto, Threads, Main, Worker, NoThread, Place
  <2>5. \A x \in Events : MayBecome(x, status'[x])
    BY <1>2 DEF Ensure, MayBecome, FileTypes, ThreadTypes, NoImport, Free, Status, Sendable, DueNow, files, threads, procs, Goto, Threads, Main, Worker, NoThread, Place
  <2>6. \A u \in Threads : \A x \in todo'[u] : Free(x)
    BY <1>2 DEF Ensure, FileTypes, ThreadTypes, Free, Status, Sendable, DueNow, files, threads, procs, Goto, Threads, Main, Worker, NoThread, Place
  <2>7. SendInv' /\ ClearInv' /\ AtMostOnce' /\ ReceiptIsTrue'
    BY <2>1, <2>2, <2>4, <2>5, <2>6, QuietStep
  <2> QED
    BY <2>1, <2>2, <2>3, <2>4, <2>7 DEF SendTypes
<1>3. ASSUME NEW d \in Dispatchers, EnsureFails(d) PROVE IInv'
  <2>1. FileTypes'
    BY <1>3 DEF EnsureFails, FileTypes, ThreadTypes, Status, Sendable, DueNow, files, threads, procs, Goto, Threads, Main, Worker, NoThread, Place
  <2>2. ThreadTypes'
    BY <1>3 DEF EnsureFails, FileTypes, ThreadTypes, files, threads, procs, Goto, Threads, Main, Worker, NoThread, Place
  <2>3. LockInv' /\ NoImport'
    BY <1>3 DEF EnsureFails, LockInv, NoImport, ThreadTypes, files, threads, procs, Goto, Threads, Main, Worker, NoThread, Place
  <2>4. UNCHANGED <<sends, told>>
    BY <1>3 DEF EnsureFails, files, threads, procs, Goto, Threads, Main, Worker, NoThread, Place
  <2>5. \A x \in Events : MayBecome(x, status'[x])
    BY <1>3 DEF EnsureFails, MayBecome, FileTypes, ThreadTypes, NoImport, Free, Status, Sendable, DueNow, files, threads, procs, Goto, Threads, Main, Worker, NoThread, Place
  <2>6. \A u \in Threads : \A x \in todo'[u] : Free(x)
    BY <1>3 DEF EnsureFails, FileTypes, ThreadTypes, Free, Status, Sendable, DueNow, files, threads, procs, Goto, Threads, Main, Worker, NoThread, Place
  <2>7. SendInv' /\ ClearInv' /\ AtMostOnce' /\ ReceiptIsTrue'
    BY <2>1, <2>2, <2>4, <2>5, <2>6, QuietStep
  <2> QED
    BY <2>1, <2>2, <2>3, <2>4, <2>7 DEF SendTypes
<1>4. ASSUME NEW d \in Dispatchers, Wake(d) PROVE IInv'
  <2>1. FileTypes'
    BY <1>4 DEF Wake, FileTypes, ThreadTypes, Status, Sendable, DueNow, files, threads, procs, Goto, Threads, Main, Worker, NoThread, Place, WakeFromMain
  <2>2. ThreadTypes'
    BY <1>4 DEF Wake, FileTypes, ThreadTypes, files, threads, procs, Goto, Threads, Main, Worker, NoThread, Place, WakeFromMain
  <2>3. LockInv' /\ NoImport'
    BY <1>4 DEF Wake, LockInv, NoImport, ThreadTypes, files, threads, procs, Goto, Threads, Main, Worker, NoThread, Place, WakeFromMain
  <2>4. UNCHANGED <<sends, told>>
    BY <1>4 DEF Wake, files, threads, procs, Goto, Threads, Main, Worker, NoThread, Place, WakeFromMain
  <2>5. \A x \in Events : MayBecome(x, status'[x])
    BY <1>4 DEF Wake, MayBecome, FileTypes, ThreadTypes, NoImport, Free, Status, Sendable, DueNow, files, threads, procs, Goto, Threads, Main, Worker, NoThread, Place, WakeFromMain
  <2>6. \A u \in Threads : \A x \in todo'[u] : Free(x)
    BY <1>4 DEF Wake, FileTypes, ThreadTypes, Free, Status, Sendable, DueNow, files, threads, procs, Goto, Threads, Main, Worker, NoThread, Place, WakeFromMain
  <2>7. SendInv' /\ ClearInv' /\ AtMostOnce' /\ ReceiptIsTrue'
    BY <2>1, <2>2, <2>4, <2>5, <2>6, QuietStep
  <2> QED
    BY <2>1, <2>2, <2>3, <2>4, <2>7 DEF SendTypes
<1>5. ASSUME NEW d \in Dispatchers, MarkBlocked(d) PROVE IInv'
  <2>1. FileTypes'
    <3>1. cur[d] \in Events
      BY <1>5 DEF ThreadTypes
    <3>2. status' \in [Events -> Status \cup {"none"}]
      BY <1>5, <3>1 DEF MarkBlocked, FileTypes, Status, Sendable, DueNow
    <3> QED
      BY <1>5, <3>2 DEF MarkBlocked, FileTypes
  <2>2. ThreadTypes'
    BY <1>5 DEF MarkBlocked, FileTypes, ThreadTypes, files, threads, procs, Goto, Threads, Main, Worker, NoThread, Place
  <2>3. LockInv' /\ NoImport'
    BY <1>5 DEF MarkBlocked, LockInv, NoImport, ThreadTypes, files, threads, procs, Goto, Threads, Main, Worker, NoThread, Place
  <2>4. UNCHANGED <<sends, told>>
    BY <1>5 DEF MarkBlocked, files, threads, procs, Goto, Threads, Main, Worker, NoThread, Place
  <2>5. \A x \in Events : MayBecome(x, status'[x])
    BY <1>5 DEF MarkBlocked, MayBecome, FileTypes, ThreadTypes, NoImport, Free, Status, Sendable, DueNow, files, threads, procs, Goto, Threads, Main, Worker, NoThread, Place
  <2>6. \A u \in Threads : \A x \in todo'[u] : Free(x)
    BY <1>5 DEF MarkBlocked, FileTypes, ThreadTypes, Free, Status, Sendable, DueNow, files, threads, procs, Goto, Threads, Main, Worker, NoThread, Place
  <2>7. SendInv' /\ ClearInv' /\ AtMostOnce' /\ ReceiptIsTrue'
    BY <2>1, <2>2, <2>4, <2>5, <2>6, QuietStep
  <2> QED
    BY <2>1, <2>2, <2>3, <2>4, <2>7 DEF SendTypes
<1>6. ASSUME NEW d \in Dispatchers, Requeue(d) PROVE IInv'
  <2>1. FileTypes'
    BY <1>6 DEF Requeue, FileTypes, ThreadTypes, Status, Sendable, DueNow, files, threads, procs, Goto, Threads, Main, Worker, NoThread, Place, Ensured, WakeFromMain
  <2>0. \/ WakeFromMain(d)
        \/ UNCHANGED at
    BY <1>6 DEF Requeue
  <2>2. ThreadTypes'
    BY SMTT(30), <1>6, <2>0 DEF Requeue, WakeFromMain, ThreadTypes, threads, procs, Threads, Main, Worker, Place
  <2>3. LockInv' /\ NoImport'
    <3>1. \A t \in Threads : at'[t] = at[t] \/ at'[t] \in {"idle", "awake"}
      BY <2>0 DEF WakeFromMain, ThreadTypes
    <3>2. UNCHANGED <<lock, todo>>
      BY <1>6 DEF Requeue
    <3> QED
      BY <3>1, <3>2 DEF LockInv, NoImport
  <2>4. UNCHANGED <<sends, told>>
    BY <1>6 DEF Requeue, files, threads, procs, Goto, Threads, Main, Worker, NoThread, Place, Ensured, WakeFromMain
  <2>5. \A x \in Events : MayBecome(x, status'[x])
    BY <1>6 DEF Requeue, MayBecome, FileTypes, ThreadTypes, NoImport, Free, Status, Sendable, DueNow, files, threads, procs, Goto, Threads, Main, Worker, NoThread, Place, Ensured, WakeFromMain
  <2>6. \A u \in Threads : \A x \in todo'[u] : Free(x)
    BY <1>6 DEF Requeue, FileTypes, ThreadTypes, Free, Status, Sendable, DueNow, files, threads, procs, Goto, Threads, Main, Worker, NoThread, Place, Ensured, WakeFromMain
  <2>7. SendInv' /\ ClearInv' /\ AtMostOnce' /\ ReceiptIsTrue'
    BY <2>1, <2>2, <2>4, <2>5, <2>6, QuietStep
  <2> QED
    BY <2>1, <2>2, <2>3, <2>4, <2>7 DEF SendTypes
<1>7. ASSUME NEW d \in Dispatchers, Close(d) PROVE IInv'
  <2>1. FileTypes'
    BY <1>7 DEF Close, FileTypes, ThreadTypes, Status, Sendable, DueNow, files, threads, procs, Goto, Threads, Main, Worker, NoThread, Place
  <2>2. ThreadTypes'
    BY <1>7 DEF Close, FileTypes, ThreadTypes, files, threads, procs, Goto, Threads, Main, Worker, NoThread, Place
  <2>3. LockInv' /\ NoImport'
    BY <1>7 DEF Close, LockInv, NoImport, ThreadTypes, files, threads, procs, Goto, Threads, Main, Worker, NoThread, Place
  <2>4. UNCHANGED <<sends, told>>
    BY <1>7 DEF Close, files, threads, procs, Goto, Threads, Main, Worker, NoThread, Place
  <2>5. \A x \in Events : MayBecome(x, status'[x])
    BY <1>7 DEF Close, MayBecome, FileTypes, ThreadTypes, NoImport, Free, Status, Sendable, DueNow, files, threads, procs, Goto, Threads, Main, Worker, NoThread, Place
  <2>6. \A u \in Threads : \A x \in todo'[u] : Free(x)
    BY <1>7 DEF Close, FileTypes, ThreadTypes, Free, Status, Sendable, DueNow, files, threads, procs, Goto, Threads, Main, Worker, NoThread, Place
  <2>7. SendInv' /\ ClearInv' /\ AtMostOnce' /\ ReceiptIsTrue'
    BY <2>1, <2>2, <2>4, <2>5, <2>6, QuietStep
  <2> QED
    BY <2>1, <2>2, <2>3, <2>4, <2>7 DEF SendTypes
<1>8. ASSUME NEW d \in Dispatchers, LockBusy(d) PROVE IInv'
  <2>1. FileTypes'
    BY <1>8 DEF LockBusy, FileTypes, ThreadTypes, Status, Sendable, DueNow, files, threads, procs, Goto, Threads, Main, Worker, NoThread, Place
  <2>2. ThreadTypes'
    BY <1>8 DEF LockBusy, FileTypes, ThreadTypes, files, threads, procs, Goto, Threads, Main, Worker, NoThread, Place
  <2>3. LockInv' /\ NoImport'
    BY <1>8 DEF LockBusy, LockInv, NoImport, ThreadTypes, files, threads, procs, Goto, Threads, Main, Worker, NoThread, Place
  <2>4. UNCHANGED <<sends, told>>
    BY <1>8 DEF LockBusy, files, threads, procs, Goto, Threads, Main, Worker, NoThread, Place
  <2>5. \A x \in Events : MayBecome(x, status'[x])
    BY <1>8 DEF LockBusy, MayBecome, FileTypes, ThreadTypes, NoImport, Free, Status, Sendable, DueNow, files, threads, procs, Goto, Threads, Main, Worker, NoThread, Place
  <2>6. \A u \in Threads : \A x \in todo'[u] : Free(x)
    BY <1>8 DEF LockBusy, FileTypes, ThreadTypes, Free, Status, Sendable, DueNow, files, threads, procs, Goto, Threads, Main, Worker, NoThread, Place
  <2>7. SendInv' /\ ClearInv' /\ AtMostOnce' /\ ReceiptIsTrue'
    BY <2>1, <2>2, <2>4, <2>5, <2>6, QuietStep
  <2> QED
    BY <2>1, <2>2, <2>3, <2>4, <2>7 DEF SendTypes
<1>9. ASSUME NEW d \in Dispatchers, WorkerCheck(d) PROVE IInv'
  <2>1. FileTypes'
    BY <1>9 DEF WorkerCheck, FileTypes, ThreadTypes, Status, Sendable, DueNow, files, threads, procs, Goto, Threads, Main, Worker, NoThread, Place, Ensured
  <2>2. ThreadTypes'
    BY <1>9 DEF WorkerCheck, FileTypes, ThreadTypes, files, threads, procs, Goto, Threads, Main, Worker, NoThread, Place, Ensured
  <2>3. LockInv' /\ NoImport'
    BY <1>9 DEF WorkerCheck, LockInv, NoImport, ThreadTypes, files, threads, procs, Goto, Threads, Main, Worker, NoThread, Place, Ensured
  <2>4. UNCHANGED <<sends, told>>
    BY <1>9 DEF WorkerCheck, files, threads, procs, Goto, Threads, Main, Worker, NoThread, Place, Ensured
  <2>5. \A x \in Events : MayBecome(x, status'[x])
    BY <1>9 DEF WorkerCheck, MayBecome, FileTypes, ThreadTypes, NoImport, Free, Status, Sendable, DueNow, files, threads, procs, Goto, Threads, Main, Worker, NoThread, Place, Ensured
  <2>6. \A u \in Threads : \A x \in todo'[u] : Free(x)
    BY <1>9 DEF WorkerCheck, FileTypes, ThreadTypes, Free, Status, Sendable, DueNow, files, threads, procs, Goto, Threads, Main, Worker, NoThread, Place, Ensured
  <2>7. SendInv' /\ ClearInv' /\ AtMostOnce' /\ ReceiptIsTrue'
    BY <2>1, <2>2, <2>4, <2>5, <2>6, QuietStep
  <2> QED
    BY <2>1, <2>2, <2>3, <2>4, <2>7 DEF SendTypes
<1>10. ASSUME NEW d \in Dispatchers, Exit(d) PROVE IInv'
  <2>1. FileTypes'
    BY <1>10 DEF Exit, FileTypes, ThreadTypes, Status, Sendable, DueNow, files, threads, procs, Goto, Threads, Main, Worker, NoThread, Place, Gone
  <2>2. ThreadTypes'
    BY <1>10 DEF Exit, FileTypes, ThreadTypes, files, threads, procs, Goto, Threads, Main, Worker, NoThread, Place, Gone
  <2>3. LockInv' /\ NoImport'
    BY <1>10 DEF Exit, LockInv, NoImport, ThreadTypes, files, threads, procs, Goto, Threads, Main, Worker, NoThread, Place, Gone
  <2>4. UNCHANGED <<sends, told>>
    BY <1>10 DEF Exit, files, threads, procs, Goto, Threads, Main, Worker, NoThread, Place, Gone
  <2>5. \A x \in Events : MayBecome(x, status'[x])
    BY <1>10 DEF Exit, MayBecome, FileTypes, ThreadTypes, NoImport, Free, Status, Sendable, DueNow, files, threads, procs, Goto, Threads, Main, Worker, NoThread, Place, Gone
  <2>6. \A u \in Threads : \A x \in todo'[u] : Free(x)
    BY <1>10 DEF Exit, FileTypes, ThreadTypes, Free, Status, Sendable, DueNow, files, threads, procs, Goto, Threads, Main, Worker, NoThread, Place, Gone
  <2>7. SendInv' /\ ClearInv' /\ AtMostOnce' /\ ReceiptIsTrue'
    BY <2>1, <2>2, <2>4, <2>5, <2>6, QuietStep
  <2> QED
    BY <2>1, <2>2, <2>3, <2>4, <2>7 DEF SendTypes
<1>11. ASSUME NEW d \in Dispatchers, Restart(d) PROVE IInv'
  <2>1. FileTypes'
    BY <1>11 DEF Restart, FileTypes, ThreadTypes, Status, Sendable, DueNow, files, threads, procs, Goto, Threads, Main, Worker, NoThread, Place, Ensured
  <2>2. ThreadTypes'
    BY <1>11 DEF Restart, FileTypes, ThreadTypes, files, threads, procs, Goto, Threads, Main, Worker, NoThread, Place, Ensured
  <2>3. LockInv' /\ NoImport'
    BY <1>11 DEF Restart, LockInv, NoImport, ThreadTypes, files, threads, procs, Goto, Threads, Main, Worker, NoThread, Place, Ensured
  <2>4. UNCHANGED <<sends, told>>
    BY <1>11 DEF Restart, files, threads, procs, Goto, Threads, Main, Worker, NoThread, Place, Ensured
  <2>5. \A x \in Events : MayBecome(x, status'[x])
    BY <1>11 DEF Restart, MayBecome, FileTypes, ThreadTypes, NoImport, Free, Status, Sendable, DueNow, files, threads, procs, Goto, Threads, Main, Worker, NoThread, Place, Ensured
  <2>6. \A u \in Threads : \A x \in todo'[u] : Free(x)
    BY <1>11 DEF Restart, FileTypes, ThreadTypes, Free, Status, Sendable, DueNow, files, threads, procs, Goto, Threads, Main, Worker, NoThread, Place, Ensured
  <2>7. SendInv' /\ ClearInv' /\ AtMostOnce' /\ ReceiptIsTrue'
    BY <2>1, <2>2, <2>4, <2>5, <2>6, QuietStep
  <2> QED
    BY <2>1, <2>2, <2>3, <2>4, <2>7 DEF SendTypes
<1>12. ASSUME NEW t \in Threads, Acquire(t) PROVE IInv'
  <2>1. FileTypes'
    BY <1>12 DEF Acquire, FileTypes, ThreadTypes, Status, Sendable, DueNow, files, threads, procs, Goto, Threads, Main, Worker, NoThread, Place, CanDrain, Ensured
  <2>2. ThreadTypes'
    BY <1>12 DEF Acquire, FileTypes, ThreadTypes, files, threads, procs, Goto, Threads, Main, Worker, NoThread, Place, CanDrain, Ensured
  <2>3. LockInv' /\ NoImport'
    BY <1>12 DEF Acquire, LockInv, NoImport, ThreadTypes, files, threads, procs, Goto, Threads, Main, Worker, NoThread, Place, CanDrain, Ensured
  <2>4. UNCHANGED <<sends, told>>
    BY <1>12 DEF Acquire, files, threads, procs, Goto, Threads, Main, Worker, NoThread, Place, CanDrain, Ensured
  <2>5. \A x \in Events : MayBecome(x, status'[x])
    BY <1>12 DEF Acquire, MayBecome, FileTypes, ThreadTypes, NoImport, Free, Status, Sendable, DueNow, files, threads, procs, Goto, Threads, Main, Worker, NoThread, Place, CanDrain, Ensured
  <2>6. \A u \in Threads : \A x \in todo'[u] : Free(x)
    BY <1>12 DEF Acquire, FileTypes, ThreadTypes, Free, Status, Sendable, DueNow, files, threads, procs, Goto, Threads, Main, Worker, NoThread, Place, CanDrain, Ensured
  <2>7. SendInv' /\ ClearInv' /\ AtMostOnce' /\ ReceiptIsTrue'
    BY <2>1, <2>2, <2>4, <2>5, <2>6, QuietStep
  <2> QED
    BY <2>1, <2>2, <2>3, <2>4, <2>7 DEF SendTypes
<1>13. ASSUME NEW t \in Threads, NEW e \in Events, FormatFails(t, e) PROVE IInv'
  <2>1. FileTypes'
    BY <1>13 DEF FormatFails, FileTypes, ThreadTypes, Status, Sendable, DueNow, files, threads, procs, Goto, Threads, Main, Worker, NoThread, Place, Attempting
  <2>2. ThreadTypes'
    BY <1>13 DEF FormatFails, FileTypes, ThreadTypes, files, threads, procs, Goto, Threads, Main, Worker, NoThread, Place, Attempting
  <2>3. LockInv' /\ NoImport'
    BY <1>13 DEF FormatFails, LockInv, NoImport, ThreadTypes, files, threads, procs, Goto, Threads, Main, Worker, NoThread, Place, Attempting
  <2>4. UNCHANGED <<sends, told>>
    BY <1>13 DEF FormatFails, files, threads, procs, Goto, Threads, Main, Worker, NoThread, Place, Attempting
  <2>5. \A x \in Events : MayBecome(x, status'[x])
    BY <1>13 DEF FormatFails, MayBecome, FileTypes, ThreadTypes, NoImport, Free, Status, Sendable, DueNow, files, threads, procs, Goto, Threads, Main, Worker, NoThread, Place, Attempting
  <2>6. \A u \in Threads : \A x \in todo'[u] : Free(x)
    BY <1>13 DEF FormatFails, FileTypes, ThreadTypes, Free, Status, Sendable, DueNow, files, threads, procs, Goto, Threads, Main, Worker, NoThread, Place, Attempting
  <2>7. SendInv' /\ ClearInv' /\ AtMostOnce' /\ ReceiptIsTrue'
    BY <2>1, <2>2, <2>4, <2>5, <2>6, QuietStep
  <2> QED
    BY <2>1, <2>2, <2>3, <2>4, <2>7 DEF SendTypes
<1>14. ASSUME NEW t \in Threads, NEW e \in Events, ReserveFails(t, e) PROVE IInv'
  <2>1. FileTypes'
    BY <1>14 DEF ReserveFails, FileTypes, ThreadTypes, Status, Sendable, DueNow, files, threads, procs, Goto, Threads, Main, Worker, NoThread, Place, Attempting
  <2>2. ThreadTypes'
    BY <1>14 DEF ReserveFails, FileTypes, ThreadTypes, files, threads, procs, Goto, Threads, Main, Worker, NoThread, Place, Attempting
  <2>3. LockInv' /\ NoImport'
    BY <1>14 DEF ReserveFails, LockInv, NoImport, ThreadTypes, files, threads, procs, Goto, Threads, Main, Worker, NoThread, Place, Attempting
  <2>4. UNCHANGED <<sends, told>>
    BY <1>14 DEF ReserveFails, files, threads, procs, Goto, Threads, Main, Worker, NoThread, Place, Attempting
  <2>5. \A x \in Events : MayBecome(x, status'[x])
    BY <1>14 DEF ReserveFails, MayBecome, FileTypes, ThreadTypes, NoImport, Free, Status, Sendable, DueNow, files, threads, procs, Goto, Threads, Main, Worker, NoThread, Place, Attempting
  <2>6. \A u \in Threads : \A x \in todo'[u] : Free(x)
    BY <1>14 DEF ReserveFails, FileTypes, ThreadTypes, Free, Status, Sendable, DueNow, files, threads, procs, Goto, Threads, Main, Worker, NoThread, Place, Attempting
  <2>7. SendInv' /\ ClearInv' /\ AtMostOnce' /\ ReceiptIsTrue'
    BY <2>1, <2>2, <2>4, <2>5, <2>6, QuietStep
  <2> QED
    BY <2>1, <2>2, <2>3, <2>4, <2>7 DEF SendTypes
<1>15. ASSUME NEW t \in Threads, Joined(t) PROVE IInv'
  <2>1. FileTypes'
    BY <1>15 DEF Joined, FileTypes, ThreadTypes, Status, Sendable, DueNow, files, threads, procs, Goto, Threads, Main, Worker, NoThread, Place
  <2>2. ThreadTypes'
    BY <1>15 DEF Joined, FileTypes, ThreadTypes, files, threads, procs, Goto, Threads, Main, Worker, NoThread, Place
  <2>3. LockInv' /\ NoImport'
    BY <1>15 DEF Joined, LockInv, NoImport, ThreadTypes, files, threads, procs, Goto, Threads, Main, Worker, NoThread, Place
  <2>4. UNCHANGED <<sends, told>>
    BY <1>15 DEF Joined, files, threads, procs, Goto, Threads, Main, Worker, NoThread, Place
  <2>5. \A x \in Events : MayBecome(x, status'[x])
    BY <1>15 DEF Joined, MayBecome, FileTypes, ThreadTypes, NoImport, Free, Status, Sendable, DueNow, files, threads, procs, Goto, Threads, Main, Worker, NoThread, Place
  <2>6. \A u \in Threads : \A x \in todo'[u] : Free(x)
    BY <1>15 DEF Joined, FileTypes, ThreadTypes, Free, Status, Sendable, DueNow, files, threads, procs, Goto, Threads, Main, Worker, NoThread, Place
  <2>7. SendInv' /\ ClearInv' /\ AtMostOnce' /\ ReceiptIsTrue'
    BY <2>1, <2>2, <2>4, <2>5, <2>6, QuietStep
  <2> QED
    BY <2>1, <2>2, <2>3, <2>4, <2>7 DEF SendTypes
<1>16. ASSUME NEW t \in Threads, EndDrain(t) PROVE IInv'
  <2>1. FileTypes'
    BY <1>16 DEF EndDrain, FileTypes, ThreadTypes, Status, Sendable, DueNow, files, threads, procs, Goto, Threads, Main, Worker, NoThread, Place, Rest
  <2>2. ThreadTypes'
    BY <1>16 DEF EndDrain, FileTypes, ThreadTypes, files, threads, procs, Goto, Threads, Main, Worker, NoThread, Place, Rest
  <2>3. LockInv' /\ NoImport'
    BY <1>16 DEF EndDrain, LockInv, NoImport, ThreadTypes, files, threads, procs, Goto, Threads, Main, Worker, NoThread, Place, Rest
  <2>4. UNCHANGED <<sends, told>>
    BY <1>16 DEF EndDrain, files, threads, procs, Goto, Threads, Main, Worker, NoThread, Place, Rest
  <2>5. \A x \in Events : MayBecome(x, status'[x])
    BY <1>16 DEF EndDrain, MayBecome, FileTypes, ThreadTypes, NoImport, Free, Status, Sendable, DueNow, files, threads, procs, Goto, Threads, Main, Worker, NoThread, Place, Rest
  <2>6. \A u \in Threads : \A x \in todo'[u] : Free(x)
    BY <1>16 DEF EndDrain, FileTypes, ThreadTypes, Free, Status, Sendable, DueNow, files, threads, procs, Goto, Threads, Main, Worker, NoThread, Place, Rest
  <2>7. SendInv' /\ ClearInv' /\ AtMostOnce' /\ ReceiptIsTrue'
    BY <2>1, <2>2, <2>4, <2>5, <2>6, QuietStep
  <2> QED
    BY <2>1, <2>2, <2>3, <2>4, <2>7 DEF SendTypes
<1>17. ASSUME NEW t \in Threads, DrainRaises(t) PROVE IInv'
  <2>1. FileTypes'
    BY <1>17 DEF DrainRaises, FileTypes, ThreadTypes, Status, Sendable, DueNow, files, threads, procs, Goto, Threads, Main, Worker, NoThread, Place
  <2>2. ThreadTypes'
    BY <1>17 DEF DrainRaises, FileTypes, ThreadTypes, files, threads, procs, Goto, Threads, Main, Worker, NoThread, Place
  <2>3. LockInv' /\ NoImport'
    BY <1>17 DEF DrainRaises, LockInv, NoImport, ThreadTypes, files, threads, procs, Goto, Threads, Main, Worker, NoThread, Place
  <2>4. UNCHANGED <<sends, told>>
    BY <1>17 DEF DrainRaises, files, threads, procs, Goto, Threads, Main, Worker, NoThread, Place
  <2>5. \A x \in Events : MayBecome(x, status'[x])
    BY <1>17 DEF DrainRaises, MayBecome, FileTypes, ThreadTypes, NoImport, Free, Status, Sendable, DueNow, files, threads, procs, Goto, Threads, Main, Worker, NoThread, Place
  <2>6. \A u \in Threads : \A x \in todo'[u] : Free(x)
    BY <1>17 DEF DrainRaises, FileTypes, ThreadTypes, Free, Status, Sendable, DueNow, files, threads, procs, Goto, Threads, Main, Worker, NoThread, Place
  <2>7. SendInv' /\ ClearInv' /\ AtMostOnce' /\ ReceiptIsTrue'
    BY <2>1, <2>2, <2>4, <2>5, <2>6, QuietStep
  <2> QED
    BY <2>1, <2>2, <2>3, <2>4, <2>7 DEF SendTypes
<1>18. ASSUME NEW e \in Events, BecomeDue(e) PROVE IInv'
  <2>1. FileTypes'
    BY <1>18 DEF BecomeDue, FileTypes, ThreadTypes, Status, Sendable, DueNow, files, threads, procs, Goto, Threads, Main, Worker, NoThread, Place
  <2>2. ThreadTypes'
    BY <1>18 DEF BecomeDue, FileTypes, ThreadTypes, files, threads, procs, Goto, Threads, Main, Worker, NoThread, Place
  <2>3. LockInv' /\ NoImport'
    BY <1>18 DEF BecomeDue, LockInv, NoImport, ThreadTypes, files, threads, procs, Goto, Threads, Main, Worker, NoThread, Place
  <2>4. UNCHANGED <<sends, told>>
    BY <1>18 DEF BecomeDue, files, threads, procs, Goto, Threads, Main, Worker, NoThread, Place
  <2>5. \A x \in Events : MayBecome(x, status'[x])
    BY <1>18 DEF BecomeDue, MayBecome, FileTypes, ThreadTypes, NoImport, Free, Status, Sendable, DueNow, files, threads, procs, Goto, Threads, Main, Worker, NoThread, Place
  <2>6. \A u \in Threads : \A x \in todo'[u] : Free(x)
    BY <1>18 DEF BecomeDue, FileTypes, ThreadTypes, Free, Status, Sendable, DueNow, files, threads, procs, Goto, Threads, Main, Worker, NoThread, Place
  <2>7. SendInv' /\ ClearInv' /\ AtMostOnce' /\ ReceiptIsTrue'
    BY <2>1, <2>2, <2>4, <2>5, <2>6, QuietStep
  <2> QED
    BY <2>1, <2>2, <2>3, <2>4, <2>7 DEF SendTypes
<1>19. ASSUME NEW e \in Events, Corrupt(e) PROVE IInv'
  <2>1. FileTypes'
    BY <1>19 DEF Corrupt, FileTypes, ThreadTypes, Status, Sendable, DueNow, files, threads, procs, Goto, Threads, Main, Worker, NoThread, Place
  <2>2. ThreadTypes'
    BY <1>19 DEF Corrupt, FileTypes, ThreadTypes, files, threads, procs, Goto, Threads, Main, Worker, NoThread, Place
  <2>3. LockInv' /\ NoImport'
    BY <1>19 DEF Corrupt, LockInv, NoImport, ThreadTypes, files, threads, procs, Goto, Threads, Main, Worker, NoThread, Place
  <2>4. UNCHANGED <<sends, told>>
    BY <1>19 DEF Corrupt, files, threads, procs, Goto, Threads, Main, Worker, NoThread, Place
  <2>5. \A x \in Events : MayBecome(x, status'[x])
    BY <1>19 DEF Corrupt, MayBecome, FileTypes, ThreadTypes, NoImport, Free, Status, Sendable, DueNow, files, threads, procs, Goto, Threads, Main, Worker, NoThread, Place
  <2>6. \A u \in Threads : \A x \in todo'[u] : Free(x)
    BY <1>19 DEF Corrupt, FileTypes, ThreadTypes, Free, Status, Sendable, DueNow, files, threads, procs, Goto, Threads, Main, Worker, NoThread, Place
  <2>7. SendInv' /\ ClearInv' /\ AtMostOnce' /\ ReceiptIsTrue'
    BY <2>1, <2>2, <2>4, <2>5, <2>6, QuietStep
  <2> QED
    BY <2>1, <2>2, <2>3, <2>4, <2>7 DEF SendTypes
<1>20. ASSUME NEW d \in Dispatchers, WriteReceipt(d) PROVE IInv'
  BY <1>20 DEF WriteReceipt, NoImport, Threads, Main
<1>21. ASSUME NEW t \in Threads, NEW e \in Events, Reserve(t, e) PROVE IInv'
  <2> DEFINE new == NewRequest(t, e)
  <2>0. /\ DOMAIN sends = 1..Len(sends) /\ Len(sends) \in Nat
        /\ \A i \in DOMAIN sends : sends[i] \in Request
    BY SendDomain
  <2>1. FileTypes'
    BY <1>21 DEF Reserve, FileTypes, Status
  <2>2. ThreadTypes'
    BY <1>21 DEF Reserve, ThreadTypes, procs, Goto, Threads, NoThread, Place
  <2>3. LockInv' /\ NoImport'
    BY <1>21 DEF Reserve, Attempting, LockInv, NoImport, ThreadTypes, procs, Goto, Place
  <2>4. new \in Request /\ new.ev = e /\ new.net = "flying" /\ new.live
    BY DEF NewRequest, Request, Net, Threads
  <2>5. SendTypes' /\ DOMAIN sends' = 1..(Len(sends) + 1)
    BY <1>21, <2>0, <2>4 DEF Reserve, SendTypes
  <2>6. /\ \A i \in DOMAIN sends : sends'[i] = sends[i]
        /\ sends'[Len(sends) + 1] = new
    BY <1>21, <2>0, <2>4 DEF Reserve, SendTypes
  <2>7. e \in todo[t] /\ Free(e) /\ Clear(e)
    BY <1>21 DEF Reserve, Attempting, Free, ClearInv
  <2>8. \A i \in DOMAIN sends : Open(i)' = Open(i)
    BY <2>6 DEF Open
  <2>9. \A x \in Events : status'[x] = IF x = e THEN "UNCERTAIN" ELSE status[x]
    BY <1>21 DEF Reserve, FileTypes
  <2>10. SendInv'
    <3>1. \A i, j \in DOMAIN sends' :
            sends'[i].ev = sends'[j].ev /\ Open(i)' /\ Open(j)' => i = j
      BY <2>0, <2>4, <2>5, <2>6, <2>7, <2>8 DEF SendInv, Clear
    <3>2. \A i \in DOMAIN sends' :
            /\ sends'[i].net = "flying" => status'[sends'[i].ev] = "UNCERTAIN"
            /\ sends'[i].net = "told" => told'[sends'[i].ev] = 1
      <4>1. UNCHANGED told
        BY <1>21 DEF Reserve
      <4>2. \A i \in DOMAIN sends : sends[i].ev \in Events
        BY <2>0 DEF Request
      <4> QED
        BY <2>0, <2>4, <2>5, <2>6, <2>9, <4>1, <4>2 DEF SendInv
    <3>3. \A x \in Events : told'[x] # 0 =>
            \E i \in DOMAIN sends' : sends'[i].ev = x /\ sends'[i].net = "told"
      BY <1>21, <2>0, <2>5, <2>6 DEF Reserve, SendInv
    <3> QED
      BY <3>1, <3>2, <3>3 DEF SendInv
  <2>11. ClearInv'
    <3>1. \A u \in Threads : u # t => todo[u] = {}
      BY <2>7, <1>21 DEF LockInv, ThreadTypes
    <3>2. ~Free(e)'
      BY <1>21, <2>9, <3>1 DEF Free, Reserve, ThreadTypes, Sendable, DueNow
    <3>3. \A x \in Events : x # e /\ Free(x)' => Free(x)
      BY <1>21, <2>9 DEF Free, Reserve, ThreadTypes
    <3>4. \A x \in Events : x # e /\ Clear(x) => Clear(x)'
      BY <1>21, <2>0, <2>4, <2>5, <2>6, <2>8 DEF Clear, Reserve
    <3> QED
      BY <3>2, <3>3, <3>4 DEF ClearInv
  <2>12. AtMostOnce' /\ ReceiptIsTrue'
    BY <1>21, <2>9 DEF Reserve, AtMostOnce, ReceiptIsTrue
  <2> QED
    BY <2>1, <2>2, <2>3, <2>5, <2>10, <2>11, <2>12
<1>22. ASSUME NEW i \in DOMAIN sends, SaveDelivered(i) PROVE IInv'
  <2>1. ThreadTypes' /\ LockInv' /\ NoImport'
    <3>1. sends[i].by \in Dispatchers
      BY SendDomain DEF Request
    <3> QED
      BY <1>22, <3>1 DEF SaveDelivered, ThreadTypes, LockInv, NoImport, threads, procs, Threads, Worker, Place
  <2>2. SendTypes' /\ status' \in [Events -> Status \cup {"none"}] /\ SendInv' /\ ClearInv' /\ AtMostOnce' /\ ReceiptIsTrue'
    <3>1. "DELIVERED" \in Status
      BY DEF Status, Sendable, DueNow
    <3> QED
      BY <1>22, <3>1, FinishStep DEF SaveDelivered, threads
  <2>3. FileTypes'
    BY <1>22, <2>2 DEF SaveDelivered, FileTypes
  <2> QED
    BY <2>1, <2>2, <2>3
<1>23. ASSUME NEW i \in DOMAIN sends, SaveRetry(i) PROVE IInv'
  <2>1. ThreadTypes' /\ LockInv' /\ NoImport'
    <3>1. sends[i].by \in Dispatchers
      BY SendDomain DEF Request
    <3> QED
      BY <1>23, <3>1 DEF SaveRetry, ThreadTypes, LockInv, NoImport, threads, procs, Threads, Worker, Place
  <2>2. SendTypes' /\ status' \in [Events -> Status \cup {"none"}] /\ SendInv' /\ ClearInv' /\ AtMostOnce' /\ ReceiptIsTrue'
    <3>1. "RETRY_WAIT" \in Status
      BY DEF Status, Sendable, DueNow
    <3> QED
      BY <1>23, <3>1, FinishStep DEF SaveRetry, threads
  <2>3. FileTypes'
    BY <1>23, <2>2 DEF SaveRetry, FileTypes
  <2> QED
    BY <2>1, <2>2, <2>3
<1>24. ASSUME NEW i \in DOMAIN sends, SaveBlocked(i) PROVE IInv'
  <2>1. ThreadTypes' /\ LockInv' /\ NoImport'
    <3>1. sends[i].by \in Dispatchers
      BY SendDomain DEF Request
    <3> QED
      BY <1>24, <3>1 DEF SaveBlocked, ThreadTypes, LockInv, NoImport, threads, procs, Threads, Worker, Place
  <2>2. SendTypes' /\ status' \in [Events -> Status \cup {"none"}] /\ SendInv' /\ ClearInv' /\ AtMostOnce' /\ ReceiptIsTrue'
    <3>1. "BLOCKED" \in Status
      BY DEF Status, Sendable, DueNow
    <3> QED
      BY <1>24, <3>1, FinishStep DEF SaveBlocked, threads
  <2>3. FileTypes'
    BY <1>24, <2>2 DEF SaveBlocked, FileTypes
  <2> QED
    BY <2>1, <2>2, <2>3
<1>25. ASSUME NEW i \in DOMAIN sends, SaveUncertain(i) PROVE IInv'
  <2>1. ThreadTypes' /\ LockInv' /\ NoImport'
    <3>1. sends[i].by \in Dispatchers
      BY SendDomain DEF Request
    <3> QED
      BY <1>25, <3>1 DEF SaveUncertain, ThreadTypes, LockInv, NoImport, threads, procs, Threads, Worker, Place
  <2>2. SendTypes' /\ status' \in [Events -> Status \cup {"none"}] /\ SendInv' /\ ClearInv' /\ AtMostOnce' /\ ReceiptIsTrue'
    <3>1. "UNCERTAIN" \in Status
      BY DEF Status, Sendable, DueNow
    <3> QED
      BY <1>25, <3>1, FinishStep DEF SaveUncertain, threads
  <2>3. FileTypes'
    BY <1>25, <2>2 DEF SaveUncertain, FileTypes
  <2> QED
    BY <2>1, <2>2, <2>3
<1>26. ASSUME NEW i \in DOMAIN sends, SaveFails(i) PROVE IInv'
  <2>1. FileTypes' /\ ThreadTypes' /\ LockInv' /\ NoImport'
    BY <1>26 DEF SaveFails, FileTypes, ThreadTypes, LockInv, NoImport, files, threads, procs
  <2>2. /\ DOMAIN sends = 1..Len(sends) /\ Len(sends) \in Nat
        /\ \A k \in DOMAIN sends : sends[k] \in Request
    BY SendDomain
  <2>3. /\ DOMAIN sends' = DOMAIN sends
        /\ \A k \in DOMAIN sends : /\ sends'[k].ev = sends[k].ev
                                   /\ sends'[k].net = sends[k].net
                                   /\ sends'[k].live => sends[k].live
    BY <1>26, <2>2 DEF SaveFails, Request
  <2>4. SendTypes'
    <3>1. [sends[i] EXCEPT !.live = FALSE] \in Request
      BY <2>2 DEF Request
    <3>2. sends' = [sends EXCEPT ![i] = [sends[i] EXCEPT !.live = FALSE]]
      BY <1>26 DEF SaveFails
    <3> QED
      BY <3>1, <3>2, <2>2, ExceptSeq DEF SendTypes
  <2>5. UNCHANGED <<status, todo, told>>
    BY <1>26 DEF SaveFails, files, threads
  <2> QED
    BY <2>1, <2>3, <2>4, <2>5, ClosingStep
<1>27. ASSUME NEW d \in Dispatchers, Crash(d) PROVE IInv'
  <2>1. FileTypes' /\ ThreadTypes' /\ LockInv' /\ NoImport'
    <3>1. FileTypes'
      BY <1>27 DEF Crash, Gone, FileTypes, files
    <3>2. ThreadTypes'
      BY <1>27 DEF Crash, Gone, ThreadTypes, Threads, NoThread, Place
    <3>3. \A t \in Threads : \/ t \in {Main(d), Worker(d)} /\ at'[t] \in {"idle", "dead"} /\ todo'[t] = {}
                             \/ t \notin {Main(d), Worker(d)} /\ at'[t] = at[t] /\ todo'[t] = todo[t]
      BY <1>27 DEF Crash, Gone, ThreadTypes, Threads, Main, Worker
    <3>4. lock' = IF lock \in {Main(d), Worker(d)} THEN NoThread ELSE lock
      BY <1>27 DEF Crash, Gone
    <3> QED
      BY <3>1, <3>2, <3>3, <3>4 DEF LockInv, NoImport
  <2>2. /\ DOMAIN sends = 1..Len(sends) /\ Len(sends) \in Nat
        /\ \A k \in DOMAIN sends : sends[k] \in Request
    BY SendDomain
  <2>3. /\ DOMAIN sends' = DOMAIN sends
        /\ \A k \in DOMAIN sends : /\ sends'[k].ev = sends[k].ev
                                   /\ sends'[k].net = sends[k].net
                                   /\ sends'[k].live => sends[k].live
                                   /\ sends'[k] \in Request
    BY <1>27, <2>2 DEF Crash, Request
  <2>4. SendTypes'
    <3>1. sends' \in [1..Len(sends) -> Request]
      BY <1>27, <2>2, <2>3 DEF Crash
    <3> QED
      BY <3>1, <2>2, SeqDef DEF SendTypes
  <2>5. UNCHANGED <<status, told>> /\ \A u \in Threads : todo'[u] \subseteq todo[u]
    BY <1>27 DEF Crash, Gone, files, ThreadTypes
  <2> QED
    BY <2>1, <2>3, <2>4, <2>5, ClosingStep
<1>28. ASSUME NEW i \in DOMAIN sends, NEW net \in Net, Arrive(i, net) PROVE IInv'
  <2> DEFINE ev == sends[i].ev
  <2>1. FileTypes' /\ ThreadTypes' /\ LockInv' /\ NoImport'
    <3>1. ev \in Events
      BY SendDomain DEF Request
    <3>2. told' \in [Events -> Nat]
      BY <1>28, <3>1 DEF Arrive, FileTypes
    <3> QED
      BY <1>28, <3>2 DEF Arrive, FileTypes, ThreadTypes, LockInv, NoImport, files, threads, procs
  <2>2. /\ DOMAIN sends = 1..Len(sends) /\ Len(sends) \in Nat
        /\ \A k \in DOMAIN sends : sends[k] \in Request
    BY SendDomain
  <2>3. Open(i) /\ ev \in Events /\ ~Free(ev) /\ told[ev] = 0 /\ status[ev] = "UNCERTAIN"
    BY <1>28, OpenIsReserved DEF Arrive, Open, SendInv
  <2>4. /\ DOMAIN sends' = DOMAIN sends
        /\ \A k \in DOMAIN sends : /\ sends'[k].ev = sends[k].ev
                                   /\ sends'[k].net = IF k = i THEN net ELSE sends[k].net
                                   /\ sends'[k].live = sends[k].live
    BY <1>28, <2>2 DEF Arrive, Request
  <2>5. SendTypes'
    <3>1. [sends[i] EXCEPT !.net = net] \in Request
      BY <2>2 DEF Request
    <3>2. sends' = [sends EXCEPT ![i] = [sends[i] EXCEPT !.net = net]]
      BY <1>28 DEF Arrive
    <3> QED
      BY <3>1, <3>2, <2>2, ExceptSeq DEF SendTypes
  <2>6. \A k \in DOMAIN sends : Open(k)' => Open(k)
    BY <2>3, <2>4 DEF Open
  <2>7. UNCHANGED <<status, todo>>
    BY <1>28 DEF Arrive, files, threads
  <2>8. \A x \in Events : told'[x] = IF x = ev /\ net = "told" THEN 1 ELSE told[x]
    BY <1>28, <2>3 DEF Arrive, FileTypes
  <2>9. \A k \in DOMAIN sends : sends[k].ev = ev /\ k # i => ~Open(k)
    BY <2>3 DEF SendInv
  <2>10. SendInv'
    <3>1. \A k \in DOMAIN sends : sends[k].ev \in Events
      BY <2>2 DEF Request
    <3>2. \A k, l \in DOMAIN sends' :
            sends'[k].ev = sends'[l].ev /\ Open(k)' /\ Open(l)' => k = l
      BY <2>4, <2>6 DEF SendInv
    <3>3. \A k \in DOMAIN sends' :
            /\ sends'[k].net = "flying" => status'[sends'[k].ev] = "UNCERTAIN"
            /\ sends'[k].net = "told" => told'[sends'[k].ev] = 1
      BY <2>3, <2>4, <2>7, <2>8, <3>1 DEF SendInv
    <3>4. ASSUME NEW x \in Events, told'[x] # 0
          PROVE  \E k \in DOMAIN sends' : sends'[k].ev = x /\ sends'[k].net = "told"
      <4>1. CASE x = ev /\ net = "told"
        BY <4>1, <2>4
      <4>2. CASE ~(x = ev /\ net = "told")
        <5>1. PICK k \in DOMAIN sends : sends[k].ev = x /\ sends[k].net = "told"
          BY <4>2, <3>4, <2>8 DEF SendInv
        <5> QED
          BY <5>1, <2>4, <1>28 DEF Arrive
      <4> QED
        BY <4>1, <4>2
    <3> QED
      BY <3>2, <3>3, <3>4 DEF SendInv
  <2>11. ClearInv'
    <3>1. \A x \in Events : Free(x)' => Free(x) /\ x # ev
      BY <2>3, <2>7 DEF Free
    <3> QED
      BY <3>1, <2>4, <2>6, <2>8 DEF ClearInv, Clear
  <2>12. AtMostOnce' /\ ReceiptIsTrue'
    BY <2>3, <2>7, <2>8 DEF AtMostOnce, ReceiptIsTrue
  <2> QED
    BY <2>1, <2>5, <2>10, <2>11, <2>12
<1>29. ASSUME UNCHANGED vars PROVE IInv'
  BY <1>29 DEF vars, FileTypes, ThreadTypes, SendTypes, LockInv, NoImport, SendInv, ClearInv,
     Free, Clear, Open, AtMostOnce, ReceiptIsTrue
<1> QED
  BY <1>1, <1>2, <1>3, <1>4, <1>5, <1>6, <1>7, <1>8, <1>9, <1>10, <1>11, <1>12, <1>13, <1>14, <1>15, <1>16, <1>17, <1>18, <1>19, <1>20, <1>21, <1>22, <1>23, <1>24, <1>25, <1>26, <1>27, <1>28, <1>29
     DEF Next, MainStep, DrainStep, Attempt, Save

LEMMA InitIInv == Receipts = {} /\ Init => IInv
<1> SUFFICES ASSUME Receipts = {}, Init PROVE IInv
  OBVIOUS
<1>1. FileTypes
  BY DEF Init, FileTypes
<1>2. ThreadTypes
  BY DEF Init, ThreadTypes, Threads, NoThread, Place
<1>3. SendTypes
  BY DEF Init, SendTypes
<1>4. LockInv /\ NoImport
  BY DEF Init, LockInv, NoImport
<1>5. DOMAIN sends = {}
  BY DEF Init
<1> QED
  BY <1>1, <1>2, <1>3, <1>4, <1>5
     DEF Init, IInv, SendInv, ClearInv, Clear, AtMostOnce, ReceiptIsTrue

-----------------------------------------------------------------------------
(* The theorems.                                                           *)

\* The invariant holds when there are no receipts of an old notifier to
\* import; the importer is the one writer that ignores the lock.
THEOREM Invariance == ASSUME Receipts = {} PROVE Spec => []IInv
BY InitIInv, NextIInv, PTL DEF Spec

\* The state has its types in every reachable state.
THEOREM TypeCorrect == ASSUME Receipts = {} PROVE Spec => []TypeOK
<1>1. IInv => TypeOK
  BY TypesAre DEF IInv
<1> QED
  BY <1>1, Invariance, PTL

\* No message is accepted twice, whatever crashes, is lost or fails.
THEOREM NeverTwice == ASSUME Receipts = {} PROVE Spec => []AtMostOnce
<1>1. IInv => AtMostOnce
  BY DEF IInv
<1> QED
  BY <1>1, Invariance, PTL

\* A receipt is written only for an accepted message.
THEOREM ReceiptsAreTrue == ASSUME Receipts = {} PROVE Spec => []ReceiptIsTrue
<1>1. IInv => ReceiptIsTrue
  BY DEF IInv
<1> QED
  BY <1>1, Invariance, PTL

\* What a dispatcher may send was never accepted and is not under way.
THEOREM RetriesAreSafe == ASSUME Receipts = {} PROVE Spec => []RetryIsSafe
<1>1. IInv => RetryIsSafe
  BY DEF IInv, ClearInv, Free, RetryIsSafe
<1> QED
  BY <1>1, Invariance, PTL

-----------------------------------------------------------------------------
(* The refinement.                                                         *)

\* Steps that keep the claim on every event.
LEMMA KeepsClaims ==
  ASSUME UNCHANGED told, \A x \in Events : ClaimOf(status[x])' = ClaimOf(status[x])
  PROVE  UNCHANGED Delivery!vars
BY DEF Delivery!vars, Claims

\* A step that writes one delivery file.
LEMMA OneClaim ==
  ASSUME FileTypes, NEW e \in Events, NEW s, status' = [status EXCEPT ![e] = s]
  PROVE  /\ Claims' = [Claims EXCEPT ![e] = ClaimOf(s)]
         /\ Claims[e] = ClaimOf(status[e])
         /\ ClaimOf(s) = ClaimOf(status[e]) => Claims' = Claims
BY DEF Claims, FileTypes

\* Writing an uncertain state claims a message, forgets a receipt, or
\* changes nothing.
LEMMA UncertainRefines ==
  ASSUME FileTypes, NEW e \in Events, status' = [status EXCEPT ![e] = "UNCERTAIN"],
         UNCHANGED told
  PROVE  [Delivery!Next]_(Delivery!vars)
<1>1. CASE status[e] = "UNCERTAIN"
  BY <1>1, OneClaim DEF Delivery!vars, ClaimOf
<1>2. CASE status[e] = "DELIVERED"
  <2>1. Delivery!Forget(e)
    BY <1>2, OneClaim DEF Delivery!Forget, ClaimOf
  <2> QED
    BY <2>1 DEF Delivery!Next
<1>3. CASE status[e] \notin {"UNCERTAIN", "DELIVERED"}
  <2>1. Delivery!Claim(e)
    BY <1>3, OneClaim DEF Delivery!Claim, ClaimOf
  <2> QED
    BY <2>1 DEF Delivery!Next
<1> QED
  BY <1>1, <1>2, <1>3

\* Writing a sendable or blocked state releases a message that was not told.
LEMMA ReleaseRefines ==
  ASSUME IInv, NEW e \in Events, NEW s \in Sendable \cup {"BLOCKED"},
         status' = [status EXCEPT ![e] = s], UNCHANGED told, told[e] = 0
  PROVE  [Delivery!Next]_(Delivery!vars)
<1>0. FileTypes /\ status[e] # "DELIVERED" /\ ClaimOf(s) = "free"
  BY DEF IInv, ReceiptIsTrue, ClaimOf, Sendable, DueNow
<1>1. CASE status[e] = "UNCERTAIN"
  <2>1. Delivery!Release(e)
    BY <1>0, <1>1, OneClaim DEF Delivery!Release, ClaimOf
  <2> QED
    BY <2>1 DEF Delivery!Next
<1>2. CASE status[e] # "UNCERTAIN"
  BY <1>0, <1>2, OneClaim DEF Delivery!vars, ClaimOf
<1> QED
  BY <1>1, <1>2

LEMMA StepRefines ==
  Receipts = {} /\ IInv /\ [Next]_vars => [Delivery!Next]_(Delivery!vars)
<1> SUFFICES ASSUME Receipts = {}, IInv, [Next]_vars
             PROVE  [Delivery!Next]_(Delivery!vars)
  OBVIOUS
<1>0. FileTypes /\ ThreadTypes /\ NoImport
  BY DEF IInv
<1>1. ASSUME NEW d \in Dispatchers, NEW e \in Events, NEW p \in {"ensure", "import"}, Publish(d, e, p)
      PROVE  UNCHANGED told /\ \A x \in Events : ClaimOf(status[x])' = ClaimOf(status[x])
  BY <1>0, <1>1 DEF Publish, FileTypes, ThreadTypes, ClaimOf, Sendable, DueNow, files, threads, procs
<1>2. ASSUME NEW d \in Dispatchers, Ensure(d)
      PROVE  UNCHANGED told /\ \A x \in Events : ClaimOf(status[x])' = ClaimOf(status[x])
  BY <1>0, <1>2 DEF Ensure, FileTypes, ThreadTypes, ClaimOf, Sendable, DueNow, files, threads, procs
<1>3. ASSUME NEW d \in Dispatchers, EnsureFails(d)
      PROVE  UNCHANGED told /\ \A x \in Events : ClaimOf(status[x])' = ClaimOf(status[x])
  BY <1>0, <1>3 DEF EnsureFails, FileTypes, ThreadTypes, ClaimOf, Sendable, DueNow, files, threads, procs
<1>4. ASSUME NEW d \in Dispatchers, Wake(d)
      PROVE  UNCHANGED told /\ \A x \in Events : ClaimOf(status[x])' = ClaimOf(status[x])
  BY <1>0, <1>4 DEF Wake, FileTypes, ThreadTypes, ClaimOf, Sendable, DueNow, files, threads, procs, WakeFromMain
<1>5. ASSUME NEW d \in Dispatchers, MarkBlocked(d)
      PROVE  UNCHANGED told /\ \A x \in Events : ClaimOf(status[x])' = ClaimOf(status[x])
  BY <1>0, <1>5 DEF MarkBlocked, FileTypes, ThreadTypes, ClaimOf, Sendable, DueNow, files, threads, procs
<1>6. ASSUME NEW d \in Dispatchers, Requeue(d)
      PROVE  UNCHANGED told /\ \A x \in Events : ClaimOf(status[x])' = ClaimOf(status[x])
  <2>1. PICK S \in SUBSET {e \in events : Ensured[e] = "BLOCKED"} :
               status' = [e \in Events |-> IF e \in S THEN "PENDING" ELSE Ensured[e]]
    BY <1>6 DEF Requeue
  <2>2. \A x \in Events :
          status'[x] # status[x] => status'[x] = "PENDING" /\ status[x] \in {"none", "BLOCKED"}
    BY <1>0, <2>1 DEF Ensured, FileTypes
  <2> QED
    BY <1>6, <2>2 DEF Requeue, ClaimOf
<1>7. ASSUME NEW d \in Dispatchers, Close(d)
      PROVE  UNCHANGED told /\ \A x \in Events : ClaimOf(status[x])' = ClaimOf(status[x])
  BY <1>0, <1>7 DEF Close, FileTypes, ThreadTypes, ClaimOf, Sendable, DueNow, files, threads, procs
<1>8. ASSUME NEW d \in Dispatchers, LockBusy(d)
      PROVE  UNCHANGED told /\ \A x \in Events : ClaimOf(status[x])' = ClaimOf(status[x])
  BY <1>0, <1>8 DEF LockBusy, FileTypes, ThreadTypes, ClaimOf, Sendable, DueNow, files, threads, procs
<1>9. ASSUME NEW d \in Dispatchers, WorkerCheck(d)
      PROVE  UNCHANGED told /\ \A x \in Events : ClaimOf(status[x])' = ClaimOf(status[x])
  BY <1>0, <1>9 DEF WorkerCheck, FileTypes, ThreadTypes, ClaimOf, Sendable, DueNow, files, threads, procs, Ensured
<1>10. ASSUME NEW d \in Dispatchers, Exit(d)
      PROVE  UNCHANGED told /\ \A x \in Events : ClaimOf(status[x])' = ClaimOf(status[x])
  BY <1>0, <1>10 DEF Exit, FileTypes, ThreadTypes, ClaimOf, Sendable, DueNow, files, threads, procs, Gone
<1>11. ASSUME NEW d \in Dispatchers, Restart(d)
      PROVE  UNCHANGED told /\ \A x \in Events : ClaimOf(status[x])' = ClaimOf(status[x])
  BY <1>0, <1>11 DEF Restart, FileTypes, ThreadTypes, ClaimOf, Sendable, DueNow, files, threads, procs, Ensured
<1>12. ASSUME NEW t \in Threads, Acquire(t)
      PROVE  UNCHANGED told /\ \A x \in Events : ClaimOf(status[x])' = ClaimOf(status[x])
  BY <1>0, <1>12 DEF Acquire, FileTypes, ThreadTypes, ClaimOf, Sendable, DueNow, files, threads, procs, CanDrain, Ensured
<1>13. ASSUME NEW t \in Threads, NEW e \in Events, ReserveFails(t, e)
      PROVE  UNCHANGED told /\ \A x \in Events : ClaimOf(status[x])' = ClaimOf(status[x])
  BY <1>0, <1>13 DEF ReserveFails, FileTypes, ThreadTypes, ClaimOf, Sendable, DueNow, files, threads, procs, Attempting
<1>14. ASSUME NEW t \in Threads, Joined(t)
      PROVE  UNCHANGED told /\ \A x \in Events : ClaimOf(status[x])' = ClaimOf(status[x])
  BY <1>0, <1>14 DEF Joined, FileTypes, ThreadTypes, ClaimOf, Sendable, DueNow, files, threads, procs
<1>15. ASSUME NEW t \in Threads, EndDrain(t)
      PROVE  UNCHANGED told /\ \A x \in Events : ClaimOf(status[x])' = ClaimOf(status[x])
  BY <1>0, <1>15 DEF EndDrain, FileTypes, ThreadTypes, ClaimOf, Sendable, DueNow, files, threads, procs, Rest
<1>16. ASSUME NEW t \in Threads, DrainRaises(t)
      PROVE  UNCHANGED told /\ \A x \in Events : ClaimOf(status[x])' = ClaimOf(status[x])
  BY <1>0, <1>16 DEF DrainRaises, FileTypes, ThreadTypes, ClaimOf, Sendable, DueNow, files, threads, procs
<1>17. ASSUME NEW e \in Events, BecomeDue(e)
      PROVE  UNCHANGED told /\ \A x \in Events : ClaimOf(status[x])' = ClaimOf(status[x])
  BY <1>0, <1>17 DEF BecomeDue, FileTypes, ThreadTypes, ClaimOf, Sendable, DueNow, files, threads, procs
<1>20. ASSUME NEW d \in Dispatchers, WriteReceipt(d) PROVE FALSE
  BY <1>0, <1>20 DEF WriteReceipt, NoImport, Threads, Main
<1>21. ASSUME NEW e \in Events, Corrupt(e) PROVE [Delivery!Next]_(Delivery!vars)
  BY <1>0, <1>21, UncertainRefines DEF Corrupt
<1>22. ASSUME NEW t \in Threads, NEW e \in Events, Reserve(t, e)
       PROVE  [Delivery!Next]_(Delivery!vars)
  BY <1>0, <1>22, UncertainRefines DEF Reserve
<1>23. ASSUME NEW t \in Threads, NEW e \in Events, FormatFails(t, e)
       PROVE  [Delivery!Next]_(Delivery!vars)
  <2>1. told[e] = 0
    BY <1>23 DEF FormatFails, Attempting, IInv, ClearInv, Free, Clear
  <2> QED
    BY <1>23, <2>1, ReleaseRefines DEF FormatFails
<1>24. ASSUME NEW i \in DOMAIN sends, Save(i) PROVE [Delivery!Next]_(Delivery!vars)
  <2> DEFINE ev == sends[i].ev
  <2>1. CASE SaveFails(i)
    BY <2>1 DEF SaveFails, files, Delivery!vars, Claims
  <2>2. CASE ~SaveFails(i)
    <3>1. Open(i) /\ UNCHANGED told
      BY <1>24, <2>2 DEF Save, SaveDelivered, SaveRetry, SaveBlocked, SaveUncertain, Finish, Open
    <3>2. ev \in Events /\ ~Free(ev) /\ (sends[i].net # "told" => told[ev] = 0)
      BY <3>1, OpenIsReserved
    <3>3. CASE SaveUncertain(i)
      BY <3>1, <3>2, <3>3, <1>0, UncertainRefines DEF SaveUncertain, Finish
    <3>4. CASE SaveRetry(i)
      <4>1. "RETRY_WAIT" \in Sendable \cup {"BLOCKED"}
        BY DEF Sendable
      <4> QED
        BY <3>1, <3>2, <3>4, <4>1, ReleaseRefines DEF SaveRetry, Finish
    <3>5. CASE SaveBlocked(i)
      BY <3>1, <3>2, <3>5, ReleaseRefines DEF SaveBlocked, Finish
    <3>6. CASE SaveDelivered(i)
      <4>1. told[ev] = 1 /\ status' = [status EXCEPT ![ev] = "DELIVERED"]
        BY <3>6 DEF SaveDelivered, Finish, IInv, SendInv
      <4>2. status[ev] \in {"UNCERTAIN", "DELIVERED"}
        BY <1>0, <3>2 DEF Free, FileTypes, Status
      <4>3. CASE status[ev] = "UNCERTAIN"
        <5>1. Delivery!Confirm(ev)
          BY <1>0, <3>1, <3>2, <4>1, <4>3, OneClaim DEF Delivery!Confirm, ClaimOf
        <5> QED
          BY <5>1, <3>2 DEF Delivery!Next
      <4>4. CASE status[ev] = "DELIVERED"
        BY <1>0, <3>1, <3>2, <4>1, <4>4, OneClaim DEF Delivery!vars
      <4> QED
        BY <4>2, <4>3, <4>4
    <3> QED
      BY <1>24, <2>2, <3>3, <3>4, <3>5, <3>6 DEF Save
  <2> QED
    BY <2>1, <2>2
<1>25. ASSUME NEW i \in DOMAIN sends, NEW net \in Net, Arrive(i, net)
       PROVE  [Delivery!Next]_(Delivery!vars)
  <2> DEFINE ev == sends[i].ev
  <2>1. Open(i) /\ sends[i].net = "flying" /\ UNCHANGED status
    BY <1>25 DEF Arrive, Open, files
  <2>2. ev \in Events /\ told[ev] = 0 /\ status[ev] = "UNCERTAIN"
    BY <2>1, OpenIsReserved DEF IInv, SendInv
  <2>3. UNCHANGED Claims
    BY <2>1 DEF Claims
  <2>4. CASE net = "told"
    <3>1. Delivery!Tell(ev)
      BY <1>0, <1>25, <2>2, <2>3, <2>4 DEF Arrive, Delivery!Tell, Claims, ClaimOf, FileTypes
    <3> QED
      BY <3>1, <2>2 DEF Delivery!Next
  <2>5. CASE net # "told"
    <3>1. UNCHANGED told
      BY <1>0, <1>25, <2>2, <2>5 DEF Arrive, FileTypes
    <3> QED
      BY <3>1, <2>3 DEF Delivery!vars
  <2> QED
    BY <2>4, <2>5
<1>26. ASSUME NEW d \in Dispatchers, Crash(d) PROVE UNCHANGED Delivery!vars
  BY <1>26 DEF Crash, Gone, files, Delivery!vars, Claims
<1>27. ASSUME UNCHANGED vars PROVE UNCHANGED Delivery!vars
  BY <1>27 DEF vars, Delivery!vars, Claims
<1> QED
  BY <1>1, <1>2, <1>3, <1>4, <1>5, <1>6, <1>7, <1>8, <1>9, <1>10, <1>11, <1>12, <1>13, <1>14, <1>15, <1>16, <1>17, <1>20, <1>21, <1>22, <1>23, <1>24, <1>25, <1>26, <1>27, KeepsClaims
     DEF Next, MainStep, DrainStep, Attempt

\* The dispatcher implements the abstract channel, which never tells a
\* message twice and never frees a claim on a message that was told.
THEOREM Refinement == ASSUME Receipts = {} PROVE Spec => ImplementsDelivery
<1>1. Receipts = {} /\ Init => Delivery!Init
  BY DEF Init, Delivery!Init, Claims, ClaimOf
<1> QED
  BY <1>1, StepRefines, Invariance, PTL DEF Spec, Delivery!Spec, ImplementsDelivery
=============================================================================
