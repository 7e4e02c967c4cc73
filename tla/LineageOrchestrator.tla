-------------------------- MODULE LineageOrchestrator --------------------------
(***************************************************************************)
(* Orchestrator V1: sessions that train one lineage, generation after        *)
(* generation, in child drivers (orchestrator.py, production_orchestrator.py, *)
(* artifact_catalog.py, and the operator policy a command may install,        *)
(* operator_policy.py).  A commit is five durable writes in a row; a session  *)
(* that starts after a crash finishes the commit it finds.  The lock of the   *)
(* lineage is a file, and a driver is a process of its own that can outlive   *)
(* its session.                                                             *)
(***************************************************************************)
EXTENDS Integers, FiniteSets

CONSTANTS
  MaxGen,      \* the generations an operator asks for
  Cadence,     \* an Arena is due every so many generations
  MaxRestarts, \* supervision.max_generation_restarts
  NumSessions, \* bound: launches of a session
  MaxFaults,   \* bound: deaths, failures of drivers, I/O errors, bad results
  MaxStops     \* bound: requests of a soft stop

OrchestratorAssumption ==
  /\ {MaxGen, Cadence, NumSessions} \subseteq Nat \ {0}
  /\ {MaxRestarts, MaxStops} \subseteq Nat /\ MaxFaults \in Nat \ {0}

VARIABLES
  disk, \* the lineage directory: transactions, results, catalog, state, manifest
  mem,  \* the sessions
  env   \* drivers, the policy of the command, and what happened

Gens == 1..MaxGen
Sessions == 1..NumSessions
Old == NumSessions + 1  \* the session of create(): it died with the lock, if it had it
Free == [holder |-> 0, written |-> FALSE]
Bad == -1  \* a result with technical or invalid games, or artifacts that differ
ResumableStopStates == {"COMPLETED", "SOFT_STOPPED", "RECOVERY_REQUIRED"}

\* A transaction that was not begun; a version 0 is none.
NoTx == [status |-> "none", tries |-> 0, ver |-> 0]
NoSession == [pc |-> "off", resume |-> FALSE, seen |-> 0, gen |-> 0, tries |-> 0,
              ver |-> 0, ret |-> "none"]
Outside == {"off", "ended", "failed", "dead"}
Live(s) == mem[s].pc \notin Outside
LiveOnes == {s \in Sessions : Live(s)}
Holds(s) == Live(s) /\ mem[s].pc \notin {"lock", "unlink"}

\* The lineage as create() leaves it; the command may have installed the policy.
OrchestratorInit ==
  /\ \E advisory \in BOOLEAN, left \in {0, 1} :
       env = [advisory |-> advisory, drivers |-> {}, orphaned |-> FALSE, raced |-> FALSE,
              extra |-> 0, stops |-> 0, faults |-> left]
  /\ disk = [tx |-> [g \in Gens |-> NoTx], result |-> [g \in Gens |-> 0],
             catalog |-> [g \in Gens |-> 0], rows |-> {}, prov |-> [g \in Gens |-> "none"],
             state |-> "CREATED", gen |-> 0, stop |-> FALSE,
             lock |-> IF env.faults = 0 THEN Free ELSE [holder |-> Old, written |-> TRUE],
             man |-> [gen |-> 0, arenas |-> {}, fp |-> [g \in Gens |-> 0]]]
  /\ mem = [s \in Sessions |-> NoSession]

Exclusive == \A s, t \in Sessions : Holds(s) /\ Holds(t) => s = t
At(s, pc) == mem[s].pc = pc
Goto(s, pc) == mem' = [mem EXCEPT ![s].pc = pc]
Fault(e) == [e EXCEPT !.faults = @ + 1]
MayFail == env.faults < MaxFaults

\* What is left of a session that is over, and of prepare_resume before run.
Over(pc) == [NoSession EXCEPT !.pc = pc]

\* `with RunLock`: the way out, and an error before the try of run().
Leave(s, ret) == mem' = [mem EXCEPT ![s] = [Over("unlock") EXCEPT !.ret = ret]]

\* An error inside the try: the handler runs, then the lock is released.
Raise(s) == mem' = [mem EXCEPT ![s] = Over("handler")]

\* An error that is none of integrity: the policy tries the generation again.
Operational(s) == IF env.advisory THEN Goto(s, "begin") ELSE Raise(s)

Due(g) == g > 0 /\ g % Cadence = 0

-----------------------------------------------------------------------------
(* The lock file.                                                          *)

\* Bound: sessions are launched in the order of their numbers, beside others only
\* until those have the lock.  "resume" opens the lineage again first; the hidden
\* "_supervise" does not.
Launch(s) ==
  /\ At(s, "off") /\ (s > 1 => mem[s - 1].pc # "off") /\ UNCHANGED <<disk, env>>
  /\ \A t \in LiveOnes : mem[t].pc \in {"lock", "unlink", "write"} /\ disk.lock # Free
  /\ \E resume \in BOOLEAN : mem' = [mem EXCEPT ![s].pc = "lock", ![s].resume = resume]

CreateLock(s) ==
  /\ At(s, "lock") /\ disk.lock = Free /\ UNCHANGED env
  /\ disk' = [disk EXCEPT !.lock = [holder |-> s, written |-> FALSE]]
  /\ Goto(s, "write")

\* The file is there: it can be read and names a dead process, or it stays.
InspectLock(s) ==
  /\ At(s, "lock") /\ disk.lock # Free /\ UNCHANGED <<disk, env>>
  /\ IF disk.lock.written /\ disk.lock.holder \notin LiveOnes
     THEN mem' = [mem EXCEPT ![s].pc = "unlink", ![s].seen = disk.lock.holder]
     ELSE mem' = [mem EXCEPT ![s] = Over("failed")]

\* The name is removed, whichever file it names by now; two attempts in all.
UnlinkStale(s) ==
  /\ At(s, "unlink")
  /\ disk' = [disk EXCEPT !.lock = Free]
  /\ env' = [env EXCEPT !.raced = @ \/ disk.lock.holder \notin {0, mem[s].seen}]
  /\ mem' = [mem EXCEPT ![s] = IF mem[s].tries = 0
                               THEN [@ EXCEPT !.pc = "lock", !.tries = 1, !.seen = 0]
                               ELSE Over("failed")]

WriteLock(s) ==
  /\ At(s, "write") /\ UNCHANGED env
  /\ disk' = [disk EXCEPT !.lock.written = @ \/ disk.lock.holder = s]
  /\ mem' = [mem EXCEPT ![s].pc = "recover", ![s].tries = 0]

\* release(): the name is removed, whichever file it names.
Unlock(s) ==
  /\ At(s, "unlock")
  /\ disk' = [disk EXCEPT !.lock = Free]
  /\ env' = [env EXCEPT !.raced = @ \/ disk.lock.holder # s]
  /\ mem' = [mem EXCEPT ![s] = Over(mem[s].ret)]

-----------------------------------------------------------------------------
(* Recovery of an interrupted commit, and opening the lineage.             *)

\* The journal: committed transactions beyond the manifest.
Journal == {g \in Gens : disk.tx[g].status = "COMMITTED" /\ g > disk.man.gen}
Latest == disk.man.gen + Cardinality(Journal)
Unregistered == {g \in Journal : disk.catalog[g] = 0}
Verified(g) == disk.tx[g].ver = disk.result[g] /\ disk.catalog[g] \in {0, disk.tx[g].ver}
Recoverable ==
  /\ {g \in Gens : disk.catalog[g] # 0 /\ g > disk.man.gen} \subseteq Journal
  /\ Journal = (disk.man.gen + 1)..Latest
  /\ Journal # {} => disk.gen <= Latest
  /\ \A g \in Journal : Verified(g)

\* The identities that the process died before registering.
RecoverCatalog(s) ==
  /\ At(s, "recover") /\ Recoverable /\ Unregistered # {} /\ UNCHANGED <<mem, env>>
  /\ disk' = [disk EXCEPT !.catalog = [g \in Gens |-> IF g \in Unregistered
                                                    THEN disk.tx[g].ver ELSE disk.catalog[g]]]

\* The state, before the manifest; nothing is written if the three disagree.
RecoverState(s) ==
  /\ At(s, "recover") /\ (Recoverable => Unregistered = {}) /\ UNCHANGED env
  /\ IF ~Recoverable THEN disk' = disk /\ Leave(s, "failed")
     ELSE IF Journal = {} THEN disk' = disk /\ Goto(s, "open")
     ELSE /\ disk' = [disk EXCEPT !.state = "RECOVERY_REQUIRED", !.gen = Latest]
          /\ mem' = [mem EXCEPT ![s].pc = "recoverManifest", ![s].gen = Latest]

RecoverManifest(s) ==
  /\ At(s, "recoverManifest") /\ UNCHANGED env
  /\ disk' = [disk EXCEPT !.man.gen = mem[s].gen, !.man.fp = disk.catalog]
  /\ mem' = [mem EXCEPT ![s].pc = "open", ![s].gen = 0]

\* prepare_resume, and run() up to its try: the manifest is read against the
\* catalog, and the state must allow it.
Refused(s) ==
  \/ disk.man.fp # disk.catalog
  \/ mem[s].resume /\ disk.state \notin ResumableStopStates \cup {"CREATED"}
  \/ ~mem[s].resume /\ disk.state \in ResumableStopStates

Open(s) ==
  /\ At(s, "open") /\ UNCHANGED env
  /\ IF Refused(s) THEN disk' = disk /\ Leave(s, "failed")
     ELSE IF mem[s].resume
     THEN disk' = [disk EXCEPT !.stop = FALSE] /\ Goto(s, "reopen")
     ELSE disk' = [disk EXCEPT !.state = "RUNNING"] /\ Goto(s, "loop")

\* The lock is given up between prepare_resume and run.
Reopen(s) ==
  /\ At(s, "reopen") /\ UNCHANGED env
  /\ disk' = [disk EXCEPT !.state = "CREATED"]
  /\ Leave(s, "lock")

-----------------------------------------------------------------------------
(* The loop of run().                                                      *)

PendingArena == Due(disk.gen) /\ disk.gen \notin disk.man.arenas

\* The stop is read here, and not again between a pending Arena and the
\* generation after it.
Loop(s) ==
  /\ At(s, "loop") /\ UNCHANGED env
  /\ disk' = IF disk.stop THEN [disk EXCEPT !.state = "SOFT_STOPPED"] ELSE disk
  /\ mem' = [mem EXCEPT ![s].gen = disk.gen,
       ![s].pc = IF disk.stop THEN "close" ELSE IF PendingArena THEN "arena" ELSE "next",
       ![s].ret = IF ~disk.stop /\ PendingArena THEN "next" ELSE "none"]

NextUnit(s) ==
  /\ At(s, "next")
  /\ IF mem[s].gen >= MaxGen
     THEN env' = env /\ disk' = [disk EXCEPT !.state = "COMPLETED"] /\ Goto(s, "close")
     ELSE /\ disk' = disk /\ env' = [env EXCEPT !.extra = IF disk.stop THEN @ + 1 ELSE @]
          /\ mem' = [mem EXCEPT ![s].pc = "begin", ![s].gen = @ + 1, ![s].ret = "none"]

\* _update_manifest at the end of a run.
Close(s) ==
  /\ At(s, "close") /\ UNCHANGED env
  /\ disk' = [disk EXCEPT !.man.gen = mem[s].gen] /\ Leave(s, "ended")

\* The handler of run(): the committed generation of the state is kept.
Handler(s) ==
  /\ At(s, "handler") /\ UNCHANGED env
  /\ disk' = [disk EXCEPT !.state = "RECOVERY_REQUIRED"] /\ Leave(s, "failed")

-----------------------------------------------------------------------------
(* A generation, and its commit.                                           *)

\* A generation that is committed already: an error, that the policy retries for
\* as long as the session lives.
Begin(s) ==
  LET tx == disk.tx[mem[s].gen] IN
  /\ At(s, "begin") /\ UNCHANGED <<disk, env>>
  /\ tx.status = "COMMITTED" => ~env.advisory
  /\ IF tx.status = "COMMITTED" THEN Raise(s)
     ELSE mem' = [mem EXCEPT ![s].pc = "start", ![s].tries = tx.tries]

Driver(s, phase) == [owner |-> s, gen |-> mem[s].gen, phase |-> phase, out |-> FALSE]
Started(s, phase) == [env EXCEPT !.drivers = @ \cup {Driver(s, phase)}]

\* The version of what a driver writes: two attempts never write the same bytes.
Ver(s) == 10 * s + mem[s].tries

\* The policy's _run_child makes no call to the lifecycle policy, which records
\* the attempts in the provenance of the generation.
Recorded(g, outcome) ==
  IF env.advisory THEN disk.prov ELSE [disk.prov EXCEPT ![g] = outcome]

Start(s) ==
  LET g == mem[s].gen IN
  /\ At(s, "start") /\ Goto(s, "wait") /\ env' = Started(s, "generation")
  /\ disk' = [disk EXCEPT !.tx[g] = [status |-> "RUNNING", tries |-> mem[s].tries, ver |-> 0],
                          !.prov = Recorded(g, "RUNNING")]

\* A driver publishes what it made.  Only an orphan has no session to wait for it.
Publish(d) ==
  /\ d \in env.drivers /\ ~d.out /\ UNCHANGED mem
  /\ \E bad \in IF MayFail THEN BOOLEAN ELSE {FALSE} :
       /\ bad => d.phase = "generation" /\ Live(d.owner)
       /\ env' = [(IF bad THEN Fault(env) ELSE env) EXCEPT !.drivers =
                   (@ \ {d}) \cup {[d EXCEPT !.out = TRUE] : o \in {d.owner} \cap LiveOnes}]
       /\ disk' = IF d.phase = "arena" THEN disk
                  ELSE [disk EXCEPT !.result[d.gen] = IF bad THEN Bad ELSE Ver(d.owner)]

Own(s) == {d \in env.drivers : d.owner = s}
Gone(s) == [env EXCEPT !.drivers = @ \ Own(s)]

\* A driver exits without an error; one that published nothing is a fault.
Finish(s) ==
  /\ At(s, "wait") /\ Goto(s, "validate")
  /\ disk' = [disk EXCEPT !.prov = Recorded(mem[s].gen, "COMPLETED")]
  /\ \/ (\E d \in Own(s) : d.out) /\ env' = Gone(s)
     \/ (\A d \in Own(s) : ~d.out) /\ MayFail /\ env' = Fault(Gone(s))

\* A driver that exits with an error, before or after it published: the attempts
\* are counted in the transaction, over all sessions.
DriverFails(s) ==
  LET g == mem[s].gen IN
  /\ At(s, "wait") /\ MayFail
  /\ env' = Fault(Gone(s))
  /\ disk' = [disk EXCEPT !.tx[g].status = "FAILED", !.prov = Recorded(g, "FAILED")]
  /\ IF env.advisory \/ mem[s].tries < MaxRestarts
     THEN mem' = [mem EXCEPT ![s].pc = "start", ![s].tries = @ + 1] ELSE Raise(s)

\* Critical health: the driver is killed, and no policy goes on.
Critical(s) ==
  /\ mem[s].pc \in {"wait", "waitArena"} /\ MayFail
  /\ env' = Fault(Gone(s)) /\ Raise(s)
  /\ disk' = [disk EXCEPT !.prov = IF At(s, "wait") THEN Recorded(mem[s].gen, "ABORTED") ELSE @]

Validate(s) ==
  LET g == mem[s].gen IN
  /\ At(s, "validate") /\ UNCHANGED env
  /\ IF disk.result[g] = 0 THEN Operational(s) /\ disk' = disk
     ELSE IF disk.result[g] = Bad THEN Raise(s) /\ disk' = disk
     ELSE /\ disk' = [disk EXCEPT !.rows = @ \cup {g}]
          /\ mem' = [mem EXCEPT ![s].pc = "commitTx", ![s].ver = disk.result[g]]

CommitTx(s) ==
  /\ At(s, "commitTx") /\ UNCHANGED env /\ Goto(s, "register")
  /\ disk' = [disk EXCEPT !.tx[mem[s].gen] = [status |-> "COMMITTED", tries |-> mem[s].tries,
                                             ver |-> mem[s].ver]]

\* The catalog keeps what it has: another identity is an error.
Register(s) ==
  LET g == mem[s].gen IN
  /\ At(s, "register") /\ UNCHANGED env
  /\ IF disk.catalog[g] \notin {0, mem[s].ver} THEN Raise(s) /\ disk' = disk
     ELSE disk' = [disk EXCEPT !.catalog[g] = mem[s].ver] /\ Goto(s, "commitState")

CommitState(s) ==
  /\ At(s, "commitState") /\ UNCHANGED env /\ Goto(s, "commitManifest")
  /\ disk' = [disk EXCEPT !.gen = mem[s].gen]

CommitManifest(s) ==
  /\ At(s, "commitManifest") /\ UNCHANGED env
  /\ mem' = [mem EXCEPT ![s].pc = "check", ![s].ver = 0, ![s].tries = 0]
  /\ disk' = [disk EXCEPT !.man.gen = mem[s].gen, !.man.fp = disk.catalog]

\* The thresholds of performance and learning fail closed without the policy;
\* then an Arena that is due is played, unless a stop was requested.
Check(s) ==
  /\ At(s, "check") /\ UNCHANGED disk
  /\ \/ ~env.advisory /\ MayFail /\ env' = Fault(env) /\ Raise(s)
     \/ /\ UNCHANGED env
        /\ mem' = IF Due(mem[s].gen) /\ ~disk.stop
                  THEN [mem EXCEPT ![s].pc = "arena", ![s].ret = "loop"]
                  ELSE [mem EXCEPT ![s].pc = "loop"]

-----------------------------------------------------------------------------
(* The Arena of a generation.                                              *)

StartArena(s) ==
  /\ At(s, "arena") /\ UNCHANGED disk /\ Goto(s, "waitArena") /\ env' = Started(s, "arena")

After(s) == mem' = [mem EXCEPT ![s].pc = mem[s].ret, ![s].ret = "none"]

FinishArena(s) ==
  /\ At(s, "waitArena") /\ (\E d \in Own(s) : d.out)
  /\ UNCHANGED disk /\ env' = Gone(s) /\ Goto(s, "recordArena")

\* An error exit, or technical or invalid games: the policy goes on without it.
ArenaFails(s) ==
  /\ At(s, "waitArena") /\ MayFail /\ UNCHANGED disk /\ env' = Fault(Gone(s))
  /\ IF env.advisory THEN After(s) ELSE Raise(s)

RecordArena(s) ==
  /\ At(s, "recordArena") /\ UNCHANGED env /\ Goto(s, "gate")
  /\ disk' = [disk EXCEPT !.man.gen = mem[s].gen, !.man.arenas = @ \cup {mem[s].gen}]

\* Under the policy a candidate that lost more than it won asks for a stop.
Gate(s) ==
  /\ At(s, "gate") /\ After(s)
  /\ \/ UNCHANGED <<disk, env>>
     \/ /\ env.advisory /\ env.stops < MaxStops
        /\ disk' = [disk EXCEPT !.stop = TRUE]
        /\ env' = [env EXCEPT !.stops = @ + 1, !.extra = 0]

-----------------------------------------------------------------------------
(* The operator, and what goes wrong.                                      *)

\* `stop`, and a signal to the session; the command reads the manifest first.
RequestStop ==
  /\ env.stops < MaxStops /\ ~disk.stop /\ disk.man.fp = disk.catalog /\ UNCHANGED mem
  /\ disk' = [disk EXCEPT !.stop = TRUE]
  /\ env' = [env EXCEPT !.stops = @ + 1, !.extra = 0]

\* A write of the commit fails.
WriteFails(s) ==
  /\ MayFail /\ env' = Fault(env) /\ UNCHANGED disk
  /\ \/ mem[s].pc \in {"commitTx", "register", "commitState", "commitManifest"} /\ Operational(s)
     \/ At(s, "recordArena") /\ IF env.advisory THEN After(s) ELSE Raise(s)
     \/ At(s, "close") /\ Raise(s)

\* Nothing reads active-child.json of a session that died.
Crash(s) ==
  /\ Live(s) /\ MayFail /\ UNCHANGED disk
  /\ mem' = [mem EXCEPT ![s] = Over("dead")]
  /\ \/ env' = Fault(Gone(s))
     \/ /\ \E d \in Own(s) : ~d.out
        /\ env' = [Fault(env) EXCEPT !.orphaned = TRUE]

SessionStep(s) ==
  \/ Launch(s) \/ CreateLock(s) \/ InspectLock(s) \/ UnlinkStale(s) \/ WriteLock(s) \/ Unlock(s)
  \/ RecoverCatalog(s) \/ RecoverState(s) \/ RecoverManifest(s)
  \/ Open(s) \/ Reopen(s) \/ Loop(s) \/ NextUnit(s) \/ Close(s) \/ Handler(s)
  \/ Begin(s) \/ Start(s) \/ Finish(s) \/ DriverFails(s) \/ Critical(s) \/ Validate(s)
  \/ CommitTx(s) \/ Register(s) \/ CommitState(s) \/ CommitManifest(s) \/ Check(s)
  \/ StartArena(s) \/ FinishArena(s) \/ ArenaFails(s) \/ RecordArena(s) \/ Gate(s)

\* Bound: two sessions that hold the lock at once are followed no further.
OrchestratorNext ==
  /\ Exclusive
  /\ \/ RequestStop
     \/ \E d \in env.drivers : Publish(d)
     \/ \E s \in Sessions : SessionStep(s) \/ WriteFails(s) \/ Crash(s)

orchestratorVars == <<disk, mem, env>>

OrchestratorSpec ==
  /\ OrchestratorInit /\ [][OrchestratorNext]_orchestratorVars
  /\ \A s \in Sessions : WF_orchestratorVars(SessionStep(s))
  /\ WF_orchestratorVars(\E d \in env.drivers : Publish(d))

-----------------------------------------------------------------------------
(* Properties.                                                             *)

OrchestratorTypeOK ==
  /\ disk.tx \in [Gens -> [status : {"none", "RUNNING", "FAILED", "COMMITTED"},
                           tries : 0..(MaxRestarts + MaxFaults), ver : Nat]]
  /\ disk.result \in [Gens -> Nat \cup {Bad}] /\ disk.catalog \in [Gens -> Nat]
  /\ disk.state \in ResumableStopStates \cup {"CREATED", "RUNNING"}
  /\ disk.lock \in [holder : 0..Old, written : BOOLEAN]
  /\ disk.man.gen \in 0..MaxGen /\ disk.man.arenas \subseteq Gens
  /\ \A s \in Sessions : mem[s].gen \in 0..MaxGen /\ mem[s].seen \in 0..Old

\* RunLock: two sessions work on one lineage only if a lock file was removed
\* that was not the one inspected (orchestrator.py:369).
LockExcludes == ~env.raced => Exclusive

\* The order of the five writes of a commit: whatever a session leaves behind
\* when it ends, fails or dies, the next one recovers it and opens the lineage,
\* unless an orphan wrote over what was committed.
NextSessionRecovers ==
  ~env.raced /\ ~env.orphaned /\ (\A s \in Sessions : ~Holds(s))
    => Recoverable /\ (Journal = {} => disk.man.fp = disk.catalog)

\* What the manifest counts as committed is journaled, registered, in the history
\* of metrics, with its completed attempt, and still what the driver wrote.
CommittedIsWhole ==
  ~env.raced => \A g \in 1..disk.man.gen :
    /\ disk.tx[g].status = "COMMITTED" /\ disk.catalog[g] = disk.tx[g].ver /\ g \in disk.rows
    /\ env.orphaned \/ disk.result[g] = disk.tx[g].ver
    /\ disk.prov[g] = IF env.advisory THEN "none" ELSE "COMPLETED"

\* Without the policy no generation is begun over an Arena that is due, through
\* stops, failures, crashes and recoveries (_ensure_pending_arena).
ArenaBeforeTraining ==
  ~env.raced /\ ~env.advisory =>
    \A g, h \in Gens : h < g /\ Due(h) /\ disk.tx[g].status # "none" => h \in disk.man.arenas

\* After a request to stop at most one more generation is begun.
StopIsNear == ~env.raced => env.extra <= 1

OrchestrationIsSound ==
  /\ LockExcludes /\ NextSessionRecovers /\ CommittedIsWhole
  /\ ArenaBeforeTraining /\ StopIsNear

\* Every session that is launched is over, unless the policy retries a generation
\* that is committed, as long as the session lives.
Retries(s) ==
  At(s, "begin") /\ env.advisory /\ disk.tx[mem[s].gen].status = "COMMITTED"
SessionsEnd ==
  Exclusive => \/ \E s \in Sessions : Retries(s)
               \/ LiveOnes = {} /\ ~At(NumSessions, "off")
=============================================================================
