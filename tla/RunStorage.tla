------------------------------- MODULE RunStorage -------------------------------
(***************************************************************************)
(* Where the lineages live (gocube_golden/run_storage.py, run_lifecycle.py): *)
(* a lineage is made, trained, archived or discarded, and refers to others    *)
(* by name and by the hash of their checkpoint; and the tools that are run by *)
(* hand over the same directories (tools/migrate_run_storage.py,              *)
(* split_legacy_bundles.py, archive_torus9_runs.py, deduplicate_checkpoints). *)
(*                                                                         *)
(* A lineage has one checkpoint here, and its content is a number that stands *)
(* for the bytes and for their hash alike.  Two operations may be under way   *)
(* at once, since none of them takes a lock, and each may be killed.          *)
(***************************************************************************)
EXTENDS Integers, Sequences, FiniteSets, SequencesExt

CONSTANTS
  Lines,      \* the ids of the lineages
  Contents,   \* what a trained checkpoint may hold
  MaxOps,     \* bound: operations
  MaxFaults   \* bound: operations that are killed, or that begin beside another one

Nothing == 0
StorageAssumption ==
  /\ Lines \subseteq Nat \ {0} /\ Contents \subseteq Nat \ {Nothing}
  /\ {MaxOps, MaxFaults} \subseteq Nat

VARIABLES
  disk,  \* the directories, those not migrated yet, the records of discards, and
         \* the evaluations with the checkpoints they name
  mem,   \* the operations under way
  env    \* what was counted, and whether two operations met

Procs == 1..2
Spaces == {"active", "archive"}
NoLink == <<"none", Nothing>>

\* A directory: its manifest (status, hash of the checkpoint, lineages it names),
\* its checkpoint (bytes, or a link and what was replaced), what a deduplication
\* has put aside, and its runtime state.
Absent ==
  [there |-> FALSE, status |-> "none", hash |-> Nothing, refs |-> {}, file |-> Nothing,
   link |-> NoLink, of |-> Nothing, aside |-> Nothing, run |-> "none"]

Dir(d) == disk.dir[d]
Dirs == Spaces \X Lines
Idle == [kind |-> "none", line |-> 0, pc |-> "idle", read |-> Absent, todo |-> <<>>, named |-> <<>>]

\* The order of paths: active before archive, then by name.
Before(a, b) == IF a[1] = b[1] THEN a[2] < b[2] ELSE a[1] = "active"
Sorted(ds) == SetToSortSeq(ds, Before)

\* A lineage that has trained its checkpoint.
Trained(c) == [Absent EXCEPT !.there = TRUE, !.status = "ACTIVE", !.hash = c, !.file = c, !.run = "READY"]

\* What the older lineages were copied from.
Copied == CHOOSE c \in Contents : TRUE

\* One lineage may be in the place of before the migration; the others are
\* active, with equal checkpoints.
StorageInit ==
  \E legacy \in {{}, {CHOOSE l \in Lines : TRUE}} :
    /\ disk = [dir |-> [d \in Dirs |-> IF d[1] = "active" /\ d[2] \notin legacy
                                       THEN Trained(Copied) ELSE Absent],
               legacy |-> legacy, notes |-> {}, evals |-> {}]
    /\ mem = [p \in Procs |-> Idle]
    /\ env = [ops |-> 0, faults |-> 0, met |-> FALSE]

-----------------------------------------------------------------------------
(* Reading.                                                                *)

\* A link is relative: between two directories of one namespace it names a sibling.
Follow(d) == LET k == Dir(d).link IN IF k[1] = "sibling" THEN <<d[1], k[2]>> ELSE k

\* What is read at the path of a checkpoint, links followed.
Read(d) ==
  LET hop[n \in 0..Cardinality(Dirs), e \in Dirs] ==
        IF n = 0 \/ ~Dir(e).there THEN Nothing
        ELSE IF Dir(e).link = NoLink THEN Dir(e).file ELSE hop[n - 1, Follow(e)]
  IN  hop[Cardinality(Dirs), d]

\* Where bytes are, whoever may still find them.
Kept == {Dir(d).file : d \in Dirs} \cup {Dir(d).aside : d \in Dirs}

\* _lineage_root_for_reference: the one directory that owns the name.
Owners(l) == {d \in Dirs : d[2] = l /\ Dir(d).there}

\* resolve_checkpoint, for a reference with the hash c: a link leads out of its
\* owner and is refused.
Resolves(l, c) ==
  \E d \in Owners(l) :
    /\ Owners(l) = {d} /\ Dir(d).status \in {"ACTIVE", "ARCHIVED"}
    /\ Dir(d).hash \in {Nothing, c} /\ Dir(d).link = NoLink /\ Dir(d).file = c

\* _external_references: a file outside the directory that has the name of the
\* lineage or the hash of its checkpoint.
Named(d) ==
  LET l == d[2]  c == Dir(d).hash IN
  \/ \E e \in Dirs \ {d} :
       \/ e[2] = l /\ Dir(e).status \notin {"none", "partial"}
       \/ l \in Dir(e).refs
       \/ c # Nothing /\ (Dir(e).hash = c \/ (Dir(e).of = c /\ Dir(e).refs # {}))
  \/ \E v \in disk.evals : v[1] = l \/ v[2] = c

\* _assert_not_running
NotRunning(d) == Dir(d).run = "READY"

-----------------------------------------------------------------------------
(* Starting and ending an operation.                                       *)

Meets(p) == \E q \in Procs \ {p} : mem[q].kind # "none"
Start(p, op) ==
  /\ mem[p].kind = "none" /\ env.ops < MaxOps /\ (Meets(p) => env.faults < MaxFaults)
  /\ \A q \in 1..(p - 1) : mem[q].kind # "none"
  /\ mem' = [mem EXCEPT ![p] = op]
  /\ env' = [env EXCEPT !.ops = @ + 1, !.met = @ \/ Meets(p), !.faults = IF Meets(p) THEN @ + 1 ELSE @]
  /\ UNCHANGED disk

At(p, kind, pc) == mem[p].kind = kind /\ mem[p].pc = pc /\ UNCHANGED env
Go(p, pc) == mem' = [mem EXCEPT ![p].pc = pc]
Done(p) == mem' = [mem EXCEPT ![p] = Idle]
Put(d, x) == disk' = [disk EXCEPT !.dir[d] = x]
Fail(p) == Done(p) /\ UNCHANGED disk

-----------------------------------------------------------------------------
(* create_lineage: a prepared directory is renamed.  An existing one with a   *)
(* valid manifest is returned as it is, and only the active one is looked at. *)

Create(p, l) ==
  /\ ~Dir(<<"active", l>>).there
  /\ \E ref \in {{}} \cup {{m} : m \in {m \in Lines \ {l} : \E c \in Contents : Resolves(m, c)}} :
       Start(p, [Idle EXCEPT !.kind = "create", !.line = l, !.pc = "publish", !.read.refs = ref])

Publish(p) ==
  LET d == <<"active", mem[p].line>> IN
  /\ At(p, "create", "publish") /\ Done(p)
  /\ IF Dir(d).there THEN UNCHANGED disk
     ELSE Put(d, [Absent EXCEPT !.there = TRUE, !.status = "ACTIVE", !.refs = mem[p].read.refs])

-----------------------------------------------------------------------------
(* archive_lineage: the manifest is read, the directory is renamed, and what  *)
(* was read is written back with the new status.                             *)

Archive(p, l) ==
  LET d == <<"active", l>> IN
  /\ Dir(d).status = "ACTIVE" /\ NotRunning(d) /\ ~Dir(<<"archive", l>>).there
  /\ Start(p, [Idle EXCEPT !.kind = "archive", !.line = l, !.pc = "rename", !.read = Dir(d)])

Rename(p) ==
  LET from == <<"active", mem[p].line>>  to == <<"archive", mem[p].line>> IN
  /\ At(p, "archive", "rename")
  /\ IF Dir(from).there /\ ~Dir(to).there
     THEN /\ disk' = [disk EXCEPT !.dir[to] = Dir(from), !.dir[from] = Absent] /\ Go(p, "seal")
     ELSE Fail(p)

Seal(p) ==
  LET d == <<"archive", mem[p].line>>  m == mem[p].read IN
  /\ At(p, "archive", "seal") /\ Done(p)
  /\ IF Dir(d).there
     THEN Put(d, [Dir(d) EXCEPT !.status = "ARCHIVED", !.hash = m.hash, !.refs = m.refs])
     ELSE UNCHANGED disk

-----------------------------------------------------------------------------
(* discard_lineage: refused while anything outside names it; the manifest and *)
(* a record of the day are written before the directory is removed.           *)

Discard(p, l) ==
  LET d == <<"active", l>> IN
  /\ Dir(d).status \notin {"none", "partial"} /\ NotRunning(d)
  /\ ~Named(d) /\ l \notin disk.notes
  /\ Start(p, [Idle EXCEPT !.kind = "discard", !.line = l, !.pc = "mark"])

Mark(p) ==
  LET d == <<"active", mem[p].line>> IN
  /\ At(p, "discard", "mark")
  /\ IF Dir(d).there THEN Put(d, [Dir(d) EXCEPT !.status = "DISCARDED"]) /\ Go(p, "record") ELSE Fail(p)

Record(p) ==
  /\ At(p, "discard", "record") /\ Go(p, "remove")
  /\ disk' = [disk EXCEPT !.notes = @ \cup {mem[p].line}]

\* rmtree has no order: killed within, it leaves the manifest or the checkpoint.
RemoveTree(p) ==
  LET d == <<"active", mem[p].line>> IN
  /\ At(p, "discard", "remove")
  /\ \/ Put(d, Absent) /\ Done(p)
     \/ /\ Dir(d).there /\ (Dir(d).status # "none" \/ Dir(d).file # Nothing)
        /\ Go(p, "remove")
        /\ \/ Put(d, [Dir(d) EXCEPT !.status = "none", !.hash = Nothing, !.refs = {}])
           \/ Put(d, [Dir(d) EXCEPT !.file = Nothing, !.aside = Nothing, !.link = NoLink, !.of = Nothing])

\* The record has the date in its name.
NextDay == disk.notes # {} /\ disk' = [disk EXCEPT !.notes = {}] /\ UNCHANGED <<mem, env>>

-----------------------------------------------------------------------------
(* refresh_manifests: the status is that of the namespace, the hashes are those *)
(* of the regular files; what the manifest refers to stays.                   *)

WithManifest(d, x) ==
  [x EXCEPT !.status = IF d[1] = "active" THEN "ACTIVE" ELSE "ARCHIVED", !.hash = x.file]

Refresh(p) ==
  LET ds == {d \in Dirs : Dir(d).there} IN
  ds # {} /\ Start(p, [Idle EXCEPT !.kind = "refresh", !.pc = "write", !.todo = Sorted(ds)])

Rewrite(p) ==
  LET d == Head(mem[p].todo) IN
  /\ At(p, "refresh", "write")
  /\ IF ~Dir(d).there THEN Fail(p)
     ELSE /\ Put(d, WithManifest(d, Dir(d)))
          /\ IF Len(mem[p].todo) = 1 THEN Done(p) ELSE mem' = [mem EXCEPT ![p].todo = Tail(@)]

-----------------------------------------------------------------------------
(* migrate and split take a fixed list and refuse if a source is missing or a *)
(* destination is there; archive_torus9_runs takes what it finds.  The moves   *)
(* come first; only migrate writes the manifests, after all of them.          *)

\* No destination is there; what a fixed list names is there.
Preflight(p, kind) ==
  /\ disk.legacy # {} /\ \A l \in disk.legacy : ~Dir(<<"archive", l>>).there
  /\ Start(p, [Idle EXCEPT !.kind = kind, !.pc = "move", !.todo = Sorted({"archive"} \X disk.legacy)])

Migrate(p) == Preflight(p, "migrate")
Split(p) == Preflight(p, "move")
ArchiveLegacy(p) == Preflight(p, "move")

Moves(p) ==
  LET d == Head(mem[p].todo) IN
  /\ mem[p].kind \in {"migrate", "move"} /\ mem[p].pc = "move" /\ UNCHANGED env
  /\ IF d[2] \notin disk.legacy \/ Dir(d).there THEN Fail(p)
     ELSE /\ disk' = [disk EXCEPT !.legacy = @ \ {d[2]},
                        !.dir[d] = [Absent EXCEPT !.there = TRUE, !.file = Copied]]
          /\ IF mem[p].kind = "migrate" THEN Go(p, "seal") ELSE Done(p)

SealMoved(p) ==
  LET d == Head(mem[p].todo) IN
  /\ At(p, "migrate", "seal") /\ Done(p)
  /\ IF Dir(d).there THEN Put(d, WithManifest(d, Dir(d))) ELSE UNCHANGED disk

-----------------------------------------------------------------------------
(* deduplicate: of the equal files one is kept, an active one first; each of   *)
(* the others is put aside, replaced by a link and removed; then the manifests *)
(* of the lineages that have links name those they link to.                   *)

Files(c) == {d \in Dirs : Dir(d).there /\ Dir(d).link = NoLink /\ Dir(d).file = c}
Canonical(c) == Head(Sorted(Files(c)))
Entries ==
  LET of(c) == [k \in 1..(Cardinality(Files(c)) - 1) |->
                  [to |-> Canonical(c), dup |-> Sorted(Files(c))[k + 1], sha |-> c]]
  IN  FlattenSeq([k \in 1..Cardinality(Contents) |->
        LET c == SetToSortSeq(Contents, <)[k] IN IF Files(c) = {} THEN <<>> ELSE of(c)])

Deduplicate(p) ==
  Entries # <<>> /\ Start(p, [Idle EXCEPT !.kind = "dedup", !.pc = "aside", !.todo = Entries, !.named = Entries])

PutAside(p) ==
  LET e == Head(mem[p].todo)  x == Dir(e.dup) IN
  /\ At(p, "dedup", "aside")
  /\ IF /\ Read(e.to) = e.sha /\ x.there /\ x.link = NoLink /\ x.file = e.sha /\ x.aside = Nothing
     THEN Put(e.dup, [x EXCEPT !.file = Nothing, !.aside = e.sha]) /\ Go(p, "link")
     ELSE Fail(p)

Link(p) ==
  LET e == Head(mem[p].todo)  x == Dir(e.dup) IN
  /\ At(p, "dedup", "link")
  /\ IF x.there /\ x.file = Nothing /\ x.link = NoLink
     THEN /\ Put(e.dup, [x EXCEPT !.of = e.sha,
                           !.link = <<IF e.to[1] = e.dup[1] THEN "sibling" ELSE e.to[1], e.to[2]>>])
          /\ Go(p, "drop")
     ELSE Fail(p)

Drop(p) ==
  LET e == Head(mem[p].todo)  x == Dir(e.dup) IN
  /\ At(p, "dedup", "drop")
  /\ IF x.there /\ x.aside # Nothing
     THEN /\ Put(e.dup, [x EXCEPT !.aside = Nothing])
          /\ mem' = [mem EXCEPT ![p].todo = Tail(@),
                                ![p].pc = IF Len(mem[p].todo) = 1 THEN "refer" ELSE "aside"]
     ELSE Fail(p)

\* A manifest that cannot be read is begun anew.
Refer(p) ==
  LET e == Head(mem[p].named)  x == Dir(e.dup) IN
  /\ At(p, "dedup", "refer")
  /\ IF ~x.there THEN Fail(p)
     ELSE /\ Put(e.dup, [x EXCEPT !.refs = @ \cup {e.to[2]},
                                  !.status = IF x.status = "none" THEN "partial" ELSE @])
          /\ IF Len(mem[p].named) = 1 THEN Done(p) ELSE mem' = [mem EXCEPT ![p].named = Tail(@)]

-----------------------------------------------------------------------------
(* The world: a lineage runs and commits, an evaluation names a checkpoint,    *)
(* an operation is killed.                                                  *)

Busy(l) == \E p \in Procs : mem[p].kind \in {"archive", "discard"} /\ mem[p].line = l

Run(l) ==
  LET d == <<"active", l>> IN
  /\ Dir(d).status = "ACTIVE" /\ Dir(d).run = "none"
  /\ Put(d, [Dir(d) EXCEPT !.run = "RUNNING"]) /\ UNCHANGED <<mem, env>>

Commit(l) ==
  LET d == <<"active", l>> IN
  /\ Dir(d).run = "RUNNING" /\ UNCHANGED <<mem, env>>
  /\ \E c \in Contents : Put(d, [Dir(d) EXCEPT !.run = "READY", !.file = c, !.hash = c])

Evaluate(l) ==
  /\ disk.evals = {} /\ UNCHANGED mem
  /\ \E c \in Contents : Resolves(l, c) /\ disk' = [disk EXCEPT !.evals = {<<l, c>>}]
  /\ env' = [env EXCEPT !.met = @ \/ Busy(l)]

Kill(p) ==
  /\ mem[p].kind # "none" /\ env.faults < MaxFaults /\ Done(p) /\ UNCHANGED disk
  /\ env' = [env EXCEPT !.faults = @ + 1]

Begin(p) ==
  \/ \E l \in Lines : Create(p, l) \/ Archive(p, l) \/ Discard(p, l)
  \/ Refresh(p) \/ Migrate(p) \/ Split(p) \/ ArchiveLegacy(p) \/ Deduplicate(p)

OpStep(p) ==
  \/ Publish(p) \/ Rename(p) \/ Seal(p) \/ Mark(p) \/ Record(p) \/ RemoveTree(p) \/ Rewrite(p)
  \/ Moves(p) \/ SealMoved(p) \/ PutAside(p) \/ Link(p) \/ Drop(p) \/ Refer(p)

StorageNext ==
  \/ \E p \in Procs : Begin(p) \/ OpStep(p) \/ Kill(p)
  \/ \E l \in Lines : Run(l) \/ Commit(l) \/ Evaluate(l)
  \/ NextDay

-----------------------------------------------------------------------------

Statuses == {"none", "partial", "ACTIVE", "ARCHIVED", "DISCARDED"}

\* Types of the directories and the operations.
StorageTypeOK ==
  /\ \A d \in Dirs :
       /\ Dir(d).status \in Statuses /\ Dir(d).refs \subseteq Lines
       /\ {Dir(d).hash, Dir(d).file, Dir(d).of, Dir(d).aside} \subseteq Contents \cup {Nothing}
       /\ ~Dir(d).there => Dir(d) = Absent
  /\ disk.legacy \subseteq Lines /\ disk.notes \subseteq Lines
  /\ env.ops \in 0..MaxOps /\ env.faults \in 0..MaxFaults

\* What a manifest gives the hash of is on the disk somewhere.
HashesHaveBytes ==
  \A d \in Dirs :
    Dir(d).status \in {"ACTIVE", "ARCHIVED"} /\ Dir(d).hash # Nothing => Dir(d).hash \in Kept

\* What was replaced by a link is still there, as long as the manifest beside the
\* link names another lineage or has the hash: only a deduplication that is
\* killed, and a refresh after it, leave a link that nothing names.
LinksHaveBytes ==
  \A d \in Dirs :
    Dir(d).link # NoLink /\ (Dir(d).refs # {} \/ Dir(d).hash # Nothing) => Dir(d).of \in Kept

\* So is what an evaluation names.
EvaluationsHaveBytes == \A v \in disk.evals : v[2] \in Kept

\* What a deduplication puts aside is in the place of the file, and is
\* what its link replaces.
AsideIsBeside ==
  \A d \in Dirs : Dir(d).aside # Nothing =>
    Dir(d).file = Nothing /\ (Dir(d).link # NoLink => Dir(d).of = Dir(d).aside)

\* No byte is lost that anything refers to, whichever operation is killed, as
\* long as no operation began beside another one: nothing excludes them.
StorageIsSound ==
  /\ AsideIsBeside
  /\ env.met \/ (HashesHaveBytes /\ LinksHaveBytes /\ EvaluationsHaveBytes)
=============================================================================
