# Lazarus: a verification project

Lazarus is a backup program: a command line tool that keeps deduplicated,
encrypted snapshots in a repository directory, and an agent and a server that
run the same operations on a fleet. This directory holds TLA+ models of it,
the TLC configurations that check them on small instances, and TLAPS proofs of
their most important properties. Source paths below are relative to
`src/lazarus/`; line numbers are those of the modelled commit.

## 1. The system

| part | state it keeps | operations | shares with |
|---|---|---|---|
| `lazarus-cli backup` (`lazarus-cli/src/commands/backup.rs`) | in memory: the chunks in flight, the set of hashes | scan, hash and encrypt, store chunks, create the snapshot, add references, attach a fingerprint | catalog, dedup table, storage, sidecar |
| `system-snapshot` (`commands/system_snapshot.rs`, `lazarus-core/src/capture/persist.rs`) | none | store the blobs of a fingerprint with their references, create the snapshot, write the sidecar | the same |
| `prune` (`commands/prune.rs`) | in memory: kept and dropped ids, active, reclaimable and freed chunks | select, mark, scan, remove references, delete chunks, delete snapshot rows | the same |
| `restore`, `verify` | none | read snapshot, objects and chunks; check hashes | reads the same |
| catalog (`lazarus-core/src/catalog/index.rs`) | SQLite: Chunks, Objects, TreeEntries, FileChunks, BlockExtents, Snapshots | one statement per call, each its own transaction; foreign keys on | opened by every command |
| dedup table (`snapshot/dedup.rs`) | SQLite: ChunkRefs(chunk, snapshot) | add, batch add, drop, count | same database, second connection |
| local storage (`storage/local.rs`) | files `data/<2>/<hash>`, immutable flags | put (temp, fsync, rename), get, delete, write_once | the repository directory |
| metadata sidecar, history log (`catalog/metadata.rs`, `catalog/history.rs`) | an encrypted JSON map; a signed append-only log | read-modify-write; append, verify | the repository directory |
| keys and config (`encryption/key_manager.rs`, `config.rs`) | the wrapped keys in `repo.key` | init, open, rotate | every command |
| hooks and OS snapshots (`snapshot/hooks.rs`, `lvm.rs`, `btrfs.rs`, `zfs.rs`) | the frozen applications; a mounted snapshot | pre hooks, snapshot, post hooks, release | `backup` |
| server (`lazarus-server/src/job_scheduler.rs`, `grpc/*.rs`) | SQLite: jobs, schedules; a chunk directory | schedule, assign, start, progress, complete, time out, cron; store and serve chunks | agents, over gRPC |
| agent (`lazarus-agent/src/main.rs`) | a repository of its own: key, catalog, data directory; the jobs of the last poll | poll, report, back up to the server, restore, verify, prune | server; on the server's host its repository may be the server's directory |
| host capture (`lazarus-core/src/capture/*.rs`) | the fingerprint being made, its warnings | eight concurrent collectors, the blobs they store | `system-snapshot` and `backup`, storage, dedup table |

How they interact: every command is a process of its own. The processes share
the repository directory and its SQLite database and nothing else; there is no
repository lock. A command makes dozens to millions of small commits (a file
rename, a SQL statement), and the meaning of the repository lies in the
relation between the files, the catalog and the reference table, which no
single commit covers.

What is hard here, and therefore what the models are about:

* two commands interleave between any two commits;
* a command ends (crash, I/O error, `?`) between any two commits and nothing
  is undone; later commands work on what is left;
* a value is read, and used after other commits (`chunk_exists` then write;
  mark, then scan, then delete);
* one file name serves two writers with two encodings;
* jobs are handed to agents over a network, their answers late or lost;
* a collector of the fingerprint never fails: whatever goes wrong must show in
  the warnings, and the blobs it stores must agree with what it names.

Correctness, part by part: a listed snapshot can be restored in full; prune
deletes what nothing needs and nothing else; references and rows agree with
files; what was decided to be dropped goes; a frozen application is always
thawed; a job is begun once and its row tells how it ended; what an agent has
linked is on the server, and a restore that reports success is complete; a
rotated key never locks the owner out; a log that was never tampered with
verifies; what a fingerprint lacks is accounted for.

## 2. Modules

| module | models |
|---|---|
| `Repository` | a repository directory under any number of `backup`, `system-snapshot` and `prune` commands: files, immutable flags, catalog rows and links, snapshots, references, sidecar; every commit is an action |
| `RepositoryInvariant` | the conditions of safe use (`PrunesApart`, `Isolated`, `Immutable`) and the inductive invariants `Spared`, `Consistent`, `Held`, `Tidy`, `Sealed` |
| `SnapshotStore` | the abstract promise: snapshots appear whole, keep their contents, disappear by retention |
| `RepositoryProofs` | TLAPS: types; the five invariants and what follows from them for files, fingerprints, deletions and space; the repository implements `SnapshotStore` |
| `MCRepository` | instances of `Repository` for TLC |
| `QuiesceHooks` | one `backup` after another with its pre and post hooks, OS snapshot, guards and the ways it may end |
| `QuiesceProofs` | TLAPS: what a hook froze is frozen when it must be and thawed when it must be; no snapshot is left behind |
| `TreeBackup` | the walk of a file tree and the chunk pipeline of one `backup` in file mode |
| `TreeRestore` | extends it by `restore`, repeated, interrupted, from chunk files that may be damaged |
| `TreeProofs` | TLAPS: rows, tree and reference set of a backup are what was read, and a restore makes that of them |
| `BlockImage` | block mode: extents, pieces, manifest, and the way back to a file or a device |
| `BlockProofs` | TLAPS: the manifest is sound and passes restore's checks, the image is what was on the device |
| `JobControl` | the server's jobs table, its scheduler thread and cron loop, the polling loop of the agents, lost replies and crashes |
| `JobProofs` | TLAPS: a job is begun once, its row tells its outcome, a due time gives one job |
| `AgentStore` | what the agents' backup, restore, verify and prune jobs do to the server's chunks and to their own catalogs |
| `AgentProofs` | TLAPS: what is linked is stored, a restore is exact |
| `RepositoryFiles` | `repo.key`, `snapshot_metadata.json` and `history.log` under concurrent commands that may be killed between two system calls |
| `FilesProofs` | TLAPS: what each of the three files keeps |
| `FingerprintCapture` | the collectors of a fingerprint with every place where they may fail, and the blobs they store |
| `CaptureProofs` | TLAPS: what a fingerprint lacks is accounted for, what it names is held |
| `MCQuiesceHooks`, `MCTree`, `MCBlock`, `MCJobs`, `MCAgents`, `MCFiles`, `MCCapture` | their instances for TLC |

The modules meet at one place each. `Repository` treats a backup as a set of
chunks that are stored and linked one by one while other commands run;
`TreeBackup` and `BlockImage` say which chunks those are and in which order
they are linked, for one command alone. `QuiesceHooks` says what surrounds the
capture, which is one step there. `RepositoryFiles` opens up the step in which
`Repository` writes a sidecar entry, and `FingerprintCapture` the steps in
which it stores blobs and references of a fingerprint. `JobControl` treats the
work of a job as one step that succeeds or fails; `AgentStore` says what
happens in it.

### Repository and the code

A command is an element of `Writer` or `Pruner` and runs once; `wpc` and `ppc`
say where it is. `blob` is the content of `data/<hash>`: absent, `encoded` (an
adaptive-compressed chunk, as `backup` writes and `restore` reads it) or `raw`
(as the fingerprint persister writes and reads it). `chunkRow` is Chunks,
`links` is FileChunks and BlockExtentChunks collected under the root object
(an object tree belongs to the command that made it, so the root is named by
the writer), `snapshots` maps a second to a root, `refs` is ChunkRefs.

| action | code |
|---|---|
| `StartBackup`, `StartCapture` | `backup.rs:341`, `system_snapshot.rs:53`: the id is the current second; what the source holds is chosen |
| `ChunkExists`, `PutChunk`/`PutRefused`, `LockChunk`, `UpsertChunk`, `LinkChunk` | `handle_processed_chunk`, `write_once`: check, rename into place, `chattr +i`, row, link; the foreign key makes `LinkChunk` fail when the row is gone |
| `CreateSnapshot`, `AddReferences` | `backup.rs:444` and `456`, two transactions |
| `PutBlob`, `SkipBlob`, `RegisterRef`, `PutSidecar` | `persist.rs`, then the sidecar entry |
| `StartPrune` ... `EndPrune` | `prune.rs`, one action per statement or file operation; the loops run in any order because the code iterates over SQL results and hash sets |
| `AbortWriter`, `AbortPruner` | a crash or an error return at any step |

`Overlap` and `Faults` say what the environment does: which commands overlap,
and which of them may end early. They are not switches of the program; the
program takes no precaution against any of it.

### QuiesceHooks and the code

`service` and `probe` are the host; `frozen` the applications a pre hook has
frozen and no post hook thawed. A run chooses its flags (`Configs`,
`Snapshotters`: `validate_args`, `pick_snapshotter`), runs the applicable pre
hooks in order (`Start`, `PreSucceeds`, `PreFails`, `PreDone`), takes the
snapshot in one or two steps (`CreateBase`, `CreateView`: LVM mounts what it
created, ZFS clones it, btrfs has one step), thaws, captures, and tears down.
`ThroughPost` is `PostHookGuard`, which may be reached from five places.

### TreeBackup, TreeRestore and the code

`open` is the stack of `backup_directory` calls and `left` what their
`read_dir` has still to return, in any order. `file`, `pos`, `eof`,
`scheduled`, `inflight` are the locals of `backup_file`; a chunk is the bytes
one `read` returned, at most a buffer, possibly fewer. A worker's result is
recorded in any order (`RecordChunk`: `handle_processed_chunk`), but only
where the loop awaits one: with the window full or at the end of the file.
`reads` is a history of what was read.

`TreeRestore` runs when the snapshot is listed. `ropen`, `rleft`, `rfile`,
`next` are the stack and the locals of `restore_directory` and `restore_file`;
`dest` is the destination, where `sealed` says that the owner may not write
and `dated` that the times are those captured (making an entry or writing
clears it). `Place` is where the stored name of a node puts it.

### BlockImage and the code

A unit is a block; `alloc` are the blocks the kernel reports as data.
`Scan` is `used_extents` (or its fallback: one extent), `ReadExtent` reads one
extent into memory as it is now, `SchedulePiece` and `RecordPiece` are the
loop over its pieces and the completion of any worker, also of an earlier
extent. `StartRestore` holds every check `restore_block_device` makes before
its loop; that loop is the cursor `outExtent`, `outChunk`, which `NextExtent`
moves to the next extent. `InOrder` is the order the rows of one extent come
back in (`ORDER BY chunk_index`).

### JobControl and the code

A row of `jobs` is an element of `Job`: a `Template` has a cron expression, a
`Spare` is a row the server will insert. `status`, `holder`, `due`, `started`,
`error` and `nextRun` are columns. Every RPC is one action with two outcomes:
the statement commits and the reply arrives, or it commits and the reply is
lost. `GetJobs` is `get_pending_jobs_for_agent` with its transaction; `TakeJob`
to `ReportFailure` are `job_loop` and `execute_job`; `SchedulerTick`,
`CronRow` and `CronAdvance` are the scheduler thread, one action per statement
that commits, because nothing makes a transaction of them; `after` is
`next_after`, computed before the insert and written after it. `touched` is set by
every commit of another connection while the cron loop's SELECT is open; the
next write of the loop then fails. `unreadable` rows are those `job_from_row`
cannot parse. The errors a poll or a report may get from the database are
those of an unreadable row, of a missing `agents` row and of a dead server.

### AgentStore and the code

`blob` is `data/<hash>` of the server with the key it is encrypted with; `own`
the data directory of an agent whose repository is elsewhere. `rowOf` and
`linked` are Chunks and FileChunks of the agents' catalogs. A backup job is of
one file: `CheckChunks` asks once for all its hashes, then each chunk is
uploaded (`UploadChunk`), gets a row (`UpsertChunk`) and a link
(`AddFileChunk`). The progress reports between the chunks are not actions of
their own: one that fails ends the job as the step beside it does. A restore
job downloads chunk by chunk; a prune job of the agent works on the data
directory, which is the server's for an agent in `Local`. Snapshots are made
by the command line on the same host (`CliBackup`); a backup job makes none.
`tries` counts attempts; the pauses between them are not modelled.

### RepositoryFiles and the code

A process runs one command after another, each step a system call or a read.
`rotate` is `KeyManager::rotate_master_key`; `finalize` and `remove` are the
calls of `SnapshotManager`: references, metadata entry, history record.
Files have identities (`Ino`), so that a process that opened the temporary
file before another one renamed it goes on to write into what has become the
metadata file. A write over another command's may leave the rest of the longer
text standing (`Mixed`). `writeln!` on a file is two writes, `AppendLine` and
`AppendNewline`. `clash` and `cut` are histories that say when two commands
used a file at once and when a kill left one half written.

### FingerprintCapture and the code

A unit of `todo` is a collector, or one disk or kernel file it goes through;
what a unit does touches nothing of the others but the repository, so it is one
action, and the units run in any order. Every place where the code may meet an
error, or take a default, is a probe; the environment chooses which fail, and
the action adds the items the code still obtains and the warning it leaves.
`Persist` is `put_*_bytes` with the write and the reference failing separately;
a blob already stored is stored again.

`Quiet` lists, item by item, the probes whose failure leaves no warning:

| item | probes passed over in silence |
|---|---|
| every part of the host (`HostPart`) | `blank`: `unwrap_or_default` and its like, with `/proc/sys/kernel/*`, `/proc/cmdline`, a `meminfo` without `MemTotal`, `fstab`, `crypttab`, the unit list (`system.rs:203`, `368-641`) |
| a disk | `node`: its entry in `/sys/block` cannot be read or it has no node in `/dev`; `sysfs`: an attribute; `read`: the first sector; `row`: a row of the table does not parse (`disk_layout.rs:246-345`) |
| network | `attr`: an interface or an attribute of it; `json`; `file` (`network.rs:182-311`) |
| packages | `line`, `repositories`, `keyrings` |
| boot loader | `unmounted` (`/boot/efi` is archived whatever is mounted there), `mounts`, `efivars`, `short` (a boot code of fewer than 446 bytes), `grub`, `dir` and `entry` (files of `/boot`) |
| users, SSH keys | `gshadow`; `skip`: a key without metadata, not a regular file, or over 256 KiB (`secrets.rs:69`) |
| LVM, arrays | `dir`, `field` (a field that a tool does not print); `mdstat`, `conf`, `dev`, `md_node` |

`Unfilled` are five fields that the fingerprint declares and no collector ever
fills: UUID and label of a file system, the addresses of an interface, the
origin of a package, the UUID of the ESP, the GUIDs of a partition. `Accounted`
says that what a saved fingerprint lacks has a warning of its component, a
quiet probe of its own that failed, or is one of these. It does not say that
the code warns of what the two lists hold.

## 3. Runs

| run | question | result |
|---|---|---|
| `repo_prune` | two overlapping writers, two prunes that run alone and to their end | all invariants, the rules of deletion and the refinement hold, and dropped snapshots disappear |
| `repo_prune_crash` | two overlapping writers; prunes that run between them may end at any step, deletes may fail | what could be restored and was not dropped stays restorable |
| `repo_retention` | three writers and a prune, in turn, each ended at any step, under a retention lock, with a file chunk that is also a fingerprint blob | every listed snapshot is whole |
| `quiesce` | two hooks, two backups, failures, kills, changing services | quiesced where needed, thawed, nothing left, each post hook once, the backup ends |
| `tree` | a backup and two restores of a tree with two directories and two files, short reads, a write to the source, errors, kills, a damaged chunk file | rows and tree are what was read; the destination holds nothing else; both end |
| `block` | every device of four blocks, a write or a hole meanwhile, two restores to files and devices of several sizes | the manifest is faithful and accepted; the image is made |
| `jobs` | two agents, a cron template and one that cannot be parsed, a lost reply or a crash anywhere | a job is begun once, its row tells how it ended, a due time gives one job, what is handed out or due is served |
| `agents` | an agent beside the server's repository and one elsewhere run three jobs, with failing stores, a lost reply or a crash | what is linked is stored, a restore reports success for the whole only, every job ends |
| `files` | two processes rotate, finalize and remove, killed between any two system calls | the three files keep what they promise, except in the moments the properties name |
| `capture` | hosts with every kind of disk and firmware, two failing probes anywhere | what the fingerprint lacks is accounted for, what it names is in the repository |
| `bug_prune_crash` | prune cut short, then a backup | violated: the new snapshot lacks a chunk |
| `bug_pre_failure` | the second of two pre hooks fails | violated: the first application stays frozen |

Bounds. Repository: three hashes are enough to have a chunk two snapshots
share, a chunk only one of them has, and a blob. Two writers and two prunes
are what every violation takes; the run under a retention lock has three
writers, so that one finds what two others left half written. `MaxSeconds`
bounds the snapshot ids; it equals the number of writers, so that every
pattern of equal and different seconds occurs. Commands run once; more
commands are more elements of the set. `repo_prune` uses no symmetry, because
it checks liveness; the other repository runs use symmetry over commands,
which no property tells apart.

Quiesce: two hooks show a failure after a success, two runs what one leaves
for the next, one change of a service the difference between the two
computations of the applicable hooks.

Tree: two directories, one in the other, have an entry before and after the
inner one, in both orders; a file of three bytes read in pieces of one or two
takes two or three reads, so with a window of two the pipeline fills, drains
and ends with several chunks in flight; the same chunk occurs twice in a file
and in both; one chunk is stored by an earlier backup. One edit, one damaged
chunk (garbled, or replaced by another) and two restores meet in every order.
Either file `g` is read-only, which stops an unprivileged repetition, or the
upper directory is, which stops an unprivileged restore at its first entry
(`FailsForCause`).

Block: four blocks with extents of at most three, pieces of at most two: there
are runs that are split unevenly, two runs with a hole between them, and
pieces of two extents in flight together. Targets are smaller than, as large
as, and larger than the device.

Jobs: with one unit of time as cron period and as the limit of 24 hours, the
clock passes one due time and one time-out. Two identifiers for inserted rows
are what it takes to insert twice for one due time; two agents race for a
row; one fault anywhere is a lost reply, a dead agent or a dead server.

Agents: two chunks and files of one and two chunks give a chunk that is asked
for and one that is there, and a prune that takes one of two; two agents with
different keys, one of them in the server's directory, meet on a chunk in
every way; three jobs are a backup, what undoes it, and what reads the result.
Three attempts are those of the code.

Files: two processes and three commands are two that overlap and one that
finds what they have left; four file identities are the two names and one open
file each. Symmetry over processes and snapshots, which no property tells
apart.

Capture: a disk has a table of either kind or none, a volume group, an array,
two kernel files with the same content and two host keys. Any two probes fail
together, three where LVM alone is asked for, whose section is dropped only
when all three of its reports fail. The optional collectors are asked for in
five sets (none; network and packages; boot loader and SSH keys; users and
arrays; LVM), since they share nothing but the repository.

`CHECK_DEADLOCK FALSE` is set because commands end and the set of them is
finite: the system stops when all are done.

Fairness. A command that has started keeps taking steps (weak fairness of its
next step), which is what the operating system and the async runtime do with a
task that is not blocked; a worker given a chunk finishes, since hashing and
encrypting wait for nothing. In `quiesce` this includes hook commands, except
those the run says may hang (none: the code has no timeout). Nothing makes the
operator start a command, and nothing excludes a failure. In `jobs` the
scheduler thread and the agents' loops are infinite loops that sleep for a
bounded time, so their steps, the clock and the restart of the server (by its
supervisor) are fair; nothing requires an agent that died to come back. In
`agents` only the step of a job at hand is fair, not the restart of the
server: a job must end also when the server stays down. `files`, `capture`
and the repository runs with faults check safety only.

### Disagreements without a run of their own

Met while modelling. Those with a constant, an action or a history variable
named show when it is changed or taken out of the property; the others are
outside the models.

In the repository:

* A backup cut short between `create_snapshot` and `add_references_batch`
  (`backup.rs:444`, `456`) is listed without references; a later prune deletes
  the chunks it shares with a dropped snapshot (`Faults` with `"writer"` in
  `repo_prune`).
* A prune beside a backup removes chunks the backup has just linked
  (`Overlap`); the repository has no lock (`prune.rs:84`).
* A fingerprint blob with the hash of a file chunk replaces it in a form
  `restore` cannot read (`persist.rs:147`), and a prune of the one deletes the
  file of the other (`prune.rs:85`; `FileContents`, `FpContents`).
* Restoring a sparse image to a used device leaves the device's old data in
  its holes (`restore.rs:399`; `Candidates`).
* Symbolic links are followed although the comment at `backup.rs:1130` says
  they are skipped.
* `repo.key` is truncated and then written (`key_manager.rs:320`), where
  `README.md:28` speaks of "write, fsync, rename"; a kill in between leaves
  nothing that opens the repository (`cut` in `KeyOpens`).
* The metadata file is rewritten through one temporary name without a lock, so
  two commands lose an update, publish an empty file, or fail
  (`metadata.rs:117`; `clash` in `SidecarKeeps`).
* `history.rs` speaks of appending atomically, but a line and its end are two
  writes (`cut` in `LogVerifies`), and two records at the same time fork the
  chain so that `verify` reports tampering (`clash`).
* `remove_snapshot` of the snapshot manager leaves the catalog's row; no
  command calls it, nor the history log.

Around a backup:

* A service probe that fails when post hooks are computed leaves its
  application frozen without a warning (`hooks.rs:184`, `ProbeFails`).
* `timeout_secs` of a hook is never applied (`hooks.rs:207`, `Hangs`).
* The teardown of an OS snapshot marks itself done before it is tried
  (`lvm.rs:178`).
* The addresses of an interface are declared as "populated below via
  `ip -j addr`" (`network.rs:222`); nothing populates them and nothing warns.
  The same goes for the other four of `Unfilled`, without such a comment.
* `bootloader.rs:47-49` says of the boot code that "`len() == 446` is enforced
  at capture time"; a shorter read is accepted in silence (`bootloader.rs:354`;
  `short`).
* `disk_layout.rs:359-361` calls a missing `sgdisk` "a hard error", since
  silently missing partition tables are worse; it is a warning (`backup`), and
  a disk without a node in `/dev` (`disk_layout.rs:258`; `node`) or whose first
  sector cannot be read (`disk_layout.rs:313`; `read`) is passed over in
  silence.
* Only the first `SecureBoot-*` variable is looked at; the numbering of
  `parse_sfdisk_dump` counts lines, not partitions; `hostname -f` runs without
  the timeout the other tools have (`system.rs:348`).

On the server and the agents:

* `jobs.agent_id` refers to `agents`, which nothing in the source writes: with
  foreign keys enforced an agent the operator did not enter gets no job
  (`Listed`).
* One row that cannot be parsed blocks the poll of every agent and ends the
  cron loop (`unreadable`).
* A job whose assignment or agent was lost stays Assigned for ever: the agent
  never calls `StartJob`, and the sweep looks at InProgress (`stranded`).
* A lost reply to the report of success turns a Completed row into a Failed
  one (`unsure`); a late completion replaces a time-out.
* A crash, or a commit of another connection, between the insert of a cron job
  and the update of `next_run` gives a second job (`cut` in `CronOnce`).
* The snapshot of a block device is restored by an agent as an empty file,
  with success (`BeginRestore`).
* A backup job of a directory skips its subdirectories and succeeds
  (`main.rs:293`).
* A chunk the server has and the agent's catalog has no row of makes every
  later backup of its file fail (`AddFileChunk`).
* `success: false` of an upload is ignored (`StoreFails`); uploads of two
  agents under different keys replace each other, after which one of them
  cannot restore (`KeyOf`).
* A prune job takes a reference count that the database fails to give for zero
  (`main.rs:602`; `unread` in `BeginPrune`), where the command line's prune
  ends with an error.
* A backup job creates no snapshot, so a later prune of the same repository
  takes its chunks; elsewhere prune warns of every chunk and verify fails,
  because they look for the server's chunks in the agent's directory.

## 4. Proofs

Each module of proofs is about the specification of its component with every
value of its constants the assumptions named there allow. The hypotheses of a
theorem, where it has any, are conditions on the constants.

`RepositoryProofs`, for any sets of commands, chunks and sources. The theorems
about plain repositories form four rings, from weak conditions to strong ones:

* With no condition at all: `TypeCorrect`.
* Under `PrunesApart` (no command beside a prune, no backup cut short in a
  repository that is pruned, no file that is also a blob), with prunes cut
  short anywhere and deletes that fail: `AlwaysStaysRestorable`,
  `AlwaysDeletesUnused`, `AlwaysLoadable` and `AlwaysDeletesAtZero`. A prune,
  however it ends, takes nothing from a snapshot it keeps.
* Under `Isolated` (`PrunesApart`, and no prune is cut short):
  `AlwaysRestorable` and `AlwaysImplementsStore`. Every snapshot is whole, those
  made after a prune included; `bug_prune_crash` shows why a prune that was cut
  short spoils the next one.
* Under `Isolated` where no command ends early: `NothingEverLeaks` and
  `AlwaysReclaims`, which are about space.

None of these properties is inductive. `Spared`, behind the second ring, says
that what a prune holds in memory agrees with the catalog as long as it runs:
what it keeps are the listed snapshots it has not chosen to drop, what it is
about to delete no kept snapshot links, and what it has freed has no reference
(`InStep`). The half of a prune that goes by references spares the chunks of
kept snapshots because these have references for all their files
(`KeptReferenced`). `Held` adds what the references themselves say: a sidecar
entry names blobs that are stored raw and referenced, and a reference to a file
chunk is one of a listed snapshot that links it. `Consistent`, behind the third
ring, says that catalog and files agree: a link has a row, a row has a file
(`LinksHaveRows`), a kept snapshot links all of its files (`KeptComplete`). It
is lost when a prune is cut short between a deleted file and its row. `Tidy`
says that every file is known to the catalog, to the reference table or to a
command that has it at hand, and that a prune's list misses nothing.

A retention lock makes up for nearly all of this. Under `Immutable` (every
chunk file is locked when it is written, and no file is a blob or commands run
one at a time) `LockedStaysRestorable` holds with any overlap, also of backups
and prunes, with any command cut short anywhere, and for the snapshots a prune
is dropping as well; `LockedImplementsStore` says the same of the refinement.
The invariant `Sealed` rests on the order of `handle_processed_chunk`: a file
is locked before the catalog learns of it, so what a prune finds in the catalog
it cannot delete (`PrunersPowerless`), and what it frees by references are
blobs or locked (`RefsLocked`). The price is that the dropped chunks stay. As
everywhere, a `put` is one step here: it fills a temporary file of its own,
whose name ends in random characters (`local.rs:110`), and renames it.
`repo_retention` checks the case of commands
one at a time that share a hash.

For the refinement, `Saved` maps a state to the snapshots that are kept and
their sources. `StepMaps` shows that every step is a save, a drop or a stutter
of `SnapshotStore` as long as kept snapshots are whole, which is all it takes
from `Consistent` or `Sealed`; that prunes, even two at once, only take from
what is kept is `PruneOnlyDrops`.

`QuiesceProofs`, for any hooks and snapshotters: `TypeCorrect`,
`AlwaysReadsQuiesced` and `AlwaysSnapshotsQuiesced`, which together are
`AlwaysSteadySource`, `AlwaysHooksInOrder` and `NothingLeft`; with probes that
answer (`~ ProbeFails`), `AlwaysThawed`. The invariant says for every place of
a run which hooks have run, whether the guard still owes post hooks, and which
parts of a snapshot exist.

`TreeProofs`, for every finite or infinite tree, every content, every split
into reads and every order of the workers, with writes to the source and
failures: `TypeCorrect`, `RowsAreInOrder`, `FilesAreComplete`,
`DirectoriesAreWhole`, `ReferencesMatchRows`, which together are
`BackupIsFaithful`, and `MemoryIsBounded`. None is
inductive. `OnPath` says where the walk is: the stack starts at the root, has
no directory twice, each is a child of the one below that is still to be
ticked off, and whatever has a row and is not linked is on that path. From it
follows that a node is visited once, so that its reads start empty, and that
the file being read is not linked yet. `Accounted` says that the numbers of
the current file's rows and of the chunks in flight are together those of the
reads.

The second half of `TreeProofs` is about restore, however often it is killed
and repeated and whichever chunk files are damaged: `RestoreKeepsTypes`, and,
if no two names come out the same (`FaithfulNames`), `RestoreIsFaithful` and
`RestoreFailsForCause`. The condition is that of the code, which passes stored
names through `to_string_lossy`; names in UTF-8 meet it.
`OnRestorePath` is the stack again. `RestoreInvariant` says that what stands at
the place of a node is nothing or what the backup read there, a file perhaps
up to the chunk to be written next (`AtPlace`), that what the walk has left
behind is finished (`Progress`), and that the reads a file is rebuilt from are
those of its source while nobody writes to that (`ReadsSource`). That everything below the root is reached, so that success means
the whole tree, needs `RootedAssumption`: only the whole set of nodes contains
the root and the children of its members. That a file is its chunks one after
the other is an induction over their number, made through the set of the
numbers for which it holds.

`BlockProofs`, for any device, extents, pieces, window and order of the
workers: `TypeCorrect`, `ManifestIsSound`, `ImageIsSound`. `BlockInvariant`
says that the extents lie on the device in order and cover what was found
(`ExtentsSound`), that those begun have a row and are in the image (`Begun`),
that every piece, in flight or recorded, holds the image at its place
(`InPlace`), that no piece scheduled is lost (`Complete`), that without a
write what was read is what is there (`Steady`), and what of the target is
still to be written (`Restoring`). The layout check of restore wants the
indices and offsets of an extent's rows in one sequence: `InOrder` is shown to
be the one ascending order there is, and consecutive indices with lengths of
whole pieces, but for the last, to give the offsets the check computes. The
runs of `used_extents` are followed from one seek to the next and split.

`CaptureProofs`, for any host, optional collectors and failures, without a
condition: `TypeCorrect`, `EverythingIsAccountedFor`, `WhatIsNamedIsHeld`. An
item is covered (captured, warned of, lost by a quiet probe, or never filled)
or one of the collectors that may still capture it is to come (`Owed`); a kernel's files are
only asked for by the boot loader's collector (`Asked`); and what the
fingerprint names at any time is stored and referenced (`Named`), because a
blob that is shared is never taken back.

`JobProofs`, for any agents, templates, periods, bounds and faults:
`TypeCorrect`, `AlwaysAtMostOnce`, `AlwaysRowTellsOutcome`, `AlwaysCronOnce`.
That a job is begun once needs `Queued` (one queue at most has it, and it was
not begun), `Fresh` (nor was one nobody was given) and `Exclusive` (one agent
at most has it at hand); what its row says needs `AtWork` and `Reports`: while
an agent works the row has not ended but by a time-out, and what it is about
to report is how the work ended. `CronInv` compares the due time of every
inserted row with the next one of its template, for which `NextDueLater` says
that the next due time lies in the future.

`FilesProofs`, for any processes, snapshots, passwords and number of commands:
`TypeCorrect`, `AlwaysKeyOpens`, `AlwaysSidecarKeeps`, `AlwaysLogVerifies`.
`FreeIsFree` counts: with two file identities more than processes there is
always one nobody uses. Each file has an invariant of its own, which holds as
long as its `clash` (and `cut`) is empty: one process at a time is at the
steps that rely on what it read (`KeyInv`, `SideInv`, `LogInv`), and what it
has in memory is still what the file says. `HasLast` says that the `CHOOSE` of
the last entry has something to choose, and `AppendKeeps` what an append
leaves as it was.

`AgentProofs`, for any agents, repositories, files, attempts and faults:
`TypeCorrect`, `AlwaysLinkedStored`, `AlwaysRestoreExact`. A backup job uses an
old answer of the server; `JobGood` says what is left of it: a chunk that it
does not upload was there when it asked, and from then on its blob is there or
is among those lost for a cause. Between the two deletes of a prune job the
chunk has no link, and no other job of that agent can make one. A restore job
has written exactly what stands before its place.

Only model-checked: liveness, which is out of the prover's reach, `Ends` of the
hooks, `CommandsEnd` of the tree and of the device, `NothingForgotten`,
`JobsReturn`, and of `PruneKeepsPromises` the part that what is dropped
disappears (`DroppedDisappear`); its other two parts are `AlwaysDeletesAtZero`
and `AlwaysReclaims`.

## 5. Plan

Order of work, most important first.

1. `Repository` and its proofs (done).
2. `QuiesceHooks` and its proofs (done).
3. `TreeBackup`, `TreeRestore`, `BlockImage` with their proofs (done).
4. `JobControl` and `AgentStore` with their proofs (done).
5. `RepositoryFiles` and its proofs (done; the steps inside `LocalStorage::put`
   need no module: its temporary name is random and shared by nobody).
6. `FingerprintCapture` and its proofs (done).
7. Retention arithmetic (`keep_days * 86400`), the block tracker, the Merkle
   tree, content-defined chunking: pure algorithms against a reference
   definition.
8. `KeptStaysRestorable` and the rules of deletion with prunes cut short;
   fingerprints and the reference table; restore (proofs done).
9. An abstract specification of a backup and its restores as one atomic copy,
   implemented by `TreeRestore`, and the proof of that.

## 6. Not modelled

* Pure algorithms without shared state: fixed-size and content-defined
  chunking, the Merkle tree, retention arithmetic, the ciphers and key
  derivation, compression, the block tracker, ransomware statistics.
* Remote storage backends, the vault, the fixed-size chunker and most of the
  snapshot manager, which no command uses.
* The recovery environment, a user interface around stubs; listing, argument
  handling and printing; generated protocol code; what captures on systems
  other than Linux, which do nothing.
* Of an agent: the loop of a backup job over the files of a directory (each is
  like the one modelled, and the first failure ends the job), the recursion of
  a restore job over directories, the ransomware check before a backup, the
  heartbeat, the list of connected agents. Of the
  walk: symbolic links, names that come out the same (`Place` is a parameter, and
  the run gives every node its own), the set-user-ID bits `chown`
  clears after `chmod` (`restore.rs:655`).
* Of the repository: a clock that is set back (ids and timestamps are then in
  different orders, and an id can be given twice); the moment between the two
  DELETEs of `delete_file_chunks_by_hash` (`index.rs:505`); the moment between
  `delete_snapshot` and the deletion of the sidecar entry, and a failure of the
  latter, which is ignored (`prune.rs:198`): the entry left behind names an id
  without a row and is read again only if that id is given out within its
  second.
* The temporary file that a crash inside `LocalStorage::put` leaves behind, which
  no command reads or deletes.
* Power loss: a rename or a write that returned is taken to last.
