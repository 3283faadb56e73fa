---------------------------- MODULE RepositoryFiles ----------------------------
(***************************************************************************)
(* The three files of a repository that are neither chunks nor catalog:    *)
(* repo.key, which is written in place; snapshot_metadata.json, which is   *)
(* rewritten as a whole through one temporary file; and history.log, to    *)
(* which lines are appended, each chained to the one before.               *)
(*                                                                         *)
(* Commands run beside each other, no lock keeps them apart, and each may  *)
(* be killed between two system calls.  A write through an open file goes  *)
(* to the file that was opened, whatever its name is by then, so files     *)
(* behind the names of the metadata file have identities of their own.     *)
(***************************************************************************)
EXTENDS Naturals, Sequences, FiniteSets

CONSTANTS
    Proc, Snapshot, Password,
    First,        \* the password of init
    Ino,          \* identities of files; two names and one per process
    MaxCommands,  \* bound on the commands started
    Empty, Mixed, \* contents that do not parse: nothing yet, parts of two
    NL,           \* the end of a line of the log
    None

Broken == {Empty, Mixed}
Command == [op : {"rotate"}, old : Password, new : Password]
             \cup [op : {"finalize", "remove"}, id : Snapshot]
NoCommand == [op |-> "none"]
Entry == [signature : Nat \ {0}, prev : Nat, command : Command]

ASSUME FilesAssumption ==
    /\ First \in Password /\ MaxCommands \in Nat
    /\ IsFiniteSet(Proc) /\ IsFiniteSet(Ino) /\ Cardinality(Ino) >= Cardinality(Proc) + 2
    /\ None \notin Ino /\ NL \notin Entry
    /\ Broken \cap Password = {} /\ \A ids \in SUBSET Snapshot : ids \notin Broken

VARIABLES
    key,          \* repo.key: the password it opens with, or Empty, Mixed
    side, tmp,    \* files behind snapshot_metadata.json and .tmp
    content,      \* ids in a file, or Empty, Mixed
    log,          \* history.log: entries and line ends, in order
    refs          \* snapshots with rows in ChunkRefs
repo == <<key, side, tmp, content, log, refs>>

VARIABLES
    pc, cmd,      \* step and command of a process
    mem,          \* what the process read: ids, or a signature
    fd            \* the file it has open
procs == <<pc, cmd, mem, fd>>

VARIABLES
    count,        \* commands started
    known,        \* the password of init or of the last rotation that returned
    recorded,     \* snapshots whose entry was put by a call that returned
    removed,      \* snapshots whose entry was deleted by a call that returned
    clash,        \* history: files two commands used at the same time
    cut           \* history: files a kill left half written
history == <<count, known, recorded, removed, clash, cut>>

vars == <<repo, procs, history>>

Init ==
    /\ key = First /\ side = None /\ tmp = None
    /\ content = [i \in Ino |-> {}] /\ log = <<>> /\ refs = {}
    /\ pc = [p \in Proc |-> "idle"] /\ cmd = [p \in Proc |-> NoCommand]
    /\ mem = [p \in Proc |-> None] /\ fd = [p \in Proc |-> None]
    /\ count = 0 /\ known = First /\ recorded = {} /\ removed = {}
    /\ clash = {} /\ cut = {}

Go(p, step) == pc' = [pc EXCEPT ![p] = step]
Learn(p, v) == mem' = [mem EXCEPT ![p] = v]
Leave(p) ==
    /\ Go(p, "idle") /\ Learn(p, None)
    /\ cmd' = [cmd EXCEPT ![p] = NoCommand] /\ fd' = [fd EXCEPT ![p] = None]
Fail(p) == Leave(p) /\ UNCHANGED <<repo, history>>

(* The steps at which a process relies on what it read of a file. *)
Using(f) == CASE f = "key"  -> {"truncate", "write"}
              [] f = "side" -> {"create", "fill", "rename"}
              [] f = "log"  -> {"line", "newline"}
Clash(p, f) ==
    clash' = clash \cup {g \in {f} : \E q \in Proc \ {p} : pc[q] \in Using(g)}

Begin(p, c) ==
    /\ pc[p] = "idle" /\ count < MaxCommands
    /\ count' = count + 1
    /\ cmd' = [cmd EXCEPT ![p] = c]
    /\ Go(p, "open")
    /\ UNCHANGED <<repo, mem, fd, known, recorded, removed, clash, cut>>

-----------------------------------------------------------------------------
(* open_repository: load the envelope and unlock the keys in it, which no  *)
(* rotation changes.  Whoever finalizes or removes gives a password that   *)
(* opens it; whoever rotates may be mistaken.                              *)
Unlocks(c) == key \notin Broken /\ (c.op = "rotate" => key = c.old)

OpenKey(p) ==
    /\ pc[p] = "open" /\ Unlocks(cmd[p])
    /\ IF cmd[p].op = "rotate" THEN Go(p, "truncate") /\ Clash(p, "key")
       ELSE Go(p, "refs") /\ UNCHANGED clash
    /\ UNCHANGED <<repo, cmd, mem, fd, count, known, recorded, removed, cut>>

OpenKeyFails(p) == pc[p] = "open" /\ ~Unlocks(cmd[p]) /\ Fail(p)

(* rotate_master_key: seal the keys under the new password and fs::write   *)
(* the result, which truncates before it writes.                           *)
TruncateKey(p) ==
    /\ pc[p] = "truncate"
    /\ key' = Empty /\ Go(p, "write")
    /\ UNCHANGED <<side, tmp, content, log, refs, cmd, mem, fd, history>>

WriteKeyOfOld(p) ==
    /\ pc[p] = "write"
    /\ key' \in (IF key = Empty THEN {cmd[p].old} ELSE {cmd[p].old, Mixed})
    /\ known' = cmd[p].new
    /\ Leave(p)
    /\ UNCHANGED <<side, tmp, content, log, refs, count, recorded, removed, clash, cut>>

(* The envelope is text of varying length: written over another one it may *)
(* leave the end of that standing.                                         *)
WriteKey(p) ==
    /\ pc[p] = "write"
    /\ key' \in (IF key = Empty THEN {cmd[p].new} ELSE {cmd[p].new, Mixed})
    /\ known' = cmd[p].new
    /\ Leave(p)
    /\ UNCHANGED <<side, tmp, content, log, refs, count, recorded, removed, clash, cut>>

-----------------------------------------------------------------------------
(* SnapshotManager::finalize_snapshot adds the references, puts the entry  *)
(* and records the line, in this order; remove_snapshot likewise.          *)
ChangeRefs(p) ==
    /\ pc[p] = "refs"
    /\ refs' = IF cmd[p].op = "finalize" THEN refs \cup {cmd[p].id} ELSE refs \ {cmd[p].id}
    /\ Go(p, "load")
    /\ UNCHANGED <<key, side, tmp, content, log, cmd, mem, fd, history>>

(* MetadataStore::put and delete: load, change, fs::write, rename.         *)
Load(p) ==
    /\ pc[p] = "load"
    /\ side # None => content[side] \notin Broken
    /\ LET old == IF side = None THEN {} ELSE content[side]
       IN Learn(p, IF cmd[p].op = "finalize" THEN old \cup {cmd[p].id} ELSE old \ {cmd[p].id})
    /\ Go(p, "create") /\ Clash(p, "side")
    /\ UNCHANGED <<repo, cmd, fd, count, known, recorded, removed, cut>>

LoadFails(p) ==
    pc[p] = "load" /\ side # None /\ content[side] \in Broken /\ Fail(p)

Free == CHOOSE i \in Ino : i \notin {side, tmp} \cup {fd[p] : p \in Proc}
CreateTmpInPlace(p) ==
    /\ pc[p] = "create"
    /\ tmp' = IF side = None THEN Free ELSE side
    /\ content' = [content EXCEPT ![tmp'] = Empty]
    /\ fd' = [fd EXCEPT ![p] = tmp']
    /\ Go(p, "fill")
    /\ UNCHANGED <<key, side, log, refs, cmd, mem, history>>

CreateTmp(p) ==
    /\ pc[p] = "create"
    /\ tmp' = IF tmp = None THEN Free ELSE tmp
    /\ content' = [content EXCEPT ![tmp'] = Empty]
    /\ fd' = [fd EXCEPT ![p] = tmp']
    /\ Go(p, "fill")
    /\ UNCHANGED <<key, side, log, refs, cmd, mem, history>>

FillTmpLeftOpen(p) ==
    /\ pc[p] = "fill"
    /\ \E v \in (IF content[fd[p]] = Empty THEN {mem[p]} ELSE {mem[p], Mixed}) :
         content' = [content EXCEPT ![fd[p]] = v]
    /\ Go(p, "rename")
    /\ UNCHANGED <<key, side, tmp, log, refs, cmd, mem, fd, history>>

FillTmp(p) ==
    /\ pc[p] = "fill"
    /\ \E v \in (IF content[fd[p]] = Empty THEN {mem[p]} ELSE {mem[p], Mixed}) :
         content' = [content EXCEPT ![fd[p]] = v]
    /\ fd' = [fd EXCEPT ![p] = None]
    /\ Go(p, "rename")
    /\ UNCHANGED <<key, side, tmp, log, refs, cmd, mem, history>>

(* The rename takes whatever bears the name by now. *)
Rename(p) ==
    /\ pc[p] = "rename" /\ tmp # None
    /\ side' = tmp /\ tmp' = None
    /\ LET s == cmd[p].id
       IN IF cmd[p].op = "finalize"
          THEN recorded' = recorded \cup {s} /\ removed' = removed \ {s}
          ELSE removed' = removed \cup {s} /\ recorded' = recorded \ {s}
    /\ Go(p, "last")
    /\ UNCHANGED <<key, content, log, refs, cmd, mem, fd, count, known, clash, cut>>

RenameFails(p) == pc[p] = "rename" /\ tmp = None /\ Fail(p)

-----------------------------------------------------------------------------
(* The lines of the log, each the entries that stand on it: an entry that  *)
(* shares its line does not parse.                                         *)
Entries == {i \in DOMAIN log : log[i] # NL}
Readable == \A i \in Entries : i < Len(log) => log[i + 1] = NL
EntriesBefore(n) == {i \in Entries : i < n}
SignatureBefore(n) ==
    IF EntriesBefore(n) = {} THEN 0
    ELSE log[CHOOSE i \in EntriesBefore(n) : \A j \in EntriesBefore(n) : j <= i].signature
LastSignatureOfFirst == SignatureBefore(2)
LastSignature == SignatureBefore(Len(log) + 1)

(* History::record: read the last signature, then writeln!, which is one   *)
(* write for the line and one for its end, and sync.                       *)
ReadLast(p) ==
    /\ pc[p] = "last" /\ Readable
    /\ Learn(p, LastSignature)
    /\ Go(p, "line") /\ Clash(p, "log")
    /\ UNCHANGED <<repo, cmd, fd, count, known, recorded, removed, cut>>

ReadLastFails(p) == pc[p] = "last" /\ ~Readable /\ Fail(p)

AppendLine(p) ==
    /\ pc[p] = "line"
    /\ log' = Append(log, [signature |-> Len(log) + 1, prev |-> mem[p], command |-> cmd[p]])
    /\ Go(p, "newline")
    /\ UNCHANGED <<key, side, tmp, content, refs, cmd, mem, fd, history>>

AppendNewline(p) ==
    /\ pc[p] = "newline"
    /\ log' = Append(log, NL)
    /\ Leave(p)
    /\ UNCHANGED <<key, side, tmp, content, refs, history>>

(* A kill takes the open file with it. *)
Kill(p) ==
    /\ pc[p] # "idle"
    /\ Leave(p)
    /\ cut' = cut \cup (IF pc[p] = "write" THEN {"key"} ELSE
                        IF pc[p] = "newline" THEN {"log"} ELSE {})
    /\ UNCHANGED <<repo, count, known, recorded, removed, clash>>

Next == \E p \in Proc :
    \/ \E c \in Command : Begin(p, c)
    \/ OpenKey(p) \/ OpenKeyFails(p) \/ TruncateKey(p) \/ WriteKey(p)
    \/ ChangeRefs(p) \/ Load(p) \/ LoadFails(p) \/ CreateTmp(p) \/ FillTmp(p)
    \/ Rename(p) \/ RenameFails(p)
    \/ ReadLast(p) \/ ReadLastFails(p) \/ AppendLine(p) \/ AppendNewline(p)
    \/ Kill(p)
Spec == Init /\ [][Next]_vars

-----------------------------------------------------------------------------
(* Every variable keeps its type; no more than two names and one file per  *)
(* process are ever in use.                                                *)
TypeOK ==
    /\ key \in Password \cup Broken
    /\ side \in Ino \cup {None} /\ tmp \in Ino \cup {None}
    /\ content \in [Ino -> Broken \cup SUBSET Snapshot]
    /\ log \in Seq(Entry \cup {NL})
    /\ refs \subseteq Snapshot
    /\ cmd \in [Proc -> Command \cup {NoCommand}]
    /\ pc \in [Proc -> {"idle", "open", "refs", "load", "last"}
                          \cup UNION {Using(f) : f \in {"key", "side", "log"}}]
    /\ fd \in [Proc -> Ino \cup {None}]
    /\ \A p \in Proc : pc[p] = "fill" <=> fd[p] # None
    /\ count \in 0..MaxCommands /\ known \in Password
    /\ recorded \subseteq Snapshot /\ removed \subseteq Snapshot
    /\ clash \subseteq {"key", "side", "log"} /\ cut \subseteq {"key", "log"}

(* The repository opens with the password of the last rotation that ended  *)
(* and with no other, except while repo.key is being written: unless a     *)
(* kill fell into that moment, or two rotations met.                       *)
KeyOpens ==
    {"key"} \cap (clash \cup cut) = {} /\ (\A p \in Proc : pc[p] # "write") => key = known

(* As long as no two commands rewrote the metadata file at the same time,  *)
(* it holds every entry that was put and none that was deleted, at every   *)
(* moment, whatever kills have left in the temporary file.                 *)
SidecarKeeps ==
    LET Ids == IF side = None THEN {} ELSE content[side]
    IN "side" \notin clash =>
         /\ Ids \notin Broken
         /\ recorded \subseteq Ids /\ removed \cap Ids = {}

(* History::verify is clean: every line parses and is chained to the one   *)
(* before it, unless two commands recorded at the same time or a kill fell *)
(* between a line and its end.                                             *)
LogVerifies ==
    {"log"} \cap (clash \cup cut) = {} =>
        /\ Readable
        /\ \A i \in Entries : log[i].prev = SignatureBefore(i)
================================================================================
