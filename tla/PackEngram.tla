----------------------------- MODULE PackEngram -----------------------------
(***************************************************************************)
(* The repack step: scripts/pack_engram.py writes a rank's owned rows of   *)
(* one layer to engram-*.partial, syncs it and renames it to engram-*.bin; *)
(* row_store_attach_packed checks and serves that file.  Packs are re-run  *)
(* by hand ("start.sh pack") after short writes, kills and power losses,   *)
(* and the containers that run them are not named, so two may overlap.     *)
(*                                                                         *)
(* A file is an inode: unit 0 is the header, unit k the k-th owned row.    *)
(***************************************************************************)
EXTENDS Integers, FiniteSets

CONSTANTS
    Packers,     \* runs of pack_engram.py that may overlap
    Rows,        \* owned rows of the layer
    ChunkRows,   \* --chunk-rows
    Inodes,      \* bound: files a behaviour creates
    MaxFaults,   \* bound: short writes, errors, kills and power losses
    None

ASSUME PackAssumption ==
    /\ Rows \in Nat \ {0}
    /\ ChunkRows \in Nat \ {0}
    /\ MaxFaults \in Nat
    /\ None \notin Inodes \cup Nat

VARIABLES
    partial, target,  \* what the two names refer to
    disk,             \* the names a power loss may bring back
    file,             \* per inode: units, length and whether it is synced
    pc, fd,           \* per packer: place in pack_layer, open file,
    off, next,        \*   file offset and next row to copy
    served,           \* inode the row store reads from
    aborted,          \* the row store refused a shard
    faults

names == <<partial, target>>
vars  == <<names, disk, file, pc, fd, off, next, served, aborted, faults>>

Units    == 0..Rows
expected == Rows + 1
Empty    == [data |-> [u \in Units |-> None], len |-> 0, synced |-> FALSE]

Init ==
    /\ partial = None /\ target = None /\ disk = <<None, None>>
    /\ file = [i \in Inodes |-> Empty]
    /\ pc = [p \in Packers |-> "idle"]
    /\ fd = [p \in Packers |-> None]
    /\ off = [p \in Packers |-> 0]
    /\ next = [p \in Packers |-> 1]
    /\ served = None /\ aborted = FALSE /\ faults = 0

Goto(p, from, to) == pc[p] = from /\ pc' = [pc EXCEPT ![p] = to]

Fault == faults < MaxFaults /\ faults' = faults + 1

----------------------------------------------------------------------------
(* pack_layer *)


\* A target of the expected size is taken as complete.
AlreadyComplete == target # None /\ file[target].len = expected

Start(p) ==
    /\ pc[p] \in {"idle", "ok", "failed"}
    /\ pc' = [pc EXCEPT ![p] = IF AlreadyComplete THEN "ok" ELSE "open"]
    /\ UNCHANGED <<names, disk, file, fd, off, next, served, aborted, faults>>

\* open(partial, 'wb'): a new file, or the old one truncated.
OpenPartial(p) ==
    /\ Goto(p, "open", "header")
    /\ \E i \in Inodes :
         /\ IF partial # None THEN i = partial
            ELSE /\ file[i] = Empty /\ i \notin {disk[1], disk[2], target}
                 /\ \A q \in Packers : fd[q] # i
         /\ partial' = i
         /\ file' = [file EXCEPT ![i] = Empty]
         /\ fd' = [fd EXCEPT ![p] = i]
    /\ off' = [off EXCEPT ![p] = 0]
    /\ next' = [next EXCEPT ![p] = 1]
    /\ UNCHANGED <<target, disk, served, aborted, faults>>

\* dst.write of n units starting with unit "first", of which m arrive.
Write(p, first, m) ==
    LET i == fd[p]
        end == off[p] + m IN
    /\ file' = [file EXCEPT
         ![i].data = [u \in Units |-> IF off[p] <= u /\ u < end THEN first + (u - off[p]) ELSE @[u]],
         ![i].len = IF end > @ THEN end ELSE @,
         ![i].synced = FALSE]
    /\ off' = [off EXCEPT ![p] = end]

\* A write that raises, a short read of the checkpoint (SystemExit), a kill:
\* the packer ends where it is and leaves the partial file behind.
Dies(p) ==
    /\ pc[p] \in {"open", "header", "copy", "sync", "rename"}
    /\ pc' = [pc EXCEPT ![p] = "failed"]
    /\ Fault
    /\ fd' = [fd EXCEPT ![p] = None]
    /\ UNCHANGED <<names, disk, file, off, next, served, aborted>>

\* The header, as one unit: a torn one shifts what follows like a missing one.
WriteHeader(p) ==
    /\ Goto(p, "header", "copy")
    /\ \/ Write(p, 0, 1) /\ UNCHANGED faults
       \/ Write(p, 0, 0) /\ Fault
    /\ UNCHANGED <<names, disk, fd, next, served, aborted>>

\* One chunk.  The file is unbuffered: a write may be short when the disk
\* fills up, and its return value is not looked at.
CopyChunk(p) ==
    LET n == IF next[p] + ChunkRows > Rows + 1 THEN Rows + 1 - next[p] ELSE ChunkRows IN
    /\ pc[p] = "copy" /\ next[p] <= Rows
    /\ \/ Write(p, next[p], n) /\ UNCHANGED faults
       \/ \E m \in 0..(n - 1) : Write(p, next[p], m) /\ Fault
    /\ next' = [next EXCEPT ![p] = @ + n]
    /\ pc' = [pc EXCEPT ![p] = IF next[p] + n > Rows THEN "sync" ELSE "copy"]
    /\ UNCHANGED <<names, disk, fd, served, aborted>>

\* Mutant: no fsync before the rename.
SyncSkipped(p) ==
    /\ Goto(p, "sync", "rename")
    /\ fd' = [fd EXCEPT ![p] = None]
    /\ UNCHANGED <<names, disk, file, off, next, served, aborted, faults>>

\* flush, fsync and close.
Sync(p) ==
    /\ Goto(p, "sync", "rename")
    /\ file' = [file EXCEPT ![fd[p]].synced = TRUE]
    /\ fd' = [fd EXCEPT ![p] = None]
    /\ UNCHANGED <<names, disk, off, next, served, aborted, faults>>

\* partial.rename(target); FileNotFoundError when the name is gone.
Rename(p) ==
    /\ pc[p] = "rename"
    /\ pc' = [pc EXCEPT ![p] = IF partial = None THEN "failed" ELSE "ok"]
    /\ IF partial = None THEN UNCHANGED names
       ELSE target' = partial /\ partial' = None
    /\ UNCHANGED <<disk, file, fd, off, next, served, aborted, faults>>

----------------------------------------------------------------------------
(* Power loss: what was not synced may be gone, a rename may be undone. *)

AfterLoss(f, lost, keep) ==
    IF f.synced THEN f
    ELSE [f EXCEPT !.data = [u \in Units |-> IF u \in lost \/ u >= keep THEN None ELSE @[u]],
                   !.len = IF keep < @ THEN keep ELSE @]

\* The journal commits the names as they are.
Commit ==
    /\ disk # names /\ disk' = names
    /\ UNCHANGED <<names, file, pc, fd, off, next, served, aborted, faults>>

PowerLoss ==
    /\ Fault
    /\ \E n \in {names, disk}, lost \in SUBSET Units, keep \in 0..expected :
         /\ partial' = n[1] /\ target' = n[2] /\ disk' = n
         /\ file' = [i \in Inodes |-> AfterLoss(file[i], lost, keep)]
    /\ pc' = [p \in Packers |-> "idle"]
    /\ fd' = [p \in Packers |-> None]
    /\ served' = None
    /\ UNCHANGED <<off, next, aborted>>

----------------------------------------------------------------------------
(* The row store. *)

AcceptableHeader(i) == file[i].data[0] = 0  \* mutant: the size is not checked

Acceptable(i) == file[i].data[0] = 0 /\ file[i].len >= expected

\* A serve process starts and finds the shard.
Attach ==
    /\ served = None /\ target # None /\ ~aborted
    /\ IF Acceptable(target) THEN served' = target /\ UNCHANGED aborted
       ELSE aborted' = TRUE /\ UNCHANGED served
    /\ UNCHANGED <<names, disk, file, pc, fd, off, next, faults>>

\* The serve process ends.
Detach ==
    /\ served # None \/ aborted
    /\ served' = None /\ aborted' = FALSE
    /\ UNCHANGED <<names, disk, file, pc, fd, off, next, faults>>

----------------------------------------------------------------------------
Work(p) == OpenPartial(p) \/ WriteHeader(p) \/ CopyChunk(p) \/ Sync(p) \/ Rename(p)

Next ==
    \/ \E p \in Packers : Start(p) \/ Work(p) \/ Dies(p)
    \/ Commit \/ PowerLoss
    \/ Attach \/ Detach

Spec == Init /\ [][Next]_vars

(* A running packer runs on, and the operator re-runs pack.                *)
FairSpec == Spec /\ \A p \in Packers : WF_vars(Work(p)) /\ WF_vars(Start(p))

----------------------------------------------------------------------------
(* Properties. *)

Exact(i) == \A u \in Units : file[i].data[u] = u

(* A shard that is served holds exactly the rank's rows: "present but      *)
(* wrong is a repack bug and must never be served" (row_store.cpp), after  *)
(* any short writes, kills and power losses.                               *)
ServedExact == served # None => Exact(served)

(* Skipping by size alone is right: a file that goes by the final name and *)
(* has the expected size is complete, now and after a power loss.          *)
CompleteIsExact ==
    \A i \in {target, disk[2]} \ {None} : file[i].len = expected => Exact(i) /\ file[i].synced

=============================================================================
