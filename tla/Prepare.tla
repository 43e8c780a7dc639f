------------------------------- MODULE Prepare -------------------------------
(***************************************************************************)
(* boot.py prepare() on rank 0: the checkpoint is downloaded, then four    *)
(* threads verify its files against the revision's digests, skipping the   *)
(* files whose size, mtime and inode are those of an earlier receipt, and  *)
(* the new receipt is saved.  Other programs (a second boot, an operator)  *)
(* may write the same files at any time.                                   *)
(*                                                                         *)
(* A file is a sequence of blocks, each of some revision's content; every  *)
(* write to it gives it a new stamp, which stands for (bytes, mtime_ns,    *)
(* inode).  A file of the wrong size fails like one of the wrong content.  *)
(***************************************************************************)
EXTENDS Naturals, Sequences

CONSTANTS
    Files,      \* the files of the revision
    Blocks,     \* blocks of a file
    Revisions,  \* REVISION of the boots; the content of a block
    MaxStamp    \* bound on the writes

ASSUME SizesAssumption == Blocks \in Nat \ {0} /\ Revisions \subseteq Nat \ {0} /\ MaxStamp \in Nat \ {0}

VARIABLES
    content,    \* file -> its blocks
    stamp,      \* file -> its identity
    clock,      \* the last stamp given
    receipt,    \* verification.json: revision and file -> stamp
    revision,   \* REVISION of this boot
    phase,      \* of this boot
    pc,         \* file -> where its verify() is
    before,     \* file -> the identity verify() took first
    sum,        \* file -> the blocks hashed so far
    touched     \* files written by others since their verify() returned

vars == <<content, stamp, clock, receipt, revision, phase, pc, before, sum, touched>>

None == 0

(* The file has been written. *)
Stamped(f) == clock' = clock + 1 /\ stamp' = [stamp EXCEPT ![f] = clock + 1]

Init ==
    /\ content \in [Files -> [1..Blocks -> Revisions]]
    /\ stamp = [f \in Files |-> 1]
    /\ clock = 1
    /\ receipt = [revision |-> None, files |-> [f \in Files |-> None]]
    /\ revision \in Revisions
    /\ phase = "down"
    /\ pc = [f \in Files |-> "idle"]
    /\ before = [f \in Files |-> None]
    /\ sum = [f \in Files |-> <<>>]
    /\ touched = {}

(* The container starts, on the configured revision. *)
Start ==
    /\ phase = "down"
    /\ phase' \in {"download", "serve"}   \* SKIP_PREPARE
    /\ revision' \in Revisions
    /\ UNCHANGED <<content, stamp, clock, receipt, pc, before, sum, touched>>

(* snapshot_download replaces a file it takes for stale. *)
Fetch(f) ==
    /\ phase = "download"
    /\ clock < MaxStamp
    /\ content' = [content EXCEPT ![f] = [b \in 1..Blocks |-> revision]]
    /\ Stamped(f)
    /\ UNCHANGED <<receipt, revision, phase, pc, before, sum, touched>>

(* snapshot_download returns; the threads start. *)
Downloaded ==
    /\ phase = "download"
    /\ phase' = "verify"
    /\ pc' = [f \in Files |-> "stat"]
    /\ touched' = {}
    /\ UNCHANGED <<content, stamp, clock, receipt, revision, before, sum>>

(* The receipt vouches for the file as it is. *)
Cached(f) == receipt.revision = revision /\ receipt.files[f] = stamp[f]

(* verify() up to the cached answer or the open file. *)
Stat(f) ==
    /\ phase = "verify" /\ pc[f] = "stat"
    /\ before' = [before EXCEPT ![f] = stamp[f]]
    /\ sum' = [sum EXCEPT ![f] = <<>>]
    /\ pc' = [pc EXCEPT ![f] = IF Cached(f) THEN "ok" ELSE "read"]
    /\ UNCHANGED <<content, stamp, clock, receipt, revision, phase, touched>>

(* Mutant: one read too many. *)
ReadAgain(f) ==
    /\ phase = "verify" /\ pc[f] = "read"
    /\ sum' = [sum EXCEPT ![f] = Append(@, content[f][Len(@) + 1])]
    /\ pc' = [pc EXCEPT ![f] = IF Len(sum[f]) = Blocks THEN "compare" ELSE "read"]
    /\ UNCHANGED <<content, stamp, clock, receipt, revision, phase, before, touched>>

(* One block of the file is hashed. *)
Read(f) ==
    /\ phase = "verify" /\ pc[f] = "read"
    /\ sum' = [sum EXCEPT ![f] = Append(@, content[f][Len(@) + 1])]
    /\ pc' = [pc EXCEPT ![f] = IF Len(sum[f]) + 1 = Blocks THEN "compare" ELSE "read"]
    /\ UNCHANGED <<content, stamp, clock, receipt, revision, phase, before, touched>>

(* digest.hexdigest() == expected *)
DigestOK(f) == \A b \in 1..Blocks : sum[f][b] = revision

(* Mutant: the digest is trusted whatever was written meanwhile. *)
SameFileUnchecked(f) == TRUE

(* The second stat gives what the first gave. *)
SameFile(f) == stamp[f] = before[f]

(* The boot is over: the process died or an assertion failed. *)
Down ==
    /\ phase' = "down"
    /\ pc' = [f \in Files |-> "idle"]
    /\ before' = [f \in Files |-> None]
    /\ sum' = [f \in Files |-> <<>>]
    /\ touched' = {}

(* verify() after the last block. *)
Compare(f) ==
    /\ phase = "verify" /\ pc[f] = "compare"
    /\ IF DigestOK(f) /\ SameFile(f)
       THEN /\ pc' = [pc EXCEPT ![f] = "ok"]
            /\ sum' = [sum EXCEPT ![f] = <<>>]
            /\ UNCHANGED <<before, phase, touched>>
       ELSE Down
    /\ UNCHANGED <<content, stamp, clock, receipt, revision>>

(* Mutant: the receipt is saved when the first thread is done. *)
AllVerifiedOnce == \E f \in Files : pc[f] = "ok"

(* pool.map returned. *)
AllVerified == \A f \in Files : pc[f] = "ok"

(* save() replaces the receipt in one step, and prepare() returns. *)
Save ==
    /\ phase = "verify" /\ AllVerified
    /\ receipt' = [revision |-> revision, files |-> before]
    /\ phase' = "serve"
    /\ UNCHANGED <<content, stamp, clock, revision, pc, before, sum, touched>>

(* SKIP_VERIFY: prepare() returns after the download. *)
SkipVerify ==
    /\ phase = "download"
    /\ phase' = "serve"
    /\ UNCHANGED <<content, stamp, clock, receipt, revision, pc, before, sum, touched>>

(* The container is stopped or killed. *)
Killed ==
    /\ phase # "down"
    /\ Down
    /\ UNCHANGED <<content, stamp, clock, receipt, revision>>

(* Another program writes a block of the file. *)
ForeignWrite(f) ==
    /\ clock < MaxStamp
    /\ \E b \in 1..Blocks, r \in Revisions : content' = [content EXCEPT ![f][b] = r]
    /\ Stamped(f)
    /\ touched' = IF pc[f] = "ok" THEN touched \cup {f} ELSE touched
    /\ UNCHANGED <<receipt, revision, phase, pc, before, sum>>

Next ==
    \/ Start \/ Downloaded \/ Save \/ SkipVerify \/ Killed
    \/ \E f \in Files : Fetch(f) \/ Stat(f) \/ Read(f) \/ Compare(f) \/ ForeignWrite(f)

Spec == Init /\ [][Next]_vars

-----------------------------------------------------------------------------

(* The state has its types, and no identity is from the future. *)
TypeOK ==
    /\ content \in [Files -> [1..Blocks -> Revisions]]
    /\ clock \in 1..MaxStamp /\ stamp \in [Files -> 1..clock]
    /\ before \in [Files -> 0..clock]
    /\ receipt.revision \in Revisions \cup {None} /\ receipt.files \in [Files -> 0..clock]
    /\ phase \in {"down", "download", "verify", "serve"}
    /\ revision \in Revisions /\ touched \subseteq Files
    /\ pc \in [Files -> {"idle", "stat", "read", "compare", "ok"}]
    /\ sum \in [Files -> Seq(Revisions)]
    /\ \A f \in Files : pc[f] = "read" => Len(sum[f]) < Blocks

(* When verify() returns, from the receipt or from the hash, the file is the *)
(* revision's, though others wrote it between two blocks (boot.py verify:    *)
(* the second stat).                                                         *)
VerifiedIntact ==
    \A f \in Files \ touched : pc[f] = "ok" => \A b \in 1..Blocks : content[f][b] = revision

(* A receipt never vouches for content it was not issued for: a file with    *)
(* the identity of its entry is whole (boot.py verify: identity is taken     *)
(* before the hash, and the receipt is saved only when all files passed).    *)
ReceiptHonest ==
    \A f \in Files : receipt.files[f] = stamp[f] => \A b \in 1..Blocks : content[f][b] = receipt.revision

(* The inductive strengthening. *)

(* verify() runs only in a boot that got to it. *)
PhaseInv == phase \in {"down", "download"} => \A f \in Files : pc[f] = "idle"

(* While nobody wrote the file, what was hashed is its content. *)
HashInv ==
    \A f \in Files :
        /\ pc[f] \in {"read", "compare"} /\ stamp[f] = before[f] =>
             \A b \in 1..Len(sum[f]) : sum[f][b] = content[f][b]
        /\ pc[f] = "compare" => Len(sum[f]) = Blocks

(* A verified file that nobody wrote is the revision's, and a write shows. *)
OkInv ==
    \A f \in Files : pc[f] = "ok" =>
        /\ before[f] = stamp[f] => \A b \in 1..Blocks : content[f][b] = revision
        /\ f \notin touched => before[f] = stamp[f]

IInv == TypeOK /\ PhaseInv /\ HashInv /\ OkInv /\ ReceiptHonest

=============================================================================
