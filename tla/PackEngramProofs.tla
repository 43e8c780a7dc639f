-------------------------- MODULE PackEngramProofs --------------------------
(***************************************************************************)
(* With at most one pack of a rank at a time, a shard that is served is    *)
(* exact and a file of the expected size is complete, after any number of  *)
(* short writes, kills and power losses.                                   *)
(*                                                                         *)
(* The argument: a packer's offset in the file never passes the row it is  *)
(* to copy, and falls behind for good with the first short write.  A file  *)
(* that is as long as it should be was therefore written without one.      *)
(***************************************************************************)
EXTENDS PackEngram, TLAPS

\* The containers of two packs do not overlap.
OnePacker == \A p, q \in Packers : p = q

Names == Inodes \cup {None}
Places == {"idle", "open", "header", "copy", "sync", "rename", "ok", "failed"}
Contents == [data : [Units -> Nat \cup {None}], len : Nat, synced : BOOLEAN]

TypeInv ==
    /\ partial \in Names /\ target \in Names /\ disk \in Names \X Names
    /\ file \in [Inodes -> Contents]
    /\ pc \in [Packers -> Places] /\ fd \in [Packers -> Names]
    /\ off \in [Packers -> Nat] /\ next \in [Packers -> Nat]
    /\ served \in Names

\* Synced, and complete if it has the length.
Done(i) == file[i].synced /\ (file[i].len >= expected => Exact(i))

\* No file that goes by the final name, now or after a power loss, is open for
\* writing or will be opened.
Apart ==
    /\ partial # None => partial # target /\ partial # disk[2] /\ partial # served
    /\ disk[1] # None => disk[1] # disk[2]

Published ==
    /\ target # None => Done(target)
    /\ disk[2] # None => Done(disk[2])
    /\ served # None => Exact(served)

\* What packer p has written of the rows before next[p].
Written(p) ==
    /\ file[partial].len = off[p] /\ off[p] <= next[p] /\ next[p] <= Rows + 1
    /\ off[p] = next[p] => \A u \in Units : u < off[p] => file[partial].data[u] = u

Working(p) ==
    /\ pc[p] \in {"header", "copy", "sync", "rename"} => partial # None
    /\ pc[p] \in {"header", "copy", "sync"} => fd[p] = partial
    /\ pc[p] = "header" => off[p] = 0 /\ next[p] = 1 /\ file[partial].len = 0
    /\ pc[p] \in {"copy", "sync"} => Written(p)
    /\ pc[p] = "sync" => next[p] = Rows + 1
    /\ pc[p] = "rename" => Done(partial)

IInv == TypeInv /\ Apart /\ Published /\ \A p \in Packers : Working(p)

----------------------------------------------------------------------------
LEMMA EmptyType == Empty \in Contents /\ Empty.len = 0 /\ ~Empty.synced /\ \A u \in Units : Empty.data[u] = None
  BY DEF Empty, Contents

LEMMA InitIInv == Init => IInv
  <1> SUFFICES ASSUME Init  PROVE IInv
    OBVIOUS
  <1>1. TypeInv  BY EmptyType DEF Init, TypeInv, Names, Places
  <1>2. Apart /\ Published  BY DEF Init, Apart, Published
  <1>3. \A p \in Packers : Working(p)  BY DEF Init, Working
  <1> QED BY <1>1, <1>2, <1>3 DEF IInv

\* A file that is exact is not empty, so that its inode is not taken.
LEMMA ExactNotEmpty ==
  ASSUME NEW i \in Inodes, Exact(i)
  PROVE  file[i] # Empty
  <1>1. 0 \in Units  BY PackAssumption DEF Units
  <1>2. file[i].data[0] = 0 /\ Empty.data[0] = None  BY <1>1, EmptyType DEF Exact
  <1> QED BY <1>2, PackAssumption

\* Files other than one that is being written keep what they are.
LEMMA OthersKept ==
  ASSUME NEW i \in Inodes, NEW v, file \in [Inodes -> Contents], file' = [file EXCEPT ![i] = v],
         NEW j \in Inodes, j # i
  PROVE  file'[j] = file[j] /\ (Done(j) => Done(j)') /\ (Exact(j) => Exact(j)')
  <1>1. file'[j] = file[j]  OBVIOUS
  <1> QED BY <1>1 DEF Done, Exact

\* What is published survives a write to the partial file.
LEMMA PublishedKept ==
  ASSUME TypeInv, Apart, Published, partial # None,
         NEW v, file' = [file EXCEPT ![partial] = v], UNCHANGED <<target, disk, served>>
  PROVE  Published'
  <1>1. partial \in Inodes /\ file \in [Inodes -> Contents]  BY DEF TypeInv, Names
  <1>2. target # None => target \in Inodes /\ target # partial  BY DEF TypeInv, Names, Apart
  <1>3. disk[2] # None => disk[2] \in Inodes /\ disk[2] # partial  BY DEF TypeInv, Names, Apart
  <1>4. served # None => served \in Inodes /\ served # partial  BY DEF TypeInv, Names, Apart
  <1>5. target # None => Done(target)'  BY <1>1, <1>2, OthersKept DEF Published
  <1>6. disk[2] # None => Done(disk[2])'  BY <1>1, <1>3, OthersKept DEF Published
  <1>7. served # None => Exact(served)'  BY <1>1, <1>4, OthersKept DEF Published
  <1> QED BY <1>5, <1>6, <1>7 DEF Published, Done, Exact

----------------------------------------------------------------------------
(* pack_layer *)

LEMMA StartKeeps ==
  ASSUME OnePacker, IInv, NEW p \in Packers, Start(p)
  PROVE  IInv'
  <1>1. /\ pc' = [pc EXCEPT ![p] = IF AlreadyComplete THEN "ok" ELSE "open"]
        /\ UNCHANGED <<partial, target, disk, file, fd, off, next, served>>
    BY DEF Start, names
  <1>2. pc' \in [Packers -> Places] /\ pc'[p] \in {"ok", "open"}  BY <1>1 DEF IInv, TypeInv, Places
  <1>3. TypeInv' /\ Apart' /\ Published'
    BY <1>1, <1>2 DEF IInv, TypeInv, Apart, Published, Done, Exact
  <1>4. \A q \in Packers : Working(q)'  BY <1>2 DEF OnePacker, Working
  <1> QED BY <1>3, <1>4 DEF IInv

LEMMA OpenKeeps ==
  ASSUME OnePacker, IInv, NEW p \in Packers, OpenPartial(p)
  PROVE  IInv'
  <1> TypeInv /\ Apart /\ Published  BY DEF IInv
  <1>1. PICK i \in Inodes :
          /\ IF partial # None THEN i = partial
             ELSE file[i] = Empty /\ i \notin {disk[1], disk[2], target}
          /\ partial' = i /\ file' = [file EXCEPT ![i] = Empty] /\ fd' = [fd EXCEPT ![p] = i]
    BY DEF OpenPartial
  <1>2. /\ pc' = [pc EXCEPT ![p] = "header"] /\ off' = [off EXCEPT ![p] = 0] /\ next' = [next EXCEPT ![p] = 1]
        /\ UNCHANGED <<target, disk, served>>
    BY DEF OpenPartial, Goto
  <1>3. i # None /\ file' \in [Inodes -> Contents] /\ file'[i] = Empty
    BY <1>1, EmptyType, PackAssumption DEF TypeInv
  <1>4. TypeInv'  BY <1>1, <1>2, <1>3 DEF TypeInv, Names, Places
  <1>5. i # target /\ i # disk[2] /\ i # served
    <2>1. CASE partial # None  BY <1>1, <1>3, <2>1 DEF Apart
    <2>2. CASE partial = None
      <3>1. served # None => served \in Inodes /\ file[served] # Empty
        BY ExactNotEmpty DEF TypeInv, Names, Published
      <3> QED BY <1>1, <1>3, <2>2, <3>1
    <2> QED BY <2>1, <2>2
  <1>6. Apart'  BY <1>1, <1>2, <1>5 DEF Apart
  <1>7. Published'
    <2>1. \A j \in Inodes : j # i => (Done(j) => Done(j)') /\ (Exact(j) => Exact(j)')
      BY <1>1, OthersKept DEF TypeInv
    <2>2. /\ target # None => target \in Inodes /\ target # i
          /\ disk[2] # None => disk[2] \in Inodes /\ disk[2] # i
          /\ served # None => served \in Inodes /\ served # i
      BY <1>5 DEF TypeInv, Names
    <2> QED BY <1>2, <2>1, <2>2 DEF Published, Done, Exact
  <1>8. Working(p)'
    <2>1. /\ pc'[p] = "header" /\ fd'[p] = i /\ off'[p] = 0 /\ next'[p] = 1
      BY <1>1, <1>2 DEF TypeInv
    <2>2. file'[partial'].len = 0  BY <1>1, <1>3, EmptyType
    <2> QED BY <1>1, <1>3, <2>1, <2>2 DEF Working
  <1> QED BY <1>4, <1>6, <1>7, <1>8 DEF IInv, OnePacker

\* What a write of m units of the rows from first on, at the offset, does to the file.
Wrote(p, i, first, m) ==
    /\ \E v : file' = [file EXCEPT ![i] = v]
    /\ file' \in [Inodes -> Contents] /\ off' \in [Packers -> Nat] /\ off'[p] = off[p] + m
    /\ file'[i].len = IF off[p] + m > file[i].len THEN off[p] + m ELSE file[i].len
    /\ \A u \in Units : file'[i].data[u] =
          IF off[p] <= u /\ u < off[p] + m THEN first + (u - off[p]) ELSE file[i].data[u]

LEMMA WriteEffect ==
  ASSUME TypeInv, NEW p \in Packers, NEW i \in Inodes, fd[p] = i,
         NEW first \in Nat, NEW m \in Nat, Write(p, first, m)
  PROVE  Wrote(p, i, first, m)
  <1> DEFINE end == off[p] + m
             data == [u \in Units |-> IF off[p] <= u /\ u < end THEN first + (u - off[p]) ELSE file[i].data[u]]
             len == IF end > file[i].len THEN end ELSE file[i].len
             v == [file[i] EXCEPT !.data = data, !.len = len, !.synced = FALSE]
  <1>1. off[p] \in Nat /\ end \in Nat /\ file[i] \in Contents /\ file \in [Inodes -> Contents]
    BY DEF TypeInv
  <1>2. data \in [Units -> Nat \cup {None}]
    <2>1. \A u \in Units : u \in Nat /\ file[i].data[u] \in Nat \cup {None}
      BY <1>1, PackAssumption DEF Contents, Units
    <2> QED BY <1>1, <2>1
  <1>3. len \in Nat  BY <1>1 DEF Contents
  <1>4. file' = [file EXCEPT ![i] = v]  BY <1>1 DEF Write
  <1>5. off' = [off EXCEPT ![p] = end]  BY DEF Write
  <1>6. \A u \in Units : data[u] = IF off[p] <= u /\ u < end THEN first + (u - off[p]) ELSE file[i].data[u]
    OBVIOUS
  <1> HIDE DEF data, len
  <1>7. v \in Contents /\ v.data = data /\ v.len = len  BY <1>1, <1>2, <1>3 DEF Contents
  <1> HIDE DEF v
  <1>8. file'[i] = v /\ file' \in [Inodes -> Contents]  BY <1>1, <1>4, <1>7
  <1>9. off' \in [Packers -> Nat] /\ off'[p] = end  BY <1>1, <1>5 DEF TypeInv
  <1>10. \E x : file' = [file EXCEPT ![i] = x]  BY <1>4
  <1>11. file'[i].len = len /\ \A u \in Units : file'[i].data[u] = data[u]  BY <1>7, <1>8
  <1> QED BY <1>6, <1>8, <1>9, <1>10, <1>11 DEF len, Wrote

\* A write of m of the n units due, by a packer that is where it should be.
LEMMA WriteKeeps ==
  ASSUME OnePacker, IInv, NEW p \in Packers, pc[p] \in {"header", "copy"},
         NEW n \in Nat, NEW m \in Nat, m <= n,
         NEW from \in Nat, NEW to \in Nat, to = from + n, to <= Rows + 1,
         file[partial].len = off[p], off[p] <= from,
         off[p] = from => \A u \in Units : u < off[p] => file[partial].data[u] = u,
         Write(p, from, m),
         next' \in [Packers -> Nat], next'[p] = to, pc' \in [Packers -> Places],
         pc'[p] \in {"copy", "sync"}, pc'[p] = "sync" => to = Rows + 1,
         UNCHANGED <<partial, target, disk, fd, served>>
  PROVE  IInv'
  <1> TypeInv /\ Apart /\ Published /\ Working(p)  BY DEF IInv
  <1>1. partial # None /\ fd[p] = partial /\ partial \in Inodes  BY DEF Working, TypeInv, Names
  <1>2. /\ \E v : file' = [file EXCEPT ![partial] = v]
        /\ file' \in [Inodes -> Contents] /\ off' \in [Packers -> Nat] /\ off'[p] = off[p] + m
        /\ file'[partial].len = IF off[p] + m > file[partial].len THEN off[p] + m ELSE file[partial].len
        /\ \A u \in Units : file'[partial].data[u] =
              IF off[p] <= u /\ u < off[p] + m THEN from + (u - off[p]) ELSE file[partial].data[u]
    <2>1. Wrote(p, partial, from, m)  BY <1>1, WriteEffect
    <2> QED BY <2>1 DEF Wrote
  <1>3. TypeInv'  BY <1>2 DEF TypeInv
  <1>4. Apart'  BY DEF Apart
  <1>5. Published'  BY <1>1, <1>2, PublishedKept
  <1>6. off[p] \in Nat /\ Rows \in Nat  BY PackAssumption DEF TypeInv
  <1>7. Written(p)'
    <2>1. file'[partial].len = off'[p]  BY <1>2, <1>6
    <2>2. off'[p] <= to /\ to <= Rows + 1  BY <1>2, <1>6
    <2>3. ASSUME off'[p] = to, NEW u \in Units, u < off'[p]  PROVE file'[partial].data[u] = u
      <3>1. off[p] = from /\ u \in Nat  BY <1>2, <1>6, <2>3 DEF Units
      <3>2. CASE u < off[p]  BY <1>2, <1>6, <3>1, <3>2
      <3>3. CASE off[p] <= u  BY <1>2, <1>6, <2>3, <3>1, <3>3
      <3> QED BY <1>6, <3>1, <3>2, <3>3
    <2> QED BY <2>1, <2>2, <2>3 DEF Written
  <1>8. Working(p)'  BY <1>1, <1>7 DEF Working
  <1> QED BY <1>3, <1>4, <1>5, <1>8 DEF IInv, OnePacker

LEMMA HeaderKeeps ==
  ASSUME OnePacker, IInv, NEW p \in Packers, WriteHeader(p)
  PROVE  IInv'
  <1> TypeInv /\ Working(p)  BY DEF IInv
  <1>1. /\ pc[p] = "header" /\ pc' = [pc EXCEPT ![p] = "copy"]
        /\ UNCHANGED <<partial, target, disk, fd, next, served>>
        /\ Write(p, 0, 1) \/ Write(p, 0, 0)
    BY DEF WriteHeader, Goto, names
  <1>2. off[p] = 0 /\ next[p] = 1 /\ file[partial].len = 0  BY <1>1 DEF Working
  <1>3. /\ next' \in [Packers -> Nat] /\ next'[p] = 1
        /\ pc' \in [Packers -> Places] /\ pc'[p] = "copy"
    BY <1>1, <1>2 DEF TypeInv, Places
  <1>4. \A u \in Units : ~(u < 0)  BY PackAssumption DEF Units
  <1>5. 1 <= Rows + 1  BY PackAssumption
  <1>6. PICK m \in {0, 1} : Write(p, 0, m)  BY <1>1
  <1>7. m \in Nat /\ m <= 1  BY <1>6
  <1> QED BY <1>1, <1>2, <1>3, <1>4, <1>5, <1>6, <1>7, WriteKeeps

LEMMA CopyKeeps ==
  ASSUME OnePacker, IInv, NEW p \in Packers, CopyChunk(p)
  PROVE  IInv'
  <1> DEFINE n == IF next[p] + ChunkRows > Rows + 1 THEN Rows + 1 - next[p] ELSE ChunkRows
  <1> TypeInv /\ Working(p)  BY DEF IInv
  <1>1. /\ pc[p] = "copy" /\ next[p] <= Rows
        /\ next' = [next EXCEPT ![p] = next[p] + n]
        /\ pc' = [pc EXCEPT ![p] = IF next[p] + n > Rows THEN "sync" ELSE "copy"]
        /\ UNCHANGED <<partial, target, disk, fd, served>>
        /\ Write(p, next[p], n) \/ \E m \in 0..(n - 1) : Write(p, next[p], m)
    BY DEF CopyChunk, names
  <1>2. next[p] \in Nat /\ Rows \in Nat /\ ChunkRows \in Nat  BY PackAssumption DEF TypeInv
  <1>3. n \in Nat /\ next[p] + n \in Nat /\ next[p] + n <= Rows + 1  BY <1>1, <1>2
  <1>4. PICK m \in 0..n : Write(p, next[p], m)  BY <1>1, <1>3
  <1> HIDE DEF n
  <1>5. m \in Nat /\ m <= n  BY <1>3, <1>4
  <1>6. /\ next' \in [Packers -> Nat] /\ next'[p] = next[p] + n
        /\ pc' \in [Packers -> Places] /\ pc'[p] = IF next[p] + n > Rows THEN "sync" ELSE "copy"
    BY <1>1, <1>2, <1>3 DEF TypeInv, Places
  <1>7. pc'[p] \in {"copy", "sync"} /\ (pc'[p] = "sync" => next[p] + n = Rows + 1)
    BY <1>2, <1>3, <1>6
  <1>8. Written(p)  BY <1>1 DEF Working
  <1> QED BY <1>1, <1>2, <1>3, <1>4, <1>5, <1>6, <1>7, <1>8, WriteKeeps DEF Written

LEMMA SyncKeeps ==
  ASSUME OnePacker, IInv, NEW p \in Packers, Sync(p)
  PROVE  IInv'
  <1> TypeInv /\ Apart /\ Published /\ Working(p)  BY DEF IInv
  <1>1. /\ pc[p] = "sync" /\ pc' = [pc EXCEPT ![p] = "rename"]
        /\ file' = [file EXCEPT ![fd[p]].synced = TRUE] /\ fd' = [fd EXCEPT ![p] = None]
        /\ UNCHANGED <<partial, target, disk, off, next, served>>
    BY DEF Sync, Goto, names
  <1>2. partial # None /\ fd[p] = partial /\ partial \in Inodes /\ Written(p) /\ next[p] = Rows + 1
    BY <1>1 DEF Working, TypeInv, Names
  <1> DEFINE v == [file[partial] EXCEPT !.synced = TRUE]
  <1>3. file' = [file EXCEPT ![partial] = v] /\ file[partial] \in Contents /\ file \in [Inodes -> Contents]
    BY <1>1, <1>2 DEF TypeInv
  <1>4. v \in Contents /\ v.synced /\ v.len = file[partial].len /\ v.data = file[partial].data
    BY <1>3 DEF Contents
  <1> HIDE DEF v
  <1>5. file' \in [Inodes -> Contents] /\ file'[partial] = v  BY <1>2, <1>3, <1>4
  <1>6. TypeInv'  BY <1>1, <1>5 DEF TypeInv, Names, Places
  <1>7. Apart'  BY <1>1 DEF Apart
  <1>8. Published'  BY <1>1, <1>2, <1>3, PublishedKept
  <1>9. Done(partial)'
    <2>1. off[p] \in Nat /\ Rows \in Nat  BY PackAssumption DEF TypeInv
    <2>2. file[partial].len >= Rows + 1 => \A u \in Units : u < off[p] /\ file[partial].data[u] = u
      BY <1>2, <2>1 DEF Written, Units
    <2> QED BY <1>1, <1>4, <1>5, <2>2 DEF Done, Exact, expected
  <1>10. Working(p)'
    <2>1. pc'[p] = "rename"  BY <1>1 DEF TypeInv
    <2> QED BY <1>1, <1>2, <1>9, <2>1 DEF Working
  <1> QED BY <1>6, <1>7, <1>8, <1>10 DEF IInv, OnePacker

LEMMA RenameKeeps ==
  ASSUME OnePacker, IInv, NEW p \in Packers, Rename(p)
  PROVE  IInv'
  <1> TypeInv /\ Apart /\ Published /\ Working(p)  BY DEF IInv
  <1>1. partial # None /\ Done(partial)  BY DEF Rename, Working
  <1>2. /\ pc' = [pc EXCEPT ![p] = "ok"] /\ target' = partial /\ partial' = None
        /\ UNCHANGED <<disk, file, fd, off, next, served>>
    BY <1>1 DEF Rename
  <1>3. TypeInv'  BY <1>2 DEF TypeInv, Names, Places
  <1>4. Apart'  BY <1>2 DEF Apart
  <1>5. Published'  BY <1>1, <1>2 DEF Published, Done, Exact
  <1>6. Working(p)'
    <2>1. pc'[p] = "ok"  BY <1>2 DEF TypeInv
    <2> QED BY <2>1 DEF Working
  <1> QED BY <1>3, <1>4, <1>5, <1>6 DEF IInv, OnePacker

LEMMA DiesKeeps ==
  ASSUME OnePacker, IInv, NEW p \in Packers, Dies(p)
  PROVE  IInv'
  <1> TypeInv /\ Apart /\ Published  BY DEF IInv
  <1>1. /\ pc' = [pc EXCEPT ![p] = "failed"] /\ fd' = [fd EXCEPT ![p] = None]
        /\ UNCHANGED <<partial, target, disk, file, off, next, served>>
    BY DEF Dies, names
  <1>2. TypeInv'  BY <1>1 DEF TypeInv, Names, Places
  <1>3. Apart' /\ Published'  BY <1>1 DEF Apart, Published, Done, Exact
  <1>4. Working(p)'
    <2>1. pc'[p] = "failed"  BY <1>1 DEF TypeInv
    <2> QED BY <2>1 DEF Working
  <1> QED BY <1>2, <1>3, <1>4 DEF IInv, OnePacker

----------------------------------------------------------------------------
(* Names, power losses and the row store. *)

LEMMA CommitKeeps ==
  ASSUME IInv, Commit
  PROVE  IInv'
  <1> TypeInv /\ Apart /\ Published /\ \A p \in Packers : Working(p)  BY DEF IInv
  <1>1. disk' = <<partial, target>> /\ UNCHANGED <<partial, target, file, pc, fd, off, next, served>>
    BY DEF Commit, names
  <1>2. disk'[1] = partial /\ disk'[2] = target  BY <1>1
  <1>3. TypeInv'  BY <1>1 DEF TypeInv
  <1>4. Apart' /\ Published'  BY <1>1, <1>2 DEF Apart, Published, Done, Exact
  <1>5. \A p \in Packers : Working(p)'  BY <1>1 DEF Working, Written, Done, Exact
  <1> QED BY <1>3, <1>4, <1>5 DEF IInv

\* A power loss takes nothing from a synced file.
LEMMA LossKeeps ==
  ASSUME IInv, PowerLoss
  PROVE  IInv'
  <1> TypeInv /\ Apart /\ Published  BY DEF IInv
  <1>1. PICK n \in {names, disk}, lost \in SUBSET Units, keep \in 0..expected :
          /\ partial' = n[1] /\ target' = n[2] /\ disk' = n
          /\ file' = [i \in Inodes |-> AfterLoss(file[i], lost, keep)]
    BY DEF PowerLoss
  <1>2. /\ pc' = [p \in Packers |-> "idle"] /\ fd' = [p \in Packers |-> None] /\ served' = None
        /\ UNCHANGED <<off, next>>
    BY DEF PowerLoss
  <1>3. keep \in Nat  BY PackAssumption DEF expected
  <1>4. ASSUME NEW f \in Contents
        PROVE  AfterLoss(f, lost, keep) \in Contents /\ (f.synced => AfterLoss(f, lost, keep) = f)
    <2>1. CASE f.synced  BY <2>1 DEF AfterLoss
    <2>2. CASE ~f.synced
      <3> DEFINE data == [u \in Units |-> IF u \in lost \/ u >= keep THEN None ELSE f.data[u]]
                 len == IF keep < f.len THEN keep ELSE f.len
      <3>1. data \in [Units -> Nat \cup {None}] /\ len \in Nat  BY <1>3 DEF Contents
      <3>2. AfterLoss(f, lost, keep) = [f EXCEPT !.data = data, !.len = len]  BY <2>2 DEF AfterLoss
      <3> HIDE DEF data, len
      <3> QED BY <2>2, <3>1, <3>2 DEF Contents
    <2> QED BY <2>1, <2>2
  <1>5. file' \in [Inodes -> Contents]  BY <1>1, <1>4 DEF TypeInv
  <1>6. \A i \in Inodes : Done(i) => Done(i)'
    <2> SUFFICES ASSUME NEW i \in Inodes, Done(i)  PROVE Done(i)'
      OBVIOUS
    <2>1. file'[i] = file[i]  BY <1>1, <1>4 DEF Done, TypeInv
    <2> QED BY <2>1 DEF Done, Exact
  <1>7. /\ n[1] \in Names /\ n[2] \in Names /\ n \in Names \X Names
        /\ n[1] # None => n[1] # n[2]
        /\ n[2] # None => n[2] \in Inodes /\ Done(n[2])
    <2>1. CASE n = names
      <3>1. n[1] = partial /\ n[2] = target /\ n = <<partial, target>>  BY <2>1 DEF names
      <3> QED BY <3>1 DEF TypeInv, Names, Apart, Published
    <2>2. CASE n = disk  BY <2>2 DEF TypeInv, Names, Apart, Published
    <2> QED BY <2>1, <2>2
  <1>8. TypeInv'
    <2>1. pc' \in [Packers -> Places] /\ fd' \in [Packers -> Names]  BY <1>2 DEF Places, Names
    <2> QED BY <1>1, <1>2, <1>5, <1>7, <2>1 DEF TypeInv, Names
  <1>9. Apart'  BY <1>1, <1>2, <1>7 DEF Apart
  <1>10. Published'
    <2>1. target' = n[2] /\ disk'[2] = n[2] /\ served' = None  BY <1>1, <1>2
    <2>2. n[2] # None => Done(n[2])'  BY <1>6, <1>7
    <2> QED BY <2>1, <2>2 DEF Published, Done, Exact
  <1>11. \A p \in Packers : Working(p)'  BY <1>2 DEF Working
  <1> QED BY <1>8, <1>9, <1>10, <1>11 DEF IInv

LEMMA AttachKeeps ==
  ASSUME IInv, Attach
  PROVE  IInv'
  <1> TypeInv /\ Apart /\ Published /\ \A p \in Packers : Working(p)  BY DEF IInv
  <1>1. /\ served = None /\ target # None
        /\ (Acceptable(target) /\ served' = target) \/ served' = served
        /\ UNCHANGED <<partial, target, disk, file, pc, fd, off, next>>
    BY DEF Attach, names
  <1>2. served' # None => served' = target /\ Exact(target)
    BY <1>1 DEF Published, Done, Acceptable
  <1>3. TypeInv'  BY <1>1 DEF TypeInv
  <1>4. Apart'  BY <1>1, <1>2 DEF Apart
  <1>5. Published'  BY <1>1, <1>2 DEF Published, Done, Exact
  <1>6. \A p \in Packers : Working(p)'  BY <1>1 DEF Working, Written, Done, Exact
  <1> QED BY <1>3, <1>4, <1>5, <1>6 DEF IInv

LEMMA DetachKeeps ==
  ASSUME IInv, Detach
  PROVE  IInv'
  <1> TypeInv /\ Apart /\ Published /\ \A p \in Packers : Working(p)  BY DEF IInv
  <1>1. served' = None /\ UNCHANGED <<partial, target, disk, file, pc, fd, off, next>>
    BY DEF Detach, names
  <1>2. TypeInv'  BY <1>1 DEF TypeInv, Names
  <1>3. Apart' /\ Published'  BY <1>1 DEF Apart, Published, Done, Exact
  <1>4. \A p \in Packers : Working(p)'  BY <1>1 DEF Working, Written, Done, Exact
  <1> QED BY <1>2, <1>3, <1>4 DEF IInv

LEMMA NextIInv ==
  ASSUME OnePacker, IInv, [Next]_vars
  PROVE  IInv'
  <1>1. CASE UNCHANGED vars
    BY <1>1 DEF vars, names, IInv, TypeInv, Apart, Published, Working, Written, Done, Exact
  <1>2. ASSUME NEW p \in Packers, Work(p)  PROVE IInv'
    BY <1>2, OpenKeeps, HeaderKeeps, CopyKeeps, SyncKeeps, RenameKeeps DEF Work
  <1> QED
    BY <1>1, <1>2, StartKeeps, DiesKeeps, CommitKeeps, LossKeeps, AttachKeeps, DetachKeeps DEF Next

----------------------------------------------------------------------------
(* ServedExact for any number of rows, chunk size, files and faults, as    *)
(* long as packs of one rank do not overlap: "present but wrong" is never  *)
(* served (row_store.cpp row_store_attach_packed).                         *)
THEOREM ServedAlwaysExact ==
  ASSUME OnePacker
  PROVE  Spec => []ServedExact
  <1>1. IInv => ServedExact  BY DEF IInv, Published, ServedExact
  <1>2. IInv /\ [Next]_vars => IInv'  BY NextIInv
  <1> QED BY <1>1, <1>2, InitIInv, PTL DEF Spec

(* CompleteIsExact under the same hypothesis: pack_layer may skip a file   *)
(* of the expected size, before and after a power loss.                    *)
THEOREM CompleteAlwaysExact ==
  ASSUME OnePacker
  PROVE  Spec => []CompleteIsExact
  <1>1. IInv => CompleteIsExact
    <2> SUFFICES ASSUME IInv, NEW i \in {target, disk[2]} \ {None}, file[i].len = expected
                 PROVE  Exact(i) /\ file[i].synced
      BY DEF CompleteIsExact
    <2>1. Done(i)  BY DEF IInv, Published
    <2>2. expected \in Nat  BY PackAssumption DEF expected
    <2> QED BY <2>1, <2>2 DEF Done
  <1>2. IInv /\ [Next]_vars => IInv'  BY NextIInv
  <1> QED BY <1>1, <1>2, InitIInv, PTL DEF Spec
=============================================================================
