-------------------------------- MODULE Files ---------------------------------
(***************************************************************************)
(* Names, files and descriptors as the shim presents them to the runtime.  *)
(* Every call on a path first strips the app0: prefixes the runtime puts   *)
(* in front of device paths.  Inode numbers are made up: stat hashes the   *)
(* stripped path; fstat looks the descriptor up in a table that open fills *)
(* and nothing empties.  The runtime tells by them whether two descriptors *)
(* are of one file (sharing violations).                                   *)
(*                                                                         *)
(* A path is a sequence of parts and stands for its hash.  Calls that fail *)
(* change nothing and are left out, among them those whose path keeps its  *)
(* prefixes because strdup failed: no such path exists for the kernel.     *)
(* The table is filled under vita_map_lock after the real open has         *)
(* returned: open takes two steps.                                         *)
(***************************************************************************)
EXTENDS Integers, Sequences

CONSTANTS Threads,
          App,         \* the part "app0:"
          Devices,     \* the parts with a colon
          Names,       \* the parts without one
          RealPaths,   \* what the kernel resolves: a device and a name on it
          Spelled,     \* the paths the runtime passes
          Ids,         \* identities of files and directories
          Fds,         \* the descriptors the C library hands out
          DupFds,      \* the descriptors dup may return
          TableSize,   \* VITA_FDMAP
          Nothing      \* no file, or no call

\* The device of a path is its part k: before it there is only app0:.
DeviceAt(s, k) == /\ s[k] \in Devices
                  /\ \A i \in 1 .. (k - 1) : s[i] = App
                  /\ \A i \in (k + 1) .. Len(s) : s[i] \in Names

ASSUME FilesAssumption ==
  /\ App \in Devices /\ Devices \cap Names = {}
  /\ \A d \in Devices : d \notin Nat
  /\ RealPaths \cup Spelled \subseteq Seq(Devices \cup Names)
  /\ \A p \in RealPaths : Len(p) > 0 /\ DeviceAt(p, 1)
  /\ \A s \in Spelled : \E k \in 1 .. Len(s) : DeviceAt(s, k)
  /\ Fds \subseteq Nat /\ DupFds \subseteq Fds
  /\ TableSize \in Nat
  /\ Nothing \notin Ids \cup Fds

VARIABLES tree,     \* what each real path names: a file, a directory, or Nothing
          dirs,     \* the identities that are directories
          file,     \* per descriptor: the file it is open on, or Nothing
          name,     \* per descriptor: the path the real open was given
          dupped,   \* the descriptors that come from dup
          fds,      \* vita_fds, up to vita_fds_used
          call      \* per thread: the descriptor open is about to record

vars == <<tree, dirs, file, name, dupped, fds, call>>

-----------------------------------------------------------------------------
(* Path normalisation *)

\* Mutant: one prefix is stripped, as if the loop ended after a round.
NormalizeOnce(p) ==
  IF Len(p) > 1 /\ p[1] = App /\ p[2] \in Devices THEN SubSeq(p, 2, Len(p)) ELSE p

\* vita_fs_normalize: while the path starts with app0: and its next part has a
\* colon, that start goes.
Strips(p, i) == i < Len(p) /\ p[i] = App /\ p[i + 1] \in Devices
Normalize(p) ==
  LET k == CHOOSE i \in 1 .. Len(p) : ~Strips(p, i) /\ \A j \in 1 .. (i - 1) : Strips(p, j)
  IN SubSeq(p, k, Len(p))

\* The path that the real call gets, if it is one that the kernel resolves.
Given(s) == {Normalize(s)} \cap RealPaths

\* What the runtime means by a path: it starts at its device.
Target(s) == SubSeq(s, CHOOSE k \in 1 .. Len(s) : DeviceAt(s, k), Len(s))
-----------------------------------------------------------------------------
(* The descriptor table *)

\* Mutant: the entry of a descriptor stays as it is.
RecordKeep(s, fd, ino) ==
  IF (\E i \in DOMAIN s : s[i].fd = fd) \/ Len(s) = TableSize
  THEN s ELSE Append(s, [fd |-> fd, ino |-> ino])

\* Mutant: off by one at the end of the table.
RecordPastEnd(s, fd, ino) ==
  IF \E i \in DOMAIN s : s[i].fd = fd
  THEN [i \in DOMAIN s |-> IF s[i].fd = fd THEN [s[i] EXCEPT !.ino = ino] ELSE s[i]]
  ELSE IF Len(s) <= TableSize THEN Append(s, [fd |-> fd, ino |-> ino]) ELSE s

\* vita_fd_record_locked: an entry of the same descriptor is overwritten, else
\* one is added if there is room.
Record(s, fd, ino) ==
  IF \E i \in DOMAIN s : s[i].fd = fd
  THEN [i \in DOMAIN s |-> IF s[i].fd = fd THEN [s[i] EXCEPT !.ino = ino] ELSE s[i]]
  ELSE IF Len(s) < TableSize THEN Append(s, [fd |-> fd, ino |-> ino]) ELSE s

\* vita_fd_ino_locked: the first entry of the descriptor, else a number made
\* from the descriptor (no hash of a path).
InoOf(s, fd) ==
  IF \E i \in DOMAIN s : s[i].fd = fd
  THEN s[CHOOSE i \in DOMAIN s : s[i].fd = fd /\ \A j \in DOMAIN s : s[j].fd = fd => i <= j].ino
  ELSE <<fd + 16>>

\* What do_stat and do_fstat report as the inode number.
StatIno(s) == Normalize(s)
FstatIno(fd) == InoOf(fds, fd)
-----------------------------------------------------------------------------
Closed == {fd \in Fds : file[fd] = Nothing}
Pending == {call[t] : t \in Threads}
Unused == Ids \ ({tree[p] : p \in RealPaths} \cup {file[fd] : fd \in Fds})

Init == /\ tree = [p \in RealPaths |-> Nothing]
        /\ dirs = {}
        /\ file = [fd \in Fds |-> Nothing]
        /\ name = [fd \in Fds |-> <<>>]
        /\ dupped = {}
        /\ fds = <<>>
        /\ call = [t \in Threads |-> Nothing]

\* __wrap_open: the real open finds or creates the file...
Open(t, s, fd) ==
  /\ call[t] = Nothing
  /\ fd \in Closed
  /\ \E p \in Given(s) :
       /\ tree[p] \notin dirs
       /\ \/ tree[p] # Nothing /\ UNCHANGED tree
          \/ tree[p] = Nothing /\ \E f \in Unused : tree' = [tree EXCEPT ![p] = f]
       /\ file' = [file EXCEPT ![fd] = tree'[p]]
       /\ name' = [name EXCEPT ![fd] = p]
  /\ dupped' = dupped \ {fd}
  /\ call' = [call EXCEPT ![t] = fd]
  /\ UNCHANGED <<dirs, fds>>

\* ... then the descriptor is recorded and returned.
OpenRecord(t) ==
  /\ call[t] # Nothing
  /\ fds' = Record(fds, call[t], name[call[t]])
  /\ call' = [call EXCEPT ![t] = Nothing]
  /\ UNCHANGED <<tree, dirs, file, name, dupped>>

\* __wrap_close: the table is left alone.  Only a descriptor that open or dup
\* has returned can be closed.
Close(fd) ==
  /\ fd \notin Closed \cup Pending
  /\ file' = [file EXCEPT ![fd] = Nothing]
  /\ name' = [name EXCEPT ![fd] = <<>>]
  /\ dupped' = dupped \ {fd}
  /\ UNCHANGED <<tree, dirs, fds, call>>

\* dup, also as F_DUPFD of __wrap_fcntl: the shim does not see the new one.
Dup(fd, new) ==
  /\ fd \notin Closed \cup Pending
  /\ new \in Closed \cap DupFds
  /\ file' = [file EXCEPT ![new] = file[fd]]
  /\ name' = [name EXCEPT ![new] = name[fd]]
  /\ dupped' = dupped \cup {new}
  /\ UNCHANGED <<tree, dirs, fds, call>>

\* __wrap_rename, of files and directories, open or not; POSIX replaces a file
\* of the new name.
Rename(s, new) ==
  /\ \E p \in Given(s), q \in Given(new) :
       /\ p # q /\ tree[p] # Nothing /\ tree[q] \notin dirs
       /\ tree' = [tree EXCEPT ![p] = Nothing, ![q] = tree[p]]
  /\ UNCHANGED <<dirs, file, name, dupped, fds, call>>

\* __wrap_unlink; an open file lives on without a name.
Unlink(s) ==
  /\ \E p \in Given(s) :
       /\ tree[p] \notin dirs \cup {Nothing}
       /\ tree' = [tree EXCEPT ![p] = Nothing]
  /\ UNCHANGED <<dirs, file, name, dupped, fds, call>>

MkDir(s) ==
  /\ \E p \in Given(s), d \in Unused :
       /\ tree[p] = Nothing
       /\ tree' = [tree EXCEPT ![p] = d]
       /\ dirs' = dirs \cup {d}
  /\ UNCHANGED <<file, name, dupped, fds, call>>

RmDir(s) ==
  /\ \E p \in Given(s) :
       /\ tree[p] \in dirs
       /\ tree' = [tree EXCEPT ![p] = Nothing]
       /\ dirs' = dirs \ {tree[p]}
  /\ UNCHANGED <<file, name, dupped, fds, call>>

Next == \/ \E t \in Threads : OpenRecord(t) \/ \E s \in Spelled, fd \in Fds : Open(t, s, fd)
        \/ \E fd \in Fds : Close(fd) \/ \E new \in DupFds : Dup(fd, new)
        \/ \E s \in Spelled : \/ Unlink(s) \/ MkDir(s) \/ RmDir(s)
                              \/ \E new \in Spelled : Rename(s, new)

Spec == Init /\ [][Next]_vars

-----------------------------------------------------------------------------
(* Properties *)

\* Every variable has its type, the table never overflows, and only what is
\* neither named nor open counts as gone.
TypeOK ==
  /\ tree \in [RealPaths -> Ids \cup {Nothing}]
  /\ dirs \subseteq {tree[p] : p \in RealPaths} \ {Nothing}
  /\ file \in [Fds -> (Ids \ dirs) \cup {Nothing}]
  /\ name \in [Fds -> RealPaths \cup {<<>>}]
  /\ dupped \subseteq Fds \ Closed
  /\ Len(fds) <= TableSize
  /\ \A i \in DOMAIN fds : fds[i] \in [fd : Fds, ino : RealPaths]
  /\ call \in [Threads -> Fds \cup {Nothing}]

\* The descriptors that open has returned, without those of dup; those that
\* found room in the table; those of dup on whose number an entry of an earlier
\* use still stands (nothing ever corrects it, line 1293); those whose file has
\* the name it was opened under.
Opened == Fds \ (Closed \cup Pending \cup dupped)
Recorded == {fd \in Opened : \E i \in DOMAIN fds : fds[i].fd = fd}
Stale == {fd \in dupped : \E i \in DOMAIN fds : fds[i].fd = fd}
InPlace(fd) == tree[name[fd]] = file[fd]

\* A file has one inode number: fstat of a descriptor that open returned agrees
\* with stat of the file under every spelling of its name, however often names
\* and descriptors were used before, as long as the table had room and the file
\* its name.  It says nothing of descriptors that dup returned.
OneInoPerFile ==
  \A fd \in Recorded : InPlace(fd) =>
    \A s \in Spelled :
      Target(s) \in RealPaths /\ tree[Target(s)] = file[fd] => StatIno(s) = FstatIno(fd)

\* Two files that are both still under the names they were opened by do not
\* have one inode number, with the table full or not: no sharing violation
\* between files that are not shared.  Descriptors of dup are among them but for
\* the stale ones: the number of the file such a one was last opened on answers
\* for it, and may also be that of another descriptor.
NoSharedIno ==
  \A fd, gd \in Fds \ (Closed \cup Pending \cup Stale) :
    InPlace(fd) /\ InPlace(gd) /\ file[fd] # file[gd] => FstatIno(fd) # FstatIno(gd)

\* As documented (vita-shim.c:932, docs/PROGRESS.md:58): fstat finds in the
\* table the number that stat makes from the path.
FstatIsStat ==
  \A fd \in Fds \ (Closed \cup Pending) : InPlace(fd) => FstatIno(fd) = StatIno(name[fd])
=============================================================================
