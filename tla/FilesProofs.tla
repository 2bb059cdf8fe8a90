------------------------------ MODULE FilesProofs ------------------------------
(* Proofs about Files, for every name space, number of threads, descriptors   *)
(* and size of the table.                                                     *)
EXTENDS Files, WellFoundedInduction, TLAPS

Entry == [fd : Fds, ino : RealPaths]

\* The table is a list of entries, with room for TableSize.
Table == fds \in Seq(Entry) /\ Len(fds) <= TableSize

\* No file has two names.
OneName == \A p, q \in RealPaths : p # q /\ tree[p] = tree[q] => tree[p] = Nothing

\* A descriptor is open under a real path, also one that open is about to record.
Named == /\ \A fd \in Fds : file[fd] # Nothing => name[fd] \in RealPaths
         /\ \A t \in Threads : call[t] # Nothing => call[t] \in Fds \ Closed

\* No entry of a descriptor that open returned is of an earlier use of it.
Current == \A fd \in Opened : \A i \in DOMAIN fds : fds[i].fd = fd => fds[i].ino = name[fd]

IInv == TypeOK /\ Table /\ OneName /\ Named /\ Current

-----------------------------------------------------------------------------
(* Paths *)

\* A path has one device.
LEMMA OneDevice ==
  ASSUME NEW s \in Spelled, NEW j \in 1 .. Len(s), NEW k \in 1 .. Len(s),
         DeviceAt(s, j), DeviceAt(s, k)
  PROVE  j = k
<1>1. s \in Seq(Devices \cup Names) /\ Devices \cap Names = {} /\ Len(s) \in Nat
  BY FilesAssumption
<1>2. ~(j < k) /\ ~(k < j)
  BY <1>1 DEF DeviceAt
<1> QED
  BY <1>1, <1>2

\* vita_fs_normalize leaves of each path what starts at its device, however
\* many prefixes the runtime has put in front of it.
LEMMA NormalizeIsTarget ==
  ASSUME NEW s \in Spelled
  PROVE  Normalize(s) = Target(s)
<1>1. s \in Seq(Devices \cup Names) /\ Devices \cap Names = {} /\ Len(s) \in Nat /\ App \in Devices
  BY FilesAssumption
<1>2. PICK k \in 1 .. Len(s) : DeviceAt(s, k)
  BY FilesAssumption
<1>3. \A i \in 1 .. (k - 1) : Strips(s, i)
  BY <1>1, <1>2 DEF DeviceAt, Strips
<1>4. ~Strips(s, k)
  BY <1>1, <1>2 DEF DeviceAt, Strips
<1> DEFINE Stops(i) == ~Strips(s, i) /\ \A j \in 1 .. (i - 1) : Strips(s, j)
<1>5. \A i \in 1 .. Len(s) : Stops(i) => i = k
  <2> SUFFICES ASSUME NEW i \in 1 .. Len(s), Stops(i) PROVE i = k
    OBVIOUS
  <2>1. ~(i < k)
    BY <1>1, <1>3
  <2>2. ~(k < i)
    BY <1>1, <1>4
  <2> QED BY <2>1, <2>2, <1>1
<1>6. Stops(k)
  BY <1>3, <1>4
<1>7. k = CHOOSE i \in 1 .. Len(s) : Stops(i)
  BY <1>5, <1>6
<1>8. k = CHOOSE i \in 1 .. Len(s) : DeviceAt(s, i)
  BY <1>2, OneDevice
<1> QED
  BY <1>7, <1>8 DEF Normalize, Target

-----------------------------------------------------------------------------
(* The table *)

\* What vita_fd_record_locked does to the table: it stays a table, the entries
\* of the descriptor have the new number, the others are as they were.
LEMMA RecordProps ==
  ASSUME NEW s \in Seq(Entry), Len(s) <= TableSize, NEW fd \in Fds, NEW ino \in RealPaths
  PROVE  /\ Record(s, fd, ino) \in Seq(Entry)
         /\ Len(Record(s, fd, ino)) <= TableSize
         /\ \A i \in DOMAIN Record(s, fd, ino) :
              IF Record(s, fd, ino)[i].fd = fd
              THEN Record(s, fd, ino)[i].ino = ino
              ELSE i \in DOMAIN s /\ Record(s, fd, ino)[i] = s[i]
<1>1. Len(s) \in Nat /\ TableSize \in Nat /\ DOMAIN s = 1 .. Len(s) /\ \A i \in DOMAIN s : s[i] \in Entry
  BY FilesAssumption
<1>2. CASE \E i \in DOMAIN s : s[i].fd = fd
  <2> DEFINE r == [i \in DOMAIN s |-> IF s[i].fd = fd THEN [s[i] EXCEPT !.ino = ino] ELSE s[i]]
  <2>1. \A i \in DOMAIN s : r[i] \in Entry /\ IF r[i].fd = fd THEN r[i].ino = ino ELSE r[i] = s[i]
    BY <1>1 DEF Entry
  <2>2. r \in Seq(Entry) /\ Len(r) = Len(s) /\ DOMAIN r = DOMAIN s
    BY <1>1, <2>1
  <2>3. Record(s, fd, ino) = r
    BY <1>2 DEF Record
  <2> QED BY <2>1, <2>2, <2>3
<1>3. CASE ~(\E i \in DOMAIN s : s[i].fd = fd) /\ Len(s) < TableSize
  <2> DEFINE e == [fd |-> fd, ino |-> ino]
  <2>1. e \in Entry /\ Record(s, fd, ino) = Append(s, e)
    BY <1>3 DEF Record, Entry
  <2>2. /\ Append(s, e) \in Seq(Entry) /\ Len(Append(s, e)) = Len(s) + 1
        /\ \A i \in 1 .. Len(s) : Append(s, e)[i] = s[i]
        /\ Append(s, e)[Len(s) + 1] = e
        /\ DOMAIN Append(s, e) = 1 .. (Len(s) + 1)
    BY <1>1, <2>1
  <2> QED BY <1>1, <1>3, <2>1, <2>2
<1>4. CASE ~(\E i \in DOMAIN s : s[i].fd = fd) /\ ~(Len(s) < TableSize)
  BY <1>1, <1>4 DEF Record
<1> QED
  BY <1>2, <1>3, <1>4

\* The entries of a descriptor, if any, have a first.
LEMMA LeastIndex ==
  ASSUME NEW T \in SUBSET Nat, T # {}
  PROVE  \E k \in T : \A j \in T : k <= j
<1> DEFINE R == OpToRel(<, Nat)
<1>1. \A x, y \in Nat : x < y => <<x, y>> \in R
  BY SMT DEF OpToRel
<1>2. \E x \in T : \A y \in T : ~(<<y, x>> \in R)
  <2>1. IsWellFoundedOn(R, Nat)
    BY NatLessThanWellFounded
  <2> HIDE DEF R
  <2> QED BY <2>1, WFMin
<1> HIDE DEF R
<1>3. PICK k \in T : \A y \in T : ~(<<y, k>> \in R)
  BY <1>2
<1>4. \A j \in T : ~(j < k)
  BY <1>1, <1>3
<1> QED
  BY <1>4

\* What fstat answers, but for stale descriptors of dup: the path of the
\* descriptor when it is in the table, else a number that no path has.
LEMMA InoProps ==
  ASSUME IInv, NEW fd \in Fds \ (Closed \cup Pending \cup Stale)
  PROVE  FstatIno(fd) = IF fd \in Recorded THEN name[fd] ELSE <<fd + 16>>
<1>1. CASE fd \in Recorded
  <2>1. DOMAIN fds = 1 .. Len(fds) /\ Len(fds) \in Nat
    BY DEF IInv, Table
  <2>2. PICK i \in DOMAIN fds : fds[i].fd = fd
    BY <1>1 DEF Recorded
  <2>3. \E k \in DOMAIN fds : fds[k].fd = fd /\ \A j \in DOMAIN fds : fds[j].fd = fd => k <= j
    <3> DEFINE T == {k \in DOMAIN fds : fds[k].fd = fd}
    <3>1. T \in SUBSET Nat /\ T # {}
      BY <2>1, <2>2
    <3>2. \E k \in T : \A j \in T : k <= j
      BY <3>1, LeastIndex
    <3> QED BY <3>2
  <2>4. (CHOOSE k \in DOMAIN fds : fds[k].fd = fd /\ \A j \in DOMAIN fds : fds[j].fd = fd => k <= j)
          \in {k \in DOMAIN fds : fds[k].fd = fd}
    BY <2>3
  <2> QED BY <1>1, <2>2, <2>4 DEF FstatIno, InoOf, IInv, Current, Recorded
<1>2. CASE fd \notin Recorded
  BY <1>2 DEF FstatIno, InoOf, Recorded, Opened, Stale
<1> QED
  BY <1>1, <1>2

\* No number that fstat makes from a descriptor is a path.
LEMMA NumberIsNoPath ==
  ASSUME NEW fd \in Fds
  PROVE  <<fd + 16>> \notin RealPaths
<1> SUFFICES ASSUME <<fd + 16>> \in RealPaths PROVE FALSE
  OBVIOUS
<1>1. <<fd + 16>>[1] \in Devices /\ fd \in Nat
  BY FilesAssumption DEF DeviceAt
<1>2. fd + 16 \in Devices /\ fd + 16 \in Nat
  BY <1>1
<1> QED
  BY <1>2, FilesAssumption

-----------------------------------------------------------------------------
(* Each step keeps the invariant. *)

\* Nothing is named, open or in the table.
LEMMA InitIInv == Init => IInv
  BY FilesAssumption
  DEF Init, IInv, TypeOK, Table, OneName, Named, Current, Entry, Closed, Opened, Pending

\* open finds the file of a name, or makes one that is neither named nor open.
LEMMA OpenStep ==
  ASSUME IInv, NEW t \in Threads, NEW s \in Spelled, NEW fd \in Fds, Open(t, s, fd)
  PROVE  IInv'
<1> USE DEF IInv
<1>1. PICK p \in RealPaths :
        /\ tree[p] \notin dirs
        /\ \/ tree[p] # Nothing /\ tree' = tree
           \/ tree[p] = Nothing /\ \E f \in Unused : tree' = [tree EXCEPT ![p] = f]
        /\ file' = [file EXCEPT ![fd] = tree'[p]]
        /\ name' = [name EXCEPT ![fd] = p]
  BY DEF Open, Given
<1>2. /\ call[t] = Nothing /\ fd \in Closed /\ dupped' = dupped \ {fd} /\ call' = [call EXCEPT ![t] = fd]
      /\ dirs' = dirs /\ fds' = fds /\ Nothing \notin Ids \cup Fds
  BY FilesAssumption DEF Open
<1>3. /\ tree' \in [RealPaths -> Ids \cup {Nothing}] /\ OneName'
      /\ tree'[p] \in Ids \ dirs
      /\ \A q \in RealPaths : tree[q] # Nothing => tree'[q] = tree[q]
  <2>1. CASE tree[p] # Nothing /\ tree' = tree
    BY <1>1, <2>1 DEF TypeOK, OneName
  <2>2. CASE tree[p] = Nothing /\ \E f \in Unused : tree' = [tree EXCEPT ![p] = f]
    <3>1. PICK f \in Unused : tree' = [tree EXCEPT ![p] = f]
      BY <2>2
    <3>2. f \in Ids \ dirs /\ \A q \in RealPaths : tree[q] # f
      BY DEF Unused, TypeOK
    <3> QED BY <1>2, <2>2, <3>1, <3>2 DEF TypeOK, OneName
  <2> QED BY <1>1, <2>1, <2>2
<1>4. Closed' = Closed \ {fd}
  BY <1>1, <1>2, <1>3 DEF TypeOK, Closed
<1>5. dirs' \subseteq {tree'[q] : q \in RealPaths} \ {Nothing}
  BY <1>2, <1>3 DEF TypeOK
<1>6. file' \in [Fds -> (Ids \ dirs') \cup {Nothing}] /\ name' \in [Fds -> RealPaths \cup {<<>>}]
  BY <1>1, <1>2, <1>3 DEF TypeOK
<1>7. TypeOK'
  BY <1>2, <1>3, <1>4, <1>5, <1>6 DEF TypeOK
<1>8. Table' /\ Named'
  BY <1>1, <1>2, <1>3, <1>4 DEF TypeOK, Table, Named
<1>9. Opened' \subseteq Opened /\ fd \notin Opened'
  BY <1>2, <1>4 DEF TypeOK, Opened, Pending, Named
<1>10. Current'
  BY <1>1, <1>2, <1>9 DEF TypeOK, Current, Opened
<1> QED
  BY <1>3, <1>7, <1>8, <1>10

\* The descriptor gets its entry before open returns it.
LEMMA OpenRecordStep ==
  ASSUME IInv, NEW t \in Threads, OpenRecord(t)
  PROVE  IInv'
<1> USE DEF IInv
<1> DEFINE fd == call[t]
<1>1. /\ fds' = Record(fds, fd, name[fd]) /\ call' = [call EXCEPT ![t] = Nothing]
      /\ tree' = tree /\ dirs' = dirs /\ file' = file /\ name' = name /\ dupped' = dupped
      /\ fd \in Fds \ Closed /\ name[fd] \in RealPaths
  BY DEF OpenRecord, TypeOK, Named, Closed
<1>2. /\ fds' \in Seq(Entry) /\ Len(fds') <= TableSize
      /\ \A i \in DOMAIN fds' : IF fds'[i].fd = fd THEN fds'[i].ino = name[fd]
                                ELSE i \in DOMAIN fds /\ fds'[i] = fds[i]
  BY <1>1, RecordProps DEF Table
<1>3. \A i \in DOMAIN fds' : fds'[i] \in Entry
  BY <1>2
<1>4. Closed' = Closed /\ Opened' \subseteq Opened \cup {fd}
  BY <1>1 DEF Closed, Opened, Pending, TypeOK
<1>5. TypeOK'
  BY <1>1, <1>2, <1>3, <1>4 DEF TypeOK, Entry
<1>6. Table' /\ OneName' /\ Named'
  BY <1>1, <1>2, <1>4 DEF Table, OneName, Named, TypeOK
<1>7. Current'
  BY <1>1, <1>2, <1>4 DEF Current
<1> QED
  BY <1>5, <1>6, <1>7

\* The entry of a closed descriptor stays, but the descriptor is not open.
LEMMA CloseStep ==
  ASSUME IInv, NEW fd \in Fds, Close(fd)
  PROVE  IInv'
<1> USE DEF IInv
<1>1. /\ fd \notin Closed \cup Pending /\ file' = [file EXCEPT ![fd] = Nothing]
      /\ name' = [name EXCEPT ![fd] = <<>>] /\ dupped' = dupped \ {fd}
      /\ tree' = tree /\ dirs' = dirs /\ fds' = fds /\ call' = call
  BY DEF Close
<1>2. Closed' = Closed \cup {fd} /\ Opened' = Opened \ {fd}
  BY <1>1 DEF Closed, Opened, Pending, TypeOK
<1>3. TypeOK'
  BY <1>1, <1>2 DEF TypeOK
<1>4. Table' /\ OneName' /\ Named'
  BY <1>1, <1>2 DEF TypeOK, Table, OneName, Named, Pending
<1>5. Current'
  BY <1>1, <1>2 DEF TypeOK, Current, Opened
<1> QED
  BY <1>3, <1>4, <1>5

\* A dup is not one of the descriptors open returned.
LEMMA DupStep ==
  ASSUME IInv, NEW fd \in Fds, NEW new \in DupFds, Dup(fd, new)
  PROVE  IInv'
<1> USE DEF IInv
<1>1. /\ fd \notin Closed \cup Pending /\ new \in Closed
      /\ file' = [file EXCEPT ![new] = file[fd]]
      /\ name' = [name EXCEPT ![new] = name[fd]] /\ dupped' = dupped \cup {new}
      /\ tree' = tree /\ dirs' = dirs /\ fds' = fds /\ call' = call
      /\ new \in Fds /\ file[fd] # Nothing
  BY FilesAssumption DEF Dup, Closed
<1>2. Closed' = Closed \ {new} /\ Opened' = Opened
  BY <1>1 DEF Closed, Opened, Pending, TypeOK
<1>3. TypeOK'
  BY <1>1, <1>2 DEF TypeOK
<1>4. Table' /\ OneName' /\ Named'
  BY <1>1, <1>2 DEF TypeOK, Table, OneName, Named
<1>5. Current'
  BY <1>1, <1>2 DEF TypeOK, Current, Opened
<1> QED
  BY <1>3, <1>4, <1>5

\* A step that changes the tree only, and keeps names apart.
LEMMA TreeStep ==
  ASSUME IInv, tree' \in [RealPaths -> Ids \cup {Nothing}], OneName',
         dirs' \subseteq {tree'[p] : p \in RealPaths} \ {Nothing},
         \A fd \in Fds : file[fd] \notin dirs',
         file' = file, name' = name, dupped' = dupped, fds' = fds, call' = call
  PROVE  IInv'
<1> USE DEF IInv
<1>1. Closed' = Closed /\ Opened' = Opened
  BY DEF Closed, Opened, Pending
<1>2. TypeOK'
  BY <1>1 DEF TypeOK
<1>3. Table' /\ Named' /\ Current'
  BY <1>1 DEF Table, Named, Current
<1> QED
  BY <1>2, <1>3

\* rename moves the file from one name to the other.
LEMMA RenameStep ==
  ASSUME IInv, NEW s \in Spelled, NEW new \in Spelled, Rename(s, new)
  PROVE  IInv'
<1> USE DEF IInv
<1>1. PICK p \in RealPaths, q \in RealPaths :
        /\ p # q /\ tree[p] # Nothing /\ tree[q] \notin dirs
        /\ tree' = [tree EXCEPT ![p] = Nothing, ![q] = tree[p]]
  BY DEF Rename, Given
<1>2. /\ dirs' = dirs /\ file' = file /\ name' = name /\ dupped' = dupped
      /\ fds' = fds /\ call' = call
  BY DEF Rename
<1>3. tree' \in [RealPaths -> Ids \cup {Nothing}]
  BY <1>1 DEF TypeOK
<1>4. OneName'
  BY <1>1, FilesAssumption DEF TypeOK, OneName
<1>5. dirs' \subseteq {tree'[r] : r \in RealPaths} \ {Nothing}
  <2> SUFFICES ASSUME NEW d \in dirs PROVE d # Nothing /\ \E r \in RealPaths : tree'[r] = d
    BY <1>2
  <2>1. PICK r \in RealPaths : tree[r] = d /\ d # Nothing
    BY DEF TypeOK
  <2>2. tree'[IF r = p THEN q ELSE r] = d
    BY <1>1, <2>1 DEF TypeOK
  <2> QED BY <2>1, <2>2
<1>6. \A fd \in Fds : file[fd] \notin dirs'
  BY <1>2, FilesAssumption DEF TypeOK
<1> QED
  BY <1>2, <1>3, <1>4, <1>5, <1>6, TreeStep

\* unlink takes a name from a file.
LEMMA UnlinkStep ==
  ASSUME IInv, NEW s \in Spelled, Unlink(s)
  PROVE  IInv'
<1> USE DEF IInv
<1>1. PICK p \in RealPaths : /\ tree[p] \notin dirs \cup {Nothing}
                            /\ tree' = [tree EXCEPT ![p] = Nothing]
  BY DEF Unlink, Given
<1>2. /\ dirs' = dirs /\ file' = file /\ name' = name /\ dupped' = dupped
      /\ fds' = fds /\ call' = call
  BY DEF Unlink
<1>3. tree' \in [RealPaths -> Ids \cup {Nothing}] /\ OneName'
  BY <1>1 DEF TypeOK, OneName
<1>4. dirs' \subseteq {tree'[r] : r \in RealPaths} \ {Nothing}
  BY <1>1, <1>2 DEF TypeOK
<1>5. \A fd \in Fds : file[fd] \notin dirs'
  BY <1>2, FilesAssumption DEF TypeOK
<1> QED
  BY <1>2, <1>3, <1>4, <1>5, TreeStep

\* mkdir gives a name to a directory that is new.
LEMMA MkDirStep ==
  ASSUME IInv, NEW s \in Spelled, MkDir(s)
  PROVE  IInv'
<1> USE DEF IInv
<1>1. PICK p \in RealPaths, d \in Unused : /\ tree[p] = Nothing
                                         /\ tree' = [tree EXCEPT ![p] = d]
                                         /\ dirs' = dirs \cup {d}
  BY DEF MkDir, Given
<1>2. file' = file /\ name' = name /\ dupped' = dupped /\ fds' = fds /\ call' = call
  BY DEF MkDir
<1>3. /\ d \in Ids /\ d # Nothing /\ \A q \in RealPaths : tree[q] # d
      /\ \A fd \in Fds : file[fd] # d
  BY FilesAssumption DEF Unused
<1>4. tree' \in [RealPaths -> Ids \cup {Nothing}] /\ OneName'
  BY <1>1, <1>3 DEF TypeOK, OneName
<1>5. dirs' \subseteq {tree'[r] : r \in RealPaths} \ {Nothing}
  BY <1>1, <1>3 DEF TypeOK
<1>6. \A fd \in Fds : file[fd] \notin dirs'
  BY <1>1, <1>3, FilesAssumption DEF TypeOK
<1> QED
  BY <1>2, <1>4, <1>5, <1>6, TreeStep

\* rmdir takes the only name of a directory.
LEMMA RmDirStep ==
  ASSUME IInv, NEW s \in Spelled, RmDir(s)
  PROVE  IInv'
<1> USE DEF IInv
<1>1. PICK p \in RealPaths : /\ tree[p] \in dirs /\ tree' = [tree EXCEPT ![p] = Nothing]
                            /\ dirs' = dirs \ {tree[p]}
  BY DEF RmDir, Given
<1>2. file' = file /\ name' = name /\ dupped' = dupped /\ fds' = fds /\ call' = call
  BY DEF RmDir
<1>3. tree' \in [RealPaths -> Ids \cup {Nothing}] /\ OneName'
  BY <1>1 DEF TypeOK, OneName
<1>4. dirs' \subseteq {tree'[r] : r \in RealPaths} \ {Nothing}
  BY <1>1 DEF TypeOK
<1>5. \A fd \in Fds : file[fd] \notin dirs'
  BY <1>1, FilesAssumption DEF TypeOK
<1> QED
  BY <1>2, <1>3, <1>4, <1>5, TreeStep

\* Every step keeps the invariant.
LEMMA NextIInv == IInv /\ [Next]_vars => IInv'
<1> SUFFICES ASSUME IInv, [Next]_vars PROVE IInv'
  OBVIOUS
<1>1. CASE UNCHANGED vars
  BY <1>1 DEF vars, IInv, TypeOK, Table, OneName, Named, Current, Closed, Opened, Pending
<1>2. CASE Next
  BY <1>2, OpenStep, OpenRecordStep, CloseStep, DupStep, RenameStep, UnlinkStep, MkDirStep, RmDirStep
  DEF Next
<1> QED
  BY <1>1, <1>2

-----------------------------------------------------------------------------
(* The theorems. *)

\* In every reachable state no file has two names, and the entries of a
\* descriptor that open has returned carry the path it was opened under.
THEOREM Invariance == Spec => []IInv
  BY InitIInv, NextIInv, PTL DEF Spec

\* Type correctness; the table of vita_fd_record_locked never overflows.
THEOREM TypeCorrect == Spec => []TypeOK
  BY Invariance, PTL DEF IInv

\* What the invariant says of one descriptor and one spelling.
LEMMA OneInoState == IInv => OneInoPerFile
<1> SUFFICES ASSUME IInv, NEW fd \in Recorded, InPlace(fd), NEW s \in Spelled,
                    Target(s) \in RealPaths, tree[Target(s)] = file[fd]
             PROVE  StatIno(s) = FstatIno(fd)
  BY DEF OneInoPerFile
<1>1. fd \in Opened /\ file[fd] # Nothing /\ name[fd] \in RealPaths
  BY DEF Recorded, Opened, Closed, IInv, Named
<1>2. Target(s) = name[fd]
  BY <1>1 DEF InPlace, IInv, OneName
<1>3. FstatIno(fd) = name[fd]
  BY <1>1, InoProps DEF Opened, Stale
<1> QED
  BY <1>2, <1>3, NormalizeIsTarget DEF StatIno

\* fstat and stat agree on every file that still has its name, under every
\* spelling of it, as long as the table had room for the descriptor.
THEOREM FstatAgrees == Spec => []OneInoPerFile
  BY Invariance, OneInoState, PTL

\* What the invariant says of two descriptors.
LEMMA NoSharedState == IInv => NoSharedIno
<1> SUFFICES ASSUME IInv, NEW fd \in Fds \ (Closed \cup Pending \cup Stale),
                    NEW gd \in Fds \ (Closed \cup Pending \cup Stale),
                    InPlace(fd), InPlace(gd), file[fd] # file[gd]
             PROVE  FstatIno(fd) # FstatIno(gd)
  BY DEF NoSharedIno
<1>1. /\ fd \in Fds /\ gd \in Fds /\ fd # gd /\ name[fd] # name[gd]
      /\ name[fd] \in RealPaths /\ name[gd] \in RealPaths
  BY DEF InPlace, Closed, IInv, Named
<1>2. <<fd + 16>> # <<gd + 16>>
  <2>1. fd \in Nat /\ gd \in Nat
    BY <1>1, FilesAssumption
  <2>2. fd + 16 # gd + 16
    BY <1>1, <2>1
  <2>3. <<fd + 16>>[1] = fd + 16 /\ <<gd + 16>>[1] = gd + 16
    OBVIOUS
  <2> QED BY <2>2, <2>3
<1> QED
  BY <1>1, <1>2, InoProps, NumberIsNoPath

\* Two files that have their names do not have one inode number, whatever
\* descriptors were closed, used again or left out of the table; descriptors of
\* dup are covered as long as no entry of an earlier use stands on their number.
THEOREM NoFalseSharing == Spec => []NoSharedIno
  BY Invariance, NoSharedState, PTL
=============================================================================
