---------------------------- MODULE LauncherProofs -----------------------------
(* Proofs about the launcher and the file calls that run inside it, for every *)
(* number of threads and descriptors, all contents, sizes and texts.          *)
EXTENDS Launcher, WellFoundedInduction, TLAPS

-----------------------------------------------------------------------------
(* The inductive invariant: the file calls *)

FillPCs == {"tell", "seek", "read", "restore", "filled"}
CopyPCs == {"rewindsrc", "rewinddst", "copyread", "copywrite", "copied", "copyfailed"}
Ops == [pc : {"idle"} \cup FillPCs \cup CopyPCs, fd : Fds \cup {NoFd}, dst : Fds \cup {NoFd},
        at : Nat, cur : Nat, start : Nat, left : Nat, mem : Seq(Nat), failed : BOOLEAN,
        moved : BOOLEAN]

\* A fill uses one descriptor and keeps within its memory, a copy uses two.
Shape(o) == /\ o.pc = "idle" => o.fd = NoFd /\ o.dst = NoFd
            /\ o.pc \in FillPCs => o.fd \in Fds /\ o.dst = NoFd
            /\ o.pc \in CopyPCs => o.fd \in Fds /\ o.dst \in Fds /\ o.fd # o.dst
            /\ o.dst \notin Fds => o.left <= Len(o.mem)
OpsOK == op \in [Threads -> Ops] /\ \A t \in Threads : Shape(op[t])

\* The memory of fill o holds the k bytes of file d from o.at on, and zeros.
Holds(o, d, k) == /\ k = 0 \/ o.at + k <= Len(d)
                  /\ k <= Len(o.mem)
                  /\ \A i \in 1 .. Len(o.mem) : o.mem[i] = IF i <= k THEN d[o.at + i] ELSE 0

\* How many bytes there are for it.
There(o, d) == Most(0, Least(Len(o.mem), Len(d) - o.at))

\* The offset behind the bytes it has read.
Behind(o) == o.at + (Len(o.mem) - o.left)

\* A fill of file d, whose offset is p, when nobody else used the descriptor.
FillOK(o, d, p) ==
  /\ o.pc \in {"tell", "seek"} => o.left = Len(o.mem)
  /\ o.pc # "filled" => ~o.moved
  /\ o.pc \in {"tell", "seek"} => p = o.start
  /\ o.pc \in {"seek", "read", "restore"} => o.cur = o.start
  /\ o.pc \in {"tell", "seek", "read"} => Holds(o, d, Len(o.mem) - o.left)
  /\ o.pc \in {"read", "restore"} => p = Behind(o)
  /\ o.pc = "filled" => p = IF o.moved THEN Behind(o) ELSE o.start
  /\ o.pc \in {"restore", "filled"} =>
       \E k \in 0 .. There(o, d) : Holds(o, d, k) /\ (~o.failed => k = There(o, d))

\* The first n bytes of two files are the same.
Same(s, d, n) == /\ n <= Len(s) /\ n <= Len(d)
                 /\ \A i \in 1 .. n : d[i] = s[i]

\* A copy of file s, whose offset is p, to file d, whose offset is q, likewise.
CopyOK(o, s, p, d, q) ==
  /\ o.pc = "rewinddst" => p = 0
  /\ o.pc \in {"copyread", "copied"} => p = q /\ Same(s, d, q)
  /\ o.pc = "copied" => p = Len(s)
  /\ o.pc = "copywrite" =>
       /\ p = q + Len(o.mem) /\ p <= Len(s) /\ Same(s, d, q)
       /\ \A i \in 1 .. Len(o.mem) : o.mem[i] = s[q + i]

Undisturbed(t) ==
  t \notin touched =>
    LET o == op[t]
    IN  /\ o.pc \in FillPCs => FillOK(o, data[o.fd], off[o.fd])
        /\ o.pc \in CopyPCs => CopyOK(o, data[o.fd], off[o.fd], data[o.dst], off[o.dst])

IOInv == IOTypeOK /\ OpsOK /\ \A t \in Threads : Undisturbed(t)

-----------------------------------------------------------------------------
(* The inductive invariant: the launcher *)

\* The lines that a thread has logged when it is somewhere.
MainPast ==
  CASE main = "entry"  -> {}
    [] main = "vita2d" -> {"entry"}
    [] main = "font"   -> {"entry", "vita2d"}
    [] main = "stdio"  -> {"entry", "vita2d", "font"}
    [] main = "creating" -> {"entry", "vita2d", "font", "stdio"}
    [] main \in {"create", "join", "joined", "createFailed"} ->
         {"entry", "vita2d", "font", "stdio", "creating"}
    [] main = "exit3" \/ exit = 3 ->
         {"entry", "vita2d", "font", "stdio", "creating", "createFailed"}
    [] OTHER -> {"entry", "vita2d", "font", "stdio", "creating", "joined"}

WorkerPast ==
  CASE worker \in {"none", "started"} -> {}
    [] worker \in {"pick", "target"} -> {"started"}
    [] worker \in {"init", "initFailed", "up"} -> {"started", "target"}
    [] worker \in {"open", "loading", "openFailed", "invoking"} -> {"started", "target", "up"}
    [] worker \in {"exec", "returned"} -> {"started", "target", "up", "invoking"}
    [] worker \in {"cleanup", "done"} -> {"started", "target", "up", "invoking", "returned"}
    [] OTHER -> CASE ret = 1 -> {"started", "target", "initFailed"}
                  [] ret = 2 -> {"started", "target", "up", "openFailed"}
                  [] OTHER   -> {"started", "target", "up", "invoking", "returned", "done"}

\* This launch has logged the lines both have passed, each once, but for the
\* lost ones; nothing comes after main's last, or before its first.
Logged(new) == /\ ToSet(new) \subseteq MainPast \cup WorkerPast
               /\ lost = 0 => ToSet(new) = MainPast \cup WorkerPast
               /\ IsInjective(new)
               /\ "joined" \in ToSet(new) => Last(new) = "joined"
               /\ lost = 0 /\ main # "entry" => new # <<>> /\ new[1] = "entry"

\* It did so behind whatever the log held before.
LogOK == /\ lost \in 0 .. MaxLost
         /\ \E old, new \in Seq(Lines) : log = old \o new /\ Logged(new)

\* What the places of the two threads say of each other and of the codes.
Together ==
  /\ worker = "none" <=> \/ main \in {"entry", "vita2d", "font", "stdio", "creating", "create",
                                      "createFailed", "exit3"}
                         \/ exit = 3
  /\ main \in {"joined", "exit"} \/ exit \in {0, 4} => worker = "ended"
  /\ main = "over" <=> exit # NoExit
  /\ worker # "ended" => ret = 0
  /\ worker = "ended" => ret \in {1, 2, 42} /\ (exit = 0 => ret = 42) /\ (exit = 4 => ret # 42)

\* What ran is what was picked and opened.
Ran == /\ ran # Nothing <=> worker \in {"returned", "cleanup", "done"} \/ ret = 42
       /\ ran \in {Nothing, target}
       /\ worker \in {"loading", "invoking", "exec", "returned", "cleanup", "done"} \/ ret = 42
            => target \in DOMAIN Image

\* Where the threads may be, and the codes.
Places == /\ main \in DOMAIN MainAfter \cup {"create", "join", "exit3", "exit", "over"}
          /\ worker \in DOMAIN WorkerAfter \cup {"none", "pick", "init", "open", "loading", "exec",
                                                "cleanup", "ended"}
          /\ ret \in {0, 1, 2, 42}
          /\ exit \in {NoExit, 0, 3, 4}

LInv == Places /\ LogOK /\ Together /\ Ran /\ TargetNamed
IInv == IOInv /\ LInv

-----------------------------------------------------------------------------
(* One thread does something with the files. *)

\* The files and offsets of those threads that are not touched are as before.
Frame(t) == /\ touched' \subseteq Threads
            /\ \A s \in Threads \ {t} : s \notin touched' =>
                 s \notin touched /\ \A f \in Uses(s) : data'[f] = data[f] /\ off'[f] = off[f]

FilesOK == /\ data \in [Fds -> Seq(Nat)] /\ \A f \in Fds : Len(data[f]) <= MaxSize
           /\ off \in [Fds -> Nat]

\* No call is in progress, and every file is one of those there may be.
LEMMA InitIO == IOInit => IOInv
<1> SUFFICES ASSUME IOInit PROVE IOInv
  OBVIOUS
<1> USE FileIOAssumption DEF IOInit
<1>1. Idle \in Ops /\ Shape(Idle) /\ Idle.pc = "idle"
  BY DEF Idle, Ops, Shape, FillPCs, CopyPCs
<1>2. OpsOK
  BY <1>1 DEF OpsOK
<1>3. data \in [Fds -> Seq(Nat)] /\ \A f \in Fds : Len(data[f]) <= MaxSize
  <2>1. data \in [Fds -> Seq(Nat \ {0})]
    OBVIOUS
  <2>2. \A f \in Fds : data[f] \in Seq(Nat \ {0})
    BY <2>1
  <2>3. \A f \in Fds : data[f] \in Seq(Nat)
    BY <2>2
  <2> QED
    BY <2>1, <2>3
<1>4. IOTypeOK
  <2>1. \A t \in Threads : op[t] = Idle
    OBVIOUS
  <2>2. Idle.left \in 0 .. Len(Idle.mem)
    BY DEF Idle
  <2>3. Idle.mem \in Seq(Nat) /\ Idle.fd = NoFd /\ Idle.dst = NoFd
    BY DEF Idle
  <2> QED
    BY <1>1, <1>3, <2>1, <2>2, <2>3 DEF IOTypeOK
<1>5. \A t \in Threads : Undisturbed(t)
  BY <1>1 DEF Undisturbed, FillPCs, CopyPCs
<1> QED
  BY <1>2, <1>4, <1>5 DEF IOInv

\* The call of t becomes another one that is right, and the others see nothing.
LEMMA OneMoves ==
  ASSUME IOInv, NEW t \in Threads,
         op' \in [Threads -> Ops], \A s \in Threads \ {t} : op'[s] = op[s],
         FilesOK', Frame(t), calls' \in 0 .. MaxCalls, Shape(op'[t]), (Undisturbed(t))'
  PROVE  IOInv'
<1>1. \A s \in Threads : Shape(op'[s])
  BY DEF IOInv, OpsOK
<1>2. OpsOK'
  BY <1>1 DEF OpsOK
<1>3. IOTypeOK'
  <2>1. \A s \in Threads : /\ op'[s] \in Ops
                           /\ op'[s].left \in 0 .. Len(op'[s].mem) \/ op'[s].dst \in Fds
    BY <1>1 DEF Shape, Ops
  <2> QED
    BY <2>1 DEF IOTypeOK, FilesOK, Frame, Ops, FillPCs, CopyPCs
<1>4. ASSUME NEW s \in Threads, s # t PROVE (Undisturbed(s))'
  <2> SUFFICES ASSUME s \notin touched' PROVE (Undisturbed(s))'
    BY DEF Undisturbed
  <2>1. op'[s] = op[s] /\ s \notin touched /\ Undisturbed(s) /\ Shape(op[s])
    BY <1>4 DEF IOInv, OpsOK, Shape, Frame
  <2>2. \A f \in {op[s].fd, op[s].dst} \cap Fds : data'[f] = data[f] /\ off'[f] = off[f]
    BY <1>4 DEF Frame, Uses
  <2> QED
    BY <2>1, <2>2 DEF Undisturbed, Shape
<1> QED
  BY <1>2, <1>3, <1>4 DEF IOInv

\* When t uses f, only the files and offsets of others than those touched stay.
LEMMA TouchFrame ==
  ASSUME IOInv, NEW t \in Threads, NEW f \in Fds, Touch(t, f),
         \A g \in Fds \ {f} : data'[g] = data[g] /\ off'[g] = off[g]
  PROVE  Frame(t) /\ (t \in touched' <=> t \in touched)
BY DEF IOInv, IOTypeOK, Touch, Frame, Uses

\* A step that changes neither file nor offset nor who is touched.
LEMMA QuietFrame ==
  ASSUME IOInv, NEW t \in Threads, UNCHANGED <<data, off>>,
         touched' = touched \/ touched' = touched \ {t}
  PROVE  Frame(t) /\ FilesOK'
BY DEF IOInv, IOTypeOK, Frame, FilesOK

\* The call of t is changed as a whole.
LEMMA OpNext ==
  ASSUME op \in [Threads -> Ops], NEW t \in Threads, NEW o \in Ops, op' = [op EXCEPT ![t] = o]
  PROVE  op' \in [Threads -> Ops] /\ op'[t] = o /\ \A s \in Threads \ {t} : op'[s] = op[s]
OBVIOUS

\* After lseek told where the offset is, it is where the fill found it.
LEMMA TellStep ==
  ASSUME IOInv, NEW t \in Threads, Tell(t)
  PROVE  IOInv'
<1> USE DEF IOInv
<1>1. op[t] \in Ops /\ op[t].pc = "tell" /\ Shape(op[t]) /\ op[t].fd \in Fds /\ Undisturbed(t)
  BY DEF Tell, At, OpsOK, Shape, FillPCs
<1>2. off[op[t].fd] \in Nat
  BY <1>1 DEF IOTypeOK
<1>3. op' \in [Threads -> Ops] /\ \A s \in Threads \ {t} : op'[s] = op[s]
  <2> DEFINE o == [op[t] EXCEPT !.cur = off[op[t].fd], !.pc = "seek"]
             p == [op[t] EXCEPT !.failed = TRUE, !.pc = "filled"]
  <2>1. o \in Ops /\ p \in Ops
    BY <1>1, <1>2 DEF Ops, FillPCs
  <2>2. op' = [op EXCEPT ![t] = o] \/ op' = [op EXCEPT ![t] = p]
    BY <1>1 DEF Tell, OpsOK
  <2> QED
    BY <2>1, <2>2, OpNext DEF OpsOK
<1>4. Frame(t) /\ FilesOK' /\ calls' \in 0 .. MaxCalls /\ touched' = touched
  BY QuietFrame DEF Tell, IOTypeOK
<1>5. /\ op'[t].fd = op[t].fd /\ op'[t].dst = op[t].dst /\ op'[t].mem = op[t].mem
      /\ op'[t].left = op[t].left /\ op'[t].at = op[t].at /\ op'[t].start = op[t].start
      /\ op'[t].moved = op[t].moved
      /\ \/ op'[t].pc = "seek" /\ op'[t].cur = off[op[t].fd] /\ op'[t].failed = op[t].failed
         \/ op'[t].pc = "filled" /\ op'[t].failed
  BY <1>1 DEF Tell, OpsOK, Ops
<1>6. Shape(op'[t])
  BY <1>1, <1>5 DEF Shape, FillPCs, CopyPCs
<1>7. ASSUME t \notin touched PROVE FillOK(op'[t], data[op[t].fd], off[op[t].fd])
  <2> DEFINE o == op[t] d == data[op[t].fd]
  <2>1. FillOK(o, d, off[o.fd])
    BY <1>1, <1>7 DEF Undisturbed, FillPCs
  <2>2. off[o.fd] = o.start /\ o.left = Len(o.mem) /\ ~o.moved /\ Holds(op'[t], d, 0)
    <3>1. /\ off[o.fd] = o.start /\ o.left = Len(o.mem) /\ ~o.moved
          /\ Holds(o, d, Len(o.mem) - o.left)
      BY <1>1, <2>1 DEF FillOK
    <3>2. Len(o.mem) - o.left = 0
      BY <1>1, <3>1 DEF Ops
    <3>3. Holds(o, d, 0)
      BY <3>1, <3>2
    <3> QED
      BY <1>5, <3>1, <3>3 DEF Holds
  <2>3. 0 \in 0 .. There(op'[t], d)
    BY <1>1, <1>5 DEF There, Most, Least, Ops, IOTypeOK
  <2>4. Len(op'[t].mem) - op'[t].left = 0
    BY <1>1, <1>5, <2>2 DEF Ops
  <2>5. CASE op'[t].pc = "seek"
    BY <1>5, <2>2, <2>4, <2>5 DEF FillOK
  <2>6. CASE op'[t].pc = "filled"
    BY <1>5, <2>2, <2>3, <2>6 DEF FillOK
  <2> QED
    BY <1>5, <2>5, <2>6
<1>8. (Undisturbed(t))'
  BY <1>4, <1>5, <1>7 DEF Undisturbed, Tell, CopyPCs
<1> QED
  BY <1>3, <1>4, <1>6, <1>8, OneMoves

\* The first read will be where the mapping starts.
LEMMA SeekStep ==
  ASSUME IOInv, NEW t \in Threads, Seek(t)
  PROVE  IOInv'
<1> USE DEF IOInv
<1> DEFINE o == op[t] d == data[op[t].fd]
<1>1. o \in Ops /\ o.pc = "seek" /\ Shape(o) /\ o.fd \in Fds /\ Undisturbed(t)
  BY DEF Seek, At, OpsOK, Shape, FillPCs
<1>2. calls' \in 0 .. MaxCalls /\ data' = data
  BY DEF Seek, IOTypeOK
<1>3. CASE off' = [off EXCEPT ![o.fd] = o.at] /\ Touch(t, o.fd) /\ Goto(t, "read")
  <2> DEFINE q == [op[t] EXCEPT !.pc = "read"]
  <2>1. q \in Ops /\ Shape(q)
    BY <1>1 DEF Ops, Shape, FillPCs, CopyPCs
  <2>2. op' \in [Threads -> Ops] /\ op'[t] = q /\ \A s \in Threads \ {t} : op'[s] = op[s]
    BY <1>1, <1>3, <2>1, OpNext DEF OpsOK, Goto
  <2>3. FilesOK' /\ off'[o.fd] = o.at /\ \A g \in Fds \ {o.fd} : data'[g] = data[g] /\ off'[g] = off[g]
    BY <1>1, <1>2, <1>3 DEF FilesOK, IOTypeOK, Ops
  <2>4. Frame(t) /\ (t \in touched' <=> t \in touched)
    BY <1>1, <1>3, <2>3, TouchFrame
  <2>5. ASSUME t \notin touched PROVE FillOK(q, d, o.at)
    <3>1. Holds(o, d, Len(o.mem) - o.left) /\ o.left = Len(o.mem) /\ o.cur = o.start /\ ~o.moved
      BY <1>1, <2>5 DEF Undisturbed, FillOK, FillPCs
    <3>2. /\ q.pc = "read" /\ q.mem = o.mem /\ q.left = o.left /\ q.at = o.at /\ q.cur = o.cur
          /\ q.start = o.start /\ q.moved = o.moved
      BY <1>1 DEF Ops
    <3>3. Holds(q, d, Len(q.mem) - q.left)
      BY <3>1, <3>2 DEF Holds
    <3>4. Behind(q) = o.at
      BY <1>1, <3>1, <3>2 DEF Behind, Ops
    <3> HIDE DEF q
    <3> QED
      BY <3>1, <3>2, <3>3, <3>4 DEF FillOK
  <2>6. (Undisturbed(t))'
    BY <1>1, <1>2, <2>2, <2>3, <2>4, <2>5 DEF Undisturbed, CopyPCs
  <2> QED
    BY <1>2, <2>1, <2>2, <2>3, <2>4, <2>6, OneMoves
<1>4. CASE op' = [op EXCEPT ![t].failed = TRUE, ![t].pc = "filled"] /\ UNCHANGED <<off, touched>>
  <2> DEFINE q == [op[t] EXCEPT !.failed = TRUE, !.pc = "filled"]
  <2>1. q \in Ops /\ Shape(q)
    BY <1>1 DEF Ops, Shape, FillPCs, CopyPCs
  <2>2. op' \in [Threads -> Ops] /\ op'[t] = q /\ \A s \in Threads \ {t} : op'[s] = op[s]
    <3>1. op' = [op EXCEPT ![t] = q]
      BY <1>4 DEF OpsOK
    <3> QED
      BY <2>1, <3>1, OpNext DEF OpsOK
  <2>3. Frame(t) /\ FilesOK'
    BY <1>2, <1>4, QuietFrame
  <2>4. ASSUME t \notin touched PROVE FillOK(q, d, off[o.fd])
    <3>1. /\ Holds(o, d, Len(o.mem) - o.left) /\ o.left = Len(o.mem) /\ off[o.fd] = o.start
          /\ ~o.moved
      BY <1>1, <2>4 DEF Undisturbed, FillOK, FillPCs
    <3>2. Holds(q, d, 0)
      BY <1>1, <3>1 DEF Holds, Ops
    <3>3. 0 \in 0 .. There(q, d)
      BY <1>1 DEF There, Most, Least, Ops, IOTypeOK
    <3>4. q.pc = "filled" /\ q.failed /\ q.start = o.start /\ q.moved = o.moved
      BY <1>1 DEF Ops
    <3> HIDE DEF q
    <3> QED
      BY <3>1, <3>2, <3>3, <3>4 DEF FillOK
  <2>5. (Undisturbed(t))'
    BY <1>1, <1>2, <1>4, <2>2, <2>4 DEF Undisturbed, CopyPCs
  <2> QED
    BY <1>2, <2>1, <2>2, <2>3, <2>5, OneMoves
<1> QED
  BY <1>3, <1>4 DEF Seek

\* The offset is again where it was, or still behind what was read.
LEMMA RestoreStep ==
  ASSUME IOInv, NEW t \in Threads, Restore(t)
  PROVE  IOInv'
<1> USE DEF IOInv
<1> DEFINE o == op[t] d == data[op[t].fd]
<1>1. o \in Ops /\ o.pc = "restore" /\ Shape(o) /\ o.fd \in Fds /\ Undisturbed(t)
  BY DEF Restore, At, OpsOK, Shape, FillPCs
<1>2. calls' \in 0 .. MaxCalls /\ data' = data
  BY DEF Restore, IOTypeOK
<1>3. ASSUME t \notin touched, NEW q \in Ops, NEW p, q.pc = "filled", q.failed = o.failed,
             q.mem = o.mem, q.left = o.left, q.at = o.at, q.start = o.start,
             \/ ~q.moved /\ p = o.cur
             \/ q.moved /\ p = off[o.fd]
      PROVE  FillOK(q, d, p)
  <2>1. FillOK(o, d, off[o.fd])
    BY <1>1, <1>3 DEF Undisturbed, FillPCs
  <2>2. There(q, d) = There(o, d)
    BY <1>3 DEF There
  <2>3. \A k \in 0 .. There(o, d) : Holds(o, d, k) => Holds(q, d, k)
    BY <1>3 DEF Holds
  <2>4. \E k \in 0 .. There(q, d) : Holds(q, d, k) /\ (~q.failed => k = There(q, d))
    BY <1>1, <1>3, <2>1, <2>2, <2>3 DEF FillOK
  <2>5. o.cur = o.start /\ off[o.fd] = Behind(o) /\ Behind(q) = Behind(o)
    BY <1>1, <1>3, <2>1 DEF FillOK, Behind
  <2>6. p = IF q.moved THEN Behind(q) ELSE q.start
    BY <1>3, <2>5
  <2> QED
    BY <1>3, <2>4, <2>6 DEF FillOK
<1>4. CASE off' = [off EXCEPT ![o.fd] = o.cur] /\ Touch(t, o.fd) /\ Goto(t, "filled")
  <2> DEFINE q == [op[t] EXCEPT !.pc = "filled"]
  <2>1. q \in Ops /\ Shape(q)
    BY <1>1 DEF Ops, Shape, FillPCs, CopyPCs
  <2>2. op' \in [Threads -> Ops] /\ op'[t] = q /\ \A s \in Threads \ {t} : op'[s] = op[s]
    BY <1>1, <1>4, <2>1, OpNext DEF OpsOK, Goto
  <2>3. FilesOK' /\ off'[o.fd] = o.cur /\ \A g \in Fds \ {o.fd} : data'[g] = data[g] /\ off'[g] = off[g]
    BY <1>1, <1>2, <1>4 DEF FilesOK, IOTypeOK, Ops
  <2>4. Frame(t) /\ (t \in touched' <=> t \in touched)
    BY <1>1, <1>4, <2>3, TouchFrame
  <2>5. /\ q.pc = "filled" /\ q.failed = o.failed /\ q.mem = o.mem /\ q.left = o.left
        /\ q.at = o.at /\ q.start = o.start /\ q.moved = o.moved /\ q.fd = o.fd
    BY <1>1 DEF Ops
  <2>6. ASSUME t \notin touched PROVE FillOK(q, d, o.cur)
    <3>1. ~o.moved
      BY <1>1, <2>6 DEF Undisturbed, FillPCs, FillOK
    <3> HIDE DEF q
    <3> QED
      BY <1>3, <2>1, <2>5, <2>6, <3>1
  <2>7. (Undisturbed(t))'
    <3> HIDE DEF q
    <3> QED
      BY <1>1, <1>2, <2>2, <2>3, <2>4, <2>5, <2>6 DEF Undisturbed, CopyPCs
  <2> QED
    BY <1>2, <2>1, <2>2, <2>3, <2>4, <2>7, OneMoves
<1>5. CASE op' = [op EXCEPT ![t].moved = TRUE, ![t].pc = "filled"] /\ UNCHANGED <<off, touched>>
  <2> DEFINE q == [op[t] EXCEPT !.moved = TRUE, !.pc = "filled"]
  <2>1. q \in Ops /\ Shape(q)
    BY <1>1 DEF Ops, Shape, FillPCs, CopyPCs
  <2>2. op' \in [Threads -> Ops] /\ op'[t] = q /\ \A s \in Threads \ {t} : op'[s] = op[s]
    <3>1. op' = [op EXCEPT ![t] = q]
      BY <1>5 DEF OpsOK
    <3> QED
      BY <2>1, <3>1, OpNext DEF OpsOK
  <2>3. Frame(t) /\ FilesOK'
    BY <1>2, <1>5, QuietFrame
  <2>4. /\ q.pc = "filled" /\ q.failed = o.failed /\ q.mem = o.mem /\ q.left = o.left
        /\ q.at = o.at /\ q.start = o.start /\ q.moved /\ q.fd = o.fd
    BY <1>1 DEF Ops
  <2>5. ASSUME t \notin touched PROVE FillOK(q, d, off[o.fd])
    <3> HIDE DEF q
    <3> QED
      BY <1>3, <2>1, <2>4, <2>5
  <2>6. (Undisturbed(t))'
    <3> HIDE DEF q
    <3> QED
      BY <1>1, <1>2, <1>5, <2>2, <2>4, <2>5 DEF Undisturbed, CopyPCs
  <2> QED
    BY <1>2, <2>1, <2>2, <2>3, <2>6, OneMoves
<1> QED
  BY <1>4, <1>5 DEF Restore

\* A part of a file.
LEMMA PartOf ==
  ASSUME NEW s \in Seq(Nat), NEW p \in Nat, NEW r \in Nat \ {0}, p + r <= Len(s)
  PROVE  /\ SubSeq(s, p + 1, p + r) \in Seq(Nat) /\ Len(SubSeq(s, p + 1, p + r)) = r
         /\ \A i \in 1 .. r : SubSeq(s, p + 1, p + r)[i] = s[p + i] /\ s[p + i] \in Nat
<1> DEFINE b == SubSeq(s, p + 1, p + r)
<1>1. Len(s) \in Nat /\ \A i \in 1 .. Len(s) : s[i] \in Nat
  OBVIOUS
<1>2. b = [i \in 1 .. r |-> s[p + i]]
  <2>1. b = [i \in 1 .. ((p + r) - (p + 1) + 1) |-> s[(p + 1) + i - 1]]
    OBVIOUS
  <2>2. (p + r) - (p + 1) + 1 = r /\ \A i \in 1 .. r : (p + 1) + i - 1 = p + i
    OBVIOUS
  <2> QED
    BY <2>1, <2>2
<1>3. \A i \in 1 .. r : p + i \in 1 .. Len(s)
  BY <1>1
<1> HIDE DEF b
<1>4. \A i \in 1 .. r : b[i] = s[p + i] /\ s[p + i] \in Nat
  BY <1>1, <1>2, <1>3
<1>5. b \in Seq(Nat) /\ Len(b) = r
  BY <1>1, <1>2, <1>3
<1> QED
  BY <1>4, <1>5 DEF b

\* n bytes of a file of l came to a memory of m that starts at a.
LEMMA ThereIs ==
  ASSUME NEW m \in Nat, NEW l \in Nat, NEW a \in Nat, NEW n \in 0 .. m, n = 0 \/ a + n <= l
  PROVE  /\ n \in 0 .. Most(0, Least(m, l - a))
         /\ a + n >= l \/ n = m => n = Most(0, Least(m, l - a))
BY DEF Most, Least

\* The places of the next r bytes behind n, and what is left of l.
LEMMA NextBytes ==
  ASSUME NEW n \in Nat, NEW l \in Nat, NEW r \in 1 .. l
  PROVE  /\ \A i \in n + 1 .. n + r : i - n \in 1 .. r
         /\ l - r \in Nat /\ l - r <= n + l
OBVIOUS

\* A function on 1 .. k is a sequence.
LEMMA AsSeq ==
  ASSUME NEW k \in Nat, NEW m, m = [i \in 1 .. k |-> m[i]], \A i \in 1 .. k : m[i] \in Nat
  PROVE  m \in Seq(Nat) /\ Len(m) = k
OBVIOUS

\* What read answers: an error, the end of the file, or bytes that are there.
LEMMA ReadGives ==
  ASSUME IOTypeOK, NEW f \in Fds, NEW n \in Nat, NEW r \in read(f, n)
  PROVE  /\ r \in Int /\ off[f] \in Nat /\ data[f] \in Seq(Nat) /\ Len(data[f]) \in Nat
         /\ r = -1 \/ (r = 0 /\ off[f] >= Len(data[f])) \/ (r \in 1 .. n /\ off[f] + r <= Len(data[f]))
<1>1. off[f] \in Nat /\ data[f] \in Seq(Nat) /\ Len(data[f]) \in Nat
  BY DEF IOTypeOK
<1>2. Least(n, Len(data[f]) - off[f]) <= n /\ Least(n, Len(data[f]) - off[f]) <= Len(data[f]) - off[f]
  BY <1>1 DEF Least
<1> DEFINE k == Least(n, Len(data[f]) - off[f])
<1>3. k \in Int
  BY <1>1 DEF Least
<1> HIDE DEF k
<1>4. r = -1 \/ (off[f] >= Len(data[f]) /\ r = 0) \/ (~(off[f] >= Len(data[f])) /\ r \in 1 .. k)
  BY DEF read, k
<1>5. k <= n /\ k <= Len(data[f]) - off[f]
  BY <1>2 DEF k
<1> QED
  BY <1>1, <1>3, <1>4, <1>5

\* The bytes that come.
LEMMA BytesGiven ==
  ASSUME IOTypeOK, NEW f \in Fds, NEW r \in Nat \ {0}, off[f] + r <= Len(data[f])
  PROVE  /\ Bytes(f, r) \in Seq(Nat) /\ Len(Bytes(f, r)) = r
         /\ \A i \in 1 .. r : Bytes(f, r)[i] = data[f][off[f] + i] /\ data[f][off[f] + i] \in Nat
BY PartOf DEF Bytes, IOTypeOK

\* The loop has read the bytes up to its offset, and ends when there are no more.
LEMMA FillReadStep ==
  ASSUME IOInv, NEW t \in Threads, FillRead(t)
  PROVE  IOInv'
<1> USE DEF IOInv
<1> DEFINE o == op[t] f == op[t].fd d == data[f] n == Len(o.mem) - o.left
<1>1. o \in Ops /\ o.pc = "read" /\ Shape(o) /\ f \in Fds /\ o.dst = NoFd /\ Undisturbed(t)
  BY DEF FillRead, At, OpsOK, Shape, FillPCs
<1>2. calls' \in 0 .. MaxCalls /\ data' = data /\ Touch(t, f)
  BY DEF FillRead, IOTypeOK
<1>3. n \in Nat /\ o.left \in Nat /\ Len(o.mem) \in Nat /\ o.at \in Nat /\ n + o.left = Len(o.mem)
  BY <1>1, FileIOAssumption DEF Ops, Shape
<1>4. ASSUME t \notin touched
      PROVE  off[f] = o.at + n /\ Holds(o, d, n) /\ o.cur = o.start /\ ~o.moved
  BY <1>1, <1>4 DEF Undisturbed, FillOK, FillPCs, Behind
<1>5. PICK r \in read(f, o.left) :
        IF r > 0
        THEN /\ op' = [op EXCEPT ![t].mem = Stored(t, r), ![t].left = @ - r,
                                 ![t].pc = IF r = op[t].left THEN "restore" ELSE "read"]
             /\ Advance(f, r)
        ELSE /\ op' = [op EXCEPT ![t].failed = (r < 0), ![t].pc = "restore"]
             /\ UNCHANGED off
  BY DEF FillRead, Room
<1>6. /\ r \in Int /\ off[f] \in Nat /\ d \in Seq(Nat) /\ Len(d) \in Nat
      /\ r = -1 \/ (r = 0 /\ off[f] >= Len(d)) \/ (r \in 1 .. o.left /\ off[f] + r <= Len(d))
  BY <1>1, <1>3, ReadGives
<1>7. CASE r > 0
  <2> DEFINE m == Stored(t, r) w == IF r = o.left THEN "restore" ELSE "read"
             q == [op[t] EXCEPT !.mem = m, !.left = o.left - r, !.pc = w]
  <2>1. r \in 1 .. o.left /\ off[f] + r <= Len(d)
    BY <1>6, <1>7
  <2>2. m \in Seq(Nat) /\ Len(m) = Len(o.mem)
        /\ \A i \in 1 .. Len(o.mem) : m[i] = IF i \in n + 1 .. n + r THEN d[off[f] + (i - n)] ELSE o.mem[i]
    <3>1. m = [i \in 1 .. Len(o.mem) |-> IF i \in n + 1 .. n + r THEN Bytes(f, r)[i - n] ELSE o.mem[i]]
      BY <1>1 DEF Stored, Ops
    <3>2. \A i \in n + 1 .. n + r : i - n \in 1 .. r
      <4> HIDE DEF n
      <4> QED
        BY <1>3, <2>1, NextBytes
    <3>3. \A i \in 1 .. r : Bytes(f, r)[i] = d[off[f] + i] /\ Bytes(f, r)[i] \in Nat
      <4>1. r \in Nat \ {0}
        BY <1>6, <1>7
      <4>2. \A i \in 1 .. r : Bytes(f, r)[i] = data[f][off[f] + i] /\ data[f][off[f] + i] \in Nat
        BY <1>1, <2>1, <4>1, BytesGiven
      <4> QED
        BY <4>2
    <3>4. \A i \in 1 .. Len(o.mem) : o.mem[i] \in Nat
      BY <1>1 DEF Ops
    <3> HIDE DEF m, n, d
    <3>5. \A i \in 1 .. Len(o.mem) : m[i] \in Nat /\ m[i] = IF i \in n + 1 .. n + r THEN d[off[f] + (i - n)] ELSE o.mem[i]
      BY <3>1, <3>2, <3>3, <3>4
    <3>6. m = [i \in 1 .. Len(o.mem) |-> m[i]]
      BY <3>1
    <3>7. m \in Seq(Nat) /\ Len(m) = Len(o.mem)
      BY <1>3, <3>5, <3>6, AsSeq
    <3> QED
      BY <3>5, <3>7
  <2>3. q \in Ops /\ Shape(q) /\ q.mem = m /\ q.left = o.left - r /\ q.pc = w /\ q.at = o.at /\ q.fd = f
        /\ q.start = o.start /\ q.cur = o.cur /\ q.failed = o.failed /\ q.moved = o.moved
    <3>1. w \in {"restore", "read"}
      OBVIOUS
    <3>2. o.left - r \in Nat /\ o.left - r <= Len(m)
      <4> DEFINE l == o.left
      <4>1. n \in Nat /\ l \in Nat /\ r \in 1 .. l /\ n + l = Len(m)
        BY <1>3, <2>1, <2>2
      <4> HIDE DEF n, m, l
      <4>2. l - r \in Nat /\ l - r <= n + l
        BY <4>1, NextBytes
      <4> QED
        BY <4>1, <4>2 DEF l
    <3> HIDE DEF m, w
    <3> DEFINE l == o.left - r
    <3>3. l \in Nat /\ l <= Len(m)
      BY <3>2
    <3> HIDE DEF l
    <3>4. q = [op[t] EXCEPT !.mem = m, !.left = l, !.pc = w]
      BY DEF l
    <3>5. q \in Ops /\ q.mem = m /\ q.left = l /\ q.pc = w /\ q.at = o.at /\ q.fd = f /\ q.dst = o.dst
          /\ q.start = o.start /\ q.cur = o.cur /\ q.failed = o.failed /\ q.moved = o.moved
      BY <1>1, <2>2, <3>1, <3>3, <3>4 DEF Ops, FillPCs
    <3>6. Shape(q)
      BY <1>1, <3>1, <3>3, <3>5 DEF Shape, FillPCs, CopyPCs
    <3> QED
      BY <3>5, <3>6 DEF l
  <2>4. op' \in [Threads -> Ops] /\ op'[t] = q /\ \A s \in Threads \ {t} : op'[s] = op[s]
    <3>1. op' = [op EXCEPT ![t] = q]
      BY <1>5, <1>7 DEF OpsOK
    <3> QED
      BY <2>3, <3>1, OpNext DEF OpsOK
  <2>5. FilesOK' /\ off'[f] = off[f] + r /\ \A g \in Fds \ {f} : data'[g] = data[g] /\ off'[g] = off[g]
    <3>1. off' = [off EXCEPT ![f] = off[f] + r] /\ off[f] + r \in Nat
      BY <1>5, <1>6, <1>7 DEF Advance
    <3>2. off \in [Fds -> Nat]
      BY DEF IOTypeOK
    <3> QED
      BY <1>1, <1>2, <3>1, <3>2 DEF FilesOK, IOTypeOK
  <2>6. Frame(t) /\ (t \in touched' <=> t \in touched)
    BY <1>1, <1>2, <2>5, TouchFrame
  <2>7. ASSUME t \notin touched PROVE FillOK(q, d, off[f] + r)
    <3>1. off[f] = o.at + n /\ Holds(o, d, n) /\ o.cur = o.start /\ ~o.moved
      BY <1>4, <2>7
    <3> HIDE DEF q, m, n, d
    <3>2. n + r <= Len(q.mem) /\ q.at + (n + r) <= Len(d) /\ Len(q.mem) - q.left = n + r
      <4>1. n + r <= Len(o.mem) /\ Len(o.mem) - (o.left - r) = n + r
        BY <1>3, <2>1
      <4>2. o.at + (n + r) <= Len(d)
        BY <1>3, <1>6, <2>1, <3>1
      <4> QED
        BY <2>2, <2>3, <4>1, <4>2
    <3>3. \A i \in 1 .. Len(q.mem) : q.mem[i] = IF i <= n + r THEN d[q.at + i] ELSE 0
      <4> SUFFICES ASSUME NEW i \in 1 .. Len(o.mem) PROVE m[i] = IF i <= n + r THEN d[o.at + i] ELSE 0
        BY <2>2, <2>3
      <4>1. m[i] = IF i \in n + 1 .. n + r THEN d[off[f] + (i - n)] ELSE o.mem[i]
        BY <2>2
      <4>2. o.mem[i] = IF i <= n THEN d[o.at + i] ELSE 0
        BY <3>1 DEF Holds
      <4>3. i \in n + 1 .. n + r => off[f] + (i - n) = o.at + i
        BY <1>3, <2>1, <3>1
      <4> QED
        BY <1>3, <2>1, <4>1, <4>2, <4>3
    <3>4. Holds(q, d, n + r)
      BY <3>2, <3>3 DEF Holds
    <3>5. r = o.left => There(q, d) = n + r
      <4>1. ASSUME r = o.left PROVE n + r = Len(q.mem) /\ Len(q.mem) \in Nat
        BY <1>3, <2>1, <2>2, <2>3, <4>1
      <4>2. q.at \in Nat /\ Len(d) \in Nat /\ q.at + (n + r) <= Len(d)
        BY <1>3, <1>6, <2>3, <3>2
      <4> QED
        BY <4>1, <4>2 DEF There, Most, Least
    <3>6. w \in {"restore", "read"} /\ (w = "restore" => r = o.left)
      OBVIOUS
    <3>7. n + r \in 0 .. (n + r)
      BY <1>3, <2>1
    <3>8. w = "restore" => \E k \in 0 .. There(q, d) : Holds(q, d, k) /\ (~q.failed => k = There(q, d))
      BY <3>4, <3>5, <3>6, <3>7
    <3>9. off[f] + r = Behind(q)
      <4>1. off[f] + r = q.at + (n + r)
        BY <1>3, <1>6, <2>1, <2>3, <3>1
      <4> QED
        BY <3>2, <4>1 DEF Behind
    <3>10. q.pc \in {"restore", "read"} /\ q.cur = q.start /\ ~q.moved
      BY <2>3, <3>1, <3>6
    <3>11. Holds(q, d, Len(q.mem) - q.left)
      BY <3>2, <3>4
    <3>12. q.pc = "restore" => \E k \in 0 .. There(q, d) : Holds(q, d, k) /\ (~q.failed => k = There(q, d))
      BY <2>3, <3>8
    <3> QED
      BY <3>9, <3>10, <3>11, <3>12 DEF FillOK
  <2>8. (Undisturbed(t))'
    <3>1. q.pc \in FillPCs /\ q.pc \notin CopyPCs
      BY <2>3 DEF FillPCs, CopyPCs
    <3> QED
      BY <1>2, <2>3, <2>4, <2>5, <2>6, <2>7, <3>1 DEF Undisturbed
  <2> QED
    BY <1>2, <2>3, <2>4, <2>5, <2>6, <2>8, OneMoves
<1>8. CASE ~(r > 0)
  <2> DEFINE e == (r < 0) q == [op[t] EXCEPT !.failed = e, !.pc = "restore"]
  <2>1. q \in Ops /\ Shape(q) /\ q.pc = "restore" /\ q.failed = e /\ q.cur = o.cur /\ q.start = o.start
        /\ q.fd = f /\ q.mem = o.mem /\ q.at = o.at /\ q.left = o.left /\ q.moved = o.moved
    <3>1. e \in BOOLEAN
      OBVIOUS
    <3> HIDE DEF e
    <3> QED
      BY <1>1, <3>1 DEF Ops, Shape, FillPCs, CopyPCs
  <2>2. op' \in [Threads -> Ops] /\ op'[t] = q /\ \A s \in Threads \ {t} : op'[s] = op[s]
    <3>1. op' = [op EXCEPT ![t] = q]
      BY <1>5, <1>8 DEF OpsOK
    <3> QED
      BY <2>1, <3>1, OpNext DEF OpsOK
  <2>3. FilesOK' /\ off' = off
    BY <1>2, <1>5, <1>8 DEF FilesOK, IOTypeOK
  <2>4. Frame(t) /\ (t \in touched' <=> t \in touched)
    BY <1>1, <1>2, <2>3, TouchFrame
  <2>5. ASSUME t \notin touched PROVE FillOK(q, d, off[f])
    <3>1. off[f] = o.at + n /\ Holds(o, d, n) /\ o.cur = o.start /\ ~o.moved
      BY <1>4, <2>5
    <3>2. Holds(q, d, n)
      BY <1>1, <3>1 DEF Holds, Ops
    <3>3. n \in 0 .. There(q, d) /\ (r = 0 => n = There(q, d))
      <4>1. There(q, d) = Most(0, Least(Len(o.mem), Len(d) - o.at))
        BY <2>1 DEF There
      <4>2. n = 0 \/ o.at + n <= Len(d)
        BY <3>1 DEF Holds
      <4>3. r = 0 => o.at + n >= Len(d)
        BY <1>6, <3>1
      <4>4. n \in 0 .. Len(o.mem) /\ Len(d) \in Nat /\ Len(o.mem) \in Nat /\ o.at \in Nat
        BY <1>3, <1>6
      <4> DEFINE k == Len(o.mem) l == Len(d) a == o.at
      <4> HIDE DEF n, d, q, k, l, a
      <4>5. /\ n \in 0 .. Most(0, Least(k, l - a))
            /\ a + n >= l => n = Most(0, Least(k, l - a))
        BY <4>2, <4>4, ThereIs DEF k, l, a
      <4> QED
        BY <4>1, <4>3, <4>5 DEF k, l, a
    <3>4. q.pc = "restore" /\ q.cur = q.start /\ ~q.moved /\ off[f] = Behind(q)
      BY <2>1, <3>1 DEF Behind
    <3>5. ~q.failed => r = 0
      <4>1. e \/ r = 0
        BY <1>6, <1>8
      <4> QED
        BY <2>1, <4>1
    <3> QED
      BY <3>2, <3>3, <3>4, <3>5 DEF FillOK
  <2>6. (Undisturbed(t))'
    BY <1>1, <1>2, <2>2, <2>3, <2>4, <2>5 DEF Undisturbed, CopyPCs
  <2> QED
    BY <1>2, <2>1, <2>2, <2>3, <2>4, <2>6, OneMoves
<1> QED
  BY <1>7, <1>8

-----------------------------------------------------------------------------
(* One thread copies. *)

\* A copy in another place.
LEMMA CopyGoes ==
  ASSUME IOInv, NEW t \in Threads, op[t].pc \in CopyPCs, NEW w \in CopyPCs, Goto(t, w)
  PROVE  /\ op' \in [Threads -> Ops] /\ \A s \in Threads \ {t} : op'[s] = op[s]
         /\ op'[t] \in Ops /\ Shape(op'[t]) /\ op'[t].pc = w /\ op'[t].fd = op[t].fd
         /\ op'[t].dst = op[t].dst /\ op'[t].mem = op[t].mem
<1> USE DEF IOInv
<1> DEFINE q == [op[t] EXCEPT !.pc = w]
<1>1. op[t] \in Ops /\ Shape(op[t])
  BY DEF OpsOK
<1>2. q \in Ops /\ q.pc = w /\ q.fd = op[t].fd /\ q.dst = op[t].dst /\ q.mem = op[t].mem
      /\ q.left = op[t].left
  BY <1>1 DEF Ops
<1>3. Shape(q)
  BY <1>1, <1>2 DEF Shape, FillPCs, CopyPCs
<1>4. op' \in [Threads -> Ops] /\ op'[t] = q /\ \A s \in Threads \ {t} : op'[s] = op[s]
  BY <1>2, OpNext DEF OpsOK, Goto
<1> QED
  BY <1>2, <1>3, <1>4

\* A copy that failed says nothing of the files.
LEMMA CopyFails ==
  ASSUME IOInv, NEW t \in Threads, op[t].pc \in CopyPCs, Goto(t, "copyfailed"),
         FilesOK', Frame(t), calls' \in 0 .. MaxCalls
  PROVE  IOInv'
<1>1. /\ op' \in [Threads -> Ops] /\ \A s \in Threads \ {t} : op'[s] = op[s]
      /\ Shape(op'[t]) /\ op'[t].pc = "copyfailed"
  BY CopyGoes DEF CopyPCs
<1>2. (Undisturbed(t))'
  BY <1>1 DEF Undisturbed, FillPCs, CopyOK
<1> QED
  BY <1>1, <1>2, OneMoves

\* An offset is 0; after the second, nothing is copied yet and both are.
LEMMA RewindStep ==
  ASSUME IOInv, NEW t \in Threads, NEW f \in Fds, NEW w \in {"rewinddst", "copyread"},
         op[t].pc \in CopyPCs, Rewind(t, f, w),
         w = "rewinddst" => f = op[t].fd,
         w = "copyread" => f = op[t].dst /\ op[t].pc = "rewinddst"
  PROVE  IOInv'
<1> USE DEF IOInv
<1> DEFINE o == op[t]
<1>1. o \in Ops /\ Shape(o) /\ o.fd \in Fds /\ o.dst \in Fds /\ o.fd # o.dst /\ Undisturbed(t)
  BY DEF OpsOK, Shape
<1>2. calls' \in 0 .. MaxCalls /\ data' = data
  BY DEF Rewind, IOTypeOK
<1>3. CASE off' = [off EXCEPT ![f] = 0] /\ Touch(t, f) /\ Goto(t, w)
  <2>1. /\ op' \in [Threads -> Ops] /\ \A s \in Threads \ {t} : op'[s] = op[s]
        /\ Shape(op'[t]) /\ op'[t].pc = w /\ op'[t].fd = o.fd /\ op'[t].dst = o.dst
    BY <1>3, CopyGoes DEF CopyPCs
  <2>2. FilesOK' /\ off'[f] = 0 /\ \A g \in Fds \ {f} : data'[g] = data[g] /\ off'[g] = off[g]
    BY <1>2, <1>3 DEF FilesOK, IOTypeOK
  <2>3. Frame(t) /\ (t \in touched' <=> t \in touched)
    BY <1>3, <2>2, TouchFrame
  <2>4. ASSUME t \notin touched PROVE CopyOK(op'[t], data[o.fd], off'[o.fd], data[o.dst], off'[o.dst])
    <3>1. CASE w = "rewinddst"
      BY <2>1, <2>2, <3>1 DEF CopyOK
    <3>2. CASE w = "copyread"
      <4>1. off[o.fd] = 0
        BY <1>1, <2>4, <3>2 DEF Undisturbed, CopyOK, CopyPCs
      <4>2. off'[o.fd] = 0 /\ off'[o.dst] = 0
        BY <1>1, <2>2, <3>2, <4>1
      <4>3. Same(data[o.fd], data[o.dst], 0)
        BY <1>1 DEF Same, IOTypeOK
      <4> QED
        BY <2>1, <3>2, <4>2, <4>3 DEF CopyOK
    <3> QED
      BY <3>1, <3>2
  <2>5. (Undisturbed(t))'
    BY <1>2, <2>1, <2>3, <2>4 DEF Undisturbed, FillPCs
  <2> QED
    BY <1>2, <2>1, <2>2, <2>3, <2>5, OneMoves
<1>4. CASE Goto(t, "copyfailed") /\ UNCHANGED <<off, touched>>
  BY <1>2, <1>4, QuietFrame, CopyFails
<1> QED
  BY <1>3, <1>4 DEF Rewind

\* What was read is the next part of the source; at its end all is copied.
LEMMA CopyReadStep ==
  ASSUME IOInv, NEW t \in Threads, CopyRead(t)
  PROVE  IOInv'
<1> USE DEF IOInv
<1> DEFINE o == op[t] s == data[op[t].fd] p == off[op[t].fd] d == data[op[t].dst] q == off[op[t].dst]
<1>1. o \in Ops /\ Shape(o) /\ o.pc = "copyread" /\ o.pc \in CopyPCs
      /\ o.fd \in Fds /\ o.dst \in Fds /\ o.fd # o.dst /\ Undisturbed(t)
  BY DEF CopyRead, At, OpsOK, Shape, CopyPCs
<1>2. calls' \in 0 .. MaxCalls /\ data' = data /\ Touch(t, o.fd)
  BY DEF CopyRead, IOTypeOK
<1>3. ASSUME t \notin touched PROVE p = q /\ Same(s, d, q)
  BY <1>1, <1>3 DEF Undisturbed, CopyOK
<1>4. PICK r \in read(o.fd, CopyBuffer) :
        IF CopyMore(r)
        THEN /\ op' = [op EXCEPT ![t].mem = Bytes(op[t].fd, r), ![t].pc = "copywrite"]
             /\ Advance(op[t].fd, r)
        ELSE /\ Goto(t, IF r < 0 THEN "copyfailed" ELSE "copied")
             /\ UNCHANGED off
  BY DEF CopyRead
<1>5. /\ r \in Int /\ p \in Nat /\ s \in Seq(Nat) /\ Len(s) \in Nat
      /\ r = -1 \/ (r = 0 /\ p >= Len(s)) \/ (r \in 1 .. CopyBuffer /\ p + r <= Len(s))
  BY <1>1, FileIOAssumption, ReadGives
<1>6. q \in Nat /\ d \in Seq(Nat)
  BY <1>1 DEF IOTypeOK
<1>7. CASE r > 0
  <2> DEFINE m == Bytes(op[t].fd, r) n == [op[t] EXCEPT !.mem = m, !.pc = "copywrite"]
  <2>1. r \in Nat \ {0} /\ p + r <= Len(s)
    BY <1>5, <1>7
  <2>2. m \in Seq(Nat) /\ Len(m) = r /\ \A i \in 1 .. r : m[i] = s[p + i]
    BY <1>1, <2>1, BytesGiven
  <2>3. n \in Ops /\ Shape(n) /\ n.mem = m /\ n.pc = "copywrite" /\ n.fd = o.fd /\ n.dst = o.dst
    <3> HIDE DEF m
    <3> QED
      BY <1>1, <2>2 DEF Ops, Shape, FillPCs, CopyPCs
  <2>4. op' \in [Threads -> Ops] /\ op'[t] = n /\ \A u \in Threads \ {t} : op'[u] = op[u]
    <3>1. op' = [op EXCEPT ![t] = n]
      BY <1>4, <1>7 DEF OpsOK, CopyMore
    <3> QED
      BY <2>3, <3>1, OpNext DEF OpsOK
  <2>5. FilesOK' /\ off'[o.fd] = p + r /\ \A g \in Fds \ {o.fd} : data'[g] = data[g] /\ off'[g] = off[g]
    <3>1. off' = [off EXCEPT ![o.fd] = off[o.fd] + r] /\ off[o.fd] + r \in Nat
      BY <1>4, <1>5, <1>7 DEF Advance, CopyMore
    <3>2. off \in [Fds -> Nat]
      BY DEF IOTypeOK
    <3> QED
      BY <1>1, <1>2, <3>1, <3>2 DEF FilesOK, IOTypeOK
  <2>6. Frame(t) /\ (t \in touched' <=> t \in touched)
    BY <1>1, <1>2, <2>5, TouchFrame
  <2>7. ASSUME t \notin touched PROVE CopyOK(n, s, p + r, d, q)
    <3>1. p = q /\ Same(s, d, q)
      BY <1>3, <2>7
    <3> HIDE DEF n, m, s, p, d, q
    <3> QED
      BY <1>5, <1>6, <2>1, <2>2, <2>3, <3>1 DEF CopyOK
  <2>8. (Undisturbed(t))'
    <3>1. off'[o.dst] = q
      BY <1>1, <2>5
    <3> QED
      BY <1>2, <2>3, <2>4, <2>5, <2>6, <2>7, <3>1 DEF Undisturbed, FillPCs
  <2> QED
    BY <1>2, <2>3, <2>4, <2>5, <2>6, <2>8, OneMoves
<1>8. CASE ~(r > 0)
  <2>1. off' = off /\ Goto(t, IF r < 0 THEN "copyfailed" ELSE "copied") /\ FilesOK'
    BY <1>2, <1>4, <1>8 DEF CopyMore, FilesOK, IOTypeOK
  <2>2. Frame(t) /\ (t \in touched' <=> t \in touched)
    BY <1>1, <1>2, <2>1, TouchFrame
  <2>3. CASE r < 0
    BY <1>1, <1>2, <2>1, <2>2, <2>3, CopyFails
  <2>4. CASE ~(r < 0)
    <3>1. p >= Len(s)
      BY <1>5, <1>8, <2>4
    <3>2. /\ op' \in [Threads -> Ops] /\ \A u \in Threads \ {t} : op'[u] = op[u]
          /\ Shape(op'[t]) /\ op'[t].pc = "copied" /\ op'[t].fd = o.fd /\ op'[t].dst = o.dst
      <4>1. Goto(t, "copied")
        BY <2>1, <2>4
      <4> QED
        BY <1>1, <4>1, CopyGoes DEF CopyPCs
    <3>3. ASSUME t \notin touched PROVE CopyOK(op'[t], s, p, d, q)
      <4>1. p = q /\ Same(s, d, q)
        BY <1>3, <3>3
      <4>2. p = Len(s)
        BY <1>5, <3>1, <4>1 DEF Same
      <4> QED
        BY <3>2, <4>1, <4>2 DEF CopyOK
    <3>4. (Undisturbed(t))'
      BY <1>2, <2>1, <2>2, <3>2, <3>3 DEF Undisturbed, FillPCs
    <3> QED
      BY <1>2, <2>1, <2>2, <3>2, <3>4, OneMoves
  <2> QED
    BY <2>3, <2>4
<1> QED
  BY <1>7, <1>8

\* A file after a write of b at its offset.
LEMMA WrittenIs ==
  ASSUME IOTypeOK, NEW f \in Fds, NEW b \in Seq(Nat)
  PROVE  LET k == Most(Len(data[f]), off[f] + Len(b))
         IN  /\ Written(f, b) \in Seq(Nat) /\ Len(Written(f, b)) = k
             /\ \A i \in 1 .. k : Written(f, b)[i] =
                  IF i \in off[f] + 1 .. off[f] + Len(b) THEN b[i - off[f]]
                  ELSE IF i <= Len(data[f]) THEN data[f][i] ELSE 0
<1> DEFINE d == data[f] p == off[f] k == Most(Len(d), p + Len(b)) m == Written(f, b)
<1>1. d \in Seq(Nat) /\ p \in Nat /\ Len(d) \in Nat /\ Len(b) \in Nat
  BY DEF IOTypeOK
<1>2. k \in Nat
  BY <1>1 DEF Most
<1>3. /\ \A i \in 1 .. Len(d) : d[i] \in Nat
      /\ \A i \in 1 .. Len(b) : b[i] \in Nat
  BY <1>1
<1>4. m = [i \in 1 .. k |-> IF i \in p + 1 .. p + Len(b) THEN b[i - p]
                            ELSE IF i <= Len(d) THEN d[i] ELSE 0]
  BY DEF Written
<1> HIDE DEF d, p, k, m
<1>5. \A i \in 1 .. k : /\ m[i] = IF i \in p + 1 .. p + Len(b) THEN b[i - p]
                                  ELSE IF i <= Len(d) THEN d[i] ELSE 0
                        /\ m[i] \in Nat
  <2> SUFFICES ASSUME NEW i \in 1 .. k
               PROVE  /\ m[i] = IF i \in p + 1 .. p + Len(b) THEN b[i - p]
                                ELSE IF i <= Len(d) THEN d[i] ELSE 0
                      /\ m[i] \in Nat
    OBVIOUS
  <2>1. m[i] = IF i \in p + 1 .. p + Len(b) THEN b[i - p] ELSE IF i <= Len(d) THEN d[i] ELSE 0
    BY <1>4
  <2>2. i \in p + 1 .. p + Len(b) => i - p \in 1 .. Len(b)
    BY <1>1
  <2>3. i <= Len(d) => i \in 1 .. Len(d)
    BY <1>1, <1>2
  <2> QED
    BY <1>3, <2>1, <2>2, <2>3
<1>6. m = [i \in 1 .. k |-> m[i]]
  BY <1>4
<1>7. m \in Seq(Nat) /\ Len(m) = k
  BY <1>2, <1>5, <1>6, AsSeq
<1> QED
  BY <1>5, <1>7 DEF d, p, k, m

\* What write answers: an error, or how many bytes there was room for.
LEMMA WriteGives ==
  ASSUME IOTypeOK, NEW f \in Fds, NEW n \in Nat, NEW w \in write(f, n)
  PROVE  w \in Int /\ (w > 0 => w <= n /\ off[f] + w <= MaxSize)
<1>1. off[f] \in Nat /\ MaxSize \in Nat
  BY FileIOAssumption DEF IOTypeOK
<1>2. Most(0, MaxSize - off[f]) \in Nat
  BY <1>1 DEF Most
<1>3. w = -1 \/ w \in 0 .. Least(n, Most(0, MaxSize - off[f]))
  BY DEF write
<1>4. w \in Int /\ (w > 0 => w <= n /\ w <= Most(0, MaxSize - off[f]))
  BY <1>2, <1>3 DEF Least
<1> QED
  BY <1>1, <1>4 DEF Most

\* The first bytes of a buffer.
LEMMA FirstOf ==
  ASSUME NEW s \in Seq(Nat), NEW r \in Nat, r <= Len(s)
  PROVE  /\ SubSeq(s, 1, r) \in Seq(Nat) /\ Len(SubSeq(s, 1, r)) = r
         /\ r = Len(s) => SubSeq(s, 1, r) = s
OBVIOUS

\* A file that has the first q bytes of s, and then the next that are written.
LEMMA MoreSame ==
  ASSUME NEW s \in Seq(Nat), NEW d \in Seq(Nat), NEW n \in Seq(Nat), NEW mem \in Seq(Nat),
         NEW q \in Nat, Same(s, d, q), q + Len(mem) <= Len(s),
         \A i \in 1 .. Len(mem) : mem[i] = s[q + i],
         Len(n) = Most(Len(d), q + Len(mem)),
         \A i \in 1 .. Most(Len(d), q + Len(mem)) :
           n[i] = IF i \in q + 1 .. q + Len(mem) THEN mem[i - q]
                  ELSE IF i <= Len(d) THEN d[i] ELSE 0
  PROVE  Same(s, n, q + Len(mem))
<1>1. Len(s) \in Nat /\ Len(d) \in Nat /\ Len(n) \in Nat /\ Len(mem) \in Nat
  OBVIOUS
<1>2. q + Len(mem) <= Len(n) /\ Len(n) = Most(Len(d), q + Len(mem))
  BY <1>1 DEF Most
<1>3. ASSUME NEW i \in 1 .. (q + Len(mem)) PROVE n[i] = s[i]
  <2> DEFINE k == Most(Len(d), q + Len(mem))
  <2>1. n[i] = IF i \in q + 1 .. q + Len(mem) THEN mem[i - q] ELSE IF i <= Len(d) THEN d[i] ELSE 0
    <3>1. k \in Nat /\ q + Len(mem) <= k
      BY <1>1, <1>2
    <3>2. \A j \in 1 .. k : n[j] = IF j \in q + 1 .. q + Len(mem) THEN mem[j - q]
                                   ELSE IF j <= Len(d) THEN d[j] ELSE 0
      OBVIOUS
    <3> HIDE DEF k
    <3>3. i \in 1 .. k
      BY <1>1, <3>1
    <3> QED
      BY <3>2, <3>3
  <2>2. CASE i > q
    <3>1. i \in q + 1 .. q + Len(mem) /\ i - q \in 1 .. Len(mem) /\ q + (i - q) = i
      BY <1>1, <2>2
    <3> QED
      BY <2>1, <3>1
  <2>3. CASE i <= q
    <3>1. i \in 1 .. q /\ i <= Len(d) /\ ~(i \in q + 1 .. q + Len(mem)) /\ d[i] = s[i]
      BY <1>1, <2>3 DEF Same
    <3> QED
      BY <2>1, <3>1
  <2> QED
    BY <1>1, <2>2, <2>3
<1> QED
  BY <1>2, <1>3 DEF Same

\* What was written is what was read, behind what was copied before.
LEMMA CopyWriteStep ==
  ASSUME IOInv, NEW t \in Threads, CopyWrite(t)
  PROVE  IOInv'
<1> USE DEF IOInv
<1> DEFINE o == op[t] s == data[op[t].fd] p == off[op[t].fd] d == data[op[t].dst] q == off[op[t].dst]
           l == Len(op[t].mem)
<1>1. o \in Ops /\ Shape(o) /\ o.pc = "copywrite" /\ o.pc \in CopyPCs
      /\ o.fd \in Fds /\ o.dst \in Fds /\ o.fd # o.dst /\ Undisturbed(t)
  BY DEF CopyWrite, At, OpsOK, Shape, CopyPCs
<1>2. calls' \in 0 .. MaxCalls /\ Touch(t, o.dst)
  BY DEF CopyWrite, IOTypeOK
<1>3. PICK w \in write(o.dst, l) :
        /\ data' = [data EXCEPT ![o.dst] = IF Most(w, 0) = 0 THEN @
                                           ELSE Written(o.dst, SubSeq(op[t].mem, 1, Most(w, 0)))]
        /\ Advance(o.dst, Most(w, 0))
        /\ Goto(t, IF WroteAll(t, w) THEN "copyread" ELSE "copyfailed")
  BY DEF CopyWrite
<1>4. /\ q \in Nat /\ d \in Seq(Nat) /\ Len(d) \in Nat /\ Len(d) <= MaxSize /\ l \in Nat
      /\ o.mem \in Seq(Nat) /\ s \in Seq(Nat) /\ Len(s) \in Nat /\ p \in Nat
  BY <1>1 DEF IOTypeOK, Ops
<1>5. w \in Int /\ (w > 0 => w <= l /\ q + w <= MaxSize)
  BY <1>1, <1>4, WriteGives
<1>6. data \in [Fds -> Seq(Nat)] /\ off \in [Fds -> Nat] /\ \A g \in Fds : Len(data[g]) <= MaxSize
  BY DEF IOTypeOK
<1>7. /\ FilesOK'
      /\ \A g \in Fds \ {o.dst} : data'[g] = data[g] /\ off'[g] = off[g]
      /\ w > 0 => off'[o.dst] = q + w /\ data'[o.dst] = Written(o.dst, SubSeq(o.mem, 1, w))
  <2>1. CASE w > 0
    <3> DEFINE b == SubSeq(o.mem, 1, w) n == Written(o.dst, b)
    <3>1. Most(w, 0) = w /\ w \in Nat \ {0}
      BY <1>5, <2>1 DEF Most
    <3>2. b \in Seq(Nat) /\ Len(b) = w
      BY <1>4, <1>5, <3>1, FirstOf
    <3>3. n \in Seq(Nat) /\ Len(n) = Most(Len(d), q + w)
      BY <1>1, <3>2, WrittenIs
    <3>4. Len(n) <= MaxSize
      BY <1>4, <1>5, <2>1, <3>3 DEF Most
    <3>5. data' = [data EXCEPT ![o.dst] = n] /\ off' = [off EXCEPT ![o.dst] = q + w] /\ q + w \in Nat
      <4>1. data' = [data EXCEPT ![o.dst] = n]
        BY <1>3, <3>1
      <4>2. off' = [off EXCEPT ![o.dst] = q + w]
        BY <1>3, <3>1 DEF Advance
      <4> QED
        BY <1>4, <3>1, <4>1, <4>2
    <3> HIDE DEF n
    <3> QED
      BY <1>1, <1>6, <3>3, <3>4, <3>5 DEF FilesOK, n
  <2>2. CASE ~(w > 0)
    <3>1. Most(w, 0) = 0
      BY <1>5, <2>2 DEF Most
    <3>2. data' = data /\ off' = off
      BY <1>1, <1>3, <1>4, <1>6, <3>1 DEF Advance
    <3> QED
      BY <1>5, <1>6, <2>2, <3>2 DEF FilesOK
  <2> QED
    BY <2>1, <2>2
<1>8. Frame(t) /\ (t \in touched' <=> t \in touched)
  BY <1>1, <1>2, <1>7, TouchFrame
<1>9. CASE WroteAll(t, w)
  <2>1. Goto(t, "copyread") /\ w = l
    BY <1>3, <1>9 DEF WroteAll
  <2>2. /\ op' \in [Threads -> Ops] /\ \A u \in Threads \ {t} : op'[u] = op[u]
        /\ Shape(op'[t]) /\ op'[t].pc = "copyread" /\ op'[t].fd = o.fd /\ op'[t].dst = o.dst
    BY <1>1, <2>1, CopyGoes DEF CopyPCs
  <2>3. ASSUME t \notin touched PROVE CopyOK(op'[t], s, p, data'[o.dst], off'[o.dst])
    <3>1. p = q + l /\ p <= Len(s) /\ Same(s, d, q) /\ \A i \in 1 .. l : o.mem[i] = s[q + i]
      BY <1>1, <2>3 DEF Undisturbed, CopyOK
    <3>2. CASE l = 0
      <4>1. Most(w, 0) = 0
        BY <2>1, <3>2 DEF Most
      <4>2. data' = data /\ off' = off
        BY <1>1, <1>3, <1>4, <1>6, <4>1 DEF Advance
      <4>3. p = q
        BY <1>4, <3>1, <3>2
      <4> QED
        BY <2>2, <3>1, <4>2, <4>3 DEF CopyOK
    <3>3. CASE l > 0
      <4> DEFINE b == SubSeq(o.mem, 1, w) n == Written(o.dst, b)
      <4>1. b = o.mem
        BY <1>4, <2>1, FirstOf
      <4>2. off'[o.dst] = q + l /\ data'[o.dst] = n
        BY <1>7, <2>1, <3>3
      <4>3. n \in Seq(Nat) /\ Len(n) = Most(Len(d), q + Len(o.mem))
            /\ \A i \in 1 .. Most(Len(d), q + Len(o.mem)) : n[i] =
                 IF i \in q + 1 .. q + Len(o.mem) THEN o.mem[i - q]
                 ELSE IF i <= Len(d) THEN d[i] ELSE 0
        <5>1. n = Written(o.dst, o.mem)
          BY <4>1
        <5> HIDE DEF n, b
        <5>2. /\ Written(o.dst, o.mem) \in Seq(Nat)
              /\ Len(Written(o.dst, o.mem)) = Most(Len(d), q + Len(o.mem))
              /\ \A i \in 1 .. Most(Len(d), q + Len(o.mem)) : Written(o.dst, o.mem)[i] =
                   IF i \in q + 1 .. q + Len(o.mem) THEN o.mem[i - q]
                   ELSE IF i <= Len(d) THEN d[i] ELSE 0
          BY <1>1, <1>4, WrittenIs
        <5> QED
          BY <5>1, <5>2
      <4> HIDE DEF n, b
      <4>4. q + Len(o.mem) <= Len(s) /\ Same(s, d, q) /\ \A i \in 1 .. Len(o.mem) : o.mem[i] = s[q + i]
        BY <3>1
      <4>5. Same(s, n, q + Len(o.mem))
        BY <1>4, <4>3, <4>4, MoreSame
      <4> QED
        BY <2>2, <3>1, <4>2, <4>5 DEF CopyOK
    <3> QED
      BY <1>4, <3>2, <3>3
  <2>4. (Undisturbed(t))'
    <3>1. data'[o.fd] = s /\ off'[o.fd] = p
      BY <1>1, <1>7
    <3> QED
      BY <1>8, <2>2, <2>3, <3>1 DEF Undisturbed, FillPCs
  <2> QED
    BY <1>2, <1>7, <1>8, <2>2, <2>4, OneMoves
<1>10. CASE ~WroteAll(t, w)
  BY <1>1, <1>2, <1>3, <1>7, <1>8, <1>10, CopyFails
<1> QED
  BY <1>9, <1>10

-----------------------------------------------------------------------------
(* The calls begin and end, and other code reads. *)

\* A call begins, about which nothing is to be said before its first step.
LEMMA CallBegins ==
  ASSUME IOInv, NEW t \in Threads, NEW o \in Ops, Call(t, o), Shape(o),
         o.pc \in FillPCs => FillOK(o, data[o.fd], off[o.fd]),
         o.pc \in CopyPCs => CopyOK(o, data[o.fd], off[o.fd], data[o.dst], off[o.dst])
  PROVE  IOInv'
<1> USE DEF IOInv
<1>1. calls' \in 0 .. MaxCalls /\ data' = data /\ off' = off
  BY FileIOAssumption DEF Call, IOTypeOK
<1>2. op' \in [Threads -> Ops] /\ op'[t] = o /\ \A s \in Threads \ {t} : op'[s] = op[s]
  BY OpNext DEF OpsOK, Call
<1>3. Frame(t) /\ FilesOK'
  BY <1>1, QuietFrame DEF Call
<1>4. (Undisturbed(t))'
  BY <1>1, <1>2 DEF Undisturbed
<1> QED
  BY <1>1, <1>2, <1>3, <1>4, OneMoves

\* A fill begins with zeros.
LEMMA FillBegins ==
  ASSUME IOInv, NEW t \in Threads, NEW f \in Fds, NEW at \in Nat, NEW len \in Nat, Fill(t, f, at, len)
  PROVE  IOInv'
<1> USE DEF IOInv
<1> DEFINE m == [i \in 1 .. len |-> 0]
           o == [Idle EXCEPT !.pc = "tell", !.fd = f, !.at = at, !.start = off[f], !.left = len, !.mem = m]
<1>1. m \in Seq(Nat) /\ Len(m) = len /\ \A i \in 1 .. len : m[i] = 0
  OBVIOUS
<1>2. off[f] \in Nat
  BY DEF IOTypeOK
<1>3. Call(t, o)
  BY DEF Fill
<1>4. o \in Ops /\ o.pc = "tell" /\ o.fd = f /\ o.dst = NoFd /\ o.at = at /\ o.start = off[f]
      /\ o.left = len /\ o.mem = m /\ ~o.moved
  <2> HIDE DEF m
  <2> QED
    BY <1>1, <1>2 DEF Idle, Ops, FillPCs
<1> HIDE DEF o, m
<1>5. Shape(o)
  BY <1>1, <1>4 DEF Shape, FillPCs, CopyPCs
<1>6. FillOK(o, data[o.fd], off[o.fd])
  <2>1. len - len = 0
    OBVIOUS
  <2>2. Holds(o, data[o.fd], 0)
    BY <1>1, <1>4 DEF Holds
  <2> QED
    BY <1>1, <1>4, <2>1, <2>2 DEF FillOK
<1> QED
  BY <1>3, <1>4, <1>5, <1>6, CallBegins DEF CopyPCs

\* A copy begins with two descriptors.
LEMMA CopyBegins ==
  ASSUME IOInv, NEW t \in Threads, NEW f \in Fds, NEW g \in Fds, Copy(t, f, g)
  PROVE  IOInv'
<1> DEFINE o == [Idle EXCEPT !.pc = "rewindsrc", !.fd = f, !.dst = g]
<1>1. o \in Ops /\ o.pc = "rewindsrc" /\ o.fd = f /\ o.dst = g
  <2>1. Idle \in Ops
    BY DEF Idle, Ops
  <2> QED
    BY <2>1 DEF Ops, CopyPCs
<1>2. f # g /\ Call(t, o)
  BY DEF Copy
<1> HIDE DEF o
<1>3. Shape(o)
  BY <1>1, <1>2 DEF Shape, FillPCs, CopyPCs
<1>4. CopyOK(o, data[o.fd], off[o.fd], data[o.dst], off[o.dst])
  BY <1>1 DEF CopyOK
<1> QED
  BY <1>1, <1>2, <1>3, <1>4, CallBegins DEF FillPCs

\* A call returns, and nothing is in progress.
LEMMA ReturnStep ==
  ASSUME IOInv, NEW t \in Threads, Return(t)
  PROVE  IOInv'
<1> USE DEF IOInv
<1>1. Idle \in Ops /\ Shape(Idle) /\ Idle.pc = "idle"
  BY DEF Idle, Ops, Shape, FillPCs, CopyPCs
<1>2. calls' \in 0 .. MaxCalls
  BY DEF Return, IOTypeOK
<1>3. op' \in [Threads -> Ops] /\ op'[t] = Idle /\ \A s \in Threads \ {t} : op'[s] = op[s]
  BY <1>1, OpNext DEF OpsOK, Return
<1>4. Frame(t) /\ FilesOK'
  BY QuietFrame DEF Return
<1>5. (Undisturbed(t))'
  BY <1>1, <1>3 DEF Undisturbed, FillPCs, CopyPCs
<1> QED
  BY <1>1, <1>2, <1>3, <1>4, <1>5, OneMoves

\* Other code moves an offset; who uses it is touched.
LEMMA ReadStep ==
  ASSUME IOInv, NEW t \in Threads, NEW f \in Fds, NEW n \in Nat, Read(t, f, n)
  PROVE  IOInv'
<1> USE DEF IOInv
<1>1. /\ calls' \in 0 .. MaxCalls /\ data' = data /\ op' = op /\ Touch(t, f)
      /\ op[t] \in Ops /\ Shape(op[t]) /\ op[t].pc = "idle"
  BY FileIOAssumption DEF Read, IOTypeOK, At, OpsOK
<1>2. PICK r \in read(f, n) : Advance(f, Most(r, 0))
  BY DEF Read
<1>3. Most(r, 0) \in Nat /\ off[f] \in Nat
  <2>1. r \in Int /\ off[f] \in Nat
    BY ReadGives
  <2> QED
    BY <2>1 DEF Most
<1>4. FilesOK' /\ \A g \in Fds \ {f} : data'[g] = data[g] /\ off'[g] = off[g]
  <2>1. off' = [off EXCEPT ![f] = off[f] + Most(r, 0)] /\ off[f] + Most(r, 0) \in Nat
    BY <1>2, <1>3 DEF Advance
  <2>2. off \in [Fds -> Nat]
    BY DEF IOTypeOK
  <2> QED
    BY <1>1, <2>1, <2>2 DEF FilesOK, IOTypeOK
<1>5. Frame(t)
  BY <1>1, <1>4, TouchFrame
<1>6. (Undisturbed(t))'
  BY <1>1 DEF Undisturbed, FillPCs, CopyPCs
<1> QED
  BY <1>1, <1>4, <1>5, <1>6, OneMoves DEF OpsOK

\* Whatever a thread does inside a call or begins to call.
LEMMA FilesStep ==
  ASSUME IOInv, NEW t \in Threads, InCall(t) \/ Calls(t)
  PROVE  IOInv'
<1>1. CASE Tell(t)
  BY <1>1, TellStep
<1>2. CASE Seek(t)
  BY <1>2, SeekStep
<1>3. CASE FillRead(t)
  BY <1>3, FillReadStep
<1>4. CASE Restore(t)
  BY <1>4, RestoreStep
<1>5. CASE RewindSrc(t)
  <2>1. op[t].pc = "rewindsrc" /\ op[t].fd \in Fds
    BY <1>5 DEF RewindSrc, At, IOInv, OpsOK, Shape, CopyPCs
  <2> QED
    BY <1>5, <2>1, RewindStep DEF RewindSrc, CopyPCs
<1>6. CASE RewindDst(t)
  <2>1. op[t].pc = "rewinddst" /\ op[t].dst \in Fds
    BY <1>6 DEF RewindDst, At, IOInv, OpsOK, Shape, CopyPCs
  <2> QED
    BY <1>6, <2>1, RewindStep DEF RewindDst, CopyPCs
<1>7. CASE CopyRead(t)
  BY <1>7, CopyReadStep
<1>8. CASE CopyWrite(t)
  BY <1>8, CopyWriteStep
<1>9. CASE Return(t)
  BY <1>9, ReturnStep
<1>10. CASE Calls(t)
  BY <1>10, FileIOAssumption, FillBegins, CopyBegins, ReadStep DEF Calls
<1> QED
  BY <1>1, <1>2, <1>3, <1>4, <1>5, <1>6, <1>7, <1>8, <1>9, <1>10 DEF InCall

\* No step of the files.
LEMMA FilesStay == IOInv /\ UNCHANGED iovars => IOInv'
BY DEF IOInv, IOTypeOK, OpsOK, Undisturbed, iovars

\* What the invariant says of a fill and of a copy that end.
LEMMA FilesProperties == IOInv => FillExact /\ OffsetKept /\ CopyExact
<1> SUFFICES ASSUME IOInv, NEW t \in Threads, t \notin touched
             PROVE  /\ At(t, "filled") =>
                         /\ LET o == op[t]
                            IN  off[o.fd] = IF o.moved THEN o.at + (Len(o.mem) - o.left) ELSE o.start
                         /\ LET o == op[t]
                                there == Most(0, Least(Len(o.mem), Len(data[o.fd]) - o.at))
                            IN  \E k \in 0 .. there :
                                  /\ ~o.failed => k = there
                                  /\ o.mem = [i \in 1 .. Len(o.mem) |->
                                                IF i <= k THEN data[o.fd][o.at + i] ELSE 0]
                    /\ At(t, "copied") =>
                         LET src == data[op[t].fd]
                         IN  /\ Len(src) <= Len(data[op[t].dst])
                             /\ SubSeq(data[op[t].dst], 1, Len(src)) = src
                             /\ off[op[t].fd] = Len(src) /\ off[op[t].dst] = Len(src)
  BY DEF FillExact, OffsetKept, CopyExact
<1> USE DEF IOInv
<1> DEFINE o == op[t] s == data[op[t].fd] d == data[op[t].dst]
<1>1. o \in Ops /\ Shape(o) /\ Undisturbed(t)
  BY DEF OpsOK
<1>2. ASSUME At(t, "filled")
      PROVE  /\ off[o.fd] = IF o.moved THEN o.at + (Len(o.mem) - o.left) ELSE o.start
             /\ \E k \in 0 .. There(o, s) :
                  /\ ~o.failed => k = There(o, s)
                  /\ o.mem = [i \in 1 .. Len(o.mem) |-> IF i <= k THEN s[o.at + i] ELSE 0]
  <2>1. o.pc = "filled" /\ FillOK(o, s, off[o.fd])
    BY <1>1, <1>2 DEF At, Undisturbed, FillPCs
  <2>2. off[o.fd] = IF o.moved THEN o.at + (Len(o.mem) - o.left) ELSE o.start
    BY <2>1 DEF FillOK, Behind
  <2>3. PICK k \in 0 .. There(o, s) : Holds(o, s, k) /\ (~o.failed => k = There(o, s))
    BY <2>1 DEF FillOK
  <2>4. o.mem \in Seq(Nat)
    BY <1>1 DEF Ops
  <2>5. o.mem = [i \in 1 .. Len(o.mem) |-> IF i <= k THEN s[o.at + i] ELSE 0]
    <3> HIDE DEF s
    <3>1. o.mem = [i \in 1 .. Len(o.mem) |-> o.mem[i]]
      BY <2>4
    <3> QED
      BY <2>3, <3>1 DEF Holds
  <2> QED
    BY <2>2, <2>3, <2>5
<1>3. ASSUME At(t, "copied")
      PROVE  /\ Len(s) <= Len(d) /\ SubSeq(d, 1, Len(s)) = s
             /\ off[o.fd] = Len(s) /\ off[o.dst] = Len(s)
  <2>1. o.pc = "copied" /\ CopyOK(o, s, off[o.fd], d, off[o.dst]) /\ o.fd \in Fds /\ o.dst \in Fds
    BY <1>1, <1>3 DEF At, Undisturbed, CopyPCs, Shape
  <2>2. off[o.fd] = Len(s) /\ off[o.dst] = Len(s) /\ Same(s, d, Len(s))
    BY <2>1 DEF CopyOK
  <2>3. s \in Seq(Nat) /\ d \in Seq(Nat)
    BY <2>1 DEF IOTypeOK
  <2> HIDE DEF s, d
  <2>4. SubSeq(d, 1, Len(s)) = s
    <3>1. Len(s) \in Nat /\ Len(d) \in Nat /\ Len(s) <= Len(d) /\ \A i \in 1 .. Len(s) : d[i] = s[i]
      BY <2>2, <2>3 DEF Same
    <3> QED
      BY <2>3, <3>1
  <2> QED
    BY <2>2, <2>4 DEF Same
<1> QED
  BY <1>2, <1>3 DEF There

-----------------------------------------------------------------------------
(* The log *)

\* The lines there are.
LEMMA LinesAre ==
  /\ DOMAIN MainAfter = {"entry", "vita2d", "font", "stdio", "creating", "createFailed", "joined"}
  /\ DOMAIN WorkerAfter = {"started", "target", "initFailed", "up", "openFailed", "invoking",
                           "returned", "done"}
BY DEF MainAfter, WorkerAfter

\* The lines a thread has passed are its own.
LEMMA PastOwn == MainPast \subseteq DOMAIN MainAfter /\ WorkerPast \subseteq DOMAIN WorkerAfter
<1>1. MainPast \subseteq DOMAIN MainAfter
  BY LinesAre DEF MainPast
<1>2. WorkerPast \subseteq DOMAIN WorkerAfter
  BY LinesAre DEF WorkerPast
<1> QED
  BY <1>1, <1>2

\* A line more at the end.
LEMMA OneMore ==
  ASSUME NEW S, NEW s \in Seq(S), NEW e \in S
  PROVE  /\ Append(s, e) \in Seq(S) /\ Len(Append(s, e)) = Len(s) + 1
         /\ ToSet(Append(s, e)) = ToSet(s) \cup {e}
         /\ Last(Append(s, e)) = e
         /\ IsInjective(s) /\ e \notin ToSet(s) => IsInjective(Append(s, e))
<1> DEFINE a == Append(s, e)
<1>1. a \in Seq(S) /\ Len(a) = Len(s) + 1 /\ Len(s) \in Nat
      /\ DOMAIN a = 1 .. (Len(s) + 1) /\ DOMAIN s = 1 .. Len(s)
  OBVIOUS
<1>2. a[Len(s) + 1] = e /\ \A i \in 1 .. Len(s) : a[i] = s[i]
  OBVIOUS
<1>3. 1 .. (Len(s) + 1) = (1 .. Len(s)) \cup {Len(s) + 1}
  BY <1>1
<1> HIDE DEF a
<1>4. ToSet(a) = ToSet(s) \cup {e}
  BY <1>1, <1>2, <1>3 DEF ToSet
<1>5. Last(a) = e
  BY <1>1, <1>2 DEF Last
<1>6. ASSUME IsInjective(s), e \notin ToSet(s) PROVE IsInjective(a)
  <2>1. \A i \in 1 .. Len(s) : s[i] # e
    BY <1>1, <1>6 DEF ToSet
  <2>2. \A i, j \in 1 .. Len(s) : s[i] = s[j] => i = j
    BY <1>1, <1>6 DEF IsInjective
  <2> QED
    BY <1>1, <1>2, <1>3, <2>1, <2>2 DEF IsInjective
<1> QED
  BY <1>1, <1>4, <1>5, <1>6 DEF a

\* What is appended to the file is appended to what this launch has logged.
LEMMA AppendBehind ==
  ASSUME NEW S, NEW old \in Seq(S), NEW new \in Seq(S), NEW e \in S
  PROVE  Append(old \o new, e) = old \o Append(new, e)
OBVIOUS

\* A line more, and the first one stays if there was one.
LEMMA FirstStays ==
  ASSUME NEW S, NEW s \in Seq(S), NEW e \in S
  PROVE  /\ Append(s, e) # <<>>
         /\ s # <<>> => Append(s, e)[1] = s[1]
         /\ ToSet(s) = {} => Append(s, e)[1] = e
<1>1. Append(s, e) # <<>> /\ (s # <<>> => Append(s, e)[1] = s[1])
  <2>1. Len(Append(s, e)) = Len(s) + 1 /\ Len(s) \in Nat
        /\ \A i \in 1 .. Len(s) : Append(s, e)[i] = s[i]
    OBVIOUS
  <2>2. s # <<>> => 1 \in 1 .. Len(s)
    OBVIOUS
  <2>3. s # <<>> => Append(s, e)[1] = s[1]
    BY <2>1, <2>2
  <2>4. Append(s, e) # <<>>
    <3>1. Len(<<>>) = 0
      OBVIOUS
    <3> QED
      BY <2>1, <3>1
  <2> QED
    BY <2>3, <2>4
<1>2. ToSet(s) = {} => s = <<>>
  <2>1. s # <<>> => 1 \in DOMAIN s
    OBVIOUS
  <2> QED
    BY <2>1 DEF ToSet
<1>3. s = <<>> => Append(s, e)[1] = e
  OBVIOUS
<1> QED
  BY <1>1, <1>2, <1>3

\* A thread passes a line that nobody passed, while main's last is still to
\* come; the first is main's.
LEMMA LineLogged ==
  ASSUME LogOK, NEW line \in Lines, log_write(line),
         line \notin MainPast \cup WorkerPast, "joined" \notin MainPast \cup WorkerPast,
         MainPast' \cup WorkerPast' = (MainPast \cup WorkerPast) \cup {line},
         main = "entry" => line = "entry" /\ MainPast \cup WorkerPast = {}
  PROVE  LogOK'
<1>1. lost \in 0 .. MaxLost /\ MaxLost \in Nat
  BY LauncherAssumption DEF LogOK
<1>2. PICK old \in Seq(Lines), new \in Seq(Lines) : log = old \o new /\ Logged(new)
  BY DEF LogOK
<1>3. line \notin ToSet(new) /\ "joined" \notin ToSet(new)
  BY <1>2 DEF Logged
<1>4. CASE log' = Append(log, line) /\ lost' = lost
  <2> DEFINE more == Append(new, line)
  <2>1. more \in Seq(Lines) /\ log' = old \o more
    <3>1. Append(old \o new, line) = old \o Append(new, line)
      <4> HIDE DEF more
      <4> QED
        BY <1>2, AppendBehind
    <3>2. more \in Seq(Lines)
      BY OneMore
    <3> QED
      BY <1>2, <1>4, <3>1, <3>2
  <2>2. ToSet(more) = ToSet(new) \cup {line} /\ Last(more) = line /\ IsInjective(more)
    BY <1>2, <1>3, OneMore DEF Logged
  <2>3. lost = 0 => more # <<>> /\ more[1] = "entry"
    <3>1. /\ more # <<>>
          /\ new # <<>> => more[1] = new[1]
          /\ ToSet(new) = {} => more[1] = line
      BY FirstStays
    <3> HIDE DEF more
    <3>2. ASSUME main = "entry" PROVE ToSet(new) = {} /\ line = "entry"
      BY <1>2, <3>2 DEF Logged
    <3>3. ASSUME main # "entry", lost = 0 PROVE new # <<>> /\ new[1] = "entry"
      BY <1>2, <3>3 DEF Logged
    <3> QED
      BY <3>1, <3>2, <3>3
  <2> HIDE DEF more
  <2>4. Logged(more)'
    BY <1>2, <1>3, <1>4, <2>2, <2>3 DEF Logged
  <2> QED
    BY <1>1, <1>4, <2>1, <2>4 DEF LogOK
<1>5. CASE lost < MaxLost /\ lost' = lost + 1 /\ log' = log
  <2>1. lost' # 0 /\ lost' \in 0 .. MaxLost
    BY <1>1, <1>5
  <2>2. Logged(new)'
    BY <1>2, <1>3, <2>1 DEF Logged
  <2>3. log' = old \o new
    BY <1>2, <1>5
  <2> QED
    BY <2>1, <2>2, <2>3 DEF LogOK
<1> QED
  BY <1>4, <1>5 DEF log_write

\* Nobody passes a line.
LEMMA NoLine ==
  ASSUME LogOK, UNCHANGED <<log, lost>>, MainPast' = MainPast, WorkerPast' = WorkerPast,
         main = "entry" => main' = "entry"
  PROVE  LogOK'
<1>1. \A new \in Seq(Lines) : Logged(new) => Logged(new)'
  BY DEF Logged
<1> QED
  BY <1>1 DEF LogOK

-----------------------------------------------------------------------------
(* The steps of main *)

\* Nothing has happened.
LEMMA InitLInv == Init => LInv
<1> SUFFICES ASSUME Init PROVE LInv
  OBVIOUS
<1> USE LauncherAssumption DEF Init
<1>1. Places
  BY LinesAre DEF Places
<1>2. MainPast = {} /\ WorkerPast = {}
  <2>1. MainPast = {}
    BY DEF MainPast, NoExit
  <2>2. WorkerPast = {}
    BY DEF WorkerPast
  <2> QED
    BY <2>1, <2>2
<1>3. log \in Seq(Lines) /\ log = log \o <<>> /\ <<>> \in Seq(Lines)
  BY OldLogsAssumption
<1>4. ToSet(<<>>) = {} /\ IsInjective(<<>>)
  BY DEF ToSet, IsInjective
<1>5. LogOK
  <2>1. Logged(<<>>)
    BY <1>2, <1>4 DEF Logged
  <2>2. lost \in 0 .. MaxLost
    OBVIOUS
  <2>3. \E new \in Seq(Lines) : log = log \o new /\ Logged(new)
    BY <1>3, <2>1
  <2>4. \E old, new \in Seq(Lines) : log = old \o new /\ Logged(new)
    BY <1>3, <2>3
  <2> QED
    BY <2>2, <2>4 DEF LogOK
<1>6. Together /\ Ran /\ TargetNamed
  BY DEF Together, Ran, TargetNamed, NoExit
<1> QED
  BY <1>1, <1>5, <1>6 DEF LInv

\* Main logs a line it has not logged before, and goes on.
LEMMA MainLogsStep == ASSUME LInv, MainLogs PROVE LInv'
<1> USE DEF LInv, MainLogs
<1>1. main \in {"entry", "vita2d", "font", "stdio", "creating", "createFailed", "joined"}
      /\ main' = MainAfter[main] /\ log_write(main) /\ exit' = exit /\ ret' = ret
      /\ worker' = worker /\ ran' = ran /\ target' = target
  BY LinesAre
<1>2. exit = NoExit
  BY <1>1 DEF Together
<1>3. WorkerPast' = WorkerPast
  BY <1>1 DEF WorkerPast
<1>4. main \notin MainPast \cup WorkerPast /\ "joined" \notin MainPast \cup WorkerPast
  BY <1>1, <1>2, PastOwn, LinesAre DEF MainPast, NoExit
<1>5. MainPast' = MainPast \cup {main}
      /\ main' \in {"vita2d", "font", "stdio", "creating", "create", "exit3", "exit"}
  BY <1>1, <1>2 DEF MainPast, MainAfter, NoExit
<1>6. main' = "exit3" <=> main = "createFailed"
  BY <1>1 DEF MainAfter
<1>7. main' = "exit" <=> main = "joined"
  BY <1>1 DEF MainAfter
<1>8. main = "entry" => MainPast \cup WorkerPast = {}
  <2> SUFFICES ASSUME main = "entry" PROVE MainPast = {} /\ WorkerPast = {}
    OBVIOUS
  <2>1. worker = "none"
    BY DEF Together
  <2>2. MainPast = {}
    BY <1>2 DEF MainPast, NoExit
  <2> QED
    BY <2>1, <2>2 DEF WorkerPast
<1>9. LogOK'
  BY <1>1, <1>3, <1>4, <1>5, <1>8, LineLogged DEF Lines
<1>10. Places' /\ Together'
  BY <1>1, <1>2, <1>5, <1>6, <1>7, LinesAre DEF Places, Together, NoExit
<1>11. Ran' /\ TargetNamed'
  BY <1>1 DEF Ran, TargetNamed
<1> QED
  BY <1>9, <1>10, <1>11

\* There is a worker, or main will exit with 3.
LEMMA CreateWorkerStep == ASSUME LInv, CreateWorker PROVE LInv'
<1> USE DEF LInv, CreateWorker
<1>1. /\ main = "create" /\ log' = log /\ lost' = lost /\ exit' = exit /\ ret' = ret /\ ran' = ran
      /\ target' = target
      /\ \/ main' = "join" /\ worker' = "started"
         \/ main' = "createFailed" /\ worker' = worker
  OBVIOUS
<1>2. worker = "none" /\ exit = NoExit
  BY <1>1 DEF Together, NoExit
<1>3. MainPast' = MainPast /\ WorkerPast' = WorkerPast
  BY <1>1, <1>2 DEF MainPast, WorkerPast
<1>4. LogOK'
  BY <1>1, <1>3, NoLine
<1>5. Places' /\ Together'
  BY <1>1, <1>2, LinesAre DEF Places, Together, NoExit
<1>6. Ran' /\ TargetNamed'
  BY <1>1, <1>2 DEF Ran, TargetNamed
<1> QED
  BY <1>4, <1>5, <1>6

\* The worker has ended when main goes on.
LEMMA JoinStep == ASSUME LInv, Join PROVE LInv'
<1> USE DEF LInv, Join
<1>1. /\ main = "join" /\ log' = log /\ lost' = lost /\ exit' = exit /\ ret' = ret /\ ran' = ran
      /\ target' = target /\ main' = "joined" /\ worker' = worker /\ worker = "ended"
  OBVIOUS
<1>2. MainPast' = MainPast /\ WorkerPast' = WorkerPast
  BY <1>1 DEF MainPast, WorkerPast
<1>3. LogOK'
  BY <1>1, <1>2, NoLine
<1>4. Places' /\ Together'
  BY <1>1, LinesAre DEF Places, Together, NoExit
<1>5. Ran' /\ TargetNamed'
  BY <1>1 DEF Ran, TargetNamed
<1> QED
  BY <1>3, <1>4, <1>5

\* The code is 3 without a worker, and otherwise tells what it returned.
LEMMA ExitStep == ASSUME LInv, Exit PROVE LInv'
<1> USE DEF LInv, Exit
<1>1. /\ main \in {"exit3", "exit"} /\ log' = log /\ lost' = lost /\ exit' = ExitCode
      /\ ret' = ret /\ ran' = ran /\ target' = target /\ main' = "over" /\ worker' = worker
  OBVIOUS
<1>2. exit = NoExit /\ (main = "exit3" => worker = "none") /\ (main = "exit" => worker = "ended")
  BY <1>1 DEF Together
<1>3. /\ main = "exit3" => exit' = 3
      /\ main = "exit" => exit' = IF ret = 42 THEN 0 ELSE 4
  BY <1>1 DEF ExitCode
<1>4. MainPast' = MainPast /\ WorkerPast' = WorkerPast
  BY <1>1, <1>2, <1>3 DEF MainPast, WorkerPast, NoExit
<1>5. LogOK'
  BY <1>1, <1>4, NoLine
<1>6. Places' /\ Together'
  BY <1>1, <1>2, <1>3, LinesAre DEF Places, Together, NoExit
<1>7. Ran' /\ TargetNamed'
  BY <1>1 DEF Ran, TargetNamed
<1> QED
  BY <1>5, <1>6, <1>7

-----------------------------------------------------------------------------
(* The steps of the worker *)

\* What lines the worker has passed when it has ended tells what it returned.
LEMMA WorkerLogsStep == ASSUME LInv, WorkerLogs, main # "over" PROVE LInv'
<1> USE DEF LInv, WorkerLogs
<1>1. worker \in {"started", "target", "initFailed", "up", "openFailed", "invoking", "returned", "done"}
      /\ worker' = WorkerAfter[worker] /\ log_write(worker) /\ exit' = exit
      /\ main' = main /\ ran' = ran /\ target' = target
      /\ ret' = IF worker \in DOMAIN Returns THEN Returns[worker] ELSE ret
  BY LinesAre
<1>2. exit = NoExit /\ main \notin {"joined", "exit"} /\ ret = 0
  BY <1>1 DEF Together
<1>3. MainPast' = MainPast
  BY <1>1 DEF MainPast
<1>4. /\ worker' \in {"pick", "init", "ended", "open", "exec", "cleanup"}
      /\ worker' = "ended" <=> worker \in {"initFailed", "openFailed", "done"}
      /\ ret' = CASE worker = "initFailed" -> 1 [] worker = "openFailed" -> 2
                  [] worker = "done" -> 42 [] OTHER -> 0
  BY <1>1, <1>2 DEF WorkerAfter, Returns
<1>5. worker \notin WorkerPast
  BY <1>1 DEF WorkerPast
<1>6. "joined" \notin MainPast
  BY <1>2 DEF MainPast, Places, NoExit, MainAfter
<1>7. worker \notin MainPast \cup WorkerPast /\ "joined" \notin MainPast \cup WorkerPast
  BY <1>1, <1>5, <1>6, PastOwn, LinesAre
<1>8. WorkerPast' = WorkerPast \cup {worker}
  BY <1>1, <1>2, <1>4 DEF WorkerPast, WorkerAfter
<1>9. main # "entry"
  BY <1>1 DEF Together
<1>10. LogOK'
  <2>1. worker \in Lines /\ MainPast' \cup WorkerPast' = (MainPast \cup WorkerPast) \cup {worker}
    BY <1>3, <1>8 DEF Lines
  <2> QED
    BY <1>1, <1>7, <1>9, <2>1, LineLogged
<1>11. Places'
  BY <1>1, <1>4, LinesAre DEF Places
<1>12. Together'
  BY <1>1, <1>2, <1>4 DEF Together, NoExit
<1>13. Ran' /\ TargetNamed'
  BY <1>1, <1>2, <1>4 DEF Ran, TargetNamed, WorkerAfter
<1> QED
  BY <1>10, <1>11, <1>12, <1>13

\* A step of the worker between two places with the same lines behind it.
LEMMA WorkerGoes ==
  ASSUME LInv, main # "over",
         NEW w \in {"target", "up", "initFailed", "loading", "openFailed", "invoking", "returned", "done"},
         worker' = w, WorkerPast' = WorkerPast,
         worker \notin {"none", "ended"},
         UNCHANGED <<main, ret, exit, log, lost>>
  PROVE  Places' /\ LogOK' /\ Together'
<1> USE DEF LInv
<1>1. MainPast' = MainPast
  BY DEF MainPast
<1>2. LogOK'
  BY <1>1, NoLine
<1>3. Places'
  BY LinesAre DEF Places
<1>4. Together'
  BY DEF Together
<1> QED
  BY <1>2, <1>3, <1>4

\* A set of indices that is not empty has a least one.
LEMMA LeastIndex ==
  ASSUME NEW I \in SUBSET Nat, I # {}
  PROVE  Min(I) \in I /\ \A j \in I : Min(I) <= j
<1> DEFINE R == OpToRel(<, Nat)
<1>1. \A x, y \in Nat : x < y => <<x, y>> \in R
  BY SMT DEF OpToRel
<1>2. \E x \in I : \A y \in I : ~(<<y, x>> \in R)
  <2>1. IsWellFoundedOn(R, Nat)
    BY NatLessThanWellFounded
  <2> HIDE DEF R
  <2> QED
    BY <2>1, WFMin
<1> HIDE DEF R
<1>3. PICK k \in I : \A y \in I : ~(<<y, k>> \in R)
  BY <1>2
<1>4. \A j \in I : ~(j < k)
  BY <1>1, <1>3
<1>5. \A j \in I : k <= j
  BY <1>4
<1> QED
  BY <1>5 DEF Min

\* The first line, as far as the buffer goes.
LEMMA LineNamed ==
  ASSUME NEW text \in RunFiles, NEW l, l = Line(SubSeq(text, 1, Least(Len(text), RunMax)))
  PROVE  /\ IsPrefix(l, text) /\ ToSet(l) \cap EndOfLine = {}
         /\ Len(l) < Least(Len(text), RunMax) => text[Len(l) + 1] \in EndOfLine
<1> DEFINE S == ToSet(text) n == Least(Len(text), RunMax) b == SubSeq(text, 1, n)
           I == {i \in 1 .. Len(b) : b[i] \in EndOfLine}
<1>1. text \in Seq(S) /\ Len(text) \in Nat /\ RunMax \in Nat
  BY LauncherAssumption
<1>2. n \in Nat /\ n <= Len(text)
  BY <1>1 DEF Least
<1> HIDE DEF S, n
<1>3. b \in Seq(S) /\ Len(b) = n /\ \A i \in 1 .. n : b[i] = text[i]
  BY <1>1, <1>2
<1> HIDE DEF b
<1>4. I \subseteq Nat
  OBVIOUS
<1>5. Line(b) = IF I = {} THEN b ELSE SubSeq(b, 1, Min(I) - 1)
  <2>1. I # {} => Min(I) # 0
    BY <1>4, LeastIndex
  <2> QED
    BY <2>1 DEF Line, SelectInSeq
<1>6. l = Line(b)
  BY DEF b, n
<1>7. \E k \in 0 .. n : /\ l = SubSeq(b, 1, k) /\ \A i \in 1 .. k : b[i] \notin EndOfLine
                        /\ k < n => b[k + 1] \in EndOfLine
  <2>1. CASE I = {}
    <3>1. l = b /\ \A i \in 1 .. n : b[i] \notin EndOfLine
      BY <1>3, <1>5, <1>6, <2>1
    <3>2. SubSeq(b, 1, n) = b
      BY <1>2, <1>3
    <3> QED
      BY <1>2, <3>1, <3>2
  <2>2. CASE I # {}
    <3> DEFINE k == Min(I)
    <3>1. k \in I /\ \A j \in I : k <= j
      BY <1>4, <2>2, LeastIndex
    <3>2. l = SubSeq(b, 1, k - 1)
      BY <1>5, <1>6, <2>2
    <3> HIDE DEF k
    <3>3. k \in 1 .. n /\ b[k] \in EndOfLine
      BY <1>3, <3>1
    <3>4. \A i \in 1 .. (k - 1) : b[i] \notin EndOfLine
      BY <1>2, <1>3, <3>1, <3>3
    <3>5. k - 1 \in 0 .. n /\ (k - 1) + 1 = k
      BY <1>2, <3>3
    <3> QED
      BY <3>2, <3>3, <3>4, <3>5
  <2> QED
    BY <2>1, <2>2
<1>8. PICK k \in 0 .. n : /\ l = SubSeq(b, 1, k) /\ \A i \in 1 .. k : b[i] \notin EndOfLine
                          /\ k < n => b[k + 1] \in EndOfLine
  BY <1>7
<1>9. l \in Seq(S) /\ Len(l) = k /\ \A i \in 1 .. k : l[i] = b[i]
  BY <1>2, <1>3, <1>8
<1>10. IsPrefix(l, text)
  <2>1. Len(l) <= Len(text) /\ \A i \in 1 .. Len(l) : l[i] = text[i]
    BY <1>1, <1>2, <1>3, <1>9
  <2>2. SubSeq(l, 1, Len(l)) = SubSeq(text, 1, Len(l))
    BY <1>1, <1>9, <2>1
  <2> QED
    BY <2>1, <2>2 DEF IsPrefix
<1>11. ToSet(l) \cap EndOfLine = {}
  BY <1>8, <1>9 DEF ToSet
<1>12. Len(l) < n => text[Len(l) + 1] \in EndOfLine
  <2> SUFFICES ASSUME k < n PROVE text[k + 1] \in EndOfLine
    BY <1>9
  <2>1. k + 1 \in 1 .. n
    BY <1>2
  <2> QED
    BY <1>3, <1>8, <2>1
<1> QED
  BY <1>10, <1>11, <1>12 DEF n

\* The target has a name from run.txt, or is hello.exe.
LEMMA PickTargetStep == ASSUME LInv, PickTarget, main # "over" PROVE LInv'
<1>1. worker = "pick" /\ worker' = "target" /\ UNCHANGED <<main, ran, ret, exit, log, lost>>
  BY DEF PickTarget
<1>2. WorkerPast' = WorkerPast
  BY <1>1 DEF WorkerPast
<1>3. Places' /\ LogOK' /\ Together'
  BY <1>1, <1>2, WorkerGoes
<1>4. ret = 0
  BY <1>1 DEF LInv, Together
<1>5. Ran'
  BY <1>1, <1>4 DEF LInv, Ran
<1>6. TargetNamed'
  BY <1>1, LineNamed DEF PickTarget, TargetNamed
<1> QED
  BY <1>3, <1>5, <1>6 DEF LInv

\* The runtime comes up, or does not.
LEMMA InitRuntimeStep == ASSUME LInv, InitRuntime, main # "over" PROVE LInv'
<1>1. worker = "init" /\ worker' \in {"up", "initFailed"} /\ target' = target
      /\ UNCHANGED <<main, ran, ret, exit, log, lost>>
  BY DEF InitRuntime
<1>2. WorkerPast' = WorkerPast
  BY <1>1 DEF WorkerPast
<1>3. Places' /\ LogOK' /\ Together'
  BY <1>1, <1>2, WorkerGoes
<1>4. Ran' /\ TargetNamed'
  BY <1>1 DEF LInv, Ran, TargetNamed
<1> QED
  BY <1>3, <1>4 DEF LInv

\* The assembly is one that there is, or it is refused.
LEMMA OpenStep ==
  ASSUME LInv, main # "over", UNCHANGED <<main, target, ran, ret, exit, log, lost>>,
         \/ worker = "open" /\ worker' = "openFailed"
         \/ worker = "open" /\ worker' = "loading" /\ target \in DOMAIN Image
         \/ worker = "loading" /\ worker' \in {"invoking", "openFailed"}
  PROVE  LInv'
<1>1. WorkerPast' = WorkerPast
  BY DEF WorkerPast
<1>2. Places' /\ LogOK' /\ Together'
  BY <1>1, WorkerGoes
<1>3. Ran' /\ TargetNamed'
  BY DEF LInv, Ran, TargetNamed
<1> QED
  BY <1>2, <1>3 DEF LInv

\* What ran is the assembly that was opened.
LEMMA MainReturnedStep == ASSUME LInv, MainReturned, main # "over" PROVE LInv'
<1>1. worker = "exec" /\ worker' = "returned" /\ ran' = target /\ target' = target
      /\ UNCHANGED <<main, ret, exit, log, lost>>
  BY DEF MainReturned
<1>2. WorkerPast' = WorkerPast
  BY <1>1 DEF WorkerPast
<1>3. Places' /\ LogOK' /\ Together'
  BY <1>1, <1>2, WorkerGoes
<1>4. Ran' /\ TargetNamed'
  BY <1>1, LauncherAssumption DEF LInv, Ran, TargetNamed
<1> QED
  BY <1>3, <1>4 DEF LInv

\* The runtime goes down.
LEMMA CleanupStep == ASSUME LInv, Cleanup, main # "over" PROVE LInv'
<1>1. worker = "cleanup" /\ worker' = "done" /\ target' = target
      /\ UNCHANGED <<main, ran, ret, exit, log, lost>>
  BY DEF Cleanup
<1>2. WorkerPast' = WorkerPast
  BY <1>1 DEF WorkerPast
<1>3. Places' /\ LogOK' /\ Together'
  BY <1>1, <1>2, WorkerGoes
<1>4. Ran' /\ TargetNamed'
  BY <1>1 DEF LInv, Ran, TargetNamed
<1> QED
  BY <1>3, <1>4 DEF LInv

\* Nothing of the launcher changes.
LEMMA LauncherStays == LInv /\ UNCHANGED lvars => LInv'
<1> SUFFICES ASSUME LInv, UNCHANGED lvars PROVE LInv'
  OBVIOUS
<1> USE DEF lvars
<1>1. MainPast' = MainPast /\ WorkerPast' = WorkerPast
  BY DEF MainPast, WorkerPast
<1>2. LogOK'
  BY <1>1, NoLine DEF LInv
<1> QED
  BY <1>2 DEF LInv, Places, Together, Ran, TargetNamed

\* Every step keeps the invariant.
LEMMA StepIInv == IInv /\ [Next]_vars => IInv'
<1> SUFFICES ASSUME IInv, [Next]_vars PROVE IInv'
  OBVIOUS
<1> USE DEF IInv
<1>1. CASE MainStep
  <2>1. UNCHANGED iovars
    BY <1>1 DEF MainStep, MainLogs, CreateWorker, Join, Exit
  <2> QED
    BY <1>1, <2>1, FilesStay, MainLogsStep, CreateWorkerStep, JoinStep, ExitStep DEF MainStep
<1>2. CASE WorkerStep
  <2>1. CASE WorkerLogs
    BY <1>2, <2>1, FilesStay, WorkerLogsStep DEF WorkerStep, WorkerLogs
  <2>2. CASE PickTarget
    BY <1>2, <2>2, FilesStay, PickTargetStep DEF WorkerStep, PickTarget
  <2>3. CASE InitRuntime
    BY <1>2, <2>3, FilesStay, InitRuntimeStep DEF WorkerStep, InitRuntime
  <2>4. CASE LoadAssembly
    <3>1. Image[target] \in Fds /\ Len(data[Image[target]]) \in Nat /\ Worker \in Threads /\ 0 \in Nat
      BY <2>4, LauncherAssumption DEF LoadAssembly, IOInv, IOTypeOK
    <3>2. Fill(Worker, Image[target], 0, Len(data[Image[target]]))
      BY <2>4 DEF LoadAssembly
    <3>3. IOInv'
      BY <3>1, <3>2, FillBegins
    <3>4. LInv'
      BY <1>2, <2>4, OpenStep DEF WorkerStep, LoadAssembly
    <3> QED
      BY <3>3, <3>4
  <2>5. CASE NoAssembly
    BY <1>2, <2>5, FilesStay, OpenStep DEF WorkerStep, NoAssembly
  <2>6. CASE Loaded
    <3>1. IOInv'
      BY <2>6, ReturnStep, LauncherAssumption DEF Loaded
    <3>2. LInv'
      <4>1. worker = "loading" /\ worker' \in {"invoking", "openFailed"}
        BY <2>6 DEF Loaded
      <4> QED
        BY <1>2, <2>6, <4>1, OpenStep DEF WorkerStep, Loaded
    <3> QED
      BY <3>1, <3>2
  <2>7. CASE Cleanup
    BY <1>2, <2>7, FilesStay, CleanupStep DEF WorkerStep, Cleanup
  <2> QED
    BY <1>2, <2>1, <2>2, <2>3, <2>4, <2>5, <2>6, <2>7 DEF WorkerStep
<1>3. CASE ProgramEnds
  BY <1>3, FilesStay, MainReturnedStep DEF ProgramEnds, MainReturned
<1>4. ASSUME NEW t \in Threads, CallStep(t) \/ ProgramCalls(t) PROVE IInv'
  BY <1>4, FilesStep, LauncherStays DEF CallStep, ProgramCalls
<1>5. CASE UNCHANGED vars
  BY <1>5, FilesStay, LauncherStays DEF vars
<1> QED
  BY <1>1, <1>2, <1>3, <1>4, <1>5 DEF Next

-----------------------------------------------------------------------------
(* The theorems *)

\* The invariant holds in every reachable state.
THEOREM Invariance == Spec => []IInv
<1>1. Init => IInv
  BY InitIO, InitLInv DEF Init, IInv
<1> QED
  BY <1>1, StepIInv, PTL DEF Spec

\* Who reads the log from its last first line on reads what this launch logged.
LEMMA LastPart ==
  ASSUME NEW old \in Seq(Lines), NEW new \in Seq(Lines), log = old \o new,
         new # <<>>, new[1] = "entry", IsInjective(new)
  PROVE  /\ {log[i] : i \in LastLaunch} = ToSet(new)
         /\ \A i, j \in LastLaunch : log[i] = log[j] => i = j
         /\ Last(log) = Last(new)
<1> DEFINE l == log e == "entry" I == LastLaunch m == Len(old) n == Len(new)
<1>1. m \in Nat /\ n \in Nat /\ n > 0 /\ DOMAIN new = 1 .. n
  OBVIOUS
<1>2. DOMAIN l = 1 .. (m + n) /\ Len(l) = m + n
  OBVIOUS
<1>3. \A i \in 1 .. n : l[m + i] = new[i]
  OBVIOUS
<1>4. \A i, j \in 1 .. n : new[i] = new[j] => i = j
  BY DEF IsInjective
<1>5. I = {i \in DOMAIN l : \A j \in i + 1 .. Len(l) : l[j] # e}
  BY DEF LastLaunch
<1>6. new[1] = e
  OBVIOUS
<1> HIDE DEF l, e, I, m, n
<1>7. \A i \in m + 1 .. m + n : i - m \in 1 .. n /\ l[i] = new[i - m]
  <2> SUFFICES ASSUME NEW i \in m + 1 .. m + n PROVE i - m \in 1 .. n /\ l[i] = new[i - m]
    OBVIOUS
  <2>1. i - m \in 1 .. n /\ m + (i - m) = i
    BY <1>1
  <2> QED
    BY <1>3, <2>1
<1>8. l[m + 1] = e /\ m + 1 \in m + 1 .. m + n
  <2>1. 1 \in 1 .. n /\ m + 1 \in m + 1 .. m + n
    BY <1>1
  <2> QED
    BY <1>3, <1>6, <2>1
<1>9. \A j \in m + 2 .. m + n : l[j] # e
  <2> SUFFICES ASSUME NEW j \in m + 2 .. m + n PROVE l[j] # e
    OBVIOUS
  <2>1. j \in m + 1 .. m + n /\ j - m \in 1 .. n /\ j - m # 1 /\ 1 \in 1 .. n
    BY <1>1
  <2> QED
    BY <1>4, <1>6, <1>7, <2>1
<1>10. I = m + 1 .. m + n
  <2>1. ASSUME NEW i \in I PROVE i \in m + 1 .. m + n
    <3>1. i \in 1 .. (m + n) /\ \A j \in i + 1 .. m + n : l[j] # e
      BY <1>2, <1>5, <2>1
    <3>2. ~(i < m + 1)
      <4> SUFFICES ASSUME i < m + 1 PROVE FALSE
        OBVIOUS
      <4>1. m + 1 \in i + 1 .. m + n
        BY <1>1, <3>1
      <4> QED
        BY <1>8, <3>1, <4>1
    <3> QED
      BY <1>1, <3>1, <3>2
  <2>2. ASSUME NEW i \in m + 1 .. m + n PROVE i \in I
    <3>1. i \in 1 .. (m + n) /\ \A j \in i + 1 .. m + n : j \in m + 2 .. m + n
      BY <1>1
    <3> QED
      BY <1>2, <1>5, <1>9, <3>1
  <2> QED
    BY <2>1, <2>2
<1>11. {l[i] : i \in I} = ToSet(new)
  <2>1. \A k \in 1 .. n : m + k \in I /\ l[m + k] = new[k]
    <3>1. \A k \in 1 .. n : m + k \in m + 1 .. m + n
      BY <1>1
    <3> QED
      BY <1>3, <1>10, <3>1
  <2>2. ToSet(new) = {new[k] : k \in 1 .. n}
    BY <1>1 DEF ToSet
  <2>3. ASSUME NEW i \in I PROVE l[i] \in ToSet(new)
    BY <1>7, <1>10, <2>2, <2>3
  <2>4. ASSUME NEW x \in ToSet(new) PROVE \E i \in I : x = l[i]
    <3>1. PICK k \in 1 .. n : x = new[k]
      BY <2>2, <2>4
    <3> QED
      BY <2>1, <3>1
  <2>5. {l[i] : i \in I} \subseteq ToSet(new)
    BY <2>3
  <2>6. ToSet(new) \subseteq {l[i] : i \in I}
    BY <2>4
  <2> QED
    BY <2>5, <2>6
<1>12. \A i, j \in I : l[i] = l[j] => i = j
  <2> SUFFICES ASSUME NEW i \in I, NEW j \in I, l[i] = l[j] PROVE i = j
    OBVIOUS
  <2>1. i \in m + 1 .. m + n /\ j \in m + 1 .. m + n
    BY <1>10
  <2>2. i - m = j - m
    BY <1>4, <1>7, <2>1
  <2> QED
    BY <1>1, <2>1, <2>2
<1>13. Last(l) = Last(new)
  <2>1. n \in 1 .. n
    BY <1>1
  <2>2. Last(l) = l[m + n] /\ Last(new) = new[n]
    BY <1>2 DEF Last, n
  <2> QED
    BY <1>3, <2>1, <2>2
<1> QED
  BY <1>11, <1>12, <1>13 DEF l, I

\* What the log tells, from what both have passed.
LEMMA LogProperty == IInv => LogTells
<1> SUFFICES ASSUME IInv, lost = 0, main # "entry" PROVE LogTells
  BY DEF LogTells
<1> USE DEF IInv, LInv
<1> DEFINE told == {log[i] : i \in LastLaunch}
<1>1. /\ told = MainPast \cup WorkerPast
      /\ "joined" \in told => Last(log) = "joined"
      /\ \A i, j \in LastLaunch : log[i] = log[j] => i = j
  <2>1. PICK old \in Seq(Lines), new \in Seq(Lines) : log = old \o new /\ Logged(new)
    BY DEF LogOK
  <2>2. new # <<>> /\ new[1] = "entry" /\ IsInjective(new) /\ ToSet(new) = MainPast \cup WorkerPast
        /\ ("joined" \in ToSet(new) => Last(new) = "joined")
    BY <2>1 DEF Logged
  <2>3. /\ told = ToSet(new) /\ Last(log) = Last(new)
        /\ \A i, j \in LastLaunch : log[i] = log[j] => i = j
    BY <2>1, <2>2, LastPart
  <2> QED
    BY <2>2, <2>3
<1> HIDE DEF told
<1>2. MainPast \subseteq {"entry", "vita2d", "font", "stdio", "creating", "createFailed", "joined"}
      /\ WorkerPast \subseteq {"started", "target", "initFailed", "up", "openFailed", "invoking",
                               "returned", "done"}
  BY PastOwn, LinesAre
<1>3. "returned" \in WorkerPast <=> worker \in {"cleanup", "done"} \/ (worker = "ended" /\ ret = 42)
  BY LinesAre DEF WorkerPast, Places, Together
<1>4. "returned" \in told <=> "returned" \in WorkerPast
  BY <1>1, <1>2
<1>5. ran # Nothing <=> worker \in {"returned", "cleanup", "done"} \/ (worker = "ended" /\ ret = 42)
  BY DEF Ran, Together
<1>6. ASSUME exit # NoExit
      PROVE  /\ exit = 0 <=> "done" \in told
             /\ exit = 3 <=> "createFailed" \in told
             /\ exit = 4 <=> {"initFailed", "openFailed"} \cap told # {}
  <2>1. /\ \/ exit = 3 /\ worker = "none"
           \/ exit = 0 /\ worker = "ended" /\ ret = 42
           \/ exit = 4 /\ worker = "ended" /\ ret \in {1, 2}
        /\ main = "over"
    BY <1>6 DEF Places, Together
  <2>2. "createFailed" \in MainPast <=> exit = 3
    BY <1>6, <2>1 DEF MainPast, NoExit
  <2>3. "done" \in WorkerPast <=> worker = "ended" /\ ret = 42
    BY <2>1 DEF WorkerPast
  <2>4. {"initFailed", "openFailed"} \cap WorkerPast # {} <=> worker = "ended" /\ ret \in {1, 2}
    BY <2>1 DEF WorkerPast
  <2> QED
    BY <1>1, <1>2, <2>1, <2>2, <2>3, <2>4
<1> QED
  BY <1>1, <1>3, <1>4, <1>5, <1>6 DEF LogTells, told

\* Every variable has its type, whatever the numbers of threads and files and
\* whatever the log held before.
THEOREM TypeCorrect == Spec => []TypeOK
<1>1. IInv => TypeOK
  <2> SUFFICES ASSUME IInv PROVE TypeOK
    OBVIOUS
  <2>1. log \in Seq(Lines)
    BY DEF IInv, LInv, LogOK
  <2> QED
    BY <2>1 DEF IInv, LInv, LogOK, IOInv, Places, Ran, TypeOK
<1> QED
  BY <1>1, Invariance, PTL

\* A file-backed mapping holds the bytes of the file in their places and zeros
\* behind, and all of them unless a call failed, when nobody else used the
\* descriptor: for every length, offset, way of cutting the reads, and number
\* of threads.
THEOREM MapExact == Spec => []FillExact
<1>1. IInv => FillExact
  BY FilesProperties DEF IInv
<1> QED
  BY <1>1, Invariance, PTL

\* ... and mmap leaves the offset of the descriptor where it found it, unless the
\* lseek that restores it fails; then it is right behind the bytes that came.
THEOREM MapKeepsOffset == Spec => []OffsetKept
<1>1. IInv => OffsetKept
  BY FilesProperties DEF IInv
<1> QED
  BY <1>1, Invariance, PTL

\* A copy that answers 0 has copied the whole file, for every size of the
\* buffer, when nobody else used its descriptors.
THEOREM CopyWhole == Spec => []CopyExact
<1>1. IInv => CopyExact
  BY FilesProperties DEF IInv
<1> QED
  BY <1>1, Invariance, PTL

\* The launcher runs hello.exe or what the first line of run.txt names, for
\* every text and size of the buffer.
THEOREM RunsWhatIsNamed == Spec => []TargetNamed
<1>1. IInv => TargetNamed
  BY DEF IInv, LInv
<1> QED
  BY <1>1, Invariance, PTL

\* The exit code is 0 exactly when the Main of an assembly returned, 3 exactly
\* when there was no worker, and no worker is under way at the exit.
THEOREM CodeHonest == Spec => []ExitHonest
<1>1. IInv => ExitHonest
  <2> SUFFICES ASSUME IInv, exit # NoExit PROVE ExitHonest
    BY DEF ExitHonest
  <2> USE DEF IInv, LInv
  <2>1. \/ exit = 3 /\ worker = "none"
        \/ exit = 0 /\ worker = "ended" /\ ret = 42
        \/ exit = 4 /\ worker = "ended" /\ ret \in {1, 2}
    BY DEF Places, Together
  <2>2. ran # Nothing <=> worker = "ended" /\ ret = 42
    BY <2>1 DEF Ran, Together
  <2>3. ran # Nothing => ran \in DOMAIN Image
    BY <2>2 DEF Ran
  <2> QED
    BY <2>1, <2>2, <2>3 DEF ExitHonest
<1> QED
  BY <1>1, Invariance, PTL

\* If no line of the last launch was lost and its first is there, the log that a
\* crash leaves tells how far that launch came, and each of its lines is there
\* once, whatever earlier launches left in the file.
THEOREM LogHonest == Spec => []LogTells
<1>1. IInv => LogTells
  BY LogProperty
<1> QED
  BY <1>1, Invariance, PTL
=============================================================================
