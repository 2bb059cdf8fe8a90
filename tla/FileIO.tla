-------------------------------- MODULE FileIO --------------------------------
(***************************************************************************)
(* The two loops of the port that copy the contents of files: the one mmap *)
(* fills a file-backed mapping with, and SystemNative_CopyFile.  Both move *)
(* the offsets of descriptors that they share with every other thread, and *)
(* neither takes a lock.  Each call of the C library is one step.          *)
(*                                                                         *)
(* Every descriptor has an open file of its own.                           *)
(***************************************************************************)
EXTENDS Integers, Sequences

CONSTANTS Threads,
          Fds,         \* the open descriptors
          NoFd,
          Contents,    \* what their files may hold at first
          Lens,        \* the lengths that are mapped
          Offsets,     \* the file offsets that are mapped
          CopyBuffer,  \* sizeof (buf) of SystemNative_CopyFile
          MaxSize,     \* bound: the room for a file
          MaxCalls     \* bound: the calls made in all

ASSUME FileIOAssumption ==
  /\ NoFd \notin Fds
  /\ Contents \subseteq [Fds -> Seq(Nat \ {0})]
  /\ \A c \in Contents, f \in Fds : Len(c[f]) <= MaxSize
  /\ Lens \subseteq Nat \ {0} /\ Offsets \subseteq Nat
  /\ CopyBuffer \in Nat \ {0} /\ MaxSize \in Nat /\ MaxCalls \in Nat \ {0}

VARIABLES data,     \* per descriptor: the bytes of its file
          off,      \* per descriptor: its offset
          op,       \* per thread: the call it is in
          touched,  \* the threads whose descriptors another thread used meanwhile
          calls     \* how many calls were made

iovars == <<data, off, op, touched, calls>>

\* A call in progress.  A fill reads fd from at on, into the len bytes of mem;
\* cur is the offset it saved, start the one it found, and moved whether it
\* could not put it back.  A copy goes from fd to dst, and mem is what is in its
\* buffer.
Idle == [pc |-> "idle", fd |-> NoFd, dst |-> NoFd, at |-> 0, cur |-> 0, start |-> 0,
         left |-> 0, mem |-> <<>>, failed |-> FALSE, moved |-> FALSE]

Least(a, b) == IF a < b THEN a ELSE b
Most(a, b)  == IF a > b THEN a ELSE b

IOInit == /\ data \in Contents
          /\ off = [f \in Fds |-> 0]
          /\ op = [t \in Threads |-> Idle]
          /\ touched = {}
          /\ calls = 0

\* What t uses while it is in a call; what others learn when t uses f.
Uses(t) == {op[t].fd, op[t].dst} \cap Fds
Touch(t, f) == touched' = touched \cup {s \in Threads \ {t} : f \in Uses(s)}

Goto(t, where) == op' = [op EXCEPT ![t].pc = where]
At(t, where) == op[t].pc = where

\* read: the number of bytes that come, fewer than asked for at times, 0 at the
\* end of the file, -1 on an error.
read(f, n) == {-1} \cup IF off[f] >= Len(data[f]) THEN {0}
                        ELSE 1 .. Least(n, Len(data[f]) - off[f])
Bytes(f, n) == SubSeq(data[f], off[f] + 1, off[f] + n)
Advance(f, n) == off' = [off EXCEPT ![f] = @ + n]

\* write: the number of bytes that go, fewer than there are when the room ends.
write(f, n) == {-1} \cup 0 .. Least(n, Most(0, MaxSize - off[f]))
Written(f, b) == [i \in 1 .. Most(Len(data[f]), off[f] + Len(b)) |->
                    IF i \in off[f] + 1 .. off[f] + Len(b) THEN b[i - off[f]]
                    ELSE IF i <= Len(data[f]) THEN data[f][i] ELSE 0]

Call(t, o) == /\ At(t, "idle") /\ calls < MaxCalls
              /\ calls' = calls + 1
              /\ op' = [op EXCEPT ![t] = o]
              /\ touched' = touched \ {t}
              /\ UNCHANGED <<data, off>>

-----------------------------------------------------------------------------
(* vita_mmap_fill, on memory that mmap has made zero *)

Fill(t, f, at, len) ==
  Call(t, [Idle EXCEPT !.pc = "tell", !.fd = f, !.at = at, !.start = off[f],
                       !.left = len, !.mem = [i \in 1 .. len |-> 0]])

\* lseek (fd, 0, SEEK_CUR); when it fails nothing is read.
Tell(t) ==
  /\ At(t, "tell")
  /\ \/ op' = [op EXCEPT ![t].cur = off[op[t].fd], ![t].pc = "seek"]
     \/ op' = [op EXCEPT ![t].failed = TRUE, ![t].pc = "filled"]
  /\ UNCHANGED <<data, off, touched, calls>>

\* lseek (fd, offset, SEEK_SET)
Seek(t) ==
  /\ At(t, "seek")
  /\ \/ /\ off' = [off EXCEPT ![op[t].fd] = op[t].at]
        /\ Touch(t, op[t].fd)
        /\ Goto(t, "read")
     \/ /\ op' = [op EXCEPT ![t].failed = TRUE, ![t].pc = "filled"]
        /\ UNCHANGED <<off, touched>>
  /\ UNCHANGED <<data, calls>>

\* Mutant: dst does not move on.
StoredAtStart(t, n) ==
  [i \in DOMAIN op[t].mem |-> IF i <= n THEN Bytes(op[t].fd, n)[i] ELSE op[t].mem[i]]

\* The memory after n more bytes were read to dst.
Stored(t, n) ==
  LET dst == Len(op[t].mem) - op[t].left
  IN  [i \in DOMAIN op[t].mem |-> IF i \in dst + 1 .. dst + n THEN Bytes(op[t].fd, n)[i - dst]
                                  ELSE op[t].mem[i]]

\* Mutant: read may deliver the whole length again.
RoomWhole(t) == Len(op[t].mem)

Room(t) == op[t].left

\* One turn of the loop; it ends when nothing is left, or when read does not
\* deliver, be it the end of the file or an error.
FillRead(t) ==
  /\ At(t, "read")
  /\ \E r \in read(op[t].fd, Room(t)) :
       IF r > 0
       THEN /\ op' = [op EXCEPT ![t].mem = Stored(t, r), ![t].left = @ - r,
                                ![t].pc = IF r = op[t].left THEN "restore" ELSE "read"]
            /\ Advance(op[t].fd, r)
       ELSE /\ op' = [op EXCEPT ![t].failed = (r < 0), ![t].pc = "restore"]
            /\ UNCHANGED off
  /\ Touch(t, op[t].fd)
  /\ UNCHANGED <<data, calls>>

\* Mutant: the offset is left where the copy ended.
RestoreNot(t) ==
  /\ At(t, "restore")
  /\ Goto(t, "filled")
  /\ UNCHANGED <<data, off, touched, calls>>

\* lseek (fd, cur, SEEK_SET); nobody asks whether it failed.
Restore(t) ==
  /\ At(t, "restore")
  /\ \/ /\ off' = [off EXCEPT ![op[t].fd] = op[t].cur]
        /\ Touch(t, op[t].fd)
        /\ Goto(t, "filled")
     \/ /\ op' = [op EXCEPT ![t].moved = TRUE, ![t].pc = "filled"]
        /\ UNCHANGED <<off, touched>>
  /\ UNCHANGED <<data, calls>>

-----------------------------------------------------------------------------
(* SystemNative_CopyFile *)

Copy(t, src, dst) == /\ src # dst
                     /\ Call(t, [Idle EXCEPT !.pc = "rewindsrc", !.fd = src, !.dst = dst])

Rewind(t, f, where) ==
  /\ \/ /\ off' = [off EXCEPT ![f] = 0]
        /\ Touch(t, f)
        /\ Goto(t, where)
     \/ /\ Goto(t, "copyfailed")
        /\ UNCHANGED <<off, touched>>
  /\ UNCHANGED <<data, calls>>

RewindSrc(t) == At(t, "rewindsrc") /\ Rewind(t, op[t].fd, "rewinddst")
RewindDst(t) == At(t, "rewinddst") /\ Rewind(t, op[t].dst, "copyread")

\* Mutant: the end of the source does not end the loop.
CopyGoesOn(r) == r >= 0

CopyMore(r) == r > 0

CopyRead(t) ==
  /\ At(t, "copyread")
  /\ \E r \in read(op[t].fd, CopyBuffer) :
       IF CopyMore(r)
       THEN /\ op' = [op EXCEPT ![t].mem = Bytes(op[t].fd, r), ![t].pc = "copywrite"]
            /\ Advance(op[t].fd, r)
       ELSE /\ Goto(t, IF r < 0 THEN "copyfailed" ELSE "copied")
            /\ UNCHANGED off
  /\ Touch(t, op[t].fd)
  /\ UNCHANGED <<data, calls>>

\* Mutant: only an error of write counts, not a short write.
WroteAny(t, w) == w >= 0

WroteAll(t, w) == w = Len(op[t].mem)

CopyWrite(t) ==
  /\ At(t, "copywrite")
  /\ \E w \in write(op[t].dst, Len(op[t].mem)) :
       LET n == Most(w, 0) IN
       /\ data' = [data EXCEPT ![op[t].dst] = IF n = 0 THEN @
                                              ELSE Written(op[t].dst, SubSeq(op[t].mem, 1, n))]
       /\ Advance(op[t].dst, n)
       /\ Goto(t, IF WroteAll(t, w) THEN "copyread" ELSE "copyfailed")
  /\ Touch(t, op[t].dst)
  /\ UNCHANGED calls

-----------------------------------------------------------------------------
Return(t) == /\ op[t].pc \in {"filled", "copied", "copyfailed"}
             /\ op' = [op EXCEPT ![t] = Idle]
             /\ touched' = touched \ {t}
             /\ UNCHANGED <<data, off, calls>>

\* A plain read of some other code.
Read(t, f, n) == /\ At(t, "idle") /\ calls < MaxCalls
                 /\ calls' = calls + 1
                 /\ \E r \in read(f, n) : Advance(f, Most(r, 0))
                 /\ Touch(t, f)
                 /\ UNCHANGED <<data, op>>

\* What a thread does inside a call, and the calls it may make.
InCall(t) == \/ Tell(t) \/ Seek(t) \/ FillRead(t) \/ Restore(t)
             \/ RewindSrc(t) \/ RewindDst(t) \/ CopyRead(t) \/ CopyWrite(t)
             \/ Return(t)
Calls(t) == \E f \in Fds :
              \/ \E at \in Offsets, len \in Lens : Fill(t, f, at, len)
              \/ \E dst \in Fds : Copy(t, f, dst)
              \/ \E n \in Lens : Read(t, f, n)

-----------------------------------------------------------------------------
(* Properties *)

\* Every variable has its type; no fill writes behind its len bytes.
IOTypeOK ==
  /\ data \in [Fds -> Seq(Nat)] /\ \A f \in Fds : Len(data[f]) <= MaxSize
  /\ off \in [Fds -> Nat]
  /\ \A t \in Threads :
       /\ op[t].pc \in {"idle", "tell", "seek", "read", "restore", "filled", "rewindsrc",
                        "rewinddst", "copyread", "copywrite", "copied", "copyfailed"}
       /\ op[t].fd \in Fds \cup {NoFd} /\ op[t].dst \in Fds \cup {NoFd}
       /\ op[t].left \in 0 .. Len(op[t].mem) \/ op[t].dst \in Fds
       /\ op[t].mem \in Seq(Nat)
  /\ touched \subseteq Threads
  /\ calls \in 0 .. MaxCalls

\* A fill whose descriptor nobody else used leaves the bytes of the file in
\* their places and zeros behind them, however the reads were cut, and all the
\* bytes there are unless a call failed (of which mmap says nothing).
FillExact ==
  \A t \in Threads : At(t, "filled") /\ t \notin touched =>
    LET o == op[t]
        there == Most(0, Least(Len(o.mem), Len(data[o.fd]) - o.at))
    IN \E k \in 0 .. there :
         /\ ~o.failed => k = there
         /\ o.mem = [i \in 1 .. Len(o.mem) |-> IF i <= k THEN data[o.fd][o.at + i] ELSE 0]

\* ... and the offset where it was, also when a seek or a read before failed;
\* only when the last lseek fails is it left behind the bytes that were read.
OffsetKept ==
  \A t \in Threads : At(t, "filled") /\ t \notin touched =>
    LET o == op[t]
    IN  off[o.fd] = IF o.moved THEN o.at + (Len(o.mem) - o.left) ELSE o.start

\* A copy that answers 0, and whose descriptors nobody else used, has copied
\* the whole source; a destination that was longer keeps its tail, since nothing
\* truncates it.
CopyExact ==
  \A t \in Threads : At(t, "copied") /\ t \notin touched =>
    LET src == data[op[t].fd]
    IN  /\ Len(src) <= Len(data[op[t].dst])
        /\ SubSeq(data[op[t].dst], 1, Len(src)) = src
        /\ off[op[t].fd] = Len(src) /\ off[op[t].dst] = Len(src)
=============================================================================
