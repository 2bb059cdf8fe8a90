--------------------------------- MODULE Dirs ---------------------------------
(***************************************************************************)
(* Directory enumeration: opendir, readdir, rewinddir and closedir of the  *)
(* shim, on directory handles of the kernel, and the System.Native calls   *)
(* the managed enumerator uses on top of them.                             *)
(*                                                                         *)
(* Several threads enumerate one directory while others change it.  Each   *)
(* has a DIR of its own; handle numbers, once closed, are given out again. *)
(* Each kernel call is one step.                                           *)
(***************************************************************************)
EXTENDS Integers, FiniteSets

CONSTANTS Threads,
          Names,       \* the names a directory may contain
          Length,      \* the length of each name
          Handles,     \* the kernel's directory handles
          NoHandle,    \* a negative dfd
          NoName,      \* readdir answered NULL
          MaxChanges   \* bound: changes to the directory

ASSUME DirsAssumption ==
  /\ Length \in [Names -> 1 .. 255]
  /\ NoHandle \notin Handles /\ NoName \notin Names
  /\ MaxChanges \in Nat

VARIABLES names,    \* what the directory contains
          changes,  \* how often it was changed
          handle,   \* per handle: the names the kernel has yet to deliver
          pc,       \* per thread: where it is with its DIR
          dfd,      \* per thread: d->dfd
          errno,    \* per thread: errno
          answer,   \* per thread: the last answer of ReadDirR
          got,      \* per thread: the names delivered since open or rewind
          stable,   \* per thread: the names that were there all that time
          failed    \* the threads for which the kernel failed to read

seen == <<answer, got, stable, failed>>
vars == <<names, changes, handle, pc, dfd, errno, seen>>

\* The contents of a handle that is not open: no set of names.
Closed == {NoName}

Errnos == {"ENOENT", "ENOMEM", "EBADF"}

Init == /\ names \in SUBSET Names
        /\ changes = 0
        /\ handle = [h \in Handles |-> Closed]
        /\ pc = [t \in Threads |-> "none"]
        /\ dfd = [t \in Threads |-> NoHandle]
        /\ errno = [t \in Threads |-> "0"]
        /\ answer = [t \in Threads |-> "none"]
        /\ got = [t \in Threads |-> {}]
        /\ stable = [t \in Threads |-> {}]
        /\ failed = {}

\* An enumeration starts, or is given up, with these names in the directory.
Restart(t, ns) == /\ answer' = [answer EXCEPT ![t] = "none"]
                  /\ got' = [got EXCEPT ![t] = {}]
                  /\ stable' = [stable EXCEPT ![t] = ns]
                  /\ failed' = failed \ {t}

\* sceIoDopen: any closed handle, on what the directory contains now.
Dopen(t) == \E h \in Handles : /\ handle[h] = Closed
                              /\ handle' = [handle EXCEPT ![h] = names]
                              /\ dfd' = [dfd EXCEPT ![t] = h]
                              /\ Restart(t, names)

\* sceIoDclose, left out when d->dfd is negative.
Dclose(t) == /\ handle' = [h \in Handles |-> IF h = dfd[t] THEN Closed ELSE handle[h]]
             /\ Restart(t, {})

\* __wrap_opendir asks the kernel for a handle...
OpenHandle(t) ==
  /\ pc[t] = "none"
  /\ Dopen(t)
  /\ pc' = [pc EXCEPT ![t] = "opened"]
  /\ UNCHANGED <<names, changes, errno>>

\* Mutant: errno becomes the code the kernel answered.
OpenFailsRaw(t) ==
  /\ pc[t] = "none"
  /\ errno' = [errno EXCEPT ![t] = "SCE_ERROR_ERRNO_ENOENT"]
  /\ UNCHANGED <<names, changes, handle, pc, dfd, seen>>

\* ... reports any failure of that as ENOENT...
OpenFails(t) ==
  /\ pc[t] = "none"
  /\ errno' = [errno EXCEPT ![t] = "ENOENT"]
  /\ UNCHANGED <<names, changes, handle, pc, dfd, seen>>

\* ... allocates the DIR...
OpenDir(t) ==
  /\ pc[t] = "opened"
  /\ pc' = [pc EXCEPT ![t] = "dir"]
  /\ UNCHANGED <<names, changes, handle, dfd, errno, seen>>

\* ... or gives the handle back.
OpenNoMemory(t) ==
  /\ pc[t] = "opened"
  /\ Dclose(t)
  /\ pc' = [pc EXCEPT ![t] = "none"]
  /\ dfd' = [dfd EXCEPT ![t] = NoHandle]
  /\ errno' = [errno EXCEPT ![t] = "ENOMEM"]
  /\ UNCHANGED <<names, changes>>

\* What __wrap_readdir may answer when errno was e: a name, or NULL at the end,
\* after an error of sceIoDread (which leaves errno alone), or on a DIR without
\* a handle.
readdir(t, e) ==
  IF dfd[t] = NoHandle THEN {[name |-> NoName, errno |-> "EBADF", error |-> FALSE]}
  ELSE {[name |-> n, errno |-> e, error |-> FALSE] : n \in handle[dfd[t]]}
       \cup {[name |-> NoName, errno |-> e, error |-> b] : b \in {TRUE, handle[dfd[t]] # {}}}

\* SystemNative_GetReadDirRBufferSize: the buffer the caller brings.
SmallBuffer == 128       \* Mutant.
BufferSize == 1024

\* Mutant: errno is not reset before readdir.
ErrnoKept(e) == e

\* SystemNative_ReadDirR resets errno...
ErrnoBefore(e) == "0"

\* Mutant: the end is answered 0, as in an earlier version of the code.
AnswerZero(r) == IF r.name = NoName THEN IF r.errno # "0" THEN r.errno ELSE "0"
                 ELSE IF Length[r.name] + 1 > BufferSize THEN "-1" ELSE "0"

\* ... and answers 0 for a name, errno if that is set, else -1.
Answer(r) == IF r.name = NoName THEN IF r.errno # "0" THEN r.errno ELSE "-1"
             ELSE IF Length[r.name] + 1 > BufferSize THEN "-1" ELSE "0"

ReadDirR(t) ==
  /\ pc[t] = "dir"
  /\ \E r \in readdir(t, ErrnoBefore(errno[t])) :
       /\ handle' = [h \in Handles |-> IF h = dfd[t] THEN handle[h] \ {r.name} ELSE handle[h]]
       /\ errno' = [errno EXCEPT ![t] = r.errno]
       /\ answer' = [answer EXCEPT ![t] = Answer(r)]
       /\ got' = [got EXCEPT ![t] = IF Answer(r) = "0" THEN @ \cup {r.name} ELSE @]
       /\ failed' = IF r.error THEN failed \cup {t} ELSE failed
  /\ UNCHANGED <<names, changes, pc, dfd, stable>>

\* __wrap_closedir
CloseDir(t) ==
  /\ pc[t] = "dir"
  /\ Dclose(t)
  /\ pc' = [pc EXCEPT ![t] = "none"]
  /\ dfd' = [dfd EXCEPT ![t] = NoHandle]
  /\ UNCHANGED <<names, changes, errno>>

\* __wrap_rewinddir closes the handle, which another thread may get now...
RewindClose(t) ==
  /\ pc[t] = "dir"
  /\ Dclose(t)
  /\ pc' = [pc EXCEPT ![t] = "rewind"]
  /\ UNCHANGED <<names, changes, dfd, errno>>

\* ... and opens the directory again, or is left with a negative dfd.
RewindOpen(t) ==
  /\ pc[t] = "rewind"
  /\ Dopen(t)
  /\ pc' = [pc EXCEPT ![t] = "dir"]
  /\ UNCHANGED <<names, changes, errno>>

\* Mutant: the old handle stays in the DIR.
RewindFailsStale(t) ==
  /\ pc[t] = "rewind"
  /\ pc' = [pc EXCEPT ![t] = "dir"]
  /\ UNCHANGED <<names, changes, handle, dfd, errno, seen>>

RewindFails(t) ==
  /\ pc[t] = "rewind"
  /\ dfd' = [dfd EXCEPT ![t] = NoHandle]
  /\ pc' = [pc EXCEPT ![t] = "dir"]
  /\ UNCHANGED <<names, changes, handle, errno, seen>>

\* Somebody adds or removes a name; an enumeration under way may see it or not.
Change(n) ==
  /\ changes < MaxChanges
  /\ changes' = changes + 1
  /\ \E told \in SUBSET {h \in Handles : handle[h] # Closed} :
       IF n \in names
       THEN /\ names' = names \ {n}
            /\ handle' = [h \in Handles |-> IF h \in told THEN handle[h] \ {n} ELSE handle[h]]
            /\ stable' = [t \in Threads |-> stable[t] \ {n}]
       ELSE /\ names' = names \cup {n}
            /\ handle' = [h \in Handles |-> IF h \in told THEN handle[h] \cup {n} ELSE handle[h]]
            /\ UNCHANGED stable
  /\ UNCHANGED <<pc, dfd, errno, answer, got, failed>>

Next == \/ \E t \in Threads :
             \/ OpenHandle(t) \/ OpenFails(t) \/ OpenDir(t) \/ OpenNoMemory(t)
             \/ ReadDirR(t) \/ CloseDir(t)
             \/ RewindClose(t) \/ RewindOpen(t) \/ RewindFails(t)
        \/ \E n \in Names : Change(n)

\* A thread that enumerates goes on reading.
Spec == Init /\ [][Next]_vars /\ \A t \in Threads : WF_vars(ReadDirR(t))

-----------------------------------------------------------------------------
(* Properties *)

\* Every variable has its type; errno is never a raw code of the kernel.
TypeOK ==
  /\ names \subseteq Names
  /\ changes \in 0 .. MaxChanges
  /\ handle \in [Handles -> (SUBSET Names) \cup {Closed}]
  /\ pc \in [Threads -> {"none", "opened", "dir", "rewind"}]
  /\ dfd \in [Threads -> Handles \cup {NoHandle}]
  /\ errno \in [Threads -> Errnos \cup {"0"}]
  /\ answer \in [Threads -> Errnos \cup {"none", "0", "-1"}]
  /\ got \in [Threads -> SUBSET Names]
  /\ stable \in [Threads -> SUBSET Names]
  /\ failed \subseteq Threads

\* The handle of a thread's DIR, or of its opendir call.
Holds(t, h) == pc[t] \in {"opened", "dir"} /\ dfd[t] = h

\* The kernel's open handles and the DIRs match one to one, whichever step of
\* opendir or rewinddir fails: no handle leaks, none is used after it was
\* closed and perhaps given to another thread, none has two users.
HandlesOwned ==
  \A h \in Handles :
    /\ handle[h] # Closed <=> \E t \in Threads : Holds(t, h)
    /\ \A s, t \in Threads : Holds(s, h) /\ Holds(t, h) => s = t

\* The answer "end" means that every name that was there all the time has been
\* delivered, unless the kernel failed to read, which is answered the same.
EndMeansAll ==
  \A t \in Threads : pc[t] = "dir" /\ answer[t] = "-1" => stable[t] \subseteq got[t] \/ t \in failed

\* An error is answered only by a DIR that a failed rewind left without handle,
\* whatever errno earlier calls of the thread left behind.
NoFalseError ==
  \A t \in Threads : pc[t] = "dir" /\ answer[t] \in Errnos => dfd[t] = NoHandle

\* A loop that reads as long as ReadDirR answers 0 ends (GetFiles once did not,
\* docs/PROGRESS.md:59).
EnumerationEnds ==
  \A t \in Threads : (pc[t] = "dir" /\ answer[t] = "0") ~> ~(pc[t] = "dir" /\ answer[t] = "0")
=============================================================================
