------------------------------ MODULE DirsProofs -------------------------------
(* Proofs about Dirs, for every number of threads, handles and names. *)
EXTENDS Dirs, TLAPS

\* What a DIR has yet to deliver is what its handle has: a name that was there
\* all the time is delivered already or still to come.
Tracked ==
  \A t \in Threads : pc[t] \in {"opened", "dir"} /\ dfd[t] \in Handles =>
    stable[t] \subseteq got[t] \cup handle[dfd[t]]

\* A DIR that was just opened or rewound has answered nothing.
Fresh == \A t \in Threads : pc[t] \in {"opened", "rewind"} => answer[t] = "none"

IInv == TypeOK /\ HandlesOwned /\ Tracked /\ Fresh /\ EndMeansAll /\ NoFalseError

-----------------------------------------------------------------------------
(* Facts about the operators. *)

\* The contents of an open handle are never mistaken for those of a closed one.
LEMMA OpenIsNotClosed == \A s \in SUBSET Names : s # Closed
  BY DirsAssumption DEF Closed

\* Every name of a directory fits in the buffer of ReadDirR.
LEMMA NameFits == \A n \in Names : ~(Length[n] + 1 > BufferSize)
<1> SUFFICES ASSUME NEW n \in Names PROVE ~(Length[n] + 1 > BufferSize)
  OBVIOUS
<1>1. Length[n] \in 1 .. 255
  BY DirsAssumption
<1> QED
  BY <1>1, SMT DEF BufferSize

\* What readdir may answer.
LEMMA ReaddirResult ==
  ASSUME NEW t \in Threads, NEW r \in readdir(t, "0")
  PROVE  \/ dfd[t] = NoHandle /\ r.name = NoName /\ r.errno = "EBADF" /\ r.error = FALSE
         \/ dfd[t] # NoHandle /\ r.name \in handle[dfd[t]] /\ r.errno = "0" /\ r.error = FALSE
         \/ /\ dfd[t] # NoHandle /\ r.name = NoName /\ r.errno = "0"
            /\ r.error = TRUE \/ (r.error = FALSE /\ handle[dfd[t]] = {})
<1>1. CASE dfd[t] = NoHandle
  BY <1>1 DEF readdir
<1>2. CASE dfd[t] # NoHandle
  <2>1. CASE r \in {[name |-> n, errno |-> "0", error |-> FALSE] : n \in handle[dfd[t]]}
    BY <1>2, <2>1
  <2>2. CASE r \in {[name |-> NoName, errno |-> "0", error |-> b] : b \in {TRUE, handle[dfd[t]] # {}}}
    <3>1. PICK b \in {TRUE, handle[dfd[t]] # {}} :
            r = [name |-> NoName, errno |-> "0", error |-> b]
      BY <2>2
    <3> QED BY <1>2, <3>1
  <2> QED BY <1>2, <2>1, <2>2 DEF readdir
<1> QED
  BY <1>1, <1>2

-----------------------------------------------------------------------------
(* Each step keeps the invariant. *)

\* A directory of any contents and no DIR yet.
LEMMA InitIInv == Init => IInv
<1> SUFFICES ASSUME Init PROVE IInv
  OBVIOUS
<1>1. names \subseteq Names /\ changes \in 0 .. MaxChanges
  BY DirsAssumption, SMT DEF Init
<1>2. /\ handle \in [Handles -> (SUBSET Names) \cup {Closed}]
      /\ got \in [Threads -> SUBSET Names] /\ stable \in [Threads -> SUBSET Names]
  BY DEF Init
<1>3. TypeOK
  BY <1>1, <1>2 DEF Init, TypeOK
<1> QED
  BY <1>3 DEF Init, IInv, HandlesOwned, Holds, Tracked, Fresh, EndMeansAll, NoFalseError, Errnos

\* opendir got a handle that nobody has.
LEMMA OpenHandleStep ==
  ASSUME IInv, NEW t \in Threads, OpenHandle(t)
  PROVE  IInv'
<1> USE DEF IInv
<1>1. PICK h \in Handles : /\ handle[h] = Closed
                           /\ handle' = [handle EXCEPT ![h] = names]
                           /\ dfd' = [dfd EXCEPT ![t] = h]
                           /\ Restart(t, names)
  BY DEF OpenHandle, Dopen
<1>2. /\ pc[t] = "none" /\ pc' = [pc EXCEPT ![t] = "opened"]
      /\ names' = names /\ changes' = changes /\ errno' = errno
      /\ names # Closed
  BY OpenIsNotClosed DEF OpenHandle, TypeOK
<1>3. TypeOK'
  BY <1>1, <1>2 DEF TypeOK, Restart
<1>4. HandlesOwned'
  BY <1>1, <1>2 DEF TypeOK, HandlesOwned, Holds
<1>5. Tracked'
  BY <1>1, <1>2 DEF TypeOK, HandlesOwned, Holds, Tracked, Restart
<1>6. Fresh' /\ EndMeansAll' /\ NoFalseError'
  BY <1>1, <1>2 DEF TypeOK, Fresh, EndMeansAll, NoFalseError, Restart, Errnos
<1> QED
  BY <1>3, <1>4, <1>5, <1>6

\* opendir that fails touches errno only.
LEMMA OpenFailsStep ==
  ASSUME IInv, NEW t \in Threads, OpenFails(t)
  PROVE  IInv'
  BY DEF IInv, TypeOK, HandlesOwned, Holds, Tracked, Fresh, EndMeansAll, NoFalseError, OpenFails,
         seen, Errnos

\* opendir returns its DIR.
LEMMA OpenDirStep ==
  ASSUME IInv, NEW t \in Threads, OpenDir(t)
  PROVE  IInv'
<1>1. TypeOK' /\ HandlesOwned' /\ Tracked' /\ Fresh'
  BY DEF IInv, TypeOK, HandlesOwned, Holds, Tracked, Fresh, OpenDir, seen
<1>2. EndMeansAll' /\ NoFalseError'
  BY DEF IInv, TypeOK, Fresh, EndMeansAll, NoFalseError, OpenDir, seen, Errnos
<1> QED
  BY <1>1, <1>2 DEF IInv

\* Closing the handle of a DIR: nobody else has it.
LEMMA DcloseFacts ==
  ASSUME IInv, NEW t \in Threads, pc[t] \in {"opened", "dir"}, Dclose(t)
  PROVE  /\ handle' \in [Handles -> (SUBSET Names) \cup {Closed}]
         /\ \A h \in Handles : handle'[h] # Closed <=> \E s \in Threads \ {t} : Holds(s, h)
         /\ \A s \in Threads \ {t} : Holds(s, dfd[s]) /\ dfd[s] \in Handles =>
                                       handle'[dfd[s]] = handle[dfd[s]]
  BY DEF IInv, TypeOK, HandlesOwned, Holds, Dclose

\* A DIR whose handle is closed: opendir that gives up, closedir, rewinddir.
LEMMA CloseStep ==
  ASSUME IInv, NEW t \in Threads, pc[t] \in {"opened", "dir"}, Dclose(t),
         NEW p \in {"none", "rewind"}, pc' = [pc EXCEPT ![t] = p],
         dfd' \in [Threads -> Handles \cup {NoHandle}],
         \A s \in Threads \ {t} : dfd'[s] = dfd[s],
         names' = names, changes' = changes, errno' \in [Threads -> Errnos \cup {"0"}]
  PROVE  IInv'
<1> USE DEF IInv
<1>1. Restart(t, {})
  BY DEF Dclose
<1>2. TypeOK'
  BY <1>1, DcloseFacts DEF TypeOK, Restart
<1>3. \A s \in Threads, h \in Handles : Holds(s, h)' <=> s # t /\ Holds(s, h)
  BY DEF TypeOK, Holds
<1>4. HandlesOwned'
  <2>1. \A h \in Handles : handle'[h] # Closed <=> \E s \in Threads \ {t} : Holds(s, h)
    BY DcloseFacts
  <2> QED BY <1>3, <2>1 DEF HandlesOwned
<1>5. Tracked'
  BY <1>1, DcloseFacts DEF TypeOK, Tracked, Holds, Restart
<1>6. Fresh' /\ EndMeansAll' /\ NoFalseError'
  BY <1>1 DEF TypeOK, Fresh, EndMeansAll, NoFalseError, Restart, Errnos
<1> QED
  BY <1>2, <1>4, <1>5, <1>6

\* opendir gives its handle back.
LEMMA OpenNoMemoryStep ==
  ASSUME IInv, NEW t \in Threads, OpenNoMemory(t)
  PROVE  IInv'
<1>1. /\ dfd' \in [Threads -> Handles \cup {NoHandle}] /\ errno' \in [Threads -> Errnos \cup {"0"}]
      /\ \A s \in Threads \ {t} : dfd'[s] = dfd[s]
  BY DEF IInv, TypeOK, OpenNoMemory, Errnos
<1> QED
  BY <1>1, CloseStep DEF OpenNoMemory

\* closedir.
LEMMA CloseDirStep ==
  ASSUME IInv, NEW t \in Threads, CloseDir(t)
  PROVE  IInv'
<1>1. /\ dfd' \in [Threads -> Handles \cup {NoHandle}] /\ errno' \in [Threads -> Errnos \cup {"0"}]
      /\ \A s \in Threads \ {t} : dfd'[s] = dfd[s]
  BY DEF IInv, TypeOK, CloseDir
<1> QED
  BY <1>1, CloseStep DEF CloseDir

\* rewinddir, until it asks for a new handle.
LEMMA RewindCloseStep ==
  ASSUME IInv, NEW t \in Threads, RewindClose(t)
  PROVE  IInv'
<1>1. /\ dfd' \in [Threads -> Handles \cup {NoHandle}] /\ errno' \in [Threads -> Errnos \cup {"0"}]
      /\ \A s \in Threads \ {t} : dfd'[s] = dfd[s]
  BY DEF IInv, TypeOK, RewindClose
<1> QED
  BY <1>1, CloseStep DEF RewindClose

\* rewinddir got a handle that nobody has.
LEMMA RewindOpenStep ==
  ASSUME IInv, NEW t \in Threads, RewindOpen(t)
  PROVE  IInv'
<1> USE DEF IInv
<1>1. PICK h \in Handles : /\ handle[h] = Closed
                           /\ handle' = [handle EXCEPT ![h] = names]
                           /\ dfd' = [dfd EXCEPT ![t] = h]
                           /\ Restart(t, names)
  BY DEF RewindOpen, Dopen
<1>2. /\ pc[t] = "rewind" /\ pc' = [pc EXCEPT ![t] = "dir"]
      /\ names' = names /\ changes' = changes /\ errno' = errno
      /\ names # Closed
  BY OpenIsNotClosed DEF RewindOpen, TypeOK
<1>3. TypeOK'
  BY <1>1, <1>2 DEF TypeOK, Restart
<1>4. HandlesOwned'
  BY <1>1, <1>2 DEF TypeOK, HandlesOwned, Holds
<1>5. Tracked'
  BY <1>1, <1>2 DEF TypeOK, HandlesOwned, Holds, Tracked, Restart
<1>6. Fresh' /\ EndMeansAll' /\ NoFalseError'
  BY <1>1, <1>2 DEF TypeOK, Fresh, EndMeansAll, NoFalseError, Restart, Errnos
<1> QED
  BY <1>3, <1>4, <1>5, <1>6

\* rewinddir that fails leaves a DIR without handle.
LEMMA RewindFailsStep ==
  ASSUME IInv, NEW t \in Threads, RewindFails(t)
  PROVE  IInv'
<1> USE DEF IInv
<1>1. /\ pc[t] = "rewind" /\ pc' = [pc EXCEPT ![t] = "dir"]
      /\ dfd' = [dfd EXCEPT ![t] = NoHandle]
      /\ names' = names /\ changes' = changes /\ handle' = handle /\ errno' = errno
      /\ answer' = answer /\ got' = got /\ stable' = stable /\ failed' = failed
  BY DEF RewindFails, seen
<1>2. TypeOK' /\ HandlesOwned' /\ Tracked'
  BY <1>1, DirsAssumption DEF TypeOK, HandlesOwned, Holds, Tracked
<1>3. Fresh' /\ EndMeansAll' /\ NoFalseError'
  BY <1>1 DEF TypeOK, Fresh, EndMeansAll, NoFalseError, Errnos
<1> QED
  BY <1>2, <1>3

\* One answer: a name moves from the handle to what was delivered, the end is
\* answered when nothing is left or the kernel failed, an error without handle.
LEMMA ReadDirRStep ==
  ASSUME IInv, NEW t \in Threads, ReadDirR(t)
  PROVE  IInv'
<1> USE DEF IInv
<1>1. PICK r \in readdir(t, "0") :
        /\ handle' = [h \in Handles |-> IF h = dfd[t] THEN handle[h] \ {r.name} ELSE handle[h]]
        /\ errno' = [errno EXCEPT ![t] = r.errno]
        /\ answer' = [answer EXCEPT ![t] = Answer(r)]
        /\ got' = [got EXCEPT ![t] = IF Answer(r) = "0" THEN @ \cup {r.name} ELSE @]
        /\ failed' = IF r.error THEN failed \cup {t} ELSE failed
  BY DEF ReadDirR, ErrnoBefore
<1>2. /\ pc[t] = "dir" /\ pc' = pc /\ dfd' = dfd /\ stable' = stable
      /\ names' = names /\ changes' = changes
  BY DEF ReadDirR
<1>3. CASE dfd[t] = NoHandle
  <2>1. /\ r.name = NoName /\ r.errno = "EBADF" /\ r.error = FALSE /\ Answer(r) = "EBADF"
    BY <1>3, ReaddirResult DEF Answer
  <2>2. handle' = handle /\ got' = got /\ failed' = failed
    BY <1>1, <1>3, <2>1, DirsAssumption DEF TypeOK
  <2>3. errno' = [errno EXCEPT ![t] = "EBADF"] /\ answer' = [answer EXCEPT ![t] = "EBADF"]
    BY <1>1, <2>1
  <2>4. TypeOK' /\ HandlesOwned' /\ Tracked'
    BY <1>2, <2>2, <2>3 DEF TypeOK, HandlesOwned, Holds, Tracked, Errnos
  <2>5. Fresh' /\ EndMeansAll' /\ NoFalseError'
    BY <1>2, <1>3, <2>2, <2>3 DEF TypeOK, Fresh, EndMeansAll, NoFalseError, Errnos
  <2> QED BY <2>4, <2>5
<1>4. CASE dfd[t] # NoHandle
  <2>1. dfd[t] \in Handles /\ handle[dfd[t]] \in SUBSET Names
    BY <1>2, <1>4 DEF TypeOK, HandlesOwned, Holds
  <2>2. \A h \in Handles : handle'[h] # Closed <=> handle[h] # Closed
    BY <1>1, <2>1, OpenIsNotClosed
  <2>3. HandlesOwned'
    BY <1>2, <2>2 DEF HandlesOwned, Holds
  <2>4. handle' \in [Handles -> (SUBSET Names) \cup {Closed}]
    BY <1>1, <2>1 DEF TypeOK
  <2>5. \A s \in Threads \ {t} : pc[s] \in {"opened", "dir"} /\ dfd[s] \in Handles =>
                                  handle'[dfd[s]] = handle[dfd[s]]
    BY <1>1, <1>2, <2>1 DEF HandlesOwned, Holds
  <2>6. CASE r.name \in handle[dfd[t]] /\ r.errno = "0" /\ r.error = FALSE
    <3>1. r.name \in Names /\ Answer(r) = "0"
      BY <2>1, <2>6, NameFits, DirsAssumption DEF Answer
    <3>2. /\ got' = [got EXCEPT ![t] = @ \cup {r.name}] /\ failed' = failed
          /\ errno' = [errno EXCEPT ![t] = "0"] /\ answer' = [answer EXCEPT ![t] = "0"]
          /\ handle'[dfd[t]] = handle[dfd[t]] \ {r.name}
      BY <1>1, <2>1, <2>6, <3>1
    <3>3. TypeOK'
      BY <1>2, <2>4, <3>1, <3>2 DEF TypeOK
    <3>4. Tracked'
      BY <1>2, <2>1, <2>5, <3>2 DEF TypeOK, Tracked
    <3>5. Fresh' /\ EndMeansAll' /\ NoFalseError'
      BY <1>2, <3>2 DEF TypeOK, Fresh, EndMeansAll, NoFalseError, Errnos
    <3> QED BY <2>3, <3>3, <3>4, <3>5
  <2>7. CASE /\ r.name = NoName /\ r.errno = "0"
             /\ r.error = TRUE \/ (r.error = FALSE /\ handle[dfd[t]] = {})
    <3>1. Answer(r) = "-1" /\ NoName \notin Names
      BY <2>7, DirsAssumption DEF Answer
    <3>2. /\ got' = got /\ handle' = handle
          /\ errno' = [errno EXCEPT ![t] = "0"] /\ answer' = [answer EXCEPT ![t] = "-1"]
      BY <1>1, <2>1, <2>7, <3>1 DEF TypeOK
    <3>3. /\ failed \subseteq failed' /\ failed' \subseteq Threads
          /\ t \in failed' \/ handle[dfd[t]] = {}
      BY <1>1, <2>7 DEF TypeOK
    <3>4. TypeOK'
      BY <1>2, <3>2, <3>3 DEF TypeOK
    <3>5. Tracked'
      BY <1>2, <3>2 DEF Tracked
    <3>6. stable[t] \subseteq got[t] \/ t \in failed'
      BY <1>2, <2>1, <3>3 DEF Tracked
    <3>7. Fresh' /\ EndMeansAll' /\ NoFalseError'
      BY <1>2, <3>2, <3>3, <3>6 DEF TypeOK, Fresh, EndMeansAll, NoFalseError, Errnos
    <3> QED BY <2>3, <3>4, <3>5, <3>7
  <2> QED BY <1>4, <2>6, <2>7, ReaddirResult
<1> QED
  BY <1>3, <1>4

\* A change that comes or goes before the enumerations that are under way.
LEMMA ChangeStep ==
  ASSUME IInv, NEW n \in Names, Change(n)
  PROVE  IInv'
<1> USE DEF IInv
<1>1. /\ pc' = pc /\ dfd' = dfd /\ errno' = errno /\ answer' = answer /\ got' = got
      /\ failed' = failed /\ changes' \in 0 .. MaxChanges
  BY DirsAssumption, SMT DEF Change, TypeOK
<1>2. PICK told \in SUBSET {h \in Handles : handle[h] # Closed} :
        IF n \in names
        THEN /\ names' = names \ {n}
             /\ handle' = [h \in Handles |-> IF h \in told THEN handle[h] \ {n} ELSE handle[h]]
             /\ stable' = [t \in Threads |-> stable[t] \ {n}]
        ELSE /\ names' = names \cup {n}
             /\ handle' = [h \in Handles |-> IF h \in told THEN handle[h] \cup {n} ELSE handle[h]]
             /\ stable' = stable
  BY DEF Change
<1>3. \A h \in told : h \in Handles /\ handle[h] \in SUBSET Names
  BY DEF TypeOK
<1>4. \A h \in Handles : /\ handle'[h] \in (SUBSET Names) \cup {Closed}
                         /\ handle'[h] # Closed <=> handle[h] # Closed
                         /\ handle[h] \ {n} \subseteq handle'[h]
                         /\ n \notin names => handle[h] \subseteq handle'[h]
  BY <1>2, <1>3, OpenIsNotClosed DEF TypeOK
<1>5. /\ stable' \in [Threads -> SUBSET Names] /\ names' \subseteq Names
      /\ \A t \in Threads : /\ stable'[t] \subseteq stable[t]
                            /\ n \in names => n \notin stable'[t]
  BY <1>2 DEF TypeOK
<1>6. TypeOK'
  <2>1. handle' \in [Handles -> (SUBSET Names) \cup {Closed}]
    BY <1>2, <1>4
  <2> QED BY <1>1, <1>5, <2>1 DEF TypeOK
<1>7. HandlesOwned'
  BY <1>1, <1>4 DEF HandlesOwned, Holds
<1>8. Tracked'
  BY <1>1, <1>4, <1>5 DEF Tracked
<1>9. Fresh' /\ EndMeansAll' /\ NoFalseError'
  BY <1>1, <1>5 DEF Fresh, EndMeansAll, NoFalseError
<1> QED
  BY <1>6, <1>7, <1>8, <1>9

\* Every step keeps the invariant.
LEMMA NextIInv == IInv /\ [Next]_vars => IInv'
<1> SUFFICES ASSUME IInv, [Next]_vars PROVE IInv'
  OBVIOUS
<1>1. CASE UNCHANGED vars
  BY <1>1 DEF vars, seen, IInv, TypeOK, HandlesOwned, Holds, Tracked, Fresh, EndMeansAll, NoFalseError
<1>2. CASE Next
  BY <1>2, OpenHandleStep, OpenFailsStep, OpenDirStep, OpenNoMemoryStep, ReadDirRStep, CloseDirStep,
     RewindCloseStep, RewindOpenStep, RewindFailsStep, ChangeStep DEF Next
<1> QED
  BY <1>1, <1>2

-----------------------------------------------------------------------------
(* The theorems. *)

\* In every reachable state the properties hold, together with what they rest
\* on: names not yet delivered are still to come, new DIRs have no answer.
THEOREM Invariance == Spec => []IInv
<1>1. Init => IInv
  BY InitIInv
<1>2. IInv /\ [Next]_vars => IInv'
  BY NextIInv
<1> QED
  BY <1>1, <1>2, PTL DEF Spec

\* Type correctness of opendir, readdir, rewinddir and closedir: the caller
\* sees errno values of the C library only.
THEOREM TypeCorrect == Spec => []TypeOK
  BY Invariance, PTL DEF IInv

\* However the steps of opendir, rewinddir and closedir of several threads
\* interleave and fail, the kernel's open handles and the DIRs match one to one.
THEOREM HandlesExclusive == Spec => []HandlesOwned
  BY Invariance, PTL DEF IInv

\* ReadDirR answers the end only when every name that was there all the time
\* has been delivered, or when the kernel failed to read.
THEOREM EndIsEnd == Spec => []EndMeansAll
  BY Invariance, PTL DEF IInv

\* ReadDirR answers an error only on a DIR whose rewinddir failed.
THEOREM NoErrorInvented == Spec => []NoFalseError
  BY Invariance, PTL DEF IInv
=============================================================================
