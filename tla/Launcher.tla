------------------------------- MODULE Launcher -------------------------------
(***************************************************************************)
(* The launcher: main starts one worker thread, which reads from run.txt   *)
(* what to run, brings up the runtime, opens the assembly and invokes its  *)
(* Main, and exits with a code that says how that went.  Both log every    *)
(* stage; on the device the log is what is left after a crash.             *)
(*                                                                         *)
(* The file calls of FileIO run inside: the assembly is loaded by a fill   *)
(* of mmap, and the threads of the program make theirs while it runs.      *)
(***************************************************************************)
EXTENDS FileIO, SequencesExt

CONSTANTS Worker,      \* the worker thread, one of Threads
          RunFiles,    \* what run.txt may hold: sequences of characters
          EndOfLine,   \* the characters that end a line: NUL, CR and LF
          RunMax,      \* sizeof (runasm) - 1
          ASSEMBLY,    \* the path of hello.exe
          Image,       \* the assemblies there are, each with its descriptor
          Nothing,     \* no assembly
          OldLogs,     \* what earlier launches may have left in launcher.log
          MaxLost      \* bound: lines that do not reach the log

ASSUME LauncherAssumption ==
  /\ Worker \in Threads
  /\ RunMax \in Nat /\ MaxLost \in Nat
  /\ \A p \in DOMAIN Image : Image[p] \in Fds
  /\ Nothing \notin DOMAIN Image
  /\ \A text \in RunFiles : text \in Seq(ToSet(text))

VARIABLES main,    \* where main is, or the line it is about to log
          worker,  \* where the worker is, likewise
          target,  \* runasm
          ran,     \* the assembly whose Main returned
          ret,     \* what the worker returned
          exit,    \* the exit code
          log,     \* launcher.log
          lost     \* how many lines did not reach it

lvars == <<main, worker, target, ran, ret, exit, log, lost>>
vars == <<iovars, lvars>>

NoExit == -1

Init == /\ IOInit
        /\ main = "entry"
        /\ worker = "none"
        /\ target = <<>>
        /\ ran = Nothing
        /\ ret = 0
        /\ exit = NoExit
        /\ log \in OldLogs
        /\ lost = 0

\* Mutant: the line is still in a buffer when it returns.
log_buffer(line) == UNCHANGED <<log, lost>>

\* log_write appends to the file, whoever wrote it; the line is there when it
\* returns, unless the file could not be opened or written.
log_write(line) == \/ log' = Append(log, line) /\ UNCHANGED lost
                   \/ lost < MaxLost /\ lost' = lost + 1 /\ UNCHANGED log

-----------------------------------------------------------------------------
(* main *)

\* Mutant: main goes on to join when there is no worker.
MainGoesOn == [entry |-> "vita2d", vita2d |-> "font", font |-> "stdio", stdio |-> "creating",
               creating |-> "create", createFailed |-> "join", joined |-> "exit"]

\* What main does after each line that it logs.
MainAfter == [entry |-> "vita2d", vita2d |-> "font", font |-> "stdio", stdio |-> "creating",
              creating |-> "create", createFailed |-> "exit3", joined |-> "exit"]

MainLogs == /\ main \in DOMAIN MainAfter
            /\ log_write(main)
            /\ main' = MainAfter[main]
            /\ UNCHANGED <<iovars, worker, target, ran, ret, exit>>

CreateWorker == /\ main = "create"
                /\ \/ main' = "join" /\ worker' = "started"
                   \/ main' = "createFailed" /\ UNCHANGED worker
                /\ UNCHANGED <<iovars, target, ran, ret, exit, log, lost>>

Join == /\ main = "join" /\ worker = "ended"
        /\ main' = "joined"
        /\ UNCHANGED <<iovars, worker, target, ran, ret, exit, log, lost>>

\* The codes main exits with.
ExitCode == IF main = "exit3" THEN 3 ELSE IF ret = 42 THEN 0 ELSE 4

\* sceKernelExitProcess: the other threads end with it.
Exit == /\ main \in {"exit3", "exit"}
        /\ exit' = ExitCode
        /\ main' = "over"
        /\ UNCHANGED <<iovars, worker, target, ran, ret, log, lost>>

-----------------------------------------------------------------------------
(* mono_worker *)

\* Mutant: a failure to open the assembly is logged only.
WorkerGoesOn == [started |-> "pick", target |-> "init", initFailed |-> "ended", up |-> "open",
                 openFailed |-> "invoking", invoking |-> "exec", returned |-> "cleanup",
                 done |-> "ended"]

\* What the worker does after each line that it logs, and what it returns.
WorkerAfter == [started |-> "pick", target |-> "init", initFailed |-> "ended", up |-> "open",
                openFailed |-> "ended", invoking |-> "exec", returned |-> "cleanup",
                done |-> "ended"]
Returns == [initFailed |-> 1, openFailed |-> 2, done |-> 42]

\* The lines of the log: an earlier launch, crashed or not, logged the same.
Lines == DOMAIN MainAfter \cup DOMAIN WorkerAfter
ASSUME OldLogsAssumption == OldLogs \subseteq Seq(Lines)

WorkerLogs == /\ worker \in DOMAIN WorkerAfter
              /\ log_write(worker)
              /\ worker' = WorkerAfter[worker]
              /\ ret' = IF worker \in DOMAIN Returns THEN Returns[worker] ELSE ret
              /\ UNCHANGED <<iovars, main, target, ran, exit>>

\* Mutant: the line is not cut at its end.
WholeText(b) == b

\* The text up to the first end of a line.
Line(b) == LET i == SelectInSeq(b, LAMBDA c : c \in EndOfLine)
           IN  IF i = 0 THEN b ELSE SubSeq(b, 1, i - 1)

\* The target is the first line of run.txt, as far as the buffer goes, or
\* hello.exe when there is no file, it is empty or it cannot be read.
PickTarget ==
  /\ worker = "pick"
  /\ \/ \E text \in RunFiles \ {<<>>} : target' = Line(SubSeq(text, 1, Least(Len(text), RunMax)))
     \/ target' = ASSEMBLY
  /\ worker' = "target"
  /\ UNCHANGED <<iovars, main, ran, ret, exit, log, lost>>

\* mono_jit_init
InitRuntime == /\ worker = "init"
               /\ worker' \in {"up", "initFailed"}
               /\ UNCHANGED <<iovars, main, target, ran, ret, exit, log, lost>>

\* mono_domain_assembly_open maps the file of the assembly, which mmap refuses
\* to do with an empty one...
LoadAssembly == /\ worker = "open"
                /\ target \in DOMAIN Image /\ data[Image[target]] # <<>>
                /\ Fill(Worker, Image[target], 0, Len(data[Image[target]]))
                /\ worker' = "loading"
                /\ UNCHANGED <<main, target, ran, ret, exit, log, lost>>

\* ... if there is one that it can open...
NoAssembly == /\ worker = "open"
              /\ worker' = "openFailed"
              /\ UNCHANGED <<iovars, main, target, ran, ret, exit, log, lost>>

\* ... and refuses it when not even its header came, or for reasons of its own.
Loaded == /\ worker = "loading" /\ At(Worker, "filled")
          /\ Return(Worker)
          /\ \/ op[Worker].mem[1] # 0 /\ worker' = "invoking"
             \/ worker' = "openFailed"
          /\ UNCHANGED <<main, target, ran, ret, exit, log, lost>>

\* mono_jit_exec returns, whatever Main returned.
MainReturned == /\ worker = "exec" /\ At(Worker, "idle")
                /\ ran' = target
                /\ worker' = "returned"
                /\ UNCHANGED <<iovars, main, target, ret, exit, log, lost>>

\* mono_jit_cleanup
Cleanup == /\ worker = "cleanup"
           /\ worker' = "done"
           /\ UNCHANGED <<iovars, main, target, ran, ret, exit, log, lost>>

-----------------------------------------------------------------------------
(* The process *)

MainStep == MainLogs \/ CreateWorker \/ Join \/ Exit
WorkerStep == /\ main # "over"
              /\ \/ WorkerLogs \/ PickTarget \/ InitRuntime \/ LoadAssembly
                 \/ NoAssembly \/ Loaded \/ Cleanup
ProgramEnds == main # "over" /\ MainReturned

\* The program's threads make calls while the runtime is up, the worker while
\* Main runs.
CallStep(t) == /\ main # "over" /\ (worker = "loading" => ~At(t, "filled"))
               /\ InCall(t)
               /\ UNCHANGED lvars
ProgramCalls(t) == /\ main # "over"
                   /\ worker = "exec" \/ (t # Worker /\ worker \in {"returned", "cleanup"})
                   /\ Calls(t)
                   /\ UNCHANGED lvars

Next == \/ MainStep \/ WorkerStep \/ ProgramEnds
        \/ \E t \in Threads : CallStep(t) \/ ProgramCalls(t)

\* Every thread goes on; only Main may run as long as it likes.
Spec == /\ Init /\ [][Next]_vars
        /\ WF_vars(MainStep) /\ WF_vars(WorkerStep)
        /\ \A t \in Threads : WF_vars(CallStep(t))

-----------------------------------------------------------------------------
(* Properties *)

\* Every variable has its type.
TypeOK ==
  /\ IOTypeOK
  /\ main \in DOMAIN MainAfter \cup {"create", "join", "exit3", "exit", "over"}
  /\ worker \in DOMAIN WorkerAfter \cup {"none", "pick", "init", "open", "loading", "exec",
                                         "cleanup", "ended"}
  /\ ran \in {Nothing, target}
  /\ ret \in {0, 1, 2, 42}
  /\ exit \in {NoExit, 0, 3, 4}
  /\ log \in Seq(Lines)
  /\ lost \in 0 .. MaxLost

\* What the worker runs is hello.exe or the first line of run.txt, no more and,
\* if the buffer holds it, no less (docs/PROGRESS.md:29).
TargetNamed ==
  worker \notin {"none", "started", "pick"} =>
    \/ target = ASSEMBLY
    \/ \E text \in RunFiles :
         /\ IsPrefix(target, text) /\ ToSet(target) \cap EndOfLine = {}
         /\ Len(target) < Least(Len(text), RunMax) => text[Len(target) + 1] \in EndOfLine

\* The process exits with 0 exactly when the worker opened an assembly and its
\* Main returned, and never while the worker is still under way.
ExitHonest ==
  exit # NoExit => /\ worker \in {"none", "ended"}
                   /\ exit = 0 <=> ran # Nothing
                   /\ exit = 3 <=> worker = "none"
                   /\ ran # Nothing => ran \in DOMAIN Image

\* Where the last launch stands in the log for who reads it: from the last
\* "entry" on.
LastLaunch == {i \in DOMAIN log : \A j \in i + 1 .. Len(log) : log[j] # "entry"}

\* If no line of this launch was lost, the log tells after a crash at any moment
\* from the first line on whether its Main had returned and, after the exit,
\* with which code, whatever the launches before it logged; main's last line
\* comes after all of the worker's, and no line is there twice.
LogTells ==
  lost = 0 /\ main # "entry" =>
    LET told == {log[i] : i \in LastLaunch}
    IN  /\ "returned" \in told => ran # Nothing
        /\ ran # Nothing /\ worker # "returned" => "returned" \in told
        /\ exit # NoExit => /\ exit = 0 <=> "done" \in told
                            /\ exit = 3 <=> "createFailed" \in told
                            /\ exit = 4 <=> {"initFailed", "openFailed"} \cap told # {}
        /\ "joined" \in told => Last(log) = "joined"
        /\ \A i, j \in LastLaunch : log[i] = log[j] => i = j

\* Every call returns, unless the process exits first: the loops end although
\* other threads move the same offsets.
CallsReturn ==
  \A t \in Threads : ~At(t, "idle") ~> (At(t, "idle") \/ main = "over")

\* Whatever fails, the process exits, unless Main runs for ever.
Finishes == <>[](worker = "exec") \/ <>(main = "over")
=============================================================================
