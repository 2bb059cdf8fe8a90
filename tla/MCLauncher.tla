------------------------------ MODULE MCLauncher ------------------------------
(* Launcher with two descriptors; one holds an assembly, the other is an empty
   file, and there is no hello.exe. *)
EXTENDS Launcher

CONSTANTS a, b

MCContents == {[f \in {a, b} |-> IF f = a THEN <<1, 2>> ELSE <<>>]}

\* Characters: x names the assembly; cr and lf end lines.
MCASSEMBLY == <<"h">>
MCImage == <<"x">> :> a
MCEndOfLine == {"cr", "lf"}
MCRunFiles == {<<>>, <<"x">>, <<"x", "cr", "lf">>, <<"lf", "x">>, <<"y", "y", "y">>}

\* The log after a launch that crashed when its Main had returned.
MCOldLogs == {<<"entry", "vita2d", "font", "stdio", "creating", "started", "target", "up",
                "invoking", "returned">>}
=============================================================================
