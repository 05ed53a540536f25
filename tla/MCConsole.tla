----------------------------- MODULE MCConsole ------------------------------
(***************************************************************************)
(* Threads that share the console; the input is "a", a newline and "b".    *)
(***************************************************************************)
EXTENDS Console

CONSTANTS main, t1, t2

MCSemaphores == {inLock, inWait, outLock, outWait}
MCInitialValue == [s \in MCSemaphores |-> IF s \in {inLock, outLock} THEN 1 ELSE 0]
MCDoneSem == [d \in {keys, display} |-> IF d = keys THEN inWait ELSE outWait]
MCKeyboard == <<"a", "newline", "b">>
=============================================================================
