------------------------------ MODULE FileMap -------------------------------
(***************************************************************************)
(* What the Nachos file system promises to the one program that uses it: a *)
(* map from names to the bytes of a file, changed by whole operations, and *)
(* what the machine may do to it by stopping in the middle of one.         *)
(***************************************************************************)
EXTENDS Integers, Sequences

CONSTANT Names

VARIABLES
  files,    \* the bytes of each file there is, by its name
  busy,     \* the names the operation in progress is about
  damaged   \* the map and the directory on the disk contradict each other

fileMapVars == <<files, busy, damaged>>

OnlyChanges(n) ==
  /\ DOMAIN files' \ {n} = DOMAIN files \ {n}
  /\ \A m \in DOMAIN files \ {n} : files'[m] = files[m]

Init ==
  /\ DOMAIN files = {}
  /\ busy = {}
  /\ damaged = FALSE

Create(n) ==
  /\ busy' = {n}
  /\ n \notin DOMAIN files /\ n \in DOMAIN files'
  /\ OnlyChanges(n)

(* A write by the one who created the file; a file keeps its length. *)
Write(n) ==
  /\ busy = {n} /\ busy' = {n}
  /\ n \in DOMAIN files /\ n \in DOMAIN files'
  /\ Len(files'[n]) = Len(files[n])
  /\ OnlyChanges(n)

Remove(n) ==
  /\ busy' = {n}
  /\ n \in DOMAIN files /\ n \notin DOMAIN files'
  /\ OnlyChanges(n)

Format ==
  /\ busy' = Names /\ damaged' = FALSE
  /\ DOMAIN files' = {}

Return ==
  /\ busy' = {}
  /\ UNCHANGED files

(* A stop in the middle of an operation: every file that the operation is  *)
(* not about is there as before.  If the disk is not damaged, nothing else *)
(* is there either; it may be damaged only if something was going on.      *)
Stop ==
  /\ \A n \in DOMAIN files \ busy : n \in DOMAIN files' /\ files'[n] = files[n]
  /\ damaged' \/ DOMAIN files' \subseteq DOMAIN files \cup busy
  /\ damaged' => busy # {}
  /\ busy' = {}

Next ==
  \/ /\ ~ damaged
     /\ damaged' = FALSE
     /\ \/ \E n \in Names : Create(n) \/ Write(n) \/ Remove(n)
        \/ Return
  \/ Format
  \/ ~ damaged /\ Stop

Spec == Init /\ [][Next]_fileMapVars
=============================================================================
