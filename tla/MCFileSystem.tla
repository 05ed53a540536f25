---------------------------- MODULE MCFileSystem ----------------------------
(***************************************************************************)
(* A disk of 11 sectors, 5 of them the system's, and a directory of four   *)
(* entries in two sectors: the third entry lies across their boundary.     *)
(* "a" and "b" fill the disk and the directory; "c" needs more room than   *)
(* either leaves, and as many sectors as a header has room for; "d" needs  *)
(* one more than that, which a disk without these files has.               *)
(***************************************************************************)
EXTENDS FileSystem

MCUnix ==
  [n \in {"a", "b", "c", "d"} |->
     IF n = "a" THEN <<1>>
     ELSE IF n = "b" THEN <<2>>
     ELSE IF n = "c" THEN <<3, 4, 5>> ELSE <<6, 7, 8, 9, 10>>]
=============================================================================
