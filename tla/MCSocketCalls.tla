--------------------------- MODULE MCSocketCalls ----------------------------
(***************************************************************************)
(* One name, two files on the host, a table with two slots for files and   *)
(* one with two for sockets, descriptors on both sides of its end, and ids *)
(* that are none of them.                                                  *)
(***************************************************************************)
EXTENDS SocketCalls

(* No call reads what the one before it returned, or which one it was. *)
MCView == <<inode, content, fds, openfile, crashed, socketVars>>
=============================================================================
