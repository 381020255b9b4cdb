----------------------------- MODULE ConfigLists -----------------------------
(***************************************************************************)
(* The lists of the configuration that a command reads, changes and writes *)
(* back as a whole.  They have nothing to do with each other: a behaviour  *)
(* is about one of them.                                                   *)
(***************************************************************************)
EXTENDS BootList, NetworkLists

VARIABLE about   \* "boot" or "net"

vars == <<about, bootvars, netvars>>

(* Types of both lists. *)
ListsTypeOK == BootTypeOK /\ NetTypeOK

NoBootList == devices = {} /\ backups = {} /\ boot = <<>> /\ asked = <<>> /\ later = {} /\ twice = {}

Init ==
  \/ about = "boot" /\ BootInit /\ NetInit /\ which = "class"
  \/ about = "net" /\ NoBootList /\ NetInit

Next ==
  /\ UNCHANGED about
  /\ \/ about = "boot" /\ BootNext /\ UNCHANGED netvars
     \/ about = "net" /\ NetNext /\ UNCHANGED bootvars

Spec == Init /\ [][Next]_vars
=============================================================================
