---------------------------- MODULE NetworkLists ----------------------------
(***************************************************************************)
(* The network classes and the shaping entries of the server, as prlsrvctl *)
(* set changes them (PrlDisp::update_network_classes_config and            *)
(* update_network_shaping_list): a command fetches the whole list, changes *)
(* its copy and sends it back.  Several commands may run at once, and the  *)
(* dispatcher takes the list that comes last.                              *)
(***************************************************************************)
EXTENDS Naturals, Sequences, FiniteSets, Functions, Lists

CONSTANTS
  Command,   \* the prlsrvctl commands that run at once
  NetClass,  \* the classes
  Net        \* the networks, or the devices that are shaped

VARIABLES
  which,      \* the list: "class" or "shaping"
  server,     \* the list: the sequence of the networks of each class
  copy,       \* the list that a command fetched
  cmd,        \* what it was asked for
  fresh,      \* the list did not change since it was fetched
  want,       \* the pairs that the commands that succeeded have asked for
  stray,      \* the pairs that were added when they were to be deleted
  overwritten \* an update was lost

netvars == <<which, server, copy, cmd, fresh, want, stray, overwritten>>

Request == [class : NetClass, net : Net, del : BOOLEAN]
NoRequest == [class |-> "none"]

(* Types of the server's list and of what each command has fetched. *)
NetTypeOK ==
  /\ which \in {"class", "shaping"}
  /\ DOMAIN server \subseteq NetClass /\ \A c \in DOMAIN server : server[c] \in Seq(Net)
  /\ cmd \in [Command -> Request \cup {NoRequest}]
  /\ \A p \in Command : DOMAIN copy[p] \subseteq NetClass
  /\ fresh \in [Command -> BOOLEAN] /\ overwritten \in BOOLEAN
  /\ want \subseteq NetClass \X Net /\ stray \subseteq NetClass \X Net

NoList == [c \in {} |-> <<>>]

NetInit ==
  /\ which \in {"class", "shaping"}
  /\ server = IF which = "class" THEN NoList ELSE [c \in NetClass |-> <<>>]
  /\ copy = [p \in Command |-> NoList] /\ cmd = [p \in Command |-> NoRequest]
  /\ fresh = [p \in Command |-> FALSE]
  /\ want = {} /\ stray = {} /\ overwritten = FALSE

-----------------------------------------------------------------------------
Pairs(list) == UNION {{<<c, n>> : n \in Range(list[c])} : c \in DOMAIN list}
Without(nets, n) == DropFirst(nets, {n})
New(r) == IF r.del THEN <<>> ELSE <<r.net>>

(* The list with these networks of the class. *)
WithClass(list, class, nets) ==
  [c \in DOMAIN list \cup {class} |-> IF c = class THEN nets ELSE list[c]]

(* The changed list, or none if the change fails. *)

(* Mistakes: the network is not removed before it is added; a class that   *)
(* was found is created again.                                             *)
ClassKept(list, r) ==
  IF r.class \notin DOMAIN list THEN {WithClass(list, r.class, <<r.net>>)}
  ELSE LET nets == list[r.class] IN
       {WithClass(list, r.class, (IF r.del THEN Without(nets, r.net) ELSE nets) \o New(r))}
ClassCreated(list, r) == {WithClass(list, r.class, <<r.net>>)}

(* The network is removed, and then added.  The loop over the networks     *)
(* keeps the count from before the removal: after that of any network but  *)
(* the last it asks for one that is not there, and the change fails.  A    *)
(* class that is not found is created with the network, to delete it too.  *)
ClassChanged(list, r) ==
  IF r.class \notin DOMAIN list THEN {WithClass(list, r.class, <<r.net>>)}
  ELSE LET nets == list[r.class] IN
       IF \E i \in 1..Len(nets) - 1 : nets[i] = r.net THEN {}
       ELSE {WithClass(list, r.class, Without(nets, r.net) \o New(r))}

(* An entry is changed in place or removed; if it is not found it is       *)
(* created, to delete it too.                                              *)
ShapingChanged(list, r) ==
  LET nets == list[r.class] IN
  IF <<r.class, r.net>> \notin Pairs(list) THEN {WithClass(list, r.class, Append(nets, r.net))}
  ELSE IF r.del THEN {WithClass(list, r.class, Without(nets, r.net))}
  ELSE {list}

Changed(list, r) == IF which = "class" THEN ClassChanged(list, r) ELSE ShapingChanged(list, r)

-----------------------------------------------------------------------------
Fetch(p, r) ==
  /\ cmd[p] = NoRequest
  /\ cmd' = [cmd EXCEPT ![p] = r] /\ copy' = [copy EXCEPT ![p] = server]
  /\ fresh' = [fresh EXCEPT ![p] = TRUE]
  /\ UNCHANGED <<which, server, want, stray, overwritten>>

End(p) ==
  /\ cmd[p] # NoRequest
  /\ cmd' = [cmd EXCEPT ![p] = NoRequest] /\ copy' = [copy EXCEPT ![p] = NoList]

(* The deletion of what is not there. *)
Strays(p) ==
  /\ cmd[p].del
  /\ IF which = "class" THEN cmd[p].class \notin DOMAIN copy[p]
     ELSE <<cmd[p].class, cmd[p].net>> \notin Pairs(copy[p])

(* The list is changed and sent, and the job succeeds. *)
Send(p) ==
  LET pair == <<cmd[p].class, cmd[p].net>> IN
  /\ End(p)
  /\ server' \in Changed(copy[p], cmd[p])
  /\ fresh' = [q \in Command |-> FALSE]
  /\ overwritten' = (overwritten \/ ~fresh[p])
  /\ IF overwritten' THEN want' = {} /\ stray' = {}   \* and nothing is kept track of
     ELSE /\ want'  = IF cmd[p].del THEN want \ {pair} ELSE want \cup {pair}
          /\ stray' = IF Strays(p) THEN stray \cup {pair} ELSE stray \ {pair}
  /\ UNCHANGED which

(* The change or the job fails: an error is returned. *)
Refused(p) ==
  /\ End(p)
  /\ fresh' = [fresh EXCEPT ![p] = FALSE]
  /\ UNCHANGED <<which, server, want, stray, overwritten>>

NetNext == \E p \in Command : (\E r \in Request : Fetch(p, r)) \/ Send(p) \/ Refused(p)

-----------------------------------------------------------------------------
(* The list holds what the commands that reported success have asked for,  *)
(* and what their deletions have added, as long as no list was sent that   *)
(* another command had changed meanwhile.                                  *)
ListIsAsAsked == overwritten \/ Pairs(server) = want \cup stray

(* A network is in a class once. *)
NetworkOnce ==
  \A c \in DOMAIN server : Cardinality(Range(server[c])) = Len(server[c])
=============================================================================
