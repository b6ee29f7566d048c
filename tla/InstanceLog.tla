------------------------------ MODULE InstanceLog ------------------------------
(***************************************************************************)
(* The instance list (`ilist') of a session and the two values kept beside *)
(* it: `ihole', the number of the first instance not yet learned, and      *)
(* `istart', a pointer to the instance from which the next contiguous      *)
(* block is learned.  A list sorted by instance number is a function from  *)
(* instance numbers to instances; a pointer into the list is the number of *)
(* the instance it points to.                                              *)
(***************************************************************************)
EXTENDS Integers

(* An instance that paxos_commit may learn: committed, request at hand. *)
Ready(ilist, i) ==
  /\ i \in DOMAIN ilist
  /\ ilist[i].committed
  /\ ilist[i].cached

(* The list with inst as its instance i: instance_insert, or an update. *)
Put(ilist, i, inst) ==
  [j \in DOMAIN ilist \union {i} |-> IF j = i THEN inst ELSE ilist[j]]

(* Mutant: istart stays where it is. *)
UpstartNever(istart, ihole, i) == istart

(* instance_insert_and_upstart: istart follows when the hole is created. *)
Upstart(istart, ihole, i) == IF i = ihole THEN i ELSE istart

(***************************************************************************)
(* Where the learning loop of paxos_commit stops: the first number from    *)
(* ihole on whose instance is missing, uncommitted or uncached.            *)
(***************************************************************************)
IsNextHole(ilist, ihole, h) ==
  /\ h >= ihole
  /\ ~Ready(ilist, h)
  /\ \A i \in ihole .. (h - 1) : Ready(ilist, i)

(***************************************************************************)
(* istart when the loop has stopped at h: the instance numbered h if there *)
(* is one, otherwise the instance learned in the previous iteration.       *)
(***************************************************************************)
NextIstart(ilist, h) == IF h \in DOMAIN ilist THEN h ELSE h - 1

(* ilist_truncate_prefix: drop the instances numbered below b. *)
Truncated(ilist, b) == [i \in {j \in DOMAIN ilist : j >= b} |-> ilist[i]]

=============================================================================
