---------------------------- MODULE MCControlled ----------------------------
(***************************************************************************)
(* A Seedance request and a text request of one key whose owner has a user *)
(* account: a grant may arrive while the first holds everything, a client  *)
(* polls beside the reconciler, one step may have two receipts, and the    *)
(* router may restart.                                                     *)
(***************************************************************************)
EXTENDS ControlledBilling

CONSTANTS chat, seedance, helper, client, key, owner

MCParentOf == [c \in Children |-> seedance]
MCKeyOf == [r \in Requests |-> key]
MCOwnerOf == [k \in {key} |-> owner]
MCGranted == [a \in {key, owner} |-> IF a = key THEN 3 ELSE 5]
MCMaxConcurrency == [k \in {key} |-> 2]

Cost(actual, task) == [status |-> "final", actual |-> actual, task |-> task]
Free(task) == [status |-> "failed_no_charge", actual |-> 0, task |-> task]

\* A refused step, a video and two helpers or texts whose receipts can contradict each other.
MCReceiptsFor ==
  [s \in Steps |->
     IF s \in Videos THEN {Cost(2, TRUE), Free(FALSE)}
     ELSE IF s \in Chats THEN {Cost(4, FALSE), Free(FALSE)}
     ELSE {Cost(1, FALSE), Cost(3, FALSE)} ]

\* And videos whose generation failed, which may be said to have cost something first.
MCAllReceipts == [s \in Steps |-> MCReceiptsFor[s] \cup (IF s \in Videos THEN {Free(TRUE)} ELSE {})]
=============================================================================
