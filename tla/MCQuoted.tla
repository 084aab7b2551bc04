------------------------------ MODULE MCQuoted ------------------------------
(***************************************************************************)
(* A Seedance request and a text request of one key that can pay for both  *)
(* quotes and the helper's but not for every cost. One configuration has a *)
(* client that repeats a request and a contradicting receipt, the other an *)
(* administrator who arms a diagnostic and a restart of the router.        *)
(***************************************************************************)
EXTENDS QuotedBilling

CONSTANTS chat, seedance, helper, client, key

MCParentOf == [c \in Children |-> seedance]
MCKeyOf == [r \in Requests |-> key]
MCGranted == [k \in Keys |-> 4]
MCMaxConcurrency == [k \in Keys |-> 1]
MCQuoteOf == [s \in Steps |-> IF s \in Videos THEN 2 ELSE 1]

Cost(actual, task) == [status |-> "final", actual |-> actual, task |-> task]
Free(task) == [status |-> "failed_no_charge", actual |-> 0, task |-> task]

\* A text costs its quote or more; what was refused costs nothing.
MCReceiptsFor ==
  [s \in Steps |-> IF s \in Videos THEN {Cost(1, TRUE), Free(FALSE)}
                   ELSE IF s \in Chats THEN {Cost(1, FALSE), Cost(2, FALSE)} ELSE {Cost(1, FALSE)}]

\* Only the costly text, where contradictions are not looked at.
MCOneReceipt == [MCReceiptsFor EXCEPT ![chat] = {Cost(2, FALSE)}]
=============================================================================
