----------------------------- MODULE BlkChannel -----------------------------
(***************************************************************************)
(* What a blkif ring promises to its two ends, without its indices, events *)
(* and notifications: requests reach the backend in the order they were    *)
(* put on the ring, each of them is answered once, answers are read in the *)
(* order they were given, and at most Capacity are outstanding.            *)
(***************************************************************************)
EXTENDS Naturals, Sequences, FiniteSets

CONSTANTS
  Ids,        \* identities of requests: the id field, echoed by the response
  Capacity    \* the most requests outstanding at once

VARIABLES
  requests,   \* put on the ring and not yet taken by the backend, in order
  taken,      \* taken by the backend and not yet answered
  responses   \* answered and not yet read by the frontend, in order

InUse == {requests[i] : i \in 1 .. Len(requests)} \cup taken
           \cup {responses[i] : i \in 1 .. Len(responses)}

Init == requests = << >> /\ taken = {} /\ responses = << >>

\* One SRB's requests are put on the ring together.
Send ==
  /\ \E n \in 1 .. Capacity - Cardinality(InUse) : \E new \in [1 .. n -> Ids \ InUse] :
       /\ \A i, j \in 1 .. n : new[i] = new[j] => i = j
       /\ requests' = requests \o new
  /\ UNCHANGED <<taken, responses>>

Take ==
  /\ requests # << >>
  /\ taken' = taken \cup {Head(requests)}
  /\ requests' = Tail(requests)
  /\ UNCHANGED responses

Answer(id) ==
  /\ id \in taken
  /\ taken' = taken \ {id}
  /\ responses' = Append(responses, id)
  /\ UNCHANGED requests

Read ==
  /\ responses # << >>
  /\ responses' = Tail(responses)
  /\ UNCHANGED <<requests, taken>>

Next == Send \/ Take \/ (\E id \in Ids : Answer(id)) \/ Read

Spec == Init /\ [][Next]_<<requests, taken, responses>>
=============================================================================
