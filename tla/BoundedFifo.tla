---------------------------- MODULE BoundedFifo -----------------------------
(***************************************************************************)
(* What the store of saved networks promises (WifiCredentialStore.h):      *)
(* "Inserts or updates the entry for ssid, evicting the oldest slot if     *)
(* full", over a file that holds the store as it was or nothing.           *)
(***************************************************************************)
EXTENDS Naturals, Sequences

CONSTANTS Keys, Values, Capacity

VARIABLES
  queue,  \* entries, the oldest first; a key is in it at most once
  saved   \* what is read back after a restart

Init == queue = <<>> /\ saved = <<>>

Entry(k, v) == [ssid |-> k, password |-> v]

Update(k, v) ==
  /\ \E i \in DOMAIN queue :
       /\ queue[i].ssid = k
       /\ queue' = [queue EXCEPT ![i].password = v]
  /\ UNCHANGED saved

Insert(k, v) ==
  /\ \A i \in DOMAIN queue : queue[i].ssid # k
  /\ queue' = Append(IF Len(queue) = Capacity THEN Tail(queue) ELSE queue, Entry(k, v))
  /\ UNCHANGED saved

\* A save that succeeds, and one that fails after the file was truncated.
Save ==
  /\ saved' \in {queue, <<>>}
  /\ UNCHANGED queue

Restart ==
  /\ queue' \in {saved, <<>>}
  /\ UNCHANGED saved

Next ==
  \/ \E k \in Keys, v \in Values : Update(k, v) \/ Insert(k, v)
  \/ Save
  \/ Restart

Spec == Init /\ [][Next]_<<queue, saved>>

=============================================================================
