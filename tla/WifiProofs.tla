----------------------------- MODULE WifiProofs -----------------------------
(***************************************************************************)
(* What is stored is what connected, and the store is a bounded first-in   *)
(* first-out queue, for every set of networks and passwords, capacity of   *)
(* the store and deadline.                                                 *)
(***************************************************************************)
EXTENDS Wifi, SequenceTheorems, TLAPS

\* From the call of connect() to the transfer screen, the driver's attempt is the one
\* the list waits for.
Current ==
  /\ pc = "elsewhere" => state = "Scanning"
  /\ pc \in {"list", "truncate", "write", "open"} /\ state = "Connecting" =>
       attempt = [ssid |-> pendingSsid, password |-> enteredPassword]
  /\ pc \in {"keyboard", "truncate", "write", "open"} => pendingSsid \in Ssids
  /\ pc = "list" /\ state = "Connecting" => pendingSsid \in Ssids

\* The two parts of TypeOK.
Screens ==
  /\ pc \in {"elsewhere", "list", "keyboard", "truncate", "write", "open", "transfer"}
  /\ state \in {"Scanning", "NetworkList", "Connecting", "Failed"}
  /\ pendingSsid \in Ssids \cup {NoSsid}
  /\ enteredPassword \in Passwords \cup {Empty}
  /\ attempt \in Networks \cup {NoEntry}
  /\ up \in BOOLEAN
Stored ==
  /\ elapsed \in 0..(Timeout + 1)
  /\ slots \in [Indices -> Credentials \cup {NoEntry}]
  /\ nextEvict \in Indices
  /\ disk \in Stores \cup {NoFile}

IInv == Screens /\ Stored /\ Current

----------------------------------------------------------------------------

LEMMA Parts == TypeOK <=> Screens /\ Stored
  BY DEF TypeOK, Screens, Stored

\* Adding to a store leaves a store.
LEMMA AddTyped ==
  ASSUME Stored, NEW ssid \in Ssids, NEW password \in Passwords, AddOrUpdate(ssid, password)
  PROVE  /\ slots' \in [Indices -> Credentials \cup {NoEntry}]
         /\ nextEvict' \in Indices
         /\ \A i \in Indices : slots'[i] # slots[i] =>
              slots'[i] = [ssid |-> ssid, password |-> password]
<1> DEFINE entry == [ssid |-> ssid, password |-> password]
<1>1. entry \in Credentials
  BY DEF Credentials
<1> HIDE DEF entry
<1>2. PICK i \in Indices : slots' = [slots EXCEPT ![i] = entry]
  BY DEF AddOrUpdate, Of, Evict, Stored, entry
<1>3. nextEvict' \in Indices
  <2>1. nextEvict' = nextEvict \/ nextEvict' = (nextEvict + 1) % MaxNetworks
    BY DEF AddOrUpdate, Evict
  <2>2. (nextEvict + 1) % MaxNetworks \in Indices
    BY WifiAssumption DEF Stored, Indices
  <2> QED
    BY <2>1, <2>2 DEF Stored
<1> QED
  BY <1>1, <1>2, <1>3 DEF Stored, entry

\* What is loaded is a store.
LEMMA LoadTyped ==
  ASSUME Stored, Load
  PROVE  slots' \in [Indices -> Credentials \cup {NoEntry}] /\ nextEvict' \in Indices
<1>1. CASE slots' = NoSlots /\ nextEvict' = 0
  BY <1>1, WifiAssumption DEF NoSlots, Indices
<1>2. CASE disk # NoFile /\ slots' = disk[1] /\ nextEvict' = disk[2]
  BY <1>2 DEF Stored, Stores
<1> QED
  BY <1>1, <1>2 DEF Load

LEMMA InitInv == Init => IInv
<1> SUFFICES ASSUME Init PROVE IInv
  OBVIOUS
<1>1. Screens
  BY DEF Init, Screens
<1>2. Stored
  BY WifiAssumption DEF Init, Stored, NoSlots, Indices
<1>3. Current
  BY DEF Init, Current
<1> QED
  BY <1>1, <1>2, <1>3 DEF IInv

LEMMA StepInv == IInv /\ [Next]_vars => IInv'
<1> SUFFICES ASSUME IInv, [Next]_vars PROVE IInv'
  OBVIOUS
<1>0. Screens /\ Stored /\ Current
  BY DEF IInv
<1> USE WifiAssumption DEF IInv
<1>1. CASE LinkUp
  <2>1. Screens'
    BY <1>0, <1>1 DEF LinkUp, Screens, screen
  <2>2. Stored'
    BY <1>0, <1>1 DEF LinkUp, Stored, store
  <2>3. Current'
    BY <1>0, <1>1 DEF LinkUp, Current, screen
  <2> QED
    BY <2>1, <2>2, <2>3
<1>2. CASE LinkDown
  <2>1. Screens'
    BY <1>0, <1>2 DEF LinkDown, Screens, screen
  <2>2. Stored'
    BY <1>0, <1>2 DEF LinkDown, Stored, store
  <2>3. Current'
    BY <1>0, <1>2 DEF LinkDown, Current, screen
  <2> QED
    BY <2>1, <2>2, <2>3
<1>3. CASE Tick
  <2>1. Screens'
    BY <1>0, <1>3 DEF Tick, Screens, screen
  <2>2. Stored'
    BY <1>0, <1>3 DEF Tick, Stored, store
  <2>3. Current'
    BY <1>0, <1>3 DEF Tick, Current, screen
  <2> QED
    BY <2>1, <2>2, <2>3
<1>4. CASE Enter
  <2>1. Screens'
    BY <1>0, <1>4 DEF Enter, Screens, screen, station
  <2>2. Stored'
    BY <1>0, <1>4 DEF Enter, Stored, store, station
  <2>3. Current'
    BY <1>0, <1>4 DEF Enter, Current, screen, station
  <2> QED
    BY <2>1, <2>2, <2>3
<1>5. CASE Restart
  <2>1. Screens'
    BY <1>0, <1>5 DEF Restart, Abort, Screens
  <2>2. Stored'
    BY <1>0, <1>5, LoadTyped DEF Restart, Stored
  <2>3. Current'
    BY <1>5 DEF Restart, Current
  <2> QED
    BY <2>1, <2>2, <2>3
<1>6. CASE ScanComplete
  <2>1. Screens'
    BY <1>0, <1>6 DEF ScanComplete, Screens, station
  <2>2. Stored'
    BY <1>0, <1>6 DEF ScanComplete, Stored, store, station
  <2>3. Current'
    BY <1>0, <1>6 DEF ScanComplete, Current
  <2> QED
    BY <2>1, <2>2, <2>3
<1>7. ASSUME NEW ssid \in Ssids, SelectOpen(ssid) PROVE IInv'
  <2>1. Screens'
    BY <1>0, <1>7 DEF SelectOpen, Select, StartConnecting, Connect, Screens, Networks
  <2>2. Stored'
    BY <1>0, <1>7 DEF SelectOpen, Select, StartConnecting, Connect, Stored, store
  <2>3. Current'
    BY <1>0, <1>7 DEF SelectOpen, Select, StartConnecting, Connect, Current
  <2> QED
    BY <2>1, <2>2, <2>3
<1>8. ASSUME NEW ssid \in Ssids, SelectKnown(ssid) PROVE IInv'
  <2>0. PICK i \in Of(ssid) :
          /\ enteredPassword' = slots[i].password
          /\ StartConnecting(slots[i].password)
    BY <1>8 DEF SelectKnown
  <2>1. slots[i].password \in Passwords
    BY <1>0 DEF Of, Used, Stored, Credentials
  <2>2. Screens'
    BY <1>0, <1>8, <2>0, <2>1 DEF SelectKnown, Select, StartConnecting, Connect, Screens, Networks
  <2>3. Stored'
    BY <1>0, <1>8, <2>0 DEF SelectKnown, Select, StartConnecting, Connect, Stored, store
  <2>4. Current'
    BY <1>0, <1>8, <2>0 DEF SelectKnown, Select, StartConnecting, Connect, Current
  <2> QED
    BY <2>2, <2>3, <2>4
<1>9. ASSUME NEW ssid \in Ssids, SelectNew(ssid) PROVE IInv'
  <2>1. Screens'
    BY <1>0, <1>9 DEF SelectNew, Select, Screens, station
  <2>2. Stored'
    BY <1>0, <1>9 DEF SelectNew, Select, Stored, store, station
  <2>3. Current'
    BY <1>0, <1>9 DEF SelectNew, Select, Current
  <2> QED
    BY <2>1, <2>2, <2>3
<1>10. ASSUME NEW password \in Passwords \cup {Empty}, OnPasswordEntered(password) PROVE IInv'
  <2>0. pendingSsid \in Ssids
    BY <1>0, <1>10 DEF OnPasswordEntered, Current
  <2>1. Screens'
    BY <1>0, <1>10, <2>0 DEF OnPasswordEntered, StartConnecting, Connect, Screens, Networks
  <2>2. Stored'
    BY <1>0, <1>10 DEF OnPasswordEntered, StartConnecting, Connect, Stored, store
  <2>3. Current'
    BY <1>0, <1>10, <2>0 DEF OnPasswordEntered, StartConnecting, Connect, Current
  <2> QED
    BY <2>1, <2>2, <2>3
<1>11. CASE OnPasswordCancelled
  <2>1. Screens'
    BY <1>0, <1>11 DEF OnPasswordCancelled, Screens, station
  <2>2. Stored'
    BY <1>0, <1>11 DEF OnPasswordCancelled, Stored, store, station
  <2>3. Current'
    BY <1>0, <1>11 DEF OnPasswordCancelled, Current
  <2> QED
    BY <2>1, <2>2, <2>3
<1>12. CASE GoToFileTransfer
  <2>1. Screens'
    BY <1>0, <1>12 DEF GoToFileTransfer, Screens, screen, station
  <2>2. Stored'
    <3>1. CASE enteredPassword = Empty
      BY <1>0, <1>12, <3>1 DEF GoToFileTransfer, Stored, store, station
    <3>2. CASE enteredPassword # Empty
      <4>1. pendingSsid \in Ssids /\ enteredPassword \in Passwords
        BY <1>0, <1>12, <3>2 DEF GoToFileTransfer, Screens, Current
      <4>2. AddOrUpdate(pendingSsid, enteredPassword)
        BY <1>12, <3>2 DEF GoToFileTransfer
      <4> QED
        BY <1>0, <1>12, <4>1, <4>2, AddTyped DEF GoToFileTransfer, Stored, station
    <3> QED
      BY <3>1, <3>2
  <2>3. Current'
    BY <1>0, <1>12 DEF GoToFileTransfer, Current, screen, station
  <2> QED
    BY <2>1, <2>2, <2>3
<1>13. CASE Truncate
  <2>1. Screens'
    BY <1>0, <1>13 DEF Truncate, Screens, screen, station
  <2>2. Stored'
    BY <1>0, <1>13 DEF Truncate, Stored, store, station
  <2>3. Current'
    BY <1>0, <1>13 DEF Truncate, Current, screen, station
  <2> QED
    BY <2>1, <2>2, <2>3
<1>14. CASE Write
  <2>1. Screens'
    BY <1>0, <1>14 DEF Write, Screens, screen, station
  <2>2. Stored'
    BY <1>0, <1>14 DEF Write, Stored, Stores, store, station
  <2>3. Current'
    BY <1>0, <1>14 DEF Write, Current, screen, station
  <2> QED
    BY <2>1, <2>2, <2>3
<1>15. CASE OpenTransfer
  <2>1. Screens'
    BY <1>0, <1>15 DEF OpenTransfer, Screens, screen, station
  <2>2. Stored'
    BY <1>0, <1>15 DEF OpenTransfer, Stored, store, station
  <2>3. Current'
    BY <1>0, <1>15 DEF OpenTransfer, Current, screen, station
  <2> QED
    BY <2>1, <2>2, <2>3
<1>16. CASE PollFails
  <2>1. Screens'
    BY <1>0, <1>16 DEF PollFails, Abort, Screens
  <2>2. Stored'
    BY <1>0, <1>16 DEF PollFails, Stored, store
  <2>3. Current'
    BY <1>0, <1>16 DEF PollFails, Waiting, Current
  <2> QED
    BY <2>1, <2>2, <2>3
<1>17. CASE Acknowledge
  <2>1. Screens'
    BY <1>0, <1>17 DEF Acknowledge, Screens, station
  <2>2. Stored'
    BY <1>0, <1>17 DEF Acknowledge, Stored, store, station
  <2>3. Current'
    BY <1>0, <1>17 DEF Acknowledge, Current
  <2> QED
    BY <2>1, <2>2, <2>3
<1>18. CASE UNCHANGED vars
  <2>1. Screens'
    BY <1>0, <1>18 DEF vars, Screens, screen, station
  <2>2. Stored'
    BY <1>0, <1>18 DEF vars, Stored, store, station
  <2>3. Current'
    BY <1>0, <1>18 DEF vars, Current, screen, station
  <2> QED
    BY <2>1, <2>2, <2>3
<1> QED
  BY <1>1, <1>2, <1>3, <1>4, <1>5, <1>6, <1>7, <1>8, <1>9, <1>10, <1>11, <1>12, <1>13,
     <1>14, <1>15, <1>16, <1>17, <1>18
  DEF Next, Back, PowerOff, Poll, PollAgain

THEOREM Invariance == Spec => []IInv
<1> QED
  BY InitInv, StepInv, PTL DEF Spec

\* Screens, station, store and file keep their types.
THEOREM TypeCorrect == Spec => []TypeOK
<1>1. IInv => TypeOK
  BY Parts DEF IInv
<1> QED
  BY <1>1, Invariance, PTL

\* Only what has just connected is put into the store.
THEOREM OnlyConnectedSaved == Spec => SavedIsConnected
<1> DEFINE Proven == \A i \in Indices :
                       slots'[i] # slots[i] /\ pc' # "elsewhere" => up /\ slots'[i] = attempt
<1>1. IInv /\ [Next]_vars => [Proven]_vars
  <2> SUFFICES ASSUME IInv, Next, pc' # "elsewhere", NEW i \in Indices, slots'[i] # slots[i]
               PROVE  up /\ slots'[i] = attempt
    OBVIOUS
  <2>1. GoToFileTransfer /\ enteredPassword # Empty
    BY DEF Next, LinkUp, LinkDown, Tick, Enter, Back, PowerOff, Restart, ScanComplete, SelectOpen,
           SelectKnown, SelectNew, Select, OnPasswordEntered, OnPasswordCancelled, GoToFileTransfer,
           Truncate, Write, OpenTransfer, Poll, PollAgain, PollFails, Acknowledge, store, vars
  <2>2. pendingSsid \in Ssids /\ enteredPassword \in Passwords
    BY <2>1 DEF IInv, Screens, Current, GoToFileTransfer
  <2>3. slots'[i] = [ssid |-> pendingSsid, password |-> enteredPassword]
    BY <2>1, <2>2, AddTyped DEF IInv, GoToFileTransfer
  <2>4. up /\ attempt = [ssid |-> pendingSsid, password |-> enteredPassword]
    BY <2>1 DEF IInv, Current, GoToFileTransfer
  <2> QED
    BY <2>3, <2>4
<1> QED
  BY <1>1, Invariance, PTL DEF Spec, SavedIsConnected

----------------------------------------------------------------------------
(* The store is a bounded first-in first-out queue                         *)

\* The used slots are the first n.
Filled(s, n) == \A i \in Indices : s[i] # NoEntry <=> i < n

Full(s) == \A i \in Indices : s[i] # NoEntry

\* No network is in two slots.
Distinct(s) == \A i, j \in Indices : s[i] # NoEntry /\ s[j] # NoEntry /\ s[i].ssid = s[j].ssid => i = j

\* A store as addOrUpdate() leaves it: the turn of eviction begins when there is no free slot.
Kept(s, next) ==
  /\ s \in [Indices -> Credentials \cup {NoEntry}] /\ next \in Indices
  /\ Distinct(s)
  /\ Full(s) \/ (next = 0 /\ \E n \in Indices : Filled(s, n))

StoreInv == Kept(slots, nextEvict) /\ (disk # NoFile => Kept(disk[1], disk[2]))

\* The slot of the k-th oldest entry of a full store.
Slot(next, k) == IF next + k - 1 < MaxNetworks THEN next + k - 1 ELSE next + k - 1 - MaxNetworks

LEMMA SlotIsTurn ==
  ASSUME NEW next \in Indices, NEW k \in 1..MaxNetworks
  PROVE  Slot(next, k) \in Indices /\ (next + k - 1) % MaxNetworks = Slot(next, k)
<1>. DEFINE a == next + k - 1
            q == a \div MaxNetworks
<1>1. MaxNetworks \in Nat \ {0} /\ a \in 0..2 * MaxNetworks - 1
  BY WifiAssumption DEF Indices
<1>2. CASE a < MaxNetworks
  <2>1. a % MaxNetworks = a
    BY <1>1, <1>2
  <2>. QED
    BY <1>1, <1>2, <2>1 DEF Slot, Indices
<1>3. CASE a >= MaxNetworks
  <2>1. a - MaxNetworks \in 0..MaxNetworks - 1
    BY <1>1, <1>3
  <2>2. a % MaxNetworks = a - MaxNetworks
    BY <1>1, <1>3, <2>1
  <2>. QED
    BY <1>1, <1>3, <2>1, <2>2 DEF Slot, Indices
<1>. QED
  BY <1>1, <1>2, <1>3

LEMMA OrderedFilled ==
  ASSUME NEW s, NEW next, NEW n \in Indices, Filled(s, n)
  PROVE  Ordered(s, next) = [k \in 1..n |-> s[k - 1]]
<1>1. s[n] = NoEntry /\ \A j \in Indices : j < n => s[j] # NoEntry
  BY DEF Filled, Indices
<1>2. \A m \in Indices : s[m] = NoEntry /\ (\A j \in Indices : j < m => s[j] # NoEntry) => m = n
  BY <1>1, WifiAssumption DEF Filled, Indices
<1>3. (CHOOSE i \in Indices : s[i] = NoEntry /\ \A j \in Indices : j < i => s[j] # NoEntry) = n
  BY <1>1, <1>2
<1>. QED
  BY <1>1, <1>3 DEF Ordered

LEMMA OrderedFull ==
  ASSUME NEW s, NEW next \in Indices, Full(s)
  PROVE  Ordered(s, next) = [k \in 1..MaxNetworks |-> s[Slot(next, k)]]
<1>1. Ordered(s, next) = [k \in 1..MaxNetworks |-> s[(next + k - 1) % MaxNetworks]]
  BY DEF Ordered, Full
<1>2. \A k \in 1..MaxNetworks : (next + k - 1) % MaxNetworks = Slot(next, k)
  BY SlotIsTurn
<1>. QED
  BY <1>1, <1>2

\* The k-th of n entries, the oldest first, is in slot at[k], in any store with the same slots free.
Arranged(s, next, n, at) ==
  /\ Ordered(s, next) = [k \in 1..n |-> s[at[k]]]
  /\ \A k \in 1..n : s[at[k]] # NoEntry
  /\ \A i \in Indices : s[i] # NoEntry => \E k \in 1..n : at[k] = i
  /\ \A k, m \in 1..n : at[k] = at[m] => k = m
  /\ \A t : (\A i \in Indices : t[i] = NoEntry <=> s[i] = NoEntry)
              => Ordered(t, next) = [k \in 1..n |-> t[at[k]]]

\* Every used slot has its place in the order, and every place its slot.
LEMMA Places ==
  ASSUME NEW s, NEW next, Kept(s, next)
  PROVE  \E n \in 0..MaxNetworks : \E at \in [1..n -> Indices] : Arranged(s, next, n, at)
<1>0. MaxNetworks \in Nat \ {0} /\ next \in Indices
  BY WifiAssumption DEF Kept
<1>1. CASE Full(s)
  <2>. DEFINE at == [k \in 1..MaxNetworks |-> Slot(next, k)]
  <2>1. at \in [1..MaxNetworks -> Indices]
    BY <1>0, SlotIsTurn
  <2>2. \A i \in Indices : \E k \in 1..MaxNetworks : at[k] = i
    <3>. SUFFICES ASSUME NEW i \in Indices PROVE \E k \in 1..MaxNetworks : Slot(next, k) = i
      OBVIOUS
    <3>. DEFINE j == IF i >= next THEN i - next + 1 ELSE i - next + 1 + MaxNetworks
    <3>1. j \in 1..MaxNetworks /\ Slot(next, j) = i
      BY <1>0 DEF Slot, Indices
    <3>. QED
      BY <3>1
  <2>3. \A k, m \in 1..MaxNetworks : at[k] = at[m] => k = m
    BY <1>0 DEF Slot, Indices
  <2>4. \A t : (\A i \in Indices : t[i] = NoEntry <=> s[i] = NoEntry)
            => Ordered(t, next) = [k \in 1..MaxNetworks |-> t[at[k]]]
    <3>. SUFFICES ASSUME NEW t, \A i \in Indices : t[i] = NoEntry <=> s[i] = NoEntry
                  PROVE  Ordered(t, next) = [k \in 1..MaxNetworks |-> t[at[k]]]
      OBVIOUS
    <3>1. Full(t)
      BY <1>1 DEF Full
    <3>. QED
      BY <1>0, <3>1, OrderedFull
  <2>5. \A k \in 1..MaxNetworks : s[at[k]] # NoEntry
    BY <1>1, <2>1 DEF Full
  <2>6. MaxNetworks \in 0..MaxNetworks
    BY <1>0
  <2>7. Ordered(s, next) = [k \in 1..MaxNetworks |-> s[at[k]]]
    BY <1>0, <1>1, OrderedFull
  <2>. HIDE DEF at
  <2>. QED
    BY <2>1, <2>2, <2>3, <2>4, <2>5, <2>6, <2>7 DEF Arranged
<1>2. CASE ~Full(s)
  <2>1. PICK n \in Indices : Filled(s, n)
    BY <1>2 DEF Kept
  <2>. DEFINE at == [k \in 1..n |-> k - 1]
  <2>2. n \in 0..MaxNetworks /\ at \in [1..n -> Indices]
    BY <1>0 DEF Indices
  <2>3. \A k \in 1..n : s[at[k]] # NoEntry
    BY <1>0, <2>1 DEF Filled, Indices
  <2>4. \A i \in Indices : s[i] # NoEntry => \E k \in 1..n : at[k] = i
    <3>. SUFFICES ASSUME NEW i \in Indices, s[i] # NoEntry PROVE \E k \in 1..n : k - 1 = i
      OBVIOUS
    <3>1. i + 1 \in 1..n /\ (i + 1) - 1 = i
      BY <1>0, <2>1 DEF Filled, Indices
    <3>. QED
      BY <3>1
  <2>5. \A k, m \in 1..n : at[k] = at[m] => k = m
    OBVIOUS
  <2>6. \A t : (\A i \in Indices : t[i] = NoEntry <=> s[i] = NoEntry)
            => Ordered(t, next) = [k \in 1..n |-> t[at[k]]]
    <3>. SUFFICES ASSUME NEW t, \A i \in Indices : t[i] = NoEntry <=> s[i] = NoEntry
                  PROVE  Ordered(t, next) = [k \in 1..n |-> t[at[k]]]
      OBVIOUS
    <3>1. Filled(t, n)
      BY <2>1 DEF Filled
    <3>. QED
      BY <3>1, OrderedFilled
  <2>7. Ordered(s, next) = [k \in 1..n |-> s[at[k]]]
    BY <2>1, OrderedFilled
  <2>. HIDE DEF at
  <2>. QED
    BY <2>2, <2>3, <2>4, <2>5, <2>6, <2>7 DEF Arranged
<1>. QED
  BY <1>1, <1>2

\* What is put into a slot is not the sign of a free one.
LEMMA EntryTyped ==
  ASSUME NEW ssid \in Ssids, NEW password \in Passwords
  PROVE  Fifo!Entry(ssid, password) \in Credentials /\ Fifo!Entry(ssid, password) # NoEntry
BY NoEntryAssumption DEF Credentials, Networks, Fifo!Entry

\* Updating a network's slot updates its place in the queue.
LEMMA UpdateMaps ==
  ASSUME NEW s, NEW next, Kept(s, next), NEW ssid \in Ssids, NEW password \in Passwords,
         NEW i \in Indices, s[i] # NoEntry, s[i].ssid = ssid,
         NEW t \in [Indices -> Credentials \cup {NoEntry}],
         \A j \in Indices : t[j] = IF j = i THEN Fifo!Entry(ssid, password) ELSE s[j]
  PROVE  /\ Kept(t, next)
         /\ \E k \in DOMAIN Ordered(s, next) :
              /\ Ordered(s, next)[k].ssid = ssid
              /\ Ordered(t, next) = [Ordered(s, next) EXCEPT ![k].password = password]
<1>. DEFINE entry == Fifo!Entry(ssid, password)
<1>1. entry \in Credentials /\ entry # NoEntry /\ entry.ssid = ssid
  BY EntryTyped DEF Fifo!Entry
<1>2. entry = [s[i] EXCEPT !.password = password]
  <2>1. s[i] \in Credentials
    BY DEF Kept
  <2>. QED
    BY <2>1 DEF Credentials, Fifo!Entry
<1>. HIDE DEF entry
<1>3. \A j \in Indices : t[j] = IF j = i THEN entry ELSE s[j]
  BY DEF entry
<1>4. s \in [Indices -> Credentials \cup {NoEntry}] /\ next \in Indices /\ Distinct(s)
  BY DEF Kept
<1>5. \A j \in Indices : t[j] = NoEntry <=> s[j] = NoEntry
  BY <1>1, <1>3, <1>4
<1>6. Kept(t, next)
  <2>1. t \in [Indices -> Credentials \cup {NoEntry}]
    BY <1>1, <1>3, <1>4
  <2>2. Distinct(t)
    BY <1>1, <1>3, <1>4 DEF Distinct
  <2>. QED
    BY <1>4, <1>5, <2>1, <2>2 DEF Kept, Full, Filled
<1>7. PICK n \in 0..MaxNetworks : \E at \in [1..n -> Indices] : Arranged(s, next, n, at)
  BY Places
<1>8. PICK at \in [1..n -> Indices] : Arranged(s, next, n, at)
  BY <1>7
<1>9. PICK k \in 1..n : at[k] = i
  BY <1>8 DEF Arranged
<1>10. Ordered(t, next) = [m \in 1..n |-> t[at[m]]]
  <2>1. \A u : (\A j \in Indices : u[j] = NoEntry <=> s[j] = NoEntry) => Ordered(u, next) = [m \in 1..n |-> u[at[m]]]
    BY <1>8 DEF Arranged
  <2>. QED
    BY <1>5, <2>1, Zenon
<1>11. \A m \in 1..n : t[at[m]] = IF m = k THEN entry ELSE s[at[m]]
  BY <1>3, <1>4, <1>8, <1>9 DEF Arranged
<1>12. [Ordered(s, next) EXCEPT ![k].password = password] = [m \in 1..n |-> IF m = k THEN entry ELSE s[at[m]]]
  BY <1>2, <1>8, <1>9 DEF Arranged
<1>. QED
  <2>1. k \in DOMAIN Ordered(s, next) /\ Ordered(s, next)[k].ssid = ssid
    BY <1>8, <1>9 DEF Arranged
  <2>2. Ordered(t, next) = [Ordered(s, next) EXCEPT ![k].password = password]
    BY <1>10, <1>11, <1>12
  <2>. QED
    BY <1>6, <2>1, <2>2

\* A network the queue has not is appended to it.
LEMMA FillMaps ==
  ASSUME NEW s, NEW next, Kept(s, next), NEW ssid \in Ssids, NEW password \in Passwords,
         NEW i \in Indices, s[i] = NoEntry, \A j \in Indices : j < i => s[j] # NoEntry,
         \A j \in Indices : s[j] # NoEntry => s[j].ssid # ssid,
         NEW t \in [Indices -> Credentials \cup {NoEntry}],
         \A j \in Indices : t[j] = IF j = i THEN Fifo!Entry(ssid, password) ELSE s[j]
  PROVE  /\ Kept(t, next)
         /\ \A k \in DOMAIN Ordered(s, next) : Ordered(s, next)[k].ssid # ssid
         /\ Len(Ordered(s, next)) # MaxNetworks
         /\ Ordered(t, next) = Append(Ordered(s, next), Fifo!Entry(ssid, password))
<1>. DEFINE entry == Fifo!Entry(ssid, password)
<1>0. MaxNetworks \in Nat \ {0} /\ i \in Nat /\ i < MaxNetworks
  BY WifiAssumption DEF Indices
<1>1. entry \in Credentials /\ entry # NoEntry /\ entry.ssid = ssid
  BY EntryTyped DEF Fifo!Entry
<1>. HIDE DEF entry
<1>2. \A j \in Indices : t[j] = IF j = i THEN entry ELSE s[j]
  BY DEF entry
<1>3. s \in [Indices -> Credentials \cup {NoEntry}] /\ Distinct(s)
  BY DEF Kept
<1>4. next = 0 /\ Filled(s, i)
  <2>1. ~Full(s)
    BY DEF Full
  <2>2. PICK n \in Indices : Filled(s, n)
    BY <2>1 DEF Kept
  <2>3. n = i
    BY <1>0, <2>2 DEF Filled, Indices
  <2>. QED
    BY <2>1, <2>2, <2>3 DEF Kept
<1>5. Ordered(s, next) = [k \in 1..i |-> s[k - 1]]
  BY <1>4, OrderedFilled
<1>a. PICK m \in Nat : m = i + 1
  BY <1>0
<1>6. \A j \in Indices : t[j] # NoEntry <=> j < m
  BY <1>0, <1>a, <1>1, <1>2, <1>3, <1>4 DEF Filled, Indices
<1>7. Kept(t, next)
  <2>1. t \in [Indices -> Credentials \cup {NoEntry}]
    BY <1>1, <1>2, <1>3
  <2>2. Distinct(t)
    BY <1>1, <1>2, <1>3 DEF Distinct
  <2>3. Full(t) \/ \E n \in Indices : Filled(t, n)
    <3>1. CASE m < MaxNetworks
      BY <1>0, <1>a, <1>6, <3>1 DEF Filled, Indices
    <3>2. CASE m >= MaxNetworks
      BY <1>0, <1>a, <1>6, <3>2 DEF Full, Indices
    <3>. QED
      BY <1>0, <1>a, <3>1, <3>2
  <2>. QED
    BY <1>4, <2>1, <2>2, <2>3 DEF Kept
<1>8. Ordered(t, next) = [k \in 1..m |-> t[k - 1]]
  <2>1. CASE m < MaxNetworks
    <3>1. m \in Indices /\ Filled(t, m)
      BY <1>0, <1>a, <1>6, <2>1 DEF Filled, Indices
    <3>. QED
      BY <3>1, OrderedFilled
  <2>2. CASE m >= MaxNetworks
    <3>1. Full(t) /\ m = MaxNetworks /\ 0 \in Indices
      BY <1>0, <1>a, <1>6, <2>2 DEF Full, Indices
    <3>2. \A k \in 1..MaxNetworks : Slot(0, k) = k - 1
      BY <1>0 DEF Slot
    <3>. QED
      BY <1>4, <3>1, <3>2, OrderedFull
  <2>. QED
    BY <1>0, <1>a, <2>1, <2>2
<1>9. \A k \in 1..m : t[k - 1] = IF k \in 1..i THEN s[k - 1] ELSE entry
  BY <1>0, <1>a, <1>2, <1>3 DEF Indices
<1>10. Len([k \in 1..i |-> s[k - 1]]) = i
  BY <1>0
<1>11. Append([k \in 1..i |-> s[k - 1]], entry) = [k \in 1..m |-> IF k \in 1..i THEN s[k - 1] ELSE entry]
  BY <1>0, <1>a, <1>10
<1>12. Ordered(t, next) = Append(Ordered(s, next), entry)
  BY <1>5, <1>8, <1>9, <1>11
<1>13. \A k \in 1..i : s[k - 1] # NoEntry /\ k - 1 \in Indices
  BY <1>0, <1>4 DEF Filled, Indices
<1>. QED
  BY <1>0, <1>5, <1>7, <1>10, <1>12, <1>13 DEF entry

\* With every slot taken the oldest goes.
LEMMA EvictMaps ==
  ASSUME NEW s, NEW next, Kept(s, next), NEW ssid \in Ssids, NEW password \in Passwords,
         Full(s), \A j \in Indices : s[j].ssid # ssid,
         NEW t \in [Indices -> Credentials \cup {NoEntry}],
         \A j \in Indices : t[j] = IF j = next THEN Fifo!Entry(ssid, password) ELSE s[j],
         NEW turn \in Indices, next + 1 < MaxNetworks => turn = next + 1, next + 1 = MaxNetworks => turn = 0
  PROVE  /\ Kept(t, turn)
         /\ \A k \in DOMAIN Ordered(s, next) : Ordered(s, next)[k].ssid # ssid
         /\ Len(Ordered(s, next)) = MaxNetworks
         /\ Ordered(t, turn) = Append(Tail(Ordered(s, next)), Fifo!Entry(ssid, password))
<1>. DEFINE entry == Fifo!Entry(ssid, password)
            q == [k \in 1..MaxNetworks |-> s[Slot(next, k)]]
<1>0. MaxNetworks \in Nat \ {0} /\ next \in Indices
  BY WifiAssumption DEF Kept
<1>1. entry \in Credentials /\ entry # NoEntry /\ entry.ssid = ssid
  BY EntryTyped DEF Fifo!Entry
<1>. HIDE DEF entry
<1>2. \A j \in Indices : t[j] = IF j = next THEN entry ELSE s[j]
  BY DEF entry
<1>3. s \in [Indices -> Credentials \cup {NoEntry}] /\ Distinct(s)
  BY DEF Kept
<1>4. next \in 0..MaxNetworks - 1 /\ turn \in 0..MaxNetworks - 1
  BY <1>0 DEF Indices
<1>5. (next + 1 < MaxNetworks /\ turn = next + 1) \/ (next + 1 = MaxNetworks /\ turn = 0)
  BY <1>0, <1>4
<1>6. Full(t)
  BY <1>0, <1>1, <1>2, <1>3 DEF Full
<1>7. Kept(t, turn)
  <2>1. t \in [Indices -> Credentials \cup {NoEntry}]
    BY <1>0, <1>1, <1>2, <1>3
  <2>2. Distinct(t)
    BY <1>0, <1>1, <1>2, <1>3 DEF Distinct
  <2>. QED
    BY <1>6, <2>1, <2>2 DEF Kept
<1>8. Ordered(s, next) = q
  BY <1>0, OrderedFull
<1>9. Ordered(t, turn) = [k \in 1..MaxNetworks |-> t[Slot(turn, k)]]
  BY <1>6, OrderedFull
<1>10. \A k \in 1..MaxNetworks :
         t[Slot(turn, k)] = IF k < MaxNetworks THEN s[Slot(next, k + 1)] ELSE entry
  <2>. SUFFICES ASSUME NEW k \in 1..MaxNetworks
                PROVE  t[Slot(turn, k)] = IF k < MaxNetworks THEN s[Slot(next, k + 1)] ELSE entry
    OBVIOUS
  <2>1. CASE k < MaxNetworks
    <3>1. Slot(turn, k) = Slot(next, k + 1) /\ Slot(next, k + 1) # next /\ Slot(next, k + 1) \in Indices
      BY <1>0, <1>4, <1>5, <2>1 DEF Slot, Indices
    <3>. QED
      BY <1>2, <1>3, <2>1, <3>1
  <2>2. CASE k = MaxNetworks
    <3>1. Slot(turn, k) = next
      BY <1>0, <1>4, <1>5, <2>2 DEF Slot, Indices
    <3>. QED
      BY <1>0, <1>2, <1>3, <2>2, <3>1
  <2>. QED
    BY <1>0, <2>1, <2>2
<1>11. Len(q) = MaxNetworks
  BY <1>0
<1>12. Tail(q) = [k \in 1..MaxNetworks - 1 |-> s[Slot(next, k + 1)]]
  <2>1. \A k \in 1..MaxNetworks - 1 : q[k + 1] = s[Slot(next, k + 1)]
    BY <1>0
  <2>2. Tail(q) = [k \in 1..Len(q) - 1 |-> q[k + 1]]
    <3>1. q \in Seq(Credentials \cup {NoEntry})
      BY <1>0, <1>3, SlotIsTurn
    <3>2. Len(q) >= 1
      BY <1>0, <1>11
    <3>. HIDE DEF q
    <3>3. q # <<>>
      BY <3>2
    <3>4. /\ Tail(q) \in Seq(Credentials \cup {NoEntry}) /\ Len(Tail(q)) = Len(q) - 1
          /\ \A k \in 1..Len(Tail(q)) : Tail(q)[k] = q[k + 1]
      BY <3>1, <3>3, HeadTailProperties
    <3>5. Tail(q) = [k \in 1..Len(Tail(q)) |-> Tail(q)[k]]
      BY <3>4, LenProperties
    <3>. QED
      BY <3>4, <3>5
  <2>. QED
    BY <1>11, <2>1, <2>2
<1>13. Append(Tail(q), entry) = [k \in 1..MaxNetworks |-> IF k < MaxNetworks THEN s[Slot(next, k + 1)] ELSE entry]
  <2>. DEFINE r == [k \in 1..MaxNetworks - 1 |-> s[Slot(next, k + 1)]]
  <2>1. Len(r) = MaxNetworks - 1
    BY <1>0
  <2>2. Append(r, entry) = [k \in 1..MaxNetworks |-> IF k \in 1..MaxNetworks - 1 THEN s[Slot(next, k + 1)] ELSE entry]
    BY <1>0, <2>1
  <2>3. \A k \in 1..MaxNetworks : k \in 1..MaxNetworks - 1 <=> k < MaxNetworks
    BY <1>0
  <2>. QED
    BY <1>12, <2>2, <2>3
<1>14. Ordered(t, turn) = Append(Tail(Ordered(s, next)), entry)
  <2>. HIDE DEF q
  <2>. QED
    BY <1>8, <1>9, <1>10, <1>13
<1>15. \A k \in 1..MaxNetworks : Slot(next, k) \in Indices
  BY <1>0, SlotIsTurn
<1>. QED
  BY <1>7, <1>8, <1>11, <1>14, <1>15 DEF entry

\* What is read back of the file.
Read(d) == IF d = NoFile THEN <<>> ELSE Ordered(d[1], d[2])

\* The state of the queue that the store stands for.
NowQueue == Ordered(slots, nextEvict)
NowSaved == Read(disk)

\* An empty store is an empty queue.
LEMMA EmptyMaps == Kept(NoSlots, 0) /\ Ordered(NoSlots, 0) = <<>>
<1>1. 0 \in Indices
  BY WifiAssumption DEF Indices
<1>2. Filled(NoSlots, 0) /\ Distinct(NoSlots) /\ NoSlots \in [Indices -> Credentials \cup {NoEntry}]
  BY DEF Filled, Distinct, NoSlots, Indices
<1>3. Ordered(NoSlots, 0) = [k \in 1..0 |-> NoSlots[k - 1]]
  BY <1>1, <1>2, OrderedFilled
<1>4. [k \in 1..0 |-> NoSlots[k - 1]] = <<>>
  OBVIOUS
<1>. QED
  BY <1>1, <1>2, <1>3, <1>4 DEF Kept

\* Saving a connection updates, appends or evicts.
LEMMA AddMaps ==
  ASSUME StoreInv, NEW ssid \in Ssids, NEW password \in Passwords, AddOrUpdate(ssid, password)
  PROVE  /\ Kept(slots', nextEvict')
         /\ LET q == Ordered(slots, nextEvict)
                r == Ordered(slots', nextEvict')
            IN  \/ \E k \in DOMAIN q : q[k].ssid = ssid /\ r = [q EXCEPT ![k].password = password]
                \/ /\ \A k \in DOMAIN q : q[k].ssid # ssid
                   /\ r = Append(IF Len(q) = MaxNetworks THEN Tail(q) ELSE q, Fifo!Entry(ssid, password))
<1>. DEFINE entry == Fifo!Entry(ssid, password)
            q == Ordered(slots, nextEvict)
            r == Ordered(slots', nextEvict')
            Updates == \E k \in DOMAIN q : q[k].ssid = ssid /\ r = [q EXCEPT ![k].password = password]
            Appends == /\ \A k \in DOMAIN q : q[k].ssid # ssid
                       /\ r = Append(IF Len(q) = MaxNetworks THEN Tail(q) ELSE q, entry)
<1>1. /\ Kept(slots, nextEvict) /\ nextEvict \in Indices
      /\ slots \in [Indices -> Credentials \cup {NoEntry}]
  BY DEF StoreInv, Kept
<1>2. entry \in Credentials /\ entry = [ssid |-> ssid, password |-> password]
  BY EntryTyped DEF Fifo!Entry
<1>3. \A i \in Indices : slots' = [slots EXCEPT ![i] = entry] =>
        /\ slots' \in [Indices -> Credentials \cup {NoEntry}]
        /\ \A j \in Indices : slots'[j] = IF j = i THEN entry ELSE slots[j]
  <2>. HIDE DEF entry
  <2>. QED
    BY <1>1, <1>2
<1>4. ASSUME NEW i \in Of(ssid), slots' = [slots EXCEPT ![i] = entry], nextEvict' = nextEvict
      PROVE  Kept(slots', nextEvict') /\ Updates
  <2>1. i \in Indices /\ slots[i] # NoEntry /\ slots[i].ssid = ssid
    BY <1>4 DEF Of, Used
  <2>2. /\ slots' \in [Indices -> Credentials \cup {NoEntry}]
        /\ \A j \in Indices : slots'[j] = IF j = i THEN Fifo!Entry(ssid, password) ELSE slots[j]
    BY <1>3, <1>4, <2>1
  <2>3. /\ Kept(slots', nextEvict)
        /\ \E k \in DOMAIN Ordered(slots, nextEvict) :
             /\ Ordered(slots, nextEvict)[k].ssid = ssid
             /\ Ordered(slots', nextEvict) = [Ordered(slots, nextEvict) EXCEPT ![k].password = password]
    BY <1>1, <2>1, <2>2, UpdateMaps
  <2>. QED
    BY <1>4, <2>3
<1>5. Of(ssid) = {} => \A j \in Indices : slots[j] # NoEntry => slots[j].ssid # ssid
  BY DEF Of, Used
<1>6. ASSUME Of(ssid) = {}, NEW i \in Indices, FirstFree(i),
             slots' = [slots EXCEPT ![i] = entry], nextEvict' = nextEvict
      PROVE  Kept(slots', nextEvict') /\ Appends
  <2>1. slots[i] = NoEntry /\ \A j \in Indices : j < i => slots[j] # NoEntry
    BY <1>6 DEF FirstFree, Used
  <2>2. /\ slots' \in [Indices -> Credentials \cup {NoEntry}]
        /\ \A j \in Indices : slots'[j] = IF j = i THEN Fifo!Entry(ssid, password) ELSE slots[j]
    BY <1>3, <1>6
  <2>3. \A j \in Indices : slots[j] # NoEntry => slots[j].ssid # ssid
    BY <1>5, <1>6
  <2>4. /\ Kept(slots', nextEvict)
        /\ \A k \in DOMAIN Ordered(slots, nextEvict) : Ordered(slots, nextEvict)[k].ssid # ssid
        /\ Len(Ordered(slots, nextEvict)) # MaxNetworks
        /\ Ordered(slots', nextEvict) = Append(Ordered(slots, nextEvict), Fifo!Entry(ssid, password))
    BY <1>1, <2>1, <2>2, <2>3, FillMaps
  <2>. QED
    BY <1>6, <2>4
<1>7. ASSUME Of(ssid) = {}, \A i \in Indices : Used(i), Evict(entry)
      PROVE  Kept(slots', nextEvict') /\ Appends
  <2>1. Full(slots) /\ \A j \in Indices : slots[j].ssid # ssid
    BY <1>5, <1>7 DEF Full, Used
  <2>2. /\ slots' \in [Indices -> Credentials \cup {NoEntry}]
        /\ \A j \in Indices : slots'[j] = IF j = nextEvict THEN Fifo!Entry(ssid, password) ELSE slots[j]
    BY <1>1, <1>3, <1>7 DEF Evict
  <2>3. /\ nextEvict' \in Indices
        /\ nextEvict + 1 < MaxNetworks => nextEvict' = nextEvict + 1
        /\ nextEvict + 1 = MaxNetworks => nextEvict' = 0
    <3>1. nextEvict' = (nextEvict + 1) % MaxNetworks
      BY <1>7 DEF Evict
    <3>2. MaxNetworks \in Nat \ {0} /\ nextEvict \in 0..MaxNetworks - 1
      BY <1>1, WifiAssumption DEF Indices
    <3>. QED
      BY <3>1, <3>2 DEF Indices
  <2>4. /\ Kept(slots', nextEvict')
        /\ \A k \in DOMAIN Ordered(slots, nextEvict) : Ordered(slots, nextEvict)[k].ssid # ssid
        /\ Len(Ordered(slots, nextEvict)) = MaxNetworks
        /\ Ordered(slots', nextEvict') = Append(Tail(Ordered(slots, nextEvict)), Fifo!Entry(ssid, password))
    BY <1>1, <2>1, <2>2, <2>3, EvictMaps
  <2>. QED
    BY <2>4
<1>8. \/ \E i \in Of(ssid) : slots' = [slots EXCEPT ![i] = entry] /\ nextEvict' = nextEvict
      \/ /\ Of(ssid) = {}
         /\ \E i \in Indices : FirstFree(i) /\ slots' = [slots EXCEPT ![i] = entry] /\ nextEvict' = nextEvict
      \/ Of(ssid) = {} /\ (\A i \in Indices : Used(i)) /\ Evict(entry)
  BY DEF AddOrUpdate, Fifo!Entry
<1>9. Kept(slots', nextEvict') /\ (Updates \/ Appends)
  <2>. HIDE DEF entry, Updates, Appends
  <2>. QED
    BY <1>4, <1>6, <1>7, <1>8
<1>. QED
  BY <1>9

\* The store and the file stay in order.
LEMMA StoreInitial == Init => StoreInv /\ NowQueue = <<>> /\ NowSaved = <<>>
BY EmptyMaps DEF Init, StoreInv, NowQueue, NowSaved, Read

\* Every step of the program is one of the queue, of the file, or of neither.
LEMMA StoreStep ==
  ASSUME IInv, StoreInv, [Next]_vars
  PROVE  /\ StoreInv'
         /\ \/ \E ssid \in Ssids, password \in Passwords : Fifo!Update(ssid, password) \/ Fifo!Insert(ssid, password)
            \/ Fifo!Save
            \/ Fifo!Restart
            \/ UNCHANGED <<NowQueue, NowSaved>>
<1>1. CASE GoToFileTransfer /\ enteredPassword # Empty
  <2>1. pendingSsid \in Ssids /\ enteredPassword \in Passwords
    BY <1>1 DEF GoToFileTransfer, IInv, Screens, Current
  <2>2. AddOrUpdate(pendingSsid, enteredPassword) /\ disk' = disk
    BY <1>1 DEF GoToFileTransfer
  <2>3. StoreInv'
    BY <2>1, <2>2, AddMaps DEF StoreInv
  <2>4. Fifo!Update(pendingSsid, enteredPassword) \/ Fifo!Insert(pendingSsid, enteredPassword)
    BY <2>1, <2>2, AddMaps DEF Fifo!Update, Fifo!Insert
  <2>. QED
    BY <2>1, <2>3, <2>4
<1>2. CASE Restart
  <2>1. Load /\ disk' = disk
    BY <1>2 DEF Restart
  <2>2. Kept(slots', nextEvict') /\ Ordered(slots', nextEvict') \in {Read(disk), <<>>}
    BY <2>1, EmptyMaps DEF Load, StoreInv, Read
  <2>3. StoreInv'
    BY <2>1, <2>2 DEF StoreInv
  <2>4. Fifo!Restart
    BY <2>1, <2>2 DEF Fifo!Restart, Read
  <2>. QED
    BY <2>3, <2>4
<1>3. CASE Truncate \/ Write
  <2>1. slots' = slots /\ nextEvict' = nextEvict
    BY <1>3 DEF Truncate, Write, store
  <2>2. disk' = disk \/ disk' = NoFile \/ disk' = <<slots, nextEvict>>
    BY <1>3 DEF Truncate, Write
  <2>3. <<slots, nextEvict>> # NoFile
    BY NoEntryAssumption DEF IInv, Stored, Stores
  <2>4. Kept(slots', nextEvict') /\ (disk' # NoFile => Kept(disk'[1], disk'[2]))
    BY <2>1, <2>2 DEF StoreInv
  <2>5. StoreInv'
    BY <2>4 DEF StoreInv
  <2>6. Read(disk') \in {Read(disk), Ordered(slots, nextEvict), <<>>}
    BY <2>2, <2>3 DEF Read
  <2>7. Fifo!Save \/ UNCHANGED <<NowQueue, NowSaved>>
    BY <2>1, <2>6 DEF Fifo!Save, NowQueue, NowSaved, Read
  <2>. QED
    BY <2>5, <2>7
<1>4. CASE slots' = slots /\ nextEvict' = nextEvict /\ disk' = disk
  BY <1>4 DEF StoreInv, NowQueue, NowSaved, Read
<1>5. \/ slots' = slots /\ nextEvict' = nextEvict /\ disk' = disk
      \/ GoToFileTransfer /\ enteredPassword # Empty
      \/ Restart \/ Truncate \/ Write
  BY DEF Next, LinkUp, LinkDown, Tick, Enter, Back, PowerOff, ScanComplete, SelectOpen,
         SelectKnown, SelectNew, Select, OnPasswordEntered, OnPasswordCancelled, GoToFileTransfer,
         OpenTransfer, Poll, PollAgain, PollFails, Acknowledge, store, vars
<1>. QED
  BY <1>1, <1>2, <1>3, <1>4, <1>5

\* The store of saved networks is a first-in first-out queue of bounded length: it evicts
\* the oldest entry, over updates, failed saves and restarts (WifiCredentialStore).
THEOREM StoreRefines == Spec => StoreIsFifo
<1>1. Init => StoreInv /\ Fifo!Init
  BY StoreInitial DEF Fifo!Init, NowQueue, NowSaved, Read
<1>2. IInv /\ StoreInv /\ [Next]_vars
        => StoreInv' /\ [Fifo!Next]_<<Ordered(slots, nextEvict), IF disk = NoFile THEN <<>> ELSE Ordered(disk[1], disk[2])>>
  BY StoreStep DEF Fifo!Next, NowQueue, NowSaved, Read
<1>. QED
  BY <1>1, <1>2, Invariance, PTL DEF Spec, StoreIsFifo, Fifo!Spec

=============================================================================
