-------------------------------- MODULE Wifi --------------------------------
(***************************************************************************)
(* Joining a network: the list of networks (src/screens/WifiListScreen.cpp)*)
(* with the keyboard and the transfer screen above it, the station         *)
(* (src/network/WifiManager.cpp), and the store of passwords that          *)
(* connected (src/network/WifiCredentialStore.cpp).                        *)
(*                                                                         *)
(* The driver is outside the repository: it works on one attempt, which it *)
(* may bring up, lose and bring up again until it is told to disconnect.   *)
(* The scan's result is a choice of the moment at which the user selects.  *)
(* Any file operation and any allocation may fail.                         *)
(***************************************************************************)
EXTENDS Naturals

CONSTANTS
  Ssids, Passwords,
  Empty,        \* the empty password
  MaxNetworks,  \* kMaxNetworks
  Timeout,      \* kConnectTimeoutMs, in units
  NoSsid, NoEntry, NoFile

ASSUME WifiAssumption ==
  /\ MaxNetworks \in Nat \ {0}
  /\ Timeout \in Nat
  /\ NoSsid \notin Ssids /\ Empty \notin Passwords

Networks == [ssid : Ssids, password : Passwords \cup {Empty}]
Credentials == [ssid : Ssids, password : Passwords]
Indices == 0..(MaxNetworks - 1)
Stores == [Indices -> Credentials \cup {NoEntry}] \X Indices

ASSUME NoEntryAssumption == NoEntry \notin Networks /\ NoFile \notin Stores

VARIABLES
  pc,       \* which screen is current, and where goToFileTransfer is
  state, pendingSsid, enteredPassword, \* WifiListScreen
  attempt, up, elapsed,                \* the driver, and millis() - connectStartMs
  slots, nextEvict,                    \* wifiCredentials
  disk                                 \* wifi.bin

screen == <<state, pendingSsid, enteredPassword>>
station == <<attempt, up, elapsed>>
store == <<slots, nextEvict>>
vars == <<pc, screen, station, store, disk>>

TypeOK ==
  /\ pc \in {"elsewhere", "list", "keyboard", "truncate", "write", "open", "transfer"}
  /\ state \in {"Scanning", "NetworkList", "Connecting", "Failed"}
  /\ pendingSsid \in Ssids \cup {NoSsid}
  /\ enteredPassword \in Passwords \cup {Empty}
  /\ attempt \in Networks \cup {NoEntry}
  /\ up \in BOOLEAN
  /\ elapsed \in 0..(Timeout + 1)
  /\ slots \in [Indices -> Credentials \cup {NoEntry}]
  /\ nextEvict \in Indices
  /\ disk \in Stores \cup {NoFile}

NoSlots == [i \in Indices |-> NoEntry]

Init ==
  /\ pc = "elsewhere"
  /\ state = "Scanning" /\ pendingSsid = NoSsid /\ enteredPassword = Empty
  /\ attempt = NoEntry /\ up = FALSE /\ elapsed = 0
  /\ slots = NoSlots /\ nextEvict = 0
  /\ disk = NoFile

----------------------------------------------------------------------------
\* The station

Abort == attempt' = NoEntry /\ up' = FALSE

\* WiFi.disconnect(), then WiFi.begin().
Connect(ssid, password) ==
  /\ attempt' = [ssid |-> ssid, password |-> password]
  /\ up' = FALSE
  /\ elapsed' = 0

LinkUp ==
  /\ attempt # NoEntry /\ ~up
  /\ up' = TRUE
  /\ UNCHANGED <<pc, screen, attempt, elapsed, store, disk>>

LinkDown ==
  /\ up
  /\ up' = FALSE
  /\ UNCHANGED <<pc, screen, attempt, elapsed, store, disk>>

Tick ==
  /\ elapsed <= Timeout
  /\ elapsed' = elapsed + 1
  /\ UNCHANGED <<pc, screen, attempt, up, store, disk>>

----------------------------------------------------------------------------
\* The store

Used(i) == slots[i] # NoEntry

Of(ssid) == {i \in Indices : Used(i) /\ slots[i].ssid = ssid}

FirstFree(i) == ~Used(i) /\ \A j \in Indices : j < i => Used(j)

\* Mutant: the index to evict is left where it is.
EvictSame(entry) ==
  /\ slots' = [slots EXCEPT ![nextEvict] = entry]
  /\ UNCHANGED nextEvict

Evict(entry) ==
  /\ slots' = [slots EXCEPT ![nextEvict] = entry]
  /\ nextEvict' = (nextEvict + 1) % MaxNetworks

AddOrUpdate(ssid, password) ==
  LET entry == [ssid |-> ssid, password |-> password]
  IN  \/ \E i \in Of(ssid) : slots' = [slots EXCEPT ![i] = entry] /\ UNCHANGED nextEvict
      \/ /\ Of(ssid) = {}
         /\ \E i \in Indices :
              FirstFree(i) /\ slots' = [slots EXCEPT ![i] = entry] /\ UNCHANGED nextEvict
      \/ Of(ssid) = {} /\ (\A i \in Indices : Used(i)) /\ Evict(entry)

\* save(): the file is opened, which empties it, and written.
Truncate ==
  /\ pc = "truncate"
  /\ \/ pc' = "write" /\ disk' = NoFile
     \/ pc' = "open" /\ UNCHANGED disk
  /\ UNCHANGED <<screen, station, store>>

Write ==
  /\ pc = "write"
  /\ pc' = "open"
  /\ disk' \in {<<slots, nextEvict>>, NoFile}
  /\ UNCHANGED <<screen, station, store>>

\* load() in setup(): what is on the card, or nothing.
Load ==
  \/ slots' = NoSlots /\ nextEvict' = 0
  \/ disk # NoFile /\ slots' = disk[1] /\ nextEvict' = disk[2]

----------------------------------------------------------------------------
\* The screens

\* WifiSession::end, or a loss of power: everything but the file starts anew.
Restart ==
  /\ pc' = "elsewhere"
  /\ state' = "Scanning" /\ pendingSsid' = NoSsid /\ enteredPassword' = Empty
  /\ Abort /\ elapsed' = 0
  /\ Load
  /\ UNCHANGED disk

Back ==
  /\ \/ pc = "list" /\ state # "Failed"
     \/ pc = "transfer"
  /\ Restart

PowerOff == Restart

Enter ==
  /\ pc = "elsewhere"
  /\ pc' = "list"
  /\ UNCHANGED <<screen, station, store, disk>>

ScanComplete ==
  /\ pc = "list" /\ state = "Scanning"
  /\ state' = "NetworkList"
  /\ UNCHANGED <<pc, pendingSsid, enteredPassword, station, store, disk>>

StartConnecting(password) ==
  /\ Connect(pendingSsid', password)
  /\ state' = "Connecting"

Select(ssid) ==
  /\ pc = "list" /\ state = "NetworkList"
  /\ pendingSsid' = ssid
  /\ UNCHANGED <<store, disk>>

\* Mutant: the password typed for another network is kept.
SelectOpenKeepsPassword(ssid) ==
  /\ Select(ssid)
  /\ UNCHANGED enteredPassword
  /\ StartConnecting(Empty)
  /\ UNCHANGED pc

SelectOpen(ssid) ==
  /\ Select(ssid)
  /\ enteredPassword' = Empty
  /\ StartConnecting(Empty)
  /\ UNCHANGED pc

SelectKnown(ssid) ==
  /\ Select(ssid)
  /\ \E i \in Of(ssid) :
       /\ enteredPassword' = slots[i].password
       /\ StartConnecting(slots[i].password)
  /\ UNCHANGED pc

\* The keyboard opens, unless there is no memory for it.
SelectNew(ssid) ==
  /\ Select(ssid)
  /\ Of(ssid) = {}
  /\ enteredPassword' = Empty
  /\ pc' \in {"keyboard", "list"}
  /\ UNCHANGED <<state, station>>

OnPasswordEntered(password) ==
  /\ pc = "keyboard"
  /\ pc' = "list"
  /\ enteredPassword' = password
  /\ UNCHANGED pendingSsid
  /\ StartConnecting(password)
  /\ UNCHANGED <<store, disk>>

OnPasswordCancelled ==
  /\ pc = "keyboard"
  /\ pc' = "list"
  /\ state' = "NetworkList"
  /\ UNCHANGED <<pendingSsid, enteredPassword, station, store, disk>>

GoToFileTransfer ==
  /\ pc = "list" /\ state = "Connecting" /\ up
  /\ \/ /\ enteredPassword = Empty
        /\ pc' = "open"
        /\ UNCHANGED store
     \/ /\ enteredPassword # Empty
        /\ pc' = "truncate"
        /\ AddOrUpdate(pendingSsid, enteredPassword)
  /\ UNCHANGED <<screen, station, disk>>

\* Without memory for the screen the next tick polls, and saves, again.
OpenTransfer ==
  /\ pc = "open"
  /\ pc' \in {"transfer", "list"}
  /\ UNCHANGED <<screen, station, store, disk>>

Waiting == pc = "list" /\ state = "Connecting" /\ ~up

\* Mutant: the deadline is taken from the last poll.
PollAgainRestarts ==
  /\ Waiting /\ elapsed <= Timeout
  /\ elapsed' = 0
  /\ UNCHANGED <<pc, screen, attempt, up, store, disk>>

PollAgain ==
  /\ Waiting /\ elapsed <= Timeout
  /\ UNCHANGED vars

PollFails ==
  /\ Waiting /\ elapsed > Timeout
  /\ state' = "Failed"
  /\ Abort
  /\ UNCHANGED <<pc, pendingSsid, enteredPassword, elapsed, store, disk>>

Poll == PollAgain \/ PollFails

Acknowledge ==
  /\ pc = "list" /\ state = "Failed"
  /\ state' = "NetworkList"
  /\ UNCHANGED <<pc, pendingSsid, enteredPassword, station, store, disk>>

Next ==
  \/ LinkUp \/ LinkDown \/ Tick
  \/ Enter \/ Back \/ PowerOff \/ ScanComplete
  \/ \E ssid \in Ssids : SelectOpen(ssid) \/ SelectKnown(ssid) \/ SelectNew(ssid)
  \/ \E password \in Passwords \cup {Empty} : OnPasswordEntered(password)
  \/ OnPasswordCancelled
  \/ GoToFileTransfer \/ Truncate \/ Write \/ OpenTransfer
  \/ Poll \/ Acknowledge

\* Time passes and loop() is called again.
Fairness == WF_vars(Tick) /\ WF_vars(Poll)

Spec == Init /\ [][Next]_vars /\ Fairness

----------------------------------------------------------------------------
\* Properties

\* What is put into the store is the network and the password that the station is
\* connected with at that moment, however many networks were selected, typed for,
\* failed and given up before: a restart alone may bring other entries back.
SavedIsConnected ==
  [][\A i \in Indices :
       slots'[i] # slots[i] /\ pc' # "elsewhere" => up /\ slots'[i] = attempt]_vars

\* A connection that does not come up is given up after the time allowed: the list
\* never waits for ever with no link.
ConnectEnds == Waiting ~> ~Waiting

\* The entries of a store, the oldest first.
Ordered(s, next) ==
  IF \E i \in Indices : s[i] = NoEntry
  THEN LET n == CHOOSE i \in Indices : s[i] = NoEntry /\ \A j \in Indices : j < i => s[j] # NoEntry
       IN  [k \in 1..n |-> s[k - 1]]
  ELSE [k \in 1..MaxNetworks |-> s[(next + k - 1) % MaxNetworks]]

Fifo == INSTANCE BoundedFifo WITH
  Keys <- Ssids, Values <- Passwords, Capacity <- MaxNetworks,
  queue <- Ordered(slots, nextEvict),
  saved <- IF disk = NoFile THEN <<>> ELSE Ordered(disk[1], disk[2])

\* The store evicts its oldest entry, over updates, failed saves and restarts: the index
\* of the next to evict goes with the entries it was saved with.
StoreIsFifo == Fifo!Spec

=============================================================================
