---------------------------- MODULE FileTransfer ----------------------------
(***************************************************************************)
(* The file transfer server, src/network/FileTransferServer.{h,cpp}: the   *)
(* state of the upload that is kept from request to request, the requests  *)
(* that rename or delete files in between, and the end of the visit in a   *)
(* restart (src/screens/FileTransferScreen.cpp, WifiSession.cpp).          *)
(*                                                                         *)
(* A body arrives in units, the k-th of the n-th upload being <<n, k>>.    *)
(* The server takes one client at a time and reads a body to its end or    *)
(* abortion before it looks at anything else.  Any write may be short and  *)
(* any opening or truncation may fail.  What has been written to a file    *)
(* that was not closed may be lost when the power goes, when the device    *)
(* restarts or when the file is renamed.  Folders, listings and downloads  *)
(* are left out.                                                           *)
(***************************************************************************)
EXTENDS Naturals, Sequences

CONSTANTS
  Names,       \* paths
  Protected,   \* isProtectedPath: names that begin with a dot
  BufferSize,  \* kBufferSize, in units
  MaxSize,     \* bound: units in a body
  MaxUploads,  \* bound: uploads
  NoName, NoFile

ASSUME TransferAssumption ==
  /\ Protected \subseteq Names
  /\ BufferSize \in Nat \ {0}
  /\ MaxSize \in Nat /\ MaxUploads \in Nat
  /\ NoName \notin Names
  /\ NoFile \notin Nat

VARIABLES
  pc,
  dir, data, allocated,  \* the card: a file is named by the upload that created it
  file, destPath, success, preallocatedSize, buffer, \* UploadState
  current, size, received, named, \* the request: its number, length, units read, has a name
  uncut,                 \* history: the truncate at its end failed
  answered               \* history: the uploads answered with success

card == <<dir, data, allocated>>
upload == <<file, destPath, success, preallocatedSize, buffer>>
request == <<current, size, received, named, uncut>>
vars == <<pc, card, upload, request, answered>>

Uploads == 1..MaxUploads
Units == Uploads \X (1..MaxSize)
Body == [k \in 1..size |-> <<current, k>>]

TypeOK ==
  /\ pc \in {"off", "deaf", "idle", "body", "answer", "restart"}
  /\ dir \in [Names -> Uploads \cup {NoFile}]
  /\ data \in [Uploads -> Seq(Units)]
  /\ allocated \in [Uploads -> 0..MaxSize]
  /\ file \in Uploads \cup {NoFile}
  /\ destPath \in Names \cup {NoName}
  /\ success \in BOOLEAN
  /\ preallocatedSize \in 0..MaxSize
  /\ buffer \in Seq(Units) /\ Len(buffer) < BufferSize
  /\ current \in 0..MaxUploads
  /\ size \in 0..MaxSize /\ received \in 0..size
  /\ named \in BOOLEAN /\ uncut \in BOOLEAN
  /\ answered \subseteq Uploads

NewUploadState ==
  /\ file' = NoFile
  /\ destPath' = NoName
  /\ success' = FALSE
  /\ preallocatedSize' = 0
  /\ buffer' = <<>>

Init ==
  /\ pc = "off"
  /\ dir = [n \in Names |-> NoFile]
  /\ data = [u \in Uploads |-> <<>>]
  /\ allocated = [u \in Uploads |-> 0]
  /\ file = NoFile /\ destPath = NoName /\ success = FALSE
  /\ preallocatedSize = 0 /\ buffer = <<>>
  /\ current = 0 /\ size = 0 /\ received = 0 /\ named = FALSE /\ uncut = FALSE
  /\ answered = {}

----------------------------------------------------------------------------
\* The visit

\* onEnter of a new screen; begin() fails without memory.
Begin ==
  /\ pc = "off"
  /\ pc' \in {"idle", "deaf"}
  /\ NewUploadState
  /\ UNCHANGED <<card, request, answered>>

\* Back: onExit, which stops the server and enters WifiSession::end.
Leave ==
  /\ pc \in {"idle", "deaf"}
  /\ pc' = "restart"
  /\ UNCHANGED <<card, upload, request, answered>>

\* What may be found of a file that was not closed.
MayLose(u) == data' \in {data, [data EXCEPT ![u] = <<>>]}

PowerOff ==
  /\ pc # "off"
  /\ pc' = "off"
  /\ IF file = NoFile THEN UNCHANGED data ELSE MayLose(file)
  /\ NewUploadState
  /\ UNCHANGED <<dir, allocated, request, answered>>

----------------------------------------------------------------------------
\* Uploads

NextRequest(s) ==
  /\ pc = "idle"
  /\ current < MaxUploads
  /\ current' = current + 1
  /\ size' = s
  /\ received' = 0
  /\ uncut' = FALSE
  /\ pc' = "body"

\* Mutant: what an aborted upload left in the buffer goes into the next file.
ResetKeepsBuffer(ok, reserved) ==
  /\ success' = ok
  /\ preallocatedSize' = reserved
  /\ UNCHANGED buffer

\* What handleUploadStart resets, then sets when the file has opened.
Reset(ok, reserved) ==
  /\ success' = ok
  /\ preallocatedSize' = reserved
  /\ buffer' = <<>>

StartNameless(s) ==
  /\ NextRequest(s)
  /\ Reset(FALSE, 0)
  /\ named' = FALSE
  /\ UNCHANGED <<card, file, destPath, answered>>

\* Mutant: the handle of the last upload survives a failing opening.
StartFailsKeepsHandle(s, n) ==
  /\ NextRequest(s)
  /\ Reset(FALSE, 0)
  /\ named' = TRUE
  /\ destPath' = n
  /\ UNCHANGED <<card, file, answered>>

\* The file does not open.  The one still open from before is closed all the same.
StartFails(s, n) ==
  /\ NextRequest(s)
  /\ Reset(FALSE, 0)
  /\ named' = TRUE
  /\ destPath' = n
  /\ file' = NoFile
  /\ UNCHANGED <<card, answered>>

\* The file is created or truncated, and an extent reserved for it, if there is one,
\* of the length announced, which may be an over-estimate.
StartOpens(s, n, reserved) ==
  /\ NextRequest(s)
  /\ Reset(TRUE, reserved)
  /\ reserved = 0 \/ reserved >= s
  /\ named' = TRUE
  /\ destPath' = n
  /\ file' = current'
  /\ dir' = [dir EXCEPT ![n] = current']
  /\ allocated' = [allocated EXCEPT ![current'] = reserved]
  /\ UNCHANGED <<data, answered>>

\* flushUploadBuffer of what has been collected; the write may be short.
Flush(units) ==
  /\ \E k \in 0..Len(units) :
       /\ data' = [data EXCEPT ![file] = @ \o SubSeq(units, 1, k)]
       /\ success' = (success /\ k = Len(units))
  /\ buffer' = <<>>

Collect(units) ==
  IF Len(units) = BufferSize
  THEN Flush(units)
  ELSE buffer' = units /\ UNCHANGED <<data, success>>

Chunk ==
  /\ pc = "body"
  /\ received < size
  /\ received' = received + 1
  /\ IF file = NoFile
     THEN UNCHANGED <<data, success, buffer>>
     ELSE Collect(Append(buffer, <<current, received'>>))
  /\ UNCHANGED <<pc, dir, allocated, file, destPath, preallocatedSize, current, size, named, uncut, answered>>

\* truncate, whose result nobody looks at: the file is cut to its body or stays as it is.
Truncate ==
  \/ /\ allocated' = [allocated EXCEPT ![file] = size]
     /\ uncut' = FALSE
  \/ /\ uncut' = TRUE
     /\ UNCHANGED allocated

\* RAW_END: the rest is written and the extent cut to what has arrived.
End ==
  /\ pc = "body"
  /\ received = size
  /\ pc' = "answer"
  /\ IF buffer = <<>> \/ file = NoFile
     THEN UNCHANGED <<data, success, buffer>>
     ELSE Flush(buffer)
  /\ IF preallocatedSize > size THEN Truncate ELSE UNCHANGED <<allocated, uncut>>
  /\ UNCHANGED <<dir, file, destPath, preallocatedSize, current, size, received, named, answered>>

\* RAW_ABORTED: closed, then removed.  There is nobody left to answer.
Abort ==
  /\ pc = "body"
  /\ pc' = "idle"
  /\ success' = FALSE
  /\ file' = NoFile
  /\ dir' = [n \in Names |-> IF n = destPath THEN NoFile ELSE dir[n]]
  /\ UNCHANGED <<data, allocated, destPath, preallocatedSize, buffer, request, answered>>

SendUploadResponse ==
  /\ pc = "answer"
  /\ pc' = "idle"
  /\ answered' = IF success THEN answered \cup {current} ELSE answered
  /\ UNCHANGED <<card, upload, request>>

----------------------------------------------------------------------------
\* Requests between uploads

\* Rename, and move, which is a rename too.  Neither replaces a file.
Rename(a, b) ==
  /\ pc = "idle"
  /\ a \notin Protected
  /\ dir[a] # NoFile /\ dir[b] = NoFile
  /\ dir' = [dir EXCEPT ![a] = NoFile, ![b] = dir[a]]
  /\ IF dir[a] = file THEN MayLose(file) ELSE UNCHANGED data
  /\ UNCHANGED <<pc, allocated, upload, request, answered>>

Delete(a) ==
  /\ pc = "idle"
  /\ a \notin Protected
  /\ dir[a] # NoFile
  /\ dir' = [dir EXCEPT ![a] = NoFile]
  /\ UNCHANGED <<pc, data, allocated, upload, request, answered>>

Next ==
  \/ Begin \/ Leave \/ PowerOff
  \/ \E s \in 1..MaxSize : StartNameless(s)
  \/ \E s \in 1..MaxSize, n \in Names : StartFails(s, n)
  \/ \E s \in 1..MaxSize, n \in Names, reserved \in 0..MaxSize : StartOpens(s, n, reserved)
  \/ Chunk \/ End \/ Abort \/ SendUploadResponse
  \/ \E a, b \in Names : Rename(a, b)
  \/ \E a \in Names : Delete(a)

Spec == Init /\ [][Next]_vars

----------------------------------------------------------------------------
\* Properties

\* "File uploaded successfully" (sendUploadResponse) is only ever said of a file that
\* holds the body: every unit of it, in order and nothing else, under the name that was
\* asked for, whatever earlier uploads came to.  What was reserved beyond the body stays
\* behind it only if this upload's own truncate failed, which is answered with success
\* all the same.
AnswerTrue ==
  pc = "answer" /\ success =>
    /\ file # NoFile /\ dir[destPath] = file
    /\ data[file] = Body
    /\ allocated[file] > size => uncut

\* An upload that has a name changes no other file than the one of that name, although
\* the handle and the buffer of the upload before it are still there when it starts.
OthersKept ==
  [][pc = "body" /\ named /\ pc' # "off" =>
       \A n \in Names \ {destPath} :
         dir'[n] = dir[n] /\ (dir[n] # NoFile => data'[dir[n]] = data[dir[n]])]_vars

\* "members closed in `onExit`" (.skills/hal-and-abstractions/SKILL.md:53): when
\* onExit restarts the device no file that was answered for is still open.
ClosedOnExit == pc = "restart" => file \notin answered

=============================================================================
