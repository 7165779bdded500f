------------------------------- MODULE FilePage -------------------------------
(***************************************************************************)
(* The file manager page a browser runs, the script of                     *)
(* src/network/html/FileManagerPage.h, against the requests that list and  *)
(* change the card in src/network/FileTransferServer.cpp.                  *)
(*                                                                         *)
(* The page sends requests without waiting for one another's answers;      *)
(* each goes over a connection of its own, so the server may serve them,   *)
(* and their answers arrive, in any order, and the network may lose        *)
(* either. A path is the sequence of its names.  The tree holds the        *)
(* folders and files on the card; the server may fail at any request (an   *)
(* I/O error): a change then leaves the card as it was, and a list lacks   *)
(* the entries that could not be read, all of them when the folder could   *)
(* not be opened.                                                          *)
(***************************************************************************)
EXTENDS Naturals, Sequences, FiniteSets, SequencesExt

CONSTANTS
  PageNames,     \* names the user types and uploads
  ProtectedNames, \* isProtectedPath: never listed or changed
  FirstTree,     \* the card when the page is opened: a function from paths to kinds
  MaxDepth, MaxRequests  \* bounds

ASSUME PageAssumption ==
  /\ \A p \in DOMAIN FirstTree : FirstTree[p] \in {"file", "dir"}
  /\ \A p \in DOMAIN FirstTree : p \in Seq({p[i] : i \in DOMAIN p})
  /\ FirstTree[<<>>] = "dir"
  /\ MaxDepth \in Nat /\ MaxRequests \in Nat \ {0}

VARIABLES
  path,          \* the folder the page is in
  rows,          \* the list it shows: name, kind, and the path its buttons act on
  activeUpload,  \* the number of the upload, or 0
  requests,      \* on their way to the server
  answers,       \* on their way back
  tree,          \* the card
  issued,        \* how many requests were made
  latest, shown, \* the last list asked for, and the one the rows are of
  missing,       \* what the server could not read for the list the rows are of
  lost           \* a request or an answer was, or an upload was cancelled

pageState == <<path, rows, activeUpload>>
network == <<requests, answers>>
filePageVars == <<pageState, network, tree, issued, latest, shown, missing, lost>>
listing == <<shown, missing>>

Request(id, op, at, arg) == [id |-> id, op |-> op, at |-> at, arg |-> arg]

\* load(): asks for the list of a folder; `others` is what else is being sent.
Load(folder, others) ==
  /\ issued' = issued + 1
  /\ latest' = issued + 1
  /\ requests' = others \cup {Request(issued + 1, "list", folder, <<>>)}

Send(op, at, arg) ==
  /\ issued < MaxRequests
  /\ issued' = issued + 1
  /\ requests' = requests \cup {Request(issued + 1, op, at, arg)}
  /\ UNCHANGED <<answers, tree, latest, listing, lost>>

-----------------------------------------------------------------------------
(* What the user does                                                      *)

\* A click on a folder's name, or on a crumb above the folder shown.
GoTo(folder) ==
  /\ issued < MaxRequests
  /\ path' = folder
  /\ Load(folder, requests)
  /\ UNCHANGED <<rows, activeUpload, answers, tree, listing, lost>>

EnterFolder == \E r \in rows : r.kind = "dir" /\ GoTo(r.full)
Crumb == \E n \in 0..Len(path) - 1 : GoTo(SubSeq(path, 1, n))
Refresh == GoTo(path)

Mkdir == \E name \in PageNames : Send("mkdir", path, <<name>>) /\ UNCHANGED pageState
Rename == \E row \in rows, name \in PageNames : name # row.name /\ Send("rename", row.full, <<name>>)
MoveFile == \E row \in rows, dest \in {<<>>} \cup {r.full : r \in rows} : Send("move", row.full, dest)
Delete == \E row \in rows : Send("delete", row.full, <<>>)

\* The prompts of a row's buttons; one that is dismissed sends nothing.
RowButton == (Rename \/ MoveFile \/ Delete) /\ UNCHANGED pageState

\* upload(): one at a time.
MayUpload == activeUpload = 0

Upload ==
  /\ MayUpload
  /\ \E name \in PageNames : Send("upload", path, <<name>>)
  /\ activeUpload' = issued + 1
  /\ UNCHANGED <<path, rows>>

\* cancelUpload(): onabort resets the form and loads; the server comes to know
\* of it when it reads on.
CancelUpload ==
  /\ activeUpload # 0 /\ issued < MaxRequests
  /\ activeUpload' = 0
  /\ Load(path, {IF r.id = activeUpload THEN [r EXCEPT !.op = "abort"] ELSE r : r \in requests})
  /\ answers' = {a \in answers : a.id # activeUpload}
  /\ lost' = TRUE
  /\ UNCHANGED <<path, rows, tree, listing>>

-----------------------------------------------------------------------------
(* The server                                                              *)

Present(p) == p \in DOMAIN tree
IsFolder(p) == Present(p) /\ tree[p] = "dir"
Children(p) == {q \in DOMAIN tree : Len(q) = Len(p) + 1 /\ IsPrefix(p, q)}
Visible(p) == IF IsFolder(p) THEN {q \in Children(p) : Last(q) \notin ProtectedNames} ELSE {}

isProtectedPath(p) == p # <<>> /\ Last(p) \in ProtectedNames

Without(ps) == [q \in DOMAIN tree \ ps |-> tree[q]]
With(p, kind) == [q \in DOMAIN tree \cup {p} |-> IF q = p THEN kind ELSE tree[q]]

\* rename(): everything below a folder moves with it.
MovedTo(from, to) ==
  LET old(q) == from \o SubSeq(q, Len(to) + 1, Len(q))
      below == {q \in DOMAIN tree : IsPrefix(from, q)}
      new == {to \o SubSeq(q, Len(from) + 1, Len(q)) : q \in below}
  IN [q \in (DOMAIN tree \ below) \cup new |-> IF q \in new THEN tree[old(q)] ELSE tree[q]]

CanMove(from, to) ==
  /\ Present(from) /\ ~isProtectedPath(from)
  /\ ~Present(to) /\ IsFolder(Front(to)) /\ ~IsPrefix(from, to)

\* The handlers that change the card, when nothing goes wrong on it.
Served(r) ==
  LET joined == r.at \o r.arg IN
  IF r.op = "mkdir" /\ IsFolder(r.at) /\ ~Present(joined) THEN With(joined, "dir")
  ELSE IF r.op = "upload" /\ IsFolder(r.at) /\ ~IsFolder(joined) THEN With(joined, "file")
  ELSE IF r.op = "abort" /\ Present(joined) /\ ~IsFolder(joined) THEN Without({joined})
  ELSE IF r.op = "rename" /\ CanMove(r.at, Front(r.at) \o r.arg) THEN MovedTo(r.at, Front(r.at) \o r.arg)
  ELSE IF r.op = "move" /\ CanMove(r.at, Append(r.arg, Last(r.at))) THEN MovedTo(r.at, Append(r.arg, Last(r.at)))
  ELSE IF r.op = "delete" /\ Present(r.at) /\ ~isProtectedPath(r.at) /\ Children(r.at) = {} THEN Without({r.at})
  ELSE tree

\* handleFileList(): a folder that does not open is answered as an empty list, with a
\* status the page does not look at, and an entry that does not open ends the list.
Listed(r) == IF r.op = "list" THEN {[name |-> Last(q), kind |-> tree[q]] : q \in Visible(r.at)} ELSE {}

Serve ==
  \E r \in requests : \E unread \in SUBSET Listed(r) :
    /\ requests' = requests \ {r}
    /\ tree' \in {tree, Served(r)}
    /\ \A q \in DOMAIN tree' : Len(q) <= MaxDepth
    /\ answers' = IF r.op = "abort" THEN answers
                  ELSE answers \cup {[id |-> r.id, op |-> r.op, items |-> Listed(r) \ unread, missing |-> unread]}
    /\ UNCHANGED <<pageState, issued, latest, listing, lost>>

-----------------------------------------------------------------------------
(* The answers                                                             *)

\* The rows' buttons act on the folder the page is in by then.
Row(item) == [name |-> item.name, kind |-> item.kind, full |-> Append(path, item.name)]

ListAnswer ==
  \E a \in answers :
    /\ a.op = "list"
    /\ rows' = {Row(item) : item \in a.items}
    /\ shown' = a.id /\ missing' = a.missing
    /\ answers' = answers \ {a}
    /\ UNCHANGED <<path, activeUpload, requests, tree, issued, latest, lost>>

\* Mutant: the list is left as it was.
NoReload == UNCHANGED <<issued, latest, requests>>

\* Whatever a change was answered, the page loads its folder again.
AfterChange == Load(path, requests)

ChangeAnswer ==
  \E a \in answers :
    /\ a.op # "list"
    /\ activeUpload' = IF a.op = "upload" THEN 0 ELSE activeUpload
    /\ answers' = answers \ {a}
    /\ AfterChange
    /\ UNCHANGED <<path, rows, tree, listing, lost>>

\* catch() and onerror only say so.
Lose ==
  \E m \in requests \cup answers :
    /\ m.op # "abort"
    /\ requests' = requests \ {m} /\ answers' = answers \ {m}
    /\ activeUpload' = IF m.op = "upload" THEN 0 ELSE activeUpload
    /\ lost' = TRUE
    /\ UNCHANGED <<path, rows, tree, issued, latest, listing>>

-----------------------------------------------------------------------------
FilePageInit ==
  /\ path = <<>> /\ rows = {} /\ activeUpload = 0
  /\ requests = {Request(1, "list", <<>>, <<>>)} /\ answers = {}
  /\ tree = FirstTree
  /\ issued = 1 /\ latest = 1 /\ shown = 0 /\ missing = {}
  /\ lost = FALSE

FilePageNext ==
  \/ EnterFolder \/ Crumb \/ Refresh \/ Mkdir \/ RowButton \/ Upload \/ CancelUpload
  \/ Serve \/ ListAnswer \/ ChangeAnswer \/ Lose

FilePageSpec == FilePageInit /\ [][FilePageNext]_filePageVars

-----------------------------------------------------------------------------
(* Property                                                                *)

\* Once everything is answered, nothing was lost, and the newest list was the
\* last to arrive, the rows are the folder the page says it is in, all of it but what the
\* server could not read for that list, and every button acts on the file beside its
\* name.  (An older list that arrives late is shown under the newer path; and a list that
\* is short, or empty because the folder did not open, is shown like any other.)
PageTrue ==
  requests = {} /\ answers = {} /\ ~lost /\ shown = latest =>
    rows = {[name |-> Last(q), kind |-> tree[q], full |-> q] :
              q \in {v \in Visible(path) : [name |-> Last(v), kind |-> tree[v]] \notin missing}}
=============================================================================
