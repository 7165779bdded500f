------------------------- MODULE FileTransferProofs -------------------------
(***************************************************************************)
(* What an upload owns and what it has written, for every set of names,    *)
(* size of buffer, length of body and number of uploads.                   *)
(***************************************************************************)
EXTENDS FileTransfer, SequenceTheorems, TLAPS

\* A request is under way.
Busy == pc \in {"body", "answer"}

\* No two names are the same file, and what is named or open has been created.
Distinct ==
  /\ \A m, n \in Names : dir[m] # NoFile /\ dir[m] = dir[n] => m = n
  /\ \A n \in Names : dir[n] # NoFile => dir[n] <= current
  /\ file # NoFile => file <= current

\* While a request that has a name is under way, the file open, if any, is its own.
Owned ==
  /\ Busy => current >= 1
  /\ Busy /\ named => destPath \in Names
  /\ Busy /\ named /\ file # NoFile => file = current /\ dir[destPath] = file
  /\ Busy /\ success => named /\ file # NoFile

\* Files yet to be created are empty.
Fresh == \A u \in Uploads : u > current => data[u] = <<>>

\* What is reserved for the file of an upload that goes well, and what stays of it.
Reserved ==
  /\ pc = "body" /\ success => allocated[file] = preallocatedSize
  /\ pc = "answer" /\ success /\ allocated[file] > size => uncut

Arrived(k) == [i \in 1..k |-> <<current, i>>]

\* As long as all goes well, what is written and what is buffered is what has arrived.
Whole ==
  /\ pc = "body" /\ success => data[file] \o buffer = Arrived(received)
  /\ pc = "answer" /\ success => data[file] = Body

IInv == TypeOK /\ Distinct /\ Owned /\ Fresh /\ Reserved /\ Whole

----------------------------------------------------------------------------

\* What a flush writes is units, and all of them if it reports success.
LEMMA FlushTyped ==
  ASSUME TypeOK, file # NoFile, NEW units \in Seq(Units), Flush(units)
  PROVE  /\ data' \in [Uploads -> Seq(Units)]
         /\ success' \in BOOLEAN
         /\ buffer' = <<>>
         /\ success' => success /\ data'[file] = data[file] \o units
         /\ \A u \in Uploads \ {file} : data'[u] = data[u]
<1>1. PICK k \in 0..Len(units) :
        /\ data' = [data EXCEPT ![file] = @ \o SubSeq(units, 1, k)]
        /\ success' = (success /\ k = Len(units))
  BY DEF Flush
<1>2. file \in Uploads /\ data \in [Uploads -> Seq(Units)]
  BY DEF TypeOK
<1>3. Len(units) \in Nat /\ \A i \in 1..Len(units) : units[i] \in Units
  BY LenProperties, ElementOfSeq
<1>4. SubSeq(units, 1, k) \in Seq(Units)
  <2>1. 1 \in Int /\ k \in Int /\ \A i \in 1..k : units[i] \in Units
    BY <1>3
  <2> QED
    BY <2>1, SubSeqProperties
<1>5. data[file] \o SubSeq(units, 1, k) \in Seq(Units)
  BY <1>2, <1>4, ConcatProperties
<1>6. data' \in [Uploads -> Seq(Units)]
  BY <1>1, <1>2, <1>5
<1>7. success' => success /\ data'[file] = data[file] \o units
  <2>1. SubSeq(units, 1, Len(units)) = units
    BY SubSeqFull
  <2> QED
    BY <1>1, <1>2, <2>1
<1> QED
  BY <1>1, <1>2, <1>6, <1>7 DEF Flush, TypeOK

\* One more unit behind what has arrived is what has then arrived.
LEMMA ArrivedGrows ==
  ASSUME NEW s \in Seq(Units), NEW t \in Seq(Units), NEW k \in Nat,
         s \o t = Arrived(k), <<current, k + 1>> \in Units
  PROVE  s \o Append(t, <<current, k + 1>>) = Arrived(k + 1)
<1> DEFINE x == <<current, k + 1>>
<1>0. x \in Units
  OBVIOUS
<1> HIDE DEF x
<1>1. s \o Append(t, x) = Append(s \o t, x)
  <2>1. Append(t, x) = t \o <<x>>
    BY <1>0, AppendIsConcat
  <2>2. s \o t \in Seq(Units) /\ <<x>> \in Seq(Units)
    <3>1. s \o t \in Seq(Units)
      BY ConcatProperties
    <3>2. <<x>> \in Seq(Units)
      BY <1>0
    <3> QED
      BY <3>1, <3>2
  <2>3. Append(s \o t, x) = (s \o t) \o <<x>>
    BY <1>0, <2>2, AppendIsConcat
  <2>4. (s \o t) \o <<x>> = s \o (t \o <<x>>)
    BY <2>2, s \in Seq(Units), t \in Seq(Units), ConcatAssociative, SMT
  <2> QED
    BY <2>1, <2>3, <2>4
<1>2. Append(Arrived(k), x) = Arrived(k + 1)
  BY DEF Arrived, x
<1> QED
  BY <1>1, <1>2 DEF x

\* What a unit that arrives does to the file and the buffer.
LEMMA ChunkKeeps ==
  ASSUME IInv, Chunk, file # NoFile
  PROVE  /\ data' \in [Uploads -> Seq(Units)]
         /\ success' \in BOOLEAN
         /\ buffer' \in Seq(Units) /\ Len(buffer') < BufferSize
         /\ success' => success /\ data'[file] \o buffer' = Arrived(received + 1)
         /\ \A u \in Uploads \ {file} : data'[u] = data[u]
<1> DEFINE x == <<current, received + 1>>
           units == Append(buffer, x)
<1>1. x \in Units
  BY TransferAssumption DEF IInv, TypeOK, Owned, Busy, Chunk, Units, Uploads
<1>2. buffer \in Seq(Units) /\ Len(buffer) < BufferSize /\ file \in Uploads
      /\ data[file] \in Seq(Units) /\ received \in Nat /\ BufferSize \in Nat \ {0}
  BY TransferAssumption DEF IInv, TypeOK
<1>3. units \in Seq(Units) /\ Len(units) = Len(buffer) + 1 /\ Len(buffer) \in Nat
  BY <1>1, <1>2, AppendProperties, LenProperties
<1>4. success => data[file] \o units = Arrived(received + 1)
  <2> SUFFICES ASSUME success PROVE data[file] \o units = Arrived(received + 1)
    OBVIOUS
  <2>1. data[file] \o buffer = Arrived(received)
    BY DEF IInv, Whole, Chunk
  <2> QED
    BY <1>1, <1>2, <2>1, ArrivedGrows
<1>5. Collect(units)
  BY DEF Chunk
<1> HIDE DEF units
<1>6. CASE Len(units) = BufferSize
  <2>1. Flush(units)
    BY <1>5, <1>6 DEF Collect
  <2>2. /\ data' \in [Uploads -> Seq(Units)]
        /\ success' \in BOOLEAN
        /\ buffer' = <<>>
        /\ success' => success /\ data'[file] = data[file] \o units
        /\ \A u \in Uploads \ {file} : data'[u] = data[u]
    BY <2>1, <1>3, FlushTyped DEF IInv
  <2>3. <<>> \in Seq(Units) /\ Len(<<>>) = 0 /\ 0 < BufferSize
    BY <1>2, EmptySeq
  <2>4. data'[file] \o <<>> = data'[file]
    BY <2>2, <1>2, ConcatEmptySeq
  <2> QED
    BY <2>2, <2>3, <2>4, <1>4
<1>7. CASE Len(units) # BufferSize
  <2>1. buffer' = units /\ UNCHANGED <<data, success>>
    BY <1>5, <1>7 DEF Collect
  <2>2. Len(units) < BufferSize
    BY <1>2, <1>3, <1>7
  <2> QED
    BY <2>1, <2>2, <1>3, <1>4 DEF IInv, TypeOK
<1> QED
  BY <1>6, <1>7

\* What the end of a body leaves.
LEMMA EndKeeps ==
  ASSUME IInv, End
  PROVE  /\ data' \in [Uploads -> Seq(Units)]
         /\ success' \in BOOLEAN
         /\ buffer' \in Seq(Units) /\ Len(buffer') < BufferSize
         /\ success' => success /\ data'[file] = Body
         /\ \A u \in Uploads \ {file} : data'[u] = data[u]
<1>1. buffer \in Seq(Units) /\ data \in [Uploads -> Seq(Units)]
      /\ success \in BOOLEAN /\ Len(buffer) < BufferSize
  BY DEF IInv, TypeOK
<1>2. success => file \in Uploads /\ data[file] \o buffer = Body
  BY DEF IInv, TypeOK, Owned, Busy, Whole, End, Arrived, Body
<1>3. CASE buffer = <<>> \/ file = NoFile
  <2>1. UNCHANGED <<data, success, buffer>>
    BY <1>3 DEF End
  <2>2. success => data[file] = Body
    <3> SUFFICES ASSUME success PROVE data[file] = Body
      OBVIOUS
    <3>1. buffer = <<>>
      BY <1>3 DEF IInv, Owned, Busy, End
    <3>2. data[file] \o <<>> = data[file]
      BY <1>1, <1>2, ConcatEmptySeq
    <3> QED
      BY <1>2, <3>1, <3>2
  <2> QED
    BY <1>1, <2>1, <2>2
<1>4. CASE ~(buffer = <<>> \/ file = NoFile)
  <2>1. Flush(buffer)
    BY <1>4 DEF End
  <2>2. /\ data' \in [Uploads -> Seq(Units)]
        /\ success' \in BOOLEAN
        /\ buffer' = <<>>
        /\ success' => success /\ data'[file] = data[file] \o buffer
        /\ \A u \in Uploads \ {file} : data'[u] = data[u]
    BY <1>1, <1>4, <2>1, FlushTyped DEF IInv
  <2>3. <<>> \in Seq(Units) /\ Len(<<>>) = 0 /\ 0 < BufferSize
    BY EmptySeq, TransferAssumption
  <2> QED
    BY <1>2, <2>2, <2>3
<1> QED
  BY <1>3, <1>4

----------------------------------------------------------------------------

\* The two parts of TypeOK.
Flags == success \in BOOLEAN /\ named \in BOOLEAN /\ uncut \in BOOLEAN
Kinds ==
  /\ pc \in {"off", "deaf", "idle", "body", "answer", "restart"}
  /\ dir \in [Names -> Uploads \cup {NoFile}]
  /\ data \in [Uploads -> Seq(Units)]
  /\ allocated \in [Uploads -> 0..MaxSize]
  /\ file \in Uploads \cup {NoFile}
  /\ destPath \in Names \cup {NoName}
  /\ preallocatedSize \in 0..MaxSize
  /\ buffer \in Seq(Units) /\ Len(buffer) < BufferSize
  /\ current \in 0..MaxUploads
  /\ size \in 0..MaxSize /\ received \in 0..size
  /\ answered \subseteq Uploads

LEMMA TypeParts == TypeOK <=> Flags /\ Kinds
  BY DEF TypeOK, Flags, Kinds

\* The parts of the invariant a step of a request or of the visit has to keep.
Control == Distinct /\ Owned
Contents == Fresh /\ Reserved /\ Whole

\* What a file that was not closed is found to be is a sequence of units too.
LEMMA LossTyped ==
  ASSUME TypeOK, NEW u \in Uploads, MayLose(u)
  PROVE  /\ data' \in [Uploads -> Seq(Units)]
         /\ \A v \in Uploads : data'[v] \in {data[v], <<>>}
<1>1. <<>> \in Seq(Units)
  BY EmptySeq
<1> QED
  BY <1>1 DEF TypeOK, MayLose

LEMMA InitInv == Init => IInv
<1> SUFFICES ASSUME Init PROVE IInv
  OBVIOUS
<1>1. <<>> \in Seq(Units) /\ Len(<<>>) = 0
  BY EmptySeq
<1>2. TypeOK
  <2>1. Flags
    BY DEF Init, Flags
  <2>2. Kinds
    BY <1>1, TransferAssumption DEF Init, Kinds
  <2> QED
    BY <2>1, <2>2, TypeParts
<1>3. Control
  BY DEF Init, Control, Distinct, Owned, Busy
<1>4. Contents
  BY DEF Init, Contents, Fresh, Reserved, Whole
<1> QED
  BY <1>2, <1>3, <1>4 DEF IInv, Control, Contents

LEMMA StepInv == IInv /\ [Next]_vars => IInv'
<1> SUFFICES ASSUME IInv, [Next]_vars PROVE IInv'
  OBVIOUS
<1> USE TransferAssumption
<1>0. TypeOK /\ Control /\ Contents
  BY DEF IInv, Control, Contents
<1>e. <<>> \in Seq(Units) /\ Len(<<>>) = 0 /\ 0 < BufferSize
  BY EmptySeq
<1>p. Flags /\ Kinds
  BY <1>0, TypeParts
<1>q. (TypeOK /\ Control /\ Contents)' => IInv'
  BY DEF IInv, Control, Contents
<1>1. CASE Begin
  <2>1. TypeOK'
    <3>1. Flags'
      BY <1>p, <1>1 DEF Begin, NewUploadState, Flags, request
    <3>2. Kinds'
      BY <1>p, <1>1, <1>e DEF Begin, NewUploadState, Kinds, card, request
    <3> QED
      BY <3>1, <3>2, Zenon DEF TypeOK, Flags, Kinds
  <2>2. Control'
    BY <1>0, <1>1 DEF Begin, NewUploadState, Control, Distinct, Owned, Busy, card, request
  <2>3. Contents'
    BY <1>0, <1>1 DEF Begin, NewUploadState, Contents, Fresh, Reserved, Whole, card, request
  <2> QED
    BY <1>q, <2>1, <2>2, <2>3
<1>2. CASE Leave
  <2>1. TypeOK'
    BY <1>0, <1>2 DEF Leave, TypeOK, card, upload, request
  <2>2. Control'
    BY <1>0, <1>2 DEF Leave, Control, Distinct, Owned, Busy, card, upload, request
  <2>3. Contents'
    BY <1>0, <1>2 DEF Leave, Contents, Fresh, Reserved, Whole, card, upload, request
  <2> QED
    BY <1>q, <2>1, <2>2, <2>3
<1>3. CASE PowerOff
  <2>0. data' \in [Uploads -> Seq(Units)] /\ \A v \in Uploads : data'[v] \in {data[v], <<>>}
    BY <1>0, <1>3, LossTyped DEF PowerOff, TypeOK
  <2>1. TypeOK'
    <3>1. Flags'
      BY <1>p, <1>3 DEF PowerOff, NewUploadState, Flags, request
    <3>2. Kinds'
      BY <1>p, <1>3, <1>e, <2>0 DEF PowerOff, NewUploadState, Kinds, request
    <3> QED
      BY <3>1, <3>2, Zenon DEF TypeOK, Flags, Kinds
  <2>2. Control'
    BY <1>0, <1>3 DEF PowerOff, NewUploadState, Control, Distinct, Owned, Busy, request
  <2>3. Contents'
    BY <1>0, <1>3, <2>0 DEF PowerOff, NewUploadState, Contents, Fresh, Reserved, Whole, request
  <2> QED
    BY <1>q, <2>1, <2>2, <2>3
<1>4. ASSUME NEW s \in 1..MaxSize, StartNameless(s) PROVE IInv'
  <2>0. pc' = "body" /\ ~success' /\ ~named'
    BY <1>4 DEF StartNameless, NextRequest, Reset
  <2>1. TypeOK'
    <3>1. Flags'
      BY <1>4 DEF StartNameless, NextRequest, Reset, Flags
    <3>2. Kinds'
      BY <1>p, <1>4, <1>e DEF StartNameless, NextRequest, Reset, Kinds, card
    <3> QED
      BY <3>1, <3>2, Zenon DEF TypeOK, Flags, Kinds
  <2>2. current' = current + 1 /\ current \in Nat /\ dir' = dir /\ data' = data /\ file' = file
    BY <1>p, <1>4 DEF StartNameless, NextRequest, Kinds, card
  <2>3. Control'
    BY <1>0, <1>p, <2>0, <2>2 DEF Kinds, Uploads, Control, Distinct, Owned, Busy
  <2>4. Contents'
    BY <1>0, <2>0, <2>2 DEF Contents, Fresh, Reserved, Whole, Uploads
  <2> QED
    BY <1>q, <2>1, <2>3, <2>4
<1>5. ASSUME NEW s \in 1..MaxSize, NEW n \in Names, StartFails(s, n) PROVE IInv'
  <2>0. pc' = "body" /\ ~success' /\ named' /\ destPath' = n
    BY <1>5 DEF StartFails, NextRequest, Reset
  <2>1. TypeOK'
    <3>1. Flags'
      BY <1>5 DEF StartFails, NextRequest, Reset, Flags
    <3>2. Kinds'
      BY <1>p, <1>5, <1>e DEF StartFails, NextRequest, Reset, Kinds, card
    <3> QED
      BY <3>1, <3>2, Zenon DEF TypeOK, Flags, Kinds
  <2>2. current' = current + 1 /\ current \in Nat /\ dir' = dir /\ data' = data /\ file' = NoFile
    BY <1>p, <1>5 DEF StartFails, NextRequest, Kinds, card
  <2>3. Control'
    BY <1>0, <1>p, <2>0, <2>2 DEF Kinds, Uploads, Control, Distinct, Owned, Busy
  <2>4. Contents'
    BY <1>0, <2>0, <2>2 DEF Contents, Fresh, Reserved, Whole, Uploads
  <2> QED
    BY <1>q, <2>1, <2>3, <2>4
<1>6. ASSUME NEW s \in 1..MaxSize, NEW n \in Names, NEW reserved \in 0..MaxSize,
             StartOpens(s, n, reserved)
      PROVE IInv'
  <2>0. current' = current + 1 /\ current' \in Uploads /\ current \in Nat
        /\ received' = 0 /\ file' = current' /\ data' = data /\ buffer' = <<>> /\ pc' = "body"
    BY <1>0, <1>6 DEF StartOpens, NextRequest, Reset, TypeOK, Uploads
  <2>1. TypeOK'
    <3>1. Flags'
      BY <1>6 DEF StartOpens, NextRequest, Reset, Flags
    <3>2. Kinds'
      BY <1>p, <1>6, <1>e, <2>0 DEF StartOpens, NextRequest, Reset, Kinds
    <3> QED
      BY <3>1, <3>2, Zenon DEF TypeOK, Flags, Kinds
  <2>2. Control'
    <3>1. success' /\ named' /\ destPath' = n /\ dir' = [dir EXCEPT ![n] = current']
      BY <1>6 DEF StartOpens, Reset
    <3>2. dir \in [Names -> Uploads \cup {NoFile}] /\ current' # NoFile
      BY <1>p, <2>0 DEF Kinds, Uploads
    <3>3. \A x \in Names : dir[x] # NoFile => dir[x] \in Nat /\ dir[x] <= current
      BY <1>0, <1>p DEF Kinds, Uploads, Control, Distinct
    <3>4. Distinct'
      BY <1>0, <2>0, <3>1, <3>2, <3>3 DEF Control, Distinct
    <3>5. Owned'
      BY <2>0, <3>1, <3>2 DEF Owned, Busy, Uploads
    <3> QED
      BY <3>4, <3>5 DEF Control
  <2>3. Contents'
    <3>1. Fresh'
      BY <1>0, <2>0 DEF TypeOK, Contents, Fresh, Uploads
    <3>2. Reserved'
      BY <1>0, <1>6, <2>0 DEF StartOpens, NextRequest, Reset, TypeOK, Reserved
    <3>3. data[current'] = <<>>
      BY <1>0, <2>0 DEF Contents, Fresh
    <3>4. <<>> \o <<>> = Arrived(0)'
      BY DEF Arrived
    <3>5. Whole'
      BY <2>0, <3>3, <3>4 DEF Whole, Arrived
    <3> QED
      BY <3>1, <3>2, <3>5 DEF Contents
  <2> QED
    BY <1>q, <2>1, <2>2, <2>3
<1>7. CASE Chunk
  <2>0. CASE file = NoFile
    <3>1. TypeOK'
      BY <1>0, <1>7, <2>0 DEF Chunk, TypeOK
    <3>2. Control'
      BY <1>0, <1>7, <2>0 DEF Chunk, Control, Distinct, Owned, Busy
    <3>3. Contents'
      BY <1>0, <1>7, <2>0 DEF Chunk, Control, Owned, Busy, Contents, Fresh, Reserved, Whole
    <3> QED
      BY <1>q, <3>1, <3>2, <3>3
  <2>1. CASE file # NoFile
    <3>0. /\ data' \in [Uploads -> Seq(Units)]
          /\ success' \in BOOLEAN
          /\ buffer' \in Seq(Units) /\ Len(buffer') < BufferSize
          /\ success' => success /\ data'[file] \o buffer' = Arrived(received + 1)
          /\ \A u \in Uploads \ {file} : data'[u] = data[u]
      BY <1>7, <2>1, ChunkKeeps
    <3>1. TypeOK'
      BY <1>0, <1>7, <3>0 DEF Chunk, TypeOK
    <3>2. Control'
      BY <1>0, <1>7, <3>0 DEF Chunk, Control, Distinct, Owned, Busy
    <3>3. Fresh'
      BY <1>0, <1>7, <2>1, <3>0 DEF Chunk, TypeOK, Control, Distinct, Contents, Fresh, Uploads
    <3>4. Reserved'
      BY <1>0, <1>7, <3>0 DEF Chunk, Contents, Reserved
    <3>5. Whole'
      BY <1>0, <1>7, <3>0 DEF Chunk, Whole, Arrived
    <3> QED
      BY <1>q, <3>1, <3>2, <3>3, <3>4, <3>5 DEF Contents
  <2> QED
    BY <2>0, <2>1
<1>8. CASE End
  <2>0. /\ data' \in [Uploads -> Seq(Units)]
        /\ success' \in BOOLEAN
        /\ buffer' \in Seq(Units) /\ Len(buffer') < BufferSize
        /\ success' => success /\ data'[file] = Body
        /\ \A u \in Uploads \ {file} : data'[u] = data[u]
    BY <1>8, EndKeeps
  <2>1. TypeOK'
    <3>1. allocated' \in [Uploads -> 0..MaxSize] /\ uncut' \in BOOLEAN
      BY <1>0, <1>8 DEF End, Truncate, TypeOK
    <3> QED
      BY <1>0, <1>8, <2>0, <3>1 DEF End, TypeOK, request
  <2>2. Control'
    BY <1>0, <1>8, <2>0 DEF End, Control, Distinct, Owned, Busy, request
  <2>3. Fresh'
    <3>1. file # NoFile => file <= current
      BY <1>0 DEF Control, Distinct
    <3>2. \A u \in Uploads : u > current => data'[u] = data[u]
      BY <1>p, <2>0, <3>1 DEF Kinds, Uploads
    <3> QED
      BY <1>0, <1>8, <3>2 DEF End, Contents, Fresh, request
  <2>4. Reserved'
    BY <1>0, <1>8, <2>0 DEF End, Truncate, TypeOK, Control, Owned, Busy, Contents, Reserved, request
  <2>5. Whole'
    BY <1>8, <2>0 DEF End, Whole, Body, request
  <2> QED
    BY <1>q, <2>1, <2>2, <2>3, <2>4, <2>5 DEF Contents
<1>9. CASE Abort
  <2>1. TypeOK'
    BY <1>0, <1>9 DEF Abort, TypeOK, request
  <2>2. Control'
    BY <1>0, <1>9 DEF Abort, Control, Distinct, Owned, Busy, request
  <2>3. Contents'
    BY <1>0, <1>9 DEF Abort, Contents, Fresh, Reserved, Whole, request
  <2> QED
    BY <1>q, <2>1, <2>2, <2>3
<1>10. CASE SendUploadResponse
  <2>0. answered' \subseteq Uploads
    BY <1>0, <1>10 DEF SendUploadResponse, TypeOK, Control, Owned, Busy, Uploads
  <2>1. TypeOK'
    BY <1>0, <1>10, <2>0 DEF SendUploadResponse, TypeOK, card, upload, request
  <2>2. Control'
    BY <1>0, <1>10 DEF SendUploadResponse, Control, Distinct, Owned, Busy, card, upload, request
  <2>3. Contents'
    BY <1>0, <1>10 DEF SendUploadResponse, Contents, Fresh, Reserved, Whole, card, upload, request
  <2> QED
    BY <1>q, <2>1, <2>2, <2>3
<1>11. ASSUME NEW a \in Names, NEW b \in Names, Rename(a, b) PROVE IInv'
  <2>0. data' \in [Uploads -> Seq(Units)] /\ \A v \in Uploads : data'[v] \in {data[v], <<>>}
    BY <1>0, <1>11, LossTyped DEF Rename, TypeOK
  <2>1. TypeOK'
    BY <1>0, <1>11, <2>0 DEF Rename, TypeOK, upload, request
  <2>2. Control'
    BY <1>0, <1>11 DEF Rename, TypeOK, Control, Distinct, Owned, Busy, upload, request
  <2>3. Contents'
    BY <1>0, <1>11, <2>0 DEF Rename, Contents, Fresh, Reserved, Whole, upload, request
  <2> QED
    BY <1>q, <2>1, <2>2, <2>3
<1>12. ASSUME NEW a \in Names, Delete(a) PROVE IInv'
  <2>1. TypeOK'
    BY <1>0, <1>12 DEF Delete, TypeOK, upload, request
  <2>2. Control'
    BY <1>0, <1>12 DEF Delete, TypeOK, Control, Distinct, Owned, Busy, upload, request
  <2>3. Contents'
    BY <1>0, <1>12 DEF Delete, Contents, Fresh, Reserved, Whole, upload, request
  <2> QED
    BY <1>q, <2>1, <2>2, <2>3
<1>13. CASE UNCHANGED vars
  <2>1. TypeOK'
    BY <1>0, <1>13 DEF vars, TypeOK, card, upload, request
  <2>2. Control'
    BY <1>0, <1>13 DEF vars, Control, Distinct, Owned, Busy, card, upload, request
  <2>3. Contents'
    BY <1>0, <1>13 DEF vars, Contents, Fresh, Reserved, Whole, Arrived, Body, card, upload, request
  <2> QED
    BY <1>q, <2>1, <2>2, <2>3
<1> QED
  BY <1>1, <1>2, <1>3, <1>4, <1>5, <1>6, <1>7, <1>8, <1>9, <1>10, <1>11, <1>12, <1>13 DEF Next

THEOREM Invariance == Spec => []IInv
<1> QED
  BY InitInv, StepInv, PTL DEF Spec

\* The handle, the buffer and the card keep their types; the buffer is never full
\* between two units, so that the next always fits.
THEOREM TypeCorrect == Spec => []TypeOK
<1>1. IInv => TypeOK
  BY DEF IInv
<1> QED
  BY <1>1, Invariance, PTL

\* Success is said of whole files only, whatever became of the uploads before.
THEOREM AnswersAreTrue == Spec => []AnswerTrue
<1>1. IInv => AnswerTrue
  BY DEF IInv, Owned, Busy, Reserved, Whole, AnswerTrue
<1> QED
  BY <1>1, Invariance, PTL

\* An upload that has a name touches no other file.
THEOREM OthersAreKept == Spec => OthersKept
<1> DEFINE Kept == pc = "body" /\ named /\ pc' # "off" =>
             \A n \in Names \ {destPath} :
               dir'[n] = dir[n] /\ (dir[n] # NoFile => data'[dir[n]] = data[dir[n]])
<1>1. IInv /\ [Next]_vars => [Kept]_vars
  <2> SUFFICES ASSUME IInv, Next, pc = "body", named, pc' # "off",
                      NEW n \in Names \ {destPath}
               PROVE  dir'[n] = dir[n] /\ (dir[n] # NoFile => data'[dir[n]] = data[dir[n]])
    OBVIOUS
  <2>1. Chunk \/ End \/ Abort
    BY DEF Next, Begin, Leave, PowerOff, StartNameless, StartFails, StartOpens, NextRequest,
           SendUploadResponse, Rename, Delete
  <2>2. dir[n] # NoFile => dir[n] \in Uploads \ {file}
    BY DEF IInv, TypeOK, Distinct, Owned, Busy
  <2>3. CASE Chunk
    <3>1. CASE file = NoFile
      BY <2>3, <3>1 DEF Chunk
    <3>2. CASE file # NoFile
      BY <2>2, <2>3, <3>2, ChunkKeeps DEF Chunk
    <3> QED
      BY <3>1, <3>2
  <2>4. CASE End
    BY <2>2, <2>4, EndKeeps DEF End
  <2>5. CASE Abort
    BY <2>5 DEF Abort
  <2> QED
    BY <2>1, <2>3, <2>4, <2>5
<1> QED
  BY <1>1, Invariance, PTL DEF Spec, OthersKept

=============================================================================
