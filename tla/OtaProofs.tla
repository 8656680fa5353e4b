----------------------------- MODULE OtaProofs -----------------------------
(***************************************************************************)
(* What an update may rely on, for every firmware, every body an upload or *)
(* a download may have and every size of the pieces it comes in.           *)
(***************************************************************************)
EXTENDS Ota, SequenceTheorems, WellFoundedInduction, TLAPS

-----------------------------------------------------------------------------
(* The partitions.  Outside of the delay before a restart, the partition   *)
(* that is written to is never the one the next boot takes.                *)

BootInv ==
  /\ boot \in Part /\ running \in Part
  /\ task \in {"idle", "upload", "download", "reboot"}
  /\ task # "reboot" => boot = running
  /\ DOMAIN flash = Part
  /\ Bootable

LEMMA OtherPart ==
  ASSUME NEW p \in Part
  PROVE  Other(p) \in Part /\ Other(p) # p
BY DEF Part, Other

LEMMA BootInit ==
  ASSUME NEW Piece, OtaAssumption(Piece), Init
  PROVE  BootInv
<1>1. IsPrefix(Old, Old)
  BY LenProperties DEF OtaAssumption, IsPrefix
<1>2. flash["ota_0"] = Old
  BY DEF Init, Part
<1>3. QED  BY <1>1, <1>2 DEF Init, BootInv, Bootable, Valid, Part

LEMMA BootStep ==
  ASSUME BootInv, [Next]_vars
  PROVE  BootInv'
<1>1. target \in Part /\ (task # "reboot" => target # boot)
  BY OtherPart DEF BootInv, target
\* Whoever writes to the other partition leaves the chosen one whole.
<1>2. ASSUME NEW s, task # "reboot", flash' = [flash EXCEPT ![target] = s],
             UNCHANGED <<boot, running>>, task' \in {"upload", "download"}
      PROVE  BootInv'
  <2>1. flash'[boot] = flash[boot] /\ DOMAIN flash' = Part
    BY <1>1, <1>2 DEF BootInv
  <2>2. QED  BY <1>2, <2>1 DEF BootInv, Bootable, Valid
<1>3. CASE StartUpload
  BY <1>2, <1>3 DEF StartUpload
<1>4. CASE StartDownload
  BY <1>2, <1>4 DEF StartDownload
<1>5. CASE Receive
  <2>1. PICK n \in 1..ChunkMax :
          flash' = [flash EXCEPT ![target] = @ \o Binary(SubSeq(body, at + 1, at + n))]
    BY <1>5 DEF Receive
  <2>2. QED  BY <1>2, <1>5, <2>1 DEF Receive
<1>6. CASE Fail
  BY <1>6 DEF Fail, BootInv, Bootable, Valid
<1>7. CASE Finish
  BY <1>1, <1>7 DEF Finish, BootInv, Bootable, Valid
<1>8. CASE Rollback
  BY <1>1, <1>8 DEF Rollback, BootInv, Bootable, Valid
<1>9. CASE Restart
  BY <1>9 DEF Restart, BootInv, Bootable, Valid
<1>10. CASE UNCHANGED vars
  BY <1>10 DEF vars, BootInv, Bootable, Valid
<1>11. QED
  BY <1>3, <1>4, <1>5, <1>6, <1>7, <1>8, <1>9, <1>10 DEF Next

\* Wherever the power goes in an upload, a download or a rollback, the partition the
\* next boot takes holds a whole firmware (ota_upload_handler, ota_url_handler,
\* ota_rollback_handler).
THEOREM AlwaysBootable ==
  ASSUME NEW Piece, OtaAssumption(Piece)
  PROVE  Spec => []Bootable
<1>1. Init => BootInv
  BY BootInit
<1>2. BootInv /\ [Next]_vars => BootInv'
  BY BootStep
<1>3. BootInv => Bootable
  BY DEF BootInv
<1>4. QED  BY <1>1, <1>2, <1>3, PTL DEF Spec

-----------------------------------------------------------------------------
(* The image.                                                              *)

LEMMA LeastElement ==
  ASSUME NEW T, T \subseteq Nat, T # {}
  PROVE  \E i \in T : \A j \in T : i <= j
<1>1. PICK i \in T : \A j \in T : <<j, i>> \notin OpToRel(<, Nat)
  BY NatLessThanWellFounded, WFMin
<1>2. \A j \in T : ~(j < i)
  BY <1>1 DEF OpToRel
<1>3. QED  BY <1>2

\* The first empty line of a text is one, and there is none before it.
LEMMA FirstIsFirst ==
  ASSUME NEW Piece, NEW s \in Seq(Piece), EmptyLines(s) # {}
  PROVE  /\ First(s) \in EmptyLines(s) /\ First(s) \in 1..(Len(s) - 1)
         /\ \A j \in EmptyLines(s) : First(s) <= j
<1>1. EmptyLines(s) \subseteq Nat
  BY DEF EmptyLines
<1>2. \E i \in EmptyLines(s) : \A j \in EmptyLines(s) : i <= j
  BY <1>1, LeastElement
<1>3. First(s) \in EmptyLines(s) /\ \A j \in EmptyLines(s) : First(s) <= j
  BY <1>2 DEF First
<1>4. QED  BY <1>3 DEF EmptyLines

\* The empty lines of a chunk are those of the text that lie in it.
LEMMA LinesOfChunk ==
  ASSUME NEW Piece, NEW s \in Seq(Piece), NEW a \in Nat, NEW n \in Nat, a + n <= Len(s)
  PROVE  LET chunk == SubSeq(s, a + 1, a + n) IN
         /\ chunk \in Seq(Piece) /\ Len(chunk) = n
         /\ \A i \in Nat : i \in EmptyLines(chunk) <=> i \in 1..(n - 1) /\ a + i \in EmptyLines(s)
<1> DEFINE chunk == SubSeq(s, a + 1, a + n)
<1>1. Len(s) \in Nat /\ \A i \in 1..Len(s) : s[i] \in Piece
  BY LenProperties, ElementOfSeq
<1>2. /\ chunk \in Seq(Piece)
      /\ Len(chunk) = IF a + 1 <= a + n THEN a + n - (a + 1) + 1 ELSE 0
      /\ \A i \in 1..(a + n - (a + 1) + 1) : chunk[i] = s[a + 1 + i - 1]
  <2>1. \A i \in (a + 1)..(a + n) : s[i] \in Piece
    BY <1>1
  <2>2. QED  BY <2>1, SubSeqProperties, a + 1 \in Int, a + n \in Int
<1>3. Len(chunk) = n /\ \A i \in 1..n : chunk[i] = s[a + i]
  BY <1>2
<1> HIDE DEF chunk
<1>4. ASSUME NEW i \in Nat
      PROVE  i \in EmptyLines(chunk) <=> i \in 1..(n - 1) /\ a + i \in EmptyLines(s)
  <2>1. i \in 1..(n - 1) => chunk[i] = s[a + i] /\ chunk[i + 1] = s[a + i + 1] /\ a + i \in 1..(Len(s) - 1)
    BY <1>1, <1>3
  <2>2. QED  BY <1>3, <2>1 DEF EmptyLines
<1>5. QED  BY <1>2, <1>3, <1>4 DEF chunk

-----------------------------------------------------------------------------
(* While an upload arrives, nothing is written before its first empty line *)
(* is over, and what follows it is, from then on.                          *)

Line == First(body)
UploadInv ==
  task = "upload" =>
    /\ body \in Uploads
    /\ at \in 0..Len(body)
    /\ at < Line => ~skipped /\ flash[target] = <<>>
    /\ at = Line => torn
    /\ at > Line /\ ~torn => skipped /\ flash[target] = SubSeq(body, Line + 2, at)

LEMMA UploadReceives ==
  ASSUME NEW Piece, OtaAssumption(Piece), BootInv, UploadInv, Receive, task = "upload"
  PROVE  UploadInv'
<1>1. PICK n \in 1..ChunkMax :
        /\ at + n <= Len(body) /\ at' = at + n
        /\ flash' = [flash EXCEPT ![target] = @ \o Binary(SubSeq(body, at + 1, at + n))]
        /\ skipped' = (skipped \/ EmptyLines(SubSeq(body, at + 1, at + n)) # {})
        /\ torn' = (torn \/ (task = "upload" /\ at' = First(body)))
  BY DEF Receive
<1> DEFINE chunk == SubSeq(body, at + 1, at + n)
<1>2. /\ body' = body /\ task' = task /\ running' = running /\ body \in Uploads
      /\ body \in Seq(Piece) /\ EmptyLines(body) # {}
      /\ at \in Nat /\ n \in Nat /\ n > 0 /\ at + n <= Len(body) /\ Len(body) \in Nat
  BY <1>1, LenProperties DEF Receive, UploadInv, OtaAssumption
<1>3. /\ Line \in EmptyLines(body) /\ Line \in 1..(Len(body) - 1)
      /\ \A j \in EmptyLines(body) : Line <= j
  BY <1>2, FirstIsFirst DEF Line
<1>4. Line' = Line /\ target' = target /\ flash'[target] = flash[target] \o Binary(chunk)
  <2>1. target \in DOMAIN flash
    BY OtherPart DEF BootInv, target
  <2>2. QED  BY <1>1, <1>2, <2>1 DEF Line, target
<1>5. /\ chunk \in Seq(Piece) /\ Len(chunk) = n
      /\ \A i \in Nat : i \in EmptyLines(chunk) <=> i \in 1..(n - 1) /\ at + i \in EmptyLines(body)
  BY <1>2, LinesOfChunk
<1> HIDE DEF chunk
<1>6. EmptyLines(chunk) \subseteq Nat
  BY <1>5, LenProperties DEF EmptyLines
<1>7. at' \in 0..Len(body')
  BY <1>1, <1>2
<1>8. CASE at + n < Line
  <2>1. EmptyLines(chunk) = {}
    BY <1>2, <1>3, <1>5, <1>6, <1>8
  <2>2. ~skipped /\ flash[target] = <<>>
    BY <1>2, <1>3, <1>8 DEF UploadInv
  <2>3. Binary(chunk) = <<>> /\ ~skipped'
    BY <1>1, <2>1, <2>2 DEF Binary, chunk
  <2>4. flash'[target] = <<>>
    BY <1>4, <2>2, <2>3
  <2>5. QED  BY <1>1, <1>2, <1>3, <1>4, <1>7, <1>8, <2>3, <2>4 DEF UploadInv
<1>9. CASE at + n = Line
  <2>1. torn' /\ at' = Line
    BY <1>1, <1>2, <1>9 DEF Line
  <2>2. QED  BY <1>2, <1>3, <1>4, <1>7, <2>1 DEF UploadInv
<1>10. CASE at + n > Line /\ at < Line
  <2>1. Line - at \in Nat /\ Line - at \in EmptyLines(chunk)
    BY <1>2, <1>3, <1>5, <1>10
  <2>2. First(chunk) = Line - at
    <3>1. First(chunk) \in EmptyLines(chunk) /\ \A j \in EmptyLines(chunk) : First(chunk) <= j
      BY <1>5, <2>1, FirstIsFirst
    <3>2. First(chunk) \in Nat /\ First(chunk) <= Line - at
      BY <1>6, <2>1, <3>1
    <3>3. Line <= at + First(chunk)
      BY <1>3, <1>5, <3>1, <3>2
    <3>4. QED  BY <1>2, <1>3, <3>2, <3>3
  <2>3. ~skipped /\ flash[target] = <<>>
    BY <1>2, <1>10 DEF UploadInv
  <2>4. Binary(chunk) = SubSeq(chunk, Line - at + 2, n)
    BY <1>5, <2>1, <2>2, <2>3 DEF Binary
  <2>5. SubSeq(chunk, Line - at + 2, n) = SubSeq(body, Line + 2, at + n)
    <3>1. CASE Line - at + 2 > n
      BY <1>2, <1>3, <3>1, SubSeqEmpty
    <3>2. CASE Line - at + 2 <= n
      <4> DEFINE i == at + 1  j == at + n  m == Line - at + 2
      <4>1. i \in 1..Len(body) /\ j \in 1..Len(body) /\ m \in 1..(j - i + 1) /\ n \in 1..(j - i + 1)
        BY <1>2, <1>3, <1>10, <3>2
      <4> HIDE DEF i, j, m
      <4>2. SubSeq(SubSeq(body, i, j), m, n) = SubSeq(body, i + m - 1, i + n - 1)
        BY <1>2, <4>1, SubSeqOfSubSeq
      <4>3. i + m - 1 = Line + 2 /\ i + n - 1 = at + n
        BY <1>2, <1>3 DEF i, m
      <4>4. QED  BY <4>2, <4>3 DEF i, j, m, chunk
    <3>3. QED  BY <1>2, <1>3, <3>1, <3>2
  <2>6. SubSeq(body, Line + 2, at + n) \in Seq(Piece)
    <3>1. \A i \in (Line + 2)..(at + n) : body[i] \in Piece
      BY <1>2, <1>3, ElementOfSeq
    <3>2. QED  BY <1>2, <1>3, <3>1, SubSeqProperties
  <2>7. flash'[target] = SubSeq(body, Line + 2, at + n)
    BY <1>4, <2>3, <2>4, <2>5, <2>6, ConcatEmptySeq
  <2>8. skipped'
    BY <1>1, <2>1 DEF chunk
  <2>9. QED  BY <1>1, <1>2, <1>3, <1>4, <1>7, <1>10, <2>7, <2>8 DEF UploadInv
<1>11. CASE at >= Line
  <2>1. ASSUME ~torn' PROVE skipped' /\ flash'[target] = SubSeq(body, Line + 2, at + n)
    <3>1. at > Line /\ skipped /\ flash[target] = SubSeq(body, Line + 2, at)
      <4>1. ~torn /\ at # Line
        BY <1>1, <1>2, <2>1 DEF UploadInv
      <4>2. at > Line
        BY <1>2, <1>3, <1>11, <4>1
      <4>3. QED  BY <1>2, <4>1, <4>2 DEF UploadInv
    <3>2. Binary(chunk) = chunk
      BY <3>1 DEF Binary
    <3>3. SubSeq(body, Line + 2, at) \o SubSeq(body, at + 1, at + n) = SubSeq(body, Line + 2, at + n)
      <4> DEFINE m == Line + 2  k == at  l == at + n
      <4>1. m \in 1..(Len(body) + 1) /\ k \in (m - 1)..Len(body) /\ l \in k..Len(body)
        BY <1>2, <1>3, <3>1
      <4> HIDE DEF m, k, l
      <4>2. SubSeq(body, m, k) \o SubSeq(body, k + 1, l) = SubSeq(body, m, l)
        BY <1>2, <4>1, ConcatAdjacentSubSeq
      <4>3. QED  BY <4>2 DEF m, k, l
    <3>4. QED  BY <1>1, <1>4, <3>1, <3>2, <3>3 DEF chunk
  <2>2. QED  BY <1>1, <1>2, <1>3, <1>4, <1>7, <1>11, <2>1 DEF UploadInv
<1>12. QED  BY <1>2, <1>3, <1>8, <1>9, <1>10, <1>11

LEMMA UploadStep ==
  ASSUME NEW Piece, OtaAssumption(Piece), BootInv, UploadInv, [Next]_vars
  PROVE  UploadInv'
<1>1. CASE StartUpload
  <2>1. /\ body' \in Uploads /\ at' = 0 /\ ~skipped' /\ ~torn' /\ target' = target
        /\ flash' = [flash EXCEPT ![target] = <<>>]
    BY <1>1 DEF StartUpload, target
  <2>2. body' \in Seq(Piece) /\ EmptyLines(body') # {}
    BY <2>1 DEF OtaAssumption
  <2>3. First(body') \in 1..(Len(body') - 1) /\ Len(body') \in Nat
    BY <2>2, FirstIsFirst, LenProperties
  <2>4. flash'[target'] = <<>>
    BY <2>1, OtherPart DEF BootInv, target
  <2>5. QED  BY <2>1, <2>3, <2>4 DEF UploadInv, Line
<1>2. CASE Receive /\ task = "upload"
  BY <1>2, UploadReceives
<1>3. CASE Receive /\ task # "upload"
  BY <1>3 DEF Receive, UploadInv
<1>4. CASE StartDownload \/ Fail \/ Finish \/ Rollback \/ Restart
  BY <1>4 DEF StartDownload, Fail, Finish, Rollback, Restart, UploadInv
<1>5. CASE UNCHANGED vars
  BY <1>5 DEF vars, UploadInv, Line, target
<1>6. QED  BY <1>1, <1>2, <1>3, <1>4, <1>5 DEF Next

\* The partition the next boot takes is whole, and what an upload writes is its image,
\* however the body is cut into chunks, unless the cut is in the empty line before it
\* (ota_upload_handler).
THEOREM UpdatesSafe ==
  ASSUME NEW Piece, OtaAssumption(Piece)
  PROVE  Spec => []UpdatesAreWhole
<1>1. Init => BootInv /\ UploadInv
  BY BootInit DEF Init, UploadInv
<1>2. BootInv /\ UploadInv /\ [Next]_vars => BootInv' /\ UploadInv'
  BY BootStep, UploadStep
<1>3. BootInv /\ UploadInv => UpdatesAreWhole
  <2>1. SUFFICES ASSUME BootInv, UploadInv, task = "upload", ~torn
                 PROVE  flash[target] = SubSeq(body, First(body) + 2, at)
    BY DEF BootInv, UpdatesAreWhole, ImageReachesFlash
  <2>2. First(body) \in Nat /\ at \in Nat
    BY <2>1, FirstIsFirst DEF UploadInv, OtaAssumption
  <2>3. CASE at > First(body)
    BY <2>1, <2>3 DEF UploadInv, Line
  <2>4. CASE at <= First(body)
    <3>1. SubSeq(body, First(body) + 2, at) = <<>>
      BY <2>2, <2>4, SubSeqEmpty
    <3>2. at < First(body)
      BY <2>1, <2>2, <2>4 DEF UploadInv, Line
    <3>3. QED  BY <2>1, <3>1, <3>2 DEF UploadInv, Line
  <2>5. QED  BY <2>2, <2>3, <2>4
<1>4. QED  BY <1>1, <1>2, <1>3, PTL DEF Spec
-----------------------------------------------------------------------------
(* The types: no more is received than is sent.                            *)

Received == Len(body) \in Nat /\ at \in 0..Len(body) /\ skipped \in BOOLEAN /\ torn \in BOOLEAN

LEMMA ReceivedStep ==
  ASSUME NEW Piece, OtaAssumption(Piece), Received, [Next]_vars
  PROVE  Received'
<1>1. \A b \in Uploads \cup Downloads : Len(b) \in Nat
  BY LenProperties DEF OtaAssumption
<1>2. CASE StartUpload \/ StartDownload
  <2>1. body' \in Uploads \cup Downloads /\ at' = 0
    BY <1>2 DEF StartUpload, StartDownload
  <2>2. Len(body') \in Nat /\ at' \in 0..Len(body')
    BY <1>1, <2>1
  <2>3. skipped' \in BOOLEAN /\ torn' \in BOOLEAN
    BY <1>2 DEF StartUpload, StartDownload
  <2>4. QED  BY <2>2, <2>3 DEF Received
<1>3. CASE Receive
  <2>1. PICK n \in 1..ChunkMax : at + n <= Len(body) /\ at' = at + n
    BY <1>3 DEF Receive
  <2>2. at' \in 0..Len(body) /\ body' = body
    BY <1>3, <2>1 DEF Receive, Received, OtaAssumption
  <2>3. skipped' \in BOOLEAN /\ torn' \in BOOLEAN
    BY <1>3 DEF Receive
  <2>4. QED  BY <2>2, <2>3 DEF Received
<1>4. CASE UNCHANGED <<body, at, skipped, torn>>
  BY <1>4 DEF Received
<1>5. QED
  BY <1>2, <1>3, <1>4 DEF Next, Fail, Finish, Rollback, Restart, vars

\* Every variable keeps its type.
THEOREM TypeCorrect ==
  ASSUME NEW Piece, OtaAssumption(Piece)
  PROVE  Spec => []TypeOK
<1>1. Init => BootInv /\ Received
  <2>1. SUFFICES ASSUME Init PROVE Received
    BY BootInit
  <2>2. body = <<>> /\ at = 0 /\ skipped = FALSE /\ torn = FALSE
    BY <2>1 DEF Init
  <2>3. Len(body) \in Nat /\ at \in 0..Len(body)
    BY <2>2
  <2>4. QED  BY <2>2, <2>3 DEF Received
<1>2. BootInv /\ Received /\ [Next]_vars => BootInv' /\ Received'
  BY BootStep, ReceivedStep
<1>3. BootInv /\ Received => TypeOK
  BY DEF BootInv, Received, TypeOK
<1>4. QED  BY <1>1, <1>2, <1>3, PTL DEF Spec
=============================================================================
