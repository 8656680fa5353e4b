-------------------------------- MODULE Ota --------------------------------
(***************************************************************************)
(* Updates of the firmware (main/portal.c): the upload that is written to  *)
(* the other partition while it arrives, the download from a URL and the   *)
(* rollback.  All three run in the portal's one task; the power may go at  *)
(* any step.                                                               *)
(*                                                                         *)
(* The body of an upload is a sequence of pieces: the headers of its part, *)
(* the empty line in its two halves, the image - which may hold an empty   *)
(* line itself - and the closing boundary.  esp_ota_* and the boot loader  *)
(* are external: a partition is what was written to it since it was        *)
(* erased, and it is valid when it begins with a whole firmware.           *)
(***************************************************************************)
EXTENDS Integers, SequencesExt

CONSTANTS
  Old, New,   \* two firmwares: sequences of pieces, neither of which begins the other
  Uploads,    \* bodies of uploads: an empty line in each
  Downloads,  \* bodies of downloads
  ChunkMax    \* most pieces of one recv or read

Half1 == "cr"  Half2 == "lf"  \* the halves of an empty line
Part == {"ota_0", "ota_1"}
Other(p) == CHOOSE q \in Part : q # p

VARIABLES
  flash,    \* what each partition holds
  boot,     \* the partition esp_ota_set_boot_partition chose
  running,  \* the partition the firmware was started from
  task,     \* the portal's task: "idle", "upload", "download", or "reboot" in vTaskDelay
  body,     \* what the peer sends
  at,       \* body_received
  skipped,  \* header_skipped
  torn      \* history: the first empty line came in two pieces

vars == <<flash, boot, running, task, body, at, skipped, torn>>

target == Other(running)  \* esp_ota_get_next_update_partition
EmptyLines(s) == {i \in 1..(Len(s) - 1) : s[i] = Half1 /\ s[i + 1] = Half2}
First(s) == CHOOSE i \in EmptyLines(s) : \A j \in EmptyLines(s) : i <= j
Valid(p) == IsPrefix(New, flash[p]) \/ IsPrefix(Old, flash[p])

\* What the proofs assume: the pieces come from some set, and an upload has an empty line.
OtaAssumption(Piece) ==
  /\ Old \in Seq(Piece) /\ New \in Seq(Piece)
  /\ Uploads \subseteq Seq(Piece) /\ Downloads \subseteq Seq(Piece)
  /\ \A b \in Uploads : EmptyLines(b) # {}
  /\ ChunkMax \in Nat

TypeOK ==
  /\ {boot, running} \subseteq Part
  /\ task \in {"idle", "upload", "download", "reboot"}
  /\ at \in 0..Len(body)
  /\ skipped \in BOOLEAN /\ torn \in BOOLEAN

Init ==
  /\ flash = [p \in Part |-> IF p = "ota_0" THEN Old ELSE <<>>]
  /\ boot = "ota_0" /\ running = "ota_0"
  /\ task = "idle" /\ body = <<>> /\ at = 0 /\ skipped = FALSE /\ torn = FALSE

-----------------------------------------------------------------------------
(* A name that ends in _Bug is the definition below it with one defect.    *)

\* What of a chunk is written: all of it once the empty line has been seen, else
\* what follows the empty line in this chunk.
Binary_Bug(chunk) ==  \* the data is taken to start after half the empty line
  IF skipped THEN chunk
  ELSE IF EmptyLines(chunk) = {} THEN <<>>
  ELSE SubSeq(chunk, First(chunk) + 1, Len(chunk))
Binary(chunk) ==
  IF skipped THEN chunk
  ELSE IF EmptyLines(chunk) = {} THEN <<>>
  ELSE SubSeq(chunk, First(chunk) + 2, Len(chunk))

\* POST /ota-upload, up to and with esp_ota_begin.  What came with the request's own
\* headers is the first chunk, and may be empty.
StartUpload ==
  /\ task = "idle"
  /\ \E b \in Uploads : body' = b
  /\ flash' = [flash EXCEPT ![target] = <<>>]
  /\ task' = "upload" /\ at' = 0 /\ skipped' = FALSE /\ torn' = FALSE
  /\ UNCHANGED <<boot, running>>

\* POST /ota-url: the body has no headers of its own.
StartDownload ==
  /\ task = "idle"
  /\ \E b \in Downloads : body' = b
  /\ flash' = [flash EXCEPT ![target] = <<>>]
  /\ task' = "download" /\ at' = 0 /\ skipped' = TRUE /\ torn' = FALSE
  /\ UNCHANGED <<boot, running>>

Receive ==
  /\ task \in {"upload", "download"} /\ at < Len(body)
  /\ \E n \in 1..ChunkMax :
       LET chunk == SubSeq(body, at + 1, at + n)
       IN /\ at + n <= Len(body)
          /\ at' = at + n
          /\ flash' = [flash EXCEPT ![target] = @ \o Binary(chunk)]
          /\ skipped' = (skipped \/ EmptyLines(chunk) # {})
          /\ torn' = (torn \/ (task = "upload" /\ at' = First(body)))
  /\ UNCHANGED <<boot, running, task, body>>

\* recv, read or esp_ota_write fails: esp_ota_abort.
Fail ==
  /\ task \in {"upload", "download"}
  /\ task' = "idle"
  /\ UNCHANGED <<flash, boot, running, body, at, skipped, torn>>

\* esp_ota_end validates the image before the partition is chosen.  A download ends
\* where its peer closes.
Finish ==
  /\ \/ task = "upload" /\ at = Len(body)
     \/ task = "download"
  /\ IF Valid(target) THEN boot' = target /\ task' = "reboot"
     ELSE boot' = boot /\ task' = "idle"
  /\ UNCHANGED <<flash, running, body, at, skipped, torn>>

\* POST /ota-rollback: esp_ota_set_boot_partition validates the image as well.
Rollback_Bug ==  \* does not restart
  /\ task = "idle" /\ Valid(target)
  /\ boot' = target
  /\ UNCHANGED <<flash, running, task, body, at, skipped, torn>>
Rollback ==
  /\ task = "idle" /\ Valid(target)
  /\ boot' = target /\ task' = "reboot"
  /\ UNCHANGED <<flash, running, body, at, skipped, torn>>

\* esp_restart, or the power goes
Restart ==
  /\ running' = boot
  /\ task' = "idle"
  /\ UNCHANGED <<flash, boot, body, at, skipped, torn>>

Next == StartUpload \/ StartDownload \/ Receive \/ Fail \/ Finish \/ Rollback \/ Restart

Spec == Init /\ [][Next]_vars

-----------------------------------------------------------------------------

\* Wherever the power goes, the partition the next boot takes holds a whole firmware:
\* never the one that is being written.
Bootable == Valid(boot)

\* What an upload writes is its image from the first piece on, in whatever chunks it
\* comes and whatever it holds, unless the empty line before it came in two chunks.
ImageReachesFlash ==
  task = "upload" /\ ~torn =>
    flash[target] = SubSeq(body, First(body) + 2, at)

UpdatesAreWhole == Bootable /\ ImageReachesFlash
=============================================================================
