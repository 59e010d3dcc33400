------------------------------- MODULE Upload -------------------------------
(***************************************************************************)
(* The record subcommand: upload.py picks a video and PUTs it, retrying,   *)
(* in a process of its own, while the cdp process goes on moving videos    *)
(* into the directory (shutil.move: a rename, or between file systems a    *)
(* copy, which a crash may cut short).  A recording's number is its rank   *)
(* in the order of ids, the order they were started in; a video is a       *)
(* sequence of chunks.                                                     *)
(***************************************************************************)
EXTENDS Naturals, Sequences, FiniteSetsExt

CONSTANTS Recordings, \* recordings, numbered 1 .. Recordings as started
          Chunks,     \* chunks of a video
          Attempts    \* _ATTEMPTS

ASSUME UploadAssumption ==
    /\ Recordings \in Nat
    /\ {Chunks, Attempts} \subseteq Nat \ {0}

VARIABLES
    sameFs,    \* whether frames and videos are on one file system
    listed,    \* recordings that have an mp4 in the directory
    size,      \* size[r]: chunks in that file
    pc,        \* run_record: pick, open, sending, waiting, exited
    picked,    \* the recording picked, 0 before
    length,    \* its size when it was picked, the Content-Length
    attempt,   \* attempt
    body,      \* chunks the open file has still to give
    received,  \* what the server has received in this attempt
    object,    \* what the bucket holds
    exitCode,  \* 2 until the process ends
    stderr     \* whether something was printed there

dirVars == <<sameFs, listed, size>>
serverVars == <<received, object>>
exitVars == <<exitCode, stderr>>
uploadVars == <<dirVars, pc, picked, length, attempt, body, serverVars, exitVars>>

Prefix(n) == [i \in 1..n |-> i]

UploadInit ==
    /\ sameFs \in BOOLEAN /\ listed = {} /\ size = [r \in 1..Recordings |-> 0]
    /\ pc = "pick" /\ picked = 0 /\ length = 0
    /\ attempt = 1 /\ body = <<>> /\ received = <<>> /\ object = <<>>
    /\ exitCode = 2 /\ stderr = FALSE

(* The cdp process finalizes a recording; encodes end in any order.        *)
Finalize(r) ==
    /\ r \notin listed /\ listed' = listed \cup {r}
    /\ size' = IF sameFs THEN [size EXCEPT ![r] = Chunks] ELSE size
    /\ UNCHANGED <<sameFs, pc, picked, length, attempt, body, serverVars, exitVars>>

Copy(r) ==
    /\ r \in listed /\ size[r] < Chunks
    /\ size' = [size EXCEPT ![r] = @ + 1]
    /\ UNCHANGED <<sameFs, listed, pc, picked, length, attempt, body, serverVars, exitVars>>

-----------------------------------------------------------------------------
Exit(code) ==
    /\ pc' = "exited" /\ exitCode' = code
    /\ stderr' = (stderr \/ code # 0)

(* newest_recording, the greatest id, and its size.                        *)
Newest == Max(listed)

Pick ==
    /\ pc = "pick"
    /\ IF listed = {}
       THEN Exit(1) /\ UNCHANGED <<picked, length>>
       ELSE /\ picked' = Newest /\ length' = size[Newest]
            /\ IF length' = 0 THEN Exit(1) ELSE pc' = "open" /\ UNCHANGED exitVars
    /\ UNCHANGED <<dirVars, attempt, body, serverVars>>

(* An attempt begins: the file is opened again, and read as far as the     *)
(* Content-Length.                                                         *)
Continued == IF attempt = 1 THEN Prefix(length) ELSE body         \* mutant
Reopened == Prefix(length)

Open ==
    /\ pc = "open" /\ pc' = "sending"
    /\ body' = Reopened /\ received' = <<>>
    /\ UNCHANGED <<dirVars, picked, length, attempt, object, exitVars>>

SendChunk ==
    /\ pc = "sending" /\ body # <<>>
    /\ body' = Tail(body) /\ received' = Append(received, Head(body))
    /\ UNCHANGED <<dirVars, pc, picked, length, attempt, object, exitVars>>

(* The server stores what it has been sent; its answer is still out.       *)
Store ==
    /\ pc = "sending" /\ body = <<>>
    /\ pc' = "waiting" /\ object' = received
    /\ UNCHANGED <<dirVars, picked, length, attempt, body, received, exitVars>>

Notice == stderr' = stderr

(* Try again, unless this was the last attempt.                            *)
RetryForever == pc' = "open" /\ Notice /\ UNCHANGED <<attempt, exitCode>>  \* mutant
Retry ==
    IF attempt < Attempts
    THEN /\ pc' = "open" /\ attempt' = attempt + 1
         /\ Notice /\ UNCHANGED exitCode
    ELSE Exit(1) /\ UNCHANGED attempt

Accepted ==
    /\ pc = "waiting"
    /\ Exit(0)
    /\ UNCHANGED <<dirVars, picked, length, attempt, body, serverVars>>

(* A 4xx other than 429: the URL itself is wrong.                          *)
GiveUp == Exit(1) /\ UNCHANGED attempt

Rejected ==
    /\ pc = "sending"
    /\ GiveUp
    /\ UNCHANGED <<dirVars, picked, length, body, serverVars>>

(* 429, 5xx, a connection error or a timeout, whether or not the object    *)
(* has been stored by then.                                                *)
Broken ==
    /\ pc \in {"sending", "waiting"}
    /\ Retry
    /\ UNCHANGED <<dirVars, picked, length, body, serverVars>>

Send == Pick \/ Open \/ SendChunk \/ Store \/ Accepted \/ Rejected \/ Broken

UploadNext == Send \/ \E r \in 1..Recordings : Finalize(r) \/ Copy(r)

UploadSpec == UploadInit /\ [][UploadNext]_uploadVars

-----------------------------------------------------------------------------
(* The caller, a machine exec, has the exit status and stderr to go by.    *)
(* Status 0 means that the bucket holds the video as it was when it was    *)
(* picked, all of it if it was moved in by a rename, whatever earlier      *)
(* attempts have left there; output on stderr means failure, so a run that *)
(* recovers leaves none (upload.py:6-8, 53-79, recording.py:353,           *)
(* README.md:85-92).                                                       *)
StoredWhole ==
    /\ object \in {<<>>, Prefix(length)}
    /\ exitCode = 0 => object = Prefix(IF sameFs THEN Chunks ELSE length)
QuietOnSuccess == stderr => exitCode = 1
TellsTheTruth == StoredWhole /\ QuietOnSuccess

(* Whatever the server answers, the process ends: its caller is a machine  *)
(* exec that waits for the exit status (upload.py:6-8, 57, 82).            *)
Ends == <>(pc = "exited")
=============================================================================
