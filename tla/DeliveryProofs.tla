--------------------------- MODULE DeliveryProofs ---------------------------
(***************************************************************************)
(* Theorems about Upload, for any number of recordings, chunks and         *)
(* attempts, about Screencast, for any window, hold times, number of       *)
(* frames and time, and about Delivery, their composition.                 *)
(***************************************************************************)
EXTENDS Delivery, FiniteSetTheorems, WellFoundedInduction, TLAPS

-----------------------------------------------------------------------------
(* Upload                                                                  *)

(* The types the argument needs.                                           *)
Typed ==
    /\ sameFs \in BOOLEAN /\ listed \subseteq 1..Recordings
    /\ size \in [1..Recordings -> 0..Chunks]
    /\ sameFs => \A r \in listed : size[r] = Chunks
    /\ pc \in {"pick", "open", "sending", "waiting", "exited"}
    /\ length \in 0..Chunks

(* What has gone out in this attempt and what is still to go make up the   *)
(* file as it was when it was picked.                                      *)
Pieces ==
    /\ pc # "pick" /\ sameFs /\ length # 0 => length = Chunks
    /\ pc \in {"open", "sending", "waiting"} => length # 0
    /\ pc = "sending" => /\ received \in Seq(Nat) /\ body \in Seq(Nat)
                         /\ Len(received) + Len(body) = length
                         /\ \A i \in 1..Len(received) : received[i] = i
                         /\ \A i \in 1..Len(body) : body[i] = i + Len(received)
    /\ pc = "waiting" => object = Prefix(length)
    /\ pc # "exited" => exitCode = 2 /\ ~stderr
    /\ pc = "pick" => object = <<>> /\ length = 0

IInv == Typed /\ Pieces /\ TellsTheTruth

(* A non-empty set of recordings has a newest one: the recordings after it *)
(* are the fewest.                                                         *)
LEMMA NewestIsOne ==
    ASSUME NEW S, S \subseteq 1..Recordings, S # {} PROVE Max(S) \in S
<1> DEFINE After(r) == {q \in 1..Recordings : q > r}
           T == {After(r) : r \in S}
           Order == StrictSubsetOrdering(1..Recordings)
           Parts == FiniteSubsetsOf(1..Recordings)
<1>1. IsFiniteSet(1..Recordings)
    BY FS_Interval, UploadAssumption
<1>2. IsWellFoundedOn(Order, Parts)
    BY FS_StrictSubsetOrderingWellFounded
<1>3. T \subseteq Parts /\ T # {}
  <2>1. \A r \in S : After(r) \subseteq 1..Recordings /\ IsFiniteSet(After(r))
      BY <1>1, FS_Subset
  <2> QED BY <2>1 DEF FiniteSubsetsOf
<1>4. PICK x \in T : \A y \in T : ~(<<y, x>> \in Order)
  <2> HIDE DEF T, Order, Parts
  <2> QED BY <1>2, <1>3, WFMin
<1>5. PICK r \in S : x = After(r)
    BY <1>4
<1>6. ASSUME NEW q \in S, q > r PROVE FALSE
  <2>1. After(q) \subseteq After(r) /\ After(q) # After(r)
      BY <1>6
  <2>2. <<After(q), x>> \in Order
      BY <1>5, <2>1 DEF StrictSubsetOrdering
  <2> QED BY <1>4, <2>2
<1>7. \A q \in S : r >= q
    BY <1>6, UploadAssumption
<1> QED BY <1>7 DEF Max

LEMMA InitInv == UploadInit => IInv
<1> SUFFICES ASSUME UploadInit PROVE IInv
    OBVIOUS
<1>1. Typed
    BY UploadAssumption DEF UploadInit, Typed
<1>2. Pieces
    BY DEF UploadInit, Pieces
<1>3. TellsTheTruth
    BY DEF UploadInit, TellsTheTruth, StoredWhole, QuietOnSuccess
<1> QED BY <1>1, <1>2, <1>3 DEF IInv

(* The directory fills up, whatever the upload is doing.                   *)
LEMMA DirectoryInv ==
    ASSUME IInv, NEW r \in 1..Recordings, Finalize(r) \/ Copy(r) PROVE IInv'
<1>1. UNCHANGED <<sameFs, pc, picked, length, attempt, body, serverVars, exitVars>>
    BY DEF Finalize, Copy
<1>2. Typed'
  <2>1. CASE Finalize(r)
      BY <1>1, <2>1, UploadAssumption DEF IInv, Typed, Finalize
  <2>2. CASE Copy(r)
      BY <1>1, <2>2, UploadAssumption DEF IInv, Typed, Copy
  <2> QED BY <2>1, <2>2
<1>3. Pieces' /\ TellsTheTruth'
    BY <1>1 DEF IInv, Pieces, TellsTheTruth, StoredWhole, QuietOnSuccess, serverVars, exitVars
<1> QED BY <1>2, <1>3 DEF IInv

LEMMA PickInv == ASSUME IInv, Pick PROVE IInv'
<1>1. Typed /\ Pieces /\ StoredWhole /\ QuietOnSuccess
    BY DEF IInv, TellsTheTruth
<1>2. object = <<>> /\ UNCHANGED <<sameFs, listed, size, object>> /\ exitCode = 2 /\ ~stderr
    BY <1>1 DEF Pick, Pieces, dirVars, serverVars
<1>3. CASE listed = {}
  <2>1. length' = length /\ pc' = "exited" /\ exitCode' = 1
      BY <1>3 DEF Pick, Exit
  <2>2. Typed' /\ Pieces'
      BY <1>1, <1>2, <2>1 DEF Typed, Pieces
  <2>3. TellsTheTruth'
      BY <1>1, <1>2, <2>1 DEF TellsTheTruth, StoredWhole, QuietOnSuccess
  <2> QED BY <2>2, <2>3 DEF IInv
<1>4. CASE listed # {}
  <2>1. Newest \in listed
      BY <1>1, <1>4, NewestIsOne DEF Typed, Newest
  <2>2. length' = size[Newest] /\ length' \in 0..Chunks /\ (sameFs => length' = Chunks)
      BY <1>1, <1>4, <2>1 DEF Pick, Typed
  <2>3. \/ length' = 0 /\ pc' = "exited" /\ exitCode' = 1
        \/ length' # 0 /\ pc' = "open" /\ UNCHANGED exitVars
      BY <1>4 DEF Pick, Exit
  <2>4. Typed' /\ Pieces'
      BY <1>1, <1>2, <2>2, <2>3 DEF Typed, Pieces, exitVars
  <2>5. TellsTheTruth'
      BY <1>1, <1>2, <2>3 DEF TellsTheTruth, StoredWhole, QuietOnSuccess, exitVars
  <2> QED BY <2>4, <2>5 DEF IInv
<1> QED BY <1>3, <1>4

(* The steps of an attempt, and how it ends.                               *)
LEMMA AttemptInv ==
    ASSUME IInv, Open \/ SendChunk \/ Store \/ Accepted \/ Rejected \/ Broken
    PROVE  IInv'
<1>1. Typed /\ Pieces /\ StoredWhole /\ QuietOnSuccess
    BY DEF IInv, TellsTheTruth
<1>2. UNCHANGED <<sameFs, listed, size, length>>
    BY DEF Open, SendChunk, Store, Accepted, Rejected, Broken, dirVars
<1>3. pc' \in {"open", "sending", "waiting", "exited"}
    BY DEF Open, SendChunk, Store, Accepted, Rejected, Broken, Exit, GiveUp, Retry
<1>4. Typed'
    BY <1>1, <1>2, <1>3 DEF Typed
<1>5. CASE Open
  <2>1. /\ pc = "open" /\ pc' = "sending" /\ body' = Prefix(length) /\ received' = <<>>
        /\ UNCHANGED <<object, exitCode, stderr>>
      BY <1>5 DEF Open, Reopened, exitVars
  <2>2. /\ body' \in Seq(Nat) /\ Len(body') = length
        /\ \A i \in 1..Len(body') : body'[i] = i
      BY <1>1, <2>1 DEF Typed, Prefix
  <2>3. received' \in Seq(Nat) /\ Len(received') = 0
      BY <2>1
  <2>4. Pieces'
      BY <1>1, <1>2, <2>1, <2>2, <2>3 DEF Typed, Pieces
  <2>5. TellsTheTruth'
      BY <1>1, <1>2, <2>1 DEF TellsTheTruth, StoredWhole, QuietOnSuccess, Prefix
  <2> QED BY <1>4, <2>4, <2>5 DEF IInv
<1>6. CASE SendChunk
  <2>1. /\ pc = "sending" /\ pc' = "sending" /\ body # <<>>
        /\ body' = Tail(body) /\ received' = Append(received, Head(body))
        /\ UNCHANGED <<object, exitCode, stderr>>
      BY <1>6 DEF SendChunk, exitVars
  <2>2. /\ body \in Seq(Nat) /\ received \in Seq(Nat)
        /\ Len(received) + Len(body) = length
        /\ \A i \in 1..Len(received) : received[i] = i
        /\ \A i \in 1..Len(body) : body[i] = i + Len(received)
      BY <1>1, <2>1 DEF Pieces
  <2>3. /\ body' \in Seq(Nat) /\ Len(body') = Len(body) - 1 /\ Len(body) \in Nat \ {0}
        /\ \A i \in 1..Len(body') : body'[i] = body[i + 1]
        /\ Head(body) = body[1]
      BY <2>1, <2>2
  <2>4. /\ received' \in Seq(Nat) /\ Len(received') = Len(received) + 1
        /\ Len(received) \in Nat
        /\ \A i \in 1..Len(received) : received'[i] = received[i]
        /\ received'[Len(received) + 1] = body[1]
      BY <2>1, <2>2, <2>3
  <2>5. \A i \in 1..Len(received') : received'[i] = i
    <3>1. body[1] = Len(received) + 1
        BY <2>2, <2>3, <2>4
    <3>2. ASSUME NEW i \in 1..Len(received'), i # Len(received) + 1
          PROVE  i \in 1..Len(received)
        BY <2>4, <3>2
    <3> QED BY <2>2, <2>4, <3>1, <3>2
  <2>6. \A i \in 1..Len(body') : body'[i] = i + Len(received')
      BY <2>2, <2>3, <2>4
  <2>7. Len(received') + Len(body') = length
    <3>1. length \in Nat /\ Len(received) \in Nat /\ Len(body) \in Nat
        BY <1>1, <2>3, <2>4 DEF Typed
    <3>2. Len(received) + Len(body) = length
        BY <2>2
    <3>3. Len(body') = Len(body) - 1 /\ Len(received') = Len(received) + 1
        BY <2>3, <2>4
    <3> QED BY ONLY <3>1, <3>2, <3>3
  <2>8. Pieces'
      BY <1>1, <1>2, <2>1, <2>3, <2>4, <2>5, <2>6, <2>7 DEF Pieces
  <2>9. TellsTheTruth'
      BY <1>1, <1>2, <2>1 DEF TellsTheTruth, StoredWhole, QuietOnSuccess, Prefix
  <2> QED BY <1>4, <2>8, <2>9 DEF IInv
<1>7. CASE Store
  <2>1. /\ pc = "sending" /\ pc' = "waiting" /\ body = <<>> /\ object' = received
        /\ UNCHANGED <<exitCode, stderr>>
      BY <1>7 DEF Store, exitVars
  <2>2. received = Prefix(length)
    <3>1. /\ received \in Seq(Nat) /\ Len(received) = length /\ length \in Nat
          /\ \A i \in 1..length : received[i] = i
        BY <1>1, <2>1 DEF Typed, Pieces
    <3> QED BY <3>1 DEF Prefix
  <2>3. Pieces'
      BY <1>1, <1>2, <2>1, <2>2 DEF Pieces, Prefix
  <2>4. TellsTheTruth'
      BY <1>1, <1>2, <2>1, <2>2 DEF TellsTheTruth, StoredWhole, QuietOnSuccess, Pieces, Prefix
  <2> QED BY <1>4, <2>3, <2>4 DEF IInv
<1>8. CASE Accepted
  <2>1. /\ pc = "waiting" /\ pc' = "exited" /\ exitCode' = 0 /\ ~stderr'
        /\ object' = object
      BY <1>1, <1>8 DEF Accepted, Exit, serverVars, Pieces
  <2>2. object = Prefix(IF sameFs THEN Chunks ELSE length)
      BY <1>1, <2>1 DEF Pieces
  <2>3. Pieces'
      BY <1>1, <1>2, <2>1 DEF Pieces
  <2>4. TellsTheTruth'
      BY <1>1, <1>2, <2>1, <2>2 DEF TellsTheTruth, StoredWhole, QuietOnSuccess, Prefix
  <2> QED BY <1>4, <2>3, <2>4 DEF IInv
<1>9. CASE Rejected \/ Broken
  <2>1. /\ pc \in {"sending", "waiting"} /\ object' = object
        /\ \/ pc' = "exited" /\ exitCode' = 1
           \/ pc' = "open" /\ UNCHANGED <<exitCode, stderr>>
      BY <1>9 DEF Rejected, Broken, GiveUp, Retry, Notice, Exit, serverVars
  <2>2. Pieces'
      BY <1>1, <1>2, <2>1 DEF Pieces
  <2>3. TellsTheTruth'
      BY <1>1, <1>2, <2>1 DEF TellsTheTruth, StoredWhole, QuietOnSuccess, Prefix
  <2> QED BY <1>4, <2>2, <2>3 DEF IInv
<1> QED BY <1>5, <1>6, <1>7, <1>8, <1>9

LEMMA NextInv == IInv /\ [UploadNext]_uploadVars => IInv'
<1> SUFFICES ASSUME IInv, [UploadNext]_uploadVars PROVE IInv'
    OBVIOUS
<1>1. CASE UploadNext
    BY <1>1, DirectoryInv, PickInv, AttemptInv DEF UploadNext, Send
<1>2. CASE UNCHANGED uploadVars
    BY <1>2 DEF IInv, Typed, Pieces, TellsTheTruth, StoredWhole, QuietOnSuccess, Prefix,
       uploadVars, dirVars, serverVars, exitVars
<1> QED BY <1>1, <1>2

(* Status 0 means that nothing was said on stderr and that the bucket has  *)
(* the video as it was when it was picked: the whole video if it was moved *)
(* in by a rename, what had been copied by then if by a copy; for any      *)
(* number of retries and whatever else arrives in the directory            *)
(* (upload.py:53-79, recording.py:353).                                    *)
THEOREM Truthful == UploadSpec => []TellsTheTruth
<1>1. IInv => TellsTheTruth
    BY DEF IInv
<1> QED BY <1>1, InitInv, NextInv, PTL DEF UploadSpec

-----------------------------------------------------------------------------
(* Screencast                                                              *)

Jpg == [frame : Nat, whole : BOOLEAN]

(* Chrome's frames are handled in order: those on the wire are the last.   *)
Handled == sent - Len(wire)
Wired == /\ sent \in Nat /\ wire \in Seq(Nat) /\ Handled \in Nat
         /\ \A i \in 1..Len(wire) : wire[i] = Handled + i

(* Where the frames that have been handled are.                            *)
Accounted ==
    /\ IsFiniteSet(acking) /\ IsFiniteSet(failed)
    /\ acking \subseteq 1..Handled /\ failed \subseteq 1..Handled
    /\ unacked \in Int /\ StallsOnlyByFailure

(* The first count files are the written frames, in order; one more may be *)
(* what a failed write left.                                               *)
Filing ==
    /\ now \in Nat /\ count \in Nat /\ times \in Seq(Nat) /\ Len(times) = count
    /\ jpgs \in Seq(Jpg) /\ Len(jpgs) \in {count, count + 1}
    /\ \A i \in 1..count : jpgs[i].whole /\ jpgs[i].frame \in (1..Handled) \ failed
    /\ \A i, j \in 1..count : i < j => jpgs[i].frame < jpgs[j].frame

(* The video is made of them.                                              *)
Shown == Given => /\ DOMAIN video = 1..count /\ Len(video) = count
                  /\ \A i \in 1..count : video[i].jpg = jpgs[i]

CastInv == Wired /\ Accounted /\ Filing /\ Shown

LEMMA CastInitInv == CastInit => CastInv
<1> SUFFICES ASSUME CastInit PROVE CastInv
    OBVIOUS
<1>1. Wired
    BY DEF CastInit, Wired, Handled
<1>2. Accounted
    BY FS_EmptySet DEF CastInit, Accounted, StallsOnlyByFailure, Handled
<1>3. Filing
    BY DEF CastInit, Filing, Handled
<1>4. Shown
    BY DEF CastInit, Shown, Given
<1> QED BY <1>1, <1>2, <1>3, <1>4 DEF CastInv

(* The head of the wire is the next frame to be handled.                   *)
LEMMA HeadIsNext ==
    ASSUME Wired, wire # <<>>, wire' = Tail(wire), sent' = sent
    PROVE  /\ Head(wire) = Handled + 1 /\ Handled' = Handled + 1 /\ Wired'
           /\ Len(wire) \in Nat /\ Len(wire') = Len(wire) - 1
<1>1. /\ wire \in Seq(Nat) /\ sent \in Nat /\ Handled \in Nat
      /\ \A i \in 1..Len(wire) : wire[i] = Handled + i
    BY DEF Wired
<1>2. /\ Len(wire) \in Nat \ {0} /\ wire' \in Seq(Nat) /\ Len(wire') = Len(wire) - 1
      /\ Head(wire) = wire[1] /\ \A i \in 1..Len(wire') : wire'[i] = wire[i + 1]
    BY <1>1
<1>3. Head(wire) = Handled + 1
    BY <1>1, <1>2
<1>4. Handled' = Handled + 1
    BY <1>1, <1>2 DEF Handled
<1>5. \A i \in 1..Len(wire') : wire'[i] = Handled' + i
    BY <1>1, <1>2, <1>4
<1> QED BY <1>1, <1>2, <1>3, <1>4, <1>5 DEF Wired

(* A write, successful or not, goes to the file of number count.           *)
LEMMA FiledIs ==
    ASSUME Filing, NEW f \in Nat, NEW whole \in BOOLEAN
    PROVE  /\ Filed(f, whole) \in Seq(Jpg) /\ Len(Filed(f, whole)) = count + 1
           /\ \A i \in 1..count : Filed(f, whole)[i] = jpgs[i]
           /\ Filed(f, whole)[count + 1] = [frame |-> f, whole |-> whole]
<1> DEFINE jpg == [frame |-> f, whole |-> whole]
<1>1. /\ jpgs \in Seq(Jpg) /\ count \in Nat /\ jpg \in Jpg
      /\ Len(jpgs) \in {count, count + 1}
    BY DEF Filing, Jpg
<1>2. CASE Len(jpgs) = count
  <2>1. Filed(f, whole) = Append(jpgs, jpg)
      BY <1>2 DEF Filed
  <2> HIDE DEF jpg
  <2> QED BY <1>1, <1>2, <2>1 DEF jpg
<1>3. CASE Len(jpgs) # count
  <2>1. Filed(f, whole) = [jpgs EXCEPT ![count + 1] = jpg]
      BY <1>3 DEF Filed
  <2>2. Len(jpgs) = count + 1 /\ count + 1 \in 1..Len(jpgs)
      BY <1>1, <1>3
  <2> HIDE DEF jpg
  <2> QED BY <1>1, <2>1, <2>2 DEF jpg
<1> QED BY <1>2, <1>3

(* A frame is written: one more file, time and acknowledgement.            *)
LEMMA WrittenInv == ASSUME CastInv, Written PROVE CastInv'
<1>1. Wired /\ Accounted /\ Filing /\ stage = "recording" /\ stage' = stage
    BY DEF CastInv, Written
<1>2. /\ Head(wire) = Handled + 1 /\ Handled' = Handled + 1 /\ Wired'
      /\ Len(wire) \in Nat /\ Len(wire') = Len(wire) - 1 /\ Handled \in Nat
    BY <1>1, HeadIsNext DEF Written, Wired
<1>3. Accounted'
  <2>1. acking' = acking \cup {Head(wire)} /\ UNCHANGED <<unacked, failed>>
      BY DEF Written, Ack
  <2>2. Head(wire) \notin acking
      BY <1>1, <1>2 DEF Accounted
  <2>3. IsFiniteSet(acking') /\ Cardinality(acking') = Cardinality(acking) + 1
      BY <1>1, <2>1, <2>2, FS_AddElement DEF Accounted
  <2>4. acking' \subseteq 1..Handled' /\ failed' \subseteq 1..Handled'
    <3>1. Handled \in Nat /\ Handled' = Handled + 1 /\ Head(wire) = Handled + 1
        BY <1>2
    <3>2. acking \subseteq 1..Handled /\ failed \subseteq 1..Handled
        BY <1>1 DEF Accounted
    <3>3. acking' = acking \cup {Head(wire)} /\ failed' = failed
        BY <2>1
    <3>4. 1..Handled \subseteq 1..Handled' /\ Head(wire) \in 1..Handled'
        BY ONLY <3>1
    <3> QED BY ONLY <3>2, <3>3, <3>4
  <2>5. Cardinality(acking) \in Nat /\ Cardinality(failed) \in Nat
      BY <1>1, FS_CardinalityType DEF Accounted
  <2>6. unacked = Len(wire) + Cardinality(acking) + Cardinality(failed)
      BY <1>1 DEF Accounted, StallsOnlyByFailure
  <2>7. unacked = Len(wire') + Cardinality(acking') + Cardinality(failed)
    <3>1. Len(wire) \in Nat /\ Len(wire') = Len(wire) - 1
        BY <1>2
    <3>2. Cardinality(acking') = Cardinality(acking) + 1
        BY <2>3
    <3> QED BY ONLY <2>5, <2>6, <3>1, <3>2
  <2> QED BY <1>1, <2>1, <2>3, <2>4, <2>7 DEF Accounted, StallsOnlyByFailure
<1>4. Filing'
  <2>1. /\ jpgs' = Filed(Head(wire), TRUE) /\ count' = count + 1
        /\ times' = Append(times, now) /\ UNCHANGED <<now, failed>>
      BY DEF Written
  <2>2. /\ now \in Nat /\ count \in Nat /\ times \in Seq(Nat) /\ Len(times) = count
        /\ \A i \in 1..count : jpgs[i].whole /\ jpgs[i].frame \in (1..Handled) \ failed
        /\ \A i, j \in 1..count : i < j => jpgs[i].frame < jpgs[j].frame
      BY <1>1 DEF Filing
  <2>3. /\ jpgs' \in Seq(Jpg) /\ Len(jpgs') = count'
        /\ \A i \in 1..count : jpgs'[i] = jpgs[i]
        /\ jpgs'[count'] = [frame |-> Handled + 1, whole |-> TRUE]
    <3>1. Head(wire) \in Nat /\ TRUE \in BOOLEAN
        BY <1>2
    <3>2. /\ jpgs' \in Seq(Jpg) /\ Len(jpgs') = count + 1
          /\ \A i \in 1..count : jpgs'[i] = jpgs[i]
          /\ jpgs'[count + 1] = [frame |-> Head(wire), whole |-> TRUE]
        BY <1>1, <2>1, <3>1, FiledIs
    <3>3. Head(wire) = Handled + 1 /\ count' = count + 1
        BY <1>2, <2>1
    <3> QED BY ONLY <3>2, <3>3
  <2>4. times' \in Seq(Nat) /\ Len(times') = count' /\ count' \in Nat
      BY <2>1, <2>2
  <2>5. \A i \in 1..count' : i \in 1..count \/ i = count'
      BY <2>1, <2>2
  <2>6. Handled + 1 \notin failed
      BY <1>1, <1>2 DEF Accounted
  <2>7. \A i \in 1..count' : jpgs'[i].whole /\ jpgs'[i].frame \in (1..Handled') \ failed'
    <3>1. ASSUME NEW i \in 1..count
          PROVE  jpgs'[i].whole /\ jpgs'[i].frame \in (1..Handled') \ failed'
      <4>1. jpgs[i].whole /\ jpgs[i].frame \in (1..Handled) \ failed /\ jpgs'[i] = jpgs[i]
          BY <2>2, <2>3
      <4>2. Handled \in Nat /\ Handled' = Handled + 1 /\ failed' = failed
          BY <1>2, <2>1
      <4> QED BY <4>1, <4>2
    <3>2. jpgs'[count'].whole /\ jpgs'[count'].frame \in (1..Handled') \ failed'
      <4>1. jpgs'[count'].whole /\ jpgs'[count'].frame = Handled + 1
          BY <2>3
      <4>2. Handled \in Nat /\ Handled' = Handled + 1 /\ failed' = failed
          BY <1>2, <2>1
      <4> QED BY <2>6, <4>1, <4>2
    <3> QED BY <2>5, <3>1, <3>2
  <2>8. ASSUME NEW i \in 1..count', NEW j \in 1..count', i < j
        PROVE  jpgs'[i].frame < jpgs'[j].frame
    <3>1. i \in 1..count
        BY <2>1, <2>2, <2>8
    <3>2. CASE j \in 1..count
        BY <2>2, <2>3, <2>8, <3>1, <3>2
    <3>3. CASE j = count'
        BY <1>2, <2>2, <2>3, <3>1, <3>3, SMTT(30)
    <3> QED BY <2>5, <3>2, <3>3
  <2> QED BY <2>1, <2>2, <2>3, <2>4, <2>7, <2>8 DEF Filing
<1>5. Shown'
    BY <1>1 DEF Shown, Given
<1> QED BY <1>2, <1>3, <1>4, <1>5 DEF CastInv

(* A write fails: the frame is not acknowledged, its number is used again. *)
LEMMA WriteFailsInv == ASSUME CastInv, WriteFails PROVE CastInv'
<1>1. Wired /\ Accounted /\ Filing /\ stage = "recording" /\ stage' = stage
    BY DEF CastInv, WriteFails
<1>2. /\ Head(wire) = Handled + 1 /\ Handled' = Handled + 1 /\ Wired'
      /\ Len(wire) \in Nat /\ Len(wire') = Len(wire) - 1 /\ Handled \in Nat
    BY <1>1, HeadIsNext DEF WriteFails, Wired
<1>3. failed' = failed \cup {Head(wire)} /\ UNCHANGED <<unacked, acking, now, times, count>>
    BY DEF WriteFails, Reuse
<1>4. Accounted'
  <2>2. Head(wire) \notin failed
      BY <1>1, <1>2 DEF Accounted
  <2>3. IsFiniteSet(failed') /\ Cardinality(failed') = Cardinality(failed) + 1
      BY <1>1, <1>3, <2>2, FS_AddElement DEF Accounted
  <2>4. acking' \subseteq 1..Handled' /\ failed' \subseteq 1..Handled'
    <3>1. Handled \in Nat /\ Handled' = Handled + 1 /\ Head(wire) = Handled + 1
        BY <1>2
    <3>2. acking \subseteq 1..Handled /\ failed \subseteq 1..Handled
        BY <1>1 DEF Accounted
    <3>3. failed' = failed \cup {Head(wire)} /\ acking' = acking
        BY <1>3
    <3>4. 1..Handled \subseteq 1..Handled' /\ Head(wire) \in 1..Handled'
        BY ONLY <3>1
    <3> QED BY ONLY <3>2, <3>3, <3>4
  <2>5. Cardinality(acking) \in Nat /\ Cardinality(failed) \in Nat
      BY <1>1, FS_CardinalityType DEF Accounted
  <2>6. unacked = Len(wire) + Cardinality(acking) + Cardinality(failed)
      BY <1>1 DEF Accounted, StallsOnlyByFailure
  <2>7. unacked = Len(wire') + Cardinality(acking) + Cardinality(failed')
    <3>1. Len(wire) \in Nat /\ Len(wire') = Len(wire) - 1
        BY <1>2
    <3>2. Cardinality(failed') = Cardinality(failed) + 1
        BY <2>3
    <3> QED BY ONLY <2>5, <2>6, <3>1, <3>2
  <2> QED BY <1>1, <1>3, <2>3, <2>4, <2>7 DEF Accounted, StallsOnlyByFailure
<1>5. Filing'
  <2>1. /\ jpgs' \in Seq(Jpg) /\ Len(jpgs') \in {count, count + 1}
        /\ \A i \in 1..count : jpgs'[i] = jpgs[i]
    <3>1. CASE jpgs' = jpgs
        BY <1>1, <3>1 DEF Filing
    <3>2. CASE jpgs' = Filed(Head(wire), FALSE)
      <4>1. Head(wire) \in Nat /\ FALSE \in BOOLEAN
          BY <1>2
      <4>2. /\ jpgs' \in Seq(Jpg) /\ Len(jpgs') = count + 1
            /\ \A i \in 1..count : jpgs'[i] = jpgs[i]
          BY <1>1, <3>2, <4>1, FiledIs
      <4> QED BY <4>2
    <3> QED BY <3>1, <3>2 DEF WriteFails
  <2>2. \A i \in 1..count : jpgs'[i].whole /\ jpgs'[i].frame \in (1..Handled') \ failed'
      BY <1>1, <1>2, <1>3, <2>1, SMTT(30) DEF Filing
  <2>3. \A i, j \in 1..count : i < j => jpgs'[i].frame < jpgs'[j].frame
      BY <1>1, <2>1 DEF Filing
  <2> QED BY <1>1, <1>3, <2>1, <2>2, <2>3 DEF Filing
<1>6. Shown'
    BY <1>1 DEF Shown, Given
<1> QED BY <1>2, <1>4, <1>5, <1>6 DEF CastInv

(* The wire, and Chrome's count of what is out.                            *)
LEMMA ChromeSendsInv == ASSUME CastInv, ChromeSends PROVE CastInv'
<1>1. /\ Wired /\ Accounted /\ Filing /\ Shown
      /\ sent' = sent + 1 /\ unacked' = unacked + 1 /\ wire' = Append(wire, sent + 1)
      /\ UNCHANGED <<now, acking, failed, jpgs, count, times, stage, stopped, video>>
    BY DEF CastInv, ChromeSends, framesVars
<1>2. /\ wire \in Seq(Nat) /\ sent \in Nat /\ Handled \in Nat
      /\ \A i \in 1..Len(wire) : wire[i] = Handled + i
    BY <1>1 DEF Wired
<1>3. /\ wire' \in Seq(Nat) /\ Len(wire) \in Nat /\ Len(wire') = Len(wire) + 1
      /\ \A i \in 1..Len(wire) : wire'[i] = wire[i]
      /\ wire'[Len(wire')] = sent + 1
    BY <1>1, <1>2
<1>4. Handled' = Handled
    BY <1>1, <1>2, <1>3 DEF Handled
<1>5. sent + 1 = Handled + Len(wire')
    BY <1>2, <1>3 DEF Handled
<1>6. \A i \in 1..Len(wire') : wire'[i] = Handled + i
  <2>1. \A i \in 1..Len(wire') : i \in 1..Len(wire) \/ i = Len(wire')
      BY <1>3
  <2> QED BY <1>2, <1>3, <1>5, <2>1
<1>7. Wired'
    BY <1>1, <1>2, <1>3, <1>4, <1>6 DEF Wired
<1>8. Accounted'
  <2>1. Cardinality(acking) \in Nat /\ Cardinality(failed) \in Nat
      BY <1>1, FS_CardinalityType DEF Accounted
  <2> QED BY <1>1, <1>3, <1>4, <2>1 DEF Accounted, StallsOnlyByFailure
<1>9. Filing' /\ Shown'
    BY <1>1, <1>4 DEF Filing, Shown, Given
<1> QED BY <1>7, <1>8, <1>9 DEF CastInv

LEMMA AckSentInv == ASSUME CastInv, AckSent PROVE CastInv'
<1>1. /\ Wired /\ Accounted /\ Filing /\ Shown /\ unacked' = unacked - 1
      /\ UNCHANGED <<now, sent, wire, failed, jpgs, count, times, stage, stopped, video>>
    BY DEF CastInv, AckSent
<1>2. PICK f \in acking : acking' = acking \ {f}
    BY DEF AckSent
<1>3. IsFiniteSet(acking') /\ Cardinality(acking') = Cardinality(acking) - 1
    BY <1>1, <1>2, FS_RemoveElement DEF Accounted
<1>4. Cardinality(acking) \in Nat /\ Cardinality(failed) \in Nat /\ Len(wire) \in Nat
    BY <1>1, FS_CardinalityType DEF Accounted, Wired
<1>5. Accounted'
  <2>1. stage = "recording" =>
            unacked - 1 = Len(wire) + (Cardinality(acking) - 1) + Cardinality(failed)
      BY <1>1, <1>4 DEF Accounted, StallsOnlyByFailure
  <2>2. StallsOnlyByFailure'
      BY <1>1, <1>3, <2>1 DEF StallsOnlyByFailure
  <2>3. acking' \subseteq 1..Handled' /\ failed' \subseteq 1..Handled' /\ unacked' \in Int
      BY <1>1, <1>2 DEF Accounted, Handled
  <2> QED BY <1>1, <1>3, <2>2, <2>3 DEF Accounted
<1>6. Wired' /\ Filing' /\ Shown'
    BY <1>1 DEF Wired, Filing, Shown, Given, Handled
<1> QED BY <1>5, <1>6 DEF CastInv

(* Nothing more is written once the recording has been popped.             *)
LEMMA IgnoredInv == ASSUME CastInv, Ignored PROVE CastInv'
<1>1. /\ Wired /\ Accounted /\ Filing /\ Shown /\ stage # "recording"
      /\ UNCHANGED <<now, unacked, acking, failed, jpgs, count, times, stage, video>>
    BY DEF CastInv, Ignored, framesVars
<1>2. Handled' = Handled + 1 /\ Wired' /\ Handled \in Nat
    BY <1>1, HeadIsNext DEF Ignored, Wired
<1>3. 1..Handled \subseteq 1..Handled'
    BY <1>2
<1>4. Accounted'
    BY <1>1, <1>3 DEF Accounted, StallsOnlyByFailure
<1>5. Filing' /\ Shown'
    BY <1>1, <1>3 DEF Filing, Shown, Given
<1> QED BY <1>2, <1>4, <1>5 DEF CastInv

(* The encoder is given the files that have times.                         *)
LEMMA StopSentInv == ASSUME CastInv, StopSent PROVE CastInv'
<1>1. /\ Wired /\ Accounted /\ Filing /\ stage = "stopping" /\ stage' # "recording"
      /\ UNCHANGED <<now, sent, wire, unacked, acking, failed, jpgs, count, times>>
    BY DEF CastInv, StopSent, chromeVars, framesVars
<1>2. Wired' /\ Accounted' /\ Filing'
    BY <1>1 DEF Wired, Accounted, StallsOnlyByFailure, Filing, Handled
<1>3. Shown'
  <2>1. CASE jpgs = <<>>
      BY <2>1 DEF StopSent, Shown, Given
  <2>2. CASE jpgs # <<>>
    <3>1. video' = [i \in DOMAIN times |-> [jpg |-> jpgs[i], hold |-> _frame_holds[i]]]
        BY <2>2 DEF StopSent
    <3>2. DOMAIN times = 1..count /\ count \in Nat
        BY <1>1 DEF Filing
    <3>3. DOMAIN video' = 1..count /\ \A i \in 1..count : video'[i].jpg = jpgs[i]
        BY <3>1, <3>2
    <3>4. Len(video') = count
        BY <3>1, <3>2
    <3> QED BY <1>1, <3>3, <3>4 DEF Shown
  <2> QED BY <2>1, <2>2
<1> QED BY <1>2, <1>3 DEF CastInv

(* The other steps change no frame.                                        *)
LEMMA StageInv ==
    ASSUME CastInv, Tick \/ Stop \/ Encoded \/ Move \/ UNCHANGED castVars PROVE CastInv'
<1>1. /\ Wired /\ Accounted /\ Filing /\ Shown
      /\ UNCHANGED <<sent, wire, unacked, acking, failed, jpgs, count, times, video>>
    BY DEF CastInv, Tick, Stop, Encoded, Move, castVars, chromeVars, framesVars
<1>2. now' \in Nat
    BY <1>1 DEF Filing, Tick, Stop, Encoded, Move, castVars
<1>3. /\ stage' = "recording" => stage = "recording"
      /\ stage' \in {"encoding", "encoded"} => stage \in {"encoding", "encoded"}
    BY DEF Tick, Stop, Encoded, Move, castVars
<1>4. Wired' /\ Accounted'
    BY <1>1, <1>3 DEF Wired, Accounted, StallsOnlyByFailure, Handled
<1>5. Filing'
    BY <1>1, <1>2 DEF Filing, Handled
<1>6. Shown'
    BY <1>1, <1>3 DEF Shown, Given
<1> QED BY <1>4, <1>5, <1>6 DEF CastInv

LEMMA CastNextInv == CastInv /\ [CastNext]_castVars => CastInv'
BY WrittenInv, WriteFailsInv, ChromeSendsInv, AckSentInv, IgnoredInv, StopSentInv, StageInv
   DEF CastNext

LEMMA CastInvGives == CastInv => VideoIsCapture /\ StallsOnlyByFailure
<1> SUFFICES ASSUME CastInv PROVE VideoIsCapture /\ StallsOnlyByFailure
    OBVIOUS
<1>1. Filing /\ Shown /\ StallsOnlyByFailure
    BY DEF CastInv, Accounted
<1>2. ASSUME Given
      PROVE  /\ \A i \in DOMAIN video : video[i].jpg.whole /\ video[i].jpg.frame \notin failed
             /\ \A i, j \in DOMAIN video : i < j => video[i].jpg.frame < video[j].jpg.frame
             /\ Len(video) = count /\ Len(times) = count
  <2>1. /\ DOMAIN video = 1..count /\ Len(video) = count
        /\ \A i \in 1..count : video[i].jpg = jpgs[i]
      BY <1>1, <1>2 DEF Shown
  <2> QED BY <1>1, <2>1 DEF Filing
<1> QED BY <1>1, <1>2 DEF VideoIsCapture

-----------------------------------------------------------------------------
(* Time                                                                    *)

(* Frames have the times they were written at, in order.                   *)
Ordered == /\ \A i \in 1..count : times[i] <= now
           /\ \A i, j \in 1..count : i < j => times[i] <= times[j]

(* The encoder was given how long each stayed on screen.                   *)
Held == Given => /\ stopped \in Nat
                 /\ \A i \in 1..count : times[i] <= stopped
                 /\ \A i \in 1..count : video[i].hold = Clamp(Gap(i))

TimeInv == Ordered /\ Held

LEMMA TimeInitInv == CastInit => TimeInv
BY DEF CastInit, TimeInv, Ordered, Held, Given

LEMMA TimeNextInv ==
    ASSUME CastInv, CastInv', TimeInv, CastNext \/ Move \/ UNCHANGED castVars
    PROVE  TimeInv'
<1>1. /\ now \in Nat /\ count \in Nat /\ times \in Seq(Nat) /\ Len(times) = count
      /\ Ordered /\ Held
    BY DEF CastInv, Filing, TimeInv
<1>2. CASE Written
  <2>1. /\ times' = Append(times, now) /\ count' = count + 1 /\ now' = now
        /\ stage = "recording" /\ stage' = stage
      BY <1>2 DEF Written
  <2>2. /\ \A i \in 1..count : times'[i] = times[i] /\ times[i] \in Nat
        /\ times'[count + 1] = now
      BY <1>1, <2>1
  <2>3. \A i \in 1..count' : times'[i] <= now'
      BY <1>1, <2>1, <2>2 DEF Ordered
  <2>4. ASSUME NEW i \in 1..count', NEW j \in 1..count', i < j
        PROVE  times'[i] <= times'[j]
    <3>1. i \in 1..count /\ times'[i] = times[i]
        BY <1>1, <2>1, <2>2, <2>4
    <3>2. j \in 1..count \/ j = count + 1
        BY <1>1, <2>1
    <3> QED BY <1>1, <2>2, <2>4, <3>1, <3>2 DEF Ordered
  <2> QED BY <2>1, <2>3, <2>4 DEF TimeInv, Ordered, Held, Given
<1>3. CASE StopSent
  <2>1. stage = "stopping" /\ UNCHANGED <<now, count, times>>
      BY <1>3 DEF StopSent, framesVars
  <2>2. Ordered'
      BY <1>1, <2>1 DEF Ordered
  <2>3. CASE jpgs = <<>>
      BY <1>3, <2>2, <2>3 DEF StopSent, TimeInv, Held, Given
  <2>4. CASE jpgs # <<>>
    <3>1. /\ stopped' = now
          /\ video' = [i \in DOMAIN times |-> [jpg |-> jpgs[i], hold |-> _frame_holds[i]]]
        BY <1>3, <2>4 DEF StopSent
    <3>2. DOMAIN times = 1..count
        BY <1>1
    <3>3. ASSUME NEW i \in 1..count PROVE video'[i].hold = Clamp(Gap(i)')
      <4>1. video'[i].hold = Clamp(Until(i) - times[i])
          BY <3>1, <3>2 DEF _frame_holds
      <4>2. Gap(i)' = Until(i) - times[i]
          BY <2>1, <3>1 DEF Gap, Until
      <4> QED BY <4>1, <4>2
    <3> QED BY <1>1, <2>1, <2>2, <3>1, <3>3 DEF TimeInv, Held, Ordered, Clamp
  <2> QED BY <2>3, <2>4
<1>4. CASE Tick
  <2>1. /\ now' = now + 1 /\ UNCHANGED <<count, times, stage>> /\ ~Given
      BY <1>4 DEF Tick, framesVars, Given
  <2>2. \A i \in 1..count : times[i] \in Nat
      BY <1>1
  <2> QED BY <1>1, <2>1, <2>2 DEF TimeInv, Ordered, Held, Given
<1>5. CASE ChromeSends \/ Ignored \/ WriteFails \/ AckSent \/ Stop \/ Encoded \/ Move
           \/ UNCHANGED castVars
  <2>1. /\ UNCHANGED <<now, count, times, stopped, video>>
        /\ stage' \in {"encoding", "encoded"} => Given
      BY <1>5 DEF ChromeSends, Ignored, WriteFails, Reuse, AckSent, Stop, Encoded, Move,
                  castVars, chromeVars, framesVars, Given
  <2>2. ASSUME Given', NEW i \in 1..count
        PROVE  video'[i].hold = Clamp(Gap(i)')
    <3>1. Given /\ Gap(i)' = Gap(i)
        BY <2>1, <2>2 DEF Given, Gap
    <3> QED BY <1>1, <2>1, <3>1 DEF Held
  <2> QED BY <1>1, <2>1, <2>2 DEF TimeInv, Ordered, Held, Given, Clamp
<1> QED BY <1>2, <1>3, <1>4, <1>5 DEF CastNext

(* Induction over the naturals, with the set of those the property holds   *)
(* for.                                                                    *)
LEMMA NatInd ==
    ASSUME NEW P \in SUBSET Nat, 0 \in P, \A n \in P : n + 1 \in P
    PROVE  P = Nat
<1> SUFFICES ASSUME Nat \ P # {} PROVE FALSE
    OBVIOUS
<1> DEFINE R == OpToRel(<, Nat)
<1>1. \A k, m \in Nat : <<k, m>> \in R <=> k < m
    BY DEF OpToRel
<1>2. IsWellFoundedOn(R, Nat)
    BY NatLessThanWellFounded, Zenon
<1> HIDE DEF R
<1>3. PICK m \in Nat \ P : \A k \in Nat \ P : ~(<<k, m>> \in R)
    BY <1>2, WFMin
<1>4. m # 0 /\ m - 1 \in Nat /\ m - 1 < m
    BY <1>3
<1>5. m - 1 \in P
    BY <1>1, <1>3, <1>4
<1> QED BY <1>3, <1>4, <1>5

(* The sum of the first holds exists and is what its definition says.      *)
PlayedTo(g, n) == g = [i \in 0..n |-> IF i = 0 THEN 0 ELSE g[i - 1] + video[i].hold]

LEMMA PlayedExists == \A n \in Nat : \E g : PlayedTo(g, n)
<1> DEFINE P == {n \in Nat : \E g : PlayedTo(g, n)}
<1>1. 0 \in P
  <2> DEFINE g == [i \in 0..0 |-> 0]
  <2>1. PlayedTo(g, 0)
      BY DEF PlayedTo
  <2> QED BY <2>1
<1>2. ASSUME NEW n \in P PROVE n + 1 \in P
  <2>1. n \in Nat /\ n + 1 \in Nat
      OBVIOUS
  <2>2. PICK g : PlayedTo(g, n)
      OBVIOUS
  <2>3. g = [i \in 0..n |-> IF i = 0 THEN 0 ELSE g[i - 1] + video[i].hold]
      BY <2>2 DEF PlayedTo
  <2> DEFINE F(f, i) == IF i = 0 THEN 0 ELSE f[i - 1] + video[i].hold
             h == [i \in 0..(n + 1) |-> F(g, i)]
  <2>4. \A i \in 0..n : h[i] = g[i]
      BY <2>1, <2>3
  <2>5. ASSUME NEW i \in 0..(n + 1) PROVE F(g, i) = F(h, i)
    <3>1. i # 0 => i - 1 \in 0..n
        BY <2>1
    <3> HIDE DEF h
    <3> QED BY <2>4, <3>1
  <2>6. h = [i \in 0..(n + 1) |-> F(h, i)]
      BY <2>5
  <2> HIDE DEF h
  <2>7. PlayedTo(h, n + 1)
      BY <2>6 DEF PlayedTo
  <2> QED BY <2>1, <2>7
<1>3. P = Nat
  <2>1. P \in SUBSET Nat
      OBVIOUS
  <2> HIDE DEF P
  <2> QED BY <1>1, <1>2, <2>1, NatInd
<1> QED BY <1>3

LEMMA PlayedIs ==
    ASSUME Len(video) \in Nat
    PROVE  /\ Played[0] = 0
           /\ \A i \in 1..Len(video) : Played[i] = Played[i - 1] + video[i].hold
<1>1. \E g : PlayedTo(g, Len(video))
    BY PlayedExists
<1>2. Played = [i \in 0..Len(video) |-> IF i = 0 THEN 0 ELSE Played[i - 1] + video[i].hold]
    BY <1>1 DEF Played, PlayedTo
<1>3. 0 \in 0..Len(video) /\ \A i \in 1..Len(video) : i \in 0..Len(video) /\ i # 0
    OBVIOUS
<1> HIDE DEF Played
<1> QED BY ONLY <1>2, <1>3

LEMMA TimelineGiven == CastInv /\ TimeInv => TimelineKept
<1> SUFFICES ASSUME CastInv, TimeInv, Given, video # <<>>
             PROVE  /\ VideoSeconds <= stopped - times[1] + Len(video) * MinHold
                    /\ VideoSeconds <= Len(video) * MaxHold
                    /\ (\A i \in DOMAIN times : Gap(i) <= MaxHold) =>
                           VideoSeconds >= stopped - times[1]
    BY DEF TimelineKept
<1>1. /\ count \in Nat /\ times \in Seq(Nat) /\ Len(times) = count /\ DOMAIN times = 1..count
      /\ DOMAIN video = 1..count /\ Len(video) = count
      /\ stopped \in Nat /\ \A i \in 1..count : times[i] <= stopped
      /\ \A i, j \in 1..count : i < j => times[i] <= times[j]
      /\ \A i \in 1..count : video[i].hold = Clamp(Gap(i)) /\ times[i] \in Nat
    BY DEF CastInv, Filing, Shown, TimeInv, Ordered, Held
<1>2. MinHold \in Nat /\ MaxHold \in Nat /\ MinHold <= MaxHold
    BY ScreencastAssumption
<1>3. /\ Played[0] = 0
      /\ \A i \in 1..count : Played[i] = Played[i - 1] + Clamp(Gap(i))
    BY <1>1, PlayedIs
<1>4. count # 0
    BY <1>1
<1> DEFINE End(k) == IF k < count THEN times[k + 1] ELSE stopped
           Idle == \E i \in 1..count : Gap(i) > MaxHold
           Fine(k) == /\ Played[k] \in Int
                      /\ Played[k] <= End(k) - times[1] + k * MinHold
                      /\ Played[k] <= k * MaxHold
                      /\ Idle \/ Played[k] >= End(k) - times[1]
           P == {k \in Nat : k <= count => Fine(k)}
<1>5. ASSUME NEW k \in 1..count
      PROVE  /\ Gap(k) = End(k) - times[k] /\ End(k - 1) = times[k]
             /\ times[k] \in Nat /\ End(k) \in Nat /\ Gap(k) \in Nat
             /\ times[1] \in Nat
  <2>1. k < count => k + 1 \in 1..count
      BY <1>1
  <2>2. End(k) \in Nat /\ times[k] <= End(k) /\ times[k] \in Nat /\ times[1] \in Nat
      BY <1>1, <1>4, <2>1
  <2>3. Gap(k) = End(k) - times[k]
      BY <1>1 DEF Gap
  <2>4. End(k - 1) = times[k]
      BY <1>1
  <2> QED BY <2>2, <2>3, <2>4
<1>6. 0 \in P
  <2>1. End(0) = times[1] /\ times[1] \in Nat
      BY <1>1, <1>4
  <2> QED BY <1>2, <1>3, <2>1
<1>7. ASSUME NEW n \in P PROVE n + 1 \in P
  <2> SUFFICES ASSUME n + 1 <= count PROVE Fine(n + 1)
      OBVIOUS
  <2> DEFINE k == n + 1
  <2>1. n \in Nat /\ k \in 1..count /\ n = k - 1 /\ Fine(n)
      BY <1>1
  <2>2. /\ Gap(k) = End(k) - times[k] /\ End(n) = times[k]
        /\ times[k] \in Nat /\ End(k) \in Nat /\ Gap(k) \in Nat /\ times[1] \in Nat
      BY <1>5, <2>1
  <2>3. Played[k] = Played[n] + Clamp(Gap(k))
      BY <1>3, <2>1
  <2>4. /\ Clamp(Gap(k)) \in Nat /\ Clamp(Gap(k)) <= Gap(k) + MinHold
        /\ Clamp(Gap(k)) <= MaxHold
        /\ Gap(k) <= MaxHold => Clamp(Gap(k)) >= Gap(k)
      BY <1>2, <2>2 DEF Clamp
  <2>5. PICK a \in Nat, b \in Nat :
            /\ n * MinHold = a /\ k * MinHold = a + MinHold
            /\ n * MaxHold = b /\ k * MaxHold = b + MaxHold
    <3>1. k * MinHold = n * MinHold + MinHold /\ k * MaxHold = n * MaxHold + MaxHold
          /\ n * MinHold \in Nat /\ n * MaxHold \in Nat
        BY <1>2, <2>1
    <3> QED BY <3>1
  <2>6. Idle \/ Gap(k) <= MaxHold
      BY <1>2, <2>1, <2>2
  <2>7. /\ Played[n] \in Int /\ Played[n] <= times[k] - times[1] + a /\ Played[n] <= b
        /\ Idle \/ Played[n] >= times[k] - times[1]
      BY <2>1, <2>2, <2>5
  <2>8. PICK p \in Int, c \in Nat, e \in Nat, x \in Nat, y \in Nat :
            p = Played[n] /\ c = Clamp(Gap(k)) /\ e = End(k) /\ x = times[k] /\ y = times[1]
      BY <2>2, <2>4, <2>7
  <2>9. /\ Gap(k) = e - x /\ c <= e - x + MinHold /\ c <= MaxHold
        /\ Idle \/ c >= e - x
      BY <2>2, <2>4, <2>6, <2>8
  <2>10. p <= x - y + a /\ p <= b /\ (Idle \/ p >= x - y)
      BY <2>7, <2>8
  <2>11. /\ p + c <= e - y + (a + MinHold) /\ p + c <= b + MaxHold
         /\ Idle \/ p + c >= e - y
    <3> HIDE DEF Idle
    <3> QED BY ONLY <1>2, <2>8, <2>9, <2>10
  <2>12. Played[k] = p + c
      BY <2>3, <2>8
  <2> QED BY <2>5, <2>8, <2>11, <2>12
<1>8. P = Nat
  <2>1. P \in SUBSET Nat
      OBVIOUS
  <2> HIDE DEF P
  <2> QED BY <1>6, <1>7, <2>1, NatInd
<1>9. Fine(count)
  <2>1. count \in P
      BY <1>1, <1>8
  <2> QED BY <1>1, <2>1
<1>10. End(count) = stopped
    BY <1>1
<1>11. (\A i \in DOMAIN times : Gap(i) <= MaxHold) => ~Idle
  <2> SUFFICES ASSUME \A i \in DOMAIN times : Gap(i) <= MaxHold,
                      NEW i \in 1..count, Gap(i) > MaxHold
               PROVE  FALSE
      OBVIOUS
  <2>1. Gap(i) \in Nat /\ Gap(i) <= MaxHold
      BY <1>1, <1>5
  <2> QED BY <1>2, <2>1
<1> QED BY <1>1, <1>9, <1>10, <1>11 DEF VideoSeconds

(* The video lasts as long as the recording did: longer by no more than a  *)
(* least hold per frame, and shorter only where a tab was idle for longer  *)
(* than the greatest (recording.py:47-50, 74-76, 289-301).                 *)
THEOREM PlaysAsLong == Spec => []TimelineKept
<1>1. Init => CastInv /\ TimeInv
    BY CastInitInv, TimeInitInv DEF Init
<1>2. CastInv /\ TimeInv /\ [Next]_vars => CastInv' /\ TimeInv'
  <2> SUFFICES ASSUME CastInv, TimeInv, [Next]_vars PROVE CastInv' /\ TimeInv'
      OBVIOUS
  <2>1. CastNext \/ Move \/ UNCHANGED castVars
      BY DEF Next, vars
  <2>2. CastInv'
      BY <2>1, CastNextInv, StageInv
  <2> QED BY <2>1, <2>2, TimeNextInv
<1>3. CastInv /\ TimeInv => TimelineKept
    BY TimelineGiven
<1> QED BY <1>1, <1>2, <1>3, PTL DEF Spec

(* The video shows each frame that was written, once and in order, however *)
(* many writes failed in between (recording.py:210-219, 317-320).          *)
THEOREM CapturedInOrder == Spec => []VideoIsCapture
<1>1. Init => CastInv
    BY CastInitInv DEF Init
<1>2. CastInv /\ [Next]_vars => CastInv'
    BY CastNextInv, StageInv DEF Next, vars
<1>3. CastInv => VideoIsCapture
    BY CastInvGives
<1> QED BY <1>1, <1>2, <1>3, PTL DEF Spec

(* Chrome stops sending only because of frames that could not be written   *)
(* (recording.py:216-228).                                                 *)
THEOREM OnlyFailuresStall == Spec => []StallsOnlyByFailure
<1>1. Init => CastInv
    BY CastInitInv DEF Init
<1>2. CastInv /\ [Next]_vars => CastInv'
    BY CastNextInv, StageInv DEF Next, vars
<1>3. CastInv => StallsOnlyByFailure
    BY CastInvGives
<1> QED BY <1>1, <1>2, <1>3, PTL DEF Spec

(* Seen from the upload, the cdp process is one that finalizes recordings: *)
(* what holds of Upload holds of the composition.                          *)
THEOREM DeliveryIsUpload == Spec => UploadSpec
<1>1. Init => UploadInit
    BY DEF Init
<1>2. [Next]_vars => [UploadNext]_uploadVars
  <2> SUFFICES ASSUME [Next]_vars PROVE UploadNext \/ UNCHANGED uploadVars
      OBVIOUS
  <2>1. CASE Move
      BY <2>1, DeliveryAssumption DEF Move, UploadNext
  <2>2. CASE Send \/ \E r \in 1..Recordings : Copy(r) \/ (r # Mine /\ Finalize(r))
      BY <2>2 DEF UploadNext
  <2>3. CASE UNCHANGED uploadVars
      BY <2>3
  <2> QED BY <2>1, <2>2, <2>3 DEF Next, vars
<1> QED BY <1>1, <1>2, PTL DEF Spec, UploadSpec

(* The same of an upload next to a service that records and finalizes      *)
(* (upload.py:53-79, recording.py:352-354).                                *)
THEOREM DeliveryTruthful == Spec => []TellsTheTruth
BY DeliveryIsUpload, Truthful, PTL
=============================================================================
