----------------------- MODULE ResumableUploadProofs -----------------------
(***************************************************************************)
(* An upload that returns has made the object of the file, and an object   *)
(* that is the file is not deleted, for any files but those of one byte,   *)
(* any buffer size and any number of retries.                              *)
(***************************************************************************)
EXTENDS ResumableUpload, SequenceTheorems, TLAPS

(* The inductive invariant.                                                *)

UploadTypes ==
    /\ file \in Seq(Byte)
    /\ upload \in Upload
    /\ fp \in 0..FileLength
    /\ server_end \in Int /\ server_end >= -1

\* No attempt is ever found to have made progress, so the digest is taken
\* from the start by each; and fp is never left after the first byte.
LocalsInv ==
    /\ server_has_bytes = 0 /\ server_had_bytes_before_attempt = 0
    /\ digesters_before_attempt = <<>>
    /\ Down => fp = 0
    /\ fp = 1 => FileLength = 1
    /\ pc \in {"attempt", "query"} => digesters = <<>>

\* With what is left of the file the digest is that of the file, if the
\* count of bytes that is kept beside it comes out.
DigestInv ==
    /\ pc = "query" => server_end = -1
    /\ pc = "start" => \/ server_end = -1 /\ digesters = <<>>
                       \/ server_end >= FileLength
    /\ pc = "send" =>
          /\ server_end = -1 => digesters = <<>>
          /\ server_end >= 1 /\ server_end < FileLength =>
                fp = server_end + 1 /\ digesters = SubSeq(file, 1, fp)
    /\ pc \in {"remove", "check"} => digesters = file \/ FileLength = 1

\* An object that is not what was uploaded has been deleted, because that
\* was not the file.
ObjectInv ==
    /\ pc \in {"send", "requery", "remove", "check"} => tracker_uri = "uri"
    /\ pc = "check" => tracker = "none"
    /\ pc \in {"remove", "check"} => upload.state = "done" /\ etag = upload.data
    /\ upload.state = "done" /\ object # upload.data =>
          /\ object = NoObject /\ tracker = "none"
          /\ ~Down /\ tracker_uri = "uri" => upload.data # file \/ FileLength = 1

UploadInv == UploadTypes /\ LocalsInv /\ DigestInv /\ ObjectInv /\ ReturnsTheFile

LEMMA FilePart ==
    ASSUME NEW f \in Seq(Byte), NEW m \in Nat, NEW n \in Nat, n <= Len(f)
    PROVE  SubSeq(f, m + 1, n) \in Seq(Byte)
<1>1. m + 1 \in Int /\ n \in Int /\ \A i \in (m + 1)..n : f[i] \in Byte
  OBVIOUS
<1>2. QED
  BY <1>1, SubSeqProperties

LEMMA FirstPart ==
    ASSUME NEW f \in Seq(Byte), NEW n \in Nat, n <= Len(f)
    PROVE  SubSeq(f, 1, n) \in Seq(Byte)
<1>1. 1 \in Int /\ n \in Int /\ \A i \in 1..n : f[i] \in Byte
  OBVIOUS
<1>2. QED
  BY <1>1, SubSeqProperties

LEMMA WholeFile ==
    ASSUME NEW f \in Seq(Byte), NEW n \in Nat, n <= Len(f)
    PROVE  SubSeq(f, 1, n) \o SubSeq(f, n + 1, Len(f)) = f
<1>1. /\ 1 \in 1..Len(f) + 1 /\ n \in 1 - 1..Len(f) /\ Len(f) \in n..Len(f)
  OBVIOUS
<1>2. SubSeq(f, 1, n) \o SubSeq(f, n + 1, Len(f)) = SubSeq(f, 1, Len(f))
  BY <1>1, ConcatAdjacentSubSeq
<1>3. SubSeq(f, 1, Len(f)) = f
  BY SubSeqFull
<1>4. QED
  BY <1>2, <1>3

\* The length of what is left of the file.
LEMMA SentLength ==
    ASSUME file \in Seq(Byte), fp \in 0..FileLength
    PROVE  Len(Sent) = FileLength - fp
<1>1. FileLength \in Nat /\ FileLength = Len(file) /\ fp \in Nat /\ fp <= FileLength
  BY DEF FileLength
<1>2. fp + 1 \in Int /\ FileLength \in Int /\ \A i \in (fp + 1)..FileLength : file[i] \in Byte
  BY <1>1
<1>3. Len(SubSeq(file, fp + 1, FileLength))
         = IF fp + 1 <= FileLength THEN FileLength - (fp + 1) + 1 ELSE 0
  BY <1>2, SubSeqProperties
<1>4. Len(Sent) = IF fp + 1 <= FileLength THEN FileLength - (fp + 1) + 1 ELSE 0
  BY <1>3 DEF Sent
<1>5. QED
  BY <1>1, <1>4

\* The service grows the upload within the file, and an object is new if it
\* has just been made.
LEMMA ServiceKeepsUpload ==
    ASSUME file \in Seq(Byte), upload \in Upload, NEW n \in Nat, fp \in Nat,
           fp + n <= FileLength, ServiceKeeps(n)
    PROVE  /\ upload' \in Upload
           /\ \/ upload'.state = "done" /\ object' = upload'.data
              \/ upload'.state # "done"
              \/ upload' = upload /\ object' = object
<1>1. upload' \in Upload
  <2>1. CASE upload' = upload
    BY <2>1
  <2>2. CASE \E k \in 0..n : upload' = Grown(k)
    <3>1. PICK k \in 0..n : upload' = Grown(k)
      BY <2>2
    <3>2. fp + k \in Nat /\ fp + k <= Len(file)
      BY DEF FileLength
    <3>3. SubSeq(file, fp + 1, fp + k) \in Seq(Byte)
      BY <3>2, FilePart
    <3> DEFINE d == upload.data \o SubSeq(file, fp + 1, fp + k)
    <3>4. d \in Seq(Byte)
      <4>1. upload.data \in Seq(Byte)
        BY DEF Upload
      <4>2. QED
        BY <3>3, <4>1, ConcatProperties
    <3>5. upload' = [state |-> IF Len(d) = FileLength THEN "done" ELSE "active", data |-> d]
      BY <3>1 DEF Grown
    <3> HIDE DEF d
    <3>6. QED
      BY <3>4, <3>5 DEF Upload
  <2>3. QED
    BY <2>1, <2>2 DEF ServiceKeeps
<1>2. object' = IF upload'.state = "done" /\ upload.state # "done"
                THEN upload'.data ELSE object
  BY DEF ServiceKeeps
<1>3. upload.state = "done" => upload' = upload
  BY DEF ServiceKeeps
<1>4. QED
  BY <1>1, <1>2, <1>3

LEMMA UploadInit == Init => UploadInv
<1> SUFFICES ASSUME Init
             PROVE  UploadInv
  OBVIOUS
<1>1. file \in Seq(Byte)
  BY ResumableUploadAssumption DEF Init
<1>2. <<>> \in Seq(Byte) /\ upload = [state |-> "none", data |-> <<>>]
  BY DEF Init
<1>3. upload \in Upload /\ upload.state = "none"
  BY <1>2 DEF Upload
<1>4. fp = 0 /\ server_end = -1 /\ Len(file) \in Nat
  BY <1>1 DEF Init
<1>5. UploadTypes
  BY <1>1, <1>3, <1>4 DEF UploadTypes, FileLength
<1>6. LocalsInv /\ DigestInv /\ ReturnsTheFile
  BY <1>4 DEF Init, LocalsInv, DigestInv, ReturnsTheFile, Down
<1>7. ObjectInv
  BY <1>3 DEF Init, ObjectInv
<1>8. QED
  BY <1>5, <1>6, <1>7 DEF UploadInv

\* send_file is over, or the process is.
LEMMA EndStep ==
    ASSUME UploadInv, ~Down, NEW how \in {"idle", "raised"}, End(how),
           UNCHANGED file, tracker' \in {tracker, "none"},
           \/ UNCHANGED <<upload, object>>
           \/ upload' \in Upload /\ upload'.state = "active"
           \/ upload' = upload /\ object' = NoObject /\ tracker' = "none"
    PROVE  UploadInv'
<1>1. /\ pc' = how /\ Down' /\ fp' = 0 /\ server_end' = -1 /\ server_has_bytes' = 0
      /\ server_had_bytes_before_attempt' = 0 /\ digesters_before_attempt' = <<>>
  BY DEF End, FreshProcess, Down
<1>2. upload' \in Upload /\ file' \in Seq(Byte) /\ Len(file') \in Nat
  BY DEF UploadInv, UploadTypes
<1>3. UploadTypes'
  BY <1>1, <1>2 DEF UploadTypes, FileLength
<1>4. LocalsInv'
  BY <1>1 DEF LocalsInv
<1>5. DigestInv'
  BY <1>1 DEF DigestInv
<1>6. ReturnsTheFile'
  BY <1>1 DEF ReturnsTheFile
<1>7. ObjectInv'
  BY <1>1 DEF UploadInv, ObjectInv
<1>8. QED
  BY <1>3, <1>4, <1>5, <1>6, <1>7 DEF UploadInv

LEMMA StartProcessStep == UploadInv /\ StartProcess => UploadInv'
<1> SUFFICES ASSUME UploadInv, StartProcess
             PROVE  UploadInv'
  OBVIOUS
<1>1. /\ Down /\ pc' = "attempt" /\ fp' = 0 /\ server_end' = -1 /\ server_has_bytes' = 0
      /\ server_had_bytes_before_attempt' = 0 /\ digesters_before_attempt' = <<>>
      /\ digesters' = <<>> /\ tracker_uri' = tracker
      /\ UNCHANGED <<file, tracker, upload, object>>
  BY DEF StartProcess, FreshProcess, serviceVars
<1>2. UploadTypes'
  BY <1>1 DEF UploadInv, UploadTypes, FileLength
<1>3. LocalsInv' /\ DigestInv' /\ ReturnsTheFile'
  BY <1>1 DEF LocalsInv, DigestInv, ReturnsTheFile, Down
<1>4. ObjectInv'
  BY <1>1 DEF UploadInv, ObjectInv
<1>5. QED
  BY <1>2, <1>3, <1>4 DEF UploadInv

LEMMA AttemptStep == UploadInv /\ Attempt => UploadInv'
BY DEF UploadInv, Attempt, serviceVars, UploadTypes, LocalsInv, DigestInv, ObjectInv,
       ReturnsTheFile, FileLength, Down

\* Where the file is read on from.
LEMMA CaughtUp ==
    ASSUME NEW l \in Nat, NEW e \in Int, e >= -1
    PROVE  LET n == IF e < l THEN e + 1 ELSE l
           IN  /\ n \in Nat /\ n <= l
               /\ e # 0 /\ n = 1 => l = 1
               /\ e < l => n = e + 1
OBVIOUS

LEMMA QueryAnsweredStep == UploadInv /\ QueryAnswered => UploadInv'
<1> SUFFICES ASSUME UploadInv, QueryAnswered
             PROVE  UploadInv'
  OBVIOUS
<1>1. /\ pc = "query" /\ tracker_uri = "uri" /\ digesters = <<>> /\ CatchUp
      /\ server_has_bytes' = 0
      /\ UNCHANGED <<file, tracker, upload, object, tracker_uri, digesters_before_attempt,
                     server_had_bytes_before_attempt, etag>>
  BY DEF QueryAnswered, ServerPos, serviceVars, UploadInv, LocalsInv
<1>2. file \in Seq(Byte) /\ FileLength = Len(file) /\ FileLength \in Nat /\ FileLength' = FileLength
      /\ fp \in 0..FileLength /\ upload \in Upload /\ (fp = 1 => FileLength = 1)
  BY <1>1 DEF UploadInv, UploadTypes, LocalsInv, FileLength
<1>3. server_end' \in Int /\ server_end' >= -1
  <2>1. upload.data \in Seq(Byte)
    BY <1>2 DEF Upload
  <2>2. QED
    BY <1>2, <2>1 DEF QueryAnswered
<1>4. ~Down /\ pc' \in {"send", "start"} /\ ~Down'
  BY <1>1 DEF CatchUp, Down
<1> DEFINE n == IF server_end' < FileLength THEN server_end' + 1 ELSE FileLength
<1>5. /\ server_end' = 0 => pc' = "send" /\ fp' = fp /\ digesters' = <<>>
      /\ server_end' # 0 =>
            /\ pc' = IF server_end' < FileLength THEN "send" ELSE "start"
            /\ fp' = n
            /\ digesters' = <<>> \o SubSeq(file, 1, n)
  BY <1>1 DEF CatchUp
<1>6. /\ n \in Nat /\ n <= Len(file)
      /\ server_end' # 0 /\ n = 1 => FileLength = 1
      /\ server_end' < FileLength => n = server_end' + 1
  BY <1>2, <1>3, CaughtUp
<1> HIDE DEF n
<1>7. <<>> \o SubSeq(file, 1, n) = SubSeq(file, 1, n)
  BY <1>2, <1>6, FirstPart, ConcatEmptySeq
<1>8. fp' \in 0..FileLength /\ (fp' = 1 => FileLength = 1)
  BY <1>2, <1>5, <1>6
<1>9. /\ pc' = "start" => server_end' >= FileLength
      /\ pc' = "send" =>
            /\ server_end' = -1 => digesters' = <<>>
            /\ server_end' >= 1 /\ server_end' < FileLength =>
                  fp' = server_end' + 1 /\ digesters' = SubSeq(file, 1, fp')
  <2>1. CASE server_end' = 0
    BY <1>5, <2>1
  <2>2. CASE server_end' # 0 /\ server_end' < FileLength
    <3>1. /\ pc' = "send" /\ fp' = server_end' + 1 /\ fp' = n
          /\ digesters' = SubSeq(file, 1, n)
      BY <1>5, <1>6, <1>7, <2>2
    <3>2. server_end' = -1 => digesters' = <<>>
      <4>1. SubSeq(file, 1, 0) = <<>>
        BY SubSeqEmpty
      <4>2. server_end' = -1 => n = 0
        BY <3>1
      <4>3. QED
        BY <3>1, <4>1, <4>2
    <3>3. QED
      BY <3>1, <3>2
  <2>3. CASE server_end' # 0 /\ ~(server_end' < FileLength)
    BY <1>2, <1>3, <1>5, <2>3
  <2>4. QED
    BY <2>1, <2>2, <2>3
<1>10. UploadTypes'
  BY <1>1, <1>2, <1>3, <1>8 DEF UploadTypes
<1>11. LocalsInv'
  BY <1>1, <1>2, <1>4, <1>8 DEF UploadInv, LocalsInv
<1>12. DigestInv'
  BY <1>1, <1>2, <1>4, <1>9 DEF DigestInv
<1>13. ObjectInv' /\ ReturnsTheFile'
  BY <1>1, <1>2, <1>4 DEF UploadInv, ObjectInv, ReturnsTheFile
<1>14. QED
  BY <1>10, <1>11, <1>12, <1>13 DEF UploadInv

LEMMA QueryRefusedStep == UploadInv /\ QueryRefused => UploadInv'
<1> SUFFICES ASSUME UploadInv, QueryRefused
             PROVE  UploadInv'
  OBVIOUS
<1>1. /\ pc = "query" /\ pc' \in {"start", "retry"}
      /\ UNCHANGED <<file, tracker, upload, object, tracker_uri, fp, digesters,
                     digesters_before_attempt, server_has_bytes,
                     server_had_bytes_before_attempt, server_end, etag>>
  BY DEF QueryRefused, serviceVars, processVars, digestVars, progressVars
<1>2. UploadTypes' /\ LocalsInv'
  BY <1>1 DEF UploadInv, UploadTypes, LocalsInv, FileLength, Down
<1>3. DigestInv'
  BY <1>1 DEF UploadInv, DigestInv, LocalsInv
<1>4. ObjectInv' /\ ReturnsTheFile'
  BY <1>1 DEF UploadInv, ObjectInv, ReturnsTheFile, Down, FileLength
<1>5. QED
  BY <1>2, <1>3, <1>4 DEF UploadInv

LEMMA StartUploadStep == UploadInv /\ StartUpload => UploadInv'
<1> SUFFICES ASSUME UploadInv, StartUpload
             PROVE  UploadInv'
  OBVIOUS
<1>1. /\ pc = "start" /\ pc' = "send" /\ tracker_uri' = "uri" /\ server_has_bytes' = 0
      /\ upload' = [state |-> "active", data |-> <<>>]
      /\ UNCHANGED <<file, object, fp, digesters, digesters_before_attempt,
                     server_had_bytes_before_attempt, server_end>>
  BY DEF StartUpload, digestVars
<1>2. upload' \in Upload /\ upload'.state = "active"
  BY <1>1 DEF Upload
<1>3. UploadTypes'
  BY <1>1, <1>2 DEF UploadInv, UploadTypes, FileLength
<1>4. LocalsInv' /\ ReturnsTheFile'
  BY <1>1 DEF UploadInv, LocalsInv, ReturnsTheFile, FileLength, Down
<1>5. DigestInv'
  <2>1. (server_end = -1 /\ digesters = <<>>) \/ server_end >= FileLength
    BY <1>1 DEF UploadInv, DigestInv
  <2>2. server_end \in Int /\ server_end >= -1 /\ FileLength \in Nat
    BY DEF UploadInv, UploadTypes, FileLength
  <2>3. server_end = -1 => digesters = <<>>
    BY <2>1, <2>2
  <2>4. ~(server_end >= 1 /\ server_end < FileLength)
    BY <2>1, <2>2
  <2>5. QED
    BY <1>1, <2>3, <2>4 DEF DigestInv, FileLength
<1>6. ObjectInv'
  BY <1>1, <1>2 DEF ObjectInv
<1>7. QED
  BY <1>3, <1>4, <1>5, <1>6 DEF UploadInv

LEMMA StartFailsStep == UploadInv /\ StartFails => UploadInv'
<1> SUFFICES ASSUME UploadInv, StartFails
             PROVE  UploadInv'
  OBVIOUS
<1>1. /\ pc = "start" /\ pc' = "retry" /\ server_has_bytes' = 0
      /\ UNCHANGED <<file, tracker, upload, object, tracker_uri, fp, digesters,
                     digesters_before_attempt, server_had_bytes_before_attempt, server_end>>
  BY DEF StartFails, digestVars, serviceVars
<1>2. UploadTypes' /\ LocalsInv'
  BY <1>1 DEF UploadInv, UploadTypes, LocalsInv, FileLength, Down
<1>3. DigestInv' /\ ReturnsTheFile'
  BY <1>1 DEF DigestInv, ReturnsTheFile
<1>4. ObjectInv'
  BY <1>1 DEF UploadInv, ObjectInv, Down, FileLength
<1>5. QED
  BY <1>2, <1>3, <1>4 DEF UploadInv

LEMMA StartAbortsStep == UploadInv /\ StartAborts => UploadInv'
<1> SUFFICES ASSUME UploadInv, StartAborts
             PROVE  UploadInv'
  OBVIOUS
<1>1. /\ ~Down /\ End("raised") /\ tracker' = "none" /\ UNCHANGED <<file, object>>
      /\ upload' \in {upload, [state |-> "active", data |-> <<>>]}
  BY DEF StartAborts, Abort, Down
<1>2. CASE upload' = upload
  BY <1>1, <1>2, EndStep
<1>3. CASE upload' = [state |-> "active", data |-> <<>>]
  <2>1. upload' \in Upload /\ upload'.state = "active"
    BY <1>3 DEF Upload
  <2>2. QED
    BY <1>1, <2>1, EndStep
<1>4. QED
  BY <1>1, <1>2, <1>3

\* A request with the bytes of the file, whatever becomes of it.
LEMMA SendStep ==
    ASSUME UploadInv, pc = "send", NEW n \in Nat, fp + n <= FileLength, ServiceKeeps(n),
           fp' \in 0..FileLength, fp' = 1 => FileLength = 1,
           UNCHANGED <<file, tracker, tracker_uri, digesters_before_attempt, server_has_bytes,
                       server_had_bytes_before_attempt, server_end>>,
           \/ pc' \in {"requery", "retry"}
           \/ /\ pc' = "remove" /\ upload'.state = "done" /\ etag' = upload'.data
              /\ digesters' = file \/ FileLength = 1
    PROVE  UploadInv'
<1>1. file \in Seq(Byte) /\ upload \in Upload /\ fp \in Nat /\ FileLength' = FileLength
  BY DEF UploadInv, UploadTypes, FileLength
<1>2. /\ upload' \in Upload
      /\ \/ upload'.state = "done" /\ object' = upload'.data
         \/ upload'.state # "done"
         \/ upload' = upload /\ object' = object
  BY <1>1, ServiceKeepsUpload
<1>3. UploadTypes'
  BY <1>1, <1>2 DEF UploadInv, UploadTypes
<1>4. ~Down /\ ~Down'
  BY DEF Down
<1>5. LocalsInv' /\ ReturnsTheFile'
  BY <1>1, <1>4 DEF UploadInv, LocalsInv, ReturnsTheFile
<1>6. DigestInv'
  BY <1>1 DEF DigestInv
<1>7. ObjectInv'
  <2>1. tracker_uri' = "uri"
    BY DEF UploadInv, ObjectInv
  <2>2. ASSUME upload'.state = "done", object' # upload'.data
        PROVE  /\ object' = NoObject /\ tracker' = "none"
               /\ ~Down' /\ tracker_uri' = "uri" => upload'.data # file' \/ FileLength' = 1
    BY <1>1, <1>2, <1>4, <2>2 DEF UploadInv, ObjectInv
  <2>3. QED
    BY <2>1, <2>2 DEF ObjectInv
<1>8. QED
  BY <1>3, <1>5, <1>6, <1>7 DEF UploadInv

LEMMA SendBreaksStep == UploadInv /\ SendBreaks => UploadInv'
<1> SUFFICES ASSUME UploadInv, SendBreaks
             PROVE  UploadInv'
  OBVIOUS
<1>1. FileLength \in Nat /\ fp \in 0..FileLength
  BY DEF UploadInv, UploadTypes, FileLength
<1>2. PICK p \in fp..FileLength :
         /\ fp' = IF p + BUFFER_SIZE < FileLength THEN p + BUFFER_SIZE ELSE FileLength
         /\ ServiceKeeps(fp' - fp)
  BY DEF SendBreaks
<1>3. BUFFER_SIZE \in Nat /\ BUFFER_SIZE >= 2
  BY ResumableUploadAssumption
<1>4. fp' \in 0..FileLength /\ fp' >= fp /\ (fp' = 1 => FileLength = 1)
  BY <1>1, <1>2, <1>3
<1> DEFINE n == fp' - fp
<1>5. n \in Nat /\ fp + n <= FileLength
  <2>1. \A x, y, l \in Nat : x <= y /\ y <= l => y - x \in Nat /\ x + (y - x) <= l
    OBVIOUS
  <2>2. fp \in Nat /\ fp' \in Nat /\ FileLength \in Nat /\ fp <= fp' /\ fp' <= FileLength
    BY <1>1, <1>4
  <2>3. fp' - fp \in Nat /\ fp + (fp' - fp) <= FileLength
    BY <2>1, <2>2
  <2>4. QED
    BY <2>3
<1>6. ServiceKeeps(n)
  BY <1>2
<1>7. /\ pc = "send" /\ pc' \in {"requery", "retry"}
      /\ UNCHANGED <<file, tracker, tracker_uri, digesters_before_attempt, server_has_bytes,
                     server_had_bytes_before_attempt, server_end>>
  BY DEF SendBreaks, progressVars
<1> HIDE DEF n
<1>8. QED
  BY <1>4, <1>5, <1>6, <1>7, SendStep

\* A digest that is sent with a count that comes out is that of the file.
LEMMA DigestIsWhole ==
    ASSUME UploadInv, pc = "send", TotalBytesUploaded = FileLength
    PROVE  digesters \o Sent = file \/ FileLength = 1
<1>1. /\ file \in Seq(Byte) /\ FileLength = Len(file) /\ FileLength \in Nat
      /\ fp \in 0..FileLength /\ server_end \in Int /\ server_end >= -1
      /\ fp = 1 => FileLength = 1
  BY DEF UploadInv, UploadTypes, LocalsInv, FileLength
<1>2. server_end + 1 + (FileLength - fp) = FileLength
  BY <1>1, SentLength DEF TotalBytesUploaded
<1>3. fp = server_end + 1
  BY <1>1, <1>2
<1>4. CASE server_end = -1
  <2>1. fp = 0 /\ digesters = <<>>
    BY <1>3, <1>4 DEF UploadInv, DigestInv
  <2>2. Sent = SubSeq(file, 1, Len(file))
    BY <1>1, <2>1 DEF Sent
  <2>3. Sent = file
    BY <1>1, <2>2, SubSeqFull
  <2>4. <<>> \o file = file
    BY <1>1, ConcatEmptySeq
  <2>5. QED
    BY <2>1, <2>3, <2>4
<1>5. CASE server_end = 0
  BY <1>1, <1>3, <1>5
<1>6. CASE server_end >= 1
  <2>1. server_end < FileLength
    BY <1>1, <1>3
  <2>2. digesters = SubSeq(file, 1, fp)
    BY <1>6, <2>1 DEF UploadInv, DigestInv
  <2>3. fp \in Nat /\ fp <= Len(file)
    BY <1>1
  <2>4. SubSeq(file, 1, fp) \o SubSeq(file, fp + 1, Len(file)) = file
    BY <1>1, <2>3, WholeFile
  <2>5. QED
    BY <1>1, <2>2, <2>4 DEF Sent
<1>7. QED
  BY <1>1, <1>4, <1>5, <1>6

LEMMA SendEndsStep ==
    UploadInv /\ (SendFindsEof \/ SendSucceeds \/ SendRefused) => UploadInv'
<1> SUFFICES ASSUME UploadInv, SendFindsEof \/ SendSucceeds \/ SendRefused
             PROVE  UploadInv'
  OBVIOUS
<1>1. /\ pc = "send" /\ fp' = FileLength /\ digesters' = digesters \o Sent
      /\ UNCHANGED <<file, tracker, tracker_uri, digesters_before_attempt, server_has_bytes,
                     server_had_bytes_before_attempt, server_end>>
      /\ ServiceKeeps(Len(Sent))
  BY DEF SendFindsEof, SendSucceeds, SendRefused, SendEnds, progressVars
<1>2. FileLength \in Nat /\ fp \in 0..FileLength /\ file \in Seq(Byte)
  BY DEF UploadInv, UploadTypes, FileLength
<1>3. Len(Sent) = FileLength - fp
  BY <1>2, SentLength
<1>4. Len(Sent) \in Nat /\ fp + Len(Sent) <= FileLength
  BY <1>2, <1>3
<1>5. fp' \in 0..FileLength /\ (fp' = 1 => FileLength = 1)
  BY <1>1, <1>2
<1>6. \/ pc' \in {"requery", "retry"}
      \/ /\ pc' = "remove" /\ upload'.state = "done" /\ etag' = upload'.data
         /\ digesters' = file \/ FileLength = 1
  <2>1. CASE SendFindsEof \/ SendRefused
    BY <2>1 DEF SendFindsEof, SendRefused
  <2>2. CASE SendSucceeds
    BY <1>1, <2>2, DigestIsWhole DEF SendSucceeds
  <2>3. QED
    BY <2>1, <2>2
<1>7. QED
  BY <1>1, <1>4, <1>5, <1>6, SendStep

LEMMA RequeryStep == UploadInv /\ Requery => UploadInv'
<1> SUFFICES ASSUME UploadInv, Requery
             PROVE  UploadInv'
  OBVIOUS
<1>1. pc = "requery" /\ ~Down /\ UNCHANGED <<file, upload, object>>
  BY DEF Requery, Down, serviceVars
<1>2. CASE Abort
  BY <1>1, <1>2, EndStep DEF Abort
<1>3. CASE ~Abort
  <2>1. /\ pc' = "retry"
        /\ UNCHANGED <<tracker, tracker_uri, fp, digesters, digesters_before_attempt,
                       server_has_bytes, server_had_bytes_before_attempt, server_end>>
    BY <1>3 DEF Requery, processVars, digestVars, progressVars
  <2>2. UploadTypes' /\ LocalsInv'
    BY <1>1, <2>1 DEF UploadInv, UploadTypes, LocalsInv, FileLength, Down
  <2>3. DigestInv' /\ ReturnsTheFile'
    BY <2>1 DEF DigestInv, ReturnsTheFile
  <2>4. ObjectInv'
    BY <1>1, <2>1 DEF UploadInv, ObjectInv, FileLength, Down
  <2>5. QED
    BY <2>2, <2>3, <2>4 DEF UploadInv
<1>4. QED
  BY <1>2, <1>3

LEMMA TrackProgressStep == UploadInv /\ TrackProgress => UploadInv'
<1> SUFFICES ASSUME UploadInv, TrackProgress
             PROVE  UploadInv'
  OBVIOUS
<1>1. pc = "retry" /\ ~Down /\ UNCHANGED <<file, tracker, upload, object>>
  BY DEF TrackProgress, Down, serviceVars
<1>2. CASE End("raised")
  BY <1>1, <1>2, EndStep
<1>3. CASE ~End("raised")
  <2>1. ~(server_has_bytes > server_had_bytes_before_attempt) /\ digesters_before_attempt = <<>>
    BY DEF UploadInv, LocalsInv
  <2>2. /\ pc' = "attempt" /\ digesters' = <<>>
        /\ UNCHANGED <<tracker_uri, fp, digesters_before_attempt, server_has_bytes,
                       server_had_bytes_before_attempt, server_end>>
    BY <1>3, <2>1 DEF TrackProgress
  <2>3. UploadTypes' /\ LocalsInv'
    BY <1>1, <2>2 DEF UploadInv, UploadTypes, LocalsInv, FileLength, Down
  <2>4. DigestInv' /\ ReturnsTheFile'
    BY <2>2 DEF DigestInv, ReturnsTheFile
  <2>5. ObjectInv'
    BY <1>1, <2>2 DEF UploadInv, ObjectInv, FileLength, Down
  <2>6. QED
    BY <2>3, <2>4, <2>5 DEF UploadInv
<1>4. QED
  BY <1>2, <1>3

LEMMA RemoveTrackerStep == UploadInv /\ RemoveTracker => UploadInv'
<1> SUFFICES ASSUME UploadInv, RemoveTracker
             PROVE  UploadInv'
  OBVIOUS
<1>1. /\ pc = "remove" /\ pc' = "check" /\ tracker' = "none"
      /\ UNCHANGED <<file, upload, object, tracker_uri, fp, digesters,
                     digesters_before_attempt, server_has_bytes,
                     server_had_bytes_before_attempt, server_end, etag>>
  BY DEF RemoveTracker, serviceVars, processVars, digestVars, progressVars
<1>2. UploadTypes' /\ LocalsInv'
  BY <1>1 DEF UploadInv, UploadTypes, LocalsInv, FileLength, Down
<1>3. DigestInv' /\ ReturnsTheFile'
  BY <1>1 DEF UploadInv, DigestInv, ReturnsTheFile, FileLength
<1>4. ObjectInv'
  BY <1>1 DEF UploadInv, ObjectInv, FileLength, Down
<1>5. QED
  BY <1>2, <1>3, <1>4 DEF UploadInv

\* At the check, an object that is there is what was uploaded, and so is
\* one that is not there no file.
LEMMA CheckedObject ==
    ASSUME UploadInv, pc = "check"
    PROVE  /\ tracker = "none" /\ etag = upload.data
           /\ digesters = file \/ FileLength = 1
           /\ object = etag \/ (object = NoObject /\ (etag # file \/ FileLength = 1))
BY DEF UploadInv, DigestInv, ObjectInv, Down

LEMMA CheckStep == UploadInv /\ CheckFinalMd5 => UploadInv'
<1> SUFFICES ASSUME UploadInv, CheckFinalMd5
             PROVE  UploadInv'
  OBVIOUS
<1>1. /\ pc = "check" /\ digesters = etag /\ UNCHANGED <<file, tracker, upload, object>>
      /\ pc' = "returned" /\ Down' /\ fp' = 0 /\ server_end' = -1 /\ server_has_bytes' = 0
      /\ server_had_bytes_before_attempt' = 0 /\ digesters_before_attempt' = <<>>
  BY DEF CheckFinalMd5, End, FreshProcess, serviceVars, Down
<1>2. /\ tracker = "none" /\ etag = upload.data
      /\ digesters = file \/ FileLength = 1
      /\ object = etag \/ (object = NoObject /\ (etag # file \/ FileLength = 1))
  BY <1>1, CheckedObject
<1>3. ReturnsTheFile'
  BY <1>1, <1>2 DEF ReturnsTheFile, FileLength
<1>4. UploadTypes'
  BY <1>1 DEF UploadInv, UploadTypes, FileLength
<1>5. LocalsInv' /\ DigestInv'
  BY <1>1 DEF LocalsInv, DigestInv
<1>6. ObjectInv'
  BY <1>1 DEF UploadInv, ObjectInv
<1>7. QED
  BY <1>3, <1>4, <1>5, <1>6 DEF UploadInv

LEMMA DeleteStep == UploadInv /\ DeleteWrongObject => UploadInv'
<1> SUFFICES ASSUME UploadInv, DeleteWrongObject
             PROVE  UploadInv'
  OBVIOUS
<1>1. pc = "check" /\ ~Down /\ digesters # etag /\ UNCHANGED <<file, upload>>
  BY DEF DeleteWrongObject, Down
<1>2. tracker = "none" /\ etag = upload.data /\ (digesters = file \/ FileLength = 1)
  BY <1>1, CheckedObject
<1>3. CASE object' \in {NoObject, object} /\ Abort
  BY <1>1, <1>3, EndStep DEF Abort
<1>4. CASE ~(object' \in {NoObject, object} /\ Abort)
  <2>1. /\ pc' = "retry" /\ object' \in {object, NoObject}
        /\ UNCHANGED <<tracker, tracker_uri, fp, digesters, digesters_before_attempt,
                       server_has_bytes, server_had_bytes_before_attempt, server_end>>
    BY <1>4 DEF DeleteWrongObject, processVars, digestVars, progressVars
  <2>2. UploadTypes' /\ LocalsInv'
    BY <1>1, <2>1 DEF UploadInv, UploadTypes, LocalsInv, FileLength, Down
  <2>3. DigestInv' /\ ReturnsTheFile'
    BY <2>1 DEF DigestInv, ReturnsTheFile
  <2>4. ObjectInv'
    BY <1>1, <1>2, <2>1 DEF UploadInv, ObjectInv, FileLength, Down
  <2>5. QED
    BY <2>2, <2>3, <2>4 DEF UploadInv
<1>5. QED
  BY <1>3, <1>4

LEMMA CrashStep == UploadInv /\ Crash => UploadInv'
<1> SUFFICES ASSUME UploadInv, Crash
             PROVE  UploadInv'
  OBVIOUS
<1>1. ~Down /\ End("idle") /\ UNCHANGED <<file, tracker, upload, object>>
  BY DEF Crash, serviceVars
<1>2. QED
  BY <1>1, EndStep

LEMMA EditFileStep == UploadInv /\ EditFile => UploadInv'
<1> SUFFICES ASSUME UploadInv, EditFile
             PROVE  UploadInv'
  OBVIOUS
<1>1. /\ Down /\ pc' = "idle" /\ Down' /\ file' \in Seq(Byte)
      /\ UNCHANGED <<tracker, upload, object, tracker_uri, fp, digesters,
                     digesters_before_attempt, server_has_bytes,
                     server_had_bytes_before_attempt, server_end, etag>>
  BY ResumableUploadAssumption
     DEF EditFile, serviceVars, processVars, digestVars, progressVars, Down
<1>2. fp = 0
  BY <1>1 DEF UploadInv, LocalsInv
<1>3. UploadTypes'
  BY <1>1, <1>2 DEF UploadInv, UploadTypes, FileLength
<1>4. LocalsInv' /\ DigestInv' /\ ReturnsTheFile'
  BY <1>1, <1>2 DEF UploadInv, LocalsInv, DigestInv, ReturnsTheFile
<1>5. ObjectInv'
  BY <1>1 DEF UploadInv, ObjectInv
<1>6. QED
  BY <1>3, <1>4, <1>5 DEF UploadInv

LEMMA UploadStep == UploadInv /\ [Next]_vars => UploadInv'
<1>1. ASSUME UploadInv, UNCHANGED vars
      PROVE  UploadInv'
  BY <1>1 DEF vars, serviceVars, processVars, digestVars, progressVars, UploadInv, UploadTypes,
              LocalsInv, DigestInv, ObjectInv, ReturnsTheFile, FileLength, Down
<1>2. QED
  BY <1>1, StartProcessStep, AttemptStep, QueryAnsweredStep, QueryRefusedStep,
     StartUploadStep, StartFailsStep, StartAbortsStep, SendBreaksStep, SendEndsStep,
     RequeryStep, TrackProgressStep, RemoveTrackerStep, CheckStep, DeleteStep, CrashStep,
     EditFileStep DEF Next, SendFile

\* The count of bytes and the digest that is kept beside it agree with the
\* file, and the object is what the service was sent
\* (resumable_upload_handler.py:415-536).
THEOREM UploadInvHolds == Spec => []UploadInv
<1>1. QED
  BY UploadInit, UploadStep, PTL DEF Spec

\* send_file returns only when the object is the file, for any files but
\* those of one byte, any buffer of two bytes or more, and any number of
\* processes and retries (resumable_upload_handler.py:426-451, 504-525,
\* 650-664).
THEOREM UploadReturnsTheFile == Spec => []ReturnsTheFile
<1>1. UploadInv => ReturnsTheFile
  BY DEF UploadInv
<1>2. QED
  BY <1>1, UploadInvHolds, PTL

\* An object that is the file is not deleted as one with incorrect content,
\* but for a file of one byte (resumable_upload_handler.py:426-451, 504-555).
THEOREM UploadKeepsGoodObject == Spec => GoodObjectIsKept
<1>1. ASSUME UploadInv, [Next]_vars, object # NoObject, object' = NoObject
      PROVE  object # file \/ FileLength = 1
  <2>1. CASE DeleteWrongObject
    <3>1. pc = "check" /\ digesters # etag
      BY <2>1 DEF DeleteWrongObject
    <3>2. /\ digesters = file \/ FileLength = 1
          /\ object = etag \/ object = NoObject
      BY <1>1, <3>1, CheckedObject
    <3>3. QED
      BY <1>1, <3>1, <3>2
  <2>2. CASE SendBreaks \/ SendFindsEof \/ SendSucceeds \/ SendRefused
    <3>1. object' = object \/ (object' = upload'.data /\ upload'.state = "done"
                               /\ upload.state # "done")
      BY <2>2 DEF SendBreaks, SendFindsEof, SendSucceeds, SendRefused, ServiceKeeps
    <3>2. upload'.data \in Seq(Byte)
      BY <1>1, UploadStep DEF UploadInv, UploadTypes, Upload
    <3>3. QED
      BY <1>1, <3>1, <3>2, ResumableUploadAssumption
  <2>3. CASE ~DeleteWrongObject
             /\ ~(SendBreaks \/ SendFindsEof \/ SendSucceeds \/ SendRefused)
    <3>1. object' = object
      BY <1>1, <2>3 DEF vars, serviceVars, Next, SendFile, StartProcess, Attempt,
         QueryAnswered, QueryRefused, StartUpload, StartFails, StartAborts, Requery,
         TrackProgress, RemoveTracker, CheckFinalMd5, Crash, EditFile
    <3>2. QED
      BY <1>1, <3>1
  <2>4. QED
    BY <2>1, <2>2, <2>3
<1>2. UploadInv /\ [Next]_vars => [object # NoObject /\ object' = NoObject
                                     => object # file \/ FileLength = 1]_vars
  BY <1>1
<1>3. QED
  BY <1>2, UploadInvHolds, PTL DEF Spec, GoodObjectIsKept
=============================================================================
