---------------------- MODULE ResumableDownloadProofs ----------------------
(***************************************************************************)
(* A download that returns has joined parts of one version of the object,  *)
(* for any versions of any sizes, however often it was resumed, by this    *)
(* process or by later ones.                                               *)
(***************************************************************************)
EXTENDS ResumableDownload, SequenceTheorems, TLAPS

Bytes == [version : Nat, place : Nat]

(* The inductive invariant.  The tracker file names the version the file   *)
(* is of, unless the object was replaced before the first request; a file  *)
(* that is misnamed may be of any version, and is of one as long as it is  *)
(* not resumed.                                                            *)

PartOfTracked == \E v \in Version : (~misnamed => v = tracker) /\ IsPartOf(file, v)

ProcessInv == ~Down => key_etag \in Version /\ etag_value = tracker

TrackerInv ==
    /\ pc \in {"get", "read", "done", "retry", "close"} => tracker # NoEtag
    /\ pc = "truncate" => tracker = key_etag /\ start = 0

\* A response that is kept for another attempt has ended.
ResponseInv ==
    /\ pc = "read" => resp \in Response
    /\ pc \in {"attempt", "truncate"} /\ resp # NoResponse => resp.next > resp.last

FileInv ==
    spoilt = {} =>
        /\ pc # "truncate" /\ tracker # NoEtag => PartOfTracked
        /\ pc = "returned" => \E v \in Version : IsPartOf(file, v)

\* The body goes on where the file ends.
BodyInv ==
    spoilt = {} /\ pc \in {"get", "read"} =>
        /\ fp <= Len(file) \/ append_mode
        /\ (pc = "read" \/ resp # NoResponse) /\ resp.next <= resp.last =>
              /\ resp.version = key_etag
              /\ resp.next = Len(file) + 1
              /\ resp.last <= Size[key_etag]
              /\ IsPartOf(file, key_etag)
              /\ ~misnamed => key_etag = tracker
        /\ pc = "get" /\ resp = NoResponse =>
              \/ start = 0 /\ (file = <<>> \/ again)
              \/ /\ start = Len(file) /\ file # <<>> /\ IsPartOf(file, key_etag)
                 /\ key_etag = tracker

DownloadInv == TypeOK /\ ProcessInv /\ TrackerInv /\ ResponseInv /\ FileInv /\ BodyInv

LEMMA SizeType == Version = 1..Len(Size) /\ Len(Size) \in Nat /\ \A v \in Version : Size[v] \in Nat
BY ResumableDownloadAssumption DEF Version

LEMMA EmptyIsPart == ASSUME NEW v \in Version PROVE IsPartOf(<<>>, v)
BY SizeType DEF IsPartOf

\* The next byte of a version makes a part a longer one.
LEMMA PartGrows ==
    ASSUME NEW v \in Version, NEW f \in Seq(Bytes), IsPartOf(f, v), Len(f) < Size[v]
    PROVE  IsPartOf(Append(f, Byte(v, Len(f) + 1)), v)
<1>1. Byte(v, Len(f) + 1) \in Bytes
  BY SizeType DEF Byte, Bytes
<1> DEFINE b == Byte(v, Len(f) + 1)
<1> DEFINE g == Append(f, b)
<1> HIDE DEF b
<1>2. /\ Len(g) = Len(f) + 1
      /\ \A i \in 1..Len(f) : g[i] = f[i]
      /\ g[Len(f) + 1] = b
  BY <1>1, AppendProperties DEF b
<1> HIDE DEF g
<1>3. Len(f) \in Nat /\ Size[v] \in Nat
  BY SizeType
<1>4. \A n \in 1..Len(g) : g[n] = Byte(v, n)
  <2>1. TAKE n \in 1..Len(g)
  <2>2. CASE n \in 1..Len(f)
    BY <1>2, <2>2 DEF IsPartOf
  <2>3. CASE n = Len(f) + 1
    BY <1>2, <2>3 DEF b
  <2>4. QED
    BY <1>2, <1>3, <2>2, <2>3
<1>5. QED
  BY <1>2, <1>3, <1>4 DEF IsPartOf, g, b

\* A write leaves the file one of bytes, holes among them.
LEMMA WrittenType ==
    ASSUME NEW f \in Seq(Bytes), NEW b \in Bytes, fp \in Nat
    PROVE  Written(f, b) \in Seq(Bytes)
<1>1. Append(f, b) \in Seq(Bytes)
  BY AppendProperties
<1>2. Hole \in Bytes
  BY DEF Hole, Bytes
<1> DEFINE g == [n \in 1..fp + 1 |-> IF n <= Len(f) THEN f[n] ELSE IF n <= fp THEN Hole ELSE b]
<1>3. g \in [1..fp + 1 -> Bytes]
  BY <1>2
<1>4. fp + 1 \in Nat
  OBVIOUS
<1> HIDE DEF g
<1>5. g \in Seq(Bytes)
  BY <1>3, <1>4
<1>6. Written(f, b) = Append(f, b) \/ Written(f, b) = g
  BY DEF Written, g
<1>7. QED
  BY <1>1, <1>5, <1>6

LEMMA DownloadInit == Init => DownloadInv
<1> SUFFICES ASSUME Init
             PROVE  DownloadInv
  OBVIOUS
<1>1. file \in Seq(Bytes)
  <2>1. Hole \in Bytes
    BY DEF Hole, Bytes
  <2>2. <<Hole>> \in Seq(Bytes)
    BY <2>1
  <2>3. file = <<>> \/ file = <<Hole>>
    BY DEF Init
  <2>4. CASE file = <<>>
    BY <2>4
  <2>5. CASE file = <<Hole>>
    BY <2>2, <2>5
  <2>6. QED
    BY <2>3, <2>4, <2>5
<1>2. object \in Version
  BY SizeType, ResumableDownloadAssumption DEF Init
<1>3. TypeOK
  <2>1. replacements \in 0..MaxReplacements
    BY ResumableDownloadAssumption DEF Init
  <2>2. QED
    BY <1>1, <1>2, <2>1 DEF Init, TypeOK, Bytes
<1>4. QED
  BY <1>3 DEF Init, DownloadInv, ProcessInv, TrackerInv, ResponseInv, FileInv, BodyInv, Down

(* The type.                                                               *)

LEMMA EndType ==
    ASSUME TypeOK, NEW how \in {"idle", "returned", "raised"}, End(how),
           UNCHANGED <<service, file, append_mode>>,
           tracker' \in Version \cup {NoEtag},
           misnamed' \in BOOLEAN,
           spoilt' \subseteq {"crash", "replaced", "restored", "pipe", "position"}
    PROVE  TypeOK'
BY DEF TypeOK, End, FreshProcess, service

LEMMA TypeStep == TypeOK /\ ProcessInv /\ ResponseInv /\ [Next]_vars => TypeOK'
<1> SUFFICES ASSUME TypeOK, ProcessInv, ResponseInv, [Next]_vars
             PROVE  TypeOK'
  OBVIOUS
<1>0. file \in Seq(Bytes) /\ Len(file) \in Nat
  BY DEF TypeOK, Bytes
<1>1. CASE StartProcess
  BY <1>1 DEF StartProcess, FreshProcess, TypeOK, service, history
<1>2. CASE Resume
  BY <1>0, <1>2 DEF Resume, BeginAttempt, TypeOK, service, history
<1>3. CASE AlreadyComplete
  BY <1>0, <1>3 DEF AlreadyComplete, BeginAttempt, TypeOK, service, history
<1>4. CASE LargerThanObject
  BY <1>4, EndType DEF LargerThanObject, TypeOK, service, history
<1>5. CASE SaveTracker
  BY <1>0, <1>5 DEF SaveTracker, BeginAttempt, ProcessInv, Down, TypeOK, service, history
<1>6. CASE SaveTrackerFails
  BY <1>6, EndType DEF SaveTrackerFails, TypeOK, service, history
<1>7. CASE Truncate
  <2>1. file' \in Seq(Bytes)
    <3>1. file' = <<>>
      BY <1>7 DEF Truncate
    <3>2. QED
      BY <3>1
  <2>2. spoilt' \subseteq {"crash", "replaced", "restored", "pipe", "position"}
    BY <1>7 DEF Truncate
  <2>3. /\ UNCHANGED <<service, tracker, append_mode, processVars>>
        /\ misnamed' = FALSE /\ pc' = "get"
    BY <1>7 DEF Truncate
  <2>4. QED
    BY <2>1, <2>2, <2>3 DEF processVars, countVars, TypeOK, service, Bytes
<1>8. CASE OpenRead
  <2>1. CASE resp # NoResponse
    BY <1>8, <2>1 DEF OpenRead, countVars, TypeOK, service, history
  <2>2. CASE resp = NoResponse
    <3>1. key_etag \in Version
      BY <1>8 DEF OpenRead, ProcessInv, Down
    <3>2. resp' \in Response
      <4> DEFINE l == IF start > 0 /\ Size[key_etag] < Size[object]
                      THEN Size[key_etag] ELSE Size[object]
      <4>1. l \in Nat
        BY <3>1, SizeType DEF TypeOK
      <4>2. resp' = [version |-> object, next |-> start + 1, last |-> l]
        BY <1>8, <2>2 DEF OpenRead
      <4> HIDE DEF l
      <4>3. QED
        BY <4>1, <4>2 DEF Response, TypeOK
    <3>3. /\ key_etag' = object /\ pc' = "read"
          /\ UNCHANGED <<service, file, tracker, append_mode, etag_value, fp, start, again,
                         countVars>>
          /\ misnamed' \in BOOLEAN
      BY <1>8, <2>2 DEF OpenRead, TypeOK
    <3>4. spoilt' \subseteq {"crash", "replaced", "restored", "pipe", "position"}
      BY <1>8, <2>2 DEF OpenRead, TypeOK
    <3>5. QED
      BY <3>2, <3>3, <3>4 DEF countVars, TypeOK, service, history
  <2>3. QED
    BY <2>1, <2>2
<1>9. CASE ReadChunk
  <2>1. resp \in Response
    BY <1>9 DEF ReadChunk, ResponseInv
  <2>2. Byte(resp.version, resp.next) \in Bytes
    BY <2>1, SizeType DEF Byte, Bytes, Response
  <2>3. file' \in Seq(Bytes)
    BY <1>0, <1>9, <2>2, WrittenType DEF ReadChunk, TypeOK
  <2>4. fp' \in Nat
    BY <1>9, <2>3 DEF ReadChunk
  <2>5. resp' \in Response
    BY <1>9, <2>1 DEF ReadChunk, Response
  <2>6. QED
    BY <1>9, <2>3, <2>4, <2>5 DEF ReadChunk, countVars, TypeOK, Bytes, service, history
<1>10. CASE ReadEnds
  BY <1>10 DEF ReadEnds, countVars, TypeOK, service, history
<1>11. CASE GetFails
  BY <1>11 DEF GetFails, processVars, countVars, TypeOK, service, history
<1>12. CASE BrokenPipe
  BY <1>12 DEF BrokenPipe, countVars, TypeOK, service, history
<1>13. CASE GetRaises
  BY <1>13, EndType DEF GetRaises, TypeOK, service, history
<1>14. CASE Return
  BY <1>14, EndType DEF Return, TypeOK, service, history
<1>15. CASE JudgeProgress
  <2>1. CASE End("raised")
    BY <1>15, <2>1, EndType DEF JudgeProgress, TypeOK, service, history
  <2>2. CASE ~End("raised")
    <3>1. progress_less_iterations' \in Nat
      BY <1>15, <2>2 DEF JudgeProgress, TypeOK, service, history
    <3>2. QED
      BY <1>15, <2>2, <3>1 DEF JudgeProgress, TypeOK, service, history
  <2>3. QED
    BY <2>1, <2>2
<1>16. CASE CloseKey
  <2>1. CASE /\ resp' = NoResponse
             /\ pc' = "attempt"
             /\ UNCHANGED <<etag_value, key_etag, fp, start, again, countVars>>
    BY <1>16, <2>1 DEF CloseKey, countVars, TypeOK, service, history
  <2>2. CASE /\ resp # NoResponse
             /\ resp' = [resp EXCEPT !.next = resp.last + 1]
             /\ pc' = "attempt"
             /\ UNCHANGED <<etag_value, key_etag, fp, start, again, countVars>>
    <3>1. resp \in Response
      BY <2>2 DEF TypeOK
    <3>2. resp' \in Response
      BY <2>2, <3>1 DEF Response
    <3>3. QED
      BY <1>16, <2>2, <3>2 DEF CloseKey, countVars, TypeOK, service, history
  <2>3. CASE resp # NoResponse /\ End("raised")
    BY <1>16, <2>3, EndType DEF CloseKey, TypeOK, service, history
  <2>4. QED
    BY <1>16, <2>1, <2>2, <2>3 DEF CloseKey
<1>17. CASE Crash
  <2>1. spoilt' \subseteq {"crash", "replaced", "restored", "pipe", "position"}
    BY <1>17 DEF Crash, TypeOK
  <2>2. QED
    BY <1>17, <2>1, EndType DEF Crash, TypeOK, service, history
<1>18. CASE ReplaceObject
  <2>1. replacements' \in 0..MaxReplacements /\ object' \in Version
    BY <1>18, ResumableDownloadAssumption DEF ReplaceObject, TypeOK
  <2>2. QED
    BY <1>18, <2>1 DEF ReplaceObject, processVars, countVars, TypeOK, history
<1>19. CASE UNCHANGED vars
  BY <1>19 DEF vars, processVars, countVars, TypeOK, service, history
<1>20. QED
  BY <1>1, <1>2, <1>3, <1>4, <1>5, <1>6, <1>7, <1>8, <1>9, <1>10, <1>11, <1>12, <1>13, <1>14,
     <1>15, <1>16, <1>17, <1>18, <1>19 DEF Next, GetFile

(* The rest of the invariant.                                              *)

Rest == ProcessInv /\ TrackerInv /\ ResponseInv /\ FileInv /\ BodyInv

\* get_file is over: the tracker file names what it named, or nothing.
LEMMA EndStep ==
    ASSUME DownloadInv,
           pc = "truncate" /\ spoilt' = {} => file = <<>> /\ tracker \in Version,
           pc # "returned", NEW how \in {"idle", "raised"}, End(how),
           UNCHANGED <<file, misnamed>>, tracker' \in {tracker, NoEtag},
           spoilt' = {} => spoilt = {}
    PROVE  Rest'
<1>1. pc' = how /\ Down' /\ pc' \notin {"returned", "get", "read", "done", "retry", "close",
                                      "truncate", "attempt"}
  BY DEF End, Down
<1>2. (ProcessInv /\ TrackerInv /\ ResponseInv /\ BodyInv)'
  BY <1>1 DEF ProcessInv, TrackerInv, ResponseInv, BodyInv
<1>3. ASSUME spoilt' = {}, tracker' # NoEtag
      PROVE  PartOfTracked'
  <2>1. tracker' = tracker /\ spoilt = {}
    BY <1>3
  <2>2. CASE pc # "truncate"
    <3>1. PartOfTracked
      BY <1>3, <2>1, <2>2 DEF DownloadInv, FileInv
    <3>2. QED
      BY <2>1, <3>1 DEF PartOfTracked
  <2>3. CASE pc = "truncate"
    <3>1. file' = <<>> /\ tracker' \in Version
      BY <1>3, <2>1, <2>3
    <3>2. IsPartOf(file', tracker')
      BY <3>1, EmptyIsPart
    <3>3. QED
      BY <3>1, <3>2 DEF PartOfTracked
  <2>4. QED
    BY <2>2, <2>3
<1>4. FileInv'
  BY <1>1, <1>3 DEF FileInv
<1>5. QED
  BY <1>2, <1>4 DEF Rest

LEMMA StartProcessStep == DownloadInv /\ StartProcess => Rest'
<1> SUFFICES ASSUME DownloadInv, StartProcess
             PROVE  Rest'
  OBVIOUS
<1>1. /\ Down /\ pc' = "attempt" /\ etag_value' = tracker /\ key_etag' = object
      /\ resp' = NoResponse /\ file' = file /\ tracker' = tracker
      /\ misnamed' = misnamed /\ spoilt' = spoilt
  BY DEF StartProcess, FreshProcess, history
<1>2. object \in Version
  BY DEF DownloadInv, TypeOK
<1>3. (ProcessInv /\ TrackerInv /\ ResponseInv /\ BodyInv)'
  BY <1>1, <1>2 DEF ProcessInv, TrackerInv, ResponseInv, BodyInv, Down
<1>4. FileInv'
  BY <1>1 DEF DownloadInv, FileInv, PartOfTracked, Down
<1>5. QED
  BY <1>3, <1>4 DEF Rest

\* What may be resumed, unless it is misnamed, is a part of the version the
\* key names.
LEMMA ResumedIsTracked ==
    ASSUME DownloadInv, pc = "attempt", CanResume
    PROVE  /\ key_etag \in Version /\ tracker = key_etag /\ tracker # NoEtag
           /\ spoilt = {} => PartOfTracked
           /\ spoilt = {} /\ ~misnamed => IsPartOf(file, key_etag)
<1>1. key_etag \in Version /\ tracker = key_etag /\ tracker # NoEtag
  BY ResumableDownloadAssumption DEF DownloadInv, ProcessInv, Down, CanResume
<1>2. spoilt = {} => PartOfTracked
  BY <1>1 DEF DownloadInv, FileInv
<1>3. QED
  BY <1>1, <1>2 DEF PartOfTracked

LEMMA ResumeStep == DownloadInv /\ (Resume \/ AlreadyComplete) => Rest'
<1> SUFFICES ASSUME DownloadInv, Resume \/ AlreadyComplete
             PROVE  Rest'
  OBVIOUS
<1>1. /\ pc = "attempt" /\ CanResume /\ fp' = Len(file)
      /\ UNCHANGED <<object, file, tracker, append_mode, etag_value, key_etag, resp, again,
                     misnamed>>
      /\ spoilt' = {} => spoilt = {}
  BY DEF Resume, AlreadyComplete, BeginAttempt, service, history
<1>2. \/ pc' = "get" /\ start' = Len(file) /\ (spoilt' = {} => ~misnamed)
      \/ pc' = "done"
  BY DEF Resume, AlreadyComplete
<1>3. /\ key_etag \in Version /\ tracker = key_etag /\ tracker # NoEtag
      /\ spoilt = {} => PartOfTracked
      /\ spoilt = {} /\ ~misnamed => IsPartOf(file, key_etag)
  BY <1>1, ResumedIsTracked
<1>4. file # <<>> /\ Len(file) \in Nat
  BY <1>1 DEF CanResume, DownloadInv, TypeOK
<1>5. resp # NoResponse => resp.next > resp.last /\ resp \in Response
  BY <1>1 DEF DownloadInv, ResponseInv, TypeOK
<1>6. (ProcessInv /\ TrackerInv /\ ResponseInv)'
  BY <1>1, <1>2, <1>3 DEF DownloadInv, ProcessInv, TrackerInv, ResponseInv, Down
<1>7. FileInv'
  BY <1>1, <1>2, <1>3 DEF FileInv, PartOfTracked
<1>8. BodyInv'
  <2>1. resp' = NoResponse \/ ~(resp'.next <= resp'.last)
    BY <1>1, <1>5 DEF Response
  <2>2. QED
    BY <1>1, <1>2, <1>3, <1>4, <2>1 DEF BodyInv
<1>9. QED
  BY <1>6, <1>7, <1>8 DEF Rest

LEMMA SaveTrackerStep == DownloadInv /\ SaveTracker => Rest'
BY DEF DownloadInv, SaveTracker, BeginAttempt, Rest, ProcessInv, TrackerInv, ResponseInv,
       FileInv, BodyInv, Down

\* Whatever the file was, it is an empty one of the version that is tracked.
LEMMA TruncateStep == DownloadInv /\ Truncate => Rest'
<1> SUFFICES ASSUME DownloadInv, Truncate
             PROVE  Rest'
  OBVIOUS
<1>1. /\ pc = "truncate" /\ pc' = "get" /\ file' = <<>>
      /\ spoilt' = {} => fp <= 0 \/ append_mode
      /\ UNCHANGED <<object, tracker, append_mode, etag_value, key_etag, resp, fp, start, again>>
  BY DEF Truncate, service, processVars, DownloadInv, TypeOK
<1>2. /\ key_etag \in Version /\ etag_value = tracker
      /\ tracker = key_etag /\ tracker # NoEtag
      /\ resp # NoResponse => resp.next > resp.last /\ resp \in Response
  BY <1>1, ResumableDownloadAssumption
     DEF DownloadInv, ProcessInv, TrackerInv, ResponseInv, Down, TypeOK
<1>3. (ProcessInv /\ TrackerInv /\ ResponseInv)'
  BY <1>1, <1>2 DEF ProcessInv, TrackerInv, ResponseInv, Down
<1>4. PartOfTracked'
  <2>1. IsPartOf(file', tracker')
    BY <1>1, <1>2, EmptyIsPart
  <2>2. tracker' \in Version
    BY <1>1, <1>2
  <2>3. QED
    BY <2>1, <2>2 DEF PartOfTracked
<1>5. FileInv'
  BY <1>1, <1>4 DEF FileInv
<1>6. BodyInv'
  <2>1. resp' = NoResponse \/ ~(resp'.next <= resp'.last)
    BY <1>1, <1>2 DEF Response
  <2>2. start = 0
    BY <1>1 DEF DownloadInv, TrackerInv
  <2>3. QED
    BY <1>1, <2>1, <2>2 DEF BodyInv
<1>7. QED
  BY <1>3, <1>5, <1>6 DEF Rest

LEMMA OpenReadStep == DownloadInv /\ OpenRead => Rest'
<1> SUFFICES ASSUME DownloadInv, OpenRead
             PROVE  Rest'
  OBVIOUS
<1>1. /\ pc = "get" /\ pc' = "read"
      /\ UNCHANGED <<file, tracker, append_mode, etag_value, fp, start, again>>
      /\ spoilt' = {} => spoilt = {}
  BY DEF OpenRead, service, history
<1>2. /\ key_etag \in Version /\ etag_value = tracker
      /\ tracker # NoEtag /\ object \in Version /\ start \in Nat /\ resp' \in Response
  <2>1. resp \in Response \cup {NoResponse} /\ start \in Nat /\ object \in Version
    BY DEF DownloadInv, TypeOK
  <2>2. key_etag \in Version /\ etag_value = tracker /\ tracker # NoEtag
    BY <1>1 DEF DownloadInv, ProcessInv, TrackerInv, Down
  <2>3. resp' \in Response
    <3>1. CASE resp # NoResponse
      BY <2>1, <3>1 DEF OpenRead
    <3>2. CASE resp = NoResponse
      <4> DEFINE l == IF start > 0 /\ Size[key_etag] < Size[object]
                      THEN Size[key_etag] ELSE Size[object]
      <4>1. l \in Nat
        BY <2>1, <2>2, SizeType
      <4>2. resp' = [version |-> object, next |-> start + 1, last |-> l]
        BY <3>2 DEF OpenRead
      <4> HIDE DEF l
      <4>3. QED
        BY <2>1, <4>1, <4>2 DEF Response
    <3>3. QED
      BY <3>1, <3>2
  <2>4. QED
    BY <2>1, <2>2, <2>3
<1>3. CASE resp # NoResponse
  <2>1. resp' = resp /\ key_etag' = key_etag /\ misnamed' = misnamed /\ spoilt' = spoilt
    BY <1>3 DEF OpenRead, history
  <2>2. (ProcessInv /\ TrackerInv /\ ResponseInv)'
    BY <1>1, <1>2, <2>1 DEF ProcessInv, TrackerInv, ResponseInv
  <2>3. FileInv'
    BY <1>1, <1>2, <2>1 DEF DownloadInv, FileInv, PartOfTracked
  <2>4. BodyInv'
    BY <1>1, <1>3, <2>1 DEF DownloadInv, BodyInv
  <2>5. QED
    BY <2>2, <2>3, <2>4 DEF Rest
<1>4. CASE resp = NoResponse
  <2>1. /\ resp' = [version |-> object, next |-> start + 1,
                    last |-> IF start > 0 /\ Size[key_etag] < Size[object]
                             THEN Size[key_etag] ELSE Size[object]]
        /\ key_etag' = object
        /\ file = <<>> => misnamed' = (object # tracker)
        /\ file # <<>> => misnamed' = misnamed
        /\ spoilt' = {} => /\ ~(again /\ file # <<>>)
                           /\ start > 0 => object = key_etag
    BY <1>4 DEF OpenRead
  <2>2. (ProcessInv /\ TrackerInv /\ ResponseInv)'
    BY <1>1, <1>2, <2>1 DEF ProcessInv, TrackerInv, ResponseInv
  <2>3. ASSUME spoilt' = {}
        PROVE  /\ start = Len(file) /\ IsPartOf(file, object)
               /\ fp <= Len(file) \/ append_mode
               /\ ~misnamed' => object = tracker
    <3>1. \/ start = 0 /\ file = <<>>
          \/ /\ start = Len(file) /\ file # <<>> /\ IsPartOf(file, key_etag)
             /\ key_etag = tracker
      BY <1>1, <1>4, <2>1, <2>3 DEF DownloadInv, BodyInv
    <3>2. file \in Seq(Bytes)
      BY DEF DownloadInv, TypeOK, Bytes
    <3>3. fp <= Len(file) \/ append_mode
      BY <1>1, <2>3 DEF DownloadInv, BodyInv
    <3>4. CASE start = 0 /\ file = <<>>
      BY <1>2, <2>1, <3>3, <3>4, EmptyIsPart
    <3>5. CASE /\ start = Len(file) /\ file # <<>> /\ IsPartOf(file, key_etag)
               /\ key_etag = tracker
      <4>1. Len(file) > 0
        BY <3>2, <3>5
      <4>2. object = key_etag
        BY <2>1, <2>3, <3>5, <4>1
      <4>3. QED
        BY <3>3, <3>5, <4>2
    <3>6. QED
      BY <3>1, <3>4, <3>5
  <2>4. FileInv'
    <3>1. ASSUME spoilt' = {}
          PROVE  PartOfTracked'
      BY <1>1, <1>2, <2>3, <3>1 DEF PartOfTracked
    <3>2. QED
      BY <1>1, <3>1 DEF FileInv
  <2>5. /\ resp'.version = key_etag' /\ resp'.next = start + 1
        /\ spoilt' = {} => resp'.last = Size[object]
    <3>1. resp'.version = object /\ resp'.next = start + 1
          /\ resp'.last = IF start > 0 /\ Size[key_etag] < Size[object]
                          THEN Size[key_etag] ELSE Size[object]
      BY <2>1
    <3>2. Size[object] \in Nat /\ Size[key_etag] \in Nat
      BY <1>2, SizeType
    <3>3. QED
      BY <2>1, <3>1, <3>2
  <2>6. Size[object] <= Size[object]
    BY <1>2, SizeType
  <2>7. BodyInv'
    BY <1>1, <2>1, <2>3, <2>5, <2>6 DEF BodyInv
  <2>8. QED
    BY <2>2, <2>4, <2>7 DEF Rest
<1>5. QED
  BY <1>3, <1>4

LEMMA ReadChunkStep == DownloadInv /\ ReadChunk => Rest'
<1> SUFFICES ASSUME DownloadInv, ReadChunk
             PROVE  Rest'
  OBVIOUS
<1>1. /\ pc = "read" /\ pc' = "read" /\ resp.next <= resp.last
      /\ file' = Written(file, Byte(resp.version, resp.next))
      /\ fp' = Len(file')
      /\ resp' = [resp EXCEPT !.next = @ + 1]
      /\ UNCHANGED <<tracker, append_mode, etag_value, key_etag, start, again, misnamed, spoilt>>
  BY DEF ReadChunk, service, history
<1>2. /\ resp \in Response /\ file \in Seq(Bytes) /\ fp \in Nat
      /\ key_etag \in Version /\ etag_value = tracker
      /\ tracker # NoEtag /\ tracker \in Version
  BY <1>1 DEF DownloadInv, ResponseInv, TypeOK, Bytes, ProcessInv, TrackerInv, Down
<1>3. /\ resp' \in Response /\ resp'.next = resp.next + 1
      /\ resp'.version = resp.version /\ resp'.last = resp.last
  BY <1>1, <1>2 DEF Response
<1>4. (ProcessInv /\ TrackerInv /\ ResponseInv)'
  BY <1>1, <1>2, <1>3 DEF ProcessInv, TrackerInv, ResponseInv
<1>5. ASSUME spoilt = {}
      PROVE  /\ Len(file') = Len(file) + 1 /\ IsPartOf(file', key_etag)
             /\ resp.version = key_etag /\ resp.next = Len(file) + 1
             /\ resp.last <= Size[key_etag] /\ fp' = Len(file')
             /\ ~misnamed => key_etag = tracker
  <2>1. /\ fp <= Len(file) \/ append_mode
        /\ resp.version = key_etag /\ resp.next = Len(file) + 1
        /\ resp.last <= Size[key_etag] /\ IsPartOf(file, key_etag)
        /\ ~misnamed => key_etag = tracker
    BY <1>1, <1>5 DEF DownloadInv, BodyInv
  <2>2. file' = Append(file, Byte(key_etag, Len(file) + 1))
    BY <1>1, <2>1 DEF Written
  <2>3. Len(file) < Size[key_etag] /\ Len(file) \in Nat
    BY <1>1, <1>2, <2>1, SizeType DEF Response
  <2>4. IsPartOf(file', key_etag)
    BY <1>2, <2>1, <2>2, <2>3, PartGrows
  <2>5. Len(file') = Len(file) + 1
    <3>1. Byte(key_etag, Len(file) + 1) \in Bytes
      BY <1>2, <2>3, SizeType DEF Byte, Bytes
    <3>2. QED
      BY <1>2, <2>2, <3>1, AppendProperties
  <2>6. QED
    BY <1>1, <2>1, <2>4, <2>5
<1>6. FileInv'
  <2>1. ASSUME spoilt = {}
        PROVE  PartOfTracked'
    BY <1>1, <1>2, <1>5, <2>1 DEF PartOfTracked
  <2>2. QED
    BY <1>1, <2>1 DEF FileInv
<1>7. BodyInv'
  <2>1. ASSUME spoilt = {}
        PROVE  /\ fp' <= Len(file') /\ resp'.version = key_etag' /\ resp'.next = Len(file') + 1
               /\ resp'.last <= Size[key_etag'] /\ IsPartOf(file', key_etag')
               /\ ~misnamed' => key_etag' = tracker'
    <3>1. Len(file) \in Nat
      BY <1>2
    <3>2. QED
      BY <1>1, <1>3, <1>5, <2>1, <3>1
  <2>2. QED
    BY <1>1, <2>1 DEF BodyInv
<1>8. QED
  BY <1>4, <1>6, <1>7 DEF Rest

\* The steps that leave the file, the tracker file and the key as they are.
LEMMA QuietStep ==
    ASSUME DownloadInv, ~Down, ~Down', pc # "truncate", pc' # "truncate",
           UNCHANGED <<file, tracker, etag_value, key_etag, misnamed, spoilt>>,
           pc = "attempt" => pc' = "attempt",
           ResponseInv', BodyInv'
    PROVE  Rest'
<1>1. pc \in {"attempt", "get", "read", "done", "retry", "close"}
  BY DEF DownloadInv, TypeOK, Down
<1>2. (ProcessInv /\ TrackerInv)'
  BY <1>1 DEF DownloadInv, ProcessInv, TrackerInv, Down
<1>3. FileInv'
  BY DEF DownloadInv, FileInv, PartOfTracked, Down
<1>4. QED
  BY <1>2, <1>3 DEF Rest

LEMMA ReadEndsStep == DownloadInv /\ ReadEnds => Rest'
<1> SUFFICES ASSUME DownloadInv, ReadEnds
             PROVE  Rest'
  OBVIOUS
<1>1. /\ pc = "read" /\ pc' \in {"retry", "done"}
      /\ UNCHANGED <<file, tracker, etag_value, key_etag, misnamed, spoilt>>
  BY DEF ReadEnds, history
<1>2. ~Down /\ ~Down' /\ ResponseInv' /\ BodyInv'
  BY <1>1 DEF Down, ResponseInv, BodyInv
<1>3. QED
  BY <1>1, <1>2, QuietStep

LEMMA GetFailsStep == DownloadInv /\ GetFails => Rest'
<1> SUFFICES ASSUME DownloadInv, GetFails
             PROVE  Rest'
  OBVIOUS
<1>1. /\ pc \in {"get", "read"} /\ pc' = "retry"
      /\ UNCHANGED <<file, tracker, etag_value, key_etag, misnamed, spoilt>>
  BY DEF GetFails, history, processVars
<1>2. ~Down /\ ~Down' /\ ResponseInv' /\ BodyInv'
  BY <1>1 DEF Down, ResponseInv, BodyInv
<1>3. QED
  BY <1>1, <1>2, QuietStep

LEMMA BrokenPipeStep == DownloadInv /\ BrokenPipe => Rest'
<1> SUFFICES ASSUME DownloadInv, BrokenPipe
             PROVE  Rest'
  OBVIOUS
<1>1. /\ pc \in {"get", "read"} /\ pc' = "get" /\ again' = TRUE /\ start' = 0
      /\ UNCHANGED <<file, tracker, append_mode, etag_value, key_etag, resp, fp,
                     misnamed, spoilt>>
  BY DEF BrokenPipe, history
<1>2. ~Down /\ ~Down' /\ ResponseInv'
  BY <1>1 DEF Down, ResponseInv
<1>3. BodyInv'
  BY <1>1 DEF DownloadInv, BodyInv
<1>4. QED
  BY <1>1, <1>2, <1>3, QuietStep

LEMMA ReturnStep == DownloadInv /\ Return => Rest'
<1> SUFFICES ASSUME DownloadInv, Return
             PROVE  Rest'
  OBVIOUS
<1>1. /\ pc = "done" /\ pc' = "returned" /\ tracker' = NoEtag /\ UNCHANGED <<file, spoilt>>
  BY DEF Return, End, history
<1>2. ASSUME spoilt = {}
      PROVE  \E v \in Version : IsPartOf(file, v)
  BY <1>1, <1>2 DEF DownloadInv, FileInv, PartOfTracked, TrackerInv, Down
<1>3. QED
  BY <1>1, <1>2 DEF Rest, ProcessInv, TrackerInv, ResponseInv, FileInv, BodyInv, Down

LEMMA JudgeStep == DownloadInv /\ JudgeProgress => Rest'
<1> SUFFICES ASSUME DownloadInv, JudgeProgress
             PROVE  Rest'
  OBVIOUS
<1>1. pc = "retry" /\ UNCHANGED <<file, tracker, append_mode, misnamed, spoilt>>
  BY DEF JudgeProgress, history
<1>2. ~Down
  BY <1>1 DEF Down
<1>3. CASE End("raised")
  BY <1>1, <1>2, <1>3, EndStep
<1>4. CASE ~End("raised")
  <2>1. pc' = "close" /\ UNCHANGED <<etag_value, key_etag>>
    BY <1>4 DEF JudgeProgress
  <2>2. ~Down' /\ ResponseInv' /\ BodyInv'
    BY <2>1 DEF Down, ResponseInv, BodyInv
  <2>3. QED
    BY <1>1, <1>2, <2>1, <2>2, QuietStep
<1>5. QED
  BY <1>3, <1>4

LEMMA CloseStep == DownloadInv /\ CloseKey => Rest'
<1> SUFFICES ASSUME DownloadInv, CloseKey
             PROVE  Rest'
  OBVIOUS
<1>1. /\ pc = "close" /\ ~Down /\ UNCHANGED <<file, tracker, append_mode, misnamed, spoilt>>
      /\ resp \in Response \cup {NoResponse}
  BY DEF CloseKey, history, Down, DownloadInv, TypeOK
<1>2. CASE resp # NoResponse /\ End("raised")
  BY <1>1, <1>2, EndStep
<1>3. CASE /\ resp' = NoResponse
           /\ pc' = "attempt"
           /\ UNCHANGED <<etag_value, key_etag, fp, start, again, countVars>>
  <2>1. ~Down' /\ ResponseInv' /\ BodyInv'
    BY <1>3 DEF Down, ResponseInv, BodyInv
  <2>2. QED
    BY <1>1, <1>3, <2>1, QuietStep
<1>4. CASE /\ resp # NoResponse
           /\ resp' = [resp EXCEPT !.next = resp.last + 1]
           /\ pc' = "attempt"
           /\ UNCHANGED <<etag_value, key_etag, fp, start, again, countVars>>
  <2>1. resp'.next > resp'.last
    BY <1>1, <1>4 DEF Response
  <2>2. ~Down' /\ ResponseInv' /\ BodyInv'
    BY <1>4, <2>1 DEF Down, ResponseInv, BodyInv
  <2>3. QED
    BY <1>1, <1>4, <2>2, QuietStep
<1>5. QED
  BY <1>2, <1>3, <1>4 DEF CloseKey

LEMMA CrashStep == DownloadInv /\ Crash => Rest'
<1> SUFFICES ASSUME DownloadInv, Crash
             PROVE  Rest'
  OBVIOUS
<1>1. /\ ~Down /\ End("idle") /\ UNCHANGED <<file, tracker, misnamed>>
      /\ spoilt' = {} => spoilt = {} /\ ~(pc = "truncate" /\ file # <<>>)
  BY DEF Crash
<1>2. pc = "truncate" => tracker \in Version
  BY <1>1 DEF DownloadInv, ProcessInv, TrackerInv
<1>3. QED
  BY <1>1, <1>2, EndStep DEF Down

LEMMA ReplaceStep == DownloadInv /\ ReplaceObject => Rest'
<1> SUFFICES ASSUME DownloadInv, ReplaceObject
             PROVE  Rest'
  OBVIOUS
<1>1. UNCHANGED <<file, tracker, append_mode, pc, etag_value, key_etag, resp, fp, start,
                  again, misnamed, spoilt>>
  BY DEF ReplaceObject, processVars, history
<1>2. QED
  BY <1>1 DEF DownloadInv, ProcessInv, TrackerInv, ResponseInv, FileInv, BodyInv, PartOfTracked,
              Rest, Down

LEMMA RestStep == DownloadInv /\ [Next]_vars => Rest'
<1> SUFFICES ASSUME DownloadInv, [Next]_vars
             PROVE  Rest'
  OBVIOUS
<1>1. CASE LargerThanObject \/ SaveTrackerFails
  <2>1. /\ pc = "attempt" /\ End("raised") /\ tracker' = NoEtag
        /\ UNCHANGED <<file, misnamed, spoilt>>
    BY <1>1 DEF LargerThanObject, SaveTrackerFails, history
  <2>2. QED
    BY <2>1, EndStep
<1>2. CASE GetRaises
  <2>1. /\ pc \in {"get", "read"} /\ End("raised")
        /\ UNCHANGED <<file, tracker, misnamed, spoilt>>
    BY <1>2 DEF GetRaises, history
  <2>2. QED
    BY <2>1, EndStep
<1>3. CASE UNCHANGED vars
  BY <1>3 DEF vars, history, processVars, countVars, Rest, DownloadInv, ProcessInv, TrackerInv,
              ResponseInv, FileInv, BodyInv, PartOfTracked, Down
<1>4. QED
  BY <1>1, <1>2, <1>3, StartProcessStep, ResumeStep, SaveTrackerStep, TruncateStep,
     OpenReadStep, ReadChunkStep, ReadEndsStep, GetFailsStep, BrokenPipeStep, ReturnStep,
     JudgeStep, CloseStep, CrashStep, ReplaceStep DEF Next, GetFile

LEMMA DownloadStep == DownloadInv /\ [Next]_vars => DownloadInv'
BY TypeStep, RestStep DEF DownloadInv, Rest

\* The variables of a download stay in their sets, and the partial file is
\* of the version that the tracker file names, unless it is misnamed
\* (resumable_download_handler.py:156-222).
THEOREM DownloadInvHolds == Spec => []DownloadInv
<1>1. QED
  BY DownloadInit, DownloadStep, PTL DEF Spec

\* get_file returns with a part of one version of the object, but for the
\* ways that spoilt names, for any sizes of any number of versions and any
\* number of processes (resumable_download_handler.py:176-222, 286-302).
THEOREM DownloadReturnsOneVersion == Spec => []ReturnsOneVersion
<1>1. DownloadInv => ReturnsOneVersion
  BY DEF DownloadInv, FileInv, ReturnsOneVersion
<1>2. QED
  BY <1>1, DownloadInvHolds, PTL
=============================================================================
