------------------------- MODULE BsupScannerProofs -------------------------
(***************************************************************************)
(* Proofs about BsupScanner: for every set of files and of thread counts,  *)
(* results come in file order (InFileOrder), and the reader is not read    *)
(* after Pull(true) has returned (NotReadAfterDone).                       *)
(***************************************************************************)
EXTENDS BsupScanner, FiniteSetTheorems, TLAPS

(***************************************************************************)
(* Frames and the types of a stream.                                       *)
(***************************************************************************)

\* What is known of a frame of the file.
LEMMA FrameFacts ==
  ASSUME TypeOK
  PROVE  /\ Len(file) \in Nat /\ file \in Seq(Frames)
         /\ \A i \in 1..Len(file) :
               /\ file[i].kind \in {"types", "eos", "control", "bad", "values"}
               /\ file[i].kind = "values" => file[i].id \in Nat \ {0} /\ file[i].does \in Outcomes
<1>1. file \in Seq(Frames)
  BY FilesAssumption DEF TypeOK
<1>2. ASSUME NEW i \in 1..Len(file)
      PROVE  /\ file[i].kind \in {"types", "eos", "control", "bad", "values"}
             /\ file[i].kind = "values" => file[i].id \in Nat \ {0} /\ file[i].does \in Outcomes
  <2>1. file[i] \in Frames
    BY <1>1
  <2>2. CASE file[i] \in [kind : {"types", "eos", "control", "bad"}]
    BY <2>2
  <2>3. CASE file[i] \in [kind : {"values"}, id : Nat \ {0}, does : Outcomes]
    BY <2>3
  <2> QED
    BY <2>1, <2>2, <2>3 DEF Frames
<1> QED
  BY <1>1, <1>2

\* A thread count is at least 1.
LEMMA ThreadFacts ==
  ASSUME TypeOK
  PROVE  threads \in Nat /\ threads >= 1
  BY ThreadsAssumption DEF TypeOK

\* The types of a stream after one more frame.
LEMMA StreamTypesNext ==
  ASSUME Len(file) \in Nat, NEW n \in 0..Len(file) - 1
  PROVE  /\ file[n + 1].kind = "types" => StreamTypes(n + 1) = StreamTypes(n) \cup {n + 1}
         /\ file[n + 1].kind = "eos" => StreamTypes(n + 1) = {}
         /\ file[n + 1].kind \notin {"types", "eos"} => StreamTypes(n + 1) = StreamTypes(n)
<1>1. \A t \in 1..n + 1 : t \in 1..n \/ t = n + 1
  OBVIOUS
<1>2. \A t \in 1..n : SameStream(t, n + 1) <=> SameStream(t, n) /\ file[n + 1].kind # "eos"
  <2> SUFFICES ASSUME NEW t \in 1..n
               PROVE  SameStream(t, n + 1) <=> SameStream(t, n) /\ file[n + 1].kind # "eos"
    OBVIOUS
  <2>1. t + 1..n + 1 = (t + 1..n) \cup {n + 1}
    OBVIOUS
  <2> QED
    BY <2>1, Zenon DEF SameStream
<1>3. SameStream(n + 1, n + 1)
  BY DEF SameStream
<1>4. 1..n + 1 = (1..n) \cup {n + 1}
  OBVIOUS
<1> HIDE DEF SameStream
<1> QED
  BY <1>2, <1>3, <1>4 DEF StreamTypes

\* The types of a stream are finitely many places of the file.
LEMMA StreamTypesFinite ==
  ASSUME NEW n \in Nat
  PROVE  IsFiniteSet(StreamTypes(n)) /\ n + 1 \notin StreamTypes(n) /\ StreamTypes(n) \subseteq 1..n
<1>1. IsFiniteSet(1..n)
  BY FS_Interval
<1>2. StreamTypes(n) \subseteq 1..n
  BY DEF StreamTypes
<1> QED
  BY <1>1, <1>2, FS_Subset

\* A types frame defines the next ID of its stream.
LEMMA IdOfNext ==
  ASSUME Len(file) \in Nat, NEW n \in 0..Len(file) - 1, file[n + 1].kind = "types"
  PROVE  IdOf(n + 1) = Cardinality(StreamTypes(n)) + 1
<1>1. StreamTypes(n + 1) = StreamTypes(n) \cup {n + 1}
  BY StreamTypesNext
<1>2. IsFiniteSet(StreamTypes(n)) /\ n + 1 \notin StreamTypes(n)
  BY StreamTypesFinite
<1> QED
  BY <1>1, <1>2, FS_AddElement DEF IdOf

\* What frames give does not change: the file and the thread count do not.
LEMMA FileFixed ==
  ASSUME file' = file, threads' = threads
  PROVE  /\ \A i, j : SameStream(i, j)' <=> SameStream(i, j)
         /\ \A n : StreamTypes(n)' = StreamTypes(n)
         /\ \A t : IdOf(t)' = IdOf(t)
         /\ \A i : Gives(i)' = Gives(i)
<1>1. \A i, j : SameStream(i, j)' <=> SameStream(i, j)
  BY DEF SameStream
<1>2. \A n : StreamTypes(n)' = StreamTypes(n)
  BY DEF StreamTypes, SameStream
<1>3. \A t : IdOf(t)' = IdOf(t)
  BY <1>2 DEF IdOf
<1>4. \A i : Gives(i)' = Gives(i)
  BY DEF Gives, TypesBefore, TypesAfter, IdOf, StreamTypes, SameStream
<1> QED
  BY <1>1, <1>2, <1>3, <1>4

\* So a frame that may be passed over still may.
LEMMA PassedOverKept ==
  ASSUME file' = file, threads' = threads, outside => outside'
  PROVE  /\ \A i : PassedOver(i) => PassedOver(i)'
         /\ \A p, r : Follows(p, r) => Follows(p, r)'
<1>1. \A i : Gives(i)' = Gives(i)
  BY FileFixed
<1>2. \A i : PassedOver(i) => PassedOver(i)'
  BY <1>1 DEF PassedOver, Closed
<1>3. \A p, r : Follows(p, r) => Follows(p, r)'
  BY <1>1, <1>2 DEF Follows, Places, EOF, CtxErr
<1> QED
  BY <1>2, <1>3

(***************************************************************************)
(* Reading frames and decoding them.                                       *)
(***************************************************************************)

\* One of the three ways in which the parser reads a frame.
Reads == ReadTypes \/ ReadEOS \/ ReadFrame

\* Reading moves on by one frame; only a types frame touches a Decoder, and only
\* the one in use.
LEMMA ReadFacts ==
  ASSUME TypeOK, Reads
  PROVE  /\ pos \in 0..Len(file) - 1 /\ pos' = pos + 1
         /\ nStream' \in {nStream, nStream + 1}
         /\ \A k \in 1..Len(file) + 1 : k # nStream => dec'[k] = dec[k]
         /\ dec' \in [1..Len(file) + 1 -> Seq(Places)]
<1>1. Len(file) \in Nat
  BY FrameFacts
<1>2. pos \in 0..Len(file) - 1 /\ pos' = pos + 1
  BY <1>1 DEF Reads, ReadTypes, ReadEOS, ReadFrame, AtEnd, TypeOK
<1>3. nStream' \in {nStream, nStream + 1}
  BY DEF Reads, ReadTypes, ReadEOS, ReadFrame
<1>4. CASE ReadTypes
  <2>1. dec[nStream] \in Seq(Places) /\ pos + 1 \in Places
    <3>1. dec \in [1..Len(file) + 1 -> Seq(Places)] /\ nStream \in 1..Len(file) + 1
      BY DEF TypeOK
    <3>2. pos + 1 \in Places
      BY <1>1, <1>2 DEF Places
    <3> QED
      BY <3>1, <3>2
  <2>2. Append(dec[nStream], pos + 1) \in Seq(Places)
    BY <2>1
  <2> QED
    BY <1>2, <1>3, <1>4, <2>2 DEF ReadTypes, TypeOK
<1>5. CASE ReadEOS \/ ReadFrame
  BY <1>2, <1>3, <1>5 DEF ReadEOS, ReadFrame, TypeOK
<1> QED
  BY <1>4, <1>5 DEF Reads

\* The three kinds of frame read.
LEMMA ReadKinds ==
  ASSUME TypeOK, Reads
  PROVE  \/ /\ file[pos + 1].kind = "types" /\ nStream' = nStream
            /\ dec'[nStream] = Append(dec[nStream], pos + 1)
         \/ file[pos + 1].kind = "eos" /\ nStream' = nStream + 1 /\ dec' = dec
         \/ /\ file[pos + 1].kind \notin {"types", "eos"}
            /\ nStream' = nStream /\ dec' = dec
<1>1. CASE ReadTypes
  BY <1>1 DEF ReadTypes, NextFrame, TypeOK
<1>2. CASE ReadEOS
  BY <1>2 DEF ReadEOS, NextFrame
<1>3. CASE ReadFrame
  BY <1>3 DEF ReadFrame, NextFrame
<1> QED
  BY <1>1, <1>2, <1>3 DEF Reads

\* Reading keeps the Decoder in use in step with its stream.
LEMMA ReadKeepsHolds ==
  ASSUME TypeOK, Reads, Holds(dec[nStream], StreamTypes(pos)),
         \A k \in nStream + 1..Len(file) + 1 : dec[k] = <<>>, nStream <= pos + 1
  PROVE  Holds(dec'[nStream'], StreamTypes(pos + 1))
<1> DEFINE d == dec[nStream]
<1>1. Len(file) \in Nat /\ pos \in 0..Len(file) - 1 /\ nStream \in 1..Len(file) + 1
  BY FrameFacts, ReadFacts DEF TypeOK
<1>2. d \in Seq(Places) /\ Len(d) \in Nat
  <2>1. dec \in [1..Len(file) + 1 -> Seq(Places)]
    BY DEF TypeOK
  <2> QED
    BY <1>1, <2>1
<1>3. CASE /\ file[pos + 1].kind = "types" /\ nStream' = nStream
           /\ dec'[nStream] = Append(dec[nStream], pos + 1)
  <2> DEFINE e == Append(d, pos + 1)
  <2>1. StreamTypes(pos + 1) = StreamTypes(pos) \cup {pos + 1}
    BY <1>1, <1>3, StreamTypesNext
  <2>2. IdOf(pos + 1) = Len(d) + 1
    BY <1>1, <1>3, IdOfNext DEF Holds
  <2>3. Cardinality(StreamTypes(pos + 1)) = Len(d) + 1
    BY <2>2 DEF IdOf
  <2>4. Len(e) = Len(d) + 1 /\ (\A n \in 1..Len(d) : e[n] = d[n]) /\ e[Len(d) + 1] = pos + 1
    BY <1>2
  <2> HIDE DEF e
  <2>5. \A n \in 1..Len(e) : e[n] \in StreamTypes(pos + 1) /\ IdOf(e[n]) = n
    <3> SUFFICES ASSUME NEW n \in 1..Len(e)
                 PROVE  e[n] \in StreamTypes(pos + 1) /\ IdOf(e[n]) = n
      OBVIOUS
    <3>1. CASE n \in 1..Len(d)
      BY <3>1, <2>1, <2>4 DEF Holds
    <3>2. CASE n = Len(d) + 1
      BY <3>2, <2>1, <2>2, <2>4
    <3> QED
      BY <3>1, <3>2, <2>4, <1>2
  <2>6. \A t \in StreamTypes(pos + 1) : IdOf(t) \in 1..Len(e) /\ e[IdOf(t)] = t
    <3> SUFFICES ASSUME NEW t \in StreamTypes(pos + 1)
                 PROVE  IdOf(t) \in 1..Len(e) /\ e[IdOf(t)] = t
      OBVIOUS
    <3>1. CASE t \in StreamTypes(pos)
      <4>1. IdOf(t) \in 1..Len(d) /\ d[IdOf(t)] = t
        BY <3>1 DEF Holds
      <4> QED
        BY <4>1, <2>4, <1>2
    <3>2. CASE t = pos + 1
      BY <3>2, <2>2, <2>4, <1>2
    <3> QED
      BY <3>1, <3>2, <2>1
  <2>7. dec'[nStream'] = e
    BY <1>3 DEF e
  <2> QED
    BY <2>3, <2>4, <2>5, <2>6, <2>7 DEF Holds
<1>4. CASE file[pos + 1].kind = "eos" /\ nStream' = nStream + 1 /\ dec' = dec
  <2>1. StreamTypes(pos + 1) = {}
    BY <1>1, <1>4, StreamTypesNext
  <2>2. dec'[nStream'] = <<>>
    BY <1>1, <1>4
  <2>3. Cardinality({}) = 0
    BY FS_EmptySet
  <2>4. Len(<<>>) = 0 /\ 1..0 = {}
    OBVIOUS
  <2> QED
    BY <2>1, <2>2, <2>3, <2>4 DEF Holds
<1>5. CASE /\ file[pos + 1].kind \notin {"types", "eos"}
           /\ nStream' = nStream /\ dec' = dec
  <2>1. StreamTypes(pos + 1) = StreamTypes(pos)
    BY <1>1, <1>5, StreamTypesNext
  <2> QED
    BY <2>1, <1>5
<1> QED
  BY <1>3, <1>4, <1>5, ReadKinds

\* So reading keeps DecoderInv.
LEMMA ReadKeepsDecoder ==
  ASSUME TypeOK, DecoderInv, Reads, file' = file, threads' = threads
  PROVE  DecoderInv'
<1>1. Len(file) \in Nat /\ pos \in 0..Len(file) - 1 /\ nStream \in 1..Len(file) + 1
  BY FrameFacts, ReadFacts DEF TypeOK
<1>2. /\ nStream <= pos + 1 /\ \A k \in nStream + 1..Len(file) + 1 : dec[k] = <<>>
      /\ Holds(dec[nStream], StreamTypes(pos))
  BY DEF DecoderInv
<1>3. Holds(dec'[nStream'], StreamTypes(pos + 1))
  BY <1>2, ReadKeepsHolds
<1>4. nStream' \in {nStream, nStream + 1} /\ pos' = pos + 1
  BY ReadFacts
<1>5. nStream' <= pos' + 1
  BY <1>1, <1>2, <1>4
<1>6. \A k \in nStream' + 1..Len(file') + 1 : dec'[k] = <<>>
  <2>1. ASSUME NEW m \in {nStream, nStream + 1}, NEW k \in m + 1..Len(file) + 1
        PROVE  dec'[k] = <<>>
    <3>1. k \in nStream + 1..Len(file) + 1 /\ k \in 1..Len(file) + 1 /\ k # nStream
      BY <1>1
    <3> QED
      BY <3>1, <1>2, ReadFacts
  <2> QED
    BY <2>1, <1>4
<1>7. Holds(dec[nStream], StreamTypes(pos))'
  BY <1>3, <1>4, FileFixed DEF Holds
<1> QED
  BY <1>5, <1>6, <1>7 DEF DecoderInv

\* The part of Decodes about what the Decoder d holds, for frame i.
Serves(d, i) ==
    /\ \A t \in StreamTypes(i) : IdOf(t) \in 1..Len(d) /\ d[IdOf(t)] = t
    /\ \A n \in 1..Len(d) :
          /\ IdOf(d[n]) = n
          /\ \/ d[n] \in StreamTypes(i)
             \/ /\ d[n] \in i + 1..Len(file)
                /\ file[d[n]].kind = "types" /\ SameStream(i, d[n])

\* A stream goes on through a frame that does not end it.
LEMMA SameStreamNext ==
  ASSUME NEW i \in Nat, NEW n \in Nat, i <= n, SameStream(i, n), file[n + 1].kind # "eos"
  PROVE  SameStream(i, n + 1)
<1>1. i + 1..n + 1 = (i + 1..n) \cup {n + 1}
  OBVIOUS
<1> QED
  BY <1>1 DEF SameStream

\* Reading on keeps the Decoder of a frame handed out fit for it.
LEMMA ReadKeepsDecodes ==
  ASSUME TypeOK, DecoderInv, Reads, file' = file, threads' = threads,
         NEW i \in 1..pos, NEW k \in 1..Len(file) + 1, Decodes(k, i)
  PROVE  Decodes(k, i)'
<1>1. Len(file) \in Nat /\ pos \in 0..Len(file) - 1 /\ nStream \in 1..Len(file) + 1
  BY FrameFacts, ReadFacts DEF TypeOK
<1>2. k <= nStream /\ (k = nStream => SameStream(i, pos)) /\ Serves(dec[k], i)
  BY DEF Decodes, Serves
<1>3. pos' = pos + 1 /\ (k # nStream => dec'[k] = dec[k])
  BY ReadFacts
<1>4. SUFFICES /\ k <= nStream' /\ (k = nStream' => SameStream(i, pos + 1))
               /\ Serves(dec'[k], i)
  BY <1>3, FileFixed DEF Decodes, Serves
<1>5. file[pos + 1].kind # "eos" => (k = nStream => SameStream(i, pos + 1))
  BY <1>1, <1>2, SameStreamNext
<1>6. CASE /\ file[pos + 1].kind = "types" /\ nStream' = nStream
           /\ dec'[nStream] = Append(dec[nStream], pos + 1)
  <2>1. CASE k = nStream
    <3> DEFINE d == dec[nStream]
    <3> DEFINE e == Append(d, pos + 1)
    <3>1. d \in Seq(Places) /\ Len(d) \in Nat
      <4>1. dec \in [1..Len(file) + 1 -> Seq(Places)]
        BY DEF TypeOK
      <4> QED
        BY <1>1, <4>1
    <3>2. Len(e) = Len(d) + 1 /\ (\A n \in 1..Len(d) : e[n] = d[n]) /\ e[Len(d) + 1] = pos + 1
      BY <3>1
    <3>3. IdOf(pos + 1) = Len(d) + 1
      BY <1>1, <1>6, IdOfNext DEF Holds, DecoderInv
    <3>4. pos + 1 \in i + 1..Len(file)
      BY <1>1
    <3> HIDE DEF e
    <3>5. \A t \in StreamTypes(i) : IdOf(t) \in 1..Len(e) /\ e[IdOf(t)] = t
      <4> SUFFICES ASSUME NEW t \in StreamTypes(i)
                   PROVE  IdOf(t) \in 1..Len(e) /\ e[IdOf(t)] = t
        OBVIOUS
      <4>1. IdOf(t) \in 1..Len(d) /\ d[IdOf(t)] = t
        BY <1>2, <2>1 DEF Serves
      <4> QED
        BY <4>1, <3>1, <3>2
    <3>6. ASSUME NEW n \in 1..Len(e)
          PROVE  /\ IdOf(e[n]) = n
                 /\ \/ e[n] \in StreamTypes(i)
                    \/ /\ e[n] \in i + 1..Len(file)
                       /\ file[e[n]].kind = "types" /\ SameStream(i, e[n])
      <4>1. CASE n \in 1..Len(d)
        BY <4>1, <3>2, <1>2, <2>1 DEF Serves
      <4>2. CASE n = Len(d) + 1
        BY <4>2, <3>2, <3>3, <3>4, <1>5, <1>6, <2>1
      <4> QED
        BY <4>1, <4>2, <3>1, <3>2
    <3>7. Serves(e, i)
      BY <3>5, <3>6 DEF Serves
    <3>8. dec'[k] = e
      BY <1>6, <2>1 DEF e
    <3> QED
      BY <3>7, <3>8, <2>1, <1>5, <1>6, <1>1
  <2>2. CASE k # nStream
    BY <1>2, <1>3, <1>6, <2>2
  <2> QED
    BY <2>1, <2>2
<1>7. CASE file[pos + 1].kind = "eos" /\ nStream' = nStream + 1 /\ dec' = dec
  <2>1. k <= nStream + 1 /\ k # nStream + 1
    BY <1>1, <1>2
  <2> QED
    BY <2>1, <1>2, <1>7
<1>8. CASE /\ file[pos + 1].kind \notin {"types", "eos"}
           /\ nStream' = nStream /\ dec' = dec
  BY <1>2, <1>5, <1>8
<1> QED
  BY <1>6, <1>7, <1>8, ReadKinds

\* What scanBatch finds with a Decoder fit for the frame and an empty cache is one of
\* the things the frame gives.
LEMMA LookupGives ==
  ASSUME TypeOK, NEW i \in 1..Len(file), file[i].kind = "values", file[i].does # "badzip",
         NEW d \in Seq(Places),
         Serves(d, i), threads = 1 => \A n \in 1..Len(d) : d[n] \in StreamTypes(i),
         NEW t, t = IF file[i].id <= Len(d) THEN d[file[i].id] ELSE NoType
  PROVE  ScanResult(i, t) \in Gives(i) /\ t \in Types
<1>1. Len(file) \in Nat /\ file[i].id \in Nat \ {0} /\ file[i].does \in Outcomes
  BY FrameFacts
<1>2. CASE file[i].id <= Len(d)
  <2>1. file[i].id \in 1..Len(d) /\ t = d[file[i].id]
    BY <1>1, <1>2
  <2>2. t \in Places /\ t # NoType
    BY <2>1, <1>1 DEF Places, NoType
  <2>3. IdOf(t) = file[i].id
    BY <2>1 DEF Serves
  <2>4. t \in TypesBefore(i) \cup (IF threads = 1 THEN {} ELSE TypesAfter(i))
    BY <2>1, <2>3 DEF Serves, TypesBefore, TypesAfter
  <2>5. file[i].does = "batch" => ScanResult(i, t) \in Gives(i)
    BY <2>2, <2>4 DEF ScanResult, Gives
  <2>6. file[i].does = "none" => ScanResult(i, t) \in Gives(i)
    BY <2>2 DEF ScanResult, Gives
  <2>7. file[i].does = "badval" => ScanResult(i, t) \in Gives(i)
    BY DEF ScanResult, Gives
  <2> QED
    BY <1>1, <2>2, <2>5, <2>6, <2>7 DEF Outcomes, Types
<1>3. CASE ~(file[i].id <= Len(d))
  <2>1. t = NoType
    BY <1>3
  <2>2. TypesBefore(i) = {}
    BY <1>3, <1>1 DEF Serves, TypesBefore
  <2>3. ScanResult(i, t) = Error(i)
    BY <2>1 DEF ScanResult
  <2>4. Error(i) \in Gives(i)
    BY <2>2, <1>1 DEF Gives, Outcomes
  <2> QED
    BY <2>1, <2>3, <2>4 DEF Types
<1> QED
  BY <1>2, <1>3

(***************************************************************************)
(* Type correctness, by groups of variables.                               *)
(***************************************************************************)

ParserPCs == {"off", "read", "take", "queue", "give", "ctl", "end"}
WorkerPCs == {"off", "ready", "wait", "work", "decode", "end"}
CallerPCs == {"idle", "pull", "recv", "nil", "drain"}

ReadTyped ==
    /\ pos' \in 0..Len(file)
    /\ nStream' \in 1..Len(file) + 1 /\ dec' \in [1..Len(file) + 1 -> Seq(Places)]
ParserTyped == pPC' \in ParserPCs /\ held' \in 0..threads /\ ctl' \in Results
WorkerTyped ==
    /\ wPC' \in [Workers -> WorkerPCs]
    /\ work' \in [Workers -> {NoWork} \cup Places \X (1..Len(file) + 1)]
    /\ cache' \in [Workers -> [1..Len(file) -> Types]]
WorkerChTyped == workerCh' \in Seq(Workers) /\ Len(workerCh') <= threads + 1
ResultChTyped ==
    /\ resultChCh' \in Seq(Places \cup {Len(file) + 1}) /\ Len(resultChCh') <= threads + 1
    /\ closed' \in BOOLEAN
ResTyped == res' \in [1..Len(file) + 1 -> Results]
CtxTyped == cancelled' \in BOOLEAN /\ outside' \in BOOLEAN
CallTyped ==
    /\ cPC' \in CallerPCs /\ cur' \in 0..Len(file) + 1 /\ (cPC' = "recv" => cur' # 0)
    /\ eof' \in BOOLEAN /\ err' \in Results
OutTyped ==
    /\ out' \in Seq(Results) /\ ended' \in Results \cup {<<"done", 0, NoType>>}
    /\ late' \in BOOLEAN

\* TypeOK after a step, from its parts.
LEMMA TypeOKFromParts ==
  ASSUME TypeOK, file' = file, threads' = threads,
         ReadTyped, ParserTyped, WorkerTyped, WorkerChTyped, ResultChTyped, ResTyped,
         CtxTyped, CallTyped, OutTyped
  PROVE  TypeOK'
<1>1. Places' = Places /\ Results' = Results /\ Workers' = Workers /\ Types' = Types
  BY DEF Places, Results, Workers, Types, Control, Error, Batch, None, Closed, EOF, CtxErr, NoType
<1> QED
  BY <1>1 DEF TypeOK, ReadTyped, ParserTyped, WorkerTyped, WorkerChTyped, ResultChTyped,
     ResTyped, CtxTyped, CallTyped, OutTyped, ParserPCs, WorkerPCs, CallerPCs, NoWork, NoType

\* A group of variables that an action leaves alone stays typed.
LEMMA TypedUnchanged ==
  ASSUME TypeOK
  PROVE  /\ UNCHANGED readVars => ReadTyped
         /\ UNCHANGED parserVars => ParserTyped
         /\ UNCHANGED workerVars => WorkerTyped
         /\ UNCHANGED workerCh => WorkerChTyped
         /\ UNCHANGED <<resultChCh, closed>> => ResultChTyped
         /\ UNCHANGED res => ResTyped
         /\ UNCHANGED ctxVars => CtxTyped
         /\ UNCHANGED <<cPC, cur, eof, err>> => CallTyped
         /\ UNCHANGED <<out, ended, late>> => OutTyped
<1>1. UNCHANGED readVars => ReadTyped
  BY DEF TypeOK, readVars, ReadTyped
<1>2. UNCHANGED parserVars => ParserTyped
  BY DEF TypeOK, parserVars, ParserTyped, ParserPCs
<1>3. UNCHANGED workerVars => WorkerTyped
  BY DEF TypeOK, workerVars, WorkerTyped, WorkerPCs
<1>4. UNCHANGED workerCh => WorkerChTyped
  BY DEF TypeOK, WorkerChTyped
<1>5. UNCHANGED <<resultChCh, closed>> => ResultChTyped
  BY DEF TypeOK, ResultChTyped
<1>6. UNCHANGED res => ResTyped
  BY DEF TypeOK, ResTyped
<1>7. UNCHANGED ctxVars => CtxTyped
  BY DEF TypeOK, ctxVars, CtxTyped
<1>8. UNCHANGED <<cPC, cur, eof, err>> => CallTyped
  BY DEF TypeOK, CallTyped, CallerPCs
<1>9. UNCHANGED <<out, ended, late>> => OutTyped
  BY DEF TypeOK, OutTyped
<1> QED
  BY <1>1, <1>2, <1>3, <1>4, <1>5, <1>6, <1>7, <1>8, <1>9

\* The results there are.
LEMMA ResultFacts ==
  /\ None \in Results /\ Closed \in Results /\ EOF \in Results /\ CtxErr \in Results
  /\ \A i \in Places : Control(i) \in Results /\ Error(i) \in Results
  /\ \A i \in Places : \A t \in Types : Batch(i, t) \in Results
  BY DEF Results

\* The caller gets a result.
LEMMA ReturnTyped ==
  ASSUME TypeOK, NEW r \in Results, Return(r)
  PROVE  OutTyped /\ cPC' = "idle"
<1>1. out \in Seq(Results) /\ late \in BOOLEAN /\ ended \in Results \cup {<<"done", 0, NoType>>}
  BY DEF TypeOK
<1>2. Append(out, r) \in Seq(Results)
  BY <1>1
<1>3. late' \in BOOLEAN
  BY DEF Return
<1>4. out' \in Seq(Results)
  BY <1>1, <1>2 DEF Return
<1>5. ended' \in Results \cup {<<"done", 0, NoType>>}
  BY <1>1 DEF Return
<1> QED
  BY <1>3, <1>4, <1>5 DEF Return, OutTyped

(***************************************************************************)
(* The parts of the invariant that a step leaves alone.                    *)
(***************************************************************************)

\* Each part of the invariant depends on the variables it names and no others.
LEMMA UnchangedParts ==
  ASSUME file' = file, threads' = threads
  PROVE  /\ SyncInv /\ UNCHANGED <<pPC, wPC, resultChCh, closed, cPC>> => SyncInv'
         /\ ParserInv /\ UNCHANGED <<closed, pPC, pos, held, ctl, res>> => ParserInv'
         /\ DecoderInv /\ UNCHANGED readVars => DecoderInv'
         /\ WorkInv /\ UNCHANGED <<readVars, workerVars>> => WorkInv'
         /\ ResInv /\ UNCHANGED <<res, pos, pPC, ctl>> => ResInv'
         /\ EndInv /\ UNCHANGED <<ended, eof, err, late, cancelled, outside, cPC, out,
                                   pos, pPC>> => EndInv'
<1>1. SyncInv /\ UNCHANGED <<pPC, wPC, resultChCh, closed, cPC>> => SyncInv'
  BY DEF SyncInv, Workers
<1>2. ParserInv /\ UNCHANGED <<closed, pPC, pos, held, ctl, res>> => ParserInv'
  BY DEF ParserInv, Places, Workers, EOF, Control, Error
<1>3. DecoderInv /\ UNCHANGED readVars => DecoderInv'
  BY FileFixed DEF DecoderInv, readVars, Holds
<1>4. UNCHANGED readVars => \A k, i : Decodes(k, i)' = Decodes(k, i)
  BY FileFixed DEF Decodes, readVars
<1>5. WorkInv /\ UNCHANGED <<readVars, workerVars>> => WorkInv'
  BY <1>4 DEF WorkInv, Workers, readVars, workerVars, NoType
<1>6. ResInv /\ UNCHANGED <<res, pos, pPC, ctl>> => ResInv'
  BY FileFixed DEF ResInv, Abandoned, Places, None, Closed, EOF
<1>7. EndInv /\ UNCHANGED <<ended, eof, err, late, cancelled, outside, cPC, out, pos, pPC>>
        => EndInv'
  BY DEF EndInv, Ends, None
<1> QED
  BY <1>1, <1>2, <1>3, <1>5, <1>6, <1>7

\* So do the parts about the results delivered.
LEMMA UnchangedOut ==
  ASSUME file' = file, threads' = threads, outside => outside', UNCHANGED out
  PROVE  /\ Delivered => Delivered'
         /\ NothingLate /\ UNCHANGED <<late, ended>> => NothingLate'
         /\ QueueInv /\ UNCHANGED <<ended, cPC, resultChCh, pPC, ctl, cur, pos, res>> => QueueInv'
<1>1. \A n : PlaceOf(n)' = PlaceOf(n)
  BY DEF PlaceOf
<1>2. Delivered => Delivered'
  BY <1>1, PassedOverKept DEF Delivered, Ends
<1>3. NothingLate /\ UNCHANGED <<late, ended>> => NothingLate'
  BY DEF NothingLate
<1>4. ASSUME UNCHANGED <<resultChCh, pPC, ctl, cur, cPC, pos>>
      PROVE  Queued' = Queued /\ AtParser' = AtParser /\ Receiving' = Receiving
  BY <1>4 DEF Queued, AtParser, Receiving, EOF
<1>5. ASSUME UNCHANGED <<pPC, pos, res>>
      PROVE  \A i : Abandoned(i)' = Abandoned(i)
  BY <1>5 DEF Abandoned, None
<1>6. QueueInv /\ UNCHANGED <<ended, cPC, resultChCh, pPC, ctl, cur, pos, res>> => QueueInv'
  BY <1>1, <1>4, <1>5, PassedOverKept DEF QueueInv, EOF, None
<1> QED
  BY <1>2, <1>3, <1>6

(***************************************************************************)
(* The queue of results.                                                   *)
(***************************************************************************)

\* QueueInv for the frame d of the last result, the frames R, Q and P being received,
\* queued and at the parser, the queue q and the p frames read; A(i) and S(i) say
\* that frame i is abandoned and passed over, E that the end is queued.
QueueOK(d, R, Q, P, q, p, E, S, A) ==
    /\ d <= p
    /\ \A x \in R \cup Q \cup P : d < x
    /\ \A x \in R, y \in Q : x < y
    /\ \A m, n \in 1..Len(q) : m < n => q[m] < q[n]
    /\ \A x \in R \cup Q, y \in P : x < y
    /\ \A x \in R \cup Q : x <= p \/ (x = Len(file) + 1 /\ E)
    /\ \A i \in d + 1..p : i \in R \cup Q \cup P \/ i \in S \/ i \in A

EndQueued == pPC = "end" /\ res[Len(file) + 1] = EOF
Skipped == {i \in Nat : PassedOver(i)}
Dropped == {i \in Nat : Abandoned(i)}

\* A result names a frame.
LEMMA PlaceOfNat ==
  ASSUME TypeOK
  PROVE  PlaceOf(Len(out)) \in Nat
<1>1. Len(file) \in Nat /\ out \in Seq(Results)
  BY FrameFacts DEF TypeOK
<1>2. \A r \in Results : r[2] \in Nat
  <2>1. \A i \in Places : i \in Nat
    BY <1>1 DEF Places
  <2> QED
    BY <2>1 DEF Results, None, Closed, EOF, CtxErr, Control, Error, Batch
<1>3. CASE Len(out) = 0
  BY <1>3 DEF PlaceOf
<1>4. CASE Len(out) # 0
  <2>1. Len(out) \in 1..Len(out) /\ out[Len(out)] \in Results
    BY <1>1, <1>4
  <2> QED
    BY <1>2, <1>4, <2>1 DEF PlaceOf
<1> QED
  BY <1>3, <1>4

\* QueueInv in terms of QueueOK, before and after a step.
LEMMA QueueOKBefore ==
  ASSUME TypeOK, QueueInv, ended = None, cPC # "drain"
  PROVE  QueueOK(PlaceOf(Len(out)), Receiving, Queued, AtParser, resultChCh, pos, EndQueued,
                 Skipped, Dropped)
<1>1. PlaceOf(Len(out)) \in Nat /\ pos \in Nat
  BY PlaceOfNat, FrameFacts DEF TypeOK
<1>2. \A i \in PlaceOf(Len(out)) + 1..pos : i \in Nat
  BY <1>1
<1> QED
  BY <1>2 DEF QueueInv, QueueOK, EndQueued, Skipped, Dropped

\* The converse, after a step.
LEMMA QueueOKAfter ==
  ASSUME TypeOK',
         ended' = None /\ cPC' # "drain" =>
            QueueOK(PlaceOf(Len(out))', Receiving', Queued', AtParser', resultChCh', pos',
                    EndQueued', Skipped', Dropped'), file' = file
  PROVE  QueueInv'
<1> SUFFICES ASSUME ended' = None, cPC' # "drain" PROVE QueueInv'
  BY DEF QueueInv, None
<1>1. QueueOK(PlaceOf(Len(out))', Receiving', Queued', AtParser', resultChCh', pos',
              EndQueued', Skipped', Dropped')
  BY Zenon
<1>2. /\ PlaceOf(Len(out))' <= pos'
      /\ \A x \in (Receiving \cup Queued \cup AtParser)' : PlaceOf(Len(out))' < x
      /\ \A x \in Receiving', y \in Queued' : x < y
      /\ \A m, n \in 1..Len(resultChCh') : m < n => resultChCh'[m] < resultChCh'[n]
      /\ \A x \in (Receiving \cup Queued)', y \in AtParser' : x < y
      /\ \A x \in (Receiving \cup Queued)' :
            x <= pos' \/ (x = Len(file') + 1 /\ pPC' = "end" /\ res'[x] = EOF)
      /\ \A i \in PlaceOf(Len(out))' + 1..pos' :
            i \in (Receiving \cup Queued \cup AtParser)' \/ PassedOver(i)' \/ Abandoned(i)'
  BY <1>1 DEF QueueOK, EndQueued, Skipped, Dropped, EOF
<1> QED
  BY <1>2, Zenon DEF QueueInv, EOF

\* What may be passed over still may.
LEMMA SkippedKept ==
  ASSUME file' = file, threads' = threads, outside => outside'
  PROVE  Skipped \subseteq Skipped'
  BY PassedOverKept DEF Skipped

\* The frames on their way to the caller are places of the file, or the end.
LEMMA QueueTyped ==
  ASSUME TypeOK
  PROVE  /\ Queued \subseteq Nat /\ Receiving \subseteq Nat /\ AtParser \subseteq Nat
         /\ pos \in Nat /\ Len(file) \in Nat /\ PlaceOf(Len(out)) \in Nat
         /\ Len(resultChCh) \in Nat /\ \A n \in 1..Len(resultChCh) : resultChCh[n] \in Nat
<1>1. Len(file) \in Nat /\ pos \in Nat /\ cur \in Nat
  BY FrameFacts DEF TypeOK
<1>2. resultChCh \in Seq(Nat)
  <2>1. Places \cup {Len(file) + 1} \subseteq Nat
    BY <1>1 DEF Places
  <2>2. resultChCh \in Seq(Places \cup {Len(file) + 1})
    BY DEF TypeOK
  <2> QED
    BY <2>1, <2>2
<1>3. Len(resultChCh) \in Nat /\ \A n \in 1..Len(resultChCh) : resultChCh[n] \in Nat
  BY <1>2
<1> QED
  BY <1>1, <1>3, PlaceOfNat DEF Queued, Receiving, AtParser

\* The parser reads one more frame, and holds it or passes it over.
LEMMA QueueOKRead ==
  ASSUME NEW d \in Nat, NEW p \in Nat, NEW R \in SUBSET Nat, NEW Q \in SUBSET Nat, NEW q,
         NEW S, NEW S1, NEW A1, NEW P1, NEW E1 \in BOOLEAN,
         QueueOK(d, R, Q, {}, q, p, FALSE, S, {}),
         S \subseteq S1, P1 \subseteq {p + 1}, p + 1 \in P1 \cup S1
  PROVE  QueueOK(d, R, Q, P1, q, p + 1, E1, S1, A1)
  BY DEF QueueOK

\* A queue in order stays so when a later frame is appended.
LEMMA AppendOrdered ==
  ASSUME NEW q \in Seq(Nat), NEW x \in Nat, \A n \in 1..Len(q) : q[n] < x,
         \A m, n \in 1..Len(q) : m < n => q[m] < q[n]
  PROVE  \A m, n \in 1..Len(Append(q, x)) : m < n => Append(q, x)[m] < Append(q, x)[n]
<1> DEFINE r == Append(q, x)
<1>1. Len(q) \in Nat /\ Len(r) = Len(q) + 1 /\ r[Len(q) + 1] = x /\ \A n \in 1..Len(q) : r[n] = q[n]
  OBVIOUS
<1> HIDE DEF r
<1>2. ASSUME NEW m \in 1..Len(r), NEW n \in 1..Len(r), m < n
      PROVE  r[m] < r[n]
  <2>1. m \in 1..Len(q) /\ r[m] = q[m]
    BY <1>1, <1>2
  <2>2. CASE n \in 1..Len(q)
    BY <1>1, <1>2, <2>1, <2>2
  <2>3. CASE n = Len(q) + 1
    BY <1>1, <2>1, <2>3
  <2> QED
    BY <1>1, <2>2, <2>3
<1> QED
  BY <1>2 DEF r

\* The queue after an Append.
LEMMA QueuedAppend ==
  ASSUME TypeOK, NEW x \in Nat, resultChCh' = Append(resultChCh, x)
  PROVE  Queued' = Queued \cup {x} /\ resultChCh \in Seq(Nat)
<1>1. resultChCh \in Seq(Nat)
  <2>1. Len(file) \in Nat
    BY FrameFacts
  <2>2. Places \cup {Len(file) + 1} \subseteq Nat
    BY <2>1 DEF Places
  <2>3. resultChCh \in Seq(Places \cup {Len(file) + 1})
    BY DEF TypeOK
  <2> QED
    BY <2>2, <2>3
<1> DEFINE q == resultChCh
<1> DEFINE r == Append(q, x)
<1>2. Len(q) \in Nat /\ Len(r) = Len(q) + 1 /\ r[Len(q) + 1] = x /\ \A n \in 1..Len(q) : r[n] = q[n]
  BY <1>1
<1> HIDE DEF r, q
<1>3. {r[n] : n \in 1..Len(r)} = {q[n] : n \in 1..Len(q)} \cup {x}
  <2>1. 1..Len(r) = (1..Len(q)) \cup {Len(q) + 1}
    BY <1>2
  <2> QED
    BY <1>2, <2>1
<1> QED
  BY <1>1, <1>3 DEF Queued, r, q

(***************************************************************************)
(* The parser's steps.                                                     *)
(***************************************************************************)

\* What all steps of the parser have in common.
LEMMA ParserFacts ==
  ASSUME IInv, ParserUnchanged, pPC # "off"
  PROVE  /\ file' = file /\ threads' = threads /\ threads # 1
         /\ Delivered' /\ NothingLate' /\ SyncInv'
         /\ WorkerTyped /\ CtxTyped /\ CallTyped /\ OutTyped
         /\ UNCHANGED <<workerVars, ctxVars, cPC, cur, eof, err, out, ended, late>>
<1>1. UNCHANGED <<file, threads, workerVars, ctxVars, cPC, cur, eof, err, out, ended, late>>
  BY DEF ParserUnchanged, callerVars
<1>2. UNCHANGED outside /\ UNCHANGED <<late, ended>> /\ UNCHANGED out
  BY <1>1 DEF ctxVars
<1>3. Delivered' /\ NothingLate'
  BY <1>1, <1>2, UnchangedOut DEF IInv, InFileOrder
<1>4. threads # 1
  BY DEF IInv, SyncInv
<1>5. SyncInv'
  BY <1>1, <1>4 DEF SyncInv
<1>6. WorkerTyped /\ CtxTyped /\ CallTyped /\ OutTyped
  BY <1>1, TypedUnchanged DEF IInv, InFileOrder
<1> QED
  BY <1>1, <1>3, <1>4, <1>5, <1>6

\* Reading keeps each worker's Decoder fit for its frame.
LEMMA ReadKeepsWork ==
  ASSUME IInv, Reads, file' = file, threads' = threads, UNCHANGED workerVars
  PROVE  DecoderInv' /\ WorkInv' /\ ReadTyped
<1>1. Len(file) \in Nat /\ TypeOK /\ DecoderInv /\ WorkInv
  BY FrameFacts DEF IInv, InFileOrder
<1>2. DecoderInv'
  BY <1>1, ReadKeepsDecoder
<1>3. pos \in 0..Len(file) - 1 /\ pos' = pos + 1
  BY <1>1, ReadFacts
<1>4. ASSUME NEW w \in Workers, wPC[w] \in {"work", "decode"}
      PROVE  /\ work[w][1] \in 1..pos' /\ file[work[w][1]].kind = "values"
             /\ work[w][2] \in 1..Len(file) + 1 /\ Decodes(work[w][2], work[w][1])'
             /\ wPC[w] = "decode" => file[work[w][1]].does # "badzip"
             /\ wPC[w] = "decode" => \A n \in 1..Len(file) : cache[w][n] = NoType
  <2>1. /\ work[w][1] \in 1..pos /\ file[work[w][1]].kind = "values"
        /\ work[w][2] \in 1..Len(file) + 1 /\ Decodes(work[w][2], work[w][1])
        /\ wPC[w] = "decode" => file[work[w][1]].does # "badzip"
        /\ wPC[w] = "decode" => \A n \in 1..Len(file) : cache[w][n] = NoType
    BY <1>1, <1>4 DEF WorkInv
  <2>2. \A i \in 1..pos : \A k \in 1..Len(file) + 1 : Decodes(k, i) => Decodes(k, i)'
    BY <1>1, ReadKeepsDecodes
  <2>3. UNCHANGED work
    BY DEF workerVars
  <2>4. Decodes(work[w][2], work[w][1])'
    BY <2>1, <2>2, <2>3
  <2>5. work[w][1] \in 1..pos'
    BY <1>3, <2>1
  <2> QED
    BY <2>1, <2>4, <2>5
<1>5. WorkInv'
  BY <1>4 DEF WorkInv, Workers, workerVars, NoType
<1>6. nStream' \in {nStream, nStream + 1} /\ dec' \in [1..Len(file) + 1 -> Seq(Places)]
  BY <1>1, ReadFacts
<1>7. nStream' \in 1..Len(file) + 1
  <2>1. nStream \in 1..Len(file) + 1 /\ nStream <= pos + 1
    BY <1>1 DEF TypeOK, DecoderInv
  <2> QED
    BY <1>1, <1>3, <1>6, <2>1
<1> QED
  BY <1>1, <1>2, <1>3, <1>5, <1>6, <1>7 DEF ReadTyped

\* While the parser is reading no frame is abandoned and the end is not reached.
LEMMA ReadingFacts ==
  ASSUME IInv, pPC = "read"
  PROVE  /\ res[Len(file) + 1] = None /\ ~closed /\ AtParser = {}
         /\ \A i : ~Abandoned(i)
         /\ \A i \in Places : res[i] # None => res[i] \in Gives(i)
         /\ (ended = None /\ cPC # "drain") =>
               \A x \in Receiving \cup Queued : x <= pos
<1>1. res[Len(file) + 1] = None /\ ~closed /\ AtParser = {} /\ (\A i : ~Abandoned(i))
  BY DEF IInv, ResInv, ParserInv, AtParser, Abandoned
<1>2. \A i \in Places : res[i] # None => res[i] \in Gives(i)
  BY <1>1 DEF IInv, ResInv
<1>3. (ended = None /\ cPC # "drain") => \A x \in Receiving \cup Queued : x <= pos
  BY DEF IInv, QueueInv
<1> QED
  BY <1>1, <1>2, <1>3

\* The queue while the parser is reading.
LEMMA ReadingQueue ==
  ASSUME IInv, pPC = "read", ended = None, cPC # "drain"
  PROVE  QueueOK(PlaceOf(Len(out)), Receiving, Queued, {}, resultChCh, pos, FALSE, Skipped, {})
<1>1. QueueOK(PlaceOf(Len(out)), Receiving, Queued, AtParser, resultChCh, pos, EndQueued,
              Skipped, Dropped)
  BY QueueOKBefore DEF IInv, InFileOrder
<1>2. Dropped = {} /\ AtParser = {} /\ ~EndQueued
  BY ReadingFacts DEF Dropped, EndQueued
<1> QED
  BY <1>1, <1>2 DEF QueueOK

\* The end is not disturbed by a read.
LEMMA ParserKeepsEnd ==
  ASSUME IInv, threads' = threads, threads # 1,
         UNCHANGED <<ctxVars, cPC, cur, eof, err, out, ended, late>>, pPC = "end" => pPC' = "end"
  PROVE  EndInv'
  BY DEF IInv, EndInv, ctxVars, Ends, None

\* The parser reads a types frame or the end of a stream, which give nothing.
LEMMA ParserSkipsKeeps ==
  ASSUME IInv, ParserSkips
  PROVE  IInv'
<1>1. pPC = "read" /\ ParserUnchanged /\ Reads
  BY DEF ParserSkips, Reads
<1>2. UNCHANGED <<parserVars, workerCh, resultChCh, closed, res>>
  BY DEF ParserSkips
<1>3. /\ file' = file /\ threads' = threads /\ threads # 1
      /\ Delivered' /\ NothingLate' /\ SyncInv'
      /\ WorkerTyped /\ CtxTyped /\ CallTyped /\ OutTyped
      /\ UNCHANGED <<workerVars, ctxVars, cPC, cur, eof, err, out, ended, late>>
  BY <1>1, ParserFacts
<1>4. DecoderInv' /\ WorkInv' /\ ReadTyped
  BY <1>1, <1>3, ReadKeepsWork
<1>5. TypeOK /\ Len(file) \in Nat
  BY FrameFacts DEF IInv, InFileOrder
<1>6. TypeOK'
  <2>1. ParserTyped /\ WorkerChTyped /\ ResultChTyped /\ ResTyped
    BY <1>2, <1>5, TypedUnchanged
  <2> QED
    BY <1>3, <1>4, <1>5, <2>1, TypeOKFromParts
<1>7. ParserInv'
  BY <1>1, <1>2 DEF IInv, ParserInv, parserVars
<1>8. ResInv'
  BY <1>1, <1>2, <1>3, ReadingFacts, FileFixed DEF ResInv, Places, None
<1>9. EndInv'
  BY <1>1, <1>3, ParserKeepsEnd
<1>10. QueueInv'
  <2> DEFINE d == PlaceOf(Len(out))
  <2>1. /\ Queued' = Queued /\ Receiving' = Receiving /\ AtParser' = {} /\ AtParser = {}
        /\ d' = d /\ resultChCh' = resultChCh
    BY <1>1, <1>2, <1>3 DEF Queued, Receiving, AtParser, PlaceOf, parserVars
  <2>2. pos \in 0..Len(file) - 1 /\ pos' = pos + 1
    BY <1>1, <1>5, ReadFacts
  <2>3. pos + 1 \in Skipped
    <3>1. file[pos + 1].kind \in {"types", "eos"}
      BY DEF ParserSkips, ReadTypes, ReadEOS, NextFrame
    <3>2. Closed \in Gives(pos + 1)
      BY <3>1 DEF Gives
    <3> QED
      BY <2>2, <3>2 DEF PassedOver, Skipped
  <2>4. Skipped \subseteq Skipped'
    BY <1>3, SkippedKept DEF ctxVars
  <2>5. ASSUME ended = None, cPC # "drain"
        PROVE  QueueOK(d, Receiving, Queued, {}, resultChCh, pos + 1, EndQueued', Skipped',
                       Dropped')
    <3>1. QueueOK(d, Receiving, Queued, {}, resultChCh, pos, FALSE, Skipped, {})
      BY <1>1, <2>5, ReadingQueue
    <3>2. /\ Queued \subseteq Nat /\ Receiving \subseteq Nat /\ pos \in Nat /\ d \in Nat
      BY <1>5, QueueTyped
    <3> HIDE DEF d
    <3>3. EndQueued' \in BOOLEAN /\ pos + 1 \in {} \cup Skipped'
      BY <2>3, <2>4 DEF EndQueued
    <3> QED
      BY <2>4, <3>1, <3>2, <3>3, QueueOKRead
  <2> QED
    BY <1>3, <1>6, <2>1, <2>2, <2>5, QueueOKAfter
<1> QED
  BY <1>3, <1>4, <1>6, <1>7, <1>8, <1>9, <1>10 DEF IInv, InFileOrder

\* A frame that is neither of types nor the end of a stream is kept by the parser.
LEMMA ReadFrameQueue ==
  ASSUME IInv, pPC = "read", ReadFrame, file' = file, threads' = threads, TypeOK',
         UNCHANGED <<resultChCh, ctxVars, cPC, cur, ended, out>>, AtParser' = {pos + 1}
  PROVE  QueueInv'
<1> DEFINE d == PlaceOf(Len(out))
<1>1. TypeOK /\ Reads
  BY DEF IInv, InFileOrder, Reads
<1>2. Queued' = Queued /\ Receiving' = Receiving /\ d' = d /\ resultChCh' = resultChCh
  BY DEF Queued, Receiving, PlaceOf
<1>3. pos' = pos + 1
  BY DEF ReadFrame
<1>4. Skipped \subseteq Skipped'
  BY SkippedKept DEF ctxVars
<1>5. ASSUME ended = None, cPC # "drain"
      PROVE  QueueOK(d, Receiving, Queued, {pos + 1}, resultChCh, pos + 1, EndQueued',
                     Skipped', Dropped')
  <2>1. QueueOK(d, Receiving, Queued, {}, resultChCh, pos, FALSE, Skipped, {})
    BY <1>5, ReadingQueue
  <2>2. /\ Queued \subseteq Nat /\ Receiving \subseteq Nat /\ pos \in Nat /\ d \in Nat
    BY <1>1, QueueTyped
  <2> HIDE DEF d
  <2>3. EndQueued' \in BOOLEAN
    BY DEF EndQueued
  <2> QED
    BY <1>4, <2>1, <2>2, <2>3, QueueOKRead
<1> QED
  BY <1>2, <1>3, <1>5, QueueOKAfter

\* It reads a values frame, and looks for a worker.
LEMMA ParserReadsValuesKeeps ==
  ASSUME IInv, ParserReadsValues
  PROVE  IInv'
<1>1. /\ pPC = "read" /\ ParserUnchanged /\ Reads /\ ReadFrame /\ pPC' = "take"
      /\ file[pos + 1].kind = "values"
  BY DEF ParserReadsValues, Reads, NextFrame
<1>2. UNCHANGED <<held, ctl, workerCh, resultChCh, closed, res>>
  BY DEF ParserReadsValues
<1>3. /\ file' = file /\ threads' = threads /\ threads # 1
      /\ Delivered' /\ NothingLate' /\ SyncInv'
      /\ WorkerTyped /\ CtxTyped /\ CallTyped /\ OutTyped
      /\ UNCHANGED <<workerVars, ctxVars, cPC, cur, eof, err, out, ended, late>>
  BY <1>1, ParserFacts
<1>4. DecoderInv' /\ WorkInv' /\ ReadTyped
  BY <1>1, <1>3, ReadKeepsWork
<1>5. TypeOK /\ Len(file) \in Nat
  BY FrameFacts DEF IInv, InFileOrder
<1>6. TypeOK'
  <2>1. WorkerChTyped /\ ResultChTyped /\ ResTyped
    BY <1>2, <1>5, TypedUnchanged
  <2>2. ParserTyped
    BY <1>1, <1>2, <1>5 DEF ParserTyped, ParserPCs, TypeOK
  <2> QED
    BY <1>3, <1>4, <1>5, <2>1, <2>2, TypeOKFromParts
<1>7. pos \in 0..Len(file) - 1 /\ pos' = pos + 1
  BY <1>1, <1>5, ReadFacts
<1>8. ParserInv'
  <2>1. ~closed /\ pos + 1 \in Places
    BY <1>1, <1>5, <1>7, ReadingFacts DEF Places
  <2> QED
    BY <1>1, <1>2, <1>3, <1>7, <2>1 DEF ParserInv, Places
<1>9. ResInv'
  BY <1>1, <1>2, <1>3, ReadingFacts, FileFixed DEF ResInv, Places, None
<1>10. EndInv'
  BY <1>1, <1>3, ParserKeepsEnd
<1>11. QueueInv'
  <2>1. AtParser' = {pos + 1}
    BY <1>1, <1>7 DEF AtParser
  <2> QED
    BY <1>1, <1>2, <1>3, <1>6, <2>1, ReadFrameQueue
<1> QED
  BY <1>3, <1>4, <1>6, <1>8, <1>9, <1>10, <1>11 DEF IInv, InFileOrder

\* The parser reads a control message or a bad frame: the channel has its result.
LEMMA ParserReadsControl ==
  ASSUME IInv, ParserReadsOther, ReadFrame, NextFrame.kind # "values"
  PROVE  IInv'
<1>1. /\ pPC = "read" /\ ParserUnchanged /\ Reads /\ pPC' = "ctl"
      /\ file[pos + 1].kind \in {"control", "bad"} /\ ~AtEnd
  BY DEF ParserReadsOther, Reads, NextFrame, ReadFrame
<1>2. UNCHANGED <<held, workerCh, resultChCh, closed>>
  BY DEF ParserReadsOther
<1>3. /\ file' = file /\ threads' = threads /\ threads # 1
      /\ Delivered' /\ NothingLate' /\ SyncInv'
      /\ WorkerTyped /\ CtxTyped /\ CallTyped /\ OutTyped
      /\ UNCHANGED <<workerVars, ctxVars, cPC, cur, eof, err, out, ended, late>>
  BY <1>1, ParserFacts
<1>4. DecoderInv' /\ WorkInv' /\ ReadTyped
  BY <1>1, <1>3, ReadKeepsWork
<1>5. TypeOK /\ Len(file) \in Nat
  BY FrameFacts DEF IInv, InFileOrder
<1>6. pos \in 0..Len(file) - 1 /\ pos' = pos + 1 /\ pos + 1 \in Places /\ pos + 1 # Len(file) + 1
  BY <1>1, <1>5, ReadFacts DEF Places
<1>7. \/ ReadResult = Control(pos + 1) /\ file[pos + 1].kind = "control"
      \/ ReadResult = Error(pos + 1) /\ file[pos + 1].kind = "bad"
  BY <1>1 DEF ReadResult, NextFrame
<1>8. /\ ctl' = ReadResult /\ res' = [res EXCEPT ![pos + 1] = ReadResult]
      /\ ReadResult # EOF /\ ReadResult \in Gives(pos + 1) /\ ReadResult \in Results
  <2>1. ctl' = ReadResult /\ res' = [res EXCEPT ![pos + 1] = ReadResult]
    BY <1>1 DEF ParserReadsOther
  <2>2. ReadResult # EOF
    BY <1>7 DEF EOF, Control, Error
  <2>3. ReadResult \in Gives(pos + 1)
    BY <1>7 DEF Gives
  <2>4. ReadResult \in Results
    BY <1>6, <1>7, ResultFacts
  <2> QED
    BY <2>1, <2>2, <2>3, <2>4
<1>9. res \in [1..Len(file) + 1 -> Results] /\ pos + 1 \in 1..Len(file) + 1
  BY <1>5, <1>6 DEF TypeOK
<1>10. TypeOK'
  <2>1. WorkerChTyped /\ ResultChTyped
    BY <1>2, <1>5, TypedUnchanged
  <2>2. ParserTyped
    BY <1>1, <1>2, <1>5, <1>8 DEF ParserTyped, ParserPCs, TypeOK
  <2>3. ResTyped
    BY <1>8, <1>9 DEF ResTyped
  <2> QED
    BY <1>3, <1>4, <1>5, <2>1, <2>2, <2>3, TypeOKFromParts
<1>11. ParserInv'
  <2>1. ~closed
    BY <1>1, ReadingFacts
  <2>2. res'[pos'] = ctl' /\ pos' \in Places'
    BY <1>3, <1>6, <1>8, <1>9 DEF Places
  <2>3. \/ ctl' = Control(pos)' /\ file'[pos'].kind = "control"
        \/ ctl' = Error(pos)' /\ file'[pos'].kind = "bad"
    BY <1>3, <1>6, <1>7, <1>8 DEF Control, Error, NoType
  <2> QED
    BY <1>1, <1>2, <2>1, <2>2, <2>3 DEF ParserInv
<1>12. ResInv'
  <2>1. \A i \in Places : res'[i] # None => res'[i] \in Gives(i)
    BY <1>1, <1>6, <1>8, <1>9, ReadingFacts DEF Places
  <2>2. res'[Len(file) + 1] = None
    BY <1>1, <1>5, <1>6, <1>8, <1>9, ReadingFacts
  <2> QED
    BY <1>3, <2>1, <2>2, FileFixed DEF ResInv, Places, None
<1>13. EndInv'
  BY <1>1, <1>3, ParserKeepsEnd
<1>14. QueueInv'
  <2>1. AtParser' = {pos + 1}
    BY <1>1, <1>6, <1>8 DEF AtParser, EOF
  <2> QED
    BY <1>1, <1>2, <1>3, <1>10, <2>1, ReadFrameQueue
<1> QED
  BY <1>3, <1>4, <1>10, <1>11, <1>12, <1>13, <1>14 DEF IInv, InFileOrder

\* The parser finds the end of the file.
LEMMA ParserReadsEnd ==
  ASSUME IInv, ParserReadsOther, AtEnd, UNCHANGED readVars
  PROVE  IInv'
<1>1. pPC = "read" /\ ParserUnchanged /\ pPC' = "ctl"
  BY DEF ParserReadsOther
<1>2. UNCHANGED <<held, workerCh, resultChCh, closed>>
  BY DEF ParserReadsOther
<1>3. /\ file' = file /\ threads' = threads /\ threads # 1
      /\ Delivered' /\ NothingLate' /\ SyncInv'
      /\ WorkerTyped /\ CtxTyped /\ CallTyped /\ OutTyped
      /\ UNCHANGED <<workerVars, ctxVars, cPC, cur, eof, err, out, ended, late>>
  BY <1>1, ParserFacts
<1>4. TypeOK /\ Len(file) \in Nat
  BY FrameFacts DEF IInv, InFileOrder
<1>5. DecoderInv' /\ WorkInv' /\ ReadTyped
  BY <1>3, <1>4, UnchangedParts, TypedUnchanged DEF IInv
<1>6. ReadResult = EOF /\ ctl' = EOF /\ res' = [res EXCEPT ![Len(file) + 1] = EOF]
  BY DEF ParserReadsOther, ReadResult
<1>7. res \in [1..Len(file) + 1 -> Results] /\ Len(file) + 1 \in 1..Len(file) + 1
  BY <1>4 DEF TypeOK
<1>8. TypeOK'
  <2>1. WorkerChTyped /\ ResultChTyped
    BY <1>2, <1>4, TypedUnchanged
  <2>2. ParserTyped
    BY <1>1, <1>2, <1>4, <1>6, ResultFacts DEF ParserTyped, ParserPCs, TypeOK
  <2>3. ResTyped
    BY <1>6, <1>7, ResultFacts DEF ResTyped
  <2> QED
    BY <1>3, <1>4, <1>5, <2>1, <2>2, <2>3, TypeOKFromParts
<1>9. pos' = pos /\ pos = Len(file) /\ res'[Len(file) + 1] = EOF
  BY <1>6, <1>7 DEF AtEnd, readVars
<1>10. ParserInv'
  <2>1. ~closed
    BY <1>1, ReadingFacts
  <2> QED
    BY <1>1, <1>2, <1>3, <1>6, <1>9, <2>1 DEF ParserInv, EOF
<1>11. ResInv'
  <2>1. \A i \in Places : res'[i] # None => res'[i] \in Gives(i)
    BY <1>1, <1>4, <1>6, <1>7, ReadingFacts DEF Places
  <2> QED
    BY <1>1, <1>3, <1>6, <1>9, <2>1, FileFixed DEF ResInv, Places, None, EOF
<1>12. EndInv'
  BY <1>1, <1>3, ParserKeepsEnd
<1>13. QueueInv'
  <2> DEFINE d == PlaceOf(Len(out))
  <2>1. /\ Queued' = Queued /\ Receiving' = Receiving /\ AtParser' = {} /\ d' = d
        /\ resultChCh' = resultChCh
    BY <1>1, <1>2, <1>3, <1>6 DEF Queued, Receiving, AtParser, PlaceOf, EOF
  <2>2. Skipped \subseteq Skipped'
    BY <1>3, SkippedKept DEF ctxVars
  <2>3. ASSUME ended = None, cPC # "drain"
        PROVE  QueueOK(d, Receiving, Queued, {}, resultChCh, pos, EndQueued', Skipped', Dropped')
    <3>1. QueueOK(d, Receiving, Queued, {}, resultChCh, pos, FALSE, Skipped, {})
      BY <1>1, <2>3, ReadingQueue
    <3>2. /\ Queued \subseteq Nat /\ Receiving \subseteq Nat /\ pos \in Nat /\ d \in Nat
      BY <1>4, QueueTyped
    <3> HIDE DEF d
    <3>3. EndQueued' \in BOOLEAN
      BY DEF EndQueued
    <3> QED
      BY <2>2, <3>1, <3>2 DEF QueueOK
  <2> QED
    BY <1>3, <1>8, <1>9, <2>1, <2>3, QueueOKAfter
<1> QED
  BY <1>3, <1>5, <1>8, <1>10, <1>11, <1>12, <1>13 DEF IInv, InFileOrder

\* The two cases of a frame for which no worker is needed.
LEMMA ParserReadsOtherKeeps ==
  ASSUME IInv, ParserReadsOther
  PROVE  IInv'
  BY ParserReadsControl, ParserReadsEnd DEF ParserReadsOther

\* The steps of the parser that read nothing leave the Decoders and the workers alone.
LEMMA ParserStays ==
  ASSUME IInv, file' = file, threads' = threads, UNCHANGED <<readVars, workerVars>>
  PROVE  DecoderInv' /\ WorkInv' /\ ReadTyped
  BY UnchangedParts, TypedUnchanged DEF IInv, InFileOrder

\* A channel is queued where there is room.
LEMMA AppendTyped ==
  ASSUME TypeOK, QueueHasRoom, NEW x \in Places \cup {Len(file) + 1},
         resultChCh' = Append(resultChCh, x), closed' \in BOOLEAN
  PROVE  ResultChTyped
<1>1. /\ resultChCh \in Seq(Places \cup {Len(file) + 1}) /\ Len(resultChCh) < threads + 1
      /\ threads \in Nat
  BY ThreadFacts DEF TypeOK, QueueHasRoom
<1>2. /\ Append(resultChCh, x) \in Seq(Places \cup {Len(file) + 1})
      /\ Len(Append(resultChCh, x)) = Len(resultChCh) + 1 /\ Len(resultChCh) \in Nat
  BY <1>1
<1>3. Len(resultChCh) + 1 <= threads + 1
  BY <1>1, <1>2
<1> QED
  BY <1>2, <1>3 DEF ResultChTyped

\* Before the parser ends no frame is abandoned and no end is queued.
LEMMA NotEndedQueue ==
  ASSUME IInv, pPC # "end"
  PROVE  /\ \A i \in Places : res[i] # None => res[i] \in Gives(i)
         /\ ~closed
         /\ (ended = None /\ cPC # "drain") =>
               QueueOK(PlaceOf(Len(out)), Receiving, Queued, AtParser, resultChCh, pos, FALSE,
                       Skipped, {})
<1>1. \A i \in Places : res[i] # None => res[i] \in Gives(i)
  BY DEF IInv, ResInv, Abandoned
<1>2. ~closed
  BY DEF IInv, ParserInv
<1>3. ASSUME ended = None, cPC # "drain"
      PROVE  QueueOK(PlaceOf(Len(out)), Receiving, Queued, AtParser, resultChCh, pos, FALSE,
                     Skipped, {})
  <2>1. QueueOK(PlaceOf(Len(out)), Receiving, Queued, AtParser, resultChCh, pos, EndQueued,
                Skipped, Dropped)
    BY <1>3, QueueOKBefore DEF IInv, InFileOrder
  <2>2. Dropped = {} /\ ~EndQueued
    BY DEF Dropped, EndQueued, Abandoned
  <2> QED
    BY <2>1, <2>2 DEF QueueOK
<1> QED
  BY <1>1, <1>2, <1>3

\* What sendControl sends: the end, a control message or an error.
LEMMA ControlCases ==
  ASSUME IInv, pPC = "ctl"
  PROVE  \/ /\ ctl = EOF /\ ctl[1] # "control" /\ pos = Len(file) /\ res[Len(file) + 1] = EOF
            /\ AtParser = {}
         \/ /\ ctl # EOF /\ pos \in Places /\ AtParser = {pos} /\ res[Len(file) + 1] = None
            /\ (ctl[1] = "control" <=> file[pos].kind = "control")
<1>1. CASE ctl = EOF /\ pos = Len(file) /\ res[Len(file) + 1] = EOF
  BY <1>1 DEF AtParser, EOF
<1>2. CASE /\ pos \in Places /\ res[pos] = ctl
           /\ \/ ctl = Control(pos) /\ file[pos].kind = "control"
              \/ ctl = Error(pos) /\ file[pos].kind = "bad"
  <2>1. ctl # EOF /\ (ctl[1] = "control" <=> file[pos].kind = "control")
    BY <1>2 DEF EOF, Control, Error
  <2>2. res[Len(file) + 1] = None
    BY <2>1 DEF IInv, ResInv
  <2>3. AtParser = {pos}
    BY <2>1 DEF AtParser
  <2> QED
    BY <1>2, <2>1, <2>2, <2>3
<1> QED
  BY <1>1, <1>2 DEF IInv, ParserInv

\* The control result is queued behind the frames read before, or given up.
LEMMA SendControlKeeps ==
  ASSUME IInv, SendControl
  PROVE  IInv'
<1> DEFINE x == IF ctl = EOF THEN Len(file) + 1 ELSE pos
<1>1. /\ pPC = "ctl" /\ ParserUnchanged /\ ctl' = None
      /\ UNCHANGED <<readVars, workerCh, res>>
  BY DEF SendControl
<1>2. \/ QueueHasRoom /\ resultChCh' = Append(resultChCh, x)
      \/ cancelled /\ UNCHANGED resultChCh
  BY DEF SendControl
<1>3. \/ ctl[1] = "control" /\ pPC' = "read" /\ held' = held /\ closed' = closed
      \/ ctl[1] # "control" /\ pPC' = "end" /\ held' = 0 /\ closed' = TRUE
  BY DEF SendControl, ParserEnds
<1>4. /\ file' = file /\ threads' = threads /\ threads # 1
      /\ Delivered' /\ NothingLate' /\ SyncInv'
      /\ WorkerTyped /\ CtxTyped /\ CallTyped /\ OutTyped
      /\ UNCHANGED <<workerVars, ctxVars, cPC, cur, eof, err, out, ended, late>>
  BY <1>1, ParserFacts
<1>5. TypeOK /\ Len(file) \in Nat /\ threads \in Nat
  BY FrameFacts, ThreadFacts DEF IInv, InFileOrder
<1>6. DecoderInv' /\ WorkInv' /\ ReadTyped
  BY <1>1, <1>4, ParserStays
<1>7. x \in Places \cup {Len(file) + 1} /\ x \in Nat
  BY <1>1, <1>5, ControlCases DEF Places
<1>8. ~closed /\ closed' \in BOOLEAN /\ (\A i \in Places : res[i] # None => res[i] \in Gives(i))
  BY <1>1, <1>3, <1>5, NotEndedQueue DEF TypeOK
<1>9. TypeOK'
  <2>1. WorkerChTyped /\ ResTyped
    BY <1>1, <1>5, TypedUnchanged
  <2>2. ParserTyped
    <3>1. held \in 0..threads /\ 0 \in 0..threads
      BY <1>5 DEF TypeOK
    <3> QED
      BY <1>1, <1>3, <3>1, ResultFacts DEF ParserTyped, ParserPCs
  <2>3. CASE QueueHasRoom /\ resultChCh' = Append(resultChCh, x)
    <3> HIDE DEF x
    <3>1. ResultChTyped
      BY <1>5, <1>7, <1>8, <2>3, AppendTyped
    <3> QED
      BY <1>4, <1>5, <1>6, <2>1, <2>2, <3>1, TypeOKFromParts
  <2>4. CASE UNCHANGED resultChCh
    <3>1. ResultChTyped
      BY <1>5, <1>8, <2>4 DEF ResultChTyped, TypeOK
    <3> QED
      BY <1>4, <1>5, <1>6, <2>1, <2>2, <3>1, TypeOKFromParts
  <2> QED
    BY <1>2, <2>3, <2>4
<1>10. ParserInv'
  BY <1>3, <1>8 DEF ParserInv
<1>11. ResInv'
  <2>1. UNCHANGED <<pos, res>>
    BY <1>1 DEF readVars
  <2>2. res[Len(file) + 1] # None => res[Len(file) + 1] = EOF /\ pos = Len(file) /\ pPC' = "end"
    BY <1>1, <1>3, ControlCases
  <2> QED
    BY <1>4, <1>8, <2>1, <2>2, FileFixed DEF ResInv, Places, None, EOF
<1>12. EndInv'
  BY <1>1, <1>4, ParserKeepsEnd
<1>13. QueueInv'
  <2> DEFINE d == PlaceOf(Len(out))
  <2>1. Receiving' = Receiving /\ AtParser' = {} /\ d' = d /\ pos' = pos /\ res' = res
    BY <1>1, <1>3, <1>4 DEF Receiving, AtParser, PlaceOf, readVars
  <2>2. Skipped \subseteq Skipped' /\ EndQueued' \in BOOLEAN
    BY <1>4, SkippedKept DEF ctxVars, EndQueued
  <2>3. /\ Queued \subseteq Nat /\ Receiving \subseteq Nat /\ pos \in Nat /\ d \in Nat
    BY <1>5, QueueTyped
  <2>4. \A n \in 1..Len(resultChCh) : resultChCh[n] \in Queued
    BY DEF Queued
  <2> SUFFICES ASSUME ended = None, cPC # "drain"
               PROVE  QueueOK(d, Receiving, Queued', {}, resultChCh', pos, EndQueued', Skipped',
                              Dropped')
    BY <1>4, <1>9, <2>1, QueueOKAfter
  <2>5. QueueOK(d, Receiving, Queued, AtParser, resultChCh, pos, FALSE, Skipped, {})
    BY <1>1, NotEndedQueue
  <2> HIDE DEF d
  <2>6. CASE QueueHasRoom /\ resultChCh' = Append(resultChCh, x)
    <3>1. d < x /\ (\A y \in Receiving \cup Queued : y < x) /\ AtParser \subseteq {x}
      BY <1>1, <1>5, <2>3, <2>5, ControlCases DEF QueueOK
    <3>2. x <= pos \/ (x = Len(file) + 1 /\ EndQueued')
      BY <1>1, <1>3, <1>4, <2>1, <2>3, ControlCases DEF EndQueued, EOF
    <3> HIDE DEF x
    <3>3. Queued' = Queued \cup {x} /\ resultChCh \in Seq(Nat)
      BY <1>5, <1>7, <2>6, QueuedAppend
    <3>4. QueueOK(d, Receiving, Queued \cup {x}, {}, Append(resultChCh, x), pos, EndQueued',
                  Skipped', Dropped')
      <4>1. \A m, n \in 1..Len(Append(resultChCh, x)) :
               m < n => Append(resultChCh, x)[m] < Append(resultChCh, x)[n]
        BY <1>7, <2>4, <2>5, <3>1, <3>3, AppendOrdered DEF QueueOK
      <4> QED
        BY <1>7, <2>2, <2>3, <2>5, <3>1, <3>2, <4>1 DEF QueueOK
    <3> QED
      BY <2>6, <3>3, <3>4
  <2>7. CASE cancelled /\ UNCHANGED resultChCh
    <3>1. Queued' = Queued
      BY <2>7 DEF Queued
    <3>2. outside /\ outside'
      BY <1>4, <2>7 DEF IInv, EndInv, ctxVars
    <3>3. AtParser \subseteq Skipped' \cup Dropped'
      <4>1. CASE ctl = EOF
        BY <1>1, <4>1, ControlCases
      <4>2. CASE ctl # EOF /\ ctl[1] = "control"
        BY <1>1, <1>4, <2>1, <2>3, <3>2, <4>2, ControlCases DEF Skipped, PassedOver
      <4>3. CASE ctl # EOF /\ ctl[1] # "control"
        BY <1>1, <1>3, <1>4, <2>1, <2>3, <4>3, ControlCases DEF Dropped, Abandoned, None
      <4> QED
        BY <4>1, <4>2, <4>3
    <3>4. QueueOK(d, Receiving, Queued, {}, resultChCh, pos, EndQueued', Skipped', Dropped')
      BY <2>2, <2>3, <2>5, <3>3 DEF QueueOK
    <3> QED
      BY <2>7, <3>1, <3>4
  <2> QED
    BY <1>2, <2>6, <2>7
<1> QED
  BY <1>4, <1>6, <1>9, <1>10, <1>11, <1>12, <1>13 DEF IInv, InFileOrder

\* The parser takes a worker for its frame.
LEMMA TakeWorkerKeeps ==
  ASSUME IInv, TakeWorker
  PROVE  IInv'
<1>1. /\ pPC = "take" /\ pPC' = "queue" /\ ParserUnchanged /\ workerCh # <<>>
      /\ held' = Head(workerCh) /\ workerCh' = Tail(workerCh)
      /\ UNCHANGED <<readVars, ctl, resultChCh, closed, res>>
  BY DEF TakeWorker
<1>2. /\ file' = file /\ threads' = threads /\ threads # 1
      /\ Delivered' /\ NothingLate' /\ SyncInv'
      /\ WorkerTyped /\ CtxTyped /\ CallTyped /\ OutTyped
      /\ UNCHANGED <<workerVars, ctxVars, cPC, cur, eof, err, out, ended, late>>
  BY <1>1, ParserFacts
<1>3. TypeOK /\ Len(file) \in Nat /\ threads \in Nat
  BY FrameFacts, ThreadFacts DEF IInv, InFileOrder
<1>4. DecoderInv' /\ WorkInv' /\ ReadTyped
  BY <1>1, <1>2, ParserStays
<1>5. /\ Head(workerCh) \in Workers /\ Tail(workerCh) \in Seq(Workers)
      /\ Len(Tail(workerCh)) <= threads + 1
  <2>1. workerCh \in Seq(Workers) /\ Len(workerCh) <= threads + 1
    BY <1>3 DEF TypeOK
  <2>2. /\ Head(workerCh) \in Workers /\ Tail(workerCh) \in Seq(Workers)
        /\ Len(Tail(workerCh)) = Len(workerCh) - 1 /\ Len(workerCh) \in Nat
    BY <1>1, <2>1
  <2> QED
    BY <1>3, <2>1, <2>2
<1>6. TypeOK'
  <2>1. ResultChTyped /\ ResTyped
    BY <1>1, <1>3, TypedUnchanged
  <2>2. WorkerChTyped
    BY <1>1, <1>5 DEF WorkerChTyped
  <2>3. ParserTyped
    <3>1. Head(workerCh) \in 0..threads /\ ctl \in Results
      BY <1>3, <1>5 DEF TypeOK, Workers
    <3> QED
      BY <1>1, <3>1 DEF ParserTyped, ParserPCs
  <2> QED
    BY <1>2, <1>3, <1>4, <2>1, <2>2, <2>3, TypeOKFromParts
<1>7. ParserInv'
  BY <1>1, <1>2, <1>5, NotEndedQueue DEF IInv, ParserInv, Places, Workers, readVars
<1>8. ResInv'
  BY <1>1, <1>2, FileFixed DEF IInv, ResInv, Abandoned, Places, None, EOF, readVars
<1>9. EndInv'
  BY <1>1, <1>2, ParserKeepsEnd
<1>10. QueueInv'
  <2> DEFINE d == PlaceOf(Len(out))
  <2>1. /\ Queued' = Queued /\ Receiving' = Receiving /\ AtParser' = AtParser /\ d' = d
        /\ resultChCh' = resultChCh /\ pos' = pos
    BY <1>1, <1>2 DEF Queued, Receiving, AtParser, PlaceOf, readVars
  <2>2. Skipped \subseteq Skipped'
    BY <1>2, SkippedKept DEF ctxVars
  <2>3. ASSUME ended = None, cPC # "drain"
        PROVE  QueueOK(d, Receiving, Queued, AtParser, resultChCh, pos, EndQueued', Skipped',
                       Dropped')
    <3>1. QueueOK(d, Receiving, Queued, AtParser, resultChCh, pos, FALSE, Skipped, {})
      BY <1>1, <2>3, NotEndedQueue
    <3> HIDE DEF d
    <3> QED
      BY <2>2, <3>1 DEF QueueOK
  <2> QED
    BY <1>2, <1>6, <2>1, <2>3, QueueOKAfter
<1> QED
  BY <1>2, <1>4, <1>6, <1>7, <1>8, <1>9, <1>10 DEF IInv, InFileOrder

\* The frame is queued behind those read before.
LEMMA QueueResultChKeeps ==
  ASSUME IInv, QueueResultCh
  PROVE  IInv'
<1>1. /\ pPC = "queue" /\ pPC' = "give" /\ ParserUnchanged /\ QueueHasRoom
      /\ resultChCh' = Append(resultChCh, pos)
      /\ UNCHANGED <<readVars, held, ctl, workerCh, closed, res>>
  BY DEF QueueResultCh
<1>2. /\ file' = file /\ threads' = threads /\ threads # 1
      /\ Delivered' /\ NothingLate' /\ SyncInv'
      /\ WorkerTyped /\ CtxTyped /\ CallTyped /\ OutTyped
      /\ UNCHANGED <<workerVars, ctxVars, cPC, cur, eof, err, out, ended, late>>
  BY <1>1, ParserFacts
<1>3. TypeOK /\ Len(file) \in Nat /\ pos \in Places /\ pos \in Nat
  BY <1>1, FrameFacts DEF IInv, InFileOrder, ParserInv, TypeOK
<1>4. DecoderInv' /\ WorkInv' /\ ReadTyped
  BY <1>1, <1>2, ParserStays
<1>5. TypeOK'
  <2>1. WorkerChTyped /\ ResTyped
    BY <1>1, <1>3, TypedUnchanged
  <2>2. closed' \in BOOLEAN
    BY <1>1, <1>3 DEF TypeOK
  <2>3. ResultChTyped
    BY <1>1, <1>3, <2>2, AppendTyped
  <2>4. ParserTyped
    BY <1>1, <1>3 DEF ParserTyped, ParserPCs, TypeOK
  <2> QED
    BY <1>2, <1>3, <1>4, <2>1, <2>3, <2>4, TypeOKFromParts
<1>6. ParserInv'
  BY <1>1, <1>2, NotEndedQueue DEF IInv, ParserInv, Places, Workers, readVars
<1>7. ResInv'
  BY <1>1, <1>2, FileFixed DEF IInv, ResInv, Abandoned, Places, None, EOF, readVars
<1>8. EndInv'
  BY <1>1, <1>2, ParserKeepsEnd
<1>9. QueueInv'
  <2> DEFINE d == PlaceOf(Len(out))
  <2>1. /\ Receiving' = Receiving /\ AtParser' = {} /\ AtParser = {pos} /\ d' = d
        /\ pos' = pos
    BY <1>1, <1>2 DEF Receiving, AtParser, PlaceOf, readVars
  <2>2. Skipped \subseteq Skipped'
    BY <1>2, SkippedKept DEF ctxVars
  <2>3. Queued' = Queued \cup {pos} /\ resultChCh \in Seq(Nat)
    BY <1>1, <1>3, QueuedAppend
  <2>4. /\ Queued \subseteq Nat /\ Receiving \subseteq Nat /\ pos \in Nat /\ d \in Nat
    BY <1>3, QueueTyped
  <2>5. \A n \in 1..Len(resultChCh) : resultChCh[n] \in Queued
    BY DEF Queued
  <2>6. ASSUME ended = None, cPC # "drain"
        PROVE  QueueOK(d, Receiving, Queued \cup {pos}, {}, Append(resultChCh, pos), pos,
                       EndQueued', Skipped', Dropped')
    <3>1. QueueOK(d, Receiving, Queued, {pos}, resultChCh, pos, FALSE, Skipped, {})
      BY <1>1, <2>1, <2>6, NotEndedQueue
    <3> HIDE DEF d
    <3>2. \A m, n \in 1..Len(Append(resultChCh, pos)) :
             m < n => Append(resultChCh, pos)[m] < Append(resultChCh, pos)[n]
      BY <2>3, <2>4, <2>5, <3>1, AppendOrdered DEF QueueOK
    <3> QED
      BY <2>2, <2>4, <3>1, <3>2 DEF QueueOK
  <2> QED
    BY <1>1, <1>2, <1>5, <2>1, <2>3, <2>6, QueueOKAfter
<1> QED
  BY <1>2, <1>4, <1>5, <1>6, <1>7, <1>8, <1>9 DEF IInv, InFileOrder

\* The parser gives up at its frame, which is abandoned.
LEMMA ParserCancelledKeeps ==
  ASSUME IInv, ParserCancelled
  PROVE  IInv'
<1>1. /\ pPC \in {"take", "queue", "give"} /\ pPC' = "end" /\ held' = 0 /\ closed' = TRUE
      /\ cancelled /\ ParserUnchanged
      /\ res' = IF pPC = "give" THEN [res EXCEPT ![pos] = Closed] ELSE res
      /\ UNCHANGED <<readVars, ctl, workerCh, resultChCh>>
  BY DEF ParserCancelled, ParserEnds
<1>2. /\ file' = file /\ threads' = threads /\ threads # 1
      /\ Delivered' /\ NothingLate' /\ SyncInv'
      /\ WorkerTyped /\ CtxTyped /\ CallTyped /\ OutTyped
      /\ UNCHANGED <<workerVars, ctxVars, cPC, cur, eof, err, out, ended, late>>
  BY <1>1, ParserFacts
<1>3. TypeOK /\ Len(file) \in Nat /\ threads \in Nat /\ pos \in Places
  BY <1>1, FrameFacts, ThreadFacts DEF IInv, InFileOrder, ParserInv
<1>4. DecoderInv' /\ WorkInv' /\ ReadTyped
  BY <1>1, <1>2, ParserStays
<1>5. res \in [1..Len(file) + 1 -> Results] /\ pos \in 1..Len(file) + 1 /\ pos # Len(file) + 1
  BY <1>3 DEF TypeOK, Places
<1>6. TypeOK'
  <2>1. WorkerChTyped
    BY <1>1, <1>3, TypedUnchanged
  <2>2. ResTyped
    BY <1>1, <1>5, ResultFacts DEF ResTyped
  <2>3. ResultChTyped
    BY <1>1, <1>3 DEF ResultChTyped, TypeOK
  <2>4. ParserTyped
    <3>1. 0 \in 0..threads /\ ctl \in Results
      BY <1>3 DEF TypeOK
    <3> QED
      BY <1>1, <3>1 DEF ParserTyped, ParserPCs
  <2> QED
    BY <1>2, <1>3, <1>4, <2>1, <2>2, <2>3, <2>4, TypeOKFromParts
<1>7. ParserInv'
  BY <1>1 DEF ParserInv
<1>8. res[Len(file) + 1] = None /\ res'[Len(file) + 1] = None
  <2>1. res[Len(file) + 1] = None
    BY <1>1 DEF IInv, ResInv
  <2> QED
    BY <1>1, <1>5, <2>1
<1>9. Abandoned(pos)'
  BY <1>1, <1>2, <1>8 DEF Abandoned, readVars, None
<1>10. ResInv'
  <2>1. ASSUME NEW i \in Places, res'[i] # None
        PROVE  res'[i] \in Gives(i) \/ (res'[i] = Closed /\ i = pos)
    <3>1. CASE i = pos /\ pPC = "give"
      BY <1>1, <1>5, <3>1
    <3>2. CASE ~(i = pos /\ pPC = "give")
      <4>1. res'[i] = res[i]
        BY <1>1, <1>5, <3>2 DEF Places
      <4> QED
        BY <1>1, <2>1, <4>1, NotEndedQueue
    <3> QED
      BY <3>1, <3>2
  <2>2. pos' = pos
    BY <1>1 DEF readVars
  <2> QED
    BY <1>2, <1>8, <1>9, <2>1, <2>2, FileFixed DEF ResInv, Places, None, Closed, Abandoned
<1>11. EndInv'
  BY <1>1, <1>2, ParserKeepsEnd
<1>12. QueueInv'
  <2> DEFINE d == PlaceOf(Len(out))
  <2>1. /\ Queued' = Queued /\ Receiving' = Receiving /\ AtParser' = {} /\ d' = d
        /\ resultChCh' = resultChCh /\ pos' = pos
    BY <1>1, <1>2 DEF Queued, Receiving, AtParser, PlaceOf, readVars
  <2>2. Skipped \subseteq Skipped' /\ AtParser \subseteq {pos}
    BY <1>2, SkippedKept DEF ctxVars, AtParser
  <2>3. pos \in Dropped'
    BY <1>3, <1>9, <2>1 DEF Dropped, Places
  <2>4. ASSUME ended = None, cPC # "drain"
        PROVE  QueueOK(d, Receiving, Queued, {}, resultChCh, pos, EndQueued', Skipped',
                       Dropped')
    <3>1. QueueOK(d, Receiving, Queued, AtParser, resultChCh, pos, FALSE, Skipped, {})
      BY <1>1, <2>4, NotEndedQueue
    <3> HIDE DEF d
    <3> QED
      BY <2>2, <2>3, <3>1 DEF QueueOK
  <2> QED
    BY <1>2, <1>6, <2>1, <2>4, QueueOKAfter
<1> QED
  BY <1>2, <1>4, <1>6, <1>7, <1>10, <1>11, <1>12 DEF IInv, InFileOrder

\* The worker the parser has taken gets the frame and the Decoder in use.
LEMMA GiveWorkKeeps ==
  ASSUME IInv, GiveWork
  PROVE  IInv'
<1>1. /\ pPC = "give" /\ pPC' = "read" /\ held' = 0
      /\ work' = [work EXCEPT ![held] = <<pos, nStream>>]
      /\ wPC' = [wPC EXCEPT ![held] = "work"]
      /\ UNCHANGED <<file, threads, readVars, ctl, cache, workerCh, resultChCh, closed, res,
                     ctxVars, cPC, cur, eof, err, out, ended, late>>
  BY DEF GiveWork, callerVars
<1>2. TypeOK /\ Len(file) \in Nat /\ threads \in Nat /\ pos \in Places /\ held \in Workers
  BY <1>1, FrameFacts, ThreadFacts DEF IInv, InFileOrder, ParserInv
<1>3. threads # 1 /\ ~closed
  BY <1>1, NotEndedQueue DEF IInv, SyncInv
<1>4. Delivered' /\ NothingLate' /\ DecoderInv'
  BY <1>1, UnchangedOut, UnchangedParts DEF IInv, InFileOrder, ctxVars
<1>5. SyncInv'
  BY <1>1, <1>3 DEF SyncInv
<1>6. /\ wPC \in [Workers -> WorkerPCs] /\ cache \in [Workers -> [1..Len(file) -> Types]]
      /\ work \in [Workers -> {NoWork} \cup Places \X (1..Len(file) + 1)]
      /\ nStream \in 1..Len(file) + 1
  BY <1>2 DEF TypeOK, WorkerPCs
<1>7. TypeOK'
  <2>1. /\ ReadTyped /\ WorkerChTyped /\ ResultChTyped /\ ResTyped /\ CtxTyped /\ CallTyped
        /\ OutTyped
    BY <1>1, <1>2, TypedUnchanged
  <2>2. WorkerTyped
    <3>1. <<pos, nStream>> \in {NoWork} \cup Places \X (1..Len(file) + 1)
      BY <1>2, <1>6
    <3>2. wPC' \in [Workers -> WorkerPCs]
      BY <1>1, <1>6 DEF WorkerPCs
    <3>3. work' \in [Workers -> {NoWork} \cup Places \X (1..Len(file) + 1)]
      BY <1>1, <1>6, <3>1
    <3> QED
      BY <1>1, <1>6, <3>2, <3>3 DEF WorkerTyped
  <2>3. ParserTyped
    <3>1. 0 \in 0..threads /\ ctl \in Results
      BY <1>2 DEF TypeOK
    <3> QED
      BY <1>1, <3>1 DEF ParserTyped, ParserPCs
  <2> QED
    BY <1>1, <1>2, <2>1, <2>2, <2>3, TypeOKFromParts
<1>8. ParserInv'
  BY <1>1, <1>3 DEF ParserInv
<1>9. UNCHANGED readVars /\ pos' = pos
  BY <1>1 DEF readVars
<1>10. WorkInv'
  <2>1. \A k, i : Decodes(k, i)' = Decodes(k, i)
    BY <1>1, FileFixed DEF Decodes, readVars
  <2>2. file[pos].kind = "values"
    BY <1>1 DEF IInv, ParserInv
  <2>3. Decodes(nStream, pos)
    <3>1. Holds(dec[nStream], StreamTypes(pos))
      BY DEF IInv, DecoderInv
    <3>2. SameStream(pos, pos) /\ nStream <= nStream
      <4>1. \A k \in pos + 1..pos : FALSE
        BY <1>2 DEF Places
      <4> QED
        BY <1>6, <4>1 DEF SameStream
    <3> QED
      BY <3>1, <3>2 DEF Decodes, Holds
  <2>4. pos \in 1..pos
    BY <1>2 DEF Places
  <2>5. ASSUME NEW w \in Workers, wPC'[w] \in {"work", "decode"}
        PROVE  /\ work'[w][1] \in 1..pos /\ file[work'[w][1]].kind = "values"
               /\ work'[w][2] \in 1..Len(file) + 1 /\ Decodes(work'[w][2], work'[w][1])
               /\ wPC'[w] = "decode" => file[work'[w][1]].does # "badzip"
               /\ wPC'[w] = "decode" => \A n \in 1..Len(file) : cache[w][n] = NoType
    <3>1. CASE w = held
      BY <1>1, <1>2, <1>6, <2>2, <2>3, <2>4, <3>1
    <3>2. CASE w # held
      <4>1. wPC'[w] = wPC[w] /\ work'[w] = work[w]
        BY <1>1, <1>6, <3>2
      <4> QED
        BY <2>5, <4>1 DEF IInv, WorkInv
    <3> QED
      BY <3>1, <3>2
  <2> QED
    BY <1>1, <1>9, <2>1, <2>5 DEF WorkInv, Workers, NoType
<1>11. ResInv'
  BY <1>1, <1>9, FileFixed DEF IInv, ResInv, Abandoned, Places, None, EOF
<1>12. EndInv'
  BY <1>1, <1>3, ParserKeepsEnd
<1>13. QueueInv'
  <2> DEFINE d == PlaceOf(Len(out))
  <2>1. /\ Queued' = Queued /\ Receiving' = Receiving /\ AtParser' = AtParser /\ d' = d
        /\ resultChCh' = resultChCh /\ pos' = pos
    BY <1>1, <1>9 DEF Queued, Receiving, AtParser, PlaceOf
  <2>2. Skipped \subseteq Skipped'
    BY <1>1, SkippedKept DEF ctxVars
  <2>3. ASSUME ended = None, cPC # "drain"
        PROVE  QueueOK(d, Receiving, Queued, AtParser, resultChCh, pos, EndQueued', Skipped',
                       Dropped')
    <3>1. QueueOK(d, Receiving, Queued, AtParser, resultChCh, pos, FALSE, Skipped, {})
      BY <1>1, <2>3, NotEndedQueue
    <3> HIDE DEF d
    <3> QED
      BY <2>2, <3>1 DEF QueueOK
  <2> QED
    BY <1>1, <1>7, <2>1, <2>3, QueueOKAfter
<1> QED
  BY <1>4, <1>5, <1>7, <1>8, <1>10, <1>11, <1>12, <1>13 DEF IInv, InFileOrder

(***************************************************************************)
(* The workers' steps.                                                     *)
(***************************************************************************)

\* A worker puts in the channel of a values frame what the frame gives, or nothing.
Puts(i) ==
    \/ res' = res
    \/ /\ i \in Places /\ file[i].kind = "values"
       /\ \E r \in Gives(i) \cap Results : res' = [res EXCEPT ![i] = r]

\* What a step of a worker leaves alone stays as it was.
LEMMA WorkerKeepsRest ==
  ASSUME IInv, WorkerUnchanged, NEW i, Puts(i), NEW w \in Workers, wPC[w] # "off",
         WorkerTyped, WorkerChTyped, WorkInv'
  PROVE  IInv'
<1>1. /\ file' = file /\ threads' = threads /\ UNCHANGED <<readVars, parserVars>>
      /\ UNCHANGED <<resultChCh, closed>> /\ UNCHANGED ctxVars
      /\ UNCHANGED <<cPC, cur, eof, err>> /\ UNCHANGED <<out, ended, late>>
  BY DEF WorkerUnchanged, callerVars
<1>2. UNCHANGED <<pos, pPC, held, ctl, out, ended, late, outside, cancelled>>
  BY <1>1 DEF readVars, parserVars, ctxVars
<1>3. TypeOK /\ Len(file) \in Nat /\ res \in [1..Len(file) + 1 -> Results]
  BY FrameFacts DEF IInv, InFileOrder, TypeOK
<1>4. Delivered' /\ NothingLate' /\ DecoderInv' /\ EndInv'
  BY <1>1, <1>2, UnchangedOut, UnchangedParts DEF IInv, InFileOrder
<1>5. threads # 1 /\ SyncInv'
  BY <1>1 DEF IInv, SyncInv
<1>6. /\ \A j \in Places : res'[j] = res[j] \/ (file[j].kind = "values" /\ res'[j] \in Gives(j))
      /\ res'[Len(file) + 1] = res[Len(file) + 1] /\ ResTyped
  <2>1. CASE res' = res
    BY <1>3, <2>1 DEF ResTyped
  <2>2. CASE /\ i \in Places /\ file[i].kind = "values"
             /\ \E r \in Gives(i) \cap Results : res' = [res EXCEPT ![i] = r]
    <3>1. i \in 1..Len(file) + 1 /\ i # Len(file) + 1
      BY <1>3, <2>2 DEF Places
    <3> QED
      BY <1>3, <2>2, <3>1 DEF ResTyped, Places
  <2> QED
    BY <2>1, <2>2 DEF Puts
<1>7. TypeOK'
  <2>1. ReadTyped /\ ParserTyped /\ ResultChTyped /\ CtxTyped /\ CallTyped /\ OutTyped
    BY <1>1, <1>3, TypedUnchanged
  <2> QED
    BY <1>1, <1>3, <1>6, <2>1, TypeOKFromParts
<1>8. ParserInv'
  <2>1. ASSUME pPC = "ctl"
        PROVE  \/ ctl = EOF /\ pos = Len(file) /\ res'[Len(file) + 1] = EOF
               \/ /\ pos \in Places /\ res'[pos] = ctl
                  /\ \/ ctl = Control(pos) /\ file[pos].kind = "control"
                     \/ ctl = Error(pos) /\ file[pos].kind = "bad"
    BY <1>6, <2>1 DEF IInv, ParserInv
  <2> QED
    BY <1>1, <1>2, <2>1 DEF IInv, ParserInv, Places, Workers, EOF, Control, Error, NoType
<1>9. ResInv'
  <2>1. \A j \in Places : res'[j] # None =>
           res'[j] \in Gives(j) \/ (res'[j] = Closed /\ Abandoned(j))
    BY <1>6 DEF IInv, ResInv
  <2>2. \A j : Abandoned(j)' = Abandoned(j)
    BY <1>1, <1>2, <1>6 DEF Abandoned, None
  <2> QED
    BY <1>1, <1>2, <1>6, <2>1, <2>2, FileFixed DEF IInv, ResInv, Places, None, Closed, EOF
<1>10. QueueInv'
  <2> DEFINE d == PlaceOf(Len(out))
  <2>1. /\ Queued' = Queued /\ Receiving' = Receiving /\ AtParser' = AtParser /\ d' = d
        /\ resultChCh' = resultChCh /\ pos' = pos
    BY <1>1, <1>2 DEF Queued, Receiving, AtParser, PlaceOf, EOF
  <2>2. Skipped \subseteq Skipped' /\ Dropped \subseteq Dropped' /\ (EndQueued => EndQueued')
    BY <1>1, <1>2, <1>6, SkippedKept DEF Dropped, EndQueued, Abandoned, None, EOF
  <2>3. ASSUME ended = None, cPC # "drain"
        PROVE  QueueOK(d, Receiving, Queued, AtParser, resultChCh, pos, EndQueued', Skipped',
                       Dropped')
    <3>1. QueueOK(d, Receiving, Queued, AtParser, resultChCh, pos, EndQueued, Skipped, Dropped)
      BY <1>3, <2>3, QueueOKBefore DEF IInv
    <3> HIDE DEF d
    <3> QED
      BY <2>2, <3>1 DEF QueueOK
  <2> QED
    BY <1>1, <1>7, <2>1, <2>3, QueueOKAfter
<1> QED
  BY <1>4, <1>5, <1>7, <1>8, <1>9, <1>10 DEF IInv, InFileOrder

\* A step of worker w leaves the frames of the others alone, and w without a frame or
\* with the one it had and an empty cache.
LEMMA WorkInvOfOne ==
  ASSUME IInv, WorkerUnchanged, NEW w \in Workers,
         \A v \in Workers \ {w} :
            wPC'[v] = wPC[v] /\ work'[v] = work[v] /\ cache'[v] = cache[v],
         wPC'[w] \in {"work", "decode"} =>
            /\ wPC[w] \in {"work", "decode"} /\ work'[w] = work[w]
            /\ file[work[w][1]].does # "badzip"
            /\ \A n \in 1..Len(file) : cache'[w][n] = NoType
  PROVE  WorkInv'
<1>1. file' = file /\ threads' = threads /\ UNCHANGED readVars
  BY DEF WorkerUnchanged
<1>2. \A k, i : Decodes(k, i)' = Decodes(k, i)
  BY <1>1, FileFixed DEF Decodes, readVars
<1>3. ASSUME NEW v \in Workers, wPC'[v] \in {"work", "decode"}
      PROVE  /\ work'[v][1] \in 1..pos /\ file[work'[v][1]].kind = "values"
             /\ work'[v][2] \in 1..Len(file) + 1 /\ Decodes(work'[v][2], work'[v][1])
             /\ wPC'[v] = "decode" => file[work'[v][1]].does # "badzip"
             /\ wPC'[v] = "decode" => \A n \in 1..Len(file) : cache'[v][n] = NoType
  <2>1. CASE v = w
    BY <1>3, <2>1 DEF IInv, WorkInv
  <2>2. CASE v # w
    BY <1>3, <2>2 DEF IInv, WorkInv
  <2> QED
    BY <2>1, <2>2
<1> QED
  BY <1>1, <1>2, <1>3 DEF WorkInv, Workers, readVars, NoType

\* The workers' part of TypeOK.
LEMMA WorkerTypes ==
  ASSUME IInv
  PROVE  /\ TypeOK /\ Len(file) \in Nat /\ threads \in Nat
         /\ wPC \in [Workers -> WorkerPCs]
         /\ work \in [Workers -> {NoWork} \cup Places \X (1..Len(file) + 1)]
         /\ cache \in [Workers -> [1..Len(file) -> Types]]
         /\ workerCh \in Seq(Workers) /\ Len(workerCh) <= threads + 1
  BY FrameFacts, ThreadFacts DEF IInv, InFileOrder, TypeOK, WorkerPCs

\* A worker says that it is ready.
LEMMA WorkerReadyKeeps ==
  ASSUME IInv, NEW w \in Workers, WorkerReady(w)
  PROVE  IInv'
<1>1. /\ wPC[w] = "ready" /\ wPC' = [wPC EXCEPT ![w] = "wait"]
      /\ Len(workerCh) < threads + 1 /\ workerCh' = Append(workerCh, w)
      /\ WorkerUnchanged /\ work' = work /\ cache' = cache /\ res' = res
  BY DEF WorkerReady
<1>2. WorkerTyped
  BY <1>1, WorkerTypes DEF WorkerTyped, WorkerPCs
<1>3. WorkerChTyped
  <2>1. workerCh \in Seq(Workers) /\ threads \in Nat
    BY WorkerTypes
  <2>2. workerCh' \in Seq(Workers) /\ Len(workerCh') = Len(workerCh) + 1 /\ Len(workerCh) \in Nat
    BY <1>1, <2>1
  <2> QED
    BY <1>1, <2>1, <2>2 DEF WorkerChTyped
<1>4. WorkInv'
  <2>1. wPC'[w] = "wait" /\ \A v \in Workers \ {w} : wPC'[v] = wPC[v]
    BY <1>1, WorkerTypes
  <2> QED
    BY <1>1, <2>1, WorkInvOfOne
<1> QED
  BY <1>1, <1>2, <1>3, <1>4, WorkerKeepsRest DEF Puts

\* A worker that has no frame exits.
LEMMA WorkerCancelledKeeps ==
  ASSUME IInv, NEW w \in Workers, WorkerCancelled(w)
  PROVE  IInv'
<1>1. /\ wPC[w] \in {"ready", "wait"} /\ wPC' = [wPC EXCEPT ![w] = "end"]
      /\ WorkerUnchanged /\ work' = work /\ cache' = cache /\ workerCh' = workerCh /\ res' = res
  BY DEF WorkerCancelled
<1>2. WorkerTyped /\ WorkerChTyped
  BY <1>1, WorkerTypes DEF WorkerTyped, WorkerPCs, WorkerChTyped
<1>3. WorkInv'
  <2>1. wPC'[w] = "end" /\ \A v \in Workers \ {w} : wPC'[v] = wPC[v]
    BY <1>1, WorkerTypes
  <2> QED
    BY <1>1, <2>1, WorkInvOfOne
<1> QED
  BY <1>1, <1>2, <1>3, WorkerKeepsRest DEF Puts

\* A worker that is done with its frame has put there what the frame gives.
LEMMA WorkerAgainKeeps ==
  ASSUME IInv, NEW w \in Workers, wPC[w] # "off", WorkerAgain(w), WorkerUnchanged,
         UNCHANGED workerCh, NEW c \in [1..Len(file) -> Types],
         cache' = cache \/ cache' = [cache EXCEPT ![w] = c],
         NEW i, Puts(i)
  PROVE  IInv'
<1>1. wPC' = [wPC EXCEPT ![w] = "ready"] /\ work' = [work EXCEPT ![w] = NoWork]
  BY DEF WorkerAgain
<1>2. WorkerTyped /\ WorkerChTyped
  BY <1>1, WorkerTypes DEF WorkerTyped, WorkerPCs, WorkerChTyped
<1>3. WorkInv'
  <2>1. /\ wPC'[w] = "ready"
        /\ \A v \in Workers \ {w} :
              wPC'[v] = wPC[v] /\ work'[v] = work[v] /\ cache'[v] = cache[v]
    BY <1>1, WorkerTypes
  <2> QED
    BY <2>1, WorkInvOfOne
<1> QED
  BY <1>2, <1>3, WorkerKeepsRest

\* A worker decompresses its frame, or finds that it fails or gives nothing.
LEMMA WorkerBeginsKeeps ==
  ASSUME IInv, NEW w \in Workers, WorkerBegins(w)
  PROVE  IInv'
<1> DEFINE i == work[w][1]
<1>1. wPC[w] = "work" /\ WorkerUnchanged /\ UNCHANGED workerCh
  BY DEF WorkerBegins
<1>2. i \in Places /\ file[i].kind = "values" /\ i \in Nat
  <2>1. i \in 1..pos /\ file[i].kind = "values" /\ pos \in 0..Len(file)
    BY <1>1 DEF IInv, WorkInv, InFileOrder, TypeOK
  <2> QED
    BY <2>1, WorkerTypes DEF Places
<1>3. CASE file[i].does = "badzip" /\ res' = [res EXCEPT ![i] = Error(i)] /\ WorkerAgain(w)
           /\ UNCHANGED cache
  <2>1. Error(i) \in Gives(i)
    BY <1>2, <1>3 DEF Gives
  <2>2. Puts(i)
    BY <1>2, <1>3, <2>1, ResultFacts DEF Puts
  <2> QED
    BY <1>1, <1>3, <2>2, WorkerAgainKeeps, WorkerTypes
<1>4. CASE file[i].does = "none" /\ res' = [res EXCEPT ![i] = Closed] /\ WorkerAgain(w)
           /\ UNCHANGED cache
  <2>1. Closed \in Gives(i)
    BY <1>2, <1>4 DEF Gives
  <2>2. Puts(i)
    BY <1>2, <1>4, <2>1, ResultFacts DEF Puts
  <2> QED
    BY <1>1, <1>4, <2>2, WorkerAgainKeeps, WorkerTypes
<1>5. CASE /\ file[i].does # "badzip"
           /\ cache' = [cache EXCEPT ![w] = [j \in DOMAIN @ |-> NoType]]
           /\ wPC' = [wPC EXCEPT ![w] = "decode"]
           /\ UNCHANGED <<res, work>>
  <2>1. cache' = [cache EXCEPT ![w] = [j \in 1..Len(file) |-> NoType]]
    BY <1>5, WorkerTypes
  <2>2. [j \in 1..Len(file) |-> NoType] \in [1..Len(file) -> Types]
    BY DEF Types
  <2>3. WorkerTyped /\ WorkerChTyped
    BY <1>1, <1>5, <2>1, <2>2, WorkerTypes DEF WorkerTyped, WorkerPCs, WorkerChTyped
  <2>4. WorkInv'
    <3>1. /\ wPC'[w] = "decode" /\ \A n \in 1..Len(file) : cache'[w][n] = NoType
          /\ \A v \in Workers \ {w} : wPC'[v] = wPC[v] /\ cache'[v] = cache[v]
      BY <1>5, <2>1, WorkerTypes
    <3> QED
      BY <1>1, <1>5, <3>1, WorkInvOfOne
  <2> QED
    BY <1>1, <1>5, <2>3, <2>4, WorkerKeepsRest DEF Puts
<1> QED
  BY <1>3, <1>4, <1>5 DEF WorkerBegins

\* A worker decodes its frame with the Decoder that came with it.
LEMMA WorkerDecodesKeeps ==
  ASSUME IInv, NEW w \in Workers, WorkerDecodes(w)
  PROVE  IInv'
<1> DEFINE i == work[w][1]
<1> DEFINE k == work[w][2]
<1> DEFINE t == LookupType(cache[w], k, file[i].id)
<1>1. /\ wPC[w] = "decode" /\ WorkerAgain(w) /\ WorkerUnchanged /\ UNCHANGED workerCh
      /\ cache' = [cache EXCEPT ![w][file[i].id] = t]
      /\ res' = [res EXCEPT ![i] = ScanResult(i, t)]
  BY DEF WorkerDecodes
<1>2. /\ i \in 1..pos /\ file[i].kind = "values" /\ k \in 1..Len(file) + 1 /\ Decodes(k, i)
      /\ file[i].does # "badzip" /\ \A n \in 1..Len(file) : cache[w][n] = NoType
  BY <1>1 DEF IInv, WorkInv
<1>3. TypeOK /\ Len(file) \in Nat /\ i \in 1..Len(file) /\ i \in Places
  <2>1. TypeOK /\ Len(file) \in Nat /\ pos \in 0..Len(file)
    BY WorkerTypes DEF TypeOK
  <2> QED
    BY <1>2, <2>1 DEF Places
<1>4. threads # 1
  BY <1>1 DEF IInv, SyncInv
<1>5. dec[k] \in Seq(Places) /\ Serves(dec[k], i)
  <2>1. dec \in [1..Len(file) + 1 -> Seq(Places)]
    BY <1>3 DEF TypeOK
  <2> QED
    BY <1>2, <2>1 DEF Decodes, Serves
<1>6. t = IF file[i].id <= Len(dec[k]) THEN dec[k][file[i].id] ELSE NoType
  BY <1>2, WorkerTypes DEF LookupType
<1> HIDE DEF t, i, k
<1>7. ScanResult(i, t) \in Gives(i) /\ t \in Types
  BY <1>2, <1>3, <1>4, <1>5, <1>6, LookupGives
<1>8. Puts(i)
  <2>1. ScanResult(i, t) \in Results
    BY <1>3, <1>7, ResultFacts DEF ScanResult
  <2> QED
    BY <1>1, <1>2, <1>3, <1>7, <2>1 DEF Puts
<1>9. /\ cache' = [cache EXCEPT ![w] = [cache[w] EXCEPT ![file[i].id] = t]]
      /\ [cache[w] EXCEPT ![file[i].id] = t] \in [1..Len(file) -> Types]
  <2>1. cache[w] \in [1..Len(file) -> Types]
    BY WorkerTypes
  <2> QED
    BY <1>1, <1>7, <2>1
<1> QED
  BY <1>1, <1>8, <1>9, WorkerAgainKeeps

(***************************************************************************)
(* The caller's steps.                                                     *)
(***************************************************************************)

\* What Pull leaves alone stays as it was.
LEMMA PullTypeOK ==
  ASSUME IInv, PullUnchanged, ResultChTyped, CtxTyped, CallTyped, OutTyped
  PROVE  TypeOK'
<1>1. /\ UNCHANGED <<file, threads, readVars, parserVars, workerVars, workerCh, res>>
      /\ TypeOK
  BY DEF PullUnchanged, IInv, InFileOrder
<1>2. ReadTyped /\ ParserTyped /\ WorkerTyped /\ WorkerChTyped /\ ResTyped
  BY <1>1, TypedUnchanged
<1> QED
  BY <1>1, <1>2, TypeOKFromParts

\* So do the parts of the invariant that Pull does not touch.
LEMMA PullKeepsRest ==
  ASSUME IInv, PullUnchanged, TypeOK', SyncInv', Delivered', NothingLate', QueueInv', EndInv'
  PROVE  IInv'
<1>1. /\ UNCHANGED <<file, threads, readVars, parserVars, workerVars, workerCh, closed, res>>
  BY DEF PullUnchanged
<1>2. UNCHANGED <<closed, pPC, pos, held, ctl, res>>
  BY <1>1 DEF readVars, parserVars
<1>3. ParserInv' /\ DecoderInv' /\ WorkInv' /\ ResInv'
  BY <1>1, <1>2, UnchangedParts DEF IInv
<1> QED
  BY <1>3 DEF IInv, InFileOrder

\* The caller gets a result that may follow the last one.
LEMMA ReturnDelivers ==
  ASSUME IInv, NEW r \in Results, Return(r), file' = file, threads' = threads,
         outside => outside', ended = None => Follows(PlaceOf(Len(out)), r)
  PROVE  /\ Delivered'
         /\ ended = None => PlaceOf(Len(out))' = r[2]
         /\ ended' = None => ended = None /\ ~Ends(r) /\ \A n \in 1..Len(out') : ~Ends(out'[n])
<1>1. out \in Seq(Results) /\ Len(out) \in Nat /\ Delivered
  BY DEF IInv, InFileOrder, TypeOK
<1>2. CASE ended # None
  <2>1. out' = out /\ ended' = ended
    BY <1>2 DEF Return
  <2> QED
    BY <1>1, <1>2, <2>1, UnchangedOut
<1>3. CASE ended = None
  <2>1. out' = Append(out, r) /\ ended' = IF Ends(r) THEN r ELSE None
    BY <1>3 DEF Return
  <2> DEFINE L == Len(out)
  <2>2. /\ Len(out') = L + 1 /\ L \in Nat /\ out'[L + 1] = r
        /\ \A n \in 1..L : out'[n] = out[n]
    BY <1>1, <2>1
  <2> HIDE DEF L
  <2>3. \A n \in 1..L : ~Ends(out[n])
    BY <1>3 DEF IInv, EndInv, L
  <2>4. PlaceOf(Len(out))' = r[2]
    BY <2>2 DEF PlaceOf
  <2>5. ASSUME NEW n \in 1..L + 1
        PROVE  Follows(PlaceOf(n - 1), out[n])' /\ (Ends(out'[n]) => n = L + 1)
    <3>1. PlaceOf(n - 1)' = PlaceOf(n - 1)
      BY <2>2 DEF PlaceOf
    <3>2. CASE n \in 1..L
      <4>1. Follows(PlaceOf(n - 1), out[n])
        BY <1>1, <3>2 DEF Delivered, L
      <4> QED
        BY <2>2, <2>3, <3>1, <3>2, <4>1, PassedOverKept
    <3>3. CASE n = L + 1
      <4>1. Follows(PlaceOf(n - 1), r)
        BY <1>3, <2>2, <3>3 DEF L
      <4> QED
        BY <2>2, <3>1, <3>3, <4>1, PassedOverKept
    <3> QED
      BY <2>2, <3>2, <3>3
  <2>6. Delivered'
    BY <2>2, <2>5 DEF Delivered, Ends
  <2>7. Ends(r) => r # None
    BY DEF Ends, None
  <2>8. ended' = None => ~Ends(r) /\ \A n \in 1..Len(out') : ~Ends(out'[n])
    <3>1. ended' = None => ~Ends(r)
      BY <2>1, <2>7
    <3>2. \A n \in 1..L + 1 : n \in 1..L \/ n = L + 1
      BY <2>2
    <3> QED
      BY <2>2, <2>3, <3>1, <3>2
  <2> QED
    BY <1>3, <2>4, <2>6, <2>8
<1> QED
  BY <1>2, <1>3

\* The queue after its head is taken.
LEMMA QueuedTail ==
  ASSUME TypeOK, resultChCh # <<>>, resultChCh' = Tail(resultChCh)
  PROVE  /\ resultChCh' \in Seq(Places \cup {Len(file) + 1}) /\ Len(resultChCh') <= threads + 1
         /\ Head(resultChCh) \in 1..Len(file) + 1 /\ Head(resultChCh) \in Queued
         /\ Queued \subseteq Queued' \cup {Head(resultChCh)} /\ Queued' \subseteq Queued
         /\ Len(resultChCh) \in Nat /\ Len(resultChCh') = Len(resultChCh) - 1
         /\ Head(resultChCh) = resultChCh[1]
         /\ \A n \in 1..Len(resultChCh') : resultChCh'[n] = resultChCh[n + 1]
<1> DEFINE q == resultChCh
<1>1. /\ Len(file) \in Nat /\ threads \in Nat
      /\ q \in Seq(Places \cup {Len(file) + 1}) /\ Len(q) <= threads + 1
  BY FrameFacts, ThreadFacts DEF TypeOK
<1>2. Len(q) \in Nat /\ Len(q) # 0 /\ Len(q') = Len(q) - 1 /\ Head(q) = q[1]
  BY <1>1
<1>3. q' \in Seq(Places \cup {Len(file) + 1}) /\ \A n \in 1..Len(q') : q'[n] = q[n + 1]
  BY <1>1
<1>4. Head(q) \in Places \cup {Len(file) + 1}
  BY <1>1, <1>2
<1>5. Head(q) \in 1..Len(file) + 1
  BY <1>1, <1>4 DEF Places
<1>6. Head(q) \in Queued
  BY <1>2 DEF Queued
<1>7. Queued' \subseteq Queued
  <2>1. ASSUME NEW n \in 1..Len(q') PROVE q'[n] \in Queued
    <3>1. n + 1 \in 1..Len(q)
      BY <1>2
    <3> QED
      BY <1>3, <3>1 DEF Queued
  <2> QED
    BY <2>1 DEF Queued
<1>8. Queued \subseteq Queued' \cup {Head(q)}
  <2>1. ASSUME NEW n \in 1..Len(q) PROVE q[n] \in Queued' \cup {Head(q)}
    <3>1. CASE n = 1
      BY <1>2, <3>1
    <3>2. CASE n # 1
      <4>1. n - 1 \in 1..Len(q') /\ (n - 1) + 1 = n
        BY <1>2, <3>2
      <4> QED
        BY <1>3, <4>1 DEF Queued
    <3> QED
      BY <3>1, <3>2
  <2> QED
    BY <2>1 DEF Queued
<1> QED
  BY <1>1, <1>2, <1>3, <1>5, <1>6, <1>7, <1>8

\* Pull(true) throws a queued channel away.
LEMMA DrainKeeps ==
  ASSUME IInv, Drain
  PROVE  IInv'
<1>1. /\ cPC = "drain" /\ resultChCh # <<>> /\ resultChCh' = Tail(resultChCh) /\ PullUnchanged
      /\ UNCHANGED <<cPC, cur, eof, err>> /\ UNCHANGED <<out, ended, late, cancelled>>
  BY DEF Drain, callerVars
<1>2. /\ UNCHANGED <<file, threads, closed, outside, pos, pPC>> /\ UNCHANGED ctxVars
      /\ UNCHANGED <<out, ended, late>> /\ TypeOK
  BY <1>1 DEF PullUnchanged, IInv, InFileOrder, readVars, parserVars, ctxVars
<1>3. TypeOK'
  <2>1. CtxTyped /\ CallTyped /\ OutTyped
    BY <1>1, <1>2, TypedUnchanged
  <2>2. ResultChTyped
    BY <1>1, <1>2, QueuedTail DEF ResultChTyped, TypeOK
  <2> QED
    BY <1>1, <2>1, <2>2, PullTypeOK
<1>4. SyncInv'
  BY <1>1, <1>2 DEF IInv, SyncInv
<1>5. Delivered' /\ NothingLate'
  BY <1>2, UnchangedOut DEF IInv, InFileOrder
<1>6. QueueInv'
  BY <1>1 DEF QueueInv
<1>7. EndInv'
  BY <1>1, <1>2, UnchangedParts DEF IInv
<1> QED
  BY <1>1, <1>3, <1>4, <1>5, <1>6, <1>7, PullKeepsRest

\* Pull(true) returns when the parser has closed the queue.
LEMMA DrainEndsKeeps ==
  ASSUME IInv, DrainEnds
  PROVE  IInv'
<1>1. /\ cPC = "drain" /\ closed /\ eof' = TRUE /\ cPC' = "idle" /\ PullUnchanged
      /\ ended' = IF ended = None THEN <<"done", 0, NoType>> ELSE ended
      /\ UNCHANGED <<cancelled, resultChCh, cur, err, out, late>>
  BY DEF DrainEnds
<1>2. /\ UNCHANGED <<file, threads, closed, outside, pos, pPC>> /\ UNCHANGED ctxVars
      /\ UNCHANGED <<resultChCh, closed>> /\ TypeOK
  BY <1>1 DEF PullUnchanged, IInv, InFileOrder, readVars, parserVars, ctxVars
<1>3. threads # 1 /\ pPC = "end"
  BY <1>1 DEF IInv, SyncInv, ParserInv
<1>4. TypeOK'
  <2>1. CtxTyped /\ ResultChTyped
    BY <1>2, TypedUnchanged
  <2>2. CallTyped
    BY <1>1, <1>2 DEF CallTyped, CallerPCs, TypeOK
  <2>3. OutTyped
    BY <1>1, <1>2 DEF OutTyped, TypeOK
  <2> QED
    BY <1>1, <2>1, <2>2, <2>3, PullTypeOK
<1>5. SyncInv'
  BY <1>2, <1>3 DEF SyncInv
<1>6. Delivered'
  BY <1>1, <1>2, UnchangedOut DEF IInv, InFileOrder
<1>7. NothingLate' /\ ended' # None
  <2>1. NothingLate /\ (ended = None => ~late)
    BY DEF IInv, InFileOrder, EndInv
  <2> QED
    BY <1>1, <1>2, <2>1 DEF NothingLate, None
<1>8. QueueInv'
  BY <1>7 DEF QueueInv, None
<1>9. EndInv'
  <2>1. ended' = <<"done", 0, NoType>> \/ (ended' = ended /\ ended # None)
    BY <1>1
  <2> QED
    BY <1>1, <1>2, <1>3, <1>7, <2>1 DEF IInv, EndInv, Ends, None
<1> QED
  BY <1>1, <1>4, <1>5, <1>6, <1>7, <1>8, <1>9, PullKeepsRest

\* Pull takes the head of the queue, or waits for ever on a closed one.
LEMMA TakeResultChKeeps ==
  ASSUME IInv, TakeResultCh
  PROVE  IInv'
<1>1. /\ cPC = "pull" /\ threads > 1 /\ PullUnchanged
      /\ UNCHANGED <<cancelled, eof, err, out, ended, late>>
  BY DEF TakeResultCh
<1>2. /\ UNCHANGED <<file, threads, closed, outside, pos, pPC, ctl, res>> /\ UNCHANGED ctxVars
      /\ UNCHANGED <<out, ended, late>> /\ TypeOK
  BY <1>1 DEF PullUnchanged, IInv, InFileOrder, readVars, parserVars, ctxVars
<1>3. /\ cPC' \in {"recv", "nil"}
  BY DEF TakeResultCh
<1>4. threads # 1 /\ SyncInv'
  BY <1>1, <1>2 DEF SyncInv
<1>5. Delivered' /\ NothingLate'
  BY <1>2, UnchangedOut DEF IInv, InFileOrder
<1>6. EndInv'
  BY <1>1, <1>2, <1>3, <1>4 DEF IInv, EndInv, Ends, None
<1>7. CtxTyped /\ OutTyped
  BY <1>2, TypedUnchanged
<1> DEFINE d == PlaceOf(Len(out))
<1>8. /\ AtParser' = AtParser /\ d' = d /\ pos' = pos /\ Receiving = {} /\ EndQueued' = EndQueued
      /\ Skipped \subseteq Skipped' /\ Dropped' = Dropped
  <2>1. AtParser' = AtParser /\ d' = d /\ pos' = pos /\ Receiving = {} /\ EndQueued' = EndQueued
    BY <1>1, <1>2 DEF AtParser, PlaceOf, Receiving, EndQueued, EOF
  <2>2. Skipped \subseteq Skipped'
    BY <1>2, SkippedKept
  <2>3. Dropped' = Dropped
    BY <1>2 DEF Dropped, Abandoned, None
  <2> QED
    BY <2>1, <2>2, <2>3
<1>9. ASSUME ended = None
      PROVE  QueueOK(d, {}, Queued, AtParser, resultChCh, pos, EndQueued, Skipped, Dropped)
  BY <1>1, <1>2, <1>8, <1>9, QueueOKBefore DEF IInv
<1>10. CASE resultChCh # <<>> /\ cur' = Head(resultChCh) /\ resultChCh' = Tail(resultChCh)
            /\ cPC' = "recv"
  <2> DEFINE h == Head(resultChCh)
  <2>1. /\ resultChCh' \in Seq(Places \cup {Len(file) + 1}) /\ Len(resultChCh') <= threads + 1
        /\ h \in 1..Len(file) + 1 /\ h \in Queued
        /\ Queued \subseteq Queued' \cup {h} /\ Queued' \subseteq Queued
        /\ Len(resultChCh) \in Nat /\ Len(resultChCh') = Len(resultChCh) - 1
        /\ h = resultChCh[1]
        /\ \A n \in 1..Len(resultChCh') : resultChCh'[n] = resultChCh[n + 1]
    BY <1>2, <1>10, QueuedTail
  <2> HIDE DEF h
  <2>2. TypeOK'
    <3>1. ResultChTyped
      BY <1>2, <2>1 DEF ResultChTyped, TypeOK
    <3>2. CallTyped
      BY <1>1, <1>2, <1>10, <2>1, FrameFacts DEF CallTyped, CallerPCs, TypeOK, h
    <3> QED
      BY <1>1, <1>7, <3>1, <3>2, PullTypeOK
  <2>3. Receiving' = {h}
    BY <1>10 DEF Receiving, h
  <2>4. ASSUME ended = None
        PROVE  QueueOK(d, {h}, Queued', AtParser, resultChCh', pos, EndQueued, Skipped', Dropped)
    <3>1. QueueOK(d, {}, Queued, AtParser, resultChCh, pos, EndQueued, Skipped, Dropped)
      BY <1>9, <2>4
    <3> HIDE DEF d
    <3>2. \A y \in Queued' : h < y
      <4>1. ASSUME NEW n \in 1..Len(resultChCh') PROVE h < resultChCh'[n]
        <5>1. n + 1 \in 1..Len(resultChCh) /\ 1 \in 1..Len(resultChCh) /\ 1 < n + 1
          BY <2>1
        <5> QED
          BY <2>1, <3>1, <5>1 DEF QueueOK
      <4> QED
        BY <4>1 DEF Queued
    <3>3. \A m, n \in 1..Len(resultChCh') : m < n => resultChCh'[m] < resultChCh'[n]
      <4> SUFFICES ASSUME NEW m \in 1..Len(resultChCh'), NEW n \in 1..Len(resultChCh'), m < n
                   PROVE  resultChCh'[m] < resultChCh'[n]
        OBVIOUS
      <4>1. m + 1 \in 1..Len(resultChCh) /\ n + 1 \in 1..Len(resultChCh) /\ m + 1 < n + 1
        BY <2>1
      <4> QED
        BY <2>1, <3>1, <4>1 DEF QueueOK
    <3> QED
      BY <1>8, <2>1, <3>1, <3>2, <3>3 DEF QueueOK
  <2>5. QueueInv'
    BY <1>2, <1>8, <2>2, <2>3, <2>4, QueueOKAfter DEF None
  <2> QED
    BY <1>1, <1>4, <1>5, <1>6, <2>2, <2>5, PullKeepsRest
<1>11. CASE cPC' = "nil" /\ UNCHANGED <<cur, resultChCh>>
  <2>1. TypeOK'
    <3>1. ResultChTyped
      BY <1>2, <1>11, TypedUnchanged
    <3>2. CallTyped
      BY <1>1, <1>2, <1>11 DEF CallTyped, CallerPCs, TypeOK
    <3> QED
      BY <1>1, <1>7, <3>1, <3>2, PullTypeOK
  <2>2. Receiving' = {} /\ Queued' = Queued
    BY <1>11 DEF Receiving, Queued
  <2>3. ASSUME ended = None
        PROVE  QueueOK(d, {}, Queued, AtParser, resultChCh, pos, EndQueued, Skipped', Dropped)
    <3>1. QueueOK(d, {}, Queued, AtParser, resultChCh, pos, EndQueued, Skipped, Dropped)
      BY <1>9, <2>3
    <3> HIDE DEF d
    <3> QED
      BY <1>8, <3>1 DEF QueueOK
  <2>4. QueueInv'
    BY <1>2, <1>8, <1>11, <2>1, <2>2, <2>3, QueueOKAfter DEF None
  <2> QED
    BY <1>1, <1>4, <1>5, <1>6, <2>1, <2>4, PullKeepsRest
<1> QED
  BY <1>10, <1>11 DEF TakeResultCh

\* Pull returns the error of a context its owner has cancelled.
LEMMA PullCancelledKeeps ==
  ASSUME IInv, PullCancelled
  PROVE  IInv'
<1>1. /\ cPC = "pull" /\ threads > 1 /\ cancelled /\ Return(CtxErr) /\ PullUnchanged
      /\ UNCHANGED <<cancelled, resultChCh, cur, eof, err>>
  BY DEF PullCancelled
<1>2. /\ UNCHANGED <<file, threads, closed, outside, pos, pPC>> /\ UNCHANGED ctxVars
      /\ UNCHANGED <<resultChCh, closed>> /\ TypeOK
  BY <1>1 DEF PullUnchanged, IInv, InFileOrder, readVars, parserVars, ctxVars
<1>3. threads # 1 /\ SyncInv'
  BY <1>1, <1>2 DEF SyncInv
<1>4. OutTyped /\ cPC' = "idle"
  BY <1>1, <1>2, ReturnTyped, ResultFacts
<1>5. TypeOK'
  <2>1. CtxTyped /\ ResultChTyped
    BY <1>2, TypedUnchanged
  <2>2. CallTyped
    BY <1>1, <1>2, <1>4 DEF CallTyped, CallerPCs, TypeOK
  <2> QED
    BY <1>1, <1>4, <2>1, <2>2, PullTypeOK
<1>6. ended = None => outside
  BY <1>1 DEF IInv, EndInv
<1>7. Delivered'
  <2>1. ended = None => Follows(PlaceOf(Len(out)), CtxErr)
    BY <1>6 DEF Follows
  <2> QED
    BY <1>1, <1>2, <2>1, ResultFacts, ReturnDelivers
<1>8. /\ ended' = CtxErr \/ (ended' = ended /\ ended # None)
      /\ late' = late /\ ended' # None
  <2>1. Ends(CtxErr) /\ CtxErr # None
    BY DEF Ends, CtxErr, None
  <2>2. late \in BOOLEAN
    BY <1>2 DEF TypeOK
  <2> QED
    BY <1>1, <2>1, <2>2 DEF Return
<1>9. NothingLate'
  <2>1. NothingLate /\ (ended = None => ~late)
    BY DEF IInv, InFileOrder, EndInv
  <2> QED
    BY <1>2, <1>8, <2>1 DEF NothingLate, CtxErr
<1>10. QueueInv'
  BY <1>8 DEF QueueInv, None
<1>11. EndInv'
  <2>1. CtxErr[1] = "cancelled" /\ Ends(CtxErr)
    BY DEF CtxErr, Ends
  <2> QED
    BY <1>1, <1>2, <1>3, <1>4, <1>8, <2>1 DEF IInv, EndInv, Ends, None
<1> QED
  BY <1>1, <1>3, <1>5, <1>7, <1>9, <1>10, <1>11, PullKeepsRest

\* What a frame gives, when it is not nothing, names the frame.
LEMMA GivesPlace ==
  ASSUME TypeOK, NEW i \in Places, NEW r \in Gives(i), r # Closed
  PROVE  r[2] = i /\ r # EOF /\ r # None /\ r # CtxErr
<1>1. r = Control(i) \/ r = Error(i) \/ \E t : r = Batch(i, t)
  BY DEF Gives
<1> QED
  BY <1>1 DEF Control, Error, Batch, EOF, None, CtxErr

\* What the caller receives may follow the last result.
LEMMA ReceiveFacts ==
  ASSUME IInv, cPC = "recv", res[cur] # None
  PROVE  /\ TypeOK /\ Len(file) \in Nat /\ threads # 1
         /\ cur \in 1..Len(file) + 1 /\ res[cur] \in Results
         /\ cur = Len(file) + 1 => res[cur] = EOF /\ pos = Len(file)
         /\ cur # Len(file) + 1 =>
               cur \in Places /\ (res[cur] \in Gives(cur) \/ (res[cur] = Closed /\ Abandoned(cur)))
         /\ ended # None => ended[1] = "cancelled"
<1>1. TypeOK /\ Len(file) \in Nat /\ threads \in Nat /\ threads >= 1
  BY FrameFacts, ThreadFacts DEF IInv, InFileOrder
<1>2. threads # 1
  BY DEF IInv, SyncInv
<1>3. cur \in 1..Len(file) + 1 /\ res[cur] \in Results
  <2>1. cur \in 0..Len(file) + 1 /\ cur # 0 /\ res \in [1..Len(file) + 1 -> Results]
    BY <1>1 DEF TypeOK
  <2>2. cur \in 1..Len(file) + 1
    BY <1>1, <2>1
  <2> QED
    BY <2>1, <2>2
<1>4. cur = Len(file) + 1 => res[cur] = EOF /\ pos = Len(file)
  BY DEF IInv, ResInv
<1>5. cur # Len(file) + 1 =>
         cur \in Places /\ (res[cur] \in Gives(cur) \/ (res[cur] = Closed /\ Abandoned(cur)))
  <2>1. cur # Len(file) + 1 => cur \in Places
    BY <1>1, <1>3 DEF Places
  <2> QED
    BY <2>1 DEF IInv, ResInv
<1>6. ended # None => ended[1] = "cancelled"
  BY <1>1, <1>2 DEF IInv, EndInv, Ends
<1> QED
  BY <1>1, <1>2, <1>3, <1>4, <1>5, <1>6

\* What is received may follow the last result.
LEMMA ReceiveFollows ==
  ASSUME IInv, cPC = "recv", res[cur] # None, res[cur] # Closed, ended = None
  PROVE  /\ Follows(PlaceOf(Len(out)), res[cur])
         /\ ~Ends(res[cur]) => res[cur][2] = cur /\ cur <= pos
<1> DEFINE d == PlaceOf(Len(out))
<1> DEFINE r == res[cur]
<1>1. /\ TypeOK /\ Len(file) \in Nat /\ cur \in 1..Len(file) + 1
      /\ cur = Len(file) + 1 => r = EOF /\ pos = Len(file)
      /\ cur # Len(file) + 1 => cur \in Places /\ r \in Gives(cur)
  BY ReceiveFacts
<1>2. QueueOK(d, {cur}, Queued, AtParser, resultChCh, pos, EndQueued, Skipped, Dropped)
  <2>1. Receiving = {cur}
    BY DEF Receiving
  <2> QED
    BY <1>1, <2>1, QueueOKBefore DEF IInv
<1>3. Queued \subseteq Nat /\ AtParser \subseteq Nat /\ pos \in Nat /\ d \in Nat
  BY <1>1, QueueTyped
<1> HIDE DEF d, r
<1>4. d < cur /\ (cur <= pos \/ cur = Len(file) + 1)
  BY <1>2 DEF QueueOK
<1>5. ASSUME NEW j \in d + 1..cur - 1
      PROVE  PassedOver(j)
  <2>1. j \in d + 1..pos
    BY <1>1, <1>3, <1>4
  <2>2. j \notin {cur} \cup Queued \cup AtParser
    BY <1>1, <1>2, <1>3 DEF QueueOK
  <2>3. j \notin Dropped
    <3>1. CASE cur <= pos
      BY <1>1, <1>3, <3>1 DEF Dropped, Abandoned
    <3>2. CASE cur = Len(file) + 1
      BY <1>1, <3>2 DEF Dropped, Abandoned, EOF, None, r
    <3> QED
      BY <1>4, <3>1, <3>2
  <2>4. j \in Skipped
    BY <1>2, <2>1, <2>2, <2>3 DEF QueueOK
  <2> QED
    BY <2>4 DEF Skipped
<1>6. CASE cur = Len(file) + 1
  <2>1. r = EOF /\ ~(cur \in Places)
    BY <1>1, <1>6 DEF Places
  <2>2. Follows(d, r)
    BY <1>4, <1>5, <1>6, <2>1 DEF Follows
  <2>3. Ends(r)
    BY <2>1 DEF Ends, EOF
  <2> QED
    BY <2>2, <2>3 DEF d, r
<1>7. CASE cur # Len(file) + 1
  <2>1. cur \in Places /\ r \in Gives(cur) /\ r[2] = cur /\ r # EOF
    BY <1>1, <1>7, GivesPlace DEF r
  <2>2. Follows(d, r)
    BY <1>4, <1>5, <2>1 DEF Follows
  <2> QED
    BY <1>4, <1>7, <2>1, <2>2 DEF d, r
<1> QED
  BY <1>6, <1>7

\* Pull receives the result of the frame at the head of the queue.
LEMMA ReceiveKeeps ==
  ASSUME IInv, Receive
  PROVE  IInv'
<1> DEFINE r == res[cur]
<1> DEFINE d == PlaceOf(Len(out))
<1>1. cPC = "recv" /\ r # None /\ cur' = 0 /\ PullUnchanged /\ UNCHANGED resultChCh
  BY DEF Receive
<1>2. /\ UNCHANGED <<file, threads, closed, outside, pos, pPC, ctl, res>>
      /\ UNCHANGED <<resultChCh, closed>>
  BY <1>1 DEF PullUnchanged, readVars, parserVars
<1>3. /\ TypeOK /\ Len(file) \in Nat /\ threads # 1 /\ cur \in 1..Len(file) + 1 /\ r \in Results
      /\ cur = Len(file) + 1 => r = EOF /\ pos = Len(file)
      /\ cur # Len(file) + 1 =>
            cur \in Places /\ (r \in Gives(cur) \/ (r = Closed /\ Abandoned(cur)))
      /\ ended # None => ended[1] = "cancelled"
  BY <1>1, ReceiveFacts
<1>4. SyncInv' /\ ResultChTyped
  BY <1>2, <1>3, TypedUnchanged DEF SyncInv
<1>5. /\ AtParser' = AtParser /\ Queued' = Queued /\ pos' = pos /\ Receiving = {cur}
      /\ EndQueued' = EndQueued /\ Dropped' = Dropped /\ Skipped \subseteq Skipped'
  <2>1. /\ AtParser' = AtParser /\ Queued' = Queued /\ pos' = pos /\ Receiving = {cur}
        /\ EndQueued' = EndQueued
    BY <1>1, <1>2 DEF AtParser, Queued, Receiving, EndQueued, EOF
  <2>2. Dropped' = Dropped
    BY <1>2 DEF Dropped, Abandoned, None
  <2>3. Skipped \subseteq Skipped'
    BY <1>2, SkippedKept
  <2> QED
    BY <2>1, <2>2, <2>3
<1>6. ASSUME ended = None
      PROVE  QueueOK(d, {cur}, Queued, AtParser, resultChCh, pos, EndQueued, Skipped, Dropped)
  BY <1>1, <1>3, <1>5, <1>6, QueueOKBefore DEF IInv
<1>7. CASE r = Closed
  <2>1. cPC' = "pull" /\ UNCHANGED <<cancelled, eof, err, out, ended, late>>
    BY <1>7 DEF Receive
  <2>2. UNCHANGED ctxVars /\ UNCHANGED <<out, ended, late>>
    BY <1>2, <2>1 DEF ctxVars
  <2>3. TypeOK'
    <3>1. CtxTyped /\ OutTyped
      BY <1>3, <2>2, TypedUnchanged
    <3>2. CallTyped
      BY <1>1, <1>3, <2>1 DEF CallTyped, CallerPCs, TypeOK
    <3> QED
      BY <1>1, <1>4, <3>1, <3>2, PullTypeOK
  <2>4. Delivered' /\ NothingLate'
    BY <1>2, <2>1, UnchangedOut DEF IInv, InFileOrder
  <2>5. EndInv'
    BY <1>1, <1>2, <1>3, <2>1 DEF IInv, EndInv, Ends, None
  <2>6. Receiving' = {} /\ d' = d
    BY <2>1 DEF Receiving, PlaceOf
  <2>7. cur \in Skipped \cup Dropped
    <3>1. cur # Len(file) + 1 /\ cur \in Nat
      BY <1>3, <1>7 DEF Closed, EOF
    <3> QED
      BY <1>3, <1>7, <3>1 DEF Skipped, Dropped, PassedOver
  <2>8. ASSUME ended = None
        PROVE  QueueOK(d, {}, Queued, AtParser, resultChCh, pos, EndQueued, Skipped', Dropped)
    <3>1. QueueOK(d, {cur}, Queued, AtParser, resultChCh, pos, EndQueued, Skipped, Dropped)
      BY <1>6, <2>8
    <3> HIDE DEF d
    <3> QED
      BY <1>5, <2>7, <3>1 DEF QueueOK
  <2>9. QueueInv'
    BY <1>2, <1>5, <2>1, <2>3, <2>6, <2>8, QueueOKAfter DEF None
  <2> QED
    BY <1>1, <1>4, <2>3, <2>4, <2>5, <2>9, PullKeepsRest
<1>8. CASE r # Closed
  <2>1. /\ Return(r)
        /\ IF Ends(r) THEN eof' = TRUE /\ cancelled' = TRUE /\ err' = IF r = EOF THEN None ELSE r
                      ELSE UNCHANGED <<eof, err, cancelled>>
    BY <1>8 DEF Receive
  <2>2. OutTyped /\ cPC' = "idle"
    BY <1>3, <2>1, ReturnTyped
  <2>3. ended = None => Follows(d, r) /\ (~Ends(r) => r[2] = cur /\ cur <= pos)
    BY <1>1, <1>8, ReceiveFollows
  <2>4. /\ Delivered' /\ (ended = None => d' = r[2])
        /\ ended' = None => ended = None /\ ~Ends(r) /\ \A n \in 1..Len(out') : ~Ends(out'[n])
    BY <1>2, <1>3, <2>1, <2>3, ReturnDelivers
  <2>5. TypeOK'
    <3>1. CtxTyped
      BY <1>2, <1>3, <2>1 DEF CtxTyped, TypeOK
    <3>2. CallTyped
      <4>1. eof' \in BOOLEAN /\ err' \in Results
        BY <1>3, <2>1, ResultFacts DEF TypeOK
      <4> QED
        BY <1>1, <1>3, <2>2, <4>1 DEF CallTyped, CallerPCs
    <3> QED
      BY <1>1, <1>4, <2>2, <3>1, <3>2, PullTypeOK
  <2>6. ended' = IF ended = None /\ Ends(r) THEN r ELSE ended
    BY <2>1 DEF Return
  <2>7. late' = (late \/ (ended # None /\ ~Ends(r)))
    BY <2>1 DEF Return
  <2>8. Ends(r) => r # None /\ r[1] \in {"eos", "error", "cancelled"}
    BY DEF Ends, None
  <2>9. NothingLate' /\ (ended' = None => ~late')
    <3>1. ended = None => ~late
      BY DEF IInv, EndInv
    <3>2. CASE ended = None
      BY <2>7, <3>1, <3>2 DEF NothingLate
    <3>3. CASE ended # None
      BY <1>3, <2>6, <3>3 DEF NothingLate, None
    <3> QED
      BY <3>2, <3>3
  <2>10. EndInv'
    <3>1. CASE ended = None /\ Ends(r)
      BY <1>2, <1>3, <2>1, <2>2, <2>6, <2>8, <3>1 DEF EndInv, Ends, None
    <3>2. CASE ended = None /\ ~Ends(r)
      <4>1. ended' = None /\ UNCHANGED <<eof, err, cancelled>> /\ ~late'
        BY <2>1, <2>6, <2>9, <3>2
      <4>2. outside \/ ~cancelled
        BY <1>1, <3>2 DEF IInv, EndInv
      <4>3. None[1] = "none" /\ None' = None
        BY DEF None
      <4>4. ~eof' /\ (err' = None)
        BY <3>2, <4>1 DEF IInv, EndInv
      <4> QED
        BY <1>2, <1>3, <2>4, <4>1, <4>2, <4>3, <4>4 DEF EndInv, Ends, None
    <3>3. CASE ended # None
      <4>1. ended' = ended /\ ended[1] = "cancelled"
        BY <1>3, <2>6, <3>3
      <4>2. err' = None \/ Ends(err')
        BY <2>1 DEF IInv, EndInv
      <4> QED
        BY <1>2, <1>3, <3>3, <4>1, <4>2 DEF EndInv, Ends, None
    <3> QED
      BY <3>1, <3>2, <3>3
  <2>11. QueueInv'
    <3>1. Receiving' = {}
      BY <2>2 DEF Receiving
    <3>2. ASSUME ended' = None
          PROVE  /\ d' = cur
                 /\ QueueOK(cur, {}, Queued, AtParser, resultChCh, pos, EndQueued, Skipped',
                            Dropped)
      <4>1. d' = cur /\ cur <= pos /\ ended = None
        BY <2>3, <2>4, <3>2
      <4>2. QueueOK(d, {cur}, Queued, AtParser, resultChCh, pos, EndQueued, Skipped, Dropped)
        BY <1>6, <4>1
      <4>3. pos \in Nat /\ d \in Nat /\ cur \in Nat
        BY <1>3, QueueTyped
      <4>4. /\ Queued \subseteq Nat /\ AtParser \subseteq Nat
            /\ Skipped \subseteq Skipped' /\ cur <= pos
        BY <1>3, <1>5, <4>1, QueueTyped
      <4> HIDE DEF d
      <4>5. d < cur /\ \A i \in cur + 1..pos : i \in d + 1..pos /\ i \notin {cur}
        BY <4>2, <4>3 DEF QueueOK
      <4>6. QueueOK(cur, {}, Queued, AtParser, resultChCh, pos, EndQueued, Skipped', Dropped)
        BY <4>2, <4>3, <4>4, <4>5 DEF QueueOK
      <4> QED
        BY <4>1, <4>6
    <3> QED
      BY <1>2, <1>5, <2>5, <3>1, <3>2, QueueOKAfter DEF None
  <2> QED
    BY <1>1, <1>4, <2>4, <2>5, <2>9, <2>10, <2>11, PullKeepsRest
<1> QED
  BY <1>7, <1>8

(***************************************************************************)
(* The synchronous scanner.                                                *)
(***************************************************************************)

\* What SyncPull leaves alone.
SyncUnchanged ==
    UNCHANGED <<file, threads, parserVars, wPC, work, cache, workerCh, resultChCh, closed, res,
                ctxVars, cur, eof, err>>

\* With one thread every frame read is in out or passed over.
LEMMA SyncFacts ==
  ASSUME IInv, threads = 1, cPC = "pull"
  PROVE  /\ TypeOK /\ Len(file) \in Nat /\ pos \in 0..Len(file) /\ PlaceOf(Len(out)) \in Nat
         /\ pPC = "off" /\ resultChCh = <<>> /\ ~closed /\ (\A i : ~Abandoned(i))
         /\ res[Len(file) + 1] = None
         /\ \A i \in Places : res[i] # None => res[i] \in Gives(i)
         /\ ended = None =>
               PlaceOf(Len(out)) <= pos /\ \A i \in PlaceOf(Len(out)) + 1..pos : PassedOver(i)
         /\ ended # None => ended[1] = "error" \/ (ended[1] = "eos" /\ pos = Len(file))
<1>1. TypeOK /\ Len(file) \in Nat /\ pos \in 0..Len(file) /\ PlaceOf(Len(out)) \in Nat
  BY FrameFacts, PlaceOfNat DEF IInv, InFileOrder, TypeOK
<1>2. pPC = "off" /\ resultChCh = <<>> /\ ~closed /\ \A i : ~Abandoned(i)
  BY DEF IInv, SyncInv, Abandoned
<1>3. res[Len(file) + 1] = None /\ \A i \in Places : res[i] # None => res[i] \in Gives(i)
  BY <1>2 DEF IInv, ResInv
<1>4. Receiving = {} /\ Queued = {} /\ AtParser = {}
  BY <1>2 DEF Receiving, Queued, AtParser
<1>5. ended = None =>
         PlaceOf(Len(out)) <= pos /\ \A i \in PlaceOf(Len(out)) + 1..pos : PassedOver(i)
  BY <1>2, <1>4 DEF IInv, QueueInv
<1>6. ended # None => ended[1] = "error" \/ (ended[1] = "eos" /\ pos = Len(file))
  BY DEF IInv, EndInv, Ends
<1> QED
  BY <1>1, <1>2, <1>3, <1>5, <1>6

\* The parts of the invariant that do not depend on what SyncPull returns.
LEMMA SyncKeepsRest ==
  ASSUME IInv, threads = 1, cPC = "pull", SyncUnchanged, ReadTyped, OutTyped,
         cPC' \in {"idle", "pull"}, DecoderInv', WorkInv', Delivered', NothingLate', EndInv',
         ended' = None =>
            /\ PlaceOf(Len(out))' <= pos'
            /\ \A i \in PlaceOf(Len(out))' + 1..pos' : PassedOver(i)'
  PROVE  IInv'
<1>1. /\ UNCHANGED <<file, threads, workerCh, resultChCh, closed, res, cur, eof, err>>
      /\ UNCHANGED parserVars /\ UNCHANGED workerVars /\ UNCHANGED ctxVars
      /\ UNCHANGED <<pPC, wPC, held, ctl>> /\ UNCHANGED <<resultChCh, closed>>
  BY DEF SyncUnchanged, workerVars, parserVars
<1>2. TypeOK /\ pPC = "off" /\ resultChCh = <<>> /\ ~closed /\ res[Len(file) + 1] = None
  BY SyncFacts
<1>3. TypeOK'
  <2>1. ParserTyped /\ WorkerTyped /\ WorkerChTyped /\ ResultChTyped /\ ResTyped /\ CtxTyped
    BY <1>1, <1>2, TypedUnchanged
  <2>2. CallTyped
    BY <1>1, <1>2 DEF CallTyped, CallerPCs, TypeOK
  <2> QED
    BY <1>1, <1>2, <2>1, <2>2, TypeOKFromParts
<1>4. SyncInv'
  BY <1>1 DEF IInv, SyncInv, Workers
<1>5. ParserInv'
  BY <1>1, <1>2 DEF ParserInv
<1>6. ResInv'
  BY <1>1, SyncFacts, FileFixed DEF ResInv, Places, None
<1>7. QueueInv'
  <2>1. Receiving' = {} /\ Queued' = {} /\ AtParser' = {}
    BY <1>1, <1>2 DEF Receiving, Queued, AtParser
  <2> QED
    BY <1>1, <1>2, <2>1 DEF QueueInv, None
<1> QED
  BY <1>3, <1>4, <1>5, <1>6, <1>7 DEF IInv, InFileOrder

\* SyncPull reads a frame that gives nothing, and goes on.
LEMMA SyncPasses ==
  ASSUME IInv, threads = 1, cPC = "pull", SyncUnchanged, Reads, Closed \in Gives(pos + 1),
         UNCHANGED <<cPC, out, ended, late>>
  PROVE  IInv'
<1>1. UNCHANGED <<file, threads, eof, err>> /\ UNCHANGED workerVars /\ UNCHANGED ctxVars
  BY DEF SyncUnchanged, workerVars
<1>2. UNCHANGED <<cancelled, outside>> /\ UNCHANGED <<out, ended, late>>
  BY <1>1 DEF ctxVars
<1>3. DecoderInv' /\ WorkInv' /\ ReadTyped
  BY <1>1, ReadKeepsWork
<1>4. pos \in 0..Len(file) - 1 /\ pos' = pos + 1 /\ Len(file) \in Nat /\ TypeOK
  BY SyncFacts, ReadFacts
<1>5. OutTyped
  BY <1>2, <1>4, TypedUnchanged
<1>6. Delivered' /\ NothingLate'
  BY <1>1, <1>2, UnchangedOut DEF IInv, InFileOrder
<1>7. ended[1] # "eos"
  <2>1. ended # None => ended[1] = "error" \/ pos = Len(file)
    BY SyncFacts
  <2> QED
    BY <1>4, <2>1 DEF None
<1>8. EndInv'
  BY <1>1, <1>2, <1>7 DEF IInv, EndInv, Ends, None
<1>9. ASSUME ended = None
      PROVE  /\ PlaceOf(Len(out))' <= pos'
             /\ \A i \in PlaceOf(Len(out))' + 1..pos' : PassedOver(i)'
  <2> DEFINE d == PlaceOf(Len(out))
  <2>1. d' = d /\ d \in Nat /\ d <= pos /\ \A i \in d + 1..pos : PassedOver(i)
    BY <1>2, <1>9, SyncFacts DEF PlaceOf
  <2>2. PassedOver(pos + 1)
    BY DEF PassedOver
  <2>3. \A i : PassedOver(i) => PassedOver(i)'
    BY <1>1, <1>2, PassedOverKept
  <2> HIDE DEF d
  <2>4. \A i \in d + 1..pos + 1 : PassedOver(i)'
    <3> SUFFICES ASSUME NEW i \in d + 1..pos + 1 PROVE PassedOver(i)
      BY <2>3
    <3>1. i \in d + 1..pos \/ i = pos + 1
      BY <1>4, <2>1
    <3> QED
      BY <2>1, <2>2, <3>1
  <2>5. d <= pos + 1
    BY <1>4, <2>1
  <2> QED
    BY <1>4, <2>1, <2>4, <2>5 DEF d
<1> QED
  BY <1>2, <1>3, <1>5, <1>6, <1>8, <1>9, SyncKeepsRest DEF None

\* SyncPull returns what the frame it reads gives.
LEMMA SyncReturns ==
  ASSUME IInv, threads = 1, cPC = "pull", SyncUnchanged, Reads,
         NEW r \in Gives(pos + 1), r # Closed, r \in Results, Return(r),
         r[1] \in {"batch", "control", "error"}
  PROVE  IInv'
<1>1. UNCHANGED <<file, threads, eof, err>> /\ UNCHANGED workerVars /\ UNCHANGED ctxVars
  BY DEF SyncUnchanged, workerVars
<1>2. UNCHANGED <<cancelled, outside>>
  BY <1>1 DEF ctxVars
<1>3. DecoderInv' /\ WorkInv' /\ ReadTyped
  BY <1>1, ReadKeepsWork
<1>4. pos \in 0..Len(file) - 1 /\ pos' = pos + 1 /\ Len(file) \in Nat /\ TypeOK
  BY SyncFacts, ReadFacts
<1>5. OutTyped /\ cPC' = "idle"
  BY <1>4, ReturnTyped
<1>6. pos + 1 \in Places /\ r[2] = pos + 1 /\ r # EOF
  <2>1. pos + 1 \in Places
    BY <1>4 DEF Places
  <2> QED
    BY <1>4, <2>1, GivesPlace
<1>7. ended = None => Follows(PlaceOf(Len(out)), r)
  <2> DEFINE d == PlaceOf(Len(out))
  <2>1. ended = None => d \in Nat /\ d <= pos /\ \A i \in d + 1..pos : PassedOver(i)
    BY SyncFacts
  <2> HIDE DEF d
  <2>2. ended = None => d < pos + 1 /\ \A j \in d + 1..(pos + 1) - 1 : PassedOver(j)
    BY <1>4, <2>1
  <2> QED
    BY <1>6, <2>2 DEF Follows, d
<1>8. /\ Delivered' /\ (ended = None => PlaceOf(Len(out))' = r[2])
      /\ ended' = None => ended = None /\ ~Ends(r) /\ \A n \in 1..Len(out') : ~Ends(out'[n])
  BY <1>1, <1>2, <1>7, ReturnDelivers
<1>9. ended # None => ended[1] = "error"
  <2>1. ended # None => ended[1] = "error" \/ pos = Len(file)
    BY SyncFacts
  <2> QED
    BY <1>4, <2>1
<1>10. /\ ended' = IF ended = None /\ Ends(r) THEN r ELSE ended
       /\ late' = (late \/ (ended # None /\ ~Ends(r)))
  BY DEF Return
<1>11. ended = None => ~late
  BY DEF IInv, EndInv
<1>12. NothingLate' /\ (ended' = None => ~late')
  <2>1. CASE ended = None
    BY <1>10, <1>11, <2>1 DEF NothingLate
  <2>2. CASE ended # None
    BY <1>1, <1>9, <1>10, <2>2 DEF NothingLate, None
  <2> QED
    BY <2>1, <2>2
<1>13. ended'[1] \in {"none", "error"} /\ (ended' = None \/ ended'[1] = "error")
  BY <1>9, <1>10 DEF Ends, None
<1>14. EndInv'
  <2>1. ended' = None => /\ ~eof' /\ err' = None /\ ~late' /\ (cancelled' => outside')
                         /\ \A n \in 1..Len(out') : ~Ends(out'[n])
    BY <1>1, <1>2, <1>8, <1>12 DEF IInv, EndInv
  <2>2. err' = None \/ Ends(err')
    BY <1>1 DEF IInv, EndInv
  <2> QED
    BY <1>1, <1>13, <2>1, <2>2 DEF EndInv, Ends, None
<1>15. ASSUME ended' = None
       PROVE  /\ PlaceOf(Len(out))' <= pos'
              /\ \A i \in PlaceOf(Len(out))' + 1..pos' : PassedOver(i)'
  <2>1. PlaceOf(Len(out))' = pos + 1
    BY <1>6, <1>8, <1>15
  <2>2. pos + 1 <= pos + 1 /\ \A i \in (pos + 1) + 1..pos + 1 : FALSE
    BY <1>4
  <2> QED
    BY <1>4, <2>1, <2>2
<1> QED
  BY <1>3, <1>5, <1>8, <1>12, <1>14, <1>15, SyncKeepsRest

\* SyncPull returns the end of the file.
LEMMA SyncEnds ==
  ASSUME IInv, threads = 1, cPC = "pull", SyncUnchanged, AtEnd, Return(EOF), UNCHANGED readVars
  PROVE  IInv'
<1>1. UNCHANGED <<file, threads, eof, err>> /\ UNCHANGED workerVars /\ UNCHANGED ctxVars
  BY DEF SyncUnchanged, workerVars
<1>2. UNCHANGED <<cancelled, outside>> /\ pos' = pos /\ pos = Len(file)
  BY <1>1 DEF ctxVars, readVars, AtEnd
<1>3. TypeOK /\ Len(file) \in Nat
  BY SyncFacts
<1>4. DecoderInv' /\ WorkInv' /\ ReadTyped
  BY <1>1, <1>3, UnchangedParts, TypedUnchanged DEF IInv
<1>5. OutTyped /\ cPC' = "idle"
  BY <1>3, ReturnTyped, ResultFacts
<1>6. ended = None => Follows(PlaceOf(Len(out)), EOF)
  <2> DEFINE d == PlaceOf(Len(out))
  <2>1. ended = None => d \in Nat /\ d <= pos /\ \A i \in d + 1..pos : PassedOver(i)
    BY SyncFacts
  <2> HIDE DEF d
  <2>2. ended = None =>
           d < Len(file) + 1 /\ \A j \in d + 1..(Len(file) + 1) - 1 : PassedOver(j)
    BY <1>2, <1>3, <2>1
  <2>3. Len(file) + 1 \notin Places
    BY <1>3 DEF Places
  <2> QED
    BY <2>2, <2>3 DEF Follows, d
<1>7. /\ Delivered'
      /\ ended' = None => ended = None /\ ~Ends(EOF)
  BY <1>1, <1>2, <1>6, ReturnDelivers, ResultFacts
<1>8. /\ (ended = None /\ ended' = EOF) \/ (ended' = ended /\ ended # None)
      /\ late' = late /\ ended' # None
  <2>1. Ends(EOF) /\ EOF # None
    BY DEF Ends, EOF, None
  <2>2. late \in BOOLEAN
    BY <1>3 DEF TypeOK
  <2> QED
    BY <2>1, <2>2 DEF Return
<1>9. NothingLate' /\ EndInv'
  <2>1. NothingLate /\ (ended = None => ~late)
    BY DEF IInv, InFileOrder, EndInv
  <2>2. NothingLate'
    BY <1>1, <1>8, <2>1 DEF NothingLate, EOF
  <2>3. ended # None => ended[1] = "error" \/ ended[1] = "eos"
    BY SyncFacts
  <2>4. ended'[1] = "error" \/ ended'[1] = "eos"
    BY <1>8, <2>3 DEF EOF
  <2>5. err' = None \/ Ends(err')
    BY <1>1 DEF IInv, EndInv
  <2> QED
    BY <1>1, <1>2, <1>8, <2>2, <2>4, <2>5 DEF EndInv, Ends, None
<1> QED
  BY <1>4, <1>5, <1>7, <1>8, <1>9, SyncKeepsRest DEF None

\* The cases of scannerSync.Pull.
LEMMA SyncPullKeeps ==
  ASSUME IInv, SyncPull
  PROVE  IInv'
<1> DEFINE i == pos + 1
<1> DEFINE t == IF ~AtEnd /\ NextFrame.kind = "values"
                THEN LookupType([j \in DOMAIN cache[1] |-> NoType], nStream, NextFrame.id)
                ELSE NoType
<1>1. cPC = "pull" /\ threads = 1 /\ SyncUnchanged
  BY DEF SyncPull, SyncUnchanged
<1>2. TypeOK /\ Len(file) \in Nat /\ pos \in 0..Len(file)
  BY <1>1, SyncFacts
<1>3. CASE (ReadTypes \/ ReadEOS) /\ UNCHANGED <<cPC, out, ended, late>>
  <2>1. Reads /\ file[pos + 1].kind \in {"types", "eos"}
    BY <1>3 DEF Reads, ReadTypes, ReadEOS, NextFrame
  <2>2. Closed \in Gives(pos + 1)
    BY <2>1 DEF Gives
  <2> QED
    BY <1>1, <1>3, <2>1, <2>2, SyncPasses
<1>4. CASE ReadFrame /\ NextFrame.kind # "values" /\ Return(ReadResult)
  <2>1. Reads /\ file[pos + 1].kind \in {"control", "bad"} /\ ~AtEnd
    BY <1>4 DEF Reads, ReadFrame, NextFrame
  <2>2. \/ ReadResult = Control(pos + 1) /\ file[pos + 1].kind = "control"
        \/ ReadResult = Error(pos + 1) /\ file[pos + 1].kind = "bad"
    BY <2>1 DEF ReadResult, NextFrame
  <2>3. pos + 1 \in Places
    BY <1>2, <2>1, ReadFacts DEF Places
  <2>4. ReadResult \in Gives(pos + 1)
    BY <2>2 DEF Gives
  <2>5. ReadResult \in Results
    BY <2>2, <2>3, ResultFacts
  <2>6. ReadResult[1] \in {"control", "error"} /\ ReadResult # Closed
    BY <2>2 DEF Control, Error, Closed
  <2> QED
    BY <1>1, <1>4, <2>1, <2>4, <2>5, <2>6, SyncReturns
<1>5. CASE AtEnd /\ Return(EOF) /\ UNCHANGED readVars
  BY <1>1, <1>5, SyncEnds
<1>6. CASE /\ ReadFrame /\ NextFrame.kind = "values"
           /\ \/ NextFrame.does = "none" /\ UNCHANGED <<cPC, out, ended, late>>
              \/ IF NextFrame.does = "badzip" \/ ScanResult(i, t) = Error(i)
                 THEN Return(Error(i))
                 ELSE IF ScanResult(i, t) = Batch(i, t)
                 THEN Return(Batch(i, t))
                 ELSE UNCHANGED <<cPC, out, ended, late>>
  <2>1. Reads /\ file[i].kind = "values" /\ ~AtEnd /\ NextFrame = file[i]
    BY <1>6 DEF Reads, ReadFrame, NextFrame
  <2>2. i \in Places /\ i \in 1..Len(file) /\ pos \in 0..Len(file) - 1
    BY <1>2, <2>1, ReadFacts DEF Places
  <2>3. CASE file[i].does = "none" /\ UNCHANGED <<cPC, out, ended, late>>
    <3>1. Closed \in Gives(i)
      BY <2>1, <2>3 DEF Gives
    <3> QED
      BY <1>1, <2>1, <2>3, <3>1, SyncPasses
  <2>4. CASE file[i].does = "badzip" /\ Return(Error(i))
    <3>1. Error(i) \in Gives(i)
      BY <2>1, <2>4 DEF Gives
    <3>2. Error(i) \in Results /\ Error(i) # Closed /\ Error(i)[1] = "error"
      BY <2>2, ResultFacts DEF Error, Closed
    <3> QED
      BY <1>1, <2>1, <2>4, <3>1, <3>2, SyncReturns
  <2>5. CASE /\ file[i].does # "badzip"
             /\ IF ScanResult(i, t) = Error(i)
                THEN Return(Error(i))
                ELSE IF ScanResult(i, t) = Batch(i, t)
                THEN Return(Batch(i, t))
                ELSE UNCHANGED <<cPC, out, ended, late>>
    <3> DEFINE d == dec[nStream]
    <3>1. StreamTypes(i) = StreamTypes(pos)
      BY <1>2, <2>1, <2>2, StreamTypesNext
    <3>2. Holds(d, StreamTypes(i))
      BY <3>1 DEF IInv, DecoderInv
    <3>3. d \in Seq(Places)
      BY <1>2 DEF TypeOK
    <3>4. Serves(d, i) /\ \A n \in 1..Len(d) : d[n] \in StreamTypes(i)
      BY <3>2 DEF Holds, Serves
    <3>5. t = IF file[i].id <= Len(d) THEN d[file[i].id] ELSE NoType
      BY <2>1 DEF LookupType
    <3> HIDE DEF d, t, i
    <3>6. ScanResult(i, t) \in Gives(i) /\ t \in Types
      BY <1>2, <2>1, <2>2, <2>5, <3>3, <3>4, <3>5, LookupGives
    <3>7. CASE ScanResult(i, t) = Closed
      <4>1. Closed # Error(i) /\ Closed # Batch(i, t)
        BY DEF Closed, Error, Batch
      <4> QED
        BY <1>1, <2>1, <2>5, <3>6, <3>7, <4>1, SyncPasses DEF i
    <3>8. CASE ScanResult(i, t) # Closed
      <4> DEFINE r == ScanResult(i, t)
      <4>1. r = Error(i) \/ r = Batch(i, t)
        BY <3>8 DEF ScanResult
      <4>2. Return(r)
        BY <2>5, <4>1
      <4>3. r \in Results /\ r[1] \in {"batch", "control", "error"}
        BY <2>2, <3>6, <4>1, ResultFacts DEF Error, Batch
      <4> HIDE DEF r
      <4>4. r \in Gives(i) /\ r # Closed
        BY <3>6, <3>8 DEF r
      <4> QED
        BY <1>1, <2>1, <4>2, <4>3, <4>4, SyncReturns DEF i
    <3> QED
      BY <3>7, <3>8
  <2> QED
    BY <1>6, <2>1, <2>3, <2>4, <2>5
<1> QED
  BY <1>3, <1>4, <1>5, <1>6 DEF SyncPull

(***************************************************************************)
(* Calls of Pull, and the owner of the context.                            *)
(***************************************************************************)

\* The first call of the threaded scanner starts its goroutines.
LEMMA StartKeeps ==
  ASSUME IInv, Start, CallUnchanged
  PROVE  /\ UNCHANGED <<file, threads, readVars, held, ctl, work, cache, workerCh, resultChCh,
                        closed, res, outside>>
         /\ ParserTyped /\ WorkerTyped /\ TypeOK
         /\ ParserInv' /\ DecoderInv' /\ WorkInv' /\ ResInv'
         /\ AtParser' = AtParser /\ Queued' = Queued /\ EndQueued' = EndQueued
         /\ Dropped' = Dropped
         /\ pPC = "end" => pPC' = "end"
         /\ threads = 1 => UNCHANGED <<pPC, wPC>>
<1>1. /\ UNCHANGED <<file, threads, readVars, held, ctl, work, cache, workerCh, resultChCh,
                     closed, res, outside>>
      /\ TypeOK /\ pos' = pos
  BY DEF CallUnchanged, IInv, InFileOrder, readVars
<1>2. threads \in Nat /\ threads >= 1 /\ DecoderInv'
  BY <1>1, ThreadFacts, UnchangedParts DEF IInv
<1>3. CASE UNCHANGED <<pPC, wPC>>
  <2>1. UNCHANGED parserVars /\ UNCHANGED workerVars
    BY <1>1, <1>3 DEF parserVars, workerVars
  <2>2. ParserTyped /\ WorkerTyped
    BY <1>1, <2>1, TypedUnchanged
  <2>3. ParserInv' /\ WorkInv' /\ ResInv'
    BY <1>1, <1>3, <2>1, UnchangedParts DEF IInv
  <2>4. AtParser' = AtParser /\ Queued' = Queued /\ EndQueued' = EndQueued
    BY <1>1, <1>3 DEF AtParser, Queued, EndQueued, EOF
  <2>5. Dropped' = Dropped
    BY <1>1, <1>3 DEF Dropped, Abandoned, None
  <2> QED
    BY <1>1, <1>2, <1>3, <2>2, <2>3, <2>4, <2>5
<1>4. CASE pPC = "off" /\ threads > 1 /\ pPC' = "read" /\ wPC' = [w \in Workers |-> "ready"]
  <2>1. ParserTyped
    BY <1>1, <1>4 DEF ParserTyped, ParserPCs, TypeOK
  <2>2. WorkerTyped
    BY <1>1, <1>4 DEF WorkerTyped, WorkerPCs, TypeOK
  <2>3. ~closed /\ res[Len(file) + 1] = None /\ (\A i : ~Abandoned(i) /\ ~Abandoned(i)')
    BY <1>4 DEF IInv, ParserInv, ResInv, Abandoned
  <2>4. ParserInv'
    BY <1>1, <1>4, <2>3 DEF ParserInv
  <2>5. WorkInv'
    BY <1>1, <1>4 DEF WorkInv, Workers
  <2>6. ResInv'
    BY <1>1, <2>3, FileFixed DEF IInv, ResInv, Places, None
  <2>7. AtParser' = AtParser /\ Queued' = Queued /\ EndQueued' = EndQueued
    BY <1>1, <1>4 DEF AtParser, Queued, EndQueued
  <2>8. Dropped' = Dropped
    BY <2>3 DEF Dropped
  <2> QED
    BY <1>1, <1>2, <1>4, <2>1, <2>2, <2>4, <2>5, <2>6, <2>7, <2>8
<1> QED
  BY <1>3, <1>4 DEF Start

\* The parts of the invariant that do not depend on what a call does.
LEMMA CallKeepsRest ==
  ASSUME IInv, Start, CallUnchanged, CtxTyped, CallTyped, OutTyped,
         threads = 1 => cPC' \in {"idle", "pull"},
         Delivered', NothingLate', EndInv',
         cPC = "idle", cPC' \in {"idle", "pull", "drain"},
         ended' = None /\ cPC' # "drain" => ended = None /\ UNCHANGED out
  PROVE  IInv'
<1>1. /\ UNCHANGED <<file, threads, readVars, held, ctl, work, cache, workerCh, resultChCh,
                     closed, res, outside>>
      /\ ParserTyped /\ WorkerTyped /\ TypeOK
      /\ ParserInv' /\ DecoderInv' /\ WorkInv' /\ ResInv'
      /\ AtParser' = AtParser /\ Queued' = Queued /\ EndQueued' = EndQueued
      /\ Dropped' = Dropped
      /\ threads = 1 => UNCHANGED <<pPC, wPC>>
  BY StartKeeps
<1>2. TypeOK'
  <2>1. ReadTyped /\ WorkerChTyped /\ ResultChTyped /\ ResTyped
    BY <1>1, TypedUnchanged
  <2> QED
    BY <1>1, <2>1, TypeOKFromParts
<1>3. SyncInv'
  BY <1>1 DEF IInv, SyncInv, Workers
<1>4. QueueInv'
  <2> DEFINE d == PlaceOf(Len(out))
  <2>1. Receiving = {} /\ Receiving' = {} /\ pos' = pos
    BY <1>1 DEF Receiving, readVars
  <2>2. Skipped \subseteq Skipped'
    BY <1>1, SkippedKept
  <2>3. ASSUME ended' = None, cPC' # "drain"
        PROVE  /\ d' = d
               /\ QueueOK(d, {}, Queued, AtParser, resultChCh, pos, EndQueued, Skipped', Dropped)
    <3>1. QueueOK(d, {}, Queued, AtParser, resultChCh, pos, EndQueued, Skipped, Dropped)
      BY <1>1, <2>1, <2>3, QueueOKBefore DEF IInv, None
    <3>2. d' = d
      BY <2>3 DEF PlaceOf
    <3> HIDE DEF d
    <3> QED
      BY <2>2, <3>1, <3>2 DEF QueueOK
  <2> QED
    BY <1>1, <1>2, <2>1, <2>3, QueueOKAfter DEF None
<1> QED
  BY <1>1, <1>2, <1>3, <1>4 DEF IInv, InFileOrder

\* A call of Pull returns the end it has met before, or goes on to the queue.
LEMMA PullCallKeeps ==
  ASSUME IInv, PullCall
  PROVE  IInv'
<1>1. cPC = "idle" /\ Start /\ CallUnchanged /\ UNCHANGED <<cancelled, cur, eof, err>>
  BY DEF PullCall
<1>2. /\ UNCHANGED <<file, threads, outside>> /\ UNCHANGED readVars /\ TypeOK
      /\ pPC = "end" => pPC' = "end"
  BY <1>1, StartKeeps
<1>3. UNCHANGED ctxVars /\ CtxTyped /\ pos' = pos
  BY <1>1, <1>2, TypedUnchanged DEF ctxVars, readVars
<1>4. threads \in Nat /\ threads >= 1
  BY <1>2, ThreadFacts
<1>5. CASE (err # None \/ eof) /\ Return(IF err # None THEN err ELSE EOF)
  <2> DEFINE r == IF err # None THEN err ELSE EOF
  <2>1. r \in Results /\ Ends(r) /\ ended # None
    <3>1. err \in Results /\ (err = None \/ Ends(err)) /\ (ended = None => ~eof /\ err = None)
      BY <1>2 DEF IInv, EndInv, TypeOK
    <3>2. EOF \in Results /\ Ends(EOF)
      BY ResultFacts DEF Ends, EOF
    <3> QED
      BY <1>5, <3>1, <3>2
  <2> HIDE DEF r
  <2>2. Return(r)
    BY <1>5 DEF r
  <2>3. OutTyped /\ cPC' = "idle"
    BY <1>2, <2>1, <2>2, ReturnTyped
  <2>4. UNCHANGED <<out, ended, late>>
    <3>1. late \in BOOLEAN
      BY <1>2 DEF TypeOK
    <3> QED
      BY <2>1, <2>2, <3>1 DEF Return
  <2>5. CallTyped
    BY <1>1, <1>2, <2>3 DEF CallTyped, CallerPCs, TypeOK
  <2>6. Delivered' /\ NothingLate'
    BY <1>2, <2>4, UnchangedOut DEF IInv, InFileOrder
  <2>7. EndInv'
    BY <1>1, <1>2, <1>3, <2>1, <2>3, <2>4 DEF IInv, EndInv, Ends, None
  <2> QED
    BY <1>1, <1>3, <2>1, <2>3, <2>4, <2>5, <2>6, <2>7, CallKeepsRest DEF None
<1>6. CASE ~(err # None \/ eof) /\ cPC' = "pull" /\ UNCHANGED <<out, ended, late>>
  <2>1. OutTyped
    BY <1>2, <1>6, TypedUnchanged
  <2>2. CallTyped
    BY <1>1, <1>2, <1>6 DEF CallTyped, CallerPCs, TypeOK
  <2>3. Delivered' /\ NothingLate'
    BY <1>2, <1>6, UnchangedOut DEF IInv, InFileOrder
  <2>4. EndInv'
    BY <1>1, <1>2, <1>3, <1>6 DEF IInv, EndInv, Ends, None
  <2> QED
    BY <1>1, <1>3, <1>6, <2>1, <2>2, <2>3, <2>4, CallKeepsRest DEF None
<1> QED
  BY <1>5, <1>6 DEF PullCall

\* Pull(true) ends the scan of the synchronous scanner, and has the threaded one drain.
LEMMA PullDoneKeeps ==
  ASSUME IInv, PullDone
  PROVE  IInv'
<1>1. cPC = "idle" /\ Start /\ CallUnchanged /\ UNCHANGED <<cur, err, out, late>>
  BY DEF PullDone
<1>2. /\ UNCHANGED <<file, threads, outside>> /\ UNCHANGED readVars /\ TypeOK
      /\ pPC = "end" => pPC' = "end"
  BY <1>1, StartKeeps
<1>3. pos' = pos /\ threads \in Nat /\ threads >= 1
  BY <1>2, ThreadFacts DEF readVars
<1>4. Delivered'
  BY <1>1, <1>2, UnchangedOut DEF IInv, InFileOrder
<1>5. NothingLate /\ (ended = None => ~late)
  BY DEF IInv, InFileOrder, EndInv
<1>6. CASE threads > 1 /\ cancelled' = TRUE /\ cPC' = "drain" /\ UNCHANGED <<eof, ended>>
  <2>1. CtxTyped /\ CallTyped
    BY <1>1, <1>2, <1>6 DEF CtxTyped, CallTyped, CallerPCs, TypeOK
  <2>2. OutTyped
    BY <1>1, <1>2, <1>6 DEF OutTyped, TypeOK
  <2>3. NothingLate'
    BY <1>1, <1>2, <1>5, <1>6 DEF NothingLate
  <2>4. EndInv'
    BY <1>1, <1>2, <1>3, <1>6 DEF IInv, EndInv, Ends, None
  <2>5. threads # 1
    BY <1>3, <1>6
  <2> QED
    BY <1>1, <1>4, <1>6, <2>1, <2>2, <2>3, <2>4, <2>5, CallKeepsRest
<1>7. CASE /\ threads = 1 /\ eof' = TRUE /\ UNCHANGED <<cancelled, cPC>>
           /\ ended' = IF ended = None THEN <<"done", 0, NoType>> ELSE ended
  <2>1. CtxTyped /\ CallTyped
    BY <1>1, <1>2, <1>7 DEF CtxTyped, CallTyped, CallerPCs, TypeOK
  <2>2. OutTyped
    BY <1>1, <1>2, <1>7 DEF OutTyped, TypeOK
  <2>3. ended' # None /\ (ended' = <<"done", 0, NoType>> \/ (ended' = ended /\ ended # None))
    BY <1>7 DEF None
  <2>4. NothingLate'
    BY <1>1, <1>2, <1>5, <1>7 DEF NothingLate, None
  <2>5. EndInv'
    BY <1>1, <1>2, <1>3, <1>7, <2>3 DEF IInv, EndInv, Ends, None
  <2> QED
    BY <1>1, <1>4, <1>7, <2>1, <2>2, <2>3, <2>4, <2>5, CallKeepsRest DEF None
<1>8. threads = 1 <=> ~(threads > 1)
  BY <1>3
<1>9. IF threads > 1
      THEN cancelled' = TRUE /\ cPC' = "drain" /\ UNCHANGED <<eof, ended>>
      ELSE /\ eof' = TRUE /\ UNCHANGED <<cancelled, cPC>>
           /\ ended' = IF ended = None THEN <<"done", 0, NoType>> ELSE ended
  BY DEF PullDone
<1> QED
  BY <1>6, <1>7, <1>8, <1>9

\* Cancelling the context changes nothing else, and a stuttering step nothing at all.
LEMMA CancelKeeps ==
  ASSUME IInv, Cancel \/ UNCHANGED vars
  PROVE  IInv'
<1>1. /\ file' = file /\ threads' = threads /\ UNCHANGED workerCh /\ UNCHANGED res
      /\ UNCHANGED readVars /\ UNCHANGED parserVars /\ UNCHANGED workerVars
      /\ UNCHANGED <<resultChCh, closed>> /\ UNCHANGED callerVars
      /\ UNCHANGED ctxVars \/ (cancelled' = TRUE /\ outside' = TRUE)
  BY DEF Cancel, vars
<1>2. /\ UNCHANGED <<cPC, cur, eof, err>> /\ UNCHANGED <<out, ended, late>> /\ UNCHANGED out
      /\ UNCHANGED <<pos, pPC, held, ctl, wPC>> /\ (outside => outside')
      /\ TypeOK /\ (cancelled' => outside' \/ cancelled' = cancelled)
  BY <1>1 DEF callerVars, readVars, parserVars, workerVars, ctxVars, IInv, InFileOrder
<1>3. TypeOK'
  <2>1. /\ ReadTyped /\ ParserTyped /\ WorkerTyped /\ WorkerChTyped /\ ResultChTyped /\ ResTyped
        /\ CallTyped /\ OutTyped
    BY <1>1, <1>2, TypedUnchanged
  <2>2. CtxTyped
    BY <1>1, <1>2 DEF CtxTyped, TypeOK, ctxVars
  <2> QED
    BY <1>1, <1>2, <2>1, <2>2, TypeOKFromParts
<1>4. Delivered' /\ NothingLate' /\ QueueInv'
  BY <1>1, <1>2, UnchangedOut DEF IInv, InFileOrder
<1>5. SyncInv' /\ ParserInv' /\ DecoderInv' /\ WorkInv' /\ ResInv'
  BY <1>1, <1>2, UnchangedParts DEF IInv
<1>6. EndInv'
  BY <1>1, <1>2 DEF IInv, EndInv, Ends, None
<1> QED
  BY <1>3, <1>4, <1>5, <1>6 DEF IInv, InFileOrder

(***************************************************************************)
(* The theorems.                                                           *)
(***************************************************************************)

\* The invariant holds when the scanner is made.
LEMMA InitIInv ==
  ASSUME Init
  PROVE  IInv
<1>1. /\ file \in Files /\ threads \in ThreadCounts /\ pos = 0 /\ nStream = 1
      /\ dec = [k \in 1..Len(file) + 1 |-> <<>>] /\ pPC = "off" /\ held = 0 /\ ctl = None
      /\ wPC = [w \in Workers |-> "off"] /\ work = [w \in Workers |-> NoWork]
      /\ cache = [w \in Workers |-> [i \in 1..Len(file) |-> NoType]]
      /\ workerCh = <<>> /\ resultChCh = <<>> /\ closed = FALSE
      /\ res = [i \in 1..Len(file) + 1 |-> None] /\ cancelled = FALSE /\ outside = FALSE
      /\ cPC = "idle" /\ cur = 0 /\ eof = FALSE /\ err = None
      /\ out = <<>> /\ ended = None /\ late = FALSE
  BY DEF Init
<1>2. Len(file) \in Nat /\ threads \in Nat /\ threads >= 1
  BY <1>1, FilesAssumption, ThreadsAssumption
<1>3. None \in Results /\ NoType \in Types /\ <<>> \in Seq(Results) /\ <<>> \in Seq(Workers)
      /\ <<>> \in Seq(Places) /\ <<>> \in Seq(Places \cup {Len(file) + 1}) /\ Len(<<>>) = 0
  BY ResultFacts DEF Types
<1>4. TypeOK
  <2>1. pos \in 0..Len(file) /\ nStream \in 1..Len(file) + 1 /\ held \in 0..threads
        /\ cur \in 0..Len(file) + 1
        /\ Len(workerCh) <= threads + 1 /\ Len(resultChCh) <= threads + 1
    BY <1>1, <1>2, <1>3
  <2>2. /\ dec \in [1..Len(file) + 1 -> Seq(Places)]
        /\ wPC \in [Workers -> {"off", "ready", "wait", "work", "decode", "end"}]
        /\ work \in [Workers -> {NoWork} \cup Places \X (1..Len(file) + 1)]
        /\ cache \in [Workers -> [1..Len(file) -> Types]]
        /\ res \in [1..Len(file) + 1 -> Results]
    BY <1>1, <1>3
  <2> QED
    BY <1>1, <1>3, <2>1, <2>2 DEF TypeOK
<1>5. Delivered /\ NothingLate
  BY <1>1 DEF Delivered, NothingLate
<1>6. SyncInv /\ ParserInv
  BY <1>1 DEF SyncInv, ParserInv
<1>7. DecoderInv
  <2>1. StreamTypes(0) = {}
    BY DEF StreamTypes
  <2>2. dec[nStream] = <<>> /\ \A k \in nStream + 1..Len(file) + 1 : dec[k] = <<>>
    BY <1>1, <1>2
  <2>3. Cardinality({}) = 0
    BY FS_EmptySet
  <2>4. Len(<<>>) = 0 /\ 1..0 = {}
    OBVIOUS
  <2>5. Holds(dec[nStream], StreamTypes(pos))
    BY <1>1, <2>1, <2>2, <2>3, <2>4 DEF Holds
  <2> QED
    BY <1>1, <2>2, <2>5 DEF DecoderInv
<1>8. WorkInv
  BY <1>1 DEF WorkInv
<1>9. ResInv
  BY <1>1, <1>2 DEF ResInv, Places
<1>10. QueueInv
  <2>1. Receiving = {} /\ Queued = {} /\ AtParser = {} /\ PlaceOf(Len(out)) = 0
    BY <1>1 DEF Receiving, Queued, AtParser, PlaceOf
  <2> QED
    BY <1>1, <2>1 DEF QueueInv
<1>11. EndInv
  BY <1>1 DEF EndInv, None
<1> QED
  BY <1>4, <1>5, <1>6, <1>7, <1>8, <1>9, <1>10, <1>11 DEF IInv, InFileOrder

\* Every step keeps it.
LEMMA NextIInv ==
  ASSUME IInv, [Next]_vars
  PROVE  IInv'
<1>1. CASE Parser
  <2>1. ParserReadsOther => IInv'
    BY ParserReadsOtherKeeps
  <2> QED
    BY <1>1, <2>1, ParserSkipsKeeps, ParserReadsValuesKeeps, SendControlKeeps, TakeWorkerKeeps,
       QueueResultChKeeps, GiveWorkKeeps, ParserCancelledKeeps DEF Parser
<1>2. CASE \E w \in Workers : Worker(w)
  BY <1>2, WorkerReadyKeeps, WorkerBeginsKeeps, WorkerDecodesKeeps, WorkerCancelledKeeps
     DEF Worker
<1>3. CASE Pull
  BY <1>3, DrainKeeps, DrainEndsKeeps, TakeResultChKeeps, PullCancelledKeeps, ReceiveKeeps,
     SyncPullKeeps DEF Pull
<1>4. CASE PullCall \/ PullDone
  BY <1>4, PullCallKeeps, PullDoneKeeps
<1>5. CASE Cancel \/ UNCHANGED vars
  BY <1>5, CancelKeeps
<1> QED
  BY <1>1, <1>2, <1>3, <1>4, <1>5 DEF Next

\* The inductive invariant holds of every behaviour of the scanner.
THEOREM IInvHolds == Spec => []IInv
<1>1. Init => IInv
  BY InitIInv
<1>2. IInv /\ [Next]_vars => IInv'
  BY NextIInv
<1> QED
  BY <1>1, <1>2, PTL DEF Spec

\* For every file and every number of threads, and however the parser, the workers, the
\* caller of Pull and the owner of the context interleave, Pull returns what the frames
\* give in file order, each once, decoded with the types of its own stream, and nothing
\* after the end (scanner.Pull, scanner.start, worker.run, scannerSync.Pull).
THEOREM InFileOrderHolds == Spec => []InFileOrder
<1>1. IInv => InFileOrder
  BY DEF IInv
<1> QED
  BY <1>1, IInvHolds, PTL

\* When Pull(true) has returned no step reads the underlying reader any more: the threaded
\* scanner's parser has exited, and the synchronous scanner's Pull returns at once.
THEOREM NotReadAfterDoneHolds == Spec => NotReadAfterDone
<1>1. IInv /\ [Next]_vars => [ended[1] = "done" => pos' = pos]_vars
  <2> SUFFICES ASSUME IInv, Next, ended[1] = "done" PROVE pos' = pos
    BY DEF vars, readVars
  <2>1. threads \in Nat /\ threads >= 1
    BY ThreadFacts DEF IInv, InFileOrder
  <2>2. (threads > 1 => pPC = "end") /\ (threads = 1 => cPC = "idle" /\ pPC = "off")
    BY DEF IInv, EndInv, SyncInv
  <2>3. pPC \in {"end", "off"} /\ ~(threads = 1 /\ cPC = "pull")
    BY <2>1, <2>2
  <2>4. ~ParserSkips /\ ~ParserReadsValues /\ ~ParserReadsOther /\ ~SyncPull
    BY <2>3 DEF ParserSkips, ParserReadsValues, ParserReadsOther, SyncPull
  <2>5. CASE Parser
    BY <2>4, <2>5 DEF Parser, SendControl, TakeWorker, QueueResultCh, GiveWork,
       ParserCancelled, readVars
  <2>6. CASE \E w \in Workers : Worker(w)
    BY <2>6 DEF Worker, WorkerReady, WorkerBegins, WorkerDecodes, WorkerCancelled,
       WorkerUnchanged, readVars
  <2>7. CASE Pull
    BY <2>4, <2>7 DEF Pull, Drain, DrainEnds, TakeResultCh, PullCancelled, Receive,
       PullUnchanged, readVars
  <2>8. CASE PullCall \/ PullDone
    BY <2>8 DEF PullCall, PullDone, CallUnchanged, readVars
  <2>9. CASE Cancel
    BY <2>9 DEF Cancel, readVars
  <2> QED
    BY <2>5, <2>6, <2>7, <2>8, <2>9 DEF Next
<1> QED
  BY <1>1, IInvHolds, PTL DEF Spec, NotReadAfterDone
=============================================================================
