----------------------------- MODULE UartProofs -----------------------------
(***************************************************************************)
(* Theorems about Uart: type correctness, and that a frame sent into       *)
(* silence comes back from read() whole or not at all, whatever fragments  *)
(* read() has returned before it.                                          *)
(***************************************************************************)
EXTENDS Uart, SequenceTheorems, TLAPS

IInv == TypeOK /\ WordsInv /\ ReadInv /\ LineInv

-----------------------------------------------------------------------------
(* The sequences of words.                                                 *)

LEMMA Int32Max == INT32_MAX \in Nat /\ INT32_MAX > OVERHEAD
  BY SMT DEF INT32_MAX, OVERHEAD

LEMMA FrameType ==
  ASSUME NEW k \in Nat \ {0}, NEW n \in Lengths, NEW w \in DataWords
  PROVE  /\ n + OVERHEAD \in 3 .. BUFFER_MAX /\ n \in Nat
         /\ FrameOf(k, n, w) \in Seq([frame : 1 .. k, pos : Nat \ {0}, word : Int])
         /\ Len(FrameOf(k, n, w)) = n + OVERHEAD
         /\ FrameOf(k, n, w)[2].word = n
<1> DEFINE W == [frame : 1 .. k, pos : Nat \ {0}, word : Int]
<1>1. n \in Nat /\ n + OVERHEAD \in 3 .. BUFFER_MAX /\ w \in Int
  BY UartAssumption DEF OVERHEAD
<1> DEFINE e(i) == [frame |-> k, pos |-> i, word |-> IF i = 2 THEN n ELSE w]
           f == FrameOf(k, n, w)
<1>2. f = [i \in 1 .. n + OVERHEAD |-> e(i)]
  BY DEF FrameOf
<1>3. \A i \in 1 .. n + OVERHEAD : e(i) \in W
  BY <1>1
<1> HIDE DEF W, e
<1>4. f \in [1 .. n + OVERHEAD -> W]
  BY <1>2, <1>3
<1> HIDE DEF f
<1>5. f \in Seq(W) /\ Len(f) = n + OVERHEAD
  BY <1>1, <1>4, SeqDef
<1>6. \A i \in 1 .. n + OVERHEAD : f[i] = e(i)
  BY <1>2
<1>7. f[2] = e(2)
  BY <1>1, <1>6
<1> QED BY <1>1, <1>5, <1>6, <1>7 DEF W, e, f

LEMMA FrameWords ==
  ASSUME NEW k, NEW n \in Lengths, NEW w, NEW i \in 1 .. n + OVERHEAD
  PROVE  FrameOf(k, n, w)[i].frame = k /\ FrameOf(k, n, w)[i].pos = i
  BY DEF FrameOf

(* What happens to the words when the system's read() delivers some.       *)
LEMMA ReadWordsMoves ==
  ASSUME TypeOK, WordsInv, ReadWords
  PROVE  /\ Available \in 1 .. Len(fifo)
         /\ buffer' \in Seq(WordsSent) /\ fifo' \in Seq(WordsSent)
         /\ Len(buffer') = Len(buffer) + Available
         /\ Len(buffer') \in 1 .. BUFFER_MAX
         /\ Len(fifo') = Len(fifo) - Available
         /\ \A i \in 1 .. Len(buffer) : buffer'[i] = buffer[i]
         /\ \A i \in 1 .. Available : buffer'[Len(buffer) + i] = fifo[i]
         /\ \A i \in 1 .. Len(fifo') : fifo'[i] = fifo[Available + i]
<1>1. /\ fifo \in Seq(WordsSent) /\ Len(fifo) \in Nat
      /\ \A i \in 1 .. Len(fifo) : fifo[i] \in WordsSent
      /\ buffer \in Seq(WordsSent) /\ Len(buffer) \in 0 .. BUFFER_MAX
      /\ BUFFER_MAX \in Nat
  BY UartAssumption, LenProperties, ElementOfSeq DEF WordsInv, TypeOK
<1>2. /\ Available \in 1 .. Len(fifo)
      /\ Available <= BUFFER_MAX - Len(buffer)
  BY <1>1 DEF ReadWords, Available
<1>3. /\ buffer' = buffer \o SubSeq(fifo, 1, Available)
      /\ fifo' = SubSeq(fifo, Available + 1, Len(fifo))
  BY DEF ReadWords
<1> HIDE DEF Available
<1> DEFINE got == SubSeq(fifo, 1, Available)
<1>4. /\ got \in Seq(WordsSent) /\ Len(got) = Available
      /\ \A i \in 1 .. Available : got[i] = fifo[i]
  <2>1. \A i \in 1 .. Available : fifo[i] \in WordsSent
    BY <1>1, <1>2
  <2>2. /\ got \in Seq(WordsSent)
        /\ Len(got) = IF 1 <= Available THEN Available - 1 + 1 ELSE 0
        /\ \A i \in 1 .. Available - 1 + 1 : got[i] = fifo[1 + i - 1]
    BY <1>2, <2>1, SubSeqProperties
  <2> QED BY <1>2, <2>2
<1>5. /\ fifo' \in Seq(WordsSent) /\ Len(fifo') = Len(fifo) - Available
      /\ \A i \in 1 .. Len(fifo') : fifo'[i] = fifo[Available + i]
  <2>1. \A i \in Available + 1 .. Len(fifo) : fifo[i] \in WordsSent
    BY <1>1, <1>2
  <2>2. /\ fifo' \in Seq(WordsSent)
        /\ Len(fifo') = IF Available + 1 <= Len(fifo)
                        THEN Len(fifo) - (Available + 1) + 1 ELSE 0
        /\ \A i \in 1 .. Len(fifo) - (Available + 1) + 1 :
             fifo'[i] = fifo[Available + 1 + i - 1]
    BY <1>1, <1>2, <1>3, <2>1, SubSeqProperties
  <2> QED BY <1>1, <1>2, <2>2
<1> HIDE DEF got
<1>6. /\ buffer' \in Seq(WordsSent) /\ Len(buffer') = Len(buffer) + Available
      /\ \A i \in 1 .. Len(buffer) + Available :
           buffer'[i] = IF i <= Len(buffer) THEN buffer[i] ELSE got[i - Len(buffer)]
  BY <1>1, <1>3, <1>4, ConcatProperties DEF got
<1>7. \A i \in 1 .. Len(buffer) : buffer'[i] = buffer[i]
  BY <1>1, <1>2, <1>6
<1>8. \A i \in 1 .. Available : buffer'[Len(buffer) + i] = fifo[i]
  BY <1>1, <1>2, <1>4, <1>6
<1> QED BY <1>1, <1>2, <1>5, <1>6, <1>7, <1>8

(* What was read of a frame and what the port had behind it are words of   *)
(* the frame, and so are they after the words have moved.                  *)
LEMMA MovedWordsFollow ==
  ASSUME TypeOK, WordsInv, ReadWords, NEW f,
         Follow(buffer, f, 0), Follow(fifo, f, Len(buffer))
  PROVE  Follow(buffer', f, 0) /\ Follow(fifo', f, Len(buffer'))
<1> DEFINE A == Available  B == Len(buffer)
<1>1. /\ A \in 1 .. Len(fifo) /\ Len(fifo) \in Nat /\ B \in Nat
      /\ Len(buffer') = B + A /\ Len(fifo') = Len(fifo) - A
      /\ \A i \in 1 .. B : buffer'[i] = buffer[i]
      /\ \A i \in 1 .. A : buffer'[B + i] = fifo[i]
      /\ \A i \in 1 .. Len(fifo') : fifo'[i] = fifo[A + i]
  BY ReadWordsMoves, LenProperties DEF WordsInv, TypeOK
<1>2. (\A i \in 1 .. B : buffer[i] = f[0 + i]) /\ \A i \in 1 .. Len(fifo) : fifo[i] = f[B + i]
  BY DEF Follow
<1> HIDE DEF A, B
<1>3. ASSUME NEW i \in 1 .. Len(buffer') PROVE buffer'[i] = f[0 + i]
  <2>1. CASE i <= B
    BY <1>1, <1>2, <2>1
  <2>2. CASE i > B
    <3>1. i - B \in 1 .. A /\ B + (i - B) = i
      BY <1>1, <2>2
    <3>2. buffer'[i] = fifo[i - B] /\ fifo[i - B] = f[B + (i - B)]
      BY <1>1, <1>2, <3>1
    <3> QED BY <3>1, <3>2
  <2> QED BY <1>1, <2>1, <2>2
<1>4. ASSUME NEW i \in 1 .. Len(fifo') PROVE fifo'[i] = f[Len(buffer') + i]
  <2>1. A + i \in 1 .. Len(fifo) /\ B + (A + i) = Len(buffer') + i
    BY <1>1
  <2> QED BY <1>1, <1>2, <2>1
<1> QED BY <1>3, <1>4 DEF Follow

-----------------------------------------------------------------------------
(* What a call of read() does and returns.                                 *)

LEMMA ReturnStep ==
  ASSUME NEW n \in Int, Return(n), n <= BUFFER_MAX, sent \in Nat,
         received \in 0 .. sent, buffer' \in Seq(WordsSent),
         n > 0 => buffer' # <<>>
  PROVE  /\ pc' = "idle"
         /\ ret' = [n |-> n, words |-> buffer']
         /\ received' \in 0 .. sent
         /\ ret'.n = n /\ ret'.words = buffer'
  BY DEF Return

(* The frame goes on, or it ends: with its last word, or with a length     *)
(* that would not fit.                                                     *)
LEMMA ReadWordsOutcome ==
  ASSUME TypeOK, WordsInv, ReadInv, ReadWords
  PROVE  /\ state' \in {0, 1} /\ length' \in Int
         /\ \/ /\ UNCHANGED <<pc, ret, received>>
               /\ state' = 0 => Len(buffer') < 2 /\ length' = INT32_MAX - OVERHEAD
               /\ state' = 1 => /\ 2 <= Len(buffer')
                                /\ Len(buffer') < length' + OVERHEAD
                                /\ length' = buffer'[2].word
                                /\ length' <= BUFFER_MAX - OVERHEAD
            \/ /\ 2 <= Len(buffer')
               /\ length' = buffer'[2].word
               /\ \/ Return(0) /\ length' > BUFFER_MAX - OVERHEAD
                  \/ /\ Return(length' + OVERHEAD)
                     /\ length' + OVERHEAD <= Len(buffer')
                     /\ length' <= BUFFER_MAX - OVERHEAD
<1>1. /\ pc = "reading" /\ state \in {0, 1} /\ length \in Int
      /\ BUFFER_MAX \in 0 .. INT32_MAX - 1 /\ OVERHEAD = 3 /\ INT32_MAX \in Nat
  BY UartAssumption, Int32Max DEF ReadWords, TypeOK, OVERHEAD
<1>2. /\ buffer' \in Seq(WordsSent) /\ Len(buffer') \in 1 .. BUFFER_MAX
      /\ Len(buffer) \in Nat
      /\ \A i \in 1 .. Len(buffer) : buffer'[i] = buffer[i]
  BY ReadWordsMoves, LenProperties DEF WordsInv
<1>3. 2 <= Len(buffer') => buffer'[2].word \in Int
  <2>1. 2 <= Len(buffer') => buffer'[2] \in WordsSent
    BY <1>2, ElementOfSeq
  <2> QED BY <2>1 DEF WordsSent
<1>4. CASE state = 0 /\ 2 <= Len(buffer')
  <2>1. /\ length' = buffer'[2].word /\ state' = 1
        /\ \/ length' > BUFFER_MAX - OVERHEAD /\ Return(0)
           \/ /\ ~ (length' > BUFFER_MAX - OVERHEAD)
              /\ IF Len(buffer') < length' + OVERHEAD
                 THEN UNCHANGED <<pc, ret, received>>
                 ELSE Return(length' + OVERHEAD)
    BY <1>2, <1>4 DEF ReadWords
  <2> QED BY <1>1, <1>2, <1>3, <1>4, <2>1
<1>5. CASE state = 1
  <2>1. /\ length' = length /\ state' = 1
        /\ IF Len(buffer') < length' + OVERHEAD
           THEN UNCHANGED <<pc, ret, received>>
           ELSE Return(length' + OVERHEAD)
    <3>1. ~ (state = 0 /\ Len(buffer') >= 2)
      BY <1>5
    <3> QED BY <1>5, <3>1 DEF ReadWords
  <2>2. 2 <= Len(buffer) /\ length = buffer[2].word /\ length <= BUFFER_MAX - OVERHEAD
    BY <1>1, <1>5 DEF ReadInv
  <2>3. 2 <= Len(buffer') /\ buffer'[2] = buffer[2]
    BY <1>2, <2>2, ReadWordsMoves
  <2> QED BY <1>1, <1>2, <2>1, <2>2, <2>3
<1>6. CASE state = 0 /\ ~ (2 <= Len(buffer'))
  <2>1. length = INT32_MAX - OVERHEAD
    BY <1>1, <1>6 DEF ReadInv
  <2>2. /\ length' = length /\ state' = 0
        /\ IF Len(buffer') < length' + OVERHEAD
           THEN UNCHANGED <<pc, ret, received>>
           ELSE Return(length' + OVERHEAD)
    BY <1>2, <1>6 DEF ReadWords
  <2>3. Len(buffer') < length' + OVERHEAD
    BY <1>1, <1>2, <2>1, <2>2
  <2> QED BY <1>1, <1>2, <1>6, <2>1, <2>2, <2>3
<1> QED BY <1>1, <1>2, <1>4, <1>5, <1>6

-----------------------------------------------------------------------------
(* The invariant, action by action.                                        *)

LEMMA InitIInv == Init => IInv
<1> SUFFICES ASSUME Init PROVE IInv
  OBVIOUS
<1>1. /\ line = <<>> /\ fifo = <<>> /\ buffer = <<>> /\ sent = 0 /\ pc = "idle"
      /\ ret.n = 0 /\ ret.words = <<>> /\ received = 0 /\ loop = 0 /\ state = 0
      /\ mTimeout \in Timeouts /\ length \in Int
  BY Int32Max DEF Init, OVERHEAD
<1>2. disturbed = FALSE
  BY DEF Init
<1>3. TypeOK
  <2>1. Len(buffer) = 0
    BY <1>1
  <2>2. disturbed \in BOOLEAN
    BY <1>2
  <2> QED BY <1>1, <2>1, <2>2, UartAssumption DEF TypeOK
<1>4. WordsInv
  BY <1>1, EmptySeq DEF WordsInv
<1>5. ReadInv /\ LineInv
  BY <1>1 DEF ReadInv, LineInv, Silence
<1> QED BY <1>3, <1>4, <1>5 DEF IInv

LEMMA PeerSendsIInv == IInv /\ PeerSends => IInv'
<1> SUFFICES ASSUME IInv, PeerSends PROVE IInv'
  OBVIOUS
<1>1. /\ sent \in Nat /\ sent' = sent + 1 /\ sent' \in 1 .. MaxFrames
      /\ UNCHANGED <<mTimeout, fifo, pc, buffer, state, length, loop, ret, received>>
      /\ disturbed' = ~Quiet
  BY UartAssumption DEF IInv, TypeOK, PeerSends, readVars
<1>2. PICK n \in Lengths, w \in DataWords : line' = line \o FrameOf(sent', n, w)
  BY DEF PeerSends
<1> DEFINE f == FrameOf(sent', n, w)
<1>3. /\ n \in Nat /\ f \in Seq(WordsSent') /\ Len(f) = n + OVERHEAD
      /\ n + OVERHEAD \in 3 .. BUFFER_MAX
  <2>1. sent' \in Nat \ {0}
    BY <1>1
  <2>2. WordsSent' = [frame : 1 .. sent', pos : Nat \ {0}, word : Int]
    BY DEF WordsSent
  <2> QED BY <2>1, <2>2, FrameType
<1> HIDE DEF f
<1>4. WordsSent \subseteq WordsSent'
  BY <1>1 DEF WordsSent
<1>5. TypeOK'
  <2>1. disturbed' \in BOOLEAN
    BY <1>1
  <2>2. received' \in 0 .. sent' /\ sent' \in 0 .. MaxFrames
    BY <1>1, UartAssumption DEF IInv, TypeOK
  <2> QED BY <1>1, <2>1, <2>2, Zenon DEF IInv, TypeOK
<1>6. WordsInv'
  <2>1. /\ line \in Seq(WordsSent') /\ fifo \in Seq(WordsSent')
        /\ buffer \in Seq(WordsSent') /\ ret.words \in Seq(WordsSent')
    BY <1>4, SeqMonotonic DEF IInv, WordsInv
  <2>2. line' \in Seq(WordsSent')
    BY <1>2, <1>3, <2>1, ConcatProperties DEF f
  <2> QED BY <1>1, <2>1, <2>2 DEF IInv, WordsInv
<1>7. ReadInv'
  BY <1>1 DEF IInv, ReadInv
<1>8. ASSUME ~disturbed' PROVE InFlight(n, w)'
  <2>1. line = <<>> /\ fifo = <<>> /\ pc = "idle"
    BY <1>1, <1>8 DEF Quiet
  <2>2. line' = f
    BY <1>2, <1>3, <2>1, ConcatEmptySeq DEF f
  <2>3. WordsRead' = 0 /\ Len(fifo') = 0 /\ fifo' = <<>> /\ pc' = "idle"
    BY <1>1, <2>1 DEF WordsRead
  <2>4. 0 + 0 + Len(line') = n + OVERHEAD
    BY <1>3, <2>2
  <2>5. ret'.n > 0 => ret'.words[1].frame # sent'
    <3> SUFFICES ASSUME ret.n > 0 PROVE ret.words[1].frame # sent'
      BY <1>1
    <3>1. ret.words \in Seq(WordsSent) /\ ret.words # <<>>
      BY DEF IInv, WordsInv
    <3>2. 1 \in 1 .. Len(ret.words)
      BY <3>1, EmptySeq
    <3>3. ret.words[1] \in WordsSent
      BY <3>1, <3>2, ElementOfSeq
    <3> QED BY <1>1, <3>3 DEF WordsSent
  <2>6. Follow(line', f, 0) /\ Follow(fifo', f, 0)
    <3>1. \A i \in 1 .. Len(f) : f[i] = f[0 + i]
      BY <1>3
    <3> QED BY <2>2, <2>3, <3>1 DEF Follow
  <2> QED BY <2>3, <2>4, <2>5, <2>6 DEF InFlight, f
<1>9. LineInv'
  BY <1>1, <1>8 DEF LineInv
<1> QED BY <1>5, <1>6, <1>7, <1>9 DEF IInv

LEMMA ArriveIInv == IInv /\ Arrive => IInv'
<1> SUFFICES ASSUME IInv, Arrive PROVE IInv'
  OBVIOUS
<1>1. /\ UNCHANGED <<mTimeout, sent, pc, buffer, state, length, loop, ret, received>>
      /\ line # <<>> /\ fifo' = Append(fifo, Head(line)) /\ line' = Tail(line)
      /\ line \in Seq(WordsSent) /\ fifo \in Seq(WordsSent)
      /\ WordsSent' = WordsSent
  BY DEF Arrive, readVars, IInv, WordsInv, WordsSent
<1>2. disturbed' = disturbed
  BY DEF Arrive
<1>3. /\ line' \in Seq(WordsSent) /\ Len(line') = Len(line) - 1
      /\ \A i \in 1 .. Len(line') : line'[i] = line[i + 1]
      /\ Head(line) \in WordsSent /\ Head(line) = line[1]
      /\ Len(line) \in Nat \ {0} /\ Len(fifo) \in Nat
  BY <1>1, HeadTailProperties, EmptySeq, LenProperties
<1>4. /\ fifo' \in Seq(WordsSent) /\ Len(fifo') = Len(fifo) + 1
      /\ \A i \in 1 .. Len(fifo) : fifo'[i] = fifo[i]
      /\ fifo'[Len(fifo) + 1] = line[1]
  BY <1>1, <1>3, AppendProperties
<1>5. TypeOK'
  BY <1>1, <1>2, Zenon DEF IInv, TypeOK
<1>6. WordsInv'
  BY <1>1, <1>3, <1>4 DEF IInv, WordsInv
<1>7. ReadInv'
  BY <1>1 DEF IInv, ReadInv
<1>8. ASSUME ~disturbed, NEW n \in Lengths, NEW w \in DataWords, InFlight(n, w)
      PROVE  InFlight(n, w)'
  <2> DEFINE f == FrameOf(sent, n, w)
             k == WordsRead
  <2>1. /\ k + Len(fifo) + Len(line) = n + OVERHEAD
        /\ pc = "reading" => Follow(buffer, f, 0)
        /\ Follow(fifo, f, k)
        /\ Follow(line, f, k + Len(fifo))
        /\ ret.n > 0 => ret.words[1].frame # sent
    BY <1>8 DEF InFlight
  <2>2. k \in Nat /\ k' = k /\ f' = f /\ n + OVERHEAD \in Int
    BY <1>1, UartAssumption DEF WordsRead, FrameOf, IInv, TypeOK, OVERHEAD
  <2> HIDE DEF f, k
  <2>3. k + Len(fifo') + Len(line') = n + OVERHEAD
    BY <1>3, <1>4, <2>1, <2>2
  <2>4. Follow(fifo', f, k)
    <3> SUFFICES ASSUME NEW i \in 1 .. Len(fifo') PROVE fifo'[i] = f[k + i]
      BY DEF Follow
    <3>1. CASE i <= Len(fifo)
      BY <1>3, <1>4, <2>1, <3>1 DEF Follow
    <3>2. CASE i = Len(fifo) + 1
      <4>1. line[1] = f[k + Len(fifo) + 1]
        BY <1>3, <2>1 DEF Follow
      <4>2. k + Len(fifo) + 1 = k + i
        BY <1>3, <2>2, <3>2
      <4> QED BY <1>4, <3>2, <4>1, <4>2
    <3> QED BY <1>3, <1>4, <3>1, <3>2
  <2>5. Follow(line', f, k + Len(fifo'))
    <3> SUFFICES ASSUME NEW i \in 1 .. Len(line')
                 PROVE  line'[i] = f[k + Len(fifo') + i]
      BY DEF Follow
    <3>1. i + 1 \in 1 .. Len(line) /\ k + Len(fifo) + (i + 1) = k + Len(fifo') + i
      BY <1>3, <1>4, <2>2
    <3>2. line[i + 1] = f[k + Len(fifo) + (i + 1)]
      BY <2>1, <3>1 DEF Follow
    <3> QED BY <1>3, <3>1, <3>2
  <2> QED BY <1>1, <2>1, <2>2, <2>3, <2>4, <2>5 DEF InFlight, f, k
<1>9. LineInv'
  <2> SUFFICES ASSUME ~disturbed
               PROVE  \E n \in Lengths, w \in DataWords : InFlight(n, w)'
    BY <1>2 DEF LineInv
  <2>1. ~Silence
    BY <1>1 DEF Silence
  <2> QED BY <1>8, <2>1 DEF IInv, LineInv
<1> QED BY <1>5, <1>6, <1>7, <1>9 DEF IInv

LEMMA ReadBeginsIInv == IInv /\ ReadBegins => IInv'
<1> SUFFICES ASSUME IInv, ReadBegins PROVE IInv'
  OBVIOUS
<1>1. /\ UNCHANGED <<mTimeout, line, sent, fifo, ret, received>>
      /\ pc = "idle" /\ pc' = "reading" /\ buffer' = <<>> /\ Len(buffer') = 0
      /\ state' = 0 /\ length' = INT32_MAX - OVERHEAD /\ loop' = 0
      /\ WordsSent' = WordsSent
  BY DEF ReadBegins, peerVars, WordsSent
<1>2. disturbed' = disturbed
  BY DEF ReadBegins
<1>3. TypeOK'
  <2>1. /\ length' \in Int /\ Len(buffer') \in 0 .. BUFFER_MAX
        /\ loop' \in 0 .. LOOP_MAX + 1
    BY <1>1, Int32Max, UartAssumption DEF OVERHEAD
  <2>2. disturbed' \in BOOLEAN
    BY <1>2 DEF IInv, TypeOK
  <2> QED BY <1>1, <2>1, <2>2 DEF IInv, TypeOK
<1>4. WordsInv'
  BY <1>1, EmptySeq DEF IInv, WordsInv
<1>5. ReadInv'
  BY <1>1, UartAssumption DEF ReadInv
<1>6. LineInv'
  <2> SUFFICES ASSUME ~disturbed PROVE (Silence \/ \E n \in Lengths, w \in DataWords : InFlight(n, w))'
    BY <1>2 DEF LineInv
  <2>1. CASE Silence
    BY <1>1, <2>1 DEF Silence, IsLastFrame
  <2>2. ASSUME NEW n \in Lengths, NEW w \in DataWords, InFlight(n, w)
        PROVE  InFlight(n, w)'
    <3>1. /\ WordsRead = 0 /\ WordsRead' = 0
          /\ FrameOf(sent, n, w)' = FrameOf(sent, n, w)
      BY <1>1 DEF WordsRead, FrameOf
    <3>2. Follow(buffer, FrameOf(sent, n, w), 0)'
      BY <1>1 DEF Follow
    <3> QED BY <1>1, <2>2, <3>1, <3>2 DEF InFlight, Follow
  <2> QED BY <2>1, <2>2 DEF IInv, LineInv
<1> QED BY <1>3, <1>4, <1>5, <1>6 DEF IInv

(* The words read() adds to an undisturbed frame are the next ones of it;  *)
(* with the last one it returns the frame.                                 *)
LEMMA ReadWordsLineInv ==
  ASSUME IInv, ReadWords
  PROVE  LineInv'
<1> SUFFICES ASSUME ~disturbed
             PROVE  (Silence \/ \E n \in Lengths, w \in DataWords : InFlight(n, w))'
  BY DEF LineInv, ReadWords
<1>1. /\ UNCHANGED <<line, sent>> /\ pc = "reading" /\ BUFFER_MAX \in Nat
      /\ sent \in Nat /\ line \in Seq(WordsSent) /\ Len(line) \in Nat
      /\ Len(fifo) \in Nat /\ Len(buffer) \in Nat
  BY UartAssumption, LenProperties
     DEF ReadWords, peerVars, IInv, TypeOK, WordsInv
<1>2. /\ Available \in 1 .. Len(fifo) /\ Len(buffer') = Len(buffer) + Available
      /\ Len(fifo') = Len(fifo) - Available
      /\ buffer' \in Seq(WordsSent) /\ fifo' \in Seq(WordsSent)
  BY ReadWordsMoves DEF IInv
<1> HIDE DEF Available
<1>3. PICK n \in Lengths, w \in DataWords : InFlight(n, w)
  <2>1. fifo # <<>>
    BY <1>2
  <2> QED BY <2>1 DEF IInv, LineInv, Silence
<1> DEFINE f == FrameOf(sent, n, w)
<1>4. /\ Len(buffer) + Len(fifo) + Len(line) = n + OVERHEAD
      /\ Follow(buffer, f, 0) /\ Follow(fifo, f, Len(buffer))
      /\ Follow(line, f, Len(buffer) + Len(fifo))
      /\ ret.n > 0 => ret.words[1].frame # sent
  BY <1>1, <1>3 DEF InFlight, WordsRead
<1>5. f' = f
  BY <1>1 DEF FrameOf
<1>6. /\ n \in Nat /\ n <= BUFFER_MAX - OVERHEAD /\ OVERHEAD = 3
  BY UartAssumption DEF OVERHEAD
<1>7. sent \in Nat \ {0}
  <2>1. 1 \in 1 .. Len(fifo)
    BY <1>1, <1>2
  <2>2. fifo[1] \in WordsSent
    BY <2>1, ElementOfSeq DEF IInv, WordsInv
  <2>3. fifo[1].frame \in 1 .. sent
    BY <2>2 DEF WordsSent
  <2> QED BY <1>1, <2>3
<1>8. /\ f[2].word = n
      /\ \A i \in 1 .. n + OVERHEAD : f[i].frame = sent /\ f[i].pos = i
  <2>1. f[2].word = n
    BY <1>7, FrameType
  <2>2. \A i \in 1 .. n + OVERHEAD : f[i].frame = sent /\ f[i].pos = i
    BY FrameWords
  <2> QED BY <2>1, <2>2
<1> HIDE DEF f
<1>9. Follow(buffer', f, 0) /\ Follow(fifo', f, Len(buffer'))
  BY <1>4, MovedWordsFollow DEF IInv
<1>10. Len(buffer') + Len(fifo') = Len(buffer) + Len(fifo)
  BY <1>1, <1>2
<1>11. CASE UNCHANGED <<pc, ret, received>>
  <2>1. WordsRead' = Len(buffer')
    BY <1>1, <1>11 DEF WordsRead
  <2>2. InFlight(n, w)'
    BY <1>1, <1>4, <1>5, <1>9, <1>10, <1>11, <2>1 DEF InFlight, f
  <2> QED BY <2>2
<1>12. CASE /\ 2 <= Len(buffer')
            /\ length' = buffer'[2].word
            /\ \/ Return(0) /\ length' > BUFFER_MAX - OVERHEAD
               \/ /\ Return(length' + OVERHEAD)
                  /\ length' + OVERHEAD <= Len(buffer')
                  /\ length' <= BUFFER_MAX - OVERHEAD
  <2>1. length' = n
    <3>1. 2 \in 1 .. Len(buffer')
      BY <1>1, <1>2, <1>12
    <3>2. buffer'[2] = f[0 + 2]
      BY <1>9, <3>1 DEF Follow
    <3> QED BY <1>7, <1>8, <1>12, <3>2
  <2>2. Return(n + OVERHEAD) /\ n + OVERHEAD <= Len(buffer')
    <3>1. ~ (length' > BUFFER_MAX - OVERHEAD)
      BY <1>1, <1>6, <2>1
    <3>2. Return(length' + OVERHEAD) /\ length' + OVERHEAD <= Len(buffer')
      BY <1>12, <3>1
    <3> QED BY <2>1, <3>2
  <2>3. Len(buffer') = n + OVERHEAD /\ Len(fifo') = 0 /\ Len(line') = 0
    BY <1>1, <1>2, <1>4, <1>6, <1>10, <2>2
  <2>4. fifo' = <<>> /\ line' = <<>> /\ pc' = "idle"
    <3>1. pc' = "idle"
      BY <2>2 DEF Return
    <3>2. fifo' = <<>>
      BY <1>2, <2>3, EmptySeq
    <3>3. line' = <<>>
      BY <1>1, <2>3, EmptySeq
    <3> QED BY <3>1, <3>2, <3>3
  <2>5. ret'.n = n + OVERHEAD /\ ret'.words = buffer'
    BY <2>2 DEF Return
  <2>6. \A i \in 1 .. n + OVERHEAD : buffer'[i] = f[i]
    <3> SUFFICES ASSUME NEW i \in 1 .. n + OVERHEAD PROVE buffer'[i] = f[i]
      OBVIOUS
    <3>1. buffer'[i] = f[0 + i] /\ 0 + i = i
      BY <1>9, <2>3 DEF Follow
    <3> QED BY <3>1
  <2>7. IsLastFrame(ret)'
    <3>1. /\ ret'.n = Len(ret'.words) /\ ret'.n > 0
          /\ ret'.n = ret'.words[2].word + OVERHEAD
      BY <1>6, <1>7, <1>8, <2>3, <2>5, <2>6
    <3>2. \A i \in 1 .. ret'.n : ret'.words[i].frame = sent' /\ ret'.words[i].pos = i
      BY <1>1, <1>7, <1>8, <2>5, <2>6
    <3> QED BY <3>1, <3>2 DEF IsLastFrame
  <2> QED BY <2>4, <2>7 DEF Silence
<1> QED BY <1>11, <1>12, ReadWordsOutcome DEF IInv

LEMMA ReadWordsIInv == IInv /\ ReadWords => IInv'
<1> SUFFICES ASSUME IInv, ReadWords PROVE IInv'
  OBVIOUS
<1>1. /\ UNCHANGED <<mTimeout, line, sent>> /\ pc = "reading" /\ loop' = 0
      /\ WordsSent' = WordsSent /\ sent \in Nat
  BY UartAssumption DEF ReadWords, peerVars, WordsSent, IInv, TypeOK
<1>2. disturbed' = disturbed
  BY DEF ReadWords
<1>3. /\ buffer' \in Seq(WordsSent) /\ fifo' \in Seq(WordsSent)
      /\ Len(buffer') \in 1 .. BUFFER_MAX
  BY ReadWordsMoves DEF IInv
<1>4. BUFFER_MAX \in Nat /\ OVERHEAD = 3 /\ LOOP_MAX \in Nat
  BY UartAssumption DEF OVERHEAD
<1>5. state' \in {0, 1} /\ length' \in Int
  BY ReadWordsOutcome DEF IInv
<1>6. \/ /\ UNCHANGED <<pc, ret, received>> /\ ReadInv'
      \/ /\ pc' = "idle" /\ received' \in 0 .. sent
         /\ ret'.n \in Int /\ ret'.n <= BUFFER_MAX /\ ret'.words = buffer'
  <2>1. CASE /\ UNCHANGED <<pc, ret, received>>
             /\ state' = 0 => Len(buffer') < 2 /\ length' = INT32_MAX - OVERHEAD
             /\ state' = 1 => /\ 2 <= Len(buffer')
                              /\ Len(buffer') < length' + OVERHEAD
                              /\ length' = buffer'[2].word
                              /\ length' <= BUFFER_MAX - OVERHEAD
    BY <1>1, <1>4, <2>1 DEF ReadInv
  <2>2. ASSUME NEW k \in Int, k <= BUFFER_MAX, Return(k)
        PROVE  /\ pc' = "idle" /\ received' \in 0 .. sent
               /\ ret'.n \in Int /\ ret'.n <= BUFFER_MAX /\ ret'.words = buffer'
    <3>1. buffer' # <<>>
      BY <1>3
    <3>2. received \in 0 .. sent
      BY DEF IInv, TypeOK
    <3> QED BY <1>1, <1>3, <2>2, <3>1, <3>2, ReturnStep
  <2>3. CASE Return(0)
    BY <1>4, <2>2, <2>3
  <2>4. CASE Return(length' + OVERHEAD) /\ length' <= BUFFER_MAX - OVERHEAD
    BY <1>4, <1>5, <2>2, <2>4
  <2> QED BY <2>1, <2>3, <2>4, ReadWordsOutcome DEF IInv
<1>7. TypeOK'
  <2>1. disturbed' \in BOOLEAN
    BY <1>2 DEF IInv, TypeOK
  <2>2. /\ pc' \in {"idle", "reading"} /\ ret'.n <= BUFFER_MAX
        /\ received' \in 0 .. sent'
    BY <1>1, <1>6 DEF IInv, TypeOK
  <2>3. Len(buffer') \in 0 .. BUFFER_MAX /\ loop' \in 0 .. LOOP_MAX + 1
    BY <1>1, <1>3, <1>4
  <2> QED BY <1>1, <1>5, <2>1, <2>2, <2>3 DEF IInv, TypeOK
<1>8. WordsInv'
  <2>1. CASE UNCHANGED <<pc, ret, received>>
    BY <1>1, <1>3, <2>1 DEF IInv, WordsInv
  <2>2. CASE ret'.n \in Int /\ ret'.words = buffer'
    <3>1. buffer' # <<>>
      BY <1>3
    <3> QED BY <1>1, <1>3, <2>2, <3>1 DEF IInv, WordsInv
  <2> QED BY <1>6, <2>1, <2>2
<1>9. ReadInv'
  BY <1>6 DEF ReadInv
<1> QED BY <1>7, <1>8, <1>9, ReadWordsLineInv DEF IInv

(* An undisturbed frame is never given up: while its end is missing the    *)
(* words that follow are still to come, and giving up would be a gap.      *)
LEMMA ReadNothingIInv == IInv /\ ReadNothing => IInv'
<1> SUFFICES ASSUME IInv, ReadNothing PROVE IInv'
  OBVIOUS
<1> DEFINE last == buffer = <<>> \/ mTimeout # 0 \/ loop + 1 > LOOP_MAX
           gap == last /\ buffer # <<>> /\ (line # <<>> \/ fifo # <<>>)
<1>1. /\ UNCHANGED <<mTimeout, line, sent, fifo, buffer, state, length>>
      /\ pc = "reading" /\ Available = 0 /\ WordsSent' = WordsSent
      /\ loop' = IF buffer = <<>> \/ mTimeout # 0 THEN loop ELSE loop + 1
      /\ IF last THEN Return(0) ELSE UNCHANGED <<pc, ret, received>>
  BY DEF ReadNothing, peerVars, WordsSent
<1>2. disturbed' = (disturbed \/ gap)
  BY DEF ReadNothing
<1>3. /\ sent \in Nat /\ received \in 0 .. sent /\ buffer \in Seq(WordsSent)
      /\ loop \in 0 .. LOOP_MAX /\ LOOP_MAX \in Nat /\ BUFFER_MAX \in Nat
      /\ Len(buffer) \in 0 .. BUFFER_MAX
  BY <1>1, UartAssumption DEF IInv, TypeOK, WordsInv, ReadInv
<1>4. last => /\ pc' = "idle" /\ received' \in 0 .. sent
              /\ ret' = [n |-> 0, words |-> buffer]
              /\ ret'.n = 0 /\ ret'.words = buffer
  BY <1>1, <1>3, ReturnStep
<1>5. ~last => UNCHANGED <<pc, ret, received>>
  BY <1>1
<1>6. TypeOK'
  <2>1. disturbed' \in BOOLEAN
    BY <1>2, Zenon DEF IInv, TypeOK
  <2>2. loop' \in 0 .. LOOP_MAX + 1
    BY <1>1, <1>3
  <2>3. pc' \in {"idle", "reading"} /\ ret'.n <= BUFFER_MAX /\ received' \in 0 .. sent
    <3>1. CASE last
      BY <1>3, <1>4, <3>1
    <3>2. CASE ~last
      BY <1>5, <3>2 DEF IInv, TypeOK
    <3> QED BY <3>1, <3>2
  <2> QED BY <1>1, <2>1, <2>2, <2>3, Zenon DEF IInv, TypeOK
<1>7. WordsInv'
  <2>1. CASE last
    BY <1>1, <1>4, <2>1 DEF IInv, WordsInv
  <2>2. CASE ~last
    BY <1>1, <1>5, <2>2 DEF IInv, WordsInv
  <2> QED BY <2>1, <2>2
<1>8. ReadInv'
  <2>1. CASE last
    BY <1>4, <2>1 DEF ReadInv
  <2>2. CASE ~last
    BY <1>1, <1>3, <1>5, <2>2 DEF IInv, ReadInv
  <2> QED BY <2>1, <2>2
<1>9. LineInv'
  <2> SUFFICES ASSUME ~disturbed, ~gap
               PROVE  (Silence \/ \E n \in Lengths, w \in DataWords : InFlight(n, w))'
    BY <1>2 DEF LineInv
  <2>1. CASE Silence
    <3>1. line' = <<>> /\ fifo' = <<>> /\ buffer' = <<>> /\ last
      BY <1>1, <2>1 DEF Silence
    <3> QED BY <1>4, <3>1 DEF Silence
  <2>2. ASSUME NEW n \in Lengths, NEW w \in DataWords, InFlight(n, w)
        PROVE  InFlight(n, w)'
    <3>1. FrameOf(sent, n, w)' = FrameOf(sent, n, w)
      BY <1>1 DEF FrameOf
    <3>2. CASE ~last
      BY <1>1, <1>5, <2>2, <3>1, <3>2 DEF InFlight, WordsRead, Follow
    <3>3. CASE last
      <4>1. buffer = <<>>
        <5> SUFFICES ASSUME buffer # <<>> PROVE FALSE
          OBVIOUS
        <5>1. line = <<>> /\ fifo = <<>>
          BY <3>3
        <5>2. Len(buffer) = n + OVERHEAD
          BY <1>1, <1>3, <2>2, <5>1 DEF InFlight, WordsRead
        <5>3. n \in Nat /\ OVERHEAD = 3
          BY UartAssumption DEF OVERHEAD
        <5>4. state \in {0, 1}
          BY DEF IInv, TypeOK
        <5>5. /\ state = 1 /\ length = buffer[2].word
              /\ Len(buffer) < length + OVERHEAD
          BY <1>1, <5>2, <5>3, <5>4 DEF IInv, ReadInv
        <5>6. 2 \in 1 .. Len(buffer) /\ 0 + 2 = 2
          BY <5>2, <5>3
        <5>7. buffer[2] = FrameOf(sent, n, w)[0 + 2]
          BY <1>1, <2>2, <5>6 DEF InFlight, Follow
        <5>8. FrameOf(sent, n, w)[2].word = n
          BY <1>3, <5>3 DEF FrameOf
        <5> QED BY <5>2, <5>3, <5>5, <5>6, <5>7, <5>8
      <4>2. WordsRead = 0 /\ WordsRead' = 0 /\ pc' = "idle" /\ ret'.n = 0
        BY <1>4, <3>3, <4>1 DEF WordsRead
      <4> QED BY <1>1, <2>2, <3>1, <4>2 DEF InFlight, Follow
    <3> QED BY <3>2, <3>3
  <2> QED BY <2>1, <2>2 DEF IInv, LineInv
<1> QED BY <1>6, <1>7, <1>8, <1>9 DEF IInv

LEMMA ReadErrorIInv == IInv /\ ReadError => IInv'
<1> SUFFICES ASSUME IInv, ReadError PROVE IInv'
  OBVIOUS
<1>1. /\ UNCHANGED <<mTimeout, line, sent, fifo, buffer, state, length, loop>>
      /\ Return(-1) /\ WordsSent' = WordsSent
  BY DEF ReadError, peerVars, readVars, WordsSent
<1>2. disturbed'
  BY DEF ReadError
<1>3. /\ sent \in Nat /\ received \in 0 .. sent /\ buffer' \in Seq(WordsSent)
      /\ -1 <= BUFFER_MAX /\ -1 \in Int
  BY <1>1, UartAssumption DEF IInv, TypeOK, WordsInv
<1>4. /\ pc' = "idle" /\ received' \in 0 .. sent /\ ret'.n = -1
      /\ ret'.words = buffer'
  BY <1>1, <1>3, ReturnStep
<1>5. TypeOK'
  <2>1. disturbed' \in BOOLEAN
    BY DEF ReadError
  <2> QED BY <1>1, <1>3, <1>4, <2>1 DEF IInv, TypeOK
<1>6. WordsInv'
  BY <1>1, <1>3, <1>4 DEF IInv, WordsInv
<1>7. ReadInv' /\ LineInv'
  BY <1>2, <1>4 DEF ReadInv, LineInv
<1> QED BY <1>5, <1>6, <1>7 DEF IInv

LEMMA IInvStep == IInv /\ [Next]_vars => IInv'
<1>1. ASSUME IInv, UNCHANGED vars PROVE IInv'
  <2>1. /\ UNCHANGED <<mTimeout, line, fifo, sent, pc, buffer, state, length>>
        /\ UNCHANGED <<loop, ret, received>>
    BY <1>1 DEF vars
  <2>2. disturbed' = disturbed
    BY <1>1 DEF vars
  <2>3. TypeOK'
    BY <1>1, <2>1, <2>2, Zenon DEF IInv, TypeOK
  <2>4. WordsInv' /\ ReadInv'
    BY <1>1, <2>1 DEF IInv, WordsInv, ReadInv, WordsSent
  <2>5. LineInv'
    <3>1. Silence => Silence'
      BY <2>1 DEF Silence, IsLastFrame
    <3>2. \A n, w : FrameOf(sent, n, w)' = FrameOf(sent, n, w)
      BY <2>1 DEF FrameOf
    <3>3. \A n, w : InFlight(n, w) => InFlight(n, w)'
      BY <2>1, <3>2 DEF InFlight, WordsRead, Follow
    <3> QED BY <1>1, <2>2, <3>1, <3>3 DEF IInv, LineInv
  <2> QED BY <2>3, <2>4, <2>5 DEF IInv
<1> QED BY <1>1, PeerSendsIInv, ArriveIInv, ReadBeginsIInv, ReadWordsIInv,
        ReadNothingIInv, ReadErrorIInv DEF Next, Read

LEMMA IInvHolds == Spec => []IInv
  BY InitIInv, IInvStep, PTL DEF Spec

-----------------------------------------------------------------------------
(* What follows.                                                           *)

(* read() never takes or returns more words than its buffer has, and its   *)
(* loop counts no further than one beyond the limit, for every length in a *)
(* header, also a negative or an excessive one.                            *)
THEOREM UartTypeCorrect == Spec => []TypeOK
<1>1. IInv => TypeOK
  BY DEF IInv
<1> QED BY <1>1, IInvHolds, PTL

(* While read() has words of a frame without its end, the length it waits  *)
(* for is the one in the header of that frame and fits into the buffer.    *)
THEOREM ReadIsInsideFrame == Spec => []ReadInv
<1>1. IInv => ReadInv
  BY DEF IInv
<1> QED BY <1>1, IInvHolds, PTL

(* What read() returns, when it begins with a word of a frame sent into    *)
(* silence, is this frame from its first word to its last: for every size  *)
(* of the buffer, number of polls, timeout and pace of the line, and       *)
(* whatever came before.                                                   *)
THEOREM FramesAreReturnedWhole == Spec => []FrameReturnedWhole
<1>1. IInv => FrameReturnedWhole
  BY DEF IInv, LineInv, Silence, InFlight, FrameReturnedWhole
<1> QED BY <1>1, IInvHolds, PTL
=============================================================================
