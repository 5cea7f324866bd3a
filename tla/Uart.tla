------------------------------- MODULE Uart --------------------------------
(***************************************************************************)
(* ClientUART::read(): a serial line has no datagrams, so read() finds the *)
(* end of a frame from the length in its header.  The peer's words arrive  *)
(* one by one while read() polls the port; what is returned, and what is   *)
(* lost, depends on the gaps in the line and on how soon the peer sends    *)
(* its next frame.                                                         *)
(*                                                                         *)
(* The unit is a word of four bytes: a frame is the command ID, the number *)
(* of data words, the data words and the CRC.                              *)
(***************************************************************************)
EXTENDS Integers, Sequences

CONSTANTS
  BUFFER_MAX,      \* words in the buffer, and in the largest frame accepted
  LOOP_MAX,        \* empty polls before read() gives a frame up
  Timeouts,        \* timeouts config() is called with
  Lengths,         \* numbers of data words in the frames of the peer
  DataWords,       \* values of the other words of a frame
  Disturbances,    \* subset of {"gap", "pipelining", "error"}
  MaxFrames        \* bound: number of frames the peer sends

OVERHEAD == 3
INT32_MAX == 2147483647

ASSUME UartAssumption ==
  /\ BUFFER_MAX \in 0 .. INT32_MAX - 1
  /\ MaxFrames \in Nat
  /\ Lengths \subseteq 0 .. BUFFER_MAX - OVERHEAD
  /\ DataWords \subseteq Int
  /\ LOOP_MAX \in Nat
  /\ Timeouts \subseteq Nat
  /\ Disturbances \subseteq {"gap", "pipelining", "error"}

VARIABLES
  mTimeout,    \* 0: read() polls; otherwise an empty read is a timeout
  line,        \* words the peer has sent and the port has not received
  fifo,        \* words in the receive queue of the port
  sent,        \* number of frames sent
  disturbed,   \* since the last frame sent into silence, something went wrong
  pc,          \* "idle" or "reading": outside or inside read()
  buffer,      \* the words read so far; total is its length
  state,       \* 0: length unknown, 1: length read
  length,
  loop,        \* empty polls in a row
  ret,         \* what read() returned last, with the contents of its buffer
  received     \* history: the last frame that came back whole

peerVars == <<line, sent>>
readVars == <<buffer, state, length, loop>>
vars == <<mTimeout, line, fifo, sent, disturbed, pc, buffer, state, length, loop, ret, received>>

(* Frame k with n data words, all words but the length being w.            *)
FrameOf(k, n, w) ==
  [i \in 1 .. n + OVERHEAD |->
     [frame |-> k, pos |-> i, word |-> IF i = 2 THEN n ELSE w]]

Quiet == line = <<>> /\ fifo = <<>> /\ pc = "idle"

Init ==
  /\ mTimeout \in Timeouts
  /\ line = <<>>
  /\ fifo = <<>>
  /\ sent = 0
  /\ disturbed = FALSE
  /\ pc = "idle"
  /\ buffer = <<>>
  /\ state = 0
  /\ length = INT32_MAX - OVERHEAD
  /\ loop = 0
  /\ ret = [n |-> 0, words |-> <<>>]
  /\ received = 0

-----------------------------------------------------------------------------
(* The peer and the line.                                                  *)

PeerSends ==
  /\ sent < MaxFrames
  /\ Quiet \/ "pipelining" \in Disturbances
  /\ sent' = sent + 1
  /\ \E n \in Lengths, w \in DataWords : line' = line \o FrameOf(sent', n, w)
  /\ disturbed' = ~Quiet
  /\ UNCHANGED <<mTimeout, fifo, pc, readVars, ret, received>>

Arrive ==
  /\ line # <<>>
  /\ fifo' = Append(fifo, Head(line))
  /\ line' = Tail(line)
  /\ UNCHANGED <<mTimeout, sent, disturbed, pc, readVars, ret, received>>

-----------------------------------------------------------------------------
(* read().                                                                 *)

(* Mutant of ReadBegins: the state and the length of the frame before are  *)
(* kept.                                                                   *)
ReadBeginsKeepsLength ==
  /\ pc = "idle"
  /\ pc' = "reading"
  /\ buffer' = <<>>
  /\ loop' = 0
  /\ UNCHANGED <<mTimeout, peerVars, fifo, disturbed, state, length, ret,
                 received>>

ReadBegins ==
  /\ pc = "idle"
  /\ pc' = "reading"
  /\ buffer' = <<>>
  /\ state' = 0
  /\ length' = INT32_MAX - OVERHEAD
  /\ loop' = 0
  /\ UNCHANGED <<mTimeout, peerVars, fifo, disturbed, ret, received>>

(* What read() returned is the frame sent last, from its first word to its *)
(* last and nothing else.                                                  *)
IsLastFrame(r) ==
  /\ r.n = Len(r.words)
  /\ r.n > 0
  /\ \A i \in 1 .. r.n : r.words[i].frame = sent /\ r.words[i].pos = i
  /\ r.n = r.words[2].word + OVERHEAD

Return(n) ==
  /\ ret' = [n |-> n, words |-> buffer']
  /\ received' = IF IsLastFrame(ret') THEN sent ELSE received
  /\ pc' = "idle"

(* Mutant of Available: the room left in the buffer is not regarded.       *)
AvailableWithoutLimit == Len(fifo)

(* Words one call of the system's read() delivers: as many as are there    *)
(* and fit into the buffer.                                                *)
Available ==
  LET room == BUFFER_MAX - Len(buffer)
  IN  IF Len(fifo) < room THEN Len(fifo) ELSE room

(* The header of a frame is complete with its second word.                 *)
ReadWords ==
  /\ pc = "reading"
  /\ Available > 0
  /\ buffer' = buffer \o SubSeq(fifo, 1, Available)
  /\ fifo' = SubSeq(fifo, Available + 1, Len(fifo))
  /\ loop' = 0
  /\ LET header == state = 0 /\ Len(buffer') >= 2
     IN  /\ length' = IF header THEN buffer'[2].word ELSE length
         /\ state' = IF header THEN 1 ELSE state
         /\ \/ header /\ length' > BUFFER_MAX - OVERHEAD /\ Return(0)
            \/ /\ ~(header /\ length' > BUFFER_MAX - OVERHEAD)
               /\ IF Len(buffer') < length' + OVERHEAD
                  THEN UNCHANGED <<pc, ret, received>>
                  ELSE Return(length' + OVERHEAD)
  /\ UNCHANGED <<mTimeout, peerVars, disturbed>>

(* Mutant of ReadNothing: empty reads inside a frame are not counted and   *)
(* are no timeout.                                                         *)
ReadNothingPollsOn ==
  /\ pc = "reading"
  /\ Available = 0
  /\ UNCHANGED <<mTimeout, peerVars, fifo, disturbed, readVars>>
  /\ IF buffer = <<>> THEN Return(0) ELSE UNCHANGED <<pc, ret, received>>

(* An empty read ends read() when nothing was read yet, when it means that *)
(* the timeout expired, or when it is one too many; otherwise read() polls *)
(* again.  Giving up inside a frame whose rest is still to come is a gap.  *)
ReadNothing ==
  /\ pc = "reading"
  /\ Available = 0
  /\ LET last == buffer = <<>> \/ mTimeout # 0 \/ loop + 1 > LOOP_MAX
         gap == last /\ buffer # <<>> /\ (line # <<>> \/ fifo # <<>>)
     IN  /\ gap => "gap" \in Disturbances
         /\ disturbed' = (disturbed \/ gap)
         /\ loop' = IF buffer = <<>> \/ mTimeout # 0 THEN loop ELSE loop + 1
         /\ UNCHANGED <<buffer, state, length>>
         /\ IF last THEN Return(0) ELSE UNCHANGED <<pc, ret, received>>
  /\ UNCHANGED <<mTimeout, peerVars, fifo>>

(* The system's read() fails: what was read of the frame is dropped.       *)
ReadError ==
  /\ pc = "reading"
  /\ "error" \in Disturbances
  /\ disturbed' = TRUE
  /\ UNCHANGED <<mTimeout, peerVars, fifo, readVars>>
  /\ Return(-1)

Read == ReadWords \/ ReadNothing \/ ReadError

Next == PeerSends \/ Arrive \/ ReadBegins \/ Read

Spec == Init /\ [][Next]_vars

(* The relay loop and sendCommand() call read() again and again, and its   *)
(* loop runs, without the help of an error; what the peer has sent arrives.*)
Fairness ==
  /\ WF_vars(Arrive)
  /\ WF_vars(ReadBegins)
  /\ WF_vars(ReadWords \/ ReadNothing)

FairSpec == Spec /\ Fairness

-----------------------------------------------------------------------------
(* Properties.                                                             *)

TypeOK ==
  /\ mTimeout \in Timeouts
  /\ sent \in 0 .. MaxFrames
  /\ disturbed \in BOOLEAN
  /\ pc \in {"idle", "reading"}
  /\ Len(buffer) \in 0 .. BUFFER_MAX
  /\ state \in {0, 1}
  /\ length \in Int
  /\ loop \in 0 .. LOOP_MAX + 1
  /\ ret.n <= BUFFER_MAX
  /\ received \in 0 .. sent

(* A frame the peer sends into silence resynchronises the line: whatever   *)
(* fragments read() has returned before, this frame comes back whole or,   *)
(* as long as its end has not arrived, not at all.                         *)
FrameReturnedWhole ==
  ~disturbed /\ ret.n > 0 /\ ret.words[1].frame = sent => IsLastFrame(ret)

(* Such a frame is not lost: read() returns it.                            *)
FrameReceived ==
  \A k \in 1 .. MaxFrames :
    (sent = k /\ ~disturbed) ~> (sent # k \/ disturbed \/ received = k)

(* Every call of read() returns, whatever arrives.                         *)
ReadReturns == pc = "reading" ~> pc = "idle"

-----------------------------------------------------------------------------
(* Parts of the inductive invariant the safety properties are proved from. *)

WordsSent == [frame : 1 .. sent, pos : Nat \ {0}, word : Int]

(* Every word on its way is one the peer has sent.                         *)
WordsInv ==
  /\ line \in Seq(WordsSent)
  /\ fifo \in Seq(WordsSent)
  /\ buffer \in Seq(WordsSent)
  /\ ret.words \in Seq(WordsSent)
  /\ ret.n \in Int
  /\ ret.n > 0 => ret.words # <<>>

(* Inside read() the frame is not complete, and its length is the one in   *)
(* the header as soon as there is a header.                                *)
ReadInv ==
  pc = "reading" =>
    /\ loop <= LOOP_MAX
    /\ state = 0 => Len(buffer) < 2 /\ length = INT32_MAX - OVERHEAD
    /\ state = 1 => /\ 2 <= Len(buffer)
                    /\ Len(buffer) < length + OVERHEAD
                    /\ length = buffer[2].word
                    /\ length <= BUFFER_MAX - OVERHEAD

(* Nothing is on its way; what was returned last is checked.               *)
Silence ==
  /\ line = <<>>
  /\ fifo = <<>>
  /\ pc = "reading" => buffer = <<>>
  /\ ret.n > 0 /\ ret.words[1].frame = sent => IsLastFrame(ret)

WordsRead == IF pc = "reading" THEN Len(buffer) ELSE 0

(* The words s are those of the frame f that follow its first k ones.      *)
Follow(s, f, k) == \A i \in 1 .. Len(s) : s[i] = f[k + i]

(* The frame sent last, and nothing else, is on its way: read() has its    *)
(* beginning, the port what follows and the line the rest.                 *)
InFlight(n, w) ==
  LET f == FrameOf(sent, n, w)
  IN  /\ WordsRead + Len(fifo) + Len(line) = n + OVERHEAD
      /\ pc = "reading" => Follow(buffer, f, 0)
      /\ Follow(fifo, f, WordsRead)
      /\ Follow(line, f, WordsRead + Len(fifo))
      /\ ret.n > 0 => ret.words[1].frame # sent

LineInv == ~disturbed => Silence \/ \E n \in Lengths, w \in DataWords : InFlight(n, w)
=============================================================================
