---------------------------- MODULE AverageCall ----------------------------
(***************************************************************************)
(* What the relay promises a client: it behaves as a sensor that can       *)
(* average.  A request ends with an answer to this request or with none.   *)
(* A good answer to GSC2 is made of scans requested for this GSC2 only, as *)
(* many and with as many points averaged as asked for, within the limits   *)
(* of the relay.  There are no datagrams and no globals in this module.    *)
(***************************************************************************)
EXTENDS Integers

CONSTANTS
  ScanAvgMax,   \* most scans an average is made of
  AskedScans,   \* scan averages asked for
  AskedPoints,  \* point averages asked for
  MaxCalls      \* bound: number of requests

VARIABLES
  phase,        \* "idle" or "waiting"
  number,       \* number of requests made
  call,         \* the current or last request
  result        \* what the last call ended with

vars == <<phase, number, call, result>>

Other == [id |-> "OTHER", n |-> 0, p |-> 0]
NoAnswer == [kind |-> "timeout"]

Init ==
  /\ phase = "idle"
  /\ number = 0
  /\ call = Other
  /\ result = NoAnswer

Ask ==
  /\ phase = "idle"
  /\ number < MaxCalls
  /\ phase' = "waiting"
  /\ number' = number + 1
  /\ call' \in [id : {"GSC2"}, n : AskedScans, p : AskedPoints] \cup {Other}
  /\ UNCHANGED result

(* k is what n becomes within the limits 1 and ScanAvgMax.                 *)
ScansFor(k, n) ==
  /\ k \in 1 .. ScanAvgMax
  /\ n \in 1 .. ScanAvgMax => k = n
  /\ n < 1 => k = 1
  /\ n > ScanAvgMax => k = ScanAvgMax

PointsFor(k, p) == k >= 1 /\ (p >= 1 => k = p) /\ (p < 1 => k = 1)

(* An answer whose checksum is right is a refusal or what was asked for.   *)
GoodAnswer(a) ==
  \/ a.id = "ERR"
  \/ call.id = "OTHER" /\ a.id = "OTHER"
  \/ /\ call.id = "GSC2"
     /\ a.id = "GSCN"
     /\ ScansFor(a.number, call.n)
     /\ PointsFor(a.points, call.p)
     /\ a.scans = {number}

Receive ==
  /\ phase = "waiting"
  /\ phase' = "idle"
  /\ result'.kind = "answer"
  /\ result'.chain = number
  /\ result'.intact => GoodAnswer(result')
  /\ UNCHANGED <<number, call>>

GiveUp ==
  /\ phase = "waiting"
  /\ phase' = "idle"
  /\ result' = NoAnswer
  /\ UNCHANGED <<number, call>>

Next == Ask \/ Receive \/ GiveUp

Spec == Init /\ [][Next]_vars
=============================================================================
