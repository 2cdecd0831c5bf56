---------------------------- MODULE DuplexProofs ----------------------------
(***************************************************************************)
(* Proofs about Duplex, for any keys and any timeout: of the radio and its *)
(* interrupt line with any amount of noise, and of the code on the laser   *)
(* with up to two flipped bits in each half of a frame.                    *)
(***************************************************************************)
EXTENDS Duplex, FiniteSetTheorems, TLAPS

-----------------------------------------------------------------------------
(* The operators.                                                          *)

\* A frame decodes to a character or to an error.
LEMMA DecodeType == \A frame : Decode(frame) \in {Err} \cup Chars
<1> TAKE frame
<1> DEFINE lower == DecodeHalf(frame[1])
           upper == DecodeHalf(frame[2])
<1>1. lower.half \subseteq 4..7 /\ upper.half \subseteq 4..7
  BY DEF DecodeHalf
<1>2. {i - 4 : i \in lower.half} \cup upper.half \subseteq 0..7
  BY <1>1
<1>3. Decode(frame) = Err \/ Decode(frame) = {i - 4 : i \in lower.half} \cup upper.half
  BY DEF Decode
<1> QED
  BY <1>2, <1>3 DEF Chars

\* A frame is decoded as a character or refused.
LEMMA HeardType == \A c \in AllKeys : Heard[c] \subseteq {Err} \cup Chars
<1> SUFFICES ASSUME NEW c \in AllKeys, NEW w \in Heard[c]
             PROVE  w \in {Err} \cup Chars
  OBVIOUS
<1>1. w \in {Decode(<<Xor(Encode(c)[1], l), Xor(Encode(c)[2], u)>>) :
                l \in Noise, u \in Noise}
  BY DEF Heard
<1>2. PICK l \in Noise, u \in Noise :
        w = Decode(<<Xor(Encode(c)[1], l), Xor(Encode(c)[2], u)>>)
  BY <1>1
<1> QED
  BY <1>2, DecodeType

\* What the constants' assumptions say of one character or station.
LEMMA Constants ==
  /\ \A s \in Stations : Peer[s] \in Stations /\ Peer[s] # s /\ Peer[Peer[s]] = s
  /\ \A s \in Stations : Keys[s] \subseteq AllKeys
  /\ AllKeys \subseteq Chars /\ Nul \in Chars /\ Nak \in Chars
  /\ Nak \notin AllKeys /\ Nul \notin AllKeys
  /\ None \notin Chars /\ Err \notin Chars /\ None # Err
BY DuplexAssumption DEF AllKeys, Chars, Nul, Nak, Enter

-----------------------------------------------------------------------------
(* The type invariant needs that only keys are sent again, and the decoder *)
(* where a frame is received.                                              *)
SendsKeys ==
  \A s \in Stations : /\ wait[s] => send[s] \in AllKeys
                      /\ pc[s] = "resend" => wait[s]

Typed == TypeOK /\ SendsKeys

\* Types, with what the stations send being keys.
LEMMA TypedInvariant == Spec => []Typed
<1> USE Constants
<1>1. Init => Typed
  BY DuplexAssumption DEF Init, Typed, TypeOK, SendsKeys
<1>2. Typed /\ [Next]_vars => Typed'
  <2> SUFFICES ASSUME Typed, [Next]_vars PROVE Typed'
    OBVIOUS
  <2> USE DEF Typed, TypeOK, SendsKeys, laser, radio, duplex, flags, history
  <2>count. ASSUME NEW s \in Stations, NEW w \in BOOLEAN,
                   NEW t \in 0..MaxTimeout - 1, CountRound(s, w, t)
            PROVE  /\ wait' \in [Stations -> BOOLEAN]
                   /\ timeout' \in [Stations -> 0..MaxTimeout - 1]
                   /\ wait'[s] => w
                   /\ \A q \in Stations \ {s} : wait'[q] = wait[q]
    <3>1. (t + 1) % MaxTimeout \in 0..MaxTimeout - 1
      BY DuplexAssumption
    <3>2. (w /\ t + 1 # MaxTimeout) \in BOOLEAN
      OBVIOUS
    <3>3. wait' = [wait EXCEPT ![s] = w /\ t + 1 # MaxTimeout]
      BY <2>count DEF CountRound
    <3>4. timeout' = [timeout EXCEPT ![s] = IF w THEN (t + 1) % MaxTimeout ELSE t]
      BY <2>count DEF CountRound
    <3>5. timeout' \in [Stations -> 0..MaxTimeout - 1]
      BY <3>1, <3>4
    <3>6. wait' \in [Stations -> BOOLEAN] /\ (wait'[s] => w)
      BY <3>2, <3>3
    <3> QED
      BY <3>3, <3>5, <3>6
  <2>check. ASSUME NEW s \in Stations, Check(s), pc[s] # "resend"
            PROVE  /\ wait' \in [Stations -> BOOLEAN]
                   /\ timeout' \in [Stations -> 0..MaxTimeout - 1]
                   /\ fifo' \in [Stations -> {None} \cup Chars]
                   /\ rxFlag' \in [Stations -> BOOLEAN]
                   /\ pc' \in [Stations -> {"loop", "txwait", "check", "resend"}]
                   /\ UNCHANGED <<send, laserRX, echo, heard>>
                   /\ SendsKeys'
    <3>1. /\ fifo' \in [Stations -> {None} \cup Chars]
          /\ rxFlag' \in [Stations -> BOOLEAN]
          /\ UNCHANGED <<send, laserRX, echo, heard>>
      BY <2>check DEF Check, ReadPacket, Correct
    <3>2. CASE rxFlag[s] /\ fifo[s] = send[s]
      <4>1. 0 \in 0..MaxTimeout - 1
        BY DuplexAssumption
      <4>2. CountRound(s, FALSE, 0) /\ pc' = [pc EXCEPT ![s] = "loop"]
        BY <2>check, <3>2 DEF Check, ReadPacket, Correct
      <4>3. /\ wait' \in [Stations -> BOOLEAN]
            /\ timeout' \in [Stations -> 0..MaxTimeout - 1]
            /\ ~wait'[s]
            /\ \A q \in Stations \ {s} : wait'[q] = wait[q]
        BY <4>1, <4>2, <2>count
      <4> QED
        BY <3>1, <4>2, <4>3, ZenonT(60)
    <3>3. CASE rxFlag[s] /\ fifo[s] # send[s]
      BY <2>check, <3>1, <3>3 DEF Check, ReadPacket, Correct
    <3>4. CASE ~rxFlag[s]
      <4>1. CountRound(s, wait[s], timeout[s]) /\ pc' = [pc EXCEPT ![s] = "loop"]
        BY <2>check, <3>4 DEF Check
      <4>2. wait[s] \in BOOLEAN /\ timeout[s] \in 0..MaxTimeout - 1
        OBVIOUS
      <4>3. /\ wait' \in [Stations -> BOOLEAN]
            /\ timeout' \in [Stations -> 0..MaxTimeout - 1]
            /\ wait'[s] => wait[s]
            /\ \A q \in Stations \ {s} : wait'[q] = wait[q]
        BY <4>1, <4>2, <2>count
      <4>4. ASSUME NEW q \in Stations
            PROVE  /\ wait'[q] => send'[q] \in AllKeys
                   /\ pc'[q] = "resend" => wait'[q]
        <5>1. CASE q = s
          BY <3>1, <4>1, <4>3, <5>1
        <5>2. CASE q # s
          BY <3>1, <4>1, <4>3, <5>2
        <5> QED
          BY <5>1, <5>2
      <4>5. SendsKeys'
        BY <4>4
      <4> QED
        BY <3>1, <4>1, <4>3, <4>5
    <3> QED
      BY <3>2, <3>3, <3>4
  <2>1. ASSUME NEW s \in Stations, Keyboard(s)
        PROVE  Typed'
    <3>1. CASE Select(s)
      BY <3>1 DEF Select
    <3>2. CASE SetStation(s)
      BY <3>2 DEF SetStation
    <3>3. CASE Cancel(s)
      BY <3>3 DEF Cancel
    <3>4. ASSUME NEW c \in Keys[s], Type(s, c) PROVE Typed'
      BY <3>4 DEF Type
    <3> QED
      BY <2>1, <3>1, <3>2, <3>3, <3>4 DEF Keyboard
  <2>2. ASSUME NEW s \in Stations, Laser(s)
        PROVE  Typed'
    <3>1. CASE FrameHeard(s)
      <4>1. laserTX[s] \in AllKeys
        BY <3>1 DEF FrameHeard
      <4>2. PICK w \in Heard[laserTX[s]] :
              laserRX' = [laserRX EXCEPT ![Peer[s]] = w]
        BY <3>1 DEF FrameHeard
      <4>3. w \in {None, Err} \cup Chars
        BY <4>1, <4>2, HeardType
      <4> QED
        BY <3>1, <4>2, <4>3 DEF FrameHeard
    <3>2. CASE FrameLost(s)
      BY <3>2 DEF FrameLost
    <3> QED
      BY <2>2, <3>1, <3>2 DEF Laser
  <2>3. ASSUME NEW s \in Stations, Radio(s)
        PROVE  Typed'
    <3>1. CASE PacketArrives(s)
      <4>1. fifo' \in [Stations -> {None} \cup Chars]
        BY <3>1 DEF PacketArrives
      <4>2. rxFlag' \in [Stations -> BOOLEAN]
        BY <3>1 DEF PacketArrives
      <4> QED
        BY <3>1, <4>1, <4>2 DEF PacketArrives, Transmitted, LineHigh
    <3>2. CASE PacketLost(s)
      BY <3>2 DEF PacketLost, Transmitted, LineHigh
    <3> QED
      BY <2>3, <3>1, <3>2 DEF Radio
  <2>4. ASSUME NEW s \in Stations, Loop(s)
        PROVE  Typed'
    <3>1. CASE Round(s) /\ laserRX[s] # None
      BY <3>1 DEF Round, Answer
    <3>2. CASE Round(s) /\ laserRX[s] = None
      BY <3>2, <2>check DEF Round
    <3>3. CASE SentConfirmed(s)
      BY <3>3 DEF SentConfirmed
    <3>4. CASE CheckAfterSending(s)
      BY <3>4, <2>check DEF CheckAfterSending
    <3>5. CASE Resend(s)
      <4>1. send[s] \in AllKeys /\ laserTX' = [laserTX EXCEPT ![s] = send[s]]
        BY <3>5 DEF Resend
      <4>2. wait[s] /\ CountRound(s, TRUE, timeout[s])
        BY <3>5 DEF Resend
      <4>3. timeout[s] \in 0..MaxTimeout - 1 /\ TRUE \in BOOLEAN
        OBVIOUS
      <4>4. /\ wait' \in [Stations -> BOOLEAN]
            /\ timeout' \in [Stations -> 0..MaxTimeout - 1]
            /\ \A q \in Stations \ {s} : wait'[q] = wait[q]
        BY <4>2, <4>3, <2>count
      <4>5. pc' = [pc EXCEPT ![s] = "loop"]
        BY <3>5 DEF Resend
      <4>6. SendsKeys'
        <5>1. UNCHANGED send
          BY <3>5 DEF Resend
        <5>2. ASSUME NEW q \in Stations
              PROVE  /\ wait'[q] => send'[q] \in AllKeys
                     /\ pc'[q] = "resend" => wait'[q]
          <6>1. CASE q = s
            BY <4>1, <4>5, <5>1, <6>1
          <6>2. CASE q # s
            BY <4>4, <4>5, <5>1, <6>2
          <6> QED
            BY <6>1, <6>2
        <5> QED
          BY <5>2
      <4>7. laserTX' \in [Stations -> AllKeys \cup {None}]
        BY <4>1
      <4>8. UNCHANGED <<phase, send, laserRX, radio, flags, history>>
        BY <3>5 DEF Resend
      <4>9. TypeOK'
        BY <4>4, <4>5, <4>7, <4>8
      <4> QED
        BY <4>6, <4>9
    <3> QED
      BY <2>4, <3>1, <3>2, <3>3, <3>4, <3>5 DEF Loop
  <2>5. CASE UNCHANGED vars
    BY <2>5 DEF vars
  <2> QED
    BY <2>1, <2>2, <2>3, <2>4, <2>5 DEF Next
<1> QED
  BY <1>1, <1>2, PTL DEF Spec

-----------------------------------------------------------------------------
(* The interrupt line.  Only a station that is sending has TX_DS set, and  *)
(* nothing arrives there, so what holds the line down came before.         *)
LineOK ==
  \A s \in Stations : /\ sent[s] => pc[s] = "txwait"
                      /\ txFlag[s] => sent[s]
                      /\ Stuck(s) => fifo[s] # None

(* What is on the way to a station, and what it has received, is an error  *)
(* or a character that the other one has decoded.                          *)
AnswersHeard ==
  \A s \in Stations : /\ echo[s] \in {None, Nak} \cup heard[s]
                      /\ fifo[s] \in {None, Nak} \cup heard[Peer[s]]

\* What a look at RX_DR_INTRPT does to the radio.
LEMMA CheckReads ==
  ASSUME TypeOK, NEW s \in Stations, Check(s)
  PROVE  /\ fifo' \in {fifo, [fifo EXCEPT ![s] = None]}
         /\ pc' \in [Stations -> {"loop", "txwait", "check", "resend"}]
         /\ pc'[s] # "txwait"
         /\ \A q \in Stations \ {s} : pc'[q] = pc[q] /\ fifo'[q] = fifo[q]
         /\ UNCHANGED <<echo, heard>>
BY ZenonT(60) DEF TypeOK, Check, ReadPacket, Correct

\* How the interrupt line and the flags belong together.
LEMMA LineInvariant == Spec => []LineOK
<1> USE Constants
<1>1. Init => LineOK
  BY DEF Init, LineOK, Stuck
<1>2. TypeOK /\ LineOK /\ [Next]_vars => LineOK'
  <2> SUFFICES ASSUME TypeOK, LineOK, [Next]_vars PROVE LineOK'
    OBVIOUS
  <2> USE DEF TypeOK, LineOK, Stuck, laser, radio, duplex, flags, history
  <2>1. ASSUME NEW s \in Stations, Keyboard(s)
        PROVE  LineOK'
    BY <2>1 DEF Keyboard, Select, SetStation, Cancel, Type
  <2>2. ASSUME NEW s \in Stations, Laser(s)
        PROVE  LineOK'
    BY <2>2 DEF Laser, FrameHeard, FrameLost
  <2>3. ASSUME NEW s \in Stations, Radio(s)
        PROVE  LineOK'
    <3>1. CASE PacketArrives(s)
      <4>1. \A q \in Stations : fifo'[q] = fifo[q] \/ (q = Peer[s] /\ pc[q] # "txwait")
        BY <3>1 DEF PacketArrives, Listening
      <4> QED
        BY <3>1, <4>1, ZenonT(60) DEF PacketArrives, Transmitted, LineHigh
    <3>2. CASE PacketLost(s)
      BY <3>2 DEF PacketLost, Transmitted, LineHigh
    <3> QED
      BY <2>3, <3>1, <3>2 DEF Radio
  <2>4. ASSUME NEW s \in Stations, Loop(s)
        PROVE  LineOK'
    <3>1. CASE Round(s) /\ laserRX[s] # None
      BY <3>1 DEF Round, Answer
    <3>2. CASE Round(s) /\ laserRX[s] = None
      BY <3>2, CheckReads DEF Round
    <3>3. CASE SentConfirmed(s)
      BY <3>3 DEF SentConfirmed
    <3>4. CASE CheckAfterSending(s)
      BY <3>4, CheckReads DEF CheckAfterSending
    <3>5. CASE Resend(s)
      BY <3>5 DEF Resend
    <3> QED
      BY <2>4, <3>1, <3>2, <3>3, <3>4, <3>5 DEF Loop
  <2>5. CASE UNCHANGED vars
    BY <2>5 DEF vars
  <2> QED
    BY <2>1, <2>2, <2>3, <2>4, <2>5 DEF Next
<1> QED
  BY <1>1, <1>2, TypedInvariant, PTL DEF Spec, Typed

(* A station that waits for its packet to be sent and will never be told   *)
(* has an unread packet: nothing else can stop it.                         *)
THEOREM StuckByPacket == Spec => []StuckHasPacket
<1>1. LineOK => StuckHasPacket
  BY DEF LineOK, StuckHasPacket
<1> QED
  BY <1>1, LineInvariant, PTL

-----------------------------------------------------------------------------
\* A key in an answer was decoded by the station that answers.
LEMMA AnswersInvariant == Spec => []AnswersHeard
<1> USE Constants
<1>1. Init => AnswersHeard
  BY DEF Init, AnswersHeard
<1>2. TypeOK /\ AnswersHeard /\ [Next]_vars => AnswersHeard'
  <2> SUFFICES ASSUME TypeOK, AnswersHeard, [Next]_vars PROVE AnswersHeard'
    OBVIOUS
  <2> USE DEF TypeOK, AnswersHeard, laser, radio, duplex, flags, history
  <2>1. ASSUME NEW s \in Stations, Keyboard(s)
        PROVE  AnswersHeard'
    BY <2>1 DEF Keyboard, Select, SetStation, Cancel, Type
  <2>2. ASSUME NEW s \in Stations, Laser(s)
        PROVE  AnswersHeard'
    BY <2>2 DEF Laser, FrameHeard, FrameLost
  <2>3. ASSUME NEW s \in Stations, Radio(s)
        PROVE  AnswersHeard'
    <3>1. CASE PacketArrives(s)
      <4>1. fifo' = fifo \/ fifo' = [fifo EXCEPT ![Peer[s]] = echo[s]]
        BY <3>1 DEF PacketArrives
      <4>2. echo' = [echo EXCEPT ![s] = None] /\ heard' = heard
        BY <3>1 DEF PacketArrives, Transmitted
      <4> QED
        BY <4>1, <4>2
    <3>2. CASE PacketLost(s)
      BY <3>2 DEF PacketLost, Transmitted
    <3> QED
      BY <2>3, <3>1, <3>2 DEF Radio
  <2>4. ASSUME NEW s \in Stations, Loop(s)
        PROVE  AnswersHeard'
    <3>1. CASE Round(s) /\ laserRX[s] # None
      <4>1. heard' = [heard EXCEPT ![s] = heard[s] \cup ({laserRX[s]} \ {Err})]
        BY <3>1 DEF Round, Answer
      <4>2. echo' = [echo EXCEPT ![s] =
                       IF laserRX[s] = Err THEN Nak ELSE laserRX[s]]
        BY <3>1 DEF Round, Answer
      <4>3. fifo' = fifo
        BY <3>1 DEF Round, Answer
      <4>4. \A q \in Stations : heard[q] \subseteq heard'[q]
        BY <4>1
      <4>5. echo'[s] \in {Nak} \cup heard'[s]
        BY <4>1, <4>2
      <4> QED
        BY <4>2, <4>3, <4>4, <4>5
    <3>2. CASE Round(s) /\ laserRX[s] = None
      BY <3>2, CheckReads DEF Round
    <3>3. CASE SentConfirmed(s)
      BY <3>3 DEF SentConfirmed
    <3>4. CASE CheckAfterSending(s)
      BY <3>4, CheckReads DEF CheckAfterSending
    <3>5. CASE Resend(s)
      BY <3>5 DEF Resend
    <3> QED
      BY <2>4, <3>1, <3>2, <3>3, <3>4, <3>5 DEF Loop
  <2>5. CASE UNCHANGED vars
    BY <2>5 DEF vars
  <2> QED
    BY <2>1, <2>2, <2>3, <2>4, <2>5 DEF Next
<1> QED
  BY <1>1, <1>2, TypedInvariant, PTL DEF Spec, Typed

(* A response is taken as correct only if the other station has decoded    *)
(* the character: the packet read is no error report, as Nak is no key.    *)
THEOREM ConfirmedIsHeard == Spec => Confirmed
<1> DEFINE Reads(s) == /\ wait[s] /\ ~wait'[s]
                       /\ rxFlag[s] /\ ~rxFlag'[s] /\ phase'[s] = "set"
<1>1. Typed /\ AnswersHeard /\ [Next]_vars =>
        [\A s \in Stations : Reads(s) => send[s] \in heard[Peer[s]]]_vars
  <2> SUFFICES ASSUME Typed, AnswersHeard, Next,
                      NEW s \in Stations, Reads(s)
               PROVE  send[s] \in heard[Peer[s]]
    OBVIOUS
  <2> USE DEF laser, radio, duplex, flags, history
  <2>1. PICK q \in Stations : Keyboard(q) \/ Laser(q) \/ Radio(q) \/ Loop(q)
    BY DEF Next
  <2>2. ~Keyboard(q)
    BY DEF Keyboard, Select, SetStation, Cancel, Type, Typed, TypeOK
  <2>3. ~Laser(q)
    BY DEF Laser, FrameHeard, FrameLost
  <2>4. ~Radio(q)
    BY DEF Radio, PacketArrives, PacketLost
  <2>5. ~SentConfirmed(q) /\ ~Resend(q)
    BY DEF SentConfirmed, Resend
  <2>6. Check(q)
    BY <2>1, <2>2, <2>3, <2>4, <2>5 DEF Loop, Round, Answer, CheckAfterSending
  <2>7. rxFlag[q] /\ q = s
    BY <2>6 DEF Check, ReadPacket, Typed, TypeOK
  <2>8. fifo[s] = send[s]
    BY <2>6, <2>7 DEF Check, ReadPacket, Correct
  <2>9. send[s] \in AllKeys
    BY DEF Typed, SendsKeys
  <2> QED
    BY <2>8, <2>9, Constants DEF AnswersHeard
<1>2. Typed /\ AnswersHeard /\ [Next]_vars =>
        [\A s \in Stations :
           (/\ wait[s] /\ ~wait'[s]
            /\ rxFlag[s] /\ ~rxFlag'[s] /\ phase'[s] = "set")
             => send[s] \in heard[Peer[s]]]_vars
  BY <1>1
<1> QED
  BY <1>2, TypedInvariant, AnswersInvariant, PTL DEF Spec, Confirmed

\* The stations keep their types (main.c): counting idle rounds stops short
\* of the timeout, and what is sent again is a key.
THEOREM TypeCorrect == Spec => []TypeOK
<1>1. Typed => TypeOK
  BY DEF Typed
<1> QED
  BY <1>1, TypedInvariant, PTL

-----------------------------------------------------------------------------
(* The code on the laser.  Parity is a homomorphism: that of an exclusive  *)
(* or is the exclusive or of the parities.  So what the decoder sees of a  *)
(* frame depends on the noise alone, and two flipped bits, which have two  *)
(* different columns, always show but leave the parity wrong.              *)

Bits == 0..7
Column(h) == Covers[h] \cup {h}
Syndrome(word) == {h \in 1..3 : Odd(Column(h) \cap word)}
Culprit(syndrome) ==
  CASE syndrome = {}        -> {}
    [] syndrome = {1, 2, 3} -> {7}
    [] syndrome = {2, 3}    -> {4}
    [] syndrome = {1, 3}    -> {5}
    [] syndrome = {1, 2}    -> {6}
    [] OTHER                -> syndrome

\* Every set of bits is finite.
LEMMA BitsFinite == \A S \in SUBSET Bits : IsFiniteSet(S) /\ Cardinality(S) \in Nat
<1>1. IsFiniteSet(0..7)
  <2>1. \A a, b \in Int : IsFiniteSet(a..b)
    BY FS_Interval
  <2>2. 0 \in Int /\ 7 \in Int
    OBVIOUS
  <2> QED
    BY <2>1, <2>2, Zenon
<1> QED
  BY <1>1, FS_Subset, FS_CardinalityType DEF Bits

\* The parity of an exclusive or.
LEMMA OddXor ==
  ASSUME NEW S \in SUBSET Bits, NEW T \in SUBSET Bits
  PROVE  Odd(Xor(S, T)) <=> ~(Odd(S) <=> Odd(T))
<1> DEFINE a == Cardinality(S \ T)
           b == Cardinality(T \ S)
           c == Cardinality(S \cap T)
<1>1. /\ IsFiniteSet(S) /\ IsFiniteSet(T) /\ IsFiniteSet(S \ T) /\ IsFiniteSet(T \ S)
      /\ a \in Nat /\ b \in Nat /\ c \in Nat
  BY BitsFinite
<1>2. Cardinality(S) = a + c /\ Cardinality(T) = b + c
  <2>1. /\ a = Cardinality(S) - Cardinality(S \cap T)
        /\ b = Cardinality(T) - Cardinality(T \cap S)
    BY <1>1, FS_Difference
  <2>2. Cardinality(T \cap S) = c
    <3>1. S \cap T = T \cap S
      OBVIOUS
    <3> QED
      BY <3>1
  <2>3. Cardinality(S) \in Nat /\ Cardinality(T) \in Nat
    BY BitsFinite
  <2> QED
    BY <1>1, <2>1, <2>2, <2>3
<1>3. Cardinality(Xor(S, T)) = a + b
  <2>1. (S \ T) \cap (T \ S) = {}
    OBVIOUS
  <2>2. Cardinality((S \ T) \cup (T \ S)) = a + b - Cardinality((S \ T) \cap (T \ S))
    BY <1>1, FS_Union
  <2>3. Cardinality((S \ T) \cap (T \ S)) = 0
    BY <2>1, FS_EmptySet
  <2>4. Cardinality((S \ T) \cup (T \ S)) = a + b
    BY <1>1, <2>2, <2>3
  <2> QED
    BY <2>4 DEF Xor
<1> HIDE DEF a, b, c
<1>4. (a + b) % 2 = 1 <=> ~((a + c) % 2 = 1 <=> (b + c) % 2 = 1)
  BY <1>1
<1> QED
  BY <1>2, <1>3, <1>4 DEF Odd

\* The parity of no bit, of one bit, and of one bit more.
LEMMA OddFew ==
  /\ ~Odd({})
  /\ \A a : Odd({a})
  /\ \A a \in Bits : \A S \in SUBSET Bits : a \notin S => (Odd(S \cup {a}) <=> ~Odd(S))
<1>1. ~Odd({}) /\ \A a : Odd({a})
  <2>1. Cardinality({}) = 0 /\ \A a : Cardinality({a}) = 1
    BY FS_EmptySet, FS_Singleton
  <2>2. 0 % 2 = 0 /\ 1 % 2 = 1
    OBVIOUS
  <2> QED
    BY <2>1, <2>2 DEF Odd
<1>2. ASSUME NEW a \in Bits, NEW S \in SUBSET Bits, a \notin S
      PROVE  Odd(S \cup {a}) <=> ~Odd(S)
  <2>1. Xor(S, {a}) = S \cup {a}
    BY <1>2 DEF Xor
  <2>2. {a} \in SUBSET Bits
    OBVIOUS
  <2>3. Odd(Xor(S, {a})) <=> ~(Odd(S) <=> Odd({a}))
    BY <2>2, OddXor
  <2>4. Odd({a})
    BY <1>1
  <2> QED
    BY <2>1, <2>3, <2>4
<1> QED
  BY <1>1, <1>2

\* The bits a check bit covers.
LEMMA Columns ==
  /\ Column(1) = {1, 5, 6, 7} /\ Column(2) = {2, 4, 6, 7} /\ Column(3) = {3, 4, 5, 7}
  /\ Covers[1] = {5, 6, 7} /\ Covers[2] = {4, 6, 7} /\ Covers[3] = {4, 5, 7}
BY DEF Column, Covers

\* The syndrome of an exclusive or.
LEMMA SyndromeXor ==
  ASSUME NEW S \in SUBSET Bits, NEW T \in SUBSET Bits
  PROVE  Syndrome(Xor(S, T)) = Xor(Syndrome(S), Syndrome(T))
<1>1. ASSUME NEW h \in 1..3
      PROVE  Odd(Column(h) \cap Xor(S, T))
               <=> ~(Odd(Column(h) \cap S) <=> Odd(Column(h) \cap T))
  <2>1. Column(h) \cap Xor(S, T) = Xor(Column(h) \cap S, Column(h) \cap T)
    BY DEF Xor
  <2>2. Column(h) \cap S \in SUBSET Bits /\ Column(h) \cap T \in SUBSET Bits
    OBVIOUS
  <2>3. Odd(Xor(Column(h) \cap S, Column(h) \cap T))
          <=> ~(Odd(Column(h) \cap S) <=> Odd(Column(h) \cap T))
    BY <2>2, OddXor
  <2> QED
    BY <2>1, <2>3
<1> QED
  BY <1>1 DEF Syndrome, Xor

\* The syndrome of a single bit: no two are the same.
LEMMA SyndromeOne ==
  /\ Syndrome({}) = {} /\ Syndrome({0}) = {}
  /\ Syndrome({1}) = {1} /\ Syndrome({2}) = {2} /\ Syndrome({3}) = {3}
  /\ Syndrome({4}) = {2, 3} /\ Syndrome({5}) = {1, 3} /\ Syndrome({6}) = {1, 2}
  /\ Syndrome({7}) = {1, 2, 3}
<1>1. ASSUME NEW a \in Bits
      PROVE  Syndrome({a}) = {h \in 1..3 : a \in Column(h)}
  <2>1. \A h \in 1..3 : Column(h) \cap {a} = IF a \in Column(h) THEN {a} ELSE {}
    OBVIOUS
  <2>2. \A h \in 1..3 : Odd(Column(h) \cap {a}) <=> a \in Column(h)
    BY <2>1, OddFew
  <2> QED
    BY <2>2 DEF Syndrome
<1>2. Syndrome({}) = {}
  <2>1. \A h \in 1..3 : Column(h) \cap {} = {}
    OBVIOUS
  <2> QED
    BY <2>1, OddFew DEF Syndrome
<1>3. 1..3 = {1, 2, 3} /\ \A a \in {0, 1, 2, 3, 4, 5, 6, 7} : a \in Bits
  BY DEF Bits
<1> QED
  BY <1>1, <1>2, <1>3, Columns

\* An encoded half keeps its data, has no syndrome and an even parity.
LEMMA Encoded ==
  ASSUME NEW half \in SUBSET (4..7)
  PROVE  /\ EncodeHalf(half) \in SUBSET Bits
         /\ EncodeHalf(half) \cap 4..7 = half
         /\ Syndrome(EncodeHalf(half)) = {}
         /\ ~Odd(EncodeHalf(half))
<1> DEFINE checks == {h \in 1..3 : Odd(Covers[h] \cap half)}
           word == half \cup checks
           W == EncodeHalf(half)
<1>1. W = IF Odd(word) THEN word \cup {0} ELSE word
  BY DEF EncodeHalf
<1>2. word \in SUBSET Bits /\ 0 \notin word /\ 0 \in Bits
  <2>1. checks \subseteq 1..3
    OBVIOUS
  <2> HIDE DEF checks
  <2> QED
    BY <2>1 DEF Bits
<1>3. ~Odd(W) /\ W \in SUBSET Bits
  BY <1>1, <1>2, OddFew, ZenonT(60)
<1>4. W \cap 4..7 = half
  <2>1. checks \subseteq 1..3
    OBVIOUS
  <2> HIDE DEF checks
  <2>2. \A x \in checks \cup {0} : x \notin 4..7
    BY <2>1
  <2>3. word \cap 4..7 = half /\ (word \cup {0}) \cap 4..7 = half
    BY <2>2
  <2> QED
    BY <1>1, <2>3
<1>5. ASSUME NEW h \in 1..3
      PROVE  ~Odd(Column(h) \cap W)
  <2> DEFINE D == Covers[h] \cap half
  <2>1. /\ Covers[h] \subseteq 4..7 /\ Column(h) = Covers[h] \cup {h}
        /\ D \in SUBSET Bits /\ h \in Bits /\ h \notin D
    BY DEF Column, Covers, Bits
  <2>2. CASE Odd(D)
    <3>1. Column(h) \cap W = D \cup {h}
      BY <1>1, <2>1, <2>2
    <3> HIDE DEF D
    <3> QED
      BY <2>1, <2>2, <3>1, OddFew
  <2>3. CASE ~Odd(D)
    <3>1. Column(h) \cap W = D
      BY <1>1, <2>1, <2>3
    <3> QED
      BY <2>3, <3>1
  <2> QED
    BY <2>2, <2>3
<1>6. Syndrome(W) = {}
  BY <1>5 DEF Syndrome
<1> QED
  BY <1>3, <1>4, <1>6

\* At most two bits are flipped: none, one or two different ones.
LEMMA FewFlips ==
  ASSUME Flips <= 2, NEW N \in Noise
  PROVE  \/ N = {}
         \/ \E a \in Bits : N = {a}
         \/ \E a, b \in Bits : a # b /\ N = Xor({a}, {b})
<1>1. N \in SUBSET Bits /\ Cardinality(N) <= Flips
  BY DEF Noise, Bits
<1>2. IsFiniteSet(N) /\ Cardinality(N) \in 0..2
  BY <1>1, BitsFinite, DuplexAssumption
<1>3. CASE Cardinality(N) = 0
  BY <1>2, <1>3, FS_EmptySet
<1>4. CASE Cardinality(N) = 1
  <2>1. PICK a : N = {a}
    BY <1>2, <1>4, FS_Singleton
  <2> QED
    BY <1>1, <2>1
<1>5. CASE Cardinality(N) = 2
  <2>1. PICK a \in N : TRUE
    <3>1. N # {}
      BY <1>5, FS_EmptySet
    <3> QED
      BY <3>1
  <2>2. IsFiniteSet(N \ {a}) /\ Cardinality(N \ {a}) = 1
    BY <1>2, <1>5, <2>1, FS_RemoveElement
  <2>3. PICK b : N \ {a} = {b}
    BY <2>2, FS_Singleton
  <2>4. a \in Bits /\ b \in Bits /\ a # b
    BY <1>1, <2>1, <2>3
  <2>5. N = Xor({a}, {b})
    BY <2>1, <2>3, <2>4 DEF Xor
  <2> QED
    BY <2>4, <2>5
<1>6. Cardinality(N) \in {0, 1, 2}
  BY <1>2
<1> QED
  BY <1>3, <1>4, <1>5, <1>6

\* The decoder in terms of its syndrome.
LEMMA Decoded ==
  ASSUME NEW word
  PROVE  DecodeHalf(word) =
           [half |-> Xor(word, Culprit(Syndrome(word))) \cap 4..7,
            err  |-> Odd(Xor(word, Culprit(Syndrome(word))))]
BY DEF DecodeHalf, Culprit, Syndrome, Column

\* What the decoder takes for the bit that was flipped is one bit, unless the
\* syndrome is empty, and is right when one bit was flipped.
LEMMA CulpritOne ==
  /\ Culprit({}) = {}
  /\ \A a \in 1..7 : Culprit(Syndrome({a})) = {a}
  /\ \A a, b \in Bits : a # b =>
       \E k \in Bits : Culprit(Xor(Syndrome({a}), Syndrome({b}))) = {k}
<1>1. Culprit({}) = {}
  BY DEF Culprit
<1>2. /\ Culprit({1}) = {1} /\ Culprit({2}) = {2} /\ Culprit({3}) = {3}
  BY DEF Culprit
<1>3. Culprit({2, 3}) = {4}
  <2>1. {2, 3} # {} /\ {2, 3} # {1, 2, 3}
    OBVIOUS
  <2> QED
    BY <2>1 DEF Culprit
<1>4. Culprit({1, 3}) = {5}
  <2>1. {1, 3} # {} /\ {1, 3} # {1, 2, 3} /\ {1, 3} # {2, 3}
    OBVIOUS
  <2> QED
    BY <2>1 DEF Culprit
<1>5. Culprit({1, 2}) = {6}
  <2>1. {1, 2} # {} /\ {1, 2} # {1, 2, 3} /\ {1, 2} # {2, 3} /\ {1, 2} # {1, 3}
    OBVIOUS
  <2> QED
    BY <2>1 DEF Culprit
<1>6. Culprit({1, 2, 3}) = {7}
  <2>1. {1, 2, 3} # {}
    OBVIOUS
  <2> QED
    BY <2>1 DEF Culprit
<1>7. \A a \in 1..7 : Culprit(Syndrome({a})) = {a}
  <2>1. \A a \in 1..7 : a \in {1, 2, 3, 4, 5, 6, 7}
    OBVIOUS
  <2> QED
    BY <1>2, <1>3, <1>4, <1>5, <1>6, <2>1, SyndromeOne, ZenonT(60)
<1>8. ASSUME NEW a \in Bits, NEW b \in Bits, a # b
      PROVE  \E k \in Bits : Culprit(Xor(Syndrome({a}), Syndrome({b}))) = {k}
  <2> DEFINE S == Xor(Syndrome({a}), Syndrome({b}))
  <2>1. S \in SUBSET {1, 2, 3}
    BY DEF Syndrome, Xor
  <2>2. S # {}
    <3>1. Syndrome({a}) # Syndrome({b})
      <4>1. a \in {0, 1, 2, 3, 4, 5, 6, 7} /\ b \in {0, 1, 2, 3, 4, 5, 6, 7}
        BY DEF Bits
      <4>2. /\ {} # {1} /\ {} # {2} /\ {} # {3} /\ {} # {2, 3} /\ {} # {1, 3}
            /\ {} # {1, 2} /\ {} # {1, 2, 3}
        OBVIOUS
      <4> QED
        BY <1>8, <4>1, <4>2, SyndromeOne
    <3> QED
      BY <3>1 DEF Xor
  <2> HIDE DEF S
  <2>3. S \in {{1}, {2}, {3}, {2, 3}, {1, 3}, {1, 2}, {1, 2, 3}}
    BY <2>1, <2>2
  <2>4. \E k \in {1, 2, 3, 4, 5, 6, 7} : Culprit(S) = {k}
    BY <1>2, <1>3, <1>4, <1>5, <1>6, <2>3
  <2>5. \E k \in Bits : Culprit(S) = {k}
    BY <2>4 DEF Bits
  <2> QED
    BY <2>5 DEF S
<1> QED
  BY <1>1, <1>7, <1>8

\* A half of a character is decoded to itself or refused.
LEMMA HalfDecoded ==
  ASSUME Flips <= 2, NEW half \in SUBSET (4..7), NEW N \in Noise
  PROVE  LET d == DecodeHalf(Xor(EncodeHalf(half), N))
         IN  d.err \/ d.half = half
<1> DEFINE W == EncodeHalf(half)
           R == Xor(W, N)
           C == Culprit(Syndrome(R))
           F == Xor(R, C)
<1>1. /\ W \in SUBSET Bits /\ W \cap 4..7 = half /\ Syndrome(W) = {} /\ ~Odd(W)
  BY Encoded
<1>2. N \in SUBSET Bits
  BY DEF Noise, Bits
<1>3. /\ DecodeHalf(R).err = Odd(F) /\ DecodeHalf(R).half = F \cap 4..7
  BY Decoded
<1> HIDE DEF W
<1>4. Syndrome(R) = Syndrome(N)
  <2>1. Syndrome(R) = Xor(Syndrome(W), Syndrome(N))
    BY <1>1, <1>2, SyndromeXor
  <2> QED
    BY <1>1, <2>1 DEF Xor
<1>5. R \in SUBSET Bits /\ (Odd(R) <=> Odd(N))
  <2>1. R \in SUBSET Bits
    BY <1>1, <1>2 DEF Xor
  <2> QED
    BY <1>1, <1>2, <2>1, OddXor
<1>6. CASE N = {}
  <2>1. C = {}
    BY <1>4, <1>6, SyndromeOne, CulpritOne
  <2>2. F = W
    BY <1>6, <2>1 DEF Xor
  <2> QED
    BY <1>1, <1>3, <2>2 DEF W
<1>7. ASSUME NEW a \in Bits, N = {a}
      PROVE  Odd(F) \/ F \cap 4..7 = half
  <2>1. CASE a = 0
    <3>1. C = {}
      BY <1>4, <1>7, <2>1, SyndromeOne, CulpritOne
    <3>2. F \cap 4..7 = W \cap 4..7
      BY <1>7, <2>1, <3>1 DEF Xor
    <3> QED
      BY <1>1, <3>2
  <2>2. CASE a # 0
    <3>1. C = {a}
      <4>1. a \in 1..7
        BY <2>2 DEF Bits
      <4> QED
        BY <1>4, <1>7, <4>1, CulpritOne
    <3>2. F = W
      BY <1>7, <3>1 DEF Xor
    <3> QED
      BY <1>1, <3>2
  <2> QED
    BY <2>1, <2>2
<1>8. ASSUME NEW a \in Bits, NEW b \in Bits, a # b, N = Xor({a}, {b})
      PROVE  Odd(F)
  <2>1. {a} \in SUBSET Bits /\ {b} \in SUBSET Bits
    OBVIOUS
  <2>2. ~Odd(N)
    <3>1. Odd(Xor({a}, {b})) <=> ~(Odd({a}) <=> Odd({b}))
      BY <2>1, OddXor
    <3> QED
      BY <1>8, <3>1, OddFew
  <2>3. Syndrome(N) = Xor(Syndrome({a}), Syndrome({b}))
    BY <1>8, <2>1, SyndromeXor
  <2>4. PICK k \in Bits : C = {k}
    BY <1>4, <1>8, <2>3, CulpritOne
  <2>5. Odd(C) /\ C \in SUBSET Bits
    BY <2>4, OddFew
  <2> HIDE DEF R, C
  <2>6. Odd(Xor(R, C)) <=> ~(Odd(R) <=> Odd(C))
    BY <1>5, <2>5, OddXor
  <2> QED
    BY <1>5, <2>2, <2>5, <2>6
<1>9. Odd(F) \/ F \cap 4..7 = half
  <2>1. CASE N = {}
    BY <1>3, <1>6, <2>1 DEF W
  <2>2. CASE \E a \in Bits : N = {a}
    <3> HIDE DEF F
    <3> QED
      BY <1>7, <2>2
  <2>3. CASE \E a, b \in Bits : a # b /\ N = Xor({a}, {b})
    <3> HIDE DEF F
    <3> QED
      BY <1>8, <2>3
  <2> QED
    BY <2>1, <2>2, <2>3, FewFlips
<1> QED
  BY <1>3, <1>9 DEF W

\* With two flipped bits at most in each half of the frame, a key is decoded
\* to itself or refused.
LEMMA HeardKeys ==
  ASSUME Flips <= 2
  PROVE  \A c \in AllKeys : Heard[c] \subseteq {c, Err}
<1> SUFFICES ASSUME NEW c \in AllKeys, NEW w \in Heard[c]
             PROVE  w \in {c, Err}
  OBVIOUS
<1>1. PICK l \in Noise, u \in Noise :
        w = Decode(<<Xor(Encode(c)[1], l), Xor(Encode(c)[2], u)>>)
  BY DEF Heard
<1> DEFINE low == {4 + i : i \in c \cap 0..3}
           lower == DecodeHalf(Xor(EncodeHalf(low), l))
           upper == DecodeHalf(Xor(EncodeHalf(c \cap 4..7), u))
<1>2. c \subseteq 0..7
  BY Constants DEF Chars
<1>3. low \in SUBSET (4..7) /\ c \cap 4..7 \in SUBSET (4..7)
  OBVIOUS
<1>4. (lower.err \/ lower.half = low) /\ (upper.err \/ upper.half = c \cap 4..7)
  BY <1>3, HalfDecoded
<1>5. Encode(c) = <<EncodeHalf(low), EncodeHalf(c \cap 4..7)>>
  BY DEF Encode
<1>6. w = IF lower.err \/ upper.err THEN Err
          ELSE {i - 4 : i \in lower.half} \cup upper.half
  <2>1. w = Decode(<<Xor(EncodeHalf(low), l), Xor(EncodeHalf(c \cap 4..7), u)>>)
    BY <1>1, <1>5
  <2> QED
    BY <2>1 DEF Decode
<1> HIDE DEF lower, upper
<1>7. {i - 4 : i \in low} \cup (c \cap 4..7) = c
  <2>1. ASSUME NEW x \in {i - 4 : i \in low} PROVE x \in c \cap 0..3
    <3>1. PICK j \in c \cap 0..3 : x = (4 + j) - 4
      OBVIOUS
    <3>2. (4 + j) - 4 = j
      BY <3>1
    <3> QED
      BY <3>1, <3>2
  <2>2. ASSUME NEW x \in c \cap 0..3 PROVE x \in {i - 4 : i \in low}
    <3>1. 4 + x \in low /\ (4 + x) - 4 = x
      BY <2>2
    <3> QED
      BY <3>1
  <2>3. {i - 4 : i \in low} = c \cap 0..3
    BY <2>1, <2>2
  <2>4. \A x \in 0..7 : x \in 0..3 \/ x \in 4..7
    OBVIOUS
  <2> QED
    BY <1>2, <2>3, <2>4
<1> QED
  BY <1>4, <1>6, <1>7

-----------------------------------------------------------------------------
(* What is on the laser was typed at the station that sends it.            *)
LaserTyped ==
  \A s \in Stations : /\ laserTX[s] \in typed[s] \cup {None}
                      /\ laserRX[s] \in typed[Peer[s]] \cup {None, Err}
                      /\ wait[s] => send[s] \in typed[s]
                      /\ heard[s] \subseteq typed[Peer[s]]

\* A look at RX_DR_INTRPT starts no wait.
LEMMA CheckWaits ==
  ASSUME TypeOK, NEW s \in Stations, Check(s)
  PROVE  /\ \A q \in Stations : wait'[q] => wait[q]
         /\ UNCHANGED <<send, laserRX, heard>>
<1>1. ASSUME NEW w \in BOOLEAN, NEW t, w => wait[s], CountRound(s, w, t)
      PROVE  \A q \in Stations : wait'[q] => wait[q]
  <2>1. wait' = [wait EXCEPT ![s] = w /\ t + 1 # MaxTimeout]
    BY <1>1 DEF CountRound
  <2> QED
    BY <1>1, <2>1 DEF TypeOK
<1>2. CountRound(s, FALSE, 0) => \A q \in Stations : wait'[q] => wait[q]
  BY <1>1
<1>3. CountRound(s, wait[s], timeout[s]) => \A q \in Stations : wait'[q] => wait[q]
  <2>1. wait[s] \in BOOLEAN
    BY DEF TypeOK
  <2> QED
    BY <1>1, <2>1
<1> QED
  BY <1>2, <1>3 DEF Check, ReadPacket

\* Every step keeps what is on the laser typed.
LEMMA LaserStep ==
  ASSUME Flips <= 2, Typed, LaserTyped, [Next]_vars
  PROVE  LaserTyped'
<1> USE Constants DEF Typed, TypeOK, LaserTyped, laser, radio, duplex, flags, history
<1>1. ASSUME NEW s \in Stations, Keyboard(s)
      PROVE  LaserTyped'
  <2>1. CASE Select(s) \/ SetStation(s) \/ Cancel(s)
    BY <2>1 DEF Select, SetStation, Cancel
  <2>2. ASSUME NEW c \in Keys[s], Type(s, c) PROVE LaserTyped'
    <3>1. /\ laserTX' = [laserTX EXCEPT ![s] = c] /\ send' = [send EXCEPT ![s] = c]
          /\ wait' = [wait EXCEPT ![s] = TRUE]
          /\ typed' = [typed EXCEPT ![s] = typed[s] \cup {c}]
          /\ UNCHANGED <<laserRX, heard>>
      BY <2>2 DEF Type
    <3> QED
      BY <3>1
  <2> QED
    BY <1>1, <2>1, <2>2 DEF Keyboard
<1>2. ASSUME NEW s \in Stations, Laser(s)
      PROVE  LaserTyped'
  <2>1. CASE FrameHeard(s)
    <3>1. laserTX[s] \in AllKeys /\ laserTX[s] \in typed[s]
      BY <2>1 DEF FrameHeard
    <3>2. PICK w \in Heard[laserTX[s]] : laserRX' = [laserRX EXCEPT ![Peer[s]] = w]
      BY <2>1 DEF FrameHeard
    <3>3. w \in {laserTX[s], Err}
      BY <3>1, <3>2, HeardKeys
    <3>4. laserTX' = [laserTX EXCEPT ![s] = None] /\ UNCHANGED <<send, wait, typed, heard>>
      BY <2>1 DEF FrameHeard
    <3> QED
      BY <3>1, <3>2, <3>3, <3>4
  <2>2. CASE FrameLost(s)
    BY <2>2 DEF FrameLost
  <2> QED
    BY <1>2, <2>1, <2>2 DEF Laser
<1>3. ASSUME NEW s \in Stations, Radio(s)
      PROVE  LaserTyped'
  BY <1>3 DEF Radio, PacketArrives, PacketLost, Transmitted
<1>4. ASSUME NEW s \in Stations, Loop(s)
      PROVE  LaserTyped'
  <2>1. CASE Round(s) /\ laserRX[s] # None
    BY <2>1 DEF Round, Answer
  <2>2. CASE Check(s) /\ UNCHANGED <<laserTX, typed>>
    BY <2>2, CheckWaits
  <2>3. CASE SentConfirmed(s)
    BY <2>3 DEF SentConfirmed
  <2>4. CASE Resend(s)
    <3>1. wait[s] /\ laserTX' = [laserTX EXCEPT ![s] = send[s]]
      BY <2>4 DEF Resend, SendsKeys
    <3>2. \A q \in Stations : wait'[q] => wait[q]
      BY <2>4, <3>1 DEF Resend, CountRound
    <3>3. UNCHANGED <<send, laserRX, typed, heard>>
      BY <2>4 DEF Resend
    <3> QED
      BY <3>1, <3>2, <3>3
  <2> QED
    BY <1>4, <2>1, <2>2, <2>3, <2>4 DEF Loop, Round, CheckAfterSending
<1>5. CASE UNCHANGED vars
  BY <1>5 DEF vars
<1> QED
  BY <1>1, <1>2, <1>3, <1>4, <1>5 DEF Next

\* With up to two flipped bits in each half of a frame a station hears only
\* what was typed at the other (hamming_hbyte_error_decoder): the syndrome
\* then points at some bit, and the parity tells two errors from one.
THEOREM HeardIsTyped == ASSUME Flips <= 2 PROVE Spec => []HeardWasTyped
<1>1. Init => LaserTyped
  BY DEF Init, LaserTyped
<1>2. Typed /\ LaserTyped /\ [Next]_vars => LaserTyped'
  BY LaserStep
<1>3. LaserTyped => HeardWasTyped
  BY DEF LaserTyped, HeardWasTyped
<1> QED
  BY <1>1, <1>2, <1>3, TypedInvariant, PTL DEF Spec
=============================================================================
