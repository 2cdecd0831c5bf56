------------------------------- MODULE Duplex -------------------------------
(***************************************************************************)
(* The duplex mode of Embedded/ARM/Project 1: two stations send typed      *)
(* characters to each other by laser, one Hamming coded frame at a time,   *)
(* and each answers what it heard by radio.  The main loop of main.c polls *)
(* flags that the laser timers and the radio's interrupt line set.         *)
(*                                                                         *)
(* A character is the set of its one bits.  Enter, which ends a packet in  *)
(* rf_packet_data_load, is not typed here, nor are the other modes used.   *)
(***************************************************************************)
EXTENDS Naturals, FiniteSets

CONSTANTS Stations, Peer,  \* the stations and the one each is pointed at
          Keys,            \* characters the user of each station types
          Cancels,         \* bound: the stations whose users cancel
          MaxTimeout,      \* idle rounds before a response is given up (700)
          Flips,           \* bits of each half of a frame that noise may flip
          None, Err    \* no frame or packet; a frame with a decoding error

Chars == SUBSET (0..7)
Nak   == {0, 2, 4}         \* (char)21
Enter == {0, 2, 3}         \* '\r'
Nul   == {}

ASSUME DuplexAssumption ==
  /\ Peer \in [Stations -> Stations]
  /\ \A s \in Stations : Peer[s] # s /\ Peer[Peer[s]] = s
  /\ Keys \in [Stations -> SUBSET (Chars \ {Nak, Enter, Nul})]
  /\ Cancels \subseteq Stations
  /\ MaxTimeout \in Nat \ {0} /\ Flips \in Nat
  /\ None # Err /\ \A c \in Chars : c # None /\ c # Err

-----------------------------------------------------------------------------
(* The code on the laser: each half of a character becomes the parity bit, *)
(* three check bits and four data bits, at positions 0, 1..3 and 4..7.     *)

Odd(S)    == Cardinality(S) % 2 = 1
Xor(S, T) == (S \ T) \cup (T \ S)

\* h0, h1 and h2 with the data bits each of them covers
Covers == [h \in 1..3 |-> {4, 5, 6, 7} \ {3 + h}]

\* hamming_hbyte_encoder
EncodeHalf(half) ==
  LET word == half \cup {h \in 1..3 : Odd(Covers[h] \cap half)}
  IN  IF Odd(word) THEN word \cup {0} ELSE word

\* hamming_byte_encoder
Encode(c) ==
  << EncodeHalf({4 + i : i \in c \cap 0..3}), EncodeHalf(c \cap 4..7) >>

\* hamming_hbyte_error_decoder: flip the bit the syndrome points at, if any;
\* an error unless the parity bit then fits.
DecodeHalf(word) ==
  LET syndrome == {h \in 1..3 : Odd((Covers[h] \cup {h}) \cap word)}
      culprit  == CASE syndrome = {}        -> {}
                    [] syndrome = {1, 2, 3} -> {7}
                    [] syndrome = {2, 3}    -> {4}
                    [] syndrome = {1, 3}    -> {5}
                    [] syndrome = {1, 2}    -> {6}
                    [] OTHER                -> syndrome
      fixed    == Xor(word, culprit)
  IN  [half |-> fixed \cap 4..7, err |-> Odd(fixed)]

\* duplex_laser_decode_packet with DECODE_ERR: the character, or Err
DecodeLower(frame) ==
  LET lower == DecodeHalf(frame[1])
      upper == DecodeHalf(frame[2])
  IN  IF lower.err THEN Err ELSE {i - 4 : i \in lower.half} \cup upper.half
Decode(frame) ==
  LET lower == DecodeHalf(frame[1])
      upper == DecodeHalf(frame[2])
  IN  IF lower.err \/ upper.err THEN Err
      ELSE {i - 4 : i \in lower.half} \cup upper.half

AllKeys == UNION {Keys[s] : s \in Stations}

Noise == {N \in SUBSET (0..7) : Cardinality(N) <= Flips}

\* What a frame with the character may be decoded as.
Heard == [c \in AllKeys |->
            {Decode(<<Xor(Encode(c)[1], l), Xor(Encode(c)[2], u)>>) :
               l \in Noise, u \in Noise}]

-----------------------------------------------------------------------------
VARIABLES
  phase,    \* system_mode and STATION_SET: "off", "mode" or "set"
  pc,       \* the main loop: "loop", "txwait", "check" or "resend"
  send,     \* duplex_send_char
  wait,     \* RESPONSE_WAIT
  timeout,
  laserTX,  \* the character being sent by laser; None is LASER_TX_TR
  laserRX,  \* what the frame behind LASER_RX_DR decodes to; None without
  echo,     \* the packet in the radio that is to be sent
  fifo,     \* first payload in the radio's receive queue, RX_DR of its STATUS
  sent,     \* TX_DS of its STATUS
  rxFlag,   \* RX_DR_INTRPT
  txFlag,   \* TX_DS_INTRPT
  typed,    \* history: the characters the user has sent
  heard     \* history: the characters decoded here

laser == <<laserTX, laserRX>>
radio == <<echo, fifo, sent>>
duplex == <<send, wait, timeout>>
flags == <<rxFlag, txFlag>>
history == <<typed, heard>>
vars == <<phase, pc, duplex, laser, radio, flags, history>>

\* The variables have their types; idle rounds stay below the timeout.
TypeOK ==
  /\ phase \in [Stations -> {"off", "mode", "set"}]
  /\ pc \in [Stations -> {"loop", "txwait", "check", "resend"}]
  /\ send \in [Stations -> AllKeys \cup {Nul}]
  /\ wait \in [Stations -> BOOLEAN]
  /\ timeout \in [Stations -> 0..MaxTimeout - 1]
  /\ laserTX \in [Stations -> AllKeys \cup {None}]
  /\ laserRX \in [Stations -> {None, Err} \cup Chars]
  /\ echo \in [Stations -> {None} \cup Chars]
  /\ fifo \in [Stations -> {None} \cup Chars]
  /\ sent \in [Stations -> BOOLEAN]
  /\ rxFlag \in [Stations -> BOOLEAN]
  /\ txFlag \in [Stations -> BOOLEAN]
  /\ typed \in [Stations -> SUBSET AllKeys]
  /\ heard \in [Stations -> SUBSET Chars]

Init ==
  /\ phase = [s \in Stations |-> "off"]
  /\ pc = [s \in Stations |-> "loop"]
  /\ send = [s \in Stations |-> Nul]
  /\ wait = [s \in Stations |-> FALSE]
  /\ timeout = [s \in Stations |-> 0]
  /\ laserTX = [s \in Stations |-> None]
  /\ laserRX = [s \in Stations |-> None]
  /\ echo = [s \in Stations |-> None]
  /\ fifo = [s \in Stations |-> None]
  /\ sent = [s \in Stations |-> FALSE]
  /\ rxFlag = [s \in Stations |-> FALSE]
  /\ txFlag = [s \in Stations |-> FALSE]
  /\ typed = [s \in Stations |-> {}]
  /\ heard = [s \in Stations |-> {}]

-----------------------------------------------------------------------------
(* The keyboard.  The main loop looks at it first in every round.          *)

\* '4' after a cancel: the laser flags are set, the radio is not yet.
Select(s) ==
  /\ pc[s] = "loop" /\ phase[s] = "off"
  /\ phase' = [phase EXCEPT ![s] = "mode"]
  /\ UNCHANGED <<pc, duplex, laser, radio, flags, history>>

\* rf_init_station, up to the last digit of RX_ADDR
SetStation(s) ==
  /\ pc[s] = "loop" /\ phase[s] = "mode"
  /\ phase' = [phase EXCEPT ![s] = "set"]
  /\ UNCHANGED <<pc, duplex, laser, radio, flags, history>>

\* (char)24.  The radio keeps what it received; timeout is not reset.
Cancel(s) ==
  /\ s \in Cancels
  /\ pc[s] = "loop" /\ phase[s] # "off"
  /\ phase' = [phase EXCEPT ![s] = "off"]
  /\ wait' = [wait EXCEPT ![s] = FALSE]
  /\ laserTX' = [laserTX EXCEPT ![s] = None]
  /\ laserRX' = [laserRX EXCEPT ![s] = None]
  /\ rxFlag' = [rxFlag EXCEPT ![s] = FALSE]
  /\ txFlag' = [txFlag EXCEPT ![s] = FALSE]
  /\ UNCHANGED <<pc, send, timeout, radio, history>>

\* A character while a response is awaited is dropped.  Spinning on
\* LASER_TX_TR here is the same as the key coming later.
Type(s, c) ==
  /\ pc[s] = "loop" /\ phase[s] = "set"
  /\ ~wait[s] /\ laserTX[s] = None
  /\ laserTX' = [laserTX EXCEPT ![s] = c]
  /\ send' = [send EXCEPT ![s] = c]
  /\ wait' = [wait EXCEPT ![s] = TRUE]
  /\ typed' = [typed EXCEPT ![s] = @ \cup {c}]
  /\ UNCHANGED <<phase, pc, timeout, laserRX, radio, flags, heard>>

-----------------------------------------------------------------------------
(* The laser: the end of a frame, by TIM5 at the sender and TIM3 at the    *)
(* receiver.                                                               *)

FrameHeard(s) ==
  /\ laserTX[s] # None
  /\ phase[Peer[s]] # "off" /\ laserRX[Peer[s]] = None
  /\ \E w \in Heard[laserTX[s]] : laserRX' = [laserRX EXCEPT ![Peer[s]] = w]
  /\ laserTX' = [laserTX EXCEPT ![s] = None]
  /\ UNCHANGED <<phase, pc, duplex, radio, flags, history>>

\* The receiver was off or busy, or lost the pulses and started over.
FrameLost(s) ==
  /\ laserTX[s] # None
  /\ laserTX' = [laserTX EXCEPT ![s] = None]
  /\ UNCHANGED <<phase, pc, duplex, laserRX, radio, flags, history>>

-----------------------------------------------------------------------------
(* The radio.  Its interrupt line is low while RX_DR or TX_DS is set, and  *)
(* the station's handler runs when the line falls: once, whatever is set   *)
(* later.                                                                  *)

LineHigh(s) == fifo[s] = None /\ ~sent[s]

\* rf_mode is TX_MODE only while a packet is being sent.
Transmitted(s) ==
  /\ pc[s] = "txwait" /\ ~sent[s]
  /\ echo' = [echo EXCEPT ![s] = None]
  /\ sent' = [sent EXCEPT ![s] = TRUE]
  /\ txFlag' = [txFlag EXCEPT ![s] = LineHigh(s)]

Listening(s) == pc[s] # "txwait"

PacketArrives(s) ==
  LET p == Peer[s] IN
  /\ Transmitted(s)
  /\ Listening(p)
  /\ IF LineHigh(p)
       THEN /\ fifo' = [fifo EXCEPT ![p] = echo[s]]
            /\ rxFlag' = [rxFlag EXCEPT ![p] = phase[p] = "set"]
       ELSE UNCHANGED <<fifo, rxFlag>>   \* flushed unread, behind the first
  /\ UNCHANGED <<phase, pc, duplex, laser, history>>

PacketLost(s) ==
  /\ Transmitted(s)
  /\ UNCHANGED <<phase, pc, duplex, laser, fifo, rxFlag, history>>

-----------------------------------------------------------------------------
(* The main loop without a key.                                            *)

\* A frame is decoded and the radio sends what was heard.
Answer(s) ==
  /\ laserRX' = [laserRX EXCEPT ![s] = None]
  /\ echo' = [echo EXCEPT ![s] = IF laserRX[s] = Err THEN Nak ELSE laserRX[s]]
  /\ heard' = [heard EXCEPT ![s] = @ \cup ({laserRX[s]} \ {Err})]
  /\ pc' = [pc EXCEPT ![s] = "txwait"]
  /\ UNCHANGED <<duplex, fifo, rxFlag>>

\* The end of a round: RESPONSE_WAIT being w, and timeout t, another idle
\* round is counted.
CountRound(s, w, t) ==
  /\ wait' = [wait EXCEPT ![s] = w /\ t + 1 # MaxTimeout]
  /\ timeout' = [timeout EXCEPT ![s] = IF w THEN (t + 1) % MaxTimeout ELSE t]

\* Is the packet the answer to what was sent?
CorrectAny(s) == fifo[s] # Nul
Correct(s) == fifo[s] = send[s]

\* A packet is read, the queue flushed and RX_DR cleared.
ReadPacket(s) ==
  /\ rxFlag' = [rxFlag EXCEPT ![s] = FALSE]
  /\ fifo' = [fifo EXCEPT ![s] = None]
  /\ IF Correct(s)
       THEN /\ CountRound(s, FALSE, 0)
            /\ pc' = [pc EXCEPT ![s] = "loop"]
       ELSE /\ pc' = [pc EXCEPT ![s] = IF wait[s] THEN "resend" ELSE "loop"]
            /\ UNCHANGED <<wait, timeout>>

\* The rest of a round, from the look at RX_DR_INTRPT
Check(s) ==
  /\ IF rxFlag[s]
       THEN ReadPacket(s)
       ELSE /\ CountRound(s, wait[s], timeout[s])
            /\ pc' = [pc EXCEPT ![s] = "loop"]
            /\ UNCHANGED <<fifo, rxFlag>>
  /\ UNCHANGED <<send, laserRX, echo, heard>>

Round(s) ==
  /\ pc[s] = "loop" /\ phase[s] = "set"
  /\ IF laserRX[s] # None THEN Answer(s) ELSE Check(s)
  /\ UNCHANGED <<phase, laserTX, sent, txFlag, typed>>

\* TX_DS_INTRPT seen: back to receiving
SentConfirmedUncleared(s) ==
  /\ pc[s] = "txwait" /\ txFlag[s]
  /\ txFlag' = [txFlag EXCEPT ![s] = FALSE]
  /\ pc' = [pc EXCEPT ![s] = "check"]
  /\ UNCHANGED <<phase, duplex, laser, radio, rxFlag, history>>
SentConfirmed(s) ==
  /\ pc[s] = "txwait" /\ txFlag[s]
  /\ txFlag' = [txFlag EXCEPT ![s] = FALSE]
  /\ sent' = [sent EXCEPT ![s] = FALSE]
  /\ pc' = [pc EXCEPT ![s] = "check"]
  /\ UNCHANGED <<phase, duplex, laser, echo, fifo, rxFlag, history>>

CheckAfterSending(s) ==
  /\ pc[s] = "check"
  /\ Check(s)
  /\ UNCHANGED <<phase, laserTX, sent, txFlag, typed>>

\* Incorrect response: again, once LASER_TX_TR is set
ResendAnew(s) ==
  /\ pc[s] = "resend" /\ laserTX[s] = None
  /\ laserTX' = [laserTX EXCEPT ![s] = send[s]]
  /\ CountRound(s, TRUE, 0)
  /\ pc' = [pc EXCEPT ![s] = "loop"]
  /\ UNCHANGED <<phase, send, laserRX, radio, flags, history>>
Resend(s) ==
  /\ pc[s] = "resend" /\ laserTX[s] = None
  /\ laserTX' = [laserTX EXCEPT ![s] = send[s]]
  /\ CountRound(s, TRUE, timeout[s])
  /\ pc' = [pc EXCEPT ![s] = "loop"]
  /\ UNCHANGED <<phase, send, laserRX, radio, flags, history>>

-----------------------------------------------------------------------------
Keyboard(s) ==
  Select(s) \/ SetStation(s) \/ Cancel(s) \/ \E c \in Keys[s] : Type(s, c)
Laser(s)    == FrameHeard(s) \/ FrameLost(s)
Radio(s)    == PacketArrives(s) \/ PacketLost(s)
Loop(s)     == Round(s) \/ SentConfirmed(s) \/ CheckAfterSending(s) \/ Resend(s)

Next == \E s \in Stations : Keyboard(s) \/ Laser(s) \/ Radio(s) \/ Loop(s)

Spec == Init /\ [][Next]_vars

\* The loop and the devices go on; the users may stop.
FairSpec ==
  Spec /\ \A s \in Stations :
            WF_vars(Loop(s)) /\ WF_vars(Laser(s)) /\ WF_vars(Radio(s))

-----------------------------------------------------------------------------
(* A station hears only what was typed at the other: two flipped bits in   *)
(* each half of a frame never pass for another character.                  *)
HeardWasTyped == \A s \in Stations : heard[s] \subseteq typed[Peer[s]]

(* "Correct RF duplex response" (main.c:555) is true: when a matching      *)
(* answer ends the wait, the other station has decoded the character.      *)
Confirmed ==
  [][\A s \in Stations :
       (/\ wait[s] /\ ~wait'[s]
        /\ rxFlag[s] /\ ~rxFlag'[s] /\ phase'[s] = "set")
         => send[s] \in heard[Peer[s]]]_vars

(* Why a station may wait for TX_DS_INTRPT for ever (main.c:531): only if  *)
(* a packet it has not read was holding the interrupt line down.           *)
Stuck(s) == pc[s] = "txwait" /\ sent[s] /\ ~txFlag[s]
StuckHasPacket == \A s \in Stations : Stuck(s) => fifo[s] # None

(* RESPONSE_WAIT ends: by an answer, by the timeout, which retransmissions *)
(* do not put off, or by a cancel, unless the station is stuck.            *)
WaitEnds == \A s \in Stations : wait[s] ~> (~wait[s] \/ Stuck(s))

(* After sending its answer a station is "switching back to receiving"     *)
(* (main.c:541).                                                           *)
BackToReceiving == \A s \in Stations : pc[s] = "txwait" ~> Listening(s)
=============================================================================
