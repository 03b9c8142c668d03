------------------------------ MODULE FrameGate ------------------------------
(***************************************************************************)
(* The gate in front of the frame queue: check_frame (sdk/basepush.cpp),   *)
(* which SendPacket calls for every packet that is not encrypted.  It looks*)
(* for a start code, reads the type of the first unit, decides whether the *)
(* packet is a key frame, and after a packet without a start code refuses  *)
(* video until a parameter set or an IDR picture comes.                    *)
(*                                                                         *)
(* A packet is the bytes check_frame reads: those up to the unit header.   *)
(* All calls hold the manager's lock, so a call is one action.  The gate   *)
(* has decided before the push: a unit the full queue refuses opens no gap,*)
(* and closes one.  So does a parameter set without a picture: that what   *)
(* follows can be decoded is not promised, and no property here says it.   *)
(***************************************************************************)
EXTENDS Naturals, Sequences, SequencesExt

CONSTANTS Bytes,    \* the values of a unit header
          Packets   \* the first bytes of the packets the application sends

ASSUME BytesAssumption   == Bytes \subseteq Nat
ASSUME PacketsAssumption == Packets \subseteq Seq(Nat)

VARIABLES codec,           \* what the application sends: "H264" or "H265"
          m_bDisContinue,
          last             \* the last call: what was sent and its outcome

vars == <<codec, m_bDisContinue, last>>

-----------------------------------------------------------------------------
\* The bytes the scan runs over.  For an empty packet nSize - 1 wraps, and they
\* are whatever lies in memory where the packet would.
Scanned(p) == IF p = <<>> THEN Packets \ {<<>>} ELSE {p}

\* The scan stops at the first byte that is not 0, or at the last byte.
LeadingZeros(p) == LET n == SelectInSeq(p, LAMBDA b : b # 0)
                   IN  (IF n = 0 THEN Len(p) ELSE n) - 1

\* mutant: only the long start code is accepted
LongCodeOnly(p) == LeadingZeros(p) = 3 /\ p[LeadingZeros(p) + 1] = 1

StartCode(p) == LeadingZeros(p) \in {2, 3} /\ p[LeadingZeros(p) + 1] = 1

\* pData[i + 1], which is past the end of a packet that is all start code or
\* all zeros: then it can be anything.
HeaderOf(p) == LET i == LeadingZeros(p)
               IN  IF i + 2 <= Len(p) THEN {p[i + 2]} ELSE Bytes

\* & 0x1f for H264.  For HEVC it is & 0x7e >> 1, and >> binds first: & 0x3f.
UnitType(b) == IF codec = "H264" THEN b % 32 ELSE b % 64

\* mutant: the parameter sets do not end the gap
OnlyIdrEndsGap(b) == UnitType(b) = 5

EndsGap(b) == UnitType(b) \in (IF codec = "H264" THEN {5, 7, 8} ELSE {32, 33, 34})

\* mutant: the type is kept where the flag should be
KeyFrameIsType(b, key) == UnitType(b)

\* The key-frame flag the packet leaves with, key being the application's.
KeyFrame(b, key) == CASE codec = "H264" -> IF UnitType(b) = 5 THEN 1 ELSE 0
                      [] codec = "H265" -> IF UnitType(b) \in 15 .. 21 THEN 1 ELSE key

\* What the standards say: the type of a unit, and the two start codes.
TrueType(b) == IF codec = "H264" THEN b % 32 ELSE (b \div 2) % 64
TrueStart(p) == IsPrefix(<<0, 0, 1>>, p) \/ IsPrefix(<<0, 0, 0, 1>>, p)

-----------------------------------------------------------------------------
Nothing == [kind |-> "none", start |-> FALSE, unit |-> 0, key |-> 0, outcome |-> "none"]

Init == /\ codec \in {"H264", "H265"}
        /\ m_bDisContinue = FALSE
        /\ last = Nothing

Called(kind, p, b, key, outcome) ==
  last' = [kind |-> kind, start |-> TrueStart(p), unit |-> b, key |-> key,
           outcome |-> outcome]

NoStartCode(p, b, key) == /\ ~StartCode(p)
                          /\ m_bDisContinue' = TRUE
                          /\ Called("video", p, b, key, "refused")

InGap(p, b, key) == /\ StartCode(p) /\ m_bDisContinue /\ ~EndsGap(b)
                    /\ Called("video", p, b, KeyFrame(b, key), "refused")
                    /\ UNCHANGED m_bDisContinue

\* What has passed goes on to the queue, which takes it or is full.
Passed == {"queued", "full"}

Pass(p, b, key) == /\ StartCode(p) /\ (m_bDisContinue => EndsGap(b))
                   /\ m_bDisContinue' = FALSE
                   /\ \E outcome \in Passed :
                        Called("video", p, b, KeyFrame(b, key), outcome)

SendVideo(p, key) == /\ \E q \in Scanned(p) : \E b \in HeaderOf(q) :
                          NoStartCode(q, b, key) \/ InGap(q, b, key) \/ Pass(q, b, key)
                     /\ UNCHANGED codec

\* Only the first byte of an ADTS header is tested, in a gap or not.
SendAudio(b) == /\ \E outcome \in IF b = 255 THEN Passed ELSE {"refused"} :
                     Called("audio", <<b>>, b, 0, outcome)
                /\ UNCHANGED <<codec, m_bDisContinue>>

\* SendPacket leaves for SendEncryptPacket before the gate, so the branch of
\* check_frame that would end the gap at an encrypted key frame never runs.
SendEncrypted(p, key) == /\ \E outcome \in Passed :
                              Called("encrypted", p, 0, key, outcome)
                         /\ UNCHANGED <<codec, m_bDisContinue>>

Next == \/ \E p \in Packets, key \in {0, 1} : SendVideo(p, key) \/ SendEncrypted(p, key)
        \/ \E b \in Bytes : SendAudio(b)

Spec == Init /\ [][Next]_vars

-----------------------------------------------------------------------------
(* What is checked.                                                        *)

TypeOK == /\ codec \in {"H264", "H265"}
          /\ m_bDisContinue \in BOOLEAN
          /\ last.kind \in {"none", "video", "audio", "encrypted"}
          /\ last.outcome \in {"none", "queued", "full", "refused"}
          /\ last.key \in {0, 1}

\* Outside a gap a packet is refused exactly when it begins with none of the two
\* start codes: after a longer run of zeros, or zeros to its end.
CodesAreStandard ==
  [][ last'.kind = "video" /\ ~m_bDisContinue
        => (last'.outcome = "refused" <=> ~last'.start) ]_vars

\* "if sps pps, idr come" (basepush.cpp:1697): an H264 parameter set or IDR
\* picture behind a start code is not refused, in a gap or not, and no gap is
\* left behind it.
SpsPpsIdrPass ==
  [][ codec = "H264" /\ last'.kind = "video" /\ last'.start
        /\ TrueType(last'.unit) \in {5, 7, 8}
      => last'.outcome # "refused" /\ ~m_bDisContinue' ]_vars

\* "if sps pps, idr come" (basepush.cpp:1737): what the code says of HEVC too.
\* It does not hold: the type is read without the shift.
HevcParameterSetEndsGap ==
  codec = "H265" /\ last.kind = "video" /\ last.start
    /\ TrueType(last.unit) \in {32, 33, 34}
  => last.outcome # "refused" /\ ~m_bDisContinue
=============================================================================
