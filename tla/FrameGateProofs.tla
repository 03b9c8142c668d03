--------------------------- MODULE FrameGateProofs ---------------------------
(***************************************************************************)
(* For both codecs and packets of any length, the scan for a start code    *)
(* finds what the standards call one; so nothing else is refused outside a *)
(* gap, and no H264 parameter set or IDR picture is, in a gap or not.  The *)
(* last is not so for HEVC, whose types are misread.                       *)
(***************************************************************************)
EXTENDS FrameGate, SequenceTheorems, WellFoundedInduction, TLAPS

LEMMA KeyFrameIsFlag ==
  ASSUME codec \in {"H264", "H265"}, NEW b, NEW key \in {0, 1}
  PROVE  KeyFrame(b, key) \in {0, 1}
BY DEF KeyFrame

\* The types, from which nothing else is needed than the outcomes' names.
THEOREM TypeCorrect == Spec => []TypeOK
<1>1. Init => TypeOK
  <2> SUFFICES ASSUME Init PROVE TypeOK
    OBVIOUS
  <2>1. m_bDisContinue \in BOOLEAN
    BY Zenon DEF Init
  <2>2. last.kind = "none" /\ last.outcome = "none" /\ last.key = 0
    BY DEF Init, Nothing
  <2> QED
    BY <2>1, <2>2 DEF Init, TypeOK
<1>2. TypeOK /\ [Next]_vars => TypeOK'
  <2> SUFFICES ASSUME TypeOK, [Next]_vars PROVE TypeOK'
    OBVIOUS
  <2>1. ASSUME NEW p \in Packets, NEW key \in {0, 1}, SendVideo(p, key) PROVE TypeOK'
    <3> PICK q \in Scanned(p) : \E b \in HeaderOf(q) :
               NoStartCode(q, b, key) \/ InGap(q, b, key) \/ Pass(q, b, key)
      BY <2>1 DEF SendVideo
    <3> PICK b \in HeaderOf(q) :
               NoStartCode(q, b, key) \/ InGap(q, b, key) \/ Pass(q, b, key)
      OBVIOUS
    <3>1. KeyFrame(b, key) \in {0, 1}
      BY KeyFrameIsFlag DEF TypeOK
    <3>2. UNCHANGED codec
      BY <2>1 DEF SendVideo
    <3>3. CASE NoStartCode(q, b, key)
      BY <3>2, <3>3 DEF NoStartCode, Called, TypeOK
    <3>4. CASE InGap(q, b, key)
      BY <3>1, <3>2, <3>4 DEF InGap, Called, TypeOK
    <3>5. CASE Pass(q, b, key)
      <4>1. m_bDisContinue' \in BOOLEAN
        BY <3>5, Zenon DEF Pass
      <4>2. PICK outcome \in Passed : Called("video", q, b, KeyFrame(b, key), outcome)
        BY <3>5 DEF Pass
      <4>3. last'.kind = "video" /\ last'.outcome = outcome /\ last'.key = KeyFrame(b, key)
        BY <4>2 DEF Called
      <4> QED
        BY <3>1, <3>2, <4>1, <4>3 DEF Passed, TypeOK
    <3> QED
      BY <3>3, <3>4, <3>5
  <2>2. ASSUME NEW p \in Packets, NEW key \in {0, 1}, SendEncrypted(p, key) PROVE TypeOK'
    BY <2>2 DEF SendEncrypted, Called, Passed, TypeOK
  <2>3. ASSUME NEW b \in Bytes, SendAudio(b) PROVE TypeOK'
    <3>1. PICK outcome \in Passed \cup {"refused"} : Called("audio", <<b>>, b, 0, outcome)
      BY <2>3 DEF SendAudio
    <3> QED
      BY <2>3, <3>1 DEF SendAudio, Called, Passed, TypeOK
  <2>4. CASE UNCHANGED vars
    BY <2>4 DEF vars, TypeOK
  <2> QED
    BY <2>1, <2>2, <2>3, <2>4 DEF Next
<1> QED
  BY <1>1, <1>2, PTL DEF Spec

-----------------------------------------------------------------------------
(* The start code: what the scan of check_frame accepts is what the        *)
(* standards say.                                                          *)

LEMMA LeastIndex ==
  ASSUME NEW S, S \subseteq Nat, S # {}
  PROVE  Min(S) \in S /\ \A y \in S : Min(S) <= y
<1>. DEFINE R == {ss \in Nat \X Nat : ss[1] < ss[2]}
<1>1. IsWellFoundedOn(R, Nat)
  BY NatLessThanWellFounded DEF OpToRel
<1>2. PICK x \in S : \A y \in S : ~(<<y, x>> \in R)
  <2>. HIDE DEF R
  <2>. QED BY <1>1, WFMin
<1>3. x \in Nat /\ \A y \in S : y \in Nat /\ ~(y < x)
  BY <1>2
<1>4. \A y \in S : x <= y
  BY <1>3
<1>. QED BY <1>4 DEF Min

\* The scan stops behind zeros, at the first other byte or at the last one.
LEMMA Scan ==
  ASSUME NEW p \in Seq(Nat), p # <<>>
  PROVE  /\ LeadingZeros(p) \in 0 .. Len(p) - 1
         /\ \A i \in 1 .. LeadingZeros(p) : p[i] = 0
         /\ LeadingZeros(p) < Len(p) - 1 => p[LeadingZeros(p) + 1] # 0
<1>. DEFINE I == {i \in 1 .. Len(p) : p[i] # 0}
            n == IF I # {} THEN Min(I) ELSE 0
<1>1. LeadingZeros(p) = (IF n = 0 THEN Len(p) ELSE n) - 1
  BY DEF LeadingZeros, SelectInSeq
<1>2. /\ Len(p) \in Nat \ {0} /\ I \subseteq 1 .. Len(p) /\ I \subseteq Nat
      /\ \A i \in 1 .. Len(p) : i \in I <=> p[i] # 0
  OBVIOUS
<1>. HIDE DEF I
<1>3. CASE I = {}
  <2>1. LeadingZeros(p) = Len(p) - 1
    BY <1>1, <1>3
  <2>2. \A i \in 1 .. Len(p) : p[i] = 0
    BY <1>2, <1>3
  <2>. QED BY <1>2, <2>1, <2>2
<1>4. CASE I # {}
  <2>1. Min(I) \in I /\ \A i \in I : Min(I) <= i
    BY <1>2, <1>4, LeastIndex
  <2>2. n = Min(I) /\ n \in 1 .. Len(p) /\ n \in I
    BY <1>2, <1>4, <2>1
  <2>3. p[n] # 0 /\ \A i \in 1 .. n - 1 : p[i] = 0
    <3>. HIDE DEF n
    <3>1. \A i \in 1 .. n - 1 : i \in 1 .. Len(p) /\ i \notin I
      BY <1>2, <2>1, <2>2
    <3>. QED BY <1>2, <2>2, <3>1
  <2>. HIDE DEF n
  <2>4. LeadingZeros(p) = n - 1
    BY <1>1, <1>2, <2>2
  <2>. QED BY <1>2, <2>2, <2>3, <2>4
<1>. QED BY <1>3, <1>4

LEMMA PrefixByIndex ==
  ASSUME NEW s \in Seq(Nat), NEW p \in Seq(Nat)
  PROVE  IsPrefix(s, p) <=> Len(s) <= Len(p) /\ \A i \in 1 .. Len(s) : s[i] = p[i]
<1>. SUFFICES ASSUME Len(s) <= Len(p)
              PROVE  SubSeq(s, 1, Len(s)) = SubSeq(p, 1, Len(s))
                       <=> \A i \in 1 .. Len(s) : s[i] = p[i]
  BY DEF IsPrefix
<1>. DEFINE n == Len(s)
<1>1. SubSeq(s, 1, n) = [i \in 1 .. n |-> s[i]] /\ SubSeq(p, 1, n) = [i \in 1 .. n |-> p[i]]
  OBVIOUS
<1>. QED BY <1>1

\* check_frame finds a start code exactly where there is one: two or three zeros
\* and a one.
LEMMA StartCodeIsTrue ==
  ASSUME NEW p \in Packets \ {<<>>}
  PROVE  StartCode(p) <=> TrueStart(p)
<1>1. p \in Seq(Nat) /\ p # <<>> /\ Len(p) \in Nat \ {0}
  BY PacketsAssumption
<1>. DEFINE z == LeadingZeros(p)
<1>2. /\ z \in 0 .. Len(p) - 1
      /\ \A i \in 1 .. z : p[i] = 0
      /\ z < Len(p) - 1 => p[z + 1] # 0
  BY <1>1, Scan
<1>3. IsPrefix(<<0, 0, 1>>, p) <=> Len(p) >= 3 /\ p[1] = 0 /\ p[2] = 0 /\ p[3] = 1
  <2>. DEFINE s == <<0, 0, 1>>
  <2>1. s \in Seq(Nat) /\ Len(s) = 3 /\ s[1] = 0 /\ s[2] = 0 /\ s[3] = 1
    OBVIOUS
  <2>2. \A i \in 1 .. 3 : i = 1 \/ i = 2 \/ i = 3
    OBVIOUS
  <2>. HIDE DEF s
  <2>3. IsPrefix(s, p) <=> 3 <= Len(p) /\ \A i \in 1 .. 3 : s[i] = p[i]
    BY <1>1, <2>1, PrefixByIndex
  <2>. QED BY <1>1, <2>1, <2>2, <2>3 DEF s
<1>4. IsPrefix(<<0, 0, 0, 1>>, p)
        <=> Len(p) >= 4 /\ p[1] = 0 /\ p[2] = 0 /\ p[3] = 0 /\ p[4] = 1
  <2>. DEFINE s == <<0, 0, 0, 1>>
  <2>1. s \in Seq(Nat) /\ Len(s) = 4 /\ s[1] = 0 /\ s[2] = 0 /\ s[3] = 0 /\ s[4] = 1
    OBVIOUS
  <2>2. \A i \in 1 .. 4 : i = 1 \/ i = 2 \/ i = 3 \/ i = 4
    OBVIOUS
  <2>. HIDE DEF s
  <2>3. IsPrefix(s, p) <=> 4 <= Len(p) /\ \A i \in 1 .. 4 : s[i] = p[i]
    BY <1>1, <2>1, PrefixByIndex
  <2>. QED BY <1>1, <2>1, <2>2, <2>3 DEF s
<1>. HIDE DEF z
<1>5. StartCode(p) <=> z \in {2, 3} /\ p[z + 1] = 1
  BY DEF StartCode, z
<1>6. ASSUME z = 2 \/ z = 3, p[z + 1] = 1 PROVE TrueStart(p)
  BY <1>1, <1>2, <1>3, <1>4, <1>6 DEF TrueStart
<1>7. ASSUME Len(p) >= 3, p[1] = 0, p[2] = 0, p[3] = 1 PROVE z = 2
  BY <1>1, <1>2, <1>7
<1>8. ASSUME Len(p) >= 4, p[1] = 0, p[2] = 0, p[3] = 0, p[4] = 1 PROVE z = 3
  BY <1>1, <1>2, <1>8
<1>. QED BY <1>3, <1>4, <1>5, <1>6, <1>7, <1>8 DEF TrueStart

\* What a video packet leaves behind: the outcome, and the bytes p and the unit b it
\* was judged by.
LEMMA VideoStep ==
  ASSUME [Next]_vars, vars' # vars, last'.kind = "video"
  PROVE  \E p \in Packets \ {<<>>}, key \in {0, 1} : \E b \in HeaderOf(p) :
           /\ NoStartCode(p, b, key) \/ InGap(p, b, key) \/ Pass(p, b, key)
           /\ last'.start = TrueStart(p) /\ last'.unit = b
           /\ last'.outcome = "refused" <=> ~Pass(p, b, key)
<1>1. ASSUME NEW p \in Packets, NEW key \in {0, 1}, SendEncrypted(p, key) PROVE FALSE
  BY <1>1 DEF SendEncrypted, Called
<1>2. ASSUME NEW b \in Bytes, SendAudio(b) PROVE FALSE
  BY <1>2 DEF SendAudio, Called
<1>3. PICK packet \in Packets, key \in {0, 1} : SendVideo(packet, key)
  BY <1>1, <1>2 DEF Next
<1>. PICK p \in Scanned(packet) : \E b \in HeaderOf(p) :
            NoStartCode(p, b, key) \/ InGap(p, b, key) \/ Pass(p, b, key)
  BY <1>3 DEF SendVideo
<1>. p \in Packets \ {<<>>}
  BY DEF Scanned
<1>4. PICK b \in HeaderOf(p) : NoStartCode(p, b, key) \/ InGap(p, b, key) \/ Pass(p, b, key)
  OBVIOUS
<1>5. CASE NoStartCode(p, b, key)
  <2>1. last'.start = TrueStart(p) /\ last'.unit = b /\ last'.outcome = "refused"
    BY <1>5 DEF NoStartCode, Called
  <2>2. ~Pass(p, b, key)
    BY <1>5 DEF NoStartCode, Pass
  <2>. QED BY <1>5, <2>1, <2>2
<1>6. CASE InGap(p, b, key)
  <2>1. last'.start = TrueStart(p) /\ last'.unit = b /\ last'.outcome = "refused"
    BY <1>6 DEF InGap, Called
  <2>2. ~Pass(p, b, key)
    BY <1>6 DEF InGap, Pass
  <2>. QED BY <1>6, <2>1, <2>2
<1>7. CASE Pass(p, b, key)
  <2>1. last'.start = TrueStart(p) /\ last'.unit = b /\ last'.outcome # "refused"
    BY <1>7 DEF Pass, Passed, Called
  <2>. QED BY <1>7, <2>1
<1>. QED BY <1>4, <1>5, <1>6, <1>7

\* Outside a gap check_frame refuses a packet exactly when neither of the two
\* standard start codes begins it, whatever its bytes and its length are.
THEOREM StartCodeTheorem == Spec => CodesAreStandard
<1>. DEFINE A == last'.kind = "video" /\ ~m_bDisContinue
                   => (last'.outcome = "refused" <=> ~last'.start)
<1>1. [Next]_vars => [A]_vars
  <2>. SUFFICES ASSUME [Next]_vars, vars' # vars, last'.kind = "video", ~m_bDisContinue
                PROVE  last'.outcome = "refused" <=> ~last'.start
    OBVIOUS
  <2>1. PICK p \in Packets \ {<<>>}, key \in {0, 1} : \E b \in HeaderOf(p) :
           /\ NoStartCode(p, b, key) \/ InGap(p, b, key) \/ Pass(p, b, key)
           /\ last'.start = TrueStart(p) /\ last'.unit = b
           /\ last'.outcome = "refused" <=> ~Pass(p, b, key)
    BY VideoStep
  <2>2. PICK b \in HeaderOf(p) :
           /\ NoStartCode(p, b, key) \/ InGap(p, b, key) \/ Pass(p, b, key)
           /\ last'.start = TrueStart(p)
           /\ last'.outcome = "refused" <=> ~Pass(p, b, key)
    BY <2>1
  <2>3. Pass(p, b, key) <=> StartCode(p)
    BY <2>2 DEF NoStartCode, InGap, Pass
  <2>. QED BY <2>2, <2>3, StartCodeIsTrue
<1>. QED BY <1>1, PTL DEF Spec, CodesAreStandard

\* An H264 parameter set or IDR picture behind a start code gets through check_frame
\* and ends the gap, whatever was refused before it.
THEOREM SpsPpsIdrTheorem == Spec => SpsPpsIdrPass
<1>. DEFINE A == codec = "H264" /\ last'.kind = "video" /\ last'.start
                   /\ TrueType(last'.unit) \in {5, 7, 8}
                   => last'.outcome # "refused" /\ ~m_bDisContinue'
<1>1. [Next]_vars => [A]_vars
  <2>. SUFFICES ASSUME [Next]_vars, vars' # vars, codec = "H264", last'.kind = "video",
                       last'.start, TrueType(last'.unit) \in {5, 7, 8}
                PROVE  last'.outcome # "refused" /\ ~m_bDisContinue'
    OBVIOUS
  <2>1. PICK p \in Packets \ {<<>>}, key \in {0, 1} : \E b \in HeaderOf(p) :
           /\ NoStartCode(p, b, key) \/ InGap(p, b, key) \/ Pass(p, b, key)
           /\ last'.start = TrueStart(p) /\ last'.unit = b
           /\ last'.outcome = "refused" <=> ~Pass(p, b, key)
    BY VideoStep
  <2>2. PICK b \in HeaderOf(p) :
           /\ NoStartCode(p, b, key) \/ InGap(p, b, key) \/ Pass(p, b, key)
           /\ last'.start = TrueStart(p) /\ last'.unit = b
           /\ last'.outcome = "refused" <=> ~Pass(p, b, key)
    BY <2>1
  <2>3. StartCode(p)
    BY <2>2, StartCodeIsTrue
  <2>4. EndsGap(b)
    BY <2>2 DEF EndsGap, UnitType, TrueType
  <2>5. Pass(p, b, key)
    BY <2>2, <2>3, <2>4 DEF NoStartCode, InGap
  <2>. QED BY <2>2, <2>5 DEF Pass
<1>. QED BY <1>1, PTL DEF Spec, SpsPpsIdrPass
=============================================================================
