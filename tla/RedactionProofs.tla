---------------------------- MODULE RedactionProofs ----------------------------
(***************************************************************************)
(* What is held back, for how long, and what is shown in the end, for      *)
(* every set of secrets, every output and every way in which the reads     *)
(* cut it.                                                                 *)
(***************************************************************************)
EXTENDS Redaction, WellFoundedInduction, TLAPS

LEMMA EndingIs ==
    ASSUME NEW S, NEW t \in Seq(S), NEW k \in 0..Len(t)
    PROVE  /\ Ending(t, k) \in Seq(S) /\ Len(Ending(t, k)) = k
           /\ \A i \in 1..k : Ending(t, k)[i] = t[Len(t) - k + i]
  BY DEF Ending

LEMMA ConcatIs ==
    ASSUME NEW S, NEW a \in Seq(S), NEW b \in Seq(S)
    PROVE  /\ a \o b \in Seq(S) /\ Len(a \o b) = Len(a) + Len(b)
           /\ \A i \in 1..Len(a) : (a \o b)[i] = a[i]
           /\ \A i \in Len(a) + 1..Len(a) + Len(b) : (a \o b)[i] = b[i - Len(a)]
  OBVIOUS

LEMMA ZerosAre ==
    ASSUME NEW c \in Text
    PROVE  LET z == [i \in DOMAIN c |-> 0] IN
           z \in Seq(Nat) /\ Len(z) = Len(c) /\ \A i \in 1..Len(c) : z[i] = 0
  BY DEF Text

LEMMA OlderAre ==
    ASSUME NEW t \in Seq(Nat)
    PROVE  LET o == [i \in DOMAIN t |-> t[i] + 1] IN
           o \in Seq(Nat) /\ Len(o) = Len(t) /\ \A i \in 1..Len(t) : o[i] = t[i] + 1
<1> DEFINE o == [i \in DOMAIN t |-> t[i] + 1]
<1>1. DOMAIN t = 1..Len(t) /\ Len(t) \in Nat /\ \A i \in 1..Len(t) : t[i] + 1 \in Nat
  OBVIOUS
<1>2. o \in [1..Len(t) -> Nat]
  BY <1>1
<1>3. o \in Seq(Nat) /\ Len(o) = Len(t)
  BY <1>1, <1>2
<1>4. \A i \in 1..Len(t) : o[i] = t[i] + 1
  BY <1>1
<1> QED
  BY <1>3, <1>4

LEMMA EmptyIs == ASSUME NEW S, NEW t \in Seq(S), Len(t) = 0 PROVE t = <<>>
  OBVIOUS

LEMMA Scaled ==
    ASSUME NEW h \in Nat, NEW a \in Nat, NEW b \in Nat, a <= b
    PROVE  h * a \in Nat /\ h * b \in Nat /\ h * a <= h * b
<1>1. PICK d \in Nat : b = a + d
  <2>1. b - a \in Nat /\ b = a + (b - a)
    OBVIOUS
  <2> QED
    BY <2>1
<1>2. h * b = h * a + h * d
  BY <1>1
<1>3. h * a \in Nat /\ h * d \in Nat
  BY SMT
<1> QED
  BY <1>1, <1>2, <1>3

\* A deadline more for a byte more.
LEMMA OneByteMore ==
    ASSUME NEW h \in Nat, NEW a \in Nat, NEW b \in Nat, a + 1 <= b,
           NEW n \in 0..h
    PROVE  h * a + n <= h * b
<1>1. h * (a + 1) = h * a + h /\ h * a \in Nat
  BY SMT
<1>2. h * (a + 1) <= h * b
  BY Scaled
<1> QED
  BY <1>1, <1>2, Scaled

\* What ends a sequence of two parts is found in the first of them,
LEMMA EndingInFirst ==
    ASSUME NEW a \in Seq(Nat), NEW b \in Seq(Nat), NEW k \in 0..Len(a) + Len(b), NEW i \in 1..k,
           NEW j \in Int, j = Len(a) + Len(b) - k + i, j <= Len(a)
    PROVE  Ending(a \o b, k)[i] = a[j]
<1> DEFINE t == a \o b
<1>1. /\ t \in Seq(Nat) /\ Len(t) = Len(a) + Len(b)
      /\ \A x \in 1..Len(a) : t[x] = a[x]
      /\ \A x \in Len(a) + 1..Len(a) + Len(b) : t[x] = b[x - Len(a)]
  BY ConcatIs
<1>2. Len(a) \in Nat /\ Len(b) \in Nat
  OBVIOUS
<1> HIDE DEF t
<1>3. k \in 0..Len(t)
  BY <1>1
<1>4. Ending(t, k)[i] = t[Len(t) - k + i]
  BY <1>1, <1>3, EndingIs
<1>5. Ending(t, k)[i] = t[j]
  BY <1>1, <1>4
<1>6. t[j] = a[j]
  <2>1. j \in 1..Len(a)
    BY <1>2
  <2> QED
    BY <1>1, <2>1, Zenon
<1> QED
  BY <1>5, <1>6 DEF t

\* or in the second, here of zeros.
LEMMA EndingInSecond ==
    ASSUME NEW a \in Seq(Nat), NEW b \in Seq(Nat), NEW k \in 0..Len(a) + Len(b), NEW i \in 1..k,
           NEW j \in Int, j = Len(a) + Len(b) - k + i, j > Len(a),
           \A x \in 1..Len(b) : b[x] = 0
    PROVE  Ending(a \o b, k)[i] = 0
<1> DEFINE t == a \o b
<1>1. /\ t \in Seq(Nat) /\ Len(t) = Len(a) + Len(b)
      /\ \A x \in 1..Len(a) : t[x] = a[x]
      /\ \A x \in Len(a) + 1..Len(a) + Len(b) : t[x] = b[x - Len(a)]
  BY ConcatIs
<1>2. Len(a) \in Nat /\ Len(b) \in Nat
  OBVIOUS
<1> HIDE DEF t
<1>3. k \in 0..Len(t)
  BY <1>1
<1>4. Ending(t, k)[i] = t[Len(t) - k + i]
  BY <1>1, <1>3, EndingIs
<1>5. Ending(t, k)[i] = t[j]
  BY <1>1, <1>4
<1>6. t[j] = 0
  <2>1. j - Len(a) \in 1..Len(b) /\ j \in Len(a) + 1..Len(a) + Len(b)
    BY <1>2
  <2> QED
    BY <1>1, <2>1, Zenon
<1> QED
  BY <1>5, <1>6 DEF t

\* The deadline that was running is paid for by the bytes of the next read: m
\* characters, or none but a byte more of an incomplete one.
LEMMA OneReadMore ==
    ASSUME NEW h \in Nat, NEW w \in Nat \ {0}, NEW d \in Nat, NEW m \in Nat,
           NEW q \in 0..w - 1, NEW p \in 0..w - 1, m = 0 => p > q, NEW n \in 0..h
    PROVE  h * (w * d + q) + n <= h * (w * (d + m) + p)
<1> DEFINE old == w * d + q
           new == w * (d + m) + p
<1>1. w * (d + m) = w * d + w * m
  OBVIOUS
<1>2. w * d \in Nat
  BY Scaled
<1>3. old \in Nat
  BY <1>2
<1>4. w * m \in Nat
  BY Scaled
<1>5. new \in Nat
  BY <1>1, <1>2, <1>4
<1>6. old + 1 <= new
  <2>1. CASE m = 0
    <3>1. w * m = 0
      BY <2>1
    <3> QED
      BY <1>1, <1>2, <2>1, <3>1
  <2>2. CASE m # 0
    <3>1. w * 1 <= w * m
      BY <2>2, Scaled
    <3> QED
      BY <1>1, <1>2, <1>4, <3>1
  <2> QED
    BY <2>1, <2>2
<1> HIDE DEF old, new
<1>7. h * old + n <= h * new
  BY <1>3, <1>5, <1>6, OneByteMore
<1> QED
  BY <1>7 DEF old, new

LEMMA InitInv == Init => IInv
<1> SUFFICES ASSUME Init PROVE IInv
  OBVIOUS
<1>1. partial \in 0..Width - 1
  BY LetterAssumption DEF Init
<1>2. expired \in BOOLEAN
  BY DEF Init
<1>3. <<>> \in Seq(Letter) /\ <<>> \in Seq(Nat)
  OBVIOUS
<1> QED
  BY <1>1, <1>2, <1>3 DEF Init, IInv, TypeOK, DeadlineIffHeld, HeldSinceReads, Off, Text

\* All that was held back is let go, or lost.
LEMMA EmptiedStep ==
    ASSUME IInv, pump' \in {"send", "last", "ok", "failed"}, pending' = <<>>, since' = <<>>, clock' = Off,
           expired' \in BOOLEAN, UNCHANGED <<secrets, partial, read>>
    PROVE  IInv'
<1>1. <<>> \in Seq(Letter) /\ <<>> \in Seq(Nat) /\ Len(<<>>) = 0 /\ DOMAIN <<>> = {}
  OBVIOUS
<1> QED
  BY <1>1 DEF IInv, TypeOK, DeadlineIffHeld, HeldSinceReads, Text

LEMMA FlushAll ==
    ASSUME IInv, Flush(pending, since, 0) PROVE pending' = <<>> /\ since' = <<>>
<1>1. pending \in Seq(Letter) /\ since \in Seq(Nat)
  BY DEF IInv, TypeOK, Text
<1>2. \A S : \A t \in Seq(S) : Ending(t, 0) = <<>>
  <2> TAKE S
  <2> TAKE t \in Seq(S)
  <2>1. 0 \in 0..Len(t)
    OBVIOUS
  <2>2. Ending(t, 0) \in Seq(S) /\ Len(Ending(t, 0)) = 0
    BY <2>1, EndingIs
  <2> QED
    BY <2>2, EmptyIs
<1> QED
  BY <1>1, <1>2 DEF Flush

\* How old a character is after a read, at its place i of the k that are held.
LEMMA AgeAfterRead ==
    ASSUME IInv, pump = "read",
           NEW c \in Text, NEW p \in 0..Width - 1, c = <<>> => p > partial,
           NEW k \in 0..Len(pending) + Len(c), NEW i \in 1..k, NEW z \in Seq(Nat),
           Len(z) = Len(c), \A x \in 1..Len(c) : z[x] = 0
    PROVE  Ending(since \o z, k)[i] <= Hold * (Width * (k - i) + p)
<1> DEFINE n == Len(since)
           m == Len(z)
           j == n + m - k + i
           age == Ending(since \o z, k)[i]
<1>1. /\ since \in Seq(Nat) /\ Len(since) = Len(pending) /\ n \in Nat /\ m \in Nat
      /\ partial \in 0..Width - 1 /\ c \in Seq(Letter)
  BY DEF IInv, TypeOK, Text
<1>2. Width \in Nat \ {0} /\ Hold \in Nat \ {0}
  BY LetterAssumption, ClockAssumption
<1>3. j \in Int /\ k \in 0..n + m /\ k - i \in Nat
  BY <1>1
<1>4. j \in 1..n + m
  BY <1>1, <1>3
<1>5. CASE j > n
  <2>1. age = 0
    <3>1. k \in 0..Len(since) + Len(z) /\ \A x \in 1..Len(z) : z[x] = 0
      BY <1>1
    <3>2. j = Len(since) + Len(z) - k + i /\ j > Len(since)
      BY <1>5
    <3> HIDE DEF j, n, m
    <3> QED
      BY <1>1, <1>3, <3>1, <3>2, EndingInSecond
  <2>2. Width * (k - i) \in Nat
    BY <1>2, <1>3, Scaled
  <2>3. Width * (k - i) + p \in Nat
    BY <1>2, <2>2
  <2>4. Hold * (Width * (k - i) + p) \in Nat
    BY <1>2, <2>3, Scaled
  <2> QED
    BY <2>1, <2>4
<1>6. CASE j <= n
  <2> DEFINE d == n - j
  <2>0. age = since[j]
    <3>1. k \in 0..Len(since) + Len(z)
      BY <1>1
    <3>2. j = Len(since) + Len(z) - k + i /\ j <= Len(since)
      BY <1>6
    <3> HIDE DEF j, n, m
    <3> QED
      BY <1>1, <1>3, <3>1, <3>2, EndingInFirst
  <2>1. j \in 1..n /\ d \in Nat /\ since[j] \in Nat
    BY <1>1, <1>4, <1>6
  <2>2. since[j] <= Hold * (Width * d + partial) + clock
    BY <1>1, <2>1 DEF IInv, HeldSinceReads
  <2>3. clock \in 0..Hold
    <3>1. pending # <<>>
      BY <1>1, <2>1
    <3> QED
      BY <3>1 DEF IInv, TypeOK, DeadlineIffHeld
  <2>4. m = 0 => p > partial
    BY <1>1, EmptyIs
  <2>5. k - i = d + m
    BY <1>1
  <2>6. /\ Hold * (Width * d + partial) + clock <= Hold * (Width * (d + m) + p)
        /\ Hold * (Width * d + partial) \in Nat /\ Hold * (Width * (d + m) + p) \in Nat
    <3> HIDE DEF d, m, j, n
    <3>1. Hold * (Width * d + partial) + clock <= Hold * (Width * (d + m) + p)
      BY <1>1, <1>2, <2>1, <2>3, <2>4, OneReadMore
    <3>2. Width * d + partial \in Nat
      <4>1. Width * d \in Nat
        BY <1>2, <2>1, Scaled
      <4> QED
        BY <1>1, <1>2, <4>1
    <3>3. Width * (d + m) + p \in Nat
      <4>1. d + m \in Nat
        BY <1>1, <2>1
      <4>2. Width * (d + m) \in Nat
        BY <1>2, <4>1, Scaled
      <4> QED
        BY <1>2, <4>2
    <3> QED
      BY <1>2, <3>1, <3>2, <3>3, Scaled
  <2> HIDE DEF d, m, age
  <2>7. since[j] <= Hold * (Width * (d + m) + p)
    BY <2>1, <2>2, <2>3, <2>6
  <2> QED
    BY <2>0, <2>5, <2>7 DEF age
<1> QED
  BY <1>1, <1>4, <1>5, <1>6

LEMMA ReadStep ==
    ASSUME IInv, NEW c \in Text, NEW p \in 0..Width - 1, ReadText(c, p) PROVE IInv'
<1> DEFINE text == pending \o c
           z == [i \in DOMAIN c |-> 0]
<1>1. /\ pending \in Text /\ since \in Seq(Nat) /\ Len(since) = Len(pending) /\ read \in Text
      /\ secrets \in SecretSets /\ Len(pending) \in Nat /\ Len(c) \in Nat /\ c \in Seq(Letter)
  BY DEF IInv, TypeOK, Text
<1>2. expired \in BOOLEAN
  BY DEF IInv, TypeOK
<1>3. z \in Seq(Nat) /\ Len(z) = Len(c) /\ \A x \in 1..Len(c) : z[x] = 0
  BY ZerosAre
<1>4. PICK hold \in 0..Len(text) :
        /\ IsTrailingSecretPrefixLen(text, hold) /\ Flush(text, since \o z, hold)
        /\ \/ hold = Len(text) /\ pump' = "read" /\ clock' = Armed(hold)
           \/ hold < Len(text) /\ pump' = "send" /\ clock' = Off
  BY DEF ReadText
<1>5. /\ pump = "read" /\ secrets' = secrets /\ expired' = expired
      /\ partial' = p /\ read' = read \o c /\ (c = <<>> => p > partial)
  BY DEF ReadText
<1> HIDE DEF z
<1>6. text \in Seq(Letter) /\ Len(text) = Len(pending) + Len(c)
  BY <1>1, ConcatIs DEF Text
<1>7. (since \o z) \in Seq(Nat) /\ Len(since \o z) = Len(pending) + Len(c)
  <2>1. (since \o z) \in Seq(Nat) /\ Len(since \o z) = Len(since) + Len(z)
    BY <1>1, <1>3, ConcatIs, Zenon
  <2> QED
    BY <1>1, <1>3, <2>1
<1>8. read' \in Text
  BY <1>1, <1>5, ConcatIs DEF Text
<1> HIDE DEF text
<1>9. hold \in 0..Len(pending) + Len(c) /\ hold \in Nat
  BY <1>1, <1>6
<1>10. pending' = Ending(text, hold) /\ since' = Ending(since \o z, hold)
  BY <1>4 DEF Flush
<1>11. pending' \in Text /\ Len(pending') = hold
  BY <1>6, <1>10, EndingIs DEF Text
<1>12. since' \in Seq(Nat) /\ Len(since') = hold
  BY <1>1, <1>7, <1>9, <1>10, EndingIs
<1>13. pending' # <<>> <=> hold > 0
  BY <1>9, <1>11, EmptyIs DEF Text
<1>14. TypeOK'
  <2>1. expired' \in BOOLEAN
    BY <1>2, <1>5
  <2>2. clock' \in {Off} \union 0..Hold /\ pump' \in {"read", "send"}
    BY <1>4, ClockAssumption DEF Armed
  <2> QED
    BY <1>1, <1>5, <1>8, <1>11, <1>12, <2>1, <2>2 DEF TypeOK
<1>15. DeadlineIffHeld'
  BY <1>4, <1>9, <1>13 DEF DeadlineIffHeld, Armed, Off
<1>16. HeldSinceReads'
  <2> SUFFICES ASSUME NEW i \in DOMAIN since'
               PROVE  since'[i] <= Hold * (Width * (Len(pending') - i) + partial')
                                      + IF pump' = "read" THEN clock' ELSE 0
    BY DEF HeldSinceReads
  <2>1. i \in 1..hold /\ (pump' = "read" => clock' = 0)
    BY <1>4, <1>9, <1>12 DEF Armed
  <2>2. Ending(since \o z, hold)[i] <= Hold * (Width * (hold - i) + p)
    BY <1>3, <1>5, <1>9, <2>1, AgeAfterRead
  <2>3. Hold * (Width * (hold - i) + p) \in Nat
    <3>1. hold - i \in Nat /\ Width \in Nat /\ Hold \in Nat
      BY <1>9, <2>1, LetterAssumption, ClockAssumption
    <3>2. Width * (hold - i) \in Nat
      BY <3>1, Scaled
    <3>3. Width * (hold - i) + p \in Nat
      BY <3>1, <3>2
    <3> QED
      BY <3>1, <3>3, Scaled
  <2>4. since'[i] <= Hold * (Width * (Len(pending') - i) + partial')
    BY <1>5, <1>10, <1>11, <2>2, Zenon
  <2>5. Hold * (Width * (Len(pending') - i) + partial') \in Nat
    BY <1>5, <1>11, <2>3, Zenon
  <2>6. since'[i] \in Nat
    BY <1>12, <2>1
  <2> QED
    BY <2>1, <2>4, <2>5, <2>6
<1>17. ASSUME pending' # <<>>
       PROVE  \E s \in secrets' : Len(pending') < Len(s) /\ pending' = SubSeq(s, 1, Len(pending'))
  <2>1. Suspicious(text, hold)
    BY <1>4, <1>9, <1>13, <1>17 DEF IsTrailingSecretPrefixLen
  <2> QED
    BY <1>5, <1>10, <1>11, <2>1 DEF Suspicious
<1> QED
  BY <1>14, <1>15, <1>16, <1>17 DEF IInv

LEMMA TickStep == ASSUME IInv, Tick PROVE IInv'
<1>1. /\ since \in Seq(Nat) /\ Len(since) = Len(pending) /\ Hold \in Nat /\ Width \in Nat \ {0}
      /\ partial \in 0..Width - 1 /\ Len(pending) \in Nat
  BY ClockAssumption, LetterAssumption DEF IInv, TypeOK, Text
<1>2. /\ since' = [i \in DOMAIN since |-> since[i] + 1]
      /\ pending' = pending /\ pending # <<>> /\ partial' = partial /\ secrets' = secrets
      /\ pump = "read" /\ pump' = "read" /\ read' = read
  BY DEF Tick
<1>3. clock \in 0..Hold - 1 /\ clock' = clock + 1
  BY <1>1 DEF Tick, IInv, TypeOK, DeadlineIffHeld, Off
<1>4. /\ since' \in Seq(Nat) /\ Len(since') = Len(since)
      /\ \A i \in 1..Len(since) : since'[i] = since[i] + 1
  BY <1>1, <1>2, OlderAre
<1>5. TypeOK'
  <2>1. expired' \in BOOLEAN
    BY DEF Tick, IInv, TypeOK
  <2>2. clock' \in {Off} \union 0..Hold
    BY <1>1, <1>3
  <2> QED
    BY <1>2, <1>4, <2>1, <2>2 DEF IInv, TypeOK
<1>6. DeadlineIffHeld'
  BY <1>1, <1>2, <1>3 DEF DeadlineIffHeld, Off
<1>7. HeldSinceReads'
  <2> SUFFICES ASSUME NEW i \in DOMAIN since'
               PROVE  since'[i] <= Hold * (Width * (Len(pending') - i) + partial')
                                      + IF pump' = "read" THEN clock' ELSE 0
    BY DEF HeldSinceReads
  <2> DEFINE bytes == Width * (Len(pending) - i) + partial
  <2>1. i \in 1..Len(since) /\ i \in DOMAIN since /\ since[i] \in Nat
    BY <1>1, <1>4
  <2>2. since[i] <= Hold * bytes + clock
    BY <1>2, <2>1 DEF IInv, HeldSinceReads
  <2>3. Hold * bytes \in Nat
    <3>1. Len(pending) - i \in Nat
      BY <1>1, <2>1
    <3>2. Width * (Len(pending) - i) \in Nat
      BY <1>1, <3>1, Scaled
    <3>3. bytes \in Nat
      BY <1>1, <3>2
    <3> QED
      BY <1>1, <3>3, Scaled
  <2> HIDE DEF bytes
  <2>4. since'[i] <= Hold * bytes + clock'
    BY <1>3, <1>4, <2>1, <2>2, <2>3
  <2> QED
    BY <1>2, <2>4, Zenon DEF bytes
<1> QED
  BY <1>2, <1>5, <1>6, <1>7 DEF IInv

\* The send is over: what is held back has been held no longer.
LEMMA SendStep == ASSUME IInv, SendReturns PROVE IInv'
<1>1. UNCHANGED <<secrets, partial, pending, since, read, expired>>
  BY DEF SendReturns
<1>2. /\ since \in Seq(Nat) /\ Len(since) = Len(pending) /\ Len(pending) \in Nat
      /\ pending \in Seq(Letter) /\ clock = Off
  BY DEF IInv, TypeOK, DeadlineIffHeld, SendReturns, Text
<1>3. \/ pump = "send" /\ pump' = "read" /\ clock' = Armed(Len(pending))
      \/ pump = "last" /\ pump' = "ok" /\ clock' = Off
  BY <1>2 DEF SendReturns
<1>4. pending # <<>> <=> Len(pending) > 0
  BY <1>2, EmptyIs
<1>5. TypeOK'
  <2>1. clock' \in {Off} \union 0..Hold
    BY <1>3, ClockAssumption DEF Armed
  <2> QED
    BY <1>1, <1>3, <2>1 DEF IInv, TypeOK
<1>6. DeadlineIffHeld'
  BY <1>1, <1>2, <1>3, <1>4 DEF DeadlineIffHeld, Armed, Off
<1>7. HeldSinceReads'
  <2> SUFFICES ASSUME NEW i \in DOMAIN since
               PROVE  since[i] <= Hold * (Width * (Len(pending) - i) + partial)
                                    + IF pump' = "read" THEN clock' ELSE 0
    BY <1>1 DEF HeldSinceReads
  <2>1. pump' = "read" => clock' = 0
    <3>1. Len(pending) > 0
      BY <1>2
    <3> QED
      BY <1>3, <3>1 DEF Armed
  <2>2. since[i] <= Hold * (Width * (Len(pending) - i) + partial) + 0
    BY <1>3 DEF IInv, HeldSinceReads
  <2> QED
    BY <2>1, <2>2
<1> QED
  BY <1>1, <1>5, <1>6, <1>7 DEF IInv

LEMMA StepInv == IInv /\ [Next]_vars => IInv'
<1> SUFFICES ASSUME IInv, [Next]_vars PROVE IInv'
  OBVIOUS
<1>1. ASSUME NEW c \in SeqOf(Letter, MaxRead), NEW p \in 0..Width - 1, ReadText(c, p)
      PROVE  IInv'
  <2>1. c \in Text
    BY <1>1, ClockAssumption DEF SeqOf, Text
  <2> QED
    BY <1>1, <2>1, ReadStep
<1>2. ASSUME HoldExpires PROVE IInv'
  <2>1. pending' = <<>> /\ since' = <<>>
    BY <1>2, FlushAll DEF HoldExpires
  <2>2. expired' \in BOOLEAN
    BY <1>2 DEF HoldExpires
  <2>3. pump' = "send" /\ clock' = Off /\ UNCHANGED <<secrets, partial, read>>
    BY <1>2 DEF HoldExpires
  <2> QED
    BY <2>1, <2>2, <2>3, EmptiedStep
<1>3. ASSUME Fails, UNCHANGED <<secrets, partial, read, expired>> PROVE IInv'
  <2>1. expired' \in BOOLEAN
    BY <1>3 DEF IInv, TypeOK
  <2> QED
    BY <1>3, <2>1, EmptiedStep DEF Fails
<1>4. ASSUME ReadEof PROVE IInv'
  <2>1. CASE partial > 0
    BY <1>3, <1>4, <2>1 DEF ReadEof
  <2>2. CASE ~(partial > 0)
    <3>1. Flush(pending, since, 0) /\ clock' = Off /\ pump' \in {"ok", "last"}
      BY <1>4, <2>2 DEF ReadEof
    <3>2. pending' = <<>> /\ since' = <<>>
      BY <3>1, FlushAll
    <3>3. expired' \in BOOLEAN /\ UNCHANGED <<secrets, partial, read>>
      BY <1>4 DEF ReadEof, IInv, TypeOK
    <3> QED
      BY <3>1, <3>2, <3>3, EmptiedStep
  <2> QED
    BY <2>1, <2>2
<1>5. CASE UNCHANGED vars
  BY <1>5 DEF vars, IInv, TypeOK, DeadlineIffHeld, HeldSinceReads
<1> QED
  BY <1>1, <1>2, <1>3, <1>4, <1>5, SendStep, TickStep
     DEF Next, Pump, SendFails, ReadFails, Terminated

(***************************************************************************)
(* Whatever the secrets are and however the reads and the sends fall, a    *)
(* deadline runs exactly while something is held back and no send is under *)
(* way, what is held begins a secret, and every tick it has waited outside *)
(* a send is accounted for by a byte that was read since                   *)
(* (server.rs:865-954, 984-1003).                                          *)
(***************************************************************************)
THEOREM Invariant == Spec => []IInv
<1> QED
  BY InitInv, StepInv, PTL DEF Spec

(***************************************************************************)
(* Only what may begin a secret is delayed, and while the pump waits for   *)
(* reads by at most one deadline for each byte the secret has behind its   *)
(* first character.  The waits in the sends come on top; nothing bounds    *)
(* them (README.md:213, server.rs:885-931).                                *)
(***************************************************************************)
THEOREM Bounded == Spec => []HeldBriefly
<1>1. ASSUME IInv PROVE HeldBriefly
  <2> SUFFICES ASSUME pending # <<>> PROVE HeldBriefly!2
    BY DEF HeldBriefly
  <2> DEFINE elapsed == IF pump = "read" THEN clock ELSE 0
  <2>1. PICK s \in secrets : Len(pending) < Len(s) /\ pending = SubSeq(s, 1, Len(pending))
    BY <1>1 DEF IInv
  <2>2. /\ since \in Seq(Nat) /\ Len(since) = Len(pending) /\ Hold \in Nat /\ Width \in Nat \ {0}
        /\ partial \in 0..Width - 1 /\ Len(pending) \in Nat /\ elapsed \in 0..Hold
    BY <1>1, ClockAssumption, LetterAssumption DEF IInv, TypeOK, DeadlineIffHeld, Text
  <2>3. Len(s) \in Nat
    BY <1>1, <2>1, SecretAssumption DEF IInv, TypeOK
  <2>4. ASSUME NEW i \in DOMAIN since PROVE since[i] <= Hold * (Width * (Len(s) - 1))
    <3> DEFINE d == Len(pending) - i
               e == Len(s) - 1
    <3>1. i \in 1..Len(pending) /\ since[i] \in Nat
      BY <2>2
    <3>2. d \in Nat /\ e \in Nat /\ d + 1 <= e
      BY <2>1, <2>2, <2>3, <3>1
    <3>3. since[i] <= Hold * (Width * d + partial) + elapsed
      BY <1>1 DEF IInv, HeldSinceReads
    <3> HIDE DEF d, e, elapsed
    <3>4. Width * (d + 1) <= Width * e /\ Width * e \in Nat /\ Width * d \in Nat
      BY <2>2, <3>2, Scaled
    <3>5. Width * (d + 1) = Width * d + Width
      BY <2>2, <3>2
    <3>6. Width * d + partial \in Nat /\ Width * d + partial + 1 <= Width * e
      BY <2>2, <3>4, <3>5
    <3>7. Hold * (Width * d + partial) + elapsed <= Hold * (Width * e)
      BY <2>2, <3>4, <3>6, OneByteMore
    <3>8. Hold * (Width * d + partial) \in Nat /\ Hold * (Width * e) \in Nat
      BY <2>2, <3>4, <3>6, Scaled
    <3> QED
      BY <2>2, <3>1, <3>3, <3>7, <3>8 DEF e
  <2> QED
    BY <2>1, <2>4
<1> QED
  BY <1>1, Invariant, PTL


-----------------------------------------------------------------------------
(* Induction.                                                              *)

(* A set of numbers that is not empty has a least one.                     *)
LEMMA LeastNumber ==
    ASSUME NEW T, T \subseteq Nat, T # {}
    PROVE  \E n \in T : \A m \in T : n <= m
<1> DEFINE R == {ss \in Nat \X Nat : ss[1] < ss[2]}
<1>1. IsWellFoundedOn(R, Nat)
  BY NatLessThanWellFounded, Zenon DEF OpToRel
<1>2. PICK x \in T : \A y \in T : <<y, x>> \notin R
  <2> HIDE DEF R
  <2> QED
    BY <1>1, WFMin
<1>3. \A y \in T : ~(y < x)
  BY <1>2
<1> QED
  BY <1>3

(* What holds of a number whenever it holds of those behind it, up to a    *)
(* bound, holds of all.                                                    *)
LEMMA Downward ==
    ASSUME NEW n \in Nat, NEW D, \A i \in 1..n : (\A j \in i + 1..n : j \in D) => i \in D
    PROVE  \A i \in 1..n : i \in D
<1> DEFINE T == {m \in Nat : m < n /\ n - m \notin D}
<1> SUFFICES ASSUME T # {}
             PROVE  FALSE
  <2>1. ASSUME NEW i \in 1..n, i \notin D
        PROVE  n - i \in T
    BY <2>1
  <2> QED
    BY <2>1
<1>1. PICK m \in T : \A l \in T : m <= l
  BY LeastNumber
<1>2. n - m \in 1..n /\ n - m \notin D
  BY <1>1
<1>3. \A j \in n - m + 1..n : j \in D
  <2> SUFFICES ASSUME NEW j \in n - m + 1..n, j \notin D
               PROVE  FALSE
    OBVIOUS
  <2>1. n - j \in T /\ n - j < m
    BY <1>2
  <2> QED
    BY <1>1, <2>1
<1> QED
  BY <1>2, <1>3

-----------------------------------------------------------------------------
(* The scan of redact_text.                                                *)

Symbol == Letter \union {Mark}

\* Where the secrets end that begin at i or behind it, and which ones end at e.
Ends(t, i) == {e \in i..Len(t) : \E s \in secrets : EndsWith(SubSeq(t, i, e), s)}
Hits(t, i, e) == {s \in secrets : EndsWith(SubSeq(t, i, e), s)}
Longest(t, i, e) == Max({Len(s) : s \in Hits(t, i, e)})

\* f holds what is shown of t from each place on.
From(t, i, f) ==
    IF Ends(t, i) = {} THEN SubSeq(t, i, Len(t))
    ELSE LET e == Min(Ends(t, i))
         IN  Append(SubSeq(t, i, e - Longest(t, i, e)), Mark) \o f[e + 1]
IsScan(t, f) == f = [i \in 1..Len(t) + 1 |-> From(t, i, f)]

\* RedactText is the scan from the first place.
LEMMA Unfold == \A t : RedactText(t) = (CHOOSE f : IsScan(t, f))[1]
  BY Zenon DEF RedactText, IsScan, From, Ends, Longest, Hits

(* Two sequences that have the same elements are the same.                 *)
LEMMA SameSeq ==
    ASSUME NEW S, NEW a \in Seq(S), NEW b \in Seq(S), Len(a) = Len(b),
           \A i \in 1..Len(a) : a[i] = b[i]
    PROVE  a = b
  OBVIOUS

\* What a piece of a sequence holds.
LEMMA SubSeqIs ==
    ASSUME NEW S, NEW t \in Seq(S), NEW i \in Nat \ {0}, NEW e \in Nat, e <= Len(t), i <= e + 1
    PROVE  /\ SubSeq(t, i, e) \in Seq(S) /\ Len(SubSeq(t, i, e)) = e - i + 1
           /\ \A j \in 1..e - i + 1 : SubSeq(t, i, e)[j] = t[i + j - 1]
  OBVIOUS

\* A secret has a character at least (load_secrets skips empty lines).
LEMMA SecretIs ==
    ASSUME TypeOK, NEW s \in secrets
    PROVE  s \in Text /\ Len(s) \in Nat \ {0}
<1>1. s \in Seq(Letter) \ {<<>>}
  BY SecretAssumption DEF TypeOK
<1> QED
  BY <1>1, EmptyIs DEF Text

(* A secret of l characters ends at e.                                     *)
Occurs(t, e, l) == \E s \in secrets : Len(s) = l /\ \A j \in 1..l : t[e - l + j] = s[j]

\* None that begins at i or behind it,
Free(t, i) == \A e \in i..Len(t) : \A l \in 1..e - i + 1 : ~Occurs(t, e, l)

\* or the first of them to end ends at e, and the longest of those has l.
First(t, i, e, l) ==
    /\ e \in i..Len(t) /\ l \in 1..e - i + 1 /\ Occurs(t, e, l)
    /\ \A k \in l + 1..e - i + 1 : ~Occurs(t, e, k)
    /\ \A d \in i..e - 1 : \A k \in 1..d - i + 1 : ~Occurs(t, d, k)

(* What is shown of t up to e then, and x of the rest.                     *)
Cover(t, i, e, l, x) == Append(SubSeq(t, i, e - l), Mark) \o x

(* EndsWith, by the letters.                                               *)
LEMMA EndsAt ==
    ASSUME TypeOK, NEW t \in Text, NEW i \in 1..Len(t) + 1, NEW e \in i - 1..Len(t), NEW s \in secrets
    PROVE  EndsWith(SubSeq(t, i, e), s) <=>
               Len(s) \in 1..e - i + 1 /\ \A j \in 1..Len(s) : t[e - Len(s) + j] = s[j]
<1> DEFINE u == SubSeq(t, i, e)
           n == Len(s)
<1>1. s \in Seq(Letter) /\ n \in Nat \ {0} /\ t \in Seq(Letter)
  BY SecretIs DEF Text
<1>2. u \in Seq(Letter) /\ Len(u) = e - i + 1 /\ \A j \in 1..e - i + 1 : u[j] = t[i + j - 1]
  BY <1>1, SubSeqIs
<1> HIDE DEF u, n
<1>3. ASSUME n <= Len(u)
      PROVE  /\ Ending(u, n) \in Seq(Letter) /\ Len(Ending(u, n)) = n
             /\ \A j \in 1..n : Ending(u, n)[j] = t[e - n + j]
  <2>0. n \in 0..Len(u)
    BY <1>1, <1>2, <1>3
  <2>1. /\ Ending(u, n) \in Seq(Letter) /\ Len(Ending(u, n)) = n
        /\ \A j \in 1..n : Ending(u, n)[j] = u[Len(u) - n + j]
    BY <1>2, <2>0, EndingIs
  <2>2. \A j \in 1..n : Len(u) - n + j \in 1..e - i + 1 /\ i + (Len(u) - n + j) - 1 = e - n + j
    BY <1>1, <1>2, <1>3
  <2> QED
    BY <1>2, <2>1, <2>2
<1>4. Len(s) = n
  BY DEF n
<1>5. ASSUME EndsWith(u, s)
      PROVE  n \in 1..e - i + 1 /\ \A j \in 1..n : t[e - n + j] = s[j]
  <2>1. n <= Len(u) /\ Ending(u, n) = s
    BY <1>4, <1>5 DEF EndsWith
  <2> QED
    BY <1>1, <1>2, <1>3, <2>1
<1>6. ASSUME n \in 1..e - i + 1, \A j \in 1..n : t[e - n + j] = s[j]
      PROVE  EndsWith(u, s)
  <2>1. n <= Len(u)
    BY <1>1, <1>2, <1>6
  <2>2. Ending(u, n) = s
    BY <1>1, <1>3, <1>4, <1>6, <2>1, SameSeq
  <2> QED
    BY <1>4, <2>1, <2>2 DEF EndsWith
<1> QED
  BY <1>4, <1>5, <1>6 DEF u

\* The secrets that end at e, by their lengths.
LEMMA HitsAre ==
    ASSUME TypeOK, NEW t \in Text, NEW i \in 1..Len(t) + 1, NEW e \in i..Len(t)
    PROVE  {Len(s) : s \in Hits(t, i, e)} = {l \in 1..e - i + 1 : Occurs(t, e, l)}
<1>1. \A s \in secrets : EndsWith(SubSeq(t, i, e), s) <=>
          Len(s) \in 1..e - i + 1 /\ \A j \in 1..Len(s) : t[e - Len(s) + j] = s[j]
  <2>1. e \in i - 1..Len(t)
    OBVIOUS
  <2> QED
    BY <2>1, EndsAt
<1>2. ASSUME NEW s \in Hits(t, i, e)
      PROVE  Len(s) \in 1..e - i + 1 /\ Occurs(t, e, Len(s))
  BY <1>1, <1>2, Zenon DEF Hits, Occurs
<1>3. ASSUME NEW l \in 1..e - i + 1, Occurs(t, e, l)
      PROVE  \E s \in Hits(t, i, e) : l = Len(s)
  <2>1. PICK s \in secrets : Len(s) = l /\ \A j \in 1..l : t[e - l + j] = s[j]
    BY <1>3 DEF Occurs
  <2>2. EndsWith(SubSeq(t, i, e), s)
    BY <1>1, <2>1
  <2> QED
    BY <2>1, <2>2 DEF Hits
<1> QED
  BY <1>2, <1>3

\* The places where a secret ends.
LEMMA EndsAre ==
    ASSUME TypeOK, NEW t \in Text, NEW i \in 1..Len(t) + 1
    PROVE  Ends(t, i) = {e \in i..Len(t) : \E l \in 1..e - i + 1 : Occurs(t, e, l)}
<1>1. \A e \in i..Len(t) : (\E s \in secrets : EndsWith(SubSeq(t, i, e), s))
                           <=> \E l \in 1..e - i + 1 : Occurs(t, e, l)
  <2> TAKE e \in i..Len(t)
  <2>1. {Len(s) : s \in Hits(t, i, e)} = {l \in 1..e - i + 1 : Occurs(t, e, l)}
    BY HitsAre
  <2> QED
    BY <2>1, Zenon DEF Hits
<1> QED
  BY <1>1, Zenon DEF Ends

(* A set of numbers up to a bound has a greatest one.                      *)
LEMMA GreatestNumber ==
    ASSUME NEW n \in Nat, NEW T, T \subseteq 1..n, T # {}
    PROVE  \E m \in T : \A k \in T : k <= m
<1> DEFINE U == {d \in Nat : n - d \in T}
<1>1. \A k \in T : k \in 1..n /\ n - k \in Nat /\ n - (n - k) = k
  OBVIOUS
<1>2. \A k \in T : n - k \in U
  BY <1>1
<1>3. PICK d \in U : \A c \in U : d <= c
  BY <1>2, LeastNumber
<1>4. n - d \in T
  BY <1>3
<1>5. \A k \in T : k <= n - d
  BY <1>1, <1>2, <1>3
<1> QED
  BY <1>4, <1>5

\* Min and Max are what they are taken for.
LEMMA MinIs ==
    ASSUME NEW T, T \subseteq Nat, NEW e \in T, \A d \in T : e <= d
    PROVE  Min(T) = e
<1>1. Min(T) \in T /\ \A d \in T : Min(T) <= d
  BY Zenon DEF Min
<1>2. PICK m : m = Min(T)
  OBVIOUS
<1>3. m \in T /\ \A d \in T : m <= d
  BY <1>1, <1>2, Zenon
<1>4. m = e
  BY <1>3
<1> QED
  BY <1>2, <1>4

LEMMA MaxIs ==
    ASSUME NEW T, T \subseteq Nat, NEW l \in T, \A k \in T : k <= l
    PROVE  Max(T) = l
<1>0. \A k \in T : l >= k
  OBVIOUS
<1>1. Max(T) \in T /\ \A k \in T : Max(T) >= k
  BY <1>0, Zenon DEF Max
<1>2. PICK m : m = Max(T)
  OBVIOUS
<1>3. m \in T /\ \A k \in T : m >= k
  BY <1>1, <1>2, Zenon
<1>4. m = l
  BY <1>3
<1> QED
  BY <1>2, <1>4

(* From, by the places where secrets occur.                                *)
LEMMA FromFree ==
    ASSUME TypeOK, NEW t \in Text, NEW i \in 1..Len(t) + 1, Free(t, i), NEW f
    PROVE  From(t, i, f) = SubSeq(t, i, Len(t))
<1>1. Ends(t, i) = {}
  BY EndsAre DEF Free
<1> QED
  BY <1>1 DEF From

\* Where a secret occurs, all up to its end is decided.
LEMMA FromFirst ==
    ASSUME TypeOK, NEW t \in Text, NEW i \in 1..Len(t) + 1, NEW e, NEW l, First(t, i, e, l), NEW f
    PROVE  From(t, i, f) = Cover(t, i, e, l, f[e + 1])
<1>1. e \in i..Len(t) /\ l \in 1..e - i + 1 /\ Len(t) \in Nat
  BY DEF First, Text
<1>2. Ends(t, i) = {d \in i..Len(t) : \E k \in 1..d - i + 1 : Occurs(t, d, k)}
  BY EndsAre
<1>3. Min(Ends(t, i)) = e
  <2>1. Ends(t, i) \subseteq Nat /\ e \in Ends(t, i)
    BY <1>1, <1>2 DEF First
  <2>2. \A d \in Ends(t, i) : e <= d
    BY <1>1, <1>2 DEF First
  <2> QED
    BY <2>1, <2>2, MinIs
<1>4. Longest(t, i, e) = l
  <2> DEFINE T == {k \in 1..e - i + 1 : Occurs(t, e, k)}
  <2>1. T \subseteq Nat /\ l \in T /\ \A k \in T : k <= l
    BY <1>1 DEF First
  <2>2. Max(T) = l
    BY <2>1, MaxIs
  <2> QED
    BY <1>1, <2>2, HitsAre DEF Longest
<1>5. Ends(t, i) # {}
  BY <1>1, <1>2 DEF First
<1> QED
  BY <1>3, <1>4, <1>5 DEF From, Cover

\* One of the two is so.
LEMMA FreeOrFirst ==
    ASSUME TypeOK, NEW t \in Text, NEW i \in 1..Len(t) + 1
    PROVE  Free(t, i) \/ \E e, l : First(t, i, e, l)
<1> SUFFICES ASSUME ~Free(t, i)
             PROVE  \E e, l : First(t, i, e, l)
  OBVIOUS
<1> DEFINE T == {e \in i..Len(t) : \E l \in 1..e - i + 1 : Occurs(t, e, l)}
<1>1. T # {} /\ T \subseteq Nat
  BY DEF Free, Text
<1>2. PICK e \in T : \A d \in T : e <= d
  BY <1>1, LeastNumber
<1> DEFINE U == {l \in 1..e - i + 1 : Occurs(t, e, l)}
<1>3. U # {} /\ U \subseteq 1..e - i + 1 /\ e - i + 1 \in Nat
  BY DEF Text
<1>4. PICK l \in U : \A k \in U : k <= l
  BY <1>3, GreatestNumber
<1>5. First(t, i, e, l)
  <2>1. \A d \in i..e - 1 : d \notin T /\ d \in i..Len(t)
    BY <1>2 DEF Text
  <2>2. \A k \in l + 1..e - i + 1 : k \notin U /\ k \in 1..e - i + 1
    BY <1>4
  <2> QED
    BY <1>2, <1>4, <2>1, <2>2 DEF First
<1> QED
  BY <1>5

\* What is shown from a place on depends on the places behind it only.
LEMMA FromAgrees ==
    ASSUME TypeOK, NEW t \in Text, NEW i \in 1..Len(t) + 1, NEW f, NEW g,
           \A j \in i + 1..Len(t) + 1 : f[j] = g[j]
    PROVE  From(t, i, f) = From(t, i, g)
<1>1. CASE Free(t, i)
  BY <1>1, FromFree
<1>2. ASSUME NEW e, NEW l, First(t, i, e, l)
      PROVE  From(t, i, f) = From(t, i, g)
  <2>1. e + 1 \in i + 1..Len(t) + 1
    BY <1>2 DEF First, Text
  <2>2. f[e + 1] = g[e + 1]
    BY <2>1
  <2>3. From(t, i, f) = Cover(t, i, e, l, f[e + 1])
    BY <1>2, FromFirst
  <2>4. From(t, i, g) = Cover(t, i, e, l, g[e + 1])
    BY <1>2, FromFirst
  <2> QED
    BY <2>2, <2>3, <2>4
<1> QED
  BY <1>1, <1>2, FreeOrFirst

\* The recursion of the scan defines a function: it can be built from the last
\* place down.
LEMMA ScanExists ==
    ASSUME TypeOK, NEW t \in Text
    PROVE  IsScan(t, CHOOSE f : IsScan(t, f))
<1> DEFINE n == Len(t) + 1
           D == {i \in 1..n : \E f : \A j \in i..n : f[j] = From(t, j, f)}
<1>1. n \in Nat /\ 1 \in 1..n
  BY DEF Text
<1>2. ASSUME NEW i \in 1..n, \A j \in i + 1..n : j \in D
      PROVE  i \in D
  <2>1. PICK f : \A j \in i + 1..n : f[j] = From(t, j, f)
    <3>1. CASE i = n
      BY <1>1, <3>1
    <3>2. CASE i # n
      <4>1. i + 1 \in i + 1..n
        BY <1>1, <3>2
      <4> QED
        BY <1>2, <4>1
    <3> QED
      BY <3>1, <3>2
  <2> DEFINE g == [j \in i..n |-> IF j = i THEN From(t, i, f) ELSE f[j]]
  <2>2. \A j \in i + 1..n : j \in i..n /\ j # i
    BY <1>1
  <2>3. g[i] = From(t, i, f) /\ \A j \in i + 1..n : g[j] = f[j]
    <3>1. i \in i..n
      BY <1>1
    <3> QED
      BY <2>2, <3>1
  <2> HIDE DEF g
  <2>4. \A j \in i..n : From(t, j, g) = From(t, j, f)
    <3> TAKE j \in i..n
    <3>1. j \in 1..n /\ \A k \in j + 1..n : k \in i + 1..n
      BY <1>1
    <3>2. \A k \in j + 1..n : g[k] = f[k]
      BY <2>3, <3>1
    <3> QED
      BY <3>1, <3>2, FromAgrees
  <2>5. \A j \in i..n : g[j] = From(t, j, g)
    <3> TAKE j \in i..n
    <3>1. j = i \/ j \in i + 1..n
      BY <1>1
    <3> QED
      BY <2>1, <2>3, <2>4, <3>1
  <2> QED
    BY <2>5
<1>3. 1 \in D
  <2> HIDE DEF n, D
  <2> QED
    BY <1>1, <1>2, Downward
<1>4. PICK f : \A j \in 1..n : f[j] = From(t, j, f)
  BY <1>3
<1> DEFINE g == [j \in 1..n |-> From(t, j, f)]
<1>5. \A j \in 1..n : From(t, j, g) = From(t, j, f)
  <2> TAKE j \in 1..n
  <2>1. \A k \in j + 1..n : k \in 1..n
    BY <1>1
  <2>2. \A k \in j + 1..n : g[k] = f[k]
    BY <1>4, <2>1
  <2> HIDE DEF g
  <2> QED
    BY <2>2, FromAgrees
<1>6. IsScan(t, g)
  BY <1>5, Zenon DEF IsScan
<1> HIDE DEF g
<1> QED
  BY <1>6, Zenon

(* What is shown from each place on.                                       *)
Shown(t, i) == (CHOOSE f : IsScan(t, f))[i]

\* The two equations of the scan.
LEMMA ShownFree ==
    ASSUME TypeOK, NEW t \in Text, NEW i \in 1..Len(t) + 1, Free(t, i)
    PROVE  Shown(t, i) = SubSeq(t, i, Len(t))
<1> DEFINE f == CHOOSE f : IsScan(t, f)
<1>1. IsScan(t, f)
  BY ScanExists
<1> HIDE DEF f
<1>2. f[i] = From(t, i, f)
  BY <1>1 DEF IsScan
<1>3. f[i] = SubSeq(t, i, Len(t))
  BY <1>2, FromFree
<1> QED
  BY <1>3 DEF Shown, f

LEMMA ShownFirst ==
    ASSUME TypeOK, NEW t \in Text, NEW i \in 1..Len(t) + 1, NEW e, NEW l, First(t, i, e, l)
    PROVE  Shown(t, i) = Cover(t, i, e, l, Shown(t, e + 1))
<1> DEFINE f == CHOOSE f : IsScan(t, f)
<1>1. IsScan(t, f)
  BY ScanExists
<1> HIDE DEF f
<1>2. f[i] = From(t, i, f)
  BY <1>1 DEF IsScan
<1>3. From(t, i, f) = Cover(t, i, e, l, f[e + 1])
  BY FromFirst
<1> QED
  BY <1>2, <1>3 DEF Shown, f

\* What is shown is made of letters and marks.
LEMMA PieceIs ==
    ASSUME NEW t \in Text, NEW i \in Nat \ {0}, NEW e \in Nat, e <= Len(t), i <= e + 1
    PROVE  SubSeq(t, i, e) \in Seq(Symbol) /\ Append(SubSeq(t, i, e), Mark) \in Seq(Symbol)
<1>1. t \in Seq(Letter)
  BY DEF Text
<1>2. SubSeq(t, i, e) \in Seq(Letter)
  BY <1>1, SubSeqIs
<1>3. SubSeq(t, i, e) \in Seq(Symbol)
  <2>1. \A S, U : S \subseteq U => Seq(S) \subseteq Seq(U)
    OBVIOUS
  <2> QED
    BY <1>2, <2>1 DEF Symbol
<1>4. Mark \in Symbol
  BY DEF Symbol
<1> QED
  BY <1>3, <1>4

LEMMA ShownTyped ==
    ASSUME TypeOK, NEW t \in Text
    PROVE  \A i \in 1..Len(t) + 1 : Shown(t, i) \in Seq(Symbol)
<1> DEFINE n == Len(t) + 1
           D == {i \in 1..n : Shown(t, i) \in Seq(Symbol)}
<1>1. n \in Nat /\ Len(t) \in Nat
  BY DEF Text
<1>2. ASSUME NEW i \in 1..n, \A j \in i + 1..n : j \in D
      PROVE  i \in D
  <2>1. CASE Free(t, i)
    <3>1. Shown(t, i) = SubSeq(t, i, Len(t))
      BY <2>1, ShownFree
    <3>2. Len(t) <= Len(t) /\ i <= Len(t) + 1 /\ i \in Nat \ {0}
      BY <1>1
    <3>3. Shown(t, i) \in Seq(Symbol)
      BY <1>1, <3>1, <3>2, PieceIs
    <3> QED
      BY <3>3
  <2>2. ASSUME NEW e, NEW l, First(t, i, e, l)
        PROVE  i \in D
    <3>1. Shown(t, i) = Cover(t, i, e, l, Shown(t, e + 1))
      BY <2>2, ShownFirst
    <3>2. e \in i..Len(t) /\ l \in 1..e - i + 1
      BY <2>2 DEF First
    <3>3. e - l \in Nat /\ e - l <= Len(t) /\ i <= e - l + 1 /\ e + 1 \in i + 1..n /\ i \in Nat \ {0}
      BY <1>1, <3>2
    <3>4. Append(SubSeq(t, i, e - l), Mark) \in Seq(Symbol)
      BY <3>3, PieceIs
    <3>5. Shown(t, e + 1) \in Seq(Symbol)
      BY <1>2, <3>3
    <3>6. Shown(t, i) \in Seq(Symbol)
      BY <3>1, <3>4, <3>5 DEF Cover
    <3> QED
      BY <3>6
  <2> QED
    BY <2>1, <2>2, FreeOrFirst
<1>3. \A i \in 1..n : i \in D
  <2> HIDE DEF n, D
  <2> QED
    BY <1>1, <1>2, Downward
<1> QED
  BY <1>3

-----------------------------------------------------------------------------
(* Two texts, one behind the other.                                        *)

LEMMA JoinedIs ==
    ASSUME NEW a \in Text, NEW b \in Text
    PROVE  /\ a \o b \in Text /\ Len(a \o b) = Len(a) + Len(b) /\ Len(a) \in Nat /\ Len(b) \in Nat
           /\ \A j \in 1..Len(a) : (a \o b)[j] = a[j]
           /\ \A j \in 1..Len(b) : (a \o b)[Len(a) + j] = b[j]
<1>1. a \in Seq(Letter) /\ b \in Seq(Letter) /\ Len(a) \in Nat /\ Len(b) \in Nat
  BY DEF Text
<1>2. /\ a \o b \in Seq(Letter) /\ Len(a \o b) = Len(a) + Len(b)
      /\ \A j \in 1..Len(a) : (a \o b)[j] = a[j]
      /\ \A j \in Len(a) + 1..Len(a) + Len(b) : (a \o b)[j] = b[j - Len(a)]
  BY <1>1, ConcatIs
<1>3. \A j \in 1..Len(b) : Len(a) + j \in Len(a) + 1..Len(a) + Len(b) /\ Len(a) + j - Len(a) = j
  BY <1>1
<1> QED
  BY <1>1, <1>2, <1>3 DEF Text

\* An occurrence depends on the characters it covers only.
LEMMA OccursSame ==
    ASSUME NEW u, NEW v, NEW d \in Nat, NEW e \in Nat, NEW l \in 1..e,
           \A j \in e - l + 1..e : u[j] = v[d + j]
    PROVE  Occurs(u, e, l) <=> Occurs(v, d + e, l)
<1>1. \A j \in 1..l : e - l + j \in e - l + 1..e /\ d + (e - l + j) = d + e - l + j
  OBVIOUS
<1>2. \A j \in 1..l : u[e - l + j] = v[d + e - l + j]
  BY <1>1
<1> QED
  BY <1>2 DEF Occurs

\* Secrets in the first text,
LEMMA OccursFirst ==
    ASSUME NEW a \in Text, NEW b \in Text, NEW e \in 1..Len(a), NEW l \in 1..e
    PROVE  Occurs(a \o b, e, l) <=> Occurs(a, e, l)
<1>1. e \in Nat /\ 0 + e = e
  BY DEF Text
<1>2. \A j \in e - l + 1..e : a[j] = (a \o b)[0 + j]
  <2> TAKE j \in e - l + 1..e
  <2>1. j \in 1..Len(a) /\ 0 + j = j
    BY <1>1 DEF Text
  <2> QED
    BY <2>1, JoinedIs
<1>3. Occurs(a, e, l) <=> Occurs(a \o b, 0 + e, l)
  BY <1>1, <1>2, OccursSame
<1> QED
  BY <1>1, <1>3

\* and in the second.
LEMMA OccursSecond ==
    ASSUME NEW a \in Text, NEW b \in Text, NEW e \in 1..Len(b), NEW l \in 1..e
    PROVE  Occurs(a \o b, Len(a) + e, l) <=> Occurs(b, e, l)
<1>1. e \in Nat /\ Len(a) \in Nat
  BY DEF Text
<1>2. \A j \in e - l + 1..e : b[j] = (a \o b)[Len(a) + j]
  <2> TAKE j \in e - l + 1..e
  <2>1. j \in 1..Len(b)
    BY <1>1 DEF Text
  <2> QED
    BY <2>1, JoinedIs
<1> QED
  BY <1>1, <1>2, OccursSame

\* Pieces of the first text, of the second,
LEMMA PieceFirst ==
    ASSUME NEW a \in Text, NEW b \in Text, NEW i \in Nat \ {0}, NEW e \in Nat, e <= Len(a), i <= e + 1
    PROVE  SubSeq(a \o b, i, e) = SubSeq(a, i, e)
<1> DEFINE u == SubSeq(a \o b, i, e)
           v == SubSeq(a, i, e)
<1>1. /\ a \o b \in Seq(Letter) /\ a \in Seq(Letter) /\ Len(a) \in Nat /\ e <= Len(a \o b)
      /\ \A j \in 1..Len(a) : (a \o b)[j] = a[j]
  BY JoinedIs DEF Text
<1>2. u \in Seq(Letter) /\ Len(u) = e - i + 1 /\ \A j \in 1..e - i + 1 : u[j] = (a \o b)[i + j - 1]
  BY <1>1, SubSeqIs
<1>3. v \in Seq(Letter) /\ Len(v) = e - i + 1 /\ \A j \in 1..e - i + 1 : v[j] = a[i + j - 1]
  BY <1>1, SubSeqIs
<1> HIDE DEF u, v
<1>4. \A j \in 1..Len(u) : u[j] = v[j]
  <2> TAKE j \in 1..Len(u)
  <2>1. j \in 1..e - i + 1 /\ i + j - 1 \in 1..Len(a)
    BY <1>1, <1>2
  <2> QED
    BY <1>1, <1>2, <1>3, <2>1
<1>5. u = v
  BY <1>2, <1>3, <1>4, SameSeq
<1> QED
  BY <1>5 DEF u, v

LEMMA PieceSecond ==
    ASSUME NEW a \in Text, NEW b \in Text, NEW i \in Nat \ {0}, NEW e \in Nat, e <= Len(b), i <= e + 1
    PROVE  SubSeq(a \o b, Len(a) + i, Len(a) + e) = SubSeq(b, i, e)
<1> DEFINE u == SubSeq(a \o b, Len(a) + i, Len(a) + e)
           v == SubSeq(b, i, e)
           m == Len(a)
<1>1. /\ a \o b \in Seq(Letter) /\ b \in Seq(Letter) /\ m \in Nat /\ Len(b) \in Nat /\ m + e <= Len(a \o b)
      /\ \A j \in 1..Len(b) : (a \o b)[m + j] = b[j]
  BY JoinedIs DEF Text
<1>2. u \in Seq(Letter) /\ Len(u) = e - i + 1 /\ \A j \in 1..e - i + 1 : u[j] = (a \o b)[m + i + j - 1]
  <2>1. m + i \in Nat \ {0} /\ m + e \in Nat /\ m + i <= m + e + 1 /\ m + e - (m + i) + 1 = e - i + 1
    BY <1>1
  <2> QED
    BY <1>1, <2>1, SubSeqIs
<1>3. v \in Seq(Letter) /\ Len(v) = e - i + 1 /\ \A j \in 1..e - i + 1 : v[j] = b[i + j - 1]
  BY <1>1, SubSeqIs
<1> HIDE DEF u, v, m
<1>4. \A j \in 1..Len(u) : u[j] = v[j]
  <2> TAKE j \in 1..Len(u)
  <2>1. j \in 1..e - i + 1 /\ i + j - 1 \in 1..Len(b) /\ m + i + j - 1 = m + (i + j - 1)
    BY <1>1, <1>2
  <2> QED
    BY <1>1, <1>2, <1>3, <2>1
<1>5. u = v
  BY <1>2, <1>3, <1>4, SameSeq
<1> QED
  BY <1>5 DEF u, v

\* and across the boundary.
LEMMA PieceBoth ==
    ASSUME NEW a \in Text, NEW b \in Text, NEW i \in 1..Len(a) + 1, NEW e \in 0..Len(b)
    PROVE  SubSeq(a \o b, i, Len(a) + e) = SubSeq(a, i, Len(a)) \o SubSeq(b, 1, e)
<1> DEFINE u == SubSeq(a \o b, i, Len(a) + e)
           v == SubSeq(a, i, Len(a))
           w == SubSeq(b, 1, e)
           m == Len(a)
<1>1. /\ a \o b \in Seq(Letter) /\ a \in Seq(Letter) /\ b \in Seq(Letter)
      /\ m \in Nat /\ Len(b) \in Nat /\ m + e <= Len(a \o b)
      /\ \A j \in 1..Len(b) : (a \o b)[m + j] = b[j]
      /\ \A j \in 1..m : (a \o b)[j] = a[j]
  BY JoinedIs DEF Text
<1>2. u \in Seq(Letter) /\ Len(u) = m + e - i + 1 /\ \A j \in 1..m + e - i + 1 : u[j] = (a \o b)[i + j - 1]
  <2>1. i \in Nat \ {0} /\ m + e \in Nat /\ i <= m + e + 1
    BY <1>1
  <2> QED
    BY <1>1, <2>1, SubSeqIs
<1>3. v \in Seq(Letter) /\ Len(v) = m - i + 1 /\ \A j \in 1..m - i + 1 : v[j] = a[i + j - 1]
  <2>1. i \in Nat \ {0} /\ i <= m + 1 /\ m <= Len(a)
    BY <1>1
  <2> QED
    BY <1>1, <2>1, SubSeqIs
<1>4. w \in Seq(Letter) /\ Len(w) = e /\ \A j \in 1..e : w[j] = b[j]
  <2>1. e \in Nat /\ e <= Len(b) /\ 1 <= e + 1 /\ e - 1 + 1 = e /\ \A j \in 1..e : 1 + j - 1 = j
    BY <1>1
  <2> QED
    BY <1>1, <2>1, SubSeqIs
<1> HIDE DEF u, v, w, m
<1>5. /\ v \o w \in Seq(Letter) /\ Len(v \o w) = Len(v) + Len(w)
      /\ \A j \in 1..Len(v) : (v \o w)[j] = v[j]
      /\ \A j \in Len(v) + 1..Len(v) + Len(w) : (v \o w)[j] = w[j - Len(v)]
  <2>1. v \in Seq(Letter) /\ w \in Seq(Letter)
    BY <1>3, <1>4
  <2> QED
    BY <2>1, ConcatIs, Zenon
<1>6. \A j \in 1..Len(u) : u[j] = (v \o w)[j]
  <2> TAKE j \in 1..Len(u)
  <2>0. j \in 1..m + e - i + 1
    BY <1>2
  <2>1. CASE j <= m - i + 1
    <3>1. j \in 1..m - i + 1 /\ i + j - 1 \in 1..m /\ j \in 1..Len(v)
      BY <1>1, <1>3, <2>0, <2>1
    <3> QED
      BY <1>1, <1>2, <1>3, <1>5, <2>0, <3>1
  <2>2. CASE ~(j <= m - i + 1)
    <3> DEFINE k == j - (m - i + 1)
    <3>1. k \in 1..e /\ k \in 1..Len(b) /\ i + j - 1 = m + k
      BY <1>1, <2>0, <2>2
    <3>2. u[j] = b[k]
      BY <1>1, <1>2, <2>0, <3>1
    <3>3. j \in Len(v) + 1..Len(v) + Len(w) /\ j - Len(v) = k
      BY <1>1, <1>3, <1>4, <2>0, <2>2
    <3> QED
      BY <1>4, <1>5, <3>1, <3>2, <3>3
  <2> QED
    BY <2>1, <2>2
<1>7. Len(u) = Len(v \o w)
  BY <1>1, <1>2, <1>3, <1>4, <1>5
<1>8. u = v \o w
  BY <1>2, <1>5, <1>6, <1>7, SameSeq
<1> QED
  BY <1>8 DEF u, v, w, m

\* Behind the boundary the scan goes as it does on the second text alone.
LEMMA ShownSecond ==
    ASSUME TypeOK, NEW a \in Text, NEW b \in Text
    PROVE  \A i \in 1..Len(b) + 1 : Shown(a \o b, Len(a) + i) = Shown(b, i)
<1> DEFINE t == a \o b
           m == Len(a)
           n == Len(b) + 1
           D == {i \in 1..n : Shown(t, m + i) = Shown(b, i)}
<1>1. t \in Text /\ m \in Nat /\ Len(b) \in Nat /\ n \in Nat /\ Len(t) = m + Len(b)
  BY JoinedIs
<1>2. \A e \in 1..Len(b) : \A l \in 1..e : Occurs(t, m + e, l) <=> Occurs(b, e, l)
  BY OccursSecond
<1>3. \A i \in Nat \ {0} : \A e \in Nat : e <= Len(b) /\ i <= e + 1 =>
          SubSeq(t, m + i, m + e) = SubSeq(b, i, e)
  BY PieceSecond
<1> HIDE DEF t, m
<1>4. ASSUME NEW i \in 1..n, \A j \in i + 1..n : j \in D
      PROVE  i \in D
  <2>0. m + i \in 1..Len(t) + 1
    BY <1>1
  <2>1. CASE Free(b, i)
    <3>1. \A d \in m + i..Len(t) : \A l \in 1..d - (m + i) + 1 : ~Occurs(t, d, l)
      <4> TAKE d \in m + i..Len(t)
      <4> TAKE l \in 1..d - (m + i) + 1
      <4>1. d - m \in i..Len(b) /\ l \in 1..(d - m) - i + 1 /\ l \in 1..d - m /\ m + (d - m) = d
            /\ d - m \in 1..Len(b)
        BY <1>1
      <4>2. ~Occurs(b, d - m, l)
        BY <2>1, <4>1 DEF Free
      <4> QED
        BY <1>2, <4>1, <4>2
    <3>2. Free(t, m + i)
      BY <3>1 DEF Free
    <3>3. Shown(t, m + i) = SubSeq(t, m + i, Len(t))
      BY <1>1, <2>0, <3>2, ShownFree
    <3>4. Shown(b, i) = SubSeq(b, i, Len(b))
      BY <2>1, ShownFree
    <3>5. SubSeq(t, m + i, m + Len(b)) = SubSeq(b, i, Len(b))
      BY <1>1, <1>3
    <3> QED
      BY <1>1, <3>3, <3>4, <3>5
  <2>2. ASSUME NEW e, NEW l, First(b, i, e, l)
        PROVE  i \in D
    <3>0. e \in i..Len(b) /\ l \in 1..e - i + 1 /\ e \in 1..Len(b) /\ l \in 1..e
      BY <1>1, <2>2 DEF First
    <3>1. m + e \in m + i..Len(t) /\ l \in 1..(m + e) - (m + i) + 1 /\ Occurs(t, m + e, l)
      BY <1>1, <1>2, <2>2, <3>0 DEF First
    <3>2. \A k \in l + 1..(m + e) - (m + i) + 1 : ~Occurs(t, m + e, k)
      <4> TAKE k \in l + 1..(m + e) - (m + i) + 1
      <4>1. k \in l + 1..e - i + 1 /\ k \in 1..e
        BY <1>1, <3>0
      <4>2. ~Occurs(b, e, k)
        BY <2>2, <4>1 DEF First
      <4> QED
        BY <1>2, <3>0, <4>1, <4>2
    <3>3. \A d \in m + i..(m + e) - 1 : \A k \in 1..d - (m + i) + 1 : ~Occurs(t, d, k)
      <4> TAKE d \in m + i..(m + e) - 1
      <4> TAKE k \in 1..d - (m + i) + 1
      <4>1. d - m \in i..e - 1 /\ k \in 1..(d - m) - i + 1 /\ k \in 1..d - m /\ m + (d - m) = d
            /\ d - m \in 1..Len(b)
        BY <1>1, <3>0
      <4>2. ~Occurs(b, d - m, k)
        BY <2>2, <4>1 DEF First
      <4> QED
        BY <1>2, <4>1, <4>2
    <3>4. First(t, m + i, m + e, l)
      BY <3>1, <3>2, <3>3 DEF First
    <3>5. Shown(t, m + i) = Cover(t, m + i, m + e, l, Shown(t, m + e + 1))
      BY <1>1, <2>0, <3>4, ShownFirst
    <3>6. Shown(b, i) = Cover(b, i, e, l, Shown(b, e + 1))
      BY <2>2, ShownFirst
    <3>7. Shown(t, m + e + 1) = Shown(b, e + 1)
      <4>1. e + 1 \in i + 1..n /\ m + (e + 1) = m + e + 1
        BY <1>1, <3>0
      <4> QED
        BY <1>4, <4>1
    <3>8. SubSeq(t, m + i, (m + e) - l) = SubSeq(b, i, e - l)
      <4>1. e - l \in Nat /\ e - l <= Len(b) /\ i <= e - l + 1 /\ i \in Nat \ {0} /\ (m + e) - l = m + (e - l)
        BY <1>1, <3>0
      <4> QED
        BY <1>3, <4>1
    <3>9. Cover(t, m + i, m + e, l, Shown(b, e + 1)) = Cover(b, i, e, l, Shown(b, e + 1))
      BY <3>8, Zenon DEF Cover
    <3> QED
      BY <3>5, <3>6, <3>7, <3>9
  <2> QED
    BY <2>1, <2>2, FreeOrFirst
<1>5. \A i \in 1..n : i \in D
  <2> HIDE DEF n, D
  <2> QED
    BY <1>1, <1>4, Downward
<1> QED
  BY <1>5 DEF t, m

(* Wherever a secret stands across the boundary, one ends at it that       *)
(* begins no earlier: the scan will have passed the boundary by then.      *)
Severed(a, b) ==
    \A e \in Len(a) + 1..Len(a) + Len(b) : \A l \in e - Len(a) + 1..e :
        Occurs(a \o b, e, l) => \E k \in 1..l - (e - Len(a)) : Occurs(a \o b, Len(a), k)

\* When no secret is left in the first text, none stands across the boundary.
LEMMA JoinFree ==
    ASSUME TypeOK, NEW a \in Text, NEW b \in Text, Severed(a, b),
           NEW i \in 1..Len(a) + 1, Free(a, i)
    PROVE  \A d \in i..Len(a) + Len(b) : \A k \in 1..d - i + 1 :
               Occurs(a \o b, d, k) => d > Len(a) /\ k <= d - Len(a)
<1> TAKE d \in i..Len(a) + Len(b)
<1> TAKE k \in 1..d - i + 1
<1>1. Len(a) \in Nat /\ Len(b) \in Nat
  BY JoinedIs
<1> SUFFICES ASSUME Occurs(a \o b, d, k), ~(d > Len(a) /\ k <= d - Len(a))
             PROVE  FALSE
  OBVIOUS
<1>2. CASE d <= Len(a)
  <2>1. d \in i..Len(a) /\ d \in 1..Len(a) /\ k \in 1..d
    BY <1>1, <1>2
  <2>2. Occurs(a, d, k)
    BY <2>1, OccursFirst
  <2> QED
    BY <2>1, <2>2 DEF Free
<1>3. CASE ~(d <= Len(a))
  <2>1. d \in Len(a) + 1..Len(a) + Len(b) /\ k \in d - Len(a) + 1..d
    BY <1>1, <1>3
  <2>2. PICK j \in 1..k - (d - Len(a)) : Occurs(a \o b, Len(a), j)
    BY <2>1 DEF Severed
  <2>3. Len(a) \in i..Len(a) /\ Len(a) \in 1..Len(a) /\ j \in 1..Len(a) - i + 1 /\ j \in 1..Len(a)
    BY <1>1, <2>1, <2>2
  <2>4. Occurs(a, Len(a), j)
    BY <2>2, <2>3, OccursFirst
  <2> QED
    BY <2>3, <2>4 DEF Free
<1> QED
  BY <1>2, <1>3

\* Associativity.
LEMMA AppendJoin ==
    ASSUME NEW S, NEW u \in Seq(S), NEW v \in Seq(S), NEW c \in S
    PROVE  Append(u, c) \in Seq(S) /\ Append(v \o u, c) = v \o Append(u, c)
  OBVIOUS

LEMMA JoinJoin ==
    ASSUME NEW S, NEW u \in Seq(S), NEW v \in Seq(S), NEW w \in Seq(S)
    PROVE  (u \o v) \o w = u \o (v \o w)
  OBVIOUS

\* When no secret is severed, what is shown of the two is what is shown of
\* each: the scan never steps over the boundary but where it lies.
LEMMA ShownJoin ==
    ASSUME TypeOK, NEW a \in Text, NEW b \in Text, Severed(a, b)
    PROVE  \A i \in 1..Len(a) + 1 : Shown(a \o b, i) = Shown(a, i) \o Shown(b, 1)
<1> DEFINE t == a \o b
           m == Len(a)
           n == Len(a) + 1
           D == {i \in 1..n : Shown(t, i) = Shown(a, i) \o Shown(b, 1)}
<1>1. t \in Text /\ m \in Nat /\ Len(b) \in Nat /\ n \in Nat /\ Len(t) = m + Len(b) /\ n = m + 1
  BY JoinedIs
<1>2. \A e \in 1..m : \A l \in 1..e : Occurs(t, e, l) <=> Occurs(a, e, l)
  BY OccursFirst
<1>3. \A e \in 1..Len(b) : \A l \in 1..e : Occurs(t, m + e, l) <=> Occurs(b, e, l)
  BY OccursSecond
<1>4. \A i \in 1..n : \A e \in 0..Len(b) : SubSeq(t, i, m + e) = SubSeq(a, i, m) \o SubSeq(b, 1, e)
  BY PieceBoth
<1>5. \A i \in Nat \ {0} : \A e \in Nat : e <= m /\ i <= e + 1 => SubSeq(t, i, e) = SubSeq(a, i, e)
  BY PieceFirst
<1>6. \A i \in 1..n : Free(a, i) =>
          \A d \in i..m + Len(b) : \A k \in 1..d - i + 1 : Occurs(t, d, k) => d > m /\ k <= d - m
  BY JoinFree
<1>7. \A i \in 1..Len(b) + 1 : Shown(t, m + i) = Shown(b, i)
  BY ShownSecond
<1>8. 1 \in 1..Len(b) + 1 /\ Len(b) \in 0..Len(b) /\ \A i \in 1..n : i \in 1..Len(t) + 1
  BY <1>1
<1>9. /\ \A i \in 1..n : Shown(a, i) \in Seq(Symbol)
      /\ \A i \in 1..Len(b) + 1 : Shown(b, i) \in Seq(Symbol)
  BY ShownTyped
<1>10. a \in Seq(Letter) /\ b \in Seq(Letter)
  BY DEF Text
<1> HIDE DEF t, m
<1>11. ASSUME NEW i \in 1..n, \A j \in i + 1..n : j \in D
       PROVE  i \in D
  <2>1. CASE Free(a, i) /\ Free(b, 1)
    <3>1. \A d \in i..Len(t) : \A k \in 1..d - i + 1 : ~Occurs(t, d, k)
      <4> SUFFICES ASSUME NEW d \in i..Len(t), NEW k \in 1..d - i + 1, Occurs(t, d, k)
                   PROVE  FALSE
        OBVIOUS
      <4>1. d > m /\ k <= d - m
        BY <1>1, <1>6, <2>1
      <4>2. d - m \in 1..Len(b) /\ k \in 1..(d - m) - 1 + 1 /\ k \in 1..d - m /\ m + (d - m) = d
        BY <1>1, <4>1
      <4>3. ~Occurs(b, d - m, k)
        BY <2>1, <4>2 DEF Free
      <4> QED
        BY <1>3, <4>2, <4>3
    <3>2. Free(t, i)
      BY <3>1 DEF Free
    <3>3. Shown(t, i) = SubSeq(t, i, Len(t))
      BY <1>1, <1>8, <3>2, ShownFree
    <3>4. Shown(a, i) = SubSeq(a, i, m)
      BY <2>1, ShownFree DEF m
    <3>5. Shown(b, 1) = SubSeq(b, 1, Len(b))
      BY <1>8, <2>1, ShownFree
    <3>6. SubSeq(t, i, m + Len(b)) = SubSeq(a, i, m) \o SubSeq(b, 1, Len(b))
      BY <1>4, <1>8
    <3> QED
      BY <1>1, <3>3, <3>4, <3>5, <3>6
  <2>2. ASSUME Free(a, i), NEW e, NEW l, First(b, 1, e, l)
        PROVE  i \in D
    <3>0. e \in 1..Len(b) /\ l \in 1..e - 1 + 1 /\ l \in 1..e
      BY <1>1, <2>2 DEF First
    <3>1. m + e \in i..Len(t) /\ l \in 1..(m + e) - i + 1 /\ Occurs(t, m + e, l)
      <4>1. Occurs(b, e, l)
        BY <2>2 DEF First
      <4>2. Occurs(t, m + e, l)
        BY <1>3, <3>0, <4>1
      <4> QED
        BY <1>1, <3>0, <4>2
    <3>2. \A k \in l + 1..(m + e) - i + 1 : ~Occurs(t, m + e, k)
      <4> SUFFICES ASSUME NEW k \in l + 1..(m + e) - i + 1, Occurs(t, m + e, k)
                   PROVE  FALSE
        OBVIOUS
      <4>1. m + e \in i..m + Len(b) /\ k \in 1..(m + e) - i + 1
        BY <1>1, <3>0
      <4>2. k <= (m + e) - m
        BY <1>6, <2>2, <4>1
      <4>3. k \in l + 1..e - 1 + 1 /\ k \in 1..e
        BY <1>1, <3>0, <4>2
      <4>4. ~Occurs(b, e, k)
        BY <2>2, <4>3 DEF First
      <4> QED
        BY <1>3, <3>0, <4>3, <4>4
    <3>3. \A d \in i..(m + e) - 1 : \A k \in 1..d - i + 1 : ~Occurs(t, d, k)
      <4> SUFFICES ASSUME NEW d \in i..(m + e) - 1, NEW k \in 1..d - i + 1, Occurs(t, d, k)
                   PROVE  FALSE
        OBVIOUS
      <4>0. d \in i..m + Len(b)
        BY <1>1, <3>0
      <4>1. d > m /\ k <= d - m
        BY <1>6, <2>2, <4>0
      <4>2. /\ d - m \in 1..e - 1 /\ k \in 1..(d - m) - 1 + 1 /\ k \in 1..d - m /\ m + (d - m) = d
            /\ d - m \in 1..Len(b)
        BY <1>1, <3>0, <4>1
      <4>3. ~Occurs(b, d - m, k)
        BY <2>2, <4>2 DEF First
      <4> QED
        BY <1>3, <4>2, <4>3
    <3>4. First(t, i, m + e, l)
      BY <3>1, <3>2, <3>3 DEF First
    <3>5. Shown(t, i) = Cover(t, i, m + e, l, Shown(t, m + e + 1))
      BY <1>1, <1>8, <3>4, ShownFirst
    <3>6. Shown(b, 1) = Cover(b, 1, e, l, Shown(b, e + 1))
      BY <1>8, <2>2, ShownFirst
    <3>7. Shown(t, m + e + 1) = Shown(b, e + 1) /\ Shown(b, e + 1) \in Seq(Symbol)
      <4>1. e + 1 \in 1..Len(b) + 1 /\ m + (e + 1) = m + e + 1
        BY <1>1, <3>0
      <4> QED
        BY <1>7, <1>9, <4>1
    <3>8. Shown(a, i) = SubSeq(a, i, m) /\ SubSeq(a, i, m) \in Seq(Symbol)
      <4>1. Shown(a, i) = SubSeq(a, i, m)
        BY <2>2, ShownFree DEF m
      <4> QED
        BY <1>9, <4>1
    <3> DEFINE u == SubSeq(b, 1, e - l)
               v == SubSeq(a, i, m)
               x == Shown(b, e + 1)
    <3>9. SubSeq(t, i, (m + e) - l) = v \o u /\ u \in Seq(Symbol)
      <4>1. e - l \in 0..Len(b) /\ (m + e) - l = m + (e - l)
        BY <1>1, <3>0
      <4>2. SubSeq(t, i, m + (e - l)) = v \o u
        BY <1>4, <4>1
      <4>3. u \in Seq(Symbol)
        <5>1. e - l \in Nat /\ e - l <= Len(b) /\ 1 <= e - l + 1 /\ 1 \in Nat \ {0}
          BY <1>1, <3>0
        <5> QED
          BY <5>1, PieceIs
      <4> QED
        BY <4>1, <4>2, <4>3
    <3> DEFINE w == Append(u, Mark)
    <3>10. Shown(t, i) = Append(SubSeq(t, i, (m + e) - l), Mark) \o x
      BY <3>5, <3>7, Zenon DEF Cover
    <3>11. Shown(b, 1) = w \o x
      BY <3>6, Zenon DEF Cover
    <3>12. v \in Seq(Symbol) /\ x \in Seq(Symbol) /\ Mark \in Symbol
      BY <3>7, <3>8 DEF Symbol
    <3> HIDE DEF u, v, x
    <3>13. w \in Seq(Symbol) /\ Append(v \o u, Mark) = v \o w
      BY <3>9, <3>12, AppendJoin
    <3> HIDE DEF w
    <3>14. (v \o w) \o x = v \o (w \o x)
      BY <3>12, <3>13, JoinJoin
    <3>15. Shown(t, i) = v \o (w \o x)
      BY <3>9, <3>10, <3>13, <3>14, Zenon
    <3>16. Shown(t, i) = Shown(a, i) \o Shown(b, 1)
      BY <3>8, <3>11, <3>15, Zenon DEF v
    <3> QED
      BY <3>16
  <2>3. ASSUME NEW e, NEW l, First(a, i, e, l)
        PROVE  i \in D
    <3>0. /\ e \in i..m /\ l \in 1..e - i + 1 /\ e \in 1..m /\ l \in 1..e /\ e + 1 \in i + 1..n
          /\ e + 1 \in 1..n
      BY <1>1, <2>3 DEF First, m
    <3>1. e \in i..Len(t) /\ Occurs(t, e, l)
      <4>1. Occurs(a, e, l)
        BY <2>3 DEF First
      <4> QED
        BY <1>1, <1>2, <3>0, <4>1
    <3>2. \A k \in l + 1..e - i + 1 : ~Occurs(t, e, k)
      <4> TAKE k \in l + 1..e - i + 1
      <4>1. k \in 1..e
        BY <1>1, <3>0
      <4>2. ~Occurs(a, e, k)
        BY <2>3 DEF First
      <4> QED
        BY <1>2, <3>0, <4>1, <4>2
    <3>3. \A d \in i..e - 1 : \A k \in 1..d - i + 1 : ~Occurs(t, d, k)
      <4> TAKE d \in i..e - 1
      <4> TAKE k \in 1..d - i + 1
      <4>1. k \in 1..d /\ d \in 1..m
        BY <1>1, <3>0
      <4>2. ~Occurs(a, d, k)
        BY <2>3 DEF First
      <4> QED
        BY <1>2, <4>1, <4>2
    <3>4. First(t, i, e, l)
      BY <3>0, <3>1, <3>2, <3>3 DEF First
    <3>5. Shown(t, i) = Cover(t, i, e, l, Shown(t, e + 1))
      BY <1>1, <1>8, <3>4, ShownFirst
    <3>6. Shown(a, i) = Cover(a, i, e, l, Shown(a, e + 1))
      BY <2>3, ShownFirst
    <3>7. Shown(t, e + 1) = Shown(a, e + 1) \o Shown(b, 1)
      BY <1>11, <3>0
    <3>8. SubSeq(t, i, e - l) = SubSeq(a, i, e - l)
      <4>1. e - l \in Nat /\ e - l <= m /\ i <= e - l + 1 /\ i \in Nat \ {0}
        BY <1>1, <3>0
      <4> QED
        BY <1>5, <4>1
    <3>9. Shown(t, i) = Cover(a, i, e, l, Shown(a, e + 1) \o Shown(b, 1))
      BY <3>5, <3>7, <3>8, Zenon DEF Cover
    <3>10. Cover(a, i, e, l, Shown(a, e + 1) \o Shown(b, 1)) = Cover(a, i, e, l, Shown(a, e + 1)) \o Shown(b, 1)
      <4> DEFINE x == Shown(a, e + 1)
                 y == Shown(b, 1)
                 w == Append(SubSeq(a, i, e - l), Mark)
      <4>1. e - l \in Nat /\ e - l <= Len(a) /\ i \in Nat \ {0} /\ i <= e - l + 1
        BY <1>1, <3>0 DEF m
      <4>2. x \in Seq(Symbol) /\ y \in Seq(Symbol)
        BY <1>8, <1>9, <3>0
      <4>3. w \in Seq(Symbol)
        BY <4>1, PieceIs
      <4> HIDE DEF x, y, w
      <4>4. (w \o x) \o y = w \o (x \o y)
        BY <4>2, <4>3, JoinJoin
      <4> QED
        BY <4>4, Zenon DEF x, y, w, Cover
    <3> QED
      BY <3>6, <3>9, <3>10
  <2> QED
    BY <1>8, <2>1, <2>2, <2>3, FreeOrFirst
<1>12. \A i \in 1..n : i \in D
  <2> HIDE DEF n, D
  <2> QED
    BY <1>1, <1>11, Downward
<1> QED
  BY <1>12 DEF t

LEMMA RedactIs == \A t : RedactText(t) = Shown(t, 1)
  BY Unfold DEF Shown

\* RedactText, of texts that sever no secret, of any text, and of none.
LEMMA RedactJoin ==
    ASSUME TypeOK, NEW a \in Text, NEW b \in Text, Severed(a, b)
    PROVE  RedactText(a \o b) = RedactText(a) \o RedactText(b)
<1>1. 1 \in 1..Len(a) + 1
  BY DEF Text
<1>2. Shown(a \o b, 1) = Shown(a, 1) \o Shown(b, 1)
  BY <1>1, ShownJoin
<1> QED
  BY <1>2, RedactIs

LEMMA RedactTyped ==
    ASSUME TypeOK, NEW t \in Text
    PROVE  RedactText(t) \in Seq(Symbol)
<1>1. 1 \in 1..Len(t) + 1
  BY DEF Text
<1> QED
  BY <1>1, ShownTyped, RedactIs

LEMMA RedactNothing ==
    ASSUME TypeOK
    PROVE  RedactText(<<>>) = <<>>
<1>1. <<>> \in Text /\ 1 \in 1..Len(<<>>) + 1 /\ SubSeq(<<>>, 1, Len(<<>>)) = <<>>
  BY DEF Text
<1>2. Free(<<>>, 1)
  BY DEF Free
<1>3. Shown(<<>>, 1) = <<>>
  BY <1>1, <1>2, ShownFree
<1> QED
  BY <1>3, RedactIs

-----------------------------------------------------------------------------
(* Where the pump cuts the text, no secret is severed.                     *)

LEMMA OverlapIs ==
    ASSUME TypeOK, NEW s \in secrets, NEW r \in secrets, NEW k \in 1..Len(s) - 1, k < Len(r),
           \A j \in 1..k : s[Len(s) - k + j] = r[j]
    PROVE  Overlap(s, r)
<1>1. s \in Seq(Letter) /\ r \in Seq(Letter) /\ Len(s) \in Nat /\ Len(r) \in Nat
  BY SecretIs DEF Text
<1>2. /\ Ending(s, k) \in Seq(Letter) /\ Len(Ending(s, k)) = k
      /\ \A j \in 1..k : Ending(s, k)[j] = s[Len(s) - k + j]
  <2>1. k \in 0..Len(s)
    BY <1>1
  <2> QED
    BY <1>1, <2>1, EndingIs
<1>3. /\ SubSeq(r, 1, k) \in Seq(Letter) /\ Len(SubSeq(r, 1, k)) = k
      /\ \A j \in 1..k : SubSeq(r, 1, k)[j] = r[j]
  <2>1. /\ SubSeq(r, 1, k) \in Seq(Letter) /\ Len(SubSeq(r, 1, k)) = k - 1 + 1
        /\ \A j \in 1..k - 1 + 1 : SubSeq(r, 1, k)[j] = r[1 + j - 1]
    <3>1. k \in Nat /\ k <= Len(r) /\ 1 <= k + 1 /\ 1 \in Nat \ {0}
      BY <1>1
    <3> QED
      BY <1>1, <3>1, SubSeqIs
  <2>2. k - 1 + 1 = k /\ \A j \in 1..k : 1 + j - 1 = j
    BY <1>1
  <2> QED
    BY <2>1, <2>2
<1>4. Ending(s, k) = SubSeq(r, 1, k)
  BY <1>2, <1>3, SameSeq
<1> QED
  BY <1>4 DEF Overlap

LEMMA SuspiciousIs ==
    ASSUME TypeOK, NEW t \in Text, NEW k \in 1..Len(t)
    PROVE  Suspicious(t, k) <=> \E s \in secrets : k < Len(s) /\ \A j \in 1..k : t[Len(t) - k + j] = s[j]
<1>1. t \in Seq(Letter) /\ Len(t) \in Nat
  BY DEF Text
<1>2. /\ Ending(t, k) \in Seq(Letter) /\ Len(Ending(t, k)) = k
      /\ \A j \in 1..k : Ending(t, k)[j] = t[Len(t) - k + j]
  <2>1. k \in 0..Len(t)
    BY <1>1
  <2> QED
    BY <1>1, <2>1, EndingIs
<1>3. ASSUME NEW s \in secrets, k < Len(s)
      PROVE  /\ SubSeq(s, 1, k) \in Seq(Letter) /\ Len(SubSeq(s, 1, k)) = k
             /\ \A j \in 1..k : SubSeq(s, 1, k)[j] = s[j]
  <2>0. s \in Seq(Letter) /\ Len(s) \in Nat
    BY SecretIs DEF Text
  <2>1. /\ SubSeq(s, 1, k) \in Seq(Letter) /\ Len(SubSeq(s, 1, k)) = k - 1 + 1
        /\ \A j \in 1..k - 1 + 1 : SubSeq(s, 1, k)[j] = s[1 + j - 1]
    <3>1. k \in Nat /\ k <= Len(s) /\ 1 <= k + 1 /\ 1 \in Nat \ {0}
      BY <1>1, <1>3, <2>0
    <3> QED
      BY <2>0, <3>1, SubSeqIs
  <2>2. k - 1 + 1 = k /\ \A j \in 1..k : 1 + j - 1 = j
    BY <1>1
  <2> QED
    BY <2>1, <2>2
<1>4. ASSUME NEW s \in secrets, k < Len(s)
      PROVE  Ending(t, k) = SubSeq(s, 1, k) <=> \A j \in 1..k : t[Len(t) - k + j] = s[j]
  <2>1. ASSUME Ending(t, k) = SubSeq(s, 1, k)
        PROVE  \A j \in 1..k : t[Len(t) - k + j] = s[j]
    BY <1>2, <1>3, <1>4, <2>1
  <2>2. ASSUME \A j \in 1..k : t[Len(t) - k + j] = s[j]
        PROVE  Ending(t, k) = SubSeq(s, 1, k)
    BY <1>2, <1>3, <1>4, <2>2, SameSeq
  <2> QED
    BY <2>1, <2>2
<1> QED
  BY <1>4, Zenon DEF Suspicious

LEMMA EndsWithIs ==
    ASSUME TypeOK, NEW t \in Text, NEW s \in secrets
    PROVE  EndsWith(t, s) <=> Len(s) \in 1..Len(t) /\ \A j \in 1..Len(s) : t[Len(t) - Len(s) + j] = s[j]
<1>1. Len(t) \in Nat /\ 1 \in 1..Len(t) + 1 /\ Len(t) \in 1 - 1..Len(t) /\ Len(t) - 1 + 1 = Len(t)
      /\ SubSeq(t, 1, Len(t)) = t
  BY DEF Text
<1>2. EndsWith(SubSeq(t, 1, Len(t)), s) <=>
          Len(s) \in 1..Len(t) - 1 + 1 /\ \A j \in 1..Len(s) : t[Len(t) - Len(s) + j] = s[j]
  BY <1>1, EndsAt
<1> QED
  BY <1>1, <1>2

(* The text that is let go and the text that is held back are the text.    *)
LEMMA CutIs ==
    ASSUME NEW t \in Text, NEW k \in 0..Len(t)
    PROVE  LET a == SubSeq(t, 1, Len(t) - k)
               h == Ending(t, k)
           IN  a \in Text /\ h \in Text /\ Len(a) = Len(t) - k /\ a \o h = t
<1> DEFINE a == SubSeq(t, 1, Len(t) - k)
           h == Ending(t, k)
           m == Len(t) - k
<1>1. t \in Seq(Letter) /\ Len(t) \in Nat /\ m \in Nat /\ m <= Len(t)
  BY DEF Text
<1>2. /\ h \in Seq(Letter) /\ Len(h) = k /\ \A j \in 1..k : h[j] = t[m + j]
  BY <1>1, EndingIs
<1>3. a \in Seq(Letter) /\ Len(a) = m /\ \A j \in 1..m : a[j] = t[j]
  <2>1. a \in Seq(Letter) /\ Len(a) = m - 1 + 1 /\ \A j \in 1..m - 1 + 1 : a[j] = t[1 + j - 1]
    <3>1. 1 <= m + 1 /\ 1 \in Nat \ {0}
      BY <1>1
    <3> QED
      BY <1>1, <3>1, SubSeqIs
  <2>2. m - 1 + 1 = m /\ \A j \in 1..m : 1 + j - 1 = j
    BY <1>1
  <2> QED
    BY <2>1, <2>2
<1> HIDE DEF a, h
<1>4. a \in Text /\ h \in Text
  BY <1>2, <1>3 DEF Text
<1>5. /\ a \o h \in Text /\ Len(a \o h) = Len(a) + Len(h)
      /\ \A j \in 1..Len(a) : (a \o h)[j] = a[j]
      /\ \A j \in 1..Len(h) : (a \o h)[Len(a) + j] = h[j]
  BY <1>4, JoinedIs
<1>6. \A j \in 1..Len(t) : (a \o h)[j] = t[j]
  <2> TAKE j \in 1..Len(t)
  <2>1. CASE j <= m
    <3>1. j \in 1..m /\ j \in 1..Len(a)
      BY <1>1, <1>3, <2>1
    <3> QED
      BY <1>3, <1>5, <3>1
  <2>2. CASE ~(j <= m)
    <3>1. j - m \in 1..k /\ j - m \in 1..Len(h) /\ m + (j - m) = j /\ Len(a) + (j - m) = j
      BY <1>1, <1>2, <1>3, <2>2
    <3>2. (a \o h)[Len(a) + (j - m)] = h[j - m]
      BY <1>5, <3>1, Zenon
    <3>3. h[j - m] = t[m + (j - m)]
      BY <1>2, <3>1, Zenon
    <3> QED
      BY <3>1, <3>2, <3>3
  <2> QED
    BY <2>1, <2>2
<1>7. a \o h \in Seq(Letter) /\ Len(a \o h) = Len(t)
  BY <1>1, <1>2, <1>3, <1>5 DEF Text
<1>8. a \o h = t
  BY <1>1, <1>6, <1>7, SameSeq
<1> QED
  BY <1>3, <1>4, <1>8 DEF a, h

\* A secret across the cut is impossible, or covered by one that ends there:
\* when a secret ends the text, another that begins before it would overlap
\* it; when none does, one that goes beyond the text would be held back from
\* where it begins, and one within the text would overlap what is held back.
LEMMA NoneSevered ==
    ASSUME TypeOK, Separate, NEW text \in Text, NEW len \in 0..Len(text), NEW z \in Text,
           IsTrailingSecretPrefixLen(text, len),
           NEW e \in Len(text) - len + 1..Len(text) + Len(z), NEW l \in e - (Len(text) - len) + 1..e,
           Occurs(text \o z, e, l)
    PROVE  \E k \in 1..l - (e - (Len(text) - len)) : Occurs(text \o z, Len(text) - len, k)
<1> DEFINE T == text \o z
           n == Len(text)
           p == n - len
<1>1. /\ n \in Nat /\ len \in Nat /\ p \in Nat /\ Len(z) \in Nat /\ e \in Nat /\ l \in Nat
      /\ e >= p + 1 /\ l >= e - p + 1 /\ l <= e
      /\ \A j \in 1..n : T[j] = text[j]
  BY JoinedIs
<1>2. PICK r \in secrets : Len(r) = l /\ \A j \in 1..l : T[e - l + j] = r[j]
  BY DEF Occurs
<1> HIDE DEF T, n
<1>3. CASE \E s \in secrets : EndsWith(text, s)
  <2>1. len = 0 /\ p = n
    BY <1>1, <1>3 DEF IsTrailingSecretPrefixLen
  <2>2. PICK s \in secrets : Len(s) \in 1..n /\ \A j \in 1..Len(s) : text[n - Len(s) + j] = s[j]
    BY <1>3, EndsWithIs DEF n
  <2> DEFINE q == l - (e - p)
  <2>3. Occurs(T, p, Len(s))
    <3>1. \A j \in 1..Len(s) : p - Len(s) + j \in 1..n /\ p - Len(s) + j = n - Len(s) + j
      BY <1>1, <2>1, <2>2
    <3>2. \A j \in 1..Len(s) : T[p - Len(s) + j] = s[j]
      BY <1>1, <2>2, <3>1
    <3> QED
      BY <3>2 DEF Occurs
  <2>4. Len(s) <= q
    <3> SUFFICES ASSUME ~(Len(s) <= q)
                 PROVE  FALSE
      OBVIOUS
    <3>1. q \in 1..Len(s) - 1 /\ q < Len(r)
      BY <1>1, <1>2, <2>1, <2>2
    <3>2. \A j \in 1..q : s[Len(s) - q + j] = r[j]
      <4> TAKE j \in 1..q
      <4>1. /\ Len(s) - q + j \in 1..Len(s) /\ j \in 1..l /\ e - l + j \in 1..n
            /\ n - Len(s) + (Len(s) - q + j) = e - l + j
        <5>1. n \in Nat /\ e \in Nat /\ l \in Nat /\ l <= e /\ p = n /\ e >= n + 1 /\ Len(s) \in 1..n /\ Len(r) = l
          BY <1>1, <1>2, <2>1, <2>2
        <5> QED
          BY <3>1, <5>1
      <4>2. s[Len(s) - q + j] = text[n - Len(s) + (Len(s) - q + j)]
        BY <2>2, <4>1, Zenon
      <4>3. r[j] = T[e - l + j] /\ T[e - l + j] = text[e - l + j]
        BY <1>1, <1>2, <4>1
      <4> QED
        BY <4>1, <4>2, <4>3
    <3>3. Overlap(s, r)
      BY <3>1, <3>2, OverlapIs
    <3> QED
      BY <3>3 DEF Separate
  <2>5. Len(s) \in 1..q
    BY <1>1, <2>1, <2>2, <2>4
  <2> QED
    BY <2>3, <2>5 DEF T, n
<1>4. CASE ~\E s \in secrets : EndsWith(text, s)
  <2>1. /\ len > 0 => Suspicious(text, len)
        /\ \A k \in len + 1..n : ~Suspicious(text, k)
    BY <1>4 DEF IsTrailingSecretPrefixLen, n
  <2>2. CASE e > n
    <3> DEFINE q == n - (e - l)
    <3>1. q \in len + 1..n /\ q \in 1..Len(text) /\ q < Len(r)
      BY <1>1, <1>2, <2>2 DEF n
    <3>2. \A j \in 1..q : text[n - q + j] = r[j]
      <4> TAKE j \in 1..q
      <4>1. n - q + j = e - l + j /\ e - l + j \in 1..n /\ j \in 1..l
        BY <1>1, <1>2, <3>1
      <4> QED
        BY <1>1, <1>2, <4>1
    <3>3. Suspicious(text, q)
      BY <3>1, <3>2, SuspiciousIs DEF n
    <3> QED
      BY <2>1, <3>1, <3>3
  <2>3. CASE e = n
    <3>1. Len(r) \in 1..n
      BY <1>1, <1>2, <2>3
    <3>2. \A j \in 1..Len(r) : text[n - Len(r) + j] = r[j]
      <4> TAKE j \in 1..Len(r)
      <4>1. e - l + j \in 1..n /\ n - Len(r) + j = e - l + j
        BY <1>1, <1>2, <2>3
      <4> QED
        BY <1>1, <1>2, <4>1
    <3>3. EndsWith(text, r)
      BY <3>1, <3>2, EndsWithIs DEF n
    <3> QED
      BY <1>4, <3>3
  <2>4. CASE e < n
    <3>0. len \in 1..Len(text)
      BY <1>1, <2>4 DEF n
    <3>7. Suspicious(text, len) <=>
            \E s \in secrets : len < Len(s) /\ \A j \in 1..len : text[Len(text) - len + j] = s[j]
      BY <3>0, SuspiciousIs
    <3>8. Suspicious(text, len)
      BY <1>1, <2>1, <2>4
    <3>1. PICK s \in secrets : len < Len(s) /\ \A j \in 1..len : text[n - len + j] = s[j]
      BY <3>7, <3>8, Zenon DEF n
    <3>2. Len(s) \in Nat
      BY SecretIs
    <3> DEFINE q == e - p
    <3>3. q \in 1..Len(r) - 1 /\ q < Len(s)
      BY <1>1, <1>2, <2>4, <3>1, <3>2
    <3>4. \A j \in 1..q : r[Len(r) - q + j] = s[j]
      <4> TAKE j \in 1..q
      <4>1. /\ Len(r) - q + j \in 1..l /\ e - l + (Len(r) - q + j) = n - len + j /\ n - len + j \in 1..n
            /\ j \in 1..len
        BY <1>1, <1>2, <2>4, <3>3
      <4>2. r[Len(r) - q + j] = T[e - l + (Len(r) - q + j)]
        BY <1>2, <4>1, Zenon
      <4>3. s[j] = T[n - len + j]
        BY <1>1, <3>1, <4>1
      <4> QED
        BY <4>1, <4>2, <4>3
    <3>5. Overlap(r, s)
      BY <3>3, <3>4, OverlapIs
    <3> QED
      BY <3>5 DEF Separate
  <2> QED
    BY <1>1, <2>2, <2>3, <2>4
<1> QED
  BY <1>3, <1>4

(* What the pump shows now, and what it will show of what it holds back    *)
(* and of what is to come, is what it would show of the whole.             *)
LEMMA CutAsIfWhole ==
    ASSUME TypeOK, Separate, NEW text \in Text, NEW len \in 0..Len(text), NEW z \in Text,
           IsTrailingSecretPrefixLen(text, len)
    PROVE  RedactText(text \o z) = RedactText(SubSeq(text, 1, Len(text) - len)) \o RedactText(Ending(text, len) \o z)
<1> DEFINE a == SubSeq(text, 1, Len(text) - len)
           h == Ending(text, len)
           b == h \o z
<1>1. a \in Text /\ h \in Text /\ Len(a) = Len(text) - len /\ a \o h = text /\ Len(text) \in Nat
  BY CutIs DEF Text
<1>2. b \in Text /\ Len(b) = len + Len(z) /\ Len(z) \in Nat
  <2>1. b \in Text /\ Len(b) = Len(h) + Len(z) /\ Len(z) \in Nat
    BY <1>1, JoinedIs
  <2>2. Len(h) = len
    BY EndingIs DEF Text
  <2> QED
    BY <2>1, <2>2
<1>3. a \o b = text \o z
  <2>1. a \in Seq(Letter) /\ h \in Seq(Letter) /\ z \in Seq(Letter)
    BY <1>1 DEF Text
  <2> HIDE DEF a, h
  <2>2. (a \o h) \o z = a \o (h \o z)
    BY <2>1, JoinJoin
  <2> QED
    BY <1>1, <2>2, Zenon
<1> HIDE DEF a, h, b
<1>4. Severed(a, b)
  <2> SUFFICES ASSUME NEW e \in Len(a) + 1..Len(a) + Len(b), NEW l \in e - Len(a) + 1..e,
                      Occurs(a \o b, e, l)
               PROVE  \E k \in 1..l - (e - Len(a)) : Occurs(a \o b, Len(a), k)
    BY DEF Severed
  <2>1. e \in Len(text) - len + 1..Len(text) + Len(z)
    BY <1>1, <1>2
  <2>2. l \in e - (Len(text) - len) + 1..e
    BY <1>1
  <2>3. Occurs(text \o z, e, l)
    BY <1>3
  <2>4. \E k \in 1..l - (e - (Len(text) - len)) : Occurs(text \o z, Len(text) - len, k)
    BY <2>1, <2>2, <2>3, NoneSevered
  <2> QED
    BY <1>1, <1>3, <2>4
<1>5. RedactText(a \o b) = RedactText(a) \o RedactText(b)
  BY <1>1, <1>2, <1>4, RedactJoin
<1> QED
  BY <1>3, <1>5 DEF a, b, h

-----------------------------------------------------------------------------
(* The inductive invariant of AsIfWhole.                                   *)

\* Whatever is written next, it will be shown as if all had come at once.
Continues ==
    \A z \in Text : (shown \o sending) \o RedactText(pending \o z) = RedactText(read \o z)

WholeInv ==
    /\ shown \in Seq(Symbol) /\ sending \in Seq(Symbol)
    /\ pump \notin {"send", "last"} => sending = <<>>
    /\ pump \in {"last", "ok"} => pending = <<>>
    /\ (Separate /\ ~expired) =>
           /\ pump \in {"read", "send"} => Continues
           /\ pump \in {"last", "ok"} => shown \o sending = RedactText(read)

\* The secrets stay as they are, so that RedactText does.
LEMMA Primed ==
    ASSUME secrets' = secrets
    PROVE  /\ RedactText(pending)' = RedactText(pending') /\ RedactText(read)' = RedactText(read')
           /\ \A z : RedactText(pending \o z)' = RedactText(pending' \o z)
           /\ \A z : RedactText(read \o z)' = RedactText(read' \o z)
           /\ Separate' = Separate
<1>1. RedactText(pending)' = RedactText(pending')
  BY DEF RedactText
<1>2. RedactText(read)' = RedactText(read')
  BY DEF RedactText
<1>3. \A z : RedactText(pending \o z)' = RedactText(pending' \o z)
  BY DEF RedactText
<1>4. \A z : RedactText(read \o z)' = RedactText(read' \o z)
  BY DEF RedactText
<1>5. Separate' = Separate
  BY DEF Separate
<1> QED
  BY <1>1, <1>2, <1>3, <1>4, <1>5

\* Nothing has been read or shown.
LEMMA WholeInit == Init => WholeInv
<1> SUFFICES ASSUME Init
             PROVE  WholeInv
  OBVIOUS
<1>1. TypeOK
  BY InitInv DEF IInv
<1>2. shown = <<>> /\ sending = <<>> /\ pending = <<>> /\ read = <<>> /\ pump = "read"
  BY DEF Init
<1>3. Continues
  <2> SUFFICES ASSUME NEW z \in Text
               PROVE  (shown \o sending) \o RedactText(pending \o z) = RedactText(read \o z)
    BY DEF Continues
  <2>1. <<>> \o z = z /\ <<>> \o <<>> = <<>>
    BY DEF Text
  <2>2. RedactText(z) \in Seq(Symbol)
    BY <1>1, RedactTyped
  <2>3. <<>> \o RedactText(z) = RedactText(z)
    BY <2>2
  <2> QED
    BY <1>2, <2>1, <2>3, Zenon
<1> QED
  BY <1>2, <1>3 DEF WholeInv

\* A read: what it lets go is cut off where no secret is severed.
LEMMA WholeRead ==
    ASSUME IInv, WholeInv, NEW c \in Text, NEW p, ReadText(c, p) PROVE WholeInv'
<1> DEFINE text == pending \o c
<1>1. TypeOK /\ pending \in Text /\ read \in Text
  BY DEF IInv, TypeOK
<1>2. PICK hold \in 0..Len(text) :
        /\ IsTrailingSecretPrefixLen(text, hold)
        /\ sending' = RedactText(SubSeq(text, 1, Len(text) - hold))
        /\ pending' = Ending(text, hold)
        /\ \/ hold = Len(text) /\ pump' = "read"
           \/ pump' = "send"
  BY DEF ReadText, Flush
<1>3. /\ secrets' = secrets /\ pump = "read" /\ expired' = expired /\ read' = read \o c
      /\ shown' = shown /\ sending = <<>>
  BY DEF ReadText, WholeInv
<1>4. text \in Text
  BY <1>1, JoinedIs
<1> DEFINE a == SubSeq(text, 1, Len(text) - hold)
           ra == RedactText(a)
<1>5. a \in Text /\ pending' \in Text
  BY <1>2, <1>4, CutIs
<1>6. ra \in Seq(Symbol) /\ sending' = ra
  BY <1>1, <1>2, <1>5, RedactTyped
<1>7. shown \in Seq(Symbol) /\ shown \o sending = shown /\ shown' \o sending' = shown \o ra
  <2> HIDE DEF ra
  <2> QED
    BY <1>3, <1>6 DEF WholeInv
<1>8. ASSUME Separate, ~expired
      PROVE  \A z \in Text : (shown' \o sending') \o RedactText(pending' \o z) = RedactText(read' \o z)
  <2> TAKE z \in Text
  <2> DEFINE rb == RedactText(pending' \o z)
  <2>1. rb \in Seq(Symbol)
    <3>1. pending' \o z \in Text
      BY <1>5, JoinedIs
    <3> QED
      BY <1>1, <3>1, RedactTyped
  <2>2. RedactText(text \o z) = ra \o rb
    <3> HIDE DEF text
    <3>1. RedactText(text \o z) = RedactText(SubSeq(text, 1, Len(text) - hold)) \o RedactText(Ending(text, hold) \o z)
      BY <1>1, <1>2, <1>4, <1>8, CutAsIfWhole
    <3> QED
      BY <1>2, <3>1, Zenon
  <2>3. text \o z = pending \o (c \o z) /\ read' \o z = read \o (c \o z)
    <3>1. pending \in Seq(Letter) /\ c \in Seq(Letter) /\ z \in Seq(Letter) /\ read \in Seq(Letter)
      BY <1>1 DEF Text
    <3>2. (pending \o c) \o z = pending \o (c \o z)
      BY <3>1, JoinJoin
    <3>3. (read \o c) \o z = read \o (c \o z)
      BY <3>1, JoinJoin
    <3> QED
      BY <1>3, <3>2, <3>3, Zenon
  <2>4. shown \o RedactText(pending \o (c \o z)) = RedactText(read \o (c \o z))
    <3>1. c \o z \in Text
      BY JoinedIs
    <3>2. (shown \o sending) \o RedactText(pending \o (c \o z)) = RedactText(read \o (c \o z))
      BY <1>3, <1>8, <3>1 DEF WholeInv, Continues
    <3> QED
      BY <1>7, <3>2, Zenon
  <2>5. (shown \o ra) \o rb = shown \o (ra \o rb)
    <3> HIDE DEF ra, rb
    <3> QED
      BY <1>6, <1>7, <2>1, JoinJoin
  <2> HIDE DEF text, ra
  <2> QED
    BY <1>7, <2>2, <2>3, <2>4, <2>5, Zenon
<1>10. pump' \notin {"send", "last"} => sending' = <<>>
  <2> SUFFICES ASSUME pump' \notin {"send", "last"}
               PROVE  sending' = <<>>
    OBVIOUS
  <2>1. hold = Len(text)
    BY <1>2
  <2>2. SubSeq(text, 1, Len(text) - hold) = <<>>
    BY <1>4, <2>1 DEF Text
  <2> QED
    BY <1>1, <1>2, <2>2, RedactNothing
<1> HIDE DEF text, ra
<1>9. (Separate /\ ~expired)' => Continues'
  <2> SUFFICES ASSUME Separate', ~expired'
               PROVE  \A z \in Text : (shown' \o sending') \o RedactText(pending \o z)' = RedactText(read \o z)'
    BY DEF Continues
  <2>1. Separate /\ ~expired
    BY <1>3, Primed
  <2>2. \A z \in Text : (shown' \o sending') \o RedactText(pending' \o z) = RedactText(read' \o z)
    BY <1>8, <2>1
  <2>3. \A z : RedactText(pending \o z)' = RedactText(pending' \o z) /\ RedactText(read \o z)' = RedactText(read' \o z)
    BY <1>3, Primed, Zenon
  <2> QED
    BY <2>2, <2>3, Zenon
<1>11. shown' \in Seq(Symbol) /\ sending' \in Seq(Symbol) /\ pump' \in {"read", "send"}
  BY <1>2, <1>3, <1>6, <1>7
<1> QED
  BY <1>9, <1>10, <1>11 DEF WholeInv

(* Continues at the end of the text.                                       *)
LEMMA ContinuesNow ==
    ASSUME IInv, Continues
    PROVE  (shown \o sending) \o RedactText(pending) = RedactText(read)
<1>1. <<>> \in Text /\ pending \o <<>> = pending /\ read \o <<>> = read
  BY DEF Text, IInv, TypeOK
<1>2. (shown \o sending) \o RedactText(pending \o <<>>) = RedactText(read \o <<>>)
  BY <1>1 DEF Continues
<1> QED
  BY <1>1, <1>2, Zenon

\* A flush that lets go of all.
LEMMA WholeFlush ==
    ASSUME IInv, Flush(pending, since, 0)
    PROVE  sending' = RedactText(pending) /\ sending' \in Seq(Symbol) /\ pending' = <<>>
<1>1. TypeOK /\ pending \in Text
  BY DEF IInv, TypeOK
<1>2. SubSeq(pending, 1, Len(pending) - 0) = pending
  BY <1>1 DEF Text
<1>3. sending' = RedactText(pending)
  BY <1>2, Zenon DEF Flush
<1>4. RedactText(pending) \in Seq(Symbol)
  BY <1>1, RedactTyped
<1> QED
  BY <1>3, <1>4, FlushAll, Zenon

\* The last flush.
LEMMA WholeEof ==
    ASSUME IInv, WholeInv, pump = "read", Flush(pending, since, 0),
           pump' = IF pending = <<>> THEN "ok" ELSE "last",
           UNCHANGED <<secrets, read, shown, expired>>
    PROVE  WholeInv'
<1>1. sending' = RedactText(pending) /\ sending' \in Seq(Symbol) /\ pending' = <<>>
  BY WholeFlush
<1>2. shown \in Seq(Symbol) /\ sending = <<>> /\ shown' = shown
  BY DEF WholeInv
<1>3. shown \o sending = shown
  BY <1>2
<1>4. pump' \notin {"send", "last"} => sending' = <<>>
  <2>1. RedactText(<<>>) = <<>>
    BY RedactNothing DEF IInv
  <2> QED
    BY <1>1, <2>1
<1>5. (Separate /\ ~expired)' => shown' \o sending' = RedactText(read)'
  <2> SUFFICES ASSUME Separate', ~expired'
               PROVE  shown' \o sending' = RedactText(read)'
    OBVIOUS
  <2>1. Separate /\ ~expired
    BY Primed
  <2>2. (shown \o sending) \o RedactText(pending) = RedactText(read)
    BY <2>1, ContinuesNow DEF WholeInv
  <2>3. RedactText(read)' = RedactText(read)
    BY Primed
  <2> QED
    BY <1>1, <1>2, <1>3, <2>2, <2>3, Zenon
<1>6. pump' \in {"ok", "last"}
  OBVIOUS
<1> QED
  BY <1>1, <1>2, <1>4, <1>5, <1>6 DEF WholeInv

\* What was on its way has been shown.
LEMMA WholeSend == ASSUME IInv, WholeInv, SendReturns PROVE WholeInv'
<1>1. /\ shown' = shown \o sending /\ sending' = <<>> /\ secrets' = secrets
      /\ UNCHANGED <<pending, read, expired>>
      /\ \/ pump = "send" /\ pump' = "read"
         \/ pump = "last" /\ pump' = "ok"
  BY DEF SendReturns
<1>2. shown \in Seq(Symbol) /\ sending \in Seq(Symbol)
  BY DEF WholeInv
<1>3. shown' \in Seq(Symbol) /\ sending' \in Seq(Symbol) /\ shown' \o sending' = shown \o sending
  BY <1>1, <1>2
<1>4. Continues => Continues'
  <2> SUFFICES ASSUME Continues, NEW z \in Text
               PROVE  (shown' \o sending') \o RedactText(pending \o z)' = RedactText(read \o z)'
    BY DEF Continues
  <2>1. RedactText(pending \o z)' = RedactText(pending \o z) /\ RedactText(read \o z)' = RedactText(read \o z)
    BY <1>1, Primed, Zenon
  <2>2. (shown \o sending) \o RedactText(pending \o z) = RedactText(read \o z)
    BY DEF Continues
  <2> QED
    BY <1>3, <2>1, <2>2, Zenon
<1>5. RedactText(read)' = RedactText(read) /\ Separate' = Separate
  BY <1>1, Primed, Zenon
<1>6. pump' = "ok" => pending' = <<>>
  BY <1>1 DEF WholeInv
<1>7. ASSUME Separate', ~expired'
      PROVE  /\ pump' = "read" => Continues'
             /\ pump' = "ok" => shown' \o sending' = RedactText(read)'
  <2>1. Separate /\ ~expired
    BY <1>1, <1>5, <1>7
  <2>2. pump = "send" => Continues
    BY <2>1 DEF WholeInv
  <2>3. pump = "last" => shown \o sending = RedactText(read)
    BY <2>1 DEF WholeInv
  <2>4. pump' = "read" => Continues'
    BY <1>1, <1>4, <2>2
  <2>5. pump' = "ok" => shown' \o sending' = RedactText(read)'
    <3> SUFFICES ASSUME pump' = "ok"
                 PROVE  shown' \o sending' = RedactText(read)'
      OBVIOUS
    <3>1. pump = "last"
      BY <1>1
    <3> QED
      BY <1>3, <1>5, <2>3, <3>1, Zenon
  <2> QED
    BY <2>4, <2>5
<1> QED
  BY <1>1, <1>3, <1>6, <1>7 DEF WholeInv

\* Every step keeps it.
LEMMA WholeStep == IInv /\ WholeInv /\ [Next]_vars => WholeInv'
<1> SUFFICES ASSUME IInv, WholeInv, [Next]_vars
             PROVE  WholeInv'
  OBVIOUS
<1>1. ASSUME NEW c \in SeqOf(Letter, MaxRead), NEW p \in 0..Width - 1, ReadText(c, p)
      PROVE  WholeInv'
  <2>1. c \in Text
    BY <1>1, ClockAssumption DEF SeqOf, Text
  <2> QED
    BY <1>1, <2>1, WholeRead
<1>2. ASSUME HoldExpires PROVE WholeInv'
  <2>1. sending' \in Seq(Symbol) /\ shown' = shown /\ pump' = "send" /\ expired'
    BY <1>2, WholeFlush DEF HoldExpires
  <2> QED
    BY <2>1 DEF WholeInv
<1>3. ASSUME Fails, UNCHANGED shown PROVE WholeInv'
  <2>1. <<>> \in Seq(Symbol)
    OBVIOUS
  <2> QED
    BY <1>3, <2>1 DEF Fails, WholeInv
<1>4. ASSUME ReadEof PROVE WholeInv'
  <2>1. CASE partial > 0
    BY <1>3, <1>4, <2>1 DEF ReadEof
  <2>2. CASE ~(partial > 0)
    BY <1>4, <2>2, WholeEof DEF ReadEof
  <2> QED
    BY <2>1, <2>2
<1>5. ASSUME UNCHANGED <<secrets, pump, sending, pending, read, shown, expired>> PROVE WholeInv'
  <2>1. UNCHANGED <<sending, pending, read, shown>> /\ secrets' = secrets
    BY <1>5
  <2>2. Continues' = Continues
    <3>1. \A z : RedactText(pending \o z)' = RedactText(pending \o z) /\ RedactText(read \o z)' = RedactText(read \o z)
      BY <2>1, Primed, Zenon
    <3> QED
      BY <2>1, <3>1 DEF Continues
  <2>3. RedactText(read)' = RedactText(read) /\ Separate' = Separate
    BY <2>1, Primed, Zenon
  <2> QED
    BY <1>5, <2>2, <2>3 DEF WholeInv
<1>6. CASE SendFails \/ ReadFails
  BY <1>3, <1>6 DEF SendFails, ReadFails
<1>7. CASE Tick
  BY <1>5, <1>7 DEF Tick
<1>8. CASE UNCHANGED vars
  BY <1>5, <1>8 DEF vars
<1> QED
  BY <1>1, <1>2, <1>4, <1>6, <1>7, <1>8, WholeSend DEF Next, Pump, Terminated

(***************************************************************************)
(* However the reads cut the output, and whatever is held back at each of  *)
(* them: while no deadline has let anything go, and when no secret ends    *)
(* with what another one begins with, ExecuteStream shows what redact_utf8 *)
(* makes of the whole output, as Execute does (server.rs:865-954,          *)
(* redaction.rs:32-75).                                                    *)
(***************************************************************************)
THEOREM Whole == Spec => []AsIfWhole
<1>1. ASSUME IInv, WholeInv PROVE AsIfWhole
  <2> SUFFICES ASSUME Separate, ~expired, pump # "failed"
               PROVE  /\ (shown \o sending) \o RedactText(pending) = RedactText(read)
                      /\ pump = "ok" => shown = RedactText(read)
    BY DEF AsIfWhole
  <2>1. shown \in Seq(Symbol) /\ sending \in Seq(Symbol)
    BY <1>1 DEF WholeInv
  <2>2. CASE pump \in {"read", "send"}
    BY <1>1, <2>2, ContinuesNow DEF WholeInv
  <2>3. CASE pump \in {"last", "ok"}
    <3>1. shown \o sending = RedactText(read) /\ pending = <<>>
      BY <1>1, <2>3 DEF WholeInv
    <3>2. RedactText(<<>>) = <<>>
      BY <1>1, RedactNothing DEF IInv
    <3>3. (shown \o sending) \o <<>> = shown \o sending
      BY <2>1
    <3>4. pump = "ok" => shown \o sending = shown
      BY <1>1, <2>1 DEF WholeInv
    <3> QED
      BY <3>1, <3>2, <3>3, <3>4, Zenon
  <2> QED
    BY <1>1, <2>2, <2>3 DEF IInv, TypeOK
<1>2. IInv /\ WholeInv /\ [Next]_vars => (IInv /\ WholeInv)'
  BY StepInv, WholeStep
<1>3. Init => IInv /\ WholeInv
  BY InitInv, WholeInit
<1> QED
  BY <1>1, <1>2, <1>3, PTL DEF Spec
=============================================================================
