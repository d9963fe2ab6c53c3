--------------------------- MODULE AsconAeadProofs ---------------------------
(***************************************************************************)
(* Proof that an envelope that arrives as it was sent is accepted and gives  *)
(* back its text, for every key, nonce, device id and text.  Nothing is       *)
(* assumed of the permutation: the receiver goes through the places of the    *)
(* sender's trail, because a block of ciphertext put in the place of the      *)
(* state's bytes leaves the state the sender had after adding the text.       *)
(***************************************************************************)
EXTENDS AsconAead, TLAPS

\* The bits of the n bytes at byte `at`.
BlockBits(at, n) == (8 * at) .. ((8 * (at + n)) - 1)

\* In that block, C is the text T encrypted in state s.
Encrypts(C, s, T, at, n) == C \intersect BlockBits(at, n) = Cipher(s, T, at, n)

\* The first k bytes of a sum of words.
SumOf(s, t, k) == Xor(s, t) \intersect Bytes(k)

LEMMA ShareFacts ==
  ASSUME NEW n \in 0 .. Rate
  PROVE  /\ Share(n)[1] \in 0 .. 8 /\ Share(n)[2] \in 0 .. 8
         /\ Share(n)[1] + Share(n)[2] = n
         /\ Share(n)[1] < 8 => Share(n)[2] = 0
  BY DEF Share, Rate

\* Replacing and clearing the first k bytes of a word is adding the text to it.
LEMMA WordFacts ==
  ASSUME NEW s, NEW k, NEW t, t \subseteq Bytes(k)
  PROVE  /\ clearBytesFirstN(s, k) \union SumOf(s, t, k) = Xor(s, t)
         /\ SumOf(s, SumOf(s, t, k), k) = t
  BY DEF clearBytesFirstN, Xor, SumOf

LEMMA CipherInBlock ==
  ASSUME NEW s, NEW T, NEW at \in Nat, NEW n \in 0 .. Rate
  PROVE  Cipher(s, T, at, n) \subseteq BlockBits(at, n)
<1>1. ASSUME NEW w \in {1, 2}, NEW v
      PROVE storeBytes(v, From(at, w), Share(n)[w]) \subseteq BlockBits(at, n)
  BY ShareFacts DEF storeBytes, From, Bytes, BlockBits, Rate
<1> QED  BY <1>1 DEF Cipher, CipherWord

\* What the receiver loads of a block of ciphertext is what the sender stored.
LEMMA CipherLoaded ==
  ASSUME NEW s, NEW T, NEW C, NEW at \in Nat, NEW n \in 0 .. Rate, NEW w \in {1, 2},
         Encrypts(C, s, T, at, n)
  PROVE  loadBytes(C, From(at, w), Share(n)[w]) =
           SumOf(s[w], loadBytes(T, From(at, w), Share(n)[w]), Share(n)[w])
<1> DEFINE k == Share(n)[w]
           f == From(at, w)
           v(u) == Xor(s[u], loadBytes(T, From(at, u), Share(n)[u]))
<1>1. k \in 0 .. 8 /\ f \in Nat
  BY ShareFacts DEF From
<1>2. \A b \in Bytes(k) : (8 * f) + b \in BlockBits(at, n)
  BY ShareFacts, <1>1 DEF Bytes, BlockBits, From, Rate
<1>3. \A b \in Bytes(k), u \in {1, 2} :
         (8 * f) + b \in CipherWord(s, u, T, at, n) <=> u = w /\ b \in v(u)
  <2> SUFFICES ASSUME NEW b \in Bytes(k), NEW u \in {1, 2}
               PROVE (8 * f) + b \in CipherWord(s, u, T, at, n) <=> u = w /\ b \in v(u)
    OBVIOUS
  <2>1. CipherWord(s, u, T, at, n) =
          {(8 * From(at, u)) + c : c \in v(u) \intersect Bytes(Share(n)[u])}
    BY DEF CipherWord, storeBytes
  <2> HIDE DEF v
  <2>2. \A c \in Bytes(Share(n)[u]) :
           (8 * From(at, u)) + c = (8 * f) + b <=> u = w /\ b = c
    BY ShareFacts, <1>1 DEF Bytes, From, Rate
  <2> QED  BY <2>1, <2>2
<1>4. \A b \in Bytes(k) : (8 * f) + b \in C <=> b \in v(w)
  <2> HIDE DEF v
  <2> QED BY <1>2, <1>3 DEF Cipher, Encrypts
<1>5. loadBytes(C, f, k) = v(w) \intersect Bytes(k)
  <2> HIDE DEF v
  <2> QED BY <1>4 DEF loadBytes
<1> QED  BY <1>5 DEF SumOf

\* asconAeadDecryptPayload leaves the state that asconAeadEncryptPayload leaves.
LEMMA ReplaceIsAbsorb ==
  ASSUME NEW s, NEW T, NEW C, NEW at \in Nat, NEW n \in 0 .. Rate,
         Encrypts(C, s, T, at, n)
  PROVE  Replace(s, C, at, n) = Absorb(s, T, at, n)
<1>1. ASSUME NEW w \in {1, 2}
      PROVE ReplaceWord(s, w, C, at, n) = AbsorbWord(s, w, T, at, n)
  <2> DEFINE k == Share(n)[w]
             f == From(at, w)
             c == loadBytes(C, f, k)
             t == loadBytes(T, f, k)
  <2>1. t \subseteq Bytes(k)
    BY DEF loadBytes
  <2>2. c = SumOf(s[w], t, k)
    BY CipherLoaded
  <2> HIDE DEF k, f, c, t
  <2>3. clearBytesFirstN(s[w], k) \union c = Xor(s[w], t)
    BY <2>1, <2>2, WordFacts
  <2> QED  BY <2>3 DEF ReplaceWord, AbsorbWord, k, f, c, t
<1> QED  BY <1>1 DEF Replace, Absorb

\* A block of ciphertext is turned back into the text.
LEMMA CipherTwice ==
  ASSUME NEW s, NEW T, NEW C, NEW at \in Nat, NEW n \in 0 .. Rate,
         Encrypts(C, s, T, at, n)
  PROVE  Cipher(s, C, at, n) = T \intersect BlockBits(at, n)
<1>1. ASSUME NEW w \in {1, 2}
      PROVE CipherWord(s, w, C, at, n) =
              {(8 * From(at, w)) + b : b \in loadBytes(T, From(at, w), Share(n)[w])}
  <2> DEFINE k == Share(n)[w]
             f == From(at, w)
             c == loadBytes(C, f, k)
             t == loadBytes(T, f, k)
  <2>1. t \subseteq Bytes(k)
    BY DEF loadBytes
  <2>2. c = SumOf(s[w], t, k)
    BY CipherLoaded
  <2> HIDE DEF k, f, c, t
  <2>3. SumOf(s[w], c, k) = t
    BY <2>1, <2>2, WordFacts
  <2> QED  BY <2>3 DEF CipherWord, storeBytes, SumOf, k, f, c, t
<1>2. Cipher(s, C, at, n) \subseteq T \intersect BlockBits(at, n)
  BY <1>1, CipherInBlock DEF Cipher, loadBytes
<1>3. ASSUME NEW b \in T \intersect BlockBits(at, n)
      PROVE b \in Cipher(s, C, at, n)
  <2> DEFINE w == IF b < 8 * (at + 8) THEN 1 ELSE 2
             d == b - (8 * From(at, w))
  <2>1. w \in {1, 2} /\ b \in Nat
    BY DEF BlockBits
  <2>2. d \in Bytes(Share(n)[w]) /\ (8 * From(at, w)) + d = b
    BY <2>1, ShareFacts DEF BlockBits, Bytes, From, Rate, Share
  <2>3. d \in loadBytes(T, From(at, w), Share(n)[w])
    BY <2>2 DEF loadBytes
  <2> HIDE DEF w, d
  <2> QED  BY <1>1, <2>1, <2>2, <2>3 DEF Cipher
<1> QED  BY <1>2, <1>3

-----------------------------------------------------------------------------
(* The inductive invariant.                                                 *)

TextBlock(p)  == Block(sent.text, p.done)
NextPlace(p)  == IF p.stage = "ad" THEN AfterAd(sent.ad, p)
                 ELSE AfterText(Absorb(p.x, sent.text.bits, p.done, TextBlock(p)),
                                p.done, TextBlock(p))
\* Where the sender stands, until it is done.
Leaves(p)     == end = "sender" /\ p = Here
SentBits      == IF end = "sender" THEN out ELSE received.text.bits
SentTag       == IF end = "sender" THEN tag ELSE received.tag
UnderWay      == stage \in {"ad", "text", "final"}

Shape ==
  /\ end \in {"sender", "receiver"}
  /\ stage \in {"start", "ad", "text", "final", "end"} /\ done \in Nat
  /\ sent.text.len \in Nat /\ sent.text.bits \subseteq Bytes(sent.text.len)
  /\ sent.kid \in DOMAIN Keyring
  /\ verdict \in {"none", "accepted", "rejected"} /\ (end = "sender" => verdict = "none")
  /\ \A p \in trail : /\ p.stage \in {"ad", "text", "final"} /\ p.done \in Nat
                      /\ p = Place(p.stage, p.done, p.x)
                      /\ p.stage = "text" => p.done <= sent.text.len
  /\ end = "receiver" => /\ received.text.len \in Nat
                         /\ stage = "text" => done <= received.text.len
  /\ intact => /\ end = "receiver"
               /\ received.kid = sent.kid /\ received.nonce = sent.nonce
               /\ received.ad = sent.ad /\ received.text.len = sent.text.len

\* The trail begins at the first place and goes on to where the sender stands.
Trail ==
  /\ end = "receiver" \/ stage # "start" => FirstPlace(sent) \in trail
  /\ UnderWay /\ (end = "sender" \/ intact) => Here \in trail
  /\ \A p \in trail : p.stage = "final" \/ Leaves(p) \/ NextPlace(p) \in trail

\* The sender goes forward through the text and finishes once.
Forward ==
  end = "sender" =>
    /\ \A p \in trail :
         /\ stage \in {"start", "ad"} => p.stage = "ad"
         /\ stage = "text" /\ p.stage = "text" => p = Here \/ p.done + Rate <= done
         /\ stage = "text" => p.stage # "final"
         /\ stage = "final" /\ p.stage = "final" => p = Here
    /\ stage \in {"start", "ad"} => out = {}
    /\ stage = "text" => out \subseteq Bytes(done)

\* What the sender wrote at each place of its trail.
Written ==
  /\ end = "sender" \/ intact =>
       \A p \in trail : p.stage = "text" =>
         Leaves(p) \/ Encrypts(SentBits, p.x, sent.text.bits, p.done, TextBlock(p))
  /\ intact \/ (end = "sender" /\ stage = "end") =>
       \A p \in trail : p.stage = "final" =>
         SentTag = asconAeadFinalize(p.x, KeyOf(sent))

\* How far the receiver of an intact envelope is.
Rebuilt ==
  intact =>
    /\ stage \in {"start", "ad"} => out = {}
    /\ stage = "text" => out = sent.text.bits \intersect Bytes(done)
    /\ stage = "final" => out = sent.text.bits
    /\ stage = "end" /\ sent.text.len > 0 => tag = received.tag /\ out = sent.text.bits
    /\ verdict # "none" => stage = "end"
    /\ sent.text.len > 0 => verdict # "rejected"

IInv == Shape /\ Trail /\ Forward /\ Written /\ Rebuilt

LEMMA BlockFacts ==
  ASSUME NEW b, b.len \in Nat, NEW d \in Nat, d <= b.len
  PROVE  /\ Block(b, d) \in 0 .. Rate /\ d + Block(b, d) <= b.len
         /\ Block(b, d) # Rate => d + Block(b, d) = b.len
  BY DEF Block, Rate

\* Where a step of a stage leads.
LEMMA PlaceFacts ==
  /\ \A e : /\ FirstPlace(e) = Place(FirstPlace(e).stage, 0, FirstPlace(e).x)
            /\ FirstPlace(e).stage \in {"ad", "text"} /\ FirstPlace(e).done = 0
  /\ \A ad, p : p.done \in Nat =>
       /\ AfterAd(ad, p) = Place(AfterAd(ad, p).stage, AfterAd(ad, p).done, AfterAd(ad, p).x)
       /\ AfterAd(ad, p).stage \in {"ad", "text"} /\ AfterAd(ad, p).done \in Nat
       /\ AfterAd(ad, p).stage = "text" => AfterAd(ad, p).done = 0
  /\ \A s, d, n : d \in Nat /\ n \in 0 .. Rate =>
       /\ AfterText(s, d, n) =
            Place(AfterText(s, d, n).stage, d + n, AfterText(s, d, n).x)
       /\ AfterText(s, d, n).stage = IF n = Rate THEN "text" ELSE "final"
       /\ AfterText(s, d, n).done = d + n
       /\ n # Rate => AfterText(s, d, n).x = s
<1>1. \A e : /\ FirstPlace(e) = Place(FirstPlace(e).stage, 0, FirstPlace(e).x)
             /\ FirstPlace(e).stage \in {"ad", "text"} /\ FirstPlace(e).done = 0
  BY DEF FirstPlace, Place
<1>2. \A ad, p : p.done \in Nat =>
       /\ AfterAd(ad, p) = Place(AfterAd(ad, p).stage, AfterAd(ad, p).done, AfterAd(ad, p).x)
       /\ AfterAd(ad, p).stage \in {"ad", "text"} /\ AfterAd(ad, p).done \in Nat
       /\ AfterAd(ad, p).stage = "text" => AfterAd(ad, p).done = 0
  BY DEF AfterAd, Place, Rate
<1>3. \A s, d, n : d \in Nat /\ n \in 0 .. Rate =>
       /\ AfterText(s, d, n) =
            Place(AfterText(s, d, n).stage, d + n, AfterText(s, d, n).x)
       /\ AfterText(s, d, n).stage = IF n = Rate THEN "text" ELSE "final"
       /\ AfterText(s, d, n).done = d + n
       /\ n # Rate => AfterText(s, d, n).x = s
  BY DEF AfterText, Place, Rate
<1> QED  BY <1>1, <1>2, <1>3

LEMMA InitIInv == Init => IInv
  BY EnvelopesAssumption
  DEF Init, IInv, Shape, Trail, Forward, Written, Rebuilt, Envelope, IsBuffer, UnderWay

LEMMA StartIInv == IInv /\ Start => IInv'
<1> SUFFICES ASSUME IInv, Start PROVE IInv'
  OBVIOUS
<1> DEFINE p == FirstPlace(Read)
<1>1. /\ stage = "start" /\ stage' = p.stage /\ done' = p.done /\ x' = p.x
      /\ Here' = p /\ p.stage \in {"ad", "text"} /\ p.done = 0
  BY PlaceFacts DEF Start, Reach, Here
<1>2. UNCHANGED <<sent, received, intact, end, out, tag, verdict>>
  BY DEF Start
<1>3. trail' = IF end = "sender" THEN trail \union {p} ELSE trail
  BY DEF Start, Reach
<1>4. end = "sender" \/ intact => p = FirstPlace(sent)
  BY DEF IInv, Shape, Read, FirstPlace, KeyOf
<1>5. \A q \in trail : ~Leaves(q)
  BY <1>1 DEF IInv, Shape, Leaves, Here, Place
<1>6. \A q : NextPlace(q)' = NextPlace(q)
  BY <1>2 DEF NextPlace, TextBlock
<1>7. p = Place(p.stage, p.done, p.x)
  BY PlaceFacts
<1> HIDE DEF p
<1>8. Shape'
  BY <1>1, <1>2, <1>3, <1>7 DEF IInv, Shape
<1>9. Trail'
  BY <1>1, <1>2, <1>3, <1>4, <1>5, <1>6 DEF IInv, Trail, Leaves, Shape
<1>10. Forward'
  BY <1>1, <1>2, <1>3 DEF IInv, Forward
<1>11. Written'
  BY <1>1, <1>2, <1>3, <1>5 DEF IInv, Written, Leaves, TextBlock, SentBits, SentTag, Shape
<1>12. Rebuilt'
  BY <1>1, <1>2 DEF IInv, Rebuilt, Bytes
<1> QED  BY <1>8, <1>9, <1>10, <1>11, <1>12 DEF IInv

LEMMA AbsorbAdIInv == IInv /\ AbsorbAd => IInv'
<1> SUFFICES ASSUME IInv, AbsorbAd PROVE IInv'
  OBVIOUS
<1> DEFINE p == AfterAd(Read.ad, Here)
<1>0. Here.done = done /\ Here.stage = stage /\ stage = "ad"
  BY DEF Here, Place, AbsorbAd
<1>1. /\ stage' = p.stage /\ done' = p.done /\ x' = p.x
      /\ p = Place(p.stage, p.done, p.x) /\ p.stage \in {"ad", "text"}
      /\ p.done \in Nat
      /\ p.stage = "text" => p.done = 0
  BY <1>0, PlaceFacts DEF AbsorbAd, Reach, IInv, Shape
<1>2. UNCHANGED <<sent, received, intact, end, out, tag, verdict>> /\ Here' = p
  BY <1>1 DEF AbsorbAd, Here
<1>3. trail' = IF end = "sender" THEN trail \union {p} ELSE trail
  BY DEF AbsorbAd, Reach
<1>4. end = "sender" \/ intact => Here \in trail /\ p = NextPlace(Here)
  BY <1>0 DEF IInv, Shape, Trail, UnderWay, Read, NextPlace
<1>5. \A q : NextPlace(q)' = NextPlace(q) /\ TextBlock(q)' = TextBlock(q)
  BY <1>2 DEF NextPlace, TextBlock
<1> HIDE DEF p
<1>8. Shape'
  BY <1>1, <1>2, <1>3 DEF IInv, Shape
<1>9. Trail'
  BY <1>0, <1>1, <1>2, <1>3, <1>4, <1>5 DEF IInv, Trail, Leaves, Shape, UnderWay
<1>10. Forward'
  BY <1>0, <1>1, <1>2, <1>3 DEF IInv, Forward
<1>11. Written'
  BY <1>0, <1>1, <1>2, <1>3, <1>5
  DEF IInv, Written, Leaves, SentBits, SentTag, Shape, Forward
<1>12. Rebuilt'
  BY <1>0, <1>1, <1>2 DEF IInv, Rebuilt, Bytes
<1> QED  BY <1>8, <1>9, <1>10, <1>11, <1>12 DEF IInv

LEMMA EncryptIInv == IInv /\ EncryptText => IInv'
<1> SUFFICES ASSUME IInv, EncryptText PROVE IInv'
  OBVIOUS
<1> DEFINE T == sent.text.bits
           n == Block(sent.text, done)
           p == AfterText(Absorb(x, T, done, n), done, n)
<1>0. /\ Here.done = done /\ Here.stage = "text" /\ stage = "text" /\ Here.x = x
      /\ end = "sender" /\ Here \in trail /\ ~intact
  BY DEF Here, Place, EncryptText, IInv, Shape, Trail, UnderWay
<1>1. n \in 0 .. Rate /\ done \in Nat /\ done <= sent.text.len
  BY <1>0, BlockFacts DEF IInv, Shape
<1>2. /\ p = Place(p.stage, done + n, p.x)
      /\ p.stage = IF n = Rate THEN "text" ELSE "final"
      /\ p.done = done + n
  BY <1>1, PlaceFacts
<1>3. /\ UNCHANGED <<sent, received, intact, end, tag, verdict>>
      /\ stage' = p.stage /\ done' = p.done /\ x' = p.x
      /\ trail' = trail \union {p} /\ out' = out \union Cipher(x, T, done, n)
  BY <1>0 DEF EncryptText, Reach
<1>4. Here' = p
  BY <1>2, <1>3 DEF Here
<1>5. p = NextPlace(Here)
  BY <1>0 DEF NextPlace, TextBlock
<1>6. \A q : NextPlace(q)' = NextPlace(q) /\ TextBlock(q)' = TextBlock(q)
  BY <1>3 DEF NextPlace, TextBlock
<1>7. done + n <= sent.text.len /\ (n # Rate => done + n = sent.text.len)
  BY <1>0, <1>1, BlockFacts DEF IInv, Shape
<1>8. Cipher(x, T, done, n) \subseteq BlockBits(done, n)
  BY <1>1, CipherInBlock
<1>9. out \subseteq Bytes(done)
  BY <1>0 DEF IInv, Forward
<1>10. Encrypts(out', x, T, done, n)
  BY <1>1, <1>3, <1>8, <1>9 DEF Encrypts, BlockBits, Bytes
<1>11. ASSUME NEW q \in trail, q.stage = "text", q # Here
       PROVE Encrypts(out', q.x, T, q.done, TextBlock(q))
  <2>1. q.done \in Nat /\ q.done + Rate <= done /\ TextBlock(q) = Rate
    BY <1>0, <1>1, <1>11 DEF IInv, Forward, Shape, TextBlock, Block, Rate
  <2>2. Encrypts(out, q.x, T, q.done, TextBlock(q))
    BY <1>0, <1>11 DEF IInv, Written, SentBits, Leaves
  <2>3. Cipher(x, T, done, n) \intersect BlockBits(q.done, Rate) = {}
    BY <1>1, <1>8, <2>1 DEF BlockBits, Rate
  <2> HIDE DEF n, T
  <2> QED  BY <1>3, <2>1, <2>2, <2>3 DEF Encrypts
<1>12. TextBlock(Here) = n
  BY <1>0 DEF TextBlock
<1> HIDE DEF p, n
<1>13. Shape'
  BY <1>0, <1>1, <1>2, <1>3, <1>7 DEF IInv, Shape
<1>14. Trail'
  BY <1>0, <1>2, <1>3, <1>4, <1>5, <1>6 DEF IInv, Trail, Leaves, Shape, UnderWay
<1>15. Forward'
  <2>1. \A q \in trail : q.stage = "text" => q.done + Rate <= done + Rate /\ q.done \in Nat
    BY <1>0, <1>1 DEF IInv, Forward, Shape, Rate
  <2>2. n = Rate => out' \subseteq Bytes(done')
    <3>1. done' = done + n
      BY <1>2, <1>3
    <3>2. Bytes(done) \subseteq Bytes(done + n) /\ BlockBits(done, n) \subseteq Bytes(done + n)
      BY <1>1 DEF Bytes, BlockBits, Rate
    <3> QED  BY <1>3, <1>8, <1>9, <3>1, <3>2
  <2>3. ASSUME NEW q \in trail, stage' = "text", q.stage = "text"
        PROVE q.done + Rate <= done'
    BY <2>1, <2>3, <1>2, <1>3
  <2> QED  BY <1>0, <1>1, <1>2, <1>3, <1>4, <2>2, <2>3 DEF IInv, Forward
<1>16. Written'
  <2>1. SentBits' = out'
    BY <1>0, <1>3 DEF SentBits
  <2>2. ASSUME NEW q \in trail', q.stage = "text"
        PROVE Leaves(q)' \/ Encrypts(SentBits, q.x, sent.text.bits, q.done, TextBlock(q))'
    <3>1. CASE q = p
      BY <1>0, <1>3, <1>4, <3>1 DEF Leaves
    <3>2. CASE q = Here
      BY <1>0, <1>3, <1>6, <1>10, <1>12, <2>1, <3>2
    <3>3. CASE q # p /\ q # Here
      BY <1>3, <1>6, <1>11, <2>1, <2>2, <3>3
    <3> QED  BY <3>1, <3>2, <3>3
  <2> QED  BY <1>0, <1>2, <1>3, <2>2 DEF Written
<1>17. Rebuilt'
  BY <1>0, <1>3 DEF Rebuilt
<1> QED  BY <1>13, <1>14, <1>15, <1>16, <1>17 DEF IInv

LEMMA DecryptIInv == IInv /\ DecryptText => IInv'
<1> SUFFICES ASSUME IInv, DecryptText PROVE IInv'
  OBVIOUS
<1> DEFINE T == sent.text.bits
           C == received.text.bits
           n == Block(received.text, done)
           p == AfterText(Replace(x, C, done, n), done, n)
<1>0. /\ stage = "text" /\ end = "receiver" /\ done \in Nat
      /\ n \in 0 .. Rate /\ done + n <= received.text.len
      /\ n # Rate => done + n = received.text.len
  BY BlockFacts DEF DecryptText, IInv, Shape
<1>1. /\ UNCHANGED <<sent, received, intact, end, tag, verdict>>
      /\ stage' = p.stage /\ done' = p.done /\ x' = p.x
      /\ trail' = trail /\ out' = out \union Cipher(x, C, done, n)
  BY <1>0 DEF DecryptText, Reach
<1>2. \A q : /\ NextPlace(q)' = NextPlace(q) /\ TextBlock(q)' = TextBlock(q)
             /\ ~Leaves(q) /\ ~Leaves(q)'
  BY <1>0, <1>1 DEF NextPlace, TextBlock, Leaves
<1>3. /\ p = Place(p.stage, done + n, p.x) /\ p.done = done + n
      /\ p.stage = IF n = Rate THEN "text" ELSE "final"
  BY <1>0, PlaceFacts
<1>4. ASSUME intact
      PROVE  /\ Here' \in trail /\ out' = T \intersect Bytes(done')
             /\ stage' = "final" => out' = T
  <2>1. /\ Here \in trail /\ Here.stage = "text" /\ Here.done = done /\ Here.x = x
        /\ TextBlock(Here) = n /\ out = T \intersect Bytes(done)
        /\ T \subseteq Bytes(sent.text.len) /\ sent.text.len = received.text.len
    BY <1>0, <1>4
    DEF IInv, Shape, Trail, UnderWay, Rebuilt, Here, Place, TextBlock, Block
  <2>2. NextPlace(Here) \in trail
    BY <1>2, <2>1 DEF IInv, Trail
  <2>3. Encrypts(C, x, T, done, n)
    BY <1>0, <1>2, <1>4, <2>1 DEF IInv, Written, SentBits
  <2> HIDE DEF T, C, n
  <2>4. Replace(x, C, done, n) = Absorb(x, T, done, n)
    BY <1>0, <2>3, ReplaceIsAbsorb
  <2>5. Cipher(x, C, done, n) = T \intersect BlockBits(done, n)
    BY <1>0, <2>3, CipherTwice
  <2>6. p = NextPlace(Here)
    BY <2>1, <2>4 DEF NextPlace, T
  <2>7. Here' = p
    BY <1>1, <1>3 DEF Here
  <2>8. BlockBits(done, n) \union Bytes(done) = Bytes(done + n)
    BY <1>0 DEF BlockBits, Bytes, Rate
  <2>9. out' = T \intersect Bytes(done')
    BY <1>1, <1>3, <2>1, <2>5, <2>8
  <2>10. stage' = "final" => done' = sent.text.len
    BY <1>0, <1>1, <1>3, <2>1
  <2> QED  BY <2>1, <2>2, <2>6, <2>7, <2>9, <2>10
<1> HIDE DEF p, n
<1>13. Shape'
  BY <1>0, <1>1, <1>3 DEF IInv, Shape
<1>14. Trail'
  BY <1>0, <1>1, <1>2, <1>3, <1>4 DEF IInv, Trail, UnderWay
<1>15. Forward'
  BY <1>0, <1>1 DEF Forward
<1>16. Written'
  BY <1>0, <1>1, <1>2 DEF IInv, Written, SentBits, SentTag
<1>17. Rebuilt'
  BY <1>0, <1>1, <1>3, <1>4 DEF IInv, Rebuilt
<1> QED  BY <1>13, <1>14, <1>15, <1>16, <1>17 DEF IInv

LEMMA FinalizeIInv == IInv /\ Finalize => IInv'
<1> SUFFICES ASSUME IInv, Finalize PROVE IInv'
  OBVIOUS
<1>1. /\ stage = "final" /\ stage' = "end"
      /\ tag' = asconAeadFinalize(x, KeyOf(Read))
      /\ UNCHANGED <<sent, received, intact, end, done, x, out, verdict, trail>>
  BY DEF Finalize
<1>2. /\ \A q : NextPlace(q)' = NextPlace(q) /\ TextBlock(q)' = TextBlock(q)
      /\ \A q \in trail : Leaves(q) => q.stage = "final" /\ q.x = x
  BY <1>1 DEF NextPlace, TextBlock, Leaves, Here, Place
<1>3. end = "sender" => KeyOf(Read) = KeyOf(sent)
  BY DEF Read
<1>4. intact => Here \in trail /\ Here.stage = "final" /\ Here.x = x
                /\ KeyOf(Read) = KeyOf(sent) /\ end = "receiver"
  BY <1>1 DEF IInv, Shape, Trail, UnderWay, Here, Place, Read, KeyOf
<1>5. Shape'
  BY <1>1 DEF IInv, Shape
<1>6. Trail'
  BY <1>1, <1>2 DEF IInv, Trail, Leaves, UnderWay
<1>7. Forward'
  BY <1>1 DEF IInv, Forward
<1>8. Written'
  <2>1. ASSUME NEW q \in trail, q.stage = "text", end = "sender" \/ intact
        PROVE Encrypts(SentBits, q.x, sent.text.bits, q.done, TextBlock(q))'
    BY <1>1, <1>2, <2>1 DEF IInv, Written, SentBits
  <2>2. ASSUME NEW q \in trail, q.stage = "final", end = "sender"
        PROVE tag' = asconAeadFinalize(q.x, KeyOf(sent))
    BY <1>1, <1>3, <2>2 DEF IInv, Forward, Here, Place
  <2>3. ASSUME NEW q \in trail, q.stage = "final", intact
        PROVE received.tag = asconAeadFinalize(q.x, KeyOf(sent))
    BY <1>4, <2>3 DEF IInv, Written, SentTag
  <2> QED  BY <1>1, <1>4, <2>1, <2>2, <2>3 DEF Written, SentTag, IInv, Shape
<1>9. Rebuilt'
  <2>1. intact => tag' = received.tag /\ out = sent.text.bits /\ verdict = "none"
    BY <1>1, <1>4 DEF IInv, Written, SentTag, Rebuilt
  <2> QED  BY <1>1, <2>1 DEF IInv, Rebuilt
<1> QED  BY <1>5, <1>6, <1>7, <1>8, <1>9 DEF IInv

LEMMA DeliverIInv == IInv /\ Deliver => IInv'
<1> SUFFICES ASSUME IInv, Deliver PROVE IInv'
  OBVIOUS
<1>1. /\ end = "sender" /\ stage = "end" /\ end' = "receiver" /\ stage' = "start"
      /\ done' = 0 /\ out' = {} /\ ~intact
      /\ received' \in {Sealed} \union Altered(Sealed) /\ intact' = (received' = Sealed)
      /\ UNCHANGED <<sent, verdict, trail>>
  BY DEF Deliver, IInv, Shape
<1>2. \A q : /\ NextPlace(q)' = NextPlace(q) /\ TextBlock(q)' = TextBlock(q)
             /\ q \in trail => ~Leaves(q)
  BY <1>1 DEF NextPlace, TextBlock, Leaves, Here, Place, IInv, Shape
<1>3. received'.text.len \in Nat
  BY <1>1 DEF Altered, Sealed, IInv, Shape
<1>4. intact' => /\ received'.kid = sent.kid /\ received'.nonce = sent.nonce
                 /\ received'.ad = sent.ad /\ received'.text.len = sent.text.len
                 /\ received'.text.bits = out /\ received'.tag = tag
  <2> SUFFICES ASSUME intact'
               PROVE  received' = Sealed
    BY DEF Sealed
  <2> QED  BY <1>1, Zenon
<1>5. Shape'
  BY <1>1, <1>3, <1>4 DEF IInv, Shape
<1>6. Trail'
  BY <1>1, <1>2 DEF IInv, Trail, UnderWay
<1>7. Forward'
  BY <1>1 DEF Forward
<1>8. Written'
  BY <1>1, <1>2, <1>4 DEF IInv, Written, SentBits, SentTag
<1>9. Rebuilt'
  BY <1>1 DEF IInv, Shape, Rebuilt
<1> QED  BY <1>5, <1>6, <1>7, <1>8, <1>9 DEF IInv

LEMMA VerdictIInv == IInv /\ (Refuse \/ Verify) => IInv'
<1> SUFFICES ASSUME IInv, Refuse \/ Verify PROVE IInv'
  OBVIOUS
<1>1. /\ end = "receiver" /\ stage' = "end" /\ stage \in {"start", "end"}
      /\ verdict' \in {"accepted", "rejected"}
      /\ UNCHANGED <<sent, received, intact, end, done, x, out, tag, trail>>
  BY DEF Refuse, Refused, Verify
<1>2. \A q : /\ NextPlace(q)' = NextPlace(q) /\ TextBlock(q)' = TextBlock(q)
             /\ ~Leaves(q) /\ ~Leaves(q)'
  BY <1>1 DEF NextPlace, TextBlock, Leaves
<1>3. Shape' /\ Trail' /\ Forward' /\ Written'
  BY <1>1, <1>2
  DEF IInv, Shape, Trail, Forward, Written, UnderWay, SentBits, SentTag
<1>4. Rebuilt'
  <2>1. intact /\ sent.text.len > 0 => ~Refused
    <3>1. intact => /\ received.kid \in DOMAIN Keyring
                    /\ received.text.len = sent.text.len /\ sent.text.len \in Nat
      BY DEF IInv, Shape
    <3> QED  BY <3>1 DEF Refused
  <2>2. CASE Refuse
    BY <1>1, <2>1, <2>2 DEF IInv, Rebuilt, Refuse
  <2>3. CASE Verify
    BY <1>1, <2>3 DEF IInv, Shape, Rebuilt, Verify, constantTimeEquals
  <2> QED  BY <2>2, <2>3
<1> QED  BY <1>3, <1>4 DEF IInv

LEMMA IInvInductive == IInv /\ [Next]_vars => IInv'
<1> SUFFICES ASSUME IInv, [Next]_vars PROVE IInv'
  OBVIOUS
<1>1. CASE UNCHANGED vars
  BY <1>1 DEF vars, IInv, Shape, Trail, Forward, Written, Rebuilt, UnderWay, Leaves, Here,
     SentBits, SentTag, NextPlace, TextBlock
<1> QED
  BY <1>1, StartIInv, AbsorbAdIInv, EncryptIInv, DecryptIInv, FinalizeIInv,
     DeliverIInv, VerdictIInv DEF Next

\* An envelope that arrives as it was sent is accepted and gives back its text,
\* whatever the keys, the nonces, the device ids and the lengths of the texts.
THEOREM IntactRoundTrip == Spec => []RoundTrip
<1>1. IInv => RoundTrip
  BY DEF IInv, Shape, Rebuilt, RoundTrip
<1> QED  BY InitIInv, IInvInductive, <1>1, PTL DEF Spec
=============================================================================
