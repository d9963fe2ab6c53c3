------------------------------ MODULE AsconAead ------------------------------
(***************************************************************************)
(* Ascon-AEAD128 as the worker runs it (asconAead128.js): one envelope is    *)
(* encrypted by one end and decrypted by the other, block by block, and may  *)
(* be altered on the way.                                                    *)
(*                                                                          *)
(* A 64-bit word is the set of its one bits, so XOR is the symmetric         *)
(* difference and AND the intersection; a buffer is its length in bytes and  *)
(* the set of its one bits, bit 8*i+k being bit k of byte i, which is the    *)
(* little-endian order loadBytes and storeBytes use.  The state of the       *)
(* sponge, state[0] to state[4] in the code, is a tuple of five words.       *)
(***************************************************************************)
EXTENDS Integers

CONSTANTS
  Keyring,   \* a function from key ids, positive numbers, to the bits of the keys
  Envelopes  \* what to encrypt: key id, nonce prefix, counter, associated data, text

Bytes(n)   == 0 .. (8 * n - 1)   \* the bits of the first n bytes
IsBuffer(b) == b.len \in Nat /\ b.bits \subseteq Bytes(b.len)

ASSUME EnvelopesAssumption ==
  \A e \in Envelopes : /\ e.kid \in DOMAIN Keyring
                       /\ IsBuffer(e.ad) /\ IsBuffer(e.text)
                       /\ e.prefix \subseteq Bytes(8) /\ e.ctr \subseteq Bytes(8)

VARIABLES
  sent,      \* the envelope the sender encrypts
  received,  \* the envelope the receiver decrypts, with its tag
  intact,    \* history: it is the one that was sent
  end,       \* the end at work: "sender" or "receiver"
  stage,     \* where it stands: "start", "ad", "text", "final", "end"
  done,      \* bytes of the associated data or of the text consumed
  x,         \* the five words of the state
  out,       \* the bits of the text produced
  tag,       \* the bits of the tag computed
  verdict,   \* what the receiver said: "none", "accepted" or "rejected"
  trail      \* history: the places and states the sender went through

vars == <<sent, received, intact, end, stage, done, x, out, tag, verdict, trail>>

-----------------------------------------------------------------------------
(* Words and buffers.                                                       *)

Word      == 0 .. 63
Xor(a, b) == (a \ b) \union (b \ a)

rotr64(w, n) == {(b + 64 - n) % 64 : b \in w}

loadBytes(buf, at, n)  == {b \in Bytes(n) : (8 * at) + b \in buf}
storeBytes(w, at, n)   == {(8 * at) + b : b \in w \cap Bytes(n)}
clearBytesFirstN(w, n) == w \ Bytes(n)

-----------------------------------------------------------------------------
(* The permutation.                                                         *)

BitsOf(n) == {k \in 0 .. 7 : (n \div 2^k) % 2 = 1}

\* ASCON_RC: 0xf0, 0xe1, ..., 0x4b
RoundConstant(i) == BitsOf((16 * (15 - i)) + i)

Diffuse(w, m, n) == Xor(w, Xor(rotr64(w, m), rotr64(w, n)))

AsconRound(s, i) ==
  LET p == <<Xor(s[1], s[5]), s[2], Xor(Xor(s[3], RoundConstant(i)), s[2]),
             s[4], Xor(s[5], s[4])>>
      q == <<Xor(p[1], p[3] \ p[2]), Xor(p[2], p[4] \ p[3]),
             Xor(p[3], p[5] \ p[4]), Xor(p[4], p[1] \ p[5]),
             Xor(p[5], p[2] \ p[1])>>
  IN <<Diffuse(Xor(q[1], q[5]), 19, 28), Diffuse(Xor(q[2], q[1]), 61, 39),
       Diffuse(Word \ q[3], 1, 6),       Diffuse(Xor(q[4], q[3]), 10, 17),
       Diffuse(q[5], 7, 41)>>

asconPermute(s, rounds) ==
  LET after[i \in 0 .. 12] ==
        IF i <= 12 - rounds THEN s ELSE AsconRound(after[i - 1], i - 1)
  IN after[12]

PA == 12
PB == 8

-----------------------------------------------------------------------------
(* The stages.  A block of n bytes, n at most 16, fills x[1] and then x[2].  *)

Rate == 16
IV   == {0, 18, 19, 23, 31, 44}   \* 0x00001000808C0001
DSEP == {63}

asconAeadInit(key, nonce) ==
  LET s == asconPermute(<<IV, loadBytes(key, 0, 8), loadBytes(key, 8, 8),
                          loadBytes(nonce, 0, 8), loadBytes(nonce, 8, 8)>>, PA)
  IN <<s[1], s[2], s[3], Xor(s[4], loadBytes(key, 0, 8)),
       Xor(s[5], loadBytes(key, 8, 8))>>

\* Bytes of a block of n that go to the first and to the second word.
Share(n) == IF n >= 8 THEN <<8, n - 8>> ELSE <<n, 0>>

\* pad, for the last block: one bit after its last byte.
Pad(n) == IF n = Rate THEN <<{}, {}>>
          ELSE IF n >= 8 THEN <<{}, {8 * (n - 8)}>> ELSE <<{8 * n}, {}>>

\* Where word w of the block at byte `at` starts.
From(at, w) == at + (8 * (w - 1))

AbsorbWord(s, w, buf, at, n) ==
  Xor(Xor(s[w], loadBytes(buf, From(at, w), Share(n)[w])), Pad(n)[w])

Absorb(s, buf, at, n) ==
  <<AbsorbWord(s, 1, buf, at, n), AbsorbWord(s, 2, buf, at, n), s[3], s[4], s[5]>>

CipherWord(s, w, buf, at, n) ==
  storeBytes(Xor(s[w], loadBytes(buf, From(at, w), Share(n)[w])),
             From(at, w), Share(n)[w])

\* What a block of the text becomes, on either end: the state's bytes are added.
Cipher(s, buf, at, n) ==
  CipherWord(s, 1, buf, at, n) \union CipherWord(s, 2, buf, at, n)

\* Mutant of ReplaceWord: the bytes are not cleared first.
ReplaceWordUncleared(s, w, buf, at, n) ==
  Xor(s[w] \union loadBytes(buf, From(at, w), Share(n)[w]), Pad(n)[w])

\* The receiver puts the ciphertext in the place of the state's bytes.
ReplaceWord(s, w, buf, at, n) ==
  Xor(clearBytesFirstN(s[w], Share(n)[w])
        \union loadBytes(buf, From(at, w), Share(n)[w]), Pad(n)[w])

Replace(s, buf, at, n) ==
  <<ReplaceWord(s, 1, buf, at, n), ReplaceWord(s, 2, buf, at, n), s[3], s[4], s[5]>>

asconAeadFinalize(s, key) ==
  LET t == asconPermute(<<s[1], s[2], Xor(s[3], loadBytes(key, 0, 8)),
                          Xor(s[4], loadBytes(key, 8, 8)), s[5]>>, PA)
  IN storeBytes(Xor(t[4], loadBytes(key, 0, 8)), 0, 8)
       \union storeBytes(Xor(t[5], loadBytes(key, 8, 8)), 8, 8)

Separate(s) == <<s[1], s[2], s[3], s[4], Xor(s[5], DSEP)>>

KeyOf(e) == Keyring[e.kid]

\* Mutant of writeUint64BE: the counter goes out with its low byte first.
writeUint64LE(value) == storeBytes(value, 8, 8)

\* The last 8 bytes of a nonce: the counter, high byte first.
writeUint64BE(value) == {(8 * (15 - (b \div 8))) + (b % 8) : b \in value}

\* encryptCommandEnvelope: what the cipher is called with.
Envelope(e) == [kid |-> e.kid, nonce |-> e.prefix \union writeUint64BE(e.ctr),
                ad |-> e.ad, text |-> e.text]

-----------------------------------------------------------------------------
(* One end at work.                                                         *)

Init ==
  /\ sent \in {Envelope(e) : e \in Envelopes}
  /\ received = sent /\ intact = FALSE
  /\ end = "sender" /\ stage = "start" /\ done = 0 /\ x = <<{}, {}, {}, {}, {}>>
  /\ out = {} /\ tag = {} /\ verdict = "none" /\ trail = {}

\* The envelope the end at work reads.
Read == IF end = "sender" THEN sent ELSE received

\* A place on the way through an envelope.
Place(s, d, w) == [stage |-> s, done |-> d, x |-> w]
Here == Place(stage, done, x)

\* Go to a place; the sender leaves a trail.
Reach(p) ==
  /\ stage' = p.stage /\ done' = p.done /\ x' = p.x
  /\ trail' = IF end = "sender" THEN trail \union {p} ELSE trail

\* Bytes of the block at byte d of a buffer: a whole one, or the rest.
Block(b, d) == IF b.len - d >= Rate THEN Rate ELSE b.len - d

FirstPlace(e) ==
  LET s == asconAeadInit(KeyOf(e), e.nonce)
  IN IF e.ad.len > 0 THEN Place("ad", 0, s) ELSE Place("text", 0, Separate(s))

\* A round of the loop of asconAeadAbsorbAd, or what follows the loop.
AfterAd(ad, p) ==
  LET n == Block(ad, p.done)
      s == asconPermute(Absorb(p.x, ad.bits, p.done, n), PB)
  IN IF n = Rate THEN Place("ad", p.done + Rate, s) ELSE Place("text", 0, Separate(s))

\* After a block of n bytes of the text at byte d; no permutation follows the last.
AfterText(s, d, n) ==
  IF n = Rate THEN Place("text", d + Rate, asconPermute(s, PB))
  ELSE Place("final", d + n, s)

\* decryptTelemetryEnvelope finds no key, or no ciphertext: hexToBuf throws.
Refused ==
  end = "receiver" /\ (received.kid \notin DOMAIN Keyring \/ received.text.len = 0)

Refuse ==
  /\ stage = "start" /\ Refused
  /\ stage' = "end" /\ verdict' = "rejected"
  /\ UNCHANGED <<sent, received, intact, end, done, x, out, tag, trail>>

\* crypto_aead_encrypt, crypto_aead_decrypt up to asconAeadInit.
Start ==
  /\ stage = "start" /\ ~Refused
  /\ Reach(FirstPlace(Read))
  /\ UNCHANGED <<sent, received, intact, end, out, tag, verdict>>

AbsorbAd ==
  /\ stage = "ad"
  /\ Reach(AfterAd(Read.ad, Here))
  /\ UNCHANGED <<sent, received, intact, end, out, tag, verdict>>

\* asconAeadEncryptPayload
EncryptText ==
  /\ stage = "text" /\ end = "sender"
  /\ LET n == Block(sent.text, done)
     IN /\ out' = out \union Cipher(x, sent.text.bits, done, n)
        /\ Reach(AfterText(Absorb(x, sent.text.bits, done, n), done, n))
  /\ UNCHANGED <<sent, received, intact, end, tag, verdict>>

\* asconAeadDecryptPayload
DecryptText ==
  /\ stage = "text" /\ end = "receiver"
  /\ LET n == Block(received.text, done)
     IN /\ out' = out \union Cipher(x, received.text.bits, done, n)
        /\ Reach(AfterText(Replace(x, received.text.bits, done, n), done, n))
  /\ UNCHANGED <<sent, received, intact, end, tag, verdict>>

Finalize ==
  /\ stage = "final"
  /\ tag' = asconAeadFinalize(x, KeyOf(Read))
  /\ stage' = "end"
  /\ UNCHANGED <<sent, received, intact, end, done, x, out, verdict, trail>>

-----------------------------------------------------------------------------
(* The wire and the verdict.                                                *)

\* What the sender hands over.
Sealed == [kid |-> sent.kid, nonce |-> sent.nonce, ad |-> sent.ad,
           text |-> [len |-> sent.text.len, bits |-> out], tag |-> tag]

Flip(bits, b) == Xor(bits, {b})

\* One alteration of an envelope: a bit of the ciphertext, the tag, the nonce
\* or the device id, another key id, a byte less or a zero byte more.
Altered(e) ==
  {[e EXCEPT !.text.bits = Flip(@, b)] : b \in {0, 8 * e.text.len - 1} \cap Bytes(e.text.len)}
    \union {[e EXCEPT !.ad.bits = Flip(@, b)] : b \in {1} \cap Bytes(e.ad.len)}
    \union {[e EXCEPT !.tag = Flip(@, b)] : b \in {0, 127}}
    \union {[e EXCEPT !.nonce = Flip(@, b)] : b \in {0, 127}}
    \union {[e EXCEPT !.kid = k] : k \in (DOMAIN Keyring \union {0}) \ {e.kid}}
    \union {[e EXCEPT !.text = [len |-> n, bits |-> @.bits \cap Bytes(n)]] :
              n \in {e.text.len - 1, e.text.len + 1} \cap Nat}

Deliver ==
  /\ end = "sender" /\ stage = "end"
  /\ received' \in {Sealed} \union Altered(Sealed)
  /\ intact' = (received' = Sealed)
  /\ end' = "receiver" /\ stage' = "start" /\ done' = 0
  /\ x' = <<{}, {}, {}, {}, {}>> /\ out' = {} /\ tag' = {}
  /\ UNCHANGED <<sent, verdict, trail>>

\* Mutant of constantTimeEquals: only the first word of the tag is compared.
EqualFirstWord(a, b) == loadBytes(a, 0, 8) = loadBytes(b, 0, 8)

constantTimeEquals(a, b) == a = b

Verify ==
  /\ end = "receiver" /\ stage = "end" /\ verdict = "none"
  /\ verdict' = IF constantTimeEquals(tag, received.tag) THEN "accepted" ELSE "rejected"
  /\ UNCHANGED <<sent, received, intact, end, stage, done, x, out, tag, trail>>

Next == \/ Start \/ AbsorbAd \/ EncryptText \/ DecryptText \/ Finalize
        \/ Deliver \/ Refuse \/ Verify

Spec == Init /\ [][Next]_vars

-----------------------------------------------------------------------------
(* Properties.                                                              *)

TypeOK ==
  /\ intact \in BOOLEAN /\ end \in {"sender", "receiver"}
  /\ stage \in {"start", "ad", "text", "final", "end"} /\ done \in Nat
  /\ verdict \in {"none", "accepted", "rejected"}
  /\ \A w \in 1 .. 5 : x[w] \subseteq Word
  /\ out \subseteq Bytes(Read.text.len) /\ tag \subseteq Bytes(16)

\* The envelope that was sent is accepted and gives back the text: the branches
\* of asconAeadEncryptPayload and asconAeadDecryptPayload for whole and partial
\* blocks leave the two ends in the same state.
RoundTrip ==
  intact /\ verdict # "none" /\ sent.text.len > 0
    => verdict = "accepted" /\ out = sent.text.bits

\* An envelope that changed on the way is refused: the tag depends on the key,
\* the nonce, the device id, every byte of the text and its length.
AlteredRejected == TypeOK /\ (verdict = "accepted" => intact)
=============================================================================
