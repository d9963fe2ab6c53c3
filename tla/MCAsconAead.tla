----------------------------- MODULE MCAsconAead -----------------------------
(* The cipher on vectors of the known answer file of the repository,         *)
(* src/tests/ascon128aead/LWC_AEAD_KAT_128_128.txt: every length of a last   *)
(* block that takes a branch of its own, with 0 to 2 whole blocks before.    *)
EXTENDS AsconAead, Sequences, TLC

\* The bits of consecutive bytes b, b+1, ..., as all inputs of the file are.
Run(n, b)  == [len  |-> n,
               bits |-> UNION {{(8 * i) + k : k \in BitsOf(b + i)} : i \in 0 .. (n - 1)}]
Octets(s)  == UNION {{(8 * (i - 1)) + k : k \in BitsOf(s[i])} : i \in DOMAIN s}

\* Vectors of the file, by their Count: lengths of PT and AD in bytes, and CT.
KnownAnswers == {
  [count |-> 1, text |-> 0, ad |-> 0, answer |->
     <<79, 156, 39, 130, 17, 190, 201, 49, 107, 246, 143, 70, 238, 139,
        46, 198>>],
  [count |-> 34, text |-> 1, ad |-> 0, answer |->
     <<232, 221, 87, 106, 186, 28, 211, 230, 252, 112, 77, 224, 42, 237,
        183, 149, 136>>],
  [count |-> 243, text |-> 7, ad |-> 11, answer |->
     <<22, 195, 110, 37, 251, 168, 147, 93, 134, 143, 19, 20, 179, 154,
        3, 86, 218, 226, 71, 60, 155, 141, 130>>],
  [count |-> 277, text |-> 8, ad |-> 12, answer |->
     <<184, 58, 28, 98, 173, 5, 198, 112, 40, 232, 109, 220, 199, 254,
        120, 191, 139, 21, 116, 36, 6, 79, 88, 119>>],
  [count |-> 298, text |-> 9, ad |-> 0, answer |->
     <<232, 195, 222, 238, 36, 108, 197, 234, 227, 50, 155, 201, 80, 174,
        16, 27, 146, 71, 243, 96, 94, 190, 220, 191, 108>>],
  [count |-> 504, text |-> 15, ad |-> 8, answer |->
     <<250, 190, 44, 177, 231, 235, 166, 50, 154, 48, 8, 15, 38, 231,
        220, 48, 53, 164, 37, 120, 225, 69, 179, 129, 63, 246, 47,
        138, 148, 193, 135>>],
  [count |-> 545, text |-> 16, ad |-> 16, answer |->
     <<99, 115, 235, 178, 139, 233, 124, 155, 172, 9, 12, 243, 153, 193,
        62, 241, 58, 191, 192, 210, 9, 232, 244, 132, 76, 144,
        129, 77, 19, 243, 44, 89>>],
  [count |-> 562, text |-> 17, ad |-> 0, answer |->
     <<232, 195, 222, 238, 36, 108, 197, 234, 227, 232, 114, 49, 56, 151,
        162, 187, 96, 48, 16, 2, 83, 157, 69, 98, 117, 221, 11,
        12, 234, 179, 178, 56, 68>>],
  [count |-> 805, text |-> 24, ad |-> 12, answer |->
     <<184, 58, 28, 98, 173, 5, 198, 112, 214, 233, 34, 14, 13, 217, 190,
        70, 228, 61, 141, 108, 6, 218, 88, 108, 123, 15, 215, 217,
        104, 0, 14, 23, 189, 91, 87, 189, 123, 199, 153, 148>>],
  [count |-> 1089, text |-> 32, ad |-> 32, answer |->
     <<203, 52, 208, 70, 96, 166, 109, 191, 190, 156, 133, 102, 1, 245,
        184, 170, 81, 164, 153, 181, 90, 200, 247, 251, 239, 188,
        51, 26, 97, 62, 233, 205, 253, 25, 23, 80, 164, 127, 33,
        28, 10, 21, 237, 40, 23, 61, 124, 170>>]}

\* Nonce 10 11 ... 1F of the file: a prefix, and a counter with its high byte first.
Vector(v) == [kid |-> 1, prefix |-> Run(8, 16).bits,
              ctr |-> UNION {{(8 * (7 - i)) + k : k \in BitsOf(24 + i)} : i \in 0 .. 7},
              ad |-> Run(v.ad, 48), text |-> Run(v.text, 32)]

MCEnvelopes == {Vector(v) : v \in KnownAnswers}
MCKeyring   == (1 :> Run(16, 0).bits) @@ (2 :> Run(16, 1).bits)

\* What the sender computes is what the file of known answers says.
KnownAnswer ==
  end = "sender" /\ stage = "end" =>
    \E v \in KnownAnswers : /\ sent = Envelope(Vector(v))
                             /\ out \union {(8 * v.text) + b : b \in tag} = Octets(v.answer)
=============================================================================
