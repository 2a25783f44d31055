------------------------------- MODULE Base64 -------------------------------
(***************************************************************************)
(* The data of an image, which comes as base64 (protocol.cpp).  A text is  *)
(* a sequence of symbols: 0..63, Pad, or Bad for any other character.      *)
(***************************************************************************)
EXTENDS Values

Pad == 64
Bad == 65
Symbols == 0..Bad

(* What the text says of its own size.                                     *)
Padding(s) == IF s = <<>> \/ s[Len(s)] # Pad THEN 0 ELSE IF s[Len(s) - 1] = Pad THEN 2 ELSE 1
DecodedSize(s) == (3 * (Len(s) \div 4)) - Padding(s)

(* The bits that a pad leaves over are clear.                              *)
\* mutant: whatever the bits under the padding
Canonical_Any(s, at) == TRUE
Canonical(s, at) ==
  IF s[at + 3] = Pad THEN s[at + 2] % 16 = 0 ELSE s[at + 4] = Pad => s[at + 3] % 4 = 0

(* One turn of the loop: what is wrong with the four symbols after `at`.   *)
GroupFaults(s, at) ==
  When(at + 4 # Len(s) /\ Pad \in {s[at + 3], s[at + 4]}, "padding")
    \cup When(s[at + 3] = Pad /\ s[at + 4] # Pad, "padding")
    \cup When({s[at + 1], s[at + 2]} \cap {Pad, Bad} # {} \/ Bad \in {s[at + 3], s[at + 4]}, "symbol")
    \cup When(~Canonical(s, at), "bits")

(* decode_base64, for an image of size bytes.                              *)
DecodeFaults(s, size) ==
  IF Len(s) % 4 # 0 \/ DecodedSize(s) # size THEN {"size"}
  ELSE UNION {GroupFaults(s, 4 * g) : g \in 0..(Len(s) \div 4) - 1}

(* The bytes of an accepted text: three of each group but the last one,    *)
(* which is the only one that may have pads.                               *)
Bits(symbol) == IF symbol = Pad THEN 0 ELSE symbol
ByteAt(s, i) ==
  LET at == 4 * ((i - 1) \div 3)
  IN CASE (i - 1) % 3 = 0 -> (s[at + 1] * 4) + (s[at + 2] \div 16)
       [] (i - 1) % 3 = 1 -> ((s[at + 2] % 16) * 16) + (Bits(s[at + 3]) \div 4)
       [] (i - 1) % 3 = 2 -> ((s[at + 3] % 4) * 64) + s[at + 4]
Decode(s) == [i \in 1..DecodedSize(s) |-> ByteAt(s, i)]
=============================================================================
