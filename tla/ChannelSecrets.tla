--------------------------- MODULE ChannelSecrets ---------------------------
(***************************************************************************)
(* How channels are shared: secrets as text and links (shared/channels.ts),*)
(* and the form in which they are pasted and saved (ChatView.vue).         *)
(* Functions only: MCChannelSecrets evaluates that a channel arrives as it *)
(* was shared.                                                             *)
(*                                                                         *)
(* A secret is <<"key", bytes>>, or <<"hash", name>> for the digest of a   *)
(* name.  A text is <<form, symbols>>: "hex" with digits 0..15, "base64"   *)
(* with sextets and Pad.  A link is <<"link", parameters>>, a sequence of  *)
(* <<key, value>> with texts as values, where names are <<"text", ...>>.   *)
(***************************************************************************)
EXTENDS Integers, SequencesExt

Pad  == 64
Null == <<"null">>

\* Characters that a URI treats in a way of their own, and what stands for them.
Escape   == [c \in {" ", "+", "%", "&"} |-> CASE c = " " -> "%20" [] c = "+" -> "%2B" [] c = "%" -> "%25" [] c = "&" -> "%26"]
Unescape == [e \in {"%20", "%2B", "%25", "%26", "+"} |->
               CASE e = "%20" -> " " [] e = "%2B" -> "+" [] e = "%25" -> "%" [] e = "%26" -> "&" [] e = "+" -> " "]

EncodeURIComponent(s) == [k \in DOMAIN s |-> IF s[k] \in DOMAIN Escape THEN Escape[s[k]] ELSE s[k]]
\* The value of a parameter.  A lone "%" is malformed, and a "+" is a blank: also in
\* a secret in base64, where it is the symbol 62.
Decoded(value) ==
  CASE value[1] = "text"   -> IF \E k \in DOMAIN value[2] : value[2][k] = "%" THEN Null
                              ELSE <<"text", [k \in DOMAIN value[2] |->
                                     IF value[2][k] \in DOMAIN Unescape THEN Unescape[value[2][k]] ELSE value[2][k]]>>
    [] value[1] = "base64" -> IF \E k \in DOMAIN value[2] : value[2][k] = 62 THEN <<"other", <<>> >> ELSE value
    [] OTHER               -> value

Trim(s) ==
  LET kept == {k \in DOMAIN s : s[k] # " "}
  IN  IF kept = {} THEN <<>> ELSE SubSeq(s, Min(kept), Max(kept))

IsHashtagChannelName(name) == name # <<>> /\ name[1] = "#"
DeriveHashtagChannelSecret(name) == <<"hash", name>>

\* The buffer is never emptied, but no more than its 14 lowest bits are read.
Base64ToBytes(symbols) ==
  LET stripped == SelectSeq(symbols, LAMBDA s : s # Pad)
      Eats(state, sextet) ==
        LET buffer == (state.buffer * 64 + sextet) % 2^14
            bits   == state.bits + 6
        IN  IF bits < 8 THEN [state EXCEPT !.buffer = buffer, !.bits = bits]
            ELSE [buffer |-> buffer, bits |-> bits - 8,
                  bytes  |-> Append(state.bytes, (buffer \div 2^(bits - 8)) % 256)]
  IN  FoldLeft(Eats, [buffer |-> 0, bits |-> 0, bytes |-> <<>>], stripped).bytes

BytesToBase64(bytes) ==
  LET byte(k)      == IF k <= Len(bytes) THEN bytes[k] ELSE 0
      symbol(c, k) == CASE k = 0 -> byte(c + 1) \div 4
                        [] k = 1 -> (byte(c + 1) % 4) * 16 + byte(c + 2) \div 16
                        [] k = 2 -> IF c + 2 > Len(bytes) THEN Pad ELSE (byte(c + 2) % 16) * 4 + byte(c + 3) \div 64
                        [] k = 3 -> IF c + 3 > Len(bytes) THEN Pad ELSE byte(c + 3) % 64
  IN  [i \in 1..4 * ((Len(bytes) + 2) \div 3) |-> symbol(3 * ((i - 1) \div 4), (i - 1) % 4)]

BytesToHex(bytes) == [i \in 1..2 * Len(bytes) |-> LET b == bytes[(i + 1) \div 2] IN IF i % 2 = 1 THEN b \div 16 ELSE b % 16]
HexToBytes(digits) == [i \in 1..Len(digits) \div 2 |-> 16 * digits[2 * i - 1] + digits[2 * i]]

\* Sizes: n bytes, where the code has 16, are 2n digits or as many sextets as hold
\* 8n bits, with or without the padding.
NormalizeChannelSecret(text, n) ==
  LET sextets == (8 * n + 5) \div 6
      padded  == {Len(text[2])} \cap {sextets, sextets + 2} # {}
                 /\ \A k \in DOMAIN text[2] : text[2][k] = Pad <=> k > sextets
  IN  CASE text[1] = "hex" /\ Len(text[2]) = 2 * n -> <<"key", HexToBytes(text[2])>>
        [] text[1] = "base64" /\ padded            -> <<"key", Base64ToBytes(text[2])>>
        [] OTHER                                   -> Null

\* Of a parameter that comes twice the last counts; others are ignored.
ParseChannelShareUri(field, n) ==
  LET values(key) == {k \in DOMAIN field[2] : field[2][k][1] = key}
      last(key)   == IF values(key) = {} THEN <<"text", <<>> >> ELSE Decoded(field[2][Max(values(key))][2])
      name        == Trim(last("name")[2])
      secret      == NormalizeChannelSecret(last("secret"), n)
  IN  IF field[1] # "link" THEN Null
      ELSE IF \/ \E k \in DOMAIN field[2] : Decoded(field[2][k][2]) = Null
              \/ name = <<>> \/ secret = Null THEN Null
      ELSE <<"channel", name, secret>>

BuildChannelShareUri(name, bytes) ==
  <<"link", << <<"name", <<"text", EncodeURIComponent(name)>> >>, <<"secret", <<"hex", BytesToHex(bytes)>> >> >> >>

\* The form has [slot, name, secret]: its fields are texts or links.
Watched(form, n) ==
  LET byName == ParseChannelShareUri(form.name, n)
      share  == IF byName # Null THEN byName ELSE ParseChannelShareUri(form.secret, n)
  IN  IF share = Null THEN form
      ELSE [form EXCEPT !.name = <<"text", share[2]>>, !.secret = <<"hex", BytesToHex(share[3][2])>>]

OpenChannelForm(used, slots, generated) ==
  LET free == slots \ used
  IN  [slot |-> IF free = {} THEN 0 ELSE Min(free), name |-> <<"text", <<>> >>, secret |-> <<"hex", BytesToHex(generated)>>]

\* What is saved, or Null.
SubmitChannel(form, n) ==
  LET name   == Trim(form.name[2])
      secret == IF IsHashtagChannelName(name) THEN DeriveHashtagChannelSecret(name)
                ELSE NormalizeChannelSecret(form.secret, n)
  IN  IF name = <<>> \/ secret = Null THEN Null
      ELSE [idx |-> form.slot, name |-> name, secret |-> secret]
=============================================================================
