-------------------------- MODULE MCChannelSecrets --------------------------
(* Secrets of one and of four bytes, which leave over as many bits as the   *)
(* sixteen of the code do, and some of sixteen; names of up to three        *)
(* characters.                                                              *)
EXTENDS ChannelSecrets

SecretsOf(n) ==
  CASE n = 1  -> {<<b>> : b \in 0..255}
    [] n = 4  -> [1..4 -> {0, 1, 64, 200, 255}]
    [] n = 16 -> {[k \in 1..16 |-> (a * k + b) % 256] : a \in {0, 1, 17, 85, 255}, b \in {0, 127, 128, 255}}

NamesTo(n) == UNION {[1..k -> {"a", "#", " ", "+", "%", "&"}] : k \in 0..n}

\* A secret can be read back from each text it is shared as: hex, base64 and base64
\* without its padding (channelSecretToBase64, normalizeChannelSecret).
ASSUME SecretsReadBack ==
  \A n \in {1, 4, 16} : \A secret \in SecretsOf(n) :
    LET text == BytesToBase64(secret) IN
    \A t \in {<<"hex", BytesToHex(secret)>>, <<"base64", text>>, <<"base64", SubSeq(text, 1, Len(text) - 2)>>} :
      NormalizeChannelSecret(t, n) = <<"key", secret>>

\* Whatever text of the right length is pasted is a secret of n bytes, and what is
\* shared of it is that secret again: the bits left over in the last symbol are lost.
ASSUME TextsAreSecrets ==
  \A a, b \in 0..63 :
    LET secret == NormalizeChannelSecret(<<"base64", <<a, b>> >>, 1) IN
    /\ secret[1] = "key" /\ secret[2] \in SecretsOf(1)
    /\ NormalizeChannelSecret(<<"base64", BytesToBase64(secret[2])>>, 1) = secret

\* A link pasted into either field of the form of a new channel, which has a secret
\* of its own by then, saves the channel it was made of: spaces and signs in the name
\* included.  The secret of a name with a "#" is its digest, whatever the link says.
ASSUME SharedAsSaved ==
  \A name \in NamesTo(3), bytes \in {<<0>>, <<255>>}, field \in {"name", "secret"}, used \in {{}, {0}} :
    LET link  == BuildChannelShareUri(name, bytes)
        form  == OpenChannelForm(used, 0..1, <<7>>)
        saved == SubmitChannel(Watched(IF field = "name" THEN [form EXCEPT !.name = link]
                                                         ELSE [form EXCEPT !.secret = link], 1), 1)
    IN  IF Trim(name) = <<>> THEN ParseChannelShareUri(link, 1) = Null
        ELSE /\ saved.name = Trim(name) /\ saved.idx \notin used
             /\ saved.secret = IF Trim(name)[1] = "#" THEN <<"hash", Trim(name)>> ELSE <<"key", bytes>>
=============================================================================
