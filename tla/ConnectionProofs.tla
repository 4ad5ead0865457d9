-------------------------- MODULE ConnectionProofs --------------------------
(***************************************************************************)
(* What is proved of Connection, for every set of requests, every size of  *)
(* header and tags, and any number of requests sent ahead.                 *)
(***************************************************************************)
EXTENDS Connection, TLAPS

Parts == {"header", "key", "tag_size", "tag", "value"}

LEMMA Constants ==
  /\ MaxRequests \in Nat /\ HeaderSize \in Nat \ {0} /\ TagSize \in Nat \ {0} /\ NfoSize \in Nat \ {0}
  /\ \A n \in Sizes : n \in Nat
  /\ \A r \in Requests :
       /\ r.op \in {"get", "set", "del", "clr", "lst", "nfo", "bad"}
       /\ r.klen \in Nat /\ r.ntags \in Nat /\ r.vlen \in Nat
BY ConnectionAssumption

(* The bytes of a request: as many as its fields say, first the header.    *)

Byte(i) == [req : {i}, part : Parts, at : Nat]

LEMMA IsSequence ==
  ASSUME NEW S, NEW n \in Nat, NEW f \in [1 .. n -> S]
  PROVE  f \in Seq(S) /\ Len(f) = n
OBVIOUS

LEMMA LargerSet ==
  ASSUME NEW S, NEW T, S \subseteq T, NEW s \in Seq(S)
  PROVE  s \in Seq(T)
OBVIOUS

LEMMA Concatenation ==
  ASSUME NEW S, NEW s \in Seq(S), NEW t \in Seq(S)
  PROVE  /\ s \o t \in Seq(S) /\ Len(s \o t) = Len(s) + Len(t) /\ Len(s) \in Nat /\ Len(t) \in Nat
         /\ \A j \in 1 .. Len(s) : (s \o t)[j] = s[j]
         /\ \A j \in 1 .. Len(t) : (s \o t)[Len(s) + j] = t[j]
OBVIOUS

LEMMA BytesFacts ==
  ASSUME NEW i \in Nat, NEW part \in Parts, NEW n \in Nat
  PROVE  /\ Bytes(i, part, n) \in Seq(Byte(i))
         /\ Len(Bytes(i, part, n)) = n
         /\ \A j \in 1 .. n : Bytes(i, part, n)[j] = [req |-> i, part |-> part, at |-> j]
         /\ \A j \in 1 .. n : Bytes(i, part, n)[j].part = part
<1>1. Bytes(i, part, n) \in [1 .. n -> Byte(i)]
  BY DEF Bytes, Byte
<1>2. \A j \in 1 .. n : Bytes(i, part, n)[j] = [req |-> i, part |-> part, at |-> j]
  BY DEF Bytes
<1> QED BY <1>1, <1>2, IsSequence

LEMMA TagsAre ==
  ASSUME NEW n \in Nat
  PROVE  n * (1 + TagSize) \in Nat /\ (n > 0 => n * (1 + TagSize) = 1 + TagSize + (n - 1) * (1 + TagSize))
<1>1. PICK t \in Nat : t = 1 + TagSize
  BY Constants
<1>2. n * t \in Nat /\ (n > 0 => n * t = t + (n - 1) * t)
  OBVIOUS
<1> QED BY <1>1, <1>2

LEMMA TagBytesFacts ==
  ASSUME NEW i \in Nat, NEW n \in Nat
  PROVE  /\ TagBytes(i, n) \in Seq(Byte(i))
         /\ Len(TagBytes(i, n)) = n * (1 + TagSize)
         /\ \A j \in 1 .. Len(TagBytes(i, n)) : TagBytes(i, n)[j].part # "header"
<1>1. PICK m \in Nat : m = n * (1 + TagSize)
  BY TagsAre
<1>2. TagBytes(i, n) = [j \in 1 .. m |-> [req |-> i, part |-> IF j % (1 + TagSize) = 1 THEN "tag_size" ELSE "tag", at |-> j]]
  BY <1>1 DEF TagBytes
<1>3. TagBytes(i, n) \in [1 .. m -> Byte(i)]
  BY <1>2 DEF Byte, Parts
<1>4. \A j \in 1 .. m : TagBytes(i, n)[j].part # "header"
  BY <1>2
<1> QED BY <1>1, <1>3, <1>4, IsSequence

LEMMA LengthFacts ==
  ASSUME NEW r \in Requests
  PROVE  /\ Length(r) \in Nat /\ Length(r) >= HeaderSize
         /\ r.ntags * (1 + TagSize) \in Nat
         /\ r.ntags = 0 => r.ntags * (1 + TagSize) = 0
<1>1. r.ntags \in Nat /\ r.ntags * (1 + TagSize) \in Nat
  BY Constants, TagsAre
<1>2. r.ntags = 0 => r.ntags * (1 + TagSize) = 0
  BY Constants
<1> QED BY <1>1, <1>2, Constants DEF Length

LEMMA EncodeFacts ==
  ASSUME NEW r \in Requests, NEW i \in Nat
  PROVE  /\ Encode(r, i) \in Seq(Byte(i))
         /\ Len(Encode(r, i)) = Length(r)
         /\ \A h \in 1 .. HeaderSize : Encode(r, i)[h] = HeaderByte(i, h)
         /\ \A h \in 1 .. Length(r) : IsStart(Encode(r, i)[h]) => h = 1
<1> DEFINE k == r.klen  m == r.ntags * (1 + TagSize)  v == r.vlen
           H == Bytes(i, "header", HeaderSize)
           K == Bytes(i, "key", k)
           T == TagBytes(i, r.ntags)
           V == Bytes(i, "value", v)
           F == H \o K
           G == F \o T
<1>0. k \in Nat /\ m \in Nat /\ v \in Nat
  BY Constants, TagsAre
<1>p. "key" \in Parts /\ "value" \in Parts
  BY DEF Parts
<1>1. /\ H \in Seq(Byte(i)) /\ Len(H) = HeaderSize
      /\ \A j \in 1 .. HeaderSize : H[j] = HeaderByte(i, j)
  BY BytesFacts, Constants DEF Parts, HeaderByte
<1>2. K \in Seq(Byte(i)) /\ Len(K) = k /\ \A j \in 1 .. k : K[j].part = "key"
  <2>1. PICK n \in Nat : n = k
    BY <1>0
  <2>2. Bytes(i, "key", n) \in Seq(Byte(i)) /\ Len(Bytes(i, "key", n)) = n
    BY <1>p, BytesFacts
  <2>3. \A j \in 1 .. n : Bytes(i, "key", n)[j].part = "key"
    BY <1>p, BytesFacts
  <2> QED BY <2>1, <2>2, <2>3
<1>4. T \in Seq(Byte(i)) /\ Len(T) = m /\ \A j \in 1 .. m : T[j].part # "header"
  BY TagBytesFacts, Constants
<1>5. V \in Seq(Byte(i)) /\ Len(V) = v /\ \A j \in 1 .. v : V[j].part = "value"
  <2>1. PICK n \in Nat : n = v
    BY <1>0
  <2>2. Bytes(i, "value", n) \in Seq(Byte(i)) /\ Len(Bytes(i, "value", n)) = n
    BY <1>p, BytesFacts
  <2>3. \A j \in 1 .. n : Bytes(i, "value", n)[j].part = "value"
    BY <1>p, BytesFacts
  <2> QED BY <2>1, <2>2, <2>3
<1>6. Encode(r, i) = G \o V /\ Length(r) = HeaderSize + k + m + v
  BY DEF Encode, Length
<1> HIDE DEF k, m, v, H, K, T, V, F, G
<1>8. /\ F \in Seq(Byte(i)) /\ Len(F) = HeaderSize + k
      /\ \A j \in 1 .. HeaderSize : F[j] = H[j]
      /\ \A j \in 1 .. k : F[HeaderSize + j] = K[j]
  <2>0. H \in Seq(Byte(i)) /\ K \in Seq(Byte(i))
    BY <1>1, <1>2
  <2>1. /\ H \o K \in Seq(Byte(i)) /\ Len(H \o K) = Len(H) + Len(K)
        /\ \A j \in 1 .. Len(H) : (H \o K)[j] = H[j]
        /\ \A j \in 1 .. Len(K) : (H \o K)[Len(H) + j] = K[j]
    BY <2>0, Concatenation
  <2> QED BY <2>1, <1>1, <1>2 DEF F
<1>10. /\ G \in Seq(Byte(i)) /\ Len(G) = HeaderSize + k + m
       /\ \A j \in 1 .. HeaderSize + k : G[j] = F[j]
       /\ \A j \in 1 .. m : G[HeaderSize + k + j] = T[j]
  <2>0. F \in Seq(Byte(i)) /\ T \in Seq(Byte(i))
    BY <1>4, <1>8
  <2>1. /\ F \o T \in Seq(Byte(i)) /\ Len(F \o T) = Len(F) + Len(T)
        /\ \A j \in 1 .. Len(F) : (F \o T)[j] = F[j]
        /\ \A j \in 1 .. Len(T) : (F \o T)[Len(F) + j] = T[j]
    BY <2>0, Concatenation
  <2> QED BY <2>1, <1>4, <1>8 DEF G
<1>12. /\ G \o V \in Seq(Byte(i)) /\ Len(G \o V) = HeaderSize + k + m + v
       /\ \A j \in 1 .. HeaderSize + k + m : (G \o V)[j] = G[j]
       /\ \A j \in 1 .. v : (G \o V)[HeaderSize + k + m + j] = V[j]
  <2>0. G \in Seq(Byte(i)) /\ V \in Seq(Byte(i))
    BY <1>5, <1>10
  <2>1. /\ G \o V \in Seq(Byte(i)) /\ Len(G \o V) = Len(G) + Len(V)
        /\ \A j \in 1 .. Len(G) : (G \o V)[j] = G[j]
        /\ \A j \in 1 .. Len(V) : (G \o V)[Len(G) + j] = V[j]
    BY <2>0, Concatenation
  <2> QED BY <2>1, <1>5, <1>10
<1>13. PICK E \in Seq(Byte(i)) : E = G \o V /\ E = Encode(r, i)
  BY <1>6, <1>12
<1>14. Len(E) = HeaderSize + k + m + v /\ Len(E) = Length(r)
  BY <1>6, <1>12, <1>13
<1>15. \A h \in 1 .. HeaderSize : E[h] = HeaderByte(i, h)
  BY <1>1, <1>0, <1>8, <1>10, <1>12, <1>13, Constants
<1>16. \A h \in 1 .. Len(E) : h > HeaderSize => E[h].part # "header"
  <2> SUFFICES ASSUME NEW h \in 1 .. Len(E), h > HeaderSize PROVE E[h].part # "header"
    OBVIOUS
  <2>1. CASE h <= HeaderSize + k
    <3>1. h - HeaderSize \in 1 .. k /\ h = HeaderSize + (h - HeaderSize)
      BY <2>1, <1>0, Constants
    <3>2. E[h] = K[h - HeaderSize]
      BY <2>1, <3>1, <1>0, <1>8, <1>10, <1>12, <1>13, Constants
    <3> QED BY <3>1, <3>2, <1>2
  <2>2. CASE h > HeaderSize + k /\ h <= HeaderSize + k + m
    <3>1. h - (HeaderSize + k) \in 1 .. m /\ h = HeaderSize + k + (h - (HeaderSize + k))
      BY <2>2, <1>0, Constants
    <3>2. E[h] = T[h - (HeaderSize + k)]
      BY <2>2, <3>1, <1>0, <1>10, <1>12, <1>13, Constants
    <3> QED BY <3>1, <3>2, <1>4
  <2>3. CASE h > HeaderSize + k + m
    <3>1. h - (HeaderSize + k + m) \in 1 .. v /\ h = HeaderSize + k + m + (h - (HeaderSize + k + m))
      BY <2>3, <1>0, <1>14, Constants
    <3>2. E[h] = V[h - (HeaderSize + k + m)]
      BY <2>3, <3>1, <1>0, <1>12, <1>13, Constants
    <3> QED BY <3>1, <3>2, <1>5
  <2> QED BY <2>1, <2>2, <2>3, <1>0, Constants
<1>17. \A h \in 1 .. Len(E) : IsStart(E[h]) => h = 1
  <2> SUFFICES ASSUME NEW h \in 1 .. Len(E), IsStart(E[h]) PROVE h = 1
    OBVIOUS
  <2>1. h <= HeaderSize
    BY <1>16, Constants DEF IsStart
  <2>2. E[h] = [req |-> i, part |-> "header", at |-> h]
    BY <2>1, <1>15, Constants DEF HeaderByte
  <2>3. E[h].at = h
    BY <2>2
  <2> QED BY <2>3 DEF IsStart
<1> QED BY <1>13, <1>14, <1>15, <1>17

(***************************************************************************)
(* What a step does to the sequences.                                      *)
(***************************************************************************)

LEMMA Cut ==
  ASSUME NEW S, NEW s \in Seq(S), NEW n \in Nat, n <= Len(s)
  PROVE  /\ SubSeq(s, n + 1, Len(s)) \in Seq(S) /\ Len(SubSeq(s, n + 1, Len(s))) = Len(s) - n
         /\ \A j \in 1 .. Len(s) - n : SubSeq(s, n + 1, Len(s))[j] = s[n + j]
         /\ SubSeq(s, 1, n) \in Seq(S) /\ Len(SubSeq(s, 1, n)) = n
         /\ \A j \in 1 .. n : SubSeq(s, 1, n)[j] = s[j]
OBVIOUS

(* A request is sent: all of it is appended to the input. *)
LEMMA SendFacts ==
  ASSUME TypeOK, HeldInv, NEW r \in Requests, Send(r)
  PROVE  /\ Len(sent') = Len(sent) + 1 /\ sent' \in Seq(Requests) /\ sent'[Len(sent) + 1] = r
         /\ \A i \in 1 .. Len(sent) : sent'[i] = sent[i]
         /\ input' \in Seq(Received') /\ Len(input') = Len(input) + Length(r)
         /\ \A j \in 1 .. Len(input) : input'[j] = input[j]
         /\ \A h \in 1 .. HeaderSize : input'[Len(input) + h] = HeaderByte(Len(sent) + 1, h)
         /\ \A h \in 1 .. Length(r) : IsStart(input'[Len(input) + h]) => h = 1
<1> DEFINE k == Len(sent) + 1  E == Encode(r, k)
<1>1. /\ Len(sent') = k /\ sent' \in Seq(Requests) /\ sent'[k] = r
      /\ \A i \in 1 .. Len(sent) : sent'[i] = sent[i]
  BY DEF TypeOK, Send
<1>2. k \in Nat /\ k \in 1 .. Len(sent')
  BY <1>1 DEF TypeOK
<1>3. /\ E \in Seq(Byte(k)) /\ Len(E) = Length(r)
      /\ \A h \in 1 .. HeaderSize : E[h] = HeaderByte(k, h)
      /\ \A h \in 1 .. Length(r) : IsStart(E[h]) => h = 1
  <2>1. k \in Nat
    BY <1>2
  <2> QED BY <2>1, EncodeFacts
<1> HIDE DEF E
<1>4. Byte(k) \subseteq Received'
  BY <1>2 DEF Byte, Received, Parts
<1>5. Received \subseteq Received'
  BY <1>1 DEF Received, TypeOK
<1>6. input \in Seq(Received') /\ E \in Seq(Received')
  BY <1>3, <1>4, <1>5 DEF HeldInv
<1>7. input' = input \o E
  BY DEF Send, E
<1>8. /\ input \o E \in Seq(Received') /\ Len(input \o E) = Len(input) + Len(E)
      /\ \A j \in 1 .. Len(input) : (input \o E)[j] = input[j]
      /\ \A j \in 1 .. Len(E) : (input \o E)[Len(input) + j] = E[j]
  BY <1>6, Concatenation
<1>9. HeaderSize \in Nat /\ Length(r) \in Nat /\ HeaderSize <= Length(r)
  BY Constants, LengthFacts
<1> QED BY <1>1, <1>3, <1>7, <1>8, <1>9

(* A read takes the next bytes; those of the header are kept. *)
LEMMA ReadFacts ==
  ASSUME TypeOK, HeldInv, NEW n \in 1 .. need, ReadSome(n)
  PROVE  /\ n \in Nat \ {0} /\ n <= need /\ n <= Len(input)
         /\ input' \in Seq(Received) /\ Len(input') = Len(input) - n
         /\ \A j \in 1 .. Len(input) - n : input'[j] = input[n + j]
         /\ unit # "header" => got' = got
         /\ unit = "header" => /\ got' \in Seq(Received) /\ Len(got') = Len(got) + n
                               /\ \A j \in 1 .. Len(got) : got'[j] = got[j]
                               /\ \A j \in 1 .. n : got'[Len(got) + j] = input[j]
<1>1. n \in Nat \ {0} /\ n <= need /\ n <= Len(input) /\ input \in Seq(Received) /\ got \in Seq(Received)
  <2>1. need \in Nat
    BY DEF TypeOK
  <2>2. n \in Nat \ {0} /\ n <= need
    BY <2>1
  <2>3. n <= Len(input)
    BY DEF ReadSome
  <2> QED BY <2>2, <2>3 DEF HeldInv
<1> DEFINE P == SubSeq(input, 1, n)
<1>2. /\ P \in Seq(Received) /\ Len(P) = n /\ \A j \in 1 .. n : P[j] = input[j]
      /\ SubSeq(input, n + 1, Len(input)) \in Seq(Received) /\ Len(SubSeq(input, n + 1, Len(input))) = Len(input) - n
      /\ \A j \in 1 .. Len(input) - n : SubSeq(input, n + 1, Len(input))[j] = input[n + j]
  <2>1. n \in Nat /\ n <= Len(input) /\ input \in Seq(Received)
    BY <1>1
  <2> QED BY <2>1, Cut
<1>3. /\ input' \in Seq(Received) /\ Len(input') = Len(input) - n
      /\ \A j \in 1 .. Len(input) - n : input'[j] = input[n + j]
  BY <1>2 DEF ReadSome
<1>4. unit = "header" => got' = got \o P
  BY DEF ReadSome
<1> HIDE DEF P
<1>5. unit # "header" => got' = got
  BY DEF ReadSome
<1>6. /\ got \o P \in Seq(Received) /\ Len(got \o P) = Len(got) + n
      /\ \A j \in 1 .. Len(got) : (got \o P)[j] = got[j]
      /\ \A j \in 1 .. n : (got \o P)[Len(got) + j] = P[j]
  <2>1. got \in Seq(Received) /\ P \in Seq(Received)
    BY <1>1, <1>2
  <2>2. /\ got \o P \in Seq(Received) /\ Len(got \o P) = Len(got) + Len(P)
        /\ \A j \in 1 .. Len(got) : (got \o P)[j] = got[j]
        /\ \A j \in 1 .. Len(P) : (got \o P)[Len(got) + j] = P[j]
    BY <2>1, Concatenation
  <2> QED BY <2>2, <1>2
<1> QED BY <1>1, <1>2, <1>3, <1>4, <1>5, <1>6

(***************************************************************************)
(* Types.                                                                  *)
(***************************************************************************)

Small ==
  /\ gone \in BOOLEAN /\ derailed \in BOOLEAN
  /\ pc \in {"read", "apply", "respond", "payload", "closed"}
  /\ unit \in Parts /\ need \in Nat /\ todo \in Nat
  /\ unit = "header" => need <= HeaderSize
  /\ Len(got) = IF unit = "header" THEN HeaderSize - need ELSE HeaderSize
  /\ cur \in 0 .. Len(sent)
  /\ status \in {"ok", "protocol", "missing", "memory"}
  /\ buffer \in [of : 0 .. Len(sent), nmemb : Nat]
  /\ payload \in {"none", "buffer", "alt"}

Long ==
  /\ sent \in Seq(Requests) /\ Len(sent) <= MaxRequests
  /\ input \in Seq(Received) /\ got \in Seq(Received) /\ answers \in Seq(Answer)

LEMMA Typed == TypeOK /\ HeldInv => Small /\ Long
BY DEF TypeOK, HeldInv, Small, Long, Parts

LEMMA TypedNext == Small' /\ Long' => TypeOK' /\ HeldInv'
<1> SUFFICES ASSUME Small', Long' PROVE TypeOK' /\ HeldInv'
  OBVIOUS
<1>1. Received' \subseteq [req : 1 .. MaxRequests, part : {"header", "key", "tag_size", "tag", "value"}, at : Nat]
  <2>1. Len(sent') \in Nat /\ Len(sent') <= MaxRequests /\ MaxRequests \in Nat
    BY Constants DEF Long
  <2>2. 1 .. Len(sent') \subseteq 1 .. MaxRequests
    BY <2>1
  <2> QED BY <2>2 DEF Received
<1>2. input' \in Seq([req : 1 .. MaxRequests, part : {"header", "key", "tag_size", "tag", "value"}, at : Nat])
  <2>1. input' \in Seq(Received')
    BY DEF Long
  <2> QED BY <1>1, <2>1, LargerSet
<1>3. \A a \in Range(answers') : a.to \in 0 .. Len(sent') /\ a.size \in Nat /\ a.body.nmemb \in Nat
  <2>1. \A a \in Range(answers') : a \in Answer'
    BY DEF Long, Range
  <2> QED BY <2>1 DEF Answer
<1>4. HeldInv'
  BY DEF HeldInv, Small, Long
<1> QED BY <1>2, <1>3, <1>4 DEF TypeOK, Small, Long, Parts

LEMMA FirstByte ==
  ASSUME TypeOK, HeldInv, Read("header")
  PROVE  /\ Len(got) = HeaderSize /\ got[1].req \in 1 .. Len(sent)
         /\ Heard \in Requests
<1>1. Len(got) = HeaderSize /\ got \in Seq(Received) /\ HeaderSize \in Nat \ {0}
  BY Constants DEF TypeOK, HeldInv, Read, Reading
<1>2. got[1] \in Received
  BY <1>1
<1>3. got[1].req \in 1 .. Len(sent)
  BY <1>2 DEF Received
<1> QED BY <1>1, <1>3 DEF TypeOK, Heard

LEMMA SendTyped ==
  ASSUME TypeOK, HeldInv, NEW r \in Requests, Send(r)
  PROVE  Small' /\ Long'
<1>1. Len(sent') = Len(sent) + 1 /\ sent' \in Seq(Requests) /\ input' \in Seq(Received')
  BY SendFacts
<1>2. /\ Len(sent) < MaxRequests
      /\ gone' = gone /\ pc' = pc /\ unit' = unit /\ need' = need /\ got' = got /\ todo' = todo /\ cur' = cur
      /\ status' = status /\ buffer' = buffer /\ payload' = payload /\ answers' = answers /\ derailed' = derailed
  BY DEF Send, reader
<1>3. Small /\ Long
  BY Typed
<1>4. Len(sent') <= MaxRequests /\ 0 .. Len(sent) \subseteq 0 .. Len(sent') /\ 1 .. Len(sent) \subseteq 1 .. Len(sent')
  BY <1>1, <1>2, <1>3, Constants DEF Long
<1>5. Received \subseteq Received' /\ Answer \subseteq Answer'
  BY <1>4 DEF Received, Answer
<1>6. got' \in Seq(Received') /\ answers' \in Seq(Answer')
  BY <1>2, <1>3, <1>5 DEF Long
<1>7. Long'
  BY <1>1, <1>4, <1>6 DEF Long
<1>8. cur' \in 0 .. Len(sent') /\ buffer' \in [of : 0 .. Len(sent'), nmemb : Nat]
  BY <1>2, <1>3, <1>4 DEF Small
<1> QED BY <1>2, <1>3, <1>7, <1>8 DEF Small

LEMMA ReadTyped ==
  ASSUME TypeOK, HeldInv, NEW n \in 1 .. need, ReadSome(n)
  PROVE  Small' /\ Long'
<1>1. Small /\ Long
  BY Typed
<1>2. /\ sent' = sent /\ gone' = gone /\ pc' = pc /\ unit' = unit /\ cur' = cur /\ todo' = todo
      /\ status' = status /\ buffer' = buffer /\ payload' = payload /\ answers' = answers /\ derailed' = derailed
      /\ need' = need - n
  BY DEF ReadSome, stream
<1>3. Received' = Received /\ Answer' = Answer
  BY <1>2 DEF Received, Answer
<1>4. /\ n \in Nat \ {0} /\ n <= need /\ input' \in Seq(Received)
      /\ IF unit = "header" THEN got' \in Seq(Received) /\ Len(got') = Len(got) + n ELSE got' = got
  BY ReadFacts
<1>5. Long'
  BY <1>1, <1>2, <1>3, <1>4 DEF Long
<1>6. need' \in Nat /\ Len(got') = IF unit = "header" THEN HeaderSize - need' ELSE HeaderSize
  BY <1>1, <1>2, <1>4, Constants DEF Small
<1> QED BY <1>1, <1>2, <1>4, <1>5, <1>6, Constants DEF Small

(* All but three actions leave the sequences as they are. *)
Handlers ==
  \/ HangUp \/ ReadFails \/ Refuse \/ StartKey \/ ServerInfo \/ StartTags \/ SetTags
  \/ ReadTag \/ TagTooBig \/ TagRead \/ Get \/ Del \/ Renew \/ KeyInfo \/ Reserve \/ Store
  \/ Clear \/ List \/ WriteFails

LEMMA Quiet ==
  ASSUME Handlers
  PROVE  sent' = sent /\ input' = input /\ answers' = answers /\ got' = got
BY DEF Handlers, stream, reader, HangUp, ReadFails, Refuse, StartKey, ServerInfo, StartTags, SetTags, ReadTag, TagTooBig,
   TagRead, Get, Del, Renew, KeyInfo, Reserve, Store, Clear, List, WriteFails

(* The request of a header, of a unit behind it and of a handler.          *)
LEMMA RequestTyped ==
  ASSUME TypeOK, HandlerInv
  PROVE  /\ cur > 0 => cur \in 1 .. Len(sent) /\ Request \in Requests
         /\ pc = "apply" \/ (pc = "read" /\ unit # "header") => cur > 0
BY DEF TypeOK, HandlerInv, Handling, Request

(* NextTag keeps the types. *)
LEMMA NextTagTyped ==
  ASSUME Small, NEW i \in 1 .. Len(sent), sent[i] \in Requests, NEW n \in Nat, NextTag(i, n), unit # "header" \/ need = 0,
         sent' = sent, got' = got
  PROVE  /\ pc' \in {"read", "apply"} /\ unit' \in Parts /\ need' \in Nat /\ todo' \in Nat
         /\ buffer' \in [of : 0 .. Len(sent), nmemb : Nat]
         /\ unit' = "header" => need' <= HeaderSize
         /\ Len(got') = IF unit' = "header" THEN HeaderSize - need' ELSE HeaderSize
<1>1. sent[i].ntags * TagSize \in Nat
  BY Constants
<1>2. PICK b \in Nat : b = sent[i].ntags * TagSize
  BY <1>1
<1>3. CASE n > 0
  BY <1>3, Constants DEF NextTag, Ask, Small, Parts
<1>4. CASE ~ n > 0
  BY <1>2, <1>4, Constants DEF NextTag, Small, Parts
<1> QED BY <1>3, <1>4

LEMMA HandlersTyped ==
  ASSUME TypeOK, HeldInv, HandlerInv, Handlers
  PROVE  Small' /\ Long'
<1>1. Small /\ Long
  BY Typed
<1>2. sent' = sent /\ input' = input /\ answers' = answers /\ got' = got
  BY Quiet
<1>3. Received' = Received /\ Answer' = Answer
  BY <1>2 DEF Received, Answer
<1>4. Long'
  BY <1>1, <1>2, <1>3 DEF Long
<1> USE DEF Small, stream, reader, Respond, Close
<1>5. CASE HangUp \/ ReadFails \/ WriteFails
  BY <1>1, <1>2, <1>4, <1>5 DEF HangUp, ReadFails, WriteFails
<1>6. CASE Del \/ Renew \/ Store \/ TagTooBig
  BY <1>1, <1>2, <1>4, <1>6 DEF Del, Renew, Store, TagTooBig
<1>7. CASE Clear
  BY <1>1, <1>2, <1>4, <1>7 DEF Clear
<1>8. CASE Refuse
  <2>1. Len(got) = HeaderSize /\ got[1].req \in 1 .. Len(sent)
    BY <1>8, FirstByte DEF Refuse
  <2>2. cur' \in 0 .. Len(sent)
    BY <2>1, <1>8, <1>1 DEF Refuse
  <2> QED BY <1>1, <1>2, <1>4, <1>8, <2>2 DEF Refuse
<1>9. CASE StartKey
  <2>1. Read("header") /\ Len(got) = HeaderSize /\ got[1].req \in 1 .. Len(sent) /\ Heard.klen \in Nat
    BY <1>9, FirstByte, Constants DEF StartKey
  <2>2. cur' \in 0 .. Len(sent) /\ buffer' \in [of : 0 .. Len(sent), nmemb : Nat]
    BY <2>1, <1>9, <1>1, Constants DEF StartKey
  <2> QED BY <1>1, <1>2, <1>4, <1>9, <2>1, <2>2 DEF StartKey, Ask, Parts
<1>10. CASE ServerInfo
  <2>1. Read("header") /\ Len(got) = HeaderSize /\ got[1].req \in 1 .. Len(sent)
    BY <1>10, FirstByte DEF ServerInfo
  <2>2. cur' \in 0 .. Len(sent) /\ buffer' \in [of : 0 .. Len(sent), nmemb : Nat]
    BY <2>1, <1>10, <1>1, Constants DEF ServerInfo
  <2> QED BY <1>1, <1>2, <1>4, <1>10, <2>1, <2>2 DEF ServerInfo
<1>11. CASE StartTags
  <2>1. Read("header") /\ Len(got) = HeaderSize /\ got[1].req \in 1 .. Len(sent) /\ Heard \in Requests
    BY <1>11, FirstByte DEF StartTags
  <2>2. Heard.ntags \in Nat /\ NextTag(got[1].req, Heard.ntags) /\ need = 0
    BY <1>11, <2>1, Constants DEF StartTags, Read
  <2>3. /\ cur' = got[1].req /\ payload' = "none"
        /\ gone' = gone /\ status' = status /\ derailed' = derailed
    BY <1>11 DEF StartTags
  <2>4. /\ pc' \in {"read", "apply"} /\ unit' \in Parts /\ need' \in Nat /\ todo' \in Nat
        /\ buffer' \in [of : 0 .. Len(sent), nmemb : Nat]
        /\ unit' = "header" => need' <= HeaderSize
        /\ Len(got') = IF unit' = "header" THEN HeaderSize - need' ELSE HeaderSize
    BY <2>1, <2>2, <1>1, <1>2, NextTagTyped DEF Heard
  <2> QED BY <1>1, <1>2, <1>4, <2>1, <2>3, <2>4
<1>12. CASE SetTags \/ TagRead
  <2>1. pc = "read" /\ unit # "header" /\ cur \in 1 .. Len(sent) /\ Request \in Requests
    BY <1>12, RequestTyped DEF SetTags, TagRead, Read, Reading
  <2>2. PICK n \in Nat : NextTag(cur, n)
    BY <1>12, <1>1, <2>1, Constants DEF SetTags, TagRead
  <2>3. /\ cur' = cur /\ payload' = payload
        /\ gone' = gone /\ status' = status /\ derailed' = derailed
    BY <1>12 DEF SetTags, TagRead
  <2>4. /\ pc' \in {"read", "apply"} /\ unit' \in Parts /\ need' \in Nat /\ todo' \in Nat
        /\ buffer' \in [of : 0 .. Len(sent), nmemb : Nat]
        /\ unit' = "header" => need' <= HeaderSize
        /\ Len(got') = IF unit' = "header" THEN HeaderSize - need' ELSE HeaderSize
    BY <2>1, <2>2, <1>1, <1>2, NextTagTyped DEF Request
  <2> QED BY <1>1, <1>2, <1>4, <2>1, <2>3, <2>4
<1>13. CASE ReadTag
  <2>1. unit = "tag_size" /\ TagSize \in Nat
    BY <1>13, Constants DEF ReadTag, Read, Reading
  <2> QED BY <1>1, <1>2, <1>4, <1>13, <2>1 DEF ReadTag, Ask, Parts
<1>14. CASE Get
  <2>1. buffer' \in [of : 0 .. Len(sent), nmemb : Nat]
    BY <1>14, <1>1, Constants DEF Get
  <2> QED BY <1>1, <1>2, <1>4, <1>14, <2>1 DEF Get
<1>15. CASE KeyInfo
  <2>1. buffer' \in [of : 0 .. Len(sent), nmemb : Nat]
    BY <1>15, <1>1, Constants DEF KeyInfo
  <2> QED BY <1>1, <1>2, <1>4, <1>15, <2>1 DEF KeyInfo
<1>16. CASE List
  <2>1. buffer' \in [of : 0 .. Len(sent), nmemb : Nat]
    BY <1>16, <1>1, Constants DEF List
  <2> QED BY <1>1, <1>2, <1>4, <1>16, <2>1 DEF List
<1>17. CASE Reserve
  <2>1. pc = "apply" /\ Request.vlen \in Nat /\ cur > 0
    BY <1>17, RequestTyped, Constants DEF Reserve
  <2>2. CASE Ask("value", Request.vlen) /\ UNCHANGED <<status, derailed>>
    <3>1. Len(got) = HeaderSize
      BY <2>1, <1>1, Constants DEF Small, HandlerInv, Handling
    <3> QED BY <3>1, <1>1, <1>2, <1>4, <1>17, <2>1, <2>2 DEF Reserve, Ask, Parts
  <2>3. CASE Respond("memory") /\ UNCHANGED <<unit, need>>
    BY <1>1, <1>2, <1>4, <1>17, <2>1, <2>3 DEF Reserve
  <2> QED BY <1>17, <2>2, <2>3 DEF Reserve
<1> QED BY <1>5, <1>6, <1>7, <1>8, <1>9, <1>10, <1>11, <1>12, <1>13, <1>14, <1>15, <1>16, <1>17 DEF Handlers

LEMMA NmembFacts ==
  ASSUME TypeOK, NEW n \in Nmemb
  PROVE  n \in Nat /\ (payload = "none" => n = 0) /\ (payload = "buffer" => n = buffer.nmemb)
BY Constants DEF TypeOK, Nmemb

LEMMA WritingTyped ==
  ASSUME TypeOK, HeldInv, HandlerInv, WriteResponse \/ WritePayload
  PROVE  Small' /\ Long'
<1>1. Small /\ Long
  BY Typed
<1>2. /\ sent' = sent /\ input' = input /\ buffer' = buffer
      /\ gone' = gone /\ derailed' = derailed /\ todo' = todo /\ status' = status /\ payload' = payload
  BY DEF WriteResponse, WritePayload, stream, reader, NextRequest
<1>3. Received' = Received /\ Answer' = Answer
  BY <1>2 DEF Received, Answer
<1>4. answers' \in Seq(Answer)
  <2>1. CASE WriteResponse
    <3>1. PICK n \in Nmemb : answers' = Append(answers, Response(n))
      BY <2>1 DEF WriteResponse
    <3>2. Response(n) \in Answer
      BY NmembFacts, <1>1 DEF Response, Answer, Small
    <3> QED BY <3>1, <3>2, <1>1 DEF Long
  <2>2. CASE WritePayload
    <3>1. PICK n \in Nmemb : answers' = [answers EXCEPT ![Len(answers)].body = [of |-> buffer.of, nmemb |-> n]]
      BY <2>2 DEF WritePayload
    <3>2. [of |-> buffer.of, nmemb |-> n] \in [of : 0 .. Len(sent), nmemb : Nat]
      BY NmembFacts, <1>1 DEF Small
    <3>3. PICK b \in [of : 0 .. Len(sent), nmemb : Nat] : answers' = [answers EXCEPT ![Len(answers)].body = b]
      BY <3>1, <3>2
    <3>4. answers \in [1 .. Len(answers) -> Answer] /\ Len(answers) \in Nat
      BY <1>1 DEF Long
    <3>5. \A i \in 1 .. Len(answers) : [answers[i] EXCEPT !.body = b] \in Answer
      BY <3>4 DEF Answer
    <3>6. answers' \in [1 .. Len(answers) -> Answer]
      BY <3>3, <3>4, <3>5
    <3> QED BY <3>4, <3>6, IsSequence
  <2> QED BY <2>1, <2>2
<1>5. \/ pc' = "payload" /\ unit' = unit /\ need' = need /\ got' = got /\ cur' = cur
      \/ pc' = "read" /\ unit' = "header" /\ need' = HeaderSize /\ got' = <<>> /\ cur' = 0
  BY DEF WriteResponse, WritePayload, NextRequest, Ask, reader
<1>6. got' \in Seq(Received)
  <2>1. got \in Seq(Received) /\ <<>> \in Seq(Received)
    BY <1>1 DEF Long
  <2> QED BY <2>1, <1>5
<1>7. Long'
  BY <1>1, <1>2, <1>3, <1>4, <1>6 DEF Long
<1>8. Small'
  BY <1>1, <1>2, <1>5, Constants DEF Small, Parts
<1> QED BY <1>7, <1>8

LEMMA TypeStep ==
  ASSUME TypeOK, HeldInv, HandlerInv, [Next]_vars
  PROVE  TypeOK' /\ HeldInv'
<1>1. CASE \E r \in Requests : Send(r)
  BY <1>1, SendTyped, TypedNext
<1>2. CASE \E n \in 1 .. need : ReadSome(n)
  BY <1>2, ReadTyped, TypedNext
<1>3. CASE Handlers
  BY <1>3, HandlersTyped, TypedNext
<1>4. CASE WriteResponse \/ WritePayload
  BY <1>4, WritingTyped, TypedNext
<1>5. CASE UNCHANGED vars
  BY <1>5 DEF vars, TypeOK, HeldInv, Received, Answer, Range
<1> QED BY <1>1, <1>2, <1>3, <1>4, <1>5 DEF Next, Worker, Handlers

(***************************************************************************)
(* What the handlers hold, and the bodies of the answers.                  *)
(***************************************************************************)

LEMMA SendHandlers ==
  ASSUME TypeOK, HeldInv, HandlerInv, FreshBody, NEW r \in Requests, Send(r)
  PROVE  HandlerInv' /\ FreshBody'
<1>1. /\ pc' = pc /\ unit' = unit /\ need' = need /\ cur' = cur
      /\ buffer' = buffer /\ payload' = payload /\ answers' = answers
  BY DEF Send, reader
<1>2. cur \in 0 .. Len(sent) /\ (cur > 0 => sent'[cur] = sent[cur])
  BY SendFacts DEF TypeOK
<1>3. Handling' = Handling
  BY <1>1 DEF Handling
<1>4. HandlerInv'
  BY <1>1, <1>2, <1>3 DEF HandlerInv, Request
<1>5. \A i \in DOMAIN answers : answers[i].to \in 0 .. Len(sent)
  <2>1. \A i \in DOMAIN answers : answers[i] \in Answer
    BY DEF HeldInv
  <2> QED BY <2>1 DEF Answer
<1>6. \A i \in DOMAIN answers : answers[i].to > 0 => sent'[answers[i].to] = sent[answers[i].to]
  BY <1>5, SendFacts
<1>7. FreshBody'
  BY <1>1, <1>6 DEF FreshBody
<1> QED BY <1>4, <1>7

LEMMA ReadHandlers ==
  ASSUME TypeOK, HandlerInv, FreshBody, NEW n \in 1 .. need, ReadSome(n)
  PROVE  HandlerInv' /\ FreshBody'
<1>1. /\ pc = "read" /\ n \in Nat \ {0} /\ n <= need /\ need \in Nat
      /\ pc' = pc /\ unit' = unit /\ cur' = cur /\ sent' = sent
      /\ buffer' = buffer /\ payload' = payload /\ answers' = answers
  BY DEF ReadSome, stream, TypeOK
<1>2. Handling' = Handling /\ Request' = Request
  BY <1>1 DEF Handling, Request
<1>3. HandlerInv'
  BY <1>1, <1>2 DEF HandlerInv, Handling
<1> QED BY <1>1, <1>3 DEF FreshBody

LEMMA HandlersFresh ==
  ASSUME FreshBody, Handlers
  PROVE  FreshBody'
<1>1. pc \notin {"payload", "closed"} \/ pc' = "closed" \/ pc' = pc
  BY DEF Handlers, Refuse, StartKey, ServerInfo, StartTags, SetTags, ReadTag, TagTooBig, HangUp,
     TagRead, Get, Del, Renew, KeyInfo, Reserve, Store, Clear, List, WriteFails, ReadFails, Read, Reading, Close
<1> QED BY <1>1, Quiet DEF FreshBody

LEMMA HandlersHold ==
  ASSUME TypeOK, HeldInv, HandlerInv, Handlers
  PROVE  HandlerInv'
<1>1. sent' = sent /\ answers' = answers
  BY Quiet
<1> USE DEF HandlerInv, Handling, stream, reader, Respond, Close, Request
<1>2. CASE HangUp \/ ReadFails \/ WriteFails
  BY <1>1, <1>2 DEF HangUp, ReadFails, WriteFails
<1>3. CASE Del \/ Renew \/ Store \/ TagTooBig \/ Clear
  BY <1>1, <1>3 DEF Del, Renew, Store, TagTooBig, Clear, Read, Reading
<1>4. CASE Refuse
  BY <1>1, <1>4 DEF Refuse, Read, Reading
<1>5. CASE StartKey
  <2>1. got[1].req \in 1 .. Len(sent)
    BY <1>5, FirstByte DEF StartKey
  <2> QED BY <1>1, <1>5, <2>1 DEF StartKey, Ask, Heard
<1>6. CASE ServerInfo
  <2>1. got[1].req \in 1 .. Len(sent)
    BY <1>6, FirstByte DEF ServerInfo
  <2> QED BY <1>1, <1>6, <2>1 DEF ServerInfo, Heard, Read
<1>7. CASE StartTags
  <2>1. got[1].req \in 1 .. Len(sent)
    BY <1>7, FirstByte DEF StartTags
  <2> QED BY <1>1, <1>7, <2>1 DEF StartTags, Heard, Read, Reading, NextTag, Ask
<1>8. CASE SetTags \/ TagRead
  <2>1. pc = "read" /\ unit \in {"key", "tag"} /\ unit' \in {unit, "tag_size"} /\ cur' = cur /\ payload' = payload
    BY <1>8 DEF SetTags, TagRead, Read, Reading, NextTag, Ask
  <2>2. (pc' = "read" /\ unit' = "tag_size") \/ pc' = "apply"
    BY <1>8 DEF SetTags, TagRead, NextTag, Ask
  <2>3. cur > 0 /\ payload = "none" /\ Request.op \in {"set", "clr", "lst"}
    <3>1. CASE SetTags
      BY <3>1 DEF SetTags, Read, Reading
    <3>2. CASE TagRead
      BY <3>2 DEF TagRead, Read, Reading
    <3> QED BY <1>8, <3>1, <3>2
  <2> QED BY <1>1, <2>1, <2>2, <2>3
<1>9. CASE ReadTag
  BY <1>1, <1>9 DEF ReadTag, Read, Reading, Ask
<1>10. CASE Get \/ KeyInfo
  BY <1>1, <1>10 DEF Get, KeyInfo, Read, Reading, TypeOK
<1>11. CASE List
  BY <1>1, <1>11 DEF List
<1>12. CASE Reserve
  BY <1>1, <1>12 DEF Reserve, Ask
<1> QED BY <1>2, <1>3, <1>4, <1>5, <1>6, <1>7, <1>8, <1>9, <1>10, <1>11, <1>12 DEF Handlers

(* An answer is appended: its size is what Nmemb said; the body is still   *)
(* to come, or there is none.                                              *)
LEMMA ResponseHolds ==
  ASSUME TypeOK, HeldInv, HandlerInv, FreshBody, WriteResponse
  PROVE  HandlerInv' /\ FreshBody'
<1>1. PICK n \in Nmemb, m \in Nmemb :
        /\ answers' = Append(answers, Response(n))
        /\ IF m > 0 THEN pc' = "payload" /\ UNCHANGED <<reader, cur>> ELSE NextRequest
  BY DEF WriteResponse
<1>2. pc = "respond" /\ sent' = sent /\ buffer' = buffer /\ payload' = payload /\ status' = status
  BY DEF WriteResponse, stream
<1>3. /\ n \in Nat /\ (payload = "none" => n = 0) /\ (payload = "buffer" => n = buffer.nmemb)
      /\ m \in Nat /\ (payload = "none" => m = 0) /\ (payload = "buffer" => m = buffer.nmemb)
  BY NmembFacts
<1>4. /\ Len(answers) \in Nat /\ Len(answers') = Len(answers) + 1 /\ answers'[Len(answers) + 1] = Response(n)
      /\ DOMAIN answers' = 1 .. Len(answers) + 1 /\ DOMAIN answers = 1 .. Len(answers)
      /\ \A i \in 1 .. Len(answers) : answers'[i] = answers[i]
  BY <1>1 DEF HeldInv
<1>5. payload # "none" => cur > 0 /\ Request.op \in {"get", "nfo", "lst"} /\ (payload = "buffer" => buffer.of = cur)
  BY <1>2 DEF HandlerInv, Handling
<1>6. Response(n).to = cur /\ Response(n).from = payload /\ Response(n).ok = (status = "ok")
      /\ Response(n).size = (IF status = "ok" THEN n ELSE 0) /\ Response(n).body = [of |-> 0, nmemb |-> 0]
  BY DEF Response
<1>7. CASE m > 0
  <2>1. pc' = "payload" /\ cur' = cur /\ unit' = unit /\ need' = need /\ payload # "none"
    BY <1>1, <1>3, <1>7 DEF reader
  <2>2. HandlerInv'
    <3>1. Len(answers') > 0 /\ answers'[Len(answers')] = Response(n) /\ Request' = Request
      BY <2>1, <1>2, <1>4 DEF Request
    <3>2. /\ Response(n).to = cur' /\ Response(n).from = payload'
          /\ Response(n).ok /\ payload' = "buffer" => Response(n).size = buffer'.nmemb
      BY <2>1, <1>2, <1>3, <1>6
    <3>3. Handling /\ unit = "header" => need = 0
      BY DEF HandlerInv
    <3> QED BY <2>1, <1>2, <1>5, <3>1, <3>2, <3>3 DEF HandlerInv, Handling
  <2>3. FreshBody'
    BY <2>1, <1>2, <1>4 DEF FreshBody
  <2> QED BY <2>2, <2>3
<1>8. CASE ~ m > 0
  <2>1. pc' = "read" /\ unit' = "header" /\ cur' = 0
    BY <1>1, <1>8 DEF NextRequest, Ask
  <2>2. HandlerInv'
    BY <2>1 DEF HandlerInv, Handling
  <2>3. \A i \in 1 .. Len(answers) : answers[i].ok /\ answers[i].from # "alt" =>
          /\ answers[i].body.nmemb = answers[i].size
          /\ answers[i].size > 0 => answers[i].body.of = answers[i].to
          /\ answers[i].to > 0 /\ sent[answers[i].to].op \in {"set", "del", "clr"} => answers[i].size = 0
    BY <1>2, <1>4 DEF FreshBody
  <2>4. payload # "alt" => n = 0
    BY <1>3, <1>8 DEF TypeOK
  <2>5. Response(n).from # "alt" => Response(n).size = 0 /\ Response(n).body.nmemb = 0
    BY <2>4, <1>6
  <2>6. FreshBody'
    BY <2>1, <2>3, <2>5, <1>2, <1>4 DEF FreshBody
  <2> QED BY <2>2, <2>6
<1> QED BY <1>7, <1>8

(* The body of the last answer is written. *)
LEMMA PayloadHolds ==
  ASSUME TypeOK, HeldInv, HandlerInv, FreshBody, WritePayload
  PROVE  HandlerInv' /\ FreshBody'
<1>1. PICK n \in Nmemb : answers' = [answers EXCEPT ![Len(answers)].body = [of |-> buffer.of, nmemb |-> n]]
  BY DEF WritePayload
<1>2. pc = "payload" /\ sent' = sent /\ pc' = "read" /\ unit' = "header"
  BY DEF WritePayload, stream, NextRequest, Ask
<1>3. HandlerInv'
  BY <1>2 DEF HandlerInv, Handling
<1>4. n \in Nat /\ (payload = "none" => n = 0) /\ (payload = "buffer" => n = buffer.nmemb)
  BY NmembFacts
<1> DEFINE last == Len(answers)
<1>5. last \in Nat \ {0} /\ answers \in Seq(Answer) /\ DOMAIN answers = 1 .. last /\ answers[last] \in Answer
  BY <1>2 DEF HandlerInv, HeldInv
<1>6. /\ DOMAIN answers' = 1 .. last
      /\ \A i \in 1 .. last : i # last => answers'[i] = answers[i]
      /\ answers'[last] = [answers[last] EXCEPT !.body = [of |-> buffer.of, nmemb |-> n]]
  BY <1>1, <1>5
<1>7. /\ answers'[last].to = cur /\ answers'[last].from = payload /\ answers'[last].body = [of |-> buffer.of, nmemb |-> n]
      /\ answers'[last].ok /\ payload = "buffer" => answers'[last].size = buffer.nmemb
  BY <1>2, <1>5, <1>6 DEF HandlerInv, Answer
<1>8. payload # "none" /\ Request.op \in {"get", "nfo", "lst"} /\ (payload = "buffer" => buffer.of = cur)
  BY <1>2 DEF HandlerInv, Handling
<1>9. \A i \in 1 .. last : i # last /\ answers[i].ok /\ answers[i].from # "alt" =>
        /\ answers[i].body.nmemb = answers[i].size
        /\ answers[i].size > 0 => answers[i].body.of = answers[i].to
        /\ answers[i].to > 0 /\ sent[answers[i].to].op \in {"set", "del", "clr"} => answers[i].size = 0
  BY <1>2, <1>5 DEF FreshBody
<1>10. answers'[last].ok /\ answers'[last].from # "alt" =>
        /\ answers'[last].body.nmemb = answers'[last].size
        /\ answers'[last].size > 0 => answers'[last].body.of = answers'[last].to
        /\ answers'[last].to > 0 /\ sent[answers'[last].to].op \in {"set", "del", "clr"} => answers'[last].size = 0
  BY <1>4, <1>7, <1>8 DEF Request, TypeOK
<1>11. FreshBody'
  <2> SUFFICES ASSUME NEW i \in 1 .. last, answers'[i].ok, answers'[i].from # "alt"
               PROVE  /\ answers'[i].body.nmemb = answers'[i].size
                      /\ answers'[i].size > 0 => answers'[i].body.of = answers'[i].to
                      /\ answers'[i].to > 0 /\ sent[answers'[i].to].op \in {"set", "del", "clr"} => answers'[i].size = 0
    BY <1>2, <1>6 DEF FreshBody
  <2>1. CASE i = last
    BY <2>1, <1>10
  <2>2. CASE i # last
    BY <2>2, <1>6, <1>9
  <2> QED BY <2>1, <2>2
<1> QED BY <1>3, <1>11

LEMMA HandlerStep ==
  ASSUME TypeOK, HeldInv, HandlerInv, FreshBody, [Next]_vars
  PROVE  HandlerInv' /\ FreshBody'
<1>1. CASE UNCHANGED vars
  BY <1>1 DEF vars, reader, HandlerInv, Handling, Request, FreshBody
<1>2. CASE Next
  BY <1>2, SendHandlers, ReadHandlers, HandlersFresh, HandlersHold, ResponseHolds, PayloadHolds
     DEF Next, Worker, Handlers
<1> QED BY <1>1, <1>2

(***************************************************************************)
(* Requests that have not been begun are there as a whole.                 *)
(***************************************************************************)

LEMMA SendWhole ==
  ASSUME TypeOK, HeldInv, WholeInv, NEW r \in Requests, Send(r)
  PROVE  WholeInv'
<1> DEFINE k == Len(sent) + 1
<1>1. /\ Len(sent) \in Nat /\ Len(sent') = k /\ sent'[k] = r
      /\ \A i \in 1 .. Len(sent) : sent'[i] = sent[i] /\ sent[i] \in Requests
      /\ Len(input) \in Nat /\ Len(input') = Len(input) + Length(r)
      /\ \A j \in 1 .. Len(input) : input'[j] = input[j] /\ input[j].req \in 1 .. Len(sent)
      /\ \A h \in 1 .. HeaderSize : input'[Len(input) + h] = HeaderByte(k, h)
      /\ \A h \in 1 .. Length(r) : IsStart(input'[Len(input) + h]) => h = 1
  <2>1. \A i \in 1 .. Len(sent) : sent[i] \in Requests
    BY DEF TypeOK
  <2>2. input \in Seq(Received)
    BY DEF HeldInv
  <2>3. \A j \in 1 .. Len(input) : input[j] \in Received
    BY <2>2
  <2>4. \A j \in 1 .. Len(input) : input[j].req \in 1 .. Len(sent)
    BY <2>3 DEF Received
  <2>5. Len(sent) \in Nat /\ Len(input) \in Nat
    BY <2>2 DEF TypeOK
  <2> QED BY <2>1, <2>4, <2>5, SendFacts
<1>2. /\ HeaderSize \in Nat \ {0} /\ Length(r) \in Nat /\ HeaderSize <= Length(r)
      /\ \A i \in 1 .. Len(sent) : Length(sent[i]) \in Nat /\ HeaderSize <= Length(sent[i])
  BY <1>1, Constants, LengthFacts
<1> SUFFICES ASSUME NEW j \in 1 .. Len(input'), IsStart(input'[j]) PROVE WholeAt(j)'
  BY DEF WholeInv
<1>3. CASE j <= Len(input)
  <2>1. j \in 1 .. Len(input) /\ input'[j] = input[j] /\ WholeAt(j)
    BY <1>1, <1>3 DEF WholeInv
  <2>2. PICK i \in 1 .. Len(sent) : i = input[j].req
    BY <2>1, <1>1
  <2>3. PICK end \in Nat : end = j + Length(sent[i])
    BY <2>1, <2>2, <1>2
  <2>4. /\ end <= Len(input) + 1
        /\ \A h \in 1 .. HeaderSize : input[j + h - 1] = HeaderByte(i, h)
        /\ IF end = Len(input) + 1 THEN i = Len(sent) ELSE input[end] = HeaderByte(i + 1, 1)
    BY <2>1, <2>2, <2>3 DEF WholeAt
  <2>d. HeaderSize <= Length(sent[i]) /\ Length(sent[i]) \in Nat
    BY <2>2, <1>2
  <2>5. input'[j].req = i /\ end = j + Length(sent'[i]) /\ end <= Len(input') /\ end > 0
    <3>1. input'[j].req = i /\ sent'[i] = sent[i]
      BY <2>1, <2>2, <1>1
    <3> QED BY <3>1, <2>1, <2>3, <2>4, <2>d, <1>1, <1>2
  <2>6. \A h \in 1 .. HeaderSize : input'[j + h - 1] = HeaderByte(i, h)
    <3> SUFFICES ASSUME NEW h \in 1 .. HeaderSize PROVE input'[j + h - 1] = HeaderByte(i, h)
      OBVIOUS
    <3>1. j + h - 1 \in 1 .. Len(input)
      <4>1. j \in Nat \ {0} /\ Len(input) \in Nat /\ HeaderSize \in Nat
        BY <2>1, <1>1, <1>2
      <4>2. h <= Length(sent[i]) /\ h \in Nat \ {0}
        BY <4>1, <2>d
      <4> QED BY <4>1, <4>2, <2>3, <2>4, <2>d
    <3> QED BY <3>1, <2>4, <1>1
  <2>7. input'[end] = HeaderByte(i + 1, 1)
    <3>1. CASE end = Len(input) + 1
      BY <3>1, <2>4, <1>1, <1>2
    <3>2. CASE end # Len(input) + 1
      <4>1. end \in 1 .. Len(input)
        BY <3>2, <2>4, <2>5
      <4> QED BY <4>1, <3>2, <2>4, <1>1
    <3> QED BY <3>1, <3>2
  <2>8. end # Len(input') + 1
    BY <2>5, <1>1, <1>2
  <2> QED BY <2>5, <2>6, <2>7, <2>8, <1>1, <1>2 DEF WholeAt
<1>4. CASE j > Len(input)
  <2>1. j - Len(input) \in 1 .. Length(r) /\ j = Len(input) + (j - Len(input))
    BY <1>1, <1>2, <1>4
  <2>2. j = Len(input) + 1
    BY <2>1, <1>1
  <2>h. input'[j] = HeaderByte(k, 1)
    <3>1. 1 \in 1 .. HeaderSize
      BY <1>2
    <3> QED BY <3>1, <2>2, <1>1
  <2>3. input'[j].req = k
    BY <2>h DEF HeaderByte
  <2>4. \A h \in 1 .. HeaderSize : input'[j + h - 1] = HeaderByte(k, h)
    BY <2>2, <1>1, <1>2
  <2> QED BY <2>2, <2>3, <2>4, <1>1, <1>2 DEF WholeAt
<1> QED BY <1>1, <1>2, <1>3, <1>4

LEMMA ReadWhole ==
  ASSUME TypeOK, HeldInv, WholeInv, NEW n \in 1 .. need, ReadSome(n)
  PROVE  WholeInv'
<1>1. /\ n \in Nat \ {0} /\ n <= Len(input) /\ Len(input) \in Nat /\ Len(input') = Len(input) - n
      /\ \A j \in 1 .. Len(input) - n : input'[j] = input[n + j]
      /\ \A j \in 1 .. Len(input) : input[j].req \in 1 .. Len(sent)
      /\ \A i \in 1 .. Len(sent) : sent[i] \in Requests
      /\ sent' = sent
  <2>1. \A i \in 1 .. Len(sent) : sent[i] \in Requests
    BY DEF TypeOK
  <2>2. input \in Seq(Received)
    BY DEF HeldInv
  <2>3. \A j \in 1 .. Len(input) : input[j] \in Received
    BY <2>2
  <2>4. \A j \in 1 .. Len(input) : input[j].req \in 1 .. Len(sent)
    BY <2>3 DEF Received
  <2>5. sent' = sent /\ Len(input) \in Nat
    BY <2>2 DEF ReadSome, stream
  <2> QED BY <2>1, <2>4, <2>5, ReadFacts
<1>2. /\ HeaderSize \in Nat \ {0}
      /\ \A i \in 1 .. Len(sent) : Length(sent[i]) \in Nat /\ HeaderSize <= Length(sent[i])
  BY <1>1, Constants, LengthFacts
<1> SUFFICES ASSUME NEW j \in 1 .. Len(input'), IsStart(input'[j]) PROVE WholeAt(j)'
  BY DEF WholeInv
<1>3. n + j \in 1 .. Len(input) /\ input'[j] = input[n + j] /\ WholeAt(n + j)
  BY <1>1 DEF WholeInv
<1>4. PICK i \in 1 .. Len(sent) : i = input[n + j].req
  BY <1>3, <1>1
<1>5. PICK end \in Nat : end = j + Length(sent[i])
  <2>1. Length(sent[i]) \in Nat /\ j \in Nat
    BY <1>2, <1>4
  <2> QED BY <2>1
<1>6. /\ n + end <= Len(input) + 1
      /\ \A h \in 1 .. HeaderSize : input[n + j + h - 1] = HeaderByte(i, h)
      /\ IF n + end = Len(input) + 1 THEN i = Len(sent) ELSE input[n + end] = HeaderByte(i + 1, 1)
  <2>1. n + j + Length(sent[i]) = n + end
    BY <1>1, <1>2, <1>4, <1>5
  <2> QED BY <2>1, <1>3, <1>4 DEF WholeAt
<1>7. \A h \in 1 .. HeaderSize : input'[j + h - 1] = HeaderByte(i, h)
  <2> SUFFICES ASSUME NEW h \in 1 .. HeaderSize PROVE input'[j + h - 1] = HeaderByte(i, h)
    OBVIOUS
  <2>1. j + h - 1 \in 1 .. Len(input) - n /\ n + (j + h - 1) = n + j + h - 1
    <3>1. /\ Length(sent[i]) \in Nat /\ HeaderSize <= Length(sent[i]) /\ HeaderSize \in Nat
          /\ j \in Nat \ {0} /\ Len(input) \in Nat /\ n \in Nat
      BY <1>1, <1>2, <1>4
    <3>2. h \in Nat \ {0} /\ h <= Length(sent[i])
      BY <3>1
    <3>3. n + end <= Len(input) + 1
      BY <1>6
    <3> QED BY <3>1, <3>2, <3>3, <1>5
  <2> QED BY <2>1, <1>1, <1>6
<1>8. IF end = Len(input') + 1 THEN i = Len(sent) ELSE input'[end] = HeaderByte(i + 1, 1)
  <2>l. Length(sent[i]) \in Nat /\ j \in Nat \ {0} /\ Len(input) \in Nat /\ n \in Nat
    BY <1>1, <1>2, <1>4
  <2>1. end \in Nat /\ end > 0 /\ end <= Len(input) - n + 1
    BY <2>l, <1>5, <1>6
  <2>2. CASE end = Len(input) - n + 1
    BY <2>2, <1>1, <1>5, <1>6
  <2>3. CASE end # Len(input) - n + 1
    <3>1. end \in 1 .. Len(input) - n /\ n + end # Len(input) + 1
      BY <2>l, <2>1, <2>3
    <3> QED BY <3>1, <2>3, <1>1, <1>6
  <2> QED BY <2>2, <2>3
<1> QED BY <1>1, <1>3, <1>4, <1>5, <1>6, <1>7, <1>8 DEF WholeAt

LEMMA WholeStep ==
  ASSUME TypeOK, HeldInv, WholeInv, [Next]_vars
  PROVE  WholeInv'
<1>1. CASE (\E r \in Requests : Send(r)) \/ \E n \in 1 .. need : ReadSome(n)
  BY <1>1, SendWhole, ReadWhole
<1>2. CASE Handlers \/ WriteResponse \/ WritePayload \/ UNCHANGED vars
  <2>1. sent' = sent /\ input' = input
    BY <1>2, Quiet DEF WriteResponse, WritePayload, vars, stream
  <2> QED BY <2>1 DEF WholeInv, WholeAt
<1> QED BY <1>1, <1>2 DEF Next, Worker, Handlers

(***************************************************************************)
(* The worker stays in step.                                               *)
(***************************************************************************)

LEMMA TurnFacts ==
  ASSUME TypeOK, HeldInv
  PROVE  Len(answers) \in Nat /\ Turn \in Nat /\ Len(sent) \in Nat /\ Len(input) \in Nat /\ Len(got) \in Nat
BY DEF TypeOK, HeldInv, Turn

LEMMA BytesEqual ==
  ASSUME NEW i, NEW n \in Nat, NEW S, NEW s \in Seq(S), Len(s) = n, \A j \in 1 .. n : s[j] = HeaderByte(i, j)
  PROVE  s = Bytes(i, "header", n)
BY DEF Bytes, HeaderByte

(* A header of which a part has been read. *)
Begun ==
  /\ Turn \in 1 .. Len(sent)
  /\ \A j \in 1 .. Len(got) : got[j] = HeaderByte(Turn, j)
  /\ \A h \in 1 .. need : input[h] = HeaderByte(Turn, Len(got) + h)
  /\ Len(got) <= Length(sent[Turn])
  /\ Aligned(Turn, Length(sent[Turn]) - Len(got))

LEMMA BegunBefore ==
  ASSUME TypeOK, HeldInv, WholeInv, StepInv, Reading("header"), got = <<>>, input # <<>>
  PROVE  Begun
<1>1. pc = "read" /\ need = HeaderSize /\ Len(got) = 0 /\ Turn = Len(answers) + 1 /\ Len(answers) \in Nat
  BY TurnFacts, Constants DEF TypeOK, Reading, Turn
<1>2. Len(input) \in Nat \ {0} /\ input[1] \in Received
  BY DEF HeldInv
<1>3. input[1] = HeaderByte(Turn, 1)
  BY <1>1, <1>2 DEF StepInv, Aligned
<1>4. Turn \in 1 .. Len(sent)
  BY <1>2, <1>3 DEF HeaderByte, Received
<1>5. WholeAt(1)
  BY <1>2, <1>3 DEF WholeInv, IsStart, HeaderByte
<1>6. PICK l \in Nat : l = Length(sent[Turn]) /\ l >= HeaderSize
  <2>1. sent[Turn] \in Requests
    BY <1>4 DEF TypeOK
  <2> QED BY <2>1, LengthFacts
<1>7. input[1].req = Turn
  BY <1>3 DEF HeaderByte
<1>8. /\ 1 + l <= Len(input) + 1
      /\ \A h \in 1 .. HeaderSize : input[1 + h - 1] = HeaderByte(Turn, h)
      /\ IF 1 + l = Len(input) + 1 THEN Turn = Len(sent) ELSE input[1 + l] = HeaderByte(Turn + 1, 1)
  BY <1>5, <1>6, <1>7 DEF WholeAt
<1>9. \A h \in 1 .. HeaderSize : input[h] = HeaderByte(Turn, h)
  BY <1>8, Constants
<1>10. Aligned(Turn, l)
  BY <1>2, <1>6, <1>8 DEF Aligned
<1> QED BY <1>1, <1>4, <1>6, <1>9, <1>10, Constants DEF Begun

LEMMA BegunAfter ==
  ASSUME TypeOK, HeldInv, StepInv, Reading("header"), got # <<>>
  PROVE  Begun
<1>1. /\ Turn <= Len(sent) /\ got = Bytes(Turn, "header", Len(got))
      /\ \A h \in 1 .. need : input[h] = HeaderByte(Turn, Len(got) + h)
      /\ Aligned(Turn, Length(sent[Turn]) - Len(got))
  BY DEF StepInv
<1>2. Turn \in 1 .. Len(sent)
  BY <1>1, TurnFacts DEF Turn, Reading
<1>3. Length(sent[Turn]) \in Nat /\ HeaderSize <= Length(sent[Turn])
  BY <1>2, LengthFacts DEF TypeOK
<1>4. Len(got) <= HeaderSize /\ Len(got) \in Nat
  BY Constants DEF TypeOK, Reading
<1>5. \A j \in 1 .. Len(got) : got[j] = HeaderByte(Turn, j)
  BY <1>1, <1>4 DEF Bytes, HeaderByte
<1> QED BY <1>1, <1>2, <1>3, <1>4, <1>5, Constants DEF Begun

LEMMA ReadHeaderStep ==
  ASSUME TypeOK, HeldInv, WholeInv, StepInv, NEW n \in 1 .. need, ReadSome(n), unit = "header"
  PROVE  StepInv'
<1>1. /\ n \in Nat \ {0} /\ n <= need /\ n <= Len(input) /\ Len(input') = Len(input) - n
      /\ \A j \in 1 .. Len(input) - n : input'[j] = input[n + j]
      /\ got' \in Seq(Received) /\ Len(got') = Len(got) + n
      /\ \A j \in 1 .. Len(got) : got'[j] = got[j]
      /\ \A j \in 1 .. n : got'[Len(got) + j] = input[j]
  BY ReadFacts
<1>2. /\ pc = "read" /\ pc' = pc /\ unit' = unit /\ need' = need - n /\ answers' = answers /\ sent' = sent
  BY DEF ReadSome, stream
<1>3. Begun
  <2>1. input # <<>> /\ Reading("header")
    BY <1>1, <1>2 DEF Reading
  <2> QED BY <2>1, BegunBefore, BegunAfter
<1>4. Turn' = Turn /\ Turn \in 1 .. Len(sent) /\ ~Handling' /\ got' # <<>>
  <2>1. Len(got) \in Nat
    BY TurnFacts
  <2> QED BY <2>1, <1>1, <1>2, <1>3 DEF Begun, Turn, Handling
<1>5. /\ Len(got) \in Nat /\ need \in Nat /\ Len(got) + need = HeaderSize /\ Len(input) \in Nat
  BY TurnFacts, Constants, <1>2 DEF TypeOK
<1>6. PICK l \in Nat : l = Length(sent[Turn]) /\ HeaderSize <= l
  <2>1. sent[Turn] \in Requests
    BY <1>4 DEF TypeOK
  <2> QED BY <2>1, LengthFacts
<1>7. \A j \in 1 .. Len(got') : got'[j] = HeaderByte(Turn, j)
  <2> SUFFICES ASSUME NEW j \in 1 .. Len(got') PROVE got'[j] = HeaderByte(Turn, j)
    OBVIOUS
  <2>1. CASE j <= Len(got)
    <3>1. j \in 1 .. Len(got)
      BY <2>1, <1>1, <1>5
    <3> QED BY <3>1, <1>1, <1>3 DEF Begun
  <2>2. CASE j > Len(got)
    <3>1. j - Len(got) \in 1 .. n /\ j - Len(got) \in 1 .. need /\ Len(got) + (j - Len(got)) = j
      BY <2>2, <1>1, <1>5
    <3>2. got'[j] = input[j - Len(got)]
      BY <3>1, <1>1
    <3>3. input[j - Len(got)] = HeaderByte(Turn, j)
      BY <3>1, <1>3 DEF Begun
    <3> QED BY <3>2, <3>3
  <2> QED BY <2>1, <2>2, <1>5, <1>1
<1>8. got' = Bytes(Turn, "header", Len(got'))
  BY <1>1, <1>5, <1>7, BytesEqual
<1>9. \A h \in 1 .. need' : input'[h] = HeaderByte(Turn, Len(got') + h)
  <2> SUFFICES ASSUME NEW h \in 1 .. need' PROVE input'[h] = HeaderByte(Turn, Len(got') + h)
    OBVIOUS
  <2>1. n + h \in 1 .. need /\ Len(got) + (n + h) = Len(got') + h
    BY <1>1, <1>2, <1>5
  <2>2. input[n + h] = HeaderByte(Turn, Len(got') + h)
    BY <2>1, <1>3 DEF Begun
  <2>3. l - Len(got) <= Len(input)
    BY <1>3, <1>6 DEF Begun, Aligned
  <2>4. h \in 1 .. Len(input) - n
    <3>1. n + h <= need /\ need <= l - Len(got) /\ n \in Nat /\ h \in Nat \ {0}
      BY <2>1, <1>1, <1>5, <1>6
    <3> QED BY <3>1, <2>3, <1>5, <1>6
  <2> QED BY <2>2, <2>4, <1>1
<1>10. PICK a \in Nat : a = l - Len(got') /\ a + n = l - Len(got)
  <2>1. Len(got) + n <= HeaderSize /\ HeaderSize \in Nat /\ n \in Nat
    BY <1>1, <1>5, Constants
  <2>2. l - (Len(got) + n) \in Nat
    BY <2>1, <1>5, <1>6
  <2>3. Len(got') = Len(got) + n
    BY <1>1
  <2> QED BY <2>1, <2>2, <2>3, <1>5, <1>6
<1>14. /\ a <= Len(input')
       /\ IF a = Len(input') THEN Turn = Len(sent) ELSE input'[a + 1] = HeaderByte(Turn + 1, 1)
  <2>1. /\ a + n <= Len(input)
        /\ IF a + n = Len(input) THEN Turn = Len(sent) ELSE input[a + n + 1] = HeaderByte(Turn + 1, 1)
    BY <1>3, <1>6, <1>10 DEF Begun, Aligned
  <2>4. a <= Len(input')
    BY <2>1, <1>1, <1>5
  <2>5. CASE a = Len(input')
    BY <2>1, <2>5, <1>1, <1>5
  <2>6. CASE a # Len(input')
    <3>1. a + 1 \in 1 .. Len(input) - n /\ a + n # Len(input)
      <4>1. n \in Nat /\ Len(input') = Len(input) - n
        BY <1>1
      <4> QED BY <4>1, <2>4, <2>6, <1>5
    <3>2. input'[a + 1] = input[n + (a + 1)] /\ n + (a + 1) = a + n + 1
      <4>1. input'[a + 1] = input[n + (a + 1)]
        BY <3>1, <1>1
      <4>2. n \in Nat
        BY <1>1
      <4> QED BY <4>1, <4>2
    <3>3. input'[a + 1] = HeaderByte(Turn + 1, 1)
      BY <3>1, <3>2, <2>1
    <3> QED BY <3>3, <2>4, <2>6
  <2> QED BY <2>5, <2>6
<1>11. \A i \in 1 .. Len(answers') : answers'[i].to = i
  BY <1>2 DEF StepInv
<1>12. l = Length(sent'[Turn'])
  BY <1>2, <1>4, <1>6
<1>13. Turn' <= Len(sent')
  BY <1>2, <1>4, TurnFacts
<1>15. Aligned(Turn, Length(sent[Turn]) - Len(got))'
  BY <1>2, <1>4, <1>10, <1>12, <1>14 DEF Aligned
<1> QED BY <1>4, <1>8, <1>9, <1>11, <1>13, <1>15 DEF StepInv

LEMMA ReadUnitStep ==
  ASSUME TypeOK, HeldInv, HandlerInv, StepInv, NEW n \in 1 .. need, ReadSome(n), unit # "header"
  PROVE  StepInv'
<1>1. /\ n \in Nat \ {0} /\ n <= need /\ n <= Len(input) /\ Len(input') = Len(input) - n
      /\ \A j \in 1 .. Len(input) - n : input'[j] = input[n + j]
  BY ReadFacts
<1>2. /\ pc = "read" /\ pc' = pc /\ unit' = unit /\ need' = need - n /\ answers' = answers /\ sent' = sent
      /\ cur' = cur /\ todo' = todo
  BY DEF ReadSome, stream
<1>3. Handling /\ Turn' = Turn /\ Request' = Request
  BY <1>2 DEF Handling, Turn, Request
<1>4. cur = Turn /\ Aligned(cur, Left) /\ need \in Nat /\ todo \in Nat /\ Request \in Requests /\ unit \in Parts
  BY <1>3, <1>2, RequestTyped DEF StepInv, TypeOK, Parts
<1>5. PICK t \in Nat, q \in Nat, v \in Nat :
        t = todo * (1 + TagSize) /\ q = Request.ntags * (1 + TagSize) /\ v = Request.vlen
  BY <1>4, TagsAre, Constants
<1>6. PICK a \in Nat : Left = a /\ Left' = a - n /\ n <= a
  <2>1. TagSize \in Nat /\ n \in Nat /\ n <= need
    BY <1>1, Constants
  <2>2. CASE unit = "key"
    BY <2>1, <2>2, <1>2, <1>3, <1>4, <1>5 DEF Left
  <2>3. CASE unit = "tag_size"
    BY <2>1, <2>3, <1>2, <1>3, <1>4, <1>5 DEF Left
  <2>4. CASE unit = "tag"
    BY <2>1, <2>4, <1>2, <1>3, <1>4, <1>5 DEF Left
  <2>5. CASE unit = "value"
    BY <2>1, <2>5, <1>2, <1>3, <1>4, <1>5 DEF Left
  <2> QED BY <2>2, <2>3, <2>4, <2>5, <1>4 DEF Parts
<1>7. PICK b \in Nat : b = a - n /\ a = b + n
  BY <1>1, <1>6
<1>8. /\ a <= Len(input)
      /\ IF a = Len(input) THEN cur = Len(sent) ELSE input[a + 1] = HeaderByte(cur + 1, 1)
  BY <1>4, <1>6 DEF Aligned
<1>9. Len(input) \in Nat
  BY TurnFacts
<1>10. /\ b <= Len(input')
       /\ IF b = Len(input') THEN cur = Len(sent) ELSE input'[b + 1] = HeaderByte(cur + 1, 1)
  <2>1. b <= Len(input')
    BY <1>1, <1>7, <1>8, <1>9
  <2>2. CASE b = Len(input')
    BY <2>2, <1>1, <1>7, <1>8, <1>9
  <2>3. CASE b # Len(input')
    <3>0. Len(input') = Len(input) - n /\ n \in Nat
      BY <1>1
    <3>1. b + 1 \in 1 .. Len(input) - n /\ a # Len(input) /\ n + (b + 1) = a + 1
      BY <3>0, <2>1, <2>3, <1>6, <1>7, <1>9
    <3> QED BY <3>1, <2>1, <2>3, <1>1, <1>8
  <2> QED BY <2>2, <2>3
<1>11. Aligned(cur, Left)'
  BY <1>2, <1>6, <1>7, <1>10 DEF Aligned
<1>12. ~Reading("header")'
  BY <1>2 DEF Reading
<1> QED BY <1>2, <1>3, <1>4, <1>11, <1>12 DEF StepInv

(* What is sent comes behind what is there. *)
LEMMA AlignedSend ==
  ASSUME TypeOK, HeldInv, NEW r \in Requests, Send(r), NEW k \in Nat, NEW left \in Nat, Aligned(k, left)
  PROVE  Aligned(k, left)'
<1>1. /\ Len(sent) \in Nat /\ Len(input) \in Nat /\ Len(sent') = Len(sent) + 1
      /\ Len(input') = Len(input) + Length(r) /\ Length(r) \in Nat /\ Length(r) >= HeaderSize
      /\ HeaderSize \in Nat \ {0}
      /\ \A j \in 1 .. Len(input) : input'[j] = input[j]
  BY SendFacts, LengthFacts, TurnFacts, Constants
<1>2. input'[Len(input) + 1] = HeaderByte(Len(sent) + 1, 1)
  <2>1. 1 \in 1 .. HeaderSize
    BY <1>1
  <2> QED BY <2>1, SendFacts
<1>3. left <= Len(input) /\ left < Len(input')
  BY <1>1 DEF Aligned
<1>4. CASE left = Len(input)
  BY <1>1, <1>2, <1>3, <1>4 DEF Aligned
<1>5. CASE left # Len(input)
  <2>1. left + 1 \in 1 .. Len(input)
    BY <1>1, <1>3, <1>5
  <2> QED BY <2>1, <1>1, <1>3, <1>5 DEF Aligned
<1> QED BY <1>4, <1>5

LEMMA LeftTyped ==
  ASSUME TypeOK, HandlerInv, Handling
  PROVE  Left \in Nat
<1>1. CASE pc = "read" \/ pc = "apply"
  <2>1. cur > 0 /\ Request \in Requests /\ need \in Nat /\ todo \in Nat
    BY <1>1, RequestTyped DEF HandlerInv, TypeOK, Handling
  <2>2. todo * (1 + TagSize) \in Nat /\ Request.ntags * (1 + TagSize) \in Nat /\ Request.vlen \in Nat /\ TagSize \in Nat
    BY <2>1, TagsAre, Constants
  <2>3. PICK t \in Nat, q \in Nat, v \in Nat :
          t = todo * (1 + TagSize) /\ q = Request.ntags * (1 + TagSize) /\ v = Request.vlen
    BY <2>2
  <2>4. TagSize \in Nat
    BY <2>2
  <2> QED BY <2>1, <2>3, <2>4 DEF Left
<1>2. CASE pc = "respond" \/ pc = "payload"
  BY <1>2 DEF Left
<1> QED BY <1>1, <1>2 DEF Handling

LEMMA SendStep ==
  ASSUME TypeOK, HeldInv, HandlerInv, StepInv, NEW r \in Requests, Send(r)
  PROVE  StepInv'
<1>1. /\ pc' = pc /\ unit' = unit /\ need' = need /\ cur' = cur /\ todo' = todo /\ got' = got
      /\ answers' = answers
  BY DEF Send, reader
<1>2. /\ \A i \in 1 .. Len(sent) : sent'[i] = sent[i]
      /\ \A j \in 1 .. Len(input) : input'[j] = input[j]
      /\ Len(sent') = Len(sent) + 1 /\ Len(sent) \in Nat
  BY SendFacts, TurnFacts
<1>3. Turn' = Turn /\ Handling' = Handling /\ Reading("header")' = Reading("header")
  BY <1>1 DEF Turn, Handling, Reading
<1>4. Handling => Left' = Left
  <2> SUFFICES ASSUME Handling PROVE Left' = Left
    OBVIOUS
  <2>1. CASE pc = "read" \/ pc = "apply"
    <3>1. Request' = Request
      BY <2>1, <1>1, <1>2, RequestTyped DEF Handling, Request
    <3> QED BY <3>1, <1>1 DEF Left
  <2>2. CASE pc = "respond" \/ pc = "payload"
    BY <2>2, <1>1 DEF Left
  <2> QED BY <2>1, <2>2 DEF Handling
<1>5. Handling => cur' = Turn' /\ Aligned(cur, Left)'
  <2> SUFFICES ASSUME Handling PROVE cur' = Turn' /\ Aligned(cur, Left)'
    OBVIOUS
  <2>1. PICK k \in Nat, left \in Nat : k = cur /\ left = Left
    <3>1. cur \in Nat
      BY TurnFacts DEF TypeOK
    <3> QED BY <3>1, LeftTyped
  <2>2. Aligned(k, left)'
    BY <2>1, AlignedSend DEF StepInv
  <2> QED BY <2>1, <2>2, <1>1, <1>3, <1>4 DEF StepInv, Aligned
<1>6. Reading("header") /\ got = <<>> => Aligned(Len(answers), 0)'
  <2> SUFFICES ASSUME Reading("header"), got = <<>> PROVE Aligned(Len(answers), 0)'
    OBVIOUS
  <2>1. PICK k \in Nat : k = Len(answers)
    BY TurnFacts
  <2>2. Aligned(k, 0)'
    BY <2>1, AlignedSend DEF StepInv
  <2> QED BY <2>1, <2>2, <1>1 DEF Aligned
<1>7. Reading("header") /\ got # <<>> =>
        /\ Turn <= Len(sent')
        /\ \A h \in 1 .. need : input'[h] = HeaderByte(Turn, Len(got) + h)
        /\ Aligned(Turn, Length(sent[Turn]) - Len(got))'
  <2> SUFFICES ASSUME Reading("header"), got # <<>>
               PROVE  /\ Turn <= Len(sent')
                      /\ \A h \in 1 .. need : input'[h] = HeaderByte(Turn, Len(got) + h)
                      /\ Aligned(Turn, Length(sent[Turn]) - Len(got))'
    OBVIOUS
  <2>1. Begun /\ Len(got) + need = HeaderSize /\ Len(got) \in Nat /\ need \in Nat /\ Turn \in Nat
    BY BegunAfter, TurnFacts, Constants DEF TypeOK, Reading
  <2>2. Turn \in 1 .. Len(sent) /\ sent'[Turn] = sent[Turn] /\ sent[Turn] \in Requests
    BY <2>1, <1>2 DEF Begun, TypeOK
  <2>3. PICK l \in Nat : l = Length(sent[Turn]) /\ HeaderSize <= l
    BY <2>2, LengthFacts
  <2>4. PICK a \in Nat : a = l - Len(got) /\ need <= a
    BY <2>1, <2>3
  <2>5. Aligned(Turn, a)
    BY <2>1, <2>3, <2>4 DEF Begun
  <2>6. PICK k \in Nat : k = Turn
    BY <2>1
  <2>7. Aligned(k, a)' /\ a <= Len(input)
    BY <2>5, <2>6, AlignedSend DEF Aligned
  <2>8. \A h \in 1 .. need : input'[h] = HeaderByte(Turn, Len(got) + h)
    <3> SUFFICES ASSUME NEW h \in 1 .. need PROVE input'[h] = HeaderByte(Turn, Len(got) + h)
      OBVIOUS
    <3>1. h \in 1 .. Len(input)
      BY <2>1, <2>4, <2>7, TurnFacts
    <3> QED BY <3>1, <2>1, <1>2 DEF Begun
  <2>9. Aligned(Turn, Length(sent[Turn]) - Len(got))'
    BY <2>2, <2>3, <2>4, <2>6, <2>7, <1>1, <1>3 DEF Aligned
  <2> QED BY <2>2, <2>8, <2>9, <1>2
<1>8. Reading("header") /\ got # <<>> => got = Bytes(Turn, "header", Len(got))
  BY DEF StepInv
<1>9. \A i \in 1 .. Len(answers') : answers'[i].to = i
  BY <1>1 DEF StepInv
<1> QED BY <1>1, <1>3, <1>5, <1>6, <1>7, <1>8, <1>9 DEF StepInv

(* From one unit to the next: the bytes left of the request are the same.  *)
LEMMA Onward ==
  ASSUME StepInv, Handling, pc # "payload", Handling', pc' # "payload", cur' = cur, Left' = Left,
         sent' = sent, input' = input, answers' = answers
  PROVE  StepInv'
<1>1. Turn' = Turn /\ ~Reading("header")'
  BY DEF Turn, Handling, Reading
<1>2. cur = Turn /\ Aligned(cur, Left)
  BY DEF StepInv
<1>3. Aligned(cur, Left)'
  BY <1>2 DEF Aligned
<1> QED BY <1>1, <1>2, <1>3 DEF StepInv

(* A header has been read: it is that of the request whose turn it is.     *)
LEMMA HeaderRead ==
  ASSUME TypeOK, HeldInv, StepInv, Read("header")
  PROVE  /\ IsHeader /\ got[1].req = Turn /\ Turn \in 1 .. Len(sent)
         /\ Heard = sent[Turn] /\ Heard \in Requests
         /\ Aligned(Turn, Length(Heard) - HeaderSize)
<1>1. Len(got) = HeaderSize /\ HeaderSize \in Nat \ {0} /\ Reading("header")
  BY FirstByte, Constants DEF Read
<1>2. got # <<>>
  BY <1>1
<1>3. Begun
  BY <1>1, <1>2, BegunAfter
<1>4. got[1] = HeaderByte(Turn, 1)
  BY <1>1, <1>3 DEF Begun
<1>5. got[1].req = Turn
  BY <1>4 DEF HeaderByte
<1>6. got = Bytes(Turn, "header", HeaderSize)
  BY <1>1, <1>2 DEF StepInv
<1> QED BY <1>1, <1>3, <1>5, <1>6, FirstByte DEF IsHeader, Heard, Begun

LEMMA Begin ==
  ASSUME TypeOK, HeldInv, StepInv, Read("header"), Handling', pc' # "payload", cur' = got[1].req,
         Left' = Length(Heard) - HeaderSize, sent' = sent, input' = input, answers' = answers
  PROVE  StepInv'
<1>1. Turn' = Turn /\ ~Reading("header")'
  BY DEF Turn, Handling, Reading, Read
<1>2. cur' = Turn /\ Aligned(Turn, Length(Heard) - HeaderSize)
  BY HeaderRead
<1>3. Aligned(cur, Left)'
  BY <1>2 DEF Aligned
<1> QED BY <1>1, <1>2, <1>3 DEF StepInv

(* What the formats leave out of a request. *)
LEMMA Formats ==
  ASSUME NEW r \in Requests
  PROVE  /\ r.klen \in Nat /\ r.ntags \in Nat /\ r.vlen \in Nat
         /\ r.op \in {"clr", "lst", "bad"} => r.klen = 0
         /\ r.op \in {"get", "del", "nfo", "bad"} => r.ntags = 0 /\ r.ntags * (1 + TagSize) = 0
         /\ r.op # "set" => r.vlen = 0
BY FormatAssumption, Constants, LengthFacts

LEMMA LengthIs ==
  ASSUME NEW r \in Requests
  PROVE  Length(r) - HeaderSize = r.klen + r.ntags * (1 + TagSize) + r.vlen
<1>1. PICK h \in Nat, k \in Nat, m \in Nat, v \in Nat :
        h = HeaderSize /\ k = r.klen /\ m = r.ntags * (1 + TagSize) /\ v = r.vlen
  BY Constants, LengthFacts
<1>2. Length(r) = h + k + m + v
  BY <1>1 DEF Length
<1> QED BY <1>1, <1>2

(* n tags and what comes after them. *)
LEMMA NextTagLeft ==
  ASSUME NEW i \in 1 .. Len(sent), sent[i] \in Requests, NEW n \in Nat, NextTag(i, n),
         cur' = i, sent' = sent, Ask("tag_size", 1) \/ pc' = "apply"
  PROVE  Handling' /\ pc' # "payload" /\ Left' = n * (1 + TagSize) + sent[i].vlen
<1>1. PICK v \in Nat : v = sent[i].vlen /\ Request' = sent[i]
  BY Constants DEF Request
<1>2. CASE n > 0
  <2>1. pc' = "read" /\ unit' = "tag_size" /\ need' = 1 /\ todo' = n - 1
    BY <1>2 DEF NextTag, Ask
  <2>2. PICK t \in Nat, T \in Nat : t = (n - 1) * (1 + TagSize) /\ T = TagSize /\ n * (1 + TagSize) = 1 + T + t
    <3>1. n - 1 \in Nat
      BY <1>2
    <3> QED BY <3>1, <1>2, TagsAre, Constants
  <2>3. Left' = 1 + T + t + v
    BY <2>1, <2>2, <1>1 DEF Left
  <2> QED BY <2>1, <2>2, <2>3, <1>1 DEF Handling
<1>3. CASE ~ n > 0
  <2>1. pc' = "apply" /\ n = 0
    BY <1>3 DEF NextTag
  <2>2. n * (1 + TagSize) = 0
    BY <2>1, Constants
  <2>3. Left' = v
    BY <2>1, <1>1 DEF Left
  <2> QED BY <2>1, <2>2, <2>3, <1>1 DEF Handling
<1> QED BY <1>2, <1>3

LEMMA HeaderStep ==
  ASSUME TypeOK, HeldInv, StepInv, Refuse \/ StartKey \/ ServerInfo \/ StartTags
  PROVE  StepInv'
<1>1. Read("header") /\ sent' = sent /\ input' = input /\ answers' = answers
  BY Quiet DEF Handlers, Refuse, StartKey, ServerInfo, StartTags
<1>2. IsHeader /\ Heard \in Requests /\ got[1].req \in 1 .. Len(sent) /\ Heard = sent[got[1].req]
  BY <1>1, HeaderRead
<1>3. cur' = got[1].req
  BY <1>2 DEF Refuse, StartKey, ServerInfo, StartTags
<1>4. PICK k \in Nat, m \in Nat, v \in Nat :
        k = Heard.klen /\ m = Heard.ntags * (1 + TagSize) /\ v = Heard.vlen /\ Length(Heard) - HeaderSize = k + m + v
  <2>1. Heard.klen \in Nat /\ Heard.ntags * (1 + TagSize) \in Nat /\ Heard.vlen \in Nat
    BY <1>2, LengthFacts, Formats
  <2>2. Length(Heard) - HeaderSize = Heard.klen + Heard.ntags * (1 + TagSize) + Heard.vlen
    BY <1>2, LengthIs
  <2> QED BY <2>1, <2>2
<1>5. Request' = Heard
  BY <1>1, <1>2, <1>3 DEF Request
<1>6. Handling' /\ pc' # "payload" /\ Left' = k + m + v
  <2>1. CASE Refuse
    <3>1. pc' = "respond" /\ Heard.op = "bad"
      BY <2>1, <1>2 DEF Refuse, Respond
    <3>2. k = 0 /\ m = 0 /\ v = 0
      BY <3>1, <1>2, <1>4, Formats
    <3> QED BY <3>1, <3>2 DEF Handling, Left
  <2>2. CASE StartKey
    <3>1. pc' = "read" /\ unit' = "key" /\ need' = k
      BY <2>2, <1>4 DEF StartKey, Ask
    <3> QED BY <3>1, <1>4, <1>5 DEF Handling, Left
  <2>3. CASE ServerInfo
    <3>1. pc' = "respond" /\ Heard.op = "nfo" /\ Heard.klen = 0
      BY <2>3 DEF ServerInfo, Respond
    <3>2. k = 0 /\ m = 0 /\ v = 0
      BY <3>1, <1>2, <1>4, Formats
    <3> QED BY <3>1, <3>2 DEF Handling, Left
  <2>4. CASE StartTags
    <3>1. NextTag(got[1].req, Heard.ntags) /\ Heard.op \in {"clr", "lst"}
      BY <2>4 DEF StartTags
    <3>2. k = 0 /\ Heard.ntags \in Nat
      BY <3>1, <1>2, <1>4, Formats
    <3>3. Handling' /\ pc' # "payload" /\ Left' = m + v
      BY <3>1, <3>2, <1>1, <1>2, <1>3, <1>4, NextTagLeft DEF NextTag
    <3> QED BY <3>2, <3>3
  <2> QED BY <2>1, <2>2, <2>3, <2>4
<1> QED BY <1>1, <1>3, <1>4, <1>6, Begin

LEMMA UnitStep ==
  ASSUME TypeOK, HeldInv, HandlerInv, StepInv, ~derailed',
         \/ SetTags \/ ReadTag \/ TagTooBig \/ TagRead \/ Get \/ Del \/ Renew \/ KeyInfo \/ Reserve
         \/ Store \/ Clear \/ List
  PROVE  StepInv' \/ pc' = "closed"
<1> SUFFICES ASSUME pc' # "closed" PROVE StepInv'
  OBVIOUS
<1> DEFINE Keyed == SetTags \/ Get \/ Del \/ Renew \/ KeyInfo
           Tagged == ReadTag \/ TagTooBig \/ TagRead
           Applied == Reserve \/ Clear \/ List
<1>1. sent' = sent /\ input' = input /\ answers' = answers
  BY Quiet DEF Handlers
<1>2. cur' = cur /\ pc \in {"read", "apply"} /\ Handling
  BY DEF SetTags, ReadTag, TagTooBig, TagRead, Get, Del, Renew, KeyInfo, Reserve, Store, Clear, List, reader,
     Read, Reading, Handling
<1>3. cur \in 1 .. Len(sent) /\ Request \in Requests /\ Request = sent[cur] /\ todo \in Nat /\ Request' = Request
  BY <1>1, <1>2, RequestTyped DEF Handling, TypeOK, Request
<1>4. PICK t \in Nat, m \in Nat, v \in Nat, T \in Nat :
        /\ t = todo * (1 + TagSize) /\ m = Request.ntags * (1 + TagSize) /\ v = Request.vlen /\ T = TagSize
  BY <1>3, TagsAre, Formats, Constants
<1>5. Handling' /\ pc' # "payload" /\ Left' = Left
  <2>1. CASE SetTags
    <3>1. Read("key") /\ NextTag(cur, Request.ntags) /\ Request.ntags \in Nat
      BY <2>1, <1>3, Formats DEF SetTags
    <3>2. Left = m + v
      BY <3>1, <1>4 DEF Left, Read, Reading
    <3> QED BY <3>1, <3>2, <1>1, <1>2, <1>3, <1>4, NextTagLeft DEF NextTag
  <2>2. CASE TagRead
    <3>1. Read("tag") /\ NextTag(cur, todo)
      BY <2>2 DEF TagRead
    <3>2. Left = t + v
      BY <3>1, <1>4 DEF Left, Read, Reading
    <3> QED BY <3>1, <3>2, <1>1, <1>2, <1>3, <1>4, NextTagLeft DEF NextTag
  <2>3. CASE ReadTag
    <3>1. Read("tag_size") /\ pc' = "read" /\ unit' = "tag" /\ need' = T /\ todo' = todo
      BY <2>3, <1>4 DEF ReadTag, Ask
    <3> QED BY <3>1, <1>3, <1>4 DEF Left, Handling, Read, Reading
  <2>4. CASE TagTooBig
    BY <2>4 DEF TagTooBig
  <2>5. CASE Get \/ Del \/ KeyInfo
    <3>1. Read("key") /\ pc' = "respond" /\ Request.op \in {"get", "del", "nfo"}
      BY <2>5, <1>2 DEF Get, Del, KeyInfo, Respond, Close
    <3>2. m = 0 /\ v = 0
      BY <3>1, <1>3, <1>4, Formats
    <3> QED BY <3>1, <3>2, <1>4 DEF Left, Handling, Read, Reading
  <2>6. CASE Renew
    <3>1. Read("key") /\ pc' = "respond" /\ ~(Request.ntags + Request.vlen > 0)
      BY <2>6 DEF Renew, Respond
    <3>2. Request.ntags = 0 /\ v = 0
      BY <3>1, <1>3, <1>4, Formats
    <3>3. m = 0
      BY <3>2, <1>3, <1>4, LengthFacts
    <3> QED BY <3>1, <3>2, <3>3, <1>4 DEF Left, Handling, Read, Reading
  <2>7. CASE Reserve
    <3>1. CASE Ask("value", Request.vlen)
      BY <3>1, <2>7, <1>3, <1>4 DEF Reserve, Ask, Left, Handling
    <3>2. CASE Respond("memory") /\ derailed' = (derailed \/ Request.vlen > 0)
      <4>0. ~(Request.vlen > 0)
        BY <3>2
      <4>1. v = 0 /\ pc = "apply" /\ pc' = "respond"
        BY <4>0, <3>2, <2>7, <1>4 DEF Reserve, Respond
      <4> QED BY <4>1, <1>4 DEF Left, Handling
    <3> QED BY <2>7, <3>1, <3>2 DEF Reserve
  <2>8. CASE Store
    BY <2>8 DEF Store, Respond, Left, Handling, Read, Reading
  <2>9. CASE Clear \/ List
    <3>1. pc = "apply" /\ pc' = "respond" /\ Request.op # "set"
      BY <2>9 DEF Clear, List, Respond
    <3>2. v = 0
      BY <3>1, <1>3, <1>4, Formats
    <3> QED BY <3>1, <3>2, <1>4 DEF Left, Handling
  <2> QED BY <2>1, <2>2, <2>3, <2>4, <2>5, <2>6, <2>7, <2>8, <2>9
<1>6. pc # "payload"
  BY <1>2
<1> QED BY <1>1, <1>2, <1>5, <1>6, Onward

LEMMA AnswerStep ==
  ASSUME TypeOK, HeldInv, HandlerInv, StepInv, WriteResponse \/ WritePayload
  PROVE  StepInv'
<1>1. sent' = sent /\ input' = input /\ pc \in {"respond", "payload"} /\ Handling
  BY DEF WriteResponse, WritePayload, stream, Handling
<1>2. cur = Turn /\ Aligned(cur, 0)
  <2>1. Left = 0
    BY <1>1 DEF Left
  <2> QED BY <2>1, <1>1 DEF StepInv
<1>3. answers \in Seq(Answer) /\ Len(answers) \in Nat /\ \A i \in 1 .. Len(answers) : answers[i].to = i
  BY TurnFacts DEF HeldInv, StepInv
<1>4. Len(answers') = cur /\ \A i \in 1 .. Len(answers') : answers'[i].to = i
  <2>1. CASE WriteResponse
    <3>1. PICK n \in Nmemb : answers' = Append(answers, Response(n))
      BY <2>1 DEF WriteResponse
    <3>2. Len(answers) + 1 = cur
      BY <2>1, <1>2 DEF Turn, WriteResponse
    <3>3. Response(n).to = cur
      BY DEF Response
    <3> QED BY <3>1, <3>2, <3>3, <1>3
  <2>2. CASE WritePayload
    <3>1. PICK n \in Nmemb : answers' = [answers EXCEPT ![Len(answers)].body = [of |-> buffer.of, nmemb |-> n]]
      BY <2>2 DEF WritePayload
    <3>2. Len(answers) = cur
      BY <2>2, <1>2 DEF Turn, WritePayload
    <3>3. Len(answers') = Len(answers) /\ DOMAIN answers' = 1 .. Len(answers)
      BY <3>1, <1>3
    <3>4. \A i \in 1 .. Len(answers) : answers[i] \in Answer
      BY <1>3
    <3>5. \A i \in 1 .. Len(answers) : answers'[i].to = answers[i].to
      BY <3>1, <3>4, <1>3 DEF Answer
    <3> QED BY <3>2, <3>3, <3>5, <1>3
  <2> QED BY <2>1, <2>2
<1>5. Aligned(cur, 0) /\ (Aligned(Len(answers'), 0) => Aligned(Len(answers), 0)')
  BY <1>1, <1>2 DEF Aligned
<1>6. CASE NextRequest
  <2>1. pc' = "read" /\ unit' = "header" /\ got' = <<>>
    BY <1>6 DEF NextRequest, Ask
  <2> QED BY <2>1, <1>4, <1>5 DEF StepInv, Handling, Reading
<1>7. CASE pc' = "payload" /\ cur' = cur
  <2>1. Handling' /\ Turn' = cur /\ Left' = 0 /\ ~Reading("header")'
    BY <1>7, <1>4 DEF Handling, Turn, Left, Reading
  <2>2. Aligned(cur, Left)'
    BY <2>1, <1>1, <1>2, <1>7 DEF Aligned
  <2> QED BY <2>1, <2>2, <1>4, <1>7 DEF StepInv
<1> QED BY <1>6, <1>7 DEF WriteResponse, WritePayload, reader

LEMMA InStepStep ==
  ASSUME TypeOK, HeldInv, WholeInv, HandlerInv, pc # "closed" /\ ~derailed => StepInv, [Next]_vars,
         pc' # "closed", ~derailed'
  PROVE  StepInv'
<1>1. CASE UNCHANGED vars
  BY <1>1 DEF vars, reader, stream, StepInv, Handling, Turn, Reading, Aligned, Left, Request
<1>2. CASE Next
  <2>1. ~derailed
    BY <1>2 DEF Next, Worker, Send, HangUp, ReadSome, ReadFails, Refuse, StartKey, ServerInfo, StartTags, SetTags, ReadTag,
       TagTooBig, TagRead, Get, Del, Renew, KeyInfo, Reserve, Store, Clear, List, WriteResponse, WritePayload, WriteFails
  <2>2. pc # "closed"
    BY <1>2 DEF Next, Worker, Send, HangUp, ReadSome, ReadFails, Refuse, StartKey, ServerInfo, StartTags, SetTags, ReadTag,
       TagTooBig, TagRead, Get, Del, Renew, KeyInfo, Reserve, Store, Clear, List, WriteResponse, WritePayload, WriteFails,
       Read, Reading
  <2>3. StepInv
    BY <2>1, <2>2
  <2>4. CASE HangUp
    BY <2>3, <2>4 DEF HangUp, reader, StepInv, Handling, Turn, Reading, Aligned, Left, Request
  <2>5. ~ReadFails /\ ~WriteFails
    BY DEF ReadFails, WriteFails, Close
  <2> QED BY <1>2, <2>3, <2>4, <2>5, SendStep, ReadHeaderStep, ReadUnitStep, HeaderStep, UnitStep, AnswerStep
          DEF Next, Worker
<1> QED BY <1>1, <1>2

LEMMA StepOrderNext ==
  TypeOK' /\ HeldInv' /\ StepInv' => AnswersInOrder'
<1> SUFFICES ASSUME TypeOK', HeldInv', StepInv' PROVE AnswersInOrder'
  OBVIOUS
<1>1. /\ got' \in Seq(Received') /\ input' \in Seq(Received') /\ answers' \in Seq(Answer')
      /\ \A i \in 1 .. Len(answers') : answers'[i].to = i
      /\ Reading("header")' /\ got' = <<>> => Aligned(Len(answers), 0)'
  BY DEF HeldInv, StepInv
<1>2. \A i \in DOMAIN answers' : answers'[i].to = i
  BY <1>1
<1>3. got' \o input' = <<>> => got' = <<>> /\ input' = <<>>
  <2>1. Len(got' \o input') = Len(got') + Len(input') /\ Len(got') \in Nat /\ Len(input') \in Nat
    BY <1>1
  <2> SUFFICES ASSUME got' \o input' = <<>> PROVE got' = <<>> /\ input' = <<>>
    OBVIOUS
  <2>2. Len(got') = 0 /\ Len(input') = 0
    BY <2>1
  <2> QED BY <2>2, <1>1
<1>4. input' = <<>> /\ Aligned(Len(answers), 0)' => Len(answers') = Len(sent')
  BY DEF Aligned
<1> QED BY <1>1, <1>2, <1>3, <1>4 DEF AnswersInOrder

(* A connection that is closed keeps the answers it has. *)
LEMMA OrderStep ==
  ASSUME AnswersInOrder, [Next]_vars, pc' = "closed" \/ derailed'
  PROVE  AnswersInOrder'
<1> SUFFICES ASSUME ~derailed', pc' = "closed" PROVE AnswersInOrder'
  BY DEF AnswersInOrder
<1>1. answers' = answers /\ (derailed' <=> derailed)
  BY DEF vars, reader, Next, Worker, Send, HangUp, ReadSome, ReadFails, Refuse, StartKey, ServerInfo, StartTags, SetTags,
     ReadTag, TagTooBig, TagRead, Get, Del, Renew, KeyInfo, Reserve, Store, Clear, List, WriteResponse, WritePayload,
     WriteFails, Close, Respond, Ask, NextTag, NextRequest
<1> QED BY <1>1 DEF AnswersInOrder, Reading

(***************************************************************************)
(* The theorems.                                                           *)
(***************************************************************************)

LEMMA Initially == Init => IInv
<1> SUFFICES ASSUME Init PROVE IInv
  OBVIOUS
<1>1. TypeOK
  <2>1. sent = <<>> /\ input = <<>> /\ got = <<>> /\ answers = <<>>
    BY DEF Init
  <2>2. Range(answers) = {}
    BY <2>1 DEF Range
  <2>3. Len(sent) = 0 /\ Len(got) = 0 /\ sent \in Seq(Requests)
    BY <2>1
  <2>4. input \in Seq([req : 1 .. MaxRequests, part : {"header", "key", "tag_size", "tag", "value"}, at : Nat])
    BY <2>1
  <2>5. /\ gone = FALSE /\ pc = "read" /\ unit = "header" /\ need = HeaderSize /\ cur = 0 /\ todo = 0 /\ status = "ok"
        /\ buffer = [of |-> 0, nmemb |-> 0] /\ payload = "none" /\ derailed = FALSE
    BY DEF Init
  <2>6. /\ Len(sent) <= MaxRequests /\ HeaderSize \in Nat /\ cur \in 0 .. Len(sent)
        /\ Len(got) = HeaderSize - need
    BY <2>3, <2>5, Constants
  <2>7. buffer \in [of : 0 .. Len(sent), nmemb : Nat]
    BY <2>3, <2>5
  <2> QED BY <2>2, <2>3, <2>4, <2>5, <2>6, <2>7 DEF TypeOK
<1>0. HeldInv
  BY Constants DEF Init, HeldInv
<1>2. WholeInv /\ HandlerInv /\ FreshBody
  BY DEF Init, WholeInv, HandlerInv, Handling, FreshBody
<1>3. StepInv
  BY DEF Init, StepInv, Handling, Aligned
<1>4. AnswersInOrder
  BY DEF Init, AnswersInOrder
<1> QED BY <1>0, <1>1, <1>2, <1>3, <1>4 DEF IInv

LEMMA Inductive == IInv /\ [Next]_vars => IInv'
<1> SUFFICES ASSUME IInv, [Next]_vars PROVE IInv'
  OBVIOUS
<1>1. TypeOK /\ HeldInv /\ WholeInv /\ HandlerInv /\ FreshBody /\ AnswersInOrder /\ (pc # "closed" /\ ~derailed => StepInv)
  BY DEF IInv
<1>2. TypeOK' /\ HeldInv'
  BY <1>1, TypeStep
<1>3. HandlerInv' /\ FreshBody'
  BY <1>1, HandlerStep
<1>4. WholeInv'
  BY <1>1, WholeStep
<1>5. pc' # "closed" /\ ~derailed' => StepInv'
  BY <1>1, InStepStep
<1>6. AnswersInOrder'
  BY <1>1, <1>2, <1>5, OrderStep, StepOrderNext
<1> QED BY <1>2, <1>3, <1>4, <1>5, <1>6 DEF IInv

(* Requests are read as they were written (server.c:343-369): what the     *)
(* worker holds, the bytes left of its request and the headers behind them *)
(* agree in every reachable state.                                         *)
THEOREM Invariance == Spec => []IInv
<1> QED BY Initially, Inductive, PTL DEF Spec

(* Whatever a client sends ahead, and however the reads cut it up, what    *)
(* the worker keeps of a connection (server.c:228-301) stays in range.     *)
THEOREM TypeCorrect == Spec => []TypeOK
<1>1. IInv => TypeOK
  BY DEF IInv
<1> QED BY <1>1, Invariance, PTL

(* A header is read where a request begins, for all requests that the      *)
(* formats of types.h allow, unless a handler has left bytes of one unread *)
(* (controller.c:93, 209, 237).                                            *)
THEOREM ReadsHeaders == Spec => []InStep
<1>1. IInv => InStep
  <2> SUFFICES ASSUME IInv, ~derailed, Reading("header"), got \o input # <<>>
               PROVE  (got \o input)[1].part = "header" /\ (got \o input)[1].at = 1
    BY DEF InStep
  <2>1. TypeOK /\ HeldInv /\ WholeInv /\ StepInv
    BY DEF IInv, Reading
  <2>2. got \in Seq(Received) /\ input \in Seq(Received)
    BY <2>1 DEF HeldInv
  <2>3. CASE got = <<>>
    <3>1. (got \o input)[1] = input[1] /\ Len(input) > 0
      BY <2>2, <2>3
    <3>2. input[1] = HeaderByte(Len(answers) + 1, 1)
      BY <3>1, <2>1, <2>3 DEF StepInv, Aligned
    <3> QED BY <3>1, <3>2 DEF HeaderByte
  <2>4. CASE got # <<>>
    <3>1. (got \o input)[1] = got[1] /\ Len(got) > 0
      BY <2>2, <2>4
    <3>2. got[1] = HeaderByte(Turn, 1)
      BY <3>1, <2>1, <2>2, <2>4, BegunAfter DEF Begun
    <3> QED BY <3>1, <3>2 DEF HeaderByte
  <2> QED BY <2>3, <2>4
<1> QED BY <1>1, Invariance, PTL

(* The n-th answer is that to the n-th request, and when the input is used *)
(* up no request is left without (server.c:228-301).                       *)
THEOREM OrderlyAnswers == Spec => []AnswersInOrder
<1>1. IInv => AnswersInOrder
  BY DEF IInv
<1> QED BY <1>1, Invariance, PTL

(* No successful answer has a body of another request, or of another size  *)
(* than it announces, although all share one buffer (server.c:268-285).    *)
THEOREM BodiesAreFresh == Spec => []FreshBody
<1>1. IInv => FreshBody
  BY DEF IInv
<1> QED BY <1>1, Invariance, PTL
=============================================================================
