------------------------ MODULE OpenBridgeUplinkProofs ------------------------
(***************************************************************************)
(* Theorems about OpenBridgeUplink, for every prebuffer, set of templates, *)
(* superframe, modulus and hang: its types, that the wire implements       *)
(* DmrStream, and that a stopped runtime leaves no stream open.            *)
(*                                                                         *)
(* The wire property is not inductive: a packet follows from the one sent  *)
(* before it, but it was computed earlier, from the builder.  ChainInv     *)
(* says that the packets still in `out` follow one another, from the last  *)
(* one on the wire, and TailInv that the builder, the held-back blocks and *)
(* the count of blocks heard agree with the last packet computed.          *)
(***************************************************************************)
EXTENDS OpenBridgeUplink, Integers, TLAPS

(* Arithmetic of the counters that wrap.                                   *)
LEMMA Quotient ==
  \A n \in Nat : \A m \in Nat \ {0} :
    \E q \in Nat : \E r \in 0 .. m - 1 : n % m = r /\ n = (m * q) + r
  <1> SUFFICES ASSUME NEW n \in Nat, NEW m \in Nat \ {0}
               PROVE  \E q \in Nat : \E r \in 0 .. m - 1 : n % m = r /\ n = (m * q) + r
    OBVIOUS
  <1>1. n % m \in 0 .. m - 1 /\ n \div m \in Nat /\ n = (m * (n \div m)) + (n % m)
    OBVIOUS
  <1>2. QED BY <1>1

LEMMA ModSmall == \A m \in Nat \ {0} : \A r \in 0 .. m - 1 : r % m = r
  BY SMT

LEMMA Multiples ==
  \A m \in Nat \ {0} : \A d \in Int : /\ d >= 1 => m * d >= m
                                      /\ d <= 0 - 1 => m * d <= 0 - m
  BY SMT

LEMMA Remainder ==
  \A m \in Nat \ {0} : \A q \in Nat : \A r \in 0 .. m - 1 : ((m * q) + r) % m = r
  <1> SUFFICES ASSUME NEW m \in Nat \ {0}, NEW q \in Nat, NEW r \in 0 .. m - 1
               PROVE  ((m * q) + r) % m = r
    OBVIOUS
  <1>1. (m * q) + r \in Nat
    OBVIOUS
  <1>2. PICK p \in Nat, s \in 0 .. m - 1 :
               ((m * q) + r) % m = s /\ (m * q) + r = (m * p) + s
    BY <1>1, Quotient
  <1>3. m * (q - p) = s - r
    BY <1>2
  <1>4. q - p = 0
    BY <1>3, Multiples
  <1>5. QED BY <1>2, <1>3, <1>4

(* Counting one on before or after taking the remainder is the same.       *)
LEMMA ModSucc == \A n \in Nat : \A m \in Nat \ {0} : (n + 1) % m = ((n % m) + 1) % m
  <1> SUFFICES ASSUME NEW n \in Nat, NEW m \in Nat \ {0}
               PROVE  (n + 1) % m = ((n % m) + 1) % m
    OBVIOUS
  <1>1. PICK q \in Nat, r \in 0 .. m - 1 : n % m = r /\ n = (m * q) + r
    BY Quotient
  <1>2. CASE r + 1 < m
    <2>1. n + 1 = (m * q) + (r + 1) /\ r + 1 \in 0 .. m - 1
      BY <1>1, <1>2
    <2>2. (n + 1) % m = r + 1
      BY <2>1, Remainder
    <2>3. (r + 1) % m = r + 1
      BY <2>1, ModSmall
    <2>4. QED BY <1>1, <2>2, <2>3
  <1>3. CASE r + 1 = m
    <2>1. n + 1 = (m * (q + 1)) + 0 /\ q + 1 \in Nat /\ 0 \in 0 .. m - 1
      BY <1>1, <1>3
    <2>2. (n + 1) % m = 0
      BY <2>1, Remainder
    <2>3. (r + 1) % m = 0
      BY <1>3, SMT
    <2>4. QED BY <1>1, <2>2, <2>3
  <1>4. QED BY <1>2, <1>3

LEMMA Wraps ==
  /\ \A n \in Nat : n % SeqMod \in 0 .. SeqMod - 1 /\ n % Superframe \in 0 .. Superframe - 1
  /\ \A n \in Nat : (n + 1) % SeqMod = ((n % SeqMod) + 1) % SeqMod
  /\ \A n \in Nat : (n + 1) % Superframe = ((n % Superframe) + 1) % Superframe
  /\ \A r \in 0 .. SeqMod - 1 : r % SeqMod = r
  /\ \A r \in 0 .. Superframe - 1 : r % Superframe = r
  <1>1. SeqMod \in Nat \ {0} /\ Superframe \in Nat \ {0}
    BY UplinkAssumption
  <1>2. \A n \in Nat : n % SeqMod \in 0 .. SeqMod - 1 /\ n % Superframe \in 0 .. Superframe - 1
    BY <1>1, Quotient
  <1>3. QED BY <1>1, <1>2, ModSucc, ModSmall
-----------------------------------------------------------------------------
(* What DmrStream says of template t: q may be sent after p, and p leaves  *)
(* no stream open.                                                         *)
Cut(t) == INSTANCE DmrStream WITH template <- t
Copied(t, p) == Cut(t)!Copied(p)
Follows(t, p, q) == Cut(t)!Copied(q) /\ (Cut(t)!Begins(p, q) \/ Cut(t)!Continues(p, q))
Closed(t, p) == Cut(t)!Closed(p)

(* The last packet computed, sent or not.                                  *)
Final == IF out = <<>> THEN wire ELSE out[Len(out)]

ChainInv ==
  /\ wire.kind # "none" => Copied(template, wire)
  /\ out # <<>> => /\ Follows(template, wire, out[1])
                   /\ \A i \in 1 .. Len(out) - 1 : Follows(template, out[i], out[i + 1])

(* p is a voice burst and builder b goes on after it, with n blocks heard. *)
Carries(p, b, n) ==
  /\ p.kind = "voice" /\ p.stream = b.stream /\ p.src = b.src
  /\ b.seq = (p.seq + 1) % SeqMod
  /\ b.voiceIndex = (p.pos + 1) % Superframe
  /\ n = (p.heard + 1) % Superframe

(* Builder b has sent nothing, the last stream p is closed, and the held   *)
(* blocks are the first n of b's stream.                                   *)
Fresh(t, p, b, held, n) ==
  /\ Closed(t, p) /\ p.stream # b.stream
  /\ b.seq = 0 /\ b.voiceIndex = 0
  /\ n = Len(held) % Superframe
  /\ \A i \in 1 .. Len(held) : held[i] = (i - 1) % Superframe

TailInv ==
  /\ open /\ builder.started => buffered = <<>> /\ Carries(Final, builder, heard)
  /\ open /\ ~builder.started => out = <<>> /\ Fresh(template, wire, builder, buffered, heard)
  /\ ~open => Closed(template, Final)
  /\ done => ~open

IInv == TypeOK /\ ChainInv /\ TailInv
-----------------------------------------------------------------------------
LEMMA TemplateType ==
  ASSUME template \in Templates
  PROVE  /\ template.prefix \in Seq(BOOLEAN) /\ Len(template.prefix) \in Nat
         /\ template.suffix \in {<<>>, <<TRUE>>, <<FALSE>>}
  <1>1. template \in [prefix : Seq(BOOLEAN), suffix : {<<>>, <<TRUE>>, <<FALSE>>}]
    BY UplinkAssumption
  <1>2. template.prefix \in Seq(BOOLEAN) /\ template.suffix \in {<<>>, <<TRUE>>, <<FALSE>>}
    BY <1>1, Zenon
  <1>3. \A s \in Seq(BOOLEAN) : Len(s) \in Nat
    OBVIOUS
  <1>4. QED BY <1>2, <1>3, Zenon

LEMMA PrefixType ==
  ASSUME template \in Templates, NEW b \in Builders
  PROVE  Prefix(b) \in Seq(BOOLEAN) /\ Len(Prefix(b)) \in Nat
  <1>1. /\ template.prefix \in Seq(BOOLEAN) /\ <<>> \in Seq(BOOLEAN)
        /\ \A s \in Seq(BOOLEAN) : Len(s) \in Nat
    BY TemplateType
  <1>2. Prefix(b) \in {<<>>, template.prefix}
    BY DEF Prefix
  <1>3. QED BY <1>1, <1>2, Zenon

(* What the loop computes for a voice block: Forward, in a stream that has *)
(* started and in one that has not.                                        *)
LEMMA RewriteType ==
  ASSUME NEW b \in Builders, NEW kind \in {"prefix", "voice", "close"}, NEW ends \in BOOLEAN,
         NEW i \in Nat, NEW pos \in Nat, NEW block \in 0 .. Superframe - 1
  PROVE  Rewrite(b, kind, ends, i, pos, block) \in Packets
  <1>1. b.seq + i \in Nat
    BY UplinkAssumption DEF Builders
  <1>2. (b.seq + i) % SeqMod \in 0 .. SeqMod - 1
    BY <1>1, Wraps
  <1>3. QED BY <1>2 DEF Rewrite, Packets, Builders

LEMMA ForwardTypes ==
  ASSUME TypeOK, NEW b \in Builders, NEW block \in Blocks,
         NEW held \in Seq(Blocks), Len(held) < Prebuffer,
         Forward(b, block, held)
  PROVE  /\ heard' \in 0 .. Superframe - 1
         /\ buffered' \in Seq(Blocks) /\ Len(buffered') < Prebuffer
         /\ builder' \in Builders
         /\ out' \in Seq(Packets)
  <1> USE UplinkAssumption
  <1> DEFINE n == Len(Prefix(b))
  <1>1. heard' \in 0 .. Superframe - 1
    <2>1. block + 1 \in Nat
      BY DEF Blocks
    <2>2. heard' = (block + 1) % Superframe
      BY DEF Forward
    <2>3. QED BY <2>1, <2>2, Wraps
  <1>2. Append(held, block) \in Seq(Blocks) /\ Len(Append(held, block)) = Len(held) + 1
    OBVIOUS
  <1>3. /\ Prefix(b) \in Seq(BOOLEAN) /\ n \in Nat
        /\ b.seq \in Nat /\ b.voiceIndex \in Nat
    BY PrefixType DEF TypeOK, Builders
  <1>4. \A bs \in Seq(Blocks) : Flushed(b, bs) \in Builders
    <2> SUFFICES ASSUME NEW bs \in Seq(Blocks) PROVE Flushed(b, bs) \in Builders
      OBVIOUS
    <2>1. b.seq + n + Len(bs) \in Nat /\ b.voiceIndex + Len(bs) \in Nat
      BY <1>3
    <2>2. /\ (b.seq + n + Len(bs)) % SeqMod \in 0 .. SeqMod - 1
          /\ (b.voiceIndex + Len(bs)) % Superframe \in 0 .. Superframe - 1
      BY <2>1, Wraps
    <2>3. QED BY <2>2 DEF Flushed, Builders
  <1>5. \A i \in Nat : \A e \in BOOLEAN : Rewrite(b, "prefix", e, i, i, 0) \in Packets
    <2>1. 0 \in 0 .. Superframe - 1
      OBVIOUS
    <2>2. QED BY <2>1, RewriteType
  <1>6. \A j \in Nat : \A bl \in Blocks : Voice(b, j, bl) \in Packets
    <2> SUFFICES ASSUME NEW j \in Nat, NEW bl \in Blocks PROVE Voice(b, j, bl) \in Packets
      OBVIOUS
    <2>1. n + j \in Nat /\ b.voiceIndex + j \in Nat
      BY <1>3
    <2>2. (b.voiceIndex + j) % Superframe \in 0 .. Superframe - 1
      BY <2>1, Wraps
    <2>3. (b.voiceIndex + j) % Superframe \in Nat /\ bl \in 0 .. Superframe - 1
      BY <2>2 DEF Blocks
    <2>4. QED BY <2>1, <2>3, RewriteType DEF Voice
  <1>7. \A bs \in Seq(Blocks) : Flush(b, bs) \in Seq(Packets)
    <2> SUFFICES ASSUME NEW bs \in Seq(Blocks) PROVE Flush(b, bs) \in Seq(Packets)
      OBVIOUS
    <2>1. ASSUME NEW i \in 1 .. n + Len(bs)
          PROVE  (IF i <= n THEN Rewrite(b, "prefix", Prefix(b)[i], i - 1, i - 1, 0)
                  ELSE Voice(b, i - 1 - n, bs[i - n])) \in Packets
      <3>1. CASE i <= n
        <4>1. i - 1 \in Nat /\ Prefix(b)[i] \in BOOLEAN
          BY <1>3, <3>1
        <4>2. QED BY <1>5, <3>1, <4>1
      <3>2. CASE ~(i <= n)
        <4>1. i - 1 - n \in Nat /\ i - n \in 1 .. Len(bs)
          BY <1>3, <3>2
        <4>2. bs[i - n] \in Blocks
          BY <4>1
        <4>3. QED BY <1>6, <3>2, <4>1, <4>2
      <3>3. QED BY <3>1, <3>2
    <2>2. Flush(b, bs) \in [1 .. n + Len(bs) -> Packets]
      BY <2>1 DEF Flush
    <2>3. n + Len(bs) \in Nat
      BY <1>3
    <2>4. QED BY <2>2, <2>3
  <1>8. <<>> \in Seq(Blocks) /\ <<>> \in Seq(Packets) /\ Len(<<>>) = 0
    OBVIOUS
  <1>9. CASE ~b.started /\ Len(held) + 1 < Prebuffer
    BY <1>1, <1>2, <1>8, <1>9 DEF Forward
  <1>10. CASE ~(~b.started /\ Len(held) + 1 < Prebuffer)
    <2>1. /\ buffered' = <<>>
          /\ builder' = Flushed(b, Append(held, block))
          /\ out' = Flush(b, Append(held, block))
      BY <1>10 DEF Forward
    <2>2. Len(<<>>) < Prebuffer
      BY <1>8
    <2>3. QED BY <1>1, <1>2, <1>4, <1>7, <1>8, <2>1, <2>2
  <1>11. QED BY <1>9, <1>10

(* The first packets of a stream: nothing while the prebuffer fills, then  *)
(* the prefix and the held-back bursts, which follow one another.          *)
LEMMA FlushChain ==
  ASSUME template \in Templates,
         NEW b \in Builders, ~b.started, b.seq = 0, b.voiceIndex = 0,
         NEW bs \in Seq(Blocks), Len(bs) > 0,
         \A i \in 1 .. Len(bs) : bs[i] = (i - 1) % Superframe,
         NEW p \in Packets, Closed(template, p), p.stream # b.stream
  PROVE  LET f == Flush(b, bs) IN
         /\ f # <<>>
         /\ Follows(template, p, f[1])
         /\ \A i \in 1 .. Len(f) - 1 : Follows(template, f[i], f[i + 1])
         /\ Carries(f[Len(f)], Flushed(b, bs), Len(bs) % Superframe)
  <1> USE UplinkAssumption
  <1> DEFINE f == Flush(b, bs)
             n == Len(template.prefix)
             m == n + Len(bs)
  <1>1. /\ Prefix(b) = template.prefix /\ n \in Nat /\ m \in Nat /\ m > 0 /\ m - 1 \in Nat
        /\ Len(bs) - 1 \in Nat
    <2>1. n \in Nat /\ Len(bs) \in Nat
      BY TemplateType
    <2>2. QED BY <2>1 DEF Prefix
  <1>2. f = [i \in 1 .. m |-> IF i <= n THEN Rewrite(b, "prefix", template.prefix[i], i - 1, i - 1, 0)
                              ELSE Voice(b, i - 1 - n, bs[i - n])]
    BY <1>1 DEF Flush
  <1> HIDE DEF f, n, m
  <1>3. f # <<>> /\ Len(f) = m
    BY <1>1, <1>2
  <1>4. ASSUME NEW i \in 1 .. m
        PROVE  /\ f[i].stream = b.stream /\ f[i].src = b.src
               /\ f[i].seq = (i - 1) % SeqMod
               /\ i <= n => /\ f[i].kind = "prefix" /\ f[i].pos = i - 1
                            /\ f[i].ends = template.prefix[i]
               /\ i > n => /\ f[i].kind = "voice" /\ f[i].ends = FALSE
                           /\ f[i].pos = (i - 1 - n) % Superframe
                           /\ f[i].heard = (i - 1 - n) % Superframe
    <2>1. 0 + (i - 1) = i - 1
      BY <1>1
    <2>2. CASE i <= n
      <3>1. f[i] = Rewrite(b, "prefix", template.prefix[i], i - 1, i - 1, 0)
        BY <1>2, <2>2
      <3>2. ~(i > n)
        BY <1>1, <2>2
      <3>3. QED BY <2>1, <2>2, <3>1, <3>2 DEF Rewrite
    <2>3. CASE ~(i <= n)
      <3>1. f[i] = Voice(b, i - 1 - n, bs[i - n])
        BY <1>2, <2>3
      <3>2. /\ i - n \in 1 .. Len(bs) /\ i - n - 1 = i - 1 - n
            /\ 0 + (i - 1 - n) = i - 1 - n /\ n + (i - 1 - n) = i - 1
        BY <1>1, <2>3 DEF m
      <3>3. bs[i - n] = (i - 1 - n) % Superframe
        BY <3>2
      <3>4. Len(Prefix(b)) = n
        BY <1>1 DEF n
      <3>5. f[i] = [kind |-> "voice", ends |-> FALSE, stream |-> b.stream, src |-> b.src,
                    seq |-> (b.seq + (n + (i - 1 - n))) % SeqMod,
                    pos |-> (b.voiceIndex + (i - 1 - n)) % Superframe, heard |-> bs[i - n]]
        BY <3>1, <3>4 DEF Voice, Rewrite
      <3>6. /\ b.seq + (n + (i - 1 - n)) = i - 1
            /\ b.voiceIndex + (i - 1 - n) = i - 1 - n
        BY <2>1, <3>2
      <3>7. QED BY <2>3, <3>3, <3>5, <3>6
    <2>4. QED BY <2>2, <2>3
  <1>5. Follows(template, p, f[1])
    <2>1. 1 \in 1 .. m /\ 1 - 1 = 0 /\ 0 + 1 = 1 /\ 0 % SeqMod = 0 /\ 0 % Superframe = 0
      BY <1>1, Wraps
    <2>2. f[1].stream = b.stream /\ f[1].seq = 0
      BY <1>4, <2>1
    <2>3. CASE 1 <= n
      <3>1. f[1].kind = "prefix" /\ f[1].pos = 0 /\ f[1].ends = template.prefix[0 + 1]
        BY <1>4, <2>1, <2>3
      <3>2. 0 < Len(template.prefix)
        BY <1>1, <2>3 DEF n
      <3>3. QED BY <2>2, <3>1, <3>2
                DEF Follows, Closed, Cut!Copied, Cut!Begins, Cut!First
    <2>4. CASE ~(1 <= n)
      <3>1. n = 0 /\ 1 - 1 - n = 0 /\ 1 > n
        BY <1>1, <2>4
      <3>2. f[1].kind = "voice" /\ f[1].pos = 0 /\ f[1].heard = 0 /\ f[1].ends = FALSE
        BY <1>4, <2>1, <3>1
      <3>3. template.prefix = <<>>
        <4>1. \A s \in Seq(BOOLEAN) : Len(s) = 0 => s = <<>>
          OBVIOUS
        <4>2. template.prefix \in Seq(BOOLEAN) /\ Len(template.prefix) = 0
          BY <3>1, TemplateType DEF n
        <4>3. QED BY <4>1, <4>2, Zenon
      <3>4. QED BY <2>2, <3>2, <3>3
                DEF Follows, Closed, Cut!Copied, Cut!Begins, Cut!First
    <2>5. QED BY <2>3, <2>4
  <1>6. ASSUME NEW i \in 1 .. m - 1 PROVE Follows(template, f[i], f[i + 1])
    <2>1. /\ i \in 1 .. m /\ i + 1 \in 1 .. m /\ i - 1 \in Nat
          /\ (i + 1) - 1 = (i - 1) + 1 /\ (i - 1) + 1 = i
      BY <1>1
    <2>2. /\ f[i + 1].stream = f[i].stream /\ f[i + 1].src = f[i].src
          /\ f[i + 1].seq = (f[i].seq + 1) % SeqMod
      <3>1. /\ f[i].stream = b.stream /\ f[i].src = b.src /\ f[i].seq = (i - 1) % SeqMod
            /\ f[i + 1].stream = b.stream /\ f[i + 1].src = b.src
            /\ f[i + 1].seq = ((i - 1) + 1) % SeqMod
        BY <1>4, <2>1
      <3>2. ((i - 1) + 1) % SeqMod = (((i - 1) % SeqMod) + 1) % SeqMod
        BY <2>1, Wraps
      <3>3. QED BY <3>1, <3>2
    <2>3. CASE i + 1 <= n
      <3>1. /\ f[i].kind = "prefix" /\ f[i].pos = i - 1
            /\ f[i + 1].kind = "prefix" /\ f[i + 1].pos = f[i].pos + 1
            /\ f[i + 1].ends = template.prefix[f[i + 1].pos + 1]
            /\ f[i + 1].pos < Len(template.prefix)
        <4>1. i <= n /\ i < n
          BY <1>1, <2>1, <2>3
        <4>2. /\ f[i].kind = "prefix" /\ f[i].pos = i - 1
              /\ f[i + 1].kind = "prefix" /\ f[i + 1].pos = (i + 1) - 1
              /\ f[i + 1].ends = template.prefix[i + 1]
          BY <1>4, <2>1, <2>3, <4>1
        <4>3. (i + 1) - 1 = i
          OBVIOUS
        <4>4. f[i + 1].pos = i /\ f[i].pos + 1 = i
          BY <2>1, <4>2, <4>3
        <4>5. QED BY <4>1, <4>2, <4>4 DEF n
      <3>2. QED BY <2>2, <3>1, Zenon DEF Follows, Cut!Copied, Cut!Continues
    <2>4. CASE i = n
      <3>1. (i + 1) - 1 - n = 0 /\ 0 % Superframe = 0 /\ i <= n /\ i + 1 > n
        BY <1>1, <2>4, Wraps
      <3>2. /\ f[i].kind = "prefix" /\ f[i].pos + 1 = n
            /\ f[i + 1].kind = "voice" /\ f[i + 1].ends = FALSE
            /\ f[i + 1].pos = 0 /\ f[i + 1].heard = 0
        BY <1>4, <2>1, <2>4, <3>1
      <3>3. QED BY <2>2, <3>2, Zenon DEF Follows, Cut!Copied, Cut!Continues, n
    <2>5. CASE i > n
      <3>1. /\ i - 1 - n \in Nat /\ i + 1 > n
            /\ (i + 1) - 1 - n = (i - 1 - n) + 1
        BY <1>1, <2>5
      <3>2. f[i].kind = "voice" /\ f[i + 1].kind = "voice" /\ f[i + 1].ends = FALSE
        BY <1>4, <2>1, <2>5, <3>1
      <3>3. /\ f[i + 1].pos = (f[i].pos + 1) % Superframe
            /\ f[i + 1].heard = (f[i].heard + 1) % Superframe
        <4> DEFINE k == i - 1 - n
        <4>1. /\ f[i].pos = k % Superframe /\ f[i].heard = k % Superframe
              /\ f[i + 1].pos = (k + 1) % Superframe /\ f[i + 1].heard = (k + 1) % Superframe
          BY <1>4, <2>1, <2>5, <3>1
        <4>2. (k + 1) % Superframe = ((k % Superframe) + 1) % Superframe
          BY <3>1, Wraps
        <4>3. QED BY <4>1, <4>2
      <3>4. QED BY <2>2, <3>2, <3>3, Zenon DEF Follows, Cut!Copied, Cut!Continues
    <2>6. QED BY <1>1, <2>1, <2>3, <2>4, <2>5
  <1>7. Carries(f[m], Flushed(b, bs), Len(bs) % Superframe)
    <2>1. /\ m \in 1 .. m /\ m > n /\ m - 1 - n = Len(bs) - 1
          /\ (m - 1) + 1 = m /\ (Len(bs) - 1) + 1 = Len(bs)
      BY <1>1 DEF m
    <2>2. /\ f[m].kind = "voice" /\ f[m].stream = b.stream /\ f[m].src = b.src
          /\ f[m].seq = (m - 1) % SeqMod
          /\ f[m].pos = (Len(bs) - 1) % Superframe
          /\ f[m].heard = (Len(bs) - 1) % Superframe
      BY <1>4, <2>1
    <2>3. m % SeqMod = (f[m].seq + 1) % SeqMod
      BY <1>1, <2>1, <2>2, Wraps
    <2>4. Len(bs) % Superframe = (f[m].pos + 1) % Superframe
      BY <1>1, <2>1, <2>2, Wraps
    <2>5. 0 + n + Len(bs) = m /\ 0 + Len(bs) = Len(bs)
      BY <1>1 DEF m
    <2>6. /\ Flushed(b, bs).stream = b.stream /\ Flushed(b, bs).src = b.src
          /\ Flushed(b, bs).seq = m % SeqMod
          /\ Flushed(b, bs).voiceIndex = Len(bs) % Superframe
      BY <1>1, <2>5 DEF Flushed, Builders, n
    <2>7. QED BY <2>2, <2>3, <2>4, <2>6 DEF Carries
  <1>8. QED BY <1>3, <1>5, <1>6, <1>7 DEF f

(* A packet goes on where the builder is, and the builder moves past it.   *)
LEMMA VoiceChain ==
  ASSUME NEW b \in Builders, b.started, NEW block \in Blocks,
         NEW p \in Packets, Carries(p, b, block)
  PROVE  LET f == Flush(b, <<block>>) IN
         /\ f # <<>>
         /\ Follows(template, p, f[1])
         /\ \A i \in 1 .. Len(f) - 1 : Follows(template, f[i], f[i + 1])
         /\ Carries(f[Len(f)], Flushed(b, <<block>>), (block + 1) % Superframe)
  <1> DEFINE f == Flush(b, <<block>>)
  <1>1. /\ Prefix(b) = <<>> /\ Len(<<>>) = 0 /\ Len(<<block>>) = 1 /\ <<block>>[1] = block
        /\ b.seq \in 0 .. SeqMod - 1 /\ b.voiceIndex \in 0 .. Superframe - 1
        /\ b.seq \in Nat /\ b.voiceIndex \in Nat /\ block \in Nat
    BY UplinkAssumption DEF Prefix, Builders, Blocks
  <1>2. /\ Len(f) = 1 /\ f # <<>> /\ f[1] = Voice(b, 0, block)
    <2>1. \A i \in 1 .. 1 : ~(i <= 0) /\ i - 1 - 0 = 0 /\ i - 0 = 1
      OBVIOUS
    <2>2. f = [i \in 1 .. 1 |-> Voice(b, 0, block)]
      BY <1>1, <2>1 DEF Flush
    <2>3. QED BY <2>2
  <1>3. b.seq + (0 + 0) = b.seq /\ b.voiceIndex + 0 = b.voiceIndex
    BY <1>1
  <1>4. /\ (b.seq + (0 + 0)) % SeqMod = b.seq /\ (b.voiceIndex + 0) % Superframe = b.voiceIndex
    BY <1>1, <1>3, Wraps
  <1> HIDE DEF f
  <1>5. /\ f[1].kind = "voice" /\ f[1].stream = b.stream /\ f[1].src = b.src
        /\ f[1].seq = b.seq /\ f[1].pos = b.voiceIndex /\ f[1].heard = block
        /\ f[1].ends = FALSE
    BY <1>1, <1>2, <1>4 DEF Voice, Rewrite
  <1>6. Follows(template, p, f[1])
    BY <1>5 DEF Follows, Cut!Copied, Cut!Continues, Carries
  <1>7. /\ Flushed(b, <<block>>).stream = b.stream /\ Flushed(b, <<block>>).src = b.src
        /\ Flushed(b, <<block>>).seq = (b.seq + 1) % SeqMod
        /\ Flushed(b, <<block>>).voiceIndex = (b.voiceIndex + 1) % Superframe
    BY <1>1 DEF Flushed
  <1>8. Carries(f[1], Flushed(b, <<block>>), (block + 1) % Superframe)
    BY <1>5, <1>7 DEF Carries
  <1>9. QED BY <1>2, <1>6, <1>8 DEF f

(* Packets computed in one go follow the last packet sent and one another, *)
(* and the builder is left past the last of them.                          *)
Computed ==
  /\ buffered' = <<>> /\ out' # <<>>
  /\ Follows(template, wire, out'[1])
  /\ \A i \in 1 .. Len(out') - 1 : Follows(template, out'[i], out'[i + 1])
  /\ Carries(out'[Len(out')], builder', heard')

LEMMA ForwardStarted ==
  ASSUME wire \in Packets, NEW b \in Builders, b.started, NEW block \in Blocks,
         Carries(wire, b, block), Forward(b, block, <<>>)
  PROVE  builder'.started /\ Computed
  <1>1. Append(<<>>, block) = <<block>>
    OBVIOUS
  <1>2. /\ heard' = (block + 1) % Superframe /\ buffered' = <<>>
        /\ builder' = Flushed(b, <<block>>) /\ out' = Flush(b, <<block>>)
    BY <1>1 DEF Forward
  <1>3. Flushed(b, <<block>>).started
    BY DEF Flushed
  <1>4. QED BY <1>2, <1>3, VoiceChain DEF Computed

LEMMA ForwardFresh ==
  ASSUME template \in Templates, wire \in Packets, NEW b \in Builders, ~b.started, NEW block \in Blocks,
         NEW held \in Seq(Blocks), Fresh(template, wire, b, held, block),
         Forward(b, block, held)
  PROVE  IF builder'.started THEN Computed
         ELSE out' = <<>> /\ Fresh(template, wire, builder', buffered', heard')
  <1> DEFINE bs == Append(held, block)
  <1>1. /\ bs \in Seq(Blocks) /\ Len(bs) = Len(held) + 1 /\ Len(bs) > 0
        /\ Len(held) \in Nat
    OBVIOUS
  <1>2. ASSUME NEW i \in 1 .. Len(bs) PROVE bs[i] = (i - 1) % Superframe
    <2>1. CASE i = Len(held) + 1
      <3>1. bs[i] = block /\ i - 1 = Len(held)
        BY <2>1
      <3>2. QED BY <3>1 DEF Fresh
    <2>2. CASE i # Len(held) + 1
      <3>1. i \in 1 .. Len(held) /\ bs[i] = held[i]
        BY <1>1, <2>2
      <3>2. QED BY <3>1 DEF Fresh
    <2>3. QED BY <2>1, <2>2
  <1>3. heard' = Len(bs) % Superframe
    <2>1. heard' = (block + 1) % Superframe /\ block = Len(held) % Superframe
      BY DEF Forward, Fresh
    <2>2. QED BY <1>1, <2>1, Wraps
  <1> HIDE DEF bs
  <1>4. CASE Len(held) + 1 < Prebuffer
    <2>1. buffered' = bs /\ builder' = b /\ out' = <<>>
      BY <1>4 DEF Forward, bs
    <2>2. Fresh(template, wire, b, bs, Len(bs) % Superframe)
      BY <1>2 DEF Fresh
    <2>3. QED BY <1>3, <2>1, <2>2
  <1>5. CASE ~(Len(held) + 1 < Prebuffer)
    <2>1. buffered' = <<>> /\ builder' = Flushed(b, bs) /\ out' = Flush(b, bs)
      BY <1>5 DEF Forward, bs
    <2>2. Flushed(b, bs).started
      BY DEF Flushed
    <2>3. /\ b.seq = 0 /\ b.voiceIndex = 0
          /\ Closed(template, wire) /\ wire.stream # b.stream
      BY DEF Fresh
    <2>4. QED BY <1>1, <1>2, <1>3, <2>1, <2>2, <2>3, FlushChain DEF Computed
  <1>6. QED BY <1>4, <1>5
-----------------------------------------------------------------------------
LEMMA NewBuilderIsFresh ==
  ASSUME TypeOK
  PROVE  /\ NewBuilder \in Builders /\ ~NewBuilder.started
         /\ NewBuilder.stream # wire.stream
         /\ NewBuilder.seq = 0 /\ NewBuilder.voiceIndex = 0
  <1> DEFINE id == IF wire.stream + 1 < StreamMod THEN wire.stream + 1 ELSE 0
  <1>1. /\ wire.stream \in 0 .. StreamMod - 1 /\ StreamMod \in Nat /\ StreamMod > 1
        /\ 0 \in 0 .. SeqMod - 1 /\ 0 \in 0 .. Superframe - 1
        /\ speaker \in Sources
    BY UplinkAssumption DEF TypeOK, Packets
  <1>2. id \in 0 .. StreamMod - 1 /\ id # wire.stream
    BY <1>1
  <1>3. NewBuilder = [stream |-> id, src |-> speaker, seq |-> 0, voiceIndex |-> 0,
                      started |-> FALSE]
    BY DEF NewBuilder
  <1> HIDE DEF id
  <1>4. NewBuilder \in Builders
    BY <1>1, <1>2, <1>3 DEF Builders
  <1>5. QED BY <1>2, <1>3, <1>4

LEMMA EndEmpty == ASSUME template.suffix = <<>> PROVE End(builder) = <<>>
  BY DEF End

LEMMA EndOne ==
  ASSUME NEW e \in BOOLEAN, template.suffix = <<e>>
  PROVE  End(builder) = <<Rewrite(builder, "close", e, 0, builder.voiceIndex, heard)>>
  <1> DEFINE r == Rewrite(builder, "close", e, 0, builder.voiceIndex, heard)
  <1>1. Len(<<e>>) = 1 /\ <<e>>[1] = e /\ \A i \in 1 .. 1 : i = 1 /\ i - 1 = 0
    OBVIOUS
  <1>2. End(builder) = [i \in 1 .. 1 |-> r]
    BY <1>1 DEF End
  <1> HIDE DEF r
  <1>3. [i \in 1 .. 1 |-> r] = <<r>>
    OBVIOUS
  <1>4. QED BY <1>2, <1>3 DEF r

LEMMA EndType == ASSUME TypeOK PROVE End(builder) \in Seq(Packets)
  <1>1. \A e \in BOOLEAN : Rewrite(builder, "close", e, 0, builder.voiceIndex, heard) \in Packets
    <2>1. /\ builder \in Builders /\ heard \in 0 .. Superframe - 1 /\ 0 \in Nat
          /\ builder.voiceIndex \in Nat
      BY UplinkAssumption DEF TypeOK, Builders
    <2>2. QED BY <2>1, RewriteType
  <1>2. CASE template.suffix = <<>>
    BY <1>2, EndEmpty
  <1>3. CASE template.suffix # <<>>
    <2>1. PICK e \in BOOLEAN : template.suffix = <<e>>
      BY <1>3, TemplateType DEF TypeOK
    <2>2. End(builder) = <<Rewrite(builder, "close", e, 0, builder.voiceIndex, heard)>>
      BY <2>1, EndOne
    <2>3. QED BY <1>1, <2>2
  <1>4. QED BY <1>2, <1>3

LEMMA LearnType ==
  ASSUME NEW f \in Formats, NEW c \in Learnt, NEW d \in Datagrams
  PROVE  Learn(f, c, d) \in Formats /\ Candidate(c, d) \in Learnt
  <1>1. d.data \in Learnt
    BY DEF Datagrams, Learnt
  <1>2. Learn(f, c, d) \in Formats
    <2>1. [f EXCEPT !.header = d.data, !.start = c] \in Formats
      BY <1>1 DEF Formats
    <2>2. [f EXCEPT !.header = d.data, !.start = f.start] \in Formats
      BY <1>1 DEF Formats
    <2>3. [f EXCEPT !.end = d.data] \in Formats /\ [f EXCEPT !.start = d.data] \in Formats
      BY <1>1 DEF Formats
    <2>4. Learn(f, c, d) \in {f, [f EXCEPT !.header = d.data, !.start = c],
                             [f EXCEPT !.header = d.data, !.start = f.start],
                             [f EXCEPT !.end = d.data], [f EXCEPT !.start = d.data]}
      BY DEF Learn
    <2>5. QED BY <2>1, <2>2, <2>3, <2>4
  <1>3. Candidate(c, d) \in Learnt
    BY <1>1 DEF Candidate
  <1>4. QED BY <1>2, <1>3

LEMMA InitType == Init => TypeOK
  <1> USE UplinkAssumption
  <1>1. 0 \in 0 .. Superframe - 1 /\ 0 \in 0 .. SeqMod - 1 /\ 0 \in 0 .. StreamMod - 1
        /\ 0 \in 0 .. TxHang
    OBVIOUS
  <1>2. SUFFICES ASSUME Init PROVE TypeOK
    OBVIOUS
  <1>3. speaker \in Sources /\ Fallback \in Sources
    BY <1>2 DEF Init, Sources
  <1>4. format \in Formats /\ candidate \in Learnt
    BY <1>2 DEF Init, DefaultFormat, Formats, Learnt
  <1>5. builder \in Builders
    BY <1>1, <1>2, <1>3 DEF Init, Builders
  <1>6. wire \in Packets
    BY <1>1, <1>2, <1>3 DEF Init, Packets
  <1>7. /\ tlv \in Seq(Datagrams) /\ Len(tlv) <= TlvMax
        /\ buffered \in Seq(Blocks) /\ Len(buffered) < Prebuffer /\ out \in Seq(Packets)
    BY <1>2 DEF Init
  <1>8. QED BY <1>1, <1>2, <1>3, <1>4, <1>5, <1>6, <1>7 DEF Init, TypeOK

LEMMA ReceiveType == TypeOK /\ Receive => TypeOK'
  <1> SUFFICES ASSUME TypeOK, Receive PROVE TypeOK'
    OBVIOUS
  <1> USE UplinkAssumption
  <1> DEFINE d == Head(tlv)
  <1>1. tlv # <<>> /\ tlv \in Seq(Datagrams) /\ Len(tlv) <= TlvMax /\ tlv' = Tail(tlv)
    BY DEF Receive, TypeOK
  <1>2. d \in Datagrams /\ tlv' \in Seq(Datagrams) /\ Len(tlv') <= TlvMax
    BY <1>1
  <1> HIDE DEF d
  <1>3. d \in Datagrams
    BY <1>2
  <1>4. format' \in Formats /\ candidate' \in Learnt
    <2>1. format' = Learn(format, candidate, d) /\ candidate' = Candidate(candidate, d)
      BY DEF Receive, d
    <2>2. format \in Formats /\ candidate \in Learnt
      BY DEF TypeOK
    <2>3. QED BY <1>3, <2>1, <2>2, LearnType
  <1>5. /\ template' \in Templates /\ speaker' \in Sources /\ muted' \in BOOLEAN /\ stop' \in BOOLEAN
        /\ done' \in BOOLEAN /\ wire' \in Packets
    BY DEF Receive, env, TypeOK
  <1>6. /\ open' \in BOOLEAN /\ idle' \in 0 .. TxHang /\ heard' \in 0 .. Superframe - 1
        /\ buffered' \in Seq(Blocks) /\ Len(buffered') < Prebuffer
        /\ builder' \in Builders /\ out' \in Seq(Packets)
    <2>1. CASE muted \/ ~HasBlock(d)
      BY <2>1 DEF Receive, stream, TypeOK, d
    <2>2. CASE ~(muted \/ ~HasBlock(d))
      <3>1. /\ open' = TRUE /\ idle' = 0
            /\ IF open THEN Forward(builder, heard, buffered)
               ELSE Forward(NewBuilder, 0, <<>>)
        BY <2>2 DEF Receive, d
      <3>2. /\ heard \in Blocks /\ 0 \in Blocks
            /\ builder \in Builders /\ buffered \in Seq(Blocks) /\ Len(buffered) < Prebuffer
        BY <1>3 DEF TypeOK, Blocks
      <3>3. <<>> \in Seq(Blocks) /\ Len(<<>>) < Prebuffer /\ 0 \in 0 .. TxHang
        OBVIOUS
      <3>4. CASE open
        BY <3>1, <3>2, <3>3, <3>4, ForwardTypes
      <3>5. CASE ~open
        BY <3>1, <3>2, <3>3, <3>5, ForwardTypes, NewBuilderIsFresh
      <3>6. QED BY <3>4, <3>5
    <2>3. QED BY <2>1, <2>2
  <1>7. QED BY <1>2, <1>4, <1>5, <1>6 DEF TypeOK

LEMMA TypeStep == TypeOK /\ [Next]_vars => TypeOK'
  <1> SUFFICES ASSUME TypeOK, [Next]_vars PROVE TypeOK'
    OBVIOUS
  <1> USE UplinkAssumption
  <1>1. ASSUME NEW d \in Datagrams, AnalogBridge(d) PROVE TypeOK'
    <2>1. d \in Datagrams
      OBVIOUS
    <2>2. tlv' \in Seq(Datagrams) /\ Len(tlv') <= TlvMax
      BY <1>1, <2>1 DEF AnalogBridge, TypeOK
    <2>3. QED BY <1>1, <2>2 DEF AnalogBridge, env, stream, TypeOK
  <1>2. CASE ChangeSpeaker
    BY <1>2 DEF ChangeSpeaker, stream, TypeOK
  <1>3. CASE EndMute
    BY <1>3 DEF EndMute, stream, TypeOK
  <1>4. CASE RequestStop
    BY <1>4 DEF RequestStop, stream, TypeOK
  <1>5. CASE Tick
    <2>1. idle' \in 0 .. TxHang
      BY <1>5 DEF Tick, TypeOK
    <2>2. QED BY <1>5, <2>1 DEF Tick, env, stream, TypeOK
  <1>6. CASE Receive
    BY <1>6, ReceiveType
  <1>7. CASE PollTimeout
    <2>1. /\ out' \in Seq(Packets) /\ buffered' \in Seq(Blocks) /\ Len(buffered') < Prebuffer
      BY <1>7, EndType DEF PollTimeout
    <2>2. QED BY <1>7, <2>1 DEF PollTimeout, env, TypeOK
  <1>8. CASE Exit
    <2>1. out' \in Seq(Packets)
      BY <1>8, EndType DEF Exit, Farewell
    <2>2. QED BY <1>8, <2>1 DEF Exit, env, TypeOK
  <1>9. CASE Send
    <2>1. out \in Seq(Packets) /\ out # <<>> /\ wire' = Head(out) /\ out' = Tail(out)
      BY <1>9 DEF Send, TypeOK
    <2>2. wire' \in Packets /\ out' \in Seq(Packets)
      BY <2>1
    <2>3. QED BY <1>9, <2>2 DEF Send, env, stream, TypeOK
  <1>10. CASE Stopped \/ UNCHANGED vars
    BY <1>10 DEF Stopped, vars, TypeOK
  <1>11. QED BY <1>1, <1>2, <1>3, <1>4, <1>5, <1>6, <1>7, <1>8, <1>9, <1>10 DEF Next

(* The types hold in every reachable state.                                *)
THEOREM TypeCorrect == Spec => []TypeOK
  <1>1. QED BY InitType, TypeStep, PTL DEF Spec
-----------------------------------------------------------------------------
LEMMA InitInv == Init => IInv
  BY InitType DEF Init, IInv, ChainInv, TailInv, Final, Closed, Cut!Closed

LEMMA ComputedInv ==
  ASSUME ChainInv, Computed, out' \in Seq(Packets), open', ~done', builder'.started,
         wire' = wire, template' = template
  PROVE  ChainInv' /\ TailInv'
  <1>1. Final' = out'[Len(out')]
    BY DEF Computed, Final
  <1>2. QED BY <1>1 DEF Computed, ChainInv, TailInv

LEMMA ReceiveInv == IInv /\ Receive => ChainInv' /\ TailInv'
  <1> SUFFICES ASSUME IInv, Receive PROVE ChainInv' /\ TailInv'
    OBVIOUS
  <1> DEFINE d == Head(tlv)
  <1>1. TypeOK /\ ChainInv /\ TailInv /\ TypeOK'
    BY ReceiveType DEF IInv
  <1>2. /\ out = <<>> /\ ~done /\ ~done' /\ wire' = wire /\ wire \in Packets /\ Final = wire
        /\ template' = template /\ template \in Templates
    BY <1>1 DEF Receive, Running, Final, TypeOK, env
  <1>3. CASE muted \/ ~HasBlock(d)
    <2>1. UNCHANGED <<stream, out, wire, done>>
      BY <1>3 DEF Receive
    <2>2. QED BY <1>1, <1>2, <2>1 DEF stream, ChainInv, TailInv, Final
  <1>4. CASE ~(muted \/ ~HasBlock(d))
    <2>1. /\ open' = TRUE
          /\ IF open THEN Forward(builder, heard, buffered)
             ELSE Forward(NewBuilder, 0, <<>>)
      BY <1>4 DEF Receive
    <2>2. /\ heard \in Blocks /\ 0 \in Blocks
          /\ builder \in Builders /\ buffered \in Seq(Blocks) /\ builder.started \in BOOLEAN
      <3>1. heard \in 0 .. Superframe - 1 /\ 0 \in 0 .. Superframe - 1
        BY <1>1, UplinkAssumption DEF TypeOK
      <3>2. QED BY <1>1, <3>1 DEF TypeOK, Blocks, Builders
    <2>3. ASSUME builder'.started, Computed PROVE ChainInv' /\ TailInv'
      <3>1. out' \in Seq(Packets)
        BY <1>1 DEF TypeOK
      <3>2. QED BY <1>1, <1>2, <2>1, <2>3, <3>1, ComputedInv
    <2>4. ASSUME ~builder'.started, out' = <<>>, Fresh(template, wire, builder', buffered', heard')
          PROVE  ChainInv' /\ TailInv'
      BY <1>1, <1>2, <2>1, <2>4 DEF ChainInv, TailInv
    <2>5. CASE open /\ builder.started
      <3>1. buffered = <<>> /\ Carries(wire, builder, heard)
        BY <1>1, <1>2, <2>5 DEF TailInv
      <3>2. QED BY <1>2, <2>1, <2>2, <2>3, <2>5, <3>1, ForwardStarted
    <2>6. CASE open /\ ~builder.started
      <3>1. Fresh(template, wire, builder, buffered, heard)
        BY <1>1, <2>6 DEF TailInv
      <3>2. QED BY <1>2, <2>1, <2>2, <2>3, <2>4, <2>6, <3>1, ForwardFresh
    <2>7. CASE ~open
      <3>1. Closed(template, wire)
        BY <1>1, <1>2, <2>7 DEF TailInv
      <3>2. 0 = Len(<<>>) % Superframe /\ <<>> \in Seq(Blocks)
        BY Wraps, UplinkAssumption
      <3>3. Fresh(template, wire, NewBuilder, <<>>, 0)
        BY <1>1, <3>1, <3>2, NewBuilderIsFresh DEF Fresh
      <3>4. /\ NewBuilder \in Builders /\ ~NewBuilder.started
            /\ 0 \in Blocks /\ Forward(NewBuilder, 0, <<>>)
        BY <1>1, <2>1, <2>2, <2>7, NewBuilderIsFresh
      <3>5. \E b \in Builders : ~b.started /\ Fresh(template, wire, b, <<>>, 0) /\ Forward(b, 0, <<>>)
        BY <3>3, <3>4
      <3>6. PICK b \in Builders : ~b.started /\ Fresh(template, wire, b, <<>>, 0) /\ Forward(b, 0, <<>>)
        BY <3>5
      <3>7. /\ wire \in Packets /\ 0 \in Blocks /\ <<>> \in Seq(Blocks)
        BY <1>1, <3>2, <3>4 DEF TypeOK
      <3>8. IF builder'.started THEN Computed
            ELSE out' = <<>> /\ Fresh(template, wire, builder', buffered', heard')
        BY <1>2, <3>6, <3>7, ForwardFresh
      <3>9. QED BY <2>3, <2>4, <3>8
    <2>8. QED BY <2>5, <2>6, <2>7
  <1>5. QED BY <1>3, <1>4

(* The closing packet, if the template has one, follows the last packet    *)
(* sent; if it has none, that packet has closed the stream.                *)
LEMMA EndFollows ==
  ASSUME IInv, open, out = <<>>, NEW e \in BOOLEAN, template.suffix = <<e>>
  PROVE  /\ Len(End(builder)) = 1 /\ End(builder) # <<>>
         /\ End(builder)[1].kind = "close"
         /\ Follows(template, wire, End(builder)[1])
  <1> DEFINE q == End(builder)[1]
  <1>1. /\ Len(End(builder)) = 1 /\ End(builder) # <<>>
        /\ q = Rewrite(builder, "close", e, 0, builder.voiceIndex, heard)
    BY EndOne
  <1>2. /\ builder.started \in BOOLEAN /\ Final = wire
        /\ builder.seq \in Nat /\ (builder.seq + 0) % SeqMod = builder.seq
    <2>1. builder.seq \in 0 .. SeqMod - 1 /\ builder.seq \in Nat /\ builder.seq + 0 = builder.seq
      BY UplinkAssumption DEF IInv, TypeOK, Builders
    <2>2. QED BY <2>1, Wraps DEF IInv, TypeOK, Builders, Final
  <1> HIDE DEF q
  <1>3. /\ q.kind = "close" /\ q.ends = e /\ q.stream = builder.stream /\ q.src = builder.src
        /\ q.seq = builder.seq /\ q.pos = builder.voiceIndex /\ q.heard = heard
    BY <1>1, <1>2 DEF Rewrite
  <1>4. Copied(template, q)
    BY <1>3 DEF Copied, Cut!Copied
  <1>5. CASE builder.started
    <2>1. Carries(wire, builder, heard)
      BY <1>2, <1>5 DEF IInv, TailInv
    <2>2. Cut(template)!Continues(wire, q)
      BY <1>3, <2>1 DEF Carries, Cut!Continues
    <2>3. QED BY <1>1, <1>3, <1>4, <2>2 DEF Follows, Copied, q
  <1>6. CASE ~builder.started
    <2>1. Fresh(template, wire, builder, buffered, heard)
      BY <1>6 DEF IInv, TailInv
    <2>2. Cut(template)!Begins(wire, q)
      BY <1>3, <2>1 DEF Fresh, Closed, Cut!Begins, Cut!First
    <2>3. QED BY <1>1, <1>3, <1>4, <2>2 DEF Follows, Copied, q
  <1>7. QED BY <1>2, <1>5, <1>6

LEMMA EndInv ==
  ASSUME IInv, open, out = <<>>, out' = End(builder), ~open', wire' = wire,
         builder' = builder, template' = template
  PROVE  ChainInv' /\ TailInv'
  <1>1. template.suffix \in {<<>>, <<TRUE>>, <<FALSE>>} /\ Final = wire
    BY TemplateType DEF IInv, TypeOK, Final
  <1>2. CASE template.suffix = <<>>
    <2>1. out' = <<>> /\ Final' = wire
      BY <1>2, EndEmpty DEF Final
    <2>2. Closed(template, wire)
      <3>1. CASE builder.started
        BY <1>1, <1>2, <3>1 DEF IInv, TailInv, Carries, Closed, Cut!Closed
      <3>2. CASE ~builder.started
        BY <3>2 DEF IInv, TailInv, Fresh
      <3>3. QED BY <3>1, <3>2
    <2>3. QED BY <2>1, <2>2 DEF IInv, ChainInv, TailInv
  <1>3. ASSUME NEW e \in BOOLEAN, template.suffix = <<e>> PROVE ChainInv' /\ TailInv'
    <2>1. /\ Len(out') = 1 /\ out' # <<>> /\ Follows(template, wire, out'[1])
          /\ out'[1].kind = "close"
      BY <1>3, EndFollows
    <2>2. Final' = out'[1]
      BY <2>1 DEF Final
    <2>3. Closed(template, out'[1])
      BY <2>1 DEF Closed, Cut!Closed
    <2>4. QED BY <2>1, <2>2, <2>3 DEF IInv, ChainInv, TailInv
  <1>4. QED BY <1>1, <1>2, <1>3

LEMMA SendInv == IInv /\ Send => ChainInv' /\ TailInv'
  <1> SUFFICES ASSUME IInv, Send PROVE ChainInv' /\ TailInv'
    OBVIOUS
  <1>1. /\ out \in Seq(Packets) /\ out # <<>> /\ wire' = out[1] /\ out' = Tail(out)
        /\ UNCHANGED <<template, open, builder, heard, buffered, done>>
    BY DEF Send, stream, env, IInv, TypeOK
  <1>2. /\ Len(out') = Len(out) - 1 /\ Len(out) \in Nat /\ Len(out) > 0
        /\ \A i \in 1 .. Len(out) - 1 : out'[i] = out[i + 1]
        /\ out' = <<>> <=> Len(out) = 1
    <2>1. Len(out) \in Nat /\ Len(out) > 0
      BY <1>1
    <2>2. /\ Len(out') = Len(out) - 1
          /\ \A i \in 1 .. Len(out) - 1 : out'[i] = out[i + 1]
      BY <1>1, <2>1
    <2>3. \A s \in Seq(Packets) : (s = <<>>) <=> (Len(s) = 0)
      OBVIOUS
    <2>4. out' \in Seq(Packets)
      BY <1>1
    <2>5. QED BY <2>1, <2>2, <2>3, <2>4
  <1>3. Final' = Final
    <2>1. CASE Len(out) = 1
      BY <1>1, <1>2, <2>1 DEF Final
    <2>2. CASE Len(out) # 1
      <3>1. Len(out) - 1 \in 1 .. Len(out) - 1 /\ Len(out') = Len(out) - 1
            /\ (Len(out) - 1) + 1 = Len(out)
        BY <1>2, <2>2
      <3>2. out'[Len(out')] = out[Len(out)]
        BY <1>2, <3>1
      <3>3. QED BY <1>1, <1>2, <2>2, <3>2 DEF Final
    <2>3. QED BY <2>1, <2>2
  <1>4. ChainInv'
    <2>1. \A i \in 1 .. Len(out) - 1 : Follows(template, out[i], out[i + 1])
      BY <1>1 DEF IInv, ChainInv
    <2>0. wire'.kind # "none" => Copied(template, wire')
      BY <1>1 DEF IInv, ChainInv, Follows, Copied
    <2>2. SUFFICES ASSUME Len(out) # 1
                   PROVE  /\ Follows(template, wire', out'[1])
                          /\ \A i \in 1 .. Len(out') - 1 : Follows(template, out'[i], out'[i + 1])
      BY <1>1, <1>2, <2>0 DEF ChainInv
    <2>3. 1 \in 1 .. Len(out) - 1
      BY <1>2, <2>2
    <2>4. Follows(template, out[1], out[1 + 1])
      BY <2>1, <2>3
    <2>5. Follows(template, wire', out'[1])
      BY <1>1, <1>2, <2>3, <2>4
    <2>6. ASSUME NEW i \in 1 .. Len(out') - 1 PROVE Follows(template, out'[i], out'[i + 1])
      <3>1. i \in 1 .. Len(out) - 1 /\ i + 1 \in 1 .. Len(out) - 1
        BY <1>2, <2>6
      <3>2. out'[i] = out[i + 1] /\ out'[i + 1] = out[(i + 1) + 1]
        BY <1>2, <3>1
      <3>3. QED BY <2>1, <3>1, <3>2
    <2>7. QED BY <2>5, <2>6
  <1>5. TailInv'
    <2>1. ~(open /\ ~builder.started)
      BY <1>1 DEF IInv, TailInv
    <2>2. QED BY <1>1, <1>3, <2>1 DEF IInv, TailInv
  <1>6. QED BY <1>4, <1>5

LEMMA InvStep == IInv /\ [Next]_vars => IInv'
  <1> SUFFICES ASSUME IInv, [Next]_vars PROVE ChainInv' /\ TailInv'
    BY TypeStep DEF IInv
  <1>1. ASSUME UNCHANGED <<template, open, builder, heard, buffered, out, wire, done>>
        PROVE  ChainInv' /\ TailInv'
    BY <1>1 DEF IInv, ChainInv, TailInv, Final
  <1>2. ASSUME NEW d \in Datagrams, AnalogBridge(d) PROVE ChainInv' /\ TailInv'
    BY <1>1, <1>2 DEF AnalogBridge, stream, env
  <1>3. CASE ChangeSpeaker
    BY <1>1, <1>3 DEF ChangeSpeaker, stream
  <1>4. CASE EndMute
    BY <1>1, <1>4 DEF EndMute, stream
  <1>5. CASE RequestStop
    BY <1>1, <1>5 DEF RequestStop, stream
  <1>6. CASE Tick
    BY <1>1, <1>6 DEF Tick, stream, env
  <1>7. CASE Receive
    BY <1>7, ReceiveInv
  <1>8. CASE PollTimeout
    BY <1>8, EndInv DEF PollTimeout, Running, TimedOut, env
  <1>9. CASE Exit
    <2>1. /\ out = <<>> /\ ~open' /\ done' /\ wire' = wire /\ builder' = builder
          /\ template' = template /\ out' = Farewell
      BY <1>9 DEF Exit, Running, env
    <2>2. CASE open /\ builder.started
      BY <2>1, <2>2, EndInv DEF Farewell
    <2>3. CASE ~(open /\ builder.started)
      <3>1. out' = <<>> /\ Final' = wire /\ Final = wire
        BY <2>1, <2>3 DEF Farewell, Final
      <3>2. Closed(template, wire)
        <4>1. CASE open
          BY <2>3, <4>1 DEF IInv, TailInv, Fresh
        <4>2. CASE ~open
          BY <3>1, <4>2 DEF IInv, TailInv
        <4>3. QED BY <4>1, <4>2
      <3>3. QED BY <2>1, <3>1, <3>2 DEF IInv, ChainInv, TailInv
    <2>4. QED BY <2>2, <2>3
  <1>10. CASE Send
    BY <1>10, SendInv
  <1>11. CASE Stopped \/ UNCHANGED vars
    BY <1>1, <1>11 DEF Stopped, vars
  <1>12. QED BY <1>2, <1>3, <1>4, <1>5, <1>6, <1>7, <1>8, <1>9, <1>10, <1>11 DEF Next

(* The invariant that carries the wire property.                           *)
THEOREM Inductive == Spec => []IInv
  <1>1. QED BY InitInv, InvStep, PTL DEF Spec

(* DmrStream for the template the gateway has.                             *)
LEMMA CutIsWire ==
  /\ \A p, q : Follows(template, p, q)
               <=> Wire!Copied(q) /\ (Wire!Begins(p, q) \/ Wire!Continues(p, q))
  /\ \A p : Closed(template, p) <=> Wire!Closed(p)
  BY DEF Follows, Closed, Cut!Copied, Cut!Begins, Cut!Continues, Cut!Closed, Cut!First,
         Wire!Copied, Wire!Begins, Wire!Continues, Wire!Closed, Wire!First

LEMMA StreamStep == IInv /\ [Next]_vars => [Wire!StreamNext]_wire
  <1> SUFFICES ASSUME IInv, [Next]_vars PROVE [Wire!StreamNext]_wire
    OBVIOUS
  <1>1. CASE Send
    <2>1. out # <<>> /\ wire' = out[1]
      BY <1>1 DEF Send
    <2>2. Follows(template, wire, wire')
      BY <2>1 DEF IInv, ChainInv
    <2>3. QED BY <2>2, CutIsWire DEF Wire!StreamNext
  <1>2. CASE ~Send
    <2>1. wire' = wire
      BY <1>2 DEF Next, vars, AnalogBridge, ChangeSpeaker, EndMute, RequestStop, Tick,
                  Receive, PollTimeout, Exit, Stopped
    <2>2. QED BY <2>1
  <1>3. QED BY <1>1, <1>2

(* The packets the OpenBridge peer gets are DMR streams cut after the      *)
(* template, one at a time (OpenBridgeStreamBuilder and the loop that      *)
(* feeds it), whatever packets the template has around its voice.          *)
THEOREM ImplementsStream == Spec => StreamSpec
  <1>1. Init => Wire!StreamInit
    BY DEF Init, Wire!StreamInit
  <1>2. QED BY <1>1, StreamStep, Inductive, PTL DEF Spec, StreamSpec, Wire!StreamSpec

(* A stopped runtime leaves no stream open at the peer that the template   *)
(* has a packet to close, and closes it with a terminator if that is one.  *)
THEOREM ClosedAtExit == Spec => []TerminatedAtExit
  <1>1. IInv => TerminatedAtExit
    <2> SUFFICES ASSUME IInv, done, out = <<>>
                 PROVE  /\ Wire!Closed(wire)
                        /\ template.suffix = <<TRUE>> /\ wire.kind # "none" => wire.ends
      BY DEF TerminatedAtExit
    <2>1. Closed(template, wire)
      BY DEF IInv, TailInv, Final
    <2>2. ASSUME template.suffix = <<TRUE>>, wire.kind # "none" PROVE wire.ends
      <3>1. Copied(template, wire)
        BY <2>2 DEF IInv, ChainInv
      <3>2. wire.kind = "close"
        BY <2>1, <2>2 DEF Closed, Cut!Closed
      <3>3. template.suffix = <<wire.ends>>
        BY <3>1, <3>2 DEF Copied, Cut!Copied
      <3>4. <<wire.ends>>[1] = wire.ends /\ <<TRUE>>[1] = TRUE
        OBVIOUS
      <3>5. QED BY <2>2, <3>3, <3>4, Zenon
    <2>3. QED BY <2>1, <2>2, CutIsWire
  <1>2. QED BY <1>1, Inductive, PTL
=============================================================================
