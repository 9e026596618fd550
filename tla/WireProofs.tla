------------------------------ MODULE WireProofs ------------------------------
(***************************************************************************)
(* Proofs about Wire, for any lengths of headers, markers and payloads,    *)
(* any capacity of the network and any number of calls.                    *)
(***************************************************************************)
EXTENDS Wire, SequenceTheorems, WellFoundedInduction, TLAPS

-----------------------------------------------------------------------------
(* Numbers.                                                                *)

(* The calculations of Run on unsigned numbers.                            *)
LEMMA Unsigned ==
    ASSUME NEW W \in Nat, NEW h \in Nat, NEW t \in Nat, t < W, W > 2 * h
    PROVE  /\ t < h => (h + W - t) % W = h - t
           /\ (h + W - t) % W \in Nat
           /\ (t + W - 1) % W \in 0 .. W - 1
  OBVIOUS

Below == {z \in Nat \X Nat : z[1] < z[2]}

(* There is a first of some positions.                                     *)
LEMMA Smallest ==
    ASSUME NEW T \in SUBSET Nat, T # {}
    PROVE  \E x \in T : \A y \in T : x <= y
  <1>1. IsWellFoundedOn(Below, Nat)
    BY NatLessThanWellFounded DEF OpToRel, Below
  <1>2. PICK x \in T : \A y \in T : ~ (<<y, x>> \in Below)
    BY <1>1, WFMin
  <1>3. ASSUME NEW y \in T PROVE x <= y
    <2>1. ~ (<<y, x>> \in Below) /\ <<y, x>> \in Nat \X Nat
      BY <1>2
    <2>2. ~ (y < x)
      BY <2>1 DEF Below
    <2> QED BY <2>2
  <1> QED BY <1>3

-----------------------------------------------------------------------------
(* Pieces.                                                                 *)

(* What is assumed of the constants.                                       *)
LEMMA Constants ==
    /\ HeaderLen \in Nat /\ HeaderLen > 0 /\ EndLen \in Nat /\ EndLen > 0 /\ EndLen <= HeaderLen
    /\ BufCap \in Nat /\ BufCap > 0 /\ WrapAt \in Nat /\ WrapAt > 2 * HeaderLen /\ MaxCalls \in Nat
    /\ Lens \subseteq Nat
  BY LengthsAssumption, WidthAssumption, BoundsAssumption

(* The calls of either protocol, and the pieces each end makes of them.    *)
LEMMA CallFacts ==
    ASSUME NEW p \in {"cn", "dispatcher"}, NEW c \in CallsOf(p)
    PROVE  /\ c.len \in Nat
           /\ p = "cn" => c.kind \in {"task", "write", "blockingWrite", "program", "build"}
           /\ p = "dispatcher" => c.kind \in {"register", "load", "score"}
           /\ c.kind \in {"task", "register", "load"} => Sends(c) = <<HeaderLen>>
           /\ c.kind \in {"write", "blockingWrite"} => Sends(c) = <<HeaderLen, c.len>> /\ Recvs(c) = <<c.len>>
           /\ c.kind = "program" => Sends(c) = <<HeaderLen, 1, c.len>> /\ Recvs(c) = <<1, c.len>>
           /\ c.kind = "build" => Sends(c) = IF c.len = 0 THEN <<HeaderLen>> ELSE <<HeaderLen, c.len>>
           /\ c.kind = "score" => Sends(c) = ScorePieces(c.len)
           /\ c.kind \notin {"write", "blockingWrite", "program"} => Recvs(c) = <<>>
           /\ Reply(c) \in Nat /\ (Awaited(c) = IF c.kind = "score" THEN 0 ELSE Reply(c))
  <1>1. c.len \in Nat /\ c.kind \in {"task", "write", "blockingWrite", "program", "build", "register", "load", "score"}
    BY Constants, BoundsAssumption DEF CallsOf
  <1>2. /\ p = "cn" => c.kind \in {"task", "write", "blockingWrite", "program", "build"}
        /\ p = "dispatcher" => c.kind \in {"register", "load", "score"}
    BY DEF CallsOf
  <1>3. /\ c.kind \in {"task", "register", "load"} => Sends(c) = <<HeaderLen>>
        /\ c.kind \in {"write", "blockingWrite"} => Sends(c) = <<HeaderLen, c.len>>
        /\ c.kind = "program" => Sends(c) = <<HeaderLen, 1, c.len>>
        /\ c.kind = "build" => Sends(c) = IF c.len = 0 THEN <<HeaderLen>> ELSE <<HeaderLen, c.len>>
        /\ c.kind = "score" => Sends(c) = ScorePieces(c.len)
    BY <1>1 DEF Sends
  <1>4. /\ c.kind \in {"write", "blockingWrite"} => Recvs(c) = <<c.len>>
        /\ c.kind = "program" => Recvs(c) = <<1, c.len>>
        /\ c.kind \notin {"write", "blockingWrite", "program"} => Recvs(c) = <<>>
    BY <1>1 DEF Recvs, Payloads
  <1>5. Reply(c) \in Nat
    BY <1>1, Constants DEF Reply
  <1> QED BY <1>1, <1>2, <1>3, <1>4, <1>5 DEF Awaited

(* A call begins with its header; only a score's last piece is END.        *)
LEMMA SendsFacts ==
    ASSUME NEW p \in {"cn", "dispatcher"}, NEW c \in CallsOf(p)
    PROVE  /\ Sends(c) \in Seq(Nat) /\ Len(Sends(c)) >= 1 /\ Sends(c)[1] = HeaderLen
           /\ c.kind = "score" => /\ Len(Sends(c)) >= 2 /\ Sends(c)[Len(Sends(c))] = EndLen
                                  /\ \A k \in 1 .. Len(Sends(c)) - 1 : Sends(c)[k] = HeaderLen
           /\ c.kind \in {"write", "blockingWrite", "program"} =>
                /\ Recvs(c) \in Seq(Nat) /\ Recvs(c) # <<>> /\ Len(Recvs(c)) = Len(Sends(c)) - 1
                /\ \A k \in 1 .. Len(Recvs(c)) : Recvs(c)[k] = Sends(c)[k + 1]
  <1>1. CASE c.kind = "score"
    <2>1. PICK b \in Nat : b = c.len
      BY CallFacts
    <2>2. PICK s : s = Sends(c)
      OBVIOUS
    <2>3. s = [i \in 1 .. b + 2 |-> IF i = b + 2 THEN EndLen ELSE HeaderLen]
      BY <1>1, <2>1, <2>2, CallFacts DEF ScorePieces
    <2>4. s \in Seq(Nat) /\ Len(s) = b + 2
      BY <2>3, Constants
    <2>5. Len(s) >= 2 /\ s[1] = HeaderLen /\ s[Len(s)] = EndLen /\ \A k \in 1 .. Len(s) - 1 : s[k] = HeaderLen
      BY <2>3, <2>4
    <2> QED BY <1>1, <2>2, <2>4, <2>5
  <1>2. CASE c.kind \in {"write", "blockingWrite"}
    <2>1. Sends(c) = <<HeaderLen, c.len>> /\ Recvs(c) = <<c.len>> /\ c.len \in Nat
      BY <1>2, CallFacts
    <2>2. PICK n \in Nat : n = c.len
      BY <2>1
    <2>3. PICK s, r : s = <<HeaderLen, n>> /\ r = <<n>>
      OBVIOUS
    <2>4. s \in Seq(Nat) /\ Len(s) = 2 /\ s[1] = HeaderLen /\ s[2] = n
      BY <2>3, Constants
    <2>5. r \in Seq(Nat) /\ Len(r) = 1 /\ r[1] = n /\ r # <<>>
      BY <2>3
    <2>6. \A k \in 1 .. Len(r) : r[k] = s[k + 1]
      BY <2>4, <2>5
    <2> QED BY <1>2, <2>1, <2>2, <2>3, <2>4, <2>5, <2>6
  <1>3. CASE c.kind = "program"
    <2>1. Sends(c) = <<HeaderLen, 1, c.len>> /\ Recvs(c) = <<1, c.len>> /\ c.len \in Nat
      BY <1>3, CallFacts
    <2>2. PICK n \in Nat : n = c.len
      BY <2>1
    <2>3. PICK s, r : s = <<HeaderLen, 1, n>> /\ r = <<1, n>>
      OBVIOUS
    <2>4. s \in Seq(Nat) /\ Len(s) = 3 /\ s[1] = HeaderLen /\ s[2] = 1 /\ s[3] = n
      BY <2>3, Constants
    <2>5. r \in Seq(Nat) /\ Len(r) = 2 /\ r[1] = 1 /\ r[2] = n /\ r # <<>>
      BY <2>3
    <2>6. \A k \in 1 .. Len(r) : r[k] = s[k + 1]
      BY <2>4, <2>5
    <2> QED BY <1>3, <2>1, <2>2, <2>3, <2>4, <2>5, <2>6
  <1>4. CASE c.kind = "build"
    <2>1. PICK n \in Nat : n = c.len
      BY CallFacts
    <2>2. PICK s : s = IF n = 0 THEN <<HeaderLen>> ELSE <<HeaderLen, n>>
      OBVIOUS
    <2>3. Sends(c) = s
      BY <1>4, <2>1, <2>2, CallFacts
    <2>4. s \in Seq(Nat) /\ Len(s) >= 1 /\ s[1] = HeaderLen
      BY <2>2, Constants
    <2> QED BY <1>4, <2>3, <2>4
  <1>5. CASE c.kind \in {"task", "register", "load"}
    <2>1. PICK s : s = <<HeaderLen>>
      OBVIOUS
    <2>2. Sends(c) = s
      BY <1>5, <2>1, CallFacts
    <2>3. s \in Seq(Nat) /\ Len(s) >= 1 /\ s[1] = HeaderLen
      BY <2>1, Constants
    <2> QED BY <1>5, <2>2, <2>3
  <1> QED BY <1>1, <1>2, <1>3, <1>4, <1>5, CallFacts

(* n more bytes of the first piece that is left.                           *)
LEMMA LessFacts ==
    ASSUME NEW P \in Seq(Nat), NEW r \in Seq(Nat), r # <<>>, RestOf(r, P), NEW n \in 1 .. Head(r)
    PROVE  /\ Less(r, n) \in Seq(Nat) /\ RestOf(Less(r, n), P) /\ Head(r) = r[1] /\ r[1] \in Nat
           /\ Len(P) - Len(r) + 1 \in 1 .. Len(P) /\ Len(r) \in Nat /\ Len(P) \in Nat
           /\ r[1] <= P[Len(P) - Len(r) + 1] /\ P[Len(P) - Len(r) + 1] \in Nat
           /\ n < r[1] => Less(r, n) # <<>> /\ Len(Less(r, n)) = Len(r) /\ Head(Less(r, n)) = r[1] - n
           /\ n = r[1] => Len(Less(r, n)) = Len(r) - 1
                          /\ (Len(r) > 1 => Less(r, n) # <<>> /\ Head(Less(r, n)) = P[Len(P) - Len(r) + 2])
                          /\ (Less(r, n) = <<>> <=> Len(r) = 1)
  <1>1. /\ Len(r) \in Nat /\ Len(r) >= 1 /\ Len(P) \in Nat /\ Head(r) = r[1] /\ r[1] \in Nat
        /\ \A k \in 1 .. Len(r) : r[k] \in Nat
        /\ \A k \in 1 .. Len(P) : P[k] \in Nat
    OBVIOUS
  <1>2. Len(r) <= Len(P) /\ r[1] <= P[Len(P) - Len(r) + 1]
        /\ \A k \in 2 .. Len(r) : r[k] = P[Len(P) - Len(r) + k]
    BY DEF RestOf
  <1>3. PICK a, b \in Nat : a = Len(r) /\ b = Len(P)
    BY <1>1
  <1>4. b - a + 1 \in 1 .. b /\ P[b - a + 1] \in Nat
    BY <1>1, <1>2, <1>3
  <1>5. CASE n < r[1]
    <2>1. PICK s : s = <<r[1] - n>> \o Tail(r)
      OBVIOUS
    <2>2. Less(r, n) = s
      BY <1>1, <1>5, <2>1 DEF Less
    <2>3. r[1] - n \in Nat /\ r[1] - n > 0
      BY <1>1, <1>5
    <2>4. s \in Seq(Nat) /\ Len(s) = a /\ s[1] = r[1] - n /\ \A k \in 2 .. a : s[k] = r[k]
      BY <1>1, <1>3, <2>1, <2>3
    <2>5. s # <<>> /\ Head(s) = s[1]
      BY <1>1, <1>3, <2>4
    <2>6. s[1] <= P[b - a + 1]
      BY SMTT(20), <1>1, <1>2, <1>3, <1>4, <2>4
    <2>7. RestOf(s, P)
      <3>1. Len(s) <= Len(P) /\ Len(P) - Len(s) + 1 = b - a + 1 /\ s[1] # 0
        BY <1>2, <1>3, <2>3, <2>4
      <3>2. \A k \in 2 .. Len(s) : s[k] = P[Len(P) - Len(s) + k]
        BY <1>2, <1>3, <2>4
      <3> QED BY <2>6, <3>1, <3>2 DEF RestOf
    <2> QED BY <1>1, <1>2, <1>3, <1>4, <1>5, <2>2, <2>4, <2>5, <2>7
  <1>6. CASE n = r[1]
    <2>1. PICK s : s = Tail(r)
      OBVIOUS
    <2>2. Less(r, n) = s
      BY <1>1, <1>6, <2>1 DEF Less
    <2>3. s \in Seq(Nat) /\ Len(s) = a - 1 /\ \A k \in 1 .. a - 1 : s[k] = r[k + 1]
      BY <1>1, <1>3, <2>1
    <2>4. \A k \in 1 .. a - 1 : s[k] = P[b - a + k + 1]
      <3>1. ASSUME NEW k \in 1 .. a - 1 PROVE s[k] = P[b - a + k + 1]
        <4>1. k + 1 \in 2 .. a
          BY <1>3
        <4>2. r[k + 1] = P[b - a + (k + 1)]
          BY <1>2, <1>3, <4>1
        <4>3. b - a + (k + 1) = b - a + k + 1
          BY <1>3
        <4> QED BY <2>3, <4>2, <4>3
      <3> QED BY <3>1
    <2>5. RestOf(s, P)
      <3>1. Len(s) <= Len(P)
        BY <1>2, <1>3, <2>3
      <3>2. \A k \in 2 .. Len(s) : s[k] = P[Len(P) - Len(s) + k]
        <4>1. ASSUME NEW k \in 2 .. Len(s) PROVE s[k] = P[Len(P) - Len(s) + k]
          <5>1. k \in 1 .. a - 1 /\ Len(P) - Len(s) + k = b - a + k + 1
            BY <1>3, <2>3
          <5> QED BY <2>4, <5>1
        <4> QED BY <4>1
      <3>3. s # <<>> => s[1] = P[Len(P) - Len(s) + 1]
        <4>1. s # <<>> => 1 \in 1 .. a - 1
          BY <1>3, <2>3
        <4>2. Len(P) - Len(s) + 1 = b - a + 1 + 1
          BY <1>3, <2>3
        <4> QED BY <2>4, <4>1, <4>2
      <3>4. s # <<>> => s[1] \in Nat
        BY <2>3
      <3> QED BY SMTT(20), <3>1, <3>2, <3>3, <3>4 DEF RestOf
    <2>6. Len(r) > 1 => s # <<>> /\ Head(s) = P[Len(P) - Len(r) + 2]
      <3>1. a > 1 => s # <<>> /\ Head(s) = s[1] /\ 1 \in 1 .. a - 1 /\ b - a + 1 + 1 = b - a + 2
        BY <1>3, <2>3
      <3> QED BY <1>3, <2>4, <3>1
    <2>7. s = <<>> <=> a = 1
      <3>1. a >= 1 /\ a \in Nat
        BY <1>1, <1>3
      <3>2. s \in Seq(Nat) /\ Len(s) = a - 1
        BY <2>3
      <3> QED BY <3>1, <3>2
    <2>8. /\ Less(r, n) \in Seq(Nat) /\ RestOf(Less(r, n), P) /\ Len(Less(r, n)) = Len(r) - 1
          /\ Len(r) > 1 => Less(r, n) # <<>> /\ Head(Less(r, n)) = P[Len(P) - Len(r) + 2]
          /\ Less(r, n) = <<>> <=> Len(r) = 1
      BY <1>3, <2>2, <2>3, <2>5, <2>6, <2>7
    <2>9. ~(n < r[1])
      BY <1>1, <1>6
    <2>10. Len(P) - Len(r) + 1 \in 1 .. Len(P) /\ P[Len(P) - Len(r) + 1] \in Nat
      BY <1>3, <1>4
    <2> HIDE DEF Less
    <2> QED BY <1>1, <1>2, <2>8, <2>9, <2>10
  <1> QED BY <1>1, <1>5, <1>6

-----------------------------------------------------------------------------
(* The stream.                                                             *)

(* What is received, and what is left.                                     *)
LEMMA TakeDrop ==
    ASSUME NEW A, NEW s \in Seq(A), NEW n \in 0 .. Len(s)
    PROVE  /\ Taken(s, n) \in Seq(A) /\ Len(Taken(s, n)) = n /\ \A k \in 1 .. n : Taken(s, n)[k] = s[k]
           /\ Dropped(s, n) \in Seq(A) /\ Len(Dropped(s, n)) = Len(s) - n
           /\ \A k \in 1 .. Len(s) - n : Dropped(s, n)[k] = s[k + n]
  <1>1. PICK l \in Nat : l = Len(s)
    OBVIOUS
  <1>2. Taken(s, n) \in Seq(A) /\ Len(Taken(s, n)) = n /\ \A k \in 1 .. n : Taken(s, n)[k] = s[k]
    BY DEF Taken
  <1>3. Dropped(s, n) \in Seq(A) /\ Len(Dropped(s, n)) = l - n
    BY <1>1 DEF Dropped
  <1>4. ASSUME NEW k \in 1 .. l - n PROVE Dropped(s, n)[k] = s[k + n]
    <2>1. Dropped(s, n)[k] = s[n + 1 + k - 1]
      BY <1>1 DEF Dropped
    <2>2. n + 1 + k - 1 = k + n
      BY <1>1
    <2> QED BY <2>1, <2>2
  <1> QED BY <1>1, <1>2, <1>3, <1>4

(* Sequences and their lengths.                                            *)
LEMMA Typed ==
    ASSUME TypeOK
    PROVE  /\ calls \in Seq(CallsOf(peer)) /\ peer \in {"cn", "dispatcher"} /\ Len(calls) \in Nat
           /\ \A i \in DOMAIN calls : calls[i] \in CallsOf(peer)
           /\ DOMAIN calls = 1 .. Len(calls)
           /\ outgoing \in Seq(Nat) /\ want \in Seq(Nat)
           /\ got \in Seq(Byte) /\ toServer \in Seq(Byte) /\ toClient \in Seq(Nat)
           /\ Len(got) \in Nat /\ Len(toServer) \in Nat /\ Len(toClient) \in Nat
           /\ handled \in Seq([call : Nat, got : Seq(Byte)]) /\ Len(handled) \in Nat /\ DOMAIN handled = 1 .. Len(handled)
           /\ \A h \in DOMAIN handled : handled[h].call \in Nat /\ handled[h].got \in Seq(Byte)
  <1>1. calls \in Seq(CallsOf(peer)) /\ peer \in {"cn", "dispatcher"} /\ outgoing \in Seq(Nat) /\ want \in Seq(Nat)
        /\ got \in Seq(Byte) /\ toServer \in Seq(Byte) /\ toClient \in Seq(Nat)
        /\ handled \in Seq([call : Nat, got : Seq(Byte)])
    BY DEF TypeOK
  <1>2. Len(calls) \in Nat /\ DOMAIN calls = 1 .. Len(calls) /\ Len(handled) \in Nat /\ DOMAIN handled = 1 .. Len(handled)
    BY <1>1
  <1>3. \A i \in DOMAIN calls : calls[i] \in CallsOf(peer)
    BY <1>1, <1>2, ElementOfSeq
  <1>4. ASSUME NEW h \in DOMAIN handled PROVE handled[h].call \in Nat /\ handled[h].got \in Seq(Byte)
    <2> HIDE DEF Byte
    <2>1. handled[h] \in [call : Nat, got : Seq(Byte)]
      BY <1>1, <1>2, ElementOfSeq
    <2> QED BY <2>1
  <1> QED BY <1>1, <1>2, <1>3, <1>4

(* Two sequences of bytes one behind the other.                            *)
LEMMA StreamType ==
    ASSUME NEW s \in Seq(Byte), NEW t \in Seq(Byte)
    PROVE  /\ s \o t \in Seq(Byte) /\ Len(s \o t) = Len(s) + Len(t) /\ DOMAIN (s \o t) = 1 .. Len(s) + Len(t)
           /\ \A k \in 1 .. Len(s) : (s \o t)[k] = s[k]
           /\ \A k \in 1 .. Len(t) : (s \o t)[Len(s) + k] = t[k]
           /\ \A k \in Len(s) + 1 .. Len(s) + Len(t) : (s \o t)[k] = t[k - Len(s)]
  <1> HIDE DEF Byte
  <1>1. PICK l, m \in Nat : l = Len(s) /\ m = Len(t)
    OBVIOUS
  <1>2. \A k \in 1 .. m : (s \o t)[l + k] = t[k]
    <2>1. ASSUME NEW k \in 1 .. m PROVE (s \o t)[l + k] = t[k]
      <3>1. l + k \in 1 .. l + m /\ ~(l + k <= l) /\ l + k - l = k
        OBVIOUS
      <3> QED BY <1>1, <3>1
    <2> QED BY <2>1
  <1>3. \A k \in l + 1 .. l + m : (s \o t)[k] = t[k - l]
    BY <1>1
  <1> QED BY <1>1, <1>2, <1>3

(* Receiving moves bytes within the stream.                                *)
LEMMA StreamTake ==
    ASSUME NEW g \in Seq(Byte), NEW s \in Seq(Byte), NEW n \in 0 .. Len(s)
    PROVE  /\ g \o Taken(s, n) \in Seq(Byte) /\ Len(g \o Taken(s, n)) = Len(g) + n
           /\ \A k \in 1 .. Len(g) + n : (g \o Taken(s, n))[k] = (g \o s)[k]
           /\ (g \o Taken(s, n)) \o Dropped(s, n) \in Seq(Byte)
           /\ Len((g \o Taken(s, n)) \o Dropped(s, n)) = Len(g \o s)
           /\ \A k \in 1 .. Len(g \o s) : ((g \o Taken(s, n)) \o Dropped(s, n))[k] = (g \o s)[k]
  <1> HIDE DEF Byte
  <1>1. PICK l, m \in Nat : l = Len(g) /\ m = Len(s)
    OBVIOUS
  <1>2. PICK t, d : t = Taken(s, n) /\ d = Dropped(s, n)
    OBVIOUS
  <1>3. /\ t \in Seq(Byte) /\ Len(t) = n /\ \A k \in 1 .. n : t[k] = s[k]
        /\ d \in Seq(Byte) /\ Len(d) = m - n /\ \A k \in 1 .. m - n : d[k] = s[k + n]
    BY <1>1, <1>2, TakeDrop
  <1>4. PICK a : a = g \o t
    OBVIOUS
  <1>5. a \in Seq(Byte) /\ Len(a) = l + n /\ (\A k \in 1 .. l : a[k] = g[k]) /\ \A k \in l + 1 .. l + n : a[k] = t[k - l]
    BY <1>1, <1>3, <1>4, StreamType
  <1>6. PICK b : b = g \o s
    OBVIOUS
  <1>7. b \in Seq(Byte) /\ Len(b) = l + m /\ (\A k \in 1 .. l : b[k] = g[k]) /\ \A k \in l + 1 .. l + m : b[k] = s[k - l]
    BY <1>1, <1>6, StreamType
  <1>8. \A k \in 1 .. l + n : a[k] = b[k]
    <2>1. ASSUME NEW k \in l + 1 .. l + n PROVE a[k] = b[k]
      <3>1. k - l \in 1 .. n /\ k \in l + 1 .. l + m
        BY <1>1
      <3> QED BY <1>3, <1>5, <1>7, <3>1
    <2>2. \A k \in 1 .. l + n : k \in 1 .. l \/ k \in l + 1 .. l + n
      BY <1>1
    <2> QED BY <1>5, <1>7, <2>1, <2>2
  <1>9. PICK c : c = a \o d
    OBVIOUS
  <1>10. c \in Seq(Byte) /\ Len(c) = l + m /\ (\A k \in 1 .. l + n : c[k] = a[k]) /\ \A k \in l + n + 1 .. l + m : c[k] = d[k - (l + n)]
    <2>1. /\ a \in Seq(Byte) /\ d \in Seq(Byte) /\ Len(a) = l + n /\ Len(d) = m - n
      BY <1>3, <1>5
    <2>2. l + n + (m - n) = l + m
      BY <1>1
    <2>3. /\ c \in Seq(Byte) /\ Len(c) = Len(a) + Len(d) /\ \A k \in 1 .. Len(a) : c[k] = a[k]
          /\ \A k \in Len(a) + 1 .. Len(a) + Len(d) : c[k] = d[k - Len(a)]
      <3>1. /\ a \o d \in Seq(Byte) /\ Len(a \o d) = Len(a) + Len(d) /\ \A k \in 1 .. Len(a) : (a \o d)[k] = a[k]
            /\ \A k \in Len(a) + 1 .. Len(a) + Len(d) : (a \o d)[k] = d[k - Len(a)]
        BY <2>1, StreamType
      <3> QED BY <1>9, <3>1
    <2> QED BY <2>1, <2>2, <2>3
  <1>11. \A k \in 1 .. l + m : c[k] = b[k]
    <2>1. ASSUME NEW k \in l + n + 1 .. l + m PROVE c[k] = b[k]
      <3>1. k - (l + n) \in 1 .. m - n /\ k \in l + 1 .. l + m /\ k - (l + n) + n = k - l
        BY <1>1
      <3>2. c[k] = d[k - (l + n)] /\ d[k - (l + n)] = s[k - (l + n) + n] /\ b[k] = s[k - l]
        BY <1>3, <1>7, <1>10, <3>1
      <3> QED BY <3>1, <3>2
    <2>2. ASSUME NEW k \in 1 .. l + m, ~(k \in l + n + 1 .. l + m) PROVE k \in 1 .. l + n
      BY <1>1, <2>2
    <2> QED BY <1>8, <1>10, <2>1, <2>2
  <1> QED BY <1>1, <1>2, <1>4, <1>5, <1>6, <1>7, <1>8, <1>9, <1>10, <1>11

(* After a message was taken whole.                                        *)
LEMMA StreamClear ==
    ASSUME NEW g \in Seq(Byte), NEW s \in Seq(Byte), NEW n \in 0 .. Len(s)
    PROVE  /\ <<>> \o Dropped(s, n) \in Seq(Byte) /\ Len(<<>> \o Dropped(s, n)) = Len(g \o s) - (Len(g) + n)
           /\ \A k \in 1 .. Len(<<>> \o Dropped(s, n)) : (<<>> \o Dropped(s, n))[k] = (g \o s)[k + (Len(g) + n)]
  <1> HIDE DEF Byte
  <1>1. PICK l, m \in Nat : l = Len(g) /\ m = Len(s)
    OBVIOUS
  <1>2. PICK d : d = Dropped(s, n)
    OBVIOUS
  <1>3. d \in Seq(Byte) /\ Len(d) = m - n /\ \A k \in 1 .. m - n : d[k] = s[k + n]
    BY <1>1, <1>2, TakeDrop
  <1>4. <<>> \o d = d
    BY <1>3
  <1>5. PICK b : b = g \o s
    OBVIOUS
  <1>6. b \in Seq(Byte) /\ Len(b) = l + m /\ \A k \in l + 1 .. l + m : b[k] = s[k - l]
    BY <1>1, <1>5, StreamType
  <1>7. ASSUME NEW k \in 1 .. m - n PROVE d[k] = b[k + (l + n)]
    <2>1. k + (l + n) \in l + 1 .. l + m /\ k + (l + n) - l = k + n
      BY <1>1
    <2> QED BY <1>3, <1>6, <2>1
  <1>8. Len(d) = Len(b) - (l + n)
    BY <1>1, <1>3, <1>6
  <1> QED BY <1>1, <1>2, <1>3, <1>4, <1>5, <1>7, <1>8

(* A part of the stream is in order when the whole is.                     *)
LEMMA StreamPart ==
    ASSUME StreamInOrder, Stream \in Seq(Byte), Stream' \in Seq(Byte), NEW m \in Nat,
           Len(Stream') <= Len(Stream) - m, \A k \in 1 .. Len(Stream') : Stream'[k] = Stream[k + m],
           Len(Stream') = Len(Stream) - m \/ exit' = "abrupt", exit' # "abrupt" => exit # "abrupt",
           UNCHANGED <<calls, outgoing>>
    PROVE  StreamInOrder'
  <1> HIDE DEF Byte
  <1>1. PICK S, T : S = Stream /\ T = Stream'
    OBVIOUS
  <1>2. PICK a, b \in Nat : a = Len(S) /\ b = Len(T)
    BY <1>1
  <1>3. DOMAIN S = 1 .. a /\ DOMAIN T = 1 .. b /\ b <= a - m /\ (b = a - m \/ exit' = "abrupt")
        /\ \A k \in 1 .. b : T[k] = S[k + m]
    BY <1>1, <1>2
  <1>4. PICK x : x = NextByte
    OBVIOUS
  <1>5. NextByte' = x
    BY <1>4 DEF NextByte, FirstOfNext, ByteAt
  <1>6. \A u, v, d : Apart(u, v, d)' <=> Apart(u, v, d)
    BY DEF Apart, Earlier, LengthAt
  <1>7. \A u : After(u)' = After(u)
    BY DEF After
  <1>8. \A k \in 1 .. a :
        /\ S[k].call \in DOMAIN calls /\ S[k].piece \in DOMAIN Sends(calls[S[k].call])
        /\ S[k].byte \in 1 .. LengthAt(S[k])
        /\ k < a => S[k + 1] = After(S[k])
        /\ \A j \in 1 .. a : j < k => Apart(S[j], S[k], k - j)
        /\ exit # "abrupt" => Apart(S[k], x, a + 1 - k)
        /\ exit # "abrupt" /\ k = a => x = After(S[k])
    BY <1>1, <1>2, <1>3, <1>4 DEF StreamInOrder
  <1>9. ASSUME NEW k \in 1 .. b
        PROVE  /\ T[k].call \in DOMAIN calls /\ T[k].piece \in DOMAIN Sends(calls[T[k].call])
               /\ T[k].byte \in 1 .. LengthAt(T[k])
               /\ k < b => T[k + 1] = After(T[k])
               /\ \A j \in 1 .. b : j < k => Apart(T[j], T[k], k - j)
               /\ exit' # "abrupt" => Apart(T[k], x, b + 1 - k)
               /\ exit' # "abrupt" /\ k = b => x = After(T[k])
    <2>1. k + m \in 1 .. a /\ T[k] = S[k + m]
      BY <1>3
    <2>2. k < b => T[k + 1] = After(T[k])
      <3>1. k < b => k + 1 \in 1 .. b /\ k + m < a /\ k + 1 + m = k + m + 1
        BY <1>3
      <3> QED BY <1>3, <1>8, <2>1, <3>1
    <2>3. ASSUME NEW j \in 1 .. b, j < k PROVE Apart(T[j], T[k], k - j)
      <3>1. j + m \in 1 .. a /\ j + m < k + m /\ k + m - (j + m) = k - j /\ T[j] = S[j + m]
        BY <1>3, <2>3
      <3> QED BY <1>8, <2>1, <3>1
    <2>4. exit' # "abrupt" => Apart(T[k], x, b + 1 - k)
      <3>1. exit' # "abrupt" => exit # "abrupt" /\ a + 1 - (k + m) = b + 1 - k
        BY <1>3
      <3> QED BY <1>8, <2>1, <3>1
    <2>5. exit' # "abrupt" /\ k = b => x = After(T[k])
      <3>1. exit' # "abrupt" /\ k = b => exit # "abrupt" /\ k + m = a
        BY <1>3
      <3> QED BY <1>8, <2>1, <3>1
    <2> QED BY <1>8, <2>1, <2>2, <2>3, <2>4, <2>5
  <1>10. outgoing # <<>> => calls # <<>> /\ RestOf(outgoing, Sends(Last(calls)))
    BY DEF StreamInOrder
  <1>11. \A u : LengthAt(u)' = LengthAt(u)
    BY DEF LengthAt
  <1>12. calls' = calls /\ outgoing' = outgoing
    OBVIOUS
  <1> HIDE DEF Apart, After, LengthAt, NextByte, Stream
  <1> QED BY <1>1, <1>2, <1>3, <1>5, <1>6, <1>7, <1>9, <1>10, <1>11, <1>12 DEF StreamInOrder

(* The next byte of a piece, and the first of the next one.                *)
LEMMA AfterFacts ==
    ASSUME NEW v \in Byte, v.byte \in 1 .. LengthAt(v), LengthAt(v) \in Nat
    PROVE  /\ After(v) \in Byte
           /\ v.byte < LengthAt(v) => After(v) = [call |-> v.call, piece |-> v.piece, byte |-> v.byte + 1]
           /\ v.byte = LengthAt(v) /\ v.piece < Len(Sends(calls[v.call])) =>
                After(v) = [call |-> v.call, piece |-> v.piece + 1, byte |-> 1]
           /\ v.byte = LengthAt(v) /\ ~(v.piece < Len(Sends(calls[v.call]))) =>
                After(v) = [call |-> v.call + 1, piece |-> 1, byte |-> 1]
           /\ Apart(v, After(v), 1)
  <1>1. PICK l \in Nat : l = LengthAt(v)
    OBVIOUS
  <1>2. v = [call |-> v.call, piece |-> v.piece, byte |-> v.byte] /\ v.call \in Nat /\ v.piece \in Nat /\ v.byte \in Nat
    BY DEF Byte
  <1>3. After(v) = IF v.byte < l THEN [v EXCEPT !.byte = @ + 1]
                   ELSE IF v.piece < Len(Sends(calls[v.call])) THEN [call |-> v.call, piece |-> v.piece + 1, byte |-> 1]
                   ELSE [call |-> v.call + 1, piece |-> 1, byte |-> 1]
    BY <1>1 DEF After, LengthAt
  <1>4. CASE v.byte < l
    <2>1. After(v) = [call |-> v.call, piece |-> v.piece, byte |-> v.byte + 1]
      BY <1>2, <1>3, <1>4
    <2> QED BY <1>1, <1>2, <1>4, <2>1 DEF Byte, Apart
  <1>5. CASE v.byte = l /\ v.piece < Len(Sends(calls[v.call]))
    <2>1. After(v) = [call |-> v.call, piece |-> v.piece + 1, byte |-> 1]
      BY <1>2, <1>3, <1>5
    <2> QED BY <1>1, <1>2, <1>5, <2>1 DEF Byte, Apart, Earlier
  <1>6. CASE v.byte = l /\ ~(v.piece < Len(Sends(calls[v.call])))
    <2>1. After(v) = [call |-> v.call + 1, piece |-> 1, byte |-> 1]
      BY <1>2, <1>3, <1>6
    <2> QED BY <1>1, <1>2, <1>6, <2>1 DEF Byte, Apart, Earlier
  <1> QED BY <1>1, <1>4, <1>5, <1>6

(* The stream stays when what the server has and what is under way stay.   *)
LEMMA StreamSame ==
    ASSUME TypeOK, StreamInOrder, UNCHANGED <<calls, outgoing, exit, got, toServer>>
    PROVE  StreamInOrder' /\ Stream' = Stream /\ NextByte' = NextByte /\ First' = First /\ (Some' <=> Some)
  <1> HIDE DEF Byte
  <1>1. Stream' = Stream /\ NextByte' = NextByte
    BY DEF Stream, NextByte, FirstOfNext, ByteAt
  <1>2. Stream \in Seq(Byte) /\ Len(Stream) \in Nat
    <2>1. got \in Seq(Byte) /\ toServer \in Seq(Byte)
      BY Typed
    <2>2. Stream \in Seq(Byte)
      BY <2>1, StreamType DEF Stream
    <2> QED BY <2>2
  <1>3. StreamInOrder'
    <2>1. /\ Len(Stream') <= Len(Stream) - 0 /\ Len(Stream') = Len(Stream) - 0
          /\ \A k \in 1 .. Len(Stream') : Stream'[k] = Stream[k + 0]
      BY <1>1, <1>2
    <2> QED BY <1>1, <1>2, <2>1, StreamPart
  <1> HIDE DEF Stream, NextByte
  <1> QED BY <1>1, <1>3 DEF First, Some

(* What is d bytes after a byte has its next byte d + 1 bytes after it.    *)
LEMMA ApartAfter ==
    ASSUME NEW u \in Byte, NEW v \in Byte, v.byte \in 1 .. LengthAt(v), LengthAt(v) \in Nat, LengthAt(u) \in Nat,
           NEW d \in Nat, Apart(u, v, d)
    PROVE  Apart(u, After(v), d + 1)
  <1>1. PICK w : w = After(v)
    OBVIOUS
  <1>2. /\ w \in Byte
        /\ \/ w.call = v.call /\ w.piece = v.piece /\ w.byte = v.byte + 1
           \/ /\ v.byte = LengthAt(v) /\ w.byte = 1
              /\ (w.call = v.call /\ w.piece = v.piece + 1) \/ w.call = v.call + 1
    BY <1>1, AfterFacts
  <1>3. u.call \in Nat /\ u.piece \in Nat /\ u.byte \in Nat /\ v.call \in Nat /\ v.piece \in Nat /\ v.byte \in Nat
        /\ w.call \in Nat /\ w.piece \in Nat /\ w.byte \in Nat
    BY <1>2 DEF Byte
  <1>4. PICK l, m \in Nat : l = LengthAt(u) /\ m = LengthAt(v)
    OBVIOUS
  <1>5. CASE u.call = v.call /\ u.piece = v.piece /\ v.byte = u.byte + d
    <2>1. l = m
      BY <1>4, <1>5 DEF LengthAt
    <2> QED BY <1>1, <1>2, <1>3, <1>4, <1>5, <2>1 DEF Apart, Earlier
  <1>6. CASE Earlier(u, v) /\ l - u.byte + v.byte <= d
    BY <1>1, <1>2, <1>3, <1>4, <1>6 DEF Apart, Earlier
  <1> QED BY <1>4, <1>5, <1>6 DEF Apart

(* More bytes of the same piece are further apart.                         *)
LEMMA ApartMore ==
    ASSUME NEW u \in Byte, NEW v \in Byte, LengthAt(u) \in Nat, NEW d \in Int, Apart(u, v, d), NEW i \in Nat
    PROVE  Apart(u, [call |-> v.call, piece |-> v.piece, byte |-> v.byte + i], d + i)
  <1>1. u.call \in Nat /\ u.piece \in Nat /\ u.byte \in Nat /\ v.call \in Nat /\ v.piece \in Nat /\ v.byte \in Nat
    BY DEF Byte
  <1>2. PICK l \in Nat : l = LengthAt(u)
    OBVIOUS
  <1> QED BY <1>1, <1>2 DEF Apart, Earlier

(* The byte that is next when these pieces are left, and after n more.     *)
LEMMA Advance ==
    ASSUME TypeOK, NEW i \in DOMAIN calls, NEW r \in Seq(Nat), r # <<>>, RestOf(r, Sends(calls[i])), NEW n \in 1 .. Head(r),
           NEW x, x = ByteAt(i, r),
           NEW y, y = [call |-> x.call, piece |-> x.piece, byte |-> x.byte + (n - 1)]
    PROVE  /\ x \in Byte /\ y \in Byte /\ x.call = i /\ x.byte \in Nat /\ x.byte >= 1 /\ x.piece \in DOMAIN Sends(calls[i])
           /\ LengthAt(x) \in Nat /\ LengthAt(x) - x.byte = Head(r) - 1 /\ x.byte + (n - 1) <= LengthAt(x)
           /\ Less(r, n) \in Seq(Nat) /\ RestOf(Less(r, n), Sends(calls[i]))
           /\ After(y) = IF Less(r, n) = <<>> THEN [call |-> i + 1, piece |-> 1, byte |-> 1] ELSE ByteAt(i, Less(r, n))
           /\ Less(r, n) = <<>> => y = [call |-> i, piece |-> Len(Sends(calls[i])), byte |-> Sends(calls[i])[Len(Sends(calls[i]))]]
  <1>1. i \in Nat /\ peer \in {"cn", "dispatcher"} /\ calls[i] \in CallsOf(peer)
    BY Typed
  <1>3. PICK P : P = Sends(calls[i])
    OBVIOUS
  <1>4. P \in Seq(Nat)
    BY <1>1, <1>3, SendsFacts
  <1>6. RestOf(r, P)
    BY <1>3
  <1>7. PICK s : s = Less(r, n)
    OBVIOUS
  <1>8. /\ s \in Seq(Nat) /\ RestOf(s, P) /\ Head(r) = r[1] /\ r[1] \in Nat
        /\ Len(P) - Len(r) + 1 \in 1 .. Len(P) /\ Len(r) \in Nat /\ Len(P) \in Nat
        /\ r[1] <= P[Len(P) - Len(r) + 1] /\ P[Len(P) - Len(r) + 1] \in Nat
        /\ n < r[1] => s # <<>> /\ Len(s) = Len(r) /\ Head(s) = r[1] - n
        /\ n = r[1] => Len(s) = Len(r) - 1
                       /\ (Len(r) > 1 => s # <<>> /\ Head(s) = P[Len(P) - Len(r) + 2])
                       /\ (s = <<>> <=> Len(r) = 1)
    BY <1>4, <1>6, <1>7, LessFacts
  <1>9. PICK q : q = Len(P) - Len(r) + 1
    OBVIOUS
  <1>10. x = [call |-> i, piece |-> q, byte |-> P[q] - r[1] + 1]
    BY <1>3, <1>8, <1>9 DEF ByteAt
  <1>11. q \in 1 .. Len(P) /\ P[q] \in Nat /\ r[1] \in Nat /\ r[1] <= P[q] /\ n \in 1 .. r[1]
    BY <1>8, <1>9
  <1>12. x \in Byte /\ x.call = i /\ x.piece = q /\ x.byte = P[q] - r[1] + 1 /\ x.byte >= 1 /\ x.byte \in Nat
    BY <1>1, <1>10, <1>11 DEF Byte
  <1>13. y = [call |-> i, piece |-> q, byte |-> P[q] - r[1] + n] /\ y \in Byte
    <2>0. PICK v, w \in Nat : v = P[q] /\ w = r[1]
      BY <1>11
    <2>1. P[q] - r[1] + 1 + (n - 1) = P[q] - r[1] + n /\ P[q] - r[1] + n \in Nat
      <3>1. w <= v /\ n \in 1 .. w
        BY <1>11, <2>0
      <3>2. v - w + 1 + (n - 1) = v - w + n /\ v - w + n \in Nat
        BY <3>1
      <3> QED BY <2>0, <3>2
    <2> QED BY <1>1, <1>11, <1>12, <2>1 DEF Byte
  <1>14. LengthAt(y) = P[q] /\ LengthAt(x) = P[q] /\ Len(Sends(calls[y.call])) = Len(P)
    BY <1>3, <1>12, <1>13 DEF LengthAt
  <1>15. x.byte + (n - 1) <= P[q] /\ y.byte \in 1 .. P[q] /\ P[q] - x.byte = r[1] - 1
    <2>0. PICK v, w \in Nat : v = P[q] /\ w = r[1]
      BY <1>11
    <2>1. w <= v /\ n \in 1 .. w /\ x.byte = v - w + 1 /\ y.byte = v - w + n
      BY <1>11, <1>12, <1>13, <2>0
    <2>2. v - w + 1 + (n - 1) <= v /\ v - w + n \in 1 .. v /\ v - (v - w + 1) = w - 1
      BY <2>1
    <2> QED BY <2>0, <2>1, <2>2
  <1>16. /\ After(y) = IF s = <<>> THEN [call |-> i + 1, piece |-> 1, byte |-> 1] ELSE ByteAt(i, s)
         /\ s = <<>> => y = [call |-> i, piece |-> Len(P), byte |-> P[Len(P)]]
    <2>1. ByteAt(i, s) = [call |-> i, piece |-> Len(P) - Len(s) + 1, byte |-> P[Len(P) - Len(s) + 1] - Head(s) + 1]
      BY <1>3 DEF ByteAt
    <2>2. CASE n < r[1]
      <3>1. ByteAt(i, s) = [call |-> i, piece |-> q, byte |-> P[q] - (r[1] - n) + 1] /\ s # <<>>
        BY <1>8, <1>9, <2>1, <2>2
      <3>2. y.byte < P[q] /\ P[q] - (r[1] - n) + 1 = y.byte + 1
        BY <1>11, <1>13, <2>2
      <3>3. After(y) = [call |-> y.call, piece |-> y.piece, byte |-> y.byte + 1]
        BY <1>11, <1>13, <1>14, <1>15, <3>2, AfterFacts
      <3> QED BY <1>13, <3>1, <3>2, <3>3
    <2>3. CASE n = r[1] /\ Len(r) > 1
      <3>1. s # <<>> /\ Len(P) - Len(s) + 1 = q + 1 /\ Head(s) = P[q + 1] /\ q < Len(P) /\ q + 1 \in 1 .. Len(P)
        <4>1. Len(s) = Len(r) - 1 /\ Head(s) = P[Len(P) - Len(r) + 2] /\ s # <<>>
          BY <1>8, <2>3
        <4>2. PICK a, b \in Nat : a = Len(r) /\ b = Len(P)
          BY <1>8
        <4>3. b - (a - 1) + 1 = q + 1 /\ b - a + 2 = q + 1 /\ q < b /\ q + 1 \in 1 .. b
          BY <1>9, <1>11, <2>3, <4>2
        <4> QED BY <4>1, <4>2, <4>3
      <3>2. P[q + 1] \in Nat
        BY <1>4, <3>1
      <3>3. ByteAt(i, s) = [call |-> i, piece |-> q + 1, byte |-> 1]
        BY <2>1, <3>1, <3>2
      <3>4. y.byte = P[q]
        BY <1>11, <1>13, <2>3
      <3>5. After(y) = [call |-> y.call, piece |-> y.piece + 1, byte |-> 1]
        <4>1. y \in Byte /\ y.byte \in 1 .. LengthAt(y) /\ LengthAt(y) \in Nat /\ y.byte = LengthAt(y)
          BY <1>11, <1>13, <1>14, <1>15, <3>4
        <4>2. y.piece < Len(Sends(calls[y.call]))
          <5>1. y.piece = q /\ Len(Sends(calls[y.call])) = Len(P)
            BY <1>13, <1>14
          <5> QED BY <3>1, <5>1
        <4> QED BY <4>1, <4>2, AfterFacts
      <3> QED BY <1>13, <3>1, <3>3, <3>5
    <2>4. CASE n = r[1] /\ Len(r) = 1
      <3>1. s = <<>> /\ q = Len(P)
        BY <1>8, <1>9, <2>4
      <3>2. y.byte = P[q] /\ ~(q < Len(P))
        BY <1>8, <1>11, <1>13, <2>4, <3>1
      <3>3. After(y) = [call |-> y.call + 1, piece |-> 1, byte |-> 1]
        <4>1. y \in Byte /\ y.byte \in 1 .. LengthAt(y) /\ LengthAt(y) \in Nat /\ y.byte = LengthAt(y)
          BY <1>11, <1>13, <1>14, <1>15, <3>2
        <4>2. ~(y.piece < Len(Sends(calls[y.call])))
          <5>1. y.piece = q /\ Len(Sends(calls[y.call])) = Len(P)
            BY <1>13, <1>14
          <5> QED BY <3>2, <5>1
        <4> QED BY <4>1, <4>2, AfterFacts
      <3> QED BY <1>13, <3>1, <3>2, <3>3
    <2>5. Len(r) >= 1
      OBVIOUS
    <2> QED BY SMTT(20), <1>8, <1>11, <2>2, <2>3, <2>4, <2>5
  <1>19. DOMAIN P = 1 .. Len(P)
    BY <1>4
  <1> QED BY <1>3, <1>7, <1>8, <1>11, <1>12, <1>13, <1>14, <1>15, <1>16, <1>19
(* What is true of every byte of the stream.                               *)
LEMMA Facts ==
    ASSUME TypeOK, StreamInOrder
    PROVE  /\ Stream \in Seq(Byte) /\ Len(Stream) \in Nat /\ Len(Stream) = Len(got) + Len(toServer)
           /\ \A k \in 1 .. Len(Stream) :
                /\ Stream[k] \in Byte /\ Stream[k].call \in DOMAIN calls /\ Stream[k].piece \in DOMAIN Sends(calls[Stream[k].call])
                /\ LengthAt(Stream[k]) \in Nat /\ Stream[k].byte \in 1 .. LengthAt(Stream[k])
                /\ k < Len(Stream) => Stream[k + 1] = After(Stream[k])
                /\ \A j \in 1 .. Len(Stream) : j < k => Apart(Stream[j], Stream[k], k - j)
                /\ exit # "abrupt" => Apart(Stream[k], NextByte, Len(Stream) + 1 - k)
                /\ exit # "abrupt" /\ k = Len(Stream) => NextByte = After(Stream[k])
  <1> HIDE DEF Byte
  <1>1. got \in Seq(Byte) /\ toServer \in Seq(Byte)
    BY Typed
  <1>2. Stream \in Seq(Byte) /\ Len(Stream) = Len(got) + Len(toServer)
    BY <1>1, StreamType DEF Stream
  <1>3. PICK S : S = Stream
    OBVIOUS
  <1>4. S \in Seq(Byte) /\ Len(S) \in Nat /\ DOMAIN S = 1 .. Len(S) /\ \A k \in 1 .. Len(S) : S[k] \in Byte
    BY <1>2, <1>3, ElementOfSeq
  <1>5. \A k \in DOMAIN S :
        /\ S[k].call \in DOMAIN calls /\ S[k].piece \in DOMAIN Sends(calls[S[k].call])
        /\ S[k].byte \in 1 .. LengthAt(S[k])
        /\ k < Len(S) => S[k + 1] = After(S[k])
        /\ \A j \in DOMAIN S : j < k => Apart(S[j], S[k], k - j)
        /\ exit # "abrupt" => Apart(S[k], NextByte, Len(S) + 1 - k)
        /\ exit # "abrupt" /\ k = Len(S) => NextByte = After(S[k])
    BY <1>3 DEF StreamInOrder
  <1>6. ASSUME NEW k \in 1 .. Len(S) PROVE LengthAt(S[k]) \in Nat
    <2>1. S[k].call \in DOMAIN calls /\ S[k].piece \in DOMAIN Sends(calls[S[k].call])
      BY <1>4, <1>5
    <2>2. Sends(calls[S[k].call]) \in Seq(Nat)
      BY <2>1, Typed, SendsFacts
    <2> QED BY <2>1, <2>2, ElementOfSeq DEF LengthAt
  <1> HIDE DEF LengthAt, Apart, After, NextByte
  <1> QED BY <1>2, <1>3, <1>4, <1>5, <1>6

(* Sending some of a piece.                                                *)
LEMMA StreamSend ==
    ASSUME TypeOK, StreamInOrder, ClientSend
    PROVE  /\ StreamInOrder' /\ toServer' \in Seq(Byte) /\ outgoing' \in Seq(Nat) /\ Len(toServer') <= BufCap
           /\ Len(Stream') > Len(Stream) /\ Stream' \in Seq(Byte)
           /\ \A k \in 1 .. Len(Stream) : Stream'[k] = Stream[k]
           /\ Stream'[Len(Stream) + 1] = NextByte
  <1> HIDE DEF Byte
  <1> DEFINE i == Len(calls)
             x == ByteAt(i, outgoing)
  <1>1. PICK n \in AtMost(Head(outgoing), BufCap - Len(toServer)) :
            /\ toServer' = toServer \o [u \in 1 .. n |-> [x EXCEPT !.byte = @ + u - 1]]
            /\ outgoing' = Less(outgoing, n)
    BY DEF ClientSend
  <1>2. /\ exit = "none" /\ exit' = "none" /\ outgoing # <<>> /\ calls' = calls /\ got' = got
    BY DEF ClientSend, serverVars
  <1>3. calls # <<>> /\ RestOf(outgoing, Sends(Last(calls)))
    BY <1>2 DEF StreamInOrder
  <1>4. /\ calls \in Seq(CallsOf(peer)) /\ i \in Nat /\ i \in DOMAIN calls /\ outgoing \in Seq(Nat) /\ Last(calls) = calls[i]
        /\ got \in Seq(Byte) /\ toServer \in Seq(Byte) /\ Len(toServer) <= BufCap
    <2>1. calls \in Seq(CallsOf(peer)) /\ outgoing \in Seq(Nat) /\ got \in Seq(Byte) /\ toServer \in Seq(Byte)
      BY Typed
    <2>2. Len(calls) \in DOMAIN calls /\ Last(calls) = calls[Len(calls)] /\ Len(calls) \in Nat
      BY <1>3, <2>1 DEF Last
    <2>3. Len(toServer) <= BufCap
      BY DEF TypeOK
    <2> QED BY <2>1, <2>2, <2>3
  <1>5. n \in 1 .. Head(outgoing) /\ n \in Nat /\ n >= 1 /\ Len(toServer) + n <= BufCap
    <2>1. Head(outgoing) \in Nat /\ Len(toServer) \in Nat /\ BufCap \in Nat
      BY <1>2, <1>4, Constants
    <2> QED BY <1>1, <2>1 DEF AtMost
  <1>n. n \in Nat /\ n >= 1
    BY <1>5
  <1> DEFINE y == [call |-> x.call, piece |-> x.piece, byte |-> x.byte + (n - 1)]
  <1>6. /\ x \in Byte /\ y \in Byte /\ x.call = i /\ x.byte \in Nat /\ x.byte >= 1 /\ x.piece \in DOMAIN Sends(calls[i])
        /\ LengthAt(x) \in Nat /\ x.byte + (n - 1) <= LengthAt(x)
        /\ Less(outgoing, n) \in Seq(Nat) /\ RestOf(Less(outgoing, n), Sends(calls[i]))
        /\ After(y) = IF Less(outgoing, n) = <<>> THEN [call |-> i + 1, piece |-> 1, byte |-> 1] ELSE ByteAt(i, Less(outgoing, n))
    <2>1. RestOf(outgoing, Sends(calls[i]))
      BY <1>3, <1>4
    <2> QED BY SMTT(20), <1>2, <1>4, <1>5, <2>1, Advance
  <1>7. x = NextByte
    BY <1>2 DEF NextByte
  <1>8. NextByte' = After(y)
    BY <1>1, <1>2, <1>6 DEF NextByte, FirstOfNext, ByteAt
  <1>9. x = [call |-> x.call, piece |-> x.piece, byte |-> x.byte] /\ x.call \in Nat /\ x.piece \in Nat
    BY <1>6 DEF Byte
  <1>10. PICK z : z = x
    OBVIOUS
  <1>11. PICK w : w = y
    OBVIOUS
  <1>12. PICK X : X = [u \in 1 .. n |-> [z EXCEPT !.byte = @ + u - 1]]
    OBVIOUS
  <1>13. toServer' = toServer \o X
    BY <1>1, <1>10, <1>12
  <1>14. /\ z \in Byte /\ w \in Byte /\ z.call = i /\ z.call \in Nat /\ z.piece \in Nat /\ z.byte \in Nat /\ z.byte >= 1
         /\ z.piece \in DOMAIN Sends(calls[i]) /\ LengthAt(z) \in Nat /\ z.byte + (n - 1) <= LengthAt(z)
         /\ z = [call |-> z.call, piece |-> z.piece, byte |-> z.byte]
         /\ w = [call |-> z.call, piece |-> z.piece, byte |-> z.byte + (n - 1)]
         /\ z = NextByte /\ NextByte' = After(w)
    BY <1>6, <1>7, <1>8, <1>9, <1>10, <1>11
  <1>15. /\ outgoing' \in Seq(Nat)
         /\ outgoing' # <<>> => calls # <<>> /\ RestOf(outgoing', Sends(Last(calls)))
    BY <1>1, <1>3, <1>4, <1>6
  <1> HIDE DEF x, y
  <1>16. ASSUME NEW u \in 1 .. n
         PROVE  /\ X[u] = [call |-> z.call, piece |-> z.piece, byte |-> z.byte + (u - 1)] /\ X[u] \in Byte
                /\ X[u].call = z.call /\ X[u].piece = z.piece /\ X[u].byte = z.byte + (u - 1)
                /\ LengthAt(X[u]) = LengthAt(z) /\ X[u].byte \in 1 .. LengthAt(z)
    <2>1. PICK b \in Nat : b = z.byte
      BY <1>14
    <2>2. PICK c, e \in Nat : c = z.call /\ e = z.piece
      BY <1>14
    <2>3. z = [call |-> c, piece |-> e, byte |-> b]
      BY <1>14, <2>1, <2>2
    <2>4. X[u] = [z EXCEPT !.byte = @ + u - 1]
      BY <1>12
    <2>5. X[u] = [call |-> c, piece |-> e, byte |-> b + u - 1]
      BY <2>3, <2>4
    <2>6. b + u - 1 = b + (u - 1) /\ b + (u - 1) \in Nat /\ b + (u - 1) >= 1
      BY <1>14, <2>1
    <2>7. X[u] = [call |-> c, piece |-> e, byte |-> b + (u - 1)] /\ X[u] \in Byte
      BY <2>5, <2>6 DEF Byte
    <2>8. LengthAt(X[u]) = LengthAt(z)
      BY <2>2, <2>7 DEF LengthAt
    <2>9. b + (u - 1) <= LengthAt(z)
      BY <1>5, <1>14, <2>1
    <2> QED BY <1>14, <2>1, <2>2, <2>6, <2>7, <2>8, <2>9
  <1>17. X \in Seq(Byte) /\ Len(X) = n
    <2>1. \A u \in 1 .. n : X[u] \in Byte
      BY <1>16
    <2>2. X = [u \in 1 .. n |-> X[u]]
      BY <1>12
    <2> QED BY <1>5, <2>1, <2>2
  <1>18. PICK S, T : S = Stream /\ T = Stream'
    OBVIOUS
  <1>19. PICK a \in Nat : a = Len(S)
    BY <1>18, Facts
  <1>20. /\ T \in Seq(Byte) /\ Len(T) = a + n /\ toServer' \in Seq(Byte) /\ Len(toServer') <= BufCap
         /\ \A k \in 1 .. a : T[k] = S[k]
         /\ \A u \in 1 .. n : T[a + u] = X[u]
    <2>1. PICK g, t : g = got /\ t = toServer
      OBVIOUS
    <2>2. g \in Seq(Byte) /\ t \in Seq(Byte)
      BY <1>4, <2>1
    <2>3. PICK l, m \in Nat : l = Len(g) /\ m = Len(t)
      BY <2>2
    <2>4. PICK q : q = t \o X
      OBVIOUS
    <2>5. q \in Seq(Byte) /\ Len(q) = m + n /\ (\A k \in 1 .. m : q[k] = t[k]) /\ \A u \in 1 .. n : q[m + u] = X[u]
      BY <1>17, <2>2, <2>3, <2>4, StreamType
    <2>6. S = g \o t /\ T = g \o q /\ toServer' = q
      BY <1>2, <1>13, <1>18, <2>1, <2>4 DEF Stream
    <2>7. a = l + m /\ (\A k \in 1 .. l : S[k] = g[k]) /\ \A k \in 1 .. m : S[l + k] = t[k]
      BY <1>19, <2>2, <2>3, <2>6, StreamType
    <2>a. a = l + m
      BY <2>7
    <2>8. T \in Seq(Byte) /\ Len(T) = l + (m + n) /\ (\A k \in 1 .. l : T[k] = g[k]) /\ \A k \in 1 .. m + n : T[l + k] = q[k]
      <3>1. T \in Seq(Byte) /\ Len(T) = Len(g) + Len(q) /\ (\A k \in 1 .. Len(g) : T[k] = g[k]) /\ \A k \in 1 .. Len(q) : T[Len(g) + k] = q[k]
        BY <2>2, <2>5, <2>6, StreamType
      <3> QED BY <2>3, <2>5, <3>1
    <2>9. ASSUME NEW k \in 1 .. a PROVE T[k] = S[k]
      <3>1. CASE k \in 1 .. l
        BY <2>7, <2>8, <3>1
      <3>2. CASE ~(k \in 1 .. l)
        <4>1. k - l \in 1 .. m /\ k - l \in 1 .. m + n /\ l + (k - l) = k
          BY <1>n, <2>a, <3>2
        <4>2. S[l + (k - l)] = t[k - l] /\ T[l + (k - l)] = q[k - l] /\ q[k - l] = t[k - l]
          BY <2>5, <2>7, <2>8, <4>1
        <4> QED BY <4>1, <4>2
      <3> QED BY <3>1, <3>2
    <2>10. ASSUME NEW u \in 1 .. n PROVE T[a + u] = X[u]
      <3>1. m + u \in 1 .. m + n /\ l + (m + u) = a + u
        BY <1>n, <2>a
      <3>2. T[l + (m + u)] = q[m + u] /\ q[m + u] = X[u]
        BY <2>5, <2>8, <3>1
      <3> QED BY <3>1, <3>2
    <2>11. Len(T) = a + n
      <3>1. l + (m + n) = a + n
        BY <1>n, <2>a
      <3> QED BY <2>8, <3>1
    <2>12. Len(q) <= BufCap
      BY <1>5, <2>1, <2>3, <2>5
    <2> QED BY <2>5, <2>6, <2>8, <2>9, <2>10, <2>11, <2>12
  <1>21. ASSUME NEW k \in 1 .. a
         PROVE  /\ S[k] \in Byte /\ S[k].call \in DOMAIN calls /\ S[k].piece \in DOMAIN Sends(calls[S[k].call])
                /\ LengthAt(S[k]) \in Nat /\ S[k].byte \in 1 .. LengthAt(S[k])
                /\ k < a => S[k + 1] = After(S[k])
                /\ \A j \in 1 .. a : j < k => Apart(S[j], S[k], k - j)
                /\ Apart(S[k], z, a + 1 - k)
                /\ k = a => z = After(S[k])
    <2>1. exit # "abrupt"
      BY <1>2
    <2> QED BY <1>14, <1>18, <1>19, <2>1, Facts
  <1>22. PICK v : v = After(w)
    OBVIOUS
  <1>23. ASSUME NEW k \in 1 .. a + n
         PROVE  /\ T[k].call \in DOMAIN calls /\ T[k].piece \in DOMAIN Sends(calls[T[k].call])
                /\ T[k].byte \in 1 .. LengthAt(T[k])
                /\ k < a + n => T[k + 1] = After(T[k])
                /\ \A j \in 1 .. a + n : j < k => Apart(T[j], T[k], k - j)
                /\ Apart(T[k], v, a + n + 1 - k)
                /\ k = a + n => v = After(T[k])
    <2> HIDE DEF Apart, After, LengthAt
    <2>0. w.byte \in 1 .. LengthAt(w) /\ LengthAt(w) = LengthAt(z)
      <3>1. w.call = z.call /\ w.piece = z.piece /\ w.byte = z.byte + (n - 1)
        BY <1>14
      <3>2. LengthAt(w) = LengthAt(z)
        BY <3>1 DEF LengthAt
      <3> QED BY <1>5, <1>14, <3>1, <3>2
    <2>1. CASE k \in 1 .. a
      <3>1. T[k] = S[k] /\ k \in 1 .. a
        BY <1>20, <2>1
      <3>2. k < a + n => T[k + 1] = After(T[k])
        <4>1. CASE k < a
          <5>1. k + 1 \in 1 .. a
            BY <2>1, <4>1
          <5> QED BY <1>20, <1>21, <3>1, <4>1, <5>1
        <4>2. CASE k = a
          <5>1. T[a + 1] = X[1] /\ X[1] = [call |-> z.call, piece |-> z.piece, byte |-> z.byte + (1 - 1)]
            <6>1. 1 \in 1 .. n
              BY <1>5
            <6> QED BY <1>16, <1>20, <6>1
          <5>2. z.byte + (1 - 1) = z.byte
            BY <1>14
          <5>3. X[1] = z
            BY <1>14, <5>1, <5>2
          <5> QED BY <1>21, <3>1, <4>2, <5>1, <5>3
        <4> QED BY <2>1, <4>1, <4>2
      <3>3. ASSUME NEW j \in 1 .. a + n, j < k PROVE Apart(T[j], T[k], k - j)
        <4>1. j \in 1 .. a
          BY <2>1, <3>3
        <4> QED BY <1>20, <1>21, <3>1, <3>3, <4>1
      <3>4. Apart(T[k], v, a + n + 1 - k)
        <4>1. Apart(S[k], w, a + 1 - k + (n - 1))
          <5>1. a + 1 - k \in Int /\ n - 1 \in Nat
            BY <1>5
          <5>2. S[k] \in Byte /\ LengthAt(S[k]) \in Nat /\ Apart(S[k], z, a + 1 - k)
            BY <1>21, <3>1
          <5> QED BY <1>14, <5>1, <5>2, ApartMore
        <4>2. Apart(S[k], v, a + 1 - k + (n - 1) + 1)
          <5>1. a + 1 - k + (n - 1) \in Nat
            BY <1>5, <2>1
          <5>2. S[k] \in Byte /\ LengthAt(S[k]) \in Nat
            BY <1>21, <3>1
          <5> QED BY <1>14, <1>22, <2>0, <4>1, <5>1, <5>2, ApartAfter
        <4>3. a + 1 - k + (n - 1) + 1 = a + n + 1 - k
          BY <1>5
        <4> QED BY <3>1, <4>2, <4>3
      <3>5. k # a + n
        BY <1>5, <2>1
      <3> QED BY <1>21, <3>1, <3>2, <3>3, <3>4, <3>5
    <2>2. CASE ~(k \in 1 .. a)
      <3>1. PICK u \in 1 .. n : k = a + u
        <4>1. k - a \in 1 .. n /\ k = a + (k - a)
          BY <1>n, <2>2
        <4> QED BY <4>1
      <3>2. T[k] = X[u]
        BY <1>20, <3>1
      <3>3. k < a + n => T[k + 1] = After(T[k])
        <4>1. ASSUME k < a + n PROVE T[k + 1] = After(T[k])
          <5>1. u + 1 \in 1 .. n /\ k + 1 = a + (u + 1)
            BY <1>n, <3>1, <4>1
          <5>2. T[k + 1] = X[u + 1] /\ X[u + 1] = [call |-> z.call, piece |-> z.piece, byte |-> z.byte + (u + 1 - 1)]
            BY <1>16, <1>20, <5>1
          <5>3. X[u].byte < LengthAt(X[u]) /\ z.byte + (u + 1 - 1) = X[u].byte + 1
            <6>1. X[u].byte = z.byte + (u - 1) /\ LengthAt(X[u]) = LengthAt(z) /\ z.byte \in Nat /\ LengthAt(z) \in Nat
              BY <1>14, <1>16
            <6>2. z.byte + (n - 1) <= LengthAt(z) /\ u < n
              BY <1>n, <1>14, <5>1
            <6> QED BY <1>n, <6>1, <6>2
          <5>4. After(X[u]) = [call |-> X[u].call, piece |-> X[u].piece, byte |-> X[u].byte + 1]
            <6>1. X[u] \in Byte /\ X[u].byte \in 1 .. LengthAt(X[u]) /\ LengthAt(X[u]) \in Nat
              BY <1>14, <1>16
            <6> QED BY <5>3, <6>1, AfterFacts
          <5> QED BY <1>16, <3>2, <5>2, <5>3, <5>4
        <4> QED BY <4>1
      <3>4. ASSUME NEW j \in 1 .. a + n, j < k PROVE Apart(T[j], T[k], k - j)
        <4>1. CASE j \in 1 .. a
          <5>1. a + 1 - j \in Int /\ u - 1 \in Nat /\ a + 1 - j + (u - 1) = k - j
            BY <3>1
          <5>2. S[j] \in Byte /\ LengthAt(S[j]) \in Nat /\ Apart(S[j], z, a + 1 - j) /\ T[j] = S[j]
            BY <1>20, <1>21, <4>1
          <5>3. Apart(S[j], X[u], a + 1 - j + (u - 1))
            <6>1. X[u] = [call |-> z.call, piece |-> z.piece, byte |-> z.byte + (u - 1)] /\ z \in Byte
              BY <1>14, <1>16
            <6> QED BY <5>1, <5>2, <6>1, ApartMore
          <5> QED BY <3>2, <5>1, <5>2, <5>3
        <4>2. CASE ~(j \in 1 .. a)
          <5>1. PICK e \in 1 .. n : j = a + e
            <6>1. j - a \in 1 .. n /\ j = a + (j - a)
              BY <1>n, <4>2
            <6> QED BY <6>1
          <5>2. T[j] = X[e]
            BY <1>20, <5>1
          <5>3. X[u].byte = X[e].byte + (k - j)
            <6>1. PICK b \in Nat : b = z.byte
              BY <1>14
            <6>2. X[u].byte = b + (u - 1) /\ X[e].byte = b + (e - 1)
              BY <1>16, <6>1
            <6>3. b + (u - 1) = b + (e - 1) + (k - j)
              BY <1>n, <3>1, <5>1
            <6> QED BY <6>2, <6>3
          <5>4. X[e].call = X[u].call /\ X[e].piece = X[u].piece
            BY <1>16
          <5> QED BY <3>2, <5>2, <5>3, <5>4 DEF Apart
        <4> QED BY <4>1, <4>2
      <3>5. Apart(T[k], v, a + n + 1 - k)
        <4>1. CASE u = n
          <5>1. X[u] = w
            BY <1>14, <1>16, <4>1
          <5>2. Apart(w, v, 1)
            BY <1>14, <1>22, <2>0, AfterFacts
          <5>3. a + n + 1 - k = 1
            BY <3>1, <4>1
          <5> QED BY <3>2, <5>1, <5>2, <5>3
        <4>2. CASE u < n
          <5>1. w.call = X[u].call /\ w.piece = X[u].piece /\ w.byte = X[u].byte + (n - u)
            <6>1. PICK b \in Nat : b = z.byte
              BY <1>14
            <6>2. b + (n - 1) = b + (u - 1) + (n - u)
              BY <1>n
            <6> QED BY <1>14, <1>16, <6>1, <6>2
          <5>2. Apart(X[u], w, n - u)
            BY <5>1 DEF Apart
          <5>3. Apart(X[u], v, n - u + 1)
            <6>1. X[u] \in Byte /\ LengthAt(X[u]) \in Nat /\ n - u \in Nat
              <7>1. n - u \in Nat
                BY <1>n, <4>2
              <7> QED BY <1>14, <1>16, <7>1
            <6> QED BY <1>14, <1>22, <2>0, <5>2, <6>1, ApartAfter
          <5>4. n - u + 1 = a + n + 1 - k
            BY <1>n, <3>1
          <5> QED BY <3>2, <5>3, <5>4
        <4> QED BY <1>n, <4>1, <4>2
      <3>6. k = a + n => v = After(T[k])
        <4>1. ASSUME k = a + n PROVE v = After(T[k])
          <5>1. u = n
            BY <1>n, <3>1, <4>1
          <5>2. X[u] = w
            BY <1>14, <1>16, <5>1
          <5> QED BY <1>22, <3>2, <5>2
        <4> QED BY <4>1
      <3>7. T[k].call \in DOMAIN calls /\ T[k].piece \in DOMAIN Sends(calls[T[k].call]) /\ T[k].byte \in 1 .. LengthAt(T[k])
        BY <1>4, <1>14, <1>16, <3>2
      <3> QED BY <3>3, <3>4, <3>5, <3>6, <3>7
    <2> QED BY <2>1, <2>2
  <1>24. (\A u, e, d : Apart(u, e, d)' = Apart(u, e, d)) /\ (\A u : After(u)' = After(u)) /\ (\A u : LengthAt(u)' = LengthAt(u))
    BY <1>2 DEF Apart, Earlier, LengthAt, After
  <1>25. NextByte' = v /\ DOMAIN T = 1 .. a + n /\ exit' # "abrupt"
    <2>1. DOMAIN T = 1 .. Len(T)
      BY <1>20
    <2> QED BY <1>2, <1>14, <1>20, <1>22, <2>1
  <1>26. StreamInOrder'
    <2> HIDE DEF Apart, After, LengthAt, NextByte, Stream
    <2>1. calls' = calls
      BY <1>2
    <2> QED BY <1>15, <1>18, <1>20, <1>23, <1>24, <1>25, <2>1 DEF StreamInOrder
  <1>27. T[a + 1] = NextByte /\ Len(T) > a
    <2>1. 1 \in 1 .. n /\ T[a + 1] = X[1]
      BY <1>5, <1>20
    <2>2. X[1] = [call |-> z.call, piece |-> z.piece, byte |-> z.byte + (1 - 1)] /\ z.byte + (1 - 1) = z.byte
      BY <1>14, <1>16, <2>1
    <2>3. a + n > a
      BY <1>5
    <2> QED BY <1>14, <1>20, <2>1, <2>2, <2>3
  <1> QED BY <1>15, <1>18, <1>19, <1>20, <1>26, <1>27
(* A new call leaves the earlier ones as they are.                         *)
LEMMA IssueFacts ==
    ASSUME TypeOK, NEW c \in CallsOf(peer), Issue(c)
    PROVE  /\ calls' \in Seq(CallsOf(peer)) /\ Len(calls') = Len(calls) + 1 /\ calls'[Len(calls) + 1] = c
           /\ DOMAIN calls' = 1 .. Len(calls) + 1 /\ Last(calls') = c /\ calls' # <<>>
           /\ \A i \in DOMAIN calls : calls'[i] = calls[i] /\ i \in DOMAIN calls'
           /\ exit = "none" /\ outgoing = <<>> /\ awaited = 0 /\ Len(calls) < MaxCalls
           /\ outgoing' = Sends(c) /\ awaited' = Awaited(c) /\ Sends(c) \in Seq(Nat) /\ Sends(c) # <<>>
           /\ UNCHANGED <<peer, exit, toServer, toClient, closing, serverVars>>
  <1>1. calls \in Seq(CallsOf(peer)) /\ Len(calls) \in Nat /\ peer \in {"cn", "dispatcher"}
    BY Typed
  <1>2. calls' = Append(calls, c)
    BY DEF Issue
  <1>3. /\ calls' \in Seq(CallsOf(peer)) /\ Len(calls') = Len(calls) + 1 /\ calls'[Len(calls) + 1] = c
        /\ DOMAIN calls' = 1 .. Len(calls) + 1 /\ DOMAIN calls = 1 .. Len(calls)
        /\ \A i \in 1 .. Len(calls) : calls'[i] = calls[i]
    BY <1>1, <1>2
  <1>4. Last(calls') = c
    BY <1>1, <1>3 DEF Last
  <1>5. Sends(c) \in Seq(Nat) /\ Sends(c) # <<>>
    BY <1>1, SendsFacts
  <1>6. /\ exit = "none" /\ outgoing = <<>> /\ awaited = 0 /\ Len(calls) < MaxCalls
        /\ outgoing' = Sends(c) /\ awaited' = Awaited(c)
        /\ UNCHANGED <<peer, exit, toServer, toClient, closing, serverVars>>
    BY DEF Issue, Idle
  <1>7. \A i \in 1 .. Len(calls) : i \in 1 .. Len(calls) + 1
    BY <1>1
  <1> QED BY <1>1, <1>3, <1>4, <1>5, <1>6, <1>7

(* A new call continues the stream.                                        *)
LEMMA StreamIssue ==
    ASSUME TypeOK, StreamInOrder, NEW c \in CallsOf(peer), Issue(c)
    PROVE  StreamInOrder' /\ Stream' = Stream /\ NextByte' = NextByte
  <1> HIDE DEF Byte
  <1>1. /\ calls' \in Seq(CallsOf(peer)) /\ Len(calls') = Len(calls) + 1 /\ calls'[Len(calls) + 1] = c
        /\ Last(calls') = c /\ calls' # <<>> /\ exit' = exit /\ got' = got /\ toServer' = toServer
        /\ \A i \in DOMAIN calls : calls'[i] = calls[i] /\ i \in DOMAIN calls'
        /\ outgoing = <<>> /\ outgoing' = Sends(c) /\ Sends(c) \in Seq(Nat) /\ Sends(c) # <<>>
    BY IssueFacts DEF serverVars
  <1>2. PICK P : P = Sends(c)
    OBVIOUS
  <1>3. P \in Seq(Nat) /\ P # <<>> /\ Len(P) - Len(P) + 1 = 1 /\ P[1] - Head(P) + 1 = 1 /\ P[1] \in Nat
    BY <1>1, <1>2
  <1>4. NextByte = [call |-> Len(calls) + 1, piece |-> 1, byte |-> 1]
    BY <1>1 DEF NextByte, FirstOfNext
  <1>5. NextByte' = [call |-> Len(calls) + 1, piece |-> 1, byte |-> 1]
    BY <1>1, <1>2, <1>3 DEF NextByte, ByteAt
  <1>6. Stream' = Stream
    BY <1>1 DEF Stream
  <1>7. RestOf(P, P)
    <2>1. Len(P) <= Len(P) /\ \A k \in 2 .. Len(P) : P[k] = P[Len(P) - Len(P) + k]
      BY <1>3
    <2>2. P[1] <= P[Len(P) - Len(P) + 1]
      BY <1>3
    <2> QED BY <1>3, <2>1, <2>2 DEF RestOf
  <1>8. ASSUME NEW u, u.call \in DOMAIN calls
        PROVE  LengthAt(u)' = LengthAt(u) /\ After(u)' = After(u)
    BY <1>1, <1>8 DEF LengthAt, After
  <1>9. ASSUME NEW u, u.call \in DOMAIN calls, NEW v, NEW d
        PROVE  Apart(u, v, d)' = Apart(u, v, d)
    BY <1>8, <1>9 DEF Apart, Earlier
  <1>10. PICK S : S = Stream
    OBVIOUS
  <1>11. PICK x : x = NextByte
    OBVIOUS
  <1>12. NextByte' = x
    BY <1>4, <1>5, <1>11
  <1>13. \A k \in DOMAIN S :
        /\ S[k].call \in DOMAIN calls /\ S[k].piece \in DOMAIN Sends(calls[S[k].call])
        /\ S[k].byte \in 1 .. LengthAt(S[k])
        /\ k < Len(S) => S[k + 1] = After(S[k])
        /\ \A j \in DOMAIN S : j < k => Apart(S[j], S[k], k - j)
        /\ exit # "abrupt" => Apart(S[k], x, Len(S) + 1 - k)
        /\ exit # "abrupt" /\ k = Len(S) => x = After(S[k])
    BY <1>10, <1>11 DEF StreamInOrder
  <1> HIDE DEF LengthAt, Apart, After, NextByte, Stream
  <1>14. ASSUME NEW k \in DOMAIN S
         PROVE  /\ S[k].call \in DOMAIN calls' /\ S[k].piece \in DOMAIN Sends(calls'[S[k].call])
                /\ S[k].byte \in 1 .. LengthAt(S[k])'
                /\ k < Len(S) => S[k + 1] = After(S[k])'
                /\ \A j \in DOMAIN S : j < k => Apart(S[j], S[k], k - j)'
                /\ exit # "abrupt" => Apart(S[k], x, Len(S) + 1 - k)'
                /\ exit # "abrupt" /\ k = Len(S) => x = After(S[k])'
    BY <1>1, <1>8, <1>9, <1>13
  <1>15. outgoing' # <<>> => calls' # <<>> /\ RestOf(outgoing', Sends(Last(calls')))
    BY <1>1, <1>2, <1>7
  <1>16. Stream' = S /\ exit' = exit /\ NextByte = x
    BY <1>1, <1>6, <1>10, <1>11
  <1> QED BY <1>12, <1>14, <1>15, <1>16, <1>10 DEF StreamInOrder

(* The server takes some bytes, and keeps them,                            *)
LEMMA ServerTakes ==
    ASSUME TypeOK, StreamInOrder, NEW n \in 0 .. Len(toServer),
           toServer' = Dropped(toServer, n), got' = got \o Taken(toServer, n), UNCHANGED <<calls, outgoing, exit>>
    PROVE  /\ StreamInOrder' /\ toServer' \in Seq(Byte) /\ got' \in Seq(Byte) /\ NextByte' = NextByte
           /\ Len(toServer') = Len(toServer) - n /\ Len(got') = Len(got) + n
           /\ Stream' \in Seq(Byte) /\ Len(Stream') = Len(Stream) /\ \A k \in 1 .. Len(Stream) : Stream'[k] = Stream[k]
           /\ \A k \in 1 .. Len(got) + n : got'[k] = Stream[k]
  <1> HIDE DEF Byte
  <1>1. got \in Seq(Byte) /\ toServer \in Seq(Byte)
    BY Typed
  <1>2. toServer' \in Seq(Byte) /\ Len(toServer') = Len(toServer) - n
    BY <1>1, TakeDrop
  <1>3. /\ got' \in Seq(Byte) /\ Len(got') = Len(got) + n
        /\ \A k \in 1 .. Len(got) + n : got'[k] = Stream[k]
        /\ Stream' \in Seq(Byte) /\ Len(Stream') = Len(Stream) /\ \A k \in 1 .. Len(Stream) : Stream'[k] = Stream[k]
    BY <1>1, StreamTake DEF Stream
  <1>4. Stream \in Seq(Byte) /\ Len(Stream) \in Nat
    BY Facts
  <1>5. StreamInOrder'
    <2>1. /\ Len(Stream') <= Len(Stream) - 0 /\ Len(Stream') = Len(Stream) - 0
          /\ \A k \in 1 .. Len(Stream') : Stream'[k] = Stream[k + 0]
      <3>1. \A k \in 1 .. Len(Stream') : k + 0 = k
        BY <1>3, <1>4
      <3>2. Len(Stream) - 0 = Len(Stream) /\ Len(Stream') <= Len(Stream)
        BY <1>3, <1>4
      <3> QED BY <1>3, <3>1, <3>2
    <2> QED BY <1>3, <1>4, <2>1, StreamPart
  <1>6. NextByte' = NextByte
    BY DEF NextByte, FirstOfNext, ByteAt
  <1> QED BY <1>2, <1>3, <1>5, <1>6

(* or takes the rest of a message.                                         *)
LEMMA ServerClears ==
    ASSUME TypeOK, StreamInOrder, NEW n \in 0 .. Len(toServer),
           toServer' = Dropped(toServer, n), got' = <<>>, UNCHANGED <<calls, outgoing, exit>>
    PROVE  /\ StreamInOrder' /\ toServer' \in Seq(Byte) /\ NextByte' = NextByte
           /\ Len(toServer') = Len(toServer) - n
           /\ Stream' \in Seq(Byte) /\ Len(Stream') = Len(Stream) - (Len(got) + n)
           /\ \A k \in 1 .. Len(Stream') : Stream'[k] = Stream[k + (Len(got) + n)]
  <1> HIDE DEF Byte
  <1>1. got \in Seq(Byte) /\ toServer \in Seq(Byte)
    BY Typed
  <1>2. toServer' \in Seq(Byte) /\ Len(toServer') = Len(toServer) - n
    BY <1>1, TakeDrop
  <1>3. /\ Stream' \in Seq(Byte) /\ Len(Stream') = Len(Stream) - (Len(got) + n)
        /\ \A k \in 1 .. Len(Stream') : Stream'[k] = Stream[k + (Len(got) + n)]
    BY <1>1, StreamClear DEF Stream
  <1>4. Stream \in Seq(Byte) /\ Len(Stream) \in Nat /\ Len(got) + n \in Nat
    BY <1>1, Facts
  <1>5. StreamInOrder'
    <2>1. Len(Stream') <= Len(Stream) - (Len(got) + n)
      BY <1>3, <1>4
    <2> QED BY <1>3, <1>4, <2>1, StreamPart
  <1>6. NextByte' = NextByte
    BY DEF NextByte, FirstOfNext, ByteAt
  <1> QED BY <1>2, <1>3, <1>5, <1>6

(* The client ends: a reset may take the last bytes.                       *)
LEMMA StreamClose ==
    ASSUME TypeOK, StreamInOrder, exit = "none", CloseConnection
    PROVE  /\ StreamInOrder' /\ toServer' \in Seq(Byte) /\ Len(toServer') <= Len(toServer) /\ NextByte' = NextByte
           /\ Stream' \in Seq(Byte) /\ Len(Stream') <= Len(Stream)
           /\ \A k \in 1 .. Len(Stream') : Stream'[k] = Stream[k]
           /\ exit' # "abrupt" => Stream' = Stream
  <1> HIDE DEF Byte
  <1>1. got \in Seq(Byte) /\ toServer \in Seq(Byte) /\ Len(toServer) \in Nat /\ Len(got) \in Nat
    BY Typed
  <1>2. got' = got /\ calls' = calls /\ outgoing' = outgoing
    BY DEF CloseConnection, serverVars
  <1>3. Stream \in Seq(Byte) /\ Len(Stream) \in Nat /\ Len(Stream) = Len(got) + Len(toServer)
    BY Facts
  <1>4. PICK n \in 0 .. Len(toServer) : toServer' = Taken(toServer, n) /\ (exit' # "abrupt" => toServer' = toServer)
    <2>1. CASE toClient = <<>>
      <3>1. toServer' = toServer
        BY <2>1 DEF CloseConnection
      <3>2. Len(toServer) \in 0 .. Len(toServer) /\ toServer = Taken(toServer, Len(toServer))
        <4>1. PICK t : t = Taken(toServer, Len(toServer))
          OBVIOUS
        <4>2. Len(toServer) \in 0 .. Len(toServer)
          BY <1>1
        <4>3. t \in Seq(Byte) /\ Len(t) = Len(toServer) /\ \A k \in 1 .. Len(toServer) : t[k] = toServer[k]
          BY <1>1, <4>1, <4>2, TakeDrop
        <4>4. t = toServer
          BY <1>1, <4>3, SeqEqual
        <4> QED BY <4>1, <4>2, <4>4
      <3> QED BY <3>1, <3>2
    <2>2. CASE toClient # <<>>
      <3>1. exit' = "abrupt" /\ \E n \in 0 .. Len(toServer) : toServer' = Taken(toServer, n)
        BY <2>2 DEF CloseConnection
      <3> QED BY <3>1
    <2> QED BY <2>1, <2>2
  <1>5. toServer' \in Seq(Byte) /\ Len(toServer') = n /\ \A k \in 1 .. n : toServer'[k] = toServer[k]
    BY <1>1, <1>4, TakeDrop
  <1>6. /\ Stream' \in Seq(Byte) /\ Len(Stream') = Len(got) + n
        /\ \A k \in 1 .. Len(got) + n : Stream'[k] = Stream[k]
    <2>1. PICK g, t, p : g = got /\ t = toServer /\ p = Taken(toServer, n)
      OBVIOUS
    <2>2. g \o p \in Seq(Byte) /\ Len(g \o p) = Len(g) + n /\ \A k \in 1 .. Len(g) + n : (g \o p)[k] = (g \o t)[k]
      BY <1>1, <2>1, StreamTake
    <2> QED BY <1>2, <1>4, <2>1, <2>2 DEF Stream
  <1>7. exit' # "abrupt" => Stream' = Stream
    BY <1>2, <1>4 DEF Stream
  <1>8. StreamInOrder'
    <2>1. /\ Len(Stream') <= Len(Stream) - 0
          /\ \A k \in 1 .. Len(Stream') : Stream'[k] = Stream[k + 0]
      <3>1. \A k \in 1 .. Len(Stream') : k + 0 = k
        BY <1>1, <1>6
      <3>2. Len(Stream) - 0 = Len(Stream) /\ Len(Stream') <= Len(Stream)
        BY <1>1, <1>3, <1>6
      <3> QED BY <1>6, <3>1, <3>2
    <2>2. Len(Stream') = Len(Stream) - 0 \/ exit' = "abrupt"
      BY <1>3, <1>7
    <2> QED BY <1>2, <1>3, <1>6, <2>1, <2>2, StreamPart
  <1>9. NextByte' = NextByte
    BY <1>2 DEF NextByte, FirstOfNext, ByteAt
  <1>10. Len(toServer') <= Len(toServer) /\ Len(Stream') <= Len(Stream)
    BY <1>1, <1>3, <1>5, <1>6
  <1>11. \A k \in 1 .. Len(Stream') : Stream'[k] = Stream[k]
    BY <1>6
  <1> QED BY <1>5, <1>6, <1>7, <1>8, <1>9, <1>10, <1>11
(* The bytes from one to the end of its piece are of that piece.           *)
LEMMA OfPiece ==
    ASSUME TypeOK, StreamInOrder, NEW j \in 1 .. Len(Stream), NEW k \in 1 .. Len(Stream), j <= k,
           k - j <= LengthAt(Stream[j]) - Stream[j].byte
    PROVE  Stream[k] = [call |-> Stream[j].call, piece |-> Stream[j].piece, byte |-> Stream[j].byte + (k - j)]
  <1> HIDE DEF Byte, LengthAt, Apart
  <1>1. PICK u, v : u = Stream[j] /\ v = Stream[k]
    OBVIOUS
  <1>2. /\ u \in Byte /\ v \in Byte /\ LengthAt(u) \in Nat /\ LengthAt(v) \in Nat /\ v.byte \in 1 .. LengthAt(v)
        /\ j < k => Apart(u, v, k - j)
    BY <1>1, Facts
  <1>3. /\ u.call \in Nat /\ u.piece \in Nat /\ u.byte \in Nat /\ v.call \in Nat /\ v.piece \in Nat /\ v.byte \in Nat
        /\ u = [call |-> u.call, piece |-> u.piece, byte |-> u.byte] /\ v = [call |-> v.call, piece |-> v.piece, byte |-> v.byte]
        /\ v.byte >= 1
    BY <1>2 DEF Byte
  <1>4. j \in Nat /\ k \in Nat
    BY Facts
  <1>5. CASE j = k
    <2>1. u.byte + (k - j) = u.byte
      BY <1>3, <1>4, <1>5
    <2> QED BY <1>1, <1>3, <1>5, <2>1
  <1>6. CASE j < k
    <2>1. PICK l \in Nat : l = LengthAt(u)
      BY <1>2
    <2>2. k - j <= l - u.byte
      BY <1>1, <2>1
    <2>3. ~(l - u.byte + v.byte <= k - j)
      BY <1>3, <1>4, <2>1, <2>2
    <2>4. u.call = v.call /\ u.piece = v.piece /\ v.byte = u.byte + (k - j)
      BY <1>2, <1>6, <2>1, <2>3 DEF Apart
    <2> QED BY <1>1, <1>3, <2>4
  <1> QED BY <1>4, <1>5, <1>6

(* Up to a header's length, bytes that follow each other are of that header.*)
LEMMA HeaderBytes ==
    ASSUME TypeOK, StreamInOrder, NEW k \in 1 .. Len(Stream), Stream[1].piece = 1, Stream[1].byte = 1, k <= HeaderLen
    PROVE  Stream[k] = [call |-> Stream[1].call, piece |-> 1, byte |-> k]
  <1> HIDE DEF Byte
  <1>1. Len(Stream) \in Nat /\ 1 \in 1 .. Len(Stream) /\ 1 <= k /\ k \in Nat /\ HeaderLen \in Nat
    BY Facts, Constants
  <1>2. Stream[1].call \in DOMAIN calls
    BY <1>1, Facts
  <1>3. LengthAt(Stream[1]) = HeaderLen
    BY <1>2, Typed, SendsFacts DEF LengthAt
  <1>4. k - 1 <= LengthAt(Stream[1]) - Stream[1].byte
    BY <1>1, <1>3
  <1>5. Stream[k] = [call |-> Stream[1].call, piece |-> Stream[1].piece, byte |-> Stream[1].byte + (k - 1)]
    BY <1>1, <1>4, OfPiece
  <1>6. 1 + (k - 1) = k
    BY <1>1
  <1> QED BY <1>5, <1>6

(* Calls come in the order in which they were made.                        *)
LEMMA CallsInOrder ==
    ASSUME TypeOK, StreamInOrder, NEW j \in 1 .. Len(Stream), NEW k \in 1 .. Len(Stream), j <= k
    PROVE  Stream[j].call <= Stream[k].call /\ Stream[j].call \in Nat /\ Stream[k].call \in Nat
  <1> HIDE DEF Byte, LengthAt, Apart
  <1>1. PICK u, v : u = Stream[j] /\ v = Stream[k]
    OBVIOUS
  <1>2. u.call \in Nat /\ v.call \in Nat /\ (j < k => Apart(u, v, k - j))
    BY <1>1, Facts, Typed DEF Byte
  <1>3. j \in Nat /\ k \in Nat
    BY Facts
  <1>4. u.call <= v.call
    BY <1>1, <1>2, <1>3 DEF Apart, Earlier
  <1> QED BY <1>1, <1>2, <1>4

(* The first byte that is left when the server has taken a message: it     *)
(* follows the last one it took.                                           *)
LEMMA FirstAfter ==
    ASSUME TypeOK, StreamInOrder, NEW n \in 0 .. Len(toServer), NEW m, m = Len(got) + n, m >= 1,
           toServer' = Dropped(toServer, n), got' = <<>>, UNCHANGED <<calls, outgoing, exit>>, Some'
    PROVE  /\ First' = After(Stream[m]) /\ m \in 1 .. Len(Stream)
           /\ \A j \in 1 .. m : Apart(Stream[j], First', m + 1 - j)
  <1> HIDE DEF Byte, LengthAt, Apart, After, NextByte, Stream
  <1>1. /\ Stream' \in Seq(Byte) /\ Len(Stream') = Len(Stream) - m
        /\ \A k \in 1 .. Len(Stream') : Stream'[k] = Stream[k + m]
        /\ NextByte' = NextByte
    BY ServerClears
  <1>2. Len(Stream) \in Nat /\ Len(Stream) = Len(got) + Len(toServer) /\ Len(got) \in Nat /\ Len(toServer) \in Nat
    BY Facts, Typed
  <1>3. m \in 1 .. Len(Stream) /\ m \in Nat
    BY <1>2
  <1>4. CASE Stream' = <<>>
    <2>1. exit # "abrupt" /\ First' = NextByte /\ m = Len(Stream)
      <3>1. exit # "abrupt"
        BY <1>4 DEF Some
      <3>2. Len(Stream') = 0
        BY <1>4
      <3>3. m = Len(Stream)
        BY <1>1, <1>2, <1>3, <3>2
      <3> QED BY <1>1, <1>4, <3>1, <3>3 DEF First
    <2>2. \A j \in 1 .. m : j \in 1 .. Len(Stream) /\ Len(Stream) + 1 - j = m + 1 - j
      BY <1>3, <2>1
    <2> QED BY <1>3, <2>1, <2>2, Facts
  <1>5. CASE Stream' # <<>>
    <2>1. Len(Stream') >= 1
      BY <1>1, <1>5
    <2>2. m + 1 \in 1 .. Len(Stream) /\ 1 + m = m + 1 /\ m < Len(Stream) /\ 1 \in 1 .. Len(Stream')
      BY <1>1, <1>2, <1>3, <2>1
    <2>3. First' = Stream[m + 1]
      BY <1>1, <1>5, <2>2 DEF First
    <2>4. \A j \in 1 .. m : j \in 1 .. Len(Stream) /\ j < m + 1
      BY <1>3
    <2> QED BY <1>3, <2>2, <2>3, <2>4, Facts
  <1> QED BY <1>4, <1>5

(* A message that begins with the first byte of a call is the next one.    *)
LEMMA TurnOf ==
    ASSUME TypeOK, StreamInOrder, HandledInTurn, node = "up", Stream # <<>>
    PROVE  /\ 1 \in 1 .. Len(Stream) /\ Stream[1].call \in DOMAIN calls /\ Stream[1].call \in Nat
           /\ Stream[1].piece = 1 => /\ Len(handled) < Stream[1].call
                                     /\ ~lost => Stream[1] = [call |-> Len(handled) + 1, piece |-> 1, byte |-> 1]
           /\ lost => \A h \in DOMAIN handled : handled[h].call < Stream[1].call
           /\ ~lost => Stream[1] = [call |-> Len(handled) + 1, piece |-> 1, byte |-> 1] \/
                /\ at \in {"header", "reply", "left"} /\ handled # <<>> /\ calls[Len(handled)].kind = "build"
                /\ Stream[1] = [call |-> Len(handled), piece |-> 2, byte |-> 1]
  <1> HIDE DEF Byte, Stream
  <1>1. Stream \in Seq(Byte) /\ 1 \in 1 .. Len(Stream) /\ Stream[1].call \in DOMAIN calls /\ Stream[1].call \in Nat /\ Stream[1].call >= 1
    <2>1. Stream \in Seq(Byte)
      BY Facts
    <2>2. 1 \in 1 .. Len(Stream)
      BY <2>1
    <2>3. Stream[1].call \in DOMAIN calls
      BY <2>2, Facts
    <2>4. DOMAIN calls = 1 .. Len(calls) /\ Len(calls) \in Nat
      BY Typed
    <2> QED BY <2>1, <2>2, <2>3, <2>4
  <1>2. First = Stream[1] /\ Some
    BY DEF First, Some
  <1>3. lost => \A h \in DOMAIN handled : handled[h].call < Stream[1].call
    BY <1>2 DEF HandledInTurn
  <1>4. ~lost => Stream[1] = [call |-> Len(handled) + 1, piece |-> 1, byte |-> 1] \/
            /\ at \in {"header", "reply", "left"} /\ handled # <<>> /\ calls[Len(handled)].kind = "build"
            /\ Stream[1] = [call |-> Len(handled), piece |-> 2, byte |-> 1]
    BY <1>2 DEF HandledInTurn, Turn
  <1>5. Stream[1].piece = 1 /\ ~lost => Stream[1] = [call |-> Len(handled) + 1, piece |-> 1, byte |-> 1]
    BY <1>4
  <1>6. lost => Len(handled) < Stream[1].call
    <2>1. Len(handled) \in Nat /\ DOMAIN handled = 1 .. Len(handled) /\ handled \in Seq([call : Nat, got : Seq(Byte)])
      BY Typed
    <2>2. CASE Len(handled) = 0
      BY <1>1, <2>2
    <2>3. CASE Len(handled) # 0
      <3>1. Len(handled) \in DOMAIN handled
        BY <2>1, <2>3
      <3>2. handled[Len(handled)].call \in Nat
        BY <3>1, Typed
      <3>3. Len(handled) <= handled[Len(handled)].call
        BY <3>1 DEF HandledInTurn
      <3>4. lost => handled[Len(handled)].call < Stream[1].call
        BY <1>3, <3>1
      <3>5. Len(handled) \in Nat
        BY <2>1
      <3> QED BY <1>1, <3>2, <3>3, <3>4, <3>5
    <2> QED BY <2>2, <2>3
  <1>7. Stream[1].piece = 1 /\ ~lost => Len(handled) < Stream[1].call
    <2>1. Len(handled) \in Nat
      BY Typed
    <2> QED BY <1>5, <2>1
  <1> QED BY <1>1, <1>3, <1>4, <1>5, <1>6, <1>7
-----------------------------------------------------------------------------
(* The client's steps.                                                     *)

(* What the server has is the beginning of the stream.                     *)
LEMMA GotBytes ==
    ASSUME TypeOK, StreamInOrder, NEW k \in 1 .. Len(got)
    PROVE  got[k] = Stream[k] /\ got[k] \in Byte /\ got[k].call \in DOMAIN calls /\ k \in 1 .. Len(Stream)
  <1> HIDE DEF Byte
  <1>1. got \in Seq(Byte) /\ toServer \in Seq(Byte) /\ Len(got) \in Nat /\ Len(toServer) \in Nat
    BY Typed
  <1>2. got[k] = Stream[k]
    BY <1>1, StreamType DEF Stream
  <1>3. k \in 1 .. Len(Stream)
    BY <1>1, Facts
  <1> HIDE DEF Stream
  <1> QED BY <1>2, <1>3, Facts

(* The work of a handler does not depend on later calls.                   *)
LEMMA AllBytesStay ==
    ASSUME NEW i \in DOMAIN calls, calls'[i] = calls[i], NEW units, AllBytesOf(i, units)
    PROVE  AllBytesOf(i, units)'
  <1>1. ASSUME NEW u, u.call = i PROVE After(u)' = After(u)
    BY <1>1 DEF After
  <1>2. \A k \in DOMAIN units : units[k].call = i
    BY DEF AllBytesOf
  <1>3. \A k \in DOMAIN units : After(units[k])' = After(units[k])
    BY <1>1, <1>2
  <1> HIDE DEF After
  <1> QED BY <1>3 DEF AllBytesOf

(* The calls handled are calls of the client.                              *)
LEMMA HandledCalls ==
    ASSUME TypeOK, HandledInTurn, NEW h \in DOMAIN handled
    PROVE  handled[h].call \in DOMAIN calls /\ h \in DOMAIN calls /\ h \in Nat /\ h >= 1 /\ handled[h].call \in Nat
  <1>1. h \in 1 .. Len(handled) /\ Len(handled) \in Nat /\ Len(calls) \in Nat /\ DOMAIN calls = 1 .. Len(calls) /\ handled[h].call \in Nat
    BY Typed
  <1>2. h <= handled[h].call /\ handled[h].call <= Len(calls)
    BY DEF HandledInTurn
  <1> QED BY <1>1, <1>2

(* A call the client waits for is no score and has a reply.                *)
LEMMA WaitsFacts ==
    ASSUME NEW p \in {"cn", "dispatcher"}, NEW c \in CallsOf(p)
    PROVE  /\ Reply(c) \in Nat /\ Waits(c) \in BOOLEAN
           /\ Waits(c) => Reply(c) > 0 /\ Awaited(c) = Reply(c) /\ c.kind # "score"
           /\ ~Waits(c) => Awaited(c) = 0 /\ (c.kind # "score" => Reply(c) = 0)
           /\ p = "dispatcher" => (Waits(c) <=> c.kind = "register")
  <1>1. Reply(c) \in Nat /\ (Awaited(c) = IF c.kind = "score" THEN 0 ELSE Reply(c))
    BY CallFacts
  <1>2. p = "dispatcher" => c.kind \in {"register", "load", "score"}
    BY CallFacts
  <1>3. c.kind = "register" => Reply(c) = 1
    BY DEF Reply
  <1>4. c.kind = "load" => Reply(c) = 0
    BY DEF Reply
  <1>5. p = "dispatcher" => (Waits(c) <=> c.kind = "register")
    BY <1>2, <1>3, <1>4 DEF Waits
  <1> QED BY <1>1, <1>5 DEF Waits

(* A client that waits for nothing has its replies.                        *)
LEMMA WhenIdle ==
    ASSUME TypeOK, RepliesMatch, exit # "abrupt", awaited = 0
    PROVE  /\ owed = 0 /\ (peer = "cn" \/ LastWaits \/ calls = <<>> => toClient = <<>>)
           /\ LastWaits => Len(handled) >= Len(calls)
  <1>1. owed \in Nat /\ toClient \in Seq(Nat) /\ Len(toClient) \in Nat /\ Len(calls) \in Nat /\ Len(handled) \in Nat
    BY Typed DEF TypeOK
  <1>2. ASSUME LastWaits PROVE Reply(Last(calls)) \in Nat /\ Reply(Last(calls)) > 0
    <2>1. calls # <<>> /\ calls \in Seq(CallsOf(peer)) /\ Waits(Last(calls))
      BY <1>2, Typed DEF LastWaits
    <2>2. Last(calls) = calls[Len(calls)] /\ Len(calls) \in DOMAIN calls
      BY <2>1 DEF Last
    <2> QED BY <2>1, <2>2, Typed, WaitsFacts
  <1>3. ASSUME LastWaits PROVE owed = 0 /\ Len(toClient) = 0 /\ Len(handled) >= Len(calls)
    <2>1. 0 = Len(toClient) + owed + (IF Len(handled) < Len(calls) THEN Reply(Last(calls)) ELSE 0)
      BY <1>3 DEF RepliesMatch, Balanced
    <2> QED BY <1>1, <1>2, <1>3, <2>1
  <1>4. ~LastWaits => owed = 0 /\ (peer = "cn" => toClient = <<>>)
    BY DEF RepliesMatch, Balanced
  <1>5. calls = <<>> => toClient = <<>>
    BY DEF RepliesMatch, OnlyAwaited
  <1>6. Len(toClient) = 0 => toClient = <<>>
    BY <1>1
  <1> QED BY <1>3, <1>4, <1>5, <1>6

(* The client calls (Issue).                                               *)
LEMMA IssueKeeps ==
    ASSUME WireInv, NEW c \in CallsOf(peer), Issue(c)
    PROVE  WireInv'
  <1> HIDE DEF Byte
  <1>i. /\ TypeOK /\ NoStoreAfterError /\ StreamInOrder /\ HandledInTurn /\ PositionsMatch /\ RepliesMatch
        /\ EndsMatch /\ OwnBytesOnly /\ NodeOutlivesCleanExit
    BY DEF WireInv
  <1>1. /\ calls' \in Seq(CallsOf(peer)) /\ Len(calls') = Len(calls) + 1 /\ calls'[Len(calls) + 1] = c
        /\ DOMAIN calls' = 1 .. Len(calls) + 1 /\ Last(calls') = c /\ calls' # <<>>
        /\ \A i \in DOMAIN calls : calls'[i] = calls[i] /\ i \in DOMAIN calls'
        /\ exit = "none" /\ outgoing = <<>> /\ awaited = 0 /\ Len(calls) < MaxCalls
        /\ outgoing' = Sends(c) /\ awaited' = Awaited(c) /\ Sends(c) \in Seq(Nat) /\ Sends(c) # <<>>
        /\ UNCHANGED <<peer, exit, toServer, toClient, closing, serverVars>>
    BY <1>i, IssueFacts
  <1>2. /\ UNCHANGED <<peer, exit, toServer, toClient, closing>>
        /\ UNCHANGED <<at, total, got, want, owed, node, handled, lost>>
    BY <1>1 DEF serverVars
  <1>3. /\ peer \in {"cn", "dispatcher"} /\ Len(calls) \in Nat /\ DOMAIN calls = 1 .. Len(calls)
        /\ Len(handled) \in Nat /\ DOMAIN handled = 1 .. Len(handled) /\ MaxCalls \in Nat
    BY <1>i, Typed, Constants
  <1>4. StreamInOrder' /\ Stream' = Stream /\ NextByte' = NextByte
    BY <1>i, StreamIssue
  <1>5. c.kind = "register" <=> (peer = "dispatcher" /\ calls = <<>>)
    <2>1. peer = "dispatcher" => (c.kind = "register" <=> calls = <<>>)
      BY DEF Issue
    <2>2. peer = "cn" => c.kind # "register"
      BY <1>3, CallFacts
    <2> QED BY <1>3, <2>1, <2>2
  <1>6. TypeOK'
    <2>1. Awaited(c) \in Nat
      BY <1>3, CallFacts
    <2>2. Len(handled) <= Len(calls') /\ Len(calls') <= MaxCalls
      <3>1. Len(handled) <= Len(calls)
        BY <1>i DEF TypeOK
      <3> QED BY <1>1, <1>3, <3>1
    <2> QED BY <1>i, <1>1, <1>2, <2>1, <2>2 DEF TypeOK
  <1>7. NoStoreAfterError'
    BY <1>i, <1>2 DEF NoStoreAfterError
  <1>8. HandledInTurn'
    <2>1. First' = First /\ (Some' <=> Some) /\ Turn' = Turn
      BY <1>2, <1>4 DEF First, Some, Turn
    <2>2. ASSUME NEW h \in DOMAIN handled PROVE handled[h].call <= Len(calls')
      <3>1. handled[h].call \in Nat /\ handled[h].call <= Len(calls)
        BY <1>i, HandledCalls DEF HandledInTurn
      <3> QED BY <1>1, <1>3, <3>1
    <2>3. handled # <<>> => calls'[Len(handled)] = calls[Len(handled)]
      <3>1. handled # <<>> => Len(handled) \in DOMAIN handled
        BY <1>i, Typed
      <3> QED BY <1>i, <1>1, <3>1, HandledCalls
    <2> HIDE DEF First, Some, Turn
    <2> QED BY <1>i, <1>2, <2>1, <2>2, <2>3 DEF HandledInTurn
  <1>9. Counted'
    BY <1>i, <1>2 DEF PositionsMatch, Counted
  <1>10. InPayload'
    <2>1. ASSUME at = "payload"
          PROVE /\ peer = "cn" /\ got # <<>> /\ calls'[Len(handled) + 1].kind \in {"write", "blockingWrite", "program"}
                /\ RestOf(want, Sends(calls'[Len(handled) + 1])) /\ Len(want) < Len(Sends(calls'[Len(handled) + 1]))
                /\ After(Last(got))' = ByteAt(Len(handled) + 1, want)'
                /\ \A k \in DOMAIN got : got[k].call = Len(handled) + 1
      <3>1. /\ peer = "cn" /\ got # <<>> /\ calls[Len(handled) + 1].kind \in {"write", "blockingWrite", "program"}
            /\ RestOf(want, Sends(calls[Len(handled) + 1])) /\ Len(want) < Len(Sends(calls[Len(handled) + 1]))
            /\ After(Last(got)) = ByteAt(Len(handled) + 1, want)
            /\ \A k \in DOMAIN got : got[k].call = Len(handled) + 1
        BY <1>i, <2>1 DEF PositionsMatch, InPayload
      <3>2. Len(got) \in 1 .. Len(got) /\ Last(got) = got[Len(got)] /\ DOMAIN got = 1 .. Len(got)
        <4>1. got \in Seq(Byte)
          BY <1>i, Typed
        <4> QED BY <3>1, <4>1 DEF Last
      <3>3. Last(got).call = Len(handled) + 1 /\ Len(handled) + 1 \in DOMAIN calls
        BY <1>i, <3>1, <3>2, GotBytes
      <3>4. calls'[Len(handled) + 1] = calls[Len(handled) + 1]
        BY <1>1, <3>3
      <3>5. ByteAt(Len(handled) + 1, want)' = ByteAt(Len(handled) + 1, want)
        BY <1>2, <3>4 DEF ByteAt
      <3>6. After(Last(got))' = After(Last(got))
        BY <1>2, <3>3, <3>4 DEF After
      <3> QED BY <3>1, <3>4, <3>5, <3>6
    <2> HIDE DEF After, ByteAt
    <2> QED BY <1>2, <2>1 DEF InPayload
  <1>11. InUpload'
    <2>1. ASSUME at = "upload"
          PROVE /\ peer = "dispatcher" /\ Len(got) >= HeaderLen /\ calls'[got[1].call].kind = "score"
                /\ \A h \in DOMAIN handled : handled[h].call < got[1].call
                /\ ~lost => \A k \in DOMAIN got : got[k].call = got[1].call /\ ~IsEnd(got[k])'
      <3>1. /\ peer = "dispatcher" /\ Len(got) >= HeaderLen /\ calls[got[1].call].kind = "score"
            /\ \A h \in DOMAIN handled : handled[h].call < got[1].call
            /\ ~lost => \A k \in DOMAIN got : got[k].call = got[1].call /\ ~IsEnd(got[k])
        BY <1>i, <2>1 DEF PositionsMatch, InUpload
      <3>2. DOMAIN got = 1 .. Len(got) /\ 1 \in DOMAIN got
        <4>1. got \in Seq(Byte) /\ HeaderLen \in Nat /\ HeaderLen > 0
          BY <1>i, Typed, Constants
        <4> QED BY <3>1, <4>1
      <3>3. \A k \in DOMAIN got : got[k].call \in DOMAIN calls
        BY <1>i, <3>2, GotBytes
      <3>4. \A k \in DOMAIN got : calls'[got[k].call] = calls[got[k].call]
        BY <1>1, <3>3
      <3>5. \A k \in DOMAIN got : IsEnd(got[k])' = IsEnd(got[k])
        BY <1>2, <3>4 DEF IsEnd
      <3> QED BY <3>1, <3>2, <3>4, <3>5
    <2> HIDE DEF IsEnd
    <2> QED BY <1>2, <2>1 DEF InUpload
  <1>12. Roles'
    <2>1. Roles
      BY <1>i DEF PositionsMatch
    <2>2. ASSUME peer = "dispatcher", NEW i \in DOMAIN calls' PROVE calls'[i].kind = "register" <=> i = 1
      <3>1. CASE i \in DOMAIN calls
        BY <1>1, <2>1, <2>2, <3>1 DEF Roles
      <3>2. CASE ~(i \in DOMAIN calls)
        <4>1. i = Len(calls) + 1 /\ calls'[i] = c
          BY <1>1, <1>3, <2>2, <3>2
        <4>2. calls = <<>> <=> Len(calls) = 0
          BY <1>i, Typed
        <4> QED BY <1>3, <1>5, <2>2, <4>1, <4>2
      <3> QED BY <3>1, <3>2
    <2>3. lost => handled # <<>> /\ Len(calls') > 1
      BY <1>1, <1>3, <2>1 DEF Roles
    <2> QED BY <1>2, <2>1, <2>2, <2>3 DEF Roles
  <1>13. /\ owed = 0 /\ (peer = "cn" \/ LastWaits \/ calls = <<>> => toClient = <<>>)
         /\ exit # "abrupt"
    BY <1>i, <1>1, WhenIdle
  <1>14. /\ Reply(c) \in Nat /\ (Waits(c) => Reply(c) > 0 /\ Awaited(c) = Reply(c))
         /\ ~Waits(c) => Awaited(c) = 0
         /\ Waits(c) /\ peer = "dispatcher" => c.kind = "register"
    BY <1>3, WaitsFacts
  <1>15. Waits(c) => toClient = <<>>
    BY <1>3, <1>5, <1>13, <1>14
  <1>16. AllAnswered'
    <2>1. ASSUME NEW i \in DOMAIN calls', Waits(calls'[i]), i < Len(calls') \/ awaited' = 0, ~lost PROVE i <= Len(handled)
      <3>1. CASE i \in DOMAIN calls
        BY <1>i, <1>1, <2>1, <3>1 DEF RepliesMatch, AllAnswered
      <3>2. CASE ~(i \in DOMAIN calls)
        <4>1. i = Len(calls) + 1 /\ calls'[i] = c
          BY <1>1, <1>3, <2>1, <3>2
        <4>2. ~(i < Len(calls')) /\ ~(awaited' = 0)
          BY <1>1, <1>3, <1>14, <2>1, <4>1
        <4> QED BY <2>1, <4>2
      <3> QED BY <3>1, <3>2
    <2> HIDE DEF Waits
    <2>2. \A u : Waits(u)' = Waits(u)
      BY DEF Waits, Reply
    <2> QED BY <1>2, <2>1, <2>2 DEF AllAnswered
  <1>17. LastWaits' <=> Waits(c)
    BY <1>1 DEF LastWaits, Waits, Reply
  <1>18. OnlyAwaited'
    <2>1. awaited' > 0 => LastWaits' /\ toClient = <<>>
      BY <1>1, <1>14, <1>15, <1>17
    <2> QED BY <1>1, <1>2, <2>1 DEF OnlyAwaited
  <1>19. Balanced'
    <2>1. Waits(c) => awaited' = Len(toClient) + owed + (IF Len(handled) < Len(calls') THEN Reply(c) ELSE 0)
      <3>1. Len(handled) < Len(calls')
        <4>1. Len(handled) <= Len(calls)
          BY <1>i DEF TypeOK
        <4> QED BY <1>1, <1>3, <4>1
      <3>2. Waits(c) => Len(toClient) = 0
        BY <1>15
      <3>3. Waits(c) => awaited' = Reply(c)
        BY <1>1, <1>14
      <3> QED BY <1>13, <1>14, <3>1, <3>2, <3>3
    <2>2. ~Waits(c) => awaited' = 0
      BY <1>1, <1>14
    <2>3. Reply(Last(calls))' = Reply(c)
      BY <1>1 DEF Reply
    <2> HIDE DEF Waits, LastWaits, Reply
    <2> QED BY <1>2, <1>13, <1>17, <2>1, <2>2, <2>3 DEF Balanced
  <1>20. EndsMatch'
    BY <1>i, <1>1, <1>2 DEF EndsMatch
  <1>21. OwnBytesOnly'
    <2>1. ASSUME NEW h \in DOMAIN handled, AllBytesOf(handled[h].call, handled[h].got)
          PROVE AllBytesOf(handled[h].call, handled[h].got)'
      <3>1. handled[h].call \in DOMAIN calls
        BY <1>i, HandledCalls
      <3>3. PICK j, g : j = handled[h].call /\ g = handled[h].got
        OBVIOUS
      <3>4. AllBytesOf(j, g)'
        BY <1>1, <2>1, <3>1, <3>3, AllBytesStay
      <3>5. handled' = handled
        BY <1>2
      <3> QED BY <3>3, <3>4, <3>5
    <2> HIDE DEF AllBytesOf
    <2> QED BY <1>i, <1>2, <1>18, <2>1 DEF OwnBytesOnly, OnlyAwaited
  <1>22. NodeOutlivesCleanExit'
    BY <1>i, <1>1, <1>2 DEF NodeOutlivesCleanExit
  <1> QED BY <1>4, <1>6, <1>7, <1>8, <1>9, <1>10, <1>11, <1>12, <1>16, <1>18, <1>19, <1>20, <1>21, <1>22
          DEF WireInv, PositionsMatch, RepliesMatch

(* The client sends some bytes (SockSend).                                 *)
LEMMA SendKeeps ==
    ASSUME WireInv, ClientSend
    PROVE  WireInv'
  <1> HIDE DEF Byte
  <1>i. /\ TypeOK /\ NoStoreAfterError /\ StreamInOrder /\ HandledInTurn /\ PositionsMatch /\ RepliesMatch
        /\ EndsMatch /\ OwnBytesOnly /\ NodeOutlivesCleanExit
    BY DEF WireInv
  <1>1. /\ StreamInOrder' /\ toServer' \in Seq(Byte) /\ outgoing' \in Seq(Nat) /\ Len(toServer') <= BufCap
        /\ Len(Stream') > Len(Stream) /\ Stream' \in Seq(Byte)
        /\ \A k \in 1 .. Len(Stream) : Stream'[k] = Stream[k]
        /\ Stream'[Len(Stream) + 1] = NextByte
    BY <1>i, StreamSend
  <1>2. /\ exit = "none" /\ UNCHANGED <<peer, calls, awaited, exit, toClient, closing>>
        /\ UNCHANGED <<at, total, got, want, owed, node, handled, lost>>
    BY DEF ClientSend, serverVars
  <1>3. TypeOK'
    BY <1>i, <1>1, <1>2 DEF TypeOK
  <1>4. Counted'
    BY <1>i, <1>2 DEF PositionsMatch, Counted
  <1>5. NoStoreAfterError'
    BY <1>2, <1>4 DEF Counted, NoStoreAfterError
  <1>6. HandledInTurn'
    <2>1. Stream \in Seq(Byte) /\ Len(Stream) \in Nat
      BY <1>i, Facts
    <2>2. First' = First
      <3> HIDE DEF Stream, NextByte
      <3>1. Stream' # <<>> /\ First' = Stream'[1]
        BY <1>1, <2>1 DEF First
      <3>2. CASE Stream = <<>>
        <4>1. Len(Stream) + 1 = 1
          BY <3>2
        <4> QED BY <1>1, <3>1, <3>2, <4>1 DEF First
      <3>3. CASE Stream # <<>>
        <4>1. 1 \in 1 .. Len(Stream)
          BY <2>1, <3>3
        <4> QED BY <1>1, <3>1, <3>3, <4>1 DEF First
      <3> QED BY <3>2, <3>3
    <2>3. Some /\ Some'
      BY <1>2 DEF Some
    <2>4. Turn' = Turn
      BY <1>2 DEF Turn
    <2> HIDE DEF First, Some, Turn
    <2> QED BY <1>i, <1>2, <2>2, <2>3, <2>4 DEF HandledInTurn
  <1>7. InPayload' /\ InUpload' /\ Roles'
    BY <1>i, <1>2 DEF PositionsMatch, InPayload, InUpload, Roles, After, ByteAt, IsEnd
  <1>8. RepliesMatch'
    BY <1>i, <1>2 DEF RepliesMatch, AllAnswered, OnlyAwaited, Balanced, LastWaits, Waits, Reply
  <1>9. EndsMatch'
    BY <1>i, <1>2 DEF EndsMatch
  <1>10. OwnBytesOnly' /\ NodeOutlivesCleanExit'
    <2>1. \A h \in DOMAIN handled' : AllBytesOf(handled[h].call, handled[h].got)' \/ exit' = "abrupt" \/ lost'
      <3>1. ASSUME NEW i, NEW units PROVE AllBytesOf(i, units)' = AllBytesOf(i, units)
        BY <1>2 DEF AllBytesOf, After
      <3> HIDE DEF AllBytesOf
      <3> QED BY <1>i, <1>2, <3>1 DEF OwnBytesOnly
    <2>2. awaited' > 0 => \A u \in DOMAIN toClient' : toClient'[u] = Len(calls')
      BY <1>i, <1>2 DEF OwnBytesOnly
    <2>3. NodeOutlivesCleanExit'
      BY <1>i, <1>2 DEF NodeOutlivesCleanExit
    <2> HIDE DEF AllBytesOf
    <2> QED BY <2>1, <2>2, <2>3 DEF OwnBytesOnly
  <1> QED BY <1>1, <1>3, <1>4, <1>5, <1>6, <1>7, <1>8, <1>9, <1>10 DEF WireInv, PositionsMatch

(* Receiving a reply changes only the balance.                             *)
LEMMA RecvKeeps ==
    ASSUME WireInv, ClientRecv
    PROVE  WireInv'
  <1> HIDE DEF Byte
  <1>i. /\ TypeOK /\ NoStoreAfterError /\ StreamInOrder /\ HandledInTurn /\ PositionsMatch /\ RepliesMatch
        /\ EndsMatch /\ OwnBytesOnly /\ NodeOutlivesCleanExit
    BY DEF WireInv
  <1>1. PICK n \in AtMost(awaited, Len(toClient)) : toClient' = Dropped(toClient, n) /\ awaited' = awaited - n
    BY DEF ClientRecv
  <1>2. /\ exit = "none" /\ UNCHANGED <<peer, calls, outgoing, exit, toServer, closing>>
        /\ UNCHANGED <<at, total, got, want, owed, node, handled, lost>>
    BY DEF ClientRecv, serverVars
  <1>3. /\ awaited \in Nat /\ toClient \in Seq(Nat) /\ Len(toClient) \in Nat /\ owed \in Nat
        /\ Len(handled) \in Nat /\ Len(calls) \in Nat /\ calls \in Seq(CallsOf(peer)) /\ peer \in {"cn", "dispatcher"}
    BY <1>i, Typed DEF TypeOK
  <1>4. n \in Nat /\ n >= 1 /\ n <= awaited /\ n <= Len(toClient)
    BY <1>1, <1>3 DEF AtMost
  <1>5. /\ toClient' \in Seq(Nat) /\ Len(toClient') = Len(toClient) - n
        /\ \A k \in 1 .. Len(toClient) - n : toClient'[k] = toClient[k + n]
    <2>1. n \in 0 .. Len(toClient)
      BY <1>3, <1>4
    <2> QED BY <1>1, <1>3, <2>1, TakeDrop
  <1>6. TypeOK'
    <2>1. BufCap \in Nat /\ EndLen * Len(handled) \in Nat /\ Len(toClient) <= BufCap + EndLen * Len(handled)
      BY <1>i, <1>3, Constants DEF TypeOK
    <2>2. Len(toClient') <= BufCap + EndLen * Len(handled)
      <3>1. PICK e \in Nat : e = EndLen * Len(handled)
        BY <2>1
      <3> QED BY <1>3, <1>4, <1>5, <2>1, <3>1
    <2>3. awaited - n \in Nat
      BY <1>3, <1>4
    <2> QED BY <1>i, <1>1, <1>2, <1>5, <2>2, <2>3 DEF TypeOK
  <1>7. LastWaits /\ Reply(Last(calls)) \in Nat /\ Reply(Last(calls)) > 0 /\ Last(calls) = calls[Len(calls)]
        /\ (\A u \in DOMAIN toClient : toClient[u] = Len(calls))
        /\ awaited = Len(toClient) + owed + (IF Len(handled) < Len(calls) THEN Reply(Last(calls)) ELSE 0)
    <2>1. awaited > 0
      BY <1>3, <1>4
    <2>2. LastWaits /\ \A u \in DOMAIN toClient : toClient[u] = Len(calls)
      BY <1>i, <2>1 DEF RepliesMatch, OnlyAwaited
    <2>3. Last(calls) = calls[Len(calls)] /\ Len(calls) \in DOMAIN calls
      BY <1>3, <2>2 DEF Last, LastWaits
    <2>4. Reply(Last(calls)) \in Nat /\ Reply(Last(calls)) > 0
      BY <1>3, <2>2, <2>3, Typed, <1>i, WaitsFacts DEF LastWaits
    <2> QED BY <1>i, <1>2, <2>2, <2>3, <2>4 DEF RepliesMatch, Balanced
  <1>8. AllAnswered'
    <2>1. awaited' = 0 => Len(calls) <= Len(handled)
      BY <1>1, <1>3, <1>4, <1>7
    <2>2. \A i \in DOMAIN calls : i \in Nat /\ (i < Len(calls) \/ i = Len(calls))
      BY <1>3
    <2>3. \A i \in DOMAIN calls : Waits(calls[i]) /\ i < Len(calls) /\ ~lost => i <= Len(handled)
      BY <1>i DEF RepliesMatch, AllAnswered
    <2> QED BY <1>2, <1>3, <2>1, <2>2, <2>3 DEF AllAnswered, Waits, Reply
  <1>9. OnlyAwaited'
    <2>1. \A u \in DOMAIN toClient' : toClient'[u] = Len(calls)
      <3>1. ASSUME NEW u \in DOMAIN toClient' PROVE toClient'[u] = Len(calls)
        <4>1. u \in 1 .. Len(toClient) - n
          BY <1>5
        <4>2. u + n \in DOMAIN toClient
          BY <1>3, <1>4, <4>1
        <4> QED BY <1>5, <1>7, <4>1, <4>2
      <3> QED BY <3>1
    <2>2. calls # <<>>
      BY <1>7 DEF LastWaits
    <2>3. LastWaits'
      BY <1>2, <1>7 DEF LastWaits, Waits, Reply
    <2> QED BY <1>2, <2>1, <2>2, <2>3 DEF OnlyAwaited
  <1>10. Balanced'
    <2>1. awaited' = Len(toClient') + owed + (IF Len(handled) < Len(calls) THEN Reply(Last(calls)) ELSE 0)
      BY SMTT(20), <1>1, <1>3, <1>4, <1>5, <1>7
    <2>2. LastWaits' /\ Reply(Last(calls))' = Reply(Last(calls))
      BY <1>2, <1>7 DEF LastWaits, Waits, Reply
    <2>3. owed > 0 => ~lost /\ Len(handled) = Len(calls)
      BY <1>i, <1>2 DEF RepliesMatch, Balanced
    <2> HIDE DEF LastWaits, Reply
    <2> QED BY <1>2, <2>1, <2>2, <2>3 DEF Balanced
  <1>11. StreamInOrder' /\ HandledInTurn'
    <2>1. StreamInOrder' /\ First' = First /\ (Some' <=> Some)
      BY <1>i, <1>2, StreamSame
    <2>2. Turn' = Turn
      BY <1>2 DEF Turn
    <2> HIDE DEF First, Some, Turn
    <2> QED BY <1>i, <1>2, <2>1, <2>2 DEF HandledInTurn
  <1>12. PositionsMatch'
    BY <1>i, <1>2 DEF PositionsMatch, Counted, InPayload, InUpload, Roles, After, ByteAt, IsEnd
  <1>13. EndsMatch' /\ NoStoreAfterError' /\ NodeOutlivesCleanExit'
    BY <1>i, <1>2 DEF EndsMatch, NoStoreAfterError, NodeOutlivesCleanExit
  <1>14. OwnBytesOnly'
    <2>1. \A h \in DOMAIN handled' : AllBytesOf(handled[h].call, handled[h].got)' \/ exit' = "abrupt" \/ lost'
      BY <1>i, <1>2 DEF OwnBytesOnly, AllBytesOf, After
    <2>2. awaited' > 0 => \A u \in DOMAIN toClient' : toClient'[u] = Len(calls')
      BY <1>9 DEF OnlyAwaited
    <2> HIDE DEF AllBytesOf
    <2> QED BY <2>1, <2>2 DEF OwnBytesOnly
  <1> QED BY <1>6, <1>8, <1>9, <1>10, <1>11, <1>12, <1>13, <1>14 DEF WireInv, RepliesMatch

(* However the client ends, what the server has is still in order.         *)
LEMMA CloseKeeps ==
    ASSUME WireInv, exit = "none", CloseConnection
    PROVE  WireInv'
  <1> HIDE DEF Byte
  <1>i. /\ TypeOK /\ NoStoreAfterError /\ StreamInOrder /\ HandledInTurn /\ PositionsMatch /\ RepliesMatch
        /\ EndsMatch /\ OwnBytesOnly /\ NodeOutlivesCleanExit
    BY DEF WireInv
  <1>1. /\ UNCHANGED <<peer, calls, outgoing, awaited, toClient>> /\ UNCHANGED <<at, total, got, want, owed, node, handled, lost>>
        /\ exit' \in {"clean", "abrupt"} /\ closing' \in {"fin", "rst"}
        /\ exit' = "clean" => Idle /\ closing' = "fin"
    BY DEF CloseConnection, serverVars
  <1>2. /\ StreamInOrder' /\ toServer' \in Seq(Byte) /\ Len(toServer') <= Len(toServer) /\ NextByte' = NextByte
        /\ Stream' \in Seq(Byte) /\ Len(Stream') <= Len(Stream)
        /\ \A k \in 1 .. Len(Stream') : Stream'[k] = Stream[k]
        /\ exit' # "abrupt" => Stream' = Stream
    BY <1>i, StreamClose
  <1>3. TypeOK'
    <2>1. Len(toServer') <= BufCap
      <3>1. Len(toServer) <= BufCap /\ Len(toServer) \in Nat /\ BufCap \in Nat /\ Len(toServer') \in Nat
        BY <1>i, <1>2, Typed, Constants DEF TypeOK
      <3> QED BY <1>2, <3>1
    <2> QED BY <1>i, <1>1, <1>2, <2>1 DEF TypeOK
  <1>4. Counted'
    BY <1>i, <1>1 DEF PositionsMatch, Counted
  <1>5. NoStoreAfterError'
    BY <1>1, <1>4 DEF Counted, NoStoreAfterError
  <1>6. HandledInTurn'
    <2>1. Stream \in Seq(Byte) /\ Len(Stream) \in Nat
      BY <1>i, Facts
    <2>2. Some' => First' = First
      <3> HIDE DEF Stream, NextByte
      <3>1. CASE Stream' = <<>> /\ exit' # "abrupt"
        BY <1>2, <3>1 DEF First
      <3>2. CASE Stream' # <<>>
        <4>1. 1 \in 1 .. Len(Stream') /\ Stream # <<>>
          BY <1>2, <2>1, <3>2
        <4> QED BY <1>2, <3>2, <4>1 DEF First
      <3> QED BY <3>1, <3>2 DEF Some
    <2>3. Some
      BY DEF Some
    <2>4. Turn' = Turn
      BY <1>1 DEF Turn
    <2> HIDE DEF First, Some, Turn
    <2> QED BY <1>i, <1>1, <2>2, <2>3, <2>4 DEF HandledInTurn
  <1>7. InPayload' /\ InUpload' /\ Roles'
    BY <1>i, <1>1 DEF PositionsMatch, InPayload, InUpload, Roles, After, ByteAt, IsEnd
  <1>8. RepliesMatch'
    BY <1>i, <1>1 DEF RepliesMatch, AllAnswered, OnlyAwaited, Balanced, LastWaits, Waits, Reply
  <1>9. EndsMatch'
    BY <1>1 DEF EndsMatch, Idle
  <1>10. OwnBytesOnly' /\ NodeOutlivesCleanExit'
    BY <1>i, <1>1 DEF OwnBytesOnly, AllBytesOf, After, NodeOutlivesCleanExit
  <1> QED BY <1>2, <1>3, <1>4, <1>5, <1>6, <1>7, <1>8, <1>9, <1>10 DEF WireInv, PositionsMatch
-----------------------------------------------------------------------------
(* The server's steps.                                                     *)

(* A handler has all bytes of call i, the first m of the stream, and does  *)
(* its work.                                                               *)
Handles(n, m, i, units) ==
    /\ at \in {"header", "payload"} /\ node = "up" /\ n \in 0 .. Len(toServer)
    /\ m = Len(got) + n /\ m >= 1 /\ units \in Seq(Byte)
    /\ toServer' = Dropped(toServer, n) /\ total' = 0
    /\ handled' = Append(handled, [call |-> i, got |-> units]) /\ owed' = Reply(calls[i])
    /\ at' = (IF owed' > 0 THEN "reply" ELSE "header") /\ got' = <<>> /\ want' = <<>>
    /\ i \in DOMAIN calls /\ calls[i].kind # "score" /\ Stream[1] = [call |-> i, piece |-> 1, byte |-> 1]
    /\ AllBytesOf(i, units)
    /\ \/ After(Stream[m]) = [call |-> i + 1, piece |-> 1, byte |-> 1]
       \/ calls[i].kind = "build" /\ After(Stream[m]) = [call |-> i, piece |-> 2, byte |-> 1]
    /\ UNCHANGED <<peer, calls, outgoing, awaited, exit, toClient, closing, node, lost>>

(* A handler has all bytes of its call (Handle).                           *)
LEMMA HandleKeeps ==
    ASSUME WireInv, NEW n, NEW m, NEW i, NEW units, Handles(n, m, i, units)
    PROVE  WireInv'
  <1> HIDE DEF Byte, Stream, After, AllBytesOf
  <1>i. /\ TypeOK /\ NoStoreAfterError /\ StreamInOrder /\ HandledInTurn /\ PositionsMatch /\ RepliesMatch
        /\ EndsMatch /\ OwnBytesOnly /\ NodeOutlivesCleanExit
    BY DEF WireInv
  <1>a. /\ at \in {"header", "payload"} /\ node = "up" /\ n \in 0 .. Len(toServer)
        /\ m = Len(got) + n /\ m >= 1 /\ units \in Seq(Byte)
        /\ toServer' = Dropped(toServer, n) /\ total' = 0 /\ i \in DOMAIN calls /\ calls[i].kind # "score"
    BY DEF Handles
  <1>b. Stream[1] = [call |-> i, piece |-> 1, byte |-> 1]
    BY DEF Handles
  <1>c. \/ After(Stream[m]) = [call |-> i + 1, piece |-> 1, byte |-> 1]
        \/ calls[i].kind = "build" /\ After(Stream[m]) = [call |-> i, piece |-> 2, byte |-> 1]
    BY DEF Handles
  <1>u. UNCHANGED <<peer, calls, outgoing, awaited, exit, toClient, closing, node, lost>>
    BY DEF Handles
  <1>k. AllBytesOf(i, units)
    BY DEF Handles
  <1>1. /\ handled' = Append(handled, [call |-> i, got |-> units]) /\ owed' = Reply(calls[i])
        /\ at' = (IF owed' > 0 THEN "reply" ELSE "header") /\ got' = <<>> /\ want' = <<>>
    BY DEF Handles
  <1>2. /\ StreamInOrder' /\ toServer' \in Seq(Byte) /\ Len(toServer') = Len(toServer) - n
        /\ m \in 1 .. Len(Stream) /\ Len(Stream) \in Nat
    <2>1. Len(Stream) = Len(got) + Len(toServer) /\ Len(got) \in Nat /\ Len(toServer) \in Nat
      BY <1>i, Facts, Typed
    <2>2. m \in 1 .. Len(Stream) /\ Len(Stream) \in Nat
      BY <1>a, <2>1
    <2> QED BY <1>i, <1>a, <1>u, <1>1, <2>2, ServerClears
  <1>3. /\ i \in Nat /\ Len(handled) < i /\ i <= Len(calls) /\ (~lost => i = Len(handled) + 1)
        /\ lost => \A h \in DOMAIN handled : handled[h].call < i
    <2>1. Stream # <<>> /\ Stream[1].call = i /\ Stream[1].piece = 1
      <3>1. Stream # <<>>
        BY <1>2
      <3> QED BY <1>b, <3>1
    <2>2. i \in 1 .. Len(calls) /\ Len(calls) \in Nat
      BY <1>i, <1>a, Typed
    <2>3. ~lost => Stream[1] = [call |-> Len(handled) + 1, piece |-> 1, byte |-> 1]
      BY <1>i, <1>a, <2>1, TurnOf
    <2>4. ~lost => i = Len(handled) + 1
      BY <1>b, <2>3
    <2>5. Len(handled) < Stream[1].call
      BY <1>i, <1>a, <2>1, TurnOf
    <2>6. lost => \A h \in DOMAIN handled : handled[h].call < Stream[1].call
      BY <1>i, <1>a, <2>1, TurnOf
    <2> QED BY <2>1, <2>2, <2>4, <2>5, <2>6
  <1>4. /\ Len(handled) \in Nat /\ DOMAIN handled = 1 .. Len(handled) /\ Len(calls) \in Nat
        /\ handled \in Seq([call : Nat, got : Seq(Byte)]) /\ calls[i] \in CallsOf(peer) /\ peer \in {"cn", "dispatcher"}
    BY <1>i, <1>a, Typed
  <1>5. [call |-> i, got |-> units] \in [call : Nat, got : Seq(Byte)]
    BY <1>a, <1>3
  <1>6. PICK e : e = [call |-> i, got |-> units]
    OBVIOUS
  <1>7. /\ handled' \in Seq([call : Nat, got : Seq(Byte)]) /\ Len(handled') = Len(handled) + 1
        /\ DOMAIN handled' = 1 .. Len(handled) + 1 /\ handled'[Len(handled) + 1] = e
        /\ \A h \in 1 .. Len(handled) : handled'[h] = handled[h]
    <2>1. handled' = Append(handled, e) /\ e \in [call : Nat, got : Seq(Byte)]
      BY <1>1, <1>5, <1>6
    <2>2. PICK A : A = [call : Nat, got : Seq(Byte)]
      OBVIOUS
    <2>3. handled \in Seq(A) /\ e \in A
      BY <1>4, <2>1, <2>2
    <2>4. /\ handled' \in Seq(A) /\ Len(handled') = Len(handled) + 1
          /\ DOMAIN handled' = 1 .. Len(handled) + 1 /\ handled'[Len(handled) + 1] = e
          /\ \A h \in 1 .. Len(handled) : handled'[h] = handled[h]
      BY <2>1, <2>3
    <2> QED BY <2>2, <2>4
  <1>8. e.call = i /\ e.got = units
    BY <1>6
  <1>9. ASSUME NEW h \in DOMAIN handled'
        PROVE  (h \in DOMAIN handled /\ handled'[h] = handled[h]) \/ (h = Len(handled) + 1 /\ handled'[h] = e)
    <2>0. Len(handled) \in Nat
      BY <1>4
    <2>1. h \in 1 .. Len(handled) + 1
      BY <1>7
    <2>2. h \in 1 .. Len(handled) \/ h = Len(handled) + 1
      BY <2>0, <2>1
    <2> QED BY <1>4, <1>7, <2>2
  <1>10. Reply(calls[i]) \in Nat /\ (Waits(calls[i]) <=> Reply(calls[i]) > 0)
         /\ (peer = "dispatcher" => (Waits(calls[i]) <=> calls[i].kind = "register"))
         /\ (peer = "dispatcher" => calls[i].kind # "build")
    <2>1. Reply(calls[i]) \in Nat /\ (Waits(calls[i]) => Reply(calls[i]) > 0) /\ (~Waits(calls[i]) => Reply(calls[i]) = 0)
      BY <1>a, <1>4, WaitsFacts
    <2>2. peer = "dispatcher" => (Waits(calls[i]) <=> calls[i].kind = "register")
      BY <1>4, WaitsFacts
    <2>3. peer = "dispatcher" => calls[i].kind # "build"
      BY <1>4, CallFacts
    <2> QED BY <2>1, <2>2, <2>3
  <1>11. owed = 0
    <2>1. owed \in Nat /\ (at = "reply") = (owed > 0)
      BY <1>i DEF TypeOK
    <2> QED BY <1>a, <2>1
  <1>12. Roles /\ (lost => peer = "dispatcher" /\ handled # <<>> /\ i > 1 /\ Len(calls) > 1)
    <2>1. Roles
      BY <1>i DEF PositionsMatch
    <2>2. lost => handled # <<>> /\ Len(calls) > 1 /\ peer = "dispatcher"
      BY <1>4, <2>1 DEF Roles
    <2>3. handled # <<>> => Len(handled) >= 1
      BY <1>4
    <2> QED BY <1>3, <1>4, <2>1, <2>2, <2>3
  <1>13. TypeOK'
    <2>1. Len(handled') <= Len(calls)
      BY <1>3, <1>4, <1>7
    <2>2. Len(toClient) <= BufCap + EndLen * Len(handled')
      <3>1. /\ EndLen \in Nat /\ BufCap \in Nat /\ Len(toClient) \in Nat /\ Len(toClient) <= BufCap + EndLen * Len(handled)
        BY <1>i, Typed, Constants DEF TypeOK
      <3>2. PICK a, b, c, d \in Nat : a = EndLen /\ b = BufCap /\ c = Len(toClient) /\ d = Len(handled)
        BY <1>4, <3>1
      <3>3. c <= b + a * d
        BY <3>1, <3>2
      <3>4. c <= b + a * (d + 1)
        BY <3>3
      <3> QED BY <1>7, <3>2, <3>4
    <2>3. 0 \in 0 .. WrapAt - 1
      BY Constants
    <2>4. Len(toServer') <= BufCap
      <3>1. Len(toServer) \in Nat /\ Len(toServer) <= BufCap /\ BufCap \in Nat
        BY <1>i, Typed, Constants DEF TypeOK
      <3> QED BY <1>a, <1>2, <3>1
    <2>5. (at' = "payload") = (want' # <<>>) /\ (at' = "reply") = (owed' > 0) /\ at' \in {"header", "payload", "upload", "reply", "left"}
      BY <1>1
    <2>6. got' \in Seq(Byte) /\ want' \in Seq(Nat) /\ owed' \in Nat
      BY <1>1, <1>10
    <2> QED BY <1>i, <1>a, <1>u, <1>2, <1>7, <2>1, <2>2, <2>3, <2>4, <2>5, <2>6 DEF TypeOK
  <1>14. Counted'
    <2>1. Len(got') = 0 /\ 0 < HeaderLen /\ at' \in {"reply", "header"}
      BY <1>1, Constants
    <2> QED BY <1>a, <1>1, <2>1 DEF Counted
  <1>15. NoStoreAfterError'
    BY <1>14 DEF Counted, NoStoreAfterError
  <1>16. InPayload' /\ InUpload'
    BY <1>1 DEF InPayload, InUpload
  <1>17. Roles'
    <2>1. handled' # <<>>
      BY <1>4, <1>7
    <2> QED BY <1>u, <1>12, <2>1 DEF Roles
  <1>18. HandledInTurn'
    <2>1. ASSUME NEW h \in DOMAIN handled'
          PROVE /\ h <= handled'[h].call /\ handled'[h].call <= Len(calls)
                /\ ~lost => handled'[h].call = h
                /\ lost => handled'[h].call <= i
      <3>1. CASE h \in DOMAIN handled /\ handled'[h] = handled[h]
        <4>1. h <= handled[h].call /\ handled[h].call <= Len(calls) /\ (~lost => handled[h].call = h) /\ handled[h].call \in Nat
          BY <1>i, <3>1, HandledCalls DEF HandledInTurn
        <4> QED BY <1>3, <3>1, <4>1
      <3>2. CASE h = Len(handled) + 1 /\ handled'[h] = e
        BY <1>3, <1>4, <1>8, <3>2
      <3> QED BY <1>9, <3>1, <3>2
    <2>2. ASSUME Some'
          PROVE /\ lost => First'.call = i + 1
                /\ ~lost => \/ First' = [call |-> Len(handled') + 1, piece |-> 1, byte |-> 1]
                            \/ /\ at' \in {"header", "reply", "left"} /\ handled' # <<>>
                               /\ calls[Len(handled')].kind = "build" /\ First' = [call |-> Len(handled'), piece |-> 2, byte |-> 1]
      <3>1. First' = After(Stream[m])
        BY <1>i, <1>a, <1>u, <1>1, <2>2, FirstAfter
      <3>2. lost => First' = [call |-> i + 1, piece |-> 1, byte |-> 1]
        BY <1>c, <1>10, <1>12, <3>1
      <3>3. ~lost => i = Len(handled')
        BY <1>3, <1>7
      <3>4. handled' # <<>> /\ at' \in {"header", "reply", "left"}
        BY <1>1, <1>4, <1>7
      <3> QED BY <1>c, <3>1, <3>2, <3>3, <3>4
    <2>3. ASSUME NEW h \in DOMAIN handled', lost, Some' PROVE handled'[h].call < First'.call
      <3>1. handled'[h].call <= i /\ First'.call = i + 1
        BY <2>1, <2>2, <2>3
      <3>2. handled'[h].call \in Nat
        <4>1. CASE h \in DOMAIN handled /\ handled'[h] = handled[h]
          BY <1>i, <4>1, Typed
        <4>2. CASE handled'[h] = e
          BY <1>3, <1>8, <4>2
        <4> QED BY <1>9, <2>3, <4>1, <4>2
      <3> QED BY <1>3, <3>1, <3>2
    <2> HIDE DEF First, Some
    <2> QED BY <1>u, <1>a, <2>1, <2>2, <2>3 DEF HandledInTurn, Turn
  <1>19. AllAnswered'
    <2>1. AllAnswered
      BY <1>i DEF RepliesMatch
    <2>2. \A j \in DOMAIN calls : j \in Nat /\ (j <= Len(handled) => j <= Len(handled'))
      BY <1>i, <1>4, <1>7, Typed
    <2> QED BY <1>u, <2>1, <2>2 DEF AllAnswered, Waits, Reply
  <1>20. OnlyAwaited'
    BY <1>i, <1>u DEF RepliesMatch, OnlyAwaited, LastWaits, Waits, Reply
  <1>21. Balanced'
    <2>1. ASSUME exit # "abrupt"
          PROVE  /\ LastWaits => awaited = Len(toClient) + owed' + (IF Len(handled') < Len(calls) THEN Reply(Last(calls)) ELSE 0)
                 /\ ~LastWaits => owed' = 0 /\ awaited = 0 /\ (peer = "cn" => toClient = <<>>)
                 /\ owed' > 0 => ~lost /\ Len(handled') = Len(calls)
      <3>1. /\ LastWaits => awaited = Len(toClient) + owed + (IF Len(handled) < Len(calls) THEN Reply(Last(calls)) ELSE 0)
            /\ ~LastWaits => owed = 0 /\ awaited = 0 /\ (peer = "cn" => toClient = <<>>)
        BY <1>i, <2>1 DEF RepliesMatch, Balanced
      <3>2. Last(calls) = calls[Len(calls)] /\ calls # <<>>
        <4>1. calls \in Seq(CallsOf(peer)) /\ Len(calls) >= 1
          BY <1>i, <1>3, <1>4, Typed
        <4> QED BY <4>1 DEF Last
      <3>3. AllAnswered
        BY <1>i DEF RepliesMatch
      <3>4. i < Len(calls) => owed' = 0
        <4>1. CASE lost
          <5>1. calls[i].kind # "register"
            BY <1>a, <1>12, <4>1 DEF Roles
          <5> QED BY <1>1, <1>10, <1>12, <4>1, <5>1
        <4>2. CASE ~lost
          <5>1. i < Len(calls) => ~Waits(calls[i])
            BY <1>3, <1>4, <3>3, <4>2 DEF AllAnswered
          <5> QED BY <1>1, <1>10, <5>1
        <4> QED BY <4>1, <4>2
      <3>5. lost => owed' = 0 /\ ~LastWaits
        <4>1. ASSUME lost PROVE owed' = 0 /\ ~LastWaits
          <5>1. calls[i].kind # "register" /\ peer = "dispatcher"
            BY <1>a, <1>12, <4>1 DEF Roles
          <5>2. Len(calls) \in DOMAIN calls /\ Len(calls) # 1
            BY <1>i, <1>a, <1>3, <1>4, <1>12, <4>1, Typed
          <5>3. calls[Len(calls)].kind # "register"
            BY <1>12, <5>1, <5>2 DEF Roles
          <5>4. ~Waits(calls[Len(calls)])
            BY <1>i, <1>4, <5>1, <5>2, <5>3, Typed, WaitsFacts
          <5> QED BY <1>1, <1>10, <3>2, <5>1, <5>4 DEF LastWaits
        <4> QED BY <4>1
      <3>6. CASE i < Len(calls)
        <4>1. ~lost => Len(handled') < Len(calls) /\ Len(handled) < Len(calls)
          BY <1>3, <1>4, <1>7, <3>6
        <4> QED BY <1>11, <3>1, <3>4, <3>5, <3>6, <4>1
      <3>7. CASE i = Len(calls)
        <4>1. ~lost => Len(handled') = Len(calls) /\ Len(handled) < Len(calls) /\ ~(Len(handled') < Len(calls))
          BY <1>3, <1>4, <1>7, <3>7
        <4>2. LastWaits <=> Waits(calls[i])
          BY <3>2, <3>7 DEF LastWaits
        <4>3. owed' = Reply(calls[i]) /\ Reply(Last(calls)) = Reply(calls[i])
          BY <1>1, <3>2, <3>7
        <4>4. ~lost /\ LastWaits => awaited = Len(toClient) + owed' + 0
          <5>1. Len(toClient) \in Nat
            BY <1>i, Typed
          <5> QED BY <1>10, <1>11, <3>1, <4>1, <4>3, <5>1
        <4>5. ~LastWaits => owed' = 0
          BY <1>10, <4>2, <4>3
        <4> QED BY <3>1, <3>5, <4>1, <4>4, <4>5
      <3> QED BY <1>3, <1>4, <3>6, <3>7
    <2>2. LastWaits' = LastWaits /\ Reply(Last(calls))' = Reply(Last(calls))
      BY <1>u DEF LastWaits, Waits, Reply
    <2> HIDE DEF LastWaits, Reply
    <2> QED BY <1>u, <2>1, <2>2 DEF Balanced
  <1>22. EndsMatch'
    BY <1>i, <1>u DEF EndsMatch, Idle
  <1>23. OwnBytesOnly'
    <2>1. \A j, g : AllBytesOf(j, g)' = AllBytesOf(j, g)
      BY <1>u DEF AllBytesOf, After
    <2>2. \A h \in DOMAIN handled : AllBytesOf(handled[h].call, handled[h].got) \/ exit = "abrupt" \/ lost
      BY <1>i DEF OwnBytesOnly
    <2>3. ASSUME NEW h \in DOMAIN handled' PROVE AllBytesOf(handled'[h].call, handled'[h].got) \/ exit = "abrupt" \/ lost
      BY <1>k, <1>8, <1>9, <2>2, <2>3
    <2>4. ASSUME NEW h \in DOMAIN handled' PROVE AllBytesOf(handled[h].call, handled[h].got)' \/ exit' = "abrupt" \/ lost'
      <3>1. PICK j, g : j = handled'[h].call /\ g = handled'[h].got
        OBVIOUS
      <3> QED BY <1>u, <2>1, <2>3, <3>1
    <2>5. awaited' > 0 => \A u \in DOMAIN toClient' : toClient'[u] = Len(calls')
      BY <1>20 DEF OnlyAwaited
    <2> QED BY <2>4, <2>5 DEF OwnBytesOnly
  <1>24. NodeOutlivesCleanExit'
    BY <1>u, <1>a DEF NodeOutlivesCleanExit
  <1> QED BY <1>2, <1>13, <1>14, <1>15, <1>16, <1>17, <1>18, <1>19, <1>20, <1>21, <1>22, <1>23, <1>24
          DEF WireInv, PositionsMatch, RepliesMatch
(* Taking bytes without handling anything leaves the rest in order.        *)
Takes(n) ==
    /\ n \in 0 .. Len(toServer) /\ toServer' = Dropped(toServer, n) /\ got' = got \o Taken(toServer, n)
    /\ total' \in 0 .. WrapAt - 1 /\ want' \in Seq(Nat) /\ at' \in {"header", "payload", "upload", "reply", "left"}
    /\ (at' = "payload") = (want' # <<>>) /\ (at' = "reply") = (owed > 0) /\ (at' = at \/ lost \/ First = Turn)
    /\ lost' \in BOOLEAN /\ (lost => lost')
    /\ lost' => lost \/ (owed = 0 /\ \A h \in DOMAIN handled : handled[h].call < First.call)
    /\ UNCHANGED <<peer, calls, outgoing, awaited, exit, toClient, closing, node, owed, handled>>

(* The server takes bytes and handles no call.                             *)
LEMMA TakeKeeps ==
    ASSUME WireInv, NEW n, Takes(n)
    PROVE  TypeOK' /\ StreamInOrder' /\ HandledInTurn' /\ RepliesMatch' /\ EndsMatch' /\ OwnBytesOnly' /\ NodeOutlivesCleanExit'
  <1> HIDE DEF Byte, Stream, After, AllBytesOf
  <1>i. /\ TypeOK /\ NoStoreAfterError /\ StreamInOrder /\ HandledInTurn /\ PositionsMatch /\ RepliesMatch
        /\ EndsMatch /\ OwnBytesOnly /\ NodeOutlivesCleanExit
    BY DEF WireInv
  <1>a. n \in 0 .. Len(toServer) /\ toServer' = Dropped(toServer, n) /\ got' = got \o Taken(toServer, n)
    BY DEF Takes
  <1>b. /\ total' \in 0 .. WrapAt - 1 /\ want' \in Seq(Nat) /\ at' \in {"header", "payload", "upload", "reply", "left"}
        /\ (at' = "payload") = (want' # <<>>) /\ (at' = "reply") = (owed > 0) /\ (at' = at \/ lost \/ First = Turn)
    BY DEF Takes
  <1>l. /\ lost' \in BOOLEAN /\ (lost => lost')
        /\ lost' => lost \/ (owed = 0 /\ \A h \in DOMAIN handled : handled[h].call < First.call)
    BY DEF Takes
  <1>u. UNCHANGED <<peer, calls, outgoing, awaited, exit, toClient, closing, node, owed, handled>>
    BY DEF Takes
  <1>1. /\ StreamInOrder' /\ toServer' \in Seq(Byte) /\ got' \in Seq(Byte) /\ NextByte' = NextByte
        /\ Len(toServer') = Len(toServer) - n
        /\ Stream' \in Seq(Byte) /\ Len(Stream') = Len(Stream) /\ \A k \in 1 .. Len(Stream) : Stream'[k] = Stream[k]
        /\ Stream \in Seq(Byte)
    BY <1>i, <1>a, <1>u, ServerTakes, Facts
  <1>2. First' = First /\ (Some' <=> Some) /\ Turn' = Turn
    <2>1. Stream' = Stream
      BY <1>1, SeqEqual
    <2> QED BY <1>1, <1>u, <2>1 DEF First, Some, Turn
  <1>3. TypeOK'
    <2>1. Len(toServer') <= BufCap
      <3>1. Len(toServer) \in Nat /\ Len(toServer) <= BufCap /\ BufCap \in Nat
        BY <1>i, Typed, Constants DEF TypeOK
      <3> QED BY <1>1, <1>a, <3>1
    <2> QED BY <1>i, <1>b, <1>l, <1>u, <1>1, <2>1 DEF TypeOK
  <1>4. HandledInTurn'
    <2>1. \A h \in DOMAIN handled : h <= handled[h].call /\ handled[h].call <= Len(calls) /\ (~lost' => handled[h].call = h)
      BY <1>i, <1>l DEF HandledInTurn
    <2>2. lost' /\ Some => \A h \in DOMAIN handled : handled[h].call < First.call
      BY <1>i, <1>l DEF HandledInTurn
    <2>3. ~lost' /\ node = "up" /\ Some =>
            \/ First = Turn
            \/ /\ at' \in {"header", "reply", "left"} /\ handled # <<>>
               /\ calls[Len(handled)].kind = "build" /\ First = [call |-> Len(handled), piece |-> 2, byte |-> 1]
      BY <1>i, <1>b, <1>l DEF HandledInTurn
    <2> HIDE DEF First, Some, Turn
    <2> QED BY <1>2, <1>u, <2>1, <2>2, <2>3 DEF HandledInTurn
  <1>5. RepliesMatch'
    <2>1. AllAnswered' /\ OnlyAwaited'
      BY <1>i, <1>l, <1>u DEF RepliesMatch, AllAnswered, OnlyAwaited, LastWaits, Waits, Reply
    <2>2. Balanced'
      <3>1. LastWaits' = LastWaits /\ Reply(Last(calls))' = Reply(Last(calls))
        BY <1>u DEF LastWaits, Waits, Reply
      <3>2. owed > 0 => (lost' <=> lost)
        <4>1. owed \in Nat /\ lost \in BOOLEAN
          BY <1>i DEF TypeOK
        <4>2. owed > 0 => ~(owed = 0)
          BY <4>1
        <4> QED BY <1>l, <4>1, <4>2
      <3> HIDE DEF LastWaits, Reply
      <3> QED BY <1>i, <1>u, <3>1, <3>2 DEF RepliesMatch, Balanced
    <2> QED BY <2>1, <2>2 DEF RepliesMatch
  <1>6. EndsMatch'
    BY <1>i, <1>l, <1>u DEF EndsMatch, Idle
  <1>7. OwnBytesOnly'
    <2>1. \A j, g : AllBytesOf(j, g)' = AllBytesOf(j, g)
      BY <1>u DEF AllBytesOf, After
    <2>2. ASSUME NEW h \in DOMAIN handled' PROVE AllBytesOf(handled[h].call, handled[h].got)' \/ exit' = "abrupt" \/ lost'
      <3>1. PICK j, g : j = handled'[h].call /\ g = handled'[h].got
        OBVIOUS
      <3>2. AllBytesOf(handled[h].call, handled[h].got) \/ exit = "abrupt" \/ lost
        BY <1>i, <1>u, <2>2 DEF OwnBytesOnly
      <3> QED BY <1>l, <1>u, <2>1, <3>1, <3>2
    <2> QED BY <1>i, <1>u, <2>2 DEF OwnBytesOnly
  <1>8. NodeOutlivesCleanExit'
    BY <1>i, <1>l, <1>u DEF NodeOutlivesCleanExit
  <1> QED BY <1>1, <1>3, <1>4, <1>5, <1>6, <1>7, <1>8

(* The kinds whose handlers receive nothing more.                          *)
LEMMA HeaderOnly ==
    ASSUME NEW p \in {"cn", "dispatcher"}, NEW c \in CallsOf(p), c.kind # "score"
    PROVE  /\ Recvs(c) = <<>> => Len(Sends(c)) = 1 \/ c.kind = "build"
           /\ Recvs(c) # <<>> => p = "cn" /\ c.kind \in {"write", "blockingWrite", "program"}
  <1>1. c.kind \in {"task", "write", "blockingWrite", "program", "build", "register", "load"}
    BY CallFacts
  <1>2. c.kind \in {"task", "register", "load"} => Len(Sends(c)) = 1
    <2>1. PICK s : s = <<HeaderLen>>
      OBVIOUS
    <2>2. Len(s) = 1
      BY <2>1
    <2> QED BY <2>1, <2>2, CallFacts
  <1>3. c.kind \in {"write", "blockingWrite", "program"} => Recvs(c) # <<>> /\ p = "cn"
    BY SendsFacts, CallFacts
  <1>4. c.kind \notin {"write", "blockingWrite", "program"} => Recvs(c) = <<>>
    BY CallFacts
  <1> QED BY <1>1, <1>2, <1>3, <1>4
(* A handler that receives begins with the second piece.                   *)
LEMMA RecvsFacts ==
    ASSUME TypeOK, NEW i \in DOMAIN calls, calls[i].kind \in {"write", "blockingWrite", "program"}
    PROVE  /\ Recvs(calls[i]) \in Seq(Nat) /\ RestOf(Recvs(calls[i]), Sends(calls[i])) /\ Len(Recvs(calls[i])) < Len(Sends(calls[i]))
           /\ Len(Sends(calls[i])) # 1 /\ ByteAt(i, Recvs(calls[i])) = [call |-> i, piece |-> 2, byte |-> 1]
  <1>1. calls[i] \in CallsOf(peer) /\ peer \in {"cn", "dispatcher"}
    BY Typed
  <1>2. PICK P, R : P = Sends(calls[i]) /\ R = Recvs(calls[i])
    OBVIOUS
  <1>3. P \in Seq(Nat) /\ R \in Seq(Nat) /\ R # <<>> /\ Len(R) = Len(P) - 1 /\ \A k \in 1 .. Len(R) : R[k] = P[k + 1]
    BY <1>1, <1>2, SendsFacts
  <1>4. PICK l, m \in Nat : l = Len(R) /\ m = Len(P)
    BY <1>3
  <1>5. l >= 1 /\ l = m - 1 /\ m - l + 1 = 2 /\ l < m /\ m # 1
    BY SMTT(20), <1>3, <1>4
  <1>6. R[1] = P[2] /\ P[2] \in Nat /\ Head(R) = P[2]
    <2>1. 1 \in 1 .. l /\ 2 \in 1 .. m /\ 1 + 1 = 2
      BY <1>5
    <2>2. R[1] = P[2]
      BY <1>3, <1>4, <2>1
    <2>3. P[2] \in Nat
      BY <1>3, <1>4, <2>1
    <2> QED BY <1>3, <2>2, <2>3
  <1>7. RestOf(R, P)
    <2>1. \A k \in 2 .. Len(R) : R[k] = P[Len(P) - Len(R) + k]
      <3>1. ASSUME NEW k \in 2 .. l PROVE R[k] = P[m - l + k]
        <4>1. k \in 1 .. l /\ m - l + k = k + 1
          BY <1>5
        <4> QED BY <1>3, <1>4, <4>1
      <3> QED BY <1>4, <3>1
    <2> QED BY <1>4, <1>5, <1>6, <2>1 DEF RestOf
  <1>8. ByteAt(i, R) = [call |-> i, piece |-> 2, byte |-> 1]
    <2>1. P[2] - P[2] + 1 = 1
      BY <1>6
    <2> QED BY <1>2, <1>4, <1>5, <1>6, <2>1 DEF ByteAt
  <1> QED BY <1>2, <1>3, <1>4, <1>5, <1>7, <1>8

(* After the header of a call comes the next piece or the next call.       *)
LEMMA AfterHeader ==
    ASSUME TypeOK, StreamInOrder, HeaderLen <= Len(Stream), Stream[1].piece = 1, Stream[1].byte = 1, NEW i, i = Stream[1].call
    PROVE  /\ i \in DOMAIN calls /\ HeaderLen \in 1 .. Len(Stream) /\ 1 \in 1 .. Len(Stream)
           /\ Stream[1] = [call |-> i, piece |-> 1, byte |-> 1]
           /\ Stream[HeaderLen] = [call |-> i, piece |-> 1, byte |-> HeaderLen]
           /\ Sends(calls[i])[1] = HeaderLen
           /\ Len(Sends(calls[i])) = 1 => After(Stream[HeaderLen]) = [call |-> i + 1, piece |-> 1, byte |-> 1]
           /\ Len(Sends(calls[i])) # 1 => After(Stream[HeaderLen]) = [call |-> i, piece |-> 2, byte |-> 1]
  <1> HIDE DEF Byte, Stream
  <1>1. HeaderLen \in 1 .. Len(Stream) /\ 1 \in 1 .. Len(Stream) /\ Stream \in Seq(Byte) /\ HeaderLen \in Nat
    BY Facts, Constants
  <1>2. Stream[HeaderLen] = [call |-> i, piece |-> 1, byte |-> HeaderLen]
    BY <1>1, HeaderBytes
  <1>3. Stream[1] = [call |-> i, piece |-> 1, byte |-> 1]
    <2>1. 1 <= HeaderLen
      BY <1>1
    <2> QED BY <1>1, <2>1, HeaderBytes
  <1>4. i \in DOMAIN calls /\ calls[i] \in CallsOf(peer) /\ peer \in {"cn", "dispatcher"}
    BY <1>1, Facts, Typed
  <1>5. Sends(calls[i]) \in Seq(Nat) /\ Len(Sends(calls[i])) >= 1 /\ Sends(calls[i])[1] = HeaderLen
    BY <1>4, SendsFacts
  <1>6. PICK v : v = Stream[HeaderLen]
    OBVIOUS
  <1>7. v \in Byte /\ v.call = i /\ v.piece = 1 /\ v.byte = HeaderLen
    <2>1. v \in Byte
      BY <1>1, <1>6, ElementOfSeq
    <2> QED BY <1>2, <1>6, <2>1
  <1>8. LengthAt(v) = HeaderLen
    BY <1>5, <1>7 DEF LengthAt
  <1>9. PICK l \in Nat : l = Len(Sends(calls[i]))
    BY <1>5
  <1>10. /\ l = 1 => After(v) = [call |-> i + 1, piece |-> 1, byte |-> 1]
         /\ l # 1 => After(v) = [call |-> i, piece |-> 1 + 1, byte |-> 1]
    <2>1. v.byte \in 1 .. LengthAt(v) /\ LengthAt(v) \in Nat /\ v.byte = LengthAt(v)
      BY <1>1, <1>7, <1>8
    <2>2. l >= 1 /\ v.piece = 1 /\ Len(Sends(calls[v.call])) = l
      BY <1>5, <1>7, <1>9
    <2>3. (l = 1 <=> ~(v.piece < l)) /\ (l # 1 <=> v.piece < l)
      BY <2>2
    <2> HIDE DEF After
    <2> QED BY <1>7, <2>1, <2>2, <2>3, AfterFacts
  <1>11. 1 + 1 = 2
    OBVIOUS
  <1> HIDE DEF After
  <1> QED BY <1>1, <1>2, <1>3, <1>4, <1>5, <1>6, <1>9, <1>10, <1>11

(* The server receives a part of a header, or the rest (RecvHeader).       *)
LEMMA HeaderKeeps ==
    ASSUME WireInv, RecvHeader
    PROVE  WireInv'
  <1> HIDE DEF Byte, Stream, After, AllBytesOf
  <1>i. /\ TypeOK /\ NoStoreAfterError /\ StreamInOrder /\ HandledInTurn /\ PositionsMatch /\ RepliesMatch
        /\ EndsMatch /\ OwnBytesOnly /\ NodeOutlivesCleanExit
    BY DEF WireInv
  <1>1. PICK n \in AtMost(Space, Len(toServer)) :
          /\ toServer' = Dropped(toServer, n)
          /\ \/ /\ total + n < HeaderLen /\ total' = total + n /\ got' = got \o Taken(toServer, n)
                /\ UNCHANGED <<at, want, owed, handled>>
             \/ /\ ~(total + n < HeaderLen) /\ total' = 0 /\ Framed(got \o Taken(toServer, n))
                /\ Dispatch(got \o Taken(toServer, n))
    BY DEF RecvHeader, Restarted
  <1>2. at = "header" /\ node = "up" /\ UNCHANGED <<peer, calls, outgoing, awaited, exit, toClient, closing, node, lost>>
    BY DEF RecvHeader, clientVars
  <1>3. /\ got \in Seq(Byte) /\ toServer \in Seq(Byte) /\ Len(got) \in Nat /\ Len(toServer) \in Nat /\ total \in Nat /\ total < WrapAt
        /\ peer \in {"cn", "dispatcher"} /\ want = <<>> /\ owed = 0 /\ lost \in BOOLEAN
    <2>1. total \in 0 .. WrapAt - 1 /\ WrapAt \in Nat
      BY <1>i, Constants DEF TypeOK
    <2>2. want = <<>> /\ owed = 0 /\ lost \in BOOLEAN
      BY <1>i, <1>2 DEF TypeOK
    <2> QED BY <1>i, <2>1, <2>2, Typed
  <1>4. Space \in Nat
    BY <1>3, Constants, Unsigned DEF Space
  <1>5. n \in Nat /\ n >= 1 /\ n <= Space /\ n <= Len(toServer)
    BY <1>1, <1>3, <1>4 DEF AtMost
  <1>6. total = Len(got) /\ total < HeaderLen
    <2>1. toServer # <<>>
      BY <1>3, <1>5
    <2> QED BY <1>i, <1>2, <2>1 DEF PositionsMatch, Counted
  <1>7. n \in 0 .. Len(toServer) /\ n <= HeaderLen - total /\ total + n \in Nat
    <2>1. HeaderLen \in Nat /\ WrapAt \in Nat /\ WrapAt > 2 * HeaderLen /\ total \in Nat /\ total < WrapAt /\ total < HeaderLen
      BY <1>3, <1>6, Constants
    <2>2. Space = HeaderLen - total
      BY <2>1, Unsigned DEF Space
    <2>3. n \in Nat /\ Len(toServer) \in Nat /\ n <= Len(toServer)
      BY <1>3, <1>5
    <2> QED BY <1>5, <2>1, <2>2, <2>3
  <1>8. PICK all : all = got \o Taken(toServer, n)
    OBVIOUS
  <1>9. /\ all \in Seq(Byte) /\ Len(all) = Len(got) + n /\ Len(got) + n \in Nat
        /\ \A k \in 1 .. Len(got) + n : all[k] = Stream[k]
    <2>1. PICK g, t : g = got /\ t = toServer
      OBVIOUS
    <2>2. g \in Seq(Byte) /\ t \in Seq(Byte) /\ n \in 0 .. Len(t) /\ all = g \o Taken(t, n) /\ Stream = g \o t
      BY <1>3, <1>7, <1>8, <2>1 DEF Stream
    <2>3. all \in Seq(Byte) /\ Len(all) = Len(g) + n /\ \A k \in 1 .. Len(g) + n : all[k] = Stream[k]
      BY <2>2, StreamTake
    <2>4. Len(got) + n \in Nat
      BY <1>3, <1>5
    <2> QED BY <2>1, <2>3, <2>4
  <1>10. Len(Stream) = Len(got) + Len(toServer) /\ Len(Stream) \in Nat /\ Stream \in Seq(Byte) /\ Len(got) + n <= Len(Stream)
    <2>1. Len(Stream) = Len(got) + Len(toServer) /\ Len(Stream) \in Nat /\ Stream \in Seq(Byte)
      BY <1>i, Facts
    <2> QED BY <1>3, <1>5, <2>1
  <1>11. CASE total + n < HeaderLen
    <2>1. total' = total + n /\ got' = all /\ UNCHANGED <<at, want, owed, handled>>
      BY <1>1, <1>8, <1>11
    <2>2. Takes(n)
      <3>1. total' \in 0 .. WrapAt - 1
        BY <1>7, <1>11, <2>1, Constants
      <3>2. want' \in Seq(Nat) /\ (at' = "payload") = (want' # <<>>) /\ (at' = "reply") = (owed > 0)
        BY <1>2, <1>3, <2>1
      <3> QED BY <1>1, <1>2, <1>3, <1>7, <1>8, <2>1, <3>1, <3>2 DEF Takes
    <2>3. Counted'
      <3>1. total' = Len(got') /\ total' < HeaderLen
        BY <1>6, <1>9, <1>11, <2>1
      <3> QED BY <1>2, <2>1, <3>1 DEF Counted
    <2>4. InPayload' /\ InUpload' /\ Roles'
      BY <1>i, <1>2, <2>1 DEF PositionsMatch, InPayload, InUpload, Roles
    <2>5. NoStoreAfterError'
      BY <2>3 DEF Counted, NoStoreAfterError
    <2> QED BY <2>2, <2>3, <2>4, <2>5, TakeKeeps DEF WireInv, PositionsMatch
  <1>12. CASE ~(total + n < HeaderLen)
    <2>1. total' = 0 /\ Framed(all) /\ Dispatch(all)
      BY <1>1, <1>8, <1>12
    <2>2. Len(got) + n = HeaderLen /\ HeaderLen \in Nat /\ HeaderLen >= 1
      BY <1>6, <1>7, <1>12, <1>3, Constants
    <2>3. PICK i : i = all[1].call
      OBVIOUS
    <2>4. \A k \in 1 .. HeaderLen : all[k] = [call |-> i, piece |-> 1, byte |-> k]
      <3>1. DOMAIN all = 1 .. HeaderLen
        BY <1>9, <2>2
      <3> QED BY <2>1, <2>3, <3>1 DEF Framed
    <2>5. /\ i \in DOMAIN calls /\ HeaderLen \in 1 .. Len(Stream)
          /\ Stream[1] = [call |-> i, piece |-> 1, byte |-> 1]
          /\ Stream[HeaderLen] = [call |-> i, piece |-> 1, byte |-> HeaderLen]
          /\ Sends(calls[i])[1] = HeaderLen
          /\ Len(Sends(calls[i])) = 1 => After(Stream[HeaderLen]) = [call |-> i + 1, piece |-> 1, byte |-> 1]
          /\ Len(Sends(calls[i])) # 1 => After(Stream[HeaderLen]) = [call |-> i, piece |-> 2, byte |-> 1]
      <3>1. 1 \in 1 .. HeaderLen /\ HeaderLen <= Len(Stream)
        BY <1>10, <2>2
      <3>2. Stream[1] = [call |-> i, piece |-> 1, byte |-> 1]
        BY <1>9, <2>2, <2>4, <3>1
      <3>3. Stream[1].piece = 1 /\ Stream[1].byte = 1 /\ i = Stream[1].call
        BY <3>2
      <3> QED BY <1>i, <3>1, <3>3, AfterHeader
    <2>6. calls[i] \in CallsOf(peer)
      BY <1>i, <2>5, Typed
    <2>7. \/ calls[i].kind = "score" /\ at' = "upload" /\ got' = all /\ UNCHANGED <<want, owed, handled>>
          \/ calls[i].kind # "score" /\ Recvs(calls[i]) = <<>> /\ Handle(all)
          \/ Recvs(calls[i]) # <<>> /\ at' = "payload" /\ got' = all /\ want' = Recvs(calls[i]) /\ UNCHANGED <<owed, handled>>
      BY <2>1, <2>3 DEF Dispatch
    <2>8. /\ ~lost => Stream[1] = [call |-> Len(handled) + 1, piece |-> 1, byte |-> 1] /\ i = Len(handled) + 1
          /\ lost => \A h \in DOMAIN handled : handled[h].call < i
      <3>1. Stream # <<>> /\ Stream[1].piece = 1 /\ Stream[1].call = i
        BY <2>5
      <3>2. ~lost => Stream[1] = [call |-> Len(handled) + 1, piece |-> 1, byte |-> 1]
        BY <1>i, <1>2, <3>1, TurnOf
      <3>3. lost => \A h \in DOMAIN handled : handled[h].call < i
        BY <1>i, <1>2, <3>1, TurnOf
      <3>4. ~lost => i = Len(handled) + 1
        BY <2>5, <3>2
      <3> QED BY <3>2, <3>3, <3>4
    <2>9. First = Stream[1] /\ (~lost => First = Turn)
      <3>1. First = Stream[1]
        BY <2>5 DEF First
      <3> QED BY <2>8, <3>1 DEF Turn
    <2>10. Roles /\ (peer = "cn" => ~lost)
      BY <1>i DEF PositionsMatch, Roles
    <2>11. CASE calls[i].kind # "score" /\ Recvs(calls[i]) = <<>> /\ Handle(all)
      <3>1. AllBytesOf(i, all)
        <4>1. DOMAIN all = 1 .. HeaderLen /\ all # <<>> /\ Last(all) = all[HeaderLen] /\ 1 \in 1 .. HeaderLen /\ HeaderLen \in 1 .. HeaderLen
          BY <1>9, <2>2 DEF Last
        <4>2. ASSUME NEW k \in 1 .. HeaderLen PROVE all[k].call = i /\ (k < HeaderLen => all[k + 1] = After(all[k]))
          <5>r. all[k] = [call |-> i, piece |-> 1, byte |-> k]
            BY <2>4
          <5>0. all[k].call = i
            BY <5>r
          <5>a. Len(Stream) \in Nat /\ HeaderLen <= Len(Stream) /\ HeaderLen \in Nat
            BY <1>10, <2>2
          <5>1. k \in 1 .. Len(Stream) /\ all[k] = Stream[k] /\ all[k].call = i
            BY <1>9, <2>2, <5>0, <5>a
          <5>2. k < HeaderLen => k + 1 \in 1 .. HeaderLen /\ k < Len(Stream)
            BY <1>10, <2>2
          <5>3. k < HeaderLen => Stream[k + 1] = After(Stream[k]) /\ all[k + 1] = Stream[k + 1]
            BY <1>i, <1>9, <2>2, <5>1, <5>2, Facts
          <5> QED BY <5>1, <5>3
        <4>3. calls[i].kind = "build" \/ Len(Sends(calls[i])) = 1
          BY <1>3, <2>6, <2>11, HeaderOnly
        <4>4. all[1] = [call |-> i, piece |-> 1, byte |-> 1] /\ all[HeaderLen] = [call |-> i, piece |-> 1, byte |-> HeaderLen]
          BY <2>4, <4>1
        <4>5. Len(all) = HeaderLen
          BY <1>9, <2>2
        <4> QED BY <2>5, <2>11, <4>1, <4>2, <4>3, <4>4, <4>5 DEF AllBytesOf
      <3>2. /\ handled' = Append(handled, [call |-> i, got |-> all]) /\ owed' = Reply(calls[i])
            /\ at' = (IF owed' > 0 THEN "reply" ELSE "header") /\ got' = <<>> /\ want' = <<>>
        BY <2>3, <2>11 DEF Handle
      <3>3. \/ After(Stream[HeaderLen]) = [call |-> i + 1, piece |-> 1, byte |-> 1]
            \/ calls[i].kind = "build" /\ After(Stream[HeaderLen]) = [call |-> i, piece |-> 2, byte |-> 1]
        BY <1>3, <2>5, <2>6, <2>11, HeaderOnly
      <3>4. Handles(n, HeaderLen, i, all)
        BY <1>1, <1>2, <1>7, <1>9, <2>1, <2>2, <2>5, <2>11, <3>1, <3>2, <3>3 DEF Handles
      <3> QED BY <3>4, HandleKeeps
    <2>12. CASE calls[i].kind = "score" /\ at' = "upload" /\ got' = all /\ UNCHANGED <<want, owed, handled>>
      <3>1. Takes(n)
        <4>1. total' \in 0 .. WrapAt - 1 /\ want' \in Seq(Nat)
          BY <1>3, <2>1, <2>12, Constants
        <4> QED BY <1>1, <1>2, <1>3, <1>7, <1>8, <2>9, <2>12, <4>1 DEF Takes
      <3>2. Counted' /\ InPayload' /\ NoStoreAfterError'
        BY <2>1, <2>12 DEF Counted, InPayload, NoStoreAfterError
      <3>3. Roles'
        BY <1>2, <2>10, <2>12 DEF Roles
      <3>4. peer = "dispatcher" /\ Len(Sends(calls[i])) # 1
        <4>1. peer = "dispatcher"
          BY <1>3, <2>6, <2>12, CallFacts
        <4>2. Len(Sends(calls[i])) >= 2 /\ Sends(calls[i]) \in Seq(Nat)
          BY <1>3, <2>6, <2>12, SendsFacts
        <4>3. PICK l \in Nat : l = Len(Sends(calls[i]))
          BY <4>2
        <4>4. l >= 2
          BY <4>2, <4>3
        <4>5. l # 1
          BY <4>4
        <4> QED BY <4>1, <4>3, <4>5
      <3>5. Len(all) = HeaderLen /\ DOMAIN all = 1 .. HeaderLen /\ 1 \in 1 .. HeaderLen
        BY <1>9, <2>2
      <3>6. ASSUME NEW h \in DOMAIN handled PROVE handled[h].call < i
        <4>1. ~lost => handled[h].call = h /\ h \in 1 .. Len(handled) /\ Len(handled) \in Nat
          BY <1>i, Typed DEF HandledInTurn
        <4> QED BY <2>8, <4>1
      <3>7. ASSUME NEW k \in DOMAIN all PROVE all[k].call = i /\ ~IsEnd(all[k])
        <4>1. all[k].call = i /\ all[k].piece = 1
          BY <2>4, <3>5
        <4> QED BY <3>4, <4>1 DEF IsEnd
      <3>8. InUpload'
        <4>1. \A u : IsEnd(u)' = IsEnd(u)
          BY <1>2 DEF IsEnd
        <4>2. all[1].call = i
          BY <2>3
        <4> HIDE DEF IsEnd
        <4> QED BY <1>2, <2>2, <2>12, <3>4, <3>5, <3>6, <3>7, <4>1, <4>2 DEF InUpload
      <3> QED BY <3>1, <3>2, <3>3, <3>8, TakeKeeps DEF WireInv, PositionsMatch
    <2>13. CASE Recvs(calls[i]) # <<>> /\ at' = "payload" /\ got' = all /\ want' = Recvs(calls[i]) /\ UNCHANGED <<owed, handled>>
      <3>1. peer = "cn" /\ calls[i].kind \in {"write", "blockingWrite", "program"} /\ ~lost /\ i = Len(handled) + 1
        <4>1. calls[i].kind # "score"
          BY <1>3, <2>6, <2>13, CallFacts
        <4>2. peer = "cn" /\ calls[i].kind \in {"write", "blockingWrite", "program"}
          BY <1>3, <2>6, <2>13, <4>1, HeaderOnly
        <4> QED BY <2>8, <2>10, <4>2
      <3>2. /\ Recvs(calls[i]) \in Seq(Nat) /\ RestOf(Recvs(calls[i]), Sends(calls[i])) /\ Len(Recvs(calls[i])) < Len(Sends(calls[i]))
            /\ Len(Sends(calls[i])) # 1 /\ ByteAt(i, Recvs(calls[i])) = [call |-> i, piece |-> 2, byte |-> 1]
        BY <1>i, <2>5, <3>1, RecvsFacts
      <3>3. Takes(n)
        <4>1. total' \in 0 .. WrapAt - 1
          BY <2>1, Constants
        <4> QED BY <1>1, <1>2, <1>3, <1>7, <1>8, <2>9, <2>13, <3>1, <3>2, <4>1 DEF Takes
      <3>4. Counted' /\ InUpload' /\ NoStoreAfterError'
        BY <2>1, <2>13 DEF Counted, InUpload, NoStoreAfterError
      <3>5. Roles'
        BY <1>2, <2>10, <2>13 DEF Roles
      <3>6. DOMAIN all = 1 .. HeaderLen /\ all # <<>> /\ Last(all) = Stream[HeaderLen]
        <4>1. HeaderLen \in 1 .. HeaderLen /\ Len(all) = HeaderLen /\ all[HeaderLen] = Stream[HeaderLen]
          BY <1>9, <2>2
        <4> QED BY <1>9, <4>1 DEF Last
      <3>7. After(Last(all)) = ByteAt(i, Recvs(calls[i]))
        BY <2>5, <3>2, <3>6
      <3>8. InPayload'
        <4>1. (\A u : After(u)' = After(u)) /\ \A j, r : ByteAt(j, r)' = ByteAt(j, r)
          BY <1>2 DEF After, ByteAt
        <4>2. \A k \in DOMAIN all : all[k].call = i
          BY <2>4, <3>6
        <4>3. Len(handled') + 1 = i
          BY <2>13, <3>1
        <4>4. PICK r, w : r = Recvs(calls[i]) /\ w = Last(all)
          OBVIOUS
        <4>5. want' = r /\ got' = all /\ After(w) = ByteAt(i, r) /\ calls' = calls /\ RestOf(r, Sends(calls[i])) /\ Len(r) < Len(Sends(calls[i]))
          BY <1>2, <2>13, <3>2, <3>7, <4>4
        <4>6. After(w)' = ByteAt(i, r)'
          BY <4>1, <4>5
        <4> HIDE DEF ByteAt, RestOf
        <4>7. Last(got)' = w
          BY <4>4, <4>5
        <4>8. After(Last(got))' = After(w)
          BY <4>1, <4>7
        <4>9. ByteAt(Len(handled) + 1, want)' = ByteAt(i, r)
          BY <4>1, <4>3, <4>5
        <4> QED BY <1>2, <3>1, <3>6, <4>2, <4>3, <4>5, <4>8, <4>9 DEF InPayload
      <3> QED BY <3>3, <3>4, <3>5, <3>8, TakeKeeps DEF WireInv, PositionsMatch
    <2> QED BY <2>7, <2>11, <2>12, <2>13
  <1> QED BY <1>11, <1>12

(* Steps that leave the bytes and the handled calls as they are.           *)
LEMMA SameKeeps ==
    ASSUME WireInv, UNCHANGED <<peer, calls, outgoing, awaited, exit, toServer, got, want, handled, lost>>,
           at' = at \/ (at \in {"header", "reply"} /\ at' \in {"header", "left"}), node' = node \/ node' = "ended"
    PROVE  /\ StreamInOrder' /\ HandledInTurn' /\ InPayload' /\ InUpload' /\ Roles' /\ AllAnswered'
           /\ \A h \in DOMAIN handled' : AllBytesOf(handled[h].call, handled[h].got)' \/ exit' = "abrupt" \/ lost'
  <1> HIDE DEF Byte, Stream
  <1>i. TypeOK /\ StreamInOrder /\ HandledInTurn /\ PositionsMatch /\ RepliesMatch /\ OwnBytesOnly
    BY DEF WireInv
  <1>1. StreamInOrder' /\ First' = First /\ (Some' <=> Some)
    BY <1>i, StreamSame
  <1>2. Turn' = Turn
    BY DEF Turn
  <1>3. HandledInTurn'
    <2> HIDE DEF First, Some, Turn
    <2> QED BY <1>i, <1>1, <1>2 DEF HandledInTurn
  <1>4. (\A u : After(u)' = After(u)) /\ (\A j, r : ByteAt(j, r)' = ByteAt(j, r)) /\ (\A u : IsEnd(u)' = IsEnd(u))
        /\ \A j, g : AllBytesOf(j, g)' = AllBytesOf(j, g)
    BY DEF After, ByteAt, IsEnd, AllBytesOf
  <1>5. InPayload'
    BY <1>i DEF PositionsMatch, InPayload, After, ByteAt
  <1>6. InUpload'
    BY <1>i DEF PositionsMatch, InUpload, IsEnd
  <1>7. Roles' /\ AllAnswered'
    BY <1>i DEF PositionsMatch, Roles, RepliesMatch, AllAnswered, Waits, Reply
  <1>8. ASSUME NEW h \in DOMAIN handled' PROVE AllBytesOf(handled[h].call, handled[h].got)' \/ exit' = "abrupt" \/ lost'
    <2>1. PICK j, g : j = handled'[h].call /\ g = handled'[h].got
      OBVIOUS
    <2>2. AllBytesOf(handled[h].call, handled[h].got) \/ exit = "abrupt" \/ lost
      BY <1>i, <1>8 DEF OwnBytesOnly
    <2> HIDE DEF AllBytesOf
    <2> QED BY <1>4, <2>1, <2>2
  <1> QED BY <1>1, <1>3, <1>5, <1>6, <1>7, <1>8

(* recv returns -1 to the loop (RecvError).                                *)
LEMMA ErrorKeeps ==
    ASSUME WireInv, RecvError
    PROVE  WireInv'
  <1> HIDE DEF Byte, Stream
  <1>i. /\ TypeOK /\ NoStoreAfterError /\ PositionsMatch /\ RepliesMatch /\ EndsMatch /\ OwnBytesOnly /\ NodeOutlivesCleanExit
    BY DEF WireInv
  <1>1. /\ at = "header" /\ toServer = <<>> /\ closing = "rst" /\ closing' = "fin"
        /\ \/ total' = AddedError /\ at' = at
           \/ at' = "left" /\ total' = total
        /\ UNCHANGED <<peer, calls, outgoing, awaited, exit, toServer, toClient, got, want, owed, node, handled, lost>>
    BY DEF RecvError, clientVars
  <1>2. /\ StreamInOrder' /\ HandledInTurn' /\ InPayload' /\ InUpload' /\ Roles' /\ AllAnswered'
        /\ \A h \in DOMAIN handled' : AllBytesOf(handled[h].call, handled[h].got)' \/ exit' = "abrupt" \/ lost'
    BY <1>1, SameKeeps
  <1>3. exit # "none"
    BY <1>i, <1>1 DEF EndsMatch
  <1>4. TypeOK'
    <2>1. total \in Nat /\ total < WrapAt /\ WrapAt \in Nat /\ HeaderLen \in Nat /\ WrapAt > 2 * HeaderLen
      BY <1>i, Constants DEF TypeOK
    <2>2. AddedError \in 0 .. WrapAt - 1
      BY <2>1, Unsigned DEF AddedError
    <2> QED BY <1>i, <1>1, <2>2 DEF TypeOK
  <1>5. Counted' /\ NoStoreAfterError' /\ EndsMatch' /\ NodeOutlivesCleanExit'
    BY <1>i, <1>1, <1>3 DEF Counted, NoStoreAfterError, EndsMatch, Idle, NodeOutlivesCleanExit
  <1>6. OnlyAwaited' /\ Balanced'
    BY <1>i, <1>1 DEF RepliesMatch, OnlyAwaited, Balanced, LastWaits, Waits, Reply
  <1>7. OwnBytesOnly'
    <2> HIDE DEF AllBytesOf
    <2> QED BY <1>i, <1>1, <1>2 DEF OwnBytesOnly
  <1> QED BY <1>2, <1>4, <1>5, <1>6, <1>7 DEF WireInv, PositionsMatch, RepliesMatch

(* recv returns 0 to the loop (RecvEnd).                                   *)
LEMMA EndKeeps ==
    ASSUME WireInv, RecvEnd
    PROVE  WireInv'
  <1> HIDE DEF Byte, Stream
  <1>i. /\ TypeOK /\ NoStoreAfterError /\ PositionsMatch /\ RepliesMatch /\ EndsMatch /\ OwnBytesOnly /\ NodeOutlivesCleanExit
    BY DEF WireInv
  <1>1. /\ at = "header" /\ at' = "left"
        /\ UNCHANGED <<peer, calls, outgoing, awaited, exit, toServer, toClient, closing, total, got, want, owed, node, handled, lost>>
    BY DEF RecvEnd, AfterEnd, clientVars
  <1>2. /\ StreamInOrder' /\ HandledInTurn' /\ InPayload' /\ InUpload' /\ Roles' /\ AllAnswered'
        /\ \A h \in DOMAIN handled' : AllBytesOf(handled[h].call, handled[h].got)' \/ exit' = "abrupt" \/ lost'
    BY <1>1, SameKeeps
  <1>3. TypeOK' /\ Counted' /\ NoStoreAfterError' /\ EndsMatch' /\ NodeOutlivesCleanExit'
    BY <1>i, <1>1 DEF TypeOK, Counted, NoStoreAfterError, EndsMatch, Idle, NodeOutlivesCleanExit
  <1>4. OnlyAwaited' /\ Balanced'
    BY <1>i, <1>1 DEF RepliesMatch, OnlyAwaited, Balanced, LastWaits, Waits, Reply
  <1>5. OwnBytesOnly'
    <2> HIDE DEF AllBytesOf
    <2> QED BY <1>i, <1>1, <1>2 DEF OwnBytesOnly
  <1> QED BY <1>2, <1>3, <1>4, <1>5 DEF WireInv, PositionsMatch, RepliesMatch

(* A node that serves a client waits for no more than the client sends.    *)
LEMMA PayloadFailsKeeps ==
    ASSUME WireInv, RecvPayloadFails
    PROVE  WireInv'
  <1> HIDE DEF Byte, Stream
  <1>i. /\ TypeOK /\ NoStoreAfterError /\ StreamInOrder /\ PositionsMatch /\ RepliesMatch /\ EndsMatch /\ OwnBytesOnly
        /\ NodeOutlivesCleanExit
    BY DEF WireInv
  <1>1. /\ at = "payload" /\ node = "up" /\ node' = "ended"
        /\ UNCHANGED <<peer, calls, outgoing, awaited, exit, toServer, toClient, closing, at, total, got, want, owed, handled, lost>>
    BY DEF RecvPayloadFails, clientVars
  <1>2. /\ StreamInOrder' /\ HandledInTurn' /\ InPayload' /\ InUpload' /\ Roles' /\ AllAnswered'
        /\ \A h \in DOMAIN handled' : AllBytesOf(handled[h].call, handled[h].got)' \/ exit' = "abrupt" \/ lost'
    BY <1>1, SameKeeps
  <1>3. TypeOK' /\ Counted' /\ NoStoreAfterError' /\ EndsMatch'
    BY <1>i, <1>1 DEF TypeOK, PositionsMatch, Counted, NoStoreAfterError, EndsMatch, Idle
  <1>4. OnlyAwaited' /\ Balanced'
    BY <1>i, <1>1 DEF RepliesMatch, OnlyAwaited, Balanced, LastWaits, Waits, Reply
  <1>5. OwnBytesOnly'
    <2> HIDE DEF AllBytesOf
    <2> QED BY <1>i, <1>1, <1>2 DEF OwnBytesOnly
  <1>6. exit = "abrupt"
    <2> SUFFICES ASSUME exit # "abrupt" PROVE FALSE
      OBVIOUS
    <2>1. PICK i : i = Len(handled) + 1
      OBVIOUS
    <2>2. /\ got # <<>> /\ RestOf(want, Sends(calls[i])) /\ After(Last(got)) = ByteAt(i, want)
          /\ \A k \in DOMAIN got : got[k].call = i
      BY <1>i, <1>1, <2>1 DEF PositionsMatch, InPayload
    <2>3. PICK l \in Nat : l = Len(got)
      BY <1>i, Typed
    <2>4. l \in 1 .. Len(got) /\ Last(got) = got[l] /\ l \in DOMAIN got /\ got \in Seq(Byte)
      <3>1. got \in Seq(Byte)
        BY <1>i, Typed
      <3> QED BY <2>2, <2>3, <3>1 DEF Last
    <2>5. /\ Last(got) = Stream[l] /\ l \in 1 .. Len(Stream) /\ i \in DOMAIN calls
      BY <1>i, <2>2, <2>4, GotBytes
    <2>6. Len(Stream) \in Nat /\ Len(Stream) = l + Len(toServer) /\ Len(toServer) \in Nat /\ Len(calls) \in Nat /\ i \in 1 .. Len(calls)
      BY <1>i, <2>3, <2>5, Facts, Typed
    <2>7. ByteAt(i, want).call = i
      BY DEF ByteAt
    <2>8. CASE toServer = <<>> /\ closing # "open"
      <3>1. exit = "clean"
        BY <1>i, <2>8 DEF EndsMatch, TypeOK
      <3>2. NextByte = [call |-> Len(calls) + 1, piece |-> 1, byte |-> 1]
        BY <1>i, <3>1 DEF EndsMatch, Idle, NextByte, FirstOfNext
      <3>3. l = Len(Stream)
        BY <2>3, <2>6, <2>8
      <3>4. NextByte = After(Stream[l])
        BY <1>i, <2>5, <3>3, Facts
      <3>5. ByteAt(i, want).call = Len(calls) + 1
        BY <2>2, <2>5, <3>2, <3>4
      <3> QED BY <2>6, <2>7, <3>5
    <2>9. CASE toServer # <<>> /\ Head(want) = 0
      <3>1. l + 1 \in 1 .. Len(Stream) /\ l < Len(Stream)
        <4>1. Len(toServer) >= 1
          <5>1. toServer \in Seq(Byte)
            BY <1>i, Typed
          <5> QED BY <2>9, <5>1
        <4> QED BY <2>3, <2>6, <4>1
      <3>2. Stream[l + 1] = ByteAt(i, want)
        <4>1. Stream[l + 1] = After(Stream[l])
          BY <1>i, <2>5, <3>1, Facts
        <4> QED BY <2>2, <2>5, <4>1
      <3>3. PICK u : u = Stream[l + 1]
        OBVIOUS
      <3>4. u.byte \in 1 .. LengthAt(u) /\ LengthAt(u) \in Nat /\ u = ByteAt(i, want)
        BY <1>i, <3>1, <3>2, <3>3, Facts
      <3>5. u.byte = LengthAt(u) - 0 + 1
        BY <2>9, <3>4 DEF ByteAt, LengthAt
      <3> QED BY <3>4, <3>5
    <2>10. (toServer = <<>> /\ closing # "open") \/ (toServer # <<>> /\ Head(want) = 0)
      BY DEF RecvPayloadFails
    <2> QED BY <2>8, <2>9, <2>10
  <1>7. NodeOutlivesCleanExit'
    BY <1>1, <1>6 DEF NodeOutlivesCleanExit
  <1> QED BY <1>2, <1>3, <1>4, <1>5, <1>7 DEF WireInv, PositionsMatch, RepliesMatch

(* A reply is owed to the call the client waits for.                       *)
LEMMA ReplyKeeps ==
    ASSUME WireInv, SendReply
    PROVE  WireInv'
  <1> HIDE DEF Byte, Stream
  <1>i. /\ TypeOK /\ NoStoreAfterError /\ StreamInOrder /\ HandledInTurn /\ PositionsMatch /\ RepliesMatch /\ EndsMatch
        /\ OwnBytesOnly /\ NodeOutlivesCleanExit
    BY DEF WireInv
  <1>1. PICK n \in AtMost(owed, BufCap - Len(toClient)) :
          /\ toClient' = toClient \o [u \in 1 .. n |-> Last(handled).call] /\ owed' = owed - n
          /\ at' = IF n = owed THEN "header" ELSE "reply"
    BY DEF SendReply
  <1>2. /\ at = "reply" /\ node = "up" /\ closing = "open"
        /\ UNCHANGED <<peer, calls, outgoing, awaited, exit, toServer, closing, total, got, want, node, handled, lost>>
    BY DEF SendReply, clientVars
  <1>3. /\ owed \in Nat /\ owed > 0 /\ toClient \in Seq(Nat) /\ Len(toClient) \in Nat /\ BufCap \in Nat /\ want = <<>>
    BY <1>i, <1>2, Typed, Constants DEF TypeOK
  <1>4. n \in Nat /\ n >= 1 /\ n <= owed /\ Len(toClient) + n <= BufCap
    BY <1>1, <1>3 DEF AtMost
  <1>5. exit = "none" /\ total = 0 /\ got = <<>>
    BY <1>i, <1>2 DEF EndsMatch, PositionsMatch, Counted
  <1>6. ~lost /\ Len(handled) = Len(calls) /\ LastWaits /\ calls # <<>>
        /\ awaited = Len(toClient) + owed + (IF Len(handled) < Len(calls) THEN Reply(Last(calls)) ELSE 0)
    <2>1. ~(owed = 0)
      BY <1>3
    <2> QED BY <1>i, <1>3, <1>5, <2>1 DEF RepliesMatch, Balanced, LastWaits
  <1>7. Last(handled).call = Len(calls) /\ Len(calls) \in Nat /\ awaited = Len(toClient) + owed
    <2>1. /\ Len(calls) \in Nat /\ calls \in Seq(CallsOf(peer)) /\ DOMAIN handled = 1 .. Len(handled)
          /\ handled \in Seq([call : Nat, got : Seq(Byte)])
      BY <1>i, Typed
    <2>2. Len(handled) \in DOMAIN handled /\ Last(handled) = handled[Len(handled)]
      BY <1>6, <2>1 DEF Last
    <2>3. handled[Len(handled)].call = Len(handled)
      BY <1>i, <1>6, <2>2 DEF HandledInTurn
    <2>4. ~(Len(handled) < Len(calls))
      BY <1>6, <2>1
    <2>5. awaited = Len(toClient) + owed + 0
      BY <1>6, <2>4
    <2> QED BY <1>3, <1>6, <2>1, <2>2, <2>3, <2>5
  <1>8. PICK c \in Nat : c = Len(calls)
    BY <1>7
  <1>9. PICK X : X = [u \in 1 .. n |-> c]
    OBVIOUS
  <1>10. X \in Seq(Nat) /\ Len(X) = n /\ DOMAIN X = 1 .. n
    BY <1>4, <1>9
  <1>11. toClient' \in Seq(Nat) /\ Len(toClient') = Len(toClient) + n /\ toClient' = toClient \o X
    <2>1. toClient' = toClient \o X
      <3>1. Last(handled).call = c
        BY <1>7, <1>8
      <3> QED BY <1>1, <1>9, <3>1
    <2>2. toClient \in Seq(Nat) /\ X \in Seq(Nat) /\ Len(X) = n
      BY <1>3, <1>10
    <2>3. toClient \o X \in Seq(Nat) /\ Len(toClient \o X) = Len(toClient) + n
      BY SMTT(20), <2>2
    <2> QED BY <2>1, <2>3
  <1>12. /\ StreamInOrder' /\ HandledInTurn' /\ InPayload' /\ InUpload' /\ Roles' /\ AllAnswered'
         /\ \A h \in DOMAIN handled' : AllBytesOf(handled[h].call, handled[h].got)' \/ exit' = "abrupt" \/ lost'
    BY <1>1, <1>2, SameKeeps
  <1>13. TypeOK'
    <2>1. Len(toClient') <= BufCap + EndLen * Len(handled)
      <3>1. EndLen \in Nat /\ Len(handled) \in Nat
        BY <1>i, Typed, Constants
      <3>2. EndLen * Len(handled) \in Nat
        BY <3>1
      <3>3. PICK z \in Nat : z = EndLen * Len(handled)
        BY <3>2
      <3> QED BY <1>3, <1>4, <1>11, <3>3
    <2>2. owed' \in Nat /\ (at' = "reply") = (owed' > 0) /\ at' \in {"header", "reply"}
      BY <1>1, <1>3, <1>4
    <2> QED BY <1>i, <1>2, <1>3, <1>11, <2>1, <2>2 DEF TypeOK
  <1>14. Counted' /\ NoStoreAfterError'
    <2>1. Len(got) = 0 /\ 0 < HeaderLen
      BY <1>5, Constants
    <2> QED BY <1>1, <1>2, <1>5, <2>1 DEF Counted, NoStoreAfterError
  <1>15. LastWaits' /\ Reply(Last(calls))' = Reply(Last(calls))
    BY <1>2, <1>6 DEF LastWaits, Waits, Reply
  <1>16. OnlyAwaited'
    <2>1. \A u \in DOMAIN toClient : toClient[u] = c
      <3>1. ~(owed = 0) /\ awaited > 0
        BY <1>3, <1>7
      <3> QED BY <1>i, <1>8, <3>1 DEF RepliesMatch, OnlyAwaited
    <2>2. ASSUME NEW u \in DOMAIN toClient' PROVE toClient'[u] = c
      <3>1. u \in 1 .. Len(toClient) + n
        BY <1>11
      <3>2. CASE u \in 1 .. Len(toClient)
        BY <1>3, <1>10, <1>11, <2>1, <3>2
      <3>3. CASE ~(u \in 1 .. Len(toClient))
        <4>1. u - Len(toClient) \in 1 .. n
          BY <1>3, <1>4, <3>1, <3>3
        <4>2. toClient'[u] = X[u - Len(toClient)]
          BY <1>3, <1>10, <1>11, <3>1, <3>3
        <4> QED BY <1>9, <4>1, <4>2
      <3> QED BY <3>2, <3>3
    <2> HIDE DEF LastWaits
    <2> QED BY <1>2, <1>6, <1>8, <1>15, <2>2 DEF OnlyAwaited
  <1>17. Balanced'
    <2>1. awaited = Len(toClient') + owed' + 0
      BY <1>1, <1>3, <1>4, <1>7, <1>11
    <2>2. ~(Len(handled) < Len(calls))
      BY <1>6, <1>7
    <2> HIDE DEF LastWaits, Reply
    <2> QED BY <1>2, <1>6, <1>15, <2>1, <2>2 DEF Balanced
  <1>18. EndsMatch' /\ NodeOutlivesCleanExit'
    BY <1>i, <1>2 DEF EndsMatch, Idle, NodeOutlivesCleanExit
  <1>19. OwnBytesOnly'
    <2> HIDE DEF AllBytesOf
    <2> QED BY <1>12, <1>16 DEF OwnBytesOnly, OnlyAwaited
  <1> QED BY <1>12, <1>13, <1>14, <1>16, <1>17, <1>18, <1>19 DEF WireInv, PositionsMatch, RepliesMatch

(* No reply is owed to a client that ended when it had its replies.        *)
LEMMA ReplyToNobodyKeeps ==
    ASSUME WireInv, SendReplyToNobody
    PROVE  WireInv'
  <1> HIDE DEF Byte, Stream
  <1>i. /\ TypeOK /\ NoStoreAfterError /\ StreamInOrder /\ HandledInTurn /\ PositionsMatch /\ RepliesMatch /\ EndsMatch
        /\ OwnBytesOnly /\ NodeOutlivesCleanExit
    BY DEF WireInv
  <1>1. /\ at = "reply" /\ node = "up" /\ closing # "open"
        /\ UNCHANGED <<peer, calls, outgoing, awaited, exit, toServer, toClient, total, got, want, handled, lost>>
        /\ \/ closing' = "rst" /\ owed' = 0 /\ at' = "header" /\ node' = node
           \/ node' = "ended" /\ UNCHANGED <<closing, owed, at>>
    BY DEF SendReplyToNobody, clientVars
  <1>2. exit = "abrupt"
    <2> SUFFICES ASSUME exit # "abrupt" PROVE FALSE
      OBVIOUS
    <2>1. exit = "clean" /\ awaited = 0
      BY <1>i, <1>1 DEF EndsMatch, Idle, TypeOK
    <2>2. owed = 0
      BY <1>i, <2>1, WhenIdle
    <2>3. owed > 0
      BY <1>i, <1>1 DEF TypeOK
    <2> QED BY <2>2, <2>3
  <1>3. /\ StreamInOrder' /\ HandledInTurn' /\ InPayload' /\ InUpload' /\ Roles' /\ AllAnswered'
        /\ \A h \in DOMAIN handled' : AllBytesOf(handled[h].call, handled[h].got)' \/ exit' = "abrupt" \/ lost'
    BY <1>1, SameKeeps
  <1>4. want = <<>> /\ total = 0 /\ got = <<>>
    BY <1>i, <1>1 DEF TypeOK, PositionsMatch, Counted
  <1>5. TypeOK'
    BY <1>i, <1>1, <1>4 DEF TypeOK
  <1>6. Counted' /\ NoStoreAfterError'
    <2>1. Len(got) = 0 /\ 0 < HeaderLen
      BY <1>4, Constants
    <2> QED BY <1>1, <1>4, <2>1 DEF Counted, NoStoreAfterError
  <1>7. EndsMatch' /\ NodeOutlivesCleanExit' /\ Balanced'
    BY <1>1, <1>2 DEF EndsMatch, NodeOutlivesCleanExit, Balanced
  <1>8. OnlyAwaited'
    BY <1>i, <1>1 DEF RepliesMatch, OnlyAwaited, LastWaits, Waits, Reply
  <1>9. OwnBytesOnly'
    <2> HIDE DEF AllBytesOf
    <2> QED BY <1>3, <1>8 DEF OwnBytesOnly, OnlyAwaited
  <1> QED BY <1>3, <1>5, <1>6, <1>7, <1>8, <1>9 DEF WireInv, PositionsMatch, RepliesMatch

(* Other bytes than a header come only after a build with options or after *)
(* a missed END.                                                           *)
LEMMA MisframedKeeps ==
    ASSUME WireInv, RecvMisframed
    PROVE  WireInv'
  <1> HIDE DEF Byte, Stream, After, AllBytesOf
  <1>i. /\ TypeOK /\ NoStoreAfterError /\ StreamInOrder /\ HandledInTurn /\ PositionsMatch /\ RepliesMatch /\ EndsMatch
        /\ OwnBytesOnly /\ NodeOutlivesCleanExit
    BY DEF WireInv
  <1>1. PICK n : n = HeaderLen - total
    OBVIOUS
  <1>2. /\ at = "header" /\ node = "up" /\ n \in AtMost(Space, Len(toServer)) /\ ~Framed(got \o Taken(toServer, n))
        /\ toServer' = Dropped(toServer, n) /\ node' \in (IF peer = "cn" THEN {"ended"} ELSE {"up", "ended"})
        /\ total' = 0 /\ got' = <<>>
        /\ UNCHANGED <<peer, calls, outgoing, awaited, exit, toClient, closing, at, want, owed, handled, lost>>
    BY <1>1 DEF RecvMisframed, Restarted, clientVars
  <1>3. /\ got \in Seq(Byte) /\ toServer \in Seq(Byte) /\ Len(got) \in Nat /\ Len(toServer) \in Nat
        /\ peer \in {"cn", "dispatcher"} /\ lost \in BOOLEAN
    BY <1>i, Typed DEF TypeOK
  <1>4. HeaderLen \in Nat /\ HeaderLen > 0 /\ WrapAt \in Nat /\ WrapAt > 2 * HeaderLen /\ total \in Nat /\ total < WrapAt
    BY <1>i, Constants DEF TypeOK
  <1>5. Space \in Nat
    BY <1>4, Unsigned DEF Space
  <1>6. n \in Nat /\ n >= 1 /\ n <= Len(toServer)
    BY <1>2, <1>3, <1>5 DEF AtMost
  <1>7. total = Len(got) /\ total < HeaderLen
    <2>1. toServer # <<>>
      BY <1>3, <1>6
    <2> QED BY <1>i, <1>2, <2>1 DEF PositionsMatch, Counted
  <1>8. n \in 0 .. Len(toServer) /\ Len(got) + n = HeaderLen
    <2>1. n <= Len(toServer) /\ n \in Nat /\ Len(toServer) \in Nat
      BY <1>3, <1>6
    <2>2. Len(got) + n = HeaderLen
      BY <1>1, <1>4, <1>7
    <2> QED BY <2>1, <2>2
  <1>9. Len(Stream) \in Nat /\ HeaderLen <= Len(Stream) /\ Stream # <<>>
    <2>1. Len(Stream) = Len(got) + Len(toServer) /\ Len(Stream) \in Nat /\ Stream \in Seq(Byte)
      BY <1>i, Facts
    <2>2. HeaderLen <= Len(Stream)
      BY <1>3, <1>6, <1>8, <2>1
    <2> QED BY <1>4, <2>1, <2>2
  <1>10. /\ StreamInOrder' /\ toServer' \in Seq(Byte) /\ Len(toServer') = Len(toServer) - n
    BY <1>i, <1>2, <1>8, ServerClears
  <1>11. ~lost => /\ handled # <<>> /\ calls[Len(handled)].kind = "build"
                  /\ Stream[1] = [call |-> Len(handled), piece |-> 2, byte |-> 1]
    <2> SUFFICES ASSUME Stream[1] = [call |-> Len(handled) + 1, piece |-> 1, byte |-> 1] PROVE FALSE
      BY <1>i, <1>2, <1>9, TurnOf
    <2>1. PICK all : all = got \o Taken(toServer, n)
      OBVIOUS
    <2>2. all \in Seq(Byte) /\ Len(all) = HeaderLen /\ \A k \in 1 .. HeaderLen : all[k] = Stream[k]
      <3>1. PICK g, t : g = got /\ t = toServer
        OBVIOUS
      <3>2. g \in Seq(Byte) /\ t \in Seq(Byte) /\ n \in 0 .. Len(t) /\ all = g \o Taken(t, n) /\ Stream = g \o t /\ Len(g) + n = HeaderLen
        BY <1>3, <1>8, <2>1, <3>1 DEF Stream
      <3>3. all \in Seq(Byte) /\ Len(all) = Len(g) + n /\ \A k \in 1 .. Len(g) + n : all[k] = Stream[k]
        BY <3>2, StreamTake
      <3> QED BY <3>2, <3>3
    <2>3. Stream[1].piece = 1 /\ Stream[1].byte = 1
      OBVIOUS
    <2>4. PICK i : i = Stream[1].call
      OBVIOUS
    <2>5. ASSUME NEW k \in 1 .. HeaderLen PROVE all[k] = [call |-> i, piece |-> 1, byte |-> k]
      <3>1. k \in 1 .. Len(Stream) /\ k <= HeaderLen
        BY <1>4, <1>9
      <3>2. Stream[k] = [call |-> Stream[1].call, piece |-> 1, byte |-> k]
        BY <1>i, <2>3, <3>1, HeaderBytes
      <3> QED BY <2>2, <2>4, <3>2
    <2>6. DOMAIN all = 1 .. HeaderLen /\ 1 \in 1 .. HeaderLen
      BY <1>4, <2>2
    <2>7. all[1].call = i
      <3>1. all[1] = [call |-> i, piece |-> 1, byte |-> 1]
        BY <2>5, <2>6
      <3> QED BY <3>1
    <2>8. Framed(all)
      BY <2>5, <2>6, <2>7 DEF Framed
    <2> QED BY <1>2, <2>1, <2>8
  <1>12. ~lost => /\ Len(handled) \in DOMAIN calls /\ calls[Len(handled)].kind = "build" /\ calls[Len(handled)].len > 0
                  /\ peer = "cn"
    <2> SUFFICES ASSUME ~lost
                 PROVE /\ Len(handled) \in DOMAIN calls /\ calls[Len(handled)].kind = "build" /\ calls[Len(handled)].len > 0
                       /\ peer = "cn"
      OBVIOUS
    <2>1. PICK j : j = Len(handled)
      OBVIOUS
    <2>2. calls[j].kind = "build" /\ Stream[1] = [call |-> j, piece |-> 2, byte |-> 1]
      BY <1>11, <2>1
    <2>3. 1 \in 1 .. Len(Stream)
      BY <1>4, <1>9
    <2>4. j \in DOMAIN calls /\ 2 \in DOMAIN Sends(calls[j])
      <3>1. Stream[1].call = j /\ Stream[1].piece = 2
        BY <2>2
      <3> QED BY <1>i, <2>3, <3>1, Facts
    <2>5. calls[j] \in CallsOf(peer)
      BY <1>i, <2>4, Typed
    <2>6. peer = "cn" /\ calls[j].len \in Nat
      BY <1>3, <2>2, <2>5, CallFacts
    <2>7. calls[j].len # 0
      <3>1. calls[j].len = 0 => Sends(calls[j]) = <<HeaderLen>>
        BY <1>3, <2>2, <2>5, CallFacts
      <3>2. 2 \notin DOMAIN <<HeaderLen>>
        OBVIOUS
      <3> QED BY <2>4, <3>1, <3>2
    <2> QED BY <2>1, <2>2, <2>4, <2>6, <2>7
  <1>13. ~lost => node' = "ended"
    BY <1>2, <1>12
  <1>14. TypeOK'
    <2>1. Len(toServer') <= BufCap
      <3>1. Len(toServer) <= BufCap /\ BufCap \in Nat
        BY <1>i, Constants DEF TypeOK
      <3> QED BY <1>3, <1>6, <1>10, <3>1
    <2>2. 0 \in 0 .. WrapAt - 1
      BY <1>4
    <2> QED BY <1>i, <1>2, <1>10, <2>1, <2>2 DEF TypeOK
  <1>15. Counted' /\ NoStoreAfterError' /\ InPayload' /\ InUpload' /\ Roles'
    <2>1. Roles
      BY <1>i DEF PositionsMatch
    <2>2. Len(got') = 0 /\ 0 < HeaderLen
      BY <1>2, <1>4
    <2> QED BY <1>2, <2>1, <2>2 DEF Counted, NoStoreAfterError, InPayload, InUpload, Roles
  <1>16. HandledInTurn'
    <2>1. ASSUME Some', lost, NEW h \in DOMAIN handled PROVE handled[h].call < First'.call
      <3>1. Apart(Stream[1], First', HeaderLen + 1 - 1) /\ 1 \in 1 .. Len(Stream)
        <4>1. 1 \in 1 .. HeaderLen /\ HeaderLen >= 1 /\ 1 \in 1 .. Len(Stream) /\ HeaderLen = Len(got) + n
          BY <1>4, <1>8, <1>9
        <4> QED BY <1>i, <1>2, <1>8, <2>1, <4>1, FirstAfter
      <3>2. Stream[1].call \in Nat /\ handled[h].call < Stream[1].call
        BY <1>i, <1>2, <1>9, <2>1, TurnOf
      <3>3. handled[h].call \in Nat
        BY <1>i, <2>1, Typed
      <3>4. First'.call = Stream[1].call \/ Stream[1].call < First'.call
        BY <3>1 DEF Apart, Earlier
      <3>5. First'.call \in Nat
        <4>1. First' = After(Stream[HeaderLen]) /\ HeaderLen \in 1 .. Len(Stream)
          <5>1. HeaderLen >= 1 /\ HeaderLen = Len(got) + n
            BY <1>4, <1>8
          <5> QED BY <1>i, <1>2, <1>8, <2>1, <5>1, FirstAfter
        <4>2. After(Stream[HeaderLen]) \in Byte
          BY <1>i, <4>1, Facts, AfterFacts
        <4> QED BY <4>1, <4>2 DEF Byte
      <3> QED BY <3>2, <3>3, <3>4, <3>5
    <2> HIDE DEF First, Some, Turn
    <2> QED BY <1>i, <1>2, <1>13, <2>1 DEF HandledInTurn
  <1>17. RepliesMatch' /\ EndsMatch'
    BY <1>i, <1>2 DEF RepliesMatch, AllAnswered, OnlyAwaited, Balanced, LastWaits, Waits, Reply, EndsMatch, Idle
  <1>18. OwnBytesOnly'
    BY <1>i, <1>2 DEF OwnBytesOnly, AllBytesOf, After
  <1>19. NodeOutlivesCleanExit'
    <2>1. ~lost => \E i \in DOMAIN calls : calls[i].kind = "build" /\ calls[i].len > 0
      BY <1>12
    <2> QED BY <1>2, <2>1 DEF NodeOutlivesCleanExit
  <1> QED BY <1>10, <1>14, <1>15, <1>16, <1>17, <1>18, <1>19 DEF WireInv, PositionsMatch

(* A handler receives the pieces of its call one after the other.          *)
LEMMA PayloadKeeps ==
    ASSUME WireInv, RecvPayload
    PROVE  WireInv'
  <1> HIDE DEF Byte, Stream, After, AllBytesOf, RestOf, Less, ByteAt
  <1>i. /\ TypeOK /\ NoStoreAfterError /\ StreamInOrder /\ HandledInTurn /\ PositionsMatch /\ RepliesMatch /\ EndsMatch
        /\ OwnBytesOnly /\ NodeOutlivesCleanExit
    BY DEF WireInv
  <1>1. PICK n \in AtMost(Head(want), Len(toServer)) :
          /\ toServer' = Dropped(toServer, n)
          /\ \/ Less(want, n) = <<>> /\ Handle(got \o Taken(toServer, n))
             \/ /\ Less(want, n) # <<>> /\ want' = Less(want, n) /\ got' = got \o Taken(toServer, n)
                /\ UNCHANGED <<at, owed, handled>>
    BY DEF RecvPayload
  <1>2. at = "payload" /\ node = "up" /\ UNCHANGED <<peer, calls, outgoing, awaited, exit, toClient, closing, total, node, lost>>
    BY DEF RecvPayload, clientVars
  <1>3. PICK i : i = Len(handled) + 1
    OBVIOUS
  <1>4. /\ peer = "cn" /\ got # <<>> /\ calls[i].kind \in {"write", "blockingWrite", "program"}
        /\ RestOf(want, Sends(calls[i])) /\ Len(want) < Len(Sends(calls[i])) /\ After(Last(got)) = ByteAt(i, want)
        /\ (\A k \in DOMAIN got : got[k].call = i) /\ ~lost /\ total = 0
    BY <1>i, <1>2, <1>3 DEF PositionsMatch, Counted, InPayload, Roles
  <1>5. /\ got \in Seq(Byte) /\ toServer \in Seq(Byte) /\ Len(got) \in Nat /\ Len(toServer) \in Nat
        /\ want \in Seq(Nat) /\ want # <<>> /\ owed \in Nat /\ owed = 0
    BY <1>i, <1>2, Typed DEF TypeOK
  <1>6. Head(want) \in Nat /\ n \in 1 .. Head(want) /\ n \in Nat /\ n >= 1 /\ n <= Len(toServer) /\ n \in 0 .. Len(toServer)
    <2>1. Head(want) \in Nat
      BY <1>5
    <2>2. n \in 1 .. Head(want) /\ n \in Nat /\ n >= 1 /\ n <= Len(toServer)
      BY <1>1, <1>5, <2>1 DEF AtMost
    <2> QED BY <1>5, <2>1, <2>2
  <1>7. PICK l \in Nat : l = Len(got)
    BY <1>5
  <1>8. l \in 1 .. Len(got) /\ Last(got) = got[l] /\ l >= 1
    BY <1>4, <1>5, <1>7 DEF Last
  <1>9. Last(got) = Stream[l] /\ l \in 1 .. Len(Stream) /\ i \in DOMAIN calls
    <2>1. got[l].call = i
      BY <1>4, <1>5, <1>8
    <2> QED BY <1>i, <1>8, <2>1, GotBytes
  <1>10. Len(Stream) \in Nat /\ Stream \in Seq(Byte) /\ Len(Stream) = l + Len(toServer) /\ l + n <= Len(Stream)
    <2>1. Len(Stream) = Len(got) + Len(toServer) /\ Len(Stream) \in Nat /\ Stream \in Seq(Byte)
      BY <1>i, Facts
    <2> QED BY <1>5, <1>6, <1>7, <2>1
  <1>11. PICK x : x = ByteAt(i, want)
    OBVIOUS
  <1>12. PICK y : y = [call |-> x.call, piece |-> x.piece, byte |-> x.byte + (n - 1)]
    OBVIOUS
  <1>13. /\ x \in Byte /\ y \in Byte /\ x.call = i /\ x.byte \in Nat /\ x.byte >= 1 /\ x.piece \in DOMAIN Sends(calls[i])
         /\ LengthAt(x) \in Nat /\ LengthAt(x) - x.byte = Head(want) - 1 /\ x.byte + (n - 1) <= LengthAt(x)
         /\ Less(want, n) \in Seq(Nat) /\ RestOf(Less(want, n), Sends(calls[i]))
         /\ After(y) = IF Less(want, n) = <<>> THEN [call |-> i + 1, piece |-> 1, byte |-> 1] ELSE ByteAt(i, Less(want, n))
         /\ Less(want, n) = <<>> => y = [call |-> i, piece |-> Len(Sends(calls[i])), byte |-> Sends(calls[i])[Len(Sends(calls[i]))]]
    <2>1. TypeOK /\ i \in DOMAIN calls /\ want \in Seq(Nat) /\ want # <<>> /\ RestOf(want, Sends(calls[i])) /\ n \in 1 .. Head(want)
      BY <1>i, <1>4, <1>5, <1>6, <1>9
    <2>2. /\ x \in Byte /\ y \in Byte /\ x.call = i /\ x.byte \in Nat /\ x.byte >= 1 /\ x.piece \in DOMAIN Sends(calls[i])
          /\ LengthAt(x) \in Nat /\ x.byte + (n - 1) <= LengthAt(x)
          /\ Less(want, n) \in Seq(Nat) /\ RestOf(Less(want, n), Sends(calls[i]))
      BY <1>11, <1>12, <2>1, Advance
    <2>3. LengthAt(x) - x.byte = Head(want) - 1
      BY <1>11, <1>12, <2>1, Advance
    <2>4. After(y) = IF Less(want, n) = <<>> THEN [call |-> i + 1, piece |-> 1, byte |-> 1] ELSE ByteAt(i, Less(want, n))
      BY <1>11, <1>12, <2>1, Advance
    <2>5. Less(want, n) = <<>> => y = [call |-> i, piece |-> Len(Sends(calls[i])), byte |-> Sends(calls[i])[Len(Sends(calls[i]))]]
      BY SMTT(20), <1>11, <1>12, <2>1, Advance
    <2> QED BY <2>2, <2>3, <2>4, <2>5
  <1>14. l + 1 \in 1 .. Len(Stream) /\ Stream[l + 1] = x
    <2>1. l + 1 \in 1 .. Len(Stream) /\ l < Len(Stream)
      BY <1>6, <1>10
    <2>2. Stream[l + 1] = After(Stream[l])
      BY <1>i, <1>9, <2>1, Facts
    <2> QED BY <1>4, <1>9, <1>11, <2>1, <2>2
  <1>15. ASSUME NEW k \in l + 1 .. l + n
         PROVE  Stream[k] = [call |-> i, piece |-> x.piece, byte |-> x.byte + (k - (l + 1))] /\ Stream[k].call = i
    <2>1. k \in 1 .. Len(Stream) /\ l + 1 <= k /\ k - (l + 1) <= Head(want) - 1
      BY <1>6, <1>10
    <2>2. k - (l + 1) <= LengthAt(x) - x.byte
      BY <1>13, <2>1
    <2>3. Stream[k] = [call |-> Stream[l + 1].call, piece |-> Stream[l + 1].piece, byte |-> Stream[l + 1].byte + (k - (l + 1))]
      BY <1>i, <1>14, <2>1, <2>2, OfPiece
    <2>4. Stream[k] = [call |-> i, piece |-> x.piece, byte |-> x.byte + (k - (l + 1))]
      BY <1>13, <1>14, <2>3
    <2> QED BY <2>4
  <1>16. Stream[l + n] = y
    <2>1. l + n \in l + 1 .. l + n
      BY <1>6
    <2>2. l + n - (l + 1) = n - 1
      BY <1>6
    <2>3. Stream[l + n] = [call |-> i, piece |-> x.piece, byte |-> x.byte + (l + n - (l + 1))]
      <3>1. PICK m \in Nat : m = l + n
        BY <1>6
      <3>2. m \in l + 1 .. l + n
        BY <2>1, <3>1
      <3>3. Stream[m] = [call |-> i, piece |-> x.piece, byte |-> x.byte + (m - (l + 1))]
        BY <1>15, <3>2
      <3>4. n \in Nat
        BY <1>6
      <3> QED BY <3>1, <3>3, <3>4
    <2>4. y = [call |-> i, piece |-> x.piece, byte |-> x.byte + (n - 1)]
      BY <1>12, <1>13
    <2> QED BY <2>2, <2>3, <2>4
  <1>17. PICK all : all = got \o Taken(toServer, n)
    OBVIOUS
  <1>18. all \in Seq(Byte) /\ Len(all) = l + n /\ \A k \in 1 .. l + n : all[k] = Stream[k]
    <2>1. PICK g, t : g = got /\ t = toServer
      OBVIOUS
    <2>2. g \in Seq(Byte) /\ t \in Seq(Byte) /\ n \in 0 .. Len(t) /\ all = g \o Taken(t, n) /\ Stream = g \o t /\ l = Len(g)
      BY <1>5, <1>6, <1>7, <1>17, <2>1 DEF Stream
    <2>3. all \in Seq(Byte) /\ Len(all) = Len(g) + n /\ \A k \in 1 .. Len(g) + n : all[k] = Stream[k]
      BY <2>2, StreamTake
    <2> QED BY <2>2, <2>3
  <1>19. ASSUME NEW k \in 1 .. l + n PROVE all[k].call = i
    <2>1. CASE k \in 1 .. l
      <3>1. got[k] = Stream[k] /\ got[k].call = i
        BY SMTT(20), <1>i, <1>4, <1>5, <1>7, <2>1, GotBytes
      <3> QED BY <1>18, <3>1
    <2>2. CASE ~(k \in 1 .. l)
      <3>1. k \in l + 1 .. l + n
        BY <1>6, <2>2
      <3> QED BY <1>15, <1>18, <3>1
    <2> QED BY <2>1, <2>2
  <1>20. DOMAIN all = 1 .. l + n /\ all # <<>> /\ Last(all) = y /\ l + n \in 1 .. l + n /\ 1 \in 1 .. l + n /\ l + n \in Nat
    <2>1. l + n \in 1 .. l + n /\ 1 \in 1 .. l + n /\ l + n \in Nat
      BY <1>6
    <2>2. Last(all) = all[l + n]
      BY <1>18 DEF Last
    <2> QED BY <1>16, <1>18, <2>1, <2>2
  <1>21. CASE Less(want, n) = <<>> /\ Handle(got \o Taken(toServer, n))
    <2>1. Stream[1] = [call |-> i, piece |-> 1, byte |-> 1] /\ 1 \in 1 .. Len(Stream)
      <3>1. Stream # <<>>
        BY <1>9, <1>10
      <3> QED BY <1>i, <1>2, <1>3, <1>4, <3>1, TurnOf
    <2>2. AllBytesOf(i, all)
      <3>1. all[1] = [call |-> i, piece |-> 1, byte |-> 1]
        BY <1>18, <1>20, <2>1
      <3>2. ASSUME NEW k \in 1 .. l + n, k < l + n PROVE all[k + 1] = After(all[k])
        <4>1. k + 1 \in 1 .. l + n /\ k \in 1 .. Len(Stream) /\ k < Len(Stream)
          BY <1>10, <1>20, <3>2
        <4>2. Stream[k + 1] = After(Stream[k])
          BY <1>i, <4>1, Facts
        <4> QED BY <1>18, <4>1, <4>2
      <3>3. y = [call |-> i, piece |-> Len(Sends(calls[i])), byte |-> Sends(calls[i])[Len(Sends(calls[i]))]]
        BY <1>13, <1>21
      <3>4. calls[i].kind # "score" /\ calls[i].kind # "build"
        BY <1>4
      <3> QED BY <1>18, <1>19, <1>20, <3>1, <3>2, <3>3, <3>4 DEF AllBytesOf
    <2>3. /\ handled' = Append(handled, [call |-> i, got |-> all]) /\ owed' = Reply(calls[i])
          /\ at' = (IF owed' > 0 THEN "reply" ELSE "header") /\ got' = <<>> /\ want' = <<>>
      <3>1. all[1].call = i
        BY <1>19, <1>20
      <3> QED BY <1>17, <1>21, <3>1 DEF Handle
    <2>4. After(Stream[l + n]) = [call |-> i + 1, piece |-> 1, byte |-> 1]
      BY <1>13, <1>16, <1>21
    <2>5. l + n = Len(got) + n /\ l + n >= 1 /\ calls[i].kind # "score"
      BY <1>4, <1>6, <1>7
    <2>6. Handles(n, l + n, i, all)
      BY <1>1, <1>2, <1>4, <1>6, <1>9, <1>18, <2>1, <2>2, <2>3, <2>4, <2>5 DEF Handles
    <2> QED BY <2>6, HandleKeeps
  <1>22. CASE /\ Less(want, n) # <<>> /\ want' = Less(want, n) /\ got' = got \o Taken(toServer, n)
              /\ UNCHANGED <<at, owed, handled>>
    <2>1. Takes(n)
      <3>1. total' \in 0 .. WrapAt - 1
        BY <1>2, <1>4, Constants
      <3>2. lost \in BOOLEAN /\ want' \in Seq(Nat)
        BY <1>i, <1>13, <1>22 DEF TypeOK
      <3> QED BY <1>1, <1>2, <1>5, <1>6, <1>22, <3>1, <3>2 DEF Takes
    <2>2. Counted' /\ InUpload' /\ NoStoreAfterError'
      BY <1>2, <1>4, <1>22 DEF Counted, InUpload, NoStoreAfterError
    <2>3. Roles'
      BY <1>i, <1>2, <1>22 DEF PositionsMatch, Roles
    <2>4. InPayload'
      <3>1. PICK r : r = Less(want, n)
        OBVIOUS
      <3>2. want' = r /\ got' = all /\ RestOf(r, Sends(calls[i])) /\ After(y) = ByteAt(i, r) /\ calls' = calls
        BY <1>2, <1>13, <1>17, <1>22, <3>1
      <3>3. Len(r) < Len(Sends(calls[i]))
        <4>1. PICK P : P = Sends(calls[i])
          OBVIOUS
        <4>2. P \in Seq(Nat)
          BY <1>i, <1>9, <4>1, Typed, SendsFacts
        <4>3. Len(want) \in Nat /\ Len(P) \in Nat /\ Len(want) < Len(P)
          BY <1>4, <1>5, <4>1, <4>2
        <4>4. Head(want) = want[1]
          BY <1>5
        <4>5. (n < want[1] => Len(r) = Len(want)) /\ (n = want[1] => Len(r) = Len(want) - 1)
          BY <1>4, <1>5, <1>6, <3>1, <4>1, <4>2, LessFacts
        <4>6. n < want[1] \/ n = want[1]
          BY <1>6, <4>4
        <4> QED BY <4>1, <4>3, <4>5, <4>6
      <3>4. (\A u : After(u)' = After(u)) /\ \A j, s : ByteAt(j, s)' = ByteAt(j, s)
        BY <1>2 DEF After, ByteAt
      <3>5. Last(got)' = y
        BY <1>20, <3>2
      <3>6. After(Last(got))' = After(y)
        BY <3>4, <3>5
      <3>7. Len(handled') + 1 = i
        BY <1>3, <1>22
      <3>8. ByteAt(Len(handled) + 1, want)' = ByteAt(i, r)
        BY <3>2, <3>4, <3>7
      <3>9. \A k \in DOMAIN all : all[k].call = i
        BY <1>19, <1>20
      <3> QED BY <1>2, <1>4, <1>20, <3>2, <3>3, <3>6, <3>7, <3>8, <3>9 DEF InPayload
    <2> QED BY <2>1, <2>2, <2>3, <2>4, TakeKeeps DEF WireInv, PositionsMatch
  <1> QED BY <1>1, <1>21, <1>22

(* The thread that receives a score has begun with a later call than those *)
(* it has handled, and nobody waits for a reply.                           *)
LEMMA UploadFacts ==
    ASSUME WireInv, at = "upload", node = "up", NEW i, i = got[1].call
    PROVE  /\ peer = "dispatcher" /\ i \in DOMAIN calls /\ i \in Nat /\ i > 1 /\ i <= Len(calls) /\ calls[i].kind = "score"
           /\ Len(handled) < i /\ (\A h \in DOMAIN handled : handled[h].call < i) /\ handled # <<>> /\ Len(calls) > 1
           /\ ~lost => i = Len(handled) + 1 /\ Stream[1] = [call |-> i, piece |-> 1, byte |-> 1]
           /\ ~LastWaits /\ awaited = 0 /\ owed = 0 /\ want = <<>> /\ total = 0
           /\ got # <<>> /\ Len(got) >= 1 /\ got[1] = Stream[1] /\ First = Stream[1] /\ Stream # <<>>
  <1> HIDE DEF Byte, Stream
  <1>i. TypeOK /\ StreamInOrder /\ HandledInTurn /\ PositionsMatch /\ RepliesMatch
    BY DEF WireInv
  <1>1. /\ peer = "dispatcher" /\ Len(got) >= HeaderLen /\ calls[i].kind = "score"
        /\ (\A h \in DOMAIN handled : handled[h].call < i) /\ total = 0 /\ Roles
    BY <1>i DEF PositionsMatch, Counted, InUpload
  <1>2. got \in Seq(Byte) /\ Len(got) \in Nat /\ Len(got) >= 1 /\ 1 \in 1 .. Len(got) /\ got # <<>>
    <2>1. got \in Seq(Byte) /\ Len(got) \in Nat /\ HeaderLen \in Nat /\ HeaderLen > 0
      BY <1>i, Typed, Constants
    <2> QED BY <1>1, <2>1
  <1>3. got[1] = Stream[1] /\ i \in DOMAIN calls /\ 1 \in 1 .. Len(Stream)
    BY <1>i, <1>2, GotBytes
  <1>4. Stream # <<>>
    BY <1>3
  <1>5. i \in 1 .. Len(calls) /\ Len(calls) \in Nat /\ i # 1
    <2>1. DOMAIN calls = 1 .. Len(calls) /\ Len(calls) \in Nat
      BY <1>i, Typed
    <2>2. i = 1 => calls[i].kind = "register"
      BY <1>1, <1>3 DEF Roles
    <2> QED BY <1>1, <1>3, <2>1, <2>2
  <1>6. ~lost => Stream[1] = [call |-> Len(handled) + 1, piece |-> 1, byte |-> 1] /\ i = Len(handled) + 1
    <2>1. ~lost => Stream[1] = [call |-> Len(handled) + 1, piece |-> 1, byte |-> 1]
      BY <1>i, <1>4, TurnOf
    <2> QED BY <1>3, <2>1
  <1>7. handled # <<>> /\ Len(handled) < i /\ Len(handled) \in Nat
    <2>1. Len(handled) \in Nat /\ DOMAIN handled = 1 .. Len(handled) /\ handled \in Seq([call : Nat, got : Seq(Byte)])
      BY <1>i, Typed
    <2>2. ~lost => Len(handled) # 0
      BY <1>5, <1>6
    <2>3. handled # <<>>
      BY <1>1, <2>1, <2>2 DEF Roles
    <2>4. Len(handled) \in DOMAIN handled
      BY <2>1, <2>3
    <2>5. Len(handled) <= handled[Len(handled)].call /\ handled[Len(handled)].call < i /\ handled[Len(handled)].call \in Nat
      BY <1>i, <1>1, <2>4, HandledCalls DEF HandledInTurn
    <2> QED BY <1>5, <2>1, <2>3, <2>5
  <1>8. ~LastWaits
    <2>1. calls \in Seq(CallsOf(peer)) /\ Len(calls) \in DOMAIN calls /\ Len(calls) # 1 /\ peer \in {"cn", "dispatcher"}
      BY <1>i, <1>3, <1>5, Typed
    <2>2. Last(calls) = calls[Len(calls)]
      BY <2>1 DEF Last
    <2>3. calls[Len(calls)].kind # "register"
      BY <1>1, <2>1 DEF Roles
    <2>4. calls[Len(calls)] \in CallsOf("dispatcher")
      BY <1>i, <1>1, <2>1, Typed
    <2>5. ~Waits(calls[Len(calls)])
      BY <2>3, <2>4, WaitsFacts
    <2> QED BY <2>2, <2>5 DEF LastWaits
  <1>9. awaited = 0 /\ owed = 0 /\ want = <<>>
    <2>1. awaited \in Nat /\ owed \in Nat /\ ~(owed > 0) /\ want = <<>>
      BY <1>i DEF TypeOK
    <2>2. ~(awaited > 0)
      BY <1>i, <1>8 DEF RepliesMatch, OnlyAwaited
    <2> QED BY <2>1, <2>2
  <1>10. Stream[1] = First
    BY <1>4 DEF First
  <1> QED BY <1>1, <1>2, <1>3, <1>4, <1>5, <1>6, <1>7, <1>8, <1>9, <1>10

(* Only its last piece is followed by another call.                        *)
LEMMA EndOfCall ==
    ASSUME TypeOK, StreamInOrder, NEW k \in 1 .. Len(Stream)
    PROVE  /\ After(Stream[k]) \in Byte /\ Stream[k].call \in Nat
           /\ \/ After(Stream[k]).call = Stream[k].call
              \/ After(Stream[k]).call = Stream[k].call + 1 /\ Stream[k].piece = Len(Sends(calls[Stream[k].call]))
  <1> HIDE DEF Byte, Stream
  <1>1. PICK v : v = Stream[k]
    OBVIOUS
  <1>2. v \in Byte /\ v.call \in DOMAIN calls /\ v.piece \in DOMAIN Sends(calls[v.call]) /\ LengthAt(v) \in Nat /\ v.byte \in 1 .. LengthAt(v)
    BY <1>1, Facts
  <1>3. v.call \in Nat /\ v.piece \in Nat /\ v.byte \in Nat
    BY <1>2 DEF Byte
  <1>4. PICK P : P = Sends(calls[v.call])
    OBVIOUS
  <1>5. P \in Seq(Nat) /\ v.piece \in 1 .. Len(P) /\ Len(P) \in Nat
    <2>1. P \in Seq(Nat)
      BY <1>2, <1>4, Typed, SendsFacts
    <2> QED BY <1>2, <1>4, <2>1
  <1>6. v.byte < LengthAt(v) \/ v.byte = LengthAt(v)
    BY <1>2
  <1>7. CASE v.byte < LengthAt(v)
    <2>1. After(v) = [call |-> v.call, piece |-> v.piece, byte |-> v.byte + 1]
      BY <1>2, <1>7, AfterFacts
    <2> QED BY <1>1, <1>2, <1>3, <2>1, AfterFacts
  <1>8. CASE v.byte = LengthAt(v) /\ v.piece < Len(P)
    <2>1. After(v) = [call |-> v.call, piece |-> v.piece + 1, byte |-> 1]
      BY <1>2, <1>4, <1>8, AfterFacts
    <2> QED BY <1>1, <1>2, <1>3, <2>1, AfterFacts
  <1>9. CASE v.byte = LengthAt(v) /\ ~(v.piece < Len(P))
    <2>1. After(v) = [call |-> v.call + 1, piece |-> 1, byte |-> 1]
      BY <1>2, <1>4, <1>9, AfterFacts
    <2>2. v.piece = Len(P)
      BY <1>5, <1>9
    <2> QED BY <1>1, <1>2, <1>3, <1>4, <2>1, <2>2, AfterFacts
  <1> QED BY <1>6, <1>7, <1>8, <1>9

(* The score file of call i is complete, or taken for complete.            *)
Completes(n, i) ==
    /\ at = "upload" /\ node = "up" /\ n \in 0 .. Len(toServer) /\ toServer' = Dropped(toServer, n) /\ i = got[1].call /\ ScoreDone
    /\ lost' \in BOOLEAN /\ (lost => lost')
    /\ toClient' = toClient \/ toClient' = Confirmed(i)
    /\ closing' = closing \/ (closing # "open" /\ closing' \in {"fin", "rst"} /\ (exit = "abrupt" \/ lost))
    /\ ~lost' => exit = "abrupt" \/ AllBytesOf(i, got)
    /\ Some' => First'.call \in Nat /\ First'.call > i /\ (~lost' => First' = [call |-> i + 1, piece |-> 1, byte |-> 1])
    /\ UNCHANGED <<peer, calls, outgoing, awaited, exit, total, want, owed, node>>

(* A score file is complete, or taken for complete.                        *)
LEMMA CompleteKeeps ==
    ASSUME WireInv, NEW n, NEW i, Completes(n, i)
    PROVE  WireInv'
  <1> HIDE DEF Byte, Stream
  <1>i. /\ TypeOK /\ NoStoreAfterError /\ StreamInOrder /\ HandledInTurn /\ PositionsMatch /\ RepliesMatch /\ EndsMatch
        /\ OwnBytesOnly /\ NodeOutlivesCleanExit
    BY DEF WireInv
  <1>1. /\ at = "upload" /\ node = "up" /\ n \in 0 .. Len(toServer) /\ toServer' = Dropped(toServer, n) /\ i = got[1].call
        /\ handled' = Append(handled, [call |-> i, got |-> got]) /\ at' = "header" /\ got' = <<>>
    BY DEF Completes, ScoreDone
  <1>l. lost' \in BOOLEAN /\ (lost => lost')
    BY DEF Completes
  <1>r. toClient' = toClient \/ toClient' = Confirmed(i)
    BY DEF Completes
  <1>c. closing' = closing \/ (closing # "open" /\ closing' \in {"fin", "rst"} /\ (exit = "abrupt" \/ lost))
    BY DEF Completes
  <1>b. ~lost' => exit = "abrupt" \/ AllBytesOf(i, got)
    BY DEF Completes
  <1>f. Some' => First'.call \in Nat /\ First'.call > i /\ (~lost' => First' = [call |-> i + 1, piece |-> 1, byte |-> 1])
    BY DEF Completes
  <1>u. UNCHANGED <<peer, calls, outgoing, awaited, exit, total, want, owed, node>>
    BY DEF Completes
  <1>2. /\ peer = "dispatcher" /\ i \in DOMAIN calls /\ i \in Nat /\ i > 1 /\ i <= Len(calls)
        /\ Len(handled) < i /\ (\A h \in DOMAIN handled : handled[h].call < i) /\ Len(calls) > 1
        /\ (~lost => i = Len(handled) + 1) /\ ~LastWaits /\ awaited = 0 /\ owed = 0 /\ want = <<>> /\ total = 0
    BY <1>1, UploadFacts
  <1>3. /\ StreamInOrder' /\ toServer' \in Seq(Byte) /\ Len(toServer') = Len(toServer) - n
    BY <1>i, <1>1, <1>u, ServerClears
  <1>4. /\ Len(handled) \in Nat /\ DOMAIN handled = 1 .. Len(handled) /\ Len(calls) \in Nat
        /\ handled \in Seq([call : Nat, got : Seq(Byte)]) /\ got \in Seq(Byte) /\ toClient \in Seq(Nat)
        /\ Len(toServer) \in Nat /\ Len(toClient) \in Nat
    BY <1>i, Typed
  <1>5. PICK e : e = [call |-> i, got |-> got]
    OBVIOUS
  <1>6. e.call = i /\ e.got = got /\ e \in [call : Nat, got : Seq(Byte)]
    BY <1>2, <1>4, <1>5
  <1>7. /\ handled' \in Seq([call : Nat, got : Seq(Byte)]) /\ Len(handled') = Len(handled) + 1 /\ handled' # <<>>
        /\ DOMAIN handled' = 1 .. Len(handled) + 1 /\ handled'[Len(handled) + 1] = e
        /\ \A h \in 1 .. Len(handled) : handled'[h] = handled[h]
    <2>1. PICK A : A = [call : Nat, got : Seq(Byte)]
      OBVIOUS
    <2>2. handled \in Seq(A) /\ e \in A /\ handled' = Append(handled, e)
      BY <1>1, <1>4, <1>5, <1>6, <2>1
    <2>3. /\ handled' \in Seq(A) /\ Len(handled') = Len(handled) + 1 /\ handled' # <<>>
          /\ DOMAIN handled' = 1 .. Len(handled) + 1 /\ handled'[Len(handled) + 1] = e
          /\ \A h \in 1 .. Len(handled) : handled'[h] = handled[h]
      BY <2>2
    <2> QED BY <2>1, <2>3
  <1>8. ASSUME NEW h \in DOMAIN handled'
        PROVE  (h \in DOMAIN handled /\ handled'[h] = handled[h]) \/ (h = Len(handled) + 1 /\ handled'[h] = e)
    <2>1. Len(handled) \in Nat /\ h \in 1 .. Len(handled) + 1
      BY <1>4, <1>7
    <2>2. h \in 1 .. Len(handled) \/ h = Len(handled) + 1
      BY <2>1
    <2> QED BY <1>4, <1>7, <2>2
  <1>9. toClient' \in Seq(Nat) /\ Len(toClient') <= Len(toClient) + EndLen
    <2>1. EndLen \in Nat /\ EndLen > 0
      BY Constants
    <2>2. CASE toClient' = toClient
      BY <1>4, <2>1, <2>2
    <2>3. CASE toClient' = Confirmed(i)
      <3>1. PICK X : X = [u \in 1 .. EndLen |-> i]
        OBVIOUS
      <3>2. X \in Seq(Nat) /\ Len(X) = EndLen
        BY <1>2, <2>1, <3>1
      <3>0. toClient \in Seq(Nat)
        BY <1>4
      <3>3. toClient \o X \in Seq(Nat) /\ Len(toClient \o X) = Len(toClient) + EndLen
        BY SMTT(20), <3>0, <3>2
      <3>4. toClient' = toClient \o X
        BY <2>3, <3>1 DEF Confirmed
      <3>5. Len(toClient) + EndLen \in Nat
        BY <1>4, <2>1
      <3> QED BY <3>3, <3>4, <3>5
    <2> QED BY <1>r, <2>2, <2>3
  <1>10. TypeOK'
    <2>1. Len(handled') <= Len(calls)
      BY <1>2, <1>4, <1>7
    <2>2. Len(toClient') <= BufCap + EndLen * Len(handled')
      <3>1. /\ EndLen \in Nat /\ BufCap \in Nat /\ Len(toClient) <= BufCap + EndLen * Len(handled) /\ Len(toClient') \in Nat
        BY <1>i, <1>9, Constants DEF TypeOK
      <3>2. PICK a, b, c, d, g \in Nat : a = EndLen /\ b = BufCap /\ c = Len(toClient) /\ d = Len(handled) /\ g = Len(toClient')
        BY <1>4, <3>1
      <3>3. c <= b + a * d /\ g <= c + a
        BY <1>9, <3>1, <3>2
      <3>4. PICK z \in Nat : z = a * d
        OBVIOUS
      <3>5. g <= b + (z + a)
        BY <3>3, <3>4
      <3>6. a * (d + 1) = z + a
        BY <3>4
      <3> QED BY <1>7, <3>2, <3>5, <3>6
    <2>3. Len(toServer') <= BufCap
      <3>1. Len(toServer) <= BufCap /\ BufCap \in Nat
        BY <1>i, Constants DEF TypeOK
      <3> QED BY <1>1, <1>3, <1>4, <3>1
    <2>4. closing' \in {"open", "fin", "rst"}
      BY <1>i, <1>c DEF TypeOK
    <2>5. (at' = "payload") = (want' # <<>>) /\ (at' = "reply") = (owed' > 0)
      BY <1>1, <1>2, <1>u
    <2>6. got' \in Seq(Byte)
      BY <1>1
    <2> QED BY <1>i, <1>1, <1>l, <1>u, <1>3, <1>7, <1>9, <2>1, <2>2, <2>3, <2>4, <2>5, <2>6 DEF TypeOK
  <1>11. Counted' /\ NoStoreAfterError' /\ InPayload' /\ InUpload'
    <2>1. Len(got') = 0 /\ 0 < HeaderLen
      BY <1>1, Constants
    <2> QED BY <1>1, <1>2, <1>u, <2>1 DEF Counted, NoStoreAfterError, InPayload, InUpload
  <1>12. Roles'
    BY <1>i, <1>2, <1>7, <1>u DEF PositionsMatch, Roles
  <1>13. HandledInTurn'
    <2>1. ASSUME NEW h \in DOMAIN handled'
          PROVE /\ h <= handled'[h].call /\ handled'[h].call <= Len(calls) /\ handled'[h].call \in Nat
                /\ ~lost' => handled'[h].call = h
                /\ handled'[h].call <= i
      <3>1. CASE h \in DOMAIN handled /\ handled'[h] = handled[h]
        <4>1. h <= handled[h].call /\ handled[h].call <= Len(calls) /\ (~lost => handled[h].call = h) /\ handled[h].call \in Nat
          BY <1>i, <3>1, HandledCalls DEF HandledInTurn
        <4> QED BY <1>2, <1>l, <3>1, <4>1
      <3>2. CASE h = Len(handled) + 1 /\ handled'[h] = e
        BY <1>2, <1>4, <1>6, <1>l, <3>2
      <3> QED BY <1>8, <3>1, <3>2
    <2>2. ASSUME NEW h \in DOMAIN handled', Some' PROVE handled'[h].call < First'.call
      BY <1>2, <1>f, <2>1, <2>2
    <2>3. Some' /\ ~lost' => First' = [call |-> Len(handled') + 1, piece |-> 1, byte |-> 1]
      <3>1. ~lost' => i = Len(handled')
        BY <1>2, <1>7, <1>l
      <3> QED BY <1>f, <3>1
    <2> HIDE DEF First, Some
    <2> QED BY <1>u, <2>1, <2>2, <2>3 DEF HandledInTurn, Turn
  <1>14. AllAnswered'
    <2>1. AllAnswered
      BY <1>i DEF RepliesMatch
    <2>2. \A j \in DOMAIN calls : j \in Nat /\ (j <= Len(handled) => j <= Len(handled'))
      BY <1>i, <1>4, <1>7, Typed
    <2> QED BY <1>u, <1>l, <2>1, <2>2 DEF AllAnswered, Waits, Reply
  <1>15. ~LastWaits' /\ calls # <<>>
    <2>1. LastWaits' = LastWaits
      BY <1>u DEF LastWaits, Waits, Reply
    <2> QED BY <1>2, <2>1
  <1>16. OnlyAwaited' /\ Balanced'
    <2> HIDE DEF LastWaits
    <2> QED BY <1>2, <1>15, <1>u DEF OnlyAwaited, Balanced
  <1>17. EndsMatch'
    <2>1. /\ exit = "none" <=> closing = "open"
          /\ exit = "clean" => Idle /\ (lost \/ closing = "fin")
      BY <1>i DEF EndsMatch
    <2>2. closing' = "open" <=> closing = "open"
      BY <1>c
    <2>3. Idle' = Idle
      BY <1>u DEF Idle
    <2> HIDE DEF Idle
    <2> QED BY <1>c, <1>l, <1>u, <2>1, <2>2, <2>3 DEF EndsMatch
  <1>18. OwnBytesOnly'
    <2> HIDE DEF AllBytesOf
    <2>1. \A j, g : AllBytesOf(j, g)' = AllBytesOf(j, g)
      BY <1>u DEF AllBytesOf, After
    <2>2. \A h \in DOMAIN handled : AllBytesOf(handled[h].call, handled[h].got) \/ exit = "abrupt" \/ lost
      BY <1>i DEF OwnBytesOnly
    <2>3. ASSUME NEW h \in DOMAIN handled' PROVE AllBytesOf(handled'[h].call, handled'[h].got) \/ exit = "abrupt" \/ lost'
      BY <1>b, <1>l, <1>6, <1>8, <2>2, <2>3
    <2>4. ASSUME NEW h \in DOMAIN handled' PROVE AllBytesOf(handled[h].call, handled[h].got)' \/ exit' = "abrupt" \/ lost'
      <3>1. PICK j, g : j = handled'[h].call /\ g = handled'[h].got
        OBVIOUS
      <3> QED BY <1>u, <2>1, <2>3, <3>1
    <2>5. ~(awaited' > 0)
      BY <1>2, <1>u
    <2> QED BY <2>4, <2>5 DEF OwnBytesOnly
  <1>19. NodeOutlivesCleanExit'
    BY <1>u, <1>1 DEF NodeOutlivesCleanExit
  <1> QED BY <1>3, <1>10, <1>11, <1>12, <1>13, <1>14, <1>16, <1>17, <1>18, <1>19 DEF WireInv, PositionsMatch, RepliesMatch

(* Behind the end of a call everything is of later calls.                  *)
LEMMA BehindTheEnd ==
    ASSUME TypeOK, StreamInOrder, NEW j \in 1 .. Len(Stream), NEW m \in 1 .. Len(Stream), j <= m,
           After(Stream[j]).call = Stream[j].call + 1
    PROVE  After(Stream[m]).call \in Nat /\ After(Stream[m]).call >= Stream[j].call + 1 /\ Stream[j].call \in Nat
  <1> HIDE DEF Byte, Stream, After
  <1>1. Len(Stream) \in Nat /\ j \in Nat /\ m \in Nat
    BY Facts
  <1>2. After(Stream[m]) \in Byte /\ After(Stream[j]) \in Byte /\ Stream[m].call \in Nat /\ Stream[j].call \in Nat
    BY EndOfCall
  <1>3. After(Stream[m]).call \in Nat
    BY <1>2 DEF Byte
  <1>4. CASE j = m
    BY <1>2, <1>3, <1>4
  <1>5. CASE j < m
    <2>1. j + 1 \in 1 .. Len(Stream) /\ j < Len(Stream) /\ j + 1 <= m
      BY <1>1, <1>5
    <2>2. Stream[j + 1] = After(Stream[j])
      BY <2>1, Facts
    <2>3. Stream[j + 1].call <= Stream[m].call
      BY <2>1, CallsInOrder
    <2>4. After(Stream[m]).call = Stream[m].call \/ After(Stream[m]).call = Stream[m].call + 1
      BY EndOfCall
    <2> QED BY <1>2, <1>3, <2>2, <2>3, <2>4
  <1> QED BY <1>1, <1>4, <1>5

(* A score file without END is all of its call.                            *)
LEMMA WithinUpload ==
    ASSUME TypeOK, StreamInOrder, NEW l \in 1 .. Len(Stream), calls[Stream[1].call].kind = "score",
           \A k \in 1 .. l : k < l => ~IsEnd(Stream[k])
    PROVE  \A k \in 1 .. l : Stream[k].call = Stream[1].call
  <1> HIDE DEF Byte, Stream, After, IsEnd
  <1> DEFINE T == {k \in 1 .. l : Stream[k].call # Stream[1].call}
  <1> SUFFICES ASSUME T # {} PROVE FALSE
    OBVIOUS
  <1>0. T \in SUBSET Nat
    OBVIOUS
  <1>1. PICK k \in T : \A j \in T : k <= j
    BY <1>0, Smallest
  <1>2. k \in 1 .. l /\ Stream[k].call # Stream[1].call /\ Len(Stream) \in Nat /\ l \in Nat /\ k \in Nat
    BY <1>1, Facts
  <1>3. k - 1 \in 1 .. Len(Stream) /\ k - 1 \in 1 .. l /\ k - 1 < l /\ k - 1 < Len(Stream) /\ k - 1 + 1 = k
    <2>1. k # 1
      BY <1>2
    <2> QED BY <1>2, <2>1
  <1>4. PICK q \in Nat : q = k - 1
    BY <1>2, <1>3
  <1>5. Stream[q].call = Stream[1].call
    <2>1. q \notin T
      BY <1>1, <1>2, <1>4
    <2> QED BY <1>3, <1>4, <2>1
  <1>6. Stream[k] = After(Stream[q])
    <2>1. q \in 1 .. Len(Stream) /\ q < Len(Stream) /\ q + 1 = k
      BY <1>3, <1>4
    <2>2. Stream[q + 1] = After(Stream[q])
      BY <2>1, Facts
    <2> QED BY <2>1, <2>2
  <1>7. Stream[q].piece = Len(Sends(calls[Stream[q].call]))
    <2>1. q \in 1 .. Len(Stream)
      BY <1>3, <1>4
    <2> QED BY <1>2, <1>5, <1>6, <2>1, EndOfCall
  <1>8. IsEnd(Stream[q])
    BY <1>5, <1>7 DEF IsEnd
  <1>9. q \in 1 .. l /\ q < l
    BY <1>3, <1>4
  <1> QED BY <1>8, <1>9

(* The chunks of a score file: END is recognised, or what comes is taken   *)
(* for more of the file.                                                   *)
LEMMA ScoreKeeps ==
    ASSUME WireInv, RecvScore
    PROVE  WireInv'
  <1> HIDE DEF Byte, Stream, After, AllBytesOf, IsEnd
  <1>i. /\ TypeOK /\ NoStoreAfterError /\ StreamInOrder /\ HandledInTurn /\ PositionsMatch /\ RepliesMatch /\ EndsMatch
        /\ OwnBytesOnly /\ NodeOutlivesCleanExit
    BY DEF WireInv
  <1>1. PICK n \in AtMost(HeaderLen, Len(toServer)) :
          /\ toServer' = Dropped(toServer, n)
          /\ \/ /\ StartsWithEnd(Taken(toServer, n)) /\ ScoreDone
                /\ toClient' = (IF closing = "open" THEN Confirmed(got[1].call) ELSE toClient)
                /\ lost' = (lost \/ n > EndLen)
             \/ /\ got' = got \o Taken(toServer, n)
                /\ lost' = (lost \/ \E u \in DOMAIN Taken(toServer, n) : IsEnd(Taken(toServer, n)[u]))
                /\ UNCHANGED <<toClient, at, handled>>
    BY DEF RecvScore
  <1>2. at = "upload" /\ node = "up" /\ UNCHANGED <<peer, calls, outgoing, awaited, exit, closing, total, want, owed, node>>
    BY DEF RecvScore, clientVars
  <1>3. PICK i : i = got[1].call
    OBVIOUS
  <1>4. /\ peer = "dispatcher" /\ i \in DOMAIN calls /\ i \in Nat /\ i > 1 /\ i <= Len(calls) /\ calls[i].kind = "score"
        /\ Len(handled) < i /\ (\A h \in DOMAIN handled : handled[h].call < i) /\ handled # <<>> /\ Len(calls) > 1
        /\ (~lost => i = Len(handled) + 1 /\ Stream[1] = [call |-> i, piece |-> 1, byte |-> 1])
        /\ owed = 0 /\ want = <<>> /\ total = 0
        /\ got # <<>> /\ Len(got) >= 1 /\ got[1] = Stream[1] /\ First = Stream[1] /\ Stream # <<>>
    BY <1>2, <1>3, UploadFacts
  <1>5. /\ got \in Seq(Byte) /\ toServer \in Seq(Byte) /\ Len(got) \in Nat /\ Len(toServer) \in Nat /\ lost \in BOOLEAN
        /\ Stream \in Seq(Byte) /\ Len(Stream) \in Nat /\ Len(Stream) = Len(got) + Len(toServer) /\ DOMAIN got = 1 .. Len(got)
    <2>1. got \in Seq(Byte) /\ toServer \in Seq(Byte) /\ Len(got) \in Nat /\ Len(toServer) \in Nat
      BY <1>i, Typed
    <2>2. Stream \in Seq(Byte) /\ Len(Stream) \in Nat /\ Len(Stream) = Len(got) + Len(toServer)
      BY <1>i, Facts
    <2>3. DOMAIN got = 1 .. Len(got)
      BY <2>1
    <2>4. lost \in BOOLEAN
      BY <1>i DEF TypeOK
    <2> QED BY <2>1, <2>2, <2>3, <2>4
  <1>6. n \in Nat /\ n >= 1 /\ n <= Len(toServer) /\ n \in 0 .. Len(toServer)
    <2>1. HeaderLen \in Nat
      BY Constants
    <2>2. n \in Nat /\ n >= 1 /\ n <= Len(toServer)
      BY <1>1, <1>5, <2>1 DEF AtMost
    <2> QED BY <1>5, <2>2
  <1>7. PICK l \in Nat : l = Len(got)
    BY <1>5
  <1>8. l >= 1 /\ l + n <= Len(Stream) /\ l + n \in Nat /\ Len(Stream) \in Nat /\ n \in Nat /\ n >= 1
    BY <1>4, <1>5, <1>6, <1>7
  <1>9. PICK chunk : chunk = Taken(toServer, n)
    OBVIOUS
  <1>10. chunk \in Seq(Byte) /\ Len(chunk) = n /\ DOMAIN chunk = 1 .. n /\ \A k \in 1 .. n : chunk[k] = Stream[l + k] /\ l + k \in 1 .. Len(Stream)
    <2>1. chunk \in Seq(Byte) /\ Len(chunk) = n /\ \A k \in 1 .. n : chunk[k] = toServer[k]
      BY <1>5, <1>6, <1>9, TakeDrop
    <2>2. \A k \in 1 .. Len(toServer) : Stream[l + k] = toServer[k]
      BY <1>5, <1>7, StreamType DEF Stream
    <2>3. ASSUME NEW k \in 1 .. n PROVE chunk[k] = Stream[l + k] /\ l + k \in 1 .. Len(Stream)
      <3>1. k \in 1 .. Len(toServer)
        BY <1>5, <1>6
      <3>2. l + k \in 1 .. Len(Stream)
        BY <1>8
      <3> QED BY <2>1, <2>2, <3>1, <3>2
    <2>4. DOMAIN chunk = 1 .. n
      BY <2>1
    <2> QED BY <2>1, <2>3, <2>4
  <1>11. \A k \in 1 .. l : got[k] = Stream[k] /\ k \in 1 .. Len(Stream)
    BY <1>i, <1>7, GotBytes
  <1>12. ~lost => \A k \in 1 .. l : got[k].call = i /\ ~IsEnd(got[k])
    BY <1>i, <1>2, <1>3, <1>5, <1>7 DEF PositionsMatch, InUpload
  <1>13. Stream[1].call = i /\ calls[Stream[1].call].kind = "score"
    BY <1>3, <1>4
  <1>14. CASE /\ got' = got \o Taken(toServer, n)
              /\ lost' = (lost \/ \E u \in DOMAIN Taken(toServer, n) : IsEnd(Taken(toServer, n)[u]))
              /\ UNCHANGED <<toClient, at, handled>>
    <2>1. Takes(n)
      <3>1. total' \in 0 .. WrapAt - 1
        BY <1>2, <1>4, Constants
      <3>2. \A h \in DOMAIN handled : handled[h].call < First.call
        BY <1>4, <1>13
      <3>3. lost' \in BOOLEAN /\ (lost => lost')
        BY <1>5, <1>14
      <3> QED BY <1>1, <1>2, <1>4, <1>6, <1>14, <3>1, <3>2, <3>3 DEF Takes
    <2>2. Counted' /\ InPayload' /\ NoStoreAfterError'
      BY <1>2, <1>4, <1>14 DEF Counted, InPayload, NoStoreAfterError
    <2>3. Roles'
      BY <1>i, <1>2, <1>4, <1>14 DEF PositionsMatch, Roles
    <2>4. PICK all : all = got \o chunk
      OBVIOUS
    <2>5. all \in Seq(Byte) /\ Len(all) = l + n /\ (\A k \in 1 .. l : all[k] = got[k]) /\ \A k \in 1 .. n : all[l + k] = chunk[k]
      <3>1. PICK g : g = got
        OBVIOUS
      <3>2. g \in Seq(Byte) /\ chunk \in Seq(Byte) /\ Len(g) = l /\ Len(chunk) = n /\ all = g \o chunk
        BY <1>5, <1>7, <1>10, <2>4, <3>1
      <3>3. /\ all \in Seq(Byte) /\ Len(all) = Len(g) + Len(chunk) /\ (\A k \in 1 .. Len(g) : all[k] = g[k])
            /\ \A k \in 1 .. Len(chunk) : all[Len(g) + k] = chunk[k]
        BY <3>2, StreamType
      <3> QED BY <3>1, <3>2, <3>3
    <2>6. ASSUME NEW k \in 1 .. l + n PROVE all[k] = Stream[k] /\ k \in 1 .. Len(Stream)
      <3>1. CASE k \in 1 .. l
        BY <1>11, <2>5, <3>1
      <3>2. CASE ~(k \in 1 .. l)
        <4>1. k - l \in 1 .. n /\ l + (k - l) = k
          BY <1>8, <3>2
        <4> QED BY <1>10, <2>5, <4>1
      <3> QED BY <3>1, <3>2
    <2>7. ASSUME ~lost', NEW k \in 1 .. l + n PROVE ~IsEnd(Stream[k])
      <3>1. CASE k \in 1 .. l
        BY <1>11, <1>12, <1>14, <2>7, <3>1
      <3>2. CASE ~(k \in 1 .. l)
        <4>1. k - l \in 1 .. n /\ l + (k - l) = k
          BY <1>8, <3>2
        <4>2. ~IsEnd(chunk[k - l])
          BY <1>9, <1>10, <1>14, <2>7, <4>1
        <4> QED BY <1>10, <4>1, <4>2
      <3> QED BY <3>1, <3>2
    <2>8. ~lost' => \A k \in 1 .. l + n : Stream[k].call = i
      <3>1. l + n \in 1 .. Len(Stream)
        BY <1>8
      <3> QED BY <1>i, <1>13, <2>7, <3>1, WithinUpload
    <2>9. InUpload'
      <3>1. \A u : IsEnd(u)' = IsEnd(u)
        BY <1>2 DEF IsEnd
      <3>2. got' = all /\ DOMAIN all = 1 .. l + n /\ all[1].call = i
        <4>1. 1 \in 1 .. l
          BY <1>8
        <4>2. got' = all
          BY <1>9, <1>14, <2>4
        <4>3. DOMAIN all = 1 .. l + n
          BY <2>5
        <4>4. all[1] = got[1]
          BY <2>5, <4>1
        <4> QED BY <1>3, <4>2, <4>3, <4>4
      <3>3. Len(all) >= HeaderLen
        <4>1. Len(got) >= HeaderLen /\ HeaderLen \in Nat
          BY <1>i, <1>2, Constants DEF PositionsMatch, InUpload
        <4> QED BY <1>7, <1>8, <2>5, <4>1
      <3>4. ASSUME ~lost', NEW k \in 1 .. l + n PROVE all[k].call = i /\ ~IsEnd(all[k])
        BY <2>6, <2>7, <2>8, <3>4
      <3> QED BY <1>2, <1>4, <1>14, <3>1, <3>2, <3>3, <3>4 DEF InUpload
    <2> QED BY <2>1, <2>2, <2>3, <2>9, TakeKeeps DEF WireInv, PositionsMatch
  <1>15. CASE /\ StartsWithEnd(Taken(toServer, n)) /\ ScoreDone
              /\ toClient' = (IF closing = "open" THEN Confirmed(got[1].call) ELSE toClient)
              /\ lost' = (lost \/ n > EndLen)
    <2>1. EndLen \in Nat /\ EndLen >= 1 /\ n >= EndLen /\ \A k \in 1 .. EndLen : IsEnd(chunk[k]) /\ chunk[k].byte = k
      BY <1>9, <1>10, <1>15, Constants DEF StartsWithEnd
    <2>2. PICK p, m \in Nat : p = l + EndLen /\ m = l + n
      BY <1>8, <2>1
    <2>3. p \in 1 .. Len(Stream) /\ m \in 1 .. Len(Stream) /\ p <= m /\ l + 1 \in 1 .. Len(Stream) /\ l + 1 <= p /\ l \in 1 .. Len(Stream) /\ l < Len(Stream)
      BY <1>8, <2>1, <2>2
    <2>4. /\ IsEnd(Stream[p]) /\ Stream[p].byte = EndLen /\ IsEnd(Stream[l + 1]) /\ Stream[l + 1].byte = 1
      <3>1. EndLen \in 1 .. EndLen /\ 1 \in 1 .. EndLen /\ EndLen \in 1 .. n /\ 1 \in 1 .. n
        BY <1>8, <2>1
      <3> QED BY <1>10, <2>1, <2>2, <3>1
    <2>5. ASSUME NEW k \in 1 .. Len(Stream), IsEnd(Stream[k])
          PROVE  LengthAt(Stream[k]) = EndLen /\ Stream[k].piece = Len(Sends(calls[Stream[k].call])) /\ Stream[k].piece >= 2
                 /\ Stream[k].call \in Nat /\ Stream[k].piece \in Nat
      <3>1. PICK v : v = Stream[k]
        OBVIOUS
      <3>2. v.call \in DOMAIN calls /\ calls[v.call].kind = "score" /\ v.piece = Len(Sends(calls[v.call])) /\ v \in Byte
        BY <1>i, <2>5, <3>1, Facts DEF IsEnd
      <3>3. calls[v.call] \in CallsOf(peer) /\ peer \in {"cn", "dispatcher"}
        BY <1>i, <3>2, Typed
      <3>4. Len(Sends(calls[v.call])) >= 2 /\ Sends(calls[v.call])[Len(Sends(calls[v.call]))] = EndLen
        BY <3>2, <3>3, SendsFacts
      <3>5. v.call \in Nat /\ v.piece \in Nat
        BY <3>2 DEF Byte
      <3> QED BY <3>1, <3>2, <3>4, <3>5 DEF LengthAt
    <2>6. PICK j : j = Stream[p].call
      OBVIOUS
    <2>7. After(Stream[p]) = [call |-> j + 1, piece |-> 1, byte |-> 1] /\ j \in Nat
      <3>1. PICK v : v = Stream[p]
        OBVIOUS
      <3>2. v \in Byte /\ LengthAt(v) \in Nat /\ v.byte \in 1 .. LengthAt(v)
        BY <1>i, <2>3, <3>1, Facts
      <3>3. LengthAt(v) = EndLen /\ v.piece = Len(Sends(calls[v.call])) /\ v.call = j /\ v.call \in Nat /\ v.piece \in Nat
        BY <2>3, <2>4, <2>5, <2>6, <3>1
      <3>4. v.byte = LengthAt(v) /\ ~(v.piece < Len(Sends(calls[v.call])))
        <4>1. PICK z \in Nat : z = v.piece
          BY <3>3
        <4>2. ~(z < z)
          OBVIOUS
        <4> QED BY <2>4, <3>1, <3>3, <4>1, <4>2
      <3> QED BY <3>1, <3>2, <3>3, <3>4, AfterFacts
    <2>8. i <= j
      <3>1. 1 \in 1 .. Len(Stream) /\ 1 <= p
        BY <2>3
      <3>2. Stream[1].call <= Stream[p].call
        BY <1>i, <2>3, <3>1, CallsInOrder
      <3> QED BY <1>13, <2>6, <3>2
    <2>9. Some' => First' = After(Stream[m])
      <3>1. m = Len(got) + n /\ m >= 1
        BY <1>7, <2>2, <2>3
      <3>2. got' = <<>>
        BY <1>15 DEF ScoreDone
      <3> QED BY <1>i, <1>1, <1>2, <1>6, <3>1, <3>2, FirstAfter
    <2>10. After(Stream[m]).call \in Nat /\ After(Stream[m]).call > i
      <3>1. After(Stream[p]).call = Stream[p].call + 1
        BY <2>6, <2>7
      <3>2. After(Stream[m]).call \in Nat /\ After(Stream[m]).call >= Stream[p].call + 1
        BY <1>i, <2>3, <3>1, BehindTheEnd
      <3> QED BY SMTT(20), <1>4, <2>6, <2>7, <2>8, <3>2
    <2>11. ASSUME ~lost' PROVE m = p /\ j = i /\ AllBytesOf(i, got)
      <3>1. ~lost /\ n = EndLen
        <4>1. ~lost /\ ~(n > EndLen)
          BY <1>5, <1>15, <2>11
        <4> QED BY <1>8, <2>1, <4>1
      <3>2. m = p
        BY <2>2, <3>1
      <3>3. Stream[l + 1].call = i
        <4>1. ASSUME NEW k \in 1 .. l + 1, k < l + 1 PROVE ~IsEnd(Stream[k])
          <5>1. k \in 1 .. l
            BY <4>1
          <5> QED BY <1>11, <1>12, <3>1, <5>1
        <4>2. \A k \in 1 .. l + 1 : Stream[k].call = Stream[1].call
          BY <1>i, <1>13, <2>3, <4>1, WithinUpload
        <4>3. l + 1 \in 1 .. l + 1
          OBVIOUS
        <4> QED BY <1>13, <4>2, <4>3
      <3>4. j = i
        <4>1. p - (l + 1) <= LengthAt(Stream[l + 1]) - Stream[l + 1].byte
          <5>1. LengthAt(Stream[l + 1]) = EndLen
            BY <2>3, <2>4, <2>5
          <5> QED BY <2>1, <2>2, <2>4, <5>1
        <4>2. Stream[p] = [call |-> Stream[l + 1].call, piece |-> Stream[l + 1].piece, byte |-> Stream[l + 1].byte + (p - (l + 1))]
          BY <1>i, <2>3, <4>1, OfPiece
        <4> QED BY <2>6, <3>3, <4>2
      <3>5. PICK w : w = Stream[l]
        OBVIOUS
      <3>6. w = got[l] /\ w.call = i /\ ~IsEnd(w) /\ w \in Byte /\ LengthAt(w) \in Nat /\ w.byte \in 1 .. LengthAt(w) /\ w.piece \in DOMAIN Sends(calls[i])
        <4>1. l \in 1 .. l
          BY <1>8
        <4>2. w = got[l] /\ w.call = i /\ ~IsEnd(w)
          BY <1>11, <1>12, <3>1, <3>5, <4>1
        <4> QED BY <1>i, <2>3, <3>5, <4>2, Facts
      <3>7. PICK P \in Seq(Nat) : P = Sends(calls[i])
        BY <1>i, <1>4, Typed, SendsFacts
      <3>8. w.piece \in 1 .. Len(P) /\ Len(P) \in Nat /\ w.piece # Len(P)
        <4>1. w.piece \in 1 .. Len(P) /\ Len(P) \in Nat
          BY <3>6, <3>7
        <4>2. w.piece # Len(P)
          BY <1>4, <3>6, <3>7 DEF IsEnd
        <4> QED BY <4>1, <4>2
      <3>9. After(w).piece = Len(P) /\ After(w) = Stream[l + 1]
        <4>1. After(w) = Stream[l + 1]
          BY <1>i, <2>3, <3>5, Facts
        <4> QED BY <2>3, <2>4, <2>5, <3>3, <3>7, <4>1
      <3>10. w = [call |-> i, piece |-> Len(P) - 1, byte |-> P[Len(P) - 1]]
        <4>1. w.byte = LengthAt(w)
          <5>1. ASSUME w.byte < LengthAt(w) PROVE FALSE
            <6>1. After(w) = [call |-> w.call, piece |-> w.piece, byte |-> w.byte + 1]
              BY <3>6, <5>1, AfterFacts
            <6> QED BY <3>8, <3>9, <6>1
          <5> QED BY <3>6, <5>1
        <4>2. w.piece < Len(P)
          BY <3>8
        <4>3. After(w) = [call |-> w.call, piece |-> w.piece + 1, byte |-> 1]
          BY <3>6, <3>7, <4>1, <4>2, AfterFacts
        <4>4. w.piece = Len(P) - 1
          <5>1. w.piece + 1 = Len(P)
            BY <3>9, <4>3
          <5> QED BY <3>8, <5>1
        <4>5. LengthAt(w) = P[Len(P) - 1]
          BY <3>6, <3>7, <4>4 DEF LengthAt
        <4>6. w = [call |-> w.call, piece |-> w.piece, byte |-> w.byte]
          BY <3>6 DEF Byte
        <4> QED BY <3>6, <4>1, <4>4, <4>5, <4>6
      <3>11. AllBytesOf(i, got)
        <4>1. got[1] = [call |-> i, piece |-> 1, byte |-> 1]
          BY <1>4, <3>1
        <4>2. ASSUME NEW k \in 1 .. l PROVE got[k].call = i /\ (k < l => got[k + 1] = After(got[k]))
          <5>1. k < l => k + 1 \in 1 .. l /\ k < Len(Stream)
            BY <1>8
          <5>2. k < l => Stream[k + 1] = After(Stream[k])
            BY <1>i, <1>11, <5>1, Facts
          <5> QED BY <1>11, <1>12, <3>1, <5>1, <5>2
        <4>3. Last(got) = w
          BY <1>7, <3>6 DEF Last
        <4> QED BY <1>4, <1>5, <1>7, <3>7, <3>10, <4>1, <4>2, <4>3 DEF AllBytesOf
      <3> QED BY <3>2, <3>4, <3>11
    <2>12. Completes(n, i)
      <3>1. toClient' = toClient \/ toClient' = Confirmed(i)
        BY <1>3, <1>15
      <3>2. lost' \in BOOLEAN /\ (lost => lost')
        BY <1>5, <1>15
      <3>3. Some' => First'.call \in Nat /\ First'.call > i /\ (~lost' => First' = [call |-> i + 1, piece |-> 1, byte |-> 1])
        BY <2>7, <2>9, <2>10, <2>11
      <3> HIDE DEF First, Some, ScoreDone, Confirmed
      <3> QED BY <1>1, <1>2, <1>3, <1>6, <1>15, <2>11, <3>1, <3>2, <3>3 DEF Completes
    <2> QED BY <2>12, CompleteKeeps
  <1> QED BY <1>1, <1>14, <1>15

(* HandlerUpdateScore when the connection ended.                           *)
LEMMA ScoreEndsKeeps ==
    ASSUME WireInv, RecvScoreEnds
    PROVE  WireInv'
  <1> HIDE DEF Byte, Stream
  <1>i. /\ TypeOK /\ NoStoreAfterError /\ StreamInOrder /\ PositionsMatch /\ RepliesMatch /\ EndsMatch /\ OwnBytesOnly
        /\ NodeOutlivesCleanExit
    BY DEF WireInv
  <1>1. /\ at = "upload" /\ node = "up" /\ toServer = <<>> /\ closing # "open"
        /\ UNCHANGED <<peer, calls, outgoing, awaited, exit, toServer, toClient, total, want, owed, lost>>
    BY DEF RecvScoreEnds, clientVars
  <1>2. \/ ScoreDone /\ closing' \in {"fin", "rst"} /\ UNCHANGED node
        \/ closing = "rst" /\ node' = "ended" /\ UNCHANGED <<closing, at, got, handled>>
    BY DEF RecvScoreEnds
  <1>3. PICK i : i = got[1].call
    OBVIOUS
  <1>4. /\ i \in DOMAIN calls /\ i \in Nat /\ i <= Len(calls) /\ calls[i].kind = "score" /\ got # <<>>
    BY <1>1, <1>3, UploadFacts
  <1>5. got \in Seq(Byte) /\ Len(got) \in Nat /\ Len(calls) \in Nat /\ lost \in BOOLEAN
    BY <1>i, Typed DEF TypeOK
  <1>6. exit = "abrupt" \/ lost
    <2> SUFFICES ASSUME exit # "abrupt", ~lost PROVE FALSE
      BY <1>5
    <2>1. exit = "clean" /\ outgoing = <<>>
      BY <1>i, <1>1 DEF EndsMatch, TypeOK, Idle
    <2>2. NextByte.call = Len(calls) + 1
      BY <2>1 DEF NextByte, FirstOfNext
    <2>3. PICK l \in Nat : l = Len(got)
      BY <1>5
    <2>4. l \in 1 .. l /\ l \in DOMAIN got
      <3>1. l >= 1
        BY <1>4, <1>5, <2>3
      <3> QED BY <1>5, <2>3, <3>1
    <2>5. l = Len(Stream)
      <3>1. Len(toServer) = 0
        BY <1>1
      <3>2. Len(Stream) = Len(got) + Len(toServer)
        BY <1>i, Facts
      <3> QED BY <2>3, <3>1, <3>2
    <2>6. l \in 1 .. Len(Stream) /\ got[l] = Stream[l]
      BY <1>i, <2>3, <2>4, GotBytes
    <2>7. got[l].call = i /\ ~IsEnd(got[l])
      BY <1>i, <1>1, <1>3, <2>4 DEF PositionsMatch, InUpload
    <2>8. NextByte = After(Stream[l])
      BY <1>i, <2>1, <2>5, <2>6, Facts
    <2>9. \/ After(Stream[l]).call = Stream[l].call
          \/ After(Stream[l]).call = Stream[l].call + 1 /\ Stream[l].piece = Len(Sends(calls[Stream[l].call]))
      BY <1>i, <2>6, EndOfCall
    <2>10. Stream[l].piece # Len(Sends(calls[Stream[l].call]))
      BY <1>4, <2>6, <2>7 DEF IsEnd
    <2>11. Len(calls) + 1 = i
      BY <2>2, <2>6, <2>7, <2>8, <2>9, <2>10
    <2> QED BY <1>4, <1>5, <2>11
  <1>7. CASE ScoreDone /\ closing' \in {"fin", "rst"} /\ UNCHANGED node
    <2>1. 0 \in 0 .. Len(toServer) /\ toServer' = Dropped(toServer, 0)
      BY <1>1 DEF Dropped
    <2>2. ~lost' => exit = "abrupt"
      BY <1>1, <1>6
    <2>3. Some' => First'.call \in Nat /\ First'.call > i /\ (~lost' => First' = [call |-> i + 1, piece |-> 1, byte |-> 1])
      <3>1. Stream' = <<>>
        BY <1>1, <1>7 DEF ScoreDone, Stream
      <3>2. ASSUME Some' PROVE exit # "abrupt" /\ lost' /\ outgoing' = <<>>
        <4>1. exit # "abrupt"
          BY <1>1, <3>1, <3>2 DEF Some
        <4>2. exit = "clean" /\ outgoing = <<>>
          BY <1>i, <1>1, <4>1 DEF EndsMatch, TypeOK, Idle
        <4> QED BY <1>1, <1>6, <4>1, <4>2
      <3>3. ASSUME Some' PROVE First' = [call |-> Len(calls) + 1, piece |-> 1, byte |-> 1]
        BY <1>1, <3>1, <3>2, <3>3 DEF First, NextByte, FirstOfNext
      <3>4. Len(calls) + 1 > i /\ Len(calls) + 1 \in Nat
        BY <1>4, <1>5
      <3> QED BY <3>2, <3>3, <3>4
    <2>4. Completes(0, i)
      <3>1. lost' \in BOOLEAN /\ (lost => lost')
        BY <1>1, <1>5
      <3> HIDE DEF First, Some, ScoreDone, Confirmed
      <3> QED BY <1>1, <1>3, <1>6, <1>7, <2>1, <2>2, <2>3, <3>1 DEF Completes
    <2> QED BY <2>4, CompleteKeeps
  <1>8. CASE closing = "rst" /\ node' = "ended" /\ UNCHANGED <<closing, at, got, handled>>
    <2>1. /\ StreamInOrder' /\ HandledInTurn' /\ InPayload' /\ InUpload' /\ Roles' /\ AllAnswered'
          /\ \A h \in DOMAIN handled' : AllBytesOf(handled[h].call, handled[h].got)' \/ exit' = "abrupt" \/ lost'
      BY <1>1, <1>8, SameKeeps
    <2>2. TypeOK' /\ Counted' /\ NoStoreAfterError' /\ EndsMatch'
      BY <1>i, <1>1, <1>8 DEF TypeOK, PositionsMatch, Counted, NoStoreAfterError, EndsMatch, Idle
    <2>3. OnlyAwaited' /\ Balanced'
      BY <1>i, <1>1, <1>8 DEF RepliesMatch, OnlyAwaited, Balanced, LastWaits, Waits, Reply
    <2>4. OwnBytesOnly'
      <3> HIDE DEF AllBytesOf
      <3> QED BY <1>i, <1>1, <1>8, <2>1 DEF OwnBytesOnly
    <2>5. NodeOutlivesCleanExit'
      BY <1>1, <1>6 DEF NodeOutlivesCleanExit
    <2> QED BY <2>1, <2>2, <2>3, <2>4, <2>5 DEF WireInv, PositionsMatch, RepliesMatch
  <1> QED BY <1>2, <1>7, <1>8

-----------------------------------------------------------------------------
(* The invariant.                                                          *)

(* Nothing changes.                                                        *)
LEMMA StutterKeeps ==
    ASSUME WireInv, UNCHANGED vars
    PROVE  WireInv'
  <1> HIDE DEF Byte, Stream
  <1>i. /\ TypeOK /\ NoStoreAfterError /\ PositionsMatch /\ RepliesMatch /\ EndsMatch /\ OwnBytesOnly /\ NodeOutlivesCleanExit
    BY DEF WireInv
  <1>1. UNCHANGED <<peer, calls, outgoing, awaited, exit, toServer, toClient, closing, at, total, got, want, owed, node, handled, lost>>
    BY DEF vars, clientVars, serverVars
  <1>2. /\ StreamInOrder' /\ HandledInTurn' /\ InPayload' /\ InUpload' /\ Roles' /\ AllAnswered'
        /\ \A h \in DOMAIN handled' : AllBytesOf(handled[h].call, handled[h].got)' \/ exit' = "abrupt" \/ lost'
    BY <1>1, SameKeeps
  <1>3. TypeOK' /\ Counted' /\ NoStoreAfterError' /\ EndsMatch'
    BY <1>i, <1>1 DEF TypeOK, PositionsMatch, Counted, NoStoreAfterError, EndsMatch, Idle
  <1>4. OnlyAwaited' /\ Balanced'
    BY <1>i, <1>1 DEF RepliesMatch, OnlyAwaited, Balanced, LastWaits, Waits, Reply
  <1>5. OwnBytesOnly'
    <2> HIDE DEF AllBytesOf
    <2> QED BY <1>i, <1>1, <1>2 DEF OwnBytesOnly
  <1>6. NodeOutlivesCleanExit'
    BY <1>i, <1>1 DEF NodeOutlivesCleanExit
  <1> QED BY <1>2, <1>3, <1>4, <1>5, <1>6 DEF WireInv, PositionsMatch, RepliesMatch

\* The invariant holds before the first call.
LEMMA WireInitially ==
    ASSUME Init
    PROVE  WireInv
  <1>1. TypeOK
    <2>1. WrapAt \in Nat /\ WrapAt > 0 /\ BufCap \in Nat /\ EndLen \in Nat /\ MaxCalls \in Nat /\ HeaderLen \in Nat
      BY Constants, BoundsAssumption
    <2>2. 0 \in 0 .. WrapAt - 1
      BY <2>1
    <2>3. Len(toClient) <= BufCap + EndLen * Len(handled) /\ Len(toServer) <= BufCap
      <3>1. Len(toClient) = 0 /\ Len(handled) = 0 /\ Len(toServer) = 0
        BY DEF Init
      <3>2. EndLen * 0 = 0
        BY <2>1
      <3> QED BY <2>1, <3>1, <3>2
    <2>4. Len(handled) <= Len(calls) /\ Len(calls) <= MaxCalls
      <3>1. Len(handled) = 0 /\ Len(calls) = 0
        BY DEF Init
      <3> QED BY <2>1, <3>1
    <2>5. calls \in Seq(CallsOf(peer)) /\ outgoing \in Seq(Nat) /\ toServer \in Seq(Byte) /\ toClient \in Seq(Nat)
      <3> HIDE DEF Byte
      <3> QED BY DEF Init
    <2>6. got \in Seq(Byte) /\ want \in Seq(Nat) /\ handled \in Seq([call : Nat, got : Seq(Byte)])
      <3> HIDE DEF Byte
      <3> QED BY DEF Init
    <2>7. awaited \in Nat /\ owed \in Nat /\ lost \in BOOLEAN /\ total \in 0 .. WrapAt - 1
      BY <2>2 DEF Init
    <2>8. /\ (at = "payload") = (want # <<>>) /\ (at = "reply") = (owed > 0)
      BY DEF Init
    <2>9. /\ peer \in {"cn", "dispatcher"} /\ exit \in {"none", "clean", "abrupt"} /\ closing \in {"open", "fin", "rst"}
          /\ at \in {"header", "payload", "upload", "reply", "left"} /\ node \in {"up", "ended"}
      BY DEF Init
    <2> HIDE DEF Byte
    <2> QED BY <2>3, <2>4, <2>5, <2>6, <2>7, <2>8, <2>9 DEF TypeOK
  <1>2. NoStoreAfterError /\ OwnBytesOnly /\ NodeOutlivesCleanExit /\ EndsMatch
    BY DEF Init, NoStoreAfterError, OwnBytesOnly, NodeOutlivesCleanExit, EndsMatch, Idle
  <1>3. Stream = <<>>
    BY DEF Init, Stream
  <1>4. StreamInOrder
    <2>1. DOMAIN Stream = {} /\ outgoing = <<>>
      BY <1>3 DEF Init
    <2> HIDE DEF Stream
    <2> QED BY <2>1 DEF StreamInOrder
  <1>5. HandledInTurn
    <2>1. First = Turn
      BY <1>3 DEF Init, First, NextByte, FirstOfNext, Turn
    <2>2. DOMAIN handled = {}
      BY DEF Init
    <2> HIDE DEF Stream
    <2> QED BY <2>1, <2>2 DEF HandledInTurn
  <1>6. PositionsMatch
    <2>1. HeaderLen \in Nat /\ HeaderLen >= 1
      BY Constants
    <2> QED BY <2>1 DEF Init, PositionsMatch, Counted, InPayload, InUpload, Roles
  <1>7. RepliesMatch
    BY DEF Init, RepliesMatch, AllAnswered, OnlyAwaited, Balanced, LastWaits
  <1> QED BY <1>1, <1>2, <1>4, <1>5, <1>6, <1>7 DEF WireInv

\* The invariant survives every step of the client and of the server.
LEMMA WireStep ==
    ASSUME WireInv, [Next]_vars
    PROVE  WireInv'
  <1>1. CASE \E c \in CallsOf(peer) : Issue(c)
    BY <1>1, IssueKeeps
  <1>2. CASE ClientSend
    BY <1>2, SendKeeps
  <1>3. CASE ClientRecv
    BY <1>3, RecvKeeps
  <1>4. CASE ClientFails
    BY <1>4, CloseKeeps DEF ClientFails
  <1>5. CASE ClientEnds
    BY <1>5, CloseKeeps DEF ClientEnds
  <1>6. CASE RecvHeader
    BY <1>6, HeaderKeeps
  <1>7. CASE RecvMisframed
    BY <1>7, MisframedKeeps
  <1>8. CASE RecvError
    BY <1>8, ErrorKeeps
  <1>9. CASE RecvEnd
    BY <1>9, EndKeeps
  <1>10. CASE RecvPayload
    BY <1>10, PayloadKeeps
  <1>11. CASE RecvPayloadFails
    BY <1>11, PayloadFailsKeeps
  <1>12. CASE SendReply
    BY <1>12, ReplyKeeps
  <1>13. CASE SendReplyToNobody
    BY <1>13, ReplyToNobodyKeeps
  <1>14. CASE RecvScore
    BY <1>14, ScoreKeeps
  <1>15. CASE RecvScoreEnds
    BY <1>15, ScoreEndsKeeps
  <1>16. CASE Over
    BY <1>16, StutterKeeps DEF Over
  <1>17. CASE UNCHANGED vars
    BY <1>17, StutterKeeps
  <1> QED BY <1>1, <1>2, <1>3, <1>4, <1>5, <1>6, <1>7, <1>8, <1>9, <1>10, <1>11, <1>12, <1>13, <1>14, <1>15, <1>16, <1>17
          DEF Next, ClientStep, ServerStep

\* At every moment the positions of both ends, the bytes under way between them and the replies
\* fit together, however send and recv cut the stream (SockSend, SockRecv, Run).
THEOREM WireInvariant == Spec => []WireInv
  <1>1. Init => WireInv
    BY WireInitially
  <1>2. WireInv /\ [Next]_vars => WireInv'
    BY WireStep
  <1> QED BY <1>1, <1>2, PTL DEF Spec

\* A handler works on exactly the bytes of its call and a client takes no other call's reply.
THEOREM OwnBytes == Spec => []OwnBytesOnly
  <1>1. WireInv => OwnBytesOnly
    BY DEF WireInv
  <1> QED BY <1>1, WireInvariant, PTL

\* A client that ends between two calls leaves the node running, but for the options of a build.
THEOREM NodeOutlives == Spec => []NodeOutlivesCleanExit
  <1>1. WireInv => NodeOutlivesCleanExit
    BY DEF WireInv
  <1> QED BY <1>1, WireInvariant, PTL

-----------------------------------------------------------------------------
(* The refinement.                                                         *)

\* The handled calls, as CallStream has them.
Done == [h \in DOMAIN handled |-> calls[handled[h].call]]

(* Every call handled is one of the client's.                              *)
LEMMA DoneFacts ==
    ASSUME TypeOK, HandledInTurn
    PROVE  /\ Len(handled) \in Nat /\ Len(calls) \in Nat /\ DOMAIN handled = 1 .. Len(handled) /\ DOMAIN calls = 1 .. Len(calls)
           /\ Done \in Seq(CallsOf(peer)) /\ Len(Done) = Len(handled) /\ DOMAIN Done = DOMAIN handled
           /\ \A h \in DOMAIN handled : handled[h].call \in DOMAIN calls /\ Done[h] = calls[handled[h].call]
  <1> HIDE DEF Byte
  <1>1. calls \in Seq(CallsOf(peer)) /\ handled \in Seq([call : Nat, got : Seq(Byte)])
    BY DEF TypeOK
  <1>2. Len(handled) \in Nat /\ Len(calls) \in Nat /\ DOMAIN handled = 1 .. Len(handled) /\ DOMAIN calls = 1 .. Len(calls)
    BY <1>1
  <1>3. ASSUME NEW h \in DOMAIN handled PROVE handled[h].call \in DOMAIN calls /\ calls[handled[h].call] \in CallsOf(peer)
    <2>1. handled[h].call \in Nat
      <3>1. handled[h] \in [call : Nat, got : Seq(Byte)]
        BY <1>1, <1>2, <1>3, ElementOfSeq
      <3> QED BY <3>1
    <2>2. h <= handled[h].call /\ handled[h].call <= Len(calls) /\ h \in 1 .. Len(handled)
      BY <1>2 DEF HandledInTurn
    <2>3. handled[h].call \in DOMAIN calls
      BY <1>2, <2>1, <2>2
    <2> QED BY <1>1, <2>3, ElementOfSeq
  <1>4. Done = [h \in 1 .. Len(handled) |-> calls[handled[h].call]]
    BY <1>2 DEF Done
  <1>5. Done \in Seq(CallsOf(peer)) /\ Len(Done) = Len(handled) /\ DOMAIN Done = DOMAIN handled
    <2>1. PICK m \in Nat : m = Len(handled)
      BY <1>2
    <2>2. \A h \in 1 .. m : calls[handled[h].call] \in CallsOf(peer)
      BY <1>2, <1>3, <2>1
    <2>3. PICK f : f = Done
      OBVIOUS
    <2>4. f = [h \in 1 .. m |-> calls[handled[h].call]]
      BY <1>4, <2>1, <2>3
    <2>5. f \in [1 .. m -> CallsOf(peer)]
      BY <2>2, <2>4
    <2>6. f \in Seq(CallsOf(peer)) /\ Len(f) = m /\ DOMAIN f = 1 .. m
      BY <2>5
    <2> QED BY <1>2, <2>1, <2>3, <2>6
  <1> QED BY <1>2, <1>3, <1>5 DEF Done

\* A call is handled when its turn has come, unless an END was missed.
LEMMA HandlesPromised ==
    ASSUME WireInv, WireInv', NEW e, handled' = Append(handled, e), calls' = calls, ~lost'
    PROVE  Promised!Handle
  <1> HIDE DEF Byte
  <1>i. TypeOK /\ HandledInTurn /\ TypeOK' /\ HandledInTurn'
    BY DEF WireInv
  <1>1. PICK m \in Nat : m = Len(handled)
    BY <1>i, DoneFacts
  <1>2. handled \in Seq([call : Nat, got : Seq(Byte)]) /\ handled' \in Seq([call : Nat, got : Seq(Byte)])
    BY <1>i DEF TypeOK
  <1>3. /\ Len(handled') = m + 1 /\ handled'[m + 1] = e /\ \A h \in 1 .. m : handled'[h] = handled[h]
    <2>1. PICK s : s = handled
      OBVIOUS
    <2>2. s \in Seq([call : Nat, got : Seq(Byte)]) /\ Len(s) = m /\ handled' = Append(s, e)
      BY <1>1, <1>2, <2>1
    <2> QED BY <2>1, <2>2
  <1>4. Len(handled') <= Len(calls') /\ handled'[m + 1].call = m + 1
    <2>1. Len(handled') <= Len(calls')
      BY <1>i DEF TypeOK
    <2>2. m + 1 \in DOMAIN handled'
      BY <1>2, <1>3
    <2>3. \A h \in DOMAIN handled' : handled'[h].call = h
      BY <1>i DEF HandledInTurn
    <2> QED BY <2>1, <2>2, <2>3
  <1>5. m < Len(calls) /\ Len(calls) \in Nat
    <2>1. Len(calls) \in Nat
      BY <1>i, DoneFacts
    <2> QED BY <1>3, <1>4, <2>1
  <1>6. /\ Len(Done) = m /\ Done \in Seq(CallsOf(peer)) /\ DOMAIN handled = 1 .. m
        /\ \A h \in 1 .. m : Done[h] = calls[handled[h].call]
    BY <1>i, <1>1, DoneFacts
  <1>7. Done' = Append(Done, calls[m + 1])
    <2>1. DOMAIN handled' = 1 .. m + 1
      BY <1>2, <1>3
    <2>2. Done' = [h \in 1 .. m + 1 |-> calls[handled'[h].call]]
      BY <2>1 DEF Done
    <2>3. PICK d : d = Done
      OBVIOUS
    <2>4. PICK x : x = calls[m + 1]
      OBVIOUS
    <2>5. d \in Seq(CallsOf(peer)) /\ Len(d) = m
      BY <1>6, <2>3
    <2>6. x \in CallsOf(peer) /\ m + 1 \in Nat
      <3>1. calls \in Seq(CallsOf(peer)) /\ m + 1 \in 1 .. Len(calls)
        <4>1. calls \in Seq(CallsOf(peer))
          BY <1>i DEF TypeOK
        <4> QED BY <1>5, <4>1
      <3> QED BY <2>4, <3>1, ElementOfSeq
    <2>7. ASSUME NEW h \in 1 .. m + 1 PROVE calls[handled'[h].call] = IF h = m + 1 THEN x ELSE d[h]
      <3>1. CASE h = m + 1
        BY <1>4, <2>4, <3>1
      <3>2. CASE h # m + 1
        <4>1. h \in 1 .. m
          BY <3>2
        <4> QED BY <1>3, <1>6, <2>3, <3>2, <4>1
      <3> QED BY <3>1, <3>2
    <2>8. PICK a : a = Append(d, x)
      OBVIOUS
    <2>9. a \in Seq(CallsOf(peer)) /\ Len(a) = m + 1 /\ \A h \in 1 .. m + 1 : a[h] = IF h = m + 1 THEN x ELSE d[h]
      BY <2>5, <2>6, <2>8
    <2>10. PICK b : b = Done'
      OBVIOUS
    <2>11. b = [h \in 1 .. m + 1 |-> a[h]]
      BY <2>2, <2>7, <2>9, <2>10
    <2>12. b \in Seq(CallsOf(peer)) /\ Len(b) = m + 1 /\ \A h \in 1 .. m + 1 : b[h] = a[h]
      <3>1. \A h \in 1 .. m + 1 : a[h] \in CallsOf(peer)
        <4>1. \A h \in 1 .. m + 1 : h \in 1 .. Len(a)
          BY <2>9
        <4> QED BY <2>9, <4>1, ElementOfSeq
      <3>2. b \in [1 .. m + 1 -> CallsOf(peer)]
        BY <2>11, <3>1
      <3> QED BY <2>6, <2>11, <3>2
    <2>13. a = b
      BY <2>9, <2>12, SeqEqual
    <2> QED BY <2>3, <2>4, <2>8, <2>10, <2>13
  <1> QED BY <1>5, <1>6, <1>7 DEF Promised!Handle, Done

\* Nothing of a call is promised by a step that handles none and issues none.
LEMMA SamePromised ==
    ASSUME UNCHANGED <<calls, handled>>
    PROVE  UNCHANGED Promised!vars
  BY DEF Promised!vars

\* The next call is issued when the calls it has to wait for are handled.
LEMMA IssuePromised ==
    ASSUME WireInv, NEW c \in CallsOf(peer), Issue(c), ~lost
    PROVE  Promised!Issue(c) /\ c \in CallsOf("cn") \cup CallsOf("dispatcher")
  <1> HIDE DEF Byte
  <1>i. TypeOK /\ HandledInTurn /\ AllAnswered
    BY DEF WireInv, RepliesMatch
  <1>1. Idle /\ calls' = Append(calls, c) /\ handled' = handled
    BY DEF Issue, serverVars
  <1>2. ASSUME NEW i \in DOMAIN calls,
               calls[i] \in {d \in CallsOf("cn") \cup CallsOf("dispatcher") : d.kind # "score" /\ Reply(d) > 0}
        PROVE  i <= Len(handled)
    BY <1>i, <1>1, <1>2 DEF AllAnswered, Waits, Idle
  <1>3. Len(Done) = Len(handled)
    BY <1>i, DoneFacts
  <1>4. Done' = Done
    <2>1. \A h \in DOMAIN handled : handled[h].call \in 1 .. Len(calls)
      BY <1>i, DoneFacts
    <2>2. calls \in Seq(CallsOf(peer))
      BY <1>i DEF TypeOK
    <2>3. \A k \in 1 .. Len(calls) : calls'[k] = calls[k]
      BY <1>1, <2>2
    <2> QED BY <1>1, <2>1, <2>3 DEF Done
  <1>5. peer \in {"cn", "dispatcher"}
    BY <1>i DEF TypeOK
  <1>6. c \in CallsOf("cn") \cup CallsOf("dispatcher")
    BY <1>5
  <1> QED BY <1>1, <1>2, <1>3, <1>4, <1>6 DEF Promised!Issue, Done

\* Every step is one of the promised service, a stutter, or excused by a missed END.
LEMMA StepPromised ==
    ASSUME WireInv, WireInv', [Next]_vars, ~lost'
    PROVE  Promised!Next \/ UNCHANGED Promised!vars
  <1>1. CASE \E c \in CallsOf(peer) : Issue(c)
    <2>1. PICK c \in CallsOf(peer) : Issue(c)
      BY <1>1
    <2>2. ~lost
      BY <2>1 DEF Issue, serverVars
    <2>3. Promised!Issue(c) /\ c \in CallsOf("cn") \cup CallsOf("dispatcher")
      BY <2>1, <2>2, IssuePromised
    <2> QED BY <2>3 DEF Promised!Next
  <1>2. CASE ClientStep \/ ClientEnds \/ Over \/ UNCHANGED vars
    <2>1. UNCHANGED <<calls, handled>>
      BY <1>2 DEF ClientStep, ClientSend, ClientRecv, ClientFails, ClientEnds, CloseConnection, Over, vars, clientVars, serverVars
    <2> QED BY <2>1, SamePromised
  <1>3. CASE ServerStep
    <2>1. calls' = calls
      BY <1>3 DEF ServerStep, RecvHeader, RecvMisframed, RecvError, RecvEnd, RecvPayload, RecvPayloadFails,
           SendReply, SendReplyToNobody, RecvScore, RecvScoreEnds, clientVars
    <2>2. handled' = handled \/ \E e : handled' = Append(handled, e)
      <3>1. CASE RecvHeader
        <4>1. handled' = handled \/ \E units : Dispatch(units)
          BY <3>1 DEF RecvHeader
        <4> QED BY <4>1 DEF Dispatch, Handle
      <3>2. CASE RecvPayload
        <4>1. handled' = handled \/ \E units : Handle(units)
          BY <3>2 DEF RecvPayload
        <4> QED BY <4>1 DEF Handle
      <3>3. CASE RecvScore \/ RecvScoreEnds
        <4>1. handled' = handled \/ ScoreDone
          BY <3>3 DEF RecvScore, RecvScoreEnds
        <4> QED BY <4>1 DEF ScoreDone
      <3>4. CASE RecvMisframed \/ RecvError \/ RecvEnd \/ RecvPayloadFails \/ SendReply \/ SendReplyToNobody
        BY <3>4 DEF RecvMisframed, RecvError, RecvEnd, RecvPayloadFails, SendReply, SendReplyToNobody
      <3> QED BY <1>3, <3>1, <3>2, <3>3, <3>4 DEF ServerStep
    <2>3. CASE handled' = handled
      BY <2>1, <2>3, SamePromised
    <2>4. CASE \E e : handled' = Append(handled, e)
      BY <2>1, <2>4, HandlesPromised DEF Promised!Next
    <2> QED BY <2>2, <2>3, <2>4
  <1> QED BY <1>1, <1>2, <1>3 DEF Next

(* Nothing is issued or handled at first.                                  *)
LEMMA InitPromised ==
    ASSUME Init
    PROVE  Promised!Init
  <1>1. Done = <<>>
    <2>1. Done = [h \in 1 .. 0 |-> calls[handled[h].call]]
      BY DEF Init, Done
    <2> QED BY <2>1
  <1> QED BY <1>1 DEF Init, Promised!Init, Done

\* Calls are handled in the order they were issued, each once, and none is issued before the
\* call it waits for was handled, except after an END the dispatcher missed.
THEOREM KeepsPromise == Spec => Implements
  <1>1. Init => Promised!Init
    BY InitPromised
  <1>2. WireInv /\ WireInv' /\ [Next]_vars => [Promised!Next \/ lost']_(Promised!vars)
    BY StepPromised
  <1> QED BY <1>1, <1>2, WireInvariant, PTL DEF Spec, Implements

\* A compute node keeps the promise without exception: its connections refine the abstract stream.
THEOREM NodeKeepsPromise == Spec /\ peer = "cn" => Promised!Spec
  <1>1. Init => Promised!Init
    BY InitPromised
  <1>2. peer = "cn" /\ [Next]_vars => (peer = "cn")'
    BY DEF Next, Issue, ClientStep, ClientSend, ClientRecv, ClientFails, ClientEnds, CloseConnection, Over,
        ServerStep, RecvHeader, RecvMisframed, RecvError, RecvEnd, RecvPayload, RecvPayloadFails,
        SendReply, SendReplyToNobody, RecvScore, RecvScoreEnds, vars
  <1>3. WireInv' /\ (peer = "cn")' => ~lost'
    BY DEF WireInv, PositionsMatch, Roles
  <1>4. WireInv /\ WireInv' /\ (peer = "cn")' /\ [Next]_vars => [Promised!Next]_(Promised!vars)
    BY <1>3, StepPromised
  <1> QED BY <1>1, <1>2, <1>4, WireInvariant, PTL DEF Spec, Promised!Spec
=============================================================================
